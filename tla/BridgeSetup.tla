----------------------------- MODULE BridgeSetup -----------------------------
(***************************************************************************)
(* How the bridge gets its root identity: `setup-api` (SetupManager,       *)
(* DatabaseSeeder, KeyGenerator) and what the server asks for when it      *)
(* starts (ConfigurationService.getRootIdentityId).                        *)
(*                                                                         *)
(* The deployments run setup-api before every start of the server, restart *)
(* it when it fails and may run it in two containers at once.  Every step  *)
(* is one read or write of the database or the Tangle, and a container     *)
(* may die between any two of them.                                        *)
(***************************************************************************)
EXTENDS Naturals, FiniteSets

CONSTANTS Setup,      \* containers that run setup-api
          Ident,      \* identities they may create
          Secret,     \* values of SERVER_SECRET
          NoIdent, NoKeys,
          MaxCrashes, \* bound of the model
          Event       \* what else may happen in this instance

VARIABLES unique,   \* the unique index on the users' names exists
          root,     \* users that are a server identity
          keys,     \* the secret an identity's stored keys are encrypted with
          trusted,  \* the trusted roots
          service,  \* identities whose published document has the bitmap
          bitmap,   \* identities whose bitmap the database has
          issued,   \* the number of credentials stored for an issuer
          listed,   \* users whose list of credentials is not empty
          secret,   \* the SERVER_SECRET of this deployment
          server,   \* "up" or "down"
          pc, me, bare, next,  \* of a setup: its step and what it has read
          crashes

store == <<unique, root, keys, trusted, service, bitmap, issued, listed>>
local == <<pc, me, bare, next>>
deployment == <<secret, server, crashes>>
vars == <<store, local, deployment>>

Step == {"off", "look", "open", "create", "save", "user", "trust", "trusting", "bitmap",
         "publish", "saving", "decide", "store", "list", "done"}

Init ==
  /\ unique = FALSE /\ root = {} /\ trusted = {} /\ service = {} /\ bitmap = {} /\ listed = {}
  /\ keys = [i \in Ident |-> NoKeys]
  /\ issued = [i \in Ident |-> 0]
  /\ secret \in Secret
  /\ server = "down"
  /\ pc = [s \in Setup |-> "off"]
  /\ me = [s \in Setup |-> NoIdent]
  /\ bare = [s \in Setup |-> FALSE]
  /\ next = [s \in Setup |-> 0]
  /\ crashes = 0

At(s, step) == pc[s] = step
Go(s, step) == pc' = [pc EXCEPT ![s] = step]

\* The process exits: a throw has the exit code -1 and the container is
\* started again, a return has the exit code 0.
Leave(s, step) ==
  /\ Go(s, step)
  /\ me' = [me EXCEPT ![s] = NoIdent]
  /\ bare' = [bare EXCEPT ![s] = FALSE]
  /\ next' = [next EXCEPT ![s] = 0]

Throw(s) == Leave(s, "off")
Return(s) == Leave(s, "done")
Continue(s, step) == Go(s, step) /\ UNCHANGED <<me, bare, next>>

-----------------------------------------------------------------------------
(* Variants of the code that a property must tell apart from it.           *)

\* the seeder makes no unique index.
SeedNothing(s) ==
  /\ pc[s] \in {"off", "done"}
  /\ Continue(s, "look")
  /\ UNCHANGED store

\* an existing root needs no trusted root any more.
OpenIsEnough(s) ==
  /\ At(s, "open")
  /\ IF keys[me[s]] = secret THEN Continue(s, "bitmap") ELSE Return(s)
  /\ UNCHANGED store

\* the root is added without a look at the trusted roots.
AlwaysTrust(s) == At(s, "trust") /\ Continue(s, "trusting") /\ UNCHANGED store

\* the bitmap is saved before it is published.
SaveFirst(s) ==
  /\ At(s, "publish")
  /\ IF me[s] \in bitmap
     THEN Throw(s) /\ UNCHANGED bitmap
     ELSE bitmap' = bitmap \cup {me[s]} /\ Continue(s, "saving")
  /\ UNCHANGED <<unique, root, keys, trusted, service, issued, listed>>

\* a credential is issued at every run.
AlwaysIssue(s) ==
  /\ At(s, "decide")
  /\ next' = [next EXCEPT ![s] = issued[me[s]]]
  /\ Go(s, "store")
  /\ UNCHANGED <<store, me, bare>>

-----------------------------------------------------------------------------
(* setup-api.                                                              *)

\* seed: the indexes come first, at every run.
Seed(s) ==
  /\ pc[s] \in {"off", "done"}
  /\ unique' = TRUE
  /\ Continue(s, "look")
  /\ UNCHANGED <<root, keys, trusted, service, bitmap, issued, listed>>

\* keyGeneration: is there a root identity?  More than one is an error.
Look(s) ==
  /\ At(s, "look")
  /\ CASE Cardinality(root) > 1 -> Throw(s)
       [] root = {} -> Continue(s, "create")
       [] OTHER -> /\ \E i \in root : me' = [me EXCEPT ![s] = i]
                   /\ Go(s, "open")
                   /\ UNCHANGED <<bare, next>>
  /\ UNCHANGED store

\* Its keys must be there and, decrypted with the secret, sign a nonce.
\* Otherwise the setup is over, with the exit code of success.
Open(s) ==
  /\ At(s, "open")
  /\ IF keys[me[s]] = secret THEN Continue(s, "user") ELSE Return(s)
  /\ UNCHANGED store

\* createIdentity: the identity is published, then the user inserted; the
\* name root-identity is unique.
AddUser(s) ==
  /\ At(s, "create")
  /\ IF unique /\ root # {}
     THEN Throw(s) /\ UNCHANGED root
     ELSE \E i \in Ident \ root :
            /\ root' = root \cup {i}
            /\ me' = [me EXCEPT ![s] = i]
            /\ Go(s, "save")
            /\ UNCHANGED <<bare, next>>
  /\ UNCHANGED <<unique, keys, trusted, service, bitmap, issued, listed>>

\* saveIdentityKeys: the keys were in this process only.
SaveKeys(s) ==
  /\ At(s, "save")
  /\ keys' = [keys EXCEPT ![me[s]] = secret]
  /\ Continue(s, "user")
  /\ UNCHANGED <<unique, root, trusted, service, bitmap, issued, listed>>

\* getUser: whether it has a credential is decided by this document.
ReadUser(s) ==
  /\ At(s, "user")
  /\ bare' = [bare EXCEPT ![s] = me[s] \notin listed]
  /\ Go(s, "trust")
  /\ UNCHANGED <<store, me, next>>

ReadRoots(s) ==
  /\ At(s, "trust")
  /\ Continue(s, IF me[s] \in trusted THEN "bitmap" ELSE "trusting")
  /\ UNCHANGED store

\* The identity is the _id of the entry: a second one throws.
AddRoot(s) ==
  /\ At(s, "trusting")
  /\ IF me[s] \in trusted
     THEN Throw(s) /\ UNCHANGED trusted
     ELSE trusted' = trusted \cup {me[s]} /\ Continue(s, "bitmap")
  /\ UNCHANGED <<unique, root, keys, service, bitmap, issued, listed>>

ReadBitmap(s) ==
  /\ At(s, "bitmap")
  /\ Continue(s, IF me[s] \in bitmap THEN "decide" ELSE "publish")
  /\ UNCHANGED store

\* createRevocationBitmap: inserting a service twice changes nothing.
PublishBitmap(s) ==
  /\ At(s, "publish")
  /\ service' = service \cup {me[s]}
  /\ Continue(s, "saving")
  /\ UNCHANGED <<unique, root, keys, trusted, bitmap, issued, listed>>

SaveBitmap(s) ==
  /\ At(s, "saving")
  /\ IF me[s] \in bitmap
     THEN Throw(s) /\ UNCHANGED bitmap
     ELSE bitmap' = bitmap \cup {me[s]} /\ Continue(s, "decide")
  /\ UNCHANGED <<unique, root, keys, trusted, service, issued, listed>>

\* A credential for a root that had none; its index is read first.
Decide(s) ==
  /\ At(s, "decide")
  /\ IF ~bare[s]
     THEN Return(s)
     ELSE /\ next' = [next EXCEPT ![s] = issued[me[s]]]
          /\ Go(s, "store")
          /\ UNCHANGED <<me, bare>>
  /\ UNCHANGED store

\* addVerifiableCredential: the index is part of the _id.
StoreCredential(s) ==
  /\ At(s, "store")
  /\ IF next[s] < issued[me[s]]
     THEN Throw(s) /\ UNCHANGED issued
     ELSE issued' = [issued EXCEPT ![me[s]] = @ + 1] /\ Continue(s, "list")
  /\ UNCHANGED <<unique, root, keys, trusted, service, bitmap, listed>>

\* addUserVC.
ListCredential(s) ==
  /\ At(s, "list")
  /\ listed' = listed \cup {me[s]}
  /\ Return(s)
  /\ UNCHANGED <<unique, root, keys, trusted, service, bitmap, issued>>

SetupStep(s) ==
  /\ \/ Seed(s) \/ Look(s) \/ Open(s) \/ AddUser(s) \/ SaveKeys(s) \/ ReadUser(s)
     \/ ReadRoots(s) \/ AddRoot(s) \/ ReadBitmap(s) \/ PublishBitmap(s) \/ SaveBitmap(s)
     \/ Decide(s) \/ StoreCredential(s) \/ ListCredential(s)
  /\ UNCHANGED deployment

-----------------------------------------------------------------------------
(* The server and the deployment.                                          *)

\* startServer: exactly one root identity, with stored keys; otherwise the
\* process exits and is started again.
StartServer ==
  /\ server = "down"
  /\ \E i \in Ident : root = {i} /\ keys[i] # NoKeys
  /\ server' = "up"
  /\ UNCHANGED <<store, local, secret, crashes>>

\* The container of a setup dies (its process, its node, a request that
\* fails): it is started again.
Crash(s) ==
  /\ pc[s] \notin {"off", "done"}
  /\ crashes < MaxCrashes
  /\ crashes' = crashes + 1
  /\ Throw(s)
  /\ UNCHANGED <<store, secret, server>>

\* The containers are deployed again, with another SERVER_SECRET.
Rotate ==
  /\ "rotate" \in Event
  /\ \A s \in Setup : pc[s] \in {"off", "done"}
  /\ secret' \in Secret \ {secret}
  /\ server' = "down"
  /\ UNCHANGED <<store, local, crashes>>

-----------------------------------------------------------------------------
Next == (\E s \in Setup : SetupStep(s) \/ Crash(s)) \/ StartServer \/ Rotate

Spec == Init /\ [][Next]_vars

\* The orchestrator runs the setup (again) and restarts the server.
FairSpec == Spec /\ WF_vars(StartServer) /\ \A s \in Setup : WF_vars(SetupStep(s))

-----------------------------------------------------------------------------
(* Properties.                                                             *)

TypeOK ==
  /\ unique \in BOOLEAN
  /\ root \subseteq Ident /\ trusted \subseteq Ident /\ service \subseteq Ident
  /\ bitmap \subseteq Ident /\ listed \subseteq Ident
  /\ keys \in [Ident -> Secret \cup {NoKeys}]
  /\ issued \in [Ident -> 0..(Cardinality(Setup) + MaxCrashes)]
  /\ secret \in Secret /\ server \in {"up", "down"} /\ crashes \in 0..MaxCrashes
  /\ pc \in [Setup -> Step] /\ me \in [Setup -> Ident \cup {NoIdent}]
  /\ bare \in [Setup -> BOOLEAN] /\ next \in [Setup -> Nat]

\* However many setups look for a root at the same time and die on their
\* way, there is never a second one, with which no server would start.
OneRoot == Cardinality(root) <= 1

\* A bitmap the database has is in the published document, so a credential
\* that is stored can be verified and revoked, whenever the setup died.
BitmapIsPublished ==
  /\ bitmap \subseteq service
  /\ \A i \in Ident : issued[i] > 0 => i \in service

Ready(i) == i \in trusted /\ i \in bitmap /\ i \in listed

\* The root identity is stored, but the keys died with the setup.
Lost == /\ root # {}
        /\ \A i \in root : keys[i] = NoKeys
        /\ \A s \in Setup : ~At(s, "save")

\* Setups that die are resumed: in the end the server runs with everything
\* set up, unless one of them died between the root and its keys.
ServesUnlessLost ==
  <>[](server = "up" /\ \A i \in root : Ready(i)) \/ <>[]Lost
===============================================================================
