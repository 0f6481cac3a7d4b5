-------------------------------- MODULE Bridge --------------------------------
(***************************************************************************)
(* What the bridge knows of identities, with the identities and programs   *)
(* that its parts have in common: their credentials and whom those make    *)
(* trusted (Trust), the users (Requests), their logins (Login), the root   *)
(* identity of the bridge itself (Rooting), and the database of an older   *)
(* version (Data).  Each part is a specification of its own; here is what  *)
(* must hold of them, whatever else is going on.                           *)
(***************************************************************************)
EXTENDS Naturals, FiniteSets, Sequences

CONSTANTS Id,          \* identities
          Client,      \* programs that send requests
          Owner,       \* the identity a program has the keys of
          Event,       \* what else may happen in this instance

          \* credentials
          Sender, Privileged, Admin, Server, Other, UserType, VcType, MaxIssued, MaxShown, NoVc,
          \* users
          Name, Tool, Own, Admins, Body, Patch, ListLimit, Unset, NoDoc, NoView,
          \* logins
          FirstAdmin, Nobody,
          \* setup
          Setup, Secret, NoIdent, NoKeys, MaxCrashes,
          \* migration
          Migrator, MaxKills

ASSUME IdAssumption == Id # {} /\ Own \subseteq Id /\ Admins \subseteq Id /\ Sender \subseteq Id
ASSUME OwnerAssumption == Owner \in [Client -> Id]
ASSUME BoundAssumption == MaxIssued \in Nat /\ ListLimit \in Nat \ {0} /\ MaxCrashes \in Nat
ASSUME IssuerAssumption == Server # Other
ASSUME NoVcAssumption == NoVc \notin Nat
ASSUME SetupAssumption == IsFiniteSet(Setup)

VARIABLES vcs, revoked, roots, task, vp,
          docs, published, keys, token, pc, body, target, raised, gone, view,
          role, nonce, phase, loaded, jwts, held, disturbed,
          unique, root, rootKeys, trusted, service, bitmap, issued, listed,
          secret, server, stage, found, bare, next, crashes,
          collections, before, keyDocs, exists, migrating, kills

Trust == INSTANCE NetworkOfTrust WITH
  User <- Id, Caller <- Sender, MaxVc <- MaxIssued, None <- NoVc

Requests == INSTANCE Users WITH
  MaxVc <- ListLimit

ASSUME BodyAssumption ==
  /\ Body # {} /\ Unset \notin Name
  /\ \A b \in Body : b.name \in Name /\ b.hidden \in BOOLEAN /\ b.vcs \in Nat
ASSUME PatchAssumption ==
  \A p \in Patch : /\ p.name \in Name \cup {Unset} /\ p.hidden \in BOOLEAN \cup {Unset}
                   /\ p.role \in Requests!Role \cup {Unset}

Login == INSTANCE Authentication WITH
  token <- jwts

Rooting == INSTANCE BridgeSetup WITH
  Ident <- Id, keys <- rootKeys, pc <- stage, me <- found

Data == INSTANCE Migration WITH
  Tool <- Migrator, Identity <- Id,
  docs <- collections, keys <- keyDocs, at <- migrating

-----------------------------------------------------------------------------
(* Properties.                                                             *)

\* What a verified presentation and the credential of an initiator stand
\* for: a trusted root, valid credentials, and a chain of initiators that
\* ends at an administrator or a manager.
TrustHolds ==
  /\ Trust!TypeOK
  /\ Trust!PresentationHolds
  /\ Trust!InitiatorHolds

\* Whoever is in the collection of users has a name and a role of its own,
\* is gone when deleted, and is hidden when it wants to be.
UsersHold ==
  /\ Requests!TypeOK
  /\ Requests!OneUserPerName
  /\ Requests!RolesAreGiven
  /\ Requests!DeletedStaysDeleted
  /\ Requests!HiddenFromOthers

\* The role in a JWT is one its identity had while it logged in; a correctly
\* signed login is refused only when another nonce was made.
LoginsHold ==
  /\ Login!RoleWasHeld
  /\ [](Login!TypeOK /\ Login!RefusedForAReason)

\* Setups that die anywhere leave one root with what it was promised, and
\* few credentials; tools that are interrupted lose no keys, and migrate what
\* they can.
RootHolds ==
  /\ Rooting!TypeOK
  /\ Rooting!OneRoot
  /\ Rooting!BitmapIsPublished
  /\ Data!TypeOK
  /\ Data!KeysAreKept
  /\ Data!EndsMigrated
===============================================================================
