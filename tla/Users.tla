-------------------------------- MODULE Users --------------------------------
(***************************************************************************)
(* The users of the bridge: IdentityRoutes over UserService and the        *)
(* collection of users, and the tool that sets up an administrator.        *)
(*                                                                         *)
(* A client is one program with the keys of one identity and one request   *)
(* under way; the tool is one more of them, without a token.  A request is *)
(* interrupted wherever the code awaits the database or the Tangle.        *)
(*                                                                         *)
(* raised, gone and view are history variables.                            *)
(***************************************************************************)
EXTENDS Naturals, Sequences, FiniteSets

CONSTANTS Id,       \* identities
          Name,     \* usernames
          Client,   \* programs that send requests
          Tool,     \* setup-admin-identity
          Owner,    \* the identity a client has the keys of
          Own,      \* identities that were published by their owners
          Admins,   \* users the tool may have set up before, with names of their own
          Body,     \* bodies of POST create and POST identity
          Patch,    \* bodies of PUT identity, without the id
          MaxVc,    \* maxNumberOfVc
          Event,    \* what else may happen in this instance
          Unset, NoDoc, NoView

Role == {"User", "Manager", "Admin"}
Caller == Client \cup {Tool}

VARIABLES docs,       \* collection users
          published,  \* identities on the Tangle
          keys,       \* collection identity-keys
          token,      \* the role in a client's JWT, "none", or "expired"
          pc,         \* where a caller's request is
          body,       \* its body
          target,     \* the identity it is about
          raised,     \* users whose role an administrator or the tool set
          gone,       \* users that were deleted and not added again
          view        \* whose credentials somebody was shown last

store == <<docs, published, keys>>
request == <<pc, body, target>>
history == <<raised, gone, view>>
vars == <<store, token, request, history>>

\* Documents, and those of them that are users: the upsert of addUserVC
\* leaves documents without an id, which getUserObject does not see.
Docs == {i \in Id : docs[i] # NoDoc}
Users == {i \in Docs : docs[i].hasId}

\* Variant that a property must tell apart: an index that is not unique.
AnyName(i, n) == FALSE

\* The unique index is partial: it is about documents that have a name.
Taken(i, n) == n # Unset /\ \E j \in Docs \ {i} : docs[j].name = n

\* getUserByUsername.
Named(n) == {i \in Users : docs[i].name = n}

\* What an upsert leaves of a user that is not there.
NewGhost == [hasId |-> FALSE, name |-> Unset, hidden |-> FALSE, role |-> "User", vcs |-> 0]

NoBody == CHOOSE b \in Body : TRUE
AnyId == CHOOSE i \in Id : TRUE

Init ==
  /\ raised \in SUBSET Admins
  /\ docs = [i \in Id |-> IF i \in raised THEN [NewGhost EXCEPT !.hasId = TRUE, !.role = "Admin"]
                          ELSE NoDoc]
  /\ published = Own \cup raised /\ keys = {}
  /\ token = [c \in Client |-> "none"]
  /\ pc = [c \in Caller |-> "idle"]
  /\ body = [c \in Caller |-> NoBody] /\ target = [c \in Caller |-> AnyId]
  /\ gone = {} /\ view = NoView

At(c, s) == pc[c] = s
Go(c, s) == pc' = [pc EXCEPT ![c] = s] /\ UNCHANGED <<body, target>>

\* The request is answered, whether with a result or with an error.
Answer(c) ==
  /\ pc' = [pc EXCEPT ![c] = "idle"]
  /\ body' = [body EXCEPT ![c] = NoBody]
  /\ target' = [target EXCEPT ![c] = AnyId]

\* AuthorizationService.isAuthorized.
IsAuthorized(c, i) == Owner[c] = i \/ token[c] = "Admin"
LoggedIn(c) == token[c] \in Role

-----------------------------------------------------------------------------
(* Variants of the code that a property must tell apart from it.           *)

\* the body's role wins over the default.
BodyRole(c) ==
  [hasId |-> TRUE, name |-> body[c].name, hidden |-> body[c].hidden, role |-> body[c].role,
   vcs |-> body[c].vcs]

\* a user that is not there is inserted.
UpsertUser(c, i, p) ==
  /\ At(c, "idle") /\ LoggedIn(c) /\ IsAuthorized(c, i)
  /\ p.role # Unset => token[c] = "Admin"
  /\ ~Taken(i, p.name)
  /\ docs' = [docs EXCEPT ![i] = IF i \in Docs THEN @
                                 ELSE [NewGhost EXCEPT !.hasId = TRUE, !.name = p.name]]
  /\ raised' = IF p.role # Unset THEN raised \cup {i} ELSE raised
  /\ UNCHANGED <<published, keys, token, request, gone, view>>

\* a user that asks for another one is shown all of it.
ShowAll(c, i) == docs[i].vcs > 0

-----------------------------------------------------------------------------
(* The JWT (module Authentication says how a client gets it).              *)

Login(c) ==
  /\ Owner[c] \in published
  /\ token' = [token EXCEPT ![c] = IF Owner[c] \in Users THEN docs[Owner[c]].role ELSE "User"]
  /\ UNCHANGED <<store, request, history>>

Expire(c) ==
  /\ LoggedIn(c)
  /\ token' = [token EXCEPT ![c] = "expired"]
  /\ UNCHANGED <<store, request, history>>

-----------------------------------------------------------------------------
(* Adding users.                                                           *)

\* POST create and POST identity: nobody may have the name yet.
CheckName(c, b, i, step) ==
  /\ At(c, "idle")
  /\ Named(b.name) = {}
  /\ pc' = [pc EXCEPT ![c] = step]
  /\ body' = [body EXCEPT ![c] = b]
  /\ target' = [target EXCEPT ![c] = i]
  /\ UNCHANGED <<store, token, history>>

CreateStart(c, b) == CheckName(c, b, AnyId, "create")
AddStart(c, b, i) == c # Tool /\ CheckName(c, b, i, "latest")

\* The tool makes up a name.
ToolStart(b) == "tool" \in Event /\ CheckName(Tool, b, AnyId, "create")

\* decodeUserId: reading the creator from a JWT that has expired throws; the
\* tool has none.
CreatorThrows(c) == c # Tool /\ token[c] = "expired"

\* SsiService.createIdentity publishes an identity with new keys; the
\* creator is looked at afterwards.
CreateIdentity(c) ==
  /\ At(c, "create")
  /\ \E i \in Id \ published :
       /\ published' = published \cup {i}
       /\ IF CreatorThrows(c)
          THEN Answer(c)
          ELSE /\ pc' = [pc EXCEPT ![c] = "insert"]
               /\ target' = [target EXCEPT ![c] = i]
               /\ UNCHANGED body
  /\ UNCHANGED <<docs, keys, token, history>>

\* UserService.addUser: the identity must be published, whoever's it is.
LatestDocument(c) ==
  /\ At(c, "latest")
  /\ IF target[c] \in published THEN Go(c, "insert") ELSE Answer(c)
  /\ UNCHANGED <<store, token, history>>

\* The document that is inserted: every user begins as User.
NewUser(c) ==
  [hasId |-> TRUE, name |-> body[c].name, hidden |-> body[c].hidden, role |-> "User",
   vcs |-> body[c].vcs]

\* database/user.addUser; the _id and the index on names may make it throw.
InsertUser(c) ==
  LET i == target[c] IN
  /\ At(c, "insert")
  /\ IF docs[i] # NoDoc \/ Taken(i, body[c].name) \/ body[c].vcs >= MaxVc
     THEN Answer(c) /\ UNCHANGED <<docs, gone>>
     ELSE /\ docs' = [docs EXCEPT ![i] = NewUser(c)]
          /\ gone' = gone \ {i}
          /\ IF c = Tool THEN Go(c, "credential")
             ELSE IF body[c].store THEN Go(c, "keys") ELSE Answer(c)
  /\ UNCHANGED <<published, keys, token, raised, view>>

\* storeIdentity: the keys are saved after the user.
SaveKeys(c) ==
  /\ At(c, "keys")
  /\ keys' = keys \cup {target[c]}
  /\ Answer(c)
  /\ UNCHANGED <<docs, published, token, history>>

-----------------------------------------------------------------------------
(* Setting up an administrator.                                            *)

\* The document after an upsert of a credential.
Holder(i) == IF i \in Docs THEN [docs[i] EXCEPT !.vcs = docs[i].vcs + 1]
             ELSE [NewGhost EXCEPT !.vcs = 1]

\* The credential of the root identity is added to the user's list by an
\* upsert (see module Credentials); a full list makes the tool give up.
ToolCredential ==
  LET i == target[Tool] IN
  /\ At(Tool, "credential")
  /\ IF i \in Docs /\ docs[i].vcs >= MaxVc
     THEN Answer(Tool) /\ UNCHANGED docs
     ELSE /\ docs' = [docs EXCEPT ![i] = Holder(i)]
          /\ Go(Tool, "role")
  /\ UNCHANGED <<published, keys, token, history>>

SetAdminRole ==
  LET i == target[Tool] IN
  /\ At(Tool, "role")
  /\ IF docs[i] = NoDoc
     THEN UNCHANGED <<docs, raised>>
     ELSE docs' = [docs EXCEPT ![i].role = "Admin"] /\ raised' = raised \cup {i}
  /\ Answer(Tool)
  /\ UNCHANGED <<published, keys, token, gone, view>>

-----------------------------------------------------------------------------
(* Reading, changing and deleting users.                                   *)

\* Fields that are not in the body, and an empty name, stay as they are.
Patched(d, p) ==
  [d EXCEPT !.name = IF p.name = Unset THEN @ ELSE p.name,
            !.hidden = IF p.hidden = Unset THEN @ ELSE p.hidden,
            !.role = IF p.role = Unset THEN @ ELSE p.role]

\* PUT identity: a role is an administrator's business.  Updating a user
\* that is not there changes nothing (NOT_FOUND).
UpdateUser(c, i, p) ==
  /\ At(c, "idle") /\ LoggedIn(c) /\ IsAuthorized(c, i)
  /\ p.role # Unset => token[c] = "Admin"
  /\ i \in Docs /\ ~Taken(i, p.name)
  /\ docs' = [docs EXCEPT ![i] = Patched(@, p)]
  /\ raised' = IF p.role # Unset THEN raised \cup {i} ELSE raised
  /\ UNCHANGED <<published, keys, token, request, gone, view>>

\* DELETE identity: the authorization is checked before, the user deleted
\* after the credentials are revoked.
DeleteStart(c, i) ==
  /\ At(c, "idle") /\ LoggedIn(c) /\ IsAuthorized(c, i)
  /\ pc' = [pc EXCEPT ![c] = "delete"]
  /\ target' = [target EXCEPT ![c] = i]
  /\ UNCHANGED <<body, store, token, history>>

DeleteUser(c) ==
  /\ At(c, "delete")
  /\ docs' = [docs EXCEPT ![target[c]] = NoDoc]
  /\ raised' = raised \ {target[c]}
  /\ gone' = IF docs[target[c]] = NoDoc THEN gone ELSE gone \cup {target[c]}
  /\ Answer(c)
  /\ UNCHANGED <<published, keys, token, view>>

\* A user that is hidden shows its claim and its credentials to itself and
\* to administrators only.
Shows(c, i) == docs[i].vcs > 0 /\ (docs[i].hidden => IsAuthorized(c, i))

\* GET identity/:id.
GetUser(c, i) ==
  /\ At(c, "idle") /\ LoggedIn(c) /\ i \in Users
  /\ view' = IF Shows(c, i)
             THEN [open |-> ~docs[i].hidden \/ Owner[c] = i \/ token[c] = "Admin"]
             ELSE NoView
  /\ UNCHANGED <<store, token, request, raised, gone>>

\* GET search: the number of credentials, never the credentials.
SearchUsers(c, n) ==
  /\ At(c, "idle") /\ LoggedIn(c)
  /\ \E i \in Users : n \in {Unset, docs[i].name}
  /\ view' = NoView
  /\ UNCHANGED <<store, token, request, raised, gone>>

-----------------------------------------------------------------------------
Next ==
  \/ \E c \in Client :
       \/ Login(c) \/ Expire(c) \/ DeleteUser(c) \/ LatestDocument(c)
       \/ \E b \in Body : CreateStart(c, b) \/ \E i \in Id : AddStart(c, b, i)
       \/ \E i \in Id : DeleteStart(c, i) \/ GetUser(c, i) \/ \E p \in Patch : UpdateUser(c, i, p)
       \/ \E n \in Name \cup {Unset} : SearchUsers(c, n)
  \/ \E c \in Caller : CreateIdentity(c) \/ InsertUser(c) \/ SaveKeys(c)
  \/ (\E b \in Body : ToolStart(b)) \/ ToolCredential \/ SetAdminRole

Spec == Init /\ [][Next]_vars

-----------------------------------------------------------------------------
(* Properties.                                                             *)

Document == [hasId : BOOLEAN, name : Name \cup {Unset}, hidden : BOOLEAN, role : Role, vcs : 0..MaxVc]

TypeOK ==
  /\ docs \in [Id -> Document \cup {NoDoc}]
  /\ published \subseteq Id /\ keys \subseteq published
  /\ token \in [Client -> Role \cup {"none", "expired"}]
  /\ pc \in [Caller -> {"idle", "create", "latest", "insert", "keys", "credential", "role", "delete"}]
  /\ body \in [Caller -> Body] /\ target \in [Caller -> Id]
  /\ raised \subseteq Id /\ gone \subseteq Id

\* A name finds one user, although it is looked up before the user is
\* published and inserted, and may be changed by a PUT meanwhile.
OneUserPerName == \A n \in Name : Cardinality(Named(n)) <= 1

\* Who is more than a User was made so by an administrator or by the tool,
\* whatever roles the bodies of the requests that added users had, and
\* whoever was deleted and added again.
RolesAreGiven == \A i \in Users : docs[i].role # "User" => i \in raised

\* A user that was deleted is not brought back by a request that was about
\* it and comes late: a PUT, the second half of the tool.
DeletedStaysDeleted == gone \cap Users = {}

\* No user sees another one's credentials while that one is hidden, neither
\* by its id nor by a search.
HiddenFromOthers == view # NoView => view.open
===============================================================================
