---------------------------- MODULE Authentication ----------------------------
(***************************************************************************)
(* How a client of the bridge proves that it owns an identity              *)
(* (AuthenticationService, BaseClient.authenticate), and what the JWT it   *)
(* gets says about it while roles change.                                  *)
(*                                                                         *)
(* A client is one running program with the keys of one identity; several  *)
(* of them may share an identity.  The bridge keeps one nonce per          *)
(* identity; what matters of it is which client got it.                    *)
(*                                                                         *)
(* held and disturbed are history variables.                               *)
(***************************************************************************)
EXTENDS Naturals

CONSTANTS Id,          \* identities
          Client,      \* running programs
          Owner,       \* the identity each of them has the keys of
          FirstAdmin,  \* the identity of setup-admin-identity
          Nobody,      \* whose nonce it is when its answer was lost
          Event        \* what else may happen in this instance

Role == {"User", "Manager", "Admin"}

VARIABLES role,      \* the role in the user's document, or "none" without one
          nonce,     \* collection auth: the client that got the identity's nonce
          phase,     \* how far a client's login is
          loaded,    \* the role authenticate read, before the nonce is checked
          token,     \* the role in the JWT a client has, or "none" without one
          held,      \* the roles its identity had since a login was sent
          disturbed  \* another nonce was made since a client got its own

vars == <<role, nonce, phase, loaded, token, held, disturbed>>

Phase == {"out", "signing", "sent", "proving", "in", "failed"}

\* Variant that a property must tell apart: they get no role at all.
NoDefault(r) == r

\* Without a document the owner of a published identity is a User.
RoleOf(r) == IF r = "none" THEN "User" ELSE r

Init ==
  /\ role = [i \in Id |-> IF i = FirstAdmin THEN "Admin" ELSE "none"]
  /\ nonce = [i \in Id |-> Nobody]
  /\ phase = [c \in Client |-> "out"]
  /\ loaded = [c \in Client |-> "none"]
  /\ token = [c \in Client |-> "none"]
  /\ held = [c \in Client |-> {}]
  /\ disturbed = [c \in Client |-> FALSE]

\* authenticate returned or threw.
Forget(c) == /\ loaded' = [loaded EXCEPT ![c] = "none"]
             /\ held' = [held EXCEPT ![c] = {}]

UnderWay(c) == phase[c] \in {"sent", "proving"}

-----------------------------------------------------------------------------
(* Variants of the code that a property must tell apart from it.           *)

\* the role is taken over from the JWT the client sends along.
LoadFromToken(c) ==
  /\ phase[c] = "sent"
  /\ loaded' = [loaded EXCEPT ![c] =
       IF token[c] = "none" THEN RoleOf(role[Owner[c]]) ELSE token[c]]
  /\ phase' = [phase EXCEPT ![c] = "proving"]
  /\ UNCHANGED <<role, nonce, token, held, disturbed>>

\* a nonce is good for one attempt of whichever client comes first.
ConsumeAnyNonce(c) ==
  /\ phase[c] = "proving"
  /\ \/ /\ nonce[Owner[c]] = c
        /\ token' = [token EXCEPT ![c] = loaded[c]]
        /\ phase' = [phase EXCEPT ![c] = "in"]
     \/ /\ nonce[Owner[c]] # c
        /\ phase' = [phase EXCEPT ![c] = "failed"]
        /\ UNCHANGED token
  /\ nonce' = [i \in Id |-> Nobody]
  /\ Forget(c)
  /\ UNCHANGED <<role, disturbed>>

-----------------------------------------------------------------------------
(* Logging in.                                                             *)

\* A nonce was made for identity i.
Disturb(i, c) ==
  disturbed' = [d \in Client |->
    d # c /\ (disturbed[d] \/ (Owner[d] = i /\ (phase[d] = "signing" \/ UnderWay(d))))]

\* GET prove-ownership: a new nonce replaces the identity's last one.  The
\* answer may get lost on its way.
GetNonce(c) ==
  /\ phase[c] \in {"out", "in", "failed"}
  /\ \/ /\ nonce' = [nonce EXCEPT ![Owner[c]] = c]
        /\ phase' = [phase EXCEPT ![c] = "signing"]
     \/ /\ "lost" \in Event
        /\ nonce' = [nonce EXCEPT ![Owner[c]] = Nobody]
        /\ phase' = [phase EXCEPT ![c] = "out"]
  /\ Disturb(Owner[c], c)
  /\ UNCHANGED <<role, loaded, token, held>>

\* The client signs its nonce and posts it; nothing but the identity tells
\* the bridge which nonce it was.
Send(c) ==
  /\ phase[c] = "signing"
  /\ phase' = [phase EXCEPT ![c] = "sent"]
  /\ held' = [held EXCEPT ![c] = {RoleOf(role[Owner[c]])}]
  /\ UNCHANGED <<role, nonce, loaded, token, disturbed>>

\* authenticate reads the user first, then the identity's document.
Load(c) ==
  /\ phase[c] = "sent"
  /\ loaded' = [loaded EXCEPT ![c] = RoleOf(role[Owner[c]])]
  /\ phase' = [phase EXCEPT ![c] = "proving"]
  /\ UNCHANGED <<role, nonce, token, held, disturbed>>

\* It then reads the nonce, verifies the signature and signs the JWT with
\* the role it read.  The nonce stays.
Prove(c) ==
  /\ phase[c] = "proving"
  /\ \/ /\ nonce[Owner[c]] = c
        /\ token' = [token EXCEPT ![c] = loaded[c]]
        /\ phase' = [phase EXCEPT ![c] = "in"]
     \/ /\ nonce[Owner[c]] # c
        /\ phase' = [phase EXCEPT ![c] = "failed"]
        /\ UNCHANGED token
  /\ Forget(c)
  /\ UNCHANGED <<role, nonce, disturbed>>

\* isAuth: jwt.verify throws once the token has expired.
Expire(c) ==
  /\ token[c] # "none"
  /\ token' = [token EXCEPT ![c] = "none"]
  /\ UNCHANGED <<role, nonce, phase, loaded, held, disturbed>>

-----------------------------------------------------------------------------
(* What changes a user's role: the requests are authorized by the JWT.     *)

SetRole(i, r) ==
  /\ role' = [role EXCEPT ![i] = r]
  /\ held' = [c \in Client |->
       IF Owner[c] = i /\ UnderWay(c) THEN held[c] \cup {RoleOf(r)} ELSE held[c]]
  /\ UNCHANGED <<nonce, phase, loaded, token, disturbed>>

\* addUser inserts every user as User, whatever the body says.
AddUser(i) ==
  /\ role[i] = "none"
  /\ SetRole(i, "User")

\* updateUser: a role in the body is an admin's privilege.
UpdateUser(c, i, r) ==
  /\ token[c] = "Admin"
  /\ role[i] # "none"
  /\ SetRole(i, r)

\* deleteUser: oneself, or an admin.
DeleteUser(c, i) ==
  /\ "delete" \in Event
  /\ token[c] = "Admin" \/ (token[c] # "none" /\ Owner[c] = i)
  /\ SetRole(i, "none")

-----------------------------------------------------------------------------
Login(c) == Send(c) \/ Load(c) \/ Prove(c)

Next ==
  \/ \E c \in Client : GetNonce(c) \/ Login(c) \/ Expire(c)
  \/ \E i \in Id : AddUser(i)
  \/ \E c \in Client, i \in Id : DeleteUser(c, i) \/ \E r \in Role : UpdateUser(c, i, r)

Spec == Init /\ [][Next]_vars

\* A program that got its nonce goes on, and the bridge answers it.
FairSpec == Spec /\ \A c \in Client : WF_vars(Login(c))

-----------------------------------------------------------------------------
(* Properties.                                                             *)

TypeOK ==
  /\ role \in [Id -> Role \cup {"none"}]
  /\ nonce \in [Id -> Client \cup {Nobody}]
  /\ phase \in [Client -> Phase]
  /\ loaded \in [Client -> Role \cup {"none"}]
  /\ token \in [Client -> Role \cup {"none"}]
  /\ held \in [Client -> SUBSET Role]
  /\ disturbed \in [Client -> BOOLEAN]

\* The role in a JWT is one its identity had while the login was under way,
\* although it is read before the signature is checked and roles change in
\* between.  A JWT that was refreshed does not bring an old role back.
RoleWasHeld ==
  [][\A c \in Client : token'[c] \notin {token[c], "none"} => token'[c] \in held[c]]_vars

\* A correctly signed login is refused only if another nonce was made for
\* the identity after the client got its own.
RefusedForAReason == \A c \in Client : phase[c] = "failed" => disturbed[c]

\* Whoever alone has the keys of an identity logs in once it has a nonce.
SoleOwner(c) == \A d \in Client : Owner[d] = Owner[c] => d = c

SoleOwnerLogsIn ==
  \A c \in Client : SoleOwner(c) => (phase[c] = "signing" ~> phase[c] = "in")
===============================================================================
