------------------------------- MODULE MCTrust -------------------------------
(***************************************************************************)
(* Instances of who is whom, and whom is trusted: the parts of the bridge, *)
(* and a shop that sells to those who have a credential.                   *)
(*                                                                         *)
(* They share no variable: "part" names the one that moves, the others     *)
(* stay as they began.                                                     *)
(***************************************************************************)
EXTENDS EShopCheckout, Bridge, TLC

CONSTANTS Part,                              \* the instances to check
          above, mine, me, demo, somebody,   \* credentials and customers of the shop
          boss, ann,                         \* identities
          phone, console, tablet,            \* programs
          n1, n2                             \* usernames

MCIdOf == [c \in Credential |-> IF c \in Demo THEN demo ELSE IF c = mine THEN me ELSE somebody]

\* Two programs with the same keys.
MCOwner == (phone :> ann) @@ (console :> boss) @@ (tablet :> boss)

BodyOf(n, r, h, v, s) == [name |-> n, role |-> r, hidden |-> h, vcs |-> v, store |-> s]
MCBody == {BodyOf(n1, "Admin", FALSE, 1, TRUE), BodyOf(n2, "User", FALSE, 0, FALSE)}

PatchOf(n, r, h) == [name |-> n, role |-> r, hidden |-> h]
MCPatch == {PatchOf(n1, Unset, TRUE), PatchOf(Unset, "User", Unset)}

VARIABLE part

trust == <<vcs, revoked, roots, task, vp>>
users == <<docs, published, keys, token, pc, body, target, raised, gone, view>>
logins == <<role, nonce, phase, loaded, jwts, held, disturbed>>
setup == <<unique, root, rootKeys, trusted, service, bitmap, issued, listed,
           secret, server, stage, found, bare, next, crashes>>
data == <<collections, before, keyDocs, exists, migrating, kills>>
all == <<part, vars, trust, users, logins, setup, data>>

-----------------------------------------------------------------------------
(* What a part leaves out.                                                 *)

\* No request of these callers.
NoRequests(callers) == \A c \in callers : pc'[c] = "idle" /\ (c # Tool => token'[c] = "none")

\* No nonce is lost.
NoneLost == \A i \in Id : nonce[i] # Nobody => nonce'[i] # Nobody

\* Presentations of credentials of two bridges; a user initiates the next
\* credential with the one she got, the administrator with none.
TrustNext ==
  \/ part = "shown" /\ Trust!Next /\ Len(vcs') <= 2 /\ task'[ann] = NoVc
  \/ /\ part = "chain" /\ UNCHANGED <<roots, vp>> /\ Trust!Next
     /\ task'[boss] # NoVc => task'[boss].vc = NoVc

\* An administrator and a user, with a program each; a user, and the tool
\* that makes an administrator.
UsersNext ==
  /\ part \in {"users", "tool"} /\ Requests!Next
  /\ \/ part = "users" /\ NoRequests({tablet, Tool})
     \/ part = "tool" /\ NoRequests({tablet, console})

\* An administrator and a user log in, who may be deleted meanwhile; two
\* programs with the same keys.
LoginNext ==
  /\ part \in {"login", "shared"} /\ Login!Next
  /\ \/ part = "login" /\ phase'[tablet] = "out" /\ NoneLost
     \/ part = "shared" /\ phase'[phone] = "out" /\ role'[ann] = "none"

-----------------------------------------------------------------------------
MCInit ==
  /\ part \in Part
  /\ Init /\ (part # "shop" => valid = {})
  /\ Trust!Init
  /\ Requests!Init /\ raised = IF part = "tool" THEN {} ELSE Admins
  /\ Login!Init
  /\ Rooting!Init /\ (part # "setup" => secret = "old")
  /\ Data!Init

MCNext ==
  /\ UNCHANGED part
  /\ \/ part = "shop" /\ Next /\ UNCHANGED <<trust, users, logins, setup, data>>
     \/ TrustNext /\ UNCHANGED <<vars, users, logins, setup, data>>
     \/ UsersNext /\ UNCHANGED <<vars, trust, logins, setup, data>>
     \/ LoginNext /\ UNCHANGED <<vars, trust, users, setup, data>>
     \/ part = "setup" /\ Rooting!Next /\ UNCHANGED <<vars, trust, users, logins, data>>
     \/ part = "migration" /\ Data!Next /\ UNCHANGED <<vars, trust, users, logins, setup>>

MCSpec == MCInit /\ [][MCNext]_all
===============================================================================
