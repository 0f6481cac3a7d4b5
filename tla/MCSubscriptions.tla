--------------------------- MODULE MCSubscriptions ---------------------------
(* Two users beside the author, each with a seed of its own, or one of them.  *)
EXTENDS Subscriptions
CONSTANTS u1, u2, k1, k2
OwnKeys == (u1 :> {k1}) @@ (u2 :> {k2})
OneKey == u1 :> {k1}

\* The users are alike, each with its key.
Swap == {(u1 :> u2) @@ (u2 :> u1) @@ (k1 :> k2) @@ (k2 :> k1)}
=============================================================================
