------------------------ MODULE MCSubscriptionsSafety ------------------------
(***************************************************************************)
(* Two users beside the author, each with a seed of its own: with all      *)
(* kinds of subscriptions that read, or with failures and restarts between *)
(* the steps.  "part" names the instance that a behaviour is of.           *)
(***************************************************************************)
EXTENDS MCSubscriptions

CONSTANT Part    \* the instances to check

VARIABLE part

\* A step of a request fails, or the process ends, once.
Failing == INSTANCE Subscriptions WITH
  Kinds <- {"reader"}, Events <- {"failure", "restart"}, MaxEvents <- 1

MCInit ==
  /\ part \in Part
  /\ IF part = "kinds" THEN Init ELSE Failing!Init

MCNext ==
  /\ UNCHANGED part
  /\ \/ part = "kinds" /\ Next
     \/ part = "failing" /\ Failing!Next

MCSpec == MCInit /\ [][MCNext]_<<part, vars>>

===============================================================================
