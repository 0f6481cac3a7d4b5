------------------------------- MODULE AuditLog -------------------------------
(***************************************************************************)
(* What the subscribers of a channel want from the gateway: their logs are *)
(* what they may read of the channel up to some point, without gaps, and   *)
(* what they wrote themselves.                                             *)
(***************************************************************************)
EXTENDS Naturals, Sequences

CONSTANTS Subscriber

VARIABLES posts,   \* the channel: who wrote a log and who may read it
          known    \* the logs a subscriber finds in the database

vars == <<posts, known>>

Init == posts = <<>> /\ known = [s \in Subscriber |-> {}]

Readable(s, n) == {i \in 1 .. n : s \in posts[i].readers}

Post ==
  /\ Len(posts') = Len(posts) + 1
  /\ SubSeq(posts', 1, Len(posts)) = posts
  /\ UNCHANGED known

Learn(s, new) ==
  /\ known' = [known EXCEPT ![s] = @ \cup new]
  /\ UNCHANGED posts

\* Everything up to n, whatever was known before.
Retrieve(s) == \E n \in 1 .. Len(posts) : Learn(s, Readable(s, n))

KeepOwn(s) == \E i \in 1 .. Len(posts) : posts[i].from = s /\ Learn(s, {i})

\* Revoked, or about to import everything anew.
Forget(s) == known' = [known EXCEPT ![s] = {}] /\ UNCHANGED posts

Next == Post \/ \E s \in Subscriber : Retrieve(s) \/ KeepOwn(s) \/ Forget(s)

Spec == Init /\ [][Next]_vars
===============================================================================
