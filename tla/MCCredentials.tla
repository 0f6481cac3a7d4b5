---------------------------- MODULE MCCredentials ----------------------------
(***************************************************************************)
(* Instances of Credentials.  They are small for different reasons, so one *)
(* run takes several of them side by side: "part" names the one that a     *)
(* behaviour is of.  The instance of the configuration issues and revokes  *)
(* under the lock; the others have variables of their own.                 *)
(***************************************************************************)
EXTENDS Credentials

CONSTANTS u1, u2, server,
          Part    \* the instances to check

VARIABLES part,
          services2, revoked2, stored2, saved2, users2, list2, roots2,
          step2, index2, subject2, bitmap2, seen2, current2, seenList2,
          due2, check2, asked2, answered2, purged2

other == <<services2, revoked2, stored2, saved2, users2, list2, roots2, step2,
           index2, subject2, bitmap2, seen2, current2, seenList2, due2, check2,
           asked2, answered2, purged2>>

\* Two users, and the setup:
Lists == INSTANCE Credentials WITH User <- {u1, u2}, Event <- {"setup"},
  services <- services2, revoked <- revoked2, stored <- stored2, saved <- saved2,
  users <- users2, list <- list2, roots <- roots2, step <- step2, index <- index2,
  subject <- subject2, bitmap <- bitmap2, seen <- seen2, current <- current2,
  seenList <- seenList2, due <- due2, check <- check2, asked <- asked2,
  answered <- answered2, purged <- purged2

\* What takes no lock:
Unlocked == INSTANCE Credentials WITH
  MaxIndex <- 1, ListLimit <- 1, Event <- {"tool", "delete", "put"},
  services <- services2, revoked <- revoked2, stored <- stored2, saved <- saved2,
  users <- users2, list <- list2, roots <- roots2, step <- step2, index <- index2,
  subject <- subject2, bitmap <- bitmap2, seen <- seen2, current <- current2,
  seenList <- seenList2, due <- due2, check <- check2, asked <- asked2,
  answered <- answered2, purged <- purged2

\* DELETEs with revoke-credentials:
Purge == INSTANCE Credentials WITH MaxIndex <- 1, Event <- {"purge"},
  services <- services2, revoked <- revoked2, stored <- stored2, saved <- saved2,
  users <- users2, list <- list2, roots <- roots2, step <- step2, index <- index2,
  subject <- subject2, bitmap <- bitmap2, seen <- seen2, current <- current2,
  seenList <- seenList2, due <- due2, check <- check2, asked <- asked2,
  answered <- answered2, purged <- purged2

MCInit ==
  /\ part \in Part
  /\ Init
  /\ CASE part = "unlocked" -> Unlocked!Init
       [] part = "purge" -> Purge!Init
       [] OTHER -> Lists!Init

MCNext ==
  /\ UNCHANGED part
  /\ \/ part = "issuing" /\ Next /\ UNCHANGED other
     \/ part = "lists" /\ Lists!Next /\ UNCHANGED vars
     \/ part = "unlocked" /\ Unlocked!Next /\ UNCHANGED vars
     \/ part = "purge" /\ Purge!Next /\ UNCHANGED vars

MCSpec == MCInit /\ [][MCNext]_<<part, vars, other>>

-----------------------------------------------------------------------------
(* Properties.                                                             *)

\* The lists of the users agree with the stored credentials: exactly, where
\* the lock is taken, and with nobody else's whatever is interleaved; a DELETE
\* that revokes many credentials at once does revoke.
ListsHold ==
  /\ TypeOK
  /\ part = "lists" => Lists!TypeOK /\ Lists!ListIsCurrent
  /\ part = "unlocked" => Unlocked!TypeOK /\ Unlocked!ListedAreOwn
  /\ part = "purge" => Purge!TypeOK /\ Purge!PurgeRevokes

\* node runs the steps of every task it started.
MCFair ==
  /\ MCSpec
  /\ \A t \in Purge!Task : WF_other(part = "purge" /\ Purge!TaskStep(t))
  /\ WF_other(part = "purge" /\ Purge!DeleteUser(u1))

\* A DELETE that is accepted comes to its end, whatever it has to revoke.
DeletesEnd == part = "purge" => Purge!DeleteEnds
===============================================================================
