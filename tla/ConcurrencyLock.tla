--------------------------- MODULE ConcurrencyLock ---------------------------
(***************************************************************************)
(* The express middleware basicLock / channelLock                          *)
(* (middlewares/concurrency-lock.ts) over the MongoDB collection           *)
(* concurrency-locks: one document per lock name, its name being the _id.  *)
(* The gateway locks channel-lock-<channelAddress>-<userId>, the bridge    *)
(* credential-lock.                                                        *)
(*                                                                         *)
(* A Request is a slot for one HTTP request at a time: it looks the lock   *)
(* up, inserts it, runs its handler and answers; the listener on the       *)
(* response's 'finish' event then removes the document with the lock's     *)
(* name.  The listener is installed before the lock is looked up, so it    *)
(* runs for every answer, a refusal included.                              *)
(*                                                                         *)
(* lockDoc remembers which request inserted the document; the code stores  *)
(* no owner, and no action reads it.  undercut is a history variable.      *)
(***************************************************************************)
EXTENDS Naturals

CONSTANTS Request,    \* slots for requests to locked routes
          LockName,   \* names of locks
          Event,      \* what the surroundings may do in this instance
          Nobody,     \* the owner of a lock that is not in the collection
          NoName      \* the lock of a slot without a request

ASSUME EventAssumption ==
         Event \subseteq {"ttl", "disconnect", "dbError", "restart"}
ASSUME NobodyAssumption == Nobody \notin Request
ASSUME NoNameAssumption == NoName \notin LockName

VARIABLES lockDoc,    \* the collection: who inserted each lock, or Nobody
          phase,      \* how far a request is
          name,       \* the lock a request asked for
          open,       \* the connection of a request's client is still there
          undercut    \* a lock was removed from under a request working with it

vars == <<lockDoc, phase, name, open, undercut>>

Phase == {"idle",       \* no request in this slot
          "checking",   \* getLock is under way
          "inserting",  \* no lock was found, insertLock is under way
          "releasing",  \* one of them failed, the catch removes the lock
          "handling",   \* next(): the route's handler runs
          "refused",    \* 423 or 500 was sent by the middleware
          "served"}     \* the handler sent its answer

\* The requests that went through the middleware and still need the lock.
Busy(n) == {r \in Request : phase[r] \in {"handling", "served"} /\ name[r] = n}

Init ==
  /\ lockDoc = [n \in LockName |-> Nobody]
  /\ phase = [r \in Request |-> "idle"]
  /\ name = [r \in Request |-> NoName]
  /\ open = [r \in Request |-> TRUE]
  /\ undercut = [n \in LockName |-> FALSE]

-----------------------------------------------------------------------------
(* Variants of the code that a property must tell apart from it.           *)

\* an insertLock that replaces the document instead of failing on its _id.
UpsertNeverFails(n) == FALSE

\* a TTL index on a field the lock documents do not have.
NothingExpires(n) == FALSE

\* a slot that is reused with the previous request's lock name.
LeaveNameBehind(r) ==
  /\ phase' = [phase EXCEPT ![r] = "idle"]
  /\ open' = [open EXCEPT ![r] = TRUE]
  /\ UNCHANGED name

-----------------------------------------------------------------------------
\* getLock finds a document with this _id.
Found(n) == lockDoc[n] # Nobody

\* insertLock throws: a document with this _id is there.
Duplicate(n) == lockDoc[n] # Nobody

\* The documents the TTL index removes: all that are left long enough.
Expires(n) == lockDoc[n] # Nobody

\* removeLock(n): the document with that name goes, whoever inserted it.
\* History: others are the requests that were still working with it.
RemoveLock(n, others) ==
  /\ lockDoc' = [lockDoc EXCEPT ![n] = Nobody]
  /\ undercut' = [undercut EXCEPT ![n] = others # {}]

\* The request is over and nothing was removed.
KeepLock(n, others) ==
  /\ undercut' = [undercut EXCEPT ![n] = @ /\ others # {}]
  /\ UNCHANGED lockDoc

Leave(r) ==
  /\ phase' = [phase EXCEPT ![r] = "idle"]
  /\ name' = [name EXCEPT ![r] = NoName]
  /\ open' = [open EXCEPT ![r] = TRUE]

Goto(r, p) ==
  /\ phase' = [phase EXCEPT ![r] = p]
  /\ UNCHANGED <<name, open>>

-----------------------------------------------------------------------------
\* A request for lock n enters the middleware.
Arrive(r, n) ==
  /\ phase[r] = "idle"
  /\ phase' = [phase EXCEPT ![r] = "checking"]
  /\ name' = [name EXCEPT ![r] = n]
  /\ UNCHANGED <<lockDoc, open, undercut>>

\* getLock: 423 if there is a lock, on to insertLock if there is none.
Check(r) ==
  /\ phase[r] = "checking"
  /\ \/ Found(name[r]) /\ Goto(r, "refused")
     \/ ~Found(name[r]) /\ Goto(r, "inserting")
  /\ UNCHANGED <<lockDoc, undercut>>

\* insertLock: the lock is taken and next() called; or somebody inserted it
\* since the check, the duplicate _id throws and the catch takes over.
Insert(r) ==
  /\ phase[r] = "inserting"
  /\ \/ /\ ~Duplicate(name[r])
        /\ lockDoc' = [lockDoc EXCEPT ![name[r]] = r]
        /\ Goto(r, "handling")
     \/ /\ Duplicate(name[r])
        /\ Goto(r, "releasing")
        /\ UNCHANGED lockDoc
  /\ UNCHANGED undercut

\* The catch: the lock is removed, then 500 sent.
CatchRelease(r) ==
  /\ phase[r] = "releasing"
  /\ RemoveLock(name[r], Busy(name[r]))
  /\ Goto(r, "refused")

\* The handler sends its answer.
Answer(r) ==
  /\ phase[r] = "handling"
  /\ Goto(r, "served")
  /\ UNCHANGED <<lockDoc, undercut>>

\* 'finish': the answer was handed to the connection, the lock is removed.
Finish(r) ==
  /\ phase[r] \in {"refused", "served"}
  /\ open[r]
  /\ RemoveLock(name[r], Busy(name[r]) \ {r})
  /\ Leave(r)

\* The connection is gone: 'finish' is never emitted.
Drop(r) ==
  /\ phase[r] \in {"refused", "served"}
  /\ ~open[r]
  /\ KeepLock(name[r], Busy(name[r]) \ {r})
  /\ Leave(r)

-----------------------------------------------------------------------------
\* Variant: a listener on 'close' that removes the lock, the one the comment in
\* basicLock decides against.
DisconnectReleases(r) ==
  /\ "disconnect" \in Event
  /\ phase[r] # "idle"
  /\ open[r]
  /\ open' = [open EXCEPT ![r] = FALSE]
  /\ RemoveLock(name[r], Busy(name[r]) \ {r})
  /\ UNCHANGED <<phase, name>>

\* The client closes the connection, or server.setTimeout(50000) does.
Disconnect(r) ==
  /\ "disconnect" \in Event
  /\ phase[r] # "idle"
  /\ open[r]
  /\ open' = [open EXCEPT ![r] = FALSE]
  /\ UNCHANGED <<lockDoc, phase, name, undercut>>

\* MongoDB removes a lock document after expireAfterSeconds (55).
Expire(n) ==
  /\ "ttl" \in Event
  /\ Expires(n)
  /\ RemoveLock(n, Busy(n))
  /\ UNCHANGED <<phase, name, open>>

\* A database call of the middleware throws.  In getLock and insertLock (which
\* may have been carried out all the same) the catch takes over; in the catch
\* or the listener the request is over, its lock not removed.
DbError(r) ==
  /\ "dbError" \in Event
  /\ \/ /\ phase[r] = "checking"
        /\ Goto(r, "releasing")
        /\ UNCHANGED <<lockDoc, undercut>>
     \/ /\ phase[r] = "inserting"
        /\ lockDoc' \in {lockDoc, [lockDoc EXCEPT ![name[r]] =
                                     IF Duplicate(name[r]) THEN @ ELSE r]}
        /\ Goto(r, "releasing")
        /\ UNCHANGED undercut
     \/ /\ \/ phase[r] = "releasing"
           \/ phase[r] \in {"refused", "served"} /\ open[r]
        /\ KeepLock(name[r], Busy(name[r]) \ {r})
        /\ Leave(r)

\* The server process stops and comes back: its requests are gone, the lock
\* documents are not.
Restart ==
  /\ "restart" \in Event
  /\ phase' = [r \in Request |-> "idle"]
  /\ name' = [r \in Request |-> NoName]
  /\ open' = [r \in Request |-> TRUE]
  /\ undercut' = [n \in LockName |-> FALSE]
  /\ UNCHANGED lockDoc

Step(r) ==
  Check(r) \/ Insert(r) \/ CatchRelease(r) \/ Answer(r) \/ Finish(r) \/ Drop(r)

Next ==
  \/ \E r \in Request :
       Step(r) \/ Disconnect(r) \/ DbError(r) \/ \E n \in LockName : Arrive(r, n)
  \/ \E n \in LockName : Expire(n)
  \/ Restart

\* The middleware and the handlers run on, and the TTL index is worked through
\* once a minute; nothing makes clients send, disconnect or the database fail.
Fairness ==
  /\ \A r \in Request : WF_vars(Step(r))
  /\ \A n \in LockName : WF_vars(Expire(n))

Spec == Init /\ [][Next]_vars
FairSpec == Spec /\ Fairness

-----------------------------------------------------------------------------
(* Properties.                                                             *)

\* The types, and that exactly the slots with a request have a lock name.
TypeOK ==
  /\ lockDoc \in [LockName -> Request \cup {Nobody}]
  /\ phase \in [Request -> Phase]
  /\ name \in [Request -> LockName \cup {NoName}]
  /\ open \in [Request -> BOOLEAN]
  /\ undercut \in [LockName -> BOOLEAN]
  /\ \A r \in Request : phase[r] = "idle" <=> name[r] = NoName

\* A request that works under a lock finds the lock in the collection, its own,
\* unless another request's refusal or the TTL removed it.
KeptUnlessUndercut ==
  \A n \in LockName : ~undercut[n] => \A r \in Busy(n) : lockDoc[n] = r

\* Two requests work under one lock only after it was removed from under one
\* of them: check, insert and the unique _id leave no other way in.
ExclusiveUnlessUndercut ==
  \A n \in LockName : ~undercut[n] => \A r, s \in Busy(n) : r = s

\* The lock of a request whose client left, whose process was restarted or
\* whose removal failed does not block the user for ever: the TTL index
\* gives it back.
LockComesFree == \A n \in LockName : lockDoc[n] # Nobody ~> lockDoc[n] = Nobody

\* What the comment in basicLock says of the code: the lock is kept until the
\* request has been finished.
LockKeptUntilFinished ==
  \A r \in Request : phase[r] = "handling" => lockDoc[name[r]] = r
=============================================================================
