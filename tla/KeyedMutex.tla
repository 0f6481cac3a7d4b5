----------------------------- MODULE KeyedMutex -----------------------------
(***************************************************************************)
(* The gateway's in-process lock, utils/lock/index.ts: one Lock singleton  *)
(* per server process, holding a Map from key to an async-mutex Mutex.     *)
(* Channel operations take it with key channelAddress+id, keyloads with    *)
(* key 'auth-sub-'+channelAddress+authorId.  A caller is one pending       *)
(* lock.acquire(key).then(...) chain; all of them release in a finally, so *)
(* a chain that fails releases like one that succeeds.                     *)
(*                                                                         *)
(* The library's Mutex is a Semaphore(1): a counter and a queue of         *)
(* resolvers, served first come first served.  A caller holds the mutex    *)
(* once its resolver has been taken off the queue.                         *)
(***************************************************************************)
EXTENDS Integers, Sequences

CONSTANTS Caller,     \* acquire chains that may be pending at one time
          Key,        \* lock keys
          NoKey       \* the key of a caller that is not using the lock

ASSUME NoKeyAssumption == NoKey \notin Key

VARIABLES locks,      \* Lock.locks: key -> Mutex, NoMutex where the Map has none
          phase,      \* where a caller's chain is
          at          \* the key a caller's chain is for

vars == <<locks, phase, at>>

NoMutex == [value |-> -1, queue |-> << >>]
FreshMutex == [value |-> 1, queue |-> << >>]

Holders(k) == {c \in Caller : phase[c] = "holding" /\ at[c] = k}
Waiters(k) == {c \in Caller : phase[c] = "waiting" /\ at[c] = k}

TypeOK ==
  /\ locks \in [Key -> [value : {-1, 0, 1}, queue : Seq(Caller)]]
  /\ phase \in [Caller -> {"idle", "waiting", "holding"}]
  /\ at \in [Caller -> Key \cup {NoKey}]

Init ==
  /\ locks = [k \in Key |-> NoMutex]
  /\ phase = [c \in Caller |-> "idle"]
  /\ at = [c \in Caller |-> NoKey]

-----------------------------------------------------------------------------
(* Variants of the code that a property must tell apart from it.           *)

\* acquire() without the has() test: every call sets a new Mutex.
AlwaysNewMutex(k) == FreshMutex

\* acquire() that pushes new callers to the front of the queue.
PushFront(m, c) == [value |-> m.value, queue |-> <<c>> \o m.queue]

\* a dispatch that forgets to take the mutex: value stays as it was.
DispatchKeepsValue(m) == [m EXCEPT !.queue = Tail(@)]

\* a releaser that frees the mutex but calls no waiter.
FreeOnly(m) == [mutex |-> [m EXCEPT !.value = @ + 1], granted |-> {}]

-----------------------------------------------------------------------------
\* The Mutex of key k, made on first use and kept for the process's life.
MutexOf(k) == IF locks[k] = NoMutex THEN FreshMutex ELSE locks[k]

\* Semaphore.acquire: the new ticket's resolver goes to the end of the queue.
Push(m, c) == [value |-> m.value, queue |-> Append(m.queue, c)]

\* Semaphore._dispatch with a caller to serve: its resolver leaves the queue.
Take(m) == [value |-> m.value - 1, queue |-> Tail(m.queue)]

\* What _dispatch leaves behind, and whom it lets in.
Dispatch(m) ==
  IF m.queue = << >> THEN [mutex |-> m, granted |-> {}]
  ELSE [mutex |-> Take(m), granted |-> {Head(m.queue)}]

\* The releaser: the counter goes up and the next caller in line is served.
Release(m) == Dispatch([m EXCEPT !.value = @ + 1])

\* acquire(key): served at once if the mutex is free, queued if it is locked.
Acquire(c, k) ==
  /\ phase[c] = "idle"
  /\ LET pushed == Push(MutexOf(k), c) IN
       \/ /\ MutexOf(k).value <= 0
          /\ locks' = [locks EXCEPT ![k] = pushed]
          /\ phase' = [phase EXCEPT ![c] = "waiting"]
       \/ /\ MutexOf(k).value > 0
          /\ locks' = [locks EXCEPT ![k] = Dispatch(pushed).mutex]
          /\ phase' = [d \in Caller |->
                         IF d \in Dispatch(pushed).granted THEN "holding"
                         ELSE IF d = c THEN "waiting" ELSE phase[d]]
  /\ at' = [at EXCEPT ![c] = k]

\* The chain's body ends, by a result or an exception: finally { release() }.
Finish(c) ==
  /\ phase[c] = "holding"
  /\ LET released == Release(locks[at[c]]) IN
       /\ locks' = [locks EXCEPT ![at[c]] = released.mutex]
       /\ phase' = [d \in Caller |->
                      IF d \in released.granted THEN "holding"
                      ELSE IF d = c THEN "idle" ELSE phase[d]]
  /\ at' = [at EXCEPT ![c] = NoKey]

Next == \E c \in Caller : Finish(c) \/ \E k \in Key : Acquire(c, k)

\* A body is a finite chain of awaits with a finally: it ends.
Fairness == \A c \in Caller : WF_vars(Finish(c))

Spec == Init /\ [][Next]_vars
FairSpec == Spec /\ Fairness

-----------------------------------------------------------------------------
(* Properties.                                                             *)

\* No two chains are in a section with the same key: what getLogs, addLog,
\* re-import, validate and sendKeyload rely on when they read, change and
\* write back one subscription's state.
MutualExclusion == \A k \in Key : \A c, d \in Holders(k) : c = d

\* The counter agrees with the chains: a free mutex has neither holder nor
\* waiter, a locked one has a holder.
CounterAgrees ==
  \A k \in Key :
    /\ locks[k].value \in {-1, 1} =>
         Holders(k) = {} /\ Waiters(k) = {} /\ locks[k].queue = << >>
    /\ locks[k].value = 0 => Holders(k) # {}

\* The sequence q lists the members of the set W, each of them once.
Lists(q, W) ==
  /\ \A i \in 1..Len(q) : q[i] \in W
  /\ \A c \in W : \E i \in 1..Len(q) : q[i] = c
  /\ \A i, j \in 1..Len(q) : q[i] = q[j] => i = j

\* The queue of a key's mutex lists the chains waiting for the key.
QueueIsWaiters == \A k \in Key : Lists(locks[k].queue, Waiters(k))

\* A chain that is not using the lock has no key, and only such a chain.
KeyAgrees == \A c \in Caller : phase[c] = "idle" <=> at[c] = NoKey

\* No wake-up is lost: whoever waits is in the queue of a mutex that somebody
\* holds, and that holder's releaser will serve it.
NoLostWakeup == CounterAgrees /\ QueueIsWaiters /\ KeyAgrees

\* The chains that are queued before chain c.
Ahead(k, c) ==
  LET q == locks[k].queue IN
    {q[i] : i \in {n \in 1..Len(q) : \E m \in 1..Len(q) : n < m /\ q[m] = c}}

\* First come, first served: while a chain waits, nobody gets in front of it,
\* neither in the queue nor into the section.  That the keyloads of a revoke
\* follow those of earlier operations rests on this.
NoOvertaking ==
  [][\A k \in Key : \A c \in Waiters(k) :
       c \in Waiters(k)' =>
         (Ahead(k, c) \cup Holders(k))' \subseteq Ahead(k, c) \cup Holders(k)]_vars

\* Every chain that asks for the lock gets it.
NoStarvation == \A c \in Caller : phase[c] = "waiting" ~> phase[c] = "holding"

\* The mutex implements the exclusive section, hand-over included.
Section == INSTANCE ExclusiveSection WITH
             Process <- Caller,
             asking <- [k \in Key |-> Waiters(k)],
             inside <- [k \in Key |-> Holders(k)]
ImplementsSection == Section!Spec
=============================================================================
