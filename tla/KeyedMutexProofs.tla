-------------------------- MODULE KeyedMutexProofs --------------------------
(***************************************************************************)
(* For any callers and keys: the in-process lock excludes, loses no wake-  *)
(* up, lets nobody overtake, and implements ExclusiveSection.              *)
(*                                                                         *)
(* IInv is inductive: mutual exclusion alone is not, since it says nothing *)
(* about a mutex whose counter is out of step with its holders.            *)
(***************************************************************************)
EXTENDS KeyedMutex, TLAPS

IInv == TypeOK /\ MutualExclusion /\ NoLostWakeup

\* An empty queue lists nobody.
LEMMA ListsNobody == Lists(<< >>, {})
BY DEF Lists

\* A newcomer at the end of the queue: the queue lists one caller more.
LEMMA ListsAppend ==
  ASSUME NEW S, NEW q \in Seq(S), NEW W, NEW c \in S, c \notin W, Lists(q, W)
  PROVE  Lists(Append(q, c), W \cup {c})
<1> DEFINE p == Append(q, c)
<1>1. /\ Len(p) = Len(q) + 1
      /\ \A i \in 1..Len(q) : p[i] = q[i]
      /\ p[Len(q) + 1] = c
  OBVIOUS
<1>2. Len(q) \in Nat
  OBVIOUS
<1> HIDE DEF p
<1>3. \A i \in 1..Len(p) : p[i] \in W \cup {c}
  BY <1>1, <1>2 DEF Lists
<1>4. \A d \in W \cup {c} : \E i \in 1..Len(p) : p[i] = d
  <2>1. ASSUME NEW d \in W
        PROVE  \E i \in 1..Len(p) : p[i] = d
    <3>1. PICK i \in 1..Len(q) : q[i] = d
      BY DEF Lists
    <3>2. i \in 1..Len(p) /\ p[i] = d
      BY <1>1, <1>2, <3>1
    <3> QED  BY <3>2
  <2>2. Len(q) + 1 \in 1..Len(p)
    BY <1>1, <1>2
  <2> QED  BY <1>1, <2>1, <2>2
<1>5. \A i, j \in 1..Len(p) : p[i] = p[j] => i = j
  BY <1>1, <1>2 DEF Lists
<1> QED  BY <1>3, <1>4, <1>5 DEF p, Lists

\* The head is served: the rest of the queue lists the other callers.
LEMMA ListsTail ==
  ASSUME NEW S, NEW q \in Seq(S), q # << >>, NEW W, Lists(q, W)
  PROVE  Head(q) \in W /\ Lists(Tail(q), W \ {Head(q)})
<1> DEFINE p == Tail(q)
<1>1. /\ Len(p) = Len(q) - 1
      /\ \A i \in 1..Len(p) : p[i] = q[i + 1]
      /\ Head(q) = q[1]
  OBVIOUS
<1>2. Len(q) \in Nat /\ Len(q) >= 1
  OBVIOUS
<1> HIDE DEF p
<1>3. q[1] \in W
  BY <1>2 DEF Lists
<1>4. \A i \in 1..Len(p) : p[i] \in W \ {q[1]}
  BY <1>1, <1>2 DEF Lists
<1>5. ASSUME NEW d \in W \ {q[1]}
      PROVE  \E i \in 1..Len(p) : p[i] = d
  <2>1. PICK i \in 1..Len(q) : q[i] = d
    BY DEF Lists
  <2>2. i - 1 \in 1..Len(p) /\ p[i - 1] = d
    BY <1>1, <1>2, <2>1
  <2> QED  BY <2>2
<1>6. \A i, j \in 1..Len(p) : p[i] = p[j] => i = j
  BY <1>1, <1>2 DEF Lists
<1> QED  BY <1>1, <1>3, <1>4, <1>5, <1>6 DEF p, Lists

\* A free mutex is taken on the spot, a held one gets the caller in its queue.
LEMMA AcquireCases ==
  ASSUME IInv, NEW c \in Caller, NEW k \in Key, Acquire(c, k)
  PROVE  /\ phase[c] = "idle"
         /\ at' = [at EXCEPT ![c] = k]
         /\ \/ /\ locks[k].value = 0
               /\ locks' = [locks EXCEPT ![k] = Push(locks[k], c)]
               /\ phase' = [phase EXCEPT ![c] = "waiting"]
            \/ /\ locks[k].value \in {-1, 1}
               /\ locks' = [locks EXCEPT ![k] = [value |-> 0, queue |-> << >>]]
               /\ phase' = [phase EXCEPT ![c] = "holding"]
<1> USE DEF IInv, TypeOK
<1>1. CASE locks[k].value = 0
  <2>1. MutexOf(k) = locks[k]
    BY <1>1 DEF MutexOf, NoMutex
  <2> QED  BY <1>1, <2>1 DEF Acquire
<1>2. CASE locks[k].value # 0
  <2>1. locks[k].value \in {-1, 1} /\ locks[k].queue = << >>
    BY <1>2 DEF NoLostWakeup, CounterAgrees
  <2>2. MutexOf(k) = FreshMutex
    BY <2>1 DEF MutexOf, NoMutex, FreshMutex
  <2>3. Push(FreshMutex, c) = [value |-> 1, queue |-> <<c>>]
    BY DEF Push, FreshMutex
  <2>4. Dispatch(Push(FreshMutex, c))
          = [mutex |-> [value |-> 0, queue |-> << >>], granted |-> {c}]
    BY <2>3 DEF Dispatch, Take
  <2>5. locks' = [locks EXCEPT ![k] = [value |-> 0, queue |-> << >>]]
    BY <2>2, <2>4 DEF Acquire, FreshMutex
  <2>6. phase' = [d \in Caller |-> IF d \in {c} THEN "holding"
                                   ELSE IF d = c THEN "waiting" ELSE phase[d]]
    BY <2>2, <2>4 DEF Acquire, FreshMutex
  <2> QED  BY <2>1, <2>5, <2>6 DEF Acquire
<1> QED  BY <1>1, <1>2

\* A release frees the mutex or hands it to the caller at the queue's head.
LEMMA FinishCases ==
  ASSUME IInv, NEW c \in Caller, Finish(c)
  PROVE  /\ phase[c] = "holding" /\ at[c] \in Key
         /\ locks[at[c]].value = 0
         /\ at' = [at EXCEPT ![c] = NoKey]
         /\ LET m == locks[at[c]] IN
            \/ /\ m.queue = << >>
               /\ locks' = [locks EXCEPT ![at[c]] = [value |-> 1, queue |-> << >>]]
               /\ phase' = [phase EXCEPT ![c] = "idle"]
            \/ /\ m.queue # << >>
               /\ Head(m.queue) \in Waiters(at[c])
               /\ locks' = [locks EXCEPT ![at[c]] =
                              [value |-> 0, queue |-> Tail(m.queue)]]
               /\ phase' = [phase EXCEPT ![c] = "idle",
                                         ![Head(m.queue)] = "holding"]
<1> USE DEF IInv, TypeOK
<1>1. phase[c] = "holding" /\ at[c] \in Key
  BY NoKeyAssumption DEF Finish, NoLostWakeup, KeyAgrees
<1>2. locks[at[c]].value = 0
  BY <1>1 DEF NoLostWakeup, CounterAgrees, Holders
<1> DEFINE m == locks[at[c]]
           up == [m EXCEPT !.value = @ + 1]
<1>3. up = [value |-> 1, queue |-> m.queue]
  BY <1>1, <1>2
<1>4. CASE m.queue = << >>
  <2>1. Release(m) = [mutex |-> [value |-> 1, queue |-> << >>], granted |-> {}]
    BY <1>3, <1>4 DEF Release, Dispatch
  <2>2. phase' = [d \in Caller |-> IF d \in {} THEN "holding"
                                   ELSE IF d = c THEN "idle" ELSE phase[d]]
    BY <2>1 DEF Finish
  <2>3. phase' = [phase EXCEPT ![c] = "idle"]
    BY <2>2
  <2>4. locks' = [locks EXCEPT ![at[c]] = [value |-> 1, queue |-> << >>]]
    BY <2>1 DEF Finish
  <2> QED  BY <1>1, <1>2, <1>4, <2>3, <2>4 DEF Finish
<1>5. CASE m.queue # << >>
  <2>1. Release(m) = [mutex |-> [value |-> 0, queue |-> Tail(m.queue)],
                      granted |-> {Head(m.queue)}]
    <3>1. Release(m) = Dispatch([value |-> 1, queue |-> m.queue])
      BY <1>3 DEF Release
    <3>2. Take([value |-> 1, queue |-> m.queue])
            = [value |-> 0, queue |-> Tail(m.queue)]
      BY DEF Take
    <3> HIDE DEF m
    <3> QED  BY <3>1, <3>2, <1>5 DEF Dispatch
  <2>2. Head(m.queue) \in Waiters(at[c])
    BY <1>1, <1>5, ListsTail DEF NoLostWakeup, QueueIsWaiters
  <2>3. Head(m.queue) # c
    BY <1>1, <2>2 DEF Waiters
  <2>4. phase' = [d \in Caller |-> IF d \in {Head(m.queue)} THEN "holding"
                                   ELSE IF d = c THEN "idle" ELSE phase[d]]
    BY <2>1 DEF Finish
  <2>5. phase' = [phase EXCEPT ![c] = "idle", ![Head(m.queue)] = "holding"]
    BY <2>2, <2>3, <2>4 DEF Waiters
  <2>6. locks' = [locks EXCEPT ![at[c]] = [value |-> 0, queue |-> Tail(m.queue)]]
    BY <2>1 DEF Finish
  <2>7. at' = [at EXCEPT ![c] = NoKey]
    BY DEF Finish
  <2> QED  BY <1>1, <1>2, <1>5, <2>2, <2>5, <2>6, <2>7 DEF m
<1> QED  BY <1>4, <1>5

\* What the lock starts from satisfies the inductive invariant.
LEMMA InitInv == Init => IInv
<1> SUFFICES ASSUME Init PROVE IInv
  OBVIOUS
<1> USE DEF Init
<1>1. \A k \in Key : /\ locks[k].value = -1 /\ locks[k].queue = << >>
                     /\ Holders(k) = {} /\ Waiters(k) = {}
  BY DEF NoMutex, Holders, Waiters
<1>2. TypeOK
  BY DEF TypeOK, NoMutex
<1>3. MutualExclusion /\ CounterAgrees
  BY <1>1 DEF MutualExclusion, CounterAgrees
<1>4. QueueIsWaiters
  BY <1>1, ListsNobody DEF QueueIsWaiters
<1>5. KeyAgrees
  BY NoKeyAssumption DEF KeyAgrees
<1> QED  BY <1>2, <1>3, <1>4, <1>5 DEF IInv, NoLostWakeup

\* acquire() preserves it.
LEMMA AcquireInv ==
  ASSUME IInv, NEW c \in Caller, NEW k \in Key, Acquire(c, k)
  PROVE  IInv'
<1>1. phase[c] = "idle" /\ at' = [at EXCEPT ![c] = k]
  BY AcquireCases
<1>2. \A l \in Key : c \notin Waiters(l) /\ c \notin Holders(l)
  BY <1>1 DEF Waiters, Holders
<1> USE DEF IInv, TypeOK
<1>3. CASE /\ locks[k].value = 0
           /\ locks' = [locks EXCEPT ![k] = Push(locks[k], c)]
           /\ phase' = [phase EXCEPT ![c] = "waiting"]
  <2>1. Push(locks[k], c) = [value |-> 0, queue |-> Append(locks[k].queue, c)]
    BY <1>3 DEF Push
  <2>2. TypeOK'
    BY <1>1, <1>3, <2>1
  <2>3. \A l \in Key : Holders(l)' = Holders(l)
    BY <1>1, <1>3 DEF Holders
  <2>4. \A l \in Key : Waiters(l)' = IF l = k THEN Waiters(l) \cup {c} ELSE Waiters(l)
    BY <1>1, <1>3 DEF Waiters
  <2>5. MutualExclusion'
    BY <2>3 DEF MutualExclusion
  <2>6. CounterAgrees'
    BY <1>3, <2>1, <2>3, <2>4 DEF NoLostWakeup, CounterAgrees
  <2>7. QueueIsWaiters'
    <3> SUFFICES ASSUME NEW l \in Key
                 PROVE  Lists(locks'[l].queue, Waiters(l)')
      BY DEF QueueIsWaiters
    <3>1. CASE l # k
      BY <1>3, <2>4, <3>1 DEF NoLostWakeup, QueueIsWaiters
    <3>2. CASE l = k
      <4>1. locks[k].queue \in Seq(Caller) /\ locks'[l].queue = Append(locks[k].queue, c)
        BY <1>3, <2>1, <3>2
      <4>2. Waiters(l)' = Waiters(k) \cup {c} /\ c \notin Waiters(k)
        BY <1>2, <2>4, <3>2
      <4>3. Lists(locks[k].queue, Waiters(k))
        BY DEF NoLostWakeup, QueueIsWaiters
      <4> QED  BY <4>1, <4>2, <4>3, ListsAppend
    <3> QED  BY <3>1, <3>2
  <2>8. KeyAgrees'
    BY <1>1, <1>3, NoKeyAssumption DEF NoLostWakeup, KeyAgrees
  <2> QED  BY <2>2, <2>5, <2>6, <2>7, <2>8 DEF NoLostWakeup
<1>4. CASE /\ locks[k].value \in {-1, 1}
           /\ locks' = [locks EXCEPT ![k] = [value |-> 0, queue |-> << >>]]
           /\ phase' = [phase EXCEPT ![c] = "holding"]
  <2>1. Holders(k) = {} /\ Waiters(k) = {}
    BY <1>4 DEF NoLostWakeup, CounterAgrees
  <2>2. TypeOK'
    BY <1>1, <1>4
  <2>3. \A l \in Key : Holders(l)' = IF l = k THEN {c} ELSE Holders(l)
    BY <1>1, <1>4, <2>1 DEF Holders
  <2>4. \A l \in Key : Waiters(l)' = Waiters(l)
    BY <1>1, <1>4 DEF Waiters
  <2>5. MutualExclusion'
    BY <2>3 DEF MutualExclusion
  <2>6. CounterAgrees'
    <3> SUFFICES ASSUME NEW l \in Key
                 PROVE  /\ locks'[l].value \in {-1, 1} =>
                             /\ Holders(l)' = {} /\ Waiters(l)' = {}
                             /\ locks'[l].queue = << >>
                        /\ locks'[l].value = 0 => Holders(l)' # {}
      BY DEF CounterAgrees
    <3>1. CASE l = k
      <4>1. locks'[l].value = 0 /\ Holders(l)' = {c}
        BY <1>4, <2>3, <3>1
      <4> QED  BY <4>1
    <3>2. CASE l # k
      <4>1. locks'[l] = locks[l]
        BY <1>4, <3>2
      <4> QED  BY <2>3, <2>4, <3>2, <4>1 DEF NoLostWakeup, CounterAgrees
    <3> QED  BY <3>1, <3>2
  <2>7. QueueIsWaiters'
    <3> SUFFICES ASSUME NEW l \in Key
                 PROVE  Lists(locks'[l].queue, Waiters(l)')
      BY DEF QueueIsWaiters
    <3>1. CASE l = k
      <4>1. locks'[l].queue = << >> /\ Waiters(l)' = {}
        BY <1>4, <2>1, <2>4, <3>1
      <4> QED  BY <4>1, ListsNobody
    <3>2. CASE l # k
      BY <1>4, <2>4, <3>2 DEF NoLostWakeup, QueueIsWaiters
    <3> QED  BY <3>1, <3>2
  <2>8. KeyAgrees'
    BY <1>1, <1>4, NoKeyAssumption DEF NoLostWakeup, KeyAgrees
  <2> QED  BY <2>2, <2>5, <2>6, <2>7, <2>8 DEF NoLostWakeup
<1> QED  BY <1>3, <1>4, AcquireCases

\* The finally's release() preserves it.
LEMMA FinishInv ==
  ASSUME IInv, NEW c \in Caller, Finish(c)
  PROVE  IInv'
<1> DEFINE k == at[c]
           m == locks[k]
<1>1. /\ phase[c] = "holding" /\ k \in Key
      /\ m.value = 0
      /\ at' = [at EXCEPT ![c] = NoKey]
  BY FinishCases
<1> USE DEF IInv, TypeOK
<1>2. Holders(k) = {c}
  BY <1>1 DEF MutualExclusion, Holders
<1>3. \A l \in Key : l # k => c \notin Holders(l)
  BY DEF Holders
<1>4. CASE /\ m.queue = << >>
           /\ locks' = [locks EXCEPT ![k] = [value |-> 1, queue |-> << >>]]
           /\ phase' = [phase EXCEPT ![c] = "idle"]
  <2>1. Waiters(k) = {}
    BY <1>1, <1>4 DEF NoLostWakeup, QueueIsWaiters, Lists
  <2>2. TypeOK'
    BY <1>1, <1>4
  <2>3. \A l \in Key : Holders(l)' = IF l = k THEN {} ELSE Holders(l)
    BY <1>1, <1>2, <1>4, NoKeyAssumption DEF Holders
  <2>4. \A l \in Key : Waiters(l)' = Waiters(l)
    BY <1>1, <1>4, NoKeyAssumption DEF Waiters
  <2>5. MutualExclusion'
    BY <2>3 DEF MutualExclusion
  <2>6. \A l \in Key : l # k => locks'[l] = locks[l]
    BY <1>4
  <2>7. locks'[k] = [value |-> 1, queue |-> << >>]
    BY <1>1, <1>4
  <2>8. CounterAgrees'
    <3> SUFFICES ASSUME NEW l \in Key
                 PROVE  /\ locks'[l].value \in {-1, 1} =>
                             /\ Holders(l)' = {} /\ Waiters(l)' = {}
                             /\ locks'[l].queue = << >>
                        /\ locks'[l].value = 0 => Holders(l)' # {}
      BY DEF CounterAgrees
    <3>1. CASE l = k
      BY <2>1, <2>3, <2>4, <2>7, <3>1
    <3>2. CASE l # k
      BY <2>3, <2>4, <2>6, <3>2 DEF NoLostWakeup, CounterAgrees
    <3> QED  BY <3>1, <3>2
  <2>9. QueueIsWaiters'
    <3> SUFFICES ASSUME NEW l \in Key
                 PROVE  Lists(locks'[l].queue, Waiters(l)')
      BY DEF QueueIsWaiters
    <3>1. CASE l = k
      <4>1. locks'[l].queue = << >> /\ Waiters(l)' = {}
        BY <2>1, <2>4, <2>7, <3>1
      <4> QED  BY <4>1, ListsNobody
    <3>2. CASE l # k
      BY <2>4, <2>6, <3>2 DEF NoLostWakeup, QueueIsWaiters
    <3> QED  BY <3>1, <3>2
  <2>10. KeyAgrees'
    BY <1>1, <1>4, NoKeyAssumption DEF NoLostWakeup, KeyAgrees
  <2> QED  BY <2>2, <2>5, <2>8, <2>9, <2>10 DEF NoLostWakeup
<1>5. CASE /\ m.queue # << >>
           /\ Head(m.queue) \in Waiters(k)
           /\ locks' = [locks EXCEPT ![k] = [value |-> 0, queue |-> Tail(m.queue)]]
           /\ phase' = [phase EXCEPT ![c] = "idle", ![Head(m.queue)] = "holding"]
  <2> DEFINE h == Head(m.queue)
  <2>1. /\ h \in Caller /\ phase[h] = "waiting" /\ at[h] = k /\ h # c
        /\ phase' = [phase EXCEPT ![c] = "idle", ![h] = "holding"]
    BY <1>1, <1>5 DEF Waiters
  <2>2. locks'[k] = [value |-> 0, queue |-> Tail(m.queue)]
    BY <1>1, <1>5
  <2>3. m.queue \in Seq(Caller) /\ Tail(m.queue) \in Seq(Caller)
    BY <1>1, <1>5
  <2>4. Lists(Tail(m.queue), Waiters(k) \ {h})
    BY <1>1, <1>5, <2>3, ListsTail DEF NoLostWakeup, QueueIsWaiters
  <2>5. \A l \in Key : l # k => locks'[l] = locks[l]
    BY <1>5
  <2>6. TypeOK'
    BY <1>1, <1>5, <2>1, <2>3
  <2> HIDE DEF h
  <2>7. \A l \in Key : Holders(l)' = IF l = k THEN {h} ELSE Holders(l)
    BY <1>1, <1>2, <2>1, NoKeyAssumption DEF Holders
  <2>8. \A l \in Key : Waiters(l)' = IF l = k THEN Waiters(l) \ {h} ELSE Waiters(l)
    BY <1>1, <2>1, NoKeyAssumption DEF Waiters
  <2>9. MutualExclusion'
    BY <2>7 DEF MutualExclusion
  <2>10. CounterAgrees'
    <3> SUFFICES ASSUME NEW l \in Key
                 PROVE  /\ locks'[l].value \in {-1, 1} =>
                             /\ Holders(l)' = {} /\ Waiters(l)' = {}
                             /\ locks'[l].queue = << >>
                        /\ locks'[l].value = 0 => Holders(l)' # {}
      BY DEF CounterAgrees
    <3>1. CASE l = k
      <4>1. locks'[l].value = 0 /\ Holders(l)' = {h}
        BY <2>2, <2>7, <3>1
      <4> QED  BY <4>1
    <3>2. CASE l # k
      BY <2>5, <2>7, <2>8, <3>2 DEF NoLostWakeup, CounterAgrees
    <3> QED  BY <3>1, <3>2
  <2>11. QueueIsWaiters'
    <3> SUFFICES ASSUME NEW l \in Key
                 PROVE  Lists(locks'[l].queue, Waiters(l)')
      BY DEF QueueIsWaiters
    <3>1. CASE l = k
      <4> DEFINE t == Tail(m.queue)
      <4>1. locks'[l] = [value |-> 0, queue |-> t]
        BY <2>2, <3>1
      <4> HIDE DEF t
      <4>2. locks'[l].queue = t
        BY <4>1
      <4>3. locks'[l].queue = Tail(m.queue)
        BY <4>2 DEF t
      <4>4. Waiters(l)' = Waiters(k) \ {h}
        BY <2>8, <3>1
      <4> QED  BY <2>4, <4>3, <4>4
    <3>2. CASE l # k
      BY <2>5, <2>8, <3>2 DEF NoLostWakeup, QueueIsWaiters
    <3> QED  BY <3>1, <3>2
  <2>12. KeyAgrees'
    BY <1>1, <2>1, NoKeyAssumption DEF NoLostWakeup, KeyAgrees
  <2> QED  BY <2>6, <2>9, <2>10, <2>11, <2>12 DEF NoLostWakeup
<1> QED  BY <1>4, <1>5, FinishCases

\* The strengthened invariant holds throughout.
THEOREM SpecIInv == Spec => []IInv
<1>1. IInv /\ [Next]_vars => IInv'
  <2> SUFFICES ASSUME IInv, [Next]_vars PROVE IInv'
    OBVIOUS
  <2>1. CASE UNCHANGED vars
    <3>1. /\ locks' = locks /\ phase' = phase /\ at' = at
          /\ \A k \in Key : Holders(k)' = Holders(k) /\ Waiters(k)' = Waiters(k)
      BY <2>1 DEF vars, Holders, Waiters
    <3>2. TypeOK' /\ MutualExclusion' /\ KeyAgrees'
      BY <3>1 DEF IInv, TypeOK, MutualExclusion, NoLostWakeup, KeyAgrees
    <3>3. CounterAgrees'
      BY <3>1 DEF IInv, NoLostWakeup, CounterAgrees
    <3>4. QueueIsWaiters'
      BY <3>1 DEF IInv, NoLostWakeup, QueueIsWaiters
    <3> QED  BY <3>2, <3>3, <3>4 DEF IInv, NoLostWakeup
  <2> QED  BY <2>1, AcquireInv, FinishInv DEF Next
<1> QED  BY <1>1, InitInv, PTL DEF Spec

\* Each lock's counter and queue keep their types.
THEOREM SpecTypeOK == Spec => []TypeOK
BY SpecIInv, PTL DEF IInv

\* Two operations on one subscription's state never run together in one server
\* process, however many callers and keys there are.
THEOREM SpecMutualExclusion == Spec => []MutualExclusion
BY SpecIInv, PTL DEF IInv

\* A waiting operation is always in the queue of a mutex somebody will release.
THEOREM SpecNoLostWakeup == Spec => []NoLostWakeup
BY SpecIInv, PTL DEF IInv
-----------------------------------------------------------------------------
(* The lock implements ExclusiveSection: a caller that queues asks, one    *)
(* that finds the mutex free enters, a release hands over or frees.        *)

\* Nobody uses the lock to begin with.
LEMMA SectionInit == Init => Section!Init
BY DEF Init, Section!Init, Waiters, Holders

\* acquire() on a held mutex asks, on a free one enters.
LEMMA AcquireSection ==
  ASSUME IInv, NEW c \in Caller, NEW k \in Key, Acquire(c, k)
  PROVE  Section!Ask(c, k) \/ Section!Enter(c, k)
<1>1. phase[c] = "idle" /\ at' = [at EXCEPT ![c] = k]
  BY AcquireCases
<1>2. Section!Away(c)
  BY <1>1 DEF Section!Away, Waiters, Holders
<1> USE DEF IInv, TypeOK
<1>3. CASE locks[k].value = 0 /\ phase' = [phase EXCEPT ![c] = "waiting"]
  <2>1. Holders(k) # {}
    BY <1>3 DEF NoLostWakeup, CounterAgrees
  <2>2. \A l \in Key : /\ Holders(l)' = Holders(l)
                       /\ Waiters(l)' = IF l = k THEN Waiters(l) \cup {c} ELSE Waiters(l)
    BY <1>1, <1>3 DEF Holders, Waiters
  <2> QED  BY <1>2, <2>1, <2>2 DEF Section!Ask
<1>4. CASE locks[k].value \in {-1, 1} /\ phase' = [phase EXCEPT ![c] = "holding"]
  <2>1. Holders(k) = {} /\ Waiters(k) = {}
    BY <1>4 DEF NoLostWakeup, CounterAgrees
  <2>2. \A l \in Key : /\ Holders(l)' = IF l = k THEN {c} ELSE Holders(l)
                       /\ Waiters(l)' = Waiters(l)
    BY <1>1, <1>4, <2>1 DEF Holders, Waiters
  <2> QED  BY <1>2, <2>1, <2>2 DEF Section!Enter
<1> QED  BY <1>3, <1>4, AcquireCases

\* release() leaves the section, to a waiting caller if there is one.
LEMMA FinishSection ==
  ASSUME IInv, NEW c \in Caller, Finish(c)
  PROVE  Section!Leave(c, at[c]) /\ at[c] \in Key
<1> DEFINE k == at[c]
           m == locks[k]
<1>1. /\ phase[c] = "holding" /\ k \in Key /\ m.value = 0
      /\ at' = [at EXCEPT ![c] = NoKey]
  BY FinishCases
<1> USE DEF IInv, TypeOK
<1>2. Holders(k) = {c}
  BY <1>1 DEF MutualExclusion, Holders
<1>3. CASE m.queue = << >> /\ phase' = [phase EXCEPT ![c] = "idle"]
  <2>1. Waiters(k) = {}
    BY <1>1, <1>3 DEF NoLostWakeup, QueueIsWaiters, Lists
  <2>2. \A l \in Key : /\ Holders(l)' = IF l = k THEN {} ELSE Holders(l)
                       /\ Waiters(l)' = Waiters(l)
    BY <1>1, <1>2, <1>3, NoKeyAssumption DEF Holders, Waiters
  <2> QED  BY <1>1, <1>2, <2>1, <2>2 DEF Section!Leave
<1>4. CASE /\ m.queue # << >> /\ Head(m.queue) \in Waiters(k)
           /\ phase' = [phase EXCEPT ![c] = "idle", ![Head(m.queue)] = "holding"]
  <2> DEFINE h == Head(m.queue)
  <2>1. /\ h \in Waiters(k) /\ h \in Caller /\ h # c
        /\ phase[h] = "waiting" /\ at[h] = k
        /\ phase' = [phase EXCEPT ![c] = "idle", ![h] = "holding"]
    BY <1>1, <1>4 DEF Waiters
  <2> HIDE DEF h
  <2>2. \A l \in Key :
          /\ Holders(l)' = IF l = k THEN {h} ELSE Holders(l)
          /\ Waiters(l)' = IF l = k THEN Waiters(l) \ {h} ELSE Waiters(l)
    BY <1>1, <1>2, <2>1, NoKeyAssumption DEF Holders, Waiters
  <2> QED  BY <1>1, <1>2, <2>1, <2>2 DEF Section!Leave
<1> QED  BY <1>1, <1>3, <1>4, FinishCases

\* The in-process lock implements the exclusive section: hand-over included, and
\* with nobody ever walking past those who wait.
THEOREM SpecImplementsSection == Spec => ImplementsSection
<1>1. IInv /\ [Next]_vars => [Section!Next]_Section!vars
  <2> SUFFICES ASSUME IInv, [Next]_vars PROVE [Section!Next]_Section!vars
    OBVIOUS
  <2>1. CASE UNCHANGED vars
    BY <2>1 DEF vars, Section!vars, Waiters, Holders
  <2> QED  BY <2>1, AcquireSection, FinishSection DEF Next, Section!Next
<1> QED  BY <1>1, SpecIInv, SectionInit, PTL DEF Spec, ImplementsSection, Section!Spec

-----------------------------------------------------------------------------
(* First come, first served.                                               *)

\* What comes before c in the sequence q.
Before(q, c) ==
  {q[i] : i \in {n \in 1..Len(q) : \E m \in 1..Len(q) : n < m /\ q[m] = c}}

\* A caller that is appended is before nobody who was there.
LEMMA BeforeAppend ==
  ASSUME NEW q \in Seq(Caller), NEW d \in Caller, NEW c \in Caller, c # d
  PROVE  Before(Append(q, d), c) \subseteq Before(q, c)
<1> DEFINE p == Append(q, d)
<1>1. /\ Len(q) \in Nat /\ Len(p) = Len(q) + 1
      /\ p[Len(q) + 1] = d /\ \A i \in 1..Len(q) : p[i] = q[i]
  OBVIOUS
<1> HIDE DEF p
<1>2. ASSUME NEW n \in 1..Len(p), NEW m \in 1..Len(p), n < m, p[m] = c
      PROVE  p[n] \in Before(q, c)
  <2>1. m # Len(q) + 1
    BY <1>1, <1>2
  <2>2. n \in 1..Len(q) /\ m \in 1..Len(q) /\ p[n] = q[n] /\ q[m] = c
    BY <1>1, <1>2, <2>1
  <2> QED  BY <1>2, <2>2 DEF Before
<1>3. Before(p, c) \subseteq Before(q, c)
  BY <1>2 DEF Before
<1> QED  BY <1>3 DEF p

\* When the first caller of a queue is let in, it was before all the others,
\* and nobody else comes before them.
LEMMA BeforeTail ==
  ASSUME NEW q \in Seq(Caller), q # << >>, NEW c \in Caller,
         \E i \in 1..Len(q) : q[i] = c, c # Head(q)
  PROVE  Before(Tail(q), c) \subseteq Before(q, c) /\ Head(q) \in Before(q, c)
<1> DEFINE p == Tail(q)
<1>1. /\ Len(q) \in Nat /\ Len(q) >= 1 /\ Len(p) = Len(q) - 1
      /\ Head(q) = q[1] /\ \A i \in 1..Len(p) : p[i] = q[i + 1]
  OBVIOUS
<1> HIDE DEF p
<1>2. ASSUME NEW n \in 1..Len(p), NEW m \in 1..Len(p), n < m, p[m] = c
      PROVE  p[n] \in Before(q, c)
  <2>1. /\ n + 1 \in 1..Len(q) /\ m + 1 \in 1..Len(q) /\ n + 1 < m + 1
        /\ p[n] = q[n + 1] /\ q[m + 1] = c
    BY <1>1, <1>2
  <2> QED  BY <2>1 DEF Before
<1>3. Before(p, c) \subseteq Before(q, c)
  BY <1>2 DEF Before
<1>4. Head(q) \in Before(q, c)
  <2>1. PICK i \in 1..Len(q) : q[i] = c
    OBVIOUS
  <2>2. 1 \in 1..Len(q) /\ 1 < i
    BY <1>1, <2>1
  <2> QED  BY <1>1, <2>1, <2>2 DEF Before
<1> QED  BY <1>3, <1>4 DEF p

\* What a step may do to a key whose queue somebody stays in.
Orderly(k) ==
  \A c \in Waiters(k) : c \in Waiters(k)' =>
    (Ahead(k, c) \cup Holders(k))' \subseteq Ahead(k, c) \cup Holders(k)

\* Nothing happens to a key's queue, and nobody enters its section.
LEMMA UntouchedOrderly ==
  ASSUME NEW k \in Key, locks'[k] = locks[k], Holders(k)' \subseteq Holders(k)
  PROVE  Orderly(k)
BY DEF Orderly, Ahead

\* A new caller joins the end of the queue; it enters only when nobody waits.
LEMMA AcquireOrderly ==
  ASSUME IInv, NEW c \in Caller, NEW k \in Key, Acquire(c, k), NEW l \in Key
  PROVE  Orderly(l)
<1> USE DEF IInv, TypeOK
<1>1. phase[c] = "idle" /\ at' = [at EXCEPT ![c] = k]
  BY AcquireCases
<1>2. CASE l # k
  <2>1. locks'[l] = locks[l]
    BY <1>2, AcquireCases
  <2>2. Holders(l)' \subseteq Holders(l)
    BY <1>1, <1>2, AcquireCases DEF Holders
  <2> QED  BY <2>1, <2>2, UntouchedOrderly
<1>3. CASE l = k /\ locks[k].value = 0
  <2>1. /\ locks' = [locks EXCEPT ![k] = Push(locks[k], c)]
        /\ phase' = [phase EXCEPT ![c] = "waiting"]
    BY <1>3, AcquireCases
  <2>2. Holders(k)' \subseteq Holders(k)
    BY <1>1, <2>1 DEF Holders
  <2>3. locks'[k].queue = Append(locks[k].queue, c) /\ locks[k].queue \in Seq(Caller)
    BY <2>1 DEF Push
  <2>4. ASSUME NEW d \in Waiters(k)
        PROVE  Ahead(k, d)' \subseteq Ahead(k, d)
    <3>1. d \in Caller /\ d # c
      BY <1>1 DEF Waiters
    <3> QED  BY <2>3, <3>1, BeforeAppend DEF Ahead, Before
  <2> QED  BY <1>3, <2>2, <2>4 DEF Orderly
<1>4. CASE l = k /\ locks[k].value \in {-1, 1}
  BY <1>4 DEF NoLostWakeup, CounterAgrees, Orderly
<1> QED  BY <1>2, <1>3, <1>4, AcquireCases

\* A release lets in the first of the queue or nobody.
LEMMA FinishOrderly ==
  ASSUME IInv, NEW c \in Caller, Finish(c), NEW l \in Key
  PROVE  Orderly(l)
<1> USE DEF IInv, TypeOK
<1>1. PICK k \in Key : k = at[c]
  BY FinishCases
<1>2. PICK q \in Seq(Caller) : q = locks[k].queue
  OBVIOUS
<1>3. /\ phase[c] = "holding" /\ at' = [at EXCEPT ![c] = NoKey]
      /\ \/ /\ q = << >>
            /\ locks' = [locks EXCEPT ![k] = [value |-> 1, queue |-> << >>]]
            /\ phase' = [phase EXCEPT ![c] = "idle"]
         \/ /\ q # << >> /\ Head(q) \in Waiters(k)
            /\ locks' = [locks EXCEPT ![k] = [value |-> 0, queue |-> Tail(q)]]
            /\ phase' = [phase EXCEPT ![c] = "idle", ![Head(q)] = "holding"]
  BY <1>1, <1>2, FinishCases
<1>4. Lists(q, Waiters(k))
  BY <1>2 DEF NoLostWakeup, QueueIsWaiters
<1>5. CASE l # k
  <2>1. locks'[l] = locks[l]
    BY <1>3, <1>5
  <2>2. Holders(l)' \subseteq Holders(l)
    BY <1>1, <1>3, <1>5, NoKeyAssumption DEF Holders, Waiters
  <2> QED  BY <2>1, <2>2, UntouchedOrderly
<1>6. CASE l = k /\ q = << >>
  BY <1>4, <1>6 DEF Orderly, Lists
<1>7. CASE l = k /\ q # << >>
  <2>1. PICK h \in Caller : h = Head(q) /\ h \in Waiters(k)
    BY <1>3, <1>7 DEF Waiters
  <2>2. /\ h # c
        /\ locks' = [locks EXCEPT ![k] = [value |-> 0, queue |-> Tail(q)]]
        /\ phase' = [phase EXCEPT ![c] = "idle", ![h] = "holding"]
    BY <1>3, <1>7, <2>1 DEF Waiters
  <2>3. Holders(k)' \subseteq {h} \cup Holders(k) /\ h \notin Waiters(k)'
    BY <1>3, <2>2 DEF Holders, Waiters
  <2>4. locks'[k].queue = Tail(q)
    BY <2>2
  <2>5. ASSUME NEW d \in Waiters(k), d \in Waiters(k)'
        PROVE  Ahead(k, d)' \subseteq Ahead(k, d) /\ h \in Ahead(k, d)
    <3>1. d \in Caller /\ d # h /\ \E i \in 1..Len(q) : q[i] = d
      BY <1>4, <2>3, <2>5 DEF Waiters, Lists
    <3>2. Before(Tail(q), d) \subseteq Before(q, d) /\ h \in Before(q, d)
      BY <1>7, <2>1, <3>1, BeforeTail
    <3> QED  BY <1>2, <2>4, <3>2 DEF Ahead, Before
  <2> QED  BY <1>7, <2>3, <2>5 DEF Orderly
<1> QED  BY <1>5, <1>6, <1>7

\* Nobody is overtaken, with any number of callers and keys: who waits meets
\* only those who were in the section or in the queue before it.
THEOREM SpecNoOvertaking == Spec => NoOvertaking
<1>1. ASSUME IInv, [Next]_vars
      PROVE  [\A k \in Key : Orderly(k)]_vars
  BY <1>1, AcquireOrderly, FinishOrderly DEF Next
<1>2. [\A k \in Key : Orderly(k)]_vars =>
        [\A k \in Key : \A c \in Waiters(k) :
           c \in Waiters(k)' =>
             (Ahead(k, c) \cup Holders(k))' \subseteq Ahead(k, c) \cup Holders(k)]_vars
  BY DEF Orderly
<1> QED  BY <1>1, <1>2, SpecIInv, PTL DEF Spec, NoOvertaking

=============================================================================
