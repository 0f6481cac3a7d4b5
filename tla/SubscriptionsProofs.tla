------------------------- MODULE SubscriptionsProofs -------------------------
(***************************************************************************)
(* Proofs about Subscriptions, for any finite set of users, any keys,      *)
(* channel types, kinds of subscription and events.                        *)
(*                                                                         *)
(* The inductive invariant is the typing together with AwaitedAgree: a     *)
(* handler's step adds its subscription to a list, say, so the typing of   *)
(* the lists needs that a handler at work (pc) has a subscription (kind).  *)
(* From it follow the purge of the logs, and what the other proofs need of *)
(* the history: which steps an operation goes through (Phased) and that    *)
(* nothing that went wrong is forgotten (Remembered).                      *)
(***************************************************************************)
EXTENDS Subscriptions, FiniteSetTheorems, TLAPS

IInv == TypeOK /\ AwaitedAgree

Task == [branch : Member, keys : SUBSET Key, live : BOOLEAN, sent : BOOLEAN]

\* The live calls of the queue q are those for the branches P, one for each.
Agree(q, P) ==
  /\ \A i \in 1..Len(q) : q[i].live => q[i].branch \in P
  /\ \A i, j \in 1..Len(q) :
       q[i].live /\ q[j].live /\ q[i].branch = q[j].branch => i = j
  /\ \A m \in P : \E i \in 1..Len(q) : q[i].live /\ q[i].branch = m

-----------------------------------------------------------------------------
(* The queue.                                                              *)

\* A handler that ends leaves no live call behind.
LEMMA AgreeOrphaned ==
  ASSUME NEW q \in Seq(Task)
  PROVE  Orphaned(q) \in Seq(Task) /\ Agree(Orphaned(q), {})
<1> DEFINE p == Orphaned(q)
<1>1. /\ DOMAIN q = 1..Len(q) /\ Len(q) \in Nat
      /\ \A i \in 1..Len(q) : q[i] \in Task
  OBVIOUS
<1>2. p = [i \in 1..Len(q) |-> [q[i] EXCEPT !.live = FALSE]]
  BY <1>1 DEF Orphaned
<1> HIDE DEF p
<1>a. ASSUME NEW t \in Task
      PROVE  [t EXCEPT !.live = FALSE] \in Task /\ ~[t EXCEPT !.live = FALSE].live
  BY DEF Task
<1>3. \A i \in 1..Len(q) : p[i] \in Task /\ ~p[i].live
  BY <1>1, <1>2, <1>a
<1>4. p \in Seq(Task) /\ Len(p) = Len(q)
  BY <1>1, <1>2, <1>3
<1> QED  BY <1>3, <1>4 DEF Agree, p

\* Publishing a keyload changes neither who waits nor for what.
LEMMA AgreeSent ==
  ASSUME NEW q \in Seq(Task), q # << >>, NEW P, Agree(q, P)
  PROVE  /\ [q EXCEPT ![1].sent = TRUE] \in Seq(Task)
         /\ Agree([q EXCEPT ![1].sent = TRUE], P)
<1> DEFINE p == [q EXCEPT ![1].sent = TRUE]
<1>1. /\ DOMAIN q = 1..Len(q) /\ Len(q) \in Nat
      /\ \A i \in 1..Len(q) : q[i] \in Task
  OBVIOUS
<1>a. ASSUME NEW t \in Task
      PROVE  /\ [t EXCEPT !.sent = TRUE] \in Task
             /\ [t EXCEPT !.sent = TRUE].live = t.live
             /\ [t EXCEPT !.sent = TRUE].branch = t.branch
  BY DEF Task
<1>b. /\ DOMAIN p = 1..Len(q)
      /\ \A i \in 1..Len(q) :
           p[i] = IF i = 1 THEN [q[i] EXCEPT !.sent = TRUE] ELSE q[i]
  BY <1>1
<1>c. p = [i \in 1..Len(q) |-> IF i = 1 THEN [q[i] EXCEPT !.sent = TRUE] ELSE q[i]]
  BY <1>1
<1> HIDE DEF p
<1>2. \A i \in 1..Len(q) : /\ p[i] \in Task
                           /\ p[i].live = q[i].live
                           /\ p[i].branch = q[i].branch
  BY <1>1, <1>a, <1>b
<1>3. p \in Seq(Task) /\ Len(p) = Len(q)
  BY <1>1, <1>2, <1>c
<1> QED  BY <1>2, <1>3 DEF Agree, p

\* When the first call is over, its handler waits for one branch less.
LEMMA AgreeTail ==
  ASSUME NEW q \in Seq(Task), q # << >>, NEW P, Agree(q, P)
  PROVE  /\ Head(q) \in Task /\ Tail(q) \in Seq(Task)
         /\ Head(q).live => Head(q).branch \in P
         /\ Agree(Tail(q), IF Head(q).live THEN P \ {Head(q).branch} ELSE P)
<1> DEFINE p == Tail(q)
<1>1. /\ Len(q) \in Nat /\ Len(q) >= 1 /\ Len(p) = Len(q) - 1
      /\ \A i \in 1..Len(p) : p[i] = q[i + 1]
      /\ Head(q) = q[1] /\ q[1] \in Task /\ p \in Seq(Task)
  OBVIOUS
<1> HIDE DEF p
<1> DEFINE R == IF q[1].live THEN P \ {q[1].branch} ELSE P
<1>2. \A i \in 1..Len(p) : p[i].live => p[i].branch \in R
  BY <1>1 DEF Agree
<1>3. \A i, j \in 1..Len(p) :
        p[i].live /\ p[j].live /\ p[i].branch = p[j].branch => i = j
  BY <1>1 DEF Agree
<1>4. ASSUME NEW m \in R
      PROVE  \E i \in 1..Len(p) : p[i].live /\ p[i].branch = m
  <2>1. PICK j \in 1..Len(q) : q[j].live /\ q[j].branch = m
    BY <1>4 DEF Agree
  <2>2. j # 1
    BY <1>4, <2>1
  <2>3. j - 1 \in 1..Len(p) /\ p[j - 1] = q[j]
    BY <1>1, <2>1, <2>2
  <2> QED  BY <2>1, <2>3
<1>5. Agree(p, R)
  BY <1>2, <1>3, <1>4 DEF Agree
<1> QED  BY <1>1, <1>5 DEF p, Agree

\* The database lists each subscription once.
LEMMA OrderLists ==
  ASSUME NEW S, IsFiniteSet(S), NEW order \in SetToSeqs(S)
  PROVE  /\ order \in Seq(S) /\ Len(order) = Cardinality(S)
         /\ \A i, j \in 1..Len(order) : order[i] = order[j] => i = j
         /\ \A m \in S : \E i \in 1..Len(order) : order[i] = m
<1> DEFINE n == Cardinality(S)
<1>1. n \in Nat
  BY FS_CardinalityType
<1>2. order \in [1..n -> S] /\ \A i, j \in 1..n : i # j => order[i] # order[j]
  BY DEF SetToSeqs
<1>3. order \in Seq(S) /\ Len(order) = n
  BY <1>1, <1>2
<1>4. IsFiniteSet(1..n) /\ Cardinality(1..n) = n
  BY <1>1, FS_Interval
<1>5. order \in Injection(1..n, S)
  BY <1>2 DEF Injection, IsInjective
<1>6. order \in Surjection(1..n, S)
  BY <1>4, <1>5, FS_Injection
<1> QED  BY <1>2, <1>3, <1>6 DEF Surjection

\* One call per branch.
LEMMA AgreeKeyloads ==
  ASSUME NEW B \in SUBSET Member, NEW order \in Seq(B), NEW keys \in SUBSET Key,
         \A i, j \in 1..Len(order) : order[i] = order[j] => i = j,
         \A m \in B : \E i \in 1..Len(order) : order[i] = m
  PROVE  Keyloads(order, keys) \in Seq(Task) /\ Agree(Keyloads(order, keys), B)
<1> DEFINE t == Keyloads(order, keys)
<1>1. /\ DOMAIN order = 1..Len(order) /\ Len(order) \in Nat
      /\ \A i \in 1..Len(order) : order[i] \in B
  OBVIOUS
<1>2. t = [i \in 1..Len(order) |-> Keyload(order[i], keys)]
  BY <1>1 DEF Keyloads
<1> HIDE DEF t
<1>3. ASSUME NEW m \in B
      PROVE  /\ Keyload(m, keys) \in Task
             /\ Keyload(m, keys).live /\ Keyload(m, keys).branch = m
  BY DEF Keyload, Task
<1>4. \A i \in 1..Len(order) : /\ t[i] \in Task
                               /\ t[i].live /\ t[i].branch = order[i]
  BY <1>1, <1>2, <1>3
<1>5. t \in Seq(Task) /\ Len(t) = Len(order)
  BY <1>1, <1>2, <1>4
<1> QED  BY <1>1, <1>4, <1>5 DEF Agree, t

\* When nothing was awaited, calls that join the queue are all that is.
LEMMA AgreeJoined ==
  ASSUME NEW q \in Seq(Task), NEW t \in Seq(Task), NEW B,
         Agree(q, {}), Agree(t, B)
  PROVE  q \o t \in Seq(Task) /\ Agree(q \o t, B)
<1> DEFINE p == q \o t
<1>1. /\ p \in Seq(Task) /\ Len(q) \in Nat /\ Len(p) = Len(q) + Len(t)
      /\ \A i \in 1..Len(q) : p[i] = q[i]
      /\ \A i \in 1..Len(p) : i > Len(q) => p[i] = t[i - Len(q)]
  OBVIOUS
<1>2. Len(t) \in Nat
  OBVIOUS
<1> HIDE DEF p
<1>3. \A i \in 1..Len(q) : ~q[i].live
  BY DEF Agree
<1>4. ASSUME NEW i \in 1..Len(p), p[i].live
      PROVE  i - Len(q) \in 1..Len(t) /\ p[i] = t[i - Len(q)]
  BY <1>1, <1>2, <1>3, <1>4
<1>5. ASSUME NEW i \in 1..Len(p), p[i].live
      PROVE  p[i].branch \in B
  BY <1>4, <1>5 DEF Agree
<1>6. ASSUME NEW i \in 1..Len(p), NEW j \in 1..Len(p),
             p[i].live, p[j].live, p[i].branch = p[j].branch
      PROVE  i = j
  <2> DEFINE m == i - Len(q)
             n == j - Len(q)
  <2>1. m \in 1..Len(t) /\ n \in 1..Len(t) /\ p[i] = t[m] /\ p[j] = t[n]
    BY <1>4, <1>6
  <2> HIDE DEF m, n
  <2>2. m = n
    BY <1>6, <2>1 DEF Agree
  <2> QED  BY <1>1, <2>2 DEF m, n
<1>7. ASSUME NEW m \in B
      PROVE  \E i \in 1..Len(p) : p[i].live /\ p[i].branch = m
  <2>1. PICK i \in 1..Len(t) : t[i].live /\ t[i].branch = m
    BY <1>7 DEF Agree
  <2>2. /\ i + Len(q) \in 1..Len(p) /\ i + Len(q) > Len(q)
        /\ (i + Len(q)) - Len(q) = i
    BY <1>1, <1>2, <2>1
  <2>3. p[i + Len(q)] = t[i]
    BY <1>1, <2>2
  <2> QED  BY <2>1, <2>2, <2>3
<1>8. Agree(p, B)
  BY <1>5, <1>6, <1>7 DEF Agree
<1> QED  BY <1>1, <1>8 DEF p

-----------------------------------------------------------------------------
(* The parts of the invariant, by the actions that disturb them.           *)

DocsType ==
  /\ channelType \in ChannelTypes /\ channelExists \in BOOLEAN
  /\ subscriberIds \subseteq User /\ requestedIds \subseteq User
  /\ stateDocs \subseteq User /\ cached \subseteq User
  /\ authorPassword \in {"service", "shared"}

SubsType ==
  /\ subs \in [User -> [kind : Kind, key : Key \cup {NoKey}, authorized : BOOLEAN]]
  /\ \A u \in User : subs[u].key = NoKey <=> subs[u].kind \in {"none", "psk"}

KeyloadType == keyload \in [Member -> SUBSET Key]

\* The author's handler, its calls, and what it waits for.
OpInv ==
  /\ queue \in Seq(Task)
  /\ op \in [kind : {"none", "authorize", "revoke"}, pc : OpPc,
             who : User \cup {NoUser}, key : Key \cup {NoKey},
             authorized : BOOLEAN, branches : SUBSET Member,
             keys : SUBSET Key, pending : SUBSET Member, copy : SUBSET User]
  /\ op.kind # "none" => op.who \in User /\ op.key \in Key
  /\ op.kind = "none" <=> op.pc = "none"
  /\ op.pc \notin {"first", "rest"} => op.pending = {}
  /\ Agree(queue, op.pending)

ReqType ==
  /\ req \in [User -> [pc : ReqPc, kind : Kind, key : Key \cup {NoKey},
                       copy : SUBSET User]]
  /\ \A u \in User : req[u].key = NoKey <=> req[u].kind \in {"none", "psk"}

DelType ==
  /\ del \in [pc : {"none", "read", "write", "remove"}, who : User \cup {NoUser},
              copy : SUBSET User]
  /\ del.pc # "none" => del.who \in User

EventsType == events \in 0..MaxEvents

HistType ==
  hist \in [approved : SUBSET User, revoked : SUBSET Key, late : SUBSET User,
            failed : BOOLEAN, raced : BOOLEAN]

Parts ==
  DocsType /\ SubsType /\ KeyloadType /\ OpInv /\ ReqType /\ DelType
  /\ EventsType /\ HistType

\* The parts make up the typing and AwaitedAgree.
LEMMA IInvParts == IInv <=> Parts
BY DEF IInv, TypeOK, AwaitedAgree, Parts, DocsType, SubsType, KeyloadType, OpInv,
       Agree, Task, ReqType, DelType, EventsType, HistType

\* What an action leaves alone keeps its part.
LEMMA Untouched ==
  ASSUME Parts
  PROVE  /\ UNCHANGED <<channel, lists, stateDocs, cached, authorPassword>> => DocsType'
         /\ UNCHANGED subs => SubsType'
         /\ UNCHANGED keyload => KeyloadType'
         /\ UNCHANGED <<queue, op>> => OpInv'
         /\ UNCHANGED req => ReqType'
         /\ UNCHANGED del => DelType'
         /\ UNCHANGED events => EventsType'
         /\ UNCHANGED hist => HistType'
BY DEF Parts, DocsType, SubsType, KeyloadType, OpInv, Agree, Task, ReqType,
       DelType, EventsType, HistType, channel, lists

\* An idle handler, with none of its calls in the queue.
LEMMA IdleOp ==
  ASSUME op' = NoOp, queue' \in Seq(Task), Agree(queue, {})'
  PROVE  OpInv'
BY DEF OpInv, NoOp, OpPc

\* A handler that throws ends; its calls are orphans.
LEMMA FailOpInv ==
  ASSUME Parts, FailOp
  PROVE  OpInv' /\ HistType'
<1>1. queue' \in Seq(Task) /\ Agree(queue, {})'
  BY AgreeOrphaned DEF FailOp, Parts, OpInv, Agree
<1>2. OpInv'
  BY <1>1, IdleOp DEF FailOp
<1>3. HistType'
  BY DEF FailOp, Failed, Parts, HistType
<1> QED  BY <1>2, <1>3

\* A keyload that ends well or badly.
LEMMA KeyloadResolvesInv ==
  ASSUME Parts, queue # << >>, KeyloadResolves
  PROVE  OpInv' /\ HistType'
<1> DEFINE P == IF Head(queue).live THEN op.pending \ {Head(queue).branch}
                ELSE op.pending
<1>1. queue' \in Seq(Task) /\ Agree(queue', P)
  BY AgreeTail DEF KeyloadResolves, Parts, OpInv
<1>2. op' = [op EXCEPT !.pending = P]
  BY DEF KeyloadResolves
<1>3. P \subseteq op.pending
  OBVIOUS
<1> HIDE DEF P
<1>4. OpInv'
  <2>1. op'.pending = P /\ Agree(queue, op.pending)'
    BY <1>1, <1>2 DEF Parts, OpInv, Agree
  <2> QED  BY <1>1, <1>2, <1>3, <2>1 DEF Parts, OpInv
<1>5. HistType'
  BY DEF KeyloadResolves, Parts, HistType
<1> QED  BY <1>4, <1>5

\* An awaited keyload that rejects ends its handler and orphans the others;
\* one that nobody awaits just leaves the queue.
LEMMA KeyloadRejectsInv ==
  ASSUME Parts, queue # << >>, KeyloadRejects
  PROVE  OpInv' /\ HistType'
<1>1. Tail(queue) \in Seq(Task)
  BY DEF Parts, OpInv
<1>2. HistType'
  BY DEF KeyloadRejects, Failed, Parts, HistType
<1>3. CASE Head(queue).live
  <2>1. queue' \in Seq(Task) /\ Agree(queue, {})'
    BY <1>1, <1>3, AgreeOrphaned DEF KeyloadRejects, Agree
  <2> QED  BY <1>2, <1>3, <2>1, IdleOp DEF KeyloadRejects
<1>4. CASE ~Head(queue).live
  <2>1. Agree(Tail(queue), op.pending)
    BY <1>4, AgreeTail DEF Parts, OpInv
  <2>2. queue' = Tail(queue) /\ op' = op
    BY <1>4 DEF KeyloadRejects
  <2>3. OpInv'
    BY <1>1, <2>1, <2>2 DEF Parts, OpInv, Agree
  <2> QED  BY <1>2, <2>3
<1> QED  BY <1>3, <1>4

\* A list written back, with or without an id.
LEMMA WriteListInv ==
  ASSUME Parts, NEW read, NEW ids \in SUBSET User,
         WriteSubscribers(read, ids) \/ WriteRequested(read, ids),
         UNCHANGED <<channel, stateDocs, cached, authorPassword>>
  PROVE  DocsType' /\ HistType'
BY DEF Parts, DocsType, HistType, WriteSubscribers, WriteRequested, channel

\* A subscription document that goes takes the name of its branch along.
LEMMA RemoveSubInv ==
  ASSUME Parts, NEW u \in User, RemoveSub(u)
  PROVE  SubsType' /\ KeyloadType'
BY DEF Parts, SubsType, KeyloadType, RemoveSub, NoSub, Kind, Member

\* A handler that has no keyloads pending goes on to wait for none.
LEMMA MoveOpInv ==
  ASSUME Parts, op.kind # "none", op.pending = {},
         NEW to \in OpPc \ {"none"}, NEW copy \in SUBSET User,
         op' = [op EXCEPT !.pc = to, !.copy = copy], UNCHANGED queue
  PROVE  OpInv'
BY DEF Parts, OpInv

-----------------------------------------------------------------------------
(* The users' requests and retrievals of logs.                             *)

\* A request takes a key of the user's own, or none with a pre-shared key.
LEMMA RequestCheckInv ==
  ASSUME Parts, NEW u \in User, RequestCheck(u)
  PROVE  Parts'
<1>1. ReqType'
  <2>1. ASSUME "psk" \in Kinds,
               req' = [req EXCEPT ![u] = [NoReq EXCEPT !.pc = "addState", !.kind = "psk"]]
        PROVE  ReqType'
    BY <2>1 DEF Parts, ReqType, NoReq, ReqPc, Kind
  <2>2. ASSUME NEW k \in KeysOf[u], NEW kind \in {"open", "reader", "writer"},
               req' = [req EXCEPT ![u] = [NoReq EXCEPT !.pc = "addState", !.kind = kind,
                                                       !.key = k]]
        PROVE  ReqType'
    <3>1. k \in Key /\ k # NoKey
      BY KeysOfAssumption, NoKeyAssumption
    <3> QED  BY <2>2, <3>1 DEF Parts, ReqType, NoReq, ReqPc, Kind
  <2>3. \/ "psk" \in Kinds
           /\ req' = [req EXCEPT ![u] = [NoReq EXCEPT !.pc = "addState", !.kind = "psk"]]
        \/ \E k \in KeysOf[u], kind \in {"open", "reader", "writer"} :
             req' = [req EXCEPT ![u] = [NoReq EXCEPT !.pc = "addState", !.kind = kind,
                                                     !.key = k]]
    BY KindsAssumption DEF RequestCheck
  <2> QED  BY <2>1, <2>2, <2>3
<1>2. HistType'
  BY DEF RequestCheck, Parts, HistType
<1> QED  BY <1>1, <1>2, Untouched DEF RequestCheck, Parts, docs, userDocs, channel, lists

\* The steps of a request, and the second of getLogs.
LEMMA RequestStepInv ==
  ASSUME Parts, NEW u \in User, RequestStep(u)
  PROVE  Parts'
<1>1. CASE RequestState(u)
  <2>1. ReqType'
    BY <1>1 DEF RequestState, Parts, ReqType, NoReq, ReqPc, Kind
  <2>2. DocsType'
    BY <1>1 DEF RequestState, StateAdded, Parts, DocsType, channel, lists
  <2> QED  BY <1>1, <2>1, <2>2, Untouched DEF RequestState, Parts
<1>2. CASE RequestSub(u)
  <2>1. ReqType'
    BY <1>2 DEF RequestSub, Parts, ReqType, ReqPc, Kind
  <2>2. SubsType'
    BY <1>2 DEF RequestSub, AuthorizedAtOnce, Parts, SubsType, ReqType
  <2> QED  BY <1>2, <2>1, <2>2, Untouched DEF RequestSub, Parts
<1>3. CASE RequestReadList(u)
  <2>1. ReqType'
    BY <1>3 DEF RequestReadList, FailReq, NoReq, Parts, ReqType, DocsType, ReqPc, Kind
  <2>2. HistType'
    BY <1>3 DEF RequestReadList, FailReq, Failed, Parts, HistType
  <2> QED  BY <1>3, <2>1, <2>2, Untouched
           DEF RequestReadList, Parts, docs, userDocs, channel, lists
<1>4. CASE RequestWriteList(u)
  <2>1. ReqType'
    BY <1>4 DEF RequestWriteList, NoReq, Parts, ReqType, ReqPc, Kind
  <2>2. DocsType' /\ HistType'
    <3>1. req[u].copy \cup {u} \in SUBSET User
      BY DEF Parts, ReqType
    <3> QED  BY <1>4, <3>1, WriteListInv DEF RequestWriteList, userDocs
  <2> QED  BY <1>4, <2>1, <2>2, Untouched DEF RequestWriteList, Parts, userDocs
<1>5. CASE LogsAdd(u)
  <2>1. ReqType'
    BY <1>5 DEF LogsAdd, NoReq, Parts, ReqType, ReqPc, Kind
  <2>2. DocsType' /\ HistType'
    BY <1>5 DEF LogsAdd, Parts, DocsType, HistType, channel, lists
  <2> QED  BY <1>5, <2>1, <2>2, Untouched DEF LogsAdd, Parts
<1> QED  BY <1>1, <1>2, <1>3, <1>4, <1>5 DEF RequestStep

\* The first step of getLogs.
LEMMA LogsSaveInv ==
  ASSUME Parts, NEW u \in User, LogsSave(u)
  PROVE  Parts'
<1>1. ReqType'
  BY DEF LogsSave, Parts, ReqType, ReqPc
<1> QED  BY <1>1, Untouched DEF LogsSave, Parts, docs, userDocs, channel, lists

-----------------------------------------------------------------------------
(* The routes without a lock, failures and restarts.                       *)

\* The steps of a DELETE: it has a user from its check to its end.
LEMMA DeleteStepInv ==
  ASSUME Parts, DeleteStep
  PROVE  Parts'
<1>1. CASE DeleteRead
  <2>1. DelType'
    <3>1. CASE del' = NoDel
      BY <3>1 DEF NoDel, DelType
    <3>2. CASE del' = [del EXCEPT !.pc = "write", !.copy = subscriberIds]
      BY <1>1, <3>2 DEF DeleteRead, Parts, DelType, DocsType
    <3> QED  BY <1>1, <3>1, <3>2 DEF DeleteRead
  <2>2. HistType'
    BY <1>1 DEF DeleteRead, Failed, Parts, HistType
  <2> QED  BY <1>1, <2>1, <2>2, Untouched DEF DeleteRead, Parts, docs, userDocs, channel, lists
<1>2. CASE DeleteWrite
  <2>1. DelType'
    BY <1>2 DEF DeleteWrite, Parts, DelType
  <2>2. DocsType' /\ HistType'
    <3>1. del.copy \ {del.who} \in SUBSET User
      BY DEF Parts, DelType
    <3> QED  BY <1>2, <3>1, WriteListInv DEF DeleteWrite, userDocs
  <2> QED  BY <1>2, <2>1, <2>2, Untouched DEF DeleteWrite, Parts, userDocs
<1>3. CASE DeleteRemove
  <2>1. DelType' /\ HistType'
    BY <1>3 DEF DeleteRemove, NoDel, Parts, DelType, HistType
  <2>2. SubsType' /\ KeyloadType'
    BY <1>3, RemoveSubInv DEF DeleteRemove, Parts, DelType
  <2> QED  BY <1>3, <2>1, <2>2, Untouched DEF DeleteRemove, Parts
<1> QED  BY <1>1, <1>2, <1>3 DEF DeleteStep

\* Whatever fails or restarts, no handler is left waiting.
LEMMA EventInv ==
  ASSUME Parts, Event
  PROVE  Parts'
<1>1. EventsType'
  <2>1. Spend
    BY DEF Event, DeleteChannel, OpThrows, KeyloadThrows, DeleteThrows, Restart,
       DeleteCheck, RequestThrows
  <2> QED  BY <2>1, MaxEventsAssumption DEF Spend, Parts, EventsType
<1>2. CASE DeleteChannel
  <2>1. DocsType'
    BY <1>2 DEF DeleteChannel, userDocs, Parts, DocsType
  <2> QED  BY <1>1, <1>2, <2>1, Untouched DEF DeleteChannel, Parts, userDocs
<1>3. CASE OpThrows
  BY <1>1, <1>3, FailOpInv, Untouched
  DEF OpThrows, Parts, docs, userDocs, channel, lists
<1>4. CASE KeyloadThrows
  <2>1. OpInv' /\ HistType'
    BY <1>4, KeyloadRejectsInv DEF KeyloadThrows
  <2> QED  BY <1>1, <1>4, <2>1, Untouched
           DEF KeyloadThrows, Parts, docs, userDocs, channel, lists
<1>5. CASE DeleteThrows
  <2>1. DelType' /\ HistType'
    BY <1>5 DEF DeleteThrows, NoDel, Failed, Parts, DelType, HistType
  <2> QED  BY <1>1, <1>5, <2>1, Untouched
           DEF DeleteThrows, Parts, docs, userDocs, channel, lists
<1>6. CASE Restart
  <2>1. OpInv'
    <3>1. << >> \in Seq(Task) /\ Agree(<< >>, {})
      BY DEF Agree
    <3> QED  BY <1>6, <3>1, IdleOp DEF Restart, Agree
  <2>2. ReqType'
    BY <1>6 DEF Restart, NoReq, ReqType, ReqPc, Kind
  <2>3. DelType' /\ HistType'
    BY <1>6 DEF Restart, NoDel, Failed, Parts, DelType, HistType
  <2> QED  BY <1>1, <1>6, <2>1, <2>2, <2>3, Untouched
           DEF Restart, Parts, docs, userDocs, channel, lists
<1>7. ASSUME NEW u \in User, DeleteCheck(u)
      PROVE  Parts'
  <2>1. DelType'
    BY <1>7 DEF DeleteCheck, DelType
  <2> QED  BY <1>1, <1>7, <2>1, Untouched
           DEF DeleteCheck, Parts, docs, userDocs, channel, lists
<1>8. ASSUME NEW u \in User, RequestThrows(u)
      PROVE  Parts'
  <2>1. ReqType' /\ HistType'
    BY <1>8 DEF RequestThrows, FailReq, NoReq, Failed, Parts, ReqType, HistType,
                ReqPc, Kind
  <2> QED  BY <1>1, <1>8, <2>1, Untouched
           DEF RequestThrows, Parts, docs, userDocs, channel, lists
<1> QED  BY <1>2, <1>3, <1>4, <1>5, <1>6, <1>7, <1>8 DEF Event
-----------------------------------------------------------------------------
(* The author's operations and the keyloads.                               *)

\* Only a subscription with a key is authorized or revoked.
LEMMA LoadInv ==
  ASSUME Parts, NEW u \in User, Authorize(u) \/ Revoke(u)
  PROVE  Parts'
<1>1. subs[u].key \in Key
  BY NoKeyAssumption DEF Authorize, Authorizable, Revoke, Revocable, HasLink, Parts, SubsType
<1>2. PICK kind \in {"authorize", "revoke"} : Load(kind, u)
  BY DEF Authorize, Revoke
<1>3. OpInv'
  <2>1. op' = [NoOp EXCEPT !.kind = kind, !.pc = "load", !.who = u,
                           !.key = subs[u].key, !.authorized = subs[u].authorized]
        /\ queue' = queue
    BY <1>2 DEF Load
  <2>2. op.pending = {}
    BY <1>2 DEF Load, Parts, OpInv
  <2>3. Agree(queue, op.pending)'
    BY <2>1, <2>2 DEF NoOp, Parts, OpInv, Agree
  <2> QED  BY <1>1, <2>1, <2>3 DEF NoOp, OpPc, Parts, OpInv, SubsType
<1>4. HistType'
  <2>1. CASE Authorize(u)
    BY <2>1 DEF Authorize, Parts, HistType
  <2>2. CASE Revoke(u)
    BY <2>2 DEF Revoke, Parts, HistType
  <2> QED  BY <2>1, <2>2
<1> QED  BY <1>2, <1>3, <1>4, Untouched DEF Load, Parts, docs, userDocs, channel, lists

\* The keys gathered are those of subscriptions that have one.
LEMMA GatherInv ==
  ASSUME Parts, Gather
  PROVE  Parts'
<1>1. OpInv' /\ HistType'
  <2>1. CASE FailOp
    BY <2>1, FailOpInv
  <2>2. CASE ~FailOp
    <3>1. ReaderKeys \in SUBSET (Key \cup {NoKey}) /\ Readers \in SUBSET User
      BY DEF ReaderKeys, Readers, Parts, SubsType
    <3>2. NoKey \notin ReaderKeys
      BY DEF ReaderKeys, Readers, Parts, SubsType
    <3>3. PICK keys \in SUBSET Key :
            op' = [op EXCEPT !.pc = "fetch", !.branches = Readers \cup {Author},
                             !.keys = keys]
      BY <2>2, <3>1, <3>2 DEF Gather, KeysWithout
    <3>4. op.pending = {} /\ op.kind # "none"
      BY DEF Gather, Parts, OpInv
    <3>5. UNCHANGED <<queue, hist>>
      BY <2>2 DEF Gather
    <3>6. Readers \cup {Author} \in SUBSET Member
      BY <3>1 DEF Member
    <3>7. OpInv'
      BY <3>3, <3>4, <3>5, <3>6 DEF Parts, OpInv, OpPc, Agree
    <3> QED  BY <3>5, <3>7, Untouched
  <2> QED  BY <2>1, <2>2
<1> QED  BY <1>1, Untouched DEF Gather, Parts, docs, userDocs, channel, lists

\* The branches are finitely many, so the database lists them in some order.
LEMMA AwaitBranches ==
  ASSUME Parts, op.pending = {}, NEW keys \in SUBSET Key,
         NEW order \in SetToSeqs(op.branches), Enqueue(Keyloads(order, keys)),
         op.kind # "none",
         op' = [op EXCEPT !.pc = "rest", !.pending = op.branches,
                          !.branches = {}, !.keys = {}]
  PROVE  OpInv'
<1>1. op.branches \in SUBSET Member
  BY DEF Parts, OpInv
<1>2. IsFiniteSet(op.branches)
  <2>1. IsFiniteSet(Member)
    BY UserAssumption, FS_AddElement DEF Member
  <2> QED  BY <1>1, <2>1, FS_Subset
<1>3. Keyloads(order, keys) \in Seq(Task) /\ Agree(Keyloads(order, keys), op.branches)
  BY <1>1, <1>2, OrderLists, AgreeKeyloads
<1>4. queue' \in Seq(Task) /\ Agree(queue', op.branches)
  BY <1>3, AgreeJoined DEF Enqueue, Parts, OpInv
<1>5. Agree(queue, op.pending)'
  <2>1. op'.pending = op.branches
    BY DEF Parts, OpInv
  <2> QED  BY <1>4, <2>1 DEF Agree
<1> QED  BY <1>1, <1>4, <1>5 DEF Parts, OpInv, OpPc

\* The keyload on the new subscription's branch joins the queue.
LEMMA AuthorizeFirstInv ==
  ASSUME Parts, AuthorizeFirst
  PROVE  Parts'
<1>1. op.kind = "authorize" /\ op.who \in User /\ op.key \in Key /\ op.pending = {}
  BY DEF AuthorizeFirst, Parts, OpInv
<1>2. AuthorizeKeys \in SUBSET Key
  BY <1>1 DEF AuthorizeKeys, Parts, OpInv
<1> DEFINE t == <<Keyload(op.who, AuthorizeKeys)>>
<1>3. t \in Seq(Task) /\ Agree(t, {op.who})
  <2>1. Keyload(op.who, AuthorizeKeys) \in Task
        /\ Keyload(op.who, AuthorizeKeys).live
        /\ Keyload(op.who, AuthorizeKeys).branch = op.who
    BY <1>1, <1>2 DEF Keyload, Task, Member
  <2> QED  BY <2>1 DEF Agree
<1> HIDE DEF t
<1>4. queue' \in Seq(Task) /\ Agree(queue', {op.who})
  BY <1>1, <1>3, AgreeJoined DEF AuthorizeFirst, Enqueue, Parts, OpInv, t
<1>5. op' = [op EXCEPT !.pc = "first", !.pending = {op.who}]
  BY DEF AuthorizeFirst
<1>6. Agree(queue, op.pending)'
  <2>1. op'.pending = {op.who}
    BY <1>5 DEF Parts, OpInv
  <2> QED  BY <1>4, <2>1 DEF Agree
<1>7. OpInv'
  <2>1. {op.who} \in SUBSET Member
    BY <1>1 DEF Member
  <2>2. /\ op'.kind = op.kind /\ op'.pc = "first"
        /\ op'.who = op.who /\ op'.key = op.key
    BY <1>5 DEF Parts, OpInv
  <2>3. op' \in [kind : {"none", "authorize", "revoke"}, pc : OpPc,
                 who : User \cup {NoUser}, key : Key \cup {NoKey},
                 authorized : BOOLEAN, branches : SUBSET Member,
                 keys : SUBSET Key, pending : SUBSET Member, copy : SUBSET User]
    BY <1>5, <2>1 DEF Parts, OpInv, OpPc
  <2> QED  BY <1>1, <1>4, <1>6, <2>2, <2>3 DEF OpInv
<1>8. DocsType'
  BY DEF AuthorizeFirst, FetchLogs, Parts, DocsType, channel, lists, userDocs
<1> QED  BY <1>7, <1>8, Untouched DEF AuthorizeFirst, Parts, userDocs

\* The keyloads on the existing branches join the queue.
LEMMA KeyloadsInv ==
  ASSUME Parts, AuthorizeRest \/ RevokeKeyloads
  PROVE  Parts'
<1>1. CASE AuthorizeRest
  <2>1. op.kind # "none" /\ op.key \in Key
    BY <1>1 DEF AuthorizeRest, Parts, OpInv
  <2>2. AuthorizeKeys \in SUBSET Key
    BY <2>1 DEF AuthorizeKeys, Parts, OpInv
  <2>3. OpInv'
    BY <1>1, <2>1, <2>2, AwaitBranches DEF AuthorizeRest
  <2> QED  BY <1>1, <2>3, Untouched
           DEF AuthorizeRest, Parts, docs, userDocs, channel, lists
<1>2. CASE RevokeKeyloads
  <2>1. op.kind # "none" /\ op.pending = {} /\ op.keys \in SUBSET Key
    BY <1>2 DEF RevokeKeyloads, Parts, OpInv
  <2>2. PICK order \in SetToSeqs(op.branches) : Enqueue(Keyloads(order, op.keys))
    BY <1>2 DEF RevokeKeyloads
  <2>3. op' = [op EXCEPT !.pc = "rest", !.pending = op.branches,
                         !.branches = {}, !.keys = {}]
    BY <1>2 DEF RevokeKeyloads
  <2>4. OpInv'
    BY <2>1, <2>2, <2>3, AwaitBranches
  <2>5. DocsType'
    BY <1>2 DEF RevokeKeyloads, FetchLogs, Parts, DocsType, channel, lists, userDocs
  <2> QED  BY <1>2, <2>4, <2>5, Untouched DEF RevokeKeyloads, Parts, userDocs
<1> QED  BY <1>1, <1>2

\* The holder of the keyload lock publishes its keyload or is done.
LEMMA KeyloadStepInv ==
  ASSUME Parts, KeyloadStep
  PROVE  Parts'
<1>1. CASE SendKeyload
  <2>1. queue' \in Seq(Task) /\ Agree(queue', op.pending)
    BY <1>1, AgreeSent DEF SendKeyload, Parts, OpInv
  <2>2. OpInv'
    BY <1>1, <2>1 DEF SendKeyload, Parts, OpInv, Agree
  <2>3. KeyloadType'
    <3>1. Head(queue) \in Task
      BY <1>1 DEF SendKeyload, Parts, OpInv
    <3> QED  BY <1>1, <3>1 DEF SendKeyload, Parts, KeyloadType, Task
  <2> QED  BY <1>1, <2>2, <2>3, Untouched
           DEF SendKeyload, Parts, docs, userDocs, channel, lists
<1>2. CASE RecordKeyload
  <2>1. queue # << >> /\ (KeyloadResolves \/ KeyloadRejects)
    BY <1>2 DEF RecordKeyload
  <2>2. OpInv' /\ HistType'
    BY <2>1, KeyloadResolvesInv, KeyloadRejectsInv
  <2>3. SubsType'
    <3>1. UNCHANGED subs \/ \E m \in User : subs' = [subs EXCEPT ![m].authorized = TRUE]
      BY <1>2 DEF RecordKeyload
    <3>2. ASSUME NEW m \in User, subs' = [subs EXCEPT ![m].authorized = TRUE]
          PROVE  SubsType'
      BY <3>2 DEF Parts, SubsType
    <3> QED  BY <3>1, <3>2, Untouched
  <2> QED  BY <1>2, <2>2, <2>3, Untouched DEF RecordKeyload, Parts
<1> QED  BY <1>1, <1>2 DEF KeyloadStep

\* A list is read, or the handler ends because the channel is gone.
LEMMA ReadListInv ==
  ASSUME Parts, NEW from \in OpPc \ {"none", "first", "rest"},
         NEW to \in OpPc \ {"none"}, NEW ids \in SUBSET User, ReadList(from, ids, to)
  PROVE  Parts'
<1>1. CASE FailOp
  BY <1>1, FailOpInv, Untouched DEF ReadList, Parts, docs, userDocs, channel, lists
<1>2. CASE ~FailOp
  <2>1. op.kind # "none" /\ op.pending = {}
    BY DEF ReadList, Parts, OpInv
  <2>2. OpInv'
    BY <1>2, <2>1, MoveOpInv DEF ReadList
  <2> QED  BY <1>2, <2>2, Untouched DEF ReadList, Parts, docs, userDocs, channel, lists
<1> QED  BY <1>1, <1>2

\* A list is written, and the handler goes on or is done.
LEMMA WriteStepInv ==
  ASSUME Parts, op.pc \notin {"none", "first", "rest"},
         NEW read, NEW ids \in SUBSET User,
         WriteSubscribers(read, ids) \/ WriteRequested(read, ids),
         \/ op' = NoOp
         \/ \E to \in OpPc \ {"none"} : op' = [op EXCEPT !.pc = to, !.copy = {}],
         UNCHANGED <<channel, userDocs, authorPassword, keyload, queue, req, del,
                     events>>
  PROVE  Parts'
<1>1. op.kind # "none" /\ op.pending = {}
  BY DEF Parts, OpInv
<1>2. DocsType' /\ HistType'
  BY WriteListInv DEF userDocs
<1>3. OpInv'
  <2>1. CASE op' = NoOp
    <3>1. queue' \in Seq(Task) /\ Agree(queue, {})'
      BY <1>1 DEF Parts, OpInv, Agree
    <3> QED  BY <2>1, <3>1, IdleOp
  <2>2. ASSUME NEW to \in OpPc \ {"none"}, op' = [op EXCEPT !.pc = to, !.copy = {}]
        PROVE  OpInv'
    <3>1. {} \in SUBSET User /\ UNCHANGED queue
      OBVIOUS
    <3> QED  BY <1>1, <2>2, <3>1, MoveOpInv
  <2> QED  BY <2>1, <2>2
<1> QED  BY <1>2, <1>3, Untouched DEF Parts, userDocs

\* Every step of an authorize or a revoke.
LEMMA OpStepInv ==
  ASSUME Parts, OpStep
  PROVE  Parts'
<1> USE DEF OpPc
<1>1. CASE Gather \/ AuthorizeFirst \/ AuthorizeRest \/ RevokeKeyloads
  BY <1>1, GatherInv, AuthorizeFirstInv, KeyloadsInv
<1>2. CASE ReadRequested \/ ReadSubscribers \/ ReadUnsubscribe \/ ReadForget
  <2>1. subscriberIds \in SUBSET User /\ requestedIds \in SUBSET User
    BY DEF Parts, DocsType
  <2> QED  BY <1>2, <2>1, ReadListInv
           DEF ReadRequested, ReadSubscribers, ReadUnsubscribe, ReadForget
<1>3. CASE WriteUnrequest \/ WriteSubscribe \/ WriteUnsubscribe \/ WriteForget
  <2>1. /\ op.copy \cup {op.who} \in SUBSET User
        /\ op.copy \ {op.who} \in SUBSET User
        /\ op.pc \notin {"none", "first", "rest"}
    BY <1>3 DEF WriteUnrequest, WriteSubscribe, WriteUnsubscribe, WriteForget,
                Parts, OpInv
  <2>2. CASE WriteUnrequest
    BY <2>1, <2>2, WriteStepInv DEF WriteUnrequest
  <2>3. CASE WriteSubscribe
    BY <2>1, <2>3, WriteStepInv DEF WriteSubscribe
  <2>4. CASE WriteUnsubscribe
    BY <2>1, <2>4, WriteStepInv DEF WriteUnsubscribe
  <2>5. CASE WriteForget
    BY <2>1, <2>5, WriteStepInv DEF WriteForget
  <2> QED  BY <1>3, <2>2, <2>3, <2>4, <2>5
<1>4. CASE AuthorizeSave
  <2>1. op.kind # "none" /\ op.pending = {} /\ op.copy \in SUBSET User
    BY <1>4 DEF AuthorizeSave, Parts, OpInv
  <2>2. op' = [op EXCEPT !.pc = "unrequest", !.copy = op.copy]
    BY <1>4 DEF AuthorizeSave, Parts, OpInv
  <2>3. OpInv'
    BY <1>4, <2>1, <2>2, MoveOpInv DEF AuthorizeSave
  <2>4. DocsType'
    BY <1>4 DEF AuthorizeSave, SavedPassword, OwnPassword, Parts, DocsType,
                channel, lists, userDocs
  <2> QED  BY <1>4, <2>3, <2>4, Untouched DEF AuthorizeSave, Parts, userDocs
<1>5. CASE RevokeState
  <2>1. op.kind # "none" /\ op.pending = {} /\ op.copy \in SUBSET User
    BY <1>5 DEF RevokeState, Parts, OpInv
  <2>2. op' = [op EXCEPT !.pc = "delSub", !.copy = op.copy]
    BY <1>5 DEF RevokeState, Parts, OpInv
  <2>3. OpInv'
    BY <1>5, <2>1, <2>2, MoveOpInv DEF RevokeState
  <2>4. DocsType'
    BY <1>5 DEF RevokeState, Parts, DocsType, channel, lists
  <2> QED  BY <1>5, <2>3, <2>4, Untouched DEF RevokeState, Parts
<1>6. CASE RevokeSub
  <2>1. /\ op.kind # "none" /\ op.pending = {} /\ op.copy \in SUBSET User
        /\ op.who \in User /\ op.key \in Key
    BY <1>6 DEF RevokeSub, Parts, OpInv
  <2>2. op' = [op EXCEPT !.pc = "delData", !.copy = op.copy]
    BY <1>6 DEF RevokeSub, Parts, OpInv
  <2>3. OpInv'
    BY <1>6, <2>1, <2>2, MoveOpInv DEF RevokeSub
  <2>4. SubsType' /\ KeyloadType'
    BY <1>6, <2>1, RemoveSubInv DEF RevokeSub
  <2>5. HistType'
    BY <1>6, <2>1 DEF RevokeSub, Parts, HistType
  <2> QED  BY <1>6, <2>3, <2>4, <2>5, Untouched DEF RevokeSub, Parts
<1>7. CASE RevokeData
  <2>1. op.kind # "none" /\ op.pending = {} /\ op.copy \in SUBSET User
    BY <1>7 DEF RevokeData, Parts, OpInv
  <2>2. PICK to \in {"unsubscribe", "forget"} : op' = [op EXCEPT !.pc = to, !.copy = op.copy]
    BY <1>7 DEF RevokeData, ListToLeave, Parts, OpInv
  <2>3. OpInv'
    BY <1>7, <2>1, <2>2, MoveOpInv DEF RevokeData
  <2>4. DocsType' /\ HistType'
    BY <1>7 DEF RevokeData, Purged, Parts, DocsType, HistType, channel, lists
  <2> QED  BY <1>7, <2>3, <2>4, Untouched DEF RevokeData, Parts
<1>8. CASE RevokeSave
  <2>1. queue' \in Seq(Task) /\ Agree(queue, {})'
    BY <1>8 DEF RevokeSave, Parts, OpInv, Agree
  <2>2. OpInv'
    BY <1>8, <2>1, IdleOp DEF RevokeSave
  <2>3. DocsType'
    BY <1>8 DEF RevokeSave, SavedPassword, OwnPassword, Parts, DocsType,
                channel, lists, userDocs
  <2> QED  BY <1>8, <2>2, <2>3, Untouched DEF RevokeSave, Parts, userDocs
<1> QED  BY <1>1, <1>2, <1>3, <1>4, <1>5, <1>6, <1>7, <1>8 DEF OpStep

-----------------------------------------------------------------------------
\* An empty channel, nobody at work.
LEMMA InitInv == Init => Parts
<1> SUFFICES ASSUME Init PROVE Parts
  OBVIOUS
<1>1. DocsType /\ EventsType /\ HistType /\ KeyloadType
  BY MaxEventsAssumption DEF Init, DocsType, EventsType, HistType, KeyloadType, OwnPassword
<1>2. SubsType /\ ReqType /\ DelType
  BY DEF Init, SubsType, ReqType, DelType, NoSub, NoReq, NoDel, Kind, ReqPc
<1>3. OpInv
  BY DEF Init, OpInv, NoOp, OpPc, Agree
<1> QED  BY <1>1, <1>2, <1>3 DEF Parts

\* Every step preserves the parts.
LEMMA NextInv == Parts /\ [Next]_vars => Parts'
<1> SUFFICES ASSUME Parts, [Next]_vars PROVE Parts'
  OBVIOUS
<1>1. CASE UNCHANGED vars
  BY <1>1, Untouched DEF vars, docs, userDocs, Parts
<1>2. CASE Call
  BY <1>2, RequestCheckInv, LogsSaveInv, LoadInv DEF Call
<1> QED  BY <1>1, <1>2, OpStepInv, KeyloadStepInv, DeleteStepInv, EventInv,
            RequestStepInv DEF Next

\* The strengthened invariant holds throughout.
THEOREM SpecIInv == Spec => []IInv
<1>1. Spec => []Parts
  BY InitInv, NextInv, PTL DEF Spec
<1>2. Parts => IInv
  BY IInvParts
<1> QED  BY <1>1, <1>2, PTL

\* The documents, the handlers and the queue keep their types: no key of a
\* subscription by pre-shared key, which has none, ever gets into a keyload.
THEOREM SpecTypeOK == Spec => []TypeOK
BY SpecIInv, PTL DEF IInv

\* A handler awaits exactly the keyload calls that are queued for it, whatever
\* fails and however the gateway restarts: Promise.all neither waits for a call
\* that is over nor is woken by one of an earlier operation.
THEOREM SpecAwaitedAgree == Spec => []AwaitedAgree
BY SpecIInv, PTL DEF IInv

-----------------------------------------------------------------------------
(* The logs of revoked subscriptions.                                      *)

\* A step that removes no state and leaves a purge where it is.
LEMMA PurgingKept ==
  ASSUME LogsPurged, cached' \subseteq cached, stateDocs \subseteq stateDocs',
         hist'.failed \/ (hist.late \subseteq hist'.late /\ hist'.failed = hist.failed),
         hist'.failed \/ op.pc \notin {"delSub", "delData"}
         \/ (op'.who = op.who /\ op'.pc \in {"delSub", "delData"})
  PROVE  LogsPurged'
BY DEF LogsPurged

\* What the history's fields are after a step that sets others.
LEMMA HistFields ==
  ASSUME Parts
  PROVE  /\ Failed.failed /\ Failed.late = hist.late /\ Failed.raced = hist.raced
         /\ \A b : /\ [hist EXCEPT !.raced = b].failed = hist.failed
                   /\ [hist EXCEPT !.raced = b].late = hist.late
                   /\ [hist EXCEPT !.raced = b].raced = b
BY DEF Parts, HistType, Failed

\* What an authorize or revoke does to the logs, the states and the history.
LEMMA OpStepPurged ==
  ASSUME Parts, LogsPurged, OpStep
  PROVE  LogsPurged'
<1> USE DEF docs, userDocs, channel, lists
<1>1. op \in [kind : {"none", "authorize", "revoke"}, pc : OpPc,
              who : User \cup {NoUser}, key : Key \cup {NoKey},
              authorized : BOOLEAN, branches : SUBSET Member,
              keys : SUBSET Key, pending : SUBSET Member, copy : SUBSET User]
  BY DEF Parts, OpInv
<1>2. hist \in [approved : SUBSET User, revoked : SUBSET Key, late : SUBSET User,
                failed : BOOLEAN, raced : BOOLEAN]
  BY DEF Parts, HistType
<1>3. CASE Gather
  <2>1. op.pc \notin {"delSub", "delData"} /\ cached' = cached /\ stateDocs' = stateDocs
    BY <1>3 DEF Gather
  <2>2. hist' = hist \/ hist' = Failed
    BY <1>3 DEF Gather, FailOp
  <2> QED  BY <2>1, <2>2, HistFields, PurgingKept
<1>4. CASE AuthorizeFirst \/ AuthorizeRest \/ RevokeKeyloads \/ AuthorizeSave \/ RevokeSave
  <2>1. op.pc \notin {"delSub", "delData"}
    BY <1>4 DEF AuthorizeFirst, AuthorizeRest, RevokeKeyloads, AuthorizeSave, RevokeSave
  <2>2. cached' = cached /\ stateDocs' = stateDocs /\ hist' = hist
    BY <1>4 DEF AuthorizeFirst, AuthorizeRest, RevokeKeyloads, AuthorizeSave, RevokeSave
  <2> QED  BY <2>1, <2>2, PurgingKept
<1>5. CASE ReadRequested \/ ReadSubscribers \/ ReadUnsubscribe \/ ReadForget
  <2>1. PICK from, ids, to :
          from \in {"unrequest", "subscribe", "unsubscribe", "forget"} /\ ReadList(from, ids, to)
    BY <1>5 DEF ReadRequested, ReadSubscribers, ReadUnsubscribe, ReadForget
  <2>2. op.pc \notin {"delSub", "delData"} /\ cached' = cached /\ stateDocs' = stateDocs
    BY <2>1 DEF ReadList
  <2>3. hist' = hist \/ hist' = Failed
    BY <2>1 DEF ReadList, FailOp
  <2> QED  BY <2>2, <2>3, HistFields, PurgingKept
<1>6. CASE WriteUnrequest \/ WriteSubscribe \/ WriteUnsubscribe \/ WriteForget
  <2>1. \E read, ids : WriteSubscribers(read, ids) \/ WriteRequested(read, ids)
    BY <1>6 DEF WriteUnrequest, WriteSubscribe, WriteUnsubscribe, WriteForget
  <2>2. hist'.failed = hist.failed /\ hist'.late = hist.late
    BY <1>2, <2>1 DEF WriteSubscribers, WriteRequested
  <2>3. op.pc \notin {"delSub", "delData"}
    BY <1>6 DEF WriteUnrequest, WriteSubscribe, WriteUnsubscribe, WriteForget
  <2>4. cached' = cached /\ stateDocs' = stateDocs
    BY <1>6 DEF WriteUnrequest, WriteSubscribe, WriteUnsubscribe, WriteForget
  <2> QED  BY <2>2, <2>3, <2>4, PurgingKept
<1>7. CASE RevokeState
  <2>1. op'.who = op.who /\ op'.pc = "delSub" /\ op.pc \notin {"delSub", "delData"}
    BY <1>1, <1>7 DEF RevokeState
  <2>2. cached' = cached /\ stateDocs' = stateDocs \ {op.who} /\ hist' = hist
    BY <1>7 DEF RevokeState
  <2> QED  BY <2>1, <2>2 DEF LogsPurged
<1>8. CASE RevokeSub
  <2>1. op'.who = op.who /\ op'.pc = "delData"
    BY <1>1, <1>8 DEF RevokeSub
  <2>2. cached' = cached /\ stateDocs' = stateDocs
    BY <1>8 DEF RevokeSub
  <2>3. hist'.failed = hist.failed /\ hist'.late = hist.late
    BY <1>2, <1>8 DEF RevokeSub
  <2> QED  BY <2>1, <2>2, <2>3, PurgingKept
<1>9. CASE RevokeData
  <2>1. cached' = cached \ {op.who} /\ stateDocs' = stateDocs
    BY <1>9 DEF RevokeData, Purged
  <2>2. hist'.failed = hist.failed /\ hist'.late = hist.late \ {op.who}
    BY <1>2, <1>9 DEF RevokeData
  <2> QED  BY <2>1, <2>2 DEF LogsPurged
<1> QED  BY <1>3, <1>4, <1>5, <1>6, <1>7, <1>8, <1>9 DEF OpStep

\* Every other step.
LEMMA NextPurged ==
  ASSUME Parts, LogsPurged, [Next]_vars
  PROVE  LogsPurged'
<1> USE DEF docs, userDocs, channel, lists
<1>1. hist \in [approved : SUBSET User, revoked : SUBSET Key, late : SUBSET User,
                failed : BOOLEAN, raced : BOOLEAN]
  BY DEF Parts, HistType
<1>2. op \in [kind : {"none", "authorize", "revoke"}, pc : OpPc,
              who : User \cup {NoUser}, key : Key \cup {NoKey},
              authorized : BOOLEAN, branches : SUBSET Member,
              keys : SUBSET Key, pending : SUBSET Member, copy : SUBSET User]
      /\ (op.kind = "none" <=> op.pc = "none")
  BY DEF Parts, OpInv
<1>3. CASE UNCHANGED vars
  BY <1>3, PurgingKept DEF vars
<1>4. ASSUME NEW u \in User, LogsAdd(u)
      PROVE  LogsPurged'
  <2>1. /\ cached' = cached \cup {u} /\ stateDocs' = stateDocs /\ op' = op
        /\ hist'.failed = hist.failed /\ hist.late \subseteq hist'.late
        /\ u \in stateDocs \/ u \in hist'.late
    BY <1>1, <1>4 DEF LogsAdd
  <2> QED  BY <2>1 DEF LogsPurged
<1>5. ASSUME NEW u \in User,
             \/ RequestCheck(u) \/ LogsSave(u) \/ RequestState(u) \/ RequestSub(u)
             \/ RequestReadList(u) \/ RequestWriteList(u) \/ RequestThrows(u)
             \/ DeleteCheck(u)
      PROVE  LogsPurged'
  <2>1. cached' = cached /\ stateDocs \subseteq stateDocs' /\ op' = op
    BY <1>5 DEF RequestCheck, LogsSave, RequestState, StateAdded, RequestSub,
                RequestReadList, RequestWriteList, RequestThrows, DeleteCheck
  <2>2. hist'.late = hist.late /\ (hist'.failed = hist.failed \/ hist'.failed)
    <3>1. \/ hist' = hist \/ hist' = Failed
          \/ \E b : hist' = [hist EXCEPT !.raced = b]
      BY <1>5 DEF RequestCheck, LogsSave, RequestState, RequestSub,
                RequestReadList, RequestWriteList, WriteRequested, WriteSubscribers,
                RequestThrows, DeleteCheck, FailReq
    <3> QED  BY <3>1, HistFields
  <2> QED  BY <2>1, <2>2, PurgingKept
<1>6. ASSUME NEW u \in User, Authorize(u) \/ Revoke(u)
      PROVE  LogsPurged'
  <2>1. op.pc = "none" /\ cached' = cached /\ stateDocs' = stateDocs
    BY <1>2, <1>6 DEF Authorize, Revoke, Load
  <2>2. hist'.late = hist.late /\ hist'.failed = hist.failed
    BY <1>1, <1>6 DEF Authorize, Revoke
  <2> QED  BY <2>1, <2>2, PurgingKept
<1>7. CASE SendKeyload \/ DeleteChannel
  <2>1. cached' = cached /\ stateDocs' = stateDocs /\ op' = op /\ hist' = hist
    BY <1>7 DEF SendKeyload, DeleteChannel
  <2> QED  BY <2>1, PurgingKept
<1>8. CASE RecordKeyload \/ KeyloadThrows
  <2>1. KeyloadResolves \/ KeyloadRejects
    BY <1>8 DEF RecordKeyload, KeyloadThrows
  <2>2. cached' = cached /\ stateDocs' = stateDocs
    BY <1>8 DEF RecordKeyload, KeyloadThrows
  <2>3. CASE KeyloadResolves
    <3>1. hist' = hist /\ op'.who = op.who /\ op'.pc = op.pc
      BY <1>2, <2>3 DEF KeyloadResolves
    <3> QED  BY <2>2, <3>1, PurgingKept
  <2>4. CASE KeyloadRejects
    <3>1. hist' = Failed \/ (hist' = hist /\ op' = op)
      BY <2>4 DEF KeyloadRejects
    <3> QED  BY <2>2, <3>1, HistFields, PurgingKept
  <2> QED  BY <2>1, <2>3, <2>4
<1>9. CASE OpThrows \/ Restart
  <2>1. cached' = cached /\ stateDocs' = stateDocs /\ hist' = Failed
    BY <1>9 DEF OpThrows, Restart, FailOp
  <2> QED  BY <2>1, HistFields, PurgingKept
<1>10. CASE DeleteRead \/ DeleteWrite \/ DeleteRemove \/ DeleteThrows
  <2>1. cached' = cached /\ stateDocs' = stateDocs /\ op' = op
    BY <1>10 DEF DeleteRead, DeleteWrite, DeleteRemove, DeleteThrows
  <2>2. CASE DeleteRemove
    <3>1. hist'.late = hist.late /\ hist'.failed = hist.failed
      BY <1>1, <2>2 DEF DeleteRemove
    <3> QED  BY <2>1, <3>1, PurgingKept
  <2>3. CASE ~DeleteRemove
    <3>1. \/ hist' = hist \/ hist' = Failed
          \/ \E b : hist' = [hist EXCEPT !.raced = b]
      BY <1>10, <2>3 DEF DeleteRead, DeleteWrite, DeleteThrows, WriteSubscribers
    <3>2. hist'.late = hist.late /\ (hist'.failed = hist.failed \/ hist'.failed)
      BY <3>1, HistFields
    <3> QED  BY <2>1, <3>2, PurgingKept
  <2> QED  BY <2>2, <2>3
<1> QED
  BY <1>3, <1>4, <1>5, <1>6, <1>7, <1>8, <1>9, <1>10, OpStepPurged
  DEF Next, Call, RequestStep, KeyloadStep, DeleteStep, Event

\* Once a revoke has removed the documents of a subscription, no logs of its user
\* are left, however the retrieval of logs, requests anew and the revoke's three
\* removals interleave: the state goes before the logs do.
THEOREM SpecLogsPurged == Spec => []LogsPurged
<1>1. Init => LogsPurged
  BY DEF Init, LogsPurged
<1> QED  BY <1>1, InitInv, NextInv, NextPurged, PTL DEF Spec

-----------------------------------------------------------------------------
(* What the author's operation goes through, and what is never undone.     *)

AuthorizePc == {"load", "fetch", "first", "rest", "unrequest", "writeRequested",
                "subscribe", "writeSubscribers"}
RevokePc == {"load", "fetch", "rest", "delSub", "delData", "unsubscribe",
             "writeUnsubscribe", "forget", "writeForget", "save"}

\* An operation goes through its own steps; nobody is left over from the last.
Phased ==
  /\ op.kind = "none" => op = NoOp
  /\ op.kind = "authorize" => op.pc \in AuthorizePc
  /\ op.kind = "revoke" => op.pc \in RevokePc

\* Every step of the author's operation takes it to a step of its own.
LEMMA NextPhased ==
  ASSUME Parts, Phased, [Next]_vars
  PROVE  Phased'
<1> USE DEF docs, userDocs, channel, lists
<1>1. op \in [kind : {"none", "authorize", "revoke"}, pc : OpPc,
              who : User \cup {NoUser}, key : Key \cup {NoKey},
              authorized : BOOLEAN, branches : SUBSET Member,
              keys : SUBSET Key, pending : SUBSET Member, copy : SUBSET User]
      /\ (op.kind = "none" <=> op.pc = "none")
  BY DEF Parts, OpInv
<1>2. (op' = op \/ op' = NoOp) => Phased'
  BY DEF Phased, NoOp
<1>3. ASSUME op'.kind = op.kind, op.kind # "none",
             op.kind = "authorize" => op'.pc \in AuthorizePc,
             op.kind = "revoke" => op'.pc \in RevokePc
      PROVE  Phased'
  BY <1>3 DEF Phased
<1>4. CASE UNCHANGED vars
  BY <1>2, <1>4 DEF vars
<1>5. ASSUME NEW u \in User,
             \/ RequestCheck(u) \/ LogsSave(u) \/ RequestStep(u) \/ RequestThrows(u)
             \/ DeleteCheck(u)
      PROVE  Phased'
  <2>1. op' = op
    BY <1>5 DEF RequestCheck, LogsSave, RequestStep, RequestState, RequestSub,
                RequestReadList, RequestWriteList, LogsAdd, RequestThrows, DeleteCheck
  <2> QED  BY <1>2, <2>1
<1>6. ASSUME NEW u \in User, Authorize(u) \/ Revoke(u)
      PROVE  Phased'
  <2>1. op'.kind \in {"authorize", "revoke"} /\ op'.pc = "load"
    BY <1>6 DEF Authorize, Revoke, Load, NoOp
  <2> QED  BY <2>1 DEF Phased, AuthorizePc, RevokePc
<1>7. CASE SendKeyload \/ DeleteStep \/ DeleteChannel \/ DeleteThrows
  <2>1. op' = op
    BY <1>7 DEF SendKeyload, DeleteStep, DeleteRead, DeleteWrite, DeleteRemove,
                DeleteChannel, DeleteThrows
  <2> QED  BY <1>2, <2>1
<1>8. CASE OpThrows \/ Restart
  BY <1>2, <1>8 DEF OpThrows, Restart, FailOp
<1>9. CASE RecordKeyload \/ KeyloadThrows
  <2>1. CASE KeyloadResolves
    <3>1. op'.kind = op.kind /\ op'.pc = op.pc
      BY <1>1, <2>1 DEF KeyloadResolves
    <3>2. CASE op.kind = "none"
      <4>1. op'.pending = NoOp.pending
        BY <2>1, <3>2 DEF KeyloadResolves, Phased, NoOp
      <4>2. op = NoOp
        BY <3>2 DEF Phased
      <4>3. op' = [NoOp EXCEPT !.pending = NoOp.pending]
        BY <2>1, <4>1, <4>2 DEF KeyloadResolves, NoOp
      <4> QED  BY <1>2, <4>3 DEF NoOp
    <3> QED  BY <3>1, <3>2, <1>3 DEF Phased
  <2>2. CASE KeyloadRejects
    BY <1>2, <2>2 DEF KeyloadRejects
  <2> QED  BY <1>9, <2>1, <2>2 DEF RecordKeyload, KeyloadThrows
<1>10. CASE OpStep
  <2>1. CASE op' = NoOp
    BY <1>2, <2>1
  <2>2. CASE op' # NoOp
    <3>1. CASE Gather
      <4>1. op.pc = "load" /\ op'.kind = op.kind /\ op'.pc = "fetch"
        BY <1>1, <2>2, <3>1 DEF Gather, FailOp
      <4> QED  BY <1>1, <1>3, <4>1 DEF AuthorizePc, RevokePc
    <3>2. CASE AuthorizeFirst \/ RevokeKeyloads
      <4>1. /\ op'.kind = op.kind
            /\ \/ op.kind = "authorize" /\ op'.pc = "first"
               \/ op.kind = "revoke" /\ op'.pc = "rest"
        BY <1>1, <3>2 DEF AuthorizeFirst, RevokeKeyloads
      <4> QED  BY <1>3, <4>1 DEF AuthorizePc, RevokePc
    <3>3. CASE AuthorizeRest
      <4>1. op'.kind = op.kind /\ op.pc = "first" /\ op'.pc = "rest"
        BY <1>1, <3>3 DEF AuthorizeRest
      <4> QED  BY <1>1, <1>3, <4>1 DEF AuthorizePc, RevokePc
    <3>4. CASE AuthorizeSave \/ RevokeState
      <4>1. /\ op'.kind = op.kind
            /\ \/ op.kind = "authorize" /\ op'.pc = "unrequest"
               \/ op.kind = "revoke" /\ op'.pc = "delSub"
        BY <1>1, <3>4 DEF AuthorizeSave, RevokeState
      <4> QED  BY <1>3, <4>1 DEF AuthorizePc, RevokePc
    <3>5. CASE ReadRequested \/ ReadSubscribers \/ ReadUnsubscribe \/ ReadForget
      <4>1. /\ op'.kind = op.kind
            /\ \/ op.pc = "unrequest" /\ op'.pc = "writeRequested"
               \/ op.pc = "subscribe" /\ op'.pc = "writeSubscribers"
               \/ op.pc = "unsubscribe" /\ op'.pc = "writeUnsubscribe"
               \/ op.pc = "forget" /\ op'.pc = "writeForget"
        BY <1>1, <2>2, <3>5
        DEF ReadRequested, ReadSubscribers, ReadUnsubscribe, ReadForget, ReadList, FailOp
      <4> QED  BY <1>1, <1>3, <4>1 DEF Phased, AuthorizePc, RevokePc
    <3>6. CASE WriteUnrequest \/ WriteUnsubscribe \/ WriteForget
      <4>1. /\ op'.kind = op.kind
            /\ \/ op.pc = "writeRequested" /\ op'.pc = "subscribe"
               \/ op.pc \in {"writeUnsubscribe", "writeForget"} /\ op'.pc = "save"
        BY <1>1, <3>6 DEF WriteUnrequest, WriteUnsubscribe, WriteForget
      <4> QED  BY <1>1, <1>3, <4>1 DEF Phased, AuthorizePc, RevokePc
    <3>7. CASE WriteSubscribe \/ RevokeSave
      BY <2>2, <3>7 DEF WriteSubscribe, RevokeSave
    <3>8. CASE RevokeSub \/ RevokeData
      <4>1. /\ op'.kind = op.kind
            /\ \/ op.pc = "delSub" /\ op'.pc = "delData"
               \/ op.pc = "delData" /\ op'.pc \in {"unsubscribe", "forget"}
        BY <1>1, <3>8 DEF RevokeSub, RevokeData, ListToLeave
      <4> QED  BY <1>1, <1>3, <4>1 DEF Phased, AuthorizePc, RevokePc
    <3> QED  BY <1>10, <3>1, <3>2, <3>3, <3>4, <3>5, <3>6, <3>7, <3>8 DEF OpStep
  <2> QED  BY <2>1, <2>2
<1> QED
  BY <1>4, <1>5, <1>6, <1>7, <1>8, <1>9, <1>10
  DEF Next, Call, KeyloadStep, Event

\* A channel's entry that is gone stays away; what went wrong is remembered.
Remembered == /\ channelExists' => channelExists
              /\ hist.failed => hist'.failed
              /\ hist.raced => hist'.raced

\* What went wrong is not forgotten by any step.
LEMMA NothingForgotten ==
  ASSUME Parts, [Next]_vars
  PROVE  Remembered
<1> USE DEF docs, userDocs, channel, lists
<1>1. hist \in [approved : SUBSET User, revoked : SUBSET Key, late : SUBSET User,
                failed : BOOLEAN, raced : BOOLEAN]
  BY DEF Parts, HistType
<1>2. ASSUME channelExists' => channelExists, hist' = hist \/ hist' = Failed
      PROVE  Remembered
  BY <1>1, <1>2 DEF Failed, Remembered
<1>3. ASSUME \E read, ids : WriteSubscribers(read, ids) \/ WriteRequested(read, ids),
             channelExists' = channelExists
      PROVE  Remembered
  BY <1>1, <1>3 DEF Remembered, WriteSubscribers, WriteRequested
<1>4. CASE UNCHANGED vars
  BY <1>2, <1>4 DEF vars
<1>5. ASSUME NEW u \in User, RequestCheck(u) \/ LogsAdd(u) \/ Authorize(u) \/ Revoke(u)
      PROVE  Remembered
  <2>1. channelExists' = channelExists
    BY <1>5 DEF RequestCheck, LogsAdd, Authorize, Revoke, Load
  <2>2. hist'.failed = hist.failed /\ (hist.raced => hist'.raced)
    <3>1. CASE RequestCheck(u)
      BY <1>1, <3>1 DEF RequestCheck
    <3>2. CASE LogsAdd(u)
      BY <1>1, <3>2 DEF LogsAdd
    <3>3. CASE Authorize(u)
      BY <1>1, <3>3 DEF Authorize
    <3>4. CASE Revoke(u)
      BY <1>1, <3>4 DEF Revoke
    <3> QED  BY <1>5, <3>1, <3>2, <3>3, <3>4
  <2> QED  BY <2>1, <2>2 DEF Remembered
<1>6. ASSUME NEW u \in User,
             \/ LogsSave(u) \/ RequestState(u) \/ RequestSub(u) \/ RequestReadList(u)
             \/ RequestThrows(u) \/ DeleteCheck(u)
      PROVE  Remembered
  <2>1. channelExists' = channelExists /\ (hist' = hist \/ hist' = Failed)
    BY <1>6 DEF LogsSave, RequestState, RequestSub, RequestReadList, RequestThrows,
                DeleteCheck, FailReq
  <2> QED  BY <1>2, <2>1
<1>7. ASSUME NEW u \in User, RequestWriteList(u)
      PROVE  Remembered
  <2>1. /\ channelExists' = channelExists
        /\ \E read, ids : WriteSubscribers(read, ids) \/ WriteRequested(read, ids)
    BY <1>7 DEF RequestWriteList
  <2> QED  BY <1>3, <2>1
<1>8. CASE \/ Gather \/ AuthorizeFirst \/ AuthorizeRest \/ RevokeKeyloads
           \/ AuthorizeSave \/ RevokeState \/ RevokeSave
  <2>1. channelExists' = channelExists /\ (hist' = hist \/ hist' = Failed)
    BY <1>8 DEF Gather, FailOp, AuthorizeFirst, AuthorizeRest, RevokeKeyloads,
                AuthorizeSave, RevokeState, RevokeSave
  <2> QED  BY <1>2, <2>1
<1>9. CASE RevokeSub \/ RevokeData \/ DeleteRemove
  <2>1. channelExists' = channelExists
    BY <1>9 DEF RevokeSub, RevokeData, DeleteRemove
  <2>2. hist'.failed = hist.failed /\ hist'.raced = hist.raced
    <3>1. CASE RevokeSub
      BY <1>1, <3>1 DEF RevokeSub
    <3>2. CASE RevokeData
      BY <1>1, <3>2 DEF RevokeData
    <3>3. CASE DeleteRemove
      BY <1>1, <3>3 DEF DeleteRemove
    <3> QED  BY <1>9, <3>1, <3>2, <3>3
  <2> QED  BY <2>1, <2>2 DEF Remembered
<1>10. CASE ReadRequested \/ ReadSubscribers \/ ReadUnsubscribe \/ ReadForget
  <2>1. \E from, to, ids : ReadList(from, ids, to)
    BY <1>10 DEF ReadRequested, ReadSubscribers, ReadUnsubscribe, ReadForget
  <2>2. channelExists' = channelExists /\ (hist' = hist \/ hist' = Failed)
    BY <2>1 DEF ReadList, FailOp
  <2> QED  BY <1>2, <2>2
<1>11. CASE WriteUnrequest \/ WriteSubscribe \/ WriteUnsubscribe \/ WriteForget \/ DeleteWrite
  <2>1. /\ channelExists' = channelExists
        /\ \E read, ids : WriteSubscribers(read, ids) \/ WriteRequested(read, ids)
    BY <1>11 DEF WriteUnrequest, WriteSubscribe, WriteUnsubscribe, WriteForget,
                 DeleteWrite
  <2> QED  BY <1>3, <2>1
<1>12. CASE \/ SendKeyload \/ DeleteRead \/ DeleteChannel \/ OpThrows
            \/ DeleteThrows \/ Restart
  <2>1. channelExists' => channelExists
    BY <1>12 DEF SendKeyload, DeleteRead, DeleteChannel, OpThrows, DeleteThrows, Restart
  <2>2. hist' = hist \/ hist' = Failed
    BY <1>12 DEF SendKeyload, DeleteRead, DeleteChannel, OpThrows, FailOp,
                 DeleteThrows, Restart
  <2> QED  BY <1>2, <2>1, <2>2
<1>13. CASE RecordKeyload \/ KeyloadThrows
  <2>1. channelExists' = channelExists /\ (KeyloadResolves \/ KeyloadRejects)
    BY <1>13 DEF RecordKeyload, KeyloadThrows
  <2> QED  BY <1>2, <2>1 DEF KeyloadResolves, KeyloadRejects
<1>14. ASSUME NEW u \in User, RequestStep(u)
       PROVE  Remembered
  BY <1>5, <1>6, <1>7, <1>14 DEF RequestStep
<1>15. CASE OpStep
  BY <1>8, <1>9, <1>10, <1>11, <1>15 DEF OpStep
<1>16. CASE KeyloadStep \/ DeleteStep \/ Event
  BY <1>6, <1>9, <1>11, <1>12, <1>13, <1>16 DEF KeyloadStep, DeleteStep, Event
<1>17. CASE Call
  BY <1>5, <1>6, <1>17 DEF Call
<1> QED
  BY <1>4, <1>14, <1>15, <1>16, <1>17 DEF Next

=============================================================================
