-------------------------- MODULE ChannelLogsProofs --------------------------
(***************************************************************************)
(* Theorems about ChannelLogs, for all users, rights, numbers of logs and  *)
(* events.                                                                 *)
(***************************************************************************)
EXTENDS ChannelLogs, TLAPS

-----------------------------------------------------------------------------
(* Types.                                                                  *)

TaskType == [at : TaskAt, call : Call, past : SUBSET Link, batch : SUBSET Link,
             readers : SUBSET Participant, before : SUBSET User]
OpType == [at : OpAt, call : {"none", "authorize", "revoke"}, user : Participant,
           past : SUBSET Link, batch : SUBSET Link,
           keys : SUBSET Participant, pending : SUBSET Participant]
Message == [from : Participant, readers : SUBSET Participant, before : SUBSET User]

\* What the lemmas below cite of the definitions of a type.
LEMMA Types ==
  TypeOK <=>
    /\ tangle \in Seq(Message) /\ Len(tangle) <= MaxLogs
    /\ states \in [Participant -> (SUBSET Link) \cup {NoState}]
    /\ cache \in [Participant -> SUBSET Link]
    /\ status \in [User -> {"none", "requested", "authorized", "revoked"}]
    /\ keyload \in [Participant -> SUBSET Participant]
    /\ task \in [Participant -> TaskType]
    /\ op \in OpType
    /\ faulted \subseteq Participant /\ overlapped \subseteq Link
BY DEF TypeOK, TaskType, OpType, Message

\* The messages are among the links there can be.
LEMMA SentLinks ==
  ASSUME TypeOK PROVE Sent \subseteq Link /\ Len(tangle) \in Nat
BY MaxLogsAssumption DEF TypeOK, Sent, Link

\* The channel is empty, and nobody subscribes.
LEMMA InitType == Init => TypeOK
BY MaxLogsAssumption DEF Init, TypeOK, Idle, NoOp, Participant, Link, TaskAt, Call, OpAt

-----------------------------------------------------------------------------
(* What the steps do to the fields of task and op.                         *)

\* The call of p goes on.
Moves(p, at, past, batch) ==
  /\ task' \in [Participant -> TaskType]
  /\ \A q \in Participant : q # p => task'[q] = task[q]
  /\ task'[p].at = at /\ task'[p].past = past /\ task'[p].batch = batch
  /\ task'[p].call = task[p].call
  /\ task'[p].readers = task[p].readers /\ task'[p].before = task[p].before

\* The call of p has come to an end.
Ends(p) ==
  /\ task' \in [Participant -> TaskType]
  /\ \A q \in Participant : q # p => task'[q] = task[q]
  /\ task'[p].at = "idle" /\ task'[p].call = "none"
  /\ task'[p].past = {} /\ task'[p].batch = {}
  /\ task'[p].readers = {} /\ task'[p].before = {}

\* A call of p begins.
Begins(p, call) ==
  /\ task' \in [Participant -> TaskType]
  /\ \A q \in Participant : q # p => task'[q] = task[q]
  /\ task'[p].at = IF call = "reimport" THEN "reset" ELSE "fetch"
  /\ task'[p].call = call
  /\ task'[p].past = states[p] /\ task'[p].batch = {}
  /\ task'[p].readers = keyload[p] /\ task'[p].before = Revoked

\* The author's operation goes on.
OpMoves(at, past, batch, pending) ==
  /\ op' \in OpType
  /\ op'.at = at /\ op'.past = past /\ op'.batch = batch /\ op'.pending = pending
  /\ op'.call = op.call /\ op'.user = op.user /\ op'.keys = op.keys

\* A call ends with the task as it was at first.
LEMMA Ending ==
  ASSUME TypeOK, NEW p \in Participant, Ended(p) PROVE Ends(p)
BY DEF TypeOK, Ended, Ends, Idle, TaskType, TaskAt, Call

\* A call begins with nothing that an earlier one left.
LEMMA Starting ==
  ASSUME TypeOK, NEW p \in Participant, NEW call \in Call, Begin(p, call)
  PROVE  Begins(p, call)
<1>1. task \in [Participant -> TaskType] /\ keyload[p] \in SUBSET Participant
  BY DEF TypeOK, TaskType
<1>2. states[p] \in SUBSET Link /\ Revoked \in SUBSET User
  BY DEF TypeOK, Begin, Revoked
<1> DEFINE i == Idle
<1>3. i \in TaskType /\ i.batch = {}
  BY DEF Idle, TaskType, TaskAt, Call
<1> DEFINE at == IF call = "reimport" THEN "reset" ELSE "fetch"
           n == [i EXCEPT !.call = call, !.past = states[p], !.readers = keyload[p],
                          !.before = Revoked, !.at = at]
<1>4. at \in TaskAt
  BY DEF TaskAt
<1>5. task' = [task EXCEPT ![p] = n]
  BY DEF Begin
<1> HIDE DEF at, i
<1>6. /\ n \in TaskType
      /\ n.at = at /\ n.call = call /\ n.past = states[p] /\ n.batch = {}
      /\ n.readers = keyload[p] /\ n.before = Revoked
  BY <1>1, <1>2, <1>3, <1>4 DEF TaskType
<1> HIDE DEF n
<1> QED
  BY <1>1, <1>5, <1>6 DEF Begins, at

\* The steps in between: where the call goes to, what it is past, what it has.
LEMMA Going ==
  ASSUME TypeOK, NEW p \in Participant
  PROVE  /\ \A at \in TaskAt : Proceed(p, at) => Moves(p, at, task[p].past, task[p].batch)
         /\ Reset(p) => Moves(p, "fetch", {}, task[p].batch)
         /\ Fetch(p) => Moves(p, IF MayRead(p) THEN "save" ELSE "publish", task[p].past \cup Sent,
                              IF MayRead(p) THEN Unread(p, task[p].past) ELSE {})
         /\ Publish(p) => Moves(p, "storeOwn", task[p].past \cup {Len(tangle) + 1},
                                {Len(tangle) + 1})
         /\ AfterFetch(p) /\ task[p].call = "add" => Moves(p, "publish", task[p].past, {})
<1>1. task \in [Participant -> TaskType] /\ task[p] \in TaskType
  BY Types
<1>2. Sent \subseteq Link /\ Len(tangle) \in Nat
  BY SentLinks
<1>3. ASSUME NEW at \in TaskAt, Proceed(p, at)
      PROVE  Moves(p, at, task[p].past, task[p].batch)
  BY <1>1, <1>3 DEF Moves, Proceed, TaskType
<1>4. ASSUME Reset(p)
      PROVE  Moves(p, "fetch", {}, task[p].batch)
  <2>1. task' = [task EXCEPT ![p].at = "fetch", ![p].past = {}]
    BY <1>4 DEF Reset
  <2> QED
    BY <1>1, <2>1 DEF Moves, TaskType, TaskAt
<1>5. ASSUME Fetch(p)
      PROVE  Moves(p, IF MayRead(p) THEN "save" ELSE "publish", task[p].past \cup Sent,
                   IF MayRead(p) THEN Unread(p, task[p].past) ELSE {})
  <2> DEFINE batch == IF MayRead(p) THEN Unread(p, task[p].past) ELSE {}
             at == IF MayRead(p) THEN "save" ELSE "publish"
  <2>1. batch \in SUBSET Link /\ at \in TaskAt
    BY <1>2 DEF Unread, Readable, TaskAt
  <2>2. task' = [task EXCEPT ![p].past = @ \cup Sent, ![p].batch = batch, ![p].at = at]
    BY <1>5 DEF Fetch
  <2> HIDE DEF batch, at
  <2>3. Moves(p, at, task[p].past \cup Sent, batch)
    BY <1>1, <1>2, <2>1, <2>2 DEF Moves, TaskType
  <2> QED
    BY <2>3 DEF at, batch
<1>6. ASSUME Publish(p)
      PROVE  Moves(p, "storeOwn", task[p].past \cup {Len(tangle) + 1}, {Len(tangle) + 1})
  <2> DEFINE m == Len(tangle) + 1
  <2>1. m \in Link /\ "storeOwn" \in TaskAt
    BY <1>2, <1>6, MaxLogsAssumption DEF Publish, Link, TaskAt
  <2>2. task' = [task EXCEPT ![p].at = "storeOwn", ![p].past = @ \cup {m}, ![p].batch = {m}]
    BY <1>6 DEF Publish
  <2> HIDE DEF m
  <2>3. Moves(p, "storeOwn", task[p].past \cup {m}, {m})
    BY <1>1, <2>1, <2>2 DEF Moves, TaskType
  <2> QED
    BY <2>3 DEF m
<1>7. AfterFetch(p) /\ task[p].call = "add" => Moves(p, "publish", task[p].past, {})
  BY <1>1 DEF Moves, AfterFetch, TaskType, TaskAt
<1> QED
  BY <1>3, <1>4, <1>5, <1>6, <1>7

\* The author's operation, step by step.
LEMMA OpGoing ==
  ASSUME TypeOK
  PROVE  /\ OpFetch => OpMoves(IF Unread(Author, op.past) = {} THEN "keyloads" ELSE "save",
                               op.past \cup Sent, Unread(Author, op.past), op.pending)
         /\ OpSave => OpMoves("store", op.past, op.batch, op.pending)
         /\ OpStore /\ op.batch \cap cache[Author] = {} =>
              OpMoves("keyloads", op.past, {}, op.pending)
         /\ \A b \in Participant :
              OpKeyload(b) => OpMoves("keyloads", op.past \cup Sent, op.batch, op.pending \ {b})
         /\ OpRemove => \E at \in {"subscription", "logs", "end"} :
              OpMoves(at, op.past, op.batch, op.pending)
<1> DEFINE o == op
<1>1. o \in OpType
  BY Types
<1>2. Sent \subseteq Link
  BY SentLinks
<1>3. ASSUME OpFetch
      PROVE  OpMoves(IF Unread(Author, o.past) = {} THEN "keyloads" ELSE "save",
                     o.past \cup Sent, Unread(Author, o.past), o.pending)
  <2> DEFINE new == Unread(Author, o.past)
             at == IF new = {} THEN "keyloads" ELSE "save"
  <2>1. new \in SUBSET Link /\ at \in OpAt
    BY <1>2 DEF Unread, Readable, OpAt
  <2>2. op' = [o EXCEPT !.past = @ \cup Sent, !.batch = new, !.at = at]
    BY <1>3 DEF OpFetch
  <2> HIDE DEF o, new, at
  <2>3. OpMoves(at, o.past \cup Sent, new, o.pending)
    BY <1>1, <1>2, <2>1, <2>2 DEF OpMoves, OpType, o
  <2> QED
    BY <2>3 DEF at, new
<1>4. ASSUME NEW at \in OpAt, op' = [o EXCEPT !.at = at]
      PROVE  OpMoves(at, o.past, o.batch, o.pending)
  BY <1>1, <1>4 DEF OpMoves, OpType
<1>5. OpSave => OpMoves("store", o.past, o.batch, o.pending)
  BY <1>4 DEF OpSave, OpAt
<1>6. ASSUME OpStore, op.batch \cap cache[Author] = {}
      PROVE  OpMoves("keyloads", o.past, {}, o.pending)
  <2>1. op' = [o EXCEPT !.at = "keyloads", !.batch = {}]
    BY <1>6 DEF OpStore
  <2> QED
    BY <1>1, <2>1 DEF OpMoves, OpType, OpAt
<1>7. ASSUME NEW b \in Participant, OpKeyload(b)
      PROVE  OpMoves("keyloads", o.past \cup Sent, o.batch, o.pending \ {b})
  <2>1. op' = [o EXCEPT !.pending = @ \ {b}, !.past = @ \cup Sent] /\ o.at = "keyloads"
    BY <1>7 DEF OpKeyload
  <2> QED
    BY <1>1, <1>2, <2>1 DEF OpMoves, OpType, OpAt
<1>8. OpRemove => \E at \in {"subscription", "logs", "end"} :
        OpMoves(at, o.past, o.batch, o.pending)
  BY <1>4 DEF OpRemove, OpAt
<1> QED
  BY <1>3, <1>5, <1>6, <1>7, <1>8

\* How the author's operation begins.
LEMMA OpStarting ==
  ASSUME TypeOK, NEW call \in {"authorize", "revoke"}, NEW u \in User, NEW keys \in SUBSET Participant,
         NEW pending \in SUBSET Participant, BeginOp(call, u, keys, pending), states[Author] # NoState
  PROVE  /\ op' \in OpType
         /\ op'.at = "fetch" /\ op'.call = call /\ op'.user = u /\ op'.past = states[Author]
         /\ op'.batch = {} /\ op'.keys = keys /\ op'.pending = pending
<1>1. states[Author] \in SUBSET Link
  BY DEF TypeOK, Participant
<1> QED
  BY <1>1 DEF BeginOp, OpType, OpAt, Participant

-----------------------------------------------------------------------------
(* Type correctness.  It needs that the author has a state and that an     *)
(* operation is about a user, whose documents are the ones removed.        *)

Shape ==
  /\ states[Author] # NoState
  /\ op.at = "idle" => op = NoOp
  /\ op.at # "idle" => op.call # "none" /\ op.user \in User /\ At(Author, "idle")

Typed == TypeOK /\ Shape

\* The channel is empty, and nobody subscribes.
LEMMA InitTyped == Init => Typed
BY MaxLogsAssumption, NoStateAssumption, AuthorAssumption
DEF Init, Typed, Shape, TypeOK, Idle, NoOp, Participant, Link, TaskAt, Call, OpAt

\* Sets of messages are states.
LEMMA NoLinks == \A S \in SUBSET Link : S # NoState
BY NoStateAssumption DEF Link

\* A step of a call leaves what the author does alone, and begins nothing for
\* the author while that is under way.
LEMMA ShapeKept ==
  ASSUME Typed, UNCHANGED op, NEW p \in Participant, states' \in [Participant -> SUBSET Link \cup {NoState}],
         states'[Author] # NoState,
         \A q \in Participant : q # p => task'[q] = task[q],
         p = Author /\ op.at # "idle" => task'[p].at = "idle"
  PROVE  Shape'
BY DEF Typed, Shape, At, Participant

\* Steps of getLogs, addLog and reimport keep the types.
LEMMA TypedTask ==
  ASSUME Typed, NEW p \in Participant,
         GetLogs(p) \/ AddLog(p) \/ Reimport(p) \/ Reset(p) \/ Fetch(p) \/ Save(p)
           \/ Store(p) \/ Publish(p) \/ StoreOwn(p) \/ SaveOwn(p) \/ Fail(p)
  PROVE  Typed'
<1> USE DEF vars, tasks, subscriptions, history
<1>1. TypeOK /\ Sent \subseteq Link /\ Len(tangle) \in Nat /\ task[p] \in TaskType
  BY SentLinks, Types DEF Typed
<1>2. p = Author /\ op.at # "idle" => At(p, "idle")
  BY DEF Typed, Shape
<1>3. ASSUME NEW call \in Call, Begin(p, call)
      PROVE  Typed'
  <2>1. Begins(p, call)
    BY <1>1, <1>3, Starting
  <2>2. TypeOK'
    BY <1>1, <1>3, <2>1 DEF Begin, Begins, TypeOK, TaskType
  <2>3. Shape'
    BY <1>3, <2>1 DEF Typed, Shape, Begin, Begins, At, ChannelLockFree, Participant
  <2> QED
    BY <2>2, <2>3 DEF Typed
<1>4. GetLogs(p) \/ AddLog(p) \/ Reimport(p) => Typed'
  BY <1>3 DEF GetLogs, AddLog, Reimport, Call
<1>5. Reset(p) => Typed'
  <2> SUFFICES ASSUME Reset(p) PROVE Typed'
    OBVIOUS
  <2>1. Moves(p, "fetch", {}, task[p].batch) /\ cache' \in [Participant -> SUBSET Link]
    BY <1>1, Going DEF Reset, TypeOK
  <2> QED
    BY <1>1, <1>2, <2>1 DEF Reset, Moves, Typed, Shape, TypeOK, TaskType, At, Participant
<1>6. Fetch(p) => Typed'
  <2> SUFFICES ASSUME Fetch(p) PROVE Typed'
    OBVIOUS
  <2>1. /\ task' \in [Participant -> TaskType]
        /\ \A q \in Participant : q # p => task'[q] = task[q]
    BY <1>1, Going DEF Moves
  <2> QED
    BY <1>1, <1>2, <2>1 DEF Fetch, Typed, Shape, TypeOK, TaskType, At, Participant
<1>7. AfterFetch(p) => /\ task' \in [Participant -> TaskType]
                       /\ \A q \in Participant : q # p => task'[q] = task[q]
                       /\ faulted' \subseteq Participant
  <2>1. Moves(p, "publish", task[p].past, {}) \/ Ended(p) \/ ~AfterFetch(p)
    BY <1>1, Going DEF AfterFetch
  <2> QED
    BY <1>1, <2>1, Ending DEF AfterFetch, Ends, Moves, TypeOK
<1>8. Broken(p) => /\ task' \in [Participant -> TaskType]
                   /\ \A q \in Participant : q # p => task'[q] = task[q]
                   /\ faulted' \subseteq Participant
  BY <1>1, Ending DEF Broken, Ends, TypeOK
<1>9. Save(p) => Typed'
  <2> SUFFICES ASSUME Save(p) PROVE Typed'
    OBVIOUS
  <2>1. /\ task' \in [Participant -> TaskType]
        /\ \A q \in Participant : q # p => task'[q] = task[q]
        /\ faulted' \subseteq Participant
    BY <1>1, <1>7, <1>8, Going DEF Save, Moves, TaskAt, TypeOK
  <2>2. /\ states' \in [Participant -> (SUBSET Link) \cup {NoState}]
        /\ states'[Author] # NoState
    BY <1>1, NoLinks DEF Save, Typed, Shape, TypeOK, TaskType, Participant
  <2> QED
    BY <1>1, <1>2, <2>1, <2>2 DEF Save, Typed, Shape, TypeOK, TaskType, At, Participant
<1>10. Store(p) => Typed'
  <2> SUFFICES ASSUME Store(p) PROVE Typed'
    OBVIOUS
  <2>1. /\ task' \in [Participant -> TaskType]
        /\ \A q \in Participant : q # p => task'[q] = task[q]
        /\ faulted' \subseteq Participant
    BY <1>1, <1>7, <1>8 DEF Store
  <2>2. cache' \in [Participant -> SUBSET Link]
    BY <1>1 DEF Store, TypeOK, TaskType
  <2> QED
    BY <1>1, <1>2, <2>1, <2>2 DEF Store, Typed, Shape, TypeOK, TaskType, At, Participant
<1>11. Publish(p) => Typed'
  <2> SUFFICES ASSUME Publish(p) PROVE Typed'
    OBVIOUS
  <2>1. Len(tangle) + 1 \in Link
    BY <1>1, MaxLogsAssumption DEF Publish, Link
  <2>2. tangle' \in Seq(Message) /\ Len(tangle') = Len(tangle) + 1
    BY Types, <1>1 DEF Publish, Message, TaskType
  <2>3. Moves(p, "storeOwn", task[p].past \cup {Len(tangle) + 1}, {Len(tangle) + 1})
    BY <1>1, Going
  <2>4. TypeOK'
    BY <1>1, <2>1, <2>2, <2>3, MaxLogsAssumption DEF Publish, TypeOK, TaskType, Message, Moves
  <2>5. Shape'
    BY <1>2, <2>3 DEF Typed, Shape, Publish, Moves, At, Participant
  <2> QED
    BY <2>4, <2>5 DEF Typed
<1>12. StoreOwn(p) => Typed'
  BY <1>1, <1>2, Going DEF Typed, Shape, StoreOwn, Moves, TypeOK, TaskType, TaskAt, At, Participant
<1>13. SaveOwn(p) => Typed'
  <2> SUFFICES ASSUME SaveOwn(p) PROVE Typed'
    OBVIOUS
  <2>1. Ends(p) /\ faulted' \subseteq Participant
    BY <1>1, <1>8, Ending DEF SaveOwn, Broken, TypeOK
  <2>2. /\ states' \in [Participant -> (SUBSET Link) \cup {NoState}]
        /\ states'[Author] # NoState
    BY <1>1, NoLinks DEF SaveOwn, Typed, Shape, TypeOK, TaskType, Participant
  <2> QED
    BY <1>1, <1>2, <2>1, <2>2 DEF SaveOwn, Ends, Typed, Shape, TypeOK, TaskType, At, Participant
<1>14. Fail(p) => Typed'
  <2> SUFFICES ASSUME Fail(p) PROVE Typed'
    OBVIOUS
  <2>1. Ends(p) /\ faulted' \subseteq Participant
    BY <1>1, <1>8, Ending DEF Fail, Broken
  <2> QED
    BY <1>1, <1>2, <2>1 DEF Fail, Ends, Typed, Shape, TypeOK, TaskType, At, Participant
<1> QED
  BY <1>4, <1>5, <1>6, <1>9, <1>10, <1>11, <1>12, <1>13, <1>14

\* And so do requests and the steps of the author's operation.
LEMMA TypedOp ==
  ASSUME Typed,
         \/ \E u \in User : Request(u) \/ Authorize(u) \/ Revoke(u)
         \/ \E b \in Participant : OpKeyload(b)
         \/ OpFetch \/ OpSave \/ OpStore \/ OpRemove \/ OpEnd
  PROVE  Typed'
<1> USE DEF vars, tasks, subscriptions, history
<1>1. TypeOK /\ Shape /\ Sent \subseteq Link /\ op \in OpType
  BY SentLinks, Types DEF Typed
<1>2. \A u \in User : Request(u) => Typed'
  BY <1>1, NoLinks, AuthorAssumption DEF Request, Typed, Shape, TypeOK, At, Participant
<1>3. ASSUME NEW call \in {"authorize", "revoke"}, NEW u \in User,
             NEW keys \in SUBSET Participant, NEW pending \in SUBSET Participant,
             BeginOp(call, u, keys, pending)
      PROVE  Typed'
  <2>1. /\ op' \in OpType
        /\ op'.at = "fetch" /\ op'.call = call /\ op'.user = u
    BY <1>1, <1>3, OpStarting DEF Shape
  <2> QED
    BY <1>1, <1>3, <2>1 DEF BeginOp, Typed, Shape, TypeOK, OpType, At
<1>4. \A u \in User : Authorize(u) \/ Revoke(u) => Typed'
  BY <1>3 DEF Authorize, Revoke, KeysWith, KeysWithout, Readers, Participant
<1>5. ASSUME NEW at \in OpAt \ {"idle"}, NEW past, NEW batch, NEW pending, OpMoves(at, past, batch, pending),
             op.at # "idle", UNCHANGED task, states'[Author] # NoState
      PROVE  op' \in OpType /\ Shape'
  BY <1>1, <1>5 DEF OpMoves, Shape, At
<1>6. OpFetch => Typed'
  <2> SUFFICES ASSUME OpFetch PROVE Typed'
    OBVIOUS
  <2>1. op' \in OpType /\ Shape'
    BY <1>1, <1>5, OpGoing DEF OpFetch, OpAt, Shape
  <2> QED
    BY <1>1, <2>1 DEF OpFetch, Typed, TypeOK, OpType
<1>7. OpSave => Typed'
  <2> SUFFICES ASSUME OpSave PROVE Typed'
    OBVIOUS
  <2>1. states' \in [Participant -> (SUBSET Link) \cup {NoState}] /\ states'[Author] # NoState
    BY <1>1, NoLinks DEF OpSave, TypeOK, OpType, Participant
  <2>2. op' \in OpType /\ Shape'
    BY <1>1, <1>5, <2>1, OpGoing DEF OpSave, OpAt
  <2> QED
    BY <1>1, <2>1, <2>2 DEF OpSave, Typed, TypeOK, OpType
<1>8. OpStore => Typed'
  <2> SUFFICES ASSUME OpStore PROVE Typed'
    OBVIOUS
  <2>1. cache' \in [Participant -> SUBSET Link]
    BY <1>1 DEF OpStore, TypeOK, OpType, Participant
  <2>2. op' \in OpType /\ Shape' /\ faulted' \subseteq Participant
    <3>1. CASE op.batch \cap cache[Author] = {}
      BY <1>1, <1>5, <3>1, OpGoing DEF OpStore, OpAt, Shape, TypeOK
    <3>2. CASE op.batch \cap cache[Author] # {}
      BY <1>1, <3>2 DEF OpStore, NoOp, OpType, OpAt, Shape, TypeOK, Participant, At
    <3> QED
      BY <3>1, <3>2
  <2> QED
    BY <1>1, <2>1, <2>2 DEF OpStore, Typed, TypeOK, OpType
<1>9. ASSUME NEW b \in Participant, OpKeyload(b)
      PROVE  Typed'
  <2>1. op' \in OpType /\ Shape'
    BY <1>1, <1>5, <1>9, OpGoing DEF OpKeyload, OpAt, Shape
  <2>2. /\ keyload' \in [Participant -> SUBSET Participant]
        /\ status' \in [User -> {"none", "requested", "authorized", "revoked"}]
    BY <1>1, <1>9, AuthorAssumption DEF OpKeyload, TypeOK, OpType, Participant
  <2> QED
    BY <1>1, <1>9, <2>1, <2>2 DEF OpKeyload, Typed, TypeOK, OpType
<1>10. OpRemove => Typed'
  <2> SUFFICES ASSUME OpRemove PROVE Typed'
    OBVIOUS
  <2>1. op.at # "idle" /\ op.user \in User /\ op.user # Author
    BY <1>1, AuthorAssumption DEF OpRemove, Shape
  <2>2. states'[Author] # NoState /\ states' \in [Participant -> (SUBSET Link) \cup {NoState}]
    BY <1>1, <2>1 DEF OpRemove, Shape, TypeOK, Participant
  <2>3. op' \in OpType /\ Shape'
    BY <1>1, <1>5, <2>1, <2>2, OpGoing DEF OpRemove, OpAt
  <2>4. /\ keyload' \in [Participant -> SUBSET Participant]
        /\ status' \in [User -> {"none", "requested", "authorized", "revoked"}]
        /\ cache' \in [Participant -> SUBSET Link]
    BY <1>1, <2>1 DEF OpRemove, TypeOK, Participant
  <2> QED
    BY <1>1, <2>2, <2>3, <2>4 DEF OpRemove, Typed, TypeOK, OpType
<1>11. OpEnd => Typed'
  <2> SUFFICES ASSUME OpEnd PROVE Typed'
    OBVIOUS
  <2>1. states' \in [Participant -> (SUBSET Link) \cup {NoState}] /\ states'[Author] # NoState
    BY <1>1, NoLinks DEF OpEnd, TypeOK, OpType, Participant
  <2>2. op' \in OpType /\ Shape'
    BY <1>1, <2>1 DEF OpEnd, NoOp, OpType, OpAt, Shape, Participant
  <2> QED
    BY <1>1, <2>1, <2>2 DEF OpEnd, Typed, TypeOK, OpType
<1> QED
  BY <1>2, <1>4, <1>6, <1>7, <1>8, <1>9, <1>10, <1>11

\* Every step keeps the types.
LEMMA NextTyped == Typed /\ [Next]_vars => Typed'
<1> SUFFICES ASSUME Typed, [Next]_vars PROVE Typed'
  OBVIOUS
<1>1. CASE UNCHANGED vars
  BY <1>1 DEF vars, tasks, subscriptions, history, Typed, Shape, TypeOK, At
<1>2. CASE Next
  BY <1>2, TypedTask, TypedOp DEF Next
<1> QED
  BY <1>1, <1>2

\* Every variable always has its type.
THEOREM TypeCorrect == Spec => []TypeOK
<1>1. Typed => TypeOK
  BY DEF Typed
<1> QED
  BY InitTyped, NextTyped, <1>1, PTL DEF Spec

-----------------------------------------------------------------------------
(* Who can decrypt a message.  A revoke has renewed the branches of all    *)
(* who may read before it takes the user's subscription away, and whoever  *)
(* begins to send later links a keyload without that user.                 *)

\* Nobody's revoke has sent its keyloads: what a revoked user's branch says
\* afterwards is for nobody.
Regular(p) ==
  p \in User =>
    /\ status[p] # "revoked"
    /\ ~(Revoking /\ op.user = p /\ op.at \in {"keyloads", "subscription", "logs", "end"})

\* Whom the keyloads of an operation name, and which are still to be sent.
Authorizing ==
  op.call = "authorize" =>
    /\ op.at \in {"fetch", "save", "store", "keyloads"}
    /\ status[op.user] \in {"requested", "authorized"}
    /\ op.user \in op.keys
    /\ op.pending \subseteq op.keys \cap (Readers \cup {op.user})

Renewing ==
  Revoking =>
    /\ status[op.user] = IF op.at \in {"logs", "end"} THEN "revoked" ELSE "authorized"
    /\ op.user \notin op.keys
    /\ op.pending \subseteq (op.keys \cup {op.user}) \cap Readers
    /\ op.at \in {"subscription", "logs", "end"} => op.pending = {}
    /\ \A q \in Readers : q \in op.pending \/ op.user \notin keyload[q]

Operation ==
  /\ Authorizing /\ Renewing
  /\ op.at # "idle" => op.keys \cap Revoked = {} /\ Author \in op.keys

\* Whom the keyloads name that subscriptions link.
Keyloads ==
  /\ \A q \in Readers : keyload[q] \cap Revoked = {}
  /\ \A q \in Participant : Authorized(q) => Author \in keyload[q]
  /\ \A q \in Readers : Regular(q) => q \in keyload[q]

\* Whom a message or a call of p names that began with the users in before revoked.
Named(p, readers, before) ==
  /\ p \in User => status[p] \in {"authorized", "revoked"}
  /\ Author \in readers
  /\ MayRead(p) => readers \cap before = {}
  /\ MayRead(p) /\ Regular(p) => p \in readers

\* A call has what the keyloads said when it began, which is still good.
Calls ==
  \A p \in Participant : ~At(p, "idle") => Named(p, task[p].readers, task[p].before)

\* And so have the messages.
Messages ==
  \A m \in Sent : Named(tangle[m].from, tangle[m].readers, tangle[m].before)

Access == Operation /\ Keyloads /\ Calls /\ Messages

\* Nothing has been sent.
LEMMA InitAccess == Init => Access
BY AuthorAssumption
DEF Init, Access, Operation, Authorizing, Renewing, Revoking, Keyloads, Calls, Messages, At,
    Idle, NoOp, Readers, Authorized, Revoked, Sent, Participant

\* What is named stays so as subscriptions go on.
LEMMA NamedKept ==
  ASSUME NEW p \in Participant, NEW readers, NEW before, Named(p, readers, before),
         Regular(p)' => Regular(p),
         p \in User /\ status[p] \in {"authorized", "revoked"} =>
           status'[p] \in {"authorized", "revoked"}
  PROVE  Named(p, readers, before)'
BY DEF Named, MayRead

\* With calls and messages the same, they stay good.
LEMMA CallsKept ==
  ASSUME Typed, Calls, Messages, UNCHANGED <<tangle, task>>,
         \A p \in Participant : Regular(p)' => Regular(p),
         \A p \in User : status[p] \in {"authorized", "revoked"} => status'[p] \in {"authorized", "revoked"}
  PROVE  Calls' /\ Messages'
<1>1. Calls'
  BY NamedKept DEF Calls, At, Named, MayRead
<1>2. ASSUME NEW m \in Sent
      PROVE  tangle[m].from \in Participant
  <2>1. tangle \in Seq(Message) /\ m \in 1 .. Len(tangle)
    BY Types DEF Typed, Sent
  <2>2. tangle[m] \in Message
    BY <2>1
  <2> QED
    BY <2>2 DEF Message
<1>3. Sent' = Sent
  BY DEF Sent
<1>4. Messages'
  BY <1>2, <1>3, NamedKept DEF Messages, Named, MayRead
<1> QED
  BY <1>1, <1>4

\* The calls: those that begin name what the keyload names, messages what
\* their calls name.
LEMMA AccessTask ==
  ASSUME Typed, Access, NEW p \in Participant,
         GetLogs(p) \/ AddLog(p) \/ Reimport(p) \/ Reset(p) \/ Fetch(p) \/ Save(p)
           \/ Store(p) \/ Publish(p) \/ StoreOwn(p) \/ SaveOwn(p) \/ Fail(p)
  PROVE  Access'
<1> USE DEF subscriptions, history
<1>1. TypeOK /\ task[p] \in TaskType /\ Len(tangle) \in Nat
  BY Types, SentLinks DEF Typed
<1>2. UNCHANGED <<status, keyload, op>>
  BY DEF GetLogs, AddLog, Reimport, Begin, Reset, Fetch, Save, Store, Publish, StoreOwn, SaveOwn, Fail
<1>3. /\ Operation' /\ Keyloads'
      /\ \A q, R, B : Named(q, R, B)' <=> Named(q, R, B)
  BY <1>2 DEF Access, Operation, Authorizing, Renewing, Keyloads, Named, Regular, Revoking, Readers,
              Authorized, Revoked, MayRead
<1>4. ASSUME NEW call \in Call, Begin(p, call)
      PROVE  Access'
  <2>1. Begins(p, call)
    BY <1>1, <1>4, Starting
  <2>2. Named(p, keyload[p], Revoked)
    BY <1>4 DEF Begin, Named, Access, Keyloads, Readers, Authorized
  <2>3. Calls'
    BY <1>3, <2>1, <2>2 DEF Begins, Access, Calls, At
  <2>4. Messages'
    BY <1>3, <1>4 DEF Begin, Access, Messages, Sent
  <2> QED
    BY <1>3, <2>3, <2>4 DEF Access
<1>5. GetLogs(p) \/ AddLog(p) \/ Reimport(p) => Access'
  BY <1>4 DEF GetLogs, AddLog, Reimport, Call
<1>6. ASSUME Ends(p) \/ (~At(p, "idle") /\ \E at, past, batch : Moves(p, at, past, batch))
      PROVE  Calls'
  <2>1. \A q \in Participant : q # p => task'[q] = task[q]
    BY <1>6 DEF Ends, Moves
  <2>2. At(p, "idle")' \/ (~At(p, "idle") /\ task'[p].readers = task[p].readers
                                          /\ task'[p].before = task[p].before)
    BY <1>6 DEF Ends, Moves, At
  <2> QED
    BY <1>3, <2>1, <2>2 DEF Access, Calls, At
<1>7. ~At(p, "idle") /\ ~Publish(p) => /\ UNCHANGED tangle
                                       /\ Ends(p) \/ \E at, past, batch : Moves(p, at, past, batch)
  <2> SUFFICES ASSUME ~At(p, "idle"), ~Publish(p)
               PROVE  /\ UNCHANGED tangle
                      /\ Ends(p) \/ \E at, past, batch : Moves(p, at, past, batch)
    OBVIOUS
  <2>1. Reset(p) \/ Fetch(p) \/ Save(p) \/ Store(p) \/ StoreOwn(p) \/ SaveOwn(p) \/ Fail(p)
    BY DEF GetLogs, AddLog, Reimport, Begin
  <2>2. AfterFetch(p) => Ends(p) \/ \E at, past, batch : Moves(p, at, past, batch)
    BY <1>1, Going, Ending DEF AfterFetch
  <2>3. Broken(p) \/ Ended(p) => Ends(p)
    BY <1>1, Ending DEF Broken
  <2>4. Proceed(p, "store") \/ Proceed(p, "saveOwn") => \E at, past, batch : Moves(p, at, past, batch)
    BY <1>1, Going DEF TaskAt
  <2>5. Reset(p) \/ Fetch(p) => \E at, past, batch : Moves(p, at, past, batch)
    BY <1>1, Going
  <2> QED
    BY <2>1, <2>2, <2>3, <2>4, <2>5 DEF Reset, Fetch, Save, Store, StoreOwn, SaveOwn, Fail
<1>8. ~At(p, "idle") /\ ~Publish(p) => Access'
  BY <1>3, <1>6, <1>7 DEF Access, Messages, Sent
<1>9. Publish(p) => Access'
  <2> SUFFICES ASSUME Publish(p) PROVE Access'
    OBVIOUS
  <2> DEFINE new == [from |-> p, readers |-> task[p].readers, before |-> task[p].before]
  <2>1. new \in Message /\ tangle \in Seq(Message) /\ tangle' = Append(tangle, new)
    BY <1>1, Types DEF Publish, Message, TaskType
  <2>2. ~At(p, "idle") /\ Named(p, new.readers, new.before) /\ new.from = p
    BY DEF Publish, At, Access, Calls
  <2> HIDE DEF new
  <2>3. /\ Len(tangle') = Len(tangle) + 1 /\ tangle'[Len(tangle) + 1] = new
        /\ \A m \in 1 .. Len(tangle) : tangle'[m] = tangle[m]
    BY <2>1
  <2>4. Messages'
    <3>1. ASSUME NEW m \in 1 .. Len(tangle')
          PROVE  Named(tangle'[m].from, tangle'[m].readers, tangle'[m].before)
      <4>1. CASE m = Len(tangle) + 1
        BY <2>2, <2>3, <4>1
      <4>2. CASE m \in 1 .. Len(tangle)
        BY <2>3, <4>2 DEF Access, Messages, Sent
      <4> QED
        BY <1>1, <2>3, <4>1, <4>2
    <3> QED
      BY <1>2, <3>1 DEF Messages, Sent, Named, Regular, Revoking, MayRead
  <2>5. Calls'
    BY <1>1, <1>6, <2>2, Going
  <2> QED
    BY <1>3, <2>4, <2>5 DEF Access
<1> QED
  BY <1>5, <1>8, <1>9 DEF Reset, Fetch, Save, Store, StoreOwn, SaveOwn, Fail, At

\* A request changes what nobody relies on yet.
LEMMA AccessRequest ==
  ASSUME Typed, Access, NEW u \in User, Request(u)
  PROVE  Access'
<1> USE DEF subscriptions, tasks, history
<1>1. /\ status \in [User -> {"none", "requested", "authorized", "revoked"}]
      /\ status[u] = "none" /\ status' = [status EXCEPT ![u] = "requested"]
      /\ UNCHANGED <<tangle, keyload, task, op>>
  BY Types DEF Typed, Request
<1>2. Readers' = Readers /\ Revoked' = Revoked /\ \A p \in Participant : Authorized(p)' <=> Authorized(p)
  BY <1>1 DEF Readers, Revoked, Authorized, MayRead, Participant
<1>3. (op.call = "authorize" \/ Revoking) => op.user # u /\ op.user \in User
  BY <1>1 DEF Access, Operation, Authorizing, Renewing, Revoking, Typed, Shape, NoOp
<1>4. \A p \in Participant : Regular(p)' => Regular(p)
  BY <1>1, <1>3 DEF Regular, Revoking
<1>5. Operation'
  BY <1>1, <1>2, <1>3 DEF Access, Operation, Authorizing, Renewing, Revoking
<1>6. Keyloads'
  BY <1>1, <1>2, <1>4 DEF Access, Keyloads, Readers
<1> QED
  BY <1>1, <1>4, <1>5, <1>6, CallsKept DEF Access

\* An operation begins with keys of users that are not revoked.
LEMMA AccessBegin ==
  ASSUME Typed, Access, NEW u \in User, Authorize(u) \/ Revoke(u)
  PROVE  Access'
<1> USE DEF subscriptions, tasks, history
<1>1. /\ TypeOK /\ states[Author] # NoState /\ op = NoOp
      /\ Author \in Participant /\ Author \notin User /\ u \in Participant
  BY AuthorAssumption DEF Typed, Shape, Authorize, Revoke, BeginOp, Participant
<1>2. UNCHANGED <<tangle, task, status, keyload>> /\ status[u] \in {"requested", "authorized"}
  BY DEF Authorize, Revoke, BeginOp
<1>3. /\ op'.at = "fetch" /\ op'.user = u
      /\ \/ /\ op'.call = "authorize" /\ op'.keys = KeysWith(u) /\ op'.pending = Readers \cup {u}
            /\ status[u] = "requested"
         \/ /\ op'.call = "revoke" /\ op'.keys = KeysWithout(u) /\ op'.pending = Readers
            /\ status[u] = "authorized"
  BY <1>1, OpStarting DEF Authorize, Revoke, KeysWith, KeysWithout, Readers, Participant
<1>4. Readers' = Readers /\ Revoked' = Revoked /\ \A p \in Participant : Authorized(p)' <=> Authorized(p)
  BY <1>2 DEF Readers, Revoked, Authorized, MayRead
<1>5. \A p \in Participant : Regular(p)' <=> Regular(p)
  BY <1>1, <1>2, <1>3 DEF Regular, Revoking, NoOp
<1>6. Readers \cap Revoked = {} /\ Author \in Readers /\ u \notin Revoked /\ Author \notin Revoked
  BY <1>1, <1>2 DEF Readers, Revoked, Authorized, MayRead
<1>7. Operation'
  <2>1. u # Author
    BY <1>1
  <2>2. CASE op'.call = "authorize" /\ op'.keys = KeysWith(u) /\ op'.pending = Readers \cup {u}
    BY <1>2, <1>3, <1>4, <1>6, <2>2 DEF Operation, Authorizing, Renewing, Revoking, KeysWith
  <2>3. CASE /\ op'.call = "revoke" /\ op'.keys = KeysWithout(u) /\ op'.pending = Readers
             /\ status[u] = "authorized"
    <3>1. /\ op'.keys \cap Revoked' = {} /\ Author \in op'.keys /\ u \notin op'.keys
          /\ Readers \subseteq op'.keys \cup {u}
      BY <1>4, <1>6, <2>1, <2>3 DEF KeysWithout
    <3> QED
      BY <1>2, <1>3, <1>4, <2>3, <3>1 DEF Operation, Authorizing, Renewing, Revoking
  <2> QED
    BY <1>3, <2>2, <2>3
<1>8. Keyloads'
  BY <1>2, <1>4, <1>5 DEF Access, Keyloads, Readers
<1> QED
  BY <1>2, <1>5, <1>7, <1>8, CallsKept DEF Access

\* Fetching the author's logs tells nothing of who may read.
LEMMA AccessFetch ==
  ASSUME Typed, Access, OpFetch \/ OpSave \/ OpStore
  PROVE  Access'
<1> USE DEF subscriptions, tasks, history
<1>1. TypeOK /\ UNCHANGED <<tangle, task, status, keyload>> /\ op.at \in {"fetch", "save", "store"}
  BY DEF Typed, OpFetch, OpSave, OpStore
<1>2. Readers' = Readers /\ Revoked' = Revoked /\ \A p \in Participant : Authorized(p)' <=> Authorized(p)
  BY <1>1 DEF Readers, Revoked, Authorized, MayRead
<1>3. \/ op' = NoOp
      \/ /\ op'.at \in {"save", "store", "keyloads"} /\ op'.pending = op.pending
         /\ op'.call = op.call /\ op'.user = op.user /\ op'.keys = op.keys
  BY <1>1, OpGoing DEF OpFetch, OpSave, OpStore, OpMoves
<1>4. \A p \in Participant : Regular(p)' => Regular(p)
  BY <1>1, <1>3 DEF Regular, Revoking
<1>5. Operation'
  BY <1>1, <1>2, <1>3 DEF Access, Operation, Authorizing, Renewing, Revoking, NoOp
<1>6. Keyloads'
  BY <1>1, <1>2, <1>4 DEF Access, Keyloads, Readers
<1> QED
  BY <1>1, <1>4, <1>5, <1>6, CallsKept DEF Access

\* A keyload names whom the operation has chosen.
LEMMA AccessKeyload ==
  ASSUME Typed, Access, NEW b \in Participant, OpKeyload(b)
  PROVE  Access'
<1> USE DEF subscriptions, tasks, history
<1>1. /\ status \in [User -> {"none", "requested", "authorized", "revoked"}]
      /\ keyload \in [Participant -> SUBSET Participant] /\ TypeOK
      /\ Author \in Participant /\ Author \notin User
  BY Types, AuthorAssumption DEF Typed, Participant
<1>2. /\ UNCHANGED <<tangle, task>> /\ b \in op.pending /\ op.at = "keyloads"
      /\ keyload' = [keyload EXCEPT ![b] = op.keys]
      /\ status' = IF b = Author THEN status ELSE [status EXCEPT ![b] = "authorized"]
  BY DEF OpKeyload
<1>3. /\ op'.at = "keyloads" /\ op'.pending = op.pending \ {b}
      /\ op'.call = op.call /\ op'.user = op.user /\ op'.keys = op.keys
  BY <1>1, OpGoing DEF OpMoves
<1>4. /\ op.user \in User /\ op.keys \cap Revoked = {} /\ Author \in op.keys
      /\ op.call = "authorize" \/ Revoking
  BY <1>2, Types DEF Access, Operation, Typed, Shape, OpType, Revoking
<1>5. /\ b \in Readers \/ (op.call = "authorize" /\ b = op.user)
      /\ op.call = "authorize" => b \in op.keys
  BY <1>2, <1>4 DEF Access, Operation, Authorizing, Renewing, Revoking
<1>6. b \in User => status[b] \in {"requested", "authorized"}
  BY <1>1, <1>5 DEF Access, Operation, Authorizing, Readers, Authorized
<1>7. Revoked' = Revoked /\ Readers \subseteq Readers' /\ Readers' \subseteq Readers \cup {b}
  BY <1>1, <1>2, <1>6 DEF Revoked, Readers, Authorized, MayRead, Participant
<1>8. \A p \in Participant : Authorized(p)' /\ p # b => Authorized(p)
  BY <1>1, <1>2 DEF Authorized, Participant
<1>9. Revoking => Readers' = Readers /\ status' = status
  BY <1>1, <1>2, <1>5, <1>7 DEF Readers, Authorized, Revoking
<1>10. \A p \in Participant : Regular(p)' => Regular(p)
  BY <1>1, <1>2, <1>3, <1>6, <1>9 DEF Regular, Revoking
<1>11. Operation'
  <2>1. Authorizing'
    BY <1>1, <1>2, <1>3, <1>4, <1>7 DEF Access, Operation, Authorizing, Participant
  <2>2. Renewing'
    BY <1>1, <1>2, <1>3, <1>9 DEF Access, Operation, Renewing, Revoking, Participant
  <2> QED
    BY <1>3, <1>4, <1>7, <2>1, <2>2 DEF Operation
<1>12. Keyloads'
  <2>1. \A q \in Participant : q # b => keyload'[q] = keyload[q]
    BY <1>1, <1>2
  <2>2. keyload'[b] = op.keys
    BY <1>1, <1>2
  <2>3. Regular(b)' /\ Revoking => b # op.user
    BY <1>2, <1>3, <1>4 DEF Regular, Revoking
  <2>4. Regular(b)' => b \in op.keys
    BY <1>2, <1>4, <1>5, <2>3 DEF Access, Operation, Renewing, Revoking
  <2> QED
    BY <1>4, <1>7, <1>8, <1>10, <2>1, <2>2, <2>4 DEF Access, Keyloads, Readers
<1> QED
  BY <1>1, <1>2, <1>6, <1>10, <1>11, <1>12, CallsKept DEF Access

\* When the subscription goes away, no branch of a reader names the user.
LEMMA AccessRemove ==
  ASSUME Typed, Access, OpRemove
  PROVE  Access'
<1> USE DEF subscriptions, tasks, history
<1>1. /\ status \in [User -> {"none", "requested", "authorized", "revoked"}]
      /\ keyload \in [Participant -> SUBSET Participant] /\ TypeOK
      /\ op.at \in {"keyloads", "subscription", "logs"} /\ op.user \in User
      /\ op.user \in Participant /\ Revoking /\ UNCHANGED <<tangle, task>>
  BY Types DEF Typed, Shape, OpRemove, Participant
<1>2. PICK at \in {"subscription", "logs", "end"} : OpMoves(at, op.past, op.batch, op.pending)
  BY <1>1, OpGoing
<1>3. /\ op'.at = at /\ op'.pending = op.pending
      /\ op'.call = op.call /\ op'.user = op.user /\ op'.keys = op.keys /\ op'.call = "revoke"
  BY <1>1, <1>2 DEF OpMoves, Revoking
<1>4. CASE op.at \in {"keyloads", "logs"}
  <2>1. /\ UNCHANGED <<status, keyload>> /\ op.pending = {}
        /\ at = IF op.at = "logs" THEN "end" ELSE "subscription"
    BY <1>1, <1>3, <1>4, Types DEF OpRemove, Access, Operation, Renewing, OpType
  <2>2. Readers' = Readers /\ Revoked' = Revoked /\ \A p \in Participant : Authorized(p)' <=> Authorized(p)
    BY <2>1 DEF Readers, Revoked, Authorized, MayRead
  <2>3. \A p \in Participant : Regular(p)' => Regular(p)
    BY <1>1, <1>3, <2>1 DEF Regular, Revoking
  <2>4. Operation'
    BY <1>1, <1>3, <1>4, <2>1, <2>2 DEF Access, Operation, Authorizing, Renewing, Revoking
  <2>5. Keyloads'
    BY <2>1, <2>2, <2>3 DEF Access, Keyloads, Readers
  <2> QED
    BY <1>1, <2>1, <2>3, <2>4, <2>5, CallsKept DEF Access
<1>5. CASE op.at = "subscription"
  <2>1. /\ status' = [status EXCEPT ![op.user] = "revoked"]
        /\ keyload' = [keyload EXCEPT ![op.user] = {}] /\ at = "logs"
    BY <1>1, <1>3, <1>5, Types DEF OpRemove, OpType
  <2>2. /\ op.pending = {} /\ status[op.user] = "authorized" /\ op.user \notin op.keys
        /\ \A q \in Readers : op.user \notin keyload[q]
        /\ op.keys \cap Revoked = {} /\ Author \in op.keys
    BY <1>1, <1>5 DEF Access, Operation, Renewing
  <2>3. Readers' = Readers \ {op.user} /\ Revoked' = Revoked \cup {op.user}
    BY <1>1, <2>1 DEF Readers, Revoked, Authorized, MayRead, Participant
  <2>4. \A p \in Participant : Authorized(p)' => Authorized(p) /\ p # op.user
    BY <1>1, <2>1 DEF Authorized
  <2>5. \A p \in Participant : Regular(p)' => Regular(p)
    BY <1>1, <1>3, <1>5, <2>1 DEF Regular, Revoking
  <2>6. Operation'
    BY <1>1, <1>3, <2>1, <2>2, <2>3 DEF Operation, Authorizing, Renewing, Revoking, Readers
  <2>7. \A q \in Participant : q # op.user => keyload'[q] = keyload[q]
    BY <1>1, <2>1
  <2>8. Keyloads'
    BY <1>1, <2>2, <2>3, <2>4, <2>5, <2>7 DEF Access, Keyloads, Readers
  <2> QED
    BY <1>1, <2>1, <2>2, <2>5, <2>6, <2>8, CallsKept DEF Access
<1> QED
  BY <1>1, <1>4, <1>5

\* After a revoke the user stays revoked, after an authorize nothing is left.
LEMMA AccessEnd ==
  ASSUME Typed, Access, OpEnd
  PROVE  Access'
<1> USE DEF subscriptions, tasks, history
<1>1. UNCHANGED <<tangle, task, status, keyload>> /\ op' = NoOp /\ op.at # "idle"
  BY DEF OpEnd
<1>2. Readers' = Readers /\ Revoked' = Revoked /\ \A p \in Participant : Authorized(p)' <=> Authorized(p)
  BY <1>1 DEF Readers, Revoked, Authorized, MayRead
<1>3. Revoking => op.user \in User /\ status[op.user] = "revoked"
  BY <1>1 DEF OpEnd, Access, Operation, Renewing, Typed, Shape
<1>4. \A p \in Participant : Regular(p)' => Regular(p)
  BY <1>1, <1>3 DEF Regular
<1>5. Operation'
  BY <1>1 DEF Operation, Authorizing, Renewing, Revoking, NoOp
<1>6. Keyloads'
  BY <1>1, <1>2, <1>4 DEF Access, Keyloads, Readers
<1> QED
  BY <1>1, <1>4, <1>5, <1>6, CallsKept DEF Access

\* Every step keeps the part that says who can read what.
LEMMA NextAccess == Typed /\ Access /\ [Next]_vars => Access'
<1> SUFFICES ASSUME Typed, Access, [Next]_vars PROVE Access'
  OBVIOUS
<1>1. CASE UNCHANGED vars
  BY <1>1 DEF vars, tasks, subscriptions, history, Access, Operation, Authorizing, Renewing, Revoking,
              Keyloads, Calls, Messages, Named, Regular, At, Readers, Revoked, Authorized, MayRead, Sent
<1>2. CASE Next
  BY <1>2, AccessTask, AccessRequest, AccessBegin, AccessFetch, AccessKeyload, AccessRemove, AccessEnd
  DEF Next
<1> QED
  BY <1>1, <1>2

\* A revoked user cannot decrypt what somebody whose branch is renewed begins
\* to send after the revoke.
THEOREM RevokedNeverRead == Spec => []RevokedCannotRead
<1>1. Access => RevokedCannotRead
  BY DEF Access, Messages, Named, RevokedCannotRead
<1>2. Init => Typed /\ Access
  BY InitTyped, InitAccess
<1>3. Typed /\ Access /\ [Next]_vars => (Typed /\ Access)'
  BY NextTyped, NextAccess
<1> QED
  BY <1>1, <1>2, <1>3, PTL DEF Spec

-----------------------------------------------------------------------------
(* What the documents and the calls hold are messages that were sent, and  *)
(* a call holds logs only between fetching and storing them.               *)

SentOnly(p) ==
  /\ states[p] # NoState => states[p] \subseteq Sent
  /\ cache[p] \subseteq Sent /\ task[p].past \subseteq Sent /\ task[p].batch \subseteq Sent

\* What a participant's documents and its call hold.
Held(p) ==
  /\ p \in User /\ status[p] \in {"none", "requested"} => cache[p] = {}
  /\ task[p].at \in {"idle", "reset", "fetch", "publish"} => task[p].batch = {}
  /\ task[p].at \in {"reset", "save", "store"} => MayRead(p)

Books ==
  /\ \A p \in Participant : SentOnly(p) /\ Held(p)
  /\ op.past \subseteq Sent /\ op.batch \subseteq Sent
  /\ op.at \notin {"save", "store"} => op.batch = {}

\* Nothing is held.
LEMMA InitBooks == Init => Books
BY DEF Init, Books, SentOnly, Held, Idle, NoOp, Participant

\* The message that a call publishes, and what it is to others.
LEMMA Grown ==
  ASSUME Typed, NEW q \in Participant, Publish(q)
  PROVE  /\ Sent' = Sent \cup {Len(tangle) + 1} /\ Len(tangle) + 1 \notin Sent
         /\ Len(tangle') = Len(tangle) + 1 /\ Len(tangle) \in Nat
         /\ \A m \in Sent : tangle'[m] = tangle[m]
         /\ tangle'[Len(tangle) + 1].from = q
         /\ tangle'[Len(tangle) + 1].readers = task[q].readers
         /\ \A p \in Participant : Readable(p)' \cap Sent = Readable(p) /\ Own(p)' \cap Sent = Own(p)
         /\ \A p \in Participant : p # q => Own(p)' = Own(p)
         /\ Own(q)' = Own(q) \cup {Len(tangle) + 1}
<1> DEFINE new == [from |-> q, readers |-> task[q].readers, before |-> task[q].before]
           n == Len(tangle)
<1>1. /\ TypeOK /\ tangle \in Seq(Message) /\ n \in Nat /\ task[q] \in TaskType
  BY Types, SentLinks DEF Typed
<1>2. new \in Message /\ tangle' = Append(tangle, new) /\ new.from = q /\ new.readers = task[q].readers
  BY <1>1 DEF Publish, Message, TaskType
<1> HIDE DEF new
<1>3. /\ Len(tangle') = n + 1 /\ tangle'[n + 1] = new
      /\ \A m \in 1 .. n : tangle'[m] = tangle[m]
  BY <1>1, <1>2
<1>4. 1 .. (n + 1) = (1 .. n) \cup {n + 1} /\ n + 1 \notin 1 .. n
  BY <1>1
<1>5. Sent' = Sent \cup {n + 1} /\ n + 1 \notin Sent /\ \A m \in Sent : tangle'[m] = tangle[m]
  BY <1>3, <1>4 DEF Sent
<1>6. tangle'[n + 1].from = q /\ tangle'[n + 1].readers = task[q].readers
  BY <1>2, <1>3
<1> HIDE DEF n
<1>7. \A p \in Participant : Readable(p)' \cap Sent = Readable(p) /\ Own(p)' \cap Sent = Own(p)
  BY <1>5 DEF Readable, Own
<1>8. \A p \in Participant : p # q => Own(p)' = Own(p)
  BY <1>5, <1>6 DEF Own
<1>9. Own(q)' = Own(q) \cup {n + 1}
  BY <1>5, <1>6 DEF Own
<1> QED
  BY <1>1, <1>3, <1>5, <1>6, <1>7, <1>8, <1>9 DEF n

\* Steps of a call.
LEMMA BooksTask ==
  ASSUME Typed, Access, Books, NEW p \in Participant,
         GetLogs(p) \/ AddLog(p) \/ Reimport(p) \/ Reset(p) \/ Fetch(p) \/ Save(p)
           \/ Store(p) \/ Publish(p) \/ StoreOwn(p) \/ SaveOwn(p) \/ Fail(p)
  PROVE  Books'
<1> USE DEF subscriptions, history
<1>1. /\ TypeOK /\ task[p] \in TaskType
      /\ states \in [Participant -> (SUBSET Link) \cup {NoState}] /\ cache \in [Participant -> SUBSET Link]
  BY Types DEF Typed
<1>2. UNCHANGED <<status, op>> /\ Sent \subseteq Sent'
  <2>1. UNCHANGED tangle \/ Publish(p)
    BY DEF GetLogs, AddLog, Reimport, Begin, Reset, Fetch, Save, Store, StoreOwn, SaveOwn, Fail
  <2>2. Sent \subseteq Sent'
    BY <2>1, Grown DEF Sent
  <2> QED
    BY <2>2 DEF GetLogs, AddLog, Reimport, Begin, Reset, Fetch, Save, Store, Publish, StoreOwn, SaveOwn, Fail
<1>3. ASSUME \A q \in Participant : q # p => task'[q] = task[q] /\ cache'[q] = cache[q] /\ states'[q] = states[q],
             SentOnly(p)', Held(p)'
      PROVE  Books'
  <2>1. ASSUME NEW q \in Participant, q # p
        PROVE  SentOnly(q)' /\ Held(q)'
    BY <1>2, <1>3, <2>1 DEF Books, SentOnly, Held, MayRead
  <2> QED
    BY <1>2, <1>3, <2>1 DEF Books
<1>4. /\ states[p] # NoState => states[p] \subseteq Sent
      /\ cache[p] \subseteq Sent /\ task[p].past \subseteq Sent /\ task[p].batch \subseteq Sent
      /\ Held(p)
  BY DEF Books, SentOnly
<1>5. ~At(p, "idle") => (p \in User => status[p] \notin {"none", "requested"})
  BY DEF Access, Calls, Named
<1>6. ASSUME NEW call \in Call, Begin(p, call), call = "reimport" => MayRead(p)
      PROVE  Books'
  <2>1. Begins(p, call)
    BY <1>1, <1>6, Starting
  <2>2. UNCHANGED <<cache, states, tangle>> /\ states[p] # NoState
    BY <1>6 DEF Begin
  <2>3. SentOnly(p)' /\ Held(p)'
    BY <1>2, <1>4, <1>6, <2>1, <2>2 DEF Begins, SentOnly, Held, Sent, MayRead
  <2> QED
    BY <1>3, <2>1, <2>2, <2>3 DEF Begins
<1>7. GetLogs(p) \/ AddLog(p) \/ Reimport(p) => Books'
  BY <1>6 DEF GetLogs, AddLog, Reimport, Call
<1>8. Reset(p) => Books'
  <2> SUFFICES ASSUME Reset(p) PROVE Books'
    OBVIOUS
  <2>1. Moves(p, "fetch", {}, task[p].batch)
    BY <1>1, Going
  <2>2. At(p, "reset") /\ cache' = [cache EXCEPT ![p] = {}] /\ UNCHANGED <<tangle, states>>
    BY DEF Reset
  <2>3. SentOnly(p)' /\ Held(p)'
    BY <1>1, <1>2, <1>4, <2>1, <2>2 DEF Moves, SentOnly, Held, At, MayRead
  <2> QED
    BY <1>1, <1>3, <2>1, <2>2, <2>3 DEF Moves
<1>9. Fetch(p) => Books'
  <2> SUFFICES ASSUME Fetch(p) PROVE Books'
    OBVIOUS
  <2>1. Moves(p, IF MayRead(p) THEN "save" ELSE "publish", task[p].past \cup Sent,
              IF MayRead(p) THEN Unread(p, task[p].past) ELSE {})
    BY <1>1, Going
  <2>2. At(p, "fetch") /\ UNCHANGED <<tangle, states, cache>>
    BY DEF Fetch
  <2>3. SentOnly(p)' /\ Held(p)'
    BY <1>2, <1>4, <2>1, <2>2 DEF Moves, SentOnly, Held, At, MayRead, Sent, Unread, Readable
  <2> QED
    BY <1>3, <2>1, <2>2, <2>3 DEF Moves
<1>10. AfterFetch(p) => /\ \A q \in Participant : q # p => task'[q] = task[q]
                        /\ task'[p].at \in {"publish", "idle"} /\ task'[p].batch = {}
                        /\ task'[p].past \subseteq task[p].past
  <2>1. AfterFetch(p) => Moves(p, "publish", task[p].past, {}) \/ Ends(p)
    BY <1>1, Going, Ending DEF AfterFetch
  <2> QED
    BY <2>1 DEF Moves, Ends
<1>11. Broken(p) \/ Ended(p) => Ends(p)
  BY <1>1, Ending DEF Broken
<1>12. Save(p) => Books'
  <2> SUFFICES ASSUME Save(p) PROVE Books'
    OBVIOUS
  <2>1. /\ \A q \in Participant : q # p => task'[q] = task[q]
        /\ \/ task'[p].at \in {"publish", "idle"} /\ task'[p].batch = {}
           \/ task'[p].at = "store" /\ task'[p].batch = task[p].batch
        /\ task'[p].past \subseteq task[p].past
    BY <1>1, <1>10, <1>11, Going DEF Save, Ends, Moves, TaskAt
  <2>2. /\ UNCHANGED cache
        /\ \A q \in Participant : states'[q] \in {states[q], task[q].past}
        /\ \A q \in Participant : q # p => states'[q] = states[q]
    BY <1>1 DEF Save
  <2>3. At(p, "save") /\ UNCHANGED tangle
    BY DEF Save
  <2>4. SentOnly(p)' /\ Held(p)'
    BY <1>2, <1>4, <2>1, <2>2, <2>3 DEF SentOnly, Held, At, MayRead
  <2> QED
    BY <1>3, <2>1, <2>2, <2>4
<1>13. Store(p) => Books'
  <2> SUFFICES ASSUME Store(p) PROVE Books'
    OBVIOUS
  <2>1. /\ \A q \in Participant : q # p => task'[q] = task[q]
        /\ task'[p].at \in {"publish", "idle"} /\ task'[p].batch = {}
        /\ task'[p].past \subseteq task[p].past
    BY <1>10, <1>11 DEF Store, Ends
  <2>2. PICK S \in SUBSET task[p].batch : cache' = [cache EXCEPT ![p] = @ \cup S]
    BY DEF Store
  <2>3. At(p, "store") /\ UNCHANGED <<states, tangle>>
    BY DEF Store
  <2>4. SentOnly(p)' /\ Held(p)'
    BY <1>1, <1>2, <1>4, <1>5, <2>1, <2>2, <2>3 DEF SentOnly, Held, At, MayRead
  <2> QED
    BY <1>1, <1>3, <2>1, <2>2, <2>3, <2>4
<1>14. Publish(p) => Books'
  <2> SUFFICES ASSUME Publish(p) PROVE Books'
    OBVIOUS
  <2>1. Moves(p, "storeOwn", task[p].past \cup {Len(tangle) + 1}, {Len(tangle) + 1})
    BY <1>1, Going
  <2>2. UNCHANGED <<states, cache>>
    BY DEF Publish
  <2>3. Sent' = Sent \cup {Len(tangle) + 1}
    BY Grown
  <2>4. SentOnly(p)' /\ Held(p)'
    BY <1>2, <1>4, <2>1, <2>2, <2>3 DEF Moves, SentOnly, Held, MayRead
  <2> QED
    BY <1>3, <2>1, <2>2, <2>4 DEF Moves
<1>15. StoreOwn(p) => Books'
  <2> SUFFICES ASSUME StoreOwn(p) PROVE Books'
    OBVIOUS
  <2>1. Moves(p, "saveOwn", task[p].past, task[p].batch)
    BY <1>1, Going DEF StoreOwn, TaskAt
  <2>2. At(p, "storeOwn") /\ UNCHANGED <<states, tangle>> /\ cache' = [cache EXCEPT ![p] = @ \cup task[p].batch]
    BY DEF StoreOwn
  <2>3. SentOnly(p)' /\ Held(p)'
    BY <1>1, <1>2, <1>4, <1>5, <2>1, <2>2 DEF Moves, SentOnly, Held, At, MayRead
  <2> QED
    BY <1>1, <1>3, <2>1, <2>2, <2>3 DEF Moves
<1>16. SaveOwn(p) \/ Fail(p) => Books'
  <2> SUFFICES ASSUME SaveOwn(p) \/ Fail(p) PROVE Books'
    OBVIOUS
  <2>1. Ends(p)
    BY <1>11 DEF SaveOwn, Fail
  <2>2. /\ UNCHANGED <<cache, tangle>>
        /\ \A q \in Participant : states'[q] \in {states[q], task[q].past}
        /\ \A q \in Participant : q # p => states'[q] = states[q]
    BY <1>1 DEF SaveOwn, Fail
  <2>3. SentOnly(p)' /\ Held(p)'
    BY <1>2, <1>4, <2>1, <2>2 DEF Ends, SentOnly, Held, MayRead
  <2> QED
    BY <1>3, <2>1, <2>2, <2>3 DEF Ends
<1> QED
  BY <1>7, <1>8, <1>9, <1>12, <1>13, <1>14, <1>15, <1>16

\* Requests and the author's operation.
LEMMA BooksOp ==
  ASSUME Typed, Access, Books,
         \/ \E u \in User : Request(u) \/ Authorize(u) \/ Revoke(u)
         \/ \E b \in Participant : OpKeyload(b)
         \/ OpFetch \/ OpSave \/ OpStore \/ OpRemove \/ OpEnd
  PROVE  Books'
<1> USE DEF subscriptions, tasks, history
<1>1. /\ TypeOK /\ Shape /\ Author \in Participant /\ Author \notin User /\ op \in OpType
      /\ states \in [Participant -> (SUBSET Link) \cup {NoState}] /\ cache \in [Participant -> SUBSET Link]
      /\ status \in [User -> {"none", "requested", "authorized", "revoked"}]
      /\ task \in [Participant -> TaskType] /\ states[Author] # NoState
  BY Types, AuthorAssumption DEF Typed, Shape, Participant
<1>2. UNCHANGED <<tangle, task>> /\ Sent' = Sent
  BY DEF Request, Authorize, Revoke, BeginOp, OpKeyload, OpFetch, OpSave, OpStore, OpRemove, OpEnd, Sent
<1>3. /\ op.past \subseteq Sent /\ op.batch \subseteq Sent
      /\ op.at \notin {"save", "store"} => op.batch = {}
      /\ \A p \in Participant : SentOnly(p) /\ Held(p)
  BY DEF Books
<1>4. ASSUME \A p \in Participant :
               /\ states'[p] \in {states[p], NoState, op.past, {}} /\ cache'[p] \subseteq cache[p] \cup op.batch
               /\ p \in User /\ status'[p] \in {"none", "requested"} =>
                    status[p] \in {"none", "requested"} /\ cache'[p] = cache[p]
      PROVE  \A p \in Participant : SentOnly(p)' /\ Held(p)'
  BY <1>2, <1>3, <1>4 DEF SentOnly, Held, MayRead
<1>5. ASSUME op'.past \subseteq Sent, op'.batch \subseteq Sent, op'.at \notin {"save", "store"} => op'.batch = {},
             \A p \in Participant : SentOnly(p)' /\ Held(p)'
      PROVE  Books'
  BY <1>2, <1>5 DEF Books
<1>6. \A u \in User : Request(u) => Books'
  <2> SUFFICES ASSUME NEW u \in User, Request(u) PROVE Books'
    OBVIOUS
  <2>1. /\ status[u] = "none" /\ status' = [status EXCEPT ![u] = "requested"]
        /\ states' = [states EXCEPT ![u] = {}] /\ UNCHANGED <<cache, op>>
    BY DEF Request
  <2> QED
    BY <1>1, <1>3, <1>4, <1>5, <2>1 DEF Participant
<1>7. ASSUME UNCHANGED <<states, cache, status>>
      PROVE  \A p \in Participant : SentOnly(p)' /\ Held(p)'
  BY <1>1, <1>4, <1>7
<1>8. \A u \in User : Authorize(u) \/ Revoke(u) => Books'
  <2> SUFFICES ASSUME NEW u \in User, Authorize(u) \/ Revoke(u) PROVE Books'
    OBVIOUS
  <2>0. \E call \in {"authorize", "revoke"}, keys \in SUBSET Participant, pending \in SUBSET Participant :
          BeginOp(call, u, keys, pending)
    BY <1>1 DEF Authorize, Revoke, KeysWith, KeysWithout, Readers, Participant
  <2>1. op'.at = "fetch" /\ op'.past = states[Author] /\ op'.batch = {}
    BY <1>1, <2>0, OpStarting
  <2>2. UNCHANGED <<states, cache, status>>
    BY DEF Authorize, Revoke, BeginOp
  <2> QED
    BY <1>1, <1>3, <1>5, <1>7, <2>1, <2>2 DEF SentOnly
<1>9. OpFetch => Books'
  <2> SUFFICES ASSUME OpFetch PROVE Books'
    OBVIOUS
  <2>1. /\ op'.at = IF Unread(Author, op.past) = {} THEN "keyloads" ELSE "save"
        /\ op'.past = op.past \cup Sent /\ op'.batch = Unread(Author, op.past)
    BY <1>1, OpGoing DEF OpMoves
  <2>2. UNCHANGED <<states, cache, status>> /\ Unread(Author, op.past) \subseteq Sent
    BY DEF OpFetch, Unread, Readable
  <2> QED
    BY <1>3, <1>5, <1>7, <2>1, <2>2
<1>10. OpSave => Books'
  <2> SUFFICES ASSUME OpSave PROVE Books'
    OBVIOUS
  <2>1. op'.at = "store" /\ op'.past = op.past /\ op'.batch = op.batch
    BY <1>1, OpGoing DEF OpMoves
  <2>2. UNCHANGED <<cache, status>> /\ states' = [states EXCEPT ![Author] = op.past]
    BY DEF OpSave
  <2> QED
    BY <1>1, <1>3, <1>4, <1>5, <2>1, <2>2
<1>11. OpStore => Books'
  <2> SUFFICES ASSUME OpStore PROVE Books'
    OBVIOUS
  <2>1. op' = NoOp \/ (op'.at = "keyloads" /\ op'.past = op.past /\ op'.batch = {})
    BY <1>1, OpGoing DEF OpMoves, OpStore
  <2>2. UNCHANGED <<states, status>> /\ \E S \in SUBSET op.batch : cache' = [cache EXCEPT ![Author] = @ \cup S]
    BY DEF OpStore
  <2> QED
    BY <1>1, <1>3, <1>4, <1>5, <2>1, <2>2 DEF NoOp
<1>12. \A b \in Participant : OpKeyload(b) => Books'
  <2> SUFFICES ASSUME NEW b \in Participant, OpKeyload(b) PROVE Books'
    OBVIOUS
  <2>1. op'.at = "keyloads" /\ op'.past = op.past \cup Sent /\ op'.batch = op.batch
    BY <1>1, OpGoing DEF OpMoves
  <2>2. /\ UNCHANGED <<states, cache>> /\ op.at = "keyloads"
        /\ status' = IF b = Author THEN status ELSE [status EXCEPT ![b] = "authorized"]
    BY DEF OpKeyload
  <2> QED
    BY <1>1, <1>3, <1>4, <1>5, <2>1, <2>2 DEF Participant
<1>13. OpRemove => Books'
  <2> SUFFICES ASSUME OpRemove PROVE Books'
    OBVIOUS
  <2>1. \E at \in {"subscription", "logs", "end"} : OpMoves(at, op.past, op.batch, op.pending)
    BY <1>1, OpGoing
  <2>2. /\ op'.at \in {"subscription", "logs", "end"} /\ op'.past = op.past /\ op'.batch = op.batch
        /\ op.at \in {"keyloads", "subscription", "logs"} /\ op.user \in User
    BY <1>1, <2>1 DEF OpMoves, OpRemove, Shape
  <2>3. Revoking => /\ status[op.user] \in {"authorized", "revoked"}
    BY DEF Access, Operation, Renewing
  <2>4. \A p \in Participant :
          /\ states'[p] \in {states[p], NoState} /\ cache'[p] \subseteq cache[p]
          /\ p \in User /\ status'[p] \in {"none", "requested"} =>
               status[p] \in {"none", "requested"} /\ cache'[p] = cache[p]
    BY <1>1, <2>2, <2>3 DEF OpRemove, Participant
  <2> QED
    BY <1>3, <1>4, <1>5, <2>2, <2>4
<1>14. OpEnd => Books'
  <2> SUFFICES ASSUME OpEnd PROVE Books'
    OBVIOUS
  <2>1. UNCHANGED <<cache, status>> /\ states' = [states EXCEPT ![Author] = op.past] /\ op' = NoOp
    BY DEF OpEnd
  <2> QED
    BY <1>1, <1>3, <1>4, <1>5, <2>1 DEF NoOp
<1> QED
  BY <1>6, <1>8, <1>9, <1>10, <1>11, <1>12, <1>13, <1>14

\* Every step keeps the books.
LEMMA NextBooks == Typed /\ Access /\ Books /\ [Next]_vars => Books'
<1> SUFFICES ASSUME Typed, Access, Books, [Next]_vars PROVE Books'
  OBVIOUS
<1>1. CASE UNCHANGED vars
  BY <1>1 DEF vars, tasks, subscriptions, history, Books, SentOnly, Held, MayRead, Sent
<1>2. CASE Next
  BY <1>2, BooksTask, BooksOp DEF Next
<1> QED
  BY <1>1, <1>2

-----------------------------------------------------------------------------
(* The stored logs.  What is stored together with what a call is about to  *)
(* store is, at every step of a call, what the state in memory is past.    *)

\* What somebody may miss: the author what is sent while it authorizes or
\* revokes.
Slack(p) == IF p = Author THEN overlapped ELSE {}

\* The logs in C are those of X that p is to have.
Fits(p, C, X) ==
  IF MayRead(p)
  THEN /\ C \subseteq X /\ C \subseteq Readable(p) \cup Own(p)
       /\ \A m \in X : m \in Readable(p) => m \in C \/ m \in Slack(p)
  ELSE C = Own(p) /\ C \subseteq X

\* No call stopped half-way, or the reimport that makes good for it is at work.
Kept(p) ==
  /\ p \in User => status[p] # "revoked"
  /\ p \in faulted => task[p].call = "reimport" /\ task[p].at \in {"fetch", "save", "store"}

Stage(p) ==
  Kept(p) =>
    /\ At(p, "idle") /\ (p = Author => op.at = "idle") /\ states[p] # NoState =>
         Fits(p, cache[p], states[p])
    /\ task[p].at \notin {"idle", "reset"} => Fits(p, cache[p] \cup task[p].batch, task[p].past)
    /\ task[p].at \in {"save", "store"} => cache[p] \cap task[p].batch = {}
    /\ At(p, "store") => states[p] \in {task[p].past, NoState}
    /\ At(p, "saveOwn") => task[p].batch \subseteq cache[p]

\* The author's operation fetches as a call does, and goes on without what is
\* sent meanwhile.
OpStage ==
  op.at # "idle" /\ Author \notin faulted =>
    /\ Fits(Author, cache[Author] \cup op.batch, op.past)
    /\ op.at \in {"save", "store"} => cache[Author] \cap op.batch = {}
    /\ op.at # "fetch" => \A m \in Sent : m \in op.past \/ m \in overlapped

Stages == OpStage /\ \A p \in Participant : Stage(p)

\* Nobody has anything, and there is nothing to have.
LEMMA InitStages == Init => Stages
BY NoStateAssumption DEF Init, Stages, OpStage, Stage, Fits, At, Idle, NoOp, Own, Readable, Sent, Participant

\* A message somebody sends is nothing that others have or miss.
LEMMA FitsKept ==
  ASSUME Typed, NEW p \in Participant, NEW C, NEW X, C \subseteq Sent, X \subseteq Sent,
         Fits(p, C, X), overlapped \subseteq overlapped',
         UNCHANGED tangle \/ \E q \in Participant : Publish(q) /\ (q # p \/ MayRead(p))
  PROVE  Fits(p, C, X)'
<1>1. CASE UNCHANGED tangle
  BY <1>1 DEF Fits, MayRead, Readable, Own, Sent, Slack
<1>2. CASE \E q \in Participant : Publish(q) /\ (q # p \/ MayRead(p))
  <2>1. /\ Readable(p)' \cap Sent = Readable(p) /\ Own(p)' \cap Sent = Own(p)
        /\ MayRead(p) \/ Own(p)' = Own(p)
    BY <1>2, Grown
  <2>2. Slack(p) \subseteq Slack(p)' /\ (MayRead(p)' <=> MayRead(p))
    BY DEF Slack, MayRead
  <2> QED
    BY <2>1, <2>2 DEF Fits
<1> QED
  BY <1>1, <1>2

\* A step of a call is only about what its participant has.
LEMMA StagesFrame ==
  ASSUME Typed, Books, Stages, NEW p \in Participant,
         UNCHANGED <<status, op>>, op.at # "idle" => p # Author,
         \A q \in Participant : q # p =>
           task'[q] = task[q] /\ cache'[q] = cache[q] /\ states'[q] = states[q]
             /\ (q \in faulted' <=> q \in faulted),
         UNCHANGED <<tangle, overlapped>> \/ Publish(p),
         Stage(p)'
  PROVE  Stages'
<1>1. overlapped \subseteq overlapped'
  BY DEF Publish
<1>2. ASSUME NEW q \in Participant, NEW C, NEW X, C \subseteq Sent, X \subseteq Sent, Fits(q, C, X), q # p
      PROVE  Fits(q, C, X)'
  BY <1>1, <1>2, FitsKept
<1>3. ASSUME NEW q \in Participant, q # p
      PROVE  Stage(q)'
  <2>1. /\ task'[q] = task[q] /\ cache'[q] = cache[q] /\ states'[q] = states[q] /\ (Kept(q)' <=> Kept(q))
    BY <1>3 DEF Kept
  <2>2. /\ cache[q] \subseteq Sent /\ cache[q] \cup task[q].batch \subseteq Sent /\ task[q].past \subseteq Sent
        /\ states[q] # NoState => states[q] \subseteq Sent
    BY DEF Books, SentOnly
  <2>3. Stage(q)
    BY DEF Stages
  <2>4. Kept(q) => /\ At(q, "idle") /\ (q = Author => op.at = "idle") /\ states[q] # NoState =>
                        Fits(q, cache[q], states[q])'
                   /\ task[q].at \notin {"idle", "reset"} => Fits(q, cache[q] \cup task[q].batch, task[q].past)'
    <3> DEFINE C1 == cache[q]
               C2 == cache[q] \cup task[q].batch
               X1 == states[q]
               X2 == task[q].past
    <3>1. Fits(q, C1, X1) /\ X1 # NoState => Fits(q, C1, X1)'
      BY <1>2, <1>3, <2>1, <2>2
    <3>2. Fits(q, C2, X2) => Fits(q, C2, X2)'
      BY <1>2, <1>3, <2>1, <2>2
    <3> QED
      BY <2>3, <3>1, <3>2 DEF Stage
  <2> QED
    BY <2>1, <2>3, <2>4 DEF Stage, At
<1>4. OpStage'
  <2>1. CASE op.at = "idle"
    BY <2>1 DEF OpStage
  <2>2. CASE op.at # "idle" /\ Author \notin faulted
    <3>1. /\ cache'[Author] = cache[Author] /\ Author # p /\ Author \in Participant
      BY <2>2 DEF Participant
    <3>2. cache[Author] \cup op.batch \subseteq Sent /\ op.past \subseteq Sent
      BY <3>1 DEF Books, SentOnly
    <3>3. Fits(Author, cache[Author] \cup op.batch, op.past)
      BY <2>2 DEF Stages, OpStage
    <3> DEFINE C == cache[Author] \cup op.batch
               X == op.past
    <3>4. Fits(Author, C, X)'
      BY <1>2, <3>1, <3>2, <3>3
    <3>5. op.at # "fetch" => \A m \in Sent' : m \in op.past \/ m \in overlapped'
      <4>1. CASE UNCHANGED <<tangle, overlapped>>
        BY <2>2, <4>1 DEF Stages, OpStage, Sent
      <4>2. CASE Publish(p)
        <5>1. Sent' = Sent \cup {Len(tangle) + 1} /\ overlapped' = overlapped \cup {Len(tangle) + 1}
          BY <2>2, <4>2, Grown DEF Publish
        <5> QED
          BY <2>2, <5>1 DEF Stages, OpStage
      <4> QED
        BY <4>1, <4>2
    <3> QED
      BY <2>2, <3>1, <3>4, <3>5 DEF Stages, OpStage
  <2>3. CASE op.at # "idle" /\ Author \in faulted
    BY <2>3 DEF OpStage, Participant
  <2> QED
    BY <2>1, <2>2, <2>3
<1> QED
  BY <1>3, <1>4 DEF Stages

\* Steps of a call: the state and the logs go together again in the end.
LEMMA StagesTask ==
  ASSUME Typed, Access, Books, Stages, NEW p \in Participant,
         GetLogs(p) \/ AddLog(p) \/ Reimport(p) \/ Reset(p) \/ Fetch(p) \/ Save(p)
           \/ Store(p) \/ Publish(p) \/ StoreOwn(p) \/ SaveOwn(p) \/ Fail(p)
  PROVE  Stages'
<1> USE DEF subscriptions, history
<1>1. /\ TypeOK /\ task[p] \in TaskType
      /\ states \in [Participant -> (SUBSET Link) \cup {NoState}] /\ cache \in [Participant -> SUBSET Link]
  BY Types DEF Typed
<1>2. UNCHANGED <<status, op>> /\ (UNCHANGED <<tangle, overlapped>> \/ Publish(p))
  BY DEF GetLogs, AddLog, Reimport, Begin, Reset, Fetch, Save, Store, Publish, StoreOwn, SaveOwn, Fail
<1>3. op.at # "idle" => p # Author
  BY DEF Typed, Shape, At, GetLogs, AddLog, Reimport, Begin, ChannelLockFree, Reset, Fetch, Save,
         Store, Publish, StoreOwn, SaveOwn, Fail
<1>4. ASSUME \A q \in Participant : q # p => /\ task'[q] = task[q] /\ cache'[q] = cache[q] /\ states'[q] = states[q]
                                             /\ (q \in faulted' <=> q \in faulted),
             Stage(p)'
      PROVE  Stages'
  BY <1>2, <1>3, <1>4, StagesFrame
<1>5. Stage(p) /\ SentOnly(p) /\ Held(p)
  BY DEF Stages, Books
<1>6. ASSUME UNCHANGED <<tangle, overlapped>>, NEW C, NEW X
      PROVE  /\ Fits(p, C, X) => Fits(p, C, X)'
             /\ Readable(p)' = Readable(p) /\ Own(p)' = Own(p)
  BY <1>6 DEF Fits, MayRead, Readable, Own, Sent, Slack
<1>7. ASSUME NEW call \in Call, Begin(p, call), call = "reimport" => MayRead(p)
      PROVE  Stages'
  <2>1. Begins(p, call)
    BY <1>1, <1>7, Starting
  <2>2. UNCHANGED <<tangle, states, cache, op, faulted, overlapped, status>>
    BY <1>7 DEF Begin
  <2>3. At(p, "idle") /\ states[p] # NoState /\ (p = Author => op.at = "idle")
    BY <1>7 DEF Begin, ChannelLockFree
  <2>4. CASE call = "reimport"
    BY <1>4, <2>1, <2>2, <2>4 DEF Stage, Kept, Begins, At
  <2>5. CASE call # "reimport"
    <3>1. Kept(p)' => Kept(p)
      BY <2>1, <2>2, <2>5 DEF Kept, Begins
    <3>2. Kept(p) => Fits(p, cache[p], states[p])
      BY <1>5, <2>3 DEF Stage
    <3> DEFINE C == cache[p]
               X == states[p]
    <3>3. Kept(p) => Fits(p, C, X)'
      BY <1>6, <2>2, <3>2
    <3>4. C = cache'[p] \cup task'[p].batch /\ X = task'[p].past /\ task'[p].at = "fetch"
      BY <2>1, <2>2, <2>5 DEF Begins
    <3>5. Stage(p)'
      BY <2>2, <3>1, <3>3, <3>4 DEF Stage, At
    <3> QED
      BY <1>4, <2>1, <2>2, <3>5 DEF Begins
  <2> QED
    BY <2>4, <2>5
<1>8. GetLogs(p) \/ AddLog(p) \/ Reimport(p) => Stages'
  BY <1>7 DEF GetLogs, AddLog, Reimport, Call
<1>9. Reset(p) => Stages'
  <2> SUFFICES ASSUME Reset(p) PROVE Stages'
    OBVIOUS
  <2>1. Moves(p, "fetch", {}, task[p].batch)
    BY <1>1, Going
  <2>2. /\ At(p, "reset") /\ cache' = [cache EXCEPT ![p] = {}]
        /\ UNCHANGED <<tangle, states, op, faulted, overlapped, status>>
    BY DEF Reset
  <2>3. task[p].batch = {} /\ MayRead(p)
    BY <1>5, <2>2 DEF Held, At
  <2>4. /\ task'[p].at = "fetch" /\ task'[p].past = {} /\ cache'[p] = {} /\ task'[p].batch = {}
    BY <1>1, <2>1, <2>2, <2>3 DEF Moves
  <2>5. Fits(p, {}, {})'
    BY <2>3 DEF Fits, MayRead
  <2>6. Fits(p, cache[p] \cup task[p].batch, task[p].past)'
    BY <2>4, <2>5
  <2>7. Stage(p)'
    BY <2>4, <2>6 DEF Stage, At
  <2> QED
    BY <1>1, <1>4, <2>1, <2>2, <2>7 DEF Moves
<1>10. Fetch(p) => Stages'
  <2> SUFFICES ASSUME Fetch(p) PROVE Stages'
    OBVIOUS
  <2>1. Moves(p, IF MayRead(p) THEN "save" ELSE "publish", task[p].past \cup Sent,
              IF MayRead(p) THEN Unread(p, task[p].past) ELSE {})
    BY <1>1, Going
  <2>2. /\ At(p, "fetch") /\ UNCHANGED <<tangle, states, cache, op, faulted, overlapped, status>>
    BY DEF Fetch
  <2>3. task[p].batch = {} /\ (Kept(p)' => Kept(p))
    BY <1>5, <2>1, <2>2 DEF Held, At, Kept, Moves
  <2>4. Kept(p) => Fits(p, cache[p], task[p].past)
    BY <1>5, <2>2, <2>3 DEF Stage, At
  <2> DEFINE C == task'[p].batch \cup cache[p]
             X == task[p].past \cup Sent
  <2>5. Kept(p) => Fits(p, C, X) /\ (MayRead(p) => cache[p] \cap task'[p].batch = {})
    <3>1. CASE MayRead(p)
      <4>1. C = cache[p] \cup (Readable(p) \ task[p].past) /\ task'[p].batch = Readable(p) \ task[p].past
        BY <2>1, <3>1 DEF Moves, Unread
      <4> QED
        BY <2>4, <3>1, <4>1 DEF Fits, Readable
    <3>2. CASE ~MayRead(p)
      BY <2>1, <2>4, <3>2 DEF Fits, Moves
    <3> QED
      BY <3>1, <3>2
  <2>6. ASSUME Kept(p)
        PROVE  Fits(p, cache[p] \cup task[p].batch, task[p].past)'
    <3> DEFINE D == cache'[p] \cup task'[p].batch
               Y == task'[p].past
    <3>1. D = C /\ Y = X
      BY <2>1, <2>2 DEF Moves
    <3>2. Fits(p, D, Y)
      BY <2>5, <2>6, <3>1
    <3> HIDE DEF D, Y
    <3>3. /\ MayRead(p)' = MayRead(p) /\ Readable(p)' = Readable(p) /\ Own(p)' = Own(p) /\ Slack(p)' = Slack(p)
      BY <2>2 DEF MayRead, Readable, Own, Sent, Slack
    <3>4. /\ MayRead(p) => /\ D \subseteq Y /\ D \subseteq Readable(p)' \cup Own(p)'
                           /\ \A m \in Y : m \in Readable(p)' => m \in D \/ m \in Slack(p)'
          /\ ~MayRead(p) => D = Own(p)' /\ D \subseteq Y
      BY <3>2, <3>3 DEF Fits
    <3> QED
      BY <3>3, <3>4 DEF Fits, D, Y
  <2>7. Stage(p)'
    BY <2>1, <2>2, <2>3, <2>5, <2>6 DEF Stage, At, Moves
  <2> QED
    BY <1>4, <2>1, <2>2, <2>7 DEF Moves
<1>11. task[p].at \in {"save", "store", "publish", "storeOwn", "saveOwn"} /\ Kept(p) =>
         Fits(p, cache[p] \cup task[p].batch, task[p].past)
  BY <1>5 DEF Stage
<1>12. AfterFetch(p) =>
         /\ \A q \in Participant : q # p => task'[q] = task[q] /\ (q \in faulted' <=> q \in faulted)
         /\ task'[p].batch = {}
         /\ \/ task'[p].at = "publish" /\ task'[p].past = task[p].past /\ task'[p].call = "add"
               /\ UNCHANGED faulted
            \/ task'[p].at = "idle" /\ task'[p].call = "none"
               /\ faulted' = IF task[p].call = "reimport" THEN faulted \ {p} ELSE faulted
  <2>1. AfterFetch(p) => /\ task[p].call = "add" => Moves(p, "publish", task[p].past, {})
                         /\ task[p].call # "add" => Ends(p)
    BY <1>1, Going, Ending DEF AfterFetch
  <2> QED
    BY <2>1 DEF Moves, Ends, AfterFetch
<1>13. Broken(p) => /\ \A q \in Participant : q # p => task'[q] = task[q] /\ (q \in faulted' <=> q \in faulted)
                    /\ p \in faulted' /\ task'[p].call = "none"
  BY <1>1, Ending DEF Broken, Ends
<1>14. Broken(p) => ~Kept(p)' /\ Stage(p)'
  BY <1>13 DEF Kept, Stage
<1>15. Save(p) => Stages'
  <2> SUFFICES ASSUME Save(p) PROVE Stages'
    OBVIOUS
  <2>1. At(p, "save") /\ UNCHANGED <<tangle, cache, status, op, overlapped>>
    BY DEF Save
  <2>2. CASE states[p] = NoState
    BY <1>4, <1>13, <1>14, <2>2 DEF Save
  <2>3. CASE states[p] # NoState
    <3>1. /\ states' = [states EXCEPT ![p] = task[p].past]
          /\ IF task[p].batch = {} THEN AfterFetch(p) ELSE Proceed(p, "store") /\ UNCHANGED faulted
      BY <2>3 DEF Save
    <3>2. states'[p] = task[p].past /\ \A q \in Participant : q # p => states'[q] = states[q]
      BY <1>1, <3>1
    <3> DEFINE C == cache[p] \cup task[p].batch
               X == task[p].past
    <3>3. Kept(p) => Fits(p, C, X)
      BY <1>11, <2>1 DEF At
    <3>4. ASSUME NEW D, NEW Y, D = C, Y = X, Kept(p)
          PROVE  Fits(p, D, Y)'
      BY <1>6, <2>1, <3>3, <3>4
    <3>5. CASE task[p].batch = {}
      <4>1. AfterFetch(p)
        BY <3>1, <3>5
      <4>2. Kept(p)' => Kept(p)
        BY <1>12, <2>1, <4>1 DEF Kept, At
      <4>3. Kept(p) => /\ task'[p].at = "idle" => Fits(p, cache[p], states[p])'
                       /\ task'[p].at = "publish" => Fits(p, cache[p] \cup task[p].batch, task[p].past)'
        <5>1. cache'[p] = C /\ states'[p] = X
          BY <2>1, <3>2, <3>5
        <5>2. cache'[p] \cup task'[p].batch = C /\ (task'[p].at = "publish" => task'[p].past = X)
          BY <1>12, <2>1, <3>5, <4>1
        <5> HIDE DEF C, X
        <5> QED
          BY <3>4, <5>1, <5>2
      <4>4. Stage(p)'
        BY <1>12, <4>1, <4>2, <4>3 DEF Stage, At
      <4> QED
        BY <1>4, <1>12, <2>1, <3>2, <4>1, <4>4
    <3>6. CASE task[p].batch # {}
      <4>1. Moves(p, "store", task[p].past, task[p].batch) /\ UNCHANGED faulted
        BY <1>1, <3>1, <3>6, Going DEF TaskAt
      <4>2. Kept(p)' => Kept(p)
        BY <2>1, <4>1 DEF Kept, At, Moves
      <4>3. Kept(p) => Fits(p, cache[p] \cup task[p].batch, task[p].past)'
        <5>1. cache'[p] \cup task'[p].batch = C /\ task'[p].past = X
          BY <2>1, <4>1 DEF Moves
        <5> HIDE DEF C, X
        <5> QED
          BY <3>4, <5>1
      <4>4. Kept(p) => cache[p] \cap task[p].batch = {}
        BY <1>5, <2>1 DEF Stage, At
      <4>5. Stage(p)'
        BY <2>1, <3>2, <4>1, <4>2, <4>3, <4>4 DEF Stage, At, Moves
      <4> QED
        BY <1>4, <2>1, <3>2, <4>1, <4>5 DEF Moves
    <3> QED
      BY <3>5, <3>6
  <2> QED
    BY <2>2, <2>3
<1>16. Store(p) => Stages'
  <2> SUFFICES ASSUME Store(p) PROVE Stages'
    OBVIOUS
  <2>1. At(p, "store") /\ UNCHANGED <<tangle, states, status, op, overlapped>>
    BY DEF Store
  <2>2. PICK S \in SUBSET task[p].batch :
          Inserted(task[p].batch, cache[p], S) /\ cache' = [cache EXCEPT ![p] = @ \cup S]
    BY DEF Store
  <2>3. cache'[p] = cache[p] \cup S /\ \A q \in Participant : q # p => cache'[q] = cache[q]
    BY <1>1, <2>2
  <2>4. CASE Broken(p)
    BY <1>4, <1>13, <1>14, <2>1, <2>3, <2>4
  <2>5. CASE task[p].batch \cap cache[p] = {} /\ AfterFetch(p)
    <3> DEFINE C == cache[p] \cup task[p].batch
               X == task[p].past
    <3>1. Kept(p) => Fits(p, C, X) /\ states[p] \in {X, NoState}
      BY <1>5, <1>11, <2>1 DEF At, Stage
    <3>2. ASSUME NEW D, NEW Y, D = C, Y = X, Kept(p)
          PROVE  Fits(p, D, Y)'
      BY <1>6, <2>1, <3>1, <3>2
    <3>3. Kept(p)' => Kept(p)
      BY <1>12, <2>1, <2>5 DEF Kept, At
    <3>4. cache'[p] = C
      BY <2>2, <2>3, <2>5 DEF Inserted
    <3>5. Kept(p) => /\ task'[p].at = "idle" /\ states'[p] # NoState => Fits(p, cache[p], states[p])'
                     /\ task'[p].at = "publish" => Fits(p, cache[p] \cup task[p].batch, task[p].past)'
      <4>1. Kept(p) /\ states'[p] # NoState => states'[p] = X
        BY <2>1, <3>1
      <4>2. cache'[p] \cup task'[p].batch = C /\ (task'[p].at = "publish" => task'[p].past = X)
        BY <1>12, <2>5, <3>4
      <4> HIDE DEF C, X
      <4> QED
        BY <3>2, <3>4, <4>1, <4>2
    <3>6. Stage(p)'
      BY <1>12, <2>5, <3>3, <3>5 DEF Stage, At
    <3> QED
      BY <1>4, <1>12, <2>1, <2>3, <2>5, <3>6
  <2> QED
    BY <2>4, <2>5 DEF Store
<1>17. Publish(p) => Stages'
  <2> SUFFICES ASSUME Publish(p) PROVE Stages'
    OBVIOUS
  <2> DEFINE n == Len(tangle) + 1
             C == cache[p] \cup task[p].batch
             X == task[p].past
  <2>1. Moves(p, "storeOwn", X \cup {n}, {n})
    BY <1>1, Going
  <2>2. At(p, "publish") /\ UNCHANGED <<states, cache, status, op, faulted>>
    BY DEF Publish
  <2>3. task[p].batch = {} /\ C \subseteq Sent /\ X \subseteq Sent
    BY <1>5, <2>2 DEF Held, At, SentOnly
  <2>4. Kept(p)' => Kept(p)
    BY <2>1, <2>2 DEF Kept, At, Moves
  <2>5. Kept(p) => Fits(p, C, X)
    BY <1>11, <2>2 DEF At
  <2>6. /\ Readable(p)' \cap Sent = Readable(p) /\ Own(p)' = Own(p) \cup {n} /\ Own(p)' \cap Sent = Own(p)
    BY Grown
  <2>7. Slack(p) \subseteq Slack(p)' /\ (MayRead(p)' <=> MayRead(p))
    BY DEF Slack, MayRead, Publish
  <2> DEFINE D == C \cup {n}
             Y == X \cup {n}
  <2>8. ASSUME Kept(p)
        PROVE  /\ MayRead(p) => /\ D \subseteq Y /\ D \subseteq Readable(p)' \cup Own(p)'
                                /\ \A m \in Y : m \in Readable(p)' => m \in D \/ m \in Slack(p)'
               /\ ~MayRead(p) => D = Own(p)' /\ D \subseteq Y
    <3> HIDE DEF n, C, X
    <3>1. CASE MayRead(p)
      <4>1. /\ C \subseteq X /\ C \subseteq Readable(p) \cup Own(p)
            /\ \A m \in X : m \in Readable(p) => m \in C \/ m \in Slack(p)
        BY <2>5, <2>8, <3>1 DEF Fits
      <4> QED
        BY <2>3, <2>6, <2>7, <3>1, <4>1
    <3>2. CASE ~MayRead(p)
      BY <2>5, <2>6, <2>8, <3>2 DEF Fits
    <3> QED
      BY <3>1, <3>2
  <2>9. cache'[p] \cup task'[p].batch = D /\ task'[p].past = Y
    BY <2>1, <2>2, <2>3 DEF Moves
  <2>10. Kept(p) => Fits(p, cache[p] \cup task[p].batch, task[p].past)'
    <3> HIDE DEF D, Y
    <3> QED
      BY <2>7, <2>8, <2>9 DEF Fits
  <2>11. Stage(p)'
    BY <2>1, <2>4, <2>10 DEF Stage, At, Moves
  <2> QED
    BY <1>4, <2>1, <2>2, <2>11 DEF Moves
<1>18. StoreOwn(p) => Stages'
  <2> SUFFICES ASSUME StoreOwn(p) PROVE Stages'
    OBVIOUS
  <2> DEFINE C == cache[p] \cup task[p].batch
             X == task[p].past
  <2>1. Moves(p, "saveOwn", task[p].past, task[p].batch)
    BY <1>1, Going DEF StoreOwn, TaskAt
  <2>2. /\ At(p, "storeOwn") /\ UNCHANGED <<tangle, states, status, op, faulted, overlapped>>
        /\ cache' = [cache EXCEPT ![p] = @ \cup task[p].batch]
    BY DEF StoreOwn
  <2>3. Kept(p)' => Kept(p)
    BY <2>1, <2>2 DEF Kept, At, Moves
  <2>4. cache'[p] = C /\ cache'[p] \cup task'[p].batch = C /\ task'[p].past = X
    BY <1>1, <2>1, <2>2 DEF Moves
  <2>5. Kept(p) => Fits(p, C, X)
    BY <1>11, <2>2 DEF At
  <2>6. Kept(p) => Fits(p, cache[p] \cup task[p].batch, task[p].past)'
    <3>1. ASSUME NEW D, NEW Y, D = C, Y = X, Kept(p)
          PROVE  Fits(p, D, Y)'
      BY <1>6, <2>2, <2>5, <3>1
    <3> HIDE DEF C, X
    <3> QED
      BY <2>4, <3>1
  <2>7. Stage(p)'
    BY <2>1, <2>3, <2>4, <2>6 DEF Stage, At, Moves
  <2> QED
    BY <1>1, <1>4, <2>1, <2>2, <2>7 DEF Moves
<1>19. SaveOwn(p) => Stages'
  <2> SUFFICES ASSUME SaveOwn(p) PROVE Stages'
    OBVIOUS
  <2>1. At(p, "saveOwn") /\ UNCHANGED <<tangle, cache, status, op, overlapped>>
    BY DEF SaveOwn
  <2>2. CASE Broken(p) /\ UNCHANGED states
    BY <1>4, <1>13, <1>14, <2>1, <2>2
  <2>3. CASE Ended(p) /\ UNCHANGED faulted /\ states' = [states EXCEPT ![p] = task[p].past]
    <3> DEFINE C == cache[p]
               X == task[p].past
    <3>1. Ends(p) /\ states'[p] = X /\ cache'[p] = C /\ \A q \in Participant : q # p => states'[q] = states[q]
      BY <1>1, <2>1, <2>3, Ending
    <3>2. Kept(p)' => Kept(p)
      BY <2>1, <2>3, <3>1 DEF Kept, Ends, At
    <3>3. Kept(p) => Fits(p, C, X)
      <4>1. Kept(p) => task[p].batch \subseteq cache[p]
        BY <1>5, <2>1 DEF Stage, At
      <4>2. Kept(p) => Fits(p, cache[p] \cup task[p].batch, X)
        BY <1>11, <2>1 DEF At
      <4>3. Kept(p) => cache[p] \cup task[p].batch = cache[p]
        BY <4>1
      <4> QED
        BY <4>2, <4>3
    <3>4. Kept(p) => Fits(p, cache[p], states[p])'
      <4>1. ASSUME NEW D, NEW Y, D = C, Y = X, Kept(p)
            PROVE  Fits(p, D, Y)'
        BY <1>6, <2>1, <3>3, <4>1
      <4> HIDE DEF C, X
      <4> QED
        BY <3>1, <4>1
    <3>5. Stage(p)'
      BY <3>1, <3>2, <3>4 DEF Stage, At, Ends
    <3> QED
      BY <1>4, <2>1, <2>3, <3>1, <3>5 DEF Ends
  <2> QED
    BY <2>2, <2>3 DEF SaveOwn
<1>20. Fail(p) => Stages'
  BY <1>4, <1>13, <1>14 DEF Fail
<1> QED
  BY <1>8, <1>9, <1>10, <1>15, <1>16, <1>17, <1>18, <1>19, <1>20

\* Requests and the author's operation: the author's own documents go together
\* again in the end, a revoked user's no longer matter.
LEMMA StagesOp ==
  ASSUME Typed, Access, Books, Stages,
         \/ \E u \in User : Request(u) \/ Authorize(u) \/ Revoke(u)
         \/ \E b \in Participant : OpKeyload(b)
         \/ OpFetch \/ OpSave \/ OpStore \/ OpRemove \/ OpEnd
  PROVE  Stages'
<1> USE DEF subscriptions, tasks, history
<1>1. /\ TypeOK /\ Shape /\ Author \in Participant /\ Author \notin User /\ op \in OpType
      /\ states \in [Participant -> (SUBSET Link) \cup {NoState}] /\ cache \in [Participant -> SUBSET Link]
      /\ status \in [User -> {"none", "requested", "authorized", "revoked"}]
      /\ task \in [Participant -> TaskType] /\ states[Author] # NoState /\ MayRead(Author)
  BY Types, AuthorAssumption DEF Typed, Shape, Participant, MayRead
<1>2. UNCHANGED <<tangle, task, overlapped>>
  BY DEF Request, Authorize, Revoke, BeginOp, OpKeyload, OpFetch, OpSave, OpStore, OpRemove, OpEnd
<1>3. ASSUME NEW p \in Participant, NEW C, NEW X, Fits(p, C, X)
      PROVE  Fits(p, C, X)'
  BY <1>2, <1>3 DEF Fits, MayRead, Readable, Own, Sent, Slack
<1>4. OpStage /\ \A p \in Participant : Stage(p)
  BY DEF Stages
<1>5. ASSUME NEW p \in Participant, Kept(p)' => Kept(p),
             UNCHANGED <<cache[p], states[p]>>, p = Author /\ op'.at = "idle" => op.at = "idle"
      PROVE  Stage(p)'
  <2> DEFINE C1 == cache[p]
             C2 == cache[p] \cup task[p].batch
             X1 == states[p]
             X2 == task[p].past
  <2>1. (Fits(p, C1, X1) => Fits(p, C1, X1)') /\ (Fits(p, C2, X2) => Fits(p, C2, X2)')
    BY <1>2, <1>3, <1>5
  <2> QED
    BY <1>2, <1>4, <1>5, <2>1 DEF Stage, At
<1>6. op.at # "idle" => At(Author, "idle") /\ op.user \in User
  BY <1>1 DEF Shape
<1>7. ASSUME op.at # "idle", Kept(Author), UNCHANGED faulted
      PROVE  Author \notin faulted
  BY <1>6, <1>7 DEF Kept, At
<1>8. ASSUME op'.at # "idle", op.at # "idle"
      PROVE  Stage(Author)'
  BY <1>2, <1>6, <1>8 DEF Stage, At
<1>9. \A u \in User : Request(u) => Stages'
  <2> SUFFICES ASSUME NEW u \in User, Request(u) PROVE Stages'
    OBVIOUS
  <2>1. /\ status[u] = "none" /\ status' = [status EXCEPT ![u] = "requested"]
        /\ states' = [states EXCEPT ![u] = {}] /\ UNCHANGED <<cache, op, faulted>>
    BY DEF Request
  <2>2. u \in Participant /\ u # Author /\ states'[u] = {}
        /\ \A p \in Participant : p # u => states'[p] = states[p]
    BY <1>1, <2>1 DEF Participant
  <2>3. At(u, "idle") /\ cache[u] = {}
    BY <2>1, <2>2 DEF Access, Calls, Named, Books, Held
  <2>4. Own(u) = {}
    BY <2>1 DEF Access, Messages, Named, Own
  <2>5. Fits(u, {}, {})
    BY <2>4 DEF Fits
  <2>6. Fits(u, cache[u], states[u])'
    <3>1. Fits(u, {}, {})'
      BY <1>3, <2>2, <2>5
    <3>2. cache'[u] = {} /\ states'[u] = {}
      BY <2>1, <2>2, <2>3
    <3> QED
      BY <3>1, <3>2
  <2>7. Stage(u)'
    BY <1>2, <2>3, <2>6 DEF Stage, At
  <2>8. \A p \in Participant : p # u => Stage(p)'
    <3> SUFFICES ASSUME NEW p \in Participant, p # u PROVE Stage(p)'
      OBVIOUS
    <3>1. Kept(p)' => Kept(p)
      BY <1>1, <1>2, <2>1 DEF Kept
    <3> QED
      BY <1>5, <2>1, <2>2, <3>1
  <2>9. OpStage'
    <3> DEFINE C == cache[Author] \cup op.batch
               X == op.past
    <3>1. Fits(Author, C, X) => Fits(Author, C, X)'
      BY <1>1, <1>3, <2>1
    <3> QED
      BY <1>2, <1>4, <2>1, <3>1 DEF OpStage, Sent
  <2> QED
    BY <2>7, <2>8, <2>9 DEF Stages
<1>10. ASSUME UNCHANGED <<cache, states, status, faulted>>, op'.at # "idle"
       PROVE  \A p \in Participant : Stage(p)'
  <2>1. \A p \in Participant : Kept(p)' => Kept(p)
    BY <1>2, <1>10 DEF Kept
  <2> QED
    BY <1>5, <1>10, <2>1
<1>11. \A u \in User : Authorize(u) \/ Revoke(u) => Stages'
  <2> SUFFICES ASSUME NEW u \in User, Authorize(u) \/ Revoke(u) PROVE Stages'
    OBVIOUS
  <2>1. \E call \in {"authorize", "revoke"}, keys \in SUBSET Participant, pending \in SUBSET Participant :
          BeginOp(call, u, keys, pending)
    BY <1>1 DEF Authorize, Revoke, KeysWith, KeysWithout, Readers, Participant
  <2>2. op'.at = "fetch" /\ op'.past = states[Author] /\ op'.batch = {}
    BY <1>1, <2>1, OpStarting
  <2>3. UNCHANGED <<states, cache, status, faulted>> /\ op = NoOp /\ At(Author, "idle")
    BY DEF Authorize, Revoke, BeginOp
  <2>4. Author \notin faulted => Fits(Author, cache[Author], states[Author])
    BY <1>1, <1>4, <2>3 DEF Stage, Kept, NoOp
  <2>5. OpStage'
    <3> DEFINE C == cache[Author]
               X == states[Author]
    <3>1. ASSUME NEW D, NEW Y, D = C, Y = X, Author \notin faulted
          PROVE  Fits(Author, D, Y)'
      BY <1>1, <1>3, <2>4, <3>1
    <3>2. cache'[Author] \cup op'.batch = C /\ op'.past = X
      BY <2>2, <2>3
    <3> HIDE DEF C, X
    <3>3. Author \notin faulted => Fits(Author, cache[Author] \cup op.batch, op.past)'
      BY <3>1, <3>2
    <3> QED
      BY <2>2, <2>3, <3>3 DEF OpStage
  <2> QED
    BY <1>10, <2>2, <2>3, <2>5 DEF Stages
<1>12. OpFetch => Stages'
  <2> SUFFICES ASSUME OpFetch PROVE Stages'
    OBVIOUS
  <2>1. /\ op'.at = IF Unread(Author, op.past) = {} THEN "keyloads" ELSE "save"
        /\ op'.past = op.past \cup Sent /\ op'.batch = Unread(Author, op.past)
    BY <1>1, OpGoing DEF OpMoves
  <2>2. UNCHANGED <<states, cache, status, faulted>> /\ op.at = "fetch" /\ op.batch = {}
    BY DEF OpFetch, Books
  <2> DEFINE C == cache[Author] \cup (Readable(Author) \ op.past)
             X == op.past \cup Sent
  <2>3. Author \notin faulted => Fits(Author, C, X) /\ cache[Author] \cap (Readable(Author) \ op.past) = {}
    BY <1>1, <1>4, <2>2 DEF OpStage, Fits, Readable
  <2>4. OpStage'
    <3>1. ASSUME NEW D, NEW Y, D = C, Y = X, Author \notin faulted
          PROVE  Fits(Author, D, Y)'
      BY <1>1, <1>3, <2>3, <3>1
    <3>2. cache'[Author] \cup op'.batch = C /\ op'.past = X /\ op'.batch = Readable(Author) \ op.past
      BY <2>1, <2>2 DEF Unread
    <3> HIDE DEF C
    <3>3. Author \notin faulted => Fits(Author, cache[Author] \cup op.batch, op.past)'
      BY <3>1, <3>2
    <3>4. \A m \in Sent' : m \in op'.past
      BY <1>2, <3>2 DEF Sent
    <3> QED
      BY <2>2, <2>3, <3>2, <3>3, <3>4 DEF OpStage
  <2> QED
    BY <1>10, <2>1, <2>2, <2>4 DEF Stages
<1>13. OpSave => Stages'
  <2> SUFFICES ASSUME OpSave PROVE Stages'
    OBVIOUS
  <2>1. op'.at = "store" /\ op'.past = op.past /\ op'.batch = op.batch
    BY <1>1, OpGoing DEF OpMoves
  <2>2. /\ UNCHANGED <<cache, status, faulted>> /\ op.at = "save"
        /\ states' = [states EXCEPT ![Author] = op.past]
    BY DEF OpSave
  <2>3. \A p \in Participant : p # Author => states'[p] = states[p]
    BY <1>1, <2>2
  <2>4. \A p \in Participant : p # Author => Stage(p)'
    <3> SUFFICES ASSUME NEW p \in Participant, p # Author PROVE Stage(p)'
      OBVIOUS
    <3>1. Kept(p)' => Kept(p)
      BY <1>2, <2>2 DEF Kept
    <3> QED
      BY <1>5, <2>2, <2>3, <3>1
  <2>5. OpStage'
    <3> DEFINE C == cache[Author] \cup op.batch
               X == op.past
    <3>1. Fits(Author, C, X) => Fits(Author, C, X)'
      BY <1>1, <1>3, <2>1, <2>2
    <3> QED
      BY <1>2, <1>4, <2>1, <2>2, <3>1 DEF OpStage, Sent
  <2> QED
    BY <1>8, <2>1, <2>2, <2>4, <2>5 DEF Stages
<1>14. OpStore => Stages'
  <2> SUFFICES ASSUME OpStore PROVE Stages'
    OBVIOUS
  <2>1. UNCHANGED <<states, status>> /\ op.at = "store"
    BY DEF OpStore
  <2>2. PICK S \in SUBSET op.batch :
          Inserted(op.batch, cache[Author], S) /\ cache' = [cache EXCEPT ![Author] = @ \cup S]
    BY DEF OpStore
  <2>3. cache'[Author] = cache[Author] \cup S /\ \A p \in Participant : p # Author => cache'[p] = cache[p]
    BY <1>1, <2>2
  <2>4. \A p \in Participant : p # Author => Stage(p)'
    <3> SUFFICES ASSUME NEW p \in Participant, p # Author PROVE Stage(p)'
      OBVIOUS
    <3>1. Kept(p)' => Kept(p)
      BY <1>2, <2>1 DEF Kept, OpStore
    <3> QED
      BY <1>5, <2>1, <2>3, <3>1
  <2>5. CASE op.batch \cap cache[Author] = {}
    <3>1. op'.at = "keyloads" /\ op'.past = op.past /\ op'.batch = {} /\ UNCHANGED faulted
      BY <1>1, <2>5, OpGoing DEF OpMoves, OpStore
    <3>2. cache'[Author] = cache[Author] \cup op.batch
      BY <2>2, <2>3, <2>5 DEF Inserted
    <3>3. OpStage'
      <4> DEFINE C == cache[Author] \cup op.batch
                 X == op.past
      <4>1. Author \notin faulted => Fits(Author, C, X)
        BY <1>4, <2>1 DEF OpStage
      <4>2. ASSUME NEW D, NEW Y, D = C, Y = X, Author \notin faulted
            PROVE  Fits(Author, D, Y)'
        BY <1>1, <1>3, <4>1, <4>2
      <4>3. cache'[Author] \cup op'.batch = C /\ op'.past = X
        BY <3>1, <3>2
      <4> HIDE DEF C, X
      <4>4. Author \notin faulted => Fits(Author, cache[Author] \cup op.batch, op.past)'
        BY <4>2, <4>3
      <4> QED
        BY <1>2, <1>4, <2>1, <3>1, <4>4 DEF OpStage, Sent
    <3> QED
      BY <1>8, <2>1, <2>4, <3>1, <3>3 DEF Stages
  <2>6. CASE op.batch \cap cache[Author] # {}
    <3>1. op' = NoOp /\ Author \in faulted'
      BY <1>1, <2>6 DEF OpStore
    <3>2. ~Kept(Author)'
      BY <1>2, <1>6, <2>1, <3>1 DEF Kept, At
    <3> QED
      BY <2>4, <3>1, <3>2 DEF Stages, Stage, OpStage, NoOp
  <2> QED
    BY <2>5, <2>6
<1>15. \A b \in Participant : OpKeyload(b) => Stages'
  <2> SUFFICES ASSUME NEW b \in Participant, OpKeyload(b) PROVE Stages'
    OBVIOUS
  <2>1. op'.at = "keyloads" /\ op'.past = op.past \cup Sent /\ op'.batch = op.batch
    BY <1>1, OpGoing DEF OpMoves
  <2>2. /\ UNCHANGED <<states, cache, faulted>> /\ op.at = "keyloads" /\ b \in op.pending
        /\ status' = IF b = Author THEN status ELSE [status EXCEPT ![b] = "authorized"]
    BY DEF OpKeyload
  <2>3. op.call = "authorize" \/ Revoking
    BY <1>1, <2>2 DEF Shape, Revoking, OpType
  <2>4. b \in User => status[b] \in {"requested", "authorized"}
    BY <1>1, <2>2, <2>3 DEF Access, Operation, Authorizing, Renewing, Readers, Authorized
  <2>5. \A p \in Participant : Stage(p)'
    <3> SUFFICES ASSUME NEW p \in Participant PROVE Stage(p)'
      OBVIOUS
    <3>1. Kept(p)' => Kept(p)
      BY <1>1, <1>2, <2>2, <2>4 DEF Kept, Participant
    <3> QED
      BY <1>5, <2>1, <2>2, <3>1
  <2>6. OpStage'
    <3> DEFINE C == cache[Author] \cup op.batch
               X == op.past \cup Sent
    <3>1. Author \notin faulted => Fits(Author, C, X)
      BY <1>1, <1>4, <2>2 DEF OpStage, Fits, Slack
    <3>2. ASSUME NEW D, NEW Y, D = C, Y = X, Author \notin faulted
          PROVE  Fits(Author, D, Y)'
      BY <1>1, <1>3, <3>1, <3>2
    <3>3. cache'[Author] \cup op'.batch = C /\ op'.past = X
      BY <2>1, <2>2
    <3> HIDE DEF C, X
    <3>4. Author \notin faulted => Fits(Author, cache[Author] \cup op.batch, op.past)'
      BY <3>2, <3>3
    <3> QED
      BY <1>2, <1>4, <2>1, <2>2, <3>4 DEF OpStage, Sent
  <2> QED
    BY <2>5, <2>6 DEF Stages
<1>16. OpRemove => Stages'
  <2> SUFFICES ASSUME OpRemove PROVE Stages'
    OBVIOUS
  <2>1. \E at \in {"subscription", "logs", "end"} : OpMoves(at, op.past, op.batch, op.pending)
    BY <1>1, OpGoing
  <2>2. /\ op'.at \in {"subscription", "logs", "end"} /\ op'.past = op.past /\ op'.batch = op.batch
        /\ op.at \in {"keyloads", "subscription", "logs"}
        /\ op.user \in User /\ op.user # Author /\ op.user \in Participant /\ Revoking
    BY <1>1, <2>1 DEF OpMoves, OpRemove, Shape, Participant
  <2>3. /\ status[op.user] \in {"authorized", "revoked"}
        /\ op.at = "logs" => status[op.user] = "revoked"
    BY <2>2 DEF Access, Operation, Renewing
  <2>4. /\ \A p \in Participant : p # op.user => cache'[p] = cache[p] /\ states'[p] = states[p]
        /\ states'[op.user] \in {states[op.user], NoState} /\ UNCHANGED faulted
        /\ op.at # "logs" => cache'[op.user] = cache[op.user]
        /\ status' = status \/ status' = [status EXCEPT ![op.user] = "revoked"]
    BY <1>1, <2>2 DEF OpRemove
  <2>5. \A p \in Participant : Kept(p)' => Kept(p)
    BY <1>1, <1>2, <2>4 DEF Kept
  <2>6. \A p \in Participant : p # op.user => Stage(p)'
    BY <1>5, <2>2, <2>4, <2>5
  <2>7. Stage(op.user)'
    <3>1. CASE op.at = "logs"
      <4> DEFINE u == op.user
      <4>1. u \in Participant /\ u \in User /\ status[u] = "revoked" /\ status'[u] = "revoked" /\ UNCHANGED u
        BY <1>1, <2>1, <2>2, <2>3, <2>4, <3>1 DEF OpMoves
      <4> HIDE DEF u
      <4>2. ~Kept(u)'
        BY <4>1 DEF Kept
      <4>3. Stage(u)'
        BY <4>2 DEF Stage
      <4> QED
        BY <4>3 DEF u
    <3>2. CASE op.at # "logs"
      <4> DEFINE u == op.user
      <4>1. /\ u \in Participant /\ u # Author /\ (Kept(u)' => Kept(u)) /\ cache'[u] = cache[u] /\ UNCHANGED u
            /\ states'[u] \in {states[u], NoState} /\ Stage(u)
        BY <1>4, <2>1, <2>2, <2>4, <2>5, <3>2 DEF OpMoves
      <4> HIDE DEF u
      <4>2. \A C, X : Fits(u, C, X) => Fits(u, C, X)'
        BY <1>3, <4>1
      <4> DEFINE C1 == cache[u]
                 C2 == cache[u] \cup task[u].batch
                 X1 == states[u]
                 X2 == task[u].past
      <4>3. /\ Fits(u, C1, X1) /\ states'[u] = states[u] => Fits(u, C1, X1)'
            /\ Fits(u, C2, X2) => Fits(u, C2, X2)'
        BY <1>2, <4>1, <4>2
      <4>4. Stage(u)'
        BY <1>2, <4>1, <4>3 DEF Stage, At
      <4> QED
        BY <4>4 DEF u
    <3> QED
      BY <3>1, <3>2
  <2>8. \A p \in Participant : Stage(p)'
    <3>1. op'.user = op.user
      BY <2>1 DEF OpMoves
    <3> QED
      BY <2>6, <2>7, <3>1
  <2>9. OpStage'
    <3> DEFINE C == cache[Author] \cup op.batch
               X == op.past
    <3>1. Fits(Author, C, X) => Fits(Author, C, X)'
      BY <1>1, <1>3, <2>2, <2>4
    <3> QED
      BY <1>1, <1>2, <1>4, <2>2, <2>4, <3>1 DEF OpStage, Sent
  <2> QED
    BY <2>8, <2>9 DEF Stages
<1>17. OpEnd => Stages'
  <2> SUFFICES ASSUME OpEnd PROVE Stages'
    OBVIOUS
  <2>1. /\ UNCHANGED <<cache, status, faulted>> /\ states' = [states EXCEPT ![Author] = op.past] /\ op' = NoOp
        /\ op.at \in {"keyloads", "end"}
    BY DEF OpEnd
  <2>2. states'[Author] = op.past /\ op.batch = {} /\ \A p \in Participant : p # Author => states'[p] = states[p]
    BY <1>1, <2>1 DEF Books
  <2>3. \A p \in Participant : Kept(p)' => Kept(p)
    BY <1>2, <2>1 DEF Kept
  <2>4. \A p \in Participant : p # Author => Stage(p)'
    BY <1>5, <2>1, <2>2, <2>3
  <2>5. Stage(Author)'
    <3> DEFINE C == cache[Author]
               X == op.past
    <3>1. Kept(Author) => Fits(Author, C, X)
      <4>1. Kept(Author) => Fits(Author, cache[Author] \cup op.batch, X)
        BY <1>4, <1>7, <2>1 DEF OpStage
      <4>2. cache[Author] \cup op.batch = C
        BY <2>2
      <4> QED
        BY <4>1, <4>2
    <3>2. ASSUME NEW D, NEW Y, D = C, Y = X, Kept(Author)
          PROVE  Fits(Author, D, Y)'
      BY <1>1, <1>3, <3>1, <3>2
    <3>3. cache'[Author] = C /\ states'[Author] = X /\ (Kept(Author)' => Kept(Author))
      BY <1>1, <2>1, <2>2, <2>3
    <3> HIDE DEF C, X
    <3>4. Kept(Author)' => Fits(Author, cache[Author], states[Author])'
      BY <3>2, <3>3
    <3> QED
      BY <1>2, <1>6, <2>1, <3>4 DEF Stage, At
  <2>6. OpStage'
    BY <2>1 DEF OpStage, NoOp
  <2> QED
    BY <2>4, <2>5, <2>6 DEF Stages
<1> QED
  BY <1>9, <1>11, <1>12, <1>13, <1>14, <1>15, <1>16, <1>17

\* Every step keeps the stored logs and the states together.
LEMMA NextStages == Typed /\ Access /\ Books /\ Stages /\ [Next]_vars => Stages'
<1> SUFFICES ASSUME Typed, Access, Books, Stages, [Next]_vars PROVE Stages'
  OBVIOUS
<1>1. CASE UNCHANGED vars
  BY <1>1 DEF vars, tasks, subscriptions, history, Stages, OpStage, Stage, Kept, Fits, At, MayRead,
              Readable, Own, Sent, Slack
<1>2. CASE Next
  BY <1>2, StagesTask, StagesOp DEF Next
<1> QED
  BY <1>1, <1>2

\* Users who asked have a state, until a revoke removes it and, right after,
\* the subscription.
Documented ==
  \A u \in User : status[u] \in {"requested", "authorized"} /\ states[u] = NoState =>
    Revoking /\ op.user = u /\ op.at = "subscription"

\* Only a revoke takes a state away, and the subscription goes right after.
LEMMA NextDocumented ==
  ASSUME Typed, Access, Documented, [Next]_vars
  PROVE  Documented'
<1> USE DEF subscriptions, tasks, history, vars
<1>1. /\ TypeOK /\ Shape /\ Author \notin User /\ op \in OpType
      /\ states \in [Participant -> (SUBSET Link) \cup {NoState}]
      /\ status \in [User -> {"none", "requested", "authorized", "revoked"}]
      /\ task \in [Participant -> TaskType] /\ User \subseteq Participant
  BY Types, AuthorAssumption DEF Typed, Participant
<1>2. CASE UNCHANGED vars
  BY <1>2 DEF Documented, Revoking
<1>3. ASSUME NEW p \in Participant,
             GetLogs(p) \/ AddLog(p) \/ Reimport(p) \/ Reset(p) \/ Fetch(p) \/ Save(p)
               \/ Store(p) \/ Publish(p) \/ StoreOwn(p) \/ SaveOwn(p) \/ Fail(p)
      PROVE  Documented'
  <2>1. UNCHANGED <<status, op>>
    BY <1>3 DEF GetLogs, AddLog, Reimport, Begin, Reset, Fetch, Save, Store, Publish, StoreOwn, SaveOwn, Fail
  <2>2. states' = states \/ states' = [states EXCEPT ![p] = task[p].past]
    BY <1>3 DEF GetLogs, AddLog, Reimport, Begin, Reset, Fetch, Save, Store, Publish, StoreOwn, SaveOwn, Fail
  <2>3. task[p].past # NoState
    BY <1>1, NoLinks DEF TaskType
  <2>4. \A u \in User : states'[u] = NoState => states[u] = NoState
    BY <1>1, <2>2, <2>3
  <2> QED
    BY <2>1, <2>4 DEF Documented, Revoking
<1>4. ASSUME NEW u \in User, Request(u)
      PROVE  Documented'
  <2>1. {} # NoState
    BY NoLinks
  <2> QED
    BY <1>1, <1>4, <2>1 DEF Request, Documented, Revoking
<1>5. ASSUME NEW u \in User, Authorize(u) \/ Revoke(u)
      PROVE  Documented'
  BY <1>5 DEF Authorize, Revoke, BeginOp, Documented, Revoking, NoOp
<1>6. ASSUME OpFetch \/ OpSave \/ OpStore \/ OpEnd \/ \E b \in Participant : OpKeyload(b)
      PROVE  Documented'
  <2>1. op.at \in {"fetch", "save", "store", "keyloads", "end"}
    BY <1>6 DEF OpFetch, OpSave, OpStore, OpEnd, OpKeyload
  <2>2. \A u \in User : states'[u] = states[u]
    BY <1>1, <1>6 DEF OpFetch, OpSave, OpStore, OpEnd, OpKeyload
  <2>3. status' = status \/ \E b \in op.pending : OpKeyload(b) /\ b \in Participant
    BY <1>6 DEF OpFetch, OpSave, OpStore, OpEnd, OpKeyload
  <2>4. ASSUME NEW b \in op.pending, OpKeyload(b), b \in User
        PROVE  status[b] \in {"requested", "authorized"}
    <3>1. op.at = "keyloads" /\ op.call \in {"authorize", "revoke"}
      BY <1>1, <2>4 DEF OpKeyload, Shape, OpType
    <3> QED
      BY <1>1, <2>4, <3>1 DEF Access, Operation, Authorizing, Renewing, Revoking, Readers, Authorized
  <2>5. \A u \in User : status'[u] \in {"requested", "authorized"} => status[u] \in {"requested", "authorized"}
    <3>1. CASE status' = status
      BY <3>1
    <3>2. CASE \E b \in op.pending : OpKeyload(b) /\ b \in Participant
      <4>1. PICK b \in op.pending : OpKeyload(b) /\ b \in Participant
        BY <3>2
      <4> QED
        BY <1>1, <2>4, <4>1 DEF OpKeyload, Participant
    <3> QED
      BY <2>3, <3>1, <3>2
  <2> QED
    BY <2>1, <2>2, <2>5 DEF Documented
<1>7. ASSUME OpRemove
      PROVE  Documented'
  <2>1. \E at \in {"subscription", "logs", "end"} : OpMoves(at, op.past, op.batch, op.pending)
    BY <1>1, <1>7, OpGoing
  <2>2. /\ op'.call = op.call /\ op'.user = op.user /\ Revoking /\ op.user \in User
        /\ op.at \in {"keyloads", "subscription", "logs"}
    BY <1>1, <1>7, <2>1 DEF OpMoves, OpRemove, Shape
  <2>3. CASE op.at = "keyloads"
    BY <1>1, <1>7, <2>2, <2>3 DEF OpRemove, Documented, Revoking, OpType
  <2>4. CASE op.at = "subscription"
    BY <1>1, <1>7, <2>2, <2>4 DEF OpRemove, Documented, Revoking, OpType
  <2>5. CASE op.at = "logs"
    BY <1>1, <1>7, <2>2, <2>5 DEF OpRemove, Documented, Revoking, OpType
  <2> QED
    BY <2>2, <2>3, <2>4, <2>5
<1> QED
  BY <1>2, <1>3, <1>4, <1>5, <1>6, <1>7 DEF Next

\* All that is known of the channel.
Sound == Typed /\ Access /\ Books /\ Stages /\ Documented

\* The inductive invariant.
LEMMA InitSound == Init => Sound
BY InitTyped, InitAccess, InitBooks, InitStages DEF Sound, Init, Documented

\* Every step keeps it.
LEMMA NextSound == Sound /\ [Next]_vars => Sound'
BY NextTyped, NextAccess, NextBooks, NextStages, NextDocumented DEF Sound

\* Who sends can read what it sent, until it is revoked.
LEMMA OwnReadable ==
  ASSUME Sound, NEW p \in Participant, MayRead(p), Regular(p)
  PROVE  Own(p) \subseteq Readable(p)
BY DEF Sound, Access, Messages, Named, Own, Readable

\* What is stored for a participant is what its state is past and it may read
\* or wrote, unless a call of it stopped half-way.
THEOREM CacheMatches == Spec => []CacheMatchesState
<1>1. Sound => CacheMatchesState
  <2> SUFFICES ASSUME Sound, NEW p \in Participant, Settled(p), p \notin faulted
               PROVE  IF p = Author
                      THEN /\ cache[p] \subseteq states[p] \cap Due(p)
                           /\ (states[p] \cap Due(p)) \ cache[p] \subseteq overlapped
                      ELSE cache[p] = states[p] \cap Due(p)
    BY DEF CacheMatchesState
  <2>1. At(p, "idle") /\ Authorized(p) /\ (op.at # "idle" => p # Author /\ p # op.user)
    BY DEF Settled
  <2>2. Regular(p) /\ Kept(p)
    BY <2>1, AuthorAssumption DEF Regular, Kept, Authorized
  <2>3. states[p] # NoState => Fits(p, cache[p], states[p])
    BY <2>1, <2>2 DEF Sound, Stages, Stage
  <2>4. MayRead(p) => Own(p) \subseteq Readable(p)
    BY <2>2, OwnReadable
  <2>5. CASE states[p] # NoState
    BY <2>3, <2>4, <2>5 DEF Fits, Due, Slack
  <2>6. CASE states[p] = NoState
    BY <2>1, <2>6 DEF Sound, Documented, Authorized, Typed, Shape, Participant, Revoking, NoOp
  <2> QED
    BY <2>5, <2>6
<1> QED
  BY <1>1, InitSound, NextSound, PTL DEF Spec

-----------------------------------------------------------------------------
(* The abstract specification.  A fetch is a segment of the channel, and   *)
(* what a subscriber had before and stores now is all it may read of it.   *)

\* What a call has fetched.
Segment(p) ==
  /\ task[p].at \in {"save", "store"} =>
       /\ \E n \in 0 .. Len(tangle) : task[p].past = 1 .. n
       /\ task[p].batch \subseteq Readable(p) \cap task[p].past
  /\ At(p, "store") => task[p].batch # {}
  /\ At(p, "storeOwn") => \E m \in Sent : task[p].batch = {m} /\ tangle[m].from = p

\* Without failures only users that are about to be revoked, whose state is
\* gone, have calls that stop half-way.
Faults ==
  "fail" \notin Event =>
    \A u \in User : u \in faulted =>
      status[u] = "revoked" \/ (status[u] = "authorized" /\ states[u] = NoState /\ At(u, "idle"))

Fetched == Faults /\ \A p \in Participant : Segment(p)

\* Nothing has been fetched.
LEMMA InitFetched == Init => Fetched
BY DEF Init, Fetched, Faults, Segment, At, Idle, Participant

\* What others send does not change what was fetched.
LEMMA SegmentKept ==
  ASSUME Typed, Books, NEW p \in Participant, Segment(p), task'[p] = task[p],
         UNCHANGED tangle \/ \E q \in Participant : Publish(q)
  PROVE  Segment(p)'
<1>1. CASE UNCHANGED tangle
  BY <1>1 DEF Segment, At, Readable, Sent
<1>2. CASE \E q \in Participant : Publish(q)
  <2>1. /\ Sent \subseteq Sent' /\ Readable(p)' \cap Sent = Readable(p)
        /\ Len(tangle') = Len(tangle) + 1 /\ Len(tangle) \in Nat
        /\ \A m \in Sent : tangle'[m] = tangle[m]
    BY <1>2, Grown
  <2>2. 0 .. Len(tangle) \subseteq 0 .. Len(tangle')
    BY <2>1
  <2>3. Readable(p) \subseteq Readable(p)'
    BY <2>1
  <2> QED
    BY <2>1, <2>2, <2>3 DEF Segment, At
<1> QED
  BY <1>1, <1>2

\* Steps of a call.
LEMMA FetchedTask ==
  ASSUME Sound, Fetched, NEW p \in Participant,
         GetLogs(p) \/ AddLog(p) \/ Reimport(p) \/ Reset(p) \/ Fetch(p) \/ Save(p)
           \/ Store(p) \/ Publish(p) \/ StoreOwn(p) \/ SaveOwn(p) \/ Fail(p)
  PROVE  Fetched'
<1> USE DEF subscriptions, history
<1>1. /\ Typed /\ Books /\ TypeOK /\ task[p] \in TaskType /\ Len(tangle) \in Nat
      /\ states \in [Participant -> (SUBSET Link) \cup {NoState}] /\ User \subseteq Participant
  BY Types, SentLinks DEF Typed, Sound, Participant
<1>2. UNCHANGED <<status, op>> /\ (UNCHANGED tangle \/ Publish(p))
  BY DEF GetLogs, AddLog, Reimport, Begin, Reset, Fetch, Save, Store, Publish, StoreOwn, SaveOwn, Fail
<1>3. ASSUME \A q \in Participant : q # p => /\ task'[q] = task[q] /\ states'[q] = states[q]
                                             /\ (q \in faulted' <=> q \in faulted),
             Segment(p)',
             "fail" \notin Event /\ p \in User /\ p \in faulted' =>
               \/ status[p] = "revoked"
               \/ status[p] = "authorized" /\ states'[p] = NoState /\ task'[p].at = "idle"
      PROVE  Fetched'
  <2>1. \A q \in Participant : q # p => Segment(q)'
    BY <1>1, <1>2, <1>3, SegmentKept DEF Fetched
  <2>2. Faults'
    BY <1>1, <1>2, <1>3 DEF Fetched, Faults, At
  <2> QED
    BY <1>3, <2>1, <2>2 DEF Fetched
<1>4. /\ Segment(p)
      /\ "fail" \notin Event /\ p \in User /\ p \in faulted =>
           \/ status[p] = "revoked"
           \/ status[p] = "authorized" /\ states[p] = NoState /\ At(p, "idle")
  BY DEF Fetched, Faults
<1>5. ~At(p, "idle") /\ p \in User => status[p] \in {"authorized", "revoked"}
  BY DEF Sound, Access, Calls, Named
<1>6. ASSUME task'[p].at \notin {"save", "store", "storeOwn"}
      PROVE  Segment(p)'
  BY <1>6 DEF Segment, At
<1>7. ASSUME NEW call \in Call, Begin(p, call)
      PROVE  Fetched'
  <2>1. Begins(p, call) /\ UNCHANGED <<states, faulted>> /\ At(p, "idle") /\ states[p] # NoState
    BY <1>1, <1>7, Starting DEF Begin
  <2>2. Segment(p)'
    BY <1>6, <2>1 DEF Begins
  <2> QED
    BY <1>3, <1>4, <2>1, <2>2 DEF Begins
<1>8. GetLogs(p) \/ AddLog(p) \/ Reimport(p) => Fetched'
  BY <1>7 DEF GetLogs, AddLog, Reimport, Call
<1>9. Reset(p) => Fetched'
  <2> SUFFICES ASSUME Reset(p) PROVE Fetched'
    OBVIOUS
  <2>1. Moves(p, "fetch", {}, task[p].batch) /\ UNCHANGED <<states, faulted>> /\ ~At(p, "idle")
    BY <1>1, Going DEF Reset, At
  <2>2. Segment(p)'
    BY <1>6, <2>1 DEF Moves
  <2> QED
    BY <1>3, <1>4, <2>1, <2>2 DEF Moves
<1>10. Fetch(p) => Fetched'
  <2> SUFFICES ASSUME Fetch(p) PROVE Fetched'
    OBVIOUS
  <2>1. /\ Moves(p, IF MayRead(p) THEN "save" ELSE "publish", task[p].past \cup Sent,
                 IF MayRead(p) THEN Unread(p, task[p].past) ELSE {})
        /\ UNCHANGED <<tangle, states, faulted>> /\ ~At(p, "idle")
    BY <1>1, Going DEF Fetch, At
  <2>2. Segment(p)'
    <3>1. CASE ~MayRead(p)
      BY <1>6, <2>1, <3>1 DEF Moves
    <3>2. CASE MayRead(p)
      <4>1. task'[p].at = "save" /\ task'[p].past = task[p].past \cup Sent
            /\ task'[p].batch = Readable(p) \ task[p].past
        BY <2>1, <3>2 DEF Moves, Unread
      <4>2. task'[p].past = 1 .. Len(tangle) /\ Len(tangle) \in 0 .. Len(tangle)
        BY <1>1, <4>1 DEF Books, SentOnly, Sent
      <4>3. task'[p].batch \subseteq Readable(p)' \cap task'[p].past
        BY <2>1, <4>1 DEF Readable, Sent
      <4> QED
        BY <2>1, <4>1, <4>2, <4>3 DEF Segment, At
    <3> QED
      BY <3>1, <3>2
  <2> QED
    BY <1>3, <1>4, <2>1, <2>2 DEF Moves
<1>11. AfterFetch(p) =>
         /\ \A q \in Participant : q # p => task'[q] = task[q] /\ (q \in faulted' <=> q \in faulted)
         /\ task'[p].at \in {"publish", "idle"} /\ faulted' \subseteq faulted
  <2>1. AfterFetch(p) => /\ task[p].call = "add" => Moves(p, "publish", task[p].past, {})
                         /\ task[p].call # "add" => Ends(p)
    BY <1>1, Going, Ending DEF AfterFetch
  <2> QED
    BY <2>1 DEF Moves, Ends, AfterFetch
<1>12. Broken(p) => /\ \A q \in Participant : q # p => task'[q] = task[q] /\ (q \in faulted' <=> q \in faulted)
                    /\ task'[p].at = "idle"
  BY <1>1, Ending DEF Broken, Ends
<1>13. Save(p) \/ SaveOwn(p) => Fetched'
  <2> SUFFICES ASSUME Save(p) \/ SaveOwn(p) PROVE Fetched'
    OBVIOUS
  <2>1. ~At(p, "idle") /\ UNCHANGED tangle
    BY DEF Save, SaveOwn, At
  <2>2. CASE states[p] = NoState
    <3>1. Broken(p) /\ UNCHANGED states
      BY <2>2 DEF Save, SaveOwn
    <3>2. Segment(p)'
      BY <1>6, <1>12, <3>1
    <3>3. p \in User => status[p] = "revoked" \/ (status[p] = "authorized" /\ states'[p] = NoState)
      BY <1>5, <2>1, <2>2, <3>1
    <3> QED
      BY <1>3, <1>12, <3>1, <3>2, <3>3
  <2>3. CASE states[p] # NoState
    <3>1. \A q \in Participant : q # p => states'[q] = states[q]
      BY <1>1, <2>3 DEF Save, SaveOwn
    <3>2. \/ AfterFetch(p)
          \/ Ended(p) /\ UNCHANGED faulted
          \/ Proceed(p, "store") /\ UNCHANGED faulted /\ task[p].batch # {} /\ At(p, "save")
      BY <2>3 DEF Save, SaveOwn
    <3>3. \A q \in Participant : q # p => task'[q] = task[q] /\ (q \in faulted' <=> q \in faulted)
      BY <1>1, <1>11, <3>2, Going, Ending DEF Ends, Moves, TaskAt
    <3>4. faulted' \subseteq faulted
      BY <1>11, <3>2
    <3>5. Segment(p)'
      <4>1. CASE AfterFetch(p) \/ Ended(p)
        BY <1>1, <1>6, <1>11, <4>1, Ending DEF Ends
      <4>2. CASE Proceed(p, "store") /\ task[p].batch # {} /\ At(p, "save")
        <5>1. Moves(p, "store", task[p].past, task[p].batch)
          BY <1>1, <4>2, Going DEF TaskAt
        <5> QED
          BY <1>4, <2>1, <4>2, <5>1 DEF Moves, Segment, At, Readable, Sent
      <4> QED
        BY <3>2, <4>1, <4>2
    <3>6. "fail" \notin Event /\ p \in User /\ p \in faulted' => status[p] = "revoked"
      BY <1>4, <2>1, <3>4
    <3> QED
      BY <1>3, <3>1, <3>3, <3>5, <3>6
  <2> QED
    BY <2>2, <2>3
<1>14. Store(p) => Fetched'
  <2> SUFFICES ASSUME Store(p) PROVE Fetched'
    OBVIOUS
  <2>1. At(p, "store") /\ ~At(p, "idle") /\ UNCHANGED <<tangle, states>>
    BY DEF Store, At
  <2>2. Segment(p)'
    BY <1>6, <1>11, <1>12 DEF Store
  <2>3. "fail" \notin Event /\ p \in User /\ p \in faulted => status[p] = "revoked"
    BY <1>4, <2>1
  <2>4. "fail" \notin Event /\ p \in User /\ p \in faulted' => status[p] = "revoked"
    <3>1. CASE AfterFetch(p)
      BY <1>11, <2>3, <3>1
    <3>2. CASE task[p].batch \cap cache[p] # {}
      <4>1. Stage(p)
        BY DEF Sound, Stages
      <4>2. ~Kept(p)
        BY <2>1, <3>2, <4>1 DEF Stage, At
      <4> QED
        BY <2>3, <4>2 DEF Kept
    <3> QED
      BY <3>1, <3>2 DEF Store
  <2>5. \A q \in Participant : q # p => task'[q] = task[q] /\ (q \in faulted' <=> q \in faulted)
    BY <1>11, <1>12 DEF Store
  <2> QED
    BY <1>3, <2>1, <2>2, <2>4, <2>5
<1>15. Publish(p) => Fetched'
  <2> SUFFICES ASSUME Publish(p) PROVE Fetched'
    OBVIOUS
  <2> DEFINE n == Len(tangle) + 1
  <2>1. Moves(p, "storeOwn", task[p].past \cup {n}, {n}) /\ UNCHANGED <<states, faulted>> /\ ~At(p, "idle")
    BY <1>1, Going DEF Publish, At
  <2>2. n \in Sent' /\ tangle'[n].from = p
    BY <1>1, Grown
  <2> HIDE DEF n
  <2>3. Segment(p)'
    BY <2>1, <2>2 DEF Moves, Segment, At
  <2> QED
    BY <1>3, <1>4, <2>1, <2>3 DEF Moves
<1>16. StoreOwn(p) => Fetched'
  <2> SUFFICES ASSUME StoreOwn(p) PROVE Fetched'
    OBVIOUS
  <2>1. Moves(p, "saveOwn", task[p].past, task[p].batch) /\ UNCHANGED <<states, faulted>> /\ ~At(p, "idle")
    BY <1>1, Going DEF StoreOwn, At, TaskAt
  <2>2. Segment(p)'
    BY <1>6, <2>1 DEF Moves
  <2> QED
    BY <1>3, <1>4, <2>1, <2>2 DEF Moves
<1>17. Fail(p) => Fetched'
  <2> SUFFICES ASSUME Fail(p) PROVE Fetched'
    OBVIOUS
  <2>1. "fail" \in Event /\ Broken(p) /\ UNCHANGED states
    BY DEF Fail
  <2>2. Segment(p)'
    BY <1>6, <1>12, <2>1
  <2> QED
    BY <1>3, <1>12, <2>1, <2>2
<1> QED
  BY <1>8, <1>9, <1>10, <1>13, <1>14, <1>15, <1>16, <1>17

\* Every step.
LEMMA NextFetched == Sound /\ Fetched /\ [Next]_vars => Fetched'
<1> SUFFICES ASSUME Sound, Fetched, [Next]_vars PROVE Fetched'
  OBVIOUS
<1> USE DEF subscriptions, tasks, history, vars
<1>1. /\ Typed /\ Books /\ TypeOK /\ Shape /\ User \subseteq Participant /\ Author \notin User
      /\ states \in [Participant -> (SUBSET Link) \cup {NoState}] /\ op \in OpType
      /\ status \in [User -> {"none", "requested", "authorized", "revoked"}]
  BY Types, AuthorAssumption DEF Typed, Sound, Participant
<1>2. ASSUME UNCHANGED <<tangle, task>>, \A u \in User : u \in faulted' => u \in faulted,
             \A u \in User : /\ status[u] = "revoked" => status'[u] = "revoked"
                             /\ status[u] = "authorized" /\ states[u] = NoState /\ At(u, "idle") =>
                                  \/ status'[u] = "revoked"
                                  \/ status'[u] = "authorized" /\ states'[u] = NoState
      PROVE  Fetched'
  <2>1. \A p \in Participant : Segment(p)'
    BY <1>1, <1>2, SegmentKept DEF Fetched
  <2>2. Faults'
    BY <1>2 DEF Fetched, Faults, At
  <2> QED
    BY <2>1, <2>2 DEF Fetched
<1>3. CASE UNCHANGED vars
  BY <1>2, <1>3
<1>4. ASSUME NEW u \in User, Request(u) \/ Authorize(u) \/ Revoke(u)
      PROVE  Fetched'
  BY <1>1, <1>2, <1>4 DEF Request, Authorize, Revoke, BeginOp
<1>5. ASSUME OpFetch \/ OpSave \/ OpStore \/ OpEnd
      PROVE  Fetched'
  <2>1. UNCHANGED <<tangle, task, status>> /\ faulted' \subseteq faulted \cup {Author}
    BY <1>5 DEF OpFetch, OpSave, OpStore, OpEnd
  <2>2. \A u \in User : states'[u] = states[u]
    BY <1>1, <1>5 DEF OpFetch, OpSave, OpStore, OpEnd
  <2> QED
    BY <1>1, <1>2, <2>1, <2>2
<1>6. ASSUME NEW b \in Participant, OpKeyload(b)
      PROVE  Fetched'
  <2>1. /\ UNCHANGED <<tangle, task, states, faulted>> /\ op.at = "keyloads" /\ b \in op.pending
        /\ status' = IF b = Author THEN status ELSE [status EXCEPT ![b] = "authorized"]
    BY <1>6 DEF OpKeyload
  <2>2. b \in User => status[b] \in {"requested", "authorized"}
    BY <1>1, <2>1 DEF Sound, Access, Operation, Authorizing, Renewing, Readers, Authorized, Shape, OpType, Revoking
  <2> QED
    BY <1>1, <1>2, <2>1, <2>2
<1>7. ASSUME OpRemove
      PROVE  Fetched'
  <2>1. UNCHANGED <<tangle, task, faulted>> /\ op.user \in User
    BY <1>1, <1>7 DEF OpRemove, Shape
  <2>2. \A u \in User : /\ status'[u] \in {status[u], "revoked"}
                        /\ states'[u] \in {states[u], NoState}
    BY <1>1, <1>7, <2>1 DEF OpRemove
  <2> QED
    BY <1>2, <2>1, <2>2
<1> QED
  BY <1>3, <1>4, <1>5, <1>6, <1>7, FetchedTask DEF Next

\* What a subscriber finds.
Found(u) == IF status[u] = "authorized" THEN cache[u] ELSE {}

\* When others find the same, a subscriber learns or forgets.
LEMMA Changes ==
  ASSUME UNCHANGED tangle, NEW s \in Subscriber, \A u \in Subscriber : u # s => Found(u)' = Found(u)
  PROVE  /\ \A new : Found(s)' = Found(s) \cup new => Audit!Learn(s, new)
         /\ Found(s)' = {} => Audit!Forget(s)
         /\ Found(s)' = Found(s) => UNCHANGED Audit!vars
<1> DEFINE K == [u \in Subscriber |-> Found(u)]
<1>1. K = [u \in Subscriber |-> IF status[u] = "authorized" THEN cache[u] ELSE {}]
  BY DEF Found
<1>2. Subscriber' = Subscriber
  BY DEF Subscriber, MayRead
<1>3. K' = [u \in Subscriber |-> Found(u)']
  BY <1>2
<1>4. ASSUME NEW new, Found(s)' = Found(s) \cup new
      PROVE  K' = [K EXCEPT ![s] = @ \cup new]
  BY <1>3, <1>4
<1>5. Found(s)' = {} => K' = [K EXCEPT ![s] = {}]
  BY <1>3
<1>6. Found(s)' = Found(s) => K' = K
  BY <1>3
<1> QED
  BY <1>4, <1>5, <1>6 DEF Audit!Learn, Audit!Forget, Audit!vars, Found

\* Initially nothing is sent and nothing is known.
LEMMA AuditInit == Init => Audit!Init
BY DEF Init, Audit!Init, Subscriber

\* Steps of a call: who stores what it fetched has all it may read up to there.
LEMMA AuditTask ==
  ASSUME "fail" \notin Event, Sound, Fetched, NEW p \in Participant,
         GetLogs(p) \/ AddLog(p) \/ Reimport(p) \/ Reset(p) \/ Fetch(p) \/ Save(p)
           \/ Store(p) \/ Publish(p) \/ StoreOwn(p) \/ SaveOwn(p) \/ Fail(p)
  PROVE  Audit!Next \/ UNCHANGED Audit!vars
<1> USE DEF subscriptions, history
<1>1. /\ Typed /\ Books /\ Stage(p) /\ TypeOK /\ task[p] \in TaskType /\ Len(tangle) \in Nat
      /\ cache \in [Participant -> SUBSET Link] /\ Author \notin User /\ User \subseteq Participant
      /\ tangle \in Seq(Message)
  BY Types, SentLinks, AuthorAssumption DEF Typed, Sound, Stages, Participant
<1>2. UNCHANGED status
  BY DEF GetLogs, AddLog, Reimport, Begin, Reset, Fetch, Save, Store, Publish, StoreOwn, SaveOwn, Fail
<1>3. CASE UNCHANGED <<tangle, cache>>
  BY <1>2, <1>3 DEF Audit!vars
<1>4. CASE UNCHANGED tangle /\ \A q \in Participant : q # p => cache'[q] = cache[q]
  <2>1. \A u \in Subscriber : u # p => Found(u)' = Found(u)
    BY <1>1, <1>2, <1>4 DEF Subscriber, Found
  <2>2. p \notin Subscriber \/ status[p] # "authorized" => UNCHANGED Audit!vars
    <3>1. CASE p \notin Subscriber
      <4>1. [u \in Subscriber |-> IF status[u] = "authorized" THEN cache[u] ELSE {}]'
            = [u \in Subscriber |-> IF status[u] = "authorized" THEN cache[u] ELSE {}]
        BY <1>1, <1>2, <1>4, <3>1 DEF Subscriber, MayRead
      <4> QED
        BY <1>4, <4>1 DEF Audit!vars
    <3>2. CASE p \in Subscriber /\ status[p] # "authorized"
      <4>1. Found(p)' = Found(p)
        BY <1>2, <3>2 DEF Found
      <4> QED
        BY <1>4, <2>1, <3>2, <4>1, Changes
    <3> QED
      BY <3>1, <3>2
  <2>3. ASSUME p \in Subscriber, status[p] = "authorized"
        PROVE  /\ Found(p) = cache[p] /\ Found(p)' = cache'[p] /\ p # Author /\ p \in User
               /\ \A new : cache'[p] = cache[p] \cup new => Audit!Learn(p, new)
               /\ cache'[p] = {} => Audit!Forget(p)
    <3>1. Found(p) = cache[p] /\ Found(p)' = cache'[p] /\ p # Author /\ p \in User
      BY <1>1, <1>2, <2>3 DEF Found, Subscriber
    <3> QED
      BY <1>4, <2>1, <2>3, <3>1, Changes
  <2>4. CASE Reset(p)
    <3>1. cache'[p] = {}
      BY <1>1, <2>4 DEF Reset
    <3> QED
      BY <2>2, <2>3, <3>1 DEF Audit!Next
  <2>5. CASE StoreOwn(p)
    <3>1. cache'[p] = cache[p] \cup task[p].batch /\ At(p, "storeOwn")
      BY <1>1, <2>5 DEF StoreOwn
    <3>2. PICK m \in Sent : task[p].batch = {m} /\ tangle[m].from = p
      BY <3>1 DEF Fetched, Segment
    <3>3. p \in Subscriber /\ status[p] = "authorized" => Audit!KeepOwn(p)
      BY <2>3, <3>1, <3>2 DEF Audit!KeepOwn, Sent
    <3> QED
      BY <2>2, <3>3 DEF Audit!Next
  <2>6. CASE Store(p)
    <3> SUFFICES ASSUME p \in Subscriber, status[p] = "authorized"
                 PROVE  Audit!Retrieve(p)
      BY <2>2 DEF Audit!Next
    <3>1. At(p, "store") /\ ~At(p, "idle") /\ p \in User /\ p # Author /\ MayRead(p)
      BY <2>3, <2>6 DEF Store, At, Subscriber
    <3>2. Kept(p)
      BY <3>1 DEF Kept, Fetched, Faults
    <3>3. /\ Fits(p, cache[p] \cup task[p].batch, task[p].past)
          /\ cache[p] \cap task[p].batch = {}
      BY <1>1, <3>1, <3>2 DEF Stage, At
    <3>4. cache'[p] = cache[p] \cup task[p].batch
      BY <1>1, <2>6, <3>3 DEF Store, Inserted
    <3>5. PICK n \in 0 .. Len(tangle) : task[p].past = 1 .. n
      BY <3>1 DEF Fetched, Segment, At
    <3>6. task[p].batch \subseteq Readable(p) \cap (1 .. n) /\ task[p].batch # {}
      BY <3>1, <3>5 DEF Fetched, Segment, At
    <3>7. Readable(p) \cap (1 .. n) \subseteq cache[p] \cup task[p].batch
      BY <3>1, <3>3, <3>5 DEF Fits, Slack
    <3>8. n \in 1 .. Len(tangle)
      BY <1>1, <3>6
    <3>9. PICK new : new = Readable(p) \cap (1 .. n)
      OBVIOUS
    <3>10. Audit!Learn(p, new)
      BY <2>3, <3>4, <3>6, <3>7, <3>9
    <3>11. new = {i \in 1 .. n : p \in tangle[i].readers}
      BY <1>1, <3>8, <3>9 DEF Readable, Sent
    <3> QED
      BY <3>8, <3>10, <3>11 DEF Audit!Retrieve, Audit!Readable, Audit!Learn
  <2> QED
    BY <1>3, <1>4, <2>4, <2>5, <2>6
    DEF GetLogs, AddLog, Reimport, Begin, Fetch, Save, Publish, SaveOwn, Fail
<1>5. CASE Publish(p)
  <2> DEFINE new == [from |-> p, readers |-> task[p].readers, before |-> task[p].before]
  <2>1. new \in Message /\ tangle' = Append(tangle, new) /\ UNCHANGED cache
    BY <1>1, <1>5 DEF Publish, Message, TaskType
  <2> HIDE DEF new
  <2>2. Len(tangle') = Len(tangle) + 1 /\ SubSeq(tangle', 1, Len(tangle)) = tangle
    BY <1>1, <2>1
  <2>3. Audit!Post
    BY <1>2, <2>1, <2>2 DEF Audit!Post
  <2> QED
    BY <2>3 DEF Audit!Next
<1>6. Reset(p) \/ Store(p) \/ StoreOwn(p) => UNCHANGED tangle /\ \A q \in Participant : q # p => cache'[q] = cache[q]
  BY <1>1 DEF Reset, Store, StoreOwn
<1> QED
  BY <1>3, <1>4, <1>5, <1>6 DEF GetLogs, AddLog, Reimport, Begin, Fetch, Save, SaveOwn, Fail

\* Requests and the author's operation: a revoke makes a subscriber forget.
LEMMA AuditOp ==
  ASSUME Sound,
         \/ \E u \in User : Request(u) \/ Authorize(u) \/ Revoke(u)
         \/ \E b \in Participant : OpKeyload(b)
         \/ OpFetch \/ OpSave \/ OpStore \/ OpRemove \/ OpEnd
  PROVE  Audit!Next \/ UNCHANGED Audit!vars
<1> USE DEF subscriptions, tasks, history
<1>1. /\ Typed /\ Books /\ TypeOK /\ Shape /\ op \in OpType
      /\ cache \in [Participant -> SUBSET Link] /\ Author \notin User /\ User \subseteq Participant
      /\ status \in [User -> {"none", "requested", "authorized", "revoked"}]
  BY Types, AuthorAssumption DEF Typed, Sound, Participant
<1>2. UNCHANGED tangle
  BY DEF Request, Authorize, Revoke, BeginOp, OpKeyload, OpFetch, OpSave, OpStore, OpRemove, OpEnd
<1>3. ASSUME \A u \in User : Found(u)' = Found(u)
      PROVE  UNCHANGED Audit!vars
  <2>1. [u \in Subscriber |-> Found(u)]' = [u \in Subscriber |-> Found(u)]
    BY <1>3 DEF Subscriber, MayRead
  <2> QED
    BY <1>2, <2>1 DEF Audit!vars, Found
<1>4. CASE UNCHANGED <<cache, status>>
  BY <1>3, <1>4 DEF Found
<1>5. ASSUME NEW u \in User, Request(u)
      PROVE  UNCHANGED Audit!vars
  BY <1>1, <1>3, <1>5 DEF Request, Found
<1>6. CASE OpStore
  <2>1. \A u \in User : cache'[u] = cache[u] /\ status'[u] = status[u]
    BY <1>1, <1>6 DEF OpStore
  <2> QED
    BY <1>3, <2>1 DEF Found
<1>7. ASSUME NEW b \in Participant, OpKeyload(b)
      PROVE  UNCHANGED Audit!vars
  <2>1. /\ UNCHANGED cache /\ op.at = "keyloads" /\ b \in op.pending
        /\ status' = IF b = Author THEN status ELSE [status EXCEPT ![b] = "authorized"]
    BY <1>7 DEF OpKeyload
  <2>2. b \in User => status[b] \in {"requested", "authorized"}
    BY <1>1, <2>1 DEF Sound, Access, Operation, Authorizing, Renewing, Readers, Authorized, Shape, OpType, Revoking
  <2>3. b \in User /\ status[b] = "requested" => cache[b] = {}
    BY <1>1 DEF Books, Held
  <2>4. \A u \in User : Found(u)' = Found(u)
    BY <1>1, <2>1, <2>2, <2>3 DEF Found
  <2> QED
    BY <1>3, <2>4
<1>8. CASE OpRemove
  <2> DEFINE v == op.user
  <2>1. v \in User /\ v # Author
    BY <1>1, <1>8 DEF OpRemove, Shape
  <2>2. CASE op.at = "logs"
    <3>1. status[v] = "revoked"
      BY <1>8, <2>2 DEF OpRemove, Sound, Access, Operation, Renewing
    <3>2. /\ \A u \in User : u # v => cache'[u] = cache[u] /\ status'[u] = status[u]
          /\ status'[v] = "revoked"
      BY <1>1, <1>8, <2>1, <2>2, <3>1 DEF OpRemove
    <3>3. \A u \in User : Found(u)' = Found(u)
      BY <3>1, <3>2 DEF Found
    <3> QED
      BY <1>3, <3>3
  <2>3. CASE op.at = "keyloads"
    BY <1>4, <1>8, <2>3 DEF OpRemove
  <2>4. CASE op.at = "subscription"
    <3>1. /\ \A u \in User : cache'[u] = cache[u] /\ (u # v => status'[u] = status[u])
          /\ status'[v] = "revoked"
      BY <1>1, <1>8, <2>1, <2>4 DEF OpRemove
    <3>2. \E s \in User : /\ \A u \in User : u # s => Found(u)' = Found(u)
                          /\ Found(s)' = {}
      BY <2>1, <3>1 DEF Found
    <3>3. PICK s \in User : (\A u \in User : u # s => Found(u)' = Found(u)) /\ Found(s)' = {}
      BY <3>2
    <3>4. CASE s \in Subscriber
      <4>1. Audit!Forget(s)
        BY <1>2, <3>3, <3>4, Changes DEF Subscriber
      <4> QED
        BY <3>4, <4>1 DEF Audit!Next
    <3>5. CASE s \notin Subscriber
      <4>1. [u \in Subscriber |-> Found(u)]' = [u \in Subscriber |-> Found(u)]
        BY <3>3, <3>5 DEF Subscriber, MayRead
      <4> QED
        BY <1>2, <4>1 DEF Audit!vars, Found
    <3> QED
      BY <3>4, <3>5
  <2> QED
    BY <1>8, <2>2, <2>3, <2>4 DEF OpRemove
<1> QED
  BY <1>4, <1>5, <1>6, <1>7, <1>8 DEF Authorize, Revoke, BeginOp, OpFetch, OpSave, OpEnd

\* As long as no call fails half-way, a subscriber finds what it may read of
\* the channel up to some point, and what it wrote.
THEOREM Refines ==
  ASSUME "fail" \notin Event
  PROVE  Spec => ImplementsAuditLog
<1>1. Sound /\ Fetched /\ [Next]_vars => [Audit!Next]_Audit!vars
  <2> SUFFICES ASSUME Sound, Fetched, [Next]_vars PROVE Audit!Next \/ UNCHANGED Audit!vars
    OBVIOUS
  <2>1. CASE UNCHANGED vars
    BY <2>1 DEF vars, tasks, subscriptions, history, Audit!vars
  <2>2. CASE Next
    BY <2>2, AuditTask, AuditOp DEF Next
  <2> QED
    BY <2>1, <2>2
<1>2. Init => Sound /\ Fetched
  BY InitSound, InitFetched
<1>3. Sound /\ Fetched /\ [Next]_vars => (Sound /\ Fetched)'
  BY NextSound, NextFetched
<1> QED
  BY <1>1, <1>2, <1>3, AuditInit, PTL DEF Spec, ImplementsAuditLog, Audit!Spec
=============================================================================
