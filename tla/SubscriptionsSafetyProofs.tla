---------------------- MODULE SubscriptionsSafetyProofs ----------------------
(***************************************************************************)
(* Who may read what: proofs of the safety properties of Subscriptions,    *)
(* for any finite set of users, any keys (shared ones too), channel types, *)
(* kinds of subscription, events and any number of them.                   *)
(*                                                                         *)
(* The argument.  Keyload calls are served in order and an operation waits *)
(* for its own, which are the last (Lined): when it goes on to remove or   *)
(* list anything, the queue is empty.  So what the queue holds is for      *)
(* subscriptions that are approved, or that a DELETE took away; those stay *)
(* away as long as their state document is there (Gone).                   *)
(*                                                                         *)
(* Two more invariants are built on it.  Listed says of each user where in *)
(* its request or in the author's operation its id is to be found; Covered *)
(* says which readers' keys the branches and the pending keyloads name, as *)
(* an authorize adds one (Joining) or a revoke removes one (Leaving).      *)
(***************************************************************************)
EXTENDS SubscriptionsProofs

\* A subscription that is not there and cannot come back yet: a new request
\* throws on the state document.
Gone(u) == ~Live(u) /\ u \in stateDocs /\ req[u].pc # "addSub"

Approved(u) == u \in hist.approved \/ Gone(u)
Settled(u) == subs[u].authorized \/ Gone(u)

\* The author's handler works for op.who and has not removed anything yet.
Working == op.pc \in {"load", "fetch", "first", "rest"}

\* The calls that somebody awaits are the last in the queue, and what is on the
\* Tangle is the first.  While an operation awaits or has awaited its calls, the
\* queue ends with one of them or is empty.
Lined ==
  /\ op.pc \in {"fetch", "first"} => Author \in op.branches
  /\ op.pc \notin {"fetch", "first"} => op.branches = {} /\ op.keys = {}
  /\ op.pc = "first" => op.pending \subseteq {op.who}
  /\ op.pc = "delSub" => op.kind = "revoke"
  /\ op.pc \notin {"none", "load", "fetch"} /\ queue # << >> => queue[Len(queue)].live
  /\ \A i, j \in 1..Len(queue) : i < j /\ queue[i].live => queue[j].live
  /\ \A i \in 1..Len(queue) : queue[i].sent => i = 1
  /\ \A i \in 1..Len(queue) :
       queue[i].sent => keyload[queue[i].branch] \subseteq queue[i].keys

\* What the history and the requests say of the subscription documents.
Recorded ==
  /\ \A u \in hist.approved : Live(u) /\ subs[u].key \notin hist.revoked
  /\ \A u \in User : subs[u].authorized => Live(u)
  /\ \A u \in User : req[u].pc \in {"addState", "addSub"} => ~Live(u)
  /\ del.pc # "none" => "delete subscription" \in Events

\* While nothing has failed, every call is awaited, states go with subscriptions
\* and the author's state opens, but for the steps in between.
Whole ==
  ~hist.failed =>
    /\ \A i \in 1..Len(queue) : queue[i].live
    /\ StateBacked
    /\ \A u \in User : req[u].pc = "addSub" => u \in stateDocs
    /\ op.pc \notin {"first", "rest", "delSub", "delData", "unsubscribe",
                     "writeUnsubscribe", "forget", "writeForget", "save"} =>
         authorPassword = OwnPassword

\* What the author's operation and the queue still do is done for subscriptions
\* that are approved or gone.
Targets ==
  /\ op.kind = "authorize" /\ Working => Approved(op.who)
  /\ op.kind = "revoke" /\ Working => Live(op.who) \/ Gone(op.who)
  /\ \A u \in User : u \in op.branches => Approved(u) /\ Settled(u)
  /\ \A i \in 1..Len(queue) : queue[i].branch \in User =>
       /\ Approved(queue[i].branch)
       /\ Settled(queue[i].branch) \/ (queue[i].live /\ op.pc = "first")

\* Revoked keys are in no keyload, nor in those to come.
Keys ==
  /\ op.keys \cap hist.revoked = {}
  /\ op.kind = "authorize" /\ Working => op.key \notin hist.revoked
  /\ \A i \in 1..Len(queue) : queue[i].keys \cap hist.revoked = {}

\* A revoke renews every branch there is, after all that came before.
Renewing ==
  op.kind = "revoke" =>
    /\ op.key \notin op.keys
    /\ op.pc # "first"
    /\ op.pc = "fetch" => Readers \subseteq op.branches
    /\ op.pc = "rest" => \A i \in 1..Len(queue) :
         queue[i].live => op.key \notin queue[i].keys
    /\ op.pc \in {"rest", "delSub"} =>
         \A m \in Readers \cup {Author} :
           \/ \E i \in 1..Len(queue) :
                queue[i].live /\ ~queue[i].sent /\ queue[i].branch = m
           \/ op.key \notin keyload[m] /\ \A i \in 1..Len(queue) : queue[i].live

Safe ==
  /\ Lined /\ Recorded /\ Whole
  /\ Orderly => Targets /\ Keys /\ Renewing
  /\ AuthorizedOnlyIfApproved /\ RevokedKeyExcluded

Inv == Parts /\ Safe

-----------------------------------------------------------------------------
(* The queue between operations.                                           *)

\* What the calls of the queue are.
LEMMA CallsType ==
  ASSUME Parts
  PROVE  /\ queue \in Seq(Task) /\ Len(queue) \in Nat
         /\ \A i \in 1..Len(queue) :
              /\ queue[i] \in Task
              /\ queue[i].branch \in Member /\ queue[i].keys \subseteq Key
              /\ queue[i].live \in BOOLEAN /\ queue[i].sent \in BOOLEAN
<1>1. queue \in Seq(Task)
  BY DEF Parts, OpInv
<1>2. Len(queue) \in Nat /\ \A i \in 1..Len(queue) : queue[i] \in Task
  BY <1>1
<1> QED  BY <1>1, <1>2 DEF Task

\* A handler that awaits nothing has no live call.
LEMMA NoneLive ==
  ASSUME Parts, op.pending = {}
  PROVE  \A i \in 1..Len(queue) : ~queue[i].live
BY DEF Parts, OpInv, Agree

\* A handler that has had its calls served finds the queue empty.
LEMMA QueueEmpty ==
  ASSUME Inv, op.pending = {}, op.pc \notin {"none", "load", "fetch"}
  PROVE  queue = << >>
<1>1. SUFFICES ASSUME queue # << >> PROVE FALSE
  OBVIOUS
<1>2. queue \in Seq(Task)
  BY DEF Inv, Parts, OpInv
<1>3. Len(queue) \in 1..Len(queue)
  BY <1>1, <1>2
<1>4. queue[Len(queue)].live
  BY <1>1 DEF Inv, Safe, Lined
<1> QED  BY <1>3, <1>4, NoneLive DEF Inv

\* The calls of a handler that ended.
LEMMA OrphanedAt ==
  ASSUME NEW q \in Seq(Task)
  PROVE  /\ Len(Orphaned(q)) = Len(q) /\ Len(q) \in Nat
         /\ \A i \in 1..Len(q) :
              /\ ~Orphaned(q)[i].live
              /\ Orphaned(q)[i].branch = q[i].branch
              /\ Orphaned(q)[i].keys = q[i].keys
              /\ Orphaned(q)[i].sent = q[i].sent
<1>1. /\ DOMAIN q = 1..Len(q) /\ Len(q) \in Nat
      /\ \A i \in 1..Len(q) : q[i] \in Task
  OBVIOUS
<1>2. Orphaned(q) = [i \in 1..Len(q) |-> [q[i] EXCEPT !.live = FALSE]]
  BY <1>1 DEF Orphaned
<1>3. ASSUME NEW t \in Task
      PROVE  LET o == [t EXCEPT !.live = FALSE] IN
               ~o.live /\ o.branch = t.branch /\ o.keys = t.keys /\ o.sent = t.sent
  BY DEF Task
<1>4. Len(Orphaned(q)) = Len(q)
  BY <1>1, <1>2
<1> QED  BY <1>1, <1>2, <1>3, <1>4

-----------------------------------------------------------------------------
(* Steps that the author's operation takes no part in.                     *)

\* The author's side does something for the subscription of u.
Targeted(u) ==
  \/ op.kind # "none" /\ Working /\ op.who = u
  \/ u \in op.branches
  \/ \E i \in 1..Len(queue) : queue[i].branch = u

\* A step away from the author's side leaves its targets in order if it does so
\* with the subscriptions it works for.
LEMMA TargetsKept ==
  ASSUME Parts, Targets, UNCHANGED <<op, queue>>,
         \A u \in User : Targeted(u) =>
           /\ Approved(u) => Approved(u)'
           /\ Settled(u) => Settled(u)'
           /\ Live(u) \/ Gone(u) => Live(u)' \/ Gone(u)'
  PROVE  Targets'
<1>1. op.kind # "none" => op.who \in User
  BY DEF Parts, OpInv
<1>2. \A i \in 1..Len(queue) : queue[i].branch \in User => Targeted(queue[i].branch)
  BY DEF Targeted
<1>3. op.kind = "authorize" /\ Working => Approved(op.who)'
  BY <1>1 DEF Targeted, Targets
<1>4. op.kind = "revoke" /\ Working => Live(op.who)' \/ Gone(op.who)'
  BY <1>1 DEF Targeted, Targets
<1>5. \A u \in User : u \in op.branches => Approved(u)' /\ Settled(u)'
  BY DEF Targeted, Targets
<1>6. \A i \in 1..Len(queue') : queue'[i].branch \in User =>
        \A u \in User : u = queue'[i].branch =>
          Approved(u)' /\ (Settled(u)' \/ (queue'[i].live /\ op'.pc = "first"))
  BY <1>2 DEF Targets
<1>7. op' = op /\ (Working' <=> Working)
  BY DEF Working
<1>8. /\ (op.kind = "authorize" /\ Working => Approved(op.who))'
      /\ (op.kind = "revoke" /\ Working => Live(op.who) \/ Gone(op.who))'
  BY <1>3, <1>4, <1>7 DEF Approved, Live, Gone
<1>9. (\A i \in 1..Len(queue) : queue[i].branch \in User =>
         /\ Approved(queue[i].branch)
         /\ Settled(queue[i].branch) \/ (queue[i].live /\ op.pc = "first"))'
  BY <1>6 DEF Approved, Settled, Gone, Live
<1> QED  BY <1>5, <1>7, <1>8, <1>9 DEF Targets

\* The documents that say who may read what stay as they are; requests go on,
\* but none of them stores a state.
Aside ==
  /\ UNCHANGED <<op, queue, channelType, authorPassword, subs, stateDocs, keyload>>
  /\ hist.approved' = hist.approved /\ hist.revoked' = hist.revoked
  /\ hist.failed => hist.failed'
  /\ \A u \in User :
       /\ req'[u].pc \in {"addState", "addSub"} => ~Live(u)
       /\ req'[u].pc = "addSub" => req[u].pc = "addSub"
  /\ del'.pc # "none" => "delete subscription" \in Events

\* Such steps keep the invariant.
LEMMA AsideInv ==
  ASSUME Inv, Aside
  PROVE  Safe'
<1>1. Orderly' => Orderly
  BY DEF Aside, Orderly
<1>2. Lined'
  BY DEF Inv, Safe, Lined, Aside
<1>3. Recorded'
  BY DEF Inv, Safe, Recorded, Aside, Live
<1>4. Whole'
  BY DEF Inv, Safe, Whole, StateBacked, Aside, Live, OwnPassword
<1>5. ASSUME Orderly'
      PROVE  Targets' /\ Keys' /\ Renewing'
  <2>1. Targets /\ Keys /\ Renewing
    BY <1>1, <1>5 DEF Inv, Safe
  <2>2. \A u \in User : /\ Approved(u) => Approved(u)'
                        /\ Settled(u) => Settled(u)'
                        /\ Live(u) \/ Gone(u) => Live(u)' \/ Gone(u)'
    BY DEF Approved, Settled, Gone, Live, Aside
  <2>3. Targets'
    BY <2>1, <2>2, TargetsKept DEF Inv, Aside
  <2>4. Keys'
    BY <2>1 DEF Keys, Working, Aside
  <2>5. Renewing'
    BY <2>1 DEF Renewing, Readers, Aside
  <2> QED  BY <2>3, <2>4, <2>5
<1>6. AuthorizedOnlyIfApproved' /\ RevokedKeyExcluded'
  BY <1>1 DEF Inv, Safe, AuthorizedOnlyIfApproved, RevokedKeyExcluded, Readers, Aside
<1> QED  BY <1>2, <1>3, <1>4, <1>5, <1>6 DEF Safe

\* A user's request or retrieval that does not store a state or a subscription.
LEMMA UserAside ==
  ASSUME Inv, NEW u \in User,
         \/ RequestCheck(u) \/ RequestReadList(u) \/ RequestWriteList(u)
         \/ LogsSave(u) \/ LogsAdd(u) \/ RequestThrows(u)
  PROVE  Aside
<1> USE DEF docs, userDocs, channel, lists
<1>1. req \in [User -> [pc : ReqPc, kind : Kind, key : Key \cup {NoKey},
                        copy : SUBSET User]]
  BY DEF Inv, Parts, ReqType
<1>2. \A v \in User : req[v].pc \in {"addState", "addSub"} => ~Live(v)
  BY DEF Inv, Safe, Recorded
<1>3. del.pc # "none" => "delete subscription" \in Events
  BY DEF Inv, Safe, Recorded
<1>4. hist \in [approved : SUBSET User, revoked : SUBSET Key, late : SUBSET User,
                failed : BOOLEAN, raced : BOOLEAN]
  BY DEF Inv, Parts, HistType
<1>5. CASE RequestCheck(u)
  <2>1. /\ ~Live(u) /\ \A v \in User \ {u} : req'[v] = req[v]
        /\ req'[u].pc = "addState"
    <3>1. ASSUME NEW r, r.pc = "addState", req' = [req EXCEPT ![u] = r]
          PROVE  (\A v \in User \ {u} : req'[v] = req[v]) /\ req'[u].pc = "addState"
      BY <1>1, <3>1
    <3>2. /\ [NoReq EXCEPT !.pc = "addState", !.kind = "psk"].pc = "addState"
          /\ \A kind, k :
               [NoReq EXCEPT !.pc = "addState", !.kind = kind, !.key = k].pc = "addState"
      BY DEF NoReq
    <3>3. \E r : r.pc = "addState" /\ req' = [req EXCEPT ![u] = r]
      <4>1. \/ req' = [req EXCEPT ![u] = [NoReq EXCEPT !.pc = "addState", !.kind = "psk"]]
            \/ \E kind, k : req' = [req EXCEPT ![u] =
                 [NoReq EXCEPT !.pc = "addState", !.kind = kind, !.key = k]]
        BY <1>5, ZenonT(30) DEF RequestCheck
      <4> QED  BY <3>2, <4>1
    <3>4. ~Live(u)
      BY <1>5 DEF RequestCheck
    <3> QED  BY <3>1, <3>3, <3>4
  <2>2. /\ hist'.approved = hist.approved /\ hist'.revoked = hist.revoked
        /\ hist'.failed = hist.failed
    BY <1>4, <1>5 DEF RequestCheck
  <2> QED  BY <1>2, <1>3, <1>5, <2>1, <2>2 DEF RequestCheck, Aside
<1>6. CASE RequestReadList(u)
  <2>1. /\ \A v \in User \ {u} : req'[v] = req[v]
        /\ req'[u].pc \in {"none", "writeList"}
    BY <1>1, <1>6 DEF RequestReadList, FailReq, NoReq
  <2>2. /\ hist'.approved = hist.approved /\ hist'.revoked = hist.revoked
        /\ hist.failed => hist'.failed
    BY <1>4, <1>6 DEF RequestReadList, FailReq, Failed
  <2> QED  BY <1>2, <1>3, <1>6, <2>1, <2>2 DEF RequestReadList, Aside
<1>7. CASE RequestWriteList(u)
  <2>1. /\ \A v \in User \ {u} : req'[v] = req[v]
        /\ req'[u].pc = "none"
    BY <1>1, <1>7 DEF RequestWriteList, NoReq
  <2>2. /\ hist'.approved = hist.approved /\ hist'.revoked = hist.revoked
        /\ hist'.failed = hist.failed
    <3>1. \E read, ids : WriteSubscribers(read, ids) \/ WriteRequested(read, ids)
      BY <1>7 DEF RequestWriteList
    <3> QED  BY <1>4, <3>1 DEF WriteSubscribers, WriteRequested
  <2> QED  BY <1>2, <1>3, <1>7, <2>1, <2>2 DEF RequestWriteList, Aside
<1>8. CASE LogsSave(u)
  <2>1. /\ \A v \in User \ {u} : req'[v] = req[v]
        /\ req'[u].pc = "addData"
    BY <1>1, <1>8 DEF LogsSave
  <2> QED  BY <1>2, <1>3, <1>8, <2>1 DEF LogsSave, Aside
<1>9. CASE LogsAdd(u)
  BY <1>1, <1>2, <1>3, <1>4, <1>9 DEF LogsAdd, NoReq, Aside
<1>10. CASE RequestThrows(u)
  BY <1>1, <1>2, <1>3, <1>4, <1>10 DEF RequestThrows, FailReq, Failed, NoReq, Aside
<1> QED  BY <1>5, <1>6, <1>7, <1>8, <1>9, <1>10

\* A DELETE before it removes the subscription, the DELETE of the channel.
LEMMA DeleteAside ==
  ASSUME Inv,
         \/ DeleteRead \/ DeleteWrite \/ DeleteThrows \/ DeleteChannel
         \/ \E u \in User : DeleteCheck(u)
  PROVE  Aside
<1> USE DEF docs, userDocs, channel, lists
<1>1. \A v \in User : req[v].pc \in {"addState", "addSub"} => ~Live(v)
  BY DEF Inv, Safe, Recorded
<1>2. del.pc # "none" => "delete subscription" \in Events
  BY DEF Inv, Safe, Recorded
<1>3. hist \in [approved : SUBSET User, revoked : SUBSET Key, late : SUBSET User,
                failed : BOOLEAN, raced : BOOLEAN]
  BY DEF Inv, Parts, HistType
<1>4. CASE DeleteRead
  BY <1>1, <1>2, <1>3, <1>4 DEF DeleteRead, Failed, NoDel, Aside
<1>5. CASE DeleteWrite
  BY <1>1, <1>2, <1>3, <1>5 DEF DeleteWrite, WriteSubscribers, Aside
<1>6. CASE DeleteThrows
  BY <1>1, <1>2, <1>3, <1>6 DEF DeleteThrows, Failed, NoDel, Aside
<1>7. CASE DeleteChannel
  BY <1>1, <1>2, <1>3, <1>7 DEF DeleteChannel, Aside
<1>8. ASSUME NEW u \in User, DeleteCheck(u)
      PROVE  Aside
  BY <1>1, <1>2, <1>3, <1>8 DEF DeleteCheck, Aside
<1> QED  BY <1>4, <1>5, <1>6, <1>7, <1>8

-----------------------------------------------------------------------------
(* The steps of others that disturb the documents.                         *)

\* A request that stores a state: nobody has a subscription or a state there.
LEMMA RequestStateSafe ==
  ASSUME Inv, NEW u \in User, RequestState(u)
  PROVE  Safe'
<1> USE DEF channel, lists
<1>1. req \in [User -> [pc : ReqPc, kind : Kind, key : Key \cup {NoKey},
                        copy : SUBSET User]]
  BY DEF Inv, Parts, ReqType
<1>2. /\ req[u].pc = "addState" /\ ~Live(u)
      /\ \A v \in User : req[v].pc \in {"addState", "addSub"} => ~Live(v)
      /\ del.pc # "none" => "delete subscription" \in Events
  BY DEF RequestState, Inv, Safe, Recorded
<1>3. CASE u \in stateDocs
  <2>1. /\ \A v \in User \ {u} : req'[v] = req[v]
        /\ req'[u].pc = "none"
    BY <1>1, <1>3 DEF RequestState, NoReq
  <2> QED  BY <1>2, <1>3, <2>1, AsideInv DEF RequestState, Aside
<1>4. CASE u \notin stateDocs
  <2>1. /\ \A v \in User \ {u} : req'[v] = req[v]
        /\ req'[u].pc = "addSub" /\ stateDocs' = stateDocs \cup {u}
    BY <1>1, <1>4 DEF RequestState, StateAdded
  <2>2. UNCHANGED <<op, queue, channelType, authorPassword, subs, keyload, del, hist>>
    BY DEF RequestState
  <2>3. Lined'
    BY <2>2 DEF Inv, Safe, Lined
  <2>4. Recorded'
    BY <1>2, <2>1, <2>2 DEF Inv, Safe, Recorded, Live
  <2>5. Whole'
    BY <2>1, <2>2 DEF Inv, Safe, Whole, StateBacked, Live, OwnPassword
  <2>6. ASSUME Orderly'
        PROVE  Targets' /\ Keys' /\ Renewing'
    <3>1. Targets /\ Keys /\ Renewing
      BY <2>2, <2>6 DEF Inv, Safe, Orderly
    <3>2. \A v \in User : /\ Approved(v) => Approved(v)'
                          /\ Settled(v) => Settled(v)'
                          /\ Live(v) \/ Gone(v) => Live(v)' \/ Gone(v)'
      BY <1>2, <1>4, <2>1, <2>2 DEF Approved, Settled, Gone, Live
    <3>3. Targets'
      BY <2>2, <3>1, <3>2, TargetsKept DEF Inv
    <3>4. Keys' /\ Renewing'
      BY <2>2, <3>1 DEF Keys, Working, Renewing, Readers
    <3> QED  BY <3>3, <3>4
  <2>7. AuthorizedOnlyIfApproved' /\ RevokedKeyExcluded'
    BY <2>2 DEF Inv, Safe, AuthorizedOnlyIfApproved, RevokedKeyExcluded, Readers, Orderly
  <2> QED  BY <2>3, <2>4, <2>5, <2>6, <2>7 DEF Safe
<1> QED  BY <1>3, <1>4

\* A new subscription: what the author's side still works for are others.
LEMMA RequestSubSafe ==
  ASSUME Inv, NEW u \in User, RequestSub(u)
  PROVE  Safe'
<1> USE DEF channel, lists
<1>1. /\ req \in [User -> [pc : ReqPc, kind : Kind, key : Key \cup {NoKey},
                           copy : SUBSET User]]
      /\ subs \in [User -> [kind : Kind, key : Key \cup {NoKey}, authorized : BOOLEAN]]
  BY DEF Inv, Parts, ReqType, SubsType
<1>2. /\ req[u].pc = "addSub" /\ ~Live(u) /\ ~subs[u].authorized
      /\ u \notin hist.approved
  BY DEF RequestSub, Inv, Safe, Recorded
<1>3. /\ \A v \in User \ {u} : req'[v] = req[v] /\ subs'[v] = subs[v]
      /\ req'[u].pc = "readList"
      /\ subs'[u].kind = req[u].kind
      /\ subs'[u].authorized <=> req[u].kind \in {"psk", "open"}
  BY <1>1 DEF RequestSub, AuthorizedAtOnce
<1>4. UNCHANGED <<op, queue, channelType, authorPassword, stateDocs, keyload, del, hist>>
  BY DEF RequestSub
<1>5. Readers' = Readers
  BY <1>2, <1>3 DEF Readers
<1>6. Lined'
  BY <1>4 DEF Inv, Safe, Lined
<1>7. Recorded'
  <2>1. \A v \in User \ {u} : subs'[v] = subs[v]
    BY <1>3
  <2>2. Recorded
    BY DEF Inv, Safe
  <2>3. \A v \in User : v # u => (Live(v)' <=> Live(v))
    BY <2>1 DEF Live
  <2>4. subs'[u].authorized => Live(u)'
    BY <1>3 DEF Live
  <2>5. \A v \in User : v \in hist.approved => v # u
    BY <1>2
  <2>6. hist.approved \subseteq User
    BY DEF Inv, Parts, HistType
  <2> QED  BY <1>2, <1>3, <1>4, <2>1, <2>2, <2>3, <2>4, <2>5, <2>6 DEF Recorded
<1>8. Whole'
  BY <1>2, <1>3, <1>4 DEF Inv, Safe, Whole, StateBacked, Live, OwnPassword
<1>9. ASSUME Orderly'
      PROVE  Targets' /\ Keys' /\ Renewing'
  <2>1. Targets /\ Keys /\ Renewing
    BY <1>4, <1>9 DEF Inv, Safe, Orderly
  <2>2. \A v \in User : /\ Approved(v) => Approved(v)'
                        /\ Settled(v) => Settled(v)'
                        /\ Live(v) \/ Gone(v) => Live(v)' \/ Gone(v)'
    BY <1>2, <1>3, <1>4 DEF Approved, Settled, Gone, Live
  <2>3. Targets'
    BY <1>4, <2>1, <2>2, TargetsKept DEF Inv
  <2>4. Keys' /\ Renewing'
    BY <1>4, <1>5, <2>1 DEF Keys, Working, Renewing
  <2> QED  BY <2>3, <2>4
<1>10. AuthorizedOnlyIfApproved' /\ RevokedKeyExcluded'
  BY <1>3, <1>4, <1>5
  DEF Inv, Safe, AuthorizedOnlyIfApproved, RevokedKeyExcluded, Orderly
<1> QED  BY <1>6, <1>7, <1>8, <1>9, <1>10 DEF Safe

\* A DELETE takes a subscription away; its state stays, so that it is gone.
LEMMA DeleteRemoveSafe ==
  ASSUME Inv, DeleteRemove
  PROVE  Safe'
<1> USE DEF channel, lists
<1>0. PICK u \in User : u = del.who
  BY DEF DeleteRemove, Inv, Parts, DelType
<1>1. /\ u # Author
      /\ subs \in [User -> [kind : Kind, key : Key \cup {NoKey}, authorized : BOOLEAN]]
      /\ keyload \in [Member -> SUBSET Key]
      /\ hist \in [approved : SUBSET User, revoked : SUBSET Key, late : SUBSET User,
                   failed : BOOLEAN, raced : BOOLEAN]
  BY AuthorAssumption DEF Inv, Parts, SubsType, KeyloadType, HistType
<1>2. /\ \A v \in User \ {u} : subs'[v] = subs[v]
      /\ subs'[u] = NoSub /\ ~Live(u)' /\ ~subs'[u].authorized
      /\ \A m \in Member \ {u} : keyload'[m] = keyload[m]
      /\ keyload'[u] = {}
      /\ hist'.approved = hist.approved \ {u} /\ hist'.revoked = hist.revoked
      /\ hist'.failed = hist.failed
      /\ del'.pc = "none"
  <2>1. /\ subs' = [subs EXCEPT ![u] = NoSub]
        /\ keyload' = [keyload EXCEPT ![u] = {}]
        /\ hist' = [hist EXCEPT !.approved = @ \ {u}]
        /\ del' = NoDel
    BY <1>0 DEF DeleteRemove, RemoveSub
  <2>2. u \in Member
    BY DEF Member
  <2> QED  BY <1>1, <2>1, <2>2 DEF NoSub, NoDel, Live
<1>3. UNCHANGED <<op, queue, channelType, authorPassword, stateDocs, req>>
  BY DEF DeleteRemove
<1>4. Readers' = Readers \ {u} /\ Readers \subseteq Member /\ Author \in Member
  BY <1>1, <1>2 DEF Readers, Member
<1>5. "delete subscription" \in Events
  BY DEF DeleteRemove, Inv, Safe, Recorded
<1>6. \A i \in 1..Len(queue) : queue[i].branch \in Member
  BY CallsType DEF Inv
<1>7. Lined'
  BY <1>1, <1>2, <1>3, <1>6 DEF Inv, Safe, Lined
<1>8. Recorded'
  <2>1. Recorded
    BY DEF Inv, Safe
  <2>2. \A v \in User : v # u => (Live(v)' <=> Live(v))
    BY <1>2 DEF Live
  <2> QED  BY <1>1, <1>2, <1>3, <2>1, <2>2 DEF Recorded
<1>9. Whole'
  BY <1>1, <1>2, <1>3 DEF Inv, Safe, Whole, StateBacked, Live, OwnPassword
<1>10. ASSUME Orderly'
       PROVE  Targets' /\ Keys' /\ Renewing'
  <2>1. ~hist.failed /\ Targets /\ Keys /\ Renewing
    BY <1>2, <1>5, <1>10 DEF Inv, Safe, Orderly
  <2>2. ASSUME Targeted(u), Live(u)
        PROVE  Gone(u)'
    <3>1. u \in stateDocs
      <4>1. SUFFICES ASSUME op.pc = "delSub" PROVE ~Targeted(u)
        BY <1>1, <2>1, <2>2 DEF Inv, Safe, Whole, StateBacked
      <4>2. queue = << >>
        BY <4>1, QueueEmpty DEF Inv, Parts, OpInv
      <4>3. op.branches = {} /\ ~Working
        BY <4>1 DEF Inv, Safe, Lined, Working
      <4> QED  BY <4>2, <4>3 DEF Targeted
    <3>2. req[u].pc # "addSub"
      BY <1>1, <2>2 DEF Inv, Safe, Recorded
    <3> QED  BY <1>2, <1>3, <3>1, <3>2 DEF Gone
  <2>3. Gone(u) => Gone(u)'
    BY <1>2, <1>3 DEF Gone
  <2>4. (u \in hist.approved => Live(u)) /\ (subs[u].authorized => Live(u))
    BY <1>1 DEF Inv, Safe, Recorded
  <2>5. ASSUME NEW v \in User, Targeted(v)
        PROVE  /\ Approved(v) => Approved(v)'
               /\ Settled(v) => Settled(v)'
               /\ Live(v) \/ Gone(v) => Live(v)' \/ Gone(v)'
    <3>1. CASE v = u
      BY <2>2, <2>3, <2>4, <2>5, <3>1 DEF Approved, Settled
    <3>2. CASE v # u
      BY <1>2, <1>3, <3>2 DEF Approved, Settled, Gone, Live
    <3> QED  BY <3>1, <3>2
  <2>6. Targets'
    BY <1>3, <2>1, <2>5, TargetsKept DEF Inv
  <2>7. Keys'
    BY <1>2, <1>3, <2>1 DEF Keys, Working
  <2>8. Renewing'
    BY <1>1, <1>2, <1>3, <1>4, <2>1 DEF Renewing
  <2> QED  BY <2>6, <2>7, <2>8
<1>11. AuthorizedOnlyIfApproved' /\ RevokedKeyExcluded'
  BY <1>1, <1>2, <1>4 DEF Inv, Safe, AuthorizedOnlyIfApproved, RevokedKeyExcluded, Orderly
<1> QED  BY <1>7, <1>8, <1>9, <1>10, <1>11 DEF Safe

-----------------------------------------------------------------------------
(* The author's operations: before and after their keyloads.               *)

\* The author takes up a subscription that has a key.
LEMMA LoadSafe ==
  ASSUME Inv, NEW u \in User, Authorize(u) \/ Revoke(u)
  PROVE  Safe'
<1> USE DEF docs, userDocs, channel, lists
<1>1. PICK kind \in {"authorize", "revoke"} :
        Load(kind, u) /\ (kind = "authorize" => Authorize(u))
                      /\ (kind = "revoke" => Revoke(u))
  BY DEF Authorize, Revoke
<1>2. /\ op'.kind = kind /\ op'.pc = "load" /\ op'.who = u
      /\ op'.key = subs[u].key /\ op'.branches = {} /\ op'.keys = {}
      /\ op.pc = "none" /\ op.pending = {}
  BY <1>1 DEF Load, NoOp, Inv, Parts, OpInv
<1>3. UNCHANGED <<queue, channelType, authorPassword, subs, stateDocs, keyload, req, del>>
  BY <1>1 DEF Load
<1>4. Live(u)
  BY DEF Authorize, Authorizable, Revoke, Revocable
<1>5. /\ hist'.failed = hist.failed
      /\ hist'.revoked \subseteq hist.revoked /\ hist.approved \subseteq hist'.approved
      /\ hist'.approved \subseteq hist.approved \cup {u}
      /\ kind = "authorize" => u \in hist'.approved
      /\ u \in hist'.approved /\ u \notin hist.approved => subs[u].key \notin hist'.revoked
      /\ kind = "authorize" => subs[u].key \notin hist'.revoked
  <2>1. hist \in [approved : SUBSET User, revoked : SUBSET Key, late : SUBSET User,
                  failed : BOOLEAN, raced : BOOLEAN]
    BY DEF Inv, Parts, HistType
  <2> QED  BY <1>1, <2>1 DEF Authorize, Revoke
<1>6. Lined'
  BY <1>2, <1>3 DEF Inv, Safe, Lined
<1>7. Recorded'
  BY <1>3, <1>4, <1>5 DEF Inv, Safe, Recorded, Live
<1>8. Whole'
  BY <1>2, <1>3, <1>5 DEF Inv, Safe, Whole, StateBacked, Live, OwnPassword
<1>9. ASSUME Orderly'
      PROVE  Targets' /\ Keys' /\ Renewing'
  <2>1. Targets /\ Keys
    BY <1>5, <1>9 DEF Inv, Safe, Orderly
  <2>2. Targets'
    BY <1>2, <1>3, <1>4, <1>5, <2>1 DEF Targets, Approved, Settled, Gone, Live
  <2>3. Keys'
    BY <1>2, <1>3, <1>5, <2>1 DEF Keys
  <2>4. Renewing'
    BY <1>2 DEF Renewing
  <2> QED  BY <2>2, <2>3, <2>4
<1>10. AuthorizedOnlyIfApproved' /\ RevokedKeyExcluded'
  BY <1>3, <1>5
  DEF Inv, Safe, AuthorizedOnlyIfApproved, RevokedKeyExcluded, Orderly, Readers
<1> QED  BY <1>6, <1>7, <1>8, <1>9, <1>10 DEF Safe

\* A handler that throws while it awaits no keyload.
LEMMA FailOpSafe ==
  ASSUME Inv, FailOp, op.pending = {},
         UNCHANGED <<channelType, authorPassword, subs, stateDocs, keyload, req, del>>
  PROVE  Safe'
<1>1. /\ op'.kind = "none" /\ op'.pc = "none" /\ op'.branches = {} /\ op'.keys = {}
  BY DEF FailOp, NoOp
<1>2. /\ hist'.failed
      /\ hist'.approved = hist.approved /\ hist'.revoked = hist.revoked
  BY DEF FailOp, Failed, Inv, Parts, HistType
<1>3. /\ Len(queue') = Len(queue) /\ Len(queue) \in Nat
      /\ \A i \in 1..Len(queue) :
           /\ ~queue'[i].live
           /\ queue'[i].branch = queue[i].branch
           /\ queue'[i].keys = queue[i].keys
           /\ queue'[i].sent = queue[i].sent
  BY OrphanedAt, CallsType DEF FailOp, Inv
<1>4. \A i \in 1..Len(queue) : ~queue[i].live
  BY NoneLive DEF Inv
<1>5. Lined'
  BY <1>1, <1>3 DEF Inv, Safe, Lined
<1>6. Recorded'
  BY <1>2 DEF Inv, Safe, Recorded, Live
<1>7. Whole'
  BY <1>2 DEF Whole
<1>8. Orderly' => Orderly
  BY <1>2 DEF Orderly
<1>9. ASSUME Orderly'
      PROVE  Targets' /\ Keys' /\ Renewing'
  <2>1. Targets /\ Keys
    BY <1>8, <1>9 DEF Inv, Safe
  <2>2. \A v : /\ Approved(v) => Approved(v)'
               /\ Settled(v) => Settled(v)'
    BY <1>2 DEF Approved, Settled, Gone, Live
  <2>3. \A i \in 1..Len(queue) : queue[i].branch \in User =>
          \A v : v = queue[i].branch => Approved(v)' /\ Settled(v)'
    BY <1>4, <2>1, <2>2 DEF Targets
  <2>4. Targets'
    BY <1>1, <1>3, <2>3 DEF Targets, Working, Approved, Settled, Gone, Live
  <2>5. Keys'
    BY <1>1, <1>2, <1>3, <2>1 DEF Keys
  <2>6. Renewing'
    BY <1>1 DEF Renewing
  <2> QED  BY <2>4, <2>5, <2>6
<1>10. AuthorizedOnlyIfApproved' /\ RevokedKeyExcluded'
  BY <1>2, <1>8
  DEF Inv, Safe, AuthorizedOnlyIfApproved, RevokedKeyExcluded, Readers
<1> QED  BY <1>5, <1>6, <1>7, <1>9, <1>10 DEF Safe

\* What is gathered is what holds now: readers are approved, and the keys of
\* those that are approved are not revoked.
LEMMA GatherSafe ==
  ASSUME Inv, Gather
  PROVE  Safe'
<1> USE DEF docs, userDocs, channel, lists
<1>1. op.pending = {} /\ op.pc = "load" /\ op.kind \in {"authorize", "revoke"}
  BY DEF Gather, Inv, Parts, OpInv
<1>2. CASE FailOp
  BY <1>1, <1>2, FailOpSafe DEF Gather
<1>3. CASE ~FailOp
  <2>1. PICK keys : /\ keys = IF op.kind = "revoke" THEN KeysWithout(op.key) ELSE ReaderKeys
                    /\ op' = [op EXCEPT !.pc = "fetch", !.branches = Readers \cup {Author},
                                        !.keys = keys]
    BY <1>3 DEF Gather
  <2>2. /\ op'.kind = op.kind /\ op'.pc = "fetch" /\ op'.who = op.who
        /\ op'.key = op.key /\ op'.branches = Readers \cup {Author} /\ op'.keys = keys
        /\ op'.pending = {}
    BY <1>1, <2>1 DEF Inv, Parts, OpInv
  <2>3. /\ UNCHANGED <<queue, channelType, authorPassword, subs, stateDocs, keyload,
                       req, del, hist>>
        /\ authorPassword = OwnPassword
    BY <1>3 DEF Gather
  <2>4. Lined'
    BY <1>1, <2>2, <2>3 DEF Inv, Safe, Lined
  <2>5. Recorded'
    BY <2>3 DEF Inv, Safe, Recorded, Live
  <2>6. Whole'
    BY <1>1, <2>2, <2>3 DEF Inv, Safe, Whole, StateBacked, Live, OwnPassword
  <2>7. ASSUME Orderly'
        PROVE  Targets' /\ Keys' /\ Renewing'
    <3>1. Orderly /\ Targets /\ Keys
      BY <2>3, <2>7 DEF Inv, Safe, Orderly
    <3>2. \A v \in Readers : /\ v \in User /\ subs[v].authorized
                             /\ v \in hist.approved /\ subs[v].key \notin hist.revoked
      BY <3>1 DEF Readers, Inv, Safe, AuthorizedOnlyIfApproved, Recorded
    <3>3. keys \cap hist.revoked = {} /\ (op.kind = "revoke" => op.key \notin keys)
      BY <2>1, <3>2 DEF KeysWithout, ReaderKeys
    <3>4. \A v \in User : /\ Approved(v)' <=> Approved(v)
                          /\ Settled(v)' <=> Settled(v)
                          /\ Live(v)' <=> Live(v)
                          /\ Gone(v)' <=> Gone(v)
      BY <2>3 DEF Approved, Settled, Gone, Live
    <3>5. Working' /\ Working
      BY <1>1, <2>2 DEF Working
    <3>6. \A v \in User : v \in Readers => Approved(v)' /\ Settled(v)'
      BY <3>2, <3>4 DEF Approved, Settled
    <3>7. (\A v \in User : v \in op.branches => Approved(v) /\ Settled(v))'
      BY <2>2, <3>6, AuthorAssumption
    <3>8. (\A i \in 1..Len(queue) : queue[i].branch \in User =>
             /\ Approved(queue[i].branch)
             /\ Settled(queue[i].branch) \/ (queue[i].live /\ op.pc = "first"))'
      BY <1>1, <2>3, <3>1 DEF Targets, Approved, Settled, Gone, Live
    <3>9. (/\ op.kind = "authorize" /\ Working => Approved(op.who)
           /\ op.kind = "revoke" /\ Working => Live(op.who) \/ Gone(op.who))'
      BY <2>2, <2>3, <3>1, <3>5 DEF Targets, Approved, Gone, Live
    <3>10. Targets'
      BY <3>7, <3>8, <3>9 DEF Targets
    <3>11. Keys'
      BY <2>2, <2>3, <3>1, <3>3, <3>5 DEF Keys
    <3>12. Renewing'
      BY <2>2, <2>3, <3>3 DEF Renewing, Readers
    <3> QED  BY <3>10, <3>11, <3>12
  <2>8. AuthorizedOnlyIfApproved' /\ RevokedKeyExcluded'
    BY <2>3 DEF Inv, Safe, AuthorizedOnlyIfApproved, RevokedKeyExcluded, Orderly, Readers
  <2> QED  BY <2>4, <2>5, <2>6, <2>7, <2>8 DEF Safe
<1> QED  BY <1>2, <1>3

\* After its keyloads a handler goes on to steps that send none.
LEMMA LateSafe ==
  ASSUME Inv, queue = << >>, queue' = << >>, op.pc # "delSub",
         op'.pc \notin {"load", "fetch", "first", "rest", "delSub"},
         op'.branches = {}, op'.keys = {},
         op'.pc \notin {"delData", "unsubscribe", "writeUnsubscribe", "forget",
                        "writeForget", "save"} /\ ~hist.failed =>
           authorPassword' = OwnPassword,
         UNCHANGED <<channelType, subs, stateDocs, keyload, req, del>>,
         hist'.failed = hist.failed, hist'.approved = hist.approved,
         hist'.revoked = hist.revoked
  PROVE  Safe'
<1>1. Lined'
  BY DEF Lined
<1>2. Recorded'
  BY DEF Inv, Safe, Recorded, Live
<1>3. Whole'
  BY DEF Inv, Safe, Whole, StateBacked, Live, OwnPassword
<1>4. Targets'
  BY DEF Targets, Working
<1>5. ASSUME Orderly'
      PROVE  Keys' /\ Renewing'
  BY DEF Keys, Working, Renewing
<1>6. AuthorizedOnlyIfApproved' /\ RevokedKeyExcluded'
  BY DEF Inv, Safe, AuthorizedOnlyIfApproved, RevokedKeyExcluded, Orderly, Readers
<1> QED  BY <1>1, <1>2, <1>3, <1>4, <1>5, <1>6 DEF Safe

\* A list is read, or the handler throws.
LEMMA ReadListSafe ==
  ASSUME Inv, NEW from \in {"unrequest", "subscribe", "unsubscribe", "forget"},
         NEW to, NEW ids, ReadList(from, ids, to),
         from \in {"unrequest", "subscribe"} <=> to \in {"writeRequested", "writeSubscribers"},
         to \in {"writeRequested", "writeSubscribers", "writeUnsubscribe", "writeForget"}
  PROVE  Safe'
<1> USE DEF docs, userDocs, channel, lists
<1>1. op.pending = {} /\ op.pc = from
  BY DEF ReadList, Inv, Parts, OpInv
<1>2. CASE FailOp
  BY <1>1, <1>2, FailOpSafe DEF ReadList
<1>3. CASE ~FailOp
  <2>1. /\ op'.pc = to /\ op'.branches = op.branches /\ op'.keys = op.keys
        /\ queue' = queue
    BY <1>3 DEF ReadList, Inv, Parts, OpInv
  <2>2. op.branches = {} /\ op.keys = {} /\ queue = << >>
    BY <1>1, QueueEmpty DEF Inv, Safe, Lined
  <2>3. from \in {"unrequest", "subscribe"} /\ ~hist.failed => authorPassword = OwnPassword
    BY <1>1 DEF Inv, Safe, Whole
  <2>4. /\ UNCHANGED <<channelType, authorPassword, subs, stateDocs, keyload, req, del>>
        /\ hist'.failed = hist.failed /\ hist'.approved = hist.approved
        /\ hist'.revoked = hist.revoked
    BY <1>3 DEF ReadList
  <2>5. op'.pc \notin {"delData", "unsubscribe", "writeUnsubscribe", "forget",
                       "writeForget", "save"} /\ ~hist.failed =>
          authorPassword' = OwnPassword
    BY <2>1, <2>3, <2>4
  <2>6. op.pc # "delSub"
    BY <1>1
  <2>7. op'.pc \notin {"load", "fetch", "first", "rest", "delSub"}
    BY <2>1
  <2> QED  BY <2>7, <2>1, <2>2, <2>4, <2>5, <2>6, LateSafe
<1> QED  BY <1>2, <1>3

\* The steps that write a list, and those that save the author's state.
LEMMA LateStepSafe ==
  ASSUME Inv,
         \/ AuthorizeSave \/ WriteUnrequest \/ WriteSubscribe
         \/ WriteUnsubscribe \/ WriteForget \/ RevokeSave \/ RevokeData
  PROVE  Safe'
<1> USE DEF docs, userDocs, channel, lists
<1>1. op \in [kind : {"none", "authorize", "revoke"}, pc : OpPc,
              who : User \cup {NoUser}, key : Key \cup {NoKey},
              authorized : BOOLEAN, branches : SUBSET Member,
              keys : SUBSET Key, pending : SUBSET Member, copy : SUBSET User]
  BY DEF Inv, Parts, OpInv
<1>2. op.pending = {} /\ op.pc \notin {"none", "load", "fetch", "first", "delSub"}
  BY DEF AuthorizeSave, WriteUnrequest, WriteSubscribe, WriteUnsubscribe, WriteForget,
         RevokeSave, RevokeData, Inv, Parts, OpInv
<1>3. op.branches = {} /\ op.keys = {} /\ queue = << >>
  BY <1>2, QueueEmpty DEF Inv, Safe, Lined
<1>4. queue' = << >> /\ UNCHANGED <<channelType, subs, stateDocs, keyload, req, del>>
  BY <1>3 DEF AuthorizeSave, WriteUnrequest, WriteSubscribe, WriteUnsubscribe,
              WriteForget, RevokeSave, RevokeData
<1>5. /\ hist'.failed = hist.failed /\ hist'.approved = hist.approved
      /\ hist'.revoked = hist.revoked
  <2>1. \/ UNCHANGED hist
        \/ \E read, ids : WriteSubscribers(read, ids) \/ WriteRequested(read, ids)
        \/ hist' = [hist EXCEPT !.late = @ \ {op.who}]
    BY DEF AuthorizeSave, WriteUnrequest, WriteSubscribe, WriteUnsubscribe,
           WriteForget, RevokeSave, RevokeData
  <2>2. hist \in [approved : SUBSET User, revoked : SUBSET Key, late : SUBSET User,
                  failed : BOOLEAN, raced : BOOLEAN]
    BY DEF Inv, Parts, HistType
  <2>3. ASSUME NEW read, NEW ids,
               WriteSubscribers(read, ids) \/ WriteRequested(read, ids)
        PROVE  /\ hist'.failed = hist.failed /\ hist'.approved = hist.approved
               /\ hist'.revoked = hist.revoked
    BY <2>2, <2>3 DEF WriteSubscribers, WriteRequested
  <2> QED  BY <2>1, <2>2, <2>3
<1>6. /\ op'.pc \notin {"load", "fetch", "first", "rest", "delSub"}
      /\ op'.branches = {} /\ op'.keys = {}
  <2>1. \/ op' = NoOp
        \/ \E to \in {"unrequest", "subscribe", "save", "unsubscribe", "forget"} :
             op' = [op EXCEPT !.pc = to] \/ op' = [op EXCEPT !.pc = to, !.copy = {}]
    BY DEF AuthorizeSave, WriteUnrequest, WriteSubscribe, WriteUnsubscribe,
           WriteForget, RevokeSave, RevokeData, ListToLeave
  <2>2. ASSUME NEW to \in {"unrequest", "subscribe", "save", "unsubscribe", "forget"},
               op' = [op EXCEPT !.pc = to] \/ op' = [op EXCEPT !.pc = to, !.copy = {}]
        PROVE  op'.pc = to /\ op'.branches = op.branches /\ op'.keys = op.keys
    BY <1>1, <2>2
  <2>3. CASE op' = NoOp
    BY <2>3 DEF NoOp
  <2> QED  BY <1>3, <2>1, <2>2, <2>3
<1>7. CASE AuthorizeSave \/ RevokeSave
  BY <1>2, <1>3, <1>4, <1>5, <1>6, <1>7, LateSafe
  DEF AuthorizeSave, RevokeSave, SavedPassword, OwnPassword
<1>8. CASE WriteUnrequest \/ WriteSubscribe
  <2>1. ~hist.failed => authorPassword = OwnPassword
    BY <1>8 DEF WriteUnrequest, WriteSubscribe, Inv, Safe, Whole
  <2> QED  BY <1>2, <1>3, <1>4, <1>5, <1>6, <1>8, <2>1, LateSafe
           DEF WriteUnrequest, WriteSubscribe
<1>9. CASE WriteUnsubscribe \/ WriteForget \/ RevokeData
  <2>1. op'.pc \in {"unsubscribe", "forget", "save"}
    BY <1>1, <1>9 DEF WriteUnsubscribe, WriteForget, RevokeData, ListToLeave
  <2> QED  BY <1>2, <1>3, <1>4, <1>5, <1>6, <2>1, LateSafe
<1> QED  BY <1>7, <1>8, <1>9

\* Every branch has been renewed without the key when the state goes.
LEMMA RevokeStateSafe ==
  ASSUME Inv, RevokeState
  PROVE  Safe'
<1> USE DEF channel, lists
<1>1. op \in [kind : {"none", "authorize", "revoke"}, pc : OpPc,
              who : User \cup {NoUser}, key : Key \cup {NoKey},
              authorized : BOOLEAN, branches : SUBSET Member,
              keys : SUBSET Key, pending : SUBSET Member, copy : SUBSET User]
  BY DEF Inv, Parts, OpInv
<1>2. op.kind = "revoke" /\ op.pc = "rest" /\ op.pending = {} /\ op.who \in User
  BY DEF RevokeState, Inv, Parts, OpInv
<1>3. queue = << >> /\ op.branches = {} /\ op.keys = {}
  BY <1>2, QueueEmpty DEF Inv, Safe, Lined
<1>4. /\ op'.kind = "revoke" /\ op'.pc = "delSub" /\ op'.who = op.who
      /\ op'.key = op.key /\ op'.branches = {} /\ op'.keys = {}
  BY <1>1, <1>2, <1>3 DEF RevokeState
<1>5. /\ UNCHANGED <<queue, channelType, authorPassword, subs, keyload, req, del, hist>>
      /\ stateDocs' = stateDocs \ {op.who}
  BY DEF RevokeState
<1>6. Lined'
  BY <1>3, <1>4, <1>5 DEF Lined
<1>7. Recorded'
  BY <1>5 DEF Inv, Safe, Recorded, Live
<1>8. Whole'
  <2>1. ~hist.failed => req[op.who].pc # "addSub"
    BY <1>2 DEF Inv, Safe, Orderly, Targets, Working, Gone, Recorded
  <2> QED  BY <1>2, <1>3, <1>4, <1>5, <2>1 DEF Inv, Safe, Whole, StateBacked, Live
<1>9. Targets'
  BY <1>3, <1>4, <1>5 DEF Targets, Working
<1>10. ASSUME Orderly'
       PROVE  Keys' /\ Renewing'
  <2>1. Renewing
    BY <1>5, <1>10 DEF Inv, Safe, Orderly
  <2>2. \A m \in Readers \cup {Author} : op.key \notin keyload[m]
    BY <1>2, <1>3, <2>1 DEF Renewing
  <2>3. Keys'
    BY <1>3, <1>4, <1>5 DEF Keys, Working
  <2>4. Renewing'
    BY <1>3, <1>4, <1>5, <2>2 DEF Renewing, Readers
  <2> QED  BY <2>3, <2>4
<1>11. AuthorizedOnlyIfApproved' /\ RevokedKeyExcluded'
  BY <1>5 DEF Inv, Safe, AuthorizedOnlyIfApproved, RevokedKeyExcluded, Orderly, Readers
<1> QED  BY <1>6, <1>7, <1>8, <1>9, <1>10, <1>11 DEF Safe

\* The subscription goes: its key is on no branch and in no call.
LEMMA RevokeSubSafe ==
  ASSUME Inv, RevokeSub
  PROVE  Safe'
<1> USE DEF channel, lists
<1>1. /\ op \in [kind : {"none", "authorize", "revoke"}, pc : OpPc,
                 who : User \cup {NoUser}, key : Key \cup {NoKey},
                 authorized : BOOLEAN, branches : SUBSET Member,
                 keys : SUBSET Key, pending : SUBSET Member, copy : SUBSET User]
      /\ subs \in [User -> [kind : Kind, key : Key \cup {NoKey}, authorized : BOOLEAN]]
      /\ keyload \in [Member -> SUBSET Key]
      /\ hist \in [approved : SUBSET User, revoked : SUBSET Key, late : SUBSET User,
                   failed : BOOLEAN, raced : BOOLEAN]
  BY DEF Inv, Parts, OpInv, SubsType, KeyloadType, HistType
<1>2. op.kind = "revoke" /\ op.pc = "delSub" /\ op.pending = {} /\ op.who \in User
  BY DEF RevokeSub, Inv, Parts, OpInv, Safe, Lined
<1>3. queue = << >> /\ op.branches = {} /\ op.keys = {}
  BY <1>2, QueueEmpty DEF Inv, Safe, Lined
<1>4. PICK u \in User : u = op.who
  BY <1>2
<1>5. u # Author /\ u \in Member
  BY AuthorAssumption DEF Member
<1>6. /\ op'.pc = "delData" /\ op'.branches = {} /\ op'.keys = {}
      /\ op'.key = op.key
  BY <1>1, <1>3 DEF RevokeSub
<1>7. /\ \A v \in User \ {u} : subs'[v] = subs[v]
      /\ subs'[u] = NoSub /\ ~Live(u)' /\ ~subs'[u].authorized
      /\ \A m \in Member \ {u} : keyload'[m] = keyload[m]
  <2>1. /\ subs' = [subs EXCEPT ![u] = NoSub]
        /\ keyload' = [keyload EXCEPT ![u] = {}]
    BY <1>4 DEF RevokeSub, RemoveSub
  <2> QED  BY <1>1, <1>5, <2>1 DEF NoSub, Live
<1>8. /\ hist'.approved = hist.approved \ {u} /\ hist'.failed = hist.failed
      /\ hist'.revoked \subseteq hist.revoked \cup {op.key}
      /\ \A v \in User \ {u} : subs[v].key = op.key => hist'.revoked = hist.revoked
  BY <1>1, <1>4 DEF RevokeSub
<1>9. UNCHANGED <<queue, channelType, authorPassword, stateDocs, req, del>>
  BY DEF RevokeSub
<1>10. Readers' = Readers \ {u} /\ Readers \subseteq Member /\ Author \in Member
  BY <1>7 DEF Readers, Member
<1>11. Lined'
  BY <1>3, <1>6, <1>9 DEF Lined
<1>12. Recorded'
  <2>1. Recorded
    BY DEF Inv, Safe
  <2>2. \A v \in User : v # u => (Live(v)' <=> Live(v))
    BY <1>7 DEF Live
  <2>3. hist.approved \subseteq User
    BY <1>1
  <2>4. \A v \in hist'.approved : Live(v)' /\ subs'[v].key \notin hist'.revoked
    BY <1>7, <1>8, <2>1, <2>2, <2>3 DEF Recorded
  <2> QED  BY <1>7, <1>9, <2>1, <2>2, <2>4 DEF Recorded
<1>13. Whole'
  BY <1>2, <1>3, <1>4, <1>6, <1>7, <1>8, <1>9
  DEF Inv, Safe, Whole, StateBacked, Live
<1>14. Targets'
  BY <1>3, <1>6, <1>9 DEF Targets, Working
<1>15. Keys' /\ Renewing'
  BY <1>3, <1>6, <1>9 DEF Keys, Working, Renewing
<1>16. AuthorizedOnlyIfApproved'
  BY <1>7, <1>8 DEF Inv, Safe, AuthorizedOnlyIfApproved, Orderly
<1>17. RevokedKeyExcluded'
  <2>1. SUFFICES ASSUME Orderly, NEW k \in hist'.revoked,
                        NEW m \in (Readers \cup {Author}) \ {u}
                 PROVE  k \notin keyload[m]
    BY <1>5, <1>7, <1>8, <1>10 DEF RevokedKeyExcluded, Orderly
  <2>2. CASE k = op.key
    BY <1>2, <1>3, <2>1, <2>2 DEF Inv, Safe, Renewing
  <2>3. CASE k \in hist.revoked
    BY <2>1, <2>3 DEF Inv, Safe, RevokedKeyExcluded
  <2> QED  BY <1>8, <2>1, <2>2, <2>3
<1> QED  BY <1>11, <1>12, <1>13, <1>14, <1>15, <1>16, <1>17 DEF Safe

-----------------------------------------------------------------------------
(* Keyload calls join the queue.                                           *)

\* New calls are the last, and the only ones somebody awaits.
LEMMA CallsJoin ==
  ASSUME NEW q \in Seq(Task), NEW t \in Seq(Task), t # << >>,
         \A i \in 1..Len(q) : ~q[i].live,
         \A j \in 1..Len(t) : t[j].live /\ ~t[j].sent,
         NEW p, p = q \o t
  PROVE  /\ p \in Seq(Task) /\ Len(p) \in Nat /\ p[Len(p)].live
         /\ \A i, j \in 1..Len(p) : i < j /\ p[i].live => p[j].live
         /\ \A i \in 1..Len(p) :
              \/ i \in 1..Len(q) /\ p[i] = q[i]
              \/ \E j \in 1..Len(t) : p[i] = t[j]
         /\ \A j \in 1..Len(t) : \E i \in 1..Len(p) : p[i] = t[j]
<1>1. /\ p \in Seq(Task) /\ Len(q) \in Nat /\ Len(p) = Len(q) + Len(t)
      /\ \A i \in 1..Len(q) : p[i] = q[i]
      /\ \A i \in 1..Len(p) : i > Len(q) => p[i] = t[i - Len(q)]
  OBVIOUS
<1>2. Len(t) \in Nat /\ Len(t) >= 1
  OBVIOUS
<1>3. \A i \in 1..Len(p) : i > Len(q) => i - Len(q) \in 1..Len(t)
  BY <1>1, <1>2
<1>4. ASSUME NEW i \in 1..Len(p)
      PROVE  p[i].live <=> i > Len(q)
  <2>1. ASSUME i > Len(q)
        PROVE  p[i].live
    <3>1. PICK n \in 1..Len(t) : p[i] = t[n]
      BY <1>1, <1>3, <2>1
    <3> QED  BY <3>1
  <2>2. ASSUME ~(i > Len(q))
        PROVE  ~p[i].live
    <3>1. i \in 1..Len(q) /\ p[i] = q[i]
      BY <1>1, <2>2
    <3> QED  BY <3>1
  <2> QED  BY <2>1, <2>2
<1>5. Len(p) \in 1..Len(p) /\ Len(p) > Len(q)
  BY <1>1, <1>2
<1>6. p[Len(p)].live
  BY <1>4, <1>5
<1>7. \A i, j \in 1..Len(p) : i < j /\ p[i].live => p[j].live
  BY <1>1, <1>4
<1>8. ASSUME NEW i \in 1..Len(p)
      PROVE  \/ i \in 1..Len(q) /\ p[i] = q[i]
             \/ \E j \in 1..Len(t) : p[i] = t[j]
  BY <1>1, <1>3
<1>9. ASSUME NEW j \in 1..Len(t)
      PROVE  \E i \in 1..Len(p) : p[i] = t[j]
  <2>1. /\ j + Len(q) \in 1..Len(p) /\ j + Len(q) > Len(q)
        /\ (j + Len(q)) - Len(q) = j
    BY <1>1, <1>2
  <2>2. p[j + Len(q)] = t[j]
    BY <1>1, <2>1
  <2> QED  BY <2>1, <2>2
<1>10. Len(p) \in Nat
  BY <1>1, <1>2
<1> QED  BY <1>1, <1>6, <1>7, <1>8, <1>9, <1>10

\* Awaited calls with the same keys on the branches B.
CallsFor(t, B, keys) ==
  /\ t \in Seq(Task)
  /\ \A j \in 1..Len(t) : /\ t[j].live /\ ~t[j].sent
                          /\ t[j].keys = keys /\ t[j].branch \in B
  /\ \A m \in B : \E j \in 1..Len(t) : t[j].branch = m

\* Such are those that a handler adds for the branches there are.
LEMMA CallsOf ==
  ASSUME Parts, NEW keys \in SUBSET Key, NEW order \in SetToSeqs(op.branches),
         NEW t, t = Keyloads(order, keys)
  PROVE  CallsFor(t, op.branches, keys)
<1>1. op.branches \in SUBSET Member
  BY DEF Parts, OpInv
<1>2. IsFiniteSet(op.branches)
  <2>1. IsFiniteSet(Member)
    BY UserAssumption, FS_AddElement DEF Member
  <2> QED  BY <1>1, <2>1, FS_Subset
<1>3. /\ order \in Seq(op.branches)
      /\ \A m \in op.branches : \E i \in 1..Len(order) : order[i] = m
  BY <1>2, OrderLists
<1>4. /\ DOMAIN order = 1..Len(order) /\ Len(order) \in Nat
      /\ \A i \in 1..Len(order) : order[i] \in op.branches
  BY <1>3
<1>5. t = [i \in 1..Len(order) |-> Keyload(order[i], keys)]
  BY <1>4 DEF Keyloads
<1>6. ASSUME NEW m \in op.branches
      PROVE  /\ Keyload(m, keys) \in Task
             /\ Keyload(m, keys).live /\ ~Keyload(m, keys).sent
             /\ Keyload(m, keys).branch = m /\ Keyload(m, keys).keys = keys
  BY <1>1 DEF Keyload, Task
<1>7. \A i \in 1..Len(order) : /\ t[i] \in Task /\ t[i].live /\ ~t[i].sent
                              /\ t[i].branch = order[i] /\ t[i].keys = keys
  BY <1>4, <1>5, <1>6
<1>8. t \in Seq(Task) /\ Len(t) = Len(order)
  BY <1>4, <1>5, <1>7
<1> QED  BY <1>3, <1>4, <1>7, <1>8 DEF CallsFor

\* What a handler does that has its calls t join the queue.
Joins(t) ==
  /\ t \in Seq(Task) /\ t # << >>
  /\ \A j \in 1..Len(t) : t[j].live /\ ~t[j].sent
  /\ op.pending = {}
  /\ queue' = queue \o t
  /\ op'.kind = op.kind /\ op'.who = op.who /\ op'.key = op.key
  /\ op'.pc \in {"first", "rest"}
  /\ UNCHANGED <<channelType, subs, stateDocs, keyload, req, del, hist>>

\* Apart from what the new calls are for, this keeps the invariant.
LEMMA JoinSafe ==
  ASSUME Inv, NEW t, Joins(t),
         op'.pc = "first" => Author \in op'.branches /\ op'.pending \subseteq {op'.who},
         op'.pc = "rest" => op'.branches = {} /\ op'.keys = {},
         op'.branches \subseteq op.branches, op'.keys \subseteq op.keys,
         op.pc \in {"fetch", "first"},
         op.pc = "first" => queue = << >>,
         Orderly => \A j \in 1..Len(t) :
           /\ t[j].keys \cap hist.revoked = {}
           /\ \A u \in User : t[j].branch = u =>
                Approved(u) /\ (Settled(u) \/ op'.pc = "first"),
         Orderly => Renewing'
  PROVE  Safe'
<1>1. /\ queue' \in Seq(Task) /\ Len(queue') \in Nat /\ queue'[Len(queue')].live
      /\ \A i, j \in 1..Len(queue') : i < j /\ queue'[i].live => queue'[j].live
      /\ \A i \in 1..Len(queue') :
           \/ i \in 1..Len(queue) /\ queue'[i] = queue[i]
           \/ \E j \in 1..Len(t) : queue'[i] = t[j]
  <2>1. \A i \in 1..Len(queue) : ~queue[i].live
    BY NoneLive DEF Inv, Joins
  <2> QED  BY <2>1, CallsType, CallsJoin DEF Inv, Joins
<1>2. UNCHANGED <<channelType, subs, stateDocs, keyload, req, del, hist>>
  BY DEF Joins
<1>3. Lined'
  <2>1. \A i \in 1..Len(queue') : queue'[i].sent =>
          i = 1 /\ keyload'[queue'[i].branch] \subseteq queue'[i].keys
    BY <1>1, <1>2 DEF Inv, Safe, Lined, Joins
  <2>2. op'.pc \in {"first", "rest"}
    BY DEF Joins
  <2> QED  BY <1>1, <2>1, <2>2 DEF Lined
<1>4. Recorded'
  BY <1>2 DEF Inv, Safe, Recorded, Live
<1>5. Whole'
  <2>1. \A i \in 1..Len(queue') : ~hist.failed => queue'[i].live
    BY <1>1 DEF Inv, Safe, Whole, Joins
  <2> QED  BY <1>2, <2>1 DEF Inv, Safe, Whole, StateBacked, Live, Joins
<1>6. Orderly' => Orderly
  BY <1>2 DEF Orderly
<1>7. ASSUME Orderly'
      PROVE  Targets' /\ Keys'
  <2>1. Targets /\ Keys
    BY <1>6, <1>7 DEF Inv, Safe
  <2>2. \A u \in User : /\ Approved(u)' <=> Approved(u)
                        /\ Settled(u)' <=> Settled(u)
                        /\ Live(u)' <=> Live(u)
                        /\ Gone(u)' <=> Gone(u)
    BY <1>2 DEF Approved, Settled, Gone, Live
  <2>3. ASSUME NEW i \in 1..Len(queue'), NEW u \in User, queue'[i].branch = u
        PROVE  Approved(u) /\ (Settled(u) \/ (queue'[i].live /\ op'.pc = "first"))
    <3>1. CASE i \in 1..Len(queue) /\ queue'[i] = queue[i]
      <4>1. op.pc = "fetch"
        BY <3>1
      <4> QED  BY <2>1, <2>3, <3>1, <4>1 DEF Targets
    <3>2. ASSUME NEW j \in 1..Len(t), queue'[i] = t[j]
          PROVE  Approved(u) /\ (Settled(u) \/ (queue'[i].live /\ op'.pc = "first"))
      BY <1>6, <1>7, <2>3, <3>2 DEF Joins
    <3> QED  BY <1>1, <3>1, <3>2
  <2>4. (\A i \in 1..Len(queue) : queue[i].branch \in User =>
           /\ Approved(queue[i].branch)
           /\ Settled(queue[i].branch) \/ (queue[i].live /\ op.pc = "first"))'
    <3>1. \A i \in 1..Len(queue') : queue'[i].branch \in User =>
            \A u \in User : u = queue'[i].branch =>
              Approved(u)' /\ (Settled(u)' \/ (queue'[i].live /\ op'.pc = "first"))
      BY <2>2, <2>3
    <3> QED  BY <3>1 DEF Approved, Settled, Gone, Live
  <2>5. Working /\ op.kind # "none" /\ op.who \in User
    BY DEF Working, Inv, Parts, OpInv
  <2>6. (/\ op.kind = "authorize" /\ Working => Approved(op.who)
         /\ op.kind = "revoke" /\ Working => Live(op.who) \/ Gone(op.who))'
    <3>1. op'.kind = op.kind /\ op'.who = op.who
      BY DEF Joins
    <3> QED  BY <1>2, <2>1, <2>5, <3>1 DEF Targets, Approved, Gone, Live
  <2>7. (\A u \in User : u \in op.branches => Approved(u) /\ Settled(u))'
    BY <2>1, <2>2 DEF Targets
  <2>8. Targets'
    BY <2>4, <2>6, <2>7 DEF Targets
  <2>9. \A i \in 1..Len(queue') : queue'[i].keys \cap hist'.revoked = {}
    BY <1>1, <1>2, <1>6, <1>7, <2>1 DEF Keys
  <2>10. Keys'
    BY <1>2, <2>1, <2>5, <2>9 DEF Keys, Joins
  <2> QED  BY <2>8, <2>10
<1>8. AuthorizedOnlyIfApproved' /\ RevokedKeyExcluded'
  BY <1>2 DEF Inv, Safe, AuthorizedOnlyIfApproved, RevokedKeyExcluded, Orderly, Readers
<1> QED  BY <1>3, <1>4, <1>5, <1>6, <1>7, <1>8 DEF Safe

\* The first keyload is for the subscription that is authorized.
LEMMA AuthorizeFirstSafe ==
  ASSUME Inv, AuthorizeFirst
  PROVE  Safe'
<1> USE DEF userDocs, channel, lists
<1>1. /\ op.kind = "authorize" /\ op.pc = "fetch" /\ op.pending = {}
      /\ op.who \in User /\ op.key \in Key /\ op.keys \subseteq Key
  BY DEF AuthorizeFirst, Inv, Parts, OpInv
<1>2. Author \in op.branches
  BY <1>1 DEF Inv, Safe, Lined
<1>3. /\ op'.kind = op.kind /\ op'.who = op.who /\ op'.key = op.key
      /\ op'.pc = "first" /\ op'.branches = op.branches /\ op'.keys = op.keys
      /\ op'.pending = {op.who}
  BY DEF AuthorizeFirst, Inv, Parts, OpInv
<1> DEFINE c == Keyload(op.who, AuthorizeKeys)
           t == <<c>>
<1>4. c \in Task /\ c.live /\ ~c.sent /\ c.branch = op.who /\ c.keys = AuthorizeKeys
  BY <1>1 DEF Keyload, Task, Member, AuthorizeKeys
<1>5. queue' = queue \o t
  BY DEF AuthorizeFirst, Enqueue
<1> HIDE DEF c
<1>6. t \in Seq(Task) /\ t # << >> /\ Len(t) = 1 /\ t[1] = c
  BY <1>4
<1> HIDE DEF t
<1>7. Joins(t)
  BY <1>1, <1>3, <1>4, <1>5, <1>6 DEF Joins, AuthorizeFirst
<1>8. ASSUME Orderly
      PROVE  /\ c.keys \cap hist.revoked = {}
             /\ \A u \in User : c.branch = u => Approved(u)
  BY <1>1, <1>4, <1>8 DEF AuthorizeKeys, Inv, Safe, Keys, Targets, Working
<1>9. Renewing'
  BY <1>1, <1>3 DEF Renewing
<1>10. \A j \in 1..Len(t) : t[j] = c
  BY <1>6
<1> QED  BY <1>1, <1>2, <1>3, <1>7, <1>8, <1>9, <1>10, JoinSafe

\* The keyloads on the existing branches, of an authorize and of a revoke.
LEMMA KeyloadsSafe ==
  ASSUME Inv, AuthorizeRest \/ RevokeKeyloads
  PROVE  Safe'
<1> USE DEF docs, userDocs, channel, lists
<1>1. /\ op.pending = {} /\ op.pc \in {"fetch", "first"} /\ op.kind # "none"
      /\ op.key \in Key /\ op.keys \in SUBSET Key
      /\ op.kind \in {"authorize", "revoke"}
  BY DEF AuthorizeRest, RevokeKeyloads, Inv, Parts, OpInv
<1>2. Author \in op.branches
  BY <1>1 DEF Inv, Safe, Lined
<1>3. op.pc = "first" => queue = << >>
  BY <1>1, QueueEmpty DEF Inv
<1>4. PICK keys \in {AuthorizeKeys, op.keys}, order \in SetToSeqs(op.branches) :
        /\ queue' = queue \o Keyloads(order, keys)
        /\ AuthorizeRest => keys = AuthorizeKeys
        /\ RevokeKeyloads => keys = op.keys
  <2>1. ~(AuthorizeRest /\ RevokeKeyloads)
    BY DEF AuthorizeRest, RevokeKeyloads
  <2>2. AuthorizeRest => \E order \in SetToSeqs(op.branches) :
                           queue' = queue \o Keyloads(order, AuthorizeKeys)
    BY DEF AuthorizeRest, Enqueue
  <2>3. RevokeKeyloads => \E order \in SetToSeqs(op.branches) :
                            queue' = queue \o Keyloads(order, op.keys)
    BY DEF RevokeKeyloads, Enqueue
  <2> QED  BY <2>1, <2>2, <2>3
<1>5. keys \in SUBSET Key
  BY <1>1 DEF AuthorizeKeys
<1>a. PICK t : t = Keyloads(order, keys)
  OBVIOUS
<1>6. /\ t \in Seq(Task)
      /\ \A j \in 1..Len(t) : /\ t[j].live /\ ~t[j].sent
                              /\ t[j].keys = keys /\ t[j].branch \in op.branches
      /\ \A m \in op.branches : \E j \in 1..Len(t) : t[j].branch = m
  <2>1. CallsFor(t, op.branches, keys)
    BY <1>5, <1>a, CallsOf DEF Inv
  <2> QED  BY <2>1 DEF CallsFor
<1>7. queue' = queue \o t
  BY <1>4, <1>a
<1>8. t # << >>
  BY <1>2, <1>6
<1>9. /\ op'.kind = op.kind /\ op'.who = op.who /\ op'.key = op.key
      /\ op'.pc = "rest" /\ op'.branches = {} /\ op'.keys = {}
  <2>1. op' = [op EXCEPT !.pc = "rest", !.pending = op.branches,
                         !.branches = {}, !.keys = {}]
    BY DEF AuthorizeRest, RevokeKeyloads
  <2> QED  BY <2>1 DEF Inv, Parts, OpInv
<1>10. UNCHANGED <<channelType, subs, stateDocs, keyload, req, del, hist>>
  BY DEF AuthorizeRest, RevokeKeyloads
<1>11. Joins(t)
  BY <1>1, <1>6, <1>7, <1>8, <1>9, <1>10 DEF Joins
<1>12. ASSUME Orderly
       PROVE  \A j \in 1..Len(t) :
                /\ t[j].keys \cap hist.revoked = {}
                /\ \A u \in User : t[j].branch = u => Approved(u) /\ Settled(u)
  <2>1. Targets /\ Keys /\ Renewing
    BY <1>12 DEF Inv, Safe
  <2>2. keys \cap hist.revoked = {}
    <3>1. CASE AuthorizeRest
      <4>1. op.kind = "authorize"
        BY <1>1, <2>1, <3>1 DEF AuthorizeRest, Renewing
      <4> QED  BY <1>1, <1>4, <2>1, <3>1, <4>1 DEF AuthorizeKeys, Keys, Working
    <3>2. CASE RevokeKeyloads
      BY <1>4, <2>1, <3>2 DEF Keys
    <3> QED  BY <3>1, <3>2
  <2> QED  BY <1>6, <2>1, <2>2 DEF Targets
<1>13. ASSUME Orderly
       PROVE  Renewing'
  <2>1. SUFFICES ASSUME op.kind = "revoke"
                 PROVE  Renewing'
    BY <1>9 DEF Renewing
  <2>2. Renewing
    BY <1>13 DEF Inv, Safe
  <2>3. op.pc = "fetch" /\ RevokeKeyloads /\ keys = op.keys
    BY <1>1, <1>4, <2>1, <2>2 DEF Renewing, AuthorizeRest
  <2>4. op.key \notin keys /\ Readers \subseteq op.branches
    BY <2>1, <2>2, <2>3 DEF Renewing
  <2>5. \A i \in 1..Len(queue) : ~queue[i].live
    BY <1>1, NoneLive DEF Inv
  <2>6. /\ \A i \in 1..Len(queue') :
             \/ i \in 1..Len(queue) /\ queue'[i] = queue[i]
             \/ \E j \in 1..Len(t) : queue'[i] = t[j]
        /\ \A j \in 1..Len(t) : \E i \in 1..Len(queue') : queue'[i] = t[j]
    BY <1>11, <2>5, CallsType, CallsJoin DEF Inv, Joins
  <2>7. ASSUME NEW i \in 1..Len(queue'), queue'[i].live
        PROVE  op.key \notin queue'[i].keys
    <3>1. PICK j \in 1..Len(t) : queue'[i] = t[j]
      BY <2>5, <2>6, <2>7
    <3> QED  BY <1>6, <2>4, <3>1
  <2>8. \A m \in Readers \cup {Author} : \E i \in 1..Len(queue') :
          queue'[i].live /\ ~queue'[i].sent /\ queue'[i].branch = m
    <3>1. SUFFICES ASSUME NEW m \in op.branches
                   PROVE  \E i \in 1..Len(queue') :
                            queue'[i].live /\ ~queue'[i].sent /\ queue'[i].branch = m
      BY <1>2, <2>4
    <3>2. PICK j \in 1..Len(t) : t[j].branch = m
      BY <1>6
    <3>3. PICK i \in 1..Len(queue') : queue'[i] = t[j]
      BY <2>6
    <3> QED  BY <1>6, <3>2, <3>3
  <2>9. Readers' = Readers
    BY <1>10 DEF Readers
  <2> QED  BY <1>9, <2>7, <2>8, <2>9 DEF Renewing
<1> QED  BY <1>1, <1>3, <1>9, <1>11, <1>12, <1>13, JoinSafe

-----------------------------------------------------------------------------
(* Keyload calls are served.                                               *)

\* The first call, and those behind it.
LEMMA FirstCall ==
  ASSUME NEW q \in Seq(Task), q # << >>
  PROVE  Head(q) = q[1] /\ q[1] \in Task /\ 1 \in 1..Len(q) /\ Len(q) \in Nat
OBVIOUS

\* p is q without its first call.
Behind(q, p) ==
  /\ Len(p) \in Nat /\ Len(q) \in Nat
  /\ \A i \in 1..Len(p) : i + 1 \in 1..Len(q) /\ p[i] = q[i + 1]
  /\ \A i \in 1..Len(q) : i # 1 => \E j \in 1..Len(p) : p[j] = q[i] /\ i = j + 1
  /\ p # << >> => p[Len(p)] = q[Len(q)]

\* That is what is left of the queue when the first call is over.
LEMMA TailBehind ==
  ASSUME NEW q \in Seq(Task), q # << >>
  PROVE  Behind(q, Tail(q))
<1> DEFINE p == Tail(q)
<1>1. /\ Len(q) \in Nat /\ Len(q) >= 1 /\ Len(p) = Len(q) - 1 /\ p \in Seq(Task)
      /\ \A i \in 1..Len(p) : p[i] = q[i + 1]
  OBVIOUS
<1> HIDE DEF p
<1>2. ASSUME NEW i \in 1..Len(q), i # 1
      PROVE  \E j \in 1..Len(p) : p[j] = q[i] /\ i = j + 1
  <2>1. i - 1 \in 1..Len(p) /\ (i - 1) + 1 = i
    BY <1>1, <1>2
  <2>2. p[i - 1] = q[i]
    BY <1>1, <2>1
  <2> QED  BY <2>1, <2>2
<1>3. \A i \in 1..Len(p) : i + 1 \in 1..Len(q)
  BY <1>1
<1>4. ASSUME p # << >>
      PROVE  p[Len(p)] = q[Len(q)]
  <2>1. Len(p) \in 1..Len(p) /\ Len(p) + 1 = Len(q)
    BY <1>1, <1>4
  <2> QED  BY <1>1, <2>1
<1>5. Len(p) \in Nat
  BY <1>1
<1> QED  BY <1>1, <1>2, <1>3, <1>4, <1>5 DEF Behind, p

\* p is q, but for the first call, which may have been published.
FirstSent(q, p) ==
  /\ Len(p) = Len(q)
  /\ \A i \in 1..Len(q) :
       /\ p[i].live = q[i].live /\ p[i].branch = q[i].branch /\ p[i].keys = q[i].keys
       /\ i # 1 => p[i].sent = q[i].sent

\* Publishing the first call's keyload changes nothing else in the queue.
LEMMA SentCall ==
  ASSUME NEW q \in Seq(Task), q # << >>, NEW p, p = [q EXCEPT ![1].sent = TRUE]
  PROVE  FirstSent(q, p)
<1>1. /\ DOMAIN q = 1..Len(q) /\ Len(q) \in Nat
      /\ \A i \in 1..Len(q) : q[i] \in Task
  OBVIOUS
<1>2. ASSUME NEW t \in Task
      PROVE  LET s == [t EXCEPT !.sent = TRUE] IN
               s \in Task /\ s.live = t.live /\ s.branch = t.branch /\ s.keys = t.keys
  BY DEF Task
<1>3. p = [i \in 1..Len(q) |-> IF i = 1 THEN [q[i] EXCEPT !.sent = TRUE] ELSE q[i]]
  BY <1>1
<1>4. Len(p) = Len(q)
  BY <1>1, <1>3
<1> QED  BY <1>1, <1>2, <1>3, <1>4 DEF FirstSent

\* A published keyload names no revoked key, and a revoke that has begun to
\* renew the branches has no call left that names its own.
LEMMA SendKeyloadSafe ==
  ASSUME Inv, SendKeyload
  PROVE  Safe'
<1> USE DEF docs, userDocs, channel, lists
<1>1. queue \in Seq(Task) /\ queue # << >> /\ ~Head(queue).sent
  BY CallsType DEF SendKeyload, Inv
<1> DEFINE h == queue[1]
<1>2. h = Head(queue) /\ h \in Task /\ 1 \in 1..Len(queue) /\ Len(queue) \in Nat
  BY <1>1, FirstCall
<1>3. PICK m \in Member : m = h.branch
  BY <1>2 DEF Task
<1>4. /\ keyload'[m] = h.keys
      /\ \A n \in Member \ {m} : keyload'[n] = keyload[n]
  BY <1>2, <1>3 DEF SendKeyload, Inv, Parts, KeyloadType
<1>5. Len(queue') = Len(queue) /\ Len(queue) \in Nat
  BY <1>1, <1>2, SentCall DEF SendKeyload, FirstSent
<1>6. \A i \in 1..Len(queue) :
        /\ queue'[i].live = queue[i].live
        /\ queue'[i].branch = queue[i].branch /\ queue'[i].keys = queue[i].keys
        /\ i # 1 => queue'[i].sent = queue[i].sent
  <2>1. FirstSent(queue, queue')
    BY <1>1, SentCall DEF SendKeyload
  <2> QED  BY <2>1 DEF FirstSent
<1>7. UNCHANGED <<op, channelType, authorPassword, subs, stateDocs, req, del, hist>>
  BY DEF SendKeyload
<1> HIDE DEF h
<1>8. h = queue[1]
  BY DEF h
<1>9. Lined'
  <2>1. Lined
    BY DEF Inv, Safe
  <2>2. \A i \in 1..Len(queue) : queue'[i].sent => i = 1
    BY <1>5, <1>6, <2>1 DEF Lined
  <2>3. \A i \in 1..Len(queue) : i = 1 => keyload'[queue'[i].branch] \subseteq queue'[i].keys
    BY <1>3, <1>4, <1>6, <1>8
  <2>4. /\ op'.pc \notin {"none", "load", "fetch"} /\ queue' # << >>
             => queue'[Len(queue')].live
        /\ \A i, j \in 1..Len(queue') : i < j /\ queue'[i].live => queue'[j].live
    <3>1. Len(queue) \in 1..Len(queue)
      BY <1>2
    <3> QED  BY <1>1, <1>5, <1>6, <1>7, <2>1, <3>1 DEF Lined
  <2> QED  BY <1>5, <1>7, <2>1, <2>2, <2>3, <2>4 DEF Lined
<1>10. Recorded'
  BY <1>7 DEF Inv, Safe, Recorded, Live
<1>11. Whole'
  BY <1>5, <1>6, <1>7 DEF Inv, Safe, Whole, StateBacked, Live, OwnPassword
<1>12. ASSUME Orderly'
       PROVE  Targets' /\ Keys' /\ Renewing'
  <2>1. Targets /\ Keys /\ Renewing
    BY <1>7, <1>12 DEF Inv, Safe, Orderly
  <2>2. Targets'
    BY <1>5, <1>6, <1>7, <2>1 DEF Targets, Working, Approved, Settled, Gone, Live
  <2>3. Keys'
    BY <1>5, <1>6, <1>7, <2>1 DEF Keys, Working
  <2>4. ASSUME op.kind = "revoke", op.pc \in {"rest", "delSub"},
               NEW n \in Readers \cup {Author}
        PROVE  \/ \E i \in 1..Len(queue') :
                    queue'[i].live /\ ~queue'[i].sent /\ queue'[i].branch = n
               \/ op.key \notin keyload'[n] /\ \A i \in 1..Len(queue') : queue'[i].live
    <3>1. op.pc = "rest"
      BY <1>1, <2>4, QueueEmpty DEF Inv, Parts, OpInv
    <3>2. /\ \A i \in 1..Len(queue) : queue[i].live => op.key \notin queue[i].keys
          /\ \/ \E i \in 1..Len(queue) :
                  queue[i].live /\ ~queue[i].sent /\ queue[i].branch = n
             \/ op.key \notin keyload[n] /\ \A i \in 1..Len(queue) : queue[i].live
      BY <2>1, <2>4, <3>1 DEF Renewing
    <3>3. n \in Member
      BY DEF Readers, Member
    <3>4. ASSUME NEW i \in 1..Len(queue), i # 1,
                 queue[i].live, ~queue[i].sent, queue[i].branch = n
          PROVE  \E k \in 1..Len(queue') :
                   queue'[k].live /\ ~queue'[k].sent /\ queue'[k].branch = n
      BY <1>5, <1>6, <3>4
    <3>5. ASSUME h.live, m = n \/ op.key \notin keyload[n]
          PROVE  op.key \notin keyload'[n] /\ \A i \in 1..Len(queue') : queue'[i].live
      <4>1. op.key \notin h.keys
        BY <1>2, <1>8, <3>2, <3>5
      <4>2. \A i \in 1..Len(queue) : 1 < i => queue[i].live
        BY <1>2, <1>8, <3>5 DEF Inv, Safe, Lined
      <4>3. \A i \in 1..Len(queue) : queue[i].live
        BY <1>2, <1>8, <3>5, <4>2
      <4> QED  BY <1>4, <1>5, <1>6, <3>3, <3>5, <4>1, <4>3
    <3> QED  BY <1>2, <1>3, <1>8, <3>2, <3>4, <3>5
  <2>5. Renewing'
    <3>1. op.pc = "rest" /\ op.kind = "revoke" =>
            \A i \in 1..Len(queue') : queue'[i].live => op.key \notin queue'[i].keys
      BY <1>5, <1>6, <2>1 DEF Renewing
    <3> QED  BY <1>7, <2>1, <2>4, <3>1 DEF Renewing, Readers
  <2> QED  BY <2>2, <2>3, <2>5
<1>13. AuthorizedOnlyIfApproved'
  BY <1>7 DEF Inv, Safe, AuthorizedOnlyIfApproved, Orderly
<1>14. RevokedKeyExcluded'
  <2>1. SUFFICES ASSUME Orderly, NEW k \in hist.revoked, NEW n \in Readers \cup {Author}
                 PROVE  k \notin keyload'[n]
    BY <1>7 DEF RevokedKeyExcluded, Orderly, Readers
  <2>2. n \in Member
    BY DEF Readers, Member
  <2>3. k \notin h.keys
    BY <1>2, <1>8, <2>1 DEF Inv, Safe, Keys
  <2>4. k \notin keyload[n]
    BY <2>1 DEF Inv, Safe, RevokedKeyExcluded
  <2> QED  BY <1>4, <2>2, <2>3, <2>4
<1> QED  BY <1>9, <1>10, <1>11, <1>12, <1>13, <1>14 DEF Safe

\* What a call that leaves the queue, and perhaps its handler, does to the order.
LEMMA BehindInOrder ==
  ASSUME Inv, NEW p, Behind(queue, p)
  PROVE  /\ \A i \in 1..Len(p) : ~p[i].sent
         /\ \A i, j \in 1..Len(p) : i < j /\ p[i].live => p[j].live
         /\ op.pc \notin {"none", "load", "fetch"} /\ p # << >> => p[Len(p)].live
<1>1. Lined
  BY DEF Inv, Safe
<1>2. \A i \in 1..Len(p) : ~p[i].sent
  BY <1>1 DEF Behind, Lined
<1>3. ASSUME NEW i \in 1..Len(p), NEW j \in 1..Len(p), i < j, p[i].live
      PROVE  p[j].live
  <2> DEFINE k == i + 1
             n == j + 1
  <2>1. /\ k \in 1..Len(queue) /\ n \in 1..Len(queue) /\ k < n
        /\ p[i] = queue[k] /\ p[j] = queue[n]
    BY <1>3 DEF Behind
  <2> HIDE DEF k, n
  <2> QED  BY <1>1, <1>3, <2>1 DEF Lined
<1>4. op.pc \notin {"none", "load", "fetch"} /\ p # << >> => p[Len(p)].live
  <2>1. p # << >> => queue # << >>
    BY DEF Behind
  <2> QED  BY <1>1, <2>1 DEF Behind, Lined
<1> QED  BY <1>2, <1>3, <1>4

\* A keyload is recorded: the subscription it authorizes is approved, and has
\* been authorized already when a revoke collects or renews the branches.
LEMMA ResolvesSafe ==
  ASSUME Inv, queue # << >>, Head(queue).sent, KeyloadResolves,
         NEW m \in Member, m = Head(queue).branch,
         \/ m = Author /\ UNCHANGED subs
         \/ m \in User /\ Live(m) /\ subs' = [subs EXCEPT ![m].authorized = TRUE],
         UNCHANGED <<channelType, stateDocs, authorPassword, keyload, req, del>>
  PROVE  Safe'
<1>1. queue \in Seq(Task) /\ Lined
  BY CallsType DEF Inv, Safe
<1> DEFINE h == queue[1]
<1>2. h = Head(queue) /\ h \in Task /\ 1 \in 1..Len(queue) /\ Len(queue) \in Nat
  BY <1>1, FirstCall
<1> HIDE DEF h
<1>3. h = queue[1] /\ h.branch = m /\ h.sent
  BY <1>2 DEF h
<1>4. Behind(queue, queue')
  BY <1>1, TailBehind DEF KeyloadResolves
<1>5. /\ op'.kind = op.kind /\ op'.pc = op.pc /\ op'.who = op.who /\ op'.key = op.key
      /\ op'.branches = op.branches /\ op'.keys = op.keys
      /\ op'.pending \subseteq op.pending
      /\ hist' = hist
  BY DEF KeyloadResolves, Inv, Parts, OpInv
<1>6. \A v \in User :
        /\ subs'[v].kind = subs[v].kind /\ subs'[v].key = subs[v].key
        /\ subs[v].authorized => subs'[v].authorized
        /\ subs'[v].authorized => subs[v].authorized \/ (v = m /\ Live(m))
  BY DEF Inv, Parts, SubsType
<1>7. \A v \in User : /\ Live(v)' <=> Live(v)
                      /\ Gone(v)' <=> Gone(v)
                      /\ Approved(v)' <=> Approved(v)
                      /\ Settled(v) => Settled(v)'
  BY <1>5, <1>6 DEF Live, Gone, Approved, Settled
<1>8. Lined'
  <2>1. /\ \A i \in 1..Len(queue') : ~queue'[i].sent
        /\ \A i, j \in 1..Len(queue') : i < j /\ queue'[i].live => queue'[j].live
        /\ op.pc \notin {"none", "load", "fetch"} /\ queue' # << >>
             => queue'[Len(queue')].live
    BY <1>4, BehindInOrder
  <2> QED  BY <1>1, <1>5, <2>1 DEF Lined
<1>9. Recorded'
  <2>1. hist.approved \subseteq User
    BY DEF Inv, Parts, HistType
  <2> QED  BY <1>5, <1>6, <1>7, <2>1 DEF Inv, Safe, Recorded
<1>10. Whole'
  <2>1. ~hist.failed => \A i \in 1..Len(queue') : queue'[i].live
    BY <1>4 DEF Inv, Safe, Whole, Behind
  <2> QED  BY <1>5, <1>7, <2>1 DEF Inv, Safe, Whole, StateBacked, OwnPassword
<1>11. ASSUME Orderly'
       PROVE  Targets' /\ Keys' /\ Renewing'
  <2>1. Targets /\ Keys /\ Renewing
    BY <1>5, <1>11 DEF Inv, Safe, Orderly
  <2>2. Targets'
    <3>1. (/\ op.kind = "authorize" /\ Working => Approved(op.who)
           /\ op.kind = "revoke" /\ Working => Live(op.who) \/ Gone(op.who))'
      <4>1. op.kind # "none" => op.who \in User
        BY DEF Inv, Parts, OpInv
      <4>2. op.kind = "authorize" /\ Working => Approved(op.who)
        BY <2>1 DEF Targets
      <4>3. op.kind = "revoke" /\ Working => Live(op.who) \/ Gone(op.who)
        BY <2>1 DEF Targets
      <4>4. Working' <=> Working
        BY <1>5 DEF Working
      <4> QED  BY <1>5, <1>6, <4>1, <4>2, <4>3, <4>4 DEF Approved, Gone, Live
    <3>2. (\A v \in User : v \in op.branches => Approved(v) /\ Settled(v))'
      BY <1>5, <1>7, <2>1 DEF Targets
    <3>3. ASSUME NEW i \in 1..Len(queue'), NEW v \in User, v = queue'[i].branch
          PROVE  Approved(v)' /\ (Settled(v)' \/ (queue'[i].live /\ op'.pc = "first"))
      <4>1. PICK k \in 1..Len(queue) : queue'[i] = queue[k]
        BY <1>4 DEF Behind
      <4> QED  BY <1>5, <1>7, <2>1, <3>3, <4>1 DEF Targets
    <3>4. (\A i \in 1..Len(queue) : queue[i].branch \in User =>
             /\ Approved(queue[i].branch)
             /\ Settled(queue[i].branch) \/ (queue[i].live /\ op.pc = "first"))'
      <4>1. \A i \in 1..Len(queue') : queue'[i].branch \in User =>
              \A v \in User : v = queue'[i].branch =>
                Approved(v)' /\ (Settled(v)' \/ (queue'[i].live /\ op'.pc = "first"))
        BY <3>3
      <4> QED  BY <4>1 DEF Approved, Settled, Gone, Live
    <3> QED  BY <3>1, <3>2, <3>4 DEF Targets
  <2>3. Keys'
    <3>1. \A i \in 1..Len(queue') : queue'[i].keys \cap hist'.revoked = {}
      BY <1>4, <1>5, <2>1 DEF Keys, Behind
    <3> QED  BY <1>5, <2>1, <3>1 DEF Keys, Working
  <2>4. op.kind = "revoke" => Readers' = Readers
    <3>1. SUFFICES ASSUME op.kind = "revoke", m \in User, Live(m)
                   PROVE  subs[m].authorized
      BY <1>6 DEF Readers
    <3>2. op.pc # "first"
      BY <2>1, <3>1 DEF Renewing
    <3>3. Settled(m)
      BY <1>2, <1>3, <2>1, <3>1, <3>2 DEF Targets
    <3> QED  BY <3>1, <3>3 DEF Settled, Gone
  <2>5. Renewing'
    <3>1. SUFFICES ASSUME op.kind = "revoke" PROVE Renewing'
      BY <1>5 DEF Renewing
    <3>2. ASSUME op.pc = "rest", NEW i \in 1..Len(queue'), queue'[i].live
          PROVE  op.key \notin queue'[i].keys
      <4>1. PICK k \in 1..Len(queue) : queue'[i] = queue[k]
        BY <1>4 DEF Behind
      <4> QED  BY <2>1, <3>1, <3>2, <4>1 DEF Renewing
    <3>3. ASSUME op.pc \in {"rest", "delSub"}, NEW n \in Readers \cup {Author}
          PROVE  \/ \E i \in 1..Len(queue') :
                      queue'[i].live /\ ~queue'[i].sent /\ queue'[i].branch = n
                 \/ op.key \notin keyload[n] /\ \A i \in 1..Len(queue') : queue'[i].live
      <4>1. \/ \E i \in 1..Len(queue) :
                 queue[i].live /\ ~queue[i].sent /\ queue[i].branch = n
            \/ op.key \notin keyload[n] /\ \A i \in 1..Len(queue) : queue[i].live
        BY <2>1, <3>1, <3>3 DEF Renewing
      <4>2. ASSUME NEW k \in 1..Len(queue), queue[k].live, ~queue[k].sent,
                   queue[k].branch = n
            PROVE  \E i \in 1..Len(queue') :
                     queue'[i].live /\ ~queue'[i].sent /\ queue'[i].branch = n
        <5>1. k # 1
          BY <1>3, <4>2
        <5>2. PICK i \in 1..Len(queue') : queue'[i] = queue[k]
          BY <1>4, <5>1 DEF Behind
        <5> QED  BY <4>2, <5>2
      <4>3. (\A i \in 1..Len(queue) : queue[i].live) =>
              \A i \in 1..Len(queue') : queue'[i].live
        BY <1>4 DEF Behind
      <4> QED  BY <4>1, <4>2, <4>3
    <3> QED  BY <1>5, <2>1, <2>4, <3>1, <3>2, <3>3 DEF Renewing
  <2> QED  BY <2>2, <2>3, <2>5
<1>12. ASSUME Orderly, m \in User, Live(m)
       PROVE  m \in hist.approved
  BY <1>2, <1>3, <1>12 DEF Inv, Safe, Targets, Approved, Gone
<1>13. AuthorizedOnlyIfApproved'
  BY <1>5, <1>6, <1>12 DEF Inv, Safe, AuthorizedOnlyIfApproved, Orderly
<1>14. RevokedKeyExcluded'
  <2>1. SUFFICES ASSUME Orderly, NEW k \in hist.revoked, NEW n \in Readers' \cup {Author}
                 PROVE  k \notin keyload[n]
    BY <1>5 DEF RevokedKeyExcluded, Orderly
  <2>2. CASE n \in Readers \cup {Author}
    BY <2>1, <2>2 DEF Inv, Safe, RevokedKeyExcluded
  <2>3. CASE n \notin Readers \cup {Author}
    <3>1. n = m
      BY <1>6, <2>3 DEF Readers
    <3>2. keyload[m] \subseteq h.keys
      BY <1>1, <1>2, <1>3 DEF Lined
    <3>3. k \notin h.keys
      BY <1>2, <1>3, <2>1 DEF Inv, Safe, Keys
    <3> QED  BY <3>1, <3>2, <3>3
  <2> QED  BY <2>2, <2>3
<1> QED  BY <1>8, <1>9, <1>10, <1>11, <1>13, <1>14 DEF Safe

\* A keyload that fails: an awaited one takes its handler along, whose other
\* calls stay; one that nobody awaits just goes.
LEMMA RejectsSafe ==
  ASSUME Inv, queue # << >>, KeyloadRejects,
         UNCHANGED <<channelType, subs, stateDocs, authorPassword, keyload, req, del>>
  PROVE  Safe'
<1>1. queue \in Seq(Task) /\ Tail(queue) \in Seq(Task) /\ Lined
  BY CallsType DEF Inv, Safe
<1> DEFINE h == queue[1]
           p == Tail(queue)
<1>2. h = Head(queue) /\ h \in Task /\ 1 \in 1..Len(queue) /\ Len(queue) \in Nat
  BY <1>1, FirstCall
<1>3. Behind(queue, p)
  BY <1>1, TailBehind
<1>4. h = queue[1] /\ p = Tail(queue)
  OBVIOUS
<1> HIDE DEF h, p
<1>5. /\ \A i \in 1..Len(p) : ~p[i].sent
      /\ \A i, j \in 1..Len(p) : i < j /\ p[i].live => p[j].live
      /\ op.pc \notin {"none", "load", "fetch"} /\ p # << >> => p[Len(p)].live
  BY <1>3, BehindInOrder
<1>6. ASSUME NEW i \in 1..Len(p)
      PROVE  \E k \in 1..Len(queue) : k # 1 /\ p[i] = queue[k]
  <2>1. i + 1 \in 1..Len(queue) /\ i + 1 # 1 /\ p[i] = queue[i + 1]
    BY <1>3 DEF Behind
  <2> QED  BY <2>1
<1>7. CASE h.live
  <2>1. /\ op' = NoOp /\ queue' = Orphaned(p) /\ hist' = Failed
    BY <1>2, <1>4, <1>7 DEF KeyloadRejects
  <2>2. /\ Len(queue') = Len(p) /\ Len(p) \in Nat
        /\ \A i \in 1..Len(p) :
             /\ ~queue'[i].live
             /\ queue'[i].branch = p[i].branch
             /\ queue'[i].keys = p[i].keys
             /\ queue'[i].sent = p[i].sent
    BY <1>1, <1>4, <2>1, OrphanedAt
  <2>3. /\ op'.kind = "none" /\ op'.pc = "none" /\ op'.branches = {} /\ op'.keys = {}
        /\ hist'.failed
        /\ hist'.approved = hist.approved /\ hist'.revoked = hist.revoked
    BY <2>1 DEF NoOp, Failed, Inv, Parts, HistType
  <2>4. Lined'
    BY <1>5, <2>2, <2>3 DEF Lined
  <2>5. Recorded'
    BY <2>3 DEF Inv, Safe, Recorded, Live
  <2>6. Whole'
    BY <2>3 DEF Whole
  <2>7. Orderly' => Orderly
    BY <2>3 DEF Orderly
  <2>8. ASSUME Orderly'
        PROVE  Targets' /\ Keys' /\ Renewing'
    <3>1. Targets /\ Keys
      BY <2>7, <2>8 DEF Inv, Safe
    <3>2. ASSUME op.pc = "first", NEW k \in 1..Len(queue), k # 1
          PROVE  ~queue[k].live
      <4>1. op.pending \subseteq {op.who} /\ Agree(queue, op.pending)
        BY <1>1, <3>2 DEF Lined, Inv, Parts, OpInv
      <4>2. SUFFICES ASSUME queue[k].live PROVE FALSE
        OBVIOUS
      <4>3. queue[1].branch = op.who /\ queue[k].branch = op.who
        BY <1>2, <1>4, <1>7, <4>1, <4>2 DEF Agree
      <4> QED  BY <1>2, <1>4, <1>7, <3>2, <4>1, <4>2, <4>3 DEF Agree
    <3>3. ASSUME NEW i \in 1..Len(p), NEW v \in User, v = p[i].branch
          PROVE  Approved(v)' /\ Settled(v)'
      <4>1. PICK k \in 1..Len(queue) : k # 1 /\ p[i] = queue[k]
        BY <1>6
      <4>2. Approved(v) /\ Settled(v)
        BY <3>1, <3>2, <3>3, <4>1 DEF Targets
      <4> QED  BY <2>3, <4>2 DEF Approved, Settled, Gone, Live
    <3>4. \A i \in 1..Len(p) : p[i].branch \in User =>
            \A v \in User : v = p[i].branch => Approved(v)' /\ Settled(v)'
      BY <3>3
    <3>5. Targets'
      BY <2>2, <2>3, <3>4 DEF Targets, Working, Approved, Settled, Gone, Live
    <3>6. Keys'
      <4>1. \A i \in 1..Len(p) : p[i].keys \cap hist.revoked = {}
        BY <1>6, <3>1 DEF Keys
      <4> QED  BY <2>2, <2>3, <4>1 DEF Keys
    <3>7. Renewing'
      BY <2>3 DEF Renewing
    <3> QED  BY <3>5, <3>6, <3>7
  <2>9. AuthorizedOnlyIfApproved' /\ RevokedKeyExcluded'
    BY <2>3, <2>7
    DEF Inv, Safe, AuthorizedOnlyIfApproved, RevokedKeyExcluded, Readers
  <2> QED  BY <2>4, <2>5, <2>6, <2>8, <2>9 DEF Safe
<1>8. CASE ~h.live
  <2>1. queue' = p /\ UNCHANGED <<op, hist>>
    BY <1>2, <1>4, <1>8 DEF KeyloadRejects
  <2>2. Lined'
    BY <1>1, <1>5, <2>1 DEF Lined
  <2>3. Recorded'
    BY <2>1 DEF Inv, Safe, Recorded, Live
  <2>4. hist.failed
    BY <1>2, <1>4, <1>8 DEF Inv, Safe, Whole
  <2>5. Whole'
    BY <2>1, <2>4 DEF Whole
  <2>6. ASSUME Orderly'
        PROVE  Targets' /\ Keys' /\ Renewing'
    <3>1. Targets /\ Keys /\ Renewing
      BY <2>1, <2>6 DEF Inv, Safe, Orderly
    <3>2. Targets'
      <4>1. \A i \in 1..Len(p) : p[i].branch \in User =>
              /\ Approved(p[i].branch)
              /\ Settled(p[i].branch) \/ (p[i].live /\ op.pc = "first")
        BY <1>6, <3>1 DEF Targets
      <4> QED  BY <2>1, <3>1, <4>1 DEF Targets, Working, Approved, Settled, Gone, Live
    <3>3. Keys'
      <4>1. \A i \in 1..Len(p) : p[i].keys \cap hist.revoked = {}
        BY <1>6, <3>1 DEF Keys
      <4> QED  BY <2>1, <3>1, <4>1 DEF Keys, Working
    <3>4. Renewing'
      <4>1. SUFFICES ASSUME op.kind = "revoke" PROVE Renewing'
        BY <2>1 DEF Renewing
      <4>2. op.pc = "rest" => \A i \in 1..Len(p) : p[i].live => op.key \notin p[i].keys
        BY <1>6, <3>1, <4>1 DEF Renewing
      <4>3. ASSUME op.pc \in {"rest", "delSub"}, NEW n \in Readers \cup {Author}
            PROVE  \E i \in 1..Len(p) : p[i].live /\ ~p[i].sent /\ p[i].branch = n
        <5>1. PICK k \in 1..Len(queue) :
                queue[k].live /\ ~queue[k].sent /\ queue[k].branch = n
          BY <1>2, <1>4, <1>8, <3>1, <4>1, <4>3 DEF Renewing
        <5>2. k # 1
          BY <1>4, <1>8, <5>1
        <5>3. PICK i \in 1..Len(p) : p[i] = queue[k]
          BY <1>3, <5>2 DEF Behind
        <5> QED  BY <5>1, <5>3
      <4> QED  BY <2>1, <3>1, <4>1, <4>2, <4>3 DEF Renewing, Readers
    <3> QED  BY <3>2, <3>3, <3>4
  <2>7. AuthorizedOnlyIfApproved' /\ RevokedKeyExcluded'
    BY <2>1 DEF Inv, Safe, AuthorizedOnlyIfApproved, RevokedKeyExcluded, Readers, Orderly
  <2> QED  BY <2>2, <2>3, <2>5, <2>6, <2>7 DEF Safe
<1> QED  BY <1>7, <1>8

\* The two steps of a keyload call.
LEMMA KeyloadStepSafe ==
  ASSUME Inv, KeyloadStep
  PROVE  Safe'
<1>1. CASE RecordKeyload
  <2>1. queue # << >> /\ Head(queue).sent
    BY <1>1 DEF RecordKeyload
  <2>2. PICK m \in Member : m = Head(queue).branch
    <3>1. Head(queue) \in Task
      BY <2>1, CallsType, FirstCall DEF Inv
    <3> QED  BY <3>1 DEF Task
  <2>3. \/ /\ \/ m = Author /\ UNCHANGED subs
              \/ m \in User /\ Live(m) /\ subs' = [subs EXCEPT ![m].authorized = TRUE]
           /\ KeyloadResolves
        \/ KeyloadRejects /\ UNCHANGED subs
    BY <1>1, <2>2 DEF RecordKeyload
  <2>4. UNCHANGED <<channelType, stateDocs, authorPassword, keyload, req, del>>
    BY <1>1 DEF RecordKeyload, channel
  <2> QED  BY <2>1, <2>2, <2>3, <2>4, ResolvesSafe, RejectsSafe
<1> QED  BY <1>1, SendKeyloadSafe DEF KeyloadStep

-----------------------------------------------------------------------------
(* All steps.                                                              *)

\* After a restart nobody works for anybody.
LEMMA RestartSafe ==
  ASSUME Inv, Restart
  PROVE  Safe'
<1> USE DEF docs, userDocs, channel, lists
<1>1. /\ queue' = << >> /\ op'.kind = "none" /\ op'.pc = "none"
      /\ op'.branches = {} /\ op'.keys = {}
      /\ del'.pc = "none" /\ \A u \in User : req'[u].pc = "none"
      /\ hist'.failed
      /\ hist'.approved = hist.approved /\ hist'.revoked = hist.revoked
  BY DEF Restart, NoOp, NoDel, NoReq, Failed, Inv, Parts, HistType
<1>2. UNCHANGED <<channelType, subs, stateDocs, authorPassword, keyload>>
  BY DEF Restart
<1>3. Lined'
  BY <1>1 DEF Lined
<1>4. Recorded'
  BY <1>1, <1>2 DEF Inv, Safe, Recorded, Live
<1>5. Whole' /\ Targets' /\ Keys' /\ Renewing'
  BY <1>1 DEF Whole, Targets, Working, Keys, Renewing
<1>6. AuthorizedOnlyIfApproved' /\ RevokedKeyExcluded'
  BY <1>1, <1>2
  DEF Inv, Safe, AuthorizedOnlyIfApproved, RevokedKeyExcluded, Readers, Orderly
<1> QED  BY <1>3, <1>4, <1>5, <1>6 DEF Safe

\* Failures, restarts and deletions.
LEMMA EventSafe ==
  ASSUME Inv, Event
  PROVE  Safe'
<1> USE DEF docs, userDocs, channel, lists
<1>1. CASE OpThrows
  <2>1. op.pending = {}
    BY <1>1 DEF OpThrows, Inv, Parts, OpInv
  <2> QED  BY <1>1, <2>1, FailOpSafe DEF OpThrows
<1>2. CASE KeyloadThrows
  BY <1>2, RejectsSafe DEF KeyloadThrows
<1>3. CASE DeleteChannel \/ DeleteThrows \/ \E u \in User : DeleteCheck(u)
  BY <1>3, DeleteAside, AsideInv
<1>4. ASSUME NEW u \in User, RequestThrows(u)
      PROVE  Safe'
  BY <1>4, UserAside, AsideInv
<1> QED  BY <1>1, <1>2, <1>3, <1>4, RestartSafe DEF Event

\* Every step of an authorize or a revoke.
LEMMA OpStepSafe ==
  ASSUME Inv, OpStep
  PROVE  Safe'
<1>1. CASE ReadRequested \/ ReadSubscribers \/ ReadUnsubscribe \/ ReadForget
  BY <1>1, ReadListSafe DEF ReadRequested, ReadSubscribers, ReadUnsubscribe, ReadForget
<1>2. CASE \/ AuthorizeSave \/ WriteUnrequest \/ WriteSubscribe
           \/ WriteUnsubscribe \/ WriteForget \/ RevokeSave \/ RevokeData
  BY <1>2, LateStepSafe
<1> QED  BY <1>1, <1>2, GatherSafe, AuthorizeFirstSafe, KeyloadsSafe, RevokeStateSafe,
            RevokeSubSafe DEF OpStep

\* Nobody is authorized in a new channel, and nothing was published.
LEMMA InitSafe == Init => Safe
<1> SUFFICES ASSUME Init PROVE Safe
  OBVIOUS
<1>1. /\ queue = << >> /\ op = NoOp /\ del.pc = "none"
      /\ \A u \in User : ~Live(u) /\ ~subs[u].authorized /\ req[u].pc = "none"
      /\ hist.approved = {} /\ hist.revoked = {}
      /\ authorPassword = OwnPassword
  BY DEF Init, NoSub, NoReq, NoDel, Live
<1>2. Lined /\ Recorded /\ Whole
  BY <1>1 DEF Lined, Recorded, Whole, StateBacked, NoOp
<1>3. Targets /\ Keys /\ Renewing
  BY <1>1 DEF Targets, Keys, Renewing, Working, NoOp
<1>4. AuthorizedOnlyIfApproved /\ RevokedKeyExcluded
  BY <1>1 DEF AuthorizedOnlyIfApproved, RevokedKeyExcluded
<1> QED  BY <1>2, <1>3, <1>4 DEF Safe

\* Every step preserves the invariant.
LEMMA NextSafe == Inv /\ [Next]_vars => Inv'
<1> SUFFICES ASSUME Inv, [Next]_vars PROVE Safe'
  BY NextInv DEF Inv
<1>1. CASE UNCHANGED vars
  <2>1. Aside
    <3>1. /\ \A u \in User : req[u].pc \in {"addState", "addSub"} => ~Live(u)
          /\ del.pc # "none" => "delete subscription" \in Events
      BY DEF Inv, Safe, Recorded
    <3> QED  BY <1>1, <3>1 DEF vars, docs, userDocs, channel, lists, Aside
  <2> QED  BY <2>1, AsideInv
<1>2. ASSUME NEW u \in User,
             RequestCheck(u) \/ LogsSave(u) \/ Authorize(u) \/ Revoke(u)
      PROVE  Safe'
  <2>1. CASE RequestCheck(u) \/ LogsSave(u)
    BY <2>1, UserAside, AsideInv
  <2>2. CASE Authorize(u) \/ Revoke(u)
    BY <2>2, LoadSafe
  <2> QED  BY <1>2, <2>1, <2>2
<1>3. ASSUME NEW u \in User, RequestStep(u)
      PROVE  Safe'
  <2>1. CASE RequestReadList(u) \/ RequestWriteList(u) \/ LogsAdd(u)
    BY <2>1, UserAside, AsideInv
  <2> QED  BY <1>3, <2>1, RequestStateSafe, RequestSubSafe DEF RequestStep
<1>4. CASE DeleteStep
  <2>1. CASE DeleteRead \/ DeleteWrite
    BY <2>1, DeleteAside, AsideInv
  <2> QED  BY <1>4, <2>1, DeleteRemoveSafe DEF DeleteStep
<1>5. CASE Call
  BY <1>2, <1>5 DEF Call
<1> QED  BY <1>1, <1>3, <1>4, <1>5, OpStepSafe, KeyloadStepSafe, EventSafe DEF Next

\* The invariant of the argument holds throughout.
THEOREM SpecInv == Spec => []Inv
<1>1. Init => Inv
  BY InitInv, InitSafe DEF Inv
<1> QED  BY <1>1, NextSafe, PTL DEF Spec

\* A keyload call never authorizes a subscription that the author did not
\* authorize, whatever fails and restarts, as long as it does not meet with a
\* DELETE: setSubscriptionAuthorized finds the subscription the call was for.
THEOREM SpecAuthorizedOnlyIfApproved == Spec => []AuthorizedOnlyIfApproved
<1>1. Inv => AuthorizedOnlyIfApproved
  BY DEF Inv, Safe
<1> QED  BY <1>1, SpecInv, PTL

\* Once a revoke has removed a subscription, no branch of a reader or of the
\* author has a keyload for its key.
THEOREM SpecRevokedKeyExcluded == Spec => []RevokedKeyExcluded
<1>1. Inv => RevokedKeyExcluded
  BY DEF Inv, Safe
<1> QED  BY <1>1, SpecInv, PTL

\* Each subscription has its state document, but while its revoke removes both,
\* as long as nothing failed.
THEOREM SpecStateBacked == Spec => []StateBacked
<1>1. Inv => StateBacked
  BY DEF Inv, Safe, Whole, StateBacked
<1> QED  BY <1>1, SpecInv, PTL

\* Between the author's operations its state opens with the password of the
\* channel's type: fetchLogs may save it with another in between, the operations
\* save it again before they end.
THEOREM SpecAuthorStateReadable == Spec => []AuthorStateReadable
<1>1. Inv => AuthorStateReadable
  BY DEF Inv, Safe, Whole, AuthorStateReadable, AuthorIdle, Parts, OpInv
<1> QED  BY <1>1, SpecInv, PTL

-----------------------------------------------------------------------------
(* The two lists of the channel.                                           *)

\* Nothing that the lists do not recover from has happened.
InOrder == channelExists /\ ~hist.failed /\ ~hist.raced

\* A request that may still write a list.
Asking(u) == req[u].pc \in {"addState", "addSub", "readList", "writeList"}

Unlisted(u) == u \notin subscriberIds /\ u \notin requestedIds

\* The lists say of u what its subscription says.
Agreed(u) ==
  /\ u \in subscriberIds <=> subs[u].authorized /\ subs[u].kind # "psk"
  /\ u \in requestedIds <=> Live(u) /\ (~subs[u].authorized \/ subs[u].kind = "psk")

\* While a request is on its way the lists do not have the user yet.
AskedFor(u) ==
  /\ Asking(u) => op.who # u /\ Unlisted(u) /\ req[u].kind # "none"
  /\ Requesting(u) => /\ subs[u].kind = req[u].kind
                      /\ subs[u].authorized = AuthorizedAtOnce(req[u].kind)

\* An authorize moves the user from one list to the other at its end.
AuthorizedFor(u) ==
  op.kind = "authorize" /\ op.who = u =>
    /\ subs[u].kind \notin {"none", "psk"}
    /\ op.pc \in {"load", "fetch"} => ~subs[u].authorized
    /\ op.pc \notin {"load", "fetch"} => u \in op.pending \/ subs[u].authorized
    /\ u \notin subscriberIds
    /\ u \in requestedIds <=> op.pc \notin {"subscribe", "writeSubscribers"}

\* A revoke takes the user off the list that has it, after the subscription.
RevokedFor(u) ==
  op.kind = "revoke" /\ op.who = u =>
    /\ op.pc \in {"load", "fetch", "rest", "delSub"} =>
         Live(u) /\ subs[u].kind # "psk" /\ subs[u].authorized = op.authorized
    /\ op.pc \notin {"load", "fetch", "rest", "delSub"} => subs[u] = NoSub
    /\ op.pc = "save" => Unlisted(u)
    /\ op.pc # "save" => /\ u \in subscriberIds <=> op.authorized
                         /\ u \in requestedIds <=> ~op.authorized
    /\ op.pc \in {"unsubscribe", "writeUnsubscribe"} => op.authorized
    /\ op.pc \in {"forget", "writeForget"} => ~op.authorized

Entry(u) ==
  /\ AskedFor(u) /\ AuthorizedFor(u) /\ RevokedFor(u)
  /\ ~Asking(u) /\ op.who # u => Agreed(u)

Listed == InOrder => \A u \in User : Entry(u)

\* What a step does not touch stays in order: the users that neither it nor
\* the author's operation works for.
LEMMA EntryKept ==
  ASSUME NEW v \in User, Entry(v),
         op' = op \/ (op.who # v /\ op'.who # v),
         req'[v] = req[v] \/ (~Asking(v) /\ ~Asking(v)'), subs'[v] = subs[v],
         v \in subscriberIds' <=> v \in subscriberIds,
         v \in requestedIds' <=> v \in requestedIds
  PROVE  Entry(v)'
<1>1. /\ Asking(v)' <=> Asking(v)
      /\ Asking(v) => req'[v] = req[v]
      /\ Requesting(v) => Asking(v)
      /\ Requesting(v)' => Asking(v)'
  BY DEF Asking, Requesting
<1>2. AskedFor(v)'
  BY <1>1 DEF Entry, AskedFor, Requesting, Unlisted
<1>3. AuthorizedFor(v)' /\ RevokedFor(v)'
  BY DEF Entry, AuthorizedFor, RevokedFor, Unlisted, Live
<1>4. (~Asking(v) /\ op.who # v => Agreed(v))'
  BY <1>1 DEF Entry, Agreed, Live
<1> QED  BY <1>2, <1>3, <1>4 DEF Entry

\* A list that is written in order has not changed since it was read.
LEMMA WriteInOrder ==
  ASSUME Parts, channelExists, ~hist'.raced, NEW read, NEW ids
  PROVE  /\ WriteSubscribers(read, ids) =>
              read = subscriberIds /\ subscriberIds' = ids /\ requestedIds' = requestedIds
         /\ WriteRequested(read, ids) =>
              read = requestedIds /\ requestedIds' = ids /\ subscriberIds' = subscriberIds
BY DEF Parts, HistType, WriteSubscribers, WriteRequested

\* A request of u, while the lists are in order before and after.
LEMMA RequestListed ==
  ASSUME Inv, Listed, InOrder, InOrder', NEW u \in User,
         RequestCheck(u) \/ LogsSave(u) \/ RequestStep(u)
  PROVE  Listed'
<1> USE DEF docs, userDocs, channel, lists
<1>1. /\ req \in [User -> [pc : ReqPc, kind : Kind, key : Key \cup {NoKey},
                           copy : SUBSET User]]
      /\ \A v \in User : req[v].key = NoKey <=> req[v].kind \in {"none", "psk"}
  BY DEF Inv, Parts, ReqType
<1>2. subs \in [User -> [kind : Kind, key : Key \cup {NoKey}, authorized : BOOLEAN]]
  BY DEF Inv, Parts, SubsType
<1>3. hist \in [approved : SUBSET User, revoked : SUBSET Key, late : SUBSET User,
                failed : BOOLEAN, raced : BOOLEAN]
  BY DEF Inv, Parts, HistType
<1>4. op' = op
  BY DEF RequestCheck, LogsSave, RequestStep, RequestState, RequestSub,
         RequestReadList, RequestWriteList, LogsAdd
<1>5. \A v \in User : Entry(v)
  BY DEF Listed
<1>6. \A v \in User \ {u} : req'[v] = req[v] /\ subs'[v] = subs[v]
  BY <1>1, <1>2 DEF RequestCheck, LogsSave, RequestStep, RequestState, RequestSub,
         RequestReadList, RequestWriteList, LogsAdd, FailReq
<1>7. /\ subs[u].authorized => Live(u)
      /\ req[u].pc \in {"addState", "addSub"} => ~Live(u)
  BY DEF Inv, Safe, Recorded
<1>8. SUFFICES /\ \A v \in User \ {u} : /\ v \in subscriberIds' <=> v \in subscriberIds
                                        /\ v \in requestedIds' <=> v \in requestedIds
               /\ Entry(u)'
  BY <1>4, <1>5, <1>6, EntryKept DEF Listed
<1>9. CASE RequestWriteList(u)
  <2>1. /\ req[u].pc = "writeList" /\ Entry(u) /\ subs' = subs
        /\ req'[u].pc = "none" /\ req'[u].kind = "none"
    BY <1>1, <1>5, <1>9 DEF RequestWriteList, NoReq
  <2>2. /\ req[u].kind = "open" => /\ subscriberIds' = subscriberIds \cup {u}
                                   /\ requestedIds' = requestedIds
        /\ req[u].kind # "open" => /\ requestedIds' = requestedIds \cup {u}
                                   /\ subscriberIds' = subscriberIds
    <3>1. channelExists /\ ~hist'.raced
      BY DEF InOrder
    <3> QED  BY <1>9, <3>1, WriteInOrder DEF RequestWriteList, Inv
  <2>3. /\ Asking(u) /\ Requesting(u) /\ ~Asking(u)' /\ ~Requesting(u)'
    BY <2>1 DEF Asking, Requesting
  <2>4. /\ op.who # u /\ Unlisted(u) /\ req[u].kind # "none"
        /\ subs[u].kind = req[u].kind
        /\ subs[u].authorized <=> req[u].kind \in {"psk", "open"}
    BY <2>1, <2>3 DEF Entry, AskedFor, AuthorizedAtOnce
  <2>5. Agreed(u)'
    BY <2>1, <2>2, <2>4 DEF Agreed, Unlisted, Live
  <2>6. Entry(u)'
    BY <1>4, <2>3, <2>4, <2>5 DEF Entry, AskedFor, AuthorizedFor, RevokedFor
  <2> QED  BY <2>2, <2>6
<1>10. CASE ~RequestWriteList(u)
  <2>1. UNCHANGED lists
    BY <1>10 DEF RequestCheck, LogsSave, RequestStep, RequestState, RequestSub,
                 RequestReadList, LogsAdd
  <2>2. CASE RequestCheck(u)
    <3>1. /\ req[u].pc = "none" /\ ~Live(u) /\ subs' = subs
          /\ op.who # u
      BY <1>3, <2>2 DEF RequestCheck, InOrder
    <3>2. req'[u].pc = "addState" /\ req'[u].kind # "none"
      <4>1. ASSUME NEW r, r.pc = "addState", r.kind # "none", req' = [req EXCEPT ![u] = r]
            PROVE  req'[u].pc = "addState" /\ req'[u].kind # "none"
        BY <1>1, <4>1
      <4>2. \/ req' = [req EXCEPT ![u] = [NoReq EXCEPT !.pc = "addState", !.kind = "psk"]]
            \/ \E kind \in {"open", "reader", "writer"} : \E k : req' = [req EXCEPT ![u] =
                 [NoReq EXCEPT !.pc = "addState", !.kind = kind, !.key = k]]
        BY <2>2, KindsAssumption DEF RequestCheck
      <4>3. /\ [NoReq EXCEPT !.pc = "addState", !.kind = "psk"].pc = "addState"
            /\ [NoReq EXCEPT !.pc = "addState", !.kind = "psk"].kind # "none"
            /\ \A kind, k :
                 /\ [NoReq EXCEPT !.pc = "addState", !.kind = kind, !.key = k].pc = "addState"
                 /\ [NoReq EXCEPT !.pc = "addState", !.kind = kind, !.key = k].kind = kind
        BY DEF NoReq
      <4>4. CASE req' = [req EXCEPT ![u] = [NoReq EXCEPT !.pc = "addState", !.kind = "psk"]]
        BY <4>1, <4>3, <4>4
      <4>5. ASSUME NEW kind \in {"open", "reader", "writer"}, NEW k,
                   req' = [req EXCEPT ![u] =
                             [NoReq EXCEPT !.pc = "addState", !.kind = kind, !.key = k]]
            PROVE  req'[u].pc = "addState" /\ req'[u].kind # "none"
        <5> DEFINE r == [NoReq EXCEPT !.pc = "addState", !.kind = kind, !.key = k]
        <5>1. r.pc = "addState" /\ r.kind # "none"
          BY <4>3
        <5>2. req' = [req EXCEPT ![u] = r]
          BY <4>5
        <5> HIDE DEF r
        <5> QED  BY <4>1, <5>1, <5>2
      <4> QED  BY <4>2, <4>4, <4>5
    <3>3. Unlisted(u)
      BY <1>5, <1>7, <3>1 DEF Entry, Asking, Agreed, Unlisted
    <3>4. Entry(u)'
      BY <1>4, <2>1, <3>1, <3>2, <3>3
      DEF Entry, AskedFor, AuthorizedFor, RevokedFor, Asking, Requesting, Unlisted
    <3> QED  BY <2>1, <3>4
  <2>3. CASE LogsSave(u) \/ LogsAdd(u)
    <3>1. req[u].pc \in {"none", "addData"} /\ req'[u].pc \in {"none", "addData"}
      <4>1. CASE LogsSave(u)
        BY <1>1, <4>1 DEF LogsSave
      <4>2. CASE LogsAdd(u)
        BY <1>1, <4>2 DEF LogsAdd, NoReq
      <4> QED  BY <2>3, <4>1, <4>2
    <3>2. ~Asking(u) /\ ~Asking(u)'
      BY <3>1 DEF Asking
    <3>3. subs' = subs
      BY <2>3 DEF LogsSave, LogsAdd
    <3>4. Entry(u)'
      BY <1>4, <1>5, <2>1, <3>2, <3>3, EntryKept
    <3> QED  BY <2>1, <3>4
  <2>4. CASE RequestState(u)
    <3>1. /\ req[u].pc = "addState" /\ subs' = subs
          /\ \/ req'[u].pc = "none"
             \/ req'[u].pc = "addSub" /\ req'[u].kind = req[u].kind
      <4>1. req[u].pc = "addState" /\ subs' = subs
        BY <2>4 DEF RequestState
      <4>2. CASE req' = [req EXCEPT ![u] = NoReq]
        BY <1>1, <4>1, <4>2 DEF NoReq
      <4>3. CASE req' = [req EXCEPT ![u].pc = "addSub"]
        BY <1>1, <4>1, <4>3
      <4> QED  BY <2>4, <4>2, <4>3 DEF RequestState
    <3>2. op.who # u /\ Unlisted(u) /\ req[u].kind # "none" /\ ~Live(u)
      BY <1>5, <1>7, <3>1 DEF Entry, AskedFor, Asking
    <3>3. Entry(u)'
      BY <1>4, <1>7, <2>1, <3>1, <3>2
      DEF Entry, AskedFor, AuthorizedFor, RevokedFor, Asking, Requesting, Unlisted,
          Agreed, Live
    <3> QED  BY <2>1, <3>3
  <2>5. CASE RequestSub(u)
    <3>1. /\ req[u].pc = "addSub" /\ req'[u].pc = "readList" /\ req'[u].kind = req[u].kind
          /\ subs'[u].kind = req[u].kind
          /\ subs'[u].authorized = AuthorizedAtOnce(req[u].kind)
      BY <1>1, <1>2, <2>5 DEF RequestSub
    <3>2. op.who # u /\ Unlisted(u) /\ req[u].kind # "none"
      BY <1>5, <3>1 DEF Entry, AskedFor, Asking
    <3>3. Entry(u)'
      BY <1>4, <2>1, <3>1, <3>2
      DEF Entry, AskedFor, AuthorizedFor, RevokedFor, Asking, Requesting, Unlisted,
          AuthorizedAtOnce
    <3> QED  BY <2>1, <3>3
  <2>6. CASE RequestReadList(u)
    <3>1. /\ req[u].pc = "readList" /\ req'[u].pc = "writeList"
          /\ req'[u].kind = req[u].kind /\ subs' = subs
      BY <1>1, <1>3, <2>6 DEF RequestReadList, InOrder
    <3>2. Entry(u)'
      BY <1>4, <1>5, <2>1, <3>1
      DEF Entry, AskedFor, AuthorizedFor, RevokedFor, Asking, Requesting, Unlisted
    <3> QED  BY <2>1, <3>2
  <2> QED  BY <1>10, <2>2, <2>3, <2>4, <2>5, <2>6 DEF RequestStep
<1> QED  BY <1>9, <1>10

\* An operation ends, or goes on for the same subscription.
LEMMA OpGoesOn ==
  ASSUME Parts, OpStep
  PROVE  \/ op' = NoOp
         \/ /\ op'.kind = op.kind /\ op'.who = op.who /\ op'.key = op.key
            /\ op'.authorized = op.authorized
<1>1. op \in [kind : {"none", "authorize", "revoke"}, pc : OpPc,
              who : User \cup {NoUser}, key : Key \cup {NoKey},
              authorized : BOOLEAN, branches : SUBSET Member,
              keys : SUBSET Key, pending : SUBSET Member, copy : SUBSET User]
  BY DEF Parts, OpInv
<1>2. CASE Gather
  BY <1>1, <1>2 DEF Gather, FailOp
<1>3. CASE AuthorizeFirst
  BY <1>1, <1>3 DEF AuthorizeFirst
<1>4. CASE AuthorizeRest \/ RevokeKeyloads
  BY <1>1, <1>4 DEF AuthorizeRest, RevokeKeyloads
<1>5. CASE AuthorizeSave \/ RevokeState \/ RevokeSub \/ RevokeData
  BY <1>1, <1>5 DEF AuthorizeSave, RevokeState, RevokeSub, RevokeData
<1>6. CASE ReadRequested \/ ReadSubscribers \/ ReadUnsubscribe \/ ReadForget
  BY <1>1, <1>6 DEF ReadRequested, ReadSubscribers, ReadUnsubscribe, ReadForget,
                    ReadList, FailOp
<1>7. CASE WriteUnrequest \/ WriteUnsubscribe \/ WriteForget
  BY <1>1, <1>7 DEF WriteUnrequest, WriteUnsubscribe, WriteForget
<1>8. CASE WriteSubscribe \/ RevokeSave
  BY <1>8 DEF WriteSubscribe, RevokeSave
<1> QED  BY <1>2, <1>3, <1>4, <1>5, <1>6, <1>7, <1>8 DEF OpStep

\* A step of the author's operation, for the user it works for.
LEMMA OpListed ==
  ASSUME Inv, Phased, Listed, InOrder, InOrder', OpStep
  PROVE  Listed'
<1> USE DEF docs, userDocs, channel, lists
<1>1. /\ op \in [kind : {"none", "authorize", "revoke"}, pc : OpPc,
                 who : User \cup {NoUser}, key : Key \cup {NoKey},
                 authorized : BOOLEAN, branches : SUBSET Member,
                 keys : SUBSET Key, pending : SUBSET Member, copy : SUBSET User]
      /\ op.kind = "none" <=> op.pc = "none"
      /\ op.kind # "none" => op.who \in User
      /\ op.pc \notin {"first", "rest"} => op.pending = {}
  BY DEF Inv, Parts, OpInv
<1>2. subs \in [User -> [kind : Kind, key : Key \cup {NoKey}, authorized : BOOLEAN]]
  BY DEF Inv, Parts, SubsType
<1>3. channelExists /\ ~hist'.raced /\ ~hist'.failed
  BY DEF InOrder
<1>4. hist' # Failed
  BY <1>3 DEF Inv, Parts, HistType, Failed
<1>5. op.kind # "none"
  BY <1>1 DEF OpStep, Gather, AuthorizeFirst, AuthorizeRest, AuthorizeSave,
              ReadRequested, WriteUnrequest, ReadSubscribers, WriteSubscribe,
              RevokeKeyloads, RevokeState, RevokeSub, RevokeData, ReadUnsubscribe,
              WriteUnsubscribe, ReadForget, WriteForget, RevokeSave, ReadList
<1>6. PICK u \in User : u = op.who
  BY <1>1, <1>5
<1>7. Entry(u) /\ \A v \in User : Entry(v)
  BY DEF Listed
<1>8. req' = req
  BY DEF OpStep, Gather, AuthorizeFirst, AuthorizeRest, AuthorizeSave,
         ReadRequested, WriteUnrequest, ReadSubscribers, WriteSubscribe,
         RevokeKeyloads, RevokeState, RevokeSub, RevokeData, ReadUnsubscribe,
         WriteUnsubscribe, ReadForget, WriteForget, RevokeSave, ReadList
<1>9. ~Asking(u) /\ ~Asking(u)' /\ ~Requesting(u)'
  <2>1. ~Asking(u)
    BY <1>6, <1>7 DEF Entry, AskedFor
  <2> QED  BY <1>8, <2>1 DEF Asking, Requesting
<1>10. op'.who \in {u, NoUser}
  BY <1>6, OpGoesOn DEF Inv, NoOp
\* It is enough to look at the user the operation works for.
<1>11. SUFFICES
         /\ \A v \in User \ {u} : /\ v \in subscriberIds' <=> v \in subscriberIds
                                  /\ v \in requestedIds' <=> v \in requestedIds
                                  /\ subs'[v] = subs[v]
         /\ (AuthorizedFor(u) /\ RevokedFor(u))'
         /\ op'.who # u => Agreed(u)'
  <2>1. ASSUME NEW v \in User \ {u},
               v \in subscriberIds' <=> v \in subscriberIds,
               v \in requestedIds' <=> v \in requestedIds,
               subs'[v] = subs[v]
        PROVE  Entry(v)'
    BY <1>6, <1>7, <1>8, <1>10, <2>1, EntryKept, NoUserAssumption
  <2>2. AskedFor(u)'
    BY <1>9 DEF AskedFor
  <2> QED  BY <2>1, <2>2 DEF Listed, Entry
<1>12. /\ op.kind = "authorize" => /\ AuthorizedFor(u) /\ op.pc \in AuthorizePc
       /\ op.kind = "revoke" => RevokedFor(u) /\ op.pc \in RevokePc
  BY <1>7 DEF Entry, Phased
<1>13. op'.pc # "none" =>
         op'.kind = op.kind /\ op'.who = u /\ op'.authorized = op.authorized
  BY <1>6, OpGoesOn DEF Inv, NoOp
<1>14. NoOp.who # u /\ NoOp.kind = "none"
  BY NoUserAssumption DEF NoOp
<1>15. subs[u].authorized => Live(u)
  BY DEF Inv, Safe, Recorded
<1>16. CASE Gather \/ AuthorizeFirst \/ AuthorizeRest \/ RevokeKeyloads \/ AuthorizeSave
            \/ ReadRequested \/ ReadSubscribers \/ ReadUnsubscribe \/ ReadForget
            \/ RevokeState \/ RevokeData
  <2>1. UNCHANGED <<subs, subscriberIds, requestedIds>>
    BY <1>16 DEF Gather, AuthorizeFirst, AuthorizeRest, RevokeKeyloads, AuthorizeSave,
         ReadRequested, ReadSubscribers, ReadUnsubscribe, ReadForget, ReadList,
         RevokeState, RevokeData
  <2>2. \/ op.pc = "load" /\ op'.pc = "fetch"
        \/ op.kind = "authorize" /\ op.pc = "fetch" /\ op'.pc = "first" /\ u \in op'.pending
        \/ op.pc = "first" /\ op'.pc = "rest" /\ op.pending = {}
        \/ op.kind = "revoke" /\ op.pc = "fetch" /\ op'.pc = "rest"
        \/ op.kind = "authorize" /\ op.pc = "rest" /\ op'.pc = "unrequest" /\ op.pending = {}
        \/ op.pc = "unrequest" /\ op'.pc = "writeRequested"
        \/ op.pc = "subscribe" /\ op'.pc = "writeSubscribers"
        \/ op.pc = "unsubscribe" /\ op'.pc = "writeUnsubscribe"
        \/ op.pc = "forget" /\ op'.pc = "writeForget"
        \/ op.kind = "revoke" /\ op.pc = "rest" /\ op'.pc = "delSub"
        \/ op.pc = "delData" /\ op.authorized /\ op'.pc = "unsubscribe"
        \/ op.pc = "delData" /\ ~op.authorized /\ op'.pc = "forget"
    <3>1. CASE Gather
      <4>1. \E b, k : /\ op.pc = "load"
                      /\ op' = [op EXCEPT !.pc = "fetch", !.branches = b, !.keys = k]
        BY <1>4, <3>1 DEF Gather, FailOp
      <4> QED  BY <1>1, <4>1
    <3>2. CASE AuthorizeFirst
      BY <1>1, <1>6, <3>2 DEF AuthorizeFirst
    <3>3. CASE AuthorizeRest
      BY <1>1, <3>3 DEF AuthorizeRest
    <3>4. CASE RevokeKeyloads
      BY <1>1, <3>4 DEF RevokeKeyloads
    <3>5. CASE AuthorizeSave \/ RevokeState
      BY <1>1, <3>5 DEF AuthorizeSave, RevokeState
    <3>6. CASE ReadRequested \/ ReadSubscribers \/ ReadUnsubscribe \/ ReadForget
      <4>1. \E to, ids : /\ op' = [op EXCEPT !.pc = to, !.copy = ids]
                         /\ \/ op.pc = "unrequest" /\ to = "writeRequested"
                            \/ op.pc = "subscribe" /\ to = "writeSubscribers"
                            \/ op.pc = "unsubscribe" /\ to = "writeUnsubscribe"
                            \/ op.pc = "forget" /\ to = "writeForget"
        BY <1>4, <3>6 DEF ReadRequested, ReadSubscribers, ReadUnsubscribe, ReadForget,
                          ReadList, FailOp
      <4> QED  BY <1>1, <4>1
    <3>7. CASE RevokeData
      BY <1>1, <3>7 DEF RevokeData, ListToLeave
    <3> QED  BY <1>16, <3>1, <3>2, <3>3, <3>4, <3>5, <3>6, <3>7
  <2>3. op'.kind = op.kind /\ op'.who = u /\ op'.authorized = op.authorized
    BY <1>13, <2>2
  <2>4. AuthorizedFor(u)'
    BY <1>1, <1>5, <1>6, <1>12, <2>1, <2>2, <2>3 DEF AuthorizedFor, AuthorizePc
  <2>5. RevokedFor(u)'
    BY <1>1, <1>5, <1>6, <1>12, <2>1, <2>2, <2>3
    DEF RevokedFor, RevokePc, Live, Unlisted
  <2> QED  BY <2>1, <2>3, <2>4, <2>5
<1>17. CASE RevokeSub
  <2>1. /\ op.pc = "delSub" /\ op'.pc = "delData"
        /\ subs' = [subs EXCEPT ![u] = NoSub]
        /\ UNCHANGED <<subscriberIds, requestedIds>>
    BY <1>1, <1>6, <1>17 DEF RevokeSub, RemoveSub
  <2>2. op'.kind = "revoke" /\ op.kind = "revoke" /\ op'.who = u
        /\ op'.authorized = op.authorized
    BY <1>1, <1>12, <1>13, <2>1 DEF AuthorizePc
  <2>3. subs'[u] = NoSub /\ \A v \in User \ {u} : subs'[v] = subs[v]
    BY <1>2, <2>1
  <2>4. AuthorizedFor(u)' /\ RevokedFor(u)'
    BY <1>6, <1>12, <2>1, <2>2, <2>3 DEF AuthorizedFor, RevokedFor, Live, Unlisted
  <2> QED  BY <2>1, <2>2, <2>3, <2>4
<1>18. CASE WriteUnrequest \/ WriteForget
  <2>1. /\ requestedIds' = op.copy \ {u} /\ op.copy = requestedIds
        /\ subscriberIds' = subscriberIds
    BY <1>3, <1>6, <1>18, WriteInOrder DEF WriteUnrequest, WriteForget, Inv
  <2>2. /\ subs' = subs
        /\ \/ op.pc = "writeRequested" /\ op'.pc = "subscribe"
           \/ op.pc = "writeForget" /\ op'.pc = "save"
    <3>1. CASE WriteUnrequest
      BY <1>1, <3>1 DEF WriteUnrequest
    <3>2. CASE WriteForget
      BY <1>1, <3>2 DEF WriteForget
    <3> QED  BY <1>18, <3>1, <3>2
  <2>3. op'.kind = op.kind /\ op'.who = u /\ op'.authorized = op.authorized
    BY <1>13, <2>2
  <2>4. AuthorizedFor(u)' /\ RevokedFor(u)'
    BY <1>1, <1>5, <1>6, <1>12, <2>1, <2>2, <2>3
    DEF AuthorizedFor, RevokedFor, AuthorizePc, RevokePc, Live, Unlisted
  <2> QED  BY <2>1, <2>2, <2>3, <2>4
<1>19. CASE WriteUnsubscribe
  <2>1. /\ subscriberIds' = op.copy \ {u} /\ op.copy = subscriberIds
        /\ requestedIds' = requestedIds
    BY <1>3, <1>6, <1>19, WriteInOrder DEF WriteUnsubscribe, Inv
  <2>2. /\ subs' = subs /\ op.pc = "writeUnsubscribe" /\ op'.pc = "save"
    BY <1>1, <1>19 DEF WriteUnsubscribe
  <2>3. op'.kind = op.kind /\ op'.who = u /\ op'.authorized = op.authorized
    BY <1>13, <2>2
  <2>4. AuthorizedFor(u)' /\ RevokedFor(u)'
    BY <1>1, <1>5, <1>6, <1>12, <2>1, <2>2, <2>3
    DEF AuthorizedFor, RevokedFor, AuthorizePc, RevokePc, Live, Unlisted
  <2> QED  BY <2>1, <2>2, <2>3, <2>4
<1>20. CASE WriteSubscribe
  <2>1. /\ subscriberIds' = op.copy \cup {u} /\ op.copy = subscriberIds
        /\ requestedIds' = requestedIds
    BY <1>3, <1>6, <1>20, WriteInOrder DEF WriteSubscribe, Inv
  <2>2. subs' = subs /\ op' = NoOp /\ op.pc = "writeSubscribers"
    BY <1>20 DEF WriteSubscribe
  <2>3. /\ subs[u].kind \notin {"none", "psk"} /\ subs[u].authorized
        /\ u \notin requestedIds
    BY <1>1, <1>5, <1>6, <1>12, <2>2 DEF AuthorizedFor, RevokePc
  <2>4. Agreed(u)'
    BY <2>1, <2>2, <2>3 DEF Agreed, Live
  <2>5. AuthorizedFor(u)' /\ RevokedFor(u)'
    BY <1>14, <2>2 DEF AuthorizedFor, RevokedFor
  <2> QED  BY <2>1, <2>2, <2>4, <2>5
<1>21. CASE RevokeSave
  <2>1. subs' = subs /\ op' = NoOp /\ op.pc = "save" /\ UNCHANGED <<subscriberIds, requestedIds>>
    BY <1>21 DEF RevokeSave
  <2>2. subs[u] = NoSub /\ Unlisted(u)
    BY <1>1, <1>5, <1>6, <1>12, <2>1 DEF RevokedFor, AuthorizePc
  <2>3. Agreed(u)'
    BY <2>1, <2>2 DEF Agreed, Live, Unlisted, NoSub
  <2>4. AuthorizedFor(u)' /\ RevokedFor(u)'
    BY <1>14, <2>1 DEF AuthorizedFor, RevokedFor
  <2> QED  BY <2>1, <2>3, <2>4
<1> QED  BY <1>16, <1>17, <1>18, <1>19, <1>20, <1>21 DEF OpStep

\* The author takes up a subscription whose request is over: it is listed.
LEMMA LoadListed ==
  ASSUME Inv, Phased, Listed, InOrder, InOrder', NEW u \in User,
         Authorize(u) \/ Revoke(u)
  PROVE  Listed'
<1> USE DEF docs, userDocs, channel, lists
<1>1. /\ op.who = NoUser /\ op'.who = u /\ op'.pc = "load"
      /\ \/ op'.kind = "authorize" /\ Authorizable(u)
         \/ op'.kind = "revoke" /\ Revocable(u)
      /\ op'.authorized = subs[u].authorized /\ op'.pending = {}
  <2>1. PICK kind \in {"authorize", "revoke"} :
          /\ Load(kind, u) /\ op.kind = "none"
          /\ kind = "authorize" => Authorizable(u)
          /\ kind = "revoke" => Revocable(u)
    BY DEF Authorize, Revoke, Load
  <2>2. op.who = NoUser
    BY <2>1 DEF Phased, NoOp
  <2>3. /\ op'.kind = kind /\ op'.pc = "load" /\ op'.who = u
        /\ op'.authorized = subs[u].authorized /\ op'.pending = {}
    BY <2>1 DEF Load, NoOp
  <2> QED  BY <2>1, <2>2, <2>3
<1>2. UNCHANGED <<subs, lists, req>>
  BY DEF Authorize, Revoke, Load
<1>3. ~Requesting(u)
  <2>1. ~hist'.raced
    BY DEF InOrder
  <2> QED  BY <2>1 DEF Authorize, Revoke, Inv, Parts, HistType
<1>4. Live(u) /\ subs[u].kind \notin {"none", "psk"}
  BY DEF Authorize, Authorizable, Revoke, Revocable, HasLink, Live, Inv, Parts, SubsType
<1>5. ~Asking(u)
  BY <1>3, <1>4 DEF Asking, Requesting, Inv, Safe, Recorded
<1>6. \A v \in User : Entry(v)
  BY DEF Listed
<1>7. ASSUME NEW v \in User, v # u
      PROVE  Entry(v)'
  BY <1>1, <1>2, <1>6, <1>7, EntryKept, NoUserAssumption
<1>8. Agreed(u)
  BY <1>1, <1>5, <1>6, NoUserAssumption DEF Entry
<1>9. AskedFor(u)'
  BY <1>2, <1>3, <1>5 DEF AskedFor, Asking, Requesting
<1>10. AuthorizedFor(u)' /\ RevokedFor(u)'
  BY <1>1, <1>2, <1>4, <1>8
  DEF AuthorizedFor, RevokedFor, Agreed, Authorizable, Live, Unlisted
<1> QED  BY <1>1, <1>7, <1>9, <1>10 DEF Listed, Entry

\* A keyload is recorded for a subscription that is authorized already, but for
\* the one that an authorize is for.
LEMMA RecordListed ==
  ASSUME Inv, Phased, Listed, InOrder, InOrder', RecordKeyload
  PROVE  Listed'
<1> USE DEF docs, userDocs, channel, lists
<1>1. /\ op \in [kind : {"none", "authorize", "revoke"}, pc : OpPc,
                 who : User \cup {NoUser}, key : Key \cup {NoKey},
                 authorized : BOOLEAN, branches : SUBSET Member,
                 keys : SUBSET Key, pending : SUBSET Member, copy : SUBSET User]
      /\ op.kind = "none" <=> op.pc = "none"
  BY DEF Inv, Parts, OpInv
<1>2. subs \in [User -> [kind : Kind, key : Key \cup {NoKey}, authorized : BOOLEAN]]
  BY DEF Inv, Parts, SubsType
<1>3. queue # << >> /\ Head(queue) = queue[1] /\ 1 \in 1..Len(queue)
  BY CallsType, FirstCall DEF RecordKeyload, Inv
<1>4. queue[1].live
  BY <1>3 DEF Inv, Safe, Whole, InOrder
<1>5. PICK m \in Member : m = queue[1].branch
  BY <1>3, CallsType DEF Inv
<1>6. hist' # Failed
  BY DEF InOrder, Inv, Parts, HistType, Failed
<1>7. /\ KeyloadResolves
      /\ \/ m = Author /\ subs' = subs
         \/ m \in User /\ Live(m) /\ subs' = [subs EXCEPT ![m].authorized = TRUE]
  BY <1>3, <1>4, <1>5, <1>6 DEF RecordKeyload, KeyloadRejects
<1>8. /\ op'.kind = op.kind /\ op'.pc = op.pc /\ op'.who = op.who
      /\ op'.authorized = op.authorized /\ op'.pending = op.pending \ {m}
  BY <1>1, <1>3, <1>4, <1>5, <1>7 DEF KeyloadResolves
<1>9. UNCHANGED <<lists, req, channelExists>> /\ m \in op.pending
  BY <1>3, <1>4, <1>5 DEF RecordKeyload, Inv, Parts, OpInv, Agree
<1>10. m \in User => \/ subs[m].authorized
                     \/ op.kind = "authorize" /\ op.pc = "first" /\ m = op.who
  <2>1. Targets /\ Renewing
    BY DEF Inv, Safe, InOrder, Orderly
  <2>2. m \in User => Settled(m) \/ op.pc = "first"
    BY <1>3, <1>5, <2>1 DEF Targets
  <2>3. op.pc = "first" => m = op.who /\ op.kind = "authorize"
    BY <1>1, <1>9, <2>1 DEF Inv, Safe, Lined, Renewing
  <2> QED  BY <1>7, <2>2, <2>3, AuthorAssumption DEF Settled, Gone
<1>11. ASSUME NEW v \in User
       PROVE  /\ subs'[v].kind = subs[v].kind
              /\ v # m \/ subs[v].authorized => subs'[v].authorized = subs[v].authorized
              /\ v = m => subs'[v].authorized
              /\ subs[v] = NoSub => subs'[v] = NoSub
  <2>1. CASE m = Author /\ subs' = subs
    BY <2>1, AuthorAssumption
  <2>2. CASE m \in User /\ Live(m) /\ subs' = [subs EXCEPT ![m].authorized = TRUE]
    <3>1. CASE v = m
      <4>1. subs'[v].authorized /\ subs'[v].kind = subs[v].kind
        BY <1>2, <2>2, <3>1
      <4>2. subs[v] # NoSub
        BY <2>2, <3>1 DEF Live, NoSub
      <4> QED  BY <3>1, <4>1, <4>2, <1>2
    <3>2. CASE v # m
      BY <1>2, <2>2, <3>2
    <3> QED  BY <3>1, <3>2
  <2> QED  BY <1>7, <2>1, <2>2
<1>12. ASSUME NEW v \in User
       PROVE  Entry(v)'
  <2>1. Entry(v)
    BY DEF Listed
  <2>2. /\ Asking(v)' <=> Asking(v)
        /\ Requesting(v)' <=> Requesting(v)
        /\ Unlisted(v)' <=> Unlisted(v)
        /\ Live(v)' <=> Live(v)
    BY <1>9, <1>11 DEF Asking, Requesting, Unlisted, Live
  <2>3. CASE v # m \/ subs[v].authorized
    <3>1. subs'[v].authorized = subs[v].authorized /\ subs'[v].kind = subs[v].kind
      BY <1>11, <2>3
    <3>2. AskedFor(v)'
      BY <1>8, <1>9, <2>1, <2>2, <3>1 DEF Entry, AskedFor
    <3>3. AuthorizedFor(v)'
      BY <1>8, <1>9, <2>1, <2>3, <3>1 DEF Entry, AuthorizedFor
    <3>4. RevokedFor(v)'
      BY <1>8, <1>9, <1>11, <2>1, <2>2, <3>1 DEF Entry, RevokedFor
    <3>5. (~Asking(v) /\ op.who # v => Agreed(v))'
      BY <1>8, <1>9, <2>1, <2>2, <3>1 DEF Entry, Agreed
    <3> QED  BY <3>2, <3>3, <3>4, <3>5 DEF Entry
  <2>4. CASE v = m /\ ~subs[v].authorized
    <3>1. op.kind = "authorize" /\ op.pc = "first" /\ v = op.who
      BY <1>10, <2>4
    <3>2. ~Asking(v) /\ ~Requesting(v)
      BY <2>1, <3>1 DEF Entry, AskedFor, Asking, Requesting
    <3>3. AuthorizedFor(v)'
      BY <1>8, <1>9, <1>11, <2>1, <2>4, <3>1 DEF Entry, AuthorizedFor
    <3> QED  BY <1>8, <2>2, <3>1, <3>2, <3>3 DEF Entry, AskedFor, RevokedFor
  <2> QED  BY <2>3, <2>4
<1> QED  BY <1>12 DEF Listed

\* As long as no subscription is deleted with a DELETE, every step keeps the
\* lists as they should be.
LEMMA NextListed ==
  ASSUME "delete subscription" \notin Events, Inv, Phased, Listed, [Next]_vars
  PROVE  Listed'
<1> USE DEF docs, userDocs, channel, lists
<1>1. SUFFICES ASSUME InOrder' PROVE Listed'
  BY DEF Listed
<1>2. InOrder
  BY <1>1, NothingForgotten DEF InOrder, Remembered, Inv
<1>3. \A v \in User : Entry(v)
  BY <1>2 DEF Listed
<1>4. ASSUME UNCHANGED <<op, req, subs, lists>>
      PROVE  Listed'
  BY <1>3, <1>4, EntryKept DEF Listed
<1>5. del.pc = "none"
  BY DEF Inv, Safe, Recorded
<1>6. hist' # Failed /\ channelExists'
  BY <1>1 DEF InOrder, Inv, Parts, HistType, Failed
<1>7. CASE UNCHANGED vars
  BY <1>4, <1>7 DEF vars
<1>8. CASE SendKeyload
  BY <1>4, <1>8 DEF SendKeyload
<1>9. CASE RecordKeyload
  BY <1>1, <1>2, <1>9, RecordListed
<1>10. ~DeleteStep
  BY <1>5 DEF DeleteStep, DeleteRead, DeleteWrite, DeleteRemove
<1>11. ~Event
  <2>1. ~KeyloadThrows
    <3>1. queue # << >> => Head(queue) = queue[1] /\ 1 \in 1..Len(queue)
      BY CallsType, FirstCall DEF Inv
    <3>2. queue # << >> => queue[1].live
      BY <1>2, <3>1 DEF Inv, Safe, Whole, InOrder
    <3> QED  BY <1>6, <3>1, <3>2 DEF KeyloadThrows, KeyloadRejects
  <2>2. ~OpThrows /\ ~DeleteThrows /\ ~Restart /\ ~DeleteChannel
    BY <1>6 DEF OpThrows, FailOp, DeleteThrows, Restart, DeleteChannel
  <2>3. \A u \in User : ~DeleteCheck(u) /\ ~RequestThrows(u)
    BY <1>6 DEF DeleteCheck, RequestThrows, FailReq
  <2> QED  BY <2>1, <2>2, <2>3 DEF Event
<1>12. CASE Call
  BY <1>1, <1>2, <1>12, RequestListed, LoadListed DEF Call
<1>13. CASE \E u \in User : RequestStep(u)
  BY <1>1, <1>2, <1>13, RequestListed
<1>14. CASE OpStep
  BY <1>1, <1>2, <1>14, OpListed
<1> QED
  BY <1>7, <1>8, <1>9, <1>10, <1>11, <1>12, <1>13, <1>14 DEF Next, KeyloadStep

\* The lists of the channel say who has asked and who has been authorized, each
\* time the author is done, as long as the channel's entry is there, nothing
\* failed half-way and no list was written from a stale copy: the steps of
\* authorize, revoke and the requests in between leave no id on a wrong list or
\* on both.  A DELETE does: it leaves the id on the list of requested ones, hence
\* the hypothesis.
THEOREM SpecListsAgree ==
  ASSUME "delete subscription" \notin Events
  PROVE  Spec => []ListsAgree
<1>1. Init => Inv /\ Phased /\ Listed
  <2> SUFFICES ASSUME Init PROVE Inv /\ Phased /\ Listed
    OBVIOUS
  <2>1. Inv
    BY InitInv, InitSafe DEF Inv
  <2>2. Phased
    BY DEF Init, Phased, NoOp
  <2>3. \A u \in User : Entry(u)
    BY NoUserAssumption
    DEF Init, Entry, AskedFor, AuthorizedFor, RevokedFor, Agreed, Asking, Requesting,
        Unlisted, Live, NoOp, NoReq, NoSub
  <2> QED  BY <2>1, <2>2, <2>3 DEF Listed
<1>2. Inv /\ Phased /\ Listed /\ [Next]_vars => (Inv /\ Phased /\ Listed)'
  BY NextSafe, NextPhased, NextListed DEF Inv
<1>3. Inv /\ Phased /\ Listed => ListsAgree
  <2>1. ASSUME Phased, Listed, AuthorIdle, InOrder, NEW u \in User, ~Asking(u)
        PROVE  Agreed(u)
    <3>1. op.who # u
      <4>1. op = NoOp
        BY <2>1 DEF Phased, AuthorIdle
      <4> QED  BY <4>1, NoUserAssumption DEF NoOp
    <3>2. Entry(u)
      BY <2>1 DEF Listed
    <3> QED  BY <2>1, <3>1, <3>2 DEF Entry
  <2>2. Inv => \A u \in User : req[u].pc \in {"none", "addData"} => ~Asking(u)
    BY DEF Asking
  <2> QED  BY <2>1, <2>2 DEF ListsAgree, InOrder, Agreed
<1> QED  BY <1>1, <1>2, <1>3, PTL DEF Spec

-----------------------------------------------------------------------------
(* The readers and the keyloads.                                           *)

\* No two users have a seed that gives the same key.
SeedsDiffer == \A u, v \in User : u # v => KeysOf[u] \cap KeysOf[v] = {}

\* The keys of a subscription, a request and an operation are the user's own.
Own ==
  /\ \A u \in User : /\ subs[u].key \in KeysOf[u] \cup {NoKey}
                     /\ req[u].key \in KeysOf[u] \cup {NoKey}
  /\ op.kind # "none" => op.key \in KeysOf[op.who]

Branches == Readers \cup {Author}

\* An authorize: the new reader's key is on the branches that have had their
\* keyload, and in each keyload to come.
Joining ==
  /\ op.pc \in {"load", "fetch"} => op.who \notin Readers
  /\ op.pc \in {"fetch", "first"} =>
       /\ Readers \subseteq op.branches \cup {op.who}
       /\ \A u \in Readers : subs[u].key \in op.keys \cup {op.key}
  /\ op.pc \in {"load", "fetch", "first"} /\ Live(op.who) => subs[op.who].key = op.key
  /\ \A i \in 1..Len(queue) : op.key \in queue[i].keys
  /\ op.pc = "first" /\ op.who \in Readers => op.key \in keyload[op.who]
  /\ op.pc = "rest" => \A m \in Branches :
       \/ op.key \in keyload[m]
       \/ \E i \in 1..Len(queue) : queue[i].branch = m /\ ~queue[i].sent

\* A revoke: every other reader's key is in the keyloads to come; in the end
\* there is no reader with the revoked one.
Leaving ==
  /\ op.pc = "fetch" => \A u \in Readers : subs[u].key \in op.keys \cup {op.key}
  /\ op.pc \in RevokePc \ {"load", "fetch", "rest", "delSub"} => op.who \notin Readers

\* Every reader's key is on every branch, and in every keyload that is queued,
\* but perhaps the one that an operation adds or removes.
Covered ==
  ~hist.failed =>
    /\ \A m \in Branches, u \in Readers : subs[u].key \in keyload[m] \cup {op.key}
    /\ op.kind # "revoke" /\ op.pc \notin {"first", "rest"} =>
         \A m \in Branches, u \in Readers : subs[u].key \in keyload[m]
    /\ \A i \in 1..Len(queue) :
         /\ queue[i].sent /\ (queue[i].branch = Author \/ Live(queue[i].branch)) =>
              queue[i].keys \subseteq keyload[queue[i].branch]
         /\ \A u \in Readers : subs[u].key \in queue[i].keys \cup {op.key}
    /\ op.kind = "authorize" => Joining
    /\ op.kind = "revoke" => Leaving

\* While nothing has failed the queue holds what the operation awaits.
LEMMA NothingQueued ==
  ASSUME Inv, ~hist.failed, op.pending = {}
  PROVE  queue = << >>
<1>1. \A i \in 1..Len(queue) : queue[i].live /\ ~queue[i].live
  BY NoneLive DEF Inv, Safe, Whole
<1>2. queue # << >> => 1 \in 1..Len(queue)
  BY FirstCall, CallsType DEF Inv
<1> QED  BY <1>1, <1>2

\* Keys stay with their users.
LEMMA NextOwn ==
  ASSUME Parts, Own, [Next]_vars
  PROVE  Own'
<1> USE DEF docs, userDocs, channel, lists
<1>1. req \in [User -> [pc : ReqPc, kind : Kind, key : Key \cup {NoKey},
                        copy : SUBSET User]]
  BY DEF Parts, ReqType
<1>2. subs \in [User -> [kind : Kind, key : Key \cup {NoKey}, authorized : BOOLEAN]]
  BY DEF Parts, SubsType
<1>3. op \in [kind : {"none", "authorize", "revoke"}, pc : OpPc,
              who : User \cup {NoUser}, key : Key \cup {NoKey},
              authorized : BOOLEAN, branches : SUBSET Member,
              keys : SUBSET Key, pending : SUBSET Member, copy : SUBSET User]
  BY DEF Parts, OpInv
<1> DEFINE SubsKept == \A v \in User : subs'[v].key \in {subs[v].key, NoKey}
           ReqKept  == \A v \in User : req'[v].key \in {req[v].key, NoKey}
           OpKept   == \/ op'.kind = "none"
                       \/ op'.kind = op.kind /\ op'.who = op.who /\ op'.key = op.key
<1>4. ASSUME SubsKept, ReqKept, OpKept
      PROVE  Own'
  BY <1>4 DEF Own
<1>5. CASE UNCHANGED vars
  BY <1>4, <1>5 DEF vars
<1>6. ASSUME NEW u \in User, RequestCheck(u)
      PROVE  Own'
  <2>1. subs' = subs /\ op' = op /\ \A v \in User \ {u} : req'[v] = req[v]
    BY <1>1, <1>6 DEF RequestCheck
  <2>2. req'[u].key \in KeysOf[u] \cup {NoKey}
    <3>1. ASSUME NEW r, r.key \in KeysOf[u] \cup {NoKey}, req' = [req EXCEPT ![u] = r]
          PROVE  req'[u].key \in KeysOf[u] \cup {NoKey}
      BY <1>1, <3>1
    <3>2. /\ [NoReq EXCEPT !.pc = "addState", !.kind = "psk"].key = NoKey
          /\ \A kind, k :
               [NoReq EXCEPT !.pc = "addState", !.kind = kind, !.key = k].key = k
      BY DEF NoReq
    <3>3. CASE req' = [req EXCEPT ![u] = [NoReq EXCEPT !.pc = "addState", !.kind = "psk"]]
      BY <3>1, <3>2, <3>3
    <3>4. ASSUME NEW k \in KeysOf[u], NEW kind,
                 req' = [req EXCEPT ![u] =
                           [NoReq EXCEPT !.pc = "addState", !.kind = kind, !.key = k]]
          PROVE  req'[u].key \in KeysOf[u] \cup {NoKey}
      <4> DEFINE r == [NoReq EXCEPT !.pc = "addState", !.kind = kind, !.key = k]
      <4>1. r.key \in KeysOf[u] \cup {NoKey}
        BY <3>2
      <4>2. req' = [req EXCEPT ![u] = r]
        BY <3>4
      <4> HIDE DEF r
      <4> QED  BY <3>1, <4>1, <4>2
    <3> QED  BY <1>6, <3>3, <3>4 DEF RequestCheck
  <2> QED  BY <2>1, <2>2 DEF Own
<1>7. ASSUME NEW u \in User, RequestSub(u)
      PROVE  Own'
  <2>1. /\ subs'[u].key = req[u].key /\ req'[u].key = req[u].key /\ op' = op
        /\ \A v \in User \ {u} : subs'[v] = subs[v] /\ req'[v] = req[v]
    BY <1>1, <1>2, <1>7 DEF RequestSub
  <2> QED  BY <2>1 DEF Own
<1>8. ASSUME NEW u \in User,
             \/ LogsSave(u) \/ RequestState(u) \/ RequestReadList(u)
             \/ RequestWriteList(u) \/ LogsAdd(u) \/ RequestThrows(u) \/ DeleteCheck(u)
      PROVE  Own'
  <2>1. subs' = subs /\ op' = op
    BY <1>8 DEF LogsSave, RequestState, RequestReadList, RequestWriteList, LogsAdd,
                RequestThrows, DeleteCheck
  <2>2. ReqKept
    <3>1. CASE LogsSave(u) \/ RequestState(u) \/ DeleteCheck(u) \/ LogsAdd(u)
      <4>1. \/ req' = req \/ req' = [req EXCEPT ![u] = NoReq]
            \/ \E to : req' = [req EXCEPT ![u].pc = to]
        BY <3>1 DEF LogsSave, RequestState, DeleteCheck, LogsAdd
      <4>2. CASE req' = [req EXCEPT ![u] = NoReq]
        BY <1>1, <4>2 DEF NoReq
      <4>3. ASSUME NEW to, req' = [req EXCEPT ![u].pc = to]
            PROVE  ReqKept
        BY <1>1, <4>3
      <4> QED  BY <4>1, <4>2, <4>3
    <3>2. CASE RequestReadList(u) \/ RequestWriteList(u) \/ RequestThrows(u)
      BY <1>1, <3>2 DEF RequestReadList, RequestWriteList, RequestThrows, FailReq, NoReq
    <3> QED  BY <1>8, <3>1, <3>2
  <2> QED  BY <1>4, <2>1, <2>2
<1>9. ASSUME NEW u \in User, Authorize(u) \/ Revoke(u)
      PROVE  Own'
  <2>1. /\ subs' = subs /\ req' = req /\ op'.who = u /\ op'.key = subs[u].key
        /\ subs[u].key # NoKey
    BY <1>9 DEF Authorize, Revoke, Load, NoOp, Authorizable, Revocable, HasLink
  <2> QED  BY <2>1 DEF Own
<1>10. CASE SendKeyload \/ DeleteRead \/ DeleteWrite \/ DeleteChannel \/ DeleteThrows
  <2>1. subs' = subs /\ req' = req /\ op' = op
    BY <1>10 DEF SendKeyload, DeleteRead, DeleteWrite, DeleteChannel, DeleteThrows
  <2> QED  BY <1>4, <2>1
<1>11. CASE DeleteRemove
  <2>1. req' = req /\ op' = op /\ \E u : RemoveSub(u)
    BY <1>11 DEF DeleteRemove
  <2>2. SubsKept
    BY <1>2, <2>1 DEF RemoveSub, NoSub
  <2> QED  BY <1>4, <2>1, <2>2
<1>12. CASE OpThrows \/ Restart \/ KeyloadThrows
  <2>1. subs' = subs /\ OpKept
    BY <1>12 DEF OpThrows, Restart, FailOp, KeyloadThrows, KeyloadRejects, NoOp
  <2>2. ReqKept
    BY <1>12 DEF OpThrows, Restart, KeyloadThrows, NoReq
  <2> QED  BY <1>4, <2>1, <2>2
<1>13. CASE RecordKeyload
  <2>1. req' = req /\ OpKept
    BY <1>3, <1>13 DEF RecordKeyload, KeyloadResolves, KeyloadRejects, NoOp
  <2>2. subs' = subs \/ \E m \in User : subs' = [subs EXCEPT ![m].authorized = TRUE]
    BY <1>13 DEF RecordKeyload
  <2>3. SubsKept
    BY <1>2, <2>2
  <2> QED  BY <1>4, <2>1, <2>3
<1>14. CASE OpStep
  <2>1. req' = req
    BY <1>14 DEF OpStep, Gather, AuthorizeFirst, AuthorizeRest, AuthorizeSave,
         ReadRequested, WriteUnrequest, ReadSubscribers, WriteSubscribe,
         RevokeKeyloads, RevokeState, RevokeSub, RevokeData, ReadUnsubscribe,
         WriteUnsubscribe, ReadForget, WriteForget, RevokeSave, ReadList
  <2>2. OpKept
    BY <1>14, OpGoesOn DEF NoOp
  <2>3. subs' = subs \/ \E u : RemoveSub(u)
    BY <1>14 DEF OpStep, Gather, AuthorizeFirst, AuthorizeRest, AuthorizeSave,
         ReadRequested, WriteUnrequest, ReadSubscribers, WriteSubscribe,
         RevokeKeyloads, RevokeState, RevokeSub, RevokeData, ReadUnsubscribe,
         WriteUnsubscribe, ReadForget, WriteForget, RevokeSave, ReadList
  <2>4. SubsKept
    BY <1>2, <2>3 DEF RemoveSub, NoSub
  <2> QED  BY <1>4, <2>1, <2>2, <2>4
<1> HIDE DEF SubsKept, ReqKept, OpKept
<1> QED
  BY <1>5, <1>6, <1>7, <1>8, <1>9, <1>10, <1>11, <1>12, <1>13, <1>14
  DEF Next, Call, RequestStep, KeyloadStep, DeleteStep, Event

\* A step away from the author's side that takes readers away, if any.
LEMMA CoveredKept ==
  ASSUME Covered, UNCHANGED <<op, queue>>, hist.failed => hist'.failed,
         Readers' \subseteq Readers, \A u \in Readers' : subs'[u].key = subs[u].key,
         \A m \in Branches' : keyload'[m] = keyload[m],
         \A i \in 1..Len(queue) : queue[i].branch = Author \/ Live(queue[i].branch)' =>
           /\ queue[i].branch = Author \/ Live(queue[i].branch)
           /\ keyload'[queue[i].branch] = keyload[queue[i].branch],
         op.kind = "authorize" /\ op.pc \in {"load", "fetch", "first"} =>
           (Live(op.who)' => Live(op.who) /\ subs'[op.who].key = subs[op.who].key)
  PROVE  Covered'
<1>1. SUFFICES ASSUME ~hist'.failed PROVE Covered'
  BY DEF Covered
<1>2. Branches' \subseteq Branches
  BY DEF Branches
<1>3. ASSUME op.kind = "authorize"
      PROVE  Joining'
  <2>1. Joining
    BY <1>1, <1>3 DEF Covered
  <2>2. /\ op'.pc \in {"load", "fetch"} => op'.who \notin Readers'
        /\ op'.pc \in {"fetch", "first"} =>
             /\ Readers' \subseteq op'.branches \cup {op'.who}
             /\ \A u \in Readers' : subs'[u].key \in op'.keys \cup {op'.key}
        /\ \A i \in 1..Len(queue') : op'.key \in queue'[i].keys
    BY <2>1 DEF Joining
  <2>3. op'.pc \in {"load", "fetch", "first"} /\ Live(op.who)' => subs'[op'.who].key = op'.key
    BY <1>3, <2>1 DEF Joining, Live
  <2>4. op'.pc = "first" /\ op'.who \in Readers' => op'.key \in keyload'[op'.who]
    BY <2>1 DEF Joining, Branches
  <2>5. op'.pc = "rest" => \A m \in Branches' :
          \/ op'.key \in keyload'[m]
          \/ \E i \in 1..Len(queue') : queue'[i].branch = m /\ ~queue'[i].sent
    BY <1>2, <2>1 DEF Joining
  <2> QED  BY <2>2, <2>3, <2>4, <2>5 DEF Joining
<1>4. op.kind = "revoke" => Leaving'
  BY <1>1 DEF Covered, Leaving
<1> QED  BY <1>1, <1>2, <1>3, <1>4 DEF Covered, Live

\* The users' steps and the DELETE of a subscription.
LEMMA AsideCovered ==
  ASSUME Inv, Covered, Aside \/ \E u \in User : RequestState(u)
  PROVE  Covered'
<1>1. UNCHANGED <<op, queue, subs, keyload>> /\ (hist.failed => hist'.failed)
  BY DEF Aside, RequestState, docs, userDocs
<1>2. UNCHANGED <<Readers, Branches>>
  BY <1>1 DEF Readers, Branches
<1> QED  BY <1>1, <1>2, CoveredKept DEF Live

\* A new subscription is no reader yet, and none that the author works for.
LEMMA RequestSubCovered ==
  ASSUME Inv, Covered, NEW u \in User, RequestSub(u)
  PROVE  Covered'
<1> USE DEF docs, userDocs
<1>1. SUFFICES ASSUME ~hist.failed PROVE Covered'
  BY DEF Covered, RequestSub
<1>2. /\ UNCHANGED <<op, queue, keyload, hist>> /\ req[u].pc = "addSub"
      /\ \A v \in User \ {u} : subs'[v] = subs[v]
      /\ subs'[u].authorized => subs'[u].kind \in {"psk", "open"}
  <2>1. UNCHANGED <<op, queue, keyload, hist>> /\ req[u].pc = "addSub"
    BY DEF RequestSub
  <2>2. /\ \A v \in User \ {u} : subs'[v] = subs[v]
        /\ subs'[u] = [kind |-> req[u].kind, key |-> req[u].key,
                       authorized |-> AuthorizedAtOnce(req[u].kind)]
    BY DEF RequestSub, Inv, Parts, SubsType
  <2>3. /\ subs'[u].kind = req[u].kind
        /\ subs'[u].authorized = AuthorizedAtOnce(req[u].kind)
    BY <2>2
  <2>4. subs'[u].authorized => subs'[u].kind \in {"psk", "open"}
    BY <2>3, Zenon DEF AuthorizedAtOnce
  <2> QED  BY <2>1, <2>2, <2>4
<1>3. ~Live(u) /\ ~subs[u].authorized
  BY <1>2 DEF Inv, Safe, Recorded
<1>4. Readers' = Readers /\ u \notin Readers
  BY <1>2, <1>3 DEF Readers
<1>5. ~Approved(u) /\ Targets
  BY <1>1, <1>2, <1>3 DEF Approved, Gone, Inv, Safe, Recorded, Orderly
<1>6. \A i \in 1..Len(queue) : queue[i].branch # u
  BY <1>5 DEF Targets
<1>7. op.kind = "authorize" /\ op.pc \in {"load", "fetch", "first"} => op.who # u
  BY <1>5 DEF Targets, Working
<1>8. op.kind = "authorize" => op.who \in User
  BY DEF Inv, Parts, OpInv
<1>9. \A i \in 1..Len(queue) : queue[i].branch # Author => queue[i].branch \in User
  BY CallsType DEF Inv, Member
<1>10. \A v \in User : v # u => (Live(v)' <=> Live(v))
  BY <1>2 DEF Live
<1>11. \A i \in 1..Len(queue) : queue[i].branch = Author \/ Live(queue[i].branch)' =>
          queue[i].branch = Author \/ Live(queue[i].branch)
  BY <1>2, <1>6, <1>9 DEF Live
<1>12. op.kind = "authorize" /\ op.pc \in {"load", "fetch", "first"} =>
         (Live(op.who)' => Live(op.who) /\ subs'[op.who].key = subs[op.who].key)
  BY <1>2, <1>7, <1>8 DEF Live
<1>13. \A v \in Readers : v \in User \ {u}
  BY <1>4 DEF Readers
<1> QED  BY <1>2, <1>4, <1>11, <1>12, <1>13, CoveredKept

\* A subscription that goes takes a reader and a branch away.
LEMMA RemoveCovered ==
  ASSUME Inv, Covered, NEW u \in User, RemoveSub(u), UNCHANGED <<op, queue>>,
         hist'.failed = hist.failed
  PROVE  Covered'
<1>1. /\ subs'[u] = NoSub /\ \A v \in User \ {u} : subs'[v] = subs[v]
      /\ \A m \in Member \ {u} : keyload'[m] = keyload[m]
  BY DEF RemoveSub, Inv, Parts, SubsType, KeyloadType
<1>2. NoSub.kind = "none" /\ ~NoSub.authorized
  BY DEF NoSub
<1>3. Readers' = Readers \ {u} /\ Readers \subseteq User
  BY <1>1, <1>2 DEF Readers
<1>4. \A m \in Branches' : m \in Member \ {u}
  BY <1>3, AuthorAssumption DEF Branches, Member
<1>5. \A i \in 1..Len(queue) : queue[i].branch \in Member
  BY CallsType DEF Inv
<1>6. op.kind = "authorize" => op.who \in User
  BY DEF Inv, Parts, OpInv
<1>7. \A i \in 1..Len(queue) : queue[i].branch = Author \/ Live(queue[i].branch)' =>
           /\ queue[i].branch = Author \/ Live(queue[i].branch)
           /\ keyload'[queue[i].branch] = keyload[queue[i].branch]
  <2>1. ASSUME NEW m \in Member, m = Author \/ Live(m)'
        PROVE  /\ m = Author \/ Live(m)
               /\ keyload'[m] = keyload[m]
    BY <1>1, <1>2, <2>1, AuthorAssumption DEF Member, Live
  <2>2. ASSUME NEW i \in 1..Len(queue), queue[i].branch = Author \/ Live(queue[i].branch)'
        PROVE  /\ queue[i].branch = Author \/ Live(queue[i].branch)
               /\ keyload'[queue[i].branch] = keyload[queue[i].branch]
    <3>1. PICK m \in Member : m = queue[i].branch
      BY <1>5
    <3>2. m = Author \/ Live(m)'
      BY <2>2, <3>1 DEF Live
    <3> QED  BY <2>1, <3>1, <3>2
  <2> QED  BY <2>2
<1>8. Live(op.who)' /\ op.who \in User =>
        Live(op.who) /\ subs'[op.who].key = subs[op.who].key
  BY <1>1, <1>2 DEF Live
<1> QED  BY <1>1, <1>3, <1>4, <1>6, <1>7, <1>8, CoveredKept

\* The author takes up an operation: nothing is queued, and every reader has
\* been told every branch.
LEMMA LoadCovered ==
  ASSUME Inv, Phased, Covered, NEW u \in User, Authorize(u) \/ Revoke(u)
  PROVE  Covered'
<1> USE DEF docs, userDocs
<1>1. /\ op.kind = "none" /\ op.pc = "none" /\ op.pending = {}
  <2>1. op.kind = "none"
    BY DEF Authorize, Revoke, Load
  <2> QED  BY <2>1 DEF Phased, NoOp
<1>2. /\ op'.who = u /\ op'.key = subs[u].key /\ op'.pc = "load"
      /\ \/ op'.kind = "authorize" /\ ~subs[u].authorized
         \/ op'.kind = "revoke"
      /\ UNCHANGED <<subs, keyload, queue>>
      /\ hist'.failed = hist.failed
  <2>1. /\ op'.who = u /\ op'.key = subs[u].key /\ op'.pc = "load"
        /\ \/ op'.kind = "authorize" /\ ~subs[u].authorized
           \/ op'.kind = "revoke"
    BY DEF Authorize, Revoke, Load, NoOp, Authorizable
  <2>2. UNCHANGED <<subs, keyload, queue>>
    BY DEF Authorize, Revoke, Load
  <2>3. hist'.failed = hist.failed
    BY DEF Authorize, Revoke, Inv, Parts, HistType
  <2> QED  BY <2>1, <2>2, <2>3
<1>3. SUFFICES ASSUME ~hist.failed PROVE Covered'
  BY <1>2 DEF Covered
<1>4. queue = << >>
  BY <1>1, <1>3, NothingQueued
<1>5. \A m \in Branches, v \in Readers : subs[v].key \in keyload[m]
  BY <1>1, <1>3 DEF Covered
<1>6. Readers' = Readers /\ Branches' = Branches
  BY <1>2 DEF Readers, Branches
<1>7. op'.kind = "authorize" => Joining'
  BY <1>2, <1>4, <1>6 DEF Joining, Readers, Live
<1>8. op'.kind = "revoke" => Leaving'
  BY <1>2 DEF Leaving
<1> QED  BY <1>2, <1>4, <1>5, <1>6, <1>7, <1>8 DEF Covered

\* A keyload is published: it names every reader's key but perhaps that of the
\* operation.
LEMMA SendCovered ==
  ASSUME Inv, Covered, SendKeyload
  PROVE  Covered'
<1> USE DEF docs, userDocs
<1>1. queue \in Seq(Task) /\ queue # << >> /\ ~Head(queue).sent
  BY CallsType DEF SendKeyload, Inv
<1>2. Head(queue) = queue[1] /\ queue[1] \in Task /\ 1 \in 1..Len(queue)
  BY <1>1, FirstCall
<1>3. PICK m \in Member : m = queue[1].branch
  BY <1>2 DEF Task
<1>4. /\ keyload'[m] = queue[1].keys
      /\ \A n \in Member \ {m} : keyload'[n] = keyload[n]
  BY <1>2, <1>3 DEF SendKeyload, Inv, Parts, KeyloadType
<1>5. /\ Len(queue') = Len(queue)
      /\ \A i \in 1..Len(queue) :
           /\ queue'[i].branch = queue[i].branch /\ queue'[i].keys = queue[i].keys
           /\ i # 1 => queue'[i].sent = queue[i].sent
  <2>1. FirstSent(queue, queue')
    BY <1>1, SentCall DEF SendKeyload
  <2> QED  BY <2>1 DEF FirstSent
<1>6. UNCHANGED <<op, subs, hist>>
  BY DEF SendKeyload
<1>7. SUFFICES ASSUME ~hist.failed PROVE Covered'
  BY <1>6 DEF Covered
<1>8. op.pc \in {"first", "rest"}
  <2>1. op.pending # {}
    BY <1>1, <1>7, NothingQueued
  <2> QED  BY <2>1 DEF Inv, Parts, OpInv
<1>9. Readers' = Readers /\ Branches' = Branches /\ Branches \subseteq Member
  BY <1>6 DEF Readers, Branches, Member
<1>10. /\ \A n \in Branches, v \in Readers : subs[v].key \in keyload[n] \cup {op.key}
       /\ \A i \in 1..Len(queue) : \A v \in Readers :
            subs[v].key \in queue[i].keys \cup {op.key}
       /\ op.kind = "authorize" => Joining
       /\ op.kind = "revoke" => Leaving
  BY <1>7 DEF Covered
<1>11. \A n \in Branches, v \in Readers : subs[v].key \in keyload'[n] \cup {op.key}
  BY <1>2, <1>4, <1>9, <1>10
<1>12. \A i \in 1..Len(queue) : queue'[i].sent =>
         queue'[i].keys \subseteq keyload'[queue'[i].branch]
  <2>1. \A i \in 1..Len(queue) : queue'[i].sent => i = 1
    BY <1>5 DEF Inv, Safe, Lined
  <2> QED  BY <1>2, <1>3, <1>4, <1>5, <2>1
<1>13. \A i \in 1..Len(queue') : \A v \in Readers :
         subs[v].key \in queue'[i].keys \cup {op.key}
  BY <1>5, <1>10
<1>14. ASSUME op.kind = "authorize"
       PROVE  Joining'
  <2>1. Joining /\ op.key \in queue[1].keys
    BY <1>2, <1>10, <1>14 DEF Joining
  <2>2. \A n \in Branches : op.key \in keyload[n] => op.key \in keyload'[n]
    BY <1>4, <1>9, <2>1
  <2>3. ASSUME op.pc = "rest", NEW n \in Branches
        PROVE  \/ op.key \in keyload'[n]
               \/ \E i \in 1..Len(queue') : queue'[i].branch = n /\ ~queue'[i].sent
    <3>1. CASE op.key \in keyload[n]
      BY <2>2, <3>1
    <3>2. ASSUME NEW i \in 1..Len(queue), queue[i].branch = n, ~queue[i].sent
          PROVE  \/ op.key \in keyload'[n]
                 \/ \E k \in 1..Len(queue') : queue'[k].branch = n /\ ~queue'[k].sent
      <4>1. CASE i = 1
        BY <1>3, <1>4, <2>1, <3>2, <4>1
      <4>2. CASE i # 1
        BY <1>5, <3>2, <4>2
      <4> QED  BY <4>1, <4>2
    <3> QED  BY <2>1, <2>3, <3>1, <3>2 DEF Joining
  <2>4. op.pc = "first" /\ op.who \in Readers => op.key \in keyload'[op.who]
    BY <2>1, <2>2 DEF Joining, Branches
  <2>5. \A i \in 1..Len(queue') : op.key \in queue'[i].keys
    BY <1>5, <2>1 DEF Joining
  <2> QED  BY <1>6, <1>9, <2>1, <2>3, <2>4, <2>5 DEF Joining, Live
<1>15. op.kind = "revoke" => Leaving'
  BY <1>6, <1>9, <1>10 DEF Leaving
<1> QED
  BY <1>5, <1>6, <1>8, <1>9, <1>11, <1>12, <1>13, <1>14, <1>15 DEF Covered

\* A keyload is recorded: if its subscription becomes a reader only now, it is
\* the one that an authorize is for, whose branch names every reader.
LEMMA RecordCovered ==
  ASSUME Inv, Phased, Covered, RecordKeyload
  PROVE  Covered'
<1> USE DEF docs, userDocs
<1>1. /\ op \in [kind : {"none", "authorize", "revoke"}, pc : OpPc,
                 who : User \cup {NoUser}, key : Key \cup {NoKey},
                 authorized : BOOLEAN, branches : SUBSET Member,
                 keys : SUBSET Key, pending : SUBSET Member, copy : SUBSET User]
      /\ op.kind = "none" <=> op.pc = "none"
      /\ op.pc \notin {"first", "rest"} => op.pending = {}
  BY DEF Inv, Parts, OpInv
<1>2. subs \in [User -> [kind : Kind, key : Key \cup {NoKey}, authorized : BOOLEAN]]
  BY DEF Inv, Parts, SubsType
<1>3. /\ queue # << >> /\ Head(queue) = queue[1] /\ 1 \in 1..Len(queue)
      /\ queue \in Seq(Task) /\ queue[1].sent
  BY CallsType, FirstCall DEF RecordKeyload, Inv
<1>4. SUFFICES ASSUME ~hist'.failed PROVE Covered'
  BY DEF Covered
<1>5. PICK m \in Member : m = queue[1].branch
  BY <1>3, CallsType DEF Inv
<1>6. hist' # Failed
  BY <1>4 DEF Inv, Parts, HistType, Failed
<1>7. ~hist.failed
  BY <1>4 DEF RecordKeyload, KeyloadResolves, KeyloadRejects, Failed, Inv, Parts, HistType
<1>8. queue[1].live
  BY <1>3, <1>7 DEF Inv, Safe, Whole
<1>9. /\ KeyloadResolves
      /\ \/ m = Author /\ subs' = subs
         \/ m \in User /\ Live(m) /\ subs' = [subs EXCEPT ![m].authorized = TRUE]
  BY <1>3, <1>5, <1>6, <1>8 DEF RecordKeyload, KeyloadRejects
<1>10. /\ op'.kind = op.kind /\ op'.pc = op.pc /\ op'.who = op.who /\ op'.key = op.key
       /\ op'.branches = op.branches /\ op'.keys = op.keys
  BY <1>1, <1>9 DEF KeyloadResolves
<1>11. keyload' = keyload /\ m \in op.pending
  BY <1>3, <1>5, <1>8 DEF RecordKeyload, Inv, Parts, OpInv, Agree
<1>12. op.pc \in {"first", "rest"}
  BY <1>1, <1>11
<1>13. m \in User => \/ subs[m].authorized
                     \/ op.kind = "authorize" /\ op.pc = "first" /\ m = op.who
  <2>1. Targets /\ Renewing
    BY <1>7 DEF Inv, Safe, Orderly
  <2>2. m \in User => Settled(m) \/ op.pc = "first"
    BY <1>3, <1>5, <2>1 DEF Targets
  <2>3. op.pc = "first" => m = op.who /\ op.kind = "authorize"
    BY <1>1, <1>11, <2>1 DEF Inv, Safe, Lined, Renewing
  <2> QED  BY <1>9, <2>2, <2>3, AuthorAssumption DEF Settled, Gone
<1>14. Behind(queue, queue')
  BY <1>3, <1>9, TailBehind DEF KeyloadResolves
<1>15. \A i \in 1..Len(queue') : ~queue'[i].sent
  BY <1>14, BehindInOrder
<1>16. \A v \in User :
         /\ subs'[v].kind = subs[v].kind /\ subs'[v].key = subs[v].key
         /\ v # m => subs'[v].authorized = subs[v].authorized
         /\ subs[v].authorized => subs'[v].authorized
  BY <1>2, <1>9
<1>17. \A v \in Readers' : \/ v \in Readers
                           \/ /\ op.kind = "authorize" /\ op.pc = "first"
                              /\ v = op.who /\ v = m /\ Live(v)
  <2>1. ASSUME NEW v \in User, v \in Readers', v \notin Readers
        PROVE  /\ op.kind = "authorize" /\ op.pc = "first"
               /\ v = op.who /\ v = m /\ Live(v)
    BY <1>13, <1>16, <2>1 DEF Readers, Live
  <2> QED  BY <2>1 DEF Readers
<1>18. Readers \subseteq Readers'
  BY <1>16 DEF Readers
<1>19. /\ \A n \in Branches, v \in Readers : subs[v].key \in keyload[n] \cup {op.key}
       /\ \A i \in 1..Len(queue) : \A v \in Readers :
            subs[v].key \in queue[i].keys \cup {op.key}
       /\ m = Author \/ Live(m) => queue[1].keys \subseteq keyload[m]
       /\ op.kind = "authorize" => Joining
       /\ op.kind = "revoke" => Leaving
  BY <1>3, <1>5, <1>7 DEF Covered
<1>20. \A v \in Readers' : v \in User /\ (v \notin Readers => subs'[v].key = op.key)
  BY <1>16, <1>17, <1>19 DEF Joining, Readers
<1>21. ASSUME NEW n \in Branches', NEW v \in Readers'
       PROVE  subs'[v].key \in keyload[n] \cup {op.key}
  <2>1. CASE v \notin Readers
    BY <1>20, <2>1
  <2>2. CASE v \in Readers /\ n \in Branches
    BY <1>16, <1>19, <1>20, <2>2
  <2>3. CASE v \in Readers /\ n \notin Branches
    <3>1. n = m /\ Live(m)
      BY <1>17, <2>3 DEF Branches
    <3> QED  BY <1>3, <1>16, <1>19, <1>20, <2>3, <3>1
  <2> QED  BY <2>1, <2>2, <2>3
<1>22. ASSUME NEW i \in 1..Len(queue'), NEW v \in Readers'
       PROVE  subs'[v].key \in queue'[i].keys \cup {op.key}
  BY <1>14, <1>16, <1>19, <1>20 DEF Behind
<1>23. ASSUME op.kind = "authorize"
       PROVE  Joining'
  <2>1. Joining
    BY <1>19, <1>23
  <2>2. op.pc = "first" => Readers' \subseteq op.branches \cup {op.who}
    BY <1>17, <2>1 DEF Joining
  <2>3. ASSUME op.pc = "first", NEW v \in Readers'
        PROVE  subs'[v].key \in op.keys \cup {op.key}
    BY <1>16, <1>20, <2>1, <2>3 DEF Joining
  <2>4. op.pc = "first" /\ Live(op.who)' => subs'[op.who].key = op.key
    <3>1. op.who \in User
      BY <1>23 DEF Inv, Parts, OpInv
    <3> QED  BY <1>10, <1>16, <2>1, <3>1 DEF Joining, Live
  <2>5. op.pc = "first" /\ op.who \in Readers' => op.key \in keyload[op.who]
    <3>1. op.pc = "first" /\ op.who \in Readers => op.key \in keyload[op.who]
      BY <2>1 DEF Joining
    <3>2. op.who = m /\ Live(m) => op.key \in keyload[op.who]
      BY <1>3, <1>19, <2>1 DEF Joining
    <3> QED  BY <1>17, <3>1, <3>2
  <2>6. ASSUME op.pc = "rest", NEW n \in Branches'
        PROVE  \/ op.key \in keyload[n]
               \/ \E i \in 1..Len(queue') : queue'[i].branch = n /\ ~queue'[i].sent
    <3>1. n \in Branches
      BY <1>17, <2>6 DEF Branches
    <3>2. ASSUME NEW i \in 1..Len(queue), queue[i].branch = n, ~queue[i].sent
          PROVE  \E k \in 1..Len(queue') : queue'[k].branch = n /\ ~queue'[k].sent
      <4>1. i # 1
        BY <1>3, <3>2
      <4>2. PICK k \in 1..Len(queue') : queue'[k] = queue[i]
        BY <1>14, <4>1 DEF Behind
      <4> QED  BY <3>2, <4>2
    <3> QED  BY <2>1, <2>6, <3>1, <3>2 DEF Joining
  <2>7. \A i \in 1..Len(queue') : op.key \in queue'[i].keys
    BY <1>14, <2>1 DEF Joining, Behind
  <2> QED  BY <1>10, <1>11, <1>12, <2>2, <2>3, <2>4, <2>5, <2>6, <2>7 DEF Joining
<1>24. ASSUME op.kind = "revoke"
       PROVE  Leaving'
  <2>1. op.pc = "rest"
    BY <1>12, <1>24 DEF Phased, RevokePc
  <2> QED  BY <1>10, <2>1 DEF Leaving
<1> QED
  BY <1>10, <1>11, <1>12, <1>15, <1>21, <1>22, <1>23, <1>24 DEF Covered

\* The author's operation goes on, ends, or fails: until it fails, the queue is
\* empty each time it goes on, and its calls are for all the branches.
LEMMA OpStepCovered ==
  ASSUME SeedsDiffer, Inv, Phased, Own, Covered, OpStep
  PROVE  Covered'
<1> USE DEF docs, userDocs
<1>1. /\ op \in [kind : {"none", "authorize", "revoke"}, pc : OpPc,
                 who : User \cup {NoUser}, key : Key \cup {NoKey},
                 authorized : BOOLEAN, branches : SUBSET Member,
                 keys : SUBSET Key, pending : SUBSET Member, copy : SUBSET User]
      /\ op.kind = "none" <=> op.pc = "none"
      /\ op.kind # "none" => op.who \in User /\ op.key \in Key
      /\ op.pc \notin {"first", "rest"} => op.pending = {}
  BY DEF Inv, Parts, OpInv
<1>2. SUFFICES ASSUME ~hist'.failed PROVE Covered'
  BY DEF Covered
<1>3. hist' # Failed
  BY <1>2 DEF Inv, Parts, HistType, Failed
<1>4. ~hist.failed
  BY <1>2, NothingForgotten DEF Remembered, Inv, Next
<1>5. op.pending = {} /\ queue = << >>
  <2>1. op.pending = {}
    BY <1>1 DEF OpStep, Gather, AuthorizeFirst, AuthorizeRest, AuthorizeSave,
         ReadRequested, WriteUnrequest, ReadSubscribers, WriteSubscribe,
         RevokeKeyloads, RevokeState, RevokeSub, RevokeData, ReadUnsubscribe,
         WriteUnsubscribe, ReadForget, WriteForget, RevokeSave, ReadList
  <2> QED  BY <1>4, <2>1, NothingQueued
<1>6. /\ \A m \in Branches, u \in Readers : subs[u].key \in keyload[m] \cup {op.key}
      /\ op.kind # "revoke" /\ op.pc \notin {"first", "rest"} =>
           \A m \in Branches, u \in Readers : subs[u].key \in keyload[m]
      /\ op.kind = "authorize" => Joining /\ op.pc \in AuthorizePc
      /\ op.kind = "revoke" => Leaving /\ op.pc \in RevokePc
  BY <1>4 DEF Covered, Phased
<1>7. op.kind \in {"authorize", "revoke"}
  BY <1>1 DEF OpStep, Gather, AuthorizeFirst, AuthorizeRest, AuthorizeSave,
         ReadRequested, WriteUnrequest, ReadSubscribers, WriteSubscribe,
         RevokeKeyloads, RevokeState, RevokeSub, RevokeData, ReadUnsubscribe,
         WriteUnsubscribe, ReadForget, WriteForget, RevokeSave, ReadList
<1>8. CASE Gather
  <2>1. /\ op.pc = "load" /\ authorPassword = OwnPassword /\ queue' = queue
        /\ op' = [op EXCEPT !.pc = "fetch", !.branches = Readers \cup {Author},
                            !.keys = IF op.kind = "revoke" THEN KeysWithout(op.key)
                                     ELSE ReaderKeys]
    BY <1>3, <1>8 DEF Gather, FailOp
  <2>2. /\ op'.kind = op.kind /\ op'.who = op.who /\ op'.key = op.key
        /\ op'.pc = "fetch" /\ op'.branches = Readers \cup {Author}
        /\ \A u \in Readers : subs[u].key \in op'.keys \cup {op.key}
    BY <1>1, <2>1 DEF KeysWithout, ReaderKeys
  <2>3. UNCHANGED <<subs, keyload>>
    BY <1>8 DEF Gather
  <2>4. Readers' = Readers /\ Branches' = Branches
    BY <2>3 DEF Readers, Branches
  <2>5. op.kind = "authorize" => Joining'
    BY <1>5, <1>6, <2>1, <2>2, <2>3, <2>4 DEF Joining, Live
  <2>6. op.kind = "revoke" => Leaving'
    BY <2>2, <2>3, <2>4 DEF Leaving
  <2> QED  BY <1>5, <1>6, <2>1, <2>2, <2>3, <2>4, <2>5, <2>6 DEF Covered
<1>9. CASE AuthorizeFirst
  <2>1. /\ op.kind = "authorize" /\ op.pc = "fetch"
        /\ op'.kind = op.kind /\ op'.who = op.who /\ op'.key = op.key
        /\ op'.pc = "first" /\ op'.branches = op.branches /\ op'.keys = op.keys
    BY <1>1, <1>9 DEF AuthorizeFirst
  <2> DEFINE c == Keyload(op.who, AuthorizeKeys)
  <2>2. queue' = << >> \o <<c>>
    BY <1>5, <1>9 DEF AuthorizeFirst, Enqueue
  <2>3. ~c.sent /\ c.keys = op.keys \cup {op.key}
    BY DEF Keyload, AuthorizeKeys
  <2> HIDE DEF c
  <2>4. Len(queue') = 1 /\ queue'[1] = c
    BY <2>2
  <2>5. \A i \in 1..Len(queue') : queue'[i] = c
    BY <2>4
  <2>6. UNCHANGED <<subs, keyload>>
    BY <1>9 DEF AuthorizeFirst
  <2>7. Readers' = Readers /\ Branches' = Branches
    BY <2>6 DEF Readers, Branches
  <2>8. Joining
    BY <1>6, <2>1
  <2>9. Joining'
    BY <2>1, <2>3, <2>5, <2>6, <2>7, <2>8 DEF Joining, Live
  <2>10. \A i \in 1..Len(queue') :
           ~queue'[i].sent /\ \A u \in Readers : subs[u].key \in queue'[i].keys
    BY <2>1, <2>3, <2>5, <2>8 DEF Joining
  <2> QED  BY <1>6, <2>1, <2>6, <2>7, <2>9, <2>10 DEF Covered
<1>10. CASE AuthorizeRest \/ RevokeKeyloads
  <2>1. /\ op.pc \in {"fetch", "first"} /\ op'.kind = op.kind /\ op'.who = op.who
        /\ op'.key = op.key /\ op'.pc = "rest"
        /\ op.kind = "authorize" => op.pc = "first"
        /\ op.kind = "revoke" => op.pc = "fetch"
    <3>1. CASE AuthorizeRest
      BY <1>1, <1>6, <3>1 DEF AuthorizeRest, RevokePc
    <3>2. CASE RevokeKeyloads
      BY <1>1, <3>2 DEF RevokeKeyloads
    <3> QED  BY <1>10, <3>1, <3>2
  <2>2. PICK keys \in SUBSET Key, order \in SetToSeqs(op.branches) :
          /\ Enqueue(Keyloads(order, keys)) /\ op.keys \subseteq keys
          /\ op.kind = "authorize" => op.key \in keys
    <3>1. CASE AuthorizeRest
      <4>1. AuthorizeKeys \in SUBSET Key /\ op.key \in AuthorizeKeys
            /\ op.keys \subseteq AuthorizeKeys
        BY <1>1, <1>7 DEF AuthorizeKeys
      <4> QED  BY <3>1, <4>1 DEF AuthorizeRest
    <3>2. CASE RevokeKeyloads
      <4>1. op.keys \in SUBSET Key /\ op.kind = "revoke"
        BY <1>1, <3>2 DEF RevokeKeyloads
      <4> QED  BY <3>2, <4>1 DEF RevokeKeyloads
    <3> QED  BY <1>10, <3>1, <3>2
  <2> DEFINE t == Keyloads(order, keys)
  <2>3. CallsFor(t, op.branches, keys)
    BY CallsOf DEF Inv
  <2>4. queue' = << >> \o t
    BY <1>5, <2>2 DEF Enqueue
  <2> HIDE DEF t
  <2>5. queue' = t
    BY <2>3, <2>4 DEF CallsFor
  <2>6. UNCHANGED <<subs, keyload>>
    BY <1>10 DEF AuthorizeRest, RevokeKeyloads
  <2>7. Readers' = Readers /\ Branches' = Branches
    BY <2>6 DEF Readers, Branches
  <2>8. \A i \in 1..Len(queue') : ~queue'[i].sent /\ queue'[i].keys = keys
    BY <2>3, <2>5 DEF CallsFor
  <2>9. \A u \in Readers : subs[u].key \in keys \cup {op.key}
    BY <1>6, <1>7, <2>1, <2>2 DEF Joining, Leaving
  <2>10. ASSUME op.kind = "authorize"
         PROVE  Joining'
    <3>1. Joining /\ op.pc = "first"
      BY <1>6, <2>1, <2>10
    <3>2. Branches \subseteq op.branches \cup ({op.who} \cap Readers)
      BY <3>1 DEF Joining, Branches, Inv, Safe, Lined
    <3>3. \A m \in op.branches :
            \E i \in 1..Len(queue') : queue'[i].branch = m /\ ~queue'[i].sent
      BY <2>3, <2>5 DEF CallsFor
    <3>4. op.who \in Readers => op.key \in keyload[op.who]
      BY <3>1 DEF Joining
    <3>5. \A m \in Branches :
            \/ op.key \in keyload[m]
            \/ \E i \in 1..Len(queue') : queue'[i].branch = m /\ ~queue'[i].sent
      BY <3>2, <3>3, <3>4
    <3> QED  BY <2>1, <2>2, <2>6, <2>7, <2>8, <2>10, <3>5 DEF Joining
  <2>11. op.kind = "revoke" => Leaving'
    BY <2>1 DEF Leaving
  <2> QED  BY <1>6, <2>1, <2>6, <2>7, <2>8, <2>9, <2>10, <2>11 DEF Covered
<1>11. CASE AuthorizeSave \/ ReadRequested \/ WriteUnrequest \/ ReadSubscribers
            \/ RevokeState \/ RevokeData \/ ReadUnsubscribe \/ WriteUnsubscribe
            \/ ReadForget \/ WriteForget
  <2>1. UNCHANGED <<subs, keyload, queue>>
    BY <1>3, <1>11 DEF AuthorizeSave, ReadRequested, WriteUnrequest, ReadSubscribers,
         RevokeState, RevokeData, ReadUnsubscribe, WriteUnsubscribe, ReadForget,
         WriteForget, ReadList, FailOp
  <2>2. /\ op'.kind = op.kind /\ op'.who = op.who /\ op'.key = op.key
        /\ op'.pc \in {"unrequest", "writeRequested", "subscribe", "writeSubscribers",
                       "delSub", "unsubscribe", "writeUnsubscribe", "forget",
                       "writeForget", "save"}
        /\ op.pc \notin {"none", "load", "fetch", "first"}
        /\ op.pc = "rest" /\ op.kind = "revoke" => op'.pc = "delSub"
        /\ op.pc = "delSub" => FALSE
    <3>1. CASE AuthorizeSave
      BY <1>1, <3>1 DEF AuthorizeSave
    <3>2. CASE ReadRequested \/ ReadSubscribers \/ ReadUnsubscribe \/ ReadForget
      <4>1. \E to, ids : /\ op' = [op EXCEPT !.pc = to, !.copy = ids]
                         /\ \/ op.pc = "unrequest" /\ to = "writeRequested"
                            \/ op.pc = "subscribe" /\ to = "writeSubscribers"
                            \/ op.pc = "unsubscribe" /\ to = "writeUnsubscribe"
                            \/ op.pc = "forget" /\ to = "writeForget"
        BY <1>3, <3>2 DEF ReadRequested, ReadSubscribers, ReadUnsubscribe, ReadForget,
                          ReadList, FailOp
      <4> QED  BY <1>1, <4>1
    <3>3. CASE WriteUnrequest \/ WriteUnsubscribe \/ WriteForget
      BY <1>1, <3>3 DEF WriteUnrequest, WriteUnsubscribe, WriteForget
    <3>4. CASE RevokeState
      BY <1>1, <3>4 DEF RevokeState
    <3>5. CASE RevokeData
      BY <1>1, <3>5 DEF RevokeData, ListToLeave
    <3> QED  BY <1>11, <3>1, <3>2, <3>3, <3>4, <3>5
  <2>3. Readers' = Readers /\ Branches' = Branches
    BY <2>1 DEF Readers, Branches
  <2>4. ASSUME op.kind = "authorize", NEW m \in Branches, NEW u \in Readers
        PROVE  subs[u].key \in keyload[m]
    <3>1. op.pc = "rest" => op.key \in keyload[m]
      BY <1>5, <1>6, <2>4 DEF Joining
    <3> QED  BY <1>6, <2>2, <2>4, <3>1
  <2>5. op.kind = "authorize" => Joining'
    BY <1>5, <2>1, <2>2 DEF Joining
  <2>6. op.kind = "revoke" => Leaving'
    BY <1>6, <2>1, <2>2, <2>3 DEF Leaving, RevokePc
  <2> QED  BY <1>5, <1>6, <1>7, <2>1, <2>2, <2>3, <2>4, <2>5, <2>6 DEF Covered
<1>12. CASE RevokeSub
  <2>1. /\ op.pc = "delSub" /\ op.kind = "revoke" /\ RemoveSub(op.who) /\ queue' = queue
        /\ op'.kind = op.kind /\ op'.who = op.who /\ op'.key = op.key
    BY <1>1, <1>6, <1>7, <1>12 DEF RevokeSub, AuthorizePc
  <2>2. PICK w \in User : w = op.who
    BY <1>1, <2>1
  <2>3. /\ subs'[w] = NoSub /\ \A v \in User \ {w} : subs'[v] = subs[v]
        /\ \A m \in Member \ {w} : keyload'[m] = keyload[m]
    BY <2>1, <2>2 DEF RemoveSub, Inv, Parts, SubsType, KeyloadType
  <2>4. Readers' = Readers \ {w} /\ Readers \subseteq User
    BY <2>3 DEF Readers, NoSub
  <2>5. \A m \in Branches' : m \in Branches /\ m \in Member \ {w}
    BY <2>4, AuthorAssumption DEF Branches, Member
  <2>6. Leaving'
    <3>1. op'.pc = "delData"
      BY <1>1, <1>12 DEF RevokeSub
    <3> QED  BY <2>1, <2>2, <2>4, <3>1 DEF Leaving
  <2>7. \A m \in Branches', u \in Readers' : subs'[u].key \in keyload'[m] \cup {op.key}
    BY <1>6, <2>3, <2>4, <2>5
  <2> QED  BY <1>5, <2>1, <2>6, <2>7 DEF Covered
<1>13. CASE WriteSubscribe \/ RevokeSave
  <2>1. op' = NoOp /\ UNCHANGED <<subs, keyload, queue>>
    BY <1>13 DEF WriteSubscribe, RevokeSave
  <2>2. Readers' = Readers /\ Branches' = Branches
    BY <2>1 DEF Readers, Branches
  <2>3. ASSUME NEW m \in Branches, NEW u \in Readers
        PROVE  subs[u].key \in keyload[m]
    <3>1. CASE WriteSubscribe
      BY <1>6, <1>7, <3>1 DEF WriteSubscribe, RevokePc
    <3>2. CASE RevokeSave
      <4>1. op.kind = "revoke" /\ op.pc = "save"
        BY <1>6, <1>7, <3>2 DEF RevokeSave, AuthorizePc
      <4>2. op.who \notin Readers /\ op.who \in User /\ u \in User
        BY <1>1, <1>6, <4>1 DEF Leaving, RevokePc, Readers
      <4>3. subs[u].key \in KeysOf[u] \cup {NoKey} /\ op.key \in KeysOf[op.who]
        BY <4>1, <4>2 DEF Own
      <4>4. KeysOf[u] \cap KeysOf[op.who] = {}
        BY <2>3, <4>2 DEF SeedsDiffer
      <4>5. subs[u].key # op.key
        BY <1>1, <4>1, <4>3, <4>4, NoKeyAssumption
      <4> QED  BY <1>6, <2>3, <4>5
    <3> QED  BY <1>13, <3>1, <3>2
  <2> QED  BY <1>5, <2>1, <2>2, <2>3 DEF Covered, NoOp
<1> QED  BY <1>8, <1>9, <1>10, <1>11, <1>12, <1>13 DEF OpStep

\* Every step keeps the readers covered.
LEMMA NextCovered ==
  ASSUME SeedsDiffer, Inv, Phased, Own, Covered, [Next]_vars
  PROVE  Covered'
<1> USE DEF docs, userDocs
<1>1. CASE UNCHANGED vars
  BY <1>1 DEF vars, Covered, Joining, Leaving, Readers, Branches, Live
<1>2. CASE \E u \in User : RequestCheck(u) \/ LogsSave(u)
  BY <1>2, UserAside, AsideCovered
<1>3. CASE \E u \in User : Authorize(u) \/ Revoke(u)
  BY <1>3, LoadCovered
<1>4. CASE \E u \in User : RequestStep(u)
  BY <1>4, UserAside, AsideCovered, RequestSubCovered DEF RequestStep
<1>5. CASE KeyloadStep
  BY <1>5, SendCovered, RecordCovered DEF KeyloadStep
<1>6. CASE DeleteRead \/ DeleteWrite
  BY <1>6, DeleteAside, AsideCovered
<1>7. CASE DeleteRemove
  <2>1. del.pc = "remove" /\ del.who \in User
    BY <1>7 DEF DeleteRemove, Inv, Parts, DelType
  <2>2. RemoveSub(del.who) /\ UNCHANGED <<op, queue>> /\ hist'.failed = hist.failed
    BY <1>7 DEF DeleteRemove, Inv, Parts, HistType
  <2> QED  BY <2>1, <2>2, RemoveCovered
<1>8. CASE Event
  <2>1. CASE DeleteChannel \/ DeleteThrows
    BY <2>1, DeleteAside, AsideCovered
  <2>2. CASE \E u \in User : DeleteCheck(u) \/ RequestThrows(u)
    BY <2>2, UserAside, DeleteAside, AsideCovered
  <2>3. CASE OpThrows \/ Restart
    <3>1. hist'.failed
      BY <2>3 DEF OpThrows, Restart, FailOp, Failed, Inv, Parts, HistType
    <3> QED  BY <3>1 DEF Covered
  <2>4. CASE KeyloadThrows
    <3>1. SUFFICES ASSUME ~hist.failed PROVE hist'.failed
      BY <2>4, NothingForgotten DEF Covered, Remembered, Inv, Next, Event
    <3>2. Head(queue) = queue[1] /\ 1 \in 1..Len(queue)
      BY <2>4, CallsType, FirstCall DEF KeyloadThrows, Inv
    <3>3. queue[1].live
      BY <3>1, <3>2 DEF Inv, Safe, Whole
    <3> QED
      BY <2>4, <3>2, <3>3 DEF KeyloadThrows, KeyloadRejects, Failed, Inv, Parts, HistType
  <2> QED  BY <1>8, <2>1, <2>2, <2>3, <2>4 DEF Event
<1>9. CASE OpStep
  BY <1>9, OpStepCovered
<1> QED
  BY <1>1, <1>2, <1>3, <1>4, <1>5, <1>6, <1>7, <1>8, <1>9 DEF Next, Call, DeleteStep

\* Whatever the author authorizes and revokes, and whoever deletes what in the
\* meantime, each reader can read each branch when the author is done, unless an
\* operation failed half-way.  No two users may have the same seed: a revoke
\* leaves every holder of the key out of the keyloads.
THEOREM SpecReadersCovered ==
  ASSUME SeedsDiffer
  PROVE  Spec => []ReadersCovered
<1>1. Init => Inv /\ Phased /\ Own /\ Covered
  <2> SUFFICES ASSUME Init PROVE Inv /\ Phased /\ Own /\ Covered
    OBVIOUS
  <2>1. Inv
    BY InitInv, InitSafe DEF Inv
  <2>2. Phased
    BY DEF Init, Phased, NoOp
  <2>3. Own
    BY DEF Init, Own, NoOp, NoReq, NoSub
  <2>4. Readers = {} /\ Len(queue) = 0 /\ op.kind = "none"
    BY DEF Init, Readers, NoSub, NoOp
  <2> QED  BY <2>1, <2>2, <2>3, <2>4 DEF Covered
<1>2. Inv /\ Phased /\ Own /\ Covered /\ [Next]_vars => (Inv /\ Phased /\ Own /\ Covered)'
  BY NextSafe, NextPhased, NextOwn, NextCovered DEF Inv
<1>3. Phased /\ Covered => ReadersCovered
  BY DEF Phased, Covered, ReadersCovered, AuthorIdle, NoOp, Branches
<1> QED  BY <1>1, <1>2, <1>3, PTL DEF Spec

=============================================================================
