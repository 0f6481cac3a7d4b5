----------------------------- MODULE ChannelLogs -----------------------------
(***************************************************************************)
(* The logs of a private channel of the gateway: ChannelService (getLogs,  *)
(* addLog, reimport) for the author and the subscribers, and what the      *)
(* author's authorize and revoke do to logs (SubscriptionService).  All    *)
(* logs of the channel are on the Tangle; each participant has a Streams   *)
(* state, which knows the messages it is past, and a copy of the logs it   *)
(* may read in collection channel-data.                                    *)
(*                                                                         *)
(* The calls of one participant exclude each other (request lock, in-      *)
(* process lock); the requests of a revoked user that asks anew, and the   *)
(* locks, are in Subscriptions, ConcurrencyLock and KeyedMutex.            *)
(*                                                                         *)
(* before, faulted and overlapped are history variables.                   *)
(***************************************************************************)
EXTENDS Naturals, Sequences, FiniteSets

CONSTANTS User,         \* those who may subscribe
          Author,
          Rights,       \* accessRights a user asks for
          MaxLogs,      \* bound: messages on the channel
          Event,        \* what else may happen in this instance
          NoState       \* no subscription-state document

ASSUME AuthorAssumption == Author \notin User
ASSUME RightsAssumption == Rights \in [User -> {"Read", "Write", "ReadAndWrite"}]
ASSUME MaxLogsAssumption == MaxLogs \in Nat
ASSUME NoStateAssumption == \A S \in SUBSET (1 .. MaxLogs) : S # NoState

Participant == User \cup {Author}
Link == 1 .. MaxLogs

VARIABLES
  tangle,      \* the messages: who sent it, who can decrypt it
  states,      \* subscription-states: the messages a state is past
  cache,       \* channel-data: the messages stored for a participant
  status,      \* a user's subscription
  keyload,     \* the readers named by the keyload a subscription links
  task,        \* a participant's getLogs, addLog or reimport
  op,          \* the author's authorize or revoke
  faulted,     \* participants one of whose calls stopped half-way
  overlapped   \* messages sent while an op was under way

tasks == <<task, op>>
subscriptions == <<status, keyload>>
history == <<faulted, overlapped>>
vars == <<tangle, states, cache, subscriptions, tasks, history>>

Idle == [at |-> "idle", call |-> "none", past |-> {}, batch |-> {}, readers |-> {}, before |-> {}]
NoOp == [at |-> "idle", call |-> "none", user |-> Author, past |-> {}, batch |-> {}, keys |-> {}, pending |-> {}]

MayRead(p) == p \in User => Rights[p] # "Write"
MayWrite(p) == p \in User => Rights[p] # "Read"

\* A subscription that links a keyload is one that was authorized.
Authorized(p) == p \in User => status[p] = "authorized"

Sent == 1 .. Len(tangle)
Readable(p) == {m \in Sent : p \in tangle[m].readers}
Own(p) == {m \in Sent : tangle[m].from = p}

\* Subscriptions whose branches authorize and revoke renew.
Readers == {p \in Participant : Authorized(p) /\ MayRead(p)}

Init ==
  /\ tangle = <<>>
  /\ states = [p \in Participant |-> IF p = Author THEN {} ELSE NoState]
  /\ cache = [p \in Participant |-> {}]
  /\ status = [u \in User |-> "none"]
  /\ keyload = [p \in Participant |-> IF p = Author THEN {Author} ELSE {}]
  /\ task = [p \in Participant |-> Idle]
  /\ op = NoOp
  /\ faulted = {} /\ overlapped = {}

-----------------------------------------------------------------------------
(* Steps of getLogs, addLog and reimport.                                  *)

At(p, s) == task[p].at = s

\* getMessages: all that was sent is passed, what can be decrypted is returned.
Unread(p, past) == Readable(p) \ past

Ended(p) == task' = [task EXCEPT ![p] = Idle]

\* The call threw.
Broken(p) == Ended(p) /\ faulted' = faulted \cup {p}

Proceed(p, s) == task' = [task EXCEPT ![p].at = s]

\* After fetchLogs getLogs answers, addLog publishes, reimport is done.
AfterFetch(p) ==
  IF task[p].call = "add"
  THEN task' = [task EXCEPT ![p].at = "publish", ![p].batch = {}] /\ UNCHANGED faulted
  ELSE /\ Ended(p)
       /\ faulted' = IF task[p].call = "reimport" THEN faulted \ {p} ELSE faulted

\* insertDocuments, in the order of the messages: the first that is there
\* already makes it throw, what is before it stays.  The order among
\* branches is the one Streams returns them in.
Inserted(batch, old, S) ==
  /\ S \subseteq batch \ old
  /\ IF batch \cap old = {} THEN S = batch
     ELSE \A m \in S, d \in batch \cap old : tangle[m].from = tangle[d].from => m < d

-----------------------------------------------------------------------------
(* Variants of the code that a property must tell apart from it.           *)

\* addLog syncs the state whatever the rights, and fetches nothing.
SyncOnly(p) ==
  /\ At(p, "fetch")
  /\ task' = [task EXCEPT ![p].past = @ \cup Sent,
                          ![p].batch = IF task[p].call = "add" THEN {} ELSE Unread(p, task[p].past),
                          ![p].at = IF task[p].call = "add" THEN "publish" ELSE "save"]
  /\ UNCHANGED <<tangle, states, cache, subscriptions, op, history>>

\* reimport keeps the state in memory.
ResetNothing(p) ==
  /\ At(p, "reset")
  /\ cache' = [cache EXCEPT ![p] = {}]
  /\ Proceed(p, "fetch")
  /\ UNCHANGED <<tangle, states, subscriptions, op, history>>

\* the new log's state is not exported: the one that was loaded is saved.
SaveLoaded(p) ==
  /\ At(p, "saveOwn")
  /\ Ended(p)
  /\ UNCHANGED <<tangle, states, cache, subscriptions, op, history>>

\* the revoked subscription's key is not filtered out.
KeysOfAll(v) == Readers

\* setSubscriptionAuthorized does not tell the author's document from a user's.
AuthorAsUser(b) ==
  /\ op.at = "keyloads" /\ b \in op.pending
  /\ keyload' = [keyload EXCEPT ![b] = op.keys]
  /\ status' = [u \in User \cup {b} |-> IF u = b THEN "authorized" ELSE status[u]]
  /\ op' = [op EXCEPT !.pending = @ \ {b}, !.past = @ \cup Sent]
  /\ UNCHANGED <<tangle, states, cache, task, history>>

\* authorize and revoke run beside the author's own calls.
NoChannelLock == TRUE

-----------------------------------------------------------------------------
\* The author's own calls exclude authorize and revoke by the channel lock.
ChannelLockFree == op.at = "idle"

\* Whom a revoke has removed.
Revoked == {u \in User : status[u] = "revoked"}

\* The checks, the state that is loaded, the keyload link that is read.
Begin(p, call) ==
  /\ At(p, "idle")
  /\ p = Author => ChannelLockFree
  /\ Authorized(p) /\ states[p] # NoState
  /\ task' = [task EXCEPT ![p] =
       [Idle EXCEPT !.call = call, !.past = states[p], !.readers = keyload[p],
                    !.before = Revoked, !.at = IF call = "reimport" THEN "reset" ELSE "fetch"]]
  /\ UNCHANGED <<tangle, states, cache, subscriptions, op, history>>

GetLogs(p) == MayRead(p) /\ Begin(p, "get")

AddLog(p) == MayWrite(p) /\ Len(tangle) < MaxLogs /\ Begin(p, "add")

\* resetState does not support authors: their call fails before it changes
\* anything.
Reimport(p) == "reimport" \in Event /\ p # Author /\ MayRead(p) /\ Begin(p, "reimport")

\* The state begins anew in memory, the stored logs are removed.
Reset(p) ==
  /\ At(p, "reset")
  /\ cache' = [cache EXCEPT ![p] = {}]
  /\ task' = [task EXCEPT ![p].at = "fetch", ![p].past = {}]
  /\ UNCHANGED <<tangle, states, subscriptions, op, history>>

\* fetchLogs; who may only write syncs the state and fetches nothing.
Fetch(p) ==
  /\ At(p, "fetch")
  /\ task' = [task EXCEPT ![p].past = @ \cup Sent,
                          ![p].batch = IF MayRead(p) THEN Unread(p, task[p].past) ELSE {},
                          ![p].at = IF MayRead(p) THEN "save" ELSE "publish"]
  /\ UNCHANGED <<tangle, states, cache, subscriptions, op, history>>

\* The state is saved, before the logs; without a document it throws.
Save(p) ==
  /\ At(p, "save")
  /\ \/ /\ states[p] # NoState
        /\ states' = [states EXCEPT ![p] = task[p].past]
        /\ IF task[p].batch = {} THEN AfterFetch(p)
           ELSE Proceed(p, "store") /\ UNCHANGED faulted
     \/ /\ states[p] = NoState
        /\ Broken(p)
        /\ UNCHANGED states
  /\ UNCHANGED <<tangle, cache, subscriptions, op, overlapped>>

Store(p) ==
  /\ At(p, "store")
  /\ \E S \in SUBSET task[p].batch :
       /\ Inserted(task[p].batch, cache[p], S)
       /\ cache' = [cache EXCEPT ![p] = @ \cup S]
  /\ \/ task[p].batch \cap cache[p] = {} /\ AfterFetch(p)
     \/ task[p].batch \cap cache[p] # {} /\ Broken(p)
  /\ UNCHANGED <<tangle, states, subscriptions, op, overlapped>>

\* publishMessage, linked to the keyload that was read at the beginning.
Publish(p) ==
  /\ At(p, "publish") /\ Len(tangle) < MaxLogs
  /\ tangle' = Append(tangle, [from |-> p, readers |-> task[p].readers, before |-> task[p].before])
  /\ task' = [task EXCEPT ![p].at = "storeOwn", ![p].past = @ \cup {Len(tangle) + 1},
                          ![p].batch = {Len(tangle) + 1}]
  /\ overlapped' = IF op.at = "idle" THEN overlapped ELSE overlapped \cup {Len(tangle) + 1}
  /\ UNCHANGED <<states, cache, subscriptions, op, faulted>>

\* The new log is stored, then the state: the other way round than fetchLogs.
StoreOwn(p) ==
  /\ At(p, "storeOwn")
  /\ cache' = [cache EXCEPT ![p] = @ \cup task[p].batch]
  /\ Proceed(p, "saveOwn")
  /\ UNCHANGED <<tangle, states, subscriptions, op, history>>

SaveOwn(p) ==
  /\ At(p, "saveOwn")
  /\ \/ /\ states[p] # NoState
        /\ states' = [states EXCEPT ![p] = task[p].past]
        /\ Ended(p) /\ UNCHANGED faulted
     \/ /\ states[p] = NoState
        /\ Broken(p) /\ UNCHANGED states
  /\ UNCHANGED <<tangle, cache, subscriptions, op, overlapped>>

\* An error or a restart of the process, at whatever step.
Fail(p) ==
  /\ "fail" \in Event /\ ~At(p, "idle")
  /\ Broken(p)
  /\ UNCHANGED <<tangle, states, cache, subscriptions, op, overlapped>>

-----------------------------------------------------------------------------
(* The author's side.                                                      *)

\* A user asks for a subscription and gets a state.
Request(u) ==
  /\ status[u] = "none"
  /\ status' = [status EXCEPT ![u] = "requested"]
  /\ states' = [states EXCEPT ![u] = {}]
  /\ UNCHANGED <<tangle, cache, keyload, tasks, history>>

KeysWith(u) == Readers \cup {u, Author}
KeysWithout(v) == Readers \ {v}

BeginOp(call, u, keys, pending) ==
  /\ op = NoOp /\ At(Author, "idle")
  /\ op' = [at |-> "fetch", call |-> call, user |-> u, past |-> states[Author],
            batch |-> {}, keys |-> keys, pending |-> pending]
  /\ UNCHANGED <<tangle, states, cache, subscriptions, task, history>>

Authorize(u) ==
  /\ status[u] = "requested"
  /\ BeginOp("authorize", u, KeysWith(u), Readers \cup {u})

Revoke(v) ==
  /\ "revoke" \in Event
  /\ status[v] = "authorized"
  /\ BeginOp("revoke", v, KeysWithout(v), Readers)

\* SubscriptionService.fetchLogs: without new messages nothing is saved.
OpFetch ==
  /\ op.at = "fetch"
  /\ LET new == Unread(Author, op.past) IN
     op' = [op EXCEPT !.past = @ \cup Sent, !.batch = new,
                      !.at = IF new = {} THEN "keyloads" ELSE "save"]
  /\ UNCHANGED <<tangle, states, cache, subscriptions, task, history>>

OpSave ==
  /\ op.at = "save"
  /\ states' = [states EXCEPT ![Author] = op.past]
  /\ op' = [op EXCEPT !.at = "store"]
  /\ UNCHANGED <<tangle, cache, subscriptions, task, history>>

OpStore ==
  /\ op.at = "store"
  /\ \E S \in SUBSET op.batch :
       /\ Inserted(op.batch, cache[Author], S)
       /\ cache' = [cache EXCEPT ![Author] = @ \cup S]
  /\ IF op.batch \cap cache[Author] = {}
     THEN op' = [op EXCEPT !.at = "keyloads", !.batch = {}] /\ UNCHANGED faulted
     ELSE op' = NoOp /\ faulted' = faulted \cup {Author}
  /\ UNCHANGED <<tangle, states, subscriptions, task, overlapped>>

\* sendKeyload: the state is synced, the keyload sent and recorded.
OpKeyload(b) ==
  /\ op.at = "keyloads" /\ b \in op.pending
  /\ keyload' = [keyload EXCEPT ![b] = op.keys]
  /\ status' = IF b = Author THEN status ELSE [status EXCEPT ![b] = "authorized"]
  /\ op' = [op EXCEPT !.pending = @ \ {b}, !.past = @ \cup Sent]
  /\ UNCHANGED <<tangle, states, cache, task, history>>

Revoking == op.call = "revoke"

\* revoke removes the user's state, subscription and logs, one by one.
OpRemove ==
  /\ Revoking
  /\ \/ /\ op.at = "keyloads" /\ op.pending = {}
        /\ states' = [states EXCEPT ![op.user] = NoState]
        /\ op' = [op EXCEPT !.at = "subscription"]
        /\ UNCHANGED <<cache, subscriptions>>
     \/ /\ op.at = "subscription"
        /\ status' = [status EXCEPT ![op.user] = "revoked"]
        /\ keyload' = [keyload EXCEPT ![op.user] = {}]
        /\ op' = [op EXCEPT !.at = "logs"]
        /\ UNCHANGED <<states, cache>>
     \/ /\ op.at = "logs"
        /\ cache' = [cache EXCEPT ![op.user] = {}]
        /\ op' = [op EXCEPT !.at = "end"]
        /\ UNCHANGED <<states, subscriptions>>
  /\ UNCHANGED <<tangle, task, history>>

OpEnd ==
  /\ \/ Revoking /\ op.at = "end"
     \/ ~Revoking /\ op.at = "keyloads" /\ op.pending = {}
  /\ states' = [states EXCEPT ![Author] = op.past]
  /\ op' = NoOp
  /\ UNCHANGED <<tangle, cache, subscriptions, task, history>>

-----------------------------------------------------------------------------
Next ==
  \/ \E p \in Participant :
       \/ GetLogs(p) \/ AddLog(p) \/ Reimport(p) \/ Reset(p) \/ Fetch(p) \/ Save(p)
       \/ Store(p) \/ Publish(p) \/ StoreOwn(p) \/ SaveOwn(p) \/ Fail(p) \/ OpKeyload(p)
  \/ \E u \in User : Request(u) \/ Authorize(u) \/ Revoke(u)
  \/ OpFetch \/ OpSave \/ OpStore \/ OpRemove \/ OpEnd

Spec == Init /\ [][Next]_vars

-----------------------------------------------------------------------------
(* Properties.                                                             *)

Call == {"none", "get", "add", "reimport"}
TaskAt == {"idle", "reset", "fetch", "save", "store", "publish", "storeOwn", "saveOwn"}
OpAt == {"idle", "fetch", "save", "store", "keyloads", "subscription", "logs", "end"}

\* Every variable has its type.
TypeOK ==
  /\ tangle \in Seq([from : Participant, readers : SUBSET Participant, before : SUBSET User])
  /\ Len(tangle) <= MaxLogs
  /\ states \in [Participant -> (SUBSET Link) \cup {NoState}]
  /\ cache \in [Participant -> SUBSET Link]
  /\ status \in [User -> {"none", "requested", "authorized", "revoked"}]
  /\ keyload \in [Participant -> SUBSET Participant]
  /\ task \in [Participant -> [at : TaskAt, call : Call, past : SUBSET Link,
                 batch : SUBSET Link, readers : SUBSET Participant, before : SUBSET User]]
  /\ op \in [at : OpAt, call : {"none", "authorize", "revoke"}, user : Participant,
             past : SUBSET Link, batch : SUBSET Link,
             keys : SUBSET Participant, pending : SUBSET Participant]
  /\ faulted \subseteq Participant
  /\ overlapped \subseteq Link

\* Nothing that writes the logs of p or their state is under way.
Settled(p) == /\ At(p, "idle") /\ Authorized(p)
              /\ op.at # "idle" => p \notin {Author, op.user}

\* What should be stored for p.
Due(p) == IF MayRead(p) THEN Readable(p) \cup Own(p) ELSE Own(p)

\* What is stored for a participant is exactly what its state is past and it
\* may read or wrote: no gap, which nothing would ever fill, and nothing the
\* state would fetch again, which would make every call fail.  Only a call
\* that stopped half-way breaks it, a reimport restores it; the author also
\* misses logs that were sent while it authorized or revoked.
CacheMatchesState ==
  \A p \in Participant : Settled(p) /\ p \notin faulted =>
    LET due == states[p] \cap Due(p) IN
      IF p = Author THEN cache[p] \subseteq due /\ due \ cache[p] \subseteq overlapped
      ELSE cache[p] = due

\* A revoked user cannot decrypt what others begin to send after its revoke
\* has come to its end, whichever keyload they link to; but for those who may
\* only write, whose branches no revoke renews.
RevokedCannotRead ==
  \A m \in Sent : MayRead(tangle[m].from) => tangle[m].readers \cap tangle[m].before = {}

Subscriber == {u \in User : MayRead(u)}

Audit == INSTANCE AuditLog WITH
  posts <- tangle,
  known <- [u \in Subscriber |-> IF status[u] = "authorized" THEN cache[u] ELSE {}]

\* As long as no call fails half-way, a subscriber finds its own logs and all
\* logs it may read up to some point, revoked and imported anew in between.
ImplementsAuditLog == Audit!Spec
=============================================================================
