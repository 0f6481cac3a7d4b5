---------------------------- MODULE Subscriptions ----------------------------
(***************************************************************************)
(* The subscriptions of one channel: services/subscription-service.ts with *)
(* the routes and the database modules it works through.                   *)
(*                                                                         *)
(* A user asks for a subscription (requestSubscription), the author        *)
(* authorizes or revokes it, a user or the author deletes it, the author   *)
(* deletes the channel's entry.  All but the DELETE routes run under       *)
(* channelLock, one handler per channel and caller (ConcurrencyLock): slot *)
(* op for the author, req[u] for user u, getLogs included.  The DELETE     *)
(* routes take no lock (slot del, channelExists).  Each await on the       *)
(* database or the Tangle is a step, except that consecutive reads which   *)
(* no write of another handler can tell apart are one.                     *)
(*                                                                         *)
(* Keyloads go through the in-process lock 'auth-sub-' one at a time, first*)
(* come first served (KeyedMutex): queue holds the pending sendKeyload     *)
(* calls.  When one rejects, Promise.all rejects and the handler ends; the *)
(* calls still queued run on with nobody awaiting them (live = FALSE).     *)
(*                                                                         *)
(* A keyload names the public keys that can read what follows on its       *)
(* branch.  The author's own key and the channel's pre-shared key are in   *)
(* every keyload and are left out.  Requests that a handler refuses before *)
(* it changed anything are stuttering steps.                               *)
(***************************************************************************)
EXTENDS Integers, Sequences, FiniteSets, SequencesExt

CONSTANTS User,          \* identities that may subscribe
          Author,        \* the identity that created the channel
          Key,           \* public keys of subscribers
          NoKey,         \* a subscription by pre-shared key has none
          NoUser,        \* an idle handler works for nobody
          KeysOf,        \* the keys that a user's seeds give
          ChannelTypes,  \* the channel types of this instance
          Kinds,         \* the kinds of subscription asked for in it
          Events,        \* what else happens in this instance
          MaxEvents      \* bound on deletions, failing calls and restarts

ASSUME UserAssumption == IsFiniteSet(User)
ASSUME AuthorAssumption == Author \notin User
ASSUME NoKeyAssumption == NoKey \notin Key
ASSUME NoUserAssumption == NoUser \notin User
ASSUME KeysOfAssumption == KeysOf \in [User -> SUBSET Key]
ASSUME TypesAssumption == ChannelTypes \subseteq {"public", "private", "privatePlus"}
ASSUME KindsAssumption == Kinds \subseteq {"reader", "writer", "psk"}
ASSUME EventsAssumption ==
         Events \subseteq {"delete subscription", "delete channel", "get logs",
                          "failure", "restart"}
ASSUME MaxEventsAssumption == MaxEvents \in Nat

VARIABLES
  channelType,     \* ChannelInfo.type
  channelExists,   \* the channel-info document is there
  subscriberIds,   \* its list of subscribers
  requestedIds,    \* its list requestedSubscriptionIds
  subs,            \* subscription documents of the users
  stateDocs,       \* users with a subscription-state document
  cached,          \* users with channel-data documents
  authorPassword,  \* what the author's subscription state is encrypted with
  keyload,         \* recipients of the last keyload on the branch that each
                   \* subscription document names, the author's included
  queue,           \* pending sendKeyload calls
  op,              \* the author's authorize or revoke
  req,             \* each user's own request, or retrieval of logs
  del,             \* a DELETE of a subscription
  events,          \* deletions, failing calls and restarts so far
  hist             \* history, read by no action

channel == <<channelType, channelExists>>
lists == <<subscriberIds, requestedIds>>
userDocs == <<subs, stateDocs, cached>>
docs == <<channel, lists, userDocs, authorPassword>>
vars == <<docs, keyload, queue, op, req, del, events, hist>>

Member == User \cup {Author}

NoSub == [kind |-> "none", key |-> NoKey, authorized |-> FALSE]
NoOp == [kind |-> "none", pc |-> "none", who |-> NoUser, key |-> NoKey,
         authorized |-> FALSE, branches |-> {}, keys |-> {}, pending |-> {},
         copy |-> {}]
NoReq == [pc |-> "none", kind |-> "none", key |-> NoKey, copy |-> {}]
NoDel == [pc |-> "none", who |-> NoUser, copy |-> {}]

Live(u) == subs[u].kind # "none"

\* Variant: a route that takes any subscription for a valid one.
AnyLink(u) == TRUE

\* The subscription has a subscriptionLink and a public key: it has both or none.
HasLink(u) == subs[u].key # NoKey

\* What the author's state is encrypted with when a request has completed:
\* getPassword(asymSharedKey) in a privatePlus channel, this.password elsewhere.
OwnPassword == IF channelType = "privatePlus" THEN "shared" ELSE "service"

Init ==
  /\ channelType \in ChannelTypes
  /\ channelExists = TRUE
  /\ subscriberIds = {} /\ requestedIds = {}
  /\ subs = [u \in User |-> NoSub]
  /\ stateDocs = {} /\ cached = {}
  /\ authorPassword = OwnPassword
  /\ keyload = [m \in Member |-> {}]
  /\ queue = << >>
  /\ op = NoOp
  /\ req = [u \in User |-> NoReq]
  /\ del = NoDel
  /\ events = 0
  /\ hist = [approved |-> {}, revoked |-> {}, late |-> {},
             failed |-> FALSE, raced |-> FALSE]

-----------------------------------------------------------------------------
(* Documents and helpers of the services.                                  *)

\* The existing subscriptions that authorize and revoke send keyloads for, the
\* author's own apart: authorized, with Read or ReadAndWrite.
Readers == {u \in User : subs[u].authorized /\ subs[u].kind = "reader"}
ReaderKeys == {subs[u].key : u \in Readers}

-----------------------------------------------------------------------------
(* Variants of the code that a property must tell apart from it.           *)

\* no lock: a call does not wait for those before it.
EnqueueFront(calls) == queue' = calls \o queue

\* a handler that ends but stays awaited.
StillAwaited(q) == q

\* an authorize that renews the keyloads without the new key.
WithoutNewKey == op.keys

\* a revoke that renews the keyloads with every key.
EveryReaderKey(k) == ReaderKeys

\* a request that is authorized by itself unless it only writes.
AuthorizedForReaders(kind) == kind # "writer"

\* a revoke that takes the id off the subscribers whatever it was.
AlwaysSubscriber == "unsubscribe"

\* a request that does not save the subscriber's state.
StateNotAdded(u) == stateDocs

\* a revoke that leaves the logs.
LogsKept(u) == cached

\* an author's state that is always saved with this.password.
ServicePassword == "service"

\* a keyload call that leaves the lock taken when its subscription is gone.
LockLeaked == UNCHANGED <<queue, op, hist>>

-----------------------------------------------------------------------------
\* A sendKeyload call: the branch it renews and the keys it names.
Keyload(m, keys) == [branch |-> m, keys |-> keys, live |-> TRUE, sent |-> FALSE]

\* One sendKeyload call per branch, in the order the database lists them.
Keyloads(order, keys) == [i \in DOMAIN order |-> Keyload(order[i], keys)]

\* Calls join the end of the 'auth-sub-' lock's queue.
Enqueue(calls) == queue' = queue \o calls

\* Nobody waits for these calls any more.
Orphaned(q) == [i \in DOMAIN q |-> [q[i] EXCEPT !.live = FALSE]]

\* The recipients of the keyloads that authorizing a subscription sends.
AuthorizeKeys == op.keys \cup {op.key}

\* A handler's catch: 500, whatever it changed so far stays.
Failed == [hist EXCEPT !.failed = TRUE]
FailOp == op' = NoOp /\ queue' = Orphaned(queue) /\ hist' = Failed
FailReq(u) == req' = [req EXCEPT ![u] = NoReq] /\ hist' = Failed

\* Bound on what happens beside requests, authorizations and revokes.
Spend == events < MaxEvents /\ events' = events + 1

\* A list in the channel-info document is written as read, plus or minus one
\* id; the update matches nothing when the document is gone.
WriteSubscribers(read, ids) ==
  /\ subscriberIds' = IF channelExists THEN ids ELSE subscriberIds
  /\ hist' = [hist EXCEPT !.raced = @ \/ (channelExists /\ read # subscriberIds)]
  /\ UNCHANGED requestedIds
WriteRequested(read, ids) ==
  /\ requestedIds' = IF channelExists THEN ids ELSE requestedIds
  /\ hist' = [hist EXCEPT !.raced = @ \/ (channelExists /\ read # requestedIds)]
  /\ UNCHANGED subscriberIds

\* removeSubscription: the document goes, and with it the name of its branch.
RemoveSub(u) ==
  /\ subs' = [subs EXCEPT ![u] = NoSub]
  /\ keyload' = [keyload EXCEPT ![u] = {}]

\* The subscriptions that authorize turns down: none, one by pre-shared key
\* (no link), one that is authorized.
Authorizable(u) == Live(u) /\ HasLink(u) /\ ~subs[u].authorized

\* The keys that go into the keyloads of a revoke.
KeysWithout(k) == ReaderKeys \ {k}

\* isAuthorized of a new subscription.
AuthorizedAtOnce(kind) == kind \in {"psk", "open"}

\* addSubscriptionState, removeChannelData, and the password that the author's
\* state is saved with at the end.
StateAdded(u) == stateDocs \cup {u}
Purged(u) == cached \ {u}
SavedPassword == OwnPassword

\* The list that a revoked id has to leave.
ListToLeave == IF op.authorized THEN "unsubscribe" ELSE "forget"

-----------------------------------------------------------------------------
(* requestSubscription by user u.                                          *)

\* The route's and the service's checks: no subscription yet, the channel's
\* type, the public key not used by another subscription.  History: an author's
\* operation on the same user's old subscription is not over.
RequestCheck(u) ==
  /\ req[u].pc = "none"
  /\ channelExists
  /\ ~Live(u)
  /\ \/ /\ channelType # "public" /\ "psk" \in Kinds
        /\ req' = [req EXCEPT ![u] =
                     [NoReq EXCEPT !.pc = "addState", !.kind = "psk"]]
     \/ \E k \in KeysOf[u],
           kind \in IF channelType = "public" THEN {"open"} ELSE Kinds \ {"psk"} :
          /\ \A v \in User : subs[v].key # k
          /\ req' = [req EXCEPT ![u] =
                       [NoReq EXCEPT !.pc = "addState", !.kind = kind, !.key = k]]
  /\ hist' = [hist EXCEPT !.raced = @ \/ op.who = u]
  /\ UNCHANGED <<docs, keyload, queue, op, del, events>>

\* addSubscriptionState: a document that is there already makes it throw.
RequestState(u) ==
  /\ req[u].pc = "addState"
  /\ \/ /\ u \in stateDocs
        /\ req' = [req EXCEPT ![u] = NoReq]
        /\ UNCHANGED stateDocs
     \/ /\ u \notin stateDocs
        /\ stateDocs' = StateAdded(u)
        /\ req' = [req EXCEPT ![u].pc = "addSub"]
  /\ UNCHANGED <<channel, lists, subs, cached, authorPassword, keyload, queue,
                 op, del, events, hist>>

\* addSubscription: authorized at once with a pre-shared key or in a public
\* channel.
RequestSub(u) ==
  /\ req[u].pc = "addSub"
  /\ subs' = [subs EXCEPT ![u] =
                [kind |-> req[u].kind, key |-> req[u].key,
                 authorized |-> AuthorizedAtOnce(req[u].kind)]]
  /\ req' = [req EXCEPT ![u].pc = "readList"]
  /\ UNCHANGED <<channel, lists, stateDocs, cached, authorPassword, keyload,
                 queue, op, del, events, hist>>

RequestReadList(u) ==
  /\ req[u].pc = "readList"
  /\ \/ /\ channelExists
        /\ req' = [req EXCEPT ![u].pc = "writeList",
                              ![u].copy = IF req[u].kind = "open"
                                          THEN subscriberIds ELSE requestedIds]
        /\ UNCHANGED hist
     \/ ~channelExists /\ FailReq(u)
  /\ UNCHANGED <<docs, keyload, queue, op, del, events>>

\* The id joins the subscribers of a public channel, the requested ones of any
\* other: that of a subscription by pre-shared key too.
RequestWriteList(u) ==
  /\ req[u].pc = "writeList"
  /\ IF req[u].kind = "open"
     THEN WriteSubscribers(req[u].copy, req[u].copy \cup {u})
     ELSE WriteRequested(req[u].copy, req[u].copy \cup {u})
  /\ req' = [req EXCEPT ![u] = NoReq]
  /\ UNCHANGED <<channel, userDocs, authorPassword, keyload, queue, op, del,
                 events>>

-----------------------------------------------------------------------------
(* getLogs by user u, as far as it meets the author's revoke.              *)

\* The new state is saved; it throws if there is no state document.  A keyload
\* link, the right to read and a channel that is not public are asked for first.
LogsSave(u) ==
  /\ "get logs" \in Events
  /\ req[u].pc = "none"
  /\ subs[u].authorized /\ subs[u].kind \in {"reader", "psk"}
  /\ u \in stateDocs
  /\ req' = [req EXCEPT ![u].pc = "addData"]
  /\ UNCHANGED <<docs, keyload, queue, op, del, events, hist>>

\* The messages join channel-data.  History: the state document has been
\* removed since.
LogsAdd(u) ==
  /\ req[u].pc = "addData"
  /\ cached' = cached \cup {u}
  /\ req' = [req EXCEPT ![u] = NoReq]
  /\ hist' = [hist EXCEPT !.late = IF u \in stateDocs THEN @ ELSE @ \cup {u}]
  /\ UNCHANGED <<channel, lists, subs, stateDocs, authorPassword, keyload,
                 queue, op, del, events>>

-----------------------------------------------------------------------------
(* authorizeSubscription and revokeSubscription by the author.             *)

\* History: the author takes up a subscription before its request has ended.
Requesting(u) == req[u].pc \in {"readList", "writeList"}

\* What the routes read first: the subscription and the channel's type.
Load(kind, u) ==
  /\ op.kind = "none"
  /\ channelExists
  /\ op' = [NoOp EXCEPT !.kind = kind, !.pc = "load", !.who = u,
                        !.key = subs[u].key, !.authorized = subs[u].authorized]
  /\ UNCHANGED <<docs, keyload, queue, req, del, events>>

Authorize(u) ==
  /\ Authorizable(u)
  /\ Load("authorize", u)
  /\ hist' = [hist EXCEPT !.approved = @ \cup {u}, !.revoked = @ \ {subs[u].key},
                          !.raced = @ \/ Requesting(u)]

\* A subscription by pre-shared key has no link or key: not a valid one.
Revocable(u) == Live(u) /\ HasLink(u)

Revoke(u) ==
  /\ Revocable(u)
  /\ Load("revoke", u)
  /\ hist' = [hist EXCEPT !.raced = @ \/ Requesting(u)]

\* What the services read then: the author's state, which must open with the
\* password of the channel's type, and the subscriptions to send keyloads for.
Gather ==
  /\ op.pc = "load"
  /\ \/ /\ authorPassword = OwnPassword
        /\ op' = [op EXCEPT !.pc = "fetch", !.branches = Readers \cup {Author},
                            !.keys = IF op.kind = "revoke" THEN KeysWithout(op.key)
                                     ELSE ReaderKeys]
        /\ UNCHANGED <<queue, hist>>
     \/ authorPassword # OwnPassword /\ FailOp
  /\ UNCHANGED <<docs, keyload, req, del, events>>

\* fetchLogs: when there are new messages the author's state is saved, with
\* this.password whatever the channel's type.
FetchLogs ==
  \/ UNCHANGED authorPassword
  \/ authorPassword' = "service"

\* The new subscription's keyload goes first, on a branch of its own.
AuthorizeFirst ==
  /\ op.kind = "authorize" /\ op.pc = "fetch"
  /\ FetchLogs
  /\ Enqueue(<<Keyload(op.who, AuthorizeKeys)>>)
  /\ op' = [op EXCEPT !.pc = "first", !.pending = {op.who}]
  /\ UNCHANGED <<channel, lists, userDocs, keyload, req, del, events, hist>>

\* Promise.all: a keyload on each branch there was.
AuthorizeRest ==
  /\ op.pc = "first" /\ op.pending = {}
  /\ \E order \in SetToSeqs(op.branches) : Enqueue(Keyloads(order, AuthorizeKeys))
  /\ op' = [op EXCEPT !.pc = "rest", !.pending = op.branches,
                       !.branches = {}, !.keys = {}]
  /\ UNCHANGED <<docs, keyload, req, del, events, hist>>

RevokeKeyloads ==
  /\ op.kind = "revoke" /\ op.pc = "fetch"
  /\ FetchLogs
  /\ \E order \in SetToSeqs(op.branches) : Enqueue(Keyloads(order, op.keys))
  /\ op' = [op EXCEPT !.pc = "rest", !.pending = op.branches,
                       !.branches = {}, !.keys = {}]
  /\ UNCHANGED <<channel, lists, userDocs, keyload, req, del, events, hist>>

\* The holder of the lock publishes its keyload.
SendKeyload ==
  /\ queue # << >>
  /\ ~Head(queue).sent
  /\ keyload' = [keyload EXCEPT ![Head(queue).branch] = Head(queue).keys]
  /\ queue' = [queue EXCEPT ![1].sent = TRUE]
  /\ UNCHANGED <<docs, op, req, del, events, hist>>

\* The call is over, its lock released; an awaited one that rejects ends its
\* handler.
KeyloadResolves ==
  /\ queue' = Tail(queue)
  /\ op' = [op EXCEPT !.pending = IF Head(queue).live
                                  THEN @ \ {Head(queue).branch} ELSE @]
  /\ UNCHANGED hist
KeyloadRejects ==
  IF Head(queue).live
  THEN op' = NoOp /\ queue' = Orphaned(Tail(queue)) /\ hist' = Failed
  ELSE queue' = Tail(queue) /\ UNCHANGED <<op, hist>>

\* setSubscriptionAuthorized: the branch's subscription is authorized; a
\* subscription that is not there (n = 0) makes it throw.
RecordKeyload ==
  /\ queue # << >>
  /\ Head(queue).sent
  /\ LET m == Head(queue).branch IN
       \/ /\ m = Author
          /\ KeyloadResolves
          /\ UNCHANGED subs
       \/ /\ m \in User /\ Live(m)
          /\ subs' = [subs EXCEPT ![m].authorized = TRUE]
          /\ KeyloadResolves
       \/ /\ m \in User /\ ~Live(m)
          /\ KeyloadRejects
          /\ UNCHANGED subs
  /\ UNCHANGED <<channel, lists, stateDocs, cached, authorPassword, keyload,
                 req, del, events>>

\* The keyloads are out: the author's state is saved, then the id moves from
\* the requested ones to the subscribers.
AuthorizeSave ==
  /\ op.kind = "authorize" /\ op.pc = "rest" /\ op.pending = {}
  /\ authorPassword' = SavedPassword
  /\ op' = [op EXCEPT !.pc = "unrequest"]
  /\ UNCHANGED <<channel, lists, userDocs, keyload, queue, req, del, events,
                 hist>>

\* A list is read: the channel-info functions throw when there is no document.
ReadList(from, ids, to) ==
  /\ op.pc = from
  /\ \/ /\ channelExists
        /\ op' = [op EXCEPT !.pc = to, !.copy = ids]
        /\ UNCHANGED <<queue, hist>>
     \/ ~channelExists /\ FailOp
  /\ UNCHANGED <<docs, keyload, req, del, events>>

ReadRequested == ReadList("unrequest", requestedIds, "writeRequested")
ReadSubscribers == ReadList("subscribe", subscriberIds, "writeSubscribers")

WriteUnrequest ==
  /\ op.pc = "writeRequested"
  /\ WriteRequested(op.copy, op.copy \ {op.who})
  /\ op' = [op EXCEPT !.pc = "subscribe", !.copy = {}]
  /\ UNCHANGED <<channel, userDocs, authorPassword, keyload, queue, req, del,
                 events>>

\* The last step of authorize.
WriteSubscribe ==
  /\ op.pc = "writeSubscribers"
  /\ WriteSubscribers(op.copy, op.copy \cup {op.who})
  /\ op' = NoOp
  /\ UNCHANGED <<channel, userDocs, authorPassword, keyload, queue, req, del,
                 events>>

\* The keyloads are out: the documents of the revoked subscription go, its
\* state first, so that no retrieval of logs saves anything after the purge.
RevokeState ==
  /\ op.kind = "revoke" /\ op.pc = "rest" /\ op.pending = {}
  /\ stateDocs' = stateDocs \ {op.who}
  /\ op' = [op EXCEPT !.pc = "delSub"]
  /\ UNCHANGED <<channel, lists, subs, cached, authorPassword, keyload, queue,
                 req, del, events, hist>>

\* History: the key is revoked, unless another subscription holds it too.
RevokeSub ==
  /\ op.pc = "delSub"
  /\ RemoveSub(op.who)
  /\ op' = [op EXCEPT !.pc = "delData"]
  /\ hist' = [hist EXCEPT !.approved = @ \ {op.who},
                          !.revoked = IF \E v \in User \ {op.who} :
                                           subs[v].key = op.key
                                      THEN @ ELSE @ \cup {op.key}]
  /\ UNCHANGED <<channel, lists, stateDocs, cached, authorPassword, queue,
                 req, del, events>>

RevokeData ==
  /\ op.pc = "delData"
  /\ cached' = Purged(op.who)
  /\ op' = [op EXCEPT !.pc = ListToLeave]
  /\ hist' = [hist EXCEPT !.late = @ \ {op.who}]
  /\ UNCHANGED <<channel, lists, subs, stateDocs, authorPassword, keyload,
                 queue, req, del, events>>

\* The id leaves the subscribers if the subscription was read as authorized,
\* the requested ones otherwise.
ReadUnsubscribe == ReadList("unsubscribe", subscriberIds, "writeUnsubscribe")
ReadForget == ReadList("forget", requestedIds, "writeForget")

WriteUnsubscribe ==
  /\ op.pc = "writeUnsubscribe"
  /\ WriteSubscribers(op.copy, op.copy \ {op.who})
  /\ op' = [op EXCEPT !.pc = "save", !.copy = {}]
  /\ UNCHANGED <<channel, userDocs, authorPassword, keyload, queue, req, del,
                 events>>

WriteForget ==
  /\ op.pc = "writeForget"
  /\ WriteRequested(op.copy, op.copy \ {op.who})
  /\ op' = [op EXCEPT !.pc = "save", !.copy = {}]
  /\ UNCHANGED <<channel, userDocs, authorPassword, keyload, queue, req, del,
                 events>>

\* The last step of revoke.
RevokeSave ==
  /\ op.pc = "save"
  /\ authorPassword' = SavedPassword
  /\ op' = NoOp
  /\ UNCHANGED <<channel, lists, userDocs, keyload, queue, req, del, events,
                 hist>>

-----------------------------------------------------------------------------
(* The routes without a lock.                                              *)

\* DELETE of a subscription: the author of the channel is read (it throws when
\* there is none) and the subscription.
DeleteCheck(u) ==
  /\ Spend
  /\ "delete subscription" \in Events
  /\ del.pc = "none"
  /\ channelExists
  /\ Live(u)
  /\ del' = [pc |-> "read", who |-> u, copy |-> {}]
  /\ UNCHANGED <<docs, keyload, queue, op, req, hist>>

\* The list of subscribers is read, unless the channel-info document is gone.
DeleteRead ==
  /\ del.pc = "read"
  /\ \/ /\ channelExists
        /\ del' = [del EXCEPT !.pc = "write", !.copy = subscriberIds]
        /\ UNCHANGED hist
     \/ ~channelExists /\ del' = NoDel /\ hist' = Failed
  /\ UNCHANGED <<docs, keyload, queue, op, req, events>>

DeleteWrite ==
  /\ del.pc = "write"
  /\ WriteSubscribers(del.copy, del.copy \ {del.who})
  /\ del' = [del EXCEPT !.pc = "remove"]
  /\ UNCHANGED <<channel, userDocs, authorPassword, keyload, queue, op, req,
                 events>>

\* The subscription document goes; its state, its logs and its place among the
\* requested ones stay.
DeleteRemove ==
  /\ del.pc = "remove"
  /\ RemoveSub(del.who)
  /\ del' = NoDel
  /\ hist' = [hist EXCEPT !.approved = @ \ {del.who}]
  /\ UNCHANGED <<channel, lists, stateDocs, cached, authorPassword, queue, op,
                 req, events>>

\* DELETE of the channel's entry: the document, with its lists, and no more.
DeleteChannel ==
  /\ Spend
  /\ "delete channel" \in Events
  /\ channelExists
  /\ channelExists' = FALSE
  /\ subscriberIds' = {} /\ requestedIds' = {}
  /\ UNCHANGED <<channelType, userDocs, authorPassword, keyload, queue, op,
                 req, del, hist>>

-----------------------------------------------------------------------------
(* Failures.                                                               *)

\* A call of the author's handler, other than its keyloads, throws.
OpThrows ==
  /\ Spend
  /\ "failure" \in Events
  /\ op.kind # "none"
  /\ op.pc \in {"first", "rest"} => op.pending = {}
  /\ FailOp
  /\ UNCHANGED <<docs, keyload, req, del>>

\* A keyload's call throws, before or after it is on the Tangle.
KeyloadThrows ==
  /\ Spend
  /\ "failure" \in Events
  /\ queue # << >>
  /\ KeyloadRejects
  /\ UNCHANGED <<docs, keyload, req, del>>

RequestThrows(u) ==
  /\ Spend
  /\ "failure" \in Events
  /\ req[u].pc # "none"
  /\ FailReq(u)
  /\ UNCHANGED <<docs, keyload, queue, op, del>>

DeleteThrows ==
  /\ Spend
  /\ "failure" \in Events
  /\ del.pc # "none"
  /\ del' = NoDel
  /\ hist' = Failed
  /\ UNCHANGED <<docs, keyload, queue, op, req>>

\* The gateway stops and comes back: the documents and the Tangle stay.
Restart ==
  /\ Spend
  /\ "restart" \in Events
  /\ op' = NoOp /\ del' = NoDel /\ req' = [u \in User |-> NoReq]
  /\ queue' = << >>
  /\ hist' = Failed
  /\ UNCHANGED <<docs, keyload>>

Event ==
  \/ DeleteChannel \/ OpThrows \/ KeyloadThrows \/ DeleteThrows \/ Restart
  \/ \E u \in User : DeleteCheck(u) \/ RequestThrows(u)

RequestStep(u) ==
  RequestState(u) \/ RequestSub(u) \/ RequestReadList(u) \/ RequestWriteList(u)
  \/ LogsAdd(u)

KeyloadStep == SendKeyload \/ RecordKeyload

OpStep ==
  \/ Gather \/ AuthorizeFirst \/ AuthorizeRest \/ AuthorizeSave
  \/ ReadRequested \/ WriteUnrequest \/ ReadSubscribers \/ WriteSubscribe
  \/ RevokeKeyloads \/ RevokeState \/ RevokeSub \/ RevokeData
  \/ ReadUnsubscribe \/ WriteUnsubscribe \/ ReadForget \/ WriteForget \/ RevokeSave

DeleteStep == DeleteRead \/ DeleteWrite \/ DeleteRemove

\* Somebody calls a route.
Call ==
  \E u \in User : RequestCheck(u) \/ LogsSave(u) \/ Authorize(u) \/ Revoke(u)

Next ==
  \/ Call \/ OpStep \/ KeyloadStep \/ DeleteStep \/ Event
  \/ \E u \in User : RequestStep(u)

\* A handler that was started runs on, and so does the holder of the keyload
\* lock; nobody has to call a route.
Fairness == WF_vars(OpStep) /\ WF_vars(KeyloadStep)

Spec == Init /\ [][Next]_vars
FairSpec == Spec /\ Fairness

-----------------------------------------------------------------------------
(* Properties.                                                             *)

OpPc == {"none", "load", "fetch", "first", "rest", "unrequest", "writeRequested",
         "subscribe", "writeSubscribers", "delSub", "delData", "unsubscribe",
         "writeUnsubscribe", "forget", "writeForget", "save"}
ReqPc == {"none", "addState", "addSub", "readList", "writeList", "addData"}
Kind == {"none", "reader", "writer", "psk", "open"}

\* The types of the documents, the handlers and the queue; a public key comes
\* with every kind of subscription but the pre-shared key's, and only keys of
\* subscriptions that can be authorized get into keyloads.
TypeOK ==
  /\ channelType \in ChannelTypes /\ channelExists \in BOOLEAN
  /\ subscriberIds \subseteq User /\ requestedIds \subseteq User
  /\ subs \in [User -> [kind : Kind, key : Key \cup {NoKey}, authorized : BOOLEAN]]
  /\ \A u \in User : subs[u].key = NoKey <=> subs[u].kind \in {"none", "psk"}
  /\ stateDocs \subseteq User /\ cached \subseteq User
  /\ authorPassword \in {"service", "shared"}
  /\ keyload \in [Member -> SUBSET Key]
  /\ queue \in Seq([branch : Member, keys : SUBSET Key, live : BOOLEAN,
                    sent : BOOLEAN])
  /\ op \in [kind : {"none", "authorize", "revoke"}, pc : OpPc,
             who : User \cup {NoUser}, key : Key \cup {NoKey},
             authorized : BOOLEAN, branches : SUBSET Member,
             keys : SUBSET Key, pending : SUBSET Member, copy : SUBSET User]
  /\ op.kind # "none" => op.who \in User /\ op.key \in Key
  /\ req \in [User -> [pc : ReqPc, kind : Kind, key : Key \cup {NoKey},
                       copy : SUBSET User]]
  /\ \A u \in User : req[u].key = NoKey <=> req[u].kind \in {"none", "psk"}
  /\ del \in [pc : {"none", "read", "write", "remove"}, who : User \cup {NoUser},
              copy : SUBSET User]
  /\ del.pc # "none" => del.who \in User
  /\ events \in 0..MaxEvents
  /\ hist \in [approved : SUBSET User, revoked : SUBSET Key, late : SUBSET User,
               failed : BOOLEAN, raced : BOOLEAN]

\* What the author's handler awaits is what is queued for it: each branch it
\* waits for has exactly one live call, and a handler that waits for none, or
\* has ended, has none.  So no handler waits for ever and no late call wakes a
\* handler it does not belong to.
AwaitedAgree ==
  /\ op.kind = "none" <=> op.pc = "none"
  /\ op.pc \notin {"first", "rest"} => op.pending = {}
  /\ \A i \in 1..Len(queue) : queue[i].live => queue[i].branch \in op.pending
  /\ \A i, j \in 1..Len(queue) :
       queue[i].live /\ queue[j].live /\ queue[i].branch = queue[j].branch => i = j
  /\ \A m \in op.pending : \E i \in 1..Len(queue) :
       queue[i].live /\ queue[i].branch = m

AuthorIdle == op.kind = "none"

\* Nothing failed half-way, or no subscription is ever deleted with a DELETE.
\* A DELETE leaves the state document, which makes a new request of the user
\* throw; but a revoke that failed half-way may have removed it before.
Orderly == ~hist.failed \/ "delete subscription" \notin Events

\* A user reads or writes as an authorized subscriber only if the author
\* authorized this subscription.  A keyload call sets isAuthorized by id, so
\* one that is still pending when its subscription is revoked and asked for
\* anew would authorize the new one.  Against a revoke the order of the keyload
\* lock keeps that from happening, whatever fails; against a DELETE only the
\* state document it leaves, so this may fail when things are not orderly.
AuthorizedOnlyIfApproved ==
  Orderly =>
    \A u \in User : subs[u].authorized /\ subs[u].kind \in {"reader", "writer"} =>
                       u \in hist.approved

\* No reader's branch, nor the author's, has a keyload for a key whose revoke
\* removed the subscription: neither the calls an earlier operation left in the
\* queue nor the subscriptions they authorize bring it back.  It takes the same
\* order, and fails with the former: a subscription that such a call authorizes
\* during a revoke is not among the branches that the revoke renews.
RevokedKeyExcluded ==
  Orderly =>
    \A k \in hist.revoked : \A m \in Readers \cup {Author} : k \notin keyload[m]

\* Between the author's operations every reader can read every reader's and the
\* author's branch, as long as no operation failed half-way.
ReadersCovered ==
  AuthorIdle /\ ~hist.failed =>
    \A u \in Readers : \A m \in Readers \cup {Author} : subs[u].key \in keyload[m]

\* Between the author's operations the two lists of the channel agree with the
\* subscriptions, as long as its entry is there, unless an operation failed
\* half-way, a list was written from a stale copy, or an author's operation
\* overlapped with a request of the user it was for.
\* Subscriptions by pre-shared key are listed as requested, authorized or not.
ListsAgree ==
  AuthorIdle /\ channelExists /\ ~hist.failed /\ ~hist.raced =>
    \A u \in User : req[u].pc \in {"none", "addData"} =>
      /\ u \in subscriberIds <=> subs[u].authorized /\ subs[u].kind # "psk"
      /\ u \in requestedIds <=> Live(u) /\ (~subs[u].authorized \/ subs[u].kind = "psk")

\* Each subscription has a state to read the channel with, except while its
\* revoke removes the two or when an operation failed half-way.
StateBacked ==
  \A u \in User : Live(u) /\ ~hist.failed =>
    u \in stateDocs \/ (op.pc = "delSub" /\ op.who = u)

\* The logs of a user whose subscription was revoked are gone, unless getLogs
\* was between its two writes or the revoke failed half-way.
LogsPurged ==
  \A u \in cached : \/ u \in stateDocs \cup hist.late
                    \/ hist.failed
                    \/ op.who = u /\ op.pc \in {"delSub", "delData"}

\* Between the author's operations its state opens with the password of the
\* channel's type, unless an operation failed half-way: then the next authorize,
\* revoke and log can be carried out.
AuthorStateReadable == AuthorIdle /\ ~hist.failed => authorPassword = OwnPassword

\* An authorize or revoke ends, whatever keyloads of earlier ones are pending.
AuthorHandlerEnds == ~AuthorIdle ~> AuthorIdle

\* Every keyload call is served, those that nobody awaits any more included.
KeyloadsServed == []<>(queue = << >>)

\* What the comment in revokeSubscription says of the existing branches: their
\* keyloads do not include the revoked key.
RevokedKeyOnNoBranch ==
  \A k \in hist.revoked : \A u \in User : subs[u].authorized => k \notin keyload[u]

\* What the documentation says: the author can revoke at any time.
RevokeAtAnyTime ==
  AuthorIdle /\ channelExists => authorPassword = OwnPassword

\* What the documentation says: with the channel all subscriptions are deleted.
SubscriptionsGoWithChannel == ~channelExists => \A u \in User : ~Live(u)
=============================================================================
