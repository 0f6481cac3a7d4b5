--------------------------- MODULE ChannelCreation ---------------------------
(***************************************************************************)
(* How channels and the documents of their subscriptions come into being   *)
(* in the gateway (ChannelRoutes.createChannel, ChannelService.create,     *)
(* SubscriptionRoutes.requestSubscription and addSubscription), and how    *)
(* one of them is found again to be revoked.                               *)
(*                                                                         *)
(* A creation writes to the Tangle and then to three collections without a *)
(* transaction: the subscription's state, the subscription and the         *)
(* channel.  Any step may fail and the process may die between two steps.  *)
(* What a revocation does to the channel is in Subscriptions.              *)
(***************************************************************************)
EXTENDS Naturals, Sequences, SequencesExt

CONSTANTS User,
          Address,   \* addresses of channels, on the Tangle
          Text,      \* names of channels
          Found,     \* the names in which a text is found (a regex, case ignored)
          Kind,      \* kinds of channel of this instance: "private", "public"
          Key,       \* public keys of Streams users
          KeyOf,     \* the key that a user's seed gives
          AuthorKey, \* the key of an author, whose seed is a fresh one
          NoTask,
          Event      \* what else may happen in this instance

VARIABLES announced,  \* addresses of channels on the Tangle
          states,     \* collection subscription-states: <<address, id>>
          subs,       \* collection subscriptions, in the order of insertion
          infos,      \* collection channel-info
          task        \* what a user's request is about

vars == <<announced, states, subs, infos, task>>

\* Every subscriber's message on the Tangle has a link of its own.
OwnLink(a, u) == <<a, u>>

Docs == Range(subs)

\* Variant that a property must tell apart: it is looked up by its link.
HasOwnLink(a, u) == \E d \in Docs : d.link = OwnLink(a, u)

HasSub(a, u) == \E d \in Docs : d.address = a /\ d.id = u
HasKey(a, k) == \E d \in Docs : d.address = a /\ d.key = k

Init ==
  /\ announced = {}
  /\ states = {}
  /\ subs = <<>>
  /\ infos = {}
  /\ task = [u \in User |-> NoTask]

Step(u, step) == task' = [task EXCEPT ![u].step = step]
Done(u) == task' = [task EXCEPT ![u] = NoTask]
At(u, step) == task[u] # NoTask /\ task[u].step = step

-----------------------------------------------------------------------------
(* Variants of the code that a property must tell apart from it.           *)

\* the channel's entry is written before the subscription of its author.
InfoFirst(u) ==
  /\ At(u, "addState")
  /\ Step(u, "addSub")
  /\ states' = states \cup {<<task[u].address, u>>}
  /\ IF task[u].what # "create" THEN UNCHANGED infos ELSE
     infos' = infos \cup {[address |-> task[u].address, author |-> u, name |-> task[u].name,
                              kind |-> task[u].kind]}
  /\ UNCHANGED <<announced, subs>>

\* there is no unique index on the names.
AddAnyInfo(u) ==
  /\ At(u, "addInfo")
  /\ infos' = infos \cup {[address |-> task[u].address, author |-> u, name |-> task[u].name,
                              kind |-> task[u].kind]}
  /\ Done(u)
  /\ UNCHANGED <<announced, states, subs>>

\* the first subscription of the channel is taken.
FirstOf(d, link) ==
  \E n \in DOMAIN subs : /\ d = subs[n]
                         /\ \A m \in 1 .. (n - 1) : subs[m].address # d.address

-----------------------------------------------------------------------------
(* POST /channels/create.                                                  *)

\* channelExists: a name that is found in another one exists.
Exists(name) == \E i \in infos : i.name \in Found[name]

CheckName(u, name, kind) ==
  /\ task[u] = NoTask
  /\ task' = [task EXCEPT ![u] =
       [what |-> "create", step |-> IF Exists(name) THEN "conflict" ELSE "announce",
        name |-> name, kind |-> kind]]
  /\ UNCHANGED <<announced, states, subs, infos>>

\* The answer CONFLICT, 'channel already exists'.
Conflict(u) ==
  /\ At(u, "conflict")
  /\ Done(u)
  /\ UNCHANGED <<announced, states, subs, infos>>

\* StreamsService.create: the author's seed is new, so is the address.
Announce(u) ==
  /\ At(u, "announce")
  /\ \E a \in Address \ announced :
       /\ announced' = announced \cup {a}
       /\ task' = [task EXCEPT ![u] =
            [what |-> "create", step |-> "addState", name |-> task[u].name, address |-> a,
             kind |-> task[u].kind, link |-> a, key |-> AuthorKey]]
  /\ UNCHANGED <<states, subs, infos>>

\* addSubscriptionState: its _id is made of the address and the user's.
AddState(u) ==
  /\ At(u, "addState")
  /\ LET s == <<task[u].address, u>> IN
     IF s \in states
     THEN Done(u) /\ UNCHANGED states
     ELSE states' = states \cup {s} /\ Step(u, "addSub")
  /\ UNCHANGED <<announced, subs, infos>>

\* addSubscription, whose _id is the same.
AddSub(u) ==
  /\ At(u, "addSub")
  /\ LET t == task[u] IN
     IF HasSub(t.address, u)
     THEN Done(u) /\ UNCHANGED subs
     ELSE /\ subs' = Append(subs, [address |-> t.address, id |-> u, link |-> t.link,
                                   key |-> t.key, author |-> t.what = "create"])
          /\ IF t.what = "create" THEN Step(u, "addInfo") ELSE Done(u)
  /\ UNCHANGED <<announced, states, infos>>

\* addChannelInfo: names are unique (DatabaseSeeder).
AddInfo(u) ==
  /\ At(u, "addInfo")
  /\ LET t == task[u] IN
     IF \E i \in infos : i.name = t.name \/ i.address = t.address
     THEN UNCHANGED infos
     ELSE infos' = infos \cup {[address |-> t.address, author |-> u, name |-> t.name,
                                kind |-> t.kind]}
  /\ Done(u)
  /\ UNCHANGED <<announced, states, subs>>

-----------------------------------------------------------------------------
(* Subscriptions of others.                                                *)

\* The subscription is the user's first one.  In a public channel it has the
\* channel's address for a link.
Request(u, what) ==
  /\ task[u] = NoTask
  /\ \E i \in infos :
       /\ ~HasSub(i.address, u)
       /\ task' = [task EXCEPT ![u] =
            [what |-> what, step |-> "checkKey", name |-> i.name, address |-> i.address,
             kind |-> i.kind, key |-> KeyOf[u],
             link |-> IF i.kind = "public" THEN i.address ELSE OwnLink(i.address, u)]]
  /\ UNCHANGED <<announced, states, subs, infos>>

\* 'public key already used'.  The POST route stores no state.
CheckKey(u) ==
  /\ At(u, "checkKey")
  /\ IF HasKey(task[u].address, task[u].key)
     THEN Done(u)
     ELSE Step(u, IF task[u].what = "request" THEN "addState" ELSE "addSub")
  /\ UNCHANGED <<announced, states, subs, infos>>

\* getSubscriptionByLink finds the first document with the link, in
\* whatever channel.
ByLink(d, link) ==
  \E n \in DOMAIN subs : /\ d = subs[n] /\ d.link = link
                         /\ \A m \in 1 .. (n - 1) : subs[m].link # link

\* What is removed is the channel's document with the id that was found.
RemoveSub(a, u) ==
  /\ states' = states \ {<<a, u>>}
  /\ \/ ~HasSub(a, u) /\ UNCHANGED subs
     \/ \E n \in DOMAIN subs : subs[n].address = a /\ subs[n].id = u /\ subs' = RemoveAt(subs, n)
  /\ UNCHANGED <<announced, infos, task>>

\* POST revoke, by the author, for a subscriber's id or the link that the
\* subscriber's document has.
Revoke(i, d) ==
  /\ HasSub(i.address, i.author)
  /\ d.address = i.address /\ ~d.author
  /\ \/ RemoveSub(i.address, d.id)
     \/ "link" \in Event /\ \E e \in Docs : ByLink(e, d.link) /\ RemoveSub(i.address, e.id)

-----------------------------------------------------------------------------
\* A step throws, or the process dies.
Fail(u) ==
  /\ "fail" \in Event
  /\ task[u] # NoTask
  /\ Done(u)
  /\ UNCHANGED <<announced, states, subs, infos>>

Next ==
  \/ \E u \in User :
       \/ \E name \in Text, kind \in Kind : CheckName(u, name, kind)
       \/ Conflict(u) \/ Announce(u) \/ AddState(u) \/ AddSub(u) \/ AddInfo(u)
       \/ \E what \in {"request", "add"} : Request(u, what)
       \/ CheckKey(u) \/ Fail(u)
  \/ \E i \in infos, d \in Docs : Revoke(i, d)

Spec == Init /\ [][Next]_vars

-----------------------------------------------------------------------------
(* Properties.                                                             *)

Document == [address : Address, id : User, link : Address \cup (Address \X User),
             key : Key \cup {AuthorKey}, author : BOOLEAN]

Task ==
  [what : {"create"}, step : {"conflict", "announce"}, name : Text, kind : Kind]
  \cup [what : {"create", "request", "add"}, step : {"checkKey", "addState", "addSub", "addInfo"},
        name : Text, kind : Kind, address : Address, link : Address \cup (Address \X User),
        key : Key \cup {AuthorKey}]

TypeOK ==
  /\ announced \subseteq Address
  /\ states \subseteq announced \X User
  /\ subs \in Seq(Document)
  /\ \A d \in Docs : d.address \in announced
  /\ \A m, n \in DOMAIN subs :
       subs[m].address = subs[n].address /\ subs[m].id = subs[n].id => m = n
  /\ infos \subseteq [address : announced, author : User, name : Text, kind : Kind]
  /\ task \in [User -> Task \cup {NoTask}]

\* However the creations of two users interleave and fail, a name belongs
\* to one channel.
NameIsUnique == \A i, j \in infos : i.name = j.name => i = j

\* A channel that can be found has an author who can write to it and
\* authorize others, although it is the last of four things created and
\* subscriptions are revoked.  (In a public channel, where all documents
\* have the same link, a revoke by link finds the author's.)
AuthorHasChannel ==
  \A i \in infos : i.kind = "private" \/ "link" \notin Event =>
    /\ <<i.address, i.author>> \in states
    /\ \E d \in Docs : d.address = i.address /\ d.id = i.author /\ d.author
===============================================================================
