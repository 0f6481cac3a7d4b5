----------------------------- MODULE GatewayProofs -----------------------------
(***************************************************************************)
(* What module Gateway promises of its parts, for all their constants.     *)
(*                                                                         *)
(* Each part has an inductive invariant of its own.  ValuesInv: a message  *)
(* is a log that was sent, and an unchanged copy is what the database      *)
(* keeps of one.  CreationInv: what each request that is under way has     *)
(* written so far, that nobody else's channel has its address, and which   *)
(* link each document has.  SearchInv: who pages has seen what is, by now, *)
(* on the pages so far; a change of the channels moves none of those he    *)
(* watches to an earlier place (PlaceKept).                                *)
(***************************************************************************)
EXTENDS Gateway, FiniteSetTheorems, SequenceTheorems, TLAPS

-----------------------------------------------------------------------------
(* The values of logs.                                                     *)

\* A message is a log that was sent, and a copy nobody changed is one.
ValuesInv ==
  /\ Values!TypeOK
  /\ \A l \in LogLink : /\ written[l] = Nothing <=> sent[l] = Nothing
                        /\ written[l] # Nothing => written[l] = Values!GetPayloads(sent[l])
  /\ \A u \in Member, l \in LogLink : copies[u][l] # Nothing =>
       /\ written[l] # Nothing
       /\ <<u, l>> \notin changed => copies[u][l] = Values!AddChannelData(sent[l])

\* What is read from the Tangle is what was sent, field by field.
LEMMA RoundTrip ==
  ASSUME NEW log \in Values!Log
  PROVE  /\ Values!GetPayloads(log) \in Values!Message
         /\ Values!GetChannelLog(Values!GetPayloads(log)) = log
BY DEF Values!Log, Values!Message, Values!GetPayloads, Values!GetChannelLog

\* What the database keeps of a log is a log.
LEMMA KeptLog ==
  ASSUME NEW log \in Values!Log
  PROVE  /\ Values!AddChannelData(log) \in Values!Log
         /\ Values!AddChannelData(log).metadata = log.metadata
         /\ Values!AddChannelData(log).publicPayload = log.publicPayload
         /\ Values!AddChannelData(log).payload =
              IF log.payload \in {Zero, Null, Undefined} THEN Null ELSE log.payload
BY ValueAssumption DEF Values!Log, Values!AddChannelData, Values!Falsy

\* What a client gets of it.
LEMMA GivenLog ==
  ASSUME NEW log \in Values!Log
  PROVE  /\ Values!GetChannelData(log) \in Values!Log
         /\ Values!GetChannelData(log).metadata = log.metadata
         /\ Values!GetChannelData(log).publicPayload = log.publicPayload
         /\ Values!GetChannelData(log).payload =
              IF log.payload = Null THEN Undefined ELSE log.payload
BY ValueAssumption DEF Values!Log, Values!GetChannelData

\* Nothing is no message and no log.
LEMMA NoLogs ==
  /\ Nothing \notin Values!Log /\ Nothing \notin Values!Message
BY NothingAssumption

LEMMA ValuesInit == Values!Init => ValuesInv
BY DEF Values!Init, ValuesInv, Values!TypeOK

\* A message that is imported is the copy of what was sent.
LEMMA ImportedLog ==
  ASSUME ValuesInv, NEW l \in LogLink
  PROVE  /\ Values!Imported(written[l]) \in Values!Log \cup {Nothing}
         /\ Values!Imported(written[l]) # Nothing =>
              /\ written[l] # Nothing
              /\ Values!Imported(written[l]) = Values!AddChannelData(sent[l])
<1>1. CASE written[l] = Nothing
  BY <1>1 DEF Values!Imported
<1>2. CASE written[l] # Nothing
  <2>1. sent[l] \in Values!Log /\ written[l] = Values!GetPayloads(sent[l])
    BY <1>2 DEF ValuesInv, Values!TypeOK
  <2>2. Values!Imported(written[l]) = Values!AddChannelData(sent[l])
    BY <1>2, <2>1, RoundTrip DEF Values!Imported
  <2> QED
    BY <1>2, <2>1, <2>2, KeptLog
<1> QED
  BY <1>1, <1>2

LEMMA ValuesStep == ValuesInv /\ [Values!Next]_Values!vars => ValuesInv'
<1> SUFFICES ASSUME ValuesInv, [Values!Next]_Values!vars PROVE ValuesInv'
  OBVIOUS
<1>t. /\ written \in [LogLink -> Values!Message \cup {Nothing}]
      /\ copies \in [Member -> [LogLink -> Values!Log \cup {Nothing}]]
      /\ sent \in [LogLink -> Values!Log \cup {Nothing}]
      /\ changed \subseteq Member \X LogLink
  BY DEF ValuesInv, Values!TypeOK
<1>i. /\ \A l \in LogLink : /\ written[l] = Nothing <=> sent[l] = Nothing
                            /\ written[l] # Nothing => written[l] = Values!GetPayloads(sent[l])
      /\ \A u \in Member, l \in LogLink : copies[u][l] # Nothing =>
           /\ written[l] # Nothing
           /\ <<u, l>> \notin changed => copies[u][l] = Values!AddChannelData(sent[l])
  BY DEF ValuesInv
<1>1. ASSUME NEW l \in LogLink, NEW log \in Values!Log, Values!AddLog(l, log)
      PROVE  ValuesInv'
  <2> DEFINE message == Values!GetPayloads(log)
             copy == Values!AddChannelData(log)
  <2>1. /\ written[l] = Nothing
        /\ written' = [written EXCEPT ![l] = message]
        /\ copies' = [copies EXCEPT ![Writer][l] = copy]
        /\ sent' = [sent EXCEPT ![l] = log]
        /\ changed' = changed
    BY <1>1 DEF Values!AddLog
  <2>2. /\ message \in Values!Message /\ message # Nothing
        /\ copy \in Values!Log /\ log # Nothing
    BY RoundTrip, KeptLog, NoLogs
  <2> HIDE DEF message, copy
  <2>3. /\ written' \in [LogLink -> Values!Message \cup {Nothing}]
        /\ sent' \in [LogLink -> Values!Log \cup {Nothing}]
        /\ \A k \in LogLink : /\ written'[k] = IF k = l THEN message ELSE written[k]
                              /\ sent'[k] = IF k = l THEN log ELSE sent[k]
    BY <1>t, <2>1, <2>2
  <2>4. /\ copies' \in [Member -> [LogLink -> Values!Log \cup {Nothing}]]
        /\ \A u \in Member, k \in LogLink :
             copies'[u][k] = IF u = Writer /\ k = l THEN copy ELSE copies[u][k]
    BY <1>t, <2>1, <2>2, ValueAssumption
  <2>5. Values!TypeOK'
    BY <1>t, <2>1, <2>3, <2>4 DEF Values!TypeOK
  <2>6. \A k \in LogLink : /\ written'[k] = Nothing <=> sent'[k] = Nothing
                           /\ written'[k] # Nothing => written'[k] = Values!GetPayloads(sent'[k])
    BY <1>i, <2>2, <2>3 DEF message
  <2>7. ASSUME NEW u \in Member, NEW k \in LogLink, copies'[u][k] # Nothing
        PROVE  /\ written'[k] # Nothing
               /\ <<u, k>> \notin changed' => copies'[u][k] = Values!AddChannelData(sent'[k])
    <3>1. CASE k = l
      <4>1. copies[u][l] = Nothing
        BY <1>i, <2>1
      <4> QED
        BY <3>1, <4>1, <2>2, <2>3, <2>4, <2>7 DEF copy
    <3>2. CASE k # l
      BY <1>i, <2>1, <2>3, <2>4, <2>7, <3>2
    <3> QED
      BY <3>1, <3>2
  <2> QED
    BY <2>5, <2>6, <2>7 DEF ValuesInv
<1>2. ASSUME NEW u \in Member, Values!FetchLogs(u)
      PROVE  ValuesInv'
  <2>1. /\ copies' = [copies EXCEPT ![u] = [l \in LogLink |->
              IF copies[u][l] = Nothing THEN Values!Imported(written[l]) ELSE copies[u][l]]]
        /\ written' = written /\ sent' = sent /\ changed' = changed
    BY <1>2 DEF Values!FetchLogs
  <2>2. /\ copies' \in [Member -> [LogLink -> Values!Log \cup {Nothing}]]
        /\ \A v \in Member, l \in LogLink :
             copies'[v][l] = IF v = u /\ copies[u][l] = Nothing
                             THEN Values!Imported(written[l]) ELSE copies[v][l]
    BY <1>t, <2>1, ImportedLog
  <2> QED
    BY <1>t, <1>i, <2>1, <2>2, ImportedLog DEF ValuesInv, Values!TypeOK
<1>3. ASSUME NEW u \in Member, Values!Reimport(u)
      PROVE  ValuesInv'
  <2>1. /\ copies' = [copies EXCEPT ![u] = [l \in LogLink |-> Values!Imported(written[l])]]
        /\ changed' = {p \in changed : p[1] # u}
        /\ written' = written /\ sent' = sent
    BY <1>3 DEF Values!Reimport
  <2>2. /\ copies' \in [Member -> [LogLink -> Values!Log \cup {Nothing}]]
        /\ \A v \in Member, l \in LogLink :
             copies'[v][l] = IF v = u THEN Values!Imported(written[l]) ELSE copies[v][l]
    BY <1>t, <2>1, ImportedLog
  <2>3. /\ changed' \subseteq Member \X LogLink
        /\ \A v \in Member, l \in LogLink : v # u => (<<v, l>> \in changed' <=> <<v, l>> \in changed)
    BY <1>t, <2>1
  <2> QED
    BY <1>t, <1>i, <2>1, <2>2, <2>3, ImportedLog DEF ValuesInv, Values!TypeOK
<1>4. ASSUME NEW u \in Member, NEW l \in LogLink, NEW log \in Values!Log,
             Values!ChangeCopy(u, l, log)
      PROVE  ValuesInv'
  <2> DEFINE copy == Values!AddChannelData(log)
  <2>1. /\ copies[u][l] # Nothing
        /\ changed = {}
        /\ copies' = [copies EXCEPT ![u][l] = copy]
        /\ changed' = {<<u, l>>}
        /\ written' = written /\ sent' = sent
    BY <1>4 DEF Values!ChangeCopy
  <2>2. copy \in Values!Log
    BY KeptLog
  <2> HIDE DEF copy
  <2>3. /\ copies' \in [Member -> [LogLink -> Values!Log \cup {Nothing}]]
        /\ \A v \in Member, k \in LogLink :
             copies'[v][k] = IF v = u /\ k = l THEN copy ELSE copies[v][k]
    BY <1>t, <2>1, <2>2
  <2> QED
    BY <1>t, <1>i, <2>1, <2>3 DEF ValuesInv, Values!TypeOK
<1>5. CASE UNCHANGED Values!vars
  BY <1>5 DEF ValuesInv, Values!TypeOK, Values!vars
<1> QED
  BY <1>1, <1>2, <1>3, <1>4, <1>5 DEF Values!Next

\* A log is valid when it differs from what was sent by nothing that counts.
LEMMA Judged ==
  ASSUME ValuesInv, NEW u \in Member, NEW l \in LogLink, copies[u][l] # Nothing
  PROVE  /\ sent[l] \in Values!Log
         /\ Values!GetChannelData(copies[u][l]) \in Values!Log
         /\ Values!ValidateCopy(u, l) = "valid" <=>
              Values!Omit(Values!GetChannelData(copies[u][l])) = Values!Omit(sent[l])
<1>1. /\ written[l] # Nothing /\ written[l] = Values!GetPayloads(sent[l])
      /\ sent[l] \in Values!Log /\ copies[u][l] \in Values!Log
  <2>1. written[l] # Nothing
    BY DEF ValuesInv
  <2>2. sent[l] # Nothing /\ written[l] = Values!GetPayloads(sent[l])
    BY <2>1 DEF ValuesInv
  <2>3. sent[l] \in Values!Log \cup {Nothing} /\ copies[u][l] \in Values!Log \cup {Nothing}
    BY DEF ValuesInv, Values!TypeOK
  <2> QED
    BY <2>1, <2>2, <2>3
<1>2. Values!GetChannelLog(written[l]) = sent[l]
  BY <1>1, RoundTrip
<1>3. Values!GetChannelData(copies[u][l]) \in Values!Log
  BY <1>1, GivenLog
<1> QED
  BY <1>1, <1>2, <1>3 DEF Values!ValidateCopy, Values!Verdict

\* Logs without their nulls are the same when they say the same.
LEMMA SameWithoutNulls ==
  ASSUME NEW a \in Values!Log, NEW b \in Values!Log
  PROVE  Values!Omit(a) = Values!Omit(b) <=> Values!SameData(a, b)
<1>1. /\ DOMAIN a = {"metadata", "publicPayload", "payload"}
      /\ DOMAIN b = {"metadata", "publicPayload", "payload"}
  BY DEF Values!Log
<1>2. /\ DOMAIN Values!Omit(a) = DOMAIN a /\ DOMAIN Values!Omit(b) = DOMAIN a
      /\ Values!Omit(a) = [f \in DOMAIN a |-> IF a[f] = Null THEN Undefined ELSE a[f]]
      /\ Values!Omit(b) = [f \in DOMAIN a |-> IF b[f] = Null THEN Undefined ELSE b[f]]
  BY <1>1 DEF Values!Omit
<1>3. \A f \in DOMAIN a : Values!Omit(a)[f] = Values!Omit(b)[f]
        <=> a[f] = b[f] \/ {a[f], b[f]} \subseteq {Null, Undefined}
  BY <1>2
<1>4. ASSUME \A f \in DOMAIN a : Values!Omit(a)[f] = Values!Omit(b)[f]
      PROVE  Values!Omit(a) = Values!Omit(b)
  <2>1. \A f \in DOMAIN a : (IF a[f] = Null THEN Undefined ELSE a[f])
                            = (IF b[f] = Null THEN Undefined ELSE b[f])
    BY <1>2, <1>4
  <2> QED
    BY <1>2, <2>1
<1> QED
  BY <1>3, <1>4 DEF Values!SameData

\* The properties follow from what copies are.
LEMMA ValuesImply == ValuesInv => LogsHold
<1> SUFFICES ASSUME ValuesInv PROVE LogsHold
  OBVIOUS
<1>1. Values!ValidIsAsSent
  BY Judged, SameWithoutNulls DEF Values!ValidIsAsSent
<1>2. ASSUME NEW u \in Member, NEW l \in LogLink, copies[u][l] # Nothing, <<u, l>> \notin changed
      PROVE  /\ sent[l] \in Values!Log
             /\ Values!GetChannelData(copies[u][l]) =
                  Values!GetChannelData(Values!AddChannelData(sent[l]))
  BY <1>2, Judged DEF ValuesInv
<1>3. ASSUME NEW u \in Member, NEW l \in LogLink, copies[u][l] # Nothing, <<u, l>> \notin changed,
             sent[l].payload # Zero
      PROVE  Values!ValidateCopy(u, l) = "valid"
  <2> DEFINE b == Values!AddChannelData(sent[l])
             a == Values!GetChannelData(b)
  <2>1. /\ sent[l] \in Values!Log /\ a \in Values!Log
        /\ a.metadata = sent[l].metadata /\ a.publicPayload = sent[l].publicPayload
        /\ a.payload = sent[l].payload \/ {a.payload, sent[l].payload} \subseteq {Null, Undefined}
    BY <1>2, <1>3, KeptLog, GivenLog
  <2>2. Values!SameData(a, sent[l])
    BY <2>1 DEF Values!SameData, Values!Log
  <2> QED
    BY <1>2, <1>3, <2>1, <2>2, Judged, SameWithoutNulls
<1>4. Values!UntouchedIsValid
  BY <1>3 DEF Values!UntouchedIsValid
<1>5. Values!CopiesAgree
  BY <1>2 DEF Values!CopiesAgree, Values!SameData
<1> QED
  BY <1>1, <1>4, <1>5 DEF LogsHold, ValuesInv

\* What validation says of the copies of a log is true, and all copies that
\* nobody changed say what was sent, for any values, users and logs
\* (validateLogs, addChannelData, reimport).
THEOREM SpecLogsHold == Values!Spec => []LogsHold
<1>1. Values!Spec => []ValuesInv
  BY ValuesInit, ValuesStep, PTL DEF Values!Spec
<1> QED
  BY <1>1, ValuesImply, PTL

-----------------------------------------------------------------------------
(* The creation of channels.                                               *)

Doc == Creation!Document

\* What a request is about before and after it has an address.
Asked == [what : {"create"}, step : {"conflict", "announce"}, name : Text, kind : Kind]

Made == [what : {"create", "request", "add"}, step : {"checkKey", "addState", "addSub", "addInfo"},
         name : Text, kind : Kind, address : Address, link : Address \cup (Address \X Member),
         key : Key \cup {AuthorKey}]

\* The document by which the author of a channel is found.
Authored(a, u) == \E d \in Creation!Docs : d.address = a /\ d.id = u /\ d.author

\* A link is the channel's address, or the subscriber's own in a channel
\* that may be private.
Linked(a, u, link) ==
  \E i \in infos : /\ i.address = a
                   /\ (i.kind = "public" /\ link = a) \/ link = Creation!OwnLink(a, u)

\* A channel that is being created is nobody else's and not found yet; its
\* author has the state, then the subscription.
Creating(u) ==
  /\ request[u].step # "checkKey"
  /\ request[u].address \in announced /\ request[u].link = request[u].address
  /\ \A i \in infos : i.address # request[u].address
  /\ \A v \in Member : v # u /\ request[v] \in Made => request[v].address # request[u].address
  /\ request[u].step \in {"addSub", "addInfo"} => <<request[u].address, u>> \in stateIds
  /\ request[u].step = "addInfo" => Authored(request[u].address, u)

\* A subscription is one of a channel that is found.
Subscribing(u) ==
  /\ request[u].step # "addInfo"
  /\ Linked(request[u].address, u, request[u].link)

\* Which documents there are.
Documented ==
  /\ \A i, j \in infos : i.address = j.address => i = j
  /\ \A d \in Creation!Docs : /\ d.author => d.link = d.address
                              /\ ~d.author => Linked(d.address, d.id, d.link)

CreationInv ==
  /\ Creation!TypeOK
  /\ Creation!NameIsUnique
  /\ Creation!AuthorHasChannel
  /\ Documented
  /\ \A u \in Member : request[u] \in Made =>
       /\ request[u].what = "create" => Creating(u)
       /\ request[u].what # "create" => Subscribing(u)

LEMMA CreationInit == Creation!Init => CreationInv
<1> SUFFICES ASSUME Creation!Init PROVE CreationInv
  OBVIOUS
<1>1. /\ announced = {} /\ stateIds = {} /\ subs = <<>> /\ infos = {}
      /\ request = [u \in Member |-> Nothing]
  BY DEF Creation!Init
<1>2. Creation!Docs = {}
  BY <1>1 DEF Creation!Docs, Creation!Range
<1>3. Nothing \notin Made
  BY NothingAssumption DEF Made, Creation!Task
<1> QED
  BY <1>1, <1>2, <1>3
     DEF CreationInv, Creation!TypeOK, Creation!NameIsUnique, Creation!AuthorHasChannel, Documented

\* Removing one element of a sequence.
LEMMA RemovedAt ==
  ASSUME NEW S, NEW s \in Seq(S), NEW n \in 1 .. Len(s)
  PROVE  /\ Creation!RemoveAt(s, n) \in Seq(S)
         /\ Len(Creation!RemoveAt(s, n)) = Len(s) - 1
         /\ \A k \in 1 .. (Len(s) - 1) :
              Creation!RemoveAt(s, n)[k] = IF k < n THEN s[k] ELSE s[k + 1]
<1> DEFINE a == SubSeq(s, 1, n - 1)
           b == SubSeq(s, n + 1, Len(s))
<1>1. a \in Seq(S) /\ Len(a) = n - 1 /\ \A k \in 1 .. (n - 1) : a[k] = s[k]
  OBVIOUS
<1>2. b \in Seq(S) /\ Len(b) = Len(s) - n /\ \A k \in 1 .. (Len(s) - n) : b[k] = s[n + k]
  OBVIOUS
<1>3. Creation!RemoveAt(s, n) = a \o b
  BY DEF Creation!RemoveAt
<1> HIDE DEF a, b
<1>4. /\ a \o b \in Seq(S) /\ Len(a \o b) = Len(s) - 1
      /\ \A k \in 1 .. (Len(s) - 1) :
           (a \o b)[k] = IF k <= n - 1 THEN a[k] ELSE b[k - (n - 1)]
  BY <1>1, <1>2
<1>5. \A k \in 1 .. (Len(s) - 1) : (a \o b)[k] = IF k < n THEN s[k] ELSE s[k + 1]
  <2> SUFFICES ASSUME NEW k \in 1 .. (Len(s) - 1)
               PROVE  (a \o b)[k] = IF k < n THEN s[k] ELSE s[k + 1]
    OBVIOUS
  <2>1. CASE k < n
    BY <1>1, <1>4, <2>1
  <2>2. CASE ~(k < n)
    <3>1. k - (n - 1) \in 1 .. (Len(s) - n) /\ n + (k - (n - 1)) = k + 1
      BY <2>2
    <3> QED
      BY <1>2, <1>4, <2>2, <3>1
  <2> QED
    BY <2>1, <2>2
<1> QED
  BY <1>3, <1>4, <1>5

\* The documents when one is added, and when one is removed.
DocsUnique(s) ==
  \A m, n \in DOMAIN s : s[m].address = s[n].address /\ s[m].id = s[n].id => m = n

LEMMA DocAdded ==
  ASSUME CreationInv, NEW d \in Doc, ~Creation!HasSub(d.address, d.id), subs' = Append(subs, d)
  PROVE  subs' \in Seq(Doc) /\ Creation!Docs' = Creation!Docs \cup {d} /\ DocsUnique(subs')
<1>1. subs \in Seq(Doc) /\ DocsUnique(subs)
  BY DEF CreationInv, Creation!TypeOK, DocsUnique, Doc
<1>2. /\ subs' \in Seq(Doc) /\ Len(subs') = Len(subs) + 1 /\ Len(subs) \in Nat
      /\ \A k \in 1 .. Len(subs) : subs'[k] = subs[k]
      /\ subs'[Len(subs) + 1] = d
  BY <1>1
<1>3. \A k \in 1 .. Len(subs) : subs[k].address # d.address \/ subs[k].id # d.id
  BY <1>1 DEF Creation!HasSub, Creation!Docs, Creation!Range
<1>4. Creation!Docs = {subs[k] : k \in 1 .. Len(subs)}
  BY <1>1 DEF Creation!Docs, Creation!Range
<1>5. Creation!Docs' = {subs'[k] : k \in 1 .. (Len(subs) + 1)}
  BY <1>2 DEF Creation!Docs, Creation!Range
<1>6. Creation!Docs' = Creation!Docs \cup {d}
  BY <1>2, <1>4, <1>5
<1>7. DOMAIN subs = 1 .. Len(subs) /\ DOMAIN subs' = 1 .. (Len(subs) + 1)
  BY <1>1, <1>2
<1>8. DocsUnique(subs')
  <2> SUFFICES ASSUME NEW m \in 1 .. (Len(subs) + 1), NEW n \in 1 .. (Len(subs) + 1),
                      subs'[m].address = subs'[n].address, subs'[m].id = subs'[n].id
               PROVE  m = n
    BY <1>7 DEF DocsUnique
  <2>1. CASE m \in 1 .. Len(subs) /\ n \in 1 .. Len(subs)
    BY <1>1, <1>2, <1>7, <2>1 DEF DocsUnique
  <2>2. CASE m = Len(subs) + 1 \/ n = Len(subs) + 1
    BY <1>2, <1>3, <2>2
  <2> QED
    BY <1>2, <2>1, <2>2
<1> QED
  BY <1>2, <1>6, <1>8

LEMMA DocRemoved ==
  ASSUME CreationInv, NEW n \in DOMAIN subs, subs' = Creation!RemoveAt(subs, n)
  PROVE  subs' \in Seq(Doc) /\ Creation!Docs' = Creation!Docs \ {subs[n]} /\ DocsUnique(subs')
<1>1. subs \in Seq(Doc) /\ DocsUnique(subs) /\ DOMAIN subs = 1 .. Len(subs) /\ Len(subs) \in Nat
  BY DEF CreationInv, Creation!TypeOK, DocsUnique, Doc
<1>2. /\ subs' \in Seq(Doc) /\ Len(subs') = Len(subs) - 1
      /\ \A k \in 1 .. (Len(subs) - 1) : subs'[k] = IF k < n THEN subs[k] ELSE subs[k + 1]
  BY <1>1, RemovedAt
<1>3. DOMAIN subs' = 1 .. (Len(subs) - 1)
  BY <1>2
<1>4. DocsUnique(subs')
  <2> SUFFICES ASSUME NEW k \in DOMAIN subs', NEW m \in DOMAIN subs',
                      subs'[k].address = subs'[m].address, subs'[k].id = subs'[m].id
               PROVE  k = m
    BY DEF DocsUnique
  <2> DEFINE old(j) == IF j < n THEN j ELSE j + 1
  <2>1. /\ old(k) \in DOMAIN subs /\ old(m) \in DOMAIN subs
        /\ subs'[k] = subs[old(k)] /\ subs'[m] = subs[old(m)]
    BY <1>1, <1>2, <1>3
  <2>2. old(k) = old(m)
    BY <1>1, <2>1 DEF DocsUnique
  <2> QED
    BY <1>1, <1>3, <2>2
<1>5. ASSUME NEW d \in Creation!Docs'
      PROVE  d \in Creation!Docs \ {subs[n]}
  <2>1. PICK k \in 1 .. (Len(subs) - 1) : d = subs'[k]
    BY <1>3 DEF Creation!Docs, Creation!Range
  <2>2. PICK j \in 1 .. Len(subs) : d = subs[j] /\ j # n
    BY <1>1, <1>2, <2>1
  <2> QED
    BY <1>1, <2>2 DEF Creation!Docs, Creation!Range, DocsUnique
<1>6. ASSUME NEW d \in Creation!Docs \ {subs[n]}
      PROVE  d \in Creation!Docs'
  <2>1. PICK j \in 1 .. Len(subs) : d = subs[j] /\ j # n
    BY <1>1 DEF Creation!Docs, Creation!Range
  <2>2. \E k \in 1 .. (Len(subs) - 1) : subs'[k] = d
    <3>1. CASE j < n
      BY <1>1, <1>2, <2>1, <3>1
    <3>2. CASE j > n
      <4>1. j - 1 \in 1 .. (Len(subs) - 1) /\ ~(j - 1 < n) /\ (j - 1) + 1 = j
        BY <1>1, <2>1, <3>2
      <4> QED
        BY <1>2, <2>1, <4>1
    <3> QED
      BY <1>1, <2>1, <3>1, <3>2
  <2> QED
    BY <1>3, <2>2 DEF Creation!Docs, Creation!Range
<1> QED
  BY <1>2, <1>4, <1>5, <1>6

\* A step of u keeps what is true of the requests of the others.
LEMMA OthersKeep ==
  ASSUME CreationInv, NEW u \in Member, NEW v \in Member, u # v,
         \A w \in Member : w # u => request'[w] = request[w],
         announced \subseteq announced', infos \subseteq infos', stateIds \subseteq stateIds',
         Creation!Docs \subseteq Creation!Docs',
         request[v] \in Made,
         request[v].what = "create" =>
           /\ \A i \in infos' : i \in infos \/ i.address # request[v].address
           /\ request'[u] \in Made => request'[u].address # request[v].address
  PROVE  /\ request'[v].what = "create" => Creating(v)'
         /\ request'[v].what # "create" => Subscribing(v)'
<1>1. request'[v] = request[v]
  OBVIOUS
<1>2. CASE request[v].what = "create"
  <2>1. Creating(v)
    BY <1>2 DEF CreationInv
  <2>2. \A w \in Member : w # v /\ request'[w] \in Made => request'[w].address # request[v].address
    BY <1>2, <2>1 DEF Creating
  <2>3. \A i \in infos' : i.address # request[v].address
    BY <1>2, <2>1 DEF Creating
  <2>4. request[v].step = "addInfo" => Authored(request[v].address, v)'
    BY <2>1 DEF Creating, Authored
  <2>5. /\ request[v].step # "checkKey"
        /\ request[v].address \in announced' /\ request[v].link = request[v].address
        /\ request[v].step \in {"addSub", "addInfo"} => <<request[v].address, v>> \in stateIds'
    BY <2>1 DEF Creating
  <2> QED
    BY <1>1, <1>2, <2>2, <2>3, <2>4, <2>5 DEF Creating
<1>3. CASE request[v].what # "create"
  <2>1. Subscribing(v)
    BY <1>3 DEF CreationInv
  <2> QED
    BY <1>1, <1>3, <2>1 DEF Subscribing, Linked
<1> QED
  BY <1>1, <1>2, <1>3

\* The addresses of a request and of the channel another one creates.
LEMMA AddressesDiffer ==
  ASSUME CreationInv, NEW u \in Member, NEW v \in Member, u # v,
         request[v] \in Made, request[v].what = "create"
  PROVE  /\ request[u] \in Made => request[u].address # request[v].address
         /\ \A i \in infos : i.address # request[v].address
         /\ request[v].address \in announced
BY DEF CreationInv, Creating

\* A step of u that changes only its request.
LEMMA RequestMoves ==
  ASSUME CreationInv, NEW u \in Member, NEW t,
         request' = [request EXCEPT ![u] = t], t \in Creation!Task \cup {Nothing},
         UNCHANGED <<announced, stateIds, subs, infos>>,
         t \in Made =>
           /\ \A v \in Member : v # u /\ request[v] \in Made /\ request[v].what = "create"
                                => request[v].address # t.address
           /\ t.what = "create" => Creating(u)'
           /\ t.what # "create" => Subscribing(u)'
  PROVE  CreationInv'
<1>1. /\ request \in [Member -> Creation!Task \cup {Nothing}]
      /\ request' \in [Member -> Creation!Task \cup {Nothing}]
      /\ request'[u] = t
      /\ \A v \in Member : v # u => request'[v] = request[v]
  BY DEF CreationInv, Creation!TypeOK
<1>2. announced' = announced /\ stateIds' = stateIds /\ subs' = subs /\ infos' = infos
  OBVIOUS
<1>3. Creation!Docs' = Creation!Docs
  BY <1>2 DEF Creation!Docs, Creation!Range
<1>4. Creation!TypeOK' /\ Creation!NameIsUnique' /\ Creation!AuthorHasChannel' /\ Documented'
  BY <1>1, <1>2, <1>3
     DEF CreationInv, Creation!TypeOK, Creation!NameIsUnique, Creation!AuthorHasChannel,
         Documented, Linked
<1>5. ASSUME NEW v \in Member, v # u, request'[v] \in Made
      PROVE  /\ request'[v].what = "create" => Creating(v)'
             /\ request'[v].what # "create" => Subscribing(v)'
  <2>1. request[v] \in Made
    BY <1>1, <1>5
  <2>2. request[v].what = "create" =>
           /\ \A i \in infos' : i \in infos \/ i.address # request[v].address
           /\ request'[u] \in Made => request'[u].address # request[v].address
    BY <1>1, <1>2, <1>5, <2>1
  <2> QED
    BY <1>1, <1>2, <1>3, <1>5, <2>1, <2>2, OthersKeep
<1>6. \A v \in Member : request'[v] \in Made =>
        /\ request'[v].what = "create" => Creating(v)'
        /\ request'[v].what # "create" => Subscribing(v)'
  BY <1>1, <1>5
<1> QED
  BY <1>4, <1>6 DEF CreationInv

\* A request ends.
LEMMA RequestEnds ==
  ASSUME CreationInv, NEW u \in Member, Creation!Done(u),
         UNCHANGED <<announced, stateIds, subs, infos>>
  PROVE  CreationInv'
<1>1. request' = [request EXCEPT ![u] = Nothing]
  BY DEF Creation!Done
<1>2. Nothing \notin Made
  BY NothingAssumption DEF Made, Creation!Task
<1> QED
  BY <1>1, <1>2, RequestMoves

\* Which requests are at a step with an address.
LEMMA AtStep ==
  ASSUME CreationInv, NEW u \in Member, NEW s, Creation!At(u, s)
  PROVE  /\ request[u] \in Asked \cup Made /\ request[u].step = s
         /\ s \in {"checkKey", "addState", "addSub", "addInfo"} =>
              /\ request[u] \in Made
              /\ request[u].what = "create" => Creating(u)
              /\ request[u].what # "create" => Subscribing(u)
         /\ s \in {"conflict", "announce"} => request[u] \in Asked
<1>1. request[u] \in Creation!Task /\ request[u].step = s
  BY DEF CreationInv, Creation!TypeOK, Creation!At
<1>2. request[u] \in Asked \cup Made
  BY <1>1 DEF Creation!Task, Asked, Made
<1>3. s \in {"checkKey", "addState", "addSub", "addInfo"} => request[u] \in Made
  BY <1>1, <1>2 DEF Asked
<1>4. s \in {"conflict", "announce"} => request[u] \in Asked
  BY <1>1, <1>2 DEF Made
<1> QED
  BY <1>1, <1>2, <1>3, <1>4 DEF CreationInv

\* A request goes on to another step.
LEMMA Goes ==
  ASSUME CreationInv, NEW u \in Member, request[u] \in Made,
         NEW s \in {"checkKey", "addState", "addSub", "addInfo"}, Creation!Step(u, s)
  PROVE  \E t \in Made :
           /\ request' = [request EXCEPT ![u] = t] /\ t \in Creation!Task
           /\ t.step = s /\ t.what = request[u].what /\ t.address = request[u].address
           /\ t.link = request[u].link /\ t.kind = request[u].kind
           /\ t.name = request[u].name /\ t.key = request[u].key
<1> DEFINE t == [request[u] EXCEPT !.step = s]
<1>1. request' = [request EXCEPT ![u] = t]
  BY DEF Creation!Step, CreationInv, Creation!TypeOK
<1>2. /\ t \in Made
      /\ t.step = s /\ t.what = request[u].what /\ t.address = request[u].address
      /\ t.link = request[u].link /\ t.kind = request[u].kind
      /\ t.name = request[u].name /\ t.key = request[u].key
  BY DEF Made
<1>3. t \in Creation!Task
  BY <1>2 DEF Made, Creation!Task
<1> QED
  BY <1>1, <1>2, <1>3

\* The steps before there is an address, and those that only read.
LEMMA ReadSteps ==
  ASSUME CreationInv, NEW u \in Member,
         \/ \E name \in Text, kind \in Kind : Creation!CheckName(u, name, kind)
         \/ Creation!Conflict(u) \/ Creation!CheckKey(u) \/ Creation!Fail(u)
         \/ \E what \in {"request", "add"} : Creation!Request(u, what)
  PROVE  CreationInv'
<1>1. CASE \E name \in Text, kind \in Kind : Creation!CheckName(u, name, kind)
  <2>1. PICK name \in Text, kind \in Kind : Creation!CheckName(u, name, kind)
    BY <1>1
  <2>2. PICK s \in {"conflict", "announce"} :
          request' = [request EXCEPT ![u] =
            [what |-> "create", step |-> s, name |-> name, kind |-> kind]]
    BY <2>1 DEF Creation!CheckName
  <2> DEFINE t == [what |-> "create", step |-> s, name |-> name, kind |-> kind]
  <2>3. t \in Creation!Task /\ t \notin Made
    BY DEF Creation!Task, Made
  <2>4. UNCHANGED <<announced, stateIds, subs, infos>>
    BY <2>1 DEF Creation!CheckName
  <2> HIDE DEF t
  <2> QED
    BY <2>2, <2>3, <2>4, RequestMoves DEF t
<1>2. CASE Creation!Conflict(u)
  BY <1>2, RequestEnds DEF Creation!Conflict
<1>3. CASE Creation!CheckKey(u)
  <2>1. /\ Creation!At(u, "checkKey")
        /\ UNCHANGED <<announced, stateIds, subs, infos>>
    BY <1>3 DEF Creation!CheckKey
  <2>2. CASE Creation!Done(u)
    BY <2>1, <2>2, RequestEnds
  <2>3. CASE ~Creation!Done(u)
    <3>1. request[u] \in Made /\ request[u].what # "create" /\ Subscribing(u)
      BY <2>1, AtStep DEF Creating
    <3>2. PICK s \in {"addState", "addSub"} : Creation!Step(u, s)
      BY <1>3, <2>3 DEF Creation!CheckKey
    <3>3. PICK t \in Made :
            /\ request' = [request EXCEPT ![u] = t] /\ t \in Creation!Task
            /\ t.step = s /\ t.what = request[u].what /\ t.address = request[u].address
            /\ t.link = request[u].link
      BY <3>1, <3>2, Goes
    <3>4. request'[u] = t
      BY <3>3 DEF CreationInv, Creation!TypeOK
    <3>5. Subscribing(u)'
      BY <2>1, <3>1, <3>3, <3>4 DEF Subscribing, Linked
    <3>6. \A v \in Member : v # u /\ request[v] \in Made /\ request[v].what = "create"
                            => request[v].address # t.address
      BY <3>1, <3>3, AddressesDiffer
    <3> QED
      BY <2>1, <3>1, <3>3, <3>5, <3>6, RequestMoves
  <2> QED
    BY <2>2, <2>3
<1>4. CASE Creation!Fail(u)
  BY <1>4, RequestEnds DEF Creation!Fail
<1>5. CASE \E what \in {"request", "add"} : Creation!Request(u, what)
  <2>1. PICK what \in {"request", "add"} : Creation!Request(u, what)
    BY <1>5
  <2>2. PICK i \in infos :
          request' = [request EXCEPT ![u] =
            [what |-> what, step |-> "checkKey", name |-> i.name, address |-> i.address,
             kind |-> i.kind, key |-> KeyOf[u],
             link |-> IF i.kind = "public" THEN i.address
                      ELSE Creation!OwnLink(i.address, u)]]
    BY <2>1 DEF Creation!Request
  <2> DEFINE t == [what |-> what, step |-> "checkKey", name |-> i.name, address |-> i.address,
                   kind |-> i.kind, key |-> KeyOf[u],
                   link |-> IF i.kind = "public" THEN i.address
                            ELSE Creation!OwnLink(i.address, u)]
  <2>3. /\ i.name \in Text /\ i.address \in announced /\ i.address \in Address
        /\ i.kind \in Kind /\ KeyOf[u] \in Key
    <3>1. /\ i \in [address : announced, author : Member, name : Text, kind : Kind]
          /\ announced \subseteq Address
      BY DEF CreationInv, Creation!TypeOK
    <3> QED
      BY <3>1, CreationAssumption
  <2>4. t \in Made /\ t \in Creation!Task
    BY <2>3 DEF Made, Creation!Task, Creation!OwnLink
  <2>5. UNCHANGED <<announced, stateIds, subs, infos>>
    BY <2>1 DEF Creation!Request
  <2>6. /\ t.what # "create" /\ t.step # "addInfo" /\ t.address = i.address
        /\ \/ i.kind = "public" /\ t.link = t.address
           \/ t.link = Creation!OwnLink(t.address, u)
    OBVIOUS
  <2>7. request' = [request EXCEPT ![u] = t] /\ request'[u] = t
    BY <2>2 DEF CreationInv, Creation!TypeOK
  <2> HIDE DEF t
  <2>8. Subscribing(u)'
    BY <2>5, <2>6, <2>7 DEF Subscribing, Linked
  <2>9. \A v \in Member : v # u /\ request[v] \in Made /\ request[v].what = "create"
                          => request[v].address # t.address
    BY <2>6, AddressesDiffer
  <2> QED
    BY <2>4, <2>5, <2>6, <2>7, <2>8, <2>9, RequestMoves
<1> QED
  BY <1>1, <1>2, <1>3, <1>4, <1>5

\* An author gets an address that is new.
LEMMA AnnounceStep ==
  ASSUME CreationInv, NEW u \in Member, Creation!Announce(u)
  PROVE  CreationInv'
<1>1. request[u] \in Asked
  BY AtStep DEF Creation!Announce
<1>2. PICK a \in Address \ announced :
        /\ announced' = announced \cup {a}
        /\ request' = [request EXCEPT ![u] =
             [what |-> "create", step |-> "addState", name |-> request[u].name, address |-> a,
              kind |-> request[u].kind, link |-> a, key |-> AuthorKey]]
  BY DEF Creation!Announce
<1> DEFINE t == [what |-> "create", step |-> "addState", name |-> request[u].name,
                 address |-> a, kind |-> request[u].kind, link |-> a, key |-> AuthorKey]
<1>3. t \in Made /\ t \in Creation!Task
  BY <1>1 DEF Asked, Made, Creation!Task
<1>4. t.what = "create" /\ t.step = "addState" /\ t.address = a /\ t.link = a
  OBVIOUS
<1>5. /\ request' = [request EXCEPT ![u] = t] /\ request'[u] = t
      /\ request' \in [Member -> Creation!Task \cup {Nothing}]
      /\ \A v \in Member : v # u => request'[v] = request[v]
  BY <1>2, <1>3 DEF CreationInv, Creation!TypeOK
<1> HIDE DEF t
<1>6. stateIds' = stateIds /\ subs' = subs /\ infos' = infos
  BY DEF Creation!Announce
<1>7. Creation!Docs' = Creation!Docs
  BY <1>6 DEF Creation!Docs, Creation!Range
<1>8. Creation!TypeOK'
  BY <1>2, <1>5, <1>6, <1>7 DEF CreationInv, Creation!TypeOK
<1>9. Creation!NameIsUnique' /\ Creation!AuthorHasChannel' /\ Documented'
  BY <1>6, <1>7
     DEF CreationInv, Creation!NameIsUnique, Creation!AuthorHasChannel, Documented, Linked
<1>10. /\ \A i \in infos : i.address # a
       /\ \A v \in Member : request[v] \in Made => request[v].address # a
  <2>1. \A i \in infos : i.address \in announced
    BY DEF CreationInv, Creation!TypeOK
  <2>2. ASSUME NEW v \in Member, request[v] \in Made
        PROVE  request[v].address # a
    BY <2>1, <2>2 DEF CreationInv, Creating, Subscribing, Linked
  <2> QED
    BY <2>1, <2>2
<1>11. Creating(u)'
  BY <1>2, <1>4, <1>5, <1>6, <1>10 DEF Creating
<1>12. ASSUME NEW v \in Member, v # u, request'[v] \in Made
       PROVE  /\ request'[v].what = "create" => Creating(v)'
              /\ request'[v].what # "create" => Subscribing(v)'
  BY <1>2, <1>4, <1>5, <1>6, <1>7, <1>10, <1>12, OthersKeep
<1> QED
  BY <1>4, <1>5, <1>8, <1>9, <1>11, <1>12 DEF CreationInv

\* The state of a subscription or a channel is stored.
LEMMA AddStateStep ==
  ASSUME CreationInv, NEW u \in Member, Creation!AddState(u)
  PROVE  CreationInv'
<1>1. /\ Creation!At(u, "addState") /\ request[u] \in Made
      /\ announced' = announced /\ subs' = subs /\ infos' = infos
  BY AtStep DEF Creation!AddState
<1>2. Creation!Docs' = Creation!Docs
  BY <1>1 DEF Creation!Docs, Creation!Range
<1> DEFINE new == <<request[u].address, u>>
<1>3. CASE new \in stateIds
  BY <1>1, <1>3, RequestEnds DEF Creation!AddState
<1>4. CASE new \notin stateIds
  <2>1. stateIds' = stateIds \cup {new} /\ Creation!Step(u, "addSub")
    BY <1>4 DEF Creation!AddState
  <2>2. PICK t \in Made :
          /\ request' = [request EXCEPT ![u] = t] /\ t \in Creation!Task
          /\ t.step = "addSub" /\ t.what = request[u].what /\ t.address = request[u].address
          /\ t.link = request[u].link
    BY <1>1, <2>1, Goes
  <2>3. /\ request'[u] = t
        /\ request' \in [Member -> Creation!Task \cup {Nothing}]
        /\ \A v \in Member : v # u => request'[v] = request[v]
    BY <2>2 DEF CreationInv, Creation!TypeOK
  <2>4. /\ request[u].what = "create" => Creating(u)
        /\ request[u].what # "create" => Subscribing(u)
    BY <1>1 DEF CreationInv
  <2>5. request[u].address \in announced
    BY <2>4 DEF Creating, Subscribing, Linked, CreationInv, Creation!TypeOK
  <2>6. Creation!TypeOK'
    BY <1>1, <1>2, <2>1, <2>3, <2>5 DEF CreationInv, Creation!TypeOK
  <2>7. Creation!NameIsUnique' /\ Creation!AuthorHasChannel' /\ Documented'
    BY <1>1, <1>2, <2>1
       DEF CreationInv, Creation!NameIsUnique, Creation!AuthorHasChannel, Documented, Linked
  <2>8. CASE request[u].what = "create"
    <3>1. Creating(u)'
      BY <1>1, <2>1, <2>2, <2>3, <2>4, <2>8 DEF Creating
    <3>2. ASSUME NEW v \in Member, v # u, request'[v] \in Made
          PROVE  /\ request'[v].what = "create" => Creating(v)'
                 /\ request'[v].what # "create" => Subscribing(v)'
      BY <1>1, <1>2, <2>1, <2>2, <2>3, <3>2, OthersKeep, AddressesDiffer
    <3> QED
      BY <2>2, <2>3, <2>6, <2>7, <2>8, <3>1, <3>2 DEF CreationInv
  <2>9. CASE request[u].what # "create"
    <3>1. Subscribing(u)'
      BY <1>1, <2>1, <2>2, <2>3, <2>4, <2>9 DEF Subscribing, Linked
    <3>2. ASSUME NEW v \in Member, v # u, request'[v] \in Made
          PROVE  /\ request'[v].what = "create" => Creating(v)'
                 /\ request'[v].what # "create" => Subscribing(v)'
      BY <1>1, <1>2, <2>1, <2>2, <2>3, <3>2, OthersKeep, AddressesDiffer
    <3> QED
      BY <2>2, <2>3, <2>6, <2>7, <2>9, <3>1, <3>2 DEF CreationInv
  <2> QED
    BY <2>8, <2>9
<1> QED
  BY <1>3, <1>4

\* The subscription is stored.
LEMMA AddSubStep ==
  ASSUME CreationInv, NEW u \in Member, Creation!AddSub(u)
  PROVE  CreationInv'
<1>1. /\ Creation!At(u, "addSub") /\ request[u] \in Made /\ request[u].step = "addSub"
      /\ announced' = announced /\ stateIds' = stateIds /\ infos' = infos
  BY AtStep DEF Creation!AddSub
<1>2. /\ request[u].what = "create" => Creating(u)
      /\ request[u].what # "create" => Subscribing(u)
  BY <1>1 DEF CreationInv
<1>3. CASE Creation!HasSub(request[u].address, u)
  BY <1>1, <1>3, RequestEnds DEF Creation!AddSub
<1>4. CASE ~Creation!HasSub(request[u].address, u)
  <2> DEFINE d == [address |-> request[u].address, id |-> u, link |-> request[u].link,
                   key |-> request[u].key, author |-> request[u].what = "create"]
  <2>1. /\ subs' = Append(subs, d)
        /\ IF request[u].what = "create" THEN Creation!Step(u, "addInfo") ELSE Creation!Done(u)
    BY <1>4 DEF Creation!AddSub
  <2>2. /\ d \in Doc
        /\ d.address = request[u].address /\ d.id = u /\ d.link = request[u].link
        /\ d.author <=> request[u].what = "create"
    BY <1>1 DEF Made, Doc, Creation!Document
  <2> HIDE DEF d
  <2>3. /\ subs' \in Seq(Doc) /\ Creation!Docs' = Creation!Docs \cup {d}
        /\ DocsUnique(subs')
    BY <1>4, <2>1, <2>2, DocAdded
  <2>4. request[u].address \in announced
    BY <1>2 DEF Creating, Subscribing, Linked, CreationInv, Creation!TypeOK
  <2>5. PICK t \in Creation!Task \cup {Nothing} :
          /\ request' = [request EXCEPT ![u] = t]
          /\ request[u].what # "create" => t = Nothing
          /\ request[u].what = "create" =>
               /\ t \in Made /\ t.step = "addInfo" /\ t.what = "create"
               /\ t.address = request[u].address /\ t.link = request[u].link
    <3>1. CASE request[u].what = "create"
      BY <1>1, <2>1, <3>1, Goes
    <3>2. CASE request[u].what # "create"
      BY <2>1, <3>2 DEF Creation!Done
    <3> QED
      BY <3>1, <3>2
  <2>6. /\ request'[u] = t
        /\ request' \in [Member -> Creation!Task \cup {Nothing}]
        /\ \A v \in Member : v # u => request'[v] = request[v]
    BY <2>5 DEF CreationInv, Creation!TypeOK
  <2>7. Creation!TypeOK'
    <3>1. \A e \in Creation!Docs' : e.address \in announced'
      BY <1>1, <2>2, <2>3, <2>4 DEF CreationInv, Creation!TypeOK
    <3> QED
      BY <1>1, <2>3, <2>6, <3>1 DEF CreationInv, Creation!TypeOK, Doc, DocsUnique
  <2>8. Creation!NameIsUnique' /\ Creation!AuthorHasChannel'
    BY <1>1, <2>3 DEF CreationInv, Creation!NameIsUnique, Creation!AuthorHasChannel
  <2>9. Documented'
    <3>1. ASSUME d.author
          PROVE  d.link = d.address
      BY <1>2, <2>2, <3>1 DEF Creating
    <3>2. ASSUME ~d.author
          PROVE  Linked(d.address, d.id, d.link)
      BY <1>2, <2>2, <3>2 DEF Subscribing
    <3> QED
      BY <1>1, <2>3, <3>1, <3>2 DEF CreationInv, Documented, Linked
  <2>10. Nothing \notin Made
    BY NothingAssumption DEF Made, Creation!Task
  <2>11. ASSUME request[u].what = "create"
         PROVE  Creating(u)'
    <3>1. \E e \in Creation!Docs' : e.address = request'[u].address /\ e.id = u /\ e.author
      BY <2>2, <2>3, <2>5, <2>6, <2>11
    <3>2. Authored(request[u].address, u)'
      BY <3>1 DEF Authored
    <3> QED
      BY <1>1, <1>2, <2>5, <2>6, <2>11, <3>2 DEF Creating
  <2>12. ASSUME NEW v \in Member, v # u, request'[v] \in Made
         PROVE  /\ request'[v].what = "create" => Creating(v)'
                /\ request'[v].what # "create" => Subscribing(v)'
    BY <1>1, <2>3, <2>5, <2>6, <2>10, <2>12, OthersKeep, AddressesDiffer
  <2> QED
    BY <2>5, <2>6, <2>7, <2>8, <2>9, <2>10, <2>11, <2>12 DEF CreationInv
<1> QED
  BY <1>3, <1>4

\* The channel can be found from now on.
LEMMA AddInfoStep ==
  ASSUME CreationInv, NEW u \in Member, Creation!AddInfo(u)
  PROVE  CreationInv'
<1>1. /\ Creation!At(u, "addInfo") /\ request[u] \in Made /\ request[u].step = "addInfo"
      /\ announced' = announced /\ stateIds' = stateIds /\ subs' = subs
      /\ Creation!Done(u)
  BY AtStep DEF Creation!AddInfo
<1>2. request[u].what = "create" /\ Creating(u)
  BY <1>1 DEF CreationInv, Subscribing
<1> DEFINE new == [address |-> request[u].address, author |-> u, name |-> request[u].name,
                   kind |-> request[u].kind]
<1>3. CASE \E i \in infos : i.name = request[u].name \/ i.address = request[u].address
  BY <1>1, <1>3, RequestEnds DEF Creation!AddInfo
<1>4. CASE ~\E i \in infos : i.name = request[u].name \/ i.address = request[u].address
  <2>1. infos' = infos \cup {new}
    BY <1>4 DEF Creation!AddInfo
  <2>2. /\ new \in [address : announced, author : Member, name : Text, kind : Kind]
        /\ new.address = request[u].address /\ new.author = u /\ new.name = request[u].name
        /\ <<new.address, u>> \in stateIds /\ Authored(new.address, u)
    BY <1>1, <1>2 DEF Made, Creating
  <2>3. \A i \in infos : i.name # new.name /\ i.address # new.address
    BY <1>4, <2>2
  <2> HIDE DEF new
  <2>4. /\ request'[u] = Nothing
        /\ request' \in [Member -> Creation!Task \cup {Nothing}]
        /\ \A v \in Member : v # u => request'[v] = request[v]
    BY <1>1 DEF Creation!Done, CreationInv, Creation!TypeOK
  <2>5. Creation!Docs' = Creation!Docs
    BY <1>1 DEF Creation!Docs, Creation!Range
  <2>6. Creation!TypeOK'
    BY <1>1, <2>1, <2>2, <2>4, <2>5 DEF CreationInv, Creation!TypeOK
  <2>7. Creation!NameIsUnique'
    BY <2>1, <2>3 DEF CreationInv, Creation!NameIsUnique
  <2>8. Creation!AuthorHasChannel'
    BY <1>1, <2>1, <2>2, <2>5 DEF CreationInv, Creation!AuthorHasChannel, Authored
  <2>9. Documented'
    BY <2>1, <2>3, <2>5 DEF CreationInv, Documented, Linked
  <2>10. Nothing \notin Made
    BY NothingAssumption DEF Made, Creation!Task
  <2>11. ASSUME NEW v \in Member, v # u, request'[v] \in Made
         PROVE  /\ request'[v].what = "create" => Creating(v)'
                /\ request'[v].what # "create" => Subscribing(v)'
    BY <1>1, <2>1, <2>2, <2>4, <2>5, <2>10, <2>11, OthersKeep, AddressesDiffer
  <2> QED
    BY <2>4, <2>6, <2>7, <2>8, <2>9, <2>10, <2>11 DEF CreationInv
<1> QED
  BY <1>3, <1>4

\* A document is removed that is not an author's, where a revocation keeps
\* these.
LEMMA RemoveStep ==
  ASSUME CreationInv, NEW i \in infos, NEW id \in Member, Creation!RemoveSub(i.address, id),
         i.kind = "private" \/ "link" \notin Incident => i.author # id
  PROVE  CreationInv'
<1>1. /\ announced' = announced /\ infos' = infos /\ request' = request
      /\ stateIds' = stateIds \ {<<i.address, id>>}
  BY DEF Creation!RemoveSub
<1>2. /\ subs' \in Seq(Doc) /\ DocsUnique(subs') /\ Creation!Docs' \subseteq Creation!Docs
      /\ \A d \in Creation!Docs : d \in Creation!Docs' \/ (d.address = i.address /\ d.id = id)
  <2>1. CASE subs' = subs
    BY <2>1 DEF CreationInv, Creation!TypeOK, DocsUnique, Doc, Creation!Docs, Creation!Range
  <2>2. CASE \E n \in DOMAIN subs : /\ subs[n].address = i.address /\ subs[n].id = id
                                    /\ subs' = Creation!RemoveAt(subs, n)
    <3>1. PICK n \in DOMAIN subs : /\ subs[n].address = i.address /\ subs[n].id = id
                                   /\ subs' = Creation!RemoveAt(subs, n)
      BY <2>2
    <3> QED
      BY <3>1, DocRemoved
  <2> QED
    BY <2>1, <2>2 DEF Creation!RemoveSub
<1>3. Creation!TypeOK'
  BY <1>1, <1>2 DEF CreationInv, Creation!TypeOK, DocsUnique, Doc
<1>4. Creation!NameIsUnique'
  BY <1>1 DEF CreationInv, Creation!NameIsUnique
<1>5. Creation!AuthorHasChannel'
  <2> SUFFICES ASSUME NEW j \in infos, j.kind = "private" \/ "link" \notin Incident
               PROVE  /\ <<j.address, j.author>> \in stateIds'
                      /\ \E d \in Creation!Docs' :
                           d.address = j.address /\ d.id = j.author /\ d.author
    BY <1>1 DEF Creation!AuthorHasChannel
  <2>1. j.address # i.address \/ j.author # id
    BY DEF CreationInv, Documented
  <2>2. /\ <<j.address, j.author>> \in stateIds
        /\ \E d \in Creation!Docs : d.address = j.address /\ d.id = j.author /\ d.author
    BY DEF CreationInv, Creation!AuthorHasChannel
  <2> QED
    BY <1>1, <1>2, <2>1, <2>2
<1>6. Documented'
  BY <1>1, <1>2 DEF CreationInv, Documented, Linked
<1>7. ASSUME NEW v \in Member, request[v] \in Made
      PROVE  /\ request[v].what = "create" => Creating(v)'
             /\ request[v].what # "create" => Subscribing(v)'
  <2>1. CASE request[v].what = "create"
    <3>1. Creating(v)
      BY <1>7, <2>1 DEF CreationInv
    <3>2. PICK a : a = request[v].address
      OBVIOUS
    <3>3. a # i.address /\ request'[v].address = a
      BY <1>1, <3>1, <3>2 DEF Creating
    <3>4. Authored(a, v) => Authored(a, v)'
      BY <1>2, <3>3 DEF Authored
    <3>5. <<a, v>> \in stateIds => <<a, v>> \in stateIds'
      BY <1>1, <3>3
    <3>6. Authored(a, v)' => Authored(request[v].address, v)'
      BY <3>3 DEF Authored
    <3> QED
      BY <1>1, <2>1, <3>1, <3>2, <3>4, <3>5, <3>6 DEF Creating
  <2>2. CASE request[v].what # "create"
    <3>1. Subscribing(v)
      BY <1>7, <2>2 DEF CreationInv
    <3> QED
      BY <1>1, <2>2, <3>1 DEF Subscribing, Linked
  <2> QED
    BY <2>1, <2>2
<1> QED
  BY <1>1, <1>3, <1>4, <1>5, <1>6, <1>7 DEF CreationInv

\* A subscriber is revoked, by id or by link.
LEMMA RevokeStep ==
  ASSUME CreationInv, NEW i \in infos, NEW d \in Creation!Docs, Creation!Revoke(i, d)
  PROVE  CreationInv'
<1>1. d.address = i.address /\ ~d.author
  BY DEF Creation!Revoke
<1>2. \A e \in Creation!Docs : e \in Doc /\ e.id \in Member /\ e.address \in Address
  <2>1. subs \in Seq(Doc)
    BY DEF CreationInv, Creation!TypeOK, Doc
  <2>2. \A e \in Creation!Docs : e \in Doc
    BY <2>1 DEF Creation!Docs, Creation!Range
  <2> QED
    BY <2>2 DEF Doc, Creation!Document
<1>3. \A e, f \in Creation!Docs : e.address = f.address /\ e.id = f.id => e = f
  BY DEF CreationInv, Creation!TypeOK, Creation!Docs, Creation!Range
<1>4. ASSUME i.kind = "private" \/ "link" \notin Incident
      PROVE  i.author # d.id
  <2>1. PICK e \in Creation!Docs : e.address = i.address /\ e.id = i.author /\ e.author
    BY <1>4 DEF CreationInv, Creation!AuthorHasChannel
  <2> QED
    BY <1>1, <1>3, <2>1
<1>5. CASE Creation!RemoveSub(i.address, d.id)
  BY <1>2, <1>4, <1>5, RemoveStep
<1>6. CASE "link" \in Incident /\ \E e \in Creation!Docs :
             Creation!ByLink(e, d.link) /\ Creation!RemoveSub(i.address, e.id)
  <2>1. PICK e \in Creation!Docs : Creation!ByLink(e, d.link) /\ Creation!RemoveSub(i.address, e.id)
    BY <1>6
  <2>2. e.link = d.link
    BY <2>1 DEF Creation!ByLink
  <2>3. ASSUME i.kind = "private"
        PROVE  e.id = d.id
    <3>1. i.address \in Address /\ d.id \in Member
      BY <1>1, <1>2
    <3>2. d.link = Creation!OwnLink(i.address, d.id)
      BY <1>1, <2>3 DEF CreationInv, Documented, Linked
    <3>3. \A a \in Address : d.link # a
      BY <3>1, <3>2, CreationAssumption
    <3>4. e.link # e.address
      BY <1>2, <2>2, <3>3
    <3>5. ~e.author /\ Linked(e.address, e.id, e.link)
      BY <3>4 DEF CreationInv, Documented
    <3>6. e.link = Creation!OwnLink(e.address, e.id)
      BY <3>4, <3>5 DEF Linked
    <3> QED
      BY <2>2, <3>2, <3>6 DEF Creation!OwnLink
  <2>4. i.kind = "private" \/ "link" \notin Incident => i.author # e.id
    BY <1>4, <1>6, <2>3
  <2> QED
    BY <1>2, <2>1, <2>4, RemoveStep
<1> QED
  BY <1>5, <1>6 DEF Creation!Revoke

LEMMA CreationStep ==
  CreationInv /\ [Creation!Next]_(Creation!vars) => CreationInv'
<1> SUFFICES ASSUME CreationInv, [Creation!Next]_(Creation!vars) PROVE CreationInv'
  OBVIOUS
<1>1. CASE \E u \in Member :
             \/ \E name \in Text, kind \in Kind : Creation!CheckName(u, name, kind)
             \/ Creation!Conflict(u) \/ Creation!CheckKey(u) \/ Creation!Fail(u)
             \/ \E what \in {"request", "add"} : Creation!Request(u, what)
  BY <1>1, ReadSteps
<1>2. CASE \E u \in Member : Creation!Announce(u)
  BY <1>2, AnnounceStep
<1>3. CASE \E u \in Member : Creation!AddState(u)
  BY <1>3, AddStateStep
<1>4. CASE \E u \in Member : Creation!AddSub(u)
  BY <1>4, AddSubStep
<1>5. CASE \E u \in Member : Creation!AddInfo(u)
  BY <1>5, AddInfoStep
<1>6. CASE \E i \in infos, d \in Creation!Docs : Creation!Revoke(i, d)
  BY <1>6, RevokeStep
<1>7. CASE UNCHANGED Creation!vars
  <2>1. /\ announced' = announced /\ stateIds' = stateIds /\ subs' = subs
        /\ infos' = infos /\ request' = request
    BY <1>7 DEF Creation!vars
  <2> QED
    BY <2>1
       DEF CreationInv, Creation!TypeOK, Creation!NameIsUnique, Creation!AuthorHasChannel,
           Documented, Linked, Creating, Authored, Subscribing, Creation!Docs, Creation!Range
<1> QED
  BY <1>1, <1>2, <1>3, <1>4, <1>5, <1>6, <1>7 DEF Creation!Next

-----------------------------------------------------------------------------
(* Searching for channels.                                                 *)

LEMMA SameCardinality == \A S : Search!Cardinality(S) = Cardinality(S)
BY DEF Search!Cardinality, Cardinality, Search!IsFiniteSet, IsFiniteSet

\* The place of a channel among those that a search finds.
PlaceOf(q, i) == Search!Place(Search!Finds(q, channels), q, i)

\* Whoever pages has seen what he can see on the pages so far: what is at a
\* place of theirs now was at no later place before.
Seen(u) ==
  /\ watched[u] \subseteq Search!MayFind(u, paging[u].query, channels)
  /\ \A i \in Search!Finds(paging[u].query, channels) :
       /\ channels[i].address \in watched[u]
       /\ PlaceOf(paging[u].query, i) < paging[u].index * Limit
       => channels[i].address \in seen[u]

SearchInv ==
  /\ Search!TypeOK
  /\ paging \in [Member -> {Search!NoPaging} \cup [query : Query, index : Nat]]
  /\ \A u \in Member : paging[u] # Search!NoPaging => Seen(u)

\* The channels stay in the order of their creation.
InOrder ==
  \A i, j \in DOMAIN channels : \A m, n \in DOMAIN channels' :
    channels[i].address = channels'[m].address /\ channels[j].address = channels'[n].address /\ i < j
      => m < n

LEMMA SearchInit == Search!Init => SearchInv
<1> SUFFICES ASSUME Search!Init PROVE SearchInv
  OBVIOUS
<1>1. /\ channels = <<>> /\ checked = [u \in Member |-> Nothing]
      /\ paging = [u \in Member |-> Search!NoPaging]
      /\ seen = [u \in Member |-> {}] /\ watched = [u \in Member |-> {}]
  BY DEF Search!Init
<1> QED
  BY <1>1 DEF SearchInv, Search!TypeOK

\* A place is a number below the number of channels found.
LEMMA PlaceBelow ==
  ASSUME channels \in Seq(Search!Channel), NEW q, NEW i \in Search!Finds(q, channels)
  PROVE  /\ PlaceOf(q, i) \in Nat /\ Cardinality(Search!Finds(q, channels)) \in Nat
         /\ PlaceOf(q, i) < Cardinality(Search!Finds(q, channels))
<1> DEFINE S == Search!Finds(q, channels)
           T == S \cap Search!InFront(q, i)
<1>1. S \subseteq 1 .. Len(channels) /\ Len(channels) \in Nat
  BY DEF Search!Finds
<1>2. IsFiniteSet(S)
  <2>1. IsFiniteSet(1 .. Len(channels))
    BY <1>1, FS_Interval
  <2> HIDE DEF S
  <2> QED
    BY <1>1, <2>1, FS_Subset
<1>3. i \in S /\ i \notin T /\ T \subseteq S
  BY <1>1 DEF Search!InFront
<1>4. PlaceOf(q, i) = Cardinality(T)
  BY SameCardinality DEF PlaceOf, Search!Place
<1> HIDE DEF S, T
<1>5. /\ Cardinality(S) \in Nat /\ Cardinality(T) \in Nat
      /\ Cardinality(T) <= Cardinality(S) /\ Cardinality(T) # Cardinality(S)
  BY <1>2, <1>3, FS_Subset, FS_CardinalityType
<1> QED
  BY <1>4, <1>5 DEF S

\* A change of the channels leaves no channel at an earlier place, but for
\* those that moved up.
LEMMA PlaceKept ==
  ASSUME channels \in Seq(Search!Channel), channels' \in Seq(Search!Channel), InOrder,
         \A j, k \in DOMAIN channels : channels[j].address = channels[k].address => j = k,
         NEW q, NEW i \in Search!Finds(q, channels), NEW n \in Search!Finds(q, channels'),
         channels'[n].address = channels[i].address,
         channels[i].address \notin Search!MovedUp(q, channels')
  PROVE  PlaceOf(q, i) <= PlaceOf(q, n)'
<1> DEFINE S == Search!Finds(q, channels) \cap Search!InFront(q, i)
           T == Search!Finds(q, channels') \cap
                  {j \in DOMAIN channels' : IF q.ascending THEN j < n ELSE n < j}
<1>1. PlaceOf(q, i) = Cardinality(S)
  BY SameCardinality DEF PlaceOf, Search!Place
<1>2. PlaceOf(q, n)' = Cardinality(T)
  BY SameCardinality DEF PlaceOf, Search!Place, Search!InFront, Search!Finds
<1>3. IsFiniteSet(T)
  <2>1. T \subseteq 1 .. Len(channels') /\ Len(channels') \in Nat
    OBVIOUS
  <2> QED
    BY <2>1, FS_Interval, FS_Subset
<1>4. ASSUME NEW j \in S
      PROVE  \E m \in T : channels'[m].address = channels[j].address
  <2>1. i \in DOMAIN channels /\ j \in DOMAIN channels
    BY DEF Search!Finds
  <2>2. PICK m \in Search!Finds(q, channels') : channels'[m].address = channels[j].address
    BY <2>1 DEF Search!MovedUp
  <2>3. m \in DOMAIN channels' /\ n \in DOMAIN channels'
    BY DEF Search!Finds
  <2>4. IF q.ascending THEN m < n ELSE n < m
    BY <2>1, <2>2, <2>3 DEF InOrder, Search!InFront
  <2> QED
    BY <2>2, <2>3, <2>4
<1> DEFINE f == [j \in S |-> CHOOSE m \in T : channels'[m].address = channels[j].address]
<1>5. \A j \in S : f[j] \in T /\ channels'[f[j]].address = channels[j].address
  BY <1>4
<1>6. f \in [S -> T]
  BY <1>5
<1>7. ASSUME NEW j \in S, NEW k \in S, f[j] = f[k]
      PROVE  j = k
  <2>1. j \in DOMAIN channels /\ k \in DOMAIN channels
    BY DEF Search!Finds
  <2> HIDE DEF f
  <2> QED
    BY <1>5, <1>7, <2>1
<1> HIDE DEF S, T, f
<1>8. f \in Injection(S, T)
  BY <1>6, <1>7 DEF Injection, IsInjective
<1> QED
  BY <1>1, <1>2, <1>3, <1>8, FS_Injection

\* Whatever is changed, those who page have seen what they can see on the
\* pages so far.
LEMMA ChangeStep ==
  ASSUME SearchInv, Search!TypeOK', Search!Watch(channels'), InOrder,
         paging' = paging, seen' = seen
  PROVE  SearchInv'
<1> SUFFICES ASSUME NEW u \in Member, paging[u] # Search!NoPaging
             PROVE  Seen(u)'
  BY DEF SearchInv
<1>1. PICK q \in Query, index \in Nat : paging[u].query = q /\ paging[u].index = index
  BY DEF SearchInv
<1>2. paging'[u].query = q /\ paging'[u].index = index
  BY <1>1
<1>3. watched'[u] = (watched[u] \cap Search!MayFind(u, q, channels'))
                      \ Search!MovedUp(q, channels')
  BY <1>1 DEF Search!Watch
<1>4. watched'[u] \subseteq Search!MayFind(u, paging[u].query, channels)'
  BY <1>2, <1>3 DEF Search!MayFind, Search!Finds
<1>5. /\ channels \in Seq(Search!Channel)
      /\ \A j, k \in DOMAIN channels : channels[j].address = channels[k].address => j = k
      /\ channels' \in Seq(Search!Channel)
  BY DEF SearchInv, Search!TypeOK
<1>6. ASSUME NEW n \in Search!Finds(q, channels'), channels'[n].address \in watched'[u],
             PlaceOf(q, n)' < index * Limit
      PROVE  channels'[n].address \in seen'[u]
  <2>1. /\ channels'[n].address \in Search!MayFind(u, q, channels)
        /\ channels'[n].address \in watched[u]
        /\ channels'[n].address \notin Search!MovedUp(q, channels')
    BY <1>1, <1>3, <1>6 DEF SearchInv, Seen
  <2>2. PICK i \in Search!Finds(q, channels) : channels[i].address = channels'[n].address
    BY <2>1 DEF Search!MayFind
  <2>3. PlaceOf(q, i) <= PlaceOf(q, n)'
    BY <1>5, <2>1, <2>2, PlaceKept
  <2>4. PlaceOf(q, i) \in Nat /\ PlaceOf(q, n)' \in Nat
    <3>1. PlaceOf(q, i) \in Nat
      BY <1>5, PlaceBelow
    <3>2. PlaceOf(q, n)' \in Nat
      <4> DEFINE T == Search!Finds(q, channels') \cap
                        {j \in DOMAIN channels' : IF q.ascending THEN j < n ELSE n < j}
      <4>1. PlaceOf(q, n)' = Cardinality(T)
        BY SameCardinality DEF PlaceOf, Search!Place, Search!InFront, Search!Finds
      <4>2. T \subseteq 1 .. Len(channels') /\ Len(channels') \in Nat
        BY <1>5
      <4> HIDE DEF T
      <4>3. IsFiniteSet(1 .. Len(channels'))
        BY <4>2, FS_Interval
      <4>4. IsFiniteSet(T)
        BY <4>2, <4>3, FS_Subset
      <4> QED
        BY <4>1, <4>4, FS_CardinalityType
    <3> QED
      BY <3>1, <3>2
  <2>5. index * Limit \in Nat
    BY SearchAssumption DEF Search!ConstantsFit
  <2>6. PlaceOf(q, i) < index * Limit
    BY <1>6, <2>3, <2>4, <2>5
  <2> QED
    BY <1>1, <2>1, <2>2, <2>6 DEF SearchInv, Seen
<1>7. \A n \in Search!Finds(q, channels)' :
        /\ channels'[n].address \in watched'[u]
        /\ PlaceOf(q, n)' < index * Limit
        => channels'[n].address \in seen'[u]
  BY <1>6 DEF Search!Finds
<1> QED
  BY <1>1, <1>2, <1>4, <1>7 DEF Seen

\* The addresses that may be found, and those watched, are addresses.
LEMMA Watched ==
  ASSUME SearchInv, Search!Watch(channels')
  PROVE  watched' \in [Member -> SUBSET Address]
<1>1. watched \in [Member -> SUBSET Address]
  BY DEF SearchInv, Search!TypeOK
<1>2. ASSUME NEW u \in Member
      PROVE  watched'[u] \subseteq watched[u]
  BY DEF Search!Watch
<1>3. watched' = [u \in Member |-> watched'[u]]
  BY DEF Search!Watch
<1> QED
  BY <1>1, <1>2, <1>3

\* A channel is added.
LEMMA AddStep ==
  ASSUME SearchInv, NEW u \in Member, NEW ch \in New, Search!AddChannelInfo(u, ch)
  PROVE  SearchInv'
<1>1. /\ channels' = Append(channels, ch) /\ checked' = checked /\ paging' = paging
      /\ seen' = seen /\ Search!Watch(channels')
  BY DEF Search!AddChannelInfo
<1>2. channels \in Seq(Search!Channel) /\ ch \in Search!Channel
  BY SearchAssumption DEF SearchInv, Search!TypeOK, Search!ConstantsFit
<1>3. /\ channels' \in Seq(Search!Channel) /\ Len(channels) \in Nat
      /\ DOMAIN channels = 1 .. Len(channels) /\ DOMAIN channels' = 1 .. (Len(channels) + 1)
      /\ \A i \in 1 .. Len(channels) : channels'[i] = channels[i]
      /\ channels'[Len(channels) + 1] = ch
  BY <1>1, <1>2
<1>4. \A i \in 1 .. Len(channels) : channels[i].address # ch.address
  BY <1>3 DEF Search!AddChannelInfo, Search!Addresses
<1>5. \A i, j \in DOMAIN channels : channels[i].address = channels[j].address => i = j
  BY DEF SearchInv, Search!TypeOK
<1>6. \A i, j \in DOMAIN channels' : channels'[i].address = channels'[j].address => i = j
  <2> SUFFICES ASSUME NEW i \in 1 .. (Len(channels) + 1), NEW j \in 1 .. (Len(channels) + 1),
                      channels'[i].address = channels'[j].address
               PROVE  i = j
    BY <1>3
  <2>1. CASE i \in 1 .. Len(channels) /\ j \in 1 .. Len(channels)
    BY <1>3, <1>5, <2>1
  <2>2. CASE i = Len(channels) + 1 \/ j = Len(channels) + 1
    BY <1>3, <1>4, <2>2
  <2> QED
    BY <1>3, <2>1, <2>2
<1>7. \A i \in DOMAIN channels, m \in DOMAIN channels' :
        channels[i].address = channels'[m].address => i = m
  <2> SUFFICES ASSUME NEW i \in 1 .. Len(channels), NEW m \in 1 .. (Len(channels) + 1),
                      channels[i].address = channels'[m].address
               PROVE  i = m
    BY <1>3
  <2>1. m \in 1 .. Len(channels)
    BY <1>3, <1>4
  <2> QED
    BY <1>3, <1>5, <2>1
<1>8. InOrder
  BY <1>7 DEF InOrder
<1>9. Search!TypeOK'
  BY <1>1, <1>3, <1>6, Watched DEF SearchInv, Search!TypeOK
<1> QED
  BY <1>1, <1>8, <1>9, ChangeStep

\* A channel is hidden or shown.
LEMMA UpdateStep ==
  ASSUME SearchInv, NEW u \in Member, NEW hidden \in BOOLEAN, NEW list \in List,
         Search!Update(u, hidden, list)
  PROVE  SearchInv'
<1>1. /\ paging' = paging /\ seen' = seen /\ Search!Watch(channels')
      /\ checked' = [checked EXCEPT ![u] = Nothing]
      /\ channels' = [i \in DOMAIN channels |->
           IF channels[i].address = checked[u]
           THEN [channels[i] EXCEPT !.hidden = hidden, !.visibilityList = list]
           ELSE channels[i]]
  BY DEF Search!Update
<1>2. /\ channels \in Seq(Search!Channel) /\ DOMAIN channels = 1 .. Len(channels)
      /\ Len(channels) \in Nat /\ list \in SUBSET Member
      /\ \A i \in DOMAIN channels : channels[i] \in Search!Channel
      /\ \A i, j \in DOMAIN channels : channels[i].address = channels[j].address => i = j
  BY SearchAssumption DEF SearchInv, Search!TypeOK, Search!ConstantsFit
<1>3. /\ DOMAIN channels' = DOMAIN channels
      /\ \A i \in DOMAIN channels : /\ channels'[i] \in Search!Channel
                                    /\ channels'[i].address = channels[i].address
  <2> SUFFICES ASSUME NEW i \in DOMAIN channels
               PROVE  /\ channels'[i] \in Search!Channel
                      /\ channels'[i].address = channels[i].address
    BY <1>1
  <2>1. PICK ch \in Search!Channel : ch = channels[i]
    BY <1>2
  <2>2. channels'[i] = IF ch.address = checked[u]
                       THEN [ch EXCEPT !.hidden = hidden, !.visibilityList = list]
                       ELSE ch
    BY <1>1, <2>1
  <2> QED
    BY <1>2, <2>1, <2>2 DEF Search!Channel
<1>4. channels' \in Seq(Search!Channel)
  <2>1. channels' \in [1 .. Len(channels) -> Search!Channel]
    BY <1>1, <1>2, <1>3
  <2> QED
    BY <1>2, <2>1, SeqDef
<1>5. /\ \A i, j \in DOMAIN channels' : channels'[i].address = channels'[j].address => i = j
      /\ InOrder
  BY <1>2, <1>3 DEF InOrder
<1>6. checked' \in [Member -> Address \cup {Nothing}]
  BY <1>1 DEF SearchInv, Search!TypeOK
<1>7. Search!TypeOK'
  BY <1>1, <1>4, <1>5, <1>6, Watched DEF SearchInv, Search!TypeOK
<1> QED
  BY <1>1, <1>5, <1>7, ChangeStep

\* A channel is deleted: those behind it move one place.
LEMMA DeleteStep ==
  ASSUME SearchInv, NEW u \in Member, Search!DeleteChannelInfo(u)
  PROVE  SearchInv'
<1>1. /\ checked' = checked /\ paging' = paging /\ seen' = seen /\ Search!Watch(channels')
  BY DEF Search!DeleteChannelInfo
<1>2. PICK k \in DOMAIN channels : channels' = Search!RemoveAt(channels, k)
  BY DEF Search!DeleteChannelInfo
<1>3. /\ channels \in Seq(Search!Channel) /\ DOMAIN channels = 1 .. Len(channels)
      /\ Len(channels) \in Nat
      /\ \A i, j \in DOMAIN channels : channels[i].address = channels[j].address => i = j
  BY DEF SearchInv, Search!TypeOK
<1>4. channels' = Creation!RemoveAt(channels, k)
  BY <1>2 DEF Search!RemoveAt, Creation!RemoveAt
<1>5. /\ channels' \in Seq(Search!Channel) /\ Len(channels') = Len(channels) - 1
      /\ \A i \in 1 .. (Len(channels) - 1) :
           channels'[i] = IF i < k THEN channels[i] ELSE channels[i + 1]
  BY <1>3, <1>4, RemovedAt
<1> DEFINE old(m) == IF m < k THEN m ELSE m + 1
<1>6. /\ DOMAIN channels' = 1 .. (Len(channels) - 1)
      /\ \A m \in DOMAIN channels' : old(m) \in DOMAIN channels /\ channels'[m] = channels[old(m)]
  BY <1>3, <1>5
<1>7. \A m, n \in DOMAIN channels' : (m < n <=> old(m) < old(n)) /\ (old(m) = old(n) => m = n)
  BY <1>3, <1>6
<1> HIDE DEF old
<1>8. InOrder
  <2> SUFFICES ASSUME NEW i \in DOMAIN channels, NEW j \in DOMAIN channels,
                      NEW m \in DOMAIN channels', NEW n \in DOMAIN channels',
                      channels[i].address = channels'[m].address,
                      channels[j].address = channels'[n].address, i < j
               PROVE  m < n
    BY DEF InOrder
  <2>1. i = old(m) /\ j = old(n)
    BY <1>3, <1>6
  <2> QED
    BY <1>7, <2>1
<1>9. \A m, n \in DOMAIN channels' : channels'[m].address = channels'[n].address => m = n
  BY <1>3, <1>6, <1>7
<1>10. Search!TypeOK'
  BY <1>1, <1>5, <1>9, Watched DEF SearchInv, Search!TypeOK
<1> QED
  BY <1>1, <1>8, <1>10, ChangeStep

\* What a user sees of the next page, and who begins and ends a search.
LEMMA PageStep ==
  ASSUME SearchInv, NEW u \in Member, Search!NextPage(u)
  PROVE  SearchInv'
<1>1. PICK q \in Query, index \in Nat :
        /\ paging[u].query = q /\ paging[u].index = index /\ paging[u] # Search!NoPaging
  BY DEF SearchInv, Search!NextPage
<1>2. /\ channels' = channels /\ checked' = checked /\ watched' = watched
      /\ seen' = [seen EXCEPT ![u] =
           seen[u] \cup {ch.address : ch \in Search!SearchChannelInfo(u, q, index)}]
      /\ paging' = [paging EXCEPT ![u] = [query |-> q, index |-> index + 1]]
  BY <1>1 DEF Search!NextPage
<1>3. /\ channels \in Seq(Search!Channel)
      /\ \A i \in DOMAIN channels : channels[i] \in Search!Channel
      /\ \A i, j \in DOMAIN channels : channels[i].address = channels[j].address => i = j
      /\ seen \in [Member -> SUBSET Address]
      /\ paging \in [Member -> {Search!NoPaging} \cup [query : Query, index : Nat]]
  BY DEF SearchInv, Search!TypeOK
<1>4. /\ paging' \in [Member -> {Search!NoPaging} \cup [query : Query, index : Nat]]
      /\ paging'[u].query = q /\ paging'[u].index = index + 1
      /\ \A v \in Member : v # u => paging'[v] = paging[v]
  BY <1>2, <1>3
<1>5. {ch.address : ch \in Search!SearchChannelInfo(u, q, index)} \subseteq Address
  <2>1. ASSUME NEW ch \in Search!SearchChannelInfo(u, q, index)
        PROVE  ch \in Search!Channel
    <3>1. PICK i \in Search!PageOf(Search!Finds(q, channels), q, index) : ch = channels[i]
      BY DEF Search!SearchChannelInfo
    <3> QED
      BY <1>3, <3>1 DEF Search!PageOf, Search!Finds
  <2>2. \A ch \in Search!Channel : ch.address \in Address
    BY DEF Search!Channel
  <2> QED
    BY <2>1, <2>2
<1>6. /\ seen' \in [Member -> SUBSET Address]
      /\ seen'[u] = seen[u] \cup {ch.address : ch \in Search!SearchChannelInfo(u, q, index)}
      /\ \A v \in Member : v # u => seen'[v] = seen[v]
  BY <1>2, <1>3, <1>5
<1>7. Search!TypeOK'
  <2>1. \A v \in Member : \/ paging'[v] = Search!NoPaging
                          \/ paging'[v].query \in Query /\ paging'[v].index \in Nat
    BY <1>4
  <2> QED
    BY <1>2, <1>6, <2>1 DEF SearchInv, Search!TypeOK
<1>8. Seen(u)
  BY <1>1 DEF SearchInv
<1>9. ASSUME NEW i \in Search!Finds(q, channels), channels[i].address \in watched[u],
             PlaceOf(q, i) < (index + 1) * Limit
      PROVE  channels[i].address \in seen'[u]
  <2>1. /\ PlaceOf(q, i) \in Nat /\ Limit \in Nat /\ index * Limit \in Nat
        /\ (index + 1) * Limit = index * Limit + Limit
    BY <1>3, PlaceBelow, SearchAssumption DEF Search!ConstantsFit
  <2>2. CASE PlaceOf(q, i) < index * Limit
    BY <1>1, <1>6, <1>8, <1>9, <2>2 DEF Seen
  <2>3. CASE PlaceOf(q, i) \in (index * Limit) .. (index * Limit + Limit - 1)
    <3>1. Search!Visible(u, channels[i])
      <4>1. PICK j \in Search!Finds(q, channels) :
              channels[j].address = channels[i].address /\ Search!Visible(u, channels[j])
        BY <1>1, <1>8, <1>9 DEF Seen, Search!MayFind
      <4>2. i = j
        BY <1>3, <4>1 DEF Search!Finds
      <4> QED
        BY <4>1, <4>2
    <3>2. i \in Search!PageOf(Search!Finds(q, channels), q, index)
      BY <2>3 DEF Search!PageOf, PlaceOf
    <3>3. channels[i] \in Search!SearchChannelInfo(u, q, index)
      BY <3>1, <3>2 DEF Search!SearchChannelInfo
    <3> QED
      BY <1>6, <3>3
  <2> QED
    <3>1. PlaceOf(q, i) < index * Limit \/ index * Limit <= PlaceOf(q, i)
      BY <2>1
    <3>2. PlaceOf(q, i) <= index * Limit + Limit - 1
      BY <1>9, <2>1
    <3> QED
      BY <2>1, <2>2, <2>3, <3>1, <3>2
<1>10. Search!Finds(q, channels)' = Search!Finds(q, channels) /\ \A i : PlaceOf(q, i)' = PlaceOf(q, i)
  BY <1>2 DEF Search!Finds, PlaceOf, Search!Place, Search!InFront
<1>11. Seen(u)'
  <2>1. watched'[u] \subseteq Search!MayFind(u, q, channels')
    BY <1>1, <1>2, <1>8 DEF Seen
  <2> QED
    BY <1>2, <1>4, <1>9, <1>10, <2>1 DEF Seen, Search!Finds, Search!MayFind
<1>12. ASSUME NEW v \in Member, v # u, paging'[v] # Search!NoPaging
       PROVE  Seen(v)'
  <2>1. Seen(v)
    BY <1>4, <1>12 DEF SearchInv
  <2> QED
    BY <1>2, <1>4, <1>6, <1>12, <2>1
       DEF Seen, PlaceOf, Search!Finds, Search!MayFind, Search!Place, Search!InFront
<1> QED
  BY <1>4, <1>7, <1>11, <1>12 DEF SearchInv

LEMMA StartStep ==
  ASSUME SearchInv, NEW u \in Member, NEW q \in Query, Search!StartSearch(u, q)
  PROVE  SearchInv'
<1>1. /\ channels' = channels /\ checked' = checked /\ seen' = seen
      /\ watched' = [watched EXCEPT ![u] = Search!MayFind(u, q, channels)]
      /\ paging' = [paging EXCEPT ![u] = [query |-> q, index |-> 0]]
  BY DEF Search!StartSearch
<1>2. /\ channels \in Seq(Search!Channel) /\ watched \in [Member -> SUBSET Address]
      /\ \A i \in DOMAIN channels : channels[i] \in Search!Channel
      /\ paging \in [Member -> {Search!NoPaging} \cup [query : Query, index : Nat]]
  BY DEF SearchInv, Search!TypeOK
<1>3. Search!MayFind(u, q, channels) \subseteq Address
  BY <1>2 DEF Search!MayFind, Search!Finds, Search!Channel
<1>4. /\ watched' \in [Member -> SUBSET Address]
      /\ watched'[u] = Search!MayFind(u, q, channels)
      /\ \A v \in Member : v # u => watched'[v] = watched[v]
  BY <1>1, <1>2, <1>3
<1>5. /\ paging' \in [Member -> {Search!NoPaging} \cup [query : Query, index : Nat]]
      /\ paging'[u].query = q /\ paging'[u].index = 0
      /\ \A v \in Member : v # u => paging'[v] = paging[v]
  BY <1>1, <1>2
<1>6. Search!TypeOK'
  <2>1. \A v \in Member : \/ paging'[v] = Search!NoPaging
                          \/ paging'[v].query \in Query /\ paging'[v].index \in Nat
    BY <1>5
  <2> QED
    BY <1>1, <1>4, <2>1 DEF SearchInv, Search!TypeOK
<1>7. \A i \in Search!Finds(q, channels) : ~(PlaceOf(q, i) < 0 * Limit)
  <2>1. 0 * Limit = 0
    BY SearchAssumption DEF Search!ConstantsFit
  <2> QED
    BY <1>2, <2>1, PlaceBelow
<1>8. Seen(u)'
  <2>1. watched'[u] \subseteq Search!MayFind(u, q, channels')
    BY <1>1, <1>4
  <2>2. \A i \in Search!Finds(q, channels') : ~(PlaceOf(q, i)' < 0 * Limit)
    BY <1>1, <1>7 DEF PlaceOf, Search!Place, Search!InFront
  <2> QED
    BY <1>1, <1>5, <2>1, <2>2 DEF Seen, Search!Finds, Search!MayFind
<1>9. ASSUME NEW v \in Member, v # u, paging'[v] # Search!NoPaging
      PROVE  Seen(v)'
  <2>1. Seen(v)
    BY <1>5, <1>9 DEF SearchInv
  <2> QED
    BY <1>1, <1>4, <1>5, <1>9, <2>1
       DEF Seen, PlaceOf, Search!Finds, Search!MayFind, Search!Place, Search!InFront
<1> QED
  BY <1>5, <1>6, <1>8, <1>9 DEF SearchInv

LEMMA EndStep ==
  ASSUME SearchInv, NEW u \in Member, Search!EndSearch(u)
  PROVE  SearchInv'
<1>1. /\ channels' = channels /\ checked' = checked
      /\ seen' = [seen EXCEPT ![u] = {}] /\ watched' = [watched EXCEPT ![u] = {}]
      /\ paging' = [paging EXCEPT ![u] = Search!NoPaging]
  BY DEF Search!EndSearch
<1>2. /\ watched \in [Member -> SUBSET Address] /\ seen \in [Member -> SUBSET Address]
      /\ paging \in [Member -> {Search!NoPaging} \cup [query : Query, index : Nat]]
  BY DEF SearchInv, Search!TypeOK
<1>3. /\ watched' \in [Member -> SUBSET Address] /\ seen' \in [Member -> SUBSET Address]
      /\ paging' \in [Member -> {Search!NoPaging} \cup [query : Query, index : Nat]]
      /\ paging'[u] = Search!NoPaging
      /\ \A v \in Member : v # u => /\ paging'[v] = paging[v] /\ watched'[v] = watched[v]
                                    /\ seen'[v] = seen[v]
  BY <1>1, <1>2
<1>4. Search!TypeOK'
  BY <1>1, <1>3 DEF SearchInv, Search!TypeOK
<1>5. ASSUME NEW v \in Member, paging'[v] # Search!NoPaging
      PROVE  Seen(v)'
  <2>1. v # u /\ Seen(v)
    BY <1>3, <1>5 DEF SearchInv
  <2> QED
    BY <1>1, <1>3, <2>1
       DEF Seen, PlaceOf, Search!Finds, Search!MayFind, Search!Place, Search!InFront
<1> QED
  BY <1>3, <1>4, <1>5 DEF SearchInv

LEMMA SearchStep ==
  SearchInv /\ [Search!Next]_(Search!vars) => SearchInv'
<1> SUFFICES ASSUME SearchInv, [Search!Next]_(Search!vars) PROVE SearchInv'
  OBVIOUS
<1>1. CASE \E u \in Member : \E ch \in New : Search!AddChannelInfo(u, ch)
  BY <1>1, AddStep
<1>2. CASE \E u \in Member : Search!CheckUpdate(u)
  <2>1. PICK u \in Member : Search!CheckUpdate(u)
    BY <1>2
  <2>2. PICK ch \in Search!Range(channels) : checked' = [checked EXCEPT ![u] = ch.address]
    BY <2>1 DEF Search!CheckUpdate
  <2>3. /\ channels' = channels /\ paging' = paging /\ seen' = seen /\ watched' = watched
    BY <2>1 DEF Search!CheckUpdate
  <2>4. ch.address \in Address
    <3>1. ch \in Search!Channel
      BY DEF SearchInv, Search!TypeOK, Search!Range
    <3> QED
      BY <3>1 DEF Search!Channel
  <2>5. Search!TypeOK'
    BY <2>2, <2>3, <2>4 DEF SearchInv, Search!TypeOK
  <2> QED
    BY <2>3, <2>5
       DEF SearchInv, Seen, PlaceOf, Search!Finds, Search!MayFind, Search!Place, Search!InFront
<1>3. CASE \E u \in Member : \E hidden \in BOOLEAN, list \in List : Search!Update(u, hidden, list)
  BY <1>3, UpdateStep
<1>4. CASE \E u \in Member : Search!DeleteChannelInfo(u)
  BY <1>4, DeleteStep
<1>5. CASE \E u \in Member : \E q \in Query : Search!StartSearch(u, q)
  BY <1>5, StartStep
<1>6. CASE \E u \in Member : Search!NextPage(u)
  BY <1>6, PageStep
<1>7. CASE \E u \in Member : Search!EndSearch(u)
  BY <1>7, EndStep
<1>8. CASE UNCHANGED Search!vars
  <2>1. /\ channels' = channels /\ paging' = paging /\ seen' = seen /\ watched' = watched
        /\ checked' = checked
    BY <1>8 DEF Search!vars
  <2>2. Search!TypeOK'
    BY <2>1 DEF SearchInv, Search!TypeOK
  <2> QED
    BY <2>1, <2>2
       DEF SearchInv, Seen, PlaceOf, Search!Finds, Search!MayFind, Search!Place, Search!InFront
<1> QED
  BY <1>1, <1>2, <1>3, <1>4, <1>5, <1>6, <1>7, <1>8 DEF Search!Next

\* The two ways to ask say the same, whoever asks and whatever the channel
\* is.
LEMMA SameAnswered ==
  ASSUME NEW u, NEW ch
  PROVE  Search!SameAnswer(u, ch)
<1>1. CASE u \in Operator \/ u = ch.author
  BY <1>1 DEF Search!SameAnswer, Search!GetChannelInfo, Search!Visible, Search!Shown
<1>2. CASE ~(u \in Operator \/ u = ch.author)
  <2>1. CASE ch.hidden /\ u \notin ch.visibilityList
    BY <1>2, <2>1 DEF Search!SameAnswer, Search!GetChannelInfo, Search!Visible, Search!Shown
  <2>2. CASE ~(ch.hidden /\ u \notin ch.visibilityList)
    BY <1>2, <2>2 DEF Search!SameAnswer, Search!GetChannelInfo, Search!Visible, Search!Shown
  <2> QED
    BY <2>1, <2>2
<1> QED
  BY <1>1, <1>2

\* Who is at the end of a search has been at every place.
LEMMA SearchImplies ==
  SearchInv => Search!TypeOK /\ Search!SameAnswers /\ Search!NothingMissed
<1> SUFFICES ASSUME SearchInv PROVE Search!SameAnswers /\ Search!NothingMissed
  BY DEF SearchInv
<1>1. Search!SameAnswers
  BY SameAnswered DEF Search!SameAnswers
<1>2. ASSUME NEW u \in Member, paging[u] # Search!NoPaging, ~Search!MorePages(u),
             NEW a \in watched[u]
      PROVE  a \in seen[u]
  <2>1. PICK q \in Query, index \in Nat : paging[u].query = q /\ paging[u].index = index
    BY <1>2 DEF SearchInv
  <2>2. Seen(u)
    BY <1>2 DEF SearchInv
  <2>3. PICK i \in Search!Finds(q, channels) : channels[i].address = a
    BY <1>2, <2>1, <2>2 DEF Seen, Search!MayFind
  <2>4. /\ PlaceOf(q, i) \in Nat /\ Cardinality(Search!Finds(q, channels)) \in Nat
        /\ PlaceOf(q, i) < Cardinality(Search!Finds(q, channels))
    BY PlaceBelow DEF SearchInv, Search!TypeOK
  <2>5. index * Limit \in Nat
    BY SearchAssumption DEF Search!ConstantsFit
  <2>6. ~(index * Limit < Cardinality(Search!Finds(q, channels)))
    BY <1>2, <2>1, SameCardinality DEF Search!MorePages
  <2>7. PlaceOf(q, i) < index * Limit
    BY <2>4, <2>5, <2>6
  <2> QED
    BY <1>2, <2>1, <2>2, <2>3, <2>7 DEF Seen
<1>3. Search!NothingMissed
  BY <1>2 DEF Search!NothingMissed
<1> QED
  BY <1>1, <1>3

\* Who pages through a search misses no channel he could find all the time,
\* in front of which none was lost, for any number of channels and changes
\* between two pages; both ways to ask for a channel say the same.  Names
\* belong to one channel, and a channel that is found keeps its author,
\* however creations, subscriptions and revocations interleave and fail
\* (ChannelInfoService, ChannelService.create, SubscriptionRoutes).
THEOREM SpecChannelsHold == Search!Spec /\ Creation!Spec => []ChannelsHold
<1>1. SearchInv /\ CreationInv => ChannelsHold
  BY SearchImplies DEF CreationInv, ChannelsHold
<1>2. Search!Spec => []SearchInv
  BY SearchInit, SearchStep, PTL DEF Search!Spec
<1>3. Creation!Spec => []CreationInv
  BY CreationInit, CreationStep, PTL DEF Creation!Spec
<1> QED
  BY <1>1, <1>2, <1>3, PTL
===============================================================================
