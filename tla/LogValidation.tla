---------------------------- MODULE LogValidation ----------------------------
(***************************************************************************)
(* What becomes of a log on its way to the Tangle, into the database of    *)
(* the gateway and back (ChannelLogTransformer, StreamsService,            *)
(* channel-data), and what the validation of logs says of it.              *)
(*                                                                         *)
(* A log has a public part, of which metadata and publicPayload are kept   *)
(* here (type and created go the way of metadata), and an encrypted        *)
(* payload.  Each is any JSON value.  What matters of a value is whether   *)
(* it is missing, null, another value that JavaScript takes for false      *)
(* (0, "", false), or anything else.                                       *)
(*                                                                         *)
(* sent and changed are history variables.                                 *)
(***************************************************************************)
EXTENDS FiniteSets

CONSTANTS Author, User,  \* who writes the logs, and who has a cache of them
          Link,          \* links of messages
          Zero, Null, Undefined,
          NoMessage, NoLog,
          Value          \* the values of this instance: these three, and others
                         \* that are true for JavaScript

Log == [metadata : Value, publicPayload : Value, payload : Value]

Falsy == {Zero, Null, Undefined}

VARIABLES tangle,   \* the messages of the channel
          db,       \* collection channel-data: a user's copy of a log
          sent,     \* the logs as they were sent to the gateway
          changed   \* copies that something else than the gateway changed

vars == <<tangle, db, sent, changed>>

-----------------------------------------------------------------------------
(* Conversions.                                                            *)

\* Variants of the code that a property must tell apart from it: the public
\* payload is taken for the payload; the encrypted part is not compared;
\* null is not the same as nothing.
PublicIsPayload(m) ==
  [metadata |-> m.public.metadata, publicPayload |-> m.public.data, payload |-> m.public.data]

ComparePublic(log) == [log EXCEPT !.payload = Undefined]
CompareNull(log) == log

\* getPayloads and JSON.stringify: what is undefined is not sent.
GetPayloads(log) ==
  [public |-> [metadata |-> log.metadata, data |-> log.publicPayload],
   masked |-> [data |-> log.payload]]

\* JSON.parse and getChannelLog.
GetChannelLog(m) ==
  [metadata |-> m.public.metadata, publicPayload |-> m.public.data, payload |-> m.masked.data]

\* addChannelData: undefined fields are left out, but a payload that is
\* false is not encrypted and becomes undefined, which the database has as
\* null.
AddChannelData(log) == [log EXCEPT !.payload = IF @ \in Falsy THEN Null ELSE @]

\* getChannelData: a payload that is null is not decrypted.
GetChannelData(log) == [log EXCEPT !.payload = IF @ = Null THEN Undefined ELSE @]

\* validateLogs leaves out what is undefined and what is null.
Omit(log) == [f \in DOMAIN log |-> IF log[f] = Null THEN Undefined ELSE log[f]]

Verdict(link, log) ==
  CASE tangle[link] = NoMessage -> "log not found on the tangle"
    [] tangle[link] # NoMessage /\ Omit(log) # Omit(GetChannelLog(tangle[link]))
         -> "not the same data"
    [] OTHER -> "valid"

-----------------------------------------------------------------------------
Init ==
  /\ tangle = [l \in Link |-> NoMessage]
  /\ db = [u \in User |-> [l \in Link |-> NoLog]]
  /\ sent = [l \in Link |-> NoLog]
  /\ changed = {}

\* addLog: the log is published, and stored as it was sent.
AddLog(l, log) ==
  /\ tangle[l] = NoMessage
  /\ tangle' = [tangle EXCEPT ![l] = GetPayloads(log)]
  /\ db' = [db EXCEPT ![Author][l] = AddChannelData(log)]
  /\ sent' = [sent EXCEPT ![l] = log]
  /\ UNCHANGED changed

\* Variant that a property must tell apart: the log is stored as it came.
StoreAsIs(m) == IF m = NoMessage THEN NoLog ELSE GetChannelLog(m)

Imported(m) == IF m = NoMessage THEN NoLog ELSE AddChannelData(GetChannelLog(m))

\* fetchLogs: the messages that are new for a user are stored.
FetchLogs(u) ==
  /\ \E l \in Link : db[u][l] = NoLog /\ tangle[l] # NoMessage
  /\ db' = [db EXCEPT ![u] = [l \in Link |->
              IF db[u][l] = NoLog THEN Imported(tangle[l]) ELSE db[u][l]]]
  /\ UNCHANGED <<tangle, sent, changed>>

\* Variant that a property must tell apart: the old copies are left.
ReimportMissing(u) ==
  /\ db' = [db EXCEPT ![u] = [l \in Link |->
              IF db[u][l] = NoLog THEN Imported(tangle[l]) ELSE db[u][l]]]
  /\ changed' = {p \in changed : p[1] # u}
  /\ UNCHANGED <<tangle, sent>>

\* reimport: all copies are removed, all messages stored again.
Reimport(u) ==
  /\ db' = [db EXCEPT ![u] = [l \in Link |-> Imported(tangle[l])]]
  /\ changed' = {p \in changed : p[1] # u}
  /\ UNCHANGED <<tangle, sent>>

\* The database is changed from outside ("a malicious state of the data").
ChangeCopy(u, l, log) ==
  /\ db[u][l] # NoLog
  /\ changed = {}
  /\ db' = [db EXCEPT ![u][l] = AddChannelData(log)]
  /\ changed' = {<<u, l>>}
  /\ UNCHANGED <<tangle, sent>>

Next ==
  \/ \E l \in Link, log \in Log : AddLog(l, log)
  \/ \E u \in User : FetchLogs(u) \/ Reimport(u)
  \/ \E u \in User, l \in Link, log \in Log : ChangeCopy(u, l, log)

Spec == Init /\ [][Next]_vars

-----------------------------------------------------------------------------
(* Properties.                                                             *)

Message == [public : [metadata : Value, data : Value], masked : [data : Value]]

TypeOK ==
  /\ tangle \in [Link -> Message \cup {NoMessage}]
  /\ db \in [User -> [Link -> Log \cup {NoLog}]]
  /\ sent \in [Link -> Log \cup {NoLog}]
  /\ changed \subseteq User \X Link

\* What a client that got a copy and sends it in for validation is told.
ValidateCopy(u, l) == Verdict(l, GetChannelData(db[u][l]))

\* Two logs say the same: their fields are equal, or there is nothing in
\* both of them.
SameData(a, b) ==
  \A f \in DOMAIN a : a[f] = b[f] \/ {a[f], b[f]} \subseteq {Null, Undefined}

\* What the validation calls valid is what was once sent to the gateway,
\* whatever happened to the copies, however often they were imported.
ValidIsAsSent ==
  \A u \in User, l \in Link : db[u][l] # NoLog /\ ValidateCopy(u, l) = "valid" =>
    SameData(GetChannelData(db[u][l]), sent[l])

\* A log that nothing else changed is valid as the gateway hands it out,
\* from the copy made when it was sent and from any imported one, also
\* after a copy was changed and imported again.  (A payload that is 0, false
\* or the empty string is stored as null.)
UntouchedIsValid ==
  \A u \in User, l \in Link :
    db[u][l] # NoLog /\ <<u, l>> \notin changed /\ sent[l].payload # Zero =>
      ValidateCopy(u, l) = "valid"

\* The author's copy, which never was on the Tangle, says what the copies
\* of the readers say.
CopiesAgree ==
  \A u, v \in User, l \in Link :
    NoLog \notin {db[u][l], db[v][l]} /\ {<<u, l>>, <<v, l>>} \cap changed = {} =>
      SameData(GetChannelData(db[u][l]), GetChannelData(db[v][l]))
===============================================================================
