-------------------------------- MODULE Gateway --------------------------------
(***************************************************************************)
(* The channels of the gateway around their logs, with the users and       *)
(* addresses they have in common: how channels come into being (Creation), *)
(* who finds which of them (Search), and what their logs say when they     *)
(* come back from the database (Values).  Each part is a specification of  *)
(* its own; here is what must hold of them, whatever else is going on.     *)
(***************************************************************************)
EXTENDS Naturals, FiniteSets, Sequences

CONSTANTS Member,      \* users of the gateway
          Address,     \* addresses of channels
          Text, Found, \* names of channels, and in which of them a text is found
          Incident,    \* what else may happen in this instance
          Nothing,     \* no channel, no request, no message, no log

          \* channels and who may see them
          Operator, Unset, Limit, Query, New, List, Searcher,
          \* the creation of channels
          Kind, Key, KeyOf, AuthorKey,
          \* the values of logs
          Writer, LogLink, Zero, Null, Undefined, Value

VARIABLES channels, checked, paging, seen, watched,
          announced, stateIds, subs, infos, request,
          written, copies, sent, changed

Search == INSTANCE ChannelVisibility WITH
  User <- Member, Admin <- Operator, Event <- Incident

Creation == INSTANCE ChannelCreation WITH
  User <- Member, NoTask <- Nothing, Event <- Incident, states <- stateIds, task <- request

Values == INSTANCE LogValidation WITH
  Author <- Writer, User <- Member, Link <- LogLink, NoMessage <- Nothing, NoLog <- Nothing,
  tangle <- written, db <- copies

ASSUME SearchAssumption == Search!ConstantsFit
ASSUME CreationAssumption ==
  /\ Found \in [Text -> SUBSET Text] /\ \A t \in Text : t \in Found[t]
  /\ KeyOf \in [Member -> Key]
  /\ \A a, b \in Address, u \in Member : Creation!OwnLink(a, u) # b
ASSUME ValueAssumption ==
  /\ Writer \in Member
  /\ Zero \notin {Null, Undefined} /\ {Null, Undefined} \subseteq Value
ASSUME NothingAssumption ==
  /\ Nothing \notin Address \cup Search!Channel \cup Creation!Task
  /\ Nothing \notin Values!Log \cup Values!Message

-----------------------------------------------------------------------------
(* Properties.                                                             *)

\* Who searches finds what the other request would show, and misses nothing;
\* channels that are found have a name and an author of their own.
ChannelsHold ==
  /\ Search!TypeOK
  /\ Search!SameAnswers
  /\ Search!NothingMissed
  /\ Creation!TypeOK
  /\ Creation!NameIsUnique
  /\ Creation!AuthorHasChannel

\* What the validation of logs says of a copy is true, however often copies
\* are imported and changed.
LogsHold ==
  /\ Values!TypeOK
  /\ Values!ValidIsAsSent
  /\ Values!UntouchedIsValid
  /\ Values!CopiesAgree
===============================================================================
