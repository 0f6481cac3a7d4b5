-------------------------- MODULE ChannelVisibility --------------------------
(***************************************************************************)
(* What the gateway tells whom about its channels (ChannelInfoRoutes,      *)
(* ChannelInfoService): one channel by its address, or the channels that   *)
(* match a search, page by page, while channels are added, changed and     *)
(* deleted.                                                                *)
(*                                                                         *)
(* An update checks the author first and writes then.  A client that wants *)
(* all channels asks for one page after the other; no request knows of     *)
(* another.                                                                *)
(*                                                                         *)
(* watched is a history variable.                                          *)
(***************************************************************************)
EXTENDS Naturals, Sequences, FiniteSets, SequencesExt

CONSTANTS User, Admin,  \* users, and those of them with the role Admin
          Address,      \* channel addresses
          Text,         \* names, and texts to search for
          Found,        \* the names in which a text is found (a regex, case ignored)
          Unset,          \* a filter that is not given
          Nothing,      \* an answer without a channel
          Limit,        \* the channels of a page
          Query,        \* the searches of this instance
          New,          \* the channels that are created in it
          List,         \* the visibility lists that updates set in it
          Searcher,     \* users who search in it
          Event         \* what else may happen in this instance

Channel == [address : Address, author : User, name : Text,
            hidden : BOOLEAN, visibilityList : SUBSET User]

\* What the constants have to be.
ConstantsFit ==
  /\ Admin \subseteq User
  /\ Found \in [Text -> SUBSET Text]
  /\ Limit \in Nat \ {0}
  /\ New \subseteq Channel
  /\ Searcher \subseteq User /\ List \subseteq SUBSET User
  /\ Query \subseteq [author : User \cup {Unset}, name : Text \cup {Unset},
                      hidden : BOOLEAN \cup {Unset}, ascending : BOOLEAN]

VARIABLES channels,  \* the channels in the order of their creation
          checked,   \* the address a user may update: author and role were checked
          paging,    \* the search a user is about, and the next page of it
          seen,      \* the channels it has found
          watched    \* the channels it could see and find ever since it began

vars == <<channels, checked, paging, seen, watched>>

NoPaging == [query |-> Unset, index |-> 0]

Addresses(s) == {s[i].address : i \in DOMAIN s}

-----------------------------------------------------------------------------
(* What a user may know.                                                   *)

\* Variant that a property must tell apart: the author is not let through.
AuthorLeftOut(u, ch) ==
  IF ch.hidden /\ u \notin Admin /\ u \notin ch.visibilityList
  THEN Nothing
  ELSE IF u \in Admin \/ u = ch.author THEN ch ELSE [ch EXCEPT !.visibilityList = {}]

\* getChannelInfo, for a channel that exists: three conditions, of which
\* the second one decides on the list.  An undefined list is the empty one.
GetChannelInfo(u, ch) ==
  LET inList == u \in ch.visibilityList IN
  CASE ch.hidden /\ u \notin Admin /\ u # ch.author /\ ~inList -> Nothing
    [] u \notin Admin /\ u # ch.author /\ (~ch.hidden \/ inList)
         -> [ch EXCEPT !.visibilityList = {}]
    [] OTHER -> ch

\* searchChannelInfo: the filter, and what is left of a channel.
Visible(u, ch) ==
  ch.hidden /\ u \notin Admin /\ u # ch.author => u \in ch.visibilityList

Shown(u, ch) ==
  IF u \notin Admin /\ u # ch.author THEN [ch EXCEPT !.visibilityList = {}] ELSE ch

\* Filters of one kind are alternatives; a filter for the author and one
\* for the name must both hold.
Matches(q, ch) ==
  /\ q.author \in {Unset, ch.author}
  /\ q.name # Unset => ch.name \in Found[q.name]
  /\ q.hidden \in {Unset, ch.hidden}

\* The channels of s, which are in the order of their creation, that a
\* search is for.
Finds(q, s) == {i \in DOMAIN s : Matches(q, s[i])}

\* Sorted by the date of creation: what is in front of channel i.
InFront(q, i) == {j \in DOMAIN channels : IF q.ascending THEN j < i ELSE i < j}

\* How many channels of a set are in front of channel i.
Place(S, q, i) == Cardinality(S \cap InFront(q, i))

PageOf(S, q, index) == {i \in S : Place(S, q, i) \in (index * Limit) .. (index * Limit + Limit - 1)}

\* Variant that a property must tell apart: only visible channels count.
CountVisible(u, q, index) ==
  {channels[i] : i \in PageOf({i \in Finds(q, channels) : Visible(u, channels[i])}, q, index)}

\* The database skips and limits; what the user may not see is taken out of
\* the page afterwards.
SearchChannelInfo(u, q, index) ==
  {ch \in {channels[i] : i \in PageOf(Finds(q, channels), q, index)} : Visible(u, ch)}

-----------------------------------------------------------------------------
Init ==
  /\ channels = <<>>
  /\ checked = [u \in User |-> Nothing]
  /\ paging = [u \in User |-> NoPaging]
  /\ seen = [u \in User |-> {}]
  /\ watched = [u \in User |-> {}]

MayFind(u, q, s) == {s[i].address : i \in {j \in Finds(q, s) : Visible(u, s[j])}}

\* The channels that move up when the channels become s: one in front of
\* them is not found any more.
MovedUp(q, s) ==
  LET left == {s[i].address : i \in Finds(q, s)} IN
  {channels[j].address : j \in {k \in DOMAIN channels :
     \E i \in Finds(q, channels) \cap InFront(q, k) : channels[i].address \notin left}}

\* What is still to be found by who is searching, after a change to s.
Watch(s) ==
  watched' = [u \in User |->
    IF paging[u] = NoPaging THEN {}
    ELSE (watched[u] \cap MayFind(u, paging[u].query, s)) \ MovedUp(paging[u].query, s)]

\* Variant that a property must tell apart: the address is no _id.
AddTwice(u, ch) ==
  /\ \A i \in DOMAIN channels : channels[i].name # ch.name
  /\ ch.author = u \/ u \in Admin
  /\ channels' = Append(channels, ch)
  /\ Watch(channels')
  /\ UNCHANGED <<checked, paging, seen>>

\* addChannelInfo, and createChannel: the author is the user himself.
AddChannelInfo(u, ch) ==
  /\ ch.address \notin Addresses(channels)
  /\ \A i \in DOMAIN channels : channels[i].name # ch.name
  /\ ch.author = u \/ u \in Admin
  /\ channels' = Append(channels, ch)
  /\ Watch(channels')
  /\ UNCHANGED <<checked, paging, seen>>

\* isAuthorized: the author or an administrator.
IsAuthorized(u, ch) == u = ch.author \/ u \in Admin

\* updateChannelInfo reads the channel as its user sees it.
CheckUpdate(u) ==
  /\ checked[u] = Nothing
  /\ \E ch \in Range(channels) :
       /\ GetChannelInfo(u, ch) # Nothing
       /\ IsAuthorized(u, ch)
       /\ checked' = [checked EXCEPT ![u] = ch.address]
  /\ UNCHANGED <<channels, paging, seen, watched>>

\* updateChannel sets hidden and the list to what the body says; if it says
\* nothing they become null, which is visible and empty.  A channel that is
\* gone is not updated.
Update(u, hidden, list) ==
  /\ checked[u] # Nothing
  /\ channels' = [i \in DOMAIN channels |->
       IF channels[i].address = checked[u]
       THEN [channels[i] EXCEPT !.hidden = hidden, !.visibilityList = list]
       ELSE channels[i]]
  /\ checked' = [checked EXCEPT ![u] = Nothing]
  /\ Watch(channels')
  /\ UNCHANGED <<paging, seen>>

\* deleteChannelInfo.
DeleteChannelInfo(u) ==
  /\ "delete" \in Event
  /\ \E i \in DOMAIN channels :
       /\ IsAuthorized(u, channels[i])
       /\ channels' = RemoveAt(channels, i)
  /\ Watch(channels')
  /\ UNCHANGED <<checked, paging, seen>>

-----------------------------------------------------------------------------
(* A client that pages through a search.                                   *)

StartSearch(u, q) ==
  /\ u \in Searcher
  /\ paging[u] = NoPaging
  /\ paging' = [paging EXCEPT ![u] = [query |-> q, index |-> 0]]
  /\ watched' = [watched EXCEPT ![u] = MayFind(u, q, channels)]
  /\ UNCHANGED <<channels, checked, seen>>

\* A page that the user may see nothing of is no sign of the end.
MorePages(u) == paging[u].index * Limit < Cardinality(Finds(paging[u].query, channels))

NextPage(u) ==
  /\ paging[u] # NoPaging
  /\ MorePages(u)
  /\ seen' = [seen EXCEPT ![u] =
       @ \cup {ch.address : ch \in SearchChannelInfo(u, paging[u].query, paging[u].index)}]
  /\ paging' = [paging EXCEPT ![u] = [query |-> @.query, index |-> @.index + 1]]
  /\ UNCHANGED <<channels, checked, watched>>

EndSearch(u) ==
  /\ paging[u] # NoPaging
  /\ ~MorePages(u)
  /\ paging' = [paging EXCEPT ![u] = NoPaging]
  /\ seen' = [seen EXCEPT ![u] = {}]
  /\ watched' = [watched EXCEPT ![u] = {}]
  /\ UNCHANGED <<channels, checked>>

-----------------------------------------------------------------------------
Next ==
  \E u \in User :
    \/ \E ch \in New : AddChannelInfo(u, ch)
    \/ CheckUpdate(u)
    \/ \E hidden \in BOOLEAN, list \in List : Update(u, hidden, list)
    \/ DeleteChannelInfo(u)
    \/ \E q \in Query : StartSearch(u, q)
    \/ NextPage(u)
    \/ EndSearch(u)

Spec == Init /\ [][Next]_vars

-----------------------------------------------------------------------------
(* Properties.                                                             *)

TypeOK ==
  /\ channels \in Seq(Channel)
  /\ \A i, j \in DOMAIN channels : channels[i].address = channels[j].address => i = j
  /\ checked \in [User -> Address \cup {Nothing}]
  /\ \A u \in User : paging[u] = NoPaging \/ (paging[u].query \in Query /\ paging[u].index \in Nat)
  /\ seen \in [User -> SUBSET Address]
  /\ watched \in [User -> SUBSET Address]

\* The two ways to ask, which decide with different conditions, tell a user
\* the same about a channel, hidden or not, and its list only to its author
\* and administrators.
SameAnswer(u, ch) ==
  GetChannelInfo(u, ch) = IF Visible(u, ch) THEN Shown(u, ch) ELSE Nothing

SameAnswers == \A u \in User : \A ch \in Range(channels) : SameAnswer(u, ch)

\* Whoever pages through a search to its end has found every channel he
\* could see all the time, whatever was added, hidden or shown to others
\* between two pages, but for those that moved up when one in front of them
\* was deleted or left the search.
NothingMissed ==
  \A u \in User : paging[u] # NoPaging /\ ~MorePages(u) => watched[u] \subseteq seen[u]
===============================================================================
