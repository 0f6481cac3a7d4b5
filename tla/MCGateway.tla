------------------------------ MODULE MCGateway ------------------------------
(***************************************************************************)
(* Instances of what the gateway does with channels and their logs.        *)
(*                                                                         *)
(* They share no variable: "part" names the one that moves, the others     *)
(* stay as they began.                                                     *)
(***************************************************************************)
EXTENDS ChannelLogs, Gateway, TLC

CONSTANTS Part,                                  \* the instances to check
          author, reader, writer, peer, admin,   \* users
          a1, a2, a3, k1, k2, k3                 \* addresses and keys

VARIABLES part,
          chain, saved, stored, access, linked, call, change, broken, missed

search == <<channels, checked, paging, seen, watched>>
creation == <<announced, stateIds, subs, infos, request>>
values == <<written, copies, sent, changed>>
faults == <<chain, saved, stored, access, linked, call, change, broken, missed>>
all == <<part, vars, search, creation, values, faults>>

-----------------------------------------------------------------------------
(* Channels and who may see them.                                          *)

\* log is found in both names, logbook in one.
MCFound == ("log" :> {"log", "logbook"}) @@ ("logbook" :> {"logbook"}) @@ ("x" :> {"x"})

NewChannel(address, user, name, hidden) ==
  [address |-> address, author |-> user, name |-> name, hidden |-> hidden, visibilityList |-> {}]

MCNew == {NewChannel(a1, author, "x", FALSE), NewChannel(a2, author, "logbook", TRUE),
          NewChannel(a2, admin, "log", TRUE), NewChannel(a3, author, "log", FALSE)}

Filter(ascending) == [author |-> Unset, name |-> Unset, hidden |-> Unset, ascending |-> ascending]

Everything == {Filter(TRUE), Filter(FALSE)}

MCQuery == Everything \cup
  {[Filter(TRUE) EXCEPT !.name = "log"], [Filter(FALSE) EXCEPT !.author = author],
   [Filter(TRUE) EXCEPT !.hidden = FALSE, !.name = "logbook"]}

MCList == {{}, {reader}}

Asks(S) == paging'[reader] # Search!NoPaging => paging'[reader].query \in S

\* Three channels, which are all found, in both orders; two of them, which an
\* administrator changes, too, and which are deleted, with filters.
SearchNext ==
  /\ part \in {"search", "filtered"} /\ Search!Next
  /\ \/ /\ part = "search" /\ Asks(Everything)
        /\ Len(channels') >= Len(channels)
        /\ \A n \in DOMAIN channels' :
             channels'[n].author = author /\ channels'[n].visibilityList = {}
        /\ checked'[admin] = Nothing
     \/ /\ part = "filtered" /\ Asks(MCQuery)
        /\ \A n \in DOMAIN channels' : channels'[n].address # a3

-----------------------------------------------------------------------------
(* Logs.                                                                   *)

MCRights == (reader :> "Read") @@ (writer :> "Write") @@ (peer :> "ReadAndWrite")

\* Only these users, and so many logs.
Only(S, n) ==
  /\ \A u \in User \ S : status'[u] = "none"
  /\ Len(tangle') <= n
  /\ \A p \in Participant : task'[p].call = "add" /\ task[p].call # "add" => Len(tangle) < n

\* A user that is revoked, asks anew and imports; a user who may only read
\* and one who may only write; a user who is revoked while another one writes.
LogsNext ==
  /\ part \in {"single", "mixed", "crowded"} /\ Next
  /\ \/ part = "single" /\ Only({peer}, 3)
     \/ part = "mixed" /\ Only({reader, writer}, 2) /\ op'.call # "revoke"
     \/ /\ part = "crowded" /\ Only({reader, peer}, 1)
        /\ op'.call = "revoke" => op'.user = reader
        /\ \A p \in Participant : task'[p].call # "reimport"

\* Calls that stop half-way.
Faulty == INSTANCE ChannelLogs WITH
  User <- {peer}, MaxLogs <- 2, Event <- {"fail", "reimport", "revoke"},
  tangle <- chain, states <- saved, cache <- stored, status <- access, keyload <- linked,
  task <- call, op <- change, faulted <- broken, overlapped <- missed

-----------------------------------------------------------------------------
(* The creation of channels, and the values of logs.                       *)

MCKeyOf == (author :> k1) @@ (reader :> k2) @@ (admin :> k3)

\* Two users with keys of their own, who create two channels; the name of a
\* public one is found in the name of a private one.
CreationNext ==
  /\ part = "creation" /\ Creation!Next
  /\ a3 \notin announced' /\ request'[admin] = Nothing
  /\ \A u \in Member :
       request'[u] # Nothing => request'[u].name = IF request'[u].kind = "public" THEN "log" ELSE "logbook"

\* A user who reads the logs of another one.
ValuesNext == part = "values" /\ Values!Next /\ \A l \in LogLink : copies'[admin][l] = Nothing

-----------------------------------------------------------------------------
MCInit ==
  /\ part \in Part
  /\ Init /\ Search!Init /\ Creation!Init /\ Values!Init /\ Faulty!Init

MCNext ==
  /\ UNCHANGED part
  /\ \/ SearchNext /\ UNCHANGED <<vars, creation, values, faults>>
     \/ LogsNext /\ UNCHANGED <<search, creation, values, faults>>
     \/ part = "faulty" /\ Faulty!Next /\ UNCHANGED <<vars, search, creation, values>>
     \/ CreationNext /\ UNCHANGED <<vars, search, values, faults>>
     \/ ValuesNext /\ UNCHANGED <<vars, search, creation, faults>>

MCSpec == MCInit /\ [][MCNext]_all

\* Whichever call fails, the logs that are stored are those a state is past,
\* but for whom the call was of.
FaultsAreLocal == part = "faulty" => Faulty!TypeOK /\ Faulty!CacheMatchesState
===============================================================================
