-------------------------- MODULE ExclusiveSection --------------------------
(***************************************************************************)
(* What the gateway wants from each of its locks: for every key, at most   *)
(* one process is inside the section the key guards, and a process that    *)
(* asked for a section and keeps asking is let in.  The in-process mutex   *)
(* (KeyedMutex) is shown to implement this specification.                  *)
(***************************************************************************)
CONSTANTS Process,   \* whoever may enter a section
          Key        \* the names of the sections

VARIABLES asking,    \* asking[k]: processes waiting for section k
          inside     \* inside[k]: processes in section k

vars == <<asking, inside>>

TypeOK ==
  /\ asking \in [Key -> SUBSET Process]
  /\ inside \in [Key -> SUBSET Process]

Init ==
  /\ asking = [k \in Key |-> {}]
  /\ inside = [k \in Key |-> {}]

Away(p) == \A k \in Key : p \notin asking[k] \cup inside[k]

\* A process asks for a section somebody is in.
Ask(p, k) ==
  /\ Away(p)
  /\ inside[k] # {}
  /\ asking' = [asking EXCEPT ![k] = @ \cup {p}]
  /\ UNCHANGED inside

\* A process finds the section empty, nobody waiting, and walks in.
Enter(p, k) ==
  /\ Away(p)
  /\ inside[k] = {}
  /\ asking[k] = {}
  /\ inside' = [inside EXCEPT ![k] = {p}]
  /\ UNCHANGED asking

\* A process leaves; a process that was waiting, if there is one, takes over.
Leave(p, k) ==
  /\ inside[k] = {p}
  /\ \/ /\ asking[k] = {}
        /\ inside' = [inside EXCEPT ![k] = {}]
        /\ UNCHANGED asking
     \/ \E q \in asking[k] :
          /\ inside' = [inside EXCEPT ![k] = {q}]
          /\ asking' = [asking EXCEPT ![k] = @ \ {q}]

Next == \E p \in Process, k \in Key : Ask(p, k) \/ Enter(p, k) \/ Leave(p, k)

Spec == Init /\ [][Next]_vars

\* Two processes are never inside one section.
Exclusion == \A k \in Key : \A p, q \in inside[k] : p = q
=============================================================================
