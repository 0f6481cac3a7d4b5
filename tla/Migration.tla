------------------------------ MODULE Migration -------------------------------
(***************************************************************************)
(* The migration of the database to version 0.1.3: the tool that each of   *)
(* the services has, for the database they share, and the script an        *)
(* administrator may run instead.  A document is old or new.               *)
(***************************************************************************)
EXTENDS Naturals, Sequences

CONSTANTS Tool,      \* the tools of the services
          Identity,  \* identities that are stored
          MaxKills,  \* so many runs are interrupted
          Event      \* what else happens: "service", "script"

VARIABLES docs,    \* documents of a collection, by identity
          before,  \* collection identity-docs
          keys,    \* collection identity-keys, by identity; "none": no document
          exists,  \* identity-keys exists
          at,      \* what a tool does next
          kills    \* interrupted runs

vars == <<docs, before, keys, exists, at, kills>>

Collection == {"users", "trusted-roots", "subscriptions", "channel-data"}
Order == <<"users", "trusted-roots", "subscriptions", "channel-data", "list">>

All(value) == [i \in Identity |-> value]

Init ==
  /\ docs = [c \in Collection |-> All("old")]
  /\ before = Identity /\ keys = All("none") /\ exists = FALSE
  /\ at = [t \in Tool |-> "users"] /\ kills = 0

Go(t, next) == at' = [at EXCEPT ![t] = next]

\* updateMany finds the documents that still have the old field.
Updated(documents) == [i \in Identity |-> IF documents[i] = "old" THEN "new" ELSE documents[i]]

UpdateIds(t, n) ==
  /\ at[t] = Order[n]
  /\ docs' = [docs EXCEPT ![Order[n]] = Updated(@)]
  /\ Go(t, Order[n + 1])
  /\ UNCHANGED <<before, keys, exists, kills>>

\* Variant that a property must tell apart: the keys must be there already.
KeysExpected == before # {} /\ exists

MustRename == before # {} /\ ~exists

ListCollections(t) ==
  /\ at[t] = "list"
  /\ Go(t, IF MustRename THEN "rename" ELSE "done")
  /\ UNCHANGED <<docs, before, keys, exists, kills>>

\* rename throws without a source, or with a target; nobody catches that.
RenameDocs(t) ==
  /\ at[t] = "rename"
  /\ IF before = {} \/ exists
     THEN Go(t, "failed") /\ UNCHANGED <<before, keys, exists>>
     ELSE /\ keys' = [i \in Identity |-> IF i \in before THEN "old" ELSE "none"]
          /\ exists' = TRUE /\ before' = {}
          /\ Go(t, "convert")
  /\ UNCHANGED <<docs, kills>>

UpdateKeys(t) ==
  /\ at[t] = "convert"
  /\ keys' = Updated(keys)
  /\ Go(t, "done")
  /\ UNCHANGED <<docs, before, exists, kills>>

\* An interrupted tool is run again, as is one that failed.
RunAgain(t) ==
  /\ at[t] # "done"
  /\ IF at[t] = "failed" THEN UNCHANGED kills ELSE kills < MaxKills /\ kills' = kills + 1
  /\ Go(t, "users")
  /\ UNCHANGED <<docs, before, keys, exists>>

-----------------------------------------------------------------------------
\* A bridge of the new version runs already, and saves the keys of somebody.
SaveKeys(i) ==
  /\ "service" \in Event /\ keys[i] = "none"
  /\ keys' = [keys EXCEPT ![i] = "new"] /\ exists' = TRUE
  /\ UNCHANGED <<docs, before, at, kills>>

\* data-migration-0.1.3.js, after identity-docs was copied if need be.
Copied == [i \in Identity |-> IF ~exists /\ i \in before THEN "old" ELSE keys[i]]

RunScript ==
  /\ "script" \in Event
  /\ docs' = [c \in Collection |-> Updated(docs[c])]
  /\ keys' = Updated(Copied) /\ exists' = TRUE
  /\ UNCHANGED <<before, at, kills>>

-----------------------------------------------------------------------------
Migrate(t) ==
  \/ \E n \in 1..4 : UpdateIds(t, n)
  \/ ListCollections(t) \/ RenameDocs(t) \/ UpdateKeys(t) \/ RunAgain(t)

Next ==
  \/ \E t \in Tool : Migrate(t)
  \/ \E i \in Identity : SaveKeys(i)
  \/ RunScript

Spec == Init /\ [][Next]_vars

-----------------------------------------------------------------------------
(* Properties.                                                             *)

TypeOK ==
  /\ docs \in [Collection -> [Identity -> {"old", "new"}]]
  /\ before \in SUBSET Identity /\ keys \in [Identity -> {"old", "new", "none"}]
  /\ at \in [Tool -> Collection \cup {"list", "rename", "convert", "done", "failed"}]

\* The keys of an identity are never lost, however the tools interleave and
\* whatever is interrupted.
KeysAreKept == \A i \in Identity : i \in before \/ keys[i] # "none"

\* A tool that ends has renamed the fields of everything; the keys too,
\* unless the tool that renamed their collection was interrupted or still
\* runs, or a service had made the new collection before.
EndsMigrated ==
  \A t \in Tool : at[t] = "done" =>
    /\ \A c \in Collection, i \in Identity : docs[c][i] = "new"
    /\ \/ keys = All("new")
       \/ kills > 0 \/ \E u \in Tool : at[u] = "convert"
       \/ exists /\ before # {}
===============================================================================
