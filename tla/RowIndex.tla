------------------------------ MODULE RowIndex ------------------------------
(***************************************************************************)
(* What the index promises to the table it belongs to, with no graph, no   *)
(* pages and no locks: a set of entries, each a heap TID under a vector.   *)
(* An index entry is made before its row commits, is removed only when the *)
(* row is dead, and a heap TID is given back only when it has no entry.    *)
(***************************************************************************)
CONSTANTS
  HeapTids,  \* heap TIDs
  Values,    \* vector values
  Cleared    \* the value of a heap TID without a row

VARIABLES
  row,       \* "free", "inserting", "live" or "dead" for each heap TID
  rowval,    \* the vector of each heap TID
  entries    \* the index: pairs of a heap TID and a vector

vars == <<row, rowval, entries>>

HasEntry(t) == \E v \in Values : <<t, v>> \in entries

Init ==
  /\ row     = [t \in HeapTids |-> "free"]
  /\ rowval  = [t \in HeapTids |-> Cleared]
  /\ entries = {}

\* A new row, not yet committed.
BeginInsert(t, v) ==
  /\ row[t] = "free"
  /\ row'    = [row EXCEPT ![t] = "inserting"]
  /\ rowval' = [rowval EXCEPT ![t] = v]
  /\ UNCHANGED entries

\* aminsert: the entry is made once, under the row's own vector.
Insert(t) ==
  /\ row[t] = "inserting"
  /\ ~HasEntry(t)
  /\ entries' = entries \union {<<t, rowval[t]>>}
  /\ UNCHANGED <<row, rowval>>

Commit(t) ==
  /\ row[t] = "inserting"
  /\ HasEntry(t)
  /\ row' = [row EXCEPT ![t] = "live"]
  /\ UNCHANGED <<rowval, entries>>

\* The inserting transaction is rolled back, or a committed row is deleted.
Kill(t) ==
  /\ row[t] \in {"inserting", "live"}
  /\ row' = [row EXCEPT ![t] = "dead"]
  /\ UNCHANGED <<rowval, entries>>

\* ambulkdelete at work: entries of dead rows disappear, any number at a time.
BulkDelete ==
  /\ entries' \subseteq entries
  /\ \A x \in entries \ entries' : row[x[1]] = "dead"
  /\ UNCHANGED <<row, rowval>>

\* ambulkdelete is over: VACUUM gives the TIDs of dead rows back to the heap.
Reclaim ==
  \E D \in SUBSET {t \in HeapTids : row[t] = "dead"} :
    /\ \A t \in D : ~HasEntry(t)
    /\ row'    = [t \in HeapTids |-> IF t \in D THEN "free" ELSE row[t]]
    /\ rowval' = [t \in HeapTids |-> IF t \in D THEN Cleared ELSE rowval[t]]
    /\ UNCHANGED entries

Next ==
  \/ \E t \in HeapTids : (\E v \in Values : BeginInsert(t, v)) \/ Insert(t) \/ Commit(t) \/ Kill(t)
  \/ BulkDelete \/ Reclaim

Spec == Init /\ [][Next]_vars
=============================================================================
