----------------------------- MODULE IndexBuild -----------------------------
(***************************************************************************)
(* What CREATE INDEX promises, with no graph, no memory limit, no locks    *)
(* and no workers: every row that has a vector is indexed once, and the    *)
(* build succeeds only when all of them are.                               *)
(***************************************************************************)
CONSTANT Indexable   \* the rows that get an index entry

VARIABLES
  indexed,   \* the rows indexed so far
  status     \* "building", "done" or "failed"

vars == <<indexed, status>>

Init == indexed = {} /\ status = "building"

IndexRow(r) ==
  /\ status = "building"
  /\ r \notin indexed
  /\ indexed' = indexed \union {r}
  /\ UNCHANGED status

Succeed ==
  /\ status = "building"
  /\ indexed = Indexable
  /\ status' = "done"
  /\ UNCHANGED indexed

Fail ==
  /\ status = "building"
  /\ status' = "failed"
  /\ UNCHANGED indexed

Next == (\E r \in Indexable : IndexRow(r)) \/ Succeed \/ Fail

Spec == Init /\ [][Next]_vars
=============================================================================
