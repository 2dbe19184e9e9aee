---------------------------- MODULE MCHnswIndex ----------------------------
(***************************************************************************)
(* HnswIndex for TLC: PerPage elements on a page (with one, VACUUM's walks *)
(* can be interrupted between any two elements) and a workload of bounded  *)
(* length.                                                                 *)
(***************************************************************************)
EXTENDS HnswIndex, TLC

CONSTANTS
  SlotCount,    \* places for element tuples
  PerPage,      \* places on one page
  Workloads     \* bounds on the inserts and VACUUMs begun and on the inserts, scans
                \* and VACUUMs that fail; whether there are scans, whether all elements
                \* are on layer 0 and the rows have two vectors at most, and whether
                \* no two rows have the same vector

VARIABLES
  load,         \* the workload
  ops           \* how much of it is used up

SlotsDef  == 1..SlotCount
PageOfDef == [s \in 1..SlotCount |-> (s - 1) \div PerPage + 1]
Symmetry  == Permutations(HeapTids) \union Permutations(Inserters) \union Permutations(Values)

Workload(i, v, a, s) ==
  [inserts |-> i, vacuums |-> v, aborts |-> a, scans |-> s, flat |-> FALSE, distinct |-> FALSE]
\* Duplicates are merged in a flat graph; in a graph of several layers there are none.
Writing   ==
  {[Workload(3, 2, 1, FALSE) EXCEPT !.flat = TRUE],
   [Workload(3, 2, 1, FALSE) EXCEPT !.distinct = TRUE]}
\* Places are reused under scans; lists fill up and are pruned.
Scanning  == {Workload(3, 2, 1, TRUE), Workload(5, 1, 0, FALSE)}
Finishing == {Workload(3, 1, 0, TRUE)}
Filling   == {Workload(4, 1, 0, FALSE)}
Crowding  == {Workload(6, 1, 0, FALSE)}

MCInit == Init /\ load \in Workloads /\ ops = [inserts |-> 0, vacuums |-> 0, aborts |-> 0]

Use(what) ==
  /\ ops[what] < load[what]
  /\ ops' = [ops EXCEPT ![what] = @ + 1]
  /\ UNCHANGED load

\* The graph and the rows are of the kind the workload asks for.
Fits ==
  /\ load.flat =>
       /\ \A p \in Inserters : job[p].level = 0
       /\ Cardinality({rowval[t] : t \in {u \in HeapTids : row[u] # "free"}}) <= 2
  /\ load.distinct => \A t, u \in HeapTids :
       t # u /\ "free" \notin {row[t], row[u]} => rowval[t] # rowval[u]

\* No step but VacuumBegin looks at whether a row is dead, so rows are deleted only
\* while there is a VACUUM to come and none at work.
Deletes == pc[Vac] = "idle" /\ ops.vacuums < load.vacuums

MCStep ==
  \/ Use("inserts") /\ \E p \in Inserters : InsertBegin(p)
  \/ Use("vacuums") /\ VacuumBegin
  \/ /\ Use("aborts")
     /\ \/ \E p \in Inserters : InsertAbort(p)
        \/ \E p \in Scanners : ScanAbort(p)
        \/ VacuumAbort
  \/ /\ UNCHANGED <<load, ops>>
     /\ \/ \E p \in Inserters : InsertStep(p)
        \/ \E p \in Scanners : (load.scans /\ ScanBegin(p)) \/ ScanStep(p)
        \/ Deletes /\ \E t \in HeapTids : DeleteRow(t)
        \/ VacuumStep

MCNext == MCStep /\ Fits'

mcVars == <<vars, load, ops>>
MCSpec == MCInit /\ [][MCNext]_mcVars
MCFairSpec == MCSpec /\ Fairness

\* The behaviours of a table whose first row is deleted and vacuumed while the
\* others are inserted one by one: one insert is about to write its element when
\* VACUUM removes the row, the rest follow before VACUUM goes on.  Neighbors are
\* listed in one order.
Crowded ==
  /\ Cardinality({t \in HeapTids : row[t] = "dead"}) <= 1
  /\ pc[Vac] # "idle" => ops.inserts > 1
  /\ pc[Vac] = "remove" => ops.inserts = 2 /\ \E p \in Inserters : pc[p] = "add"
  /\ pc[Vac] \notin {"idle", "remove", "barrier"} =>
       ops.inserts = load.inserts /\ \A p \in Inserters : pc[p] = "idle"
  /\ \A p \in Inserters : \A c, d \in sel[p] : c.i < d.i => c.nb.tid < d.nb.tid
CrowdedSpec == MCInit /\ [][MCNext /\ Crowded']_mcVars
=============================================================================
