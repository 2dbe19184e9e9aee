----------------------------- MODULE MCHnswScan -----------------------------
(* Indexes and settings for the run of HnswScan. *)
EXTENDS HnswScan

\* Elements 1 and 2 are on layer 1, where they are neighbors; 1 is the entry point.
Level(P) == [t \in P |-> IF t <= 2 THEN 1 ELSE 0]
Upper(t) == IF t <= 2 THEN {3 - t} ELSE {}
Index(P, L, D) ==
  [dist |-> D, level |-> Level(P), entry |-> 1,
   links |-> [t \in P |-> [lc \in 0..Level(P)[t] |-> IF lc = 0 THEN L[t] ELSE Upper(t)]]]

\* Links in both directions: every set of pairs.
Pairs(P) == {e \in SUBSET P : Cardinality(e) = 2}
Both(P)  == {[t \in P |-> {o \in P : {o, t} \in E}] : E \in SUBSET Pairs(P)}

\* Links in one direction, as pruning leaves them.
OneWay(P) == {L \in [P -> SUBSET P] : \A t \in P : t \notin L[t]}

SymmetricGraphs(P) == {Index(P, L, D) : L \in Both(P), D \in [P -> 0..2]}
DirectedGraphs(P)  == {Index(P, L, D) : L \in OneWay(P), D \in [P -> 0..2]}

\* All linked to all, and an empty index.
Complete(P)   == [t \in P |-> P \ {t}]
EmptyIndex(P) == [dist |-> [t \in P |-> 0], level |-> Level(P), entry |-> 0,
                  links |-> [t \in P |-> [lc \in 0..Level(P)[t] |-> {}]]]
DenseGraphs(P) ==
  {Index(P, Complete(P), D) : D \in [P -> Distances]} \union {EmptyIndex(P)}

\* The values a server of this build runs with: HnswInit, which would set the
\* defaults of the settings, is never called.
Unset == [ef |-> 0, iterative |-> "off", maxTuples |-> 0, memoryFull |-> {FALSE},
          rows |-> 1, rescans |-> 1, vacuums |-> 0]

\* Relaxed order and no limit; strict order with limits that strike anywhere; an
\* iterative scan with a VACUUM.
Relaxed   == [Unset EXCEPT !.ef = 2, !.iterative = "relaxed", !.maxTuples = 100, !.rescans = 0]
Strict    == [Unset EXCEPT !.ef = 1, !.iterative = "strict", !.maxTuples = 3,
                           !.memoryFull = BOOLEAN, !.rows = 2]
Vacuumed  == [Relaxed EXCEPT !.ef = 1, !.vacuums = 1, !.rescans = 1]

AllSetups ==
  {[settings |-> Unset,    graphs |-> SymmetricGraphs(1..3)],
   [settings |-> Relaxed,  graphs |-> SymmetricGraphs(1..4)],
   [settings |-> Strict,   graphs |-> DirectedGraphs(1..3)],
   [settings |-> Vacuumed, graphs |-> DenseGraphs(1..3)]}
=============================================================================
