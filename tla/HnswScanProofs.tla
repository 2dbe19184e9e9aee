--------------------------- MODULE HnswScanProofs ---------------------------
(***************************************************************************)
(* Proofs about HnswScan: for every index and every setting a scan may     *)
(* begin with, what it returns, whatever VACUUM and inserts do meanwhile.  *)
(***************************************************************************)
EXTENDS HnswScan, FiniteSetTheorems, FunctionTheorems, SequenceTheorems, TLAPS

(***************************************************************************)
(* The parts of the inductive invariant.                                   *)
(***************************************************************************)
Used    == DOMAIN etup
RowsOf(t) == {t} \X Nat
ETuple  == [deleted : BOOLEAN, gen : Nat, version : 1..VersionMax, level : Nat, dist : Nat,
            rows : SUBSET (Places \X Nat)]

IndexType ==
  /\ Used \subseteq Places /\ etup \in [Used -> ETuple]
  /\ \A t \in Used : etup[t].rows \subseteq RowsOf(t)
  /\ DOMAIN links = Used
  /\ \A t \in Used : /\ links[t] \in [DOMAIN links[t] -> SUBSET Used]
                     /\ 0..etup[t].level \subseteq DOMAIN links[t]
  /\ entry \in Used \union {NoTid}

VacType ==
  /\ vac \in [phase : {"idle", "remove", "repair", "mark"}, dead : SUBSET Used, left : SUBSET Used]
  /\ count \in [rescans : Nat, vacuums : Nat]
  /\ setting \in Settings

\* A candidate is an element of the index, as it was when it was loaded.
Loaded(c) == c \in Candidates /\ c.tid \in Used /\ c.rows \subseteq RowsOf(c.tid)

ScanRecord ==
  [first : BOOLEAN, w : SUBSET Candidates, vis : SUBSET Used, disc : SUBSET Candidates,
   hasDisc : BOOLEAN, tuples : Nat, prev : Nat \union {-1}]
SearchRecord ==
  [lc : Nat, C : SUBSET Candidates, W : SUBSET Candidates, wlen : Nat, ef : Nat, unv : SUBSET Used]

ScanType ==
  /\ pc \in {"idle", "search", "fetch", "done", "error"}
  /\ so \in ScanRecord /\ srch \in SearchRecord
  /\ \A c \in srch.C \union srch.W \union so.w \union so.disc : Loaded(c)
  /\ \A c \in srch.C \union srch.W : c.level >= srch.lc
  /\ IsFiniteSet(srch.W) /\ IsFiniteSet(so.disc)
  /\ out \in Seq([row : Places \X Nat, dist : Nat])

Phase ==
  /\ locked = (pc = "search")
  /\ srch.unv \subseteq so.vis
  /\ pc \in {"idle", "fetch", "done"} => srch.unv = {} /\ srch.C = {}
  /\ srch.C # {} \/ srch.unv # {} => srch.W # {}
  /\ so.first => pc \in {"idle", "search", "error"} /\ out = <<>> /\ so.prev = -1
  /\ so.first /\ (pc = "idle" \/ (pc = "search" /\ srch.lc > 0)) => so.disc = {}
  /\ pc = "search" /\ ~so.first => so.w = {} /\ srch.lc = 0
  /\ pc = "search" /\ srch.lc = 0 /\ Iterative => so.hasDisc
  /\ ~so.hasDisc => so.disc = {}

ScanInv == IndexType /\ VacType /\ ScanType /\ Phase

\* Rows in order, none after the last distance.
OrderInv ==
  IterativeScan = "strict" =>
    /\ \A i \in DOMAIN out : out[i].dist <= so.prev
    /\ \A i, j \in DOMAIN out : i < j => out[i].dist <= out[j].dist

\* The elements met and loaded, what a scan has in hand of them, and those of which it
\* has returned no row.
Met   == so.vis \ srch.unv
Batch == IF pc = "search" THEN srch.W ELSE IF so.first THEN {} ELSE so.w
Whole == IF pc = "search" THEN srch.W \union so.disc ELSE so.disc

\* Each element is in hand once, and each row returned once.
OnceInv ==
  /\ Batch \intersect so.disc = {}
  /\ \A c, d \in Batch \union so.disc : c # d => c.tid # d.tid
  /\ \A c \in Batch \union so.disc : c.tid \in Met
  /\ \A i \in DOMAIN out : out[i].row[1] \in Met
  /\ \A i \in DOMAIN out : \A c \in Whole : c.tid # out[i].row[1]
  /\ \A i \in DOMAIN out : \A c \in Batch : out[i].row \notin c.rows
  /\ \A i, j \in DOMAIN out : i # j => out[i].row # out[j].row

\* A place is cleared at most once by a VACUUM.
Due == IF vac.phase = "mark" THEN vac.left ELSE vac.dead

\* The candidates of a search, and those kept for the next one.
Searched == srch.C \union srch.W \union so.disc

\* The version of a tuple is the one after that of the element it had before.
VersionInv ==
  /\ count.vacuums <= setting.vacuums /\ setting.vacuums < VersionMax
  /\ vac.phase = "idle" => vac.dead = {}
  /\ \A t \in Used : etup[t].gen <= count.vacuums /\ etup[t].version = etup[t].gen + 1
  /\ \A t \in Due : etup[t].gen < count.vacuums
  /\ \A c \in Searched : c.version = c.gen + 1

\* Before the first VACUUM, nothing changes.
Still ==
  count.vacuums = 0 =>
    /\ vac.phase = "idle"
    /\ \A t \in Used : ~etup[t].deleted
    /\ \A c \in Searched : c = Candidate(c.tid)
    /\ \A c \in Batch : c.dist = etup[c.tid].dist

Ef1 == IF srch.ef = 0 THEN 1 ELSE srch.ef

Expanded(t) == links[t][srch.lc] \subseteq so.vis

\* The search of a layer: what was met and is not in W is no nearer than W, and W is
\* full; what is in W is to be expanded, or was.
SearchInv ==
  count.vacuums = 0 /\ pc = "search" /\ so.first =>
    /\ srch.W # {} /\ Cardinality(srch.W) = IF srch.wlen < Ef1 THEN srch.wlen ELSE Ef1
    /\ srch.ef = IF srch.lc > 0 THEN 1 ELSE EfSearch
    /\ \A c \in srch.W : c \in srch.C \/ Expanded(c.tid)
    /\ srch.lc = 0 => \A t \in Met :
         \/ \E c \in srch.W : c.tid = t
         \/ srch.wlen >= Ef1 /\ \A d \in srch.W : d.dist <= etup[t].dist

\* A search has something to go on with, and the last one leaves nothing.
EndInv ==
  EfSearch > 0 =>
    /\ pc = "search" => srch.W # {}
    /\ Iterative /\ pc = "done" => Batch = {} /\ so.disc = {}

\* A row that was met is in the batch or the discarded heap, or returned, or too late.
Safe(t, r) ==
  \/ \E c \in Batch \union so.disc : c.tid = t /\ r \in c.rows
  \/ \E i \in DOMAIN out : out[i].row = r
  \/ IterativeScan = "strict" /\ etup[t].dist < so.prev

KeepInv ==
  Iterative /\ count.vacuums = 0 /\ (pc = "search" => srch.lc = 0) =>
    \A t \in Met : \A r \in etup[t].rows : Safe(t, r)

\* An element that was met was expanded, or waits to be.
Waiting(t) ==
  \/ links[t][0] \subseteq so.vis
  \/ \E c \in so.disc : c.tid = t
  \/ pc = "search" /\ \E c \in srch.C : c.tid = t

ReachInv ==
  Iterative /\ count.vacuums = 0 /\ MemoryFull = {FALSE} /\ so.tuples < MaxScanTuples
    /\ (pc = "search" => srch.lc = 0) =>
    /\ pc = "search" => srch.C \subseteq srch.W \union so.disc
    /\ \A t \in Met : Waiting(t)
-----------------------------------------------------------------------------
(***************************************************************************)
(* VACUUM and inserts keep the index in shape, and leave the scan alone.   *)
(***************************************************************************)
LEMMA TupleChange ==
  ASSUME NEW U, NEW E \in [U -> ETuple], NEW t \in U, NEW x \in ETuple
  PROVE  [E EXCEPT ![t] = x] \in [U -> ETuple]
  OBVIOUS

LEMMA VersionNext == \A v \in 1..VersionMax : NextVersion(v) \in 1..VersionMax
  BY ScanConstants DEF NextVersion

\* What is left alone of an index of which one element tuple or no tuple changes.
LEMMA IndexKept ==
  ASSUME IndexType, NEW t \in Used, NEW x \in ETuple, x.rows \subseteq RowsOf(t),
         x.level = 0 \/ x.level = etup[t].level,
         etup' = [etup EXCEPT ![t] = x], links' = links, entry' = entry
  PROVE  Used' = Used /\ IndexType'
<1>1. PICK U : U = Used
  OBVIOUS
<1>2. U \subseteq Places /\ etup \in [U -> ETuple] /\ DOMAIN links = U
  BY <1>1 DEF IndexType
<1>3. etup' \in [U -> ETuple] /\ Used' = U
  BY <1>1, <1>2, TupleChange DEF Used
<1>4. \A o \in U : etup'[o].rows \subseteq RowsOf(o)
  BY <1>1, <1>2 DEF IndexType
<1>5. \A o \in U : 0..etup'[o].level \subseteq DOMAIN links[o]
  <2>1. \A o \in U : o # t => etup'[o].level = etup[o].level
    BY <1>2
  <2>2. 0..etup[t].level \subseteq DOMAIN links[t] /\ etup[t].level \in Nat
    BY <1>1, <1>2 DEF IndexType, ETuple
  <2>3. 0..x.level \subseteq DOMAIN links[t]
    BY <2>2
  <2>4. QED
    BY <1>1, <1>2, <2>1, <2>3 DEF IndexType
<1>6. QED
  BY <1>1, <1>2, <1>3, <1>4, <1>5 DEF IndexType

LEMMA VacuumBeginType ==
  ASSUME ScanInv, VacuumBegin, UNCHANGED setting
  PROVE  Used' = Used /\ IndexType' /\ VacType' /\ UNCHANGED <<locked, pc, so, srch, out>>
<1>1. UNCHANGED <<etup, links, entry, locked, pc, so, srch, out>>
  BY DEF VacuumBegin, index
<1>2. Used' = Used /\ IndexType'
  BY <1>1 DEF ScanInv, IndexType, Used
<1>3. PICK D \in SUBSET Intact : vac' = [phase |-> "remove", dead |-> D, left |-> D]
  BY DEF VacuumBegin
<1>4. D \subseteq Used
  BY DEF Intact, Used
<1>5. count' \in [rescans : Nat, vacuums : Nat]
  BY DEF VacuumBegin, ScanInv, VacType
<1>6. QED
  BY <1>1, <1>2, <1>3, <1>4, <1>5 DEF ScanInv, VacType

LEMMA RemoveHeapTidsType ==
  ASSUME ScanInv, RemoveHeapTids, UNCHANGED setting
  PROVE  Used' = Used /\ IndexType' /\ VacType' /\ UNCHANGED <<locked, pc, so, srch, out>>
<1>1. UNCHANGED <<links, entry, locked, pc, so, srch, out, count>>
  BY DEF RemoveHeapTids
<1>2. PICK t \in vac.left :
       /\ etup' = [etup EXCEPT ![t].rows = {}]
       /\ vac' = IF vac.left = {t} THEN [vac EXCEPT !.phase = "repair", !.left = Intact \ vac.dead]
                 ELSE [vac EXCEPT !.left = @ \ {t}]
  BY DEF RemoveHeapTids
<1>3. t \in Used /\ etup[t] \in ETuple
  BY DEF ScanInv, VacType, IndexType
<1>4. PICK x : x = [etup[t] EXCEPT !.rows = {}]
  OBVIOUS
<1>5. x \in ETuple /\ x.rows = {} /\ x.level = etup[t].level
  BY <1>3, <1>4 DEF ETuple
<1>6. etup' = [etup EXCEPT ![t] = x]
  BY <1>2, <1>3, <1>4 DEF Used
<1>7. Used' = Used /\ IndexType'
  BY <1>1, <1>3, <1>5, <1>6, IndexKept DEF ScanInv
<1>8. VacType'
  <2>1. vac' \in [phase : {"idle", "remove", "repair", "mark"}, dead : SUBSET Used, left : SUBSET Used]
    <3>1. Intact \subseteq Used
      BY DEF Intact, Used
    <3>2. QED
      BY <1>2, <3>1 DEF ScanInv, VacType
  <2>2. QED
    BY <1>1, <1>7, <2>1 DEF ScanInv, VacType
<1>9. QED
  BY <1>1, <1>7, <1>8

\* A step that changes neighbor tuples only.
LEMMA LinksKept ==
  ASSUME IndexType, etup' = etup, entry' \in Used \union {NoTid}, DOMAIN links' = Used,
         \A t \in Used : links'[t] \in [DOMAIN links[t] -> SUBSET Used]
  PROVE  Used' = Used /\ IndexType'
<1>1. Used' = Used /\ \A t \in Used : DOMAIN links'[t] = DOMAIN links[t]
  BY DEF Used
<1>2. QED
  BY <1>1 DEF IndexType

LEMMA RepairGraphType ==
  ASSUME ScanInv, RepairGraph, UNCHANGED setting
  PROVE  Used' = Used /\ IndexType' /\ VacType' /\ UNCHANGED <<locked, pc, so, srch, out>>
<1>1. UNCHANGED <<etup, entry, locked, pc, so, srch, out, count>>
  BY DEF RepairGraph
<1>2. PICK t \in vac.left :
       /\ links' = [links EXCEPT ![t] = [lc \in DOMAIN links[t] |->
            IF links[t][lc] \intersect vac.dead = {} THEN links[t][lc] ELSE Stay(lc) \ {t}]]
       /\ vac' = [vac EXCEPT !.left = @ \ {t}]
  BY DEF RepairGraph
<1>3. DOMAIN links = Used /\ t \in Used
  BY DEF ScanInv, IndexType, VacType
<1>4. \A o \in Used : links[o] \in [DOMAIN links[o] -> SUBSET Used]
  BY DEF ScanInv, IndexType
<1>5. \A lc : Stay(lc) \subseteq Used
  BY DEF Stay, Intact, Used
<1>6. PICK n : n = [lc \in DOMAIN links[t] |->
            IF links[t][lc] \intersect vac.dead = {} THEN links[t][lc] ELSE Stay(lc) \ {t}]
  OBVIOUS
<1>7. n \in [DOMAIN links[t] -> SUBSET Used]
  BY <1>3, <1>4, <1>5, <1>6
<1>8. links' = [links EXCEPT ![t] = n]
  BY <1>2, <1>6
<1>9. DOMAIN links' = Used /\ \A o \in Used : links'[o] \in [DOMAIN links[o] -> SUBSET Used]
  BY <1>3, <1>4, <1>7, <1>8
<1>10. Used' = Used /\ IndexType'
  BY <1>1, <1>9, LinksKept DEF ScanInv, IndexType
<1>11. VacType'
  BY <1>1, <1>2, <1>10 DEF ScanInv, VacType
<1>12. QED
  BY <1>1, <1>10, <1>11

LEMMA WaitForScansType ==
  ASSUME ScanInv, WaitForScans, UNCHANGED setting
  PROVE  Used' = Used /\ IndexType' /\ VacType' /\ UNCHANGED <<locked, pc, so, srch, out>>
<1>1. UNCHANGED <<etup, links, locked, pc, so, srch, out, count>>
  BY DEF WaitForScans
<1>2. Stay(0) \subseteq Used
  BY DEF Stay, Intact, Used
<1>3. entry' \in Used \union {NoTid}
  BY <1>2 DEF WaitForScans, ScanInv, IndexType
<1>4. Used' = Used /\ IndexType'
  BY <1>1, <1>3, LinksKept DEF ScanInv, IndexType
<1>5. vac' = [vac EXCEPT !.phase = "mark", !.left = vac.dead]
  BY DEF WaitForScans
<1>6. VacType'
  BY <1>1, <1>4, <1>5 DEF ScanInv, VacType
<1>7. QED
  BY <1>1, <1>4, <1>6

LEMMA MarkDeletedType ==
  ASSUME ScanInv, MarkDeleted, UNCHANGED setting
  PROVE  Used' = Used /\ IndexType' /\ VacType' /\ UNCHANGED <<locked, pc, so, srch, out>>
<1>1. UNCHANGED <<entry, locked, pc, so, srch, out, count>>
  BY DEF MarkDeleted
<1>2. PICK t \in vac.left :
       /\ etup' = [etup EXCEPT ![t].deleted = TRUE, ![t].gen = @ + 1, ![t].version = NextVersion(@)]
       /\ links' = [links EXCEPT ![t] = [lc \in DOMAIN links[t] |-> {}]]
       /\ vac' = IF vac.left = {t} THEN [phase |-> "idle", dead |-> {}, left |-> {}]
                 ELSE [vac EXCEPT !.left = @ \ {t}]
  BY DEF MarkDeleted
<1>3. t \in Used /\ etup[t] \in ETuple /\ DOMAIN links = Used
  BY DEF ScanInv, VacType, IndexType
<1>4. PICK x : x = [etup[t] EXCEPT !.deleted = TRUE, !.gen = @ + 1, !.version = NextVersion(@)]
  OBVIOUS
<1>5. x \in ETuple /\ x.rows = etup[t].rows /\ x.level = etup[t].level
  <2>1. PICK v \in 1..VersionMax : v = NextVersion(etup[t].version)
    BY <1>3, VersionNext DEF ETuple
  <2>2. PICK g \in Nat : g = etup[t].gen + 1
    BY <1>3 DEF ETuple
  <2>3. x = [etup[t] EXCEPT !.deleted = TRUE, !.gen = g, !.version = v]
    BY <1>3, <1>4, <2>1, <2>2 DEF ETuple
  <2>4. QED
    BY <1>3, <2>3 DEF ETuple
<1>6. etup' = [etup EXCEPT ![t] = x]
  BY <1>2, <1>3, <1>4 DEF Used
<1>7. Used' = Used /\ etup' \in [Used -> ETuple]
  BY <1>3, <1>5, <1>6, TupleChange DEF ScanInv, IndexType, Used
<1>8. \A o \in Used : etup'[o].rows = etup[o].rows /\ etup'[o].level = etup[o].level
  BY <1>3, <1>5, <1>6 DEF Used
<1>9. \A o \in Used : links[o] \in [DOMAIN links[o] -> SUBSET Used]
  BY DEF ScanInv, IndexType
<1>10. DOMAIN links' = Used /\ \A o \in Used : links'[o] \in [DOMAIN links[o] -> SUBSET Used]
  BY <1>2, <1>3, <1>9
<1>11. \A o \in Used : DOMAIN links'[o] = DOMAIN links[o]
  BY <1>10
<1>12. IndexType'
  BY <1>1, <1>7, <1>8, <1>10, <1>11 DEF ScanInv, IndexType
<1>13. VacType'
  BY <1>1, <1>2, <1>7 DEF ScanInv, VacType
<1>14. QED
  BY <1>1, <1>7, <1>12, <1>13

LEMMA ReusePlaceType ==
  ASSUME ScanInv, ReusePlace, UNCHANGED setting
  PROVE  Used' = Used /\ IndexType' /\ VacType' /\ UNCHANGED <<locked, pc, so, srch, out>>
<1>1. UNCHANGED <<locked, pc, so, srch, out, vac, count>>
  BY DEF ReusePlace
<1>2. PICK t \in Used, d \in Distances :
       /\ etup' = [etup EXCEPT ![t] = [@ EXCEPT !.deleted = FALSE, !.level = 0, !.dist = d,
                                                !.rows = {<<t, etup[t].gen + RowsPerElement>>}]]
       /\ links' = [o \in DOMAIN links |->
            IF o = t THEN [lc \in DOMAIN links[t] |-> IF lc = 0 THEN Intact ELSE {}]
            ELSE IF etup[o].deleted \/ etup[o].rows = {} THEN links[o]
            ELSE [links[o] EXCEPT ![0] = @ \union {t}]]
       /\ entry' = IF entry = NoTid THEN t ELSE entry
  BY DEF ReusePlace, Used
<1>3. etup[t] \in ETuple /\ DOMAIN links = Used /\ Used \subseteq Places /\ d \in Nat
  BY ScanConstants DEF ScanInv, IndexType
<1>4. PICK x : x = [etup[t] EXCEPT !.deleted = FALSE, !.level = 0, !.dist = d,
                                   !.rows = {<<t, etup[t].gen + RowsPerElement>>}]
  OBVIOUS
<1>5. x \in ETuple /\ x.rows \subseteq RowsOf(t) /\ x.level = 0
  <2>1. etup[t].gen + RowsPerElement \in Nat
    BY <1>3 DEF ETuple, RowsPerElement, ScanInv, VacType, Settings
  <2>2. {<<t, etup[t].gen + RowsPerElement>>} \in SUBSET (Places \X Nat)
    BY <1>3, <2>1
  <2>3. {<<t, etup[t].gen + RowsPerElement>>} \subseteq RowsOf(t)
    BY <2>1 DEF RowsOf
  <2>4. x.rows = {<<t, etup[t].gen + RowsPerElement>>} /\ x.level = 0
    BY <1>3, <1>4 DEF ETuple
  <2>5. x \in ETuple
    BY <1>3, <1>4, <2>2 DEF ETuple
  <2>6. QED
    BY <2>3, <2>4, <2>5
<1>6. etup' = [etup EXCEPT ![t] = x]
  BY <1>2, <1>4 DEF Used
<1>7. Used' = Used /\ etup' \in [Used -> ETuple]
  BY <1>5, <1>6, TupleChange DEF ScanInv, IndexType, Used
<1>8. \A o \in Used : o # t => etup'[o] = etup[o]
  BY <1>6 DEF Used
<1>9. etup'[t] = x
  BY <1>6 DEF Used
<1>10. \A o \in Used : /\ links[o] \in [DOMAIN links[o] -> SUBSET Used] /\ 0..etup[o].level \subseteq DOMAIN links[o]
                       /\ etup[o].level \in Nat
  BY DEF ScanInv, IndexType, ETuple
<1>11. Intact \subseteq Used
  BY DEF Intact, Used
<1>12. ASSUME NEW o \in Used PROVE links'[o] \in [DOMAIN links[o] -> SUBSET Used]
  <2>1. CASE o = t
    BY <1>2, <1>3, <1>11, <2>1
  <2>2. CASE o # t /\ (etup[o].deleted \/ etup[o].rows = {})
    BY <1>2, <1>3, <1>10, <2>2
  <2>3. CASE o # t /\ ~(etup[o].deleted \/ etup[o].rows = {})
    <3>1. links'[o] = [links[o] EXCEPT ![0] = @ \union {t}]
      BY <1>2, <1>3, <2>3
    <3>2. 0 \in DOMAIN links[o]
      BY <1>10
    <3>3. QED
      BY <1>10, <3>1, <3>2
  <2>4. QED
    BY <2>1, <2>2, <2>3
<1>13. \A o \in Used : 0..etup'[o].level \subseteq DOMAIN links[o]
  <2>1. 0..x.level \subseteq DOMAIN links[t]
    BY <1>5, <1>10
  <2>2. QED
    BY <1>8, <1>9, <1>10, <2>1
<1>14. \A o \in Used : etup'[o].rows \subseteq RowsOf(o)
  BY <1>5, <1>8, <1>9 DEF ScanInv, IndexType
<1>15. entry' \in Used \union {NoTid} /\ DOMAIN links' = Used
  BY <1>2, <1>3 DEF ScanInv, IndexType
<1>16. IndexType'
  <2>1. \A o \in Used : DOMAIN links'[o] = DOMAIN links[o]
    BY <1>12
  <2>2. QED
    BY <1>3, <1>7, <1>12, <1>13, <1>14, <1>15, <2>1 DEF IndexType
<1>17. VacType'
  BY <1>1, <1>7 DEF ScanInv, VacType
<1>18. QED
  BY <1>1, <1>7, <1>16, <1>17

LEMMA VacuumType ==
  ASSUME ScanInv, VacuumAndInserts, UNCHANGED setting
  PROVE  Used' = Used /\ IndexType' /\ VacType' /\ UNCHANGED <<locked, pc, so, srch, out>>
  BY VacuumBeginType, RemoveHeapTidsType, RepairGraphType, WaitForScansType, MarkDeletedType,
     ReusePlaceType DEF VacuumAndInserts
-----------------------------------------------------------------------------
(***************************************************************************)
(* The steps of the scan, field by field.                                  *)
(***************************************************************************)
Tids(S) == {c.tid : c \in S}

LEMMA BeginEffect ==
  ASSUME ScanType, NEW ep \in SUBSET Candidates, IsFiniteSet(ep), NEW lc \in Nat, NEW init \in BOOLEAN,
         \A c \in ep : c.tid \in Used, setting \in Settings, BeginLayer(ep, lc, init)
  PROVE  /\ pc' = "search" /\ so' \in ScanRecord /\ srch' \in SearchRecord
         /\ srch'.lc = lc /\ srch'.C = ep /\ srch'.W = ep /\ srch'.wlen = Cardinality(ep)
         /\ srch'.ef = (IF lc > 0 THEN 1 ELSE EfSearch) /\ srch'.unv = {}
         /\ so'.first = so.first /\ so'.w = so.w /\ so'.disc = so.disc \ ep /\ so'.prev = so.prev
         /\ so'.vis = (IF init THEN Tids(ep) ELSE so.vis)
         /\ so'.tuples >= so.tuples
         /\ lc = 0 /\ Iterative => so'.hasDisc
         /\ so.hasDisc => so'.hasDisc
<1>1. so \in ScanRecord /\ Cardinality(ep) \in Nat /\ EfSearch \in Nat
  BY FS_CardinalityType DEF ScanType, EfSearch, Settings
<1>2. PICK v \in SUBSET Used : v = IF init THEN Tids(ep) ELSE so.vis
  BY <1>1 DEF ScanRecord, Tids
<1>3. so.tuples \in Nat
  BY <1>1 DEF ScanRecord
<1>4. PICK n \in Nat : n = IF init /\ lc = 0 THEN so.tuples + Cardinality(ep) ELSE so.tuples
  BY <1>1, <1>3
<1>5. PICK h \in BOOLEAN : h = (so.hasDisc \/ (lc = 0 /\ Iterative))
  OBVIOUS
<1>6. PICK e \in Nat : e = IF lc > 0 THEN 1 ELSE EfSearch
  BY <1>1
<1>7. so' = [so EXCEPT !.vis = v, !.tuples = n, !.hasDisc = h, !.disc = @ \ ep]
  BY <1>1, <1>2, <1>4, <1>5 DEF BeginLayer, ScanRecord, Tids
<1>8. srch' = [lc |-> lc, C |-> ep, W |-> ep, wlen |-> Cardinality(ep), ef |-> e, unv |-> {}]
  BY <1>6 DEF BeginLayer
<1>9. srch' \in SearchRecord
  BY <1>1, <1>8 DEF SearchRecord
<1>10. so' \in ScanRecord
  BY <1>1, <1>7 DEF ScanRecord
<1>11. /\ so'.first = so.first /\ so'.w = so.w /\ so'.disc = so.disc \ ep /\ so'.prev = so.prev
       /\ so'.vis = v /\ so'.tuples = n /\ so'.hasDisc = h
  BY <1>1, <1>7 DEF ScanRecord
<1>12. n >= so.tuples
  BY <1>1, <1>3, <1>4
<1>13. (lc = 0 /\ Iterative => so'.hasDisc) /\ (so.hasDisc => so'.hasDisc)
  BY <1>5, <1>11
<1>14. pc' = "search"
  BY DEF BeginLayer
<1>15. QED
  BY <1>2, <1>6, <1>8, <1>9, <1>10, <1>11, <1>12, <1>13, <1>14

LEMMA ExpandEffect ==
  ASSUME ScanInv, ExpandNearest
  PROVE  /\ UNCHANGED <<etup, links, entry, locked, pc, out, vac, count>> /\ pc = "search" /\ srch.unv = {}
         /\ so' \in ScanRecord /\ srch' \in SearchRecord
         /\ \E c \in NearestOf(srch.C), f \in FurthestOf(srch.W), new \in SUBSET (Used \ so.vis) :
              /\ ~Beyond(c, f) /\ new = IF OwnTuple(c) THEN links[c.tid][srch.lc] \ so.vis ELSE {}
              /\ srch'.C = srch.C \ {c} /\ srch'.unv = new /\ so'.vis = so.vis \union new
         /\ srch'.lc = srch.lc /\ srch'.W = srch.W /\ srch'.wlen = srch.wlen /\ srch'.ef = srch.ef
         /\ so'.first = so.first /\ so'.w = so.w /\ so'.disc = so.disc /\ so'.hasDisc = so.hasDisc
         /\ so'.prev = so.prev /\ so'.tuples >= so.tuples
<1>1. UNCHANGED <<etup, links, entry, locked, pc, out, vac, count>> /\ pc = "search" /\ srch.unv = {}
  BY DEF ExpandNearest, index
<1>2. PICK c, f, new :
       /\ c \in NearestOf(srch.C) /\ f \in FurthestOf(srch.W)
       /\ new = IF OwnTuple(c) THEN links[c.tid][srch.lc] \ so.vis ELSE {}
       /\ ~Beyond(c, f)
       /\ srch' = [srch EXCEPT !.C = @ \ {c}, !.unv = new]
       /\ so' = [so EXCEPT !.vis = @ \union new,
                           !.tuples = IF srch.lc = 0 THEN @ + Cardinality(new) ELSE @]
  BY DEF ExpandNearest
<1>3. so \in ScanRecord /\ srch \in SearchRecord /\ c \in srch.C
  BY <1>2 DEF ScanInv, ScanType, NearestOf
<1>4. Loaded(c) /\ c.level >= srch.lc /\ c.level \in Nat /\ srch.lc \in Nat
  BY <1>3 DEF ScanInv, ScanType, Loaded, Candidates, SearchRecord
<1>5. new \subseteq Used \ so.vis
  <2>1. CASE OwnTuple(c)
    <3>1. etup[c.tid].level = c.level /\ c.tid \in Used
      BY <1>4, <2>1 DEF OwnTuple, Loaded
    <3>2. srch.lc \in DOMAIN links[c.tid]
      BY <1>4, <3>1 DEF ScanInv, IndexType
    <3>3. links[c.tid][srch.lc] \subseteq Used
      BY <3>1, <3>2 DEF ScanInv, IndexType
    <3>4. QED
      BY <1>2, <3>3
  <2>2. CASE ~OwnTuple(c)
    BY <1>2, <2>2
  <2>3. QED
    BY <2>1, <2>2
<1>6. Cardinality(new) \in Nat
  <2>1. IsFiniteSet(new)
    BY <1>5, ScanConstants, FS_Subset DEF ScanInv, IndexType
  <2>2. QED
    BY <2>1, FS_CardinalityType
<1>7. so.tuples \in Nat
  BY <1>3 DEF ScanRecord
<1>8. PICK n \in Nat : n = IF srch.lc = 0 THEN so.tuples + Cardinality(new) ELSE so.tuples
  BY <1>6, <1>7
<1>9. n >= so.tuples
  BY <1>6, <1>7, <1>8
<1>10. so' = [so EXCEPT !.vis = @ \union new, !.tuples = n]
  BY <1>2, <1>3, <1>8 DEF ScanRecord
<1>11. so.vis \union new \in SUBSET Used
  BY <1>3, <1>5 DEF ScanRecord
<1>12. so' \in ScanRecord
  BY <1>3, <1>10, <1>11 DEF ScanRecord
<1>13. srch' \in SearchRecord
  BY <1>2, <1>3, <1>5 DEF SearchRecord
<1>14. /\ srch'.C = srch.C \ {c} /\ srch'.unv = new
       /\ srch'.lc = srch.lc /\ srch'.W = srch.W /\ srch'.wlen = srch.wlen /\ srch'.ef = srch.ef
  BY <1>2, <1>3 DEF SearchRecord
<1>15. /\ so'.vis = so.vis \union new /\ so'.first = so.first /\ so'.w = so.w /\ so'.disc = so.disc
       /\ so'.hasDisc = so.hasDisc /\ so'.prev = so.prev /\ so'.tuples = n
  BY <1>3, <1>10 DEF ScanRecord
<1>16. \E c2 \in NearestOf(srch.C), f2 \in FurthestOf(srch.W), new2 \in SUBSET (Used \ so.vis) :
              /\ ~Beyond(c2, f2) /\ new2 = IF OwnTuple(c2) THEN links[c2.tid][srch.lc] \ so.vis ELSE {}
              /\ srch'.C = srch.C \ {c2} /\ srch'.unv = new2 /\ so'.vis = so.vis \union new2
  BY <1>2, <1>5, <1>14, <1>15
<1>17. QED
  BY <1>1, <1>9, <1>12, <1>13, <1>14, <1>15, <1>16

\* A candidate as loaded.
LEMMA CandidateFact ==
  ASSUME IndexType, NEW t \in Used
  PROVE  /\ Candidate(t) \in Candidates /\ Loaded(Candidate(t))
         /\ Candidate(t).tid = t /\ Candidate(t).gen = etup[t].gen /\ Candidate(t).version = etup[t].version
         /\ Candidate(t).level = etup[t].level /\ Candidate(t).dist = etup[t].dist
         /\ Candidate(t).rows = etup[t].rows
<1>1. etup[t] \in ETuple /\ t \in Places /\ etup[t].rows \subseteq RowsOf(t)
  BY DEF IndexType
<1>2. Candidate(t) \in Candidates
  BY <1>1 DEF Candidate, Candidates, ETuple
<1>3. QED
  BY <1>1, <1>2 DEF Candidate, Loaded

\* What is kept of D for a later batch.
Kept(D) == IF srch.lc = 0 /\ Iterative THEN D ELSE {}

LEMMA DiscardEffect ==
  ASSUME so \in ScanRecord, NEW D \in SUBSET Candidates, so' = Discard(D)
  PROVE  /\ so' \in ScanRecord /\ so'.disc = so.disc \union Kept(D)
         /\ so'.first = so.first /\ so'.w = so.w /\ so'.vis = so.vis /\ so'.hasDisc = so.hasDisc
         /\ so'.prev = so.prev /\ so'.tuples = so.tuples
<1>1. CASE srch.lc = 0 /\ Iterative
  <2>1. so' = [so EXCEPT !.disc = @ \union D] /\ Kept(D) = D
    BY <1>1 DEF Discard, Kept
  <2>2. QED
    BY <2>1 DEF ScanRecord
<1>2. CASE ~(srch.lc = 0 /\ Iterative)
  BY <1>2 DEF Discard, Kept
<1>3. QED
  BY <1>1, <1>2

\* Either e, which was t's element, is left out of W, or it gets in and D makes room.
LoadRefused(t, e, f) ==
  /\ ~Wanted(e, f)
  /\ srch'.C = srch.C /\ srch'.W = srch.W /\ srch'.wlen = srch.wlen
  /\ so'.disc = so.disc \union IF Nearer(e, f) THEN {} ELSE Kept({e})

LoadTaken(e, f, D) ==
  /\ Wanted(e, f)
  /\ srch'.C = srch.C \union {e} /\ srch'.W = (srch.W \union {e}) \ D /\ srch'.wlen = srch.wlen + 1
  /\ \/ srch.wlen + 1 <= srch.ef /\ D = {}
     \/ srch.wlen + 1 > srch.ef /\ \E d \in FurthestOf(srch.W \union {e}) : D = {d}
  /\ so'.disc = so.disc \union Kept(D)

LEMMA LoadEffect ==
  ASSUME ScanInv, LoadUnvisited
  PROVE  /\ UNCHANGED <<etup, links, entry, locked, pc, out, vac, count>> /\ pc = "search"
         /\ so' \in ScanRecord /\ srch' \in SearchRecord
         /\ \E t \in srch.unv, f \in FurthestOf(srch.W) :
              /\ srch'.unv = srch.unv \ {t}
              /\ \/ LoadRefused(t, Candidate(t), f)
                 \/ \E D \in SUBSET (srch.W \union {Candidate(t)}) : LoadTaken(Candidate(t), f, D)
         /\ srch'.lc = srch.lc /\ srch'.ef = srch.ef
         /\ so'.first = so.first /\ so'.w = so.w /\ so'.vis = so.vis /\ so'.hasDisc = so.hasDisc
         /\ so'.prev = so.prev /\ so'.tuples = so.tuples
<1>1. UNCHANGED <<etup, links, entry, locked, pc, out, vac, count>> /\ pc = "search"
  BY DEF LoadUnvisited, index
<1>2. so \in ScanRecord /\ srch \in SearchRecord
  BY DEF ScanInv, ScanType
<1>3. PICK t, f, e :
       /\ t \in srch.unv /\ f \in FurthestOf(srch.W)
       /\ e = Candidate(t)
       /\ \/ /\ ~Wanted(e, f)
             /\ so' = IF Nearer(e, f) THEN so ELSE Discard({e})
             /\ srch' = [srch EXCEPT !.unv = @ \ {t}]
          \/ /\ Wanted(e, f)
             /\ \E d \in FurthestOf(srch.W \union {e}) :
                  LET D == IF srch.wlen + 1 > srch.ef THEN {d} ELSE {} IN
                  /\ srch' = [srch EXCEPT !.unv = @ \ {t}, !.C = @ \union {e},
                                          !.W = (@ \union {e}) \ D, !.wlen = @ + 1]
                  /\ so' = Discard(D)
  BY Zenon DEF LoadUnvisited
<1>4. t \in Used /\ e \in Candidates
  BY <1>2, <1>3, CandidateFact DEF ScanInv, SearchRecord
<1>5. CASE /\ ~Wanted(e, f)
           /\ so' = IF Nearer(e, f) THEN so ELSE Discard({e})
           /\ srch' = [srch EXCEPT !.unv = @ \ {t}]
  <2>1. /\ srch' \in SearchRecord /\ srch'.unv = srch.unv \ {t} /\ srch'.lc = srch.lc /\ srch'.ef = srch.ef
        /\ srch'.C = srch.C /\ srch'.W = srch.W /\ srch'.wlen = srch.wlen
    BY <1>2, <1>5 DEF SearchRecord
  <2>2. /\ so' \in ScanRecord /\ so'.disc = so.disc \union IF Nearer(e, f) THEN {} ELSE Kept({e})
        /\ so'.first = so.first /\ so'.w = so.w /\ so'.vis = so.vis /\ so'.hasDisc = so.hasDisc
        /\ so'.prev = so.prev /\ so'.tuples = so.tuples
    <3>1. CASE Nearer(e, f)
      BY <1>2, <1>5, <3>1
    <3>2. CASE ~Nearer(e, f)
      BY <1>2, <1>4, <1>5, <3>2, DiscardEffect
    <3>3. QED
      BY <3>1, <3>2
  <2>3. LoadRefused(t, e, f)
    BY <1>5, <2>1, <2>2 DEF LoadRefused
  <2>4. QED
    BY <1>1, <1>3, <2>1, <2>2, <2>3
<1>6. CASE /\ Wanted(e, f)
           /\ \E d \in FurthestOf(srch.W \union {e}) :
                  LET D == IF srch.wlen + 1 > srch.ef THEN {d} ELSE {} IN
                  /\ srch' = [srch EXCEPT !.unv = @ \ {t}, !.C = @ \union {e},
                                          !.W = (@ \union {e}) \ D, !.wlen = @ + 1]
                  /\ so' = Discard(D)
  <2>1. PICK d, D :
          /\ d \in FurthestOf(srch.W \union {e})
          /\ D = IF srch.wlen + 1 > srch.ef THEN {d} ELSE {}
          /\ srch' = [srch EXCEPT !.unv = @ \ {t}, !.C = @ \union {e}, !.W = (@ \union {e}) \ D, !.wlen = @ + 1]
          /\ so' = Discard(D)
    BY <1>6
  <2>2. srch.wlen \in Nat /\ srch.ef \in Nat /\ d \in srch.W \union {e} /\ srch.W \subseteq Candidates
    BY <1>2, <2>1 DEF SearchRecord, FurthestOf
  <2>3. D \in SUBSET (srch.W \union {e}) /\ D \in SUBSET Candidates
    BY <1>4, <2>1, <2>2
  <2>4. \/ srch.wlen + 1 <= srch.ef /\ D = {}
        \/ srch.wlen + 1 > srch.ef /\ \E x \in FurthestOf(srch.W \union {e}) : D = {x}
    BY <2>1, <2>2
  <2>5. PICK n \in Nat : n = srch.wlen + 1
    BY <2>2
  <2>6. srch' = [srch EXCEPT !.unv = @ \ {t}, !.C = @ \union {e}, !.W = (@ \union {e}) \ D, !.wlen = n]
    BY <1>2, <2>1, <2>5 DEF SearchRecord
  <2>7. /\ srch' \in SearchRecord /\ srch'.unv = srch.unv \ {t} /\ srch'.lc = srch.lc /\ srch'.ef = srch.ef
        /\ srch'.C = srch.C \union {e} /\ srch'.W = (srch.W \union {e}) \ D /\ srch'.wlen = n
    BY <1>2, <1>4, <2>6 DEF SearchRecord
  <2>8. /\ so' \in ScanRecord /\ so'.disc = so.disc \union Kept(D)
        /\ so'.first = so.first /\ so'.w = so.w /\ so'.vis = so.vis /\ so'.hasDisc = so.hasDisc
        /\ so'.prev = so.prev /\ so'.tuples = so.tuples
    BY <1>2, <2>1, <2>3, DiscardEffect
  <2>9. LoadTaken(e, f, D)
    BY <1>6, <2>4, <2>5, <2>7, <2>8 DEF LoadTaken
  <2>10. QED
    BY <1>1, <1>3, <2>3, <2>7, <2>8, <2>9
<1>7. QED
  BY <1>3, <1>5, <1>6
LEMMA FirstEffect ==
  ASSUME ScanInv, FirstCall
  PROVE  /\ UNCHANGED <<etup, links, entry, out, vac, count>> /\ pc = "idle" /\ so.first
         /\ \/ /\ entry = NoTid /\ pc' = "fetch" /\ UNCHANGED <<srch, locked>> /\ so' \in ScanRecord
               /\ so'.first = FALSE /\ so'.w = {} /\ so'.vis = so.vis /\ so'.disc = so.disc
               /\ so'.hasDisc = so.hasDisc /\ so'.tuples = so.tuples /\ so'.prev = so.prev
            \/ /\ entry \in Used /\ locked' = TRUE
               /\ BeginLayer({Candidate(entry)}, etup[entry].level, TRUE)
<1>1. UNCHANGED <<etup, links, entry, out, vac, count>> /\ pc = "idle" /\ so.first
  BY DEF FirstCall, index
<1>2. so \in ScanRecord /\ entry \in Used \union {NoTid}
  BY DEF ScanInv, ScanType, IndexType
<1>3. CASE entry = NoTid
  <2>1. so' = [so EXCEPT !.first = FALSE, !.w = {}] /\ pc' = "fetch" /\ UNCHANGED <<srch, locked>>
    BY <1>3 DEF FirstCall
  <2>2. /\ so' \in ScanRecord /\ so'.first = FALSE /\ so'.w = {} /\ so'.vis = so.vis /\ so'.disc = so.disc
        /\ so'.hasDisc = so.hasDisc /\ so'.tuples = so.tuples /\ so'.prev = so.prev
    BY <1>2, <2>1 DEF ScanRecord
  <2>3. QED
    BY <1>1, <1>3, <2>1, <2>2
<1>4. CASE entry # NoTid
  BY <1>1, <1>2, <1>4 DEF FirstCall
<1>5. QED
  BY <1>3, <1>4

LEMMA BatchEffect ==
  ASSUME ScanInv, BatchDone
  PROVE  /\ UNCHANGED <<etup, links, entry, out, vac, count>> /\ LayerDone /\ srch.lc = 0
         /\ pc = "search" /\ srch.unv = {} /\ locked' = FALSE /\ srch' = NoSearch /\ srch' \in SearchRecord
         /\ pc' = IF srch.W = {} THEN "done" ELSE "fetch"
         /\ so' \in ScanRecord /\ so'.first = FALSE /\ so'.w = srch.W /\ so'.vis = so.vis
         /\ so'.disc = so.disc /\ so'.hasDisc = so.hasDisc /\ so'.tuples = so.tuples /\ so'.prev = so.prev
<1>1. /\ UNCHANGED <<etup, links, entry, out, vac, count>> /\ LayerDone /\ srch.lc = 0
      /\ locked' = FALSE /\ srch' = NoSearch /\ pc' = IF srch.W = {} THEN "done" ELSE "fetch"
      /\ so' = [so EXCEPT !.w = srch.W, !.first = FALSE]
  BY DEF BatchDone, index
<1>2. so \in ScanRecord /\ srch.W \subseteq Candidates
  BY DEF ScanInv, ScanType, SearchRecord
<1>3. /\ so' \in ScanRecord /\ so'.first = FALSE /\ so'.w = srch.W /\ so'.vis = so.vis
      /\ so'.disc = so.disc /\ so'.hasDisc = so.hasDisc /\ so'.tuples = so.tuples /\ so'.prev = so.prev
  BY <1>1, <1>2 DEF ScanRecord
<1>4. pc = "search" /\ srch.unv = {}
  BY <1>1 DEF LayerDone
<1>5. srch' \in SearchRecord
  BY <1>1 DEF NoSearch, SearchRecord
<1>6. QED
  BY <1>1, <1>3, <1>4, <1>5

LEMMA RemainingEffect ==
  ASSUME ScanInv, ReturnRemaining
  PROVE  /\ UNCHANGED <<etup, links, entry, locked, pc, srch, out, vac, count>> /\ pc = "fetch"
         /\ so.w = {} /\ Iterative
         /\ \E full \in MemoryFull : LimitReached(full)
         /\ so' \in ScanRecord
         /\ \E c \in so.disc : so'.w = {c} /\ so'.disc = so.disc \ {c}
         /\ so'.first = so.first /\ so'.vis = so.vis /\ so'.hasDisc = so.hasDisc
         /\ so'.tuples = so.tuples /\ so'.prev = so.prev
<1>1. /\ UNCHANGED <<etup, links, entry, locked, pc, srch, out, vac, count>> /\ pc = "fetch"
      /\ so.w = {} /\ Iterative
  BY DEF ReturnRemaining, index
<1>2. \E full \in MemoryFull : LimitReached(full)
  BY DEF ReturnRemaining
<1>3. PICK c \in so.disc : so' = [so EXCEPT !.w = {c}, !.disc = @ \ {c}]
  BY DEF ReturnRemaining, NearestOf
<1>4. so \in ScanRecord /\ c \in Candidates
  BY DEF ScanInv, ScanType, ScanRecord
<1>5. /\ so' \in ScanRecord /\ so'.w = {c} /\ so'.disc = so.disc \ {c}
      /\ so'.first = so.first /\ so'.vis = so.vis /\ so'.hasDisc = so.hasDisc
      /\ so'.tuples = so.tuples /\ so'.prev = so.prev
  BY <1>3, <1>4 DEF ScanRecord
<1>6. QED
  BY <1>1, <1>2, <1>5

LEMMA ResumeEffect ==
  ASSUME ScanInv, Resume
  PROVE  /\ UNCHANGED <<etup, links, entry, out, vac, count>> /\ pc = "fetch" /\ locked' = TRUE
         /\ so.w = {} /\ Iterative /\ so.disc # {}
         /\ \E ep \in SUBSET so.disc :
              /\ BeginLayer(ep, 0, FALSE) /\ IsFiniteSet(ep)
              /\ Cardinality(ep) = IF Cardinality(so.disc) < EfSearch THEN Cardinality(so.disc) ELSE EfSearch
              /\ \A b \in ep, s \in so.disc \ ep : b.dist <= s.dist
<1>1. /\ UNCHANGED <<etup, links, entry, out, vac, count>> /\ pc = "fetch" /\ locked' = TRUE
      /\ so.w = {} /\ Iterative /\ so.disc # {}
  BY DEF Resume, index
<1>2. PICK ep \in FirstOf(so.disc, EfSearch) : BeginLayer(ep, 0, FALSE)
  BY DEF Resume
<1>3. /\ ep \in SUBSET so.disc
      /\ Cardinality(ep) = IF Cardinality(so.disc) < EfSearch THEN Cardinality(so.disc) ELSE EfSearch
      /\ \A b \in ep, s \in so.disc \ ep : b.dist <= s.dist
  BY DEF FirstOf
<1>4. IsFiniteSet(ep)
  BY <1>3, FS_Subset DEF ScanInv, ScanType
<1>5. QED
  BY <1>1, <1>2, <1>3, <1>4

LEMMA SkipEffect ==
  ASSUME ScanInv, SkipElement
  PROVE  /\ UNCHANGED <<etup, links, entry, locked, pc, srch, out, vac, count>> /\ pc = "fetch"
         /\ so' \in ScanRecord
         /\ \E c \in so.w : c.rows = {} /\ so'.w = so.w \ {c}
         /\ so'.first = so.first /\ so'.vis = so.vis /\ so'.disc = so.disc /\ so'.hasDisc = so.hasDisc
         /\ so'.tuples = so.tuples /\ so'.prev = so.prev
<1>1. UNCHANGED <<etup, links, entry, locked, pc, srch, out, vac, count>> /\ pc = "fetch"
  BY DEF SkipElement, index
<1>2. PICK c \in so.w : c.rows = {} /\ so' = [so EXCEPT !.w = @ \ {c}]
  BY DEF SkipElement, NearestOf
<1>3. so \in ScanRecord
  BY DEF ScanInv, ScanType
<1>4. /\ so' \in ScanRecord /\ so'.w = so.w \ {c}
      /\ so'.first = so.first /\ so'.vis = so.vis /\ so'.disc = so.disc /\ so'.hasDisc = so.hasDisc
      /\ so'.tuples = so.tuples /\ so'.prev = so.prev
  BY <1>2, <1>3 DEF ScanRecord
<1>5. QED
  BY <1>1, <1>2, <1>4

\* The row is skipped, or returned.
RowSkipped(c) ==
  /\ IterativeScan = "strict" /\ c.dist < so.prev
  /\ so'.prev = so.prev /\ UNCHANGED <<pc, out>>
RowReturned(c, r) ==
  /\ ~(IterativeScan = "strict" /\ c.dist < so.prev)
  /\ so'.prev = (IF IterativeScan = "strict" THEN c.dist ELSE so.prev)
  /\ out' = Append(out, [row |-> r, dist |-> c.dist]) /\ pc' = "idle"

LEMMA FetchEffect ==
  ASSUME ScanInv, FetchRow
  PROVE  /\ UNCHANGED <<etup, links, entry, locked, srch, vac, count>> /\ pc = "fetch"
         /\ so' \in ScanRecord
         /\ \E c \in so.w, d \in Candidates : \E r \in c.rows :
              /\ so'.w = (so.w \ {c}) \union {d}
              /\ d.tid = c.tid /\ d.dist = c.dist /\ d.rows = c.rows \ {r}
              /\ RowSkipped(c) \/ RowReturned(c, r)
         /\ so'.first = so.first /\ so'.vis = so.vis /\ so'.disc = so.disc /\ so'.hasDisc = so.hasDisc
         /\ so'.tuples = so.tuples
<1>1. UNCHANGED <<etup, links, entry, locked, srch, vac, count>> /\ pc = "fetch"
  BY DEF FetchRow, index
<1>2. PICK c, r, left :
       /\ c \in so.w /\ r \in c.rows
       /\ left = (so.w \ {c}) \union {[c EXCEPT !.rows = @ \ {r}]}
       /\ \/ /\ IterativeScan = "strict" /\ c.dist < so.prev
             /\ so' = [so EXCEPT !.w = left]
             /\ UNCHANGED <<pc, out>>
          \/ /\ ~(IterativeScan = "strict" /\ c.dist < so.prev)
             /\ so' = [so EXCEPT !.w = left,
                                 !.prev = IF IterativeScan = "strict" THEN Previous(c.dist) ELSE @]
             /\ out' = Append(out, [row |-> r, dist |-> c.dist])
             /\ pc' = "idle"
  BY DEF FetchRow, NearestOf
<1>3. so \in ScanRecord /\ c \in Candidates /\ so.w \subseteq Candidates
  BY <1>2 DEF ScanInv, ScanType, ScanRecord
<1>4. PICK d : d = [c EXCEPT !.rows = @ \ {r}]
  OBVIOUS
<1>5. d \in Candidates /\ d.tid = c.tid /\ d.dist = c.dist /\ d.rows = c.rows \ {r} /\ c.dist \in Nat
  BY <1>3, <1>4 DEF Candidates
<1>6. left = (so.w \ {c}) \union {d} /\ left \in SUBSET Candidates
  BY <1>2, <1>3, <1>4, <1>5
<1>7. CASE /\ IterativeScan = "strict" /\ c.dist < so.prev
           /\ so' = [so EXCEPT !.w = left]
           /\ UNCHANGED <<pc, out>>
  <2>1. /\ so' \in ScanRecord /\ so'.w = left /\ so'.prev = so.prev
        /\ so'.first = so.first /\ so'.vis = so.vis /\ so'.disc = so.disc /\ so'.hasDisc = so.hasDisc
        /\ so'.tuples = so.tuples
    BY <1>3, <1>6, <1>7 DEF ScanRecord
  <2>2. RowSkipped(c)
    BY <1>7, <2>1 DEF RowSkipped
  <2>3. QED
    BY <1>1, <1>2, <1>5, <1>6, <2>1, <2>2
<1>8. CASE /\ ~(IterativeScan = "strict" /\ c.dist < so.prev)
           /\ so' = [so EXCEPT !.w = left,
                               !.prev = IF IterativeScan = "strict" THEN Previous(c.dist) ELSE @]
           /\ out' = Append(out, [row |-> r, dist |-> c.dist])
           /\ pc' = "idle"
  <2>1. PICK q : q = IF IterativeScan = "strict" THEN c.dist ELSE so.prev
    OBVIOUS
  <2>2. q \in Nat \union {-1}
    BY <1>3, <1>5, <2>1 DEF ScanRecord
  <2>3. so' = [so EXCEPT !.w = left, !.prev = q]
    BY <1>3, <1>8, <2>1 DEF Previous, ScanRecord
  <2>4. /\ so' \in ScanRecord /\ so'.w = left /\ so'.prev = q
        /\ so'.first = so.first /\ so'.vis = so.vis /\ so'.disc = so.disc /\ so'.hasDisc = so.hasDisc
        /\ so'.tuples = so.tuples
    BY <1>3, <1>6, <2>2, <2>3 DEF ScanRecord
  <2>5. RowReturned(c, r)
    BY <1>8, <2>1, <2>4 DEF RowReturned
  <2>6. QED
    BY <1>1, <1>2, <1>5, <1>6, <2>4, <2>5
<1>9. QED
  BY <1>2, <1>7, <1>8

LEMMA RescanEffect ==
  ASSUME ScanInv, Rescan
  PROVE  /\ UNCHANGED <<etup, links, entry, locked, srch, vac>> /\ pc \in {"idle", "done"}
         /\ count' \in [rescans : Nat, vacuums : Nat] /\ count'.vacuums = count.vacuums
         /\ so' \in ScanRecord /\ so'.w = so.w /\ so'.first = TRUE /\ so'.vis = {} /\ so'.disc = {}
         /\ so'.prev = -1 /\ so'.tuples = 0 /\ out' = <<>> /\ pc' = "idle"
<1>1. /\ UNCHANGED <<etup, links, entry, locked, srch, vac>> /\ pc \in {"idle", "done"}
      /\ so' = [NewScan EXCEPT !.w = so.w] /\ out' = <<>> /\ pc' = "idle"
      /\ count' = [count EXCEPT !.rescans = @ + 1]
  BY DEF Rescan, index
<1>2. count' \in [rescans : Nat, vacuums : Nat] /\ count'.vacuums = count.vacuums
  BY <1>1 DEF ScanInv, VacType
<1>3. so.w \in SUBSET Candidates
  BY DEF ScanInv, ScanType, ScanRecord
<1>4. /\ so' \in ScanRecord /\ so'.w = so.w /\ so'.first = TRUE /\ so'.vis = {} /\ so'.disc = {}
      /\ so'.prev = -1 /\ so'.tuples = 0
  BY <1>1, <1>3 DEF ScanRecord, NewScan
<1>5. QED
  BY <1>1, <1>2, <1>4
-----------------------------------------------------------------------------
(***************************************************************************)
(* Types and phases.                                                       *)
(***************************************************************************)
Held == srch.C \union srch.W \union so.w \union so.disc
Rows == [row : Places \X Nat, dist : Nat]

LEMMA TypeFrame ==
  ASSUME ScanInv, Used' = Used, IndexType', VacType', so' \in ScanRecord, srch' \in SearchRecord,
         pc' \in {"idle", "search", "fetch", "done", "error"},
         \A c \in Held' : Loaded(c),
         \A c \in srch'.C \union srch'.W : c.level >= srch'.lc,
         IsFiniteSet(srch'.W), IsFiniteSet(so'.disc), out' \in Seq(Rows), Phase'
  PROVE  ScanInv'
<1>1. \A c : Loaded(c)' <=> Loaded(c)
  BY DEF Loaded
<1>2. so' \in ScanRecord' /\ srch' \in SearchRecord'
  BY DEF ScanRecord, SearchRecord
<1>3. ScanType'
  BY <1>1, <1>2 DEF ScanType, Held, Rows
<1>4. QED
  BY <1>3 DEF ScanInv

\* A step of the scan leaves the index alone.
LEMMA IndexSame ==
  ASSUME ScanInv, UNCHANGED <<etup, links, entry, vac, setting>>,
         count' \in [rescans : Nat, vacuums : Nat]
  PROVE  Used' = Used /\ IndexType' /\ VacType'
<1>1. Used' = Used /\ IndexType'
  BY DEF ScanInv, IndexType, Used
<1>2. QED
  BY <1>1 DEF ScanInv, VacType

LEMMA TypeFacts ==
  ASSUME ScanInv
  PROVE  /\ so \in ScanRecord /\ srch \in SearchRecord /\ out \in Seq(Rows) /\ setting \in Settings
         /\ count \in [rescans : Nat, vacuums : Nat]
         /\ \A c \in Held : Loaded(c) /\ c \in Candidates
         /\ \A c \in srch.C \union srch.W : c.level >= srch.lc
         /\ IsFiniteSet(srch.W) /\ IsFiniteSet(so.disc)
         /\ srch.lc \in Nat /\ srch.wlen \in Nat /\ srch.ef \in Nat /\ srch.unv \subseteq Used
         /\ so.vis \subseteq Used /\ so.tuples \in Nat /\ so.prev \in Nat \union {-1}
         /\ so.first \in BOOLEAN /\ so.hasDisc \in BOOLEAN
         /\ IndexType /\ VacType /\ Phase
<1>1. /\ so \in ScanRecord /\ srch \in SearchRecord /\ out \in Seq(Rows) /\ setting \in Settings
      /\ \A c \in Held : Loaded(c) /\ c \in Candidates
      /\ \A c \in srch.C \union srch.W : c.level >= srch.lc
      /\ IsFiniteSet(srch.W) /\ IsFiniteSet(so.disc)
  BY DEF ScanInv, ScanType, VacType, Held, Rows, Loaded
<1>2. /\ srch.lc \in Nat /\ srch.wlen \in Nat /\ srch.ef \in Nat /\ srch.unv \subseteq Used
  BY <1>1 DEF SearchRecord
<1>3. /\ so.vis \subseteq Used /\ so.tuples \in Nat /\ so.prev \in Nat \union {-1}
      /\ so.first \in BOOLEAN /\ so.hasDisc \in BOOLEAN
  BY <1>1 DEF ScanRecord
<1>4. IndexType /\ VacType /\ Phase /\ count \in [rescans : Nat, vacuums : Nat]
  BY DEF ScanInv, VacType
<1>5. QED
  BY <1>1, <1>2, <1>3, <1>4

\* A layer begins.
LEMMA BeginInv ==
  ASSUME ScanInv, UNCHANGED <<etup, links, entry, vac, count, setting, out>>,
         NEW ep \in SUBSET Candidates, IsFiniteSet(ep), NEW lc \in Nat, NEW init \in BOOLEAN,
         \A c \in ep : Loaded(c) /\ c.level >= lc, BeginLayer(ep, lc, init), locked' = TRUE,
         so.first => pc \in {"idle", "search"} /\ so.disc = {},
         ~so.first => so.w = {} /\ lc = 0
  PROVE  ScanInv'
<1>1. Used' = Used /\ IndexType' /\ VacType'
  BY TypeFacts, IndexSame
<1>2. \A c \in ep : c.tid \in Used
  BY DEF Loaded
<1>3. /\ pc' = "search" /\ so' \in ScanRecord /\ srch' \in SearchRecord
      /\ srch'.lc = lc /\ srch'.C = ep /\ srch'.W = ep /\ srch'.unv = {}
      /\ so'.first = so.first /\ so'.w = so.w /\ so'.disc = so.disc \ ep /\ so'.prev = so.prev
      /\ so.hasDisc => so'.hasDisc
      /\ lc = 0 /\ Iterative => so'.hasDisc
  <2>1. ScanType /\ setting \in Settings
    BY TypeFacts DEF ScanInv
  <2>2. QED
    BY <1>2, <2>1, BeginEffect
<1>4. \A c \in Held' : Loaded(c)
  BY TypeFacts, <1>3 DEF Held
<1>5. IsFiniteSet(so'.disc)
  <2>1. IsFiniteSet(so.disc)
    BY TypeFacts
  <2>2. PICK d : d = so.disc
    OBVIOUS
  <2>3. IsFiniteSet(d \ ep)
    BY <2>1, <2>2, FS_Difference, Zenon
  <2>4. QED
    BY <1>3, <2>2, <2>3
<1>6. Phase'
  <2>1. locked' = (pc' = "search") /\ srch'.unv \subseteq so'.vis /\ (srch'.C # {} \/ srch'.unv # {} => srch'.W # {})
    BY <1>3
  <2>2. so'.first => out' = <<>> /\ so'.prev = -1
    BY TypeFacts, <1>3 DEF Phase
  <2>3. so'.first => so'.disc = {}
    BY <1>3
  <2>4. ~so'.first => so'.w = {} /\ srch'.lc = 0
    BY <1>3
  <2>5. ~so'.hasDisc => so'.disc = {}
    BY TypeFacts, <1>3 DEF Phase
  <2>6. Iterative' = Iterative
    BY DEF Iterative, IterativeScan
  <2>7. QED
    BY <1>3, <2>1, <2>2, <2>3, <2>4, <2>5, <2>6 DEF Phase
<1>7. QED
  BY TypeFacts, <1>1, <1>3, <1>4, <1>5, <1>6, TypeFrame

LEMMA FirstCallInv ==
  ASSUME ScanInv, FirstCall, UNCHANGED setting
  PROVE  ScanInv'
<1>1. UNCHANGED <<etup, links, entry, out, vac, count>> /\ pc = "idle" /\ so.first
  BY FirstEffect
<1>2. CASE /\ entry = NoTid /\ pc' = "fetch" /\ UNCHANGED <<srch, locked>> /\ so' \in ScanRecord
           /\ so'.first = FALSE /\ so'.w = {} /\ so'.vis = so.vis /\ so'.disc = so.disc
           /\ so'.hasDisc = so.hasDisc /\ so'.tuples = so.tuples /\ so'.prev = so.prev
  <2>1. Used' = Used /\ IndexType' /\ VacType'
    BY <1>1, TypeFacts, IndexSame
  <2>2. \A c \in Held' : Loaded(c)
    BY <1>2, TypeFacts DEF Held
  <2>3. Phase'
    BY <1>1, <1>2, TypeFacts DEF Phase
  <2>4. QED
    BY <1>1, <1>2, <2>1, <2>2, <2>3, TypeFacts, TypeFrame
<1>3. CASE entry \in Used /\ locked' = TRUE /\ BeginLayer({Candidate(entry)}, etup[entry].level, TRUE)
  <2>1. PICK e : e = Candidate(entry)
    OBVIOUS
  <2>2. e \in Candidates /\ Loaded(e) /\ e.level = etup[entry].level
    BY <1>3, <2>1, TypeFacts, CandidateFact
  <2>3. etup[entry].level \in Nat /\ e.level >= etup[entry].level
    BY <2>2 DEF Candidates
  <2>4. IsFiniteSet({e}) /\ {e} \in SUBSET Candidates
    BY <2>2, FS_Singleton
  <2>5. so.disc = {}
    BY <1>1, TypeFacts DEF Phase
  <2>6. QED
    BY <1>1, <1>3, <2>1, <2>2, <2>3, <2>4, <2>5, BeginInv
<1>4. QED
  BY <1>2, <1>3, FirstEffect

LEMMA NextLayerInv ==
  ASSUME ScanInv, NextLayer, UNCHANGED setting
  PROVE  ScanInv'
<1>1. /\ UNCHANGED <<etup, links, entry, locked, out, vac, count>> /\ LayerDone /\ srch.lc > 0
      /\ BeginLayer(srch.W, srch.lc - 1, TRUE)
  BY DEF NextLayer, index
<1>2. pc = "search" /\ locked' = TRUE
  BY <1>1, TypeFacts DEF LayerDone, Phase
<1>3. so.first /\ so.disc = {}
  BY <1>1, <1>2, TypeFacts DEF Phase
<1>4. PICK l \in Nat : l = srch.lc - 1
  BY <1>1, TypeFacts
<1>5. \A c \in srch.W : c \in Candidates /\ Loaded(c) /\ c.level >= l
  <2>1. \A c \in srch.W : c \in Candidates /\ Loaded(c) /\ c.level >= srch.lc /\ c.level \in Nat
    BY TypeFacts DEF Held, Candidates
  <2>2. QED
    BY <1>4, <2>1, TypeFacts
<1>6. QED
  BY <1>1, <1>2, <1>3, <1>4, <1>5, TypeFacts, BeginInv

LEMMA ResumeInv ==
  ASSUME ScanInv, Resume, UNCHANGED setting
  PROVE  ScanInv'
<1>1. /\ UNCHANGED <<etup, links, entry, out, vac, count>> /\ pc = "fetch" /\ locked' = TRUE
      /\ so.w = {} /\ Iterative /\ so.disc # {}
  BY ResumeEffect
<1>2. PICK ep \in SUBSET so.disc : BeginLayer(ep, 0, FALSE) /\ IsFiniteSet(ep)
  BY ResumeEffect
<1>3. \A c \in ep : c \in Candidates /\ Loaded(c) /\ c.level >= 0
  BY TypeFacts DEF Held, Candidates
<1>4. ~so.first
  BY <1>1, TypeFacts DEF Phase
<1>5. QED
  BY <1>1, <1>2, <1>3, <1>4, BeginInv

LEMMA ExpandInv ==
  ASSUME ScanInv, ExpandNearest, UNCHANGED setting
  PROVE  ScanInv'
<1>1. UNCHANGED <<etup, links, entry, locked, pc, out, vac, count>> /\ pc = "search"
  BY ExpandEffect
<1>2. PICK c \in srch.C, new \in SUBSET (Used \ so.vis) :
        srch'.C = srch.C \ {c} /\ srch'.unv = new /\ so'.vis = so.vis \union new
  BY ExpandEffect DEF NearestOf
<1>3. /\ so' \in ScanRecord /\ srch' \in SearchRecord /\ srch'.lc = srch.lc /\ srch'.W = srch.W
      /\ so'.first = so.first /\ so'.w = so.w /\ so'.disc = so.disc /\ so'.hasDisc = so.hasDisc
      /\ so'.prev = so.prev
  BY ExpandEffect
<1>4. Used' = Used /\ IndexType' /\ VacType'
  BY <1>1, TypeFacts, IndexSame
<1>5. \A d \in Held' : Loaded(d)
  BY <1>2, <1>3, TypeFacts DEF Held
<1>6. Phase'
  <2>1. Iterative' = Iterative
    BY DEF Iterative, IterativeScan
  <2>2. QED
    BY <1>1, <1>2, <1>3, <2>1, TypeFacts DEF Phase
<1>7. \A d \in srch'.C \union srch'.W : d.level >= srch'.lc
  BY <1>2, <1>3, TypeFacts
<1>8. QED
  BY <1>1, <1>3, <1>4, <1>5, <1>6, <1>7, TypeFacts, TypeFrame

\* W never becomes empty: the one that makes room is not the one that gets in.
LEMMA TakenStays ==
  ASSUME ScanInv, NEW t \in srch.unv, NEW f \in FurthestOf(srch.W), NEW e, e = Candidate(t),
         NEW D, LoadTaken(e, f, D)
  PROVE  /\ e \notin D /\ IsFiniteSet(D)
         /\ D # {} => e.dist < f.dist /\ srch.wlen >= srch.ef
                      /\ \E d \in srch.W : D = {d} /\ \A x \in srch.W \union {e} : x.dist <= d.dist
<1>1. \A x \in srch.W \union {e} : x.dist \in Nat
  BY TypeFacts, CandidateFact DEF Held, Candidates
<1>2. f \in srch.W
  BY DEF FurthestOf
<1>3. CASE D = {}
  BY <1>3, FS_EmptySet
<1>4. CASE srch.wlen + 1 > srch.ef /\ \E d \in FurthestOf(srch.W \union {e}) : D = {d}
  <2>1. PICK d \in FurthestOf(srch.W \union {e}) : D = {d}
    BY <1>4
  <2>2. e.dist < f.dist /\ srch.wlen >= srch.ef
    BY <1>4, TypeFacts DEF LoadTaken, Wanted, Nearer
  <2>3. d \in srch.W \union {e} /\ \A x \in srch.W \union {e} : x.dist <= d.dist
    BY <1>1 DEF FurthestOf
  <2>4. d # e
    BY <1>1, <1>2, <2>2, <2>3
  <2>5. IsFiniteSet(D)
    BY <2>1, FS_Singleton
  <2>6. QED
    BY <2>1, <2>2, <2>3, <2>4, <2>5
<1>5. QED
  BY <1>3, <1>4 DEF LoadTaken

LEMMA LoadInv ==
  ASSUME ScanInv, LoadUnvisited, UNCHANGED setting
  PROVE  ScanInv'
<1>1. UNCHANGED <<etup, links, entry, locked, pc, out, vac, count>> /\ pc = "search"
  BY LoadEffect
<1>2. PICK t \in srch.unv, f \in FurthestOf(srch.W) :
              /\ srch'.unv = srch.unv \ {t}
              /\ \/ LoadRefused(t, Candidate(t), f)
                 \/ \E D \in SUBSET (srch.W \union {Candidate(t)}) : LoadTaken(Candidate(t), f, D)
  BY LoadEffect
<1>3. /\ so' \in ScanRecord /\ srch' \in SearchRecord /\ srch'.lc = srch.lc
      /\ so'.first = so.first /\ so'.w = so.w /\ so'.vis = so.vis /\ so'.hasDisc = so.hasDisc
      /\ so'.prev = so.prev
  BY LoadEffect
<1>4. PICK e : e = Candidate(t)
  OBVIOUS
<1>5. e \in Candidates /\ Loaded(e) /\ f \in srch.W /\ IsFiniteSet({e})
  BY <1>4, TypeFacts, CandidateFact, FS_Singleton DEF FurthestOf
<1>6. PICK X : so'.disc = so.disc \union X /\ X \in SUBSET (srch.W \union {e}) /\ IsFiniteSet(X)
               /\ (X # {} => srch.lc = 0 /\ Iterative)
  <2>1. CASE LoadRefused(t, e, f)
    <3>1. so'.disc = so.disc \/ (so'.disc = so.disc \union {e} /\ srch.lc = 0 /\ Iterative)
      BY <2>1 DEF LoadRefused, Kept
    <3>2. QED
      BY <1>5, <3>1, FS_EmptySet
  <2>2. CASE \E D \in SUBSET (srch.W \union {e}) : LoadTaken(e, f, D)
    <3>1. PICK D \in SUBSET (srch.W \union {e}) : LoadTaken(e, f, D)
      BY <2>2
    <3>2. IsFiniteSet(D)
      BY <1>4, <3>1, TakenStays
    <3>3. so'.disc = so.disc \/ (so'.disc = so.disc \union D /\ srch.lc = 0 /\ Iterative)
      BY <3>1 DEF LoadTaken, Kept
    <3>4. QED
      BY <3>2, <3>3, FS_EmptySet
  <2>3. QED
    BY <1>2, <1>4, <2>1, <2>2
<1>7. /\ srch'.C \subseteq srch.C \union {e} /\ srch'.W \subseteq srch.W \union {e} /\ srch'.W # {}
      /\ srch'.C \union srch'.W # srch.C \union srch.W => e.level >= srch.lc
  <2>1. CASE LoadRefused(t, e, f)
    BY <1>5, <2>1 DEF LoadRefused
  <2>2. CASE \E D \in SUBSET (srch.W \union {e}) : LoadTaken(e, f, D)
    <3>1. PICK D \in SUBSET (srch.W \union {e}) : LoadTaken(e, f, D)
      BY <2>2
    <3>2. e \notin D
      BY <1>4, <3>1, TakenStays
    <3>3. e.level >= srch.lc
      BY <3>1 DEF LoadTaken, Wanted
    <3>4. QED
      BY <3>1, <3>2, <3>3 DEF LoadTaken
  <2>3. QED
    BY <1>2, <1>4, <2>1, <2>2
<1>8. Used' = Used /\ IndexType' /\ VacType'
  BY <1>1, TypeFacts, IndexSame
<1>9. \A d \in Held' : Loaded(d)
  BY <1>3, <1>5, <1>6, <1>7, TypeFacts DEF Held
<1>10. IsFiniteSet(srch'.W) /\ IsFiniteSet(so'.disc)
  <2>1. IsFiniteSet(srch.W \union {e}) /\ IsFiniteSet(so.disc \union X)
    BY <1>5, <1>6, TypeFacts, FS_Union
  <2>2. QED
    BY <1>6, <1>7, <2>1, FS_Subset
<1>11. \A d \in srch'.C \union srch'.W : d.level >= srch'.lc
  BY <1>3, <1>7, TypeFacts
<1>12. Phase'
  <2>1. so'.first /\ srch'.lc > 0 => so'.disc = {}
    BY <1>1, <1>3, <1>6, TypeFacts DEF Phase
  <2>2. ~so'.hasDisc => so'.disc = {}
    BY <1>1, <1>3, <1>6, TypeFacts DEF Phase
  <2>3. Iterative' = Iterative
    BY DEF Iterative, IterativeScan
  <2>4. QED
    BY <1>1, <1>2, <1>3, <1>7, <2>1, <2>2, <2>3, TypeFacts DEF Phase
<1>13. QED
  BY <1>1, <1>3, <1>8, <1>9, <1>10, <1>11, <1>12, TypeFacts, TypeFrame

\* A step that changes neither the search nor what is held.
LEMMA QuietInv ==
  ASSUME ScanInv, UNCHANGED <<srch, so, out, setting>>, Used' = Used, IndexType', VacType',
         \/ pc' = pc /\ locked' = locked
         \/ pc \in {"idle", "fetch"} /\ pc' \in {"fetch", "done"} /\ ~so.first /\ locked' = locked
         \/ pc = "search" /\ pc' = "error" /\ locked' = FALSE
  PROVE  ScanInv'
<1>1. pc' \in {"idle", "search", "fetch", "done", "error"} /\ pc \in {"idle", "search", "fetch", "done", "error"}
  BY DEF ScanInv, ScanType
<1>2. Iterative' = Iterative
  BY DEF Iterative, IterativeScan
<1>3. Phase'
  BY <1>1, <1>2, TypeFacts DEF Phase
<1>4. Held' = Held
  BY DEF Held
<1>5. QED
  BY <1>1, <1>3, <1>4, TypeFacts, TypeFrame

LEMMA QuietStepInv ==
  ASSUME ScanInv, NextCall \/ LoadFails \/ NoMore, UNCHANGED setting
  PROVE  ScanInv'
<1>1. UNCHANGED <<etup, links, entry, so, srch, out, vac, count>>
  BY DEF NextCall, LoadFails, NoMore, index
<1>2. Used' = Used /\ IndexType' /\ VacType'
  BY <1>1, TypeFacts, IndexSame
<1>3. \/ pc \in {"idle", "fetch"} /\ pc' \in {"fetch", "done"} /\ ~so.first /\ locked' = locked
      \/ pc = "search" /\ pc' = "error" /\ locked' = FALSE
  BY TypeFacts DEF NextCall, LoadFails, NoMore, Phase
<1>4. QED
  BY <1>1, <1>2, <1>3, QuietInv

LEMMA BatchInv ==
  ASSUME ScanInv, BatchDone, UNCHANGED setting
  PROVE  ScanInv'
<1>1. /\ UNCHANGED <<etup, links, entry, out, vac, count>> /\ pc = "search" /\ locked' = FALSE
      /\ srch' = NoSearch /\ srch' \in SearchRecord /\ pc' \in {"done", "fetch"}
      /\ so' \in ScanRecord /\ so'.first = FALSE /\ so'.w = srch.W /\ so'.vis = so.vis
      /\ so'.disc = so.disc /\ so'.hasDisc = so.hasDisc
  BY BatchEffect
<1>2. Used' = Used /\ IndexType' /\ VacType'
  BY <1>1, TypeFacts, IndexSame
<1>3. srch'.C = {} /\ srch'.W = {} /\ srch'.unv = {} /\ IsFiniteSet(srch'.W)
  BY <1>1, FS_EmptySet DEF NoSearch
<1>4. \A c \in Held' : Loaded(c)
  BY <1>1, <1>3, TypeFacts DEF Held
<1>5. Phase'
  BY <1>1, <1>3, TypeFacts DEF Phase
<1>6. QED
  BY <1>1, <1>2, <1>3, <1>4, <1>5, TypeFacts, TypeFrame

LEMMA RemainingInv ==
  ASSUME ScanInv, ReturnRemaining, UNCHANGED setting
  PROVE  ScanInv'
<1>1. /\ UNCHANGED <<etup, links, entry, locked, pc, srch, out, vac, count>> /\ pc = "fetch"
      /\ so' \in ScanRecord
      /\ so'.first = so.first /\ so'.vis = so.vis /\ so'.hasDisc = so.hasDisc /\ so'.prev = so.prev
  BY RemainingEffect
<1>2. PICK c \in so.disc : so'.w = {c} /\ so'.disc = so.disc \ {c}
  BY RemainingEffect
<1>3. Used' = Used /\ IndexType' /\ VacType'
  BY <1>1, TypeFacts, IndexSame
<1>4. \A d \in Held' : Loaded(d)
  BY <1>1, <1>2, TypeFacts DEF Held
<1>5. IsFiniteSet(so'.disc)
  BY <1>2, TypeFacts, FS_Subset
<1>6. Phase'
  BY <1>1, <1>2, TypeFacts DEF Phase
<1>7. QED
  BY <1>1, <1>3, <1>4, <1>5, <1>6, TypeFacts, TypeFrame

LEMMA SkipInv ==
  ASSUME ScanInv, SkipElement, UNCHANGED setting
  PROVE  ScanInv'
<1>1. /\ UNCHANGED <<etup, links, entry, locked, pc, srch, out, vac, count>> /\ pc = "fetch"
      /\ so' \in ScanRecord /\ so'.w \subseteq so.w
      /\ so'.first = so.first /\ so'.vis = so.vis /\ so'.disc = so.disc /\ so'.hasDisc = so.hasDisc
      /\ so'.prev = so.prev
  BY SkipEffect
<1>2. Used' = Used /\ IndexType' /\ VacType'
  BY <1>1, TypeFacts, IndexSame
<1>3. \A d \in Held' : Loaded(d)
  BY <1>1, TypeFacts DEF Held
<1>4. Phase'
  BY <1>1, TypeFacts DEF Phase
<1>5. QED
  BY <1>1, <1>2, <1>3, <1>4, TypeFacts, TypeFrame

LEMMA FetchInv ==
  ASSUME ScanInv, FetchRow, UNCHANGED setting
  PROVE  ScanInv'
<1>1. /\ UNCHANGED <<etup, links, entry, locked, srch, vac, count>> /\ pc = "fetch"
      /\ so' \in ScanRecord
      /\ so'.first = so.first /\ so'.vis = so.vis /\ so'.disc = so.disc /\ so'.hasDisc = so.hasDisc
  BY FetchEffect
<1>2. PICK c \in so.w, d \in Candidates : \E r \in c.rows :
              /\ so'.w = (so.w \ {c}) \union {d}
              /\ d.tid = c.tid /\ d.dist = c.dist /\ d.rows = c.rows \ {r}
              /\ RowSkipped(c) \/ RowReturned(c, r)
  BY FetchEffect
<1>3. PICK r \in c.rows :
              /\ so'.w = (so.w \ {c}) \union {d}
              /\ d.tid = c.tid /\ d.dist = c.dist /\ d.rows = c.rows \ {r}
              /\ RowSkipped(c) \/ RowReturned(c, r)
  BY <1>2
<1>4. Loaded(c) /\ c \in Candidates
  BY TypeFacts DEF Held
<1>5. Loaded(d)
  BY <1>3, <1>4 DEF Loaded
<1>6. Used' = Used /\ IndexType' /\ VacType'
  BY <1>1, TypeFacts, IndexSame
<1>7. \A x \in Held' : Loaded(x)
  BY <1>1, <1>3, <1>5, TypeFacts DEF Held
<1>8. pc' \in {"idle", "fetch"} /\ out' \in Seq(Rows)
  <2>1. CASE RowSkipped(c)
    BY <1>1, <2>1, TypeFacts DEF RowSkipped
  <2>2. CASE RowReturned(c, r)
    <3>1. [row |-> r, dist |-> c.dist] \in Rows
      BY <1>3, <1>4 DEF Rows, Candidates
    <3>2. QED
      BY <2>2, <3>1, TypeFacts, AppendProperties DEF RowReturned
  <2>3. QED
    BY <1>3, <2>1, <2>2
<1>9. Phase'
  BY <1>1, <1>8, TypeFacts DEF Phase
<1>10. QED
  BY <1>1, <1>6, <1>7, <1>8, <1>9, TypeFacts, TypeFrame

LEMMA RescanInv ==
  ASSUME ScanInv, Rescan, UNCHANGED setting
  PROVE  ScanInv'
<1>1. /\ UNCHANGED <<etup, links, entry, locked, srch, vac>> /\ pc \in {"idle", "done"}
      /\ count' \in [rescans : Nat, vacuums : Nat]
      /\ so' \in ScanRecord /\ so'.w = so.w /\ so'.first = TRUE /\ so'.vis = {} /\ so'.disc = {}
      /\ so'.prev = -1 /\ out' = <<>> /\ pc' = "idle"
  BY RescanEffect
<1>2. Used' = Used /\ IndexType' /\ VacType'
  BY <1>1, IndexSame
<1>3. \A d \in Held' : Loaded(d)
  BY <1>1, TypeFacts DEF Held
<1>4. srch.unv = {}
  BY <1>1, TypeFacts DEF Phase
<1>5. Phase'
  BY <1>1, <1>4, TypeFacts DEF Phase
<1>6. out' \in Seq(Rows) /\ IsFiniteSet(so'.disc)
  BY <1>1, FS_EmptySet
<1>7. QED
  BY <1>1, <1>2, <1>3, <1>5, <1>6, TypeFacts, TypeFrame

LEMMA ScanNext ==
  ASSUME ScanInv, [Next]_vars
  PROVE  ScanInv'
<1>1. CASE ScanStep
  <2>1. UNCHANGED setting
    BY <1>1 DEF ScanStep
  <2>2. CASE FirstCall       BY <2>1, <2>2, FirstCallInv
  <2>3. CASE NextCall \/ LoadFails \/ NoMore BY <2>1, <2>3, QuietStepInv
  <2>4. CASE ExpandNearest   BY <2>1, <2>4, ExpandInv
  <2>5. CASE LoadUnvisited   BY <2>1, <2>5, LoadInv
  <2>6. CASE NextLayer       BY <2>1, <2>6, NextLayerInv
  <2>7. CASE BatchDone       BY <2>1, <2>7, BatchInv
  <2>8. CASE ReturnRemaining BY <2>1, <2>8, RemainingInv
  <2>9. CASE Resume          BY <2>1, <2>9, ResumeInv
  <2>10. CASE SkipElement    BY <2>1, <2>10, SkipInv
  <2>11. CASE FetchRow       BY <2>1, <2>11, FetchInv
  <2>12. QED
    BY <1>1, <2>2, <2>3, <2>4, <2>5, <2>6, <2>7, <2>8, <2>9, <2>10, <2>11 DEF ScanStep
<1>2. CASE Rescan /\ UNCHANGED setting
  BY <1>2, RescanInv
<1>3. CASE VacuumAndInserts /\ UNCHANGED setting
  BY <1>3, VacuumType, QuietInv
<1>4. CASE UNCHANGED vars
  <2>1. UNCHANGED <<setting, etup, links, entry, locked, pc, so, srch, out, vac, count>>
    BY <1>4 DEF vars
  <2>2. Used' = Used /\ IndexType' /\ VacType'
    BY <2>1, TypeFacts, IndexSame
  <2>3. QED
    BY <2>1, <2>2, QuietInv
<1>5. CASE Over
  BY <1>4, <1>5 DEF Over
<1>6. QED
  BY <1>1, <1>2, <1>3, <1>4, <1>5 DEF Next

LEMMA ScanInit == Init => ScanInv
<1> SUFFICES ASSUME Init PROVE ScanInv
  OBVIOUS
<1>1. PICK s \in Setups : \E g \in s.graphs :
       /\ setting = s.settings
       /\ etup = [t \in DOMAIN g.level |-> [deleted |-> FALSE, gen |-> 0, version |-> 1,
                    level |-> g.level[t], dist |-> g.dist[t],
                    rows |-> {<<t, i>> : i \in 1..s.settings.rows}]]
       /\ links = g.links
       /\ entry = g.entry
  BY DEF Init
<1>2. PICK g \in s.graphs :
       /\ setting = s.settings
       /\ etup = [t \in DOMAIN g.level |-> [deleted |-> FALSE, gen |-> 0, version |-> 1,
                    level |-> g.level[t], dist |-> g.dist[t],
                    rows |-> {<<t, i>> : i \in 1..s.settings.rows}]]
       /\ links = g.links
       /\ entry = g.entry
  BY <1>1
<1>3. setting \in Settings /\ IndexOK(g)
  BY <1>2, ScanConstants
<1>4. PICK U : U = DOMAIN g.level
  OBVIOUS
<1>5. /\ U \subseteq Places /\ g.level \in [U -> Nat] /\ g.dist \in [U -> Nat] /\ DOMAIN g.links = U
      /\ \A t \in U : g.links[t] \in [0..g.level[t] -> SUBSET U]
      /\ g.entry \in U \union {NoTid}
  BY <1>3, <1>4 DEF IndexOK
<1>6. Used = U
  BY <1>2, <1>4 DEF Used
<1>7. \A t \in U : etup[t] = [deleted |-> FALSE, gen |-> 0, version |-> 1, level |-> g.level[t],
                              dist |-> g.dist[t], rows |-> {<<t, i>> : i \in 1..s.settings.rows}]
  BY <1>2, <1>4
<1>8. ASSUME NEW t \in U
      PROVE  etup[t] \in ETuple /\ etup[t].rows \subseteq RowsOf(t) /\ etup[t].level = g.level[t]
  <2>1. PICK R : R = {<<t, i>> : i \in 1..s.settings.rows}
    OBVIOUS
  <2>2. s.settings.rows \in Nat
    BY <1>2, <1>3 DEF Settings
  <2>3. R \subseteq RowsOf(t) /\ R \in SUBSET (Places \X Nat)
    BY <1>5, <2>1, <2>2 DEF RowsOf
  <2>4. 1 \in 1..VersionMax /\ g.level[t] \in Nat /\ g.dist[t] \in Nat
    BY <1>5, ScanConstants
  <2>5. etup[t] = [deleted |-> FALSE, gen |-> 0, version |-> 1, level |-> g.level[t],
                   dist |-> g.dist[t], rows |-> R]
    BY <1>7, <2>1
  <2>6. QED
    BY <2>3, <2>4, <2>5 DEF ETuple
<1>9. etup \in [U -> ETuple]
  BY <1>2, <1>4, <1>8
<1>10. IndexType
  <2>1. \A t \in U : DOMAIN links[t] = 0..g.level[t] /\ links[t] \in [DOMAIN links[t] -> SUBSET U]
    BY <1>2, <1>5
  <2>2. QED
    BY <1>2, <1>5, <1>6, <1>8, <1>9, <2>1 DEF IndexType
<1>11. /\ locked = FALSE /\ pc = "idle" /\ so = NewScan /\ srch = NoSearch /\ out = <<>>
       /\ vac = [phase |-> "idle", dead |-> {}, left |-> {}]
       /\ count = [rescans |-> 0, vacuums |-> 0]
  BY DEF Init
<1>12. VacType
  BY <1>3, <1>11 DEF VacType
<1>13. so \in ScanRecord /\ srch \in SearchRecord
  BY <1>11 DEF NewScan, NoSearch, ScanRecord, SearchRecord
<1>14. /\ srch.C = {} /\ srch.W = {} /\ srch.unv = {} /\ so.w = {} /\ so.disc = {} /\ so.first = TRUE
       /\ so.prev = -1 /\ so.vis = {}
  BY <1>11 DEF NewScan, NoSearch
<1>15. ScanType
  BY <1>11, <1>13, <1>14, FS_EmptySet DEF ScanType
<1>16. Phase
  BY <1>11, <1>14 DEF Phase
<1>17. QED
  BY <1>10, <1>12, <1>15, <1>16 DEF ScanInv

\* The inductive invariant: every candidate the scan holds was an element of the index,
\* the sets of one search and the fields of the scan are in phase with hnswgettuple, and
\* the index keeps its shape under VACUUM and inserts.
THEOREM ScanInvariant == Spec => []ScanInv
<1>1. ScanInv /\ [Next]_vars => ScanInv'
  BY ScanNext
<1>2. QED
  BY <1>1, ScanInit, PTL DEF Spec

\* The types of HnswScan; HNSW_SCAN_LOCK is held exactly while a search runs, and W is
\* never empty when a candidate is compared with its furthest.
THEOREM ScanTyped == Spec => []ScanTypeOK
<1>1. ScanInv => ScanTypeOK
  <2> SUFFICES ASSUME ScanInv PROVE ScanTypeOK
    OBVIOUS
  <2>1. Used \subseteq Places /\ entry \in Places \union {NoTid}
    BY DEF ScanInv, IndexType
  <2>2. so.vis \subseteq Places /\ so.tuples \in Nat /\ \A c \in Held : c \in Candidates
    BY <2>1, TypeFacts
  <2>3. pc \in {"idle", "search", "fetch", "done", "error"}
    BY DEF ScanInv, ScanType
  <2>4. /\ locked = (pc = "search") /\ srch.unv \subseteq so.vis /\ (srch.C # {} \/ srch.unv # {} => srch.W # {})
    BY DEF ScanInv, Phase
  <2>5. QED
    BY <2>1, <2>2, <2>3, <2>4 DEF ScanTypeOK, Held
<1>2. QED
  BY <1>1, ScanInvariant, PTL
-----------------------------------------------------------------------------
(***************************************************************************)
(* How a search begins: the first layer, the next one, and the resumed     *)
(* layer 0.                                                                *)
(***************************************************************************)
LEMMA FirstLayerEffect ==
  ASSUME ScanInv, FirstCall, entry # NoTid
  PROVE  /\ UNCHANGED <<etup, links, entry, out, vac, count>> /\ pc = "idle" /\ pc' = "search" /\ so.first
         /\ so'.first = TRUE /\ so.disc = {} /\ so'.disc = {} /\ out = <<>> /\ so'.prev = so.prev
         /\ entry \in Used /\ Loaded(Candidate(entry)) /\ Candidate(entry).tid = entry
         /\ srch'.lc = etup[entry].level /\ srch'.C = {Candidate(entry)} /\ srch'.W = {Candidate(entry)}
         /\ srch'.wlen = 1 /\ srch'.ef = (IF etup[entry].level > 0 THEN 1 ELSE EfSearch) /\ srch'.unv = {}
         /\ so'.vis = {entry} /\ so'.tuples >= so.tuples
<1>1. /\ UNCHANGED <<etup, links, entry, out, vac, count>> /\ pc = "idle" /\ so.first /\ entry \in Used
      /\ BeginLayer({Candidate(entry)}, etup[entry].level, TRUE)
  BY FirstEffect
<1>2. PICK e : e = Candidate(entry)
  OBVIOUS
<1>3. e \in Candidates /\ Loaded(e) /\ e.level = etup[entry].level /\ e.tid = entry
  BY <1>1, <1>2, TypeFacts, CandidateFact
<1>4. PICK l \in Nat : l = etup[entry].level
  BY <1>3 DEF Candidates
<1>5. IsFiniteSet({e}) /\ {e} \in SUBSET Candidates /\ Cardinality({e}) = 1 /\ Tids({e}) = {entry}
  BY <1>3, FS_Singleton DEF Tids
<1>6. so.disc = {} /\ out = <<>>
  BY <1>1, TypeFacts DEF Phase
<1>7. BeginLayer({e}, l, TRUE) /\ \A c \in {e} : c.tid \in Used
  BY <1>1, <1>2, <1>3, <1>4
<1>8. ScanType /\ setting \in Settings
  BY TypeFacts DEF ScanInv
<1>9. /\ pc' = "search"
      /\ srch'.lc = l /\ srch'.C = {e} /\ srch'.W = {e} /\ srch'.wlen = Cardinality({e})
      /\ srch'.ef = (IF l > 0 THEN 1 ELSE EfSearch) /\ srch'.unv = {}
      /\ so'.first = so.first /\ so'.disc = so.disc \ {e} /\ so'.prev = so.prev
      /\ so'.vis = Tids({e}) /\ so'.tuples >= so.tuples
  <2>1. PICK S \in SUBSET Candidates : S = {e}
    BY <1>5
  <2>2. PICK i \in BOOLEAN : i = TRUE
    OBVIOUS
  <2>3. IsFiniteSet(S) /\ BeginLayer(S, l, i) /\ \A c \in S : c.tid \in Used
    BY <1>5, <1>7, <2>1, <2>2
  <2>4. /\ pc' = "search"
        /\ srch'.lc = l /\ srch'.C = S /\ srch'.W = S /\ srch'.wlen = Cardinality(S)
        /\ srch'.ef = (IF l > 0 THEN 1 ELSE EfSearch) /\ srch'.unv = {}
        /\ so'.first = so.first /\ so'.disc = so.disc \ S /\ so'.prev = so.prev
        /\ so'.vis = (IF i THEN Tids(S) ELSE so.vis) /\ so'.tuples >= so.tuples
    BY <1>8, <2>3, BeginEffect
  <2>5. QED
    BY <2>1, <2>2, <2>4
<1>10. QED
  BY <1>1, <1>2, <1>3, <1>4, <1>5, <1>6, <1>9

LEMMA NextLayerEffect ==
  ASSUME ScanInv, NextLayer
  PROVE  /\ UNCHANGED <<etup, links, entry, out, vac, count>> /\ pc = "search" /\ pc' = "search" /\ so.first
         /\ LayerDone /\ srch.lc > 0 /\ srch.unv = {}
         /\ so'.first = TRUE /\ so.disc = {} /\ so'.disc = {} /\ out = <<>> /\ so'.prev = so.prev
         /\ srch'.lc = srch.lc - 1 /\ srch'.C = srch.W /\ srch'.W = srch.W
         /\ srch'.wlen = Cardinality(srch.W) /\ srch'.ef = (IF srch.lc - 1 > 0 THEN 1 ELSE EfSearch)
         /\ srch'.unv = {} /\ so'.vis = Tids(srch.W) /\ so'.tuples >= so.tuples
<1>1. /\ UNCHANGED <<etup, links, entry, out, vac, count>> /\ LayerDone /\ srch.lc > 0
      /\ BeginLayer(srch.W, srch.lc - 1, TRUE)
  BY DEF NextLayer, index
<1>2. pc = "search" /\ srch.unv = {}
  BY <1>1 DEF LayerDone
<1>3. so.first /\ so.disc = {} /\ out = <<>>
  BY <1>1, <1>2, TypeFacts DEF Phase
<1>4. PICK l \in Nat : l = srch.lc - 1
  BY <1>1, TypeFacts
<1>5. PICK W : W = srch.W
  OBVIOUS
<1>6. W \in SUBSET Candidates /\ IsFiniteSet(W) /\ \A c \in W : c.tid \in Used
  BY <1>5, TypeFacts DEF Held, Loaded
<1>7. ScanType /\ setting \in Settings /\ BeginLayer(W, l, TRUE)
  BY <1>1, <1>4, <1>5, TypeFacts DEF ScanInv
<1>8. /\ pc' = "search"
      /\ srch'.lc = l /\ srch'.C = W /\ srch'.W = W /\ srch'.wlen = Cardinality(W)
      /\ srch'.ef = (IF l > 0 THEN 1 ELSE EfSearch) /\ srch'.unv = {}
      /\ so'.first = so.first /\ so'.disc = so.disc \ W /\ so'.prev = so.prev
      /\ so'.vis = Tids(W) /\ so'.tuples >= so.tuples
  BY <1>6, <1>7, BeginEffect
<1>9. QED
  BY <1>1, <1>2, <1>3, <1>4, <1>5, <1>8

LEMMA ResumedEffect ==
  ASSUME ScanInv, Resume
  PROVE  /\ UNCHANGED <<etup, links, entry, out, vac, count>> /\ pc = "fetch" /\ pc' = "search"
         /\ so.w = {} /\ ~so.first /\ so'.first = FALSE /\ Iterative /\ so.disc # {}
         /\ srch.unv = {} /\ srch'.unv = {} /\ srch'.lc = 0
         /\ so'.vis = so.vis /\ so'.prev = so.prev /\ so'.tuples >= so.tuples
         /\ \E ep \in SUBSET so.disc :
              /\ srch'.C = ep /\ srch'.W = ep /\ so'.disc = so.disc \ ep
              /\ EfSearch > 0 => ep # {}
<1>1. /\ UNCHANGED <<etup, links, entry, out, vac, count>> /\ pc = "fetch"
      /\ so.w = {} /\ Iterative /\ so.disc # {}
  BY ResumeEffect
<1>2. PICK ep \in SUBSET so.disc :
        /\ BeginLayer(ep, 0, FALSE) /\ IsFiniteSet(ep)
        /\ Cardinality(ep) = IF Cardinality(so.disc) < EfSearch THEN Cardinality(so.disc) ELSE EfSearch
  BY ResumeEffect
<1>3. ~so.first /\ so.first \in BOOLEAN /\ srch.unv = {}
  BY <1>1, TypeFacts DEF Phase
<1>4. ep \in SUBSET Candidates /\ \A c \in ep : c.tid \in Used
  BY TypeFacts DEF Held, Loaded
<1>5. ScanType /\ setting \in Settings
  BY TypeFacts DEF ScanInv
<1>6. /\ pc' = "search" /\ srch'.lc = 0 /\ srch'.C = ep /\ srch'.W = ep /\ srch'.unv = {}
      /\ so'.first = so.first /\ so'.disc = so.disc \ ep /\ so'.prev = so.prev
      /\ so'.vis = so.vis /\ so'.tuples >= so.tuples
  <2>1. PICK i \in BOOLEAN, l \in Nat : i = FALSE /\ l = 0
    OBVIOUS
  <2>2. BeginLayer(ep, l, i)
    BY <1>2, <2>1
  <2>3. /\ pc' = "search" /\ srch'.lc = l /\ srch'.C = ep /\ srch'.W = ep /\ srch'.unv = {}
        /\ so'.first = so.first /\ so'.disc = so.disc \ ep /\ so'.prev = so.prev
        /\ so'.vis = (IF i THEN Tids(ep) ELSE so.vis) /\ so'.tuples >= so.tuples
    BY <1>2, <1>4, <1>5, <2>2, BeginEffect
  <2>4. QED
    BY <2>1, <2>3
<1>7. EfSearch > 0 => ep # {}
  <2>1. SUFFICES ASSUME EfSearch > 0, ep = {} PROVE FALSE
    OBVIOUS
  <2>2. Cardinality(ep) = 0
    BY <2>1, FS_EmptySet
  <2>3. PICK n : n = Cardinality(so.disc)
    OBVIOUS
  <2>4. n \in Nat /\ n # 0
    BY <1>1, <2>3, TypeFacts, FS_CardinalityType, FS_EmptySet
  <2>5. EfSearch \in Nat
    BY <1>5 DEF EfSearch, Settings
  <2>6. QED
    BY <1>2, <2>1, <2>2, <2>3, <2>4, <2>5
<1>8. QED
  BY <1>1, <1>2, <1>3, <1>6, <1>7

\* An empty index.
LEMMA FirstCallEmpty ==
  ASSUME ScanInv, FirstCall, entry = NoTid
  PROVE  /\ UNCHANGED <<etup, links, entry, out, vac, count, srch, locked>> /\ pc = "idle" /\ so.first
         /\ pc' = "fetch" /\ so'.first = FALSE /\ so'.w = {} /\ so'.vis = so.vis /\ so.disc = {}
         /\ so'.disc = {} /\ out = <<>> /\ so'.prev = so.prev /\ so'.tuples = so.tuples
<1>2. so.first /\ pc = "idle"
  BY FirstEffect
<1>3. so.disc = {} /\ out = <<>>
  BY <1>2, TypeFacts DEF Phase
<1>4. /\ UNCHANGED <<etup, links, entry, out, vac, count, srch, locked>>
      /\ pc' = "fetch" /\ so'.first = FALSE /\ so'.w = {} /\ so'.vis = so.vis /\ so'.disc = so.disc
      /\ so'.prev = so.prev /\ so'.tuples = so.tuples
  <2>1. /\ so' = [so EXCEPT !.first = FALSE, !.w = {}] /\ pc' = "fetch"
        /\ UNCHANGED <<etup, links, entry, out, vac, count, srch, locked>>
    BY DEF FirstCall, index
  <2>2. QED
    BY <2>1, TypeFacts DEF ScanRecord
<1>5. QED
  BY <1>2, <1>3, <1>4
-----------------------------------------------------------------------------
(***************************************************************************)
(* The order of the rows.                                                  *)
(***************************************************************************)
\* Only hnswgettuple returning a row, and hnswrescan, change what was returned.
LEMMA OutputKept ==
  ASSUME ScanInv, [Next]_vars, ~FetchRow, ~Rescan
  PROVE  UNCHANGED <<out, setting>> /\ so'.prev = so.prev
<1>1. CASE VacuumAndInserts /\ UNCHANGED setting
  BY <1>1, VacuumType
<1>2. CASE UNCHANGED vars
  BY <1>2 DEF vars
<1>3. CASE ScanStep
  <2>1. CASE FirstCall
    <3>1. CASE entry = NoTid
      BY <1>3, <2>1, <3>1, FirstCallEmpty DEF ScanStep
    <3>2. CASE entry # NoTid
      BY <1>3, <2>1, <3>2, FirstLayerEffect DEF ScanStep
    <3>3. QED
      BY <3>1, <3>2
  <2>2. CASE NextCall \/ LoadFails \/ NoMore
    BY <1>3, <2>2 DEF NextCall, LoadFails, NoMore, ScanStep
  <2>3. CASE ExpandNearest   BY <1>3, <2>3, ExpandEffect DEF ScanStep
  <2>4. CASE LoadUnvisited   BY <1>3, <2>4, LoadEffect DEF ScanStep
  <2>5. CASE NextLayer       BY <1>3, <2>5, NextLayerEffect DEF ScanStep
  <2>6. CASE BatchDone       BY <1>3, <2>6, BatchEffect DEF ScanStep
  <2>7. CASE ReturnRemaining BY <1>3, <2>7, RemainingEffect DEF ScanStep
  <2>8. CASE Resume          BY <1>3, <2>8, ResumedEffect DEF ScanStep
  <2>9. CASE SkipElement     BY <1>3, <2>9, SkipEffect DEF ScanStep
  <2>10. QED
    BY <1>3, <2>1, <2>2, <2>3, <2>4, <2>5, <2>6, <2>7, <2>8, <2>9 DEF ScanStep
<1>4. CASE Over
  BY <1>2, <1>4 DEF Over
<1>5. QED
  BY <1>1, <1>2, <1>3, <1>4 DEF Next

\* A row is appended.
LEMMA AppendFact ==
  ASSUME NEW o \in Seq(Rows), NEW x \in Rows, NEW p, p = Append(o, x)
  PROVE  /\ p \in Seq(Rows) /\ Len(o) \in Nat /\ DOMAIN o = 1..Len(o) /\ DOMAIN p = 1..(Len(o) + 1)
         /\ p[Len(o) + 1] = x /\ \A i \in DOMAIN o : p[i] = o[i]
         /\ \A i \in DOMAIN p : i \in DOMAIN o \/ i = Len(o) + 1
<1>1. p \in Seq(Rows) /\ Len(o) \in Nat /\ DOMAIN o = 1..Len(o) /\ DOMAIN p = 1..(Len(o) + 1)
  BY AppendProperties, LenProperties
<1>2. p[Len(o) + 1] = x /\ \A i \in 1..Len(o) : p[i] = o[i]
  BY AppendProperties
<1>3. QED
  BY <1>1, <1>2

LEMMA RowFacts ==
  ASSUME ScanInv
  PROVE  /\ \A i \in DOMAIN out : out[i] \in Rows /\ out[i].dist \in Nat /\ out[i].row \in Places \X Nat
         /\ DOMAIN out \subseteq Nat
<1>1. out \in Seq(Rows)
  BY TypeFacts
<1>2. DOMAIN out = 1..Len(out) /\ Len(out) \in Nat /\ \A i \in 1..Len(out) : out[i] \in Rows
  BY <1>1, LenProperties, ElementOfSeq
<1>3. QED
  BY <1>2 DEF Rows

LEMMA OrderNext ==
  ASSUME ScanInv, OrderInv, [Next]_vars
  PROVE  OrderInv'
<1> USE DEF IterativeScan
<1>1. CASE ~FetchRow /\ ~Rescan
  BY <1>1, OutputKept DEF OrderInv
<1>2. CASE Rescan
  BY <1>2, RescanEffect DEF OrderInv
<1>3. CASE FetchRow
  <2>1. UNCHANGED setting
    <3>1. pc = "fetch"
      BY <1>3, FetchEffect
    <3>2. QED
      BY <1>3 DEF Next, ScanStep, Over, vars
  <2>2. PICK c \in so.w, d \in Candidates : \E r \in c.rows :
              /\ so'.w = (so.w \ {c}) \union {d}
              /\ d.tid = c.tid /\ d.dist = c.dist /\ d.rows = c.rows \ {r}
              /\ RowSkipped(c) \/ RowReturned(c, r)
    BY <1>3, FetchEffect
  <2>3. PICK r \in c.rows : RowSkipped(c) \/ RowReturned(c, r)
    BY <2>2
  <2>4. CASE RowSkipped(c)
    BY <2>1, <2>4 DEF OrderInv, RowSkipped
  <2>5. CASE RowReturned(c, r)
    <3>1. c \in Candidates /\ c.dist \in Nat /\ c.rows \subseteq Places \X Nat
      <4>1. c \in Candidates
        BY TypeFacts DEF Held
      <4>2. QED
        BY <4>1 DEF Candidates
    <3>2. PICK x : x = [row |-> r, dist |-> c.dist]
      OBVIOUS
    <3>12. x \in Rows /\ x.dist = c.dist
      BY <3>1, <3>2 DEF Rows
    <3>3. out' = Append(out, x) /\ out \in Seq(Rows)
      BY <2>5, <3>2, <3>12, TypeFacts DEF RowReturned
    <3>4. SUFFICES ASSUME setting.iterative = "strict"
                   PROVE  /\ \A i \in DOMAIN out' : out'[i].dist <= so'.prev
                          /\ \A i, j \in DOMAIN out' : i < j => out'[i].dist <= out'[j].dist
      BY <2>1 DEF OrderInv
    <3>5. so'.prev = c.dist /\ so.prev <= c.dist
      BY <2>5, <3>1, <3>4, TypeFacts DEF RowReturned
    <3>6. \A i \in DOMAIN out : out[i].dist <= c.dist
      BY <3>1, <3>4, <3>5, RowFacts, TypeFacts DEF OrderInv
    <3>7. PICK n : n = Len(out) + 1
      OBVIOUS
    <3>8. /\ n \in Nat /\ DOMAIN out = 1..(n - 1) /\ out'[n] = x /\ \A i \in DOMAIN out : out'[i] = out[i]
          /\ \A i \in DOMAIN out' : i \in DOMAIN out \/ i = n
      BY <3>12, <3>3, <3>7, AppendFact
    <3>9. \A i \in DOMAIN out' : out'[i].dist <= so'.prev
      BY <3>1, <3>12, <3>5, <3>6, <3>8
    <3>10. ASSUME NEW i \in DOMAIN out', NEW j \in DOMAIN out', i < j
           PROVE  out'[i].dist <= out'[j].dist
      <4>1. i \in DOMAIN out
        BY <3>8, <3>10
      <4>2. CASE j = n
        BY <3>12, <3>6, <3>8, <4>1, <4>2
      <4>3. CASE j \in DOMAIN out
        BY <3>4, <3>8, <3>10, <4>1, <4>3 DEF OrderInv
      <4>4. QED
        BY <3>8, <4>2, <4>3
    <3>11. QED
      BY <3>9, <3>10
  <2>6. QED
    BY <2>3, <2>4, <2>5
<1>4. QED
  BY <1>1, <1>2, <1>3

\* In strict order hnswgettuple returns rows by distance, over all the batches of an
\* iterative scan, whatever the index and whatever VACUUM and inserts do meanwhile.
THEOREM OrderedOutputCorrect == Spec => []OrderedOutput
<1>1. Init => OrderInv
  BY DEF Init, OrderInv
<1>2. ScanInv /\ OrderInv /\ [Next]_vars => OrderInv'
  BY OrderNext
<1>3. OrderInv => OrderedOutput
  BY DEF OrderInv, OrderedOutput
<1>4. QED
  BY <1>1, <1>2, <1>3, ScanInvariant, PTL DEF Spec
-----------------------------------------------------------------------------
(***************************************************************************)
(* A row is returned once.                                                 *)
(***************************************************************************)
\* A row is one of its element's place.
LEMMA OtherRow ==
  ASSUME NEW c, Loaded(c), NEW r, r[1] # c.tid
  PROVE  r \notin c.rows
  BY DEF Loaded, RowsOf

\* Before the first row.
LEMMA OnceFresh ==
  ASSUME out' = <<>>, so'.disc = {}, \A c \in Batch' : c.tid \in Met',
         \A c, d \in Batch' : c # d => c.tid # d.tid
  PROVE  OnceInv'
<1>1. DOMAIN out' = {}
  OBVIOUS
<1>2. QED
  BY <1>1 DEF OnceInv

\* Less in hand, no more met and none returned.
LEMMA OnceLess ==
  ASSUME OnceInv, out' = out, Met' = Met, so'.disc \subseteq so.disc,
         Batch' \subseteq Batch, Whole' \subseteq Whole
  PROVE  OnceInv'
  BY DEF OnceInv

LEMMA QuietOnce ==
  ASSUME ScanInv, OnceInv, UNCHANGED <<so, srch, out>>,
         \/ pc' = pc
         \/ pc = "idle" /\ pc' = "fetch" /\ ~so.first
         \/ pc = "fetch" /\ pc' = "done"
         \/ pc = "search" /\ pc' = "error"
  PROVE  OnceInv'
<1>1. Met' = Met
  BY DEF Met
<1>2. Batch' \subseteq Batch
  BY TypeFacts DEF Batch, Phase
<1>3. Whole' \subseteq Whole
  BY DEF Whole
<1>4. QED
  BY <1>1, <1>2, <1>3, OnceLess

LEMMA FirstCallOnce ==
  ASSUME ScanInv, OnceInv, FirstCall
  PROVE  OnceInv'
<1>1. CASE entry = NoTid
  <2>1. Batch' = {} /\ out' = <<>> /\ so'.disc = {}
    BY <1>1, FirstCallEmpty DEF Batch
  <2>2. QED
    BY <2>1, OnceFresh
<1>2. CASE entry # NoTid
  <2>1. PICK e : e = Candidate(entry)
    OBVIOUS
  <2>2. Batch' = {e} /\ out' = <<>> /\ so'.disc = {} /\ Met' = {entry} /\ e.tid = entry
    BY <1>2, <2>1, FirstLayerEffect DEF Batch, Met
  <2>3. QED
    BY <2>2, OnceFresh
<1>3. QED
  BY <1>1, <1>2

LEMMA NextLayerOnce ==
  ASSUME ScanInv, OnceInv, NextLayer
  PROVE  OnceInv'
<1>1. Batch = srch.W /\ Batch' = srch.W /\ out' = <<>> /\ so'.disc = {}
  BY NextLayerEffect DEF Batch
<1>2. \A c \in srch.W : c.tid \in Met'
  BY NextLayerEffect DEF Met, Tids
<1>3. \A c, d \in srch.W : c # d => c.tid # d.tid
  BY <1>1 DEF OnceInv
<1>4. QED
  BY <1>1, <1>2, <1>3, OnceFresh

LEMMA ExpandOnce ==
  ASSUME ScanInv, OnceInv, ExpandNearest
  PROVE  OnceInv'
<1>1. /\ UNCHANGED <<pc, out>> /\ pc = "search" /\ srch.unv = {} /\ srch'.W = srch.W /\ so'.disc = so.disc
  BY ExpandEffect
<1>2. PICK new \in SUBSET (Used \ so.vis) : srch'.unv = new /\ so'.vis = so.vis \union new
  BY ExpandEffect
<1>3. Met' = Met
  BY <1>1, <1>2 DEF Met
<1>4. Batch' = Batch /\ Whole' = Whole
  BY <1>1 DEF Batch, Whole
<1>5. QED
  BY <1>1, <1>3, <1>4, OnceLess

\* An element is loaded once: its place was not met before, and it is in W, or kept, or
\* neither.
LEMMA LoadOnce ==
  ASSUME ScanInv, OnceInv, LoadUnvisited
  PROVE  OnceInv'
<1>1. UNCHANGED <<pc, out>> /\ pc = "search" /\ so'.vis = so.vis
  BY LoadEffect
<1>2. PICK t \in srch.unv, f \in FurthestOf(srch.W) :
              /\ srch'.unv = srch.unv \ {t}
              /\ \/ LoadRefused(t, Candidate(t), f)
                 \/ \E D \in SUBSET (srch.W \union {Candidate(t)}) : LoadTaken(Candidate(t), f, D)
  BY LoadEffect
<1>3. PICK e : e = Candidate(t)
  OBVIOUS
<1>4. e.tid = t /\ Loaded(e)
  BY <1>3, TypeFacts, CandidateFact
<1>5. t \notin Met /\ Met' = Met \union {t}
  BY <1>1, <1>2, TypeFacts DEF Met, Phase
<1>6. /\ Batch = srch.W /\ Batch' = srch'.W /\ Whole = srch.W \union so.disc
      /\ Whole' = srch'.W \union so'.disc
  BY <1>1 DEF Batch, Whole
<1>7. /\ srch'.W \union so'.disc \subseteq srch.W \union so.disc \union {e}
      /\ srch'.W \intersect so'.disc = {}
  <2>1. srch.W \intersect so.disc = {} /\ e \notin srch.W /\ e \notin so.disc
    BY <1>4, <1>5, <1>6 DEF OnceInv
  <2>2. CASE LoadRefused(t, e, f)
    <3>1. srch'.W = srch.W /\ (so'.disc = so.disc \/ so'.disc = so.disc \union {e})
      BY <2>2 DEF LoadRefused, Kept
    <3>2. QED
      BY <2>1, <3>1
  <2>3. CASE \E D \in SUBSET (srch.W \union {e}) : LoadTaken(e, f, D)
    <3>1. PICK D \in SUBSET (srch.W \union {e}) : LoadTaken(e, f, D)
      BY <2>3
    <3>2. srch'.W = (srch.W \union {e}) \ D /\ (so'.disc = so.disc \/ so'.disc = so.disc \union D)
      BY <3>1 DEF LoadTaken, Kept
    <3>3. QED
      BY <2>1, <3>2
  <2>4. QED
    BY <1>2, <1>3, <2>2, <2>3
<1>8. \A c \in srch.W \union so.disc : c.tid # e.tid
  BY <1>4, <1>5, <1>6 DEF OnceInv
<1>9. \A i \in DOMAIN out : \A c \in srch.W \union so.disc \union {e} : c.tid # out[i].row[1]
  BY <1>4, <1>5, <1>6 DEF OnceInv
<1>10. \A i \in DOMAIN out : \A c \in srch'.W : out[i].row \notin c.rows
  <2>1. \A c \in srch'.W : Loaded(c)
    BY <1>4, <1>7, TypeFacts DEF Held
  <2>2. QED
    BY <1>7, <1>9, <2>1, OtherRow
<1>11. \A c, d \in srch'.W \union so'.disc : c # d => c.tid # d.tid
  BY <1>6, <1>7, <1>8 DEF OnceInv
<1>12. \A c \in srch'.W \union so'.disc : c.tid \in Met'
  BY <1>4, <1>5, <1>6, <1>7 DEF OnceInv
<1>13. \A i \in DOMAIN out : out[i].row[1] \in Met'
  BY <1>5 DEF OnceInv
<1>14. QED
  BY <1>1, <1>6, <1>7, <1>9, <1>10, <1>11, <1>12, <1>13 DEF OnceInv

LEMMA BatchOnce ==
  ASSUME ScanInv, OnceInv, BatchDone
  PROVE  OnceInv'
<1>1. /\ out' = out /\ pc = "search" /\ pc' \in {"done", "fetch"} /\ srch.unv = {}
      /\ srch' = NoSearch /\ so'.first = FALSE /\ so'.w = srch.W /\ so'.vis = so.vis /\ so'.disc = so.disc
  BY BatchEffect
<1>2. Met' = Met
  BY <1>1 DEF Met, NoSearch
<1>3. Batch' = Batch /\ Whole' \subseteq Whole
  BY <1>1 DEF Batch, Whole
<1>4. QED
  BY <1>1, <1>2, <1>3, OnceLess

\* Elements are taken from the discarded heap.
LEMMA TakenOnce ==
  ASSUME ScanInv, OnceInv, pc = "fetch", NEW ep \in SUBSET so.disc, out' = out, Met' = Met,
         so'.disc = so.disc \ ep, Batch' = ep, Whole' \subseteq so.disc
  PROVE  OnceInv'
<1>1. Whole = so.disc
  BY DEF Whole
<1>2. \A c \in ep : Loaded(c)
  BY TypeFacts DEF Held
<1>3. \A i \in DOMAIN out : \A c \in ep : out[i].row \notin c.rows
  BY <1>1, <1>2, OtherRow DEF OnceInv
<1>4. QED
  BY <1>1, <1>3 DEF OnceInv

LEMMA RemainingOnce ==
  ASSUME ScanInv, OnceInv, ReturnRemaining
  PROVE  OnceInv'
<1>1. /\ UNCHANGED <<pc, srch, out>> /\ pc = "fetch" /\ so'.first = so.first /\ so'.vis = so.vis
  BY RemainingEffect
<1>2. PICK c \in so.disc : so'.w = {c} /\ so'.disc = so.disc \ {c}
  BY RemainingEffect
<1>3. ~so.first /\ Met' = Met
  BY <1>1, TypeFacts DEF Phase, Met
<1>4. Batch' = {c} /\ Whole' \subseteq so.disc
  BY <1>1, <1>2, <1>3 DEF Batch, Whole
<1>5. QED
  BY <1>1, <1>2, <1>3, <1>4, TakenOnce

LEMMA ResumeOnce ==
  ASSUME ScanInv, OnceInv, Resume
  PROVE  OnceInv'
<1>1. /\ out' = out /\ pc = "fetch" /\ pc' = "search" /\ srch.unv = {} /\ srch'.unv = {} /\ so'.vis = so.vis
  BY ResumedEffect
<1>2. PICK ep \in SUBSET so.disc : srch'.W = ep /\ so'.disc = so.disc \ ep
  BY ResumedEffect
<1>3. Met' = Met /\ Batch' = ep /\ Whole' \subseteq so.disc
  BY <1>1, <1>2 DEF Batch, Whole, Met
<1>4. QED
  BY <1>1, <1>2, <1>3, TakenOnce

LEMMA SkipOnce ==
  ASSUME ScanInv, OnceInv, SkipElement
  PROVE  OnceInv'
<1>1. /\ UNCHANGED <<pc, srch, out>> /\ pc = "fetch" /\ so'.w \subseteq so.w
      /\ so'.first = so.first /\ so'.vis = so.vis /\ so'.disc = so.disc
  BY SkipEffect
<1>2. Met' = Met /\ Batch' \subseteq Batch /\ Whole' = Whole
  BY <1>1 DEF Met, Batch, Whole
<1>3. QED
  BY <1>1, <1>2, OnceLess

LEMMA FetchOnce ==
  ASSUME ScanInv, OnceInv, FetchRow
  PROVE  OnceInv'
<1>1. /\ UNCHANGED srch /\ pc = "fetch"
      /\ so'.first = so.first /\ so'.vis = so.vis /\ so'.disc = so.disc
  BY FetchEffect
<1>2. PICK c \in so.w, d \in Candidates : \E r \in c.rows :
              /\ so'.w = (so.w \ {c}) \union {d}
              /\ d.tid = c.tid /\ d.dist = c.dist /\ d.rows = c.rows \ {r}
              /\ RowSkipped(c) \/ RowReturned(c, r)
  BY FetchEffect
<1>3. PICK r \in c.rows :
              /\ so'.w = (so.w \ {c}) \union {d}
              /\ d.tid = c.tid /\ d.dist = c.dist /\ d.rows = c.rows \ {r}
              /\ RowSkipped(c) \/ RowReturned(c, r)
  BY <1>2
<1>4. ~so.first /\ (pc' = "idle" \/ pc' = "fetch")
  BY <1>1, <1>3, TypeFacts DEF Phase, RowSkipped, RowReturned
<1>5. /\ Batch = so.w /\ Batch' = (so.w \ {c}) \union {d} /\ Met' = Met
      /\ Whole = so.disc /\ Whole' = so.disc
  BY <1>1, <1>3, <1>4 DEF Batch, Whole, Met
<1>6. PICK B : B = (so.w \ {c}) \union {d}
  OBVIOUS
<1>7. \A x \in so.w \union so.disc : x # c => x.tid # c.tid
  BY <1>5 DEF OnceInv
<1>8. B \intersect so.disc = {}
  <2>1. c \notin so.disc /\ so.w \intersect so.disc = {}
    BY <1>5 DEF OnceInv
  <2>2. d \notin so.disc
    BY <1>3, <1>7, <2>1
  <2>3. QED
    BY <1>6, <2>1, <2>2
<1>9. \A x, y \in B \union so.disc : x # y => x.tid # y.tid
  <2>1. \A x, y \in so.w \union so.disc : x # y => x.tid # y.tid
    BY <1>5 DEF OnceInv
  <2>2. \A x \in so.disc : x # c
    BY <1>5 DEF OnceInv
  <2>3. QED
    BY <1>3, <1>6, <1>7, <2>1, <2>2
<1>10. \A x \in B \union so.disc : x.tid \in Met
  BY <1>3, <1>5, <1>6 DEF OnceInv
<1>11. \A i \in DOMAIN out : \A x \in B : out[i].row \notin x.rows
  BY <1>3, <1>5, <1>6 DEF OnceInv
<1>12. CASE RowSkipped(c)
  <2>1. out' = out
    BY <1>12 DEF RowSkipped
  <2>2. QED
    BY <1>1, <1>5, <1>6, <1>8, <1>9, <1>10, <1>11, <2>1 DEF OnceInv
<1>13. CASE RowReturned(c, r)
  <2>1. c \in Candidates /\ c.dist \in Nat /\ Loaded(c) /\ \A x \in so.w : Loaded(x)
    <3>1. \A x \in so.w : Loaded(x) /\ x \in Candidates
      BY TypeFacts DEF Held
    <3>2. QED
      BY <3>1 DEF Candidates
  <2>2. r \in Places \X Nat /\ r[1] = c.tid
    BY <2>1 DEF Loaded, RowsOf, Candidates
  <2>3. PICK x : x = [row |-> r, dist |-> c.dist]
    OBVIOUS
  <2>4. x \in Rows /\ x.row = r
    BY <2>1, <2>2, <2>3 DEF Rows
  <2>5. out' = Append(out, x) /\ out \in Seq(Rows)
    BY <1>13, <2>3, TypeFacts DEF RowReturned
  <2>6. PICK n : n = Len(out) + 1
    OBVIOUS
  <2>7. /\ n \in Nat /\ DOMAIN out = 1..(n - 1) /\ out'[n] = x /\ \A i \in DOMAIN out : out'[i] = out[i]
        /\ \A i \in DOMAIN out' : i \in DOMAIN out \/ i = n
    BY <2>4, <2>5, <2>6, AppendFact
  <2>8. c.tid \in Met /\ c \notin so.disc /\ \A i \in DOMAIN out : out[i].row # r
    BY <1>5 DEF OnceInv
  <2>9. \A i \in DOMAIN out' : out'[i].row[1] \in Met
    BY <2>2, <2>4, <2>7, <2>8 DEF OnceInv
  <2>10. \A i \in DOMAIN out' : \A y \in so.disc : y.tid # out'[i].row[1]
    <3>1. \A y \in so.disc : y.tid # c.tid
      BY <1>7, <2>8
    <3>2. QED
      BY <1>5, <2>2, <2>4, <2>7, <3>1 DEF OnceInv
  <2>11. \A i \in DOMAIN out' : \A y \in B : out'[i].row \notin y.rows
    <3>1. \A y \in so.w \ {c} : r \notin y.rows
      BY <1>7, <2>1, <2>2, OtherRow
    <3>2. \A y \in B : r \notin y.rows
      BY <1>3, <1>6, <3>1
    <3>3. QED
      BY <1>11, <2>4, <2>7, <3>2
  <2>12. \A i, j \in DOMAIN out' : i # j => out'[i].row # out'[j].row
    BY <2>4, <2>7, <2>8 DEF OnceInv
  <2>13. QED
    BY <1>1, <1>5, <1>6, <1>8, <1>9, <1>10, <2>9, <2>10, <2>11, <2>12 DEF OnceInv
<1>14. QED
  BY <1>3, <1>12, <1>13

LEMMA RescanOnce ==
  ASSUME ScanInv, OnceInv, Rescan
  PROVE  OnceInv'
<1>1. out' = <<>> /\ so'.disc = {} /\ Batch' = {}
  BY RescanEffect DEF Batch
<1>2. QED
  BY <1>1, OnceFresh

LEMMA OnceNext ==
  ASSUME ScanInv, OnceInv, [Next]_vars
  PROVE  OnceInv'
<1>1. CASE ScanStep
  <2>1. CASE FirstCall       BY <2>1, FirstCallOnce
  <2>2. CASE NextCall        BY <2>2, QuietOnce DEF NextCall
  <2>3. CASE LoadFails       BY <2>3, QuietOnce DEF LoadFails
  <2>4. CASE NoMore          BY <2>4, QuietOnce DEF NoMore
  <2>5. CASE ExpandNearest   BY <2>5, ExpandOnce
  <2>6. CASE LoadUnvisited   BY <2>6, LoadOnce
  <2>7. CASE NextLayer       BY <2>7, NextLayerOnce
  <2>8. CASE BatchDone       BY <2>8, BatchOnce
  <2>9. CASE ReturnRemaining BY <2>9, RemainingOnce
  <2>10. CASE Resume         BY <2>10, ResumeOnce
  <2>11. CASE SkipElement    BY <2>11, SkipOnce
  <2>12. CASE FetchRow       BY <2>12, FetchOnce
  <2>13. QED
    BY <1>1, <2>1, <2>2, <2>3, <2>4, <2>5, <2>6, <2>7, <2>8, <2>9, <2>10, <2>11, <2>12 DEF ScanStep
<1>2. CASE Rescan
  BY <1>2, RescanOnce
<1>3. CASE VacuumAndInserts /\ UNCHANGED setting
  BY <1>3, VacuumType, QuietOnce
<1>4. CASE UNCHANGED vars
  BY <1>4, QuietOnce DEF vars
<1>5. CASE Over
  BY <1>4, <1>5 DEF Over
<1>6. QED
  BY <1>1, <1>2, <1>3, <1>4, <1>5 DEF Next

LEMMA OnceInvariant == Spec => []OnceInv
<1>1. Init => OnceInv
  <2>1. SUFFICES ASSUME Init PROVE OnceInv
    OBVIOUS
  <2>2. out = <<>> /\ so.disc = {} /\ Batch = {}
    BY <2>1 DEF Init, NewScan, Batch
  <2>3. DOMAIN out = {}
    BY <2>2
  <2>4. QED
    BY <2>2, <2>3 DEF OnceInv
<1>2. ScanInv /\ OnceInv /\ [Next]_vars => OnceInv'
  BY OnceNext
<1>3. QED
  BY <1>1, <1>2, ScanInvariant, PTL DEF Spec

\* hnswgettuple returns a row once: no candidate is in the batch and the discarded heap at
\* once, whatever was discarded, taken up again or given a place by an insert.
THEOREM RowsOnceCorrect == Spec => []RowsOnce
<1>1. ScanInv /\ OnceInv => RowsOnce
  <2>1. SUFFICES ASSUME ScanInv, OnceInv PROVE RowsOnce
    OBVIOUS
  <2>2. ASSUME pc \in {"idle", "fetch"}, ~so.first, NEW c \in so.w
        PROVE  /\ \A d \in so.disc : c.tid # d.tid
               /\ \A i \in DOMAIN out : out[i].row \notin c.rows
    <3>1. Batch = so.w
      BY <2>2 DEF Batch
    <3>2. \A d \in so.disc : c # d
      BY <2>1, <3>1 DEF OnceInv
    <3>3. QED
      BY <2>1, <3>1, <3>2 DEF OnceInv
  <2>3. QED
    BY <2>1, <2>2 DEF RowsOnce, OnceInv
<1>2. QED
  BY <1>1, OnceInvariant, ScanInvariant, PTL
-----------------------------------------------------------------------------
(***************************************************************************)
(* Versions.                                                               *)
(***************************************************************************)
\* What a search comes to hold it held before, or loads.
LEMMA SearchedNext ==
  ASSUME ScanInv, ScanStep \/ Rescan
  PROVE  /\ UNCHANGED <<etup, links, entry, vac>> /\ count'.vacuums = count.vacuums
         /\ \A c \in Searched' : c \in Searched \/ \E t \in Used : c = Candidate(t)
<1>1. CASE FirstCall
  <2>1. CASE entry = NoTid
    BY <1>1, <2>1, FirstCallEmpty DEF Searched
  <2>2. CASE entry # NoTid
    BY <1>1, <2>2, FirstLayerEffect DEF Searched
  <2>3. QED
    BY <2>1, <2>2
<1>2. CASE NextCall \/ LoadFails \/ NoMore
  BY <1>2 DEF NextCall, LoadFails, NoMore, index, Searched
<1>3. CASE ExpandNearest
  BY <1>3, ExpandEffect DEF Searched
<1>4. CASE LoadUnvisited
  <2>1. UNCHANGED <<etup, links, entry, vac, count>>
    BY <1>4, LoadEffect
  <2>2. PICK t \in srch.unv, f \in FurthestOf(srch.W) :
              \/ LoadRefused(t, Candidate(t), f)
              \/ \E D \in SUBSET (srch.W \union {Candidate(t)}) : LoadTaken(Candidate(t), f, D)
    BY <1>4, LoadEffect
  <2>3. PICK e : e = Candidate(t)
    OBVIOUS
  <2>4. Searched' \subseteq Searched \union {e}
    <3>1. CASE LoadRefused(t, e, f)
      <4>1. srch'.C = srch.C /\ srch'.W = srch.W /\ so'.disc \subseteq so.disc \union {e}
        BY <3>1 DEF LoadRefused, Kept
      <4>2. QED
        BY <4>1 DEF Searched
    <3>2. CASE \E D \in SUBSET (srch.W \union {e}) : LoadTaken(e, f, D)
      <4>1. PICK D \in SUBSET (srch.W \union {e}) : LoadTaken(e, f, D)
        BY <3>2
      <4>2. srch'.C = srch.C \union {e} /\ srch'.W \subseteq srch.W \union {e} /\ so'.disc \subseteq so.disc \union D
        BY <4>1 DEF LoadTaken, Kept
      <4>3. QED
        BY <4>2 DEF Searched
    <3>3. QED
      BY <2>2, <2>3, <3>1, <3>2
  <2>5. t \in Used
    BY TypeFacts
  <2>6. QED
    BY <2>1, <2>3, <2>4, <2>5
<1>5. CASE NextLayer
  BY <1>5, NextLayerEffect DEF Searched
<1>6. CASE BatchDone
  <2>1. srch'.C = {} /\ srch'.W = {}
    BY <1>6, BatchEffect DEF NoSearch
  <2>2. QED
    BY <1>6, <2>1, BatchEffect DEF Searched
<1>7. CASE ReturnRemaining
  BY <1>7, RemainingEffect DEF Searched
<1>8. CASE Resume
  BY <1>8, ResumedEffect DEF Searched
<1>9. CASE SkipElement
  BY <1>9, SkipEffect DEF Searched
<1>10. CASE FetchRow
  BY <1>10, FetchEffect DEF Searched
<1>11. CASE Rescan
  BY <1>11, RescanEffect DEF Searched
<1>12. QED
  BY <1>1, <1>2, <1>3, <1>4, <1>5, <1>6, <1>7, <1>8, <1>9, <1>10, <1>11 DEF ScanStep

LEMMA VersionFacts ==
  ASSUME ScanInv
  PROVE  /\ count.vacuums \in Nat /\ setting.vacuums \in Nat /\ VersionMax \in Nat
         /\ \A t \in Used : etup[t] \in ETuple /\ etup[t].gen \in Nat
         /\ vac.dead \subseteq Used /\ vac.left \subseteq Used
  BY TypeFacts, ScanConstants DEF Settings, IndexType, VacType, ETuple

\* A VACUUM that begins finds every element older than itself.
LEMMA VacuumBeginVersion ==
  ASSUME ScanInv, VersionInv, VacuumBegin, UNCHANGED setting
  PROVE  VersionInv'
<1>1. UNCHANGED <<etup, so, srch>> /\ count.vacuums < setting.vacuums
  BY DEF VacuumBegin, index
<1>2. count'.vacuums = count.vacuums + 1
  BY TypeFacts DEF VacuumBegin
<1>3. PICK D \in SUBSET Used : vac' = [phase |-> "remove", dead |-> D, left |-> D]
  BY DEF VacuumBegin, Intact, Used
<1>4. Used' = Used /\ Searched' = Searched /\ Due' = D /\ vac'.phase # "idle"
  BY <1>1, <1>3 DEF Used, Searched, Due
<1>5. count'.vacuums <= setting.vacuums
  BY <1>1, <1>2, VersionFacts
<1>6. \A t \in Used : etup[t].gen < count'.vacuums
  BY <1>2, VersionFacts DEF VersionInv
<1>7. \A t \in Used : etup[t].gen <= count'.vacuums
  BY <1>2, VersionFacts DEF VersionInv
<1>8. QED
  BY <1>1, <1>4, <1>5, <1>6, <1>7 DEF VersionInv

\* A step of VACUUM or an insert that clears no element.
LEMMA SameVersions ==
  ASSUME ScanInv, VersionInv, UNCHANGED <<so, srch, count, setting>>, Used' = Used,
         \A t \in Used : etup'[t].gen = etup[t].gen /\ etup'[t].version = etup[t].version,
         Due' \subseteq Due, vac'.phase = "idle" => vac'.dead = {}
  PROVE  VersionInv'
<1>1. Searched' = Searched
  BY DEF Searched
<1>2. Due \subseteq Used
  BY VersionFacts DEF Due
<1>3. QED
  BY <1>1, <1>2 DEF VersionInv

LEMMA RemoveHeapTidsVersion ==
  ASSUME ScanInv, VersionInv, RemoveHeapTids, UNCHANGED setting
  PROVE  VersionInv'
<1>1. UNCHANGED <<so, srch, count>> /\ vac.phase = "remove"
  BY DEF RemoveHeapTids
<1>2. PICK t \in vac.left :
       /\ etup' = [etup EXCEPT ![t].rows = {}]
       /\ vac' = IF vac.left = {t} THEN [vac EXCEPT !.phase = "repair", !.left = Intact \ vac.dead]
                 ELSE [vac EXCEPT !.left = @ \ {t}]
  BY DEF RemoveHeapTids
<1>3. vac'.dead = vac.dead /\ vac'.phase \in {"remove", "repair"}
  BY <1>1, <1>2, TypeFacts DEF VacType
<1>4. Due' = Due
  BY <1>1, <1>3 DEF Due
<1>5. \A o \in Used : etup'[o].gen = etup[o].gen /\ etup'[o].version = etup[o].version
  BY <1>2, VersionFacts DEF Used, ETuple
<1>6. Used' = Used
  BY <1>2 DEF Used
<1>7. QED
  BY <1>1, <1>3, <1>4, <1>5, <1>6, SameVersions

LEMMA RepairVersion ==
  ASSUME ScanInv, VersionInv, RepairGraph \/ WaitForScans, UNCHANGED setting
  PROVE  VersionInv'
<1>1. UNCHANGED <<etup, so, srch, count>> /\ vac.phase = "repair"
  BY DEF RepairGraph, WaitForScans
<1>2. Due = vac.dead
  BY <1>1 DEF Due
<1>3. vac'.phase # "idle" /\ Due' = vac.dead
  <2>1. CASE RepairGraph
    <3>1. \E t \in vac.left : vac' = [vac EXCEPT !.left = @ \ {t}]
      BY <2>1 DEF RepairGraph
    <3>2. vac'.phase = "repair" /\ vac'.dead = vac.dead
      BY <1>1, <3>1, TypeFacts DEF VacType
    <3>3. QED
      BY <3>2 DEF Due
  <2>2. CASE WaitForScans
    <3>1. vac' = [vac EXCEPT !.phase = "mark", !.left = vac.dead]
      BY <2>2 DEF WaitForScans
    <3>2. vac'.phase = "mark" /\ vac'.left = vac.dead
      BY <3>1, TypeFacts DEF VacType
    <3>3. QED
      BY <3>2 DEF Due
  <2>3. QED
    BY <2>1, <2>2
<1>4. Used' = Used
  BY <1>1 DEF Used
<1>5. QED
  BY <1>1, <1>2, <1>3, <1>4, SameVersions

\* An element is cleared once by a VACUUM, so its version has not come round.
LEMMA MarkDeletedVersion ==
  ASSUME ScanInv, VersionInv, MarkDeleted, UNCHANGED setting
  PROVE  VersionInv'
<1>1. UNCHANGED <<so, srch, count>> /\ vac.phase = "mark"
  BY DEF MarkDeleted
<1>2. PICK t \in vac.left :
       /\ etup' = [etup EXCEPT ![t].deleted = TRUE, ![t].gen = @ + 1, ![t].version = NextVersion(@)]
       /\ vac' = IF vac.left = {t} THEN [phase |-> "idle", dead |-> {}, left |-> {}]
                 ELSE [vac EXCEPT !.left = @ \ {t}]
  BY DEF MarkDeleted
<1>3. t \in Used /\ etup[t] \in ETuple /\ t \in Due
  BY <1>1, VersionFacts DEF Due
<1>4. PICK g \in Nat : g = etup[t].gen
  BY <1>3, VersionFacts
<1>5. g < count.vacuums /\ count.vacuums < VersionMax /\ etup[t].version = g + 1
  BY <1>3, <1>4, VersionFacts DEF VersionInv
<1>6. NextVersion(g + 1) = g + 2 /\ g + 1 <= count.vacuums
  BY <1>4, <1>5, VersionFacts DEF NextVersion
<1>7. etup'[t].gen = g + 1 /\ etup'[t].version = g + 2
  <2>1. etup'[t] = [etup[t] EXCEPT !.deleted = TRUE, !.gen = @ + 1, !.version = NextVersion(@)]
    BY <1>2, <1>3 DEF Used
  <2>2. etup'[t].gen = etup[t].gen + 1 /\ etup'[t].version = NextVersion(etup[t].version)
    BY <1>3, <2>1 DEF ETuple
  <2>3. QED
    BY <1>4, <1>5, <1>6, <2>2
<1>8. Used' = Used /\ \A o \in Used : o # t => etup'[o] = etup[o]
  BY <1>2 DEF Used
<1>9. \A o \in Used : etup'[o].gen <= count.vacuums /\ etup'[o].version = etup'[o].gen + 1
  BY <1>4, <1>6, <1>7, <1>8 DEF VersionInv
<1>10. Due' \subseteq Due \ {t} /\ (vac'.phase = "idle" => vac'.dead = {})
  <2>1. CASE vac.left = {t}
    BY <1>2, <2>1 DEF Due
  <2>2. CASE vac.left # {t}
    <3>1. vac' = [vac EXCEPT !.left = @ \ {t}]
      BY <1>2, <2>2
    <3>2. vac'.phase = "mark" /\ vac'.left = vac.left \ {t}
      BY <1>1, <3>1, TypeFacts DEF VacType
    <3>3. QED
      BY <1>1, <3>2 DEF Due
  <2>3. QED
    BY <2>1, <2>2
<1>11. Due \subseteq Used /\ Searched' = Searched
  BY <1>1, VersionFacts DEF Due, Searched
<1>12. \A o \in Due' : etup'[o].gen < count.vacuums
  BY <1>8, <1>10, <1>11 DEF VersionInv
<1>13. QED
  BY <1>1, <1>8, <1>9, <1>10, <1>11, <1>12 DEF VersionInv

LEMMA ReusePlaceVersion ==
  ASSUME ScanInv, VersionInv, ReusePlace, UNCHANGED setting
  PROVE  VersionInv'
<1>1. UNCHANGED <<so, srch, vac, count>>
  BY DEF ReusePlace
<1>2. PICK t \in Used, d \in Distances :
       etup' = [etup EXCEPT ![t] = [@ EXCEPT !.deleted = FALSE, !.level = 0, !.dist = d,
                                             !.rows = {<<t, etup[t].gen + RowsPerElement>>}]]
  BY DEF ReusePlace, Used
<1>3. \A o \in Used : etup'[o].gen = etup[o].gen /\ etup'[o].version = etup[o].version
  BY <1>2, VersionFacts DEF Used, ETuple
<1>4. Used' = Used /\ Due' = Due
  BY <1>1, <1>2 DEF Used, Due
<1>5. QED
  BY <1>1, <1>3, <1>4, SameVersions DEF VersionInv

LEMMA VersionStep ==
  ASSUME ScanInv, VersionInv, [Next]_vars
  PROVE  VersionInv'
<1>1. CASE (ScanStep \/ Rescan) /\ UNCHANGED setting
  <2>1. /\ UNCHANGED <<etup, vac>> /\ count'.vacuums = count.vacuums
        /\ \A c \in Searched' : c \in Searched \/ \E t \in Used : c = Candidate(t)
    BY <1>1, SearchedNext
  <2>2. \A c \in Searched' : c.version = c.gen + 1
    BY <2>1, TypeFacts, CandidateFact DEF VersionInv
  <2>3. Used' = Used /\ Due' = Due
    BY <2>1 DEF Used, Due
  <2>4. QED
    BY <1>1, <2>1, <2>2, <2>3 DEF VersionInv
<1>2. CASE VacuumAndInserts /\ UNCHANGED setting
  BY <1>2, VacuumBeginVersion, RemoveHeapTidsVersion, RepairVersion, MarkDeletedVersion, ReusePlaceVersion
     DEF VacuumAndInserts
<1>3. CASE UNCHANGED vars
  BY <1>3, SameVersions DEF vars, Used, Due, VersionInv
<1>4. CASE Over
  BY <1>3, <1>4 DEF Over
<1>5. QED
  BY <1>1, <1>2, <1>3, <1>4 DEF Next, ScanStep

\* Versions last as long as the VACUUMs of one scan.
VersionsSuffice == \A s \in Setups : s.settings.vacuums < VersionMax

\* If fewer VACUUMs than there are versions end during a scan, HnswLoadNeighborTids never
\* takes the neighbor tuple of another element for that of one loaded in an earlier
\* iteration.
THEOREM VersionsTellCorrect == VersionsSuffice => (Spec => []VersionsTell)
<1>1. SUFFICES ASSUME VersionsSuffice PROVE Spec => []VersionsTell
  OBVIOUS
<1>2. Init => VersionInv
  <2>1. SUFFICES ASSUME Init PROVE VersionInv
    OBVIOUS
  <2>2. PICK s \in Setups : setting = s.settings
    BY <2>1 DEF Init
  <2>3. setting.vacuums < VersionMax /\ setting.vacuums \in Nat
    BY <1>1, <2>2, ScanConstants DEF VersionsSuffice, Settings
  <2>4. \A t \in Used : etup[t].gen = 0 /\ etup[t].version = 1
    BY <2>1 DEF Init, Used
  <2>5. count.vacuums = 0 /\ vac.dead = {} /\ vac.phase = "idle" /\ Searched = {}
    BY <2>1 DEF Init, Searched, NewScan, NoSearch
  <2>6. Due = {}
    BY <2>5 DEF Due
  <2>7. QED
    BY <2>3, <2>4, <2>5, <2>6 DEF VersionInv
<1>3. ScanInv /\ VersionInv /\ [Next]_vars => VersionInv'
  BY VersionStep
<1>4. ScanInv /\ VersionInv => VersionsTell
  <2>1. SUFFICES ASSUME ScanInv, VersionInv, NEW c \in srch.C \union so.disc, OwnTuple(c)
                 PROVE  etup[c.tid].gen = c.gen
    BY DEF VersionsTell
  <2>2. c \in Searched /\ c.tid \in Used /\ c.gen \in Nat /\ etup[c.tid].gen \in Nat
    BY <2>1, TypeFacts, VersionFacts DEF Searched, Held, Loaded, Candidates
  <2>3. c.version = c.gen + 1 /\ etup[c.tid].version = etup[c.tid].gen + 1
    BY <2>1, <2>2 DEF VersionInv
  <2>4. QED
    BY <2>1, <2>2, <2>3 DEF OwnTuple
<1>5. QED
  BY <1>2, <1>3, <1>4, ScanInvariant, PTL DEF Spec
-----------------------------------------------------------------------------
(***************************************************************************)
(* Until a VACUUM begins the index does not change.                        *)
(***************************************************************************)
\* A batch is what a search found, what was kept for it, or what is left of the batch.
LEMMA BatchNext ==
  ASSUME ScanInv, ScanStep \/ Rescan
  PROVE  \A c \in Batch' : \/ c \in Searched' \/ c \in Searched
                           \/ \E d \in Batch : c.tid = d.tid /\ c.dist = d.dist
<1>1. CASE pc' = "search"
  BY <1>1 DEF Batch, Searched
<1>2. CASE pc' # "search" /\ FirstCall
  <2>1. entry = NoTid
    BY <1>2, FirstLayerEffect
  <2>2. Batch' = {}
    BY <1>2, <2>1, FirstCallEmpty DEF Batch
  <2>3. QED
    BY <2>2
<1>3. CASE NextCall \/ LoadFails \/ NoMore
  <2>1. Batch' \subseteq Batch
    <3>1. UNCHANGED <<so, srch>>
      BY <1>3 DEF NextCall, LoadFails, NoMore
    <3>2. CASE NextCall
      BY <3>1, <3>2 DEF Batch, NextCall
    <3>3. CASE NoMore
      BY <3>1, <3>3 DEF Batch, NoMore
    <3>4. CASE LoadFails
      <4>1. pc = "search" /\ pc' = "error"
        BY <3>4 DEF LoadFails
      <4>2. so.first \/ so.w = {}
        BY <4>1, TypeFacts DEF Phase
      <4>3. QED
        BY <3>1, <4>1, <4>2 DEF Batch
    <3>5. QED
      BY <1>3, <3>2, <3>3, <3>4
  <2>2. QED
    BY <2>1
<1>4. CASE BatchDone
  <2>1. pc' # "search" /\ so'.first = FALSE /\ so'.w = srch.W
    BY <1>4, BatchEffect
  <2>2. Batch' \subseteq Searched
    BY <2>1 DEF Batch, Searched
  <2>3. QED
    BY <2>2
<1>5. CASE ReturnRemaining
  <2>1. pc' = "fetch" /\ \E c \in so.disc : so'.w = {c}
    BY <1>5, RemainingEffect
  <2>2. Batch' \subseteq Searched
    BY <2>1 DEF Batch, Searched
  <2>3. QED
    BY <2>2
<1>6. CASE SkipElement
  <2>1. pc = "fetch" /\ pc' = "fetch" /\ so'.w \subseteq so.w /\ so'.first = so.first
    BY <1>6, SkipEffect
  <2>2. Batch' \subseteq Batch
    BY <2>1 DEF Batch
  <2>3. QED
    BY <2>2
<1>7. CASE FetchRow
  <2>1. pc = "fetch" /\ so'.first = so.first
    BY <1>7, FetchEffect
  <2>2. ~so.first
    BY <2>1, TypeFacts DEF Phase
  <2>3. PICK c \in so.w, d \in Candidates : \E r \in c.rows :
              /\ so'.w = (so.w \ {c}) \union {d}
              /\ d.tid = c.tid /\ d.dist = c.dist
              /\ RowSkipped(c) \/ RowReturned(c, r)
    BY <1>7, FetchEffect
  <2>4. so'.w = (so.w \ {c}) \union {d} /\ d.tid = c.tid /\ d.dist = c.dist /\ pc' # "search"
    BY <2>1, <2>3 DEF RowSkipped, RowReturned
  <2>5. Batch = so.w /\ Batch' = (so.w \ {c}) \union {d}
    BY <2>1, <2>2, <2>4 DEF Batch
  <2>6. QED
    BY <2>4, <2>5
<1>8. CASE Rescan
  <2>1. pc' = "idle" /\ so'.first = TRUE
    BY <1>8, RescanEffect
  <2>2. Batch' = {}
    BY <2>1 DEF Batch
  <2>3. QED
    BY <2>2
<1>9. CASE ExpandNearest \/ LoadUnvisited \/ NextLayer \/ Resume
  BY <1>1, <1>9, ExpandEffect, LoadEffect, NextLayerEffect, ResumedEffect
<1>10. QED
  BY <1>1, <1>2, <1>3, <1>4, <1>5, <1>6, <1>7, <1>8, <1>9 DEF ScanStep

\* Without a VACUUM there is nothing to remove, repair or clear, and no place to use.
LEMMA NoVacuum ==
  ASSUME ScanInv, Still, VacuumAndInserts
  PROVE  count'.vacuums # 0
<1>1. count.vacuums \in Nat
  BY TypeFacts
<1>2. CASE VacuumBegin
  <2>1. count'.vacuums = count.vacuums + 1
    BY <1>2, TypeFacts DEF VacuumBegin
  <2>2. QED
    BY <1>1, <2>1
<1>3. CASE RemoveHeapTids \/ RepairGraph \/ WaitForScans \/ MarkDeleted
  <2>1. vac.phase # "idle" /\ count' = count
    BY <1>3 DEF RemoveHeapTids, RepairGraph, WaitForScans, MarkDeleted
  <2>2. QED
    BY <2>1 DEF Still
<1>4. CASE ReusePlace
  <2>1. count' = count /\ \E t \in Used : etup[t].deleted
    BY <1>4 DEF ReusePlace, Used
  <2>2. QED
    BY <2>1 DEF Still
<1>5. QED
  BY <1>2, <1>3, <1>4 DEF VacuumAndInserts

LEMMA StillNext ==
  ASSUME ScanInv, Still, [Next]_vars
  PROVE  Still'
<1>1. CASE ScanStep \/ Rescan
  <2>1. SUFFICES ASSUME count'.vacuums = 0
                 PROVE  /\ vac'.phase = "idle"
                        /\ \A t \in Used' : ~etup'[t].deleted
                        /\ \A c \in Searched' : c = Candidate(c.tid)'
                        /\ \A c \in Batch' : c.dist = etup'[c.tid].dist
    BY DEF Still
  <2>2. /\ UNCHANGED <<etup, vac>> /\ count.vacuums = 0
        /\ \A c \in Searched' : c \in Searched \/ \E t \in Used : c = Candidate(t)
    BY <1>1, <2>1, SearchedNext
  <2>3. \A t : Candidate(t)' = Candidate(t)
    BY <2>2 DEF Candidate
  <2>4. \A t \in Used : Candidate(t).tid = t
    BY TypeFacts, CandidateFact
  <2>5. \A c \in Searched' \union Searched : c = Candidate(c.tid)
    BY <2>2, <2>4 DEF Still
  <2>6. \A c \in Searched' \union Searched : c.dist = etup[c.tid].dist
    BY <2>5 DEF Candidate
  <2>7. \A c \in Batch' : c.dist = etup[c.tid].dist
    BY <1>1, <2>2, <2>6, BatchNext DEF Still
  <2>8. QED
    BY <2>2, <2>3, <2>5, <2>7 DEF Still, Used
<1>2. CASE VacuumAndInserts
  BY <1>2, NoVacuum DEF Still
<1>3. CASE UNCHANGED vars
  BY <1>3 DEF vars, Still, Used, Searched, Candidate, Batch
<1>4. CASE Over
  BY <1>3, <1>4 DEF Over
<1>5. QED
  BY <1>1, <1>2, <1>3, <1>4 DEF Next

LEMMA StillInvariant == Spec => []Still
<1>1. Init => Still
  <2>1. SUFFICES ASSUME Init PROVE Still
    OBVIOUS
  <2>2. vac.phase = "idle" /\ Searched = {} /\ Batch = {}
    BY <2>1 DEF Init, Searched, Batch, NewScan, NoSearch
  <2>3. \A t \in Used : ~etup[t].deleted
    BY <2>1 DEF Init, Used
  <2>4. QED
    BY <2>2, <2>3 DEF Still
<1>2. ScanInv /\ Still /\ [Next]_vars => Still'
  BY StillNext
<1>3. QED
  BY <1>1, <1>2, ScanInvariant, PTL DEF Spec
-----------------------------------------------------------------------------
(***************************************************************************)
(* What a search finds.                                                    *)
(***************************************************************************)
LEMMA Expand0 ==
  ASSUME ScanInv, Still, count.vacuums = 0, ExpandNearest
  PROVE  \E c \in srch.C : srch'.C = srch.C \ {c} /\ links[c.tid][srch.lc] \subseteq so'.vis
<1>1. PICK c \in srch.C, new \in SUBSET (Used \ so.vis) :
        /\ new = IF OwnTuple(c) THEN links[c.tid][srch.lc] \ so.vis ELSE {}
        /\ srch'.C = srch.C \ {c} /\ so'.vis = so.vis \union new
  BY ExpandEffect DEF NearestOf
<1>2. c = Candidate(c.tid)
  BY DEF Still, Searched
<1>3. OwnTuple(c)
  BY <1>2 DEF OwnTuple, Candidate
<1>4. QED
  BY <1>1, <1>3

\* W is as long as w->length says, until it is full.
LEMMA FullLength ==
  ASSUME ScanInv, SearchInv, count.vacuums = 0, pc = "search", so.first
  PROVE  /\ srch.wlen \in Nat /\ Ef1 \in Nat /\ Ef1 >= 1 /\ srch.wlen >= 1
         /\ Cardinality(srch.W) = IF srch.wlen < Ef1 THEN srch.wlen ELSE Ef1
         /\ srch.wlen >= srch.ef => srch.wlen >= Ef1
<1>1. srch.wlen \in Nat /\ srch.ef \in Nat /\ Ef1 \in Nat /\ Ef1 >= 1
  BY TypeFacts DEF Ef1
<1>2. srch.W # {} /\ Cardinality(srch.W) = IF srch.wlen < Ef1 THEN srch.wlen ELSE Ef1
  BY DEF SearchInv
<1>3. Cardinality(srch.W) # 0
  BY <1>2, TypeFacts, FS_EmptySet
<1>4. srch.wlen >= 1
  BY <1>1, <1>2, <1>3
<1>5. srch.wlen >= srch.ef => srch.wlen >= Ef1
  BY <1>1, <1>4 DEF Ef1
<1>6. QED
  BY <1>1, <1>2, <1>4, <1>5

LEMMA FirstCallSearch ==
  ASSUME ScanInv, FirstCall, UNCHANGED setting
  PROVE  SearchInv'
<1>1. CASE entry = NoTid
  BY <1>1, FirstCallEmpty DEF SearchInv
<1>2. CASE entry # NoTid
  <2>1. PICK e : e = Candidate(entry)
    OBVIOUS
  <2>2. /\ srch'.C = {e} /\ srch'.W = {e} /\ srch'.wlen = 1 /\ e.tid = entry /\ Met' = {entry}
        /\ srch'.lc = etup[entry].level /\ entry \in Used
        /\ srch'.ef = (IF etup[entry].level > 0 THEN 1 ELSE EfSearch)
    BY <1>2, <2>1, FirstLayerEffect DEF Met
  <2>3. srch'.ef \in Nat
    BY <2>2, TypeFacts DEF EfSearch, Settings
  <2>4. Ef1' >= 1 /\ Ef1' \in Nat
    BY <2>3 DEF Ef1
  <2>5. Cardinality({e}) = 1
    BY FS_Singleton
  <2>6. EfSearch' = EfSearch
    BY DEF EfSearch
  <2>7. Cardinality(srch'.W) = IF srch'.wlen < Ef1' THEN srch'.wlen ELSE Ef1'
    BY <2>2, <2>4, <2>5
  <2>8. \A t \in Met' : \E c \in srch'.W : c.tid = t
    BY <2>2
  <2>9. QED
    BY <2>2, <2>6, <2>7, <2>8 DEF SearchInv
<1>3. QED
  BY <1>1, <1>2

\* The search of a layer above finds one element.
LEMMA NextLayerSearch ==
  ASSUME ScanInv, Still, SearchInv, NextLayer, UNCHANGED setting
  PROVE  SearchInv'
<1>1. SUFFICES ASSUME count'.vacuums = 0 PROVE SearchInv'
  BY DEF SearchInv
<1>2. count.vacuums = 0 /\ pc = "search" /\ so.first /\ srch.lc > 0
  BY <1>1, NextLayerEffect
<1>3. srch.ef = 1 /\ srch.W # {}
  BY <1>2 DEF SearchInv
<1>4. Cardinality(srch.W) = 1
  BY <1>2, <1>3, FullLength DEF Ef1
<1>5. /\ srch'.C = srch.W /\ srch'.W = srch.W /\ srch'.wlen = 1 /\ Met' = Tids(srch.W)
      /\ srch'.lc = srch.lc - 1 /\ srch'.ef = (IF srch.lc - 1 > 0 THEN 1 ELSE EfSearch)
  BY <1>4, NextLayerEffect DEF Met
<1>6. srch'.ef \in Nat
  BY <1>5, TypeFacts DEF EfSearch, Settings
<1>7. Ef1' >= 1 /\ Ef1' \in Nat
  BY <1>6 DEF Ef1
<1>8. EfSearch' = EfSearch
  BY DEF EfSearch
<1>9. Cardinality(srch'.W) = IF srch'.wlen < Ef1' THEN srch'.wlen ELSE Ef1'
  BY <1>4, <1>5, <1>7
<1>10. \A t \in Met' : \E c \in srch'.W : c.tid = t
  BY <1>5 DEF Tids
<1>11. QED
  BY <1>3, <1>5, <1>8, <1>9, <1>10 DEF SearchInv

LEMMA ExpandSearch ==
  ASSUME ScanInv, Still, SearchInv, ExpandNearest, UNCHANGED setting
  PROVE  SearchInv'
<1>1. SUFFICES ASSUME count'.vacuums = 0, so'.first PROVE SearchInv'
  BY DEF SearchInv
<1>2. /\ UNCHANGED <<etup, links, pc, count>> /\ pc = "search" /\ count.vacuums = 0 /\ so.first
      /\ srch'.lc = srch.lc /\ srch'.W = srch.W /\ srch'.wlen = srch.wlen /\ srch'.ef = srch.ef
  BY <1>1, ExpandEffect
<1>3. PICK c \in srch.C : srch'.C = srch.C \ {c} /\ links[c.tid][srch.lc] \subseteq so'.vis
  BY <1>2, Expand0
<1>4. so.vis \subseteq so'.vis /\ Met' = Met
  <2>1. PICK new \in SUBSET (Used \ so.vis) : srch'.unv = new /\ so'.vis = so.vis \union new
    BY ExpandEffect
  <2>2. srch.unv = {}
    BY ExpandEffect
  <2>3. QED
    BY <2>1, <2>2 DEF Met
<1>5. \A d \in srch'.W : d \in srch'.C \/ Expanded(d.tid)'
  <2>1. \A d \in srch.W : d \in srch.C \/ Expanded(d.tid)
    BY <1>2 DEF SearchInv
  <2>2. QED
    BY <1>2, <1>3, <1>4, <2>1 DEF Expanded
<1>6. Ef1' = Ef1 /\ EfSearch' = EfSearch
  BY <1>2 DEF Ef1, EfSearch
<1>7. QED
  BY <1>2, <1>4, <1>5, <1>6 DEF SearchInv

\* The size of W after an element got in.
LEMMA TakenSize ==
  ASSUME ScanInv, OnceInv, SearchInv, count.vacuums = 0, pc = "search", so.first,
         NEW t \in srch.unv, NEW f \in FurthestOf(srch.W), NEW e, e = Candidate(t),
         NEW D, LoadTaken(e, f, D)
  PROVE  /\ Cardinality(srch'.W) = IF srch.wlen + 1 < Ef1 THEN srch.wlen + 1 ELSE Ef1
         /\ D = {} => srch.wlen < Ef1
         /\ D # {} => srch.wlen >= Ef1
<1>1. /\ srch.wlen \in Nat /\ Ef1 \in Nat /\ Ef1 >= 1 /\ srch.wlen >= 1
      /\ Cardinality(srch.W) = IF srch.wlen < Ef1 THEN srch.wlen ELSE Ef1
      /\ srch.wlen >= srch.ef => srch.wlen >= Ef1
  BY FullLength
<1>2. e \notin srch.W
  <2>1. e.tid = t
    BY TypeFacts, CandidateFact
  <2>2. Batch = srch.W
    BY DEF Batch
  <2>3. QED
    BY <2>1, <2>2 DEF OnceInv, Met
<1>3. PICK S : S = srch.W \union {e}
  OBVIOUS
<1>4. IsFiniteSet(S) /\ Cardinality(S) = Cardinality(srch.W) + 1
  BY <1>2, <1>3, TypeFacts, FS_AddElement
<1>5. srch'.W = S \ D
  BY <1>3 DEF LoadTaken
<1>6. CASE D = {}
  <2>1. srch.wlen + 1 <= srch.ef
    BY <1>6 DEF LoadTaken
  <2>2. srch.wlen < Ef1 /\ srch.wlen + 1 <= Ef1
    BY <1>1, <2>1, TypeFacts DEF Ef1
  <2>3. srch'.W = S
    BY <1>5, <1>6
  <2>4. QED
    BY <1>1, <1>4, <1>6, <2>2, <2>3
<1>7. CASE D # {}
  <2>1. PICK d \in srch.W : D = {d}
    BY <1>7, TakenStays
  <2>2. srch.wlen >= Ef1
    BY <1>1, <1>7, TakenStays
  <2>3. d \in S
    BY <1>3
  <2>4. Cardinality(S \ {d}) = Cardinality(S) - 1
    BY <1>4, <2>3, FS_RemoveElement
  <2>5. QED
    BY <1>1, <1>4, <1>5, <1>7, <2>1, <2>2, <2>4
<1>8. QED
  BY <1>6, <1>7

LEMMA LoadSearch ==
  ASSUME ScanInv, Still, OnceInv, SearchInv, LoadUnvisited, UNCHANGED setting
  PROVE  SearchInv'
<1>1. SUFFICES ASSUME count'.vacuums = 0, so'.first PROVE SearchInv'
  BY DEF SearchInv
<1>2. /\ UNCHANGED <<etup, links, pc, count>> /\ pc = "search" /\ count.vacuums = 0 /\ so.first
      /\ srch'.lc = srch.lc /\ srch'.ef = srch.ef /\ so'.vis = so.vis
  BY <1>1, LoadEffect
<1>3. PICK t \in srch.unv, f \in FurthestOf(srch.W) :
              /\ srch'.unv = srch.unv \ {t}
              /\ \/ LoadRefused(t, Candidate(t), f)
                 \/ \E D \in SUBSET (srch.W \union {Candidate(t)}) : LoadTaken(Candidate(t), f, D)
  BY LoadEffect
<1>4. PICK e : e = Candidate(t)
  OBVIOUS
<1>5. e.tid = t /\ e.dist = etup[t].dist /\ e.level \in Nat /\ e.dist \in Nat
  BY <1>4, TypeFacts, CandidateFact DEF Candidates
<1>6. Met' = Met \union {t} /\ t \notin Met
  BY <1>2, <1>3, TypeFacts DEF Met, Phase
<1>7. Ef1' = Ef1 /\ EfSearch' = EfSearch
  BY <1>2 DEF Ef1, EfSearch
<1>8. /\ srch.wlen \in Nat /\ Ef1 \in Nat
      /\ srch.wlen >= srch.ef => srch.wlen >= Ef1
  BY <1>2, FullLength
<1>9. /\ srch.W # {} /\ Cardinality(srch.W) = IF srch.wlen < Ef1 THEN srch.wlen ELSE Ef1
      /\ srch.ef = IF srch.lc > 0 THEN 1 ELSE EfSearch
      /\ \A c \in srch.W : c \in srch.C \/ Expanded(c.tid)
      /\ srch.lc = 0 => \A o \in Met :
           \/ \E c \in srch.W : c.tid = o
           \/ srch.wlen >= Ef1 /\ \A d \in srch.W : d.dist <= etup[o].dist
  BY <1>2 DEF SearchInv
<1>10. \A o : Expanded(o)' <=> Expanded(o)
  BY <1>2 DEF Expanded
<1>11. \A c \in srch.W : c.dist \in Nat /\ c.dist = etup[c.tid].dist
  <2>1. \A c \in srch.W : c.dist \in Nat
    BY TypeFacts DEF Held, Candidates
  <2>2. Batch = srch.W
    BY <1>2 DEF Batch
  <2>3. QED
    BY <1>2, <2>1, <2>2 DEF Still
<1>12. \A o \in Met : etup[o].dist \in Nat
  BY TypeFacts DEF Met, IndexType, ETuple
<1>13. f \in srch.W /\ \A c \in srch.W : c.dist <= f.dist
  BY <1>11 DEF FurthestOf
<1>14. CASE LoadRefused(t, e, f)
  <2>1. srch'.C = srch.C /\ srch'.W = srch.W /\ srch'.wlen = srch.wlen /\ ~Wanted(e, f)
    BY <1>14 DEF LoadRefused
  <2>2. srch.lc = 0 => srch.wlen >= Ef1 /\ e.dist >= f.dist
    BY <1>5, <1>8, <1>11, <1>13, <2>1, TypeFacts DEF Wanted, Nearer
  <2>3. srch.lc = 0 => \A d \in srch.W : d.dist <= etup[t].dist
    BY <1>5, <1>11, <1>13, <2>2
  <2>4. srch'.lc = 0 => \A o \in Met' :
           \/ \E c \in srch'.W : c.tid = o
           \/ srch'.wlen >= Ef1' /\ \A d \in srch'.W : d.dist <= etup'[o].dist
    BY <1>2, <1>6, <1>7, <1>9, <2>1, <2>2, <2>3
  <2>5. QED
    BY <1>2, <1>7, <1>9, <1>10, <2>1, <2>4 DEF SearchInv
<1>15. CASE \E D \in SUBSET (srch.W \union {e}) : LoadTaken(e, f, D)
  <2>1. PICK D \in SUBSET (srch.W \union {e}) : LoadTaken(e, f, D)
    BY <1>15
  <2>2. srch'.C = srch.C \union {e} /\ srch'.W = (srch.W \union {e}) \ D /\ srch'.wlen = srch.wlen + 1
    BY <2>1 DEF LoadTaken
  <2>3. /\ e \notin D
        /\ D # {} => e.dist < f.dist
                     /\ \E d \in srch.W : D = {d} /\ \A x \in srch.W \union {e} : x.dist <= d.dist
    BY <1>4, <2>1, TakenStays
  <2>4. /\ Cardinality(srch'.W) = IF srch.wlen + 1 < Ef1 THEN srch.wlen + 1 ELSE Ef1
        /\ D = {} => srch.wlen < Ef1
        /\ D # {} => srch.wlen >= Ef1
    BY <1>2, <1>4, <2>1, TakenSize
  <2>5. srch'.W # {} /\ e \in srch'.W /\ \A c \in srch'.W : c \in srch'.C \/ Expanded(c.tid)'
    BY <1>9, <1>10, <2>2, <2>3
  <2>6. ASSUME srch.lc = 0, NEW o \in Met'
        PROVE  \/ \E c \in srch'.W : c.tid = o
               \/ srch'.wlen >= Ef1 /\ \A d \in srch'.W : d.dist <= etup[o].dist
    <3>1. CASE o = t
      BY <1>5, <2>5, <3>1
    <3>2. CASE o \in Met /\ D = {}
      <4>1. \E c \in srch.W : c.tid = o
        BY <1>8, <1>9, <2>4, <2>6, <3>2
      <4>2. QED
        BY <2>2, <3>2, <4>1
    <3>3. CASE o \in Met /\ D # {}
      <4>1. PICK d \in srch.W : D = {d} /\ \A x \in srch.W \union {e} : x.dist <= d.dist
        BY <2>3, <3>3
      <4>2. srch'.wlen >= Ef1
        BY <1>8, <2>2, <2>4, <3>3
      <4>3. CASE \E c \in srch.W : c.tid = o
        <5>1. PICK c \in srch.W : c.tid = o
          BY <4>3
        <5>2. CASE c = d
          <6>1. d.dist = etup[o].dist
            BY <1>11, <5>1, <5>2
          <6>2. \A x \in srch'.W : x.dist <= etup[o].dist
            BY <2>2, <4>1, <6>1
          <6>3. QED
            BY <4>2, <6>2
        <5>3. CASE c # d
          BY <2>2, <4>1, <5>1, <5>3
        <5>4. QED
          BY <5>2, <5>3
      <4>4. CASE \A x \in srch.W : x.dist <= etup[o].dist
        <5>1. e.dist <= etup[o].dist
          BY <1>5, <1>11, <1>12, <1>13, <2>3, <3>3, <4>4
        <5>2. QED
          BY <2>2, <4>2, <4>4, <5>1
      <4>5. QED
        BY <1>9, <2>6, <3>3, <4>3, <4>4
    <3>4. QED
      BY <1>6, <3>1, <3>2, <3>3
  <2>7. QED
    BY <1>2, <1>7, <1>9, <2>2, <2>4, <2>5, <2>6 DEF SearchInv
<1>16. QED
  BY <1>3, <1>4, <1>14, <1>15

LEMMA SearchStep ==
  ASSUME ScanInv, Still, OnceInv, SearchInv, [Next]_vars
  PROVE  SearchInv'
<1>1. CASE ScanStep
  <2>1. UNCHANGED setting
    BY <1>1 DEF ScanStep
  <2>2. CASE FirstCall       BY <2>1, <2>2, FirstCallSearch
  <2>3. CASE ExpandNearest   BY <2>1, <2>3, ExpandSearch
  <2>4. CASE LoadUnvisited   BY <2>1, <2>4, LoadSearch
  <2>5. CASE NextLayer       BY <2>1, <2>5, NextLayerSearch
  <2>6. CASE Resume          BY <2>6, ResumedEffect DEF SearchInv
  <2>7. CASE NextCall \/ LoadFails \/ NoMore
    BY <2>7 DEF NextCall, LoadFails, NoMore, SearchInv
  <2>8. CASE BatchDone       BY <2>8, BatchEffect DEF SearchInv
  <2>9. CASE ReturnRemaining BY <2>9, RemainingEffect DEF SearchInv
  <2>10. CASE SkipElement    BY <2>10, SkipEffect DEF SearchInv
  <2>11. CASE FetchRow       BY <2>11, FetchEffect DEF SearchInv, RowSkipped, RowReturned
  <2>12. QED
    BY <1>1, <2>2, <2>3, <2>4, <2>5, <2>6, <2>7, <2>8, <2>9, <2>10, <2>11 DEF ScanStep
<1>2. CASE Rescan
  BY <1>2, RescanEffect DEF SearchInv
<1>3. CASE VacuumAndInserts
  BY <1>3, NoVacuum DEF SearchInv
<1>4. CASE UNCHANGED vars
  BY <1>4 DEF vars, SearchInv, Ef1, EfSearch, Expanded, Met
<1>5. CASE Over
  BY <1>4, <1>5 DEF Over
<1>6. QED
  BY <1>1, <1>2, <1>3, <1>4, <1>5 DEF Next

LEMMA SearchInvariant == Spec => []SearchInv
<1>1. Init => SearchInv
  BY DEF Init, SearchInv
<1>2. ScanInv /\ Still /\ OnceInv /\ SearchInv /\ [Next]_vars => SearchInv'
  BY SearchStep
<1>3. QED
  BY <1>1, <1>2, ScanInvariant, StillInvariant, OnceInvariant, PTL DEF Spec

\* Elements of different places are as many as their places.
LEMMA TidsSize ==
  ASSUME NEW S, IsFiniteSet(S), \A c, d \in S : c # d => c.tid # d.tid
  PROVE  IsFiniteSet(Tids(S)) /\ Cardinality(Tids(S)) = Cardinality(S)
<1>1. PICK g : g = [c \in S |-> c.tid]
  OBVIOUS
<1>2. g \in [S -> Tids(S)]
  BY <1>1 DEF Tids
<1>3. \A a, b \in S : g[a] = g[b] => a = b
  BY <1>1
<1>4. \A t \in Tids(S) : \E c \in S : g[c] = t
  BY <1>1 DEF Tids
<1>5. g \in Bijection(S, Tids(S))
  BY <1>2, <1>3, <1>4, Fun_IsBij
<1>6. ExistsBijection(S, Tids(S))
  BY <1>5 DEF ExistsBijection
<1>7. QED
  BY <1>6, FS_Bijection

\* When a layer is searched, what is left of C is further away than W.
LEMMA DoneBeyond ==
  ASSUME ScanInv, LayerDone
  PROVE  srch.C \intersect srch.W = {}
<1>1. CASE srch.C = {}
  BY <1>1
<1>2. CASE \E c \in NearestOf(srch.C), f \in FurthestOf(srch.W) : Beyond(c, f)
  <2>1. PICK c \in NearestOf(srch.C), f \in FurthestOf(srch.W) : Beyond(c, f)
    BY <1>2
  <2>2. c \in srch.C /\ (\A x \in srch.C : c.dist <= x.dist) /\ f \in srch.W /\ (\A x \in srch.W : f.dist >= x.dist)
    BY DEF NearestOf, FurthestOf
  <2>3. \A x \in srch.C \union srch.W : x.dist \in Nat
    <3>1. \A x \in srch.C \union srch.W : x \in Candidates
      BY TypeFacts DEF Held
    <3>2. QED
      BY <3>1 DEF Candidates
  <2>4. c.dist > f.dist
    BY <2>1 DEF Beyond
  <2>5. ASSUME NEW x \in srch.C, x \in srch.W
        PROVE  FALSE
    BY <2>2, <2>3, <2>4, <2>5
  <2>6. QED
    BY <2>5
<1>3. QED
  BY <1>1, <1>2 DEF LayerDone

\* What HnswSearchLayer promises for the first batch, whatever the graph, the ties and the
\* order of the neighbors: as many elements as were asked for or met, and no neighbor of an
\* element of the batch is nearer than the batch and left out.
THEOREM FirstBatchCorrect == Spec => []FirstBatchOptimal
<1>1. ScanInv /\ Still /\ OnceInv /\ SearchInv => FirstBatchOptimal
  <2>0. SUFFICES ASSUME ScanInv, Still, OnceInv, SearchInv, LayerDone, srch.lc = 0, so.first, count.vacuums = 0
                 PROVE  LET ef    == IF EfSearch = 0 THEN 1 ELSE EfSearch
                            batch == {c.tid : c \in srch.W}
                        IN /\ Cardinality(batch) = IF Cardinality(so.vis) < ef THEN Cardinality(so.vis) ELSE ef
                           /\ \A c \in srch.W : \A t \in links[c.tid][0] \ batch :
                                t \in so.vis /\ \A d \in srch.W : d.dist <= etup[t].dist
    BY Zenon DEF FirstBatchOptimal
  <2>1. PICK ef, batch : /\ ef = IF EfSearch = 0 THEN 1 ELSE EfSearch
                         /\ batch = {c.tid : c \in srch.W}
    OBVIOUS
  <2>2. pc = "search" /\ srch.unv = {}
    BY <2>0, <2>1 DEF LayerDone
  <2>3. Met = so.vis /\ Batch = srch.W
    BY <2>2 DEF Met, Batch
  <2>4. batch = Tids(srch.W)
    BY <2>0, <2>1 DEF Tids
  <2>5. /\ Cardinality(srch.W) = IF srch.wlen < Ef1 THEN srch.wlen ELSE Ef1
        /\ \A c \in srch.W : c \in srch.C \/ Expanded(c.tid)
        /\ \A t \in so.vis :
             \/ t \in batch
             \/ srch.wlen >= Ef1 /\ \A d \in srch.W : d.dist <= etup[t].dist
    <3>1. \A t \in Met : \/ \E c \in srch.W : c.tid = t
                         \/ srch.wlen >= Ef1 /\ \A d \in srch.W : d.dist <= etup[t].dist
      BY <2>0, <2>1, <2>2 DEF SearchInv
    <3>2. \A c \in srch.W : c.tid \in batch
      BY <2>0, <2>1
    <3>3. QED
      BY <2>0, <2>1, <2>2, <2>3, <3>1, <3>2 DEF SearchInv
  <2>6. Ef1 = ef /\ ef \in Nat /\ srch.wlen \in Nat
    <3>1. srch.ef = EfSearch
      BY <2>0, <2>1, <2>2 DEF SearchInv
    <3>2. QED
      BY <2>0, <2>1, <3>1, TypeFacts DEF Ef1
  <2>7. IsFiniteSet(batch) /\ Cardinality(batch) = Cardinality(srch.W)
    <3>1. \A c, d \in srch.W : c # d => c.tid # d.tid
      BY <2>0, <2>1, <2>3 DEF OnceInv
    <3>2. QED
      BY <2>0, <2>1, <2>4, <3>1, TidsSize, TypeFacts
  <2>8. batch \in SUBSET so.vis /\ IsFiniteSet(so.vis)
    <3>1. batch \subseteq so.vis
      BY <2>0, <2>1, <2>3 DEF OnceInv
    <3>2. IsFiniteSet(so.vis)
      BY <2>0, <2>1, TypeFacts, ScanConstants, FS_Subset DEF IndexType
    <3>3. QED
      BY <3>1, <3>2
  <2>9. Cardinality(batch) = IF Cardinality(so.vis) < ef THEN Cardinality(so.vis) ELSE ef
    <3>1. Cardinality(so.vis) \in Nat /\ Cardinality(batch) <= Cardinality(so.vis)
      BY <2>8, FS_CardinalityType, FS_Subset
    <3>2. CASE srch.wlen < Ef1
      <4>1. so.vis = batch
        <5>1. ~(srch.wlen >= Ef1)
          BY <2>6, <3>2
        <5>2. \A t \in so.vis : t \in batch
          BY <2>5, <5>1
        <5>3. QED
          BY <2>8, <5>2
      <4>2. QED
        BY <2>5, <2>6, <2>7, <3>1, <3>2, <4>1
    <3>3. CASE ~(srch.wlen < Ef1)
      BY <2>5, <2>6, <2>7, <3>1, <3>3
    <3>4. QED
      BY <3>2, <3>3
  <2>10. ASSUME NEW c \in srch.W, NEW t \in links[c.tid][0] \ batch
         PROVE  t \in so.vis /\ \A d \in srch.W : d.dist <= etup[t].dist
    <3>1. c \notin srch.C
      BY <2>0, <2>1, DoneBeyond
    <3>2. t \in so.vis
      BY <2>0, <2>1, <2>5, <3>1 DEF Expanded
    <3>3. QED
      BY <2>5, <3>2
  <2>11. QED
    BY <2>1, <2>9, <2>10
<1>2. QED
  BY <1>1, ScanInvariant, StillInvariant, OnceInvariant, SearchInvariant, PTL
-----------------------------------------------------------------------------
(***************************************************************************)
(* An iterative scan loses nothing.                                        *)
(***************************************************************************)
LEMMA EndNext ==
  ASSUME ScanInv, EndInv, [Next]_vars
  PROVE  EndInv'
<1>1. setting' = setting
  BY DEF Next, ScanStep, Over, vars
<1>2. EfSearch' = EfSearch /\ Iterative' = Iterative
  BY <1>1 DEF EfSearch, Iterative, IterativeScan
<1>3. SUFFICES ASSUME EfSearch > 0
               PROVE  /\ pc' = "search" => srch'.W # {}
                      /\ Iterative /\ pc' = "done" => Batch' = {} /\ so'.disc = {}
  BY <1>2 DEF EndInv
<1>5. CASE ScanStep
  <2>1. CASE FirstCall
    <3>1. CASE entry = NoTid
      BY <2>1, <3>1, FirstCallEmpty
    <3>2. CASE entry # NoTid
      BY <2>1, <3>2, FirstLayerEffect
    <3>3. QED
      BY <3>1, <3>2
  <2>2. CASE NextCall \/ LoadFails
    BY <2>2 DEF NextCall, LoadFails
  <2>3. CASE NoMore
    <3>1. pc' = "done" /\ UNCHANGED <<so, srch>> /\ so.w = {} /\ (~Iterative \/ ~so.hasDisc \/ so.disc = {})
      BY <2>3 DEF NoMore
    <3>2. Iterative => so.disc = {}
      BY <3>1, TypeFacts DEF Phase
    <3>3. QED
      BY <3>1, <3>2 DEF Batch
  <2>4. CASE ExpandNearest
    <3>1. pc = "search" /\ pc' = "search" /\ srch'.W = srch.W
      BY <2>4, ExpandEffect
    <3>2. QED
      BY <1>3, <3>1 DEF EndInv
  <2>5. CASE LoadUnvisited
    <3>1. pc' = "search"
      BY <2>5, LoadEffect
    <3>2. PICK t \in srch.unv, f \in FurthestOf(srch.W) :
            \/ LoadRefused(t, Candidate(t), f)
            \/ \E D \in SUBSET (srch.W \union {Candidate(t)}) : LoadTaken(Candidate(t), f, D)
      BY <2>5, LoadEffect
    <3>3. CASE LoadRefused(t, Candidate(t), f)
      BY <3>1, <3>3 DEF LoadRefused, FurthestOf
    <3>4. CASE \E D \in SUBSET (srch.W \union {Candidate(t)}) : LoadTaken(Candidate(t), f, D)
      <4>1. PICK D : LoadTaken(Candidate(t), f, D)
        BY <3>4
      <4>2. Candidate(t) \notin D /\ srch'.W = (srch.W \union {Candidate(t)}) \ D
        BY <4>1, TakenStays DEF LoadTaken
      <4>3. QED
        BY <3>1, <4>2
    <3>5. QED
      BY <3>2, <3>3, <3>4
  <2>6. CASE NextLayer
    <3>1. pc = "search" /\ pc' = "search" /\ srch'.W = srch.W
      BY <2>6, NextLayerEffect
    <3>2. QED
      BY <1>3, <3>1 DEF EndInv
  <2>7. CASE BatchDone
    <3>1. pc = "search" /\ pc' = IF srch.W = {} THEN "done" ELSE "fetch"
      BY <2>7, BatchEffect
    <3>2. srch.W # {}
      BY <1>3, <3>1 DEF EndInv
    <3>3. QED
      BY <3>1, <3>2
  <2>8. CASE ReturnRemaining
    BY <2>8, RemainingEffect
  <2>9. CASE Resume
    BY <1>3, <2>9, ResumedEffect
  <2>10. CASE SkipElement
    BY <2>10, SkipEffect
  <2>11. CASE FetchRow
    BY <2>11, FetchEffect DEF RowSkipped, RowReturned
  <2>12. QED
    BY <1>5, <2>1, <2>2, <2>3, <2>4, <2>5, <2>6, <2>7, <2>8, <2>9, <2>10, <2>11 DEF ScanStep
<1>6. CASE Rescan
  BY <1>6, RescanEffect
<1>7. CASE UNCHANGED <<pc, so, srch>>
  BY <1>3, <1>7 DEF EndInv, Batch
<1>8. CASE VacuumAndInserts
  BY <1>1, <1>7, <1>8, VacuumType
<1>9. CASE UNCHANGED vars
  BY <1>7, <1>9 DEF vars
<1>10. QED
  BY <1>5, <1>6, <1>8, <1>9 DEF Next, Over

LEMMA EndInvariant == Spec => []EndInv
<1>1. Init => EndInv
  BY DEF Init, EndInv
<1>2. ScanInv /\ EndInv /\ [Next]_vars => EndInv'
  BY EndNext
<1>3. QED
  BY <1>1, <1>2, ScanInvariant, PTL DEF Spec

\* A step that returns nothing and keeps what is in hand.
LEMMA KeepSame ==
  ASSUME KeepInv, UNCHANGED <<etup, count, setting, out>>, so'.prev = so.prev, Met' = Met,
         \A c \in Batch \union so.disc : c.rows # {} => c \in Batch' \union so'.disc,
         pc = "search" => srch.lc = 0
  PROVE  KeepInv'
<1>1. Iterative' = Iterative /\ IterativeScan' = IterativeScan
  BY DEF Iterative, IterativeScan
<1>2. QED
  BY <1>1 DEF KeepInv, Safe

\* The elements met are all in hand.
LEMMA KeepBegin ==
  ASSUME ScanInv, Still, UNCHANGED <<etup, count, setting>>, pc' = "search",
         \A t \in Met' : \E c \in srch'.W : c.tid = t,
         \A c \in srch'.W : c \in Searched \/ \E t \in Used : c = Candidate(t)
  PROVE  KeepInv'
<1>1. SUFFICES ASSUME count.vacuums = 0, NEW t \in Met', NEW r \in etup[t].rows
               PROVE  \E c \in Batch' \union so'.disc : c.tid = t /\ r \in c.rows
  BY DEF KeepInv, Safe
<1>2. PICK c \in srch'.W : c.tid = t
  BY <1>1
<1>3. c = Candidate(t)
  <2>1. CASE c \in Searched
    BY <1>1, <1>2, <2>1 DEF Still
  <2>2. CASE \E o \in Used : c = Candidate(o)
    BY <1>2, <2>2, TypeFacts, CandidateFact
  <2>3. QED
    BY <2>1, <2>2
<1>4. c.rows = etup[t].rows
  BY <1>3 DEF Candidate
<1>5. Batch' = srch'.W
  BY DEF Batch
<1>6. QED
  BY <1>2, <1>4, <1>5

\* At layer 0 of an iterative scan, an element that is loaded gets in W or is kept, and so is
\* the one that makes room.
LEMMA LoadKept ==
  ASSUME ScanInv, LoadUnvisited, Iterative, srch.lc = 0
  PROVE  \E t \in srch.unv :
           /\ Met' = Met \union {t} /\ Candidate(t).tid = t
           /\ srch'.W \union so'.disc = srch.W \union so.disc \union {Candidate(t)}
           /\ \/ srch'.C = srch.C \union {Candidate(t)}
              \/ srch'.C = srch.C /\ Candidate(t) \in so'.disc
           /\ so.disc \subseteq so'.disc
<1>1. PICK t \in srch.unv, f \in FurthestOf(srch.W) :
              /\ srch'.unv = srch.unv \ {t}
              /\ \/ LoadRefused(t, Candidate(t), f)
                 \/ \E D \in SUBSET (srch.W \union {Candidate(t)}) : LoadTaken(Candidate(t), f, D)
  BY LoadEffect
<1>2. PICK e : e = Candidate(t)
  OBVIOUS
<1>3. e.tid = t /\ e.level \in Nat
  BY <1>2, TypeFacts, CandidateFact DEF Candidates
<1>4. Met' = Met \union {t}
  <2>1. so'.vis = so.vis
    BY LoadEffect
  <2>2. QED
    BY <1>1, <2>1, TypeFacts DEF Met, Phase
<1>5. CASE LoadRefused(t, e, f)
  <2>1. srch'.C = srch.C /\ srch'.W = srch.W /\ ~Wanted(e, f)
    BY <1>5 DEF LoadRefused
  <2>2. ~Nearer(e, f)
    BY <1>3, <2>1 DEF Wanted
  <2>3. so'.disc = so.disc \union {e}
    BY <1>5, <2>2 DEF LoadRefused, Kept
  <2>4. QED
    BY <1>2, <1>3, <1>4, <2>1, <2>3
<1>6. CASE \E D \in SUBSET (srch.W \union {e}) : LoadTaken(e, f, D)
  <2>1. PICK D \in SUBSET (srch.W \union {e}) : LoadTaken(e, f, D)
    BY <1>6
  <2>2. srch'.C = srch.C \union {e} /\ srch'.W = (srch.W \union {e}) \ D /\ so'.disc = so.disc \union D
    BY <2>1 DEF LoadTaken, Kept
  <2>3. QED
    BY <1>2, <1>3, <1>4, <2>2
<1>7. QED
  BY <1>1, <1>2, <1>5, <1>6

LEMMA LoadKeep ==
  ASSUME ScanInv, KeepInv, LoadUnvisited, UNCHANGED setting
  PROVE  KeepInv'
<1>1. /\ UNCHANGED <<etup, count, out, pc>> /\ pc = "search" /\ srch'.lc = srch.lc /\ so'.prev = so.prev
  BY LoadEffect
<1>2. Iterative' = Iterative /\ IterativeScan' = IterativeScan
  BY DEF Iterative, IterativeScan
<1>3. SUFFICES ASSUME Iterative, srch.lc = 0, count.vacuums = 0, NEW t \in Met', NEW r \in etup[t].rows
               PROVE  Safe(t, r)'
  BY <1>1, <1>2 DEF KeepInv, Safe
<1>4. PICK o \in srch.unv :
           /\ Met' = Met \union {o} /\ Candidate(o).tid = o
           /\ srch'.W \union so'.disc = srch.W \union so.disc \union {Candidate(o)}
  BY <1>3, LoadKept
<1>5. Batch = srch.W /\ Batch' = srch'.W
  BY <1>1 DEF Batch
<1>6. CASE t \in Met
  <2>1. Safe(t, r)
    BY <1>1, <1>3, <1>6 DEF KeepInv, Safe
  <2>2. QED
    BY <1>1, <1>2, <1>4, <1>5, <2>1 DEF Safe
<1>7. CASE t = o
  <2>1. Candidate(o).rows = etup[o].rows
    BY DEF Candidate
  <2>2. \E c \in Batch' \union so'.disc : c.tid = t /\ r \in c.rows
    BY <1>3, <1>4, <1>5, <1>7, <2>1
  <2>3. QED
    BY <2>2 DEF Safe
<1>8. QED
  BY <1>4, <1>6, <1>7

LEMMA FetchKeep ==
  ASSUME ScanInv, Still, KeepInv, FetchRow, UNCHANGED setting
  PROVE  KeepInv'
<1>1. /\ UNCHANGED <<etup, srch, count>> /\ pc = "fetch" /\ so'.first = so.first /\ so'.vis = so.vis
      /\ so'.disc = so.disc
  BY FetchEffect
<1>2. PICK c \in so.w, d \in Candidates : \E r \in c.rows :
              /\ so'.w = (so.w \ {c}) \union {d}
              /\ d.tid = c.tid /\ d.dist = c.dist /\ d.rows = c.rows \ {r}
              /\ RowSkipped(c) \/ RowReturned(c, r)
  BY FetchEffect
<1>3. PICK r \in c.rows :
              /\ so'.w = (so.w \ {c}) \union {d}
              /\ d.tid = c.tid /\ d.dist = c.dist /\ d.rows = c.rows \ {r}
              /\ RowSkipped(c) \/ RowReturned(c, r)
  BY <1>2
<1>4. ~so.first /\ (pc' = "idle" \/ pc' = "fetch")
  BY <1>1, <1>3, TypeFacts DEF Phase, RowSkipped, RowReturned
<1>5. Batch = so.w /\ Batch' = (so.w \ {c}) \union {d} /\ Met' = Met
  BY <1>1, <1>3, <1>4 DEF Batch, Met
<1>6. Iterative' = Iterative /\ IterativeScan' = IterativeScan
  BY DEF Iterative, IterativeScan
<1>7. SUFFICES ASSUME Iterative, count.vacuums = 0, NEW t \in Met, NEW q \in etup[t].rows
               PROVE  Safe(t, q)'
  BY <1>1, <1>5, <1>6 DEF KeepInv, Safe
<1>8. Safe(t, q)
  BY <1>1, <1>7 DEF KeepInv, Safe
<1>9. c.dist = etup[c.tid].dist /\ c.dist \in Nat
  <2>1. c \in Candidates
    BY TypeFacts DEF Held
  <2>2. QED
    BY <1>5, <1>7, <2>1 DEF Still, Candidates
<1>10. CASE \E x \in Batch \union so.disc : x # c /\ x.tid = t /\ q \in x.rows
  BY <1>1, <1>5, <1>10 DEF Safe
<1>11. CASE c.tid = t /\ q \in c.rows /\ q # r
  BY <1>3, <1>5, <1>11 DEF Safe
<1>12. CASE RowSkipped(c)
  <2>1. so'.prev = so.prev /\ out' = out /\ IterativeScan = "strict" /\ c.dist < so.prev
    BY <1>12 DEF RowSkipped
  <2>2. CASE c.tid = t /\ q = r
    BY <1>1, <1>6, <1>9, <2>1, <2>2 DEF Safe
  <2>3. CASE \E i \in DOMAIN out : out[i].row = q
    BY <2>1, <2>3 DEF Safe
  <2>4. CASE IterativeScan = "strict" /\ etup[t].dist < so.prev
    BY <1>1, <1>6, <2>1, <2>4 DEF Safe
  <2>5. QED
    BY <1>8, <1>10, <1>11, <2>2, <2>3, <2>4 DEF Safe
<1>13. CASE RowReturned(c, r)
  <2>1. c.rows \subseteq Places \X Nat
    BY TypeFacts DEF Held, Candidates
  <2>2. PICK x : x = [row |-> r, dist |-> c.dist]
    OBVIOUS
  <2>3. x \in Rows /\ x.row = r
    BY <1>9, <2>1, <2>2 DEF Rows
  <2>4. out' = Append(out, x) /\ out \in Seq(Rows)
    BY <1>13, <2>2, TypeFacts DEF RowReturned
  <2>5. PICK n : n = Len(out) + 1
    OBVIOUS
  <2>6. /\ n \in DOMAIN out' /\ out'[n] = x
        /\ \A i \in DOMAIN out : i \in DOMAIN out' /\ out'[i] = out[i]
    <3>1. /\ Len(out) \in Nat /\ DOMAIN out = 1..Len(out) /\ DOMAIN out' = 1..(Len(out) + 1)
          /\ out'[Len(out) + 1] = x /\ \A i \in DOMAIN out : out'[i] = out[i]
      BY <2>3, <2>4, AppendFact
    <3>2. QED
      BY <2>5, <3>1
  <2>7. CASE c.tid = t /\ q = r
    BY <2>3, <2>6, <2>7 DEF Safe
  <2>8. CASE \E i \in DOMAIN out : out[i].row = q
    BY <2>6, <2>8 DEF Safe
  <2>9. CASE IterativeScan = "strict" /\ etup[t].dist < so.prev
    <3>1. so'.prev = c.dist /\ so.prev <= c.dist
      BY <1>9, <1>13, <2>9, TypeFacts DEF RowReturned
    <3>2. etup[t].dist \in Nat /\ so.prev \in Nat \union {-1}
      BY TypeFacts DEF Met, IndexType, ETuple
    <3>3. etup[t].dist < so'.prev
      BY <1>9, <2>9, <3>1, <3>2
    <3>4. QED
      BY <1>1, <1>6, <2>9, <3>3 DEF Safe
  <2>10. QED
    BY <1>8, <1>10, <1>11, <2>7, <2>8, <2>9 DEF Safe
<1>14. QED
  BY <1>3, <1>12, <1>13

LEMMA KeepNext ==
  ASSUME ScanInv, Still, KeepInv, [Next]_vars
  PROVE  KeepInv'
<1>1. CASE ScanStep
  <2>1. UNCHANGED setting
    BY <1>1 DEF ScanStep
  <2>2. CASE FirstCall
    <3>1. CASE entry = NoTid
      <4>1. /\ UNCHANGED <<etup, count, out, srch>> /\ so'.prev = so.prev /\ so'.vis = so.vis /\ pc = "idle"
            /\ pc' = "fetch" /\ so.first /\ so.disc = {} /\ so'.disc = {} /\ so'.w = {}
        BY <2>2, <3>1, FirstCallEmpty
      <4>2. Met' = Met /\ Batch = {}
        BY <4>1 DEF Met, Batch
      <4>3. QED
        BY <2>1, <4>1, <4>2, KeepSame
    <3>2. CASE entry # NoTid
      <4>1. /\ UNCHANGED <<etup, count>> /\ pc' = "search" /\ srch'.W = {Candidate(entry)} /\ entry \in Used
            /\ Candidate(entry).tid = entry /\ Met' = {entry}
        BY <2>2, <3>2, FirstLayerEffect DEF Met
      <4>2. QED
        BY <2>1, <4>1, KeepBegin
    <3>3. QED
      BY <3>1, <3>2
  <2>3. CASE NextCall \/ NoMore
    <3>1. UNCHANGED <<etup, count, out, so, srch>> /\ pc # "search" /\ pc' # "search"
      BY <2>3 DEF NextCall, NoMore, index
    <3>2. Met' = Met /\ Batch' = Batch
      BY <3>1 DEF Met, Batch
    <3>3. QED
      BY <2>1, <3>1, <3>2, KeepSame
  <2>4. CASE LoadFails
    <3>1. pc = "search" /\ count' = count /\ \E t \in srch.unv : etup[t].deleted
      BY <2>4 DEF LoadFails
    <3>2. count.vacuums # 0
      BY <3>1, TypeFacts DEF Still
    <3>3. QED
      BY <3>1, <3>2 DEF KeepInv, Safe
  <2>5. CASE ExpandNearest
    <3>1. /\ UNCHANGED <<etup, count, out, pc>> /\ pc = "search" /\ srch'.W = srch.W /\ so'.disc = so.disc
          /\ so'.prev = so.prev /\ srch'.lc = srch.lc
      BY <2>5, ExpandEffect
    <3>2. Met' = Met
      <4>1. PICK new \in SUBSET (Used \ so.vis) : srch'.unv = new /\ so'.vis = so.vis \union new
        BY <2>5, ExpandEffect
      <4>2. srch.unv = {}
        BY <2>5, ExpandEffect
      <4>3. QED
        BY <4>1, <4>2 DEF Met
    <3>3. Batch' = Batch
      BY <3>1 DEF Batch
    <3>4. CASE srch.lc = 0
      BY <2>1, <3>1, <3>2, <3>3, <3>4, KeepSame
    <3>5. CASE srch.lc # 0
      BY <3>1, <3>5 DEF KeepInv, Safe
    <3>6. QED
      BY <3>4, <3>5
  <2>6. CASE LoadUnvisited
    BY <2>1, <2>6, LoadKeep
  <2>7. CASE NextLayer
    <3>1. UNCHANGED <<etup, count>> /\ pc' = "search" /\ srch'.W = srch.W /\ Met' = Tids(srch.W)
      BY <2>7, NextLayerEffect DEF Met
    <3>2. QED
      BY <2>1, <3>1, KeepBegin DEF Tids, Searched
  <2>8. CASE BatchDone
    <3>1. /\ UNCHANGED <<etup, count, out>> /\ so'.prev = so.prev /\ so'.vis = so.vis /\ pc = "search"
          /\ srch.unv = {} /\ srch' = NoSearch /\ so'.first = FALSE /\ so'.w = srch.W /\ so'.disc = so.disc
          /\ pc' # "search" /\ srch.lc = 0
      BY <2>8, BatchEffect
    <3>2. Met' = Met /\ Batch' = Batch
      BY <3>1 DEF Met, Batch, NoSearch
    <3>3. QED
      BY <2>1, <3>1, <3>2, KeepSame
  <2>9. CASE ReturnRemaining
    <3>1. /\ UNCHANGED <<etup, count, out, srch, pc>> /\ so'.prev = so.prev /\ so'.vis = so.vis /\ pc = "fetch"
          /\ so'.first = so.first /\ so.w = {}
      BY <2>9, RemainingEffect
    <3>2. PICK c \in so.disc : so'.w = {c} /\ so'.disc = so.disc \ {c}
      BY <2>9, RemainingEffect
    <3>3. ~so.first
      BY <3>1, TypeFacts DEF Phase
    <3>4. Met' = Met /\ Batch = {} /\ Batch' = {c}
      BY <3>1, <3>2, <3>3 DEF Met, Batch
    <3>5. QED
      BY <2>1, <3>1, <3>2, <3>4, KeepSame
  <2>10. CASE Resume
    <3>1. /\ UNCHANGED <<etup, count, out>> /\ so'.prev = so.prev /\ so'.vis = so.vis /\ pc = "fetch"
          /\ pc' = "search" /\ ~so.first /\ so.w = {} /\ srch.unv = {} /\ srch'.unv = {}
      BY <2>10, ResumedEffect
    <3>2. PICK ep \in SUBSET so.disc : srch'.W = ep /\ so'.disc = so.disc \ ep
      BY <2>10, ResumedEffect
    <3>3. Met' = Met /\ Batch = {} /\ Batch' = ep
      BY <3>1, <3>2 DEF Met, Batch
    <3>4. QED
      BY <2>1, <3>1, <3>2, <3>3, KeepSame
  <2>11. CASE SkipElement
    <3>1. /\ UNCHANGED <<etup, count, out, srch, pc>> /\ so'.prev = so.prev /\ so'.vis = so.vis /\ pc = "fetch"
          /\ so'.first = so.first /\ so'.disc = so.disc
      BY <2>11, SkipEffect
    <3>2. PICK c \in so.w : c.rows = {} /\ so'.w = so.w \ {c}
      BY <2>11, SkipEffect
    <3>3. ~so.first
      BY <3>1, TypeFacts DEF Phase
    <3>4. Met' = Met /\ Batch = so.w /\ Batch' = so.w \ {c}
      BY <3>1, <3>2, <3>3 DEF Met, Batch
    <3>5. QED
      BY <2>1, <3>1, <3>2, <3>4, KeepSame
  <2>12. CASE FetchRow
    BY <2>1, <2>12, FetchKeep
  <2>13. QED
    BY <1>1, <2>2, <2>3, <2>4, <2>5, <2>6, <2>7, <2>8, <2>9, <2>10, <2>11, <2>12 DEF ScanStep
<1>2. CASE Rescan
  <2>1. so'.vis = {}
    BY <1>2, RescanEffect
  <2>2. QED
    BY <2>1 DEF KeepInv, Safe, Met
<1>3. CASE VacuumAndInserts
  BY <1>3, NoVacuum DEF KeepInv, Safe
<1>4. CASE UNCHANGED vars
  BY <1>4 DEF vars, KeepInv, Safe, Met, Batch, Iterative, IterativeScan
<1>5. CASE Over
  BY <1>4, <1>5 DEF Over
<1>6. QED
  BY <1>1, <1>2, <1>3, <1>4, <1>5 DEF Next

LEMMA KeepInvariant == Spec => []KeepInv
<1>1. Init => KeepInv
  BY DEF Init, KeepInv, Met, NewScan
<1>2. ScanInv /\ Still /\ KeepInv /\ [Next]_vars => KeepInv'
  BY KeepNext
<1>3. QED
  BY <1>1, <1>2, ScanInvariant, StillInvariant, PTL DEF Spec

\* The limits do not let go of a scan they have stopped.
LEMMA ReachFrame ==
  ASSUME ScanInv, UNCHANGED <<links, setting>>, count'.vacuums = count.vacuums, so'.tuples >= so.tuples,
         so'.tuples \in Nat,
         /\ Iterative /\ count.vacuums = 0 /\ MemoryFull = {FALSE} /\ so.tuples < MaxScanTuples
         /\ (pc' = "search" => srch'.lc = 0)
         => /\ pc' = "search" => srch'.C \subseteq srch'.W \union so'.disc
            /\ \A t \in Met' : Waiting(t)'
  PROVE  ReachInv'
<1>1. Iterative' = Iterative /\ MemoryFull' = MemoryFull /\ MaxScanTuples' = MaxScanTuples
  BY DEF Iterative, IterativeScan, MemoryFull, MaxScanTuples
<1>2. MaxScanTuples \in Nat /\ so.tuples \in Nat
  BY TypeFacts DEF MaxScanTuples, Settings
<1>3. so'.tuples < MaxScanTuples => so.tuples < MaxScanTuples
  BY <1>2
<1>4. QED
  BY <1>1, <1>3 DEF ReachInv

\* A step outside a search that keeps the discarded heap.
LEMMA ReachSame ==
  ASSUME ScanInv, ReachInv, UNCHANGED <<links, setting>>, count'.vacuums = count.vacuums,
         so'.tuples = so.tuples, so'.disc = so.disc, so'.vis = so.vis, srch' = srch,
         pc # "search", pc' # "search"
  PROVE  ReachInv'
<1>1. so'.tuples \in Nat /\ so'.tuples >= so.tuples
  BY TypeFacts
<1>2. Met' = Met
  BY DEF Met
<1>3. QED
  BY <1>1, <1>2, ReachFrame DEF ReachInv, Waiting

\* A layer begins: every element met is a candidate.
LEMMA ReachBegin ==
  ASSUME ScanInv, UNCHANGED <<links, setting>>, count'.vacuums = count.vacuums,
         so'.tuples >= so.tuples, so'.tuples \in Nat, pc' = "search", srch'.C = srch'.W,
         \A t \in Met' : \E c \in srch'.C : c.tid = t
  PROVE  ReachInv'
  BY ReachFrame DEF Waiting

LEMMA ExpandReach ==
  ASSUME ScanInv, Still, ReachInv, ExpandNearest, UNCHANGED setting
  PROVE  ReachInv'
<1>1. /\ UNCHANGED <<links, count, pc>> /\ pc = "search" /\ srch.unv = {} /\ so' \in ScanRecord
      /\ srch'.lc = srch.lc /\ srch'.W = srch.W /\ so'.disc = so.disc /\ so'.tuples >= so.tuples
  BY ExpandEffect
<1>2. so'.tuples \in Nat
  BY <1>1 DEF ScanRecord
<1>3. PICK new \in SUBSET (Used \ so.vis) : srch'.unv = new /\ so'.vis = so.vis \union new
  BY ExpandEffect
<1>4. Met' = Met /\ so.vis \subseteq so'.vis
  BY <1>1, <1>3 DEF Met
<1>5. ASSUME Iterative, count.vacuums = 0, MemoryFull = {FALSE}, so.tuples < MaxScanTuples, srch.lc = 0
      PROVE  srch'.C \subseteq srch'.W \union so'.disc /\ \A t \in Met' : Waiting(t)'
  <2>1. PICK c \in srch.C : srch'.C = srch.C \ {c} /\ links[c.tid][srch.lc] \subseteq so'.vis
    BY <1>5, Expand0
  <2>2. srch.C \subseteq srch.W \union so.disc /\ \A t \in Met : Waiting(t)
    BY <1>1, <1>5 DEF ReachInv, Waiting
  <2>3. \A t \in Met : Waiting(t)'
    <3>1. SUFFICES ASSUME NEW t \in Met PROVE Waiting(t)'
      OBVIOUS
    <3>2. CASE links[t][0] \subseteq so.vis
      BY <1>1, <1>4, <3>2 DEF Waiting
    <3>3. CASE \E x \in so.disc : x.tid = t
      BY <1>1, <3>3 DEF Waiting
    <3>4. CASE \E x \in srch.C : x.tid = t
      <4>1. PICK x \in srch.C : x.tid = t
        BY <3>4
      <4>2. CASE x = c
        BY <1>1, <1>5, <2>1, <4>1, <4>2 DEF Waiting
      <4>3. CASE x # c
        BY <1>1, <2>1, <4>1, <4>3 DEF Waiting
      <4>4. QED
        BY <4>2, <4>3
    <3>5. QED
      BY <2>2, <3>2, <3>3, <3>4 DEF Waiting
  <2>4. QED
    BY <1>1, <1>4, <2>1, <2>2, <2>3
<1>6. QED
  BY <1>1, <1>2, <1>5, ReachFrame

LEMMA LoadReach ==
  ASSUME ScanInv, ReachInv, LoadUnvisited, UNCHANGED setting
  PROVE  ReachInv'
<1>1. /\ UNCHANGED <<links, count, pc>> /\ pc = "search" /\ so'.vis = so.vis
      /\ srch'.lc = srch.lc /\ so'.tuples = so.tuples
  BY LoadEffect
<1>2. so'.tuples \in Nat /\ so'.tuples >= so.tuples
  BY <1>1, TypeFacts
<1>3. ASSUME Iterative, count.vacuums = 0, MemoryFull = {FALSE}, so.tuples < MaxScanTuples, srch.lc = 0
      PROVE  srch'.C \subseteq srch'.W \union so'.disc /\ \A t \in Met' : Waiting(t)'
  <2>1. PICK o \in srch.unv :
           /\ Met' = Met \union {o} /\ Candidate(o).tid = o
           /\ srch'.W \union so'.disc = srch.W \union so.disc \union {Candidate(o)}
           /\ \/ srch'.C = srch.C \union {Candidate(o)}
              \/ srch'.C = srch.C /\ Candidate(o) \in so'.disc
           /\ so.disc \subseteq so'.disc
    BY <1>3, LoadKept
  <2>2. srch.C \subseteq srch.W \union so.disc /\ \A t \in Met : Waiting(t)
    BY <1>1, <1>3 DEF ReachInv, Waiting
  <2>3. srch'.C \subseteq srch'.W \union so'.disc
    BY <2>1, <2>2
  <2>4. \A t \in Met : Waiting(t)'
    BY <1>1, <2>1, <2>2 DEF Waiting
  <2>5. Waiting(o)'
    BY <1>1, <2>1 DEF Waiting
  <2>6. QED
    BY <2>1, <2>3, <2>4, <2>5
<1>4. QED
  BY <1>1, <1>2, <1>3, ReachFrame

\* What a search leaves in C is in the discarded heap.
LEMMA BatchReach ==
  ASSUME ScanInv, ReachInv, BatchDone, UNCHANGED setting
  PROVE  ReachInv'
<1>1. /\ UNCHANGED <<links, count>> /\ LayerDone /\ srch.lc = 0 /\ pc = "search" /\ pc' # "search"
      /\ srch.unv = {} /\ srch' = NoSearch /\ so'.vis = so.vis /\ so'.disc = so.disc /\ so'.tuples = so.tuples
  BY BatchEffect
<1>2. so'.tuples \in Nat /\ so'.tuples >= so.tuples
  BY <1>1, TypeFacts
<1>3. Met' = Met
  BY <1>1 DEF Met, NoSearch
<1>4. srch.C \intersect srch.W = {}
  BY <1>1, DoneBeyond
<1>5. ASSUME Iterative, count.vacuums = 0, MemoryFull = {FALSE}, so.tuples < MaxScanTuples
      PROVE  \A t \in Met' : Waiting(t)'
  <2>1. srch.C \subseteq srch.W \union so.disc /\ \A t \in Met : Waiting(t)
    BY <1>1, <1>5 DEF ReachInv, Waiting
  <2>2. srch.C \subseteq so.disc
    BY <1>4, <2>1
  <2>3. QED
    BY <1>1, <1>3, <2>1, <2>2 DEF Waiting
<1>6. QED
  BY <1>1, <1>2, <1>5, ReachFrame

LEMMA ResumeReach ==
  ASSUME ScanInv, ReachInv, Resume, UNCHANGED setting
  PROVE  ReachInv'
<1>1. /\ UNCHANGED <<links, count>> /\ pc = "fetch" /\ pc' = "search" /\ srch.unv = {} /\ srch'.unv = {}
      /\ so'.vis = so.vis /\ so'.tuples >= so.tuples
  BY ResumedEffect
<1>2. so'.tuples \in Nat
  <2>1. ScanInv'
    BY ResumeInv
  <2>2. so' \in ScanRecord'
    BY <2>1 DEF ScanInv, ScanType
  <2>3. QED
    BY <2>2 DEF ScanRecord
<1>3. PICK ep \in SUBSET so.disc : srch'.C = ep /\ srch'.W = ep /\ so'.disc = so.disc \ ep
  BY ResumedEffect
<1>4. Met' = Met
  BY <1>1 DEF Met
<1>5. ASSUME Iterative, count.vacuums = 0, MemoryFull = {FALSE}, so.tuples < MaxScanTuples
      PROVE  srch'.C \subseteq srch'.W \union so'.disc /\ \A t \in Met' : Waiting(t)'
  <2>1. \A t \in Met : Waiting(t)
    BY <1>1, <1>5 DEF ReachInv, Waiting
  <2>2. \A t \in Met : Waiting(t)'
    BY <1>1, <1>3, <2>1 DEF Waiting
  <2>3. QED
    BY <1>3, <1>4, <2>2
<1>6. QED
  BY <1>1, <1>2, <1>5, ReachFrame

LEMMA ReachNext ==
  ASSUME ScanInv, Still, ReachInv, [Next]_vars
  PROVE  ReachInv'
<1>1. CASE ScanStep
  <2>1. UNCHANGED setting
    BY <1>1 DEF ScanStep
  <2>2. CASE FirstCall
    <3>1. CASE entry = NoTid
      <4>1. /\ UNCHANGED <<links, count, srch>> /\ so'.tuples = so.tuples /\ so'.disc = so.disc
            /\ so'.vis = so.vis /\ pc = "idle" /\ pc' = "fetch"
        BY <2>2, <3>1, FirstCallEmpty
      <4>2. QED
        BY <2>1, <4>1, ReachSame
    <3>2. CASE entry # NoTid
      <4>1. /\ UNCHANGED <<links, count>> /\ pc' = "search" /\ so'.tuples >= so.tuples
            /\ srch'.C = {Candidate(entry)} /\ srch'.W = {Candidate(entry)} /\ Candidate(entry).tid = entry
            /\ Met' = {entry}
        BY <2>2, <3>2, FirstLayerEffect DEF Met
      <4>2. so'.tuples \in Nat
        <5>1. so' \in ScanRecord'
          BY <2>1, <2>2, FirstCallInv DEF ScanInv, ScanType
        <5>2. QED
          BY <5>1 DEF ScanRecord
      <4>3. QED
        BY <2>1, <4>1, <4>2, ReachBegin
    <3>3. QED
      BY <3>1, <3>2
  <2>3. CASE NextCall \/ NoMore
    <3>1. UNCHANGED <<links, count, so, srch>> /\ pc # "search" /\ pc' # "search"
      BY <2>3 DEF NextCall, NoMore, index
    <3>2. QED
      BY <2>1, <3>1, ReachSame
  <2>4. CASE LoadFails
    <3>1. pc = "search" /\ count' = count /\ \E t \in srch.unv : etup[t].deleted
      BY <2>4 DEF LoadFails
    <3>2. count.vacuums # 0
      BY <3>1, TypeFacts DEF Still
    <3>3. QED
      BY <3>1, <3>2 DEF ReachInv
  <2>5. CASE ExpandNearest
    BY <2>1, <2>5, ExpandReach
  <2>6. CASE LoadUnvisited
    BY <2>1, <2>6, LoadReach
  <2>7. CASE NextLayer
    <3>1. /\ UNCHANGED <<links, count>> /\ pc' = "search" /\ so'.tuples >= so.tuples
          /\ srch'.C = srch.W /\ srch'.W = srch.W /\ Met' = Tids(srch.W)
      BY <2>7, NextLayerEffect DEF Met
    <3>2. so'.tuples \in Nat
      <4>1. so' \in ScanRecord'
        BY <2>1, <2>7, NextLayerInv DEF ScanInv, ScanType
      <4>2. QED
        BY <4>1 DEF ScanRecord
    <3>3. \A t \in Met' : \E c \in srch'.C : c.tid = t
      BY <3>1 DEF Tids
    <3>4. QED
      BY <2>1, <3>1, <3>2, <3>3, ReachBegin
  <2>8. CASE BatchDone
    BY <2>1, <2>8, BatchReach
  <2>9. CASE ReturnRemaining
    <3>1. UNCHANGED <<links, count>> /\ so'.tuples = so.tuples /\ \E full \in MemoryFull : LimitReached(full)
      BY <2>9, RemainingEffect
    <3>2. so'.tuples \in Nat /\ so'.tuples >= so.tuples /\ MaxScanTuples \in Nat
      BY <3>1, TypeFacts DEF MaxScanTuples, Settings
    <3>3. ~(MemoryFull = {FALSE} /\ so.tuples < MaxScanTuples)
      <4>1. SUFFICES ASSUME MemoryFull = {FALSE}, so.tuples < MaxScanTuples PROVE FALSE
        OBVIOUS
      <4>2. LimitReached(FALSE)
        BY <3>1, <4>1, Zenon
      <4>3. so.tuples >= MaxScanTuples
        BY <4>2 DEF LimitReached
      <4>4. QED
        BY <3>1, <3>2, <4>1, <4>3
    <3>4. QED
      BY <2>1, <3>1, <3>2, <3>3, ReachFrame
  <2>10. CASE Resume
    BY <2>1, <2>10, ResumeReach
  <2>11. CASE SkipElement
    <3>1. /\ UNCHANGED <<links, count, srch>> /\ so'.tuples = so.tuples /\ so'.disc = so.disc
          /\ so'.vis = so.vis /\ pc = "fetch" /\ pc' = "fetch"
      BY <2>11, SkipEffect
    <3>2. QED
      BY <2>1, <3>1, ReachSame
  <2>12. CASE FetchRow
    <3>1. /\ UNCHANGED <<links, count, srch>> /\ so'.tuples = so.tuples /\ so'.disc = so.disc
          /\ so'.vis = so.vis /\ pc = "fetch" /\ pc' # "search"
      BY <2>12, FetchEffect DEF RowSkipped, RowReturned
    <3>2. QED
      BY <2>1, <3>1, ReachSame
  <2>13. QED
    BY <1>1, <2>2, <2>3, <2>4, <2>5, <2>6, <2>7, <2>8, <2>9, <2>10, <2>11, <2>12 DEF ScanStep
<1>2. CASE Rescan
  <2>1. so'.vis = {} /\ pc' = "idle"
    BY <1>2, RescanEffect
  <2>2. QED
    BY <2>1 DEF ReachInv, Met
<1>3. CASE VacuumAndInserts
  BY <1>3, NoVacuum DEF ReachInv
<1>4. CASE UNCHANGED vars
  BY <1>4 DEF vars, ReachInv, Waiting, Met, Iterative, IterativeScan, MemoryFull, MaxScanTuples
<1>5. CASE Over
  BY <1>4, <1>5 DEF Over
<1>6. QED
  BY <1>1, <1>2, <1>3, <1>4, <1>5 DEF Next

\* An iterative scan that comes to its end has returned every row of every element it met,
\* but in strict order those that came too late, and unless a limit stopped it it has met
\* every element that the links of layer 0 lead to.
THEOREM NothingLostCorrect == Spec => []NothingLost
<1>1. Init => ReachInv
  BY DEF Init, ReachInv, Met, NewScan
<1>2. ScanInv /\ Still /\ ReachInv /\ [Next]_vars => ReachInv'
  BY ReachNext
<1>3. ScanInv /\ EndInv /\ KeepInv /\ ReachInv => NothingLost
  <2>1. SUFFICES ASSUME ScanInv, EndInv, KeepInv, ReachInv, Iterative, EfSearch > 0, pc = "done", count.vacuums = 0
                 PROVE  /\ \A t \in so.vis : \A r \in etup[t].rows :
                             \/ \E i \in DOMAIN out : out[i].row = r
                             \/ IterativeScan = "strict" /\ etup[t].dist < so.prev
                        /\ MemoryFull = {FALSE} /\ so.tuples < MaxScanTuples =>
                             \A t \in so.vis : links[t][0] \subseteq so.vis
    BY DEF NothingLost
  <2>2. Met = so.vis
    BY <2>1, TypeFacts DEF Met, Phase
  <2>3. Batch = {} /\ so.disc = {}
    BY <2>1 DEF EndInv
  <2>4. \A t \in Met : \A r \in etup[t].rows : Safe(t, r)
    BY <2>1 DEF KeepInv
  <2>5. MemoryFull = {FALSE} /\ so.tuples < MaxScanTuples => \A t \in Met : Waiting(t)
    BY <2>1 DEF ReachInv, Waiting
  <2>6. QED
    BY <2>1, <2>2, <2>3, <2>4, <2>5 DEF Safe, Waiting
<1>4. QED
  BY <1>1, <1>2, <1>3, ScanInvariant, StillInvariant, EndInvariant, KeepInvariant, PTL DEF Spec
=============================================================================
