------------------------------ MODULE HnswScan ------------------------------
(***************************************************************************)
(* One index scan (hnswscan.c) with the search it runs (HnswSearchLayer in *)
(* hnswutils.c), distances included: the first batch, the batches of an    *)
(* iterative scan, and what hnswgettuple returns of them.                  *)
(*                                                                         *)
(* VACUUM and inserts are here as a scan meets them, one tuple at a time:  *)
(* elements lose their rows, the others are linked past them, the empty    *)
(* ones are cleared after a wait for the scans, and their places are used  *)
(* again (HnswIndex has their steps in full).                              *)
(***************************************************************************)
EXTENDS Integers, Sequences, FiniteSets

CONSTANTS
  Places,      \* index TIDs
  Distances,   \* distances from the query
  Setups,      \* settings, and indexes [dist, level, links, entry] scanned with them
  VersionMax   \* versions cycle through 1..VersionMax

NoTid == 0

(***************************************************************************)
(* What a scan runs with:                                                  *)
(*   ef          hnsw_ef_search                                            *)
(*   iterative   hnsw_iterative_scan: "off", "relaxed" or "strict"         *)
(*   maxTuples   hnsw_max_scan_tuples                                      *)
(*   memoryFull  answers of the memory check                               *)
(*   rows        heap TIDs of an element, at first                         *)
(*   rescans     bound on hnswrescan                                       *)
(*   vacuums     bound on VACUUMs                                          *)
(***************************************************************************)
Settings ==
  [ef : Nat, iterative : {"off", "relaxed", "strict"}, maxTuples : Nat,
   memoryFull : SUBSET BOOLEAN \ {{}}, rows : Nat, rescans : Nat, vacuums : Nat]

\* An index a scan may begin with: neighbors are elements of the index.
IndexOK(g) ==
  LET used == DOMAIN g.level IN
  /\ used \subseteq Places
  /\ g.level \in [used -> Nat] /\ g.dist \in [used -> Nat]
  /\ DOMAIN g.links = used
  /\ \A t \in used : g.links[t] \in [0..g.level[t] -> SUBSET used]
  /\ g.entry \in used \union {NoTid}

ASSUME ScanConstants ==
  /\ IsFiniteSet(Places) /\ NoTid \notin Places
  /\ Distances \subseteq Nat
  /\ \A s \in Setups : s.settings \in Settings /\ \A g \in s.graphs : IndexOK(g)
  /\ VersionMax \in Nat \ {0}

VARIABLES
  setting, \* the settings, which do not change during the scan
  etup,    \* element tuples; gen tells the elements of one place apart
  links,   \* neighbor tuples
  entry,   \* the entry point of the metapage
  locked,  \* the scan holds HNSW_SCAN_LOCK
  pc,      \* "idle" between calls, "search" or "fetch" in one, "done", "error"
  so,      \* HnswScanOpaqueData
  srch,    \* local state of HnswSearchLayer
  out,     \* what hnswgettuple returned since the last hnswrescan
  vac,     \* VACUUM: phase, elements it empties, elements left to visit
  count    \* rescans and VACUUMs so far, and rows ever made

vars == <<setting, etup, links, entry, locked, pc, so, srch, out, vac, count>>
index == <<etup, links, entry>>
-----------------------------------------------------------------------------
EfSearch       == setting.ef
IterativeScan  == setting.iterative
MaxScanTuples  == setting.maxTuples
MemoryFull     == setting.memoryFull
RowsPerElement == setting.rows

Iterative == IterativeScan # "off"

\* HnswLoadElementFromTuple, with the distance
Candidate(t) == [tid |-> t, gen |-> etup[t].gen, version |-> etup[t].version,
                 level |-> etup[t].level, dist |-> etup[t].dist, rows |-> etup[t].rows]

NearestOf(S)  == {c \in S : \A d \in S : c.dist <= d.dist}
FurthestOf(S) == {c \in S : \A d \in S : c.dist >= d.dist}

\* Mutant: equal distances stop the search of a layer.
NearerOnly(c, f) == c.dist >= f.dist

\* The condition that ends the search of a layer.
Beyond(c, f) == c.dist > f.dist

\* The sets of at most n elements taken from a heap, nearest first.
FirstOf(S, n) ==
  {B \in SUBSET S : /\ Cardinality(B) = IF Cardinality(S) < n THEN Cardinality(S) ELSE n
                    /\ \A b \in B, s \in S \ B : b.dist <= s.dist}

NoSearch == [lc |-> 0, C |-> {}, W |-> {}, wlen |-> 0, ef |-> 0, unv |-> {}]

\* hnswrescan; discarded is allocated by the first search of layer 0.
NewScan == [first |-> TRUE, w |-> {}, vis |-> {}, disc |-> {}, hasDisc |-> FALSE,
            tuples |-> 0, prev |-> -1]

Init ==
  /\ \E s \in Setups : \E g \in s.graphs :
       /\ setting = s.settings
       /\ etup = [t \in DOMAIN g.level |-> [deleted |-> FALSE, gen |-> 0, version |-> 1,
                    level |-> g.level[t], dist |-> g.dist[t],
                    rows |-> {<<t, i>> : i \in 1..s.settings.rows}]]
       /\ links = g.links
       /\ entry = g.entry
  /\ locked = FALSE /\ pc = "idle" /\ so = NewScan /\ srch = NoSearch /\ out = <<>>
  /\ vac = [phase |-> "idle", dead |-> {}, left |-> {}]
  /\ count = [rescans |-> 0, vacuums |-> 0]
-----------------------------------------------------------------------------
(***************************************************************************)
(* HnswSearchLayer.                                                        *)
(***************************************************************************)

\* Mutant: a resumed search forgets what was visited.
BeginLayerAgain(ep, lc, init) ==
  /\ srch' = [lc |-> lc, C |-> ep, W |-> ep, wlen |-> Cardinality(ep),
              ef |-> IF lc > 0 THEN 1 ELSE EfSearch, unv |-> {}]
  /\ so' = [so EXCEPT !.vis = {c.tid : c \in ep},
                      !.tuples = IF init /\ lc = 0 THEN @ + Cardinality(ep) ELSE @,
                      !.hasDisc = @ \/ (lc = 0 /\ Iterative),
                      !.disc = @ \ ep]
  /\ pc' = "search"

\* Mutant: the entry points are not added to W.
BeginLayerEmpty(ep, lc, init) ==
  /\ srch' = [lc |-> lc, C |-> ep, W |-> {}, wlen |-> 0,
              ef |-> IF lc > 0 THEN 1 ELSE EfSearch, unv |-> {}]
  /\ so' = [so EXCEPT !.vis = IF init THEN {c.tid : c \in ep} ELSE @,
                      !.tuples = IF init /\ lc = 0 THEN @ + Cardinality(ep) ELSE @,
                      !.hasDisc = @ \/ (lc = 0 /\ Iterative),
                      !.disc = @ \ ep]
  /\ pc' = "search"

\* Begin a layer with entry points ep.  A layer is searched with fresh sets; a
\* resumed layer 0 goes on with those of the scan.
BeginLayer(ep, lc, init) ==
  /\ srch' = [lc |-> lc, C |-> ep, W |-> ep, wlen |-> Cardinality(ep),
              ef |-> IF lc > 0 THEN 1 ELSE EfSearch, unv |-> {}]
  /\ so' = [so EXCEPT !.vis = IF init THEN {c.tid : c \in ep} ELSE @,
                      !.tuples = IF init /\ lc = 0 THEN @ + Cardinality(ep) ELSE @,
                      !.hasDisc = @ \/ (lc = 0 /\ Iterative),
                      !.disc = @ \ ep]
  /\ pc' = "search"

\* Mutant: the version is not compared.
OwnTupleAlways(c) == etup[c.tid].level = c.level

\* HnswLoadNeighborTids: is the neighbor tuple the one of the loaded element?
OwnTuple(c) == etup[c.tid].version = c.version /\ etup[c.tid].level = c.level

\* The nearest candidate's neighbors are read: HnswLoadUnvisitedFromDisk.
ExpandNearest ==
  /\ pc = "search"
  /\ srch.unv = {}
  /\ \E c \in NearestOf(srch.C), f \in FurthestOf(srch.W) :
       LET new == IF OwnTuple(c) THEN links[c.tid][srch.lc] \ so.vis ELSE {} IN
       /\ ~Beyond(c, f)
       /\ srch' = [srch EXCEPT !.C = @ \ {c}, !.unv = new]
       /\ so' = [so EXCEPT !.vis = @ \union new,
                           !.tuples = IF srch.lc = 0 THEN @ + Cardinality(new) ELSE @]
  /\ UNCHANGED <<index, locked, pc, out, vac, count>>

\* Mutant: what W has no room for is not kept for the next batch.
DiscardLost(D) == so

\* What is left out of W is kept for the next batch, if there can be one.
Discard(D) == IF srch.lc = 0 /\ Iterative THEN [so EXCEPT !.disc = @ \union D] ELSE so

Nearer(e, f) == e.dist < f.dist \/ srch.wlen < srch.ef

\* "Make robust to issues": an element that is not on this layer is passed over.
Wanted(e, f) == Nearer(e, f) /\ e.level >= srch.lc

\* One unvisited neighbor is loaded: it is added to C and W when W has room or it
\* is nearer than the furthest of W, which then makes room.
LoadUnvisited ==
  /\ pc = "search"
  /\ \E t \in srch.unv, f \in FurthestOf(srch.W) :
       LET e == Candidate(t) IN
       /\ ~etup[t].deleted
       /\ \/ /\ ~Wanted(e, f)
             /\ so' = IF Nearer(e, f) THEN so ELSE Discard({e})
             /\ srch' = [srch EXCEPT !.unv = @ \ {t}]
          \/ /\ Wanted(e, f)
             /\ \E d \in FurthestOf(srch.W \union {e}) :
                  LET D == IF srch.wlen + 1 > srch.ef THEN {d} ELSE {} IN
                  /\ srch' = [srch EXCEPT !.unv = @ \ {t}, !.C = @ \union {e},
                                          !.W = (@ \union {e}) \ D, !.wlen = @ + 1]
                  /\ so' = Discard(D)
  /\ UNCHANGED <<index, locked, pc, out, vac, count>>

\* The distance function rejects a cleared vector: the query fails.
LoadFails ==
  /\ pc = "search"
  /\ \E t \in srch.unv : etup[t].deleted
  /\ pc' = "error"
  /\ locked' = FALSE
  /\ UNCHANGED <<index, so, srch, out, vac, count>>

LayerDone ==
  /\ pc = "search"
  /\ srch.unv = {}
  /\ \/ srch.C = {}
     \/ \E c \in NearestOf(srch.C), f \in FurthestOf(srch.W) : Beyond(c, f)

\* GetScanItems: the nearest element is the entry point of the next layer.
NextLayer ==
  /\ LayerDone
  /\ srch.lc > 0
  /\ BeginLayer(srch.W, srch.lc - 1, TRUE)
  /\ UNCHANGED <<index, locked, out, vac, count>>

\* Layer 0 is searched: W is the batch, the scan lock is released.
BatchDone ==
  /\ LayerDone
  /\ srch.lc = 0
  /\ so' = [so EXCEPT !.w = srch.W, !.first = FALSE]
  /\ srch' = NoSearch
  /\ locked' = FALSE
  /\ pc' = IF srch.W = {} THEN "done" ELSE "fetch"
  /\ UNCHANGED <<index, out, vac, count>>
-----------------------------------------------------------------------------
(***************************************************************************)
(* hnswgettuple.                                                           *)
(***************************************************************************)

\* First call: GetScanItems under the share HNSW_SCAN_LOCK.
FirstCall ==
  /\ pc = "idle"
  /\ so.first
  /\ IF entry = NoTid
       THEN /\ so' = [so EXCEPT !.first = FALSE, !.w = {}]
            /\ pc' = "fetch"
            /\ UNCHANGED <<srch, locked>>
       ELSE /\ ~etup[entry].deleted
            /\ BeginLayer({Candidate(entry)}, etup[entry].level, TRUE)
            /\ locked' = TRUE
  /\ UNCHANGED <<index, out, vac, count>>

NextCall ==
  /\ pc = "idle"
  /\ ~so.first
  /\ pc' = "fetch"
  /\ UNCHANGED <<index, locked, so, srch, out, vac, count>>

LimitReached(full) == so.tuples >= MaxScanTuples \/ full

\* The batch is used up: no more tuples.
NoMore ==
  /\ pc = "fetch"
  /\ so.w = {}
  /\ ~Iterative \/ ~so.hasDisc \/ so.disc = {}
  /\ pc' = "done"
  /\ UNCHANGED <<index, locked, so, srch, out, vac, count>>

\* The batch is used up and a limit reached: return what is left, one by one.
ReturnRemaining ==
  /\ pc = "fetch"
  /\ so.w = {} /\ Iterative /\ so.hasDisc
  /\ \E full \in MemoryFull : LimitReached(full)
  /\ \E c \in NearestOf(so.disc) : so' = [so EXCEPT !.w = {c}, !.disc = @ \ {c}]
  /\ UNCHANGED <<index, locked, pc, srch, out, vac, count>>

\* ResumeScanItems under the share HNSW_SCAN_LOCK.
Resume ==
  /\ pc = "fetch"
  /\ so.w = {} /\ Iterative /\ so.hasDisc /\ so.disc # {}
  /\ \E full \in MemoryFull : ~LimitReached(full)
  /\ \E ep \in FirstOf(so.disc, EfSearch) : BeginLayer(ep, 0, FALSE)
  /\ locked' = TRUE
  /\ UNCHANGED <<index, out, vac, count>>

\* Mutant: the element is not taken off the list.
SkipElementKept ==
  /\ pc = "fetch"
  /\ \E c \in NearestOf(so.w) : c.rows = {} /\ so' = so
  /\ UNCHANGED <<index, locked, pc, srch, out, vac, count>>

\* An element without heap TIDs, or whose heap TIDs have all been returned.
SkipElement ==
  /\ pc = "fetch"
  /\ \E c \in NearestOf(so.w) : c.rows = {} /\ so' = [so EXCEPT !.w = @ \ {c}]
  /\ UNCHANGED <<index, locked, pc, srch, out, vac, count>>

\* Mutant: the distance of the previous tuple is not kept.
PreviousLost(d) == -1

Previous(d) == d

\* The next heap TID of the nearest element; in strict order, one that comes
\* after something further away is skipped.
FetchRow ==
  /\ pc = "fetch"
  /\ \E c \in NearestOf(so.w) : \E r \in c.rows :
       LET left == (so.w \ {c}) \union {[c EXCEPT !.rows = @ \ {r}]} IN
       \/ /\ IterativeScan = "strict" /\ c.dist < so.prev
          /\ so' = [so EXCEPT !.w = left]
          /\ UNCHANGED <<pc, out>>
       \/ /\ ~(IterativeScan = "strict" /\ c.dist < so.prev)
          /\ so' = [so EXCEPT !.w = left,
                              !.prev = IF IterativeScan = "strict" THEN Previous(c.dist) ELSE @]
          /\ out' = Append(out, [row |-> r, dist |-> c.dist])
          /\ pc' = "idle"
  /\ UNCHANGED <<index, locked, srch, vac, count>>

\* hnswrescan: the query starts over, maybe in the middle of a batch; w is left to
\* the first call.
Rescan ==
  /\ pc \in {"idle", "done"}
  /\ count.rescans < setting.rescans
  /\ so' = [NewScan EXCEPT !.w = so.w]
  /\ out' = <<>>
  /\ pc' = "idle"
  /\ count' = [count EXCEPT !.rescans = @ + 1]
  /\ UNCHANGED <<index, locked, srch, vac>>
-----------------------------------------------------------------------------
(***************************************************************************)
(* VACUUM and inserts, as a scan meets them.                               *)
(***************************************************************************)
Intact == {t \in DOMAIN etup : ~etup[t].deleted}

\* VACUUM begins with dead rows, all those of the elements it will empty.
VacuumBegin ==
  /\ vac.phase = "idle"
  /\ count.vacuums < setting.vacuums
  /\ \E D \in SUBSET Intact \ {{}} :
       vac' = [phase |-> "remove", dead |-> D, left |-> D]
  /\ count' = [count EXCEPT !.vacuums = @ + 1]
  /\ UNCHANGED <<index, locked, pc, so, srch, out>>

RemoveHeapTids ==
  /\ vac.phase = "remove"
  /\ \E t \in vac.left :
       /\ etup' = [etup EXCEPT ![t].rows = {}]
       /\ vac' = IF vac.left = {t} THEN [vac EXCEPT !.phase = "repair", !.left = Intact \ vac.dead]
                 ELSE [vac EXCEPT !.left = @ \ {t}]
  /\ UNCHANGED <<links, entry, locked, pc, so, srch, out, count>>

\* The elements that stay on layer lc.
Stay(lc) == {t \in Intact \ vac.dead : etup[t].level >= lc}

\* RepairGraph: an element is linked to the others that stay, past the ones that
\* do not.
RepairGraph ==
  /\ vac.phase = "repair"
  /\ \E t \in vac.left :
       /\ links' = [links EXCEPT ![t] = [lc \in DOMAIN @ |->
            IF @[lc] \intersect vac.dead = {} THEN @[lc] ELSE Stay(lc) \ {t}]]
       /\ vac' = [vac EXCEPT !.left = @ \ {t}]
  /\ UNCHANGED <<etup, entry, locked, pc, so, srch, out, count>>

\* RepairGraphEntryPoint replaces an entry point being deleted; then MarkDeleted
\* waits for the scans in progress.
WaitForScans ==
  /\ vac.phase = "repair"
  /\ vac.left = {}
  /\ ~locked
  /\ entry' \in IF entry \notin vac.dead THEN {entry}
                ELSE IF Stay(0) = {} THEN {NoTid}
                ELSE {t \in Stay(0) : \A o \in Stay(0) : etup[o].level <= etup[t].level}
  /\ vac' = [vac EXCEPT !.phase = "mark", !.left = vac.dead]
  /\ UNCHANGED <<etup, links, locked, pc, so, srch, out, count>>

NextVersion(v) == IF v + 1 > VersionMax THEN 1 ELSE v + 1

\* MarkDeleted, one element.
MarkDeleted ==
  /\ vac.phase = "mark"
  /\ \E t \in vac.left :
       /\ etup' = [etup EXCEPT ![t].deleted = TRUE, ![t].gen = @ + 1,
                               ![t].version = NextVersion(@)]
       /\ links' = [links EXCEPT ![t] = [lc \in DOMAIN @ |-> {}]]
       /\ vac' = IF vac.left = {t} THEN [phase |-> "idle", dead |-> {}, left |-> {}]
                 ELSE [vac EXCEPT !.left = @ \ {t}]
  /\ UNCHANGED <<entry, locked, pc, so, srch, out, count>>

\* An insert uses the place of a deleted element, which keeps its version, and
\* connects it with the others.
ReusePlace ==
  /\ \E t \in DOMAIN etup, d \in Distances :
       LET lists == [lc \in DOMAIN links[t] |-> IF lc = 0 THEN Intact ELSE {}] IN
       /\ etup[t].deleted
       /\ etup' = [etup EXCEPT ![t] = [@ EXCEPT !.deleted = FALSE, !.level = 0, !.dist = d,
                                                !.rows = {<<t, etup[t].gen + RowsPerElement>>}]]
       /\ links' = [o \in DOMAIN links |->
            IF o = t THEN lists
            ELSE IF etup[o].deleted \/ etup[o].rows = {} THEN links[o]
            ELSE [links[o] EXCEPT ![0] = @ \union {t}]]
       /\ entry' = IF entry = NoTid THEN t ELSE entry
  /\ UNCHANGED <<locked, pc, so, srch, out, vac, count>>
-----------------------------------------------------------------------------
ScanStep ==
  /\ \/ FirstCall \/ NextCall
     \/ ExpandNearest \/ LoadUnvisited \/ LoadFails \/ NextLayer \/ BatchDone
     \/ NoMore \/ ReturnRemaining \/ Resume \/ SkipElement \/ FetchRow
  /\ UNCHANGED setting

\* The executor wants no more tuples.
Over == pc \in {"done", "error"} /\ UNCHANGED vars

VacuumAndInserts ==
  \/ VacuumBegin \/ RemoveHeapTids \/ RepairGraph \/ WaitForScans \/ MarkDeleted
  \/ ReusePlace

Next ==
  \/ ScanStep \/ Over
  \/ (Rescan \/ VacuumAndInserts) /\ UNCHANGED setting

Spec == Init /\ [][Next]_vars

\* The executor keeps asking, and the backend keeps running.
FairSpec == Spec /\ WF_vars(ScanStep)
-----------------------------------------------------------------------------
Candidates == [tid : Places, gen : Nat, version : 1..VersionMax, level : Nat,
               dist : Nat, rows : SUBSET (Places \X Nat)]

\* Types; the scan lock is held exactly while a search runs, W is never empty when
\* a candidate is expanded, and what was visited is a place.
ScanTypeOK ==
  /\ pc \in {"idle", "search", "fetch", "done", "error"}
  /\ locked = (pc = "search")
  /\ \A c \in srch.C \union srch.W \union so.w \union so.disc : c \in Candidates
  /\ so.vis \subseteq Places /\ so.tuples \in Nat
  /\ srch.unv \subseteq so.vis
  /\ srch.C # {} \/ srch.unv # {} => srch.W # {}
  /\ entry \in Places \union {NoTid}

\* A scan returns a row once: not again in a later batch of an iterative scan, not
\* when a limit makes it return what is left one by one, and not when VACUUM and an
\* insert put another element in a place the scan has visited.  (A candidate shares
\* its memory between C, W and the discarded heap, and hnswgettuple frees it: one
\* that is met twice is also freed twice.)
RowsOnce ==
  /\ \A i, j \in DOMAIN out : i # j => out[i].row # out[j].row
  /\ \A c \in so.w : pc \in {"idle", "fetch"} /\ ~so.first =>
       /\ \A d \in so.disc : c.tid # d.tid
       /\ \A i \in DOMAIN out : out[i].row \notin c.rows

\* In strict order rows come by distance, over all the batches.
OrderedOutput ==
  IterativeScan = "strict" =>
    \A i, j \in DOMAIN out : i < j => out[i].dist <= out[j].dist

\* What the greedy search promises, whatever the graph and with ties: the first
\* batch has ef elements (one when hnsw_ef_search is 0) unless fewer were met, and
\* a neighbor of an element of the batch is in it or is no nearer than any of it.
FirstBatchOptimal ==
  LayerDone /\ srch.lc = 0 /\ so.first /\ count.vacuums = 0 =>
    LET ef    == IF EfSearch = 0 THEN 1 ELSE EfSearch
        batch == {c.tid : c \in srch.W}
    IN /\ Cardinality(batch) = IF Cardinality(so.vis) < ef THEN Cardinality(so.vis) ELSE ef
       /\ \A c \in srch.W : \A t \in links[c.tid][0] \ batch :
            t \in so.vis /\ \A d \in srch.W : d.dist <= etup[t].dist

\* An iterative scan that ends has returned every row of every element it met, but
\* in strict order those that came too late; if no limit was reached, it met every
\* element that links on layer 0 lead to.
NothingLost ==
  Iterative /\ EfSearch > 0 /\ pc = "done" /\ count.vacuums = 0 =>
    /\ \A t \in so.vis : \A r \in etup[t].rows :
         \/ \E i \in DOMAIN out : out[i].row = r
         \/ IterativeScan = "strict" /\ etup[t].dist < so.prev
    /\ MemoryFull = {FALSE} /\ so.tuples < MaxScanTuples =>
         \A t \in so.vis : links[t][0] \subseteq so.vis

\* "Ensure the neighbor tuple has not been deleted or replaced between index scan
\* iterations": an element loaded in an earlier iteration whose version and level
\* still match is the element that was loaded.
VersionsTell ==
  \A c \in srch.C \union so.disc : OwnTuple(c) => etup[c.tid].gen = c.gen

\* A scan the executor keeps asking comes to an end, iterations, limits, VACUUMs and
\* rescans included.
ScanTerminates == []<>(pc \in {"done", "error"})
=============================================================================
