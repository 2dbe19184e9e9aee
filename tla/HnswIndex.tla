----------------------------- MODULE HnswIndex -----------------------------
(***************************************************************************)
(* The on-disk HNSW index under concurrent use: index inserts              *)
(* (hnswinsert.c), VACUUM's bulk delete (hnswvacuum.c) and index scans     *)
(* (hnswscan.c), with the search they share (hnswutils.c).                 *)
(*                                                                         *)
(* One step of the model is one critical section of the code: what is done *)
(* under one buffer lock, or between two lock-manager calls.  Distances    *)
(* are left out: where the code follows the nearest candidate, the model   *)
(* follows any.                                                            *)
(***************************************************************************)
EXTENDS Integers, Sequences, FiniteSets

CONSTANTS
  Inserters,   \* backends that insert rows
  Scanners,    \* backends that scan the index
  Vac,         \* the backend that runs VACUUM
  Slots,       \* index TIDs an element tuple can have
  PageOf,      \* the block of each index TID
  HeapTids,    \* heap TIDs
  Values,      \* vector values
  Cleared,     \* what MarkDeleted leaves of a value
  MaxLevel,    \* HnswGetMaxLevel
  M,           \* connections per layer above 0; layer 0 has twice as many
  EfConstruction,
  EfSearch,
  HeapTidsMax, \* HNSW_HEAPTIDS
  VersionMax   \* versions cycle through 1..VersionMax (15 in the code)

NoTid   == 0                    \* InvalidBlockNumber / an invalid ItemPointer
Levels  == 0..MaxLevel
Writers == Inserters \union {Vac}
Procs   == Writers \union Scanners

ASSUME SlotsAssumption == Slots \subseteq Nat \ {0} /\ PageOf \in [Slots -> Nat \ {0}]
ASSUME BoundsAssumption ==
  /\ MaxLevel \in Nat
  /\ M \in Nat \ {0}
  /\ EfConstruction \in Nat \ {0}
  /\ EfSearch \in Nat
  /\ HeapTidsMax \in Nat \ {0}
  /\ VersionMax \in Nat \ {0}
ASSUME NamesAssumption ==
  /\ Vac \notin Inserters \union Scanners
  /\ Inserters \cap Scanners = {}
  /\ Cleared \notin Values

VARIABLES
  row,     \* heap: "free", "inserting", "live" or "dead" for each heap TID
  rowval,  \* heap: the vector of each heap TID
  etup,    \* element tuples
  ntup,    \* neighbor tuples
  meta,    \* the entry point stored in the metapage
  lock,    \* HNSW_UPDATE_LOCK of the writers, HNSW_SCAN_LOCK of the scanners
  pc,      \* what each backend does next
  job,     \* the element each writer inserts or repairs
  ep,      \* the entry point each backend read
  srch,    \* the HnswSearchLayer in progress
  sel,     \* the neighbors selected so far, per layer
  todo,    \* elements still to try as duplicates, or to connect back
  vac      \* HnswVacuumState and the loop variables of the three phases

vars == <<row, rowval, etup, ntup, meta, lock, pc, job, ep, srch, sel, todo, vac>>
-----------------------------------------------------------------------------
(***************************************************************************)
(* Data.                                                                   *)
(***************************************************************************)
LayerM(lc) == IF lc = 0 THEN 2 * M ELSE M       \* HnswGetLayerM

Tids0 == Slots \union {NoTid}
Lists == [Levels -> [1..(2 * M) -> Tids0]]

ElementTuple ==
  [used : BOOLEAN, deleted : BOOLEAN, level : Levels, version : 1..VersionMax,
   heaptids : SUBSET HeapTids, value : Values \union {Cleared}]
NeighborTuple == [level : Levels, version : 1..VersionMax, tids : Lists]

\* An element loaded into memory: HnswElementData.
Element ==
  [tid : Slots, level : Levels, version : 1..VersionMax,
   value : Values \union {Cleared}, live : BOOLEAN]

\* The i-th neighbor selected on layer lc.
Connection == [lc : Levels, i : 1..(2 * M), nb : Element]

EmptyLists == [lc \in Levels |-> [i \in 1..(2 * M) |-> NoTid]]
NoEntry    == [tid |-> NoTid, level |-> -1]
Entry      == [tid : Slots, level : Levels] \union {NoEntry}
NoJob      == [tid |-> NoTid, level |-> 0, version |-> 1, heaptid |-> NoTid,
               value |-> Cleared, idx |-> 0]
NoSearch   == [lc |-> 0, hnd |-> {}, exp |-> {}, vis |-> {}, pend |-> {}]
VacIdle    == [dead |-> {}, entry |-> NoTid, deleted |-> {}, high |-> NoEntry,
               blk |-> 1, queue |-> {}, more |-> FALSE, stage |-> "none"]

\* An element tuple that holds at least one heap TID.
Alive(s) == etup[s].used /\ etup[s].heaptids # {}

\* HnswLoadElementFromTuple
LoadFromTuple(s) ==
  [tid |-> s, level |-> etup[s].level, version |-> etup[s].version,
   value |-> etup[s].value, live |-> etup[s].heaptids # {}]

\* The valid index TIDs at the front of a layer: readers stop at the first
\* invalid one.
ListPrefix(list, lm) ==
  {list[i] : i \in {k \in 1..lm : \A j \in 1..k : list[j] # NoTid}}

\* HnswSetNeighborTuple
NeighborLists(chosen) ==
  [lc \in Levels |-> [i \in 1..(2 * M) |->
     IF \E c \in chosen : c.lc = lc /\ c.i = i
       THEN (CHOOSE c \in chosen : c.lc = lc /\ c.i = i).nb.tid
       ELSE NoTid]]

\* Mutant: the walk over the pages stops one page early.
HasNextBlockShort(b) == \E s \in Slots : etup[s].used /\ PageOf[s] > b + 1

\* A page after block b has been linked into the chain.
HasNextBlock(b) == \E s \in Slots : etup[s].used /\ PageOf[s] > b

\* HnswUpdateMetaPageInfo with HNSW_UPDATE_ENTRY_GREATER
EntryIfGreater(e) == IF e.level > meta.level THEN e ELSE meta
-----------------------------------------------------------------------------
(***************************************************************************)
(* Page locks of the lock manager.                                         *)
(***************************************************************************)
CanShare(p) == \A q \in Writers \ {p} : lock[q] # "exclusive"

CanExclusive(p) == \A q \in Writers \ {p} : lock[q] = "none"

Init ==
  /\ row    = [t \in HeapTids |-> "free"]
  /\ rowval = [t \in HeapTids |-> Cleared]
  /\ etup   = [s \in Slots |-> [used |-> FALSE, deleted |-> FALSE, level |-> 0,
                 version |-> 1, heaptids |-> {}, value |-> Cleared]]
  /\ ntup   = [s \in Slots |-> [level |-> 0, version |-> 1, tids |-> EmptyLists]]
  /\ meta   = NoEntry
  /\ lock   = [p \in Procs |-> "none"]
  /\ pc     = [p \in Procs |-> "idle"]
  /\ job    = [p \in Writers |-> NoJob]
  /\ ep     = [p \in Procs |-> NoEntry]
  /\ srch   = [p \in Procs |-> NoSearch]
  /\ sel    = [p \in Writers |-> {}]
  /\ todo   = [p \in Writers |-> {}]
  /\ vac    = VacIdle
-----------------------------------------------------------------------------
(***************************************************************************)
(* HnswSearchLayer and HnswFindElementNeighbors.  A backend in "search"    *)
(* walks layer srch[p].lc: hnd are the elements loaded on this layer, exp  *)
(* those whose neighbors have been read, vis the TIDs already met and pend *)
(* the unvisited TIDs of the list read last, loaded one by one.            *)
(***************************************************************************)
Search(e) ==
  [lc |-> e.level, hnd |-> {}, exp |-> {}, vis |-> {e.tid}, pend |-> {e.tid}]

\* The element a repair must not link to itself.
Skip(p) == IF p = Vac THEN job[p].tid ELSE NoTid

\* The layer down to which only the nearest element is kept.
TargetLevel(p) ==
  IF p \in Scanners THEN 0
  ELSE IF job[p].level > ep[p].level THEN ep[p].level ELSE job[p].level

Ef(p) ==
  IF p \in Scanners
    THEN IF srch[p].lc > 0 THEN 1 ELSE EfSearch
    ELSE IF srch[p].lc > TargetLevel(p) THEN 1
         ELSE IF p = Vac THEN EfConstruction + 1 ELSE EfConstruction

\* CountElement
Counted(p) == {h \in srch[p].hnd : p = Vac => h.live}

\* Nothing is dropped from W, and no candidate is left unexplored, before more
\* than ef elements were counted.
Overflow(p) == Cardinality(Counted(p)) > Ef(p)

\* W holds ef elements from then on, one when ef is 0; elements a repair does
\* not count come on top.
Width(p) == IF Ef(p) = 0 THEN 1 ELSE Ef(p)

\* W at the end of the layer.
Nearest(p) ==
  IF ~Overflow(p) THEN {srch[p].hnd}
  ELSE {W \in SUBSET srch[p].hnd :
          \/ Cardinality(W) = Width(p)
          \/ p = Vac /\ Cardinality(W) > Width(p)}

\* RemoveElements
Selectable(p, W) == {h \in W : h.live /\ h.tid # Skip(p)}

\* SelectNeighbors: all the candidates, or as many as there is room for, in any
\* order.
Orders(c, room) ==
  UNION {{f \in [1..n -> c] : \A i, j \in 1..n : i # j => f[i] # f[j]} :
           n \in {k \in 0..room : IF k < room THEN Cardinality(c) = k ELSE Cardinality(c) >= k}}

\* AddConnections
Numbered(lc, f) == {[lc |-> lc, i |-> i, nb |-> f[i]] : i \in DOMAIN f}
Selections(p, W, lc) == {Numbered(lc, f) : f \in Orders(Selectable(p, W), LayerM(lc))}

\* HnswLoadElementImpl on an intact tuple.
LoadElement(p) ==
  /\ pc[p] = "search"
  /\ \E t \in srch[p].pend :
       /\ ~etup[t].deleted
       /\ srch' = [srch EXCEPT ![p].pend = @ \ {t},
                               ![p].hnd = IF etup[t].level < srch[p].lc THEN @
                                          ELSE @ \union {LoadFromTuple(t)}]
  /\ UNCHANGED <<row, rowval, etup, ntup, meta, lock, pc, job, ep, sel, todo, vac>>

\* The distance function rejects a cleared vector: the statement fails.
LoadFails(p) == pc[p] = "search" /\ \E t \in srch[p].pend : etup[t].deleted

\* HnswLoadUnvisitedFromDisk for one candidate, with the version and count
\* check of HnswLoadNeighborTids.
ReadNeighbors(p) ==
  /\ pc[p] = "search"
  /\ srch[p].pend = {}
  /\ \E h \in srch[p].hnd \ srch[p].exp :
       LET n    == ntup[h.tid]
           list == IF n.version = h.version /\ n.level = h.level
                     THEN ListPrefix(n.tids[srch[p].lc], LayerM(srch[p].lc))
                     ELSE {}
           new  == list \ srch[p].vis
       IN  srch' = [srch EXCEPT ![p].exp = @ \union {h}, ![p].pend = new,
                                ![p].vis = @ \union new]
  /\ UNCHANGED <<row, rowval, etup, ntup, meta, lock, pc, job, ep, sel, todo, vac>>

LayerDone(p) ==
  /\ pc[p] = "search"
  /\ srch[p].pend = {}
  /\ srch[p].exp = srch[p].hnd \/ Overflow(p)

\* The layer is finished and is not the last one: W is the entry for the next.
NextLayer(p) ==
  /\ LayerDone(p)
  /\ srch[p].lc > 0
  /\ \E W \in Nearest(p) :
       /\ srch' = [srch EXCEPT ![p] = [lc |-> srch[p].lc - 1, hnd |-> W, exp |-> {},
                                       vis |-> {h.tid : h \in W}, pend |-> {}]]
       /\ \/ /\ p \in Scanners \/ srch[p].lc > TargetLevel(p)
             /\ UNCHANGED sel
          \/ /\ p \in Writers /\ srch[p].lc <= TargetLevel(p)
             /\ \E q \in Selections(p, W, srch[p].lc) :
                  sel' = [sel EXCEPT ![p] = @ \union q]
  /\ UNCHANGED <<row, rowval, etup, ntup, meta, lock, pc, job, ep, todo, vac>>

\* Layer 0 is finished: the neighbors of the element are known.  An insert
\* tries those on layer 0 as duplicates next, a repair writes the list.
WriterSearchDone(p) ==
  /\ LayerDone(p)
  /\ srch[p].lc = 0
  /\ \E W \in Nearest(p) : \E q \in Selections(p, W, 0) :
       /\ sel'  = [sel EXCEPT ![p] = @ \union q]
       /\ todo' = [todo EXCEPT ![p] = q]
  /\ srch' = [srch EXCEPT ![p] = NoSearch]
  /\ pc'   = [pc EXCEPT ![p] = IF p = Vac THEN "rewrite" ELSE "add"]
  /\ UNCHANGED <<row, rowval, etup, ntup, meta, lock, job, ep, vac>>

\* What UnlockPage or an error leaves of a writer's private state.
Release(p) ==
  /\ lock' = [lock EXCEPT ![p] = "none"]
  /\ job'  = [job EXCEPT ![p] = NoJob]
  /\ ep'   = [ep EXCEPT ![p] = NoEntry]
  /\ srch' = [srch EXCEPT ![p] = NoSearch]
  /\ sel'  = [sel EXCEPT ![p] = {}]
  /\ todo' = [todo EXCEPT ![p] = {}]
-----------------------------------------------------------------------------
(***************************************************************************)
(* HnswUpdateNeighborsOnDisk: connect the neighbors of an inserted or      *)
(* repaired element back to it.                                            *)
(***************************************************************************)

\* Connections are made from the top layer down, nearest neighbor first.
IsNext(c, set) ==
  \A d \in set : c.lc > d.lc \/ (c.lc = d.lc /\ c.i <= d.i)

\* GetUpdateIndex: read, without keeping a lock, the neighbor's list.  A list
\* with room answers "free" (-2 in the code, 0 here); a full one the position
\* of the connection to prune, which loads and distances decide, or none when
\* it is the new element that is pruned.
GetUpdateIndex(p) ==
  /\ pc[p] = "connect"
  /\ \E c \in todo[p] :
       LET n    == ntup[c.nb.tid]
           full == /\ n.version = c.nb.version /\ n.level = c.nb.level
                   /\ \A i \in 1..LayerM(c.lc) : n.tids[c.lc][i] # NoTid
       IN  /\ IsNext(c, todo[p])
           /\ \/ /\ \E i \in IF full THEN 1..LayerM(c.lc) ELSE {0} :
                      job' = [job EXCEPT ![p].idx = i]
                 /\ pc' = [pc EXCEPT ![p] = "update"]
                 /\ UNCHANGED todo
              \/ /\ full
                 /\ todo' = [todo EXCEPT ![p] = @ \ {c}]
                 /\ UNCHANGED <<pc, job>>
  /\ UNCHANGED <<row, rowval, etup, ntup, meta, lock, ep, srch, sel, vac>>

\* The position UpdateNeighborOnDisk writes, if any, given what the tuple holds
\* by now.
UpdatePosition(list, lm, idx, new, checkExisting) ==
  IF checkExisting /\ new \in ListPrefix(list, lm) THEN {}
  ELSE IF idx # 0 THEN {idx}
  ELSE {i \in 1..lm : list[i] = NoTid /\ \A j \in 1..(i - 1) : list[j] # NoTid}

\* UpdateNeighborOnDisk
UpdateNeighbor(p) ==
  /\ pc[p] = "update"
  /\ \E c \in todo[p] :
       LET pos == UpdatePosition(ntup[c.nb.tid].tids[c.lc], LayerM(c.lc), job[p].idx,
                                 job[p].tid, p = Vac)
       IN  /\ IsNext(c, todo[p])
           /\ ntup' = [ntup EXCEPT ![c.nb.tid].tids[c.lc] =
                [i \in 1..(2 * M) |-> IF i \in pos THEN job[p].tid ELSE @[i]]]
           /\ todo' = [todo EXCEPT ![p] = @ \ {c}]
  /\ job' = [job EXCEPT ![p].idx = 0]
  /\ pc'  = [pc EXCEPT ![p] = "connect"]
  /\ UNCHANGED <<row, rowval, etup, meta, lock, ep, srch, sel, vac>>
-----------------------------------------------------------------------------
(***************************************************************************)
(* HnswInsertTupleOnDisk.                                                  *)
(***************************************************************************)

\* The heap row exists before its index entry is made.
InsertBegin(p) ==
  /\ pc[p] = "idle"
  /\ \E t \in HeapTids, v \in Values :
       /\ row[t] = "free"
       /\ row'    = [row EXCEPT ![t] = "inserting"]
       /\ rowval' = [rowval EXCEPT ![t] = v]
       /\ job'    = [job EXCEPT ![p].heaptid = t, ![p].value = v]
  /\ pc' = [pc EXCEPT ![p] = "lock"]
  /\ UNCHANGED <<etup, ntup, meta, lock, ep, srch, sel, todo, vac>>

\* Search from entry point e, or skip the search of an empty graph.
FindNeighbors(p, e) ==
  /\ ep'   = [ep EXCEPT ![p] = e]
  /\ srch' = [srch EXCEPT ![p] = IF e.tid = NoTid THEN NoSearch ELSE Search(e)]

\* Mutant: the share lock is kept whatever the level.
InsertLockShareOnly(p) ==
  /\ pc[p] = "lock"
  /\ CanShare(p)
  /\ \E l \in Levels : job' = [job EXCEPT ![p].level = l]
  /\ lock' = [lock EXCEPT ![p] = "share"]
  /\ FindNeighbors(p, meta)
  /\ pc' = [pc EXCEPT ![p] = IF meta.tid = NoTid THEN "add" ELSE "search"]
  /\ UNCHANGED <<row, rowval, etup, ntup, meta, sel, todo, vac>>

\* Mutant: the share lock is kept while waiting for the exclusive one.
InsertLockUpgrade(p) ==
  /\ pc[p] = "lock"
  /\ CanShare(p)
  /\ lock' = [lock EXCEPT ![p] = "share"]
  /\ \E l \in Levels :
       /\ job' = [job EXCEPT ![p].level = l]
       /\ \/ /\ l > meta.level
             /\ pc' = [pc EXCEPT ![p] = "lockx"]
             /\ UNCHANGED <<ep, srch>>
          \/ /\ l <= meta.level
             /\ FindNeighbors(p, meta)
             /\ pc' = [pc EXCEPT ![p] = "search"]
  /\ UNCHANGED <<row, rowval, etup, ntup, meta, sel, todo, vac>>

\* Mutant: the share lock is given back as soon as the metapage has been read.
InsertLockDropped(p) ==
  /\ pc[p] = "lock"
  /\ CanShare(p)
  /\ \E l \in Levels :
       /\ job' = [job EXCEPT ![p].level = l]
       /\ \/ /\ l > meta.level
             /\ pc' = [pc EXCEPT ![p] = "lockx"]
             /\ UNCHANGED <<ep, srch>>
          \/ /\ l <= meta.level
             /\ FindNeighbors(p, meta)
             /\ pc' = [pc EXCEPT ![p] = "search"]
  /\ UNCHANGED <<row, rowval, etup, ntup, meta, lock, sel, todo, vac>>

\* Share lock, metapage, level; an insert that will replace the entry point
\* gives the lock back to take it exclusively.
InsertLock(p) ==
  /\ pc[p] = "lock"
  /\ CanShare(p)
  /\ \E l \in Levels :
       /\ job' = [job EXCEPT ![p].level = l]
       /\ \/ /\ l > meta.level
             /\ pc' = [pc EXCEPT ![p] = "lockx"]
             /\ UNCHANGED <<lock, ep, srch>>
          \/ /\ l <= meta.level
             /\ lock' = [lock EXCEPT ![p] = "share"]
             /\ FindNeighbors(p, meta)
             /\ pc' = [pc EXCEPT ![p] = "search"]
  /\ UNCHANGED <<row, rowval, etup, ntup, meta, sel, todo, vac>>

InsertLockExclusive(p) ==
  /\ pc[p] = "lockx"
  /\ CanExclusive(p)
  /\ lock' = [lock EXCEPT ![p] = "exclusive"]
  /\ FindNeighbors(p, meta)
  /\ pc' = [pc EXCEPT ![p] = IF meta.tid = NoTid THEN "add" ELSE "search"]
  /\ UNCHANGED <<row, rowval, etup, ntup, meta, job, sel, todo, vac>>

\* AddDuplicateOnDisk: the row joins an element of the same value, unless that
\* element is being deleted or full; then the next one is tried.
AddDuplicate(p) ==
  /\ pc[p] = "add"
  /\ \E c \in todo[p] :
       /\ IsNext(c, todo[p])
       /\ c.nb.value = job[p].value
       /\ LET n == Cardinality(etup[c.nb.tid].heaptids) IN
          \/ /\ n \notin {0, HeapTidsMax}
             /\ etup' = [etup EXCEPT ![c.nb.tid].heaptids = @ \union {job[p].heaptid}]
             /\ pc'   = [pc EXCEPT ![p] = "finish"]
             /\ UNCHANGED todo
          \/ /\ n \in {0, HeapTidsMax}
             /\ todo' = [todo EXCEPT ![p] = @ \ {c}]
             /\ UNCHANGED <<etup, pc>>
  /\ UNCHANGED <<row, rowval, ntup, meta, lock, job, ep, srch, sel, vac>>

\* Where AddElementOnDisk may put an element: a new item on an existing page
\* or on the page it appends, or the place of a deleted element.  Which one
\* depends on sizes and on the insert page, which the model does not keep.
FreeSlot(s) ==
  \/ etup[s].used /\ etup[s].deleted
  \/ /\ ~etup[s].used
     /\ PageOf[s] = 1 \/ \E o \in Slots : etup[o].used /\ PageOf[o] >= PageOf[s] - 1
     /\ \A o \in Slots : PageOf[o] = PageOf[s] /\ o < s => etup[o].used

\* AddElementOnDisk, when FindDuplicateOnDisk found none: a reused place keeps
\* its version.
AddElement(p) ==
  /\ pc[p] = "add"
  /\ \A c \in todo[p] : IsNext(c, todo[p]) => c.nb.value # job[p].value
  /\ \E s \in Slots :
       LET version == IF etup[s].used THEN etup[s].version ELSE 1 IN
       /\ FreeSlot(s)
       /\ etup' = [etup EXCEPT ![s] =
            [used |-> TRUE, deleted |-> FALSE, level |-> job[p].level,
             version |-> version, heaptids |-> {job[p].heaptid}, value |-> job[p].value]]
       /\ ntup' = [ntup EXCEPT ![s] = [level |-> job[p].level, version |-> version,
                                       tids |-> NeighborLists(sel[p])]]
       /\ job' = [job EXCEPT ![p].tid = s, ![p].version = version]
  /\ todo' = [todo EXCEPT ![p] = sel[p]]
  /\ pc'   = [pc EXCEPT ![p] = "connect"]
  /\ UNCHANGED <<row, rowval, meta, lock, ep, srch, sel, vac>>

\* The last step of UpdateGraphOnDisk, then UnlockPage.
InsertFinish(p) ==
  /\ p \in Inserters
  /\ pc[p] = "finish" \/ (pc[p] = "connect" /\ todo[p] = {})
  /\ meta' = IF pc[p] = "connect" /\ job[p].level > ep[p].level
               THEN EntryIfGreater([tid |-> job[p].tid, level |-> job[p].level])
               ELSE meta
  /\ row' = [row EXCEPT ![job[p].heaptid] = "live"]
  /\ pc'  = [pc EXCEPT ![p] = "idle"]
  /\ Release(p)
  /\ UNCHANGED <<rowval, etup, ntup, vac>>

\* An error or a cancelled query: the row's transaction is rolled back, what
\* reached the index stays there.
InsertAbort(p) ==
  /\ pc[p] # "idle"
  /\ row' = [row EXCEPT ![job[p].heaptid] = "dead"]
  /\ pc'  = [pc EXCEPT ![p] = "idle"]
  /\ Release(p)
  /\ UNCHANGED <<rowval, etup, ntup, meta, vac>>

\* DELETE or UPDATE of a committed row, once no snapshot needs it any more.
DeleteRow(t) ==
  /\ row[t] = "live"
  /\ row' = [row EXCEPT ![t] = "dead"]
  /\ UNCHANGED <<rowval, etup, ntup, meta, lock, pc, job, ep, srch, sel, todo, vac>>
-----------------------------------------------------------------------------
(***************************************************************************)
(* hnswgettuple, first call: GetScanItems under a share HNSW_SCAN_LOCK.    *)
(***************************************************************************)
ScanBegin(p) ==
  /\ pc[p] = "idle"
  /\ meta.tid # NoTid
  /\ lock' = [lock EXCEPT ![p] = "share"]
  /\ FindNeighbors(p, meta)
  /\ pc' = [pc EXCEPT ![p] = "search"]
  /\ UNCHANGED <<row, rowval, etup, ntup, meta, job, sel, todo, vac>>

EndScan(p) ==
  /\ lock' = [lock EXCEPT ![p] = "none"]
  /\ ep'   = [ep EXCEPT ![p] = NoEntry]
  /\ srch' = [srch EXCEPT ![p] = NoSearch]
  /\ pc'   = [pc EXCEPT ![p] = "idle"]
  /\ UNCHANGED <<row, rowval, etup, ntup, meta, job, sel, todo, vac>>

ScanDone(p)  == LayerDone(p) /\ srch[p].lc = 0 /\ EndScan(p)
ScanAbort(p) == pc[p] = "search" /\ EndScan(p)
-----------------------------------------------------------------------------
(***************************************************************************)
(* hnswbulkdelete.                                                         *)
(***************************************************************************)

\* VACUUM has collected the dead rows; RemoveHeapTids reads the entry point.
VacuumBegin ==
  /\ pc[Vac] = "idle"
  /\ \E t \in HeapTids : row[t] = "dead"
  /\ vac' = [VacIdle EXCEPT !.dead = {t \in HeapTids : row[t] = "dead"}, !.entry = meta.tid]
  /\ pc'  = [pc EXCEPT ![Vac] = "remove"]
  /\ UNCHANGED <<row, rowval, etup, ntup, meta, lock, job, ep, srch, sel, todo>>

\* Mutant: places already free are not listed as deleted.
OnPageInUse(s) == etup[s].used /\ ~etup[s].deleted /\ PageOf[s] = vac.blk

OnPage(s) == etup[s].used /\ PageOf[s] = vac.blk

\* Mutant: one dead row takes the whole element with it.
RemainingNone(s) ==
  IF etup[s].heaptids \intersect vac.dead = {} THEN etup[s].heaptids ELSE {}

Remaining(s) == etup[s].heaptids \ vac.dead

\* Mutant: an element about to be deleted can become the highest point.
CandidatesEmptied == {s \in Slots : OnPage(s) /\ s # vac.entry
                                    /\ etup[s].level > vac.high.level}

\* Elements of the page that could take over from the entry point.
Candidates == {s \in Slots : OnPage(s) /\ Remaining(s) # {} /\ s # vac.entry
                             /\ etup[s].level > vac.high.level}

IsHighest(s) == \A o \in Candidates :
  etup[s].level > etup[o].level \/ (etup[s].level = etup[o].level /\ s <= o)

\* The highest point after this page (a single one).
HighestPoints ==
  IF Candidates = {} THEN {vac.high}
  ELSE {[tid |-> s, level |-> etup[s].level] : s \in {o \in Candidates : IsHighest(o)}}

\* RemoveHeapTids, one page.
RemoveHeapTids ==
  /\ pc[Vac] = "remove"
  /\ etup' = [s \in Slots |-> IF OnPage(s) THEN [etup[s] EXCEPT !.heaptids = Remaining(s)]
                              ELSE etup[s]]
  /\ \E h \in HighestPoints :
       vac' = [vac EXCEPT !.deleted = @ \union {s \in Slots : OnPage(s) /\ Remaining(s) = {}},
                          !.high = h,
                          !.blk = @ + 1]
  /\ pc' = [pc EXCEPT ![Vac] = IF HasNextBlock(vac.blk) THEN "remove" ELSE "barrier"]
  /\ UNCHANGED <<row, rowval, ntup, meta, lock, job, ep, srch, sel, todo>>

\* RepairGraph: wait for inserts that may have selected elements being deleted.
WaitForInserts ==
  /\ pc[Vac] = "barrier"
  /\ CanExclusive(Vac)
  /\ pc' = [pc EXCEPT ![Vac] = "high"]
  /\ UNCHANGED <<row, rowval, etup, ntup, meta, lock, job, ep, srch, sel, todo, vac>>

\* Mutant: only the room on layer 0 is looked at.
NeedsUpdatedIfRoom(s) == ntup[s].tids[0][LayerM(0)] = NoTid

\* A neighbor of s is on the list of deleted elements, or layer 0 has room.
NeedsUpdated(s) ==
  \/ \E lc \in 0..ntup[s].level : \E i \in 1..LayerM(lc) :
       ntup[s].tids[lc][i] \in vac.deleted
  \/ ntup[s].tids[0][LayerM(0)] = NoTid

\* RepairGraphElement up to the search; nothing is done for the entry point.
RepairElement(e, entry, stage, mode) ==
  LET searches == entry.tid \notin {e.tid, NoTid} IN
  /\ vac'  = [vac EXCEPT !.stage = stage]
  /\ job'  = [job EXCEPT ![Vac] = [NoJob EXCEPT !.tid = e.tid, !.level = e.level,
                                     !.version = e.version, !.value = e.value]]
  /\ lock' = [lock EXCEPT ![Vac] = mode]
  /\ ep'   = [ep EXCEPT ![Vac] = entry]
  /\ srch' = [srch EXCEPT ![Vac] = IF searches THEN Search(entry) ELSE NoSearch]
  /\ pc'   = [pc EXCEPT ![Vac] = IF searches THEN "search"
                                 ELSE IF e.tid = entry.tid THEN "repaired" ELSE "rewrite"]

\* RepairGraphEntryPoint, first half: repair the highest non-entry point.
RepairHighestPoint ==
  /\ pc[Vac] = "high"
  /\ vac.high.tid # NoTid => CanShare(Vac)
  /\ IF vac.high.tid # NoTid /\ NeedsUpdated(vac.high.tid)
       THEN RepairElement(LoadFromTuple(vac.high.tid), meta, "high", "share")
       ELSE pc' = [pc EXCEPT ![Vac] = "entry"] /\ UNCHANGED <<vac, job, lock, ep, srch>>
  /\ UNCHANGED <<row, rowval, etup, ntup, meta, sel, todo>>

\* RepairGraphEntryPoint, second half: replace an entry point being deleted
\* with the highest point, repair any other from the highest point.
RepairEntryPoint ==
  /\ pc[Vac] = "entry"
  /\ CanExclusive(Vac)
  /\ IF meta.tid # NoTid /\ meta.tid \notin vac.deleted /\ NeedsUpdated(meta.tid)
       THEN /\ RepairElement(LoadFromTuple(meta.tid), vac.high, "entry", "exclusive")
            /\ UNCHANGED meta
       ELSE /\ meta' = IF meta.tid \in vac.deleted THEN vac.high ELSE meta
            /\ vac' = [vac EXCEPT !.blk = 1]
            /\ pc' = [pc EXCEPT ![Vac] = "load"]
            /\ UNCHANGED <<job, lock, ep, srch>>
  /\ UNCHANGED <<row, rowval, etup, ntup, sel, todo>>

\* Mutant: the loop does not go on to the next page.
LoadPageAgain ==
  /\ pc[Vac] = "load"
  /\ vac' = [vac EXCEPT !.queue = {LoadFromTuple(s) : s \in {o \in Slots : OnPage(o) /\ Alive(o)}},
                        !.more = HasNextBlock(vac.blk)]
  /\ pc' = [pc EXCEPT ![Vac] = "check"]
  /\ UNCHANGED <<row, rowval, etup, ntup, meta, lock, job, ep, srch, sel, todo>>

\* RepairGraph's loop: load the elements of a page that are not being deleted.
LoadPage ==
  /\ pc[Vac] = "load"
  /\ vac' = [vac EXCEPT !.queue = {LoadFromTuple(s) : s \in {o \in Slots : OnPage(o) /\ Alive(o)}},
                        !.more = HasNextBlock(vac.blk),
                        !.blk = @ + 1]
  /\ pc' = [pc EXCEPT ![Vac] = "check"]
  /\ UNCHANGED <<row, rowval, etup, ntup, meta, lock, job, ep, srch, sel, todo>>

IsFirstLoaded(e) == e \in vac.queue /\ \A o \in vac.queue : e.tid <= o.tid

\* Does the next element of the page need a repair?
CheckElement ==
  /\ pc[Vac] = "check"
  /\ \E e \in vac.queue :
       /\ IsFirstLoaded(e)
       /\ IF NeedsUpdated(e.tid)
            THEN pc' = [pc EXCEPT ![Vac] = "rlock"] /\ UNCHANGED vac
            ELSE vac' = [vac EXCEPT !.queue = @ \ {e}] /\ UNCHANGED pc
  /\ UNCHANGED <<row, rowval, etup, ntup, meta, lock, job, ep, srch, sel, todo>>

PageRepaired ==
  /\ pc[Vac] = "check"
  /\ vac.queue = {}
  /\ pc' = [pc EXCEPT ![Vac] = IF vac.more THEN "load" ELSE "scans"]
  /\ UNCHANGED <<row, rowval, etup, ntup, meta, lock, job, ep, srch, sel, todo, vac>>

\* Share lock and entry point; an element that would become the entry point is
\* repaired under the exclusive lock.
RepairLock ==
  /\ pc[Vac] = "rlock"
  /\ CanShare(Vac)
  /\ \E e \in vac.queue :
       /\ IsFirstLoaded(e)
       /\ IF e.level > meta.level
            THEN pc' = [pc EXCEPT ![Vac] = "rlockx"] /\ UNCHANGED <<vac, job, lock, ep, srch>>
            ELSE RepairElement(e, meta, "element", "share")
  /\ UNCHANGED <<row, rowval, etup, ntup, meta, sel, todo>>

RepairLockExclusive ==
  /\ pc[Vac] = "rlockx"
  /\ CanExclusive(Vac)
  /\ \E e \in vac.queue : IsFirstLoaded(e) /\ RepairElement(e, meta, "element", "exclusive")
  /\ UNCHANGED <<row, rowval, etup, ntup, meta, sel, todo>>

\* RepairGraphElement overwrites the whole neighbor tuple.
RewriteNeighbors ==
  /\ pc[Vac] = "rewrite"
  /\ ntup' = [ntup EXCEPT ![job[Vac].tid] =
       [level |-> job[Vac].level, version |-> job[Vac].version,
        tids |-> NeighborLists(sel[Vac])]]
  /\ todo' = [todo EXCEPT ![Vac] = sel[Vac]]
  /\ pc'   = [pc EXCEPT ![Vac] = "connect"]
  /\ UNCHANGED <<row, rowval, etup, meta, lock, job, ep, srch, sel, vac>>

\* The repair of an element is over: an element of the loop above the entry
\* point becomes the entry point; the lock is released.
RepairDone ==
  /\ pc[Vac] = "repaired" \/ (pc[Vac] = "connect" /\ todo[Vac] = {})
  /\ meta' = IF vac.stage = "element" /\ job[Vac].level > ep[Vac].level
               THEN EntryIfGreater([tid |-> job[Vac].tid, level |-> job[Vac].level])
               ELSE meta
  /\ vac' = [vac EXCEPT !.stage = "none",
                        !.blk = IF vac.stage = "entry" THEN 1 ELSE @,
                        !.queue = {e \in @ : e.tid # job[Vac].tid}]
  /\ pc' = [pc EXCEPT ![Vac] = CASE vac.stage = "high" -> "entry"
                                 [] vac.stage = "entry" -> "load"
                                 [] OTHER -> "check"]
  /\ Release(Vac)
  /\ UNCHANGED <<row, rowval, etup, ntup>>

\* Mutant: MarkDeleted does not wait.
WaitForNoScan ==
  /\ pc[Vac] = "scans"
  /\ pc'  = [pc EXCEPT ![Vac] = "mark"]
  /\ vac' = [vac EXCEPT !.blk = 1]
  /\ UNCHANGED <<row, rowval, etup, ntup, meta, lock, job, ep, srch, sel, todo>>

\* MarkDeleted: wait for the scans that may hold elements being deleted.
WaitForScans ==
  /\ pc[Vac] = "scans"
  /\ \A p \in Scanners : lock[p] = "none"
  /\ pc'  = [pc EXCEPT ![Vac] = "mark"]
  /\ vac' = [vac EXCEPT !.blk = 1]
  /\ UNCHANGED <<row, rowval, etup, ntup, meta, lock, job, ep, srch, sel, todo>>

\* Mutant: the version is not wrapped.
NextVersionUnwrapped(v) == v + 1

NextVersion(v) == IF v + 1 > VersionMax THEN 1 ELSE v + 1
ToDelete(s) == OnPage(s) /\ ~etup[s].deleted /\ etup[s].heaptids = {}

\* MarkDeleted, one page: both tuples of an element are cleared together.
MarkDeleted ==
  /\ pc[Vac] = "mark"
  /\ etup' = [s \in Slots |-> IF ToDelete(s)
       THEN [etup[s] EXCEPT !.deleted = TRUE, !.value = Cleared,
                            !.version = NextVersion(etup[s].version)]
       ELSE etup[s]]
  /\ ntup' = [s \in Slots |-> IF ToDelete(s)
       THEN [ntup[s] EXCEPT !.tids = EmptyLists, !.version = NextVersion(etup[s].version)]
       ELSE ntup[s]]
  /\ vac' = [vac EXCEPT !.blk = @ + 1]
  /\ pc'  = [pc EXCEPT ![Vac] = IF HasNextBlock(vac.blk) THEN "mark" ELSE "done"]
  /\ UNCHANGED <<row, rowval, meta, lock, job, ep, srch, sel, todo>>

\* VACUUM returns to the heap and frees the dead rows' TIDs.
VacuumFinish ==
  /\ pc[Vac] = "done"
  /\ row' = [t \in HeapTids |-> IF t \in vac.dead THEN "free" ELSE row[t]]
  /\ rowval' = [t \in HeapTids |-> IF t \in vac.dead THEN Cleared ELSE rowval[t]]
  /\ vac' = VacIdle
  /\ pc'  = [pc EXCEPT ![Vac] = "idle"]
  /\ UNCHANGED <<etup, ntup, meta, lock, job, ep, srch, sel, todo>>

\* VACUUM is cancelled or fails: the dead rows are left to the next one.
VacuumAbort ==
  /\ pc[Vac] # "idle"
  /\ vac' = VacIdle
  /\ pc'  = [pc EXCEPT ![Vac] = "idle"]
  /\ Release(Vac)
  /\ UNCHANGED <<row, rowval, etup, ntup, meta>>
-----------------------------------------------------------------------------
WalkGraph(p) == LoadElement(p) \/ ReadNeighbors(p) \/ NextLayer(p)
Connect(p)   == WriterSearchDone(p) \/ GetUpdateIndex(p) \/ UpdateNeighbor(p)

InsertStep(p) ==
  \/ WalkGraph(p) \/ Connect(p)
  \/ InsertLock(p) \/ InsertLockExclusive(p)
  \/ AddDuplicate(p) \/ AddElement(p) \/ InsertFinish(p)
  \/ LoadFails(p) /\ InsertAbort(p)

ScanStep(p) ==
  \/ WalkGraph(p) \/ ScanDone(p)
  \/ LoadFails(p) /\ ScanAbort(p)

RepairGraph ==
  \/ WaitForInserts \/ RepairHighestPoint \/ RepairEntryPoint
  \/ LoadPage \/ CheckElement \/ PageRepaired
  \/ RepairLock \/ RepairLockExclusive \/ RewriteNeighbors \/ RepairDone

VacuumStep ==
  \/ RemoveHeapTids \/ RepairGraph \/ WaitForScans \/ MarkDeleted \/ VacuumFinish
  \/ WalkGraph(Vac) \/ Connect(Vac)
  \/ LoadFails(Vac) /\ VacuumAbort

Next ==
  \/ \E p \in Inserters : InsertBegin(p) \/ InsertStep(p) \/ InsertAbort(p)
  \/ \E p \in Scanners : ScanBegin(p) \/ ScanStep(p) \/ ScanAbort(p)
  \/ \E t \in HeapTids : DeleteRow(t)
  \/ VacuumBegin \/ VacuumStep \/ VacuumAbort

Spec == Init /\ [][Next]_vars

\* A backend that can run does run, and the lock manager's wait queue lets every
\* waiter through in the end.
Fairness ==
  /\ \A p \in Inserters : /\ WF_vars(InsertStep(p))
                          /\ SF_vars(InsertLock(p))
                          /\ SF_vars(InsertLockExclusive(p))
  /\ \A p \in Scanners : WF_vars(ScanStep(p))
  /\ WF_vars(VacuumStep)
  /\ SF_vars(WaitForInserts)
  /\ SF_vars(RepairHighestPoint)
  /\ SF_vars(RepairEntryPoint)
  /\ SF_vars(RepairLock)
  /\ SF_vars(RepairLockExclusive)
  /\ SF_vars(WaitForScans)

FairSpec == Spec /\ Fairness
-----------------------------------------------------------------------------
(***************************************************************************)
(* Properties.                                                             *)
(***************************************************************************)
Job == [tid : Tids0, level : Levels, version : 1..VersionMax,
        heaptid : HeapTids \union {NoTid}, value : Values \union {Cleared},
        idx : 0..(2 * M)]
SearchState == [lc : Levels, hnd : SUBSET Element, exp : SUBSET Element,
                vis : SUBSET Slots, pend : SUBSET Slots]
VacState == [dead : SUBSET HeapTids, entry : Tids0, deleted : SUBSET Slots,
             high : Entry, blk : Nat \ {0}, queue : SUBSET Element, more : BOOLEAN,
             stage : {"none", "high", "entry", "element"}]
InsertPc == {"idle", "lock", "lockx", "search", "add", "connect", "update", "finish"}
VacuumPc == {"idle", "remove", "barrier", "high", "entry", "load", "check", "rlock",
             "rlockx", "search", "rewrite", "connect", "update", "repaired",
             "scans", "mark", "done"}

\* A backend at work knows its row, and the element it has added or repairs.
JobsNamed ==
  /\ \A p \in Inserters : pc[p] # "idle" => job[p].heaptid \in HeapTids
  /\ \A p \in Inserters : pc[p] \in {"connect", "update"} => job[p].tid \in Slots
  /\ vac.stage # "none" => job[Vac].tid \in Slots

\* Every variable keeps its type: tuples on the pages and loaded elements are
\* well formed, and no backend reaches a step of another kind of backend.
TypeOK ==
  /\ row \in [HeapTids -> {"free", "inserting", "live", "dead"}]
  /\ rowval \in [HeapTids -> Values \union {Cleared}]
  /\ etup \in [Slots -> ElementTuple]
  /\ ntup \in [Slots -> NeighborTuple]
  /\ meta \in Entry
  /\ lock \in [Procs -> {"none", "share", "exclusive"}]
  /\ pc \in [Procs -> InsertPc \union VacuumPc]
  /\ \A p \in Inserters : pc[p] \in InsertPc
  /\ \A p \in Scanners : pc[p] \in {"idle", "search"}
  /\ pc[Vac] \in VacuumPc
  /\ job \in [Writers -> Job]
  /\ ep \in [Procs -> Entry]
  /\ srch \in [Procs -> SearchState]
  /\ sel \in [Writers -> SUBSET Connection]
  /\ todo \in [Writers -> SUBSET Connection]
  /\ vac \in VacState
  /\ JobsNamed

\* The metapage always names an element that exists, has not been reclaimed and
\* has the level the metapage says, whatever inserts and VACUUM, finished or
\* cancelled anywhere, did to it (HnswGetEntryPoint's callers load it blindly).
EntryPointValid ==
  IF meta.tid = NoTid THEN meta.level = -1
  ELSE /\ etup[meta.tid].used
       /\ ~etup[meta.tid].deleted
       /\ etup[meta.tid].level = meta.level

\* A row's TID is in at most one element, an element that carries the row's own
\* vector: AddDuplicateOnDisk never checks the value again under its lock, so
\* this rests on the element not having been reclaimed and reused meanwhile.
RowsUnderTheirValue ==
  \A s, o \in Slots : \A t \in etup[s].heaptids :
    /\ etup[s].value = rowval[t]
    /\ t \in etup[o].heaptids => o = s

\* A committed row is in the index: no duplicate merge into an element that
\* VACUUM empties, no reuse of a place and no repair loses it.
LiveRowsIndexed ==
  \A t \in HeapTids : row[t] = "live" => \E s \in Slots : t \in etup[s].heaptids

\* Once VACUUM gave a heap TID back, no element holds it: a new row at that TID
\* is never found under an old vector.
FreedRowsNotIndexed ==
  \A t \in HeapTids : row[t] = "free" => \A s \in Slots : t \notin etup[s].heaptids

\* A scan never loads an element whose tuple MarkDeleted has cleared (the
\* distance function fails on it): "Scans after this point will not [contain
\* tuples about to be deleted], since the graph has been repaired."
ScansLoadIntactElements ==
  \A p \in Scanners : \A t \in srch[p].pend : ~etup[t].deleted

\* The same for the search of an insert.
InsertsLoadIntactElements ==
  \A p \in Inserters : \A t \in srch[p].pend : ~etup[t].deleted

\* The element a writer goes back to after its search (to add a row to it or to
\* connect it) is still the element it loaded: the update lock keeps VACUUM from
\* reclaiming it in between.
TargetsNotReclaimed ==
  \A p \in Writers : \A c \in todo[p] :
    /\ etup[c.nb.tid].used /\ ~etup[c.nb.tid].deleted
    /\ etup[c.nb.tid].version = c.nb.version
    /\ etup[c.nb.tid].value = c.nb.value
    /\ etup[c.nb.tid].level = c.nb.level

\* No element that holds a row has a connection to a reclaimed place.
LinksIntact ==
  \A s \in Slots : Alive(s) =>
    \A lc \in 0..ntup[s].level : \A i \in 1..LayerM(lc) :
      ntup[s].tids[lc][i] # NoTid => ~etup[ntup[s].tids[lc][i]].deleted

\* "If highest point is outdated and empty, the entry point will be empty until an
\* element is repaired": VACUUM, which left the index without an entry point, ends
\* with one if the index holds a row, but for those being inserted.
EntryRestored ==
  pc[Vac] = "done" /\ meta.tid = NoTid =>
    \A s \in Slots : Alive(s) => \E p \in Inserters : job[p].tid = s

\* Whoever changes the entry point is the only writer that holds the update
\* lock, so what a writer read from the metapage stays true while it holds it.
EntryChangesAlone ==
  [][meta' # meta => \E p \in Writers : \A q \in Writers \ {p} : lock[q] = "none"]_vars

\* A VACUUM that has begun ends: its walks over a chain that grows under them,
\* its repairs and its waits for inserts and scans are all finite.
VacuumTerminates == pc[Vac] # "idle" ~> pc[Vac] = "idle"

\* An insert ends, whatever VACUUM does meanwhile: nobody waits in a circle for
\* the update lock, which an insert and a repair give up to take it again.
InsertTerminates == \A p \in Inserters : pc[p] # "idle" ~> pc[p] = "idle"
-----------------------------------------------------------------------------
(***************************************************************************)
(* What all this amounts to for the table: the entries of the abstract     *)
(* index are the rows of the element tuples, under the tuples' vectors.    *)
(***************************************************************************)
Entries == {x \in HeapTids \X (Values \union {Cleared}) :
              \E s \in Slots : x[1] \in etup[s].heaptids /\ x[2] = etup[s].value}

Rows == INSTANCE RowIndex WITH entries <- Entries

\* The graph, with its merges, repairs and reused places, under any interleaving
\* of inserts, scans and VACUUM and with any of them cancelled anywhere,
\* implements the plain set of entries: aminsert makes one entry per row under
\* the row's vector before it commits, ambulkdelete removes entries of dead rows
\* only, and has removed them all when the TIDs are given back.
ImplementsRowIndex == Rows!Spec
-----------------------------------------------------------------------------
(***************************************************************************)
(* The inductive invariant behind EntryPointValid, LiveRowsIndexed,        *)
(* FreedRowsNotIndexed and EntryChangesAlone.                              *)
(***************************************************************************)
RepairPc == {"search", "rewrite", "connect", "update", "repaired"}

\* Inserts in progress have different rows, none of them a row VACUUM removes.
RowsOwned ==
  /\ \A p \in Inserters : pc[p] # "idle" => row[job[p].heaptid] = "inserting"
  /\ \A p, q \in Inserters :
       p # q /\ pc[p] # "idle" /\ pc[q] # "idle" => job[p].heaptid # job[q].heaptid
  /\ \A t \in vac.dead : row[t] = "dead"

\* A place AddElementOnDisk may take holds no row.
FreePlacesEmpty ==
  \A s \in Slots : etup[s].heaptids # {} => etup[s].used /\ ~etup[s].deleted

\* What an insert wrote is still there when it connects and finishes.
InsertsIndexed ==
  \A p \in Inserters :
    /\ pc[p] \in {"connect", "update"} =>
         /\ job[p].heaptid \in etup[job[p].tid].heaptids
         /\ etup[job[p].tid].level = job[p].level
    /\ pc[p] = "finish" => \E s \in Slots : job[p].heaptid \in etup[s].heaptids

\* The highest point and the elements loaded for repair outlive the VACUUM.
VacuumTracks ==
  /\ vac.stage # "none" <=> pc[Vac] \in RepairPc
  /\ pc[Vac] = "remove" => vac.queue = {}
  /\ vac.high.tid # NoTid => /\ etup[vac.high.tid].level = vac.high.level
                             /\ Remaining(vac.high.tid) # {}
  /\ \A e \in vac.queue : etup[e.tid].heaptids # {} /\ etup[e.tid].level = e.level
  /\ vac.stage = "element" => /\ etup[job[Vac].tid].heaptids # {}
                              /\ etup[job[Vac].tid].level = job[Vac].level

\* Behind RemoveHeapTids no dead row is left, and empty elements are listed.
Swept(s) ==
  /\ etup[s].heaptids \intersect vac.dead = {}
  /\ etup[s].heaptids = {} => s \in vac.deleted
VacuumSweeps ==
  /\ pc[Vac] = "remove" =>
       \A s \in Slots : etup[s].used /\ PageOf[s] < vac.blk => Swept(s)
  /\ pc[Vac] \notin {"idle", "remove"} => \A s \in Slots : etup[s].used => Swept(s)

\* From RepairGraphEntryPoint on, the entry point is not one to be deleted.
EntryHeld ==
  /\ \/ pc[Vac] \in {"load", "check", "rlock", "rlockx", "scans", "mark"}
     \/ vac.stage \in {"entry", "element"}
  /\ meta.tid # NoTid
  => etup[meta.tid].heaptids # {}

\* The update lock excludes, and who will replace the entry point holds it
\* exclusively.
UpdateLockHeld ==
  /\ \A p, q \in Writers : p # q /\ lock[p] = "exclusive" => lock[q] = "none"
  /\ \A p \in Inserters : pc[p] \in {"search", "add", "connect", "update"} =>
       lock[p] = "exclusive" \/ job[p].level <= ep[p].level
  /\ vac.stage = "element" => lock[Vac] = "exclusive" \/ job[Vac].level <= ep[Vac].level

\* All of it together: the invariant every step keeps.
IndexInv ==
  /\ TypeOK
  /\ EntryPointValid /\ LiveRowsIndexed /\ FreedRowsNotIndexed
  /\ RowsOwned /\ FreePlacesEmpty /\ InsertsIndexed
  /\ VacuumTracks /\ VacuumSweeps /\ EntryHeld /\ UpdateLockHeld
-----------------------------------------------------------------------------
(***************************************************************************)
(* The inductive invariant behind TargetsNotReclaimed, RowsUnderTheirValue *)
(* and ImplementsRowIndex, on top of IndexInv.                             *)
(***************************************************************************)

\* The elements a writer may still add a row to or connect.
Held(p) == {h \in srch[p].hnd : h.live} \union {c.nb : c \in sel[p] \union todo[p]}

\* The tuple is the one the element was loaded from.
SameElement(h) ==
  /\ etup[h.tid].used /\ ~etup[h.tid].deleted
  /\ etup[h.tid].version = h.version
  /\ etup[h.tid].value = h.value
  /\ etup[h.tid].level = h.level

\* They are not reclaimed; once VACUUM has waited for the inserts, they are not
\* even among the elements it has emptied.
PastBarrier == pc[Vac] \notin {"idle", "remove", "barrier"}
TargetsHeld ==
  \A p \in Writers : \A h \in Held(p) :
    SameElement(h) /\ (PastBarrier => etup[h.tid].heaptids # {})

\* Who holds elements holds the update lock, so VACUUM's wait sees it.
HoldersLock ==
  /\ \A p \in Writers : lock[p] = "none" => Held(p) = {} /\ pc[p] # "search"
  /\ pc[Vac] \notin RepairPc => lock[Vac] = "none"

\* An insert has its row's vector, and writes its TID once.
InsertsOwnRow ==
  \A p \in Inserters :
    /\ pc[p] # "idle" => job[p].value \in Values /\ rowval[job[p].heaptid] = job[p].value
    /\ pc[p] \in {"lock", "lockx", "search", "add"} =>
         \A s \in Slots : job[p].heaptid \notin etup[s].heaptids

\* All of it together: the invariant every step keeps.
EntriesInv ==
  IndexInv /\ RowsUnderTheirValue /\ TargetsHeld /\ HoldersLock /\ InsertsOwnRow
=============================================================================
