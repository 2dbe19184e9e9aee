----------------------------- MODULE HnswBuild -----------------------------
(***************************************************************************)
(* CREATE INDEX (hnswbuild.c): the leader and the workers it launches scan *)
(* the heap together and insert into one graph in shared memory, until the *)
(* memory is used up; the graph is then written to the index once, and     *)
(* the remaining rows are inserted on disk.  That is one step here, which  *)
(* the participants take in any order (HnswIndex models the insert itself, *)
(* between backends whose page locks conflict; those of participants, a    *)
(* lock group, do not).                                                    *)
(*                                                                         *)
(* An element of the graph is named by the row it was made for.  One step  *)
(* is what a participant does between two lock calls.  Distances are left  *)
(* out: a search finds any elements it could reach, in any order.          *)
(***************************************************************************)
EXTENDS Integers, Sequences, FiniteSets

CONSTANTS
  Leader,       \* the backend that runs CREATE INDEX
  Workers,      \* the workers it asks for
  Rows,         \* rows of the heap
  ValueOf,      \* their vectors
  NullValue,    \* a vector that is not indexed
  Nobody,       \* no process, no element
  MaxLevel,     \* HnswGetMaxLevel
  M,            \* connections per layer above 0; layer 0 has twice as many
  HeapTidsMax,  \* HNSW_HEAPTIDS
  WorkMem,      \* maintenance_work_mem
  EstOther,     \* shared memory left for other objects (3 MB)
  Reserve,      \* the part of the area that is not reported (1 MB)
  SizeMod       \* Size is unsigned: arithmetic modulo SizeMod

Procs     == Workers \union {Leader}
Levels    == 0..MaxLevel
Indexable == {r \in Rows : ValueOf[r] # NullValue}

ASSUME BuildNames ==
  /\ Leader \notin Workers
  /\ Nobody \notin Procs \union Rows
  /\ IsFiniteSet(Workers)
ASSUME BuildBounds ==
  /\ MaxLevel \in Nat
  /\ M \in Nat \ {0}
  /\ HeapTidsMax \in Nat \ {0}
  /\ {WorkMem, EstOther, Reserve, SizeMod} \subseteq Nat \ {0}

VARIABLES
  status,     \* "starting", "building", "done" or "failed"
  parts,      \* the participants of the scan
  rest,       \* rows the scan has not handed out
  pc,         \* what each participant does next
  work,       \* its row, the entry point it read, the layer, what is left to visit
  elem,       \* the elements allocated
  listed,     \* graph->head: elements linked into the list
  entry,      \* graph->entryPoint
  used,       \* graph->memoryUsed
  flushed,    \* graph->flushed
  flushLock, entryLock,   \* mode held by each participant
  entryWait,  \* holder of entryWaitLock
  disk,       \* how often each row is in the index on disk
  indtuples,  \* graph->indtuples
  ndone       \* nparticipantsdone

graph == <<elem, listed, entry>>
locks == <<flushLock, entryLock, entryWait>>
vars  == <<status, parts, rest, pc, work, elem, listed, entry, used, flushed,
           flushLock, entryLock, entryWait, disk, indtuples, ndone>>
-----------------------------------------------------------------------------
LayerM(lc) == IF lc = 0 THEN 2 * M ELSE M       \* HnswGetLayerM

NoElem == [level |-> -1, heaptids |-> {}, links |-> [lc \in Levels |-> <<>>]]
NoWork == [row |-> Nobody, ep |-> Nobody, lc |-> 0, todo |-> <<>>]

\* Neighbor arrays take memory for every layer of the element.
ElementSize(l) == l + 1

\* HnswBeginParallel: the size of the shared area.
Area == IF WorkMem > EstOther THEN WorkMem - EstOther ELSE WorkMem

\* Mutant: the whole area is reported.
AreaTotal == IF parts = {Leader} THEN WorkMem ELSE Area

\* InitGraph: a serial build may use maintenance_work_mem, a parallel one what
\* is reported of the area.
MemoryTotal == IF parts = {Leader} THEN WorkMem ELSE (Area - Reserve) % SizeMod

LevelOf(e) == IF e = Nobody THEN -1 ELSE elem[e].level
CanShare(lk, p) == \A q \in Procs \ {p} : lk[q] # "exclusive"
CanExclusive(lk, p) == \A q \in Procs \ {p} : lk[q] = "none"

Move(p, l) == pc' = [pc EXCEPT ![p] = l]
Row(p) == work[p].row

Init ==
  /\ status = "starting" /\ parts = {Leader} /\ rest = Rows
  /\ pc = [p \in Procs |-> "out"] /\ work = [p \in Procs |-> NoWork]
  /\ elem = [r \in Rows |-> NoElem] /\ listed = {} /\ entry = Nobody
  /\ used = 0 /\ flushed = FALSE
  /\ flushLock = [p \in Procs |-> "none"] /\ entryLock = [p \in Procs |-> "none"]
  /\ entryWait = Nobody
  /\ disk = [r \in Rows |-> 0] /\ indtuples = 0 /\ ndone = 0
-----------------------------------------------------------------------------
(***************************************************************************)
(* BuildGraph and the scan.                                                *)
(***************************************************************************)

\* HnswBeginParallel: any number of the workers can be launched; with none, or
\* without shared memory, the leader builds alone.
BuildBegin ==
  /\ status = "starting"
  /\ \E W \in SUBSET Workers :
       /\ parts' = W \union {Leader}
       /\ pc' = [p \in Procs |-> IF p \in W \union {Leader} THEN "scan" ELSE "out"]
  /\ status' = "building"
  /\ UNCHANGED <<rest, work, graph, used, flushed, locks, disk, indtuples, ndone>>

\* The parallel scan hands each row to one participant; BuildCallback skips a
\* null, HnswFormIndexValue a vector that cannot be indexed.
NextRow(p) ==
  /\ pc[p] = "scan"
  /\ \E r \in rest :
       /\ rest' = rest \ {r}
       /\ IF ValueOf[r] = NullValue
            THEN UNCHANGED <<work, pc>>
            ELSE work' = [work EXCEPT ![p].row = r] /\ Move(p, "flushlock")
  /\ UNCHANGED <<status, parts, graph, used, flushed, locks, disk, indtuples, ndone>>

\* HnswParallelScanAndInsert at the end of the scan.
ScanDone(p) ==
  /\ pc[p] = "scan"
  /\ rest = {}
  /\ ndone' = ndone + 1
  /\ Move(p, "finished")
  /\ UNCHANGED <<status, parts, rest, work, graph, used, flushed, locks, disk, indtuples>>

\* Mutant: only the first heap TID of an element is written.
WriteElements == disk' = [r \in Rows |-> IF r \in listed THEN disk[r] + 1 ELSE disk[r]]

\* CreateGraphPages: each element of the list with its heap TIDs.
WritePages ==
  disk' = [r \in Rows |-> disk[r] + Cardinality({e \in listed : r \in elem[e].heaptids})]

\* FlushPages: from now on the graph is the one on disk.
FlushPages ==
  /\ WritePages
  /\ flushed' = TRUE

\* ParallelHeapScan's condition
AllDone == ndone = Cardinality(parts)

\* ParallelHeapScan, the flush of a graph that fitted, HnswEndParallel, which
\* raises the error of a worker.
BuildEnd ==
  /\ status = "building"
  /\ pc[Leader] = "finished"
  /\ AllDone
  /\ \A p \in parts : pc[p] # "failed"
  /\ IF flushed THEN UNCHANGED <<disk, flushed>> ELSE FlushPages
  /\ status' = "done"
  /\ UNCHANGED <<parts, rest, pc, work, graph, used, locks, indtuples, ndone>>

\* A participant fails anywhere: LWLockReleaseAll.
Fails(p) ==
  /\ status = "building"
  /\ pc[p] \notin {"out", "failed"}
  /\ flushLock' = [flushLock EXCEPT ![p] = "none"]
  /\ entryLock' = [entryLock EXCEPT ![p] = "none"]
  /\ entryWait' = IF entryWait = p THEN Nobody ELSE entryWait
  /\ work' = [work EXCEPT ![p] = NoWork]
  /\ Move(p, "failed")
  /\ UNCHANGED <<status, parts, rest, graph, used, flushed, disk, indtuples, ndone>>

\* The leader fails, or hears of a worker's error: the whole build is undone.
BuildAborts ==
  /\ status = "building"
  /\ \E p \in parts : pc[p] = "failed"
  /\ status' = "failed"
  /\ UNCHANGED <<parts, rest, pc, work, graph, used, flushed, locks, disk, indtuples, ndone>>
-----------------------------------------------------------------------------
(***************************************************************************)
(* InsertTuple.                                                            *)
(***************************************************************************)

\* Share flushLock; in the on-disk phase it is given back.
FlushLockShared(p) ==
  /\ pc[p] = "flushlock"
  /\ CanShare(flushLock, p)
  /\ IF flushed
       THEN Move(p, "ondisk") /\ UNCHANGED flushLock
       ELSE Move(p, "alloc") /\ flushLock' = [flushLock EXCEPT ![p] = "share"]
  /\ UNCHANGED <<status, parts, rest, work, graph, used, flushed, entryLock, entryWait,
                 disk, indtuples, ndone>>

\* Under allocatorLock: HnswInitElement with a random level, or no memory left.
Allocate(p) ==
  /\ pc[p] = "alloc"
  /\ \/ /\ used >= MemoryTotal
        /\ flushLock' = [flushLock EXCEPT ![p] = "none"]
        /\ Move(p, "flushlockx")
        /\ UNCHANGED <<elem, used>>
     \/ /\ used < MemoryTotal
        /\ \E l \in Levels :
             /\ elem' = [elem EXCEPT ![Row(p)] =
                           [NoElem EXCEPT !.level = l, !.heaptids = {Row(p)}]]
             /\ used' = used + ElementSize(l)
        /\ Move(p, "wait")
        /\ UNCHANGED flushLock
  /\ UNCHANGED <<status, parts, rest, work, listed, entry, flushed, entryLock, entryWait,
                 disk, indtuples, ndone>>

\* Mutant: flushed is not looked at again under the exclusive lock.
FlushLockUnchecked(p) ==
  /\ pc[p] = "flushlockx"
  /\ CanExclusive(flushLock, p)
  /\ flushLock' = [flushLock EXCEPT ![p] = "exclusive"]
  /\ Move(p, "flush")
  /\ UNCHANGED <<status, parts, rest, work, graph, used, flushed, entryLock, entryWait,
                 disk, indtuples, ndone>>

\* Mutant: the participant flushes under its share lock.
FlushLockKept(p) ==
  /\ pc[p] = "flushlockx"
  /\ CanShare(flushLock, p)
  /\ IF flushed
       THEN Move(p, "ondisk") /\ UNCHANGED flushLock
       ELSE Move(p, "flush") /\ flushLock' = [flushLock EXCEPT ![p] = "exclusive"]
  /\ UNCHANGED <<status, parts, rest, work, graph, used, flushed, entryLock, entryWait,
                 disk, indtuples, ndone>>

\* Exclusive flushLock; somebody else may have flushed meanwhile.
FlushLockExclusive(p) ==
  /\ pc[p] = "flushlockx"
  /\ CanExclusive(flushLock, p)
  /\ IF flushed
       THEN Move(p, "ondisk") /\ UNCHANGED flushLock
       ELSE Move(p, "flush") /\ flushLock' = [flushLock EXCEPT ![p] = "exclusive"]
  /\ UNCHANGED <<status, parts, rest, work, graph, used, flushed, entryLock, entryWait,
                 disk, indtuples, ndone>>

Flush(p) ==
  /\ pc[p] = "flush"
  /\ FlushPages
  /\ flushLock' = [flushLock EXCEPT ![p] = "none"]
  /\ Move(p, "ondisk")
  /\ UNCHANGED <<status, parts, rest, work, graph, used, entryLock, entryWait, indtuples, ndone>>

\* Mutant: a row inserted on disk is not counted.
InsertOnDiskUncounted(p) ==
  /\ pc[p] = "ondisk"
  /\ disk' = [disk EXCEPT ![Row(p)] = @ + 1]
  /\ work' = [work EXCEPT ![p] = NoWork]
  /\ Move(p, "scan")
  /\ UNCHANGED <<status, parts, rest, graph, used, flushed, locks, indtuples, ndone>>

\* HnswInsertTupleOnDisk
InsertOnDisk(p) ==
  /\ pc[p] = "ondisk"
  /\ disk' = [disk EXCEPT ![Row(p)] = @ + 1]
  /\ Move(p, "count")
  /\ UNCHANGED <<status, parts, rest, work, graph, used, flushed, locks, indtuples, ndone>>

\* BuildCallback, under graph->lock.
Count(p) ==
  /\ pc[p] = "count"
  /\ indtuples' = indtuples + 1
  /\ work' = [work EXCEPT ![p] = NoWork]
  /\ Move(p, "scan")
  /\ UNCHANGED <<status, parts, rest, graph, used, flushed, locks, disk, ndone>>
-----------------------------------------------------------------------------
(***************************************************************************)
(* InsertTupleInMemory, under the shared flushLock.                        *)
(***************************************************************************)

\* Where the search of an element with entry point e starts to keep neighbors;
\* an empty graph is not searched.
StartSearch(p, e) ==
  /\ work' = [work EXCEPT ![p].ep = e,
                          ![p].lc = IF LevelOf(e) > elem[Row(p)].level THEN elem[Row(p)].level
                                    ELSE IF e = Nobody THEN 0 ELSE LevelOf(e)]
  /\ Move(p, IF e = Nobody THEN "dup" ELSE "search")

\* Pass entryWaitLock: wait while somebody wants entryLock exclusively.
PassEntryWait(p) ==
  /\ pc[p] = "wait"
  /\ entryWait = Nobody
  /\ Move(p, "entry")
  /\ UNCHANGED <<status, parts, rest, work, graph, used, flushed, locks, disk, indtuples, ndone>>

\* Mutant: the entry point is replaced under the share lock.
EntryLockKept(p) ==
  /\ pc[p] = "entry"
  /\ CanShare(entryLock, p)
  /\ entryLock' = [entryLock EXCEPT ![p] = "share"]
  /\ StartSearch(p, entry)
  /\ UNCHANGED <<status, parts, rest, graph, used, flushed, flushLock, entryWait, disk,
                 indtuples, ndone>>

\* Share entryLock and read the entry point; an element above it needs the lock
\* exclusively.
EntryLockShared(p) ==
  /\ pc[p] = "entry"
  /\ CanShare(entryLock, p)
  /\ IF elem[Row(p)].level > LevelOf(entry)
       THEN Move(p, "waitx") /\ UNCHANGED <<work, entryLock>>
       ELSE StartSearch(p, entry) /\ entryLock' = [entryLock EXCEPT ![p] = "share"]
  /\ UNCHANGED <<status, parts, rest, graph, used, flushed, flushLock, entryWait, disk,
                 indtuples, ndone>>

EntryWaitExclusive(p) ==
  /\ pc[p] = "waitx"
  /\ entryWait = Nobody
  /\ entryWait' = p
  /\ Move(p, "entryx")
  /\ UNCHANGED <<status, parts, rest, work, graph, used, flushed, flushLock, entryLock, disk,
                 indtuples, ndone>>

\* Mutant: entryWaitLock is never given back.
EntryWaitKept(p) ==
  /\ pc[p] = "entryx"
  /\ CanExclusive(entryLock, p)
  /\ entryLock' = [entryLock EXCEPT ![p] = "exclusive"]
  /\ StartSearch(p, entry)
  /\ UNCHANGED <<status, parts, rest, graph, used, flushed, flushLock, entryWait, disk, indtuples, ndone>>

\* The entry point is read again under the exclusive lock.
EntryLockExclusive(p) ==
  /\ pc[p] = "entryx"
  /\ CanExclusive(entryLock, p)
  /\ entryLock' = [entryLock EXCEPT ![p] = "exclusive"]
  /\ entryWait' = Nobody
  /\ StartSearch(p, entry)
  /\ UNCHANGED <<status, parts, rest, graph, used, flushed, flushLock, disk, indtuples, ndone>>

\* An element just put into the list is in nobody's neighbor array.
Unlinked(e) == \E q \in Procs : pc[q] = "copy" /\ Row(q) = e /\ work[q].lc = elem[e].level

\* Elements a search on layer lc may find.
Visible(p, lc) ==
  {e \in listed : elem[e].level >= lc /\ (e = work[p].ep \/ ~Unlinked(e))}

\* Mutant: a candidate is met twice.
SelectionsRepeated(C, n) == UNION {[1..k -> C] : k \in 1..n}

\* SelectNeighbors: at least one candidate, at most as many as there is room for.
Selections(C, n) ==
  {s \in UNION {[1..k -> C] : k \in 1..n} : \A i, j \in DOMAIN s : i # j => s[i] # s[j]}

\* HnswFindElementNeighbors, one layer.
FindNeighbors(p) ==
  /\ pc[p] = "search"
  /\ LET lc == work[p].lc IN
     \E s \in Selections(Visible(p, lc), LayerM(lc)) :
       /\ elem' = [elem EXCEPT ![Row(p)].links[lc] = s]
       /\ \/ /\ lc > 0
             /\ work' = [work EXCEPT ![p].lc = lc - 1]
             /\ UNCHANGED pc
          \/ /\ lc = 0
             /\ work' = [work EXCEPT ![p].todo = s]
             /\ Move(p, "dup")
  /\ UNCHANGED <<status, parts, rest, listed, entry, used, flushed, locks, disk, indtuples, ndone>>

\* The neighbors of the same value, which come first.
IsDuplicate(p) == work[p].todo # <<>> /\ ValueOf[Head(work[p].todo)] = ValueOf[Row(p)]

HasRoom(e) == Cardinality(elem[e].heaptids) # HeapTidsMax

\* FindDuplicateInMemory and AddDuplicateInMemory, one neighbor.
AddDuplicate(p) ==
  /\ pc[p] = "dup"
  /\ IsDuplicate(p)
  /\ LET d == Head(work[p].todo) IN
     \/ /\ HasRoom(d)
        /\ elem' = [elem EXCEPT ![d].heaptids = @ \union {Row(p)}]
        /\ Move(p, "release")
        /\ UNCHANGED work
     \/ /\ ~HasRoom(d)
        /\ work' = [work EXCEPT ![p].todo = Tail(@)]
        /\ UNCHANGED <<elem, pc>>
  /\ UNCHANGED <<status, parts, rest, listed, entry, used, flushed, locks, disk, indtuples, ndone>>

\* AddElementInMemory
AddElement(p) ==
  /\ pc[p] = "dup"
  /\ ~IsDuplicate(p)
  /\ listed' = listed \union {Row(p)}
  /\ work' = [work EXCEPT ![p].lc = elem[Row(p)].level, ![p].todo = <<>>]
  /\ Move(p, "copy")
  /\ UNCHANGED <<status, parts, rest, elem, entry, used, flushed, locks, disk, indtuples, ndone>>

\* UpdateNeighborsInMemory: copy the own neighbors of a layer, which others may
\* have added to meanwhile.
CopyNeighbors(p) ==
  /\ pc[p] = "copy"
  /\ work' = [work EXCEPT ![p].todo = elem[Row(p)].links[work[p].lc]]
  /\ Move(p, "connect")
  /\ UNCHANGED <<status, parts, rest, graph, used, flushed, locks, disk, indtuples, ndone>>

\* Mutant: the limit of a neighbor array is not looked at.
UpdateConnectionUnbounded(list, lm, e) == {Append(list, e)}

\* HnswUpdateConnection: append, or replace the connection that is pruned,
\* unless that is the new one.
UpdateConnection(list, lm, e) ==
  IF Len(list) < lm THEN {Append(list, e)}
  ELSE {list} \union {[list EXCEPT ![i] = e] : i \in 1..Len(list)}

\* The neighbor's array is changed under the neighbor's lock.
ConnectNeighbor(p) ==
  /\ pc[p] = "connect"
  /\ work[p].todo # <<>>
  /\ LET n == Head(work[p].todo) IN
     \E list \in UpdateConnection(elem[n].links[work[p].lc], LayerM(work[p].lc), Row(p)) :
       elem' = [elem EXCEPT ![n].links[work[p].lc] = list]
  /\ work' = [work EXCEPT ![p].todo = Tail(@)]
  /\ UNCHANGED <<status, parts, rest, pc, listed, entry, used, flushed, locks, disk,
                 indtuples, ndone>>

\* Mutant: the loop runs one layer too far.
LayerConnectedBelow(p) ==
  /\ pc[p] = "connect"
  /\ work[p].todo = <<>>
  /\ IF work[p].lc >= 0
       THEN work' = [work EXCEPT ![p].lc = @ - 1] /\ Move(p, "copy")
       ELSE UNCHANGED work /\ Move(p, "setentry")
  /\ UNCHANGED <<status, parts, rest, graph, used, flushed, locks, disk, indtuples, ndone>>

LayerConnected(p) ==
  /\ pc[p] = "connect"
  /\ work[p].todo = <<>>
  /\ IF work[p].lc > 0
       THEN work' = [work EXCEPT ![p].lc = @ - 1] /\ Move(p, "copy")
       ELSE UNCHANGED work /\ Move(p, "setentry")
  /\ UNCHANGED <<status, parts, rest, graph, used, flushed, locks, disk, indtuples, ndone>>

\* The last step of UpdateGraphInMemory.
SetEntryPoint(p) ==
  /\ pc[p] = "setentry"
  /\ entry' = IF elem[Row(p)].level > LevelOf(work[p].ep) THEN Row(p) ELSE entry
  /\ Move(p, "release")
  /\ UNCHANGED <<status, parts, rest, work, elem, listed, used, flushed, locks, disk,
                 indtuples, ndone>>

\* entryLock, then flushLock.
ReleaseLocks(p) ==
  /\ pc[p] = "release"
  /\ entryLock' = [entryLock EXCEPT ![p] = "none"]
  /\ flushLock' = [flushLock EXCEPT ![p] = "none"]
  /\ Move(p, "count")
  /\ UNCHANGED <<status, parts, rest, work, graph, used, flushed, entryWait, disk, indtuples, ndone>>
-----------------------------------------------------------------------------
InsertInMemory(p) ==
  \/ PassEntryWait(p) \/ EntryLockShared(p) \/ EntryWaitExclusive(p) \/ EntryLockExclusive(p)
  \/ FindNeighbors(p) \/ AddDuplicate(p) \/ AddElement(p)
  \/ CopyNeighbors(p) \/ ConnectNeighbor(p) \/ LayerConnected(p)
  \/ SetEntryPoint(p) \/ ReleaseLocks(p)

Participate(p) ==
  /\ status = "building"
  /\ \/ NextRow(p) \/ ScanDone(p)
     \/ FlushLockShared(p) \/ Allocate(p) \/ FlushLockExclusive(p) \/ Flush(p)
     \/ InsertInMemory(p) \/ InsertOnDisk(p) \/ Count(p)

\* The statement is over.
Over == status \in {"done", "failed"} /\ UNCHANGED vars

Next ==
  \/ BuildBegin \/ BuildEnd \/ BuildAborts \/ Over
  \/ \E p \in Procs : Participate(p) \/ Fails(p)

Spec == Init /\ [][Next]_vars

\* A process that can run does run.
Fairness ==
  /\ WF_vars(BuildBegin) /\ WF_vars(BuildEnd) /\ WF_vars(BuildAborts)
  /\ \A p \in Procs : WF_vars(Participate(p))

FairSpec == Spec /\ Fairness
-----------------------------------------------------------------------------
(***************************************************************************)
(* Properties.                                                             *)
(***************************************************************************)
MemoryPc == {"alloc", "wait", "entry", "waitx", "entryx", "search", "dup", "copy",
             "connect", "setentry", "release"}
Pc == MemoryPc \union {"out", "scan", "flushlock", "flushlockx", "flush", "ondisk", "count",
                       "finished", "failed"}
Element == [level : Levels \union {-1}, heaptids : SUBSET Rows, links : [Levels -> Seq(Rows)]]
Work    == [row : Rows \union {Nobody}, ep : Rows \union {Nobody}, lc : Levels, todo : Seq(Rows)]
Modes   == {"none", "share", "exclusive"}

\* Every variable keeps its type.
BuildTypeOK ==
  /\ status \in {"starting", "building", "done", "failed"}
  /\ parts \in SUBSET Procs /\ rest \in SUBSET Rows
  /\ pc \in [Procs -> Pc] /\ work \in [Procs -> Work]
  /\ elem \in [Rows -> Element] /\ listed \in SUBSET Rows /\ entry \in Rows \union {Nobody}
  /\ used \in Nat /\ flushed \in BOOLEAN
  /\ flushLock \in [Procs -> Modes] /\ entryLock \in [Procs -> Modes]
  /\ entryWait \in Procs \union {Nobody}
  /\ disk \in [Rows -> Nat] /\ indtuples \in Nat /\ ndone \in Nat

\* No row gets two entries, one by the flush and one by an insert on disk, and
\* none by two flushes.
RowsOnDiskOnce == \A r \in Rows : disk[r] <= 1

\* The graph in shared memory is changed only while nobody writes it out, and
\* never after it was written: an insert that saw flushed unset is finished when
\* the flush begins.
GraphQuietInFlush ==
  [][<<graph, used>>' # <<graph, used>> =>
       ~flushed /\ \A p \in Procs : pc[p] # "flush"]_vars

\* Whoever reads the entry point under a share lock gets an element at least as
\* high as every element of the graph, so a search starts above all of them;
\* the level is compared before the exclusive lock, and the entry point read
\* again after it.
EntryHighest ==
  (\A p \in Procs : entryLock[p] # "exclusive" /\ pc[p] # "failed")
  => \A e \in listed : elem[e].level <= LevelOf(entry)

\* The neighbor arrays that FlushPages writes as index TIDs lead to elements in
\* the list, which have a place on disk, reach up to the layer, and are not the
\* element itself; they fit the neighbor tuple, and the heap TIDs the element
\* tuple.
LinksWritable ==
  \A e \in listed :
    /\ Cardinality(elem[e].heaptids) <= HeapTidsMax
    /\ \A lc \in Levels : LET list == elem[e].links[lc] IN
         /\ Len(list) <= IF lc <= elem[e].level THEN LayerM(lc) ELSE 0
         /\ \A i \in 1..Len(list) : /\ list[i] \in listed \ {e}
                                    /\ elem[list[i]].level >= lc

\* No neighbor array has an element twice on that element's own top layer.  (On
\* the layers below, it can: others connect to an element as soon as its top
\* layer is connected, and UpdateNeighborsInMemory then copies their connections
\* as if it had chosen them.)
LinksOnceAtTop ==
  \A e \in listed : \A lc \in Levels : LET list == elem[e].links[lc] IN
    \A i, j \in 1..Len(list) :
      i # j /\ list[i] = list[j] => lc < elem[list[i]].level

\* The shared area is never used beyond its end: "Report less than allocated so
\* never fails".
MemoryInArea == parts # {Leader} => used <= Area

\* A build that succeeds has counted every row it indexed, whoever inserted it
\* and on whichever side of the flush.
CountExact == status = "done" => indtuples = Cardinality(Indexable)

\* The rows an index scan will find: those of the graph that is in use.
InMemory == UNION {elem[e].heaptids : e \in listed}
Indexed  == IF flushed THEN {r \in Rows : disk[r] > 0} ELSE InMemory

Result == INSTANCE IndexBuild WITH
  indexed <- Indexed, status <- IF status = "starting" THEN "building" ELSE status

\* However many workers take part, wherever one of them fails and whenever the
\* memory runs out, CREATE INDEX indexes each row once and succeeds only with all
\* of them: the flush loses none.
ImplementsIndexBuild == Result!Spec

\* CREATE INDEX ends: the waits for entryWaitLock, entryLock and flushLock, and
\* the leader's for its workers, never form a circle.
BuildTerminates == <>(status \in {"done", "failed"})
-----------------------------------------------------------------------------
(***************************************************************************)
(* The inductive invariant.                                                *)
(***************************************************************************)
NoFailure == \A p \in Procs : pc[p] # "failed"
Finished  == {p \in Procs : pc[p] = "finished"}

\* A participant holds entryLock; has an element; has a row; has a row that is not
\* indexed yet.
EntryPc   == {"search", "dup", "copy", "connect", "setentry"}
ElemPc    == MemoryPc \ {"alloc"}
ConnectPc == {"copy", "connect", "setentry"}
PendingPc == {"flushlock", "flushlockx", "flush", "ondisk", "alloc", "wait", "entry", "waitx",
              "entryx", "search", "dup"}
RowPc     == PendingPc \union ConnectPc \union {"release", "count"}

\* The scan is over for all when all have counted themselves.
ScanInv ==
  /\ status = "starting" => ndone = 0 /\ \A p \in Procs : pc[p] = "out"
  /\ Leader \in parts /\ \A p \in Procs \ parts : pc[p] = "out"
  /\ \A p \in Procs : pc[p] = "finished" => rest = {}
  /\ NoFailure => ndone = Cardinality(Finished)

\* flushLock is held just while a participant works on the graph in memory or writes
\* it, and nobody does after the flush; entryLock from reading the entry point on.
LockInv ==
  /\ \A p \in Procs : /\ pc[p] \in MemoryPc <=> flushLock[p] = "share"
                      /\ pc[p] = "flush" <=> flushLock[p] = "exclusive"
                      /\ pc[p] \in EntryPc \union {"release"} <=> entryLock[p] # "none"
                      /\ flushed => flushLock[p] = "none"
                      /\ pc[p] = "ondisk" => flushed
  /\ \A p, q \in Procs : p # q => /\ flushLock[p] = "exclusive" => flushLock[q] = "none"
                                  /\ entryLock[p] = "exclusive" => entryLock[q] = "none"

\* Participants work on different rows, which the scan has handed out.
OwnerInv ==
  /\ \A p \in Procs : /\ pc[p] \in {"out", "scan"} => work[p] = NoWork
                      /\ pc[p] \in RowPc => /\ Row(p) \in Indexable \ rest
                                            /\ work[p].ep \in listed \union {Nobody}
                      /\ pc[p] \in PendingPc => work[p].todo \in Seq(listed)
  /\ \A p, q \in Procs : p # q /\ pc[p] \in RowPc /\ pc[q] \in RowPc => Row(p) # Row(q)

\* Elements of the list have a level and their own row, and share no row.
ElementInv ==
  /\ entry \in listed \union {Nobody}
  /\ \A e \in listed : elem[e].level \in Levels /\ e \in elem[e].heaptids
  /\ \A e, f \in listed : e # f => elem[e].heaptids \intersect elem[f].heaptids = {}
  /\ \A p \in Procs : /\ pc[p] \in ElemPc => elem[Row(p)].level \in Levels
                      /\ pc[p] \in ElemPc \intersect PendingPc =>
                           elem[Row(p)].heaptids = {Row(p)}
                      /\ pc[p] \in ConnectPc => Row(p) \in listed

\* A row is to be handed out, or indexed, or some participant's.
RowInv ==
  /\ \A r \in Rows : disk[r] \in {0, 1} /\ (~flushed => disk[r] = 0)
  /\ Indexed \subseteq Indexable \ rest
  /\ \A p \in Procs : pc[p] \in PendingPc => Row(p) \notin Indexed
  /\ NoFailure => \A r \in Indexable : \/ r \in rest \union Indexed
                                       \/ \E p \in Procs : pc[p] \in PendingPc /\ Row(p) = r

\* What a participant read as entry point stays the entry point while it holds
\* entryLock, and is as high as its own element unless it holds it exclusively; only
\* such an element is above the entry point, until it becomes the entry point.
EntryInv ==
  /\ \A p \in Procs : pc[p] \in EntryPc =>
       /\ work[p].ep = entry
       /\ entryLock[p] = "share" => elem[Row(p)].level <= LevelOf(entry)
  /\ NoFailure => \A e \in listed :
       \/ elem[e].level <= LevelOf(entry)
       \/ \E p \in Procs : entryLock[p] = "exclusive" /\ pc[p] \in ConnectPc /\ Row(p) = e

\* Rows, locks and the entry point fit together at every step of every participant,
\* failures included: what the proofs of the properties rest on.
BuildInv ==
  /\ BuildTypeOK
  /\ ScanInv
  /\ LockInv
  /\ OwnerInv
  /\ ElementInv
  /\ RowInv
  /\ EntryInv
=============================================================================
