# Verification of the HNSW index access method

The repository is a database lab: two copies of PostgreSQL 18 into which
pgvector's `vector` type and its HNSW index access method were ported.
`pgvec/` is the tree that `start.sh` builds, `example/` the reference copy that
`start_ex.sh` builds. The trees differ only in a few files, and in the access
method only in comments and layout. The code of its own is

| file (under `src/pgvec/src/`) | part |
|---|---|
| `backend/access/hnsw/hnswinsert.c` | inserting a row into an existing index |
| `backend/access/hnsw/hnswvacuum.c` | VACUUM's bulk delete |
| `backend/access/hnsw/hnswscan.c` | index scans, iterative scans |
| `backend/access/hnsw/hnswutils.c` | graph search, neighbor selection, tuples, metapage |
| `backend/access/hnsw/hnswbuild.c` | CREATE INDEX, in memory and parallel |
| `backend/access/hnsw/hnsw.c` | handler, options, GUCs, cost estimate |
| `include/access/hnsw.h` | data structures |
| `backend/utils/adt/vector.c` | the `vector` type and its distance functions |

This project models the access method: the index on disk under concurrent
inserts, VACUUMs and scans, the pages it lies on, the parallel build, the search
and the scan with distances, and the choice of neighbors. TLC checks the models on small
instances; TLAPS proves forty-one theorems about the index, its pages, the build, the choice of
neighbors and the scan for every value of the constants, among them that index and build
implement an abstract specification.

## 1. Inventory

**The index on disk.** A metapage holds the entry point (index TID and level).
The other pages form a chain linked by `nextblkno` that only grows. An *element
tuple* has a level, a version, a `deleted` flag, up to 10 heap TIDs (rows with
equal vectors share an element) and the vector; its *neighbor tuple*, possibly
on another page, has the index TIDs of its connections per layer, `2m` on layer
0 and `m` above. A place whose element is `deleted` is reused by inserts. Every
change is one WAL record made under exclusive buffer locks.

**Locks.** Two page locks of the lock manager order the operations:
`HNSW_UPDATE_LOCK` (inserts and repairs share it; whoever will replace the entry
point takes it exclusively; VACUUM takes and releases it exclusively to wait for
inserts) and `HNSW_SCAN_LOCK` (scans share it; VACUUM waits for them with it).
Searches hold no lock from one tuple to the next.

**Insert** (`HnswInsertTupleOnDisk`). Lock, read the entry point, draw a level,
upgrade the lock by giving it up if the level is above the entry point's; search
each layer; try the neighbors on layer 0 as duplicates; otherwise write both
tuples, connect each neighbor back (choose the position without a lock, write it
under one), update the entry point, unlock.

**VACUUM** (`hnswbulkdelete`). (1) `RemoveHeapTids` walks the pages, removes dead
heap TIDs, lists the elements left empty and remembers the highest other
element. (2) `RepairGraph` waits for inserts, repairs the highest point, replaces
or repairs the entry point, then walks the pages again and rewrites the list of
every element that points to a listed one or has room. (3) `MarkDeleted` waits
for scans, then clears the tuples of the empty elements and bumps their
versions. Then the heap gives the dead TIDs back.

**Scan** (`hnswgettuple`). The first call searches under the scan lock; later
calls return rows and, with iterative scans on, resume the search.

**Build** (`hnswbuild`). Parallel workers insert into a graph in shared memory
under LWLocks; when memory is used up one of them flushes it to pages and the
rest goes through the on-disk insert.

**What is hard.** Everything read during a search may have changed when it is
used: a neighbor list, the position to overwrite, an element chosen as a
duplicate, the entry point, the highest point. Places are reused while lists of
deleted TIDs are in use. The chain grows under VACUUM's walks. VACUUM and
inserts may fail between any two WAL records. The waits are barriers, taken and
released at once, so later arrivals are not kept out. `PROJECT.json` lists the
hazards with their lines.

**What makes each part correct.**
- Index: every committed row is in it, under its own vector, exactly once; no
  TID given back by VACUUM is in it; the entry point names an intact element.
- Insert: never writes to an element reclaimed since it was loaded; ends.
- VACUUM: removes all dead rows though the chain grows; clears no element a scan
  or insert may still load; leaves no connection to a reclaimed place; ends; may
  be cut off anywhere and started again.
- Scan: never loads a cleared tuple; returns rows in order; iterative scans
  return no row twice and respect their limits.
- Build: flushes a complete graph; no worker writes the memory graph after that.

## 2. Modules

In the order in which they were planned and written, the most important behaviour
first.

| module | subject | MC module | proofs |
|---|---|---|---|
| `HnswIndex` | inserts, VACUUM and scans on disk | `MCHnswIndex` | `HnswIndexProofs`, `HnswEntriesProofs` |
| `RowIndex` | what the index promises: rows enter once and leave once | | refined by `HnswIndex` |
| `HnswBuild` | the serial and parallel build in memory, the flush | `MCHnswBuild` | `HnswBuildProofs`, `HnswGraphProofs` |
| `IndexBuild` | what CREATE INDEX promises | | refined by `HnswBuild` |
| `HnswScan` | one scan with distances: first batch, iterative batches | `MCHnswScan` | `HnswScanProofs` |
| `HnswSelect` | `SelectNeighbors` and its `closer` cache | `MCHnswSelect` | `HnswSelectProofs` |
| `HnswPages` | space on pages, insert page, buffer locks, crashes | `MCHnswPages` | `HnswPagesProofs` |
| `NatSetInduction` | induction on numbers, for the sums of `HnswPages` and the loop of `HnswSelect` | | itself |

The modules meet where the code's parts call each other. `HnswBuild` ends where
`HnswIndex` begins: a row inserted on disk is one step of the former and
`HnswInsertTupleOnDisk` in the latter, but between backends whose page locks conflict.
During a parallel build they do not: the leader and its workers are one lock group, whose
members share page locks in any mode (PostgreSQL's `LockCheckConflicts`). `HnswBuild`
therefore takes of the on-disk phase only that every insert enters its row, in any order;
that one participant changes the entry point at a time (`EntryChangesAlone`) is not
claimed of it. No VACUUM runs then, and the metapage is changed under its buffer lock, where
the level is compared again. `HnswIndex` takes any place for a new
element and any neighbors; `HnswPages` and `HnswSelect` say which ones the code
takes. `HnswIndex` searches without distances but with every race; `HnswScan`
searches with distances, and meets VACUUM as whole steps.

Every safety property that a run finds true is also proved. Nothing is left of the plan; a
module for the `vector` type was planned and given up (section 10).

## 3. `HnswIndex`

### State

| variable | code |
|---|---|
| `row`, `rowval` | the heap: a TID is free, being inserted, live or dead, and its vector (external) |
| `etup`, `ntup` | element and neighbor tuples, per place (`Slots`); `PageOf` gives the block |
| `meta` | entry point of the metapage; level -1 when there is none |
| `lock` | page lock of each backend: the update lock for inserters and VACUUM, the scan lock for scanners |
| `pc` | where each backend is between two critical sections |
| `job` | the element an insert adds or VACUUM repairs; `idx` is the result of `GetUpdateIndex` |
| `ep`, `srch` | the entry point read and the `HnswSearchLayer` in progress |
| `sel`, `todo` | neighbors selected per layer; those still to try or to connect |
| `vac` | `HnswVacuumState` (deleted list, highest point), the TIDs being removed, and the loop variables |

`srch` holds, for the layer walked, the elements loaded (`hnd`), those expanded
(`exp`), the TIDs met (`vis`) and the TIDs of the list read last that are still
to be loaded (`pend`). The gap between reading a list and loading its TIDs is
where concurrent changes bite, so it is kept step by step.

### Actions

A step is what the code does under one buffer lock or between two lock-manager
calls. The repair and the insert share the search (`LoadElement`,
`ReadNeighbors`, `NextLayer`, `WriterSearchDone`) and the connection of
neighbors (`GetUpdateIndex`, `UpdateNeighbor`), as in the code.

| code | actions |
|---|---|
| `HnswInsertTupleOnDisk` | `InsertBegin`, `InsertLock`, `InsertLockExclusive`, search, `AddDuplicate`, `AddElement`, connect, `InsertFinish`, `InsertAbort` |
| `hnswgettuple`, first call | `ScanBegin`, search, `ScanDone`, `ScanAbort` |
| `RemoveHeapTids` | `VacuumBegin`, `RemoveHeapTids` (one page a step) |
| `RepairGraph` | `WaitForInserts`, `RepairHighestPoint`, `RepairEntryPoint`, `LoadPage`, `CheckElement`, `RepairLock`, `RepairLockExclusive`, search, `RewriteNeighbors`, connect, `RepairDone`, `PageRepaired` |
| `MarkDeleted` | `WaitForScans`, `MarkDeleted` (one page a step) |
| rest of VACUUM | `VacuumFinish`, `VacuumAbort` |

### What is abstracted

- Distances. Where the code takes the nearest candidates the model takes any; a
  search may stop early only after more than `ef` elements were counted, and
  then keeps as many as `W` holds (one when `ef` is 0). `SelectNeighbors` takes
  all candidates or as many as there is room for, in any order. The position
  `GetUpdateIndex` prunes in a full list is any, or none. This only adds
  behaviours, so what holds here holds for every distance function.
- Sizes. `AddElement` takes any place that `AddElementOnDisk` could take: a new
  item on a page of the chain or on the page after it, or a deleted place. The
  insert page hint only selects among these.
- The heap TID array of an element is a set with the array's capacity.
- The bounds check before `UpdateNeighborOnDisk` writes is left out: an element
  that a writer goes back to has the level it had (`TargetsNotReclaimed`), so
  the position is inside the tuple.
- An error or a cancelled query is an `...Abort` at any step: the lock manager
  releases the locks, the row's transaction is rolled back, and what was written
  to the index stays. A server crash leaves the same state, because every step
  is one WAL record. Loading a cleared vector always fails, as the distance
  function rejects a vector of 0 dimensions (`LoadFails`).
- VACUUM holds the buffer's lock for a whole page, so a page is one step.
  `MarkDeleted` writes one WAL record per element of the page. With one element
  on a page, as in every run but `entry_lost` (where only one is ever deleted), the
  two granularities agree.
- A row becomes dead only when no snapshot needs it; one VACUUM runs at a time
  (PostgreSQL's table lock).

### What it implements

`RowIndex` is an index without a graph: a set of entries, each a heap TID under a
vector. A TID gets its entry once, while its row is being inserted and under the
row's vector, and commits only with it; entries disappear only for dead rows; a TID
is given back only without an entry. `HnswIndex` maps its tuples to entries
(`Entries`). Merging duplicates and adding an element are then the same `Insert`,
`RemoveHeapTids` is a `BulkDelete`, and connecting, repairing, clearing and reusing
places are stutters.

## 4. `HnswBuild`

`status`, `parts` and `rest` are the build and the scan of the heap: which of the
workers asked for were launched, and which rows were not handed out. `elem`, `listed`
and `entry` are `HnswGraph`: the elements allocated, the list at `graph->head`, the
entry point. `used`, `flushed`, `indtuples` and `ndone` are counters and flags of the
shared state, `flushLock`, `entryLock` and `entryWait` the LWLocks, `disk` how often
each row is in the index on disk. `pc` and `work` are the participants' locals.

| code | actions |
|---|---|
| `BuildGraph`, `HnswBeginParallel`, `HnswParallelScanAndInsert`, `HnswEndParallel` | `BuildBegin`, `NextRow`, `ScanDone`, `BuildEnd`, `BuildAborts`, `Fails` |
| `InsertTuple`, `BuildCallback` | `FlushLockShared`, `Allocate`, `FlushLockExclusive`, `Flush`, `InsertOnDisk`, `Count` |
| `InsertTupleInMemory` | `PassEntryWait`, `EntryLockShared`, `EntryWaitExclusive`, `EntryLockExclusive`, `FindNeighbors`, `ReleaseLocks` |
| `UpdateGraphInMemory` | `AddDuplicate`, `AddElement`, `CopyNeighbors`, `ConnectNeighbor`, `LayerConnected`, `SetEntryPoint` |

A step is what a participant does between two lock calls. Element locks and
`allocatorLock` are held for one step each, so they are the atomicity of the step.
Abstracted: distances (a search finds any elements it could reach, `SelectNeighbors`
keeps any of them, a full array loses any connection or refuses the new one); a
search reads the arrays of a layer in one step (each is read under its lock, and
elements are only added, so a later reader sees no less); sizes (an element takes one
unit per layer). An element whose top layer is not yet connected cannot be found
(`Unlinked`) unless it is the entry point. `IndexBuild` is CREATE INDEX without all
this: rows are indexed one by one, it succeeds only when all are, and may fail.

## 5. `HnswScan`

`setting` is chosen in the initial state and fixed: `hnsw_ef_search`, the iterative
mode, `hnsw_max_scan_tuples`, whether the memory check may or must answer "full", and
bounds. `so` is `HnswScanOpaqueData` (the batch `w`, the discarded heap, the visited
set, the tuple count, the previous distance), `srch` the heaps `C` and `W` of
`HnswSearchLayer`, `out` what `hnswgettuple` returned. `FirstCall`, `NextCall`,
`NoMore`, `ReturnRemaining`, `Resume`, `SkipElement` and `FetchRow` are the branches
of `hnswgettuple`; `ExpandNearest`, `LoadUnvisited`, `LoadFails`, `NextLayer` and
`BatchDone` those of the search; `Rescan` is `hnswrescan`. Ties between equal
distances are broken in every way. VACUUM and inserts are there as a scan meets them:
rows go, lists are rewritten one at a time, the clearing waits for the scan lock,
cleared places are used again with a new version. An insert never appends an element here:
until a VACUUM has cleared a place, which is where `FirstBatchOptimal` and `NothingLost`
speak of the graph, the elements are those the scan started with.

## 6. `HnswSelect`

One neighbor list of the memory build, on one layer: chosen once by
`HnswFindElementNeighbors`, then shrunk by `HnswUpdateConnection` for every later element
that is connected to it. A candidate (`HnswCandidate`) is an element the owner has chosen or
one that has connected; the array has each with its `closer` flag (`items`) and its position
(`place`). `closerSet` says whether the flags may be used; before that they are
uninitialised memory, so any value. `Loop` is the loop of `SelectNeighbors` over the sorted
candidates, as a recursive function from `Start`: `r`, `wd`, `added`, `removedAny` and the
flags after each turn (`Turn`), where `Judge` decides which comparisons are skipped.

An element connects to a list once, but in a parallel build (`shared`) the owner may have
chosen it before. An element is reachable as soon as its top layer is connected. If X is on
its way down, Y can find it on a lower layer, choose it and connect to it; when X then copies
its array of that layer it finds Y there and connects to Y's list, which names X already. So
`todo` keeps in a parallel build the elements the owner chose, the list may have two
candidates of one element, and `again` remembers that this happened. Such two compare equal:
`LooksFirst` says which `list_sort` leaves first (by position below 7 candidates, which it
sorts by insertion; either above). The loop that puts the new candidate in the place of
the pruned one looks for its element and takes the first in the array (`Replaced`), which
need not be the one that was pruned.

`KeepsReference` compares every result with Algorithm 4 of the HNSW paper, stated as a set
without flags (`KeptOf`), and `FlagsFresh` says that the flags a later call will read are
those of that set. In a serial build both hold always. In a parallel build both are stated
under `EachOnce`: until an element connects that the list names already. What happens after
that is finding 5.

## 7. `HnswPages`

Sizes in units: a page holds items and free space, an item its tuple's size and one
line pointer. `CreateGraphPages` lays out a build; `AddElementOnDisk` is
`LockBuffer`, `FastPath`, `FreeOffsetHere`, `FreeOffsetWaits`/`FreeOffsetThere`,
`AddElementOnly`, `MoveToNext`, `AppendPage`, `AddOnNewPage` and
`UpdateInsertPage`; `MarkDeleted` is `MarkDeletedBegin`, `LockForCleanup`, `MarkHere`,
`MarkWaits`/`MarkThere`, `MarkNextPage`, `MarkDeletedEnd`. `Crash` keeps what was
written and drops what was not. Element tuples have one size, as the vectors of one
index do; neighbor tuples grow with the level, so a freed place can be too small.
`PagesConstants` assumes of the sizes what the code has: they are positive, no tuple is
larger than `HNSW_MAX_SIZE`, and no neighbor tuple is smaller than that of level 0. The
proofs hold for all such sizes, `pages_places` takes some where every case occurs.

## 8. Runs

| run | instance | checks |
|---|---|---|
| `index_writers` | flat with duplicates of 2 vectors, or 2 layers without duplicates; 2 inserters, 2 rows an element, 3 places, 3 inserts, 2 VACUUMs, 1 failure | `TypeOK`, `FreedRowsNotIndexed`, `EntryPointValid`, `IndexInv`, `EntriesInv`, `RowsUnderTheirValue`, `LiveRowsIndexed`, `TargetsNotReclaimed`, `EntryChangesAlone`, `ImplementsRowIndex` |
| `index_scan` | flat; 1 inserter, 1 scanner, 4 places; 3 inserts, 2 VACUUMs, 1 failure with scans, or 5 inserts and 1 VACUUM without | `ScansLoadIntactElements`, `LinksIntact` |
| `index_liveness` | flat; 2 inserters, 1 scanner, 2 places, 3 inserts, 1 VACUUM | `VacuumTerminates`, `InsertTerminates` |
| `build_parallel` | leader and up to 2 workers; 4 rows, two equal and one without a vector; 2 levels, `M = 1`; any failure | `BuildInv`, `RowsOnDiskOnce`, `MemoryInArea`, `CountExact`, `EntryHighest`, `LinksWritable`, `LinksOnceAtTop`, `GraphQuietInFlush`, `ImplementsIndexBuild`, `BuildTerminates` |
| `scan_batches` | settings of an uninitialised server, relaxed, strict with limits, with a VACUUM; every symmetric graph of 3 or 4 elements, every directed one of 3, 3 distances | `ScanTypeOK`, `RowsOnce`, `OrderedOutput`, `FirstBatchOptimal`, `NothingLost`, `VersionsTell`, `ScanTerminates` |
| `select_cache` | serial and parallel; 4 elements on 6 points, lists of 2 | `FlagsFresh`, `KeepsReference` |
| `pages_places` | 2 inserters, 3 levels, 1 element built, 2 inserts, 2 VACUUMs, 1 crash | `PagesTypeOK`, `LocksAscend`, `PagesLinked`, `TuplesPaired`, `NoInsertFails`, `PlacesFound`, `AllFinish` |
| `scan_after_repair` | 2 layers; 1 inserter, 1 scanner, 2 places | violates `ScansLoadIntactElements` |
| `insert_during_mark` | flat; 1 inserter, 4 places | violates `InsertsLoadIntactElements` |
| `entry_lost` | flat, `m = 2`; 6 places, restricted behaviours | violates `EntryRestored` |
| `nearest_lost` | 4 elements on the same points, lists of 2 | violates `NearestStays` |
| `build_area` | `maintenance_work_mem` just above the 3 MB; leader and a worker | violates `MemoryInArea` |

**Bounds.** The runs of `MCHnswIndex` add a bounded workload (inserts, VACUUMs and
failures begun) to `HnswIndex` and put `PerPage` elements on a page. With one element
a page VACUUM's walks can be interrupted between any two elements, the finest
interleaving. `M = 1` gives lists of 1 and 2 entries, so lists fill up;
`VersionMax = 2` makes versions wrap after two reclaims; `EfConstruction` and
`EfSearch` of 4 let a search see the whole small graph. Three places let an element be
reclaimed and reused while two others are connected; four fill a list of layer 0 and
prune it; two VACUUMs reuse what the first reclaimed. `index_writers` has two workloads:
merging duplicates and several layers multiply each other's states and meet in no step but
the search, so each has its own, under the same properties. In all runs of `MCHnswIndex`
rows are deleted only while a VACUUM is to come and none is at work (`Deletes`): nothing but
the beginning of a VACUUM looks at whether a row is dead. `entry_lost` needs `m = 2` and
six places, too many for all interleavings: `CrowdedSpec` restricts the behaviours to
those where the inserts come between `RemoveHeapTids` and `RepairGraph`. In
`build_parallel` memory runs out after two elements when workers take part and
fits all three when the leader builds alone, so both ends of the build occur;
`M = 1` and two levels fill arrays on both layers, and `HeapTidsMax = 2` lets a
duplicate find room or none. `scan_batches` covers every graph of its size with
three distances, so ties and unreachable elements occur. In `pages_places` a page
holds two elements of level 0 or one of level 1, and one of level 2 needs two pages, so
elements share a page, are split over two, and do not fit a freed place. In
`select_cache` four elements fill a list of two, change it twice more, and connect again
what the owner chose; on the six points nearest a corner a removed candidate can make
another one closer, and distances tie. Elements are numbered by their distance from
the owner (`MCInit`), as addresses decide only between equal distances. Heap
TIDs, inserters and vectors are symmetric (no run with a liveness property uses symmetry).

**Deadlock.** Not checked in the runs of `MCHnswIndex`: when the workload is used up
the system rests. That nobody waits for ever is what the liveness properties
check. In the other modules the end of the work is an action (`Over`,
`Quiet`), and deadlock is checked.

`ScansLoadIntactElements` and `LinksIntact` are checked on flat graphs, where no
insert is ever above the entry point except the first; with two layers they do
not hold, which is the first finding. The proofs need no flat graph, only that no insert
draws a level above 0 (`LowLevels`, section 9).

### Findings

1. `scan_after_repair`. `RepairGraphElement` returns at once for the entry point.
   `RemoveHeapTids` can remember as highest point an element whose insert is
   still connecting and becomes the entry point before `RepairGraph` waits for
   inserts. The highest point, the entry point and the element met in the loop
   are then the same, all three repairs return, and its connection to an element
   being deleted stays. A scan begun after the wait of `MarkDeleted` follows it
   to a cleared tuple and fails. The comment at `hnswvacuum.c:460` says that
   scans after this point do not contain such tuples.
2. `insert_during_mark`. `MarkDeleted` does not wait for inserts. One that began
   after `RepairGraph`'s barrier can read a list before it is repaired and load a
   TID from it after `MarkDeleted` cleared it; the insert then fails. The hint at
   `hnswvacuum.c:449` relies on the cleanup lock, but a search holds no pin
   between the two steps.
3. `entry_lost`. When the entry point is being deleted and all other elements were
   inserted behind the walk of `RemoveHeapTids`, `RepairGraphEntryPoint` stores an
   empty entry point, "until an element is repaired" (`hnswvacuum.c:294`). If the new
   elements fill each other's lists none of them needs repair, and VACUUM ends with
   rows in the index and no entry point.
4. `build_area`. `esthnswarea - 1 MB` (`hnswbuild.c:994`) is unsigned and wraps for a
   `maintenance_work_mem` just above 3 MB or below 1 MB; the memory limit is then huge, and
   what is said to "never fail" uses the shared area beyond its end.

5. `nearest_lost`. `HnswUpdateConnection` looks for "the pruned element"
   (`hnswutils.c:1189`) and takes the first candidate with that element. In a parallel build a
   list can name an element twice (section 6), and then another candidate than the pruned one
   is overwritten: its flag goes with it, and the flag that stays may be wrong while
   `closerSet` says that it may be used. In the run the owner's list is Z at distance 4 and X,
   the nearest, at 1. X connects again and takes the place of Z: the list is X with flag
   true, set afresh, and X with flag false, as it is not closer than itself. W, at 4, connects,
   the second X is pruned, but the first is overwritten. Z connects, X with its false flag
   is passed over, and in the end pruned: the list has lost its nearest element and
   keeps two that are four times as far. Algorithm 4, which the comment at `hnswutils.c:1035`
   names, keeps the nearest first. The graph stays usable, and its recall suffers.

Seen while modelling, without a line of the repository that says otherwise:

- The version in a tuple has 15 values. After 15 reclaims of one place between two
  calls of an iterative scan, the scan would take the new element for the one it knew.
  With fewer it never does (`VersionsTellCorrect`).
- A resumed iterative scan is not among the scans `MarkDeleted` waits for with respect to
  elements it loaded before; it reads their neighbor tuples again and relies on the
  version.
- In the memory build an element's arrays below its top layer can name another element
  twice (`LinksOnceAtTop` holds at the top only). Finding 5 is what `SelectNeighbors` makes
  of it.
- `CreateGraphPages` leaves the insert page at the last page, and a VACUUM that
  overlaps an insert can leave freed places before the insert page. They are found
  after the next VACUUM (`PlacesFound` excludes the overlap).

### Fairness

- `HnswIndex`: a backend that can take a step takes one (weak fairness; backends are
  processes that keep running), and strong fairness of the steps that acquire a page
  lock: the lock manager queues waiters in order and does not let new sharers pass a
  waiting exclusive request, so a waiter for whom the lock becomes free again and again
  gets it.
- `HnswBuild`: weak fairness of every participant and of the leader's begin, end and
  abort. Weak fairness suffices for the locks, as a participant that waits for one lets
  nobody pass it for ever: `entryWaitLock` is there for that, and the rows are finite.
- `HnswScan`: weak fairness of the scan, which is driven by an executor that keeps
  asking. `HnswPages`: weak fairness of each backend.
- No fairness is assumed of starting an operation, deleting a row, failing or crashing.

## 9. Proofs

From the assumptions named in `HnswIndex` (`SlotsAssumption`, `BoundsAssumption`,
`NamesAssumption`), `HnswBuild` (`BuildNames`, `BuildBounds`) and `HnswPages`
(`PagesConstants`), `HnswScan` (`ScanConstants`: the graph a scan starts with has its
lists and its entry point among its elements, `IndexOK`) and `HnswSelect`
(`SelectConstants`: elements are compared by address, distances are symmetric), for every
number of backends, places, pages, rows, values, levels and versions, every size of tuples
and lists, every graph and all distances:

| module | theorem | statement |
|---|---|---|
| `HnswIndexProofs` | `TypeCorrect` | `Spec => []TypeOK` |
| | `IndexInvariant` | `Spec => []IndexInv` |
| | `EntryPointCorrect` | `Spec => []EntryPointValid` |
| | `LiveRowsCorrect` | `Spec => []LiveRowsIndexed` |
| | `FreedRowsCorrect` | `Spec => []FreedRowsNotIndexed` |
| | `EntryChangesCorrect` | `Spec => EntryChangesAlone` |
| `HnswEntriesProofs` | `EntriesInvariant` | `Spec => []EntriesInv` |
| | `TargetsCorrect` | `Spec => []TargetsNotReclaimed` |
| | `RowsValueCorrect` | `Spec => []RowsUnderTheirValue` |
| | `Refinement` | `Spec => ImplementsRowIndex` |
| | `LinksInvariant` | `Spec /\ []LowLevels => [](OneLayer /\ LinksInv)` |
| | `LinksIntactCorrect` | `Spec /\ []LowLevels => []LinksIntact` |
| | `ScansLoadCorrect` | `Spec /\ []LowLevels => []ScansLoadIntactElements` |
| `HnswBuildProofs` | `BuildInvariant` | `Spec => []BuildInv` |
| | `BuildTypeCorrect` | `Spec => []BuildTypeOK` |
| | `RowsOnDiskOnceCorrect` | `Spec => []RowsOnDiskOnce` |
| | `EntryHighestCorrect` | `Spec => []EntryHighest` |
| | `GraphQuietInFlushCorrect` | `Spec => GraphQuietInFlush` |
| | `BuildRefinement` | `Spec => ImplementsIndexBuild` |
| `HnswGraphProofs` | `CountExactCorrect` | `Spec => []CountExact` |
| | `MemoryInAreaCorrect` | `AreaFits => (Spec => []MemoryInArea)` |
| | `GraphInvariant` | `Spec => []GraphOK` |
| | `LinksWritableCorrect` | `Spec => []LinksWritable` |
| | `LinksOnceAtTopCorrect` | `Spec => []LinksOnceAtTop` |
| `HnswPagesProofs` | `PagesInvariant` | `Spec => []PagesInv` |
| | `PagesTyped` | `Spec => []PagesTypeOK` |
| | `PagesPaired` | `Spec => []TuplesPaired` |
| | `PagesNoFailure` | `Spec => []NoInsertFails` |
| | `PagesLocksAscend` | `Spec => []LocksAscend` |
| | `PagesChained` | `Spec => []PagesLinked` |
| | `PagesPlacesFound` | `Spec => []PlacesFound` |
| `HnswScanProofs` | `ScanInvariant` | `Spec => []ScanInv` |
| | `ScanTyped` | `Spec => []ScanTypeOK` |
| | `OrderedOutputCorrect` | `Spec => []OrderedOutput` |
| | `RowsOnceCorrect` | `Spec => []RowsOnce` |
| | `VersionsTellCorrect` | `VersionsSuffice => (Spec => []VersionsTell)` |
| | `FirstBatchCorrect` | `Spec => []FirstBatchOptimal` |
| | `NothingLostCorrect` | `Spec => []NothingLost` |
| `HnswSelectProofs` | `SelectInvariant` | `Spec => []SelectInv` |
| | `FlagsFreshCorrect` | `Spec => []FlagsFresh` |
| | `KeepsReferenceCorrect` | `Spec => KeepsReference` |

Two theorems have a hypothesis on the constants. `AreaFits` says that `Reserve` is at most
`Area`, that `Area` is below the modulus of `Size`, and that an element of the highest
level fits in `Reserve`; finding 4 is what happens without the first part.
`VersionsSuffice` says that fewer VACUUMs run during a scan than a tuple has versions; the
remark after the findings is what happens without it.

`FlagsFresh` and `KeepsReference` have a condition in their statement: in a parallel build
they speak of a list only until an element connects that it names already (`EachOnce`), and
finding 5 is what happens without it. In a serial build they are unconditional.

Three theorems have a hypothesis on the behavior. `LowLevels` says that no insert in
progress drew a level above 0. For any `MaxLevel` the code has such behaviors, as levels
are random and most are 0; without the hypothesis finding 1 violates both properties, and
that needs only one element of level 1. Nothing else is restricted: any number of inserts,
scans, VACUUMs and failures in any order.

### `IndexInv`

The theorems of `HnswIndexProofs` rest on the inductive invariant `IndexInv`, which
`index_writers` also checks. Its parts beyond the properties, and why they are needed:

- `RowsOwned`: inserts in progress own different rows that VACUUM does not
  remove. Without it VACUUM could remove a row just inserted.
- `FreePlacesEmpty`: what `AddElement` overwrites holds no row.
- `InsertsIndexed`: the element an insert connects still holds its row and has
  its level, so committing keeps `LiveRowsIndexed` and making it the entry point
  keeps `EntryPointValid`.
- `VacuumTracks`: the highest point and the loaded elements keep a row that
  VACUUM does not remove, so `MarkDeleted` never reclaims one of them and each
  can become the entry point.
- `VacuumSweeps`: in the part of the chain already walked no dead row is left and
  every empty element is listed. An insert that reuses a listed place or appends
  a page brings only its own row, so this survives it. It gives
  `FreedRowsNotIndexed` at the end.
- `EntryHeld`: from `RepairGraphEntryPoint` on, the entry point holds a row, so
  `MarkDeleted` does not clear it.
- `UpdateLockHeld`: the update lock excludes, and whoever will replace the entry
  point (its level is above the one it read) holds it exclusively. This gives
  `EntryChangesAlone`.

The module has one lemma per action and part (`...Type` for `TypeOK`, `...Inv`
for the rest), and the temporal theorems combine them.

### `EntriesInv`

That a row is under its own vector is not inductive: an insert adds its row to a
duplicate it compared without a lock, and writes to positions it read before. What
makes it safe is why the element cannot have been reclaimed: VACUUM clears it only
after it emptied it and waited for inserts.

- `TargetsHeld`: every element a writer may still write to (`Held`: loaded with a row,
  selected, or still to be connected) is the one it loaded, and once VACUUM has waited for
  inserts, has a row, so VACUUM will not reclaim it.
- `HoldersLock`: whoever has such elements holds the update lock, so that VACUUM's wait,
  which takes that lock exclusively, finds nobody with an element it emptied.
- `InsertsOwnRow`: an insert has its row's own vector, and its TID is in no element
  before it writes it.

From these `TargetsNotReclaimed` follows, from that `RowsUnderTheirValue`, and with
`IndexInv` each step is a step of `RowIndex` or a stutter (`NextRefines`).

### `LinksInv`

`LinksIntact` and `ScansLoadIntactElements` say that `MarkDeleted` reclaims nothing that can
still be reached. VACUUM repairs one element after another while inserts connect new ones,
and decides by page what to repair, so the argument has two halves. On layer 0 (`OneLayer`)
`Links(s)` are the connections of an element; it is `Clean` if each leads to an element
with rows.

- `Intact`: there is a set `G` of elements that are not reclaimed, closed under connections,
  with every element that has rows, the entry point, what every scan is about to load or
  has loaded, and what every writer holds (`Region`). Inserts and repairs connect only what
  is in `G`, so `G` grows by the new elements. `MarkDeleted` takes out only elements without
  rows: a new `G`, the elements with rows, must be found for it, and the second half says
  that it is closed. A set is needed rather than "nobody is about to load a reclaimed
  element": an emptied element not yet reclaimed may lead to others, and a search walks on
  through it.
- `VacuumClean`: what VACUUM has behind it is clean. `InsertsClean`: what inserts connect
  after VACUUM's wait for them. `HighClean`, `EntryClean`: the highest point and the entry
  point, which are repaired first and in each other's stead. `LoopClean`: the elements on
  pages before the one in work, and on that page those that have left the queue. At
  `MarkDeleted` every element with rows is clean.
- `CleanStays` is how this survives the others' steps: connections are added only to elements
  with rows (`TargetsHeld` of `EntriesInv`), and past the wait no row is removed.
- `EntryKnown`: the entry point is the one `RemoveHeapTids` read, so that the highest point is
  another element. If VACUUM found no entry point, inserts may make one, even one that is
  remembered as highest point, which no repair then touches; it is clean because that
  whole new graph (`NewGraph`) leads to none of the old elements.
- `ScansHold`: after the wait of `MarkDeleted` no scan holds an element without rows; it
  began at the entry point, in a graph where all is clean.
- `LocksMatch`: who holds the update or scan lock at which step. An insert that found no
  entry point is alone, and nobody has connected anything to its element.

TLC checked `LinksInv` with `MaxLevel = 0` before it was proved: on the instance of
`index_scan` (1.7 million states), and with two inserters and a scanner (0.4 million). The proof has
one lemma per action or group of actions (`...Links`); what a step does is first brought into
a common form (`InsertMove`, `Growth`, `Walks`), and the frames (`RegionFrame`, `CleanFrame`)
speak of that. `OneLayer` is proved beside it (`...Layers`).

### `BuildInv`

- `ScanInv`: while nobody failed, `ndone` counts the finished participants, and whoever
  finished saw the end of the scan. With finitely many participants, `ndone` equal to
  their number means that all have finished, which `BuildEnd` needs.
- `LockInv`: `flushLock` is held exactly by those who work on the graph or write it, and
  by nobody after the flush; locks exclude. This alone gives `GraphQuietInFlush`.
- `OwnerInv`: participants have different rows, which the scan handed out; what they read
  is in the list.
- `ElementInv`: elements of the list have their own row and share none, so the
  flush writes each row once.
- `RowInv`: a row with a vector is to be handed out, or indexed, or pending with one
  participant; pending rows are not indexed. This gives `RowsOnDiskOnce` and, when all have
  finished, that every row is indexed.
- `EntryInv`: whoever holds `entryLock` read the entry point that still is one, and has an
  element above it only if it holds the lock exclusively; only such an element is above
  the entry point. This gives `EntryHighest`, although the level is compared before the
  exclusive lock.

Each part has a frame lemma that says which steps keep it; an action's lemma cites the
frames and proves the parts the action really changes.

### `CountOK`, `MemoryOK` and `GraphOK`

These come on top of `BuildInv`.

- `CountOK`: while nobody failed, `indtuples` is the number of rows that were handed out and
  let go of (`Counted`); a build that succeeded has let go of all. Every step but `NextRow`
  and `Count` leaves that set alone (`Stays`).
- `MemoryOK`: a participant checks the limit and allocates under one hold of
  `allocatorLock`, so the memory used exceeds the limit by less than an element.
- `GraphOK`: an array is changed by its owner before the element is in the list, then once
  more by the owner layer by layer (`CopyNeighbors`), and in between by everyone who
  connects to it.
  - `LinksFit`, `LinksOnce`: the two properties, for the elements of the list and those
    about to enter it (`Built`), whose arrays were chosen among elements of the list.
  - `LayerOK`, `TodoOK`: a participant that connects a layer is at one its element has,
    and those it still has to connect have it too and are in the list.
  - `NotEntry`: an element being connected is not the entry point, so before its top layer
    is connected no search can return it. Hence `ArraysOwn`, nobody has added to its
    arrays, and `Unnamed`, nobody names it or is about to.
  - `TopOnce`: when it connects its top layer it is in none of the arrays it will be added
    to. On the layers below others may have put it there already, which is why
    `LinksOnceAtTop` says nothing of them.

### `PagesInv`

- `StateOK`: the pages form a chain (`Chained`: each names the next, and free space and
  items add up to the page), and every element and its neighbor tuple name each other, the
  neighbor tuple never on an earlier page (`Pairs`). Hence a second lock is always that of
  a later page.
- `InsertOK`: what an insert knows of the page it holds. It has the lock of the page it
  looks at; the place it waits for a second lock with is still a deleted element, because
  only the holder of that lock could take it; the page it appended is still empty and the
  last. `NoInsertFails` needs the last part: the page a neighbor tuple goes to has room
  because nobody reached it first.
- `VacuumOK`: the same for `MarkDeleted`, and that the page it will name as insert page is
  not after the one it is on.
- `RoomOK`: every insert in progress appends two pages at most, so the pages stay within
  the bound the locks are modelled for.
- `BuildOK`, `FoundOK`: no deleted place is before the page that an insert in progress, or
  VACUUM, would make the insert page. An insert that began before a VACUUM freed places
  breaks this, which is why `PlacesFound` excludes the overlap.

The space of a page is a sum over a sequence. What `SizeOf` does when an item is appended
or overwritten (`SizeOfAppend`, `SizeOfExcept`) is proved with `SetInduction`: induction
stated for sets of numbers, which needs no operator parameter. `Changes` says what a step
does to other pages; the lemmas on it let each action's proof look at one page only.

### `ScanInv` and the invariants on it

TLC checked each of these on the instances of `scan_batches` before it was proved.

- `ScanInv` has the types (`IndexType`, `VacType`, `ScanType`) and `Phase`: which parts of
  `so` and `srch` are empty at which point of `hnswgettuple`. A candidate is an element of
  the index as it was when it was loaded (`Loaded`): the tuple may have changed since.
- `OrderInv`: no row returned is farther than `so->previousDistance`, which only grows.
  This gives `OrderedOutput`, for batches that are not ordered among each other.
- `OnceInv`: the batch and the discarded heap share no element, hold each once, and only
  elements that were visited; of those in the discarded heap, and in a search also of those
  in `W`, no row was returned. As the visited set only grows, what was met once is not
  loaded again, though VACUUM and an insert put another element there. This gives
  `RowsOnce`.
- `VersionInv`: a place was cleared at most once by each VACUUM (`Due`: those the current
  one has yet to clear have not reached its number), and its version is one more than the
  number of its reclaims, as long as that does not wrap. This gives `VersionsTell`.
- `Still`: before the first VACUUM every candidate still is what the tuple says.
- `SearchInv`: in the first search `W` has `ef` elements as soon as that many were met, what
  was met and is not in it is no nearer than any of it, and each of its elements was
  expanded or is in `C`. When the search ends, what is left of `C` is farther than `W`, so
  all of `W` was expanded: `FirstBatchOptimal`.
- `EndInv`, `KeepInv`: a row that was met is in the batch or the discarded heap, returned, or
  in strict order too late (`Safe`), and an iterative scan ends only when batch and heap are
  empty. `ReachInv`: an element that was met was expanded, or waits in `C` or the
  discarded heap to be (`Waiting`), unless a limit was reached. Together `NothingLost`.

These proofs failed at first: `FirstCall` on an index without an entry point kept
the batch of the scan before `hnswrescan`. In the code `so->w` becomes the empty list that
`GetScanItems` returns; the model now does the same, and the run's setup with a VACUUM
has a rescan too.

### `SelectInv`

`SelectInv` says what one neighbor list is between two calls: at most `Lm` candidates, each
with a place, and when the flags are set, exactly `Lm`. In a serial build no element connects
that the list names (what it names is not in `todo`), so `again` stays false; and while
`again` is false the list names each element once (`Distinct`), and each flag is as if it had
just been computed (`FlagsFresh`). Then the order of the candidates is strict
(`SortedIs`, for any number of them and whatever `list_sort` does with ties), and the
candidate replaced is the one pruned (`ReplacedIs`). After such a connection only the types are
claimed. The work is in one call of `HnswUpdateConnection` on a full list.

- `KeptOf` is defined from `Diverse`, the set of candidates that are nearer to the list's
  own element than to every member before them. `DiverseExists` and `DiverseUnique` show
  that there is exactly one such set for every distance function, by induction over the
  sorted candidates (`SetInduction`).
- `LoopTurns` unfolds the recursive function once; `LoopInv` is what holds after each turn.
  `Exact`: `r` and `wd` are the diverse and the other ones of the candidates looked at, and
  the flags say so. `Reused` is why the cache works: before the new candidate nothing
  differs from the list's last call; after it `added` has those that are diverse
  now and were not before, and `removedAny` says that one no longer is. So a candidate that
  was diverse needs to be compared only with `added`, and one that was not need be looked
  at only after a removal (`JudgeRight`).
- The list had `Lm` elements and one is new, so one is left out: `KeepsAllSeen` and
  `KeepsFull` show that filling up `r` from `wd` and pruning one leaves `KeptOf`, and
  `FlagsFresh` follows as the one left out is never a diverse one before a kept one.

### Only model-checked

Liveness, as the prover handles neither fairness nor `ENABLED`: `VacuumTerminates`,
`InsertTerminates`, `BuildTerminates`, `ScanTerminates`, `AllFinish`. And the violations of
section 8, which are counterexamples and need no proof.

## 10. Not modelled

- The `vector` type (`vector.c`): parsing, output and arithmetic are sequential
  functions over text and floating-point numbers. TLC has no floats, and with numbers in
  their place nothing would be left that a reader could get wrong. That the distance
  functions reject a cleared vector is in `HnswIndex` and `HnswScan` (`LoadFails`).
- The handler, options and cost estimate (`hnsw.c`): no state shared between backends.
  That `HnswInit` is never called, so that the settings are 0, is one of the settings of
  `scan_batches`.
- Progress reports, memory contexts, statistics, WAL record contents.
- PostgreSQL itself is external: its page locks, heap, buffers and transaction abort
  appear as definitions marked external in the map. The repository holds the server
  twice (`pgvec/` and `example/`), some 3.3 million lines against about 5,700 of the
  access method and the vector type; the map covers nearly all of the access method that
  changes state and so only a fraction of a percent of the repository. Modelling the
  server's own subsystems would say nothing about this program.
- `example/` has the same access method as `pgvec/`; modelling it again would repeat the
  project.
