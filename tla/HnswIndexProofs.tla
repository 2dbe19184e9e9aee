-------------------------- MODULE HnswIndexProofs --------------------------
(***************************************************************************)
(* Theorems about HnswIndex, for every number of backends, places, rows    *)
(* and layers.                                                             *)
(***************************************************************************)
EXTENDS HnswIndex, FiniteSetTheorems, TLAPS

USE SlotsAssumption, BoundsAssumption, NamesAssumption
-----------------------------------------------------------------------------
(***************************************************************************)
(* Types of the operators.                                                 *)
(***************************************************************************)

\* The positions of a layer fit into the list of any layer.
LEMMA LayerMType == ASSUME NEW lc \in Levels PROVE LayerM(lc) \in 1..(2 * M)
BY DEF LayerM, Levels

\* A tuple loaded into memory is an element.
LEMMA LoadType ==
  ASSUME TypeOK, NEW s \in Slots PROVE LoadFromTuple(s) \in Element
BY DEF TypeOK, LoadFromTuple, ElementTuple, Element

\* What replaces the heap TIDs of an element tuple.
LEMMA HeapTidsType ==
  ASSUME NEW e \in ElementTuple, NEW H \in SUBSET HeapTids
  PROVE  [e EXCEPT !.heaptids = H] \in ElementTuple
BY DEF ElementTuple

\* The lists MarkDeleted leaves.
LEMMA EmptyListsType == EmptyLists \in Lists
BY DEF EmptyLists, Lists, Tids0

\* HnswSetNeighborTuple writes a list of index TIDs per layer.
LEMMA NeighborListsType ==
  ASSUME NEW chosen \in SUBSET Connection PROVE NeighborLists(chosen) \in Lists
<1>1. ASSUME NEW lc \in Levels, NEW i \in 1..(2 * M), \E c \in chosen : c.lc = lc /\ c.i = i
      PROVE  (CHOOSE c \in chosen : c.lc = lc /\ c.i = i).nb.tid \in Slots
  BY <1>1 DEF Connection, Element
<1>2. QED
  BY <1>1 DEF NeighborLists, Lists, Tids0

\* SelectNeighbors and AddConnections give connections to the candidates.
LEMMA SelectionsType ==
  ASSUME NEW p, NEW W \in SUBSET Element, NEW lc \in Levels, NEW q \in Selections(p, W, lc)
  PROVE  q \in SUBSET Connection
<1> DEFINE c == Selectable(p, W)
<1>1. PICK f \in Orders(c, LayerM(lc)) : q = Numbered(lc, f)
  BY DEF Selections
<1>2. PICK n \in 0..LayerM(lc) : f \in [1..n -> c]
  BY DEF Orders
<1>3. \A i \in 1..n : i \in 1..(2 * M) /\ f[i] \in Element
  BY <1>2, LayerMType DEF Selectable
<1>4. QED
  BY <1>1, <1>2, <1>3 DEF Connection, Numbered

\* A layer ends with elements that were loaded on it.
LEMMA NearestType ==
  ASSUME TypeOK, NEW p \in Procs, NEW W \in Nearest(p) PROVE W \in SUBSET srch[p].hnd
BY DEF Nearest

\* HnswEntryCandidate starts a search.
LEMMA SearchType ==
  ASSUME NEW e \in Entry, e.tid # NoTid PROVE Search(e) \in SearchState
<1>1. e.tid \in Slots /\ e.level \in Levels
  BY DEF Entry, NoEntry
<1>2. QED
  BY <1>1 DEF Search, SearchState

\* The private state of an idle backend.
LEMMA NoStateTypes ==
  /\ NoSearch \in SearchState
  /\ NoJob \in Job
  /\ VacIdle \in VacState
  /\ NoEntry \in Entry
BY DEF NoSearch, SearchState, NoJob, Job, VacIdle, VacState, NoEntry, Entry, Levels, Tids0, NoTid
-----------------------------------------------------------------------------
(***************************************************************************)
(* Type correctness.                                                       *)
(***************************************************************************)
LEMMA InitType == Init => TypeOK
BY EmptyListsType, NoStateTypes
DEF Init, TypeOK, JobsNamed, VacIdle, ElementTuple, NeighborTuple, Levels, Procs, Writers, InsertPc, VacuumPc

\* LoadElement keeps TypeOK.
LEMMA LoadElementType ==
  ASSUME TypeOK, NEW p \in Procs, LoadElement(p) PROVE TypeOK'
<1>1. PICK t \in srch[p].pend :
        srch' = [srch EXCEPT ![p].pend = @ \ {t},
                             ![p].hnd = IF etup[t].level < srch[p].lc THEN @
                                        ELSE @ \union {LoadFromTuple(t)}]
  BY DEF LoadElement
<1>2. srch[p] \in SearchState
  BY DEF TypeOK
<1>3. LoadFromTuple(t) \in Element
  BY <1>2, LoadType DEF SearchState
<1>4. srch'[p] \in SearchState
  BY <1>1, <1>2, <1>3 DEF SearchState, TypeOK
<1>5. srch' \in [Procs -> SearchState]
  BY <1>1, <1>4 DEF TypeOK
<1>6. QED
  BY <1>5 DEF LoadElement, TypeOK, JobsNamed

\* ReadNeighbors keeps TypeOK.
LEMMA ReadNeighborsType ==
  ASSUME TypeOK, NEW p \in Procs, ReadNeighbors(p) PROVE TypeOK'
<1> DEFINE list(h) == IF ntup[h.tid].version = h.version /\ ntup[h.tid].level = h.level
                        THEN ListPrefix(ntup[h.tid].tids[srch[p].lc], LayerM(srch[p].lc))
                        ELSE {}
           new(h) == list(h) \ srch[p].vis
<1>1. PICK h \in srch[p].hnd \ srch[p].exp :
        srch' = [srch EXCEPT ![p].exp = @ \union {h}, ![p].pend = new(h),
                             ![p].vis = @ \union new(h)]
  BY DEF ReadNeighbors
<1>2. srch[p] \in SearchState /\ h \in Element
  BY DEF TypeOK, SearchState
<1>3. list(h) \in SUBSET Slots
  <2>1. ntup[h.tid].tids \in Lists /\ srch[p].lc \in Levels
    BY <1>2 DEF TypeOK, NeighborTuple, Element, SearchState
  <2>2. LayerM(srch[p].lc) \in 1..(2 * M)
    BY <2>1, LayerMType
  <2>3. ListPrefix(ntup[h.tid].tids[srch[p].lc], LayerM(srch[p].lc)) \in SUBSET Slots
    BY <2>1, <2>2 DEF ListPrefix, Lists, Tids0
  <2>4. QED
    BY <2>3
<1>4. new(h) \in SUBSET Slots
  BY <1>3
<1> HIDE DEF new
<1>5. srch'[p] \in SearchState
  BY <1>1, <1>2, <1>4 DEF SearchState, TypeOK
<1>6. srch' \in [Procs -> SearchState]
  BY <1>1, <1>5 DEF TypeOK
<1>7. QED
  BY <1>6 DEF ReadNeighbors, TypeOK, JobsNamed

\* Steps of a backend of each kind keep the types of pc.
LEMMA InserterPcType ==
  ASSUME TypeOK, NEW p \in Inserters, NEW x \in InsertPc, pc' = [pc EXCEPT ![p] = x]
  PROVE  /\ pc' \in [Procs -> InsertPc \union VacuumPc]
         /\ \A i \in Inserters : pc'[i] \in InsertPc
         /\ \A i \in Scanners : pc'[i] \in {"idle", "search"}
         /\ pc'[Vac] \in VacuumPc
BY DEF TypeOK, Procs, Writers

\* The next step of VACUUM is one of VACUUM.
LEMMA VacuumPcType ==
  ASSUME TypeOK, NEW x \in VacuumPc, pc' = [pc EXCEPT ![Vac] = x]
  PROVE  /\ pc' \in [Procs -> InsertPc \union VacuumPc]
         /\ \A i \in Inserters : pc'[i] \in InsertPc
         /\ \A i \in Scanners : pc'[i] \in {"idle", "search"}
         /\ pc'[Vac] \in VacuumPc
BY DEF TypeOK, Procs, Writers

\* NextLayer keeps TypeOK.
LEMMA NextLayerType ==
  ASSUME TypeOK, NEW p \in Procs, NextLayer(p) PROVE TypeOK'
<1>1. PICK W \in Nearest(p) : NextLayer(p)!3!(W)
  BY DEF NextLayer
<1>2. srch[p] \in SearchState /\ W \in SUBSET Element
  BY NearestType DEF TypeOK, SearchState
<1>3. srch[p].lc - 1 \in Levels
  BY <1>2 DEF SearchState, NextLayer, Levels
<1>4. srch' \in [Procs -> SearchState]
  <2>1. {h.tid : h \in W} \in SUBSET Slots
    BY <1>2 DEF Element
  <2>2. [lc |-> srch[p].lc - 1, hnd |-> W, exp |-> {}, vis |-> {h.tid : h \in W},
         pend |-> {}] \in SearchState
    BY <1>2, <1>3, <2>1 DEF SearchState
  <2>3. QED
    BY <1>1, <2>2 DEF TypeOK
<1>5. sel' \in [Writers -> SUBSET Connection]
  <2>1. srch[p].lc \in Levels
    BY <1>2 DEF SearchState
  <2>2. \A q \in Selections(p, W, srch[p].lc) : q \in SUBSET Connection
    BY <1>2, <2>1, SelectionsType
  <2>3. QED
    BY <1>1, <2>2 DEF TypeOK
<1>6. QED
  BY <1>4, <1>5 DEF NextLayer, TypeOK, JobsNamed

\* WriterSearchDone keeps TypeOK.
LEMMA WriterSearchDoneType ==
  ASSUME TypeOK, NEW p \in Writers, WriterSearchDone(p) PROVE TypeOK'
<1>1. PICK W \in Nearest(p) : \E q \in Selections(p, W, 0) :
        /\ sel'  = [sel EXCEPT ![p] = @ \union q]
        /\ todo' = [todo EXCEPT ![p] = q]
  BY DEF WriterSearchDone
<1>0. PICK q \in Selections(p, W, 0) :
        /\ sel'  = [sel EXCEPT ![p] = @ \union q]
        /\ todo' = [todo EXCEPT ![p] = q]
  BY <1>1
<1>2. p \in Procs /\ W \in SUBSET Element
  BY NearestType DEF TypeOK, SearchState, Procs
<1>3. q \in SUBSET Connection
  BY <1>2, SelectionsType DEF Levels
<1>4. /\ sel' \in [Writers -> SUBSET Connection]
      /\ todo' \in [Writers -> SUBSET Connection]
      /\ srch' \in [Procs -> SearchState]
  BY <1>0, <1>2, <1>3, NoStateTypes DEF WriterSearchDone, TypeOK
<1>5. /\ pc' \in [Procs -> InsertPc \union VacuumPc]
      /\ \A i \in Inserters : pc'[i] \in InsertPc
      /\ \A i \in Scanners : pc'[i] \in {"idle", "search"}
      /\ pc'[Vac] \in VacuumPc
  BY DEF WriterSearchDone, TypeOK, Procs, Writers, InsertPc, VacuumPc
<1>6. JobsNamed'
  BY DEF WriterSearchDone, TypeOK, JobsNamed, LayerDone
<1>7. QED
  BY <1>4, <1>5, <1>6 DEF WriterSearchDone, TypeOK

\* UnlockPage leaves well typed private state.
LEMMA ReleaseType ==
  ASSUME TypeOK, NEW p \in Writers, Release(p)
  PROVE  /\ lock' \in [Procs -> {"none", "share", "exclusive"}]
         /\ job' \in [Writers -> Job]
         /\ ep' \in [Procs -> Entry]
         /\ srch' \in [Procs -> SearchState]
         /\ sel' \in [Writers -> SUBSET Connection]
         /\ todo' \in [Writers -> SUBSET Connection]
BY NoStateTypes DEF Release, TypeOK

\* Setting one field of a writer's job.
LEMMA JobFieldType ==
  ASSUME TypeOK, NEW p \in Writers
  PROVE  /\ \A i \in 0..(2 * M) : [job EXCEPT ![p].idx = i] \in [Writers -> Job]
         /\ \A l \in Levels : [job EXCEPT ![p].level = l] \in [Writers -> Job]
<1>1. job[p] \in Job /\ job \in [Writers -> Job]
  BY DEF TypeOK
<1>2. \A i \in 0..(2 * M) : [job[p] EXCEPT !.idx = i] \in Job
  BY <1>1 DEF Job
<1>3. \A l \in Levels : [job[p] EXCEPT !.level = l] \in Job
  BY <1>1 DEF Job
<1>4. QED
  BY <1>1, <1>2, <1>3

\* The position found by GetUpdateIndex leaves the row and the element alone.
LEMMA JobIndexKeeps ==
  ASSUME job \in [Writers -> Job], NEW p, NEW i, job' = [job EXCEPT ![p].idx = i]
  PROVE  \A q \in Writers : job'[q].heaptid = job[q].heaptid /\ job'[q].tid = job[q].tid
BY DEF Job

\* GetUpdateIndex keeps TypeOK.
LEMMA GetUpdateIndexType ==
  ASSUME TypeOK, NEW p \in Writers, GetUpdateIndex(p) PROVE TypeOK'
<1>1. PICK c \in todo[p] : GetUpdateIndex(p)!2!(c)
  BY DEF GetUpdateIndex
<1>2. c \in Connection /\ LayerM(c.lc) \in 1..(2 * M)
  BY LayerMType DEF TypeOK, Connection
<1>a. \/ UNCHANGED job
      \/ \E i \in 0..(2 * M) : job' = [job EXCEPT ![p].idx = i]
  <2>1. \A i : i \in 1..LayerM(c.lc) \/ i \in {0} => i \in 0..(2 * M)
    BY <1>2
  <2>2. QED
    BY Zenon, <1>1, <2>1
<1>3. job' \in [Writers -> Job]
  BY <1>a, JobFieldType DEF TypeOK
<1>4. todo' \in [Writers -> SUBSET Connection]
  <2>1. UNCHANGED todo \/ todo' = [todo EXCEPT ![p] = @ \ {c}]
    BY <1>1
  <2>2. QED
    BY <2>1 DEF TypeOK
<1>5. /\ pc' \in [Procs -> InsertPc \union VacuumPc]
      /\ \A i \in Inserters : pc'[i] \in InsertPc
      /\ \A i \in Scanners : pc'[i] \in {"idle", "search"}
      /\ pc'[Vac] \in VacuumPc
  <2>1. pc' = [pc EXCEPT ![p] = "update"] \/ UNCHANGED pc
    BY <1>1
  <2>2. QED
    BY <2>1 DEF TypeOK, Procs, Writers, InsertPc, VacuumPc
<1>6. JobsNamed'
  <2>1. \A q \in Writers : job'[q].heaptid = job[q].heaptid /\ job'[q].tid = job[q].tid
    BY <1>a, JobIndexKeeps DEF TypeOK
  <2>2. QED
    BY <1>1, <2>1 DEF GetUpdateIndex, TypeOK, JobsNamed, Writers, Procs
<1>7. QED
  BY <1>3, <1>4, <1>5, <1>6 DEF GetUpdateIndex, TypeOK

\* UpdateNeighbor keeps TypeOK.
LEMMA UpdateNeighborType ==
  ASSUME TypeOK, NEW p \in Writers, UpdateNeighbor(p) PROVE TypeOK'
<1> DEFINE pos(c) == UpdatePosition(ntup[c.nb.tid].tids[c.lc], LayerM(c.lc), job[p].idx,
                                    job[p].tid, p = Vac)
           list(c) == [i \in 1..(2 * M) |-> IF i \in pos(c) THEN job[p].tid
                                           ELSE ntup[c.nb.tid].tids[c.lc][i]]
<1>1. PICK c \in todo[p] :
        /\ ntup' = [ntup EXCEPT ![c.nb.tid].tids[c.lc] = list(c)]
        /\ todo' = [todo EXCEPT ![p] = @ \ {c}]
  BY DEF UpdateNeighbor
<1>2. c \in Connection /\ c.nb.tid \in Slots /\ c.lc \in Levels
  BY DEF TypeOK, Connection, Element
<1>3. ntup[c.nb.tid].tids \in Lists
  BY <1>2 DEF TypeOK, NeighborTuple
<1>4. list(c) \in [1..(2 * M) -> Tids0]
  BY <1>2, <1>3 DEF TypeOK, Lists, Job
<1> HIDE DEF list
<1>5. [ntup[c.nb.tid].tids EXCEPT ![c.lc] = list(c)] \in Lists
  BY <1>3, <1>4 DEF Lists
<1>6. ntup' = [ntup EXCEPT ![c.nb.tid] =
                 [ntup[c.nb.tid] EXCEPT !.tids = [ntup[c.nb.tid].tids EXCEPT ![c.lc] = list(c)]]]
  BY <1>1
<1>7. [ntup[c.nb.tid] EXCEPT !.tids = [ntup[c.nb.tid].tids EXCEPT ![c.lc] = list(c)]]
        \in NeighborTuple
  <2>1. ntup[c.nb.tid] \in NeighborTuple
    BY <1>2 DEF TypeOK
  <2>2. \A x \in Lists : [ntup[c.nb.tid] EXCEPT !.tids = x] \in NeighborTuple
    BY <2>1 DEF NeighborTuple
  <2>3. QED
    BY <1>5, <2>2
<1>8. ntup' \in [Slots -> NeighborTuple]
  BY <1>6, <1>7 DEF TypeOK
<1>9. job' \in [Writers -> Job] /\ todo' \in [Writers -> SUBSET Connection]
  <2>1. job' = [job EXCEPT ![p].idx = 0]
    BY Zenon DEF UpdateNeighbor
  <2>2. 0 \in 0..(2 * M)
    OBVIOUS
  <2>3. job' \in [Writers -> Job]
    BY <2>1, <2>2, JobFieldType
  <2>4. QED
    BY <1>1, <2>3 DEF TypeOK
<1>10. /\ pc' \in [Procs -> InsertPc \union VacuumPc]
       /\ \A i \in Inserters : pc'[i] \in InsertPc
       /\ \A i \in Scanners : pc'[i] \in {"idle", "search"}
       /\ pc'[Vac] \in VacuumPc
  BY DEF UpdateNeighbor, TypeOK, Procs, Writers, InsertPc, VacuumPc
<1>11. JobsNamed'
  <2>1. \A q \in Writers : job'[q].heaptid = job[q].heaptid /\ job'[q].tid = job[q].tid
    BY Zenon, JobIndexKeeps DEF UpdateNeighbor, TypeOK
  <2>2. QED
    BY <2>1 DEF UpdateNeighbor, TypeOK, JobsNamed, Writers, Procs
<1>12. QED
  BY <1>8, <1>9, <1>10, <1>11 DEF UpdateNeighbor, TypeOK

\* HnswFindElementNeighbors starts from the entry point of the metapage.
LEMMA FindNeighborsType ==
  ASSUME TypeOK, NEW p \in Procs, FindNeighbors(p, meta)
  PROVE  ep' \in [Procs -> Entry] /\ srch' \in [Procs -> SearchState]
BY SearchType, NoStateTypes DEF FindNeighbors, TypeOK

\* InsertBegin keeps TypeOK.
LEMMA InsertBeginType ==
  ASSUME TypeOK, NEW p \in Inserters, InsertBegin(p) PROVE TypeOK'
<1>1. PICK t \in HeapTids, v \in Values :
        /\ row'    = [row EXCEPT ![t] = "inserting"]
        /\ rowval' = [rowval EXCEPT ![t] = v]
        /\ job'    = [job EXCEPT ![p].heaptid = t, ![p].value = v]
  BY DEF InsertBegin
<1>2. job'[p] \in Job
  <2>1. job[p] \in Job
    BY DEF TypeOK, Writers
  <2>2. job'[p] = [job[p] EXCEPT !.heaptid = t, !.value = v]
    BY <1>1 DEF TypeOK, Writers
  <2>3. QED
    BY <2>1, <2>2 DEF Job
<1>3. job' \in [Writers -> Job]
  BY <1>1, <1>2 DEF TypeOK
<1>4. JobsNamed'
  BY <1>1 DEF InsertBegin, TypeOK, JobsNamed, Job, Writers, Procs
<1>5. QED
  BY <1>1, <1>3, <1>4, InserterPcType DEF InsertBegin, TypeOK, InsertPc

\* InsertLock keeps TypeOK.
LEMMA InsertLockType ==
  ASSUME TypeOK, NEW p \in Inserters, InsertLock(p) PROVE TypeOK'
<1>1. p \in Procs /\ p \in Writers
  BY DEF Procs, Writers
<1>2. job' \in [Writers -> Job]
  BY <1>1, JobFieldType DEF InsertLock
<1>3. lock' \in [Procs -> {"none", "share", "exclusive"}]
  BY DEF InsertLock, TypeOK
<1>4. ep' \in [Procs -> Entry] /\ srch' \in [Procs -> SearchState]
  BY <1>1, FindNeighborsType DEF InsertLock, TypeOK
<1>5. JobsNamed'
  <2>1. \A q \in Writers : job'[q].heaptid = job[q].heaptid /\ job'[q].tid = job[q].tid
    BY DEF InsertLock, TypeOK, Job
  <2>2. QED
    BY <2>1 DEF InsertLock, TypeOK, JobsNamed, Writers, Procs
<1>6. QED
  BY <1>2, <1>3, <1>4, <1>5, InserterPcType DEF InsertLock, TypeOK, InsertPc

\* InsertLockExclusive keeps TypeOK.
LEMMA InsertLockExclusiveType ==
  ASSUME TypeOK, NEW p \in Inserters, InsertLockExclusive(p) PROVE TypeOK'
<1>1. p \in Procs
  BY DEF Procs, Writers
<1>2. ep' \in [Procs -> Entry] /\ srch' \in [Procs -> SearchState]
  BY <1>1, FindNeighborsType DEF InsertLockExclusive
<1>3. JobsNamed'
  BY DEF InsertLockExclusive, TypeOK, JobsNamed, Writers, Procs
<1>4. QED
  BY <1>2, <1>3, InserterPcType DEF InsertLockExclusive, TypeOK, InsertPc

\* AddDuplicate keeps TypeOK.
LEMMA AddDuplicateType ==
  ASSUME TypeOK, NEW p \in Inserters, AddDuplicate(p) PROVE TypeOK'
<1>1. p \in Writers
  BY DEF Writers
<1>2. PICK c \in todo[p] : AddDuplicate(p)!2!(c)
  BY DEF AddDuplicate
<1>3. c.nb.tid \in Slots
  BY <1>1 DEF TypeOK, Connection, Element
<1>4. CASE /\ etup' = [etup EXCEPT ![c.nb.tid].heaptids = @ \union {job[p].heaptid}]
           /\ pc'   = [pc EXCEPT ![p] = "finish"]
           /\ UNCHANGED todo
  <2>1. SUFFICES etup' \in [Slots -> ElementTuple] /\ JobsNamed'
    BY <1>4, InserterPcType DEF AddDuplicate, TypeOK, InsertPc
  <2>2. job[p].heaptid \in HeapTids
    BY DEF AddDuplicate, TypeOK, JobsNamed
  <2>3. [etup[c.nb.tid] EXCEPT !.heaptids = @ \union {job[p].heaptid}] \in ElementTuple
    <3>1. etup[c.nb.tid] \in ElementTuple
      BY <1>3 DEF TypeOK
    <3>2. etup[c.nb.tid].heaptids \union {job[p].heaptid} \in SUBSET HeapTids
      BY <2>2, <3>1 DEF ElementTuple
    <3>3. QED
      BY <3>1, <3>2, HeapTidsType
  <2>4. JobsNamed'
    BY <1>1, <1>4 DEF AddDuplicate, TypeOK, JobsNamed, Procs
  <2>5. QED
    BY <1>4, <2>3, <2>4 DEF TypeOK
<1>5. CASE todo' = [todo EXCEPT ![p] = @ \ {c}] /\ UNCHANGED <<etup, pc>>
  BY <1>1, <1>5 DEF AddDuplicate, TypeOK, JobsNamed
<1>6. QED
  BY <1>2, <1>4, <1>5

\* AddElement keeps TypeOK.
LEMMA AddElementType ==
  ASSUME TypeOK, NEW p \in Inserters, AddElement(p) PROVE TypeOK'
<1>1. p \in Writers
  BY DEF Writers
<1> DEFINE version(s) == IF etup[s].used THEN etup[s].version ELSE 1
           et(s) == [used |-> TRUE, deleted |-> FALSE, level |-> job[p].level,
                     version |-> version(s), heaptids |-> {job[p].heaptid},
                     value |-> job[p].value]
           nt(s) == [level |-> job[p].level, version |-> version(s),
                     tids |-> NeighborLists(sel[p])]
<1>2. PICK s \in Slots :
        /\ etup' = [etup EXCEPT ![s] = et(s)]
        /\ ntup' = [ntup EXCEPT ![s] = nt(s)]
        /\ job' = [job EXCEPT ![p].tid = s, ![p].version = version(s)]
  BY DEF AddElement
<1>3. job[p] \in Job /\ job[p].heaptid \in HeapTids
  BY <1>1 DEF AddElement, TypeOK, JobsNamed
<1>4. version(s) \in 1..VersionMax
  BY DEF TypeOK, ElementTuple
<1>5. NeighborLists(sel[p]) \in Lists
  BY <1>1, NeighborListsType DEF TypeOK
<1> HIDE DEF version
<1>6. et(s) \in ElementTuple /\ nt(s) \in NeighborTuple
  BY <1>3, <1>4, <1>5 DEF ElementTuple, NeighborTuple, Job
<1> HIDE DEF et, nt
<1>7. etup' \in [Slots -> ElementTuple] /\ ntup' \in [Slots -> NeighborTuple]
  BY <1>2, <1>6 DEF TypeOK
<1>8. job'[p] \in Job /\ job'[p].tid \in Slots /\ job'[p].heaptid \in HeapTids
  BY <1>1, <1>2, <1>3, <1>4 DEF TypeOK, Job, Tids0
<1>9. job' \in [Writers -> Job]
  BY <1>2, <1>8 DEF TypeOK
<1>10. JobsNamed'
  BY <1>1, <1>2, <1>8 DEF AddElement, TypeOK, JobsNamed, Procs, Writers
<1>11. QED
  BY <1>1, <1>7, <1>9, <1>10, InserterPcType DEF AddElement, TypeOK, InsertPc

\* HNSW_UPDATE_ENTRY_GREATER stores an entry point.
LEMMA EntryIfGreaterType ==
  ASSUME TypeOK, NEW t \in Slots, NEW l \in Levels
  PROVE  EntryIfGreater([tid |-> t, level |-> l]) \in Entry
BY DEF EntryIfGreater, TypeOK, Entry

\* InsertFinish keeps TypeOK.
LEMMA InsertFinishType ==
  ASSUME TypeOK, NEW p \in Inserters, InsertFinish(p) PROVE TypeOK'
<1>1. p \in Writers
  BY DEF Writers
<1>2. meta' \in Entry
  <2>1. job[p].level \in Levels /\ (pc[p] = "connect" => job[p].tid \in Slots)
    BY <1>1 DEF TypeOK, JobsNamed, Job
  <2>2. QED
    BY <2>1, EntryIfGreaterType DEF InsertFinish, TypeOK
<1>3. JobsNamed'
  BY <1>1 DEF InsertFinish, Release, TypeOK, JobsNamed, Procs, Writers
<1>4. row' \in [HeapTids -> {"free", "inserting", "live", "dead"}]
  BY DEF InsertFinish, TypeOK
<1>5. QED
  BY <1>1, <1>2, <1>3, <1>4, ReleaseType, InserterPcType DEF InsertFinish, TypeOK, InsertPc

\* InsertAbort keeps TypeOK.
LEMMA InsertAbortType ==
  ASSUME TypeOK, NEW p \in Inserters, InsertAbort(p) PROVE TypeOK'
<1>1. p \in Writers
  BY DEF Writers
<1>2. JobsNamed'
  BY <1>1 DEF InsertAbort, Release, TypeOK, JobsNamed, Procs, Writers
<1>3. row' \in [HeapTids -> {"free", "inserting", "live", "dead"}]
  BY DEF InsertAbort, TypeOK
<1>4. QED
  BY <1>1, <1>2, <1>3, ReleaseType, InserterPcType DEF InsertAbort, TypeOK, InsertPc

\* DeleteRow keeps TypeOK.
LEMMA DeleteRowType ==
  ASSUME TypeOK, NEW t \in HeapTids, DeleteRow(t) PROVE TypeOK'
BY DEF DeleteRow, TypeOK, JobsNamed

\* The steps of hnswgettuple keep TypeOK.
LEMMA ScanType ==
  ASSUME TypeOK, NEW p \in Scanners, ScanBegin(p) \/ EndScan(p) PROVE TypeOK'
<1>1. p \in Procs
  BY DEF Procs
<1>2. ep' \in [Procs -> Entry] /\ srch' \in [Procs -> SearchState]
  BY <1>1, FindNeighborsType, NoStateTypes DEF ScanBegin, EndScan, TypeOK
<1>3. lock' \in [Procs -> {"none", "share", "exclusive"}]
  BY DEF ScanBegin, EndScan, TypeOK
<1>4. /\ pc' \in [Procs -> InsertPc \union VacuumPc]
      /\ \A i \in Inserters : pc'[i] \in InsertPc
      /\ \A i \in Scanners : pc'[i] \in {"idle", "search"}
      /\ pc'[Vac] \in VacuumPc
  BY DEF ScanBegin, EndScan, TypeOK, Procs, Writers, InsertPc
<1>5. JobsNamed'
  BY <1>1 DEF ScanBegin, EndScan, TypeOK, JobsNamed, Procs, Writers
<1>6. QED
  BY <1>2, <1>3, <1>4, <1>5 DEF ScanBegin, EndScan, TypeOK

\* The state of VACUUM, whose block counter only grows.
LEMMA VacType == ASSUME TypeOK PROVE vac \in VacState /\ vac.blk + 1 \in Nat \ {0}
<1>1. vac \in VacState
  BY DEF TypeOK
<1>2. vac.blk \in Nat \ {0}
  BY <1>1 DEF VacState
<1>3. QED
  BY <1>1, <1>2

\* VacuumBegin keeps TypeOK.
LEMMA VacuumBeginType ==
  ASSUME TypeOK, VacuumBegin PROVE TypeOK'
<1>1. meta.tid \in Tids0
  BY DEF TypeOK, Entry, NoEntry, Tids0
<1>2. vac' \in VacState /\ vac'.stage = "none"
  BY <1>1, NoStateTypes DEF VacuumBegin, VacState, VacIdle
<1>3. JobsNamed'
  BY <1>2 DEF VacuumBegin, TypeOK, JobsNamed, Procs, Writers
<1>4. QED
  BY <1>2, <1>3, VacuumPcType DEF VacuumBegin, TypeOK, VacuumPc

\* The highest point RemoveHeapTids remembers is an entry point.
LEMMA HighestPointsType ==
  ASSUME TypeOK, NEW h \in HighestPoints PROVE h \in Entry
<1>1. \A s \in Candidates : etup[s].level \in Levels /\ s \in Slots
  BY DEF TypeOK, Candidates, ElementTuple
<1>2. QED
  BY <1>1 DEF HighestPoints, TypeOK, Entry, VacState

\* RemoveHeapTids keeps TypeOK.
LEMMA RemoveHeapTidsType ==
  ASSUME TypeOK, RemoveHeapTids PROVE TypeOK'
<1>1. etup' \in [Slots -> ElementTuple]
  <2>1. ASSUME NEW s \in Slots
        PROVE  [etup[s] EXCEPT !.heaptids = Remaining(s)] \in ElementTuple
    <3>1. etup[s] \in ElementTuple
      BY DEF TypeOK
    <3>2. Remaining(s) \in SUBSET HeapTids
      BY <3>1 DEF Remaining, ElementTuple
    <3>3. QED
      BY <3>1, <3>2, HeapTidsType
  <2>2. QED
    BY <2>1 DEF RemoveHeapTids, TypeOK
<1> DEFINE gone == {s \in Slots : OnPage(s) /\ Remaining(s) = {}}
<1>2. PICK h \in HighestPoints :
       vac' = [vac EXCEPT !.deleted = @ \union gone, !.high = h, !.blk = @ + 1]
  BY DEF RemoveHeapTids
<1>3. vac' \in VacState /\ vac'.stage = vac.stage
  <2>1. h \in Entry /\ gone \in SUBSET Slots /\ vac.deleted \in SUBSET Slots
    BY HighestPointsType, VacType DEF VacState
  <2> HIDE DEF gone
  <2>2. vac.deleted \union gone \in SUBSET Slots
    BY <2>1
  <2>3. QED
    BY <1>2, <2>1, <2>2, VacType DEF VacState
<1>4. JobsNamed'
  BY <1>3 DEF RemoveHeapTids, TypeOK, JobsNamed, Procs, Writers
<1>5. QED
  BY <1>1, <1>3, <1>4, VacuumPcType DEF RemoveHeapTids, TypeOK, VacuumPc

\* WaitForInserts keeps TypeOK.
LEMMA WaitForInsertsType ==
  ASSUME TypeOK, WaitForInserts PROVE TypeOK'
<1>1. JobsNamed'
  BY DEF WaitForInserts, TypeOK, JobsNamed, Procs, Writers
<1>2. QED
  BY <1>1, VacuumPcType DEF WaitForInserts, TypeOK, VacuumPc

\* RepairGraphElement, up to its search, keeps the types of what it sets.
LEMMA RepairElementType ==
  ASSUME TypeOK, NEW e \in Element, NEW entry \in Entry, NEW stage \in {"high", "entry", "element"},
         NEW mode \in {"share", "exclusive"}, RepairElement(e, entry, stage, mode),
         UNCHANGED <<row, rowval, etup, ntup, meta, sel, todo>>
  PROVE  TypeOK'
<1>1. vac' \in VacState /\ lock' \in [Procs -> {"none", "share", "exclusive"}]
  BY DEF RepairElement, TypeOK, VacState
<1>2. [NoJob EXCEPT !.tid = e.tid, !.level = e.level, !.version = e.version,
                    !.value = e.value] \in Job
  BY NoStateTypes DEF Job, Element, NoJob, Tids0
<1>3. job' \in [Writers -> Job] /\ job'[Vac].tid \in Slots
  BY <1>2 DEF RepairElement, TypeOK, Element, NoJob, Writers
<1>4. ep' \in [Procs -> Entry] /\ srch' \in [Procs -> SearchState]
  BY SearchType, NoStateTypes DEF RepairElement, TypeOK
<1>5. JobsNamed'
  BY <1>3 DEF RepairElement, TypeOK, JobsNamed, Procs, Writers
<1>6. /\ pc' \in [Procs -> InsertPc \union VacuumPc]
      /\ \A i \in Inserters : pc'[i] \in InsertPc
      /\ \A i \in Scanners : pc'[i] \in {"idle", "search"}
      /\ pc'[Vac] \in VacuumPc
  BY VacuumPcType DEF RepairElement, VacuumPc
<1>7. QED
  BY <1>1, <1>3, <1>4, <1>5, <1>6 DEF TypeOK

\* RepairHighestPoint keeps TypeOK.
LEMMA RepairHighestPointType ==
  ASSUME TypeOK, RepairHighestPoint PROVE TypeOK'
<1>1. CASE vac.high.tid # NoTid /\ NeedsUpdated(vac.high.tid)
  <2>1. vac.high.tid \in Slots /\ meta \in Entry
    BY <1>1 DEF TypeOK, VacState, Entry, NoEntry
  <2>2. QED
    BY <1>1, <2>1, LoadType, RepairElementType DEF RepairHighestPoint
<1>2. CASE ~(vac.high.tid # NoTid /\ NeedsUpdated(vac.high.tid))
  <2>1. JobsNamed'
    BY <1>2 DEF RepairHighestPoint, TypeOK, JobsNamed, Procs, Writers
  <2>2. QED
    BY <1>2, <2>1, VacuumPcType DEF RepairHighestPoint, TypeOK, VacuumPc
<1>3. QED
  BY <1>1, <1>2

\* RepairEntryPoint keeps TypeOK.
LEMMA RepairEntryPointType ==
  ASSUME TypeOK, RepairEntryPoint PROVE TypeOK'
<1>1. CASE meta.tid # NoTid /\ meta.tid \notin vac.deleted /\ NeedsUpdated(meta.tid)
  <2>1. meta.tid \in Slots /\ vac.high \in Entry
    BY <1>1 DEF TypeOK, VacState, Entry, NoEntry
  <2>2. QED
    BY <1>1, <2>1, LoadType, RepairElementType DEF RepairEntryPoint
<1>2. CASE ~(meta.tid # NoTid /\ meta.tid \notin vac.deleted /\ NeedsUpdated(meta.tid))
  <2>1. vac' \in VacState /\ vac'.stage = vac.stage /\ meta' \in Entry
    BY <1>2 DEF RepairEntryPoint, TypeOK, VacState
  <2>2. JobsNamed'
    BY <1>2, <2>1 DEF RepairEntryPoint, TypeOK, JobsNamed, Procs, Writers
  <2>3. QED
    BY <1>2, <2>1, <2>2, VacuumPcType DEF RepairEntryPoint, TypeOK, VacuumPc
<1>3. QED
  BY <1>1, <1>2

\* LoadPage keeps TypeOK.
LEMMA LoadPageType ==
  ASSUME TypeOK, LoadPage PROVE TypeOK'
<1> DEFINE loaded == {LoadFromTuple(s) : s \in {o \in Slots : OnPage(o) /\ Alive(o)}}
<1>1. loaded \in SUBSET Element /\ HasNextBlock(vac.blk) \in BOOLEAN
  BY LoadType DEF HasNextBlock
<1>2. vac' = [vac EXCEPT !.queue = loaded, !.more = HasNextBlock(vac.blk), !.blk = @ + 1]
  BY DEF LoadPage
<1> HIDE DEF loaded
<1>3. vac' \in VacState /\ vac'.stage = vac.stage
  BY <1>1, <1>2, VacType DEF VacState
<1>4. JobsNamed'
  BY <1>3 DEF LoadPage, TypeOK, JobsNamed, Procs, Writers
<1>5. QED
  BY <1>3, <1>4, VacuumPcType DEF LoadPage, TypeOK, VacuumPc

\* CheckElement keeps TypeOK.
LEMMA CheckElementType ==
  ASSUME TypeOK, CheckElement PROVE TypeOK'
<1>1. vac' \in VacState /\ vac'.stage = vac.stage
  BY DEF CheckElement, TypeOK, VacState
<1>2. JobsNamed'
  BY <1>1 DEF CheckElement, TypeOK, JobsNamed, Procs, Writers
<1>3. QED
  BY <1>1, <1>2, VacuumPcType DEF CheckElement, TypeOK, VacuumPc

\* PageRepaired keeps TypeOK.
LEMMA PageRepairedType ==
  ASSUME TypeOK, PageRepaired PROVE TypeOK'
<1>1. JobsNamed'
  BY DEF PageRepaired, TypeOK, JobsNamed, Procs, Writers
<1>2. QED
  BY <1>1, VacuumPcType DEF PageRepaired, TypeOK, VacuumPc

\* RepairLock keeps TypeOK.
LEMMA RepairLockType ==
  ASSUME TypeOK, RepairLock \/ RepairLockExclusive PROVE TypeOK'
<1>1. vac.queue \in SUBSET Element /\ meta \in Entry
  BY DEF TypeOK, VacState
<1>2. CASE \E e \in vac.queue, mode \in {"share", "exclusive"} :
             RepairElement(e, meta, "element", mode)
  BY <1>1, <1>2, RepairElementType DEF RepairLock, RepairLockExclusive
<1>3. CASE pc' = [pc EXCEPT ![Vac] = "rlockx"] /\ UNCHANGED <<vac, job, lock, ep, srch>>
  <2>1. JobsNamed'
    BY <1>3 DEF TypeOK, JobsNamed, Procs, Writers
  <2>2. QED
    BY <1>3, <2>1, VacuumPcType DEF RepairLock, RepairLockExclusive, TypeOK, VacuumPc
<1>4. QED
  BY <1>2, <1>3 DEF RepairLock, RepairLockExclusive

\* RewriteNeighbors keeps TypeOK.
LEMMA RewriteNeighborsType ==
  ASSUME TypeOK, RewriteNeighbors PROVE TypeOK'
<1>1. job[Vac] \in Job /\ sel[Vac] \in SUBSET Connection
  BY DEF TypeOK, Writers
<1>2. [level |-> job[Vac].level, version |-> job[Vac].version,
       tids |-> NeighborLists(sel[Vac])] \in NeighborTuple
  BY <1>1, NeighborListsType DEF Job, NeighborTuple
<1>3. ntup' \in [Slots -> NeighborTuple] /\ todo' \in [Writers -> SUBSET Connection]
  BY <1>1, <1>2 DEF RewriteNeighbors, TypeOK
<1>4. JobsNamed'
  BY DEF RewriteNeighbors, TypeOK, JobsNamed, Procs, Writers
<1>5. QED
  BY <1>3, <1>4, VacuumPcType DEF RewriteNeighbors, TypeOK, VacuumPc

\* RepairDone keeps TypeOK.
LEMMA RepairDoneType ==
  ASSUME TypeOK, RepairDone PROVE TypeOK'
<1> DEFINE rest == {e \in vac.queue : e.tid # job[Vac].tid}
           block == IF vac.stage = "entry" THEN 1 ELSE vac.blk
<1>1. vac' \in VacState /\ vac'.stage = "none"
  <2>1. vac' = [vac EXCEPT !.stage = "none", !.blk = block, !.queue = rest]
    BY DEF RepairDone
  <2>2. rest \in SUBSET Element /\ block \in Nat \ {0}
    BY VacType DEF VacState
  <2> HIDE DEF rest, block
  <2>3. QED
    BY <2>1, <2>2, VacType DEF VacState
<1>2. meta' \in Entry
  <2>1. job[Vac].level \in Levels /\ (vac.stage = "element" => job[Vac].tid \in Slots)
    BY DEF TypeOK, JobsNamed, Job, Writers
  <2>2. QED
    BY <2>1, EntryIfGreaterType DEF RepairDone, TypeOK
<1>3. JobsNamed'
  BY <1>1 DEF RepairDone, Release, TypeOK, JobsNamed, Procs, Writers
<1>4. /\ pc' \in [Procs -> InsertPc \union VacuumPc]
      /\ \A i \in Inserters : pc'[i] \in InsertPc
      /\ \A i \in Scanners : pc'[i] \in {"idle", "search"}
      /\ pc'[Vac] \in VacuumPc
  BY VacuumPcType DEF RepairDone, VacuumPc
<1>5. QED
  BY <1>1, <1>2, <1>3, <1>4, ReleaseType DEF RepairDone, TypeOK, Writers

\* WaitForScans keeps TypeOK.
LEMMA WaitForScansType ==
  ASSUME TypeOK, WaitForScans PROVE TypeOK'
<1>1. vac' \in VacState /\ vac'.stage = vac.stage
  BY DEF WaitForScans, TypeOK, VacState
<1>2. JobsNamed'
  BY <1>1 DEF WaitForScans, TypeOK, JobsNamed, Procs, Writers
<1>3. QED
  BY <1>1, <1>2, VacuumPcType DEF WaitForScans, TypeOK, VacuumPc

\* MarkDeleted keeps TypeOK.
LEMMA MarkDeletedType ==
  ASSUME TypeOK, MarkDeleted PROVE TypeOK'
<1>1. \A v \in 1..VersionMax : NextVersion(v) \in 1..VersionMax
  BY DEF NextVersion
<1>2. etup' \in [Slots -> ElementTuple]
  <2>1. ASSUME NEW s \in Slots
        PROVE  [etup[s] EXCEPT !.deleted = TRUE, !.value = Cleared,
                               !.version = NextVersion(etup[s].version)] \in ElementTuple
    <3>1. etup[s] \in ElementTuple
      BY DEF TypeOK
    <3>2. NextVersion(etup[s].version) \in 1..VersionMax
      BY <1>1, <3>1 DEF ElementTuple
    <3>3. QED
      BY <3>1, <3>2 DEF ElementTuple
  <2>2. QED
    BY <2>1 DEF MarkDeleted, TypeOK
<1>3. ntup' \in [Slots -> NeighborTuple]
  <2>1. ASSUME NEW s \in Slots
        PROVE  [ntup[s] EXCEPT !.tids = EmptyLists, !.version = NextVersion(etup[s].version)]
                 \in NeighborTuple
    <3>1. etup[s] \in ElementTuple /\ ntup[s] \in NeighborTuple
      BY DEF TypeOK
    <3>2. NextVersion(etup[s].version) \in 1..VersionMax
      BY <1>1, <3>1 DEF ElementTuple
    <3>3. QED
      BY <3>1, <3>2, EmptyListsType DEF NeighborTuple
  <2>2. QED
    BY <2>1 DEF MarkDeleted, TypeOK
<1>4. vac' \in VacState /\ vac'.stage = vac.stage
  <2>1. vac' = [vac EXCEPT !.blk = @ + 1]
    BY DEF MarkDeleted
  <2>2. QED
    BY <2>1, VacType DEF VacState
<1>5. JobsNamed'
  BY <1>4 DEF MarkDeleted, TypeOK, JobsNamed, Procs, Writers
<1>6. QED
  BY <1>2, <1>3, <1>4, <1>5, VacuumPcType DEF MarkDeleted, TypeOK, VacuumPc

\* VacuumFinish keeps TypeOK.
LEMMA VacuumFinishType ==
  ASSUME TypeOK, VacuumFinish PROVE TypeOK'
<1>1. JobsNamed'
  BY DEF VacuumFinish, TypeOK, JobsNamed, VacIdle, Procs, Writers
<1>2. QED
  BY <1>1, VacuumPcType, NoStateTypes DEF VacuumFinish, TypeOK, VacuumPc

\* VacuumAbort keeps TypeOK.
LEMMA VacuumAbortType ==
  ASSUME TypeOK, VacuumAbort PROVE TypeOK'
<1>1. JobsNamed'
  BY DEF VacuumAbort, Release, TypeOK, JobsNamed, VacIdle, Procs, Writers
<1>2. QED
  BY <1>1, VacuumPcType, NoStateTypes, ReleaseType DEF VacuumAbort, TypeOK, VacuumPc, Writers

\* Every step keeps the types.
LEMMA NextType == ASSUME TypeOK, [Next]_vars PROVE TypeOK'
<1>1. ASSUME NEW p \in Procs, WalkGraph(p) PROVE TypeOK'
  BY <1>1, LoadElementType, ReadNeighborsType, NextLayerType DEF WalkGraph
<1>2. ASSUME NEW p \in Writers, Connect(p) PROVE TypeOK'
  BY <1>2, WriterSearchDoneType, GetUpdateIndexType, UpdateNeighborType DEF Connect
<1>3. ASSUME NEW p \in Inserters, InsertBegin(p) \/ InsertStep(p) \/ InsertAbort(p)
      PROVE  TypeOK'
  BY <1>1, <1>2, <1>3, InsertBeginType, InsertLockType, InsertLockExclusiveType,
     AddDuplicateType, AddElementType, InsertFinishType, InsertAbortType
  DEF InsertStep, Procs, Writers
<1>4. ASSUME NEW p \in Scanners, ScanBegin(p) \/ ScanStep(p) \/ ScanAbort(p)
      PROVE  TypeOK'
  BY <1>1, <1>4, ScanType DEF ScanStep, ScanDone, ScanAbort, Procs
<1>5. ASSUME RepairGraph PROVE TypeOK'
  BY <1>5, WaitForInsertsType, RepairHighestPointType, RepairEntryPointType, LoadPageType,
     CheckElementType, PageRepairedType, RepairLockType, RewriteNeighborsType, RepairDoneType
  DEF RepairGraph
<1>6. ASSUME VacuumBegin \/ VacuumStep \/ VacuumAbort PROVE TypeOK'
  BY <1>1, <1>2, <1>5, <1>6, VacuumBeginType, RemoveHeapTidsType, WaitForScansType,
     MarkDeletedType, VacuumFinishType, VacuumAbortType
  DEF VacuumStep, Procs, Writers
<1>7. CASE UNCHANGED vars
  BY <1>7 DEF vars, TypeOK, JobsNamed
<1>8. QED
  BY <1>3, <1>4, <1>6, <1>7, DeleteRowType DEF Next

\* Every state the backends can reach is well formed: the tuples on the pages,
\* the loaded elements and the program counters, and no repair or insert goes on
\* without the element it is about.
THEOREM TypeCorrect == Spec => []TypeOK
<1>1. Init => TypeOK
  BY InitType
<1>2. TypeOK /\ [Next]_vars => TypeOK'
  BY NextType
<1>3. QED
  BY <1>1, <1>2, PTL DEF Spec
-----------------------------------------------------------------------------
(***************************************************************************)
(* The index keeps its entry point and its rows.                           *)
(***************************************************************************)
LEMMA InitInv == Init => IndexInv
<1> SUFFICES ASSUME Init PROVE IndexInv
  OBVIOUS
<1>1. TypeOK
  BY InitType
<1>2. EntryPointValid /\ LiveRowsIndexed /\ FreedRowsNotIndexed
  BY DEF Init, EntryPointValid, LiveRowsIndexed, FreedRowsNotIndexed, NoEntry
<1>3. RowsOwned /\ FreePlacesEmpty /\ InsertsIndexed
  BY DEF Init, RowsOwned, FreePlacesEmpty, InsertsIndexed, VacIdle, Procs, Writers
<1>4. VacuumTracks /\ VacuumSweeps /\ EntryHeld /\ UpdateLockHeld
  BY DEF Init, VacuumTracks, VacuumSweeps, EntryHeld, UpdateLockHeld, VacIdle, NoEntry,
         RepairPc, Procs, Writers
<1>5. QED
  BY <1>1, <1>2, <1>3, <1>4 DEF IndexInv

\* Only these variables, these fields of a job and these places of a program
\* matter to the invariant.
LEMMA FrameInv ==
  ASSUME IndexInv, TypeOK', UNCHANGED <<row, etup, meta, vac>>,
         \A p \in Writers : /\ lock'[p] = lock[p] /\ ep'[p] = ep[p]
                            /\ job'[p].heaptid = job[p].heaptid
                            /\ job'[p].tid = job[p].tid
                            /\ job'[p].level = job[p].level,
         \A p \in Inserters :
           \/ pc'[p] = pc[p]
           \/ pc[p] = "search" /\ pc'[p] = "add"
           \/ {pc[p], pc'[p]} = {"connect", "update"},
         pc'[Vac] = pc[Vac] \/ {pc[Vac], pc'[Vac]} \subseteq RepairPc
  PROVE  IndexInv'
<1>1. (EntryPointValid /\ LiveRowsIndexed /\ FreedRowsNotIndexed)'
  BY DEF IndexInv, EntryPointValid, LiveRowsIndexed, FreedRowsNotIndexed
<1>2. \A p \in Inserters :
        /\ pc'[p] = "idle" <=> pc[p] = "idle"
        /\ pc'[p] \in {"connect", "update"} => pc[p] \in {"connect", "update"}
        /\ pc'[p] = "finish" => pc[p] = "finish"
        /\ pc'[p] \in {"search", "add", "connect", "update"} =>
             pc[p] \in {"search", "add", "connect", "update"}
  OBVIOUS
<1>3. (RowsOwned /\ FreePlacesEmpty)'
  BY <1>2 DEF IndexInv, RowsOwned, FreePlacesEmpty, Writers
<1>4. InsertsIndexed'
  BY <1>2 DEF IndexInv, InsertsIndexed, Writers
<1>5. (VacuumTracks /\ VacuumSweeps)'
  BY DEF IndexInv, VacuumTracks, VacuumSweeps, Swept, Remaining, Writers, RepairPc
<1>6. (EntryHeld /\ UpdateLockHeld)'
  BY <1>2 DEF IndexInv, EntryHeld, UpdateLockHeld, Writers, RepairPc
<1>7. QED
  BY <1>1, <1>3, <1>4, <1>5, <1>6 DEF IndexInv

\* A step of HnswSearchLayer changes nothing the invariant speaks of.
LEMMA WalkGraphInv ==
  ASSUME IndexInv, NEW p \in Procs, WalkGraph(p), TypeOK' PROVE IndexInv'
<1>1. UNCHANGED <<row, etup, meta, lock, pc, ep, vac, job>>
  BY DEF WalkGraph, LoadElement, ReadNeighbors, NextLayer
<1>2. QED
  BY <1>1, FrameInv

\* HnswUpdateNeighborsOnDisk changes neighbor tuples only.
LEMMA ConnectInv ==
  ASSUME IndexInv, NEW p \in Writers, Connect(p), TypeOK' PROVE IndexInv'
<1>1. UNCHANGED <<row, etup, meta, lock, ep, vac>>
  BY DEF Connect, WriterSearchDone, GetUpdateIndex, UpdateNeighbor
<1>2. ASSUME NEW q \in Writers
      PROVE  /\ job'[q].heaptid = job[q].heaptid
             /\ job'[q].tid = job[q].tid
             /\ job'[q].level = job[q].level
  <2>1. UNCHANGED job \/ \E i : job' = [job EXCEPT ![p].idx = i]
    BY DEF Connect, WriterSearchDone, GetUpdateIndex, UpdateNeighbor
  <2>2. QED
    BY <2>1 DEF IndexInv, TypeOK, Job
<1>3. \/ UNCHANGED pc
      \/ pc[p] = "search" /\ pc' = [pc EXCEPT ![p] = IF p = Vac THEN "rewrite" ELSE "add"]
      \/ pc[p] = "connect" /\ pc' = [pc EXCEPT ![p] = "update"]
      \/ pc[p] = "update" /\ pc' = [pc EXCEPT ![p] = "connect"]
  BY DEF Connect, WriterSearchDone, GetUpdateIndex, UpdateNeighbor, LayerDone
<1>4. /\ \A q \in Inserters : \/ pc'[q] = pc[q]
                              \/ pc[q] = "search" /\ pc'[q] = "add"
                              \/ {pc[q], pc'[q]} = {"connect", "update"}
      /\ pc'[Vac] = pc[Vac] \/ {pc[Vac], pc'[Vac]} \subseteq RepairPc
  BY <1>3 DEF IndexInv, TypeOK, Procs, Writers, RepairPc
<1>5. QED
  BY <1>1, <1>2, <1>4, FrameInv

\* The rows of inserts in progress and of VACUUM are rows of the heap.
LEMMA OwnedRows ==
  ASSUME IndexInv
  PROVE  /\ \A p \in Inserters : pc[p] # "idle" => /\ job[p].heaptid \in HeapTids
                                                   /\ row[job[p].heaptid] = "inserting"
         /\ vac.dead \in SUBSET HeapTids
BY DEF IndexInv, TypeOK, JobsNamed, VacState, RowsOwned

\* What an insert does to the pages leaves VACUUM's knowledge of them true.
LEMMA VacuumFrame ==
  ASSUME IndexInv, TypeOK', UNCHANGED vac, pc'[Vac] = pc[Vac],
         job'[Vac].tid = job[Vac].tid, job'[Vac].level = job[Vac].level,
         \A s \in Slots :
           /\ etup[s].heaptids # {} => /\ etup'[s].level = etup[s].level
                                       /\ etup[s].heaptids \subseteq etup'[s].heaptids
           /\ (etup'[s].heaptids \ etup[s].heaptids) \intersect vac.dead = {}
           /\ etup'[s].used /\ etup'[s].heaptids = {} => etup[s].used
  PROVE  VacuumTracks' /\ VacuumSweeps' /\ (UNCHANGED meta => EntryHeld')
<1>1. /\ vac.high.tid # NoTid => vac.high.tid \in Slots
      /\ \A e \in vac.queue : e.tid \in Slots
      /\ vac.stage # "none" => job[Vac].tid \in Slots
      /\ meta.tid # NoTid => meta.tid \in Slots
  BY DEF IndexInv, TypeOK, JobsNamed, VacState, Entry, NoEntry, Element
<1>2. VacuumTracks'
  <2>1. VacuumTracks
    BY DEF IndexInv
  <2>2. \A s \in Slots : Remaining(s) # {} =>
          etup[s].heaptids # {} /\ Remaining(s)' # {} /\ etup'[s].level = etup[s].level
    BY DEF Remaining
  <2>3. \A s \in Slots : etup[s].heaptids # {} => etup'[s].heaptids # {}
    OBVIOUS
  <2>4. (vac.high.tid # NoTid => /\ etup[vac.high.tid].level = vac.high.level
                                 /\ Remaining(vac.high.tid) # {})'
    BY <1>1, <2>1, <2>2 DEF VacuumTracks, Remaining
  <2>5. /\ \A e \in vac'.queue : etup'[e.tid].heaptids # {} /\ etup'[e.tid].level = e.level
        /\ vac'.stage = "element" => /\ etup'[job'[Vac].tid].heaptids # {}
                                     /\ etup'[job'[Vac].tid].level = job'[Vac].level
    BY ZenonT(60), <1>1, <2>1, <2>3 DEF VacuumTracks
  <2>6. QED
    BY <2>1, <2>4, <2>5 DEF VacuumTracks, RepairPc
<1>3. \A s \in Slots : etup[s].used /\ Swept(s) => Swept(s)'
  BY DEF Swept
<1>4. \A s \in Slots : ~etup[s].used /\ etup'[s].used => Swept(s)'
  BY DEF IndexInv, Swept, FreePlacesEmpty
<1>5. VacuumSweeps'
  BY <1>3, <1>4 DEF IndexInv, VacuumSweeps
<1>6. UNCHANGED meta => EntryHeld'
  BY <1>1 DEF IndexInv, EntryHeld
<1>7. QED
  BY <1>2, <1>5, <1>6

\* The entry point is kept by whoever leaves the elements that are not deleted.
LEMMA EntryFrame ==
  ASSUME IndexInv, UNCHANGED meta,
         \A s \in Slots : etup[s].used /\ ~etup[s].deleted =>
           etup'[s].used /\ ~etup'[s].deleted /\ etup'[s].level = etup[s].level
  PROVE  EntryPointValid'
<1>1. meta.tid # NoTid => meta.tid \in Slots
  BY DEF IndexInv, TypeOK, Entry, NoEntry
<1>2. QED
  BY <1>1 DEF IndexInv, EntryPointValid

\* InsertBegin keeps the inductive invariant.
LEMMA InsertBeginInv ==
  ASSUME IndexInv, NEW p \in Inserters, InsertBegin(p), TypeOK' PROVE IndexInv'
<1> USE DEF IndexInv
<1>1. PICK t \in HeapTids, v \in Values :
        /\ row[t] = "free"
        /\ row'    = [row EXCEPT ![t] = "inserting"]
        /\ job'    = [job EXCEPT ![p].heaptid = t, ![p].value = v]
  BY DEF InsertBegin
<1>2. /\ UNCHANGED <<etup, meta, lock, ep, vac>>
      /\ pc[p] = "idle" /\ pc' = [pc EXCEPT ![p] = "lock"]
      /\ p \in Procs /\ p \in Writers /\ Vac \in Writers /\ Vac # p
  BY DEF InsertBegin, Procs, Writers
<1>3. /\ job'[p].heaptid = t
      /\ \A q \in Writers : job'[q].tid = job[q].tid /\ job'[q].level = job[q].level
      /\ \A q \in Writers \ {p} : job'[q] = job[q]
  BY <1>1, <1>2 DEF TypeOK, Job
<1>4. pc \in [Procs -> InsertPc \union VacuumPc] /\ row \in [HeapTids -> {"free", "inserting", "live", "dead"}]
  BY DEF TypeOK
<1>5. EntryPointValid' /\ FreePlacesEmpty'
  BY <1>2 DEF EntryPointValid, FreePlacesEmpty
<1>6. LiveRowsIndexed' /\ FreedRowsNotIndexed'
  BY <1>1, <1>2, <1>4 DEF LiveRowsIndexed, FreedRowsNotIndexed
<1>7. RowsOwned'
  <2>1. \A q \in Inserters \ {p} :
          /\ pc'[q] = pc[q] /\ job'[q] = job[q]
          /\ pc[q] # "idle" => job[q].heaptid # t /\ row'[job[q].heaptid] = "inserting"
    BY <1>1, <1>2, <1>3, <1>4, OwnedRows DEF Writers, Procs
  <2>2. \A x \in vac.dead : row'[x] = "dead"
    BY <1>1, <1>4, OwnedRows DEF RowsOwned
  <2>3. row'[job'[p].heaptid] = "inserting"
    BY <1>1, <1>3, <1>4
  <2>4. QED
    BY <1>2, <1>3, <2>1, <2>2, <2>3 DEF RowsOwned
<1>8. InsertsIndexed'
  BY <1>2, <1>3, <1>4 DEF InsertsIndexed, Writers, Procs
<1>9. (VacuumTracks /\ VacuumSweeps /\ EntryHeld)'
  BY <1>2, <1>3, <1>4, VacuumFrame DEF Procs, Writers
<1>10. UpdateLockHeld'
  BY <1>2, <1>3, <1>4 DEF UpdateLockHeld, Writers, Procs
<1>11. QED
  BY <1>5, <1>6, <1>7, <1>8, <1>9, <1>10

\* InsertLock keeps the inductive invariant.
LEMMA InsertLockInv ==
  ASSUME IndexInv, NEW p \in Inserters, InsertLock(p) \/ InsertLockExclusive(p), TypeOK'
  PROVE  IndexInv'
<1> USE DEF IndexInv
<1>1. /\ UNCHANGED <<row, etup, meta, vac>>
      /\ pc[p] \in {"lock", "lockx"}
      /\ pc' = [pc EXCEPT ![p] = pc'[p]] /\ pc'[p] \in {"lockx", "search", "add"}
      /\ p \in Procs /\ p \in Writers /\ Vac \in Writers /\ Vac # p
  BY DEF InsertLock, InsertLockExclusive, TypeOK, Procs, Writers
<1>2. \A q \in Writers : /\ job'[q].tid = job[q].tid /\ job'[q].heaptid = job[q].heaptid
                         /\ q # p => job'[q].level = job[q].level
  BY <1>1 DEF InsertLock, InsertLockExclusive, TypeOK, Job
<1>3. pc \in [Procs -> InsertPc \union VacuumPc]
  BY DEF TypeOK
<1>4. (EntryPointValid /\ FreePlacesEmpty /\ LiveRowsIndexed /\ FreedRowsNotIndexed)'
  BY <1>1 DEF EntryPointValid, FreePlacesEmpty, LiveRowsIndexed, FreedRowsNotIndexed
<1>5. RowsOwned' /\ InsertsIndexed'
  BY <1>1, <1>2, <1>3 DEF RowsOwned, InsertsIndexed, Writers, Procs
<1>6. (VacuumTracks /\ VacuumSweeps /\ EntryHeld)'
  BY <1>1, <1>2, <1>3, VacuumFrame DEF Procs, Writers
<1>7. UpdateLockHeld'
  <2>1. CASE InsertLock(p) /\ pc'[p] = "lockx"
    <3>1. UNCHANGED <<lock, ep>>
      BY <1>1, <2>1 DEF InsertLock, TypeOK
    <3>2. QED
      BY <1>1, <1>2, <1>3, <2>1, <3>1 DEF UpdateLockHeld, Writers, Procs
  <2>2. CASE InsertLock(p) /\ pc'[p] # "lockx"
    <3>1. /\ \A q \in Writers \ {p} : lock[q] # "exclusive"
          /\ lock' = [lock EXCEPT ![p] = "share"]
          /\ ep' = [ep EXCEPT ![p] = meta]
          /\ job'[p].level <= meta.level
      BY <1>1, <1>3, <2>2 DEF InsertLock, FindNeighbors, CanShare, TypeOK, Job
    <3>2. QED
      BY <1>1, <1>2, <1>3, <3>1 DEF UpdateLockHeld, Writers, Procs, TypeOK
  <2>3. CASE InsertLockExclusive(p)
    <3>1. /\ \A q \in Writers \ {p} : lock[q] = "none"
          /\ lock' = [lock EXCEPT ![p] = "exclusive"]
          /\ ep' = [ep EXCEPT ![p] = meta]
      BY <2>3 DEF InsertLockExclusive, FindNeighbors, CanExclusive
    <3>2. QED
      BY <1>1, <1>2, <1>3, <3>1 DEF UpdateLockHeld, Writers, Procs, TypeOK
  <2>4. QED
    BY <2>1, <2>2, <2>3
<1>8. QED
  BY <1>4, <1>5, <1>6, <1>7

\* AddDuplicate keeps the inductive invariant.
LEMMA AddDuplicateInv ==
  ASSUME IndexInv, NEW p \in Inserters, AddDuplicate(p), TypeOK' PROVE IndexInv'
<1> USE DEF IndexInv
<1>1. /\ UNCHANGED <<row, meta, lock, job, ep, vac>>
      /\ pc[p] = "add"
      /\ p \in Procs /\ p \in Writers /\ Vac \in Writers /\ Vac # p
  BY DEF AddDuplicate, Procs, Writers
<1>2. PICK c \in todo[p] : AddDuplicate(p)!2!(c)
  BY DEF AddDuplicate
<1>3. CASE UNCHANGED <<etup, pc>>
  BY <1>1, <1>3, FrameInv
<1>4. CASE /\ Cardinality(etup[c.nb.tid].heaptids) \notin {0, HeapTidsMax}
           /\ etup' = [etup EXCEPT ![c.nb.tid].heaptids = @ \union {job[p].heaptid}]
           /\ pc'   = [pc EXCEPT ![p] = "finish"]
  <2>1. etup[c.nb.tid].heaptids # {}
    BY <1>4, FS_EmptySet
  <2>2. c.nb.tid \in Slots
    BY <1>1 DEF TypeOK, Connection, Element
  <2>a. etup \in [Slots -> ElementTuple]
    BY DEF TypeOK
  <2>3. \A s \in Slots :
          /\ etup'[s].used = etup[s].used /\ etup'[s].deleted = etup[s].deleted
          /\ etup'[s].level = etup[s].level
          /\ etup[s].heaptids \subseteq etup'[s].heaptids
          /\ etup'[s].heaptids \subseteq etup[s].heaptids \union {job[p].heaptid}
          /\ etup[s].heaptids = {} => etup'[s].heaptids = {}
    BY <1>4, <2>1, <2>2, <2>a DEF ElementTuple
  <2>4. job[p].heaptid \in etup'[c.nb.tid].heaptids
    BY <1>4, <2>2 DEF TypeOK, ElementTuple
  <2>5. pc \in [Procs -> InsertPc \union VacuumPc]
    BY DEF TypeOK
  <2>b. \A q \in Inserters : pc[q] \in {"connect", "update"} => job[q].tid \in Slots
    BY DEF TypeOK, JobsNamed
  <2>c. pc'[Vac] = pc[Vac]
    BY <1>1, <1>4, <2>5 DEF Writers, Procs
  <2>d. job[p].heaptid \notin vac.dead
    BY <1>1, OwnedRows DEF RowsOwned
  <2>6. EntryPointValid' /\ FreePlacesEmpty'
    BY <1>1, <2>3, EntryFrame DEF FreePlacesEmpty
  <2>7. LiveRowsIndexed' /\ FreedRowsNotIndexed'
    <3>1. row' = row /\ row[job[p].heaptid] = "inserting"
      BY <1>1, OwnedRows
    <3>2. LiveRowsIndexed'
      BY <2>3, <3>1 DEF LiveRowsIndexed
    <3>3. ASSUME NEW t \in HeapTids, row'[t] = "free", NEW s \in Slots, t \in etup'[s].heaptids
          PROVE  FALSE
      <4>1. t # job[p].heaptid /\ row[t] = "free"
        BY <3>1, <3>3
      <4>2. t \in etup[s].heaptids
        BY <2>3, <3>3, <4>1
      <4>3. QED
        BY <3>3, <4>1, <4>2 DEF FreedRowsNotIndexed
    <3>4. QED
      BY <3>2, <3>3 DEF FreedRowsNotIndexed
  <2>8. RowsOwned'
    BY <1>1, <1>4, <2>5 DEF RowsOwned, Writers, Procs
  <2>9. InsertsIndexed'
    <3>1. ASSUME NEW q \in Inserters, pc'[q] \in {"connect", "update"}
          PROVE  job[q].heaptid \in etup'[job[q].tid].heaptids /\ etup'[job[q].tid].level = job[q].level
      <4>1. pc[q] \in {"connect", "update"}
        BY <1>1, <1>4, <2>5, <3>1 DEF Procs
      <4>2. /\ job[q].tid \in Slots /\ job[q].heaptid \in etup[job[q].tid].heaptids
            /\ etup[job[q].tid].level = job[q].level
        BY <2>b, <4>1 DEF InsertsIndexed
      <4>3. QED
        BY <2>3, <4>2
    <3>2. ASSUME NEW q \in Inserters, pc'[q] = "finish"
          PROVE  \E s \in Slots : job[q].heaptid \in etup'[s].heaptids
      <4>1. CASE q = p
        BY <2>2, <2>4, <4>1
      <4>2. CASE q # p
        <5>1. pc[q] = "finish"
          BY <1>1, <1>4, <2>5, <3>2, <4>2 DEF Procs
        <5>2. QED
          BY <2>3, <5>1 DEF InsertsIndexed
      <4>3. QED
        BY <4>1, <4>2
    <3>3. QED
      BY <1>1, <3>1, <3>2 DEF InsertsIndexed
  <2>10. (VacuumTracks /\ VacuumSweeps /\ EntryHeld)'
    BY <1>1, <2>3, <2>c, <2>d, VacuumFrame
  <2>11. UpdateLockHeld'
    BY <1>1, <1>4, <2>5 DEF UpdateLockHeld, Writers, Procs
  <2>12. QED
    BY <2>6, <2>7, <2>8, <2>9, <2>10, <2>11
<1>5. QED
  BY <1>2, <1>3, <1>4

\* AddElement keeps the inductive invariant.
LEMMA AddElementInv ==
  ASSUME IndexInv, NEW p \in Inserters, AddElement(p), TypeOK' PROVE IndexInv'
<1> USE DEF IndexInv
<1>1. /\ UNCHANGED <<row, meta, lock, ep, vac>>
      /\ pc[p] = "add" /\ pc' = [pc EXCEPT ![p] = "connect"]
      /\ p \in Procs /\ p \in Writers /\ Vac \in Writers /\ Vac # p
  BY DEF AddElement, Procs, Writers
<1>2. PICK s \in Slots :
        /\ FreeSlot(s)
        /\ etup' = [etup EXCEPT ![s] =
             [used |-> TRUE, deleted |-> FALSE, level |-> job[p].level,
              version |-> IF etup[s].used THEN etup[s].version ELSE 1,
              heaptids |-> {job[p].heaptid}, value |-> job[p].value]]
        /\ job' = [job EXCEPT ![p].tid = s,
                              ![p].version = IF etup[s].used THEN etup[s].version ELSE 1]
  BY DEF AddElement
<1>3. /\ etup[s].heaptids = {} /\ (etup[s].used => etup[s].deleted)
      /\ etup'[s].used /\ ~etup'[s].deleted /\ etup'[s].level = job[p].level
      /\ etup'[s].heaptids = {job[p].heaptid}
      /\ \A o \in Slots \ {s} : etup'[o] = etup[o]
  BY <1>2 DEF FreeSlot, FreePlacesEmpty, TypeOK
<1>4. /\ job'[p].tid = s
      /\ \A q \in Writers : job'[q].heaptid = job[q].heaptid /\ job'[q].level = job[q].level
      /\ \A q \in Writers \ {p} : job'[q] = job[q]
  BY <1>1, <1>2 DEF TypeOK, Job
<1>5. pc \in [Procs -> InsertPc \union VacuumPc]
  BY DEF TypeOK
<1>6. EntryPointValid' /\ FreePlacesEmpty'
  BY <1>1, <1>3, EntryFrame DEF FreePlacesEmpty
<1>7. LiveRowsIndexed' /\ FreedRowsNotIndexed'
  BY ZenonT(60), <1>1, <1>3, OwnedRows DEF LiveRowsIndexed, FreedRowsNotIndexed
<1>8. RowsOwned'
  BY <1>1, <1>4, <1>5 DEF RowsOwned, Writers, Procs
<1>9. InsertsIndexed'
  <2>1. \A q \in Inserters \ {p} : pc'[q] = pc[q] /\ job'[q] = job[q]
    BY <1>1, <1>4, <1>5 DEF Writers, Procs
  <2>2. \A q \in Inserters : pc[q] \in {"connect", "update"} =>
          job[q].tid \in Slots /\ job[q].tid # s
    BY <1>3 DEF InsertsIndexed, TypeOK, JobsNamed
  <2>3. ASSUME NEW q \in Inserters \ {p}, pc[q] = "finish"
        PROVE  \E o \in Slots : job'[q].heaptid \in etup'[o].heaptids
    <3>1. PICK o \in Slots : job[q].heaptid \in etup[o].heaptids
      BY <2>3 DEF InsertsIndexed
    <3>2. o # s /\ job'[q] = job[q]
      BY <1>3, <2>1, <3>1
    <3>3. QED
      BY <1>3, <3>1, <3>2
  <2>4. pc'[p] = "connect" /\ job'[p].tid = s /\ job[p].heaptid = job'[p].heaptid
        /\ job'[p].level = job[p].level
    BY <1>1, <1>4, <1>5
  <2>5. \A q \in Inserters \ {p} : pc[q] \in {"connect", "update"} =>
          /\ job'[q].heaptid \in etup'[job'[q].tid].heaptids
          /\ etup'[job'[q].tid].level = job'[q].level
    <3>1. TAKE q \in Inserters \ {p}
    <3>2. HAVE pc[q] \in {"connect", "update"}
    <3>3. etup'[job[q].tid] = etup[job[q].tid] /\ job'[q] = job[q]
      BY <1>3, <2>1, <2>2, <3>2
    <3>4. /\ job[q].heaptid \in etup[job[q].tid].heaptids
          /\ etup[job[q].tid].level = job[q].level
      BY <3>2 DEF InsertsIndexed
    <3>5. QED
      BY <3>3, <3>4
  <2>6. QED
    BY <1>3, <2>1, <2>3, <2>4, <2>5 DEF InsertsIndexed
<1>10. (VacuumTracks /\ VacuumSweeps /\ EntryHeld)'
  <2>1. job[p].heaptid \notin vac.dead
    BY <1>1, OwnedRows DEF RowsOwned
  <2>2. \A o \in Slots :
          /\ etup[o].heaptids # {} => /\ etup'[o].level = etup[o].level
                                      /\ etup[o].heaptids \subseteq etup'[o].heaptids
          /\ (etup'[o].heaptids \ etup[o].heaptids) \intersect vac.dead = {}
          /\ etup'[o].used /\ etup'[o].heaptids = {} => etup[o].used
    BY <1>3, <2>1
  <2>3. pc'[Vac] = pc[Vac] /\ job'[Vac] = job[Vac]
    BY <1>1, <1>4, <1>5 DEF Procs
  <2>4. QED
    BY <1>1, <2>2, <2>3, VacuumFrame
<1>11. UpdateLockHeld'
  BY <1>1, <1>4, <1>5 DEF UpdateLockHeld, Writers, Procs
<1>12. QED
  BY <1>6, <1>7, <1>8, <1>9, <1>10, <1>11

\* What both ends of an insert leave behind: its row settled, its lock free.
LEMMA InsertEndInv ==
  ASSUME IndexInv, NEW p \in Inserters, NEW x \in {"live", "dead"}, pc[p] # "idle",
         Release(p), UNCHANGED <<etup, vac>>, TypeOK',
         row' = [row EXCEPT ![job[p].heaptid] = x], pc' = [pc EXCEPT ![p] = "idle"]
  PROVE  /\ FreePlacesEmpty' /\ FreedRowsNotIndexed'
         /\ RowsOwned' /\ InsertsIndexed' /\ UpdateLockHeld'
         /\ VacuumTracks' /\ VacuumSweeps' /\ (UNCHANGED meta => EntryHeld')
<1> USE DEF IndexInv
<1>1. p \in Procs /\ p \in Writers /\ Vac \in Writers /\ Vac # p
  BY DEF Procs, Writers
<1>2. pc'[p] = "idle" /\ lock'[p] = "none"
  BY <1>1 DEF Release, TypeOK
<1>3. \A q \in Writers \ {p} :
        pc'[q] = pc[q] /\ job'[q] = job[q] /\ lock'[q] = lock[q] /\ ep'[q] = ep[q]
  BY <1>1 DEF Release, TypeOK, Procs
<1>4. row \in [HeapTids -> {"free", "inserting", "live", "dead"}]
  BY DEF TypeOK
<1>5. FreePlacesEmpty' /\ FreedRowsNotIndexed'
  BY <1>4 DEF FreePlacesEmpty, FreedRowsNotIndexed
<1>6. RowsOwned'
  <2>1. \A q \in Inserters \ {p} : pc[q] # "idle" => row'[job[q].heaptid] = "inserting"
    BY <1>4, OwnedRows DEF RowsOwned
  <2>2. \A t \in vac.dead : row'[t] = "dead"
    BY <1>4, OwnedRows DEF RowsOwned
  <2>3. QED
    BY <1>2, <1>3, <2>1, <2>2 DEF RowsOwned, Writers
<1>7. InsertsIndexed'
  BY <1>2, <1>3 DEF InsertsIndexed, Writers
<1>8. UpdateLockHeld'
  BY <1>1, <1>2, <1>3 DEF UpdateLockHeld, Writers
<1>9. VacuumTracks' /\ VacuumSweeps' /\ (UNCHANGED meta => EntryHeld')
  BY <1>1, <1>3, VacuumFrame
<1>10. QED
  BY <1>5, <1>6, <1>7, <1>8, <1>9

\* InsertFinish keeps the inductive invariant.
LEMMA InsertFinishInv ==
  ASSUME IndexInv, NEW p \in Inserters, InsertFinish(p), TypeOK' PROVE IndexInv'
<1> USE DEF IndexInv
<1>1. /\ FreePlacesEmpty' /\ FreedRowsNotIndexed'
      /\ RowsOwned' /\ InsertsIndexed' /\ UpdateLockHeld'
      /\ VacuumTracks' /\ VacuumSweeps' /\ (UNCHANGED meta => EntryHeld')
  BY InsertEndInv DEF InsertFinish
<1>2. LiveRowsIndexed'
  <2>1. \E s \in Slots : job[p].heaptid \in etup[s].heaptids
    BY DEF InsertFinish, InsertsIndexed, TypeOK, JobsNamed
  <2>2. QED
    BY <2>1 DEF InsertFinish, LiveRowsIndexed, TypeOK
<1>3. CASE UNCHANGED meta
  BY <1>1, <1>2, <1>3, EntryFrame DEF InsertFinish
<1>4. CASE meta' # meta
  <2>1. pc[p] = "connect" /\ meta' = [tid |-> job[p].tid, level |-> job[p].level]
    BY <1>4 DEF InsertFinish, EntryIfGreater
  <2>2. /\ meta'.tid = job[p].tid /\ meta'.level = job[p].level /\ meta'.tid \in Slots
        /\ etup[meta'.tid].heaptids # {} /\ etup[meta'.tid].level = meta'.level
    BY <2>1 DEF InsertsIndexed, TypeOK, JobsNamed
  <2>3. EntryPointValid' /\ EntryHeld'
    BY <2>2 DEF InsertFinish, EntryPointValid, EntryHeld, FreePlacesEmpty, NoTid
  <2>4. QED
    BY <1>1, <1>2, <2>3
<1>5. QED
  BY <1>3, <1>4

\* InsertAbort keeps the inductive invariant.
LEMMA InsertAbortInv ==
  ASSUME IndexInv, NEW p \in Inserters, InsertAbort(p), TypeOK' PROVE IndexInv'
<1> USE DEF IndexInv
<1>1. /\ FreePlacesEmpty' /\ FreedRowsNotIndexed'
      /\ RowsOwned' /\ InsertsIndexed' /\ UpdateLockHeld'
      /\ VacuumTracks' /\ VacuumSweeps' /\ (UNCHANGED meta => EntryHeld')
  BY InsertEndInv DEF InsertAbort
<1>2. LiveRowsIndexed'
  BY DEF InsertAbort, LiveRowsIndexed, TypeOK
<1>3. EntryPointValid'
  BY EntryFrame DEF InsertAbort
<1>4. QED
  BY <1>1, <1>2, <1>3 DEF InsertAbort

\* DeleteRow keeps the inductive invariant.
LEMMA DeleteRowInv ==
  ASSUME IndexInv, NEW t \in HeapTids, DeleteRow(t), TypeOK' PROVE IndexInv'
<1> USE DEF IndexInv
<1>1. /\ UNCHANGED <<etup, meta, lock, pc, job, ep, vac>>
      /\ row[t] = "live" /\ row' = [row EXCEPT ![t] = "dead"]
  BY DEF DeleteRow
<1>2. row \in [HeapTids -> {"free", "inserting", "live", "dead"}]
  BY DEF TypeOK
<1>3. EntryPointValid' /\ FreePlacesEmpty' /\ InsertsIndexed' /\ UpdateLockHeld'
  BY <1>1 DEF EntryPointValid, FreePlacesEmpty, InsertsIndexed, UpdateLockHeld
<1>4. LiveRowsIndexed' /\ FreedRowsNotIndexed'
  BY <1>1, <1>2 DEF LiveRowsIndexed, FreedRowsNotIndexed
<1>5. RowsOwned'
  BY <1>1, <1>2, OwnedRows DEF RowsOwned
<1>6. (VacuumTracks /\ VacuumSweeps /\ EntryHeld)'
  BY <1>1, VacuumFrame
<1>7. QED
  BY <1>3, <1>4, <1>5, <1>6

\* The steps of hnswgettuple touch no tuple.
LEMMA ScanInv ==
  ASSUME IndexInv, NEW p \in Scanners, ScanBegin(p) \/ EndScan(p), TypeOK' PROVE IndexInv'
<1>1. UNCHANGED <<row, etup, meta, vac, job>>
  BY DEF ScanBegin, EndScan
<1>2. \A q \in Writers : pc'[q] = pc[q] /\ lock'[q] = lock[q] /\ ep'[q] = ep[q]
  BY DEF IndexInv, TypeOK, ScanBegin, EndScan, FindNeighbors, Procs, Writers
<1>3. QED
  BY <1>1, <1>2, FrameInv DEF Writers

\* What VACUUM does to itself leaves what is known of the inserts true.
LEMMA InsertFrame ==
  ASSUME IndexInv, UNCHANGED <<row, etup>>,
         \A q \in Inserters : pc'[q] = pc[q] /\ job'[q] = job[q],
         \A t \in vac'.dead : row[t] = "dead"
  PROVE  /\ LiveRowsIndexed' /\ FreedRowsNotIndexed' /\ FreePlacesEmpty'
         /\ RowsOwned' /\ InsertsIndexed'
<1>1. LiveRowsIndexed' /\ FreedRowsNotIndexed' /\ FreePlacesEmpty'
  BY DEF IndexInv, LiveRowsIndexed, FreedRowsNotIndexed, FreePlacesEmpty
<1>2. RowsOwned' /\ InsertsIndexed'
  BY DEF IndexInv, RowsOwned, InsertsIndexed
<1>3. QED
  BY <1>1, <1>2

\* VacuumBegin keeps the inductive invariant.
LEMMA VacuumBeginInv ==
  ASSUME IndexInv, VacuumBegin, TypeOK' PROVE IndexInv'
<1> USE DEF IndexInv
<1>1. /\ UNCHANGED <<row, etup, meta, lock, job, ep>>
      /\ pc'[Vac] = "remove" /\ \A q \in Inserters : pc'[q] = pc[q]
  BY DEF VacuumBegin, TypeOK, Procs, Writers
<1>2. /\ vac'.dead = {t \in HeapTids : row[t] = "dead"}
      /\ vac'.stage = "none" /\ vac'.queue = {} /\ vac'.high = NoEntry /\ vac'.blk = 1
  BY DEF VacuumBegin, VacIdle
<1>3. /\ LiveRowsIndexed' /\ FreedRowsNotIndexed' /\ FreePlacesEmpty'
      /\ RowsOwned' /\ InsertsIndexed' /\ EntryPointValid'
  BY <1>1, <1>2, InsertFrame, EntryFrame
<1>4. VacuumTracks' /\ EntryHeld'
  BY <1>1, <1>2 DEF VacuumTracks, EntryHeld, NoEntry, RepairPc
<1>5. VacuumSweeps'
  BY <1>1, <1>2 DEF VacuumSweeps
<1>6. UpdateLockHeld'
  BY <1>1, <1>2 DEF UpdateLockHeld
<1>7. QED
  BY <1>3, <1>4, <1>5, <1>6

\* RemoveHeapTids keeps the inductive invariant.
LEMMA RemoveHeapTidsInv ==
  ASSUME IndexInv, RemoveHeapTids, TypeOK' PROVE IndexInv'
<1> USE DEF IndexInv
<1>1. /\ UNCHANGED <<row, meta, lock, job, ep>>
      /\ pc[Vac] = "remove" /\ \A q \in Inserters : pc'[q] = pc[q]
      /\ pc'[Vac] = IF HasNextBlock(vac.blk) THEN "remove" ELSE "barrier"
  BY DEF RemoveHeapTids, TypeOK, Procs, Writers
<1>2. \A s \in Slots :
        /\ etup'[s].used = etup[s].used /\ etup'[s].deleted = etup[s].deleted
        /\ etup'[s].level = etup[s].level
        /\ OnPage(s) => etup'[s].heaptids = Remaining(s)
        /\ ~OnPage(s) => etup'[s].heaptids = etup[s].heaptids
  BY DEF RemoveHeapTids, TypeOK, ElementTuple
<1>3. PICK h \in HighestPoints :
        vac' = [vac EXCEPT !.deleted = @ \union {s \in Slots : OnPage(s) /\ Remaining(s) = {}},
                           !.high = h, !.blk = @ + 1]
  BY DEF RemoveHeapTids
<1>4. /\ vac'.dead = vac.dead /\ vac'.stage = vac.stage /\ vac'.queue = vac.queue
      /\ vac'.high = h /\ vac'.blk = vac.blk + 1
      /\ vac'.deleted = vac.deleted \union {s \in Slots : OnPage(s) /\ Remaining(s) = {}}
      /\ vac.blk \in Nat
  BY <1>3, VacType DEF VacState
<1>5. vac.stage = "none" /\ vac.queue = {}
  BY <1>1 DEF VacuumTracks, RepairPc
<1>6. EntryPointValid' /\ FreePlacesEmpty'
  BY <1>1, <1>2, EntryFrame DEF FreePlacesEmpty, Remaining
<1>7. LiveRowsIndexed' /\ FreedRowsNotIndexed'
  BY <1>1, <1>2, OwnedRows DEF LiveRowsIndexed, FreedRowsNotIndexed, Remaining, RowsOwned
<1>8. RowsOwned'
  BY <1>1, <1>4 DEF RowsOwned
<1>9. InsertsIndexed'
  <2>1. \A q \in Inserters : pc[q] # "idle" => job[q].heaptid \notin vac.dead
    BY OwnedRows DEF RowsOwned
  <2>2. \A q \in Inserters : pc[q] # "idle" => \A s \in Slots :
          job[q].heaptid \in etup[s].heaptids => job[q].heaptid \in etup'[s].heaptids
    BY <1>2, <2>1 DEF Remaining
  <2>3. \A q \in Inserters : pc[q] \in {"connect", "update"} => job[q].tid \in Slots
    BY DEF TypeOK, JobsNamed
  <2>4. \A q \in Inserters : pc[q] \in {"connect", "update"} =>
          /\ job[q].heaptid \in etup'[job[q].tid].heaptids
          /\ etup'[job[q].tid].level = job[q].level
    BY <1>2, <2>2, <2>3 DEF InsertsIndexed
  <2>5. \A q \in Inserters : pc[q] = "finish" =>
          \E s \in Slots : job[q].heaptid \in etup'[s].heaptids
    BY <2>2 DEF InsertsIndexed
  <2>6. QED
    BY <1>1, <2>4, <2>5 DEF InsertsIndexed
<1>10. VacuumTracks'
  <2>1. \A s \in Slots : Remaining(s)' = Remaining(s)
    BY <1>2, <1>4 DEF Remaining
  <2>2. h.tid # NoTid => /\ h.tid \in Slots /\ etup[h.tid].level = h.level
                         /\ Remaining(h.tid) # {}
    <3>1. CASE h = vac.high
      BY <3>1 DEF VacuumTracks, TypeOK, VacState, Entry, NoEntry
    <3>2. CASE \E s \in Candidates : h = [tid |-> s, level |-> etup[s].level]
      BY <3>2 DEF Candidates
    <3>3. QED
      BY <3>1, <3>2 DEF HighestPoints
  <2>3. (vac.high.tid # NoTid => /\ etup[vac.high.tid].level = vac.high.level
                                 /\ Remaining(vac.high.tid) # {})'
    BY <1>2, <1>4, <2>1, <2>2 DEF Remaining
  <2>4. QED
    BY <1>1, <1>4, <1>5, <2>3 DEF VacuumTracks, RepairPc
<1>11. VacuumSweeps'
  <2>1. \A s \in Slots : etup[s].used /\ PageOf[s] < vac.blk => Swept(s)'
    BY <1>1, <1>2, <1>4 DEF VacuumSweeps, Swept, OnPage
  <2>2. \A s \in Slots : etup[s].used /\ PageOf[s] = vac.blk => Swept(s)'
    BY <1>2, <1>4 DEF Swept, OnPage, Remaining
  <2>3. \A s \in Slots : etup[s].used => PageOf[s] < vac.blk + 1 \/ HasNextBlock(vac.blk)
    BY <1>4 DEF HasNextBlock
  <2>4. QED
    BY <1>1, <1>2, <1>4, <2>1, <2>2, <2>3 DEF VacuumSweeps
<1>12. EntryHeld' /\ UpdateLockHeld'
  BY <1>1, <1>4, <1>5 DEF EntryHeld, UpdateLockHeld
<1>13. QED
  BY <1>6, <1>7, <1>8, <1>9, <1>10, <1>11, <1>12

\* The same for the steps of RepairGraph and for WaitForScans, which keep the
\* lists RemoveHeapTids made.
LEMMA RepairFrame ==
  ASSUME IndexInv, UNCHANGED <<row, etup>>,
         \A q \in Inserters : pc'[q] = pc[q] /\ job'[q] = job[q],
         vac'.dead = vac.dead, vac'.deleted = vac.deleted, vac'.high = vac.high,
         {pc[Vac], pc'[Vac]} \intersect {"idle", "remove"} = {}
  PROVE  /\ LiveRowsIndexed' /\ FreedRowsNotIndexed' /\ FreePlacesEmpty'
         /\ RowsOwned' /\ InsertsIndexed' /\ VacuumSweeps'
         /\ (vac.high.tid # NoTid => /\ etup[vac.high.tid].level = vac.high.level
                                     /\ Remaining(vac.high.tid) # {})'
<1>1. /\ LiveRowsIndexed' /\ FreedRowsNotIndexed' /\ FreePlacesEmpty'
      /\ RowsOwned' /\ InsertsIndexed'
  BY InsertFrame DEF IndexInv, RowsOwned
<1>2. VacuumSweeps'
  BY DEF IndexInv, VacuumSweeps, Swept
<1>3. (vac.high.tid # NoTid => /\ etup[vac.high.tid].level = vac.high.level
                               /\ Remaining(vac.high.tid) # {})'
  BY DEF IndexInv, VacuumTracks, Remaining
<1>4. QED
  BY <1>1, <1>2, <1>3

\* Steps of the repair loop that only move on.
LEMMA RepairMovesInv ==
  ASSUME IndexInv, TypeOK',
         WaitForInserts \/ LoadPage \/ CheckElement \/ PageRepaired \/ WaitForScans
  PROVE  IndexInv'
<1> USE DEF IndexInv
<1>1. /\ UNCHANGED <<row, etup, meta, lock, job, ep>>
      /\ \A q \in Inserters : pc'[q] = pc[q]
      /\ pc[Vac] \in {"barrier", "load", "check", "scans"}
      /\ pc'[Vac] \in {"high", "check", "rlock", "load", "scans", "mark"}
      /\ pc'[Vac] = "high" => pc[Vac] = "barrier"
      /\ pc[Vac] = "barrier" => pc'[Vac] = "high"
  BY DEF WaitForInserts, LoadPage, CheckElement, PageRepaired, WaitForScans, TypeOK, Procs, Writers
<1>2. /\ vac'.dead = vac.dead /\ vac'.deleted = vac.deleted /\ vac'.high = vac.high
      /\ vac'.stage = vac.stage
      /\ \A e \in vac'.queue : e \in vac.queue \/ \E s \in Slots : Alive(s) /\ e = LoadFromTuple(s)
  <2>1. CASE LoadPage
    BY <2>1, VacType DEF LoadPage, VacState
  <2>2. CASE CheckElement
    <3>1. UNCHANGED vac \/ \E e \in vac.queue : vac' = [vac EXCEPT !.queue = @ \ {e}]
      BY <2>2 DEF CheckElement
    <3>2. QED
      BY <3>1, VacType DEF VacState
  <2>3. CASE WaitForScans
    BY <2>3, VacType DEF WaitForScans, VacState
  <2>4. CASE WaitForInserts \/ PageRepaired
    BY <2>4 DEF WaitForInserts, PageRepaired
  <2>5. QED
    BY <2>1, <2>2, <2>3, <2>4
<1>3. vac.stage = "none"
  BY <1>1 DEF VacuumTracks, RepairPc
<1>4. /\ LiveRowsIndexed' /\ FreedRowsNotIndexed' /\ FreePlacesEmpty'
      /\ RowsOwned' /\ InsertsIndexed' /\ VacuumSweeps'
      /\ (vac.high.tid # NoTid => /\ etup[vac.high.tid].level = vac.high.level
                                  /\ Remaining(vac.high.tid) # {})'
  BY <1>1, <1>2, RepairFrame
<1>5. EntryPointValid' /\ EntryHeld' /\ UpdateLockHeld'
  BY <1>1, <1>2, <1>3, EntryFrame DEF EntryHeld, UpdateLockHeld
<1>6. \A e \in vac'.queue : etup[e.tid].heaptids # {} /\ etup[e.tid].level = e.level
  BY <1>2 DEF VacuumTracks, Alive, LoadFromTuple
<1>7. VacuumTracks'
  BY <1>1, <1>2, <1>3, <1>4, <1>6 DEF VacuumTracks, RepairPc
<1>8. QED
  BY <1>4, <1>5, <1>7

\* The start of a repair, wherever it is called from.
LEMMA RepairElementInv ==
  ASSUME IndexInv, TypeOK', NEW e \in Element, NEW entry \in Entry,
         NEW stage \in {"high", "entry", "element"}, NEW mode \in {"share", "exclusive"},
         RepairElement(e, entry, stage, mode), UNCHANGED <<row, etup, meta>>,
         pc[Vac] \in {"high", "entry", "rlock", "rlockx"},
         IF mode = "share" THEN CanShare(Vac) ELSE CanExclusive(Vac),
         stage = "entry" => meta.tid \notin vac.deleted,
         stage = "element" =>
           /\ pc[Vac] \in {"rlock", "rlockx"} /\ e \in vac.queue /\ entry = meta
           /\ mode = "share" => e.level <= meta.level
  PROVE  IndexInv'
<1> USE DEF IndexInv
<1>1. /\ \A q \in Inserters : /\ pc'[q] = pc[q] /\ job'[q] = job[q]
                              /\ lock'[q] = lock[q] /\ ep'[q] = ep[q]
      /\ pc'[Vac] \in RepairPc
  BY DEF RepairElement, TypeOK, Procs, Writers, RepairPc
<1>2. /\ vac'.dead = vac.dead /\ vac'.deleted = vac.deleted /\ vac'.high = vac.high
      /\ vac'.stage = stage /\ vac'.queue = vac.queue
  BY VacType DEF RepairElement, VacState
<1>3. /\ lock'[Vac] = mode /\ ep'[Vac] = entry
      /\ job'[Vac].tid = e.tid /\ job'[Vac].level = e.level
  BY DEF RepairElement, TypeOK, Procs, Writers, NoJob
<1>4. /\ LiveRowsIndexed' /\ FreedRowsNotIndexed' /\ FreePlacesEmpty'
      /\ RowsOwned' /\ InsertsIndexed' /\ VacuumSweeps'
      /\ (vac.high.tid # NoTid => /\ etup[vac.high.tid].level = vac.high.level
                                  /\ Remaining(vac.high.tid) # {})'
  BY <1>1, <1>2, RepairFrame DEF RepairPc
<1>5. EntryPointValid'
  BY EntryFrame
<1>6. VacuumTracks'
  BY <1>1, <1>2, <1>3, <1>4 DEF VacuumTracks, RepairPc
<1>7. EntryHeld'
  <2>1. CASE stage = "entry" /\ meta.tid # NoTid
    <3>1. meta.tid \in Slots /\ etup[meta.tid].used
      BY <2>1 DEF EntryPointValid, TypeOK, Entry, NoEntry
    <3>2. etup[meta.tid].heaptids # {}
      BY <2>1, <3>1 DEF VacuumSweeps, Swept
    <3>3. QED
      BY <3>2 DEF EntryHeld
  <2>2. CASE stage # "entry"
    BY <1>1, <1>2, <2>2 DEF EntryHeld, RepairPc
  <2>3. QED
    BY <2>1, <2>2 DEF EntryHeld
<1>8. UpdateLockHeld'
  <2>1. \A q \in Inserters : /\ mode = "exclusive" => lock[q] = "none"
                             /\ lock[q] # "exclusive"
    BY DEF CanShare, CanExclusive, Writers
  <2>2. \A p, q \in Writers : p # q /\ lock'[p] = "exclusive" => lock'[q] = "none"
    BY <1>1, <1>3, <2>1 DEF Writers, UpdateLockHeld
  <2>3. stage = "element" => mode = "exclusive" \/ e.level <= entry.level
    OBVIOUS
  <2>4. QED
    BY <1>1, <1>2, <1>3, <2>2, <2>3 DEF UpdateLockHeld
<1>9. QED
  BY <1>4, <1>5, <1>6, <1>7, <1>8

\* RepairHighestPoint keeps the inductive invariant.
LEMMA RepairHighestPointInv ==
  ASSUME IndexInv, RepairHighestPoint, TypeOK' PROVE IndexInv'
<1> USE DEF IndexInv
<1>1. CASE vac.high.tid # NoTid /\ NeedsUpdated(vac.high.tid)
  <2>0. vac.high.tid \in Slots /\ meta \in Entry
    BY <1>1 DEF TypeOK, VacState, Entry, NoEntry
  <2>1. LoadFromTuple(vac.high.tid) \in Element /\ meta \in Entry
    BY <2>0, LoadType
  <2>2. QED
    BY <1>1, <2>1, RepairElementInv DEF RepairHighestPoint
<1>2. CASE ~(vac.high.tid # NoTid /\ NeedsUpdated(vac.high.tid))
  <2>1. /\ UNCHANGED <<row, etup, meta, lock, job, ep, vac>>
        /\ pc[Vac] = "high" /\ pc'[Vac] = "entry" /\ \A q \in Inserters : pc'[q] = pc[q]
    BY <1>2 DEF RepairHighestPoint, TypeOK, Procs, Writers
  <2>2. /\ LiveRowsIndexed' /\ FreedRowsNotIndexed' /\ FreePlacesEmpty'
        /\ RowsOwned' /\ InsertsIndexed' /\ VacuumSweeps' /\ EntryPointValid'
    BY <2>1, RepairFrame, EntryFrame
  <2>3. VacuumTracks' /\ EntryHeld' /\ UpdateLockHeld'
    BY <2>1 DEF VacuumTracks, Remaining, RepairPc, EntryHeld, UpdateLockHeld
  <2>4. QED
    BY <2>2, <2>3
<1>3. QED
  BY <1>1, <1>2

\* RepairEntryPoint keeps the inductive invariant.
LEMMA RepairEntryPointInv ==
  ASSUME IndexInv, RepairEntryPoint, TypeOK' PROVE IndexInv'
<1> USE DEF IndexInv
<1>1. CASE meta.tid # NoTid /\ meta.tid \notin vac.deleted /\ NeedsUpdated(meta.tid)
  <2>0. meta.tid \in Slots /\ vac.high \in Entry
    BY <1>1 DEF TypeOK, VacState, Entry, NoEntry
  <2>1. LoadFromTuple(meta.tid) \in Element /\ vac.high \in Entry
    BY <2>0, LoadType
  <2>2. QED
    BY <1>1, <2>1, RepairElementInv DEF RepairEntryPoint
<1>2. CASE ~(meta.tid # NoTid /\ meta.tid \notin vac.deleted /\ NeedsUpdated(meta.tid))
  <2>1. /\ UNCHANGED <<row, etup, lock, job, ep>>
        /\ pc[Vac] = "entry" /\ pc'[Vac] = "load" /\ \A q \in Inserters : pc'[q] = pc[q]
        /\ meta' = IF meta.tid \in vac.deleted THEN vac.high ELSE meta
    BY <1>2 DEF RepairEntryPoint, TypeOK, Procs, Writers
  <2>2. /\ vac'.dead = vac.dead /\ vac'.deleted = vac.deleted /\ vac'.high = vac.high
        /\ vac'.stage = vac.stage /\ vac'.queue = vac.queue
    BY <1>2, VacType DEF RepairEntryPoint, VacState
  <2>3. vac.stage = "none"
    BY <2>1 DEF VacuumTracks, RepairPc
  <2>4. /\ LiveRowsIndexed' /\ FreedRowsNotIndexed' /\ FreePlacesEmpty'
        /\ RowsOwned' /\ InsertsIndexed' /\ VacuumSweeps'
        /\ (vac.high.tid # NoTid => /\ etup[vac.high.tid].level = vac.high.level
                                    /\ Remaining(vac.high.tid) # {})'
    BY <2>1, <2>2, RepairFrame
  <2>5. VacuumTracks' /\ UpdateLockHeld'
    BY <2>1, <2>2, <2>3, <2>4 DEF VacuumTracks, RepairPc, UpdateLockHeld
  <2>6. CASE meta.tid \in vac.deleted
    <3>1. vac.high = NoEntry \/ (vac.high.tid \in Slots /\ vac.high.tid # NoTid)
      BY VacType DEF VacState, Entry, NoTid
    <3>2. vac.high.tid # NoTid => /\ etup[vac.high.tid].level = vac.high.level
                                  /\ etup[vac.high.tid].heaptids # {}
      BY DEF VacuumTracks, Remaining
    <3>3. vac.high.tid # NoTid => etup[vac.high.tid].used /\ ~etup[vac.high.tid].deleted
      <4>1. vac.high.tid # NoTid => vac.high.tid \in Slots
        BY <3>1 DEF NoEntry
      <4>2. QED
        BY <3>2, <4>1, Zenon DEF FreePlacesEmpty
    <3>5. meta' = vac.high /\ etup' = etup
      BY <2>1, <2>6
    <3>6. vac.high.tid = NoTid => vac.high.level = -1
      BY <3>1 DEF NoEntry
    <3>7. EntryPointValid'
      BY <3>2, <3>3, <3>5, <3>6 DEF EntryPointValid
    <3>8. EntryHeld'
      BY <3>2, <3>5 DEF EntryHeld
    <3>9. QED
      BY <2>4, <2>5, <3>7, <3>8
  <2>7. CASE meta.tid \notin vac.deleted
    <3>1. meta.tid # NoTid => meta.tid \in Slots /\ etup[meta.tid].used
      BY DEF EntryPointValid, TypeOK, Entry, NoEntry
    <3>2. meta.tid # NoTid => etup[meta.tid].heaptids # {}
      BY <2>1, <2>7, <3>1 DEF VacuumSweeps, Swept
    <3>3. EntryPointValid' /\ EntryHeld'
      BY <2>1, <2>7, <3>2, EntryFrame DEF EntryHeld
    <3>4. QED
      BY <2>4, <2>5, <3>3
  <2>8. QED
    BY <2>6, <2>7
<1>3. QED
  BY <1>1, <1>2

\* RepairLock keeps the inductive invariant.
LEMMA RepairLockInv ==
  ASSUME IndexInv, RepairLock \/ RepairLockExclusive, TypeOK' PROVE IndexInv'
<1> USE DEF IndexInv
<1>1. /\ UNCHANGED <<row, etup, meta>> /\ pc[Vac] \in {"rlock", "rlockx"}
      /\ vac.queue \in SUBSET Element /\ meta \in Entry
  BY DEF RepairLock, RepairLockExclusive, TypeOK, VacState
<1>2. CASE RepairLockExclusive
  <2>1. PICK e \in vac.queue : RepairElement(e, meta, "element", "exclusive")
    BY <1>2 DEF RepairLockExclusive
  <2>2. QED
    BY <1>1, <1>2, <2>1, RepairElementInv DEF RepairLockExclusive
<1>3. CASE RepairLock
  <2>1. PICK e \in vac.queue :
          IF e.level > meta.level
            THEN pc' = [pc EXCEPT ![Vac] = "rlockx"] /\ UNCHANGED <<vac, job, lock, ep, srch>>
            ELSE RepairElement(e, meta, "element", "share")
    BY <1>3 DEF RepairLock
  <2>2. CASE e.level > meta.level
    <3>1. /\ pc[Vac] = "rlock" /\ pc'[Vac] = "rlockx" /\ \A q \in Inserters : pc'[q] = pc[q]
          /\ UNCHANGED <<vac, job, lock, ep>>
      BY <1>3, <2>1, <2>2 DEF RepairLock, TypeOK, Procs, Writers
    <3>2. /\ LiveRowsIndexed' /\ FreedRowsNotIndexed' /\ FreePlacesEmpty'
          /\ RowsOwned' /\ InsertsIndexed' /\ VacuumSweeps' /\ EntryPointValid'
      BY <1>1, <3>1, RepairFrame, EntryFrame
    <3>3. VacuumTracks' /\ EntryHeld' /\ UpdateLockHeld'
      BY <1>1, <3>1 DEF VacuumTracks, Remaining, RepairPc, EntryHeld, UpdateLockHeld
    <3>4. QED
      BY <3>2, <3>3
  <2>3. CASE ~(e.level > meta.level)
    <3>1. e.level <= meta.level
      BY <1>1, <2>3 DEF Element, Entry, NoEntry, Levels
    <3>2. QED
      BY <1>1, <1>3, <2>1, <2>3, <3>1, RepairElementInv DEF RepairLock
  <2>4. QED
    BY <2>2, <2>3
<1>4. QED
  BY <1>2, <1>3

\* RewriteNeighbors keeps the inductive invariant.
LEMMA RewriteNeighborsInv ==
  ASSUME IndexInv, RewriteNeighbors, TypeOK' PROVE IndexInv'
<1>1. /\ UNCHANGED <<row, etup, meta, vac, job, lock, ep>>
      /\ \A q \in Inserters : pc'[q] = pc[q]
      /\ {pc[Vac], pc'[Vac]} \subseteq RepairPc
  BY DEF RewriteNeighbors, IndexInv, TypeOK, Procs, Writers, RepairPc
<1>2. QED
  BY <1>1, FrameInv

\* RepairDone keeps the inductive invariant.
LEMMA RepairDoneInv ==
  ASSUME IndexInv, RepairDone, TypeOK' PROVE IndexInv'
<1> USE DEF IndexInv
<1>1. /\ UNCHANGED <<row, etup>>
      /\ \A q \in Inserters : /\ pc'[q] = pc[q] /\ job'[q] = job[q]
                              /\ lock'[q] = lock[q] /\ ep'[q] = ep[q]
      /\ lock'[Vac] = "none"
      /\ pc[Vac] \in RepairPc
      /\ pc'[Vac] = CASE vac.stage = "high" -> "entry"
                      [] vac.stage = "entry" -> "load"
                      [] OTHER -> "check"
  BY DEF RepairDone, Release, TypeOK, Procs, Writers, RepairPc
<1>2. /\ vac'.dead = vac.dead /\ vac'.deleted = vac.deleted /\ vac'.high = vac.high
      /\ vac'.stage = "none" /\ vac'.queue \subseteq vac.queue
  BY VacType DEF RepairDone, VacState
<1>3. vac.stage \in {"high", "entry", "element"}
  BY <1>1, VacType DEF VacuumTracks, VacState
<1>4. /\ LiveRowsIndexed' /\ FreedRowsNotIndexed' /\ FreePlacesEmpty'
      /\ RowsOwned' /\ InsertsIndexed' /\ VacuumSweeps'
      /\ (vac.high.tid # NoTid => /\ etup[vac.high.tid].level = vac.high.level
                                  /\ Remaining(vac.high.tid) # {})'
  BY <1>1, <1>2, <1>3, RepairFrame DEF RepairPc
<1>5. VacuumTracks'
  BY <1>1, <1>2, <1>3, <1>4 DEF VacuumTracks, RepairPc
<1>6. UpdateLockHeld'
  BY <1>1, <1>2 DEF UpdateLockHeld, Writers
<1>7. CASE UNCHANGED meta
  <2>1. EntryPointValid' /\ EntryHeld'
    BY <1>1, <1>2, <1>3, <1>7, EntryFrame DEF EntryHeld
  <2>2. QED
    BY <1>4, <1>5, <1>6, <2>1
<1>8. CASE meta' # meta
  <2>1. vac.stage = "element" /\ meta' = [tid |-> job[Vac].tid, level |-> job[Vac].level]
    BY <1>8 DEF RepairDone, EntryIfGreater
  <2>2. /\ meta'.tid = job[Vac].tid /\ meta'.level = job[Vac].level /\ meta'.tid \in Slots
        /\ etup[meta'.tid].heaptids # {} /\ etup[meta'.tid].level = meta'.level
    BY <2>1 DEF VacuumTracks, TypeOK, JobsNamed
  <2>3. EntryPointValid' /\ EntryHeld'
    BY <1>1, <2>2 DEF EntryPointValid, EntryHeld, FreePlacesEmpty, NoTid
  <2>4. QED
    BY <1>4, <1>5, <1>6, <2>3
<1>9. QED
  BY <1>7, <1>8

\* MarkDeleted keeps the inductive invariant.
LEMMA MarkDeletedInv ==
  ASSUME IndexInv, MarkDeleted, TypeOK' PROVE IndexInv'
<1> USE DEF IndexInv
<1>1. /\ UNCHANGED <<row, meta, lock, job, ep>>
      /\ pc[Vac] = "mark" /\ pc'[Vac] \in {"mark", "done"} /\ \A q \in Inserters : pc'[q] = pc[q]
  BY DEF MarkDeleted, TypeOK, Procs, Writers
<1>2. /\ vac'.dead = vac.dead /\ vac'.deleted = vac.deleted /\ vac'.high = vac.high
      /\ vac'.stage = vac.stage /\ vac'.queue = vac.queue
  BY VacType DEF MarkDeleted, VacState
<1>3. \A s \in Slots :
        /\ etup'[s].used = etup[s].used /\ etup'[s].level = etup[s].level
        /\ etup'[s].heaptids = etup[s].heaptids
        /\ etup[s].heaptids # {} => etup'[s].deleted = etup[s].deleted
  <2>1. TAKE s \in Slots
  <2>2. etup[s] \in ElementTuple
    BY DEF TypeOK
  <2>3. CASE ToDelete(s)
    <3>1. etup'[s] = [etup[s] EXCEPT !.deleted = TRUE, !.value = Cleared,
                                     !.version = NextVersion(etup[s].version)]
      BY <2>3 DEF MarkDeleted
    <3>2. QED
      BY <2>2, <2>3, <3>1 DEF ElementTuple, ToDelete
  <2>4. CASE ~ToDelete(s)
    BY <2>4 DEF MarkDeleted
  <2>5. QED
    BY <2>3, <2>4
<1>4. meta.tid # NoTid => meta.tid \in Slots /\ etup[meta.tid].heaptids # {}
  BY <1>1 DEF EntryHeld, TypeOK, Entry, NoEntry
<1>5. EntryPointValid' /\ EntryHeld'
  BY <1>1, <1>3, <1>4 DEF EntryPointValid, EntryHeld
<1>6. LiveRowsIndexed' /\ FreedRowsNotIndexed' /\ FreePlacesEmpty' /\ RowsOwned'
  BY <1>1, <1>2, <1>3 DEF LiveRowsIndexed, FreedRowsNotIndexed, FreePlacesEmpty, RowsOwned
<1>7. InsertsIndexed'
  BY <1>1, <1>3 DEF InsertsIndexed, TypeOK, JobsNamed
<1>8. VacuumSweeps'
  BY <1>1, <1>2, <1>3 DEF VacuumSweeps, Swept
<1>9. VacuumTracks'
  <2>1. vac.stage = "none"
    BY <1>1 DEF VacuumTracks, RepairPc
  <2>2. /\ vac.high.tid # NoTid => vac.high.tid \in Slots
        /\ \A e \in vac.queue : e.tid \in Slots
    BY VacType DEF VacState, Entry, NoEntry, Element
  <2>3. (vac.high.tid # NoTid => /\ etup[vac.high.tid].level = vac.high.level
                                 /\ Remaining(vac.high.tid) # {})'
    BY <1>2, <1>3, <2>2 DEF VacuumTracks, Remaining
  <2>4. \A e \in vac'.queue : etup'[e.tid].heaptids # {} /\ etup'[e.tid].level = e.level
    BY ZenonT(60), <1>2, <1>3, <2>2 DEF VacuumTracks
  <2>5. QED
    BY <1>1, <1>2, <2>1, <2>3, <2>4 DEF VacuumTracks, RepairPc
<1>10. UpdateLockHeld'
  BY <1>1, <1>2 DEF UpdateLockHeld
<1>11. QED
  BY <1>5, <1>6, <1>7, <1>8, <1>9, <1>10

\* VacuumFinish keeps the inductive invariant.
LEMMA VacuumFinishInv ==
  ASSUME IndexInv, VacuumFinish, TypeOK' PROVE IndexInv'
<1> USE DEF IndexInv
<1>1. /\ UNCHANGED <<etup, meta, lock, job, ep>>
      /\ row' = [t \in HeapTids |-> IF t \in vac.dead THEN "free" ELSE row[t]]
      /\ vac' = VacIdle /\ pc[Vac] = "done" /\ pc'[Vac] = "idle"
      /\ \A q \in Inserters : pc'[q] = pc[q]
  BY DEF VacuumFinish, TypeOK, Procs, Writers
<1>2. \A t \in vac.dead : row[t] = "dead" /\ \A s \in Slots : t \notin etup[s].heaptids
  BY <1>1 DEF RowsOwned, VacuumSweeps, Swept, FreePlacesEmpty
<1>3. EntryPointValid' /\ FreePlacesEmpty' /\ InsertsIndexed'
  BY <1>1, EntryFrame DEF FreePlacesEmpty, InsertsIndexed
<1>4. LiveRowsIndexed' /\ FreedRowsNotIndexed'
  BY <1>1, <1>2 DEF LiveRowsIndexed, FreedRowsNotIndexed
<1>5. RowsOwned'
  BY <1>1, <1>2, OwnedRows DEF RowsOwned, VacIdle
<1>6. VacuumTracks' /\ VacuumSweeps' /\ EntryHeld'
  BY <1>1 DEF VacuumTracks, VacuumSweeps, EntryHeld, VacIdle, NoEntry, RepairPc
<1>7. UpdateLockHeld'
  BY <1>1 DEF UpdateLockHeld, VacIdle
<1>8. QED
  BY <1>3, <1>4, <1>5, <1>6, <1>7

\* VacuumAbort keeps the inductive invariant.
LEMMA VacuumAbortInv ==
  ASSUME IndexInv, VacuumAbort, TypeOK' PROVE IndexInv'
<1> USE DEF IndexInv
<1>1. /\ UNCHANGED <<row, etup, meta>>
      /\ vac' = VacIdle /\ pc'[Vac] = "idle" /\ lock'[Vac] = "none"
      /\ \A q \in Inserters : /\ pc'[q] = pc[q] /\ job'[q] = job[q]
                              /\ lock'[q] = lock[q] /\ ep'[q] = ep[q]
  BY DEF VacuumAbort, Release, TypeOK, Procs, Writers
<1>2. /\ LiveRowsIndexed' /\ FreedRowsNotIndexed' /\ FreePlacesEmpty'
      /\ RowsOwned' /\ InsertsIndexed' /\ EntryPointValid'
  BY <1>1, InsertFrame, EntryFrame DEF VacIdle
<1>3. VacuumTracks' /\ VacuumSweeps' /\ EntryHeld'
  BY <1>1 DEF VacuumTracks, VacuumSweeps, EntryHeld, VacIdle, NoEntry, RepairPc
<1>4. UpdateLockHeld'
  BY <1>1 DEF UpdateLockHeld, VacIdle, Writers
<1>5. QED
  BY <1>2, <1>3, <1>4

\* Every step keeps the invariant.
LEMMA NextInv == ASSUME IndexInv, [Next]_vars PROVE IndexInv'
<1>1. TypeOK'
  BY NextType DEF IndexInv
<1>2. ASSUME NEW p \in Inserters, InsertBegin(p) \/ InsertStep(p) \/ InsertAbort(p)
      PROVE  IndexInv'
  BY <1>1, <1>2, WalkGraphInv, ConnectInv, InsertBeginInv, InsertLockInv, AddDuplicateInv,
     AddElementInv, InsertFinishInv, InsertAbortInv
  DEF InsertStep, Procs, Writers
<1>3. ASSUME NEW p \in Scanners, ScanBegin(p) \/ ScanStep(p) \/ ScanAbort(p)
      PROVE  IndexInv'
  BY <1>1, <1>3, WalkGraphInv, ScanInv DEF ScanStep, ScanDone, ScanAbort, Procs
<1>4. ASSUME RepairGraph PROVE IndexInv'
  BY <1>1, <1>4, RepairMovesInv, RepairHighestPointInv, RepairEntryPointInv, RepairLockInv,
     RewriteNeighborsInv, RepairDoneInv
  DEF RepairGraph
<1>5. ASSUME VacuumBegin \/ VacuumStep \/ VacuumAbort PROVE IndexInv'
  BY <1>1, <1>4, <1>5, WalkGraphInv, ConnectInv, VacuumBeginInv, RemoveHeapTidsInv,
     RepairMovesInv, MarkDeletedInv, VacuumFinishInv, VacuumAbortInv
  DEF VacuumStep, Procs, Writers
<1>6. CASE UNCHANGED vars
  BY <1>1, <1>6, FrameInv DEF vars
<1>7. QED
  BY <1>1, <1>2, <1>3, <1>5, <1>6, DeleteRowInv DEF Next

\* Every reachable state satisfies the inductive invariant.
THEOREM IndexInvariant == Spec => []IndexInv
<1>1. IndexInv /\ [Next]_vars => IndexInv'
  BY NextInv
<1>2. QED
  BY <1>1, InitInv, PTL DEF Spec

\* HnswGetEntryPoint always gives an element that exists, with its level, that no
\* VACUUM has reclaimed: whatever inserts did meanwhile, and wherever earlier
\* VACUUMs were cancelled.
THEOREM EntryPointCorrect == Spec => []EntryPointValid
<1>1. IndexInv => EntryPointValid
  BY DEF IndexInv
<1>2. QED
  BY <1>1, IndexInvariant, PTL

\* No committed row is lost from the index: neither RemoveHeapTids nor the reuse
\* of a deleted place drops one.
THEOREM LiveRowsCorrect == Spec => []LiveRowsIndexed
<1>1. IndexInv => LiveRowsIndexed
  BY DEF IndexInv
<1>2. QED
  BY <1>1, IndexInvariant, PTL

\* The heap TIDs VACUUM gives back are gone from the whole index, though inserts
\* kept adding pages and elements while RemoveHeapTids walked the chain.
THEOREM FreedRowsCorrect == Spec => []FreedRowsNotIndexed
<1>1. IndexInv => FreedRowsNotIndexed
  BY DEF IndexInv
<1>2. QED
  BY <1>1, IndexInvariant, PTL

\* A step that changes the metapage is taken by a lone writer.
LEMMA EntryChangeStep ==
  ASSUME IndexInv, [Next]_vars, meta' # meta
  PROVE  \E p \in Writers : \A q \in Writers \ {p} : lock[q] = "none"
<1> USE DEF IndexInv
<1>1. \/ \E p \in Inserters : InsertFinish(p)
      \/ RepairEntryPoint \/ RepairDone
  BY ZenonT(60) DEF Next, vars, InsertBegin, InsertStep, InsertAbort, WalkGraph, Connect, LoadElement,
         ReadNeighbors, NextLayer, WriterSearchDone, GetUpdateIndex, UpdateNeighbor, InsertLock,
         InsertLockExclusive, AddDuplicate, AddElement, ScanBegin, ScanStep, ScanDone,
         ScanAbort, EndScan, DeleteRow, VacuumBegin, VacuumStep, VacuumAbort, RepairGraph,
         RemoveHeapTids, WaitForInserts, RepairHighestPoint, LoadPage, CheckElement,
         PageRepaired, RepairLock, RepairLockExclusive, RewriteNeighbors, WaitForScans,
         MarkDeleted, VacuumFinish
<1>2. ASSUME NEW p \in Inserters, InsertFinish(p) PROVE lock[p] = "exclusive"
  <2>1. pc[p] = "connect" /\ job[p].level > ep[p].level
    BY <1>2 DEF InsertFinish
  <2>2. job[p].level \in Int /\ ep[p].level \in Int
    BY DEF TypeOK, Job, Entry, NoEntry, Levels, Procs, Writers
  <2>3. QED
    BY <2>1, <2>2 DEF UpdateLockHeld
<1>3. ASSUME RepairDone PROVE lock[Vac] = "exclusive"
  <2>1. vac.stage = "element" /\ job[Vac].level > ep[Vac].level
    BY <1>3 DEF RepairDone
  <2>2. job[Vac].level \in Int /\ ep[Vac].level \in Int
    BY DEF TypeOK, Job, Entry, NoEntry, Levels, Procs, Writers
  <2>3. QED
    BY <2>1, <2>2 DEF UpdateLockHeld
<1>4. QED
  BY <1>1, <1>2, <1>3 DEF UpdateLockHeld, RepairEntryPoint, CanExclusive, Writers

\* The entry point changes only under an update lock nobody shares: what an
\* insert or a repair read from the metapage under its lock is still there when
\* it compares its level with it.
THEOREM EntryChangesCorrect == Spec => EntryChangesAlone
<1>1. IndexInv /\ [Next]_vars =>
        [meta' # meta => \E p \in Writers : \A q \in Writers \ {p} : lock[q] = "none"]_vars
  BY EntryChangeStep
<1>2. QED
  BY <1>1, IndexInvariant, PTL DEF Spec, EntryChangesAlone
=============================================================================
