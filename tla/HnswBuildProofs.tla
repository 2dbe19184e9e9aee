-------------------------- MODULE HnswBuildProofs --------------------------
(***************************************************************************)
(* Proofs about HnswBuild, for any number of workers, rows and levels and  *)
(* any amount of memory.                                                   *)
(*                                                                         *)
(* BuildInv is inductive.  Each of its parts has a frame lemma, which says *)
(* which steps of a participant keep it; the lemma of an action cites the  *)
(* frames and proves the parts that the action really changes.             *)
(***************************************************************************)
EXTENDS HnswBuild, FiniteSetTheorems, SequenceTheorems, TLAPS

\* The step takes p from x to y, and nobody else anywhere.
Moves(p, x, y) ==
  /\ pc[p] = x /\ pc'[p] = y
  /\ \A q \in Procs : q # p => pc'[q] = pc[q]

\* Only p's local variables change, and not its row.
WorksOn(p) ==
  /\ Row(p)' = Row(p)
  /\ \A q \in Procs : q # p => work'[q] = work[q]

\* Levels and heap TIDs of the elements stay as they are.
SameElements ==
  \A e \in Rows : elem'[e].level = elem[e].level /\ elem'[e].heaptids = elem[e].heaptids

\* A participant that is at its row and stays at it.
Active == Pc \ {"out", "finished", "failed"}

LEMMA MoveFact ==
  ASSUME BuildTypeOK, NEW p \in Procs, NEW x, NEW y, pc[p] = x, Move(p, y)
  PROVE  Moves(p, x, y)
  BY DEF BuildTypeOK, Moves, Move

LEMMA WorkFact ==
  ASSUME BuildTypeOK, NEW p \in Procs, UNCHANGED work
  PROVE  WorksOn(p)
  BY DEF WorksOn, Row

LEMMA SameFact ==
  ASSUME UNCHANGED elem
  PROVE  SameElements
  BY DEF SameElements

LEMMA TodoFact ==
  ASSUME BuildTypeOK, NEW p \in Procs, NEW t \in Seq(Rows), work' = [work EXCEPT ![p].todo = t]
  PROVE  /\ work' \in [Procs -> Work]
         /\ WorksOn(p) /\ work'[p].ep = work[p].ep /\ work'[p].todo = t
<1>1. work \in [Procs -> Work] /\ work[p] \in Work
  BY DEF BuildTypeOK
<1>2. [work[p] EXCEPT !.todo = t] \in Work
  BY <1>1 DEF Work
<1>3. work'[p] = [work[p] EXCEPT !.todo = t] /\ \A q \in Procs : q # p => work'[q] = work[q]
  BY <1>1
<1>4. work' \in [Procs -> Work]
  BY <1>1, <1>2
<1>5. QED
  BY <1>1, <1>3, <1>4 DEF WorksOn, Row, Work

LEMMA LayerFact ==
  ASSUME BuildTypeOK, NEW p \in Procs, NEW l \in Levels, work' = [work EXCEPT ![p].lc = l]
  PROVE  /\ work' \in [Procs -> Work]
         /\ WorksOn(p) /\ work'[p].ep = work[p].ep /\ work'[p].todo = work[p].todo
<1>1. work \in [Procs -> Work] /\ work[p] \in Work
  BY DEF BuildTypeOK
<1>2. [work[p] EXCEPT !.lc = l] \in Work
  BY <1>1 DEF Work
<1>3. work'[p] = [work[p] EXCEPT !.lc = l] /\ \A q \in Procs : q # p => work'[q] = work[q]
  BY <1>1
<1>4. work' \in [Procs -> Work]
  BY <1>1, <1>2
<1>5. QED
  BY <1>1, <1>3, <1>4 DEF WorksOn, Row, Work

LEMMA LinkFact ==
  ASSUME BuildTypeOK, NEW n \in Rows, NEW l \in Levels, NEW list \in Seq(Rows),
         elem' = [elem EXCEPT ![n].links[l] = list]
  PROVE  SameElements /\ elem' \in [Rows -> Element]
<1>1. elem \in [Rows -> Element] /\ elem[n] \in Element
  BY DEF BuildTypeOK
<1>2. [elem[n].links EXCEPT ![l] = list] \in [Levels -> Seq(Rows)]
  BY <1>1 DEF Element
<1>3. elem' = [elem EXCEPT ![n] = [elem[n] EXCEPT !.links = [elem[n].links EXCEPT ![l] = list]]]
  BY <1>1
<1>4. [elem[n] EXCEPT !.links = [elem[n].links EXCEPT ![l] = list]] \in Element
  BY <1>1, <1>2 DEF Element
<1>5. elem' \in [Rows -> Element]
  BY <1>1, <1>3, <1>4
<1>6. SameElements
  BY <1>1, <1>3 DEF SameElements, Element
<1>7. QED
  BY <1>5, <1>6
-----------------------------------------------------------------------------
(***************************************************************************)
(* Frames.                                                                 *)
(***************************************************************************)
LEMMA ScanFrame ==
  ASSUME BuildInv, status = "building", UNCHANGED <<status, parts, ndone>>, rest' \subseteq rest,
         NEW p \in Procs, NEW x \in Active, NEW y \in Active, Moves(p, x, y)
  PROVE  ScanInv'
<1>1. \A q \in Procs : /\ pc'[q] = "failed" <=> pc[q] = "failed"
                       /\ pc'[q] = "finished" <=> pc[q] = "finished"
                       /\ pc'[q] = "out" <=> pc[q] = "out"
  BY DEF Moves, Active
<1>2. (NoFailure' <=> NoFailure) /\ Finished' = Finished
  BY <1>1 DEF NoFailure, Finished
<1>3. QED
  BY <1>1, <1>2 DEF BuildInv, ScanInv

LEMMA LockFrame ==
  ASSUME BuildInv, UNCHANGED <<flushLock, entryLock, flushed>>,
         NEW p \in Procs, NEW x, NEW y, Moves(p, x, y),
         x \in MemoryPc <=> y \in MemoryPc, x = "flush" <=> y = "flush",
         x \in EntryPc \union {"release"} <=> y \in EntryPc \union {"release"},
         y = "ondisk" => flushed
  PROVE  LockInv'
  BY DEF BuildInv, LockInv, Moves

LEMMA OwnerFrame ==
  ASSUME BuildInv, UNCHANGED rest, listed \subseteq listed',
         NEW p \in Procs, NEW x \in RowPc, NEW y \in RowPc, Moves(p, x, y), WorksOn(p),
         work'[p].ep \in listed' \union {Nobody},
         y \in PendingPc => work'[p].todo \in Seq(listed')
  PROVE  OwnerInv'
<1>1. Seq(listed) \subseteq Seq(listed')
  BY SeqMonotonic
<1>2. \A q \in Procs : /\ pc'[q] \in {"out", "scan"} => work'[q] = NoWork
                       /\ pc'[q] \in RowPc => /\ Row(q)' \in Indexable \ rest'
                                              /\ work'[q].ep \in listed' \union {Nobody}
                       /\ pc'[q] \in PendingPc => work'[q].todo \in Seq(listed')
  BY <1>1 DEF BuildInv, OwnerInv, Moves, WorksOn, Row, RowPc, PendingPc, ConnectPc
<1>3. \A q \in Procs : Row(q)' = Row(q) /\ (pc'[q] \in RowPc => pc[q] \in RowPc)
  BY DEF Moves, WorksOn, Row
<1>4. QED
  BY <1>2, <1>3 DEF BuildInv, OwnerInv

LEMMA ElementFrame ==
  ASSUME BuildInv, UNCHANGED <<entry, listed>>, SameElements,
         NEW p \in Procs, NEW x, NEW y, Moves(p, x, y), WorksOn(p), x \in RowPc,
         y \in ElemPc => x \in ElemPc,
         y \in ElemPc \intersect PendingPc => x \in ElemPc \intersect PendingPc,
         y \in ConnectPc => x \in ConnectPc
  PROVE  ElementInv'
<1>1. \A q \in Procs : Row(q)' = Row(q)
  BY DEF WorksOn, Row
<1>2. \A q \in Procs : pc[q] \in ElemPc => Row(q) \in Rows
  BY DEF BuildInv, OwnerInv, ElemPc, MemoryPc, RowPc, PendingPc, ConnectPc, Indexable
<1>3. listed \subseteq Rows
  BY DEF BuildInv, BuildTypeOK
<1>4. QED
  BY <1>1, <1>2, <1>3 DEF BuildInv, ElementInv, Moves, SameElements

LEMMA RowFrame ==
  ASSUME BuildInv, UNCHANGED <<disk, flushed, rest, listed>>, SameElements,
         NEW p \in Procs, NEW x \in Active, NEW y \in Active, Moves(p, x, y), WorksOn(p),
         x \in PendingPc <=> y \in PendingPc
  PROVE  RowInv' /\ Indexed' = Indexed
<1>1. \A q \in Procs : Row(q)' = Row(q) /\ (pc'[q] \in PendingPc <=> pc[q] \in PendingPc)
  BY DEF WorksOn, Row, Moves
<1>2. NoFailure' <=> NoFailure
  BY DEF Moves, Active, NoFailure
<1>a. \A e \in listed : elem'[e].heaptids = elem[e].heaptids
  BY DEF BuildInv, BuildTypeOK, SameElements
<1>b. InMemory' = InMemory
  BY <1>a DEF InMemory
<1>3. Indexed' = Indexed
  BY <1>b DEF Indexed
<1>4. QED
  BY <1>1, <1>2, <1>3 DEF BuildInv, RowInv

LEMMA EntryFrame ==
  ASSUME BuildInv, UNCHANGED <<entry, listed, entryLock>>, SameElements,
         NEW p \in Procs, NEW x \in Active, NEW y \in Active, Moves(p, x, y), WorksOn(p),
         y \in EntryPc => x \in EntryPc /\ work'[p].ep = work[p].ep,
         x \in ConnectPc => y \in ConnectPc
  PROVE  EntryInv'
<1>1. \A q \in Procs : Row(q)' = Row(q)
  BY DEF WorksOn, Row
<1>2. \A q \in Procs : pc[q] \in EntryPc => Row(q) \in Rows
  BY DEF BuildInv, OwnerInv, EntryPc, RowPc, PendingPc, ConnectPc, Indexable
<1>3. NoFailure' <=> NoFailure
  BY DEF Moves, Active, NoFailure
<1>4. listed \subseteq Rows /\ LevelOf(entry)' = LevelOf(entry)
  BY DEF BuildInv, BuildTypeOK, LevelOf, SameElements
<1>5. \A q \in Procs : pc'[q] \in EntryPc =>
        /\ work'[q].ep = entry'
        /\ entryLock'[q] = "share" => elem'[Row(q)'].level <= LevelOf(entry)'
  BY <1>1, <1>2, <1>4 DEF BuildInv, EntryInv, WorksOn, Moves, SameElements
<1>6. \A q \in Procs : pc[q] \in ConnectPc => pc'[q] \in ConnectPc
  BY DEF Moves
<1>7. QED
  BY <1>1, <1>3, <1>4, <1>5, <1>6 DEF BuildInv, EntryInv, SameElements
-----------------------------------------------------------------------------
(***************************************************************************)
(* Steps of an insert that only lead it on.                                *)
(***************************************************************************)

\* What a step does to the index as IndexBuild sees it.
Grows == \/ Indexed' = Indexed
         \/ \E r \in Indexable : r \notin Indexed /\ Indexed' = Indexed \union {r}

\* Both places are in the same part of InsertTupleInMemory.
SamePhase(x, y) ==
  /\ x \in ElemPc \ {"release"} /\ y \in ElemPc \ {"release"}
  /\ x \in EntryPc <=> y \in EntryPc
  /\ x \in PendingPc <=> y \in PendingPc
  /\ x \in ConnectPc <=> y \in ConnectPc

LEMMA Phases ==
  /\ SamePhase("wait", "entry") /\ SamePhase("entry", "waitx") /\ SamePhase("waitx", "entryx")
  /\ SamePhase("search", "search") /\ SamePhase("search", "dup") /\ SamePhase("dup", "dup")
  /\ SamePhase("copy", "connect") /\ SamePhase("connect", "connect")
  /\ SamePhase("connect", "copy") /\ SamePhase("connect", "setentry")
  BY DEF SamePhase, ElemPc, MemoryPc, EntryPc, PendingPc, ConnectPc

LEMMA PlainMove ==
  ASSUME BuildInv, BuildTypeOK', status = "building",
         UNCHANGED <<status, parts, rest, listed, entry, flushed, flushLock, entryLock, disk, ndone>>,
         SameElements, NEW p \in Procs, NEW x, NEW y, Moves(p, x, y), SamePhase(x, y),
         WorksOn(p), work'[p].ep = work[p].ep,
         y \in PendingPc => work'[p].todo \in Seq(listed)
  PROVE  BuildInv' /\ Grows
<1>1. /\ x \in ElemPc \ {"release"} /\ y \in ElemPc \ {"release"}
      /\ x \in EntryPc <=> y \in EntryPc
      /\ x \in PendingPc <=> y \in PendingPc
      /\ x \in ConnectPc <=> y \in ConnectPc
  BY DEF SamePhase
<1>2. x \in Active /\ y \in Active /\ x \in RowPc /\ y \in RowPc
  BY <1>1 DEF ElemPc, MemoryPc, Active, Pc, RowPc, PendingPc, ConnectPc
<1>3. ScanInv'
  BY <1>2, ScanFrame
<1>4. LockInv'
  <2>1. /\ x \in MemoryPc /\ y \in MemoryPc /\ x # "flush" /\ y # "flush" /\ y # "ondisk"
        /\ x \in EntryPc \union {"release"} <=> y \in EntryPc \union {"release"}
    BY <1>1 DEF ElemPc, MemoryPc
  <2>2. QED
    BY <2>1, LockFrame
<1>5. OwnerInv'
  BY <1>2, OwnerFrame DEF BuildInv, OwnerInv, Moves
<1>6. ElementInv'
  BY <1>1, <1>2, ElementFrame
<1>7. RowInv' /\ Indexed' = Indexed
  BY <1>1, <1>2, RowFrame
<1>8. EntryInv'
  BY <1>1, <1>2, EntryFrame
<1>9. QED
  BY <1>3, <1>4, <1>5, <1>6, <1>7, <1>8 DEF BuildInv, Grows

LEMMA PassEntryWaitInv ==
  ASSUME BuildInv, status = "building", NEW p \in Procs, PassEntryWait(p)
  PROVE  BuildInv' /\ Grows
<1>1. /\ Moves(p, "wait", "entry") /\ WorksOn(p) /\ SameElements
      /\ UNCHANGED <<status, parts, rest, work, elem, listed, entry, used, flushed,
                     flushLock, entryLock, entryWait, disk, indtuples, ndone>>
  BY MoveFact, WorkFact, SameFact DEF BuildInv, PassEntryWait, graph, locks
<1>2. BuildTypeOK'
  BY <1>1 DEF PassEntryWait, Move, BuildInv, BuildTypeOK, Pc, MemoryPc
<1>3. work[p].todo \in Seq(listed)
  BY <1>1 DEF BuildInv, OwnerInv, Moves, PendingPc
<1>4. QED
  BY <1>1, <1>2, <1>3, Phases, PlainMove

LEMMA EntryWaitExclusiveInv ==
  ASSUME BuildInv, status = "building", NEW p \in Procs, EntryWaitExclusive(p)
  PROVE  BuildInv' /\ Grows
<1>1. /\ Moves(p, "waitx", "entryx") /\ WorksOn(p) /\ SameElements
      /\ UNCHANGED <<status, parts, rest, work, elem, listed, entry, used, flushed,
                     flushLock, entryLock, disk, indtuples, ndone>>
  BY MoveFact, WorkFact, SameFact DEF BuildInv, EntryWaitExclusive, graph
<1>2. BuildTypeOK'
  BY <1>1 DEF EntryWaitExclusive, Move, BuildInv, BuildTypeOK, Pc, MemoryPc
<1>3. work[p].todo \in Seq(listed)
  BY <1>1 DEF BuildInv, OwnerInv, Moves, PendingPc
<1>4. QED
  BY <1>1, <1>2, <1>3, Phases, PlainMove

LEMMA CopyNeighborsInv ==
  ASSUME BuildInv, status = "building", NEW p \in Procs, CopyNeighbors(p)
  PROVE  BuildInv' /\ Grows
<1>1. /\ Moves(p, "copy", "connect") /\ SameElements
      /\ UNCHANGED <<status, parts, rest, elem, listed, entry, used, flushed,
                     flushLock, entryLock, entryWait, disk, indtuples, ndone>>
  BY MoveFact, SameFact DEF BuildInv, CopyNeighbors, graph, locks
<1>2. Row(p) \in Rows
  BY <1>1 DEF BuildInv, OwnerInv, Moves, RowPc, PendingPc, ConnectPc, Indexable
<1>3. elem[Row(p)].links[work[p].lc] \in Seq(Rows)
  BY <1>2 DEF BuildInv, BuildTypeOK, Work, Element
<1>4. WorksOn(p) /\ work'[p].ep = work[p].ep /\ work' \in [Procs -> Work]
  BY <1>3, TodoFact DEF CopyNeighbors, BuildInv
<1>5. BuildTypeOK'
  BY <1>1, <1>4 DEF CopyNeighbors, Move, BuildInv, BuildTypeOK, Pc, MemoryPc
<1>6. QED
  BY <1>1, <1>4, <1>5, Phases, PlainMove DEF PendingPc

LEMMA LayerConnectedInv ==
  ASSUME BuildInv, status = "building", NEW p \in Procs, LayerConnected(p)
  PROVE  BuildInv' /\ Grows
<1>1. /\ Moves(p, "connect", "copy") \/ Moves(p, "connect", "setentry")
      /\ SameElements
      /\ UNCHANGED <<status, parts, rest, elem, listed, entry, used, flushed,
                     flushLock, entryLock, entryWait, disk, indtuples, ndone>>
  BY MoveFact, SameFact DEF BuildInv, LayerConnected, graph, locks
<1>2. WorksOn(p) /\ work'[p].ep = work[p].ep /\ work' \in [Procs -> Work]
  <2>1. work[p].lc \in Levels
    BY DEF BuildInv, BuildTypeOK, Work
  <2>2. CASE work[p].lc > 0
    <3>1. work[p].lc - 1 \in Levels
      BY <2>1, <2>2, BuildBounds DEF Levels
    <3>2. work' = [work EXCEPT ![p].lc = work[p].lc - 1]
      BY <2>2 DEF LayerConnected
    <3>3. QED
      BY <3>1, <3>2, LayerFact DEF BuildInv
  <2>3. CASE ~(work[p].lc > 0)
    BY <2>3, WorkFact DEF LayerConnected, BuildInv, BuildTypeOK
  <2>4. QED
    BY <2>2, <2>3
<1>3. BuildTypeOK'
  BY <1>1, <1>2 DEF LayerConnected, Move, BuildInv, BuildTypeOK, Pc, MemoryPc
<1>4. CASE Moves(p, "connect", "copy")
  BY <1>1, <1>2, <1>3, <1>4, Phases, PlainMove DEF PendingPc
<1>5. CASE Moves(p, "connect", "setentry")
  BY <1>1, <1>2, <1>3, <1>5, Phases, PlainMove DEF PendingPc
<1>6. QED
  BY <1>1, <1>4, <1>5

\* An array of at most n different elements is a sequence.
LEMMA SelectionSeq ==
  ASSUME NEW C, NEW n, NEW s \in Selections(C, n)
  PROVE  s \in Seq(C)
<1>1. PICK k \in 1..n : s \in [1..k -> C]
  BY DEF Selections
<1>2. QED
  BY <1>1, SeqDef

LEMMA FindNeighborsInv ==
  ASSUME BuildInv, status = "building", NEW p \in Procs, FindNeighbors(p)
  PROVE  BuildInv' /\ Grows
<1>1. UNCHANGED <<status, parts, rest, listed, entry, used, flushed, flushLock, entryLock,
                  entryWait, disk, indtuples, ndone>>
  BY DEF FindNeighbors, locks
<1> DEFINE lc == work[p].lc
<1>2. PICK s \in Selections(Visible(p, lc), LayerM(lc)) :
        /\ elem' = [elem EXCEPT ![Row(p)].links[lc] = s]
        /\ \/ lc > 0 /\ work' = [work EXCEPT ![p].lc = lc - 1] /\ UNCHANGED pc
           \/ lc = 0 /\ work' = [work EXCEPT ![p].todo = s] /\ Move(p, "dup")
  BY Zenon DEF FindNeighbors
<1>3. Row(p) \in Rows /\ lc \in Levels /\ pc[p] = "search" /\ listed \subseteq Rows
  BY DEF FindNeighbors, BuildInv, BuildTypeOK, OwnerInv, RowPc, PendingPc, Indexable, Work
<1>4. s \in Seq(listed) /\ s \in Seq(Rows)
  <2>1. Visible(p, lc) \subseteq listed
    BY DEF Visible
  <2>2. s \in Seq(Visible(p, lc))
    BY SelectionSeq
  <2>3. QED
    BY <1>3, <2>1, <2>2, SeqMonotonic
<1>5. SameElements /\ elem' \in [Rows -> Element]
  BY <1>2, <1>3, <1>4, LinkFact DEF BuildInv
<1>7. /\ WorksOn(p) /\ work'[p].ep = work[p].ep /\ work' \in [Procs -> Work]
      /\ pc'[p] \in PendingPc => work'[p].todo \in Seq(listed)
  <2>1. CASE lc > 0
    <3>1. lc - 1 \in Levels
      BY <1>3, <2>1, BuildBounds DEF Levels
    <3>2. work[p].todo \in Seq(listed)
      BY <1>3 DEF BuildInv, OwnerInv, PendingPc
    <3>3. QED
      BY <1>2, <2>1, <3>1, <3>2, LayerFact DEF BuildInv
  <2>2. CASE lc = 0
    BY <1>2, <1>4, <2>2, TodoFact DEF BuildInv
  <2>3. QED
    BY <1>3, <2>1, <2>2, BuildBounds DEF Levels
<1>8. Moves(p, "search", "search") \/ Moves(p, "search", "dup")
  BY <1>2, <1>3, MoveFact DEF BuildInv, Moves
<1>9. BuildTypeOK'
  <2>1. pc' \in [Procs -> Pc]
    BY <1>2 DEF Move, BuildInv, BuildTypeOK, Pc, MemoryPc
  <2>2. QED
    BY <1>1, <1>5, <1>7, <2>1 DEF BuildInv, BuildTypeOK
<1>10. CASE Moves(p, "search", "search")
  BY <1>1, <1>5, <1>7, <1>9, <1>10, Phases, PlainMove DEF PendingPc, Moves
<1>11. CASE Moves(p, "search", "dup")
  BY <1>1, <1>5, <1>7, <1>9, <1>11, Phases, PlainMove DEF PendingPc, Moves
<1>12. QED
  BY <1>8, <1>10, <1>11

LEMMA ConnectNeighborInv ==
  ASSUME BuildInv, status = "building", NEW p \in Procs, ConnectNeighbor(p)
  PROVE  BuildInv' /\ Grows
<1>1. /\ UNCHANGED <<status, parts, rest, pc, listed, entry, used, flushed, flushLock, entryLock,
                     entryWait, disk, indtuples, ndone>>
      /\ pc[p] = "connect" /\ work[p].todo # <<>>
      /\ work' = [work EXCEPT ![p].todo = Tail(@)]
  BY DEF ConnectNeighbor, locks
<1> DEFINE lc == work[p].lc
           n  == Head(work[p].todo)
<1>2. PICK list \in UpdateConnection(elem[n].links[lc], LayerM(lc), Row(p)) :
        elem' = [elem EXCEPT ![n].links[lc] = list]
  BY Zenon DEF ConnectNeighbor
<1>3. Row(p) \in Rows /\ lc \in Levels /\ work[p].todo \in Seq(Rows)
  BY <1>1 DEF BuildInv, BuildTypeOK, OwnerInv, RowPc, ConnectPc, Indexable, Work
<1>4. n \in Rows /\ Tail(work[p].todo) \in Seq(Rows)
  BY <1>1, <1>3, HeadTailProperties
<1>5. list \in Seq(Rows)
  <2>1. elem[n].links[lc] \in Seq(Rows)
    BY <1>3, <1>4 DEF BuildInv, BuildTypeOK, Element
  <2>2. Append(elem[n].links[lc], Row(p)) \in Seq(Rows)
    BY <1>3, <2>1, AppendProperties
  <2>3. \A i \in 1..Len(elem[n].links[lc]) :
          [elem[n].links[lc] EXCEPT ![i] = Row(p)] \in Seq(Rows)
    BY <1>3, <2>1, ExceptSeq
  <2>4. QED
    BY <2>1, <2>2, <2>3 DEF UpdateConnection
<1>6. SameElements /\ elem' \in [Rows -> Element]
  BY <1>2, <1>3, <1>4, <1>5, LinkFact DEF BuildInv
<1>7. WorksOn(p) /\ work'[p].ep = work[p].ep /\ work' \in [Procs -> Work]
  BY <1>1, <1>4, TodoFact DEF BuildInv
<1>8. Moves(p, "connect", "connect")
  BY <1>1 DEF Moves
<1>9. BuildTypeOK'
  BY <1>1, <1>6, <1>7 DEF BuildInv, BuildTypeOK
<1>10. QED
  BY <1>1, <1>6, <1>7, <1>8, <1>9, Phases, PlainMove DEF PendingPc
-----------------------------------------------------------------------------
(***************************************************************************)
(* flushLock.                                                              *)
(***************************************************************************)
LEMMA LockMove ==
  ASSUME BuildInv, status = "building",
         UNCHANGED <<status, parts, rest, work, elem, listed, entry, flushed, entryLock, disk, ndone>>,
         NEW p \in Procs, NEW x, NEW y, Moves(p, x, y),
         x \in PendingPc \ EntryPc, y \in PendingPc \ ElemPc
  PROVE  ScanInv' /\ OwnerInv' /\ ElementInv' /\ RowInv' /\ EntryInv' /\ Grows
<1>1. x \in Active /\ y \in Active /\ x \in RowPc /\ y \in RowPc
  BY DEF Active, Pc, MemoryPc, RowPc, PendingPc
<1>2. x \notin ConnectPc /\ y \notin ConnectPc /\ y \notin EntryPc
  BY DEF PendingPc, ConnectPc, EntryPc, ElemPc, MemoryPc
<1>3. WorksOn(p) /\ SameElements
  BY WorkFact, SameFact DEF BuildInv
<1>4. work[p].ep \in listed \union {Nobody} /\ work[p].todo \in Seq(listed)
  BY <1>1 DEF BuildInv, OwnerInv, Moves
<1>5. ScanInv'
  BY <1>1, ScanFrame
<1>6. OwnerInv'
  BY <1>1, <1>3, <1>4, OwnerFrame
<1>7. ElementInv'
  BY <1>1, <1>2, <1>3, ElementFrame
<1>8. RowInv' /\ Indexed' = Indexed
  BY <1>1, <1>3, RowFrame
<1>9. EntryInv'
  BY <1>1, <1>2, <1>3, EntryFrame
<1>10. QED
  BY <1>5, <1>6, <1>7, <1>8, <1>9 DEF Grows

LEMMA FlushLockSharedInv ==
  ASSUME BuildInv, status = "building", NEW p \in Procs, FlushLockShared(p)
  PROVE  BuildInv' /\ Grows
<1>1. UNCHANGED <<status, parts, rest, work, elem, listed, entry, used, flushed, entryLock,
                  entryWait, disk, indtuples, ndone>>
  BY DEF FlushLockShared, graph
<1>2. BuildTypeOK'
  BY <1>1 DEF FlushLockShared, Move, BuildInv, BuildTypeOK, Pc, MemoryPc, Modes
<1>3. CASE flushed
  <2>1. Moves(p, "flushlock", "ondisk") /\ UNCHANGED flushLock
    BY <1>3, MoveFact DEF FlushLockShared, BuildInv
  <2>2. LockInv'
    BY <1>1, <1>3, <2>1, LockFrame DEF MemoryPc, EntryPc
  <2>3. ScanInv' /\ OwnerInv' /\ ElementInv' /\ RowInv' /\ EntryInv' /\ Grows
    BY <1>1, <2>1, LockMove DEF PendingPc, EntryPc, ElemPc, MemoryPc
  <2>4. QED
    BY <1>2, <2>2, <2>3 DEF BuildInv
<1>4. CASE ~flushed
  <2>1. /\ Moves(p, "flushlock", "alloc") /\ flushLock' = [flushLock EXCEPT ![p] = "share"]
        /\ \A q \in Procs : q # p => flushLock[q] # "exclusive"
    BY <1>4, MoveFact DEF FlushLockShared, BuildInv, CanShare
  <2>2. flushLock'[p] = "share" /\ \A q \in Procs : q # p => flushLock'[q] = flushLock[q]
    BY <2>1 DEF BuildInv, BuildTypeOK
  <2>3. LockInv'
    BY <1>1, <1>4, <2>1, <2>2 DEF BuildInv, LockInv, Moves, MemoryPc, EntryPc
  <2>4. ScanInv' /\ OwnerInv' /\ ElementInv' /\ RowInv' /\ EntryInv' /\ Grows
    BY <1>1, <2>1, LockMove DEF PendingPc, EntryPc, ElemPc, MemoryPc
  <2>5. QED
    BY <1>2, <2>3, <2>4 DEF BuildInv
<1>5. QED
  BY <1>3, <1>4

LEMMA FlushLockExclusiveInv ==
  ASSUME BuildInv, status = "building", NEW p \in Procs, FlushLockExclusive(p)
  PROVE  BuildInv' /\ Grows
<1>1. UNCHANGED <<status, parts, rest, work, elem, listed, entry, used, flushed, entryLock,
                  entryWait, disk, indtuples, ndone>>
  BY DEF FlushLockExclusive, graph
<1>2. BuildTypeOK'
  BY <1>1 DEF FlushLockExclusive, Move, BuildInv, BuildTypeOK, Pc, MemoryPc, Modes
<1>3. CASE flushed
  <2>1. Moves(p, "flushlockx", "ondisk") /\ UNCHANGED flushLock
    BY <1>3, MoveFact DEF FlushLockExclusive, BuildInv
  <2>2. LockInv'
    BY <1>1, <1>3, <2>1, LockFrame DEF MemoryPc, EntryPc
  <2>3. ScanInv' /\ OwnerInv' /\ ElementInv' /\ RowInv' /\ EntryInv' /\ Grows
    BY <1>1, <2>1, LockMove DEF PendingPc, EntryPc, ElemPc, MemoryPc
  <2>4. QED
    BY <1>2, <2>2, <2>3 DEF BuildInv
<1>4. CASE ~flushed
  <2>1. /\ Moves(p, "flushlockx", "flush")
        /\ flushLock' = [flushLock EXCEPT ![p] = "exclusive"]
        /\ \A q \in Procs : q # p => flushLock[q] = "none"
    BY <1>4, MoveFact DEF FlushLockExclusive, BuildInv, CanExclusive
  <2>2. flushLock'[p] = "exclusive" /\ \A q \in Procs : q # p => flushLock'[q] = "none"
    BY <2>1 DEF BuildInv, BuildTypeOK
  <2>3. LockInv'
    BY <1>1, <1>4, <2>1, <2>2 DEF BuildInv, LockInv, Moves, MemoryPc, EntryPc
  <2>4. ScanInv' /\ OwnerInv' /\ ElementInv' /\ RowInv' /\ EntryInv' /\ Grows
    BY <1>1, <2>1, LockMove DEF PendingPc, EntryPc, ElemPc, MemoryPc
  <2>5. QED
    BY <1>2, <2>3, <2>4 DEF BuildInv
<1>5. QED
  BY <1>3, <1>4

\* While the graph is in memory, the row of an insert in progress has no element in
\* the list.
LEMMA PendingUnlisted ==
  ASSUME BuildInv, ~flushed, NEW p \in Procs, pc[p] \in PendingPc
  PROVE  Row(p) \notin listed /\ \A e \in listed : Row(p) \notin elem[e].heaptids
  BY DEF BuildInv, RowInv, ElementInv, Indexed, InMemory

LEMMA InMemoryUnflushed ==
  ASSUME BuildInv, NEW p \in Procs, pc[p] \in MemoryPc \union {"flush"}
  PROVE  ~flushed
  BY DEF BuildInv, LockInv

LEMMA AllocateInv ==
  ASSUME BuildInv, status = "building", NEW p \in Procs, Allocate(p)
  PROVE  BuildInv' /\ Grows
<1>1. /\ UNCHANGED <<status, parts, rest, work, listed, entry, flushed, entryLock,
                     entryWait, disk, indtuples, ndone>>
      /\ pc[p] = "alloc"
  BY DEF Allocate
<1>2. CASE /\ flushLock' = [flushLock EXCEPT ![p] = "none"]
           /\ Move(p, "flushlockx")
           /\ UNCHANGED <<elem, used>>
  <2>1. Moves(p, "alloc", "flushlockx")
    BY <1>1, <1>2, MoveFact DEF BuildInv
  <2>2. flushLock'[p] = "none" /\ \A q \in Procs : q # p => flushLock'[q] = flushLock[q]
    BY <1>2 DEF BuildInv, BuildTypeOK
  <2>3. LockInv'
    BY <1>1, <2>1, <2>2 DEF BuildInv, LockInv, Moves, MemoryPc, EntryPc
  <2>4. BuildTypeOK'
    BY <1>1, <1>2 DEF Move, BuildInv, BuildTypeOK, Pc, MemoryPc, Modes
  <2>5. ScanInv' /\ OwnerInv' /\ ElementInv' /\ RowInv' /\ EntryInv' /\ Grows
    BY <1>1, <1>2, <2>1, LockMove DEF PendingPc, EntryPc, ElemPc, MemoryPc
  <2>6. QED
    BY <2>3, <2>4, <2>5 DEF BuildInv
<1>3. ASSUME NEW l \in Levels,
             elem' = [elem EXCEPT ![Row(p)] = [NoElem EXCEPT !.level = l, !.heaptids = {Row(p)}]],
             used' = used + ElementSize(l), Move(p, "wait"), UNCHANGED flushLock
      PROVE  BuildInv' /\ Grows
  <2>1. Moves(p, "alloc", "wait") /\ WorksOn(p)
    BY <1>1, <1>3, MoveFact, WorkFact DEF BuildInv
  <2>2. Row(p) \in Rows /\ ~flushed /\ listed \subseteq Rows
    BY <1>1, InMemoryUnflushed
    DEF BuildInv, BuildTypeOK, OwnerInv, RowPc, PendingPc, Indexable, MemoryPc
  <2>3. Row(p) \notin listed
    BY <1>1, <2>2, PendingUnlisted DEF PendingPc
  <2>4. /\ elem'[Row(p)].level = l /\ elem'[Row(p)].heaptids = {Row(p)}
        /\ \A e \in Rows : e # Row(p) => elem'[e] = elem[e]
    BY <1>3, <2>2 DEF BuildInv, BuildTypeOK, NoElem
  <2>5. BuildTypeOK'
    <3>1. <<>> \in Seq(Rows)
      BY EmptySeq
    <3>2. [NoElem EXCEPT !.level = l, !.heaptids = {Row(p)}] \in Element
      BY <2>2, <3>1 DEF NoElem, Element
    <3>3. elem' \in [Rows -> Element]
      BY <1>3, <2>2, <3>2 DEF BuildInv, BuildTypeOK
    <3>4. used' \in Nat
      BY <1>3, BuildBounds DEF BuildInv, BuildTypeOK, ElementSize, Levels
    <3>5. QED
      BY <1>1, <1>3, <3>3, <3>4 DEF Move, BuildInv, BuildTypeOK, Pc, MemoryPc
  <2>6. ScanInv'
    BY <1>1, <2>1, ScanFrame DEF Active, Pc, MemoryPc
  <2>7. LockInv'
    BY <1>1, <1>3, <2>1, LockFrame DEF MemoryPc, EntryPc
  <2>8. OwnerInv'
    <3>1. work[p].ep \in listed \union {Nobody} /\ work[p].todo \in Seq(listed)
      BY <1>1 DEF BuildInv, OwnerInv, RowPc, PendingPc
    <3>2. QED
      BY <1>1, <2>1, <3>1, OwnerFrame DEF RowPc, PendingPc
  <2>9. \A q \in Procs : /\ Row(q)' = Row(q)
                         /\ q # p /\ pc[q] \in RowPc => Row(q) \in Rows /\ elem'[Row(q)] = elem[Row(q)]
    BY <1>1, <2>1, <2>4 DEF WorksOn, Row, BuildInv, OwnerInv, RowPc, PendingPc, Indexable
  <2>10. ElemPc \subseteq RowPc /\ EntryPc \subseteq RowPc
    BY DEF ElemPc, MemoryPc, RowPc, PendingPc, ConnectPc, EntryPc
  <2>11. ElementInv'
    <3>1. \A q \in Procs : /\ pc'[q] \in ElemPc => elem'[Row(q)'].level \in Levels
                           /\ pc'[q] \in ElemPc \intersect PendingPc =>
                                elem'[Row(q)'].heaptids = {Row(q)'}
                           /\ pc'[q] \in ConnectPc => Row(q)' \in listed
      <4>1. ASSUME NEW q \in Procs, q # p
            PROVE  /\ pc'[q] \in ElemPc => elem'[Row(q)'].level \in Levels
                   /\ pc'[q] \in ElemPc \intersect PendingPc =>
                        elem'[Row(q)'].heaptids = {Row(q)'}
                   /\ pc'[q] \in ConnectPc => Row(q)' \in listed
        BY <2>1, <2>9, <2>10, <4>1 DEF BuildInv, ElementInv, Moves
      <4>2. pc'[p] = "wait"
        BY <2>1 DEF Moves
      <4>3. QED
        BY <2>4, <2>9, <4>1, <4>2 DEF ConnectPc
    <3>2. \A e \in listed : elem'[e] = elem[e]
      BY <2>2, <2>3, <2>4
    <3>3. QED
      BY <1>1, <3>1, <3>2 DEF BuildInv, ElementInv
  <2>12. Indexed' = Indexed
    BY <1>1, <2>2, <2>3, <2>4 DEF Indexed, InMemory
  <2>13. RowInv'
    <3>1. NoFailure' <=> NoFailure
      BY <2>1 DEF Moves, NoFailure
    <3>2. \A q \in Procs : pc'[q] \in PendingPc <=> pc[q] \in PendingPc
      BY <2>1 DEF Moves, PendingPc
    <3>3. QED
      BY <1>1, <2>9, <2>12, <3>1, <3>2 DEF BuildInv, RowInv
  <2>14. EntryInv'
    <3>1. LevelOf(entry)' = LevelOf(entry)
      BY <1>1, <2>2, <2>3, <2>4 DEF LevelOf, BuildInv, ElementInv
    <3>2. NoFailure' <=> NoFailure
      BY <2>1 DEF Moves, NoFailure
    <3>3. \A q \in Procs : pc'[q] \in EntryPc =>
            q # p /\ pc[q] \in EntryPc /\ elem'[Row(q)'] = elem[Row(q)]
      BY <2>1, <2>9, <2>10 DEF Moves, EntryPc
    <3>4. \A q \in Procs : pc'[q] \in ConnectPc <=> pc[q] \in ConnectPc
      BY <2>1 DEF Moves, ConnectPc
    <3>5. \A e \in listed : elem'[e] = elem[e]
      BY <2>2, <2>3, <2>4
    <3>6. \A q \in Procs : pc'[q] \in EntryPc =>
            /\ work'[q].ep = entry'
            /\ entryLock'[q] = "share" => elem'[Row(q)'].level <= LevelOf(entry)'
      BY <1>1, <3>1, <3>3 DEF BuildInv, EntryInv
    <3>7. QED
      BY <1>1, <2>9, <3>1, <3>2, <3>4, <3>5, <3>6 DEF BuildInv, EntryInv
  <2>15. QED
    BY <2>5, <2>6, <2>7, <2>8, <2>11, <2>12, <2>13, <2>14 DEF BuildInv, Grows
<1>4. QED
  BY <1>2, <1>3, Zenon DEF Allocate
-----------------------------------------------------------------------------
(***************************************************************************)
(* The flush, and rows inserted on disk.                                   *)
(***************************************************************************)

\* No two elements of the list have a row in common, so each row is written once.
LEMMA FlushFact ==
  ASSUME BuildInv, ~flushed, WritePages
  PROVE  /\ disk' \in [Rows -> Nat]
         /\ \A r \in Rows : disk'[r] \in {0, 1} /\ (disk'[r] > 0 <=> r \in InMemory)
<1>1. ASSUME NEW r \in Rows
      PROVE  disk'[r] \in {0, 1} /\ (disk'[r] > 0 <=> r \in InMemory)
  <2> DEFINE E == {e \in listed : r \in elem[e].heaptids}
  <2>1. disk'[r] = Cardinality(E)
    <3>1. disk'[r] = disk[r] + Cardinality(E) /\ disk[r] = 0
      BY DEF WritePages, BuildInv, RowInv
    <3>2. Cardinality(E) \in {0, 1}
      <4>1. CASE E = {}
        BY <4>1, FS_EmptySet
      <4>2. CASE E # {}
        <5>1. PICK x : x \in E
          BY <4>2
        <5>2. E = {x}
          BY <5>1 DEF BuildInv, ElementInv
        <5>3. QED
          BY <5>2, FS_Singleton
      <4>3. QED
        BY <4>1, <4>2
    <3>3. QED
      BY <3>1, <3>2
  <2>2. CASE E = {}
    <3>1. Cardinality(E) = 0
      BY <2>2, FS_EmptySet
    <3>2. r \notin InMemory
      BY <2>2 DEF InMemory
    <3>3. QED
      BY <2>1, <3>1, <3>2
  <2>3. CASE E # {}
    <3>1. PICK x : x \in E
      BY <2>3
    <3>2. E = {x}
      BY <3>1 DEF BuildInv, ElementInv
    <3>3. Cardinality(E) = 1
      BY <3>2, FS_Singleton
    <3>4. r \in InMemory
      BY <3>1 DEF InMemory
    <3>5. QED
      BY <2>1, <3>3, <3>4
  <2>4. QED
    BY <2>2, <2>3
<1>2. disk' = [r \in Rows |-> disk[r] + Cardinality({e \in listed : r \in elem[e].heaptids})]
  BY DEF WritePages
<1>3. disk' \in [Rows -> Nat]
  BY <1>1, <1>2
<1>4. QED
  BY <1>1, <1>3

LEMMA InMemoryRows ==
  ASSUME BuildInv
  PROVE  InMemory \subseteq Rows
  BY DEF BuildInv, BuildTypeOK, InMemory, Element

LEMMA FlushIndexed ==
  ASSUME BuildInv, ~flushed, FlushPages, UNCHANGED <<listed, elem>>
  PROVE  Indexed' = Indexed
  BY FlushFact, InMemoryRows DEF FlushPages, Indexed

LEMMA FlushInv ==
  ASSUME BuildInv, status = "building", NEW p \in Procs, Flush(p)
  PROVE  BuildInv' /\ Grows
<1>1. /\ UNCHANGED <<status, parts, rest, work, elem, listed, entry, used, entryLock,
                     entryWait, indtuples, ndone>>
      /\ Moves(p, "flush", "ondisk") /\ flushed' = TRUE /\ WritePages /\ FlushPages
      /\ WorksOn(p) /\ SameElements
  BY MoveFact, WorkFact, SameFact DEF Flush, FlushPages, graph, BuildInv
<1>2. ~flushed
  BY <1>1, InMemoryUnflushed DEF Moves
<1>3. /\ disk' \in [Rows -> Nat]
      /\ \A r \in Rows : disk'[r] \in {0, 1}
  BY <1>1, <1>2, FlushFact
<1>4. BuildTypeOK'
  BY <1>1, <1>3 DEF Flush, Move, BuildInv, BuildTypeOK, Pc, MemoryPc, Modes
<1>5. Indexed' = Indexed
  BY <1>1, <1>2, FlushIndexed
<1>6. ScanInv'
  BY <1>1, ScanFrame DEF Active, Pc, MemoryPc
<1>7. LockInv'
  <2>1. flushLock[p] = "exclusive"
    BY <1>1 DEF BuildInv, LockInv, Moves
  <2>2. \A q \in Procs : flushLock'[q] = "none" /\ (q # p => flushLock[q] = "none")
    BY <2>1 DEF Flush, BuildInv, BuildTypeOK, LockInv
  <2>3. QED
    BY <1>1, <2>2 DEF BuildInv, LockInv, Moves, MemoryPc, EntryPc
<1>8. work[p].ep \in listed \union {Nobody} /\ work[p].todo \in Seq(listed)
  BY <1>1 DEF BuildInv, OwnerInv, Moves, RowPc, PendingPc
<1>9. OwnerInv'
  BY <1>1, <1>8, OwnerFrame DEF RowPc, PendingPc
<1>10. ElementInv'
  BY <1>1, ElementFrame DEF RowPc, PendingPc, ElemPc, MemoryPc, ConnectPc
<1>11. RowInv'
  <2>1. NoFailure' <=> NoFailure
    BY <1>1 DEF Moves, NoFailure
  <2>2. \A q \in Procs : Row(q)' = Row(q) /\ (pc'[q] \in PendingPc <=> pc[q] \in PendingPc)
    BY <1>1 DEF Moves, PendingPc, Row
  <2>3. QED
    BY <1>1, <1>3, <1>5, <2>1, <2>2 DEF BuildInv, RowInv
<1>12. EntryInv'
  BY <1>1, EntryFrame DEF Active, Pc, MemoryPc, EntryPc, ConnectPc
<1>13. QED
  BY <1>4, <1>5, <1>6, <1>7, <1>9, <1>10, <1>11, <1>12 DEF BuildInv, Grows

\* A step by which p's pending row becomes indexed keeps RowInv.
LEMMA RowIndexed ==
  ASSUME BuildInv, UNCHANGED <<rest, flushed>>, NEW p \in Procs, NEW x \in PendingPc,
         NEW y \in Active \ PendingPc, Moves(p, x, y), WorksOn(p),
         Indexed' = Indexed \union {Row(p)},
         \A r \in Rows : disk'[r] \in {0, 1} /\ (~flushed => disk'[r] = 0)
  PROVE  RowInv' /\ Grows
<1>1. Row(p) \in Indexable \ rest /\ Row(p) \notin Indexed
  BY DEF BuildInv, OwnerInv, RowInv, Moves, RowPc
<1>2. \A q \in Procs : /\ Row(q)' = Row(q)
                       /\ pc'[q] \in PendingPc <=> q # p /\ pc[q] \in PendingPc
  BY DEF WorksOn, Row, Moves
<1>3. \A q \in Procs : q # p /\ pc[q] \in PendingPc => Row(q) # Row(p)
  BY DEF BuildInv, OwnerInv, Moves, RowPc
<1>4. NoFailure' <=> NoFailure
  BY DEF NoFailure, Moves, Active, PendingPc
<1>5. Indexed' \subseteq Indexable \ rest'
  BY <1>1 DEF BuildInv, RowInv
<1>6. \A q \in Procs : pc'[q] \in PendingPc => Row(q)' \notin Indexed'
  BY <1>2, <1>3 DEF BuildInv, RowInv
<1>7. NoFailure' => \A r \in Indexable : \/ r \in rest' \union Indexed'
                                         \/ \E q \in Procs : pc'[q] \in PendingPc /\ Row(q)' = r
  BY <1>2, <1>4 DEF BuildInv, RowInv
<1>8. QED
  BY <1>1, <1>5, <1>6, <1>7 DEF RowInv, Grows

LEMMA InsertOnDiskInv ==
  ASSUME BuildInv, status = "building", NEW p \in Procs, InsertOnDisk(p)
  PROVE  BuildInv' /\ Grows
<1>1. /\ UNCHANGED <<status, parts, rest, work, elem, listed, entry, used, flushed, flushLock,
                     entryLock, entryWait, indtuples, ndone>>
      /\ Moves(p, "ondisk", "count") /\ WorksOn(p) /\ SameElements
      /\ disk' = [disk EXCEPT ![Row(p)] = @ + 1]
  BY MoveFact, WorkFact, SameFact DEF InsertOnDisk, graph, locks, BuildInv
<1>2. Row(p) \in Rows /\ flushed /\ Row(p) \notin Indexed
  BY <1>1 DEF BuildInv, OwnerInv, LockInv, RowInv, Moves, RowPc, PendingPc, Indexable
<1>3. disk[Row(p)] = 0
  BY <1>2 DEF Indexed, BuildInv, BuildTypeOK, RowInv
<1>4. disk'[Row(p)] = 1 /\ \A r \in Rows : r # Row(p) => disk'[r] = disk[r]
  BY <1>1, <1>2, <1>3 DEF BuildInv, BuildTypeOK
<1>5. disk' \in [Rows -> Nat]
  BY <1>1, <1>2, <1>3 DEF BuildInv, BuildTypeOK
<1>6. BuildTypeOK'
  BY <1>1, <1>5 DEF InsertOnDisk, Move, BuildInv, BuildTypeOK, Pc, MemoryPc
<1>7. ScanInv'
  BY <1>1, ScanFrame DEF Active, Pc, MemoryPc
<1>8. LockInv'
  BY <1>1, LockFrame DEF MemoryPc, EntryPc
<1>9. OwnerInv'
  <2>1. work[p].ep \in listed \union {Nobody}
    BY <1>1 DEF BuildInv, OwnerInv, Moves, RowPc, PendingPc
  <2>2. QED
    BY <1>1, <2>1, OwnerFrame DEF RowPc, PendingPc
<1>10. ElementInv'
  BY <1>1, ElementFrame DEF RowPc, PendingPc, ElemPc, MemoryPc, ConnectPc
<1>11. Indexed' = Indexed \union {Row(p)}
  BY <1>1, <1>2, <1>4 DEF Indexed
<1>12. RowInv' /\ Grows
  <2>1. \A r \in Rows : disk'[r] \in {0, 1} /\ (~flushed => disk'[r] = 0)
    BY <1>2, <1>4 DEF BuildInv, RowInv
  <2>2. QED
    BY <1>1, <1>11, <2>1, RowIndexed DEF PendingPc, Active, Pc
<1>13. EntryInv'
  BY <1>1, EntryFrame DEF Active, Pc, MemoryPc, EntryPc, ConnectPc
<1>14. QED
  BY <1>6, <1>7, <1>8, <1>9, <1>10, <1>12, <1>13 DEF BuildInv

\* A step of p at the beginning or the end of a row, where its row may change.
LEMMA Unindexed ==
  ASSUME BuildInv, UNCHANGED <<elem, listed, flushed, disk>>
  PROVE  Indexed' = Indexed
  BY DEF Indexed, InMemory

LEMMA CountInv ==
  ASSUME BuildInv, status = "building", NEW p \in Procs, Count(p)
  PROVE  BuildInv' /\ Grows
<1>1. /\ UNCHANGED <<status, parts, rest, elem, listed, entry, used, flushed, flushLock,
                     entryLock, entryWait, disk, ndone>>
      /\ Moves(p, "count", "scan")
      /\ work'[p] = NoWork /\ \A q \in Procs : q # p => work'[q] = work[q]
  BY MoveFact DEF Count, graph, locks, BuildInv, BuildTypeOK
<1>2. BuildTypeOK'
  <2>1. NoWork \in Work
    BY EmptySeq, BuildBounds DEF NoWork, Work, Levels
  <2>2. work' \in [Procs -> Work] /\ indtuples' \in Nat
    BY <2>1 DEF Count, BuildInv, BuildTypeOK
  <2>3. QED
    BY <1>1, <2>2 DEF Count, Move, BuildInv, BuildTypeOK, Pc, MemoryPc
<1>3. ScanInv'
  BY <1>1, ScanFrame DEF Active, Pc, MemoryPc
<1>4. LockInv'
  BY <1>1, LockFrame DEF MemoryPc, EntryPc
<1>5. \A q \in Procs : q # p => pc'[q] = pc[q] /\ work'[q] = work[q] /\ Row(q)' = Row(q)
  BY <1>1 DEF Moves, Row
<1>6. /\ pc'[p] = "scan" /\ "scan" \notin RowPc /\ "scan" \notin ElemPc /\ "scan" \notin EntryPc
      /\ PendingPc \subseteq RowPc /\ ConnectPc \subseteq RowPc /\ "count" \notin PendingPc
      /\ "count" \notin ConnectPc
  BY <1>1 DEF Moves, RowPc, ElemPc, MemoryPc, EntryPc, PendingPc, ConnectPc
<1>7. OwnerInv'
  BY <1>1, <1>5, <1>6 DEF BuildInv, OwnerInv
<1>8. ElementInv'
  BY <1>1, <1>5, <1>6 DEF BuildInv, ElementInv
<1>9. Indexed' = Indexed
  BY <1>1, Unindexed
<1>10. RowInv'
  BY <1>1, <1>5, <1>6, <1>9 DEF BuildInv, RowInv, NoFailure, Moves
<1>11. EntryInv'
  <2>1. LevelOf(entry)' = LevelOf(entry)
    BY <1>1 DEF LevelOf
  <2>2. QED
    BY <1>1, <1>5, <1>6, <2>1 DEF BuildInv, EntryInv, NoFailure, Moves
<1>12. QED
  BY <1>2, <1>3, <1>4, <1>7, <1>8, <1>9, <1>10, <1>11 DEF BuildInv, Grows
-----------------------------------------------------------------------------
(***************************************************************************)
(* The scan.                                                               *)
(***************************************************************************)

\* The row handed out is nobody else's and not indexed; if it has a vector, it is now
\* p's.
LEMMA NextRowInv ==
  ASSUME BuildInv, status = "building", NEW p \in Procs, NextRow(p)
  PROVE  BuildInv' /\ Grows
<1>1. /\ UNCHANGED <<status, parts, elem, listed, entry, used, flushed, flushLock, entryLock,
                     entryWait, disk, indtuples, ndone>>
      /\ pc[p] = "scan"
  BY DEF NextRow, graph, locks
<1>2. PICK r \in rest :
        /\ rest' = rest \ {r}
        /\ IF ValueOf[r] = NullValue
             THEN UNCHANGED <<work, pc>>
             ELSE work' = [work EXCEPT ![p].row = r] /\ Move(p, "flushlock")
  BY Zenon DEF NextRow
<1>3. r \in Rows /\ work[p] = NoWork
  BY <1>1 DEF BuildInv, BuildTypeOK, OwnerInv
<1>4. Indexed' = Indexed
  BY <1>1, Unindexed
<1>5. LevelOf(entry)' = LevelOf(entry)
  BY <1>1 DEF LevelOf
<1>6. CASE ValueOf[r] = NullValue
  <2>1. UNCHANGED <<work, pc>> /\ r \notin Indexable
    BY <1>2, <1>6 DEF Indexable
  <2>2. BuildTypeOK' /\ ScanInv' /\ LockInv'
    BY <1>1, <1>2, <2>1 DEF BuildInv, BuildTypeOK, ScanInv, LockInv, NoFailure, Finished
  <2>3. OwnerInv' /\ ElementInv'
    BY <1>1, <1>2, <2>1 DEF BuildInv, OwnerInv, ElementInv, Row
  <2>4. RowInv' /\ EntryInv'
    BY <1>1, <1>2, <1>4, <1>5, <2>1 DEF BuildInv, RowInv, EntryInv, NoFailure, Row
  <2>5. QED
    BY <1>4, <2>2, <2>3, <2>4 DEF BuildInv, Grows
<1>7. CASE ValueOf[r] # NullValue
  <2>1. /\ Moves(p, "scan", "flushlock") /\ r \in Indexable
        /\ work' = [work EXCEPT ![p].row = r] /\ Move(p, "flushlock")
    BY <1>1, <1>2, <1>3, <1>7, MoveFact DEF Indexable, BuildInv
  <2>2. /\ work'[p].row = r /\ work'[p].ep = Nobody /\ work'[p].todo = <<>>
        /\ \A q \in Procs : q # p => work'[q] = work[q] /\ pc'[q] = pc[q]
    BY <1>3, <2>1 DEF BuildInv, BuildTypeOK, NoWork, Moves
  <2>3. BuildTypeOK'
    <3>1. work' \in [Procs -> Work]
      <4>1. work \in [Procs -> Work] /\ work[p] \in Work /\ r \in Rows
        BY <2>1 DEF BuildInv, BuildTypeOK, Indexable
      <4>2. [work[p] EXCEPT !.row = r] \in Work
        BY <4>1 DEF Work
      <4>3. QED
        BY <2>1, <4>1, <4>2
    <3>2. QED
      BY <1>1, <1>2, <2>1, <3>1 DEF Move, BuildInv, BuildTypeOK, Pc
  <2>4. ScanInv'
    BY <1>1, <1>2, <2>1, ScanFrame DEF Active, Pc, MemoryPc
  <2>5. LockInv'
    BY <1>1, <2>1, LockFrame DEF MemoryPc, EntryPc
  <2>6. /\ pc'[p] = "flushlock" /\ "flushlock" \in PendingPc /\ "flushlock" \notin ElemPc
        /\ "flushlock" \notin ConnectPc /\ "flushlock" \notin EntryPc /\ "scan" \notin RowPc
        /\ PendingPc \subseteq RowPc /\ ConnectPc \subseteq RowPc
    BY <2>1 DEF Moves, PendingPc, ElemPc, MemoryPc, ConnectPc, EntryPc, RowPc
  <2>7. \A q \in Procs : /\ q # p => Row(q)' = Row(q)
                         /\ q # p /\ pc[q] \in RowPc => Row(q) # r
    BY <2>2 DEF BuildInv, OwnerInv, Row
  <2>8. Row(p)' = r
    BY <2>2 DEF Row
  <2>9. OwnerInv'
    <3>1. <<>> \in Seq(listed)
      BY EmptySeq
    <3>2. \A q \in Procs : /\ pc'[q] \in {"out", "scan"} => work'[q] = NoWork
                           /\ pc'[q] \in RowPc => /\ Row(q)' \in Indexable \ rest'
                                                  /\ work'[q].ep \in listed' \union {Nobody}
                           /\ pc'[q] \in PendingPc => work'[q].todo \in Seq(listed')
      <4>1. TAKE q \in Procs
      <4>2. listed' = listed /\ rest' = rest \ {r} /\ r \in rest
        BY <1>1, <1>2
      <4>3. CASE q = p
        BY <2>1, <2>2, <2>6, <2>8, <3>1, <4>2, <4>3
      <4>4. CASE q # p
        <5>1. /\ pc[q] \in {"out", "scan"} => work[q] = NoWork
              /\ pc[q] \in RowPc => /\ Row(q) \in Indexable \ rest
                                    /\ work[q].ep \in listed \union {Nobody}
              /\ pc[q] \in PendingPc => work[q].todo \in Seq(listed)
          BY DEF BuildInv, OwnerInv
        <5>2. work'[q] = work[q] /\ pc'[q] = pc[q] /\ Row(q)' = Row(q)
          BY <2>2, <2>7, <4>4
        <5>3. QED
          BY <4>2, <5>1, <5>2
      <4>5. QED
        BY <4>3, <4>4
    <3>3. QED
      BY <2>2, <2>7, <2>8, <3>2 DEF BuildInv, OwnerInv
  <2>10. ElementInv'
    BY <1>1, <2>2, <2>6, <2>7 DEF BuildInv, ElementInv
  <2>11. RowInv'
    <3>1. NoFailure' <=> NoFailure
      BY <2>1 DEF NoFailure, Moves
    <3>2. r \notin Indexed
      BY DEF BuildInv, RowInv
    <3>3. \A q \in Procs : pc[q] \in PendingPc => pc'[q] \in PendingPc /\ Row(q)' = Row(q)
      BY <1>1, <2>2, <2>6, <2>7
    <3>4. \A s \in Indexable : s \in rest => s \in rest' \/ s = r
      BY <1>2
    <3>5. QED
      BY <1>1, <1>2, <1>4, <2>2, <2>6, <2>7, <2>8, <3>1, <3>2, <3>3, <3>4 DEF BuildInv, RowInv
  <2>12. EntryInv'
    <3>1. NoFailure' <=> NoFailure
      BY <2>1 DEF NoFailure, Moves
    <3>2. QED
      BY <1>1, <1>5, <2>2, <2>6, <2>7, <3>1 DEF BuildInv, EntryInv
  <2>13. QED
    BY <1>4, <2>3, <2>4, <2>5, <2>9, <2>10, <2>11, <2>12 DEF BuildInv, Grows
<1>8. QED
  BY <1>6, <1>7

LEMMA FiniteProcs ==
  IsFiniteSet(Procs) /\ \A S \in SUBSET Procs : IsFiniteSet(S)
<1>1. IsFiniteSet(Procs)
  BY BuildNames, FS_AddElement DEF Procs
<1>2. QED
  BY <1>1, FS_Subset

LEMMA ScanDoneInv ==
  ASSUME BuildInv, status = "building", NEW p \in Procs, ScanDone(p)
  PROVE  BuildInv' /\ Grows
<1>1. /\ UNCHANGED <<status, parts, rest, work, elem, listed, entry, used, flushed, flushLock,
                     entryLock, entryWait, disk, indtuples>>
      /\ Moves(p, "scan", "finished") /\ rest = {} /\ ndone' = ndone + 1
  BY MoveFact DEF ScanDone, graph, locks, BuildInv
<1>2. BuildTypeOK'
  BY <1>1 DEF ScanDone, Move, BuildInv, BuildTypeOK, Pc
<1>3. NoFailure' <=> NoFailure
  BY <1>1 DEF NoFailure, Moves
<1>4. ScanInv'
  <2>1. Finished' = Finished \union {p} /\ p \notin Finished /\ Finished \in SUBSET Procs
    BY <1>1 DEF Finished, Moves
  <2>2. Cardinality(Finished') = Cardinality(Finished) + 1
    BY <2>1, FiniteProcs, FS_AddElement
  <2>3. QED
    BY <1>1, <1>3, <2>2 DEF BuildInv, ScanInv, Moves
<1>5. LockInv'
  BY <1>1, LockFrame DEF MemoryPc, EntryPc
<1>6. /\ pc[p] = "scan" /\ pc'[p] = "finished" /\ "finished" \notin RowPc /\ "finished" \notin ElemPc
      /\ "finished" \notin EntryPc /\ PendingPc \subseteq RowPc /\ ConnectPc \subseteq RowPc
      /\ "scan" \notin RowPc
  BY <1>1 DEF Moves, RowPc, PendingPc, ConnectPc, ElemPc, MemoryPc, EntryPc
<1>7. \A q \in Procs : Row(q)' = Row(q) /\ (q # p => pc'[q] = pc[q])
  BY <1>1 DEF Moves, Row
<1>8. OwnerInv' /\ ElementInv'
  BY <1>1, <1>6, <1>7 DEF BuildInv, OwnerInv, ElementInv
<1>9. Indexed' = Indexed
  BY <1>1, Unindexed
<1>10. RowInv'
  BY <1>1, <1>3, <1>6, <1>7, <1>9 DEF BuildInv, RowInv
<1>11. EntryInv'
  <2>1. LevelOf(entry)' = LevelOf(entry)
    BY <1>1 DEF LevelOf
  <2>2. QED
    BY <1>1, <1>3, <1>6, <1>7, <2>1 DEF BuildInv, EntryInv
<1>12. QED
  BY <1>2, <1>4, <1>5, <1>8, <1>9, <1>10, <1>11 DEF BuildInv, Grows
-----------------------------------------------------------------------------
(***************************************************************************)
(* entryLock and the entry point.                                          *)
(***************************************************************************)

\* What StartSearch gives: the entry point is read, and the lowest layer to keep
\* neighbors of is one.
LEMMA StartFact ==
  ASSUME BuildInv, NEW p \in Procs, NEW x \in ElemPc, pc[p] = x, StartSearch(p, entry)
  PROVE  /\ work' \in [Procs -> Work] /\ pc' \in [Procs -> Pc]
         /\ WorksOn(p) /\ work'[p].ep = entry /\ work'[p].todo = work[p].todo
         /\ Moves(p, x, "search") \/ Moves(p, x, "dup")
<1> DEFINE l == IF LevelOf(entry) > elem[Row(p)].level THEN elem[Row(p)].level
                ELSE IF entry = Nobody THEN 0 ELSE LevelOf(entry)
<1>1. l \in Levels
  <2>1. elem[Row(p)].level \in Levels
    BY DEF BuildInv, ElementInv
  <2>2. entry # Nobody => LevelOf(entry) \in Levels
    BY DEF BuildInv, ElementInv, LevelOf
  <2>3. QED
    BY <2>1, <2>2, BuildBounds DEF Levels
<1>2. work' = [work EXCEPT ![p].ep = entry, ![p].lc = l]
  BY DEF StartSearch
<1>3. work \in [Procs -> Work] /\ work[p] \in Work /\ entry \in Rows \union {Nobody}
  BY DEF BuildInv, BuildTypeOK
<1>4. work'[p] = [work[p] EXCEPT !.ep = entry, !.lc = l] /\ \A q \in Procs : q # p => work'[q] = work[q]
  BY <1>2, <1>3
<1>5. [work[p] EXCEPT !.ep = entry, !.lc = l] \in Work
  BY <1>1, <1>3 DEF Work
<1>6. work' \in [Procs -> Work]
  <2>1. work' = [work EXCEPT ![p] = [work[p] EXCEPT !.ep = entry, !.lc = l]]
    BY <1>2, <1>3
  <2>2. QED
    BY <1>3, <1>5, <2>1
<1>7. WorksOn(p) /\ work'[p].ep = entry /\ work'[p].todo = work[p].todo
  BY <1>3, <1>4 DEF WorksOn, Row, Work
<1>8. /\ Moves(p, x, "search") \/ Moves(p, x, "dup")
      /\ pc' \in [Procs -> Pc]
  <2>1. Move(p, "search") \/ Move(p, "dup")
    BY DEF StartSearch
  <2>2. CASE Move(p, "search")
    BY <2>2, MoveFact DEF Move, BuildInv, BuildTypeOK, Pc, MemoryPc
  <2>3. CASE Move(p, "dup")
    BY <2>3, MoveFact DEF Move, BuildInv, BuildTypeOK, Pc, MemoryPc
  <2>4. QED
    BY <2>1, <2>2, <2>3
<1>9. QED
  BY <1>6, <1>7, <1>8

\* Taking entryLock in a mode that the others allow, and reading the entry point, as
\* high as the own element unless the lock is exclusive.
LEMMA EntryTaken ==
  ASSUME BuildInv, BuildTypeOK', status = "building",
         UNCHANGED <<status, parts, rest, elem, listed, entry, flushed, flushLock, disk, ndone>>,
         NEW p \in Procs, NEW x \in {"entry", "entryx"}, NEW y \in {"search", "dup"}, Moves(p, x, y),
         WorksOn(p), work'[p].ep = entry, work'[p].todo = work[p].todo,
         NEW mode \in {"share", "exclusive"}, entryLock' = [entryLock EXCEPT ![p] = mode],
         mode = "share" => /\ \A q \in Procs : q # p => entryLock[q] # "exclusive"
                           /\ elem[Row(p)].level <= LevelOf(entry),
         mode = "exclusive" => \A q \in Procs : q # p => entryLock[q] = "none"
  PROVE  BuildInv' /\ Grows
<1>1. /\ entryLock'[p] = mode /\ \A q \in Procs : q # p => entryLock'[q] = entryLock[q]
      /\ SameElements
  BY SameFact DEF BuildInv, BuildTypeOK
<1>2. /\ x \in Active /\ y \in Active /\ x \in RowPc /\ y \in RowPc /\ x \in PendingPc /\ y \in PendingPc
      /\ x \in ElemPc /\ y \in ElemPc /\ x \notin ConnectPc /\ y \notin ConnectPc /\ y \in EntryPc
      /\ x \notin EntryPc /\ x \in MemoryPc /\ y \in MemoryPc /\ y # "release" /\ x # "release"
      /\ y # "flush" /\ y # "ondisk"
  BY DEF Active, Pc, MemoryPc, RowPc, PendingPc, ElemPc, ConnectPc, EntryPc
<1>3. ScanInv'
  BY <1>2, ScanFrame
<1>4. LockInv'
  BY <1>1, <1>2 DEF BuildInv, LockInv, Moves
<1>5. OwnerInv'
  <2>1. work[p].todo \in Seq(listed) /\ entry \in listed \union {Nobody}
    BY <1>2 DEF BuildInv, OwnerInv, ElementInv, Moves
  <2>2. QED
    BY <1>2, <2>1, OwnerFrame
<1>6. ElementInv'
  BY <1>1, <1>2, ElementFrame
<1>7. RowInv' /\ Indexed' = Indexed
  BY <1>1, <1>2, RowFrame
<1>8. EntryInv'
  <2>1. LevelOf(entry)' = LevelOf(entry) /\ \A q \in Procs : Row(q)' = Row(q)
    BY DEF LevelOf, WorksOn, Row
  <2>2. NoFailure' <=> NoFailure
    BY <1>2 DEF NoFailure, Moves, Active
  <2>3. \A q \in Procs : q # p => /\ pc'[q] = pc[q] /\ work'[q] = work[q]
                                  /\ entryLock'[q] = entryLock[q]
    BY <1>1 DEF Moves, WorksOn
  <2>4. \A q \in Procs : pc'[q] \in EntryPc =>
          /\ work'[q].ep = entry'
          /\ entryLock'[q] = "share" => elem'[Row(q)'].level <= LevelOf(entry)'
    BY <1>1, <2>1, <2>3 DEF BuildInv, EntryInv
  <2>5. \A q \in Procs : entryLock[q] = "exclusive" /\ pc[q] \in ConnectPc =>
          entryLock'[q] = "exclusive" /\ pc'[q] \in ConnectPc
    BY <1>2, <2>3 DEF Moves
  <2>6. QED
    BY <2>1, <2>2, <2>4, <2>5 DEF BuildInv, EntryInv
<1>9. QED
  BY <1>3, <1>4, <1>5, <1>6, <1>7, <1>8 DEF BuildInv, Grows

LEMMA EntryLockSharedInv ==
  ASSUME BuildInv, status = "building", NEW p \in Procs, EntryLockShared(p)
  PROVE  BuildInv' /\ Grows
<1>1. /\ UNCHANGED <<status, parts, rest, elem, listed, entry, used, flushed, flushLock, entryWait,
                     disk, indtuples, ndone>>
      /\ pc[p] = "entry" /\ "entry" \in ElemPc
      /\ \A q \in Procs : q # p => entryLock[q] # "exclusive"
  BY DEF EntryLockShared, graph, CanShare, ElemPc, MemoryPc
<1>2. CASE elem[Row(p)].level > LevelOf(entry)
  <2>1. /\ Moves(p, "entry", "waitx") /\ WorksOn(p) /\ SameElements
        /\ UNCHANGED <<work, entryLock>> /\ Move(p, "waitx")
    BY <1>1, <1>2, MoveFact, WorkFact, SameFact DEF EntryLockShared, BuildInv
  <2>2. BuildTypeOK'
    BY <1>1, <2>1 DEF Move, BuildInv, BuildTypeOK, Pc, MemoryPc
  <2>3. work[p].todo \in Seq(listed)
    BY <1>1 DEF BuildInv, OwnerInv, PendingPc
  <2>4. QED
    BY <1>1, <2>1, <2>2, <2>3, Phases, PlainMove
<1>3. CASE ~(elem[Row(p)].level > LevelOf(entry))
  <2>1. StartSearch(p, entry) /\ entryLock' = [entryLock EXCEPT ![p] = "share"]
    BY <1>3 DEF EntryLockShared
  <2>2. /\ work' \in [Procs -> Work] /\ pc' \in [Procs -> Pc]
        /\ WorksOn(p) /\ work'[p].ep = entry /\ work'[p].todo = work[p].todo
        /\ Moves(p, "entry", "search") \/ Moves(p, "entry", "dup")
    BY <1>1, <2>1, StartFact
  <2>3. BuildTypeOK'
    BY <1>1, <2>1, <2>2 DEF BuildInv, BuildTypeOK, Modes
  <2>4. elem[Row(p)].level <= LevelOf(entry)
    <3>1. elem[Row(p)].level \in Int
      BY <1>1, BuildBounds DEF BuildInv, ElementInv, Levels
    <3>2. LevelOf(entry) \in Int
      BY BuildBounds DEF BuildInv, ElementInv, LevelOf, Levels
    <3>3. QED
      BY <1>3, <3>1, <3>2
  <2>5. CASE Moves(p, "entry", "search")
    BY <1>1, <2>1, <2>2, <2>3, <2>4, <2>5, EntryTaken
  <2>6. CASE Moves(p, "entry", "dup")
    BY <1>1, <2>1, <2>2, <2>3, <2>4, <2>6, EntryTaken
  <2>7. QED
    BY <2>2, <2>5, <2>6
<1>4. QED
  BY <1>2, <1>3

LEMMA EntryLockExclusiveInv ==
  ASSUME BuildInv, status = "building", NEW p \in Procs, EntryLockExclusive(p)
  PROVE  BuildInv' /\ Grows
<1>1. /\ UNCHANGED <<status, parts, rest, elem, listed, entry, used, flushed, flushLock,
                     disk, indtuples, ndone>>
      /\ pc[p] = "entryx" /\ "entryx" \in ElemPc /\ entryWait' = Nobody
      /\ \A q \in Procs : q # p => entryLock[q] = "none"
      /\ StartSearch(p, entry) /\ entryLock' = [entryLock EXCEPT ![p] = "exclusive"]
  BY DEF EntryLockExclusive, graph, CanExclusive, ElemPc, MemoryPc
<1>2. /\ work' \in [Procs -> Work] /\ pc' \in [Procs -> Pc]
      /\ WorksOn(p) /\ work'[p].ep = entry /\ work'[p].todo = work[p].todo
      /\ Moves(p, "entryx", "search") \/ Moves(p, "entryx", "dup")
  BY <1>1, StartFact
<1>3. BuildTypeOK'
  BY <1>1, <1>2 DEF BuildInv, BuildTypeOK, Modes
<1>4. CASE Moves(p, "entryx", "search")
  BY <1>1, <1>2, <1>3, <1>4, EntryTaken
<1>5. CASE Moves(p, "entryx", "dup")
  BY <1>1, <1>2, <1>3, <1>5, EntryTaken
<1>6. QED
  BY <1>2, <1>4, <1>5
-----------------------------------------------------------------------------
(***************************************************************************)
(* The row gets its place in the graph.                                    *)
(***************************************************************************)

\* The duplicate is in the list, and so is nobody's element in progress.
LEMMA AddDuplicateInv ==
  ASSUME BuildInv, status = "building", NEW p \in Procs, AddDuplicate(p)
  PROVE  BuildInv' /\ Grows
<1>1. /\ UNCHANGED <<status, parts, rest, listed, entry, used, flushed, flushLock, entryLock,
                     entryWait, disk, indtuples, ndone>>
      /\ pc[p] = "dup" /\ work[p].todo # <<>>
  BY DEF AddDuplicate, IsDuplicate, locks
<1> DEFINE d == Head(work[p].todo)
<1>2. work[p].todo \in Seq(listed) /\ Row(p) \in Rows /\ listed \subseteq Rows
  BY <1>1 DEF BuildInv, BuildTypeOK, OwnerInv, PendingPc, RowPc, Indexable
<1>3. d \in listed /\ d \in Rows /\ Tail(work[p].todo) \in Seq(listed)
  BY <1>1, <1>2, HeadTailProperties
<1>4. CASE /\ work' = [work EXCEPT ![p].todo = Tail(@)]
           /\ UNCHANGED <<elem, pc>>
  <2>1. Tail(work[p].todo) \in Seq(Rows)
    BY <1>2, <1>3, SeqMonotonic
  <2>2. /\ WorksOn(p) /\ work'[p].ep = work[p].ep /\ work' \in [Procs -> Work]
        /\ work'[p].todo = Tail(work[p].todo)
    BY <1>4, <2>1, TodoFact DEF BuildInv
  <2>3. Moves(p, "dup", "dup") /\ SameElements
    BY <1>1, <1>4, SameFact DEF Moves
  <2>4. BuildTypeOK'
    BY <1>1, <1>4, <2>2 DEF BuildInv, BuildTypeOK
  <2>5. QED
    BY <1>1, <1>3, <2>2, <2>3, <2>4, Phases, PlainMove
<1>5. CASE /\ elem' = [elem EXCEPT ![d].heaptids = @ \union {Row(p)}]
           /\ Move(p, "release")
           /\ UNCHANGED work
  <2>1. Moves(p, "dup", "release") /\ WorksOn(p)
    BY <1>1, <1>5, MoveFact, WorkFact DEF BuildInv
  <2>2. elem \in [Rows -> Element] /\ elem[d] \in Element
    BY <1>3 DEF BuildInv, BuildTypeOK
  <2>3. /\ elem'[d].level = elem[d].level
        /\ elem'[d].heaptids = elem[d].heaptids \union {Row(p)}
        /\ \A e \in Rows : e # d => elem'[e] = elem[e]
    BY <1>3, <1>5, <2>2 DEF Element
  <2>4. elem' \in [Rows -> Element]
    <3>1. [elem[d] EXCEPT !.heaptids = elem[d].heaptids \union {Row(p)}] \in Element
      BY <1>2, <2>2 DEF Element
    <3>2. elem' = [elem EXCEPT ![d] = [elem[d] EXCEPT !.heaptids = elem[d].heaptids \union {Row(p)}]]
      BY <1>3, <1>5, <2>2
    <3>3. QED
      BY <2>2, <3>1, <3>2
  <2>5. BuildTypeOK'
    BY <1>1, <1>5, <2>4 DEF Move, BuildInv, BuildTypeOK, Pc, MemoryPc
  <2>6. ~flushed
    BY <1>1, InMemoryUnflushed DEF MemoryPc
  <2>7. Row(p) \notin listed /\ \A e \in listed : Row(p) \notin elem[e].heaptids
    BY <1>1, <2>6, PendingUnlisted DEF PendingPc
  <2>8. \A q \in Procs : Row(q)' = Row(q) /\ (pc[q] \in PendingPc => Row(q) # d)
    BY <1>3, <1>5, <2>6, PendingUnlisted DEF Row
  <2>9. ScanInv'
    BY <1>1, <2>1, ScanFrame DEF Active, Pc, MemoryPc
  <2>10. LockInv'
    BY <1>1, <2>1, LockFrame DEF MemoryPc, EntryPc
  <2>11. OwnerInv'
    <3>1. work[p].ep \in listed \union {Nobody}
      BY <1>1 DEF BuildInv, OwnerInv, RowPc, PendingPc
    <3>2. QED
      BY <1>1, <1>5, <2>1, <3>1, OwnerFrame DEF RowPc, PendingPc
  <2>12. \A e \in Rows : elem'[e].level = elem[e].level
    BY <2>3
  <2>13. ElementInv'
    <3>1. \A e \in listed : elem'[e].level \in Levels /\ e \in elem'[e].heaptids
      BY <1>2, <2>3 DEF BuildInv, ElementInv
    <3>2. \A e, f \in listed : e # f => elem'[e].heaptids \intersect elem'[f].heaptids = {}
      BY <1>2, <2>3, <2>7 DEF BuildInv, ElementInv
    <3>3. \A q \in Procs : pc'[q] \in ElemPc => elem'[Row(q)'].level \in Levels
      <4>1. \A q \in Procs : pc'[q] \in ElemPc => pc[q] \in ElemPc /\ Row(q) \in Rows
        BY <2>1 DEF BuildInv, OwnerInv, Moves, ElemPc, MemoryPc, RowPc, PendingPc, ConnectPc, Indexable
      <4>2. QED
        BY <2>8, <2>12, <4>1 DEF BuildInv, ElementInv
    <3>4. \A q \in Procs : pc'[q] \in ElemPc \intersect PendingPc =>
                             elem'[Row(q)'].heaptids = {Row(q)'}
      <4>1. \A q \in Procs : pc'[q] \in ElemPc \intersect PendingPc =>
              pc[q] \in ElemPc \intersect PendingPc /\ Row(q) \in Rows
        BY <2>1 DEF BuildInv, OwnerInv, Moves, PendingPc, RowPc, Indexable
      <4>2. QED
        BY <2>3, <2>8, <4>1 DEF BuildInv, ElementInv
    <3>5. \A q \in Procs : pc'[q] \in ConnectPc => Row(q)' \in listed'
      BY <1>1, <2>1, <2>8 DEF BuildInv, ElementInv, Moves, ConnectPc
    <3>6. QED
      BY <1>1, <3>1, <3>2, <3>3, <3>4, <3>5 DEF BuildInv, ElementInv
  <2>14. Indexed' = Indexed \union {Row(p)}
    <3>1. InMemory' = InMemory \union {Row(p)}
      BY <1>1, <1>2, <1>3, <2>3 DEF InMemory
    <3>2. QED
      BY <1>1, <2>6, <3>1 DEF Indexed
  <2>15. RowInv' /\ Grows
    <3>1. \A r \in Rows : disk'[r] \in {0, 1} /\ (~flushed => disk'[r] = 0)
      BY <1>1 DEF BuildInv, RowInv
    <3>2. QED
      BY <1>1, <2>1, <2>14, <3>1, RowIndexed DEF PendingPc, Active, Pc, MemoryPc
  <2>16. EntryInv'
    <3>1. LevelOf(entry)' = LevelOf(entry)
      BY <1>1, <2>12 DEF LevelOf, BuildInv, BuildTypeOK
    <3>2. NoFailure' <=> NoFailure
      BY <2>1 DEF Moves, NoFailure
    <3>3. \A q \in Procs : pc'[q] \in EntryPc => pc[q] \in EntryPc /\ Row(q) \in Rows
      BY <2>1 DEF Moves, EntryPc, BuildInv, OwnerInv, RowPc, PendingPc, ConnectPc, Indexable
    <3>4. \A q \in Procs : pc'[q] \in ConnectPc <=> pc[q] \in ConnectPc
      BY <2>1 DEF Moves, ConnectPc
    <3>5. \A q \in Procs : pc'[q] \in EntryPc =>
            /\ work'[q].ep = entry'
            /\ entryLock'[q] = "share" => elem'[Row(q)'].level <= LevelOf(entry)'
      BY <1>1, <1>5, <2>8, <2>12, <3>1, <3>3 DEF BuildInv, EntryInv
    <3>6. QED
      BY <1>1, <1>2, <2>8, <2>12, <3>1, <3>2, <3>4, <3>5 DEF BuildInv, EntryInv
  <2>17. QED
    BY <2>5, <2>9, <2>10, <2>11, <2>13, <2>15, <2>16 DEF BuildInv
<1>6. QED
  BY <1>4, <1>5 DEF AddDuplicate

\* The element goes into the list with its own row; if it is above the entry point,
\* p holds entryLock exclusively.
LEMMA AddElementInv ==
  ASSUME BuildInv, status = "building", NEW p \in Procs, AddElement(p)
  PROVE  BuildInv' /\ Grows
<1>1. /\ UNCHANGED <<status, parts, rest, elem, entry, used, flushed, flushLock, entryLock,
                     entryWait, disk, indtuples, ndone>>
      /\ pc[p] = "dup" /\ Moves(p, "dup", "copy") /\ listed' = listed \union {Row(p)}
      /\ work' = [work EXCEPT ![p].lc = elem[Row(p)].level, ![p].todo = <<>>]
  BY MoveFact DEF AddElement, locks, BuildInv
<1>2. /\ Row(p) \in Rows /\ listed \subseteq Rows /\ elem[Row(p)].level \in Levels
      /\ elem[Row(p)].heaptids = {Row(p)} /\ work[p].ep \in listed \union {Nobody}
      /\ work[p].ep = entry
  BY <1>1 DEF BuildInv, BuildTypeOK, OwnerInv, ElementInv, EntryInv, PendingPc, RowPc, Indexable,
              ElemPc, MemoryPc, EntryPc
<1>3. /\ work' \in [Procs -> Work] /\ WorksOn(p) /\ work'[p].ep = work[p].ep
  <2>1. work \in [Procs -> Work] /\ work[p] \in Work /\ <<>> \in Seq(Rows)
    BY EmptySeq DEF BuildInv, BuildTypeOK
  <2>2. [work[p] EXCEPT !.lc = elem[Row(p)].level, !.todo = <<>>] \in Work
    BY <1>2, <2>1 DEF Work
  <2>3. work' = [work EXCEPT ![p] = [work[p] EXCEPT !.lc = elem[Row(p)].level, !.todo = <<>>]]
    BY <1>1, <2>1
  <2>4. QED
    BY <2>1, <2>2, <2>3 DEF WorksOn, Row, Work
<1>4. BuildTypeOK'
  BY <1>1, <1>2, <1>3 DEF AddElement, Move, BuildInv, BuildTypeOK, Pc, MemoryPc
<1>5. ~flushed
  BY <1>1, InMemoryUnflushed DEF MemoryPc
<1>6. Row(p) \notin listed /\ \A e \in listed : Row(p) \notin elem[e].heaptids
  BY <1>1, <1>5, PendingUnlisted DEF PendingPc
<1>7. ScanInv'
  BY <1>1, ScanFrame DEF Active, Pc, MemoryPc
<1>8. LockInv'
  BY <1>1, LockFrame DEF MemoryPc, EntryPc
<1>9. OwnerInv'
  <2>1. "dup" \in RowPc /\ "copy" \in RowPc /\ "copy" \notin PendingPc
    BY DEF RowPc, PendingPc, ConnectPc
  <2>2. listed \subseteq listed' /\ work'[p].ep \in listed' \union {Nobody}
    BY <1>1, <1>2, <1>3
  <2>3. QED
    BY <1>1, <1>3, <2>1, <2>2, OwnerFrame
<1>10. \A q \in Procs : Row(q)' = Row(q)
  BY <1>3 DEF WorksOn, Row
<1>11. ElementInv'
  <2>1. \A q \in Procs : /\ pc'[q] \in ElemPc => pc[q] \in ElemPc
                         /\ pc'[q] \in ElemPc \intersect PendingPc => pc[q] \in ElemPc \intersect PendingPc
                         /\ pc'[q] \in ConnectPc => q = p \/ pc[q] \in ConnectPc
    BY <1>1 DEF Moves, ElemPc, MemoryPc, PendingPc, ConnectPc
  <2>2. \A e, f \in listed' : e # f => elem'[e].heaptids \intersect elem'[f].heaptids = {}
    BY <1>1, <1>2, <1>6 DEF BuildInv, ElementInv
  <2>3. \A e \in listed' : elem'[e].level \in Levels /\ e \in elem'[e].heaptids
    BY <1>1, <1>2 DEF BuildInv, ElementInv
  <2>4. QED
    BY <1>1, <1>10, <2>1, <2>2, <2>3 DEF BuildInv, ElementInv
<1>12. Indexed' = Indexed \union {Row(p)}
  <2>1. InMemory' = InMemory \union {Row(p)}
    <3>1. InMemory' = UNION {elem[e].heaptids : e \in listed \union {Row(p)}}
      BY <1>1 DEF InMemory
    <3>2. QED
      BY <1>2, <3>1 DEF InMemory
  <2>2. QED
    BY <1>1, <1>5, <2>1 DEF Indexed
<1>13. RowInv' /\ Grows
  <2>1. \A r \in Rows : disk'[r] \in {0, 1} /\ (~flushed => disk'[r] = 0)
    BY <1>1 DEF BuildInv, RowInv
  <2>2. "dup" \in PendingPc /\ "copy" \in Active \ PendingPc
    BY DEF PendingPc, Active, Pc, MemoryPc
  <2>3. QED
    BY <1>1, <1>3, <1>12, <2>1, <2>2, RowIndexed
<1>14. EntryInv'
  <2>1. LevelOf(entry)' = LevelOf(entry)
    BY <1>1 DEF LevelOf
  <2>2. NoFailure' <=> NoFailure
    BY <1>1 DEF Moves, NoFailure
  <2>3. \A q \in Procs : pc'[q] \in EntryPc => pc[q] \in EntryPc /\ work'[q].ep = work[q].ep
    BY <1>1, <1>3 DEF Moves, EntryPc, WorksOn
  <2>4. \A q \in Procs : pc[q] \in ConnectPc => pc'[q] \in ConnectPc
    BY <1>1 DEF Moves, ConnectPc
  <2>5. \A q \in Procs : pc'[q] \in EntryPc =>
          /\ work'[q].ep = entry'
          /\ entryLock'[q] = "share" => elem'[Row(q)'].level <= LevelOf(entry)'
    BY <1>1, <1>10, <2>1, <2>3 DEF BuildInv, EntryInv
  <2>6. \/ elem[Row(p)].level <= LevelOf(entry)
        \/ entryLock[p] = "exclusive"
    <3>1. entryLock[p] # "none" /\ entryLock[p] \in Modes
      BY <1>1 DEF BuildInv, BuildTypeOK, LockInv, EntryPc
    <3>2. QED
      BY <1>1, <3>1 DEF BuildInv, EntryInv, EntryPc, Modes
  <2>7. pc'[p] \in ConnectPc
    BY <1>1 DEF Moves, ConnectPc
  <2>8. NoFailure' => \A e \in listed' :
          \/ elem'[e].level <= LevelOf(entry)'
          \/ \E q \in Procs : entryLock'[q] = "exclusive" /\ pc'[q] \in ConnectPc /\ Row(q)' = e
    <3>1. SUFFICES ASSUME NoFailure, NEW e \in listed \union {Row(p)}, ~(elem[e].level <= LevelOf(entry))
                   PROVE  \E q \in Procs : entryLock[q] = "exclusive" /\ pc'[q] \in ConnectPc /\ Row(q) = e
      BY <1>1, <1>10, <2>1, <2>2
    <3>2. CASE e = Row(p)
      BY <2>6, <2>7, <3>1, <3>2
    <3>3. CASE e \in listed
      BY <2>4, <3>1, <3>3 DEF BuildInv, EntryInv
    <3>4. QED
      BY <3>2, <3>3
  <2>9. QED
    BY <2>5, <2>8 DEF EntryInv
<1>15. QED
  BY <1>4, <1>7, <1>8, <1>9, <1>11, <1>13, <1>14 DEF BuildInv

\* An entry point is replaced under the exclusive lock, when nobody else has read it.
LEMMA SetEntryPointInv ==
  ASSUME BuildInv, status = "building", NEW p \in Procs, SetEntryPoint(p)
  PROVE  BuildInv' /\ Grows
<1>1. /\ UNCHANGED <<status, parts, rest, work, elem, listed, used, flushed, flushLock, entryLock,
                     entryWait, disk, indtuples, ndone>>
      /\ pc[p] = "setentry" /\ Moves(p, "setentry", "release") /\ WorksOn(p) /\ SameElements
      /\ entry' = IF elem[Row(p)].level > LevelOf(work[p].ep) THEN Row(p) ELSE entry
  BY MoveFact, WorkFact, SameFact DEF SetEntryPoint, locks, BuildInv
<1>2. /\ Row(p) \in listed /\ listed \subseteq Rows /\ work[p].ep = entry
      /\ elem[Row(p)].level \in Levels /\ entry \in listed \union {Nobody}
  BY <1>1 DEF BuildInv, BuildTypeOK, ElementInv, EntryInv, ConnectPc, EntryPc
<1>3. elem[Row(p)].level \in Int /\ LevelOf(entry) \in Int
  BY <1>2, BuildBounds DEF BuildInv, ElementInv, LevelOf, Levels
<1>4. entry' \in listed \union {Nobody}
  BY <1>1, <1>2
<1>5. BuildTypeOK'
  BY <1>1, <1>2, <1>4 DEF SetEntryPoint, Move, BuildInv, BuildTypeOK, Pc, MemoryPc
<1>6. ScanInv'
  BY <1>1, ScanFrame DEF Active, Pc, MemoryPc
<1>7. LockInv'
  BY <1>1, LockFrame DEF MemoryPc, EntryPc
<1>8. OwnerInv'
  <2>1. "setentry" \in RowPc /\ "release" \in RowPc /\ "release" \notin PendingPc
    BY DEF RowPc, ConnectPc, PendingPc
  <2>2. QED
    BY <1>1, <1>2, <2>1, OwnerFrame
<1>9. \A q \in Procs : Row(q)' = Row(q) /\ (q # p => pc'[q] = pc[q])
  BY <1>1 DEF Moves, Row
<1>10. pc'[p] = "release" /\ "release" \notin PendingPc \union ConnectPc \union EntryPc
  BY <1>1 DEF Moves, PendingPc, ConnectPc, EntryPc
<1>11. ElementInv'
  <2>1. \A q \in Procs : /\ pc'[q] \in ElemPc => elem[Row(q)].level \in Levels
                         /\ pc'[q] \in PendingPc \union ConnectPc => pc'[q] = pc[q]
    BY <1>2, <1>9, <1>10 DEF BuildInv, ElementInv
  <2>2. QED
    BY <1>1, <1>4, <1>9, <2>1 DEF BuildInv, ElementInv
<1>12. RowInv' /\ Indexed' = Indexed
  <2>1. "setentry" \in Active /\ "release" \in Active /\ "setentry" \notin PendingPc
    BY DEF Active, Pc, MemoryPc, PendingPc
  <2>2. QED
    BY <1>1, <1>10, <2>1, RowFrame
<1>13. EntryInv'
  <2>1. NoFailure' <=> NoFailure
    BY <1>1 DEF Moves, NoFailure
  <2>2. CASE elem[Row(p)].level > LevelOf(entry)
    <3>1. entry' = Row(p) /\ LevelOf(entry)' = elem[Row(p)].level
      BY <1>1, <1>2, <2>2, BuildNames DEF LevelOf
    <3>2. entryLock[p] = "exclusive"
      <4>1. entryLock[p] # "none" /\ entryLock[p] \in Modes
        BY <1>1 DEF BuildInv, BuildTypeOK, LockInv, EntryPc
      <4>2. entryLock[p] # "share"
        BY <1>1, <1>3, <2>2 DEF BuildInv, EntryInv, EntryPc
      <4>3. QED
        BY <4>1, <4>2 DEF Modes
    <3>3. \A q \in Procs : q # p => entryLock[q] = "none"
      BY <3>2 DEF BuildInv, LockInv
    <3>4. \A q \in Procs : pc'[q] \notin EntryPc
      BY <1>9, <1>10, <3>3 DEF BuildInv, LockInv
    <3>5. \A e \in listed : elem[e].level \in Int
      BY BuildBounds DEF BuildInv, ElementInv, Levels
    <3>6. ASSUME NoFailure, NEW e \in listed
          PROVE  elem[e].level <= elem[Row(p)].level
      <4>1. CASE elem[e].level <= LevelOf(entry)
        BY <1>3, <2>2, <3>5, <4>1
      <4>2. CASE \E q \in Procs : entryLock[q] = "exclusive" /\ pc[q] \in ConnectPc /\ Row(q) = e
        BY <1>3, <3>3, <4>2
      <4>3. QED
        BY <3>6, <4>1, <4>2 DEF BuildInv, EntryInv
    <3>7. QED
      BY <1>1, <2>1, <3>1, <3>4, <3>6 DEF EntryInv
  <2>3. CASE ~(elem[Row(p)].level > LevelOf(entry))
    <3>1. entry' = entry /\ LevelOf(entry)' = LevelOf(entry) /\ elem[Row(p)].level <= LevelOf(entry)
      BY <1>1, <1>2, <1>3, <2>3 DEF LevelOf
    <3>2. \A q \in Procs : pc'[q] \in EntryPc => pc[q] \in EntryPc
      BY <1>9, <1>10
    <3>3. ASSUME NoFailure, NEW e \in listed
          PROVE  \/ elem[e].level <= LevelOf(entry)
                 \/ \E q \in Procs : entryLock[q] = "exclusive" /\ pc'[q] \in ConnectPc /\ Row(q) = e
      <4>1. CASE \E q \in Procs : entryLock[q] = "exclusive" /\ pc[q] \in ConnectPc /\ Row(q) = e
        BY <1>9, <3>1, <4>1
      <4>2. QED
        BY <3>3, <4>1 DEF BuildInv, EntryInv
    <3>4. QED
      BY <1>1, <1>9, <2>1, <3>1, <3>2, <3>3 DEF BuildInv, EntryInv
  <2>4. QED
    BY <2>2, <2>3
<1>14. QED
  BY <1>5, <1>6, <1>7, <1>8, <1>11, <1>12, <1>13 DEF BuildInv, Grows

LEMMA ReleaseLocksInv ==
  ASSUME BuildInv, status = "building", NEW p \in Procs, ReleaseLocks(p)
  PROVE  BuildInv' /\ Grows
<1>1. /\ UNCHANGED <<status, parts, rest, work, elem, listed, entry, used, flushed, entryWait,
                     disk, indtuples, ndone>>
      /\ pc[p] = "release" /\ Moves(p, "release", "count") /\ WorksOn(p) /\ SameElements
      /\ entryLock' = [entryLock EXCEPT ![p] = "none"]
      /\ flushLock' = [flushLock EXCEPT ![p] = "none"]
  BY MoveFact, WorkFact, SameFact DEF ReleaseLocks, graph, BuildInv
<1>2. /\ entryLock'[p] = "none" /\ flushLock'[p] = "none"
      /\ \A q \in Procs : q # p => entryLock'[q] = entryLock[q] /\ flushLock'[q] = flushLock[q]
  BY <1>1 DEF BuildInv, BuildTypeOK
<1>3. BuildTypeOK'
  BY <1>1 DEF ReleaseLocks, Move, BuildInv, BuildTypeOK, Pc, MemoryPc, Modes
<1>4. ScanInv'
  BY <1>1, ScanFrame DEF Active, Pc, MemoryPc
<1>5. LockInv'
  BY <1>1, <1>2 DEF BuildInv, LockInv, Moves, MemoryPc, EntryPc
<1>6. OwnerInv'
  <2>1. "release" \in RowPc /\ "count" \in RowPc /\ "count" \notin PendingPc
    BY DEF RowPc, ConnectPc, PendingPc
  <2>2. work[p].ep \in listed \union {Nobody}
    BY <1>1, <2>1 DEF BuildInv, OwnerInv
  <2>3. QED
    BY <1>1, <2>1, <2>2, OwnerFrame
<1>7. ElementInv'
  BY <1>1, ElementFrame DEF RowPc, ElemPc, MemoryPc, ConnectPc, PendingPc
<1>8. RowInv' /\ Indexed' = Indexed
  BY <1>1, RowFrame DEF Active, Pc, MemoryPc, PendingPc
<1>9. EntryInv'
  <2>1. NoFailure' <=> NoFailure
    BY <1>1 DEF Moves, NoFailure
  <2>2. LevelOf(entry)' = LevelOf(entry) /\ \A q \in Procs : Row(q)' = Row(q)
    BY <1>1 DEF LevelOf, Row
  <2>3. \A q \in Procs : pc'[q] \in EntryPc => q # p /\ pc[q] \in EntryPc
    BY <1>1 DEF Moves, EntryPc
  <2>4. \A q \in Procs : pc[q] \in ConnectPc => q # p /\ pc'[q] \in ConnectPc
    BY <1>1 DEF Moves, ConnectPc
  <2>5. QED
    BY <1>1, <1>2, <2>1, <2>2, <2>3, <2>4 DEF BuildInv, EntryInv
<1>10. QED
  BY <1>3, <1>4, <1>5, <1>6, <1>7, <1>8, <1>9 DEF BuildInv, Grows
-----------------------------------------------------------------------------
(***************************************************************************)
(* The build as a whole: failures, its beginning and its end.              *)
(***************************************************************************)

\* Whoever fails gives up its row and its locks; the others do not notice.
LEMMA FailsInv ==
  ASSUME BuildInv, NEW p \in Procs, Fails(p)
  PROVE  BuildInv' /\ Indexed' = Indexed
<1>1. /\ UNCHANGED <<status, parts, rest, elem, listed, entry, used, flushed, disk, indtuples, ndone>>
      /\ status = "building" /\ pc[p] # "out"
      /\ pc'[p] = "failed" /\ work'[p] = NoWork
      /\ entryLock'[p] = "none" /\ flushLock'[p] = "none"
      /\ \A q \in Procs : q # p => /\ pc'[q] = pc[q] /\ work'[q] = work[q]
                                   /\ entryLock'[q] = entryLock[q] /\ flushLock'[q] = flushLock[q]
  BY DEF Fails, Move, graph, BuildInv, BuildTypeOK
<1>2. BuildTypeOK'
  <2>1. NoWork \in Work
    BY EmptySeq, BuildBounds DEF NoWork, Work, Levels
  <2>2. work' \in [Procs -> Work] /\ pc' \in [Procs -> Pc]
    BY <2>1 DEF Fails, Move, BuildInv, BuildTypeOK, Pc
  <2>3. QED
    BY <1>1, <2>2 DEF Fails, BuildInv, BuildTypeOK, Modes
<1>3. ~NoFailure'
  BY <1>1 DEF NoFailure
<1>4. /\ "failed" \notin RowPc /\ "failed" \notin ElemPc /\ "failed" \notin EntryPc /\ "failed" \notin MemoryPc
      /\ PendingPc \subseteq RowPc /\ ConnectPc \subseteq RowPc
  BY DEF RowPc, ElemPc, MemoryPc, EntryPc, PendingPc, ConnectPc
<1>5. \A q \in Procs : q # p => Row(q)' = Row(q)
  BY <1>1 DEF Row
<1>6. ScanInv'
  BY <1>1, <1>3 DEF BuildInv, ScanInv
<1>7. LockInv'
  BY <1>1, <1>4 DEF BuildInv, LockInv
<1>8. OwnerInv'
  BY <1>1, <1>4, <1>5 DEF BuildInv, OwnerInv
<1>9. ElementInv'
  BY <1>1, <1>4, <1>5 DEF BuildInv, ElementInv
<1>10. Indexed' = Indexed
  BY <1>1, Unindexed
<1>11. RowInv'
  BY <1>1, <1>3, <1>4, <1>5, <1>10 DEF BuildInv, RowInv
<1>12. EntryInv'
  <2>1. LevelOf(entry)' = LevelOf(entry)
    BY <1>1 DEF LevelOf
  <2>2. QED
    BY <1>1, <1>3, <1>4, <1>5, <2>1 DEF BuildInv, EntryInv
<1>13. QED
  BY <1>2, <1>6, <1>7, <1>8, <1>9, <1>10, <1>11, <1>12 DEF BuildInv

LEMMA BuildBeginInv ==
  ASSUME BuildInv, BuildBegin
  PROVE  BuildInv' /\ Indexed' = Indexed
<1>1. /\ UNCHANGED <<rest, work, elem, listed, entry, used, flushed, flushLock, entryLock, entryWait,
                     disk, indtuples, ndone>>
      /\ status = "starting" /\ status' = "building"
  BY DEF BuildBegin, graph, locks
<1>2. PICK W \in SUBSET Workers :
        /\ parts' = W \union {Leader}
        /\ pc' = [q \in Procs |-> IF q \in W \union {Leader} THEN "scan" ELSE "out"]
  BY Zenon DEF BuildBegin
<1>3. \A q \in Procs : /\ pc[q] = "out" /\ pc'[q] \in {"out", "scan"}
                       /\ q \notin parts' => pc'[q] = "out"
                       /\ Row(q)' = Row(q)
  BY <1>1, <1>2 DEF BuildInv, ScanInv, Row
<1>4. BuildTypeOK'
  BY <1>1, <1>2 DEF BuildInv, BuildTypeOK, Pc, Procs
<1>5. NoFailure /\ NoFailure'
  BY <1>3 DEF NoFailure
<1>6. /\ "out" \notin RowPc /\ "out" \notin ElemPc /\ "out" \notin EntryPc /\ "out" \notin MemoryPc
      /\ "scan" \notin RowPc /\ "scan" \notin ElemPc /\ "scan" \notin EntryPc /\ "scan" \notin MemoryPc
      /\ PendingPc \subseteq RowPc /\ ConnectPc \subseteq RowPc
  BY DEF RowPc, ElemPc, MemoryPc, EntryPc, PendingPc, ConnectPc
<1>7. ScanInv'
  <2>1. Finished' = {}
    BY <1>3 DEF Finished
  <2>2. Cardinality(Finished') = 0 /\ ndone' = 0
    BY <1>1, <2>1, FS_EmptySet DEF BuildInv, ScanInv
  <2>3. QED
    BY <1>1, <1>2, <1>3, <2>2 DEF ScanInv
<1>8. LockInv'
  BY <1>1, <1>3, <1>6 DEF BuildInv, LockInv
<1>9. OwnerInv' /\ ElementInv'
  BY <1>1, <1>3, <1>6 DEF BuildInv, OwnerInv, ElementInv
<1>10. Indexed' = Indexed
  BY <1>1, Unindexed
<1>11. RowInv'
  BY <1>1, <1>3, <1>5, <1>6, <1>10 DEF BuildInv, RowInv
<1>12. EntryInv'
  <2>1. LevelOf(entry)' = LevelOf(entry)
    BY <1>1 DEF LevelOf
  <2>2. QED
    BY <1>1, <1>3, <1>5, <1>6, <2>1 DEF BuildInv, EntryInv
<1>13. QED
  BY <1>4, <1>7, <1>8, <1>9, <1>10, <1>11, <1>12 DEF BuildInv

\* When nobody failed and as many are done as take part, all have finished: the scan
\* has handed out every row, and nobody has one left.
LEMMA AllFinished ==
  ASSUME BuildInv, BuildEnd
  PROVE  /\ NoFailure /\ rest = {}
         /\ \A p \in Procs : pc[p] \in {"finished", "out"} /\ flushLock[p] = "none"
<1>1. NoFailure
  BY DEF BuildEnd, BuildInv, ScanInv, NoFailure
<1>2. Finished \subseteq parts /\ parts \in SUBSET Procs
  BY DEF BuildInv, BuildTypeOK, ScanInv, Finished
<1>3. Cardinality(Finished) = Cardinality(parts)
  BY <1>1 DEF BuildEnd, AllDone, BuildInv, ScanInv
<1>4. Finished = parts
  BY <1>2, <1>3, FiniteProcs, FS_Subset
<1>5. \A p \in Procs : pc[p] \in {"finished", "out"}
  BY <1>4 DEF BuildInv, ScanInv, Finished
<1>6. rest = {}
  BY DEF BuildEnd, BuildInv, ScanInv, Procs
<1>7. \A p \in Procs : flushLock[p] \in Modes
  BY DEF BuildInv, BuildTypeOK
<1>8. \A p \in Procs : pc[p] \notin MemoryPc /\ pc[p] # "flush"
  BY <1>5 DEF MemoryPc
<1>9. \A p \in Procs : flushLock[p] = "none"
  BY <1>7, <1>8 DEF BuildInv, LockInv, Modes
<1>10. QED
  BY <1>1, <1>5, <1>6, <1>9

\* The build ends with every row indexed, written by the last flush if by no other.
LEMMA BuildEndInv ==
  ASSUME BuildInv, BuildEnd
  PROVE  BuildInv' /\ Indexed = Indexable /\ Indexed' = Indexed
<1>1. /\ UNCHANGED <<parts, rest, pc, work, elem, listed, entry, used, flushLock, entryLock, entryWait,
                     indtuples, ndone>>
      /\ status = "building" /\ status' = "done"
      /\ IF flushed THEN UNCHANGED <<disk, flushed>> ELSE FlushPages
  BY DEF BuildEnd, graph, locks
<1>2. /\ NoFailure /\ rest = {}
      /\ \A p \in Procs : pc[p] \in {"finished", "out"} /\ flushLock[p] = "none"
  BY AllFinished
<1>3. \A p \in Procs : pc[p] \notin PendingPc /\ pc[p] # "ondisk"
  BY <1>2 DEF PendingPc
<1>4. Indexed = Indexable
  BY <1>2, <1>3 DEF BuildInv, RowInv
<1>5. /\ Indexed' = Indexed /\ flushed' = TRUE /\ disk' \in [Rows -> Nat]
      /\ \A r \in Rows : disk'[r] \in {0, 1}
  <2>1. CASE flushed
    BY <1>1, <2>1, Unindexed DEF BuildInv, BuildTypeOK, RowInv
  <2>2. CASE ~flushed
    BY <1>1, <2>2, FlushFact, FlushIndexed DEF FlushPages
  <2>3. QED
    BY <2>1, <2>2
<1>6. BuildTypeOK'
  BY <1>1, <1>5 DEF BuildInv, BuildTypeOK
<1>7. \A p \in Procs : Row(p)' = Row(p)
  BY <1>1 DEF Row
<1>8. (NoFailure' <=> NoFailure) /\ Finished' = Finished /\ LevelOf(entry)' = LevelOf(entry)
  BY <1>1 DEF NoFailure, Finished, LevelOf
<1>9. ScanInv'
  BY <1>1, <1>8 DEF BuildInv, ScanInv
<1>10. LockInv'
  BY <1>1, <1>2, <1>3 DEF BuildInv, LockInv
<1>11. OwnerInv' /\ ElementInv' /\ EntryInv'
  BY <1>1, <1>7, <1>8 DEF BuildInv, OwnerInv, ElementInv, EntryInv
<1>12. RowInv'
  BY <1>1, <1>3, <1>5, <1>7, <1>8 DEF BuildInv, RowInv
<1>13. QED
  BY <1>4, <1>5, <1>6, <1>9, <1>10, <1>11, <1>12 DEF BuildInv

LEMMA StatusOnlyInv ==
  ASSUME BuildInv, status' \in {status, "failed"},
         UNCHANGED <<parts, rest, pc, work, elem, listed, entry, used, flushed, flushLock, entryLock,
                     entryWait, disk, indtuples, ndone>>
  PROVE  BuildInv' /\ Indexed' = Indexed
<1>1. Indexed' = Indexed
  BY Unindexed
<1>2. \A p \in Procs : Row(p)' = Row(p)
  BY DEF Row
<1>3. (NoFailure' <=> NoFailure) /\ Finished' = Finished /\ LevelOf(entry)' = LevelOf(entry)
  BY DEF NoFailure, Finished, LevelOf
<1>4. BuildTypeOK' /\ ScanInv' /\ LockInv'
  BY <1>3 DEF BuildInv, BuildTypeOK, ScanInv, LockInv
<1>5. OwnerInv' /\ ElementInv' /\ EntryInv'
  BY <1>2, <1>3 DEF BuildInv, OwnerInv, ElementInv, EntryInv
<1>6. RowInv'
  BY <1>1, <1>2, <1>3 DEF BuildInv, RowInv
<1>7. QED
  BY <1>1, <1>4, <1>5, <1>6 DEF BuildInv
-----------------------------------------------------------------------------
(***************************************************************************)
(* The theorems.                                                           *)
(***************************************************************************)
LEMMA InitInv == Init => BuildInv /\ Indexed = {}
<1> SUFFICES ASSUME Init
             PROVE  BuildInv /\ Indexed = {}
  OBVIOUS
<1>1. NoWork \in Work /\ NoElem \in Element
  BY EmptySeq, BuildBounds DEF NoWork, Work, NoElem, Element, Levels
<1>2. BuildTypeOK
  BY <1>1 DEF Init, BuildTypeOK, Procs, Pc, Modes
<1>3. \A p \in Procs : pc[p] = "out" /\ flushLock[p] = "none" /\ entryLock[p] = "none" /\ work[p] = NoWork
  BY DEF Init
<1>4. /\ "out" \notin RowPc /\ "out" \notin ElemPc /\ "out" \notin EntryPc /\ "out" \notin MemoryPc
      /\ "out" \notin PendingPc /\ "out" \notin ConnectPc
  BY DEF RowPc, ElemPc, MemoryPc, EntryPc, PendingPc, ConnectPc
<1>5. ScanInv
  <2>1. Finished = {}
    BY <1>3 DEF Finished
  <2>2. Cardinality(Finished) = 0
    BY <2>1, FS_EmptySet
  <2>3. QED
    BY <1>3, <2>2 DEF Init, ScanInv
<1>6. LockInv
  BY <1>3, <1>4 DEF Init, LockInv
<1>7. OwnerInv /\ ElementInv /\ EntryInv
  BY <1>3, <1>4 DEF Init, OwnerInv, ElementInv, EntryInv
<1>8. Indexed = {}
  BY DEF Init, Indexed, InMemory
<1>9. RowInv
  <2>1. \A r \in Indexable : r \in rest
    BY DEF Init, Indexable
  <2>2. \A r \in Rows : disk[r] = 0
    BY DEF Init
  <2>3. QED
    BY <1>3, <1>4, <1>8, <2>1, <2>2 DEF RowInv
<1>10. QED
  BY <1>2, <1>5, <1>6, <1>7, <1>8, <1>9 DEF BuildInv

LEMMA InsertInMemoryInv ==
  ASSUME BuildInv, status = "building", NEW p \in Procs, InsertInMemory(p)
  PROVE  BuildInv' /\ Grows
<1>1. CASE PassEntryWait(p)      BY <1>1, PassEntryWaitInv
<1>2. CASE EntryLockShared(p)    BY <1>2, EntryLockSharedInv
<1>3. CASE EntryWaitExclusive(p) BY <1>3, EntryWaitExclusiveInv
<1>4. CASE EntryLockExclusive(p) BY <1>4, EntryLockExclusiveInv
<1>5. CASE FindNeighbors(p)      BY <1>5, FindNeighborsInv
<1>6. CASE AddDuplicate(p)       BY <1>6, AddDuplicateInv
<1>7. CASE AddElement(p)         BY <1>7, AddElementInv
<1>8. CASE CopyNeighbors(p)      BY <1>8, CopyNeighborsInv
<1>9. CASE ConnectNeighbor(p)    BY <1>9, ConnectNeighborInv
<1>10. CASE LayerConnected(p)    BY <1>10, LayerConnectedInv
<1>11. CASE SetEntryPoint(p)     BY <1>11, SetEntryPointInv
<1>12. CASE ReleaseLocks(p)      BY <1>12, ReleaseLocksInv
<1>13. QED
  BY <1>1, <1>2, <1>3, <1>4, <1>5, <1>6, <1>7, <1>8, <1>9, <1>10, <1>11, <1>12
  DEF InsertInMemory

LEMMA ParticipateInv ==
  ASSUME BuildInv, NEW p \in Procs, Participate(p)
  PROVE  BuildInv' /\ Grows /\ status = "building" /\ UNCHANGED status
<1>1. status = "building"
  BY DEF Participate
<1>2. CASE NextRow(p)            BY <1>1, <1>2, NextRowInv DEF NextRow
<1>3. CASE ScanDone(p)           BY <1>1, <1>3, ScanDoneInv DEF ScanDone
<1>4. CASE FlushLockShared(p)    BY <1>1, <1>4, FlushLockSharedInv DEF FlushLockShared
<1>5. CASE Allocate(p)           BY <1>1, <1>5, AllocateInv DEF Allocate
<1>6. CASE FlushLockExclusive(p) BY <1>1, <1>6, FlushLockExclusiveInv DEF FlushLockExclusive
<1>7. CASE Flush(p)              BY <1>1, <1>7, FlushInv DEF Flush
<1>8. CASE InsertInMemory(p)
  <2>1. UNCHANGED status
    BY <1>8 DEF InsertInMemory, PassEntryWait, EntryLockShared, EntryWaitExclusive,
       EntryLockExclusive, FindNeighbors, AddDuplicate, AddElement, CopyNeighbors,
       ConnectNeighbor, LayerConnected, SetEntryPoint, ReleaseLocks
  <2>2. QED
    BY <1>1, <1>8, <2>1, InsertInMemoryInv
<1>9. CASE InsertOnDisk(p)       BY <1>1, <1>9, InsertOnDiskInv DEF InsertOnDisk
<1>10. CASE Count(p)             BY <1>1, <1>10, CountInv DEF Count
<1>11. QED
  BY <1>2, <1>3, <1>4, <1>5, <1>6, <1>7, <1>8, <1>9, <1>10 DEF Participate

LEMMA AbortsInv ==
  ASSUME BuildInv, BuildAborts \/ UNCHANGED vars
  PROVE  BuildInv' /\ Indexed' = Indexed
<1>1. /\ status' \in {status, "failed"}
      /\ UNCHANGED <<parts, rest, pc, work, elem, listed, entry, used, flushed, flushLock, entryLock,
                     entryWait, disk, indtuples, ndone>>
  BY DEF BuildAborts, vars, graph, locks
<1>2. QED
  BY <1>1, StatusOnlyInv

LEMMA NextInv ==
  ASSUME BuildInv, [Next]_vars
  PROVE  BuildInv'
<1>1. CASE BuildBegin                             BY <1>1, BuildBeginInv
<1>2. CASE BuildEnd                               BY <1>2, BuildEndInv
<1>3. CASE BuildAborts                            BY <1>3, AbortsInv
<1>4. CASE Over                                   BY <1>4, AbortsInv DEF Over
<1>5. ASSUME NEW p \in Procs, Participate(p) PROVE BuildInv'  BY <1>5, ParticipateInv
<1>6. ASSUME NEW p \in Procs, Fails(p) PROVE BuildInv'        BY <1>6, FailsInv
<1>7. CASE UNCHANGED vars                         BY <1>7, AbortsInv
<1>8. QED
  BY <1>1, <1>2, <1>3, <1>4, <1>5, <1>6, <1>7 DEF Next

\* Rows, locks and the entry point fit together in every state of a build: BuildInv
\* holds for any number of workers, rows, levels and any amount of memory.
THEOREM BuildInvariant == Spec => []BuildInv
<1>1. Init => BuildInv
  BY InitInv
<1>2. BuildInv /\ [Next]_vars => BuildInv'
  BY NextInv
<1>3. QED
  BY <1>1, <1>2, PTL DEF Spec

\* Every variable of the build keeps its type.
THEOREM BuildTypeCorrect == Spec => []BuildTypeOK
<1>1. BuildInv => BuildTypeOK
  BY DEF BuildInv
<1>2. QED
  BY <1>1, BuildInvariant, PTL

\* No row is written to the index twice, by two flushes or by a flush and an insert
\* on disk.
THEOREM RowsOnDiskOnceCorrect == Spec => []RowsOnDiskOnce
<1>1. BuildInv => RowsOnDiskOnce
  BY DEF BuildInv, RowInv, RowsOnDiskOnce
<1>2. QED
  BY <1>1, BuildInvariant, PTL

\* Unless somebody is just replacing it, the entry point is as high as every element
\* of the graph, although its level is compared before the exclusive lock is taken.
THEOREM EntryHighestCorrect == Spec => []EntryHighest
<1>1. BuildInv => EntryHighest
  BY DEF BuildInv, EntryInv, EntryHighest, NoFailure
<1>2. QED
  BY <1>1, BuildInvariant, PTL

\* Nobody changes the graph in shared memory while it is written to disk or after.
THEOREM GraphQuietInFlushCorrect == Spec => GraphQuietInFlush
<1>1. ASSUME BuildInv, [Next]_vars, <<graph, used>>' # <<graph, used>>
      PROVE  ~flushed /\ \A p \in Procs : pc[p] # "flush"
  <2>1. PICK p \in Procs : pc[p] \in MemoryPc
    <3>1. PICK p \in Procs : Participate(p)
      BY <1>1 DEF Next, Over, vars, graph, BuildBegin, BuildEnd, BuildAborts, Fails
    <3>2. pc[p] \in MemoryPc
      BY <1>1, <3>1 DEF Participate, graph, NextRow, ScanDone, FlushLockShared, Allocate,
         FlushLockExclusive, Flush, InsertOnDisk, Count, InsertInMemory, PassEntryWait,
         EntryLockShared, EntryWaitExclusive, EntryLockExclusive, FindNeighbors, AddDuplicate,
         AddElement, CopyNeighbors, ConnectNeighbor, LayerConnected, SetEntryPoint, ReleaseLocks,
         MemoryPc
    <3>3. QED
      BY <3>2
  <2>2. flushLock[p] = "share"
    BY <1>1, <2>1 DEF BuildInv, LockInv
  <2>3. ~flushed /\ \A q \in Procs : flushLock[q] # "exclusive"
    BY <1>1, <2>2 DEF BuildInv, LockInv
  <2>4. QED
    BY <1>1, <2>3 DEF BuildInv, LockInv
<1>2. BuildInv /\ [Next]_vars =>
        [<<graph, used>>' # <<graph, used>> => ~flushed /\ \A p \in Procs : pc[p] # "flush"]_vars
  BY <1>1
<1>3. QED
  BY <1>2, BuildInvariant, PTL DEF Spec, GraphQuietInFlush

\* A step of the build indexes one more row, ends the build as IndexBuild allows, or
\* changes nothing that IndexBuild sees.
LEMMA StepRefines ==
  ASSUME BuildInv, [Next]_vars
  PROVE  [Result!Next]_(Result!vars)
<1> DEFINE st == IF status = "starting" THEN "building" ELSE status
<1>1. CASE BuildBegin
  <2>1. Indexed' = Indexed /\ st' = st
    BY <1>1, BuildBeginInv DEF BuildBegin
  <2>2. QED
    BY <2>1 DEF Result!vars
<1>2. CASE BuildEnd
  <2>1. Indexed = Indexable /\ Indexed' = Indexed /\ st = "building" /\ st' = "done"
    BY <1>2, BuildEndInv DEF BuildEnd
  <2>2. QED
    BY <2>1 DEF Result!Next, Result!Succeed
<1>3. CASE BuildAborts
  <2>1. Indexed' = Indexed /\ st = "building" /\ st' = "failed"
    BY <1>3, AbortsInv DEF BuildAborts
  <2>2. QED
    BY <2>1 DEF Result!Next, Result!Fail
<1>4. CASE UNCHANGED vars
  <2>1. Indexed' = Indexed /\ st' = st
    BY <1>4, AbortsInv DEF vars
  <2>2. QED
    BY <2>1 DEF Result!vars
<1>5. ASSUME NEW p \in Procs, Participate(p)
      PROVE  [Result!Next]_(Result!vars)
  <2>1. Grows /\ st = "building" /\ st' = st
    BY <1>5, ParticipateInv
  <2>2. CASE Indexed' = Indexed
    BY <2>1, <2>2 DEF Result!vars
  <2>3. CASE \E r \in Indexable : r \notin Indexed /\ Indexed' = Indexed \union {r}
    BY <2>1, <2>3 DEF Result!Next, Result!IndexRow
  <2>4. QED
    BY <2>1, <2>2, <2>3 DEF Grows
<1>6. ASSUME NEW p \in Procs, Fails(p)
      PROVE  [Result!Next]_(Result!vars)
  <2>1. Indexed' = Indexed /\ st' = st
    BY <1>6, FailsInv DEF Fails
  <2>2. QED
    BY <2>1 DEF Result!vars
<1>7. QED
  BY <1>1, <1>2, <1>3, <1>4, <1>5, <1>6 DEF Next, Over

\* CREATE INDEX does what IndexBuild promises, with any number of workers, wherever
\* one of them fails and whenever the memory runs out.
THEOREM BuildRefinement == Spec => ImplementsIndexBuild
<1>1. Init => Result!Init
  BY InitInv DEF Init, Result!Init
<1>2. BuildInv /\ [Next]_vars => [Result!Next]_(Result!vars)
  BY StepRefines
<1>3. QED
  BY <1>1, <1>2, BuildInvariant, PTL DEF Spec, Result!Spec, ImplementsIndexBuild
=============================================================================
