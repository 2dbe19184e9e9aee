-------------------------- MODULE HnswGraphProofs --------------------------
(***************************************************************************)
(* More proofs about HnswBuild, from BuildInv: that the build counts what  *)
(* it indexes, that it stays within its memory, and that the neighbor      *)
(* arrays it makes can be written as tuples.                               *)
(***************************************************************************)
EXTENDS HnswBuildProofs

-----------------------------------------------------------------------------
(***************************************************************************)
(* graph->indtuples.                                                       *)
(***************************************************************************)

\* The rows a participant has let go of.
Counted == {r \in Indexable \ rest : \A p \in Procs : pc[p] \in RowPc => Row(p) # r}

\* They are counted, and when the build has succeeded they are all.
CountOK ==
  /\ NoFailure => IsFiniteSet(Counted) /\ indtuples = Cardinality(Counted)
  /\ status = "done" => NoFailure /\ rest = {} /\ \A p \in Procs : pc[p] \notin RowPc

\* A participant that has a row goes on with it.
Stays(p) ==
  /\ UNCHANGED <<status, parts, rest, indtuples>>
  /\ pc[p] \in RowPc /\ pc'[p] \in RowPc
  /\ \A q \in Procs : Row(q)' = Row(q) /\ (q # p => pc'[q] = pc[q] /\ work'[q] = work[q])

LEMMA StaysMove ==
  ASSUME BuildTypeOK, NEW p \in Procs, UNCHANGED <<status, parts, rest, indtuples, work>>,
         NEW x \in RowPc, NEW y \in RowPc, pc[p] = x, Move(p, y)
  PROVE  Stays(p)
  BY DEF Stays, Move, BuildTypeOK, Row

LEMMA RowSteps ==
  /\ MemoryPc \subseteq RowPc
  /\ {"flushlock", "flushlockx", "flush", "ondisk", "count", "alloc", "wait", "entry", "waitx",
      "entryx", "search", "dup", "copy", "connect", "setentry", "release"} = RowPc
  /\ "scan" \notin RowPc /\ "out" \notin RowPc /\ "finished" \notin RowPc /\ "failed" \notin RowPc
  BY DEF MemoryPc, RowPc, PendingPc, ConnectPc

\* Every step of a participant but taking a row, counting it and ending the scan.
RowStep(p) ==
  \/ FlushLockShared(p) \/ Allocate(p) \/ FlushLockExclusive(p) \/ Flush(p)
  \/ InsertInMemory(p) \/ InsertOnDisk(p)

LEMMA StartStays ==
  ASSUME BuildTypeOK, NEW p \in Procs, UNCHANGED <<status, parts, rest, indtuples>>,
         pc[p] \in {"entry", "entryx"}, StartSearch(p, entry)
  PROVE  Stays(p)
<1>1. PICK l : work' = [work EXCEPT ![p].ep = entry, ![p].lc = l]
  BY Zenon DEF StartSearch
<1>2. PICK y \in {"dup", "search"} : Move(p, y)
  BY Zenon DEF StartSearch
<1>3. work[p] \in Work /\ work \in [Procs -> Work] /\ pc \in [Procs -> Pc]
  BY DEF BuildTypeOK
<1>4. work'[p].row = work[p].row /\ \A q \in Procs : q # p => work'[q] = work[q]
  BY <1>1, <1>3 DEF Work
<1>5. y \in RowPc /\ pc[p] \in RowPc
  BY RowSteps
<1>6. pc'[p] = y /\ \A q \in Procs : q # p => pc'[q] = pc[q]
  BY <1>2, <1>3 DEF Move
<1>7. QED
  BY <1>4, <1>5, <1>6 DEF Stays, Row

LEMMA WorkStays ==
  ASSUME BuildTypeOK, NEW p \in Procs, UNCHANGED <<status, parts, rest, indtuples>>,
         pc[p] \in RowPc, UNCHANGED pc \/ \E y \in RowPc : Move(p, y),
         \/ UNCHANGED work
         \/ \E l : work' = [work EXCEPT ![p].lc = l]
         \/ \E t : work' = [work EXCEPT ![p].todo = t]
         \/ \E l, t : work' = [work EXCEPT ![p].lc = l, ![p].todo = t]
  PROVE  Stays(p)
<1>1. work[p] \in Work /\ work \in [Procs -> Work] /\ pc \in [Procs -> Pc]
  BY DEF BuildTypeOK
<1>2. pc'[p] \in RowPc /\ \A q \in Procs : q # p => pc'[q] = pc[q]
  BY <1>1 DEF Move
<1>3. work'[p].row = work[p].row /\ \A q \in Procs : q # p => work'[q] = work[q]
  <2>1. ASSUME NEW l, work' = [work EXCEPT ![p].lc = l]
        PROVE  work'[p].row = work[p].row /\ \A q \in Procs : q # p => work'[q] = work[q]
    BY <1>1, <2>1 DEF Work
  <2>2. ASSUME NEW t, work' = [work EXCEPT ![p].todo = t]
        PROVE  work'[p].row = work[p].row /\ \A q \in Procs : q # p => work'[q] = work[q]
    BY <1>1, <2>2 DEF Work
  <2>3. ASSUME NEW l, NEW t, work' = [work EXCEPT ![p].lc = l, ![p].todo = t]
        PROVE  work'[p].row = work[p].row /\ \A q \in Procs : q # p => work'[q] = work[q]
    BY <1>1, <2>3 DEF Work
  <2>4. QED
    BY <2>1, <2>2, <2>3, Zenon
<1>4. QED
  BY <1>2, <1>3 DEF Stays, Row

LEMMA RowStepStays ==
  ASSUME BuildTypeOK, NEW p \in Procs, RowStep(p)
  PROVE  Stays(p)
<1>1. CASE FlushLockShared(p)
  <2>1. UNCHANGED <<status, parts, rest, indtuples>>
    BY <1>1 DEF FlushLockShared
  <2>2. UNCHANGED work /\ pc[p] \in RowPc /\ \E y \in RowPc : Move(p, y)
    BY <1>1, RowSteps DEF FlushLockShared
  <2>3. QED
    BY <2>1, <2>2, StaysMove
<1>2. CASE Allocate(p)
  <2>1. UNCHANGED <<status, parts, rest, indtuples>>
    BY <1>2 DEF Allocate
  <2>2. UNCHANGED work /\ pc[p] \in RowPc /\ \E y \in RowPc : Move(p, y)
    BY <1>2, RowSteps DEF Allocate
  <2>3. QED
    BY <2>1, <2>2, StaysMove
<1>3. CASE FlushLockExclusive(p)
  <2>1. UNCHANGED <<status, parts, rest, indtuples>>
    BY <1>3 DEF FlushLockExclusive
  <2>2. UNCHANGED work /\ pc[p] \in RowPc /\ \E y \in RowPc : Move(p, y)
    BY <1>3, RowSteps DEF FlushLockExclusive
  <2>3. QED
    BY <2>1, <2>2, StaysMove
<1>4. CASE Flush(p)
  <2>1. UNCHANGED <<status, parts, rest, indtuples>>
    BY <1>4 DEF Flush
  <2>2. UNCHANGED work /\ pc[p] \in RowPc /\ \E y \in RowPc : Move(p, y)
    BY <1>4, RowSteps DEF Flush
  <2>3. QED
    BY <2>1, <2>2, StaysMove
<1>5. CASE InsertOnDisk(p)
  <2>1. UNCHANGED <<status, parts, rest, indtuples>>
    BY <1>5 DEF InsertOnDisk
  <2>2. UNCHANGED work /\ pc[p] \in RowPc /\ \E y \in RowPc : Move(p, y)
    BY <1>5, RowSteps DEF InsertOnDisk
  <2>3. QED
    BY <2>1, <2>2, StaysMove
<1>6. CASE PassEntryWait(p)
  <2>1. UNCHANGED <<status, parts, rest, indtuples>>
    BY <1>6 DEF PassEntryWait
  <2>2. UNCHANGED work /\ pc[p] \in RowPc /\ \E y \in RowPc : Move(p, y)
    BY <1>6, RowSteps DEF PassEntryWait
  <2>3. QED
    BY <2>1, <2>2, StaysMove
<1>7. CASE EntryLockShared(p)
  <2>1. UNCHANGED <<status, parts, rest, indtuples>>
    BY <1>7 DEF EntryLockShared
  <2>2. CASE UNCHANGED work /\ Move(p, "waitx")
    BY <1>7, <2>1, <2>2, RowSteps, StaysMove DEF EntryLockShared
  <2>3. CASE StartSearch(p, entry)
    BY <1>7, <2>1, <2>3, StartStays DEF EntryLockShared
  <2>4. QED
    BY <1>7, <2>2, <2>3 DEF EntryLockShared
<1>8. CASE EntryWaitExclusive(p)
  <2>1. UNCHANGED <<status, parts, rest, indtuples>>
    BY <1>8 DEF EntryWaitExclusive
  <2>2. UNCHANGED work /\ pc[p] \in RowPc /\ \E y \in RowPc : Move(p, y)
    BY <1>8, RowSteps DEF EntryWaitExclusive
  <2>3. QED
    BY <2>1, <2>2, StaysMove
<1>9. CASE EntryLockExclusive(p)
  <2>1. UNCHANGED <<status, parts, rest, indtuples>>
    BY <1>9 DEF EntryLockExclusive
  <2>2. QED
    BY <1>9, <2>1, StartStays DEF EntryLockExclusive
<1>10. CASE FindNeighbors(p)
  <2>1. UNCHANGED <<status, parts, rest, indtuples>>
    BY <1>10 DEF FindNeighbors
  <2>2. pc[p] \in RowPc /\ (UNCHANGED pc \/ \E y \in RowPc : Move(p, y))
    BY <1>10, RowSteps DEF FindNeighbors
  <2>3. \/ UNCHANGED work
        \/ \E l : work' = [work EXCEPT ![p].lc = l]
        \/ \E t : work' = [work EXCEPT ![p].todo = t]
        \/ \E l, t : work' = [work EXCEPT ![p].lc = l, ![p].todo = t]
    BY <1>10, Zenon DEF FindNeighbors
  <2>4. QED
    BY <2>1, <2>2, <2>3, WorkStays
<1>11. CASE AddDuplicate(p)
  <2>1. UNCHANGED <<status, parts, rest, indtuples>>
    BY <1>11 DEF AddDuplicate
  <2>2. pc[p] \in RowPc /\ (UNCHANGED pc \/ \E y \in RowPc : Move(p, y))
    BY <1>11, RowSteps DEF AddDuplicate
  <2>3. \/ UNCHANGED work
        \/ \E l : work' = [work EXCEPT ![p].lc = l]
        \/ \E t : work' = [work EXCEPT ![p].todo = t]
        \/ \E l, t : work' = [work EXCEPT ![p].lc = l, ![p].todo = t]
    BY <1>11, Zenon DEF AddDuplicate
  <2>4. QED
    BY <2>1, <2>2, <2>3, WorkStays
<1>12. CASE AddElement(p)
  <2>1. UNCHANGED <<status, parts, rest, indtuples>>
    BY <1>12 DEF AddElement
  <2>2. pc[p] \in RowPc /\ (UNCHANGED pc \/ \E y \in RowPc : Move(p, y))
    BY <1>12, RowSteps DEF AddElement
  <2>3. \/ UNCHANGED work
        \/ \E l : work' = [work EXCEPT ![p].lc = l]
        \/ \E t : work' = [work EXCEPT ![p].todo = t]
        \/ \E l, t : work' = [work EXCEPT ![p].lc = l, ![p].todo = t]
    BY <1>12, Zenon DEF AddElement
  <2>4. QED
    BY <2>1, <2>2, <2>3, WorkStays
<1>13. CASE CopyNeighbors(p)
  <2>1. UNCHANGED <<status, parts, rest, indtuples>>
    BY <1>13 DEF CopyNeighbors
  <2>2. pc[p] \in RowPc /\ (UNCHANGED pc \/ \E y \in RowPc : Move(p, y))
    BY <1>13, RowSteps DEF CopyNeighbors
  <2>3. \/ UNCHANGED work
        \/ \E l : work' = [work EXCEPT ![p].lc = l]
        \/ \E t : work' = [work EXCEPT ![p].todo = t]
        \/ \E l, t : work' = [work EXCEPT ![p].lc = l, ![p].todo = t]
    BY <1>13, Zenon DEF CopyNeighbors
  <2>4. QED
    BY <2>1, <2>2, <2>3, WorkStays
<1>14. CASE ConnectNeighbor(p)
  <2>1. UNCHANGED <<status, parts, rest, indtuples>>
    BY <1>14 DEF ConnectNeighbor
  <2>2. pc[p] \in RowPc /\ (UNCHANGED pc \/ \E y \in RowPc : Move(p, y))
    BY <1>14, RowSteps DEF ConnectNeighbor
  <2>3. \/ UNCHANGED work
        \/ \E l : work' = [work EXCEPT ![p].lc = l]
        \/ \E t : work' = [work EXCEPT ![p].todo = t]
        \/ \E l, t : work' = [work EXCEPT ![p].lc = l, ![p].todo = t]
    BY <1>14, Zenon DEF ConnectNeighbor
  <2>4. QED
    BY <2>1, <2>2, <2>3, WorkStays
<1>15. CASE LayerConnected(p)
  <2>1. UNCHANGED <<status, parts, rest, indtuples>>
    BY <1>15 DEF LayerConnected
  <2>2. pc[p] \in RowPc /\ (UNCHANGED pc \/ \E y \in RowPc : Move(p, y))
    BY <1>15, RowSteps DEF LayerConnected
  <2>3. \/ UNCHANGED work
        \/ \E l : work' = [work EXCEPT ![p].lc = l]
        \/ \E t : work' = [work EXCEPT ![p].todo = t]
        \/ \E l, t : work' = [work EXCEPT ![p].lc = l, ![p].todo = t]
    BY <1>15, Zenon DEF LayerConnected
  <2>4. QED
    BY <2>1, <2>2, <2>3, WorkStays
<1>16. CASE SetEntryPoint(p)
  <2>1. UNCHANGED <<status, parts, rest, indtuples>>
    BY <1>16 DEF SetEntryPoint
  <2>2. UNCHANGED work /\ pc[p] \in RowPc /\ \E y \in RowPc : Move(p, y)
    BY <1>16, RowSteps DEF SetEntryPoint
  <2>3. QED
    BY <2>1, <2>2, StaysMove
<1>17. CASE ReleaseLocks(p)
  <2>1. UNCHANGED <<status, parts, rest, indtuples>>
    BY <1>17 DEF ReleaseLocks
  <2>2. UNCHANGED work /\ pc[p] \in RowPc /\ \E y \in RowPc : Move(p, y)
    BY <1>17, RowSteps DEF ReleaseLocks
  <2>3. QED
    BY <2>1, <2>2, StaysMove
<1>18. QED
  BY <1>1, <1>2, <1>3, <1>4, <1>5, <1>6, <1>7, <1>8, <1>9, <1>10, <1>11, <1>12, <1>13, <1>14, <1>15, <1>16, <1>17 DEF RowStep, InsertInMemory

LEMMA CountStays ==
  ASSUME CountOK, status = "building", NEW p \in Procs, Stays(p)
  PROVE  CountOK'
<1>1. Counted' = Counted
  BY DEF Counted, Stays
<1>2. NoFailure' => NoFailure
  BY RowSteps DEF NoFailure, Stays
<1>3. QED
  BY <1>1, <1>2 DEF CountOK, Stays

LEMMA CountNextRow ==
  ASSUME BuildInv, CountOK, status = "building", NEW p \in Procs, NextRow(p)
  PROVE  CountOK'
<1>1. UNCHANGED <<status, indtuples>> /\ pc[p] = "scan"
  BY DEF NextRow
<1>2. PICK r \in rest :
        /\ rest' = rest \ {r}
        /\ IF ValueOf[r] = NullValue
             THEN UNCHANGED <<work, pc>>
             ELSE work' = [work EXCEPT ![p].row = r] /\ Move(p, "flushlock")
  BY Zenon DEF NextRow
<1>3. Counted' = Counted /\ (NoFailure' => NoFailure)
  <2>1. CASE ValueOf[r] = NullValue
    <3>1. UNCHANGED <<work, pc>> /\ Indexable \ rest' = Indexable \ rest
      BY <1>2, <2>1 DEF Indexable
    <3>2. QED
      BY <3>1 DEF Counted, Row, NoFailure
  <2>2. CASE ValueOf[r] # NullValue
    <3>1. work' = [work EXCEPT ![p].row = r] /\ pc' = [pc EXCEPT ![p] = "flushlock"]
      BY <1>2, <2>2 DEF Move
    <3>2. work[p] \in Work /\ work \in [Procs -> Work] /\ pc \in [Procs -> Pc]
      BY DEF BuildInv, BuildTypeOK
    <3>3. /\ Row(p)' = r /\ pc'[p] \in RowPc /\ pc[p] \notin RowPc
          /\ \A q \in Procs : q # p => Row(q)' = Row(q) /\ pc'[q] = pc[q]
      BY <1>1, <3>1, <3>2, RowSteps DEF Row, Work
    <3>4. Counted' = Counted
      BY <1>2, <3>3 DEF Counted
    <3>5. NoFailure' => NoFailure
      BY <1>1, <3>3 DEF NoFailure
    <3>6. QED
      BY <3>4, <3>5
  <2>3. QED
    BY <2>1, <2>2
<1>4. QED
  BY <1>1, <1>3 DEF CountOK

LEMMA CountScanDone ==
  ASSUME BuildInv, CountOK, status = "building", NEW p \in Procs, ScanDone(p)
  PROVE  CountOK'
<1>1. UNCHANGED <<status, rest, work, indtuples>> /\ pc[p] = "scan" /\ pc' = [pc EXCEPT ![p] = "finished"]
  BY DEF ScanDone, Move
<1>2. \A q \in Procs : q # p => pc'[q] = pc[q]
  BY <1>1 DEF BuildInv, BuildTypeOK
<1>3. pc'[p] = "finished"
  BY <1>1 DEF BuildInv, BuildTypeOK
<1>4. Counted' = Counted
  BY <1>1, <1>2, <1>3, RowSteps DEF Counted, Row
<1>5. NoFailure' => NoFailure
  BY <1>1, <1>2 DEF NoFailure
<1>6. QED
  BY <1>1, <1>4, <1>5 DEF CountOK

\* The row counted was nobody else's and not counted before.
LEMMA CountCount ==
  ASSUME BuildInv, CountOK, status = "building", NEW p \in Procs, Count(p)
  PROVE  CountOK'
<1>1. /\ UNCHANGED <<status, rest>> /\ pc[p] = "count" /\ pc' = [pc EXCEPT ![p] = "scan"]
      /\ indtuples' = indtuples + 1 /\ work' = [work EXCEPT ![p] = NoWork]
  BY DEF Count, Move
<1>2. pc'[p] = "scan" /\ \A q \in Procs : q # p => pc'[q] = pc[q] /\ Row(q)' = Row(q)
  BY <1>1 DEF BuildInv, BuildTypeOK, Row
<1>3. pc[p] \in RowPc /\ pc'[p] \notin RowPc
  BY <1>1, <1>2, RowSteps
<1>4. Row(p) \in Indexable \ rest /\ \A q \in Procs : q # p /\ pc[q] \in RowPc => Row(q) # Row(p)
  BY <1>3 DEF BuildInv, OwnerInv
<1>5. Counted' = Counted \union {Row(p)} /\ Row(p) \notin Counted
  BY <1>1, <1>2, <1>3, <1>4 DEF Counted
<1>6. NoFailure' => NoFailure
  BY <1>1, <1>2 DEF NoFailure
<1>7. ASSUME NoFailure' PROVE IsFiniteSet(Counted') /\ indtuples' = Cardinality(Counted')
  <2>1. IsFiniteSet(Counted) /\ indtuples = Cardinality(Counted)
    BY <1>6, <1>7 DEF CountOK
  <2>2. QED
    BY <1>1, <1>5, <2>1, FS_AddElement
<1>8. QED
  BY <1>1, <1>7 DEF CountOK

LEMMA CountFails ==
  ASSUME BuildInv, CountOK, NEW p \in Procs, Fails(p)
  PROVE  CountOK'
<1>1. ~NoFailure'
  BY DEF Fails, Move, NoFailure, BuildInv, BuildTypeOK
<1>2. status' # "done"
  BY DEF Fails
<1>3. QED
  BY <1>1, <1>2 DEF CountOK

LEMMA CountBegin ==
  ASSUME BuildInv, CountOK, BuildBegin
  PROVE  CountOK'
<1>1. UNCHANGED <<rest, work, indtuples>> /\ status' = "building" /\ status = "starting"
  BY DEF BuildBegin
<1>2. \A q \in Procs : pc'[q] \in {"scan", "out"}
  BY DEF BuildBegin
<1>3. \A q \in Procs : pc[q] = "out"
  BY <1>1 DEF BuildInv, ScanInv
<1>4. Counted' = Counted
  BY <1>1, <1>2, <1>3, RowSteps DEF Counted
<1>5. NoFailure
  BY <1>3 DEF NoFailure
<1>6. QED
  BY <1>1, <1>4, <1>5 DEF CountOK

\* The leader ends the build when all have finished.
LEMMA CountEnd ==
  ASSUME BuildInv, CountOK, BuildEnd
  PROVE  CountOK'
<1>1. UNCHANGED <<rest, pc, work, indtuples>>
  BY DEF BuildEnd
<1>2. Counted' = Counted /\ NoFailure' = NoFailure
  BY <1>1 DEF Counted, NoFailure, Row
<1>3. (\A p \in Procs : pc[p] \in {"out", "finished"}) /\ rest = {}
  BY AllFinished
<1>4. NoFailure /\ \A p \in Procs : pc[p] \notin RowPc
  BY <1>3, RowSteps DEF NoFailure
<1>5. QED
  BY <1>1, <1>2, <1>3, <1>4 DEF CountOK

LEMMA CountNext ==
  ASSUME BuildInv, CountOK, [Next]_vars
  PROVE  CountOK'
<1>1. CASE BuildBegin BY <1>1, CountBegin
<1>2. CASE BuildEnd   BY <1>2, CountEnd
<1>3. CASE BuildAborts
  <2>1. UNCHANGED <<rest, pc, work, indtuples>> /\ status' = "failed"
    BY <1>3 DEF BuildAborts
  <2>2. Counted' = Counted /\ NoFailure' = NoFailure
    BY <2>1 DEF Counted, NoFailure, Row
  <2>3. QED
    BY <2>1, <2>2 DEF CountOK
<1>4. CASE UNCHANGED vars
  <2>1. UNCHANGED <<status, rest, pc, work, indtuples>>
    BY <1>4 DEF vars
  <2>2. Counted' = Counted /\ NoFailure' = NoFailure
    BY <2>1 DEF Counted, NoFailure, Row
  <2>3. QED
    BY <2>1, <2>2 DEF CountOK
<1>5. CASE Over BY <1>4, <1>5 DEF Over
<1>6. ASSUME NEW p \in Procs, Participate(p) PROVE CountOK'
  <2>1. status = "building" /\ BuildTypeOK
    BY <1>6 DEF Participate, BuildInv
  <2>2. CASE NextRow(p)  BY <2>1, <2>2, CountNextRow
  <2>3. CASE ScanDone(p) BY <2>1, <2>3, CountScanDone
  <2>4. CASE Count(p)    BY <2>1, <2>4, CountCount
  <2>5. CASE RowStep(p)  BY <2>1, <2>5, RowStepStays, CountStays
  <2>6. QED
    BY <1>6, <2>2, <2>3, <2>4, <2>5 DEF Participate, RowStep
<1>7. ASSUME NEW p \in Procs, Fails(p) PROVE CountOK'
  BY <1>7, CountFails
<1>8. QED
  BY <1>1, <1>2, <1>3, <1>4, <1>5, <1>6, <1>7 DEF Next

\* A build that succeeds has counted every row it indexed, in BuildCallback, whoever
\* inserted it and on whichever side of the flush.
THEOREM CountExactCorrect == Spec => []CountExact
<1>1. Init => CountOK
  <2> SUFFICES ASSUME Init PROVE CountOK
    OBVIOUS
  <2>1. Counted = {}
    BY DEF Init, Counted, Indexable
  <2>2. QED
    BY <2>1, FS_EmptySet DEF Init, CountOK
<1>2. BuildInv /\ CountOK /\ [Next]_vars => CountOK'
  BY CountNext
<1>3. CountOK => CountExact
  <2> SUFFICES ASSUME CountOK, status = "done" PROVE indtuples = Cardinality(Indexable)
    BY DEF CountExact
  <2>1. Counted = Indexable
    BY DEF CountOK, Counted
  <2>2. QED
    BY <2>1 DEF CountOK
<1>4. QED
  BY <1>1, <1>2, <1>3, BuildInvariant, PTL DEF Spec
-----------------------------------------------------------------------------
(***************************************************************************)
(* graph->memoryUsed.                                                      *)
(***************************************************************************)
MemoryOK ==
  /\ status = "starting" => used = 0
  /\ parts = {Leader} \/ used <= MemoryTotal + MaxLevel

LEMMA TotalFact == MemoryTotal \in Int
  BY BuildBounds DEF MemoryTotal, Area

LEMMA MemorySame ==
  ASSUME MemoryOK, UNCHANGED <<parts, used>>, status' # "starting" \/ UNCHANGED status
  PROVE  MemoryOK'
<1>1. MemoryTotal' = MemoryTotal
  BY DEF MemoryTotal
<1>2. QED
  BY <1>1 DEF MemoryOK

\* Memory was left before the last element, which takes MaxLevel + 1 at most.
LEMMA MemoryAllocate ==
  ASSUME BuildInv, MemoryOK, status = "building", NEW p \in Procs, Allocate(p)
  PROVE  MemoryOK'
<1>1. UNCHANGED <<parts, status>>
  BY DEF Allocate
<1>2. CASE UNCHANGED used
  BY <1>1, <1>2, MemorySame
<1>3. CASE used < MemoryTotal /\ \E l \in Levels : used' = used + ElementSize(l)
  <2>1. PICK l \in Levels : used' = used + ElementSize(l)
    BY <1>3
  <2>2. l \in Int /\ l <= MaxLevel /\ used \in Nat /\ MaxLevel \in Nat /\ MemoryTotal \in Int
    BY BuildBounds, TotalFact DEF Levels, BuildInv, BuildTypeOK
  <2>3. used' = used + (l + 1)
    BY <2>1 DEF ElementSize
  <2>4. MemoryTotal' = MemoryTotal
    BY <1>1 DEF MemoryTotal
  <2>5. used' <= MemoryTotal' + MaxLevel
    <3> DEFINE t == MemoryTotal
    <3> HIDE DEF t
    <3>1. used < t /\ t \in Int
      BY <1>3, <2>2 DEF t
    <3>2. used' <= t + MaxLevel
      BY <2>2, <2>3, <3>1
    <3>3. QED
      BY <2>4, <3>2 DEF t
  <2>6. QED
    BY <1>1, <2>5 DEF MemoryOK
<1>4. QED
  BY <1>2, <1>3 DEF Allocate

LEMMA MemoryNext ==
  ASSUME BuildInv, MemoryOK, [Next]_vars
  PROVE  MemoryOK'
<1>1. CASE BuildBegin
  <2>1. used' = 0 /\ status' = "building"
    BY <1>1 DEF BuildBegin, MemoryOK
  <2>2. parts' = {Leader} \/ 0 <= MemoryTotal' + MaxLevel
    <3>1. SUFFICES ASSUME parts' # {Leader} PROVE 0 <= MemoryTotal' + MaxLevel
      OBVIOUS
    <3>2. MemoryTotal' = (Area - Reserve) % SizeMod
      BY <3>1 DEF MemoryTotal
    <3>3. Area - Reserve \in Int /\ SizeMod \in Nat \ {0} /\ MaxLevel \in Nat
      BY BuildBounds DEF Area
    <3> DEFINE t == (Area - Reserve) % SizeMod
    <3>4. t \in Int /\ t >= 0
      BY <3>3
    <3> HIDE DEF t
    <3>5. 0 <= t + MaxLevel
      BY <3>3, <3>4
    <3>6. QED
      BY <3>2, <3>5 DEF t
  <2>3. QED
    BY <2>1, <2>2 DEF MemoryOK
<1>2. CASE BuildEnd
  BY <1>2, MemorySame DEF BuildEnd
<1>3. CASE BuildAborts
  BY <1>3, MemorySame DEF BuildAborts
<1>4. CASE UNCHANGED vars
  BY <1>4, MemorySame DEF vars
<1>5. CASE Over
  BY <1>4, <1>5 DEF Over
<1>6. ASSUME NEW p \in Procs, Fails(p) PROVE MemoryOK'
  BY <1>6, MemorySame DEF Fails
<1>7. ASSUME NEW p \in Procs, Participate(p) PROVE MemoryOK'
  <2>1. status = "building"
    BY <1>7 DEF Participate
  <2>2. CASE Allocate(p)
    BY <2>1, <2>2, MemoryAllocate
  <2>3. CASE NextRow(p)
    BY <2>3, MemorySame DEF NextRow
  <2>4. CASE ScanDone(p)
    BY <2>4, MemorySame DEF ScanDone
  <2>5. CASE FlushLockShared(p) \/ FlushLockExclusive(p)
    BY <2>5, MemorySame DEF FlushLockShared, FlushLockExclusive
  <2>6. CASE Flush(p) \/ InsertOnDisk(p) \/ Count(p)
    BY <2>6, MemorySame DEF Flush, InsertOnDisk, Count
  <2>7. CASE InsertInMemory(p)
    <3>1. UNCHANGED <<parts, used, status>>
      BY <2>7 DEF InsertInMemory, PassEntryWait, EntryLockShared, EntryWaitExclusive,
         EntryLockExclusive, FindNeighbors, AddDuplicate, AddElement, CopyNeighbors,
         ConnectNeighbor, LayerConnected, SetEntryPoint, ReleaseLocks
    <3>2. QED
      BY <3>1, MemorySame
  <2>8. QED
    BY <1>7, <2>2, <2>3, <2>4, <2>5, <2>6, <2>7 DEF Participate
<1>8. QED
  BY <1>1, <1>2, <1>3, <1>4, <1>5, <1>6, <1>7 DEF Next

\* The area is at least as large as what is kept back of it, so that the subtraction
\* does not wrap, and an element is not larger than that.
AreaFits == Reserve <= Area /\ Area < SizeMod /\ MaxLevel <= Reserve

\* With an area that large, the shared memory of a parallel build is never used beyond
\* its end, however many participants find memory left at the same time.
THEOREM MemoryInAreaCorrect == AreaFits => (Spec => []MemoryInArea)
<1> SUFFICES ASSUME AreaFits PROVE Spec => []MemoryInArea
  OBVIOUS
<1>1. Init => MemoryOK
  BY DEF Init, MemoryOK
<1>2. BuildInv /\ MemoryOK /\ [Next]_vars => MemoryOK'
  BY MemoryNext
<1>3. BuildInv /\ MemoryOK => MemoryInArea
  <2> SUFFICES ASSUME BuildInv, MemoryOK, parts # {Leader} PROVE used <= Area
    BY DEF MemoryInArea
  <2>1. used <= ((Area - Reserve) % SizeMod) + MaxLevel
    BY DEF MemoryOK, MemoryTotal
  <2>2. /\ Area \in Nat /\ Reserve \in Nat /\ SizeMod \in Nat \ {0} /\ MaxLevel \in Nat
        /\ used \in Nat
    BY BuildBounds DEF BuildInv, BuildTypeOK, Area
  <2> DEFINE a == Area
  <2> HIDE DEF a
  <2>3. /\ a \in Nat /\ Reserve <= a /\ a < SizeMod /\ MaxLevel <= Reserve
        /\ used <= ((a - Reserve) % SizeMod) + MaxLevel
    BY <2>1, <2>2 DEF a, AreaFits
  <2>4. (a - Reserve) % SizeMod = a - Reserve
    BY <2>2, <2>3
  <2>5. used <= a
    BY <2>2, <2>3, <2>4
  <2>6. QED
    BY <2>5 DEF a
<1>4. QED
  BY <1>1, <1>2, <1>3, BuildInvariant, PTL DEF Spec
-----------------------------------------------------------------------------
(***************************************************************************)
(* The neighbor arrays.                                                    *)
(***************************************************************************)
Named(s)    == {s[i] : i \in DOMAIN s}
Distinct(s) == \A i, j \in DOMAIN s : i # j => s[i] # s[j]
Links(e, lc) == elem[e].links[lc]

\* p's element is not in the list yet.
Unlisted(p) == pc[p] \in ElemPc \intersect PendingPc
\* p's element is in the list and nobody can find it.
AtTop(p) == pc[p] = "copy" /\ work[p].lc = elem[Row(p)].level

\* The elements whose arrays are in use.
Drafts == {Row(p) : p \in {q \in Procs : Unlisted(q)}}
Built  == listed \union Drafts

LinksFit(e) ==
  /\ IsFiniteSet(elem[e].heaptids) /\ Cardinality(elem[e].heaptids) <= HeapTidsMax
  /\ \A lc \in Levels :
       /\ Len(Links(e, lc)) <= IF lc <= elem[e].level THEN LayerM(lc) ELSE 0
       /\ \A f \in Named(Links(e, lc)) : f \in listed \ {e} /\ elem[f].level >= lc

LinksOnce(e) ==
  \A lc \in Levels : \A i, j \in DOMAIN Links(e, lc) :
    i # j /\ Links(e, lc)[i] = Links(e, lc)[j] => lc < elem[Links(e, lc)[i]].level

LayerOK(p) == pc[p] \in {"search", "copy", "connect"} => work[p].lc <= elem[Row(p)].level

NotEntry(p) == pc[p] \in ConnectPc => Row(p) # entry

TodoOK(p) == pc[p] = "connect" =>
  \A f \in Named(work[p].todo) : f \in listed \ {Row(p)} /\ elem[f].level >= work[p].lc

\* Nobody has added to the arrays of an element that nobody can find ...
ArraysOwn(p) == Unlisted(p) \/ AtTop(p) => \A lc \in Levels : Distinct(Links(Row(p), lc))

\* ... and nobody names it.
Unnamed(p) == AtTop(p) =>
  /\ \A e \in Built : \A lc \in Levels : Row(p) \notin Named(Links(e, lc))
  /\ \A q \in Procs : pc[q] = "connect" => Row(p) \notin Named(work[q].todo)

\* Connecting its top layer, an element is not in the arrays it will be added to.
TopOnce(p) == pc[p] = "connect" /\ work[p].lc = elem[Row(p)].level =>
  /\ Distinct(work[p].todo)
  /\ \A f \in Named(work[p].todo) : Row(p) \notin Named(Links(f, work[p].lc))

GraphOK ==
  /\ \A e \in Built : LinksFit(e) /\ LinksOnce(e)
  /\ \A p \in Procs : LayerOK(p) /\ NotEntry(p) /\ TodoOK(p) /\ ArraysOwn(p) /\ Unnamed(p) /\ TopOnce(p)

LEMMA LinksType ==
  ASSUME BuildTypeOK, NEW e \in Rows, NEW lc \in Levels
  PROVE  /\ Links(e, lc) \in Seq(Rows) /\ Len(Links(e, lc)) \in Nat
         /\ DOMAIN Links(e, lc) = 1..Len(Links(e, lc)) /\ Named(Links(e, lc)) \subseteq Rows
<1>1. elem[e] \in Element
  BY DEF BuildTypeOK
<1>2. Links(e, lc) \in Seq(Rows)
  BY <1>1 DEF Element, Links
<1> DEFINE s == Links(e, lc)
<1> HIDE DEF s
<1>3. s \in Seq(Rows)
  BY <1>2 DEF s
<1>4. Len(s) \in Nat /\ DOMAIN s = 1..Len(s) /\ Named(s) \subseteq Rows
  BY <1>3, LenProperties, ElementOfSeq DEF Named
<1>5. QED
  BY <1>2, <1>4 DEF s

LEMMA NamedEmpty == Named(<<>>) = {} /\ Distinct(<<>>) /\ Len(<<>>) = 0
  BY DEF Named, Distinct

LEMMA NamedSub ==
  ASSUME NEW S, NEW s \in Seq(S) PROVE Named(s) \subseteq S
  BY ElementOfSeq, LenProperties DEF Named

LEMMA NamedTail ==
  ASSUME NEW S, NEW s \in Seq(S), s # <<>>
  PROVE  /\ Head(s) \in Named(s) /\ Named(Tail(s)) \subseteq Named(s)
         /\ Distinct(s) => Distinct(Tail(s)) /\ Head(s) \notin Named(Tail(s))
<1>1. /\ Len(s) \in Nat /\ Len(s) > 0 /\ DOMAIN s = 1..Len(s)
  BY LenProperties, EmptySeq
<1>2. Tail(s) \in Seq(S) /\ Len(Tail(s)) = Len(s) - 1 /\ \A i \in 1..Len(Tail(s)) : Tail(s)[i] = s[i + 1]
  BY HeadTailProperties
<1>3. Head(s) = s[1]
  BY DEF Head
<1> DEFINE t == Tail(s)
<1> HIDE DEF t
<1>4. /\ DOMAIN t = 1..(Len(s) - 1) /\ \A i \in 1..(Len(s) - 1) : t[i] = s[i + 1]
  BY <1>2, LenProperties DEF t
<1>5. Head(s) \in Named(s) /\ Named(t) \subseteq Named(s)
  BY <1>1, <1>3, <1>4 DEF Named
<1>6. ASSUME Distinct(s) PROVE Distinct(t) /\ Head(s) \notin Named(t)
  <2>1. \A i \in DOMAIN t : i \in Int /\ i + 1 \in DOMAIN s /\ i + 1 # 1 /\ t[i] = s[i + 1]
    BY <1>1, <1>4
  <2>2. \A i, j \in DOMAIN t : i # j => i + 1 # j + 1
    BY <2>1
  <2>3. Distinct(t)
    BY <1>6, <2>1, <2>2 DEF Distinct
  <2>4. 1 \in DOMAIN s
    BY <1>1
  <2>5. Head(s) \notin Named(t)
    BY <1>3, <1>6, <2>1, <2>4 DEF Distinct, Named
  <2>6. QED
    BY <2>3, <2>5
<1>7. QED
  BY <1>5, <1>6 DEF t

\* What UpdateConnection makes of an array: it stays within the limit, names only e
\* besides those it named, and has nothing twice that it had not, but e if it had e.
LEMMA UpdateFact ==
  ASSUME NEW list \in Seq(Rows), NEW lm \in Nat, Len(list) <= lm, NEW e \in Rows,
         NEW l \in UpdateConnection(list, lm, e)
  PROVE  /\ l \in Seq(Rows) /\ Len(l) <= lm /\ Named(l) \subseteq Named(list) \union {e}
         /\ \A i, j \in DOMAIN l : i # j /\ l[i] = l[j] =>
              \/ /\ i \in DOMAIN list /\ j \in DOMAIN list
                 /\ l[i] = list[i] /\ l[j] = list[j]
              \/ l[i] = e /\ e \in Named(list)
<1>1. Len(list) \in Nat /\ DOMAIN list = 1..Len(list)
  BY LenProperties
<1>2. CASE Len(list) < lm
  <2>1. l = Append(list, e)
    BY <1>2 DEF UpdateConnection
  <2>2. /\ l \in Seq(Rows) /\ Len(l) = Len(list) + 1 /\ l[Len(list) + 1] = e
        /\ \A i \in 1..Len(list) : l[i] = list[i]
    BY <2>1, AppendProperties
  <2>3. DOMAIN l = 1..(Len(list) + 1)
    BY <2>2, LenProperties
  <2>4. \A i \in DOMAIN l : i \in DOMAIN list \/ i = Len(list) + 1
    BY <1>1, <2>3
  <2>5. Named(l) \subseteq Named(list) \union {e}
    BY <1>1, <2>2, <2>4 DEF Named
  <2>6. Len(l) <= lm
    BY <1>1, <1>2, <2>2
  <2>7. ASSUME NEW i \in DOMAIN l, NEW j \in DOMAIN l, i # j, l[i] = l[j]
        PROVE  \/ /\ i \in DOMAIN list /\ j \in DOMAIN list
                  /\ l[i] = list[i] /\ l[j] = list[j]
               \/ l[i] = e /\ e \in Named(list)
    BY <1>1, <2>2, <2>4, <2>7 DEF Named
  <2>8. QED
    BY <2>2, <2>5, <2>6, <2>7
<1>3. CASE ~(Len(list) < lm)
  <2>1. CASE l = list
    BY <2>1
  <2>2. CASE \E k \in 1..Len(list) : l = [list EXCEPT ![k] = e]
    <3>1. PICK k \in 1..Len(list) : l = [list EXCEPT ![k] = e]
      BY <2>2
    <3>2. l \in Seq(Rows) /\ Len(l) = Len(list) /\ l[k] = e /\ \A i \in 1..Len(list) : i # k => l[i] = list[i]
      BY <1>1, <3>1, ExceptSeq
    <3>3. DOMAIN l = DOMAIN list
      BY <1>1, <3>2, LenProperties
    <3>4. Named(l) \subseteq Named(list) \union {e}
      BY <1>1, <3>2, <3>3 DEF Named
    <3>5. ASSUME NEW i \in DOMAIN l, NEW j \in DOMAIN l, i # j, l[i] = l[j]
          PROVE  \/ /\ i \in DOMAIN list /\ j \in DOMAIN list
                    /\ l[i] = list[i] /\ l[j] = list[j]
                 \/ l[i] = e /\ e \in Named(list)
      BY <1>1, <3>2, <3>3, <3>5 DEF Named
    <3>6. QED
      BY <3>2, <3>4, <3>5
  <2>3. QED
    BY <1>3, <2>1, <2>2 DEF UpdateConnection
<1>4. QED
  BY <1>2, <1>3

\* A step that changes nothing of the graph: what it must show of p.
LEMMA GraphFrame ==
  ASSUME GraphOK, UNCHANGED <<elem, listed, entry>>, NEW p \in Procs,
         \A q \in Procs : q # p => pc'[q] = pc[q] /\ work'[q] = work[q],
         Unlisted(p)' => Unlisted(p) /\ Row(p)' = Row(p),
         LayerOK(p)', NotEntry(p)', TodoOK(p)', Unnamed(p)', TopOnce(p)', ArraysOwn(p)',
         pc'[p] = "connect" => \A q \in Procs : q # p /\ AtTop(q) => Row(q) \notin Named(work'[p].todo)
  PROVE  GraphOK'
<1>1. \A q \in Procs : q # p => Row(q)' = Row(q) /\ (Unlisted(q)' <=> Unlisted(q)) /\ (AtTop(q)' <=> AtTop(q))
  BY DEF Row, Unlisted, AtTop
<1>2. Built' \subseteq Built
  BY <1>1 DEF Built, Drafts
<1>3. \A e \in Built : LinksFit(e)' /\ LinksOnce(e)'
  BY DEF GraphOK, LinksFit, LinksOnce, Links
<1>4. ASSUME NEW q \in Procs, q # p
      PROVE  LayerOK(q)' /\ NotEntry(q)' /\ TodoOK(q)' /\ ArraysOwn(q)' /\ Unnamed(q)' /\ TopOnce(q)'
  <2>1. /\ pc'[q] = pc[q] /\ work'[q] = work[q] /\ Row(q)' = Row(q)
        /\ (Unlisted(q)' <=> Unlisted(q)) /\ (AtTop(q)' <=> AtTop(q))
    BY <1>1, <1>4
  <2>2. LayerOK(q) /\ NotEntry(q) /\ TodoOK(q) /\ ArraysOwn(q) /\ Unnamed(q) /\ TopOnce(q)
    BY DEF GraphOK
  <2>3. LayerOK(q)' /\ NotEntry(q)' /\ TodoOK(q)'
    BY <2>1, <2>2 DEF LayerOK, NotEntry, TodoOK
  <2>4. ArraysOwn(q)' /\ TopOnce(q)'
    BY <2>1, <2>2 DEF ArraysOwn, TopOnce, Links
  <2>5. ASSUME AtTop(q)
        PROVE  /\ \A e \in Built' : \A lc \in Levels : Row(q)' \notin Named(Links(e, lc)')
               /\ \A r \in Procs : pc'[r] = "connect" => Row(q)' \notin Named(work'[r].todo)
    <3>1. /\ \A e \in Built : \A lc \in Levels : Row(q) \notin Named(Links(e, lc))
          /\ \A r \in Procs : pc[r] = "connect" => Row(q) \notin Named(work[r].todo)
      BY <2>2, <2>5 DEF Unnamed
    <3>2. \A e, lc : Links(e, lc)' = Links(e, lc)
      BY DEF Links
    <3>3. \A r \in Procs : pc'[r] = "connect" => Row(q) \notin Named(work'[r].todo)
      BY <1>4, <2>5, <3>1
    <3>4. QED
      BY <1>2, <2>1, <3>1, <3>2, <3>3
  <2>6. Unnamed(q)'
    BY <2>1, <2>5 DEF Unnamed
  <2>7. QED
    BY <2>3, <2>4, <2>6
<1>5. QED
  BY <1>2, <1>3, <1>4 DEF GraphOK

\* A participant that is not at its element's arrays afterwards.
LEMMA GraphQuiet ==
  ASSUME GraphOK, UNCHANGED <<elem, listed, entry>>, NEW p \in Procs,
         \A q \in Procs : q # p => pc'[q] = pc[q] /\ work'[q] = work[q],
         pc'[p] \notin {"search", "copy", "connect", "setentry"},
         Unlisted(p)' => Unlisted(p) /\ Row(p)' = Row(p)
  PROVE  GraphOK'
<1>1. LayerOK(p)' /\ NotEntry(p)' /\ TodoOK(p)' /\ Unnamed(p)' /\ TopOnce(p)' /\ ~AtTop(p)'
  BY DEF LayerOK, NotEntry, TodoOK, Unnamed, TopOnce, AtTop, ConnectPc
<1>2. ArraysOwn(p)'
  BY <1>1 DEF ArraysOwn, GraphOK, Links
<1>3. QED
  BY <1>1, <1>2, GraphFrame

LEMMA GraphSame ==
  ASSUME GraphOK, UNCHANGED <<elem, listed, entry, pc, work>>
  PROVE  GraphOK'
<1>1. Built' = Built
  BY DEF Built, Drafts, Unlisted, Row
<1>2. \A e \in Built : LinksFit(e)' /\ LinksOnce(e)'
  BY DEF GraphOK, LinksFit, LinksOnce, Links
<1>3. ASSUME NEW p \in Procs
      PROVE  LayerOK(p)' /\ NotEntry(p)' /\ TodoOK(p)' /\ ArraysOwn(p)' /\ Unnamed(p)' /\ TopOnce(p)'
  BY <1>1 DEF GraphOK, LayerOK, NotEntry, TodoOK, ArraysOwn, Unnamed, TopOnce, AtTop, Unlisted, Row, Links
<1>4. QED
  BY <1>1, <1>2, <1>3 DEF GraphOK
-----------------------------------------------------------------------------
(***************************************************************************)
(* The steps that change nothing of the graph.                             *)
(***************************************************************************)
LEMMA MovedFact ==
  ASSUME BuildTypeOK, NEW p \in Procs, NEW y, Move(p, y)
  PROVE  pc'[p] = y /\ \A q \in Procs : q # p => pc'[q] = pc[q]
  BY DEF Move, BuildTypeOK

LEMMA UnlistedSteps ==
  /\ ElemPc \intersect PendingPc = {"wait", "entry", "waitx", "entryx", "search", "dup"}
  /\ \A q \in Procs : Unlisted(q) <=> pc[q] \in {"wait", "entry", "waitx", "entryx", "search", "dup"}
<1>1. ElemPc \intersect PendingPc = {"wait", "entry", "waitx", "entryx", "search", "dup"}
  BY DEF ElemPc, MemoryPc, PendingPc
<1>2. QED
  BY <1>1 DEF Unlisted

\* A row's element is in the list only when its owner has put it there.
LEMMA UnlistedFact ==
  ASSUME BuildInv, NEW p \in Procs, pc[p] \in (ElemPc \intersect PendingPc) \union {"alloc"}
  PROVE  Row(p) \in Rows /\ Row(p) \notin listed
<1>1. pc[p] \in PendingPc /\ pc[p] \in RowPc /\ pc[p] \in MemoryPc
  BY DEF ElemPc, MemoryPc, PendingPc, RowPc
<1>2. Row(p) \in Rows
  BY <1>1 DEF BuildInv, OwnerInv, Indexable
<1>3. ~flushed
  BY <1>1, InMemoryUnflushed
<1>4. QED
  BY <1>1, <1>2, <1>3, PendingUnlisted

LEMMA QuietGraph ==
  ASSUME BuildInv, GraphOK, NEW p \in Procs,
         \/ NextRow(p) \/ ScanDone(p) \/ FlushLockShared(p) \/ FlushLockExclusive(p) \/ Flush(p)
         \/ InsertOnDisk(p) \/ Count(p) \/ PassEntryWait(p) \/ EntryWaitExclusive(p)
         \/ ReleaseLocks(p) \/ Fails(p)
  PROVE  GraphOK'
<1>1. UNCHANGED <<elem, listed, entry>>
  BY DEF NextRow, ScanDone, FlushLockShared, FlushLockExclusive, Flush, InsertOnDisk, Count,
     PassEntryWait, EntryWaitExclusive, ReleaseLocks, Fails, graph
<1>2. \A q \in Procs : q # p => work'[q] = work[q]
  BY DEF BuildInv, BuildTypeOK, NextRow, ScanDone, FlushLockShared, FlushLockExclusive, Flush,
     InsertOnDisk, Count, PassEntryWait, EntryWaitExclusive, ReleaseLocks, Fails
<1>3. CASE NextRow(p) /\ UNCHANGED pc
  <2>1. pc'[p] = "scan" /\ \A q \in Procs : q # p => pc'[q] = pc[q]
    BY <1>3 DEF NextRow
  <2>2. ~Unlisted(p)'
    BY <2>1, UnlistedSteps DEF Unlisted
  <2>3. QED
    BY <1>1, <1>2, <2>1, <2>2, GraphQuiet
<1>4. CASE \E y \in {"flushlock", "finished", "ondisk", "alloc", "flush", "count", "scan", "failed"} : Move(p, y)
  <2>1. /\ pc'[p] \in {"flushlock", "finished", "ondisk", "alloc", "flush", "count", "scan", "failed"}
        /\ \A q \in Procs : q # p => pc'[q] = pc[q]
    BY <1>4, MovedFact DEF BuildInv
  <2>2. ~Unlisted(p)'
    BY <2>1, UnlistedSteps DEF Unlisted
  <2>3. QED
    BY <1>1, <1>2, <2>1, <2>2, GraphQuiet
<1>5. CASE PassEntryWait(p) \/ EntryWaitExclusive(p)
  <2>1. UNCHANGED work /\ pc[p] \in {"wait", "waitx"} /\ \E y \in {"entry", "entryx"} : Move(p, y)
    BY <1>5 DEF PassEntryWait, EntryWaitExclusive
  <2>2. pc'[p] \in {"entry", "entryx"} /\ \A q \in Procs : q # p => pc'[q] = pc[q]
    BY <2>1, MovedFact DEF BuildInv
  <2>3. Unlisted(p) /\ Row(p)' = Row(p)
    BY <2>1, UnlistedSteps DEF Row
  <2>4. QED
    BY <1>1, <1>2, <2>2, <2>3, GraphQuiet
<1>6. QED
  BY <1>3, <1>4, <1>5 DEF NextRow, ScanDone, FlushLockShared, FlushLockExclusive, Flush, InsertOnDisk,
     Count, ReleaseLocks, Fails

\* The search starts on a layer of the element.
LEMMA StartGraph ==
  ASSUME BuildInv, GraphOK, NEW p \in Procs, UNCHANGED <<elem, listed, entry>>,
         pc[p] \in {"entry", "entryx"}, StartSearch(p, entry)
  PROVE  GraphOK'
<1> DEFINE l == IF LevelOf(entry) > elem[Row(p)].level THEN elem[Row(p)].level
                ELSE IF entry = Nobody THEN 0 ELSE LevelOf(entry)
<1>1. work' = [work EXCEPT ![p].ep = entry, ![p].lc = l] /\ Move(p, IF entry = Nobody THEN "dup" ELSE "search")
  BY DEF StartSearch
<1>2. /\ work[p] \in Work /\ work \in [Procs -> Work]
  BY DEF BuildInv, BuildTypeOK
<1>3. Unlisted(p) /\ elem[Row(p)].level \in Levels
  BY UnlistedSteps DEF BuildInv, ElementInv, Unlisted
<1>4. LevelOf(entry) \in Int
  BY BuildBounds DEF BuildInv, BuildTypeOK, LevelOf, Element, Levels
<1>5. l <= elem[Row(p)].level
  BY <1>3, <1>4, BuildBounds DEF Levels, LevelOf
<1> HIDE DEF l
<1>6. /\ Row(p)' = Row(p) /\ work'[p].lc = l /\ \A q \in Procs : q # p => work'[q] = work[q]
  BY <1>1, <1>2 DEF Row, Work
<1>7. /\ pc'[p] \in {"dup", "search"} /\ \A q \in Procs : q # p => pc'[q] = pc[q]
  BY <1>1, MovedFact DEF BuildInv
<1>8. LayerOK(p)'
  BY <1>5, <1>6 DEF LayerOK
<1>9. NotEntry(p)' /\ TodoOK(p)' /\ Unnamed(p)' /\ TopOnce(p)' /\ ~AtTop(p)'
  BY <1>7 DEF NotEntry, TodoOK, Unnamed, TopOnce, AtTop, ConnectPc
<1>10. ArraysOwn(p)'
  BY <1>3, <1>6, <1>9 DEF ArraysOwn, GraphOK, Links
<1>11. QED
  BY <1>3, <1>6, <1>7, <1>8, <1>9, <1>10, GraphFrame

LEMMA EntryGraph ==
  ASSUME BuildInv, GraphOK, NEW p \in Procs, EntryLockShared(p) \/ EntryLockExclusive(p)
  PROVE  GraphOK'
<1>1. UNCHANGED <<elem, listed, entry>> /\ pc[p] \in {"entry", "entryx"}
  BY DEF EntryLockShared, EntryLockExclusive, graph
<1>2. CASE StartSearch(p, entry)
  BY <1>1, <1>2, StartGraph
<1>3. CASE UNCHANGED work /\ Move(p, "waitx")
  <2>1. pc'[p] = "waitx" /\ \A q \in Procs : q # p => pc'[q] = pc[q]
    BY <1>3, MovedFact DEF BuildInv
  <2>2. Unlisted(p) /\ Row(p)' = Row(p)
    BY <1>1, <1>3, UnlistedSteps DEF Row
  <2>3. QED
    BY <1>1, <1>3, <2>1, <2>2, GraphQuiet
<1>4. QED
  BY <1>2, <1>3 DEF EntryLockShared, EntryLockExclusive

\* The own neighbors of a layer may be connected to; on the top layer nobody added to
\* them, and none of them has the element yet.
LEMMA CopyGraph ==
  ASSUME BuildInv, GraphOK, NEW p \in Procs, CopyNeighbors(p)
  PROVE  GraphOK'
<1>1. /\ UNCHANGED <<elem, listed, entry>> /\ pc[p] = "copy" /\ Move(p, "connect")
      /\ work' = [work EXCEPT ![p].todo = Links(Row(p), work[p].lc)]
  BY DEF CopyNeighbors, graph, Links
<1> DEFINE e == Row(p)
           l == work[p].lc
           s == Links(e, l)
<1>2. work[p] \in Work /\ work \in [Procs -> Work] /\ l \in Levels
  BY DEF BuildInv, BuildTypeOK, Work
<1>3. e \in listed /\ e \in Rows /\ e \in Built
  BY <1>1 DEF BuildInv, BuildTypeOK, ElementInv, ConnectPc, Built
<1>4. LinksFit(e) /\ LayerOK(p) /\ NotEntry(p) /\ ArraysOwn(p) /\ Unnamed(p)
  BY <1>3 DEF GraphOK
<1>5. \A f \in Named(s) : f \in listed \ {e} /\ elem[f].level >= l
  BY <1>2, <1>4 DEF LinksFit
<1> HIDE DEF s
<1>6. /\ work'[p].todo = s /\ work'[p].lc = l /\ Row(p)' = e
      /\ \A q \in Procs : q # p => work'[q] = work[q]
  BY <1>1, <1>2 DEF s, Row, Work
<1>7. pc'[p] = "connect" /\ \A q \in Procs : q # p => pc'[q] = pc[q]
  BY <1>1, MovedFact DEF BuildInv
<1>8. LayerOK(p)' /\ NotEntry(p)' /\ ~Unlisted(p)' /\ ~AtTop(p)'
  BY <1>1, <1>4, <1>6, <1>7, UnlistedSteps DEF LayerOK, NotEntry, ConnectPc, Unlisted, AtTop
<1>9. TodoOK(p)'
  BY <1>1, <1>5, <1>6 DEF TodoOK
<1>10. ArraysOwn(p)' /\ Unnamed(p)'
  BY <1>8 DEF ArraysOwn, Unnamed
<1>11. TopOnce(p)'
  <2>1. SUFFICES ASSUME l = elem[e].level
                 PROVE  Distinct(s) /\ \A f \in Named(s) : e \notin Named(Links(f, l))
    BY <1>1, <1>6 DEF TopOnce, Links
  <2>2. AtTop(p)
    BY <1>1, <2>1 DEF AtTop
  <2>3. Distinct(s)
    BY <1>2, <1>4, <2>2 DEF ArraysOwn, s
  <2>4. \A f \in Built : e \notin Named(Links(f, l))
    BY <1>2, <1>4, <2>2 DEF Unnamed
  <2>5. QED
    BY <1>5, <2>3, <2>4 DEF Built
<1>12. \A q \in Procs : q # p /\ AtTop(q) => Row(q) \notin Named(s)
  BY <1>2, <1>3 DEF GraphOK, Unnamed, s
<1>13. QED
  BY <1>1, <1>6, <1>7, <1>8, <1>9, <1>10, <1>11, <1>12, GraphFrame

LEMMA LayerGraph ==
  ASSUME BuildInv, GraphOK, NEW p \in Procs, LayerConnected(p)
  PROVE  GraphOK'
<1>1. UNCHANGED <<elem, listed, entry>> /\ pc[p] = "connect"
  BY DEF LayerConnected, graph
<1>2. work[p] \in Work /\ work \in [Procs -> Work] /\ work[p].lc \in Levels
  BY DEF BuildInv, BuildTypeOK, Work
<1>3. LayerOK(p) /\ NotEntry(p)
  BY DEF GraphOK
<1>4. CASE work' = [work EXCEPT ![p].lc = work[p].lc - 1] /\ Move(p, "copy")
  <2>1. /\ work'[p].lc = work[p].lc - 1 /\ Row(p)' = Row(p)
        /\ \A q \in Procs : q # p => work'[q] = work[q]
    BY <1>2, <1>4 DEF Row, Work
  <2>2. pc'[p] = "copy" /\ \A q \in Procs : q # p => pc'[q] = pc[q]
    BY <1>4, MovedFact DEF BuildInv
  <2>3. work[p].lc \in Int /\ work[p].lc <= elem[Row(p)].level /\ elem[Row(p)].level \in Int
    <3>1. elem[Row(p)].level \in Levels
      BY <1>1 DEF BuildInv, ElementInv, ElemPc, MemoryPc
    <3>2. QED
      BY <1>1, <1>2, <1>3, <3>1, BuildBounds DEF Levels, LayerOK
  <2>4. work'[p].lc <= elem[Row(p)].level /\ work'[p].lc # elem[Row(p)].level
    BY <2>1, <2>3
  <2>5. LayerOK(p)' /\ NotEntry(p)' /\ ~Unlisted(p)' /\ ~AtTop(p)'
    BY <1>1, <1>3, <2>1, <2>2, <2>4, UnlistedSteps DEF LayerOK, NotEntry, ConnectPc, Unlisted, AtTop
  <2>6. TodoOK(p)' /\ ArraysOwn(p)' /\ Unnamed(p)' /\ TopOnce(p)'
    BY <2>2, <2>5 DEF TodoOK, ArraysOwn, Unnamed, TopOnce
  <2>7. QED
    BY <1>1, <2>1, <2>2, <2>5, <2>6, GraphFrame
<1>5. CASE UNCHANGED work /\ Move(p, "setentry")
  <2>1. pc'[p] = "setentry" /\ \A q \in Procs : q # p => pc'[q] = pc[q]
    BY <1>5, MovedFact DEF BuildInv
  <2>2. LayerOK(p)' /\ NotEntry(p)' /\ ~Unlisted(p)' /\ ~AtTop(p)'
    BY <1>1, <1>3, <1>5, <2>1, UnlistedSteps DEF LayerOK, NotEntry, ConnectPc, Unlisted, AtTop, Row
  <2>3. TodoOK(p)' /\ ArraysOwn(p)' /\ Unnamed(p)' /\ TopOnce(p)'
    BY <2>1, <2>2 DEF TodoOK, ArraysOwn, Unnamed, TopOnce
  <2>4. QED
    BY <1>1, <1>5, <2>1, <2>2, <2>3, GraphFrame
<1>6. QED
  BY <1>4, <1>5 DEF LayerConnected

LEMMA BeginGraph ==
  ASSUME BuildInv, GraphOK, BuildBegin
  PROVE  GraphOK'
<1>1. UNCHANGED <<elem, listed, entry>> /\ \A q \in Procs : pc'[q] \in {"scan", "out"}
  BY DEF BuildBegin, graph
<1>2. \A q \in Procs : ~Unlisted(q)' /\ ~AtTop(q)'
  BY <1>1, UnlistedSteps DEF Unlisted, AtTop
<1>3. Built' \subseteq Built
  BY <1>1, <1>2 DEF Built, Drafts
<1>4. \A e \in Built : LinksFit(e)' /\ LinksOnce(e)'
  BY <1>1 DEF GraphOK, LinksFit, LinksOnce, Links
<1>5. \A q \in Procs : LayerOK(q)' /\ NotEntry(q)' /\ TodoOK(q)' /\ ArraysOwn(q)' /\ Unnamed(q)' /\ TopOnce(q)'
  BY <1>1, <1>2 DEF LayerOK, NotEntry, TodoOK, ArraysOwn, Unnamed, TopOnce, ConnectPc
<1>6. QED
  BY <1>3, <1>4, <1>5 DEF GraphOK
-----------------------------------------------------------------------------
(***************************************************************************)
(* The steps that change the graph.                                        *)
(***************************************************************************)

\* What a participant at its element has in use.
LEMMA RowBuilt ==
  ASSUME BuildInv, NEW q \in Procs
  PROVE  /\ Unlisted(q) => Row(q) \in Built /\ Row(q) \in Rows /\ Row(q) \notin listed
         /\ pc[q] \in ConnectPc => Row(q) \in listed /\ Row(q) \in Built /\ Row(q) \in Rows
         /\ pc[q] \in {"search", "copy", "connect"} => Row(q) \in Built /\ Row(q) \in Rows
         /\ AtTop(q) => Row(q) \in listed /\ Row(q) \in Rows
<1>1. Unlisted(q) => Row(q) \in Built /\ Row(q) \in Rows /\ Row(q) \notin listed
  BY UnlistedFact DEF Built, Drafts, Unlisted
<1>2. pc[q] \in ConnectPc => Row(q) \in listed /\ Row(q) \in Built /\ Row(q) \in Rows
  BY DEF BuildInv, BuildTypeOK, ElementInv, Built
<1>3. pc[q] = "search" => Unlisted(q)
  BY UnlistedSteps
<1>4. pc[q] \in {"copy", "connect"} => pc[q] \in ConnectPc
  BY DEF ConnectPc
<1>5. AtTop(q) => pc[q] = "copy"
  BY DEF AtTop
<1>6. QED
  BY <1>1, <1>2, <1>3, <1>4, <1>5

\* Different participants have different elements.
LEMMA RowsDiffer ==
  ASSUME BuildInv, NEW p \in Procs, NEW q \in Procs, p # q,
         Unlisted(p) \/ pc[p] \in ConnectPc \union {"alloc"}, Unlisted(q) \/ pc[q] \in ConnectPc
  PROVE  Row(p) # Row(q)
<1>1. pc[p] \in RowPc /\ pc[q] \in RowPc
  BY UnlistedSteps, RowSteps DEF ConnectPc
<1>2. QED
  BY <1>1 DEF BuildInv, OwnerInv

LEMMA BuiltRows ==
  ASSUME BuildInv PROVE Built \subseteq Rows
  BY UnlistedFact DEF Built, Drafts, Unlisted, BuildInv, BuildTypeOK

\* Somebody else's step: what it must show of q.
OthersOK(q) ==
  /\ pc'[q] = pc[q] /\ work'[q] = work[q]
  /\ pc[q] \in ConnectPc => Row(q) # entry'
  /\ Unlisted(q) \/ AtTop(q) => \A lc \in Levels : elem'[Row(q)].links[lc] = Links(Row(q), lc)
  /\ AtTop(q) => /\ \A e \in Built' : \A lc \in Levels : Row(q) \notin Named(elem'[e].links[lc])
                 /\ \A r \in Procs : pc'[r] = "connect" => Row(q) \notin Named(work'[r].todo)
  /\ pc[q] = "connect" /\ work[q].lc = elem[Row(q)].level =>
       \A f \in Named(work[q].todo) : Row(q) \notin Named(elem'[f].links[work[q].lc])

LEMMA OthersKept ==
  ASSUME BuildInv, GraphOK, NEW q \in Procs, OthersOK(q), listed \subseteq listed',
         \A f \in Built : elem'[f].level = elem[f].level
  PROVE  LayerOK(q)' /\ NotEntry(q)' /\ TodoOK(q)' /\ ArraysOwn(q)' /\ Unnamed(q)' /\ TopOnce(q)'
<1>1. pc'[q] = pc[q] /\ work'[q] = work[q] /\ Row(q)' = Row(q) /\ (Unlisted(q)' <=> Unlisted(q))
  BY DEF OthersOK, Row, Unlisted
<1>2. pc[q] \in {"search", "copy", "connect"} => elem'[Row(q)].level = elem[Row(q)].level
  BY RowBuilt
<1>3. AtTop(q)' <=> AtTop(q)
  BY <1>1, <1>2 DEF AtTop
<1>4. LayerOK(q) /\ NotEntry(q) /\ TodoOK(q) /\ ArraysOwn(q) /\ Unnamed(q) /\ TopOnce(q)
  BY DEF GraphOK
<1>5. LayerOK(q)' /\ NotEntry(q)'
  BY <1>1, <1>2, <1>4 DEF LayerOK, NotEntry, OthersOK
<1>6. TodoOK(q)'
  BY <1>1, <1>4 DEF TodoOK, Built
<1>7. ArraysOwn(q)'
  BY <1>1, <1>3, <1>4 DEF ArraysOwn, OthersOK, Links
<1>8. Unnamed(q)'
  BY <1>1, <1>3 DEF Unnamed, OthersOK, Links
<1>9. TopOnce(q)'
  BY <1>1, <1>2, <1>4 DEF TopOnce, OthersOK, Links
<1>10. QED
  BY <1>5, <1>6, <1>7, <1>8, <1>9

\* What an element whose arrays do not change needs.
LEMMA ElementKept ==
  ASSUME BuildInv, GraphOK, NEW e \in Built, listed \subseteq listed',
         elem'[e] = elem[e], \A f \in Built : elem'[f].level = elem[f].level
  PROVE  LinksFit(e)' /\ LinksOnce(e)'
<1>1. LinksFit(e) /\ LinksOnce(e) /\ e \in Rows /\ BuildTypeOK
  BY BuiltRows DEF GraphOK, BuildInv
<1>2. \A lc : Links(e, lc)' = Links(e, lc)
  BY DEF Links
<1>3. \A lc \in Levels : \A f \in Named(Links(e, lc)) : f \in Built /\ elem'[f].level = elem[f].level
  BY <1>1 DEF LinksFit, Built
<1>4. LinksFit(e)'
  BY <1>1, <1>2, <1>3 DEF LinksFit
<1>5. \A lc \in Levels : \A i \in DOMAIN Links(e, lc) : Links(e, lc)[i] \in Named(Links(e, lc))
  BY DEF Named
<1>6. LinksOnce(e)'
  BY <1>1, <1>2, <1>3, <1>5 DEF LinksOnce
<1>7. QED
  BY <1>4, <1>6

\* A new element has no neighbors yet.
LEMMA AllocateGraph ==
  ASSUME BuildInv, GraphOK, NEW p \in Procs, Allocate(p)
  PROVE  GraphOK'
<1>0. PICK e : e = Row(p)
  OBVIOUS
<1>1. /\ UNCHANGED <<work, listed, entry>> /\ pc[p] = "alloc"
  BY DEF Allocate
<1>2. e \in Rows /\ e \notin listed
  BY <1>0, <1>1, UnlistedFact
<1>3. CASE UNCHANGED elem /\ Move(p, "flushlockx")
  <2>1. pc'[p] = "flushlockx" /\ \A q \in Procs : q # p => pc'[q] = pc[q]
    BY <1>3, MovedFact DEF BuildInv
  <2>2. ~Unlisted(p)'
    BY <2>1, UnlistedSteps DEF Unlisted
  <2>3. QED
    BY <1>1, <1>3, <2>1, <2>2, GraphQuiet
<1>4. CASE /\ \E l \in Levels : elem' = [elem EXCEPT ![e] = [NoElem EXCEPT !.level = l, !.heaptids = {e}]]
           /\ Move(p, "wait")
  <2>1. pc'[p] = "wait" /\ \A q \in Procs : q # p => pc'[q] = pc[q]
    BY <1>4, MovedFact DEF BuildInv
  <2>2. PICK l \in Levels : elem' = [elem EXCEPT ![e] = [NoElem EXCEPT !.level = l, !.heaptids = {e}]]
    BY <1>4
  <2>3. /\ elem'[e].heaptids = {e} /\ \A lc \in Levels : elem'[e].links[lc] = <<>>
        /\ \A f \in Rows : f # e => elem'[f] = elem[f]
    BY <1>2, <2>2 DEF BuildInv, BuildTypeOK, NoElem
  <2>4. Built' \subseteq Built \union {e}
    BY <1>0, <1>1, <2>1 DEF Built, Drafts, Row, Unlisted
  <2>5. ASSUME NEW f \in Built PROVE f # e /\ elem'[f] = elem[f]
    <3>1. f \in Rows
      BY BuiltRows
    <3>2. f # e
      <4>1. CASE f \in listed
        BY <1>2, <4>1
      <4>2. CASE \E q \in Procs : Unlisted(q) /\ f = Row(q)
        <5>1. PICK q \in Procs : Unlisted(q) /\ f = Row(q)
          BY <4>2
        <5>2. p # q /\ pc[p] \in ConnectPc \union {"alloc"}
          BY <1>1, <5>1, UnlistedSteps
        <5>3. QED
          BY <1>0, <5>1, <5>2, RowsDiffer
      <4>3. QED
        BY <4>1, <4>2 DEF Built, Drafts
    <3>3. QED
      BY <2>3, <3>1, <3>2
  <2>6. LinksFit(e)' /\ LinksOnce(e)'
    <3>1. IsFiniteSet({e}) /\ Cardinality({e}) = 1 /\ 1 <= HeapTidsMax
      <4>1. IsFiniteSet({e}) /\ Cardinality({e}) = 1
        BY FS_Singleton, Zenon
      <4>2. 1 <= HeapTidsMax
        BY BuildBounds
      <4>3. QED
        BY <4>1, <4>2
    <3>2. \A lc \in Levels : Links(e, lc)' = <<>>
      BY <2>3 DEF Links
    <3>3. \A lc \in Levels : 0 <= LayerM(lc)
      BY BuildBounds DEF LayerM
    <3>4. LinksFit(e)'
      BY <2>3, <3>1, <3>2, <3>3, NamedEmpty DEF LinksFit
    <3>5. LinksOnce(e)'
      BY <3>2 DEF LinksOnce
    <3>6. QED
      BY <3>4, <3>5
  <2>7. \A f \in Built' : LinksFit(f)' /\ LinksOnce(f)'
    BY <1>1, <2>4, <2>5, <2>6, ElementKept
  <2>8. \A lc \in Levels : elem'[e].links[lc] = <<>>
    BY <2>3
  <2>9. ASSUME NEW q \in Procs, q # p PROVE OthersOK(q)
    <3>1. pc'[q] = pc[q] /\ work'[q] = work[q]
      BY <1>1, <2>1, <2>9
    <3>2. pc[q] \in ConnectPc => Row(q) # entry'
      BY <1>1 DEF GraphOK, NotEntry
    <3>3. \A f \in Built : \A lc : elem'[f].links[lc] = Links(f, lc)
      BY <2>5 DEF Links
    <3>4. Unlisted(q) \/ AtTop(q) => Row(q) \in Built
      BY RowBuilt DEF Built
    <3>5. Unlisted(q) \/ AtTop(q) => \A lc \in Levels : elem'[Row(q)].links[lc] = Links(Row(q), lc)
      BY <3>3, <3>4
    <3>6. ASSUME AtTop(q)
          PROVE  /\ \A f \in Built' : \A lc \in Levels : Row(q) \notin Named(elem'[f].links[lc])
                 /\ \A r \in Procs : pc'[r] = "connect" => Row(q) \notin Named(work'[r].todo)
      <4>1. /\ \A f \in Built : \A lc \in Levels : Row(q) \notin Named(Links(f, lc))
            /\ \A r \in Procs : pc[r] = "connect" => Row(q) \notin Named(work[r].todo)
        BY <3>6 DEF GraphOK, Unnamed
      <4>2. \A f \in Built' : \A lc \in Levels : Row(q) \notin Named(elem'[f].links[lc])
        BY <2>4, <2>8, <3>3, <4>1, NamedEmpty
      <4>3. QED
        BY <1>1, <2>1, <4>1, <4>2
    <3>7. pc[q] = "connect" /\ work[q].lc = elem[Row(q)].level =>
            \A f \in Named(work[q].todo) : Row(q) \notin Named(elem'[f].links[work[q].lc])
      BY <3>3 DEF GraphOK, TopOnce, TodoOK, Built
    <3>8. QED
      BY <3>1, <3>2, <3>5, <3>6, <3>7 DEF OthersOK
  <2>10. LayerOK(p)' /\ NotEntry(p)' /\ TodoOK(p)' /\ Unnamed(p)' /\ TopOnce(p)' /\ ~AtTop(p)'
    BY <2>1 DEF LayerOK, NotEntry, TodoOK, Unnamed, TopOnce, AtTop, ConnectPc
  <2>11. ArraysOwn(p)'
    BY <1>0, <1>1, <2>8, NamedEmpty DEF ArraysOwn, Row, Links
  <2>12. \A f \in Built : elem'[f].level = elem[f].level
    BY <2>5
  <2>13. QED
    BY <1>1, <2>7, <2>9, <2>10, <2>11, <2>12, OthersKept DEF GraphOK
<1>5. QED
  BY <1>0, <1>3, <1>4 DEF Allocate

\* Somebody else's step that leaves every array as it is.
LEMMA LinksSame ==
  ASSUME BuildInv, GraphOK, NEW q \in Procs, pc'[q] = pc[q], work'[q] = work[q],
         \A f \in Rows : elem'[f].links = elem[f].links, Built' \subseteq Built,
         pc[q] \in ConnectPc => Row(q) # entry',
         \A r \in Procs : pc'[r] = "connect" => pc[r] = "connect" /\ work'[r] = work[r]
  PROVE  OthersOK(q)
<1>1. Built \subseteq Rows
  BY BuiltRows
<1>2. \A f \in Built : \A lc : elem'[f].links[lc] = Links(f, lc)
  BY <1>1 DEF Links
<1>3. Unlisted(q) \/ AtTop(q) => Row(q) \in Built
  BY RowBuilt DEF Built
<1>4. AtTop(q) => /\ \A f \in Built' : \A lc \in Levels : Row(q) \notin Named(elem'[f].links[lc])
                  /\ \A r \in Procs : pc'[r] = "connect" => Row(q) \notin Named(work'[r].todo)
  <2>1. SUFFICES ASSUME AtTop(q)
                 PROVE  /\ \A f \in Built' : \A lc \in Levels : Row(q) \notin Named(elem'[f].links[lc])
                        /\ \A r \in Procs : pc'[r] = "connect" => Row(q) \notin Named(work'[r].todo)
    OBVIOUS
  <2>2. /\ \A f \in Built : \A lc \in Levels : Row(q) \notin Named(Links(f, lc))
        /\ \A r \in Procs : pc[r] = "connect" => Row(q) \notin Named(work[r].todo)
    BY <2>1 DEF GraphOK, Unnamed
  <2>3. \A f \in Built' : \A lc \in Levels : Row(q) \notin Named(elem'[f].links[lc])
    BY <1>2, <2>2
  <2>4. \A r \in Procs : pc'[r] = "connect" => Row(q) \notin Named(work'[r].todo)
    BY <2>2
  <2>5. QED
    BY <2>3, <2>4
<1>5. pc[q] = "connect" /\ work[q].lc = elem[Row(q)].level =>
        \A f \in Named(work[q].todo) : Row(q) \notin Named(elem'[f].links[work[q].lc])
  BY <1>2 DEF GraphOK, TopOnce, TodoOK, Built
<1>6. QED
  BY <1>2, <1>3, <1>4, <1>5 DEF OthersOK

\* The element, which nobody knows yet, gets neighbors that anybody can find.
LEMMA FindGraph ==
  ASSUME BuildInv, GraphOK, NEW p \in Procs, FindNeighbors(p)
  PROVE  GraphOK'
<1>0. PICK e : e = Row(p)
  OBVIOUS
<1>1. PICK c : c = work[p].lc
  OBVIOUS
<1>2. UNCHANGED <<listed, entry>> /\ pc[p] = "search"
  BY DEF FindNeighbors
<1>3. Unlisted(p) /\ e \in Built /\ e \in Rows /\ e \notin listed
  BY <1>0, <1>2, RowBuilt, UnlistedSteps
<1>4. work[p] \in Work /\ work \in [Procs -> Work] /\ c \in Levels /\ BuildTypeOK
  BY <1>1 DEF BuildInv, BuildTypeOK, Work
<1>5. PICK s \in Selections(Visible(p, c), LayerM(c)) :
        /\ elem' = [elem EXCEPT ![e].links[c] = s]
        /\ \/ c > 0 /\ work' = [work EXCEPT ![p].lc = c - 1] /\ UNCHANGED pc
           \/ c = 0 /\ work' = [work EXCEPT ![p].todo = s] /\ Move(p, "dup")
  BY <1>0, <1>1, Zenon DEF FindNeighbors
<1>6. /\ s \in Seq(Rows) /\ Len(s) \in Nat /\ Len(s) <= LayerM(c) /\ Distinct(s)
      /\ Named(s) \subseteq Visible(p, c)
  <2>1. PICK k \in 1..LayerM(c) : s \in [1..k -> Visible(p, c)] /\ \A i, j \in DOMAIN s : i # j => s[i] # s[j]
    BY DEF Selections
  <2>2. LayerM(c) \in Nat
    BY <1>4, BuildBounds DEF LayerM, Levels
  <2>3. k \in Nat /\ k <= LayerM(c)
    BY <2>2
  <2>4. Visible(p, c) \subseteq Rows
    BY DEF Visible, BuildInv, BuildTypeOK
  <2>5. s \in Seq(Visible(p, c)) /\ Len(s) = k
    BY <2>1, <2>3, SeqDef
  <2>6. s \in Seq(Rows)
    BY <2>4, <2>5, SeqMonotonic
  <2>7. QED
    BY <2>1, <2>3, <2>5, <2>6, NamedSub DEF Distinct
<1>7. \A f \in Rows : elem'[f].level = elem[f].level /\ elem'[f].heaptids = elem[f].heaptids
  BY <1>3, <1>4, <1>5, <1>6, LinkFact DEF SameElements
<1>8. /\ elem'[e].links[c] = s /\ \A lc \in Levels : lc # c => elem'[e].links[lc] = Links(e, lc)
      /\ \A f \in Rows : f # e => elem'[f] = elem[f]
  BY <1>3, <1>4, <1>5 DEF BuildTypeOK, Element, Links
<1>9. /\ pc'[p] \in {"search", "dup"} /\ Row(p)' = e
      /\ \A q \in Procs : q # p => pc'[q] = pc[q] /\ work'[q] = work[q]
      /\ pc'[p] = "search" => work'[p].lc = c - 1
  <2>1. CASE c > 0 /\ work' = [work EXCEPT ![p].lc = c - 1] /\ UNCHANGED pc
    BY <1>0, <1>2, <1>4, <2>1 DEF Row, Work
  <2>2. CASE c = 0 /\ work' = [work EXCEPT ![p].todo = s] /\ Move(p, "dup")
    <3>1. pc'[p] = "dup" /\ \A q \in Procs : q # p => pc'[q] = pc[q]
      BY <2>2, MovedFact DEF BuildInv
    <3>2. Row(p)' = e /\ \A q \in Procs : q # p => work'[q] = work[q]
      BY <1>0, <1>4, <2>2 DEF Row, Work
    <3>3. QED
      BY <3>1, <3>2
  <2>3. QED
    BY <1>5, <2>1, <2>2
<1>10. Unlisted(p)' /\ Built' = Built
  <2>1. \A q \in Procs : (Unlisted(q)' <=> Unlisted(q)) /\ Row(q)' = Row(q)
    BY <1>0, <1>3, <1>9, UnlistedSteps DEF Unlisted, Row
  <2>2. QED
    BY <1>2, <1>3, <2>1 DEF Built, Drafts
<1>11. \A f \in Named(s) : f \in listed \ {e} /\ elem[f].level >= c
  BY <1>3, <1>6 DEF Visible
<1>12. Built \subseteq Rows
  BY BuiltRows
<1>13. LayerOK(p) /\ ArraysOwn(p) /\ LinksFit(e) /\ LinksOnce(e)
  BY <1>3 DEF GraphOK
<1>14. LinksFit(e)' /\ LinksOnce(e)'
  <2>1. c <= elem[e].level
    BY <1>0, <1>1, <1>2, <1>13 DEF LayerOK
  <2>2. ASSUME NEW lc \in Levels
        PROVE  /\ Len(elem'[e].links[lc]) <= IF lc <= elem'[e].level THEN LayerM(lc) ELSE 0
               /\ \A f \in Named(elem'[e].links[lc]) : f \in listed' \ {e} /\ elem'[f].level >= lc
               /\ Distinct(elem'[e].links[lc])
    <3>1. CASE lc = c
      <4>1. elem'[e].level = elem[e].level /\ elem'[e].links[lc] = s
        BY <1>3, <1>7, <1>8, <3>1
      <4>2. \A f \in Named(s) : f \in listed' \ {e} /\ elem'[f].level >= lc
        BY <1>2, <1>7, <1>11, <1>12, <3>1 DEF Built
      <4>3. QED
        BY <1>6, <2>1, <3>1, <4>1, <4>2
    <3>2. CASE lc # c
      <4>1. elem'[e].links[lc] = Links(e, lc) /\ elem'[e].level = elem[e].level
        BY <1>3, <1>7, <1>8, <3>2
      <4>2. Distinct(Links(e, lc))
        BY <1>0, <1>3, <1>13 DEF ArraysOwn
      <4>3. Len(Links(e, lc)) <= IF lc <= elem[e].level THEN LayerM(lc) ELSE 0
        BY <1>13 DEF LinksFit
      <4>4. \A f \in Named(Links(e, lc)) : f \in listed' \ {e} /\ elem'[f].level >= lc
        BY <1>2, <1>7, <1>12, <1>13 DEF LinksFit, Built
      <4>5. QED
        BY <4>1, <4>2, <4>3, <4>4
    <3>3. QED
      BY <3>1, <3>2
  <2>3. elem'[e].heaptids = elem[e].heaptids
    BY <1>3, <1>7
  <2>4. LinksFit(e)'
    BY <1>13, <2>2, <2>3 DEF LinksFit, Links
  <2>5. LinksOnce(e)'
    BY <2>2 DEF LinksOnce, Links, Distinct
  <2>6. QED
    BY <2>4, <2>5
<1>15. \A f \in Built : elem'[f].level = elem[f].level
  BY <1>7, <1>12
<1>16. \A f \in Built' : LinksFit(f)' /\ LinksOnce(f)'
  BY <1>2, <1>8, <1>10, <1>12, <1>14, <1>15, ElementKept
<1>17. ASSUME NEW q \in Procs, q # p PROVE OthersOK(q)
  <2>1. pc'[q] = pc[q] /\ work'[q] = work[q]
    BY <1>9, <1>17
  <2>2. pc[q] \in ConnectPc => Row(q) # entry'
    BY <1>2 DEF GraphOK, NotEntry
  <2>3. \A f \in Built : f # e => \A lc : elem'[f].links[lc] = Links(f, lc)
    BY <1>8, <1>12 DEF Links
  <2>4. Unlisted(q) \/ AtTop(q) => Row(q) \in Built /\ Row(q) # e
    BY <1>0, <1>3, <1>17, RowBuilt, RowsDiffer DEF Built
  <2>5. Unlisted(q) \/ AtTop(q) => \A lc \in Levels : elem'[Row(q)].links[lc] = Links(Row(q), lc)
    BY <2>3, <2>4
  <2>6. ASSUME AtTop(q)
        PROVE  /\ \A f \in Built' : \A lc \in Levels : Row(q) \notin Named(elem'[f].links[lc])
               /\ \A r \in Procs : pc'[r] = "connect" => Row(q) \notin Named(work'[r].todo)
    <3>1. /\ \A f \in Built : \A lc \in Levels : Row(q) \notin Named(Links(f, lc))
          /\ \A r \in Procs : pc[r] = "connect" => Row(q) \notin Named(work[r].todo)
      BY <2>6 DEF GraphOK, Unnamed
    <3>2. Row(q) \notin Visible(p, c)
      <4>1. Unlinked(Row(q))
        BY <2>6 DEF Unlinked, AtTop
      <4>2. Row(q) # work[p].ep
        <5>1. work[p].ep = entry
          BY <1>2 DEF BuildInv, EntryInv, EntryPc
        <5>2. Row(q) # entry
          BY <2>6 DEF GraphOK, NotEntry, AtTop, ConnectPc
        <5>3. QED
          BY <5>1, <5>2
      <4>3. QED
        BY <4>1, <4>2 DEF Visible
    <3>3. \A lc \in Levels : Row(q) \notin Named(elem'[e].links[lc])
      BY <1>3, <1>6, <1>8, <3>1, <3>2
    <3>4. \A f \in Built' : \A lc \in Levels : Row(q) \notin Named(elem'[f].links[lc])
      BY <1>10, <2>3, <3>1, <3>3
    <3>5. \A r \in Procs : pc'[r] = "connect" => Row(q) \notin Named(work'[r].todo)
      BY <1>9, <3>1
    <3>6. QED
      BY <3>4, <3>5
  <2>7. pc[q] = "connect" /\ work[q].lc = elem[Row(q)].level =>
          \A f \in Named(work[q].todo) : Row(q) \notin Named(elem'[f].links[work[q].lc])
    <3>1. pc[q] = "connect" => \A f \in Named(work[q].todo) : f \in listed
      BY DEF GraphOK, TodoOK
    <3>2. \A f \in listed : f \in Built /\ f # e
      BY <1>3 DEF Built
    <3>3. QED
      BY <2>3, <3>1, <3>2 DEF GraphOK, TopOnce
  <2>8. QED
    BY <2>1, <2>2, <2>5, <2>6, <2>7 DEF OthersOK
<1>18. LayerOK(p)'
  <2>1. SUFFICES ASSUME pc'[p] = "search" PROVE c - 1 <= elem'[e].level
    BY <1>9 DEF LayerOK
  <2>2. c <= elem[e].level /\ c \in Int /\ elem[e].level \in Int /\ elem'[e].level = elem[e].level
    <3>1. c <= elem[e].level /\ elem'[e].level = elem[e].level
      BY <1>0, <1>1, <1>2, <1>3, <1>7, <1>13 DEF LayerOK
    <3>2. elem[e].level \in Levels \union {-1}
      BY <1>3, <1>4 DEF BuildTypeOK, Element
    <3>3. c \in Int /\ elem[e].level \in Int
      BY <1>4, <3>2, BuildBounds DEF Levels
    <3>4. QED
      BY <3>1, <3>3
  <2>3. QED
    BY <2>2
<1>19. NotEntry(p)' /\ TodoOK(p)' /\ Unnamed(p)' /\ TopOnce(p)' /\ ~AtTop(p)'
  BY <1>9 DEF NotEntry, TodoOK, Unnamed, TopOnce, AtTop, ConnectPc
<1>20. ArraysOwn(p)'
  <2>1. \A lc \in Levels : Distinct(elem'[e].links[lc])
    BY <1>0, <1>3, <1>6, <1>8, <1>13 DEF ArraysOwn
  <2>2. QED
    BY <1>9, <2>1 DEF ArraysOwn, Links
<1>21. QED
  BY <1>2, <1>15, <1>16, <1>17, <1>18, <1>19, <1>20, OthersKept DEF GraphOK

\* An element with room takes one row more.
LEMMA DuplicateGraph ==
  ASSUME BuildInv, GraphOK, NEW p \in Procs, AddDuplicate(p)
  PROVE  GraphOK'
<1>1. UNCHANGED <<listed, entry>> /\ pc[p] = "dup" /\ work[p].todo # <<>>
  BY DEF AddDuplicate, IsDuplicate
<1>2. work[p] \in Work /\ work \in [Procs -> Work] /\ work[p].todo \in Seq(listed) /\ work[p].todo \in Seq(Rows)
  BY <1>1 DEF BuildInv, BuildTypeOK, OwnerInv, Work, PendingPc
<1>3. PICK d : d = Head(work[p].todo)
  OBVIOUS
<1>4. d \in listed /\ d \in Rows /\ d \in Built
  BY <1>1, <1>2, <1>3, NamedTail, NamedSub DEF Built, BuildInv, BuildTypeOK
<1>5. Unlisted(p)
  BY <1>1, UnlistedSteps
<1>6. CASE HasRoom(d) /\ elem' = [elem EXCEPT ![d].heaptids = @ \union {Row(p)}] /\ Move(p, "release") /\ UNCHANGED work
  <2>1. pc'[p] = "release" /\ \A q \in Procs : q # p => pc'[q] = pc[q]
    BY <1>6, MovedFact DEF BuildInv
  <2>2. /\ \A f \in Rows : elem'[f].links = elem[f].links /\ elem'[f].level = elem[f].level
        /\ elem'[d].heaptids = elem[d].heaptids \union {Row(p)}
        /\ \A f \in Rows : f # d => elem'[f] = elem[f]
    BY <1>4, <1>6 DEF BuildInv, BuildTypeOK, Element
  <2>3. Built \subseteq Rows
    BY BuiltRows
  <2>4. ~Unlisted(p)' /\ Built' \subseteq Built
    <3>1. ~Unlisted(p)' /\ \A q \in Procs : q # p => (Unlisted(q)' <=> Unlisted(q))
      BY <2>1, UnlistedSteps DEF Unlisted
    <3>2. \A q \in Procs : Row(q)' = Row(q)
      BY <1>6 DEF Row
    <3>3. QED
      BY <1>1, <3>1, <3>2 DEF Built, Drafts
  <2>5. LinksFit(d) /\ LinksOnce(d)
    BY <1>4 DEF GraphOK
  <2>6. IsFiniteSet(elem'[d].heaptids) /\ Cardinality(elem'[d].heaptids) <= HeapTidsMax
    <3> DEFINE S == elem[d].heaptids
               r == Row(p)
    <3>1. IsFiniteSet(S) /\ Cardinality(S) <= HeapTidsMax /\ Cardinality(S) # HeapTidsMax
      BY <1>6, <2>5 DEF LinksFit, HasRoom
    <3> HIDE DEF S, r
    <3>2. Cardinality(S) \in Nat /\ HeapTidsMax \in Nat
      BY <3>1, FS_CardinalityType, BuildBounds
    <3>3. /\ IsFiniteSet(S \union {r})
          /\ Cardinality(S \union {r}) = Cardinality(S) \/ Cardinality(S \union {r}) = Cardinality(S) + 1
      BY <3>1, FS_AddElement
    <3>4. Cardinality(S \union {r}) <= HeapTidsMax
      BY <3>1, <3>2, <3>3
    <3>5. QED
      BY <2>2, <3>3, <3>4 DEF S, r
  <2>7. \A f, lc : f \in Rows => Links(f, lc)' = Links(f, lc)
    BY <2>2 DEF Links
  <2>8. LinksFit(d)' /\ LinksOnce(d)'
    <3>1. \A lc \in Levels : \A f \in Named(Links(d, lc)) : f \in Rows /\ f \in listed
      BY <2>3, <2>5 DEF LinksFit, Built
    <3>2. LinksFit(d)'
      BY <1>1, <1>4, <2>2, <2>5, <2>6, <2>7, <3>1 DEF LinksFit
    <3>3. \A lc \in Levels : \A i \in DOMAIN Links(d, lc) : Links(d, lc)[i] \in Rows
      BY <3>1 DEF Named
    <3>4. LinksOnce(d)'
      BY <1>4, <2>2, <2>5, <2>7, <3>3 DEF LinksOnce
    <3>5. QED
      BY <3>2, <3>4
  <2>9. \A f \in Built : elem'[f].level = elem[f].level
    BY <2>2, <2>3
  <2>10. \A f \in Built' : LinksFit(f)' /\ LinksOnce(f)'
    BY <1>1, <2>2, <2>3, <2>4, <2>8, <2>9, ElementKept
  <2>11. ASSUME NEW q \in Procs, q # p PROVE OthersOK(q)
    <3>1. pc[q] \in ConnectPc => Row(q) # entry'
      BY <1>1 DEF GraphOK, NotEntry
    <3>2. \A r \in Procs : pc'[r] = "connect" => pc[r] = "connect" /\ work'[r] = work[r]
      BY <1>6, <2>1
    <3>3. QED
      BY <1>6, <2>1, <2>2, <2>4, <2>11, <3>1, <3>2, LinksSame
  <2>12. LayerOK(p)' /\ NotEntry(p)' /\ TodoOK(p)' /\ Unnamed(p)' /\ TopOnce(p)' /\ ~AtTop(p)'
    BY <2>1 DEF LayerOK, NotEntry, TodoOK, Unnamed, TopOnce, AtTop, ConnectPc
  <2>13. ArraysOwn(p)'
    BY <2>4, <2>12 DEF ArraysOwn
  <2>14. QED
    BY <1>1, <2>9, <2>10, <2>11, <2>12, <2>13, OthersKept DEF GraphOK
<1>7. CASE work' = [work EXCEPT ![p].todo = Tail(work[p].todo)] /\ UNCHANGED <<elem, pc>>
  <2>1. Row(p)' = Row(p) /\ \A q \in Procs : q # p => work'[q] = work[q]
    BY <1>2, <1>7 DEF Row, Work
  <2>2. QED
    BY <1>1, <1>5, <1>7, <2>1, GraphQuiet
<1>8. QED
  BY <1>3, <1>6, <1>7 DEF AddDuplicate

\* The element enters the list; until its owner has copied its neighbors of the top
\* layer, no array and no copy of one names it.
LEMMA ElementGraph ==
  ASSUME BuildInv, GraphOK, NEW p \in Procs, AddElement(p)
  PROVE  GraphOK'
<1>0. PICK e : e = Row(p)
  OBVIOUS
<1>1. /\ UNCHANGED <<elem, entry>> /\ pc[p] = "dup" /\ Move(p, "copy") /\ listed' = listed \union {e}
      /\ work' = [work EXCEPT ![p].lc = elem[e].level, ![p].todo = <<>>]
  BY <1>0 DEF AddElement
<1>2. Unlisted(p) /\ e \in Built /\ e \in Rows /\ e \notin listed
  BY <1>0, <1>1, RowBuilt, UnlistedSteps
<1>3. /\ Row(p)' = e /\ work'[p].lc = elem[e].level
      /\ \A q \in Procs : q # p => work'[q] = work[q]
  BY <1>0, <1>1 DEF BuildInv, BuildTypeOK, Row, Work
<1>4. pc'[p] = "copy" /\ \A q \in Procs : q # p => pc'[q] = pc[q]
  BY <1>1, MovedFact DEF BuildInv
<1>5. ~Unlisted(p)' /\ AtTop(p)' /\ Built' \subseteq Built
  <2>1. ~Unlisted(p)' /\ \A q \in Procs : q # p => (Unlisted(q)' <=> Unlisted(q)) /\ Row(q)' = Row(q)
    BY <1>3, <1>4, UnlistedSteps DEF Unlisted, Row
  <2>2. AtTop(p)'
    BY <1>1, <1>3, <1>4 DEF AtTop
  <2>3. Built' \subseteq Built
    BY <1>1, <1>2, <2>1 DEF Built, Drafts
  <2>4. QED
    BY <2>1, <2>2, <2>3
<1>6. \A f \in Built : elem'[f].level = elem[f].level /\ elem'[f] = elem[f]
  BY <1>1
<1>7. \A f \in Built' : LinksFit(f)' /\ LinksOnce(f)'
  BY <1>1, <1>5, <1>6, ElementKept
<1>8. ASSUME NEW q \in Procs, q # p PROVE OthersOK(q)
  <2>1. pc[q] \in ConnectPc => Row(q) # entry'
    BY <1>1 DEF GraphOK, NotEntry
  <2>2. \A r \in Procs : pc'[r] = "connect" => pc[r] = "connect" /\ work'[r] = work[r]
    BY <1>3, <1>4
  <2>3. \A f \in Rows : elem'[f].links = elem[f].links
    BY <1>1
  <2>4. QED
    BY <1>3, <1>4, <1>5, <1>8, <2>1, <2>2, <2>3, LinksSame
<1>9. LayerOK(p)'
  <2>1. elem[e].level \in Levels \union {-1}
    BY <1>2 DEF BuildInv, BuildTypeOK, Element
  <2>2. elem[e].level \in Int
    BY <2>1, BuildBounds DEF Levels
  <2>3. elem[e].level <= elem[e].level
    BY <2>2
  <2>4. QED
    BY <1>1, <1>3, <2>3 DEF LayerOK
<1>10. NotEntry(p)'
  BY <1>1, <1>2, <1>3, BuildNames DEF NotEntry, BuildInv, ElementInv
<1>11. TodoOK(p)' /\ TopOnce(p)'
  BY <1>4 DEF TodoOK, TopOnce
<1>12. ArraysOwn(p)'
  BY <1>0, <1>1, <1>2, <1>3 DEF ArraysOwn, Links, GraphOK
<1>13. Unnamed(p)'
  <2>1. \A f \in Built : \A lc \in Levels : e \notin Named(Links(f, lc))
    BY <1>2 DEF GraphOK, LinksFit
  <2>2. \A r \in Procs : pc'[r] = "connect" => e \notin Named(work'[r].todo)
    <3>1. \A r \in Procs : pc'[r] = "connect" => pc[r] = "connect" /\ work'[r] = work[r]
      BY <1>3, <1>4
    <3>2. QED
      BY <1>2, <3>1 DEF GraphOK, TodoOK
  <2>3. QED
    BY <1>1, <1>3, <1>5, <2>1, <2>2 DEF Unnamed, Links
<1>14. QED
  BY <1>1, <1>6, <1>7, <1>8, <1>9, <1>10, <1>11, <1>12, <1>13, OthersKept DEF GraphOK

LEMMA SetEntryGraph ==
  ASSUME BuildInv, GraphOK, NEW p \in Procs, SetEntryPoint(p)
  PROVE  GraphOK'
<1>1. UNCHANGED <<elem, listed, work>> /\ pc[p] = "setentry" /\ Move(p, "release") /\ entry' \in {entry, Row(p)}
  BY DEF SetEntryPoint
<1>2. pc'[p] = "release" /\ \A q \in Procs : q # p => pc'[q] = pc[q]
  BY <1>1, MovedFact DEF BuildInv
<1>3. ~Unlisted(p)' /\ Built' \subseteq Built
  <2>1. ~Unlisted(p)' /\ \A q \in Procs : q # p => (Unlisted(q)' <=> Unlisted(q))
    BY <1>2, UnlistedSteps DEF Unlisted
  <2>2. \A q \in Procs : Row(q)' = Row(q)
    BY <1>1 DEF Row
  <2>3. QED
    BY <1>1, <2>1, <2>2 DEF Built, Drafts
<1>4. \A f \in Built : elem'[f].level = elem[f].level /\ elem'[f] = elem[f]
  BY <1>1
<1>5. \A f \in Built' : LinksFit(f)' /\ LinksOnce(f)'
  BY <1>1, <1>3, <1>4, ElementKept
<1>6. ASSUME NEW q \in Procs, q # p PROVE OthersOK(q)
  <2>1. pc[q] \in ConnectPc => Row(q) # entry'
    <3>1. pc[p] \in ConnectPc
      BY <1>1 DEF ConnectPc
    <3>2. QED
      BY <1>1, <1>6, <3>1, RowsDiffer DEF GraphOK, NotEntry
  <2>2. \A r \in Procs : pc'[r] = "connect" => pc[r] = "connect" /\ work'[r] = work[r]
    BY <1>1, <1>2
  <2>3. \A f \in Rows : elem'[f].links = elem[f].links
    BY <1>1
  <2>4. QED
    BY <1>1, <1>2, <1>3, <1>6, <2>1, <2>2, <2>3, LinksSame
<1>7. LayerOK(p)' /\ NotEntry(p)' /\ TodoOK(p)' /\ Unnamed(p)' /\ TopOnce(p)' /\ ~AtTop(p)'
  BY <1>2 DEF LayerOK, NotEntry, TodoOK, Unnamed, TopOnce, AtTop, ConnectPc
<1>8. ArraysOwn(p)'
  BY <1>3, <1>7 DEF ArraysOwn
<1>9. QED
  BY <1>1, <1>4, <1>5, <1>6, <1>7, <1>8, OthersKept DEF GraphOK
\* One neighbor's array gets the element: it had room or gave one up, and it has the
\* element twice only on a layer below the element's top.
LEMMA ConnectGraph ==
  ASSUME BuildInv, GraphOK, NEW p \in Procs, ConnectNeighbor(p)
  PROVE  GraphOK'
<1>0. PICK e : e = Row(p)
  OBVIOUS
<1>1. PICK c : c = work[p].lc
  OBVIOUS
<1>2. PICK t : t = work[p].todo
  OBVIOUS
<1>3. PICK n : n = Head(t)
  OBVIOUS
<1>4. UNCHANGED <<listed, entry, pc>> /\ pc[p] = "connect" /\ t # <<>>
  BY <1>2 DEF ConnectNeighbor
<1>5. PICK l \in UpdateConnection(Links(n, c), LayerM(c), e) :
        elem' = [elem EXCEPT ![n].links[c] = l]
  BY <1>0, <1>1, <1>2, <1>3, Zenon DEF ConnectNeighbor, Links
<1>6. /\ work[p] \in Work /\ work \in [Procs -> Work] /\ c \in Levels /\ t \in Seq(Rows) /\ BuildTypeOK
  BY <1>1, <1>2 DEF BuildInv, BuildTypeOK, Work
<1>7. work' = [work EXCEPT ![p].todo = Tail(t)]
  BY <1>2 DEF ConnectNeighbor
<1>8. /\ Row(p)' = e /\ work'[p].lc = c /\ work'[p].todo = Tail(t)
      /\ \A q \in Procs : q # p => work'[q] = work[q]
  BY <1>0, <1>1, <1>6, <1>7 DEF Row, Work
<1>9. e \in listed /\ e \in Built /\ e \in Rows /\ pc[p] \in ConnectPc
  BY <1>0, <1>4, RowBuilt DEF ConnectPc
<1>10. /\ n \in Named(t) /\ Named(Tail(t)) \subseteq Named(t)
       /\ Distinct(t) => Distinct(Tail(t)) /\ n \notin Named(Tail(t))
  BY <1>3, <1>4, <1>6, NamedTail
<1>11. LayerOK(p) /\ NotEntry(p) /\ TodoOK(p) /\ TopOnce(p)
  BY DEF GraphOK
<1>12. \A f \in Named(t) : f \in listed \ {e} /\ elem[f].level >= c
  BY <1>0, <1>1, <1>2, <1>4, <1>11 DEF TodoOK
<1>13. n \in listed /\ n # e /\ n \in Built /\ n \in Rows
  BY <1>10, <1>12, BuiltRows DEF Built
<1>14. LinksFit(n) /\ LinksOnce(n) /\ elem[n].level >= c
  BY <1>10, <1>12, <1>13 DEF GraphOK
<1>15. /\ Links(n, c) \in Seq(Rows) /\ LayerM(c) \in Nat /\ c \in Int /\ elem[n].level \in Int
  <2>1. Links(n, c) \in Seq(Rows)
    BY <1>6, <1>13, LinksType
  <2>2. elem[n].level \in Levels \union {-1}
    BY <1>6, <1>13 DEF BuildTypeOK, Element
  <2>3. LayerM(c) \in Nat /\ c \in Int /\ elem[n].level \in Int
    BY <1>6, <2>2, BuildBounds DEF LayerM, Levels
  <2>4. QED
    BY <2>1, <2>3
<1>16. Len(Links(n, c)) <= LayerM(c)
  <2>1. c <= elem[n].level
    BY <1>14, <1>15
  <2>2. QED
    BY <1>6, <1>14, <2>1 DEF LinksFit
<1>17. /\ l \in Seq(Rows) /\ Len(l) <= LayerM(c) /\ Named(l) \subseteq Named(Links(n, c)) \union {e}
       /\ \A i, j \in DOMAIN l : i # j /\ l[i] = l[j] =>
            \/ /\ i \in DOMAIN Links(n, c) /\ j \in DOMAIN Links(n, c)
               /\ l[i] = Links(n, c)[i] /\ l[j] = Links(n, c)[j]
            \/ l[i] = e /\ e \in Named(Links(n, c))
  BY <1>5, <1>9, <1>15, <1>16, UpdateFact
<1>18. \A f \in Rows : elem'[f].level = elem[f].level /\ elem'[f].heaptids = elem[f].heaptids
  BY <1>5, <1>6, <1>13, <1>17, LinkFact DEF SameElements
<1>19. /\ elem'[n].links[c] = l /\ \A lc \in Levels : lc # c => elem'[n].links[lc] = Links(n, lc)
       /\ \A f \in Rows : f # n => elem'[f] = elem[f]
  BY <1>5, <1>6, <1>13 DEF BuildTypeOK, Element, Links
<1>20. Built' = Built /\ Built \subseteq Rows
  <2>1. \A q \in Procs : (Unlisted(q)' <=> Unlisted(q)) /\ Row(q)' = Row(q)
    BY <1>0, <1>4, <1>8 DEF Unlisted, Row
  <2>2. QED
    BY <1>4, <2>1, BuiltRows DEF Built, Drafts
<1>21. c <= elem[e].level /\ elem[e].level \in Int
  BY <1>0, <1>1, <1>4, <1>6, <1>9, <1>11, BuildBounds DEF LayerOK, BuildTypeOK, Element, Levels
<1>22. c = elem[e].level => Distinct(t) /\ \A f \in Named(t) : e \notin Named(Links(f, c))
  BY <1>0, <1>1, <1>2, <1>4, <1>11 DEF TopOnce
<1>23. \A f \in Built : elem'[f].level = elem[f].level
  BY <1>18, <1>20
<1>24. LinksFit(n)'
  <2>1. ASSUME NEW lc \in Levels
        PROVE  /\ Len(elem'[n].links[lc]) <= IF lc <= elem[n].level THEN LayerM(lc) ELSE 0
               /\ \A f \in Named(elem'[n].links[lc]) : f \in listed \ {n} /\ elem[f].level >= lc
    <3>1. CASE lc = c
      <4>1. elem'[n].links[lc] = l /\ lc <= elem[n].level
        BY <1>14, <1>15, <1>19, <3>1
      <4>2. \A f \in Named(Links(n, c)) : f \in listed \ {n} /\ elem[f].level >= c
        BY <1>6, <1>14 DEF LinksFit
      <4>3. e \in listed \ {n} /\ elem[e].level >= c
        BY <1>9, <1>13, <1>15, <1>21
      <4>4. \A f \in Named(l) : f \in listed \ {n} /\ elem[f].level >= c
        BY <1>17, <4>2, <4>3
      <4>5. QED
        BY <1>17, <3>1, <4>1, <4>4
    <3>2. CASE lc # c
      <4>1. elem'[n].links[lc] = Links(n, lc)
        BY <1>19, <3>2
      <4>2. QED
        BY <1>14, <4>1 DEF LinksFit
    <3>3. QED
      BY <3>1, <3>2
  <2>2. elem'[n].heaptids = elem[n].heaptids /\ elem'[n].level = elem[n].level
    BY <1>13, <1>18
  <2>3. \A lc \in Levels : \A f \in Named(elem'[n].links[lc]) : elem'[f].level >= lc
    BY <2>1, <1>23 DEF Built
  <2>4. IsFiniteSet(elem[n].heaptids) /\ Cardinality(elem[n].heaptids) <= HeapTidsMax
    BY <1>14 DEF LinksFit
  <2>5. QED
    BY <1>4, <2>1, <2>2, <2>3, <2>4 DEF LinksFit, Links
<1>25. LinksOnce(n)'
  <2>1. ASSUME NEW lc \in Levels, NEW i \in DOMAIN elem'[n].links[lc], NEW j \in DOMAIN elem'[n].links[lc],
               i # j, elem'[n].links[lc][i] = elem'[n].links[lc][j]
        PROVE  lc < elem[elem'[n].links[lc][i]].level
    <3>1. CASE lc = c
      <4>1. elem'[n].links[lc] = l
        BY <1>19, <3>1
      <4>2. CASE /\ i \in DOMAIN Links(n, c) /\ j \in DOMAIN Links(n, c)
                 /\ l[i] = Links(n, c)[i] /\ l[j] = Links(n, c)[j]
        BY <1>6, <1>14, <2>1, <3>1, <4>1, <4>2 DEF LinksOnce
      <4>3. CASE l[i] = e /\ e \in Named(Links(n, c))
        <5>1. c # elem[e].level
          BY <1>10, <1>22, <4>3
        <5>2. c < elem[e].level
          BY <1>15, <1>21, <5>1
        <5>3. QED
          BY <3>1, <4>1, <4>3, <5>2
      <4>4. QED
        BY <1>17, <2>1, <4>1, <4>2, <4>3
    <3>2. CASE lc # c
      <4>1. elem'[n].links[lc] = Links(n, lc)
        BY <1>19, <3>2
      <4>2. QED
        BY <1>14, <2>1, <4>1 DEF LinksOnce
    <3>3. QED
      BY <3>1, <3>2
  <2>2. \A lc \in Levels : \A i \in DOMAIN elem'[n].links[lc] : elem'[elem'[n].links[lc][i]].level = elem[elem'[n].links[lc][i]].level
    <3>1. \A lc \in Levels : Named(elem'[n].links[lc]) \subseteq listed'
      BY <1>24 DEF LinksFit, Links
    <3>2. QED
      BY <1>4, <1>23, <3>1 DEF Built, Named
  <2>3. QED
    BY <2>1, <2>2 DEF LinksOnce, Links
<1>26. \A f \in Built' : LinksFit(f)' /\ LinksOnce(f)'
  BY <1>4, <1>19, <1>20, <1>23, <1>24, <1>25, ElementKept
<1>27. \A f \in Built : \A lc \in Levels : Named(elem'[f].links[lc]) \subseteq Named(Links(f, lc)) \union {e}
  BY <1>17, <1>19, <1>20 DEF Links
<1>28. ASSUME NEW q \in Procs, q # p PROVE OthersOK(q)
  <2>1. pc'[q] = pc[q] /\ work'[q] = work[q]
    BY <1>4, <1>8, <1>28
  <2>2. pc[q] \in ConnectPc => Row(q) # entry'
    BY <1>4 DEF GraphOK, NotEntry
  <2>3. Unlisted(q) \/ pc[q] \in ConnectPc => Row(q) # e
    BY <1>0, <1>9, <1>28, RowsDiffer
  <2>4. AtTop(q) => pc[q] \in ConnectPc
    BY DEF AtTop, ConnectPc
  <2>5. Unlisted(q) \/ AtTop(q) => Row(q) \in Rows /\ Row(q) # n
    <3>1. CASE Unlisted(q)
      BY <1>13, <3>1, RowBuilt
    <3>2. CASE AtTop(q)
      <4>1. Row(q) \notin Named(t)
        BY <1>2, <1>4, <3>2 DEF GraphOK, Unnamed
      <4>2. QED
        BY <1>10, <3>2, <4>1, RowBuilt
    <3>3. QED
      BY <3>1, <3>2
  <2>6. Unlisted(q) \/ AtTop(q) => \A lc \in Levels : elem'[Row(q)].links[lc] = Links(Row(q), lc)
    BY <1>19, <2>5 DEF Links
  <2>7. ASSUME AtTop(q)
        PROVE  /\ \A f \in Built' : \A lc \in Levels : Row(q) \notin Named(elem'[f].links[lc])
               /\ \A r \in Procs : pc'[r] = "connect" => Row(q) \notin Named(work'[r].todo)
    <3>1. /\ \A f \in Built : \A lc \in Levels : Row(q) \notin Named(Links(f, lc))
          /\ \A r \in Procs : pc[r] = "connect" => Row(q) \notin Named(work[r].todo)
      BY <2>7 DEF GraphOK, Unnamed
    <3>2. \A f \in Built' : \A lc \in Levels : Row(q) \notin Named(elem'[f].links[lc])
      BY <1>20, <1>27, <2>3, <2>4, <2>7, <3>1
    <3>3. Row(q) \notin Named(work'[p].todo)
      BY <1>2, <1>4, <1>8, <1>10, <3>1
    <3>4. \A r \in Procs : pc'[r] = "connect" => Row(q) \notin Named(work'[r].todo)
      BY <1>4, <1>8, <3>1, <3>3
    <3>5. QED
      BY <3>2, <3>4
  <2>8. ASSUME pc[q] = "connect", work[q].lc = elem[Row(q)].level, NEW f \in Named(work[q].todo)
        PROVE  Row(q) \notin Named(elem'[f].links[work[q].lc])
    <3>1. f \in Built /\ work[q].lc \in Levels
      BY <2>8 DEF GraphOK, TodoOK, Built, BuildInv, BuildTypeOK, Work
    <3>2. Row(q) \notin Named(Links(f, work[q].lc)) /\ Row(q) # e
      BY <2>3, <2>8 DEF GraphOK, TopOnce, ConnectPc
    <3>3. QED
      BY <1>27, <3>1, <3>2
  <2>9. QED
    BY <2>1, <2>2, <2>6, <2>7, <2>8 DEF OthersOK
<1>29. LayerOK(p)' /\ NotEntry(p)' /\ ~Unlisted(p)' /\ ~AtTop(p)'
  <2>1. LayerOK(p)'
    BY <1>8, <1>9, <1>20, <1>21, <1>23 DEF LayerOK
  <2>2. NotEntry(p)'
    BY <1>0, <1>4, <1>8, <1>11 DEF NotEntry
  <2>3. ~Unlisted(p)' /\ ~AtTop(p)'
    <3>1. pc'[p] = "connect"
      BY <1>4
    <3>2. QED
      BY <3>1, UnlistedSteps DEF Unlisted, AtTop
  <2>4. QED
    BY <2>1, <2>2, <2>3
<1>30. ArraysOwn(p)' /\ Unnamed(p)'
  BY <1>29 DEF ArraysOwn, Unnamed
<1>31. TodoOK(p)'
  <2>1. \A f \in Named(Tail(t)) : f \in listed' \ {e} /\ elem'[f].level >= c
    BY <1>4, <1>10, <1>12, <1>23 DEF Built
  <2>2. QED
    BY <1>8, <2>1 DEF TodoOK
<1>32. TopOnce(p)'
  <2>1. SUFFICES ASSUME c = elem[e].level
                 PROVE  Distinct(Tail(t)) /\ \A f \in Named(Tail(t)) : e \notin Named(elem'[f].links[c])
    <3>1. elem'[e].level = elem[e].level
      BY <1>9, <1>23
    <3>2. QED
      BY <1>8, <2>1, <3>1 DEF TopOnce, Links
  <2>2. Distinct(Tail(t)) /\ n \notin Named(Tail(t))
    BY <1>10, <1>22, <2>1
  <2>3. ASSUME NEW f \in Named(Tail(t)) PROVE e \notin Named(elem'[f].links[c])
    <3>1. f # n /\ f \in Named(t) /\ f \in Rows
      BY <1>10, <1>12, <1>20, <2>2 DEF Built
    <3>2. elem'[f].links[c] = Links(f, c)
      BY <1>19, <3>1 DEF Links
    <3>3. QED
      BY <1>22, <2>1, <3>1, <3>2
  <2>4. QED
    BY <2>2, <2>3
<1>33. QED
  BY <1>4, <1>23, <1>26, <1>28, <1>29, <1>30, <1>31, <1>32, OthersKept DEF GraphOK

LEMMA GraphNext ==
  ASSUME BuildInv, GraphOK, [Next]_vars
  PROVE  GraphOK'
<1>1. CASE BuildBegin BY <1>1, BeginGraph
<1>2. CASE BuildEnd \/ BuildAborts
  <2>1. UNCHANGED <<elem, listed, entry, pc, work>>
    BY <1>2 DEF BuildEnd, BuildAborts, graph
  <2>2. QED
    BY <2>1, GraphSame
<1>3. CASE UNCHANGED vars
  <2>1. UNCHANGED <<elem, listed, entry, pc, work>>
    BY <1>3 DEF vars, graph
  <2>2. QED
    BY <2>1, GraphSame
<1>4. CASE Over BY <1>3, <1>4 DEF Over
<1>5. ASSUME NEW p \in Procs, Participate(p) PROVE GraphOK'
  <2>1. CASE InsertInMemory(p)
    <3>1. CASE PassEntryWait(p)      BY <3>1, QuietGraph
    <3>2. CASE EntryLockShared(p)    BY <3>2, EntryGraph
    <3>3. CASE EntryWaitExclusive(p) BY <3>3, QuietGraph
    <3>4. CASE EntryLockExclusive(p) BY <3>4, EntryGraph
    <3>5. CASE FindNeighbors(p)      BY <3>5, FindGraph
    <3>6. CASE AddDuplicate(p)       BY <3>6, DuplicateGraph
    <3>7. CASE AddElement(p)         BY <3>7, ElementGraph
    <3>8. CASE CopyNeighbors(p)      BY <3>8, CopyGraph
    <3>9. CASE ConnectNeighbor(p)    BY <3>9, ConnectGraph
    <3>10. CASE LayerConnected(p)    BY <3>10, LayerGraph
    <3>11. CASE SetEntryPoint(p)     BY <3>11, SetEntryGraph
    <3>12. CASE ReleaseLocks(p)      BY <3>12, QuietGraph
    <3>13. QED
      BY <2>1, <3>1, <3>2, <3>3, <3>4, <3>5, <3>6, <3>7, <3>8, <3>9, <3>10, <3>11, <3>12
      DEF InsertInMemory
  <2>2. CASE Allocate(p) BY <2>2, AllocateGraph
  <2>3. CASE \/ NextRow(p) \/ ScanDone(p) \/ FlushLockShared(p) \/ FlushLockExclusive(p)
             \/ Flush(p) \/ InsertOnDisk(p) \/ Count(p)
    BY <2>3, QuietGraph
  <2>4. QED
    BY <1>5, <2>1, <2>2, <2>3 DEF Participate
<1>6. ASSUME NEW p \in Procs, Fails(p) PROVE GraphOK'
  BY <1>6, QuietGraph
<1>7. QED
  BY <1>1, <1>2, <1>3, <1>4, <1>5, <1>6 DEF Next

\* The arrays in use and the participants at them are in order throughout the build.
THEOREM GraphInvariant == Spec => []GraphOK
<1>1. Init => GraphOK
  <2> SUFFICES ASSUME Init PROVE GraphOK
    OBVIOUS
  <2>1. listed = {} /\ \A p \in Procs : pc[p] = "out"
    BY DEF Init
  <2>2. \A p \in Procs : ~Unlisted(p) /\ ~AtTop(p)
    BY <2>1, UnlistedSteps DEF AtTop
  <2>3. Built = {}
    BY <2>1, <2>2 DEF Built, Drafts
  <2>4. ASSUME NEW p \in Procs
        PROVE  LayerOK(p) /\ NotEntry(p) /\ TodoOK(p) /\ ArraysOwn(p) /\ Unnamed(p) /\ TopOnce(p)
    BY <2>1, <2>2 DEF LayerOK, NotEntry, TodoOK, ArraysOwn, Unnamed, TopOnce, ConnectPc
  <2>5. QED
    BY <2>3, <2>4 DEF GraphOK
<1>2. BuildInv /\ GraphOK /\ [Next]_vars => GraphOK'
  BY GraphNext
<1>3. QED
  BY <1>1, <1>2, BuildInvariant, PTL DEF Spec

LEMMA ListedLinks ==
  ASSUME BuildTypeOK, GraphOK, NEW e \in listed, NEW lc \in Levels
  PROVE  /\ e \in Rows /\ LinksFit(e) /\ LinksOnce(e)
         /\ DOMAIN Links(e, lc) = 1..Len(Links(e, lc))
<1>1. e \in Rows /\ e \in Built
  BY DEF BuildTypeOK, Built
<1>2. LinksFit(e) /\ LinksOnce(e)
  BY <1>1 DEF GraphOK
<1>3. QED
  BY <1>1, <1>2, LinksType

\* FlushPages can write every neighbor array: what it names is in the list and so has a
\* place on disk, reaches up to the layer and is not the element itself, the array fits
\* the neighbor tuple and the heap TIDs fit the element tuple, however the inserts of
\* the participants interleave.
THEOREM LinksWritableCorrect == Spec => []LinksWritable
<1>1. BuildTypeOK /\ GraphOK => LinksWritable
  <2> SUFFICES ASSUME BuildTypeOK, GraphOK, NEW e \in listed
               PROVE  /\ Cardinality(elem[e].heaptids) <= HeapTidsMax
                      /\ \A lc \in Levels :
                           /\ Len(Links(e, lc)) <= IF lc <= elem[e].level THEN LayerM(lc) ELSE 0
                           /\ \A i \in 1..Len(Links(e, lc)) : /\ Links(e, lc)[i] \in listed \ {e}
                                                              /\ elem[Links(e, lc)[i]].level >= lc
    BY DEF LinksWritable, Links
  <2>1. LinksFit(e)
    BY DEF GraphOK, Built
  <2>2. ASSUME NEW lc \in Levels, NEW i \in 1..Len(Links(e, lc))
        PROVE  Links(e, lc)[i] \in listed \ {e} /\ elem[Links(e, lc)[i]].level >= lc
    <3>1. Links(e, lc)[i] \in Named(Links(e, lc))
      BY ListedLinks DEF Named
    <3>2. QED
      BY <2>1, <3>1 DEF LinksFit
  <2>3. QED
    BY <2>1, <2>2 DEF LinksFit
<1>2. BuildInv => BuildTypeOK
  BY DEF BuildInv
<1>3. QED
  BY <1>1, <1>2, BuildInvariant, GraphInvariant, PTL

\* No neighbor array has an element twice on that element's top layer, although
\* UpdateNeighborsInMemory connects one layer after the other while others already
\* find the element.
THEOREM LinksOnceAtTopCorrect == Spec => []LinksOnceAtTop
<1>1. BuildTypeOK /\ GraphOK => LinksOnceAtTop
  <2> SUFFICES ASSUME BuildTypeOK, GraphOK, NEW e \in listed, NEW lc \in Levels,
                      NEW i \in 1..Len(Links(e, lc)), NEW j \in 1..Len(Links(e, lc)),
                      i # j, Links(e, lc)[i] = Links(e, lc)[j]
               PROVE  lc < elem[Links(e, lc)[i]].level
    BY DEF LinksOnceAtTop, Links
  <2>1. LinksOnce(e) /\ i \in DOMAIN Links(e, lc) /\ j \in DOMAIN Links(e, lc)
    BY ListedLinks
  <2>2. QED
    BY <2>1 DEF LinksOnce
<1>2. BuildInv => BuildTypeOK
  BY DEF BuildInv
<1>3. QED
  BY <1>1, <1>2, BuildInvariant, GraphInvariant, PTL
=============================================================================
