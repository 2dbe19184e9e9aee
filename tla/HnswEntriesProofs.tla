-------------------------- MODULE HnswEntriesProofs --------------------------
(***************************************************************************)
(* Proofs that HnswIndex keeps EntriesInv, with what follows: the elements *)
(* a writer goes back to are the ones it loaded, rows are under their own  *)
(* vectors, and the index implements RowIndex.  On top of it LinksInv: on  *)
(* a graph of one layer no connection to a reclaimed place is left and no  *)
(* scan loads one.                                                         *)
(***************************************************************************)
EXTENDS HnswIndexProofs

USE BoundsAssumption, NamesAssumption

\* What a writer holds are elements at known places.
LEMMA HeldType ==
  ASSUME TypeOK, NEW p \in Writers PROVE Held(p) \in SUBSET Element
<1>1. srch[p].hnd \in SUBSET Element
  BY DEF TypeOK, SearchState, Procs
<1>2. sel[p] \union todo[p] \in SUBSET Connection
  BY DEF TypeOK
<1>3. \A c \in Connection : c.nb \in Element
  BY DEF Connection
<1>4. QED
  BY <1>1, <1>2, <1>3 DEF Held

\* The elements held depend on nothing but the search and the selections.
LEMMA HeldSame ==
  ASSUME NEW p, srch'[p].hnd = srch[p].hnd, sel'[p] = sel[p], todo'[p] = todo[p]
  PROVE  Held(p)' = Held(p)
BY DEF Held

\* A step that leaves the intact elements a writer may hold as they are, and
\* adds none to those held, keeps TargetsHeld.
LEMMA TargetsFrame ==
  ASSUME EntriesInv,
         \A p \in Writers : Held(p)' \subseteq Held(p),
         \A s \in Slots :
           /\ etup[s].used /\ ~etup[s].deleted
           /\ PastBarrier => etup[s].heaptids # {}
           => /\ etup'[s].used /\ ~etup'[s].deleted
              /\ etup'[s].version = etup[s].version
              /\ etup'[s].value = etup[s].value
              /\ etup'[s].level = etup[s].level
              /\ PastBarrier' => etup'[s].heaptids # {}
  PROVE  TargetsHeld'
<1>1. SUFFICES ASSUME NEW p \in Writers, NEW h \in Held(p)'
               PROVE  SameElement(h)' /\ (PastBarrier' => etup'[h.tid].heaptids # {})
  BY DEF TargetsHeld
<1>2. h \in Held(p) /\ h \in Element
  BY HeldType DEF EntriesInv, IndexInv
<1>3. h.tid \in Slots
  BY <1>2 DEF Element
<1>4. SameElement(h) /\ (PastBarrier => etup[h.tid].heaptids # {})
  BY <1>2 DEF EntriesInv, TargetsHeld
<1>5. QED
  BY <1>3, <1>4 DEF SameElement

\* Rows stay under their values when tuples only lose rows.
LEMMA RowsFrame ==
  ASSUME EntriesInv,
         \A s \in Slots : /\ etup'[s].heaptids \subseteq etup[s].heaptids
                          /\ etup'[s].heaptids # {} => etup'[s].value = etup[s].value
                          /\ \A t \in etup'[s].heaptids : rowval'[t] = rowval[t]
  PROVE  RowsUnderTheirValue'
<1>1. SUFFICES ASSUME NEW s \in Slots, NEW o \in Slots, NEW t \in etup'[s].heaptids
               PROVE  /\ etup'[s].value = rowval'[t]
                      /\ t \in etup'[o].heaptids => o = s
  BY DEF RowsUnderTheirValue
<1>2. t \in etup[s].heaptids /\ (t \in etup'[o].heaptids => t \in etup[o].heaptids)
  OBVIOUS
<1>3. etup[s].value = rowval[t] /\ (t \in etup[o].heaptids => o = s)
  BY <1>2 DEF EntriesInv, RowsUnderTheirValue
<1>4. QED
  BY <1>2, <1>3

\* Inserts keep their row while tuples only lose rows.
Unwritten == {"lock", "lockx", "search", "add"}
\* A step that gives no element another row and no insert another job keeps InsertsOwnRow.
LEMMA OwnFrame ==
  ASSUME EntriesInv,
         \A p \in Inserters : pc'[p] # "idle" =>
           /\ pc[p] # "idle"
           /\ pc'[p] \in Unwritten => pc[p] \in Unwritten
           /\ job'[p].heaptid = job[p].heaptid /\ job'[p].value = job[p].value
           /\ rowval'[job[p].heaptid] = rowval[job[p].heaptid],
         \A s \in Slots : etup'[s].heaptids \subseteq etup[s].heaptids
  PROVE  InsertsOwnRow'
<1>1. InsertsOwnRow
  BY DEF EntriesInv
<1>2. QED
  BY <1>1 DEF InsertsOwnRow, Unwritten

\* The lock protocol of a step that gives up the lock only with what it protects.
LEMMA LockFrame ==
  ASSUME EntriesInv,
         \A p \in Writers : Held(p)' \subseteq Held(p),
         \A p \in Writers : lock'[p] = "none" =>
           \/ Held(p)' = {} /\ pc'[p] # "search"
           \/ lock[p] = "none" /\ (pc'[p] = "search" => pc[p] = "search"),
         pc'[Vac] \notin RepairPc => lock'[Vac] = "none"
  PROVE  HoldersLock'
<1>1. HoldersLock
  BY DEF EntriesInv
<1>2. QED
  BY <1>1 DEF HoldersLock

\* Steps that change neither element tuples nor the heap's vectors.
LEMMA QuietStep ==
  ASSUME EntriesInv, IndexInv', UNCHANGED <<etup, rowval>>,
         PastBarrier' => PastBarrier,
         \A p \in Writers : Held(p)' \subseteq Held(p),
         \A p \in Writers : lock'[p] = "none" =>
           \/ Held(p)' = {} /\ pc'[p] # "search"
           \/ lock[p] = "none" /\ (pc'[p] = "search" => pc[p] = "search"),
         pc'[Vac] \notin RepairPc => lock'[Vac] = "none",
         \A p \in Inserters : pc'[p] # "idle" =>
           /\ pc[p] # "idle"
           /\ pc'[p] \in Unwritten => pc[p] \in Unwritten
           /\ job'[p].heaptid = job[p].heaptid /\ job'[p].value = job[p].value
  PROVE  EntriesInv'
<1>1. TargetsHeld'
  BY TargetsFrame
<1>2. RowsUnderTheirValue'
  BY RowsFrame
<1>3. InsertsOwnRow'
  BY OwnFrame
<1>4. HoldersLock'
  BY LockFrame
<1>5. QED
  BY <1>1, <1>2, <1>3, <1>4 DEF EntriesInv
-----------------------------------------------------------------------------
(***************************************************************************)
(* One lemma per action, or per group of actions that change the same.     *)
(***************************************************************************)

\* LoadElement keeps EntriesInv: a live element is loaded from an intact tuple.
LEMMA LoadElementEntries ==
  ASSUME EntriesInv, IndexInv', NEW p \in Procs, LoadElement(p) PROVE EntriesInv'
<1>1. PICK t \in srch[p].pend :
        srch' = [srch EXCEPT ![p].pend = @ \ {t},
                             ![p].hnd = IF etup[t].level < srch[p].lc THEN @
                                        ELSE @ \union {LoadFromTuple(t)}]
  BY DEF LoadElement
<1>2. /\ UNCHANGED <<etup, rowval, pc, lock, job, sel, todo>>
      /\ pc[p] = "search" /\ t \in Slots
  <2>1. srch[p].pend \in SUBSET Slots
    BY DEF EntriesInv, IndexInv, TypeOK, SearchState
  <2>2. QED
    BY <2>1 DEF LoadElement
<1>3. ASSUME NEW q \in Writers
      PROVE  Held(q)' \subseteq Held(q) \union {h \in {LoadFromTuple(t)} : q = p /\ h.live}
  <2>1. srch'[q].hnd \subseteq srch[q].hnd \union {h \in {LoadFromTuple(t)} : q = p}
    BY <1>1 DEF EntriesInv, IndexInv, TypeOK, Procs
  <2>2. QED
    BY <1>2, <2>1 DEF Held
<1>4. TargetsHeld'
  <2>1. SUFFICES ASSUME NEW q \in Writers, NEW h \in Held(q)'
                 PROVE  SameElement(h)' /\ (PastBarrier' => etup'[h.tid].heaptids # {})
    BY DEF TargetsHeld
  <2>2. CASE h \in Held(q)
    BY <1>2, <2>2 DEF EntriesInv, TargetsHeld, SameElement, PastBarrier
  <2>3. CASE h = LoadFromTuple(t) /\ h.live
    <3>1. etup[t].heaptids # {} /\ h.tid = t
      BY <2>3 DEF LoadFromTuple
    <3>2. etup[t].used /\ ~etup[t].deleted
      BY <1>2, <3>1 DEF EntriesInv, IndexInv, FreePlacesEmpty
    <3>3. QED
      BY <1>2, <2>3, <3>1, <3>2 DEF SameElement, LoadFromTuple
  <2>4. QED
    BY <1>3, <2>2, <2>3
<1>5. HoldersLock'
  <2>1. HoldersLock
    BY DEF EntriesInv
  <2>2. ASSUME NEW q \in Writers, lock[q] = "none" PROVE q # p
    BY <1>2, <2>1, <2>2 DEF HoldersLock
  <2>3. QED
    BY <1>2, <1>3, <2>1, <2>2 DEF HoldersLock
<1>6. RowsUnderTheirValue' /\ InsertsOwnRow'
  BY <1>2 DEF EntriesInv, RowsUnderTheirValue, InsertsOwnRow
<1>7. QED
  BY <1>4, <1>5, <1>6 DEF EntriesInv

\* What is selected for a layer are live elements of the search.
LEMMA SelectionsHeld ==
  ASSUME NEW p, NEW W \in SUBSET Element, NEW lc \in Levels, NEW q \in Selections(p, W, lc)
  PROVE  \A c \in q : c.nb \in W /\ c.nb.live
<1> DEFINE C == Selectable(p, W)
<1>1. PICK f \in Orders(C, LayerM(lc)) : q = Numbered(lc, f)
  BY DEF Selections
<1>2. PICK n \in 0..LayerM(lc) : f \in [1..n -> C]
  BY <1>1 DEF Orders
<1>3. \A i \in DOMAIN f : f[i] \in C
  BY <1>2
<1>4. QED
  BY <1>1, <1>3 DEF Numbered, Selectable

\* The end of a layer keeps EntriesInv: only elements held are selected.
LEMMA LayerEndEntries ==
  ASSUME EntriesInv, IndexInv', NEW p \in Procs,
         NextLayer(p) \/ (p \in Writers /\ WriterSearchDone(p))
  PROVE  EntriesInv'
<1> USE DEF EntriesInv
<1>1. UNCHANGED <<row, rowval, etup, lock, job, vac>> /\ pc[p] = "search"
  BY DEF NextLayer, WriterSearchDone, LayerDone
<1>2. srch[p].hnd \in SUBSET Element /\ srch[p].lc \in Levels /\ 0 \in Levels
  <2>1. srch[p] \in SearchState
    BY DEF IndexInv, TypeOK
  <2>2. QED
    BY <2>1 DEF SearchState, Levels
<1>3. PICK W \in Nearest(p) :
        /\ srch'[p].hnd \subseteq W
        /\ \A q \in Procs \ {p} : srch'[q] = srch[q]
        /\ \A q \in Writers \ {p} : sel'[q] = sel[q] /\ todo'[q] = todo[q]
        /\ p \in Writers => \E lc \in Levels : \E n \in Selections(p, W, lc) \union {{}} :
             sel'[p] \union todo'[p] \subseteq sel[p] \union todo[p] \union n
  <2>1. CASE NextLayer(p)
    <3>1. PICK W \in Nearest(p) : NextLayer(p)!3!(W)
      BY <2>1 DEF NextLayer
    <3>2. srch'[p].hnd = W /\ \A q \in Procs \ {p} : srch'[q] = srch[q]
      BY <3>1 DEF IndexInv, TypeOK
    <3>3. UNCHANGED todo
      BY <2>1 DEF NextLayer
    <3>4. \A q \in Writers \ {p} : sel'[q] = sel[q]
      BY <3>1 DEF IndexInv, TypeOK
    <3>5. p \in Writers => \E n \in Selections(p, W, srch[p].lc) \union {{}} :
            sel'[p] \subseteq sel[p] \union n
      <4>1. \/ UNCHANGED sel
            \/ \E n \in Selections(p, W, srch[p].lc) : sel' = [sel EXCEPT ![p] = @ \union n]
        BY Zenon, <3>1
      <4>2. sel \in [Writers -> SUBSET Connection]
        BY DEF IndexInv, TypeOK
      <4>3. QED
        BY <4>1, <4>2
    <3>6. QED
      BY <1>2, <3>1, <3>2, <3>3, <3>4, <3>5
  <2>2. CASE p \in Writers /\ WriterSearchDone(p)
    <3>1. PICK W \in Nearest(p) : \E q \in Selections(p, W, 0) :
            /\ sel'  = [sel EXCEPT ![p] = @ \union q]
            /\ todo' = [todo EXCEPT ![p] = q]
      BY <2>2 DEF WriterSearchDone
    <3>2. PICK n \in Selections(p, W, 0) :
            /\ sel'  = [sel EXCEPT ![p] = @ \union n]
            /\ todo' = [todo EXCEPT ![p] = n]
      BY <3>1
    <3>3. srch'[p].hnd = {} /\ \A q \in Procs \ {p} : srch'[q] = srch[q]
      BY <2>2 DEF WriterSearchDone, IndexInv, TypeOK, NoSearch
    <3>4. /\ \A q \in Writers \ {p} : sel'[q] = sel[q] /\ todo'[q] = todo[q]
          /\ sel'[p] \union todo'[p] \subseteq sel[p] \union todo[p] \union n
      BY <2>2, <3>2 DEF IndexInv, TypeOK
    <3>5. QED
      BY <1>2, <3>1, <3>2, <3>3, <3>4
  <2>3. QED
    BY <2>1, <2>2
<1>4. W \subseteq srch[p].hnd
  BY NearestType DEF IndexInv
<1>5. ASSUME NEW q \in Writers PROVE Held(q)' \subseteq Held(q)
  <2>1. CASE q # p
    BY <1>3, <2>1, HeldSame DEF Procs
  <2>2. CASE q = p
    <3>1. PICK lc \in Levels : \E n \in Selections(p, W, lc) \union {{}} :
             sel'[p] \union todo'[p] \subseteq sel[p] \union todo[p] \union n
      BY <1>3, <2>2
    <3>2. PICK n \in Selections(p, W, lc) \union {{}} :
             sel'[p] \union todo'[p] \subseteq sel[p] \union todo[p] \union n
      BY <3>1
    <3>3. \A c \in n : c.nb \in W /\ c.nb.live
      BY <1>2, <1>4, <3>2, SelectionsHeld
    <3>4. QED
      BY <1>3, <1>4, <2>2, <3>2, <3>3 DEF Held
  <2>3. QED
    BY <2>1, <2>2
<1>6. /\ pc'[Vac] = pc[Vac] \/ (pc[Vac] = "search" /\ pc'[Vac] = "rewrite")
      /\ \A q \in Inserters : pc'[q] = pc[q] \/ (pc[q] = "search" /\ pc'[q] = "add")
  <2>1. CASE UNCHANGED pc
    BY <2>1
  <2>2. CASE pc' = [pc EXCEPT ![p] = IF p = Vac THEN "rewrite" ELSE "add"]
    <3>1. pc \in [Procs -> InsertPc \union VacuumPc] /\ Vac \in Procs /\ Inserters \subseteq Procs
      BY DEF IndexInv, TypeOK, Procs, Writers
    <3>2. QED
      BY <1>1, <2>2, <3>1
  <2>3. QED
    BY <2>1, <2>2 DEF NextLayer, WriterSearchDone
<1>7. \A q \in Writers : pc'[q] = "search" => pc[q] = "search"
  BY <1>6 DEF Writers
<1>8. QED
  <2>1. PastBarrier' => PastBarrier
    BY <1>6 DEF PastBarrier
  <2>2. pc'[Vac] \notin RepairPc => lock'[Vac] = "none"
    BY <1>1, <1>6 DEF HoldersLock, RepairPc
  <2>3. \A q \in Inserters : pc'[q] # "idle" =>
           /\ pc[q] # "idle" /\ (pc'[q] \in Unwritten => pc[q] \in Unwritten)
    BY <1>6 DEF Unwritten
  <2>4. \A q \in Writers : lock'[q] = "none" =>
          lock[q] = "none" /\ (pc'[q] = "search" => pc[q] = "search")
    BY <1>1, <1>7
  <2>5. QED
    BY <1>1, <1>5, <2>1, <2>2, <2>3, <2>4, QuietStep

\* A writer's step that may only shorten its list of elements to visit, or visit
\* those it selected.
LEMMA TodoEntries ==
  ASSUME EntriesInv, IndexInv', NEW p \in Writers, UNCHANGED <<rowval, etup, lock, srch, sel>>,
         todo' = [todo EXCEPT ![p] = todo'[p]], todo'[p] \subseteq todo[p] \union sel[p],
         pc' = [pc EXCEPT ![p] = pc'[p]], pc'[p] # "search",
         \A q \in Writers : job'[q].heaptid = job[q].heaptid /\ job'[q].value = job[q].value,
         p \in Inserters => pc[p] # "idle" /\ (pc'[p] \in Unwritten => pc[p] \in Unwritten),
         p = Vac => {pc[Vac], pc'[Vac]} \subseteq RepairPc
  PROVE  EntriesInv'
<1> USE DEF EntriesInv
<1>1. /\ todo \in [Writers -> SUBSET Connection] /\ pc \in [Procs -> InsertPc \union VacuumPc]
      /\ Writers \subseteq Procs /\ Vac \in Writers /\ Inserters \subseteq Writers
  BY DEF IndexInv, TypeOK, Procs, Writers
<1>2. \A q \in Procs \ {p} : pc'[q] = pc[q]
  BY <1>1
<1>3. ASSUME NEW q \in Writers PROVE Held(q)' \subseteq Held(q)
  BY <1>1 DEF Held
<1>4. PastBarrier' => PastBarrier
  BY <1>1, <1>2 DEF PastBarrier, RepairPc
<1>5. pc'[Vac] \notin RepairPc => lock'[Vac] = "none"
  BY <1>1, <1>2 DEF HoldersLock
<1>6. \A q \in Writers : lock'[q] = "none" =>
        lock[q] = "none" /\ (pc'[q] = "search" => pc[q] = "search")
  BY <1>1, <1>2
<1>7. \A q \in Inserters : pc'[q] # "idle" =>
        pc[q] # "idle" /\ (pc'[q] \in Unwritten => pc[q] \in Unwritten)
  BY <1>1, <1>2
<1>8. QED
  BY <1>1, <1>3, <1>4, <1>5, <1>6, <1>7, QuietStep

\* GetUpdateIndex and UpdateNeighbor keep EntriesInv.
LEMMA ConnectEntries ==
  ASSUME EntriesInv, IndexInv', NEW p \in Writers, GetUpdateIndex(p) \/ UpdateNeighbor(p)
  PROVE  EntriesInv'
<1> USE DEF EntriesInv
<1>1. /\ todo \in [Writers -> SUBSET Connection] /\ pc \in [Procs -> InsertPc \union VacuumPc]
      /\ job \in [Writers -> Job] /\ p \in Procs
  BY DEF IndexInv, TypeOK, Procs, Writers
<1>2. /\ UNCHANGED <<rowval, etup, lock, srch, sel>>
      /\ pc[p] \in {"connect", "update"} /\ pc'[p] \in {"connect", "update"}
      /\ pc' = [pc EXCEPT ![p] = pc'[p]]
  BY <1>1 DEF GetUpdateIndex, UpdateNeighbor
<1>3. todo' = [todo EXCEPT ![p] = todo'[p]] /\ todo'[p] \subseteq todo[p]
  <2>1. UNCHANGED todo \/ \E c \in todo[p] : todo' = [todo EXCEPT ![p] = @ \ {c}]
    BY Zenon DEF GetUpdateIndex, UpdateNeighbor
  <2>2. QED
    BY <1>1, <2>1
<1>4. \A q \in Writers : job'[q].heaptid = job[q].heaptid /\ job'[q].value = job[q].value
  <2>1. UNCHANGED job \/ \E i : job' = [job EXCEPT ![p].idx = i]
    BY Zenon DEF GetUpdateIndex, UpdateNeighbor
  <2>2. QED
    BY <1>1, <2>1 DEF Job
<1>5. QED
  BY <1>2, <1>3, <1>4, TodoEntries DEF Unwritten, RepairPc

\* RewriteNeighbors keeps EntriesInv.
LEMMA RewriteEntries ==
  ASSUME EntriesInv, IndexInv', RewriteNeighbors PROVE EntriesInv'
<1>1. /\ todo \in [Writers -> SUBSET Connection] /\ pc \in [Procs -> InsertPc \union VacuumPc]
      /\ Vac \in Procs /\ Vac \in Writers /\ Vac \notin Inserters
  BY DEF EntriesInv, IndexInv, TypeOK, Procs, Writers
<1>2. /\ UNCHANGED <<rowval, etup, lock, srch, sel, job>>
      /\ pc[Vac] = "rewrite" /\ pc' = [pc EXCEPT ![Vac] = "connect"]
      /\ todo' = [todo EXCEPT ![Vac] = sel[Vac]]
  BY DEF RewriteNeighbors
<1>3. QED
  BY <1>1, <1>2, TodoEntries DEF RepairPc

\* The end of a writer's work, by Release, keeps EntriesInv.
LEMMA ReleaseEntries ==
  ASSUME EntriesInv, IndexInv', NEW p \in Writers, Release(p), UNCHANGED <<rowval, etup>>,
         NEW x, pc' = [pc EXCEPT ![p] = x], x # "search",
         p \in Inserters => x = "idle",
         p = Vac => x \notin RepairPc /\ (PastBarrier' => PastBarrier)
  PROVE  EntriesInv'
<1> USE DEF EntriesInv
<1>1. /\ lock \in [Procs -> {"none", "share", "exclusive"}] /\ srch \in [Procs -> SearchState]
      /\ sel \in [Writers -> SUBSET Connection] /\ todo \in [Writers -> SUBSET Connection]
      /\ pc \in [Procs -> InsertPc \union VacuumPc] /\ job \in [Writers -> Job]
      /\ Writers \subseteq Procs /\ Vac \in Writers /\ Inserters \subseteq Writers
  BY DEF IndexInv, TypeOK, Procs, Writers
<1>2. /\ \A q \in Procs \ {p} : pc'[q] = pc[q] /\ lock'[q] = lock[q] /\ srch'[q] = srch[q]
      /\ \A q \in Writers \ {p} : sel'[q] = sel[q] /\ todo'[q] = todo[q] /\ job'[q] = job[q]
      /\ pc'[p] = x /\ lock'[p] = "none"
      /\ srch'[p].hnd = {} /\ sel'[p] = {} /\ todo'[p] = {}
  BY <1>1 DEF Release, NoSearch
<1>3. Held(p)' = {}
  BY <1>2 DEF Held
<1>4. \A q \in Writers \ {p} : Held(q)' = Held(q)
  BY <1>1, <1>2, HeldSame
<1>5. PastBarrier' => PastBarrier
  BY <1>1, <1>2 DEF PastBarrier
<1>6. pc'[Vac] \notin RepairPc => lock'[Vac] = "none"
  BY <1>1, <1>2 DEF HoldersLock
<1>7. QED
  BY <1>1, <1>2, <1>3, <1>4, <1>5, <1>6, QuietStep

\* The ends of an insert, of a repair and of a VACUUM that fails.
LEMMA EndEntries ==
  ASSUME EntriesInv, IndexInv',
         \/ \E p \in Inserters : InsertFinish(p) \/ InsertAbort(p)
         \/ RepairDone \/ VacuumAbort
  PROVE  EntriesInv'
<1>1. ASSUME NEW p \in Inserters, InsertFinish(p) \/ InsertAbort(p) PROVE EntriesInv'
  <2>1. p \in Writers /\ p # Vac
    BY DEF Writers
  <2>2. Release(p) /\ UNCHANGED <<rowval, etup>> /\ pc' = [pc EXCEPT ![p] = "idle"]
    BY <1>1 DEF InsertFinish, InsertAbort
  <2>3. QED
    BY <2>1, <2>2, ReleaseEntries
<1>2. CASE RepairDone
  <2>1. Vac \in Writers /\ Vac \notin Inserters /\ Vac \in Procs
    BY DEF Writers, Procs
  <2>2. Release(Vac) /\ UNCHANGED <<rowval, etup>>
    BY <1>2 DEF RepairDone
  <2>3. PICK x : x \in {"entry", "load", "check"} /\ pc' = [pc EXCEPT ![Vac] = x]
    BY <1>2 DEF RepairDone
  <2>4. PastBarrier
    BY <1>2 DEF RepairDone, PastBarrier
  <2>5. QED
    BY <2>1, <2>2, <2>3, <2>4, ReleaseEntries DEF RepairPc
<1>3. CASE VacuumAbort
  <2>1. Vac \in Writers /\ Vac \notin Inserters /\ Vac \in Procs
    BY DEF Writers, Procs
  <2>2. Release(Vac) /\ UNCHANGED <<rowval, etup>> /\ pc' = [pc EXCEPT ![Vac] = "idle"]
    BY <1>3 DEF VacuumAbort
  <2>3. pc'[Vac] = "idle"
    BY <2>1, <2>2 DEF EntriesInv, IndexInv, TypeOK
  <2>4. QED
    BY <2>1, <2>2, <2>3, ReleaseEntries DEF RepairPc, PastBarrier
<1>4. QED
  BY <1>1, <1>2, <1>3

\* Steps of inserts, scans and VACUUM that start a search or none: only the
\* search of one backend begins anew.
LEMMA SearchEntries ==
  ASSUME EntriesInv, IndexInv', NEW p \in Procs, NEW x,
         UNCHANGED <<rowval, etup, sel, todo>>,
         pc' = [pc EXCEPT ![p] = x],
         \/ UNCHANGED srch
         \/ \E n : n.hnd = {} /\ srch' = [srch EXCEPT ![p] = n],
         \/ UNCHANGED lock /\ x # "search"
         \/ \E m \in {"share", "exclusive"} : lock' = [lock EXCEPT ![p] = m]
         \/ p \in Scanners /\ \E m : lock' = [lock EXCEPT ![p] = m],
         \A q \in Inserters : job'[q].heaptid = job[q].heaptid /\ job'[q].value = job[q].value,
         p \in Inserters => pc[p] \in Unwritten,
         p = Vac => /\ PastBarrier' => PastBarrier
                    /\ x \notin RepairPc => UNCHANGED lock /\ pc[Vac] \notin RepairPc
  PROVE  EntriesInv'
<1> USE DEF EntriesInv
<1>1. /\ lock \in [Procs -> {"none", "share", "exclusive"}] /\ srch \in [Procs -> SearchState]
      /\ pc \in [Procs -> InsertPc \union VacuumPc]
      /\ Writers \subseteq Procs /\ Vac \in Writers /\ Inserters \subseteq Writers
      /\ Writers \cap Scanners = {}
  BY DEF IndexInv, TypeOK, Procs, Writers
<1>2. /\ \A q \in Procs \ {p} : pc'[q] = pc[q] /\ lock'[q] = lock[q]
      /\ pc'[p] = x
  BY <1>1
<1>3. \A q \in Procs : srch'[q].hnd \subseteq srch[q].hnd
  BY <1>1
<1>4. ASSUME NEW q \in Writers PROVE Held(q)' \subseteq Held(q)
  <2>1. srch'[q].hnd \subseteq srch[q].hnd /\ sel'[q] = sel[q] /\ todo'[q] = todo[q]
    BY <1>1, <1>3
  <2>2. QED
    BY <2>1 DEF Held
<1>5. \A q \in Writers : lock'[q] = "none" =>
        lock[q] = "none" /\ (pc'[q] = "search" => pc[q] = "search")
  BY <1>1, <1>2
<1>6. PastBarrier' => PastBarrier
  BY <1>1, <1>2 DEF PastBarrier
<1>7. pc'[Vac] \notin RepairPc => lock'[Vac] = "none"
  BY <1>1, <1>2 DEF HoldersLock
<1>8. \A q \in Inserters : pc'[q] # "idle" =>
        pc[q] # "idle" /\ (pc'[q] \in Unwritten => pc[q] \in Unwritten)
  BY <1>1, <1>2 DEF Unwritten
<1>9. QED
  BY <1>4, <1>5, <1>6, <1>7, <1>8, QuietStep

\* ReadNeighbors changes neither what is held nor who holds the lock.
LEMMA ReadNeighborsEntries ==
  ASSUME EntriesInv, IndexInv', NEW p \in Procs, ReadNeighbors(p) PROVE EntriesInv'
<1> USE DEF EntriesInv
<1>1. UNCHANGED <<rowval, etup, sel, todo, pc, lock, job>>
  BY DEF ReadNeighbors
<1>2. \A q \in Procs : srch'[q].hnd = srch[q].hnd
  <2> DEFINE list(h) == IF ntup[h.tid].version = h.version /\ ntup[h.tid].level = h.level
                          THEN ListPrefix(ntup[h.tid].tids[srch[p].lc], LayerM(srch[p].lc))
                          ELSE {}
             new(h) == list(h) \ srch[p].vis
  <2>1. PICK h \in srch[p].hnd \ srch[p].exp :
          srch' = [srch EXCEPT ![p].exp = @ \union {h}, ![p].pend = new(h),
                               ![p].vis = @ \union new(h)]
    BY DEF ReadNeighbors
  <2>2. srch \in [Procs -> SearchState]
    BY DEF IndexInv, TypeOK
  <2> HIDE DEF new
  <2>3. QED
    BY <2>1, <2>2 DEF SearchState
<1>3. \A q \in Writers : Held(q)' = Held(q)
  BY <1>1, <1>2, HeldSame DEF Procs
<1>4. QED
  BY <1>1, <1>3, QuietStep DEF HoldersLock, PastBarrier

\* InsertLock and InsertLockExclusive keep EntriesInv.
LEMMA InsertLockEntries ==
  ASSUME EntriesInv, IndexInv', NEW p \in Inserters, InsertLock(p) \/ InsertLockExclusive(p)
  PROVE  EntriesInv'
<1>1. /\ p \in Procs /\ p # Vac /\ p \in Writers
      /\ UNCHANGED <<rowval, etup, sel, todo>> /\ pc[p] \in Unwritten
  BY DEF InsertLock, InsertLockExclusive, Unwritten, Procs, Writers
<1>2. \/ UNCHANGED srch
      \/ \E n : n.hnd = {} /\ srch' = [srch EXCEPT ![p] = n]
  BY DEF InsertLock, InsertLockExclusive, FindNeighbors, NoSearch, Search
<1>3. job \in [Writers -> Job]
  BY DEF EntriesInv, IndexInv, TypeOK
<1>4. \A q \in Inserters : job'[q].heaptid = job[q].heaptid /\ job'[q].value = job[q].value
  BY <1>3 DEF InsertLock, InsertLockExclusive, Job, Writers
<1>5. \E x : pc' = [pc EXCEPT ![p] = x] /\
        \/ UNCHANGED lock /\ x # "search"
        \/ \E m \in {"share", "exclusive"} : lock' = [lock EXCEPT ![p] = m]
  BY DEF InsertLock, InsertLockExclusive
<1>6. QED
  BY <1>1, <1>2, <1>4, <1>5, SearchEntries

\* The steps of a scan keep EntriesInv.
LEMMA ScanEntries ==
  ASSUME EntriesInv, IndexInv', NEW p \in Scanners, ScanBegin(p) \/ EndScan(p)
  PROVE  EntriesInv'
<1>1. /\ p \in Procs /\ p # Vac /\ p \notin Inserters
      /\ UNCHANGED <<rowval, etup, sel, todo, job>>
  BY DEF ScanBegin, EndScan, Procs, Writers
<1>2. \E n : n.hnd = {} /\ srch' = [srch EXCEPT ![p] = n]
  BY DEF ScanBegin, EndScan, FindNeighbors, NoSearch, Search
<1>3. \E x, m : pc' = [pc EXCEPT ![p] = x] /\ lock' = [lock EXCEPT ![p] = m]
  BY DEF ScanBegin, EndScan
<1>4. QED
  BY <1>1, <1>2, <1>3, SearchEntries

\* The steps of VACUUM that only move on, or start the repair of an element.
LEMMA RepairEntries ==
  ASSUME EntriesInv, IndexInv',
         \/ VacuumBegin \/ LoadPage \/ CheckElement \/ PageRepaired \/ WaitForScans
         \/ RepairHighestPoint \/ RepairEntryPoint \/ RepairLock \/ RepairLockExclusive
  PROVE  EntriesInv'
<1>1. /\ UNCHANGED <<rowval, etup, sel, todo>>
      /\ Vac \in Procs /\ Vac \in Writers /\ Vac \notin Inserters /\ Vac \notin Scanners
      /\ Inserters \subseteq Writers
      /\ job \in [Writers -> Job] /\ pc \in [Procs -> InsertPc \union VacuumPc]
  BY DEF VacuumBegin, LoadPage, CheckElement, PageRepaired, WaitForScans, RepairHighestPoint,
         RepairEntryPoint, RepairLock, RepairLockExclusive, EntriesInv, IndexInv, TypeOK, Procs, Writers
<1>2. CASE /\ UNCHANGED <<job, lock, srch>>
           /\ \E x : /\ pc' = [pc EXCEPT ![Vac] = x]
                     /\ x \notin RepairPc /\ pc[Vac] \notin RepairPc
                     /\ x = "remove" \/ PastBarrier
  <2>1. PICK x : /\ pc' = [pc EXCEPT ![Vac] = x]
                 /\ x \notin RepairPc /\ pc[Vac] \notin RepairPc
                 /\ x = "remove" \/ PastBarrier
    BY <1>2
  <2>2. PastBarrier' => PastBarrier
    BY <1>1, <2>1 DEF PastBarrier
  <2>3. UNCHANGED <<job, lock, srch>> /\ x # "search"
    BY <1>2, <2>1 DEF RepairPc
  <2>4. QED
    BY <1>1, <2>1, <2>2, <2>3, SearchEntries
<1>3. CASE /\ \E e, entry, stage : \E m \in {"share", "exclusive"} : RepairElement(e, entry, stage, m)
           /\ PastBarrier /\ pc[Vac] \notin RepairPc
  <2>1. PICK e, entry, stage, m : m \in {"share", "exclusive"} /\ RepairElement(e, entry, stage, m)
    BY <1>3
  <2>2. lock' = [lock EXCEPT ![Vac] = m]
    BY <2>1 DEF RepairElement
  <2>3. PICK x : x \in RepairPc /\ pc' = [pc EXCEPT ![Vac] = x]
    BY <2>1 DEF RepairElement, RepairPc
  <2>4. \A q \in Inserters : job'[q] = job[q]
    BY <1>1, <2>1 DEF RepairElement
  <2>5. \/ UNCHANGED srch
        \/ \E n : n.hnd = {} /\ srch' = [srch EXCEPT ![Vac] = n]
    <3>1. PICK n : n \in {Search(entry), NoSearch} /\ srch' = [srch EXCEPT ![Vac] = n]
      BY <2>1 DEF RepairElement
    <3>2. n.hnd = {}
      BY <3>1 DEF Search, NoSearch
    <3>3. QED
      BY <3>1, <3>2
  <2>6. \E k \in {"share", "exclusive"} : lock' = [lock EXCEPT ![Vac] = k]
    BY <2>1, <2>2
  <2>7. QED
    BY <1>1, <1>3, <2>3, <2>4, <2>5, <2>6, SearchEntries
<1>4. CASE VacuumBegin \/ LoadPage \/ CheckElement \/ PageRepaired \/ WaitForScans
  <2>1. /\ UNCHANGED <<job, lock, srch>>
        /\ pc[Vac] \in {"idle", "load", "check", "scans"}
        /\ pc[Vac] = "idle" => pc' = [pc EXCEPT ![Vac] = "remove"]
        /\ UNCHANGED pc \/ \E x \in {"remove", "check", "rlock", "load", "scans", "mark"} :
                              pc' = [pc EXCEPT ![Vac] = x]
    BY <1>4 DEF VacuumBegin, LoadPage, CheckElement, PageRepaired, WaitForScans
  <2>2. UNCHANGED pc => pc' = [pc EXCEPT ![Vac] = pc[Vac]]
    BY <1>1
  <2>3. pc[Vac] # "idle" => PastBarrier
    BY <2>1 DEF PastBarrier
  <2>4. \A x \in {"remove", "check", "rlock", "load", "scans", "mark", "idle"} : x \notin RepairPc
    BY DEF RepairPc
  <2>5. QED
    BY <1>2, <2>1, <2>2, <2>3, <2>4
<1>5. CASE RepairHighestPoint \/ RepairEntryPoint \/ RepairLock \/ RepairLockExclusive
  <2>1. PastBarrier /\ pc[Vac] \notin RepairPc
    BY <1>5 DEF RepairHighestPoint, RepairEntryPoint, RepairLock, RepairLockExclusive,
                PastBarrier, RepairPc
  <2>2. \/ /\ UNCHANGED <<job, lock, srch>>
           /\ \E x \in {"entry", "load", "rlockx"} : pc' = [pc EXCEPT ![Vac] = x]
        \/ \E e, entry, stage : \E m \in {"share", "exclusive"} : RepairElement(e, entry, stage, m)
    BY <1>5 DEF RepairHighestPoint, RepairEntryPoint, RepairLock, RepairLockExclusive
  <2>3. \A x \in {"entry", "load", "rlockx"} : x \notin RepairPc
    BY DEF RepairPc
  <2>4. QED
    BY <1>2, <1>3, <2>1, <2>2, <2>3
<1>6. QED
  BY <1>4, <1>5

\* WaitForInserts: nobody holds an element, so the stronger half of TargetsHeld
\* starts to hold.
LEMMA WaitForInsertsEntries ==
  ASSUME EntriesInv, IndexInv', WaitForInserts PROVE EntriesInv'
<1> USE DEF EntriesInv
<1>1. /\ UNCHANGED <<rowval, etup, lock, job, srch, sel, todo>>
      /\ pc[Vac] = "barrier" /\ pc' = [pc EXCEPT ![Vac] = "high"]
      /\ pc \in [Procs -> InsertPc \union VacuumPc] /\ Vac \in Procs
      /\ Inserters \subseteq Procs /\ Vac \notin Inserters /\ Writers \subseteq Procs
  BY DEF WaitForInserts, IndexInv, TypeOK, Procs, Writers
<1>2. \A p \in Writers : lock[p] = "none"
  BY <1>1 DEF WaitForInserts, CanExclusive, HoldersLock, RepairPc
<1>3. \A p \in Writers : Held(p)' = {}
  <2>1. \A p \in Writers : Held(p) = {}
    BY <1>2 DEF HoldersLock
  <2>2. QED
    BY <1>1, <2>1 DEF Held
<1>4. TargetsHeld'
  BY <1>3 DEF TargetsHeld
<1>5. HoldersLock'
  <2>1. \A p \in Writers : pc'[p] # "search"
    BY <1>1, <1>2 DEF HoldersLock
  <2>2. lock'[Vac] = "none"
    BY <1>1, <1>2 DEF Writers
  <2>3. QED
    BY <1>3, <2>1, <2>2 DEF HoldersLock
<1>6. RowsUnderTheirValue'
  BY <1>1, RowsFrame
<1>7. \A p \in Inserters : pc'[p] = pc[p]
  BY <1>1
<1>8. InsertsOwnRow'
  BY <1>1, <1>7, OwnFrame
<1>9. QED
  BY <1>4, <1>5, <1>6, <1>8

\* InsertBegin: a new row takes a heap TID that no element holds.
LEMMA InsertBeginEntries ==
  ASSUME EntriesInv, IndexInv', NEW p \in Inserters, InsertBegin(p) PROVE EntriesInv'
<1> USE DEF EntriesInv
<1>1. PICK t \in HeapTids, v \in Values :
        /\ row[t] = "free"
        /\ rowval' = [rowval EXCEPT ![t] = v]
        /\ job'    = [job EXCEPT ![p].heaptid = t, ![p].value = v]
  BY DEF InsertBegin
<1>2. /\ UNCHANGED <<etup, lock, srch, sel, todo>>
      /\ pc[p] = "idle" /\ pc' = [pc EXCEPT ![p] = "lock"]
  BY DEF InsertBegin
<1>3. /\ pc \in [Procs -> InsertPc \union VacuumPc] /\ job \in [Writers -> Job]
      /\ rowval \in [HeapTids -> Values \union {Cleared}]
      /\ Inserters \subseteq Writers /\ Writers \subseteq Procs /\ Vac \in Writers /\ p # Vac
  BY DEF IndexInv, TypeOK, Procs, Writers
<1>4. \A q \in Procs \ {p} : pc'[q] = pc[q]
  BY <1>2, <1>3
<1>5. \A s \in Slots : t \notin etup[s].heaptids
  BY <1>1 DEF IndexInv, FreedRowsNotIndexed
<1>6. \A q \in Writers : Held(q)' = Held(q)
  BY <1>2, HeldSame
<1>7. PastBarrier' = PastBarrier
  BY <1>3, <1>4 DEF PastBarrier
<1>8. TargetsHeld'
  BY <1>2, <1>6, <1>7, TargetsFrame
<1>9. RowsUnderTheirValue'
  <2>1. \A s \in Slots : \A u \in etup'[s].heaptids : rowval'[u] = rowval[u]
    BY <1>1, <1>2, <1>3, <1>5
  <2>2. QED
    BY <1>2, <2>1, RowsFrame
<1>10. HoldersLock'
  <2>1. \A q \in Writers : pc'[q] = "search" => pc[q] = "search"
    BY <1>2, <1>3, <1>4
  <2>2. QED
    BY <1>2, <1>3, <1>4, <1>6, <2>1 DEF HoldersLock
<1>11. InsertsOwnRow'
  <2>1. ASSUME NEW q \in Inserters, q # p, pc[q] # "idle"
        PROVE  /\ job'[q] = job[q] /\ rowval'[job[q].heaptid] = rowval[job[q].heaptid]
    <3>1. job[q].heaptid \in HeapTids /\ job[q].heaptid # t
      BY <1>1, <2>1, OwnedRows
    <3>2. QED
      BY <1>1, <1>3, <2>1, <3>1
  <2>2. job'[p].heaptid = t /\ job'[p].value = v /\ rowval'[t] = v
    BY <1>1, <1>3 DEF Job
  <2>3. SUFFICES ASSUME NEW q \in Inserters
                 PROVE  InsertsOwnRow!(q)'
    BY DEF InsertsOwnRow
  <2>4. CASE q = p
    BY <1>2, <1>5, <2>2, <2>4
  <2>5. CASE q # p
    <3>1. pc'[q] = pc[q]
      BY <1>3, <1>4, <2>5
    <3>2. QED
      BY <1>2, <2>1, <2>5, <3>1 DEF InsertsOwnRow
  <2>6. QED
    BY <2>4, <2>5
<1>12. QED
  BY <1>8, <1>9, <1>10, <1>11

\* An insert adds its row to a tuple of its value, or to one that was empty.
LEMMA RowAdded ==
  ASSUME EntriesInv, NEW p \in Inserters, NEW s \in Slots, pc[p] = "add",
         UNCHANGED rowval,
         \A o \in Slots \ {s} : etup'[o] = etup[o],
         etup'[s].heaptids = etup[s].heaptids \union {job[p].heaptid},
         etup'[s].value = job[p].value,
         etup[s].heaptids # {} => etup[s].value = job[p].value,
         pc'[p] \in {"connect", "finish"},
         \A q \in Inserters \ {p} : pc'[q] = pc[q],
         \A q \in Inserters : job'[q].heaptid = job[q].heaptid /\ job'[q].value = job[q].value
  PROVE  RowsUnderTheirValue' /\ InsertsOwnRow'
<1> USE DEF EntriesInv
<1> DEFINE t == job[p].heaptid
<1>1. /\ rowval[t] = job[p].value
      /\ \A o \in Slots : t \notin etup[o].heaptids
  BY DEF InsertsOwnRow
<1>2. \A q \in Inserters \ {p} : pc[q] # "idle" => job[q].heaptid # t
  BY DEF IndexInv, RowsOwned
<1>3. \A o \in Slots : \A u \in etup'[o].heaptids :
        (u \in etup[o].heaptids) \/ (o = s /\ u = t)
  OBVIOUS
<1> HIDE DEF t
<1>4. RowsUnderTheirValue'
  <2>1. SUFFICES ASSUME NEW a \in Slots, NEW o \in Slots, NEW u \in etup'[a].heaptids
                 PROVE  /\ etup'[a].value = rowval'[u]
                        /\ u \in etup'[o].heaptids => o = a
    BY DEF RowsUnderTheirValue
  <2>2. CASE u = t
    <3>1. a = s /\ (u \in etup'[o].heaptids => o = s)
      BY <1>1, <1>3, <2>2
    <3>2. QED
      BY <1>1, <2>2, <3>1
  <2>3. CASE u # t
    <3>1. u \in etup[a].heaptids /\ (u \in etup'[o].heaptids => u \in etup[o].heaptids)
      BY <1>3, <2>3
    <3>2. etup[a].value = rowval[u] /\ (u \in etup[o].heaptids => o = a)
      BY <3>1 DEF RowsUnderTheirValue
    <3>3. etup'[a].value = etup[a].value
      BY <3>1
    <3>4. QED
      BY <3>1, <3>2, <3>3
  <2>4. QED
    BY <2>2, <2>3
<1>5. InsertsOwnRow'
  <2>1. SUFFICES ASSUME NEW q \in Inserters PROVE InsertsOwnRow!(q)'
    BY DEF InsertsOwnRow
  <2>2. CASE q = p
    BY <1>1, <2>2 DEF InsertsOwnRow
  <2>3. CASE q # p
    <3>1. InsertsOwnRow!(q) /\ pc'[q] = pc[q]
      BY <2>3 DEF InsertsOwnRow
    <3>2. QED
      BY <1>2, <1>3, <2>3, <3>1
  <2>4. QED
    BY <2>2, <2>3
<1>6. QED
  BY <1>4, <1>5

\* AddDuplicate keeps EntriesInv: the element found under the update lock is the
\* one the search loaded, so it has the row's value.
LEMMA AddDuplicateEntries ==
  ASSUME EntriesInv, IndexInv', NEW p \in Inserters, AddDuplicate(p) PROVE EntriesInv'
<1> USE DEF EntriesInv
<1>1. /\ UNCHANGED <<rowval, lock, job, srch, sel>> /\ pc[p] = "add"
      /\ p \in Writers /\ p \in Procs /\ p # Vac
      /\ Inserters \subseteq Procs /\ Vac \in Procs
  BY DEF AddDuplicate, Procs, Writers
<1>2. /\ todo \in [Writers -> SUBSET Connection] /\ pc \in [Procs -> InsertPc \union VacuumPc]
      /\ etup \in [Slots -> ElementTuple]
  BY DEF IndexInv, TypeOK
<1>3. PICK c \in todo[p] :
        /\ c.nb.value = job[p].value
        /\ \/ /\ Cardinality(etup[c.nb.tid].heaptids) \notin {0, HeapTidsMax}
              /\ etup' = [etup EXCEPT ![c.nb.tid].heaptids = @ \union {job[p].heaptid}]
              /\ pc'   = [pc EXCEPT ![p] = "finish"]
              /\ UNCHANGED todo
           \/ /\ todo' = [todo EXCEPT ![p] = @ \ {c}]
              /\ UNCHANGED <<etup, pc>>
  BY Zenon DEF AddDuplicate
<1>4. CASE todo' = [todo EXCEPT ![p] = @ \ {c}] /\ UNCHANGED <<etup, pc>>
  <2>1. todo' = [todo EXCEPT ![p] = todo'[p]] /\ todo'[p] \subseteq todo[p]
    BY <1>1, <1>2, <1>4
  <2>2. pc' = [pc EXCEPT ![p] = pc'[p]] /\ pc'[p] = "add"
    BY <1>1, <1>2, <1>4
  <2>3. QED
    BY <1>1, <1>4, <2>1, <2>2, TodoEntries
<1>5. CASE /\ etup' = [etup EXCEPT ![c.nb.tid].heaptids = @ \union {job[p].heaptid}]
           /\ pc'   = [pc EXCEPT ![p] = "finish"]
           /\ UNCHANGED todo
  <2> DEFINE s == c.nb.tid
  <2>1. c.nb \in Held(p) /\ c.nb \in Element
    BY <1>1, <1>2 DEF Held, Connection
  <2>2. s \in Slots
    BY <2>1 DEF Element
  <2>3. etup[s].value = job[p].value
    BY <1>1, <1>3, <2>1 DEF TargetsHeld, SameElement
  <2> HIDE DEF s
  <2>4. /\ \A o \in Slots \ {s} : etup'[o] = etup[o]
        /\ etup'[s].heaptids = etup[s].heaptids \union {job[p].heaptid}
        /\ \A o \in Slots : /\ etup'[o].used = etup[o].used /\ etup'[o].deleted = etup[o].deleted
                            /\ etup'[o].version = etup[o].version
                            /\ etup'[o].value = etup[o].value /\ etup'[o].level = etup[o].level
                            /\ etup[o].heaptids \subseteq etup'[o].heaptids
    BY <1>2, <1>5, <2>2 DEF ElementTuple, s
  <2>5. pc'[p] = "finish" /\ \A q \in Procs \ {p} : pc'[q] = pc[q]
    BY <1>1, <1>2, <1>5
  <2>6. \A q \in Writers : Held(q)' = Held(q)
    BY <1>1, <1>5, HeldSame
  <2>7. RowsUnderTheirValue' /\ InsertsOwnRow'
    BY <1>1, <2>2, <2>3, <2>4, <2>5, RowAdded
  <2>8. PastBarrier' = PastBarrier
    BY <1>1, <2>5 DEF PastBarrier
  <2>9. TargetsHeld'
    BY <2>4, <2>6, <2>8, TargetsFrame
  <2>10. HoldersLock'
    BY <1>1, <2>5, <2>6, LockFrame DEF HoldersLock, Procs
  <2>11. QED
    BY <2>7, <2>9, <2>10
<1>6. QED
  BY <1>3, <1>4, <1>5

\* AddElement keeps EntriesInv: the place it takes is nobody's.
LEMMA AddElementEntries ==
  ASSUME EntriesInv, IndexInv', NEW p \in Inserters, AddElement(p) PROVE EntriesInv'
<1> USE DEF EntriesInv
<1>1. /\ UNCHANGED <<rowval, lock, srch, sel>> /\ pc[p] = "add"
      /\ p \in Writers /\ p \in Procs /\ p # Vac
      /\ Inserters \subseteq Procs /\ Inserters \subseteq Writers /\ Vac \in Procs
      /\ pc' = [pc EXCEPT ![p] = "connect"] /\ todo' = [todo EXCEPT ![p] = sel[p]]
  BY DEF AddElement, Procs, Writers
<1>2. /\ todo \in [Writers -> SUBSET Connection] /\ pc \in [Procs -> InsertPc \union VacuumPc]
      /\ etup \in [Slots -> ElementTuple] /\ job \in [Writers -> Job]
  BY DEF IndexInv, TypeOK
<1>3. PICK s, version :
        /\ s \in Slots /\ FreeSlot(s)
        /\ etup' = [etup EXCEPT ![s] =
             [used |-> TRUE, deleted |-> FALSE, level |-> job[p].level,
              version |-> version, heaptids |-> {job[p].heaptid}, value |-> job[p].value]]
        /\ job' = [job EXCEPT ![p].tid = s, ![p].version = version]
  BY Zenon DEF AddElement
<1> s \in Slots
  BY <1>3
<1>4. ~(etup[s].used /\ ~etup[s].deleted) /\ etup[s].heaptids = {}
  BY <1>3 DEF FreeSlot, IndexInv, FreePlacesEmpty
<1>5. /\ \A o \in Slots \ {s} : etup'[o] = etup[o]
      /\ etup'[s].heaptids = etup[s].heaptids \union {job[p].heaptid}
      /\ etup'[s].value = job[p].value
  BY <1>2, <1>3, <1>4
<1>6. pc'[p] = "connect" /\ \A q \in Procs \ {p} : pc'[q] = pc[q]
  BY <1>1, <1>2
<1>7. \A q \in Writers : job'[q].heaptid = job[q].heaptid /\ job'[q].value = job[q].value
  BY <1>1, <1>2, <1>3 DEF Job
<1>8. RowsUnderTheirValue' /\ InsertsOwnRow'
  BY <1>1, <1>4, <1>5, <1>6, <1>7, RowAdded
<1>9. ASSUME NEW q \in Writers PROVE Held(q)' \subseteq Held(q)
  BY <1>1, <1>2 DEF Held
<1>10. PastBarrier' = PastBarrier
  BY <1>1, <1>6 DEF PastBarrier
<1>11. TargetsHeld'
  BY <1>4, <1>5, <1>9, <1>10, TargetsFrame
<1>12. HoldersLock'
  BY <1>1, <1>6, <1>9, LockFrame DEF HoldersLock, Procs
<1>13. QED
  BY <1>8, <1>11, <1>12

\* RemoveHeapTids only takes rows away, before the wait for the inserts.
LEMMA RemoveEntries ==
  ASSUME EntriesInv, IndexInv', RemoveHeapTids PROVE EntriesInv'
<1> USE DEF EntriesInv
<1>1. /\ UNCHANGED <<rowval, lock, job, srch, sel, todo>> /\ pc[Vac] = "remove"
      /\ \E x \in {"remove", "barrier"} : pc' = [pc EXCEPT ![Vac] = x]
      /\ etup' = [s \in Slots |-> IF OnPage(s) THEN [etup[s] EXCEPT !.heaptids = Remaining(s)]
                                  ELSE etup[s]]
  BY DEF RemoveHeapTids
<1>2. /\ pc \in [Procs -> InsertPc \union VacuumPc] /\ etup \in [Slots -> ElementTuple]
      /\ Vac \in Procs /\ Inserters \subseteq Procs /\ Vac \notin Inserters /\ Writers \subseteq Procs
  BY DEF IndexInv, TypeOK, Procs, Writers
<1>3. \A s \in Slots : /\ etup'[s].used = etup[s].used /\ etup'[s].deleted = etup[s].deleted
                       /\ etup'[s].version = etup[s].version
                       /\ etup'[s].value = etup[s].value /\ etup'[s].level = etup[s].level
                       /\ etup'[s].heaptids \subseteq etup[s].heaptids
  BY <1>1, <1>2 DEF ElementTuple, Remaining
<1>4. pc'[Vac] \in {"remove", "barrier"} /\ \A q \in Procs \ {Vac} : pc'[q] = pc[q]
  BY <1>1, <1>2
<1>5. ~PastBarrier /\ ~PastBarrier'
  BY <1>1, <1>4 DEF PastBarrier
<1>6. \A q \in Writers : Held(q)' = Held(q)
  BY <1>1, HeldSame
<1>7. TargetsHeld'
  BY <1>3, <1>5, <1>6, TargetsFrame
<1>8. RowsUnderTheirValue'
  BY <1>1, <1>3, RowsFrame
<1>9. HoldersLock'
  BY <1>1, <1>2, <1>4, <1>6, LockFrame DEF HoldersLock, RepairPc
<1>10. InsertsOwnRow'
  BY <1>1, <1>2, <1>3, <1>4, OwnFrame
<1>11. QED
  BY <1>7, <1>8, <1>9, <1>10

\* MarkDeleted reclaims empty elements, which nobody holds any more.
LEMMA MarkEntries ==
  ASSUME EntriesInv, IndexInv', MarkDeleted PROVE EntriesInv'
<1> USE DEF EntriesInv
<1>1. /\ UNCHANGED <<rowval, lock, job, srch, sel, todo>> /\ pc[Vac] = "mark"
      /\ \E x \in {"mark", "done"} : pc' = [pc EXCEPT ![Vac] = x]
      /\ etup' = [s \in Slots |-> IF ToDelete(s)
           THEN [etup[s] EXCEPT !.deleted = TRUE, !.value = Cleared,
                                !.version = NextVersion(etup[s].version)]
           ELSE etup[s]]
  BY DEF MarkDeleted
<1>2. /\ pc \in [Procs -> InsertPc \union VacuumPc] /\ etup \in [Slots -> ElementTuple]
      /\ Vac \in Procs /\ Inserters \subseteq Procs /\ Vac \notin Inserters /\ Writers \subseteq Procs
  BY DEF IndexInv, TypeOK, Procs, Writers
<1>3. \A s \in Slots : /\ etup'[s].heaptids = etup[s].heaptids
                       /\ etup[s].heaptids # {} => etup'[s] = etup[s]
  BY <1>1, <1>2, ZenonT(40) DEF ElementTuple, ToDelete
<1>4. pc'[Vac] \in {"mark", "done"} /\ \A q \in Procs \ {Vac} : pc'[q] = pc[q]
  BY <1>1, <1>2
<1>5. PastBarrier
  BY <1>1 DEF PastBarrier
<1>6. \A q \in Writers : Held(q)' = Held(q)
  BY <1>1, HeldSame
<1>7. TargetsHeld'
  BY <1>3, <1>5, <1>6, TargetsFrame
<1>8. RowsUnderTheirValue'
  BY <1>1, <1>3, RowsFrame
<1>9. HoldersLock'
  BY <1>1, <1>2, <1>4, <1>6, LockFrame DEF HoldersLock, RepairPc
<1>10. InsertsOwnRow'
  BY <1>1, <1>2, <1>3, <1>4, OwnFrame
<1>11. QED
  BY <1>7, <1>8, <1>9, <1>10

\* When VACUUM finishes, the rows it gives back are in no element and belong to
\* no insert.
LEMMA FinishEntries ==
  ASSUME EntriesInv, IndexInv', VacuumFinish PROVE EntriesInv'
<1> USE DEF EntriesInv
<1>1. /\ UNCHANGED <<etup, lock, job, srch, sel, todo>> /\ pc[Vac] = "done"
      /\ pc' = [pc EXCEPT ![Vac] = "idle"]
      /\ rowval' = [t \in HeapTids |-> IF t \in vac.dead THEN Cleared ELSE rowval[t]]
  BY DEF VacuumFinish
<1>2. /\ pc \in [Procs -> InsertPc \union VacuumPc] /\ etup \in [Slots -> ElementTuple]
      /\ Vac \in Procs /\ Inserters \subseteq Procs /\ Vac \notin Inserters /\ Writers \subseteq Procs
  BY DEF IndexInv, TypeOK, Procs, Writers
<1>3. \A t \in vac.dead : row[t] = "dead" /\ \A s \in Slots : t \notin etup[s].heaptids
  BY <1>1 DEF IndexInv, RowsOwned, VacuumSweeps, Swept, FreePlacesEmpty
<1>4. pc'[Vac] = "idle" /\ \A q \in Procs \ {Vac} : pc'[q] = pc[q]
  BY <1>1, <1>2
<1>5. ~PastBarrier'
  BY <1>4 DEF PastBarrier
<1>6. \A q \in Writers : Held(q)' = Held(q)
  BY <1>1, HeldSame
<1>7. TargetsHeld'
  BY <1>1, <1>5, <1>6, TargetsFrame
<1>8. \A s \in Slots : \A t \in etup[s].heaptids : t \in HeapTids /\ rowval'[t] = rowval[t]
  BY <1>1, <1>2, <1>3 DEF ElementTuple
<1>9. RowsUnderTheirValue'
  BY <1>1, <1>8, RowsFrame
<1>10. HoldersLock'
  BY <1>1, <1>2, <1>4, <1>6, LockFrame DEF HoldersLock, RepairPc
<1>11. \A q \in Inserters : pc[q] # "idle" => rowval'[job[q].heaptid] = rowval[job[q].heaptid]
  BY <1>1, <1>3, OwnedRows
<1>12. InsertsOwnRow'
  BY <1>1, <1>2, <1>4, <1>11, OwnFrame
<1>13. QED
  BY <1>7, <1>9, <1>10, <1>12

\* Steps that leave all of it alone.
LEMMA OtherEntries ==
  ASSUME EntriesInv, IndexInv', UNCHANGED <<rowval, etup, lock, pc, job, srch, sel, todo>>
  PROVE  EntriesInv'
<1>1. \A q \in Writers : Held(q)' = Held(q)
  BY HeldSame
<1>2. QED
  BY <1>1, QuietStep DEF EntriesInv, HoldersLock, PastBarrier

\* Every step keeps the invariant.
LEMMA NextEntries == ASSUME EntriesInv, [Next]_vars PROVE EntriesInv'
<1>1. IndexInv'
  BY NextInv DEF EntriesInv
<1>2. ASSUME NEW p \in Procs, WalkGraph(p) PROVE EntriesInv'
  <2>1. CASE LoadElement(p)
    BY <1>1, <2>1, LoadElementEntries
  <2>2. CASE ReadNeighbors(p)
    BY <1>1, <2>2, ReadNeighborsEntries
  <2>3. CASE NextLayer(p)
    BY <1>1, <2>3, LayerEndEntries
  <2>4. QED
    BY <1>2, <2>1, <2>2, <2>3 DEF WalkGraph
<1>3. ASSUME NEW p \in Writers, Connect(p) PROVE EntriesInv'
  <2>1. CASE WriterSearchDone(p)
    BY <1>1, <2>1, LayerEndEntries DEF Procs
  <2>2. CASE GetUpdateIndex(p) \/ UpdateNeighbor(p)
    BY <1>1, <2>2, ConnectEntries
  <2>3. QED
    BY <1>3, <2>1, <2>2 DEF Connect
<1>4. ASSUME NEW p \in Inserters, InsertBegin(p) \/ InsertStep(p) \/ InsertAbort(p)
      PROVE  EntriesInv'
  <2>1. CASE WalkGraph(p) \/ Connect(p)
    BY <1>2, <1>3, <2>1 DEF Procs, Writers
  <2>2. CASE InsertLock(p) \/ InsertLockExclusive(p)
    BY <1>1, <2>2, InsertLockEntries
  <2>3. CASE InsertBegin(p) \/ AddDuplicate(p) \/ AddElement(p)
    BY <1>1, <2>3, InsertBeginEntries, AddDuplicateEntries, AddElementEntries
  <2>4. CASE InsertFinish(p) \/ InsertAbort(p)
    BY <1>1, <2>4, EndEntries
  <2>5. QED
    BY <1>4, <2>1, <2>2, <2>3, <2>4 DEF InsertStep
<1>5. ASSUME NEW p \in Scanners, ScanBegin(p) \/ ScanStep(p) \/ ScanAbort(p)
      PROVE  EntriesInv'
  BY <1>1, <1>2, <1>5, ScanEntries DEF ScanStep, ScanDone, ScanAbort, Procs
<1>6. ASSUME RepairGraph PROVE EntriesInv'
  BY <1>1, <1>6, RepairEntries, WaitForInsertsEntries, RewriteEntries, EndEntries DEF RepairGraph
<1>7. ASSUME VacuumBegin \/ VacuumStep \/ VacuumAbort PROVE EntriesInv'
  BY <1>1, <1>2, <1>3, <1>6, <1>7, RemoveEntries, RepairEntries, MarkEntries, FinishEntries, EndEntries
  DEF VacuumStep, Procs, Writers
<1>8. ASSUME NEW t \in HeapTids, DeleteRow(t) PROVE EntriesInv'
  BY <1>1, <1>8, OtherEntries DEF DeleteRow
<1>9. CASE UNCHANGED vars
  BY <1>1, <1>9, OtherEntries DEF vars
<1>10. QED
  BY <1>4, <1>5, <1>7, <1>8, <1>9 DEF Next

\* It holds of an empty index.
LEMMA InitEntries == Init => EntriesInv
<1>1. SUFFICES ASSUME Init PROVE EntriesInv
  OBVIOUS
<1>2. IndexInv
  BY <1>1, InitInv
<1>3. \A p \in Writers : Held(p) = {} /\ lock[p] = "none" /\ pc[p] = "idle"
  BY <1>1 DEF Init, Held, NoSearch, Procs, Writers
<1>4. TargetsHeld /\ HoldersLock
  BY <1>3 DEF TargetsHeld, HoldersLock, Writers
<1>5. RowsUnderTheirValue
  BY <1>1 DEF Init, RowsUnderTheirValue
<1>6. InsertsOwnRow
  BY <1>3 DEF InsertsOwnRow, Writers
<1>7. QED
  BY <1>2, <1>4, <1>5, <1>6 DEF EntriesInv
-----------------------------------------------------------------------------
(***************************************************************************)
(* The theorems.                                                           *)
(***************************************************************************)

\* Every reachable state satisfies the second inductive invariant: who holds an
\* element holds the update lock, and VACUUM's wait between emptying elements and
\* reclaiming them therefore outlasts every insert that may still use one.
THEOREM EntriesInvariant == Spec => []EntriesInv
<1>1. EntriesInv /\ [Next]_vars => EntriesInv'
  BY NextEntries
<1>2. QED
  BY <1>1, InitEntries, PTL DEF Spec

\* AddDuplicateOnDisk and UpdateNeighborOnDisk write to the very element the
\* search loaded: MarkDeleted never reclaims it between the two.
THEOREM TargetsCorrect == Spec => []TargetsNotReclaimed
<1>1. EntriesInv => TargetsNotReclaimed
  BY DEF EntriesInv, TargetsHeld, TargetsNotReclaimed, SameElement, Held
<1>2. QED
  BY <1>1, EntriesInvariant, PTL

\* A heap TID is in at most one element, and that element has the row's vector.
THEOREM RowsValueCorrect == Spec => []RowsUnderTheirValue
<1>1. EntriesInv => RowsUnderTheirValue
  BY DEF EntriesInv
<1>2. QED
  BY <1>1, EntriesInvariant, PTL
-----------------------------------------------------------------------------
(***************************************************************************)
(* The index implements RowIndex: every step maps to a step or a stutter.  *)
(***************************************************************************)

\* The entries are the rows of the tuples under the tuples' values.
LEMMA EntriesSame ==
  ASSUME \A s \in Slots : /\ etup'[s].heaptids = etup[s].heaptids
                          /\ etup[s].heaptids # {} => etup'[s].value = etup[s].value
  PROVE  Entries' = Entries
BY DEF Entries

\* A row without a tuple has no entry.
LEMMA NoTupleNoEntry ==
  ASSUME NEW t, \A s \in Slots : t \notin etup[s].heaptids PROVE ~Rows!HasEntry(t)
BY DEF Rows!HasEntry, Entries

\* The steps that write neither the heap nor the rows of a tuple.
LEMMA StutterRows ==
  ASSUME UNCHANGED <<row, rowval, etup>> PROVE UNCHANGED Rows!vars
BY EntriesSame DEF Rows!vars

\* An insert makes the one entry of its row.
LEMMA InsertRefines ==
  ASSUME EntriesInv, NEW p \in Inserters, pc[p] = "add", NEW s \in Slots,
         UNCHANGED <<row, rowval>>,
         \A o \in Slots \ {s} : etup'[o] = etup[o],
         etup'[s].heaptids = etup[s].heaptids \union {job[p].heaptid},
         etup'[s].value = job[p].value,
         etup[s].heaptids # {} => etup[s].value = job[p].value
  PROVE  Rows!Next
<1> USE DEF EntriesInv
<1> DEFINE t == job[p].heaptid
<1>1. t \in HeapTids /\ row[t] = "inserting"
  BY OwnedRows
<1>2. rowval[t] = job[p].value /\ job[p].value \in Values
  BY DEF InsertsOwnRow
<1>3. ~Rows!HasEntry(t)
  <2>1. \A o \in Slots : t \notin etup[o].heaptids
    BY DEF InsertsOwnRow
  <2>2. QED
    BY <2>1, NoTupleNoEntry
<1> HIDE DEF t
<1>4. Entries' = Entries \union {<<t, rowval[t]>>}
  <2>1. ASSUME NEW x \in HeapTids \X (Values \union {Cleared})
        PROVE  x \in Entries' <=> x \in Entries \/ x = <<t, rowval[t]>>
    <3>1. ASSUME NEW o \in Slots
          PROVE  (x[1] \in etup'[o].heaptids /\ x[2] = etup'[o].value)
                 <=> \/ x[1] \in etup[o].heaptids /\ x[2] = etup[o].value
                     \/ o = s /\ x[1] = t /\ x[2] = rowval[t]
      BY <1>2 DEF t
    <3>2. (x[1] = t /\ x[2] = rowval[t]) <=> x = <<t, rowval[t]>>
      OBVIOUS
    <3>3. QED
      BY <3>1, <3>2 DEF Entries
  <2>2. <<t, rowval[t]>> \in HeapTids \X (Values \union {Cleared})
    BY <1>1, <1>2
  <2>3. /\ Entries \subseteq HeapTids \X (Values \union {Cleared})
        /\ Entries' \subseteq HeapTids \X (Values \union {Cleared})
    BY DEF Entries
  <2>4. QED
    BY <2>1, <2>2, <2>3
<1>5. Rows!Insert(t)
  BY <1>1, <1>3, <1>4 DEF Rows!Insert
<1>6. QED
  BY <1>1, <1>5 DEF Rows!Next

\* AddDuplicate and AddElement.
LEMMA AddRefines ==
  ASSUME EntriesInv, NEW p \in Inserters, AddDuplicate(p) \/ AddElement(p)
  PROVE  Rows!Next \/ UNCHANGED Rows!vars
<1> USE DEF EntriesInv
<1>1. /\ UNCHANGED <<row, rowval>> /\ pc[p] = "add" /\ p \in Writers
      /\ todo \in [Writers -> SUBSET Connection] /\ etup \in [Slots -> ElementTuple]
  BY DEF AddDuplicate, AddElement, IndexInv, TypeOK, Writers
<1>2. CASE AddElement(p)
  <2>1. PICK s, version :
          /\ s \in Slots /\ FreeSlot(s)
          /\ etup' = [etup EXCEPT ![s] =
               [used |-> TRUE, deleted |-> FALSE, level |-> job[p].level,
                version |-> version, heaptids |-> {job[p].heaptid}, value |-> job[p].value]]
    BY <1>2, Zenon DEF AddElement
  <2> s \in Slots
    BY <2>1
  <2>2. etup[s].heaptids = {}
    BY <2>1 DEF FreeSlot, IndexInv, FreePlacesEmpty
  <2>3. /\ \A o \in Slots \ {s} : etup'[o] = etup[o]
        /\ etup'[s].heaptids = etup[s].heaptids \union {job[p].heaptid}
        /\ etup'[s].value = job[p].value
    BY <1>1, <2>1, <2>2
  <2>4. QED
    BY <1>1, <2>2, <2>3, InsertRefines
<1>3. CASE AddDuplicate(p)
  <2>1. PICK c \in todo[p] :
          /\ c.nb.value = job[p].value
          /\ \/ etup' = [etup EXCEPT ![c.nb.tid].heaptids = @ \union {job[p].heaptid}]
             \/ UNCHANGED etup
    BY <1>3, Zenon DEF AddDuplicate
  <2>2. CASE UNCHANGED etup
    BY <1>1, <2>2, StutterRows
  <2>3. CASE etup' = [etup EXCEPT ![c.nb.tid].heaptids = @ \union {job[p].heaptid}]
    <3> DEFINE s == c.nb.tid
    <3>1. c.nb \in Held(p) /\ c.nb \in Element
      BY <1>1 DEF Held, Connection
    <3>2. s \in Slots
      BY <3>1 DEF Element
    <3>3. etup[s].value = job[p].value
      BY <1>1, <2>1, <3>1 DEF TargetsHeld, SameElement
    <3> HIDE DEF s
    <3>4. /\ \A o \in Slots \ {s} : etup'[o] = etup[o]
          /\ etup'[s].heaptids = etup[s].heaptids \union {job[p].heaptid}
          /\ etup'[s].value = etup[s].value
      BY <1>1, <2>3, <3>2 DEF ElementTuple, s
    <3>5. QED
      BY <1>1, <3>2, <3>3, <3>4, InsertRefines
  <2>4. QED
    BY <2>1, <2>2, <2>3
<1>4. QED
  BY <1>2, <1>3

\* The beginning and the ends of an insert, and DELETE.
LEMMA RowRefines ==
  ASSUME EntriesInv,
         \/ \E p \in Inserters : InsertBegin(p) \/ InsertFinish(p) \/ InsertAbort(p)
         \/ \E t \in HeapTids : DeleteRow(t)
  PROVE  Rows!Next
<1> USE DEF EntriesInv
<1>1. Entries' = Entries
  BY EntriesSame DEF InsertBegin, InsertFinish, InsertAbort, DeleteRow
<1>2. ASSUME NEW p \in Inserters, InsertBegin(p) PROVE Rows!Next
  <2>1. PICK t \in HeapTids, v \in Values :
          /\ row[t] = "free"
          /\ row'    = [row EXCEPT ![t] = "inserting"]
          /\ rowval' = [rowval EXCEPT ![t] = v]
    BY <1>2 DEF InsertBegin
  <2>2. Rows!BeginInsert(t, v)
    BY <1>1, <2>1 DEF Rows!BeginInsert
  <2>3. QED
    BY <2>2 DEF Rows!Next
<1>3. ASSUME NEW p \in Inserters, InsertFinish(p) PROVE Rows!Next
  <2> DEFINE t == job[p].heaptid
  <2>1. /\ pc[p] \in {"finish", "connect"} /\ UNCHANGED rowval
        /\ row' = [row EXCEPT ![t] = "live"]
    BY <1>3 DEF InsertFinish
  <2>2. t \in HeapTids /\ row[t] = "inserting" /\ rowval[t] \in Values
    BY <2>1, OwnedRows DEF InsertsOwnRow
  <2>3. PICK s \in Slots : t \in etup[s].heaptids
    BY <2>1 DEF IndexInv, InsertsIndexed, TypeOK, JobsNamed
  <2>4. etup[s].value = rowval[t]
    BY <2>3 DEF RowsUnderTheirValue
  <2>5. Rows!HasEntry(t)
    BY <2>2, <2>3, <2>4 DEF Rows!HasEntry, Entries
  <2>6. Rows!Commit(t)
    BY <1>1, <2>1, <2>2, <2>5 DEF Rows!Commit
  <2>7. QED
    BY <2>2, <2>6 DEF Rows!Next
<1>4. ASSUME NEW p \in Inserters, InsertAbort(p) PROVE Rows!Next
  <2>1. job[p].heaptid \in HeapTids /\ row[job[p].heaptid] = "inserting"
    BY <1>4, OwnedRows DEF InsertAbort
  <2>2. Rows!Kill(job[p].heaptid)
    BY <1>1, <1>4, <2>1 DEF Rows!Kill, InsertAbort
  <2>3. QED
    BY <2>1, <2>2 DEF Rows!Next
<1>5. ASSUME NEW t \in HeapTids, DeleteRow(t) PROVE Rows!Next
  <2>1. Rows!Kill(t)
    BY <1>1, <1>5 DEF Rows!Kill, DeleteRow
  <2>2. QED
    BY <2>1 DEF Rows!Next
<1>6. QED
  BY <1>2, <1>3, <1>4, <1>5

\* RemoveHeapTids drops entries of dead rows only.
LEMMA RemoveRefines ==
  ASSUME EntriesInv, RemoveHeapTids PROVE Rows!Next
<1> USE DEF EntriesInv
<1>1. /\ UNCHANGED <<row, rowval>> /\ etup \in [Slots -> ElementTuple]
      /\ etup' = [s \in Slots |-> IF OnPage(s) THEN [etup[s] EXCEPT !.heaptids = Remaining(s)]
                                  ELSE etup[s]]
      /\ \A t \in vac.dead : row[t] = "dead"
  BY DEF RemoveHeapTids, IndexInv, TypeOK, RowsOwned
<1>2. \A s \in Slots : /\ etup'[s].value = etup[s].value
                       /\ etup'[s].heaptids \subseteq etup[s].heaptids
                       /\ \A t \in etup[s].heaptids \ etup'[s].heaptids : t \in vac.dead
  BY <1>1 DEF ElementTuple, Remaining
<1>3. Entries' \subseteq Entries
  BY <1>2 DEF Entries
<1>4. \A x \in Entries \ Entries' : row[x[1]] = "dead"
  BY <1>1, <1>2 DEF Entries
<1>5. Rows!BulkDelete
  BY <1>1, <1>3, <1>4 DEF Rows!BulkDelete
<1>6. QED
  BY <1>5 DEF Rows!Next

\* MarkDeleted clears values of tuples without rows: no entry changes.
LEMMA MarkRefines ==
  ASSUME EntriesInv, MarkDeleted PROVE UNCHANGED Rows!vars
<1>1. /\ UNCHANGED <<row, rowval>> /\ etup \in [Slots -> ElementTuple]
      /\ etup' = [s \in Slots |-> IF ToDelete(s)
           THEN [etup[s] EXCEPT !.deleted = TRUE, !.value = Cleared,
                                !.version = NextVersion(etup[s].version)]
           ELSE etup[s]]
  BY DEF MarkDeleted, EntriesInv, IndexInv, TypeOK
<1>2. \A s \in Slots : /\ etup'[s].heaptids = etup[s].heaptids
                       /\ etup[s].heaptids # {} => etup'[s].value = etup[s].value
  BY <1>1 DEF ElementTuple, ToDelete
<1>3. QED
  BY <1>1, <1>2, EntriesSame DEF Rows!vars

\* VacuumFinish gives back dead rows that have no entry.
LEMMA FinishRefines ==
  ASSUME EntriesInv, VacuumFinish PROVE Rows!Next
<1> USE DEF EntriesInv
<1>1. /\ UNCHANGED etup /\ pc[Vac] = "done"
      /\ row' = [t \in HeapTids |-> IF t \in vac.dead THEN "free" ELSE row[t]]
      /\ rowval' = [t \in HeapTids |-> IF t \in vac.dead THEN Cleared ELSE rowval[t]]
  BY DEF VacuumFinish
<1>2. \A t \in vac.dead : row[t] = "dead" /\ \A s \in Slots : t \notin etup[s].heaptids
  BY <1>1 DEF IndexInv, RowsOwned, VacuumSweeps, Swept, FreePlacesEmpty
<1>3. vac.dead \in SUBSET {t \in HeapTids : row[t] = "dead"}
  BY <1>2, OwnedRows
<1>4. \A t \in vac.dead : ~Rows!HasEntry(t)
  BY <1>2, NoTupleNoEntry
<1>5. Entries' = Entries
  BY <1>1, EntriesSame
<1>6. Rows!Reclaim
  BY <1>1, <1>3, <1>4, <1>5 DEF Rows!Reclaim
<1>7. QED
  BY <1>6 DEF Rows!Next

\* Every step of the index is a step of RowIndex or changes nothing of it.
LEMMA NextRefines ==
  ASSUME EntriesInv, [Next]_vars PROVE [Rows!Next]_(Rows!vars)
<1>1. \/ \E p \in Inserters : InsertBegin(p) \/ InsertFinish(p) \/ InsertAbort(p)
      \/ \E t \in HeapTids : DeleteRow(t)
      \/ \E p \in Inserters : AddDuplicate(p) \/ AddElement(p)
      \/ RemoveHeapTids \/ MarkDeleted \/ VacuumFinish
      \/ UNCHANGED <<row, rowval, etup>>
  <2>1. ASSUME NEW p \in Procs, WalkGraph(p) \/ Connect(p) PROVE UNCHANGED <<row, rowval, etup>>
    BY <2>1 DEF WalkGraph, Connect, LoadElement, ReadNeighbors, NextLayer, WriterSearchDone,
                GetUpdateIndex, UpdateNeighbor
  <2>2. ASSUME NEW p \in Inserters, InsertLock(p) \/ InsertLockExclusive(p)
        PROVE  UNCHANGED <<row, rowval, etup>>
    BY <2>2 DEF InsertLock, InsertLockExclusive
  <2>3. ASSUME NEW p \in Scanners, ScanBegin(p) \/ ScanDone(p) \/ ScanAbort(p)
        PROVE  UNCHANGED <<row, rowval, etup>>
    BY <2>3 DEF ScanBegin, ScanDone, ScanAbort, EndScan
  <2>4. ASSUME RepairGraph PROVE UNCHANGED <<row, rowval, etup>>
    BY <2>4 DEF RepairGraph, WaitForInserts, RepairHighestPoint, RepairEntryPoint, LoadPage,
                CheckElement, PageRepaired, RepairLock, RepairLockExclusive, RewriteNeighbors,
                RepairDone
  <2>5. ASSUME VacuumBegin \/ WaitForScans \/ VacuumAbort PROVE UNCHANGED <<row, rowval, etup>>
    BY <2>5 DEF VacuumBegin, WaitForScans, VacuumAbort
  <2>6. CASE UNCHANGED vars
    BY <2>6 DEF vars
  <2>7. CASE \E p \in Inserters : InsertBegin(p) \/ InsertStep(p) \/ InsertAbort(p)
    <3>1. PICK p \in Inserters : InsertBegin(p) \/ InsertStep(p) \/ InsertAbort(p)
      BY <2>7
    <3>2. WalkGraph(p) \/ Connect(p) => UNCHANGED <<row, rowval, etup>>
      <4>1. p \in Procs
        BY DEF Procs, Writers
      <4>2. QED
        BY <2>1, <4>1, Zenon
    <3>3. InsertLock(p) \/ InsertLockExclusive(p) => UNCHANGED <<row, rowval, etup>>
      BY <2>2
    <3>4. QED
      BY <3>1, <3>2, <3>3, Zenon DEF InsertStep
  <2>8. CASE \E p \in Scanners : ScanBegin(p) \/ ScanStep(p) \/ ScanAbort(p)
    <3>1. PICK p \in Scanners : ScanBegin(p) \/ ScanStep(p) \/ ScanAbort(p)
      BY <2>8
    <3>2. WalkGraph(p) => UNCHANGED <<row, rowval, etup>>
      <4>1. p \in Procs
        BY DEF Procs, Writers
      <4>2. QED
        BY <2>1, <4>1, Zenon
    <3>3. ScanBegin(p) \/ ScanDone(p) \/ ScanAbort(p) => UNCHANGED <<row, rowval, etup>>
      BY <2>3
    <3>4. QED
      BY <3>1, <3>2, <3>3, Zenon DEF ScanStep
  <2>9. CASE VacuumBegin \/ VacuumStep \/ VacuumAbort
    <3>1. WalkGraph(Vac) \/ Connect(Vac) => UNCHANGED <<row, rowval, etup>>
      <4>1. Vac \in Procs
        BY DEF Procs, Writers
      <4>2. QED
        BY <2>1, <4>1, Zenon
    <3>2. QED
      BY <2>4, <2>5, <2>9, <3>1, Zenon DEF VacuumStep
  <2>10. QED
    BY <2>6, <2>7, <2>8, <2>9, Zenon DEF Next
<1>2. QED
  BY <1>1, RowRefines, AddRefines, RemoveRefines, MarkRefines, FinishRefines, StutterRows

\* The on-disk index, under every interleaving of inserts, scans and VACUUM, is a
\* plain set of entries to the table: one per row, under its vector, made before
\* the row commits, dropped only when the row is dead, and gone before its TID is
\* given back.
THEOREM Refinement == Spec => ImplementsRowIndex
<1>1. Init => Rows!Init
  BY DEF Init, Rows!Init, Entries
<1>2. EntriesInv /\ [Next]_vars => [Rows!Next]_(Rows!vars)
  BY NextRefines
<1>3. QED
  BY <1>1, <1>2, EntriesInvariant, PTL DEF Spec, ImplementsRowIndex, Rows!Spec
-----------------------------------------------------------------------------
(***************************************************************************)
(* The inductive invariant behind LinksIntact and ScansLoadIntactElements, *)
(* on top of EntriesInv, as long as no insert draws a level above 0: with  *)
(* two layers the first finding of the README violates both.               *)
(***************************************************************************)

\* The level drawn by an insert in progress is 0; then nothing leaves layer 0.
LowLevels == \A p \in Inserters : job[p].level = 0
OneLayer ==
  /\ \A s \in Slots : etup[s].level = 0 /\ ntup[s].level = 0
  /\ \A p \in Procs : srch[p].lc = 0
  /\ \A p \in Writers : /\ job[p].level = 0
                        /\ \A c \in sel[p] \union todo[p] : c.lc = 0

\* The connections of an element; has it rows; is it in the graph, with rows or
\* emptied, and not reclaimed?
Links(s)  == {ntup[s].tids[0][i] : i \in 1..(2 * M)} \ {NoTid}
Holds(s)  == etup[s].heaptids # {}
Placed(s) == etup[s].used /\ ~etup[s].deleted

\* No connection leads to an element without rows.
Clean(s) == \A t \in Links(s) : Holds(t)

LinksUsed == \A s \in Slots : \A t \in Links(s) : etup[t].used

\* Who is where holds which lock, and has read which entry point. The insert that
\* found none is alone, and nobody has added anything to its element.
NoLockPc  == {"idle", "lock", "lockx"}
ConnectPc == {"connect", "update"}
Untouched(p) ==
  Links(job[p].tid) = {} /\ etup[job[p].tid].heaptids = {job[p].heaptid}
InserterLocks(p) ==
  /\ lock[p] = "none" <=> pc[p] \in NoLockPc
  /\ ep[p].tid # NoTid => meta.tid # NoTid /\ pc[p] \notin NoLockPc
  /\ ep[p].tid = NoTid =>
       /\ pc[p] # "search"
       /\ srch[p].hnd = {} /\ srch[p].pend = {} /\ sel[p] = {} /\ todo[p] = {}
       /\ pc[p] \in ConnectPc => Untouched(p)
ScannerLocks(p) == lock[p] = "none" => srch[p].hnd = {} /\ srch[p].pend = {}
LocksMatch ==
  /\ \A p \in Inserters : InserterLocks(p)
  /\ \A p \in Scanners : ScannerLocks(p)
  /\ pc[Vac] \in RepairPc => lock[Vac] # "none"

\* What VACUUM repairs has rows.
RepairsHold ==
  vac.stage # "none" => /\ Holds(job[Vac].tid)
                        /\ vac.stage = "high" => job[Vac].tid = vac.high.tid
                        /\ vac.stage = "entry" => job[Vac].tid = meta.tid

\* A set of elements that are not reclaimed and that no connection leaves, with all
\* that have rows, the entry point, and what is on the way of anybody.
Closed(G) == \A s \in G : Placed(s) /\ Links(s) \subseteq G
ScanIn(p, G) == srch[p].pend \subseteq G /\ \A h \in srch[p].hnd : h.tid \in G
Region(G) ==
  /\ Closed(G)
  /\ \A s \in Slots : Holds(s) => s \in G
  /\ meta.tid # NoTid => meta.tid \in G
  /\ \A p \in Scanners : ScanIn(p, G)
  /\ \A p \in Writers : \A h \in Held(p) : h.tid \in G
Intact == \E G \in SUBSET Slots : Region(G)

\* The graph that inserts made since VACUUM found no entry point: no connection
\* leads from it to an element with rows that VACUUM removes.
InsertIn(p, H) ==
  /\ ScanIn(p, H)
  /\ \A c \in sel[p] \union todo[p] : c.nb.tid \in H
  /\ pc[p] \in ConnectPc => job[p].tid \in H
NewGraph(H) ==
  /\ \A s \in H : Holds(s) /\ etup[s].heaptids \intersect vac.dead = {} /\ Links(s) \subseteq H
  /\ meta.tid # NoTid => meta.tid \in H
  /\ \A p \in Inserters : InsertIn(p, H)
EntryKnown ==
  pc[Vac] \in {"remove", "barrier"} =>
    IF vac.entry = NoTid THEN \E H \in SUBSET Slots : NewGraph(H)
    ELSE meta.tid = vac.entry /\ vac.high.tid # vac.entry

\* What was repaired so far, or is not to be, leads to no element without rows: what
\* inserts connect, the element repaired, the highest point, the entry point.
InsertsClean == PastBarrier => \A p \in Inserters : pc[p] \in ConnectPc => Clean(job[p].tid)
JobClean == pc[Vac] \in {"connect", "update", "repaired"} => Clean(job[Vac].tid)
AtEntry(stages) == pc[Vac] \in stages \/ vac.stage \in stages
HighClean ==
  /\ AtEntry({"high", "entry"}) /\ meta.tid # NoTid /\ meta.tid = vac.high.tid => Clean(meta.tid)
  /\ AtEntry({"entry"}) /\ vac.high.tid # NoTid => Clean(vac.high.tid)
InLoop == pc[Vac] \in {"load", "check", "rlock", "rlockx", "scans", "mark"} \/ vac.stage = "element"
EntryClean == InLoop /\ meta.tid # NoTid => Clean(meta.tid)

\* RepairGraph's loop: all that have rows, but those on this page or on a later one.
Checked(s) ==
  \/ Clean(s)
  \/ \E e \in vac.queue : e.tid = s
  \/ PageOf[s] >= vac.blk /\ vac.more
LoopClean ==
  /\ pc[Vac] = "load" => \A s \in Slots : Holds(s) => Clean(s) \/ PageOf[s] >= vac.blk
  /\ pc[Vac] \in {"check", "rlock", "rlockx"} \/ vac.stage = "element" =>
       \A s \in Slots : Holds(s) => Checked(s)
  /\ pc[Vac] \in {"scans", "mark"} => \A s \in Slots : Holds(s) => Clean(s)

\* A scan begun after the wait of MarkDeleted meets no element without rows.
ScanHolds(p) == /\ \A t \in srch[p].pend : Holds(t)
                /\ \A h \in srch[p].hnd : Holds(h.tid)
ScansHold == pc[Vac] = "mark" => \A p \in Scanners : ScanHolds(p)

VacuumClean == InsertsClean /\ JobClean /\ HighClean /\ EntryClean /\ LoopClean

LinksInv ==
  /\ LinksUsed /\ LocksMatch /\ RepairsHold /\ Intact /\ EntryKnown
  /\ VacuumClean /\ ScansHold
-----------------------------------------------------------------------------
(***************************************************************************)
(* What a step does.                                                       *)
(***************************************************************************)

\* Only backend p moves.
OnlyMoves(p) ==
  /\ \A q \in Procs \ {p} :
       lock'[q] = lock[q] /\ pc'[q] = pc[q] /\ ep'[q] = ep[q] /\ srch'[q] = srch[q]
  /\ \A q \in Writers \ {p} : job'[q] = job[q] /\ sel'[q] = sel[q] /\ todo'[q] = todo[q]

\* To the graph: new connections lead to R, new rows are in T, and who has rows
\* without having had any is a new element.
Added(s) == Placed(s)' /\ ~Placed(s)
Growth(R, T) ==
  \A s \in Slots :
    /\ etup[s].used => etup'[s].used
    /\ Links(s)' \subseteq Links(s) \union R
    /\ etup'[s].heaptids \subseteq etup[s].heaptids \union T
    /\ Added(s) => Links(s)' \subseteq R /\ Holds(s)'
    /\ Holds(s)' /\ ~Holds(s) => Added(s)
RowsStay   == \A s \in Slots : Holds(s) => Holds(s)'
PlacesStay == \A s \in Slots : Placed(s) => Placed(s)'

\* The elements a writer may connect; the row it adds.
Reach(p) ==
  {h.tid : h \in Held(p)} \union
  {s \in {job[p].tid} : IF p = Vac THEN vac.stage # "none" ELSE pc[p] \in ConnectPc}
OwnRow(p) == {t \in {job[p].heaptid} : pc[p] \notin NoLockPc}

\* A search goes from the entry point along connections.
Walks(p) ==
  /\ \A t \in srch'[p].pend :
       \/ t \in srch[p].pend
       \/ meta.tid # NoTid /\ t = meta.tid
       \/ \E h \in srch[p].hnd : t \in Links(h.tid)
  /\ \A h \in srch'[p].hnd : h \in srch[p].hnd \/ h.tid \in srch[p].pend

\* What a writer holds, it held or has rows.
Holding(p) == \A h \in Held(p)' : h \in Held(p) \/ (h.tid \in Slots /\ Holds(h.tid))

\* Who had no connection to an element without rows, still has none, nor has a new
\* element.
CleanStays ==
  \A s \in Slots : /\ Holds(s) => Holds(s)'
                   /\ Clean(s) => Clean(s)'
                   /\ Holds(s)' /\ ~Holds(s) => Clean(s)'
-----------------------------------------------------------------------------
\* On layer 0 only.
LEMMA LayerTypes ==
  ASSUME OneLayer, TypeOK
  PROVE  /\ LayerM(0) = 2 * M
         /\ \A p \in Procs : srch[p].lc = 0
         /\ \A p \in Writers : \A c \in sel[p] \union todo[p] : c \in Connection /\ c.lc = 0
BY DEF OneLayer, TypeOK, LayerM

\* Connections lead to places.
LEMMA LinksType ==
  ASSUME TypeOK, NEW s \in Slots PROVE Links(s) \in SUBSET Slots
<1>1. ntup[s].tids \in Lists /\ 0 \in Levels
  BY DEF TypeOK, NeighborTuple, Levels
<1>2. ntup[s].tids[0] \in [1..(2 * M) -> Tids0]
  BY <1>1 DEF Lists
<1>3. \A i \in 1..(2 * M) : ntup[s].tids[0][i] \in Tids0
  BY <1>2
<1>4. QED
  BY <1>3 DEF Links, Tids0

\* What a reader takes from a list are connections.
LEMMA PrefixLinks ==
  ASSUME NEW s PROVE ListPrefix(ntup[s].tids[0], LayerM(0)) \subseteq Links(s)
<1>1. LayerM(0) = 2 * M
  BY DEF LayerM
<1>2. QED
  BY <1>1 DEF ListPrefix, Links

\* What a writer may connect is in the graph, and has rows once VACUUM has waited.
LEMMA ReachGood ==
  ASSUME EntriesInv, RepairsHold, NEW p \in Writers, NEW t \in Reach(p)
  PROVE  /\ t \in Slots /\ Placed(t)
         /\ PastBarrier => Holds(t)
         /\ Holds(t) \/ \E h \in Held(p) : h.tid = t
<1>1. CASE t \in {h.tid : h \in Held(p)}
  <2>1. PICK h \in Held(p) : h.tid = t
    BY <1>1
  <2>2. h \in Element /\ t \in Slots
    BY <2>1, HeldType DEF EntriesInv, IndexInv, Element
  <2>3. SameElement(h) /\ (PastBarrier => etup[h.tid].heaptids # {})
    BY DEF EntriesInv, TargetsHeld
  <2>4. QED
    BY <2>1, <2>2, <2>3 DEF SameElement, Placed, Holds
<1>2. CASE t = job[p].tid /\ IF p = Vac THEN vac.stage # "none" ELSE pc[p] \in ConnectPc
  <2>1. t \in Slots /\ Holds(t)
    <3>1. CASE p = Vac
      <4>1. vac.stage # "none" /\ t = job[Vac].tid
        BY <1>2, <3>1
      <4>2. job[Vac].tid \in Slots
        BY <4>1 DEF EntriesInv, IndexInv, TypeOK, JobsNamed
      <4>3. QED
        BY <4>1, <4>2 DEF RepairsHold
    <3>2. CASE p \in Inserters
      <4>1. p # Vac
        BY <3>2
      <4>2. job[p].tid \in Slots
        BY <1>2, <3>2, <4>1 DEF EntriesInv, IndexInv, TypeOK, JobsNamed, ConnectPc
      <4>3. job[p].heaptid \in etup[job[p].tid].heaptids
        BY <1>2, <3>2, <4>1 DEF EntriesInv, IndexInv, InsertsIndexed, ConnectPc
      <4>4. QED
        BY <1>2, <4>2, <4>3 DEF Holds
    <3>3. QED
      BY <3>1, <3>2 DEF Writers
  <2>2. Placed(t)
    BY <2>1 DEF EntriesInv, IndexInv, FreePlacesEmpty, Holds, Placed
  <2>3. QED
    BY <2>1, <2>2
<1>3. QED
  BY <1>1, <1>2 DEF Reach

\* An element with rows is not reclaimed.
LEMMA HoldsPlaced ==
  ASSUME EntriesInv, NEW s \in Slots, Holds(s) PROVE Placed(s)
BY DEF EntriesInv, IndexInv, FreePlacesEmpty, Holds, Placed
-----------------------------------------------------------------------------
(***************************************************************************)
(* What the parts of the invariant need of a step.                         *)
(***************************************************************************)
LEMMA UsedFrame ==
  ASSUME TypeOK, LinksUsed, NEW R, NEW T, Growth(R, T), \A t \in R : t \in Slots /\ etup[t].used
  PROVE  LinksUsed'
<1>1. SUFFICES ASSUME NEW s \in Slots, NEW t \in Links(s)' PROVE etup'[t].used
  BY DEF LinksUsed
<1>2. t \in Links(s) \/ t \in R
  BY <1>1 DEF Growth
<1>3. t \in Slots /\ etup[t].used
  BY <1>2, LinksType DEF LinksUsed
<1>4. QED
  BY <1>3 DEF Growth

\* If all that connections are added to have rows, and no row is lost, what was clean is.
LEMMA CleanFrame ==
  ASSUME TypeOK, NEW R, NEW T, Growth(R, T), \A t \in R : t \in Slots /\ Holds(t), RowsStay
  PROVE  CleanStays
<1>1. SUFFICES ASSUME NEW s \in Slots
               PROVE  /\ Clean(s) => Clean(s)'
                      /\ Holds(s)' /\ ~Holds(s) => Clean(s)'
  BY DEF CleanStays, RowsStay
<1>2. \A t \in R : Holds(t)'
  BY DEF RowsStay
<1>3. ASSUME Clean(s) PROVE Clean(s)'
  <2>1. \A t \in Links(s) : Holds(t)'
    BY <1>3, LinksType DEF Clean, RowsStay
  <2>2. Links(s)' \subseteq Links(s) \union R
    BY DEF Growth
  <2>3. QED
    BY <1>2, <2>1, <2>2 DEF Clean
<1>4. ASSUME Holds(s)', ~Holds(s) PROVE Clean(s)'
  <2>1. Links(s)' \subseteq R
    BY <1>4 DEF Growth
  <2>2. QED
    BY <1>2, <2>1 DEF Clean
<1>5. QED
  BY <1>3, <1>4

\* A region survives, with the new elements, whatever adds connections into it only.
LEMMA RegionFrame ==
  ASSUME EntriesInv, NEW G \in SUBSET Slots, Region(G), NEW R \in SUBSET G, NEW T, Growth(R, T),
         PlacesStay,
         meta'.tid # NoTid => meta'.tid = meta.tid \/ (meta'.tid \in Slots /\ Holds(meta'.tid)),
         \A p \in Scanners : ScanIn(p, G)',
         \A p \in Writers : Holding(p)
  PROVE  Intact'
<1>0. PICK G2 \in SUBSET Slots : G2 = G \union {s \in Slots : Added(s)}
  OBVIOUS
<1>1. Closed(G2)'
  <2>1. SUFFICES ASSUME NEW s \in G2 PROVE Placed(s)' /\ Links(s)' \subseteq G2
    BY DEF Closed
  <2>2. CASE s \in G
    BY <1>0, <2>2 DEF Region, Closed, PlacesStay, Growth
  <2>3. CASE s \in Slots /\ Added(s)
    BY <1>0, <2>3 DEF Growth, Added
  <2>4. QED
    BY <1>0, <2>1, <2>2, <2>3
<1>2. \A s \in Slots : Holds(s)' => s \in G2
  BY <1>0 DEF Region, Growth
<1>3. meta'.tid # NoTid => meta'.tid \in G2
  BY <1>0 DEF Region
<1>4. \A p \in Scanners : ScanIn(p, G2)'
  BY <1>0 DEF ScanIn
<1>5. ASSUME NEW p \in Writers, NEW h \in Held(p)' PROVE h.tid \in G2
  <2>1. CASE h \in Held(p)
    BY <1>0, <2>1 DEF Region
  <2>2. CASE h.tid \in Slots /\ Holds(h.tid)
    BY <1>0, <2>2 DEF Region
  <2>3. QED
    BY <1>5, <2>1, <2>2 DEF Holding
<1>6. Region(G2)'
  BY <1>1, <1>2, <1>3, <1>4, <1>5 DEF Region
<1>7. QED
  BY <1>6 DEF Intact
-----------------------------------------------------------------------------
(***************************************************************************)
(* The steps of a search, and of connecting elements.                      *)
(***************************************************************************)
LEMMA VarTypes ==
  ASSUME TypeOK
  PROVE  /\ lock \in [Procs -> {"none", "share", "exclusive"}]
         /\ pc \in [Procs -> InsertPc \union VacuumPc]
         /\ ep \in [Procs -> Entry] /\ srch \in [Procs -> SearchState]
         /\ job \in [Writers -> Job]
         /\ sel \in [Writers -> SUBSET Connection] /\ todo \in [Writers -> SUBSET Connection]
         /\ etup \in [Slots -> ElementTuple] /\ ntup \in [Slots -> NeighborTuple]
BY DEF TypeOK

\* The sorts of backends.
LEMMA ProcNames ==
  /\ Writers \subseteq Procs /\ Scanners \subseteq Procs /\ Inserters \subseteq Writers
  /\ Inserters \subseteq Procs /\ Vac \in Writers /\ Vac \in Procs
  /\ Vac \notin Inserters /\ Vac \notin Scanners
  /\ \A p \in Writers : p \notin Scanners /\ (p # Vac => p \in Inserters)
  /\ \A p \in Procs : p \notin Writers => p \in Scanners
BY DEF Writers, Procs

\* Nothing happens to the graph.
LEMMA QuietGrowth ==
  ASSUME UNCHANGED <<etup, ntup>>
  PROVE  RowsStay /\ PlacesStay /\ \A R, T : Growth(R, T)
BY DEF RowsStay, PlacesStay, Growth, Added, Placed, Holds, Links

\* Loading an element is a step along the connections.
LEMMA LoadWalks ==
  ASSUME TypeOK, NEW p \in Procs, LoadElement(p)
  PROVE  OnlyMoves(p) /\ Walks(p) /\ (p \in Writers => Holding(p))
<1>1. PICK t \in srch[p].pend :
        srch' = [srch EXCEPT ![p].pend = @ \ {t},
                             ![p].hnd = IF etup[t].level < srch[p].lc THEN @
                                        ELSE @ \union {LoadFromTuple(t)}]
  BY DEF LoadElement
<1>2. UNCHANGED <<lock, pc, job, ep, sel, todo>>
  BY DEF LoadElement
<1>3. srch[p] \in SearchState /\ srch \in [Procs -> SearchState]
  BY VarTypes
<1>4. t \in Slots
  BY <1>3 DEF SearchState
<1>5. /\ srch'[p].pend \subseteq srch[p].pend
      /\ srch'[p].hnd \subseteq srch[p].hnd \union {LoadFromTuple(t)}
      /\ \A q \in Procs \ {p} : srch'[q] = srch[q]
  BY <1>1, <1>3
<1>6. LoadFromTuple(t).tid = t /\ (LoadFromTuple(t).live => Holds(t))
  BY DEF LoadFromTuple, Holds
<1>7. OnlyMoves(p)
  BY <1>2, <1>5 DEF OnlyMoves
<1>8. Walks(p)
  BY <1>5, <1>6 DEF Walks
<1>9. ASSUME p \in Writers, NEW h \in Held(p)'
      PROVE  h \in Held(p) \/ (h.tid \in Slots /\ Holds(h.tid))
  BY <1>2, <1>4, <1>5, <1>6, <1>9 DEF Held
<1>10. QED
  BY <1>7, <1>8, <1>9 DEF Holding

\* So is reading its neighbors, on layer 0.
LEMMA ReadWalks ==
  ASSUME TypeOK, OneLayer, NEW p \in Procs, ReadNeighbors(p)
  PROVE  OnlyMoves(p) /\ Walks(p) /\ (p \in Writers => Holding(p))
<1> DEFINE list(h) == IF ntup[h.tid].version = h.version /\ ntup[h.tid].level = h.level
                        THEN ListPrefix(ntup[h.tid].tids[srch[p].lc], LayerM(srch[p].lc))
                        ELSE {}
           new(h) == list(h) \ srch[p].vis
<1>1. PICK h \in srch[p].hnd \ srch[p].exp :
        srch' = [srch EXCEPT ![p].exp = @ \union {h}, ![p].pend = new(h),
                             ![p].vis = @ \union new(h)]
  BY DEF ReadNeighbors
<1>2. UNCHANGED <<lock, pc, job, ep, sel, todo>>
  BY DEF ReadNeighbors
<1>3. srch[p] \in SearchState /\ srch \in [Procs -> SearchState] /\ srch[p].lc = 0
  BY VarTypes, LayerTypes
<1>4. new(h) \subseteq Links(h.tid)
  BY <1>3, PrefixLinks
<1> HIDE DEF new
<1>5. /\ srch'[p].pend = new(h) /\ srch'[p].hnd = srch[p].hnd
      /\ \A q \in Procs \ {p} : srch'[q] = srch[q]
  BY <1>1, <1>3 DEF SearchState
<1>6. OnlyMoves(p)
  BY <1>2, <1>5 DEF OnlyMoves
<1>7. Walks(p)
  BY <1>1, <1>4, <1>5 DEF Walks
<1>8. p \in Writers => Held(p)' = Held(p)
  BY <1>2, <1>5, HeldSame
<1>9. QED
  BY <1>6, <1>7, <1>8 DEF Holding

\* The end of a search, on the only layer.
LEMMA NoNextLayer ==
  ASSUME TypeOK, OneLayer, NEW p \in Procs PROVE ~NextLayer(p)
BY LayerTypes DEF NextLayer

\* A finished search selects among what it loaded.
LEMMA SearchDoneSelects ==
  ASSUME TypeOK, NEW p \in Writers, WriterSearchDone(p)
  PROVE  /\ OnlyMoves(p) /\ Walks(p) /\ Holding(p)
         /\ srch'[p].hnd = {} /\ srch'[p].pend = {}
         /\ \A c \in sel'[p] \union todo'[p] :
              c \in sel[p] \union todo[p] \/ c.nb \in srch[p].hnd
         /\ pc[p] = "search" /\ pc'[p] = IF p = Vac THEN "rewrite" ELSE "add"
<1>1. PICK W \in Nearest(p) : \E q \in Selections(p, W, 0) :
        /\ sel'  = [sel EXCEPT ![p] = @ \union q]
        /\ todo' = [todo EXCEPT ![p] = q]
  BY DEF WriterSearchDone
<1>2. PICK q \in Selections(p, W, 0) :
        /\ sel'  = [sel EXCEPT ![p] = @ \union q]
        /\ todo' = [todo EXCEPT ![p] = q]
  BY <1>1
<1>3. p \in Procs /\ 0 \in Levels
  BY ProcNames DEF Levels
<1>4. srch[p].hnd \in SUBSET Element /\ W \in SUBSET srch[p].hnd
  BY <1>3, NearestType DEF TypeOK, SearchState
<1>5. \A c \in q : c.nb \in srch[p].hnd /\ c.nb.live
  BY <1>3, <1>4, SelectionsHeld
<1>6. /\ sel'[p] = sel[p] \union q /\ todo'[p] = q
      /\ \A o \in Writers \ {p} : sel'[o] = sel[o] /\ todo'[o] = todo[o]
  BY <1>2, VarTypes
<1>7. /\ srch'[p] = NoSearch /\ pc'[p] = IF p = Vac THEN "rewrite" ELSE "add"
      /\ \A o \in Procs \ {p} : srch'[o] = srch[o] /\ pc'[o] = pc[o]
      /\ UNCHANGED <<lock, job, ep>> /\ pc[p] = "search"
  BY <1>3, VarTypes DEF WriterSearchDone, LayerDone
<1>8. OnlyMoves(p)
  BY <1>6, <1>7 DEF OnlyMoves
<1>9. srch'[p].hnd = {} /\ srch'[p].pend = {}
  BY <1>7 DEF NoSearch
<1>10. Holding(p)
  BY <1>5, <1>6, <1>9 DEF Holding, Held
<1>11. QED
  BY <1>5, <1>6, <1>7, <1>8, <1>9, <1>10 DEF Walks

\* GetUpdateIndex only reads the graph.
LEMMA GetUpdateIndexMoves ==
  ASSUME TypeOK, NEW p \in Writers, GetUpdateIndex(p)
  PROVE  /\ OnlyMoves(p)
         /\ UNCHANGED <<row, etup, ntup, meta, lock, ep, srch, sel, vac>>
         /\ todo'[p] \subseteq todo[p] /\ pc[p] \in ConnectPc /\ pc'[p] \in ConnectPc
         /\ job'[p].tid = job[p].tid /\ job'[p].heaptid = job[p].heaptid
<1>1. UNCHANGED <<row, etup, ntup, meta, lock, ep, srch, sel, vac>> /\ pc[p] = "connect"
  BY DEF GetUpdateIndex
<1>2. /\ UNCHANGED job \/ \E i : job' = [job EXCEPT ![p].idx = i]
      /\ UNCHANGED todo \/ \E c \in todo[p] : todo' = [todo EXCEPT ![p] = @ \ {c}]
      /\ UNCHANGED pc \/ pc' = [pc EXCEPT ![p] = "update"]
  BY Zenon DEF GetUpdateIndex
<1>3. /\ todo'[p] \subseteq todo[p] /\ \A q \in Writers \ {p} : todo'[q] = todo[q]
      /\ pc'[p] \in ConnectPc /\ \A q \in Procs \ {p} : pc'[q] = pc[q]
  BY <1>1, <1>2, VarTypes, ProcNames DEF ConnectPc
<1>4. \A q \in Writers \ {p} : job'[q] = job[q]
  BY <1>2, VarTypes
<1>5. job'[p].tid = job[p].tid /\ job'[p].heaptid = job[p].heaptid
  BY <1>2, VarTypes DEF Job
<1>6. QED
  BY <1>1, <1>3, <1>4, <1>5 DEF OnlyMoves, ConnectPc

\* UpdateNeighborOnDisk adds a connection to the element the writer inserts or repairs.
LEMMA UpdateNeighborMoves ==
  ASSUME TypeOK, OneLayer, NEW p \in Writers, UpdateNeighbor(p)
  PROVE  /\ OnlyMoves(p)
         /\ UNCHANGED <<row, etup, meta, lock, ep, srch, sel, vac>>
         /\ \A s \in Slots : Links(s)' \subseteq Links(s) \union {job[p].tid}
         /\ \A s \in Slots : Links(s)' # Links(s) => \E c \in todo[p] : c.nb.tid = s
         /\ todo'[p] \subseteq todo[p] /\ pc[p] \in ConnectPc /\ pc'[p] \in ConnectPc
         /\ job'[p].tid = job[p].tid /\ job'[p].heaptid = job[p].heaptid
<1> DEFINE pos(c) == UpdatePosition(ntup[c.nb.tid].tids[c.lc], LayerM(c.lc), job[p].idx,
                                    job[p].tid, p = Vac)
           list(c) == [i \in 1..(2 * M) |-> IF i \in pos(c) THEN job[p].tid
                                           ELSE ntup[c.nb.tid].tids[c.lc][i]]
<1>1. UNCHANGED <<row, etup, meta, lock, ep, srch, sel, vac>> /\ pc[p] = "update"
  BY DEF UpdateNeighbor
<1>2. PICK c \in todo[p] :
        /\ ntup' = [ntup EXCEPT ![c.nb.tid].tids[c.lc] = list(c)]
        /\ todo' = [todo EXCEPT ![p] = @ \ {c}]
  BY DEF UpdateNeighbor
<1>3. c \in Connection /\ c.nb.tid \in Slots /\ c.lc = 0
  BY LayerTypes DEF Connection, Element
<1>4. \A i \in 1..(2 * M) : list(c)[i] \in {job[p].tid, ntup[c.nb.tid].tids[0][i]}
  BY <1>3
<1> HIDE DEF list
<1>5. ntup[c.nb.tid].tids \in Lists /\ 0 \in Levels
  BY <1>3, VarTypes DEF NeighborTuple, Levels
<1>6. /\ \A s \in Slots \ {c.nb.tid} : ntup'[s] = ntup[s]
      /\ ntup'[c.nb.tid].tids[0] = list(c)
  BY <1>2, <1>3, <1>5, VarTypes DEF NeighborTuple, Lists
<1>7. Links(c.nb.tid)' \subseteq Links(c.nb.tid) \union {job[p].tid}
  BY <1>4, <1>6 DEF Links
<1>8. \A s \in Slots \ {c.nb.tid} : Links(s)' = Links(s)
  BY <1>6 DEF Links
<1>9. /\ todo'[p] \subseteq todo[p] /\ \A q \in Writers \ {p} : todo'[q] = todo[q]
      /\ pc'[p] \in ConnectPc /\ \A q \in Procs \ {p} : pc'[q] = pc[q]
  BY <1>2, VarTypes, ProcNames DEF ConnectPc, UpdateNeighbor
<1>10. job' = [job EXCEPT ![p].idx = 0]
  BY Zenon DEF UpdateNeighbor
<1>11. /\ \A q \in Writers \ {p} : job'[q] = job[q]
       /\ job'[p].tid = job[p].tid /\ job'[p].heaptid = job[p].heaptid
  BY <1>10, VarTypes DEF Job
<1>12. QED
  BY <1>1, <1>7, <1>8, <1>9, <1>11 DEF OnlyMoves, ConnectPc
-----------------------------------------------------------------------------
(***************************************************************************)
(* The steps of an insert.                                                 *)
(***************************************************************************)

\* What any of them does.
InsertMove(p) ==
  /\ OnlyMoves(p) /\ UNCHANGED vac
  /\ Growth(Reach(p), OwnRow(p)) /\ RowsStay /\ PlacesStay
  /\ Walks(p) /\ Holding(p)
  /\ \A c \in sel'[p] \union todo'[p] :
       c \in sel[p] \union todo[p] \/ c.nb \in srch[p].hnd
  /\ pc'[p] \in ConnectPc =>
       \/ pc[p] \in ConnectPc /\ job'[p].tid = job[p].tid
       \/ \E s \in Slots : job'[p].tid = s /\ Added(s)
  /\ \/ UNCHANGED meta
     \/ meta.tid = NoTid /\ meta'.tid = job[p].tid /\ pc[p] \in ConnectPc

\* The search of an insert is an InsertMove.
LEMMA InsertSearches ==
  ASSUME EntriesInv, OneLayer, NEW p \in Inserters, InserterLocks(p),
         LoadElement(p) \/ ReadNeighbors(p) \/ WriterSearchDone(p)
  PROVE  InsertMove(p) /\ InserterLocks(p)'
<1>1. TypeOK /\ p \in Procs /\ p \in Writers /\ p # Vac
  BY ProcNames DEF EntriesInv, IndexInv
<1>2. UNCHANGED <<etup, ntup, meta, vac, lock, ep, job>> /\ pc[p] = "search"
  BY DEF LoadElement, ReadNeighbors, WriterSearchDone, LayerDone
<1>3. /\ OnlyMoves(p) /\ Walks(p) /\ Holding(p)
      /\ \A c \in sel'[p] \union todo'[p] : c \in sel[p] \union todo[p] \/ c.nb \in srch[p].hnd
      /\ pc'[p] \in {"search", "add"}
  <2>1. CASE LoadElement(p)
    <3>1. UNCHANGED <<sel, todo, pc>>
      BY <2>1 DEF LoadElement
    <3>2. QED
      BY <1>1, <1>2, <2>1, <3>1, LoadWalks
  <2>2. CASE ReadNeighbors(p)
    <3>1. UNCHANGED <<sel, todo, pc>>
      BY <2>2 DEF ReadNeighbors
    <3>2. QED
      BY <1>1, <1>2, <2>2, <3>1, ReadWalks
  <2>3. CASE WriterSearchDone(p)
    BY <1>1, <2>3, SearchDoneSelects
  <2>4. QED
    BY <2>1, <2>2, <2>3
<1>4. Growth(Reach(p), OwnRow(p)) /\ RowsStay /\ PlacesStay
  BY <1>2, QuietGrowth
<1>5. InsertMove(p)
  BY <1>2, <1>3, <1>4 DEF InsertMove, ConnectPc
<1>6. ep[p].tid # NoTid
  BY <1>2 DEF InserterLocks
<1>7. InserterLocks(p)'
  BY <1>2, <1>3, <1>6 DEF InserterLocks, NoLockPc
<1>8. QED
  BY <1>5, <1>7

\* Connecting the neighbors back is an InsertMove.
LEMMA InsertConnects ==
  ASSUME EntriesInv, OneLayer, NEW p \in Inserters, InserterLocks(p),
         GetUpdateIndex(p) \/ UpdateNeighbor(p)
  PROVE  InsertMove(p) /\ InserterLocks(p)'
<1>1. TypeOK /\ p \in Procs /\ p \in Writers /\ p # Vac
  BY ProcNames DEF EntriesInv, IndexInv
<1>2. /\ OnlyMoves(p) /\ UNCHANGED <<etup, meta, lock, ep, srch, sel, vac>>
      /\ \A s \in Slots : Links(s)' \subseteq Links(s) \union {job[p].tid}
      /\ todo'[p] \subseteq todo[p] /\ pc[p] \in ConnectPc /\ pc'[p] \in ConnectPc
      /\ job'[p].tid = job[p].tid
  <2>1. CASE GetUpdateIndex(p)
    BY <1>1, <2>1, GetUpdateIndexMoves DEF Links
  <2>2. CASE UpdateNeighbor(p)
    BY <1>1, <2>2, UpdateNeighborMoves
  <2>3. QED
    BY <2>1, <2>2
<1>3. Growth(Reach(p), OwnRow(p)) /\ RowsStay /\ PlacesStay
  <2>1. job[p].tid \in Reach(p)
    BY <1>1, <1>2 DEF Reach
  <2>2. QED
    BY <1>2, <2>1 DEF Growth, RowsStay, PlacesStay, Added, Placed, Holds
<1>4. Walks(p) /\ Holding(p)
  BY <1>2 DEF Walks, Holding, Held
<1>5. InsertMove(p)
  BY <1>2, <1>3, <1>4 DEF InsertMove
<1>6. ep[p].tid # NoTid
  <2>1. todo[p] # {}
    BY DEF GetUpdateIndex, UpdateNeighbor
  <2>2. QED
    BY <2>1 DEF InserterLocks
<1>7. InserterLocks(p)'
  BY <1>2, <1>6 DEF InserterLocks, NoLockPc, ConnectPc
<1>8. QED
  BY <1>5, <1>7

\* An insert begins without a lock.
LEMMA InsertBegins ==
  ASSUME EntriesInv, NEW p \in Inserters, InserterLocks(p), InsertBegin(p)
  PROVE  InsertMove(p) /\ InserterLocks(p)'
<1>1. TypeOK /\ p \in Procs /\ p \in Writers
  BY ProcNames DEF EntriesInv, IndexInv
<1>2. /\ UNCHANGED <<etup, ntup, meta, lock, ep, srch, sel, todo, vac>>
      /\ pc[p] = "idle" /\ pc' = [pc EXCEPT ![p] = "lock"]
      /\ \E t, v : job' = [job EXCEPT ![p].heaptid = t, ![p].value = v]
  BY DEF InsertBegin
<1>3. OnlyMoves(p) /\ pc'[p] = "lock"
  BY <1>1, <1>2, VarTypes DEF OnlyMoves
<1>4. Growth(Reach(p), OwnRow(p)) /\ RowsStay /\ PlacesStay
  BY <1>2, QuietGrowth
<1>5. InsertMove(p)
  BY <1>2, <1>3, <1>4 DEF InsertMove, ConnectPc, Walks, Holding, Held
<1>6. InserterLocks(p)'
  BY <1>2, <1>3 DEF InserterLocks, NoLockPc, ConnectPc
<1>7. QED
  BY <1>5, <1>6

\* meta.level is -1 without an entry point, 0 with one.
LEMMA LayerEntry ==
  ASSUME EntriesInv, OneLayer
  PROVE  meta.level = IF meta.tid = NoTid THEN -1 ELSE 0
<1>1. TypeOK /\ EntryPointValid
  BY DEF EntriesInv, IndexInv
<1>2. meta \in Entry
  BY <1>1 DEF TypeOK
<1>3. meta.tid # NoTid => etup[meta.tid].level = 0
  BY <1>2 DEF OneLayer, Entry, NoEntry
<1>4. QED
  BY <1>1, <1>3 DEF EntryPointValid

\* It reads the entry point once it has the lock.
LEMMA InsertLocks ==
  ASSUME EntriesInv, OneLayer, NEW p \in Inserters, InserterLocks(p),
         InsertLock(p) \/ InsertLockExclusive(p)
  PROVE  InsertMove(p) /\ InserterLocks(p)'
<1>1. TypeOK /\ p \in Procs /\ p \in Writers
  BY ProcNames DEF EntriesInv, IndexInv
<1>2. /\ UNCHANGED <<etup, ntup, meta, sel, todo, vac>> /\ pc[p] \in {"lock", "lockx"}
      /\ UNCHANGED job \/ \E l \in Levels : job' = [job EXCEPT ![p].level = l]
  BY Zenon DEF InsertLock, InsertLockExclusive
<1>3. \/ UNCHANGED <<lock, ep, srch>> /\ pc' = [pc EXCEPT ![p] = "lockx"]
      \/ /\ \E m \in {"share", "exclusive"} : lock' = [lock EXCEPT ![p] = m]
         /\ FindNeighbors(p, meta)
         /\ pc' = [pc EXCEPT ![p] = IF meta.tid = NoTid THEN "add" ELSE "search"]
  <2>1. CASE InsertLock(p)
    <3>1. PICK l \in Levels : InsertLock(p)!3!(l)
      BY <2>1 DEF InsertLock
    <3>2. CASE l > meta.level
      <4>1. ~(l <= meta.level)
        BY <3>2, LayerEntry DEF Levels
      <4>2. UNCHANGED <<lock, ep, srch>> /\ pc' = [pc EXCEPT ![p] = "lockx"]
        BY <3>1, <4>1
      <4>3. QED
        BY <4>2
    <3>3. CASE l <= meta.level
      <4>1. meta.tid # NoTid
        <5>1. meta.tid = NoTid => meta.level = -1
          BY LayerEntry
        <5>2. l \in Nat
          BY DEF Levels
        <5>3. QED
          BY <3>3, <5>1, <5>2
      <4>2. ~(l > meta.level)
        BY <3>3, LayerEntry DEF Levels
      <4>3. /\ lock' = [lock EXCEPT ![p] = "share"] /\ FindNeighbors(p, meta)
            /\ pc' = [pc EXCEPT ![p] = "search"]
        BY <3>1, <4>2
      <4>4. QED
        BY <4>1, <4>3
    <3>4. QED
      BY <3>1, <3>2, <3>3
  <2>2. CASE InsertLockExclusive(p)
    BY <2>2 DEF InsertLockExclusive
  <2>3. QED
    BY <2>1, <2>2
<1>4. OnlyMoves(p)
  <2>1. \A q \in Writers \ {p} : job'[q] = job[q]
    BY <1>1, <1>2, VarTypes
  <2>2. QED
    BY <1>1, <1>2, <1>3, <2>1, VarTypes DEF OnlyMoves, FindNeighbors
<1>5. /\ ep[p].tid = NoTid
      /\ srch[p].hnd = {} /\ srch[p].pend = {} /\ sel[p] = {} /\ todo[p] = {} /\ lock[p] = "none"
  BY <1>2 DEF InserterLocks, NoLockPc
<1>6. CASE UNCHANGED <<lock, ep, srch>> /\ pc' = [pc EXCEPT ![p] = "lockx"]
  <2>1. pc'[p] = "lockx"
    BY <1>1, <1>6, VarTypes
  <2>2. InsertMove(p)
    BY <1>2, <1>4, <1>6, <2>1, QuietGrowth DEF InsertMove, ConnectPc, Walks, Holding, Held
  <2>3. InserterLocks(p)'
    BY <1>2, <1>5, <1>6, <2>1 DEF InserterLocks, NoLockPc, ConnectPc
  <2>4. QED
    BY <2>2, <2>3
<1>7. CASE /\ \E m \in {"share", "exclusive"} : lock' = [lock EXCEPT ![p] = m]
           /\ FindNeighbors(p, meta)
           /\ pc' = [pc EXCEPT ![p] = IF meta.tid = NoTid THEN "add" ELSE "search"]
  <2>1. /\ lock'[p] # "none" /\ ep'[p] = meta
        /\ pc'[p] = IF meta.tid = NoTid THEN "add" ELSE "search"
        /\ srch'[p] = IF meta.tid = NoTid THEN NoSearch ELSE Search(meta)
    BY <1>1, <1>7, VarTypes DEF FindNeighbors
  <2>2. /\ srch'[p].hnd = {}
        /\ srch'[p].pend = IF meta.tid = NoTid THEN {} ELSE {meta.tid}
    BY <2>1 DEF NoSearch, Search
  <2>3. Walks(p) /\ Holding(p)
    BY <1>2, <2>2 DEF Walks, Holding, Held
  <2>4. InsertMove(p)
    BY <1>2, <1>4, <2>1, <2>3, QuietGrowth DEF InsertMove, ConnectPc
  <2>5. InserterLocks(p)'
    BY <1>2, <1>5, <2>1, <2>2 DEF InserterLocks, NoLockPc, ConnectPc
  <2>6. QED
    BY <2>4, <2>5
<1>8. QED
  BY <1>3, <1>6, <1>7
\* A list written anew has the elements selected.
LEMMA ChosenLinks ==
  ASSUME NEW C, NEW s, ntup'[s].tids = NeighborLists(C)
  PROVE  Links(s)' \subseteq {c.nb.tid : c \in C}
<1> DEFINE at(i) == {c \in C : c.lc = 0 /\ c.i = i}
<1>1. SUFFICES ASSUME NEW i \in 1..(2 * M), ntup'[s].tids[0][i] # NoTid
               PROVE  ntup'[s].tids[0][i] \in {c.nb.tid : c \in C}
  BY DEF Links
<1>2. 0 \in Levels
  BY DEF Levels
<1>3. ntup'[s].tids[0][i] =
        IF \E c \in C : c.lc = 0 /\ c.i = i
          THEN (CHOOSE c \in C : c.lc = 0 /\ c.i = i).nb.tid ELSE NoTid
  BY <1>2 DEF NeighborLists
<1>4. \E c \in C : c.lc = 0 /\ c.i = i
  BY <1>1, <1>3
<1>5. (CHOOSE c \in C : c.lc = 0 /\ c.i = i) \in C
  BY <1>4
<1>6. QED
  BY <1>3, <1>4, <1>5

\* A row joins an element that has one.
LEMMA InsertAddsRow ==
  ASSUME EntriesInv, NEW p \in Inserters, InserterLocks(p), AddDuplicate(p)
  PROVE  InsertMove(p) /\ InserterLocks(p)'
<1>1. TypeOK /\ p \in Procs /\ p \in Writers
  BY ProcNames DEF EntriesInv, IndexInv
<1>2. UNCHANGED <<ntup, meta, lock, job, ep, srch, sel, vac>> /\ pc[p] = "add"
  BY DEF AddDuplicate
<1>3. PICK c \in todo[p] :
        LET n == Cardinality(etup[c.nb.tid].heaptids) IN
        \/ /\ n \notin {0, HeapTidsMax}
           /\ etup' = [etup EXCEPT ![c.nb.tid].heaptids = @ \union {job[p].heaptid}]
           /\ pc'   = [pc EXCEPT ![p] = "finish"]
           /\ UNCHANGED todo
        \/ /\ todo' = [todo EXCEPT ![p] = @ \ {c}]
           /\ UNCHANGED <<etup, pc>>
  BY DEF AddDuplicate
<1>4. c.nb.tid \in Slots /\ \A s \in Slots : etup[s] \in ElementTuple
  BY <1>1, VarTypes DEF Connection, Element
<1>5. /\ pc'[p] \in {"add", "finish"} /\ \A q \in Procs \ {p} : pc'[q] = pc[q]
      /\ todo'[p] \subseteq todo[p] /\ \A q \in Writers \ {p} : todo'[q] = todo[q]
  BY <1>1, <1>2, <1>3, VarTypes
<1>6. OnlyMoves(p)
  BY <1>2, <1>5 DEF OnlyMoves
<1>7. \/ UNCHANGED etup
      \/ /\ Holds(c.nb.tid)
         /\ etup' = [etup EXCEPT ![c.nb.tid].heaptids = @ \union {job[p].heaptid}]
  BY <1>3, FS_EmptySet DEF Holds
<1>8. \A s \in Slots : /\ etup'[s].used = etup[s].used /\ etup'[s].deleted = etup[s].deleted
                       /\ etup[s].heaptids \subseteq etup'[s].heaptids
                       /\ etup'[s].heaptids \subseteq etup[s].heaptids \union OwnRow(p)
                       /\ Holds(s)' => Holds(s)
  <2>1. CASE UNCHANGED etup
    BY <2>1 DEF Holds
  <2>2. CASE /\ Holds(c.nb.tid)
             /\ etup' = [etup EXCEPT ![c.nb.tid].heaptids = @ \union {job[p].heaptid}]
    BY <1>1, <1>2, <1>4, <2>2, VarTypes DEF OwnRow, Holds, ElementTuple, NoLockPc
  <2>3. QED
    BY <1>7, <2>1, <2>2
<1>9. Growth(Reach(p), OwnRow(p)) /\ RowsStay /\ PlacesStay
  BY <1>2, <1>8 DEF Growth, RowsStay, PlacesStay, Added, Placed, Holds, Links
<1>10. Walks(p) /\ Holding(p)
  BY <1>2, <1>5 DEF Walks, Holding, Held
<1>11. InsertMove(p)
  BY <1>2, <1>5, <1>6, <1>9, <1>10 DEF InsertMove, ConnectPc
<1>12. InserterLocks(p)'
  BY <1>2, <1>3, <1>5 DEF InserterLocks, NoLockPc, ConnectPc
<1>13. QED
  BY <1>11, <1>12

\* A new element is connected to what the insert selected.
LEMMA InsertAddsElement ==
  ASSUME EntriesInv, OneLayer, NEW p \in Inserters, InserterLocks(p), AddElement(p)
  PROVE  InsertMove(p) /\ InserterLocks(p)'
<1>1. TypeOK /\ p \in Procs /\ p \in Writers /\ p # Vac
  BY ProcNames DEF EntriesInv, IndexInv
<1>2. UNCHANGED <<meta, lock, ep, srch, sel, vac>> /\ pc[p] = "add"
  BY DEF AddElement
<1>3. /\ todo' = [todo EXCEPT ![p] = sel[p]] /\ pc' = [pc EXCEPT ![p] = "connect"]
  BY DEF AddElement
<1>4. PICK s \in Slots :
        LET version == IF etup[s].used THEN etup[s].version ELSE 1 IN
        /\ FreeSlot(s)
        /\ etup' = [etup EXCEPT ![s] =
             [used |-> TRUE, deleted |-> FALSE, level |-> job[p].level,
              version |-> version, heaptids |-> {job[p].heaptid}, value |-> job[p].value]]
        /\ ntup' = [ntup EXCEPT ![s] = [level |-> job[p].level, version |-> version,
                                        tids |-> NeighborLists(sel[p])]]
        /\ job' = [job EXCEPT ![p].tid = s, ![p].version = version]
  BY DEF AddElement
<1>5. /\ etup'[s].used /\ ~etup'[s].deleted /\ etup'[s].heaptids = {job[p].heaptid}
      /\ ntup'[s].tids = NeighborLists(sel[p])
      /\ \A o \in Slots \ {s} : etup'[o] = etup[o] /\ ntup'[o] = ntup[o]
  BY <1>1, <1>4, VarTypes
<1>6. /\ job'[p].tid = s /\ job'[p].heaptid = job[p].heaptid
      /\ \A q \in Writers \ {p} : job'[q] = job[q]
  BY <1>1, <1>4, VarTypes DEF Job
<1>7. /\ pc'[p] = "connect" /\ \A q \in Procs \ {p} : pc'[q] = pc[q]
      /\ todo'[p] = sel[p] /\ \A q \in Writers \ {p} : todo'[q] = todo[q]
  BY <1>1, <1>3, VarTypes
<1>8. OnlyMoves(p)
  BY <1>2, <1>6, <1>7 DEF OnlyMoves
<1>9. ~Placed(s) /\ ~Holds(s)
  <2>1. FreeSlot(s)
    BY <1>4
  <2>2. ~Placed(s)
    BY <2>1 DEF FreeSlot, Placed
  <2>3. QED
    BY <2>2, HoldsPlaced
<1>10. Links(s)' \subseteq {c.nb.tid : c \in sel[p]}
  BY <1>5, ChosenLinks
<1>11. {c.nb.tid : c \in sel[p]} \subseteq Reach(p)
  BY DEF Reach, Held
<1>12. Added(s) /\ Holds(s)'
  BY <1>5, <1>9 DEF Added, Placed, Holds
<1>13. ASSUME NEW o \in Slots, o # s
       PROVE  /\ Links(o)' = Links(o) /\ (Holds(o)' <=> Holds(o)) /\ (Placed(o)' <=> Placed(o))
              /\ etup'[o] = etup[o]
  BY <1>5, <1>13 DEF Links, Holds, Placed
<1>14. Growth(Reach(p), OwnRow(p)) /\ RowsStay /\ PlacesStay
  <2>1. \A o \in Slots \ {s} : ~Added(o)
    BY <1>13 DEF Added
  <2>2. {job[p].heaptid} \subseteq OwnRow(p)
    BY <1>2 DEF OwnRow, NoLockPc
  <2>3. Growth(Reach(p), OwnRow(p))
    BY <1>5, <1>10, <1>11, <1>12, <1>13, <2>1, <2>2 DEF Growth
  <2>4. QED
    BY <1>9, <1>13, <2>3 DEF RowsStay, PlacesStay
<1>15. Walks(p) /\ Holding(p)
  BY <1>2, <1>7 DEF Walks, Holding, Held
<1>16. InsertMove(p)
  BY <1>2, <1>6, <1>7, <1>8, <1>12, <1>14, <1>15 DEF InsertMove
<1>17. ep[p].tid = NoTid => Untouched(p)'
  BY <1>2, <1>5, <1>6, <1>10 DEF InserterLocks, Untouched
<1>18. InserterLocks(p)'
  BY <1>2, <1>7, <1>17 DEF InserterLocks, NoLockPc, ConnectPc
<1>19. QED
  BY <1>16, <1>18

\* An insert ends, or fails, without touching the graph.
LEMMA InsertEnds ==
  ASSUME EntriesInv, OneLayer, NEW p \in Inserters, InserterLocks(p),
         InsertFinish(p) \/ InsertAbort(p)
  PROVE  InsertMove(p) /\ InserterLocks(p)'
<1>1. TypeOK /\ p \in Procs /\ p \in Writers /\ p # Vac
  BY ProcNames DEF EntriesInv, IndexInv
<1>2. UNCHANGED <<etup, ntup, vac>> /\ pc' = [pc EXCEPT ![p] = "idle"] /\ Release(p)
  BY DEF InsertFinish, InsertAbort
<1>3. /\ lock'[p] = "none" /\ ep'[p] = NoEntry /\ srch'[p] = NoSearch
      /\ sel'[p] = {} /\ todo'[p] = {} /\ pc'[p] = "idle"
      /\ \A q \in Procs \ {p} :
           lock'[q] = lock[q] /\ pc'[q] = pc[q] /\ ep'[q] = ep[q] /\ srch'[q] = srch[q]
      /\ \A q \in Writers \ {p} : job'[q] = job[q] /\ sel'[q] = sel[q] /\ todo'[q] = todo[q]
  BY <1>1, <1>2, VarTypes DEF Release
<1>4. OnlyMoves(p)
  BY <1>3 DEF OnlyMoves
<1>5. Growth(Reach(p), OwnRow(p)) /\ RowsStay /\ PlacesStay
  BY <1>2, QuietGrowth
<1>6. srch'[p].hnd = {} /\ srch'[p].pend = {}
  BY <1>3 DEF NoSearch
<1>7. Walks(p) /\ Holding(p)
  BY <1>3, <1>6 DEF Walks, Holding, Held
<1>8. \/ UNCHANGED meta
      \/ meta.tid = NoTid /\ meta'.tid = job[p].tid /\ pc[p] \in ConnectPc
  <2>1. CASE InsertAbort(p)
    BY <2>1 DEF InsertAbort
  <2>2. CASE InsertFinish(p)
    <3>1. CASE meta' = meta
      BY <3>1
    <3>2. CASE meta' # meta
      <4>1. /\ pc[p] = "connect" /\ job[p].level > ep[p].level
            /\ meta' = EntryIfGreater([tid |-> job[p].tid, level |-> job[p].level])
        BY <2>2, <3>2 DEF InsertFinish
      <4>2. job[p].level > meta.level /\ meta' = [tid |-> job[p].tid, level |-> job[p].level]
        BY <3>2, <4>1 DEF EntryIfGreater
      <4>3. job[p].level = 0
        BY <1>1 DEF OneLayer
      <4>4. meta.tid = NoTid
        BY <4>2, <4>3, LayerEntry
      <4>5. QED
        BY <4>1, <4>2, <4>4 DEF ConnectPc
    <3>3. QED
      BY <3>1, <3>2
  <2>3. QED
    BY <2>1, <2>2
<1>9. InsertMove(p)
  BY <1>2, <1>3, <1>4, <1>5, <1>7, <1>8 DEF InsertMove, ConnectPc
<1>10. InserterLocks(p)'
  BY <1>3, <1>6 DEF InserterLocks, NoLockPc, ConnectPc, NoEntry
<1>11. QED
  BY <1>9, <1>10
\* Every step of an insert is an InsertMove.
LEMMA InsertSteps ==
  ASSUME EntriesInv, OneLayer, NEW p \in Inserters, InserterLocks(p),
         InsertBegin(p) \/ InsertStep(p) \/ InsertAbort(p)
  PROVE  InsertMove(p) /\ InserterLocks(p)'
<1>1. ~NextLayer(p)
  BY NoNextLayer, ProcNames DEF EntriesInv, IndexInv
<1>2. QED
  BY <1>1, InsertSearches, InsertConnects, InsertBegins, InsertLocks, InsertAddsRow,
     InsertAddsElement, InsertEnds DEF InsertStep, WalkGraph, Connect
-----------------------------------------------------------------------------
(***************************************************************************)
(* What the steps of one backend leave of the others'.                     *)
(***************************************************************************)

\* The insert that found no entry point is the only writer with the lock.
LEMMA LoneHasLock ==
  ASSUME EntriesInv, NEW q \in Inserters, pc[q] \in ConnectPc, ep[q].tid = NoTid
  PROVE  \A p \in Writers : p # q => lock[p] = "none"
<1>1. job[q].level \in Levels /\ ep[q] \in Entry
  BY ProcNames, VarTypes DEF EntriesInv, IndexInv, Job
<1>2. ep[q].level = -1
  BY <1>1, SlotsAssumption DEF Entry, NoEntry, NoTid
<1>3. ~(job[q].level <= ep[q].level)
  BY <1>1, <1>2 DEF Levels
<1>4. lock[q] = "exclusive"
  BY <1>3 DEF EntriesInv, IndexInv, UpdateLockHeld, ConnectPc
<1>5. QED
  BY <1>4, ProcNames DEF EntriesInv, IndexInv, UpdateLockHeld

\* An insert's locks and place, when somebody else moves.
LEMMA LocksFrame ==
  ASSUME LocksMatch, NEW q \in Inserters,
         lock'[q] = lock[q], pc'[q] = pc[q], ep'[q] = ep[q], srch'[q] = srch[q],
         job'[q] = job[q], sel'[q] = sel[q], todo'[q] = todo[q],
         ep[q].tid # NoTid => meta'.tid # NoTid,
         pc[q] \in ConnectPc /\ ep[q].tid = NoTid /\ Untouched(q) => Untouched(q)'
  PROVE  InserterLocks(q)'
<1>1. InserterLocks(q)
  BY DEF LocksMatch
<1>2. QED
  BY <1>1 DEF InserterLocks

\* The parts about what was repaired, when the VACUUM itself does not go on to
\* another phase.
LEMMA CleanParts ==
  ASSUME EntriesInv, LinksInv, UNCHANGED vac, PastBarrier => CleanStays,
         pc'[Vac] = pc[Vac] \/ {pc[Vac], pc'[Vac]} \subseteq RepairPc,
         meta'.tid = meta.tid \/ \E s \in Slots : meta'.tid = s /\ (PastBarrier => Clean(s)),
         \A q \in Inserters : pc'[q] \in ConnectPc =>
           \/ pc[q] \in ConnectPc /\ job'[q].tid = job[q].tid
           \/ \E s \in Slots : job'[q].tid = s /\ Holds(s)' /\ ~Holds(s)
  PROVE  InsertsClean' /\ HighClean' /\ EntryClean' /\ LoopClean'
<1>1. TypeOK /\ VacuumTracks /\ VacuumClean
  BY DEF EntriesInv, IndexInv, LinksInv
<1>2. PastBarrier' <=> PastBarrier
  BY DEF PastBarrier, RepairPc
<1>3. CASE ~PastBarrier
  <2>1. pc[Vac] \notin RepairPc /\ pc'[Vac] = pc[Vac] /\ vac.stage = "none"
    BY <1>1, <1>3 DEF PastBarrier, RepairPc, VacuumTracks
  <2>2. QED
    BY <1>2, <1>3, <2>1
       DEF InsertsClean, HighClean, EntryClean, LoopClean, AtEntry, InLoop, PastBarrier
<1>4. CASE PastBarrier
  <2>1. CleanStays
    BY <1>4
  <2>2. InsertsClean'
    <3>1. SUFFICES ASSUME NEW q \in Inserters, pc'[q] \in ConnectPc PROVE Clean(job[q].tid)'
      BY DEF InsertsClean
    <3>2. CASE pc[q] \in ConnectPc /\ job'[q].tid = job[q].tid
      <4>1. job[q].tid \in Slots
        BY <1>1, <3>2 DEF TypeOK, JobsNamed, ConnectPc
      <4>2. Clean(job[q].tid)
        BY <1>1, <1>4, <3>2 DEF VacuumClean, InsertsClean
      <4>3. PICK s \in Slots : s = job[q].tid
        BY <4>1
      <4>4. Clean(s)'
        BY <2>1, <4>2, <4>3 DEF CleanStays
      <4>5. QED
        BY <3>2, <4>3, <4>4 DEF Clean, Links
    <3>3. CASE \E s \in Slots : job'[q].tid = s /\ Holds(s)' /\ ~Holds(s)
      <4>1. PICK s \in Slots : job'[q].tid = s /\ Holds(s)' /\ ~Holds(s)
        BY <3>3
      <4>2. Clean(s)'
        BY <2>1, <4>1 DEF CleanStays
      <4>3. QED
        BY <4>1, <4>2 DEF Clean, Links
    <3>4. QED
      BY <3>1, <3>2, <3>3
  <2>3. meta.tid = NoTid \/ meta.tid \in Slots
    BY <1>1 DEF TypeOK, Entry, NoEntry
  <2>4. meta'.tid # NoTid /\ (meta'.tid = meta.tid => Clean(meta.tid)) => Clean(meta.tid)'
    <3>1. SUFFICES ASSUME meta'.tid # NoTid, meta'.tid = meta.tid => Clean(meta.tid)
                   PROVE  Clean(meta.tid)'
      OBVIOUS
    <3>2. \E s \in Slots : meta'.tid = s /\ Clean(s)
      BY <1>4, <2>3, <3>1
    <3>3. PICK s \in Slots : meta'.tid = s /\ Clean(s)
      BY <3>2
    <3>4. Clean(s)'
      BY <2>1, <3>3 DEF CleanStays
    <3>5. QED
      BY <3>3, <3>4 DEF Clean, Links
  <2>5. \A stages \in {{"high", "entry"}, {"entry"}} : AtEntry(stages)' => AtEntry(stages)
    BY DEF AtEntry, RepairPc
  <2>6. HighClean'
    <3>1. AtEntry({"high", "entry"})' /\ meta'.tid # NoTid /\ meta'.tid = vac.high.tid
          => Clean(meta.tid)'
      BY <1>1, <2>4, <2>5 DEF VacuumClean, HighClean
    <3>2. AtEntry({"entry"})' /\ vac.high.tid # NoTid => Clean(vac.high.tid)'
      <4>1. vac.high.tid # NoTid => vac.high.tid \in Slots
        BY <1>1 DEF TypeOK, VacState, Entry, NoEntry
      <4>2. AtEntry({"entry"})' /\ vac.high.tid # NoTid => Clean(vac.high.tid)
        BY <1>1, <2>5 DEF VacuumClean, HighClean
      <4>3. \A s \in Slots : Clean(s) => Clean(s)'
        BY <2>1 DEF CleanStays
      <4>4. QED
        BY <4>1, <4>2, <4>3 DEF Clean, Links
    <3>3. QED
      BY <3>1, <3>2 DEF HighClean
  <2>7. EntryClean'
    <3>1. InLoop' => InLoop
      BY DEF InLoop, RepairPc
    <3>2. QED
      BY <1>1, <2>4, <3>1 DEF VacuumClean, EntryClean
  <2>8. LoopClean'
    <3>1. LoopClean
      BY <1>1 DEF VacuumClean
    <3>2. \A s \in Slots : (Holds(s) => Clean(s)) => (Holds(s)' => Clean(s)')
      BY <2>1 DEF CleanStays
    <3>3. \A s \in Slots : (Holds(s) => Checked(s)) => (Holds(s)' => Checked(s)')
      BY <2>1 DEF CleanStays, Checked
    <3>4. \A s \in Slots : (Holds(s) => Clean(s) \/ PageOf[s] >= vac.blk)
                           => (Holds(s)' => Clean(s)' \/ PageOf[s] >= vac.blk)
      BY <2>1 DEF CleanStays
    <3>5. pc'[Vac] \in {"load", "check", "rlock", "rlockx", "scans", "mark"} => pc'[Vac] = pc[Vac]
      BY DEF RepairPc
    <3>6. QED
      BY <3>1, <3>2, <3>3, <3>4, <3>5 DEF LoopClean
  <2>9. QED
    BY <2>2, <2>6, <2>7, <2>8
<1>5. QED
  BY <1>3, <1>4
-----------------------------------------------------------------------------
(***************************************************************************)
(* An insert's step keeps the invariant.                                   *)
(***************************************************************************)
LEMMA InsertLocksMatch ==
  ASSUME EntriesInv, LinksInv, NEW p \in Inserters, InsertMove(p), InserterLocks(p)'
  PROVE  LocksMatch'
<1>1. LocksMatch /\ OnlyMoves(p) /\ TypeOK
  BY DEF LinksInv, InsertMove, EntriesInv, IndexInv
<1>2. ASSUME NEW q \in Inserters, q # p PROVE InserterLocks(q)'
  <2>1. ep[q].tid # NoTid => meta'.tid # NoTid
    BY <1>1, <1>2 DEF InsertMove, LocksMatch, InserterLocks
  <2>2. ASSUME pc[q] \in ConnectPc, ep[q].tid = NoTid, Untouched(q) PROVE Untouched(q)'
    <3>1. lock[p] = "none"
      BY <1>2, <2>2, LoneHasLock, ProcNames
    <3>2. Held(p) = {} /\ pc[p] \in NoLockPc
      BY <1>1, <3>1, ProcNames DEF EntriesInv, HoldersLock, LocksMatch, InserterLocks
    <3>3. Reach(p) = {} /\ OwnRow(p) = {}
      BY <3>2, ProcNames DEF Reach, OwnRow, NoLockPc, ConnectPc
    <3>4. PICK s \in Slots : s = job[q].tid
      BY <1>1, <2>2 DEF TypeOK, JobsNamed, ConnectPc
    <3>5. Links(s)' \subseteq Links(s) /\ etup'[s].heaptids \subseteq etup[s].heaptids
      BY <3>3 DEF InsertMove, Growth
    <3>6. Links(s) = {} /\ etup[s].heaptids = {job[q].heaptid}
      BY <2>2, <3>4 DEF Untouched
    <3>7. etup'[s].heaptids # {}
      BY <3>6 DEF InsertMove, RowsStay, Holds
    <3>8. Links(s)' = {} /\ etup'[s].heaptids = {job[q].heaptid}
      BY <3>5, <3>6, <3>7
    <3>9. job'[q] = job[q]
      BY <1>1, <1>2, ProcNames DEF OnlyMoves
    <3>10. QED
      BY <3>4, <3>8, <3>9 DEF Untouched, Links
  <2>3. /\ lock'[q] = lock[q] /\ pc'[q] = pc[q] /\ ep'[q] = ep[q] /\ srch'[q] = srch[q]
        /\ job'[q] = job[q] /\ sel'[q] = sel[q] /\ todo'[q] = todo[q]
    BY <1>1, <1>2, ProcNames DEF OnlyMoves
  <2>4. QED
    BY <1>1, <2>1, <2>2, <2>3, LocksFrame
<1>3. \A q \in Scanners : ScannerLocks(q)'
  BY <1>1, ProcNames DEF OnlyMoves, LocksMatch, ScannerLocks
<1>4. pc'[Vac] \in RepairPc => lock'[Vac] # "none"
  BY <1>1, ProcNames DEF OnlyMoves, LocksMatch
<1>5. QED
  BY <1>2, <1>3, <1>4 DEF LocksMatch

\* What an insert makes the entry point is its element.
LEMMA InsertEntry ==
  ASSUME EntriesInv, LinksInv, NEW p \in Inserters, InsertMove(p)
  PROVE  meta'.tid = meta.tid \/
         \E s \in Slots : /\ meta.tid = NoTid /\ meta'.tid = s /\ s = job[p].tid /\ Holds(s)
                          /\ pc[p] \in ConnectPc /\ (PastBarrier => Clean(s))
<1>1. SUFFICES ASSUME meta'.tid # meta.tid
               PROVE  \E s \in Slots : /\ meta.tid = NoTid /\ meta'.tid = s /\ s = job[p].tid
                                       /\ Holds(s) /\ pc[p] \in ConnectPc
                                       /\ (PastBarrier => Clean(s))
  OBVIOUS
<1>2. meta.tid = NoTid /\ meta'.tid = job[p].tid /\ pc[p] \in ConnectPc
  BY <1>1 DEF InsertMove
<1>3. job[p].tid \in Slots
  BY <1>2 DEF EntriesInv, IndexInv, TypeOK, JobsNamed, ConnectPc
<1>4. Holds(job[p].tid)
  BY <1>2 DEF EntriesInv, IndexInv, InsertsIndexed, ConnectPc, Holds
<1>5. PastBarrier => Clean(job[p].tid)
  BY <1>2 DEF LinksInv, VacuumClean, InsertsClean
<1>6. QED
  BY <1>2, <1>3, <1>4, <1>5

\* An InsertMove stays in the region: what it connects, it loaded.
LEMMA InsertRegion ==
  ASSUME EntriesInv, LinksInv, NEW p \in Inserters, InsertMove(p) PROVE Intact'
<1>1. PICK G \in SUBSET Slots : Region(G)
  BY DEF LinksInv, Intact
<1>2. ASSUME NEW t \in Reach(p) PROVE t \in G
  BY <1>1, <1>2, ReachGood, ProcNames DEF LinksInv, Region
<1>3. meta'.tid # NoTid => meta'.tid = meta.tid \/ (meta'.tid \in Slots /\ Holds(meta'.tid))
  BY InsertEntry
<1>4. OnlyMoves(p)
  BY DEF InsertMove
<1>5. \A q \in Scanners : ScanIn(q, G)'
  <2>1. \A q \in Scanners : srch'[q] = srch[q]
    BY <1>4, ProcNames DEF OnlyMoves
  <2>2. QED
    BY <1>1, <2>1 DEF Region, ScanIn
<1>6. \A q \in Writers : Holding(q)
  <2>1. \A q \in Writers \ {p} : srch'[q] = srch[q] /\ sel'[q] = sel[q] /\ todo'[q] = todo[q]
    BY <1>4, ProcNames DEF OnlyMoves
  <2>2. \A q \in Writers \ {p} : Held(q)' = Held(q)
    BY <2>1, HeldSame
  <2>3. QED
    BY <2>2 DEF InsertMove, Holding
<1>7. QED
  BY <1>1, <1>2, <1>3, <1>5, <1>6, RegionFrame DEF InsertMove

\* It keeps apart the graph made since VACUUM found no entry point.
LEMMA InsertNewGraph ==
  ASSUME EntriesInv, LinksInv, NEW p \in Inserters, InsertMove(p),
         NEW H \in SUBSET Slots, NewGraph(H)
  PROVE  \E K \in SUBSET Slots : NewGraph(K)'
<1>0. PICK K \in SUBSET Slots : K = H \union {s \in Slots : Added(s)}
  OBVIOUS
<1>1. InsertIn(p, H) /\ p # Vac /\ p \in Writers /\ TypeOK
  BY ProcNames DEF NewGraph, EntriesInv, IndexInv
<1>2. Reach(p) \subseteq H
  BY <1>1 DEF Reach, Held, InsertIn, ScanIn
<1>3. OwnRow(p) \intersect vac.dead = {}
  BY DEF OwnRow, NoLockPc, EntriesInv, IndexInv, RowsOwned
<1>4. ASSUME NEW s \in K
      PROVE  Holds(s)' /\ etup'[s].heaptids \intersect vac'.dead = {} /\ Links(s)' \subseteq K
  <2>1. vac' = vac
    BY DEF InsertMove
  <2>2. CASE s \in H
    <3>1. Holds(s) /\ etup[s].heaptids \intersect vac.dead = {} /\ Links(s) \subseteq H
      BY <2>2 DEF NewGraph
    <3>2. QED
      BY <1>0, <1>2, <1>3, <2>1, <2>2, <3>1 DEF InsertMove, Growth, RowsStay
  <2>3. CASE s \in Slots /\ Added(s)
    <3>1. etup[s].heaptids = {}
      BY <2>3, HoldsPlaced DEF Added, Holds
    <3>2. QED
      BY <1>0, <1>2, <1>3, <2>1, <2>3, <3>1 DEF InsertMove, Growth
  <2>4. QED
    BY <1>0, <1>4, <2>2, <2>3
<1>5. meta'.tid # NoTid => meta'.tid \in K
  <2>1. CASE meta'.tid = meta.tid
    BY <1>0, <2>1 DEF NewGraph
  <2>2. CASE meta'.tid = job[p].tid /\ pc[p] \in ConnectPc
    BY <1>0, <1>1, <2>2 DEF InsertIn
  <2>3. QED
    BY <2>1, <2>2, InsertEntry
<1>6. ASSUME NEW q \in Inserters PROVE InsertIn(q, K)'
  <2>1. CASE q # p
    <3>1. /\ srch'[q] = srch[q] /\ pc'[q] = pc[q] /\ job'[q] = job[q]
          /\ sel'[q] = sel[q] /\ todo'[q] = todo[q]
      BY <2>1, ProcNames DEF InsertMove, OnlyMoves
    <3>2. InsertIn(q, H)
      BY DEF NewGraph
    <3>3. QED
      BY <1>0, <3>1, <3>2 DEF InsertIn, ScanIn
  <2>2. CASE q = p
    <3>1. ScanIn(p, K)'
      <4>1. \A t \in srch'[p].pend : t \in H
        BY <1>1 DEF InsertMove, Walks, InsertIn, ScanIn, NewGraph
      <4>2. \A h \in srch'[p].hnd : h.tid \in H
        BY <1>1 DEF InsertMove, Walks, InsertIn, ScanIn
      <4>3. QED
        BY <1>0, <4>1, <4>2 DEF ScanIn
    <3>2. \A c \in sel'[p] \union todo'[p] : c.nb.tid \in K
      BY <1>0, <1>1 DEF InsertMove, InsertIn, ScanIn
    <3>3. pc'[p] \in ConnectPc => job'[p].tid \in K
      BY <1>0, <1>1 DEF InsertMove, InsertIn
    <3>4. QED
      BY <2>2, <3>1, <3>2, <3>3 DEF InsertIn
  <2>3. QED
    BY <2>1, <2>2
<1>7. NewGraph(K)'
  BY <1>4, <1>5, <1>6 DEF NewGraph
<1>8. QED
  BY <1>7

\* An InsertMove keeps LinksInv.
LEMMA InsertMoveLinks ==
  ASSUME EntriesInv, LinksInv, NEW p \in Inserters, InsertMove(p), InserterLocks(p)'
  PROVE  LinksInv'
<1>1. /\ TypeOK /\ VacuumTracks /\ RepairsHold /\ p \in Writers /\ p # Vac
      /\ OnlyMoves(p) /\ UNCHANGED vac /\ RowsStay /\ Growth(Reach(p), OwnRow(p))
  BY ProcNames DEF EntriesInv, IndexInv, LinksInv, InsertMove
<1>2. job'[Vac] = job[Vac] /\ pc'[Vac] = pc[Vac]
  BY <1>1, ProcNames DEF OnlyMoves
<1>3. \A t \in Reach(p) : t \in Slots /\ Placed(t) /\ (PastBarrier => Holds(t))
  BY <1>1, ReachGood
<1>4. LinksUsed'
  <2>1. \A t \in Reach(p) : t \in Slots /\ etup[t].used
    BY <1>3 DEF Placed
  <2>2. LinksUsed
    BY DEF LinksInv
  <2>3. QED
    BY <1>1, <2>1, <2>2, UsedFrame
<1>5. RepairsHold'
  <2>1. vac.stage # "none" => job[Vac].tid \in Slots
    BY <1>1 DEF TypeOK, JobsNamed
  <2>2. vac.stage = "entry" => meta'.tid = meta.tid
    BY <1>1, <2>1, SlotsAssumption, InsertEntry DEF RepairsHold, NoTid
  <2>3. vac.stage # "none" => Holds(job[Vac].tid)'
    BY <1>1, <1>2, <2>1 DEF RepairsHold, RowsStay, Holds
  <2>4. QED
    BY <1>1, <1>2, <2>2, <2>3 DEF RepairsHold
<1>6. EntryKnown'
  <2>1. SUFFICES ASSUME pc[Vac] \in {"remove", "barrier"}
                 PROVE  IF vac.entry = NoTid THEN \E H \in SUBSET Slots : NewGraph(H)'
                        ELSE meta'.tid = vac.entry /\ vac.high.tid # vac.entry
    BY <1>1, <1>2 DEF EntryKnown
  <2>2. EntryKnown
    BY DEF LinksInv
  <2>3. CASE vac.entry = NoTid
    BY <2>1, <2>2, <2>3, InsertNewGraph DEF EntryKnown
  <2>4. CASE vac.entry # NoTid
    BY <2>1, <2>2, <2>4, InsertEntry DEF EntryKnown
  <2>5. QED
    BY <2>3, <2>4
<1>7. PastBarrier => CleanStays
  BY <1>1, <1>3, CleanFrame
<1>8. InsertsClean' /\ HighClean' /\ EntryClean' /\ LoopClean'
  <2>1. meta'.tid = meta.tid \/ \E s \in Slots : meta'.tid = s /\ (PastBarrier => Clean(s))
    BY InsertEntry
  <2>2. ASSUME NEW q \in Inserters, pc'[q] \in ConnectPc
        PROVE  \/ pc[q] \in ConnectPc /\ job'[q].tid = job[q].tid
               \/ \E s \in Slots : job'[q].tid = s /\ Holds(s)' /\ ~Holds(s)
    <3>1. CASE q # p
      BY <1>1, <2>2, <3>1, ProcNames DEF OnlyMoves
    <3>2. CASE q = p
      <4>1. \A s \in Slots : Added(s) => Holds(s)' /\ ~Holds(s)
        BY <1>1, HoldsPlaced DEF Growth, Added
      <4>2. QED
        BY <2>2, <3>2, <4>1 DEF InsertMove
    <3>3. QED
      BY <3>1, <3>2
  <2>3. QED
    BY <1>1, <1>2, <1>7, <2>1, <2>2, CleanParts
<1>9. JobClean'
  <2>1. SUFFICES ASSUME pc[Vac] \in {"connect", "update", "repaired"} PROVE Clean(job[Vac].tid)'
    BY <1>2 DEF JobClean
  <2>2. PastBarrier /\ vac.stage # "none"
    BY <1>1, <2>1 DEF PastBarrier, VacuumTracks, RepairPc
  <2>3. PICK s \in Slots : s = job[Vac].tid
    BY <1>1, <2>2 DEF TypeOK, JobsNamed
  <2>4. Clean(s)'
    BY <1>7, <2>1, <2>2, <2>3 DEF CleanStays, LinksInv, VacuumClean, JobClean
  <2>5. QED
    BY <1>2, <2>3, <2>4 DEF Clean, Links
<1>10. ScansHold'
  <2>1. SUFFICES ASSUME pc[Vac] = "mark", NEW q \in Scanners PROVE ScanHolds(q)'
    BY <1>2 DEF ScansHold
  <2>2. srch'[q] = srch[q] /\ srch[q] \in SearchState
    BY <1>1, ProcNames, VarTypes DEF OnlyMoves
  <2>3. srch[q].pend \subseteq Slots /\ \A h \in srch[q].hnd : h.tid \in Slots
    BY <2>2 DEF SearchState, Element
  <2>4. ScanHolds(q)
    BY <2>1 DEF LinksInv, ScansHold
  <2>5. QED
    BY <1>1, <2>2, <2>3, <2>4 DEF ScanHolds, RowsStay, Holds
<1>11. QED
  <2>1. LocksMatch' /\ Intact'
    BY InsertLocksMatch, InsertRegion
  <2>2. VacuumClean'
    BY <1>8, <1>9 DEF VacuumClean
  <2>3. QED
    BY <1>4, <1>5, <1>6, <1>10, <2>1, <2>2 DEF LinksInv
-----------------------------------------------------------------------------
(***************************************************************************)
(* A scan's step keeps the invariant.                                      *)
(***************************************************************************)

\* The graph is as it was: so are its parts.
LEMMA SameGraph ==
  ASSUME UNCHANGED <<etup, ntup>>
  PROVE  /\ \A s : (Clean(s)' <=> Clean(s)) /\ (Holds(s)' <=> Holds(s))
                   /\ (Placed(s)' <=> Placed(s)) /\ Links(s)' = Links(s)
         /\ \A G : Closed(G)' <=> Closed(G)
         /\ LinksUsed' <=> LinksUsed
         /\ CleanStays
<1>1. \A s : (Holds(s)' <=> Holds(s)) /\ (Placed(s)' <=> Placed(s)) /\ Links(s)' = Links(s)
  BY DEF Holds, Placed, Links
<1>2. \A s : Clean(s)' <=> Clean(s)
  BY <1>1 DEF Clean
<1>3. QED
  BY <1>1, <1>2 DEF Closed, LinksUsed, CleanStays

\* A scan that follows connections keeps LinksInv.
LEMMA ScanMoveLinks ==
  ASSUME EntriesInv, LinksInv, NEW p \in Scanners, OnlyMoves(p),
         UNCHANGED <<etup, ntup, meta, vac>>, Walks(p), ScannerLocks(p)'
  PROVE  LinksInv'
<1>1. /\ TypeOK /\ LinksUsed /\ LocksMatch /\ RepairsHold /\ EntryKnown /\ VacuumClean /\ ScansHold
      /\ Vac # p /\ p \notin Writers
  BY ProcNames DEF EntriesInv, IndexInv, LinksInv
<1>2. /\ \A q \in Writers : /\ lock'[q] = lock[q] /\ pc'[q] = pc[q] /\ ep'[q] = ep[q]
                            /\ srch'[q] = srch[q] /\ job'[q] = job[q] /\ sel'[q] = sel[q]
                            /\ todo'[q] = todo[q]
      /\ \A q \in Scanners \ {p} : lock'[q] = lock[q] /\ srch'[q] = srch[q]
  BY <1>1, ProcNames DEF OnlyMoves
<1>3. job'[Vac] = job[Vac] /\ pc'[Vac] = pc[Vac] /\ lock'[Vac] = lock[Vac]
  BY <1>2, ProcNames
<1>4. LinksUsed' /\ CleanStays
  BY <1>1, SameGraph
<1>5. LocksMatch'
  <2>1. ASSUME NEW q \in Inserters PROVE InserterLocks(q)'
    <3>1. /\ lock'[q] = lock[q] /\ pc'[q] = pc[q] /\ ep'[q] = ep[q] /\ srch'[q] = srch[q]
          /\ job'[q] = job[q] /\ sel'[q] = sel[q] /\ todo'[q] = todo[q]
      BY <1>2, ProcNames
    <3>2. ep[q].tid # NoTid => meta'.tid # NoTid
      BY <1>1 DEF LocksMatch, InserterLocks
    <3>3. Untouched(q) => Untouched(q)'
      BY <3>1 DEF Untouched, Links
    <3>4. QED
      BY <1>1, <3>1, <3>2, <3>3, LocksFrame
  <2>2. \A q \in Scanners : ScannerLocks(q)'
    BY <1>1, <1>2 DEF LocksMatch, ScannerLocks
  <2>3. QED
    BY <1>1, <1>3, <2>1, <2>2 DEF LocksMatch
<1>6. RepairsHold'
  BY <1>1, <1>3 DEF RepairsHold, Holds
<1>7. Intact'
  <2>1. PICK G \in SUBSET Slots : Region(G)
    BY DEF LinksInv, Intact
  <2>2. ScanIn(p, G)'
    BY <2>1 DEF Walks, ScanIn, Region, Closed
  <2>3. \A q \in Scanners : ScanIn(q, G)'
    BY <1>2, <2>1, <2>2 DEF ScanIn, Region
  <2>4. \A q \in Writers : Held(q)' = Held(q)
    BY <1>2, HeldSame
  <2>5. Closed(G)' /\ \A s : Holds(s)' <=> Holds(s)
    BY <2>1, SameGraph DEF Region
  <2>6. Region(G)'
    BY <2>1, <2>3, <2>4, <2>5 DEF Region
  <2>7. QED
    BY <2>6 DEF Intact
<1>8. EntryKnown'
  <2>1. ASSUME NEW H \in SUBSET Slots, NewGraph(H) PROVE NewGraph(H)'
    <3>1. \A q \in Inserters : InsertIn(q, H)'
      BY <1>2, <2>1, ProcNames DEF NewGraph, InsertIn, ScanIn
    <3>2. \A s \in H : Holds(s)' /\ etup'[s].heaptids \intersect vac'.dead = {} /\ Links(s)' \subseteq H
      BY <2>1, SameGraph DEF NewGraph
    <3>3. meta'.tid # NoTid => meta'.tid \in H
      BY <2>1 DEF NewGraph
    <3>4. QED
      BY <3>1, <3>2, <3>3 DEF NewGraph
  <2>2. QED
    BY <1>1, <1>3, <2>1 DEF EntryKnown
<1>9. VacuumClean'
  <2>1. JobClean'
    BY <1>1, <1>3, SameGraph DEF VacuumClean, JobClean
  <2>2. meta'.tid = meta.tid
    OBVIOUS
  <2>3. \A q \in Inserters : pc'[q] \in ConnectPc => pc[q] \in ConnectPc /\ job'[q].tid = job[q].tid
    BY <1>2, ProcNames
  <2>4. InsertsClean' /\ HighClean' /\ EntryClean' /\ LoopClean'
    BY <1>3, <1>4, <2>2, <2>3, CleanParts
  <2>5. QED
    BY <2>1, <2>4 DEF VacuumClean
<1>10. ScansHold'
  <2>1. SUFFICES ASSUME pc[Vac] = "mark", NEW q \in Scanners PROVE ScanHolds(q)'
    BY <1>3 DEF ScansHold
  <2>2. \A s : Holds(s)' <=> Holds(s)
    BY SameGraph
  <2>3. ScanHolds(p) /\ ScanHolds(q)
    BY <1>1, <2>1 DEF ScansHold
  <2>4. CASE q # p
    BY <1>2, <2>2, <2>3, <2>4 DEF ScanHolds
  <2>5. CASE q = p
    <3>1. meta.tid # NoTid => Holds(meta.tid)
      BY <2>1 DEF EntriesInv, IndexInv, EntryHeld, Holds
    <3>2. ASSUME NEW h \in srch[p].hnd, NEW t \in Links(h.tid) PROVE Holds(t)
      <4>1. h.tid \in Slots /\ Holds(h.tid)
        BY <1>1, <2>3, ProcNames, VarTypes DEF ScanHolds, SearchState, Element
      <4>2. Clean(h.tid)
        BY <1>1, <2>1, <4>1 DEF VacuumClean, LoopClean
      <4>3. QED
        BY <3>2, <4>2 DEF Clean
    <3>3. \A t \in srch'[p].pend : Holds(t)
      BY <2>3, <3>1, <3>2 DEF Walks, ScanHolds
    <3>4. \A h \in srch'[p].hnd : Holds(h.tid)
      BY <2>3 DEF Walks, ScanHolds
    <3>5. QED
      BY <2>2, <2>5, <3>3, <3>4 DEF ScanHolds
  <2>6. QED
    BY <2>4, <2>5
<1>11. QED
  BY <1>4, <1>5, <1>6, <1>7, <1>8, <1>9, <1>10 DEF LinksInv

\* The steps of scans keep LinksInv.
LEMMA ScanLinks ==
  ASSUME EntriesInv, LinksInv, OneLayer, NEW p \in Scanners,
         ScanBegin(p) \/ ScanStep(p) \/ ScanAbort(p)
  PROVE  LinksInv'
<1>1. TypeOK /\ p \in Procs /\ p \notin Writers
  BY ProcNames DEF EntriesInv, IndexInv
<1>2. lock[p] = "none" => srch[p].hnd = {} /\ srch[p].pend = {}
  BY DEF LinksInv, LocksMatch, ScannerLocks
<1>3. CASE LoadElement(p)
  <2>1. UNCHANGED <<etup, ntup, meta, vac, lock>> /\ srch[p].pend # {}
    BY <1>3 DEF LoadElement
  <2>2. ScannerLocks(p)'
    BY <1>2, <2>1 DEF ScannerLocks
  <2>3. QED
    BY <1>1, <1>3, <2>1, <2>2, LoadWalks, ScanMoveLinks
<1>4. CASE ReadNeighbors(p)
  <2>1. UNCHANGED <<etup, ntup, meta, vac, lock>> /\ srch[p].hnd # {}
    BY <1>4 DEF ReadNeighbors
  <2>2. ScannerLocks(p)'
    BY <1>2, <2>1 DEF ScannerLocks
  <2>3. QED
    BY <1>1, <1>4, <2>1, <2>2, ReadWalks, ScanMoveLinks
<1>5. CASE ScanBegin(p)
  <2>1. /\ UNCHANGED <<etup, ntup, meta, vac, job, sel, todo>> /\ meta.tid # NoTid
        /\ lock' = [lock EXCEPT ![p] = "share"] /\ ep' = [ep EXCEPT ![p] = meta]
        /\ srch' = [srch EXCEPT ![p] = Search(meta)] /\ pc' = [pc EXCEPT ![p] = "search"]
    BY <1>5 DEF ScanBegin, FindNeighbors
  <2>2. OnlyMoves(p)
    BY <1>1, <2>1, VarTypes DEF OnlyMoves
  <2>3. srch'[p].hnd = {} /\ srch'[p].pend = {meta.tid}
    BY <1>1, <2>1, VarTypes DEF Search
  <2>4. Walks(p)
    BY <2>1, <2>3 DEF Walks
  <2>5. ScannerLocks(p)'
    BY <1>1, <2>1, VarTypes DEF ScannerLocks
  <2>6. QED
    BY <2>1, <2>2, <2>4, <2>5, ScanMoveLinks
<1>6. CASE EndScan(p)
  <2>1. /\ UNCHANGED <<etup, ntup, meta, vac, job, sel, todo>>
        /\ lock' = [lock EXCEPT ![p] = "none"] /\ ep' = [ep EXCEPT ![p] = NoEntry]
        /\ srch' = [srch EXCEPT ![p] = NoSearch] /\ pc' = [pc EXCEPT ![p] = "idle"]
    BY <1>6 DEF EndScan
  <2>2. OnlyMoves(p)
    BY <1>1, <2>1, VarTypes DEF OnlyMoves
  <2>3. srch'[p].hnd = {} /\ srch'[p].pend = {}
    BY <1>1, <2>1, VarTypes DEF NoSearch
  <2>4. Walks(p)
    BY <2>3 DEF Walks
  <2>5. ScannerLocks(p)'
    BY <2>3 DEF ScannerLocks
  <2>6. QED
    BY <2>1, <2>2, <2>4, <2>5, ScanMoveLinks
<1>7. ~NextLayer(p)
  BY <1>1, NoNextLayer
<1>8. QED
  BY <1>3, <1>4, <1>5, <1>6, <1>7 DEF ScanStep, WalkGraph, ScanDone, ScanAbort
-----------------------------------------------------------------------------
(***************************************************************************)
(* The search and the connections of a repair keep the invariant.          *)
(***************************************************************************)
LEMMA RepairMoveLinks ==
  ASSUME EntriesInv, LinksInv, OnlyMoves(Vac), UNCHANGED <<etup, meta, lock, vac>>,
         {pc[Vac], pc'[Vac]} \subseteq RepairPc, job'[Vac].tid = job[Vac].tid,
         \A s \in Slots : Links(s)' \subseteq Links(s) \union Reach(Vac),
         Holding(Vac),
         pc'[Vac] \in {"connect", "update"} /\ pc[Vac] \notin {"connect", "update"} =>
           Links(job[Vac].tid)' \subseteq Reach(Vac),
         pc'[Vac] = pc[Vac] \/ pc'[Vac] # "repaired"
  PROVE  LinksInv'
<1>1. /\ TypeOK /\ LocksMatch /\ RepairsHold /\ VacuumClean /\ Vac \in Writers
      /\ PastBarrier /\ vac.stage # "none" /\ job[Vac].tid \in Slots
  BY ProcNames DEF EntriesInv, IndexInv, LinksInv, PastBarrier, RepairPc, VacuumTracks, TypeOK,
                   JobsNamed
<1>2. \A t \in Reach(Vac) : t \in Slots /\ Placed(t) /\ Holds(t)
  BY <1>1, ReachGood
<1>3. Growth(Reach(Vac), {}) /\ RowsStay /\ PlacesStay
  BY DEF Growth, RowsStay, PlacesStay, Added, Placed, Holds
<1>4. CleanStays
  BY <1>1, <1>2, <1>3, CleanFrame
<1>5. LinksUsed'
  <2>1. \A t \in Reach(Vac) : t \in Slots /\ etup[t].used
    BY <1>2 DEF Placed
  <2>2. LinksUsed
    BY DEF LinksInv
  <2>3. QED
    BY <1>1, <1>3, <2>1, <2>2, UsedFrame
<1>6. LocksMatch'
  <2>1. ASSUME NEW q \in Inserters PROVE InserterLocks(q)'
    <3>1. /\ lock'[q] = lock[q] /\ pc'[q] = pc[q] /\ ep'[q] = ep[q] /\ srch'[q] = srch[q]
          /\ job'[q] = job[q] /\ sel'[q] = sel[q] /\ todo'[q] = todo[q]
      BY ProcNames DEF OnlyMoves
    <3>2. ep[q].tid # NoTid => meta'.tid # NoTid
      BY <1>1 DEF LocksMatch, InserterLocks
    <3>3. ~(pc[q] \in ConnectPc /\ ep[q].tid = NoTid)
      BY <1>1, LoneHasLock, ProcNames DEF LocksMatch
    <3>4. QED
      BY <1>1, <3>1, <3>2, <3>3, LocksFrame
  <2>2. \A q \in Scanners : ScannerLocks(q)'
    BY <1>1, ProcNames DEF OnlyMoves, LocksMatch, ScannerLocks
  <2>3. QED
    BY <1>1, <2>1, <2>2 DEF LocksMatch
<1>7. RepairsHold'
  BY <1>1 DEF RepairsHold, Holds
<1>8. Intact'
  <2>1. PICK G \in SUBSET Slots : Region(G)
    BY DEF LinksInv, Intact
  <2>2. Reach(Vac) \subseteq G
    BY <1>2, <2>1 DEF Region
  <2>3. \A q \in Scanners : ScanIn(q, G)'
    <3>1. \A q \in Scanners : srch'[q] = srch[q]
      BY ProcNames DEF OnlyMoves
    <3>2. QED
      BY <2>1, <3>1 DEF Region, ScanIn
  <2>4. \A q \in Writers : Holding(q)
    <3>1. \A q \in Writers \ {Vac} : srch'[q] = srch[q] /\ sel'[q] = sel[q] /\ todo'[q] = todo[q]
      BY ProcNames DEF OnlyMoves
    <3>2. \A q \in Writers \ {Vac} : Held(q)' = Held(q)
      BY <3>1, HeldSame
    <3>3. QED
      BY <3>2 DEF Holding
  <2>5. meta'.tid # NoTid => meta'.tid = meta.tid \/ (meta'.tid \in Slots /\ Holds(meta'.tid))
    OBVIOUS
  <2>6. QED
    BY <1>3, <2>1, <2>2, <2>3, <2>4, <2>5, RegionFrame
<1>9. EntryKnown' /\ ScansHold'
  BY DEF EntryKnown, ScansHold, RepairPc
<1>10. JobClean'
  <2>1. SUFFICES ASSUME pc'[Vac] \in {"connect", "update", "repaired"}
                 PROVE  Clean(job[Vac].tid)'
    BY DEF JobClean
  <2>2. PICK s \in Slots : s = job[Vac].tid
    BY <1>1
  <2>3. CASE pc[Vac] \in {"connect", "update", "repaired"}
    <3>1. Clean(s)'
      BY <1>1, <1>4, <2>2, <2>3 DEF VacuumClean, JobClean, CleanStays
    <3>2. QED
      BY <2>2, <3>1 DEF Clean, Links
  <2>4. CASE pc[Vac] \notin {"connect", "update", "repaired"}
    <3>1. Links(job[Vac].tid)' \subseteq Reach(Vac)
      BY <2>1, <2>4
    <3>2. \A t \in Reach(Vac) : Holds(t)'
      BY <1>2 DEF Holds
    <3>3. QED
      BY <3>1, <3>2 DEF Clean
  <2>5. QED
    BY <2>3, <2>4
<1>11. VacuumClean'
  <2>1. \A q \in Inserters : pc'[q] \in ConnectPc => pc[q] \in ConnectPc /\ job'[q].tid = job[q].tid
    BY ProcNames DEF OnlyMoves
  <2>2. InsertsClean' /\ HighClean' /\ EntryClean' /\ LoopClean'
    BY <1>4, <2>1, CleanParts
  <2>3. QED
    BY <1>10, <2>2 DEF VacuumClean
<1>12. QED
  BY <1>5, <1>6, <1>7, <1>8, <1>9, <1>11 DEF LinksInv

\* Searching for, rewriting and connecting an element repaired keep LinksInv.
LEMMA RepairStepLinks ==
  ASSUME EntriesInv, LinksInv, OneLayer, WalkGraph(Vac) \/ Connect(Vac) \/ RewriteNeighbors
  PROVE  LinksInv'
<1>1. TypeOK /\ Vac \in Procs /\ Vac \in Writers
  BY ProcNames DEF EntriesInv, IndexInv
<1>2. CASE LoadElement(Vac)
  <2>1. UNCHANGED <<etup, ntup, meta, lock, vac, pc, job>> /\ pc[Vac] = "search"
    BY <1>2 DEF LoadElement
  <2>2. OnlyMoves(Vac) /\ Holding(Vac)
    BY <1>1, <1>2, LoadWalks
  <2>3. QED
    BY <2>1, <2>2, SameGraph, RepairMoveLinks DEF RepairPc
<1>3. CASE ReadNeighbors(Vac)
  <2>1. UNCHANGED <<etup, ntup, meta, lock, vac, pc, job>> /\ pc[Vac] = "search"
    BY <1>3 DEF ReadNeighbors
  <2>2. OnlyMoves(Vac) /\ Holding(Vac)
    BY <1>1, <1>3, ReadWalks
  <2>3. QED
    BY <2>1, <2>2, SameGraph, RepairMoveLinks DEF RepairPc
<1>4. CASE WriterSearchDone(Vac)
  <2>1. UNCHANGED <<etup, ntup, meta, lock, vac, job>>
    BY <1>4 DEF WriterSearchDone
  <2>2. OnlyMoves(Vac) /\ Holding(Vac) /\ pc[Vac] = "search" /\ pc'[Vac] = "rewrite"
    BY <1>1, <1>4, SearchDoneSelects
  <2>3. QED
    BY <2>1, <2>2, SameGraph, RepairMoveLinks DEF RepairPc
<1>5. CASE GetUpdateIndex(Vac)
  <2>1. /\ OnlyMoves(Vac) /\ UNCHANGED <<etup, ntup, meta, lock, srch, sel, vac>>
        /\ todo'[Vac] \subseteq todo[Vac] /\ pc[Vac] \in ConnectPc /\ pc'[Vac] \in ConnectPc
        /\ job'[Vac].tid = job[Vac].tid
    BY <1>1, <1>5, GetUpdateIndexMoves
  <2>2. Holding(Vac)
    BY <2>1 DEF Holding, Held
  <2>3. QED
    BY <2>1, <2>2, SameGraph, RepairMoveLinks DEF RepairPc, ConnectPc
<1>6. CASE UpdateNeighbor(Vac)
  <2>1. /\ OnlyMoves(Vac) /\ UNCHANGED <<etup, meta, lock, srch, sel, vac>>
        /\ \A s \in Slots : Links(s)' \subseteq Links(s) \union {job[Vac].tid}
        /\ todo'[Vac] \subseteq todo[Vac] /\ pc[Vac] \in ConnectPc /\ pc'[Vac] \in ConnectPc
        /\ job'[Vac].tid = job[Vac].tid
    BY <1>1, <1>6, UpdateNeighborMoves
  <2>2. Holding(Vac)
    BY <2>1 DEF Holding, Held
  <2>3. vac.stage # "none"
    BY <2>1 DEF EntriesInv, IndexInv, VacuumTracks, RepairPc, ConnectPc
  <2>4. job[Vac].tid \in Reach(Vac)
    BY <2>3 DEF Reach
  <2>5. QED
    BY <2>1, <2>2, <2>4, RepairMoveLinks DEF RepairPc, ConnectPc
<1>7. CASE RewriteNeighbors
  <2>1. /\ UNCHANGED <<etup, meta, lock, job, ep, srch, sel, vac>> /\ pc[Vac] = "rewrite"
        /\ ntup' = [ntup EXCEPT ![job[Vac].tid] =
             [level |-> job[Vac].level, version |-> job[Vac].version,
              tids |-> NeighborLists(sel[Vac])]]
        /\ todo' = [todo EXCEPT ![Vac] = sel[Vac]] /\ pc' = [pc EXCEPT ![Vac] = "connect"]
    BY <1>7 DEF RewriteNeighbors
  <2>2. job[Vac].tid \in Slots
    <3>1. vac.stage # "none"
      BY <2>1 DEF EntriesInv, IndexInv, VacuumTracks, RepairPc
    <3>2. QED
      BY <1>1, <3>1 DEF TypeOK, JobsNamed
  <2>3. pc'[Vac] = "connect" /\ todo'[Vac] = sel[Vac] /\ OnlyMoves(Vac)
    BY <1>1, <2>1, VarTypes DEF OnlyMoves
  <2>4. Holding(Vac)
    BY <2>1, <2>3 DEF Holding, Held
  <2>5. /\ ntup'[job[Vac].tid].tids = NeighborLists(sel[Vac])
        /\ \A s \in Slots \ {job[Vac].tid} : ntup'[s] = ntup[s]
    BY <1>1, <2>1, <2>2, VarTypes
  <2>6. {c.nb.tid : c \in sel[Vac]} \subseteq Reach(Vac)
    BY DEF Reach, Held
  <2>7. PICK v \in Slots : v = job[Vac].tid
    BY <2>2
  <2>8. Links(v)' \subseteq Reach(Vac)
    BY <2>5, <2>6, <2>7, ChosenLinks
  <2>9. \A s \in Slots \ {v} : Links(s)' = Links(s)
    BY <2>5, <2>7 DEF Links
  <2>10. Links(job[Vac].tid)' \subseteq Reach(Vac)
    BY <2>1, <2>7, <2>8 DEF Links
  <2>11. \A s \in Slots : Links(s)' \subseteq Links(s) \union Reach(Vac)
    BY <2>8, <2>9
  <2>12. QED
    BY <2>1, <2>3, <2>4, <2>10, <2>11, RepairMoveLinks DEF RepairPc
<1>8. ~NextLayer(Vac)
  BY <1>1, NoNextLayer
<1>9. QED
  BY <1>2, <1>3, <1>4, <1>5, <1>6, <1>7, <1>8 DEF WalkGraph, Connect
-----------------------------------------------------------------------------
(***************************************************************************)
(* The phases of VACUUM.                                                   *)
(***************************************************************************)

\* One that only moves on; one that starts a repair; one that gives the lock up.
LEMMA StillMoves ==
  ASSUME TypeOK, UNCHANGED <<lock, job, ep, srch, sel, todo>>,
         \A q \in Procs \ {Vac} : pc'[q] = pc[q]
  PROVE  OnlyMoves(Vac) /\ Holding(Vac)
BY DEF OnlyMoves, Holding, Held

\* RepairGraphElement begins with nothing selected.
LEMMA RepairMoves ==
  ASSUME TypeOK, NEW e, NEW entry, NEW stage, NEW mode, RepairElement(e, entry, stage, mode),
         UNCHANGED <<sel, todo>>
  PROVE  /\ OnlyMoves(Vac) /\ Holding(Vac)
         /\ lock'[Vac] = mode /\ job'[Vac].tid = e.tid
         /\ pc'[Vac] \in {"search", "repaired", "rewrite"}
         /\ pc'[Vac] = "repaired" => e.tid = entry.tid
         /\ vac' = [vac EXCEPT !.stage = stage]
<1>1. Vac \in Procs /\ Vac \in Writers
  BY ProcNames
<1> DEFINE searches == entry.tid \notin {e.tid, NoTid}
           next == IF searches THEN "search" ELSE IF e.tid = entry.tid THEN "repaired" ELSE "rewrite"
           start == IF searches THEN Search(entry) ELSE NoSearch
<1>2. /\ vac'  = [vac EXCEPT !.stage = stage]
      /\ job'  = [job EXCEPT ![Vac] = [NoJob EXCEPT !.tid = e.tid, !.level = e.level,
                                         !.version = e.version, !.value = e.value]]
      /\ lock' = [lock EXCEPT ![Vac] = mode] /\ ep' = [ep EXCEPT ![Vac] = entry]
      /\ srch' = [srch EXCEPT ![Vac] = start] /\ pc' = [pc EXCEPT ![Vac] = next]
  BY DEF RepairElement
<1>3. next \in {"search", "repaired", "rewrite"} /\ (next = "repaired" => e.tid = entry.tid)
  OBVIOUS
<1>4. start.hnd = {}
  BY DEF Search, NoSearch
<1> HIDE DEF next, start
<1>5. /\ lock'[Vac] = mode /\ pc'[Vac] = next /\ srch'[Vac] = start
      /\ \A q \in Procs \ {Vac} :
           lock'[q] = lock[q] /\ pc'[q] = pc[q] /\ ep'[q] = ep[q] /\ srch'[q] = srch[q]
  BY <1>1, <1>2, VarTypes
<1>6. job'[Vac].tid = e.tid /\ \A q \in Writers \ {Vac} : job'[q] = job[q]
  BY <1>1, <1>2, VarTypes DEF NoJob
<1>7. OnlyMoves(Vac)
  BY <1>5, <1>6 DEF OnlyMoves
<1>8. Holding(Vac)
  BY <1>4, <1>5 DEF Holding, Held
<1>9. QED
  BY <1>2, <1>3, <1>5, <1>6, <1>7, <1>8

\* Letting go of a lock moves nobody else.
LEMMA ReleaseMoves ==
  ASSUME TypeOK, Release(Vac), \A q \in Procs \ {Vac} : pc'[q] = pc[q]
  PROVE  OnlyMoves(Vac) /\ Holding(Vac)
<1>1. Vac \in Procs /\ Vac \in Writers
  BY ProcNames
<1>2. /\ srch'[Vac] = NoSearch /\ sel'[Vac] = {} /\ todo'[Vac] = {}
      /\ \A q \in Procs \ {Vac} : lock'[q] = lock[q] /\ ep'[q] = ep[q] /\ srch'[q] = srch[q]
      /\ \A q \in Writers \ {Vac} : job'[q] = job[q] /\ sel'[q] = sel[q] /\ todo'[q] = todo[q]
  BY <1>1, VarTypes DEF Release
<1>3. OnlyMoves(Vac)
  BY <1>2 DEF OnlyMoves
<1>4. Holding(Vac)
  BY <1>2 DEF Holding, Held, NoSearch
<1>5. QED
  BY <1>3, <1>4

\* A phase that leaves the tuples alone.
LEMMA PhaseFrame ==
  ASSUME EntriesInv, LinksInv, OnlyMoves(Vac), Holding(Vac), UNCHANGED <<etup, ntup>>,
         meta'.tid = meta.tid \/
           /\ \A q \in Inserters : ep[q].tid # NoTid => meta'.tid # NoTid
           /\ meta'.tid # NoTid => meta'.tid \in Slots /\ Holds(meta'.tid),
         pc'[Vac] \in RepairPc => lock'[Vac] # "none"
  PROVE  /\ LinksUsed' /\ LocksMatch' /\ Intact'
         /\ PastBarrier => InsertsClean'
<1>1. LocksMatch /\ LinksUsed /\ VacuumClean /\ TypeOK
  BY DEF LinksInv, EntriesInv, IndexInv
<1>2. \A q \in Inserters : /\ lock'[q] = lock[q] /\ pc'[q] = pc[q] /\ ep'[q] = ep[q]
                           /\ srch'[q] = srch[q] /\ job'[q] = job[q] /\ sel'[q] = sel[q]
                           /\ todo'[q] = todo[q]
  BY ProcNames DEF OnlyMoves
<1>3. LinksUsed'
  BY <1>1, SameGraph
<1>4. LocksMatch'
  <2>1. ASSUME NEW q \in Inserters PROVE InserterLocks(q)'
    <3>1. ep[q].tid # NoTid => meta'.tid # NoTid
      BY <1>1 DEF LocksMatch, InserterLocks
    <3>2. Untouched(q) => Untouched(q)'
      <4>1. job'[q] = job[q]
        BY <1>2
      <4>2. QED
        BY <4>1 DEF Untouched, Links
    <3>3. QED
      BY <1>1, <1>2, <3>1, <3>2, LocksFrame
  <2>2. \A q \in Scanners : ScannerLocks(q)'
    BY <1>1, ProcNames DEF OnlyMoves, LocksMatch, ScannerLocks
  <2>3. QED
    BY <2>1, <2>2 DEF LocksMatch
<1>5. Intact'
  <2>1. PICK G \in SUBSET Slots : Region(G)
    BY DEF LinksInv, Intact
  <2>2. PlacesStay /\ \A R, T : Growth(R, T)
    BY QuietGrowth
  <2>3. \A q \in Scanners : ScanIn(q, G)'
    <3>1. \A q \in Scanners : srch'[q] = srch[q]
      BY ProcNames DEF OnlyMoves
    <3>2. QED
      BY <2>1, <3>1 DEF Region, ScanIn
  <2>4. \A q \in Writers : Holding(q)
    <3>1. \A q \in Writers \ {Vac} : srch'[q] = srch[q] /\ sel'[q] = sel[q] /\ todo'[q] = todo[q]
      BY ProcNames DEF OnlyMoves
    <3>2. \A q \in Writers \ {Vac} : Held(q)' = Held(q)
      BY <3>1, HeldSame
    <3>3. QED
      BY <3>2 DEF Holding
  <2>5. meta'.tid # NoTid => meta'.tid = meta.tid \/ (meta'.tid \in Slots /\ Holds(meta'.tid))
    OBVIOUS
  <2>6. {} \in SUBSET G
    OBVIOUS
  <2>7. QED
    BY <2>1, <2>2, <2>3, <2>4, <2>5, <2>6, RegionFrame
<1>6. ASSUME PastBarrier PROVE InsertsClean'
  <2>1. SUFFICES ASSUME NEW q \in Inserters, pc'[q] \in ConnectPc PROVE Clean(job[q].tid)'
    BY DEF InsertsClean
  <2>2. Clean(job[q].tid)
    BY <1>1, <1>2, <1>6, <2>1 DEF VacuumClean, InsertsClean
  <2>3. job'[q].tid = job[q].tid /\ UNCHANGED <<etup, ntup>>
    BY <1>2
  <2>4. QED
    BY <2>2, <2>3 DEF Clean, Links, Holds
<1>7. QED
  BY <1>3, <1>4, <1>5, <1>6

\* An element with no connection to one that VACUUM has emptied.
LEMMA NotUpdatedClean ==
  ASSUME EntriesInv, LinksUsed, pc[Vac] \notin {"idle", "remove"}, NEW s \in Slots,
         ~NeedsUpdated(s)
  PROVE  Clean(s)
<1>1. SUFFICES ASSUME NEW i \in 1..(2 * M), ntup[s].tids[0][i] # NoTid
               PROVE  Holds(ntup[s].tids[0][i])
  BY DEF Clean, Links
<1>2. PICK t \in Links(s) : t = ntup[s].tids[0][i]
  BY <1>1 DEF Links
<1>3. t \in Slots /\ etup[t].used
  BY LinksType DEF LinksUsed, EntriesInv, IndexInv
<1>4. Swept(t)
  BY <1>3 DEF EntriesInv, IndexInv, VacuumSweeps
<1>5. ntup[s].level \in Levels
  BY VarTypes DEF EntriesInv, IndexInv, NeighborTuple
<1>6. 0 \in 0..ntup[s].level /\ LayerM(0) = 2 * M
  BY <1>5 DEF Levels, LayerM
<1>7. t \notin vac.deleted
  BY <1>2, <1>6 DEF NeedsUpdated
<1>8. QED
  BY <1>2, <1>4, <1>7 DEF Swept, Holds

\* An element not emptied has rows.
LEMMA KeptHolds ==
  ASSUME EntriesInv, pc[Vac] \notin {"idle", "remove"}, NEW s \in Slots, etup[s].used,
         s \notin vac.deleted
  PROVE  Holds(s)
BY DEF EntriesInv, IndexInv, VacuumSweeps, Swept, Holds

\* VACUUM begins: without an entry point, all that inserts are connecting are
\* elements that nobody has added anything to.
LEMMA BeginLinks ==
  ASSUME EntriesInv, LinksInv, VacuumBegin PROVE LinksInv'
<1>1. TypeOK /\ LocksMatch
  BY DEF EntriesInv, IndexInv, LinksInv
<1>2. /\ UNCHANGED <<row, etup, ntup, meta, lock, job, ep, srch, sel, todo>>
      /\ vac' = [VacIdle EXCEPT !.dead = {t \in HeapTids : row[t] = "dead"}, !.entry = meta.tid]
      /\ pc' = [pc EXCEPT ![Vac] = "remove"]
  BY DEF VacuumBegin
<1>3. pc'[Vac] = "remove" /\ \A q \in Procs \ {Vac} : pc'[q] = pc[q]
  BY <1>1, <1>2, ProcNames, VarTypes
<1>4. /\ vac'.dead = {t \in HeapTids : row[t] = "dead"} /\ vac'.entry = meta.tid
      /\ vac'.high = NoEntry /\ vac'.stage = "none"
  BY <1>2 DEF VacIdle
<1>5. OnlyMoves(Vac) /\ Holding(Vac)
  BY <1>1, <1>2, <1>3, StillMoves
<1>6. LinksUsed' /\ LocksMatch' /\ Intact'
  BY <1>2, <1>3, <1>5, PhaseFrame DEF RepairPc
<1>7. EntryKnown'
  <2>1. CASE meta.tid # NoTid
    BY <1>2, <1>4, <2>1 DEF EntryKnown, NoEntry
  <2>2. CASE meta.tid = NoTid
    <3>1. PICK H \in SUBSET Slots :
            H = {s \in Slots : \E q \in Inserters : pc[q] \in ConnectPc /\ s = job[q].tid}
      OBVIOUS
    <3>2. ASSUME NEW q \in Inserters
          PROVE  /\ srch[q].hnd = {} /\ srch[q].pend = {} /\ sel[q] = {} /\ todo[q] = {}
                 /\ pc[q] \in ConnectPc => Untouched(q)
      BY <1>1, <2>2 DEF LocksMatch, InserterLocks
    <3>3. ASSUME NEW s \in H
          PROVE  Holds(s) /\ etup[s].heaptids \intersect vac'.dead = {} /\ Links(s) \subseteq H
      <4>1. PICK q \in Inserters : pc[q] \in ConnectPc /\ s = job[q].tid
        BY <3>1
      <4>2. Links(s) = {} /\ etup[s].heaptids = {job[q].heaptid}
        BY <3>2, <4>1 DEF Untouched
      <4>3. row[job[q].heaptid] = "inserting"
        BY <4>1 DEF EntriesInv, IndexInv, RowsOwned, ConnectPc
      <4>4. QED
        BY <1>4, <4>2, <4>3 DEF Holds
    <3>4. ASSUME NEW q \in Inserters PROVE InsertIn(q, H)'
      <4>1. pc'[q] = pc[q]
        BY <1>3, ProcNames
      <4>2. pc[q] \in ConnectPc => job[q].tid \in H
        BY <1>1, <3>1 DEF TypeOK, JobsNamed, ConnectPc
      <4>3. QED
        BY <1>2, <3>2, <4>1, <4>2 DEF InsertIn, ScanIn
    <3>5. \A s \in H : Holds(s)' /\ etup'[s].heaptids \intersect vac'.dead = {} /\ Links(s)' \subseteq H
      BY <1>2, <3>3, SameGraph
    <3>6. NewGraph(H)'
      BY <1>2, <2>2, <3>4, <3>5 DEF NewGraph
    <3>7. QED
      BY <1>4, <2>2, <3>6 DEF EntryKnown
  <2>3. QED
    BY <2>1, <2>2
<1>8. RepairsHold' /\ VacuumClean' /\ ScansHold'
  BY <1>3, <1>4 DEF RepairsHold, VacuumClean, InsertsClean, JobClean, HighClean, EntryClean,
                    LoopClean, AtEntry, InLoop, ScansHold, PastBarrier
<1>9. QED
  BY <1>6, <1>7, <1>8 DEF LinksInv

\* RemoveHeapTids takes no row from the new graph, and never makes the entry point
\* it read the highest point.
LEMMA RemoveLinks ==
  ASSUME EntriesInv, EntriesInv', LinksInv, RemoveHeapTids PROVE LinksInv'
<1>1. TypeOK /\ LocksMatch /\ LinksUsed /\ VacuumTracks
  BY DEF EntriesInv, IndexInv, LinksInv
<1>2. /\ UNCHANGED <<row, ntup, meta, lock, job, ep, srch, sel, todo>> /\ pc[Vac] = "remove"
      /\ etup' = [s \in Slots |-> IF OnPage(s) THEN [etup[s] EXCEPT !.heaptids = Remaining(s)]
                                  ELSE etup[s]]
      /\ pc' = [pc EXCEPT ![Vac] = IF HasNextBlock(vac.blk) THEN "remove" ELSE "barrier"]
  BY DEF RemoveHeapTids
<1>3. PICK h \in HighestPoints :
        vac' = [vac EXCEPT !.deleted = @ \union {s \in Slots : OnPage(s) /\ Remaining(s) = {}},
                           !.high = h, !.blk = @ + 1]
  BY DEF RemoveHeapTids
<1>4. pc'[Vac] \in {"remove", "barrier"} /\ \A q \in Procs \ {Vac} : pc'[q] = pc[q]
  BY <1>1, <1>2, ProcNames, VarTypes
<1>5. vac'.stage = "none" /\ vac'.dead = vac.dead /\ vac'.entry = vac.entry /\ vac'.high = h
  <2>1. vac.stage = "none"
    BY <1>1, <1>2 DEF VacuumTracks, RepairPc
  <2>2. vac \in VacState
    BY <1>1 DEF TypeOK
  <2>3. QED
    BY <1>3, <2>1, <2>2 DEF VacState
<1>6. \A s \in Slots :
        /\ etup'[s].used = etup[s].used /\ etup'[s].deleted = etup[s].deleted
        /\ etup'[s].heaptids \in {etup[s].heaptids, etup[s].heaptids \ vac.dead}
  BY <1>1, <1>2, VarTypes DEF Remaining, ElementTuple
<1>7. \A s : Links(s)' = Links(s)
  BY <1>2 DEF Links
<1>8. OnlyMoves(Vac) /\ Holding(Vac)
  BY <1>1, <1>2, <1>4, StillMoves
<1>9. LinksUsed'
  BY <1>1, <1>6, <1>7, LinksType DEF LinksUsed
<1>10. LocksMatch'
  <2>1. ASSUME NEW q \in Inserters PROVE InserterLocks(q)'
    <3>1. /\ lock'[q] = lock[q] /\ pc'[q] = pc[q] /\ ep'[q] = ep[q] /\ srch'[q] = srch[q]
          /\ job'[q] = job[q] /\ sel'[q] = sel[q] /\ todo'[q] = todo[q]
      BY <1>8, ProcNames DEF OnlyMoves
    <3>2. ep[q].tid # NoTid => meta'.tid # NoTid
      BY <1>1, <1>2 DEF LocksMatch, InserterLocks
    <3>3. ASSUME pc[q] \in ConnectPc, Untouched(q) PROVE Untouched(q)'
      <4>1. PICK s \in Slots : s = job[q].tid
        BY <1>1, <3>3 DEF TypeOK, JobsNamed, ConnectPc
      <4>2. job[q].heaptid \notin vac.dead
        BY <3>3 DEF EntriesInv, IndexInv, RowsOwned, ConnectPc
      <4>3. Links(s) = {} /\ etup[s].heaptids = {job[q].heaptid}
        BY <3>3, <4>1 DEF Untouched
      <4>4. Links(s)' = {} /\ etup'[s].heaptids = {job[q].heaptid}
        BY <1>6, <1>7, <4>2, <4>3
      <4>5. QED
        BY <3>1, <4>1, <4>4 DEF Untouched, Links
    <3>4. QED
      BY <1>1, <3>1, <3>2, <3>3, LocksFrame
  <2>2. \A q \in Scanners : ScannerLocks(q)'
    BY <1>1, <1>2 DEF LocksMatch, ScannerLocks
  <2>3. QED
    BY <1>4, <2>1, <2>2 DEF LocksMatch, RepairPc
<1>11. Intact'
  <2>1. PICK G \in SUBSET Slots : Region(G)
    BY DEF LinksInv, Intact
  <2>2. Closed(G)'
    BY <1>6, <1>7, <2>1 DEF Region, Closed, Placed
  <2>3. \A s \in Slots : Holds(s)' => Holds(s)
    BY <1>6 DEF Holds
  <2>4. \A q \in Writers : Held(q)' = Held(q)
    BY <1>2, HeldSame
  <2>5. \A q \in Scanners : ScanIn(q, G)'
    BY <1>2, <2>1 DEF Region, ScanIn
  <2>6. Region(G)'
    BY <1>2, <2>1, <2>2, <2>3, <2>4, <2>5 DEF Region
  <2>7. QED
    BY <2>6 DEF Intact
<1>12. EntryKnown'
  <2>1. EntryKnown
    BY DEF LinksInv
  <2>2. CASE vac.entry = NoTid
    <3>1. PICK H \in SUBSET Slots : NewGraph(H)
      BY <1>2, <2>1, <2>2 DEF EntryKnown
    <3>2. \A s \in H : etup'[s].heaptids = etup[s].heaptids
      BY <1>6, <3>1 DEF NewGraph
    <3>3. \A s \in H : Holds(s)' /\ etup'[s].heaptids \intersect vac'.dead = {} /\ Links(s)' \subseteq H
      BY <1>5, <1>7, <3>1, <3>2 DEF NewGraph, Holds
    <3>4. ASSUME NEW q \in Inserters PROVE InsertIn(q, H)'
      <4>1. pc'[q] = pc[q]
        BY <1>4, ProcNames
      <4>2. InsertIn(q, H)
        BY <3>1 DEF NewGraph
      <4>3. QED
        BY <1>2, <4>1, <4>2 DEF InsertIn, ScanIn
    <3>5. NewGraph(H)'
      BY <1>2, <3>1, <3>3, <3>4 DEF NewGraph
    <3>6. QED
      BY <1>5, <2>2, <3>5 DEF EntryKnown
  <2>3. CASE vac.entry # NoTid
    <3>1. meta.tid = vac.entry /\ vac.high.tid # vac.entry
      BY <1>2, <2>1, <2>3 DEF EntryKnown
    <3>2. h.tid # vac.entry
      BY <3>1 DEF HighestPoints, Candidates
    <3>3. QED
      BY <1>2, <1>5, <2>3, <3>1, <3>2 DEF EntryKnown
  <2>4. QED
    BY <2>2, <2>3
<1>13. RepairsHold' /\ VacuumClean' /\ ScansHold'
  BY <1>4, <1>5 DEF RepairsHold, VacuumClean, InsertsClean, JobClean, HighClean, EntryClean,
                    LoopClean, AtEntry, InLoop, ScansHold, PastBarrier
<1>14. QED
  BY <1>9, <1>10, <1>11, <1>12, <1>13 DEF LinksInv

\* The wait ends: no insert is at work, and the entry point is a new element, or
\* an old one and not the highest point.
LEMMA BarrierLinks ==
  ASSUME EntriesInv, LinksInv, WaitForInserts PROVE LinksInv'
<1>1. TypeOK /\ LocksMatch /\ EntryKnown /\ VacuumTracks
  BY DEF EntriesInv, IndexInv, LinksInv
<1>2. /\ UNCHANGED <<etup, ntup, meta, lock, job, ep, srch, sel, todo, vac>> /\ pc[Vac] = "barrier"
      /\ pc' = [pc EXCEPT ![Vac] = "high"] /\ CanExclusive(Vac)
  BY DEF WaitForInserts
<1>3. pc'[Vac] = "high" /\ \A q \in Procs \ {Vac} : pc'[q] = pc[q]
  BY <1>1, <1>2, ProcNames, VarTypes
<1>4. vac'.stage = "none"
  BY <1>1, <1>2 DEF VacuumTracks, RepairPc
<1>5. OnlyMoves(Vac) /\ Holding(Vac)
  BY <1>1, <1>2, <1>3, StillMoves
<1>6. LinksUsed' /\ LocksMatch' /\ Intact'
  BY <1>2, <1>3, <1>5, PhaseFrame DEF RepairPc
<1>7. InsertsClean'
  <2>1. ASSUME NEW q \in Inserters PROVE pc'[q] \notin ConnectPc
    <3>1. lock[q] = "none"
      BY <1>2, ProcNames DEF CanExclusive
    <3>2. pc[q] \in NoLockPc
      BY <1>1, <3>1 DEF LocksMatch, InserterLocks
    <3>3. QED
      BY <1>3, <3>2, ProcNames DEF NoLockPc, ConnectPc
  <2>2. QED
    BY <2>1 DEF InsertsClean
<1>8. HighClean'
  <2>1. SUFFICES ASSUME meta.tid # NoTid, meta.tid = vac.high.tid PROVE Clean(meta.tid)
    BY <1>2, <1>3, <1>4, SameGraph DEF HighClean, AtEntry
  <2>2. vac.entry = NoTid
    BY <1>1, <1>2, <2>1 DEF EntryKnown
  <2>3. PICK H \in SUBSET Slots : NewGraph(H)
    BY <1>1, <1>2, <2>2 DEF EntryKnown
  <2>4. QED
    BY <2>1, <2>3 DEF NewGraph, Clean
<1>9. RepairsHold' /\ EntryKnown' /\ JobClean' /\ EntryClean' /\ LoopClean' /\ ScansHold'
  BY <1>3, <1>4 DEF RepairsHold, EntryKnown, JobClean, EntryClean, LoopClean, InLoop, ScansHold
<1>10. QED
  BY <1>6, <1>7, <1>8, <1>9 DEF LinksInv, VacuumClean

\* A repair begins, of an element that has rows; it is done at once for the entry
\* point, which has no connection to an element without rows.
LEMMA BeginRepairLinks ==
  ASSUME EntriesInv, LinksInv, NEW e, NEW entry,
         NEW stage \in {"high", "entry", "element"}, NEW mode \in {"share", "exclusive"},
         RepairElement(e, entry, stage, mode), UNCHANGED <<etup, ntup, meta, sel, todo>>,
         PastBarrier, vac.stage = "none", Holds(e.tid),
         stage = "high" => e.tid = vac.high.tid /\ pc[Vac] = "high",
         stage = "entry" => e.tid = meta.tid /\ pc[Vac] = "entry",
         stage = "element" => pc[Vac] \in {"rlock", "rlockx"},
         e.tid = entry.tid => Clean(e.tid)
  PROVE  LinksInv'
<1>1. TypeOK /\ VacuumClean
  BY DEF EntriesInv, IndexInv, LinksInv
<1>2. /\ OnlyMoves(Vac) /\ Holding(Vac)
      /\ lock'[Vac] = mode /\ job'[Vac].tid = e.tid
      /\ pc'[Vac] \in {"search", "repaired", "rewrite"}
      /\ pc'[Vac] = "repaired" => e.tid = entry.tid
      /\ vac' = [vac EXCEPT !.stage = stage]
  BY <1>1, RepairMoves
<1>3. /\ vac'.stage = stage /\ vac'.high = vac.high /\ vac'.queue = vac.queue
      /\ vac'.blk = vac.blk /\ vac'.more = vac.more
  BY <1>1, <1>2 DEF TypeOK, VacState
<1>4. LinksUsed' /\ LocksMatch' /\ Intact' /\ InsertsClean'
  BY <1>2, PhaseFrame
<1>5. RepairsHold'
  BY <1>2, <1>3 DEF RepairsHold, Holds
<1>6. EntryKnown' /\ ScansHold'
  BY <1>2 DEF EntryKnown, ScansHold
<1>7. \A s : (Clean(s)' <=> Clean(s)) /\ (Holds(s)' <=> Holds(s))
  BY SameGraph
<1>8. JobClean'
  <2>1. pc'[Vac] \in {"connect", "update", "repaired"} => Clean(e.tid)'
    BY <1>2, <1>7
  <2>2. QED
    BY <1>2, <2>1 DEF JobClean, Clean, Links
<1>9. HighClean'
  <2>1. \A stages \in {{"high", "entry"}, {"entry"}} : AtEntry(stages)' => AtEntry(stages)
    BY <1>2, <1>3 DEF AtEntry
  <2>2. HighClean
    BY <1>1 DEF VacuumClean
  <2>3. AtEntry({"high", "entry"})' /\ meta.tid # NoTid /\ meta.tid = vac.high.tid => Clean(meta.tid)'
    BY <1>7, <2>1, <2>2 DEF HighClean
  <2>4. AtEntry({"entry"})' /\ vac.high.tid # NoTid => Clean(vac.high.tid)'
    <3>1. AtEntry({"entry"})' /\ vac.high.tid # NoTid => Clean(vac.high.tid)
      BY <2>1, <2>2 DEF HighClean
    <3>2. QED
      BY <1>3, <3>1 DEF Clean, Links, Holds
  <2>5. QED
    BY <1>3, <2>3, <2>4 DEF HighClean
<1>10. EntryClean'
  <2>1. InLoop' => InLoop
    BY <1>2, <1>3 DEF InLoop
  <2>2. InLoop' /\ meta.tid # NoTid => Clean(meta.tid)'
    BY <1>1, <1>7, <2>1 DEF VacuumClean, EntryClean
  <2>3. QED
    BY <2>2 DEF EntryClean, Clean, Links
<1>11. LoopClean'
  <2>1. \A s \in Slots : Checked(s) => Checked(s)'
    BY <1>3, <1>7 DEF Checked
  <2>2. stage = "element" => \A s \in Slots : Holds(s) => Checked(s)
    BY <1>1 DEF VacuumClean, LoopClean
  <2>3. QED
    BY <1>2, <1>3, <1>7, <2>1, <2>2 DEF LoopClean
<1>12. QED
  BY <1>4, <1>5, <1>6, <1>8, <1>9, <1>10, <1>11 DEF LinksInv, VacuumClean

\* RepairGraphEntryPoint, first half.
LEMMA HighLinks ==
  ASSUME EntriesInv, LinksInv, RepairHighestPoint PROVE LinksInv'
<1>1. TypeOK /\ VacuumTracks /\ VacuumClean /\ LinksUsed
  BY DEF EntriesInv, IndexInv, LinksInv
<1>2. /\ UNCHANGED <<etup, ntup, meta, sel, todo>> /\ pc[Vac] = "high"
      /\ \/ /\ vac.high.tid # NoTid
            /\ RepairElement(LoadFromTuple(vac.high.tid), meta, "high", "share")
         \/ /\ pc' = [pc EXCEPT ![Vac] = "entry"] /\ UNCHANGED <<vac, job, lock, ep, srch>>
            /\ vac.high.tid # NoTid => ~NeedsUpdated(vac.high.tid)
  BY DEF RepairHighestPoint
<1>3. vac.high.tid # NoTid => vac.high.tid \in Slots /\ Holds(vac.high.tid)
  <2>1. vac.high \in Entry
    BY <1>1 DEF TypeOK, VacState
  <2>2. QED
    BY <1>1, <2>1 DEF Entry, NoEntry, VacuumTracks, Remaining, Holds
<1>4. vac.stage = "none" /\ PastBarrier
  BY <1>1, <1>2 DEF VacuumTracks, RepairPc, PastBarrier
<1>5. HighClean
  BY <1>1 DEF VacuumClean
<1>6. CASE vac.high.tid # NoTid /\ RepairElement(LoadFromTuple(vac.high.tid), meta, "high", "share")
  <2>1. LoadFromTuple(vac.high.tid).tid = vac.high.tid
    BY DEF LoadFromTuple
  <2>2. vac.high.tid = meta.tid => Clean(vac.high.tid)
    BY <1>2, <1>5, <1>6 DEF HighClean, AtEntry
  <2>3. QED
    BY <1>2, <1>3, <1>4, <1>6, <2>1, <2>2, BeginRepairLinks
<1>7. CASE /\ pc' = [pc EXCEPT ![Vac] = "entry"] /\ UNCHANGED <<vac, job, lock, ep, srch>>
           /\ vac.high.tid # NoTid => ~NeedsUpdated(vac.high.tid)
  <2>1. pc'[Vac] = "entry" /\ \A q \in Procs \ {Vac} : pc'[q] = pc[q]
    BY <1>1, <1>7, ProcNames, VarTypes
  <2>2. OnlyMoves(Vac) /\ Holding(Vac)
    BY <1>1, <1>2, <1>7, <2>1, StillMoves
  <2>3. LinksUsed' /\ LocksMatch' /\ Intact' /\ InsertsClean'
    BY <1>2, <1>4, <2>1, <2>2, PhaseFrame DEF RepairPc
  <2>4. vac.high.tid # NoTid => Clean(vac.high.tid)
    BY <1>1, <1>2, <1>3, <1>7, NotUpdatedClean
  <2>5. HighClean'
    <3>1. meta.tid # NoTid /\ meta.tid = vac.high.tid => Clean(meta.tid)
      BY <2>4
    <3>2. QED
      BY <1>2, <1>7, <2>4, <3>1, SameGraph DEF HighClean
  <2>6. RepairsHold' /\ EntryKnown' /\ JobClean' /\ EntryClean' /\ LoopClean' /\ ScansHold'
    BY <1>4, <1>7, <2>1
       DEF RepairsHold, EntryKnown, JobClean, EntryClean, LoopClean, InLoop, ScansHold
  <2>7. QED
    BY <2>3, <2>5, <2>6 DEF LinksInv, VacuumClean
<1>8. QED
  BY <1>2, <1>6, <1>7

\* RepairGraphEntryPoint, second half.
LEMMA EntryLinks ==
  ASSUME EntriesInv, LinksInv, RepairEntryPoint PROVE LinksInv'
<1>1. TypeOK /\ VacuumTracks /\ VacuumClean /\ LinksUsed /\ LocksMatch /\ EntryPointValid
  BY DEF EntriesInv, IndexInv, LinksInv
<1>2. /\ UNCHANGED <<etup, ntup, sel, todo>> /\ pc[Vac] = "entry" /\ CanExclusive(Vac)
      /\ \/ /\ meta.tid # NoTid /\ meta.tid \notin vac.deleted
            /\ RepairElement(LoadFromTuple(meta.tid), vac.high, "entry", "exclusive")
            /\ UNCHANGED meta
         \/ /\ meta.tid = NoTid \/ meta.tid \in vac.deleted \/ ~NeedsUpdated(meta.tid)
            /\ meta' = IF meta.tid \in vac.deleted THEN vac.high ELSE meta
            /\ vac' = [vac EXCEPT !.blk = 1]
            /\ pc' = [pc EXCEPT ![Vac] = "load"]
            /\ UNCHANGED <<job, lock, ep, srch>>
  BY DEF RepairEntryPoint
<1>3. vac.high.tid # NoTid => vac.high.tid \in Slots /\ Holds(vac.high.tid)
  <2>1. vac.high \in Entry
    BY <1>1 DEF TypeOK, VacState
  <2>2. QED
    BY <1>1, <2>1 DEF Entry, NoEntry, VacuumTracks, Remaining, Holds
<1>4. vac.stage = "none" /\ PastBarrier
  BY <1>1, <1>2 DEF VacuumTracks, RepairPc, PastBarrier
<1>5. HighClean
  BY <1>1 DEF VacuumClean
<1>6. meta.tid # NoTid => meta.tid \in Slots /\ etup[meta.tid].used
  BY <1>1 DEF TypeOK, Entry, NoEntry, EntryPointValid
<1>7. CASE /\ meta.tid # NoTid /\ meta.tid \notin vac.deleted
           /\ RepairElement(LoadFromTuple(meta.tid), vac.high, "entry", "exclusive")
           /\ UNCHANGED meta
  <2>1. LoadFromTuple(meta.tid).tid = meta.tid
    BY DEF LoadFromTuple
  <2>2. meta.tid = vac.high.tid => Clean(meta.tid)
    BY <1>2, <1>5, <1>7 DEF HighClean, AtEntry
  <2>3. Holds(meta.tid)
    BY <1>2, <1>6, <1>7, KeptHolds
  <2>4. QED
    BY <1>2, <1>4, <1>7, <2>1, <2>2, <2>3, BeginRepairLinks
<1>8. CASE /\ meta.tid = NoTid \/ meta.tid \in vac.deleted \/ ~NeedsUpdated(meta.tid)
           /\ meta' = IF meta.tid \in vac.deleted THEN vac.high ELSE meta
           /\ vac' = [vac EXCEPT !.blk = 1]
           /\ pc' = [pc EXCEPT ![Vac] = "load"]
           /\ UNCHANGED <<job, lock, ep, srch>>
  <2>1. pc'[Vac] = "load" /\ \A q \in Procs \ {Vac} : pc'[q] = pc[q]
    BY <1>1, <1>8, ProcNames, VarTypes
  <2>2. vac'.stage = "none" /\ vac'.blk = 1
    BY <1>1, <1>4, <1>8 DEF TypeOK, VacState
  <2>3. OnlyMoves(Vac) /\ Holding(Vac)
    BY <1>1, <1>2, <1>8, <2>1, StillMoves
  <2>4. \A q \in Inserters : ep[q].tid = NoTid
    BY <1>1, <1>2, ProcNames DEF CanExclusive, LocksMatch, InserterLocks
  <2>5. meta'.tid = meta.tid \/ (meta'.tid # NoTid => meta'.tid \in Slots /\ Holds(meta'.tid))
    BY <1>3, <1>8
  <2>6. LinksUsed' /\ LocksMatch' /\ Intact' /\ InsertsClean'
    BY <1>2, <1>4, <2>1, <2>3, <2>4, <2>5, PhaseFrame DEF RepairPc
  <2>7. EntryClean'
    <3>1. SUFFICES ASSUME meta'.tid # NoTid PROVE Clean(meta.tid)'
      BY DEF EntryClean
    <3>2. CASE meta.tid \in vac.deleted
      <4>1. meta' = vac.high /\ Clean(vac.high.tid)
        BY <1>2, <1>5, <1>8, <3>1, <3>2 DEF HighClean, AtEntry
      <4>2. QED
        BY <1>2, <4>1 DEF Clean, Links, Holds
    <3>3. CASE meta.tid \notin vac.deleted
      <4>1. meta' = meta
        BY <1>8, <3>3
      <4>2. Clean(meta.tid)
        BY <1>1, <1>2, <1>6, <1>8, <3>1, <3>3, <4>1, NotUpdatedClean
      <4>3. QED
        BY <1>2, <4>1, <4>2 DEF Clean, Links, Holds
    <3>4. QED
      BY <3>2, <3>3
  <2>8. LoopClean'
    <3>1. \A s \in Slots : PageOf[s] >= vac'.blk
      BY <2>2, SlotsAssumption
    <3>2. QED
      BY <2>1, <2>2, <3>1 DEF LoopClean
  <2>9. RepairsHold' /\ EntryKnown' /\ JobClean' /\ HighClean' /\ ScansHold'
    BY <2>1, <2>2 DEF RepairsHold, EntryKnown, JobClean, HighClean, AtEntry, ScansHold
  <2>10. QED
    BY <2>6, <2>7, <2>8, <2>9 DEF LinksInv, VacuumClean
<1>9. QED
  BY <1>2, <1>7, <1>8

\* A step of RepairGraph's loop between repairs: what it does to the queue is left
\* to show.
LEMMA LoopStepLinks ==
  ASSUME EntriesInv, LinksInv, UNCHANGED <<etup, ntup, meta, lock, job, ep, srch, sel, todo>>,
         pc[Vac] \in {"load", "check", "rlock", "scans"}, NEW next \in VacuumPc,
         pc' = [pc EXCEPT ![Vac] = next], next \in {"load", "check", "rlock", "rlockx", "scans", "mark"},
         vac'.stage = vac.stage,
         LoopClean', ScansHold'
  PROVE  LinksInv'
<1>1. TypeOK /\ VacuumClean /\ VacuumTracks
  BY DEF EntriesInv, IndexInv, LinksInv
<1>2. pc'[Vac] = next /\ \A q \in Procs \ {Vac} : pc'[q] = pc[q]
  BY <1>1, ProcNames, VarTypes
<1>3. vac.stage = "none" /\ PastBarrier
  BY <1>1 DEF VacuumTracks, RepairPc, PastBarrier
<1>4. OnlyMoves(Vac) /\ Holding(Vac)
  BY <1>1, <1>2, StillMoves
<1>5. LinksUsed' /\ LocksMatch' /\ Intact' /\ InsertsClean'
  BY <1>2, <1>3, <1>4, PhaseFrame DEF RepairPc
<1>6. EntryClean'
  BY <1>1, SameGraph DEF VacuumClean, EntryClean, InLoop
<1>7. RepairsHold' /\ EntryKnown' /\ JobClean' /\ HighClean'
  BY <1>2, <1>3 DEF RepairsHold, EntryKnown, JobClean, HighClean, AtEntry
<1>8. QED
  BY <1>5, <1>6, <1>7 DEF LinksInv, VacuumClean

\* LoadPage puts the elements of the page that have rows on the queue.
LEMMA LoadPageLinks ==
  ASSUME EntriesInv, LinksInv, LoadPage PROVE LinksInv'
<1>1. TypeOK /\ VacuumClean /\ vac \in VacState
  BY DEF EntriesInv, IndexInv, LinksInv, TypeOK
<1>2. /\ UNCHANGED <<etup, ntup, meta, lock, job, ep, srch, sel, todo>> /\ pc[Vac] = "load"
      /\ pc' = [pc EXCEPT ![Vac] = "check"]
      /\ vac' = [vac EXCEPT
           !.queue = {LoadFromTuple(s) : s \in {o \in Slots : OnPage(o) /\ Alive(o)}},
           !.more = HasNextBlock(vac.blk), !.blk = @ + 1]
  BY DEF LoadPage
<1>3. /\ vac'.queue = {LoadFromTuple(s) : s \in {o \in Slots : OnPage(o) /\ Alive(o)}}
      /\ vac'.more = HasNextBlock(vac.blk) /\ vac'.blk = vac.blk + 1 /\ vac'.stage = vac.stage
  BY <1>1, <1>2 DEF VacState
<1>4. pc'[Vac] = "check" /\ vac'.stage = "none"
  BY <1>1, <1>2, <1>3, ProcNames, VarTypes DEF EntriesInv, IndexInv, VacuumTracks, RepairPc
<1>5. ASSUME NEW s \in Slots, Holds(s) PROVE Checked(s)'
  <2>1. Clean(s) \/ PageOf[s] >= vac.blk
    BY <1>1, <1>2, <1>5 DEF VacuumClean, LoopClean
  <2>2. etup[s].used /\ PageOf[s] \in Nat /\ vac.blk \in Nat
    BY <1>1, <1>5, HoldsPlaced, SlotsAssumption DEF Placed, VacState
  <2>3. CASE Clean(s)
    BY <1>2, <2>3, SameGraph DEF Checked
  <2>4. CASE PageOf[s] = vac.blk
    <3>1. LoadFromTuple(s) \in vac'.queue
      BY <1>3, <1>5, <2>2, <2>4 DEF OnPage, Alive, Holds
    <3>2. LoadFromTuple(s).tid = s
      BY DEF LoadFromTuple
    <3>3. QED
      BY <3>1, <3>2 DEF Checked
  <2>5. CASE PageOf[s] > vac.blk
    <3>1. HasNextBlock(vac.blk)
      BY <2>2, <2>5 DEF HasNextBlock
    <3>2. PageOf[s] >= vac'.blk /\ vac'.more
      BY <1>3, <2>2, <2>5, <3>1
    <3>3. QED
      BY <3>2 DEF Checked
  <2>6. QED
    BY <2>1, <2>2, <2>3, <2>4, <2>5
<1>6. LoopClean'
  BY <1>2, <1>4, <1>5, SameGraph DEF LoopClean
<1>7. ScansHold'
  BY <1>4 DEF ScansHold
<1>8. QED
  BY <1>2, <1>3, <1>6, <1>7, LoopStepLinks DEF VacuumPc

\* CheckElement lets an element go only if it is clean.
LEMMA CheckElementLinks ==
  ASSUME EntriesInv, LinksInv, CheckElement PROVE LinksInv'
<1>1. TypeOK /\ VacuumClean /\ LinksUsed /\ vac \in VacState
  BY DEF EntriesInv, IndexInv, LinksInv, TypeOK
<1>2. /\ UNCHANGED <<etup, ntup, meta, lock, job, ep, srch, sel, todo>> /\ pc[Vac] = "check"
  BY DEF CheckElement
<1>3. PICK e \in vac.queue :
        IF NeedsUpdated(e.tid)
          THEN pc' = [pc EXCEPT ![Vac] = "rlock"] /\ UNCHANGED vac
          ELSE vac' = [vac EXCEPT !.queue = @ \ {e}] /\ UNCHANGED pc
  BY DEF CheckElement
<1>4. e.tid \in Slots
  BY <1>1 DEF VacState, Element
<1>5. \A s \in Slots : Holds(s) => Checked(s)
  BY <1>1, <1>2 DEF VacuumClean, LoopClean
<1>6. vac.stage = "none"
  BY <1>2 DEF EntriesInv, IndexInv, VacuumTracks, RepairPc
<1>7. CASE pc' = [pc EXCEPT ![Vac] = "rlock"] /\ UNCHANGED vac
  <2>1. pc'[Vac] = "rlock"
    BY <1>1, <1>7, ProcNames, VarTypes
  <2>2. \A s \in Slots : Holds(s)' => Checked(s)'
    BY <1>2, <1>5, <1>7, SameGraph DEF Checked
  <2>3. LoopClean' /\ ScansHold'
    BY <1>6, <1>7, <2>1, <2>2 DEF LoopClean, ScansHold
  <2>4. QED
    BY <1>2, <1>7, <2>3, LoopStepLinks DEF VacuumPc
<1>8. CASE ~NeedsUpdated(e.tid) /\ vac' = [vac EXCEPT !.queue = @ \ {e}] /\ UNCHANGED pc
  <2>1. /\ vac'.queue = vac.queue \ {e} /\ vac'.stage = vac.stage
        /\ vac'.more = vac.more /\ vac'.blk = vac.blk
    BY <1>1, <1>8 DEF VacState
  <2>2. Clean(e.tid)
    BY <1>1, <1>2, <1>4, <1>8, NotUpdatedClean
  <2>3. ASSUME NEW s \in Slots, Checked(s) PROVE Checked(s)'
    <3>1. CASE Clean(s)
      BY <1>2, <3>1, SameGraph DEF Checked
    <3>2. CASE \E o \in vac.queue : o.tid = s
      <4>1. PICK o \in vac.queue : o.tid = s
        BY <3>2
      <4>2. CASE o = e
        BY <1>2, <2>2, <4>1, <4>2, SameGraph DEF Checked
      <4>3. CASE o # e
        BY <2>1, <4>1, <4>3 DEF Checked
      <4>4. QED
        BY <4>2, <4>3
    <3>3. CASE PageOf[s] >= vac.blk /\ vac.more
      BY <2>1, <3>3 DEF Checked
    <3>4. QED
      BY <2>3, <3>1, <3>2, <3>3 DEF Checked
  <2>4. LoopClean' /\ ScansHold'
    BY <1>2, <1>5, <1>6, <1>8, <2>1, <2>3, SameGraph DEF LoopClean, ScansHold
  <2>5. pc' = [pc EXCEPT ![Vac] = "check"]
    BY <1>1, <1>2, <1>8, ProcNames, VarTypes
  <2>6. QED
    BY <1>2, <2>1, <2>4, <2>5, LoopStepLinks DEF VacuumPc
<1>9. QED
  BY <1>3, <1>7, <1>8

\* After the last page no element with rows is left unchecked.
LEMMA PageRepairedLinks ==
  ASSUME EntriesInv, LinksInv, PageRepaired PROVE LinksInv'
<1>1. TypeOK /\ VacuumClean
  BY DEF EntriesInv, IndexInv, LinksInv
<1>2. /\ UNCHANGED <<etup, ntup, meta, lock, job, ep, srch, sel, todo, vac>> /\ pc[Vac] = "check"
      /\ pc' = [pc EXCEPT ![Vac] = IF vac.more THEN "load" ELSE "scans"] /\ vac.queue = {}
  BY DEF PageRepaired
<1>3. PICK next \in {"load", "scans"} : next = IF vac.more THEN "load" ELSE "scans"
  OBVIOUS
<1>4. pc'[Vac] = next /\ pc' = [pc EXCEPT ![Vac] = next]
  BY <1>1, <1>2, <1>3, ProcNames, VarTypes
<1>5. vac.stage = "none"
  BY <1>2 DEF EntriesInv, IndexInv, VacuumTracks, RepairPc
<1>6. \A s \in Slots : Holds(s) => Clean(s) \/ (PageOf[s] >= vac.blk /\ vac.more)
  BY <1>1, <1>2 DEF VacuumClean, LoopClean, Checked
<1>7. LoopClean' /\ ScansHold'
  BY <1>2, <1>3, <1>4, <1>5, <1>6, SameGraph DEF LoopClean, ScansHold
<1>8. QED
  BY <1>2, <1>4, <1>7, LoopStepLinks DEF VacuumPc

\* The loop's repair begins with an element that has rows.
LEMMA RepairLockLinks ==
  ASSUME EntriesInv, LinksInv, RepairLock \/ RepairLockExclusive PROVE LinksInv'
<1>1. TypeOK /\ VacuumClean /\ VacuumTracks /\ vac \in VacState
  BY DEF EntriesInv, IndexInv, LinksInv, TypeOK
<1>2. UNCHANGED <<etup, ntup, meta, sel, todo>> /\ pc[Vac] \in {"rlock", "rlockx"}
  BY DEF RepairLock, RepairLockExclusive
<1>3. \/ /\ pc[Vac] = "rlock" /\ pc' = [pc EXCEPT ![Vac] = "rlockx"]
         /\ UNCHANGED <<vac, job, lock, ep, srch>>
      \/ \E e \in vac.queue, mode \in {"share", "exclusive"} : RepairElement(e, meta, "element", mode)
  BY Zenon DEF RepairLock, RepairLockExclusive
<1>4. vac.stage = "none" /\ PastBarrier
  BY <1>1, <1>2 DEF VacuumTracks, RepairPc, PastBarrier
<1>5. CASE /\ pc[Vac] = "rlock" /\ pc' = [pc EXCEPT ![Vac] = "rlockx"]
           /\ UNCHANGED <<vac, job, lock, ep, srch>>
  <2>1. pc'[Vac] = "rlockx"
    BY <1>1, <1>5, ProcNames, VarTypes
  <2>2. \A s \in Slots : Holds(s) => Checked(s)
    BY <1>1, <1>5 DEF VacuumClean, LoopClean
  <2>3. \A s \in Slots : Holds(s)' => Checked(s)'
    BY <1>2, <1>5, <2>2, SameGraph DEF Checked
  <2>4. LoopClean' /\ ScansHold'
    BY <1>4, <1>5, <2>1, <2>3 DEF LoopClean, ScansHold
  <2>5. QED
    BY <1>2, <1>5, <2>4, LoopStepLinks DEF VacuumPc
<1>6. CASE \E e \in vac.queue, mode \in {"share", "exclusive"} :
             RepairElement(e, meta, "element", mode)
  <2>1. PICK e \in vac.queue, mode \in {"share", "exclusive"} :
          RepairElement(e, meta, "element", mode)
    BY <1>6
  <2>2. e.tid \in Slots /\ Holds(e.tid)
    BY <1>1 DEF VacState, Element, VacuumTracks, Holds
  <2>3. e.tid = meta.tid => Clean(e.tid)
    BY <1>1, <1>2, <2>2, SlotsAssumption DEF VacuumClean, EntryClean, InLoop, NoTid
  <2>4. QED
    BY <1>2, <1>4, <2>1, <2>2, <2>3, BeginRepairLinks
<1>7. QED
  BY <1>3, <1>5, <1>6

\* The repair is over: the element has no connection to one without rows.
LEMMA RepairDoneLinks ==
  ASSUME EntriesInv, EntriesInv', LinksInv, RepairDone PROVE LinksInv'
<1>1. /\ TypeOK /\ VacuumClean /\ VacuumTracks /\ RepairsHold /\ LocksMatch /\ vac \in VacState
  BY DEF EntriesInv, IndexInv, LinksInv, TypeOK
<1>2. /\ UNCHANGED <<etup, ntup>> /\ Release(Vac) /\ pc[Vac] \in {"repaired", "connect"}
      /\ meta' = IF vac.stage = "element" /\ job[Vac].level > ep[Vac].level
                   THEN EntryIfGreater([tid |-> job[Vac].tid, level |-> job[Vac].level])
                   ELSE meta
      /\ vac' = [vac EXCEPT !.stage = "none",
                            !.blk = IF vac.stage = "entry" THEN 1 ELSE @,
                            !.queue = {e \in @ : e.tid # job[Vac].tid}]
      /\ pc' = [pc EXCEPT ![Vac] = CASE vac.stage = "high" -> "entry"
                                     [] vac.stage = "entry" -> "load"
                                     [] OTHER -> "check"]
  BY DEF RepairDone
<1>3. PICK next \in {"entry", "load", "check"} :
        /\ vac.stage = "high" => next = "entry"
        /\ vac.stage = "entry" => next = "load"
        /\ vac.stage = "element" => next = "check"
        /\ pc' = [pc EXCEPT ![Vac] = next]
  BY <1>2
<1>4. pc'[Vac] = next /\ \A q \in Procs \ {Vac} : pc'[q] = pc[q]
  BY <1>1, <1>3, ProcNames, VarTypes
<1>5. /\ vac'.stage = "none" /\ vac'.high = vac.high /\ vac'.more = vac.more
      /\ vac'.blk = IF vac.stage = "entry" THEN 1 ELSE vac.blk
      /\ vac'.queue = {e \in vac.queue : e.tid # job[Vac].tid}
  BY <1>1, <1>2 DEF VacState
<1>6. /\ vac.stage \in {"high", "entry", "element"} /\ PastBarrier
      /\ job[Vac].tid \in Slots /\ Holds(job[Vac].tid)
      /\ vac.stage = "high" => job[Vac].tid = vac.high.tid
      /\ vac.stage = "entry" => job[Vac].tid = meta.tid
  BY <1>1, <1>2 DEF VacuumTracks, RepairPc, PastBarrier, VacState, TypeOK, JobsNamed, RepairsHold
<1>7. Clean(job[Vac].tid)
  BY <1>1, <1>2 DEF VacuumClean, JobClean
<1>8. meta' = meta \/ (vac.stage = "element" /\ meta'.tid = job[Vac].tid)
  BY <1>2 DEF EntryIfGreater
<1>9. OnlyMoves(Vac) /\ Holding(Vac)
  BY <1>1, <1>2, <1>4, ReleaseMoves
<1>10. LinksUsed' /\ LocksMatch' /\ Intact' /\ InsertsClean'
  <2>1. meta'.tid = meta.tid \/
          /\ \A q \in Inserters : ep[q].tid # NoTid => meta'.tid # NoTid
          /\ meta'.tid # NoTid => meta'.tid \in Slots /\ Holds(meta'.tid)
    BY <1>6, <1>8, SlotsAssumption DEF NoTid
  <2>2. QED
    BY <1>2, <1>4, <1>6, <1>9, <2>1, PhaseFrame DEF RepairPc
<1>11. \A s : (Clean(s)' <=> Clean(s)) /\ (Holds(s)' <=> Holds(s))
  BY <1>2, SameGraph
<1>12. HighClean'
  <2>1. CASE vac.stage = "high"
    <3>1. meta' = meta
      BY <1>8, <2>1
    <3>2. Clean(vac.high.tid)
      BY <1>6, <1>7, <2>1
    <3>3. Clean(vac.high.tid)'
      BY <1>2, <1>5, <3>2 DEF Clean, Links, Holds
    <3>4. QED
      BY <1>5, <3>1, <3>3 DEF HighClean
  <2>2. CASE vac.stage # "high"
    <3>1. next \in {"load", "check"}
      BY <1>3, <1>6, <2>2
    <3>2. QED
      BY <1>4, <1>5, <3>1 DEF HighClean, AtEntry
  <2>3. QED
    BY <2>1, <2>2
<1>13. EntryClean'
  <2>1. SUFFICES ASSUME InLoop', meta'.tid # NoTid PROVE Clean(meta.tid)'
    BY DEF EntryClean
  <2>2. vac.stage \in {"entry", "element"}
    BY <1>3, <1>4, <1>5, <1>6, <2>1 DEF InLoop
  <2>3. \E s : meta'.tid = s /\ Clean(s)
    <3>1. CASE meta'.tid = job[Vac].tid
      BY <1>7, <3>1
    <3>2. CASE meta' = meta /\ vac.stage = "element"
      BY <1>1, <2>1, <3>2 DEF VacuumClean, EntryClean, InLoop
    <3>3. QED
      BY <1>6, <1>8, <2>2, <3>1, <3>2
  <2>4. QED
    BY <1>2, <2>3 DEF Clean, Links, Holds
<1>14. LoopClean'
  <2>1. ASSUME vac.stage = "element", NEW s \in Slots, Holds(s) PROVE Checked(s)'
    <3>1. Checked(s)
      BY <1>1, <2>1 DEF VacuumClean, LoopClean
    <3>2. CASE s = job[Vac].tid
      BY <1>7, <1>11, <3>2 DEF Checked
    <3>3. CASE s # job[Vac].tid
      BY <1>5, <1>11, <2>1, <3>1, <3>3 DEF Checked
    <3>4. QED
      BY <3>2, <3>3
  <2>2. vac.stage = "entry" => \A s \in Slots : PageOf[s] >= vac'.blk
    BY <1>5, SlotsAssumption
  <2>3. QED
    BY <1>3, <1>4, <1>5, <1>6, <1>11, <2>1, <2>2 DEF LoopClean
<1>15. RepairsHold' /\ EntryKnown' /\ JobClean' /\ ScansHold'
  BY <1>4, <1>5 DEF RepairsHold, EntryKnown, JobClean, ScansHold
<1>16. QED
  BY <1>10, <1>12, <1>13, <1>14, <1>15 DEF LinksInv, VacuumClean

\* MarkDeleted waits until no scan is at work.
LEMMA WaitForScansLinks ==
  ASSUME EntriesInv, LinksInv, WaitForScans PROVE LinksInv'
<1>1. TypeOK /\ VacuumClean /\ LocksMatch /\ vac \in VacState
  BY DEF EntriesInv, IndexInv, LinksInv, TypeOK
<1>2. /\ UNCHANGED <<etup, ntup, meta, lock, job, ep, srch, sel, todo>> /\ pc[Vac] = "scans"
      /\ pc' = [pc EXCEPT ![Vac] = "mark"] /\ vac' = [vac EXCEPT !.blk = 1]
      /\ \A p \in Scanners : lock[p] = "none"
  BY DEF WaitForScans
<1>3. pc'[Vac] = "mark" /\ vac'.stage = vac.stage /\ vac.stage = "none"
  BY <1>1, <1>2, ProcNames, VarTypes DEF VacState, EntriesInv, IndexInv, VacuumTracks, RepairPc
<1>4. \A s \in Slots : Holds(s) => Clean(s)
  BY <1>1, <1>2 DEF VacuumClean, LoopClean
<1>5. LoopClean'
  BY <1>2, <1>3, <1>4, SameGraph DEF LoopClean
<1>6. ScansHold'
  BY <1>1, <1>2 DEF LocksMatch, ScannerLocks, ScansHold, ScanHolds
<1>7. QED
  BY <1>2, <1>3, <1>5, <1>6, LoopStepLinks DEF VacuumPc

\* What MarkDeleted reclaims has no rows, and nobody leads to it.
LEMMA MarkLinks ==
  ASSUME EntriesInv, LinksInv, MarkDeleted PROVE LinksInv'
<1>1. /\ TypeOK /\ VacuumClean /\ LocksMatch /\ LinksUsed /\ vac \in VacState
      /\ VacuumTracks /\ ScansHold
  BY DEF EntriesInv, IndexInv, LinksInv, TypeOK
<1>2. /\ UNCHANGED <<meta, lock, job, ep, srch, sel, todo>> /\ pc[Vac] = "mark"
      /\ etup' = [s \in Slots |-> IF ToDelete(s)
           THEN [etup[s] EXCEPT !.deleted = TRUE, !.value = Cleared,
                                !.version = NextVersion(etup[s].version)]
           ELSE etup[s]]
      /\ ntup' = [s \in Slots |-> IF ToDelete(s)
           THEN [ntup[s] EXCEPT !.tids = EmptyLists, !.version = NextVersion(etup[s].version)]
           ELSE ntup[s]]
      /\ vac' = [vac EXCEPT !.blk = @ + 1]
      /\ pc' = [pc EXCEPT ![Vac] = IF HasNextBlock(vac.blk) THEN "mark" ELSE "done"]
  BY DEF MarkDeleted
<1>3. pc'[Vac] \in {"mark", "done"} /\ \A q \in Procs \ {Vac} : pc'[q] = pc[q]
  BY <1>1, <1>2, ProcNames, VarTypes
<1>4. vac'.stage = "none" /\ vac.stage = "none" /\ PastBarrier /\ PastBarrier'
  BY <1>1, <1>2, <1>3 DEF VacState, VacuumTracks, RepairPc, PastBarrier
<1>5. ASSUME NEW s \in Slots
      PROVE  /\ etup'[s].used = etup[s].used /\ etup'[s].heaptids = etup[s].heaptids
             /\ Holds(s) => etup'[s].deleted = etup[s].deleted
             /\ Links(s)' \subseteq Links(s)
  <2>1. CASE ToDelete(s)
    <3>1. /\ etup'[s] = [etup[s] EXCEPT !.deleted = TRUE, !.value = Cleared,
                                        !.version = NextVersion(etup[s].version)]
          /\ ntup'[s] = [ntup[s] EXCEPT !.tids = EmptyLists,
                                        !.version = NextVersion(etup[s].version)]
      BY <1>2, <2>1
    <3>2. etup[s] \in ElementTuple /\ ntup[s] \in NeighborTuple
      BY <1>1, VarTypes
    <3>3. etup'[s].used = etup[s].used /\ etup'[s].heaptids = etup[s].heaptids
      BY <3>1, <3>2 DEF ElementTuple
    <3>4. ntup'[s].tids = EmptyLists
      BY <3>1, <3>2 DEF NeighborTuple
    <3>5. Links(s)' = {}
      BY <3>4 DEF Links, EmptyLists, Levels
    <3>6. QED
      BY <2>1, <3>3, <3>5 DEF ToDelete, Holds
  <2>2. CASE ~ToDelete(s)
    BY <1>2, <2>2 DEF Links
  <2>3. QED
    BY <2>1, <2>2
<1>6. \A s \in Slots : Holds(s)' <=> Holds(s)
  BY <1>5 DEF Holds
<1>7. \A s \in Slots : Holds(s) => Clean(s)
  BY <1>1, <1>2 DEF VacuumClean, LoopClean
<1>8. ASSUME NEW s \in Slots, Clean(s) PROVE Clean(s)'
  <2>1. \A t \in Links(s) : t \in Slots /\ Holds(t)
    BY <1>1, <1>8, LinksType DEF Clean
  <2>2. QED
    BY <1>5, <1>6, <2>1 DEF Clean
<1>9. CleanStays
  BY <1>6, <1>8 DEF CleanStays
<1>10. LinksUsed'
  <2>1. \A s \in Slots : \A t \in Links(s) : t \in Slots /\ etup[t].used
    BY <1>1, LinksType DEF LinksUsed
  <2>2. QED
    BY <1>5, <2>1 DEF LinksUsed
<1>11. LocksMatch'
  <2>1. ASSUME NEW q \in Inserters PROVE InserterLocks(q)'
    <3>1. pc'[q] = pc[q]
      BY <1>3, ProcNames
    <3>2. ep[q].tid # NoTid => meta'.tid # NoTid
      BY <1>1, <1>2 DEF LocksMatch, InserterLocks
    <3>3. ASSUME pc[q] \in ConnectPc, Untouched(q) PROVE Untouched(q)'
      <4>1. PICK s \in Slots : s = job[q].tid
        BY <1>1, <3>3 DEF TypeOK, JobsNamed, ConnectPc
      <4>2. Links(s) = {} /\ etup[s].heaptids = {job[q].heaptid}
        BY <3>3, <4>1 DEF Untouched
      <4>3. Links(s)' = {} /\ etup'[s].heaptids = {job[q].heaptid}
        BY <1>5, <4>2
      <4>4. job'[q] = job[q]
        BY <1>2
      <4>5. QED
        BY <4>1, <4>3, <4>4 DEF Untouched, Links
    <3>4. QED
      BY <1>1, <1>2, <3>1, <3>2, <3>3, LocksFrame
  <2>2. \A q \in Scanners : ScannerLocks(q)'
    BY <1>1, <1>2 DEF LocksMatch, ScannerLocks
  <2>3. QED
    BY <1>3, <2>1, <2>2 DEF LocksMatch, RepairPc
<1>12. Intact'
  <2>1. PICK G \in SUBSET Slots : G = {s \in Slots : Holds(s)}
    OBVIOUS
  <2>2. ASSUME NEW s \in G PROVE Placed(s)' /\ Links(s)' \subseteq G
    <3>1. s \in Slots /\ Holds(s) /\ Placed(s) /\ Clean(s)
      BY <1>7, <2>1, HoldsPlaced
    <3>2. Links(s) \subseteq G
      BY <1>1, <2>1, <3>1, LinksType DEF Clean
    <3>3. QED
      BY <1>5, <3>1, <3>2 DEF Placed
  <2>3. Closed(G)'
    BY <2>2 DEF Closed
  <2>4. \A s \in Slots : Holds(s)' => s \in G
    BY <1>6, <2>1
  <2>5. meta'.tid # NoTid => meta'.tid \in G
    <3>1. meta.tid # NoTid => meta.tid \in Slots
      BY <1>1 DEF TypeOK, Entry, NoEntry
    <3>2. meta.tid # NoTid => Holds(meta.tid)
      BY <1>2 DEF EntriesInv, IndexInv, EntryHeld, Holds
    <3>3. QED
      BY <1>2, <2>1, <3>1, <3>2
  <2>6. ASSUME NEW q \in Scanners PROVE ScanIn(q, G)'
    <3>1. ScanHolds(q)
      BY <1>1, <1>2 DEF ScansHold
    <3>2. srch[q].pend \subseteq Slots /\ \A h \in srch[q].hnd : h.tid \in Slots
      BY <1>1, ProcNames, VarTypes DEF SearchState, Element
    <3>3. QED
      BY <1>2, <2>1, <3>1, <3>2 DEF ScanHolds, ScanIn
  <2>7. ASSUME NEW q \in Writers, NEW h \in Held(q)' PROVE h.tid \in G
    <3>1. h \in Held(q)
      BY <1>2, <2>7, HeldSame
    <3>2. h.tid \in Slots
      BY <1>1, <3>1, HeldType DEF Element
    <3>3. Holds(h.tid)
      BY <1>4, <3>1 DEF EntriesInv, TargetsHeld, Holds
    <3>4. QED
      BY <2>1, <3>2, <3>3
  <2>8. Region(G)'
    BY <2>3, <2>4, <2>5, <2>6, <2>7 DEF Region
  <2>9. QED
    BY <2>8 DEF Intact
<1>13. InsertsClean'
  <2>1. SUFFICES ASSUME NEW q \in Inserters, pc'[q] \in ConnectPc PROVE Clean(job[q].tid)'
    BY DEF InsertsClean
  <2>2. pc[q] \in ConnectPc
    BY <1>3, <2>1, ProcNames
  <2>3. PICK s \in Slots : s = job[q].tid
    BY <1>1, <2>2 DEF TypeOK, JobsNamed, ConnectPc
  <2>4. Clean(s)'
    BY <1>1, <1>4, <1>8, <2>2, <2>3 DEF VacuumClean, InsertsClean
  <2>5. QED
    BY <1>2, <2>3, <2>4 DEF Clean, Links
<1>14. EntryClean'
  <2>1. SUFFICES ASSUME meta.tid # NoTid PROVE Clean(meta.tid)'
    BY <1>2 DEF EntryClean
  <2>2. PICK s \in Slots : s = meta.tid
    BY <1>1, <2>1 DEF TypeOK, Entry, NoEntry
  <2>3. Clean(s)'
    BY <1>1, <1>2, <1>8, <2>1, <2>2 DEF VacuumClean, EntryClean, InLoop
  <2>4. QED
    BY <1>2, <2>2, <2>3 DEF Clean, Links
<1>15. LoopClean'
  BY <1>3, <1>4, <1>6, <1>7, <1>8 DEF LoopClean
<1>16. ScansHold'
  <2>1. SUFFICES ASSUME NEW q \in Scanners PROVE ScanHolds(q)'
    BY DEF ScansHold
  <2>2. ScanHolds(q)
    BY <1>1, <1>2 DEF ScansHold
  <2>3. srch[q].pend \subseteq Slots /\ \A h \in srch[q].hnd : h.tid \in Slots
    BY <1>1, ProcNames, VarTypes DEF SearchState, Element
  <2>4. QED
    BY <1>2, <1>6, <2>2, <2>3 DEF ScanHolds, Holds
<1>17. RepairsHold' /\ EntryKnown' /\ JobClean' /\ HighClean'
  BY <1>3, <1>4 DEF RepairsHold, EntryKnown, JobClean, HighClean, AtEntry
<1>18. QED
  BY <1>10, <1>11, <1>12, <1>13, <1>14, <1>15, <1>16, <1>17 DEF LinksInv, VacuumClean

\* The end of VACUUM, or its failure, takes its claims back.
LEMMA EndLinks ==
  ASSUME EntriesInv, LinksInv, VacuumFinish \/ VacuumAbort PROVE LinksInv'
<1>1. TypeOK
  BY DEF EntriesInv, IndexInv
<1>2. /\ UNCHANGED <<etup, ntup, meta>> /\ vac' = VacIdle /\ pc' = [pc EXCEPT ![Vac] = "idle"]
      /\ UNCHANGED <<lock, job, ep, srch, sel, todo>> \/ Release(Vac)
  BY DEF VacuumFinish, VacuumAbort
<1>3. pc'[Vac] = "idle" /\ \A q \in Procs \ {Vac} : pc'[q] = pc[q]
  BY <1>1, <1>2, ProcNames, VarTypes
<1>4. OnlyMoves(Vac) /\ Holding(Vac)
  BY <1>1, <1>2, <1>3, StillMoves, ReleaseMoves
<1>5. LinksUsed' /\ LocksMatch' /\ Intact'
  BY <1>2, <1>3, <1>4, PhaseFrame DEF RepairPc
<1>6. vac'.stage = "none"
  BY <1>2 DEF VacIdle
<1>7. RepairsHold' /\ EntryKnown' /\ VacuumClean' /\ ScansHold'
  BY <1>3, <1>6 DEF RepairsHold, EntryKnown, VacuumClean, InsertsClean, JobClean, HighClean,
                    EntryClean, LoopClean, AtEntry, InLoop, ScansHold, PastBarrier
<1>8. QED
  BY <1>5, <1>7 DEF LinksInv
-----------------------------------------------------------------------------
\* Deleting a row in the heap does not touch the index.
LEMMA OtherLinks ==
  ASSUME EntriesInv, LinksInv, (\E t \in HeapTids : DeleteRow(t)) \/ UNCHANGED vars
  PROVE  LinksInv'
<1>1. UNCHANGED <<etup, ntup, meta, lock, pc, job, ep, srch, sel, todo, vac>>
  BY DEF DeleteRow, vars
<1>2. LinksUsed' /\ LocksMatch' /\ RepairsHold'
  <2>1. LinksUsed' /\ RepairsHold'
    BY <1>1, SameGraph DEF LinksInv, RepairsHold, Holds
  <2>2. \A q \in Inserters : Untouched(q)' <=> Untouched(q)
    BY <1>1 DEF Untouched, Links
  <2>3. \A q \in Inserters : InserterLocks(q)' <=> InserterLocks(q)
    BY <1>1, <2>2 DEF InserterLocks
  <2>4. \A q \in Scanners : ScannerLocks(q)' <=> ScannerLocks(q)
    BY <1>1 DEF ScannerLocks
  <2>5. QED
    BY <1>1, <2>1, <2>3, <2>4 DEF LinksInv, LocksMatch
<1>3. Intact'
  BY <1>1 DEF LinksInv, Intact, Region, Closed, Placed, Links, Holds, ScanIn, Held
<1>4. EntryKnown'
  BY <1>1 DEF LinksInv, EntryKnown, NewGraph, InsertIn, ScanIn, Links, Holds
<1>5. VacuumClean' /\ ScansHold'
  <2>1. CleanStays
    BY <1>1, SameGraph
  <2>2. InsertsClean' /\ HighClean' /\ EntryClean' /\ LoopClean'
    BY <1>1, <2>1, CleanParts
  <2>3. JobClean'
    BY <1>1 DEF LinksInv, VacuumClean, JobClean, Clean, Links, Holds
  <2>4. ScansHold'
    BY <1>1 DEF LinksInv, ScansHold, ScanHolds, Holds
  <2>5. QED
    BY <2>2, <2>3, <2>4 DEF VacuumClean
<1>6. QED
  BY <1>2, <1>3, <1>4, <1>5 DEF LinksInv

\* No step leaves layer 0, but for an insert that draws a level above it.
LowStep(p) ==
  /\ \A s \in Slots : etup'[s].level = 0 /\ ntup'[s].level = 0
  /\ srch'[p].lc = 0 /\ \A q \in Procs \ {p} : srch'[q] = srch[q]
  /\ \A q \in Writers \ {p} : sel'[q] = sel[q] /\ todo'[q] = todo[q] /\ job'[q] = job[q]
  /\ p \in Writers => \A c \in sel'[p] \union todo'[p] : c.lc = 0
  /\ p = Vac => job'[Vac].level = 0

\* A step that leaves layer 0 for nothing but a level drawn keeps OneLayer.
LEMMA LowStepLayers ==
  ASSUME OneLayer, LowLevels', NEW p \in Procs, LowStep(p) PROVE OneLayer'
<1>1. \A q \in Procs : srch'[q].lc = 0
  BY DEF LowStep, OneLayer
<1>2. \A q \in Writers : \A c \in sel'[q] \union todo'[q] : c.lc = 0
  BY DEF LowStep, OneLayer
<1>3. \A q \in Writers : job'[q].level = 0
  BY ProcNames DEF LowStep, OneLayer, LowLevels
<1>4. QED
  BY <1>1, <1>2, <1>3 DEF LowStep, OneLayer

\* Loading an element leaves the layer searched as it is.
LEMMA LoadLayer ==
  ASSUME TypeOK, NEW p \in Procs,
         \E a, b : srch' = [srch EXCEPT ![p].pend = a, ![p].hnd = b]
  PROVE  srch'[p].lc = srch[p].lc /\ \A q \in Procs \ {p} : srch'[q] = srch[q]
<1>1. PICK a, b : srch' = [srch EXCEPT ![p].pend = a, ![p].hnd = b]
  OBVIOUS
<1>2. srch \in [Procs -> SearchState]
  BY VarTypes
<1>3. QED
  BY <1>1, <1>2 DEF SearchState

\* The same for reading neighbors.
LEMMA ReadLayer ==
  ASSUME TypeOK, NEW p \in Procs,
         \E a, b, c : srch' = [srch EXCEPT ![p].exp = a, ![p].pend = b, ![p].vis = c]
  PROVE  srch'[p].lc = srch[p].lc /\ \A q \in Procs \ {p} : srch'[q] = srch[q]
<1>1. PICK a, b, c : srch' = [srch EXCEPT ![p].exp = a, ![p].pend = b, ![p].vis = c]
  OBVIOUS
<1>2. srch \in [Procs -> SearchState]
  BY VarTypes
<1>3. QED
  BY <1>1, <1>2 DEF SearchState

\* Searches stay on layer 0.
LEMMA WalkLayers ==
  ASSUME TypeOK, OneLayer, NEW p \in Procs,
         LoadElement(p) \/ ReadNeighbors(p) \/ (p \in Writers /\ WriterSearchDone(p))
  PROVE  LowStep(p)
<1>1. UNCHANGED <<etup, ntup, job>>
  BY DEF LoadElement, ReadNeighbors, WriterSearchDone
<1>2. srch \in [Procs -> SearchState] /\ srch[p] \in SearchState /\ Vac \in Writers
  BY VarTypes, ProcNames
<1>3. CASE LoadElement(p) \/ ReadNeighbors(p)
  <2>1. UNCHANGED <<sel, todo>>
    BY <1>3 DEF LoadElement, ReadNeighbors
  <2>2. CASE LoadElement(p)
    <3>1. \E a, b : srch' = [srch EXCEPT ![p].pend = a, ![p].hnd = b]
      BY <2>2, Zenon DEF LoadElement
    <3>2. srch'[p].lc = srch[p].lc /\ \A q \in Procs \ {p} : srch'[q] = srch[q]
      BY <3>1, LoadLayer
    <3>3. QED
      BY <1>1, <1>2, <2>1, <3>2 DEF LowStep, OneLayer
  <2>3. CASE ReadNeighbors(p)
    <3>1. \E h, new :
            srch' = [srch EXCEPT ![p].exp = @ \union {h}, ![p].pend = new, ![p].vis = @ \union new]
      BY <2>3, Zenon DEF ReadNeighbors
    <3>2. \E a, b, c : srch' = [srch EXCEPT ![p].exp = a, ![p].pend = b, ![p].vis = c]
      BY <3>1, Zenon
    <3>3. srch'[p].lc = srch[p].lc /\ \A q \in Procs \ {p} : srch'[q] = srch[q]
      BY <3>2, ReadLayer
    <3>4. QED
      BY <1>1, <1>2, <2>1, <3>3 DEF LowStep, OneLayer
  <2>4. QED
    BY <1>3, <2>2, <2>3
<1>4. CASE p \in Writers /\ WriterSearchDone(p)
  <2>1. PICK W \in Nearest(p) : \E q \in Selections(p, W, 0) :
          /\ sel'  = [sel EXCEPT ![p] = @ \union q]
          /\ todo' = [todo EXCEPT ![p] = q]
    BY <1>4 DEF WriterSearchDone
  <2>2. PICK q \in Selections(p, W, 0) :
          /\ sel'  = [sel EXCEPT ![p] = @ \union q]
          /\ todo' = [todo EXCEPT ![p] = q]
    BY <2>1
  <2>3. \A c \in q : c.lc = 0
    BY DEF Selections, Numbered
  <2>4. /\ sel'[p] = sel[p] \union q /\ todo'[p] = q
        /\ \A o \in Writers \ {p} : sel'[o] = sel[o] /\ todo'[o] = todo[o]
    BY <1>4, <2>2, VarTypes
  <2>5. srch'[p] = NoSearch /\ \A o \in Procs \ {p} : srch'[o] = srch[o]
    BY <1>2, <1>4 DEF WriterSearchDone
  <2>6. QED
    BY <1>1, <1>4, <2>3, <2>4, <2>5 DEF LowStep, OneLayer, NoSearch
<1>5. QED
  BY <1>3, <1>4

\* What writes tuples gives them the level of the element inserted or repaired.
LEMMA WriteLayers ==
  ASSUME TypeOK, OneLayer, NEW p \in Writers,
         \/ GetUpdateIndex(p) \/ UpdateNeighbor(p)
         \/ AddDuplicate(p) \/ AddElement(p)
         \/ p = Vac /\ RewriteNeighbors
  PROVE  LowStep(p)
<1>1. p \in Procs /\ UNCHANGED <<srch, sel>>
  BY ProcNames DEF GetUpdateIndex, UpdateNeighbor, AddDuplicate, AddElement, RewriteNeighbors
<1>2. /\ \A s \in Slots : etup[s] \in ElementTuple /\ ntup[s] \in NeighborTuple
      /\ job[p] \in Job /\ job[p].level = 0
  BY VarTypes DEF OneLayer
<1>3. /\ todo'[p] \subseteq todo[p] \union sel[p]
      /\ \A q \in Writers \ {p} : todo'[q] = todo[q]
  <2>1. \/ UNCHANGED todo
        \/ \E c \in todo[p] : todo' = [todo EXCEPT ![p] = @ \ {c}]
        \/ todo' = [todo EXCEPT ![p] = sel[p]]
    BY Zenon DEF GetUpdateIndex, UpdateNeighbor, AddDuplicate, AddElement, RewriteNeighbors
  <2>2. QED
    BY <2>1, VarTypes
<1>4. \A s \in Slots : etup'[s].level = 0 /\ ntup'[s].level = 0
  <2>1. CASE GetUpdateIndex(p)
    BY <2>1 DEF GetUpdateIndex, OneLayer
  <2>2. CASE UpdateNeighbor(p)
    <3>1. UNCHANGED etup /\ \E s, lc, list : ntup' = [ntup EXCEPT ![s].tids[lc] = list]
      BY <2>2, Zenon DEF UpdateNeighbor
    <3>2. QED
      BY <1>2, <3>1, VarTypes DEF OneLayer, NeighborTuple
  <2>3. CASE AddDuplicate(p)
    <3>1. /\ UNCHANGED ntup
          /\ UNCHANGED etup \/ \E s, rows : etup' = [etup EXCEPT ![s].heaptids = rows]
      BY <2>3, Zenon DEF AddDuplicate
    <3>2. QED
      BY <1>2, <3>1, VarTypes DEF OneLayer, ElementTuple
  <2>4. CASE AddElement(p)
    <3>1. PICK s \in Slots : \E version \in Nat \union {etup[s].version} :
            /\ etup' = [etup EXCEPT ![s] =
                 [used |-> TRUE, deleted |-> FALSE, level |-> job[p].level,
                  version |-> version, heaptids |-> {job[p].heaptid}, value |-> job[p].value]]
            /\ ntup' = [ntup EXCEPT ![s] = [level |-> job[p].level, version |-> version,
                                            tids |-> NeighborLists(sel[p])]]
      BY <2>4 DEF AddElement
    <3>2. QED
      BY <1>2, <3>1, VarTypes DEF OneLayer
  <2>5. CASE p = Vac /\ RewriteNeighbors
    <3>1. /\ UNCHANGED etup
          /\ ntup' = [ntup EXCEPT ![job[Vac].tid] =
               [level |-> job[Vac].level, version |-> job[Vac].version,
                tids |-> NeighborLists(sel[Vac])]]
      BY <2>5 DEF RewriteNeighbors
    <3>2. QED
      BY <1>2, <2>5, <3>1, VarTypes DEF OneLayer
  <2>6. QED
    BY <2>1, <2>2, <2>3, <2>4, <2>5
<1>5. \A q \in Writers \ {p} : job'[q] = job[q]
  <2>1. CASE AddElement(p)
    <3>1. \E s, v : job' = [job EXCEPT ![p].tid = s, ![p].version = v]
      BY <2>1 DEF AddElement
    <3>2. QED
      BY <3>1, VarTypes
  <2>2. CASE ~AddElement(p)
    <3>1. UNCHANGED job \/ \E i : job' = [job EXCEPT ![p].idx = i]
      BY <2>2, Zenon DEF GetUpdateIndex, UpdateNeighbor, AddDuplicate, RewriteNeighbors
    <3>2. QED
      BY <3>1, VarTypes
  <2>3. QED
    BY <2>1, <2>2
<1>6. p = Vac => job'[Vac].level = 0
  <2>1. ASSUME p = Vac PROVE UNCHANGED job \/ \E i : job' = [job EXCEPT ![p].idx = i]
    <3>1. ~AddElement(p)
      BY <2>1 DEF AddElement, TypeOK, VacuumPc
    <3>2. QED
      BY <3>1, Zenon DEF GetUpdateIndex, UpdateNeighbor, AddDuplicate, RewriteNeighbors
  <2>2. QED
    BY <1>2, <2>1, VarTypes DEF Job
<1>7. QED
  BY <1>1, <1>3, <1>4, <1>5, <1>6 DEF LowStep, OneLayer

\* A search begins where the metapage, or the highest point, is: on layer 0.
LEMMA BeginLayers ==
  ASSUME EntriesInv, OneLayer, NEW p \in Procs,
         \/ p \in Inserters /\ (InsertBegin(p) \/ InsertLock(p) \/ InsertLockExclusive(p))
         \/ p \in Scanners /\ ScanBegin(p)
  PROVE  LowStep(p)
<1>1. TypeOK /\ p # Vac
  BY ProcNames DEF EntriesInv, IndexInv
<1>2. UNCHANGED <<etup, ntup, sel, todo>>
  BY DEF InsertBegin, InsertLock, InsertLockExclusive, ScanBegin
<1>3. UNCHANGED srch \/ FindNeighbors(p, meta)
  BY Zenon DEF InsertBegin, InsertLock, InsertLockExclusive, ScanBegin
<1>4. meta.tid # NoTid => meta.level = 0
  BY LayerEntry
<1>5. srch'[p].lc = 0 /\ \A q \in Procs \ {p} : srch'[q] = srch[q]
  <2>1. CASE UNCHANGED srch
    BY <2>1 DEF OneLayer
  <2>2. CASE FindNeighbors(p, meta)
    <3>1. srch' = [srch EXCEPT ![p] = IF meta.tid = NoTid THEN NoSearch ELSE Search(meta)]
      BY <2>2 DEF FindNeighbors
    <3>2. QED
      BY <1>1, <1>4, <3>1, VarTypes DEF NoSearch, Search
  <2>3. QED
    BY <1>3, <2>1, <2>2
<1>6. \A q \in Writers \ {p} : job'[q] = job[q]
  <2>1. \/ UNCHANGED job
        \/ \E l : job' = [job EXCEPT ![p].level = l]
        \/ \E t, v : job' = [job EXCEPT ![p].heaptid = t, ![p].value = v]
    BY Zenon DEF InsertBegin, InsertLock, InsertLockExclusive, ScanBegin
  <2>2. QED
    BY <1>1, <2>1, VarTypes
<1>7. QED
  BY <1>1, <1>2, <1>5, <1>6 DEF LowStep, OneLayer

\* What is let go of is reset to layer 0.
LEMMA EndLayers ==
  ASSUME TypeOK, OneLayer, NEW p \in Procs, UNCHANGED <<etup, ntup>>,
         (p \in Writers /\ Release(p)) \/ (p \in Scanners /\ EndScan(p))
  PROVE  LowStep(p)
<1>1. srch'[p].lc = 0 /\ \A q \in Procs \ {p} : srch'[q] = srch[q]
  BY VarTypes DEF Release, EndScan, NoSearch
<1>2. CASE p \in Writers /\ Release(p)
  <2>1. /\ \A q \in Writers \ {p} : sel'[q] = sel[q] /\ todo'[q] = todo[q] /\ job'[q] = job[q]
        /\ sel'[p] = {} /\ todo'[p] = {} /\ job'[p] = NoJob
    BY <1>2, VarTypes DEF Release
  <2>2. QED
    BY <1>1, <2>1 DEF LowStep, OneLayer, NoJob
<1>3. CASE p \in Scanners /\ EndScan(p)
  BY <1>1, <1>3, ProcNames DEF LowStep, OneLayer, EndScan
<1>4. QED
  BY <1>2, <1>3

\* The repair of an element of level 0 begins on layer 0.
LEMMA RepairLayers ==
  ASSUME TypeOK, OneLayer, UNCHANGED <<etup, ntup, sel, todo>>,
         NEW e, NEW entry, NEW stage, NEW mode,
         RepairElement(e, entry, stage, mode), e.level = 0, entry.tid # NoTid => entry.level = 0
  PROVE  LowStep(Vac)
<1>1. Vac \in Procs /\ Vac \in Writers
  BY ProcNames
<1>2. /\ job' = [job EXCEPT ![Vac] = [NoJob EXCEPT !.tid = e.tid, !.level = e.level,
                                         !.version = e.version, !.value = e.value]]
      /\ srch' = [srch EXCEPT ![Vac] = IF entry.tid \notin {e.tid, NoTid} THEN Search(entry)
                                        ELSE NoSearch]
  BY DEF RepairElement
<1>3. job'[Vac].level = 0 /\ \A q \in Writers \ {Vac} : job'[q] = job[q]
  BY <1>1, <1>2, VarTypes DEF NoJob
<1>4. srch'[Vac].lc = 0 /\ \A q \in Procs \ {Vac} : srch'[q] = srch[q]
  BY <1>1, <1>2, VarTypes DEF Search, NoSearch
<1>5. QED
  BY <1>1, <1>3, <1>4 DEF LowStep, OneLayer

\* So do all repairs.
LEMMA StartLayers ==
  ASSUME EntriesInv, OneLayer,
         RepairHighestPoint \/ RepairEntryPoint \/ RepairLock \/ RepairLockExclusive
  PROVE  LowStep(Vac)
<1>1. TypeOK /\ Vac \in Procs /\ Vac \in Writers /\ VacuumTracks /\ vac \in VacState
  BY ProcNames DEF EntriesInv, IndexInv, TypeOK
<1>2. UNCHANGED <<etup, ntup, sel, todo>>
  BY DEF RepairHighestPoint, RepairEntryPoint, RepairLock, RepairLockExclusive
<1>3. /\ meta.tid # NoTid => meta.tid \in Slots /\ meta.level = 0
      /\ vac.high.tid # NoTid => vac.high.tid \in Slots /\ vac.high.level = 0
      /\ \A e \in vac.queue : e.level = 0
  <2>1. meta.tid # NoTid => meta.tid \in Slots
    BY <1>1 DEF TypeOK, Entry, NoEntry
  <2>2. vac.high.tid # NoTid => vac.high.tid \in Slots
    BY <1>1 DEF VacState, Entry, NoEntry
  <2>3. \A e \in vac.queue : e.tid \in Slots
    BY <1>1 DEF VacState, Element
  <2>4. QED
    BY <1>1, <2>1, <2>2, <2>3, LayerEntry DEF VacuumTracks, OneLayer
<1>4. \/ UNCHANGED <<job, srch>>
      \/ /\ vac.high.tid # NoTid
         /\ RepairElement(LoadFromTuple(vac.high.tid), meta, "high", "share")
      \/ /\ meta.tid # NoTid
         /\ RepairElement(LoadFromTuple(meta.tid), vac.high, "entry", "exclusive")
      \/ \E e \in vac.queue, mode \in {"share", "exclusive"} : RepairElement(e, meta, "element", mode)
  BY Zenon DEF RepairHighestPoint, RepairEntryPoint, RepairLock, RepairLockExclusive
<1>5. \A s \in Slots : LoadFromTuple(s).level = 0
  BY DEF LoadFromTuple, OneLayer
<1>6. CASE UNCHANGED <<job, srch>>
  BY <1>1, <1>2, <1>6 DEF LowStep, OneLayer
<1>7. QED
  BY <1>1, <1>2, <1>3, <1>4, <1>5, <1>6, RepairLayers

\* The other steps of VACUUM keep the levels of both tuples.
LEMMA PhaseLayers ==
  ASSUME TypeOK, OneLayer,
         \/ VacuumBegin \/ RemoveHeapTids \/ WaitForInserts \/ LoadPage \/ CheckElement
         \/ PageRepaired \/ WaitForScans \/ MarkDeleted \/ VacuumFinish
         \/ (\E t \in HeapTids : DeleteRow(t)) \/ UNCHANGED vars
  PROVE  LowStep(Vac)
<1>1. UNCHANGED <<job, srch, sel, todo>>
  BY DEF VacuumBegin, RemoveHeapTids, WaitForInserts, LoadPage, CheckElement, PageRepaired,
         WaitForScans, MarkDeleted, VacuumFinish, DeleteRow, vars
<1>2. \A s \in Slots : etup'[s].level = 0 /\ ntup'[s].level = 0
  <2>1. CASE UNCHANGED <<etup, ntup>>
    BY <2>1 DEF OneLayer
  <2>2. CASE RemoveHeapTids \/ MarkDeleted
    <3>1. \A s \in Slots : etup[s] \in ElementTuple /\ ntup[s] \in NeighborTuple
      BY VarTypes
    <3>2. CASE RemoveHeapTids
      <4>1. UNCHANGED ntup /\ \A s \in Slots : etup'[s].level = etup[s].level
        BY <3>1, <3>2 DEF RemoveHeapTids, ElementTuple
      <4>2. QED
        BY <4>1 DEF OneLayer
    <3>3. CASE MarkDeleted
      <4>1. \A s \in Slots : etup'[s].level = etup[s].level
        BY <3>1, <3>3 DEF MarkDeleted, ElementTuple
      <4>2. \A s \in Slots : ntup'[s].level = ntup[s].level
        BY <3>1, <3>3 DEF MarkDeleted, NeighborTuple
      <4>3. QED
        BY <4>1, <4>2 DEF OneLayer
    <3>4. QED
      BY <2>2, <3>2, <3>3
  <2>3. QED
    BY <2>1, <2>2 DEF VacuumBegin, WaitForInserts, LoadPage, CheckElement, PageRepaired,
                      WaitForScans, VacuumFinish, DeleteRow, vars
<1>3. QED
  BY <1>1, <1>2, ProcNames DEF LowStep, OneLayer

\* Every step keeps OneLayer, if no insert draws a level above 0.
LEMMA NextLayers ==
  ASSUME EntriesInv, OneLayer, LowLevels', [Next]_vars PROVE OneLayer'
<1>1. TypeOK /\ Vac \in Procs /\ Vac \in Writers
  BY ProcNames DEF EntriesInv, IndexInv
<1>2. ASSUME NEW p \in Inserters, InsertBegin(p) \/ InsertStep(p) \/ InsertAbort(p)
      PROVE  LowStep(p)
  <2>1. p \in Procs /\ p \in Writers /\ ~NextLayer(p)
    BY <1>1, NoNextLayer, ProcNames
  <2>2. InsertFinish(p) \/ InsertAbort(p) => UNCHANGED <<etup, ntup>> /\ Release(p)
    BY DEF InsertFinish, InsertAbort
  <2>3. QED
    BY <1>1, <1>2, <2>1, <2>2, WalkLayers, WriteLayers, BeginLayers, EndLayers
       DEF InsertStep, WalkGraph, Connect
<1>3. ASSUME NEW p \in Scanners, ScanBegin(p) \/ ScanStep(p) \/ ScanAbort(p) PROVE LowStep(p)
  <2>1. p \in Procs /\ ~NextLayer(p)
    BY <1>1, NoNextLayer, ProcNames
  <2>2. EndScan(p) => UNCHANGED <<etup, ntup>>
    BY DEF EndScan
  <2>3. QED
    BY <1>1, <1>3, <2>1, <2>2, WalkLayers, BeginLayers, EndLayers
       DEF ScanStep, WalkGraph, ScanDone, ScanAbort
<1>4. ASSUME VacuumBegin \/ VacuumStep \/ VacuumAbort PROVE LowStep(Vac)
  <2>1. ~NextLayer(Vac)
    BY <1>1, NoNextLayer
  <2>2. RepairDone \/ VacuumAbort => UNCHANGED <<etup, ntup>> /\ Release(Vac)
    BY DEF RepairDone, VacuumAbort
  <2>3. CASE RepairGraph
    BY <1>1, <2>2, <2>3, WriteLayers, StartLayers, PhaseLayers, EndLayers DEF RepairGraph
  <2>4. QED
    BY <1>1, <1>4, <2>1, <2>2, <2>3, WalkLayers, WriteLayers, PhaseLayers, EndLayers
       DEF VacuumStep, WalkGraph, Connect
<1>5. CASE (\E t \in HeapTids : DeleteRow(t)) \/ UNCHANGED vars
  BY <1>1, <1>5, PhaseLayers, LowStepLayers
<1>6. QED
  BY <1>1, <1>2, <1>3, <1>4, <1>5, LowStepLayers, ProcNames DEF Next

\* An empty index has no other layer.
LEMMA InitLayers == Init => OneLayer
BY DEF Init, OneLayer, NoSearch, NoJob

\* Every step keeps LinksInv.
LEMMA NextLinks ==
  ASSUME EntriesInv, EntriesInv', LinksInv, OneLayer, [Next]_vars PROVE LinksInv'
<1>1. ASSUME NEW p \in Inserters, InsertBegin(p) \/ InsertStep(p) \/ InsertAbort(p)
      PROVE  LinksInv'
  <2>1. InserterLocks(p)
    BY DEF LinksInv, LocksMatch
  <2>2. InsertMove(p) /\ InserterLocks(p)'
    BY <1>1, <2>1, InsertSteps
  <2>3. QED
    BY <2>2, InsertMoveLinks
<1>2. ASSUME NEW p \in Scanners, ScanBegin(p) \/ ScanStep(p) \/ ScanAbort(p)
      PROVE  LinksInv'
  BY <1>2, ScanLinks
<1>3. CASE RepairGraph
  BY <1>3, BarrierLinks, HighLinks, EntryLinks, LoadPageLinks, CheckElementLinks,
     PageRepairedLinks, RepairLockLinks, RepairStepLinks, RepairDoneLinks DEF RepairGraph
<1>4. CASE VacuumStep
  BY <1>3, <1>4, RemoveLinks, WaitForScansLinks, MarkLinks, EndLinks, RepairStepLinks
     DEF VacuumStep
<1>5. QED
  BY <1>1, <1>2, <1>4, BeginLinks, EndLinks, OtherLinks DEF Next

\* An empty index satisfies LinksInv.
LEMMA InitLinks == Init => LinksInv
<1>1. SUFFICES ASSUME Init PROVE LinksInv
  OBVIOUS
<1>2. /\ \A s \in Slots : Links(s) = {} /\ ~Holds(s)
      /\ meta.tid = NoTid /\ vac.stage = "none" /\ pc[Vac] = "idle"
  <2>1. 0 \in Levels
    BY DEF Levels
  <2>2. \A s \in Slots : ntup[s].tids = EmptyLists /\ etup[s].heaptids = {}
    BY <1>1 DEF Init
  <2>3. \A s \in Slots : Links(s) = {} /\ ~Holds(s)
    BY <2>1, <2>2 DEF Links, Holds, EmptyLists
  <2>4. meta.tid = NoTid /\ vac.stage = "none" /\ pc[Vac] = "idle"
    BY <1>1, ProcNames DEF Init, NoEntry, VacIdle
  <2>5. QED
    BY <2>3, <2>4
<1>3. \A p \in Procs : /\ lock[p] = "none" /\ pc[p] = "idle" /\ ep[p].tid = NoTid
                       /\ srch[p].hnd = {} /\ srch[p].pend = {}
  BY <1>1 DEF Init, NoEntry, NoSearch
<1>4. \A p \in Writers : sel[p] = {} /\ todo[p] = {}
  BY <1>1 DEF Init
<1>5. LinksUsed /\ RepairsHold
  BY <1>2 DEF LinksUsed, RepairsHold
<1>6. LocksMatch
  BY <1>2, <1>3, <1>4, ProcNames
     DEF LocksMatch, InserterLocks, ScannerLocks, NoLockPc, ConnectPc, RepairPc
<1>7. Intact
  <2>1. \A p \in Writers : Held(p) = {}
    BY <1>3, <1>4, ProcNames DEF Held
  <2>2. \A p \in Scanners : ScanIn(p, {})
    BY <1>3, ProcNames DEF ScanIn
  <2>3. Region({})
    BY <1>2, <2>1, <2>2 DEF Region, Closed
  <2>4. QED
    BY <2>3 DEF Intact
<1>8. EntryKnown /\ VacuumClean /\ ScansHold
  BY <1>2 DEF EntryKnown, VacuumClean, InsertsClean, JobClean, HighClean, EntryClean, LoopClean,
              AtEntry, InLoop, ScansHold, PastBarrier
<1>9. QED
  BY <1>5, <1>6, <1>7, <1>8 DEF LinksInv

\* As long as no insert draws a level above 0, OneLayer and LinksInv hold: the
\* elements that are not reclaimed and what leads to them, and what VACUUM has
\* repaired so far.
THEOREM LinksInvariant == Spec /\ []LowLevels => [](OneLayer /\ LinksInv)
<1>1. Init => OneLayer /\ LinksInv
  BY InitLinks, InitLayers
<1>2. /\ OneLayer /\ LinksInv /\ EntriesInv /\ EntriesInv' /\ LowLevels' /\ [Next]_vars
      => OneLayer' /\ LinksInv'
  BY NextLinks, NextLayers
<1>3. QED
  BY <1>1, <1>2, EntriesInvariant, PTL DEF Spec

\* As long as no insert draws a level above 0, no element that holds a row has a
\* connection to a reclaimed place: MarkDeleted reclaims what RepairGraph has cut off.
THEOREM LinksIntactCorrect == Spec /\ []LowLevels => []LinksIntact
<1>1. OneLayer /\ EntriesInv /\ LinksInv => LinksIntact
  <2>1. SUFFICES ASSUME OneLayer, EntriesInv, LinksInv,
                        NEW s \in Slots, Alive(s), NEW lc \in 0..ntup[s].level,
                        NEW i \in 1..LayerM(lc), ntup[s].tids[lc][i] # NoTid
                 PROVE  ~etup[ntup[s].tids[lc][i]].deleted
    BY DEF LinksIntact
  <2>2. ntup[s].level = 0
    BY <2>1 DEF OneLayer
  <2>3. lc = 0 /\ LayerM(0) = 2 * M
    BY <2>2 DEF LayerM
  <2>4. PICK G \in SUBSET Slots : Region(G)
    BY <2>1 DEF LinksInv, Intact
  <2>5. s \in G
    BY <2>1, <2>4 DEF Region, Alive, Holds
  <2>6. ntup[s].tids[lc][i] \in Links(s)
    BY <2>1, <2>3 DEF Links
  <2>7. QED
    BY <2>4, <2>5, <2>6 DEF Region, Closed, Placed
<1>2. QED
  BY <1>1, LinksInvariant, EntriesInvariant, PTL

\* As long as no insert draws a level above 0, no scan loads an element that
\* MarkDeleted has cleared, neither one begun before the wait nor one begun after.
THEOREM ScansLoadCorrect == Spec /\ []LowLevels => []ScansLoadIntactElements
<1>1. LinksInv => ScansLoadIntactElements
  <2>1. SUFFICES ASSUME LinksInv, NEW p \in Scanners, NEW t \in srch[p].pend
                 PROVE  ~etup[t].deleted
    BY DEF ScansLoadIntactElements
  <2>2. PICK G \in SUBSET Slots : Region(G)
    BY <2>1 DEF LinksInv, Intact
  <2>3. t \in G
    BY <2>1, <2>2 DEF Region, ScanIn
  <2>4. QED
    BY <2>2, <2>3 DEF Region, Closed, Placed
<1>2. QED
  BY <1>1, LinksInvariant, PTL
=============================================================================
