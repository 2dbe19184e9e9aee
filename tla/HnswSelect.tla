----------------------------- MODULE HnswSelect -----------------------------
(***************************************************************************)
(* The neighbor list of one element of an in-memory build, on one layer:   *)
(* chosen when the element is inserted (HnswFindElementNeighbors), and     *)
(* shrunk as other elements are connected to it (HnswUpdateConnection).    *)
(* SelectNeighbors (hnswutils.c) does both, and from the second time on    *)
(* reuses the closer flags it left in the list, which are not initialized  *)
(* before.                                                                 *)
(*                                                                         *)
(* An element is chosen by the list's owner once at most, and connects to  *)
(* the list once at most.  In a parallel build it can do both: an element  *)
(* connects to what its own list names when it copies that list, layer by  *)
(* layer, and on a lower layer the owner may have chosen it and connected  *)
(* to it by then (UpdateNeighborsInMemory).  The list may name it twice.   *)
(***************************************************************************)
EXTENDS Integers, Sequences, FiniteSets, SequencesExt

CONSTANTS
  Elements,   \* elements, as numbers: their addresses break ties
  Points,     \* vectors
  Origin,     \* the vector of the element the list belongs to
  Metric(_, _), \* the distance function
  Lm,         \* HnswGetLayerM
  EfConstruction \* elements a search returns at most

ASSUME SelectConstants ==
  /\ Elements \subseteq Nat /\ IsFiniteSet(Elements)
  /\ Lm \in Nat \ {0} /\ EfConstruction \in Nat
  /\ Origin \in Points
  /\ \A p, q \in Points : Metric(p, q) \in Nat /\ Metric(p, q) = Metric(q, p)

VARIABLES
  point,      \* the vector of each element
  items,      \* HnswNeighborArray: its candidates, each with its closer flag
  closerSet,  \* HnswNeighborArray.closerSet
  inserted,   \* has the list's own element found its neighbors?
  place,      \* where in the array each of them is
  shared,     \* is this a parallel build (base # NULL)?
  todo,       \* elements that may still connect to the list
  again       \* did one connect that the list named already?

vars == <<point, items, place, closerSet, inserted, shared, todo, again>>

\* HnswCandidate: an element the owner has chosen, or one that has connected.
Candidates    == [element : Elements, chosen : BOOLEAN]
Chosen(e)     == [element |-> e, chosen |-> TRUE]
Connected(e)  == [element |-> e, chosen |-> FALSE]
NoCandidate   == Connected(-1)

Distance(a)   == Metric(Origin, point[a.element])
Between(a, b) == Metric(point[a.element], point[b.element])
-----------------------------------------------------------------------------
\* Is e nearer to the list's own element than to any of r?
CheckElementCloser(e, r) == \A i \in DOMAIN r : Between(e, r[i]) > Distance(e)

\* Nearest first; equal distances by address.
CompareCandidateDistances(a, b) ==
  Distance(a) < Distance(b) \/ (Distance(a) = Distance(b) /\ a.element < b.element)

\* Mutant: what was not closer is never looked at again.
StillFurther(a, e) == [closer |-> FALSE, added |-> a.added]

\* A candidate that was not closer may be so now, if others are no longer.
MaybeCloser(a, e) ==
  LET closer == IF a.removedAny THEN CheckElementCloser(e, a.r) ELSE FALSE
  IN [closer |-> closer, added |-> IF closer THEN Append(a.added, e) ELSE a.added]

\* The closer flag of e and the list of added ones, from the loop's state a.
Judge(a, e, must, new) ==
  CASE must ->
         [closer |-> CheckElementCloser(e, a.r), added |-> a.added]
    [] ~must /\ a.added # <<>> /\ a.flag[e] ->
         [closer |-> CheckElementCloser(e, a.added), added |-> a.added]
    [] ~must /\ a.added # <<>> /\ ~a.flag[e] ->
         MaybeCloser(a, e)
    [] ~must /\ a.added = <<>> /\ e = new ->
         LET closer == CheckElementCloser(e, a.r)
         IN [closer |-> closer, added |-> IF closer THEN <<e>> ELSE <<>>]
    [] OTHER -> [closer |-> a.flag[e], added |-> a.added]

\* One turn of the loop, unless r is full: then e stays in w.
Turn(a, e, must, new) ==
  IF Len(a.r) >= Lm THEN [a EXCEPT !.w = Append(@, e)]
  ELSE LET j == Judge(a, e, must, new)
       IN [a EXCEPT !.r = IF j.closer THEN Append(@, e) ELSE @,
                    !.wd = IF j.closer THEN @ ELSE Append(@, e),
                    !.added = j.added,
                    !.removedAny = @ \/ (~must /\ a.added # <<>> /\ a.flag[e] /\ ~j.closer),
                    !.flag[e] = j.closer]

\* Nothing is selected yet.
Start(flag) ==
  [r |-> <<>>, wd |-> <<>>, w |-> <<>>, added |-> <<>>, removedAny |-> FALSE, flag |-> flag]

\* The loop over the candidates c, nearest first, with their flags.
Loop(c, flag, must, new) ==
  LET upto[n \in 0..Len(c)] ==
        IF n = 0 THEN Start(flag) ELSE Turn(upto[n - 1], c[n], must, new)
  IN upto[Len(c)]

\* How many of wd fill up r.
Fill(a) == IF Len(a.wd) < Lm - Len(a.r) THEN Len(a.wd) ELSE Lm - Len(a.r)

\* SelectNeighbors: r, filled up with pruned connections.
Selected(a) == ToSet(a.r) \union {a.wd[i] : i \in 1..Fill(a)}

\* The candidate that is left out: the first of wd that is not needed, or the
\* furthest that was not looked at.
Pruned(a) == IF Fill(a) < Len(a.wd) THEN a.wd[Fill(a) + 1] ELSE Last(a.w)
-----------------------------------------------------------------------------
Init ==
  /\ point \in [Elements -> Points]
  /\ items = [k \in {} |-> FALSE]
  /\ place = [k \in {} |-> 0]
  /\ closerSet = FALSE
  /\ inserted = FALSE
  /\ shared \in BOOLEAN
  /\ todo = Elements
  /\ again = FALSE

\* The orders a search may return the candidates c in: nearest first.
Orders(c) ==
  {s \in [1..Cardinality(c) -> c] :
     /\ ToSet(s) = c
     /\ \A i, j \in DOMAIN s : i < j => Distance(s[i]) <= Distance(s[j])}

\* list_sort sorts fewer than 7 by insertion, and leaves what compares equal, which
\* only two candidates of one element do, in the order of the array.
Insertion == 7

\* Does SelectNeighbors look at a before b, of n candidates at the places at? It
\* takes them from the end of the sorted list.
LooksFirst(a, b, n, at) ==
  \/ CompareCandidateDistances(a, b)
  \/ a # b /\ a.element = b.element /\ (n < Insertion => at[a] > at[b])

\* The list once it is sorted.
Sorted(c, at) ==
  {s \in [1..Cardinality(c) -> c] :
     /\ ToSet(s) = c
     /\ \A i, j \in DOMAIN s : i < j => LooksFirst(s[i], s[j], Cardinality(c), at)}

PositionIn(s, k) == CHOOSE i \in DOMAIN s : s[i] = k

\* HnswFindElementNeighbors on one layer, for the elements C a search has found. In
\* a serial build nothing is found that has not connected to all its neighbors.
FindElementNeighbors(C) ==
  /\ ~inserted
  /\ inserted' = TRUE
  /\ todo' = IF shared THEN todo ELSE todo \ C
  /\ \E s \in Orders({Chosen(e) : e \in C}) :
       IF Len(s) <= Lm
         THEN /\ items' \in [ToSet(s) -> BOOLEAN]
              /\ place' = [k \in ToSet(s) |-> Len(s) + 1 - PositionIn(s, k)]
         ELSE LET a == Loop(s, [k \in ToSet(s) |-> FALSE], TRUE, NoCandidate)
              IN /\ items' = [k \in Selected(a) |-> a.flag[k]]
                 /\ place' = [k \in Selected(a) |-> PositionIn(a.r \o a.wd, k)]
  /\ UNCHANGED <<point, closerSet, shared, again>>

\* Mutant: the flags are taken to be set in a list that was never sorted.
CachedAlways == TRUE

\* SelectNeighbors reads the flags only when an earlier call has left them.
Cached == closerSet

RoomLeft == Cardinality(DOMAIN items) < Lm

\* The candidate that new replaces, if p is pruned: the first in the array with the
\* same element. There is none if new is pruned itself.
Replaced(p, new) ==
  LET named == {k \in DOMAIN items : k.element = p.element}
  IN IF named = {} THEN new ELSE CHOOSE k \in named : \A l \in named : place[k] <= place[l]

\* HnswUpdateConnection: the list has room, or one candidate makes room.
HnswUpdateConnection(e) ==
  LET new == Connected(e)
      c   == DOMAIN items \union {new}
      at  == [k \in c |-> IF k = new THEN Cardinality(c) ELSE place[k]]
  IN /\ inserted
     /\ e \in todo
     /\ todo' = todo \ {e}
     /\ again' = (again \/ \E k \in DOMAIN items : k.element = e)
     /\ \E closer \in BOOLEAN :
          LET flag == [k \in c |-> IF k = new THEN closer ELSE items[k]]
          IN \/ RoomLeft /\ items' = flag /\ place' = at /\ UNCHANGED closerSet
             \/ /\ ~RoomLeft
                /\ \E s \in Sorted(c, at) :
                     LET a   == Loop(s, flag, ~Cached, new)
                         out == Replaced(Pruned(a), new)
                     IN /\ items' = [k \in c \ {out} |-> a.flag[k]]
                        /\ place' = [k \in c \ {out} |-> IF k = new THEN at[out] ELSE at[k]]
                /\ closerSet' = TRUE
     /\ UNCHANGED <<point, inserted, shared>>

Next ==
  \/ \E C \in SUBSET todo : Cardinality(C) <= EfConstruction /\ FindElementNeighbors(C)
  \/ \E e \in Elements : HnswUpdateConnection(e)
  \/ todo = {} /\ UNCHANGED vars

Spec == Init /\ [][Next]_vars
-----------------------------------------------------------------------------
(***************************************************************************)
(* The reference: Algorithm 4 of the HNSW paper, over the sorted           *)
(* candidates, without any flag.                                           *)
(***************************************************************************)

\* The one set whose members are just the candidates that are nearer to the list's
\* own element than to each member before them.
Diverse(S) ==
  CHOOSE R \in SUBSET S : \A e \in S :
    e \in R <=> \A o \in R : CompareCandidateDistances(o, e) => Between(e, o) > Distance(e)

\* The n first of S.
NearestFew(S, n) ==
  {e \in S : Cardinality({o \in S : CompareCandidateDistances(o, e)}) < n}

\* Diverse elements first, and the nearest of the others if there is room.
KeptOf(S) ==
  LET R == NearestFew(Diverse(S), Lm) IN R \union NearestFew(S \ R, Lm - Cardinality(R))

\* No element has connected that the list named already: in a serial build none can.
EachOnce == shared => ~again

\* A flag that will be read again is what computing it afresh would give, whatever
\* was added to the list, removed from it or pruned at once since it was computed:
\* always in a serial build, and in a parallel one while EachOnce.
FlagsFresh ==
  closerSet /\ EachOnce =>
    \A k \in DOMAIN items : items[k] <=> k \in Diverse(DOMAIN items)

\* With the flags, HnswUpdateConnection keeps exactly what Algorithm 4 keeps: always
\* in a serial build, and in a parallel one while EachOnce.
KeepsReference ==
  [][\A e \in todo \ todo' :
       inserted /\ EachOnce' /\ Cardinality(DOMAIN items) = Lm =>
         DOMAIN items' = KeptOf(DOMAIN items \union {Connected(e)})]_vars

\* A list never loses its nearest neighbor: of what it names and what connects to it,
\* Algorithm 4 keeps the nearest first. (SelectNeighbors does not, once an element has
\* connected that the list named already: the first candidate in the array with the
\* same element is replaced, which may be one with a right flag.)
NearestStays ==
  [][\A e \in todo \ todo' : inserted =>
       \E k \in DOMAIN items' :
         \A l \in DOMAIN items \union {Connected(e)} : Distance(k) <= Distance(l)]_vars
=============================================================================
