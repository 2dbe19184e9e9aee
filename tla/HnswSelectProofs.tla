-------------------------- MODULE HnswSelectProofs --------------------------
(***************************************************************************)
(* Proofs that SelectNeighbors with its closer flags keeps what Algorithm  *)
(* 4 of the HNSW paper keeps, and that the flags it leaves are right       *)
(* (HnswSelect): first the order of candidates and the set Diverse, then   *)
(* the loop, then what it selects, then the actions.                       *)
(***************************************************************************)
EXTENDS HnswSelect, NatSetInduction, FiniteSetTheorems

\* The vectors of the elements.
PointOK == point \in [Elements -> Points]

LEMMA CandidateFields ==
  ASSUME NEW a \in Candidates
  PROVE  a.element \in Elements /\ a.chosen \in BOOLEAN /\ a = [element |-> a.element, chosen |-> a.chosen]
BY DEF Candidates

LEMMA CandidateFacts ==
  ASSUME PointOK, NEW a \in Candidates, NEW b \in Candidates
  PROVE  a.element \in Nat /\ Distance(a) \in Nat /\ Between(a, b) \in Nat
<1>1. a.element \in Elements /\ b.element \in Elements
  BY CandidateFields
<1>2. point[a.element] \in Points /\ point[b.element] \in Points
  BY <1>1 DEF PointOK
<1>3. QED
  BY <1>1, <1>2, SelectConstants DEF Distance, Between

\* Nearest first is an order.
LEMMA NearerOrder ==
  ASSUME PointOK, NEW a \in Candidates, NEW b \in Candidates, NEW d \in Candidates
  PROVE  /\ ~CompareCandidateDistances(a, a)
         /\ CompareCandidateDistances(a, b) => ~CompareCandidateDistances(b, a)
         /\ CompareCandidateDistances(a, b) /\ CompareCandidateDistances(b, d)
              => CompareCandidateDistances(a, d)
<1>1. /\ a.element \in Nat /\ b.element \in Nat /\ d.element \in Nat
      /\ Distance(a) \in Nat /\ Distance(b) \in Nat /\ Distance(d) \in Nat
  BY CandidateFacts
<1>2. QED
  BY <1>1 DEF CompareCandidateDistances

\* A set of candidates that is not empty has a nearest one.
LEMMA NearestExists ==
  ASSUME PointOK, NEW T \in SUBSET Candidates, T # {}
  PROVE  \E d \in T : \A o \in T : ~CompareCandidateDistances(o, d)
<1>1. \A o \in T : o.element \in Nat /\ Distance(o) \in Nat
  BY CandidateFacts
<1> DEFINE A == {Distance(o) : o \in T}
<1>2. PICK m \in A : \A y \in A : m <= y
  <2>1. A \in SUBSET Nat /\ A # {}
    BY <1>1
  <2> HIDE DEF A
  <2>2. QED
    BY <2>1, LeastElement
<1> DEFINE B == {o.element : o \in {k \in T : Distance(k) = m}}
<1>3. PICK d \in T : Distance(d) = m /\ \A y \in B : d.element <= y
  <2>1. B \in SUBSET Nat /\ B # {}
    BY <1>1, <1>2
  <2>2. PICK x \in B : \A y \in B : x <= y
    <3> HIDE DEF B
    <3>1. QED
      BY <2>1, LeastElement
  <2>3. QED
    BY <2>2
<1>4. ASSUME NEW o \in T, CompareCandidateDistances(o, d) PROVE FALSE
  <2>1. m <= Distance(o)
    BY <1>2
  <2>2. Distance(o) = m /\ o.element < d.element
    BY <1>1, <1>3, <1>4, <2>1 DEF CompareCandidateDistances
  <2>3. d.element <= o.element
    BY <1>3, <2>2
  <2>4. QED
    BY <1>1, <2>2, <2>3
<1>5. QED
  BY <1>3, <1>4
-----------------------------------------------------------------------------
(***************************************************************************)
(* Diverse.                                                                *)
(***************************************************************************)

\* e is nearer to the list's own element than to each member of R before it.
Closer(e, R) == \A o \in R : CompareCandidateDistances(o, e) => Between(e, o) > Distance(e)

IsDiverse(S, R) == R \subseteq S /\ \A e \in S : e \in R <=> Closer(e, R)

LEMMA CloserSame ==
  ASSUME NEW e, NEW R, NEW Q,
         \A o \in R \union Q : CompareCandidateDistances(o, e) => (o \in R <=> o \in Q)
  PROVE  Closer(e, R) <=> Closer(e, Q)
BY DEF Closer

\* There is one such set at most: take the nearest candidate on which two differ.
LEMMA DiverseUnique ==
  ASSUME PointOK, NEW S \in SUBSET Candidates, NEW R, NEW Q, IsDiverse(S, R), IsDiverse(S, Q)
  PROVE  R = Q
<1> DEFINE T == {e \in S : e \in R /\ e \notin Q} \union {e \in S : e \in Q /\ e \notin R}
<1>1. R \subseteq S /\ Q \subseteq S
  BY DEF IsDiverse
<1>2. SUFFICES ASSUME T # {} PROVE FALSE
  BY <1>1
<1>3. PICK d \in T : \A o \in T : ~CompareCandidateDistances(o, d)
  BY <1>2, NearestExists
<1>4. \A o \in R \union Q : CompareCandidateDistances(o, d) => (o \in R <=> o \in Q)
  BY <1>1, <1>3
<1>5. Closer(d, R) <=> Closer(d, Q)
  BY <1>4, CloserSame
<1>6. d \in S /\ (d \in R <=> d \notin Q)
  BY <1>3
<1>7. QED
  BY <1>5, <1>6 DEF IsDiverse

\* The candidates S, the first n of which are s[1] to s[n].
NearestFirst(s, S) ==
  /\ S \subseteq Candidates /\ IsFiniteSet(S)
  /\ s \in [1..Cardinality(S) -> S]
  /\ \A e \in S : \E i \in DOMAIN s : s[i] = e
  /\ \A i, j \in DOMAIN s : i < j => CompareCandidateDistances(s[i], s[j])

\* There is one in a set that can be sorted: take its elements in their order.
LEMMA DiverseExists ==
  ASSUME PointOK, NEW c, NEW s, NearestFirst(s, c), NEW S \in SUBSET c
  PROVE  \E R : IsDiverse(S, R)
<1> DEFINE First(n) == {e \in S : \E i \in 1..n : s[i] = e}
           T == {n \in Nat : n <= Cardinality(c) => \E R : IsDiverse(First(n), R)}
<1>0. Cardinality(c) \in Nat /\ DOMAIN s = 1..Cardinality(c) /\ S \subseteq Candidates
  BY FS_CardinalityType DEF NearestFirst
<1>1. 0 \in T
  <2>1. First(0) = {}
    OBVIOUS
  <2>2. IsDiverse({}, {})
    BY DEF IsDiverse
  <2> HIDE DEF First
  <2>3. QED
    BY <2>1, <2>2
<1>2. ASSUME NEW n \in Nat, n \in T PROVE n + 1 \in T
  <2>1. SUFFICES ASSUME n + 1 <= Cardinality(c) PROVE \E R : IsDiverse(First(n + 1), R)
    <3> HIDE DEF First
    <3>1. QED
      OBVIOUS
  <2>2. PICK R : IsDiverse(First(n), R)
    <3>1. n <= Cardinality(c)
      BY <1>0, <2>1
    <3> HIDE DEF First
    <3>2. QED
      BY <1>2, <3>1
  <2> DEFINE x == s[n + 1]
  <2>3. n + 1 \in DOMAIN s /\ x \in c /\ x \in Candidates
    BY <1>0, <2>1 DEF NearestFirst
  <2>4. \A o \in First(n) : CompareCandidateDistances(o, x) /\ o \in Candidates
    <3>1. ASSUME NEW i \in 1..n PROVE CompareCandidateDistances(s[i], x)
      <4>1. i \in DOMAIN s /\ i < n + 1
        BY <1>0, <2>1
      <4>2. QED
        BY <2>3, <4>1 DEF NearestFirst
    <3>2. QED
      BY <1>0, <3>1
  <2>5. First(n + 1) = First(n) \union (S \intersect {x})
    OBVIOUS
  <2>6. \A o \in First(n) : ~CompareCandidateDistances(x, o)
    BY <2>3, <2>4, NearerOrder
  <2>7. ~CompareCandidateDistances(x, x) /\ x \notin First(n)
    BY <2>3, <2>4, NearerOrder
  <2>8. R \subseteq First(n)
    BY <2>2 DEF IsDiverse
  <2>9. ASSUME NEW Q, Q = R \/ Q = R \union {x}, NEW e, e \in First(n) PROVE e \in Q <=> Closer(e, Q)
    <3>1. Closer(e, R) <=> Closer(e, Q)
      BY <2>6, <2>9, CloserSame
    <3>2. QED
      BY <2>2, <2>7, <2>9, <3>1 DEF IsDiverse
  <2> HIDE DEF First, x
  <2>10. CASE x \notin S
    BY <2>2, <2>5, <2>10
  <2>11. CASE x \in S /\ Closer(x, R)
    <3> DEFINE Q == R \union {x}
    <3>1. Closer(x, Q)
      BY <2>7, <2>11, CloserSame
    <3>2. IsDiverse(First(n + 1), Q)
      BY <2>5, <2>8, <2>9, <2>11, <3>1 DEF IsDiverse
    <3>3. QED
      BY <3>2
  <2>12. CASE x \in S /\ ~Closer(x, R)
    <3>1. IsDiverse(First(n + 1), R)
      BY <2>5, <2>7, <2>8, <2>9, <2>12 DEF IsDiverse
    <3>2. QED
      BY <3>1
  <2>13. QED
    BY <2>10, <2>11, <2>12
<1>3. \E R : IsDiverse(First(Cardinality(c)), R)
  <2> HIDE DEF First
  <2>1. T \in SUBSET Nat
    OBVIOUS
  <2>2. \A n \in Nat : n \in T
    <3> HIDE DEF T
    <3>1. QED
      BY <1>1, <1>2, <2>1, SetInduction
  <2>3. QED
    BY <1>0, <2>2
<1>4. First(Cardinality(c)) = S
  BY <1>0 DEF NearestFirst
<1>5. QED
  BY <1>3, <1>4

\* So Diverse is it.
LEMMA DiverseIs ==
  ASSUME PointOK, NEW S \in SUBSET Candidates, \E R : IsDiverse(S, R)
  PROVE  IsDiverse(S, Diverse(S))
<1>1. \E R \in SUBSET S : \A e \in S :
        e \in R <=> \A o \in R : CompareCandidateDistances(o, e) => Between(e, o) > Distance(e)
  BY DEF IsDiverse, Closer
<1>2. QED
  BY <1>1 DEF Diverse, IsDiverse, Closer
-----------------------------------------------------------------------------
(***************************************************************************)
(* The loop, a recursive function over the positions of the candidates.    *)
(***************************************************************************)
LoopState(c) == [r : Seq(c), wd : Seq(c), w : Seq(c), added : Seq(c), removedAny : BOOLEAN,
                 flag : [c -> BOOLEAN]]

\* u[n] is the state after n turns.
Turns(s, flag, must, new, u) ==
  /\ u[0] = Start(flag)
  /\ \A n \in 1..Len(s) : u[n] = Turn(u[n - 1], s[n], must, new)

LEMMA LoopIs ==
  ASSUME NEW s, NEW flag, NEW must, NEW new
  PROVE  Loop(s, flag, must, new) =
           (CHOOSE f : f = [n \in 0..Len(s) |->
              IF n = 0 THEN Start(flag) ELSE Turn(f[n - 1], s[n], must, new)])[Len(s)]
BY DEF Loop

LEMMA LoopTurns ==
  ASSUME NEW s, Len(s) \in Nat, NEW flag, NEW must, NEW new
  PROVE  \E u : Turns(s, flag, must, new, u) /\ Loop(s, flag, must, new) = u[Len(s)]
<1> DEFINE Upto(n, g) == /\ g = [i \in 0..n |-> g[i]]
                         /\ g[0] = Start(flag)
                         /\ \A i \in 1..n : g[i] = Turn(g[i - 1], s[i], must, new)
           T == {n \in Nat : \E g : Upto(n, g)}
<1>1. 0 \in T
  <2>1. Upto(0, [i \in 0..0 |-> Start(flag)])
    OBVIOUS
  <2> HIDE DEF Upto
  <2>2. QED
    BY <2>1
<1>2. ASSUME NEW n \in Nat, n \in T PROVE n + 1 \in T
  <2>1. PICK g : Upto(n, g)
    <3> HIDE DEF Upto
    <3>1. QED
      BY <1>2
  <2> DEFINE x == Turn(g[n], s[n + 1], must, new)
             h == [i \in 0..(n + 1) |-> IF i <= n THEN g[i] ELSE x]
  <2>2. h[n + 1] = x /\ \A i \in 0..n : h[i] = g[i]
    OBVIOUS
  <2>3. h = [i \in 0..(n + 1) |-> h[i]]
    OBVIOUS
  <2> HIDE DEF h
  <2>4. ASSUME NEW i \in 1..(n + 1) PROVE h[i] = Turn(h[i - 1], s[i], must, new)
    <3>1. CASE i <= n
      <4>1. i \in 1..n /\ i - 1 \in 0..n /\ i \in 0..n
        BY <3>1
      <4>2. h[i] = g[i] /\ h[i - 1] = g[i - 1]
        BY <2>2, <4>1
      <4>3. g[i] = Turn(g[i - 1], s[i], must, new)
        BY <2>1, <4>1
      <4>4. QED
        BY <4>2, <4>3
    <3>2. CASE i = n + 1
      <4>1. i - 1 = n /\ n \in 0..n
        BY <3>2
      <4>2. h[i - 1] = g[n] /\ h[i] = x
        BY <2>2, <3>2, <4>1
      <4>3. QED
        BY <3>2, <4>2
    <3>3. QED
      BY <3>1, <3>2
  <2>5. h[0] = Start(flag)
    <3>1. 0 \in 0..n
      OBVIOUS
    <3>2. QED
      BY <2>1, <2>2, <3>1
  <2>6. Upto(n + 1, h)
    BY <2>3, <2>4, <2>5
  <2> HIDE DEF Upto
  <2>7. QED
    BY <2>6
<1>3. PICK g : Upto(Len(s), g)
  <2>1. T \in SUBSET Nat
    OBVIOUS
  <2>2. \A n \in Nat : n \in T
    <3> HIDE DEF T
    <3>1. QED
      BY <1>1, <1>2, <2>1, SetInduction
  <2> HIDE DEF Upto
  <2>3. QED
    BY <2>2
<1> DEFINE Rec(f) == [n \in 0..Len(s) |->
                        IF n = 0 THEN Start(flag) ELSE Turn(f[n - 1], s[n], must, new)]
           upto   == CHOOSE f : f = Rec(f)
<1>4. g = Rec(g)
  <2>1. g = [i \in 0..Len(s) |-> g[i]]
    BY <1>3
  <2>2. \A i \in 0..Len(s) : g[i] = IF i = 0 THEN Start(flag) ELSE Turn(g[i - 1], s[i], must, new)
    BY <1>3
  <2>3. QED
    BY <2>1, <2>2
<1>5. upto = Rec(upto)
  <2> HIDE DEF Rec
  <2>1. QED
    BY <1>4
<1>6. Loop(s, flag, must, new) = upto[Len(s)]
  BY LoopIs
<1> HIDE DEF upto
<1>7. upto[0] = Start(flag)
  <2>1. 0 \in 0..Len(s)
    OBVIOUS
  <2>2. QED
    BY <1>5, <2>1
<1>8. \A n \in 1..Len(s) : upto[n] = Turn(upto[n - 1], s[n], must, new)
  <2>1. ASSUME NEW n \in 1..Len(s) PROVE n \in 0..Len(s) /\ n # 0
    OBVIOUS
  <2>2. QED
    BY <1>5, <2>1
<1>9. QED
  BY <1>6, <1>7, <1>8 DEF Turns

LEMMA StartState ==
  ASSUME NEW c, NEW flag \in [c -> BOOLEAN]
  PROVE  /\ Start(flag) \in LoopState(c) /\ ~Start(flag).removedAny /\ Start(flag).flag = flag
         /\ Start(flag).r = <<>> /\ Start(flag).wd = <<>> /\ Start(flag).w = <<>>
         /\ Start(flag).added = <<>>
BY DEF Start, LoopState

LEMMA StateFields ==
  ASSUME NEW c, NEW a \in LoopState(c)
  PROVE  /\ a.r \in Seq(c) /\ a.wd \in Seq(c) /\ a.w \in Seq(c) /\ a.added \in Seq(c)
         /\ a.removedAny \in BOOLEAN /\ a.flag \in [c -> BOOLEAN]
BY DEF LoopState

\* r is full: the candidate stays in w.
LEMMA TurnFull ==
  ASSUME NEW c, NEW a \in LoopState(c), NEW x \in c, NEW must, NEW new, Len(a.r) >= Lm,
         NEW b, b = Turn(a, x, must, new)
  PROVE  /\ b \in LoopState(c) /\ b.r = a.r /\ b.wd = a.wd /\ b.w = Append(a.w, x)
         /\ b.added = a.added /\ b.removedAny = a.removedAny /\ b.flag = a.flag
<1>1. b = [a EXCEPT !.w = Append(a.w, x)]
  BY DEF Turn
<1>2. Append(a.w, x) \in Seq(c)
  BY StateFields
<1> DEFINE q == Append(a.w, x)
<1>3. q \in Seq(c) /\ b = [a EXCEPT !.w = q]
  BY <1>1, <1>2
<1> HIDE DEF q
<1>4. /\ b \in LoopState(c) /\ b.r = a.r /\ b.wd = a.wd /\ b.w = q
      /\ b.added = a.added /\ b.removedAny = a.removedAny /\ b.flag = a.flag
  BY <1>3 DEF LoopState
<1>5. QED
  BY <1>4 DEF q

\* Otherwise it is judged.
LEMMA TurnJudged ==
  ASSUME NEW c, NEW a \in LoopState(c), NEW x \in c, NEW must, NEW new, ~(Len(a.r) >= Lm),
         NEW j, j = Judge(a, x, must, new), j.closer \in BOOLEAN, j.added \in Seq(c),
         NEW b, b = Turn(a, x, must, new)
  PROVE  /\ b \in LoopState(c) /\ b.w = a.w /\ b.added = j.added
         /\ j.closer  => b.r = Append(a.r, x) /\ b.wd = a.wd
         /\ ~j.closer => b.r = a.r /\ b.wd = Append(a.wd, x)
         /\ b.removedAny = (a.removedAny \/ (~must /\ a.added # <<>> /\ a.flag[x] /\ ~j.closer))
         /\ b.flag[x] = j.closer /\ \A o \in c \ {x} : b.flag[o] = a.flag[o]
<1> DEFINE r == IF j.closer THEN Append(a.r, x) ELSE a.r
           d == IF j.closer THEN a.wd ELSE Append(a.wd, x)
           m == a.removedAny \/ (~must /\ a.added # <<>> /\ a.flag[x] /\ ~j.closer)
           k == j.closer
           g == j.added
<1>1. b = [a EXCEPT !.r = r, !.wd = d, !.added = g, !.removedAny = m, !.flag[x] = k]
  BY DEF Turn
<1>2. r \in Seq(c) /\ d \in Seq(c) /\ m \in BOOLEAN /\ k \in BOOLEAN /\ g \in Seq(c)
  BY StateFields
<1>3. j.closer  => r = Append(a.r, x) /\ d = a.wd
  OBVIOUS
<1>4. ~j.closer => r = a.r /\ d = Append(a.wd, x)
  OBVIOUS
<1> HIDE DEF r, d, m, k, g
<1>5. /\ b \in LoopState(c) /\ b.w = a.w /\ b.added = g /\ b.r = r /\ b.wd = d
      /\ b.removedAny = m /\ b.flag = [a.flag EXCEPT ![x] = k]
  <2> DEFINE f == [a.flag EXCEPT ![x] = k]
  <2>1. f \in [c -> BOOLEAN]
    BY <1>2, StateFields
  <2>2. b = [r |-> r, wd |-> d, w |-> a.w, added |-> g, removedAny |-> m, flag |-> f]
    BY <1>1 DEF LoopState
  <2>3. a.w \in Seq(c)
    BY StateFields
  <2> HIDE DEF f
  <2>4. /\ b \in LoopState(c) /\ b.w = a.w /\ b.added = g /\ b.r = r /\ b.wd = d
        /\ b.removedAny = m /\ b.flag = f
    BY <1>2, <2>1, <2>2, <2>3 DEF LoopState
  <2>5. QED
    BY <2>4 DEF f
<1>6. b.flag[x] = k /\ \A o \in c \ {x} : b.flag[o] = a.flag[o]
  BY <1>5, StateFields
<1>7. QED
  BY <1>3, <1>4, <1>5, <1>6 DEF m, k, g

\* What it decides of x, r or added has the right type.
LEMMA JudgeType ==
  ASSUME NEW c, NEW a \in LoopState(c), NEW x \in c, NEW must \in BOOLEAN, NEW new,
         NEW j, j = Judge(a, x, must, new)
  PROVE  j.closer \in BOOLEAN /\ j.added \in Seq(c)
<1>1. /\ a.r \in Seq(c) /\ a.added \in Seq(c) /\ a.flag[x] \in BOOLEAN
      /\ Append(a.added, x) \in Seq(c) /\ <<x>> \in Seq(c) /\ <<>> \in Seq(c)
  BY StateFields
<1>2. \A q : CheckElementCloser(x, q) \in BOOLEAN
  BY DEF CheckElementCloser
<1>3. CASE must
  BY <1>1, <1>2, <1>3 DEF Judge
<1>4. CASE ~must /\ a.added # <<>> /\ a.flag[x]
  BY <1>1, <1>2, <1>4 DEF Judge
<1>5. CASE ~must /\ a.added # <<>> /\ ~a.flag[x]
  <2> DEFINE closer == IF a.removedAny THEN CheckElementCloser(x, a.r) ELSE FALSE
             k == IF closer THEN Append(a.added, x) ELSE a.added
  <2>1. j = MaybeCloser(a, x)
    BY <1>5 DEF Judge
  <2>2. j = [closer |-> closer, added |-> k]
    BY <2>1 DEF MaybeCloser
  <2>3. closer \in BOOLEAN /\ k \in Seq(c)
    BY <1>1, <1>2
  <2> HIDE DEF closer, k
  <2>4. QED
    BY <2>2, <2>3
<1>6. CASE ~must /\ a.added = <<>> /\ x = new
  <2> DEFINE closer == CheckElementCloser(x, a.r)
             k == IF closer THEN <<x>> ELSE <<>>
  <2>1. j = [closer |-> closer, added |-> k]
    BY <1>6 DEF Judge
  <2>2. closer \in BOOLEAN /\ k \in Seq(c)
    BY <1>1, <1>2
  <2> HIDE DEF closer, k
  <2>3. QED
    BY <2>1, <2>2
<1>7. CASE ~must /\ a.added = <<>> /\ x # new
  <2>1. j = [closer |-> a.flag[x], added |-> a.added]
    BY <1>7 DEF Judge
  <2>2. QED
    BY <1>1, <2>1
<1>8. QED
  BY <1>1, <1>3, <1>4, <1>5, <1>6, <1>7
-----------------------------------------------------------------------------
(***************************************************************************)
(* What a turn decides.                                                    *)
(***************************************************************************)
LEMMA SeqSet ==
  ASSUME NEW c, NEW q \in Seq(c)
  PROVE  /\ q = <<>> <=> ToSet(q) = {}
         /\ ToSet(q) \subseteq c
<1>1. Len(q) \in Nat /\ DOMAIN q = 1..Len(q) /\ \A i \in 1..Len(q) : q[i] \in c
  OBVIOUS
<1>2. CASE q = <<>>
  BY <1>2 DEF ToSet
<1>3. CASE q # <<>>
  <2>1. Len(q) # 0
    BY <1>3
  <2>2. q[1] \in ToSet(q)
    BY <1>1, <2>1 DEF ToSet
  <2>3. QED
    BY <1>1, <1>3, <2>2 DEF ToSet
<1>4. QED
  BY <1>2, <1>3

LEMMA AppendSet ==
  ASSUME NEW c, NEW q \in Seq(c), NEW x \in c
  PROVE  ToSet(Append(q, x)) = ToSet(q) \union {x}
<1> DEFINE p == Append(q, x)
<1>1. /\ Len(q) \in Nat /\ DOMAIN q = 1..Len(q) /\ DOMAIN p = 1..(Len(q) + 1)
      /\ p[Len(q) + 1] = x /\ \A i \in 1..Len(q) : p[i] = q[i]
  OBVIOUS
<1> HIDE DEF p
<1>2. ASSUME NEW o \in ToSet(p) PROVE o \in ToSet(q) \union {x}
  <2>1. PICK i \in DOMAIN p : o = p[i]
    BY DEF ToSet
  <2>2. i \in 1..Len(q) \/ i = Len(q) + 1
    BY <1>1
  <2>3. QED
    BY <1>1, <2>1, <2>2 DEF ToSet
<1>3. x \in ToSet(p)
  BY <1>1 DEF ToSet
<1>4. ASSUME NEW o \in ToSet(q) PROVE o \in ToSet(p)
  <2>1. PICK i \in DOMAIN q : o = q[i]
    BY DEF ToSet
  <2>2. i \in DOMAIN p /\ p[i] = o
    BY <1>1, <2>1
  <2>3. QED
    BY <2>2 DEF ToSet
<1>5. ToSet(p) = ToSet(q) \union {x}
  BY <1>2, <1>3, <1>4
<1>6. QED
  BY <1>5 DEF p

LEMMA CheckSet ==
  ASSUME NEW x, NEW q
  PROVE  CheckElementCloser(x, q) <=> \A o \in ToSet(q) : Between(x, o) > Distance(x)
BY DEF CheckElementCloser, ToSet

\* P is what is diverse without e: added has all of r that is not in P, and while
\* removedAny is FALSE nothing in wd was in P.
Reused(a, e, P) ==
  /\ ToSet(a.added) \subseteq ToSet(a.r) /\ ToSet(a.r) \ ToSet(a.added) \subseteq P
  /\ a.removedAny \/ (ToSet(a.wd) \intersect P = {})
  /\ IF a.added = <<>> THEN ~a.removedAny ELSE e \in ToSet(a.added)

\* Is x added to added, if it is closer?
Adds(a, x, e) == (a.added = <<>> /\ x = e) \/ (a.added # <<>> /\ ~a.flag[x])

\* x is the next candidate of c, and r is what is diverse among those before it.
Ready(c, D, a, x) ==
  /\ IsDiverse(c, D) /\ ToSet(a.r) \subseteq D /\ ToSet(a.wd) \intersect D = {}
  /\ \A o \in c : CompareCandidateDistances(o, x) <=> o \in ToSet(a.r) \union ToSet(a.wd)

\* The flag of x can be reused.
Reusable(c, P, a, x, e) ==
  /\ e \in c /\ IsDiverse(c \ {e}, P) /\ Reused(a, e, P)
  /\ x # e => (a.flag[x] <=> x \in P)

\* Comparing x with r tells whether it is diverse.
LEMMA CheckRight ==
  ASSUME PointOK, NEW c \in SUBSET Candidates, NEW a \in LoopState(c), NEW x \in c, NEW D,
         Ready(c, D, a, x)
  PROVE  /\ x \in D <=> \A o \in ToSet(a.r) : Between(x, o) > Distance(x)
         /\ CheckElementCloser(x, a.r) <=> x \in D
<1> DEFINE R == ToSet(a.r)
           W == ToSet(a.wd)
<1>0. /\ IsDiverse(c, D) /\ R \subseteq D /\ W \intersect D = {}
      /\ \A o \in c : CompareCandidateDistances(o, x) <=> o \in R \union W
  BY DEF Ready
<1>1. R \subseteq c /\ W \subseteq c
  <2>1. a.r \in Seq(c) /\ a.wd \in Seq(c)
    BY StateFields
  <2>2. QED
    BY <2>1, SeqSet
<1>2. x \in Candidates /\ ~CompareCandidateDistances(x, x) /\ x \notin R /\ x \notin W /\ D \subseteq c
  <2>1. x \in Candidates
    OBVIOUS
  <2>2. ~CompareCandidateDistances(x, x)
    BY <2>1, NearerOrder
  <2>3. QED
    BY <1>0, <2>1, <2>2 DEF IsDiverse
<1>3. D \intersect (R \union W) = R
  BY <1>0, <1>1
<1>4. x \in D <=> \A o \in R : Between(x, o) > Distance(x)
  BY <1>0, <1>1, <1>2, <1>3 DEF IsDiverse, Closer
<1>5. CheckElementCloser(x, a.r) <=> x \in D
  BY <1>4, CheckSet
<1>6. QED
  BY <1>4, <1>5

\* x is judged closer just if it is diverse, whether its flag is read or not.
LEMMA JudgeRight ==
  ASSUME PointOK, NEW c \in SUBSET Candidates, NEW a \in LoopState(c), NEW x \in c,
         NEW must \in BOOLEAN, NEW e, NEW D, NEW P,
         Ready(c, D, a, x), ~must => Reusable(c, P, a, x, e),
         NEW j, j = Judge(a, x, must, e)
  PROVE  /\ j.closer <=> x \in D
         /\ ~must /\ x \in D /\ Adds(a, x, e) => j.added = Append(a.added, x)
         /\ ~must /\ ~(x \in D /\ Adds(a, x, e)) => j.added = a.added
         /\ ~must /\ a.added = <<>> /\ x # e => (x \in D <=> x \in P)
<1> DEFINE R == ToSet(a.r)
           W == ToSet(a.wd)
           A == ToSet(a.added)
<1>0. /\ IsDiverse(c, D) /\ R \subseteq D /\ W \intersect D = {}
      /\ \A o \in c : CompareCandidateDistances(o, x) <=> o \in R \union W
  BY DEF Ready
<1>1. R \subseteq c /\ W \subseteq c /\ A \subseteq c /\ (a.added = <<>> <=> A = {})
  <2>1. a.r \in Seq(c) /\ a.wd \in Seq(c) /\ a.added \in Seq(c)
    BY StateFields
  <2>2. QED
    BY <2>1, SeqSet
<1>2. x \notin R
  <2>1. x \in Candidates
    OBVIOUS
  <2>2. ~CompareCandidateDistances(x, x)
    BY <2>1, NearerOrder
  <2>3. QED
    BY <1>0, <2>2
<1>3. x \in D <=> \A o \in R : Between(x, o) > Distance(x)
  BY CheckRight
<1>4. CheckElementCloser(x, a.r) <=> x \in D
  BY CheckRight
<1> DEFINE k == CheckElementCloser(x, a.r)
           h == CheckElementCloser(x, a.added)
<1>5. h <=> \A o \in A : Between(x, o) > Distance(x)
  BY CheckSet
<1>6. CASE must
  <2>1. j = [closer |-> k, added |-> a.added]
    BY <1>6 DEF Judge
  <2> HIDE DEF k
  <2>2. j.closer = k
    BY <2>1
  <2>3. QED
    BY <1>4, <1>6, <2>2 DEF k
<1>7. CASE ~must
  <2>1. /\ A \subseteq R /\ R \ A \subseteq P /\ P \subseteq c \ {e}
        /\ a.removedAny \/ (W \intersect P = {})
        /\ IF a.added = <<>> THEN ~a.removedAny ELSE e \in A
        /\ x # e => (a.flag[x] <=> x \in P)
    BY <1>7 DEF Reusable, Reused, IsDiverse
  <2>2. x # e => (x \in P <=> \A o \in P \intersect (R \union W) : Between(x, o) > Distance(x))
    BY <1>0, <1>1, <1>7, <2>1 DEF Reusable, IsDiverse, Closer
  <2>3. a.added # <<>> => x # e
    BY <1>2, <2>1
  <2>4. CASE a.added # <<>> /\ a.flag[x]
    <3>1. j = [closer |-> h, added |-> a.added]
      BY <1>7, <2>4 DEF Judge
    <3>2. h <=> x \in D
      <4>1. x \in P
        BY <2>1, <2>3, <2>4
      <4>2. \A o \in R \ A : Between(x, o) > Distance(x)
        BY <2>1, <2>2, <2>3, <2>4, <4>1
      <4>3. QED
        BY <1>3, <1>5, <2>1, <4>2
    <3> HIDE DEF h
    <3>3. j.closer = h /\ j.added = a.added
      BY <3>1
    <3>4. QED
      BY <2>4, <3>2, <3>3 DEF Adds
  <2>5. CASE a.added # <<>> /\ ~a.flag[x]
    <3> DEFINE g == IF a.removedAny THEN k ELSE FALSE
               q == IF g THEN Append(a.added, x) ELSE a.added
    <3>1. j = MaybeCloser(a, x)
      BY <1>7, <2>5 DEF Judge
    <3>2. j = [closer |-> g, added |-> q]
      BY <3>1 DEF MaybeCloser
    <3>3. ~a.removedAny => x \notin D
      <4>1. SUFFICES ASSUME ~a.removedAny PROVE x \notin D
        OBVIOUS
      <4>2. x \notin P
        BY <2>1, <2>3, <2>5
      <4>3. PICK o \in P \intersect (R \union W) : ~(Between(x, o) > Distance(x))
        BY <2>2, <2>3, <2>5, <4>2
      <4>4. o \in R
        BY <2>1, <4>1, <4>3
      <4>5. QED
        BY <1>3, <4>3, <4>4
    <3>4. g <=> x \in D
      BY <1>4, <3>3
    <3> HIDE DEF g, q
    <3>5. j.closer = g /\ j.added = q
      BY <3>2
    <3>6. QED
      BY <2>5, <3>4, <3>5 DEF q, Adds
  <2>6. CASE a.added = <<>> /\ x = e
    <3> DEFINE q == IF k THEN <<x>> ELSE <<>>
    <3>1. j = [closer |-> k, added |-> q]
      BY <1>7, <2>6 DEF Judge
    <3>2. <<x>> = Append(a.added, x)
      BY <2>6
    <3> HIDE DEF k, q
    <3>3. j.closer = k /\ j.added = q
      BY <3>1
    <3>4. QED
      BY <1>4, <2>6, <3>2, <3>3 DEF k, q, Adds
  <2>7. CASE a.added = <<>> /\ x # e
    <3>1. j = [closer |-> a.flag[x], added |-> a.added]
      BY <1>7, <2>7 DEF Judge
    <3>2. P \intersect (R \union W) = R
      BY <1>1, <2>1, <2>7
    <3>3. x \in P <=> x \in D
      BY <1>3, <2>2, <2>7, <3>2
    <3>4. j.closer = a.flag[x] /\ j.added = a.added
      BY <3>1
    <3>5. QED
      BY <2>1, <2>7, <3>3, <3>4 DEF Adds
  <2>8. QED
    BY <2>4, <2>5, <2>6, <2>7
<1>8. QED
  BY <1>6, <1>7

LEMMA TurnReused ==
  ASSUME PointOK, NEW c \in SUBSET Candidates, NEW a \in LoopState(c), NEW x \in c, ~(Len(a.r) >= Lm),
         NEW must \in BOOLEAN, ~must, NEW e, NEW D, NEW P,
         Ready(c, D, a, x), Reusable(c, P, a, x, e),
         NEW b, b = Turn(a, x, must, e)
  PROVE  Reused(b, e, P)
<1>1. PICK j : j = Judge(a, x, must, e)
  OBVIOUS
<1>2. /\ j.closer <=> x \in D
      /\ x \in D /\ Adds(a, x, e) => j.added = Append(a.added, x)
      /\ ~(x \in D /\ Adds(a, x, e)) => j.added = a.added
      /\ a.added = <<>> /\ x # e => (x \in D <=> x \in P)
  BY <1>1, JudgeRight
<1>3. j.closer \in BOOLEAN /\ j.added \in Seq(c)
  BY <1>1, JudgeType
<1>4. /\ b.added = j.added
      /\ x \in D => b.r = Append(a.r, x) /\ b.wd = a.wd
      /\ x \notin D => b.r = a.r /\ b.wd = Append(a.wd, x)
      /\ b.removedAny = (a.removedAny \/ (a.added # <<>> /\ a.flag[x] /\ x \notin D))
  <2>1. /\ b.added = j.added
        /\ j.closer  => b.r = Append(a.r, x) /\ b.wd = a.wd
        /\ ~j.closer => b.r = a.r /\ b.wd = Append(a.wd, x)
        /\ b.removedAny = (a.removedAny \/ (~must /\ a.added # <<>> /\ a.flag[x] /\ ~j.closer))
    BY <1>1, <1>3, TurnJudged
  <2>2. QED
    BY <1>2, <2>1
<1> DEFINE R  == ToSet(a.r)
           W  == ToSet(a.wd)
           A  == ToSet(a.added)
           Rb == ToSet(b.r)
           Wb == ToSet(b.wd)
           Ab == ToSet(b.added)
           f  == a.flag[x]
<1>5. /\ ToSet(Append(a.r, x)) = R \union {x} /\ ToSet(Append(a.wd, x)) = W \union {x}
      /\ ToSet(Append(a.added, x)) = A \union {x} /\ (a.added = <<>> <=> A = {})
  <2>1. a.r \in Seq(c) /\ a.wd \in Seq(c) /\ a.added \in Seq(c)
    BY StateFields
  <2>2. ToSet(Append(a.r, x)) = R \union {x}
    BY <2>1, AppendSet
  <2>3. ToSet(Append(a.wd, x)) = W \union {x}
    BY <2>1, AppendSet
  <2>4. ToSet(Append(a.added, x)) = A \union {x}
    BY <2>1, AppendSet
  <2>5. a.added = <<>> <=> A = {}
    BY <2>1, SeqSet
  <2>6. QED
    BY <2>2, <2>3, <2>4, <2>5
<1>6. /\ x \in D => Rb = R \union {x} /\ Wb = W
      /\ x \notin D => Rb = R /\ Wb = W \union {x}
      /\ x \in D /\ Adds(a, x, e) => Ab = A \union {x}
      /\ ~(x \in D /\ Adds(a, x, e)) => Ab = A
  BY <1>2, <1>4, <1>5
<1>7. x \notin R
  <2>1. x \in Candidates /\ ~CompareCandidateDistances(x, x)
    BY NearerOrder
  <2>2. QED
    BY <2>1 DEF Ready, IsDiverse
<1>8. /\ A \subseteq R /\ R \ A \subseteq P /\ e \notin P
      /\ a.removedAny \/ (W \intersect P = {})
      /\ a.added = <<>> => ~a.removedAny
      /\ a.added # <<>> => e \in A
  BY DEF Reusable, Reused, IsDiverse
<1>9. a.added # <<>> => x # e /\ (f <=> x \in P)
  BY <1>7, <1>8 DEF Reusable
<1>10. b.added = <<>> => a.added = <<>> /\ ~(x \in D /\ x = e)
  <2>1. Append(a.added, x) # <<>>
    <3>1. a.added \in Seq(c)
      BY StateFields
    <3>2. Append(a.added, x) \in Seq(c)
      BY <3>1
    <3>3. x \in ToSet(Append(a.added, x))
      BY <1>5
    <3>4. QED
      BY <3>2, <3>3, SeqSet
  <2>2. QED
    <3>1. CASE x \in D /\ Adds(a, x, e)
      BY <1>2, <1>4, <2>1, <3>1
    <3>2. CASE ~(x \in D /\ Adds(a, x, e))
      <4>1. b.added = a.added
        BY <1>2, <1>4, <3>2
      <4>2. a.added = <<>> /\ x = e => Adds(a, x, e)
        BY DEF Adds
      <4>3. QED
        BY <3>2, <4>1, <4>2
    <3>3. QED
      BY <3>1, <3>2
<1>11. b.removedAny = (a.removedAny \/ (a.added # <<>> /\ f /\ x \notin D))
  BY <1>4
<1>12. Adds(a, x, e) <=> (a.added = <<>> /\ x = e) \/ (a.added # <<>> /\ ~f)
  BY DEF Adds
<1> HIDE DEF R, W, A, Rb, Wb, Ab, f
<1>13. Ab \subseteq Rb
  BY <1>6, <1>8
<1>14. Rb \ Ab \subseteq P
  <2>1. CASE x \in D /\ Adds(a, x, e)
    BY <1>6, <1>8, <2>1
  <2>2. CASE x \in D /\ ~Adds(a, x, e)
    <3>1. x \in P
      BY <1>2, <1>9, <1>12, <2>2
    <3>2. QED
      BY <1>6, <1>8, <2>2, <3>1
  <2>3. CASE x \notin D
    BY <1>6, <1>8, <2>3
  <2>4. QED
    BY <2>1, <2>2, <2>3
<1>15. b.removedAny \/ (Wb \intersect P = {})
  <2>1. CASE x \in D \/ x \notin P
    BY <1>6, <1>8, <1>11, <2>1
  <2>2. CASE x \notin D /\ x \in P
    <3>1. x # e /\ a.added # <<>>
      BY <1>2, <1>8, <2>2
    <3>2. QED
      BY <1>9, <1>11, <2>2, <3>1
  <2>3. QED
    BY <2>1, <2>2
<1>16. b.added = <<>> => ~b.removedAny
  BY <1>8, <1>10, <1>11
<1>17. b.added # <<>> => e \in Ab
  <2>1. CASE a.added # <<>>
    BY <1>6, <1>8, <2>1
  <2>2. CASE a.added = <<>> /\ b.added # <<>>
    <3>1. x \in D /\ Adds(a, x, e)
      BY <1>2, <1>4, <2>2
    <3>2. QED
      BY <1>6, <1>12, <2>2, <3>1
  <2>3. QED
    BY <2>1, <2>2
<1>18. QED
  BY <1>13, <1>14, <1>15, <1>16, <1>17 DEF Reused, R, W, A, Rb, Wb, Ab
-----------------------------------------------------------------------------
(***************************************************************************)
(* The loop's invariant: s are the sorted candidates c, D what is diverse  *)
(* among them, n the number of turns.                                      *)
(***************************************************************************)

\* The first k candidates.
Seen(s, k) == {s[i] : i \in 1..k}

\* r and wd are the first candidates, w the rest of those the loop has met: only when r
\* is full.
Shape(s, n, a) ==
  LET k == Len(a.r) + Len(a.wd)
  IN /\ Len(a.r) <= Lm /\ k + Len(a.w) = n
     /\ Len(a.w) > 0 => Len(a.r) = Lm
     /\ \A i \in 1..Len(a.w) : a.w[i] = s[k + i]
     /\ ToSet(a.r) \union ToSet(a.wd) = Seen(s, k)
     /\ \A i, i2 \in 1..Len(a.wd) : i < i2 => CompareCandidateDistances(a.wd[i], a.wd[i2])

\* r is what is diverse of them, and the flags say so.
Exact(D, a, flag) ==
  /\ ToSet(a.r) \subseteq D /\ ToSet(a.wd) \intersect D = {}
  /\ \A o \in DOMAIN a.flag : /\ o \in ToSet(a.r) => a.flag[o]
                              /\ o \in ToSet(a.wd) => ~a.flag[o]
                              /\ o \notin ToSet(a.r) \union ToSet(a.wd) => a.flag[o] = flag[o]

LEMMA SeenNext ==
  ASSUME PointOK, NEW c, NEW s, NearestFirst(s, c), NEW n \in Nat, n < Cardinality(c)
  PROVE  /\ s[n + 1] \in c
         /\ \A o \in c : CompareCandidateDistances(o, s[n + 1]) <=> o \in Seen(s, n)
         /\ Seen(s, n + 1) = Seen(s, n) \union {s[n + 1]}
         /\ \A o \in Seen(s, n) : o \in c
<1> DEFINE x == s[n + 1]
<1>1. Cardinality(c) \in Nat /\ DOMAIN s = 1..Cardinality(c) /\ c \subseteq Candidates
  BY FS_CardinalityType DEF NearestFirst
<1>2. n + 1 \in DOMAIN s /\ \A i \in 1..n : i \in DOMAIN s /\ i < n + 1
  BY <1>1
<1>3. x \in c /\ x \in Candidates /\ \A i \in 1..n : s[i] \in c
  BY <1>1, <1>2 DEF NearestFirst
<1>4. \A o \in Seen(s, n) : o \in c /\ CompareCandidateDistances(o, x)
  BY <1>2, <1>3 DEF Seen, NearestFirst
<1>5. ASSUME NEW o \in c, CompareCandidateDistances(o, x) PROVE o \in Seen(s, n)
  <2>1. PICK i \in DOMAIN s : s[i] = o
    BY DEF NearestFirst
  <2>2. CASE i \in 1..n
    BY <2>1, <2>2 DEF Seen
  <2>3. CASE i = n + 1
    BY <1>3, <1>5, <2>1, <2>3, NearerOrder
  <2>4. CASE n + 1 < i
    <3>1. CompareCandidateDistances(x, o)
      BY <1>2, <2>1, <2>4 DEF NearestFirst
    <3>2. QED
      BY <1>1, <1>3, <1>5, <3>1, NearerOrder
  <2>5. QED
    BY <1>1, <2>2, <2>3, <2>4
<1>6. Seen(s, n + 1) = Seen(s, n) \union {x}
  BY DEF Seen
<1>7. QED
  BY <1>3, <1>4, <1>5, <1>6

\* All of it; P is what is diverse without e, if the flags of the others say it.
LoopInv(s, c, D, P, flag, must, e, n, a) ==
  /\ a \in LoopState(c)
  /\ Shape(s, n, a)
  /\ Exact(D, a, flag)
  /\ ~must => Reused(a, e, P)

\* What the loop is given.
Given(s, c, D, P, flag, must, e) ==
  /\ NearestFirst(s, c) /\ IsDiverse(c, D) /\ flag \in [c -> BOOLEAN] /\ must \in BOOLEAN
  /\ ~must => /\ e \in c /\ IsDiverse(c \ {e}, P)
              /\ \A o \in c : o # e => (flag[o] <=> o \in P)

LEMMA LoopInvStart ==
  ASSUME NEW s, NEW c, NEW D, NEW P, NEW flag, NEW must, NEW e, Given(s, c, D, P, flag, must, e)
  PROVE  LoopInv(s, c, D, P, flag, must, e, 0, Start(flag))
<1> DEFINE a == Start(flag)
<1>1. /\ a \in LoopState(c) /\ ~a.removedAny /\ a.flag = flag
      /\ a.r = <<>> /\ a.wd = <<>> /\ a.w = <<>> /\ a.added = <<>>
  BY StartState DEF Given
<1>2. ToSet(<<>>) = {} /\ Len(<<>>) = 0
  BY DEF ToSet
<1> HIDE DEF a
<1>3. Shape(s, 0, a)
  <2>1. Seen(s, 0 + 0) = {}
    BY DEF Seen
  <2>2. 0 <= Lm
    BY SelectConstants
  <2>3. QED
    BY <1>1, <1>2, <2>1, <2>2 DEF Shape
<1>4. Exact(D, a, flag)
  BY <1>1, <1>2 DEF Exact
<1>5. Reused(a, e, P)
  BY <1>1, <1>2 DEF Reused
<1>6. LoopInv(s, c, D, P, flag, must, e, 0, a)
  BY <1>1, <1>3, <1>4, <1>5 DEF LoopInv
<1>7. QED
  BY <1>6 DEF a

\* A turn when r is full.
LEMMA LoopInvFull ==
  ASSUME NEW s, NEW c, NEW D, NEW P, NEW flag, NEW must, NEW e, NEW n \in Nat, NEW a,
         LoopInv(s, c, D, P, flag, must, e, n, a), s[n + 1] \in c, Len(a.r) >= Lm,
         NEW b, b = Turn(a, s[n + 1], must, e)
  PROVE  LoopInv(s, c, D, P, flag, must, e, n + 1, b)
<1> DEFINE x == s[n + 1]
<1>1. a \in LoopState(c) /\ Shape(s, n, a) /\ Exact(D, a, flag) /\ (~must => Reused(a, e, P))
  BY DEF LoopInv
<1>2. /\ b \in LoopState(c) /\ b.r = a.r /\ b.wd = a.wd /\ b.w = Append(a.w, x)
      /\ b.added = a.added /\ b.removedAny = a.removedAny /\ b.flag = a.flag
  BY <1>1, TurnFull
<1>3. a.w \in Seq(c) /\ Len(a.r) \in Nat /\ Len(a.wd) \in Nat /\ Len(a.w) \in Nat
  BY <1>1, StateFields
<1>4. /\ Len(b.w) = Len(a.w) + 1 /\ b.w[Len(a.w) + 1] = x
      /\ \A i \in 1..Len(a.w) : b.w[i] = a.w[i]
  BY <1>2, <1>3
<1>5. Exact(D, b, flag)
  BY <1>1, <1>2 DEF Exact
<1>6. ~must => Reused(b, e, P)
  BY <1>1, <1>2 DEF Reused
<1>7. Shape(s, n + 1, b)
  <2> DEFINE l == Len(a.r)
             d == Len(a.wd)
             m == Len(a.w)
  <2>1. /\ l <= Lm /\ (l + d) + m = n
        /\ \A i \in 1..m : a.w[i] = s[(l + d) + i]
        /\ ToSet(a.r) \union ToSet(a.wd) = Seen(s, l + d)
        /\ \A i, i2 \in 1..d : i < i2 => CompareCandidateDistances(a.wd[i], a.wd[i2])
    BY <1>1 DEF Shape
  <2>2. Lm \in Nat /\ l >= Lm /\ l \in Nat /\ d \in Nat /\ m \in Nat
    BY <1>3, SelectConstants
  <2>3. /\ Len(b.w) = m + 1 /\ b.w[m + 1] = x
        /\ \A i \in 1..m : b.w[i] = a.w[i]
        /\ Len(b.r) = l /\ Len(b.wd) = d
    BY <1>2, <1>4
  <2> HIDE DEF l, d, m
  <2>4. l = Lm /\ (l + d) + (m + 1) = n + 1
    BY <2>1, <2>2
  <2>5. \A i \in 1..(m + 1) : b.w[i] = s[(l + d) + i]
    <3>1. TAKE i \in 1..(m + 1)
    <3>2. i \in 1..m \/ i = m + 1
      BY <2>2
    <3>3. QED
      BY <2>1, <2>3, <2>4, <3>2
  <2>6. QED
    <3>1. Len(b.r) <= Lm /\ (Len(b.r) + Len(b.wd)) + Len(b.w) = n + 1 /\ Len(b.r) = Lm
      BY <2>1, <2>3, <2>4
    <3>2. \A i \in 1..Len(b.w) : b.w[i] = s[(Len(b.r) + Len(b.wd)) + i]
      BY <2>3, <2>5
    <3>3. ToSet(b.r) \union ToSet(b.wd) = Seen(s, Len(b.r) + Len(b.wd))
      BY <1>2, <2>1, <2>3
    <3>4. \A i, i2 \in 1..Len(b.wd) : i < i2 => CompareCandidateDistances(b.wd[i], b.wd[i2])
      BY <1>2, <2>1, <2>3
    <3>5. QED
      BY <3>1, <3>2, <3>3, <3>4 DEF Shape
<1>8. QED
  BY <1>2, <1>5, <1>6, <1>7 DEF LoopInv

\* A turn when there is room in r.
LEMMA LoopInvJudged ==
  ASSUME PointOK, NEW s, NEW c, NEW D, NEW P, NEW flag, NEW must, NEW e, NEW n \in Nat, NEW a,
         Given(s, c, D, P, flag, must, e), n < Cardinality(c),
         LoopInv(s, c, D, P, flag, must, e, n, a), ~(Len(a.r) >= Lm),
         NEW b, b = Turn(a, s[n + 1], must, e)
  PROVE  LoopInv(s, c, D, P, flag, must, e, n + 1, b)
<1> DEFINE x == s[n + 1]
           l == Len(a.r)
           d == Len(a.wd)
           m == Len(a.w)
<1>1. a \in LoopState(c) /\ Shape(s, n, a) /\ Exact(D, a, flag) /\ (~must => Reused(a, e, P))
  BY DEF LoopInv
<1>2. /\ NearestFirst(s, c) /\ IsDiverse(c, D) /\ must \in BOOLEAN /\ c \in SUBSET Candidates
      /\ a.flag \in [c -> BOOLEAN] /\ D \subseteq c
  BY <1>1, StateFields DEF Given, NearestFirst, IsDiverse
<1>3. /\ a.r \in Seq(c) /\ a.wd \in Seq(c) /\ a.w \in Seq(c) /\ l \in Nat /\ d \in Nat /\ m \in Nat
  BY <1>1, StateFields
<1>4. /\ l <= Lm /\ (l + d) + m = n
      /\ m > 0 => l = Lm
      /\ ToSet(a.r) \union ToSet(a.wd) = Seen(s, l + d)
      /\ \A i, i2 \in 1..d : i < i2 => CompareCandidateDistances(a.wd[i], a.wd[i2])
  BY <1>1 DEF Shape
<1>5. m = 0 /\ l + d = n /\ l + 1 <= Lm /\ l < Lm
  <2> HIDE DEF l, d, m
  <2>1. Lm \in Nat /\ ~(l >= Lm)
    BY SelectConstants DEF l
  <2>2. QED
    BY <1>3, <1>4, <2>1
<1>6. /\ x \in c
      /\ \A o \in c : CompareCandidateDistances(o, x) <=> o \in Seen(s, n)
      /\ Seen(s, n + 1) = Seen(s, n) \union {x}
      /\ \A o \in Seen(s, n) : o \in c
  BY <1>2, SeenNext
<1>7. ToSet(a.r) \union ToSet(a.wd) = Seen(s, n)
  BY <1>4, <1>5
<1>8. x \notin Seen(s, n)
  <2>1. x \in Candidates
    BY <1>2, <1>6
  <2>2. ~CompareCandidateDistances(x, x)
    BY <2>1, NearerOrder
  <2>3. QED
    BY <1>6, <2>2
<1>9. Ready(c, D, a, x)
  BY <1>1, <1>2, <1>6, <1>7 DEF Ready, Exact
<1>10. ~must => Reusable(c, P, a, x, e)
  <2>1. SUFFICES ASSUME ~must PROVE Reusable(c, P, a, x, e)
    OBVIOUS
  <2>2. a.flag[x] = flag[x]
    BY <1>1, <1>2, <1>6, <1>7, <1>8 DEF Exact
  <2>3. QED
    BY <1>1, <1>6, <2>1, <2>2 DEF Given, Reusable
<1> HIDE DEF x
<1>11. b = Turn(a, x, must, e)
  BY DEF x
<1>12. ~must => Reused(b, e, P)
  BY <1>1, <1>2, <1>6, <1>9, <1>10, <1>11, TurnReused
<1>13. PICK j : j = Judge(a, x, must, e)
  OBVIOUS
<1>14. j.closer \in BOOLEAN /\ j.added \in Seq(c)
  BY <1>1, <1>2, <1>6, <1>13, JudgeType
<1>15. j.closer <=> x \in D
  <2>1. CASE must
    <3> DEFINE k == CheckElementCloser(x, a.r)
    <3>1. j = [closer |-> k, added |-> a.added]
      BY <1>13, <2>1 DEF Judge
    <3>2. k <=> x \in D
      BY <1>1, <1>2, <1>6, <1>9, CheckRight
    <3> HIDE DEF k
    <3>3. j.closer = k
      BY <3>1
    <3>4. QED
      BY <3>2, <3>3
  <2>2. CASE ~must
    <3>1. Reusable(c, P, a, x, e)
      BY <1>10, <2>2
    <3>2. QED
      BY <1>1, <1>2, <1>6, <1>9, <1>13, <3>1, JudgeRight
  <2>3. QED
    BY <2>1, <2>2
<1>16. /\ b \in LoopState(c) /\ b.w = a.w
       /\ x \in D => b.r = Append(a.r, x) /\ b.wd = a.wd
       /\ x \notin D => b.r = a.r /\ b.wd = Append(a.wd, x)
       /\ b.flag[x] = (x \in D) /\ \A o \in c \ {x} : b.flag[o] = a.flag[o]
  <2>1. /\ b \in LoopState(c) /\ b.w = a.w
        /\ j.closer  => b.r = Append(a.r, x) /\ b.wd = a.wd
        /\ ~j.closer => b.r = a.r /\ b.wd = Append(a.wd, x)
        /\ b.flag[x] = j.closer /\ \A o \in c \ {x} : b.flag[o] = a.flag[o]
    BY <1>1, <1>6, <1>11, <1>13, <1>14, TurnJudged
  <2>2. QED
    BY <1>14, <1>15, <2>1
<1>17. ToSet(Append(a.r, x)) = ToSet(a.r) \union {x} /\ ToSet(Append(a.wd, x)) = ToSet(a.wd) \union {x}
  BY <1>3, <1>6, AppendSet
<1>18. Exact(D, b, flag)
  <2>1. ToSet(b.r) \subseteq D /\ ToSet(b.wd) \intersect D = {}
    BY <1>1, <1>16, <1>17 DEF Exact
  <2>2. DOMAIN b.flag = c
    BY <1>16, StateFields
  <2>3. ASSUME NEW o \in c
        PROVE  /\ o \in ToSet(b.r) => b.flag[o]
               /\ o \in ToSet(b.wd) => ~b.flag[o]
               /\ o \notin ToSet(b.r) \union ToSet(b.wd) => b.flag[o] = flag[o]
    <3>1. CASE o = x
      <4>1. x \in ToSet(b.r) \union ToSet(b.wd) /\ (x \in ToSet(b.r) => x \in D)
        BY <1>16, <1>17, <2>1
      <4>2. x \in ToSet(b.wd) => x \notin D
        BY <2>1
      <4>3. QED
        BY <1>16, <3>1, <4>1, <4>2
    <3>2. CASE o # x
      <4>1. (o \in ToSet(b.r) <=> o \in ToSet(a.r)) /\ (o \in ToSet(b.wd) <=> o \in ToSet(a.wd))
        <5>1. CASE x \in D
          <6>1. ToSet(b.r) = ToSet(a.r) \union {x} /\ ToSet(b.wd) = ToSet(a.wd)
            BY <1>16, <1>17, <5>1
          <6>2. QED
            BY <3>2, <6>1
        <5>2. CASE x \notin D
          <6>1. ToSet(b.r) = ToSet(a.r) /\ ToSet(b.wd) = ToSet(a.wd) \union {x}
            BY <1>16, <1>17, <5>2
          <6>2. QED
            BY <3>2, <6>1
        <5>3. QED
          BY <5>1, <5>2
      <4>2. b.flag[o] = a.flag[o]
        BY <1>16, <3>2
      <4>3. o \in DOMAIN a.flag
        BY <1>2
      <4>4. QED
        BY <1>1, <4>1, <4>2, <4>3 DEF Exact
    <3>3. QED
      BY <3>1, <3>2
  <2>4. QED
    BY <2>1, <2>2, <2>3 DEF Exact
<1>19. Shape(s, n + 1, b)
  <2>1. ToSet(b.r) \union ToSet(b.wd) = Seen(s, n + 1)
    BY <1>6, <1>7, <1>16, <1>17 DEF x
  <2>2. Len(b.w) = 0 /\ Len(b.r) <= Lm /\ Len(b.r) + Len(b.wd) = n + 1
    <3>1. Len(Append(a.r, x)) = l + 1 /\ Len(Append(a.wd, x)) = d + 1
      BY <1>3, <1>6
    <3>2. x \in D => Len(b.r) = l + 1 /\ Len(b.wd) = d
      BY <1>16, <3>1
    <3>3. x \notin D => Len(b.r) = l /\ Len(b.wd) = d + 1
      BY <1>16, <3>1
    <3>4. Len(b.w) = m
      BY <1>16
    <3> HIDE DEF l, d, m
    <3>5. QED
      <4>1. m = 0 /\ l + 1 <= Lm /\ l <= Lm /\ (l + 1) + d = n + 1 /\ l + (d + 1) = n + 1
        BY <1>3, <1>4, <1>5
      <4>2. CASE x \in D
        <5>1. Len(b.r) = l + 1 /\ Len(b.wd) = d /\ Len(b.w) = 0
          BY <3>2, <3>4, <4>1, <4>2
        <5>2. QED
          BY <4>1, <5>1
      <4>3. CASE x \notin D
        <5>1. Len(b.r) = l /\ Len(b.wd) = d + 1 /\ Len(b.w) = 0
          BY <3>3, <3>4, <4>1, <4>3
        <5>2. QED
          BY <4>1, <5>1
      <4>4. QED
        BY <4>2, <4>3
  <2>3. \A i, i2 \in 1..Len(b.wd) : i < i2 => CompareCandidateDistances(b.wd[i], b.wd[i2])
    <3>1. CASE x \in D
      BY <1>4, <1>16, <3>1
    <3>2. CASE x \notin D
      <4>1. /\ Len(b.wd) = d + 1 /\ b.wd[d + 1] = x
            /\ \A i \in 1..d : b.wd[i] = a.wd[i]
        <5>1. b.wd = Append(a.wd, x)
          BY <1>16, <3>2
        <5>2. Len(a.wd) \in Nat /\ a.wd \in Seq(c) /\ x \in c
          BY <1>3, <1>6
        <5>3. /\ Len(Append(a.wd, x)) = Len(a.wd) + 1 /\ Append(a.wd, x)[Len(a.wd) + 1] = x
              /\ \A i \in 1..Len(a.wd) : Append(a.wd, x)[i] = a.wd[i]
          BY <5>2
        <5>4. QED
          BY <5>1, <5>3
      <4>2. ASSUME NEW i \in 1..d PROVE CompareCandidateDistances(b.wd[i], x)
        <5>1. a.wd[i] \in ToSet(a.wd)
          BY <1>3 DEF ToSet
        <5>2. a.wd[i] \in Seen(s, n)
          BY <1>7, <5>1
        <5>3. QED
          BY <1>6, <4>1, <5>2 DEF x
      <4> HIDE DEF d
      <4>3. ASSUME NEW i \in 1..(d + 1), NEW i2 \in 1..(d + 1), i < i2
            PROVE  CompareCandidateDistances(b.wd[i], b.wd[i2])
        <5>1. i \in 1..d /\ (i2 \in 1..d \/ i2 = d + 1)
          BY <1>3, <4>3
        <5>2. QED
          BY <1>4, <4>1, <4>2, <4>3, <5>1
      <4>4. QED
        BY <4>1, <4>3
    <3>3. QED
      BY <3>1, <3>2
  <2>4. \A i \in 1..Len(b.w) : b.w[i] = s[(Len(b.r) + Len(b.wd)) + i]
    <3>1. 1..Len(b.w) = {}
      BY <2>2
    <3>2. QED
      BY <3>1
  <2>5. (Len(b.r) + Len(b.wd)) + Len(b.w) = n + 1
    <3>1. (n + 1) + 0 = n + 1
      OBVIOUS
    <3>2. QED
      BY <2>2, <3>1
  <2>6. ToSet(b.r) \union ToSet(b.wd) = Seen(s, Len(b.r) + Len(b.wd))
    BY <2>1, <2>2
  <2>7. ~(Len(b.w) > 0)
    BY <2>2
  <2>8. QED
    BY <2>2, <2>3, <2>4, <2>5, <2>6, <2>7 DEF Shape
<1>20. QED
  BY <1>12, <1>16, <1>18, <1>19 DEF LoopInv

\* So it holds after the last turn.
LEMMA LoopInvEnd ==
  ASSUME PointOK, NEW s, NEW c, NEW D, NEW P, NEW flag, NEW must, NEW e,
         Given(s, c, D, P, flag, must, e)
  PROVE  LoopInv(s, c, D, P, flag, must, e, Cardinality(c), Loop(s, flag, must, e))
<1> DEFINE N == Cardinality(c)
<1>1. N \in Nat /\ s \in [1..N -> c] /\ NearestFirst(s, c)
  BY FS_CardinalityType DEF Given, NearestFirst
<1>2. Len(s) = N
  BY <1>1
<1>3. PICK u : Turns(s, flag, must, e, u) /\ Loop(s, flag, must, e) = u[N]
  BY <1>1, <1>2, LoopTurns
<1>4. u[0] = Start(flag) /\ \A n \in 1..N : u[n] = Turn(u[n - 1], s[n], must, e)
  BY <1>2, <1>3 DEF Turns
<1> DEFINE T == {n \in Nat : n <= N => LoopInv(s, c, D, P, flag, must, e, n, u[n])}
<1> HIDE DEF N
<1>5. 0 \in T
  BY <1>4, LoopInvStart
<1>6. ASSUME NEW n \in Nat, n \in T PROVE n + 1 \in T
  <2>1. SUFFICES ASSUME n + 1 <= N PROVE LoopInv(s, c, D, P, flag, must, e, n + 1, u[n + 1])
    OBVIOUS
  <2>2. n <= N /\ n < N /\ n + 1 \in 1..N /\ (n + 1) - 1 = n
    BY <1>1, <2>1
  <2>3. LoopInv(s, c, D, P, flag, must, e, n, u[n]) /\ u[n + 1] = Turn(u[n], s[n + 1], must, e)
    BY <1>4, <1>6, <2>2
  <2>4. s[n + 1] \in c
    BY <1>1, <2>2
  <2>5. CASE Len(u[n].r) >= Lm
    BY <2>3, <2>4, <2>5, LoopInvFull
  <2>6. CASE ~(Len(u[n].r) >= Lm)
    BY <2>2, <2>3, <2>6, LoopInvJudged DEF N
  <2>7. QED
    BY <2>5, <2>6
<1>7. LoopInv(s, c, D, P, flag, must, e, N, u[N])
  <2>1. T \in SUBSET Nat
    OBVIOUS
  <2>2. \A n \in Nat : n \in T
    <3> HIDE DEF T
    <3>1. QED
      BY <1>5, <1>6, <2>1, SetInduction
  <2>3. QED
    BY <1>1, <2>2
<1>8. QED
  BY <1>3, <1>7 DEF N
-----------------------------------------------------------------------------
(***************************************************************************)
(* What is kept of Lm + 1 candidates.                                      *)
(***************************************************************************)

\* All but one are among the n first of S, if n is one less than S has: and that one
\* comes last.
LEMMA NearestAllBut ==
  ASSUME PointOK, NEW S \in SUBSET Candidates, IsFiniteSet(S), NEW p \in S,
         \A o \in S \ {p} : CompareCandidateDistances(o, p),
         NEW n \in Nat, Cardinality(S) = n + 1
  PROVE  NearestFew(S, n) = S \ {p}
<1> DEFINE B(e) == {o \in S : CompareCandidateDistances(o, e)}
<1>1. p \in Candidates /\ ~CompareCandidateDistances(p, p)
  <2>1. p \in Candidates
    OBVIOUS
  <2>2. QED
    BY <2>1, NearerOrder
<1>2. Cardinality(S \ {p}) = n /\ IsFiniteSet(S \ {p})
  BY FS_RemoveElement
<1>3. B(p) = S \ {p}
  BY <1>1
<1>4. ASSUME NEW e \in S \ {p} PROVE Cardinality(B(e)) < n
  <2>1. e \in Candidates /\ ~CompareCandidateDistances(e, e) /\ ~CompareCandidateDistances(p, e)
    <3>1. e \in Candidates /\ CompareCandidateDistances(e, p)
      OBVIOUS
    <3>2. QED
      BY <1>1, <3>1, NearerOrder
  <2>2. B(e) \subseteq (S \ {p}) \ {e}
    BY <2>1
  <2>3. Cardinality((S \ {p}) \ {e}) = n - 1 /\ IsFiniteSet((S \ {p}) \ {e})
    BY <1>2, FS_RemoveElement
  <2> HIDE DEF B
  <2>4. Cardinality(B(e)) <= n - 1 /\ Cardinality(B(e)) \in Nat
    BY <2>2, <2>3, FS_Subset, FS_CardinalityType
  <2>5. QED
    BY <2>4
<1>5. NearestFew(S, n) = {e \in S : Cardinality(B(e)) < n}
  BY DEF NearestFew
<1> HIDE DEF B
<1>6. QED
  BY <1>2, <1>3, <1>4, <1>5

\* If S has n at most, all of it.
LEMMA NearestAll ==
  ASSUME PointOK, NEW S \in SUBSET Candidates, IsFiniteSet(S), NEW n \in Nat, Cardinality(S) <= n
  PROVE  NearestFew(S, n) = S
<1> DEFINE B(e) == {o \in S : CompareCandidateDistances(o, e)}
<1>1. ASSUME NEW e \in S PROVE Cardinality(B(e)) < n
  <2>1. e \in Candidates
    OBVIOUS
  <2>2. ~CompareCandidateDistances(e, e)
    BY <2>1, NearerOrder
  <2>3. B(e) \subseteq S \ {e}
    BY <2>2
  <2>4. Cardinality(S \ {e}) = Cardinality(S) - 1 /\ IsFiniteSet(S \ {e}) /\ Cardinality(S) \in Nat
    BY FS_RemoveElement, FS_CardinalityType
  <2> HIDE DEF B
  <2>5. Cardinality(B(e)) <= Cardinality(S) - 1 /\ Cardinality(B(e)) \in Nat
    BY <2>3, <2>4, FS_Subset, FS_CardinalityType
  <2>6. QED
    BY <2>4, <2>5
<1>2. NearestFew(S, n) = {e \in S : Cardinality(B(e)) < n}
  BY DEF NearestFew
<1> HIDE DEF B
<1>3. QED
  BY <1>1, <1>2

LEMMA NearestNone ==
  ASSUME NEW S, IsFiniteSet(S)
  PROVE  NearestFew(S, 0) = {}
<1>1. ASSUME NEW e \in S PROVE ~(Cardinality({o \in S : CompareCandidateDistances(o, e)}) < 0)
  <2> DEFINE B == {o \in S : CompareCandidateDistances(o, e)}
  <2>1. B \subseteq S
    OBVIOUS
  <2> HIDE DEF B
  <2>2. Cardinality(B) \in Nat
    BY <2>1, FS_Subset, FS_CardinalityType
  <2>3. ~(Cardinality(B) < 0)
    BY <2>2
  <2>4. QED
    BY <2>3 DEF B
<1>2. QED
  BY <1>1 DEF NearestFew

LEMMA SeenAll ==
  ASSUME NEW s, NEW c, NearestFirst(s, c)
  PROVE  Seen(s, Cardinality(c)) = c
<1>1. DOMAIN s = 1..Cardinality(c) /\ \A i \in 1..Cardinality(c) : s[i] \in c
  BY DEF NearestFirst
<1>2. QED
  BY <1>1 DEF NearestFirst, Seen

\* All candidates but one are kept, as in the reference, and the flags of those are right.
KeptRight(c, a) ==
  /\ Pruned(a) \in c
  /\ KeptOf(c) = c \ {Pruned(a)}
  /\ \E Q : IsDiverse(c \ {Pruned(a)}, Q) /\ \A o \in c \ {Pruned(a)} : a.flag[o] <=> o \in Q

\* The loop has looked at every candidate: the last of wd is left out.
LEMMA KeepsAllSeen ==
  ASSUME PointOK, NEW s, NEW c, NEW D, D = Diverse(c), NEW P, NEW flag, NEW must, NEW e,
         Given(s, c, D, P, flag, must, e), Cardinality(c) = Lm + 1,
         NEW a, LoopInv(s, c, D, P, flag, must, e, Lm + 1, a), Len(a.w) = 0
  PROVE  KeptRight(c, a)
<1> DEFINE R == ToSet(a.r)
           W == ToSet(a.wd)
           l == Len(a.r)
           d == Len(a.wd)
<1>1. /\ a \in LoopState(c) /\ Shape(s, Lm + 1, a) /\ Exact(D, a, flag)
      /\ NearestFirst(s, c) /\ IsDiverse(c, D) /\ c \in SUBSET Candidates /\ IsFiniteSet(c)
      /\ D \subseteq c /\ Lm \in Nat
  BY SelectConstants DEF LoopInv, Given, NearestFirst, IsDiverse
<1>2. l \in Nat /\ d \in Nat /\ a.wd \in Seq(c) /\ a.flag \in [c -> BOOLEAN]
  BY <1>1, StateFields
<1>3. l <= Lm /\ l + d = Lm + 1 /\ R \union W = c
  <2>1. /\ l <= Lm /\ (l + d) + Len(a.w) = Lm + 1 /\ R \union W = Seen(s, l + d)
    BY <1>1 DEF Shape
  <2>2. l + d = Lm + 1
    <3>1. (l + d) + 0 = Lm + 1
      BY <2>1
    <3> HIDE DEF l, d
    <3>2. QED
      BY <1>2, <3>1
  <2>3. QED
    BY <1>1, <2>1, <2>2, SeenAll
<1>4. R = D /\ W = c \ D
  BY <1>1, <1>3 DEF Exact
<1> DEFINE p == a.wd[d]
<1>5. Pruned(a) = p /\ d \in 1..d
  <2>1. Fill(a) = IF d < Lm - l THEN d ELSE Lm - l
    BY DEF Fill
  <2> HIDE DEF d, l
  <2>2. Fill(a) = Lm - l /\ Lm - l < d /\ (Lm - l) + 1 = d
    BY <1>1, <1>2, <1>3, <2>1
  <2>3. Pruned(a) = a.wd[d]
    BY <2>2 DEF Pruned, d
  <2>4. d \in 1..d
    BY <1>1, <1>2, <1>3
  <2>5. QED
    BY <2>3, <2>4
<1>6. p \in W
  BY <1>2, <1>5 DEF ToSet
<1>7. \A o \in W \ {p} : CompareCandidateDistances(o, p)
  <2>1. TAKE o \in W \ {p}
  <2>2. PICK i \in 1..d : a.wd[i] = o
    BY <1>2 DEF ToSet
  <2>3. i < d
    BY <1>2, <2>2
  <2>4. QED
    BY <1>1, <1>5, <2>2, <2>3 DEF Shape
<1> HIDE DEF p, d, l
<1>8. p \in c /\ p \notin D /\ IsFiniteSet(D) /\ IsFiniteSet(c \ D) /\ Cardinality(D) \in Nat
  BY <1>1, <1>4, <1>6, FS_Subset, FS_CardinalityType
<1>9. Cardinality(D) <= Lm
  <2>1. Cardinality(c \ {p}) = Lm /\ IsFiniteSet(c \ {p})
    <3>1. Cardinality(c \ {p}) = Cardinality(c) - 1
      BY <1>1, <1>8, FS_RemoveElement
    <3>2. QED
      BY <1>1, <1>8, <3>1, FS_Subset
  <2>2. D \subseteq c \ {p}
    BY <1>1, <1>8
  <2>3. QED
    BY <2>1, <2>2, FS_Subset
<1>10. Cardinality(c \ D) = (Lm - Cardinality(D)) + 1
  <2>1. Cardinality(c \ D) = Cardinality(c) - Cardinality(c \intersect D)
    BY <1>1, FS_Difference
  <2>2. c \intersect D = D
    BY <1>1
  <2> DEFINE k == Cardinality(D)
  <2>3. Cardinality(c \ D) = (Lm + 1) - k /\ k \in Nat
    BY <1>8, <2>1, <2>2
  <2> HIDE DEF k
  <2>4. Cardinality(c \ D) = (Lm - k) + 1
    BY <1>1, <2>3
  <2>5. QED
    BY <2>4 DEF k
<1>11. NearestFew(D, Lm) = D
  BY <1>1, <1>8, <1>9, NearestAll
<1>12. NearestFew(c \ D, Lm - Cardinality(D)) = (c \ D) \ {p}
  <2>1. Lm - Cardinality(D) \in Nat /\ p \in c \ D /\ c \ D \in SUBSET Candidates
    BY <1>1, <1>8, <1>9
  <2>2. \A o \in (c \ D) \ {p} : CompareCandidateDistances(o, p)
    BY <1>4, <1>7
  <2>3. QED
    BY <1>8, <1>10, <2>1, <2>2, NearestAllBut
<1>13. KeptOf(c) = c \ {p}
  <2>1. KeptOf(c) = D \union ((c \ D) \ {p})
    BY <1>11, <1>12 DEF KeptOf
  <2>2. QED
    BY <1>1, <1>8, <2>1
<1>14. IsDiverse(c \ {p}, D)
  BY <1>1, <1>8 DEF IsDiverse
<1>15. \A o \in c \ {p} : a.flag[o] <=> o \in D
  BY <1>1, <1>2, <1>4 DEF Exact
<1>16. QED
  BY <1>5, <1>8, <1>13, <1>14, <1>15 DEF KeptRight

\* r was full when the last candidate came: this one is left out.
LEMMA KeepsFull ==
  ASSUME PointOK, NEW s, NEW c, NEW D, D = Diverse(c), NEW P, NEW flag, NEW must, NEW e,
         Given(s, c, D, P, flag, must, e), Cardinality(c) = Lm + 1,
         NEW a, LoopInv(s, c, D, P, flag, must, e, Lm + 1, a), Len(a.w) # 0
  PROVE  KeptRight(c, a)
<1> DEFINE R == ToSet(a.r)
           l == Len(a.r)
           d == Len(a.wd)
           m == Len(a.w)
<1>1. /\ a \in LoopState(c) /\ Shape(s, Lm + 1, a) /\ Exact(D, a, flag)
      /\ NearestFirst(s, c) /\ IsDiverse(c, D) /\ c \in SUBSET Candidates /\ IsFiniteSet(c)
      /\ D \subseteq c /\ Lm \in Nat
  BY SelectConstants DEF LoopInv, Given, NearestFirst, IsDiverse
<1>2. /\ l \in Nat /\ d \in Nat /\ m \in Nat /\ a.wd \in Seq(c) /\ a.w \in Seq(c)
      /\ a.flag \in [c -> BOOLEAN]
  BY <1>1, StateFields
<1>3. /\ (l + d) + m = Lm + 1 /\ (m > 0 => l = Lm)
      /\ R \union ToSet(a.wd) = Seen(s, l + d)
      /\ \A i \in 1..m : a.w[i] = s[(l + d) + i]
  BY <1>1 DEF Shape
<1>4. m # 0
  OBVIOUS
<1> DEFINE p == s[Lm + 1]
<1>5. l = Lm /\ d = 0 /\ m = 1 /\ l + d = Lm
  <2> HIDE DEF l, d, m
  <2>1. QED
    BY <1>1, <1>2, <1>3, <1>4
<1>6. Pruned(a) = p
  <2>1. Fill(a) = 0
    BY <1>1, <1>5 DEF Fill
  <2>2. Pruned(a) = a.w[1]
    BY <1>5, <2>1 DEF Pruned, Last
  <2>3. a.w[1] = s[Lm + 1]
    BY <1>3, <1>5
  <2>4. QED
    BY <2>2, <2>3
<1>7. R = Seen(s, Lm)
  <2>1. a.wd = <<>>
    BY <1>2, <1>5
  <2>2. ToSet(a.wd) = {}
    BY <1>2, <2>1, SeqSet
  <2>3. QED
    BY <1>3, <1>5, <2>2
<1>8. /\ p \in c
      /\ \A o \in c : CompareCandidateDistances(o, p) <=> o \in R
      /\ c = R \union {p}
  <2>1. Lm < Cardinality(c)
    BY <1>1
  <2>2. QED
    BY <1>1, <1>7, <2>1, SeenNext, SeenAll
<1> HIDE DEF p, l, d, m
<1>9. p \notin R
  <2>1. p \in Candidates
    BY <1>1, <1>8
  <2>2. QED
    BY <1>8, <2>1, NearerOrder
<1>10. R = c \ {p} /\ IsFiniteSet(R) /\ Cardinality(R) = Lm /\ R \subseteq D
  <2>1. R = c \ {p} /\ R \subseteq D
    BY <1>1, <1>8, <1>9 DEF Exact
  <2>2. IsFiniteSet(c \ {p}) /\ Cardinality(c \ {p}) = Cardinality(c) - 1
    BY <1>1, <1>8, FS_RemoveElement
  <2>3. QED
    BY <1>1, <2>1, <2>2
<1>11. NearestFew(D, Lm) = R
  <2>1. CASE p \in D
    <3>1. D = c /\ \A o \in c \ {p} : CompareCandidateDistances(o, p)
      BY <1>1, <1>8, <1>10, <2>1
    <3>2. NearestFew(c, Lm) = c \ {p}
      BY <1>1, <1>8, <3>1, NearestAllBut
    <3>3. QED
      BY <1>10, <3>1, <3>2
  <2>2. CASE p \notin D
    <3>1. D = R
      BY <1>1, <1>8, <1>10, <2>2
    <3>2. R \in SUBSET Candidates /\ Cardinality(R) <= Lm
      BY <1>1, <1>10
    <3>3. QED
      BY <1>1, <1>10, <3>1, <3>2, NearestAll
  <2>3. QED
    BY <2>1, <2>2
<1>12. KeptOf(c) = R
  <2>1. Lm - Cardinality(R) = 0 /\ IsFiniteSet(c \ R)
    BY <1>1, <1>10, FS_Subset
  <2>2. NearestFew(c \ R, Lm - Cardinality(R)) = {}
    BY <2>1, NearestNone
  <2>3. QED
    BY <1>11, <2>2 DEF KeptOf
<1>13. IsDiverse(R, R)
  <2>1. ASSUME NEW o \in R PROVE Closer(o, R)
    BY <1>1, <1>10, <2>1 DEF IsDiverse, Closer
  <2>2. QED
    BY <2>1 DEF IsDiverse
<1>14. \A o \in R : a.flag[o]
  BY <1>1, <1>2, <1>10 DEF Exact
<1>15. QED
  BY <1>6, <1>8, <1>10, <1>12, <1>13, <1>14 DEF KeptRight
-----------------------------------------------------------------------------
(***************************************************************************)
(* The size of what is selected from any candidates.                       *)
(***************************************************************************)
LEMMA LoopType ==
  ASSUME NEW c, NEW N \in Nat, NEW s \in [1..N -> c], NEW flag \in [c -> BOOLEAN],
         NEW must \in BOOLEAN, NEW new, NEW a, a = Loop(s, flag, must, new)
  PROVE  a \in LoopState(c) /\ Len(a.r) <= Lm
<1>1. Len(s) = N
  OBVIOUS
<1>2. PICK u : Turns(s, flag, must, new, u) /\ Loop(s, flag, must, new) = u[N]
  BY <1>1, LoopTurns
<1>3. u[0] = Start(flag) /\ \A n \in 1..N : u[n] = Turn(u[n - 1], s[n], must, new)
  BY <1>1, <1>2 DEF Turns
<1>4. Lm \in Nat /\ Lm # 0
  BY SelectConstants
<1> DEFINE OK(b) == b \in LoopState(c) /\ Len(b.r) <= Lm
           T == {n \in Nat : n <= N => OK(u[n])}
<1>5. 0 \in T
  <2>1. OK(Start(flag))
    BY <1>4, StartState
  <2>2. QED
    BY <1>3, <2>1
<1>6. ASSUME NEW n \in Nat, n \in T PROVE n + 1 \in T
  <2>1. SUFFICES ASSUME n + 1 <= N PROVE OK(u[n + 1])
    <3> HIDE DEF OK
    <3>1. QED
      OBVIOUS
  <2> DEFINE b == u[n]
             x == s[n + 1]
             d == u[n + 1]
  <2>2. n <= N /\ n + 1 \in 1..N /\ (n + 1) - 1 = n
    BY <2>1
  <2>3. b \in LoopState(c) /\ Len(b.r) <= Lm /\ d = Turn(b, x, must, new) /\ x \in c
    BY <1>3, <1>6, <2>2
  <2> HIDE DEF b, x, d
  <2>4. CASE Len(b.r) >= Lm
    <3>1. d \in LoopState(c) /\ d.r = b.r
      BY <2>3, <2>4, TurnFull
    <3>2. OK(d)
      BY <2>3, <3>1
    <3>3. QED
      BY <3>2 DEF d
  <2>5. CASE ~(Len(b.r) >= Lm)
    <3>1. PICK j : j = Judge(b, x, must, new)
      OBVIOUS
    <3>2. j.closer \in BOOLEAN /\ j.added \in Seq(c)
      BY <2>3, <3>1, JudgeType
    <3>3. d \in LoopState(c) /\ (d.r = Append(b.r, x) \/ d.r = b.r)
      BY <2>3, <2>5, <3>1, <3>2, TurnJudged
    <3>4. b.r \in Seq(c) /\ Len(b.r) \in Nat
      BY <2>3, StateFields
    <3>5. Len(Append(b.r, x)) = Len(b.r) + 1 /\ Len(b.r) + 1 <= Lm
      BY <1>4, <2>3, <2>5, <3>4
    <3>6. OK(d)
      BY <2>3, <3>3, <3>5
    <3>7. QED
      BY <3>6 DEF d
  <2>6. QED
    BY <2>4, <2>5
<1>7. OK(u[N])
  <2>1. T \in SUBSET Nat
    OBVIOUS
  <2>2. \A n \in Nat : n \in T
    <3> HIDE DEF T
    <3>1. QED
      BY <1>5, <1>6, <2>1, SetInduction
  <2> HIDE DEF OK
  <2>3. QED
    BY <2>2
<1>8. QED
  BY <1>2, <1>7

LEMMA FewValues ==
  ASSUME NEW n \in Nat, NEW q
  PROVE  /\ IsFiniteSet({q[i] : i \in 1..n})
         /\ Cardinality({q[i] : i \in 1..n}) \in Nat
         /\ Cardinality({q[i] : i \in 1..n}) <= n
<1> DEFINE V == {q[i] : i \in 1..n}
           f == [i \in 1..n |-> q[i]]
<1>1. f \in [1..n -> V] /\ \A v \in V : \E i \in 1..n : f[i] = v
  OBVIOUS
<1>2. f \in Surjection(1..n, V)
  BY <1>1 DEF Surjection
<1>3. IsFiniteSet(1..n) /\ Cardinality(1..n) = n
  <2>1. 1 \in Int /\ n \in Int /\ (IF 1 > n THEN 0 ELSE n - 1 + 1) = n
    OBVIOUS
  <2>2. QED
    BY <2>1, FS_Interval
<1> HIDE DEF V, f
<1>4. IsFiniteSet(V) /\ Cardinality(V) <= n
  BY <1>2, <1>3, FS_Surjection
<1>5. QED
  BY <1>4, FS_CardinalityType DEF V

\* At most Lm are selected.
LEMMA SelectedFew ==
  ASSUME NEW c, NEW a \in LoopState(c), Len(a.r) <= Lm
  PROVE  Selected(a) \subseteq c /\ Cardinality(Selected(a)) <= Lm
<1> DEFINE l == Len(a.r)
           d == Len(a.wd)
           F == Fill(a)
           V == {a.r[i] : i \in 1..l}
           X == {a.wd[i] : i \in 1..F}
<1>1. a.r \in Seq(c) /\ a.wd \in Seq(c) /\ l \in Nat /\ d \in Nat /\ Lm \in Nat
  BY StateFields, SelectConstants
<1>2. DOMAIN a.r = 1..l /\ \A i \in 1..l : a.r[i] \in c
  BY <1>1
<1>3. \A i \in 1..d : a.wd[i] \in c
  BY <1>1
<1>4. Selected(a) = V \union X
  BY <1>2 DEF Selected, ToSet
<1>5. F \in Nat /\ F <= d /\ l + F <= Lm
  <2>1. F = IF d < Lm - l THEN d ELSE Lm - l
    BY DEF Fill
  <2>2. l <= Lm
    OBVIOUS
  <2> HIDE DEF F, d, l
  <2>3. QED
    BY <1>1, <2>1, <2>2
<1> HIDE DEF F
<1>6. V \subseteq c /\ X \subseteq c
  <2>1. \A i \in 1..F : i \in 1..d
    BY <1>1, <1>5
  <2>2. QED
    BY <1>2, <1>3, <2>1
<1>7. /\ IsFiniteSet(V) /\ Cardinality(V) \in Nat /\ Cardinality(V) <= l
      /\ IsFiniteSet(X) /\ Cardinality(X) \in Nat /\ Cardinality(X) <= F
  BY <1>1, <1>5, FewValues
<1> HIDE DEF l, V, X
<1>8. Cardinality(V \union X) <= Lm
  <2>1. /\ Cardinality(V \union X) = Cardinality(V) + Cardinality(X) - Cardinality(V \intersect X)
        /\ Cardinality(V \intersect X) \in Nat
    BY <1>7, FS_Union, FS_Intersection, FS_CardinalityType
  <2>2. QED
    BY <1>1, <1>5, <1>7, <2>1
<1>9. QED
  BY <1>4, <1>6, <1>8
-----------------------------------------------------------------------------
(***************************************************************************)
(* The inductive invariant.                                                *)
(***************************************************************************)

\* No element is named twice.
Distinct(c) == \A k, l \in c : k.element = l.element => k = l

\* While no element has connected that the list named already, none is named twice;
\* in a serial build what is named cannot connect.
SelectInv ==
  /\ PointOK
  /\ items \in [DOMAIN items -> BOOLEAN] /\ DOMAIN items \subseteq Candidates
  /\ place \in [DOMAIN items -> Nat]
  /\ Cardinality(DOMAIN items) <= Lm
  /\ todo \subseteq Elements /\ \A e \in todo : Connected(e) \notin DOMAIN items
  /\ closerSet \in BOOLEAN /\ inserted \in BOOLEAN /\ shared \in BOOLEAN /\ again \in BOOLEAN
  /\ closerSet => inserted /\ Cardinality(DOMAIN items) = Lm
  /\ ~again => Distinct(DOMAIN items)
  /\ ~shared => ~again /\ \A k \in DOMAIN items : k.element \notin todo
  /\ FlagsFresh

LEMMA FiniteCandidates == IsFiniteSet(Candidates)
<1> DEFINE A == {Chosen(e) : e \in Elements}
           B == {Connected(e) : e \in Elements}
<1>1. IsFiniteSet(Elements)
  BY SelectConstants
<1>2. IsFiniteSet(A)
  <2> DEFINE f == [e \in Elements |-> Chosen(e)]
  <2>1. f \in [Elements -> A] /\ \A k \in A : \E e \in Elements : f[e] = k
    OBVIOUS
  <2>2. f \in Surjection(Elements, A)
    BY <2>1 DEF Surjection
  <2> HIDE DEF A, f
  <2>3. QED
    BY <1>1, <2>2, FS_Surjection
<1>3. IsFiniteSet(B)
  <2> DEFINE f == [e \in Elements |-> Connected(e)]
  <2>1. f \in [Elements -> B] /\ \A k \in B : \E e \in Elements : f[e] = k
    OBVIOUS
  <2>2. f \in Surjection(Elements, B)
    BY <2>1 DEF Surjection
  <2> HIDE DEF B, f
  <2>3. QED
    BY <1>1, <2>2, FS_Surjection
<1>4. \A k \in Candidates : k = Chosen(k.element) \/ k = Connected(k.element)
  BY CandidateFields DEF Chosen, Connected
<1>5. Candidates \subseteq A \union B
  BY <1>4, CandidateFields
<1> HIDE DEF A, B
<1>6. QED
  BY <1>2, <1>3, <1>5, FS_Union, FS_Subset

LEMMA OrderIs ==
  ASSUME NEW c, NEW at, NEW s \in Sorted(c, at)
  PROVE  s \in [1..Cardinality(c) -> c] /\ ToSet(s) = c
BY DEF Sorted, Orders

\* Only candidates of one element compare equal.
LEMMA SortedIs ==
  ASSUME NEW c \in SUBSET Candidates, Distinct(c), NEW at, NEW s \in Sorted(c, at)
  PROVE  NearestFirst(s, c)
<1>1. IsFiniteSet(c)
  BY FiniteCandidates, FS_Subset
<1>2. s \in [1..Cardinality(c) -> c] /\ ToSet(s) = c
  BY OrderIs
<1>3. \A e \in c : \E i \in DOMAIN s : s[i] = e
  BY <1>2 DEF ToSet
<1>4. ASSUME NEW i \in DOMAIN s, NEW j \in DOMAIN s, i < j PROVE CompareCandidateDistances(s[i], s[j])
  <2>1. LooksFirst(s[i], s[j], Cardinality(c), at)
    BY <1>4 DEF Sorted
  <2>2. s[i] \in c /\ s[j] \in c
    BY <1>2
  <2>3. s[i].element = s[j].element => s[i] = s[j]
    BY <2>2 DEF Distinct
  <2>4. QED
    BY <2>1, <2>3 DEF LooksFirst
<1>5. QED
  BY <1>1, <1>2, <1>3, <1>4 DEF NearestFirst

\* The replaced candidate is in the list, or the new one itself.
LEMMA ReplacedIn ==
  ASSUME place \in [DOMAIN items -> Nat], NEW p, NEW new
  PROVE  Replaced(p, new) \in DOMAIN items \union {new}
<1> DEFINE named == {k \in DOMAIN items : k.element = p.element}
<1>1. CASE named = {}
  BY <1>1 DEF Replaced
<1>2. CASE named # {}
  <2> DEFINE P == {place[k] : k \in named}
  <2>1. P \in SUBSET Nat /\ P # {}
    BY <1>2
  <2>2. PICK x \in P : \A y \in P : x <= y
    <3> HIDE DEF P
    <3>1. QED
      BY <2>1, LeastElement
  <2>3. \E k \in named : \A l \in named : place[k] <= place[l]
    BY <2>2
  <2>4. Replaced(p, new) = CHOOSE k \in named : \A l \in named : place[k] <= place[l]
    BY <1>2 DEF Replaced
  <2> HIDE DEF P
  <2>5. Replaced(p, new) \in named
    BY <2>3, <2>4
  <2>6. QED
    BY <2>5
<1>3. QED
  BY <1>1, <1>2

\* If no element is named twice, it is the pruned one.
LEMMA ReplacedIs ==
  ASSUME place \in [DOMAIN items -> Nat], NEW new, new \notin DOMAIN items,
         Distinct(DOMAIN items \union {new}), NEW p \in DOMAIN items \union {new}
  PROVE  Replaced(p, new) = p
<1> DEFINE named == {k \in DOMAIN items : k.element = p.element}
<1>1. \A k \in named : k = p
  BY DEF Distinct
<1>2. CASE p = new
  <2>1. named = {}
    BY <1>1, <1>2
  <2>2. QED
    BY <1>2, <2>1 DEF Replaced
<1>3. CASE p # new
  <2>1. p \in named /\ place[p] \in Nat
    BY <1>3
  <2>2. Replaced(p, new) = CHOOSE k \in named : \A l \in named : place[k] <= place[l]
    BY <2>1 DEF Replaced
  <2>3. \E k \in named : \A l \in named : place[k] <= place[l]
    BY <1>1, <2>1
  <2> HIDE DEF named
  <2>4. Replaced(p, new) \in named
    BY <2>2, <2>3
  <2>5. QED
    BY <1>1, <2>4
<1>4. QED
  BY <1>2, <1>3

\* HnswUpdateConnection in a full list, none of whose elements was named twice.
LEMMA UpdateFull ==
  ASSUME SelectInv, NEW e \in todo, ~RoomLeft, EachOnce,
         NEW new, new = Connected(e), NEW c, c = DOMAIN items \union {new}, Distinct(c),
         NEW at, NEW s \in Sorted(c, at),
         NEW flag \in [c -> BOOLEAN], \A o \in DOMAIN items : flag[o] = items[o],
         NEW a, a = Loop(s, flag, ~Cached, new)
  PROVE  /\ Cardinality(DOMAIN items) = Lm
         /\ KeptRight(c, a) /\ Replaced(Pruned(a), new) = Pruned(a)
<1> DEFINE I == DOMAIN items
           D == Diverse(c)
           P == Diverse(I)
           must == ~Cached
<1>1. /\ PointOK /\ I \subseteq Candidates /\ new \in Candidates /\ new \notin I /\ Cardinality(I) <= Lm
      /\ c \in SUBSET Candidates /\ c \ {new} = I /\ must \in BOOLEAN /\ Lm \in Nat
      /\ place \in [I -> Nat]
  <2>1. new \in Candidates
    BY DEF SelectInv, Connected, Candidates
  <2>2. QED
    BY <2>1, SelectConstants DEF SelectInv, Cached
<1>2. NearestFirst(s, c)
  BY <1>1, SortedIs
<1>3. IsFiniteSet(I) /\ IsFiniteSet(c) /\ Cardinality(I) \in Nat /\ Cardinality(c) = Cardinality(I) + 1
  BY <1>1, FiniteCandidates, FS_Subset, FS_AddElement, FS_CardinalityType
<1>4. Cardinality(I) = Lm /\ Cardinality(c) = Lm + 1
  BY <1>1, <1>3 DEF RoomLeft
<1>5. IsDiverse(c, D)
  <2>1. \E R : IsDiverse(c, R)
    BY <1>1, <1>2, DiverseExists
  <2>2. QED
    BY <1>1, <2>1, DiverseIs
<1>6. IsDiverse(I, P)
  <2>1. I \in SUBSET c /\ I \in SUBSET Candidates
    BY <1>1
  <2>2. \E R : IsDiverse(I, R)
    BY <1>1, <1>2, <2>1, DiverseExists
  <2>3. QED
    BY <1>1, <2>1, <2>2, DiverseIs
<1>7. ~must => \A o \in I : flag[o] <=> o \in P
  BY DEF SelectInv, FlagsFresh, Cached
<1> HIDE DEF I, D, P, must
<1>8. Given(s, c, D, P, flag, must, new)
  <2>1. \A o \in c : o # new => o \in I
    BY <1>1
  <2>2. new \in c /\ IsDiverse(c \ {new}, P)
    BY <1>1, <1>6
  <2>3. QED
    BY <1>1, <1>2, <1>5, <1>7, <2>1, <2>2 DEF Given
<1>9. LoopInv(s, c, D, P, flag, must, new, Lm + 1, a)
  <2>1. a = Loop(s, flag, must, new)
    BY DEF must
  <2>2. QED
    BY <1>1, <1>4, <1>8, <2>1, LoopInvEnd
<1>10. D = Diverse(c)
  BY DEF D
<1>11. KeptRight(c, a)
  <2>1. CASE Len(a.w) = 0
    BY <1>1, <1>4, <1>8, <1>9, <1>10, <2>1, KeepsAllSeen
  <2>2. CASE Len(a.w) # 0
    BY <1>1, <1>4, <1>8, <1>9, <1>10, <2>2, KeepsFull
  <2>3. QED
    BY <2>1, <2>2
<1>12. Replaced(Pruned(a), new) = Pruned(a)
  <2>1. Pruned(a) \in DOMAIN items \union {new}
    BY <1>11 DEF KeptRight
  <2>2. place \in [DOMAIN items -> Nat] /\ new \notin DOMAIN items
    BY <1>1 DEF I
  <2>3. QED
    BY <2>1, <2>2, ReplacedIs
<1>13. QED
  BY <1>4, <1>11, <1>12 DEF I

LEMMA SelectInvInit == Init => SelectInv
<1>1. SUFFICES ASSUME Init PROVE SelectInv
  OBVIOUS
<1>2. DOMAIN items = {} /\ DOMAIN place = {} /\ Lm \in Nat
  <2>1. items = [k \in {} |-> FALSE] /\ place = [k \in {} |-> 0]
    BY <1>1 DEF Init
  <2>2. DOMAIN items = {} /\ DOMAIN place = {}
    BY <2>1
  <2>3. QED
    BY <2>2, SelectConstants
<1>3. Cardinality(DOMAIN items) = 0
  BY <1>2, FS_EmptySet
<1>4. items \in [DOMAIN items -> BOOLEAN] /\ place \in [DOMAIN items -> Nat]
  BY <1>1, <1>2 DEF Init
<1>5. Distinct(DOMAIN items)
  BY <1>2 DEF Distinct
<1>6. FlagsFresh
  <2>1. closerSet = FALSE
    BY <1>1 DEF Init
  <2>2. QED
    BY <2>1 DEF FlagsFresh
<1>7. 0 <= Lm
  BY <1>2
<1>8. QED
  BY <1>1, <1>2, <1>3, <1>4, <1>5, <1>6, <1>7 DEF Init, SelectInv, PointOK
-----------------------------------------------------------------------------
(***************************************************************************)
(* The actions.                                                            *)
(***************************************************************************)
LEMMA PositionIs ==
  ASSUME NEW s, NEW n \in Nat, DOMAIN s = 1..n, NEW k, \E i \in 1..n : s[i] = k
  PROVE  PositionIn(s, k) \in 1..n
BY DEF PositionIn

LEMMA Concat ==
  ASSUME NEW c, NEW p \in Seq(c), NEW q \in Seq(c)
  PROVE  /\ Len(p) \in Nat /\ Len(q) \in Nat /\ Len(p) + Len(q) \in Nat
         /\ DOMAIN p = 1..Len(p) /\ DOMAIN (p \o q) = 1..(Len(p) + Len(q))
         /\ \A i \in 1..Len(p) : (p \o q)[i] = p[i]
         /\ \A i \in 1..Len(q) : (p \o q)[Len(p) + i] = q[i]
<1>1. Len(p) \in Nat /\ Len(q) \in Nat /\ DOMAIN p = 1..Len(p)
  OBVIOUS
<1>2. \A i \in 1..(Len(p) + Len(q)) : (p \o q)[i] = IF i <= Len(p) THEN p[i] ELSE q[i - Len(p)]
  OBVIOUS
<1>3. DOMAIN (p \o q) = 1..(Len(p) + Len(q))
  OBVIOUS
<1>4. QED
  BY <1>1, <1>2, <1>3

\* What SelectNeighbors returns for the list's own element.
LEMMA SelectedPlaces ==
  ASSUME NEW c, NEW a \in LoopState(c), NEW k \in Selected(a)
  PROVE  PositionIn(a.r \o a.wd, k) \in Nat
<1> DEFINE l == Len(a.r)
           d == Len(a.wd)
           q == a.r \o a.wd
<1>0. a.r \in Seq(c) /\ a.wd \in Seq(c)
  BY StateFields
<1>1. l \in Nat /\ d \in Nat /\ l + d \in Nat /\ Lm \in Nat
  <2>1. Lm \in Nat
    BY SelectConstants
  <2>2. Len(a.r) \in Nat /\ Len(a.wd) \in Nat /\ Len(a.r) + Len(a.wd) \in Nat
    BY <1>0, Concat
  <2>3. QED
    BY <2>1, <2>2
<1>2. /\ DOMAIN q = 1..(l + d) /\ DOMAIN a.r = 1..l
      /\ \A i \in 1..l : q[i] = a.r[i]
      /\ \A i \in 1..d : q[l + i] = a.wd[i]
  <2> DEFINE p == a.r
             o == a.wd
  <2>1. p \in Seq(c) /\ o \in Seq(c)
    BY <1>0
  <2> HIDE DEF p, o
  <2>2. /\ DOMAIN p = 1..Len(p) /\ DOMAIN (p \o o) = 1..(Len(p) + Len(o))
        /\ \A i \in 1..Len(p) : (p \o o)[i] = p[i]
        /\ \A i \in 1..Len(o) : (p \o o)[Len(p) + i] = o[i]
    BY <2>1, Concat
  <2>3. QED
    BY <2>2 DEF p, o
<1> HIDE DEF l, d, q
<1>3. \E i \in 1..(l + d) : q[i] = k
  <2>1. CASE k \in ToSet(a.r)
    <3>1. PICK i \in 1..l : k = a.r[i]
      BY <1>2, <2>1 DEF ToSet
    <3>2. i \in 1..(l + d) /\ q[i] = k
      BY <1>1, <1>2, <3>1
    <3>3. QED
      BY <3>2
  <2>2. CASE k \notin ToSet(a.r)
    <3>1. PICK i \in 1..Fill(a) : k = a.wd[i]
      BY <2>2 DEF Selected
    <3>2. Fill(a) = IF d < Lm - l THEN d ELSE Lm - l
      BY DEF Fill, l, d
    <3>3. i \in 1..d
      BY <1>1, <3>1, <3>2
    <3>4. l + i \in 1..(l + d) /\ q[l + i] = k
      BY <1>1, <1>2, <3>1, <3>3
    <3>5. QED
      BY <3>4
  <2>3. QED
    BY <2>1, <2>2
<1>4. PositionIn(q, k) \in 1..(l + d)
  BY <1>1, <1>2, <1>3, PositionIs
<1>5. QED
  BY <1>1, <1>4 DEF q

\* The own element finds its neighbors: the list is not sorted yet.
LEMMA FindInv ==
  ASSUME SelectInv, NEW C \in SUBSET todo, FindElementNeighbors(C)
  PROVE  SelectInv'
<1> DEFINE c == {Chosen(e) : e \in C}
<1>1. /\ PointOK /\ todo \subseteq Elements /\ closerSet \in BOOLEAN /\ shared \in BOOLEAN /\ again \in BOOLEAN
      /\ ~inserted /\ inserted' = TRUE /\ todo' = (IF shared THEN todo ELSE todo \ C)
      /\ point' = point /\ closerSet' = closerSet /\ shared' = shared /\ again' = again
      /\ Lm \in Nat /\ ~shared => ~again
  BY SelectConstants DEF SelectInv, FindElementNeighbors
<1>2. ~closerSet
  BY <1>1 DEF SelectInv
<1>3. /\ IsFiniteSet(c) /\ Cardinality(c) \in Nat /\ c \subseteq Candidates
      /\ \A k \in c : k.element \in C /\ k = Chosen(k.element)
  <2>0. \A e : Chosen(e).element = e
    BY DEF Chosen
  <2>1. c \subseteq Candidates /\ \A k \in c : k.element \in C /\ k = Chosen(k.element)
    <3>1. C \subseteq Elements
      BY <1>1
    <3>2. \A e \in C : Chosen(e) \in Candidates
      BY <3>1 DEF Chosen, Candidates
    <3>3. QED
      BY <2>0, <3>2
  <2> HIDE DEF c
  <2>2. QED
    BY <2>1, FiniteCandidates, FS_Subset, FS_CardinalityType
<1>4. /\ items' \in [DOMAIN items' -> BOOLEAN] /\ DOMAIN items' \subseteq c
      /\ Cardinality(DOMAIN items') <= Lm /\ place' \in [DOMAIN items' -> Nat]
  <2>1. PICK s \in Orders(c) :
          IF Len(s) <= Lm
            THEN /\ items' \in [ToSet(s) -> BOOLEAN]
                 /\ place' = [k \in ToSet(s) |-> Len(s) + 1 - PositionIn(s, k)]
            ELSE LET a == Loop(s, [k \in ToSet(s) |-> FALSE], TRUE, NoCandidate)
                 IN /\ items' = [k \in Selected(a) |-> a.flag[k]]
                    /\ place' = [k \in Selected(a) |-> PositionIn(a.r \o a.wd, k)]
    BY DEF FindElementNeighbors
  <2> HIDE DEF c
  <2> DEFINE n == Cardinality(c)
  <2>2. s \in [1..n -> c] /\ ToSet(s) = c /\ n \in Nat /\ Len(s) = n /\ DOMAIN s = 1..n
    BY <1>3 DEF Orders
  <2> HIDE DEF n
  <2>3. CASE Len(s) <= Lm
    <3>1. items' \in [c -> BOOLEAN] /\ place' = [k \in c |-> n + 1 - PositionIn(s, k)]
      BY <2>1, <2>2, <2>3
    <3>2. DOMAIN items' = c
      BY <3>1
    <3>3. ASSUME NEW k \in c PROVE n + 1 - PositionIn(s, k) \in Nat
      <4>1. \E i \in 1..n : s[i] = k
        BY <2>2 DEF ToSet
      <4>2. PositionIn(s, k) \in 1..n
        BY <2>2, <4>1, PositionIs
      <4>3. QED
        BY <2>2, <4>2
    <3>4. place' \in [c -> Nat]
      BY <3>1, <3>3
    <3>5. Cardinality(c) <= Lm
      BY <2>2, <2>3 DEF n
    <3>6. QED
      BY <3>1, <3>2, <3>4, <3>5
  <2>4. CASE ~(Len(s) <= Lm)
    <3> DEFINE flag == [k \in c |-> FALSE]
               a == Loop(s, flag, TRUE, NoCandidate)
    <3>1. /\ items' = [k \in Selected(a) |-> a.flag[k]]
          /\ place' = [k \in Selected(a) |-> PositionIn(a.r \o a.wd, k)]
      BY <2>1, <2>2, <2>4
    <3>2. flag \in [c -> BOOLEAN] /\ TRUE \in BOOLEAN
      OBVIOUS
    <3> HIDE DEF flag
    <3>3. a \in LoopState(c) /\ Len(a.r) <= Lm
      BY <2>2, <3>2, LoopType
    <3> HIDE DEF a
    <3>4. Selected(a) \subseteq c /\ Cardinality(Selected(a)) <= Lm
      BY <3>3, SelectedFew
    <3>5. a.flag \in [c -> BOOLEAN]
      BY <3>3, StateFields
    <3>6. DOMAIN items' = Selected(a)
      BY <3>1
    <3>7. \A k \in Selected(a) : a.flag[k] \in BOOLEAN
      BY <3>4, <3>5
    <3>8. place' \in [Selected(a) -> Nat]
      BY <3>1, <3>3, SelectedPlaces
    <3>9. QED
      BY <3>1, <3>4, <3>6, <3>7, <3>8
  <2>5. QED
    BY <2>3, <2>4
<1> HIDE DEF c
<1>5. FlagsFresh'
  BY <1>1, <1>2 DEF FlagsFresh
<1>6. PointOK'
  BY <1>1 DEF PointOK
<1>7. \A e \in todo' : Connected(e) \notin DOMAIN items'
  <2>1. \A e, o : Connected(e) # Chosen(o)
    <3>1. \A e, o : Connected(e).chosen # Chosen(o).chosen
      BY DEF Connected, Chosen
    <3>2. QED
      BY <3>1
  <2>2. QED
    BY <1>3, <1>4, <2>1
<1>8. Distinct(DOMAIN items')
  BY <1>3, <1>4 DEF Distinct
<1>9. ~shared => \A k \in DOMAIN items' : k.element \notin todo'
  BY <1>1, <1>3, <1>4
<1>10. DOMAIN items' \subseteq Candidates /\ todo' \subseteq Elements
  BY <1>1, <1>3, <1>4
<1>11. QED
  BY <1>1, <1>2, <1>4, <1>5, <1>6, <1>7, <1>8, <1>9, <1>10 DEF SelectInv

\* The flags of a list that was just shrunk: what they say is diverse is diverse.
LEMMA FreshAfter ==
  ASSUME PointOK, point' = point, DOMAIN items' \subseteq Candidates, NEW Q, IsDiverse(DOMAIN items', Q),
         \A o \in DOMAIN items' : items'[o] <=> o \in Q
  PROVE  FlagsFresh'
<1>1. PICK K : K = DOMAIN items'
  OBVIOUS
<1>2. PICK R : R = Diverse(DOMAIN items)'
  OBVIOUS
<1>3. /\ \A o : Distance(o)' = Distance(o) /\ \A k, i : Between(k, i)' = Between(k, i)
  BY DEF Distance, Between
<1>4. \A o, i : CompareCandidateDistances(o, i)' <=> CompareCandidateDistances(o, i)
  BY <1>3 DEF CompareCandidateDistances
<1>5. \E V \in SUBSET K : \A i \in K :
        i \in V <=> \A o \in V : CompareCandidateDistances(o, i)' => Between(i, o)' > Distance(i)'
  BY <1>1, <1>3, <1>4 DEF IsDiverse, Closer
<1>6. R = CHOOSE V \in SUBSET K : \A i \in K :
            i \in V <=> \A o \in V : CompareCandidateDistances(o, i)' => Between(i, o)' > Distance(i)'
  BY <1>1, <1>2 DEF Diverse
<1>7. R \in SUBSET K /\ \A i \in K :
        i \in R <=> \A o \in R : CompareCandidateDistances(o, i)' => Between(i, o)' > Distance(i)'
  BY <1>5, <1>6
<1>8. IsDiverse(K, R)
  BY <1>3, <1>4, <1>7 DEF IsDiverse, Closer
<1>9. R = Q
  BY <1>1, <1>8, DiverseUnique
<1>10. QED
  BY <1>2, <1>9 DEF FlagsFresh

LEMMA UpdateInv ==
  ASSUME SelectInv, NEW e \in Elements, HnswUpdateConnection(e)
  PROVE  /\ SelectInv'
         /\ EachOnce' /\ Cardinality(DOMAIN items) = Lm
              => DOMAIN items' = KeptOf(DOMAIN items \union {Connected(e)})
<1> DEFINE new == Connected(e)
           c   == DOMAIN items \union {new}
           at  == [k \in c |-> IF k = new THEN Cardinality(c) ELSE place[k]]
           I   == DOMAIN items
<1>1. /\ inserted /\ e \in todo /\ todo' = todo \ {e} /\ point' = point /\ inserted' = inserted
      /\ shared' = shared /\ again' = (again \/ \E k \in I : k.element = e)
  BY DEF HnswUpdateConnection
<1>2. /\ PointOK /\ todo \subseteq Elements /\ closerSet \in BOOLEAN /\ inserted \in BOOLEAN
      /\ shared \in BOOLEAN /\ again \in BOOLEAN /\ place \in [I -> Nat]
      /\ items \in [I -> BOOLEAN] /\ I \subseteq Candidates /\ new \notin I
      /\ Cardinality(I) <= Lm /\ Lm \in Nat
      /\ \A o \in todo : Connected(o) \notin I
  BY <1>1, SelectConstants DEF SelectInv
<1>3. PICK closer \in BOOLEAN :
        LET flag == [k \in c |-> IF k = new THEN closer ELSE items[k]]
        IN \/ RoomLeft /\ items' = flag /\ place' = at /\ UNCHANGED closerSet
           \/ /\ ~RoomLeft
              /\ \E s \in Sorted(c, at) :
                   LET a   == Loop(s, flag, ~Cached, new)
                       out == Replaced(Pruned(a), new)
                   IN /\ items' = [k \in c \ {out} |-> a.flag[k]]
                      /\ place' = [k \in c \ {out} |-> IF k = new THEN at[out] ELSE at[k]]
              /\ closerSet' = TRUE
  BY DEF HnswUpdateConnection
<1> DEFINE flag == [k \in c |-> IF k = new THEN closer ELSE items[k]]
<1>4. flag \in [c -> BOOLEAN] /\ \A o \in I : flag[o] = items[o]
  BY <1>2
<1>5. /\ IsFiniteSet(c) /\ Cardinality(I) \in Nat /\ Cardinality(c) = Cardinality(I) + 1
      /\ c \subseteq Candidates /\ new.element = e /\ new \in Candidates
  <2>1. new \in Candidates /\ new.element = e
    BY DEF Connected, Candidates
  <2>2. QED
    BY <1>2, <2>1, FiniteCandidates, FS_Subset, FS_AddElement, FS_CardinalityType
<1>6. at \in [c -> Nat]
  BY <1>2, <1>5
<1>7. ~again' => Distinct(c) /\ ~again
  <2>1. SUFFICES ASSUME ~again' PROVE Distinct(c) /\ ~again
    OBVIOUS
  <2>2. ~again /\ Distinct(I) /\ \A k \in I : k.element # e
    BY <1>1, <2>1 DEF SelectInv
  <2>3. QED
    BY <1>5, <2>2 DEF Distinct
<1>8. ~shared => ~again' /\ \A k \in c : k.element \notin todo'
  BY <1>1, <1>5 DEF SelectInv
<1>9. EachOnce' <=> ~again'
  BY <1>1, <1>2, <1>8 DEF EachOnce
<1>10. \A o \in todo' : Connected(o) \notin c
  <2>1. \A o : Connected(o).element = o
    BY DEF Connected
  <2>2. QED
    BY <1>1, <1>2, <2>1
<1>11. PointOK'
  BY <1>1, <1>2 DEF PointOK
<1> HIDE DEF flag, at, new
<1>12. again' \in BOOLEAN
  BY <1>1, <1>2
<1>13. /\ todo' \subseteq Elements /\ inserted' \in BOOLEAN /\ shared' \in BOOLEAN /\ inserted'
  BY <1>1, <1>2
<1>14. CASE RoomLeft
  <2>1. items' = flag /\ place' = at /\ closerSet' = closerSet
    BY <1>3, <1>14 DEF flag, at, new
  <2>2. ~closerSet /\ Cardinality(I) < Lm
    BY <1>2, <1>5, <1>14 DEF RoomLeft, SelectInv
  <2>3. DOMAIN items' = c
    BY <1>4, <2>1
  <2>4. Cardinality(c) <= Lm
    BY <1>2, <1>5, <2>2
  <2>5. FlagsFresh'
    BY <2>1, <2>2 DEF FlagsFresh
  <2> HIDE DEF c
  <2>6. items' \in [DOMAIN items' -> BOOLEAN] /\ place' \in [DOMAIN items' -> Nat]
    BY <1>4, <1>6, <2>1, <2>3
  <2>7. SelectInv'
    BY <1>1, <1>2, <1>5, <1>7, <1>8, <1>10, <1>11, <1>12, <1>13, <2>1, <2>2, <2>3, <2>4, <2>5, <2>6
    DEF SelectInv
  <2>8. ~(Cardinality(I) = Lm)
    BY <1>2, <2>2
  <2>9. QED
    BY <2>7, <2>8
<1>15. CASE ~RoomLeft
  <2>0. PICK s \in Sorted(c, at) :
          LET a   == Loop(s, flag, ~Cached, new)
              out == Replaced(Pruned(a), new)
          IN /\ items' = [k \in c \ {out} |-> a.flag[k]]
             /\ place' = [k \in c \ {out} |-> IF k = new THEN at[out] ELSE at[k]]
    BY <1>3, <1>15 DEF flag, at, new
  <2> DEFINE a   == Loop(s, flag, ~Cached, new)
             out == Replaced(Pruned(a), new)
  <2>1. /\ items' = [k \in c \ {out} |-> a.flag[k]] /\ closerSet' = TRUE
        /\ place' = [k \in c \ {out} |-> IF k = new THEN at[out] ELSE at[k]]
    BY <1>3, <1>15, <2>0
  <2>2. out \in c
    BY <1>2, ReplacedIn
  <2>3. a.flag \in [c -> BOOLEAN]
    <3>1. Cardinality(c) \in Nat
      BY <1>5
    <3>2. (~Cached) \in BOOLEAN
      OBVIOUS
    <3> HIDE DEF c
    <3>3. s \in [1..Cardinality(c) -> c]
      BY OrderIs
    <3>4. a \in LoopState(c)
      BY <1>4, <3>1, <3>2, <3>3, LoopType
    <3> HIDE DEF a
    <3>5. QED
      BY <3>4, StateFields
  <2>4. EachOnce' => /\ Cardinality(I) = Lm /\ KeptRight(c, a) /\ out = Pruned(a)
    <3>1. SUFFICES ASSUME EachOnce'
                   PROVE  Cardinality(I) = Lm /\ KeptRight(c, a) /\ out = Pruned(a)
      OBVIOUS
    <3>2. Distinct(c) /\ EachOnce
      BY <1>7, <1>9, <3>1 DEF EachOnce
    <3>3. QED
      BY <1>1, <1>4, <1>15, <3>2, UpdateFull DEF new
  <2> HIDE DEF a, out
  <2>5. DOMAIN items' = c \ {out} /\ \A o \in DOMAIN items' : items'[o] = a.flag[o]
    BY <2>1
  <2>6. items' \in [DOMAIN items' -> BOOLEAN]
    BY <2>1, <2>3, <2>5
  <2>7. place' \in [DOMAIN items' -> Nat]
    BY <1>6, <2>1, <2>2, <2>5
  <2>8. Cardinality(I) = Lm /\ Cardinality(DOMAIN items') = Lm
    <3>1. Cardinality(I) = Lm
      BY <1>2, <1>5, <1>15 DEF RoomLeft
    <3>2. Cardinality(c \ {out}) = Cardinality(c) - 1
      BY <1>5, <2>2, FS_RemoveElement
    <3>3. QED
      BY <1>2, <1>5, <2>5, <3>1, <3>2
  <2>9. FlagsFresh'
    <3>1. CASE ~EachOnce'
      BY <3>1 DEF FlagsFresh
    <3>2. CASE EachOnce'
      <4>1. PICK Q : IsDiverse(c \ {out}, Q) /\ \A o \in c \ {out} : a.flag[o] <=> o \in Q
        BY <2>4, <3>2 DEF KeptRight
      <4>2. QED
        BY <1>1, <1>2, <1>5, <2>5, <4>1, FreshAfter
    <3>3. QED
      BY <3>1, <3>2
  <2>10. ~again' => Distinct(DOMAIN items')
    BY <1>7, <2>5 DEF Distinct
  <2>11. /\ \A o \in todo' : Connected(o) \notin DOMAIN items'
         /\ ~shared => \A k \in DOMAIN items' : k.element \notin todo'
         /\ DOMAIN items' \subseteq Candidates
    BY <1>5, <1>8, <1>10, <2>5
  <2> HIDE DEF c
  <2>12. SelectInv'
    BY <1>1, <1>2, <1>8, <1>11, <1>12, <1>13, <2>1, <2>6, <2>7, <2>8, <2>9, <2>10, <2>11 DEF SelectInv
  <2>13. EachOnce' => DOMAIN items' = KeptOf(c)
    BY <2>4, <2>5 DEF KeptRight
  <2>14. QED
    BY <2>12, <2>13 DEF c, new
<1>16. QED
  BY <1>14, <1>15

LEMMA SelectInvNext ==
  ASSUME SelectInv, [Next]_vars
  PROVE  SelectInv'
<1>1. CASE UNCHANGED vars
  <2>1. /\ point' = point /\ items' = items /\ place' = place /\ closerSet' = closerSet
        /\ inserted' = inserted /\ shared' = shared /\ todo' = todo /\ again' = again
    BY <1>1 DEF vars
  <2>2. FlagsFresh'
    BY <2>1, SelectInv DEF SelectInv, FlagsFresh, EachOnce, Diverse, CompareCandidateDistances, Distance, Between
  <2>3. QED
    BY <2>1, <2>2 DEF SelectInv, PointOK
<1>2. CASE \E C \in SUBSET todo : Cardinality(C) <= EfConstruction /\ FindElementNeighbors(C)
  BY <1>2, FindInv
<1>3. CASE \E e \in Elements : HnswUpdateConnection(e)
  BY <1>3, UpdateInv
<1>4. QED
  BY <1>1, <1>2, <1>3 DEF Next
-----------------------------------------------------------------------------
(***************************************************************************)
(* The theorems.                                                           *)
(***************************************************************************)

\* The list never has more than Lm candidates. While no element has connected that it
\* named already, which in a serial build is always, it names none twice and the flags
\* it will read are right.
THEOREM SelectInvariant == Spec => []SelectInv
<1>1. Init => SelectInv
  BY SelectInvInit
<1>2. SelectInv /\ [Next]_vars => SelectInv'
  BY SelectInvNext
<1>3. QED
  BY <1>1, <1>2, PTL DEF Spec

\* A closer flag that SelectNeighbors will read is what computing it afresh would give:
\* always in a serial build, and in a parallel one until an element connects that the
\* list names already.
THEOREM FlagsFreshCorrect == Spec => []FlagsFresh
<1>1. SelectInv => FlagsFresh
  BY DEF SelectInv
<1>2. QED
  BY <1>1, SelectInvariant, PTL

\* HnswUpdateConnection keeps what Algorithm 4 of the HNSW paper keeps, of any Lm + 1
\* candidates, for any distance function that is symmetric: always in a serial build,
\* and in a parallel one until an element connects that the list names already.
THEOREM KeepsReferenceCorrect == Spec => KeepsReference
<1> DEFINE Kept == \A e \in todo \ todo' :
                     inserted /\ EachOnce' /\ Cardinality(DOMAIN items) = Lm =>
                       DOMAIN items' = KeptOf(DOMAIN items \union {Connected(e)})
<1>1. ASSUME SelectInv, Next PROVE Kept
  <2>1. CASE \E C \in SUBSET todo : Cardinality(C) <= EfConstruction /\ FindElementNeighbors(C)
    BY <2>1 DEF FindElementNeighbors
  <2>2. CASE \E e \in Elements : HnswUpdateConnection(e)
    <3>1. PICK e \in Elements : HnswUpdateConnection(e)
      BY <2>2
    <3>2. todo \ todo' \subseteq {e}
      BY <3>1 DEF HnswUpdateConnection
    <3>3. EachOnce' /\ Cardinality(DOMAIN items) = Lm
            => DOMAIN items' = KeptOf(DOMAIN items \union {Connected(e)})
      BY <1>1, <3>1, UpdateInv
    <3>4. QED
      BY <3>2, <3>3
  <2>3. CASE todo = {}
    BY <2>3
  <2>4. QED
    BY <1>1, <2>1, <2>2, <2>3 DEF Next
<1>2. SelectInv /\ [Next]_vars => [Kept]_vars
  BY <1>1
<1>3. QED
  BY <1>2, SelectInvariant, PTL DEF KeepsReference, Spec
=============================================================================
