--------------------------- MODULE NatSetInduction ---------------------------
(***************************************************************************)
(* Induction on natural numbers stated for sets instead of predicates,     *)
(* from the well-foundedness of their order: a first-order statement that  *)
(* proofs cite with the set of the numbers they are about.                 *)
(***************************************************************************)
EXTENDS Integers, WellFoundedInduction, TLAPS

\* A set of natural numbers that is not empty has a least element.
LEMMA LeastElement ==
  ASSUME NEW T \in SUBSET Nat, T # {}
  PROVE  \E x \in T : \A y \in T : x <= y
<1> DEFINE R == OpToRel(<, Nat)
<1>1. IsWellFoundedOn(R, Nat)
  BY NatLessThanWellFounded
<1>2. \A x, y \in Nat : x < y => <<x, y>> \in R
  BY DEF OpToRel
<1> HIDE DEF R
<1>3. PICK x \in T : \A y \in T : ~(<<y, x>> \in R)
  BY <1>1, WFMin
<1>4. ASSUME NEW y \in T PROVE x <= y
  <2>1. x \in Nat /\ y \in Nat
    OBVIOUS
  <2>2. ~(y < x)
    BY <2>1, <1>2, <1>3
  <2>3. QED
    BY <2>1, <2>2
<1>5. QED
  BY <1>4

\* A set of natural numbers with 0, and with every number its successor, has all.
LEMMA SetInduction ==
  ASSUME NEW T \in SUBSET Nat, 0 \in T, \A n \in Nat : n \in T => n + 1 \in T
  PROVE  \A n \in Nat : n \in T
<1>1. SUFFICES ASSUME NEW m \in Nat, m \notin T PROVE FALSE
  OBVIOUS
<1> DEFINE U == Nat \ T
<1>2. U \in SUBSET Nat /\ U # {}
  BY <1>1
<1> HIDE DEF U
<1>3. PICK x \in U : \A y \in U : x <= y
  BY <1>2, LeastElement
<1>4. x \in Nat /\ x \notin T
  BY <1>3 DEF U
<1>5. x # 0
  BY <1>4
<1>6. x - 1 \in Nat
  BY <1>4, <1>5
<1>7. x - 1 \in T
  BY <1>3, <1>4, <1>6 DEF U
<1>8. (x - 1) + 1 = x
  BY <1>4
<1>9. QED
  BY <1>4, <1>6, <1>7, <1>8
=============================================================================
