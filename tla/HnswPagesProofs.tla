--------------------------- MODULE HnswPagesProofs ---------------------------
(***************************************************************************)
(* Proofs that HnswPages keeps PagesInv: the space on the pages adds up,   *)
(* the chain of pages is whole, tuples and locks go together, and deleted  *)
(* places are found again.  First sums of sizes, then what the operations  *)
(* on a page and on the sequence of pages do, then the actions.            *)
(***************************************************************************)
EXTENDS HnswPages, NatSetInduction, FiniteSetTheorems, SequenceTheorems

\* Sizes are numbers.
LEMMA SizeFacts ==
  /\ ItemIdSize \in Nat /\ ItemIdSize > 0 /\ EtupSize \in Nat /\ EtupSize > 0 /\ MaxSize \in Nat
  /\ EtupSize <= MaxSize
BY PagesConstants

LEMMA NtupFacts ==
  ASSUME NEW l \in Levels PROVE NtupSize(l) \in Nat /\ NtupSize(l) > 0 /\ NtupSize(l) <= MaxSize
BY PagesConstants

\* Two fields of a page are assigned.
LEMMA RecordUpdate ==
  ASSUME NEW S, NEW pg \in [items : S, free : Nat, next : Nat], NEW i, NEW f
  PROVE  [pg EXCEPT !.items = i, !.free = f] = [items |-> i, free |-> f, next |-> pg.next]
<1> DEFINE q == [pg EXCEPT !.items = i, !.free = f]
<1>1. DOMAIN pg = {"items", "free", "next"}
  OBVIOUS
<1>2. q = [x \in {"items", "free", "next"} |-> q[x]]
  BY <1>1
<1>3. q.items = i /\ q.free = f /\ q.next = pg.next
  BY <1>1
<1> HIDE DEF q
<1>4. q = [items |-> i, free |-> f, next |-> pg.next]
  BY <1>2, <1>3
<1>5. QED
  BY <1>4 DEF q

USE SizeFacts

ItemSet == [kind : {"element", "neighbors"}, size : Nat \ {0}, deleted : BOOLEAN,
            link : Nat \X Nat]

-----------------------------------------------------------------------------
(***************************************************************************)
(* SizeOf, a recursive function over the positions of a sequence.          *)
(***************************************************************************)

\* g[n] is the space of the first n items of s.
Sums(s, g) ==
  /\ g \in [0..Len(s) -> Nat]
  /\ g[0] = 0
  /\ \A n \in 1..Len(s) : g[n] = g[n - 1] + s[n].size + ItemIdSize

LEMMA SumsExist ==
  ASSUME NEW s \in Seq(ItemSet) PROVE \E g : Sums(s, g)
<1> DEFINE Upto(n, g) == /\ g \in [0..n -> Nat]
                         /\ g[0] = 0
                         /\ \A i \in 1..n : g[i] = g[i - 1] + s[i].size + ItemIdSize
           T == {n \in Nat : n <= Len(s) => \E g : Upto(n, g)}
<1>1. 0 \in T
  <2>1. Upto(0, [i \in 0..0 |-> 0])
    OBVIOUS
  <2>2. QED
    BY <2>1
<1>2. ASSUME NEW n \in Nat, n \in T PROVE n + 1 \in T
  <2>1. SUFFICES ASSUME n + 1 <= Len(s) PROVE \E g : Upto(n + 1, g)
    <3> HIDE DEF Upto
    <3>1. QED
      OBVIOUS
  <2>2. n <= Len(s) /\ n + 1 \in 1..Len(s)
    BY <2>1
  <2>a. \E g : Upto(n, g)
    <3> HIDE DEF Upto
    <3>1. QED
      BY <1>2, <2>2
  <2>3. PICK g : Upto(n, g)
    BY <2>a
  <2>b. s[n + 1] \in ItemSet
    BY <2>2
  <2>4. s[n + 1].size \in Nat
    BY <2>b DEF ItemSet
  <2> DEFINE h == [i \in 0..(n + 1) |-> IF i <= n THEN g[i] ELSE g[n] + s[n + 1].size + ItemIdSize]
  <2>c. n \in 0..n /\ g[n] \in Nat /\ \A i \in 0..n : g[i] \in Nat
    BY <2>3
  <2>5. h \in [0..(n + 1) -> Nat]
    <3>1. \A i \in 0..(n + 1) : i <= n => i \in 0..n
      OBVIOUS
    <3>2. QED
      BY <2>c, <2>4, <3>1
  <2>6. h[0] = 0
    BY <2>3
  <2>7. ASSUME NEW i \in 1..(n + 1) PROVE h[i] = h[i - 1] + s[i].size + ItemIdSize
    <3>1. CASE i <= n
      BY <2>3, <3>1
    <3>2. CASE i = n + 1
      BY <2>3, <3>2
    <3>3. QED
      BY <3>1, <3>2
  <2>8. QED
    BY <2>5, <2>6, <2>7
<1>3. T \in SUBSET Nat
  OBVIOUS
<1>4. \A n \in Nat : n \in T
  <2> HIDE DEF T
  <2>1. QED
    BY <1>1, <1>2, <1>3, SetInduction
<1>5. \E g : Upto(Len(s), g)
  <2> HIDE DEF Upto
  <2>1. Len(s) \in Nat
    OBVIOUS
  <2>2. QED
    BY <1>4, <2>1
<1>6. QED
  BY <1>5 DEF Sums

LEMMA SizeOfSums ==
  ASSUME NEW s \in Seq(ItemSet) PROVE \E g : Sums(s, g) /\ SizeOf(s) = g[Len(s)]
<1> DEFINE Rec(g) == [n \in 0..Len(s) |->
                        IF n = 0 THEN 0 ELSE g[n - 1] + s[n].size + ItemIdSize]
           upto == CHOOSE g : g = Rec(g)
<1>1. PICK g : Sums(s, g)
  BY SumsExist
<1>2. g = Rec(g)
  BY <1>1 DEF Sums
<1>3. upto = Rec(upto)
  <2> HIDE DEF Rec
  <2>1. QED
    BY <1>2
<1>4. SizeOf(s) = upto[Len(s)]
  BY DEF SizeOf
<1> HIDE DEF upto
<1>5. Len(s) \in Nat
  OBVIOUS
<1>6. upto[0] = 0 /\ \A n \in 1..Len(s) : upto[n] = upto[n - 1] + s[n].size + ItemIdSize
  BY <1>3, <1>5
<1>7. \A n \in 0..Len(s) : upto[n] = g[n]
  <2> DEFINE T == {n \in Nat : n <= Len(s) => upto[n] = g[n]}
  <2>1. 0 \in T
    BY <1>1, <1>6 DEF Sums
  <2>2. \A n \in Nat : n \in T => n + 1 \in T
    BY <1>1, <1>5, <1>6 DEF Sums
  <2>3. \A n \in Nat : n \in T
    <3> HIDE DEF T
    <3>1. T \in SUBSET Nat
      BY DEF T
    <3>2. QED
      BY <2>1, <2>2, <3>1, SetInduction
  <2>4. QED
    BY <2>3, <1>5
<1>8. SizeOf(s) = g[Len(s)]
  BY <1>4, <1>5, <1>7
<1>9. QED
  BY <1>1, <1>8

LEMMA SizeOfNat ==
  ASSUME NEW s \in Seq(ItemSet) PROVE SizeOf(s) \in Nat
<1>1. PICK g : Sums(s, g) /\ SizeOf(s) = g[Len(s)]
  BY SizeOfSums
<1>2. Len(s) \in 0..Len(s)
  BY LenProperties
<1>3. QED
  BY <1>1, <1>2 DEF Sums

\* Two sums agree as long as the sizes do.
LEMMA SumsAgree ==
  ASSUME NEW s \in Seq(ItemSet), NEW t \in Seq(ItemSet), NEW g, NEW h, Sums(s, g), Sums(t, h),
         NEW m \in Nat, m <= Len(s), m <= Len(t), \A n \in 1..m : s[n].size = t[n].size
  PROVE  g[m] = h[m]
<1> DEFINE T == {n \in Nat : n <= m => g[n] = h[n]}
<1>1. 0 \in T
  BY DEF Sums
<1>2. ASSUME NEW n \in Nat, n \in T PROVE n + 1 \in T
  <2>1. SUFFICES ASSUME n + 1 <= m PROVE g[n + 1] = h[n + 1]
    OBVIOUS
  <2>2. n + 1 \in 1..Len(s) /\ n + 1 \in 1..Len(t) /\ n + 1 \in 1..m /\ (n + 1) - 1 = n
    BY <2>1
  <2>3. g[n + 1] = g[n] + s[n + 1].size + ItemIdSize
    BY <2>2 DEF Sums
  <2>4. h[n + 1] = h[n] + t[n + 1].size + ItemIdSize
    BY <2>2 DEF Sums
  <2>5. g[n] = h[n]
    BY <1>2, <2>1
  <2>6. QED
    BY <2>2, <2>3, <2>4, <2>5
<1>3. \A n \in Nat : n \in T
  <2> HIDE DEF T
  <2>1. T \in SUBSET Nat
    BY DEF T
  <2>2. QED
    BY <1>1, <1>2, <2>1, SetInduction
<1>4. QED
  BY <1>3

LEMMA SizeOfEmpty == SizeOf(<<>>) = 0
<1>1. <<>> \in Seq(ItemSet) /\ Len(<<>>) = 0
  OBVIOUS
<1>2. QED
  BY <1>1, SizeOfSums DEF Sums

LEMMA SizeOfAppend ==
  ASSUME NEW s \in Seq(ItemSet), NEW x \in ItemSet
  PROVE  SizeOf(Append(s, x)) = SizeOf(s) + x.size + ItemIdSize
<1> DEFINE t == Append(s, x)
<1>1. /\ t \in Seq(ItemSet) /\ Len(s) \in Nat /\ Len(t) = Len(s) + 1 /\ t[Len(s) + 1] = x
      /\ \A n \in 1..Len(s) : t[n] = s[n]
  BY AppendProperties
<1> HIDE DEF t
<1>2. PICK g : Sums(s, g) /\ SizeOf(s) = g[Len(s)]
  BY SizeOfSums
<1>3. PICK h : Sums(t, h) /\ SizeOf(t) = h[Len(t)]
  BY <1>1, SizeOfSums
<1>4. g[Len(s)] = h[Len(s)]
  BY <1>1, <1>2, <1>3, SumsAgree
<1>5. h[Len(t)] = h[Len(s)] + x.size + ItemIdSize
  BY <1>1, <1>3 DEF Sums
<1>6. QED
  BY <1>2, <1>3, <1>4, <1>5 DEF t

LEMMA SizeOfExcept ==
  ASSUME NEW s \in Seq(ItemSet), NEW o \in DOMAIN s, NEW x \in ItemSet
  PROVE  SizeOf([s EXCEPT ![o] = x]) = SizeOf(s) + x.size - s[o].size
<1> DEFINE t == [s EXCEPT ![o] = x]
<1>1. /\ t \in Seq(ItemSet) /\ Len(s) \in Nat /\ Len(t) = Len(s) /\ t[o] = x
      /\ \A n \in 1..Len(s) : n # o => t[n] = s[n]
  BY ExceptSeq
<1> HIDE DEF t
<1>a. o \in 1..Len(s) /\ o \in Nat
  BY LenProperties
<1>b. s[o] \in ItemSet
  OBVIOUS
<1>c. x.size \in Nat /\ s[o].size \in Nat
  BY <1>b DEF ItemSet
<1>2. PICK g : Sums(s, g) /\ SizeOf(s) = g[Len(s)]
  BY SizeOfSums
<1>3. PICK h : Sums(t, h) /\ SizeOf(t) = h[Len(t)]
  BY <1>1, SizeOfSums
<1>d. \A n \in 0..Len(s) : g[n] \in Nat /\ h[n] \in Nat
  BY <1>1, <1>2, <1>3 DEF Sums
<1> DEFINE T == {n \in Nat : o + n <= Len(s) => h[o + n] = g[o + n] + x.size - s[o].size}
<1>4. 0 \in T
  <2>1. o - 1 \in Nat /\ o - 1 <= Len(s) /\ \A n \in 1..(o - 1) : s[n].size = t[n].size
    BY <1>1, <1>a
  <2>a. o - 1 <= Len(t)
    BY <2>1, <1>1
  <2>2. g[o - 1] = h[o - 1]
    BY <1>1, <1>2, <1>3, <2>1, <2>a, SumsAgree, SMTT(40)
  <2>3. g[o] = g[o - 1] + s[o].size + ItemIdSize
    BY <1>2, <1>a DEF Sums
  <2>4. h[o] = h[o - 1] + x.size + ItemIdSize
    BY <1>1, <1>3, <1>a DEF Sums
  <2>5. h[o] = g[o] + x.size - s[o].size
    BY <2>1, <2>2, <2>3, <2>4, <1>a, <1>c, <1>d, SMTT(40)
  <2>6. QED
    BY <2>5, <1>a
<1>5. ASSUME NEW n \in Nat, n \in T PROVE n + 1 \in T
  <2>1. SUFFICES ASSUME o + (n + 1) <= Len(s)
                 PROVE  h[o + (n + 1)] = g[o + (n + 1)] + x.size - s[o].size
    OBVIOUS
  <2> DEFINE k == o + n + 1
  <2>2. /\ k \in 1..Len(s) /\ k # o /\ k - 1 = o + n /\ k - 1 \in 0..Len(s)
        /\ o + n <= Len(s) /\ k = o + (n + 1)
    BY <2>1, <1>a
  <2> HIDE DEF k
  <2>3. h[k - 1] = g[k - 1] + x.size - s[o].size
    BY <1>5, <2>2
  <2>4. g[k] = g[k - 1] + s[k].size + ItemIdSize
    BY <1>2, <2>2 DEF Sums
  <2>5. h[k] = h[k - 1] + s[k].size + ItemIdSize
    BY <1>1, <1>3, <2>2 DEF Sums
  <2>6. s[k] \in ItemSet
    BY <2>2
  <2>7. s[k].size \in Nat
    BY <2>6 DEF ItemSet
  <2>8. h[k] = g[k] + x.size - s[o].size
    <3>1. g[k - 1] \in Nat /\ h[k - 1] \in Nat
      BY <1>d, <2>2
    <3>2. QED
      BY <3>1, <2>3, <2>4, <2>5, <2>7, <1>c, SMTT(40)
  <2>9. QED
    BY <2>8, <2>2
<1>6. \A n \in Nat : n \in T
  <2> HIDE DEF T
  <2>1. T \in SUBSET Nat
    BY DEF T
  <2>2. QED
    BY <1>4, <1>5, <2>1, SetInduction
<1>7. PICK d \in Nat : o + d = Len(s)
  <2> DEFINE m == Len(s)
  <2>a. m \in Nat /\ o \in Nat /\ o <= m
    BY <1>a, LenProperties
  <2> HIDE DEF m
  <2>b. m - o \in Nat /\ o + (m - o) = m
    BY <2>a
  <2>1. Len(s) - o \in Nat /\ o + (Len(s) - o) = Len(s)
    BY <2>b DEF m
  <2>2. QED
    BY <2>1
<1>8. h[Len(s)] = g[Len(s)] + x.size - s[o].size
  <2>1. \A n \in Nat : o + n <= Len(s) => h[o + n] = g[o + n] + x.size - s[o].size
    BY <1>6
  <2> HIDE DEF T
  <2>2. QED
    BY <1>7, <2>1, LenProperties
<1>9. QED
  BY <1>1, <1>2, <1>3, <1>8 DEF t
-----------------------------------------------------------------------------
(***************************************************************************)
(* One page.                                                               *)
(***************************************************************************)
PageSet == [items : Seq(ItemSet), free : Nat, next : Nat]

\* The free space and the items add up to the page.
PageOK(pg) == pg \in PageSet /\ pg.free + SizeOf(pg.items) = MaxSize + ItemIdSize

LEMMA EtupItem ==
  ASSUME NEW tid \in Nat \X Nat
  PROVE  /\ Etup(tid) \in ItemSet /\ Etup(tid).size = EtupSize /\ Etup(tid).kind = "element"
         /\ Etup(tid).link = tid /\ ~Etup(tid).deleted
BY DEF Etup, ItemSet

LEMMA NtupItem ==
  ASSUME NEW tid \in Nat \X Nat, NEW l \in Levels
  PROVE  /\ Ntup(l, tid) \in ItemSet /\ Ntup(l, tid).size = NtupSize(l)
         /\ Ntup(l, tid).kind = "neighbors" /\ Ntup(l, tid).link = tid
BY NtupFacts DEF Ntup, ItemSet

LEMMA ItemFields ==
  ASSUME NEW x \in ItemSet
  PROVE  x.size \in Nat /\ x.size > 0 /\ x.deleted \in BOOLEAN /\ x.link \in Nat \X Nat
BY DEF ItemSet

LEMMA PageFields ==
  ASSUME NEW pg, PageOK(pg)
  PROVE  /\ pg.items \in Seq(ItemSet) /\ pg.free \in Nat /\ pg.next \in Nat
         /\ Len(pg.items) \in Nat /\ DOMAIN pg.items = 1..Len(pg.items)
         /\ \A o \in DOMAIN pg.items : pg.items[o] \in ItemSet
         /\ pg.free <= MaxSize + ItemIdSize /\ FreeSpace(pg) \in Nat
<1>1. pg.items \in Seq(ItemSet) /\ pg.free \in Nat /\ pg.next \in Nat
  BY DEF PageOK, PageSet
<1>2. SizeOf(pg.items) \in Nat
  BY <1>1, SizeOfNat
<1>3. pg.free <= MaxSize + ItemIdSize
  BY <1>1, <1>2 DEF PageOK
<1>4. FreeSpace(pg) \in Nat
  BY <1>1 DEF FreeSpace
<1>5. QED
  BY <1>1, <1>3, <1>4, LenProperties

LEMMA EmptyPageOK ==
  /\ PageOK(EmptyPage) /\ FreeSpace(EmptyPage) = MaxSize
  /\ EmptyPage.items = <<>> /\ EmptyPage.next = NoBlock
<1>1. EmptyPage \in PageSet
  BY EmptySeq DEF EmptyPage, PageSet, NoBlock
<1>2. QED
  BY <1>1, SizeOfEmpty DEF EmptyPage, PageOK, FreeSpace

LEMMA NextUpdate ==
  ASSUME NEW pg \in PageSet, NEW n \in Nat
  PROVE  LET q == [pg EXCEPT !.next = n] IN
         q \in PageSet /\ q.items = pg.items /\ q.free = pg.free /\ q.next = n
BY DEF PageSet

LEMMA PageUpdate ==
  ASSUME NEW pg \in PageSet, NEW i, NEW f
  PROVE  [pg EXCEPT !.items = i, !.free = f] = [items |-> i, free |-> f, next |-> pg.next]
BY RecordUpdate DEF PageSet

\* PageAddItem after a check of the free space.
LEMMA AddItemOK ==
  ASSUME NEW pg, PageOK(pg), NEW x \in ItemSet, x.size <= FreeSpace(pg)
  PROVE  /\ PageOK(AddItem(pg, x))
         /\ AddItem(pg, x).next = pg.next
         /\ AddItem(pg, x).free = pg.free - x.size - ItemIdSize
         /\ Len(AddItem(pg, x).items) = Len(pg.items) + 1
         /\ AddItem(pg, x).items[Len(pg.items) + 1] = x
         /\ \A o \in DOMAIN pg.items : AddItem(pg, x).items[o] = pg.items[o]
<1> DEFINE q == AddItem(pg, x)
<1>1. /\ pg.items \in Seq(ItemSet) /\ pg.free \in Nat /\ pg.next \in Nat
      /\ DOMAIN pg.items = 1..Len(pg.items)
  BY PageFields
<1>2. pg \in PageSet
  BY DEF PageOK
<1>3. /\ q.items = Append(pg.items, x) /\ q.free = pg.free - x.size - ItemIdSize
      /\ q.next = pg.next /\ q = [items |-> q.items, free |-> q.free, next |-> q.next]
  <2>1. q = [items |-> Append(pg.items, x), free |-> pg.free - x.size - ItemIdSize,
             next |-> pg.next]
    BY <1>2, PageUpdate DEF AddItem
  <2> HIDE DEF q
  <2>2. QED
    BY <2>1
<1>4. x.size \in Nat /\ x.size > 0
  BY ItemFields
<1>5. q.free \in Nat
  BY <1>1, <1>3, <1>4 DEF FreeSpace
<1>6. /\ q.items \in Seq(ItemSet) /\ Len(q.items) = Len(pg.items) + 1
      /\ q.items[Len(pg.items) + 1] = x
      /\ \A o \in 1..Len(pg.items) : q.items[o] = pg.items[o]
  BY <1>1, <1>3, AppendProperties
<1>7. q \in PageSet
  <2> HIDE DEF q
  <2>1. QED
    BY <1>1, <1>3, <1>5, <1>6 DEF PageSet
<1>8. SizeOf(q.items) = SizeOf(pg.items) + x.size + ItemIdSize
  BY <1>1, <1>3, SizeOfAppend
<1>9. SizeOf(pg.items) \in Nat
  BY <1>1, SizeOfNat
<1>10. q.free + SizeOf(q.items) = MaxSize + ItemIdSize
  <2>1. pg.free + SizeOf(pg.items) = MaxSize + ItemIdSize
    BY DEF PageOK
  <2> HIDE DEF q
  <2>2. QED
    BY <2>1, <1>1, <1>3, <1>4, <1>8, <1>9
<1>11. QED
  BY <1>1, <1>3, <1>6, <1>7, <1>10 DEF PageOK

\* PageIndexTupleOverwrite where it can be done.
LEMMA OverwriteOK ==
  ASSUME NEW pg, PageOK(pg), NEW o \in DOMAIN pg.items, NEW x \in ItemSet,
         CanOverwrite(pg, o, x.size)
  PROVE  /\ PageOK(Overwrite(pg, o, x))
         /\ Overwrite(pg, o, x).next = pg.next
         /\ Overwrite(pg, o, x).free = pg.free + pg.items[o].size - x.size
         /\ DOMAIN Overwrite(pg, o, x).items = DOMAIN pg.items
         /\ Len(Overwrite(pg, o, x).items) = Len(pg.items)
         /\ Overwrite(pg, o, x).items[o] = x
         /\ \A y \in DOMAIN pg.items : y # o => Overwrite(pg, o, x).items[y] = pg.items[y]
<1> DEFINE q == Overwrite(pg, o, x)
<1>1. /\ pg.items \in Seq(ItemSet) /\ pg.free \in Nat /\ pg.next \in Nat
      /\ DOMAIN pg.items = 1..Len(pg.items) /\ pg.items[o] \in ItemSet
  BY PageFields
<1>2. pg \in PageSet
  BY DEF PageOK
<1>3. /\ q.items = [pg.items EXCEPT ![o] = x] /\ q.free = pg.free + pg.items[o].size - x.size
      /\ q.next = pg.next /\ q = [items |-> q.items, free |-> q.free, next |-> q.next]
  <2>1. q = [items |-> [pg.items EXCEPT ![o] = x], free |-> pg.free + pg.items[o].size - x.size,
             next |-> pg.next]
    BY <1>2, PageUpdate DEF Overwrite
  <2> HIDE DEF q
  <2>2. QED
    BY <2>1
<1>4. x.size \in Nat /\ pg.items[o].size \in Nat
  BY <1>1, ItemFields
<1>5. q.free \in Nat
  BY <1>1, <1>3, <1>4 DEF CanOverwrite
<1>6. /\ q.items \in Seq(ItemSet) /\ Len(q.items) = Len(pg.items) /\ q.items[o] = x
      /\ \A y \in 1..Len(pg.items) : y # o => q.items[y] = pg.items[y]
  BY <1>1, <1>3, ExceptSeq
<1>7. q \in PageSet
  <2> HIDE DEF q
  <2>1. QED
    BY <1>1, <1>3, <1>5, <1>6 DEF PageSet
<1>8. SizeOf(q.items) = SizeOf(pg.items) + x.size - pg.items[o].size
  <2> HIDE DEF q
  <2>1. QED
    BY <1>1, <1>3, SizeOfExcept, SMTT(40)
<1>9. SizeOf(pg.items) \in Nat
  BY <1>1, SizeOfNat
<1>10. q.free + SizeOf(q.items) = MaxSize + ItemIdSize
  <2>1. pg.free + SizeOf(pg.items) = MaxSize + ItemIdSize
    BY DEF PageOK
  <2> HIDE DEF q
  <2>2. QED
    BY <2>1, <1>1, <1>3, <1>4, <1>8, <1>9, SMTT(40)
<1>11. DOMAIN q.items = DOMAIN pg.items
  BY <1>1, <1>3
<1>12. QED
  BY <1>1, <1>3, <1>6, <1>7, <1>10, <1>11 DEF PageOK
\* MarkDeleted sets the flag of an item.
LEMMA MarkOK ==
  ASSUME NEW pg, PageOK(pg), NEW o \in DOMAIN pg.items,
         NEW q, q = [pg EXCEPT !.items[o].deleted = TRUE]
  PROVE  /\ PageOK(q) /\ q.next = pg.next /\ DOMAIN q.items = DOMAIN pg.items
         /\ q.items[o].kind = pg.items[o].kind /\ q.items[o].link = pg.items[o].link
         /\ \A y \in DOMAIN pg.items : y # o => q.items[y] = pg.items[y]
<1> DEFINE x == [pg.items[o] EXCEPT !.deleted = TRUE]
           t == [pg.items EXCEPT ![o] = x]
<1>1. /\ pg.items \in Seq(ItemSet) /\ pg.free \in Nat /\ pg.next \in Nat
      /\ DOMAIN pg.items = 1..Len(pg.items) /\ pg.items[o] \in ItemSet
  BY PageFields
<1>2. pg \in PageSet
  BY DEF PageOK
<1>3. /\ x \in ItemSet /\ x.size = pg.items[o].size /\ x.kind = pg.items[o].kind
      /\ x.link = pg.items[o].link
  BY <1>1 DEF ItemSet
<1>4. q = [pg EXCEPT !.items = t]
  OBVIOUS
<1> HIDE DEF x
<1>5. /\ t \in Seq(ItemSet) /\ Len(t) = Len(pg.items) /\ t[o] = x /\ DOMAIN t = DOMAIN pg.items
      /\ \A y \in 1..Len(pg.items) : y # o => t[y] = pg.items[y]
  BY <1>1, <1>3, ExceptSeq
<1>6. SizeOf(t) = SizeOf(pg.items) + x.size - pg.items[o].size
  BY <1>1, <1>3, SizeOfExcept
<1>7. SizeOf(t) = SizeOf(pg.items)
  <2>1. SizeOf(pg.items) \in Nat /\ pg.items[o].size \in Nat
    BY <1>1, SizeOfNat, ItemFields
  <2>2. QED
    BY <1>3, <1>6, <2>1
<1> HIDE DEF t
<1>8. q.items = t /\ q.free = pg.free /\ q.next = pg.next /\ q \in PageSet
  BY <1>2, <1>4, <1>5 DEF PageSet
<1>9. PageOK(q)
  BY <1>7, <1>8 DEF PageOK
<1>10. QED
  BY <1>1, <1>3, <1>5, <1>8, <1>9
-----------------------------------------------------------------------------
(***************************************************************************)
(* The sequence of pages.                                                  *)
(***************************************************************************)

\* Every page adds up, and knows the next one.
Chained(ps) ==
  /\ ps \in Seq(PageSet) /\ Len(ps) > 0
  /\ \A b \in 1..Len(ps) : PageOK(ps[b]) /\ ps[b].next = IF b = Len(ps) THEN NoBlock ELSE b + 1

\* The element tuple at offset o of page b knows its neighbor tuple, which is on that
\* page or a later one.
PairedAt(ps, b, o) ==
  LET n == ps[b].items[o].link IN
  /\ n[1] \in 1..Len(ps) /\ n[1] >= b /\ n[2] \in DOMAIN ps[n[1]].items
  /\ ps[n[1]].items[n[2]].kind = "neighbors" /\ ps[n[1]].items[n[2]].link = <<b, o>>

Pairs(ps) ==
  \A b \in 1..Len(ps) : \A o \in DOMAIN ps[b].items :
    ps[b].items[o].kind = "element" => PairedAt(ps, b, o)

\* Tuples stay where they are, and what they are.
Kept(ps, qs) ==
  /\ Len(ps) <= Len(qs)
  /\ \A b \in 1..Len(ps) : \A o \in DOMAIN ps[b].items :
       /\ o \in DOMAIN qs[b].items
       /\ qs[b].items[o].kind = ps[b].items[o].kind
       /\ qs[b].items[o].link = ps[b].items[o].link

\* Deleted elements were deleted before.
NoneDeleted(ps, qs) ==
  \A b \in 1..Len(qs) : \A o \in DOMAIN qs[b].items :
    qs[b].items[o].kind = "element" /\ qs[b].items[o].deleted =>
      /\ b \in 1..Len(ps) /\ o \in DOMAIN ps[b].items
      /\ ps[b].items[o].kind = "element" /\ ps[b].items[o].deleted

\* The neighbor tuple of an element, given by its page and offset.
LEMMA PairedIf ==
  ASSUME NEW ps, NEW b, NEW o, NEW nb, NEW no, ps[b].items[o].link = <<nb, no>>,
         nb \in 1..Len(ps), nb >= b, no \in DOMAIN ps[nb].items,
         ps[nb].items[no].kind = "neighbors", ps[nb].items[no].link = <<b, o>>
  PROVE  PairedAt(ps, b, o)
BY DEF PairedAt

LEMMA ChainFields ==
  ASSUME NEW ps, Chained(ps)
  PROVE  /\ Len(ps) \in Nat /\ DOMAIN ps = 1..Len(ps) /\ Len(ps) \in 1..Len(ps)
         /\ \A b \in 1..Len(ps) : ps[b] \in PageSet /\ PageOK(ps[b])
BY LenProperties DEF Chained

LEMMA SetPage ==
  ASSUME NEW ps, Chained(ps), NEW b \in 1..Len(ps), NEW pg, PageOK(pg), pg.next = ps[b].next,
         NEW qs, qs = [ps EXCEPT ![b] = pg]
  PROVE  /\ Chained(qs) /\ Len(qs) = Len(ps) /\ qs[b] = pg
         /\ \A c \in 1..Len(ps) : c # b => qs[c] = ps[c]
<1>1. ps \in Seq(PageSet) /\ pg \in PageSet
  BY DEF Chained, PageOK
<1> DEFINE rs == [ps EXCEPT ![b] = pg]
<1>2. /\ rs \in Seq(PageSet) /\ Len(rs) = Len(ps)
      /\ \A c \in 1..Len(ps) : rs[c] = IF c = b THEN pg ELSE ps[c]
  BY <1>1, ExceptSeq
<1>3. qs = rs
  OBVIOUS
<1> HIDE DEF rs
<1>4. Chained(rs)
  BY <1>2 DEF Chained
<1>5. /\ Chained(rs) /\ Len(rs) = Len(ps) /\ rs[b] = pg
      /\ \A c \in 1..Len(ps) : c # b => rs[c] = ps[c]
  BY <1>2, <1>4
<1>6. QED
  BY <1>3, <1>5, Zenon

LEMMA PairsKept ==
  ASSUME NEW ps, NEW qs, Chained(ps), Chained(qs), Pairs(ps), Kept(ps, qs),
         \A b \in 1..Len(qs) : \A o \in DOMAIN qs[b].items :
           /\ qs[b].items[o].kind = "element"
           /\ b \notin 1..Len(ps) \/ o \notin DOMAIN ps[b].items
           => PairedAt(qs, b, o)
  PROVE  Pairs(qs)
<1>1. SUFFICES ASSUME NEW b \in 1..Len(qs), NEW o \in DOMAIN qs[b].items,
                      qs[b].items[o].kind = "element",
                      b \in 1..Len(ps), o \in DOMAIN ps[b].items
               PROVE  PairedAt(qs, b, o)
  BY DEF Pairs
<1>2. PairedAt(ps, b, o) /\ qs[b].items[o].link = ps[b].items[o].link
  BY <1>1 DEF Pairs, Kept
<1>3. 1..Len(ps) \subseteq 1..Len(qs)
  BY ChainFields DEF Kept
<1> DEFINE m == ps[b].items[o].link
<1>4. /\ m[1] \in 1..Len(ps) /\ m[1] >= b /\ m[2] \in DOMAIN ps[m[1]].items
      /\ ps[m[1]].items[m[2]].kind = "neighbors" /\ ps[m[1]].items[m[2]].link = <<b, o>>
  BY <1>2 DEF PairedAt
<1> HIDE DEF m
<1>5. /\ m[2] \in DOMAIN qs[m[1]].items /\ qs[m[1]].items[m[2]].kind = "neighbors"
      /\ qs[m[1]].items[m[2]].link = <<b, o>>
  BY <1>4 DEF Kept
<1>6. qs[b].items[o].link = m
  BY <1>2 DEF m
<1>7. QED
  BY <1>3, <1>4, <1>5, <1>6 DEF PairedAt

\* HnswInsertAppendPage, HnswBuildAppendPage
LEMMA ExtendedOK ==
  ASSUME NEW ps, Chained(ps), NEW qs, qs = Extended(ps, Len(ps))
  PROVE  /\ Chained(qs) /\ Len(qs) = Len(ps) + 1 /\ qs[Len(ps) + 1] = EmptyPage
         /\ \A c \in 1..Len(ps) : qs[c].items = ps[c].items /\ qs[c].free = ps[c].free
         /\ \A c \in 1..Len(ps) : c # Len(ps) => qs[c] = ps[c]
<1> DEFINE n  == Len(ps)
           pg == [ps[n] EXCEPT !.next = n + 1]
           rs == [ps EXCEPT ![n] = pg]
<1>1. ps \in Seq(PageSet) /\ n \in Nat /\ n \in 1..n /\ PageOK(ps[n])
  BY ChainFields DEF Chained
<1>2. pg \in PageSet /\ pg.items = ps[n].items /\ pg.free = ps[n].free /\ pg.next = n + 1
  <2>1. ps[n] \in PageSet /\ n + 1 \in Nat
    BY <1>1 DEF PageOK
  <2> HIDE DEF n
  <2>2. QED
    BY <2>1, NextUpdate
<1>3. PageOK(pg)
  BY <1>1, <1>2 DEF PageOK
<1>4. qs = Append(rs, EmptyPage)
  BY DEF Extended
<1> HIDE DEF pg
<1>5. /\ rs \in Seq(PageSet) /\ Len(rs) = n
      /\ \A c \in 1..n : rs[c] = IF c = n THEN pg ELSE ps[c]
  BY <1>1, <1>2, ExceptSeq
<1> HIDE DEF rs
<1>6. EmptyPage \in PageSet
  BY EmptyPageOK DEF PageOK
<1>7. /\ qs \in Seq(PageSet) /\ Len(qs) = n + 1 /\ qs[n + 1] = EmptyPage
      /\ \A c \in 1..n : qs[c] = IF c = n THEN pg ELSE ps[c]
  BY <1>4, <1>5, <1>6, AppendProperties
<1>8. ASSUME NEW b \in 1..Len(qs)
      PROVE  PageOK(qs[b]) /\ qs[b].next = IF b = Len(qs) THEN NoBlock ELSE b + 1
  <2>1. CASE b = n + 1
    BY <2>1, <1>7, EmptyPageOK
  <2>2. CASE b = n
    BY <2>2, <1>1, <1>2, <1>3, <1>7
  <2>3. CASE b \in 1..n /\ b # n
    BY <2>3, <1>1, <1>7 DEF Chained
  <2>4. QED
    BY <1>1, <1>7, <2>1, <2>2, <2>3
<1>9. Chained(qs)
  BY <1>1, <1>7, <1>8 DEF Chained
<1>10. QED
  BY <1>1, <1>2, <1>7, <1>9
\* What inserts do to the pages: those outside B stay as they are.
Changes(ps, qs, B) ==
  /\ Chained(qs) /\ Pairs(qs) /\ Kept(ps, qs) /\ NoneDeleted(ps, qs)
  /\ \A c \in 1..Len(ps) : c \notin B => qs[c] = ps[c]

LEMMA ExtendedChanges ==
  ASSUME NEW ps, Chained(ps), Pairs(ps), NEW qs, qs = Extended(ps, Len(ps))
  PROVE  Changes(ps, qs, {Len(ps)})
<1>1. /\ Chained(qs) /\ Len(qs) = Len(ps) + 1 /\ qs[Len(ps) + 1] = EmptyPage
      /\ \A c \in 1..Len(ps) : qs[c].items = ps[c].items
      /\ \A c \in 1..Len(ps) : c # Len(ps) => qs[c] = ps[c]
  BY ExtendedOK
<1>2. Len(ps) \in Nat /\ \A b \in 1..Len(qs) : b \in 1..Len(ps) \/ b = Len(ps) + 1
  BY <1>1, ChainFields
<1>3. DOMAIN qs[Len(ps) + 1].items = {}
  BY <1>1, EmptyPageOK
<1>4. Kept(ps, qs)
  BY <1>1, <1>2 DEF Kept
<1>5. NoneDeleted(ps, qs)
  BY <1>1, <1>2, <1>3 DEF NoneDeleted
<1>6. Pairs(qs)
  BY <1>1, <1>2, <1>3, <1>4, PairsKept
<1>7. QED
  BY <1>1, <1>4, <1>5, <1>6 DEF Changes

\* A page with room for both tuples has room for the second after the first.
LEMMA RoomForBoth ==
  ASSUME NEW pg, NEW pg1, NEW s \in Nat, NEW u \in Nat, pg.free \in Nat,
         pg1.free = pg.free - s - ItemIdSize, FreeSpace(pg) >= s + u + ItemIdSize
  PROVE  s <= FreeSpace(pg) /\ u <= FreeSpace(pg1)
<1> DEFINE f == pg.free
           g == pg1.free
<1>1. f \in Nat /\ g = f - s - ItemIdSize /\ ItemIdSize \in Nat \ {0}
      /\ (IF f < ItemIdSize THEN 0 ELSE f - ItemIdSize) >= s + u + ItemIdSize
  BY PagesConstants DEF FreeSpace
<1>2. /\ FreeSpace(pg)  = IF f < ItemIdSize THEN 0 ELSE f - ItemIdSize
      /\ FreeSpace(pg1) = IF g < ItemIdSize THEN 0 ELSE g - ItemIdSize
  BY DEF FreeSpace
<1> HIDE DEF f, g
<1>3. QED
  BY <1>1, <1>2

LEMMA AddBothHere ==
  ASSUME NEW ps, Chained(ps), Pairs(ps), NEW b \in 1..Len(ps), NEW l \in Levels,
         FreeSpace(ps[b]) >= CombinedSize(l), NEW qs, qs = AddBoth(ps, b, b, l)
  PROVE  Changes(ps, qs, {b}) /\ Len(qs) = Len(ps)
<1> DEFINE off == Len(ps[b].items) + 1
           e   == Etup(<<b, off + 1>>)
           n   == Ntup(l, <<b, off>>)
           pg1 == AddItem(ps[b], e)
           pg2 == AddItem(pg1, n)
           ps1 == [ps EXCEPT ![b] = pg1]
<1>1. /\ PageOK(ps[b]) /\ off \in Nat /\ b \in Nat /\ ps[b].free \in Nat
      /\ DOMAIN ps[b].items = 1..Len(ps[b].items) /\ Len(ps[b].items) \in Nat
  BY ChainFields, PageFields
<1>2. <<b, off + 1>> \in Nat \X Nat /\ <<b, off>> \in Nat \X Nat
  BY <1>1
<1>3. e \in ItemSet /\ e.size = EtupSize /\ e.link = <<b, off + 1>> /\ ~e.deleted /\ e.kind = "element"
  BY <1>2, EtupItem
<1>4. n \in ItemSet /\ n.size = NtupSize(l) /\ n.link = <<b, off>> /\ n.kind = "neighbors"
  BY <1>2, NtupItem
<1>5. NtupSize(l) \in Nat /\ NtupSize(l) > 0
  BY NtupFacts
<1> HIDE DEF e, n
<1>sizes. /\ e.size \in Nat /\ n.size \in Nat /\ FreeSpace(ps[b]) >= e.size + n.size + ItemIdSize
          /\ pg1.free = ps[b].free - e.size - ItemIdSize
  <2>1. FreeSpace(ps[b]) >= e.size + n.size + ItemIdSize
    BY <1>3, <1>4 DEF CombinedSize
  <2>2. PICK pg : pg = ps[b]
    OBVIOUS
  <2>3. AddItem(pg, e).free = pg.free - e.size - ItemIdSize
    BY <1>1, <2>2, PageFields DEF AddItem, PageOK, PageSet
  <2>4. QED
    BY <1>3, <1>4, <1>5, <2>1, <2>2, <2>3, PagesConstants
<1>room. e.size <= FreeSpace(ps[b]) /\ n.size <= FreeSpace(pg1)
  <2> HIDE DEF pg1
  <2>1. QED
    BY <1>1, <1>sizes, RoomForBoth
<1>6. e.size <= FreeSpace(ps[b])
  BY <1>room
<1>7. /\ PageOK(pg1) /\ pg1.next = ps[b].next /\ pg1.free = ps[b].free - e.size - ItemIdSize
      /\ Len(pg1.items) = off /\ pg1.items[off] = e
      /\ \A o \in 1..Len(ps[b].items) : pg1.items[o] = ps[b].items[o]
  <2> HIDE DEF off
  <2> DEFINE pg == ps[b]
             q  == AddItem(pg, e)
  <2>a. PageOK(pg) /\ e \in ItemSet /\ e.size <= FreeSpace(pg)
    BY <1>1, <1>3, <1>6
  <2> HIDE DEF pg
  <2>b. /\ PageOK(q) /\ q.next = pg.next /\ q.free = pg.free - e.size - ItemIdSize
        /\ Len(q.items) = Len(pg.items) + 1 /\ q.items[Len(pg.items) + 1] = e
        /\ \A o \in DOMAIN pg.items : q.items[o] = pg.items[o]
    BY <2>a, AddItemOK
  <2>1. /\ PageOK(pg1) /\ pg1.next = ps[b].next /\ pg1.free = ps[b].free - e.size - ItemIdSize
        /\ Len(pg1.items) = Len(ps[b].items) + 1 /\ pg1.items[Len(ps[b].items) + 1] = e
        /\ \A o \in DOMAIN ps[b].items : pg1.items[o] = ps[b].items[o]
    BY <2>b, Zenon DEF pg
  <2>2. QED
    BY <1>1, <2>1 DEF off
<1> HIDE DEF pg1
<1>8. n.size <= FreeSpace(pg1)
  BY <1>room
<1>a. DOMAIN pg1.items = 1..off
  BY <1>7, PageFields
<1>9. /\ PageOK(pg2) /\ pg2.next = pg1.next
      /\ Len(pg2.items) = off + 1 /\ pg2.items[off + 1] = n
      /\ \A o \in 1..off : pg2.items[o] = pg1.items[o]
  <2> HIDE DEF off
  <2>1. Len(pg1.items) = off /\ PageOK(pg1) /\ n \in ItemSet
    BY <1>4, <1>7
  <2>2. /\ PageOK(pg2) /\ pg2.next = pg1.next
        /\ Len(pg2.items) = Len(pg1.items) + 1 /\ pg2.items[Len(pg1.items) + 1] = n
        /\ \A o \in DOMAIN pg1.items : pg2.items[o] = pg1.items[o]
    BY <1>8, <2>1, AddItemOK
  <2> HIDE DEF pg2
  <2>3. QED
    BY <1>a, <2>1, <2>2
<1> HIDE DEF pg2
<1>b. DOMAIN pg2.items = 1..(off + 1)
  BY <1>9, PageFields
<1>10. Chained(ps1) /\ Len(ps1) = Len(ps) /\ ps1[b] = pg1 /\ \A c \in 1..Len(ps) : c # b => ps1[c] = ps[c]
  BY <1>7, SetPage
<1>11. qs = [ps1 EXCEPT ![b] = AddItem(ps1[b], n)]
  <2>1. AddBoth(ps, b, b, l) = [ps1 EXCEPT ![b] = AddItem(ps1[b], n)]
    BY Zenon DEF AddBoth, e, n, pg1
  <2>2. QED
    BY <2>1
<1> HIDE DEF ps1
<1>12. qs = [ps1 EXCEPT ![b] = pg2]
  BY <1>10, <1>11 DEF pg2
<1>13. /\ Chained(qs) /\ Len(qs) = Len(ps) /\ qs[b] = pg2
       /\ \A c \in 1..Len(ps) : c # b => qs[c] = ps[c]
  <2>1. b \in 1..Len(ps1) /\ pg2.next = ps1[b].next /\ Chained(ps1) /\ PageOK(pg2)
    BY <1>9, <1>10
  <2> DEFINE rs == [ps1 EXCEPT ![b] = pg2]
  <2>2. /\ Chained(rs) /\ Len(rs) = Len(ps1) /\ rs[b] = pg2
        /\ \A c \in 1..Len(ps1) : c # b => rs[c] = ps1[c]
    BY <2>1, SetPage
  <2>3. qs = rs
    BY <1>12
  <2> HIDE DEF rs
  <2>4. QED
    BY <1>10, <2>2, <2>3
<1>c. \A o \in 1..Len(ps[b].items) : o \in 1..off /\ o \in 1..(off + 1)
  BY <1>1
<1>14. Kept(ps, qs)
  <2>1. \A o \in DOMAIN ps[b].items : o \in DOMAIN pg2.items /\ pg2.items[o] = ps[b].items[o]
    BY <1>1, <1>7, <1>9, <1>b, <1>c
  <2>2. Len(ps) \in Nat
    BY ChainFields
  <2>3. QED
    BY <1>13, <2>1, <2>2 DEF Kept
<1>d. \A o \in DOMAIN pg2.items : o \in DOMAIN ps[b].items \/ o = off \/ o = off + 1
  BY <1>1, <1>b
<1>e. pg2.items[off] = e /\ off \in 1..off
  BY <1>1, <1>7, <1>9, SMTT(40)
<1>15. NoneDeleted(ps, qs)
  <2>1. SUFFICES ASSUME NEW c \in 1..Len(qs), NEW o \in DOMAIN qs[c].items,
                        qs[c].items[o].kind = "element", qs[c].items[o].deleted
                 PROVE  /\ c \in 1..Len(ps) /\ o \in DOMAIN ps[c].items
                        /\ ps[c].items[o].kind = "element" /\ ps[c].items[o].deleted
    BY DEF NoneDeleted
  <2>2. CASE c # b
    BY <2>1, <2>2, <1>13
  <2>3. CASE c = b
    <3>1. o # off /\ o # off + 1
      BY <2>1, <2>3, <1>3, <1>4, <1>9, <1>13, <1>e
    <3>2. o \in DOMAIN ps[b].items
      BY <1>d, <1>13, <2>1, <2>3, <3>1
    <3>3. pg2.items[o] = ps[b].items[o]
      BY <3>2, <1>1, <1>7, <1>9, <1>c
    <3>4. QED
      BY <3>2, <3>3, <2>1, <2>3, <1>13
  <2>4. QED
    BY <2>2, <2>3
<1>16. Pairs(qs)
  <2>1. ASSUME NEW c \in 1..Len(qs), NEW o \in DOMAIN qs[c].items,
               qs[c].items[o].kind = "element", c \notin 1..Len(ps) \/ o \notin DOMAIN ps[c].items
        PROVE  PairedAt(qs, c, o)
    <3>1. c = b
      BY <2>1, <1>13
    <3>2. o # off + 1
      BY <2>1, <3>1, <1>4, <1>9, <1>13
    <3>3. o = off
      BY <3>1, <3>2, <2>1, <1>d, <1>13
    <3>4. qs[c].items[o].link = <<b, off + 1>>
      BY <3>1, <3>3, <1>3, <1>13, <1>e
    <3>5. off + 1 \in DOMAIN qs[b].items
      BY <1>1, <1>13, <1>b
    <3>6. /\ qs[b].items[off + 1].kind = "neighbors" /\ qs[b].items[off + 1].link = <<b, off>>
          /\ b \in 1..Len(qs) /\ b >= b
      BY <1>1, <1>4, <1>9, <1>13
    <3>7. QED
      BY <3>1, <3>3, <3>4, <3>5, <3>6, PairedIf
  <2>2. QED
    BY <2>1, <1>13, <1>14, PairsKept
<1>17. QED
  BY <1>13, <1>14, <1>15, <1>16 DEF Changes
LEMMA ChangesTrans ==
  ASSUME NEW ps, NEW rs, NEW qs, NEW B, NEW C, Chained(ps), Changes(ps, rs, B), Changes(rs, qs, C),
         C \cap 1..Len(ps) \subseteq B
  PROVE  Changes(ps, qs, B)
<1>1. Len(ps) \in Nat /\ Len(rs) \in Nat /\ Len(qs) \in Nat /\ Len(ps) <= Len(rs) /\ Len(rs) <= Len(qs)
  BY ChainFields DEF Changes, Kept
<1>2. 1..Len(ps) \subseteq 1..Len(rs) /\ Len(ps) <= Len(qs)
  BY <1>1
<1>3. Kept(ps, qs)
  BY <1>2 DEF Changes, Kept
<1>4. NoneDeleted(ps, qs)
  <2>1. NoneDeleted(ps, rs) /\ NoneDeleted(rs, qs)
    BY DEF Changes
  <2>2. QED
    BY <2>1 DEF NoneDeleted
<1>5. \A c \in 1..Len(ps) : c \notin B => qs[c] = ps[c]
  BY <1>2 DEF Changes
<1>6. QED
  BY <1>3, <1>4, <1>5 DEF Changes

\* The neighbor tuple goes to a later page, still empty.
LEMMA AddBothThere ==
  ASSUME NEW ps, Chained(ps), Pairs(ps), NEW b \in 1..Len(ps), NEW nb \in 1..Len(ps), b < nb,
         ps[nb].items = <<>>, FreeSpace(ps[nb]) = MaxSize, NEW l \in Levels,
         FreeSpace(ps[b]) >= EtupSize, NEW qs, qs = AddBoth(ps, b, nb, l)
  PROVE  Changes(ps, qs, {b, nb}) /\ Len(qs) = Len(ps)
<1> DEFINE off == Len(ps[b].items) + 1
           e   == Etup(<<nb, 1>>)
           n   == Ntup(l, <<b, off>>)
           pg1 == AddItem(ps[b], e)
           pg2 == AddItem(ps[nb], n)
           ps1 == [ps EXCEPT ![b] = pg1]
<1>0. b \in Nat /\ nb \in Nat /\ nb >= b /\ nb # b /\ PageOK(ps[b]) /\ PageOK(ps[nb])
  BY ChainFields
<1>1. /\ PageOK(ps[b]) /\ off \in Nat /\ b \in Nat /\ nb \in Nat /\ PageOK(ps[nb])
      /\ DOMAIN ps[b].items = 1..Len(ps[b].items) /\ Len(ps[b].items) \in Nat /\ nb >= b
      /\ nb # b
  BY <1>0, PageFields
<1>2. <<nb, 1>> \in Nat \X Nat /\ <<b, off>> \in Nat \X Nat
  BY <1>1
<1>3. e \in ItemSet /\ e.size = EtupSize /\ e.link = <<nb, 1>> /\ ~e.deleted /\ e.kind = "element"
  BY <1>2, EtupItem
<1>4. n \in ItemSet /\ n.size = NtupSize(l) /\ n.link = <<b, off>> /\ n.kind = "neighbors"
  BY <1>2, NtupItem
<1> HIDE DEF e, n
<1>5. e.size <= FreeSpace(ps[b]) /\ n.size <= FreeSpace(ps[nb])
  <2>1. FreeSpace(ps[b]) \in Nat /\ NtupSize(l) <= MaxSize
    BY <1>1, PageFields, NtupFacts
  <2>2. QED
    BY <2>1, <1>3, <1>4
<1>6. /\ PageOK(pg1) /\ pg1.next = ps[b].next
      /\ Len(pg1.items) = off /\ pg1.items[off] = e
      /\ \A o \in 1..Len(ps[b].items) : pg1.items[o] = ps[b].items[o]
  <2> HIDE DEF off
  <2>1. /\ PageOK(pg1) /\ pg1.next = ps[b].next
        /\ Len(pg1.items) = Len(ps[b].items) + 1 /\ pg1.items[Len(ps[b].items) + 1] = e
        /\ \A o \in DOMAIN ps[b].items : pg1.items[o] = ps[b].items[o]
    BY <1>1, <1>3, <1>5, AddItemOK, SMTT(40)
  <2>2. QED
    BY <1>1, <2>1 DEF off
<1>a. DOMAIN pg1.items = 1..off
  BY <1>6, PageFields
<1>7. PageOK(pg2) /\ pg2.next = ps[nb].next /\ Len(pg2.items) = 1 /\ pg2.items[1] = n
  <2>1. Len(ps[nb].items) = 0
    OBVIOUS
  <2>2. /\ PageOK(pg2) /\ pg2.next = ps[nb].next /\ Len(pg2.items) = Len(ps[nb].items) + 1
        /\ pg2.items[Len(ps[nb].items) + 1] = n
    BY <1>1, <1>4, <1>5, AddItemOK
  <2>3. QED
    BY <2>1, <2>2
<1>b. DOMAIN pg2.items = {1}
  <2>1. DOMAIN pg2.items = 1..1
    BY <1>7, PageFields
  <2>2. QED
    BY <2>1
<1> HIDE DEF pg1, pg2
<1>8. Chained(ps1) /\ Len(ps1) = Len(ps) /\ ps1[b] = pg1 /\ \A c \in 1..Len(ps) : c # b => ps1[c] = ps[c]
  BY <1>6, SetPage
<1>9. qs = [ps1 EXCEPT ![nb] = AddItem(ps1[nb], n)]
  <2>1. AddBoth(ps, b, nb, l) = [ps1 EXCEPT ![nb] = AddItem(ps1[nb], n)]
    BY <1>1, Zenon DEF AddBoth, e, n, pg1
  <2>2. QED
    BY <2>1
<1> HIDE DEF ps1
<1>10. qs = [ps1 EXCEPT ![nb] = pg2]
  BY <1>1, <1>8, <1>9 DEF pg2
<1>11. /\ Chained(qs) /\ Len(qs) = Len(ps) /\ qs[nb] = pg2 /\ qs[b] = pg1
       /\ \A c \in 1..Len(ps) : c # b /\ c # nb => qs[c] = ps[c]
  <2>1. nb \in 1..Len(ps1) /\ pg2.next = ps1[nb].next
    BY <1>1, <1>7, <1>8
  <2> DEFINE rs == [ps1 EXCEPT ![nb] = pg2]
  <2>2. /\ Chained(rs) /\ Len(rs) = Len(ps1) /\ rs[nb] = pg2
        /\ \A c \in 1..Len(ps1) : c # nb => rs[c] = ps1[c]
    BY <1>7, <1>8, <2>1, SetPage
  <2>3. qs = rs
    BY <1>10
  <2> HIDE DEF rs
  <2>4. QED
    BY <1>8, <2>2, <2>3
<1>12. Kept(ps, qs)
  <2>1. \A o \in DOMAIN ps[b].items : o \in DOMAIN pg1.items /\ pg1.items[o] = ps[b].items[o]
    BY <1>1, <1>6, <1>a
  <2>2. DOMAIN ps[nb].items = {}
    OBVIOUS
  <2>3. QED
    BY <1>1, <1>11, <2>1, <2>2, SMTT(40) DEF Kept
<1>c. \A o \in DOMAIN pg1.items : o \in DOMAIN ps[b].items \/ o = off
  BY <1>1, <1>a
<1>13. NoneDeleted(ps, qs)
  <2>1. SUFFICES ASSUME NEW c \in 1..Len(qs), NEW o \in DOMAIN qs[c].items,
                        qs[c].items[o].kind = "element", qs[c].items[o].deleted
                 PROVE  /\ c \in 1..Len(ps) /\ o \in DOMAIN ps[c].items
                        /\ ps[c].items[o].kind = "element" /\ ps[c].items[o].deleted
    BY DEF NoneDeleted
  <2>2. CASE c # b /\ c # nb
    BY <2>1, <2>2, <1>11
  <2>3. CASE c = b
    <3>1. o # off
      BY <2>1, <2>3, <1>3, <1>6, <1>11
    <3>2. o \in DOMAIN ps[b].items
      BY <1>c, <1>11, <2>1, <2>3, <3>1
    <3>3. pg1.items[o] = ps[b].items[o]
      BY <3>2, <1>1, <1>6
    <3>4. QED
      BY <3>2, <3>3, <2>1, <2>3, <1>11
  <2>4. c # nb
    BY <2>1, <1>4, <1>7, <1>11, <1>b
  <2>5. QED
    BY <2>2, <2>3, <2>4
<1>14. Pairs(qs)
  <2>1. ASSUME NEW c \in 1..Len(qs), NEW o \in DOMAIN qs[c].items,
               qs[c].items[o].kind = "element", c \notin 1..Len(ps) \/ o \notin DOMAIN ps[c].items
        PROVE  PairedAt(qs, c, o)
    <3>1. c # nb
      BY <2>1, <1>4, <1>7, <1>11, <1>b
    <3>2. c = b
      BY <2>1, <3>1, <1>11
    <3>3. o = off
      BY <3>2, <2>1, <1>c, <1>11
    <3>4. qs[c].items[o].link = <<nb, 1>>
      BY <3>2, <3>3, <1>3, <1>6, <1>11
    <3>5. /\ qs[nb].items[1].kind = "neighbors" /\ qs[nb].items[1].link = <<b, off>>
          /\ nb \in 1..Len(qs) /\ nb >= b /\ 1 \in DOMAIN qs[nb].items
      BY <1>1, <1>4, <1>7, <1>11, <1>b
    <3>6. QED
      BY <3>2, <3>3, <3>4, <3>5, PairedIf
  <2>2. QED
    BY <2>1, <1>11, <1>12, PairsKept
<1>15. QED
  BY <1>11, <1>12, <1>13, <1>14 DEF Changes

\* The element on the last page, its neighbor tuple on one more.
LEMMA AddOverTwo ==
  ASSUME NEW ps, Chained(ps), Pairs(ps), NEW l \in Levels, FreeSpace(ps[Len(ps)]) >= EtupSize,
         NEW qs, qs = AddBoth(Extended(ps, Len(ps)), Len(ps), Len(ps) + 1, l)
  PROVE  Changes(ps, qs, {Len(ps)}) /\ Len(qs) = Len(ps) + 1
<1> DEFINE rs == Extended(ps, Len(ps))
           b  == Len(ps)
<1>1. b \in Nat /\ b \in 1..b
  BY ChainFields
<1>2. /\ Chained(rs) /\ Len(rs) = b + 1 /\ rs[b + 1] = EmptyPage
      /\ rs[b].free = ps[b].free
  BY <1>1, ExtendedOK
<1>3. Changes(ps, rs, {b})
  BY ExtendedChanges
<1>4. qs = AddBoth(rs, b, b + 1, l)
  OBVIOUS
<1> HIDE DEF rs, b
<1>5. FreeSpace(rs[b]) >= EtupSize
  BY <1>2 DEF FreeSpace, b
<1>6. Pairs(rs)
  BY <1>3 DEF Changes
<1>7. b \in 1..Len(rs) /\ b + 1 \in 1..Len(rs) /\ b < b + 1
  BY <1>1, <1>2
<1>8. rs[b + 1].items = <<>> /\ FreeSpace(rs[b + 1]) = MaxSize
  BY <1>2, EmptyPageOK
<1>9. Changes(rs, qs, {b, b + 1}) /\ Len(qs) = Len(rs)
  <2> DEFINE c  == b + 1
             zs == AddBoth(rs, b, c, l)
  <2>1. Chained(rs) /\ c \in 1..Len(rs) /\ b < c /\ rs[c].items = <<>> /\ FreeSpace(rs[c]) = MaxSize
    BY <1>2, <1>7, <1>8
  <2>2. qs = zs
    BY <1>4
  <2> HIDE DEF c, zs
  <2>3. Changes(rs, zs, {b, c}) /\ Len(zs) = Len(rs)
    <3>1. zs = AddBoth(rs, b, c, l) /\ b \in 1..Len(rs)
      BY <1>7 DEF zs
    <3>2. \A xs : xs = AddBoth(rs, b, c, l) => Changes(rs, xs, {b, c}) /\ Len(xs) = Len(rs)
      BY <1>5, <1>6, <2>1, <3>1, AddBothThere
    <3>3. QED
      BY <3>1, <3>2, Zenon
  <2>4. QED
    BY <2>2, <2>3 DEF c
<1>10. {b, b + 1} \cap 1..Len(ps) \subseteq {b}
  BY <1>1 DEF b
<1>11. Changes(ps, qs, {b})
  BY <1>3, <1>9, <1>10, ChangesTrans
<1>12. QED
  BY <1>2, <1>9, <1>11 DEF b
\* An element tuple and its neighbor tuple are two tuples.
ElementAt(ps, b, o) ==
  /\ Chained(ps) /\ Pairs(ps) /\ b \in 1..Len(ps) /\ o \in DOMAIN ps[b].items
  /\ ps[b].items[o].kind = "element"

PairTo(ps, b, o, n) ==
  /\ n \in Nat \X Nat /\ n = <<n[1], n[2]>> /\ n[1] \in 1..Len(ps) /\ n[1] >= b
  /\ n[2] \in DOMAIN ps[n[1]].items /\ ps[n[1]].items[n[2]].kind = "neighbors"
  /\ ps[n[1]].items[n[2]].link = <<b, o>> /\ (n[1] = b => n[2] # o)
  /\ <<b, o>> \in Nat \X Nat

LEMMA PairFields ==
  ASSUME NEW ps, NEW b, NEW o, ElementAt(ps, b, o)
  PROVE  PairTo(ps, b, o, ps[b].items[o].link)
<1> DEFINE n == ps[b].items[o].link
<1>0. /\ Chained(ps) /\ Pairs(ps) /\ b \in 1..Len(ps) /\ o \in DOMAIN ps[b].items
      /\ ps[b].items[o].kind = "element"
  BY DEF ElementAt
<1>1. PageOK(ps[b]) /\ Len(ps) \in Nat
  BY <1>0, ChainFields
<1>2. /\ ps[b].items[o] \in ItemSet /\ Len(ps[b].items) \in Nat
      /\ DOMAIN ps[b].items = 1..Len(ps[b].items)
  BY <1>0, <1>1, PageFields
<1>3. n \in Nat \X Nat
  BY <1>2, ItemFields
<1>4. n = <<n[1], n[2]>>
  BY <1>3
<1>5. PairedAt(ps, b, o)
  BY <1>0 DEF Pairs
<1>6. /\ n[1] \in 1..Len(ps) /\ n[1] >= b /\ n[2] \in DOMAIN ps[n[1]].items
      /\ ps[n[1]].items[n[2]].kind = "neighbors" /\ ps[n[1]].items[n[2]].link = <<b, o>>
  BY <1>5 DEF PairedAt
<1>7. <<b, o>> \in Nat \X Nat
  BY <1>0, <1>1, <1>2
<1>8. n[1] = b => n[2] # o
  BY <1>0, <1>6
<1> HIDE DEF n
<1>9. PairTo(ps, b, o, n)
  BY <1>3, <1>4, <1>6, <1>7, <1>8 DEF PairTo
<1>10. QED
  BY <1>9 DEF n

\* One tuple, at offset o of page b, is now x.
Over(ps, qs, b, o, x) ==
  /\ Chained(qs) /\ Len(qs) = Len(ps)
  /\ \A c \in 1..Len(ps) : DOMAIN qs[c].items = DOMAIN ps[c].items
  /\ \A c \in 1..Len(ps) : \A y \in DOMAIN ps[c].items :
       \/ c = b /\ y = o /\ qs[c].items[y] = x
       \/ (c # b \/ y # o) /\ qs[c].items[y] = ps[c].items[y]
  /\ \A c \in 1..Len(ps) : c # b => qs[c] = ps[c]

LEMMA OverOne ==
  ASSUME NEW ps, Chained(ps), NEW b \in 1..Len(ps), NEW o \in DOMAIN ps[b].items, NEW x \in ItemSet,
         CanOverwrite(ps[b], o, x.size)
  PROVE  Over(ps, [ps EXCEPT ![b] = Overwrite(ps[b], o, x)], b, o, x)
<1> DEFINE pg == Overwrite(ps[b], o, x)
           qs == [ps EXCEPT ![b] = pg]
<1>1. PageOK(ps[b])
  BY ChainFields
<1>2. /\ PageOK(pg) /\ pg.next = ps[b].next /\ DOMAIN pg.items = DOMAIN ps[b].items /\ pg.items[o] = x
      /\ \A y \in DOMAIN ps[b].items : y # o => pg.items[y] = ps[b].items[y]
  BY <1>1, OverwriteOK
<1> HIDE DEF pg
<1>3. /\ Chained(qs) /\ Len(qs) = Len(ps) /\ qs[b] = pg
      /\ \A c \in 1..Len(ps) : c # b => qs[c] = ps[c]
  BY <1>2, SetPage
<1> HIDE DEF qs
<1>4. Over(ps, qs, b, o, x)
  BY <1>2, <1>3 DEF Over
<1>5. QED
  BY <1>4, Zenon DEF qs, pg

\* AddElementOnDisk in the place of a deleted element: an element tuple and its
\* neighbor tuple are overwritten.
Reused(ps, b, o, nb, no, e, x) ==
  /\ Chained(ps) /\ Pairs(ps) /\ b \in 1..Len(ps) /\ o \in DOMAIN ps[b].items
  /\ ps[b].items[o].kind = "element" /\ ps[b].items[o].link = <<nb, no>>
  /\ e.kind = "element" /\ e.link = <<nb, no>> /\ ~e.deleted
  /\ x.kind = "neighbors" /\ x.link = <<b, o>>

BothOver(ps, ps1, qs, b, o, nb, no, e, x) ==
  Reused(ps, b, o, nb, no, e, x) /\ Over(ps, ps1, b, o, e) /\ Over(ps1, qs, nb, no, x)

LEMMA OverTwo ==
  ASSUME NEW ps, NEW ps1, NEW qs, NEW b, NEW o, NEW nb, NEW no, NEW e, NEW x,
         BothOver(ps, ps1, qs, b, o, nb, no, e, x)
  PROVE  Changes(ps, qs, {b, nb}) /\ Len(qs) = Len(ps)
<1> Over(ps, ps1, b, o, e) /\ Over(ps1, qs, nb, no, x)
  BY DEF BothOver
<1> /\ Chained(ps) /\ Pairs(ps) /\ b \in 1..Len(ps) /\ o \in DOMAIN ps[b].items
    /\ ps[b].items[o].kind = "element" /\ ps[b].items[o].link = <<nb, no>>
    /\ e.kind = "element" /\ e.link = <<nb, no>> /\ ~e.deleted
    /\ x.kind = "neighbors" /\ x.link = <<b, o>>
  BY DEF BothOver, Reused
<1> DEFINE m == ps[b].items[o].link
<1>0. PairedAt(ps, b, o)
  BY DEF Pairs
<1>1. /\ m[1] \in 1..Len(ps) /\ m[2] \in DOMAIN ps[m[1]].items
      /\ ps[m[1]].items[m[2]].kind = "neighbors" /\ ps[m[1]].items[m[2]].link = <<b, o>>
  BY <1>0, Zenon DEF PairedAt
<1>2. m[1] = nb /\ m[2] = no
  OBVIOUS
<1>3. nb \in 1..Len(ps) /\ ps[nb].items[no].kind = "neighbors" /\ ps[nb].items[no].link = <<b, o>>
  BY <1>1, <1>2
<1> HIDE DEF m
<1>4. Len(qs) = Len(ps) /\ Len(ps1) = Len(ps) /\ Len(ps) \in Nat /\ Chained(qs)
  BY ChainFields DEF Over
<1>5. ASSUME NEW c \in 1..Len(ps)
      PROVE  /\ DOMAIN qs[c].items = DOMAIN ps[c].items
             /\ \A y \in DOMAIN ps[c].items : \/ c = b /\ y = o /\ qs[c].items[y] = e
                                              \/ c = nb /\ y = no /\ qs[c].items[y] = x
                                              \/ qs[c].items[y] = ps[c].items[y]
  <2>1. /\ DOMAIN ps1[c].items = DOMAIN ps[c].items
        /\ \A y \in DOMAIN ps[c].items : \/ c = b /\ y = o /\ ps1[c].items[y] = e
                                         \/ ps1[c].items[y] = ps[c].items[y]
    BY DEF Over
  <2>2. /\ DOMAIN qs[c].items = DOMAIN ps1[c].items
        /\ \A y \in DOMAIN ps1[c].items : \/ c = nb /\ y = no /\ qs[c].items[y] = x
                                          \/ qs[c].items[y] = ps1[c].items[y]
    BY <1>4 DEF Over
  <2>3. QED
    BY <2>1, <2>2
<1>6. Kept(ps, qs)
  <2>1. SUFFICES ASSUME NEW c \in 1..Len(ps), NEW y \in DOMAIN ps[c].items
                 PROVE  /\ y \in DOMAIN qs[c].items
                        /\ qs[c].items[y].kind = ps[c].items[y].kind
                        /\ qs[c].items[y].link = ps[c].items[y].link
    BY <1>4 DEF Kept
  <2>2. y \in DOMAIN qs[c].items
    BY <1>5
  <2>3. CASE c = b /\ y = o /\ qs[c].items[y] = e
    BY <2>2, <2>3
  <2>4. CASE c = nb /\ y = no /\ qs[c].items[y] = x
    BY <2>2, <2>4, <1>3
  <2>5. CASE qs[c].items[y] = ps[c].items[y]
    BY <2>2, <2>5
  <2>6. QED
    BY <1>5, <2>3, <2>4, <2>5
<1>7. NoneDeleted(ps, qs)
  <2>1. SUFFICES ASSUME NEW c \in 1..Len(qs), NEW y \in DOMAIN qs[c].items,
                        qs[c].items[y].kind = "element", qs[c].items[y].deleted
                 PROVE  /\ c \in 1..Len(ps) /\ y \in DOMAIN ps[c].items
                        /\ ps[c].items[y].kind = "element" /\ ps[c].items[y].deleted
    BY DEF NoneDeleted
  <2>2. c \in 1..Len(ps)
    BY <1>4
  <2>3. y \in DOMAIN ps[c].items
    BY <1>5, <2>2
  <2>4. qs[c].items[y] # e /\ qs[c].items[y] # x
    BY <2>1
  <2>5. qs[c].items[y] = ps[c].items[y]
    BY <1>5, <2>2, <2>3, <2>4
  <2>6. QED
    BY <2>1, <2>2, <2>3, <2>5
<1>8. Pairs(qs)
  <2>1. \A c \in 1..Len(qs) : c \in 1..Len(ps) /\ DOMAIN qs[c].items = DOMAIN ps[c].items
    BY <1>4, <1>5
  <2>2. QED
    BY <1>4, <1>6, <2>1, PairsKept
<1>9. \A c \in 1..Len(ps) : c \notin {b, nb} => qs[c] = ps[c]
  BY <1>4 DEF Over
<1>10. QED
  BY <1>4, <1>6, <1>7, <1>8, <1>9 DEF Changes

\* MarkDeleted on the tuple at offset o of page b.
Marking(ps, qs, b, o) ==
  /\ Chained(qs) /\ Pairs(qs) /\ Kept(ps, qs) /\ Len(qs) = Len(ps)
  /\ \A c \in 1..Len(ps) : c # b => qs[c] = ps[c]
  /\ \A y \in DOMAIN ps[b].items : y # o => qs[b].items[y] = ps[b].items[y]
  /\ DOMAIN qs[b].items = DOMAIN ps[b].items

LEMMA MarkedPages ==
  ASSUME NEW ps, Chained(ps), Pairs(ps), NEW b \in 1..Len(ps), NEW o \in DOMAIN ps[b].items
  PROVE  Marking(ps, [ps EXCEPT ![b].items[o].deleted = TRUE], b, o)
<1> DEFINE pg == [ps[b] EXCEPT !.items[o].deleted = TRUE]
           qs == [ps EXCEPT ![b] = pg]
<1>1. PageOK(ps[b])
  BY ChainFields
<1>2. /\ PageOK(pg) /\ pg.next = ps[b].next /\ DOMAIN pg.items = DOMAIN ps[b].items
      /\ pg.items[o].kind = ps[b].items[o].kind /\ pg.items[o].link = ps[b].items[o].link
      /\ \A y \in DOMAIN ps[b].items : y # o => pg.items[y] = ps[b].items[y]
  BY <1>1, MarkOK
<1>3. qs = [ps EXCEPT ![b].items[o].deleted = TRUE]
  OBVIOUS
<1> HIDE DEF pg
<1>4. /\ Chained(qs) /\ Len(qs) = Len(ps) /\ qs[b] = pg
      /\ \A c \in 1..Len(ps) : c # b => qs[c] = ps[c]
  BY <1>2, SetPage
<1> HIDE DEF qs
<1>5. Kept(ps, qs)
  <2>1. Len(ps) \in Nat
    BY ChainFields
  <2>2. \A y \in DOMAIN ps[b].items : /\ qs[b].items[y].kind = ps[b].items[y].kind
                                      /\ qs[b].items[y].link = ps[b].items[y].link
    BY <1>2, <1>4
  <2>3. QED
    BY <1>2, <1>4, <2>1, <2>2 DEF Kept
<1>6. \A c \in 1..Len(qs) : c \in 1..Len(ps) /\ DOMAIN qs[c].items = DOMAIN ps[c].items
  BY <1>2, <1>4
<1>7. Pairs(qs)
  BY <1>4, <1>5, <1>6, PairsKept
<1>8. Marking(ps, qs, b, o)
  BY <1>2, <1>4, <1>5, <1>7 DEF Marking
<1>9. QED
  BY <1>3, <1>8, Zenon
-----------------------------------------------------------------------------
(***************************************************************************)
(* The inductive invariant.                                                *)
(***************************************************************************)
InsPc    == {"idle", "seek", "look", "nbuf", "fresh", "meta"}
LookPc   == {"seek", "look", "nbuf"}
HoldPc   == {"look", "nbuf", "fresh"}
InsSet   == [pc : InsPc, level : Levels, from : Nat, cur : Nat, off : Nat, new : Nat]
VacSet   == [pc : {"idle", "seek", "look", "nbuf", "meta"}, dead : SUBSET (Nat \X Nat),
             cur : Nat, off : Nat, new : Nat]
CountSet == [built : Nat, inserts : Nat, vacuums : Nat, crashes : Nat]
LockSet  == [1..MaxPages -> Backends \union {Nobody}]

StateOK ==
  /\ Chained(pages) /\ Pairs(pages)
  /\ ins \in [Inserters -> InsSet] /\ vac \in VacSet /\ lock \in LockSet
  /\ status \in {"building", "ready"} /\ count \in CountSet /\ overlap \in BOOLEAN
  /\ insertPage \in 0..Len(pages) /\ (status = "ready" => insertPage # NoBlock)

\* Every insert adds two pages at most: those in progress have theirs still to come.
Looking == {p \in Inserters : ins[p].pc \in LookPc}
Fresh   == {p \in Inserters : ins[p].pc = "fresh"}
RoomOK  ==
  /\ Len(pages) + 2 * Cardinality(Looking) + Cardinality(Fresh) <=
       1 + 2 * (count.built + count.inserts)
  /\ count.built <= MaxBuilt /\ count.inserts <= MaxInserts

\* A backend has a page it can go on from, with the lock it needs; the place it waits
\* for a second lock with is a deleted element, and the page it has added is empty.
InsertOK(p, i, ps, lk) ==
  /\ i.cur \in 0..Len(ps) /\ (i.pc # "idle" => i.cur # NoBlock)
  /\ i.new \in 0..Len(ps) /\ (i.pc \in {"nbuf", "meta"} => i.new # NoBlock)
  /\ i.pc = "look" /\ i.new = NoBlock => i.off = 0
  /\ i.pc \in HoldPc => lk[i.cur] = p
  /\ i.pc = "nbuf" => /\ i.off \in DOMAIN ps[i.cur].items
                      /\ ps[i.cur].items[i.off].kind = "element"
                      /\ ps[i.cur].items[i.off].deleted
                      /\ ps[i.cur].items[i.off].link[1] # i.cur
  /\ i.pc = "fresh" => i.cur = Len(ps) /\ ps[i.cur] = EmptyPage

VacuumOK(v, ps, lk) ==
  /\ v.cur \in 0..Len(ps) /\ (v.pc \in LookPc => v.cur # NoBlock /\ v.new <= v.cur)
  /\ v.new \in 0..Len(ps)
  /\ v.pc = "look" /\ v.new = NoBlock => v.off = 0
  /\ v.pc \in HoldPc => lk[v.cur] = Vacuum
  /\ v.pc = "nbuf" => /\ v.off \in DOMAIN ps[v.cur].items
                      /\ ps[v.cur].items[v.off].kind = "element"
                      /\ ps[v.cur].items[v.off].link[1] # v.cur

\* No page before page n has a deleted element.
CleanBelow(ps, n) ==
  \A b \in 1..Len(ps) : b < n => \A o \in DOMAIN ps[b].items :
    ~(ps[b].items[o].kind = "element" /\ ps[b].items[o].deleted)

\* The page a backend would set as the insert page, as far as it has got.
Bound(i)      == IF i.new # NoBlock THEN i.new ELSE i.cur
VacBound(v, ps) == IF v.new # NoBlock THEN v.new ELSE IF v.pc = "meta" THEN Len(ps) + 1 ELSE v.cur

BuildOK == status = "building" =>
  /\ \A p \in Inserters : ins[p].pc = "idle"
  /\ vac.pc = "idle"
  /\ CleanBelow(pages, Len(pages) + 1)

FoundOK ==
  /\ vac.pc # "idle" => CleanBelow(pages, VacBound(vac, pages))
  /\ status = "ready" /\ ~overlap /\ vac.pc = "idle" =>
       /\ CleanBelow(pages, insertPage)
       /\ \A p \in Inserters : ins[p].pc # "idle" => CleanBelow(pages, Bound(ins[p]))

PagesInv ==
  /\ StateOK /\ RoomOK /\ BuildOK /\ FoundOK
  /\ \A p \in Inserters : InsertOK(p, ins[p], pages, lock)
  /\ VacuumOK(vac, pages, lock)
-----------------------------------------------------------------------------
LEMMA InsFields ==
  ASSUME NEW i \in InsSet
  PROVE  /\ i.pc \in InsPc /\ i.level \in Levels /\ i.from \in Nat /\ i.cur \in Nat /\ i.off \in Nat
         /\ i.new \in Nat
BY DEF InsSet

LEMMA VacFields ==
  ASSUME NEW v \in VacSet
  PROVE  /\ v.pc \in {"idle", "seek", "look", "nbuf", "meta"} /\ v.cur \in Nat /\ v.off \in Nat
         /\ v.new \in Nat
BY DEF VacSet

LEMMA ChangesSelf ==
  ASSUME NEW ps, Chained(ps), Pairs(ps) PROVE Changes(ps, ps, {})
<1>1. Len(ps) \in Nat
  BY ChainFields
<1>2. QED
  BY <1>1 DEF Changes, Kept, NoneDeleted

\* A backend that looks after its own pages is not disturbed.
LEMMA InsertKept ==
  ASSUME NEW ps, NEW qs, Chained(ps), Chained(qs), Len(ps) <= Len(qs), NEW B,
         \A c \in 1..Len(ps) : c \notin B => qs[c] = ps[c], Len(qs) # Len(ps) => Len(ps) \in B,
         NEW q, NEW i \in InsSet, NEW lk, NEW lk2, InsertOK(q, i, ps, lk),
         i.pc \in HoldPc => i.cur \notin B /\ lk2[i.cur] = q
  PROVE  InsertOK(q, i, qs, lk2)
<1>1. Len(ps) \in Nat /\ Len(qs) \in Nat /\ i.cur \in Nat /\ i.new \in Nat
  BY ChainFields, InsFields
<1>2. 0..Len(ps) \subseteq 0..Len(qs)
  BY <1>1
<1>3. i.pc # "idle" => i.cur \in 1..Len(ps)
  BY <1>1 DEF InsertOK, NoBlock
<1>4. "nbuf" \in HoldPc /\ "fresh" \in HoldPc
  BY DEF HoldPc
<1>5. i.pc \in HoldPc => qs[i.cur] = ps[i.cur]
  BY <1>3 DEF HoldPc
<1>6. i.pc = "fresh" => Len(qs) = Len(ps)
  BY <1>4 DEF InsertOK
<1>7. QED
  BY <1>2, <1>4, <1>5, <1>6 DEF InsertOK

LEMMA VacuumKept ==
  ASSUME NEW ps, NEW qs, Chained(ps), Chained(qs), Len(ps) <= Len(qs), NEW B,
         \A c \in 1..Len(ps) : c \notin B => qs[c] = ps[c],
         NEW v \in VacSet, NEW lk, NEW lk2, VacuumOK(v, ps, lk),
         v.pc \in HoldPc => v.cur \notin B /\ lk2[v.cur] = Vacuum
  PROVE  VacuumOK(v, qs, lk2)
<1>1. Len(ps) \in Nat /\ Len(qs) \in Nat /\ v.cur \in Nat /\ v.new \in Nat
  BY ChainFields, VacFields
<1>2. 0..Len(ps) \subseteq 0..Len(qs)
  BY <1>1
<1>3. v.pc \in LookPc => v.cur \in 1..Len(ps)
  BY <1>1 DEF VacuumOK, NoBlock
<1>4. "nbuf" \in HoldPc /\ "nbuf" \in LookPc
  BY DEF HoldPc, LookPc
<1>5. v.pc = "nbuf" => qs[v.cur] = ps[v.cur]
  BY <1>3, <1>4
<1>6. QED
  BY <1>2, <1>4, <1>5 DEF VacuumOK

LEMMA CleanSame ==
  ASSUME NEW ps, NEW qs, Len(qs) = Len(ps), NEW n, CleanBelow(ps, n),
         \A b \in 1..Len(ps) : b < n => qs[b] = ps[b]
  PROVE  CleanBelow(qs, n)
BY DEF CleanBelow

LEMMA CleanKept ==
  ASSUME NEW ps, NEW qs, NoneDeleted(ps, qs), NEW n, CleanBelow(ps, n)
  PROVE  CleanBelow(qs, n)
BY DEF CleanBelow, NoneDeleted

LEMMA VacCleanKept ==
  ASSUME NEW ps, NEW qs, Chained(ps), Chained(qs), NoneDeleted(ps, qs), NEW v,
         CleanBelow(ps, VacBound(v, ps))
  PROVE  CleanBelow(qs, VacBound(v, qs))
<1>1. CASE VacBound(v, ps) = VacBound(v, qs)
  BY <1>1, CleanKept
<1>2. CASE VacBound(v, ps) # VacBound(v, qs)
  <2>1. VacBound(v, ps) = Len(ps) + 1
    BY <1>2 DEF VacBound
  <2>2. Len(ps) \in Nat /\ \A b \in 1..Len(ps) : b < Len(ps) + 1
    BY ChainFields
  <2>3. \A b \in 1..Len(ps) : \A o \in DOMAIN ps[b].items :
          ~(ps[b].items[o].kind = "element" /\ ps[b].items[o].deleted)
    BY <2>1, <2>2 DEF CleanBelow
  <2>4. QED
    BY <2>3 DEF CleanBelow, NoneDeleted
<1>3. QED
  BY <1>1, <1>2

\* A step of backend p, to state r, that changes pages in B only, keeps p's part of the
\* invariant, and leaves the others' pages and locks alone.
StepTo(p, r, B) ==
  /\ status = "ready" /\ status' = status /\ vac' = vac /\ overlap' = overlap
  /\ ins' = [ins EXCEPT ![p] = r] /\ Changes(pages, pages', B) /\ lock' \in LockSet
  /\ Len(pages') # Len(pages) => Len(pages) \in B
  /\ \A q \in Inserters : q # p /\ ins[q].pc \in HoldPc =>
       ins[q].cur \notin B /\ lock'[ins[q].cur] = q
  /\ vac.pc \in HoldPc => vac.cur \notin B /\ lock'[vac.cur] = Vacuum
  /\ InsertOK(p, r, pages', lock') /\ RoomOK' /\ count' \in CountSet
  /\ insertPage' \in 1..Len(pages')
  /\ ~overlap /\ vac.pc = "idle" =>
       /\ CleanBelow(pages', insertPage')
       /\ r.pc # "idle" => CleanBelow(pages', Bound(r))

LEMMA InsertStepInv ==
  ASSUME PagesInv, NEW p \in Inserters, NEW r \in InsSet, NEW B, StepTo(p, r, B)
  PROVE  PagesInv'
<1> USE DEF StepTo
<1>1. /\ Chained(pages) /\ Pairs(pages) /\ ins \in [Inserters -> InsSet] /\ vac \in VacSet
      /\ overlap \in BOOLEAN
  BY DEF PagesInv, StateOK
<1>2. /\ Chained(pages') /\ Pairs(pages') /\ Len(pages) <= Len(pages')
      /\ NoneDeleted(pages, pages') /\ \A c \in 1..Len(pages) : c \notin B => pages'[c] = pages[c]
  BY DEF Changes, Kept
<1>3. ins' \in [Inserters -> InsSet] /\ ins'[p] = r /\ \A q \in Inserters : q # p => ins'[q] = ins[q]
  BY <1>1
<1>4. StateOK'
  <2>1. Len(pages') \in Nat
    BY <1>2, ChainFields
  <2>2. insertPage' \in 0..Len(pages') /\ insertPage' # NoBlock
    BY <2>1 DEF NoBlock
  <2>3. QED
    BY <1>1, <1>2, <1>3, <2>2 DEF StateOK
<1>5. BuildOK'
  BY DEF BuildOK
<1>6. ASSUME NEW q \in Inserters PROVE InsertOK(q, ins[q], pages, lock)' 
  <2>1. CASE q = p
    BY <2>1, <1>3
  <2>2. CASE q # p
    <3>1. InsertOK(q, ins[q], pages, lock) /\ ins[q] \in InsSet
      BY <1>1 DEF PagesInv
    <3>2. InsertOK(q, ins[q], pages', lock')
      BY <1>1, <1>2, <2>2, <3>1, InsertKept
    <3>3. QED
      BY <2>2, <3>2, <1>3
  <2>3. QED
    BY <2>1, <2>2
<1>7. VacuumOK(vac, pages, lock)'
  <2>1. VacuumOK(vac, pages, lock)
    BY DEF PagesInv
  <2>2. VacuumOK(vac, pages', lock')
    BY <1>1, <1>2, <2>1, VacuumKept
  <2>3. QED
    BY <2>2
<1>8. FoundOK'
  <2>1. FoundOK
    BY DEF PagesInv
  <2>2. vac'.pc # "idle" => CleanBelow(pages', VacBound(vac', pages'))
    BY <1>1, <1>2, <2>1, VacCleanKept DEF FoundOK
  <2>3. ASSUME ~overlap, vac.pc = "idle", NEW q \in Inserters, ins'[q].pc # "idle"
        PROVE  CleanBelow(pages', Bound(ins'[q]))
    <3>1. CASE q = p
      BY <2>3, <3>1, <1>3
    <3>2. CASE q # p
      <4>1. ins'[q] = ins[q]
        BY <3>2, <1>3
      <4>2. CleanBelow(pages, Bound(ins[q]))
        BY <2>1, <2>3, <4>1 DEF FoundOK
      <4>3. QED
        BY <4>1, <4>2, <1>2, CleanKept
    <3>3. QED
      BY <3>1, <3>2
  <2>4. QED
    BY <2>2, <2>3 DEF FoundOK
<1>9. QED
  BY <1>4, <1>5, <1>6, <1>7, <1>8 DEF PagesInv
-----------------------------------------------------------------------------
(***************************************************************************)
(* The pages still to come: MaxPages is never reached too early.           *)
(***************************************************************************)
LEMMA FiniteSubset ==
  ASSUME NEW S \in SUBSET Inserters
  PROVE  IsFiniteSet(S) /\ Cardinality(S) \in Nat
<1>1. IsFiniteSet(Inserters)
  BY PagesConstants
<1>2. IsFiniteSet(S)
  BY <1>1, FS_Subset
<1>3. QED
  BY <1>2, FS_CardinalityType

LEMMA CardWithout ==
  ASSUME NEW S \in SUBSET Inserters, NEW p \in S
  PROVE  Cardinality(S \ {p}) = Cardinality(S) - 1 /\ Cardinality(S) >= 1
<1>1. IsFiniteSet(S) /\ Cardinality(S) \in Nat /\ Cardinality(S \ {p}) \in Nat
  BY FiniteSubset
<1>2. Cardinality(S \ {p}) = Cardinality(S) - 1
  BY <1>1, FS_RemoveElement
<1>3. QED
  BY <1>1, <1>2

LEMMA CardWith ==
  ASSUME NEW S \in SUBSET Inserters, NEW p \in Inserters, p \notin S
  PROVE  Cardinality(S \union {p}) = Cardinality(S) + 1
<1>1. IsFiniteSet(S)
  BY FiniteSubset
<1>2. QED
  BY <1>1, FS_AddElement

LEMMA RoomArith ==
  ASSUME NEW n \in Nat, NEW m \in Nat, NEW k \in Nat, NEW f \in Nat, NEW a \in Nat, NEW b \in Nat,
         n + 2 * k + f <= 1 + 2 * (a + b)
  PROVE  /\ m <= n + 1 => m + 2 * (k - 1) + f <= 1 + 2 * (a + b)
         /\ n + 2 * (k + 1) + f <= 1 + 2 * (a + (b + 1))
         /\ m <= n + 2 => m + 2 * k + f <= 1 + 2 * ((a + 1) + b)
         /\ m <= n + 1 => m + 2 * k + (f - 1) <= 1 + 2 * (a + b)
OBVIOUS

LEMMA RoomFacts ==
  ASSUME PagesInv
  PROVE  /\ Looking \in SUBSET Inserters /\ Fresh \in SUBSET Inserters
         /\ Cardinality(Looking) \in Nat /\ Cardinality(Fresh) \in Nat /\ Len(pages) \in Nat
         /\ count.built \in Nat /\ count.inserts \in Nat /\ MaxPages \in Nat
         /\ Len(pages) + 2 * Cardinality(Looking) + Cardinality(Fresh) <= MaxPages
<1>1. Looking \in SUBSET Inserters /\ Fresh \in SUBSET Inserters
  BY DEF Looking, Fresh
<1>2. Cardinality(Looking) \in Nat /\ Cardinality(Fresh) \in Nat
  BY <1>1, FiniteSubset
<1>3. Len(pages) \in Nat
  BY ChainFields DEF PagesInv, StateOK
<1>4. count.built \in Nat /\ count.inserts \in Nat
  BY DEF PagesInv, StateOK, CountSet
<1>5. MaxBuilt \in Nat /\ MaxInserts \in Nat
  BY PagesConstants
<1>6. RoomOK
  BY DEF PagesInv
<1>7. MaxPages \in Nat /\ 1 + 2 * (count.built + count.inserts) <= MaxPages
  BY <1>4, <1>5, <1>6 DEF RoomOK, MaxPages
<1> HIDE DEF MaxPages
<1>8. QED
  BY <1>1, <1>2, <1>3, <1>4, <1>6, <1>7 DEF RoomOK

LEMMA RoomLeft ==
  ASSUME PagesInv, NEW p \in Inserters
  PROVE  /\ Len(pages) <= MaxPages
         /\ ins[p].pc \in LookPc => Len(pages) + 2 <= MaxPages
         /\ ins[p].pc = "fresh" => Len(pages) + 1 <= MaxPages
<1>1. ins[p].pc \in LookPc => Cardinality(Looking) >= 1
  BY RoomFacts, CardWithout DEF Looking
<1>2. ins[p].pc = "fresh" => Cardinality(Fresh) >= 1
  BY RoomFacts, CardWithout DEF Fresh
<1>3. QED
  BY <1>1, <1>2, RoomFacts

LEMMA RoomSame ==
  ASSUME PagesInv, NEW p \in Inserters, NEW r \in InsSet, ins' = [ins EXCEPT ![p] = r],
         Len(pages') = Len(pages), count'.built = count.built, count'.inserts = count.inserts,
         r.pc \in LookPc <=> ins[p].pc \in LookPc, r.pc = "fresh" <=> ins[p].pc = "fresh"
  PROVE  RoomOK'
<1>1. ins \in [Inserters -> InsSet]
  BY DEF PagesInv, StateOK
<1>2. Looking' = Looking /\ Fresh' = Fresh
  BY <1>1 DEF Looking, Fresh
<1>3. QED
  BY <1>2 DEF PagesInv, RoomOK

LEMMA RoomLess ==
  ASSUME PagesInv, Len(pages') \in Nat, Len(pages') <= Len(pages) + 1
  PROVE  /\ Len(pages') + 2 * (Cardinality(Looking) - 1) + Cardinality(Fresh) <=
              1 + 2 * (count.built + count.inserts)
         /\ Len(pages') + 2 * Cardinality(Looking) + (Cardinality(Fresh) - 1) <=
              1 + 2 * (count.built + count.inserts)
<1> DEFINE n == Len(pages)
           m == Len(pages')
           k == Cardinality(Looking)
           f == Cardinality(Fresh)
           a == count.built
           b == count.inserts
<1>1. /\ n \in Nat /\ k \in Nat /\ f \in Nat /\ a \in Nat /\ b \in Nat
      /\ m \in Nat /\ m <= n + 1
  BY RoomFacts
<1>2. n + 2 * k + f <= 1 + 2 * (a + b)
  BY DEF PagesInv, RoomOK
<1> HIDE DEF n, m, k, f, a, b
<1>3. m + 2 * (k - 1) + f <= 1 + 2 * (a + b) /\ m + 2 * k + (f - 1) <= 1 + 2 * (a + b)
  BY <1>1, <1>2, RoomArith
<1>4. QED
  BY <1>3 DEF n, m, k, f, a, b

\* An insert that comes to an end has taken one page at most.
LEMMA RoomEnd ==
  ASSUME PagesInv, NEW p \in Inserters, NEW r \in InsSet, ins' = [ins EXCEPT ![p] = r],
         Len(pages') \in Nat, Len(pages') <= Len(pages) + 1, count' = count,
         r.pc \notin LookPc, r.pc # "fresh", ins[p].pc \in LookPc \/ ins[p].pc = "fresh"
  PROVE  RoomOK'
<1>1. ins \in [Inserters -> InsSet]
  BY DEF PagesInv, StateOK
<1>2. Looking' = Looking \ {p} /\ Fresh' = Fresh \ {p}
  BY <1>1 DEF Looking, Fresh
<1>3. CASE ins[p].pc \in LookPc
  <2>1. p \in Looking /\ p \notin Fresh
    BY <1>3 DEF Looking, Fresh, LookPc
  <2>2. Cardinality(Looking') = Cardinality(Looking) - 1 /\ Fresh' = Fresh
    BY <1>2, <2>1, CardWithout, RoomFacts
  <2>3. RoomOK
    BY DEF PagesInv
  <2>4. Len(pages') + 2 * (Cardinality(Looking) - 1) + Cardinality(Fresh) <=
          1 + 2 * (count.built + count.inserts)
    BY RoomLess
  <2>5. QED
    BY <2>2, <2>3, <2>4 DEF RoomOK
<1>4. CASE ins[p].pc = "fresh"
  <2>1. p \in Fresh /\ p \notin Looking
    BY <1>4 DEF Looking, Fresh, LookPc
  <2>2. Cardinality(Fresh') = Cardinality(Fresh) - 1 /\ Looking' = Looking
    BY <1>2, <2>1, CardWithout, RoomFacts
  <2>3. RoomOK
    BY DEF PagesInv
  <2>4. Len(pages') + 2 * Cardinality(Looking) + (Cardinality(Fresh) - 1) <=
          1 + 2 * (count.built + count.inserts)
    BY RoomLess
  <2>5. QED
    BY <2>2, <2>3, <2>4 DEF RoomOK
<1>5. QED
  BY <1>3, <1>4

LEMMA RoomAppend ==
  ASSUME PagesInv, NEW p \in Inserters, NEW r \in InsSet, ins' = [ins EXCEPT ![p] = r],
         Len(pages') = Len(pages) + 1, count' = count, r.pc = "fresh", ins[p].pc \in LookPc
  PROVE  RoomOK'
<1>1. ins \in [Inserters -> InsSet]
  BY DEF PagesInv, StateOK
<1>2. p \in Looking /\ p \notin Fresh /\ r.pc \notin LookPc
  BY DEF Looking, Fresh, LookPc
<1>3. Looking' = Looking \ {p} /\ Fresh' = Fresh \union {p}
  BY <1>1, <1>2 DEF Looking, Fresh
<1>4. Cardinality(Looking') = Cardinality(Looking) - 1 /\ Cardinality(Fresh') = Cardinality(Fresh) + 1
  BY <1>2, <1>3, CardWithout, CardWith, RoomFacts
<1>5. RoomOK
  BY DEF PagesInv
<1>6. QED
  BY <1>4, <1>5, RoomFacts DEF RoomOK

LEMMA RoomStart ==
  ASSUME PagesInv, NEW p \in Inserters, NEW r \in InsSet, ins' = [ins EXCEPT ![p] = r],
         pages' = pages, count' = [count EXCEPT !.inserts = @ + 1], count.inserts < MaxInserts,
         r.pc \in LookPc, ins[p].pc = "idle"
  PROVE  RoomOK' /\ count' \in CountSet
<1>1. ins \in [Inserters -> InsSet] /\ count \in CountSet
  BY DEF PagesInv, StateOK
<1>2. p \notin Looking /\ p \notin Fresh /\ r.pc # "fresh"
  BY DEF Looking, Fresh, LookPc
<1>3. Looking' = Looking \union {p} /\ Fresh' = Fresh
  BY <1>1, <1>2 DEF Looking, Fresh
<1>4. Cardinality(Looking') = Cardinality(Looking) + 1
  BY <1>2, <1>3, CardWith, RoomFacts
<1>5. count'.inserts = count.inserts + 1 /\ count'.built = count.built /\ count' \in CountSet
  BY <1>1 DEF CountSet
<1>6. MaxInserts \in Nat /\ MaxBuilt \in Nat
  BY PagesConstants
<1>7. RoomOK
  BY DEF PagesInv
<1>8. Len(pages) + 2 * (Cardinality(Looking) + 1) + Cardinality(Fresh) <=
        1 + 2 * (count.built + (count.inserts + 1))
  BY <1>7, RoomFacts, RoomArith DEF RoomOK
<1>9. count.inserts + 1 <= MaxInserts /\ count.built <= MaxBuilt
  BY <1>6, <1>7, RoomFacts DEF RoomOK
<1>10. QED
  BY <1>3, <1>4, <1>5, <1>8, <1>9 DEF RoomOK
-----------------------------------------------------------------------------
(***************************************************************************)
(* The steps of an insert.                                                 *)
(***************************************************************************)

\* What is known of a backend in the middle of an insert.
LEMMA InsertFacts ==
  ASSUME PagesInv, NEW p \in Inserters
  PROVE  /\ Chained(pages) /\ Pairs(pages) /\ ins[p] \in InsSet /\ InsertOK(p, ins[p], pages, lock)
         /\ lock \in LockSet /\ vac \in VacSet /\ count \in CountSet /\ Len(pages) \in Nat
         /\ ins \in [Inserters -> InsSet] /\ Len(pages) \in 1..Len(pages)
         /\ ins[p].pc # "idle" => status = "ready" /\ ins[p].cur \in 1..Len(pages)
         /\ status = "ready" => insertPage \in 1..Len(pages)
<1>1. /\ Chained(pages) /\ Pairs(pages) /\ ins[p] \in InsSet /\ InsertOK(p, ins[p], pages, lock)
      /\ lock \in LockSet /\ vac \in VacSet /\ count \in CountSet /\ ins \in [Inserters -> InsSet]
  BY DEF PagesInv, StateOK
<1>2. Len(pages) \in Nat /\ Len(pages) \in 1..Len(pages)
  BY <1>1, ChainFields
<1>3. ins[p].pc # "idle" => status = "ready"
  BY DEF PagesInv, StateOK, BuildOK
<1>4. ins[p].pc # "idle" => ins[p].cur \in 1..Len(pages)
  BY <1>1, <1>2 DEF InsertOK, NoBlock
<1>5. status = "ready" => insertPage \in 1..Len(pages)
  BY <1>2 DEF PagesInv, StateOK, NoBlock
<1>6. QED
  BY <1>1, <1>2, <1>3, <1>4, <1>5

LEMMA Names ==
  /\ \A p \in Inserters : p \in Backends /\ p # Nobody /\ p # Vacuum
  /\ Vacuum # Nobody /\ Vacuum \in Backends
BY PagesConstants DEF Backends

\* The locks of others, which the lock of p excludes from p's page.
LEMMA OthersHold ==
  ASSUME PagesInv, NEW p \in Inserters
  PROVE  /\ \A q \in Inserters : q # p /\ ins[q].pc \in HoldPc =>
              /\ lock[ins[q].cur] = q /\ ins[q].cur \in 1..Len(pages)
              /\ ins[p].pc \in HoldPc => ins[q].cur # ins[p].cur
         /\ vac.pc \in HoldPc => /\ lock[vac.cur] = Vacuum /\ vac.cur \in 1..Len(pages)
                                 /\ ins[p].pc \in HoldPc => vac.cur # ins[p].cur
<1>1. \A q \in Inserters : InsertOK(q, ins[q], pages, lock)
  BY DEF PagesInv
<1>2. VacuumOK(vac, pages, lock)
  BY DEF PagesInv
<1>3. ASSUME NEW q \in Inserters, q # p, ins[q].pc \in HoldPc
      PROVE  /\ lock[ins[q].cur] = q /\ ins[q].cur \in 1..Len(pages)
             /\ ins[p].pc \in HoldPc => ins[q].cur # ins[p].cur
  <2>1. ins[q].pc # "idle"
    BY <1>3 DEF HoldPc
  <2>2. ins[q].cur \in 1..Len(pages)
    BY <2>1, InsertFacts
  <2>3. \A r \in Inserters : ins[r].pc \in HoldPc => lock[ins[r].cur] = r
    BY <1>1 DEF InsertOK
  <2>4. QED
    BY <1>3, <2>2, <2>3
<1>4. ASSUME vac.pc \in HoldPc
      PROVE  /\ lock[vac.cur] = Vacuum /\ vac.cur \in 1..Len(pages)
             /\ ins[p].pc \in HoldPc => vac.cur # ins[p].cur
  <2>1. vac.pc \in LookPc
    BY <1>4, VacFields, InsertFacts DEF HoldPc, LookPc
  <2>2. vac.cur \in 1..Len(pages)
    BY <1>2, <2>1, InsertFacts DEF VacuumOK, NoBlock
  <2>3. lock[vac.cur] = Vacuum
    BY <1>2, <1>4 DEF VacuumOK
  <2>4. QED
    BY <1>1, <2>2, <2>3, Names DEF InsertOK
<1>5. QED
  BY <1>3, <1>4

\* No deleted element before the page a backend has got to, if nothing overlapped.
LEMMA FoundFacts ==
  ASSUME PagesInv, NEW p \in Inserters, status = "ready", ~overlap, vac.pc = "idle"
  PROVE  /\ CleanBelow(pages, insertPage)
         /\ ins[p].pc # "idle" => CleanBelow(pages, Bound(ins[p]))
BY DEF PagesInv, FoundOK

LEMMA StartsInv ==
  ASSUME PagesInv, NEW p \in Inserters, NEW l \in Levels, Starts(p, l)
  PROVE  PagesInv'
<1> DEFINE r == [pc |-> "seek", level |-> l, from |-> insertPage,
                 cur |-> insertPage, off |-> 0, new |-> NoBlock]
<1>0. status = "ready" /\ insertPage \in 1..Len(pages) /\ Len(pages) \in Nat /\ lock \in LockSet
      /\ Chained(pages) /\ Pairs(pages)
  BY InsertFacts DEF Starts
<1>1. r \in InsSet
  BY <1>0 DEF InsSet, InsPc, NoBlock
<1>2. /\ ins' = [ins EXCEPT ![p] = r] /\ pages' = pages /\ lock' = lock /\ status' = status /\ vac' = vac
      /\ overlap' = overlap /\ insertPage' = insertPage
      /\ count' = [count EXCEPT !.inserts = @ + 1] /\ count.inserts < MaxInserts
      /\ ins[p].pc = "idle"
  BY DEF Starts
<1>3. r.pc = "seek" /\ r.cur = insertPage /\ r.new = NoBlock /\ Bound(r) = insertPage
  BY DEF Bound
<1> HIDE DEF r
<1>4. "seek" \in LookPc /\ "seek" \notin HoldPc
  BY DEF LookPc, HoldPc
<1>5. InsertOK(p, r, pages', lock')
  BY <1>0, <1>2, <1>3, <1>4 DEF InsertOK, NoBlock
<1>6. RoomOK' /\ count' \in CountSet
  BY <1>1, <1>2, <1>3, <1>4, RoomStart
<1>7. Changes(pages, pages', {})
  BY <1>0, <1>2, ChangesSelf
<1>8. ~overlap /\ vac.pc = "idle" => CleanBelow(pages, insertPage)
  BY <1>0, FoundFacts
<1>9. StepTo(p, r, {})
  BY <1>0, <1>2, <1>3, <1>5, <1>6, <1>7, <1>8, OthersHold DEF StepTo
<1>10. QED
  BY <1>1, <1>9, InsertStepInv

LEMMA LockBufferInv ==
  ASSUME PagesInv, NEW p \in Inserters, LockBuffer(p)
  PROVE  PagesInv'
<1> DEFINE i == ins[p]
           n == IF i.new = NoBlock /\ FreeSpace(pages[i.cur]) >= MinCombinedSize THEN i.cur ELSE i.new
           r == [i EXCEPT !.pc = "look", !.off = 0, !.new = n]
<1>0. /\ status = "ready" /\ insertPage \in 1..Len(pages) /\ Len(pages) \in Nat /\ lock \in LockSet
      /\ Chained(pages) /\ Pairs(pages) /\ i \in InsSet /\ i.cur \in 1..Len(pages)
      /\ InsertOK(p, i, pages, lock) /\ i.pc = "seek" /\ count \in CountSet
  BY InsertFacts DEF LockBuffer
<1>a. n \in Nat /\ n \in 0..Len(pages)
  BY <1>0, InsFields DEF InsertOK
<1>2. /\ ins' = [ins EXCEPT ![p] = r] /\ pages' = pages /\ status' = status /\ vac' = vac
      /\ overlap' = overlap /\ insertPage' = insertPage /\ count' = count
      /\ lock[i.cur] = Nobody /\ lock' = [lock EXCEPT ![i.cur] = p]
  BY DEF LockBuffer
<1>b. n = i.new \/ (i.new = NoBlock /\ n = i.cur)
  OBVIOUS
<1> HIDE DEF n
<1>1. r \in InsSet
  BY <1>0, <1>a DEF InsSet, InsPc
<1>3. r.pc = "look" /\ r.cur = i.cur /\ r.new = n /\ r.off = 0
  BY <1>0 DEF InsSet
<1> HIDE DEF r
<1>c. i.cur \in 1..MaxPages
  BY <1>0, RoomLeft, RoomFacts
<1>4. lock' \in LockSet /\ lock'[i.cur] = p /\ \A b \in 1..MaxPages : b # i.cur => lock'[b] = lock[b]
  BY <1>0, <1>2, <1>c, Names DEF LockSet
<1>5. InsertOK(p, r, pages', lock')
  BY <1>0, <1>2, <1>3, <1>4, <1>a DEF InsertOK, NoBlock
<1>d. "look" \in LookPc /\ "seek" \in LookPc /\ "look" # "fresh"
  BY DEF LookPc
<1>6. RoomOK'
  BY <1>0, <1>1, <1>2, <1>3, <1>d, RoomSame
<1>7. Changes(pages, pages', {})
  BY <1>0, <1>2, ChangesSelf
<1>e. 1..Len(pages) \subseteq 1..MaxPages
  BY <1>0, RoomLeft, RoomFacts
<1>8. \A q \in Inserters : q # p /\ ins[q].pc \in HoldPc => lock'[ins[q].cur] = q
  BY <1>2, <1>4, <1>e, OthersHold, Names
<1>9. vac.pc \in HoldPc => lock'[vac.cur] = Vacuum
  BY <1>2, <1>4, <1>e, OthersHold, Names
<1>10. ~overlap /\ vac.pc = "idle" => CleanBelow(pages, insertPage) /\ CleanBelow(pages, Bound(r))
  <2>1. Bound(r) = Bound(i)
    BY <1>3, <1>b DEF Bound
  <2>2. QED
    BY <2>1, <1>0, FoundFacts
<1>11. StepTo(p, r, {})
  BY <1>0, <1>2, <1>4, <1>5, <1>6, <1>7, <1>8, <1>9, <1>10 DEF StepTo
<1>12. QED
  BY <1>1, <1>11, InsertStepInv
\* A backend's locks are released; those of others stay.
LEMMA Released ==
  ASSUME PagesInv, NEW p \in Inserters,
         lock' = [b \in DOMAIN lock |-> IF lock[b] = p THEN Nobody ELSE lock[b]]
  PROVE  /\ lock' \in LockSet
         /\ \A q \in Inserters : q # p /\ ins[q].pc \in HoldPc => lock'[ins[q].cur] = q
         /\ vac.pc \in HoldPc => lock'[vac.cur] = Vacuum
<1>1. lock \in LockSet /\ 1..Len(pages) \subseteq 1..MaxPages
  BY InsertFacts, RoomLeft, RoomFacts
<1>2. lock' \in LockSet /\ \A b \in 1..MaxPages : lock[b] # p => lock'[b] = lock[b]
  BY <1>1 DEF LockSet
<1>3. QED
  BY <1>1, <1>2, OthersHold, Names

\* The end of an insert that writes its tuples to pages of B, its own or without a lock.
LEMMA WrittenInv ==
  ASSUME PagesInv, NEW p \in Inserters, ins[p].pc \in HoldPc, NEW nblk, Written(p, nblk),
         NEW B, Changes(pages, pages', B), Len(pages') <= Len(pages) + 1, nblk \in 1..Len(pages'),
         Len(pages') # Len(pages) => Len(pages) \in B,
         \A q \in Inserters : q # p /\ ins[q].pc \in HoldPc => ins[q].cur \notin B,
         vac.pc \in HoldPc => vac.cur \notin B,
         ~overlap /\ vac.pc = "idle" /\ ins[p].new = NoBlock => CleanBelow(pages', nblk),
         UNCHANGED <<insertPage, status, vac, count, overlap>>
  PROVE  PagesInv'
<1> DEFINE i == ins[p]
           n == IF i.new = NoBlock THEN nblk ELSE i.new
           r == [i EXCEPT !.pc = "meta", !.new = n]
<1>a. i.pc # "idle" /\ (i.pc \in LookPc \/ i.pc = "fresh")
  BY DEF HoldPc, LookPc
<1>0. /\ status = "ready" /\ insertPage \in 1..Len(pages) /\ Len(pages) \in Nat
      /\ i \in InsSet /\ i.cur \in 1..Len(pages) /\ InsertOK(p, i, pages, lock) /\ count \in CountSet
  BY <1>a, InsertFacts
<1>1. Chained(pages') /\ Len(pages) <= Len(pages') /\ NoneDeleted(pages, pages')
  BY DEF Changes, Kept
<1>2. Len(pages') \in Nat /\ 1..Len(pages) \subseteq 1..Len(pages') /\ 0..Len(pages) \subseteq 0..Len(pages')
  <2>1. Len(pages') \in Nat
    BY <1>1, ChainFields
  <2>2. QED
    BY <2>1, <1>0, <1>1
<1>3. ins' = [ins EXCEPT ![p] = r]
  BY DEF Written, NewInsertPage
<1>4. lock' = [b \in DOMAIN lock |-> IF lock[b] = p THEN Nobody ELSE lock[b]]
  BY DEF Written
<1>5. n \in Nat /\ n \in 0..Len(pages') /\ n # NoBlock
  <2>1. i.new \in Nat /\ i.new \in 0..Len(pages)
    BY <1>0, InsFields DEF InsertOK
  <2>2. CASE i.new = NoBlock
    <3>1. n = nblk
      BY <2>2
    <3> HIDE DEF n
    <3>2. QED
      BY <1>2, <2>2, <3>1 DEF NoBlock
  <2>3. CASE i.new # NoBlock
    <3>1. n = i.new
      BY <2>3
    <3> HIDE DEF n, i
    <3>2. QED
      BY <1>2, <2>1, <2>3, <3>1
  <2>4. QED
    BY <2>2, <2>3
<1>b. (i.new = NoBlock /\ n = nblk) \/ (i.new # NoBlock /\ n = i.new)
  OBVIOUS
<1> HIDE DEF n
<1>6. r \in InsSet
  BY <1>0, <1>5 DEF InsSet, InsPc
<1>7. r.pc = "meta" /\ r.cur = i.cur /\ r.new = n
  BY <1>0 DEF InsSet
<1> HIDE DEF r
<1>8. InsertOK(p, r, pages', lock')
  <2>1. "meta" \notin HoldPc
    BY DEF HoldPc
  <2>2. r.cur \in 0..Len(pages') /\ r.cur # NoBlock
    BY <1>0, <1>2, <1>7 DEF NoBlock
  <2>3. QED
    BY <2>1, <2>2, <1>5, <1>7 DEF InsertOK
<1>9. RoomOK'
  <2>1. r.pc \notin LookPc /\ r.pc # "fresh"
    BY <1>7 DEF LookPc
  <2>2. QED
    BY <1>2, <1>3, <1>6, <1>a, <2>1, RoomEnd
<1>10. ~overlap /\ vac.pc = "idle" => CleanBelow(pages', insertPage) /\ CleanBelow(pages', Bound(r))
  <2>1. SUFFICES ASSUME ~overlap, vac.pc = "idle"
                 PROVE  CleanBelow(pages', insertPage) /\ CleanBelow(pages', Bound(r))
    OBVIOUS
  <2>2. CleanBelow(pages, insertPage) /\ CleanBelow(pages, Bound(i))
    BY <2>1, <1>0, <1>a, FoundFacts
  <2>3. CleanBelow(pages', insertPage) /\ CleanBelow(pages', Bound(i))
    BY <2>2, <1>1, CleanKept
  <2>4. CASE i.new = NoBlock
    BY <2>1, <2>3, <2>4, <1>5, <1>7, <1>b DEF Bound
  <2>5. CASE i.new # NoBlock
    BY <2>3, <2>5, <1>5, <1>7, <1>b DEF Bound
  <2>6. QED
    BY <2>4, <2>5
<1>11. StepTo(p, r, B)
  BY <1>0, <1>2, <1>3, <1>4, <1>8, <1>9, <1>10, Released DEF StepTo
<1>12. QED
  BY <1>6, <1>11, InsertStepInv

\* The hypotheses of the lemmas on pages, as one fact each.
RoomHere(ps, b, l) ==
  /\ Chained(ps) /\ Pairs(ps) /\ b \in 1..Len(ps) /\ l \in Levels
  /\ FreeSpace(ps[b]) >= CombinedSize(l)

RoomForElement(ps, l) ==
  /\ Chained(ps) /\ Pairs(ps) /\ l \in Levels /\ FreeSpace(ps[Len(ps)]) >= EtupSize

LEMMA AddedHere ==
  ASSUME NEW ps, NEW b, NEW l, RoomHere(ps, b, l)
  PROVE  /\ Changes(ps, AddBoth(ps, b, b, l), {b})
         /\ Len(AddBoth(ps, b, b, l)) = Len(ps)
<1>1. /\ Chained(ps) /\ Pairs(ps) /\ b \in 1..Len(ps) /\ l \in Levels
      /\ FreeSpace(ps[b]) >= CombinedSize(l)
  BY DEF RoomHere
<1>2. \A xs : xs = AddBoth(ps, b, b, l) => Changes(ps, xs, {b}) /\ Len(xs) = Len(ps)
  BY <1>1, AddBothHere
<1>3. QED
  BY <1>2, Zenon

LEMMA AddedOverTwo ==
  ASSUME NEW ps, NEW b, NEW l, RoomForElement(ps, l), b = Len(ps)
  PROVE  /\ Changes(ps, AddBoth(Extended(ps, b), b, Len(ps) + 1, l), {b})
         /\ Len(AddBoth(Extended(ps, b), b, Len(ps) + 1, l)) = Len(ps) + 1
<1>1. Chained(ps) /\ Pairs(ps) /\ l \in Levels /\ FreeSpace(ps[Len(ps)]) >= EtupSize
  BY DEF RoomForElement
<1>2. \A xs : xs = AddBoth(Extended(ps, Len(ps)), Len(ps), Len(ps) + 1, l) =>
               Changes(ps, xs, {Len(ps)}) /\ Len(xs) = Len(ps) + 1
  BY <1>1, AddOverTwo
<1>3. QED
  BY <1>2, Zenon

LEMMA FastPathInv ==
  ASSUME PagesInv, NEW p \in Inserters, FastPath(p)
  PROVE  PagesInv'
<1> DEFINE i == ins[p]
<1>1. i.pc = "look" /\ i.pc \in HoldPc
  BY DEF FastPath, HoldPc
<1>2. /\ status = "ready" /\ Chained(pages) /\ Pairs(pages) /\ i \in InsSet /\ i.cur \in 1..Len(pages)
      /\ i.level \in Levels /\ Len(pages) \in Nat
  BY <1>1, InsertFacts, InsFields
<1>3. /\ FreeSpace(pages[i.cur]) >= CombinedSize(i.level)
      /\ pages' = AddBoth(pages, i.cur, i.cur, i.level) /\ Written(p, i.cur)
      /\ UNCHANGED <<insertPage, status, vac, count, overlap>>
  BY DEF FastPath, FitsPage
<1>4. Changes(pages, pages', {i.cur}) /\ Len(pages') = Len(pages)
  <2>1. RoomHere(pages, i.cur, i.level)
    BY <1>2, <1>3 DEF RoomHere
  <2>2. QED
    BY <1>3, <2>1, AddedHere, Zenon
<1>5. ~overlap /\ vac.pc = "idle" /\ i.new = NoBlock => CleanBelow(pages', i.cur)
  <2>1. ~overlap /\ vac.pc = "idle" /\ i.new = NoBlock => CleanBelow(pages, i.cur)
    BY <1>1, <1>2, FoundFacts DEF Bound
  <2>2. NoneDeleted(pages, pages')
    BY <1>4 DEF Changes
  <2>3. QED
    BY <2>1, <2>2, CleanKept
<1>6. /\ \A q \in Inserters : q # p /\ ins[q].pc \in HoldPc => ins[q].cur \notin {i.cur}
      /\ vac.pc \in HoldPc => vac.cur \notin {i.cur}
  BY <1>1, OthersHold
<1>7. Len(pages') <= Len(pages) + 1 /\ i.cur \in 1..Len(pages')
  BY <1>2, <1>4
<1>8. QED
  BY <1>1, <1>3, <1>4, <1>5, <1>6, <1>7, WrittenInv

LEMMA LeastDeleted ==
  ASSUME PagesInv, NEW b \in 1..Len(pages), NEW off, DeletedAfter(b, off) # {}
  PROVE  /\ NextDeleted(b, off) \in DOMAIN pages[b].items /\ NextDeleted(b, off) > off
         /\ pages[b].items[NextDeleted(b, off)].kind = "element"
         /\ pages[b].items[NextDeleted(b, off)].deleted
<1>1. DeletedAfter(b, off) \in SUBSET Nat
  <2>1. PageOK(pages[b])
    BY ChainFields DEF PagesInv, StateOK
  <2>2. DOMAIN pages[b].items \in SUBSET Nat
    BY <2>1, PageFields
  <2>3. QED
    BY <2>2 DEF DeletedAfter
<1>2. \E o \in DeletedAfter(b, off) : \A x \in DeletedAfter(b, off) : o <= x
  BY <1>1, LeastElement
<1>3. NextDeleted(b, off) \in DeletedAfter(b, off)
  BY <1>2 DEF NextDeleted
<1>4. QED
  BY <1>3 DEF DeletedAfter
\* The checks of HnswFreeOffset are those of PageIndexTupleOverwrite, so the place is
\* taken.
LEMMA OverwriteArith ==
  ASSUME NEW t \in Nat, NEW u \in Nat, NEW w \in Nat, NEW g \in Nat, t <= u + (w + g - EtupSize)
  PROVE  t <= u + (g + w - EtupSize)
OBVIOUS

LEMMA OverwriteBothWrites ==
  ASSUME PagesInv, NEW p \in Inserters, NEW b \in 1..Len(pages), NEW o \in DOMAIN pages[b].items,
         pages[b].items[o].kind = "element", FreeOffsetFits(b, o, ins[p].level),
         OverwriteBoth(p, b, o), NEW nb, nb = pages[b].items[o].link[1]
  PROVE  /\ Changes(pages, pages', {b, nb}) /\ Len(pages') = Len(pages) /\ Written(p, nb)
         /\ nb \in 1..Len(pages)
<1> DEFINE l    == ins[p].level
           ntid == pages[b].items[o].link
           no   == ntid[2]
           e    == Etup(ntid)
           x    == Ntup(l, <<b, o>>)
           ps1  == [pages EXCEPT ![b] = Overwrite(pages[b], o, e)]
           ps2  == [ps1 EXCEPT ![nb] = Overwrite(ps1[nb], no, x)]
<1>1. Chained(pages) /\ Pairs(pages) /\ l \in Levels
  BY InsertFacts, InsFields
<1>2. /\ ntid \in Nat \X Nat /\ ntid = <<nb, no>> /\ nb \in 1..Len(pages)
      /\ no \in DOMAIN pages[nb].items /\ (nb = b => no # o) /\ <<b, o>> \in Nat \X Nat
      /\ pages[nb].items[no].kind = "neighbors"
  <2>1. ElementAt(pages, b, o)
    BY <1>1 DEF ElementAt
  <2>2. PairTo(pages, b, o, ntid)
    BY <2>1, PairFields, Zenon
  <2>3. ntid[1] = nb
    OBVIOUS
  <2> HIDE DEF ntid
  <2>4. QED
    BY <2>2, <2>3 DEF PairTo
<1>3. /\ PageOK(pages[b]) /\ PageOK(pages[nb]) /\ pages[b].free \in Nat /\ pages[nb].free \in Nat
      /\ pages[b].items[o] \in ItemSet /\ pages[nb].items[no] \in ItemSet
  BY <1>1, <1>2, ChainFields, PageFields
<1>4. pages[b].items[o].size \in Nat /\ pages[nb].items[no].size \in Nat /\ NtupSize(l) \in Nat
  BY <1>1, <1>3, ItemFields, NtupFacts
<1>5. e \in ItemSet /\ e.size = EtupSize /\ e.link = ntid /\ ~e.deleted /\ e.kind = "element"
  BY <1>2, EtupItem
<1>6. x \in ItemSet /\ x.size = NtupSize(l) /\ x.link = <<b, o>> /\ x.kind = "neighbors"
  BY <1>1, <1>2, NtupItem
<1>7. EtupSize <= pages[b].items[o].size + pages[b].free
  BY <1>3, <1>4 DEF FreeOffsetFits
<1>8. CanOverwrite(pages[b], o, EtupSize)
  BY <1>7 DEF CanOverwrite
<1>9. nb # b => NtupSize(l) <= pages[nb].items[no].size + pages[nb].free
  BY <1>3, <1>4 DEF FreeOffsetFits, Item
<1>10. nb = b => NtupSize(l) <= pages[nb].items[no].size
                              + (pages[b].items[o].size + pages[b].free - EtupSize)
  <2>1. CASE nb = b
    <3> DEFINE s == pages[b].items[o].size
               f == pages[b].free
               u == pages[nb].items[no].size
    <3>1. ntid[1] = b /\ s \in Nat /\ f \in Nat /\ u \in Nat
      BY <1>3, <1>4, <2>1
    <3>2. u = Item(ntid).size
      BY <1>2 DEF Item
    <3>3. u + (IF s + f >= EtupSize THEN s + f - EtupSize ELSE 0) >= NtupSize(l)
      BY <3>1, <3>2 DEF FreeOffsetFits
    <3>4. s + f >= EtupSize
      BY <1>7
    <3> HIDE DEF s, f, u
    <3>5. NtupSize(l) <= u + (s + f - EtupSize)
      BY <1>4, <3>1, <3>3, <3>4, PagesConstants
    <3>6. QED
      BY <3>5 DEF s, f, u
  <2>2. QED
    BY <2>1
<1>a. \/ pages' = ps2 /\ Written(p, nb)
      \/ ~CanOverwrite(pages[b], o, EtupSize) \/ ~CanOverwrite(ps1[nb], no, NtupSize(l))
  BY Zenon DEF OverwriteBoth
<1> HIDE DEF e, x
<1>11. Over(pages, ps1, b, o, e)
  BY <1>1, <1>5, <1>8, OverOne
<1>b. ps1[b] = Overwrite(pages[b], o, e)
  BY <1>1, ChainFields
<1>c. ps1[b].free = pages[b].free + pages[b].items[o].size - EtupSize
  <2> HIDE DEF ps1
  <2>1. CanOverwrite(pages[b], o, e.size)
    BY <1>5, <1>8
  <2> DEFINE pg == pages[b]
  <2>a. PageOK(pg) /\ o \in DOMAIN pg.items /\ e \in ItemSet /\ CanOverwrite(pg, o, e.size)
    BY <1>3, <1>5, <2>1
  <2> HIDE DEF pg
  <2>b. Overwrite(pg, o, e).free = pg.free + pg.items[o].size - e.size
    BY <2>a, OverwriteOK
  <2>2. Overwrite(pages[b], o, e).free = pages[b].free + pages[b].items[o].size - e.size
    BY <2>b DEF pg
  <2>3. QED
    BY <1>5, <1>b, <2>2
<1>d. nb # b => ps1[nb] = pages[nb]
  BY <1>2, <1>11 DEF Over
<1> HIDE DEF ps1
<1>e. no \in DOMAIN ps1[nb].items /\ ps1[nb].items[no] = pages[nb].items[no] /\ Len(ps1) = Len(pages)
  BY <1>2, <1>11 DEF Over
<1>12. CanOverwrite(ps1[nb], no, NtupSize(l))
  <2>1. CASE nb = b
    <3>1. NtupSize(l) <= pages[nb].items[no].size + (pages[b].items[o].size + pages[b].free - EtupSize)
      BY <2>1, <1>10
    <3>2. ps1[nb].free = pages[b].free + pages[b].items[o].size - EtupSize
      BY <2>1, <1>c
    <3> DEFINE u == pages[nb].items[no].size
               w == pages[b].items[o].size
               g == pages[b].free
               t == NtupSize(l)
    <3>3. u \in Nat /\ w \in Nat /\ g \in Nat /\ t \in Nat
      BY <1>3, <1>4
    <3>4. ps1[nb].items[no].size = u
      BY <1>e
    <3> HIDE DEF u, w, g, t
    <3>5. t <= u + (w + g - EtupSize) /\ ps1[nb].free = g + w - EtupSize
      BY <3>1, <3>2 DEF u, w, g, t
    <3>a. t <= u + (g + w - EtupSize)
      BY <3>3, <3>5, OverwriteArith, Zenon
    <3>6. t <= ps1[nb].items[no].size + ps1[nb].free
      BY <3>a, <3>4, <3>5, Zenon
    <3>7. QED
      BY <3>6 DEF CanOverwrite, t
  <2>2. CASE nb # b
    BY <2>2, <1>9, <1>d, <1>e DEF CanOverwrite
  <2>3. QED
    BY <2>1, <2>2
<1>13. Over(ps1, ps2, nb, no, x)
  <2>1. Chained(ps1) /\ nb \in 1..Len(ps1)
    BY <1>2, <1>11, <1>e DEF Over
  <2>2. QED
    BY <1>6, <1>12, <1>e, <2>1, OverOne
<1>14. pages' = ps2 /\ Written(p, nb)
  BY <1>8, <1>12, <1>a
<1> HIDE DEF ps2
<1>15. Changes(pages, ps2, {b, nb}) /\ Len(ps2) = Len(pages)
  <2>1. pages[b].items[o].link = <<nb, no>> /\ e.link = <<nb, no>>
    BY <1>2, <1>5
  <2>2. Reused(pages, b, o, nb, no, e, x)
    BY <1>1, <1>5, <1>6, <2>1 DEF Reused
  <2> HIDE DEF no, ntid
  <2>3. BothOver(pages, ps1, ps2, b, o, nb, no, e, x)
    BY <1>11, <1>13, <2>2, Zenon DEF BothOver
  <2>4. QED
    BY <2>3, OverTwo, Zenon
<1>16. QED
  BY <1>2, <1>14, <1>15

\* The insert ends in the place of a deleted element of its page.
TakesPlace(p, o, nb) ==
  /\ ins[p].pc \in HoldPc /\ o \in DOMAIN pages[ins[p].cur].items
  /\ pages[ins[p].cur].items[o].kind = "element" /\ nb = pages[ins[p].cur].items[o].link[1]
  /\ FreeOffsetFits(ins[p].cur, o, ins[p].level) /\ OverwriteBoth(p, ins[p].cur, o)
  /\ nb = ins[p].cur \/ lock[nb] = Nobody
  /\ ins[p].new = NoBlock => nb = ins[p].cur
  /\ UNCHANGED <<insertPage, status, vac, count, overlap>>

LEMMA OverwriteInv ==
  ASSUME PagesInv, NEW p \in Inserters, NEW o, NEW nb, TakesPlace(p, o, nb)
  PROVE  PagesInv'
<1> DEFINE i == ins[p]
<1>0. /\ i.pc \in HoldPc /\ (nb = i.cur \/ lock[nb] = Nobody) /\ (i.new = NoBlock => nb = i.cur)
      /\ UNCHANGED <<insertPage, status, vac, count, overlap>>
  BY DEF TakesPlace
<1>1. i.pc # "idle"
  BY <1>0 DEF HoldPc
<1>2. status = "ready" /\ i.cur \in 1..Len(pages) /\ Len(pages) \in Nat
  BY <1>1, InsertFacts
<1>3. /\ Changes(pages, pages', {i.cur, nb}) /\ Len(pages') = Len(pages) /\ Written(p, nb)
      /\ nb \in 1..Len(pages)
  BY <1>2, OverwriteBothWrites DEF TakesPlace
<1>4. ~overlap /\ vac.pc = "idle" /\ i.new = NoBlock => CleanBelow(pages', nb)
  <2>1. ~overlap /\ vac.pc = "idle" /\ i.new = NoBlock => CleanBelow(pages, i.cur)
    BY <1>1, <1>2, FoundFacts DEF Bound
  <2>2. NoneDeleted(pages, pages')
    BY <1>3 DEF Changes
  <2>3. QED
    BY <1>0, <2>1, <2>2, CleanKept
<1>5. /\ \A q \in Inserters : q # p /\ ins[q].pc \in HoldPc => ins[q].cur \notin {i.cur, nb}
      /\ vac.pc \in HoldPc => vac.cur \notin {i.cur, nb}
  BY <1>0, OthersHold, Names
<1>6. Len(pages') <= Len(pages) + 1 /\ nb \in 1..Len(pages')
  BY <1>2, <1>3
<1>7. QED
  BY <1>0, <1>3, <1>4, <1>5, <1>6, WrittenInv

\* A backend that goes on looking on its page.
LEMMA StaysInv ==
  ASSUME PagesInv, NEW p \in Inserters, ins[p].pc \in {"look", "nbuf"}, NEW r \in InsSet,
         ins' = [ins EXCEPT ![p] = r], r.pc \in {"look", "nbuf"}, InsertOK(p, r, pages, lock),
         Bound(r) = Bound(ins[p]),
         UNCHANGED <<pages, lock, insertPage, status, vac, count, overlap>>
  PROVE  PagesInv'
<1>1. ins[p].pc # "idle" /\ r.pc # "idle"
  OBVIOUS
<1>2. /\ status = "ready" /\ insertPage \in 1..Len(pages) /\ lock \in LockSet /\ count \in CountSet
      /\ Chained(pages) /\ Pairs(pages)
  BY <1>1, InsertFacts
<1>3. RoomOK'
  <2>1. r.pc \in LookPc /\ ins[p].pc \in LookPc /\ r.pc # "fresh" /\ ins[p].pc # "fresh"
    BY DEF LookPc
  <2>2. QED
    BY <2>1, RoomSame
<1>4. Changes(pages, pages', {})
  BY <1>2, ChangesSelf
<1>5. ~overlap /\ vac.pc = "idle" => CleanBelow(pages, insertPage) /\ CleanBelow(pages, Bound(r))
  BY <1>1, <1>2, FoundFacts
<1>6. StepTo(p, r, {})
  BY <1>2, <1>3, <1>4, <1>5, OthersHold DEF StepTo
<1>7. QED
  BY <1>6, InsertStepInv

LEMMA NotedOK ==
  ASSUME PagesInv, NEW p \in Inserters, ins[p].pc \in {"look", "nbuf"}, NEW pc \in {"look", "nbuf"},
         NEW o \in DOMAIN pages[ins[p].cur].items, pages[ins[p].cur].items[o].kind = "element",
         pages[ins[p].cur].items[o].deleted,
         pc = "nbuf" => pages[ins[p].cur].items[o].link[1] # ins[p].cur,
         NEW r, r.pc = pc, r.cur = ins[p].cur, r.off = o, r.new = NotePage(ins[p].new, ins[p].cur)
  PROVE  InsertOK(p, r, pages, lock) /\ Bound(r) = Bound(ins[p])
<1> DEFINE i == ins[p]
           n == NotePage(i.new, i.cur)
<1>1. /\ i.pc # "idle" /\ i.pc \in HoldPc /\ pc \in InsPc /\ pc # "idle" /\ pc # "fresh"
  BY DEF HoldPc, InsPc
<1>2. /\ i \in InsSet /\ i.cur \in 1..Len(pages) /\ Len(pages) \in Nat /\ InsertOK(p, i, pages, lock)
      /\ Chained(pages)
  BY <1>1, InsertFacts
<1>3. n \in 0..Len(pages) /\ n # NoBlock /\ (i.new = NoBlock => n = i.cur)
      /\ (i.new # NoBlock => n = i.new)
  BY <1>2, InsFields DEF InsertOK, NoBlock, NotePage
<1>4. r.new = n
  OBVIOUS
<1> HIDE DEF n
<1>5. Bound(r) = Bound(i)
  BY <1>3, <1>4 DEF Bound
<1>6. lock[i.cur] = p
  BY <1>1, <1>2 DEF InsertOK
<1>7. i.cur \in 0..Len(pages) /\ i.cur # NoBlock
  BY <1>2 DEF NoBlock
<1>8. InsertOK(p, r, pages, lock)
  BY <1>1, <1>3, <1>4, <1>6, <1>7 DEF InsertOK
<1>9. QED
  BY <1>5, <1>8

LEMMA OffsetNat ==
  ASSUME PagesInv, NEW b \in 1..Len(pages), NEW o \in DOMAIN pages[b].items
  PROVE  o \in Nat
<1>1. PageOK(pages[b])
  BY ChainFields DEF PagesInv, StateOK
<1>2. DOMAIN pages[b].items = 1..Len(pages[b].items) /\ Len(pages[b].items) \in Nat
  BY <1>1, PageFields
<1>3. QED
  BY <1>2

LEMMA FreeOffsetHereInv ==
  ASSUME PagesInv, NEW p \in Inserters, FreeOffsetHere(p)
  PROVE  PagesInv'
<1> DEFINE i == ins[p]
           o == NextDeleted(i.cur, i.off)
<1>1. /\ i.pc = "look" /\ DeletedAfter(i.cur, i.off) # {} /\ pages[i.cur].items[o].link[1] = i.cur
      /\ UNCHANGED <<insertPage, status, vac, count, overlap>>
  BY DEF FreeOffsetHere
<1>2. i.cur \in 1..Len(pages) /\ i.pc \in HoldPc
  BY <1>1, InsertFacts DEF HoldPc
<1>3. /\ o \in DOMAIN pages[i.cur].items /\ pages[i.cur].items[o].kind = "element"
      /\ pages[i.cur].items[o].deleted
  BY <1>1, <1>2, LeastDeleted
<1>a. i \in InsSet /\ o \in Nat /\ NotePage(i.new, i.cur) \in Nat
  BY <1>2, <1>3, OffsetNat, InsertFacts, InsFields DEF NotePage
<1>4. \/ FreeOffsetFits(i.cur, o, i.level) /\ OverwriteBoth(p, i.cur, o)
      \/ /\ ins' = [ins EXCEPT ![p].off = o, ![p].new = NotePage(@, i.cur)]
         /\ UNCHANGED <<pages, lock>>
  BY Zenon DEF FreeOffsetHere
<1> HIDE DEF o
<1>5. CASE FreeOffsetFits(i.cur, o, i.level) /\ OverwriteBoth(p, i.cur, o)
  <2>1. TakesPlace(p, o, i.cur)
    BY <1>1, <1>2, <1>3, <1>5, Zenon DEF TakesPlace
  <2>2. QED
    BY <2>1, OverwriteInv
<1>6. CASE /\ ins' = [ins EXCEPT ![p].off = o, ![p].new = NotePage(@, i.cur)]
           /\ UNCHANGED <<pages, lock>>
  <2> DEFINE n == NotePage(i.new, i.cur)
             r == [i EXCEPT !.off = o, !.new = n]
  <2>1. ins' = [ins EXCEPT ![p] = r]
    BY <1>6
  <2>2. r \in InsSet /\ r.pc = "look" /\ r.cur = i.cur /\ r.off = o /\ r.new = n
    <3> HIDE DEF n
    <3>1. n \in Nat /\ i \in InsSet /\ o \in Nat /\ i.pc = "look"
      BY <1>1, <1>a DEF n
    <3> HIDE DEF i
    <3>2. QED
      BY <3>1 DEF InsSet
  <2> HIDE DEF r
  <2>3. InsertOK(p, r, pages, lock) /\ Bound(r) = Bound(i)
    BY <1>1, <1>3, <2>2, NotedOK
  <2>4. QED
    BY <1>1, <1>6, <2>1, <2>2, <2>3, StaysInv
<1>7. QED
  BY <1>4, <1>5, <1>6

LEMMA FreeOffsetWaitsInv ==
  ASSUME PagesInv, NEW p \in Inserters, FreeOffsetWaits(p)
  PROVE  PagesInv'
<1> DEFINE i == ins[p]
           o == NextDeleted(i.cur, i.off)
           n == NotePage(i.new, i.cur)
           r == [i EXCEPT !.pc = "nbuf", !.off = o, !.new = n]
<1>1. /\ i.pc = "look" /\ DeletedAfter(i.cur, i.off) # {} /\ pages[i.cur].items[o].link[1] # i.cur
      /\ UNCHANGED <<pages, insertPage, status, lock, vac, count, overlap>>
      /\ ins' = [ins EXCEPT ![p] = r]
  BY DEF FreeOffsetWaits
<1>2. i.cur \in 1..Len(pages)
  BY <1>1, InsertFacts
<1>3. /\ o \in DOMAIN pages[i.cur].items /\ pages[i.cur].items[o].kind = "element"
      /\ pages[i.cur].items[o].deleted
  BY <1>1, <1>2, LeastDeleted
<1>a. i \in InsSet /\ o \in Nat /\ NotePage(i.new, i.cur) \in Nat
  BY <1>2, <1>3, OffsetNat, InsertFacts, InsFields DEF NotePage
<1> HIDE DEF o
<1>4. r \in InsSet /\ r.pc = "nbuf" /\ r.cur = i.cur /\ r.off = o /\ r.new = n
  <2> HIDE DEF n
  <2>1. n \in Nat /\ i \in InsSet /\ o \in Nat
    BY <1>a DEF n
  <2> HIDE DEF i
  <2>2. QED
    BY <2>1 DEF InsSet, InsPc
<1> HIDE DEF r
<1>5. InsertOK(p, r, pages, lock) /\ Bound(r) = Bound(i)
  BY <1>1, <1>3, <1>4, NotedOK
<1>6. QED
  BY <1>1, <1>4, <1>5, StaysInv

LEMMA FreeOffsetThereInv ==
  ASSUME PagesInv, NEW p \in Inserters, FreeOffsetThere(p)
  PROVE  PagesInv'
<1> DEFINE i  == ins[p]
           nb == pages[i.cur].items[i.off].link[1]
<1>1. /\ i.pc = "nbuf" /\ lock[nb] = Nobody
      /\ UNCHANGED <<insertPage, status, vac, count, overlap>>
  BY DEF FreeOffsetThere
<1>2. /\ i.pc \in HoldPc /\ i \in InsSet /\ InsertOK(p, i, pages, lock)
      /\ i.cur \in 1..Len(pages)
  BY <1>1, InsertFacts DEF HoldPc
<1>3. /\ i.off \in DOMAIN pages[i.cur].items /\ pages[i.cur].items[i.off].kind = "element"
      /\ pages[i.cur].items[i.off].deleted /\ i.new # NoBlock
  BY <1>1, <1>2 DEF InsertOK
<1>4. \/ FreeOffsetFits(i.cur, i.off, i.level) /\ OverwriteBoth(p, i.cur, i.off)
      \/ ins' = [ins EXCEPT ![p].pc = "look"] /\ UNCHANGED <<pages, lock>>
  BY Zenon DEF FreeOffsetThere
<1>5. CASE FreeOffsetFits(i.cur, i.off, i.level) /\ OverwriteBoth(p, i.cur, i.off)
  <2>1. TakesPlace(p, i.off, nb)
    BY <1>1, <1>2, <1>3, <1>5, Zenon DEF TakesPlace
  <2>2. QED
    BY <2>1, OverwriteInv
<1>6. CASE ins' = [ins EXCEPT ![p].pc = "look"] /\ UNCHANGED <<pages, lock>>
  <2> DEFINE r == [i EXCEPT !.pc = "look"]
  <2>1. ins' = [ins EXCEPT ![p] = r]
    BY <1>6
  <2>2. /\ r \in InsSet /\ r.pc = "look" /\ r.new = i.new /\ r.cur = i.cur /\ r.off = i.off
    BY <1>2 DEF InsSet, InsPc
  <2> HIDE DEF r
  <2>3. Bound(r) = Bound(i)
    BY <2>2 DEF Bound
  <2>4. InsertOK(p, r, pages, lock)
    BY <1>1, <1>2, <1>3, <2>2 DEF InsertOK
  <2>5. QED
    BY <1>1, <1>6, <2>1, <2>2, <2>3, <2>4, StaysInv
<1>7. QED
  BY <1>4, <1>5, <1>6

\* The last page is the one without a next one.
LEMMA LastPage ==
  ASSUME PagesInv, NEW b \in 1..Len(pages)
  PROVE  /\ pages[b].next = NoBlock <=> b = Len(pages)
         /\ pages[b].next # NoBlock => pages[b].next = b + 1 /\ b + 1 \in 1..Len(pages)
<1>1. Len(pages) \in Nat /\ pages[b].next = IF b = Len(pages) THEN NoBlock ELSE b + 1
  BY ChainFields DEF PagesInv, StateOK, Chained
<1>2. QED
  BY <1>1 DEF NoBlock

\* A page without a place, and none noted before it: it has no deleted element either.
LEMMA SearchedClean ==
  ASSUME PagesInv, NEW p \in Inserters, NoPlaceHere(ins[p]), ~overlap, vac.pc = "idle",
         ins[p].new = NoBlock
  PROVE  CleanBelow(pages, ins[p].cur + 1)
<1> DEFINE i == ins[p]
<1>1. i.pc = "look" /\ DeletedAfter(i.cur, i.off) = {}
  BY DEF NoPlaceHere
<1>2. /\ status = "ready" /\ i.cur \in 1..Len(pages) /\ Len(pages) \in Nat
      /\ InsertOK(p, i, pages, lock) /\ Chained(pages)
  BY <1>1, InsertFacts
<1>3. i.off = 0
  BY <1>1, <1>2 DEF InsertOK
<1>4. CleanBelow(pages, i.cur)
  BY <1>1, <1>2, FoundFacts DEF Bound
<1>5. DOMAIN pages[i.cur].items = 1..Len(pages[i.cur].items) /\ Len(pages[i.cur].items) \in Nat
  <2>1. PageOK(pages[i.cur])
    BY <1>2, ChainFields
  <2>2. QED
    BY <2>1, PageFields
<1>6. \A o \in DOMAIN pages[i.cur].items :
        ~(pages[i.cur].items[o].kind = "element" /\ pages[i.cur].items[o].deleted)
  BY <1>1, <1>3, <1>5 DEF DeletedAfter
<1>7. \A b \in 1..Len(pages) : b < i.cur + 1 => b < i.cur \/ b = i.cur
  BY <1>2
<1>8. QED
  BY <1>4, <1>6, <1>7 DEF CleanBelow

LEMMA AddElementOnlyInv ==
  ASSUME PagesInv, NEW p \in Inserters, AddElementOnly(p)
  PROVE  PagesInv'
<1> DEFINE i == ins[p]
           m == Len(pages) + 1
<1>1. /\ i.pc = "look" /\ NoPlaceHere(i) /\ FreeSpace(pages[i.cur]) >= EtupSize
      /\ pages[i.cur].next = NoBlock
      /\ pages' = AddBoth(Extended(pages, i.cur), i.cur, m, i.level) /\ Written(p, m)
      /\ UNCHANGED <<insertPage, status, vac, count, overlap>>
  BY DEF AddElementOnly, NoPlaceHere, ElementOnly
<1>2. /\ Chained(pages) /\ Pairs(pages) /\ i \in InsSet /\ i.cur \in 1..Len(pages)
      /\ i.level \in Levels /\ Len(pages) \in Nat /\ i.pc \in HoldPc
  BY <1>1, InsertFacts, InsFields DEF HoldPc
<1>3. i.cur = Len(pages)
  BY <1>1, <1>2, LastPage
<1>4. Changes(pages, pages', {i.cur}) /\ Len(pages') = m
  <2>1. RoomForElement(pages, i.level)
    BY <1>1, <1>2, <1>3 DEF RoomForElement
  <2>2. QED
    BY <1>1, <1>3, <2>1, AddedOverTwo, Zenon
<1>5. ~overlap /\ vac.pc = "idle" /\ i.new = NoBlock => CleanBelow(pages', m)
  <2>1. ~overlap /\ vac.pc = "idle" /\ i.new = NoBlock => CleanBelow(pages, m)
    BY <1>1, <1>3, SearchedClean
  <2>2. NoneDeleted(pages, pages')
    BY <1>4 DEF Changes
  <2>3. QED
    BY <2>1, <2>2, CleanKept
<1>6. /\ \A q \in Inserters : q # p /\ ins[q].pc \in HoldPc => ins[q].cur \notin {i.cur}
      /\ vac.pc \in HoldPc => vac.cur \notin {i.cur}
  BY <1>2, OthersHold
<1>7. Len(pages') <= Len(pages) + 1 /\ m \in 1..Len(pages') /\ Len(pages) \in {i.cur}
  BY <1>2, <1>3, <1>4
<1> HIDE DEF m
<1>8. QED
  BY <1>1, <1>2, <1>4, <1>5, <1>6, <1>7, WrittenInv

LEMMA MoveToNextInv ==
  ASSUME PagesInv, NEW p \in Inserters, MoveToNext(p)
  PROVE  PagesInv'
<1> DEFINE i == ins[p]
           n == pages[i.cur].next
           r == [i EXCEPT !.pc = "seek", !.cur = n]
<1>1. /\ i.pc = "look" /\ NoPlaceHere(i) /\ n # NoBlock
      /\ ins' = [ins EXCEPT ![p] = r] /\ lock' = [lock EXCEPT ![i.cur] = Nobody]
      /\ UNCHANGED <<pages, insertPage, status, vac, count, overlap>>
  BY DEF MoveToNext, NoPlaceHere
<1>2. /\ status = "ready" /\ insertPage \in 1..Len(pages) /\ Len(pages) \in Nat /\ lock \in LockSet
      /\ Chained(pages) /\ Pairs(pages) /\ i \in InsSet /\ i.cur \in 1..Len(pages)
      /\ InsertOK(p, i, pages, lock) /\ count \in CountSet /\ i.pc \in HoldPc
  BY <1>1, InsertFacts DEF HoldPc
<1>3. n = i.cur + 1 /\ n \in 1..Len(pages)
  BY <1>1, <1>2, LastPage
<1> HIDE DEF n
<1>4. /\ r \in InsSet /\ r.pc = "seek" /\ r.cur = n /\ r.new = i.new
  <2>1. n \in Nat /\ i \in InsSet
    BY <1>2, <1>3
  <2> HIDE DEF i
  <2>2. QED
    BY <2>1 DEF InsSet, InsPc
<1> HIDE DEF r
<1>5. "look" \in LookPc /\ "seek" \in LookPc /\ "seek" \notin HoldPc
  BY DEF LookPc, HoldPc
<1>6. RoomOK'
  BY <1>1, <1>4, <1>5, RoomSame
<1>7. 1..Len(pages) \subseteq 1..MaxPages
  BY <1>2, RoomLeft, RoomFacts
<1>a. i.cur \in 1..MaxPages
  BY <1>2, <1>7
<1>8. lock' \in LockSet /\ \A b \in 1..MaxPages : b # i.cur => lock'[b] = lock[b]
  BY <1>1, <1>2, <1>a DEF LockSet
<1>9. /\ \A q \in Inserters : q # p /\ ins[q].pc \in HoldPc => lock'[ins[q].cur] = q
      /\ vac.pc \in HoldPc => lock'[vac.cur] = Vacuum
  BY <1>2, <1>7, <1>8, OthersHold
<1>10. InsertOK(p, r, pages', lock')
  BY <1>1, <1>2, <1>3, <1>4, <1>5 DEF InsertOK, NoBlock
<1>11. Changes(pages, pages', {})
  BY <1>1, <1>2, ChangesSelf
<1>12. ~overlap /\ vac.pc = "idle" => CleanBelow(pages, insertPage) /\ CleanBelow(pages, Bound(r))
  <2>1. SUFFICES ASSUME ~overlap, vac.pc = "idle"
                 PROVE  CleanBelow(pages, insertPage) /\ CleanBelow(pages, Bound(r))
    OBVIOUS
  <2>2. CleanBelow(pages, insertPage) /\ CleanBelow(pages, Bound(i))
    BY <2>1, <1>1, <1>2, FoundFacts
  <2>3. CASE i.new = NoBlock
    <3>1. CleanBelow(pages, i.cur + 1)
      BY <2>1, <2>3, <1>1, SearchedClean
    <3>2. QED
      BY <2>2, <2>3, <3>1, <1>3, <1>4 DEF Bound
  <2>4. CASE i.new # NoBlock
    BY <2>2, <2>4, <1>4 DEF Bound
  <2>5. QED
    BY <2>3, <2>4
<1>13. StepTo(p, r, {})
  BY <1>1, <1>2, <1>6, <1>8, <1>9, <1>10, <1>11, <1>12 DEF StepTo
<1>14. QED
  BY <1>4, <1>13, InsertStepInv

LEMMA AppendPageInv ==
  ASSUME PagesInv, NEW p \in Inserters, AppendPage(p)
  PROVE  PagesInv'
<1> DEFINE i == ins[p]
           m == Len(pages) + 1
           r == [i EXCEPT !.pc = "fresh", !.cur = m]
<1>1. /\ i.pc = "look" /\ NoPlaceHere(i) /\ pages[i.cur].next = NoBlock
      /\ pages' = Extended(pages, i.cur) /\ ins' = [ins EXCEPT ![p] = r]
      /\ lock' = [lock EXCEPT ![i.cur] = Nobody, ![m] = p]
      /\ UNCHANGED <<insertPage, status, vac, count, overlap>>
  BY DEF AppendPage, NoPlaceHere
<1>2. /\ status = "ready" /\ insertPage \in 1..Len(pages) /\ Len(pages) \in Nat /\ lock \in LockSet
      /\ Chained(pages) /\ Pairs(pages) /\ i \in InsSet /\ i.cur \in 1..Len(pages)
      /\ InsertOK(p, i, pages, lock) /\ count \in CountSet /\ i.pc \in HoldPc
  BY <1>1, InsertFacts DEF HoldPc
<1>3. i.cur = Len(pages)
  BY <1>1, <1>2, LastPage
<1>4. Changes(pages, pages', {i.cur}) /\ Len(pages') = m /\ pages'[m] = EmptyPage
  <2>1. /\ Len(Extended(pages, Len(pages))) = Len(pages) + 1
        /\ Extended(pages, Len(pages))[Len(pages) + 1] = EmptyPage
        /\ Changes(pages, Extended(pages, Len(pages)), {Len(pages)})
    BY <1>2, ExtendedOK, ExtendedChanges
  <2>2. QED
    BY <1>1, <1>3, <2>1, Zenon
<1>a. m \in Nat /\ m \in 1..Len(pages') /\ m \in 0..Len(pages') /\ m # NoBlock
      /\ insertPage \in 1..Len(pages') /\ 0..Len(pages) \subseteq 0..Len(pages')
      /\ \A b \in 1..Len(pages) : b # m
  BY <1>2, <1>4 DEF NoBlock
<1>5. "look" \in LookPc
  BY DEF LookPc
<1>6. m \in 1..MaxPages /\ 1..Len(pages) \subseteq 1..MaxPages
  <2>1. Len(pages) + 2 <= MaxPages /\ MaxPages \in Nat
    BY <1>1, <1>5, RoomLeft, RoomFacts
  <2> HIDE DEF MaxPages
  <2>2. QED
    BY <2>1, <1>2
<1>b. RoomOK' \/ Len(pages') # Len(pages) + 1 \/ r.pc # "fresh" \/ r \notin InsSet
  BY <1>1, <1>5, RoomAppend
<1>c. Len(pages') = Len(pages) + 1
  BY <1>4
<1> HIDE DEF m
<1>7. /\ r \in InsSet /\ r.pc = "fresh" /\ r.cur = m /\ r.new = i.new
  BY <1>2, <1>a DEF InsSet, InsPc
<1> HIDE DEF r
<1>8. RoomOK'
  BY <1>7, <1>b, <1>c
<1>d. i.cur \in 1..MaxPages
  BY <1>2, <1>6
<1>9. /\ lock' \in LockSet /\ lock'[m] = p
      /\ \A b \in 1..MaxPages : b # i.cur /\ b # m => lock'[b] = lock[b]
  BY <1>1, <1>2, <1>6, <1>d, Names DEF LockSet
<1>10. /\ \A q \in Inserters : q # p /\ ins[q].pc \in HoldPc =>
            ins[q].cur \notin {i.cur} /\ lock'[ins[q].cur] = q
       /\ vac.pc \in HoldPc => vac.cur \notin {i.cur} /\ lock'[vac.cur] = Vacuum
  BY <1>2, <1>6, <1>9, <1>a, OthersHold
<1>11. InsertOK(p, r, pages', lock')
  <2>1. r.new \in 0..Len(pages') /\ m = Len(pages')
    BY <1>2, <1>4, <1>7, <1>a DEF InsertOK
  <2>2. QED
    BY <1>4, <1>7, <1>9, <1>a, <2>1 DEF InsertOK
<1>12. ~overlap /\ vac.pc = "idle" => CleanBelow(pages', insertPage) /\ CleanBelow(pages', Bound(r))
  <2>1. SUFFICES ASSUME ~overlap, vac.pc = "idle"
                 PROVE  CleanBelow(pages, insertPage) /\ CleanBelow(pages, Bound(r))
    BY <1>4, CleanKept DEF Changes
  <2>2. CleanBelow(pages, insertPage) /\ CleanBelow(pages, Bound(i))
    BY <2>1, <1>1, <1>2, FoundFacts
  <2>3. CASE i.new = NoBlock
    <3>1. CleanBelow(pages, i.cur + 1)
      BY <2>1, <2>3, <1>1, SearchedClean
    <3>2. QED
      BY <2>2, <2>3, <3>1, <1>3, <1>7 DEF Bound, m
  <2>4. CASE i.new # NoBlock
    BY <2>2, <2>4, <1>7 DEF Bound
  <2>5. QED
    BY <2>3, <2>4
<1>13. Len(pages) \in {i.cur}
  BY <1>3
<1>14. StepTo(p, r, {i.cur})
  BY <1>1, <1>2, <1>4, <1>8, <1>9, <1>10, <1>11, <1>12, <1>13, <1>a DEF StepTo
<1>15. QED
  BY <1>7, <1>14, InsertStepInv

LEMMA AddOnNewPageInv ==
  ASSUME PagesInv, NEW p \in Inserters, AddOnNewPage(p)
  PROVE  PagesInv'
<1> DEFINE i == ins[p]
           m == Len(pages) + 1
<1>1. /\ i.pc = "fresh" /\ UNCHANGED <<insertPage, status, vac, count, overlap>>
  BY DEF AddOnNewPage
<1>2. /\ status = "ready" /\ Chained(pages) /\ Pairs(pages) /\ i \in InsSet /\ i.cur \in 1..Len(pages)
      /\ i.level \in Levels /\ Len(pages) \in Nat /\ i.pc \in HoldPc
      /\ InsertOK(p, i, pages, lock)
  BY <1>1, InsertFacts, InsFields DEF HoldPc
<1>3. i.cur = Len(pages) /\ pages[i.cur] = EmptyPage
  BY <1>1, <1>2 DEF InsertOK
<1>4. /\ \A q \in Inserters : q # p /\ ins[q].pc \in HoldPc => ins[q].cur \notin {i.cur}
      /\ vac.pc \in HoldPc => vac.cur \notin {i.cur}
  BY <1>2, OthersHold
<1>5. ~overlap /\ vac.pc = "idle" /\ i.new = NoBlock => CleanBelow(pages, i.cur)
  BY <1>1, <1>2, FoundFacts DEF Bound
<1>6. CASE FitsPage(i)
  <2>1. pages' = AddBoth(pages, i.cur, i.cur, i.level) /\ Written(p, i.cur)
    BY <1>6, Zenon DEF AddOnNewPage
  <2>2. RoomHere(pages, i.cur, i.level)
    BY <1>2, <1>6 DEF RoomHere, FitsPage
  <2>3. Changes(pages, pages', {i.cur}) /\ Len(pages') = Len(pages)
    BY <2>1, <2>2, AddedHere, Zenon
  <2>4. ~overlap /\ vac.pc = "idle" /\ i.new = NoBlock => CleanBelow(pages', i.cur)
    BY <1>5, <2>3, CleanKept DEF Changes
  <2>5. Len(pages') <= Len(pages) + 1 /\ i.cur \in 1..Len(pages')
    BY <1>2, <2>3
  <2>6. QED
    BY <1>1, <1>2, <1>4, <2>1, <2>3, <2>4, <2>5, WrittenInv
<1>7. CASE ~FitsPage(i)
  <2>1. pages' = AddBoth(Extended(pages, i.cur), i.cur, m, i.level) /\ Written(p, m)
    BY <1>7, Zenon DEF AddOnNewPage
  <2>2. RoomForElement(pages, i.level)
    BY <1>2, <1>3, EmptyPageOK, SizeFacts DEF RoomForElement
  <2>3. Changes(pages, pages', {i.cur}) /\ Len(pages') = m
    BY <1>3, <2>1, <2>2, AddedOverTwo, Zenon
  <2>4. ~overlap /\ vac.pc = "idle" /\ i.new = NoBlock => CleanBelow(pages', m)
    <3>1. DOMAIN pages[i.cur].items = {}
      BY <1>3, EmptyPageOK
    <3>2. \A b \in 1..Len(pages) : b < i.cur \/ b = i.cur
      BY <1>2, <1>3
    <3>3. ~overlap /\ vac.pc = "idle" /\ i.new = NoBlock => CleanBelow(pages, m)
      BY <1>5, <3>1, <3>2 DEF CleanBelow
    <3>4. QED
      BY <3>3, <2>3, CleanKept DEF Changes
  <2>5. Len(pages') <= Len(pages) + 1 /\ m \in 1..Len(pages') /\ Len(pages) \in {i.cur}
    BY <1>2, <1>3, <2>3
  <2> HIDE DEF m
  <2>6. QED
    BY <1>1, <1>2, <1>4, <2>1, <2>3, <2>4, <2>5, WrittenInv
<1>8. QED
  BY <1>6, <1>7

LEMMA IdleOK == Idle \in InsSet /\ Idle.pc = "idle" /\ Idle.cur = NoBlock /\ Idle.new = NoBlock
BY PagesConstants DEF Idle, InsSet, InsPc, NoBlock

LEMMA UpdateInsertPageInv ==
  ASSUME PagesInv, NEW p \in Inserters, UpdateInsertPage(p)
  PROVE  PagesInv'
<1> DEFINE i == ins[p]
<1>1. /\ i.pc = "meta" /\ insertPage' = IF i.new # i.from THEN i.new ELSE insertPage
      /\ ins' = [ins EXCEPT ![p] = Idle]
      /\ UNCHANGED <<pages, status, lock, vac, count, overlap>>
  BY DEF UpdateInsertPage
<1>2. /\ status = "ready" /\ insertPage \in 1..Len(pages) /\ Len(pages) \in Nat /\ lock \in LockSet
      /\ Chained(pages) /\ Pairs(pages) /\ InsertOK(p, i, pages, lock) /\ count \in CountSet
  BY <1>1, InsertFacts
<1>3. i.new \in 1..Len(pages) /\ i.new # NoBlock
  BY <1>1, <1>2 DEF InsertOK, NoBlock
<1>4. insertPage' \in 1..Len(pages')
  BY <1>1, <1>2, <1>3
<1>5. RoomOK'
  <2>1. "idle" \notin LookPc /\ "meta" \notin LookPc
    BY DEF LookPc
  <2>2. QED
    BY <1>1, <2>1, IdleOK, RoomSame
<1>6. ~overlap /\ vac.pc = "idle" => CleanBelow(pages, insertPage')
  BY <1>1, <1>2, <1>3, FoundFacts DEF Bound
<1>7. InsertOK(p, Idle, pages', lock')
  <2>1. "idle" \notin HoldPc /\ 0 \in 0..Len(pages)
    BY <1>2 DEF HoldPc
  <2>2. QED
    BY <1>1, <2>1, IdleOK DEF InsertOK, NoBlock
<1>8. Changes(pages, pages', {})
  BY <1>1, <1>2, ChangesSelf
<1>9. StepTo(p, Idle, {})
  BY <1>1, <1>2, <1>4, <1>5, <1>6, <1>7, <1>8, IdleOK, OthersHold DEF StepTo
<1>10. QED
  BY <1>9, IdleOK, InsertStepInv
-----------------------------------------------------------------------------
(***************************************************************************)
(* The build.                                                              *)
(***************************************************************************)
LEMMA PageEqual ==
  ASSUME NEW pg \in PageSet, NEW qg \in PageSet, pg.items = qg.items, pg.free = qg.free,
         pg.next = qg.next
  PROVE  pg = qg
<1>1. /\ pg = [items |-> pg.items, free |-> pg.free, next |-> pg.next]
      /\ qg = [items |-> qg.items, free |-> qg.free, next |-> qg.next]
  BY DEF PageSet
<1>2. QED
  BY <1>1, Zenon

LEMMA AddItemFields ==
  ASSUME NEW pg, PageOK(pg), NEW x \in ItemSet
  PROVE  /\ AddItem(pg, x).items = Append(pg.items, x)
         /\ AddItem(pg, x).free = pg.free - x.size - ItemIdSize /\ AddItem(pg, x).next = pg.next
<1>0. pg \in PageSet
  BY DEF PageOK
<1>1. AddItem(pg, x) = [items |-> Append(pg.items, x), free |-> pg.free - x.size - ItemIdSize,
                        next |-> pg.next]
  BY <1>0, PageUpdate DEF AddItem
<1> DEFINE q == AddItem(pg, x)
<1> HIDE DEF q
<1>2. q = [items |-> Append(pg.items, x), free |-> pg.free - x.size - ItemIdSize, next |-> pg.next]
  BY <1>1 DEF q
<1>3. q.items = Append(pg.items, x) /\ q.free = pg.free - x.size - ItemIdSize /\ q.next = pg.next
  BY <1>2
<1>4. QED
  BY <1>3 DEF q

\* It is all the same whether the page is added before or after the element.
LEMMA AddThenExtend ==
  ASSUME NEW ps, Chained(ps), NEW e \in ItemSet, e.size <= FreeSpace(ps[Len(ps)])
  PROVE  LET b == Len(ps) IN
         /\ Extended([ps EXCEPT ![b] = AddItem(ps[b], e)], b) =
              [Extended(ps, b) EXCEPT ![b] = AddItem(Extended(ps, b)[b], e)]
         /\ Len(Extended(ps, b)[b].items) = Len(ps[b].items)
<1> DEFINE b == Len(ps)
           pg == AddItem(ps[b], e)
           ps1 == [ps EXCEPT ![b] = pg]
           qs == Extended(ps1, b)
           rs == Extended(ps, b)
           qg == AddItem(rs[b], e)
           zs == [rs EXCEPT ![b] = qg]
<1>1. b \in Nat /\ b \in 1..Len(ps) /\ PageOK(ps[b]) /\ b # b + 1 /\ b \in 1..b
  BY ChainFields
<1>a. Len(ps) = b /\ e.size <= FreeSpace(ps[b])
  OBVIOUS
<1> HIDE DEF b
<1>2. PageOK(pg) /\ pg.next = ps[b].next
  BY <1>1, <1>a, AddItemOK
<1>3. pg.items = Append(ps[b].items, e) /\ pg.free = ps[b].free - e.size - ItemIdSize
  BY <1>1, AddItemFields
<1> HIDE DEF pg
<1>4. /\ Chained(ps1) /\ Len(ps1) = b /\ ps1[b] = pg
      /\ \A c \in 1..b : c # b => ps1[c] = ps[c]
  <2>1. /\ Chained(ps1) /\ Len(ps1) = Len(ps) /\ ps1[b] = pg
        /\ \A c \in 1..Len(ps) : c # b => ps1[c] = ps[c]
    BY <1>1, <1>2, SetPage
  <2> HIDE DEF ps1
  <2>2. QED
    BY <1>a, <2>1
<1> HIDE DEF ps1
<1>5. /\ Chained(qs) /\ Len(qs) = b + 1 /\ qs[b + 1] = EmptyPage
      /\ qs[b].items = pg.items /\ qs[b].free = pg.free
      /\ \A c \in 1..b : c # b => qs[c] = ps1[c]
  <2>1. \A xs : xs = Extended(ps1, Len(ps1)) =>
          /\ Chained(xs) /\ Len(xs) = Len(ps1) + 1 /\ xs[Len(ps1) + 1] = EmptyPage
          /\ \A c \in 1..Len(ps1) : xs[c].items = ps1[c].items /\ xs[c].free = ps1[c].free
          /\ \A c \in 1..Len(ps1) : c # Len(ps1) => xs[c] = ps1[c]
    BY <1>4, ExtendedOK
  <2>2. qs = Extended(ps1, Len(ps1))
    BY <1>4
  <2> HIDE DEF qs
  <2>3. /\ Chained(qs) /\ Len(qs) = Len(ps1) + 1 /\ qs[Len(ps1) + 1] = EmptyPage
        /\ \A c \in 1..Len(ps1) : qs[c].items = ps1[c].items /\ qs[c].free = ps1[c].free
        /\ \A c \in 1..Len(ps1) : c # Len(ps1) => qs[c] = ps1[c]
    BY <2>1, <2>2, Zenon
  <2>4. QED
    BY <1>1, <1>4, <2>3
<1>6. /\ Chained(rs) /\ Len(rs) = b + 1 /\ rs[b + 1] = EmptyPage
      /\ rs[b].items = ps[b].items /\ rs[b].free = ps[b].free
      /\ \A c \in 1..b : c # b => rs[c] = ps[c]
  <2>1. \A xs : xs = Extended(ps, Len(ps)) =>
          /\ Chained(xs) /\ Len(xs) = Len(ps) + 1 /\ xs[Len(ps) + 1] = EmptyPage
          /\ \A c \in 1..Len(ps) : xs[c].items = ps[c].items /\ xs[c].free = ps[c].free
          /\ \A c \in 1..Len(ps) : c # Len(ps) => xs[c] = ps[c]
    BY ExtendedOK
  <2>2. rs = Extended(ps, Len(ps))
    BY <1>a
  <2> HIDE DEF rs
  <2>3. /\ Chained(rs) /\ Len(rs) = Len(ps) + 1 /\ rs[Len(ps) + 1] = EmptyPage
        /\ \A c \in 1..Len(ps) : rs[c].items = ps[c].items /\ rs[c].free = ps[c].free
        /\ \A c \in 1..Len(ps) : c # Len(ps) => rs[c] = ps[c]
    BY <2>1, <2>2, Zenon
  <2>4. QED
    BY <1>1, <1>a, <2>3
<1> HIDE DEF qs, rs
<1>7. b \in 1..Len(rs) /\ b \in 1..Len(qs) /\ b # Len(rs) /\ b # Len(qs)
  BY <1>1, <1>5, <1>6
<1>8. /\ PageOK(rs[b]) /\ PageOK(qs[b]) /\ rs[b].next = b + 1 /\ qs[b].next = b + 1
  BY <1>5, <1>6, <1>7 DEF Chained
<1>9. e.size <= FreeSpace(rs[b])
  BY <1>6, <1>a DEF FreeSpace
<1>10. PageOK(qg) /\ qg.next = rs[b].next
  BY <1>8, <1>9, AddItemOK
<1>11. qg.items = Append(rs[b].items, e) /\ qg.free = rs[b].free - e.size - ItemIdSize
  BY <1>8, AddItemFields
<1> HIDE DEF qg
<1>12. qg = qs[b]
  <2>1. qg \in PageSet /\ qs[b] \in PageSet
    BY <1>8, <1>10 DEF PageOK
  <2>2. qg.items = qs[b].items /\ qg.free = qs[b].free /\ qg.next = qs[b].next
    BY <1>3, <1>5, <1>6, <1>8, <1>10, <1>11
  <2>3. QED
    BY <2>1, <2>2, PageEqual
<1>13. /\ Chained(zs) /\ Len(zs) = Len(rs) /\ zs[b] = qg
       /\ \A c \in 1..Len(rs) : c # b => zs[c] = rs[c]
  <2>1. Chained(rs) /\ b \in 1..Len(rs) /\ PageOK(qg) /\ qg.next = rs[b].next
    BY <1>6, <1>7, <1>10
  <2>2. QED
    BY <2>1, SetPage
<1> HIDE DEF zs
<1>14. \A c \in 1..Len(qs) : qs[c] = zs[c]
  <2>1. \A c \in 1..Len(qs) : c = b + 1 \/ c = b \/ (c \in 1..b /\ c # b)
    BY <1>1, <1>5
  <2>2. b + 1 \in 1..Len(rs)
    BY <1>1, <1>6
  <2>3. \A c \in 1..b : c \in 1..Len(rs)
    BY <1>1, <1>6
  <2>4. QED
    BY <1>1, <1>4, <1>5, <1>6, <1>12, <1>13, <2>1, <2>2, <2>3
<1>15. qs = zs
  <2>1. qs \in Seq(PageSet) /\ zs \in Seq(PageSet) /\ Len(qs) = Len(zs)
    BY <1>5, <1>6, <1>13 DEF Chained
  <2>2. QED
    BY <1>14, <2>1, SeqEqual
<1>16. Len(rs[b].items) = Len(ps[b].items)
  BY <1>6
<1>17. QED
  BY <1>15, <1>16, Zenon DEF qs, zs, rs, qg, ps1, pg, b

\* CreateGraphPages once the page for the element is there.
Laid(ps, l) ==
  LET b    == Len(ps)
      off  == Len(ps[b].items) + 1
      ntid == IF CombinedSize(l) <= MaxSize THEN <<b, off + 1>> ELSE <<b + 1, 1>>
      ps1  == AddLast(ps, Etup(ntid))
      ps2  == IF FreeSpace(ps1[b]) < NtupSize(l) THEN WithNewPage(ps1) ELSE ps1
  IN AddLast(ps2, Ntup(l, <<b, off>>))

\* The place of the neighbor tuple is the one that was worked out before.
LEMMA LaidChanges ==
  ASSUME NEW ps, Chained(ps), Pairs(ps), NEW l \in Levels, FreeSpace(ps[Len(ps)]) >= EtupSize,
         CombinedSize(l) <= MaxSize => FreeSpace(ps[Len(ps)]) >= CombinedSize(l)
  PROVE  /\ Changes(ps, Laid(ps, l), {Len(ps)})
         /\ Len(Laid(ps, l)) = Len(ps) \/ Len(Laid(ps, l)) = Len(ps) + 1
<1> DEFINE b    == Len(ps)
           off  == Len(ps[b].items) + 1
           ntid == IF CombinedSize(l) <= MaxSize THEN <<b, off + 1>> ELSE <<b + 1, 1>>
           e    == Etup(ntid)
           x    == Ntup(l, <<b, off>>)
           pg   == AddItem(ps[b], e)
           ps1  == [ps EXCEPT ![b] = pg]
           ps2  == IF FreeSpace(ps1[b]) < NtupSize(l) THEN WithNewPage(ps1) ELSE ps1
<1>1. b \in Nat /\ b \in 1..Len(ps) /\ PageOK(ps[b])
  BY ChainFields
<1>2. /\ off \in Nat /\ ps[b].free \in Nat /\ ps[b].free <= MaxSize + ItemIdSize
      /\ FreeSpace(ps[b]) \in Nat
  BY <1>1, PageFields
<1>3. ntid \in Nat \X Nat
  BY <1>1, <1>2
<1>4. e \in ItemSet /\ e.size = EtupSize
  BY <1>3, EtupItem
<1>5. /\ PageOK(pg) /\ pg.next = ps[b].next /\ pg.free = ps[b].free - EtupSize - ItemIdSize
  <2> HIDE DEF e, b
  <2>1. e.size <= FreeSpace(ps[b])
    BY <1>2, <1>4 DEF b
  <2>2. PageOK(pg) /\ pg.next = ps[b].next /\ pg.free = ps[b].free - e.size - ItemIdSize
    BY <1>1, <1>4, <2>1, AddItemOK
  <2>3. QED
    BY <1>4, <2>2
<1>6. Laid(ps, l) = AddLast(ps2, x) /\ ps1 = AddLast(ps, e)
  BY Zenon DEF Laid, AddLast
<1>a. ps1 = AddLast(ps, e)
  BY <1>6
<1> HIDE DEF pg
<1>7. Chained(ps1) /\ Len(ps1) = b /\ ps1[b] = pg
  BY <1>1, <1>5, SetPage
<1>8. NtupSize(l) \in Nat /\ NtupSize(l) > 0
  BY NtupFacts
<1>9. CombinedSize(l) <= MaxSize <=> ~(FreeSpace(ps1[b]) < NtupSize(l))
  <2>1. FreeSpace(ps1[b]) = IF pg.free < ItemIdSize THEN 0 ELSE pg.free - ItemIdSize
    BY <1>7 DEF FreeSpace
  <2>2. FreeSpace(ps[b]) = IF ps[b].free < ItemIdSize THEN 0 ELSE ps[b].free - ItemIdSize
    BY DEF FreeSpace
  <2>3. CombinedSize(l) = EtupSize + NtupSize(l) + ItemIdSize
    BY DEF CombinedSize
  <2>4. CombinedSize(l) <= MaxSize => FreeSpace(ps[b]) >= CombinedSize(l)
    OBVIOUS
  <2>5. FreeSpace(ps[b]) >= EtupSize
    OBVIOUS
  <2> DEFINE f == ps[b].free
             g == pg.free
             F == FreeSpace(ps[b])
             G == FreeSpace(ps1[b])
             C == CombinedSize(l)
             N == NtupSize(l)
  <2>6. /\ f \in Nat /\ f <= MaxSize + ItemIdSize /\ N \in Nat /\ N > 0 /\ F >= EtupSize
        /\ g = f - EtupSize - ItemIdSize /\ (C <= MaxSize => F >= C)
        /\ C = EtupSize + N + ItemIdSize
        /\ G = (IF g < ItemIdSize THEN 0 ELSE g - ItemIdSize)
        /\ F = (IF f < ItemIdSize THEN 0 ELSE f - ItemIdSize)
    BY <1>2, <1>5, <1>8, <2>1, <2>2, <2>3, <2>4, <2>5, Zenon
  <2> HIDE DEF f, g, F, G, C, N
  <2>7. C <= MaxSize <=> ~(G < N)
    BY <2>6
  <2>8. QED
    BY <2>7 DEF C, G, N
<1>10. CASE CombinedSize(l) <= MaxSize
  <2>1. ntid = <<b, off + 1>> /\ ps2 = ps1
    BY <1>9, <1>10
  <2>2. Laid(ps, l) = [ps1 EXCEPT ![b] = AddItem(ps1[b], x)]
    BY <1>6, <1>7, <2>1 DEF AddLast
  <2>3. AddBoth(ps, b, b, l) = [ps1 EXCEPT ![b] = AddItem(ps1[b], x)]
    BY <2>1, Zenon DEF AddBoth, pg
  <2>4. RoomHere(ps, b, l)
    BY <1>1, <1>10 DEF RoomHere
  <2>5. Changes(ps, AddBoth(ps, b, b, l), {b}) /\ Len(AddBoth(ps, b, b, l)) = Len(ps)
    BY <2>4, AddedHere
  <2>6. QED
    BY <2>2, <2>3, <2>5, Zenon
<1>11. CASE ~(CombinedSize(l) <= MaxSize)
  <2>1. ntid = <<b + 1, 1>> /\ ps2 = WithNewPage(ps1)
    BY <1>9, <1>11
  <2>2. ps2 = Extended(ps1, b)
    BY <1>7, <2>1, Zenon DEF WithNewPage, Extended
  <2>3. Len(ps2) = b + 1
    BY <1>7, <2>2, ExtendedOK
  <2> DEFINE rs == Extended(ps, b)
  <2>4. e.size <= FreeSpace(ps[b])
    BY <1>4
  <2>5. ps2 = [rs EXCEPT ![b] = AddItem(rs[b], e)] /\ Len(rs[b].items) = Len(ps[b].items)
    BY <1>4, <2>2, <2>4, AddThenExtend DEF pg
  <2>6. Laid(ps, l) = [ps2 EXCEPT ![b + 1] = AddItem(ps2[b + 1], x)]
    BY <1>6, <2>3 DEF AddLast
  <2>7. AddBoth(rs, b, b + 1, l) = [ps2 EXCEPT ![b + 1] = AddItem(ps2[b + 1], x)]
    <3>1. b + 1 # b
      BY <1>1
    <3>2. Len(rs[b].items) + 1 = off
      BY <2>5
    <3>3. QED
      BY <2>1, <2>5, <3>1, <3>2, Zenon DEF AddBoth
  <2>8. RoomForElement(ps, l)
    BY DEF RoomForElement
  <2>9. Changes(ps, AddBoth(rs, b, b + 1, l), {b}) /\ Len(AddBoth(rs, b, b + 1, l)) = b + 1
    BY <2>8, AddedOverTwo
  <2>10. QED
    BY <2>6, <2>7, <2>9, Zenon
<1>12. QED
  BY <1>10, <1>11

LEMMA CreateGraphPagesInv ==
  ASSUME PagesInv, NEW l \in Levels, CreateGraphPages(l)
  PROVE  PagesInv'
<1> DEFINE m   == Len(pages)
           ps0 == IF NewPageFor(l, pages[m]) THEN WithNewPage(pages) ELSE pages
           k   == Len(ps0)
<1>1. /\ status = "building" /\ count.built < MaxBuilt
      /\ count' = [count EXCEPT !.built = @ + 1]
      /\ UNCHANGED <<insertPage, status, lock, ins, vac, overlap>>
  BY DEF CreateGraphPages
<1>2. pages' = Laid(ps0, l)
  BY Zenon DEF CreateGraphPages, Laid
<1>3. StateOK /\ RoomOK /\ BuildOK
  BY DEF PagesInv
<1>4. Chained(pages) /\ Pairs(pages) /\ count \in CountSet /\ vac \in VacSet
      /\ ins \in [Inserters -> InsSet]
  BY <1>3 DEF StateOK
<1>5. m \in Nat /\ m \in 1..Len(pages) /\ PageOK(pages[m])
  BY <1>4, ChainFields
<1>6. /\ Chained(ps0) /\ Pairs(ps0) /\ Changes(pages, ps0, {m}) /\ (k = m \/ k = m + 1)
      /\ FreeSpace(ps0[k]) >= EtupSize
      /\ CombinedSize(l) <= MaxSize => FreeSpace(ps0[k]) >= CombinedSize(l)
  <2>1. CombinedSize(l) \in Nat
    BY NtupFacts DEF CombinedSize
  <2>2. CASE NewPageFor(l, pages[m])
    <3>1. ps0 = Extended(pages, m)
      BY <2>2, Zenon DEF WithNewPage, Extended
    <3>2. /\ Len(Extended(pages, m)) = m + 1 /\ Extended(pages, m)[m + 1] = EmptyPage
          /\ Changes(pages, Extended(pages, m), {m})
      BY <1>4, ExtendedOK, ExtendedChanges
    <3> HIDE DEF ps0
    <3>3. k = m + 1 /\ ps0[k] = EmptyPage /\ Changes(pages, ps0, {m})
      BY <3>1, <3>2, Zenon
    <3>4. FreeSpace(ps0[k]) = MaxSize
      BY <3>3, EmptyPageOK
    <3>5. QED
      BY <2>1, <3>3, <3>4 DEF Changes
  <2>3. CASE ~NewPageFor(l, pages[m])
    <3>1. ps0 = pages
      BY <2>3
    <3>2. Changes(pages, pages, {m})
      <4>1. Changes(pages, pages, {})
        BY <1>4, ChangesSelf
      <4>2. QED
        BY <4>1 DEF Changes
    <3>3. FreeSpace(pages[m]) \in Nat
      BY <1>5, PageFields
    <3>4. /\ FreeSpace(pages[m]) >= EtupSize
          /\ CombinedSize(l) <= MaxSize => FreeSpace(pages[m]) >= CombinedSize(l)
      BY <2>1, <2>3, <3>3 DEF NewPageFor
    <3> HIDE DEF ps0
    <3>5. QED
      BY <1>4, <3>1, <3>2, <3>4
  <2>4. QED
    BY <2>2, <2>3
<1> HIDE DEF ps0
<1>7. /\ Changes(ps0, pages', {k})
      /\ Len(pages') = k \/ Len(pages') = k + 1
  BY <1>2, <1>6, LaidChanges
<1>8. Changes(pages, pages', {m})
  <2>1. k \in 1..m => k = m
    BY <1>5, <1>6
  <2>2. {k} \cap 1..Len(pages) \subseteq {m}
    BY <2>1
  <2> HIDE DEF k, m
  <2>3. QED
    BY <1>4, <1>6, <1>7, <2>2, ChangesTrans DEF m
<1>9. Chained(pages') /\ Pairs(pages') /\ Kept(pages, pages') /\ NoneDeleted(pages, pages')
      /\ \A c \in 1..Len(pages) : c \notin {m} => pages'[c] = pages[c]
  BY <1>8 DEF Changes
<1>10. Len(pages') \in Nat /\ m <= Len(pages') /\ Len(pages') <= m + 2
  BY <1>5, <1>6, <1>7
<1>11. count' \in CountSet /\ count'.built = count.built + 1 /\ count'.inserts = count.inserts
  BY <1>1, <1>4 DEF CountSet
<1>12. RoomOK'
  <2>1. Looking' = Looking /\ Fresh' = Fresh
    BY <1>1 DEF Looking, Fresh
  <2>2. /\ MaxBuilt \in Nat /\ count.built \in Nat /\ count.inserts \in Nat
        /\ Cardinality(Looking) \in Nat /\ Cardinality(Fresh) \in Nat
    BY PagesConstants, RoomFacts
  <2>3. /\ m + 2 * Cardinality(Looking) + Cardinality(Fresh) <= 1 + 2 * (count.built + count.inserts)
        /\ count.inserts <= MaxInserts
    BY <1>3 DEF RoomOK
  <2>4. Len(pages') + 2 * Cardinality(Looking) + Cardinality(Fresh) <=
          1 + 2 * ((count.built + 1) + count.inserts)
    <3> HIDE DEF m
    <3>1. QED
      BY <1>5, <1>10, <2>2, <2>3, RoomArith
  <2>5. count.built + 1 <= MaxBuilt
    BY <1>1, <2>2
  <2>6. QED
    BY <1>11, <2>1, <2>3, <2>4, <2>5 DEF RoomOK
<1>13. StateOK'
  <2>1. insertPage' \in 0..Len(pages') /\ status' # "ready"
    BY <1>1, <1>3, <1>5, <1>10 DEF StateOK
  <2>2. QED
    BY <1>1, <1>3, <1>9, <1>11, <2>1 DEF StateOK
<1>14. (\A p \in Inserters : ins[p].pc = "idle") /\ vac.pc = "idle"
  BY <1>1, <1>3 DEF BuildOK
<1>15. BuildOK'
  <2>1. CleanBelow(pages, m + 1)
    BY <1>1, <1>3 DEF BuildOK
  <2>2. \A b \in 1..Len(pages) : b < m + 1
    BY <1>5
  <2>3. CleanBelow(pages', Len(pages') + 1)
    BY <1>9, <2>1, <2>2 DEF CleanBelow, NoneDeleted
  <2>4. QED
    BY <1>1, <1>14, <2>3 DEF BuildOK
<1>16. FoundOK'
  BY <1>1, <1>14 DEF FoundOK
<1>17. "idle" \notin HoldPc
  BY DEF HoldPc
<1>18. ASSUME NEW p \in Inserters PROVE InsertOK(p, ins[p], pages, lock)'
  <2>1. InsertOK(p, ins[p], pages, lock) /\ ins[p] \in InsSet /\ ins[p].pc \notin HoldPc
    BY <1>4, <1>14, <1>17 DEF PagesInv
  <2>2. InsertOK(p, ins[p], pages', lock')
    BY <1>4, <1>9, <1>10, <2>1, InsertKept
  <2>3. QED
    BY <1>1, <2>2
<1>19. VacuumOK(vac, pages, lock)'
  <2>1. VacuumOK(vac, pages, lock) /\ vac.pc \notin HoldPc
    BY <1>14, <1>17 DEF PagesInv
  <2>2. VacuumOK(vac, pages', lock')
    BY <1>4, <1>9, <1>10, <2>1, VacuumKept
  <2>3. QED
    BY <1>1, <2>2
<1>20. QED
  BY <1>12, <1>13, <1>15, <1>16, <1>18, <1>19 DEF PagesInv

LEMMA FinishBuildInv ==
  ASSUME PagesInv, FinishBuild
  PROVE  PagesInv'
<1>1. /\ status = "building" /\ status' = "ready" /\ insertPage' = Len(pages)
      /\ UNCHANGED <<pages, lock, ins, vac, count, overlap>>
  BY DEF FinishBuild
<1>2. StateOK /\ RoomOK /\ BuildOK
  BY DEF PagesInv
<1>3. Len(pages) \in 0..Len(pages) /\ Len(pages) # NoBlock /\ Len(pages) \in Nat
  BY <1>2, ChainFields DEF StateOK, NoBlock
<1>4. StateOK'
  BY <1>1, <1>2, <1>3 DEF StateOK
<1>5. RoomOK'
  BY <1>1, <1>2 DEF RoomOK, Looking, Fresh
<1>6. BuildOK'
  BY <1>1 DEF BuildOK
<1>7. (\A p \in Inserters : ins[p].pc = "idle") /\ vac.pc = "idle" /\ CleanBelow(pages, Len(pages) + 1)
  BY <1>1, <1>2 DEF BuildOK
<1>8. CleanBelow(pages, Len(pages))
  <2>1. \A b \in 1..Len(pages) : b < Len(pages) + 1
    BY <1>3
  <2>2. QED
    BY <1>7, <2>1 DEF CleanBelow
<1>9. FoundOK'
  BY <1>1, <1>7, <1>8 DEF FoundOK
<1>10. (\A p \in Inserters : InsertOK(p, ins[p], pages, lock)') /\ VacuumOK(vac, pages, lock)'
  BY <1>1 DEF PagesInv
<1>11. QED
  BY <1>4, <1>5, <1>6, <1>9, <1>10 DEF PagesInv
-----------------------------------------------------------------------------
(***************************************************************************)
(* The steps of MarkDeleted.                                               *)
(***************************************************************************)
VacTo(v, B) ==
  /\ status = "ready" /\ status' = status /\ ins' = ins /\ vac' = v /\ overlap' \in BOOLEAN
  /\ Chained(pages') /\ Pairs(pages') /\ Len(pages') = Len(pages)
  /\ \A c \in 1..Len(pages) : c \notin B => pages'[c] = pages[c]
  /\ v \in VacSet /\ lock' \in LockSet /\ insertPage' \in 1..Len(pages)
  /\ count' \in CountSet /\ count'.built = count.built /\ count'.inserts = count.inserts
  /\ \A q \in Inserters : ins[q].pc \in HoldPc => ins[q].cur \notin B /\ lock'[ins[q].cur] = q
  /\ VacuumOK(v, pages', lock')
  /\ v.pc # "idle" => CleanBelow(pages', VacBound(v, pages'))
  /\ ~overlap' /\ v.pc = "idle" => /\ CleanBelow(pages', insertPage')
                                   /\ \A p \in Inserters : ins[p].pc = "idle"

LEMMA VacuumStepInv ==
  ASSUME PagesInv, NEW v, NEW B, VacTo(v, B)
  PROVE  PagesInv'
<1>1. StateOK /\ RoomOK /\ \A p \in Inserters : InsertOK(p, ins[p], pages, lock)
  BY DEF PagesInv
<1>2. Chained(pages) /\ ins \in [Inserters -> InsSet] /\ Len(pages) \in Nat
  BY <1>1, ChainFields DEF StateOK
<1>3. StateOK'
  <2>1. insertPage' \in 0..Len(pages') /\ insertPage' # NoBlock
    BY <1>2 DEF VacTo, NoBlock
  <2>2. QED
    BY <1>1, <2>1 DEF StateOK, VacTo
<1>4. RoomOK'
  <2>1. Looking' = Looking /\ Fresh' = Fresh
    BY DEF Looking, Fresh, VacTo
  <2>2. QED
    BY <1>1, <2>1 DEF RoomOK, VacTo
<1>5. BuildOK'
  BY DEF BuildOK, VacTo
<1>6. ASSUME NEW p \in Inserters PROVE InsertOK(p, ins[p], pages, lock)'
  <2>1. InsertOK(p, ins[p], pages, lock) /\ ins[p] \in InsSet
    BY <1>1, <1>2
  <2>2. /\ Chained(pages') /\ Len(pages) <= Len(pages') /\ Len(pages') = Len(pages)
        /\ \A c \in 1..Len(pages) : c \notin B => pages'[c] = pages[c]
        /\ ins[p].pc \in HoldPc => ins[p].cur \notin B /\ lock'[ins[p].cur] = p
    BY <1>2 DEF VacTo
  <2>3. InsertOK(p, ins[p], pages', lock')
    BY <1>2, <2>1, <2>2, InsertKept
  <2>4. QED
    BY <2>3 DEF VacTo
<1>7. FoundOK'
  BY DEF FoundOK, VacTo
<1>8. QED
  BY <1>3, <1>4, <1>5, <1>6, <1>7 DEF PagesInv, VacTo

\* What is known of a VACUUM in the middle of MarkDeleted.
LEMMA VacuumFacts ==
  ASSUME PagesInv, vac.pc # "idle"
  PROVE  /\ status = "ready" /\ Chained(pages) /\ Pairs(pages) /\ Len(pages) \in Nat
         /\ vac \in VacSet /\ VacuumOK(vac, pages, lock) /\ lock \in LockSet /\ count \in CountSet
         /\ insertPage \in 1..Len(pages) /\ overlap \in BOOLEAN
         /\ vac.pc \in LookPc => vac.cur \in 1..Len(pages)
         /\ CleanBelow(pages, VacBound(vac, pages))
         /\ 1..Len(pages) \subseteq 1..MaxPages /\ Len(pages) \in 1..Len(pages)
<1>1. /\ Chained(pages) /\ Pairs(pages) /\ vac \in VacSet /\ lock \in LockSet /\ count \in CountSet
      /\ overlap \in BOOLEAN /\ VacuumOK(vac, pages, lock)
      /\ status \in {"building", "ready"}
  BY DEF PagesInv, StateOK
<1>2. status = "ready"
  BY <1>1 DEF PagesInv, BuildOK
<1>3. Len(pages) \in Nat /\ Len(pages) \in 1..Len(pages)
  BY <1>1, ChainFields
<1>4. insertPage \in 1..Len(pages)
  BY <1>2, <1>3 DEF PagesInv, StateOK, NoBlock
<1>5. vac.pc \in LookPc => vac.cur \in 1..Len(pages)
  BY <1>1, <1>3 DEF VacuumOK, NoBlock
<1>6. CleanBelow(pages, VacBound(vac, pages))
  BY DEF PagesInv, FoundOK
<1>7. 1..Len(pages) \subseteq 1..MaxPages
  <2>1. /\ Len(pages) + 2 * Cardinality(Looking) + Cardinality(Fresh) <= MaxPages
        /\ Cardinality(Looking) \in Nat /\ Cardinality(Fresh) \in Nat /\ MaxPages \in Nat
    BY RoomFacts
  <2> HIDE DEF MaxPages
  <2>2. QED
    BY <1>3, <2>1
<1>8. QED
  BY <1>1, <1>2, <1>3, <1>4, <1>5, <1>6, <1>7

LEMMA InsertersHold ==
  ASSUME PagesInv
  PROVE  \A q \in Inserters : ins[q].pc \in HoldPc =>
           /\ lock[ins[q].cur] = q /\ ins[q].cur \in 1..Len(pages)
           /\ vac.pc \in HoldPc => ins[q].cur # vac.cur
<1>1. ASSUME NEW q \in Inserters, ins[q].pc \in HoldPc
      PROVE  /\ lock[ins[q].cur] = q /\ ins[q].cur \in 1..Len(pages)
             /\ vac.pc \in HoldPc => ins[q].cur # vac.cur
  <2>1. ins[q].pc # "idle"
    BY <1>1 DEF HoldPc
  <2>2. InsertOK(q, ins[q], pages, lock) /\ ins[q].cur \in 1..Len(pages)
    BY <2>1, InsertFacts
  <2>3. QED
    BY <1>1, <2>2, OthersHold DEF InsertOK
<1>2. QED
  BY <1>1

LEMMA MarkDeletedBeginInv ==
  ASSUME PagesInv, MarkDeletedBegin
  PROVE  PagesInv'
<1>1. /\ status = "ready" /\ vac.pc = "idle" /\ count' = [count EXCEPT !.vacuums = @ + 1]
      /\ overlap' = (overlap \/ Busy) /\ UNCHANGED <<pages, insertPage, status, lock, ins>>
  BY DEF MarkDeletedBegin
<1>2. PICK D \in SUBSET Elements :
        vac' = [pc |-> "seek", dead |-> D, cur |-> HeadPage, off |-> 0, new |-> NoBlock]
  BY Zenon DEF MarkDeletedBegin
<1>3. /\ Chained(pages) /\ Pairs(pages) /\ lock \in LockSet /\ count \in CountSet
  BY DEF PagesInv, StateOK
<1>4. Len(pages) \in Nat /\ Len(pages) \in 1..Len(pages) /\ DOMAIN pages = 1..Len(pages)
  BY <1>3, ChainFields
<1>5. insertPage \in 1..Len(pages)
  BY <1>1, <1>4 DEF PagesInv, StateOK, NoBlock
<1>6. Elements \subseteq Nat \X Nat
  <2>1. ASSUME NEW b \in 1..Len(pages), NEW o \in DOMAIN pages[b].items
        PROVE  <<b, o>> \in Nat \X Nat
    BY <1>4, OffsetNat
  <2>2. ASSUME NEW e \in Elements
        PROVE  \E b \in 1..Len(pages) : \E o \in DOMAIN pages[b].items : e = <<b, o>>
    BY <1>4 DEF Elements
  <2>3. QED
    BY <2>1, <2>2
<1> DEFINE v == [pc |-> "seek", dead |-> D, cur |-> HeadPage, off |-> 0, new |-> NoBlock]
<1>7. v \in VacSet
  BY <1>6 DEF VacSet, HeadPage, NoBlock
<1>8. v.pc = "seek" /\ v.cur = 1 /\ v.new = 0 /\ v.off = 0
  BY DEF HeadPage, NoBlock
<1>9. vac' = v
  BY <1>2
<1> HIDE DEF v
<1>10. VacuumOK(v, pages', lock')
  <2>1. "seek" \notin HoldPc /\ 1 \in 0..Len(pages) /\ 0 \in 0..Len(pages)
    BY <1>4 DEF HoldPc
  <2>2. QED
    BY <1>1, <1>8, <2>1 DEF VacuumOK, NoBlock
<1>11. CleanBelow(pages', VacBound(v, pages'))
  <2>1. VacBound(v, pages') = 1
    BY <1>8 DEF VacBound, NoBlock
  <2>2. \A b \in 1..Len(pages) : ~(b < 1)
    BY <1>4
  <2>3. QED
    BY <1>1, <2>1, <2>2 DEF CleanBelow
<1>12. count' \in CountSet /\ count'.built = count.built /\ count'.inserts = count.inserts
  BY <1>1, <1>3 DEF CountSet
<1>13. overlap' \in BOOLEAN
  BY <1>1 DEF PagesInv, StateOK, Busy
<1>14. VacTo(v, {})
  BY <1>1, <1>3, <1>5, <1>7, <1>8, <1>9, <1>10, <1>11, <1>12, <1>13, InsertersHold DEF VacTo
<1>15. QED
  BY <1>14, VacuumStepInv

LEMMA LockForCleanupInv ==
  ASSUME PagesInv, LockForCleanup
  PROVE  PagesInv'
<1> DEFINE v == [vac EXCEPT !.pc = "look", !.off = 0]
<1>1. /\ vac.pc = "seek" /\ lock[vac.cur] = Nobody /\ lock' = [lock EXCEPT ![vac.cur] = Vacuum]
      /\ vac' = v /\ overlap' = (overlap \/ Busy)
      /\ UNCHANGED <<pages, insertPage, status, ins, count>>
  BY DEF LockForCleanup
<1>2. /\ status = "ready" /\ Chained(pages) /\ Pairs(pages) /\ Len(pages) \in Nat
      /\ vac \in VacSet /\ VacuumOK(vac, pages, lock) /\ lock \in LockSet /\ count \in CountSet
      /\ insertPage \in 1..Len(pages) /\ overlap \in BOOLEAN
      /\ CleanBelow(pages, VacBound(vac, pages)) /\ 1..Len(pages) \subseteq 1..MaxPages
  BY <1>1, VacuumFacts
<1>3. "seek" \in LookPc /\ "look" \in LookPc
  BY DEF LookPc
<1>4. vac.cur \in 1..Len(pages) /\ vac.cur \in 1..MaxPages
  BY <1>1, <1>2, <1>3, VacuumFacts
<1>5. v \in VacSet /\ v.pc = "look" /\ v.cur = vac.cur /\ v.off = 0 /\ v.new = vac.new
  BY <1>2 DEF VacSet
<1> HIDE DEF v
<1>6. /\ lock' \in LockSet /\ lock'[vac.cur] = Vacuum
      /\ \A b \in 1..MaxPages : b # vac.cur => lock'[b] = lock[b]
  BY <1>1, <1>2, <1>4, Names DEF LockSet
<1>7. \A q \in Inserters : ins[q].pc \in HoldPc => lock'[ins[q].cur] = q
  BY <1>1, <1>2, <1>6, InsertersHold, Names
<1>8. VacuumOK(v, pages', lock')
  BY <1>1, <1>2, <1>3, <1>4, <1>5, <1>6 DEF VacuumOK
<1>9. VacBound(v, pages) = VacBound(vac, pages)
  BY <1>1, <1>5 DEF VacBound
<1>10. overlap' \in BOOLEAN
  BY <1>1, <1>2 DEF Busy
<1>11. VacTo(v, {})
  BY <1>1, <1>2, <1>5, <1>6, <1>7, <1>8, <1>9, <1>10 DEF VacTo
<1>12. QED
  BY <1>11, VacuumStepInv

LEMMA LeastStop ==
  ASSUME PagesInv, vac.pc = "look", Stops # {}
  PROVE  /\ Stop \in DOMAIN pages[vac.cur].items /\ Stop \in Nat
         /\ pages[vac.cur].items[Stop].kind = "element"
<1>1. vac.cur \in 1..Len(pages)
  BY VacuumFacts DEF LookPc
<1>2. Stops \in SUBSET Nat
  BY <1>1, OffsetNat DEF Stops
<1>3. \E o \in Stops : \A x \in Stops : o <= x
  BY <1>2, LeastElement
<1>4. Stop \in Stops
  BY <1>3 DEF Stop
<1>5. QED
  BY <1>2, <1>4 DEF Stops

\* The flag of the element at offset o is set, and its page noted.
LEMMA MarkedInv ==
  ASSUME PagesInv, vac.pc \in {"look", "nbuf"}, NEW o \in DOMAIN pages[vac.cur].items,
         pages' = [pages EXCEPT ![vac.cur].items[o].deleted = TRUE], vac' = Marked(o),
         UNCHANGED <<insertPage, status, lock, ins, count, overlap>>
  PROVE  PagesInv'
<1> DEFINE n == NotePage(vac.new, vac.cur)
           d == vac.dead \ {<<vac.cur, o>>}
           v == [vac EXCEPT !.pc = "look", !.off = o, !.dead = d, !.new = n]
<1>1. vac.pc \in LookPc /\ vac.pc \in HoldPc /\ vac.pc # "idle" /\ vac.pc # "meta" /\ "look" \in LookPc
  BY DEF LookPc, HoldPc
<1>2. /\ status = "ready" /\ Chained(pages) /\ Pairs(pages) /\ Len(pages) \in Nat
      /\ vac \in VacSet /\ VacuumOK(vac, pages, lock) /\ lock \in LockSet /\ count \in CountSet
      /\ insertPage \in 1..Len(pages) /\ overlap \in BOOLEAN /\ vac.cur \in 1..Len(pages)
      /\ CleanBelow(pages, VacBound(vac, pages))
  BY <1>1, VacuumFacts
<1>3. Marking(pages, pages', vac.cur, o)
  BY <1>2, MarkedPages
<1>4. /\ Chained(pages') /\ Pairs(pages') /\ Len(pages') = Len(pages)
      /\ \A c \in 1..Len(pages) : c \notin {vac.cur} => pages'[c] = pages[c]
  BY <1>3 DEF Marking
<1>5. vac' = v
  BY DEF Marked
<1>6. o \in Nat
  BY <1>2, OffsetNat
<1>7. vac.new \in Nat /\ vac.cur \in Nat
  BY <1>2, VacFields
<1>8. /\ n \in Nat /\ n \in 0..Len(pages) /\ n # NoBlock /\ n <= vac.cur
      /\ n = VacBound(vac, pages)
  BY <1>1, <1>2, <1>7 DEF VacuumOK, NotePage, NoBlock, VacBound
<1>9. d \in SUBSET (Nat \X Nat)
  BY <1>2 DEF VacSet
<1> HIDE DEF n, d
<1>10. v \in VacSet /\ v.pc = "look" /\ v.cur = vac.cur /\ v.off = o /\ v.new = n
  BY <1>2, <1>6, <1>8, <1>9 DEF VacSet
<1> HIDE DEF v
<1>11. VacuumOK(v, pages', lock')
  BY <1>1, <1>2, <1>4, <1>8, <1>10 DEF VacuumOK, HoldPc
<1>12. CleanBelow(pages', VacBound(v, pages'))
  <2>1. VacBound(v, pages') = n
    BY <1>8, <1>10 DEF VacBound
  <2>2. \A b \in 1..Len(pages) : b < n => b \notin {vac.cur}
    BY <1>7, <1>8
  <2>3. CleanBelow(pages, n)
    BY <1>2, <1>8
  <2>4. \A b \in 1..Len(pages) : b < n => pages'[b] = pages[b]
    BY <1>4, <2>2
  <2>a. Len(pages') = Len(pages)
    BY <1>4
  <2> DEFINE qs == pages'
  <2>b. Len(qs) = Len(pages) /\ \A b \in 1..Len(pages) : b < n => qs[b] = pages[b]
    BY <2>a, <2>4, Zenon
  <2> HIDE DEF qs
  <2>c. CleanBelow(qs, n)
    BY <2>b, <2>3, CleanSame
  <2>5. CleanBelow(pages', n)
    BY <2>c DEF qs
  <2>6. QED
    BY <2>1, <2>5
<1>13. \A q \in Inserters : ins[q].pc \in HoldPc => ins[q].cur \notin {vac.cur} /\ lock[ins[q].cur] = q
  BY <1>1, InsertersHold
<1>14. VacTo(v, {vac.cur})
  <2>1. v.pc # "idle" /\ count' = count /\ lock' = lock /\ overlap' = overlap /\ insertPage' = insertPage
    BY <1>10
  <2>2. QED
    BY <1>2, <1>4, <1>5, <1>10, <1>11, <1>12, <1>13, <2>1 DEF VacTo
<1>15. QED
  BY <1>14, VacuumStepInv

LEMMA MarkHereInv ==
  ASSUME PagesInv, MarkHere PROVE PagesInv'
<1>1. /\ vac.pc = "look" /\ Stops # {}
      /\ pages' = [pages EXCEPT ![vac.cur].items[Stop].deleted = TRUE] /\ vac' = Marked(Stop)
      /\ UNCHANGED <<insertPage, status, lock, ins, count, overlap>>
  BY DEF MarkHere
<1>2. Stop \in DOMAIN pages[vac.cur].items
  BY <1>1, LeastStop
<1>3. QED
  BY <1>1, <1>2, MarkedInv

LEMMA MarkThereInv ==
  ASSUME PagesInv, MarkThere PROVE PagesInv'
<1>1. /\ vac.pc = "nbuf"
      /\ pages' = [pages EXCEPT ![vac.cur].items[vac.off].deleted = TRUE] /\ vac' = Marked(vac.off)
      /\ UNCHANGED <<insertPage, status, lock, ins, count, overlap>>
  BY DEF MarkThere
<1>2. vac.off \in DOMAIN pages[vac.cur].items
  BY <1>1, VacuumFacts DEF VacuumOK
<1>3. QED
  BY <1>1, <1>2, MarkedInv

LEMMA MarkWaitsInv ==
  ASSUME PagesInv, MarkWaits PROVE PagesInv'
<1> DEFINE v == [vac EXCEPT !.pc = "nbuf", !.off = Stop]
<1>1. /\ vac.pc = "look" /\ Stops # {} /\ pages[vac.cur].items[Stop].link[1] # vac.cur
      /\ vac' = v /\ UNCHANGED <<pages, insertPage, status, lock, ins, count, overlap>>
  BY DEF MarkWaits
<1>2. /\ status = "ready" /\ Chained(pages) /\ Pairs(pages) /\ Len(pages) \in Nat
      /\ vac \in VacSet /\ VacuumOK(vac, pages, lock) /\ lock \in LockSet /\ count \in CountSet
      /\ insertPage \in 1..Len(pages) /\ overlap \in BOOLEAN
      /\ CleanBelow(pages, VacBound(vac, pages))
  BY <1>1, VacuumFacts
<1>3. /\ Stop \in DOMAIN pages[vac.cur].items /\ Stop \in Nat
      /\ pages[vac.cur].items[Stop].kind = "element"
  BY <1>1, LeastStop
<1>4. v \in VacSet /\ v.pc = "nbuf" /\ v.cur = vac.cur /\ v.off = Stop /\ v.new = vac.new
  BY <1>2, <1>3 DEF VacSet
<1> HIDE DEF v
<1>5. "look" \in LookPc /\ "look" \in HoldPc /\ "nbuf" \in LookPc
  BY DEF LookPc, HoldPc
<1>6. VacuumOK(v, pages', lock')
  BY <1>1, <1>2, <1>3, <1>4, <1>5 DEF VacuumOK
<1>7. VacBound(v, pages) = VacBound(vac, pages)
  BY <1>1, <1>4 DEF VacBound
<1>8. VacTo(v, {})
  BY <1>1, <1>2, <1>4, <1>6, <1>7, InsertersHold DEF VacTo
<1>9. QED
  BY <1>8, VacuumStepInv

LEMMA MarkNextPageInv ==
  ASSUME PagesInv, MarkNextPage PROVE PagesInv'
<1> DEFINE n == pages[vac.cur].next
           c == IF n = NoBlock THEN "meta" ELSE "seek"
           v == [vac EXCEPT !.pc = c, !.cur = n]
<1>1. /\ vac.pc = "look" /\ Stops = {} /\ lock' = [lock EXCEPT ![vac.cur] = Nobody]
      /\ vac' = v /\ UNCHANGED <<pages, insertPage, status, ins, count, overlap>>
  BY DEF MarkNextPage, AfterPage
<1>2. /\ status = "ready" /\ Chained(pages) /\ Pairs(pages) /\ Len(pages) \in Nat
      /\ vac \in VacSet /\ VacuumOK(vac, pages, lock) /\ lock \in LockSet /\ count \in CountSet
      /\ insertPage \in 1..Len(pages) /\ overlap \in BOOLEAN
      /\ CleanBelow(pages, VacBound(vac, pages)) /\ 1..Len(pages) \subseteq 1..MaxPages
  BY <1>1, VacuumFacts
<1>3. "look" \in LookPc /\ "look" \in HoldPc
  BY DEF LookPc, HoldPc
<1>4. vac.cur \in 1..Len(pages) /\ vac.cur \in 1..MaxPages
  BY <1>1, <1>2, <1>3, VacuumFacts
<1>5. \/ n = NoBlock /\ c = "meta" /\ vac.cur = Len(pages)
      \/ n # NoBlock /\ c = "seek" /\ n = vac.cur + 1 /\ n \in 1..Len(pages)
  BY <1>4, LastPage
<1>6. n \in Nat /\ n \in 0..Len(pages)
  BY <1>2, <1>5 DEF NoBlock
<1> HIDE DEF n
<1>7. c \in {"idle", "seek", "look", "nbuf", "meta"}
  OBVIOUS
<1> HIDE DEF c
<1>8. v \in VacSet /\ v.pc = c /\ v.cur = n /\ v.new = vac.new
  BY <1>2, <1>6, <1>7 DEF VacSet
<1> HIDE DEF v
<1>9. lock' \in LockSet /\ \A b \in 1..MaxPages : b # vac.cur => lock'[b] = lock[b]
  BY <1>1, <1>2, <1>4 DEF LockSet
<1>10. \A q \in Inserters : ins[q].pc \in HoldPc => lock'[ins[q].cur] = q
  BY <1>1, <1>2, <1>3, <1>9, InsertersHold
<1>11. VacuumOK(v, pages', lock')
  <2>1. c \notin HoldPc /\ c # "look" /\ c # "nbuf" /\ "meta" \notin LookPc
    BY <1>5 DEF HoldPc, LookPc
  <2>2. vac.new \in 0..Len(pages) /\ vac.new <= vac.cur
    BY <1>1, <1>2, <1>3 DEF VacuumOK
  <2>3. c \in LookPc => n # NoBlock /\ vac.new <= n
    BY <1>2, <1>4, <1>5, <2>1, <2>2
  <2>4. QED
    BY <1>1, <1>6, <1>8, <2>1, <2>2, <2>3 DEF VacuumOK
<1>12. CleanBelow(pages', VacBound(v, pages'))
  <2>1. CASE vac.new # NoBlock
    BY <2>1, <1>1, <1>2, <1>8 DEF VacBound
  <2>2. CASE vac.new = NoBlock
    <3>1. VacBound(v, pages) = vac.cur + 1
      BY <2>2, <1>5, <1>8 DEF VacBound
    <3>2. CleanBelow(pages, vac.cur)
      BY <2>2, <1>1, <1>2 DEF VacBound
    <3>3. vac.off = 0
      BY <2>2, <1>1, <1>2 DEF VacuumOK
    <3>4. ASSUME NEW o \in DOMAIN pages[vac.cur].items
          PROVE  ~(pages[vac.cur].items[o].kind = "element" /\ pages[vac.cur].items[o].deleted)
      <4>1. PageOK(pages[vac.cur])
        BY <1>2, <1>4, ChainFields
      <4>2. o \in Nat /\ o > 0
        BY <4>1, PageFields
      <4>3. QED
        BY <1>1, <3>3, <4>2 DEF Stops
    <3>5. \A b \in 1..Len(pages) : b < vac.cur + 1 => b < vac.cur \/ b = vac.cur
      BY <1>2, <1>4
    <3>6. CleanBelow(pages, vac.cur + 1)
      BY <3>2, <3>4, <3>5 DEF CleanBelow
    <3>7. QED
      BY <1>1, <3>1, <3>6
  <2>3. QED
    BY <2>1, <2>2
<1>13. c # "idle"
  BY <1>5
<1>14. VacTo(v, {})
  BY <1>1, <1>2, <1>8, <1>9, <1>10, <1>11, <1>12, <1>13 DEF VacTo
<1>15. QED
  BY <1>14, VacuumStepInv

LEMMA AsleepOK == /\ Asleep \in VacSet /\ Asleep.pc = "idle" /\ Asleep.cur = NoBlock /\ Asleep.new = NoBlock
BY DEF Asleep, VacSet, NoBlock

LEMMA MarkDeletedEndInv ==
  ASSUME PagesInv, MarkDeletedEnd PROVE PagesInv'
<1>1. /\ vac.pc = "meta" /\ insertPage' = (IF vac.new # NoBlock THEN vac.new ELSE insertPage)
      /\ vac' = Asleep /\ overlap' = (overlap \/ Busy)
      /\ UNCHANGED <<pages, status, lock, ins, count>>
  BY DEF MarkDeletedEnd
<1>2. /\ status = "ready" /\ Chained(pages) /\ Pairs(pages) /\ Len(pages) \in Nat
      /\ vac \in VacSet /\ VacuumOK(vac, pages, lock) /\ lock \in LockSet /\ count \in CountSet
      /\ insertPage \in 1..Len(pages) /\ overlap \in BOOLEAN
      /\ CleanBelow(pages, VacBound(vac, pages))
  BY <1>1, VacuumFacts
<1>3. insertPage' \in 1..Len(pages)
  BY <1>1, <1>2 DEF VacuumOK, NoBlock
<1>4. CleanBelow(pages', insertPage')
  <2>1. CASE vac.new # NoBlock
    BY <2>1, <1>1, <1>2 DEF VacBound
  <2>2. CASE vac.new = NoBlock
    <3>1. CleanBelow(pages, Len(pages) + 1)
      BY <2>2, <1>1, <1>2 DEF VacBound
    <3>2. \A b \in 1..Len(pages) : b < Len(pages) + 1
      BY <1>2
    <3>3. QED
      BY <1>1, <3>1, <3>2 DEF CleanBelow
  <2>3. QED
    BY <2>1, <2>2
<1>5. overlap' \in BOOLEAN /\ (~overlap' => \A p \in Inserters : ins[p].pc = "idle")
  BY <1>1, <1>2 DEF Busy
<1>6. VacuumOK(Asleep, pages', lock')
  <2>1. "idle" \notin HoldPc /\ "idle" \notin LookPc /\ 0 \in 0..Len(pages)
    BY <1>2 DEF HoldPc, LookPc
  <2>2. QED
    BY <1>1, <2>1, AsleepOK DEF VacuumOK, NoBlock
<1>7. VacTo(Asleep, {})
  BY <1>1, <1>2, <1>3, <1>4, <1>5, <1>6, AsleepOK, InsertersHold DEF VacTo
<1>8. QED
  BY <1>7, VacuumStepInv
-----------------------------------------------------------------------------
(***************************************************************************)
(* The specification.                                                      *)
(***************************************************************************)
LEMMA CrashInv ==
  ASSUME PagesInv, Crash PROVE PagesInv'
<1>1. /\ status = "ready" /\ count' = [count EXCEPT !.crashes = @ + 1] /\ lock' = Unlocked
      /\ ins' = [p \in Inserters |-> Idle] /\ vac' = Asleep
      /\ overlap' = (overlap \/ Busy \/ vac.pc # "idle")
      /\ UNCHANGED <<pages, insertPage, status>>
  BY DEF Crash
<1>2. StateOK /\ RoomOK /\ FoundOK
  BY DEF PagesInv
<1>3. Len(pages) \in Nat /\ 0 \in 0..Len(pages)
  BY <1>2, ChainFields DEF StateOK
<1>4. count' \in CountSet /\ count'.built = count.built /\ count'.inserts = count.inserts
  BY <1>1, <1>2 DEF StateOK, CountSet
<1>5. lock' \in LockSet
  BY <1>1, <1>2 DEF StateOK, LockSet, Unlocked
<1>6. ins' \in [Inserters -> InsSet] /\ \A p \in Inserters : ins'[p] = Idle
  BY <1>1, IdleOK
<1>7. overlap' \in BOOLEAN
  BY <1>1, <1>2 DEF StateOK, Busy
<1>8. StateOK'
  BY <1>1, <1>2, <1>4, <1>5, <1>6, <1>7, AsleepOK DEF StateOK
<1>9. RoomOK'
  <2>1. Looking' = {} /\ Fresh' = {}
    BY <1>6, IdleOK DEF Looking, Fresh, LookPc
  <2>2. Cardinality(Looking') = 0 /\ Cardinality(Fresh') = 0
    BY <2>1, FS_EmptySet
  <2>3. /\ Cardinality(Looking) \in Nat /\ Cardinality(Fresh) \in Nat
        /\ count.built \in Nat /\ count.inserts \in Nat
    BY RoomFacts
  <2>4. QED
    BY <1>1, <1>2, <1>3, <1>4, <2>2, <2>3 DEF RoomOK
<1>10. BuildOK'
  BY <1>1 DEF BuildOK
<1>11. FoundOK'
  BY <1>1, <1>2, <1>6, IdleOK, AsleepOK DEF FoundOK
<1>12. "idle" \notin HoldPc /\ "idle" \notin LookPc
  BY DEF HoldPc, LookPc
<1>13. \A p \in Inserters : InsertOK(p, ins'[p], pages', lock')
  BY <1>1, <1>3, <1>6, <1>12, IdleOK DEF InsertOK, NoBlock
<1>14. VacuumOK(vac', pages', lock')
  BY <1>1, <1>3, <1>12, AsleepOK DEF VacuumOK, NoBlock
<1>15. QED
  BY <1>8, <1>9, <1>10, <1>11, <1>13, <1>14 DEF PagesInv

LEMMA InitInv == Init => PagesInv
<1> SUFFICES ASSUME Init PROVE PagesInv
  OBVIOUS
<1>1. /\ pages = <<EmptyPage>> /\ insertPage = NoBlock /\ status = "building"
      /\ lock = [b \in 1..MaxPages |-> Nobody] /\ ins = [p \in Inserters |-> Idle]
      /\ vac = Asleep /\ count = [built |-> 0, inserts |-> 0, vacuums |-> 0, crashes |-> 0]
      /\ overlap = FALSE
  BY DEF Init
<1>2. PageOK(EmptyPage) /\ EmptyPage \in PageSet
  BY EmptyPageOK DEF PageOK
<1>3. pages \in Seq(PageSet) /\ Len(pages) = 1 /\ pages[1] = EmptyPage
  BY <1>1, <1>2
<1>4. 1..Len(pages) = {1} /\ \A b \in 1..Len(pages) : pages[b].items = <<>>
  BY <1>3, EmptyPageOK
<1>5. Chained(pages)
  BY <1>2, <1>3, <1>4, EmptyPageOK DEF Chained
<1>6. Pairs(pages)
  BY <1>4 DEF Pairs
<1>7. ins \in [Inserters -> InsSet] /\ \A p \in Inserters : ins[p] = Idle
  BY <1>1, IdleOK
<1>8. lock \in LockSet
  BY <1>1 DEF LockSet
<1>9. count \in CountSet /\ count.built = 0 /\ count.inserts = 0
  BY <1>1 DEF CountSet
<1>a. /\ insertPage \in 0..Len(pages) /\ status # "ready" /\ status \in {"building", "ready"}
      /\ vac \in VacSet /\ overlap \in BOOLEAN
  <2>1. insertPage = 0 /\ status = "building" /\ vac = Asleep /\ overlap = FALSE
    BY <1>1 DEF NoBlock
  <2>2. Len(pages) = 1
    BY <1>3
  <2>3. insertPage \in 0..Len(pages)
    BY <2>1, <2>2
  <2>4. status # "ready" /\ status \in {"building", "ready"}
    BY <2>1
  <2>5. vac \in VacSet /\ overlap \in BOOLEAN
    BY <2>1, AsleepOK, Zenon
  <2>6. QED
    BY <2>3, <2>4, <2>5
<1>10. StateOK
  BY <1>5, <1>6, <1>7, <1>8, <1>9, <1>a, Zenon DEF StateOK
<1>11. RoomOK
  <2>1. Looking = {} /\ Fresh = {}
    BY <1>7, IdleOK DEF Looking, Fresh, LookPc
  <2>2. Cardinality(Looking) = 0 /\ Cardinality(Fresh) = 0
    BY <2>1, FS_EmptySet
  <2>3. MaxBuilt \in Nat /\ MaxInserts \in Nat
    BY PagesConstants
  <2>4. QED
    BY <1>3, <1>9, <2>2, <2>3 DEF RoomOK
<1>12. BuildOK
  <2>1. CleanBelow(pages, Len(pages) + 1)
    BY <1>4 DEF CleanBelow
  <2>2. QED
    BY <1>1, <1>7, <2>1, IdleOK, AsleepOK DEF BuildOK
<1>13. FoundOK
  BY <1>1, AsleepOK DEF FoundOK
<1>14. "idle" \notin HoldPc /\ "idle" \notin LookPc /\ 0 \in 0..Len(pages)
  BY <1>3 DEF HoldPc, LookPc
<1>15. \A p \in Inserters : InsertOK(p, ins[p], pages, lock)
  BY <1>7, <1>14, IdleOK DEF InsertOK, NoBlock
<1>16. VacuumOK(vac, pages, lock)
  BY <1>1, <1>14, AsleepOK DEF VacuumOK, NoBlock
<1>17. QED
  BY <1>10, <1>11, <1>12, <1>13, <1>15, <1>16 DEF PagesInv

LEMMA StutterInv ==
  ASSUME PagesInv, UNCHANGED vars PROVE PagesInv'
BY DEF PagesInv, StateOK, RoomOK, BuildOK, FoundOK, Looking, Fresh, vars

LEMMA NextInv ==
  ASSUME PagesInv, [Next]_vars PROVE PagesInv'
<1>1. CASE \E l \in Levels : CreateGraphPages(l)
  BY <1>1, CreateGraphPagesInv
<1>2. CASE FinishBuild
  BY <1>2, FinishBuildInv
<1>3. CASE \E p \in Inserters : \E l \in Levels : Starts(p, l)
  BY <1>3, StartsInv
<1>4. CASE \E p \in Inserters : InsertStep(p)
  <2>1. PICK p \in Inserters : InsertStep(p)
    BY <1>4
  <2>2. QED
    BY <2>1, LockBufferInv, FastPathInv, FreeOffsetHereInv, FreeOffsetWaitsInv, FreeOffsetThereInv,
       AddElementOnlyInv, MoveToNextInv, AppendPageInv, AddOnNewPageInv, UpdateInsertPageInv
       DEF InsertStep
<1>5. CASE MarkDeletedBegin
  BY <1>5, MarkDeletedBeginInv
<1>6. CASE VacuumStep
  BY <1>6, LockForCleanupInv, MarkHereInv, MarkWaitsInv, MarkThereInv, MarkNextPageInv,
     MarkDeletedEndInv DEF VacuumStep
<1>7. CASE Crash
  BY <1>7, CrashInv
<1>8. CASE UNCHANGED vars
  BY <1>8, StutterInv
<1>9. QED
  BY <1>1, <1>2, <1>3, <1>4, <1>5, <1>6, <1>7, <1>8 DEF Next

\* PagesInv holds in every state, for any sizes, levels, backends and bounds.
THEOREM PagesInvariant == Spec => []PagesInv
<1>1. PagesInv /\ [Next]_vars => PagesInv'
  BY NextInv
<1>2. QED
  BY InitInv, <1>1, PTL DEF Spec

\* The free space of every page and the items on it add up to the page, whatever was
\* added, overwritten and marked: no write of AddElementOnDisk runs into another tuple.
THEOREM PagesTyped == Spec => []PagesTypeOK
<1>1. PagesInv => PagesTypeOK
  <2> SUFFICES ASSUME PagesInv PROVE PagesTypeOK
    OBVIOUS
  <2>1. /\ Chained(pages) /\ lock \in LockSet /\ insertPage \in 0..Len(pages)
        /\ \A p \in Inserters : ins[p].cur \in 0..Len(pages)
    BY DEF PagesInv, StateOK, InsertOK
  <2>2. DOMAIN pages = 1..Len(pages) /\ Len(pages) \in Nat
    BY <2>1, ChainFields
  <2>3. 0..Len(pages) = 1..Len(pages) \union {NoBlock}
    BY <2>2 DEF NoBlock
  <2>4. \A b \in DOMAIN pages : pages[b].next \in DOMAIN pages \union {NoBlock}
    BY <2>2, LastPage
  <2>5. \A b \in DOMAIN pages : PageOK(pages[b])
    BY <2>1, <2>2, ChainFields
  <2>6. \A b \in DOMAIN pages :
          pages[b].free \in Nat /\ pages[b].free + SizeOf(pages[b].items) = MaxSize + ItemIdSize
    BY <2>5, PageFields DEF PageOK
  <2>7. lock \in [1..MaxPages -> Backends \union {Nobody}]
    BY <2>1 DEF LockSet
  <2>8. QED
    BY <2>1, <2>2, <2>3, <2>4, <2>6, <2>7 DEF PagesTypeOK
<1>2. QED
  BY PagesInvariant, <1>1, PTL

\* Every element's neighbor TID is that of its own neighbor tuple.
THEOREM PagesPaired == Spec => []TuplesPaired
<1>1. PagesInv => TuplesPaired
  <2> SUFFICES ASSUME PagesInv, NEW e \in Elements
               PROVE  LET n == Item(e).link IN
                      /\ n[1] \in DOMAIN pages /\ n[2] \in DOMAIN pages[n[1]].items
                      /\ Item(n).kind = "neighbors" /\ Item(n).link = e
    BY DEF TuplesPaired
  <2>1. Chained(pages) /\ Pairs(pages)
    BY DEF PagesInv, StateOK
  <2>2. DOMAIN pages = 1..Len(pages)
    BY <2>1, ChainFields
  <2>3. PICK b \in 1..Len(pages) : \E o \in DOMAIN pages[b].items :
          e = <<b, o>> /\ pages[b].items[o].kind = "element"
    BY <2>2 DEF Elements
  <2>4. PICK o \in DOMAIN pages[b].items : e = <<b, o>> /\ pages[b].items[o].kind = "element"
    BY <2>3
  <2>5. PairedAt(pages, b, o)
    BY <2>1, <2>4 DEF Pairs
  <2> DEFINE n == pages[b].items[o].link
  <2>6. /\ n[1] \in 1..Len(pages) /\ n[2] \in DOMAIN pages[n[1]].items
        /\ pages[n[1]].items[n[2]].kind = "neighbors" /\ pages[n[1]].items[n[2]].link = <<b, o>>
    BY <2>5, Zenon DEF PairedAt
  <2>7. Item(e).link = n
    BY <2>4 DEF Item
  <2> HIDE DEF n
  <2>8. n[1] \in DOMAIN pages /\ n[2] \in DOMAIN pages[n[1]].items
        /\ Item(n).kind = "neighbors" /\ Item(n).link = e
    BY <2>2, <2>4, <2>6 DEF Item
  <2>9. QED
    BY <2>7, <2>8, Zenon
<1>2. QED
  BY PagesInvariant, <1>1, PTL

\* No insert ends in "failed to add index item".
THEOREM PagesNoFailure == Spec => []NoInsertFails
<1>1. PagesInv => NoInsertFails
  <2> SUFFICES ASSUME PagesInv, NEW p \in Inserters PROVE ins[p].pc # "failed"
    BY DEF NoInsertFails
  <2>1. ins[p].pc \in InsPc
    BY InsertFacts, InsFields
  <2>2. QED
    BY <2>1 DEF InsPc
<1>2. QED
  BY PagesInvariant, <1>1, PTL

\* Whoever waits for a second buffer lock waits for a later page.
THEOREM PagesLocksAscend == Spec => []LocksAscend
<1>1. PagesInv => LocksAscend
  <2> SUFFICES ASSUME PagesInv PROVE LocksAscend
    OBVIOUS
  <2>1. Chained(pages) /\ Pairs(pages) /\ Len(pages) \in Nat
    BY ChainFields DEF PagesInv, StateOK
  <2>2. ASSUME NEW b \in 1..Len(pages), NEW o \in DOMAIN pages[b].items,
               pages[b].items[o].kind = "element", pages[b].items[o].link[1] # b
        PROVE  pages[b].items[o].link[1] > b
    <3>1. PairedAt(pages, b, o)
      BY <2>1, <2>2 DEF Pairs
    <3>2. pages[b].items[o].link[1] \in 1..Len(pages) /\ pages[b].items[o].link[1] >= b
      BY <3>1, Zenon DEF PairedAt
    <3>3. QED
      BY <2>1, <2>2, <3>2
  <2>3. ASSUME NEW p \in Inserters, ins[p].pc = "nbuf"
        PROVE  /\ lock[ins[p].cur] = p
               /\ pages[ins[p].cur].items[ins[p].off].link[1] > ins[p].cur
    <3>1. "nbuf" \in HoldPc
      BY DEF HoldPc
    <3>2. InsertOK(p, ins[p], pages, lock) /\ ins[p].cur \in 1..Len(pages)
      BY <2>3, InsertFacts
    <3>3. /\ lock[ins[p].cur] = p /\ ins[p].off \in DOMAIN pages[ins[p].cur].items
          /\ pages[ins[p].cur].items[ins[p].off].kind = "element"
          /\ pages[ins[p].cur].items[ins[p].off].link[1] # ins[p].cur
      BY <2>3, <3>1, <3>2 DEF InsertOK
    <3>4. QED
      BY <2>2, <3>2, <3>3
  <2>4. ASSUME vac.pc = "nbuf" PROVE pages[vac.cur].items[vac.off].link[1] > vac.cur
    <3>1. vac.cur \in 1..Len(pages) /\ VacuumOK(vac, pages, lock)
      BY <2>4, VacuumFacts DEF LookPc
    <3>2. /\ vac.off \in DOMAIN pages[vac.cur].items
          /\ pages[vac.cur].items[vac.off].kind = "element"
          /\ pages[vac.cur].items[vac.off].link[1] # vac.cur
      BY <2>4, <3>1 DEF VacuumOK
    <3>3. QED
      BY <2>2, <3>1, <3>2
  <2>5. QED
    BY <2>3, <2>4 DEF LocksAscend
<1>2. QED
  BY PagesInvariant, <1>1, PTL

\* No page is lost from the chain, and a page once added stays where it is.
THEOREM PagesChained == Spec => []PagesLinked
<1>1. PagesInv => PagesLinked
  <2> SUFFICES ASSUME PagesInv PROVE PagesLinked
    OBVIOUS
  <2>1. Chained(pages)
    BY DEF PagesInv, StateOK
  <2>2. DOMAIN pages = 1..Len(pages)
    BY <2>1, ChainFields
  <2>3. QED
    BY <2>1, <2>2 DEF Chained, PagesLinked
<1>2. QED
  BY PagesInvariant, <1>1, PTL

\* Unless a VACUUM overlapped with an insert, or a crash, no page before the insert
\* page has a place left to reuse.
THEOREM PagesPlacesFound == Spec => []PlacesFound
<1>1. PagesInv => PlacesFound
  <2> SUFFICES ASSUME PagesInv, status = "ready", ~overlap, vac.pc = "idle",
                      NEW b \in 1..(insertPage - 1)
               PROVE  DeletedAfter(b, 0) = {}
    BY DEF PlacesFound
  <2>1. CleanBelow(pages, insertPage)
    BY DEF PagesInv, FoundOK
  <2>2. insertPage \in 0..Len(pages) /\ Len(pages) \in Nat
    BY ChainFields DEF PagesInv, StateOK
  <2>3. b \in 1..Len(pages) /\ b < insertPage
    BY <2>2
  <2>4. QED
    BY <2>1, <2>3 DEF CleanBelow, DeletedAfter
<1>2. QED
  BY PagesInvariant, <1>1, PTL
=============================================================================
