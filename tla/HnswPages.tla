----------------------------- MODULE HnswPages ------------------------------
(***************************************************************************)
(* Where elements are put: the chain of index pages, the space on each,    *)
(* the insert page of the metapage, and the buffer locks of the inserts    *)
(* and the VACUUM that use them.  CreateGraphPages (hnswbuild.c) lays out  *)
(* the elements of a build, AddElementOnDisk and HnswFreeOffset            *)
(* (hnswinsert.c) find a place for one more, in free space or in that of a *)
(* deleted element, and MarkDeleted (hnswvacuum.c) makes such places.      *)
(* Sizes are in units that keep their relations.                           *)
(***************************************************************************)
EXTENDS Integers, Sequences, FiniteSets

CONSTANTS
  Inserters,   \* backends that insert
  Vacuum,      \* the backend that runs VACUUM
  Levels,      \* levels of elements
  EtupSize,    \* HNSW_ELEMENT_TUPLE_SIZE of the index's vectors
  NtupSize(_), \* HNSW_NEIGHBOR_TUPLE_SIZE of a level
  ItemIdSize,  \* sizeof(ItemIdData)
  MaxSize,     \* HNSW_MAX_SIZE
  MaxBuilt, MaxInserts, MaxVacuums, MaxCrashes  \* bounds

Backends == Inserters \union {Vacuum}
NoBlock  == 0      \* InvalidBlockNumber; block 0 is the metapage
HeadPage == 1      \* HNSW_HEAD_BLKNO
Nobody   == "nobody"

ASSUME PagesConstants ==
  /\ IsFiniteSet(Inserters) /\ Vacuum \notin Inserters /\ Nobody \notin Backends
  /\ 0 \in Levels /\ Levels \subseteq Nat
  /\ EtupSize \in Nat \ {0} /\ ItemIdSize \in Nat \ {0} /\ MaxSize \in Nat
  /\ \A l \in Levels : NtupSize(l) \in Nat \ {0} /\ NtupSize(0) <= NtupSize(l)
  /\ EtupSize <= MaxSize /\ \A l \in Levels : NtupSize(l) <= MaxSize
  /\ {MaxBuilt, MaxInserts, MaxVacuums, MaxCrashes} \subseteq Nat

VARIABLES
  pages,       \* from HeadPage on: [items, free, next]; free is pd_upper - pd_lower
  insertPage,  \* HnswMetaPageData.insertPage
  status,      \* "building" or "ready"
  lock,        \* buffer locks: page -> backend
  ins,         \* the inserts in progress
  vac,         \* MarkDeleted in progress
  count,       \* elements built, inserts, VACUUMs and crashes so far
  overlap      \* has a VACUUM freed places while an insert was looking for one?

vars == <<pages, insertPage, status, lock, ins, vac, count, overlap>>
-----------------------------------------------------------------------------
(***************************************************************************)
(* Pages (bufpage.c).                                                      *)
(***************************************************************************)
EmptyPage == [items |-> <<>>, free |-> MaxSize + ItemIdSize, next |-> NoBlock]

FreeSpace(pg) == IF pg.free < ItemIdSize THEN 0 ELSE pg.free - ItemIdSize

AddItem(pg, item) ==
  [pg EXCEPT !.items = Append(@, item), !.free = @ - item.size - ItemIdSize]

CanOverwrite(pg, off, size) == size <= pg.items[off].size + pg.free

Overwrite(pg, off, item) ==
  [pg EXCEPT !.items[off] = item, !.free = @ + pg.items[off].size - item.size]

\* An element tuple knows its neighbor tuple; that a neighbor tuple knows its
\* element is only for the properties.
Etup(ntid)   == [kind |-> "element", size |-> EtupSize, deleted |-> FALSE, link |-> ntid]
Ntup(l, tid) == [kind |-> "neighbors", size |-> NtupSize(l), deleted |-> FALSE, link |-> tid]

\* Mutant: the second line pointer is forgotten.
CombinedSizeTight(l) == EtupSize + NtupSize(l)

CombinedSize(l) == EtupSize + NtupSize(l) + ItemIdSize

Elements ==
  UNION {{<<b, o>> : o \in {x \in DOMAIN pages[b].items : pages[b].items[x].kind = "element"}} :
         b \in DOMAIN pages}
Item(tid) == pages[tid[1]].items[tid[2]]

Idle   == [pc |-> "idle", level |-> 0, from |-> NoBlock, cur |-> NoBlock, off |-> 0, new |-> NoBlock]
Asleep == [pc |-> "idle", dead |-> {}, cur |-> NoBlock, off |-> 0, new |-> NoBlock]

Unlocked == [b \in DOMAIN lock |-> Nobody]
MaxPages == 1 + 2 * (MaxBuilt + MaxInserts)

Init ==
  /\ pages = <<EmptyPage>>
  /\ insertPage = NoBlock
  /\ status = "building"
  /\ lock = [b \in 1..MaxPages |-> Nobody]
  /\ ins = [p \in Inserters |-> Idle]
  /\ vac = Asleep
  /\ count = [built |-> 0, inserts |-> 0, vacuums |-> 0, crashes |-> 0]
  /\ overlap = FALSE
-----------------------------------------------------------------------------
(***************************************************************************)
(* CreateGraphPages: the neighbor tuple's place is worked out before the   *)
(* page it goes to is known.                                               *)
(***************************************************************************)

\* HnswBuildAppendPage
WithNewPage(ps) == Append([ps EXCEPT ![Len(ps)].next = Len(ps) + 1], EmptyPage)
AddLast(ps, item) == [ps EXCEPT ![Len(ps)] = AddItem(@, item)]

NewPageFor(l, pg) ==
  FreeSpace(pg) < EtupSize \/ (CombinedSize(l) <= MaxSize /\ FreeSpace(pg) < CombinedSize(l))

CreateGraphPages(l) ==
  /\ status = "building"
  /\ count.built < MaxBuilt
  /\ LET ps0  == IF NewPageFor(l, pages[Len(pages)]) THEN WithNewPage(pages) ELSE pages
         b    == Len(ps0)
         off  == Len(ps0[b].items) + 1
         ntid == IF CombinedSize(l) <= MaxSize THEN <<b, off + 1>> ELSE <<b + 1, 1>>
         ps1  == AddLast(ps0, Etup(ntid))
         ps2  == IF FreeSpace(ps1[b]) < NtupSize(l) THEN WithNewPage(ps1) ELSE ps1
     IN pages' = AddLast(ps2, Ntup(l, <<b, off>>))
  /\ count' = [count EXCEPT !.built = @ + 1]
  /\ UNCHANGED <<insertPage, status, lock, ins, vac, overlap>>

FinishBuild ==
  /\ status = "building"
  /\ status' = "ready"
  /\ insertPage' = Len(pages)
  /\ UNCHANGED <<pages, lock, ins, vac, count, overlap>>
-----------------------------------------------------------------------------
(***************************************************************************)
(* AddElementOnDisk.                                                       *)
(***************************************************************************)

Starts(p, l) ==
  /\ status = "ready"
  /\ ins[p].pc = "idle"
  /\ count.inserts < MaxInserts
  /\ ins' = [ins EXCEPT ![p] = [pc |-> "seek", level |-> l, from |-> insertPage,
                                cur |-> insertPage, off |-> 0, new |-> NoBlock]]
  /\ count' = [count EXCEPT !.inserts = @ + 1]
  /\ UNCHANGED <<pages, insertPage, status, lock, vac, overlap>>

MinCombinedSize == CombinedSize(0)

\* The page is locked, and noted if an element of level 0 would fit.
LockBuffer(p) ==
  LET i == ins[p] IN
  /\ i.pc = "seek"
  /\ lock[i.cur] = Nobody
  /\ lock' = [lock EXCEPT ![i.cur] = p]
  /\ ins' = [ins EXCEPT ![p].pc = "look", ![p].off = 0,
       ![p].new = IF @ = NoBlock /\ FreeSpace(pages[i.cur]) >= MinCombinedSize THEN i.cur ELSE @]
  /\ UNCHANGED <<pages, insertPage, status, vac, count, overlap>>

\* The insert page a finished insert asks for: it found a page, or that of its
\* neighbor tuple.
NewInsertPage(new, nblk) == IF new = NoBlock THEN nblk ELSE new

\* Both tuples are written, and all locks released; the metapage comes after.
Written(p, nblk) ==
  /\ ins' = [ins EXCEPT ![p].pc = "meta", ![p].new = NewInsertPage(@, nblk)]
  /\ lock' = [b \in DOMAIN lock |-> IF lock[b] = p THEN Nobody ELSE lock[b]]

\* Mutant: the neighbor tuple is always taken to be the first of its page.
AddBothFirst(ps, b, nb, l) ==
  LET off == Len(ps[b].items) + 1
      ps1 == [ps EXCEPT ![b] = AddItem(@, Etup(<<nb, 1>>))]
  IN [ps1 EXCEPT ![nb] = AddItem(@, Ntup(l, <<b, off>>))]

\* PageAddItem for both, the neighbor tuple on page nb, new if it is another one.
AddBoth(ps, b, nb, l) ==
  LET off  == Len(ps[b].items) + 1
      ntid == IF nb = b THEN <<b, off + 1>> ELSE <<nb, 1>>
      ps1  == [ps EXCEPT ![b] = AddItem(@, Etup(ntid))]
  IN [ps1 EXCEPT ![nb] = AddItem(@, Ntup(l, <<b, off>>))]

\* Mutant: the page before is not updated.
ExtendedUnlinked(ps, b) == Append(ps, EmptyPage)

\* HnswInsertAppendPage after page b.
Extended(ps, b) == Append([ps EXCEPT ![b].next = Len(ps) + 1], EmptyPage)

FitsPage(i) == FreeSpace(pages[i.cur]) >= CombinedSize(i.level)

\* The fastest path: both tuples on the current page.
FastPath(p) ==
  LET i == ins[p] IN
  /\ i.pc = "look"
  /\ FitsPage(i)
  /\ pages' = AddBoth(pages, i.cur, i.cur, i.level)
  /\ Written(p, i.cur)
  /\ UNCHANGED <<insertPage, status, vac, count, overlap>>

\* Deleted elements of page b behind offset off.
DeletedAfter(b, off) ==
  {o \in DOMAIN pages[b].items : o > off /\ pages[b].items[o].kind = "element"
                                         /\ pages[b].items[o].deleted}
NextDeleted(b, off) ==
  CHOOSE o \in DeletedAfter(b, off) : \A x \in DeletedAfter(b, off) : o <= x

\* Mutant: the room the element tuple takes is counted twice.
FreeOffsetFitsTwice(b, o, l) ==
  LET ntid      == pages[b].items[o].link
      pageFree  == EtupSize + pages[b].free
      npageFree == Item(ntid).size + pages[ntid[1]].free + EtupSize
  IN pageFree >= EtupSize /\ npageFree >= NtupSize(l)

\* The space check of HnswFreeOffset for the deleted element at offset o of page b.
FreeOffsetFits(b, o, l) ==
  LET ntid      == pages[b].items[o].link
      pageFree  == pages[b].items[o].size + pages[b].free
      npageFree == Item(ntid).size +
        (IF ntid[1] # b THEN pages[ntid[1]].free
         ELSE IF pageFree >= EtupSize THEN pageFree - EtupSize ELSE 0)
  IN pageFree >= EtupSize /\ npageFree >= NtupSize(l)

\* Both tuples are overwritten, one after the other, or the insert fails.
OverwriteBoth(p, b, o) ==
  LET ntid == pages[b].items[o].link
      ps1  == [pages EXCEPT ![b] = Overwrite(@, o, Etup(ntid))]
      ps2  == [ps1 EXCEPT ![ntid[1]] = Overwrite(@, ntid[2], Ntup(ins[p].level, <<b, o>>))]
  IN IF CanOverwrite(pages[b], o, EtupSize)
          /\ CanOverwrite(ps1[ntid[1]], ntid[2], NtupSize(ins[p].level))
       THEN pages' = ps2 /\ Written(p, ntid[1])
       ELSE /\ ins' = [ins EXCEPT ![p].pc = "failed"]
            /\ lock' = [x \in DOMAIN lock |-> IF lock[x] = p THEN Nobody ELSE lock[x]]
            /\ UNCHANGED pages

\* Mutant: a page with deleted elements that are too small is not noted.
NoteNothing(new, b) == new

\* HnswFreeOffset notes the first page with a deleted element.
NotePage(new, b) == IF new = NoBlock THEN b ELSE new

\* HnswFreeOffset, one deleted element with its neighbor tuple on the same page.
FreeOffsetHere(p) ==
  LET i == ins[p]
      o == NextDeleted(i.cur, i.off)
  IN /\ i.pc = "look" /\ ~FitsPage(i) /\ DeletedAfter(i.cur, i.off) # {}
     /\ pages[i.cur].items[o].link[1] = i.cur
     /\ IF FreeOffsetFits(i.cur, o, i.level)
          THEN OverwriteBoth(p, i.cur, o)
          ELSE /\ ins' = [ins EXCEPT ![p].off = o, ![p].new = NotePage(@, i.cur)]
               /\ UNCHANGED <<pages, lock>>
     /\ UNCHANGED <<insertPage, status, vac, count, overlap>>

\* The neighbor tuple is on another page, which must be locked as well.
FreeOffsetWaits(p) ==
  LET i == ins[p]
      o == NextDeleted(i.cur, i.off)
  IN /\ i.pc = "look" /\ ~FitsPage(i) /\ DeletedAfter(i.cur, i.off) # {}
     /\ pages[i.cur].items[o].link[1] # i.cur
     /\ ins' = [ins EXCEPT ![p].pc = "nbuf", ![p].off = o, ![p].new = NotePage(@, i.cur)]
     /\ UNCHANGED <<pages, insertPage, status, lock, vac, count, overlap>>

FreeOffsetThere(p) ==
  LET i  == ins[p]
      nb == pages[i.cur].items[i.off].link[1]
  IN /\ i.pc = "nbuf"
     /\ lock[nb] = Nobody
     /\ IF FreeOffsetFits(i.cur, i.off, i.level)
          THEN OverwriteBoth(p, i.cur, i.off)
          ELSE ins' = [ins EXCEPT ![p].pc = "look"] /\ UNCHANGED <<pages, lock>>
     /\ UNCHANGED <<insertPage, status, vac, count, overlap>>

NoPlaceHere(i) == i.pc = "look" /\ ~FitsPage(i) /\ DeletedAfter(i.cur, i.off) = {}

\* Space for the element only, on the last page.
ElementOnly(i) ==
  CombinedSize(i.level) > MaxSize /\ FreeSpace(pages[i.cur]) >= EtupSize
                                  /\ pages[i.cur].next = NoBlock

AddElementOnly(p) ==
  LET i == ins[p] IN
  /\ NoPlaceHere(i) /\ ElementOnly(i)
  /\ pages' = AddBoth(Extended(pages, i.cur), i.cur, Len(pages) + 1, i.level)
  /\ Written(p, Len(pages) + 1)
  /\ UNCHANGED <<insertPage, status, vac, count, overlap>>

MoveToNext(p) ==
  LET i == ins[p] IN
  /\ NoPlaceHere(i) /\ ~ElementOnly(i) /\ pages[i.cur].next # NoBlock
  /\ ins' = [ins EXCEPT ![p].pc = "seek", ![p].cur = pages[i.cur].next]
  /\ lock' = [lock EXCEPT ![i.cur] = Nobody]
  /\ UNCHANGED <<pages, insertPage, status, vac, count, overlap>>

\* A new last page, in a WAL record of its own; it stays locked.
AppendPage(p) ==
  LET i == ins[p] IN
  /\ NoPlaceHere(i) /\ ~ElementOnly(i) /\ pages[i.cur].next = NoBlock
  /\ pages' = Extended(pages, i.cur)
  /\ ins' = [ins EXCEPT ![p].pc = "fresh", ![p].cur = Len(pages) + 1]
  /\ lock' = [lock EXCEPT ![i.cur] = Nobody, ![Len(pages) + 1] = p]
  /\ UNCHANGED <<insertPage, status, vac, count, overlap>>

\* Mutant: of two new pages, the first gets the neighbor tuple.
AddOnNewPageSwapped(p) ==
  LET i  == ins[p]
      nb == Len(pages) + 1
      ps == Extended(pages, i.cur)
  IN /\ i.pc = "fresh"
     /\ pages' = IF FitsPage(i) THEN AddBoth(pages, i.cur, i.cur, i.level)
                 ELSE [ps EXCEPT ![i.cur] = AddItem(@, Ntup(i.level, <<nb, 1>>)),
                                 ![nb] = AddItem(@, Etup(<<i.cur, 1>>))]
     /\ Written(p, IF FitsPage(i) THEN i.cur ELSE nb)
     /\ UNCHANGED <<insertPage, status, vac, count, overlap>>

\* The element goes to the new page, its neighbor tuple there or to one more.
AddOnNewPage(p) ==
  LET i  == ins[p]
      nb == IF FitsPage(i) THEN i.cur ELSE Len(pages) + 1
      ps == IF FitsPage(i) THEN pages ELSE Extended(pages, i.cur)
  IN /\ i.pc = "fresh"
     /\ pages' = AddBoth(ps, i.cur, nb, i.level)
     /\ Written(p, nb)
     /\ UNCHANGED <<insertPage, status, vac, count, overlap>>

\* HnswUpdateMetaPage, if the insert page is another than at the start.
UpdateInsertPage(p) ==
  LET i == ins[p] IN
  /\ i.pc = "meta"
  /\ insertPage' = IF i.new # i.from THEN i.new ELSE insertPage
  /\ ins' = [ins EXCEPT ![p] = Idle]
  /\ UNCHANGED <<pages, status, lock, vac, count, overlap>>
-----------------------------------------------------------------------------
(***************************************************************************)
(* MarkDeleted, for the elements whose heap TIDs VACUUM has removed.       *)
(***************************************************************************)
Busy == \E p \in Inserters : ins[p].pc # "idle"

MarkDeletedBegin ==
  /\ status = "ready"
  /\ vac.pc = "idle"
  /\ count.vacuums < MaxVacuums
  /\ \E D \in SUBSET {e \in Elements : ~Item(e).deleted} :
       vac' = [pc |-> "seek", dead |-> D, cur |-> HeadPage, off |-> 0, new |-> NoBlock]
  /\ count' = [count EXCEPT !.vacuums = @ + 1]
  /\ overlap' = (overlap \/ Busy)
  /\ UNCHANGED <<pages, insertPage, status, lock, ins>>

LockForCleanup ==
  /\ vac.pc = "seek"
  /\ lock[vac.cur] = Nobody
  /\ lock' = [lock EXCEPT ![vac.cur] = Vacuum]
  /\ vac' = [vac EXCEPT !.pc = "look", !.off = 0]
  /\ overlap' = (overlap \/ Busy)
  /\ UNCHANGED <<pages, insertPage, status, ins, count>>

\* Offsets of the page that MarkDeleted stops at: deleted already, or to be marked.
Stops == {o \in DOMAIN pages[vac.cur].items :
            o > vac.off /\ pages[vac.cur].items[o].kind = "element"
              /\ (pages[vac.cur].items[o].deleted \/ <<vac.cur, o>> \in vac.dead)}
Stop  == CHOOSE o \in Stops : \A x \in Stops : o <= x

Marked(o) == [vac EXCEPT !.pc = "look", !.off = o, !.dead = @ \ {<<vac.cur, o>>},
                         !.new = NotePage(@, vac.cur)]

\* A deleted element, or one with its neighbor tuple on the same page.
MarkHere ==
  /\ vac.pc = "look" /\ Stops # {}
  /\ pages[vac.cur].items[Stop].deleted \/ pages[vac.cur].items[Stop].link[1] = vac.cur
  /\ pages' = [pages EXCEPT ![vac.cur].items[Stop].deleted = TRUE]
  /\ vac' = Marked(Stop)
  /\ UNCHANGED <<insertPage, status, lock, ins, count, overlap>>

MarkWaits ==
  /\ vac.pc = "look" /\ Stops # {}
  /\ ~pages[vac.cur].items[Stop].deleted /\ pages[vac.cur].items[Stop].link[1] # vac.cur
  /\ vac' = [vac EXCEPT !.pc = "nbuf", !.off = Stop]
  /\ UNCHANGED <<pages, insertPage, status, lock, ins, count, overlap>>

MarkThere ==
  /\ vac.pc = "nbuf"
  /\ lock[pages[vac.cur].items[vac.off].link[1]] = Nobody
  /\ pages' = [pages EXCEPT ![vac.cur].items[vac.off].deleted = TRUE]
  /\ vac' = Marked(vac.off)
  /\ UNCHANGED <<insertPage, status, lock, ins, count, overlap>>

\* Mutant: the end of the chain is not noticed.
AfterPageAgain == IF pages[vac.cur].next = NoBlock THEN HeadPage ELSE pages[vac.cur].next

AfterPage == pages[vac.cur].next

\* The next page; after the last one, the insert page is set to the first free one.
MarkNextPage ==
  /\ vac.pc = "look" /\ Stops = {}
  /\ lock' = [lock EXCEPT ![vac.cur] = Nobody]
  /\ vac' = [vac EXCEPT !.pc = IF AfterPage = NoBlock THEN "meta" ELSE "seek",
                        !.cur = AfterPage]
  /\ UNCHANGED <<pages, insertPage, status, ins, count, overlap>>

MarkDeletedEnd ==
  /\ vac.pc = "meta"
  /\ insertPage' = IF vac.new # NoBlock THEN vac.new ELSE insertPage
  /\ vac' = Asleep
  /\ overlap' = (overlap \/ Busy)
  /\ UNCHANGED <<pages, status, lock, ins, count>>
-----------------------------------------------------------------------------
\* The server stops: what was written stays, as WAL or as pages.
Crash ==
  /\ status = "ready"
  /\ count.crashes < MaxCrashes
  /\ count' = [count EXCEPT !.crashes = @ + 1]
  /\ lock' = Unlocked
  /\ ins' = [p \in Inserters |-> Idle]
  /\ vac' = Asleep
  /\ overlap' = (overlap \/ Busy \/ vac.pc # "idle")
  /\ UNCHANGED <<pages, insertPage, status>>

InsertStep(p) ==
  \/ LockBuffer(p) \/ FastPath(p)
  \/ FreeOffsetHere(p) \/ FreeOffsetWaits(p) \/ FreeOffsetThere(p)
  \/ AddElementOnly(p) \/ MoveToNext(p) \/ AppendPage(p) \/ AddOnNewPage(p)
  \/ UpdateInsertPage(p)

VacuumStep ==
  LockForCleanup \/ MarkHere \/ MarkWaits \/ MarkThere \/ MarkNextPage \/ MarkDeletedEnd

Quiet == /\ count.inserts = MaxInserts /\ vac.pc = "idle" /\ count.vacuums = MaxVacuums
         /\ \A p \in Inserters : ins[p].pc = "idle"

Next ==
  \/ \E l \in Levels : CreateGraphPages(l)
  \/ FinishBuild
  \/ \E p \in Inserters : (\E l \in Levels : Starts(p, l)) \/ InsertStep(p)
  \/ MarkDeletedBegin \/ VacuumStep
  \/ Crash
  \/ Quiet /\ UNCHANGED vars

Spec == Init /\ [][Next]_vars

\* A backend that can go on does; a crash is not forever.
FairSpec == Spec /\ \A p \in Inserters : WF_vars(InsertStep(p))
                 /\ WF_vars(VacuumStep)
-----------------------------------------------------------------------------
\* The bytes of the items on a page.
SizeOf(s) ==
  LET upto[n \in 0..Len(s)] == IF n = 0 THEN 0 ELSE upto[n - 1] + s[n].size + ItemIdSize
  IN upto[Len(s)]

\* Types, and the space of a page: what is free and what is used is what there is,
\* so no tuple was written over another.
PagesTypeOK ==
  /\ \A b \in DOMAIN pages :
       /\ pages[b].free \in Nat
       /\ pages[b].free + SizeOf(pages[b].items) = MaxSize + ItemIdSize
       /\ pages[b].next \in DOMAIN pages \union {NoBlock}
  /\ insertPage \in DOMAIN pages \union {NoBlock}
  /\ \A p \in Inserters : ins[p].cur \in DOMAIN pages \union {NoBlock}
  /\ lock \in [1..MaxPages -> Backends \union {Nobody}]

\* The neighbor TID of an element, worked out before the tuples are written, is that
\* of its own neighbor tuple, however places were reused and pages added.
TuplesPaired ==
  \A e \in Elements :
    LET n == Item(e).link IN
    /\ n[1] \in DOMAIN pages /\ n[2] \in DOMAIN pages[n[1]].items
    /\ Item(n).kind = "neighbors" /\ Item(n).link = e

\* The space checks of AddElementOnDisk and HnswFreeOffset suffice: no insert ends
\* in "failed to add index item".
NoInsertFails == \A p \in Inserters : ins[p].pc # "failed"

\* Whoever waits for a second buffer lock waits for a later page than the one it
\* holds, in VACUUM as in HnswFreeOffset, so they cannot wait for each other.
LocksAscend ==
  /\ \A p \in Inserters : ins[p].pc = "nbuf" =>
       /\ lock[ins[p].cur] = p
       /\ pages[ins[p].cur].items[ins[p].off].link[1] > ins[p].cur
  /\ vac.pc = "nbuf" => pages[vac.cur].items[vac.off].link[1] > vac.cur

\* No page is lost: the chain from the head page, which VACUUM and the inserts
\* follow, visits them all in the order they were added.
PagesLinked ==
  \A b \in DOMAIN pages : pages[b].next = IF b = Len(pages) THEN NoBlock ELSE b + 1

\* Deleted places are found again: unless VACUUM made some while an insert was looking
\* for one, or a crash came in between, no page before the insert page has any.
PlacesFound ==
  status = "ready" /\ ~overlap /\ vac.pc = "idle" /\ ~Busy =>
    \A b \in 1..(insertPage - 1) : DeletedAfter(b, 0) = {}

\* Every insert and every VACUUM comes to an end: nobody waits for ever for a buffer.
AllFinish == []<>(~Busy /\ vac.pc = "idle")
=============================================================================
