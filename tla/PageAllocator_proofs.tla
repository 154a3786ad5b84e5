------------------------ MODULE PageAllocator_proofs ------------------------
(***************************************************************************)
(* Proofs that kmalloc and kfree keep the heap's blocks apart and its tags  *)
(* right, for every number of pages, page size and sequence of calls.       *)
(***************************************************************************)
EXTENDS PageAllocator, Memory_proofs, TLAPS

-----------------------------------------------------------------------------
(* The inductive invariant.                                                *)

(* Blocks apart, tags exact, and remnants of wrapped blocks where they do  *)
(* no harm.  kfree relies on the tags alone, so each part needs the others.*)
Consistent == TypeOK /\ NoOverlap /\ TagsMatchBlocks /\ OrphansAtTheBottom

(* The arithmetic view of the blocks held.                                 *)
LEMMA LiveBlock ==
    ASSUME TypeOK, NEW b \in live
    PROVE  /\ NUM_PAGES \in Nat
           /\ b.start \in Nat /\ b.start < NUM_PAGES /\ b.start \in Page
           /\ b.pages \in Nat /\ 1 <= b.pages /\ b.pages <= NUM_PAGES
           /\ b.start \in PagesOf(b)
           /\ \A p \in Page : p \in PagesOf(b) <=>
                 \/ b.start <= p /\ p < b.start + b.pages
                 \/ p + NUM_PAGES < b.start + b.pages
           /\ PagesOf(b) \subseteq Page
<1>1. b.start \in Page /\ b.pages \in 1 .. NUM_PAGES
    BY DEF TypeOK
<1>2. /\ PagesOf(b) = {p \in Page :
               \/ b.start <= p /\ p < b.start + b.pages
               \/ p + NUM_PAGES < b.start + b.pages}
      /\ b.start \in PagesOf(b)
    BY <1>1, BlockPagesFacts DEF PagesOf
<1>. QED  BY <1>1, <1>2, HeapAssumption DEF Page

(* The walk of kfree over the tails behind a head stays out of every other *)
(* block: it would have to step on that block's head, or come through the  *)
(* bottom of a block that wraps, which then contains the first head.       *)
LEMMA FreedMissesOthers ==
    ASSUME Consistent, NEW b \in live, NEW c \in live, b # c,
           NEW p \in FreedPages(page_table, b.start)
    PROVE  p \notin PagesOf(c)
<1>. USE DEF Consistent
<1>1. page_table[b.start] = HEAD /\ page_table[c.start] = HEAD
    BY DEF TagsMatchBlocks
<1>2. /\ p \in b.start .. NUM_PAGES - 1
      /\ \A k \in b.start + 1 .. p : page_table[k] = TAIL
    BY <1>1 DEF FreedPages
<1>3. b.start \notin PagesOf(c)
    BY LiveBlock DEF NoOverlap
<1>4. SUFFICES ASSUME p \in PagesOf(c)
               PROVE  FALSE
    OBVIOUS
<1>5. /\ NUM_PAGES \in Nat /\ p \in Nat /\ p < NUM_PAGES /\ p \in Page
      /\ b.start \in Nat /\ b.start < NUM_PAGES /\ b.start <= p
      /\ c.start \in Nat /\ c.start < NUM_PAGES /\ c.pages \in Nat
    BY <1>2, LiveBlock DEF Page
<1>6. /\ (c.start <= p /\ p < c.start + c.pages)
         \/ p + NUM_PAGES < c.start + c.pages
      /\ ~(c.start <= b.start /\ b.start < c.start + c.pages)
      /\ ~(b.start + NUM_PAGES < c.start + c.pages)
    BY <1>3, <1>4, <1>5, LiveBlock
<1>7. c.start \in b.start + 1 .. p
    BY <1>5, <1>6
<1>8. page_table[c.start] = TAIL
    BY <1>2, <1>7
<1>. QED  BY <1>1, <1>8 DEF HEAD, TAIL

(* The walk of kfree covers what its block has above its head, and what it *)
(* does not cover are the lowest pages of the table.                       *)
LEMMA FreedCoversBlock ==
    ASSUME Consistent, NEW b \in live, NEW p \in PagesOf(b),
           p \notin FreedPages(page_table, b.start)
    PROVE  /\ Wrapped(b)
           /\ p < b.start
           /\ \A q \in 0 .. p : q \in PagesOf(b)
<1>. USE DEF Consistent
<1>1. /\ page_table[b.start] = HEAD
      /\ \A k \in PagesOf(b) \ {b.start} : page_table[k] = TAIL
    BY DEF TagsMatchBlocks
<1>2. /\ NUM_PAGES \in Nat /\ p \in Nat /\ p < NUM_PAGES /\ p \in Page
      /\ b.start \in Nat /\ b.start < NUM_PAGES /\ b.pages \in Nat
      /\ b.pages <= NUM_PAGES
      /\ \/ b.start <= p /\ p < b.start + b.pages
         \/ p + NUM_PAGES < b.start + b.pages
    BY LiveBlock DEF Page
<1>3. ~(b.start <= p)
    <2>1. SUFFICES ASSUME b.start <= p
                   PROVE  FALSE
        OBVIOUS
    <2>2. p < b.start + b.pages
        BY <1>2, <2>1
    <2>3. ASSUME NEW k \in b.start + 1 .. p
          PROVE  page_table[k] = TAIL
        <3>1. k \in Page /\ k # b.start /\ b.start <= k /\ k < b.start + b.pages
            BY <1>2, <2>2 DEF Page
        <3>. QED  BY <1>1, <3>1, LiveBlock
    <2>4. p \in FreedPages(page_table, b.start)
        BY <1>1, <1>2, <2>1, <2>3 DEF FreedPages
    <2>. QED  BY <2>4
<1>4. p < b.start /\ p + NUM_PAGES < b.start + b.pages
    BY <1>2, <1>3
<1>5. ASSUME NEW q \in 0 .. p
      PROVE  q \in PagesOf(b)
    <2>1. q \in Page /\ q + NUM_PAGES < b.start + b.pages
        BY <1>2, <1>4 DEF Page
    <2>. QED  BY <2>1, LiveBlock
<1>6. Wrapped(b)
    BY <1>2, <1>4 DEF Wrapped
<1>. QED  BY <1>4, <1>5, <1>6

(* A page the walk of kfree frees belongs to the block freed: it is in no  *)
(* other block and it is no remnant, for a head precedes it.               *)
LEMMA FreedIsBlock ==
    ASSUME Consistent, NEW b \in live,
           NEW p \in FreedPages(page_table, b.start)
    PROVE  p \in PagesOf(b)
<1>. USE DEF Consistent
<1>1. page_table[b.start] = HEAD
    BY DEF TagsMatchBlocks
<1>2. /\ p \in b.start .. NUM_PAGES - 1
      /\ \A k \in b.start + 1 .. p : page_table[k] = TAIL
    BY <1>1 DEF FreedPages
<1>3. b.start \in PagesOf(b) /\ b.start \in Nat /\ NUM_PAGES \in Nat
    BY LiveBlock
<1>4. SUFFICES ASSUME p \notin PagesOf(b)
               PROVE  FALSE
    OBVIOUS
<1>5. p # b.start /\ p \in Page /\ b.start \in 0 .. p
    BY <1>2, <1>3, <1>4 DEF Page
<1>6. page_table[p] = TAIL
    BY <1>2, <1>3, <1>5
<1>7. \A c \in live : p \notin PagesOf(c)
    BY <1>4, FreedMissesOthers
<1>8. page_table[b.start] = TAIL
    BY <1>5, <1>6, <1>7 DEF OrphansAtTheBottom
<1>. QED  BY <1>1, <1>8 DEF HEAD, TAIL

-----------------------------------------------------------------------------
(* Every step keeps the invariant.                                         *)

(* Before the first kmalloc nothing is held and every tag is free.         *)
LEMMA InitConsistent == Init => Consistent
BY HeapAssumption DEF Init, Consistent, TypeOK, NoOverlap, TagsMatchBlocks,
    OrphansAtTheBottom, InitPageTable, InitLastPageIndex, Page, FREE, HEAD, TAIL

(* kmalloc takes pages that are free, hence in no block held.              *)
LEMMA KmallocConsistent ==
    ASSUME Consistent, NEW size \in Sizes, KmallocOk(size)
    PROVE  Consistent'
<1>. DEFINE n == PagesFor(size)
<1>0. n \in Nat
    BY PagesForType, SizesAssumption
<1>. HIDE DEF n
<1>1. page_table \in [Page -> {FREE, HEAD, TAIL}] /\ last_page_index \in Page
    BY DEF Consistent, TypeOK
<1>2. /\ AllocatePages(page_table, last_page_index, n).addr # NULL
      /\ page_table' = AllocatePages(page_table, last_page_index, n).page_table
      /\ last_page_index' =
            AllocatePages(page_table, last_page_index, n).last_page_index
      /\ live' = live \cup
            {[start |-> AllocatePages(page_table, last_page_index, n).addr,
              pages |-> n]}
    BY DEF KmallocOk, Kmalloc, heap, n
<1>3. PICK a \in Page :
        /\ n \in 1 .. NUM_PAGES
        /\ AllocatePages(page_table, last_page_index, n) =
             [addr |-> a, page_table |-> Tagged(page_table, a, n),
              last_page_index |-> CursorBehind(a, n)]
        /\ \A p \in BlockPages(a, n) : page_table[p] = FREE
        /\ CursorBehind(a, n) \in Page
    BY <1>0, <1>1, <1>2, AllocateFacts
<1>. DEFINE new == [start |-> a, pages |-> n]
<1>4. /\ page_table' = Tagged(page_table, a, n)
      /\ last_page_index' \in Page
      /\ live' = live \cup {new}
    BY <1>2, <1>3
<1>5. /\ PagesOf(new) = BlockPages(a, n)
      /\ a \in PagesOf(new)
      /\ new.start = a /\ new.pages = n
      /\ PagesOf(new) \subseteq Page
    BY <1>3, BlockPagesFacts DEF PagesOf
<1>. HIDE DEF new
<1>6. /\ page_table' \in [Page -> {FREE, HEAD, TAIL}]
      /\ page_table'[a] = HEAD
      /\ \A p \in PagesOf(new) \ {a} : page_table'[p] = TAIL
      /\ \A p \in Page \ PagesOf(new) : page_table'[p] = page_table[p]
    BY <1>1, <1>4, <1>5 DEF Tagged
<1>7. \A p \in PagesOf(new) : page_table[p] = FREE
    BY <1>3, <1>5
<1>8. ASSUME NEW b \in live
      PROVE  /\ PagesOf(b) \cap PagesOf(new) = {}
             /\ b.start \in PagesOf(b)
             /\ PagesOf(b) \subseteq Page
             /\ page_table[b.start] = HEAD
             /\ \A p \in PagesOf(b) \ {b.start} : page_table[p] = TAIL
    <2>1. /\ b.start \in PagesOf(b)
          /\ PagesOf(b) \subseteq Page
          /\ page_table[b.start] = HEAD
          /\ \A p \in PagesOf(b) \ {b.start} : page_table[p] = TAIL
        BY LiveBlock DEF Consistent, TagsMatchBlocks
    <2>. QED  BY <2>1, <1>7 DEF FREE, HEAD, TAIL
<1>9. TypeOK'
    BY <1>3, <1>4, <1>5, <1>6 DEF Consistent, TypeOK
<1>10. NoOverlap'
    <2>1. \A x, y \in live : x # y => PagesOf(x) \cap PagesOf(y) = {}
        BY DEF Consistent, NoOverlap
    <2>2. \A x, y \in live' : x # y => PagesOf(x) \cap PagesOf(y) = {}
        BY <2>1, <1>4, <1>8
    <2>. QED  BY <2>2 DEF NoOverlap
<1>11. TagsMatchBlocks'
    <2>1. ASSUME NEW b \in live'
          PROVE  /\ page_table'[b.start] = HEAD
                 /\ \A p \in PagesOf(b) \ {b.start} : page_table'[p] = TAIL
        <3>1. CASE b = new
            BY <3>1, <1>5, <1>6
        <3>2. CASE b \in live
            BY <3>2, <1>6, <1>8
        <3>. QED  BY <1>4, <3>1, <3>2
    <2>2. ASSUME NEW p \in Page, page_table'[p] = HEAD
          PROVE  \E b \in live' : b.start = p
        <3>1. CASE p \in PagesOf(new)
            <4>1. p = a
                BY <2>2, <3>1, <1>6 DEF HEAD, TAIL
            <4>. QED  BY <4>1, <1>4, <1>5
        <3>2. CASE p \notin PagesOf(new)
            BY <2>2, <3>2, <1>4, <1>6 DEF Consistent, TagsMatchBlocks
        <3>. QED  BY <3>1, <3>2
    <2>. QED  BY <2>1, <2>2 DEF TagsMatchBlocks
<1>12. OrphansAtTheBottom'
    <2>1. ASSUME NEW p \in Page, page_table'[p] = TAIL,
                 \A b \in live' : p \notin PagesOf(b),
                 NEW q \in 0 .. p
          PROVE  page_table'[q] = TAIL
        <3>1. p \notin PagesOf(new) /\ page_table[p] = TAIL
            BY <2>1, <1>4, <1>6
        <3>2. page_table[q] = TAIL
            BY <2>1, <3>1, <1>4 DEF Consistent, OrphansAtTheBottom
        <3>3. q \in Page
            BY HeapAssumption DEF Page
        <3>4. q \notin PagesOf(new)
            BY <3>2, <1>7 DEF FREE, TAIL
        <3>. QED  BY <3>2, <3>3, <3>4, <1>6
    <2>. QED  BY <2>1 DEF OrphansAtTheBottom
<1>. QED  BY <1>9, <1>10, <1>11, <1>12 DEF Consistent

(* kfree leaves the pages of the other blocks alone, and of its own leaves *)
(* at most the lowest pages of the table behind.                           *)
LEMMA KfreeConsistent ==
    ASSUME Consistent, NEW b \in live, KfreeBlock(b)
    PROVE  Consistent'
<1>. DEFINE F == FreedPages(page_table, b.start)
<1>1. /\ page_table' = [p \in Page |-> IF p \in F THEN FREE ELSE page_table[p]]
      /\ live' = live \ {b}
      /\ last_page_index' = last_page_index
    BY DEF KfreeBlock, Kfree
<1>. HIDE DEF F
<1>2. /\ page_table \in [Page -> {FREE, HEAD, TAIL}]
      /\ last_page_index \in Page
    BY DEF Consistent, TypeOK
<1>3. /\ \A p \in Page \ F : page_table'[p] = page_table[p]
      /\ \A p \in Page \cap F : page_table'[p] = FREE
    BY <1>1
<1>4. \A c \in live' : PagesOf(c) \cap F = {}
    BY <1>1, FreedMissesOthers DEF F
<1>5. b.start \in F
    <2>1. page_table[b.start] = HEAD /\ b.start \in Nat /\ NUM_PAGES \in Nat
          /\ b.start < NUM_PAGES
        BY LiveBlock DEF Consistent, TagsMatchBlocks
    <2>. QED  BY <2>1 DEF F, FreedPages
<1>6. TypeOK'
    BY <1>1, <1>2 DEF Consistent, TypeOK
<1>7. NoOverlap'
    BY <1>1 DEF Consistent, NoOverlap, PagesOf
<1>8. TagsMatchBlocks'
    <2>1. ASSUME NEW c \in live'
          PROVE  /\ page_table'[c.start] = HEAD
                 /\ \A p \in PagesOf(c) \ {c.start} : page_table'[p] = TAIL
        <3>1. c \in live /\ c.start \in PagesOf(c) /\ PagesOf(c) \subseteq Page
            BY <1>1, LiveBlock DEF Consistent
        <3>2. /\ page_table[c.start] = HEAD
              /\ \A p \in PagesOf(c) \ {c.start} : page_table[p] = TAIL
            BY <3>1 DEF Consistent, TagsMatchBlocks
        <3>. QED  BY <3>1, <3>2, <1>3, <1>4
    <2>2. ASSUME NEW p \in Page, page_table'[p] = HEAD
          PROVE  \E c \in live' : c.start = p
        <3>1. p \notin F /\ page_table[p] = HEAD
            BY <2>2, <1>3 DEF FREE, HEAD
        <3>2. PICK c \in live : c.start = p
            BY <3>1 DEF Consistent, TagsMatchBlocks
        <3>. QED  BY <3>1, <3>2, <1>1, <1>5
    <2>. QED  BY <2>1, <2>2 DEF TagsMatchBlocks, PagesOf
<1>9. OrphansAtTheBottom'
    <2>1. ASSUME NEW p \in Page, page_table'[p] = TAIL,
                 \A c \in live' : p \notin PagesOf(c),
                 NEW q \in 0 .. p
          PROVE  page_table'[q] = TAIL
        <3>1. p \notin F /\ page_table[p] = TAIL
            BY <2>1, <1>3 DEF FREE, TAIL
        <3>2. /\ q \in Page /\ q \in Nat /\ p \in Nat /\ q <= p
              /\ b.start \in Nat /\ page_table[b.start] = HEAD
              /\ NUM_PAGES \in Nat /\ b.start < NUM_PAGES
            BY HeapAssumption, LiveBlock DEF Page, Consistent, TagsMatchBlocks
        <3>3. p < b.start /\ page_table[q] = TAIL
            <4>1. CASE p \in PagesOf(b)
                <5>1. p < b.start /\ q \in PagesOf(b)
                    BY <3>1, <4>1, FreedCoversBlock DEF F
                <5>2. q # b.start
                    BY <3>2, <5>1
                <5>. QED  BY <5>1, <5>2 DEF Consistent, TagsMatchBlocks
            <4>2. CASE p \notin PagesOf(b)
                <5>1. \A k \in 0 .. p : page_table[k] = TAIL
                    BY <2>1, <3>1, <4>2, <1>1 DEF Consistent, OrphansAtTheBottom
                <5>2. b.start \notin 0 .. p
                    BY <5>1, <3>2 DEF HEAD, TAIL
                <5>. QED  BY <5>1, <5>2, <3>2
            <4>. QED  BY <4>1, <4>2
        <3>4. q \notin F
            <4>1. q < b.start
                BY <3>2, <3>3
            <4>. QED  BY <4>1, <3>2 DEF F, FreedPages
        <3>. QED  BY <3>2, <3>3, <3>4, <1>3
    <2>. QED  BY <2>1 DEF OrphansAtTheBottom, PagesOf
<1>. QED  BY <1>6, <1>7, <1>8, <1>9 DEF Consistent

(* kmalloc and kfree keep the invariant.                                   *)
LEMMA NextConsistent == Consistent /\ [Next]_vars => Consistent'
<1>1. SUFFICES ASSUME Consistent, [Next]_vars
               PROVE  Consistent'
    OBVIOUS
<1>2. ASSUME UNCHANGED vars
      PROVE  Consistent'
    BY <1>1, <1>2 DEF vars, Consistent, TypeOK, NoOverlap, TagsMatchBlocks,
        OrphansAtTheBottom, PagesOf
<1>3. ASSUME NEW size \in Sizes, KmallocOk(size)
      PROVE  Consistent'
    BY <1>1, <1>3, KmallocConsistent
<1>4. ASSUME NEW size \in Sizes, KmallocNull(size)
      PROVE  Consistent'
    BY <1>2, <1>4 DEF KmallocNull
<1>5. ASSUME NEW b \in live, KfreeBlock(b)
      PROVE  Consistent'
    BY <1>1, <1>5, KfreeConsistent
<1>. QED  BY <1>1, <1>2, <1>3, <1>4, <1>5 DEF Next

(* The heap of memory.c is consistent whatever kmalloc and kfree calls a   *)
(* client makes.                                                           *)
THEOREM AlwaysConsistent == Spec => []Consistent
BY InitConsistent, NextConsistent, PTL DEF Spec

(* Tags, cursor and blocks stay in the ranges of the page table.           *)
THEOREM TypeCorrect == Spec => []TypeOK
<1>1. Consistent => TypeOK
    BY DEF Consistent
<1>. QED  BY <1>1, AlwaysConsistent, PTL

(* kmalloc never hands out a page of a block that is still held.           *)
THEOREM BlocksApart == Spec => []NoOverlap
<1>1. Consistent => NoOverlap
    BY DEF Consistent
<1>. QED  BY <1>1, AlwaysConsistent, PTL

(* The tags kfree walks over describe the blocks held.                     *)
THEOREM TagsExact == Spec => []TagsMatchBlocks
<1>1. Consistent => TagsMatchBlocks
    BY DEF Consistent
<1>. QED  BY <1>1, AlwaysConsistent, PTL

(* Tail tags a wrapped block left behind have no head below them.          *)
THEOREM OrphansHarmless == Spec => []OrphansAtTheBottom
<1>1. Consistent => OrphansAtTheBottom
    BY DEF Consistent
<1>. QED  BY <1>1, AlwaysConsistent, PTL

-----------------------------------------------------------------------------
(* What kfree gives back.                                                  *)

(* From a consistent heap, a step frees no page outside the block given    *)
(* back.                                                                   *)
LEMMA StepFreesOwnPages == Consistent /\ [Next]_vars => [FreesOwnPages]_vars
<1>1. SUFFICES ASSUME Consistent, Next, NEW b \in live, b \notin live',
                      ~Wrapped(b)
               PROVE  {p \in Page : page_table'[p] = FREE} =
                      {p \in Page : page_table[p] = FREE} \cup PagesOf(b)
    BY DEF FreesOwnPages
<1>2. KfreeBlock(b)
    <2>1. ASSUME NEW size \in Sizes, KmallocOk(size)
          PROVE  b \in live'
        BY <2>1 DEF KmallocOk
    <2>2. ASSUME NEW size \in Sizes, KmallocNull(size)
          PROVE  b \in live'
        BY <2>2 DEF KmallocNull, vars
    <2>3. ASSUME NEW c \in live, KfreeBlock(c), c # b
          PROVE  b \in live'
        BY <2>3 DEF KfreeBlock
    <2>. QED  BY <1>1, <2>1, <2>2, <2>3 DEF Next
<1>. DEFINE F == FreedPages(page_table, b.start)
<1>3. page_table' = [p \in Page |-> IF p \in F THEN FREE ELSE page_table[p]]
    BY <1>2 DEF KfreeBlock, Kfree
<1>4. F = PagesOf(b)
    BY <1>1, FreedIsBlock, FreedCoversBlock
<1>5. PagesOf(b) \subseteq Page
    BY <1>1, LiveBlock DEF Consistent
<1>. HIDE DEF F
<1>. QED  BY <1>3, <1>4, <1>5

(* kfree of a block that does not wrap gives back its pages and no others. *)
THEOREM KfreeGivesBackItsBlock == Spec => KfreeExact
<1>. QED  BY AlwaysConsistent, StepFreesOwnPages, PTL DEF Spec, KfreeExact
=============================================================================
