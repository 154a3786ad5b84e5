--------------------------- MODULE Memory_proofs ---------------------------
(***************************************************************************)
(* What kmalloc and kfree do to the page table, for every number of pages,  *)
(* page size and request: the lemmas the proofs about the heap's clients    *)
(* cite.                                                                   *)
(***************************************************************************)
EXTENDS Memory, Least_proofs, TLAPS

-----------------------------------------------------------------------------
(* Page arithmetic.                                                        *)

(* The wrap-around of page indices, without the remainder.                 *)
LEMMA IndexFacts ==
    ASSUME NEW p \in Page, NEW j \in 0 .. NUM_PAGES
    PROVE  /\ Index(p, j) = IF p + j < NUM_PAGES THEN p + j
                                                  ELSE p + j - NUM_PAGES
           /\ Index(p, j) \in Page
<1>. DEFINE N == NUM_PAGES
            x == p + j
<1>1. N \in Nat \ {0} /\ p \in 0 .. N - 1 /\ j \in 0 .. N
    BY HeapAssumption DEF Page
<1>2. x \in 0 .. 2 * N - 1
    BY <1>1
<1>3. x % N = IF x < N THEN x ELSE x - N
    <2>. HIDE DEF x, N
    <2>1. CASE x < N
        BY <1>1, <1>2, <2>1
    <2>2. CASE x >= N
        <3>. DEFINE d == x \div N
                    r == x % N
        <3>1. d \in Int /\ r \in 0 .. N - 1 /\ x = N * d + r
            BY <1>1, <1>2
        <3>. HIDE DEF d, r
        <3>2. d >= 1
            BY <1>1, <1>2, <2>2, <3>1
        <3>3. d < 2
            BY <1>1, <1>2, <2>2, <3>1
        <3>4. d = 1
            BY <3>1, <3>2, <3>3
        <3>5. r = x - N
            BY <1>1, <1>2, <3>1, <3>4
        <3>. QED  BY <2>2, <3>5, <1>1, <1>2 DEF r
    <2>. QED  BY <1>1, <1>2, <2>1, <2>2
<1>. QED  BY <1>1, <1>2, <1>3 DEF Index, Page

(* The pages of a block: the ones from its start on, and the ones at the   *)
(* bottom of the table it wraps into.                                      *)
LEMMA BlockPagesFacts ==
    ASSUME NEW a \in Page, NEW n \in 1 .. NUM_PAGES
    PROVE  /\ BlockPages(a, n) =
                {p \in Page : (a <= p /\ p < a + n) \/ p + NUM_PAGES < a + n}
           /\ a \in BlockPages(a, n)
<1>. DEFINE S == {p \in Page : (a <= p /\ p < a + n) \/ p + NUM_PAGES < a + n}
<1>0. NUM_PAGES \in Nat /\ a \in Nat /\ n \in Nat /\ a < NUM_PAGES
      /\ 1 <= n /\ n <= NUM_PAGES
    BY HeapAssumption DEF Page
<1>1. ASSUME NEW j \in 0 .. n - 1
      PROVE  Index(a, j) \in S
    <2>1. j \in 0 .. NUM_PAGES
        BY <1>0
    <2>2. /\ Index(a, j) = IF a + j < NUM_PAGES THEN a + j
                                                 ELSE a + j - NUM_PAGES
          /\ Index(a, j) \in Page
        BY <2>1, IndexFacts
    <2>. QED  BY <1>0, <2>2
<1>2. ASSUME NEW p \in S
      PROVE  \E j \in 0 .. n - 1 : p = Index(a, j)
    <2>0. p \in Nat /\ p < NUM_PAGES
        BY <1>0 DEF Page
    <2>1. CASE a <= p /\ p < a + n
        <3>1. p - a \in 0 .. n - 1 /\ p - a \in 0 .. NUM_PAGES
            BY <1>0, <2>0, <2>1
        <3>2. Index(a, p - a) = p
            BY <3>1, <1>0, <2>0, IndexFacts
        <3>. QED  BY <3>1, <3>2
    <2>2. CASE p + NUM_PAGES < a + n
        <3>. DEFINE j == p + NUM_PAGES - a
        <3>1. j \in 0 .. n - 1 /\ j \in 0 .. NUM_PAGES /\ ~(a + j < NUM_PAGES)
              /\ a + j - NUM_PAGES = p
            BY <1>0, <2>0, <2>2
        <3>2. Index(a, j) = p
            BY <3>1, IndexFacts
        <3>. QED  BY <3>1, <3>2
    <2>. QED  BY <2>1, <2>2
<1>3. BlockPages(a, n) = S
    BY <1>1, <1>2 DEF BlockPages
<1>. QED  BY <1>0, <1>3

-----------------------------------------------------------------------------
(* What kmalloc and kfree do to the tags.                                  *)

(* A request for any size is a whole number of pages.                      *)
LEMMA PagesForType ==
    ASSUME NEW size \in Nat
    PROVE  PagesFor(size) \in Nat
<1>. DEFINE t == (size + HEADER) % SIZE_MOD
            u == (t + PAGE_SIZE - 1) % SIZE_MOD
<1>2. t \in Nat
    BY HeapAssumption
<1>. HIDE DEF t
<1>3. u \in Nat
    BY <1>2, HeapAssumption
<1>. HIDE DEF u
<1>4. u \div PAGE_SIZE \in Nat
    BY <1>3, HeapAssumption
<1>. QED  BY <1>4 DEF PagesFor, t, u

(* allocate_pages returns a block of free pages, or NULL.                  *)
LEMMA AllocateFacts ==
    ASSUME NEW pt \in [Page -> {FREE, HEAD, TAIL}], NEW last \in Page,
           NEW n \in Nat,
           AllocatePages(pt, last, n).addr # NULL
    PROVE  \E a \in Page :
             /\ n \in 1 .. NUM_PAGES
             /\ AllocatePages(pt, last, n) =
                  [addr |-> a, page_table |-> Tagged(pt, a, n),
                   last_page_index |-> CursorBehind(a, n)]
             /\ \A p \in BlockPages(a, n) : pt[p] = FREE
             /\ CursorBehind(a, n) \in Page
<1>. DEFINE F == Fits(pt, last, n)
            i == CHOOSE k \in F : IsLeast(k, F)
            a == Index(last, i)
<1>0. NUM_PAGES \in Nat \ {0}
    BY HeapAssumption
<1>1. F # {}
    BY DEF AllocatePages
<1>2. F \in SUBSET Nat
    BY <1>0 DEF Fits
<1>3. i \in F
    <2>1. \E k \in F : IsLeast(k, F)
        BY <1>1, <1>2, LeastExists
    <2>. QED  BY <2>1
<1>4. AllocatePages(pt, last, n) =
        [addr |-> a, page_table |-> Tagged(pt, a, n),
         last_page_index |-> CursorBehind(a, n)]
    BY <1>1 DEF AllocatePages
<1>. HIDE DEF i
<1>5. /\ i \in 0 .. NUM_PAGES - n
      /\ n > 0
      /\ \A j \in 0 .. n - 1 : pt[Index(last, i + j)] = FREE
    BY <1>3 DEF Fits
<1>6. n \in 1 .. NUM_PAGES /\ i \in 0 .. NUM_PAGES
    BY <1>0, <1>5
<1>7. a \in Page /\ a = IF last + i < NUM_PAGES THEN last + i
                                                ELSE last + i - NUM_PAGES
    BY <1>6, IndexFacts
<1>. HIDE DEF a, F
<1>8. ASSUME NEW j \in 0 .. n - 1
      PROVE  pt[Index(a, j)] = FREE
    <2>1. i + j \in 0 .. NUM_PAGES /\ j \in 0 .. NUM_PAGES
        BY <1>0, <1>5, <1>6
    <2>2. Index(last, i + j) = IF last + (i + j) < NUM_PAGES
                               THEN last + (i + j)
                               ELSE last + (i + j) - NUM_PAGES
        BY <2>1, IndexFacts
    <2>3. Index(a, j) = IF a + j < NUM_PAGES THEN a + j ELSE a + j - NUM_PAGES
        BY <2>1, <1>7, IndexFacts
    <2>4. i + j < NUM_PAGES /\ last < NUM_PAGES /\ last \in Nat /\ j \in Nat
          /\ i \in Nat
        BY <1>0, <1>5 DEF Page
    <2>5. Index(a, j) = Index(last, i + j)
        BY <1>0, <1>7, <2>2, <2>3, <2>4
    <2>. QED  BY <1>5, <2>5
<1>9. \A p \in BlockPages(a, n) : pt[p] = FREE
    BY <1>8 DEF BlockPages
<1>10. CursorBehind(a, n) \in Page
    BY <1>6, <1>7, IndexFacts DEF CursorBehind
<1>. QED  BY <1>4, <1>6, <1>7, <1>9, <1>10

Tags == {FREE, HEAD, TAIL}

(* allocate_pages either leaves the heap alone and returns NULL, or tags n *)
(* pages that were free.                                                   *)
LEMMA AllocateCases ==
    ASSUME NEW pt \in [Page -> Tags], NEW last \in Page, NEW n \in Nat,
           NEW h, h = AllocatePages(pt, last, n)
    PROVE  /\ h.page_table \in [Page -> Tags]
           /\ h.last_page_index \in Page
           /\ h.addr \in Page \cup {NULL}
           /\ h.addr = NULL => h.page_table = pt /\ h.last_page_index = last
           /\ h.addr # NULL => /\ n \in 1 .. NUM_PAGES
                               /\ pt[h.addr] = FREE
                               /\ h.page_table[h.addr] = HEAD
                               /\ h.page_table = Tagged(pt, h.addr, n)
           /\ \A p \in Page : pt[p] # FREE => h.page_table[p] = pt[p]
<1>1. CASE h.addr = NULL
    <2>1. Fits(pt, last, n) = {}
        <3>1. SUFFICES ASSUME Fits(pt, last, n) # {}
                       PROVE  FALSE
            OBVIOUS
        <3>2. h.addr = Index(last, CHOOSE i \in Fits(pt, last, n) :
                                      IsLeast(i, Fits(pt, last, n)))
            BY <3>1 DEF AllocatePages
        <3>3. Fits(pt, last, n) \in SUBSET Nat
            BY HeapAssumption DEF Fits
        <3>4. PICK i \in Fits(pt, last, n) : h.addr = Index(last, i)
            BY <3>1, <3>2, <3>3, LeastExists
        <3>5. i \in 0 .. NUM_PAGES
            BY HeapAssumption DEF Fits
        <3>6. h.addr \in Page
            BY <3>4, <3>5, IndexFacts
        <3>. QED  BY <1>1, <3>6, HeapAssumption DEF NULL, Page
    <2>2. h = [addr |-> NULL, page_table |-> pt, last_page_index |-> last]
        BY <2>1 DEF AllocatePages
    <2>. QED  BY <1>1, <2>2
<1>2. CASE h.addr # NULL
    <2>1. PICK a \in Page :
            /\ n \in 1 .. NUM_PAGES
            /\ h = [addr |-> a, page_table |-> Tagged(pt, a, n),
                    last_page_index |-> CursorBehind(a, n)]
            /\ \A p \in BlockPages(a, n) : pt[p] = FREE
            /\ CursorBehind(a, n) \in Page
        BY <1>2, AllocateFacts DEF Tags
    <2>2. a \in BlockPages(a, n)
        BY <2>1, BlockPagesFacts
    <2>3. /\ Tagged(pt, a, n) \in [Page -> Tags]
          /\ Tagged(pt, a, n)[a] = HEAD
          /\ \A p \in Page : pt[p] # FREE => Tagged(pt, a, n)[p] = pt[p]
        BY <2>1, <2>2 DEF Tagged, Tags
    <2>. QED  BY <1>2, <2>1, <2>2, <2>3
<1>. QED  BY <1>1, <1>2

(* kfree gives back the head it is called with and no other head.          *)
LEMMA KfreeKeepsHeads ==
    ASSUME NEW pt \in [Page -> Tags], NEW a \in Page
    PROVE  /\ Kfree(pt, a) \in [Page -> Tags]
           /\ \A p \in Page : p # a /\ pt[p] = HEAD => Kfree(pt, a)[p] = HEAD
           /\ \A p \in Page : Kfree(pt, a)[p] \in {pt[p], FREE}
<1>1. Kfree(pt, a) = [p \in Page |-> IF p \in FreedPages(pt, a) THEN FREE
                                                              ELSE pt[p]]
    BY DEF Kfree
<1>2. ASSUME NEW p \in Page, p # a, p \in FreedPages(pt, a)
      PROVE  pt[p] = TAIL
    <2>1. p \in a .. NUM_PAGES - 1 /\ \A k \in a + 1 .. p : pt[k] = TAIL
        BY <1>2 DEF FreedPages
    <2>2. p \in a + 1 .. p
        BY <1>2, <2>1, HeapAssumption DEF Page
    <2>. QED  BY <2>1, <2>2
<1>3. HEAD # TAIL /\ FREE \in Tags
    BY DEF HEAD, TAIL, FREE, Tags
<1>. QED  BY <1>1, <1>2, <1>3
=============================================================================
