------------------------------- MODULE Memory -------------------------------
(***************************************************************************)
(* The kernel heap of memory/memory.c as functions of its state: page_table *)
(* holds one tag per page of kernel_memory and last_page_index is the       *)
(* cursor of the next-fit search.  A block is named by its first page: the  *)
(* address kmalloc returns is &kernel_memory[page * PAGE_SIZE] plus the     *)
(* header, so page and address determine each other.                       *)
(***************************************************************************)
EXTENDS Least

CONSTANTS NUM_PAGES,   (* pages of kernel_memory: 4096 in the source        *)
          PAGE_SIZE,   (* bytes of a page: 4096                             *)
          HEADER,      (* sizeof(memory_block_t): 8                         *)
          SIZE_MOD     (* size_t holds 0 .. SIZE_MOD-1: 2^32                *)

ASSUME HeapAssumption ==
    /\ NUM_PAGES \in Nat \ {0}
    /\ PAGE_SIZE \in Nat \ {0}
    /\ HEADER \in Nat
    /\ SIZE_MOD \in Nat \ {0}

Page == 0 .. NUM_PAGES - 1
NULL == -1

FREE == 0
HEAD == 1
TAIL == 2

(* The tags and the cursor memory_init leaves behind.                      *)
InitPageTable == [p \in Page |-> FREE]
InitLastPageIndex == 0

-----------------------------------------------------------------------------

(* The j-th page after page p, around the end of the page table.           *)
Index(p, j) == (p + j) % NUM_PAGES

(* Pages a request of size bytes takes, header included, in size_t         *)
(* arithmetic.                                                             *)
PagesFor(size) ==
    LET total_size == (size + HEADER) % SIZE_MOD
    IN  ((total_size + PAGE_SIZE - 1) % SIZE_MOD) \div PAGE_SIZE

FitsAllButOne(pt, last, n) ==
    {i \in 0 .. NUM_PAGES - n :
        n > 0 /\ \A j \in 0 .. n - 2 : pt[Index(last, i + j)] = FREE}

(* Distances from the cursor at which the scan of allocate_pages finds n   *)
(* consecutive free pages.  The scan visits each page once, so a run that  *)
(* begins before the cursor and ends after it is never seen whole.  The    *)
(* match is tested after count++, so no run of 0 pages is ever found.      *)
Fits(pt, last, n) ==
    {i \in 0 .. NUM_PAGES - n :
        n > 0 /\ \A j \in 0 .. n - 1 : pt[Index(last, i + j)] = FREE}

(* Pages of the block of n pages that starts at page a.                    *)
BlockPages(a, n) == {Index(a, j) : j \in 0 .. n - 1}

(* The page table with the block of n pages at page a tagged.              *)
TaggedAllHeads(pt, a, n) ==
    [p \in Page |-> IF p \in BlockPages(a, n) THEN HEAD ELSE pt[p]]

Tagged(pt, a, n) ==
    [p \in Page |-> IF p = a THEN HEAD
                    ELSE IF p \in BlockPages(a, n) THEN TAIL ELSE pt[p]]

(* The cursor behind that block.                                           *)
CursorPastEnd(a, n) == a + n

CursorBehind(a, n) == Index(a, n)

(* allocate_pages: the block's first page (NULL if there is none) with the *)
(* page table and the cursor the call leaves.                              *)
AllocatePages(pt, last, n) ==
    IF Fits(pt, last, n) = {}
    THEN [addr |-> NULL, page_table |-> pt, last_page_index |-> last]
    ELSE LET first == CHOOSE i \in Fits(pt, last, n) :
                         IsLeast(i, Fits(pt, last, n))
             found_start == Index(last, first)
         IN  [addr            |-> found_start,
              page_table      |-> Tagged(pt, found_start, n),
              last_page_index |-> CursorBehind(found_start, n)]

(* kmalloc: a request in bytes, from the heap h a previous call left.      *)
Kmalloc(h, size) ==
    AllocatePages(h.page_table, h.last_page_index, PagesFor(size))

FreedHeadOnly(pt, a) == {a}

(* Pages kfree gives back for a block whose first page is a: the head and  *)
(* the tail pages that follow it, up to the end of the table.              *)
FreedPages(pt, a) ==
    IF pt[a] = HEAD
    THEN {p \in a .. NUM_PAGES - 1 : \A k \in a + 1 .. p : pt[k] = TAIL}
    ELSE {}

(* kfree(ptr) for the block at page a.                                     *)
Kfree(pt, a) == [p \in Page |-> IF p \in FreedPages(pt, a) THEN FREE ELSE pt[p]]
=============================================================================
