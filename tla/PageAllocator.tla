---------------------------- MODULE PageAllocator ----------------------------
(***************************************************************************)
(* The heap of memory/memory.c under a client that calls kmalloc with any   *)
(* size of Sizes and kfree with any block it holds, in any order.  The      *)
(* kernel's own call pattern, which is much narrower, is module Processes.  *)
(***************************************************************************)
EXTENDS Memory, FiniteSets

CONSTANT Sizes         (* request sizes in bytes                            *)

ASSUME SizesAssumption == Sizes \subseteq 0 .. SIZE_MOD - 1

VARIABLES page_table, last_page_index,
          live         (* the blocks the client holds (history variable)    *)

vars == <<page_table, last_page_index, live>>

heap == [page_table |-> page_table, last_page_index |-> last_page_index]

Init ==
    /\ page_table = InitPageTable
    /\ last_page_index = InitLastPageIndex
    /\ live = {}

(* kmalloc(size) that finds room.                                          *)
KmallocOk(size) ==
    LET h == Kmalloc(heap, size)
    IN  /\ h.addr # NULL
        /\ page_table' = h.page_table
        /\ last_page_index' = h.last_page_index
        /\ live' = live \cup {[start |-> h.addr, pages |-> PagesFor(size)]}

(* kmalloc(size) that returns NULL: nothing changes.                       *)
KmallocNull(size) ==
    /\ Kmalloc(heap, size).addr = NULL
    /\ UNCHANGED vars

(* kfree(ptr) of a block the client holds; the cursor stays.               *)
KfreeBlock(b) ==
    /\ page_table' = Kfree(page_table, b.start)
    /\ live' = live \ {b}
    /\ UNCHANGED last_page_index

Next ==
    \/ \E size \in Sizes : KmallocOk(size)
    \/ \E size \in Sizes : KmallocNull(size)
    \/ \E b \in live : KfreeBlock(b)

Spec == Init /\ [][Next]_vars

-----------------------------------------------------------------------------

PagesOf(b) == BlockPages(b.start, b.pages)

(* A block that runs past the last page and goes on at page 0.             *)
Wrapped(b) == b.start + b.pages > NUM_PAGES

(* The state stays in the ranges the C types and the array bounds give it. *)
TypeOK ==
    /\ page_table \in [Page -> {FREE, HEAD, TAIL}]
    /\ last_page_index \in Page
    /\ \A b \in live : b.start \in Page /\ b.pages \in 1 .. NUM_PAGES

(* Two blocks held at the same time never share a page: allocate_pages     *)
(* hands out only pages no kmalloc before it still owns, whatever kfree    *)
(* calls came between.                                                     *)
NoOverlap ==
    \A a, b \in live : a # b => PagesOf(a) \cap PagesOf(b) = {}

(* The tags record the blocks held, as kfree needs them: the first page of *)
(* each is a head and its other pages are tails, and every head page is    *)
(* the first page of a block held.                                         *)
TagsMatchBlocks ==
    /\ \A b \in live : /\ page_table[b.start] = HEAD
                       /\ \A p \in PagesOf(b) \ {b.start} : page_table[p] = TAIL
    /\ \A p \in Page : page_table[p] = HEAD => \E b \in live : b.start = p

(* A tail page that no block held contains is a remnant of a freed block   *)
(* that wrapped.  It can mislead no later kfree: every page below it is a  *)
(* tail too, so no head precedes it.                                       *)
OrphansAtTheBottom ==
    \A p \in Page :
        page_table[p] = TAIL /\ (\A b \in live : p \notin PagesOf(b))
            => \A q \in 0 .. p : page_table[q] = TAIL

(* The pages a step frees are those of the unwrapped block it frees.       *)
FreesOwnPages ==
    \A b \in live \ live' :
        ~Wrapped(b) =>
            {p \in Page : page_table'[p] = FREE} =
            {p \in Page : page_table[p] = FREE} \cup PagesOf(b)

(* Freeing a block that does not wrap frees exactly its pages: the walk of *)
(* kfree over tail tags neither stops early nor runs into a neighbour or   *)
(* into a tail some wrapped block left behind.                             *)
KfreeExact == [][FreesOwnPages]_vars
=============================================================================
