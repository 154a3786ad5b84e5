--------------------------- MODULE MCPageAllocator ---------------------------
(* Requests of one, two and three pages of a seven-page heap, and one that  *)
(* overflows size_t into a request of no page: enough for a                 *)
(* block of each size to wrap, to be freed and to meet its neighbours.      *)
EXTENDS PageAllocator

MCSizes == {3, 4, 8, 63}
=============================================================================
