------------------------ MODULE MCListAllocatorLarge ------------------------
(* The initial heap of 4 pages and requests of 2, 3 and 5 pages: the minimum, *)
(* one that does not halve the region, and one that makes the heap grow.     *)
EXTENDS ListAllocator

MCHeapStart == 3
MCInitialPages == 4
MCRequestSizes == {2, 3, 5}
MCFrameSupply == 5 + 2 * 6
=============================================================================
