------------------------------ MODULE MCPaging ------------------------------
(***************************************************************************)
(* Three levels of two entries: eight pages.  The kernel is page 1.  Pages *)
(* 2 and 3 are under a huge page of the boot loader, from hhdm_mapping on, *)
(* which holds the top table and a device.  The heap has pages 4 and 5,    *)
(* which need two tables.  A device is asked for at page 6 and one at page *)
(* 3, under the huge page: from there on the search for a free page meets  *)
(* the heap.                                                               *)
(***************************************************************************)
EXTENDS Paging, TLC

CONSTANTS p2, p1

FrameSymmetry == Permutations(RAM)

MCBootTables == [l \in 1 .. 2 |-> IF l = 1 THEN p1 ELSE p2]

MCHuge == [h \in {<<p2, 1>>} |-> 0]

MCDirect == [v \in Pages |-> IF v = HHDM THEN Root ELSE 12]

MCRequests == {<<6, 11>>, <<3, 12>>}
=============================================================================
