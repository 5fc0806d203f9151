--------------------------- MODULE MCLiballocIsr ---------------------------
(* The same heap with an interrupt handler that allocates: the keyboard     *)
(* handler reaches krealloc through the shell's push_char.  It frees        *)
(* nothing here; allocating is enough.                                      *)
EXTENDS Liballoc

MCHeapPages == 1 .. 5
MCSizes == {1, 5, 8}
MCCallers == {"main", "isr"}

AllocatesOnly == call'["isr"].pc \in {"idle", "take", "place"}

IsrSpec == LibInit /\ [][LibNext /\ AllocatesOnly]_libVars
=============================================================================
