---------------------------- MODULE PageProvider ----------------------------
(***************************************************************************)
(* What liballoc.h (lines 49-66) asks of liballoc_alloc and liballoc_free,  *)
(* the hooks through which malloc gets its pages: a block of the requested  *)
(* number of mapped pages that overlaps no block handed out before and not  *)
(* yet returned.  ListAllocator is compared with this specification and     *)
(* Liballoc is built on top of it.                                          *)
(***************************************************************************)
EXTENDS Integers

Block == [start : Nat, pages : Nat]

Span(b) == b.start .. (b.start + b.pages - 1)

Disjoint(b, c) == b.start + b.pages <= c.start \/ c.start + c.pages <= b.start

VARIABLES
  live,    \* the blocks handed out and not returned
  mapped   \* the heap pages that are mapped

vars == <<live, mapped>>

Init == live = {} /\ mapped \subseteq Nat

(* liballoc_alloc returns block b; the heap may have to grow for it. *)
Alloc(b) ==
  /\ \A c \in live : Disjoint(b, c)
  /\ live' = live \union {b}
  /\ mapped \subseteq mapped'
  /\ Span(b) \subseteq mapped'

(* liballoc_free takes block b back. *)
Free(b) ==
  /\ b \in live
  /\ live' = live \ {b}
  /\ UNCHANGED mapped

Next == (\E b \in live' \ live : Alloc(b)) \/ (\E b \in live : Free(b))

Spec == Init /\ [][Next]_vars
=============================================================================
