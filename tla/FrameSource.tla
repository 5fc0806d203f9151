---------------------------- MODULE FrameSource ----------------------------
(***************************************************************************)
(* What the rest of the kernel relies on when it calls allocate_frame():    *)
(* each call returns a whole frame of usable physical memory that was never *)
(* returned before, and the kernel panics only when no such frame is left.  *)
(*                                                                         *)
(* FrameAllocator is shown to implement this specification.                 *)
(***************************************************************************)
VARIABLES
  pool,       \* the frames of usable memory; fixed by the boot loader's map
  given,      \* the frames returned so far
  exhausted   \* the kernel panicked: "Could not find a free entry"

vars == <<pool, given, exhausted>>

Init ==
  /\ given = {}
  /\ exhausted \in BOOLEAN
  /\ exhausted => pool = {}

(* One call that returns frame f. *)
Take(f) ==
  /\ ~exhausted
  /\ f \in pool \ given
  /\ given' = given \union {f}
  /\ pool' = pool
  /\ UNCHANGED exhausted

(* One call that finds no frame. *)
Exhaust ==
  /\ ~exhausted
  /\ pool \subseteq given
  /\ exhausted' = TRUE
  /\ pool' = pool
  /\ UNCHANGED given

Next == (\E f \in pool : Take(f)) \/ Exhaust

Spec == Init /\ [][Next]_vars
=============================================================================
