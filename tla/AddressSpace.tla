---------------------------- MODULE AddressSpace ----------------------------
(***************************************************************************)
(* What paging promises: a partial function from virtual pages to physical *)
(* frames, to begin with the one the boot loader leaves.  A page that is   *)
(* mapped is never mapped again over the top, and a step changes one page  *)
(* and leaves every other page alone.  All this is so until the address    *)
(* space is lost, which paging does not promise never to do.               *)
(***************************************************************************)
EXTENDS Functions

CONSTANTS
  Pages,
  Frames,   \* what a page is mapped to
  Loaded    \* what the boot loader may have mapped a page to

VARIABLES
  space,    \* the frame of each mapped page
  lost      \* the space may be anything

Init == lost = FALSE /\ \E S \in SUBSET Pages : space \in [S -> Loaded]

(* One page more, or one page less. *)
Grown(before, after) ==
  \E v \in DOMAIN after \ DOMAIN before :
    /\ DOMAIN after = DOMAIN before \union {v}
    /\ v \in Pages /\ after[v] \in Frames
    /\ Restrict(after, DOMAIN before) = before

Shrunk(before, after) ==
  \E v \in DOMAIN before \ DOMAIN after : after = Restrict(before, DOMAIN before \ {v})

Map == Grown(space, space') /\ UNCHANGED lost

Unmap == Shrunk(space, space') /\ UNCHANGED lost

Lose == lost'

Next == Map \/ Unmap \/ Lose

Spec == Init /\ [][Next]_<<space, lost>>
=============================================================================
