------------------------------ MODULE MCMemory ------------------------------
(***************************************************************************)
(* The three layers of memory management, each under any sequence of calls: *)
(* frames, pages and malloc.  They share no state, and what a layer relies  *)
(* on is the specification that the one below is shown to implement, so a   *)
(* behaviour drives one of them and leaves the others alone.                *)
(***************************************************************************)
EXTENDS FrameAllocator, UniformRequests, Liballoc

VARIABLE which   \* the layer that is driven

(* Memory maps of three entries over addresses 0..16 with two-byte pages:   *)
(* adjacent and separated entries, entries at 0, entries shorter than a     *)
(* page, odd lengths, and any mix of usable and reserved ones.              *)
Shapes == {<<b, l1, g, l2, l3>> : b \in {0, 1, 2}, l1 \in {2, 3, 5},
                                  g \in {0, 1}, l2 \in {0, 1, 4}, l3 \in {0, 3, 4}}

MapOf(s, t) ==
  << [base |-> s[1], length |-> s[2], type |-> t[1]],
     [base |-> s[1] + s[2] + s[3], length |-> s[4], type |-> t[2]],
     [base |-> s[1] + s[2] + s[3] + s[4], length |-> s[5], type |-> t[3]] >>

MCMemoryMaps ==
  {MapOf(s, t) : s \in Shapes, t \in [1..3 -> {USABLE, RESERVED}]}

(* Every request for pages takes liballoc's minimum and the initial heap is *)
(* twice that, as in the code (16 and 32 pages), scaled to 2 and 4 pages;   *)
(* memory for four growths of the heap.                                     *)
MCRequestSizes == {2}
MCFrameSupply == 5 + 4 * 3

(* One caller of malloc.  Tags of 1 byte, a quantum of 4 bytes and blocks   *)
(* of at least two pages of 8 bytes keep the order of the code's sizes; the *)
(* requests fall into both small lists and into a block of its own size.    *)
MCHeapPages == 1 .. 5
MCSizes == {1, 5, 8, 17}
MCCallers == {"main"}

OneMap == MapOf(<<0, 2, 0, 0, 0>>, [e \in 1..3 |-> USABLE])

MCInit ==
  /\ Init /\ LibInit
  /\ \/ which = "frames" /\ FaInit
     \/ which \in {"pages", "malloc"} /\ frames = <<>> /\ InitFirst(OneMap, 1)

MCNext ==
  \/ which = "frames" /\ FaNext /\ UNCHANGED <<vars, libVars>>
  \/ which = "pages" /\ Next /\ UNCHANGED <<faVars, libVars>>
  \/ which = "malloc" /\ LibNext /\ UNCHANGED <<faVars, vars>>

MCSpec == MCInit /\ [][MCNext /\ UNCHANGED which]_<<which, faVars, vars, libVars>>
=============================================================================
