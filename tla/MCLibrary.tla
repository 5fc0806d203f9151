----------------------------- MODULE MCLibrary -----------------------------
(***************************************************************************)
(* The code the kernel calls without knowing its state, each part under any *)
(* sequence of calls: the hash map, the queue and the tasks that are kept   *)
(* in queues, printf and the console.  They share no state, so a behaviour  *)
(* drives one of them and leaves the others alone.                          *)
(***************************************************************************)
EXTENDS HashMap, Queue, Tasks, Printf, Tty

CONSTANTS k1, k2, k3, k4, v1, v2

VARIABLE which   \* the part that is driven

(* Four keys fill the first table past its limit.  Three of them collide at *)
(* its last slot, and two of those at the last slot of a table of eight.    *)
MCKeys == {k1, k2, k3, k4}
MCHashes == {[k \in MCKeys |-> IF k = k1 THEN 3 ELSE IF k = k4 THEN 0 ELSE 7]}

(* The kernel task and two created ones, or three pointers in a queue. *)
MCValues == 0 .. 2

(* Conversions of numbers: the arguments are the ends of the ranges of the  *)
(* types, and the widths and precisions lie around the size of the buffer.  *)
Number(conv, f, width, digits, size, arg) ==
  [conv |-> conv, flags |-> f, width |-> width, precision |-> IF digits < 0 THEN "none" ELSE "given",
   digits |-> digits, size |-> size, arg |-> arg]

Singles ==
  {<<Number(conv, f, width, digits, size, arg)>> :
     conv \in Numbers, f \in SUBSET {"0", "-", "+", " ", "#"}, width \in {-3, 0, 3, 6},
     digits \in {-1, 0, 2, 6}, size \in {"none", "hh", "ll"}, arg \in {0, 1, 5, 7, 8, 12, 31, 63}}

(* A conversion that leaves flags behind, and one that meets them. *)
Leaving ==
  {Number("s", {}, 0, 2, "none", 3), Number("c", {"-"}, 3, -1, "none", 1), Number("%", {"0"}, 0, -1, "none", 0),
   Number("text", {}, 0, -1, "none", 0), Number("x", {"#"}, 0, -1, "l", 9), Number("d", {"+"}, 4, -1, "h", 3)}
Meeting ==
  {Number(conv, {}, width, -1, "none", arg) : conv \in Numbers \union {"s"}, width \in {0, 4}, arg \in {0, 3, 13}}

MCFormats == Singles \union {<<a, b>> : a \in Leaving, b \in Meeting}

MCInit ==
  /\ which \in {"map", "queue", "tasks", "printf", "tty"}
  /\ HmInit /\ QueueInit /\ Init /\ PfInit /\ TtyInit

MCNext ==
  \/ which = "map" /\ HmNext /\ UNCHANGED <<queueVars, vars, pfVars, ttyVars>>
  \/ which = "queue" /\ QueueNext /\ UNCHANGED <<hmVars, vars, pfVars, ttyVars>>
  \/ which = "tasks" /\ Next /\ UNCHANGED <<hmVars, queueVars, pfVars, ttyVars>>
  \/ which = "printf" /\ PfNext /\ UNCHANGED <<hmVars, queueVars, vars, ttyVars>>
  \/ which = "tty" /\ TtyNext /\ UNCHANGED <<hmVars, queueVars, vars, pfVars>>

MCSpec == MCInit /\ [][MCNext /\ UNCHANGED which]_<<which, hmVars, queueVars, vars, pfVars, ttyVars>>
=============================================================================
