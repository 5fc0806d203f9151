------------------------------- MODULE Fifo -------------------------------
(***************************************************************************)
(* A queue of pointers: what is taken is what was put first and not taken   *)
(* yet.  An empty queue accepts every pointer; one that is not empty may    *)
(* drop it.  NULL can be put (by Rotate) and is skipped when it is met.     *)
(***************************************************************************)
EXTENDS Naturals, Sequences

CONSTANTS Values, NULL

VARIABLES
  queue,  \* the pointers put, first to last
  got     \* what the last call returned

vars == <<queue, got>>

Added(s, v) == {Append(s, v)} \union (IF s = <<>> THEN {} ELSE {s})

Live == {k \in 1 .. Len(queue) : queue[k] # NULL}

(* The one pointer that can be taken, and what is left behind it. *)
Taken ==
  IF Live = {}
  THEN {[ptr |-> NULL, rest |-> <<>>]}
  ELSE {[ptr |-> queue[k], rest |-> SubSeq(queue, k + 1, Len(queue))] :
          k \in {i \in Live : \A j \in Live : i <= j}}

Init == queue = <<>> /\ got = NULL

Put(v) == queue' \in Added(queue, v) /\ UNCHANGED got

Take == \E t \in Taken : got' = t.ptr /\ queue' = t.rest

(* Take, then put back what was taken. *)
Rotate == \E t \in Taken : got' = t.ptr /\ queue' \in Added(t.rest, t.ptr)

Next == (\E v \in Values : Put(v)) \/ Take \/ Rotate

Spec == Init /\ [][Next]_vars
=============================================================================
