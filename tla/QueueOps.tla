------------------------------ MODULE QueueOps ------------------------------
(***************************************************************************)
(* The fixed-size ring of lethe-utils/queue.c: queue_t and the operations   *)
(* on it, as functions of the struct.  The resizable variant has no caller  *)
(* and is left out.                                                         *)
(***************************************************************************)
EXTENDS Integers

CONSTANTS
  Capacity,  \* TASK_QUEUE_SIZE: 10 in the code
  Values,    \* the pointers that are queued
  NULL,
  Junk       \* what malloc leaves in a slot that was never written

ASSUME CapacityAssumption == Capacity \in Nat /\ Capacity >= 2
ASSUME NULLAssumption == NULL \notin Values /\ Junk \notin Values /\ Junk # NULL

Slots == 0 .. (Capacity - 1)

Pointers == Values \union {NULL, Junk}

queue_t == [_inner : [Slots -> Pointers], head : Slots, tail : Slots]

new_queue == [_inner |-> [i \in Slots |-> Junk], head |-> 0, tail |-> 0]

Full(q) == (q.head + 1) % Capacity = q.tail

push_queue(q, task) ==
  IF Full(q)
  THEN q
  ELSE [_inner |-> [q._inner EXCEPT ![q.tail] = task],
        head   |-> q.head,
        tail   |-> (q.tail + 1) % Capacity]

(* The slots from head up to tail, by their distance from head. *)
Count(q) == IF q.head <= q.tail THEN q.tail - q.head ELSE q.tail - q.head + Capacity

At(q, k) == q._inner[(q.head + k) % Capacity]

(* pop_queue calls itself until it finds an element that is not NULL: it    *)
(* takes the first one, k slots after head, or empties the queue.  Its      *)
(* result is the one member of this set: the pointer and the new queue.     *)
Found(q) == {k \in 0 .. (Count(q) - 1) : At(q, k) # NULL}

First(q) == {k \in Found(q) : \A j \in Found(q) : k <= j}

(* Variant: head moves before the element is read. *)
pop_queue_Late(q) ==
  IF Found(q) = {}
  THEN {[ptr |-> NULL, queue |-> [q EXCEPT !.head = q.tail]]}
  ELSE {[ptr |-> At(q, k + 1), queue |-> [q EXCEPT !.head = (q.head + k + 1) % Capacity]] :
          k \in First(q)}

pop_queue(q) ==
  IF Found(q) = {}
  THEN {[ptr |-> NULL, queue |-> [q EXCEPT !.head = q.tail]]}
  ELSE {[ptr |-> At(q, k), queue |-> [q EXCEPT !.head = (q.head + k + 1) % Capacity]] :
          k \in First(q)}

(* The pointers in the queue. *)
Held(q) == {At(q, k) : k \in 0 .. (Count(q) - 1)}
=============================================================================
