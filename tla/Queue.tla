------------------------------- MODULE Queue -------------------------------
(***************************************************************************)
(* A queue of lethe-utils/queue.c under any sequence of calls.              *)
(***************************************************************************)
EXTENDS QueueOps

VARIABLES
  q,    \* the queue
  got   \* the pointer the last call returned

queueVars == <<q, got>>

QueueInit == q = new_queue /\ got = NULL

Push(task) == q' = push_queue(q, task) /\ UNCHANGED got

Pop == \E r \in pop_queue(q) : got' = r.ptr /\ q' = r.queue

rotate_queue == \E r \in pop_queue(q) : got' = r.ptr /\ q' = push_queue(r.queue, r.ptr)

QueueNext == (\E task \in Values : Push(task)) \/ Pop \/ rotate_queue

QueueSpec == QueueInit /\ [][QueueNext]_queueVars
-----------------------------------------------------------------------------
(* The indices stay in the array and only queued pointers, NULL or          *)
(* uninitialised memory are ever in it.                                     *)
QueueTypeOK == q \in queue_t /\ got \in Pointers

(* push_queue, pop_queue and rotate_queue implement a queue: pointers come  *)
(* out in the order they went in, each one once, none is made up and none   *)
(* is read from memory that was never written; an empty queue takes every   *)
(* pointer it is given.                                                     *)
Queued == [k \in 1 .. Count(q) |-> At(q, k - 1)]

Fifo == INSTANCE Fifo WITH queue <- Queued

ImplementsFifo == Fifo!Spec

(* queue.c:16: "queue is full".  A pointer is dropped only by a queue in    *)
(* which all slots but the one that tells full from empty are taken.        *)
DropsOnlyWhenFull == Full(q) => Count(q) = Capacity - 1
=============================================================================
