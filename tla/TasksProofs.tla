---------------------------- MODULE TasksProofs ----------------------------
(***************************************************************************)
(* The proofs about the tasks, and about the console and the printing that  *)
(* every task writes with.                                                  *)
(*                                                                         *)
(* The rings of queue.c and the task switcher that is built on them, for    *)
(* every capacity and every set of tasks.  A ring is empty or holds one     *)
(* pointer, the only two shapes it ever has (push_queue takes "tail is one  *)
(* past head" for a full ring), which makes it a queue, if a short one; a   *)
(* switch loses no task; and every task continues with the registers it was *)
(* interrupted with, until one returns into another one's code.             *)
(*                                                                         *)
(* The console, for every size of the screen and any number of keys that    *)
(* interrupt a character.  The invariant says what the tests of tty_putc    *)
(* leave true until the drawing, however many keys come in between.         *)
(*                                                                         *)
(* printf, for every format and every size of the buffer of digits: each    *)
(* loop of __ntoa stops at its end.                                         *)
(***************************************************************************)
EXTENDS Tasks, Queue, Tty, Printf, WellFoundedInduction, TLAPS

Ring(r) == r \in queue_t /\ (r.tail = r.head \/ Full(r))

(* The slot after a slot is a slot. *)
LEMMA NextSlot ==
  ASSUME NEW i \in Slots
  PROVE  /\ (i + 1) % Capacity \in Slots
         /\ (i + 1) % Capacity = IF i + 1 = Capacity THEN 0 ELSE i + 1
         /\ (i + 1) % Capacity # i
         /\ i % Capacity = i
<1>1. Capacity \in Nat /\ Capacity >= 2 /\ i \in Nat /\ i < Capacity
  BY CapacityAssumption DEF Slots
<1>2. i % Capacity = i
  BY <1>1
<1>3. (i + 1) % Capacity = IF i + 1 = Capacity THEN 0 ELSE i + 1
  <2>1. CASE i + 1 = Capacity
    BY <2>1, <1>1
  <2>2. CASE i + 1 # Capacity
    BY <2>2, <1>1
  <2> QED BY <2>1, <2>2
<1> QED BY <1>1, <1>2, <1>3 DEF Slots

(* A ring whose ends meet holds nothing. *)
LEMMA EmptyRing ==
  ASSUME NEW r \in queue_t, r.tail = r.head
  PROVE  Held(r) = {} /\ Found(r) = {} /\ ~Full(r) /\ Count(r) = 0
<1>1. r.head \in Slots /\ r.tail \in Slots
  BY DEF queue_t
<1>2. Count(r) = 0
  BY <1>1, CapacityAssumption DEF Count, Slots
<1>3. ~Full(r)
  BY <1>1, NextSlot DEF Full
<1> QED BY <1>2, <1>3 DEF Held, Found

(* A ring that is full as push_queue sees it holds exactly one element. *)
LEMMA OneElement ==
  ASSUME NEW r \in queue_t, Full(r)
  PROVE  /\ Held(r) = {r._inner[r.head]}
         /\ r._inner[r.head] = NULL => Found(r) = {}
         /\ r._inner[r.head] # NULL => Found(r) = {0} /\ First(r) = {0}
         /\ At(r, 0) = r._inner[r.head]
         /\ r.tail # r.head
         /\ Count(r) = 1
<1>1. r.head \in Slots /\ r.tail \in Slots
  BY DEF queue_t
<1>2. /\ r.tail = IF r.head + 1 = Capacity THEN 0 ELSE r.head + 1
      /\ r.tail # r.head
      /\ r.head % Capacity = r.head
  BY <1>1, NextSlot DEF Full
<1>3. Count(r) = 1
  BY <1>1, <1>2, CapacityAssumption DEF Count, Slots
<1>4. At(r, 0) = r._inner[r.head]
  <2>1. r.head + 0 = r.head
    BY <1>1 DEF Slots
  <2> QED BY <2>1, <1>2 DEF At
<1>5. 0 .. (Count(r) - 1) = {0}
  BY <1>3
<1>6. Held(r) = {At(r, 0)}
  BY <1>5 DEF Held
<1>7. Found(r) = IF At(r, 0) = NULL THEN {} ELSE {0}
  BY <1>5 DEF Found
<1>8. Found(r) = {0} => First(r) = {0}
  BY DEF First
<1> QED BY <1>2, <1>3, <1>4, <1>6, <1>7, <1>8

(* push_queue puts the value into an empty ring, and drops it otherwise. *)
LEMMA PushRing ==
  ASSUME NEW r, Ring(r), NEW v \in Pointers
  PROVE  /\ Ring(push_queue(r, v))
         /\ Held(push_queue(r, v)) = IF Held(r) = {} THEN {v} ELSE Held(r)
<1>1. r \in queue_t
  BY DEF Ring
<1>2. CASE Full(r)
  BY <1>1, <1>2, OneElement DEF push_queue, Ring
<1>3. CASE ~Full(r)
  <2>1. r.tail = r.head /\ Held(r) = {}
    BY <1>1, <1>3, EmptyRing DEF Ring
  <2> DEFINE p == [_inner |-> [r._inner EXCEPT ![r.tail] = v],
                   head |-> r.head, tail |-> (r.tail + 1) % Capacity]
  <2>2. push_queue(r, v) = p
    BY <1>3 DEF push_queue
  <2>3. r._inner \in [Slots -> Pointers] /\ r.head \in Slots /\ r.tail \in Slots
    BY <1>1 DEF queue_t
  <2>4. /\ p.head = r.head
        /\ p.tail = (r.head + 1) % Capacity
        /\ p._inner = [r._inner EXCEPT ![r.head] = v]
    BY <2>1
  <2>5. p \in queue_t
    <3>1. [r._inner EXCEPT ![r.tail] = v] \in [Slots -> Pointers]
      BY <2>3
    <3>2. (r.tail + 1) % Capacity \in Slots
      BY <2>3, NextSlot
    <3> QED BY <3>1, <3>2, <2>3 DEF queue_t
  <2>6. p._inner[p.head] = v
    BY <2>3, <2>4
  <2>7. Full(p)
    BY <2>4 DEF Full
  <2> HIDE DEF p
  <2>8. Held(p) = {v}
    BY <2>5, <2>6, <2>7, OneElement
  <2> QED BY <2>1, <2>2, <2>5, <2>7, <2>8 DEF Ring
<1> QED BY <1>2, <1>3

(* pop_queue takes from the front. *)
LEMMA PopRing ==
  ASSUME NEW r, Ring(r), NEW p \in pop_queue(r)
  PROVE  /\ Ring(p.queue)
         /\ Held(p.queue) = {}
         /\ p.ptr \in Pointers
         /\ p.ptr \in IF Held(r) = {} THEN {NULL} ELSE Held(r)
<1>1. r \in queue_t
  BY DEF Ring
<1>2. r._inner \in [Slots -> Pointers] /\ r.head \in Slots /\ r.tail \in Slots
  BY <1>1 DEF queue_t
<1> DEFINE e == [r EXCEPT !.head = r.tail]
<1>3. e \in queue_t /\ e.tail = e.head
  <2>1. e = [_inner |-> r._inner, head |-> r.tail, tail |-> r.tail]
    BY <1>1 DEF queue_t
  <2> QED BY <2>1, <1>2 DEF queue_t
<1> HIDE DEF e
<1>4. Ring(e) /\ Held(e) = {}
  BY <1>3, EmptyRing DEF Ring
<1>5. SUFFICES /\ p.queue = e
               /\ p.ptr \in IF Held(r) = {} THEN {NULL} ELSE Held(r)
  <2>1. Held(r) \subseteq Pointers
    BY <1>1, <1>2, EmptyRing, OneElement DEF Ring
  <2> QED BY <1>4, <2>1 DEF Pointers
<1>6. CASE r.tail = r.head
  <2>1. Found(r) = {} /\ Held(r) = {}
    BY <1>1, <1>6, EmptyRing
  <2> QED BY <2>1 DEF pop_queue, e
<1>7. CASE Full(r) /\ r._inner[r.head] = NULL
  <2>1. Found(r) = {} /\ Held(r) = {NULL}
    BY <1>1, <1>7, OneElement
  <2> QED BY <2>1 DEF pop_queue, e
<1>8. CASE Full(r) /\ r._inner[r.head] # NULL
  <2>1. First(r) = {0} /\ Found(r) # {} /\ Held(r) = {At(r, 0)}
    BY <1>1, <1>8, OneElement
  <2>2. p = [ptr |-> At(r, 0), queue |-> [r EXCEPT !.head = (r.head + 0 + 1) % Capacity]]
    BY <2>1 DEF pop_queue
  <2>3. (r.head + 0 + 1) % Capacity = r.tail
    <3>1. r.head + 0 + 1 = r.head + 1
      BY <1>2 DEF Slots
    <3> QED BY <3>1, <1>8 DEF Full
  <2> QED BY <2>1, <2>2, <2>3 DEF e
<1> QED BY <1>6, <1>7, <1>8 DEF Ring

(* A new queue is an empty ring. *)
LEMMA NewRing == Ring(new_queue) /\ Held(new_queue) = {}
<1>1. new_queue \in queue_t /\ new_queue.tail = new_queue.head
  BY CapacityAssumption DEF new_queue, queue_t, Pointers, Slots
<1> QED BY <1>1, EmptyRing DEF Ring
-----------------------------------------------------------------------------
(* A queue under any sequence of calls: it is always one of the two shapes. *)
QueueIInv == Ring(q) /\ got \in Pointers

(* The invariant of the queue holds at the start. *)
LEMMA QueueInitIInv == QueueInit => QueueIInv
BY NewRing DEF QueueInit, QueueIInv, Pointers

(* Every step keeps the invariant of the queue. *)
LEMMA QueueStepIInv == QueueIInv /\ [QueueNext]_queueVars => QueueIInv'
<1> SUFFICES ASSUME QueueIInv, [QueueNext]_queueVars PROVE QueueIInv'
  OBVIOUS
<1>1. ASSUME NEW task \in Values, Push(task) PROVE QueueIInv'
  BY <1>1, PushRing DEF QueueIInv, Push, Pointers
<1>2. CASE Pop
  BY <1>2, PopRing DEF QueueIInv, Pop
<1>3. CASE rotate_queue
  BY <1>3, PopRing, PushRing DEF QueueIInv, rotate_queue
<1>4. CASE UNCHANGED queueVars
  BY <1>4 DEF QueueIInv, queueVars
<1> QED BY <1>1, <1>2, <1>3, <1>4 DEF QueueNext

(***************************************************************************)
(* The indices of a queue stay inside its array.                            *)
(***************************************************************************)
THEOREM QueueTypes == QueueSpec => []QueueTypeOK
<1>1. QueueIInv => QueueTypeOK
  BY DEF QueueIInv, QueueTypeOK, Ring
<1> QED BY <1>1, QueueInitIInv, QueueStepIInv, PTL DEF QueueSpec

(* A ring as the sequence of its pointers. *)
OneQueued ==
  /\ Held(q) = {} <=> Queued = <<>>
  /\ \A v : Held(q) = {v} <=> Queued = <<v>>
  /\ Queued = <<>> \/ \E v : Queued = <<v>>

(* What a ring holds is the sequence, of one pointer at most. *)
LEMMA QueuedRing == QueueIInv => OneQueued
<1> SUFFICES ASSUME QueueIInv PROVE OneQueued
  OBVIOUS
<1>1. q \in queue_t
  BY DEF QueueIInv, Ring
<1>2. CASE q.tail = q.head
  <2>1. Held(q) = {} /\ Count(q) = 0
    BY <1>1, <1>2, EmptyRing
  <2>2. Queued = <<>>
    BY <2>1 DEF Queued
  <2> QED BY <2>1, <2>2 DEF OneQueued
<1>3. CASE Full(q)
  <2> DEFINE x == At(q, 0)
  <2>1. Held(q) = {x} /\ Count(q) = 1
    BY <1>1, <1>3, OneElement
  <2>2. Queued = <<x>>
    BY <2>1 DEF Queued
  <2> HIDE DEF x
  <2> QED BY <2>1, <2>2 DEF OneQueued
<1> QED BY <1>2, <1>3 DEF QueueIInv, Ring

(* What a queue gives when it is empty or holds one pointer. *)
LEMMA TakenOne ==
  /\ Queued = <<>> => Fifo!Taken = {[ptr |-> NULL, rest |-> <<>>]}
  /\ \A v : Queued = <<v>> => Fifo!Taken = {[ptr |-> v, rest |-> <<>>]}
<1>1. ASSUME Queued = <<>> PROVE Fifo!Taken = {[ptr |-> NULL, rest |-> <<>>]}
  <2>1. Fifo!Live = {}
    BY <1>1 DEF Fifo!Live
  <2> QED BY <2>1 DEF Fifo!Taken
<1>2. ASSUME NEW v, Queued = <<v>> PROVE Fifo!Taken = {[ptr |-> v, rest |-> <<>>]}
  <2>1. Len(Queued) = 1 /\ Queued[1] = v /\ 1 .. 1 = {1}
    BY <1>2
  <2>2. CASE v = NULL
    <3>1. Fifo!Live = {}
      BY <2>1, <2>2, Zenon DEF Fifo!Live
    <3> QED BY <2>2, <3>1 DEF Fifo!Taken
  <2>3. CASE v # NULL
    <3>1. Fifo!Live = {1}
      BY <2>1, <2>3 DEF Fifo!Live
    <3>2. {i \in {1} : \A j \in {1} : i <= j} = {1}
      OBVIOUS
    <3>3. SubSeq(<<v>>, 1 + 1, 1) = <<>>
      OBVIOUS
    <3>4. Fifo!Taken = {[ptr |-> Queued[k], rest |-> SubSeq(Queued, k + 1, Len(Queued))] : k \in {1}}
      BY <3>1, <3>2, Zenon DEF Fifo!Taken
    <3> QED BY <1>2, <2>1, <3>3, <3>4
  <2> QED BY <2>2, <2>3
<1> QED BY <1>1, <1>2

(***************************************************************************)
(* A queue of any capacity gives back what was put into it, in that order,  *)
(* once, and refuses nothing while it is empty.                             *)
(***************************************************************************)
THEOREM QueueRefinement == QueueSpec => ImplementsFifo
<1>1. QueueInit => Fifo!Init
  <2> SUFFICES ASSUME QueueInit PROVE Fifo!Init
    OBVIOUS
  <2>1. QueueIInv /\ Held(q) = {}
    BY QueueInitIInv, NewRing DEF QueueInit
  <2> QED BY <2>1, QueuedRing DEF QueueInit, Fifo!Init, OneQueued
<1>2. ASSUME QueueIInv, QueueIInv', [QueueNext]_queueVars PROVE [Fifo!Next]_(Fifo!vars)
  <2>1. /\ Held(q) = {} <=> Queued = <<>>
        /\ \A v : Held(q) = {v} <=> Queued = <<v>>
        /\ Queued = <<>> \/ \E v : Queued = <<v>>
    BY <1>2, QueuedRing DEF OneQueued
  <2>2. /\ Held(q)' = {} <=> Queued' = <<>>
        /\ \A v : Held(q)' = {v} <=> Queued' = <<v>>
    <3>1. OneQueued'
      BY <1>2, QueuedRing, PTL
    <3> QED BY <3>1, Zenon DEF OneQueued
  <2>3. ASSUME NEW task \in Values, Push(task) PROVE Fifo!Put(task)
    <3>1. Held(q)' = IF Held(q) = {} THEN {task} ELSE Held(q)
      BY <1>2, <2>3, PushRing DEF QueueIInv, Push, Pointers
    <3>2. CASE Queued = <<>>
      <4>1. Queued' = Append(<<>>, task)
        BY <2>1, <2>2, <3>1, <3>2
      <4> QED BY <2>3, <3>2, <4>1 DEF Push, Fifo!Put, Fifo!Added
    <3>3. CASE Queued # <<>>
      <4>1. Queued' = Queued
        BY <2>1, <2>2, <3>1, <3>3
      <4> QED BY <2>3, <3>3, <4>1 DEF Push, Fifo!Put, Fifo!Added
    <3> QED BY <3>2, <3>3
  <2> DEFINE Front == IF Held(q) = {} THEN {NULL} ELSE Held(q)
             record(v) == [ptr |-> v, rest |-> <<>>]
  <2>4. PICK t : t \in Fifo!Taken /\ t.rest = <<>> /\ {t.ptr} = Front
    <3>1. \E v : record(v) \in Fifo!Taken /\ {v} = Front
      <4>1. CASE Queued = <<>>
        BY <2>1, <4>1, TakenOne
      <4>2. ASSUME NEW v, Queued = <<v>> PROVE record(v) \in Fifo!Taken /\ {v} = Front
        <5>1. Fifo!Taken = {record(v)}
          BY <4>2, TakenOne
        <5>2. Held(q) = {v}
          BY <2>1, <4>2, Zenon
        <5> QED BY <5>1, <5>2
      <4> QED BY <2>1, <4>1, <4>2
    <3>2. \A v : record(v).rest = <<>> /\ record(v).ptr = v
      OBVIOUS
    <3> QED BY <3>1, <3>2, Zenon
  <2>5. ASSUME Pop PROVE Fifo!Take
    <3>1. PICK r \in pop_queue(q) : got' = r.ptr /\ q' = r.queue
      BY <2>5 DEF Pop
    <3>2. Held(q)' = {} /\ got' \in IF Held(q) = {} THEN {NULL} ELSE Held(q)
      BY <1>2, <3>1, PopRing DEF QueueIInv
    <3>3. Queued' = t.rest /\ got' = t.ptr
      BY <2>2, <2>4, <3>2
    <3> QED BY <2>4, <3>3 DEF Fifo!Take
  <2>6. ASSUME rotate_queue PROVE Fifo!Rotate
    <3>1. PICK r \in pop_queue(q) : got' = r.ptr /\ q' = push_queue(r.queue, r.ptr)
      BY <2>6 DEF rotate_queue
    <3>2. /\ Ring(r.queue) /\ Held(r.queue) = {} /\ r.ptr \in Pointers
          /\ got' \in IF Held(q) = {} THEN {NULL} ELSE Held(q)
      BY <1>2, <3>1, PopRing, Zenon DEF QueueIInv
    <3>3. Held(q)' = {got'}
      BY <3>1, <3>2, PushRing
    <3>4. Queued' = Append(t.rest, got') /\ got' = t.ptr
      BY <2>2, <2>4, <3>2, <3>3
    <3> QED BY <2>4, <3>4 DEF Fifo!Rotate, Fifo!Added
  <2>7. CASE UNCHANGED queueVars
    BY <2>7 DEF queueVars, Fifo!vars, Queued, At, Count
  <2> QED BY <1>2, <2>3, <2>5, <2>6, <2>7 DEF QueueNext, Fifo!Next
<1> QED BY <1>1, <1>2, QueueInitIInv, QueueStepIInv, PTL DEF QueueSpec, ImplementsFifo, Fifo!Spec
-----------------------------------------------------------------------------
(* The task switcher. *)
(* The strengthening: the rings have one of their two shapes, hold tasks    *)
(* that were created, and until one returns into the code of another a task *)
(* that was not created has not run.                                        *)
Created == {t \in Values : t < TASK_COUNT}

Queues ==
  /\ Ring(LIVE_QUEUE) /\ Held(LIVE_QUEUE) \subseteq Created \union {NULL}
  /\ Ring(IDLE_QUEUE)
  /\ ~dead => current \in Created
  /\ ~crossed => \A t \in Values : t >= TASK_COUNT => progress[t] = 0

IInv == TypeOK /\ Queues /\ ResumesWithItsRegisters

(* Clearing a slot (pop_queue) adds nothing to what the ring holds. *)
LEMMA ClearedRing ==
  ASSUME NEW r, Ring(r), NEW i \in Slots
  PROVE  Ring(Cleared(r, i)) /\ Held(Cleared(r, i)) \subseteq Held(r) \union {NULL}
<1> DEFINE c == [_inner |-> [r._inner EXCEPT ![i] = NULL], head |-> r.head, tail |-> r.tail]
<1>1. r \in queue_t
  BY DEF Ring
<1>2. Cleared(r, i) = c
  BY DEF Cleared
<1>3. r._inner \in [Slots -> Pointers] /\ r.head \in Slots /\ r.tail \in Slots
  BY <1>1 DEF queue_t
<1>4. c \in queue_t
  <2>1. [r._inner EXCEPT ![i] = NULL] \in [Slots -> Pointers]
    BY <1>3 DEF Pointers
  <2> QED BY <2>1, <1>3 DEF queue_t
<1>5. c.head = r.head /\ c.tail = r.tail /\ c._inner[r.head] \in {r._inner[r.head], NULL}
  BY <1>3
<1> HIDE DEF c
<1>6. CASE r.tail = r.head
  BY <1>6, <1>2, <1>4, <1>5, EmptyRing, SMTT(30), SMTT(60) DEF Ring
<1>7. CASE Full(r)
  <2>1. Full(c)
    BY <1>5, <1>7 DEF Full
  <2>2. Held(c) = {c._inner[r.head]} /\ Held(r) = {r._inner[r.head]}
    BY <2>1, <1>1, <1>4, <1>5, <1>7, OneElement
  <2> QED BY <2>1, <2>2, <1>2, <1>4, <1>5 DEF Ring
<1> QED BY <1>6, <1>7 DEF Ring

(* The invariant of the tasks holds at the start. *)
LEMMA InitIInv == Init => IInv
<1> SUFFICES ASSUME Init PROVE IInv
  OBVIOUS
<1>1. Ring(LIVE_QUEUE) /\ Ring(IDLE_QUEUE) /\ Held(LIVE_QUEUE) = {}
  BY NewRing DEF Init
<1>2. LIVE_QUEUE \in queue_t /\ IDLE_QUEUE \in queue_t
  BY <1>1 DEF Ring
<1>3. 0 \in Values /\ 0 \in 0 .. MaxSteps
  BY ValuesAssumption, MaxStepsAssumption
<1>4. TypeOK
  <2>1. <<>> \in Seq(Contexts)
    OBVIOUS
  <2> QED BY <1>2, <1>3, <2>1, Zenon DEF Init, TypeOK, Contexts, kernel
<1>5. Queues
  BY <1>1, <1>3 DEF Init, Queues, Created, kernel
<1>6. ResumesWithItsRegisters
  BY <1>1, <1>3 DEF Init, ResumesWithItsRegisters, Runnable, kernel
<1> QED BY <1>4, <1>5, <1>6 DEF IInv

(* A step of the running task, whatever it does to the stack, keeps the     *)
(* invariant of the tasks.                                                  *)
LEMMA ForwardStep ==
  ASSUME IInv, ~dead, cpu[2] < MaxSteps, stack' \in Seq(Contexts),
         cpu' = <<cpu[1], cpu[2] + 1>>,
         progress' = [progress EXCEPT ![cpu[1]] = cpu[2] + 1],
         UNCHANGED <<current, LIVE_QUEUE, IDLE_QUEUE, TASK_COUNT, ctx, freed, crossed, dead>>
  PROVE  IInv'
<1> DEFINE t == cpu[1]  n == cpu[2] + 1
<1>1. t \in Values /\ cpu[2] \in 0 .. MaxSteps
  BY DEF IInv, TypeOK, Contexts
<1>2. n \in 0 .. MaxSteps
  BY <1>1, MaxStepsAssumption
<1>3. cpu' = <<t, n>> /\ progress' = [progress EXCEPT ![t] = n]
  OBVIOUS
<1> HIDE DEF t, n
<1>4. TypeOK'
  BY <1>1, <1>2, <1>3 DEF IInv, TypeOK, Contexts
<1>5. ~crossed => current \in Created /\ t = current
  <2>1. ~crossed => current \in Created /\ cpu = <<current, progress[current]>>
    BY Zenon DEF IInv, Queues, ResumesWithItsRegisters
  <2> QED BY <2>1 DEF t
<1>6. Queues'
  <2>1. ~crossed => \A u \in Values : u >= TASK_COUNT => u # t
    BY <1>5, ValuesAssumption DEF IInv, TypeOK, Created
  <2>2. ~crossed => \A u \in Values : u >= TASK_COUNT => progress'[u] = 0
    BY <2>1, <1>3 DEF IInv, TypeOK, Queues
  <2> QED BY <2>2 DEF IInv, Queues, Created
<1>7. ResumesWithItsRegisters'
  <2> SUFFICES ASSUME ~crossed
               PROVE  /\ cpu' = <<current, progress'[current]>>
                      /\ \A u \in Runnable \ (freed \union {current}) : ctx[u] = <<u, progress'[u]>>
    BY DEF ResumesWithItsRegisters, Runnable
  <2>1. t = current /\ progress'[t] = n
    BY <1>1, <1>2, <1>3, <1>5 DEF IInv, TypeOK
  <2>2. ASSUME NEW u \in Runnable, u \notin freed, u # current PROVE ctx[u] = <<u, progress'[u]>>
    <3>1. u \in Values /\ ctx[u] = <<u, progress[u]>>
      BY <2>2 DEF IInv, Queues, Created, Runnable, ResumesWithItsRegisters
    <3> QED BY <1>3, <2>1, <2>2, <3>1 DEF IInv, TypeOK
  <2> QED BY <1>3, <2>1, <2>2
<1> QED BY <1>4, <1>6, <1>7 DEF IInv

(* A step of the running task (Run) keeps the invariant of the tasks. *)
LEMMA RunStep == IInv /\ Run => IInv'
<1> SUFFICES ASSUME IInv, Run PROVE IInv'
  OBVIOUS
<1>1. stack \in Seq(Contexts) /\ <<cpu>> \in Seq(Contexts)
  BY DEF IInv, TypeOK
<1>2. <<cpu>> \o stack \in Seq(Contexts)
  BY <1>1
<1> QED BY <1>1, <1>2, ForwardStep DEF Run

(* What remains of the stack is a stack. *)
LEMMA TailStack ==
  ASSUME TypeOK, stack # <<>>
  PROVE  Tail(stack) \in Seq(Contexts) /\ stack[1] \in Contexts
BY DEF TypeOK

(* Code that returns into the code of another task keeps the invariant of   *)
(* the tasks, which says little from then on.                               *)
LEMMA CrossedStep ==
  ASSUME IInv, ~dead, crossed', cpu' \in Contexts, stack' \in Seq(Contexts),
         \/ LIVE_QUEUE' = LIVE_QUEUE
         \/ \E i \in Slots : LIVE_QUEUE' = Cleared(LIVE_QUEUE, i),
         dead' \in BOOLEAN, crossed' \in BOOLEAN, freed' \subseteq Values,
         UNCHANGED <<current, IDLE_QUEUE, TASK_COUNT, ctx, progress>>
  PROVE  IInv'
<1>1. Ring(LIVE_QUEUE') /\ Held(LIVE_QUEUE') \subseteq Held(LIVE_QUEUE) \union {NULL}
  BY ClearedRing, SMTT(30), SMTT(60) DEF IInv, Queues
<1>2. TypeOK'
  BY <1>1 DEF IInv, TypeOK, Ring
<1>3. Queues'
  BY <1>1, Zenon DEF IInv, Queues, Created
<1>4. ResumesWithItsRegisters'
  BY Zenon DEF ResumesWithItsRegisters
<1> QED BY <1>2, <1>3, <1>4 DEF IInv

(* The return of a function keeps the invariant of the tasks. *)
LEMMA ReturnStep == IInv /\ Return => IInv'
<1> SUFFICES ASSUME IInv, Return PROVE IInv'
  OBVIOUS
<1>1. Tail(stack) \in Seq(Contexts) /\ stack[1] \in Contexts /\ stack' = Tail(stack)
  BY TailStack DEF IInv, Return
<1>2. CASE stack[1][1] = cpu[1]
  BY <1>1, <1>2, ForwardStep DEF Return
<1>3. CASE stack[1][1] # cpu[1]
  <2>1. /\ ~dead /\ crossed' = TRUE /\ cpu' = stack[1]
        /\ UNCHANGED <<current, LIVE_QUEUE, IDLE_QUEUE, TASK_COUNT, ctx, freed, dead, progress>>
    BY <1>3 DEF Return
  <2>2. dead' \in BOOLEAN /\ freed' \subseteq Values
    BY <2>1 DEF IInv, TypeOK
  <2> QED BY <1>1, <2>1, <2>2, CrossedStep
<1> QED BY <1>2, <1>3

(* create_task keeps the invariant of the tasks. *)
LEMMA CreateStep == IInv /\ create_task => IInv'
<1> SUFFICES ASSUME IInv, create_task PROVE IInv'
  OBVIOUS
<1>1. /\ TASK_COUNT \in Values /\ TASK_COUNT \in Nat /\ TASK_COUNT' = TASK_COUNT + 1
      /\ ~dead /\ current \in Created
      /\ ~crossed => progress[TASK_COUNT] = 0
  BY DEF IInv, TypeOK, Queues, create_task
<1>2. TASK_COUNT \in Pointers
  BY <1>1 DEF Pointers
<1>3. /\ Ring(LIVE_QUEUE')
      /\ Held(LIVE_QUEUE') \subseteq Held(LIVE_QUEUE) \union {TASK_COUNT}
  BY <1>2, PushRing DEF IInv, Queues, create_task
<1>4. Created \subseteq Created' /\ TASK_COUNT \in Created' /\ TASK_COUNT \notin Created
  <2>1. ASSUME NEW t \in Values PROVE t < TASK_COUNT => t < TASK_COUNT + 1
    BY <1>1, ValuesAssumption
  <2>2. TASK_COUNT < TASK_COUNT + 1 /\ ~(TASK_COUNT < TASK_COUNT)
    BY <1>1
  <2> QED BY <2>1, <2>2, <1>1, Zenon DEF Created
<1>5. TypeOK'
  <2>1. <<TASK_COUNT, 0>> \in Contexts
    BY <1>1, MaxStepsAssumption DEF Contexts
  <2> QED BY <2>1, <1>1, <1>3 DEF IInv, TypeOK, create_task, Ring
<1>6. Queues'
  <2>1. \A t \in Values : t >= TASK_COUNT' => t >= TASK_COUNT
    BY <1>1, ValuesAssumption
  <2> QED BY <2>1, <1>1, <1>3, <1>4, Zenon DEF IInv, Queues, create_task
<1>7. ResumesWithItsRegisters'
  <2> SUFFICES ASSUME ~crossed PROVE ResumesWithItsRegisters'
    BY DEF ResumesWithItsRegisters, create_task
  <2>1. cpu' = <<current', progress'[current']>>
    BY <1>1 DEF IInv, ResumesWithItsRegisters, create_task
  <2>2. ASSUME NEW t \in Runnable', t \notin freed, t # current PROVE ctx'[t] = <<t, progress[t]>>
    <3>1. t = TASK_COUNT \/ (t \in Runnable /\ t # TASK_COUNT /\ t \in Values)
      <4>1. t \in Held(LIVE_QUEUE') /\ t # NULL
        BY <2>2 DEF Runnable, create_task
      <4> QED BY <4>1, <1>3, <1>4, <2>2 DEF Runnable, IInv, Queues, Created
    <3>2. CASE t = TASK_COUNT
      BY <3>2, <1>1 DEF IInv, TypeOK, create_task
    <3>3. CASE t \in Runnable /\ t # TASK_COUNT /\ t \in Values
      BY <3>3, <2>2, <1>1 DEF IInv, TypeOK, ResumesWithItsRegisters, create_task
    <3> QED BY <3>1, <3>2, <3>3
  <2> QED BY <2>1, <2>2 DEF ResumesWithItsRegisters, create_task
<1> QED BY <1>5, <1>6, <1>7 DEF IInv

(* switch_task keeps the invariant of the tasks. *)
LEMMA SwitchStep ==
  ASSUME IInv, switch_task
  PROVE  IInv' /\ Runnable' = Runnable
<1>1. ~dead /\ current \in Created /\ current \in Values
  BY DEF IInv, Queues, switch_task, Created
<1>2. PICK r \in pop_queue(LIVE_QUEUE) :
        /\ current' = r.ptr
        /\ LIVE_QUEUE' = push_queue(r.queue, current)
        /\ ctx' = [ctx EXCEPT ![current] = cpu]
        /\ dead' = (r.ptr \notin Values \ freed)
        /\ cpu' = IF dead' THEN cpu ELSE ctx'[r.ptr]
  BY DEF switch_task
<1>3. /\ Ring(r.queue) /\ Held(r.queue) = {}
      /\ r.ptr \in IF Held(LIVE_QUEUE) = {} THEN {NULL} ELSE Held(LIVE_QUEUE)
  BY PopRing DEF IInv, Queues
<1>4. Ring(LIVE_QUEUE') /\ Held(LIVE_QUEUE') = {current}
  BY <1>1, <1>2, <1>3, PushRing DEF Pointers
<1>5. r.ptr \in Created \union {NULL}
  BY <1>3 DEF IInv, Queues
<1>6. Held(LIVE_QUEUE) \subseteq {r.ptr}
  <2>1. LIVE_QUEUE \in queue_t
    BY DEF IInv, TypeOK
  <2>2. CASE Full(LIVE_QUEUE)
    BY <2>1, <2>2, <1>3, OneElement
  <2>3. CASE LIVE_QUEUE.tail = LIVE_QUEUE.head
    BY <2>1, <2>3, EmptyRing
  <2> QED BY <2>2, <2>3 DEF IInv, Queues, Ring
<1>7. Runnable' = Runnable
  BY <1>2, <1>3, <1>4, <1>6 DEF Runnable
<1>8. UNCHANGED <<IDLE_QUEUE, TASK_COUNT, stack, freed, progress, crossed>>
  BY SMTT(30), SMTT(60) DEF switch_task
<1>9. TypeOK'
  <2>1. r.ptr \in Values \union {NULL}
    BY <1>5 DEF Created
  <2>2. ctx' \in [Values -> Contexts]
    BY <1>1, <1>2 DEF IInv, TypeOK
  <2>3. cpu' \in Contexts
    BY <2>2, <1>2, Zenon DEF IInv, TypeOK
  <2> QED BY <2>1, <2>2, <2>3, <1>1, <1>2, <1>4, <1>8, SMTT(30), SMTT(60) DEF IInv, TypeOK, Ring
<1>10. Queues'
  <2>1. Created' = Created
    BY <1>8 DEF Created
  <2>2. ~dead' => current' \in Created'
    BY <1>2, <1>5, <2>1, NULLAssumption, Zenon
  <2> QED BY <2>1, <2>2, <1>1, <1>4, <1>8 DEF IInv, Queues
<1>11. ResumesWithItsRegisters'
  <2> SUFFICES ASSUME ~dead', ~crossed
               PROVE  /\ cpu' = <<r.ptr, progress[r.ptr]>>
                      /\ \A t \in {current} \ {r.ptr} : ctx'[t] = <<t, progress[t]>>
    BY <1>2, <1>4, <1>8 DEF ResumesWithItsRegisters, Runnable
  <2>1. r.ptr \in Values \ freed /\ cpu' = ctx'[r.ptr]
    BY <1>2, Zenon
  <2>2. cpu = <<current, progress[current]>>
    BY <1>1 DEF IInv, ResumesWithItsRegisters
  <2>3. ctx'[current] = <<current, progress[current]>>
    BY <2>2, <1>1, <1>2, SMTT(30), SMTT(60) DEF IInv, TypeOK
  <2>4. r.ptr \in Held(LIVE_QUEUE) /\ r.ptr # NULL
    BY <2>1, <1>3, NULLAssumption, SMTT(30), SMTT(60)
  <2>5. r.ptr # current => ctx[r.ptr] = <<r.ptr, progress[r.ptr]>> /\ ctx'[r.ptr] = ctx[r.ptr]
    BY <2>1, <2>4, <1>1, <1>2 DEF IInv, TypeOK, ResumesWithItsRegisters, Runnable
  <2> QED BY <2>1, <2>3, <2>5, SMTT(30), SMTT(60)
<1> QED BY <1>7, <1>9, <1>10, <1>11 DEF IInv

(* signal_idle keeps the invariant of the tasks: a slot of the live ring    *)
(* may be cleared, and nothing that a context depends on changes.           *)
LEMMA SignalStep == IInv /\ signal_idle => IInv'
<1> SUFFICES ASSUME IInv, signal_idle PROVE IInv'
  OBVIOUS
<1>1. current \in Pointers /\ Ring(IDLE_QUEUE) /\ ~dead
  BY DEF IInv, Queues, Created, Pointers, signal_idle
<1>2. Ring(IDLE_QUEUE')
  BY <1>1, PushRing, SMTT(30), SMTT(60) DEF signal_idle
<1>3. \/ LIVE_QUEUE' = LIVE_QUEUE
      \/ \E i \in Slots : LIVE_QUEUE' = Cleared(LIVE_QUEUE, i)
  BY DEF signal_idle, Removable
<1>4. dead' \in BOOLEAN
  BY Zenon DEF signal_idle, IInv, TypeOK
<1>5. UNCHANGED <<current, TASK_COUNT, ctx, cpu, stack, freed, progress, crossed>>
  BY Zenon DEF signal_idle
<1>6. Ring(LIVE_QUEUE') /\ Held(LIVE_QUEUE') \subseteq Held(LIVE_QUEUE) \union {NULL}
  BY <1>3, ClearedRing, SMTT(30), SMTT(60) DEF IInv, Queues
<1>7. TypeOK'
  BY <1>2, <1>4, <1>5, <1>6 DEF IInv, TypeOK, Ring
<1>8. Queues'
  BY <1>1, <1>2, <1>5, <1>6 DEF IInv, Queues, Created
<1>9. Runnable' \subseteq Runnable
  BY <1>5, <1>6 DEF Runnable
<1>10. ResumesWithItsRegisters'
  BY <1>1, <1>5, <1>9, Zenon DEF IInv, ResumesWithItsRegisters
<1> QED BY <1>7, <1>8, <1>10 DEF IInv

(* The end of a task (task_wrapper) keeps the invariant of the tasks. *)
LEMMA WrapperStep == IInv /\ task_wrapper => IInv'
<1> SUFFICES ASSUME IInv, task_wrapper PROVE IInv'
  OBVIOUS
<1>1. ~dead /\ current \in Values /\ crossed' = TRUE
      /\ UNCHANGED <<current, IDLE_QUEUE, TASK_COUNT, ctx, progress>>
  BY Zenon DEF IInv, Queues, Created, task_wrapper
<1>2. PICK id \in Values :
        \/ \E i \in Removable(LIVE_QUEUE, id) :
             /\ LIVE_QUEUE' = Cleared(LIVE_QUEUE, i)
             /\ freed' = freed \union {id}
             /\ UNCHANGED dead
        \/ /\ dead' = (id # kernel /\ ~NeverThere(LIVE_QUEUE, id))
           /\ UNCHANGED <<LIVE_QUEUE, freed>>
  BY <1>1, Zenon DEF task_wrapper
<1>3. \/ LIVE_QUEUE' = LIVE_QUEUE
      \/ \E i \in Slots : LIVE_QUEUE' = Cleared(LIVE_QUEUE, i)
  BY <1>2 DEF Removable
<1>4. dead' \in BOOLEAN /\ freed' \subseteq Values
  BY <1>2, Zenon DEF IInv, TypeOK
<1>5. cpu' \in Contexts /\ stack' \in Seq(Contexts)
  <2>1. <<kernel, 0>> \in Contexts /\ <<>> \in Seq(Contexts)
    BY ValuesAssumption, MaxStepsAssumption DEF Contexts, kernel
  <2>2. CASE stack = <<>>
    BY <2>1, <2>2, Zenon DEF task_wrapper, Beneath
  <2>3. CASE stack # <<>>
    <3>1. Tail(stack) \in Seq(Contexts) /\ stack[1] \in Contexts
      BY <2>3, TailStack DEF IInv
    <3> QED BY <2>3, <3>1, Zenon DEF task_wrapper, Beneath
  <2> QED BY <2>2, <2>3
<1> QED BY <1>1, <1>3, <1>4, <1>5, CrossedStep

(* Every step keeps the invariant of the tasks. *)
LEMMA StepIInv == IInv /\ [Next]_vars => IInv'
<1> SUFFICES ASSUME IInv, [Next]_vars PROVE IInv'
  OBVIOUS
<1>1. CASE switch_task
  BY <1>1, SwitchStep, SMTT(30), SMTT(60)
<1>2. CASE UNCHANGED vars
  BY <1>2 DEF vars, IInv, TypeOK, Queues, Created, ResumesWithItsRegisters, Runnable
<1> QED BY <1>1, <1>2, RunStep, ReturnStep, CreateStep, SignalStep, WrapperStep DEF Next

(***************************************************************************)
(* However tasks are created, switched, idled and finished: as long as none *)
(* returns into the code of another, which sharing one stack makes possible *)
(* after any switch, the processor has the registers of the current task,   *)
(* and a task that is switched to has those it was interrupted with.        *)
(***************************************************************************)
THEOREM TaskContexts == Spec => [](TypeOK /\ ResumesWithItsRegisters)
<1>1. IInv => TypeOK /\ ResumesWithItsRegisters
  BY DEF IInv
<1> QED BY <1>1, InitIInv, StepIInv, PTL DEF Spec

(***************************************************************************)
(* switch_task loses no task and adds none, for every ring capacity.        *)
(***************************************************************************)
THEOREM SwitchSafety == Spec => SwitchKeepsTasks
<1>1. IInv /\ [Next]_vars => [switch_task => Runnable' = Runnable]_vars
  BY SwitchStep
<1> QED BY <1>1, InitIInv, StepIInv, PTL DEF Spec, SwitchKeepsTasks
-----------------------------------------------------------------------------
(* The console. *)

Cells == [column : Nat, row : Nat, keys : Nat]

Consoles == [cursor : Nat, line : Nat, drawn : Cells, keys : Nat]

OnScreen(cell) == cell.column <= COLS - 1 + TAB * cell.keys /\ cell.row <= ROWS - 1

TtyIInv ==
  /\ cursor \in Nat /\ line \in Nat /\ keys \in Nat
  /\ drawn \in Cells /\ OnScreen(drawn)
  /\ step \in {"idle", "clear", "draw", "advance"}
  /\ step \in {"clear", "draw"} => cursor <= COLS - 1 + TAB * keys
  /\ step = "draw" => line <= ROWS - 1

(* A glyph is drawn on the screen and the cursor is at most behind the row. *)
LEMMA PutGlyph ==
  ASSUME NEW c \in Consoles, c.keys = 0
  PROVE  LET p == tty_putc(c, "glyph")
         IN  /\ p \in Consoles /\ p.keys = 0 /\ OnScreen(p.drawn)
             /\ p.cursor \in 1 .. COLS /\ p.line \in 0 .. (ROWS - 1)
<1> USE ScreenAssumption
<1> DEFINE v == Wrap(c)
           w == clear_screen(v)
           p == tty_putc(c, "glyph")
<1>1. v \in Consoles /\ v.keys = 0 /\ v.cursor <= COLS - 1
  BY SMTT(30), SMTT(60) DEF Wrap, Consoles, set_cursor
<1> HIDE DEF v
<1>2. w \in Consoles /\ w.keys = 0 /\ w.cursor <= COLS - 1 /\ w.line <= ROWS - 1
  BY <1>1 DEF clear_screen, Consoles, set_cursor
<1>3. p = Advance(Draw(w))
  BY SMTT(30), SMTT(60) DEF tty_putc, v
<1> HIDE DEF w, p
<1>4. p = [cursor |-> w.cursor + 1, line |-> w.line,
           drawn  |-> [column |-> w.cursor, row |-> w.line, keys |-> w.keys], keys |-> w.keys]
  BY <1>3 DEF Advance, Draw, set_cursor
<1>5. /\ w.cursor \in 0 .. (COLS - 1) /\ w.line \in 0 .. (ROWS - 1) /\ w.keys = 0
  BY <1>2, SMTT(30), SMTT(60) DEF Consoles
<1>6. p \in Consoles /\ p.keys = 0 /\ OnScreen(p.drawn)
  BY <1>4, <1>5, SMTT(30), SMTT(60) DEF Consoles, Cells, OnScreen, TAB
<1>7. p.cursor \in 1 .. COLS /\ p.line \in 0 .. (ROWS - 1)
  BY <1>4, <1>5
<1> QED
  BY <1>6, <1>7, SMTT(30), SMTT(60) DEF p

(* What a call leaves: a cell of the screen was drawn last, the cursor has  *)
(* gone no more than a tab to the right, and no row is below the screen     *)
(* that was not before.                                                     *)
Sound(c, k) ==
  /\ k \in Consoles /\ OnScreen(k.drawn)
  /\ k.cursor <= c.cursor + TAB \/ k.cursor <= COLS
  /\ k.line <= c.line \/ k.line <= ROWS - 1

(* A tab keeps the console sound. *)
LEMMA PutTab ==
  ASSUME NEW c \in Consoles, c.keys = 0, OnScreen(c.drawn)
  PROVE  Sound(c, tty_putc(c, "tab"))
BY DEF tty_putc, set_cursor, Consoles, Sound, TAB

(* A drawn character keeps the console sound. *)
LEMMA PutSound ==
  ASSUME NEW c \in Consoles, NEW d \in Consoles, d.keys = 0
  PROVE  Sound(c, tty_putc(d, "glyph"))
<1> DEFINE p == tty_putc(d, "glyph")
<1>1. /\ p \in Consoles /\ OnScreen(p.drawn)
      /\ p.cursor \in 1 .. COLS /\ p.line \in 0 .. (ROWS - 1)
  BY PutGlyph
<1> HIDE DEF p
<1>2. Sound(c, p)
  BY <1>1, ScreenAssumption DEF Sound
<1> QED
  BY <1>2 DEF p

(* A character put and stepped back over keeps the console sound. *)
LEMMA PutBack ==
  ASSUME NEW c \in Consoles, NEW d \in Consoles, d.keys = 0
  PROVE  Sound(c, Back(tty_putc(d, "glyph")))
<1> DEFINE p == tty_putc(d, "glyph")
<1>1. /\ p \in Consoles /\ OnScreen(p.drawn)
      /\ p.cursor \in 1 .. COLS /\ p.line \in 0 .. (ROWS - 1)
  BY PutGlyph
<1> HIDE DEF p
<1>2. Sound(c, Back(p))
  BY <1>1, ScreenAssumption DEF Sound, Back, set_cursor, Consoles
<1> QED
  BY <1>2, SMTT(30), SMTT(60) DEF p

(* A deletion keeps the console sound. *)
LEMMA Delete ==
  ASSUME NEW c \in Consoles, c.keys = 0
  PROVE  Sound(c, tty_delc(c))
<1> USE ScreenAssumption
<1>1. CASE c.cursor = 0 /\ c.line = 0
  BY <1>1, PutBack DEF tty_delc
<1>2. CASE c.cursor = 0 /\ c.line > 0
  <2>1. set_cursor(c, COLS - 1, c.line - 1) \in Consoles /\ set_cursor(c, COLS - 1, c.line - 1).keys = 0
    BY <1>2 DEF set_cursor, Consoles
  <2>2. tty_delc(c) = Back(tty_putc(set_cursor(c, COLS - 1, c.line - 1), "glyph"))
    BY <1>2 DEF tty_delc, Consoles
  <2> QED
    BY <2>1, <2>2, PutBack, SMTT(30), SMTT(60)
<1>3. CASE c.cursor # 0
  <2>1. Back(c) \in Consoles /\ Back(c).keys = 0
    BY <1>3 DEF Back, set_cursor, Consoles
  <2>2. tty_delc(c) = Back(tty_putc(Back(c), "glyph"))
    BY <1>3 DEF tty_delc
  <2> QED
    BY <2>1, <2>2, PutBack
<1> QED
  BY <1>1, <1>2, <1>3 DEF Consoles

(* A new line keeps the console sound. *)
LEMMA NewLine ==
  ASSUME NEW c \in Consoles, c.keys = 0
  PROVE  /\ tty_putc(c, "newline") \in Consoles /\ tty_putc(c, "newline").keys = 0
         /\ tty_putc(c, "newline").drawn = c.drawn
BY DEF tty_putc, set_cursor, Consoles

(* The enter key keeps the console sound. *)
LEMMA Enter ==
  ASSUME NEW c \in Consoles, c.keys = 0
  PROVE  Sound(c, execute_command(c))
<1> DEFINE a == tty_putc(c, "newline")
           b == tty_putc(a, "glyph")
           d == tty_putc(b, "newline")
<1>1. a \in Consoles /\ a.keys = 0
  BY NewLine
<1> HIDE DEF a
<1>2. b \in Consoles /\ b.keys = 0
  BY <1>1, PutGlyph
<1> HIDE DEF b
<1>3. d \in Consoles /\ d.keys = 0
  BY <1>2, NewLine
<1>4. execute_command(c) = tty_putc(d, "glyph")
  BY SMTT(30), SMTT(60) DEF execute_command, a, b
<1> HIDE DEF d
<1> QED
  BY <1>3, <1>4, PutSound

(* A key keeps the invariant of the terminal. *)
LEMMA StepKey ==
  ASSUME TtyIInv, Key
  PROVE  TtyIInv'
<1> USE ScreenAssumption
<1> DEFINE c == Console(0)
<1>1. c \in Consoles /\ c.keys = 0 /\ c.cursor = cursor /\ c.line = line /\ OnScreen(c.drawn)
  BY DEF TtyIInv, Console, Consoles
<1> HIDE DEF c
<1>2. PICK k : Sound(c, k) /\ Becomes(k)
  <2>1. CASE \E ch \in {"tab", "glyph"} : Becomes(tty_putc(c, ch))
    BY <2>1, <1>1, PutTab, PutSound
  <2>2. CASE Becomes(tty_delc(c))
    BY <2>2, <1>1, Delete
  <2>3. CASE Becomes(execute_command(c))
    BY <2>3, <1>1, Enter
  <2> QED
    BY <2>1, <2>2, <2>3 DEF Key, c
<1>3. /\ cursor' \in Nat /\ line' \in Nat /\ drawn' \in Cells /\ OnScreen(drawn')
      /\ cursor' <= cursor + TAB \/ cursor' <= COLS
      /\ line' <= line \/ line' <= ROWS - 1
  BY <1>1, <1>2 DEF Sound, Becomes, Consoles
<1>4. step' = step /\ keys' = IF step = "idle" THEN keys ELSE keys + 1
  BY DEF Key
<1>5. OnScreen(drawn)'
  BY <1>3 DEF OnScreen
<1> QED
  BY <1>3, <1>4, <1>5, SMTT(30), SMTT(60) DEF TtyIInv, TAB

(* Every step keeps the invariant of the terminal. *)
LEMMA TtyStepIInv == TtyIInv /\ [TtyNext]_ttyVars => TtyIInv'
<1> SUFFICES ASSUME TtyIInv, [TtyNext]_ttyVars PROVE TtyIInv'
  OBVIOUS
<1> USE ScreenAssumption
<1>1. ASSUME NEW ch \in Chars, PutControl(ch) PROVE TtyIInv'
  BY <1>1, SMTT(30), SMTT(60) DEF TtyIInv, PutControl, Chars, Console, Becomes, tty_putc, set_cursor, TAB, OnScreen
<1>2. CASE TestWrap
  BY <1>2, SMTT(30), SMTT(60) DEF TtyIInv, TestWrap, Console, Becomes, Wrap, set_cursor, TAB, OnScreen
<1>3. CASE TestClear
  BY <1>3, SMTT(30), SMTT(60) DEF TtyIInv, TestClear, Console, Becomes, clear_screen, set_cursor, TAB, OnScreen
<1>4. CASE DrawGlyph
  BY <1>4, SMTT(30), SMTT(60) DEF TtyIInv, DrawGlyph, Console, Becomes, Draw, TAB, OnScreen, Cells
<1>5. CASE AdvanceCursor
  BY <1>5 DEF TtyIInv, AdvanceCursor, Console, Becomes, Advance, set_cursor, OnScreen
<1>6. CASE Key
  BY <1>6, StepKey
<1>7. CASE UNCHANGED ttyVars
  BY <1>7 DEF TtyIInv, ttyVars, OnScreen
<1> QED
  BY <1>1, <1>2, <1>3, <1>4, <1>5, <1>6, <1>7, SMTT(30), SMTT(60) DEF TtyNext

(* The invariant of the terminal holds at the start. *)
LEMMA TtyInitIInv == TtyInit => TtyIInv
BY ScreenAssumption DEF TtyInit, TtyIInv, Cells, OnScreen, TAB

(***************************************************************************)
(* On a screen of any size a character is drawn outside it only when keys   *)
(* were handled between the tests of tty_putc and the drawing, never below  *)
(* it, and no further to the right than a tab for each of them.             *)
(***************************************************************************)
THEOREM DrawnOnScreen == TtySpec => []DrawsOnScreen
<1>1. TtyIInv => DrawsOnScreen
  BY ScreenAssumption, SMTT(30), SMTT(60) DEF TtyIInv, DrawsOnScreen, OnScreen, Cells, TAB
<1> QED
  BY <1>1, TtyInitIInv, TtyStepIInv, PTL DEF TtySpec

(* A glyph that begins no row and no screen is drawn at the cursor, and the *)
(* space that takes it back is drawn at the same place (tty_delc).          *)
LEMMA DeleteGlyph ==
  ASSUME cursor \in Nat, line \in Nat
  PROVE  DeleteUndoesPut
<1> SUFFICES ASSUME cursor < COLS, line < ROWS
             PROVE  LET put == tty_putc(Console(0), "glyph") IN
                    /\ tty_delc(put).cursor = cursor /\ tty_delc(put).line = line
                    /\ tty_delc(put).drawn = put.drawn
  BY Zenon DEF DeleteUndoesPut
<1> USE ScreenAssumption
<1> DEFINE cell == [column |-> cursor, row |-> line, keys |-> 0]
           put  == [cursor |-> cursor + 1, line |-> line, drawn |-> cell, keys |-> 0]
           back == [cursor |-> cursor, line |-> line, drawn |-> cell, keys |-> 0]
<1>1. \A d : LET c == [cursor |-> cursor, line |-> line, drawn |-> d, keys |-> 0]
             IN  tty_putc(c, "glyph") = put
  <2> TAKE d
  <2> DEFINE c == [cursor |-> cursor, line |-> line, drawn |-> d, keys |-> 0]
  <2>1. Wrap(c) = c
    BY SMTT(30), SMTT(60) DEF Wrap
  <2>2. clear_screen(c) = c
    BY DEF clear_screen
  <2>3. Advance(Draw(c)) = put
    BY Zenon DEF Advance, Draw, set_cursor
  <2> QED
    BY <2>1, <2>2, <2>3, SMTT(30), SMTT(60) DEF tty_putc
<1>2. tty_putc(Console(0), "glyph") = put
  BY <1>1, Zenon DEF Console
<1>3. Back(put) = back
  BY DEF Back, set_cursor
<1>4. tty_putc(back, "glyph") = put
  BY <1>1, Zenon
<1>5. tty_delc(put) = back
  <2>1. put.cursor # 0
    OBVIOUS
  <2> QED
    BY <2>1, <1>3, <1>4, SMTT(30), SMTT(60) DEF tty_delc
<1> QED
  BY <1>2, <1>5

(* tty_delc takes back the glyph put before it, wherever keys that came in  *)
(* between have left the cursor, for every size of the screen.              *)
THEOREM DeletionUndoes == TtySpec => []DeleteUndoesPut
<1>1. TtyIInv => DeleteUndoesPut
  BY DeleteGlyph DEF TtyIInv
<1> QED
  BY <1>1, TtyInitIInv, TtyStepIInv, PTL DEF TtySpec

-----------------------------------------------------------------------------
(* Buffers, of whatever characters. *)
IsBuffer(b) == \E S : b \in Seq(S)

Fits(b) == IsBuffer(b) /\ Len(b) <= NTOA_MAX

(* A set of naturals that is not empty has a least element. *)
LEMMA LeastElement ==
  ASSUME NEW S \in SUBSET Nat, S # {}
  PROVE  \E m \in S : \A k \in S : m <= k
<1> DEFINE R == OpToRel(<, Nat)
<1>1. IsWellFoundedOn(R, Nat)
  BY NatLessThanWellFounded, Zenon
<1>2. \A k, m \in Nat : k < m => <<k, m>> \in R
  BY DEF OpToRel
<1> HIDE DEF R
<1>3. PICK m \in S : \A k \in S : ~(<<k, m>> \in R)
  BY <1>1, WFMin, Zenon
<1>4. \A k \in S : ~(k < m)
  BY <1>2, <1>3, Zenon
<1> QED
  BY <1>4

(* The loop over the digits ends when the buffer is full (ntoa_long). *)
LEMMA DigitsFit ==
  ASSUME NEW value, NEW base, NEW upper
  PROVE  Fits(Digits(value, base, upper, NTOA_MAX))
<1> DEFINE left   == CHOOSE left : left = [k \in 1 .. NTOA_MAX |-> IF k = 1 THEN value ELSE left[k - 1] \div base]
           stops  == {k \in 1 .. NTOA_MAX : k = NTOA_MAX \/ left[k] < base}
           passes == CHOOSE k \in stops : \A j \in stops : k <= j
           char(d) == IF d >= 10 /\ upper THEN Upper + d ELSE d
<1>1. Digits(value, base, upper, NTOA_MAX) = [k \in 1 .. passes |-> char(left[k] % base)]
  BY Zenon DEF Digits
<1> HIDE DEF left
<1>2. NTOA_MAX \in Nat /\ NTOA_MAX > 0
  BY BitsAssumption
<1>3. stops \in SUBSET Nat /\ NTOA_MAX \in stops
  BY <1>2
<1>4. \E m \in stops : \A k \in stops : m <= k
  BY <1>3, LeastElement, Zenon
<1>5. passes \in stops
  BY <1>4
<1>6. passes \in 1 .. NTOA_MAX
  BY <1>5
<1> HIDE DEF passes, char
<1> DEFINE chars == {char(left[k] % base) : k \in 1 .. passes}
<1>7. [k \in 1 .. passes |-> char(left[k] % base)] \in Seq(chars)
  BY <1>6
<1>8. Len([k \in 1 .. passes |-> char(left[k] % base)]) = passes
  BY <1>6
<1>9. IsBuffer(Digits(value, base, upper, NTOA_MAX))
  BY <1>1, <1>7, Zenon DEF IsBuffer
<1> QED
  BY <1>1, <1>2, <1>6, <1>8, <1>9 DEF Fits

(* Copies(c, n) is empty when n is negative. *)
LEMMA CopiesFit ==
  ASSUME NEW c, NEW n \in Int
  PROVE  Copies(c, n) \in Seq({c}) /\ Len(Copies(c, n)) = (IF n < 0 THEN 0 ELSE n)
BY DEF Copies

(* The loops of __ntoa that put zeros stop at the end of the buffer. *)
LEMMA FilledFits ==
  ASSUME NEW b, Fits(b), NEW n \in Int
  PROVE  Fits(Filled(b, n))
<1>1. PICK S : b \in Seq(S)
  BY DEF Fits, IsBuffer
<1> DEFINE m == (IF n < NTOA_MAX THEN n ELSE NTOA_MAX) - Len(b)
           z == Copies(0, m)
<1>2. NTOA_MAX \in Nat
  BY BitsAssumption
<1>3. Len(b) \in Nat /\ Len(b) <= NTOA_MAX /\ m \in Int
  BY <1>1, <1>2 DEF Fits
<1>4. z \in Seq({0}) /\ Len(z) = (IF m < 0 THEN 0 ELSE m)
  BY <1>3, CopiesFit
<1>5. b \in Seq(S \union {0}) /\ z \in Seq(S \union {0})
  BY <1>1, <1>4
<1>6. Len(z) \in Nat /\ Len(b) + Len(z) <= NTOA_MAX
  BY <1>2, <1>3, <1>4
<1> HIDE DEF z
<1>7. b \o z \in Seq(S \union {0}) /\ Len(b \o z) = Len(b) + Len(z)
  BY <1>5
<1> QED
  BY <1>6, <1>7 DEF Fits, IsBuffer, Filled, z

(* A character is put where there is room. *)
LEMMA PutFits ==
  ASSUME NEW b, Fits(b), NEW c
  PROVE  Fits(Put(b, c))
<1>1. PICK S : b \in Seq(S)
  BY DEF Fits, IsBuffer
<1>2. NTOA_MAX \in Nat
  BY BitsAssumption
<1>3. b \in Seq(S \union {c})
  BY <1>1
<1>4. Append(b, c) \in Seq(S \union {c}) /\ Len(Append(b, c)) = Len(b) + 1
  BY <1>3
<1> QED
  BY <1>1, <1>2, <1>4 DEF Put, Fits, IsBuffer

(* Characters taken back leave a buffer that fits. *)
LEMMA CutFits ==
  ASSUME NEW b, Fits(b), NEW n \in Nat
  PROVE  Fits(SubSeq(b, 1, Len(b) - n))
<1>1. PICK S : b \in Seq(S)
  BY DEF Fits, IsBuffer
<1>2. NTOA_MAX \in Nat
  BY BitsAssumption
<1>3. /\ SubSeq(b, 1, Len(b) - n) \in Seq(S)
      /\ Len(SubSeq(b, 1, Len(b) - n)) <= Len(b) /\ Len(b) \in Nat /\ Len(SubSeq(b, 1, Len(b) - n)) \in Nat
  BY <1>1
<1>4. IsBuffer(SubSeq(b, 1, Len(b) - n))
  BY <1>3, Zenon DEF IsBuffer
<1> QED
  BY <1>2, <1>3, <1>4 DEF Fits

(* __ntoa, for every number of digits, width, precision, base and sign. *)
LEMMA ntoaFits ==
  ASSUME NEW digits, Fits(digits), NEW f, NEW width \in Int, NEW precision \in Int, NEW base, NEW negative
  PROVE  Fits(__ntoa(digits, f, width, precision, base, negative).buf)
<1> DEFINE signed == negative \/ f \cap {"+", " "} # {}
           w      == IF "-" \notin f /\ width > 0 /\ "0" \in f /\ signed THEN width - 1 ELSE width
           b1     == IF "-" \in f THEN digits ELSE Filled(digits, precision)
           b2     == IF "-" \notin f /\ "0" \in f THEN Filled(b1, w) ELSE b1
           cut    == IF "." \notin f /\ b2 # <<>> /\ Len(b2) \in {precision, w}
                     THEN IF base = 16 /\ Len(b2) > 1 THEN 2 ELSE 1
                     ELSE 0
           b3     == SubSeq(b2, 1, Len(b2) - cut)
           b4     == CASE base = 16 -> Put(b3, CharX) [] base = 2 -> Put(b3, CharB) [] OTHER -> b3
           b5     == IF "#" \in f THEN Put(b4, 0) ELSE b2
           b6     == CASE negative -> Put(b5, Minus)
                       [] ~negative /\ "+" \in f -> Put(b5, Plus)
                       [] ~negative /\ "+" \notin f /\ " " \in f -> Put(b5, Space)
                       [] OTHER -> b5
<1>1. __ntoa(digits, f, width, precision, base, negative).buf = b6
  BY Zenon DEF __ntoa
<1>2. w \in Int
  OBVIOUS
<1> HIDE DEF w
<1>3. Fits(b1)
  BY FilledFits
<1> HIDE DEF b1
<1>4. Fits(b2)
  BY <1>2, <1>3, FilledFits
<1> HIDE DEF b2
<1>5. cut \in Nat
  OBVIOUS
<1> HIDE DEF cut
<1>6. Fits(b3)
  BY <1>4, <1>5, CutFits, Zenon
<1> HIDE DEF b3
<1>7. Fits(b4)
  BY <1>6, PutFits
<1> HIDE DEF b4
<1>8. Fits(b5)
  BY <1>4, <1>7, PutFits
<1> HIDE DEF b5
<1>9. Fits(b6)
  BY <1>8, PutFits, Zenon
<1> QED
  BY <1>1, <1>9, Zenon


(* The buffer before the first number. *)
LEMMA EmptyFits == Fits(<<>>)
<1>1. <<>> \in Seq({})
  OBVIOUS
<1>2. IsBuffer(<<>>)
  BY <1>1 DEF IsBuffer
<1> QED
  BY <1>2, BitsAssumption DEF Fits

(* The invariant: the buffer fits, and the format is one. *)
PfIInv ==
  /\ Fits(buf)
  /\ format \in Seq(Items) /\ fmt \in Nat

(* The conversion of a number leaves a buffer that fits, whatever flags    *)
(* earlier conversions have left behind.                                    *)
LEMMA PutNumberFits ==
  ASSUME NEW item \in Items, PutNumber(item)
  PROVE  Fits(buf')
<1> DEFINE f     == Adjusted(item.conv, Parsed(item, flags))
           value == Value(item, f)
           v     == Magnitude(value, BitsRead(f))
           base  == Base(item.conv)
           width == FieldWidth(item)
           precision == Precision(item)
           g      == IF v = 0 THEN f \ {"#"} ELSE f
           digits == IF "." \in f /\ v = 0 THEN <<>> ELSE Digits(v, base, "U" \in f, NTOA_MAX)
<1>1. buf' = ntoa_long(v, f, base, width, precision, value < 0).buf
  BY Zenon DEF PutNumber
<1>2. width \in Int /\ precision \in Int
  BY BitsAssumption, SMTT(30), SMTT(60) DEF FieldWidth, Precision, Width, Items
<1> HIDE DEF f, value, v, base, width, precision
<1>3. buf' = __ntoa(digits, g, width, precision, base, value < 0).buf
  BY <1>1 DEF ntoa_long
<1>4. Fits(digits)
  BY DigitsFit, EmptyFits
<1> HIDE DEF digits, g
<1> QED
  BY <1>2, <1>3, <1>4, ntoaFits

(* It holds before the call. *)
LEMMA PfInitIInv == PfInit => PfIInv
BY EmptyFits DEF PfInit, PfIInv

(* Every item of the format keeps it. *)
LEMMA PfStepIInv ==
  ASSUME PfIInv, [PfNext]_pfVars
  PROVE  PfIInv'
<1>1. CASE printf
  BY <1>1, FormatsAssumption DEF printf, PfIInv
<1>2. ASSUME fmt < Len(format) PROVE format[fmt + 1] \in Items
  BY <1>2 DEF PfIInv
<1>3. ASSUME fmt' = fmt + 1, format' = format, Fits(buf') PROVE PfIInv'
  BY <1>3 DEF PfIInv
<1>4. ASSUME fmt < Len(format), PutNumber(format[fmt + 1]) PROVE PfIInv'
  <2>1. Fits(buf')
    BY <1>2, <1>4, PutNumberFits, Zenon
  <2>2. fmt' = fmt + 1 /\ format' = format
    BY <1>4, Zenon DEF PutNumber
  <2> QED
    BY <1>3, <2>1, <2>2, Zenon
<1>5. ASSUME fmt' = fmt + 1, UNCHANGED <<format, buf>> PROVE PfIInv'
  BY <1>3, <1>5, Zenon DEF PfIInv
<1>6. CASE TakeNumber \/ TakePointer
  BY <1>4, <1>6, Zenon DEF TakeNumber, TakePointer
<1>7. CASE TakeString \/ TakePercent \/ TakeText
  BY <1>5, <1>7, Zenon DEF TakeString, TakePercent, TakeText
<1>8. CASE UNCHANGED pfVars
  BY <1>8 DEF pfVars, PfIInv
<1> QED
  BY <1>1, <1>6, <1>7, <1>8, Zenon DEF PfNext

(* No format, argument, width or precision makes a conversion write behind  *)
(* the buffer of digits on the stack, for every size of the buffer and of   *)
(* the types (ntoa_long, __ntoa).                                           *)
THEOREM PrintfBuffer == PfSpec => []StaysInBuffer
<1>1. PfIInv => StaysInBuffer
  BY DEF PfIInv, StaysInBuffer, Fits
<1> QED
  BY <1>1, PfInitIInv, PfStepIInv, PTL DEF PfSpec
=============================================================================
