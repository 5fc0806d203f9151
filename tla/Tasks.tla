------------------------------- MODULE Tasks -------------------------------
(***************************************************************************)
(* The task switcher of lethe-kernel/cpu/task.c: create_task, the switch    *)
(* made by interrupt 128, signal_idle and the end of a task.  It runs on    *)
(* the rings of queue.c.  A task pointer is its id; task 0 is the kernel.   *)
(*                                                                         *)
(* A register context is the pair of the task whose code it is in and how   *)
(* far that task had got.  isr_stack_t has neither rsp nor ss, so a switch  *)
(* leaves the processor on the stack it is on: there is one stack, and the  *)
(* frame on top of it may be of a task that ran before.                     *)
(***************************************************************************)
EXTENDS QueueOps, Sequences

CONSTANTS
  MaxSteps,  \* bound: how far a task gets
  MaxDepth   \* bound: how many calls are on the stack

ASSUME ValuesAssumption == 0 \in Values /\ Values \subseteq Nat
ASSUME MaxStepsAssumption == MaxSteps \in Nat

VARIABLES
  current,     \* the task that is running
  LIVE_QUEUE,
  IDLE_QUEUE,
  TASK_COUNT,
  ctx,         \* task->ctx of every task
  cpu,         \* the registers of the processor
  stack,       \* the contexts that wait for a call to return, innermost first
  freed,       \* the tasks task_wrapper has freed
  progress,    \* history: how far every task has got
  crossed,     \* history: some code has returned into the code of another task
  dead         \* a task was used that is NULL, freed or never written

vars == <<current, LIVE_QUEUE, IDLE_QUEUE, TASK_COUNT, ctx, cpu, stack, freed, progress, crossed, dead>>

kernel == 0

Contexts == Values \X (0 .. MaxSteps)
-----------------------------------------------------------------------------
(* init_tasks: the code that calls it becomes task 0. *)
Init ==
  /\ current = kernel
  /\ LIVE_QUEUE = new_queue
  /\ IDLE_QUEUE = new_queue
  /\ TASK_COUNT = 1
  /\ ctx = [t \in Values |-> <<t, 0>>]
  /\ cpu = <<kernel, 0>>
  /\ stack = <<>>
  /\ freed = {}
  /\ progress = [t \in Values |-> 0]
  /\ crossed = FALSE
  /\ dead = FALSE

(* The code of the running task, outside task.c: a step of it, which may    *)
(* call a function.                                                         *)
Run ==
  /\ ~dead
  /\ cpu[2] < MaxSteps
  /\ cpu' = <<cpu[1], cpu[2] + 1>>
  /\ progress' = [progress EXCEPT ![cpu[1]] = cpu[2] + 1]
  /\ \/ UNCHANGED stack
     \/ Len(stack) < MaxDepth /\ stack' = <<cpu>> \o stack
  /\ UNCHANGED <<current, LIVE_QUEUE, IDLE_QUEUE, TASK_COUNT, ctx, freed, crossed, dead>>

(* A function of the running task returns: to the task itself, or into the  *)
(* code of the task whose frame it finds on top of the stack.               *)
Return ==
  /\ ~dead
  /\ stack # <<>>
  /\ stack' = Tail(stack)
  /\ \/ /\ stack[1][1] = cpu[1]
        /\ cpu[2] < MaxSteps
        /\ cpu' = <<cpu[1], cpu[2] + 1>>
        /\ progress' = [progress EXCEPT ![cpu[1]] = cpu[2] + 1]
        /\ UNCHANGED crossed
     \/ /\ stack[1][1] # cpu[1]
        /\ cpu' = stack[1]
        /\ crossed' = TRUE
        /\ UNCHANGED progress
  /\ UNCHANGED <<current, LIVE_QUEUE, IDLE_QUEUE, TASK_COUNT, ctx, freed, dead>>

create_task ==
  /\ ~dead
  /\ TASK_COUNT \in Values
  /\ TASK_COUNT' = TASK_COUNT + 1
  /\ ctx' = [ctx EXCEPT ![TASK_COUNT] = <<TASK_COUNT, 0>>]
  /\ LIVE_QUEUE' = push_queue(LIVE_QUEUE, TASK_COUNT)
  /\ UNCHANGED <<current, IDLE_QUEUE, cpu, stack, freed, progress, crossed, dead>>

(* Variant: the running context is not saved. *)
switch_task_Unsaved ==
  /\ ~dead
  /\ \E r \in pop_queue(LIVE_QUEUE) :
       /\ current' = r.ptr
       /\ LIVE_QUEUE' = push_queue(r.queue, current)
       /\ dead' = (r.ptr \notin Values \ freed)
       /\ cpu' = IF dead' THEN cpu ELSE ctx[r.ptr]
  /\ UNCHANGED <<IDLE_QUEUE, TASK_COUNT, ctx, stack, freed, progress, crossed>>

(* Variant: the old task is pushed before the new one is popped. *)
switch_task_PushFirst ==
  /\ ~dead
  /\ \E r \in pop_queue(push_queue(LIVE_QUEUE, current)) :
       /\ current' = r.ptr
       /\ LIVE_QUEUE' = r.queue
       /\ ctx' = [ctx EXCEPT ![current] = cpu]
       /\ dead' = (r.ptr \notin Values \ freed)
       /\ cpu' = IF dead' THEN cpu ELSE ctx'[r.ptr]
  /\ UNCHANGED <<IDLE_QUEUE, TASK_COUNT, stack, freed, progress, crossed>>

(* switch_task: the registers go to current->ctx and the popped task's come *)
(* to the processor; rsp and ss stay.  With an empty queue current becomes  *)
(* NULL and is dereferenced; a freed task's context is gone.                *)
switch_task ==
  /\ ~dead
  /\ \E r \in pop_queue(LIVE_QUEUE) :
       /\ current' = r.ptr
       /\ LIVE_QUEUE' = push_queue(r.queue, current)
       /\ ctx' = [ctx EXCEPT ![current] = cpu]
       /\ dead' = (r.ptr \notin Values \ freed)
       /\ cpu' = IF dead' THEN cpu ELSE ctx'[r.ptr]
  /\ UNCHANGED <<IDLE_QUEUE, TASK_COUNT, stack, freed, progress, crossed>>

(* remove_task looks at every slot of the ring, queued or not, up to the    *)
(* first one that holds the task.  A slot that holds no task before it is   *)
(* dereferenced all the same.                                               *)
Removable(q, id) ==
  {i \in Slots :
     /\ q._inner[i] = id
     /\ \A j \in 0 .. (i - 1) : q._inner[j] \in Values \ {id}}

NeverThere(q, id) == \A i \in Slots : q._inner[i] \in Values \ {id}

Cleared(q, i) == [_inner |-> [q._inner EXCEPT ![i] = NULL], head |-> q.head, tail |-> q.tail]

(* signal_idle, called by the running task.  A freed task keeps its id. *)
signal_idle ==
  /\ ~dead
  /\ current # kernel
  /\ \/ \E i \in Removable(LIVE_QUEUE, current) :
          /\ LIVE_QUEUE' = Cleared(LIVE_QUEUE, i)
          /\ IDLE_QUEUE' = push_queue(IDLE_QUEUE, current)
          /\ UNCHANGED dead
     \/ /\ Removable(LIVE_QUEUE, current) = {}
        /\ dead' = ~NeverThere(LIVE_QUEUE, current)
        /\ UNCHANGED <<LIVE_QUEUE, IDLE_QUEUE>>
  /\ UNCHANGED <<current, TASK_COUNT, ctx, cpu, stack, freed, progress, crossed>>

(* The frame that the next return takes: at the bottom of the stack that of *)
(* the code that called init_tasks.                                         *)
Beneath == IF stack = <<>> THEN <<kernel, 0>> ELSE stack[1]

(* task_wrapper, once the function of a task has returned from all its own  *)
(* calls.  Its id is a value of its own: the running task's, or anything    *)
(* once code runs on frames that are not its own.  Nobody called it, so it  *)
(* returns into whatever frame is on top of the stack.                      *)
task_wrapper ==
  /\ ~dead
  /\ cpu[1] # kernel
  /\ Beneath[1] # cpu[1]
  /\ \E id \in IF crossed THEN {t \in Values : t < TASK_COUNT} ELSE {current} :
       \/ \E i \in Removable(LIVE_QUEUE, id) :
            /\ id # kernel
            /\ LIVE_QUEUE' = Cleared(LIVE_QUEUE, i)
            /\ freed' = freed \union {id}
            /\ UNCHANGED dead
       \/ /\ id = kernel \/ Removable(LIVE_QUEUE, id) = {}
          /\ dead' = (id # kernel /\ ~NeverThere(LIVE_QUEUE, id))
          /\ UNCHANGED <<LIVE_QUEUE, freed>>
  /\ cpu' = Beneath
  /\ stack' = IF stack = <<>> THEN <<>> ELSE Tail(stack)
  /\ crossed' = TRUE
  /\ UNCHANGED <<current, IDLE_QUEUE, TASK_COUNT, ctx, progress>>

Next == Run \/ Return \/ create_task \/ switch_task \/ signal_idle \/ task_wrapper

Spec == Init /\ [][Next]_vars
-----------------------------------------------------------------------------
Runnable == ({current} \union Held(LIVE_QUEUE)) \ {NULL}

(* Every pointer is a task, NULL or uninitialised memory, and both rings    *)
(* keep their indices in range.                                             *)
TypeOK ==
  /\ current \in Values \union {NULL, Junk}
  /\ LIVE_QUEUE \in queue_t
  /\ IDLE_QUEUE \in queue_t
  /\ TASK_COUNT \in Nat
  /\ ctx \in [Values -> Contexts]
  /\ cpu \in Contexts
  /\ stack \in Seq(Contexts)
  /\ freed \subseteq Values
  /\ progress \in [Values -> 0 .. MaxSteps]
  /\ crossed \in BOOLEAN
  /\ dead \in BOOLEAN

(* A switch never loses a task and never adds one: the old task always      *)
(* finds room in the ring, because the new one was popped first.            *)
SwitchKeepsTasks == [][switch_task => Runnable' = Runnable]_vars

(* Until some code returns into the code of another task: the processor     *)
(* has the registers of the current task, and every other task that can be  *)
(* switched to will continue with the registers it was interrupted with.    *)
(* Not on its own stack: that is why it holds only until then.              *)
ResumesWithItsRegisters ==
  ~dead /\ ~crossed =>
    /\ cpu = <<current, progress[current]>>
    /\ \A t \in Runnable \ (freed \union {current}) : ctx[t] = <<t, progress[t]>>

(* task.c:120: "when the task function finishes it automatically removes    *)
(* itself from the task list": a freed task is not switched to any more.    *)
FinishedTaskIsGone == freed \cap Held(LIVE_QUEUE) = {}
=============================================================================
