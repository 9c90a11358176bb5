-------------------------------- MODULE Kernel --------------------------------
(***************************************************************************)
(* The part of core/ppos_core.c that every service is built on: the timer  *)
(* handler with its preemption, the dispatcher with its scheduler, and     *)
(* task_suspend / task_resume.  A service module EXTENDS this one, adds    *)
(* its own calls as labelled steps of the running task, and joins them     *)
(* with Tick and Dispatch.                                                 *)
(*                                                                         *)
(* A label of pc is a point of the code between two accesses to shared     *)
(* state; the timer may end the quantum of the running task at any label   *)
(* in Preemptible.  The code blocks the signal nowhere, so the program as  *)
(* written has every label in Preemptible.                                 *)
(***************************************************************************)
EXTENDS Integers, FiniteSets, SequencesExt

CONSTANTS Tasks,         \* the task_t structures of the application, main included
          Dispatcher,    \* dispatcher_task
          NULL,          \* the null pointer
          WaitQueues,    \* the queues that the services add
          Labels,        \* the labels of the services' steps
          Preemptible,   \* the labels at which the quantum may end
          QUANTUM_LIMIT, \* ticks in a quantum
          CLOCK_MOD,     \* sysclock is an unsigned int: 2^32
          MaxClock       \* bound: no tick once sysclock is there

ASSUME KernelAssumption ==
  /\ IsFiniteSet(Tasks)
  /\ Dispatcher \notin Tasks /\ NULL \notin Tasks \cup {Dispatcher}
  /\ QUANTUM_LIMIT \in Nat \ {0} /\ CLOCK_MOD \in Nat \ {0}
  /\ MaxClock \in Nat

VARIABLES
  curr,             \* the running task, or Dispatcher
  queues,           \* the contents of every task queue, head first
  status,           \* task_t.status
  static_priority,  \* task_t.static_priority
  dynamic_priority, \* task_t.dynamic_priority
  quantum,          \* quantum of curr (that of other tasks is reset before it is read)
  sysclock,
  wake_up_time,     \* task_t.wake_up_time
  user_tasks_num,
  os,               \* "up", or how the process ended
  pc,               \* the label a task is at, or resumes at when dispatched
  back,             \* the label its task_suspend or task_resume returns to
  arg_task,         \* the task argument of its task_resume
  arg_queue         \* the queue argument of its task_suspend or task_resume

prioVars   == <<static_priority, dynamic_priority>>
timeVars   == <<quantum, sysclock, wake_up_time>>
argVars    == <<back, arg_task, arg_queue>>
frameVars  == <<pc, argVars>>
coreVars   == <<curr, queues, status, prioVars, timeVars, user_tasks_num, os>>
kernelVars == <<coreVars, frameVars>>

Queues == {"ready", "suspended", "sleeping"} \cup WaitQueues

DEFAULT_PRIORITY == 0
ALPHA            == -1

(* What a short of 16 bits, as the priorities of a task are, keeps of an    *)
(* int (HALF of its values are negative).                                   *)
HALF == 32768
short(n) == ((n + HALF) % (2 * HALF)) - HALF

Running(t) == os = "up" /\ curr = t

Goto(t, label) == pc' = [pc EXCEPT ![t] = label]

-----------------------------------------------------------------------------
(* queue.c as the task queues see it (module Queue is the detailed view):   *)
(* appending a task that is linked anywhere, or removing one that is not    *)
(* in the queue, returns an error code that no caller looks at.             *)

Linked(t) == \E q \in Queues : Contains(queues[q], t)

\* Seeded bug: whatever the element, it is the head that goes.
WithoutHead(s, t) == IF Contains(s, t) THEN Tail(s) ELSE s

Without(s, t) ==
  IF Contains(s, t) THEN RemoveAt(s, CHOOSE i \in 1..Len(s) : s[i] = t) ELSE s

\* Seeded bug: the check that the element is in no queue is gone.
queue_append_unchecked(q, t) ==
  queues' = [queues EXCEPT ![q] = Append(@, t)]

\* Seeded bug: queue_remove leaves prev and next of the element as they were,
\* and only a task that has just been created passes the check.
queue_append_once(q, t) ==
  queues' = IF Linked(t) \/ status[t] # "READY" THEN queues
            ELSE [queues EXCEPT ![q] = Append(@, t)]

queue_append(q, t) ==
  queues' = IF Linked(t) THEN queues ELSE [queues EXCEPT ![q] = Append(@, t)]

queue_remove(q, t) == queues' = [queues EXCEPT ![q] = Without(@, t)]

-----------------------------------------------------------------------------
(* task_switch(&dispatcher_task), called by the running task *)

\* Seeded bug: curr is not updated.
switch_without_curr(t) ==
  /\ status' = [status EXCEPT ![t] = "SUSPENDED"]
  /\ UNCHANGED curr

switch_to_dispatcher(t) ==
  /\ status' = [status EXCEPT ![t] = "SUSPENDED"]
  /\ curr' = Dispatcher

expired == quantum + 1 = QUANTUM_LIMIT

(***************************************************************************)
(* interruption_handler: the tick is charged to whoever runs.  The quantum *)
(* of the dispatcher starts at -INT_MAX, so it is never preempted.         *)
(***************************************************************************)
Tick ==
  /\ os = "up" /\ sysclock < MaxClock
  /\ sysclock' = (sysclock + 1) % CLOCK_MOD
  /\ \/ /\ curr = Dispatcher
        /\ UNCHANGED <<curr, quantum, status>>
     \/ /\ curr # Dispatcher /\ ~expired
        /\ quantum' = quantum + 1
        /\ UNCHANGED <<curr, status>>
     \/ /\ curr # Dispatcher /\ expired
        /\ pc[curr] \in Preemptible
        /\ quantum' = 0
        /\ switch_to_dispatcher(curr)
  /\ UNCHANGED <<queues, prioVars, wake_up_time, user_tasks_num, os, frameVars>>

(***************************************************************************)
(* wake_tasks: the sleepers that are due move to the tail of the ready     *)
(* queue, in the order in which they sleep.  (Module WakeTasks has the     *)
(* loop, and checks that this is what it does.)                            *)
(***************************************************************************)
\* Seeded bug: an off-by-one, the last tick is not slept.
DueEarly(t) == wake_up_time[t] <= sysclock + 1

Due(t) == wake_up_time[t] <= sysclock

due_tasks == {t \in Tasks : Due(t)}

(* The elements of s that are in D, in their order (SelectSeq with a test   *)
(* for membership, as a function that the provers can reason about).        *)
Only(s, D) ==
  LET only[i \in 0..Len(s)] ==
        IF i = 0 THEN << >>
        ELSE IF s[i] \in D THEN Append(only[i-1], s[i]) ELSE only[i-1]
  IN  only[Len(s)]

after_wake_tasks ==
  [queues EXCEPT !["sleeping"] = Only(@, Tasks \ due_tasks),
                 !["ready"]    = @ \o Only(queues["sleeping"], due_tasks)]

(***************************************************************************)
(* scheduler: the first task of the ready queue with the least dynamic     *)
(* priority.  All ready tasks age, the chosen one starts afresh.           *)
(***************************************************************************)
Chosen(readyq, t) ==
  \E i \in 1..Len(readyq) :
    /\ readyq[i] = t
    /\ \A j \in 1..Len(readyq) :
         IF j < i THEN dynamic_priority[t] < dynamic_priority[readyq[j]]
                  ELSE dynamic_priority[t] <= dynamic_priority[readyq[j]]

\* Seeded bug: the chosen task is not reset and keeps its age.
aged_without_reset(readyq, chosen) ==
  [t \in Tasks |-> IF Contains(readyq, t) THEN short(dynamic_priority[t] + ALPHA)
                                          ELSE dynamic_priority[t]]

\* Seeded bug: the tasks that are not chosen do not age.
aged_never(readyq, chosen) == [dynamic_priority EXCEPT ![chosen] = static_priority[chosen]]

aged(readyq, chosen) ==
  [t \in Tasks |-> CASE t = chosen -> static_priority[t]
                     [] t # chosen /\ Contains(readyq, t) -> short(dynamic_priority[t] + ALPHA)
                     [] OTHER -> dynamic_priority[t]]

(* One iteration of the dispatcher's loop; with no task to run the loop     *)
(* spins and nothing changes.  The chosen task stays in the ready queue.    *)
(* One step, because the handler of the timer never preempts the dispatcher *)
(* (dispatcher_init gives it a quantum of -INT_MAX).                        *)
Dispatch ==
  /\ Running(Dispatcher) /\ user_tasks_num > 0
  /\ queues' = after_wake_tasks
  /\ \E next \in Tasks :
       /\ Chosen(queues'["ready"], next)
       /\ dynamic_priority' = aged(queues'["ready"], next)
       /\ status' = [t \in Tasks |->
                       CASE t = next -> "RUNNING"
                         [] t # next /\ Contains(queues["sleeping"], t) /\ Due(t) -> "READY"
                         [] OTHER -> status[t]]
       /\ curr' = next
  /\ quantum' = 0
  /\ UNCHANGED <<static_priority, sysclock, wake_up_time, user_tasks_num, os, frameVars>>

(* The loop ends when no user task is left: task_exit of the dispatcher     *)
(* ends the process, whatever is still suspended or asleep.                 *)
Shutdown ==
  /\ Running(Dispatcher) /\ user_tasks_num <= 0
  /\ os' = "exited"
  /\ UNCHANGED <<curr, queues, status, prioVars, timeVars, user_tasks_num, frameVars>>

-----------------------------------------------------------------------------
(* task_suspend(q), called by t and returning to label *)
call_suspend(t, q, label) ==
  /\ Goto(t, "suspend_remove")
  /\ arg_queue' = [arg_queue EXCEPT ![t] = q]
  /\ back' = [back EXCEPT ![t] = label]
  /\ UNCHANGED arg_task

suspend_remove(t) ==
  /\ Running(t) /\ pc[t] = "suspend_remove"
  /\ queue_remove("ready", t)
  /\ Goto(t, "suspend_append")
  /\ UNCHANGED <<curr, status, prioVars, timeVars, user_tasks_num, os, argVars>>

suspend_append(t) ==
  /\ Running(t) /\ pc[t] = "suspend_append"
  /\ status' = [status EXCEPT ![t] = "SUSPENDED"]
  /\ queue_append(arg_queue[t], t)
  /\ Goto(t, "suspend_switch")
  /\ UNCHANGED <<curr, prioVars, timeVars, user_tasks_num, os, argVars>>

suspend_switch(t) ==
  /\ Running(t) /\ pc[t] = "suspend_switch"
  /\ switch_to_dispatcher(t)
  /\ Goto(t, back[t])
  /\ back' = [back EXCEPT ![t] = NULL]
  /\ arg_queue' = [arg_queue EXCEPT ![t] = NULL]
  /\ UNCHANGED <<queues, prioVars, timeVars, user_tasks_num, os, arg_task>>

-----------------------------------------------------------------------------
(* task_resume(u, q), called by t and returning to label; a null task ends  *)
(* the process with NULL_PTR_ERROR.                                         *)
call_resume(t, u, q, label) ==
  \/ /\ u = NULL
     /\ os' = "NULL_PTR_ERROR"
     /\ UNCHANGED frameVars
  \/ /\ u # NULL
     /\ Goto(t, "resume_remove")
     /\ arg_task' = [arg_task EXCEPT ![t] = u]
     /\ arg_queue' = [arg_queue EXCEPT ![t] = q]
     /\ back' = [back EXCEPT ![t] = label]
     /\ UNCHANGED os

resume_remove(t) ==
  /\ Running(t) /\ pc[t] = "resume_remove"
  /\ queue_remove(arg_queue[t], arg_task[t])
  /\ Goto(t, "resume_append")
  /\ UNCHANGED <<curr, status, prioVars, timeVars, user_tasks_num, os, argVars>>

resume_append(t) ==
  /\ Running(t) /\ pc[t] = "resume_append"
  /\ status' = [status EXCEPT ![arg_task[t]] = "READY"]
  /\ queue_append("ready", arg_task[t])
  /\ Goto(t, back[t])
  /\ back' = [back EXCEPT ![t] = NULL]
  /\ arg_task' = [arg_task EXCEPT ![t] = NULL]
  /\ arg_queue' = [arg_queue EXCEPT ![t] = NULL]
  /\ UNCHANGED <<curr, prioVars, timeVars, user_tasks_num, os>>

SuspendResume(t) ==
  \/ suspend_remove(t) \/ suspend_append(t) \/ suspend_switch(t)
  \/ resume_remove(t) \/ resume_append(t)

KernelLabels == {"suspend_remove", "suspend_append", "suspend_switch",
                 "resume_remove", "resume_append"}

-----------------------------------------------------------------------------
KernelTypeOK ==
  /\ curr \in Tasks \cup {Dispatcher}
  /\ queues \in [Queues -> Seq(Tasks)]
  /\ static_priority \in [Tasks -> Int]
  /\ dynamic_priority \in [Tasks -> Int]
  /\ quantum \in 0..QUANTUM_LIMIT-1
  /\ sysclock \in 0..CLOCK_MOD-1
  /\ wake_up_time \in [Tasks -> 0..CLOCK_MOD-1]
  /\ user_tasks_num \in Int
  /\ os \in {"up", "exited", "NULL_PTR_ERROR", "segmentation_fault"}
  /\ pc \in [Tasks -> Labels \cup KernelLabels]
  /\ back \in [Tasks -> Labels \cup {NULL}]
  /\ arg_task \in [Tasks -> Tasks \cup {NULL}]
  /\ arg_queue \in [Tasks -> Queues \cup {NULL}]

(* A task is in one position of one queue at most: the prev/next fields are *)
(* shared by all the queues, and a task linked twice would corrupt two lists *)
(* at once, whatever the point at which its callers are preempted.          *)
OneQueue ==
  \A t \in Tasks : \A p, q \in Queues :
    \A i \in DOMAIN queues[p], j \in DOMAIN queues[q] :
      queues[p][i] = t /\ queues[q][j] = t => p = q /\ i = j
=============================================================================
