-------------------------------- MODULE Tasks --------------------------------
(***************************************************************************)
(* The life of a task in core/ppos_core.c: task_init, task_exit,           *)
(* task_wait, task_sleep, task_yield and task_setprio over the Kernel, for *)
(* an application in which task t makes the calls of Ops[t] in any order.  *)
(***************************************************************************)
EXTENDS Kernel

CONSTANTS Main,       \* main_task
          Ops,        \* Ops[t]: the calls that task t makes
          Creates,    \* the pairs <<t, u>> such that t may call task_init(u)
          Waits,      \* the pairs <<t, u>> such that t may call task_wait(u)
          Durations,  \* the arguments of task_sleep
          Priorities, \* the arguments of task_setprio
          LeastPriority \* a lower bound of the priorities that tasks get

TasksLabels ==
  {"unborn", "user", "init_id_load", "init_id_store", "init_fill", "init_append",
   "init_count_load", "init_count_store", "wait_set", "wait_return",
   "exit_code", "exit_head", "exit_loop", "exit_next", "exit_check", "exit_clear",
   "exit_last", "exit_last_clear", "exit_remove", "exit_count_load", "exit_count_store",
   "exit_switch", "dead"}

(* The code as written can be preempted at any label.  Of the labels, those *)
(* at which a preemption does harm make four windows: between the load of   *)
(* last_task_id and the reading of the new id; around the updates of        *)
(* user_tasks_num; while the running task is out of the ready queue; and    *)
(* from the test of task_wait to the entry into suspended_tasks, and in     *)
(* task_exit from the marking of the task to the end of its walk.           *)
IdLabels      == {"init_id_store", "init_fill"}
Pending       == {"init_count_load", "init_count_store"}
CountLabels   == Pending \cup {"exit_count_store"}
LeavingLabels == {"suspend_append", "suspend_switch", "exit_count_load",
                  "exit_count_store", "exit_switch"}
WalkLabels    == {"exit_code", "exit_head", "exit_loop", "exit_next", "exit_check",
                  "exit_clear", "exit_last", "exit_last_clear", "exit_remove",
                  "resume_remove", "resume_append"}
AlertLabels   == {"wait_set", "suspend_remove", "suspend_append"} \cup WalkLabels

(* Environments: the code as written, and an application whose quantum may  *)
(* end anywhere but in the last three windows.                              *)
Anywhere       == TasksLabels \cup KernelLabels
OutsideWindows == Anywhere \ (CountLabels \cup LeavingLabels \cup AlertLabels)

ASSUME TasksAssumption ==
  /\ Main \in Tasks
  /\ Labels = TasksLabels /\ WaitQueues = {}
  /\ Creates \subseteq Tasks \X Tasks /\ Waits \subseteq Tasks \X Tasks
  /\ Durations \subseteq Nat
  /\ Priorities \subseteq Int
  /\ LeastPriority \in Int /\ LeastPriority <= DEFAULT_PRIORITY
  /\ \A p \in Priorities : LeastPriority <= short(p)

VARIABLES
  last_task_id,
  id,            \* task_t.id
  waiting_task,  \* task_t.waiting_task, an id or -1
  exit_code,     \* task_t.exit_code: 0, or 1 once task_exit(1) has set it
  target,        \* the task argument of its task_init or task_wait
  reg,           \* the register through which ++ and -- on a global go
  aux, next,     \* the locals of task_exit
  due            \* for the properties: the ticks that are left of its sleep

descVars  == <<last_task_id, id, waiting_task, exit_code>>
localVars == <<target, reg, aux, next>>
tasksVars == <<descVars, localVars, due>>
vars      == <<kernelVars, tasksVars>>

(* ppos_init: main runs and is the only task. *)
Init ==
  /\ curr = Main
  /\ queues = [q \in Queues |-> IF q = "ready" THEN <<Main>> ELSE << >>]
  /\ status = [t \in Tasks |-> IF t = Main THEN "READY" ELSE "NOT_CREATED"]
  /\ static_priority = [t \in Tasks |-> DEFAULT_PRIORITY]
  /\ dynamic_priority = [t \in Tasks |-> DEFAULT_PRIORITY]
  /\ quantum = 0 /\ sysclock = 0
  /\ wake_up_time = [t \in Tasks |-> 0]
  /\ user_tasks_num = 1
  /\ os = "up"
  /\ pc = [t \in Tasks |-> IF t = Main THEN "user" ELSE "unborn"]
  /\ back = [t \in Tasks |-> NULL]
  /\ arg_task = [t \in Tasks |-> NULL]
  /\ arg_queue = [t \in Tasks |-> NULL]
  /\ last_task_id = 0
  /\ id = [t \in Tasks |-> 0]
  /\ waiting_task = [t \in Tasks |-> -1]
  /\ exit_code = [t \in Tasks |-> 0]
  /\ target = [t \in Tasks |-> NULL]
  /\ reg = [t \in Tasks |-> 0]
  /\ aux = [t \in Tasks |-> NULL]
  /\ next = [t \in Tasks |-> NULL]
  /\ due = [t \in Tasks |-> 0]

At(t, label) == Running(t) /\ pc[t] = label

Calls(t, op) == At(t, "user") /\ op \in Ops[t]

-----------------------------------------------------------------------------
(* task_yield and task_setprio *)

task_yield(t) ==
  /\ Calls(t, "yield")
  /\ switch_to_dispatcher(t)
  /\ UNCHANGED <<queues, prioVars, timeVars, user_tasks_num, os, frameVars, tasksVars>>

task_setprio(t) ==
  /\ Calls(t, "setprio")
  /\ \E u \in Tasks, prio \in Priorities :
       /\ status[u] # "NOT_CREATED"
       /\ static_priority' = [static_priority EXCEPT ![u] = short(prio)]
       /\ dynamic_priority' = [dynamic_priority EXCEPT ![u] = short(prio)]
  /\ UNCHANGED <<curr, queues, status, timeVars, user_tasks_num, os, frameVars, tasksVars>>

-----------------------------------------------------------------------------
(* task_sleep; the sum wraps like sysclock *)
task_sleep(t) ==
  /\ Calls(t, "sleep")
  /\ \E d \in Durations :
       /\ sysclock + d <= MaxClock
       /\ wake_up_time' = [wake_up_time EXCEPT ![t] = (sysclock + d) % CLOCK_MOD]
       /\ due' = [due EXCEPT ![t] = d]
  /\ call_suspend(t, "sleeping", "user")
  /\ UNCHANGED <<curr, queues, status, prioVars, quantum, sysclock, user_tasks_num, os,
                 descVars, localVars>>

-----------------------------------------------------------------------------
(* task_wait *)

task_wait(t) ==
  /\ Calls(t, "wait")
  /\ \E u \in Tasks :
       /\ <<t, u>> \in Waits /\ status[u] \notin {"NOT_CREATED", "TERMINATED"}
       /\ target' = [target EXCEPT ![t] = u]
  /\ Goto(t, "wait_set")
  /\ UNCHANGED <<coreVars, argVars, descVars, reg, aux, next, due>>

wait_set(t) ==
  /\ At(t, "wait_set")
  /\ waiting_task' = [waiting_task EXCEPT ![t] = id[target[t]]]
  /\ call_suspend(t, "suspended", "wait_return")
  /\ UNCHANGED <<coreVars, last_task_id, id, exit_code, localVars, due>>

(* return task->exit_code *)
wait_return(t) ==
  /\ At(t, "wait_return")
  /\ target' = [target EXCEPT ![t] = NULL]
  /\ Goto(t, "user")
  /\ UNCHANGED <<coreVars, argVars, descVars, reg, aux, next, due>>

-----------------------------------------------------------------------------
(* task_init: getcontext and makecontext give the new task its start label, *)
(* then the descriptor is filled and the task enters the system.            *)

task_init(t) ==
  /\ Calls(t, "init")
  /\ \E u \in Tasks :
       /\ <<t, u>> \in Creates /\ pc[u] = "unborn"
       /\ pc' = [pc EXCEPT ![t] = "init_id_load", ![u] = "user"]
       /\ target' = [target EXCEPT ![t] = u]
  /\ UNCHANGED <<coreVars, argVars, descVars, reg, aux, next, due>>

init_id_load(t) ==
  /\ At(t, "init_id_load")
  /\ reg' = [reg EXCEPT ![t] = last_task_id]
  /\ Goto(t, "init_id_store")
  /\ UNCHANGED <<coreVars, argVars, descVars, target, aux, next, due>>

new_id(t) == reg[t] + 1

init_id_store(t) ==
  /\ At(t, "init_id_store")
  /\ last_task_id' = new_id(t)
  /\ reg' = [reg EXCEPT ![t] = 0]
  /\ Goto(t, "init_fill")
  /\ UNCHANGED <<coreVars, argVars, id, waiting_task, exit_code, target, aux, next, due>>

init_fill(t) ==
  LET u == target[t] IN
  /\ At(t, "init_fill")
  /\ id' = [id EXCEPT ![u] = last_task_id]
  /\ status' = [status EXCEPT ![u] = "READY"]
  /\ static_priority' = [static_priority EXCEPT ![u] = DEFAULT_PRIORITY]
  /\ dynamic_priority' = [dynamic_priority EXCEPT ![u] = DEFAULT_PRIORITY]
  /\ exit_code' = [exit_code EXCEPT ![u] = 0]
  /\ waiting_task' = [waiting_task EXCEPT ![u] = -1]
  /\ wake_up_time' = [wake_up_time EXCEPT ![u] = 0]
  /\ Goto(t, "init_append")
  /\ UNCHANGED <<curr, queues, quantum, sysclock, user_tasks_num, os,
                 argVars, last_task_id, localVars, due>>

init_append(t) ==
  /\ At(t, "init_append")
  /\ queue_append("ready", target[t])
  /\ target' = [target EXCEPT ![t] = NULL]
  /\ Goto(t, "init_count_load")
  /\ UNCHANGED <<curr, status, prioVars, timeVars, user_tasks_num, os, argVars,
                 descVars, reg, aux, next, due>>

(* user_tasks_num++ and, in task_exit, user_tasks_num-- *)
count_load(t, here, there) ==
  /\ At(t, here)
  /\ reg' = [reg EXCEPT ![t] = user_tasks_num]
  /\ Goto(t, there)
  /\ UNCHANGED <<coreVars, argVars, descVars, target, aux, next, due>>

count_store(t, here, there, delta) ==
  /\ At(t, here)
  /\ user_tasks_num' = reg[t] + delta
  /\ reg' = [reg EXCEPT ![t] = 0]
  /\ Goto(t, there)
  /\ UNCHANGED <<curr, queues, status, prioVars, timeVars, os, argVars, descVars,
                 target, aux, next, due>>

\* Seeded bug: the new task is not counted.
init_count_lost(t) == count_store(t, "init_count_store", "user", 0)

init_count_load(t)  == count_load(t, "init_count_load", "init_count_store")
init_count_store(t) == count_store(t, "init_count_store", "user", 1)

-----------------------------------------------------------------------------
(* task_exit: every task that waits for the id of the caller is resumed,    *)
(* then the caller leaves the ready queue for good.                         *)

task_exit(t) ==
  /\ Calls(t, "exit")
  /\ status' = [status EXCEPT ![t] = "TERMINATED"]
  /\ Goto(t, "exit_code")
  /\ UNCHANGED <<curr, queues, prioVars, timeVars, user_tasks_num, os, argVars, tasksVars>>

set_exit_code(t) ==
  /\ At(t, "exit_code")
  /\ exit_code' = [exit_code EXCEPT ![t] = 1]
  /\ Goto(t, "exit_head")
  /\ UNCHANGED <<coreVars, argVars, last_task_id, id, waiting_task, localVars, due>>

exit_head(t) ==
  /\ At(t, "exit_head")
  /\ aux' = [aux EXCEPT ![t] = IF queues["suspended"] = << >> THEN NULL
                               ELSE Head(queues["suspended"])]
  /\ Goto(t, "exit_loop")
  /\ UNCHANGED <<coreVars, argVars, descVars, target, reg, next, due>>

(* while (aux && aux != suspended_tasks->prev): the queue may have become   *)
(* empty since aux was read, and then suspended_tasks is a null pointer.    *)
exit_loop(t) ==
  /\ At(t, "exit_loop")
  /\ \/ aux[t] = NULL /\ Goto(t, "exit_remove") /\ UNCHANGED os
     \/ /\ aux[t] # NULL /\ queues["suspended"] = << >>
        /\ os' = "segmentation_fault" /\ UNCHANGED pc
     \/ /\ aux[t] # NULL /\ queues["suspended"] # << >>
        /\ Goto(t, IF aux[t] = Last(queues["suspended"]) THEN "exit_last"
                                                         ELSE "exit_next")
        /\ UNCHANGED os
  /\ UNCHANGED <<curr, queues, status, prioVars, timeVars, user_tasks_num, argVars,
                 descVars, localVars, due>>

(* aux->next, in whatever queue aux is by now *)
successor(u) ==
  IF ~Linked(u) THEN NULL
  ELSE LET q == CHOOSE q \in Queues : Contains(queues[q], u)
           i == CHOOSE i \in 1..Len(queues[q]) : queues[q][i] = u
       IN  queues[q][(i % Len(queues[q])) + 1]

\* Seeded bug: the comparison with the id of the caller is gone.
awaits_anyone(u, t) == TRUE

awaits(u, t) == waiting_task[u] = id[t]

exit_next(t) ==
  /\ At(t, "exit_next")
  /\ next' = [next EXCEPT ![t] = successor(aux[t])]
  /\ Goto(t, "exit_check")
  /\ UNCHANGED <<coreVars, argVars, descVars, target, reg, aux, due>>

exit_check(t) ==
  /\ At(t, "exit_check")
  /\ \/ /\ awaits(aux[t], t)
        /\ call_resume(t, aux[t], "suspended", "exit_clear")
        /\ UNCHANGED <<aux, next>>
     \/ /\ ~awaits(aux[t], t)
        /\ aux' = [aux EXCEPT ![t] = next[t]]
        /\ next' = [next EXCEPT ![t] = NULL]
        /\ Goto(t, "exit_loop")
        /\ UNCHANGED <<os, argVars>>
  /\ UNCHANGED <<curr, queues, status, prioVars, timeVars, user_tasks_num, descVars,
                 target, reg, due>>

exit_clear(t) ==
  /\ At(t, "exit_clear")
  /\ waiting_task' = [waiting_task EXCEPT ![aux[t]] = -1]
  /\ aux' = [aux EXCEPT ![t] = next[t]]
  /\ next' = [next EXCEPT ![t] = NULL]
  /\ Goto(t, "exit_loop")
  /\ UNCHANGED <<coreVars, argVars, last_task_id, id, exit_code, target, reg, due>>

\* Seeded bug: the last task of the queue is not looked at.
exit_last_skipped(t) ==
  /\ At(t, "exit_last")
  /\ Goto(t, "exit_remove")
  /\ UNCHANGED <<coreVars, argVars, tasksVars>>

exit_last(t) ==
  /\ At(t, "exit_last")
  /\ \/ awaits(aux[t], t) /\ call_resume(t, aux[t], "suspended", "exit_last_clear")
     \/ ~awaits(aux[t], t) /\ Goto(t, "exit_remove") /\ UNCHANGED <<os, argVars>>
  /\ UNCHANGED <<curr, queues, status, prioVars, timeVars, user_tasks_num, tasksVars>>

exit_last_clear(t) ==
  /\ At(t, "exit_last_clear")
  /\ waiting_task' = [waiting_task EXCEPT ![aux[t]] = -1]
  /\ Goto(t, "exit_remove")
  /\ UNCHANGED <<coreVars, argVars, last_task_id, id, exit_code, localVars, due>>

exit_remove(t) ==
  /\ At(t, "exit_remove")
  /\ queue_remove("ready", t)
  /\ aux' = [aux EXCEPT ![t] = NULL]
  /\ Goto(t, "exit_count_load")
  /\ UNCHANGED <<curr, status, prioVars, timeVars, user_tasks_num, os, argVars,
                 descVars, target, reg, next, due>>

\* Seeded bug: the task that exits is not discounted.
exit_count_lost(t) == count_store(t, "exit_count_store", "exit_switch", 0)

exit_count_load(t)  == count_load(t, "exit_count_load", "exit_count_store")
exit_count_store(t) == count_store(t, "exit_count_store", "exit_switch", -1)

(* A task dispatched after this step would return from task_exit and fall   *)
(* off the end of its function, which ends the process (uc_link is 0); the  *)
(* model has no step for it, ExitedStaysOut says that it does not happen.   *)
exit_switch(t) ==
  /\ At(t, "exit_switch")
  /\ curr' = Dispatcher
  /\ Goto(t, "dead")
  /\ UNCHANGED <<queues, status, prioVars, timeVars, user_tasks_num, os, argVars, tasksVars>>

-----------------------------------------------------------------------------
(* The clock, with the sleep that is left counted down for the properties.  *)
TickSleep ==
  /\ Tick
  /\ due' = [t \in Tasks |-> IF due[t] > 0 THEN due[t] - 1 ELSE 0]
  /\ UNCHANGED <<descVars, localVars>>

DispatchNext == (Dispatch \/ Shutdown) /\ UNCHANGED tasksVars

Step(t) ==
  \/ task_yield(t) \/ task_setprio(t) \/ task_sleep(t)
  \/ task_wait(t) \/ wait_set(t) \/ wait_return(t)
  \/ task_init(t) \/ init_id_load(t) \/ init_id_store(t) \/ init_fill(t)
  \/ init_append(t) \/ init_count_load(t) \/ init_count_store(t)
  \/ task_exit(t) \/ set_exit_code(t) \/ exit_head(t) \/ exit_loop(t)
  \/ exit_next(t) \/ exit_check(t) \/ exit_clear(t) \/ exit_last(t) \/ exit_last_clear(t) \/ exit_remove(t)
  \/ exit_count_load(t) \/ exit_count_store(t) \/ exit_switch(t)
  \/ SuspendResume(t) /\ UNCHANGED tasksVars

Next == TickSleep \/ DispatchNext \/ \E t \in Tasks : Step(t)

Spec == Init /\ [][Next]_vars

(* The timer keeps firing and the processor keeps executing instructions of *)
(* whoever it runs.  A dispatched task gets a new quantum of QUANTUM_LIMIT  *)
(* ticks, so a task that runs again and again gets its next step done.      *)
Fairness ==
  /\ WF_vars(TickSleep) /\ WF_vars(DispatchNext)
  /\ \A t \in Tasks : SF_vars(Step(t))

FairSpec == Spec /\ Fairness

-----------------------------------------------------------------------------
(* Properties *)

TypeOK ==
  /\ KernelTypeOK
  /\ status \in [Tasks -> {"NOT_CREATED", "READY", "RUNNING", "SUSPENDED", "TERMINATED"}]
  /\ last_task_id \in Nat
  /\ id \in [Tasks -> Nat]
  /\ waiting_task \in [Tasks -> Nat \cup {-1}]
  /\ exit_code \in [Tasks -> {0, 1}]
  /\ target \in [Tasks -> Tasks \cup {NULL}]
  /\ reg \in [Tasks -> Int]
  /\ aux \in [Tasks -> Tasks \cup {NULL}]
  /\ next \in [Tasks -> Tasks \cup {NULL}]
  /\ due \in [Tasks -> Nat]

(* The running task is in the ready queue, so a preemption cannot lose it,  *)
(* except between the instants at which its own task_suspend or task_exit   *)
(* takes it out and gives the processor away.                               *)
Leaving(t) == pc[t] \in LeavingLabels

RunningIsReady ==
  \A t \in Tasks : curr = t /\ ~Leaving(t) => Contains(queues["ready"], t)

(* task_wait returns the exit code of the awaited task: no interleaving of  *)
(* waits, exits and preemptions lets a waiter come back before the task it  *)
(* named has called task_exit.  It rests on the ids: so it holds if one     *)
(* task creates the others or the quantum does not end at IdLabels, else    *)
(* two tasks may have the same id, and the exit of either ends the wait.    *)
WaitReturnsExitCode ==
  \A t \in Tasks : curr = t /\ pc[t] = "wait_return" => exit_code[target[t]] = 1

(* A task that has left through task_exit is in no queue and never runs     *)
(* again: nobody resumes it out of a stale pointer.  (Under the same        *)
(* condition: a waiter is resumed by the exit of the task it named.)        *)
ExitedStaysOut ==
  \A t \in Tasks : pc[t] = "dead" => curr # t /\ ~Linked(t)

(* Ageing is bounded: at most N - k tasks are k or more below the least     *)
(* static priority in use.  With k = N, no dynamic priority is that low, so *)
(* a ready task, which ages by one each time another is chosen, is chosen   *)
(* within static_priority - LeastPriority + N - 1 turns of the dispatcher.  *)
Below(k) == {t \in Tasks : dynamic_priority[t] <= LeastPriority - k}

AgeBound == \A k \in 1..Cardinality(Tasks) : Cardinality(Below(k)) <= Cardinality(Tasks) - k

(* A sleeper stays asleep for as many ticks as it asked for.                *)
NoEarlyWake ==
  [][\A t \in Tasks :
       Contains(queues["sleeping"], t) /\ ~Contains(queues'["sleeping"], t)
         => due[t] = 0]_vars

(* A waiter is not left in suspended_tasks once the task it waits for has   *)
(* gone through its task_exit.                                              *)
NoLostWaiter ==
  \A t \in Tasks : Contains(queues["suspended"], t) /\ target[t] # NULL
                     => pc[target[t]] # "dead"

(* task_suspend and task_resume transfer a task from one queue to another:  *)
(* a task in the system is running, in a queue, or in the hands of the      *)
(* task_init or task_resume that will put it there.                         *)
InHandsOf(t, u) ==
  \/ target[u] = t /\ pc[u] \in {"init_id_load", "init_id_store", "init_fill", "init_append"}
  \/ arg_task[u] = t

NoTaskStranded ==
  \A t \in Tasks : pc[t] \notin {"unborn", "dead"} /\ curr # t /\ ~Linked(t)
                     => \E u \in Tasks : InHandsOf(t, u)

(* The process ends only when every task that was created has exited, the   *)
(* last of them at least as far as counting itself out.                     *)
NoEarlyShutdown ==
  os = "exited" => \A t \in Tasks : pc[t] \in {"unborn", "exit_switch", "dead"}

(* A waiter comes back after the task it waits for is gone.                 *)
WaitersReturn ==
  \A t \in Tasks :
    (pc[t] = "wait_return" /\ pc[target[t]] = "dead") ~> (pc[t] = "user")

(* A sleeper runs again, in spite of the tasks that never sleep.            *)
SleepersReturn ==
  \A t \in Tasks : Contains(queues["sleeping"], t) ~> (curr = t)

(* When the last task has exited the system shuts down.                     *)
ShutsDown ==
  (pc[Main] = "dead" /\ \A t \in Tasks : pc[t] \in {"unborn", "dead"}) ~> (os = "exited")
=============================================================================
