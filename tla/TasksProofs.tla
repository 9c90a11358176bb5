----------------------------- MODULE TasksProofs -----------------------------
(***************************************************************************)
(* The life of a task for any number of tasks, any preemption points and   *)
(* any mix of calls.  First the types, the queues and the ready queue;     *)
(* then, if creation is serial, the ids, the waiters and the tasks that    *)
(* have exited; last, if no priority is near the end of the shorts, the    *)
(* ageing of the scheduler.                                                *)
(*                                                                         *)
(* That no dynamic priority falls N or more below the least static one is  *)
(* not inductive: the argument counts how many tasks can be how far below, *)
(* because a task can fall from k - 1 to k only while another one, at      *)
(* least as low, is chosen and climbs back to its static priority.         *)
(***************************************************************************)
EXTENDS Tasks, KernelProofs, FiniteSetTheorems

-----------------------------------------------------------------------------
(* The life of a task.  First what holds whatever the application does.     *)

InitLabels == {"init_id_load", "init_id_store", "init_fill", "init_append"}
ExitLabels == {"exit_head", "exit_loop", "exit_next", "exit_check", "exit_clear", "exit_last",
               "exit_last_clear", "exit_remove"}
Gone       == {"exit_count_load", "exit_count_store", "exit_switch", "dead"}
Suspending == {"suspend_remove", "suspend_append", "suspend_switch"}
Resuming   == {"resume_remove", "resume_append"}

(* A call under way has the locals that it needs.                           *)
Frame(t) ==
  /\ pc[t] \in Suspending => \/ back[t] = "user" /\ arg_queue[t] = "sleeping"
                             \/ back[t] = "wait_return" /\ arg_queue[t] = "suspended"
  /\ pc[t] \in Resuming => /\ back[t] \in {"exit_clear", "exit_last_clear"}
                           /\ arg_queue[t] = "suspended"
                           /\ arg_task[t] = aux[t] /\ aux[t] \in Tasks
  /\ pc[t] \in Suspending /\ back[t] = "wait_return" => target[t] \in Tasks
  /\ pc[t] \in InitLabels \cup {"wait_set", "wait_return"} => target[t] \in Tasks
  /\ pc[t] \in {"exit_next", "exit_check", "exit_clear", "exit_last", "exit_last_clear"}
       => aux[t] \in Tasks
  /\ pc[t] = "init_id_store" => reg[t] \in Nat

CallsInv == TypeOK /\ QueuesOK /\ (\A t \in Tasks : Frame(t)) /\ RunningIsReady

(* What a step of t leaves to the others.                                   *)
Same(t) ==
  \A u \in Tasks : u # t =>
    /\ pc'[u] = pc[u] /\ back'[u] = back[u]
    /\ arg_task'[u] = arg_task[u] /\ arg_queue'[u] = arg_queue[u]
    /\ target'[u] = target[u] /\ reg'[u] = reg[u] /\ aux'[u] = aux[u]

LEMMA FramesAfter ==
  ASSUME CallsInv, NEW t \in Tasks, Same(t), Frame(t)'
  PROVE  \A u \in Tasks : Frame(u)'
<1> SUFFICES ASSUME NEW u \in Tasks, u # t PROVE Frame(u)'
  OBVIOUS
<1>1. Frame(u)
  BY DEF CallsInv
<1> QED BY <1>1 DEF Frame, Same

(* A step of the running t that stays out of the queues.                    *)
LEMMA QuietCall ==
  ASSUME CallsInv, NEW t \in Tasks, Running(t), Same(t), Frame(t)', TypeOK',
         queues' = queues,
         curr' = Dispatcher \/ (curr' = curr /\ (Leaving(t) => Leaving(t)'))
  PROVE  CallsInv'
<1>1. QueuesOK'
  BY DEF CallsInv, QueuesOK, In
<1>2. RunningIsReady'
  BY KernelAssumption DEF CallsInv, RunningIsReady, Running
<1> QED BY <1>1, <1>2, FramesAfter DEF CallsInv

(* A step of the running t that changes the queues.                         *)
LEMMA QueueCall ==
  ASSUME CallsInv, NEW t \in Tasks, Running(t), Same(t), Frame(t)', TypeOK', QueuesOK',
         curr' = curr,
         Leaving(t)' \/ (~Leaving(t) /\ (In("ready", t) => In("ready", t)'))
  PROVE  CallsInv'
<1>1. RunningIsReady'
  BY DEF CallsInv, RunningIsReady, Running, In
<1> QED BY <1>1, FramesAfter DEF CallsInv

LEMMA GotoTypes ==
  ASSUME TypeOK, NEW t \in Tasks, NEW l \in TasksLabels \cup KernelLabels, Goto(t, l)
  PROVE  /\ pc' \in [Tasks -> Labels \cup KernelLabels] /\ pc'[t] = l
         /\ \A u \in Tasks : u # t => pc'[u] = pc[u]
BY TasksAssumption DEF Goto, TypeOK, KernelTypeOK

LEMMA Remainder ==
  ASSUME NEW a \in Int, NEW b \in Nat \ {0}
  PROVE  (a % b) + 1 \in 1..b
OBVIOUS

LEMMA SuccessorType ==
  ASSUME QueuesOK, NEW u \in Tasks
  PROVE  successor(u) \in Tasks \cup {NULL}
<1>1. CASE ~Linked(u)
  BY <1>1 DEF successor
<1>2. CASE Linked(u)
  <2> DEFINE q == CHOOSE q \in Queues : Contains(queues[q], u)
             i == CHOOSE i \in 1..Len(queues[q]) : queues[q][i] = u
             n == (i % Len(queues[q])) + 1
  <2>1. q \in Queues /\ Contains(queues[q], u)
    BY <1>2 DEF Linked
  <2> HIDE DEF q
  <2>2. i \in 1..Len(queues[q])
    BY <2>1 DEF Contains
  <2>3. queues[q] \in Seq(Tasks) /\ Len(queues[q]) \in Nat
    BY <2>1, LenProperties DEF QueuesOK
  <2>4. n \in 1..Len(queues[q])
    <3> HIDE DEF i
    <3>1. i \in Int /\ Len(queues[q]) \in Nat \ {0}
      BY <2>2, <2>3
    <3> QED BY <3>1, Remainder
  <2>5. queues[q][n] \in Tasks
    BY <2>3, <2>4, ElementOfSeq
  <2>6. successor(u) = queues[q][n]
    BY <1>2 DEF successor, q
  <2> QED BY <2>5, <2>6
<1> QED BY <1>1, <1>2

(* What a quiet step of t shows to the lemma above.                         *)
Quiet(t) ==
  /\ TypeOK' /\ Same(t) /\ Frame(t)'
  /\ queues' = queues /\ curr' = curr /\ (Leaving(t) => Leaving(t)')

LEMMA QuietSteps ==
  ASSUME CallsInv, NEW t \in Tasks, Running(t),
         \/ task_setprio(t)
         \/ task_sleep(t)
         \/ task_wait(t)
         \/ wait_set(t)
         \/ wait_return(t)
         \/ init_id_load(t)
         \/ init_id_store(t)
         \/ init_fill(t)
         \/ init_count_load(t)
         \/ init_count_store(t)
         \/ task_exit(t)
         \/ set_exit_code(t)
         \/ exit_head(t)
         \/ exit_next(t)
         \/ exit_clear(t)
         \/ exit_last_clear(t)
         \/ exit_count_load(t)
         \/ exit_count_store(t)
  PROVE  Quiet(t)
<1>0. TypeOK /\ Frame(t)
  BY DEF CallsInv
<1>a. /\ \A p \in Priorities : p \in Int
      /\ \A d \in Durations, c \in 0..CLOCK_MOD-1 : d \in Nat /\ (c + d) % CLOCK_MOD \in 0..CLOCK_MOD-1
  BY KernelAssumption, TasksAssumption
<1>1. CASE task_setprio(t)
  <2>1. UNCHANGED <<curr, queues, status, timeVars, user_tasks_num, os, frameVars, tasksVars>>
    BY <1>1 DEF task_setprio
  <2>2. static_priority' \in [Tasks -> Int] /\ dynamic_priority' \in [Tasks -> Int]
    <3>1. PICK w \in Tasks, prio \in Priorities :
            /\ static_priority' = [static_priority EXCEPT ![w] = short(prio)]
            /\ dynamic_priority' = [dynamic_priority EXCEPT ![w] = short(prio)]
      BY <1>1 DEF task_setprio
    <3>2. short(prio) \in Int
      BY <1>a, ShortType
    <3> QED BY <3>1, <3>2, <1>0 DEF TypeOK, KernelTypeOK
  <2>3. TypeOK'
    BY <2>1, <2>2, <1>0 DEF TypeOK, KernelTypeOK, timeVars, argVars, frameVars, tasksVars,
                            descVars, localVars
  <2>4. Same(t) /\ Frame(t)' /\ queues' = queues /\ curr' = curr /\ (Leaving(t) => Leaving(t)')
    BY <2>1, <1>0 DEF Same, Frame, Leaving, LeavingLabels, argVars, frameVars, tasksVars, localVars
  <2> QED BY <2>3, <2>4 DEF Quiet
<1>2. CASE task_sleep(t)
  <2>1. Goto(t, "suspend_remove")
    BY <1>2 DEF task_sleep, call_suspend
  <2>2. /\ pc' \in [Tasks -> Labels \cup KernelLabels] /\ pc'[t] = "suspend_remove"
        /\ \A u \in Tasks : u # t => pc'[u] = pc[u]
    BY <2>1, <1>0, GotoTypes DEF TasksLabels, KernelLabels
  <2>a. wake_up_time' \in [Tasks -> 0..CLOCK_MOD-1] /\ due' \in [Tasks -> Nat]
    <3>1. PICK d \in Durations :
            /\ wake_up_time' = [wake_up_time EXCEPT ![t] = (sysclock + d) % CLOCK_MOD]
            /\ due' = [due EXCEPT ![t] = d]
      BY <1>2 DEF task_sleep
    <3>2. d \in Nat /\ (sysclock + d) % CLOCK_MOD \in 0..CLOCK_MOD-1
      BY <1>0, <1>a DEF TypeOK, KernelTypeOK
    <3> QED BY <3>1, <3>2, <1>0 DEF TypeOK, KernelTypeOK
  <2>3. TypeOK'
    BY <2>2, <2>a, <1>2, <1>0, TasksAssumption DEF task_sleep, At, Calls, call_suspend, TasksLabels, Queues, TypeOK, KernelTypeOK,
       coreVars, prioVars, timeVars, argVars, frameVars, descVars, localVars
  <2>4. Same(t) /\ Frame(t)'
    BY <2>2, <1>2, <1>0 DEF task_sleep, At, Calls, call_suspend, TypeOK, KernelTypeOK, Same, Frame, InitLabels, Suspending, Resuming,
       coreVars, prioVars, timeVars, argVars, frameVars, descVars, localVars
  <2>5. queues' = queues /\ curr' = curr /\ (Leaving(t) => Leaving(t)')
    BY <2>2, <1>2 DEF task_sleep, At, Calls, call_suspend, Leaving, LeavingLabels, coreVars
  <2> QED BY <2>3, <2>4, <2>5 DEF Quiet
<1>3. CASE task_wait(t)
  <2>1. Goto(t, "wait_set")
    BY <1>3 DEF task_wait
  <2>2. /\ pc' \in [Tasks -> Labels \cup KernelLabels] /\ pc'[t] = "wait_set"
        /\ \A u \in Tasks : u # t => pc'[u] = pc[u]
    BY <2>1, <1>0, GotoTypes DEF TasksLabels, KernelLabels
  <2>3. TypeOK'
    BY <2>2, <1>3, <1>0, TasksAssumption DEF task_wait, At, Calls, TypeOK, KernelTypeOK,
       coreVars, prioVars, timeVars, argVars, frameVars, descVars, localVars
  <2>4. Same(t) /\ Frame(t)'
    BY <2>2, <1>3, <1>0 DEF task_wait, At, Calls, TypeOK, KernelTypeOK, Same, Frame, InitLabels, Suspending, Resuming,
       coreVars, prioVars, timeVars, argVars, frameVars, descVars, localVars
  <2>5. queues' = queues /\ curr' = curr /\ (Leaving(t) => Leaving(t)')
    BY <2>2, <1>3 DEF task_wait, At, Calls, Leaving, LeavingLabels, coreVars
  <2> QED BY <2>3, <2>4, <2>5 DEF Quiet
<1>4. CASE wait_set(t)
  <2>1. Goto(t, "suspend_remove")
    BY <1>4 DEF wait_set, call_suspend
  <2>2. /\ pc' \in [Tasks -> Labels \cup KernelLabels] /\ pc'[t] = "suspend_remove"
        /\ \A u \in Tasks : u # t => pc'[u] = pc[u]
    BY <2>1, <1>0, GotoTypes DEF TasksLabels, KernelLabels
  <2>3. TypeOK'
    BY <2>2, <1>4, <1>0, TasksAssumption DEF wait_set, At, call_suspend, Frame, TasksLabels, Queues, TypeOK, KernelTypeOK,
       coreVars, prioVars, timeVars, argVars, frameVars, descVars, localVars
  <2>4. Same(t) /\ Frame(t)'
    BY <2>2, <1>4, <1>0 DEF wait_set, At, call_suspend, TypeOK, KernelTypeOK, Same, Frame, InitLabels, Suspending, Resuming,
       coreVars, prioVars, timeVars, argVars, frameVars, descVars, localVars
  <2>5. queues' = queues /\ curr' = curr /\ (Leaving(t) => Leaving(t)')
    BY <2>2, <1>4 DEF wait_set, At, call_suspend, Leaving, LeavingLabels, coreVars
  <2> QED BY <2>3, <2>4, <2>5 DEF Quiet
<1>5. CASE wait_return(t)
  <2>1. Goto(t, "user")
    BY <1>5 DEF wait_return
  <2>2. /\ pc' \in [Tasks -> Labels \cup KernelLabels] /\ pc'[t] = "user"
        /\ \A u \in Tasks : u # t => pc'[u] = pc[u]
    BY <2>1, <1>0, GotoTypes DEF TasksLabels, KernelLabels
  <2>3. TypeOK'
    BY <2>2, <1>5, <1>0, TasksAssumption DEF wait_return, At, TypeOK, KernelTypeOK,
       coreVars, prioVars, timeVars, argVars, frameVars, descVars, localVars
  <2>4. Same(t) /\ Frame(t)'
    BY <2>2, <1>5, <1>0 DEF wait_return, At, TypeOK, KernelTypeOK, Same, Frame, InitLabels, Suspending, Resuming,
       coreVars, prioVars, timeVars, argVars, frameVars, descVars, localVars
  <2>5. queues' = queues /\ curr' = curr /\ (Leaving(t) => Leaving(t)')
    BY <2>2, <1>5 DEF wait_return, At, Leaving, LeavingLabels, coreVars
  <2> QED BY <2>3, <2>4, <2>5 DEF Quiet
<1>6. CASE init_id_load(t)
  <2>1. Goto(t, "init_id_store")
    BY <1>6 DEF init_id_load
  <2>2. /\ pc' \in [Tasks -> Labels \cup KernelLabels] /\ pc'[t] = "init_id_store"
        /\ \A u \in Tasks : u # t => pc'[u] = pc[u]
    BY <2>1, <1>0, GotoTypes DEF TasksLabels, KernelLabels
  <2>a. reg' \in [Tasks -> Int]
    BY <2>2, <1>6, <1>0, <1>a DEF init_id_load, At, TypeOK, KernelTypeOK
  <2>3. TypeOK'
    BY <2>2, <2>a, <1>6, <1>0, TasksAssumption DEF init_id_load, At, TypeOK, KernelTypeOK,
       coreVars, prioVars, timeVars, argVars, frameVars, descVars, localVars
  <2>4. Same(t) /\ Frame(t)'
    BY <2>2, <1>6, <1>0 DEF init_id_load, At, TypeOK, KernelTypeOK, Same, Frame, InitLabels, Suspending, Resuming,
       coreVars, prioVars, timeVars, argVars, frameVars, descVars, localVars
  <2>5. queues' = queues /\ curr' = curr /\ (Leaving(t) => Leaving(t)')
    BY <2>2, <1>6 DEF init_id_load, At, Leaving, LeavingLabels, coreVars
  <2> QED BY <2>3, <2>4, <2>5 DEF Quiet
<1>7. CASE init_id_store(t)
  <2>1. Goto(t, "init_fill")
    BY <1>7 DEF init_id_store
  <2>2. /\ pc' \in [Tasks -> Labels \cup KernelLabels] /\ pc'[t] = "init_fill"
        /\ \A u \in Tasks : u # t => pc'[u] = pc[u]
    BY <2>1, <1>0, GotoTypes DEF TasksLabels, KernelLabels
  <2>a. last_task_id' \in Nat /\ reg' \in [Tasks -> Int]
    BY <2>2, <1>7, <1>0, <1>a DEF init_id_store, At, new_id, TypeOK, KernelTypeOK, Frame
  <2>3. TypeOK'
    BY <2>2, <2>a, <1>7, <1>0, TasksAssumption DEF init_id_store, At, new_id, Frame, TypeOK, KernelTypeOK,
       coreVars, prioVars, timeVars, argVars, frameVars, descVars, localVars
  <2>4. Same(t) /\ Frame(t)'
    BY <2>2, <1>7, <1>0 DEF init_id_store, At, new_id, TypeOK, KernelTypeOK, Same, Frame, InitLabels, Suspending, Resuming,
       coreVars, prioVars, timeVars, argVars, frameVars, descVars, localVars
  <2>5. queues' = queues /\ curr' = curr /\ (Leaving(t) => Leaving(t)')
    BY <2>2, <1>7 DEF init_id_store, At, new_id, Leaving, LeavingLabels, coreVars
  <2> QED BY <2>3, <2>4, <2>5 DEF Quiet
<1>8. CASE init_fill(t)
  <2>1. Goto(t, "init_append")
    BY <1>8 DEF init_fill
  <2>2. /\ pc' \in [Tasks -> Labels \cup KernelLabels] /\ pc'[t] = "init_append"
        /\ \A u \in Tasks : u # t => pc'[u] = pc[u]
    BY <2>1, <1>0, GotoTypes DEF TasksLabels, KernelLabels
  <2>a. /\ static_priority' \in [Tasks -> Int] /\ dynamic_priority' \in [Tasks -> Int]
        /\ id' \in [Tasks -> Nat] /\ waiting_task' \in [Tasks -> Nat \cup {-1}]
        /\ wake_up_time' \in [Tasks -> 0..CLOCK_MOD-1]
    <3>1. target[t] \in Tasks /\ 0 \in 0..CLOCK_MOD-1
      BY <1>8, <1>0, KernelAssumption DEF init_fill, At, Frame, InitLabels
    <3>2. static_priority' \in [Tasks -> Int] /\ dynamic_priority' \in [Tasks -> Int]
      <4>1. /\ static_priority' = [static_priority EXCEPT ![target[t]] = 0]
            /\ dynamic_priority' = [dynamic_priority EXCEPT ![target[t]] = 0]
        BY <1>8 DEF init_fill, DEFAULT_PRIORITY
      <4>2. static_priority \in [Tasks -> Int] /\ dynamic_priority \in [Tasks -> Int]
        BY <1>0 DEF TypeOK, KernelTypeOK
      <4> QED BY <3>1, <4>1, <4>2
    <3>3. /\ id' \in [Tasks -> Nat] /\ waiting_task' \in [Tasks -> Nat \cup {-1}]
          /\ wake_up_time' \in [Tasks -> 0..CLOCK_MOD-1]
      BY <3>1, <1>8, <1>0 DEF init_fill, TypeOK, KernelTypeOK
    <3> QED BY <3>2, <3>3
  <2>3. TypeOK'
    BY <2>2, <2>a, <1>8, <1>0, TasksAssumption DEF init_fill, At, DEFAULT_PRIORITY, Frame, InitLabels, TypeOK, KernelTypeOK,
       coreVars, prioVars, timeVars, argVars, frameVars, descVars, localVars
  <2>4. Same(t) /\ Frame(t)'
    BY <2>2, <1>8, <1>0 DEF init_fill, At, DEFAULT_PRIORITY, TypeOK, KernelTypeOK, Same, Frame, InitLabels, Suspending, Resuming,
       coreVars, prioVars, timeVars, argVars, frameVars, descVars, localVars
  <2>5. queues' = queues /\ curr' = curr /\ (Leaving(t) => Leaving(t)')
    BY <2>2, <1>8 DEF init_fill, At, DEFAULT_PRIORITY, Leaving, LeavingLabels, coreVars
  <2> QED BY <2>3, <2>4, <2>5 DEF Quiet
<1>9. CASE init_count_load(t)
  <2>1. Goto(t, "init_count_store")
    BY <1>9 DEF init_count_load, count_load
  <2>2. /\ pc' \in [Tasks -> Labels \cup KernelLabels] /\ pc'[t] = "init_count_store"
        /\ \A u \in Tasks : u # t => pc'[u] = pc[u]
    BY <2>1, <1>0, GotoTypes DEF TasksLabels, KernelLabels
  <2>a. reg' \in [Tasks -> Int]
    BY <2>2, <1>9, <1>0, <1>a DEF init_count_load, At, count_load, TypeOK, KernelTypeOK, coreVars
  <2>3. TypeOK'
    BY <2>2, <2>a, <1>9, <1>0, TasksAssumption DEF init_count_load, At, count_load, TypeOK, KernelTypeOK,
       coreVars, prioVars, timeVars, argVars, frameVars, descVars, localVars
  <2>4. Same(t) /\ Frame(t)'
    BY <2>2, <1>9, <1>0 DEF init_count_load, At, count_load, TypeOK, KernelTypeOK, Same, Frame, InitLabels, Suspending, Resuming,
       coreVars, prioVars, timeVars, argVars, frameVars, descVars, localVars
  <2>5. queues' = queues /\ curr' = curr /\ (Leaving(t) => Leaving(t)')
    BY <2>2, <1>9 DEF init_count_load, At, count_load, Leaving, LeavingLabels, coreVars
  <2> QED BY <2>3, <2>4, <2>5 DEF Quiet
<1>10. CASE init_count_store(t)
  <2>1. Goto(t, "user")
    BY <1>10 DEF init_count_store, count_store
  <2>2. /\ pc' \in [Tasks -> Labels \cup KernelLabels] /\ pc'[t] = "user"
        /\ \A u \in Tasks : u # t => pc'[u] = pc[u]
    BY <2>1, <1>0, GotoTypes DEF TasksLabels, KernelLabels
  <2>a. user_tasks_num' \in Int /\ reg' \in [Tasks -> Int]
    BY <2>2, <1>10, <1>0, <1>a DEF init_count_store, At, count_store, TypeOK, KernelTypeOK
  <2>3. TypeOK'
    BY <2>2, <2>a, <1>10, <1>0, TasksAssumption DEF init_count_store, At, count_store, TypeOK, KernelTypeOK,
       coreVars, prioVars, timeVars, argVars, frameVars, descVars, localVars
  <2>4. Same(t) /\ Frame(t)'
    BY <2>2, <1>10, <1>0 DEF init_count_store, At, count_store, TypeOK, KernelTypeOK, Same, Frame, InitLabels, Suspending, Resuming,
       coreVars, prioVars, timeVars, argVars, frameVars, descVars, localVars
  <2>5. queues' = queues /\ curr' = curr /\ (Leaving(t) => Leaving(t)')
    BY <2>2, <1>10 DEF init_count_store, At, count_store, Leaving, LeavingLabels, coreVars
  <2> QED BY <2>3, <2>4, <2>5 DEF Quiet
<1>11. CASE task_exit(t)
  <2>1. Goto(t, "exit_code")
    BY <1>11 DEF task_exit
  <2>2. /\ pc' \in [Tasks -> Labels \cup KernelLabels] /\ pc'[t] = "exit_code"
        /\ \A u \in Tasks : u # t => pc'[u] = pc[u]
    BY <2>1, <1>0, GotoTypes DEF TasksLabels, KernelLabels
  <2>3. TypeOK'
    BY <2>2, <1>11, <1>0, TasksAssumption DEF task_exit, At, Calls, TypeOK, KernelTypeOK,
       coreVars, prioVars, timeVars, argVars, frameVars, tasksVars, descVars, localVars
  <2>4. Same(t) /\ Frame(t)'
    BY <2>2, <1>11, <1>0 DEF task_exit, At, Calls, TypeOK, KernelTypeOK, Same, Frame, InitLabels, Suspending, Resuming,
       coreVars, prioVars, timeVars, argVars, frameVars, tasksVars, descVars, localVars
  <2>5. queues' = queues /\ curr' = curr /\ (Leaving(t) => Leaving(t)')
    BY <2>2, <1>11 DEF task_exit, At, Calls, Leaving, LeavingLabels, coreVars
  <2> QED BY <2>3, <2>4, <2>5 DEF Quiet
<1>12. CASE exit_head(t)
  <2>1. Goto(t, "exit_loop")
    BY <1>12 DEF exit_head
  <2>2. /\ pc' \in [Tasks -> Labels \cup KernelLabels] /\ pc'[t] = "exit_loop"
        /\ \A u \in Tasks : u # t => pc'[u] = pc[u]
    BY <2>1, <1>0, GotoTypes DEF TasksLabels, KernelLabels
  <2>a. aux' \in [Tasks -> Tasks \cup {NULL}]
    BY <2>2, <1>12, <1>0, <1>a, HeadIn DEF exit_head, At, TypeOK, KernelTypeOK, CallsInv, Queues
  <2>3. TypeOK'
    BY <2>2, <2>a, <1>12, <1>0, TasksAssumption DEF exit_head, At, TypeOK, KernelTypeOK,
       coreVars, prioVars, timeVars, argVars, frameVars, descVars, localVars
  <2>4. Same(t) /\ Frame(t)'
    BY <2>2, <1>12, <1>0 DEF exit_head, At, TypeOK, KernelTypeOK, Same, Frame, InitLabels, Suspending, Resuming,
       coreVars, prioVars, timeVars, argVars, frameVars, descVars, localVars
  <2>5. queues' = queues /\ curr' = curr /\ (Leaving(t) => Leaving(t)')
    BY <2>2, <1>12 DEF exit_head, At, Leaving, LeavingLabels, coreVars
  <2> QED BY <2>3, <2>4, <2>5 DEF Quiet
<1>13. CASE exit_clear(t)
  <2>1. Goto(t, "exit_loop")
    BY <1>13 DEF exit_clear
  <2>2. /\ pc' \in [Tasks -> Labels \cup KernelLabels] /\ pc'[t] = "exit_loop"
        /\ \A u \in Tasks : u # t => pc'[u] = pc[u]
    BY <2>1, <1>0, GotoTypes DEF TasksLabels, KernelLabels
  <2>3. TypeOK'
    BY <2>2, <1>13, <1>0, TasksAssumption DEF exit_clear, At, Frame, TypeOK, KernelTypeOK,
       coreVars, prioVars, timeVars, argVars, frameVars, descVars, localVars
  <2>4. Same(t) /\ Frame(t)'
    BY <2>2, <1>13, <1>0 DEF exit_clear, At, TypeOK, KernelTypeOK, Same, Frame, InitLabels, Suspending, Resuming,
       coreVars, prioVars, timeVars, argVars, frameVars, descVars, localVars
  <2>5. queues' = queues /\ curr' = curr /\ (Leaving(t) => Leaving(t)')
    BY <2>2, <1>13 DEF exit_clear, At, Leaving, LeavingLabels, coreVars
  <2> QED BY <2>3, <2>4, <2>5 DEF Quiet
<1>14. CASE exit_last_clear(t)
  <2>1. Goto(t, "exit_remove")
    BY <1>14 DEF exit_last_clear
  <2>2. /\ pc' \in [Tasks -> Labels \cup KernelLabels] /\ pc'[t] = "exit_remove"
        /\ \A u \in Tasks : u # t => pc'[u] = pc[u]
    BY <2>1, <1>0, GotoTypes DEF TasksLabels, KernelLabels
  <2>3. TypeOK'
    BY <2>2, <1>14, <1>0, TasksAssumption DEF exit_last_clear, At, Frame, TypeOK, KernelTypeOK,
       coreVars, prioVars, timeVars, argVars, frameVars, descVars, localVars
  <2>4. Same(t) /\ Frame(t)'
    BY <2>2, <1>14, <1>0 DEF exit_last_clear, At, TypeOK, KernelTypeOK, Same, Frame, InitLabels, Suspending, Resuming,
       coreVars, prioVars, timeVars, argVars, frameVars, descVars, localVars
  <2>5. queues' = queues /\ curr' = curr /\ (Leaving(t) => Leaving(t)')
    BY <2>2, <1>14 DEF exit_last_clear, At, Leaving, LeavingLabels, coreVars
  <2> QED BY <2>3, <2>4, <2>5 DEF Quiet
<1>15. CASE exit_count_load(t)
  <2>1. Goto(t, "exit_count_store")
    BY <1>15 DEF exit_count_load, count_load
  <2>2. /\ pc' \in [Tasks -> Labels \cup KernelLabels] /\ pc'[t] = "exit_count_store"
        /\ \A u \in Tasks : u # t => pc'[u] = pc[u]
    BY <2>1, <1>0, GotoTypes DEF TasksLabels, KernelLabels
  <2>a. reg' \in [Tasks -> Int]
    BY <2>2, <1>15, <1>0, <1>a DEF exit_count_load, At, count_load, TypeOK, KernelTypeOK, coreVars
  <2>3. TypeOK'
    BY <2>2, <2>a, <1>15, <1>0, TasksAssumption DEF exit_count_load, At, count_load, TypeOK, KernelTypeOK,
       coreVars, prioVars, timeVars, argVars, frameVars, descVars, localVars
  <2>4. Same(t) /\ Frame(t)'
    BY <2>2, <1>15, <1>0 DEF exit_count_load, At, count_load, TypeOK, KernelTypeOK, Same, Frame, InitLabels, Suspending, Resuming,
       coreVars, prioVars, timeVars, argVars, frameVars, descVars, localVars
  <2>5. queues' = queues /\ curr' = curr /\ (Leaving(t) => Leaving(t)')
    BY <2>2, <1>15 DEF exit_count_load, At, count_load, Leaving, LeavingLabels, coreVars
  <2> QED BY <2>3, <2>4, <2>5 DEF Quiet
<1>16. CASE exit_count_store(t)
  <2>1. Goto(t, "exit_switch")
    BY <1>16 DEF exit_count_store, count_store
  <2>2. /\ pc' \in [Tasks -> Labels \cup KernelLabels] /\ pc'[t] = "exit_switch"
        /\ \A u \in Tasks : u # t => pc'[u] = pc[u]
    BY <2>1, <1>0, GotoTypes DEF TasksLabels, KernelLabels
  <2>a. user_tasks_num' \in Int /\ reg' \in [Tasks -> Int]
    BY <2>2, <1>16, <1>0, <1>a DEF exit_count_store, At, count_store, TypeOK, KernelTypeOK
  <2>3. TypeOK'
    BY <2>2, <2>a, <1>16, <1>0, TasksAssumption DEF exit_count_store, At, count_store, TypeOK, KernelTypeOK,
       coreVars, prioVars, timeVars, argVars, frameVars, descVars, localVars
  <2>4. Same(t) /\ Frame(t)'
    BY <2>2, <1>16, <1>0 DEF exit_count_store, At, count_store, TypeOK, KernelTypeOK, Same, Frame, InitLabels, Suspending, Resuming,
       coreVars, prioVars, timeVars, argVars, frameVars, descVars, localVars
  <2>5. queues' = queues /\ curr' = curr /\ (Leaving(t) => Leaving(t)')
    BY <2>2, <1>16 DEF exit_count_store, At, count_store, Leaving, LeavingLabels, coreVars
  <2> QED BY <2>3, <2>4, <2>5 DEF Quiet
<1>17. CASE set_exit_code(t)
  <2>1. Goto(t, "exit_head")
    BY <1>17 DEF set_exit_code
  <2>2. /\ pc' \in [Tasks -> Labels \cup KernelLabels] /\ pc'[t] = "exit_head"
        /\ \A u \in Tasks : u # t => pc'[u] = pc[u]
    BY <2>1, <1>0, GotoTypes DEF TasksLabels, KernelLabels
  <2>3. TypeOK'
    BY <2>2, <1>17, <1>0, TasksAssumption DEF set_exit_code, At, TypeOK, KernelTypeOK,
       coreVars, prioVars, timeVars, argVars, frameVars, descVars, localVars
  <2>4. Same(t) /\ Frame(t)'
    BY <2>2, <1>17, <1>0 DEF set_exit_code, At, TypeOK, KernelTypeOK, Same, Frame, InitLabels, Suspending, Resuming,
       coreVars, prioVars, timeVars, argVars, frameVars, descVars, localVars
  <2>5. queues' = queues /\ curr' = curr /\ (Leaving(t) => Leaving(t)')
    BY <2>2, <1>17 DEF set_exit_code, At, Leaving, LeavingLabels, coreVars
  <2> QED BY <2>3, <2>4, <2>5 DEF Quiet
<1>18. CASE exit_next(t)
  <2>1. Goto(t, "exit_check")
    BY <1>18 DEF exit_next
  <2>2. /\ pc' \in [Tasks -> Labels \cup KernelLabels] /\ pc'[t] = "exit_check"
        /\ \A u \in Tasks : u # t => pc'[u] = pc[u]
    BY <2>1, <1>0, GotoTypes DEF TasksLabels, KernelLabels
  <2>a. aux[t] \in Tasks /\ next' \in [Tasks -> Tasks \cup {NULL}]
    <3>1. aux[t] \in Tasks
      BY <1>18, <1>0 DEF exit_next, At, Frame
    <3>2. successor(aux[t]) \in Tasks \cup {NULL}
      BY <3>1, SuccessorType DEF CallsInv
    <3> QED BY <3>1, <3>2, <1>18, <1>0 DEF exit_next, TypeOK
  <2>3. TypeOK'
    BY <2>2, <2>a, <1>18, <1>0, TasksAssumption DEF exit_next, At, TypeOK, KernelTypeOK,
       coreVars, prioVars, timeVars, argVars, frameVars, descVars, localVars
  <2>4. Same(t) /\ Frame(t)'
    BY <2>2, <2>a, <1>18, <1>0 DEF exit_next, At, TypeOK, KernelTypeOK, Same, Frame, InitLabels, Suspending, Resuming,
       coreVars, prioVars, timeVars, argVars, frameVars, descVars, localVars
  <2>5. queues' = queues /\ curr' = curr /\ (Leaving(t) => Leaving(t)')
    BY <2>2, <1>18 DEF exit_next, At, Leaving, LeavingLabels, coreVars
  <2> QED BY <2>3, <2>4, <2>5 DEF Quiet
<1> QED BY <1>1, <1>2, <1>3, <1>4, <1>5, <1>6, <1>7, <1>8, <1>9, <1>10, <1>11, <1>12, <1>13, <1>14, <1>15, <1>16,
           <1>17, <1>18

(* The loop of task_exit: a resume, or the next task, or the end.           *)
LEMMA LoopSteps ==
  ASSUME CallsInv, NEW t \in Tasks, Running(t),
         exit_loop(t) \/ exit_check(t) \/ exit_last(t)
  PROVE  Quiet(t)
<1>0. TypeOK /\ QueuesOK /\ Frame(t)
  BY DEF CallsInv
<1>1. CASE exit_loop(t)
  <2>1. CASE pc' = pc
    <3>1. UNCHANGED <<curr, queues, status, prioVars, timeVars, user_tasks_num, argVars,
                      descVars, localVars, due>>
          /\ os' \in {"up", "exited", "NULL_PTR_ERROR", "segmentation_fault"}
      BY <1>1, <1>0 DEF exit_loop, TypeOK, KernelTypeOK
    <3>2. TypeOK'
      BY <2>1, <3>1, <1>0 DEF TypeOK, KernelTypeOK, prioVars, timeVars, argVars, descVars, localVars
    <3> QED BY <2>1, <3>1, <3>2, <1>0 DEF Quiet, Same, Frame, Leaving, LeavingLabels, argVars, localVars
  <2>2. CASE pc' # pc
    <3> DEFINE l == IF aux[t] = NULL THEN "exit_remove"
                    ELSE IF aux[t] = Last(queues["suspended"]) THEN "exit_last" ELSE "exit_next"
    <3>1. UNCHANGED <<coreVars, argVars, descVars, localVars, due>> /\ Goto(t, l)
      BY <1>1, <2>2 DEF exit_loop, coreVars
    <3>2. /\ pc' \in [Tasks -> Labels \cup KernelLabels] /\ pc'[t] = l
          /\ \A u \in Tasks : u # t => pc'[u] = pc[u]
      BY <3>1, <1>0, GotoTypes DEF TasksLabels
    <3>3. TypeOK'
      BY <3>1, <3>2, <1>0 DEF TypeOK, KernelTypeOK, coreVars, prioVars, timeVars, argVars,
                              descVars, localVars
    <3>4. l # "exit_remove" => aux[t] \in Tasks
      BY <1>0 DEF TypeOK
    <3>5. Same(t) /\ Frame(t)'
      BY <3>1, <3>2, <3>4 DEF Same, Frame, InitLabels, Suspending, Resuming, argVars, localVars
    <3>6. pc[t] = "exit_loop"
      BY <1>1 DEF exit_loop, At
    <3> QED BY <3>1, <3>3, <3>5, <3>6 DEF Quiet, Leaving, LeavingLabels, coreVars
  <2> QED BY <2>1, <2>2
<1>2. CASE /\ exit_check(t) \/ exit_last(t)
           /\ awaits(aux[t], t)
  <2> DEFINE l == IF pc[t] = "exit_check" THEN "exit_clear" ELSE "exit_last_clear"
  <2>1. /\ pc[t] \in {"exit_check", "exit_last"}
        /\ call_resume(t, aux[t], "suspended", l)
        /\ UNCHANGED <<curr, queues, status, prioVars, timeVars, user_tasks_num, descVars,
                       target, reg, aux, next, due>>
    BY <1>2 DEF exit_check, exit_last, At, tasksVars, localVars
  <2>2. aux[t] \in Tasks
    BY <2>1, <1>0 DEF Frame
  <2>3. /\ Goto(t, "resume_remove") /\ os' = os
        /\ arg_task' = [arg_task EXCEPT ![t] = aux[t]]
        /\ arg_queue' = [arg_queue EXCEPT ![t] = "suspended"]
        /\ back' = [back EXCEPT ![t] = l]
    BY <2>1, <2>2, KernelAssumption DEF call_resume
  <2>4. /\ pc' \in [Tasks -> Labels \cup KernelLabels] /\ pc'[t] = "resume_remove"
        /\ \A u \in Tasks : u # t => pc'[u] = pc[u]
    BY <2>3, <1>0, GotoTypes DEF KernelLabels
  <2>6. l \in Labels /\ "suspended" \in Queues
    BY TasksAssumption DEF TasksLabels, Queues
  <2>7. TypeOK'
    BY <2>1, <2>2, <2>3, <2>4, <2>6, <1>0
       DEF TypeOK, KernelTypeOK, prioVars, timeVars, descVars
  <2>8. Same(t) /\ Frame(t)'
    BY <2>1, <2>2, <2>3, <2>4, <2>6, <1>0
       DEF Same, Frame, InitLabels, Suspending, Resuming, TypeOK, KernelTypeOK
  <2> QED BY <2>1, <2>7, <2>8 DEF Quiet, Leaving, LeavingLabels
<1>3. CASE exit_check(t) /\ ~awaits(aux[t], t)
  <2>1. /\ pc[t] = "exit_check" /\ Goto(t, "exit_loop")
        /\ aux' = [aux EXCEPT ![t] = next[t]] /\ next' = [next EXCEPT ![t] = NULL]
        /\ UNCHANGED <<coreVars, argVars, descVars, target, reg, due>>
    BY <1>3 DEF exit_check, At, coreVars
  <2>2. /\ pc' \in [Tasks -> Labels \cup KernelLabels] /\ pc'[t] = "exit_loop"
        /\ \A u \in Tasks : u # t => pc'[u] = pc[u]
    BY <2>1, <1>0, GotoTypes DEF TasksLabels
  <2>4. TypeOK'
    BY <2>1, <2>2, <1>0 DEF TypeOK, KernelTypeOK, coreVars, prioVars, timeVars, argVars,
                                  descVars
  <2>5. Same(t) /\ Frame(t)'
    BY <2>1, <2>2, <1>0 DEF Same, Frame, InitLabels, Suspending, Resuming, argVars, TypeOK
  <2> QED BY <2>1, <2>4, <2>5 DEF Quiet, Leaving, LeavingLabels, coreVars
<1>4. CASE exit_last(t) /\ ~awaits(aux[t], t)
  <2>1. /\ pc[t] = "exit_last" /\ Goto(t, "exit_remove")
        /\ UNCHANGED <<coreVars, argVars, tasksVars>>
    BY <1>4 DEF exit_last, At, coreVars
  <2>2. /\ pc' \in [Tasks -> Labels \cup KernelLabels] /\ pc'[t] = "exit_remove"
        /\ \A u \in Tasks : u # t => pc'[u] = pc[u]
    BY <2>1, <1>0, GotoTypes DEF TasksLabels
  <2>3. TypeOK'
    BY <2>1, <2>2, <1>0 DEF TypeOK, KernelTypeOK, coreVars, prioVars, timeVars, argVars,
                            tasksVars, descVars, localVars
  <2>4. Same(t) /\ Frame(t)'
    BY <2>1, <2>2 DEF Same, Frame, InitLabels, Suspending, Resuming, argVars, tasksVars, localVars
  <2> QED BY <2>1, <2>3, <2>4 DEF Quiet, Leaving, LeavingLabels, coreVars
<1> QED BY <1>1, <1>2, <1>3, <1>4

(* The steps with which the running task gives the processor away.          *)
LEMMA SwitchSteps ==
  ASSUME CallsInv, NEW t \in Tasks, Running(t),
         \/ task_yield(t) \/ exit_switch(t)
         \/ suspend_switch(t) /\ UNCHANGED tasksVars
  PROVE  TypeOK' /\ Same(t) /\ Frame(t)' /\ queues' = queues /\ curr' = Dispatcher
<1> DEFINE l == pc'[t]
<1>0. TypeOK /\ Frame(t)
  BY DEF CallsInv
<1>1. /\ curr' = Dispatcher
      /\ status' = status \/ status' = [status EXCEPT ![t] = "SUSPENDED"]
      /\ UNCHANGED <<queues, prioVars, timeVars, user_tasks_num, os, arg_task, tasksVars>>
      /\ \/ UNCHANGED <<pc, back, arg_queue>> /\ pc[t] = "user"
         \/ Goto(t, "dead") /\ UNCHANGED <<back, arg_queue>>
         \/ /\ Goto(t, back[t]) /\ pc[t] = "suspend_switch"
            /\ back' = [back EXCEPT ![t] = NULL] /\ arg_queue' = [arg_queue EXCEPT ![t] = NULL]
  BY DEF task_yield, exit_switch, suspend_switch, switch_to_dispatcher, Calls, At, argVars, frameVars
<1>2. /\ pc' \in [Tasks -> Labels \cup KernelLabels]
      /\ l \in {"user", "dead"} \/ (l = "wait_return" /\ target[t] \in Tasks)
      /\ \A u \in Tasks : u # t => pc'[u] = pc[u]
  <2>1. pc[t] = "suspend_switch" =>
          back[t] = "user" \/ (back[t] = "wait_return" /\ target[t] \in Tasks)
    BY <1>0 DEF Frame, Suspending
  <2>2. CASE UNCHANGED pc /\ pc[t] = "user"
    BY <2>2, <1>0 DEF TypeOK, KernelTypeOK
  <2>3. CASE Goto(t, "dead")
    BY <2>3, <1>0, GotoTypes DEF TasksLabels
  <2>4. CASE Goto(t, back[t]) /\ pc[t] = "suspend_switch"
    BY <2>1, <2>4, <1>0, GotoTypes DEF TasksLabels
  <2> QED BY <1>1, <2>2, <2>3, <2>4
<1>3. back' \in [Tasks -> Labels \cup {NULL}] /\ arg_queue' \in [Tasks -> Queues \cup {NULL}]
  BY <1>0, <1>1 DEF TypeOK, KernelTypeOK
<1>4. status' \in [Tasks -> {"NOT_CREATED", "READY", "RUNNING", "SUSPENDED", "TERMINATED"}]
  BY <1>0, <1>1 DEF TypeOK
<1>5. TypeOK'
  BY <1>0, <1>1, <1>2, <1>3, <1>4
     DEF TypeOK, KernelTypeOK, prioVars, timeVars, tasksVars, descVars, localVars
<1>6. Same(t) /\ Frame(t)'
  <2>1. \A u \in Tasks : u # t => back'[u] = back[u] /\ arg_queue'[u] = arg_queue[u]
    BY <1>0, <1>1 DEF TypeOK, KernelTypeOK
  <2> QED BY <1>1, <1>2, <2>1 DEF Same, Frame, InitLabels, Suspending, Resuming, tasksVars, localVars
<1> QED BY <1>1, <1>5, <1>6

(* The steps that move a task between queues.  A task leaves the ready      *)
(* queue only by its own task_suspend and its own task_exit.                *)
Moved(t) ==
  /\ TypeOK' /\ QueuesOK' /\ Same(t) /\ Frame(t)' /\ curr' = curr
  /\ Leaving(t)' \/ (~Leaving(t) /\ (In("ready", t) => In("ready", t)'))

LEMMA AppendSteps ==
  ASSUME CallsInv, NEW t \in Tasks, Running(t),
         \/ init_append(t)
         \/ (suspend_append(t) \/ resume_append(t)) /\ UNCHANGED tasksVars
  PROVE  Moved(t)
<1>0. TypeOK /\ QueuesOK /\ Frame(t) /\ "ready" \in Queues
  BY DEF CallsInv, Queues
<1>1. CASE init_append(t)
  <2>1. target[t] \in Tasks /\ pc[t] = "init_append"
    BY <1>1, <1>0 DEF init_append, At, Frame, InitLabels
  <2>2. /\ QueuesOK'
        /\ \A p \in Queues, u \in Tasks :
             In(p, u)' <=> In(p, u) \/ (p = "ready" /\ u = target[t] /\ ~Linked(target[t]))
    BY <1>0, <1>1, <2>1, AppendMembers DEF init_append
  <2>3. /\ pc' \in [Tasks -> Labels \cup KernelLabels] /\ pc'[t] = "init_count_load"
        /\ \A u \in Tasks : u # t => pc'[u] = pc[u]
    BY <1>1, <1>0, GotoTypes DEF init_append, TasksLabels
  <2>4. TypeOK'
    BY <2>2, <2>3, <1>1, <1>0 DEF init_append, QueuesOK, TypeOK, KernelTypeOK, prioVars, timeVars,
                                  argVars, descVars
  <2>5. Same(t) /\ Frame(t)' /\ curr' = curr
    BY <2>3, <1>1, <1>0 DEF init_append, Same, Frame, InitLabels, Suspending, Resuming, argVars, TypeOK
  <2> QED BY <1>0, <2>1, <2>2, <2>4, <2>5 DEF Moved, Leaving, LeavingLabels
<1>2. CASE suspend_append(t) /\ UNCHANGED tasksVars
  <2>1. pc[t] = "suspend_append" /\ arg_queue[t] \in Queues
    BY <1>2, <1>0 DEF suspend_append, Frame, Suspending, Queues
  <2>2. QueuesOK'
    BY <1>0, <1>2, <2>1, AppendMembers DEF suspend_append
  <2>3. /\ pc' \in [Tasks -> Labels \cup KernelLabels] /\ pc'[t] = "suspend_switch"
        /\ \A u \in Tasks : u # t => pc'[u] = pc[u]
    BY <1>2, <1>0, GotoTypes DEF suspend_append, KernelLabels
  <2>4. status' \in [Tasks -> {"NOT_CREATED", "READY", "RUNNING", "SUSPENDED", "TERMINATED"}]
    BY <1>2, <1>0 DEF suspend_append, TypeOK
  <2>5. TypeOK'
    BY <2>2, <2>3, <2>4, <1>2, <1>0 DEF suspend_append, QueuesOK, TypeOK, KernelTypeOK, prioVars,
                                        timeVars, argVars, tasksVars, descVars, localVars
  <2>6. Same(t) /\ Frame(t)' /\ curr' = curr
    BY <2>1, <2>3, <1>2, <1>0 DEF suspend_append, Same, Frame, InitLabels, Suspending, Resuming,
                                  argVars, tasksVars, localVars
  <2> QED BY <2>2, <2>3, <2>5, <2>6 DEF Moved, Leaving, LeavingLabels
<1>3. CASE resume_append(t) /\ UNCHANGED tasksVars
  <2>1. /\ pc[t] = "resume_append" /\ arg_task[t] = aux[t] /\ aux[t] \in Tasks
        /\ back[t] \in {"exit_clear", "exit_last_clear"}
    BY <1>3, <1>0 DEF resume_append, Frame, Resuming
  <2>2. /\ QueuesOK'
        /\ \A p \in Queues, u \in Tasks :
             In(p, u)' <=> In(p, u) \/ (p = "ready" /\ u = arg_task[t] /\ ~Linked(arg_task[t]))
    BY <1>0, <1>3, <2>1, AppendMembers DEF resume_append
  <2>3. /\ pc' \in [Tasks -> Labels \cup KernelLabels] /\ pc'[t] = back[t]
        /\ \A u \in Tasks : u # t => pc'[u] = pc[u]
    BY <1>3, <2>1, <1>0, GotoTypes DEF resume_append, TasksLabels
  <2>4. /\ status' \in [Tasks -> {"NOT_CREATED", "READY", "RUNNING", "SUSPENDED", "TERMINATED"}]
        /\ back' \in [Tasks -> Labels \cup {NULL}]
        /\ arg_task' \in [Tasks -> Tasks \cup {NULL}]
        /\ arg_queue' \in [Tasks -> Queues \cup {NULL}]
    BY <1>3, <2>1, <1>0 DEF resume_append, TypeOK, KernelTypeOK
  <2>5. TypeOK'
    BY <2>2, <2>3, <2>4, <1>3, <1>0 DEF resume_append, QueuesOK, TypeOK, KernelTypeOK, prioVars,
                                        timeVars, tasksVars, descVars, localVars
  <2>6. Same(t)
    BY <2>3, <1>3, <1>0 DEF resume_append, Same, TypeOK, KernelTypeOK, tasksVars, localVars
  <2>7. Frame(t)' /\ curr' = curr
    BY <2>1, <2>3, <1>3 DEF resume_append, Frame, InitLabels, Suspending, Resuming, tasksVars, localVars
  <2> QED BY <1>0, <2>1, <2>2, <2>5, <2>6, <2>7 DEF Moved, Leaving, LeavingLabels
<1> QED BY <1>1, <1>2, <1>3

LEMMA RemoveSteps ==
  ASSUME CallsInv, NEW t \in Tasks, Running(t),
         \/ exit_remove(t)
         \/ (suspend_remove(t) \/ resume_remove(t)) /\ UNCHANGED tasksVars
  PROVE  Moved(t)
<1>0. TypeOK /\ QueuesOK /\ Frame(t) /\ "ready" \in Queues /\ "suspended" \in Queues
  BY DEF CallsInv, Queues
<1>1. CASE exit_remove(t)
  <2>1. QueuesOK'
    BY <1>0, <1>1, RemoveMembers DEF exit_remove
  <2>2. /\ pc' \in [Tasks -> Labels \cup KernelLabels] /\ pc'[t] = "exit_count_load"
        /\ \A u \in Tasks : u # t => pc'[u] = pc[u]
    BY <1>1, <1>0, GotoTypes DEF exit_remove, TasksLabels
  <2>3. TypeOK'
    BY <2>1, <2>2, <1>1, <1>0 DEF exit_remove, QueuesOK, TypeOK, KernelTypeOK, prioVars, timeVars,
                                  argVars, descVars
  <2>4. Same(t) /\ Frame(t)' /\ curr' = curr
    BY <2>2, <1>1, <1>0 DEF exit_remove, Same, Frame, InitLabels, Suspending, Resuming, argVars, TypeOK
  <2> QED BY <2>1, <2>2, <2>3, <2>4 DEF Moved, Leaving, LeavingLabels
<1>2. CASE suspend_remove(t) /\ UNCHANGED tasksVars
  <2>1. QueuesOK'
    BY <1>0, <1>2, RemoveMembers DEF suspend_remove
  <2>2. /\ pc' \in [Tasks -> Labels \cup KernelLabels] /\ pc'[t] = "suspend_append"
        /\ \A u \in Tasks : u # t => pc'[u] = pc[u]
    BY <1>2, <1>0, GotoTypes DEF suspend_remove, KernelLabels
  <2>3. TypeOK'
    BY <2>1, <2>2, <1>2, <1>0 DEF suspend_remove, QueuesOK, TypeOK, KernelTypeOK, prioVars,
                                  timeVars, argVars, tasksVars, descVars, localVars
  <2>4. Same(t) /\ Frame(t)' /\ curr' = curr
    BY <2>2, <1>2, <1>0 DEF suspend_remove, Same, Frame, InitLabels, Suspending, Resuming,
                            argVars, tasksVars, localVars
  <2> QED BY <2>1, <2>2, <2>3, <2>4 DEF Moved, Leaving, LeavingLabels
<1>3. CASE resume_remove(t) /\ UNCHANGED tasksVars
  <2>1. /\ pc[t] = "resume_remove" /\ arg_queue[t] = "suspended"
        /\ arg_task[t] = aux[t] /\ aux[t] \in Tasks
    BY <1>3, <1>0 DEF resume_remove, Frame, Resuming
  <2>2. /\ QueuesOK'
        /\ \A p \in Queues, u \in Tasks : In(p, u)' <=> In(p, u) /\ ~(p = "suspended" /\ u = aux[t])
    BY <1>0, <1>3, <2>1, RemoveMembers DEF resume_remove
  <2>3. /\ pc' \in [Tasks -> Labels \cup KernelLabels] /\ pc'[t] = "resume_append"
        /\ \A u \in Tasks : u # t => pc'[u] = pc[u]
    BY <1>3, <1>0, GotoTypes DEF resume_remove, KernelLabels
  <2>4. TypeOK'
    BY <2>2, <2>3, <1>3, <1>0 DEF resume_remove, QueuesOK, TypeOK, KernelTypeOK, prioVars,
                                  timeVars, argVars, tasksVars, descVars, localVars
  <2>5. Same(t) /\ Frame(t)' /\ curr' = curr
    BY <2>1, <2>3, <1>3, <1>0 DEF resume_remove, Same, Frame, InitLabels, Suspending, Resuming,
                                  argVars, tasksVars, localVars
  <2>6. In("ready", t) => In("ready", t)'
    BY <1>0, <2>2
  <2> QED BY <2>1, <2>2, <2>4, <2>5, <2>6 DEF Moved, Leaving, LeavingLabels
<1> QED BY <1>1, <1>2, <1>3

(* getcontext gives the new task its first label, and no other local.       *)
LEMMA CreateStep ==
  ASSUME CallsInv, NEW t \in Tasks, Running(t), task_init(t)
  PROVE  /\ TypeOK' /\ (\A u \in Tasks : Frame(u)')
         /\ queues' = queues /\ curr' = curr
         /\ \A u \in Tasks : Leaving(u) <=> Leaving(u)'
<1>0. TypeOK /\ \A u \in Tasks : Frame(u)
  BY DEF CallsInv
<1>1. PICK n \in Tasks :
        /\ pc[t] = "user" /\ pc[n] = "unborn"
        /\ pc' = [pc EXCEPT ![t] = "init_id_load", ![n] = "user"]
        /\ target' = [target EXCEPT ![t] = n]
  BY DEF task_init, Calls, At
<1>2. UNCHANGED <<coreVars, argVars, descVars, reg, aux, next, due>>
  BY DEF task_init
<1>3. /\ pc' \in [Tasks -> Labels \cup KernelLabels]
      /\ pc'[t] = "init_id_load" /\ pc'[n] = "user"
      /\ \A u \in Tasks : u \notin {t, n} => pc'[u] = pc[u]
  BY <1>0, <1>1, TasksAssumption DEF TypeOK, KernelTypeOK, TasksLabels
<1>4. /\ target' \in [Tasks -> Tasks \cup {NULL}] /\ target'[t] = n
      /\ \A u \in Tasks : u # t => target'[u] = target[u]
  BY <1>0, <1>1 DEF TypeOK
<1>5. TypeOK'
  BY <1>0, <1>2, <1>3, <1>4 DEF TypeOK, KernelTypeOK, coreVars, prioVars, timeVars, argVars, descVars
<1>6. ASSUME NEW u \in Tasks PROVE Frame(u)'
  BY <1>0, <1>2, <1>3, <1>4 DEF Frame, InitLabels, Suspending, Resuming, argVars
<1>7. \A u \in Tasks : Leaving(u) <=> Leaving(u)'
  BY <1>1, <1>3 DEF Leaving, LeavingLabels
<1> QED BY <1>2, <1>5, <1>6, <1>7 DEF coreVars

LEMMA CallsStep ==
  ASSUME CallsInv, NEW t \in Tasks, Step(t)
  PROVE  CallsInv' /\ Running(t)
<1>0. Running(t)
  BY DEF Step, task_yield, task_setprio, task_sleep, task_wait, wait_set, wait_return, task_init,
         init_id_load, init_id_store, init_fill, init_append, init_count_load, init_count_store,
         task_exit, set_exit_code, exit_head, exit_loop, exit_next, exit_check, exit_clear, exit_last, exit_last_clear,
         exit_remove, exit_count_load, exit_count_store, exit_switch, count_load, count_store,
         SuspendResume, suspend_remove, suspend_append, suspend_switch, resume_remove,
         resume_append, Calls, At
<1>1. CASE Quiet(t)
  BY <1>0, <1>1, QuietCall DEF Quiet
<1>2. CASE task_yield(t) \/ exit_switch(t) \/ (suspend_switch(t) /\ UNCHANGED tasksVars)
  BY <1>0, <1>2, SwitchSteps, QuietCall
<1>3. CASE Moved(t)
  BY <1>0, <1>3, QueueCall DEF Moved
<1>4. CASE task_init(t)
  <2>1. /\ TypeOK' /\ (\A u \in Tasks : Frame(u)')
        /\ queues' = queues /\ curr' = curr /\ \A u \in Tasks : Leaving(u) <=> Leaving(u)'
    BY <1>0, <1>4, CreateStep
  <2>2. QueuesOK'
    BY <2>1 DEF CallsInv, QueuesOK, In
  <2>3. RunningIsReady'
    BY <2>1 DEF CallsInv, RunningIsReady
  <2> QED BY <1>0, <2>1, <2>2, <2>3 DEF CallsInv
<1> QED BY <1>0, <1>1, <1>2, <1>3, <1>4, QuietSteps, LoopSteps, AppendSteps, RemoveSteps
        DEF Step, SuspendResume

LEMMA CallsTick ==
  ASSUME CallsInv, TickSleep
  PROVE  CallsInv'
<1>0. TypeOK
  BY DEF CallsInv
<1>1. UNCHANGED <<queues, prioVars, wake_up_time, user_tasks_num, os, frameVars, descVars, localVars>>
  BY DEF TickSleep, Tick
<1>2. sysclock' \in 0..CLOCK_MOD-1
  <2>1. sysclock \in Int /\ CLOCK_MOD \in Nat \ {0}
    BY <1>0, KernelAssumption DEF TypeOK, KernelTypeOK
  <2> QED BY <2>1 DEF TickSleep, Tick
<1>3. /\ curr' \in {curr, Dispatcher} /\ quantum' \in 0..QUANTUM_LIMIT-1
      /\ status' \in [Tasks -> {"NOT_CREATED", "READY", "RUNNING", "SUSPENDED", "TERMINATED"}]
  <2>1. /\ quantum \in 0..QUANTUM_LIMIT-1 /\ QUANTUM_LIMIT \in Nat \ {0}
        /\ status \in [Tasks -> {"NOT_CREATED", "READY", "RUNNING", "SUSPENDED", "TERMINATED"}]
    BY <1>0, KernelAssumption DEF TypeOK, KernelTypeOK
  <2>2. CASE UNCHANGED <<curr, quantum, status>>
    BY <2>1, <2>2
  <2>3. CASE ~expired /\ quantum' = quantum + 1 /\ UNCHANGED <<curr, status>>
    BY <2>1, <2>3 DEF expired
  <2>4. CASE quantum' = 0 /\ switch_to_dispatcher(curr)
    <3>1. curr' = Dispatcher /\ status' = [status EXCEPT ![curr] = "SUSPENDED"]
      BY <2>4 DEF switch_to_dispatcher
    <3>2. status' \in [Tasks -> {"NOT_CREATED", "READY", "RUNNING", "SUSPENDED", "TERMINATED"}]
      BY <2>1, <3>1
    <3>3. quantum' \in 0..QUANTUM_LIMIT-1
      BY <2>1, <2>4
    <3> QED BY <3>1, <3>2, <3>3
  <2> QED BY <2>2, <2>3, <2>4 DEF TickSleep, Tick
<1>4. due' \in [Tasks -> Nat]
  BY <1>0 DEF TickSleep, TypeOK
<1>5. TypeOK'
  BY <1>0, <1>1, <1>2, <1>3, <1>4
     DEF TypeOK, KernelTypeOK, prioVars, frameVars, argVars, descVars, localVars
<1>6. QueuesOK' /\ \A u \in Tasks : Frame(u)'
  BY <1>1 DEF CallsInv, QueuesOK, In, Frame, frameVars, argVars, localVars
<1>7. RunningIsReady'
  BY <1>1, <1>3, KernelAssumption DEF CallsInv, RunningIsReady, Leaving, LeavingLabels, frameVars
<1> QED BY <1>5, <1>6, <1>7 DEF CallsInv

(* The dispatcher runs a task of the ready queue.                           *)
LEMMA CallsDispatch ==
  ASSUME CallsInv, Dispatch, UNCHANGED tasksVars
  PROVE  CallsInv'
<1>0. TypeOK /\ QueuesOK /\ "ready" \in Queues
  BY DEF CallsInv, Queues
<1>1. QueuesOK'
  BY <1>0, WakeMembers DEF Dispatch
<1>2. PICK n \in Tasks :
        /\ Chosen(queues'["ready"], n)
        /\ dynamic_priority' = aged(queues'["ready"], n)
        /\ status' = [t \in Tasks |->
                        CASE t = n -> "RUNNING"
                          [] t # n /\ Contains(queues["sleeping"], t) /\ Due(t) -> "READY"
                          [] OTHER -> status[t]]
        /\ curr' = n
  BY DEF Dispatch
<1>3. /\ UNCHANGED <<static_priority, sysclock, wake_up_time, user_tasks_num, os, frameVars>>
      /\ quantum' = 0
  BY DEF Dispatch
<1>4. status' \in [Tasks -> {"NOT_CREATED", "READY", "RUNNING", "SUSPENDED", "TERMINATED"}]
  BY <1>0, <1>2 DEF TypeOK
<1>5. dynamic_priority' \in [Tasks -> Int]
  <2>1. \A t \in Tasks : static_priority[t] \in Int /\ dynamic_priority[t] \in Int
    BY <1>0 DEF TypeOK, KernelTypeOK
  <2> QED BY <1>2, <2>1, ShortType DEF aged, ALPHA
<1>6. TypeOK'
  <2>1. 0 \in 0..QUANTUM_LIMIT-1
    BY KernelAssumption
  <2> QED BY <1>0, <1>1, <1>2, <1>3, <1>4, <1>5, <2>1
          DEF QueuesOK, TypeOK, KernelTypeOK, frameVars, argVars, tasksVars, descVars, localVars
<1>7. \A u \in Tasks : Frame(u)'
  BY <1>3 DEF CallsInv, Frame, frameVars, argVars, tasksVars, localVars
<1>8. RunningIsReady'
  BY <1>2 DEF RunningIsReady, Chosen, Contains
<1> QED BY <1>1, <1>6, <1>7, <1>8 DEF CallsInv

LEMMA CallsInit == Init => CallsInv
<1> SUFFICES ASSUME Init PROVE CallsInv
  OBVIOUS
<1> USE TasksAssumption, KernelAssumption
<1>1. queues = [q \in Queues |-> IF q = "ready" THEN <<Main>> ELSE << >>]
  BY DEF Init
<1>2. /\ << >> \in Seq(Tasks) /\ Len(<< >>) = 0
      /\ <<Main>> \in Seq(Tasks) /\ Len(<<Main>>) = 1 /\ <<Main>>[1] = Main
  BY EmptySeq
<1>3. /\ Injective(<< >>) /\ (\A u : ~Contains(<< >>, u))
      /\ Injective(<<Main>>) /\ (\A u : Contains(<<Main>>, u) <=> u = Main)
  BY <1>2 DEF Injective, Contains
<1>4. QueuesOK
  BY <1>1, <1>2, <1>3 DEF QueuesOK, In
<1>5. TypeOK
  <2>1. /\ 0 \in 0..QUANTUM_LIMIT-1 /\ 0 \in 0..CLOCK_MOD-1
        /\ queues \in [Queues -> Seq(Tasks)]
    BY <1>4 DEF QueuesOK
  <2>2. KernelTypeOK
    BY <2>1 DEF Init, KernelTypeOK, TasksLabels, DEFAULT_PRIORITY
  <2> QED BY <2>2 DEF Init, TypeOK
<1>6. (\A u \in Tasks : Frame(u)) /\ RunningIsReady
  <2>1. "ready" \in Queues
    BY DEF Queues
  <2> QED BY <1>1, <1>3, <2>1 DEF Init, Frame, RunningIsReady, InitLabels, Suspending, Resuming
<1> QED BY <1>4, <1>5, <1>6 DEF CallsInv

LEMMA CallsNext == CallsInv /\ [Next]_vars => CallsInv'
<1> SUFFICES ASSUME CallsInv, [Next]_vars PROVE CallsInv'
  OBVIOUS
<1>1. CASE TickSleep
  BY <1>1, CallsTick
<1>2. CASE Dispatch /\ UNCHANGED tasksVars
  BY <1>2, CallsDispatch
<1>3. CASE (Shutdown /\ UNCHANGED tasksVars) \/ UNCHANGED vars
  <2>1. /\ UNCHANGED <<curr, queues, status, prioVars, timeVars, user_tasks_num, frameVars, tasksVars>>
        /\ os' \in {os, "exited"}
    BY <1>3 DEF Shutdown, vars, kernelVars, coreVars
  <2>2. TypeOK'
    BY <2>1 DEF CallsInv, TypeOK, KernelTypeOK, prioVars, timeVars, frameVars, argVars, tasksVars,
                descVars, localVars
  <2>3. QueuesOK' /\ (\A u \in Tasks : Frame(u)') /\ RunningIsReady'
    BY <2>1 DEF CallsInv, QueuesOK, In, Frame, RunningIsReady, Leaving, LeavingLabels, frameVars, argVars,
                tasksVars, localVars
  <2> QED BY <2>2, <2>3 DEF CallsInv
<1>4. CASE \E t \in Tasks : Step(t)
  BY <1>4, CallsStep
<1> QED BY <1>1, <1>2, <1>3, <1>4 DEF Next, DispatchNext

(* The inductive invariant of the calls, for any application, preempted     *)
(* anywhere.                                                                *)
THEOREM CallsInvariant == Spec => []CallsInv
BY CallsInit, CallsNext, PTL DEF Spec

(* The fields of task_t and the locals of the calls keep their types: the   *)
(* walk of task_exit along suspended_tasks, by stale pointers, always leads *)
(* to a task or to the null pointer.                                        *)
THEOREM TypeCorrect == Spec => []TypeOK
<1>1. CallsInv => TypeOK
  BY DEF CallsInv
<1> QED BY <1>1, CallsInvariant, PTL

(* A task is linked in one position of one queue at most, although a        *)
(* task_exit may walk a queue that changes under it.                        *)
THEOREM TasksInOneQueue == Spec => []OneQueue
<1>1. CallsInv => OneQueue
  BY QueuesOKOneQueue DEF CallsInv
<1> QED BY <1>1, CallsInvariant, PTL

(* The running task is in the ready queue, so that no preemption loses it,  *)
(* unless it is itself on its way out of it.                                *)
THEOREM RunningStaysReady == Spec => []RunningIsReady
<1>1. CallsInv => RunningIsReady
  BY DEF CallsInv
<1> QED BY <1>1, CallsInvariant, PTL

-----------------------------------------------------------------------------
(* Then what holds if two tasks cannot be at once between the load of       *)
(* last_task_id and the reading of the new id, because one task creates all *)
(* the others or because the quantum does not end there: ids are unique,    *)
(* and what task_wait and task_exit build on them works.                    *)
OneCreator == \A p, q \in Creates : p[1] = q[1]

SerialCreation == OneCreator \/ Preemptible \cap IdLabels = {}

Creating == \A t \in Tasks : pc[t] \in IdLabels => OneCreator \/ curr = t

Created(t) == status[t] # "NOT_CREATED"

(* Ids tell the tasks apart, as task_wait and task_exit need.               *)
UniqueIds == \A t, u \in Tasks : t # u /\ Created(t) /\ Created(u) => id[t] # id[u]

Ids ==
  /\ UniqueIds
  /\ \A t \in Tasks : id[t] <= last_task_id /\ waiting_task[t] <= last_task_id
  /\ \A t \in Tasks : pc[t] = "init_id_store" => reg[t] = last_task_id
  /\ \A t \in Tasks : pc[t] = "init_fill" =>
       \A u \in Tasks : id[u] < last_task_id /\ waiting_task[u] < last_task_id

(* A task that is being created is in no queue and does not run yet.        *)
Newborn(u) == pc[u] = "user" /\ ~Linked(u) /\ curr # u

NewTasks ==
  /\ \A t \in Tasks : pc[t] \in InitLabels =>
       /\ <<t, target[t]>> \in Creates /\ Newborn(target[t])
       /\ Created(target[t]) <=> pc[t] = "init_append"
  /\ \A t, u \in Tasks : t # u /\ pc[t] \in InitLabels /\ pc[u] \in InitLabels
                            => target[t] # target[u]
  /\ \A u \in Tasks : ~Created(u) => pc[u] = "unborn" \/ Newborn(u)
  /\ \A u \in Tasks : pc[u] = "unborn" => ~Created(u) /\ ~Linked(u) /\ curr # u

(* u is in its task_wait for t ...                                          *)
Waiting(u, t) ==
  /\ target[u] = t
  /\ (pc[u] \in Suspending /\ back[u] = "wait_return") \/ pc[u] = "wait_return"

(* ... and t has not made it ready.                                         *)
Blocked(u, t) ==
  /\ Waiting(u, t)
  /\ pc[u] # "suspend_remove" => ~In("ready", u)
  /\ pc[u] = "wait_return" => curr # u

Cleaning(t, u) == pc[t] \in {"exit_clear", "exit_last_clear"} /\ aux[t] = u

(* Only the task that is awaited resumes a waiter, and only once.           *)
Waits1 ==
  /\ \A u, t \in Tasks : Waiting(u, t) \/ (pc[u] = "wait_set" /\ target[u] = t) => Created(t)
  /\ \A u, t \in Tasks : Created(t) /\ waiting_task[u] = id[t] => Blocked(u, t) \/ Cleaning(t, u)
  /\ \A t \in Tasks : pc[t] \in Resuming => Blocked(arg_task[t], t)

(* Only a task_sleep puts its caller to sleep.                              *)
Asleep(u) == pc[u] = "user" \/ (pc[u] = "suspend_switch" /\ back[u] = "user")

Sleeps == \A u \in Tasks : In("sleeping", u) => Asleep(u)

(* A waiter is ready again only after the task it waits for has exited.     *)
Released(u, t) == Waiting(u, t) /\ pc[u] # "suspend_remove" /\ In("ready", u)

Exits ==
  /\ \A t \in Tasks : pc[t] \in ExitLabels \cup Gone \cup Resuming => exit_code[t] = 1
  /\ \A u, t \in Tasks : Released(u, t) => exit_code[t] = 1

GoneForGood == \A t \in Tasks : pc[t] \in Gone => ~Linked(t) /\ (pc[t] = "dead" => curr # t)

LifeInv == CallsInv /\ Ids /\ NewTasks /\ Waits1 /\ Sleeps /\ Exits /\ GoneForGood

(* What a step of the running t leaves as it is.                            *)
StaysPut(t) == Running(t) /\ Same(t) /\ curr' \in {t, Dispatcher}
SameIds     == id' = id /\ last_task_id' = last_task_id
SameCreated == \A u \in Tasks : Created(u)' <=> Created(u)
OnlyCleared == \A u \in Tasks : waiting_task'[u] \in {waiting_task[u], -1}

(* Five lemmas: what a step has to respect for each part of LifeInv.        *)
LEMMA IdsKept ==
  ASSUME LifeInv, CallsInv', SameIds, \A u \in Tasks : Created(u)' => Created(u), OnlyCleared,
         \A u \in Tasks : pc'[u] \in {"init_id_store", "init_fill"}
                            => pc'[u] = pc[u] /\ reg'[u] = reg[u]
  PROVE  Ids'
<1>1. /\ id \in [Tasks -> Nat] /\ last_task_id \in Nat
      /\ waiting_task \in [Tasks -> Nat \cup {-1}]
  BY DEF LifeInv, CallsInv, TypeOK
<1>2. UniqueIds'
  BY DEF LifeInv, Ids, UniqueIds, SameIds, Created
<1>3. \A u \in Tasks : /\ id'[u] <= last_task_id' /\ waiting_task'[u] <= last_task_id'
                       /\ pc'[u] = "init_id_store" => reg'[u] = last_task_id'
  BY <1>1 DEF LifeInv, Ids, SameIds, OnlyCleared
<1>4. ASSUME NEW t \in Tasks, pc'[t] = "init_fill", NEW u \in Tasks
      PROVE  id'[u] < last_task_id' /\ waiting_task'[u] < last_task_id'
  <2>1. id[u] < last_task_id /\ waiting_task[u] < last_task_id
    BY <1>4 DEF LifeInv, Ids
  <2> QED BY <2>1, <1>1 DEF SameIds, OnlyCleared
<1> QED BY <1>2, <1>3, <1>4 DEF Ids

LEMMA NewKept ==
  ASSUME LifeInv, NEW t \in Tasks, StaysPut(t), SameCreated, pc'[t] \notin InitLabels \cup {"unborn"},
         \A u \in Tasks : Linked(u)' => Linked(u) \/ (Created(u) /\ pc[u] # "user")
  PROVE  NewTasks'
<1>1. Created(t)
  BY KernelAssumption DEF LifeInv, NewTasks, StaysPut, Running, Newborn
<1>2. \A u \in Tasks : u # t => pc'[u] = pc[u] /\ target'[u] = target[u]
  BY DEF StaysPut, Same
<1>3. \A u \in Tasks : curr' = u => curr = u
  BY KernelAssumption DEF StaysPut, Running
<1>4. \A u \in Tasks : Newborn(u) => u # t /\ Newborn(u)'
  BY <1>2, <1>3 DEF Newborn, StaysPut, Running
<1>5. ASSUME NEW u \in Tasks, pc'[u] \in InitLabels
      PROVE  /\ <<u, target'[u]>> \in Creates /\ Newborn(target[u])'
             /\ Created(target[u])' <=> pc'[u] = "init_append"
  <2>1. u # t /\ pc[u] \in InitLabels /\ target[u] \in Tasks
    BY <1>2, <1>5 DEF LifeInv, CallsInv, Frame
  <2>2. /\ <<u, target[u]>> \in Creates /\ Newborn(target[u])
        /\ Created(target[u]) <=> pc[u] = "init_append"
    BY <2>1 DEF LifeInv, NewTasks
  <2> QED BY <2>1, <2>2, <1>2, <1>4 DEF SameCreated
<1>6. \A u \in Tasks : /\ ~Created(u)' => pc'[u] = "unborn" \/ Newborn(u)'
                       /\ pc'[u] = "unborn" => ~Created(u)' /\ ~Linked(u)' /\ curr' # u
  BY <1>1, <1>2, <1>3, <1>4 DEF LifeInv, NewTasks, SameCreated
<1>7. ASSUME NEW u \in Tasks, NEW v \in Tasks, u # v, pc'[u] \in InitLabels, pc'[v] \in InitLabels
      PROVE  target'[u] # target'[v]
  BY <1>2, <1>7 DEF LifeInv, NewTasks
<1> QED BY <1>5, <1>6, <1>7, <1>2 DEF NewTasks

LEMMA WaitsKept ==
  ASSUME LifeInv, CallsInv', NEW t \in Tasks, StaysPut(t), id' = id, SameCreated, OnlyCleared,
         \A u \in Tasks : u # t /\ In("ready", u)' => In("ready", u) \/ pc[u] = "user",
         \A x \in Tasks : Blocked(t, x) => Blocked(t, x)',
         \A x \in Tasks : Waiting(t, x)' \/ (pc'[t] = "wait_set" /\ target'[t] = x) => Created(x),
         pc'[t] \in Resuming => Blocked(arg_task'[t], t),
         pc[t] \in {"exit_clear", "exit_last_clear"} => waiting_task'[aux[t]] = -1
  PROVE  Waits1'
<1>0. /\ id \in [Tasks -> Nat] /\ waiting_task \in [Tasks -> Nat \cup {-1}]
      /\ arg_task' \in [Tasks -> Tasks \cup {NULL}]
  BY DEF LifeInv, CallsInv, TypeOK, KernelTypeOK
<1>1. ASSUME NEW u \in Tasks, u # t, NEW x \in Tasks
      PROVE  Waiting(u, x)' <=> Waiting(u, x)
  BY <1>1 DEF StaysPut, Same, Waiting
<1>2. ASSUME NEW u \in Tasks, NEW x \in Tasks, Blocked(u, x)
      PROVE  Blocked(u, x)'
  <2>1. CASE u = t
    BY <1>2, <2>1
  <2>2. CASE u # t
    <3>1. pc'[u] = pc[u] /\ curr' # u
      BY <2>2, KernelAssumption DEF StaysPut, Same
    <3>2. pc[u] # "user"
      BY <1>2 DEF Blocked, Waiting, Suspending
    <3> QED BY <1>1, <1>2, <2>2, <3>1, <3>2 DEF Blocked
  <2> QED BY <2>1, <2>2
<1>3. \A u, x \in Tasks : Waiting(u, x)' \/ (pc'[u] = "wait_set" /\ target'[u] = x) => Created(x)'
  <2> SUFFICES ASSUME NEW u \in Tasks, NEW x \in Tasks,
                      Waiting(u, x)' \/ (pc'[u] = "wait_set" /\ target'[u] = x)
               PROVE  Created(x)
    BY DEF SameCreated
  <2>1. CASE u = t
    BY <2>1
  <2>2. CASE u # t
    <3>1. pc'[u] = pc[u] /\ target'[u] = target[u]
      BY <2>2 DEF StaysPut, Same
    <3> QED BY <1>1, <2>2, <3>1 DEF LifeInv, Waits1
  <2> QED BY <2>1, <2>2
<1>4. ASSUME NEW u \in Tasks, NEW x \in Tasks, Created(x)', waiting_task'[u] = id'[x]
      PROVE  Blocked(u, x)' \/ Cleaning(x, u)'
  <2>1. Created(x) /\ waiting_task[u] = id[x] /\ waiting_task'[u] # -1
    BY <1>0, <1>4 DEF SameCreated, OnlyCleared
  <2>2. Blocked(u, x) \/ Cleaning(x, u)
    BY <2>1 DEF LifeInv, Waits1
  <2>3. Cleaning(x, u) => x # t
    BY <2>1 DEF Cleaning
  <2>4. x # t => (Cleaning(x, u) => Cleaning(x, u)')
    BY DEF StaysPut, Same, Cleaning
  <2> QED BY <2>2, <2>3, <2>4, <1>2
<1>5. ASSUME NEW u \in Tasks, pc'[u] \in Resuming
      PROVE  Blocked(arg_task[u], u)'
  <2>1. arg_task'[u] \in Tasks
    BY <1>5 DEF CallsInv, Frame
  <2>2. CASE u = t
    BY <2>1, <2>2, <1>2, <1>5
  <2>3. CASE u # t
    <3>1. pc[u] \in Resuming /\ arg_task'[u] = arg_task[u]
      BY <2>3, <1>5 DEF StaysPut, Same
    <3> QED BY <2>1, <3>1, <1>2 DEF LifeInv, Waits1
  <2> QED BY <2>2, <2>3
<1> QED BY <1>3, <1>4, <1>5 DEF Waits1

LEMMA ExitsKept ==
  ASSUME LifeInv, NEW t \in Tasks, StaysPut(t),
         \A u \in Tasks : exit_code'[u] \in {exit_code[u], 1},
         pc'[t] \in ExitLabels \cup Gone \cup Resuming => exit_code'[t] = 1,
         \A u, x \in Tasks : Released(u, x)' => Released(u, x) \/ exit_code[x] = 1
  PROVE  Exits'
<1>1. ASSUME NEW u \in Tasks, pc'[u] \in ExitLabels \cup Gone \cup Resuming
      PROVE  exit_code'[u] = 1
  BY <1>1 DEF LifeInv, Exits, StaysPut, Same
<1>2. ASSUME NEW u \in Tasks, NEW x \in Tasks, Released(u, x)'
      PROVE  exit_code'[x] = 1
  BY <1>2 DEF LifeInv, Exits
<1> QED BY <1>1, <1>2 DEF Exits

LEMMA GoneKept ==
  ASSUME LifeInv, NEW t \in Tasks, StaysPut(t),
         pc'[t] \in Gone => ~Linked(t)' /\ (pc'[t] = "dead" => curr' # t),
         \A u \in Tasks : u # t /\ Linked(u)' => Linked(u) \/ pc[u] \notin Gone
  PROVE  GoneForGood'
<1> SUFFICES ASSUME NEW u \in Tasks, u # t, pc'[u] \in Gone
             PROVE  ~Linked(u)' /\ curr' # u
  BY DEF GoneForGood
<1>1. pc[u] \in Gone /\ curr' # u
  BY KernelAssumption DEF StaysPut, Same, Running
<1> QED BY <1>1 DEF LifeInv, GoneForGood

(* Only task_sleep links its caller to the sleepers.                        *)
LEMMA SleepsKept ==
  ASSUME LifeInv, NEW t \in Tasks, StaysPut(t),
         \A u \in Tasks : u # t /\ In("sleeping", u)' => In("sleeping", u),
         In("sleeping", t)' => Asleep(t)'
  PROVE  Sleeps'
BY DEF LifeInv, Sleeps, StaysPut, Same, Asleep

(* The steps that touch neither ids nor queues.                             *)
Ordinary(t) ==
  /\ SameIds /\ SameCreated /\ waiting_task' = waiting_task /\ queues' = queues
  /\ \A u \in Tasks : exit_code'[u] \in {exit_code[u], 1}
  /\ pc[t] \notin Suspending \cup {"exit_clear", "exit_last_clear"}
  /\ pc'[t] \notin InitLabels \cup {"unborn", "wait_return", "suspend_append", "suspend_switch"}
  /\ pc'[t] = "suspend_remove" => back'[t] = "user"
  /\ pc'[t] = "wait_set" => Created(target'[t])
  /\ pc'[t] \in ExitLabels \cup Gone \cup Resuming => exit_code'[t] = 1
  /\ pc'[t] \in Resuming => Blocked(arg_task'[t], t)
  /\ pc'[t] \in Gone => pc[t] \in Gone /\ (pc'[t] = "dead" => curr' = Dispatcher)

LEMMA OrdinaryStep ==
  ASSUME LifeInv, CallsInv', NEW t \in Tasks, StaysPut(t), Ordinary(t)
  PROVE  LifeInv'
<1>1. /\ \A q, u : In(q, u)' <=> In(q, u)
      /\ \A u : Linked(u)' <=> Linked(u)
  BY DEF Ordinary, In, Linked
<1>2. \A u \in Tasks : u # t => pc'[u] = pc[u] /\ reg'[u] = reg[u]
  BY DEF StaysPut, Same
<1>3. OnlyCleared
  BY DEF Ordinary, OnlyCleared
<1>4. \A x \in Tasks : ~Blocked(t, x) /\ ~Waiting(t, x)'
  BY DEF StaysPut, Running, Ordinary, Blocked, Waiting, Suspending
<1>5. ~In("sleeping", t)
  BY DEF LifeInv, Sleeps, Asleep, CallsInv, QueuesOK, RunningIsReady, Leaving, LeavingLabels, In, StaysPut,
         Running, Ordinary, Suspending, Queues
<1>6. Ids'
  BY <1>2, <1>3, IdsKept DEF Ordinary, SameCreated, InitLabels
<1>7. NewTasks'
  BY <1>1, NewKept DEF Ordinary
<1>8. Waits1'
  BY <1>1, <1>3, <1>4, WaitsKept DEF Ordinary, SameIds
<1>9. Sleeps'
  BY <1>1, <1>5, SleepsKept
<1>10. Exits'
  <2>1. ASSUME NEW u \in Tasks, NEW x \in Tasks, Released(u, x)'
        PROVE  Released(u, x)
    <3>1. u # t
      BY <2>1, <1>4 DEF Released
    <3> QED BY <3>1, <2>1, <1>1 DEF Released, Waiting, StaysPut, Same
  <2> QED BY <2>1, ExitsKept DEF Ordinary
<1>11. GoneForGood'
  <2>1. pc'[t] \in Gone => ~Linked(t)' /\ (pc'[t] = "dead" => curr' # t)
    BY <1>1, KernelAssumption DEF LifeInv, GoneForGood, Ordinary
  <2> QED BY <2>1, <1>1, GoneKept
<1> QED BY <1>6, <1>7, <1>8, <1>9, <1>10, <1>11 DEF LifeInv

LEMMA StepStays ==
  ASSUME CallsInv, NEW t \in Tasks, Step(t), ~task_init(t)
  PROVE  StaysPut(t)
<1>0. Running(t)
  BY CallsStep
<1>1. CASE Quiet(t)
  BY <1>0, <1>1 DEF Quiet, StaysPut, Running
<1>2. CASE task_yield(t) \/ exit_switch(t) \/ (suspend_switch(t) /\ UNCHANGED tasksVars)
  BY <1>0, <1>2, SwitchSteps DEF StaysPut
<1>3. CASE Moved(t)
  BY <1>0, <1>3 DEF Moved, StaysPut, Running
<1> QED BY <1>0, <1>1, <1>2, <1>3, QuietSteps, LoopSteps, AppendSteps, RemoveSteps
        DEF Step, SuspendResume

LEMMA RunningCreated ==
  ASSUME LifeInv, NEW t \in Tasks, Running(t)
  PROVE  Created(t) /\ curr = t /\ pc[t] # "unborn"
BY DEF LifeInv, NewTasks, Newborn, Running

LEMMA OrdinarySteps ==
  ASSUME LifeInv, NEW t \in Tasks, Step(t),
         \/ task_yield(t) \/ task_setprio(t) \/ task_sleep(t) \/ task_wait(t) \/ wait_return(t)
         \/ init_count_load(t) \/ init_count_store(t)
         \/ task_exit(t) \/ set_exit_code(t) \/ exit_head(t) \/ exit_loop(t) \/ exit_next(t)
         \/ exit_check(t) \/ exit_last(t)
         \/ exit_count_load(t) \/ exit_count_store(t) \/ exit_switch(t)
  PROVE  Ordinary(t)
<1> USE DEF Ordinary, SameIds, InitLabels, ExitLabels, Gone, Suspending, Resuming
<1>0. TypeOK /\ Frame(t) /\ Created(t) /\ curr = t
  BY CallsStep, RunningCreated DEF LifeInv, CallsInv
<1>1. CASE task_yield(t)
  BY <1>0, <1>1 DEF task_yield, At, Calls, switch_to_dispatcher, Goto, SameCreated, Created, TypeOK, KernelTypeOK,
       coreVars, argVars, frameVars, tasksVars, descVars, localVars
<1>2. CASE task_setprio(t)
  BY <1>0, <1>2 DEF task_setprio, At, Calls, Goto, SameCreated, Created, TypeOK, KernelTypeOK,
       coreVars, argVars, frameVars, tasksVars, descVars, localVars
<1>3. CASE task_sleep(t)
  BY <1>0, <1>3 DEF task_sleep, At, Calls, call_suspend, Goto, SameCreated, Created, TypeOK, KernelTypeOK,
       coreVars, argVars, frameVars, tasksVars, descVars, localVars
<1>4. CASE task_wait(t)
  BY <1>0, <1>4 DEF task_wait, At, Calls, Goto, SameCreated, Created, TypeOK, KernelTypeOK,
       coreVars, argVars, frameVars, tasksVars, descVars, localVars
<1>5. CASE wait_return(t)
  BY <1>0, <1>5 DEF wait_return, At, Goto, SameCreated, Created, TypeOK, KernelTypeOK,
       coreVars, argVars, frameVars, tasksVars, descVars, localVars
<1>6. CASE init_count_load(t)
  BY <1>0, <1>6 DEF init_count_load, At, count_load, Goto, SameCreated, Created, TypeOK, KernelTypeOK,
       coreVars, argVars, frameVars, tasksVars, descVars, localVars
<1>7. CASE init_count_store(t)
  BY <1>0, <1>7 DEF init_count_store, At, count_store, Goto, SameCreated, Created, TypeOK, KernelTypeOK,
       coreVars, argVars, frameVars, tasksVars, descVars, localVars
<1>8. CASE task_exit(t)
  BY <1>0, <1>8 DEF task_exit, At, Calls, Goto, SameCreated, Created, TypeOK, KernelTypeOK,
       coreVars, argVars, frameVars, tasksVars, descVars, localVars
<1>9. CASE exit_head(t)
  BY <1>0, <1>9 DEF exit_head, At, Goto, SameCreated, Created, TypeOK, KernelTypeOK, LifeInv, Exits,
       coreVars, argVars, frameVars, tasksVars, descVars, localVars
<1>10. CASE exit_loop(t)
  BY <1>0, <1>10 DEF exit_loop, At, Goto, SameCreated, Created, TypeOK, KernelTypeOK, LifeInv, Exits,
       coreVars, argVars, frameVars, tasksVars, descVars, localVars
<1>11. CASE exit_check(t)
  <2>1. awaits(aux[t], t) => Blocked(aux[t], t)
    BY <1>0, <1>11 DEF LifeInv, Waits1, Frame, Cleaning, awaits, exit_check, At
  <2> QED BY <2>1, <1>0, <1>11, KernelAssumption
       DEF exit_check, At, call_resume, Goto, SameCreated, Created, TypeOK, KernelTypeOK, LifeInv, Exits, Frame,
           coreVars, argVars, frameVars, tasksVars, descVars, localVars
<1>12. CASE exit_last(t)
  <2>1. awaits(aux[t], t) => Blocked(aux[t], t)
    BY <1>0, <1>12 DEF LifeInv, Waits1, Frame, Cleaning, awaits, exit_last, At
  <2> QED BY <2>1, <1>0, <1>12, KernelAssumption
       DEF exit_last, At, call_resume, Goto, SameCreated, Created, TypeOK, KernelTypeOK, LifeInv, Exits, Frame,
           coreVars, argVars, frameVars, tasksVars, descVars, localVars
<1>13. CASE exit_count_load(t)
  BY <1>0, <1>13 DEF exit_count_load, At, count_load, Goto, SameCreated, Created, TypeOK, KernelTypeOK, LifeInv, Exits,
       coreVars, argVars, frameVars, tasksVars, descVars, localVars
<1>14. CASE exit_count_store(t)
  BY <1>0, <1>14 DEF exit_count_store, At, count_store, Goto, SameCreated, Created, TypeOK, KernelTypeOK, LifeInv, Exits,
       coreVars, argVars, frameVars, tasksVars, descVars, localVars
<1>15. CASE exit_switch(t)
  BY <1>0, <1>15 DEF exit_switch, At, Goto, SameCreated, Created, TypeOK, KernelTypeOK, LifeInv, Exits,
       coreVars, argVars, frameVars, tasksVars, descVars, localVars
<1>16. CASE set_exit_code(t)
  BY <1>0, <1>16 DEF set_exit_code, At, Goto, SameCreated, Created, TypeOK, KernelTypeOK,
       coreVars, argVars, frameVars, tasksVars, descVars, localVars
<1>17. CASE exit_next(t)
  BY <1>0, <1>17 DEF exit_next, At, Goto, SameCreated, Created, TypeOK, KernelTypeOK, LifeInv, Exits,
       coreVars, argVars, frameVars, tasksVars, descVars, localVars
<1> QED BY <1>1, <1>2, <1>3, <1>4, <1>5, <1>6, <1>7, <1>8, <1>9, <1>10, <1>11, <1>12, <1>13, <1>14, <1>15,
           <1>16, <1>17

LEMMA RunningAwake ==
  ASSUME LifeInv, NEW t \in Tasks, Running(t), pc[t] \notin Suspending
  PROVE  ~In("sleeping", t)
BY DEF LifeInv, Sleeps, Asleep, CallsInv, QueuesOK, RunningIsReady, Leaving, LeavingLabels, In, Running,
       Suspending, Queues

(* The queues after a step that leaves them alone.                          *)
LEMMA SameQueues ==
  ASSUME queues' = queues
  PROVE  /\ \A q, u : In(q, u)' <=> In(q, u)
         /\ \A u : Linked(u)' <=> Linked(u)
BY DEF In, Linked

(* No two task_init have the same new task, and of the tasks between the    *)
(* load of last_task_id and the new id only one runs.                       *)
LEMMA OneAtATime ==
  ASSUME Creating, LifeInv, NEW t \in Tasks, pc[t] \in InitLabels, curr = t
  PROVE  /\ \A u \in Tasks : pc[u] \in IdLabels => u = t
         /\ \A u \in Tasks : u # t /\ pc[u] \in InitLabels => target[u] # target[t]
         /\ target[t] \in Tasks /\ <<t, target[t]>> \in Creates /\ Newborn(target[t])
         /\ Created(target[t]) <=> pc[t] = "init_append"
  <1>1. /\ <<t, target[t]>> \in Creates /\ Newborn(target[t]) /\ target[t] \in Tasks
        /\ Created(target[t]) <=> pc[t] = "init_append"
        /\ \A u \in Tasks : u # t /\ pc[u] \in InitLabels => target[u] # target[t]
    BY DEF LifeInv, NewTasks, CallsInv, Frame
  <1>2. ASSUME NEW u \in Tasks, pc[u] \in IdLabels PROVE u = t
    <2>1. <<u, target[u]>> \in Creates
      BY <1>2 DEF LifeInv, NewTasks, IdLabels, InitLabels
    <2> QED BY <1>1, <1>2, <2>1 DEF Creating, OneCreator
  <1> QED BY <1>1, <1>2

(* What another task_init has at hand is not touched by a step of t.        *)
LEMMA OthersNew ==
  ASSUME LifeInv, NEW t \in Tasks, StaysPut(t),
         NEW n \in Tasks, \A u \in Tasks : u # t /\ pc[u] \in InitLabels => target[u] # n,
         \A u \in Tasks : u # n => (Created(u)' <=> Created(u)) /\ (Linked(u)' => Linked(u)),
         pc[n] # "unborn", Created(n)',
         pc'[t] \in InitLabels =>
           /\ pc[t] \in InitLabels /\ target'[t] = target[t]
           /\ Newborn(target[t])' /\ (Created(target[t])' <=> pc'[t] = "init_append"),
         pc'[t] # "unborn"
  PROVE  NewTasks'
<1>0. Created(t) /\ curr = t
  BY RunningCreated DEF StaysPut
<1>1. \A u \in Tasks : u # t => pc'[u] = pc[u] /\ target'[u] = target[u]
  BY DEF StaysPut, Same
<1>2. \A u \in Tasks : u # n /\ Newborn(u) => Newborn(u)'
  BY <1>0, <1>1, KernelAssumption DEF Newborn, StaysPut, Running
<1>3. ASSUME NEW u \in Tasks, pc'[u] \in InitLabels
      PROVE  /\ <<u, target'[u]>> \in Creates /\ Newborn(target[u])'
             /\ Created(target[u])' <=> pc'[u] = "init_append"
  <2>1. CASE u = t
    BY <1>3, <2>1 DEF LifeInv, NewTasks
  <2>2. CASE u # t
    <3>1. pc'[u] = pc[u] /\ target'[u] = target[u] /\ target[u] \in Tasks /\ target[u] # n
      BY <1>1, <1>3, <2>2 DEF LifeInv, CallsInv, Frame
    <3>2. /\ <<u, target[u]>> \in Creates /\ Newborn(target[u])
          /\ Created(target[u]) <=> pc[u] = "init_append"
      BY <1>3, <3>1 DEF LifeInv, NewTasks
    <3> QED BY <3>1, <3>2, <1>2
  <2> QED BY <2>1, <2>2
<1>4. ASSUME NEW u \in Tasks, NEW v \in Tasks, u # v, pc'[u] \in InitLabels, pc'[v] \in InitLabels
      PROVE  target'[u] # target'[v]
  BY <1>1, <1>4 DEF LifeInv, NewTasks
<1>5. ASSUME NEW u \in Tasks
      PROVE  /\ ~Created(u)' => pc'[u] = "unborn" \/ Newborn(u)'
             /\ pc'[u] = "unborn" => ~Created(u)' /\ ~Linked(u)' /\ curr' # u
  <2>1. CASE u = n
    <3>1. n = t \/ pc'[n] = pc[n]
      BY <1>1
    <3> QED BY <2>1, <3>1
  <2>2. CASE u = t /\ u # n
    BY <1>0, <2>2
  <2>3. CASE u # t /\ u # n
    <3>1. pc'[u] = pc[u] /\ (Created(u)' <=> Created(u)) /\ (Linked(u)' => Linked(u)) /\ curr' # u
      BY <1>0, <1>1, <2>3, KernelAssumption DEF StaysPut
    <3> QED BY <1>2, <2>3, <3>1 DEF LifeInv, NewTasks
  <2> QED BY <2>1, <2>2, <2>3
<1> QED BY <1>3, <1>4, <1>5, <1>1 DEF NewTasks

LEMMA InitIdSteps ==
  ASSUME Creating, LifeInv, CallsInv', NEW t \in Tasks, StaysPut(t),
         init_id_load(t) \/ init_id_store(t)
  PROVE  LifeInv'
<1>0. TypeOK /\ Running(t)
  BY DEF LifeInv, CallsInv, StaysPut
<1>1. /\ pc[t] \in {"init_id_load", "init_id_store"} /\ pc'[t] \in {"init_id_store", "init_fill"}
      /\ \A u \in Tasks : u # t => pc'[u] = pc[u] /\ reg'[u] = reg[u] /\ target'[u] = target[u]
      /\ UNCHANGED <<curr, queues, status, id, waiting_task, exit_code, target>>
  BY <1>0 DEF init_id_load, init_id_store, At, Goto, TypeOK, KernelTypeOK, coreVars, descVars, StaysPut, Same
<1>2. /\ \A q, u : In(q, u)' <=> In(q, u)
      /\ \A u : Linked(u)' <=> Linked(u)
      /\ SameCreated /\ OnlyCleared
      /\ ~In("sleeping", t)
  BY <1>0, <1>1, SameQueues, RunningAwake DEF SameCreated, Created, OnlyCleared, Suspending
<1>3. /\ \A u \in Tasks : pc[u] \in IdLabels => u = t
      /\ target[t] \in Tasks /\ <<t, target[t]>> \in Creates /\ Newborn(target[t])
      /\ ~Created(target[t]) /\ target[t] # t
  BY <1>0, <1>1, OneAtATime, RunningCreated DEF InitLabels
<1>4. Ids'
  <2>1. \A u \in Tasks : pc'[u] \in {"init_id_store", "init_fill"} => u = t
    BY <1>1, <1>3 DEF IdLabels
  <2>2. UniqueIds'
    BY <1>1 DEF LifeInv, Ids, UniqueIds, Created
  <2>3. CASE init_id_load(t)
    <3>1. last_task_id' = last_task_id /\ reg'[t] = last_task_id /\ pc'[t] = "init_id_store"
      BY <1>0, <2>3 DEF init_id_load, At, Goto, TypeOK, KernelTypeOK, descVars
    <3> QED BY <1>1, <2>1, <2>2, <3>1 DEF LifeInv, Ids
  <2>4. CASE init_id_store(t)
    <3>1. last_task_id' = last_task_id + 1 /\ pc'[t] = "init_fill"
      BY <1>0, <2>4 DEF init_id_store, new_id, At, Goto, TypeOK, KernelTypeOK, LifeInv, Ids
    <3>2. \A u \in Tasks : id[u] <= last_task_id /\ waiting_task[u] <= last_task_id
      BY DEF LifeInv, Ids
    <3>3. \A u \in Tasks : id[u] \in Int /\ waiting_task[u] \in Int /\ last_task_id \in Int
      BY <1>0 DEF TypeOK
    <3> QED BY <1>1, <2>1, <2>2, <3>1, <3>2, <3>3 DEF Ids
  <2> QED BY <2>3, <2>4
<1>5. NewTasks'
  <2>1. \A u \in Tasks : Newborn(u) => Newborn(u)'
    BY <1>0, <1>1, <1>2 DEF Newborn, Running
  <2>2. /\ target' = target /\ \A u \in Tasks : pc'[u] \in InitLabels <=> pc[u] \in InitLabels
        /\ \A u \in Tasks : (pc'[u] = "init_append" <=> pc[u] = "init_append")
                              /\ (pc'[u] = "unborn" <=> pc[u] = "unborn")
    BY <1>1 DEF InitLabels
  <2>3. \A u \in Tasks : pc[u] \in InitLabels => target[u] \in Tasks
    BY DEF LifeInv, CallsInv, Frame
  <2> QED BY <1>1, <1>2, <2>1, <2>2, <2>3 DEF LifeInv, NewTasks, SameCreated
<1>6. Waits1'
  BY <1>0, <1>1, <1>2, WaitsKept DEF Blocked, Waiting, Suspending, Resuming, Running
<1>7. Sleeps'
  BY <1>2, SleepsKept
<1>8. Exits'
  <2>1. \A u, x \in Tasks : Released(u, x)' => Released(u, x)
    BY <1>1, <1>2 DEF Released, Waiting, StaysPut, Same, Suspending
  <2> QED BY <1>1, <2>1, ExitsKept DEF ExitLabels, Gone, Resuming
<1>9. GoneForGood'
  BY <1>1, <1>2, GoneKept DEF Gone
<1> QED BY <1>4, <1>5, <1>6, <1>7, <1>8, <1>9 DEF LifeInv

LEMMA InitFillStep ==
  ASSUME Creating, LifeInv, CallsInv', NEW t \in Tasks, StaysPut(t), init_fill(t)
  PROVE  LifeInv'
<1>0. TypeOK /\ Running(t) /\ pc[t] = "init_fill"
  BY DEF LifeInv, CallsInv, StaysPut, init_fill, At
<1>n. PICK n \in Tasks : n = target[t]
  BY <1>0, OneAtATime DEF InitLabels, Running
<1>3. /\ \A u \in Tasks : pc[u] \in IdLabels => u = t
      /\ \A u \in Tasks : u # t /\ pc[u] \in InitLabels => target[u] # n
      /\ <<t, n>> \in Creates /\ Newborn(n)
      /\ ~Created(n) /\ n # t /\ Created(t)
  BY <1>0, <1>n, OneAtATime, RunningCreated DEF InitLabels
<1>1. /\ pc'[t] = "init_append" /\ \A u \in Tasks : u # t => pc'[u] = pc[u]
      /\ UNCHANGED <<curr, queues, last_task_id, target>>
      /\ id' = [id EXCEPT ![n] = last_task_id]
      /\ waiting_task' = [waiting_task EXCEPT ![n] = -1]
      /\ exit_code' = [exit_code EXCEPT ![n] = 0]
      /\ Created(n)' /\ \A u \in Tasks : u # n => (Created(u)' <=> Created(u))
  BY <1>0, <1>n, <1>3 DEF init_fill, Goto, TypeOK, KernelTypeOK, localVars, Created
<1>2. /\ \A q, u : In(q, u)' <=> In(q, u)
      /\ \A u : Linked(u)' <=> Linked(u)
      /\ ~In("sleeping", t)
  BY <1>0, <1>1, SameQueues, RunningAwake DEF Suspending
<1>4. /\ id' \in [Tasks -> Nat] /\ id'[n] = last_task_id /\ waiting_task'[n] = -1
      /\ \A u \in Tasks : u # n => id'[u] = id[u] /\ waiting_task'[u] = waiting_task[u]
      /\ \A u \in Tasks : id[u] < last_task_id /\ waiting_task[u] < last_task_id
      /\ \A u \in Tasks : id[u] \in Nat /\ waiting_task[u] \in Nat \cup {-1}
      /\ last_task_id \in Nat
  BY <1>0, <1>1, <1>3 DEF LifeInv, Ids, TypeOK
<1>5. Ids'
  <2>1. \A u \in Tasks : pc'[u] \notin {"init_id_store", "init_fill"}
    BY <1>1, <1>3 DEF IdLabels
  <2>2. UniqueIds'
    BY <1>1, <1>3, <1>4 DEF LifeInv, Ids, UniqueIds, Created
  <2> QED BY <1>1, <1>4, <2>1, <2>2 DEF Ids
<1>6. NewTasks'
  <2>1. Newborn(n)' /\ pc[n] # "unborn"
    BY <1>1, <1>2, <1>3 DEF Newborn
  <2> QED BY <1>0, <1>n, <1>1, <1>2, <1>3, <2>1, OthersNew DEF InitLabels
<1>7. \A u, x \in Tasks : /\ Waiting(u, x)' <=> Waiting(u, x)
                          /\ Blocked(u, x)' <=> Blocked(u, x)
                          /\ Cleaning(u, x)' <=> Cleaning(u, x)
                          /\ Released(u, x)' <=> Released(u, x)
  BY <1>0, <1>1, <1>2 DEF Waiting, Blocked, Cleaning, Released, StaysPut, Same, Suspending
<1>8. Waits1'
  <2>1. \A u, x \in Tasks : Waiting(u, x)' \/ (pc'[u] = "wait_set" /\ target'[u] = x) => Created(x)'
    <3> SUFFICES ASSUME NEW u \in Tasks, NEW x \in Tasks,
                        Waiting(u, x)' \/ (pc'[u] = "wait_set" /\ target'[u] = x)
                 PROVE  Created(x)'
      OBVIOUS
    <3>1. Waiting(u, x) \/ (pc[u] = "wait_set" /\ target[u] = x)
      BY <1>1, <1>7
    <3> QED BY <1>1, <3>1 DEF LifeInv, Waits1
  <2>2. ASSUME NEW u \in Tasks, NEW x \in Tasks, Created(x)', waiting_task'[u] = id'[x]
        PROVE  Blocked(u, x) \/ Cleaning(x, u)
    <3>1. u # n /\ x # n
      BY <1>4, <2>2
    <3> QED BY <1>1, <1>4, <2>2, <3>1 DEF LifeInv, Waits1
  <2>3. ASSUME NEW u \in Tasks, pc'[u] \in Resuming
        PROVE  Blocked(arg_task[u], u)'
    <3>1. u # t /\ arg_task'[u] = arg_task[u] /\ pc[u] \in Resuming
      BY <1>1, <2>3 DEF Resuming, StaysPut, Same
    <3>2. arg_task'[u] \in Tasks
      BY <2>3 DEF CallsInv, Frame
    <3> QED BY <3>1, <3>2, <1>7 DEF LifeInv, Waits1
  <2> QED BY <2>1, <2>2, <2>3, <1>7 DEF Waits1
<1>9. Sleeps'
  BY <1>2, SleepsKept
<1>10. Exits'
  <2>1. ASSUME NEW u \in Tasks, pc'[u] \in ExitLabels \cup Gone \cup Resuming
        PROVE  exit_code'[u] = 1
    <3>1. pc[u] \in ExitLabels \cup Gone \cup Resuming /\ pc[u] # "user"
      BY <1>1, <2>1 DEF ExitLabels, Gone, Resuming
    <3> QED BY <1>0, <1>1, <1>3, <3>1 DEF LifeInv, Exits, Newborn, TypeOK
  <2>2. ASSUME NEW u \in Tasks, NEW x \in Tasks, Released(u, x)'
        PROVE  exit_code'[x] = 1
    <3>1. Released(u, x) /\ Created(x)
      BY <1>7, <2>2 DEF Released, LifeInv, Waits1
    <3> QED BY <1>0, <1>1, <1>3, <3>1 DEF LifeInv, Exits, TypeOK
  <2> QED BY <2>1, <2>2 DEF Exits
<1>11. GoneForGood'
  BY <1>1, <1>2, GoneKept DEF Gone
<1> QED BY <1>5, <1>6, <1>8, <1>9, <1>10, <1>11 DEF LifeInv

LEMMA InitAppendStep ==
  ASSUME Creating, LifeInv, CallsInv', NEW t \in Tasks, StaysPut(t), init_append(t)
  PROVE  LifeInv'
<1>0. TypeOK /\ QueuesOK /\ Running(t) /\ pc[t] = "init_append" /\ "ready" \in Queues /\ "sleeping" \in Queues
  BY DEF LifeInv, CallsInv, StaysPut, init_append, At, Queues
<1>n. PICK n \in Tasks : n = target[t]
  BY <1>0, OneAtATime DEF InitLabels, Running
<1>1. /\ \A u \in Tasks : u # t /\ pc[u] \in InitLabels => target[u] # n
      /\ pc[n] = "user" /\ Created(n) /\ n # t
  BY <1>0, <1>n, OneAtATime, RunningCreated DEF InitLabels, Newborn
<1>2. /\ \A q \in Queues, u \in Tasks : In(q, u)' => In(q, u) \/ (q = "ready" /\ u = n)
      /\ \A u \in Tasks : Linked(u)' => Linked(u) \/ u = n
  <2>1. \A q \in Queues, u \in Tasks : In(q, u)' <=> In(q, u) \/ (q = "ready" /\ u = n /\ ~Linked(n))
    BY <1>0, <1>n, AppendMembers DEF init_append
  <2> QED BY <2>1 DEF Linked, In
<1>3. /\ pc'[t] = "init_count_load" /\ curr' = t
      /\ \A u \in Tasks : u # t => pc'[u] = pc[u] /\ target'[u] = target[u] /\ reg'[u] = reg[u]
      /\ UNCHANGED <<status, id, last_task_id, waiting_task, exit_code>>
  BY <1>0 DEF init_append, Goto, TypeOK, KernelTypeOK, descVars, StaysPut, Same, Running
<1>4. SameCreated /\ SameIds /\ OnlyCleared /\ ~In("sleeping", t)
  BY <1>0, <1>3, RunningAwake DEF SameCreated, Created, SameIds, OnlyCleared, Suspending
<1>5. Ids'
  BY <1>3, <1>4, IdsKept DEF SameCreated
<1>6. NewTasks'
  BY <1>1, <1>2, <1>3, <1>4, OthersNew DEF SameCreated, InitLabels
<1>7. Waits1'
  <2>1. \A u \in Tasks : u # t /\ In("ready", u)' => In("ready", u) \/ pc[u] = "user"
    BY <1>0, <1>1, <1>2
  <2> QED BY <1>0, <1>3, <1>4, <2>1, WaitsKept DEF Blocked, Waiting, Suspending, Resuming, SameIds
<1>8. Sleeps'
  BY <1>0, <1>2, <1>4, SleepsKept
<1>9. Exits'
  <2>1. \A u, x \in Tasks : Released(u, x)' => Released(u, x)
    BY <1>0, <1>1, <1>2, <1>3 DEF Released, Waiting, StaysPut, Same, Suspending
  <2> QED BY <1>3, <2>1, ExitsKept DEF ExitLabels, Gone, Resuming
<1>10. GoneForGood'
  BY <1>1, <1>2, <1>3, GoneKept DEF Gone
<1> QED BY <1>5, <1>6, <1>7, <1>8, <1>9, <1>10 DEF LifeInv

LEMMA CreateTaskStep ==
  ASSUME Creating, LifeInv, CallsInv', NEW t \in Tasks, Running(t), task_init(t)
  PROVE  LifeInv'
<1>0. TypeOK /\ pc[t] = "user"
  BY DEF LifeInv, CallsInv, task_init, Calls, At
<1>1. PICK n \in Tasks :
        /\ <<t, n>> \in Creates /\ pc[n] = "unborn"
        /\ pc' = [pc EXCEPT ![t] = "init_id_load", ![n] = "user"]
        /\ target' = [target EXCEPT ![t] = n]
  BY DEF task_init
<1>2. /\ pc'[t] = "init_id_load" /\ pc'[n] = "user" /\ target'[t] = n
      /\ \A u \in Tasks : u \notin {t, n} => pc'[u] = pc[u]
      /\ \A u \in Tasks : u # t => target'[u] = target[u]
      /\ UNCHANGED <<curr, queues, status, id, last_task_id, waiting_task, exit_code,
                     back, arg_task, arg_queue, reg, aux>>
  BY <1>0, <1>1 DEF task_init, TypeOK, KernelTypeOK, coreVars, argVars, descVars
<1>3. ~Created(n) /\ ~Linked(n) /\ curr # n /\ n # t /\ Created(t) /\ curr = t
  BY <1>0, <1>1, RunningCreated DEF LifeInv, NewTasks
<1>4. \A u \in Tasks : pc[u] \in InitLabels =>
        /\ u # t /\ u # n /\ target[u] \in Tasks /\ target[u] # n
        /\ <<u, target[u]>> \in Creates /\ Newborn(target[u])
        /\ Created(target[u]) <=> pc[u] = "init_append"
  BY <1>0, <1>1 DEF LifeInv, NewTasks, Newborn, InitLabels, CallsInv, Frame
<1>5. /\ \A q, u : In(q, u)' <=> In(q, u)
      /\ \A u : Linked(u)' <=> Linked(u)
      /\ SameCreated /\ SameIds /\ OnlyCleared /\ ~In("sleeping", t)
  BY <1>0, <1>2, SameQueues, RunningAwake DEF SameCreated, Created, SameIds, OnlyCleared, Suspending
<1>6. Ids'
  BY <1>2, <1>5, IdsKept DEF SameCreated
<1>7. NewTasks'
  <2>1. \A u \in Tasks : Newborn(u) => Newborn(u)'
    BY <1>2, <1>3, <1>5 DEF Newborn
  <2>2. Newborn(n)'
    BY <1>2, <1>3, <1>5 DEF Newborn
  <2>3. \A u \in Tasks : pc'[u] \in InitLabels =>
          u = t \/ (pc[u] \in InitLabels /\ pc'[u] = pc[u] /\ target'[u] = target[u])
    BY <1>2 DEF InitLabels
  <2>4. \A u \in Tasks : u \notin {t, n} /\ ~Created(u)' => pc'[u] = "unborn" \/ Newborn(u)'
    BY <1>2, <1>5, <2>1 DEF LifeInv, NewTasks, SameCreated
  <2>5. \A u \in Tasks : pc'[u] = "unborn" => ~Created(u)' /\ ~Linked(u)' /\ curr' # u
    BY <1>2, <1>5 DEF LifeInv, NewTasks, SameCreated
  <2>6. /\ <<t, target'[t]>> \in Creates /\ Newborn(target[t])'
        /\ Created(target[t])' <=> pc'[t] = "init_append"
    <3>1. target'[t] = n /\ ~Created(n)'
      BY <1>2, <1>3, <1>5 DEF SameCreated
    <3> QED BY <1>1, <1>2, <2>2, <3>1
  <2>7. Created(t)'
    BY <1>3, <1>5 DEF SameCreated
  <2>8. ASSUME NEW u \in Tasks, u # t, pc'[u] \in InitLabels
        PROVE  /\ <<u, target'[u]>> \in Creates /\ Newborn(target[u])'
               /\ Created(target[u])' <=> pc'[u] = "init_append"
    <3>1. target[u] \in Tasks
      BY <1>4, <2>3, <2>8
    <3> QED BY <1>4, <1>5, <2>1, <2>3, <2>8, <3>1 DEF SameCreated
  <2>9. ASSUME NEW u \in Tasks, NEW v \in Tasks, u # v, pc'[u] \in InitLabels, pc'[v] \in InitLabels
        PROVE  target'[u] # target'[v]
    <3>1. CASE u = t \/ v = t
      BY <1>2, <1>4, <2>3, <2>9, <3>1
    <3>2. CASE u # t /\ v # t
      BY <2>3, <2>9, <3>2 DEF LifeInv, NewTasks
    <3> QED BY <3>1, <3>2
  <2> QED BY <2>2, <2>4, <2>5, <2>6, <2>7, <2>8, <2>9 DEF NewTasks
<1>8. \A u, x \in Tasks : /\ Waiting(u, x)' <=> Waiting(u, x)
                          /\ Blocked(u, x)' <=> Blocked(u, x)
                          /\ Cleaning(u, x)' <=> Cleaning(u, x)
                          /\ Released(u, x)' <=> Released(u, x)
  <2>1. \A u, x \in Tasks : Waiting(u, x)' <=> Waiting(u, x)
    BY <1>0, <1>1, <1>2 DEF Waiting, Suspending
  <2> QED BY <1>0, <1>1, <1>2, <1>5, <2>1 DEF Blocked, Cleaning, Released, Waiting, Suspending
<1>9. Waits1'
  <2>1. \A u, x \in Tasks : Waiting(u, x)' \/ (pc'[u] = "wait_set" /\ target'[u] = x) => Created(x)'
    <3> SUFFICES ASSUME NEW u \in Tasks, NEW x \in Tasks,
                        Waiting(u, x)' \/ (pc'[u] = "wait_set" /\ target'[u] = x)
                 PROVE  Created(x)'
      OBVIOUS
    <3>1. Waiting(u, x) \/ (pc[u] = "wait_set" /\ target[u] = x)
      BY <1>2, <1>8
    <3> QED BY <1>5, <3>1 DEF LifeInv, Waits1, SameCreated
  <2>2. \A u, x \in Tasks : Created(x)' /\ waiting_task'[u] = id'[x] => Blocked(u, x)' \/ Cleaning(x, u)'
    BY <1>2, <1>5, <1>8 DEF LifeInv, Waits1, SameCreated
  <2>3. ASSUME NEW u \in Tasks, pc'[u] \in Resuming
        PROVE  Blocked(arg_task[u], u)'
    <3>1. pc[u] \in Resuming /\ arg_task' = arg_task
      BY <1>2, <2>3 DEF Resuming
    <3>2. arg_task[u] \in Tasks
      BY <3>1 DEF LifeInv, CallsInv, Frame
    <3> QED BY <3>1, <3>2, <1>8 DEF LifeInv, Waits1
  <2> QED BY <2>1, <2>2, <2>3 DEF Waits1
<1>10. Sleeps'
  BY <1>2, <1>5 DEF LifeInv, Sleeps, Asleep
<1>11. Exits'
  BY <1>2, <1>8 DEF LifeInv, Exits, ExitLabels, Gone, Resuming
<1>12. GoneForGood'
  BY <1>2, <1>5 DEF LifeInv, GoneForGood, Gone
<1> QED BY <1>6, <1>7, <1>9, <1>10, <1>11, <1>12 DEF LifeInv

LEMMA WaitSetStep ==
  ASSUME LifeInv, CallsInv', NEW t \in Tasks, StaysPut(t), wait_set(t)
  PROVE  LifeInv'
<1>0. TypeOK /\ Running(t) /\ pc[t] = "wait_set"
  BY DEF LifeInv, CallsInv, StaysPut, wait_set, At
<1>n. PICK n \in Tasks : n = target[t]
  BY <1>0 DEF LifeInv, CallsInv, Frame
<1>1. /\ pc'[t] = "suspend_remove" /\ back'[t] = "wait_return" /\ target' = target
      /\ waiting_task'[t] = id[n]
      /\ \A u \in Tasks : u # t => pc'[u] = pc[u] /\ reg'[u] = reg[u] /\ waiting_task'[u] = waiting_task[u]
      /\ UNCHANGED <<curr, queues, status, id, last_task_id, exit_code, aux, arg_task>>
  BY <1>0, <1>n DEF wait_set, call_suspend, Goto, TypeOK, KernelTypeOK, coreVars, localVars
<1>2. /\ \A q, u : In(q, u)' <=> In(q, u)
      /\ \A u : Linked(u)' <=> Linked(u)
      /\ SameCreated /\ ~In("sleeping", t) /\ Created(n)
  BY <1>0, <1>n, <1>1, SameQueues, RunningAwake DEF SameCreated, Created, Suspending, LifeInv, Waits1
<1>3. Ids'
  <2>1. UniqueIds'
    BY <1>1 DEF LifeInv, Ids, UniqueIds, Created
  <2>2. \A u \in Tasks : pc'[u] \in {"init_id_store", "init_fill"} => u # t
    BY <1>1
  <2> QED BY <1>1, <2>1, <2>2 DEF LifeInv, Ids
<1>4. NewTasks'
  BY <1>1, <1>2, NewKept DEF InitLabels
<1>5. ASSUME NEW u \in Tasks, u # t, NEW x \in Tasks
      PROVE  /\ Waiting(u, x)' <=> Waiting(u, x)
             /\ Blocked(u, x)' <=> Blocked(u, x)
             /\ Released(u, x)' <=> Released(u, x)
  BY <1>1, <1>2, <1>5 DEF Waiting, Blocked, Released, StaysPut, Same
<1>6. /\ Blocked(t, n)' /\ \A x \in Tasks : Waiting(t, x)' => x = n
      /\ \A x \in Tasks : ~Waiting(t, x) /\ ~Released(t, x)'
  BY <1>0, <1>n, <1>1 DEF Blocked, Waiting, Released, Suspending
<1>7. Waits1'
  <2>1. ASSUME NEW u \in Tasks, NEW x \in Tasks,
               Waiting(u, x)' \/ (pc'[u] = "wait_set" /\ target'[u] = x)
        PROVE  Created(x)'
    <3>1. CASE u = t
      BY <1>1, <1>2, <1>6, <2>1, <3>1 DEF SameCreated
    <3>2. CASE u # t
      <4>1. Waiting(u, x) \/ (pc[u] = "wait_set" /\ target[u] = x)
        BY <1>1, <1>5, <2>1, <3>2
      <4> QED BY <1>2, <4>1 DEF LifeInv, Waits1, SameCreated
    <3> QED BY <3>1, <3>2
  <2>2. ASSUME NEW u \in Tasks, NEW x \in Tasks, Created(x)', waiting_task'[u] = id'[x]
        PROVE  Blocked(u, x)' \/ Cleaning(x, u)'
    <3>1. CASE u = t
      <4>1. Created(x) /\ id[n] = id[x]
        BY <1>1, <1>2, <2>2, <3>1 DEF SameCreated
      <4>2. x = n
        BY <4>1, <1>2 DEF LifeInv, Ids, UniqueIds, Created
      <4> QED BY <3>1, <4>2, <1>6
    <3>2. CASE u # t
      <4>1. Blocked(u, x) \/ Cleaning(x, u)
        BY <1>1, <1>2, <2>2, <3>2 DEF SameCreated, LifeInv, Waits1
      <4>2. Cleaning(x, u) => Cleaning(x, u)'
        BY <1>0, <1>1 DEF Cleaning
      <4> QED BY <1>5, <3>2, <4>1, <4>2
    <3> QED BY <3>1, <3>2
  <2>3. ASSUME NEW u \in Tasks, pc'[u] \in Resuming
        PROVE  Blocked(arg_task[u], u)'
    <3>1. u # t /\ pc[u] \in Resuming /\ arg_task' = arg_task
      BY <1>1, <2>3 DEF Resuming
    <3>2. arg_task[u] \in Tasks /\ Blocked(arg_task[u], u)
      BY <3>1 DEF LifeInv, CallsInv, Frame, Waits1
    <3>3. arg_task[u] # t
      BY <3>2, <1>6 DEF Blocked
    <3> QED BY <3>1, <3>2, <3>3, <1>5
  <2> QED BY <2>1, <2>2, <2>3 DEF Waits1
<1>8. Sleeps'
  BY <1>2, SleepsKept
<1>9. Exits'
  <2>1. \A u, x \in Tasks : Released(u, x)' => Released(u, x)
    BY <1>5, <1>6
  <2> QED BY <1>1, <2>1, ExitsKept DEF ExitLabels, Gone, Resuming
<1>10. GoneForGood'
  BY <1>1, <1>2, GoneKept DEF Gone
<1> QED BY <1>3, <1>4, <1>7, <1>8, <1>9, <1>10 DEF LifeInv

(* The two steps that clear waiting_task of the task that was resumed.      *)
LEMMA ExitClearSteps ==
  ASSUME LifeInv, CallsInv', NEW t \in Tasks, StaysPut(t), exit_clear(t) \/ exit_last_clear(t)
  PROVE  LifeInv'
<1>0. TypeOK /\ Running(t) /\ pc[t] \in {"exit_clear", "exit_last_clear"} /\ aux[t] \in Tasks
  BY DEF LifeInv, CallsInv, StaysPut, exit_clear, exit_last_clear, At, Frame
<1>1. /\ pc'[t] \in {"exit_loop", "exit_remove"}
      /\ \A u \in Tasks : u # t => pc'[u] = pc[u]
      /\ waiting_task' = [waiting_task EXCEPT ![aux[t]] = -1]
      /\ UNCHANGED <<curr, queues, status, id, last_task_id, exit_code, reg, target>>
  BY <1>0 DEF exit_clear, exit_last_clear, Goto, TypeOK, KernelTypeOK, coreVars, localVars
<1>2. /\ \A q, u : In(q, u)' <=> In(q, u)
      /\ \A u : Linked(u)' <=> Linked(u)
      /\ SameCreated /\ SameIds /\ OnlyCleared /\ waiting_task'[aux[t]] = -1
      /\ ~In("sleeping", t)
  BY <1>0, <1>1, SameQueues, RunningAwake DEF SameCreated, Created, SameIds, OnlyCleared, Suspending, TypeOK
<1>3. Ids'
  BY <1>1, <1>2, IdsKept DEF SameCreated
<1>4. NewTasks'
  BY <1>1, <1>2, NewKept DEF InitLabels
<1>5. Waits1'
  BY <1>0, <1>1, <1>2, WaitsKept DEF SameIds, Blocked, Waiting, Suspending, Resuming
<1>6. Sleeps'
  BY <1>2, SleepsKept
<1>7. Exits'
  <2>1. \A u, x \in Tasks : Released(u, x)' => Released(u, x)
    BY <1>0, <1>1, <1>2 DEF Released, Waiting, StaysPut, Same, Suspending
  <2> QED BY <1>0, <1>1, <2>1, ExitsKept DEF LifeInv, Exits, ExitLabels
<1>8. GoneForGood'
  BY <1>1, <1>2, GoneKept DEF Gone
<1> QED BY <1>3, <1>4, <1>5, <1>6, <1>7, <1>8 DEF LifeInv

(* The steps that move a task between queues.                               *)
LEMMA ExitRemoveStep ==
  ASSUME LifeInv, CallsInv', NEW t \in Tasks, StaysPut(t), exit_remove(t)
  PROVE  LifeInv'
<1>0. /\ TypeOK /\ QueuesOK /\ Running(t) /\ pc[t] = "exit_remove"
      /\ "ready" \in Queues /\ "sleeping" \in Queues
  BY DEF LifeInv, CallsInv, StaysPut, exit_remove, At, Queues
<1>1. /\ pc'[t] = "exit_count_load"
      /\ \A u \in Tasks : u # t => pc'[u] = pc[u] /\ reg'[u] = reg[u]
      /\ UNCHANGED <<curr, status, id, last_task_id, waiting_task, exit_code, target>>
  BY <1>0 DEF exit_remove, Goto, TypeOK, KernelTypeOK, descVars
<1>2. /\ \A q \in Queues, u \in Tasks : In(q, u)' <=> In(q, u) /\ ~(q = "ready" /\ u = t)
      /\ \A u \in Tasks : Linked(u)' => Linked(u)
  <2>1. \A q \in Queues, u \in Tasks : In(q, u)' <=> In(q, u) /\ ~(q = "ready" /\ u = t)
    BY <1>0, RemoveMembers DEF exit_remove
  <2> QED BY <2>1 DEF Linked, In
<1>3. SameCreated /\ SameIds /\ OnlyCleared /\ ~In("sleeping", t)
  BY <1>0, <1>1, RunningAwake DEF SameCreated, Created, SameIds, OnlyCleared, Suspending
<1>4. Ids'
  BY <1>1, <1>3, IdsKept DEF SameCreated
<1>5. NewTasks'
  BY <1>1, <1>2, <1>3, NewKept DEF InitLabels
<1>6. Waits1'
  BY <1>0, <1>1, <1>2, <1>3, WaitsKept DEF SameIds, Blocked, Waiting, Suspending, Resuming
<1>7. Sleeps'
  BY <1>0, <1>2, <1>3, SleepsKept
<1>8. Exits'
  <2>1. \A u, x \in Tasks : Released(u, x)' => Released(u, x)
    BY <1>0, <1>1, <1>2 DEF Released, Waiting, StaysPut, Same, Suspending
  <2> QED BY <1>0, <1>1, <2>1, ExitsKept DEF LifeInv, Exits, ExitLabels
<1>9. GoneForGood'
  <2>1. ~Linked(t)'
    <3>1. In("ready", t)
      BY <1>0 DEF LifeInv, CallsInv, RunningIsReady, Running, Leaving, LeavingLabels, In
    <3>2. \A q \in Queues : ~In(q, t)'
      BY <1>0, <1>2, <3>1 DEF QueuesOK
    <3> QED BY <3>2 DEF Linked, In
  <2> QED BY <1>1, <1>2, <2>1, GoneKept
<1> QED BY <1>4, <1>5, <1>6, <1>7, <1>8, <1>9 DEF LifeInv

LEMMA SuspendSteps ==
  ASSUME LifeInv, CallsInv', NEW t \in Tasks, StaysPut(t), UNCHANGED tasksVars,
         suspend_remove(t) \/ suspend_append(t) \/ suspend_switch(t)
  PROVE  LifeInv'
<1>0. /\ TypeOK /\ QueuesOK /\ Running(t) /\ Created(t) /\ curr = t /\ pc[t] \in Suspending
      /\ \/ back[t] = "user" /\ arg_queue[t] = "sleeping"
         \/ back[t] = "wait_return" /\ arg_queue[t] = "suspended"
      /\ {"ready", "suspended", "sleeping"} \subseteq Queues
  BY RunningCreated DEF LifeInv, CallsInv, StaysPut, Frame, suspend_remove, suspend_append,
     suspend_switch, Suspending, Queues
<1>1. /\ UNCHANGED <<id, last_task_id, waiting_task, exit_code, target, reg, aux, arg_task>>
      /\ \A u \in Tasks : u # t => pc'[u] = pc[u] /\ back'[u] = back[u]
      /\ SameCreated /\ SameIds /\ OnlyCleared
  <2>1. status' = status \/ status' = [status EXCEPT ![t] = "SUSPENDED"]
    BY DEF suspend_remove, suspend_append, suspend_switch, switch_to_dispatcher
  <2>2. SameCreated
    BY <1>0, <2>1 DEF SameCreated, Created, TypeOK
  <2> QED BY <2>2 DEF suspend_remove, suspend_append, suspend_switch, argVars, tasksVars, descVars,
                      localVars, StaysPut, Same, SameIds, OnlyCleared
<1>2. CASE suspend_remove(t)
  <2>1. pc[t] = "suspend_remove" /\ pc'[t] = "suspend_append" /\ back'[t] = back[t] /\ curr' = curr
    BY <1>0, <1>2 DEF suspend_remove, Goto, argVars, TypeOK, KernelTypeOK
  <2>2. /\ \A q \in Queues, u \in Tasks : In(q, u)' <=> In(q, u) /\ ~(q = "ready" /\ u = t)
        /\ \A u \in Tasks : Linked(u)' => Linked(u)
    <3>1. \A q \in Queues, u \in Tasks : In(q, u)' <=> In(q, u) /\ ~(q = "ready" /\ u = t)
      BY <1>0, <1>2, RemoveMembers DEF suspend_remove
    <3> QED BY <3>1 DEF Linked, In
  <2>3. ~In("ready", t)' /\ ~In("sleeping", t)
    BY <1>0, <2>1, <2>2 DEF LifeInv, Sleeps, Asleep
  <2>4. Ids' /\ NewTasks'
    BY <1>1, <2>1, <2>2, IdsKept, NewKept DEF SameCreated, InitLabels
  <2>5. Waits1'
    <3>1. \A x \in Tasks : /\ Waiting(t, x)' => Waiting(t, x)
                           /\ Blocked(t, x) => Blocked(t, x)'
      BY <1>1, <2>1, <2>3 DEF Blocked, Waiting, Suspending
    <3>2. \A x \in Tasks : Waiting(t, x)' \/ (pc'[t] = "wait_set" /\ target'[t] = x) => Created(x)
      BY <3>1, <2>1 DEF LifeInv, Waits1
    <3> QED BY <1>0, <1>1, <2>1, <2>2, <3>1, <3>2, WaitsKept DEF SameIds, Resuming
  <2>6. Sleeps'
    BY <1>0, <2>2, <2>3, SleepsKept
  <2>7. Exits'
    <3>1. \A u, x \in Tasks : Released(u, x)' => Released(u, x)
      BY <1>0, <1>1, <2>1, <2>2, <2>3 DEF Released, Waiting
    <3> QED BY <1>1, <2>1, <3>1, ExitsKept DEF ExitLabels, Gone, Resuming
  <2>8. GoneForGood'
    BY <2>1, <2>2, GoneKept DEF Gone
  <2> QED BY <2>4, <2>5, <2>6, <2>7, <2>8 DEF LifeInv
<1>3. CASE suspend_append(t)
  <2>1. pc[t] = "suspend_append" /\ pc'[t] = "suspend_switch" /\ back'[t] = back[t] /\ curr' = curr
    BY <1>0, <1>3 DEF suspend_append, Goto, argVars, TypeOK, KernelTypeOK
  <2>2. /\ \A q \in Queues, u \in Tasks : In(q, u)' => In(q, u) \/ (q = arg_queue[t] /\ u = t)
        /\ \A u \in Tasks : Linked(u)' => Linked(u) \/ u = t
    <3>1. \A q \in Queues, u \in Tasks :
            In(q, u)' <=> In(q, u) \/ (q = arg_queue[t] /\ u = t /\ ~Linked(t))
      BY <1>0, <1>3, AppendMembers DEF suspend_append
    <3> QED BY <3>1 DEF Linked, In
  <2>3. /\ In("ready", t)' => In("ready", t)
        /\ In("sleeping", t)' => back[t] = "user"
    BY <1>0, <2>1, <2>2 DEF LifeInv, Sleeps, Asleep
  <2>4. Ids' /\ NewTasks'
    BY <1>0, <1>1, <2>1, <2>2, IdsKept, NewKept DEF SameCreated, InitLabels
  <2>5. Waits1'
    <3>1. \A x \in Tasks : /\ Waiting(t, x)' => Waiting(t, x)
                           /\ Blocked(t, x) => Blocked(t, x)'
      BY <1>1, <2>1, <2>3 DEF Blocked, Waiting, Suspending
    <3>2. \A x \in Tasks : Waiting(t, x)' \/ (pc'[t] = "wait_set" /\ target'[t] = x) => Created(x)
      BY <3>1, <2>1 DEF LifeInv, Waits1
    <3> QED BY <1>0, <1>1, <2>1, <2>2, <3>1, <3>2, WaitsKept DEF SameIds, Resuming
  <2>6. Sleeps'
    BY <1>0, <2>1, <2>2, <2>3, SleepsKept DEF Asleep
  <2>7. Exits'
    <3>1. \A u, x \in Tasks : Released(u, x)' => Released(u, x)
      BY <1>0, <1>1, <2>1, <2>2, <2>3 DEF Released, Waiting, Suspending
    <3> QED BY <1>1, <2>1, <3>1, ExitsKept DEF ExitLabels, Gone, Resuming
  <2>8. GoneForGood'
    BY <2>1, <2>2, GoneKept DEF Gone
  <2> QED BY <2>4, <2>5, <2>6, <2>7, <2>8 DEF LifeInv
<1>4. CASE suspend_switch(t)
  <2>1. /\ pc[t] = "suspend_switch" /\ pc'[t] = back[t] /\ curr' = Dispatcher
        /\ queues' = queues
    BY <1>0, <1>4 DEF suspend_switch, switch_to_dispatcher, Goto, TypeOK, KernelTypeOK
  <2>2. /\ \A q, u : In(q, u)' <=> In(q, u)
        /\ \A u : Linked(u)' <=> Linked(u)
    BY <2>1, SameQueues
  <2>3. Ids' /\ NewTasks'
    BY <1>0, <1>1, <2>1, <2>2, IdsKept, NewKept DEF SameCreated, InitLabels
  <2>4. \A x \in Tasks : /\ Waiting(t, x)' => Waiting(t, x)
                         /\ Blocked(t, x) => Blocked(t, x)'
    BY <1>0, <1>1, <2>1, <2>2, KernelAssumption DEF Blocked, Waiting, Suspending
  <2>5. Waits1'
    <3>1. \A x \in Tasks : Waiting(t, x)' \/ (pc'[t] = "wait_set" /\ target'[t] = x) => Created(x)
      BY <1>0, <2>4, <2>1 DEF LifeInv, Waits1
    <3> QED BY <1>0, <1>1, <2>1, <2>2, <2>4, <3>1, WaitsKept DEF SameIds, Resuming
  <2>6. Sleeps'
    <3>1. In("sleeping", t) => back[t] = "user"
      BY <2>1 DEF LifeInv, Sleeps, Asleep
    <3> QED BY <2>1, <2>2, <3>1, SleepsKept DEF Asleep
  <2>7. Exits'
    <3>1. \A u, x \in Tasks : Released(u, x)' => Released(u, x)
      BY <1>0, <1>1, <2>1, <2>2, <2>4 DEF Released, Waiting, Suspending
    <3> QED BY <1>0, <1>1, <2>1, <3>1, ExitsKept DEF ExitLabels, Gone, Resuming
  <2>8. GoneForGood'
    BY <1>0, <2>1, <2>2, GoneKept DEF Gone
  <2> QED BY <2>3, <2>5, <2>6, <2>7, <2>8 DEF LifeInv
<1> QED BY <1>2, <1>3, <1>4

LEMMA ResumeRemoveStep ==
  ASSUME LifeInv, CallsInv', NEW t \in Tasks, StaysPut(t), UNCHANGED tasksVars, resume_remove(t)
  PROVE  LifeInv'
<1>0. /\ TypeOK /\ QueuesOK /\ Running(t) /\ pc[t] = "resume_remove"
      /\ arg_queue[t] = "suspended" /\ arg_task[t] \in Tasks
      /\ {"ready", "suspended", "sleeping"} \subseteq Queues
  BY DEF LifeInv, CallsInv, StaysPut, Frame, Resuming, resume_remove, Queues
<1>1. /\ pc'[t] = "resume_append" /\ curr' = curr /\ arg_task' = arg_task
      /\ \A u \in Tasks : u # t => pc'[u] = pc[u] /\ back'[u] = back[u]
      /\ UNCHANGED <<status, id, last_task_id, waiting_task, exit_code, target, reg, aux>>
  BY <1>0 DEF resume_remove, Goto, argVars, tasksVars, descVars, localVars, TypeOK, KernelTypeOK
<1>2. /\ \A q \in Queues, u \in Tasks : In(q, u)' => In(q, u)
      /\ \A u \in Tasks : Linked(u)' => Linked(u)
  <2>1. \A q \in Queues, u \in Tasks :
          In(q, u)' <=> In(q, u) /\ ~(q = "suspended" /\ u = arg_task[t])
    BY <1>0, RemoveMembers DEF resume_remove
  <2> QED BY <2>1 DEF Linked, In
<1>3. SameCreated /\ SameIds /\ OnlyCleared /\ ~In("sleeping", t)
  BY <1>0, <1>1, RunningAwake DEF SameCreated, Created, SameIds, OnlyCleared, Suspending
<1>4. Ids'
  BY <1>1, <1>3, IdsKept DEF SameCreated
<1>5. NewTasks'
  BY <1>1, <1>2, <1>3, NewKept DEF InitLabels
<1>6. Waits1'
  <2>1. Blocked(arg_task[t], t)
    BY <1>0 DEF LifeInv, Waits1, Resuming
  <2> QED BY <1>0, <1>1, <1>2, <1>3, <2>1, WaitsKept DEF SameIds, Blocked, Waiting, Suspending
<1>7. Sleeps'
  BY <1>0, <1>2, <1>3, SleepsKept
<1>8. Exits'
  <2>1. \A u, x \in Tasks : Released(u, x)' => Released(u, x)
    BY <1>0, <1>1, <1>2 DEF Released, Waiting, Suspending
  <2> QED BY <1>0, <1>1, <2>1, ExitsKept DEF LifeInv, Exits, Resuming
<1>9. GoneForGood'
  BY <1>1, <1>2, GoneKept DEF Gone
<1> QED BY <1>4, <1>5, <1>6, <1>7, <1>8, <1>9 DEF LifeInv

(* The waiter becomes ready, and its awaited task cleans up after it.       *)
LEMMA ResumeAppendStep ==
  ASSUME LifeInv, CallsInv', NEW t \in Tasks, StaysPut(t), UNCHANGED tasksVars, resume_append(t)
  PROVE  LifeInv'
<1>0. /\ TypeOK /\ QueuesOK /\ Running(t) /\ pc[t] = "resume_append" /\ arg_task[t] \in Tasks
      /\ back[t] \in {"exit_clear", "exit_last_clear"} /\ exit_code[t] = 1
      /\ {"ready", "suspended", "sleeping"} \subseteq Queues
  BY DEF LifeInv, CallsInv, StaysPut, Frame, Resuming, Exits, resume_append, Queues
<1>n. PICK n \in Tasks : n = arg_task[t]
  BY <1>0
<1>1. /\ aux[t] = n /\ Blocked(n, t) /\ n # t /\ target[n] = t
      /\ pc[n] \in Suspending \cup {"wait_return"} /\ Created(n)
  <2>1. aux[t] = n /\ Blocked(n, t)
    BY <1>0, <1>n DEF LifeInv, CallsInv, Frame, Waits1, Resuming
  <2>2. target[n] = t /\ pc[n] \in Suspending \cup {"wait_return"}
    BY <2>1 DEF Blocked, Waiting
  <2>3. Created(n)
    BY <2>2 DEF LifeInv, NewTasks, Newborn, Suspending
  <2> QED BY <1>0, <2>1, <2>2, <2>3 DEF Suspending
<1>2. /\ pc'[t] = back[t] /\ curr' = curr
      /\ \A u \in Tasks : u # t => pc'[u] = pc[u] /\ back'[u] = back[u] /\ arg_task'[u] = arg_task[u]
      /\ UNCHANGED <<id, last_task_id, waiting_task, exit_code, target, reg, aux>>
      /\ status' = [status EXCEPT ![n] = "READY"]
  BY <1>0, <1>n DEF resume_append, Goto, tasksVars, descVars, localVars, TypeOK, KernelTypeOK
<1>3. /\ \A q \in Queues, u \in Tasks : In(q, u)' => In(q, u) \/ (q = "ready" /\ u = n)
      /\ \A u \in Tasks : Linked(u)' => Linked(u) \/ u = n
  <2>1. \A q \in Queues, u \in Tasks :
          In(q, u)' <=> In(q, u) \/ (q = "ready" /\ u = n /\ ~Linked(n))
    BY <1>0, <1>n, AppendMembers DEF resume_append
  <2> QED BY <2>1 DEF Linked, In
<1>4. SameCreated /\ SameIds /\ OnlyCleared /\ ~In("sleeping", t)
  BY <1>0, <1>1, <1>2, RunningAwake DEF SameCreated, Created, SameIds, OnlyCleared, Suspending, TypeOK
<1>5. Ids'
  BY <1>0, <1>2, <1>4, IdsKept DEF SameCreated
<1>6. NewTasks'
  <2>1. pc[n] # "user"
    BY <1>1 DEF Suspending
  <2> QED BY <1>0, <1>1, <1>2, <1>3, <1>4, <2>1, NewKept DEF InitLabels
<1>7. \A u, x \in Tasks : Waiting(u, x)' <=> Waiting(u, x)
  BY <1>0, <1>2 DEF Waiting, Suspending
<1>8. ASSUME NEW u \in Tasks, u # n, NEW x \in Tasks
      PROVE  /\ Blocked(u, x) => Blocked(u, x)'
             /\ Released(u, x)' => Released(u, x)
  BY <1>0, <1>2, <1>3, <1>7, <1>8 DEF Blocked, Released, Waiting, Suspending
<1>9. Waits1'
  <2>1. \A u, x \in Tasks : Waiting(u, x)' \/ (pc'[u] = "wait_set" /\ target'[u] = x) => Created(x)'
    <3> SUFFICES ASSUME NEW u \in Tasks, NEW x \in Tasks,
                        Waiting(u, x)' \/ (pc'[u] = "wait_set" /\ target'[u] = x)
                 PROVE  Created(x)'
      OBVIOUS
    <3>1. Waiting(u, x) \/ (pc[u] = "wait_set" /\ target[u] = x)
      BY <1>0, <1>2, <1>7
    <3> QED BY <1>4, <3>1 DEF LifeInv, Waits1, SameCreated
  <2>2. ASSUME NEW u \in Tasks, NEW x \in Tasks, Created(x)', waiting_task'[u] = id'[x]
        PROVE  Blocked(u, x)' \/ Cleaning(x, u)'
    <3>1. Blocked(u, x) \/ Cleaning(x, u)
      BY <1>2, <1>4, <2>2 DEF LifeInv, Waits1, SameCreated
    <3>2. Cleaning(x, u) => Cleaning(x, u)'
      BY <1>0, <1>2 DEF Cleaning
    <3>3. CASE Blocked(u, x) /\ u = n
      <4>1. x = t
        BY <1>1, <3>3 DEF Blocked, Waiting
      <4> QED BY <1>0, <1>1, <1>2, <3>3, <4>1 DEF Cleaning
    <3> QED BY <1>8, <3>1, <3>2, <3>3
  <2>3. ASSUME NEW u \in Tasks, pc'[u] \in Resuming
        PROVE  Blocked(arg_task[u], u)'
    <3>1. u # t /\ pc[u] \in Resuming /\ arg_task'[u] = arg_task[u]
      BY <1>0, <1>2, <2>3 DEF Resuming
    <3>2. arg_task[u] \in Tasks /\ Blocked(arg_task[u], u)
      BY <3>1 DEF LifeInv, CallsInv, Frame, Waits1
    <3>3. arg_task[u] # n
      BY <1>1, <3>1, <3>2 DEF Blocked, Waiting
    <3> QED BY <1>8, <3>1, <3>2, <3>3
  <2> QED BY <2>1, <2>2, <2>3 DEF Waits1
<1>10. Sleeps'
  BY <1>0, <1>3, <1>4, SleepsKept
<1>11. Exits'
  <2>1. ASSUME NEW u \in Tasks, NEW x \in Tasks, Released(u, x)'
        PROVE  Released(u, x) \/ exit_code[x] = 1
    <3>1. u = n => x = t
      BY <1>1, <1>7, <2>1 DEF Released, Waiting
    <3> QED BY <1>0, <1>8, <2>1, <3>1
  <2> QED BY <1>0, <1>2, <2>1, ExitsKept
<1>12. GoneForGood'
  BY <1>0, <1>1, <1>2, <1>3, GoneKept DEF Gone, Suspending
<1> QED BY <1>5, <1>6, <1>9, <1>10, <1>11, <1>12 DEF LifeInv

-----------------------------------------------------------------------------
(* The timer, the dispatcher and the end of the process.                    *)
LEMMA SystemKept ==
  ASSUME LifeInv, CallsInv', SameIds, SameCreated,
         UNCHANGED <<frameVars, waiting_task, exit_code, localVars>>,
         \A u \in Tasks : /\ In("ready", u)' => In("ready", u) \/ In("sleeping", u)
                          /\ In("sleeping", u)' => In("sleeping", u)
                          /\ Linked(u)' => Linked(u)
                          /\ curr' = u => curr = u \/ In("ready", u)'
  PROVE  LifeInv'
<1>1. UNCHANGED <<pc, back, arg_task, target, reg, aux>> /\ OnlyCleared
  BY DEF frameVars, argVars, localVars, OnlyCleared
<1>2. \A u \in Tasks : In("ready", u)' => Linked(u)
  BY DEF Linked, In, Queues
<1>3. \A u, x \in Tasks : Waiting(u, x) => ~In("sleeping", u)
  BY DEF LifeInv, Sleeps, Asleep, Waiting, Suspending
<1>4. \A u, x \in Tasks : Waiting(u, x)' <=> Waiting(u, x)
  BY <1>1 DEF Waiting
<1>5. ASSUME NEW u \in Tasks, NEW x \in Tasks
      PROVE  /\ Blocked(u, x) => Blocked(u, x)'
             /\ Released(u, x)' => Released(u, x)
  <2>1. Waiting(u, x) => (In("ready", u)' => In("ready", u))
    BY <1>3
  <2>2. pc[u] = "wait_return" => pc[u] # "suspend_remove"
    OBVIOUS
  <2>3. Blocked(u, x) => Blocked(u, x)'
    BY <1>1, <1>4, <2>1, <2>2 DEF Blocked
  <2>4. Released(u, x)' => Released(u, x)
    BY <1>1, <1>4, <2>1 DEF Released
  <2> QED BY <2>3, <2>4
<1>6. Ids'
  BY <1>1, IdsKept DEF SameCreated
<1>7. NewTasks'
  <2>1. \A u \in Tasks : Newborn(u) => Newborn(u)'
    BY <1>1, <1>2 DEF Newborn
  <2>2. ASSUME NEW u \in Tasks, pc'[u] \in InitLabels
        PROVE  /\ <<u, target'[u]>> \in Creates /\ Newborn(target[u])'
               /\ Created(target[u])' <=> pc'[u] = "init_append"
    <3>1. target[u] \in Tasks /\ target' = target /\ pc' = pc
      BY <1>1, <2>2 DEF LifeInv, CallsInv, Frame
    <3> QED BY <2>1, <2>2, <3>1 DEF LifeInv, NewTasks, SameCreated
  <2>3. target' = target /\ pc' = pc
    BY <1>1
  <2> QED BY <1>1, <1>2, <2>1, <2>2, <2>3 DEF LifeInv, NewTasks, SameCreated
<1>8. Waits1'
  <2>1. \A u, x \in Tasks : Waiting(u, x)' \/ (pc'[u] = "wait_set" /\ target'[u] = x) => Created(x)'
    BY <1>1, <1>4 DEF LifeInv, Waits1, SameCreated
  <2>2. ASSUME NEW u \in Tasks, NEW x \in Tasks, Created(x)', waiting_task'[u] = id'[x]
        PROVE  Blocked(u, x)' \/ Cleaning(x, u)'
    <3>1. Blocked(u, x) \/ Cleaning(x, u)
      BY <2>2 DEF LifeInv, Waits1, SameCreated, SameIds
    <3> QED BY <1>1, <1>5, <3>1 DEF Cleaning
  <2>3. ASSUME NEW u \in Tasks, pc'[u] \in Resuming
        PROVE  Blocked(arg_task[u], u)'
    <3>1. arg_task[u] \in Tasks /\ Blocked(arg_task[u], u) /\ arg_task' = arg_task
      BY <1>1, <2>3 DEF LifeInv, CallsInv, Frame, Waits1
    <3> QED BY <1>5, <3>1
  <2> QED BY <2>1, <2>2, <2>3 DEF Waits1
<1>9. Sleeps'
  BY <1>1 DEF LifeInv, Sleeps, Asleep
<1>10. Exits'
  BY <1>1, <1>5 DEF LifeInv, Exits
<1>11. GoneForGood'
  BY <1>1, <1>2 DEF LifeInv, GoneForGood
<1> QED BY <1>6, <1>7, <1>8, <1>9, <1>10, <1>11 DEF LifeInv

LEMMA LifeSystem ==
  ASSUME LifeInv, TickSleep \/ DispatchNext \/ UNCHANGED vars
  PROVE  LifeInv'
<1>0. CallsInv' /\ TypeOK /\ QueuesOK
  BY CallsNext DEF LifeInv, CallsInv, Next
<1>1. CASE TickSleep \/ (Shutdown /\ UNCHANGED tasksVars) \/ UNCHANGED vars
  <2>1. /\ queues' = queues /\ curr' \in {curr, Dispatcher}
        /\ UNCHANGED <<frameVars, descVars, localVars>>
        /\ status' = status \/ (curr \in Tasks /\ status' = [status EXCEPT ![curr] = "SUSPENDED"])
    BY <1>0, <1>1 DEF TickSleep, Tick, switch_to_dispatcher, Shutdown, vars, kernelVars, coreVars,
                      tasksVars, TypeOK, KernelTypeOK
  <2>2. SameCreated
    <3>1. curr \in Tasks => Created(curr)
      BY DEF LifeInv, NewTasks, Newborn
    <3> QED BY <1>0, <2>1, <3>1 DEF SameCreated, Created, TypeOK
  <2>3. \A u \in Tasks : /\ In("ready", u)' => In("ready", u) \/ In("sleeping", u)
                         /\ In("sleeping", u)' => In("sleeping", u)
                         /\ Linked(u)' => Linked(u)
                         /\ curr' = u => curr = u \/ In("ready", u)'
    BY <2>1, SameQueues, KernelAssumption
  <2> QED BY <1>0, <2>1, <2>2, <2>3, SystemKept DEF SameIds, descVars
<1>2. CASE Dispatch /\ UNCHANGED tasksVars
  <2>1. /\ \A q \in Queues, u \in Tasks :
             In(q, u)' => In(q, u) \/ (q = "ready" /\ In("sleeping", u))
        /\ {"ready", "sleeping"} \subseteq Queues
    <3>1. queues' = after_wake_tasks
      BY <1>2 DEF Dispatch
    <3> QED BY <1>0, <3>1, WakeMembers DEF Queues
  <2>2. \A u \in Tasks : Linked(u)' => Linked(u)
    BY <2>1 DEF Linked, In
  <2>3. PICK n \in Tasks :
          /\ Chosen(queues'["ready"], n) /\ curr' = n
          /\ status' = [t \in Tasks |->
                          CASE t = n -> "RUNNING"
                            [] t # n /\ Contains(queues["sleeping"], t) /\ Due(t) -> "READY"
                            [] OTHER -> status[t]]
    BY <1>2 DEF Dispatch
  <2>4. In("ready", n)'
    BY <2>3 DEF Chosen, In, Contains
  <2>5. SameCreated
    <3>1. \A u \in Tasks : Linked(u) => Created(u)
      BY DEF LifeInv, NewTasks, Newborn
    <3>2. Linked(n) /\ \A u \in Tasks : Contains(queues["sleeping"], u) => Linked(u)
      BY <2>1, <2>2, <2>4 DEF Linked, In
    <3> QED BY <2>3, <3>1, <3>2 DEF SameCreated, Created
  <2>6. UNCHANGED <<frameVars, descVars, localVars>>
    BY <1>2 DEF Dispatch, tasksVars
  <2> QED BY <1>0, <2>1, <2>2, <2>3, <2>4, <2>5, <2>6, SystemKept DEF SameIds, descVars
<1> QED BY <1>1, <1>2 DEF DispatchNext

LEMMA LifeStep ==
  ASSUME Creating, LifeInv, NEW t \in Tasks, Step(t)
  PROVE  LifeInv'
<1>1. CallsInv' /\ Running(t)
  BY CallsStep DEF LifeInv
<1>2. CASE task_init(t)
  BY <1>1, <1>2, CreateTaskStep
<1>3. CASE ~task_init(t)
  <2>1. StaysPut(t)
    BY <1>3, StepStays DEF LifeInv
  <2>2. Ordinary(t) => LifeInv'
    BY <1>1, <2>1, OrdinaryStep
  <2> QED BY <1>1, <1>3, <2>1, <2>2, OrdinarySteps, InitIdSteps, InitFillStep, InitAppendStep,
             WaitSetStep, ExitClearSteps, ExitRemoveStep, SuspendSteps, ResumeRemoveStep,
             ResumeAppendStep DEF Step, SuspendResume
<1> QED BY <1>2, <1>3

(* A task_init that may overlap another one is not preempted at IdLabels.   *)
LEMMA CreatingKept ==
  ASSUME SerialCreation, Creating, CallsInv, [Next]_vars
  PROVE  Creating'
<1> SUFFICES ASSUME ~OneCreator, NEW u \in Tasks, pc'[u] \in IdLabels
             PROVE  curr' = u
  BY DEF Creating
<1>0. TypeOK /\ Preemptible \cap IdLabels = {}
  BY DEF CallsInv, SerialCreation
<1>1. CASE TickSleep
  <2>1. pc' = pc /\ curr = u /\ u # Dispatcher
    BY <1>1, KernelAssumption DEF TickSleep, Tick, frameVars, Creating
  <2> QED BY <1>0, <1>1, <2>1 DEF TickSleep, Tick
<1>2. CASE DispatchNext \/ UNCHANGED vars
  <2>1. pc' = pc /\ curr = u /\ u # Dispatcher
    BY <1>2, KernelAssumption DEF DispatchNext, Dispatch, Shutdown, vars, kernelVars, frameVars, Creating
  <2> QED BY <1>2, <2>1 DEF DispatchNext, Dispatch, Shutdown, Running, vars, kernelVars, coreVars
<1>3. ASSUME NEW t \in Tasks, Step(t) PROVE curr' = u
  <2>1. Running(t) /\ (task_init(t) \/ StaysPut(t))
    BY <1>3, CallsStep, StepStays
  <2>2. \A v \in Tasks : pc[v] \in IdLabels => v = t
    BY <2>1 DEF Creating, Running
  <2>3. CASE task_init(t)
    <3>1. \A v \in Tasks : v # t => pc'[v] = pc[v] \/ pc'[v] = "user"
      BY <1>0, <2>3 DEF task_init, TypeOK, KernelTypeOK
    <3>2. u = t
      BY <2>2, <3>1 DEF IdLabels
    <3> QED BY <2>1, <2>3, <3>2 DEF task_init, Running, coreVars
  <2>4. CASE StaysPut(t) /\ ~task_init(t)
    <3>1. u = t
      BY <2>2, <2>4 DEF StaysPut, Same
    <3>2. CASE curr' = curr
      BY <2>1, <3>1, <3>2 DEF Running
    <3>3. CASE task_yield(t) \/ exit_switch(t) \/ suspend_switch(t)
      <4>1. pc[t] = "suspend_switch" => back[t] \notin IdLabels
        BY DEF CallsInv, Frame, Suspending, IdLabels
      <4>2. pc'[t] \notin IdLabels
        BY <1>0, <3>3, <4>1 DEF task_yield, exit_switch, suspend_switch, Goto, Calls, At, frameVars,
                                IdLabels, TypeOK, KernelTypeOK
      <4> QED BY <3>1, <4>2
    <3>4. curr' = curr \/ task_yield(t) \/ exit_switch(t) \/ suspend_switch(t)
      BY <2>1, <2>4, <1>3, QuietSteps, LoopSteps, AppendSteps, RemoveSteps
         DEF Step, SuspendResume, Quiet, Moved
    <3> QED BY <3>2, <3>3, <3>4
  <2> QED BY <2>1, <2>3, <2>4
<1> QED BY <1>1, <1>2, <1>3 DEF Next

LEMMA LifeInit == Init => LifeInv /\ Creating
<1> SUFFICES ASSUME Init PROVE LifeInv /\ Creating
  OBVIOUS
<1>1. CallsInv
  BY CallsInit
<1>2. /\ pc = [t \in Tasks |-> IF t = Main THEN "user" ELSE "unborn"]
      /\ status = [t \in Tasks |-> IF t = Main THEN "READY" ELSE "NOT_CREATED"]
      /\ id = [t \in Tasks |-> 0] /\ last_task_id = 0 /\ curr = Main
      /\ waiting_task = [t \in Tasks |-> -1]
      /\ queues = [q \in Queues |-> IF q = "ready" THEN <<Main>> ELSE << >>]
      /\ Main \in Tasks
  BY TasksAssumption DEF Init
<1>3. \A u \in Tasks : pc[u] \in {"user", "unborn"}
  BY <1>2
<1>4. \A q \in Queues, u \in Tasks : In(q, u) => q = "ready" /\ u = Main
  <2>1. Len(<< >>) = 0 /\ Len(<<Main>>) = 1 /\ <<Main>>[1] = Main
    BY EmptySeq
  <2> QED BY <1>2, <2>1 DEF In, Contains
<1>5. Ids
  BY <1>2, <1>3 DEF Ids, UniqueIds, Created
<1>6. NewTasks
  BY <1>2, <1>3, <1>4 DEF NewTasks, Created, InitLabels, Linked, In
<1>7. Waits1 /\ Exits /\ GoneForGood /\ Creating
  BY <1>2, <1>3 DEF Waits1, Exits, GoneForGood, Creating, Waiting, Released, Suspending, Resuming,
                    ExitLabels, Gone, IdLabels
<1>8. Sleeps
  BY <1>4 DEF Sleeps, Queues
<1> QED BY <1>1, <1>5, <1>6, <1>7, <1>8 DEF LifeInv

(* The inductive invariant of the life of a task.                           *)
THEOREM LifeInvariant == SerialCreation => (Spec => [](LifeInv /\ Creating))
<1> SUFFICES ASSUME SerialCreation PROVE Spec => [](LifeInv /\ Creating)
  OBVIOUS
<1>1. LifeInv /\ Creating /\ [Next]_vars => (LifeInv /\ Creating)'
  <2> SUFFICES ASSUME LifeInv, Creating, [Next]_vars PROVE (LifeInv /\ Creating)'
    OBVIOUS
  <2>1. LifeInv'
    BY LifeSystem, LifeStep DEF Next
  <2>2. Creating'
    BY CreatingKept DEF LifeInv
  <2> QED BY <2>1, <2>2
<1> QED BY <1>1, LifeInit, PTL DEF Spec

(* task_wait returns only after the task that it names has called           *)
(* task_exit, wherever the tasks are preempted.                             *)
THEOREM WaitersGetExitCode == SerialCreation => (Spec => []WaitReturnsExitCode)
<1>1. LifeInv => WaitReturnsExitCode
  <2> SUFFICES ASSUME LifeInv, NEW t \in Tasks, curr = t, pc[t] = "wait_return"
               PROVE  exit_code[target[t]] = 1
    BY DEF WaitReturnsExitCode
  <2>1. target[t] \in Tasks /\ In("ready", t)
    BY DEF LifeInv, CallsInv, Frame, RunningIsReady, Leaving, LeavingLabels, In
  <2>2. Released(t, target[t])
    BY <2>1 DEF Released, Waiting
  <2> QED BY <2>1, <2>2 DEF LifeInv, Exits
<1> QED BY <1>1, LifeInvariant, PTL

(* Nobody brings back a task that has left through task_exit.               *)
THEOREM ExitedTasksStayOut == SerialCreation => (Spec => []ExitedStaysOut)
<1>1. LifeInv => ExitedStaysOut
  BY DEF LifeInv, GoneForGood, ExitedStaysOut, Gone
<1> QED BY <1>1, LifeInvariant, PTL

(* The ids by which task_wait and task_exit find each other are unique.     *)
THEOREM IdsAreUnique == SerialCreation => (Spec => []UniqueIds)
<1>1. LifeInv => UniqueIds
  BY DEF LifeInv, Ids
<1> QED BY <1>1, LifeInvariant, PTL

-----------------------------------------------------------------------------
(* No task is lost between two queues, if the quantum does not end between  *)
(* the removal of a task from the ready queue and its task_switch.          *)

HandsInv ==
  /\ CallsInv
  /\ \A t \in Tasks : Leaving(t) => curr = t
  /\ \A t \in Tasks : pc[t] = "suspend_switch" => Linked(t)
  /\ \A t \in Tasks : arg_task[t] # NULL => pc[t] \in Resuming
  /\ \A t \in Tasks : pc[t] \notin {"unborn", "dead"} /\ ~Leaving(t) /\ ~Linked(t)
                        => \E u \in Tasks : InHandsOf(t, u)

(* What a step of t has to respect.                                         *)
KeepsHands(t) ==
  /\ Leaving(t)' => curr' = t
  /\ pc'[t] = "suspend_switch" => Linked(t)'
  /\ curr' = Dispatcher /\ pc'[t] # "dead" => Linked(t)'
  /\ arg_task'[t] # NULL => pc'[t] \in Resuming
  /\ \A u \in Tasks : u # t /\ Linked(u) => Linked(u)' \/ InHandsOf(u, t)'
  /\ \A u \in Tasks : InHandsOf(u, t) => Linked(u)' \/ InHandsOf(u, t)'

LEMMA HandsKept ==
  ASSUME HandsInv, CallsInv', NEW t \in Tasks, StaysPut(t), KeepsHands(t)
  PROVE  HandsInv'
<1>1. \A u \in Tasks : u # t => pc'[u] = pc[u] /\ arg_task'[u] = arg_task[u] /\ target'[u] = target[u]
  BY DEF StaysPut, Same
<1>2. ASSUME NEW u \in Tasks, u # t
      PROVE  /\ ~Leaving(u)'
             /\ pc'[u] = "suspend_switch" => Linked(u)'
             /\ arg_task'[u] # NULL => pc'[u] \in Resuming
  BY <1>1, <1>2 DEF HandsInv, StaysPut, Running, Leaving, LeavingLabels
<1>3. ASSUME NEW u \in Tasks, pc'[u] \notin {"unborn", "dead"}, ~Leaving(u)', ~Linked(u)'
      PROVE  \E w \in Tasks : InHandsOf(u, w)'
  <2>1. CASE u = t
    <3>1. curr' = t
      BY <1>3, <2>1 DEF StaysPut, KeepsHands
    <3>2. In("ready", t)'
      BY <1>3, <2>1, <3>1 DEF CallsInv, RunningIsReady, In
    <3> QED BY <1>3, <2>1, <3>2 DEF Linked, In, Queues
  <2>2. CASE u # t /\ Linked(u)
    BY <1>3, <2>2 DEF KeepsHands
  <2>3. CASE u # t /\ ~Linked(u)
    <3>1. pc[u] \notin {"unborn", "dead"} /\ ~Leaving(u)
      BY <1>1, <1>3, <2>3 DEF Leaving, LeavingLabels
    <3>2. PICK w \in Tasks : InHandsOf(u, w)
      BY <2>3, <3>1 DEF HandsInv
    <3>3. InHandsOf(u, w)'
      BY <1>1, <1>3, <3>2 DEF KeepsHands, InHandsOf
    <3> QED BY <3>3
  <2> QED BY <2>1, <2>2, <2>3
<1> QED BY <1>2, <1>3 DEF HandsInv, KeepsHands

LEMMA HandsQuiet ==
  ASSUME HandsInv, NEW t \in Tasks, Running(t),
         \/ task_setprio(t) \/ task_sleep(t) \/ task_wait(t) \/ wait_set(t) \/ wait_return(t)
         \/ init_id_load(t) \/ init_id_store(t) \/ init_fill(t)
         \/ init_count_load(t) \/ init_count_store(t)
         \/ task_exit(t) \/ set_exit_code(t) \/ exit_head(t) \/ exit_loop(t) \/ exit_next(t)
         \/ exit_check(t) \/ exit_clear(t)
         \/ exit_last(t) \/ exit_last_clear(t) \/ exit_count_load(t) \/ exit_count_store(t)
  PROVE  KeepsHands(t)
<1>1. /\ CallsInv /\ curr = t /\ pc \in [Tasks -> Labels \cup KernelLabels]
      /\ arg_task \in [Tasks -> Tasks \cup {NULL}] /\ t # Dispatcher
      /\ arg_task[t] # NULL => pc[t] \in Resuming
  BY KernelAssumption DEF HandsInv, CallsInv, TypeOK, KernelTypeOK, Running
<1>2. queues' = queues /\ curr' = curr
  BY DEF task_setprio, task_sleep, task_wait, wait_set, wait_return, init_id_load, init_id_store,
         init_fill, init_count_load, init_count_store, count_load, count_store, task_exit,
         set_exit_code, exit_head, exit_loop, exit_next, exit_check, exit_clear, exit_last, exit_last_clear, exit_count_load,
         exit_count_store, coreVars
<1>3. CASE init_id_load(t) \/ init_id_store(t) \/ init_fill(t)
  <2>1. /\ pc[t] \in {"init_id_load", "init_id_store", "init_fill"}
        /\ pc'[t] \in {"init_id_store", "init_fill", "init_append"}
        /\ target' = target /\ arg_task' = arg_task
    BY <1>1, <1>3 DEF init_id_load, init_id_store, init_fill, At, Goto, argVars, localVars
  <2> QED BY <1>1, <1>2, <2>1 DEF KeepsHands, InHandsOf, Linked, Resuming
<1>4. CASE exit_check(t) \/ exit_last(t)
  <2>1. /\ pc[t] \in {"exit_check", "exit_last"}
        /\ \/ pc'[t] = "resume_remove"
           \/ pc'[t] \in {"exit_check", "exit_last", "exit_loop", "exit_remove"} /\ arg_task' = arg_task
    BY <1>1, <1>4 DEF exit_check, exit_last, call_resume, At, Goto, argVars, frameVars
  <2>2. arg_task[t] = NULL
    BY <1>1, <2>1 DEF Resuming
  <2> QED BY <1>1, <1>2, <2>1, <2>2, KernelAssumption DEF KeepsHands, InHandsOf, Linked, Resuming, Leaving, LeavingLabels
<1>5. CASE \/ task_setprio(t) \/ task_sleep(t) \/ task_wait(t) \/ wait_set(t) \/ wait_return(t)
           \/ init_count_load(t) \/ init_count_store(t) \/ task_exit(t)
  <2>1. /\ pc[t] \in {"user", "wait_set", "wait_return", "init_count_load", "init_count_store"}
        /\ pc'[t] \in {"user", "suspend_remove", "wait_set", "init_count_store", "exit_code"}
        /\ arg_task' = arg_task
    BY <1>1, <1>5 DEF task_setprio, task_sleep, task_wait, wait_set, wait_return, init_count_load,
         init_count_store, count_load, count_store, task_exit, call_suspend, Calls, At, Goto, argVars,
         frameVars
  <2>2. arg_task[t] = NULL
    BY <1>1, <2>1 DEF Resuming
  <2> QED BY <1>1, <1>2, <2>1, <2>2, KernelAssumption DEF KeepsHands, InHandsOf, Linked
<1>6. CASE \/ set_exit_code(t) \/ exit_head(t) \/ exit_loop(t) \/ exit_next(t)
           \/ exit_clear(t) \/ exit_last_clear(t) \/ exit_count_load(t) \/ exit_count_store(t)
  <2>1. /\ pc[t] \in {"exit_code", "exit_head", "exit_loop", "exit_next", "exit_clear",
                      "exit_last_clear", "exit_count_load", "exit_count_store"}
        /\ pc'[t] \in {"exit_head", "exit_loop", "exit_next", "exit_check", "exit_last", "exit_remove", "exit_count_store",
                       "exit_switch"}
        /\ arg_task' = arg_task
    BY <1>1, <1>6 DEF set_exit_code, exit_head, exit_loop, exit_next, exit_clear, exit_last_clear, exit_count_load,
         exit_count_store, count_load, count_store, At, Goto, argVars
  <2>2. arg_task[t] = NULL
    BY <1>1, <2>1 DEF Resuming
  <2> QED BY <1>1, <1>2, <2>1, <2>2, KernelAssumption DEF KeepsHands, InHandsOf, Linked
<1> QED BY <1>3, <1>4, <1>5, <1>6

LEMMA HandsSwitch ==
  ASSUME HandsInv, NEW t \in Tasks, Running(t),
         task_yield(t) \/ exit_switch(t) \/ (suspend_switch(t) /\ UNCHANGED tasksVars)
  PROVE  KeepsHands(t)
<1>1. /\ curr = t /\ pc \in [Tasks -> Labels \cup KernelLabels] /\ Frame(t)
      /\ arg_task[t] # NULL => pc[t] \in Resuming
      /\ ~Leaving(t) => Linked(t)
      /\ pc[t] = "suspend_switch" => Linked(t)
  BY DEF HandsInv, CallsInv, TypeOK, KernelTypeOK, Running, RunningIsReady, Linked, Queues
<1>2. queues' = queues /\ curr' = Dispatcher /\ arg_task' = arg_task
  BY DEF task_yield, exit_switch, suspend_switch, switch_to_dispatcher, frameVars, argVars
<1>3. /\ pc[t] \in {"user", "exit_switch", "suspend_switch"}
      /\ pc[t] = "user" => pc'[t] = "user"
      /\ pc[t] = "exit_switch" => pc'[t] = "dead"
      /\ pc[t] = "suspend_switch" => pc'[t] \in {"user", "wait_return"}
  BY <1>1 DEF task_yield, exit_switch, suspend_switch, Calls, At, Goto, frameVars, Frame, Suspending
<1>4. arg_task[t] = NULL
  BY <1>1, <1>3 DEF Resuming
<1>5. \A u : Linked(u)' <=> Linked(u)
  BY <1>2 DEF Linked
<1>6. ~Leaving(t)' /\ pc'[t] # "suspend_switch"
  BY <1>3 DEF Leaving, LeavingLabels
<1>7. pc'[t] # "dead" => Linked(t)
  BY <1>1, <1>3 DEF Leaving, LeavingLabels
<1>8. \A u \in Tasks : ~InHandsOf(u, t)
  BY <1>3, <1>4, KernelAssumption DEF InHandsOf
<1> QED BY <1>2, <1>4, <1>5, <1>6, <1>7, <1>8 DEF KeepsHands

LEMMA HandsMoved ==
  ASSUME HandsInv, NEW t \in Tasks, Running(t),
         \/ init_append(t) \/ exit_remove(t)
         \/ /\ suspend_remove(t) \/ suspend_append(t) \/ resume_remove(t) \/ resume_append(t)
            /\ UNCHANGED tasksVars
  PROVE  KeepsHands(t)
<1>0. /\ QueuesOK /\ curr = t /\ pc \in [Tasks -> Labels \cup KernelLabels] /\ Frame(t)
      /\ arg_task \in [Tasks -> Tasks \cup {NULL}] /\ t # Dispatcher
      /\ arg_task[t] # NULL => pc[t] \in Resuming
      /\ {"ready", "suspended", "sleeping"} \subseteq Queues
  BY KernelAssumption DEF HandsInv, CallsInv, TypeOK, KernelTypeOK, Running, Queues
<1> DEFINE Links(u) == \E q \in Queues : In(q, u)
<1>l. \A u : (Linked(u) <=> Links(u)) /\ (Linked(u)' <=> Links(u)')
  BY DEF Linked, In, Queues
<1>1. CASE init_append(t)
  <2>1. pc[t] = "init_append" /\ target[t] \in Tasks
    BY <1>0, <1>1 DEF init_append, At, Frame, InitLabels
  <2>n. PICK n \in Tasks : n = target[t]
    BY <2>1
  <2>2. \A p \in Queues, u \in Tasks :
          In(p, u)' <=> In(p, u) \/ (p = "ready" /\ u = n /\ ~Linked(n))
    BY <1>0, <1>1, <2>n, AppendMembers DEF init_append
  <2>3. pc'[t] = "init_count_load" /\ arg_task' = arg_task /\ curr' = curr
    BY <1>0, <1>1 DEF init_append, Goto, argVars
  <2>4. \A u \in Tasks : Linked(u) => Linked(u)'
    BY <1>l, <2>2
  <2>5. Linked(n)'
    BY <1>0, <1>l, <2>2, <2>4
  <2>6. arg_task[t] = NULL
    BY <1>0, <2>1 DEF Resuming
  <2>7. \A u \in Tasks : InHandsOf(u, t) => u = n
    BY <2>n, <2>6, KernelAssumption DEF InHandsOf
  <2> QED BY <1>0, <2>3, <2>4, <2>5, <2>6, <2>7 DEF KeepsHands, Leaving, LeavingLabels
<1>2. CASE exit_remove(t) \/ (suspend_remove(t) /\ UNCHANGED tasksVars)
  <2>1. /\ pc[t] \in {"exit_remove", "suspend_remove"} /\ queue_remove("ready", t)
        /\ pc'[t] \in {"exit_count_load", "suspend_append"} /\ arg_task' = arg_task /\ curr' = curr
    BY <1>0, <1>2 DEF exit_remove, suspend_remove, At, Goto, argVars
  <2>2. \A p \in Queues, u \in Tasks : In(p, u)' <=> In(p, u) /\ ~(p = "ready" /\ u = t)
    BY <1>0, <2>1, RemoveMembers
  <2>3. \A u \in Tasks : u # t /\ Linked(u) => Linked(u)'
    BY <1>l, <2>2
  <2>4. arg_task[t] = NULL
    BY <1>0, <2>1 DEF Resuming
  <2>5. \A u \in Tasks : ~InHandsOf(u, t)
    BY <2>1, <2>4, KernelAssumption DEF InHandsOf
  <2> QED BY <1>0, <2>1, <2>3, <2>4, <2>5 DEF KeepsHands
<1>3. CASE suspend_append(t) /\ UNCHANGED tasksVars
  <2>1. pc[t] = "suspend_append" /\ arg_queue[t] \in Queues
    BY <1>0, <1>3 DEF suspend_append, Frame, Suspending
  <2>2. \A p \in Queues, u \in Tasks :
          In(p, u)' <=> In(p, u) \/ (p = arg_queue[t] /\ u = t /\ ~Linked(t))
    BY <1>0, <1>3, <2>1, AppendMembers DEF suspend_append
  <2>3. pc'[t] = "suspend_switch" /\ arg_task' = arg_task /\ curr' = curr
    BY <1>0, <1>3 DEF suspend_append, Goto, argVars
  <2>4. \A u \in Tasks : Linked(u) => Linked(u)'
    BY <1>l, <2>2
  <2>5. Linked(t)'
    BY <1>l, <2>1, <2>2, <2>4
  <2>6. arg_task[t] = NULL
    BY <1>0, <2>1 DEF Resuming
  <2>7. \A u \in Tasks : ~InHandsOf(u, t)
    BY <2>1, <2>6, KernelAssumption DEF InHandsOf
  <2> QED BY <1>0, <2>3, <2>4, <2>5, <2>6, <2>7 DEF KeepsHands
<1>4. CASE resume_remove(t) /\ UNCHANGED tasksVars
  <2>1. pc[t] = "resume_remove" /\ arg_queue[t] = "suspended" /\ arg_task[t] \in Tasks
    BY <1>0, <1>4 DEF resume_remove, Frame, Resuming
  <2>2. \A p \in Queues, u \in Tasks : In(p, u)' <=> In(p, u) /\ ~(p = "suspended" /\ u = arg_task[t])
    BY <1>0, <1>4, <2>1, RemoveMembers DEF resume_remove
  <2>3. pc'[t] = "resume_append" /\ arg_task' = arg_task /\ curr' = curr
    BY <1>0, <1>4 DEF resume_remove, Goto, argVars
  <2>4. \A u \in Tasks : Linked(u) => Linked(u)' \/ u = arg_task[t]
    BY <1>l, <2>2
  <2>5. \A u \in Tasks : u = arg_task[t] => InHandsOf(u, t)'
    BY <2>3 DEF InHandsOf
  <2>6. \A u \in Tasks : InHandsOf(u, t) => u = arg_task[t]
    BY <2>1 DEF InHandsOf
  <2> QED BY <1>0, <2>3, <2>4, <2>5, <2>6 DEF KeepsHands, Leaving, LeavingLabels, Resuming
<1>5. CASE resume_append(t) /\ UNCHANGED tasksVars
  <2>1. /\ pc[t] = "resume_append" /\ arg_task[t] \in Tasks
        /\ back[t] \in {"exit_clear", "exit_last_clear"}
    BY <1>0, <1>5 DEF resume_append, Frame, Resuming
  <2>n. PICK n \in Tasks : n = arg_task[t]
    BY <2>1
  <2>2. \A p \in Queues, u \in Tasks :
          In(p, u)' <=> In(p, u) \/ (p = "ready" /\ u = n /\ ~Linked(n))
    BY <1>0, <1>5, <2>n, AppendMembers DEF resume_append
  <2>3. pc'[t] = back[t] /\ arg_task'[t] = NULL /\ curr' = curr
    BY <1>0, <1>5 DEF resume_append, Goto
  <2>4. \A u \in Tasks : Linked(u) => Linked(u)'
    BY <1>l, <2>2
  <2>5. Linked(n)'
    BY <1>0, <1>l, <2>2, <2>4
  <2>6. \A u \in Tasks : InHandsOf(u, t) => u = n
    BY <2>n, <2>1 DEF InHandsOf
  <2> QED BY <1>0, <2>1, <2>3, <2>4, <2>5, <2>6 DEF KeepsHands, Leaving, LeavingLabels
<1> QED BY <1>1, <1>2, <1>3, <1>4, <1>5

(* The new task is in the hands of its creator.                             *)
LEMMA HandsCreate ==
  ASSUME HandsInv, CallsInv', NEW t \in Tasks, Running(t), task_init(t)
  PROVE  HandsInv'
<1>1. PICK n \in Tasks :
        /\ pc[t] = "user" /\ pc[n] = "unborn"
        /\ pc' = [pc EXCEPT ![t] = "init_id_load", ![n] = "user"]
        /\ target' = [target EXCEPT ![t] = n]
  BY DEF task_init, Calls, At
<1>2. /\ pc'[t] = "init_id_load" /\ pc'[n] = "user" /\ target'[t] = n
      /\ \A u \in Tasks : u \notin {t, n} => pc'[u] = pc[u]
      /\ \A u \in Tasks : u # t => target'[u] = target[u]
      /\ UNCHANGED <<curr, queues, arg_task>>
  <2>1. pc \in [Tasks -> Labels \cup KernelLabels] /\ target \in [Tasks -> Tasks \cup {NULL}]
    BY DEF HandsInv, CallsInv, TypeOK, KernelTypeOK
  <2> QED BY <1>1, <2>1 DEF task_init, coreVars, argVars
<1>3. \A u : Linked(u)' <=> Linked(u)
  BY <1>2 DEF Linked
<1>4. \A u \in Tasks : /\ Leaving(u)' => curr' = u
                       /\ pc'[u] = "suspend_switch" => Linked(u)'
                       /\ arg_task'[u] # NULL => pc'[u] \in Resuming
  BY <1>1, <1>2, <1>3 DEF HandsInv, Leaving, LeavingLabels, Resuming
<1>5. ASSUME NEW u \in Tasks, pc'[u] \notin {"unborn", "dead"}, ~Leaving(u)', ~Linked(u)'
      PROVE  \E w \in Tasks : InHandsOf(u, w)'
  <2>1. CASE u = n
    BY <1>2, <2>1 DEF InHandsOf
  <2>2. CASE u = t
    BY <1>2, <1>3, <1>5, <2>2 DEF HandsInv, CallsInv, RunningIsReady, Running, Leaving, LeavingLabels, Linked, Queues
  <2>3. CASE u \notin {t, n}
    <3>1. PICK w \in Tasks : InHandsOf(u, w)
      BY <1>2, <1>3, <1>5, <2>3 DEF HandsInv, Leaving, LeavingLabels
    <3>2. InHandsOf(u, w)'
      <4>1. pc[w] \in InitLabels => w \notin {t, n}
        BY <1>1 DEF InitLabels
      <4> QED BY <1>2, <3>1, <4>1 DEF InHandsOf, InitLabels
    <3> QED BY <3>2
  <2> QED BY <2>1, <2>2, <2>3
<1> QED BY <1>4, <1>5 DEF HandsInv

LEMMA HandsSystem ==
  ASSUME HandsInv, CallsInv', Preemptible \cap LeavingLabels = {},
         TickSleep \/ DispatchNext \/ UNCHANGED vars
  PROVE  HandsInv'
<1>1. UNCHANGED <<pc, arg_task, target>>
  BY DEF TickSleep, Tick, DispatchNext, Dispatch, Shutdown, vars, kernelVars, frameVars, argVars,
         tasksVars, localVars
<1>2. \A u \in Tasks : Linked(u) => Linked(u)'
  <2>1. CASE queues' = queues
    BY <2>1 DEF Linked
  <2>2. CASE queues' = after_wake_tasks
    <3>1. \A q \in Queues, u \in Tasks :
            In(q, u)' <=> CASE q = "ready" -> In(q, u) \/ (In("sleeping", u) /\ Due(u))
                            [] q = "sleeping" -> In(q, u) /\ ~Due(u)
                            [] OTHER -> In(q, u)
      BY <2>2, WakeMembers DEF HandsInv, CallsInv
    <3>2. {"ready", "sleeping"} \subseteq Queues
      BY DEF Queues
    <3> QED BY <3>1, <3>2 DEF Linked, In
  <2> QED BY <2>1, <2>2 DEF TickSleep, Tick, DispatchNext, Dispatch, Shutdown, vars, kernelVars, coreVars
<1>3. ASSUME NEW u \in Tasks, Leaving(u), curr' # u PROVE FALSE
  <2>1. curr = u /\ u # Dispatcher
    BY <1>3, KernelAssumption DEF HandsInv
  <2>2. CASE TickSleep
    BY <1>3, <2>1, <2>2 DEF TickSleep, Tick, Leaving, LeavingLabels
  <2>3. CASE DispatchNext \/ UNCHANGED vars
    BY <1>3, <2>1, <2>3 DEF DispatchNext, Dispatch, Shutdown, Running, vars, kernelVars, coreVars
  <2> QED BY <2>2, <2>3
<1>4. \A u : Leaving(u)' <=> Leaving(u)
  BY <1>1 DEF Leaving, LeavingLabels
<1>5. \A u, w : InHandsOf(u, w)' <=> InHandsOf(u, w)
  BY <1>1 DEF InHandsOf
<1> QED BY <1>1, <1>2, <1>3, <1>4, <1>5 DEF HandsInv

LEMMA HandsInit == Init => HandsInv
<1> SUFFICES ASSUME Init PROVE HandsInv
  OBVIOUS
<1>1. /\ pc = [t \in Tasks |-> IF t = Main THEN "user" ELSE "unborn"]
      /\ arg_task = [t \in Tasks |-> NULL]
      /\ CallsInv /\ curr = Main
  BY CallsInit DEF Init
<1>2. \A t \in Tasks : ~Leaving(t) /\ pc[t] # "suspend_switch" /\ arg_task[t] = NULL
  BY <1>1 DEF Leaving, LeavingLabels
<1>3. \A t \in Tasks : pc[t] # "unborn" => Linked(t)
  BY <1>1, <1>2 DEF CallsInv, RunningIsReady, Linked, Queues
<1> QED BY <1>1, <1>2, <1>3 DEF HandsInv

(* task_suspend and task_resume hand every task over from one queue to the  *)
(* next: nobody in the system is out of everybody's hands, wherever else    *)
(* the tasks are preempted and however many of them create tasks.           *)
THEOREM NobodyStranded ==
  Preemptible \cap LeavingLabels = {} => (Spec => []NoTaskStranded)
<1> SUFFICES ASSUME Preemptible \cap LeavingLabels = {} PROVE Spec => []NoTaskStranded
  OBVIOUS
<1>1. HandsInv /\ [Next]_vars => HandsInv'
  <2> SUFFICES ASSUME HandsInv, [Next]_vars PROVE HandsInv'
    OBVIOUS
  <2>1. CallsInv'
    BY CallsNext DEF HandsInv
  <2>2. ASSUME NEW t \in Tasks, Step(t) PROVE HandsInv'
    <3>1. Running(t)
      BY <2>2, CallsStep DEF HandsInv
    <3>2. CASE task_init(t)
      BY <2>1, <3>1, <3>2, HandsCreate
    <3>3. CASE ~task_init(t)
      <4>1. StaysPut(t)
        BY <2>2, <3>3, StepStays DEF HandsInv
      <4>2. KeepsHands(t)
        BY <2>2, <3>1, <3>3, HandsQuiet, HandsSwitch, HandsMoved DEF Step, SuspendResume
      <4> QED BY <2>1, <4>1, <4>2, HandsKept
    <3> QED BY <3>2, <3>3
  <2> QED BY <2>1, <2>2, HandsSystem DEF Next
<1>2. HandsInv => NoTaskStranded
  BY DEF HandsInv, NoTaskStranded
<1> QED BY <1>1, <1>2, HandsInit, PTL DEF Spec

-----------------------------------------------------------------------------
(* The count of the tasks, by which the dispatcher knows when to end.       *)
Out         == {"unborn", "exit_switch", "dead"}

(* The tasks that have entered the ready queue and not counted themselves   *)
(* out; one of them may be about to be counted in.                          *)
InSystem == {t \in Tasks : /\ pc[t] \notin Out
                           /\ \A u \in Tasks : pc[u] \in InitLabels => target[u] # t}

uncounted == IF \E t \in Tasks : pc[t] \in Pending THEN 1 ELSE 0

RollInv ==
  /\ LifeInv
  /\ \A t \in Tasks : pc[t] \in CountLabels => curr = t
  /\ \A t \in Tasks : pc[t] \in {"init_count_store", "exit_count_store"} => reg[t] = user_tasks_num
  /\ user_tasks_num + uncounted = Cardinality(InSystem)
  /\ NoEarlyShutdown

LEMMA InSystemSize ==
  ASSUME NEW t \in Tasks
  PROVE  /\ IsFiniteSet(InSystem) /\ Cardinality(InSystem) \in Nat
         /\ t \notin InSystem => Cardinality(InSystem \cup {t}) = Cardinality(InSystem) + 1
         /\ t \in InSystem => Cardinality(InSystem \ {t}) = Cardinality(InSystem) - 1
<1>1. InSystem \subseteq Tasks /\ IsFiniteSet(Tasks)
  BY KernelAssumption DEF InSystem
<1>2. IsFiniteSet(InSystem)
  BY <1>1, FS_Subset
<1> QED BY <1>2, FS_CardinalityType, FS_AddElement, FS_RemoveElement

(* The running task is not one of the others' newborn tasks.                *)
LEMMA RunningInSystem ==
  ASSUME LifeInv, NEW t \in Tasks, Running(t)
  PROVE  /\ t \in InSystem <=> pc[t] \notin Out
         /\ \A u \in Tasks : pc[u] \in InitLabels => target[u] # t
BY DEF LifeInv, NewTasks, Newborn, Running, InSystem

(* What the steps of t have in common.                                      *)
LEMMA RollKept ==
  ASSUME RollInv, LifeInv', NEW t \in Tasks, StaysPut(t), os' # "exited",
         pc'[t] \in CountLabels => curr' = t,
         pc'[t] \in {"init_count_store", "exit_count_store"} => reg'[t] = user_tasks_num',
         user_tasks_num' + (IF pc'[t] \in Pending THEN 1 ELSE 0) = Cardinality(InSystem')
  PROVE  RollInv'
<1>1. \A u \in Tasks : u # t => pc'[u] = pc[u] /\ pc[u] \notin CountLabels
  BY DEF RollInv, StaysPut, Same, Running
<1>2. uncounted' = IF pc'[t] \in Pending THEN 1 ELSE 0
  BY <1>1 DEF uncounted, CountLabels
<1>3. \A u \in Tasks : pc'[u] \in CountLabels => u = t
  BY <1>1
<1>4. \A u \in Tasks : pc'[u] \in CountLabels => curr' = u
  BY <1>3
<1>5. \A u \in Tasks : pc'[u] \in {"init_count_store", "exit_count_store"} => reg'[u] = user_tasks_num'
  BY <1>3 DEF CountLabels, Pending
<1>6. NoEarlyShutdown'
  BY DEF NoEarlyShutdown
<1> QED BY <1>2, <1>4, <1>5, <1>6 DEF RollInv

(* The steps that neither count nor enter nor leave.                        *)
LEMMA RollPlain ==
  ASSUME RollInv, LifeInv', NEW t \in Tasks, StaysPut(t), os' # "exited",
         pc[t] \notin Out \/ (pc[t] \in Out /\ pc'[t] \in Out), pc[t] \in Out \/ pc'[t] \notin Out,
         pc[t] \in InitLabels <=> pc'[t] \in InitLabels,
         pc'[t] \in InitLabels => target'[t] = target[t],
         pc[t] \in Pending <=> pc'[t] \in Pending,
         pc'[t] \in CountLabels => curr' = t,
         user_tasks_num' = user_tasks_num,
         pc'[t] \in {"init_count_store", "exit_count_store"} => reg'[t] = user_tasks_num'
  PROVE  RollInv'
<1>1. \A u \in Tasks : u # t => pc'[u] = pc[u] /\ target'[u] = target[u]
  BY DEF StaysPut, Same
<1>2. InSystem' = InSystem
  BY <1>1 DEF InSystem
<1>3. uncounted = IF pc[t] \in Pending THEN 1 ELSE 0
  BY DEF RollInv, uncounted, CountLabels, StaysPut, Running
<1>4. user_tasks_num' + (IF pc'[t] \in Pending THEN 1 ELSE 0) = Cardinality(InSystem')
  BY <1>2, <1>3 DEF RollInv
<1> QED BY <1>4, RollKept

LEMMA StepUp ==
  ASSUME NEW t \in Tasks, Step(t)
  PROVE  os = "up" /\ os' # "exited"
<1>1. os = "up" /\ (os' = os \/ os' \in {"NULL_PTR_ERROR", "segmentation_fault"})
  BY DEF Step, task_yield, task_setprio, task_sleep, task_wait, wait_set, wait_return, task_init,
         init_id_load, init_id_store, init_fill, init_append, init_count_load, init_count_store,
         task_exit, set_exit_code, exit_head, exit_loop, exit_next, exit_check, exit_clear, exit_last, exit_last_clear,
         exit_remove, exit_count_load, exit_count_store, exit_switch, count_load, count_store,
         SuspendResume, suspend_remove, suspend_append, suspend_switch, resume_remove,
         resume_append, call_suspend, call_resume, Calls, At, Running, coreVars
<1> QED BY <1>1

LEMMA RollPlainSteps ==
  ASSUME RollInv, LifeInv', NEW t \in Tasks, Step(t), StaysPut(t),
         ~(task_init(t) \/ init_append(t) \/ init_count_store(t) \/ exit_count_store(t))
  PROVE  RollInv'
<1> USE DEF Out, InitLabels, Pending, CountLabels
<1>0. /\ curr = t /\ pc \in [Tasks -> Labels \cup KernelLabels] /\ Frame(t) /\ os' # "exited"
      /\ t # Dispatcher /\ reg \in [Tasks -> Int]
  BY StepUp, KernelAssumption DEF RollInv, LifeInv, CallsInv, TypeOK, KernelTypeOK, StaysPut, Running
<1>1. CASE init_id_load(t) \/ init_id_store(t) \/ init_fill(t)
  <2>1. /\ pc[t] \in {"init_id_load", "init_id_store", "init_fill"}
        /\ pc'[t] \in {"init_id_store", "init_fill", "init_append"}
        /\ target' = target /\ user_tasks_num' = user_tasks_num
    BY <1>0, <1>1 DEF init_id_load, init_id_store, init_fill, At, Goto, localVars, coreVars
  <2> QED BY <1>0, <2>1, RollPlain
<1>2. CASE init_count_load(t) \/ exit_count_load(t)
  <2>1. /\ \/ pc[t] = "init_count_load" /\ pc'[t] = "init_count_store"
           \/ pc[t] = "exit_count_load" /\ pc'[t] = "exit_count_store"
        /\ reg'[t] = user_tasks_num /\ user_tasks_num' = user_tasks_num /\ curr' = t
    BY <1>0, <1>2 DEF init_count_load, exit_count_load, count_load, At, Goto, coreVars
  <2> QED BY <1>0, <2>1, RollPlain
<1>3. CASE \/ task_setprio(t) \/ task_sleep(t) \/ task_wait(t) \/ wait_set(t) \/ wait_return(t)
           \/ task_yield(t) \/ task_exit(t) \/ set_exit_code(t) \/ exit_head(t) \/ exit_loop(t)
           \/ exit_next(t) \/ exit_clear(t) \/ exit_last_clear(t) \/ exit_remove(t)
  <2>1. /\ pc[t] \in {"user", "wait_set", "wait_return", "exit_code", "exit_head", "exit_loop",
                      "exit_next", "exit_clear", "exit_last_clear", "exit_remove"}
        /\ pc'[t] \in {"user", "suspend_remove", "wait_set", "exit_code", "exit_head", "exit_loop",
                       "exit_next", "exit_check", "exit_last", "exit_remove", "exit_count_load"}
        /\ user_tasks_num' = user_tasks_num
    BY <1>0, <1>3 DEF task_setprio, task_sleep, task_wait, wait_set, wait_return, task_yield,
         task_exit, set_exit_code, exit_head, exit_loop, exit_next, exit_clear, exit_last_clear,
         exit_remove, call_suspend, Calls,
         At, Goto, frameVars, coreVars
  <2> QED BY <1>0, <2>1, RollPlain
<1>4. CASE exit_check(t) \/ exit_last(t)
  <2>1. /\ pc[t] \in {"exit_check", "exit_last"}
        /\ pc'[t] \in {"exit_check", "exit_last", "exit_loop", "exit_remove", "resume_remove"}
        /\ user_tasks_num' = user_tasks_num
    BY <1>0, <1>4 DEF exit_check, exit_last, call_resume, At, Goto, frameVars
  <2> QED BY <1>0, <2>1, RollPlain
<1>5. CASE exit_switch(t)
  <2>1. pc[t] = "exit_switch" /\ pc'[t] = "dead" /\ user_tasks_num' = user_tasks_num
    BY <1>0, <1>5 DEF exit_switch, At, Goto
  <2> QED BY <1>0, <2>1, RollPlain
<1>6. CASE SuspendResume(t)
  <2>1. /\ pc[t] \in KernelLabels /\ user_tasks_num' = user_tasks_num
        /\ \/ pc'[t] \in {"suspend_append", "suspend_switch", "resume_append"}
           \/ pc[t] \in {"suspend_switch", "resume_append"} /\ pc'[t] = back[t]
    BY <1>0, <1>6 DEF SuspendResume, suspend_remove, suspend_append, suspend_switch, resume_remove,
                      resume_append, Goto, KernelLabels
  <2>2. pc'[t] \in {"suspend_append", "suspend_switch", "resume_append", "user", "wait_return",
                    "exit_clear", "exit_last_clear"}
    BY <1>0, <2>1 DEF Frame, Suspending, Resuming
  <2> QED BY <1>0, <2>1, <2>2, RollPlain DEF KernelLabels
<1> QED BY <1>1, <1>2, <1>3, <1>4, <1>5, <1>6 DEF Step

(* The new task enters the ready queue and is counted two steps later.      *)
LEMMA RollAppend ==
  ASSUME RollInv, Creating, LifeInv', NEW t \in Tasks, StaysPut(t), os' # "exited", init_append(t)
  PROVE  RollInv'
<1>0. /\ curr = t /\ Running(t) /\ pc[t] = "init_append" /\ pc \in [Tasks -> Labels \cup KernelLabels]
      /\ user_tasks_num \in Int
  BY DEF RollInv, LifeInv, CallsInv, TypeOK, KernelTypeOK, StaysPut, Running, init_append, At
<1>n. PICK n \in Tasks : n = target[t]
  BY <1>0, OneAtATime DEF InitLabels, RollInv
<1>1. /\ \A u \in Tasks : u # t /\ pc[u] \in InitLabels => target[u] # n
      /\ pc[n] = "user" /\ n # t
  BY <1>0, <1>n, OneAtATime DEF InitLabels, Newborn, RollInv
<1>2. /\ pc'[t] = "init_count_load" /\ curr' = t /\ user_tasks_num' = user_tasks_num
      /\ \A u \in Tasks : u # t => pc'[u] = pc[u] /\ target'[u] = target[u]
  BY <1>0 DEF init_append, Goto, StaysPut, Same
<1>3. InSystem' = InSystem \cup {n} /\ n \notin InSystem
  <2> DEFINE Free(u) == \A w \in Tasks : w # t /\ pc[w] \in InitLabels => target[w] # u
  <2>1. \A u \in Tasks : /\ pc'[u] \in InitLabels <=> u # t /\ pc[u] \in InitLabels
                         /\ u # t => target'[u] = target[u]
    BY <1>0, <1>2 DEF InitLabels
  <2>2. \A u \in Tasks : u \in InSystem' <=> pc'[u] \notin Out /\ Free(u)
    BY <2>1 DEF InSystem
  <2>3. \A u \in Tasks : u \in InSystem <=> pc[u] \notin Out /\ u # n /\ Free(u)
    BY <1>0, <1>n DEF InSystem, InitLabels
  <2>7. Free(n)
    BY <1>1
  <2> HIDE DEF Free
  <2>4. \A u \in Tasks : pc'[u] \notin Out <=> pc[u] \notin Out
    BY <1>0, <1>2 DEF Out
  <2>5. pc[n] \notin Out
    BY <1>1 DEF Out
  <2>6. InSystem \subseteq Tasks /\ InSystem' \subseteq Tasks
    BY DEF InSystem
  <2> QED BY <2>2, <2>3, <2>4, <2>5, <2>6, <2>7
<1>4. uncounted = 0
  BY <1>0 DEF RollInv, uncounted, Pending, CountLabels
<1>5. Cardinality(InSystem') = user_tasks_num' + 1
  BY <1>0, <1>2, <1>3, <1>4, InSystemSize DEF RollInv
<1> QED BY <1>2, <1>5, RollKept DEF Pending

LEMMA RollStores ==
  ASSUME RollInv, LifeInv', NEW t \in Tasks, StaysPut(t), os' # "exited",
         init_count_store(t) \/ exit_count_store(t)
  PROVE  RollInv'
<1>0. /\ curr = t /\ Running(t) /\ pc \in [Tasks -> Labels \cup KernelLabels] /\ user_tasks_num \in Int
      /\ pc[t] \in {"init_count_store", "exit_count_store"} /\ reg[t] = user_tasks_num
  BY DEF RollInv, LifeInv, CallsInv, TypeOK, KernelTypeOK, StaysPut, Running, init_count_store,
         exit_count_store, count_store, At
<1>1. \A u \in Tasks : u # t => pc'[u] = pc[u] /\ target'[u] = target[u]
  BY DEF StaysPut, Same
<1>2. \A u \in Tasks : pc[u] \in InitLabels => target[u] # t
  BY <1>0, RunningInSystem DEF RollInv
<1>3. CASE init_count_store(t)
  <2>1. pc[t] = "init_count_store" /\ pc'[t] = "user" /\ user_tasks_num' = user_tasks_num + 1
    BY <1>0, <1>3 DEF init_count_store, count_store, At, Goto
  <2>2. InSystem' = InSystem
    BY <1>1, <2>1 DEF InSystem, Out, InitLabels
  <2>3. uncounted = 1
    BY <2>1 DEF uncounted, Pending
  <2>4. Cardinality(InSystem') = user_tasks_num'
    BY <1>0, <2>1, <2>2, <2>3 DEF RollInv
  <2> QED BY <1>0, <2>1, <2>4, RollKept DEF Pending, CountLabels
<1>4. CASE exit_count_store(t)
  <2>1. pc[t] = "exit_count_store" /\ pc'[t] = "exit_switch" /\ user_tasks_num' = user_tasks_num - 1
    BY <1>0, <1>4 DEF exit_count_store, count_store, At, Goto
  <2>2. InSystem' = InSystem \ {t} /\ t \in InSystem
    BY <1>1, <1>2, <2>1 DEF InSystem, Out, InitLabels
  <2>3. uncounted = 0
    BY <1>0, <2>1 DEF RollInv, uncounted, Pending, CountLabels
  <2>4. Cardinality(InSystem') = user_tasks_num'
    BY <1>0, <2>1, <2>2, <2>3, InSystemSize DEF RollInv
  <2> QED BY <1>0, <2>1, <2>4, RollKept DEF Pending, CountLabels
<1> QED BY <1>3, <1>4

(* getcontext makes a task that is not in the system yet.                   *)
LEMMA RollCreate ==
  ASSUME RollInv, LifeInv', NEW t \in Tasks, Running(t), os' # "exited", task_init(t)
  PROVE  RollInv'
<1>1. PICK n \in Tasks :
        /\ pc[t] = "user" /\ pc[n] = "unborn"
        /\ pc' = [pc EXCEPT ![t] = "init_id_load", ![n] = "user"]
        /\ target' = [target EXCEPT ![t] = n]
  BY DEF task_init, Calls, At
<1>2. /\ pc'[t] = "init_id_load" /\ pc'[n] = "user" /\ target'[t] = n
      /\ \A u \in Tasks : u \notin {t, n} => pc'[u] = pc[u]
      /\ \A u \in Tasks : u # t => target'[u] = target[u]
      /\ UNCHANGED <<curr, user_tasks_num, reg>>
  <2>1. pc \in [Tasks -> Labels \cup KernelLabels] /\ target \in [Tasks -> Tasks \cup {NULL}]
    BY DEF RollInv, LifeInv, CallsInv, TypeOK, KernelTypeOK
  <2> QED BY <1>1, <2>1 DEF task_init, coreVars
<1>3. \A u \in Tasks : pc'[u] \in CountLabels => pc[u] = pc'[u]
  BY <1>2 DEF CountLabels, Pending
<1>4. \A u \in Tasks : pc[u] \notin CountLabels
  BY <1>1 DEF RollInv, CountLabels, Pending, Running
<1>5. InSystem' = InSystem
  <2>1. \A u \in Tasks : pc[u] \in InitLabels => u \notin {t, n}
    BY <1>1 DEF InitLabels
  <2>2. \A u \in Tasks : pc[u] \in InitLabels => target[u] # t
    BY RunningInSystem DEF RollInv
  <2>3. \A u \in Tasks : u \notin {t, n} =>
          ((\A w \in Tasks : pc'[w] \in InitLabels => target'[w] # u)
             <=> (\A w \in Tasks : pc[w] \in InitLabels => target[w] # u))
    BY <1>2, <2>1 DEF InitLabels
  <2>4. n \notin InSystem /\ n \notin InSystem'
    BY <1>1, <1>2 DEF InSystem, Out, InitLabels
  <2>5. t \in InSystem /\ t \in InSystem'
    BY <1>1, <1>2, <2>1, <2>2 DEF InSystem, Out, InitLabels
  <2>6. \A u \in Tasks : u \notin {t, n} => (u \in InSystem <=> u \in InSystem')
    BY <1>2, <2>3 DEF InSystem
  <2>7. InSystem \subseteq Tasks /\ InSystem' \subseteq Tasks
    BY DEF InSystem
  <2> QED BY <2>4, <2>5, <2>6, <2>7
<1>6. uncounted = 0 /\ uncounted' = 0
  BY <1>3, <1>4 DEF uncounted, CountLabels
<1> QED BY <1>2, <1>3, <1>4, <1>5, <1>6 DEF RollInv, NoEarlyShutdown, CountLabels, Pending

LEMMA RollSystem ==
  ASSUME RollInv, LifeInv', Preemptible \cap CountLabels = {},
         TickSleep \/ DispatchNext \/ UNCHANGED vars
  PROVE  RollInv'
<1>1. UNCHANGED <<pc, target, reg, user_tasks_num>>
  BY DEF TickSleep, Tick, DispatchNext, Dispatch, Shutdown, vars, kernelVars, coreVars, frameVars,
         tasksVars, localVars
<1>2. InSystem' = InSystem /\ uncounted' = uncounted
  BY <1>1 DEF InSystem, uncounted
<1>3. ASSUME NEW t \in Tasks, pc[t] \in CountLabels, curr' # t PROVE FALSE
  <2>1. curr = t /\ t # Dispatcher
    BY <1>3, KernelAssumption DEF RollInv
  <2>2. CASE TickSleep
    BY <1>3, <2>1, <2>2 DEF TickSleep, Tick
  <2>3. CASE DispatchNext \/ UNCHANGED vars
    BY <1>3, <2>1, <2>3 DEF DispatchNext, Dispatch, Shutdown, Running, vars, kernelVars, coreVars
  <2> QED BY <2>2, <2>3
<1>4. NoEarlyShutdown'
  <2>1. CASE Shutdown
    <3>1. curr = Dispatcher /\ user_tasks_num <= 0
      BY <2>1 DEF Shutdown, Running
    <3>2. uncounted = 0
      BY <3>1, KernelAssumption DEF RollInv, uncounted, CountLabels
    <3>3. Cardinality(InSystem) = 0
      <4>1. user_tasks_num \in Int
        BY DEF RollInv, LifeInv, CallsInv, TypeOK, KernelTypeOK
      <4>2. Cardinality(InSystem) \in Nat /\ user_tasks_num + 0 = Cardinality(InSystem)
        BY <3>2, InSystemSize, TasksAssumption DEF RollInv
      <4> QED BY <3>1, <4>1, <4>2
    <3>4. InSystem = {}
      BY <3>3, InSystemSize, TasksAssumption, FS_EmptySet
    <3>5. ASSUME NEW u \in Tasks, pc[u] \in InitLabels PROVE FALSE
      <4>1. PICK w \in Tasks : pc[w] \in InitLabels /\ target[w] = u
        BY <3>4, <3>5 DEF InSystem, Out, InitLabels
      <4>2. pc[u] = "user"
        BY <4>1 DEF RollInv, LifeInv, NewTasks, Newborn
      <4> QED BY <3>5, <4>2 DEF InitLabels
    <3>6. \A u \in Tasks : pc[u] \in Out
      BY <3>4, <3>5 DEF InSystem
    <3> QED BY <1>1, <3>6 DEF NoEarlyShutdown, Out
  <2>2. CASE ~Shutdown
    <3>1. os' = os
      BY <2>2 DEF TickSleep, Tick, DispatchNext, Dispatch, vars, kernelVars, coreVars
    <3> QED BY <1>1, <3>1 DEF RollInv, NoEarlyShutdown
  <2> QED BY <2>1, <2>2
<1> QED BY <1>1, <1>2, <1>3, <1>4 DEF RollInv

LEMMA RollInit == Init => RollInv
<1> SUFFICES ASSUME Init PROVE RollInv
  OBVIOUS
<1>1. /\ pc = [t \in Tasks |-> IF t = Main THEN "user" ELSE "unborn"]
      /\ user_tasks_num = 1 /\ os = "up" /\ Main \in Tasks
  BY TasksAssumption DEF Init
<1>2. InSystem = {Main} /\ uncounted = 0
  BY <1>1 DEF InSystem, uncounted, Out, InitLabels, Pending
<1>3. Cardinality({Main}) = 1
  BY FS_Singleton
<1> QED BY <1>1, <1>2, <1>3, LifeInit DEF RollInv, NoEarlyShutdown, CountLabels, Pending

(* The dispatcher ends the process only when every task that was created    *)
(* has counted itself out, if the two updates of user_tasks_num are not     *)
(* preempted, nor a task_init between its queue_append and its update.      *)
THEOREM NeverEndsEarly ==
  SerialCreation /\ Preemptible \cap CountLabels = {} => (Spec => []NoEarlyShutdown)
<1> SUFFICES ASSUME SerialCreation, Preemptible \cap CountLabels = {} PROVE Spec => []NoEarlyShutdown
  OBVIOUS
<1>1. RollInv /\ Creating /\ [Next]_vars => (RollInv /\ Creating)'
  <2> SUFFICES ASSUME RollInv, Creating, [Next]_vars PROVE (RollInv /\ Creating)'
    OBVIOUS
  <2>1. LifeInv /\ LifeInv'
    BY LifeSystem, LifeStep DEF RollInv, Next
  <2>2. Creating'
    BY <2>1, CreatingKept DEF LifeInv
  <2>3. ASSUME NEW t \in Tasks, Step(t) PROVE RollInv'
    <3>1. Running(t) /\ os' # "exited"
      BY <2>1, <2>3, CallsStep, StepUp DEF LifeInv
    <3>2. CASE task_init(t)
      BY <2>1, <3>1, <3>2, RollCreate
    <3>3. CASE ~task_init(t)
      <4>1. StaysPut(t)
        BY <2>1, <2>3, <3>3, StepStays DEF LifeInv
      <4> QED BY <2>1, <2>3, <3>1, <3>3, <4>1, RollPlainSteps, RollAppend, RollStores
    <3> QED BY <3>2, <3>3
  <2>4. RollInv'
    BY <2>1, <2>3, RollSystem DEF Next
  <2> QED BY <2>2, <2>4
<1>2. RollInv => NoEarlyShutdown
  BY DEF RollInv
<1> QED BY <1>1, <1>2, RollInit, LifeInit, PTL DEF Spec

-----------------------------------------------------------------------------
(* The waits.  Between the test of task_wait and the entry of the waiter    *)
(* into suspended_tasks, and during the walk of task_exit, the task in      *)
(* question is the running one; so a walk sees a queue that stays as it is. *)

(* t has called task_exit, and no task_wait for it begins any more.         *)
Over(t) == pc[t] \in WalkLabels \cup {"dead"} \/ (pc[t] \in Gone /\ curr = t)

(* w has decided to wait, and is not in suspended_tasks yet.                *)
Entering(w) ==
  pc[w] = "wait_set" \/ (pc[w] \in {"suspend_remove", "suspend_append"} /\ back[w] = "wait_return")

Enters(w) ==
  /\ ~Over(target[w])
  /\ pc[w] # "wait_set" => waiting_task[w] = id[target[w]]

InLine(w) ==
  /\ target[w] \in Tasks /\ Waiting(w, target[w])
  /\ pc[w] \in {"suspend_switch", "wait_return"}
  /\ waiting_task[w] = id[target[w]]

NobodyFor(t) == \A w \in Tasks : In("suspended", w) => target[w] # t

line == queues["suspended"]

(* The walk of t has come to position k, and nobody before waits for t.     *)
WalkAt(t, k) == /\ k \in 1..Len(line)
                /\ \A i \in 1..Len(line) : i < k => target[line[i]] # t

(* How far the walk of task_exit has come.                                  *)
Walk(t) ==
  /\ pc[t] = "exit_loop" => IF aux[t] = NULL THEN NobodyFor(t)
                            ELSE \E k \in 1..Len(line) : WalkAt(t, k) /\ line[k] = aux[t]
  /\ pc[t] = "exit_next" =>
       \E k \in 1..Len(line) : WalkAt(t, k) /\ line[k] = aux[t] /\ k < Len(line)
  /\ pc[t] = "exit_check" \/ (pc[t] = "resume_remove" /\ back[t] = "exit_clear") =>
       \E k \in 1..Len(line) : /\ WalkAt(t, k) /\ line[k] = aux[t] /\ k < Len(line)
                               /\ line[k + 1] = next[t]
  /\ pc[t] = "exit_last" \/ (pc[t] = "resume_remove" /\ back[t] = "exit_last_clear") =>
       WalkAt(t, Len(line)) /\ line[Len(line)] = aux[t]
  /\ pc[t] = "exit_clear" \/ (pc[t] = "resume_append" /\ back[t] = "exit_clear") =>
       /\ \E k \in 1..Len(line) : WalkAt(t, k) /\ line[k] = next[t]
       /\ ~In("suspended", aux[t])
  /\ pc[t] = "exit_last_clear" \/ (pc[t] = "resume_append" /\ back[t] = "exit_last_clear") =>
       NobodyFor(t) /\ ~In("suspended", aux[t])
  /\ pc[t] \in {"exit_remove", "dead"} \/ (pc[t] \in Gone /\ curr = t) => NobodyFor(t)

LineInv ==
  /\ LifeInv
  /\ \A t \in Tasks : pc[t] \in AlertLabels => curr = t
  /\ \A w \in Tasks : In("suspended", w) => InLine(w)
  /\ \A t \in Tasks : Over(t) => status[t] = "TERMINATED"
  /\ \A w \in Tasks : Entering(w) => Enters(w)
  /\ \A t \in Tasks : Walk(t)

(* What a step of the running t has to respect.                             *)
LineStep(t) ==
  /\ pc'[t] \in AlertLabels => curr' = t
  /\ \A w \in Tasks : w # t /\ In("suspended", w)' =>
       /\ In("suspended", w) /\ waiting_task'[w] = waiting_task[w]
       /\ id'[target[w]] = id[target[w]]
  /\ In("suspended", t)' => InLine(t)' /\ pc'[target'[t]] # "dead"
  /\ \A u \in Tasks : u # t /\ pc[u] = "dead" => status'[u] = status[u]
  /\ Over(t)' => status'[t] = "TERMINATED"
  /\ Entering(t)' => Enters(t)'
  /\ Walk(t)'

LEMMA LineKept ==
  ASSUME LineInv, LifeInv', NEW t \in Tasks, StaysPut(t), LineStep(t)
  PROVE  LineInv'
<1>0. \A u \in Tasks : u # t => /\ pc'[u] = pc[u] /\ back'[u] = back[u] /\ target'[u] = target[u]
                                /\ curr' # u /\ curr # u /\ pc[u] \notin AlertLabels
  BY KernelAssumption DEF LineInv, StaysPut, Same, Running
<1>1. \A u \in Tasks : u # t => (Over(u)' <=> pc[u] = "dead") /\ (Over(u) <=> pc[u] = "dead")
  BY <1>0 DEF Over, AlertLabels, Gone
<1>2. \A u \in Tasks : pc'[u] \in AlertLabels => curr' = u
  BY <1>0 DEF LineStep
<1>3. ASSUME NEW w \in Tasks, In("suspended", w)' PROVE InLine(w)'
  <2>1. CASE w = t
    BY <1>3, <2>1 DEF LineStep
  <2>2. CASE w # t
    <3>1. InLine(w) /\ waiting_task'[w] = waiting_task[w] /\ id'[target[w]] = id[target[w]]
      BY <1>3, <2>2 DEF LineStep, LineInv
    <3> QED BY <3>1, <2>2, <1>0 DEF InLine, Waiting
  <2> QED BY <2>1, <2>2
<1>4. \A u \in Tasks : Over(u)' => status'[u] = "TERMINATED"
  BY <1>1 DEF LineStep, LineInv
<1>5. \A w \in Tasks : Entering(w)' => Enters(w)'
  BY <1>0 DEF Entering, AlertLabels, LineStep
<1>6. ASSUME NEW u \in Tasks PROVE Walk(u)'
  <2>1. CASE u = t
    BY <2>1 DEF LineStep
  <2>2. CASE u # t /\ pc[u] # "dead"
    BY <2>2, <1>0 DEF Walk, AlertLabels, WalkLabels, ExitLabels, Resuming
  <2>3. CASE u # t /\ pc[u] = "dead"
    <3>1. NobodyFor(u)
      BY <2>3 DEF LineInv, Walk
    <3>2. ASSUME NEW w \in Tasks, In("suspended", w)' PROVE target'[w] # u
      BY <3>1, <3>2, <2>3, <1>0 DEF NobodyFor, LineStep
    <3>3. NobodyFor(u)'
      BY <3>2 DEF NobodyFor
    <3> QED BY <3>3, <2>3, <1>0 DEF Walk
  <2> QED BY <2>1, <2>2, <2>3
<1> QED BY <1>2, <1>3, <1>4, <1>5, <1>6 DEF LineInv

(* The running task is in suspended_tasks only on its way out of the        *)
(* processor.                                                               *)
LEMMA RunningInLine ==
  ASSUME LineInv, NEW t \in Tasks, Running(t), In("suspended", t)
  PROVE  pc[t] = "suspend_switch" /\ back[t] = "wait_return" /\ target[t] \in Tasks /\ pc[target[t]] # "dead"
<1>1. InLine(t)
  BY DEF LineInv
<1>2. ~In("ready", t)
  BY DEF LineInv, LifeInv, CallsInv, QueuesOK, Queues
<1>3. pc[t] # "wait_return"
  BY <1>2 DEF LineInv, LifeInv, CallsInv, RunningIsReady, Leaving, LeavingLabels, In, Running
<1>4. pc[target[t]] # "dead"
  BY <1>1 DEF InLine, LineInv, Walk, NobodyFor
<1> QED BY <1>1, <1>3, <1>4 DEF InLine, Waiting

(* The steps outside the waits and the exits.                               *)
Calm(t) ==
  /\ queues' = queues /\ waiting_task' = waiting_task /\ id' = id
  /\ \A u \in Tasks : u # t => status'[u] = status[u]
  /\ pc[t] \in {"user", "wait_return", "init_id_load", "init_id_store", "init_count_load",
                "init_count_store"}
  /\ \/ pc'[t] \in {"user", "init_id_store", "init_fill", "init_count_store"}
     \/ pc'[t] = "suspend_remove" /\ back'[t] = "user" /\ curr' = curr

LEMMA CalmSteps ==
  ASSUME LineInv, NEW t \in Tasks, Running(t),
         \/ task_yield(t) \/ task_setprio(t) \/ task_sleep(t) \/ wait_return(t)
         \/ init_id_load(t) \/ init_id_store(t) \/ init_count_load(t) \/ init_count_store(t)
  PROVE  Calm(t)
<1>0. TypeOK
  BY DEF LineInv, LifeInv, CallsInv
<1>1. CASE task_yield(t) \/ task_setprio(t)
  BY <1>0, <1>1 DEF Calm, task_yield, task_setprio, switch_to_dispatcher, Calls, At, TypeOK, KernelTypeOK,
     frameVars, tasksVars, descVars
<1>2. CASE task_sleep(t)
  BY <1>0, <1>2 DEF Calm, task_sleep, call_suspend, Calls, At, Goto, TypeOK, KernelTypeOK, descVars
<1>3. CASE \/ wait_return(t) \/ init_id_load(t) \/ init_id_store(t) \/ init_count_load(t)
           \/ init_count_store(t)
  BY <1>0, <1>3 DEF Calm, wait_return, init_id_load, init_id_store, init_count_load, init_count_store,
     count_load, count_store, At, Goto, TypeOK, KernelTypeOK, coreVars, descVars
<1> QED BY <1>1, <1>2, <1>3

LEMMA CalmLine ==
  ASSUME LineInv, LifeInv', NEW t \in Tasks, StaysPut(t), Calm(t)
  PROVE  LineStep(t)
<1>1. \A w : In("suspended", w)' <=> In("suspended", w)
  BY DEF Calm, In
<1>2. ~In("suspended", t)'
  BY <1>1, RunningInLine DEF Calm, StaysPut
<1>3. curr = t
  BY DEF StaysPut, Running
<1>4. ~Entering(t)' /\ ~Over(t)' /\ Walk(t)' /\ (pc'[t] \in AlertLabels => curr' = t)
  BY <1>3 DEF Calm, Entering, Over, Walk, AlertLabels, WalkLabels, ExitLabels, Resuming, Gone
<1> QED BY <1>1, <1>2, <1>4 DEF LineStep, Calm

(* task_init, from the descriptor to the ready queue.                       *)
LEMMA BirthLine ==
  ASSUME LineInv, LifeInv', NEW t \in Tasks, StaysPut(t), init_fill(t) \/ init_append(t)
  PROVE  LineStep(t)
<1> DEFINE n == target[t]
<1>0. /\ TypeOK /\ QueuesOK /\ Running(t) /\ curr = t /\ pc[t] \in {"init_fill", "init_append"}
      /\ n \in Tasks /\ Newborn(n) /\ (pc[t] = "init_fill" => ~Created(n))
      /\ {"ready", "suspended"} \subseteq Queues
  BY DEF LineInv, LifeInv, CallsInv, NewTasks, Frame, InitLabels, init_fill, init_append, At,
         StaysPut, Running, Queues
<1> HIDE DEF n
<1>1. pc'[t] \in {"init_append", "init_count_load"} /\ curr' = curr
  BY <1>0 DEF init_fill, init_append, At, Goto, TypeOK, KernelTypeOK
<1>2. \A w \in Tasks : In("suspended", w)' <=> In("suspended", w)
  <2>1. CASE init_fill(t)
    BY <2>1 DEF init_fill, In
  <2>2. CASE init_append(t)
    BY <2>2, <1>0, AppendMembers DEF init_append, n
  <2> QED BY <2>1, <2>2
<1>3. ~In("suspended", t)'
  BY <1>0, <1>2, RunningInLine
<1>4. ASSUME NEW w \in Tasks, In("suspended", w)
      PROVE  waiting_task'[w] = waiting_task[w] /\ id'[target[w]] = id[target[w]]
  <2>1. Created(target[w]) /\ target[w] \in Tasks /\ w # n
    BY <1>4, <1>0 DEF LineInv, InLine, LifeInv, Waits1, Newborn, Linked, In
  <2>2. CASE init_fill(t)
    BY <2>1, <2>2, <1>0 DEF init_fill, n, TypeOK, At
  <2>3. CASE init_append(t)
    BY <2>3 DEF init_append, descVars
  <2> QED BY <2>2, <2>3
<1>5. \A u \in Tasks : pc[u] = "dead" => status'[u] = status[u]
  <2>1. \A u \in Tasks : u # n => status'[u] = status[u]
    BY <1>0 DEF init_fill, init_append, n, TypeOK
  <2> QED BY <2>1, <1>0 DEF Newborn
<1>6. ~Entering(t)' /\ ~Over(t)' /\ Walk(t)' /\ pc'[t] \notin AlertLabels
  BY <1>1 DEF Entering, Over, Walk, AlertLabels, WalkLabels, ExitLabels, Resuming, Gone
<1> QED BY <1>2, <1>3, <1>4, <1>5, <1>6 DEF LineStep

(* task_wait, up to its entry into suspended_tasks.                         *)
LEMMA WaitLine ==
  ASSUME LineInv, LifeInv', NEW t \in Tasks, StaysPut(t), task_wait(t) \/ wait_set(t)
  PROVE  LineStep(t)
<1>0. /\ TypeOK /\ Running(t) /\ curr = t /\ Frame(t) /\ t # Dispatcher
      /\ pc[t] \in {"user", "wait_set"}
  BY KernelAssumption DEF LineInv, LifeInv, CallsInv, StaysPut, Running, task_wait, wait_set, Calls, At
<1>1. UNCHANGED <<queues, status, id, curr>>
  BY DEF task_wait, wait_set, coreVars, descVars
<1>2. \A w : In("suspended", w)' <=> In("suspended", w)
  BY <1>1 DEF In
<1>3. ~In("suspended", t)'
  BY <1>0, <1>2, RunningInLine
<1>4. \A u \in Tasks : u # t => Over(u)' = Over(u)
  BY <1>0, <1>1 DEF StaysPut, Same, Over
<1>5. CASE task_wait(t)
  <2>1. PICK u \in Tasks : /\ status[u] \notin {"NOT_CREATED", "TERMINATED"}
                           /\ target' = [target EXCEPT ![t] = u]
    BY <1>5 DEF task_wait
  <2>2. pc'[t] = "wait_set" /\ waiting_task' = waiting_task /\ target'[t] = u
    BY <1>0, <1>5, <2>1 DEF task_wait, Goto, TypeOK, KernelTypeOK, descVars
  <2>3. ~Over(t)' /\ ~Over(u)'
    <3>1. ~Over(t)'
      BY <2>2 DEF Over, WalkLabels, ExitLabels, Resuming, Gone
    <3>2. ~Over(u)
      BY <2>1 DEF LineInv
    <3> QED BY <3>1, <3>2, <1>4
  <2>4. Enters(t)' /\ Walk(t)'
    BY <2>2, <2>3 DEF Enters, Walk, Gone
  <2> QED BY <2>2, <2>3, <2>4, <1>0, <1>1, <1>2, <1>3 DEF LineStep
<1>6. CASE wait_set(t)
  <2>1. /\ pc[t] = "wait_set" /\ target[t] \in Tasks /\ target' = target /\ ~Over(target[t])
    BY <1>0, <1>6 DEF wait_set, At, Frame, localVars, LineInv, Entering, Enters
  <2>2. /\ pc'[t] = "suspend_remove"
        /\ waiting_task' = [waiting_task EXCEPT ![t] = id[target[t]]]
    BY <1>0, <1>6 DEF wait_set, call_suspend, Goto, TypeOK, KernelTypeOK
  <2>3. waiting_task'[t] = id'[target'[t]] /\ \A w \in Tasks : w # t => waiting_task'[w] = waiting_task[w]
    BY <2>1, <2>2, <1>0, <1>1 DEF TypeOK
  <2>4. ~Over(target[t])'
    <3>1. ~Over(t)'
      BY <2>2 DEF Over, WalkLabels, ExitLabels, Resuming, Gone
    <3>2. \A u \in Tasks : ~Over(u) => ~Over(u)'
      BY <3>1, <1>4
    <3>3. PICK u \in Tasks : u = target[t]
      BY <2>1
    <3>4. ~Over(u)'
      BY <3>2, <3>3, <2>1
    <3> QED BY <3>3, <3>4, <2>1 DEF Over
  <2>5. Enters(t)' /\ Walk(t)' /\ ~Over(t)'
    BY <2>2, <2>3, <2>4 DEF Enters, Walk, Over, WalkLabels, ExitLabels, Resuming, Gone
  <2> QED BY <2>2, <2>3, <2>5, <1>0, <1>1, <1>2, <1>3 DEF LineStep
<1> QED BY <1>5, <1>6

(* task_suspend, in task_sleep and in task_wait.                            *)
LEMMA SuspendLine ==
  ASSUME LineInv, LifeInv', NEW t \in Tasks, StaysPut(t), UNCHANGED tasksVars,
         suspend_remove(t) \/ suspend_append(t) \/ suspend_switch(t)
  PROVE  LineStep(t)
<1>0. /\ TypeOK /\ QueuesOK /\ Running(t) /\ curr = t /\ pc[t] \in Suspending
      /\ \/ back[t] = "user" /\ arg_queue[t] = "sleeping"
         \/ back[t] = "wait_return" /\ arg_queue[t] = "suspended" /\ target[t] \in Tasks
      /\ {"ready", "suspended", "sleeping"} \subseteq Queues
  BY DEF LineInv, LifeInv, CallsInv, StaysPut, Running, Frame, suspend_remove, suspend_append,
     suspend_switch, Suspending, Queues
<1>1. /\ UNCHANGED <<id, waiting_task, target>>
      /\ \A u \in Tasks : u # t => pc'[u] = pc[u] /\ status'[u] = status[u]
  BY <1>0 DEF tasksVars, descVars, localVars, StaysPut, Same, suspend_remove, suspend_append,
     suspend_switch, switch_to_dispatcher, TypeOK
<1>2. CASE suspend_remove(t)
  <2>1. pc[t] = "suspend_remove" /\ pc'[t] = "suspend_append" /\ back'[t] = back[t] /\ curr' = curr
    BY <1>0, <1>2 DEF suspend_remove, Goto, argVars, TypeOK, KernelTypeOK
  <2>2. \A w \in Tasks : In("suspended", w)' <=> In("suspended", w)
    BY <1>0, <1>2, RemoveMembers DEF suspend_remove
  <2>3. ~In("suspended", t)'
    BY <1>0, <2>1, <2>2, RunningInLine
  <2>4. ~Over(t)' /\ Walk(t)'
    BY <2>1 DEF Over, Walk, WalkLabels, ExitLabels, Resuming, Gone
  <2>5. Entering(t)' => Enters(t)'
    <3> SUFFICES ASSUME back[t] = "wait_return" PROVE Enters(t)'
      BY <2>1 DEF Entering
    <3>1. ~Over(target[t]) /\ waiting_task[t] = id[target[t]] /\ target[t] \in Tasks
      BY <1>0, <2>1 DEF LineInv, Entering, Enters
    <3>2. ~Over(target[t])'
      BY <3>1, <2>1, <2>4, <1>1 DEF Over
    <3> QED BY <3>1, <3>2, <1>1 DEF Enters
  <2> QED BY <1>0, <1>1, <2>1, <2>2, <2>3, <2>4, <2>5 DEF LineStep
<1>3. CASE suspend_append(t)
  <2>1. pc[t] = "suspend_append" /\ pc'[t] = "suspend_switch" /\ back'[t] = back[t] /\ curr' = curr
    BY <1>0, <1>3 DEF suspend_append, Goto, argVars, TypeOK, KernelTypeOK
  <2>2. \A w \in Tasks : In("suspended", w)' =>
          In("suspended", w) \/ (w = t /\ arg_queue[t] = "suspended")
    BY <1>0, <1>3, AppendMembers DEF suspend_append
  <2>3. In("suspended", t)' => InLine(t)' /\ pc'[target'[t]] # "dead"
    <3> SUFFICES ASSUME In("suspended", t)' PROVE InLine(t)' /\ pc'[target'[t]] # "dead"
      OBVIOUS
    <3>1. back[t] = "wait_return" /\ target[t] \in Tasks
      BY <1>0, <2>1, <2>2, RunningInLine
    <3>2. ~Over(target[t]) /\ waiting_task[t] = id[target[t]]
      BY <3>1, <2>1 DEF LineInv, Entering, Enters
    <3>3. pc'[target[t]] # "dead"
      BY <3>1, <3>2, <2>1, <1>1 DEF Over
    <3> QED BY <3>1, <3>2, <3>3, <2>1, <1>1 DEF InLine, Waiting, Suspending
  <2>4. ~Over(t)' /\ Walk(t)' /\ ~Entering(t)' /\ pc'[t] \notin AlertLabels
    BY <2>1 DEF Over, Walk, Entering, AlertLabels, WalkLabels, ExitLabels, Resuming, Gone
  <2> QED BY <1>1, <2>2, <2>3, <2>4 DEF LineStep
<1>4. CASE suspend_switch(t)
  <2>1. /\ pc[t] = "suspend_switch" /\ pc'[t] = back[t] /\ queues' = queues
    BY <1>0, <1>4 DEF suspend_switch, switch_to_dispatcher, Goto, TypeOK, KernelTypeOK
  <2>2. \A w : In("suspended", w)' <=> In("suspended", w)
    BY <2>1 DEF In
  <2>3. In("suspended", t)' => InLine(t)' /\ pc'[target'[t]] # "dead"
    <3> SUFFICES ASSUME In("suspended", t) PROVE InLine(t)' /\ pc'[target'[t]] # "dead"
      BY <2>2
    <3>1. back[t] = "wait_return" /\ target[t] \in Tasks /\ pc[target[t]] # "dead" /\ InLine(t)
      BY <1>0, RunningInLine DEF LineInv
    <3>2. pc'[t] = "wait_return" /\ pc'[target[t]] # "dead"
      BY <3>1, <2>1, <1>1
    <3> QED BY <3>1, <3>2, <1>1 DEF InLine, Waiting
  <2>4. ~Over(t)' /\ Walk(t)' /\ ~Entering(t)' /\ pc'[t] \notin AlertLabels
    BY <1>0, <2>1 DEF Over, Walk, Entering, AlertLabels, WalkLabels, ExitLabels, Resuming, Gone
  <2> QED BY <1>1, <2>2, <2>3, <2>4 DEF LineStep
<1> QED BY <1>2, <1>3, <1>4

(* The positions of line.                                                   *)
LEMMA Positions ==
  ASSUME LineInv
  PROVE  /\ line \in Seq(Tasks) /\ Len(line) \in Nat
         /\ \A i \in 1..Len(line) : line[i] \in Tasks /\ In("suspended", line[i])
         /\ \A w \in Tasks : In("suspended", w) => \E i \in 1..Len(line) : line[i] = w
         /\ \A i, j \in 1..Len(line) : line[i] = line[j] => i = j
         /\ line # << >> => Len(line) \in Nat \ {0} /\ Head(line) = line[1]
         /\ Last(line) = line[Len(line)]
<1>1. QueuesOK /\ "suspended" \in Queues
  BY DEF LineInv, LifeInv, CallsInv, Queues
<1>2. line \in Seq(Tasks) /\ Injective(line)
  BY <1>1 DEF line, QueuesOK
<1>3. Len(line) \in Nat /\ \A i \in 1..Len(line) : line[i] \in Tasks
  BY <1>2, LenProperties, ElementOfSeq
<1>4. /\ \A i \in 1..Len(line) : In("suspended", line[i])
      /\ \A w \in Tasks : In("suspended", w) => \E i \in 1..Len(line) : line[i] = w
  BY DEF In, Contains, line
<1>5. line # << >> => Len(line) \in Nat \ {0} /\ Head(line) = line[1]
  BY <1>2, EmptySeq
<1>6. \A i, j \in 1..Len(line) : line[i] = line[j] => i = j
  BY <1>2 DEF Injective
<1> QED BY <1>2, <1>3, <1>4, <1>5, <1>6 DEF Last

(* aux->next of a task that is in line, before the last one.                *)
LEMMA NextInLine ==
  ASSUME LineInv, NEW k \in 1..Len(line), k < Len(line)
  PROVE  successor(line[k]) = line[k + 1]
<1>0. /\ Len(line) \in Nat /\ line[k] \in Tasks /\ In("suspended", line[k])
      /\ \A i, j \in 1..Len(line) : line[i] = line[j] => i = j
      /\ "suspended" \in Queues /\ QueuesOK
  BY Positions DEF LineInv, LifeInv, CallsInv, Queues
<1> DEFINE u == line[k]
           q == CHOOSE q \in Queues : Contains(queues[q], u)
           i == CHOOSE i \in 1..Len(queues[q]) : queues[q][i] = u
<1>1. Linked(u) /\ q = "suspended"
  <2>1. q \in Queues /\ Contains(queues[q], u)
    BY <1>0 DEF In
  <2>2. In(q, u)
    BY <2>1 DEF In
  <2> HIDE DEF u, q
  <2> QED BY <2>1, <2>2, <1>0 DEF Linked, In, QueuesOK, u
<1>2. i = k
  <2> HIDE DEF u, q
  <2>1. queues[q] = line
    BY <1>1 DEF line
  <2>2. \E j \in 1..Len(line) : line[j] = u
    BY DEF u
  <2>3. i \in 1..Len(line) /\ line[i] = u
    BY <2>1, <2>2
  <2> QED BY <2>3, <1>0 DEF u
<1>3. successor(u) = line[(k % Len(line)) + 1]
  <2>1. successor(u) = queues[q][(i % Len(queues[q])) + 1]
    BY <1>1 DEF successor
  <2> HIDE DEF u, q, i
  <2> QED BY <2>1, <1>1, <1>2 DEF line
<1>4. k % Len(line) = k
  <2>1. \A n \in Nat \ {0} : k \in 1..n /\ k < n => k % n = k
    OBVIOUS
  <2> QED BY <2>1, <1>0
<1> QED BY <1>3, <1>4

(* The comparison of the ids finds those in line for t.                     *)
LEMMA AwaitsTarget ==
  ASSUME LineInv, NEW t \in Tasks, Running(t), NEW w \in Tasks, In("suspended", w)
  PROVE  awaits(w, t) <=> target[w] = t
<1>1. InLine(w) /\ Created(t)
  BY RunningCreated DEF LineInv
<1>2. Created(target[w])
  BY <1>1 DEF InLine, LineInv, LifeInv, Waits1
<1> QED BY <1>1, <1>2 DEF InLine, awaits, LineInv, LifeInv, Ids, UniqueIds, Created

(* The steps of task_exit that leave the queues alone.                      *)
LEMMA ExitLine ==
  ASSUME LineInv, LifeInv', NEW t \in Tasks, StaysPut(t), queues' = queues, curr' = curr, id' = id,
         \A u \in Tasks : u # t => status'[u] = status[u],
         \A w \in Tasks : In("suspended", w) => waiting_task'[w] = waiting_task[w],
         pc'[t] \in WalkLabels \cup (Gone \ {"dead"}), status'[t] = "TERMINATED",
         pc[t] \notin Suspending, Walk(t)'
  PROVE  LineStep(t)
<1>1. \A w : In("suspended", w)' <=> In("suspended", w)
  BY DEF In
<1>2. ~In("suspended", t)'
  BY <1>1, RunningInLine DEF StaysPut, Suspending
<1>3. curr' = t
  BY DEF StaysPut, Running
<1>4. ~Entering(t)'
  BY DEF Entering, WalkLabels, ExitLabels, Resuming, Gone
<1> QED BY <1>1, <1>2, <1>3, <1>4 DEF LineStep

LEMMA WalkSteps ==
  ASSUME LineInv, LifeInv', NEW t \in Tasks, StaysPut(t),
         \/ task_exit(t) \/ set_exit_code(t) \/ exit_head(t) \/ exit_loop(t) \/ exit_next(t)
         \/ exit_check(t) \/ exit_clear(t)
         \/ exit_last(t) \/ exit_last_clear(t) \/ exit_count_load(t) \/ exit_count_store(t)
  PROVE  LineStep(t)
<1>0. /\ TypeOK /\ Running(t) /\ curr = t /\ Frame(t) /\ Walk(t)
      /\ Over(t) => status[t] = "TERMINATED"
      /\ NULL \notin Tasks
  BY KernelAssumption DEF LineInv, LifeInv, CallsInv, StaysPut, Running
<1>p. /\ Len(line) \in Nat
      /\ \A i \in 1..Len(line) : line[i] \in Tasks /\ In("suspended", line[i])
      /\ \A w \in Tasks : In("suspended", w) => \E i \in 1..Len(line) : line[i] = w
      /\ line # << >> => Len(line) \in Nat \ {0} /\ Head(line) = line[1]
      /\ Last(line) = line[Len(line)]
  BY Positions
<1>1. CASE task_exit(t)
  <2>1. /\ UNCHANGED <<queues, curr, id, waiting_task>> /\ pc[t] = "user" /\ pc'[t] = "exit_code"
        /\ status' = [status EXCEPT ![t] = "TERMINATED"]
    BY <1>0, <1>1 DEF task_exit, Calls, At, Goto, TypeOK, KernelTypeOK, tasksVars, descVars
  <2>2. Walk(t)'
    BY <2>1 DEF Walk, Gone
  <2>3. status'[t] = "TERMINATED" /\ \A u \in Tasks : u # t => status'[u] = status[u]
    BY <2>1, <1>0 DEF TypeOK
  <2> QED BY <2>1, <2>2, <2>3, ExitLine DEF WalkLabels, ExitLabels, Suspending
<1>2. CASE exit_head(t)
  <2>1. /\ UNCHANGED <<queues, curr, id, waiting_task, status, target>>
        /\ pc[t] = "exit_head" /\ pc'[t] = "exit_loop"
        /\ aux'[t] = IF line = << >> THEN NULL ELSE Head(line)
    BY <1>0, <1>2 DEF exit_head, At, Goto, TypeOK, KernelTypeOK, coreVars, descVars, line
  <2>2. CASE line = << >>
    <3>1. Len(line) = 0
      BY <2>2
    <3>2. NobodyFor(t)'
      BY <3>1, <1>p, <2>1 DEF NobodyFor, In
    <3>3. Walk(t)'
      BY <3>2, <2>1, <2>2 DEF Walk, Gone
    <3> QED BY <3>3, <2>1, <1>0, ExitLine DEF Over, WalkLabels, ExitLabels, Suspending
  <2>3. CASE line # << >>
    <3>1. 1 \in 1..Len(line) /\ aux'[t] = line[1] /\ aux'[t] # NULL /\ line' = line
      BY <2>1, <2>3, <1>p, <1>0 DEF line
    <3>2. WalkAt(t, 1)'
      BY <3>1, <2>1, <1>p DEF WalkAt
    <3>3. Walk(t)'
      BY <3>1, <3>2, <2>1 DEF Walk, Gone
    <3> QED BY <3>3, <2>1, <1>0, ExitLine DEF Over, WalkLabels, ExitLabels, Suspending
  <2> QED BY <2>2, <2>3
<1>3. CASE exit_loop(t)
  <2>1. /\ UNCHANGED <<queues, curr, id, waiting_task, status, target, aux>> /\ line' = line
        /\ pc[t] = "exit_loop"
    BY <1>3 DEF exit_loop, At, descVars, localVars, line
  <2>2. \A k : WalkAt(t, k)' <=> WalkAt(t, k)
    BY <2>1 DEF WalkAt
  <2>3. CASE aux[t] = NULL
    <3>1. pc'[t] = "exit_remove" /\ (NobodyFor(t)' <=> NobodyFor(t))
      BY <1>0, <1>3, <2>1, <2>3 DEF exit_loop, Goto, TypeOK, KernelTypeOK, NobodyFor, In
    <3>2. Walk(t)'
      BY <3>1, <1>0, <2>1, <2>3 DEF Walk, Gone
    <3> QED BY <3>1, <3>2, <2>1, <1>0, ExitLine DEF Over, WalkLabels, ExitLabels, Suspending
  <2>4. CASE aux[t] # NULL
    <3>1. PICK k \in 1..Len(line) : WalkAt(t, k) /\ line[k] = aux[t]
      BY <1>0, <2>1, <2>4 DEF Walk
    <3>2. line # << >>
      BY <3>1
    <3>3. pc'[t] = IF aux[t] = line[Len(line)] THEN "exit_last" ELSE "exit_next"
      BY <1>0, <1>3, <1>p, <2>4, <3>2 DEF exit_loop, Goto, TypeOK, KernelTypeOK, line
    <3>4. CASE aux[t] = line[Len(line)]
      <4>1. k = Len(line)
        <5>1. Len(line) \in 1..Len(line)
          BY <3>1, <1>p
        <5> QED BY <5>1, <3>1, <3>4, Positions
      <4>2. Walk(t)'
        BY <4>1, <3>1, <3>3, <3>4, <2>1, <2>2 DEF Walk, Gone
      <4> QED BY <4>2, <3>3, <3>4, <2>1, <1>0, ExitLine DEF Over, WalkLabels, ExitLabels, Suspending
    <3>5. CASE aux[t] # line[Len(line)]
      <4>1. k < Len(line)
        BY <3>1, <3>5, <1>p
      <4>2. Walk(t)'
        BY <4>1, <3>1, <3>3, <3>5, <2>1, <2>2 DEF Walk, Gone
      <4> QED BY <4>2, <3>3, <3>5, <2>1, <1>0, ExitLine DEF Over, WalkLabels, ExitLabels, Suspending
    <3> QED BY <3>4, <3>5
  <2> QED BY <2>3, <2>4
<1>4. CASE exit_check(t)
  <2>1. /\ UNCHANGED <<queues, curr, id, waiting_task, status, target>> /\ line' = line
        /\ pc[t] = "exit_check"
    BY <1>4 DEF exit_check, At, descVars, localVars, line
  <2>2. PICK k \in 1..Len(line) :
          WalkAt(t, k) /\ line[k] = aux[t] /\ k < Len(line) /\ line[k + 1] = next[t]
    BY <1>0, <2>1 DEF Walk
  <2>3. /\ k + 1 \in 1..Len(line) /\ line[k + 1] \in Tasks /\ In("suspended", aux[t]) /\ aux[t] \in Tasks
        /\ awaits(aux[t], t) <=> target[aux[t]] = t
    BY <1>0, <1>p, <2>2, AwaitsTarget
  <2>4. \A j : WalkAt(t, j)' <=> WalkAt(t, j)
    BY <2>1 DEF WalkAt
  <2>5. CASE awaits(aux[t], t)
    <3>1. /\ pc'[t] = "resume_remove" /\ back'[t] = "exit_clear" /\ aux' = aux
          /\ next'[t] = line[k + 1]
      BY <1>0, <1>4, <2>2, <2>3, <2>5 DEF exit_check, call_resume, Goto, TypeOK, KernelTypeOK
    <3>2. Walk(t)'
      BY <3>1, <2>1, <2>2, <2>4 DEF Walk, Gone
    <3> QED BY <3>1, <3>2, <2>1, <1>0, ExitLine DEF Over, WalkLabels, ExitLabels, Resuming, Suspending
  <2>6. CASE ~awaits(aux[t], t)
    <3>1. pc'[t] = "exit_loop" /\ aux'[t] = line[k + 1] /\ aux'[t] # NULL
      BY <1>0, <1>4, <2>2, <2>3, <2>6 DEF exit_check, Goto, TypeOK, KernelTypeOK
    <3>2. WalkAt(t, k + 1)
      BY <1>p, <2>2, <2>3, <2>6 DEF WalkAt
    <3>3. Walk(t)'
      BY <3>1, <3>2, <2>1, <2>3, <2>4 DEF Walk, Gone
    <3> QED BY <3>1, <3>3, <2>1, <1>0, ExitLine DEF Over, WalkLabels, ExitLabels, Suspending
  <2> QED BY <2>5, <2>6
<1>5. CASE exit_last(t)
  <2>1. /\ UNCHANGED <<queues, curr, id, waiting_task, status, target, aux>> /\ line' = line
        /\ pc[t] = "exit_last"
    BY <1>5 DEF exit_last, At, tasksVars, descVars, localVars, line
  <2>2. WalkAt(t, Len(line)) /\ line[Len(line)] = aux[t]
    BY <1>0, <2>1 DEF Walk
  <2>3. /\ In("suspended", aux[t]) /\ aux[t] \in Tasks
        /\ awaits(aux[t], t) <=> target[aux[t]] = t
    <3>1. Len(line) \in 1..Len(line)
      BY <2>2 DEF WalkAt
    <3>2. In("suspended", aux[t]) /\ aux[t] \in Tasks
      BY <3>1, <2>2, <1>p
    <3> QED BY <1>0, <3>2, AwaitsTarget
  <2>4. \A j : WalkAt(t, j)' <=> WalkAt(t, j)
    BY <2>1 DEF WalkAt
  <2>5. CASE awaits(aux[t], t)
    <3>1. pc'[t] = "resume_remove" /\ back'[t] = "exit_last_clear"
      BY <1>0, <1>5, <2>3, <2>5 DEF exit_last, call_resume, Goto, TypeOK, KernelTypeOK
    <3>2. Walk(t)'
      BY <3>1, <2>1, <2>2, <2>4 DEF Walk, Gone
    <3> QED BY <3>1, <3>2, <2>1, <1>0, ExitLine DEF Over, WalkLabels, ExitLabels, Resuming, Suspending
  <2>6. CASE ~awaits(aux[t], t)
    <3>1. pc'[t] = "exit_remove"
      BY <1>0, <1>5, <2>6 DEF exit_last, Goto, TypeOK, KernelTypeOK
    <3>2. NobodyFor(t)
      <4> SUFFICES ASSUME NEW w \in Tasks, In("suspended", w) PROVE target[w] # t
        BY DEF NobodyFor
      <4>1. PICK i \in 1..Len(line) : line[i] = w
        BY <1>p
      <4>2. CASE i < Len(line)
        BY <4>1, <4>2, <2>2 DEF WalkAt
      <4>3. CASE i = Len(line)
        BY <4>1, <4>3, <2>2, <2>3, <2>6
      <4> QED BY <4>2, <4>3, <1>p
    <3>3. NobodyFor(t)'
      BY <3>2, <2>1 DEF NobodyFor, In
    <3>4. Walk(t)'
      BY <3>1, <3>3 DEF Walk, Gone
    <3> QED BY <3>1, <3>4, <2>1, <1>0, ExitLine DEF Over, WalkLabels, ExitLabels, Suspending
  <2> QED BY <2>5, <2>6
<1>6. CASE exit_clear(t)
  <2>1. /\ UNCHANGED <<queues, curr, id, status, target>> /\ line' = line
        /\ pc[t] = "exit_clear" /\ pc'[t] = "exit_loop" /\ aux'[t] = next[t]
        /\ waiting_task' = [waiting_task EXCEPT ![aux[t]] = -1]
    BY <1>0, <1>6 DEF exit_clear, At, Goto, TypeOK, KernelTypeOK, coreVars, line
  <2>2. PICK k \in 1..Len(line) : WalkAt(t, k) /\ line[k] = next[t]
    BY <1>0, <2>1 DEF Walk
  <2>3. \A w \in Tasks : In("suspended", w) => waiting_task'[w] = waiting_task[w]
    BY <1>0, <2>1 DEF Walk, TypeOK
  <2>4. WalkAt(t, k)' /\ aux'[t] # NULL
    BY <1>0, <1>p, <2>1, <2>2 DEF WalkAt
  <2>5. Walk(t)'
    BY <2>1, <2>2, <2>4 DEF Walk, Gone
  <2> QED BY <2>1, <2>3, <2>5, <1>0, ExitLine DEF Over, WalkLabels, ExitLabels, Suspending
<1>7. CASE exit_last_clear(t)
  <2>1. /\ UNCHANGED <<queues, curr, id, status, target>>
        /\ pc[t] = "exit_last_clear" /\ pc'[t] = "exit_remove"
        /\ waiting_task' = [waiting_task EXCEPT ![aux[t]] = -1]
    BY <1>0, <1>7 DEF exit_last_clear, At, Goto, TypeOK, KernelTypeOK, coreVars, localVars
  <2>2. NobodyFor(t)' /\ \A w \in Tasks : In("suspended", w) => waiting_task'[w] = waiting_task[w]
    BY <1>0, <2>1 DEF Walk, TypeOK, NobodyFor, In
  <2>3. Walk(t)'
    BY <2>1, <2>2 DEF Walk, Gone
  <2> QED BY <2>1, <2>2, <2>3, <1>0, ExitLine DEF Over, WalkLabels, ExitLabels, Suspending
<1>8. CASE exit_count_load(t) \/ exit_count_store(t)
  <2>1. /\ UNCHANGED <<queues, curr, id, waiting_task, status, target>>
        /\ pc[t] \in {"exit_count_load", "exit_count_store"}
        /\ pc'[t] \in {"exit_count_store", "exit_switch"}
    BY <1>0, <1>8 DEF exit_count_load, exit_count_store, count_load, count_store, At, Goto, TypeOK,
       KernelTypeOK, coreVars, descVars
  <2>2. NobodyFor(t)'
    BY <1>0, <2>1 DEF Walk, Gone, NobodyFor, In
  <2>3. Walk(t)'
    BY <2>1, <2>2 DEF Walk, Gone
  <2>4. status[t] = "TERMINATED"
    BY <1>0, <2>1 DEF Over, Gone
  <2> QED BY <2>1, <2>3, <2>4, <1>0, ExitLine DEF WalkLabels, Gone, Suspending
<1>9. CASE set_exit_code(t)
  <2>1. /\ UNCHANGED <<queues, curr, id, waiting_task, status>>
        /\ pc[t] = "exit_code" /\ pc'[t] = "exit_head"
    BY <1>0, <1>9 DEF set_exit_code, At, Goto, TypeOK, KernelTypeOK, coreVars
  <2>2. Walk(t)'
    BY <2>1 DEF Walk, Gone
  <2> QED BY <2>1, <2>2, <1>0, ExitLine DEF Over, WalkLabels, ExitLabels, Suspending
<1>10. CASE exit_next(t)
  <2>1. /\ UNCHANGED <<queues, curr, id, waiting_task, status, target, aux>> /\ line' = line
        /\ pc[t] = "exit_next" /\ pc'[t] = "exit_check" /\ next'[t] = successor(aux[t])
    BY <1>0, <1>10 DEF exit_next, At, Goto, TypeOK, KernelTypeOK, coreVars, descVars, line
  <2>2. PICK k \in 1..Len(line) : WalkAt(t, k) /\ line[k] = aux[t] /\ k < Len(line)
    BY <1>0, <2>1 DEF Walk
  <2>3. next'[t] = line[k + 1]
    BY <2>1, <2>2, NextInLine
  <2>4. WalkAt(t, k)'
    BY <2>1, <2>2 DEF WalkAt
  <2>5. Walk(t)'
    BY <2>1, <2>2, <2>3, <2>4 DEF Walk, Gone
  <2> QED BY <2>1, <2>5, <1>0, ExitLine DEF Over, WalkLabels, ExitLabels, Suspending
<1> QED BY <1>1, <1>2, <1>3, <1>4, <1>5, <1>6, <1>7, <1>8, <1>9, <1>10

(* The waiter leaves suspended_tasks, and becomes ready.                    *)
LEMMA ResumeLine ==
  ASSUME LineInv, LifeInv', NEW t \in Tasks, StaysPut(t), UNCHANGED tasksVars,
         resume_remove(t) \/ resume_append(t)
  PROVE  LineStep(t)
<1>0. /\ TypeOK /\ QueuesOK /\ Running(t) /\ curr = t /\ pc[t] \in Resuming /\ Frame(t) /\ Walk(t)
      /\ back[t] \in {"exit_clear", "exit_last_clear"} /\ arg_queue[t] = "suspended"
      /\ arg_task[t] = aux[t] /\ aux[t] \in Tasks /\ Blocked(aux[t], t)
      /\ status[t] = "TERMINATED" /\ {"ready", "suspended"} \subseteq Queues
  BY DEF LineInv, LifeInv, CallsInv, StaysPut, Running, resume_remove, resume_append, Resuming, Frame,
         Over, WalkLabels, Waits1, Queues
<1>p. /\ line \in Seq(Tasks) /\ Len(line) \in Nat
      /\ \A w \in Tasks : In("suspended", w) => \E i \in 1..Len(line) : line[i] = w
      /\ \A i, j \in 1..Len(line) : line[i] = line[j] => i = j
  BY Positions
<1>1. /\ UNCHANGED <<id, waiting_task, target, aux, next, curr>>
      /\ aux[t] # t /\ pc[aux[t]] # "dead"
  BY <1>0 DEF tasksVars, descVars, localVars, resume_remove, resume_append, Blocked, Waiting, Suspending,
              Resuming
<1>2. ~In("suspended", t)
  BY <1>0, RunningInLine DEF Resuming
<1>3. CASE resume_remove(t)
  <2>1. /\ pc[t] = "resume_remove" /\ pc'[t] = "resume_append" /\ back'[t] = back[t] /\ status' = status
        /\ queues' = [queues EXCEPT !["suspended"] = Without(line, aux[t])]
    BY <1>0, <1>3 DEF resume_remove, Goto, argVars, TypeOK, KernelTypeOK, queue_remove, line
  <2>2. \A w \in Tasks : In("suspended", w)' <=> In("suspended", w) /\ w # aux[t]
    BY <1>0, <1>3, RemoveMembers DEF resume_remove
  <2>3. /\ pc'[t] \notin {"dead", "wait_set", "suspend_remove", "suspend_append"}
        /\ status'[t] = "TERMINATED" /\ ~In("suspended", t)'
    BY <1>0, <1>2, <2>1, <2>2
  <2>4. Walk(t)'
    <3>1. CASE back[t] = "exit_clear"
      <4>1. PICK k \in 1..Len(line) : /\ WalkAt(t, k) /\ line[k] = aux[t] /\ k < Len(line)
                                      /\ line[k + 1] = next[t]
        BY <1>0, <2>1, <3>1 DEF Walk
      <4>2. Without(line, aux[t]) = RemoveAt(line, k)
        <5>1. Contains(line, aux[t])
          BY <4>1 DEF Contains
        <5>2. (CHOOSE i \in 1..Len(line) : line[i] = aux[t]) = k
          BY <1>p, <4>1
        <5> QED BY <5>1, <5>2 DEF Without
      <4>3. /\ Len(line') = Len(line) - 1
            /\ \A i \in 1..Len(line)-1 : line'[i] = IF i < k THEN line[i] ELSE line[i + 1]
        <5>1. line' = RemoveAt(line, k)
          BY <2>1, <4>2, <1>0 DEF line, QueuesOK
        <5> QED BY <5>1, <1>p, RemoveAtProperties
      <4>4. k \in 1..Len(line') /\ line'[k] = next'[t]
        BY <4>1, <4>3, <1>p, <1>1
      <4>5. WalkAt(t, k)'
        <5>1. ASSUME NEW i \in 1..Len(line'), i < k PROVE target'[line'[i]] # t
          BY <5>1, <4>1, <4>3, <1>p, <1>1 DEF WalkAt
        <5> QED BY <4>4, <5>1 DEF WalkAt
      <4>6. ~In("suspended", aux[t])'
        BY <2>2, <1>0, <1>1
      <4> QED BY <4>4, <4>5, <4>6, <2>1, <3>1, <1>1 DEF Walk, Gone
    <3>2. CASE back[t] = "exit_last_clear"
      <4>1. WalkAt(t, Len(line)) /\ line[Len(line)] = aux[t]
        BY <1>0, <2>1, <3>2 DEF Walk
      <4>2. ASSUME NEW w \in Tasks, In("suspended", w)' PROVE target'[w] # t
        <5>1. PICK i \in 1..Len(line) : line[i] = w
          BY <4>2, <2>2, <1>p
        <5>2. i # Len(line)
          BY <5>1, <4>1, <4>2, <2>2
        <5> QED BY <5>1, <5>2, <4>1, <1>p, <1>1 DEF WalkAt
      <4>3. NobodyFor(t)' /\ ~In("suspended", aux[t])'
        BY <4>2, <2>2, <1>0, <1>1 DEF NobodyFor
      <4> QED BY <4>3, <2>1, <3>2, <1>1 DEF Walk, Gone
    <3> QED BY <1>0, <3>1, <3>2
  <2>5. ~Entering(t)'
    BY <2>3 DEF Entering
  <2> QED BY <1>0, <1>1, <2>1, <2>2, <2>3, <2>4, <2>5 DEF LineStep
<1>4. CASE resume_append(t)
  <2>1. /\ pc[t] = "resume_append" /\ pc'[t] = back[t]
        /\ status' = [status EXCEPT ![aux[t]] = "READY"]
        /\ queues' = queues \/ queues' = [queues EXCEPT !["ready"] = Append(@, aux[t])]
    BY <1>0, <1>4 DEF resume_append, Goto, TypeOK, KernelTypeOK, queue_append
  <2>2. line' = line
    BY <1>0, <2>1 DEF line, QueuesOK
  <2>3. \A w : In("suspended", w)' <=> In("suspended", w)
    BY <2>2 DEF In, line
  <2>4. status'[t] = "TERMINATED" /\ \A u \in Tasks : pc[u] = "dead" => status'[u] = status[u]
    BY <1>0, <1>1, <2>1 DEF TypeOK
  <2>5. /\ \A k : WalkAt(t, k)' <=> WalkAt(t, k)
        /\ NobodyFor(t)' <=> NobodyFor(t)
    BY <1>1, <2>2, <2>3 DEF WalkAt, NobodyFor
  <2>6. Walk(t)'
    <3>1. CASE back[t] = "exit_clear"
      <4>1. PICK k \in 1..Len(line) : WalkAt(t, k) /\ line[k] = next[t] /\ ~In("suspended", aux[t])
        BY <1>0, <2>1, <3>1 DEF Walk
      <4>2. k \in 1..Len(line') /\ WalkAt(t, k)' /\ line'[k] = next'[t] /\ ~In("suspended", aux[t])'
        BY <4>1, <2>2, <2>3, <2>5, <1>1
      <4> QED BY <4>2, <2>1, <3>1, <1>1 DEF Walk, Gone
    <3>2. CASE back[t] = "exit_last_clear"
      <4>1. NobodyFor(t) /\ ~In("suspended", aux[t])
        BY <1>0, <2>1, <3>2 DEF Walk
      <4> QED BY <4>1, <2>1, <2>3, <2>5, <3>2, <1>1 DEF Walk, Gone
    <3> QED BY <1>0, <3>1, <3>2
  <2>7. ~Entering(t)' /\ ~In("suspended", t)'
    BY <1>0, <1>2, <2>1, <2>3 DEF Entering
  <2> QED BY <1>0, <1>1, <2>3, <2>4, <2>6, <2>7 DEF LineStep
<1> QED BY <1>3, <1>4

(* The walk is over, and the task leaves.                                   *)
LEMMA LeaveLine ==
  ASSUME LineInv, LifeInv', NEW t \in Tasks, StaysPut(t), exit_remove(t) \/ exit_switch(t)
  PROVE  LineStep(t)
<1>0. /\ TypeOK /\ QueuesOK /\ Running(t) /\ curr = t /\ pc[t] \in {"exit_remove", "exit_switch"}
      /\ Walk(t) /\ Over(t) /\ status[t] = "TERMINATED" /\ {"ready", "suspended"} \subseteq Queues
  BY DEF LineInv, LifeInv, CallsInv, StaysPut, Running, exit_remove, exit_switch, At, Over, WalkLabels,
         ExitLabels, Gone, Queues
<1>1. /\ UNCHANGED <<status, id, waiting_task, target>>
      /\ pc'[t] \in {"exit_count_load", "dead"}
  BY <1>0 DEF exit_remove, exit_switch, At, Goto, TypeOK, KernelTypeOK, descVars, localVars, tasksVars
<1>2. \A w \in Tasks : In("suspended", w)' <=> In("suspended", w)
  <2>1. CASE exit_remove(t)
    BY <1>0, <2>1, RemoveMembers DEF exit_remove
  <2>2. CASE exit_switch(t)
    BY <2>2 DEF exit_switch, In
  <2> QED BY <2>1, <2>2
<1>3. NobodyFor(t)'
  BY <1>0, <1>1, <1>2 DEF Walk, Gone, NobodyFor
<1>4. Walk(t)' /\ ~Entering(t)' /\ pc'[t] \notin AlertLabels /\ status'[t] = "TERMINATED"
  BY <1>0, <1>1, <1>3 DEF Walk, Entering, AlertLabels, WalkLabels, ExitLabels, Resuming
<1>5. ~In("suspended", t)'
  BY <1>0, <1>2, RunningInLine
<1> QED BY <1>1, <1>2, <1>4, <1>5 DEF LineStep

(* The start of a task_init, which moves two tasks.                         *)
LEMMA CreateLine ==
  ASSUME LineInv, LifeInv', NEW t \in Tasks, Running(t), task_init(t)
  PROVE  LineInv'
<1>0. /\ TypeOK /\ curr = t /\ pc[t] = "user"
      /\ \A u \in Tasks : u # t => pc[u] \notin AlertLabels
      /\ pc[t] \notin AlertLabels
  BY DEF LineInv, LifeInv, CallsInv, Running, task_init, Calls, At, AlertLabels, WalkLabels, ExitLabels,
         Resuming
<1>1. PICK n \in Tasks :
        /\ pc[n] = "unborn"
        /\ pc' = [pc EXCEPT ![t] = "init_id_load", ![n] = "user"]
        /\ target' = [target EXCEPT ![t] = n]
  BY DEF task_init
<1>2. /\ UNCHANGED <<curr, queues, status, id, waiting_task, back>>
      /\ pc'[t] = "init_id_load" /\ pc'[n] = "user"
      /\ \A u \in Tasks : u # t => target'[u] = target[u]
      /\ \A u \in Tasks : u \notin {t, n} => pc'[u] = pc[u]
  BY <1>0, <1>1 DEF task_init, coreVars, argVars, descVars, TypeOK, KernelTypeOK
<1>3. \A w : In("suspended", w)' <=> In("suspended", w)
  BY <1>2 DEF In
<1>4. \A u \in Tasks : /\ pc'[u] \notin AlertLabels
                       /\ pc'[u] = "dead" => u # t /\ pc[u] = "dead"
                       /\ Over(u)' => Over(u)
  BY <1>0, <1>2 DEF AlertLabels, WalkLabels, ExitLabels, Resuming, Over, Gone
<1>5. ASSUME NEW w \in Tasks, In("suspended", w)' PROVE InLine(w)'
  <2>1. InLine(w) /\ w # t /\ w # n
    BY <1>0, <1>1, <1>3, <1>5 DEF LineInv, InLine
  <2> QED BY <2>1, <1>2 DEF InLine, Waiting
<1>6. ASSUME NEW u \in Tasks PROVE Walk(u)'
  <2>1. pc'[u] \notin WalkLabels /\ ~(pc'[u] \in Gone /\ curr' = u /\ pc'[u] # "dead")
    BY <1>0, <1>2, <1>4 DEF AlertLabels, Gone
  <2>2. ASSUME pc'[u] = "dead" PROVE NobodyFor(u)'
    <3>1. NobodyFor(u)
      BY <1>4, <2>2 DEF LineInv, Walk
    <3>2. \A w \in Tasks : In("suspended", w) => w # t
      BY <1>0, RunningInLine
    <3> QED BY <3>1, <3>2, <1>2, <1>3 DEF NobodyFor
  <2> QED BY <2>1, <2>2 DEF Walk, WalkLabels, ExitLabels, Resuming
<1>7. \A w \in Tasks : ~Entering(w)'
  BY <1>4 DEF Entering, AlertLabels
<1> QED BY <1>2, <1>4, <1>5, <1>6, <1>7 DEF LineInv

(* The timer and the dispatcher.                                            *)
LEMMA LineSystem ==
  ASSUME LineInv, LifeInv', Preemptible \cap AlertLabels = {},
         TickSleep \/ DispatchNext \/ UNCHANGED vars
  PROVE  LineInv'
<1>0. /\ TypeOK /\ QueuesOK /\ {"suspended", "ready", "sleeping"} \subseteq Queues
      /\ \A u \in Tasks : u # Dispatcher
  BY KernelAssumption DEF LineInv, LifeInv, CallsInv, Queues
<1>1. UNCHANGED <<pc, back, target, aux, next, id, waiting_task>>
  BY DEF TickSleep, Tick, DispatchNext, Dispatch, Shutdown, vars, kernelVars, coreVars, frameVars,
         argVars, tasksVars, descVars, localVars
<1>2. line' = line /\ \A w \in Tasks : In("suspended", w)' <=> In("suspended", w)
  <2>1. queues' = queues \/ queues' = after_wake_tasks
    BY DEF TickSleep, Tick, DispatchNext, Dispatch, Shutdown, vars, kernelVars, coreVars
  <2>2. line' = line
    BY <1>0, <2>1 DEF line, after_wake_tasks, QueuesOK
  <2> QED BY <2>2 DEF In, line
<1>3. ASSUME NEW u \in Tasks, pc[u] \in AlertLabels PROVE curr' = u
  <2>1. curr = u
    BY <1>3 DEF LineInv
  <2> QED BY <1>0, <1>3, <2>1 DEF TickSleep, Tick, DispatchNext, Dispatch, Shutdown, Running, vars,
                                  kernelVars, coreVars
<1>4. ASSUME NEW u \in Tasks, pc[u] \in Gone, curr' = u PROVE curr = u
  <2>1. CASE Dispatch
    <3>1. In("ready", u)' /\ queues' = after_wake_tasks
      BY <1>4, <2>1 DEF Dispatch, Chosen, In, Contains
    <3>2. Linked(u)
      BY <1>0, <3>1, WakeMembers DEF Linked, In
    <3> QED BY <1>4, <3>2 DEF LineInv, LifeInv, GoneForGood
  <2>2. CASE ~Dispatch
    BY <1>0, <1>4, <2>2 DEF TickSleep, Tick, switch_to_dispatcher, DispatchNext, Shutdown, vars, kernelVars,
                            coreVars
  <2> QED BY <2>1, <2>2
<1>5. ASSUME NEW u \in Tasks, Over(u)' PROVE Over(u) /\ status'[u] = status[u]
  <2>1. Over(u)
    BY <1>1, <1>4, <1>5 DEF Over
  <2>2. CASE TickSleep
    <3>1. curr = u /\ expired => pc[u] \notin Preemptible
      <4>1. curr = u => pc[u] # "dead"
        BY DEF LineInv, LifeInv, GoneForGood, Gone
      <4>2. CASE pc[u] \in AlertLabels
        BY <4>2
      <4>3. CASE curr' = u /\ curr = u /\ expired
        BY <4>3, <2>2, <1>0 DEF TickSleep, Tick, switch_to_dispatcher
      <4> QED BY <4>1, <4>2, <4>3, <1>1, <1>5 DEF Over, AlertLabels
    <3>2. status' = status \/ (status' = [status EXCEPT ![curr] = "SUSPENDED"] /\ curr # u)
      BY <2>2, <3>1, <1>0 DEF TickSleep, Tick, switch_to_dispatcher
    <3> QED BY <2>1, <3>2, <1>0 DEF TypeOK
  <2>3. CASE Dispatch
    <3>1. ~Linked(u)
      <4>1. pc[u] \notin WalkLabels
        BY <2>3, <1>0 DEF Dispatch, Running, LineInv, AlertLabels
      <4> QED BY <4>1, <2>1 DEF Over, Gone, LineInv, LifeInv, GoneForGood
    <3>2. /\ \E n \in Tasks : /\ In("ready", n)'
                              /\ status' = [t \in Tasks |->
                                   CASE t = n -> "RUNNING"
                                     [] t # n /\ Contains(queues["sleeping"], t) /\ Due(t) -> "READY"
                                     [] OTHER -> status[t]]
          /\ queues' = after_wake_tasks
      BY <2>3 DEF Dispatch, Chosen, In, Contains
    <3>3. ~In("ready", u)' /\ ~Contains(queues["sleeping"], u)
      BY <1>0, <3>1, <3>2, WakeMembers DEF Linked, In
    <3> QED BY <2>1, <3>2, <3>3
  <2>4. CASE ~TickSleep /\ ~Dispatch
    BY <2>1, <2>4 DEF DispatchNext, Shutdown, vars, kernelVars, coreVars
  <2> QED BY <2>2, <2>3, <2>4
<1>6. \A w \in Tasks : In("suspended", w)' => InLine(w)'
  BY <1>1, <1>2 DEF LineInv, InLine, Waiting
<1>7. \A w \in Tasks : Entering(w)' => Enters(w)'
  <2> SUFFICES ASSUME NEW w \in Tasks, Entering(w)' PROVE Enters(w)'
    OBVIOUS
  <2>1. Enters(w) /\ target[w] \in Tasks
    BY <1>1 DEF LineInv, LifeInv, CallsInv, Frame, Entering, Suspending
  <2>2. Over(target[w])' => Over(target[w])
    BY <2>1, <1>1, <1>5 DEF Over
  <2> QED BY <2>1, <2>2, <1>1 DEF Enters
<1>8. ASSUME NEW u \in Tasks PROVE Walk(u)'
  <2>1. /\ \A k : WalkAt(u, k)' <=> WalkAt(u, k)
        /\ NobodyFor(u)' <=> NobodyFor(u)
        /\ \A w \in Tasks : ~In("suspended", w) => ~In("suspended", w)'
    BY <1>1, <1>2 DEF WalkAt, NobodyFor
  <2>2. pc'[u] \in Gone /\ curr' = u => curr = u
    BY <1>1, <1>4
  <2>3. Walk(u) /\ (pc[u] \in {"exit_clear", "exit_last_clear", "resume_append"} => aux[u] \in Tasks)
    BY DEF LineInv, LifeInv, CallsInv, Frame, Resuming
  <2> QED BY <2>1, <2>2, <2>3, <1>1, <1>2 DEF Walk
<1> QED BY <1>1, <1>3, <1>5, <1>6, <1>7, <1>8 DEF LineInv

LEMMA LineInit == Init => LineInv
<1> SUFFICES ASSUME Init PROVE LineInv
  OBVIOUS
<1>1. \A u \in Tasks : pc[u] \in {"user", "unborn"}
  BY DEF Init
<1>2. \A w \in Tasks : ~In("suspended", w)
  <2>1. Len(<< >>) = 0
    OBVIOUS
  <2> QED BY <2>1 DEF Init, In, Contains, Queues
<1>3. \A u \in Tasks : ~Over(u) /\ ~Entering(u) /\ Walk(u) /\ pc[u] \notin AlertLabels
  BY <1>1 DEF Over, Entering, Walk, AlertLabels, WalkLabels, ExitLabels, Resuming, Gone
<1> QED BY <1>2, <1>3, LifeInit DEF LineInv

(* No waiter is left behind by the task it waits for, if neither task_wait  *)
(* between its test and its entry into suspended_tasks nor the walk of      *)
(* task_exit is preempted.  Preempted there, it can be (TasksLostWaiter).   *)
THEOREM NobodyLeftWaiting ==
  SerialCreation /\ Preemptible \cap AlertLabels = {} => (Spec => []NoLostWaiter)
<1> SUFFICES ASSUME SerialCreation, Preemptible \cap AlertLabels = {} PROVE Spec => []NoLostWaiter
  OBVIOUS
<1>1. LineInv /\ Creating /\ [Next]_vars => (LineInv /\ Creating)'
  <2> SUFFICES ASSUME LineInv, Creating, [Next]_vars PROVE (LineInv /\ Creating)'
    OBVIOUS
  <2>1. LifeInv' /\ Creating'
    BY LifeSystem, LifeStep, CreatingKept DEF LineInv, LifeInv, Next
  <2>2. ASSUME NEW t \in Tasks, Step(t) PROVE LineInv'
    <3>1. Running(t)
      BY <2>2, CallsStep DEF LineInv, LifeInv
    <3>2. CASE task_init(t)
      BY <2>1, <3>1, <3>2, CreateLine
    <3>3. CASE ~task_init(t)
      <4>1. StaysPut(t)
        BY <2>2, <3>3, StepStays DEF LineInv, LifeInv
      <4>2. Calm(t) => LineStep(t)
        BY <2>1, <4>1, CalmLine
      <4>3. LineStep(t)
        BY <2>1, <2>2, <3>1, <3>3, <4>1, <4>2, CalmSteps, BirthLine, WaitLine, SuspendLine, WalkSteps,
           ResumeLine, LeaveLine DEF Step, SuspendResume
      <4> QED BY <2>1, <4>1, <4>3, LineKept
    <3> QED BY <3>2, <3>3
  <2> QED BY <2>1, <2>2, LineSystem DEF Next
<1>2. LineInv => NoLostWaiter
  <2> SUFFICES ASSUME LineInv, NEW w \in Tasks, Contains(queues["suspended"], w)
               PROVE  pc[target[w]] # "dead"
    BY DEF NoLostWaiter
  <2>1. In("suspended", w)
    BY DEF In
  <2>2. target[w] \in Tasks
    BY <2>1 DEF LineInv, InLine
  <2>3. ~NobodyFor(target[w])
    BY <2>1 DEF NobodyFor
  <2> QED BY <2>2, <2>3 DEF LineInv, Walk
<1> QED BY <1>1, <1>2, LineInit, LifeInit, PTL DEF Spec

-----------------------------------------------------------------------------
(* How long a sleeper has still to sleep, while the clock does not wrap.    *)
SleepInv ==
  /\ LifeInv /\ Creating /\ sysclock <= MaxClock
  /\ \A u \in Tasks : due[u] = 0 \/ sysclock + due[u] <= wake_up_time[u]
  /\ \A u \in Tasks : ~Created(u) => due[u] = 0

LEMMA OtherSteps ==
  ASSUME TypeOK, NEW t \in Tasks, Step(t), ~task_sleep(t), ~init_fill(t)
  PROVE  /\ due' = due /\ wake_up_time' = wake_up_time /\ sysclock' = sysclock
         /\ \A u \in Tasks : status'[u] = "NOT_CREATED" => status[u] = "NOT_CREATED"
<1>1. CASE task_yield(t) \/ task_setprio(t) \/ task_wait(t) \/ wait_set(t) \/ wait_return(t) \/ task_init(t)
  BY <1>1 DEF task_yield, task_setprio, task_wait, wait_set, wait_return, task_init, switch_to_dispatcher,
     coreVars, timeVars, tasksVars, TypeOK
<1>2. CASE \/ init_id_load(t) \/ init_id_store(t) \/ init_append(t)
           \/ init_count_load(t) \/ init_count_store(t) \/ exit_count_load(t) \/ exit_count_store(t)
  BY <1>2 DEF init_id_load, init_id_store, init_append, init_count_load, init_count_store, exit_count_load,
     exit_count_store, count_load, count_store, coreVars, timeVars
<1>3. CASE \/ task_exit(t) \/ set_exit_code(t) \/ exit_head(t) \/ exit_loop(t) \/ exit_next(t)
           \/ exit_check(t) \/ exit_clear(t)
           \/ exit_last(t) \/ exit_last_clear(t) \/ exit_remove(t) \/ exit_switch(t)
  BY <1>3 DEF task_exit, set_exit_code, exit_head, exit_loop, exit_next, exit_check, exit_clear, exit_last, exit_last_clear, exit_remove,
     exit_switch, coreVars, timeVars, tasksVars, TypeOK
<1>4. CASE SuspendResume(t) /\ UNCHANGED tasksVars
  <2>1. due' = due
    BY <1>4 DEF tasksVars
  <2> QED BY <1>4, <2>1 DEF SuspendResume, suspend_remove, suspend_append, suspend_switch, resume_remove,
          resume_append, switch_to_dispatcher, timeVars, TypeOK
<1> QED BY <1>1, <1>2, <1>3, <1>4 DEF Step

LEMMA SleepNext ==
  ASSUME SleepInv, SerialCreation, MaxClock < CLOCK_MOD, [Next]_vars
  PROVE  SleepInv'
<1>0. /\ TypeOK /\ KernelTypeOK /\ LifeInv' /\ Creating'
      /\ MaxClock \in Nat /\ CLOCK_MOD \in Nat \ {0}
  BY LifeSystem, LifeStep, CreatingKept, KernelAssumption DEF SleepInv, LifeInv, CallsInv, TypeOK, Next
<1>m. \A c \in Nat : c < CLOCK_MOD => c % CLOCK_MOD = c
  BY <1>0
<1>1. CASE TickSleep
  <2>1. sysclock' = sysclock + 1 /\ sysclock' <= MaxClock
    <3>1. sysclock \in Nat /\ sysclock < MaxClock /\ sysclock' = (sysclock + 1) % CLOCK_MOD
      BY <1>0, <1>1 DEF TickSleep, Tick, KernelTypeOK
    <3> QED BY <3>1, <1>0, <1>m
  <2>2. /\ wake_up_time' = wake_up_time
        /\ \A u \in Tasks : due'[u] = IF due[u] > 0 THEN due[u] - 1 ELSE 0
        /\ \A u \in Tasks : status'[u] = "NOT_CREATED" => status[u] = "NOT_CREATED"
    BY <1>0, <1>1 DEF TickSleep, Tick, switch_to_dispatcher, TypeOK
  <2>3. /\ \A u \in Tasks : due'[u] = 0 \/ sysclock' + due'[u] <= wake_up_time'[u]
        /\ \A u \in Tasks : ~Created(u)' => due'[u] = 0
    <3>1. \A u \in Tasks : due[u] \in Nat /\ wake_up_time[u] \in Int /\ sysclock \in Int
      BY <1>0 DEF TypeOK, KernelTypeOK
    <3>2. ASSUME NEW u \in Tasks PROVE due'[u] = 0 \/ sysclock' + due'[u] <= wake_up_time'[u]
      <4>1. due[u] = 0 \/ sysclock + due[u] <= wake_up_time[u]
        BY DEF SleepInv
      <4> QED BY <2>1, <2>2, <3>1, <4>1
    <3>3. \A u \in Tasks : due[u] = 0 => due'[u] = 0
      BY <2>2
    <3> QED BY <2>2, <3>2, <3>3 DEF SleepInv, Created
  <2> QED BY <1>0, <2>1, <2>3 DEF SleepInv
<1>2. CASE DispatchNext \/ UNCHANGED vars
  <2>1. /\ due' = due /\ wake_up_time' = wake_up_time /\ sysclock' = sysclock
        /\ \A u \in Tasks : status'[u] = "NOT_CREATED" => status[u] = "NOT_CREATED"
    BY <1>2 DEF DispatchNext, Dispatch, Shutdown, vars, kernelVars, coreVars, timeVars, tasksVars
  <2> QED BY <1>0, <2>1 DEF SleepInv, Created
<1>3. ASSUME NEW t \in Tasks, Step(t) PROVE SleepInv'
  <2>0. Created(t)
    BY <1>3, CallsStep, RunningCreated DEF SleepInv, LifeInv
  <2>1. CASE task_sleep(t)
    <3>1. PICK d \in Durations :
            /\ sysclock + d <= MaxClock
            /\ wake_up_time' = [wake_up_time EXCEPT ![t] = (sysclock + d) % CLOCK_MOD]
            /\ due' = [due EXCEPT ![t] = d]
      BY <2>1 DEF task_sleep
    <3>2. d \in Nat /\ (sysclock + d) % CLOCK_MOD = sysclock + d
      <4>1. d \in Nat /\ sysclock \in Nat
        BY <1>0, TasksAssumption DEF KernelTypeOK
      <4> QED BY <4>1, <1>0, <1>m, <3>1
    <3>3. sysclock' = sysclock /\ status' = status
      BY <2>1 DEF task_sleep
    <3>4. /\ \A u \in Tasks : due'[u] = 0 \/ sysclock' + due'[u] <= wake_up_time'[u]
          /\ \A u \in Tasks : ~Created(u)' => due'[u] = 0
      <4>1. /\ due'[t] = d /\ wake_up_time'[t] = sysclock + d
            /\ \A u \in Tasks : u # t => due'[u] = due[u] /\ wake_up_time'[u] = wake_up_time[u]
        BY <1>0, <3>1, <3>2 DEF TypeOK, KernelTypeOK
      <4>2. \A u \in Tasks : due'[u] = 0 \/ sysclock' + due'[u] <= wake_up_time'[u]
        <5> SUFFICES ASSUME NEW u \in Tasks PROVE due'[u] = 0 \/ sysclock' + due'[u] <= wake_up_time'[u]
          OBVIOUS
        <5>1. CASE u = t
          <6>1. sysclock' + due'[u] = wake_up_time'[u] /\ wake_up_time'[u] \in Int
            BY <5>1, <3>2, <3>3, <4>1, <1>0 DEF KernelTypeOK
          <6> QED BY <6>1
        <5>2. CASE u # t
          BY <5>2, <3>3, <4>1 DEF SleepInv
        <5> QED BY <5>1, <5>2
      <4> QED BY <2>0, <3>3, <4>1, <4>2 DEF SleepInv, Created
    <3> QED BY <1>0, <3>3, <3>4 DEF SleepInv
  <2>2. CASE init_fill(t)
    <3> DEFINE n == target[t]
    <3>1. n \in Tasks /\ ~Created(n)
      BY <2>2 DEF init_fill, At, SleepInv, LifeInv, NewTasks, CallsInv, Frame, InitLabels
    <3>2. /\ due' = due /\ sysclock' = sysclock /\ status' = [status EXCEPT ![n] = "READY"]
          /\ wake_up_time' = [wake_up_time EXCEPT ![n] = 0]
      BY <2>2 DEF init_fill
    <3> HIDE DEF n
    <3>3. /\ \A u \in Tasks : due'[u] = 0 \/ sysclock' + due'[u] <= wake_up_time'[u]
          /\ \A u \in Tasks : ~Created(u)' => due'[u] = 0
      BY <1>0, <3>1, <3>2 DEF SleepInv, Created, TypeOK, KernelTypeOK
    <3> QED BY <1>0, <3>2, <3>3 DEF SleepInv
  <2>3. CASE ~task_sleep(t) /\ ~init_fill(t)
    BY <1>0, <1>3, <2>3, OtherSteps DEF SleepInv, Created
  <2> QED BY <2>1, <2>2, <2>3
<1> QED BY <1>1, <1>2, <1>3 DEF Next

(* Only the dispatcher takes a task out of the sleepers.                    *)
LEMMA WakersDispatch ==
  ASSUME SleepInv, [Next]_vars, NEW u \in Tasks, In("sleeping", u), ~In("sleeping", u)'
  PROVE  Due(u)
<1>0. QueuesOK /\ TypeOK /\ {"ready", "suspended", "sleeping"} \subseteq Queues
  BY DEF SleepInv, LifeInv, CallsInv, Queues
<1>1. CASE Dispatch
  <2>1. queues' = after_wake_tasks
    BY <1>1 DEF Dispatch
  <2> QED BY <1>0, <2>1, WakeMembers
<1>2. CASE TickSleep \/ Shutdown \/ UNCHANGED vars
  BY <1>2 DEF TickSleep, Tick, Shutdown, vars, kernelVars, coreVars, In
<1>3. ASSUME NEW t \in Tasks, Step(t) PROVE FALSE
  <2>1. queues' # queues
    BY DEF In
  <2>2. Running(t) /\ Frame(t)
    BY <1>3, CallsStep DEF SleepInv, LifeInv, CallsInv
  <2>3. CASE task_init(t)
    BY <2>1, <2>3 DEF task_init, coreVars
  <2>4. CASE Quiet(t) \/ queues' = queues
    BY <2>1, <2>4 DEF Quiet
  <2>5. CASE init_append(t)
    <3>1. target[t] \in Tasks
      BY <2>2, <2>5 DEF init_append, At, Frame, InitLabels
    <3> QED BY <1>0, <2>5, <3>1, AppendMembers DEF init_append
  <2>6. CASE suspend_append(t)
    <3>1. arg_queue[t] \in Queues
      BY <1>0, <2>2, <2>6 DEF suspend_append, Frame, Suspending
    <3> QED BY <1>0, <2>6, <3>1, AppendMembers DEF suspend_append
  <2>7. CASE resume_append(t)
    <3>1. arg_task[t] \in Tasks
      BY <2>2, <2>7 DEF resume_append, Frame, Resuming
    <3> QED BY <1>0, <2>7, <3>1, AppendMembers DEF resume_append
  <2>8. CASE suspend_remove(t) \/ exit_remove(t)
    BY <1>0, <2>8, RemoveMembers DEF suspend_remove, exit_remove
  <2>9. CASE resume_remove(t)
    <3>1. arg_task[t] \in Tasks /\ arg_queue[t] = "suspended"
      BY <2>2, <2>9 DEF resume_remove, Frame, Resuming
    <3> QED BY <1>0, <2>9, <3>1, RemoveMembers DEF resume_remove
  <2> QED BY <1>3, <2>2, <2>3, <2>4, <2>5, <2>6, <2>7, <2>8, <2>9, QuietSteps, LoopSteps, SwitchSteps
          DEF Step, SuspendResume, SleepInv, LifeInv
<1> QED BY <1>1, <1>2, <1>3 DEF Next, DispatchNext

(* If creation is serial and the clock does not wrap, a sleeper sleeps for  *)
(* as many ticks as it asked for, whatever the others do and wherever they  *)
(* are preempted.                                                           *)
THEOREM SleepersSleepOn ==
  SerialCreation /\ MaxClock < CLOCK_MOD => (Spec => NoEarlyWake)
<1> SUFFICES ASSUME SerialCreation, MaxClock < CLOCK_MOD PROVE Spec => NoEarlyWake
  OBVIOUS
<1> DEFINE Wakes == \A t \in Tasks :
                      Contains(queues["sleeping"], t) /\ ~Contains(queues'["sleeping"], t) => due[t] = 0
<1>1. Init => SleepInv
  <2> SUFFICES ASSUME Init PROVE SleepInv
    OBVIOUS
  <2>1. sysclock = 0 /\ due = [t \in Tasks |-> 0]
    BY DEF Init
  <2> QED BY <2>1, LifeInit, KernelAssumption DEF SleepInv
<1>2. SleepInv /\ [Next]_vars => SleepInv'
  BY SleepNext
<1>3. SleepInv /\ [Next]_vars => Wakes
  <2> SUFFICES ASSUME SleepInv, [Next]_vars, NEW u \in Tasks, In("sleeping", u), ~In("sleeping", u)'
               PROVE  due[u] = 0
    BY DEF In
  <2>1. Due(u)
    BY WakersDispatch
  <2>2. sysclock \in Int /\ due[u] \in Nat /\ wake_up_time[u] \in Int
    BY DEF SleepInv, LifeInv, CallsInv, TypeOK, KernelTypeOK
  <2> QED BY <2>1, <2>2 DEF SleepInv, Due
<1> QED BY <1>1, <1>2, <1>3, PTL DEF Spec, NoEarlyWake

-----------------------------------------------------------------------------
PriorityTypes ==
  /\ static_priority \in [Tasks -> Int]
  /\ dynamic_priority \in [Tasks -> Int]
  /\ \A t \in Tasks : static_priority[t] >= LeastPriority
  /\ \A t \in Tasks : static_priority[t] < HALF /\ dynamic_priority[t] < HALF

(* task_setprio checks nothing: what an application must not do is to give  *)
(* priorities within N of the least short.                                  *)
WithinShort == LeastPriority - Cardinality(Tasks) >= -HALF

IInv == PriorityTypes /\ AgeBound

LEMMA BelowFinite ==
  ASSUME NEW k
  PROVE  /\ IsFiniteSet(Below(k)) /\ Cardinality(Below(k)) \in Nat
         /\ Cardinality(Tasks) \in Nat /\ Cardinality(Below(k)) <= Cardinality(Tasks)
<1>1. Below(k) \subseteq Tasks
  BY DEF Below
<1> QED BY <1>1, KernelAssumption, FS_Subset, FS_CardinalityType

LEMMA InitInv == Init => IInv
<1> SUFFICES ASSUME Init PROVE IInv
  OBVIOUS
<1>1. PriorityTypes
  BY TasksAssumption DEF Init, PriorityTypes, DEFAULT_PRIORITY, HALF
<1>2. ASSUME NEW k \in 1..Cardinality(Tasks)
      PROVE  Cardinality(Below(k)) <= Cardinality(Tasks) - k
  <2>1. Cardinality(Tasks) \in Nat
    BY BelowFinite
  <2>2. Below(k) = {}
    BY <2>1, TasksAssumption DEF Init, Below, DEFAULT_PRIORITY
  <2> QED BY <2>1, <2>2, FS_EmptySet
<1> QED BY <1>1, <1>2 DEF IInv, AgeBound

(* Steps after which every task that is low was as low before.              *)
LEMMA NoOneFalls ==
  ASSUME IInv, PriorityTypes',
         \A k \in 1..Cardinality(Tasks) : Below(k)' \subseteq Below(k)
  PROVE  IInv'
<1> SUFFICES ASSUME NEW k \in 1..Cardinality(Tasks)
             PROVE  Cardinality(Below(k)') <= Cardinality(Tasks) - k
  BY DEF IInv, AgeBound
<1>1. Cardinality(Below(k)') <= Cardinality(Below(k)) /\ Cardinality(Below(k)') \in Nat
  BY BelowFinite, FS_Subset, FS_CardinalityType
<1>2. Cardinality(Below(k)) <= Cardinality(Tasks) - k
  BY DEF IInv, AgeBound
<1> QED BY <1>1, <1>2, BelowFinite

(* task_setprio and task_init only give a task one of the priorities.       *)
LEMMA PriorityGiven ==
  ASSUME IInv, NEW u \in Tasks, NEW prio \in Int, prio >= LeastPriority, prio < HALF,
         static_priority' = [static_priority EXCEPT ![u] = prio],
         dynamic_priority' = [dynamic_priority EXCEPT ![u] = prio]
  PROVE  IInv'
<1> USE TasksAssumption
<1>1. PriorityTypes'
  BY DEF IInv, PriorityTypes
<1>2. ASSUME NEW k \in 1..Cardinality(Tasks)
      PROVE  Below(k)' \subseteq Below(k)
  <2>1. k \in Int /\ k > 0
    BY BelowFinite
  <2> QED BY <2>1 DEF IInv, PriorityTypes, Below
<1> QED BY <1>1, <1>2, NoOneFalls

(* No task is N below the least static priority.                            *)
LEMMA NoneThatLow ==
  ASSUME IInv
  PROVE  \A t \in Tasks : dynamic_priority[t] > LeastPriority - Cardinality(Tasks)
<1> SUFFICES ASSUME NEW t \in Tasks,
                    dynamic_priority[t] <= LeastPriority - Cardinality(Tasks)
             PROVE  FALSE
  BY TasksAssumption, BelowFinite DEF IInv, PriorityTypes
<1> DEFINE N == Cardinality(Tasks)
<1>1. N \in Nat /\ N >= 1
  BY KernelAssumption, FS_EmptySet, FS_CardinalityType
<1>2. Cardinality(Below(N)) <= N - N
  BY <1>1 DEF IInv, AgeBound
<1>3. Below(N) = {}
  BY <1>1, <1>2, BelowFinite, FS_EmptySet
<1> QED BY <1>3 DEF Below

(* So a task that ages does not wrap around.                                *)
LEMMA AgesByOne ==
  ASSUME IInv, WithinShort, NEW t \in Tasks
  PROVE  short(dynamic_priority[t] + ALPHA) = dynamic_priority[t] - 1
<1>1. PICK d \in Int : d = dynamic_priority[t] - 1
  BY DEF IInv, PriorityTypes
<1>2. dynamic_priority[t] + ALPHA = d
  BY <1>1 DEF ALPHA, IInv, PriorityTypes
<1>3. -HALF <= d /\ d < HALF
  BY <1>1, NoneThatLow, ShortType, TasksAssumption, BelowFinite DEF IInv, PriorityTypes, WithinShort
<1> QED BY <1>1, <1>2, <1>3, ShortType

(* The dispatcher chooses a task that is at least as low as any ready task. *)
LEMMA DispatchInv ==
  ASSUME IInv, WithinShort, Dispatch
  PROVE  IInv'
<1> USE TasksAssumption
<1> DEFINE readyq == queues'["ready"]
<1>1. PICK c \in Tasks : /\ Chosen(readyq, c)
                         /\ dynamic_priority' = aged(readyq, c)
  BY DEF Dispatch
<1>2. static_priority' = static_priority
  BY DEF Dispatch
<1>3. \A t \in Tasks : Contains(readyq, t) => dynamic_priority[c] <= dynamic_priority[t]
  <2> SUFFICES ASSUME NEW t \in Tasks, Contains(readyq, t)
               PROVE  dynamic_priority[c] <= dynamic_priority[t]
    OBVIOUS
  <2>1. PICK j \in 1..Len(readyq) : readyq[j] = t
    BY DEF Contains
  <2>2. dynamic_priority[c] < dynamic_priority[t] \/ dynamic_priority[c] <= dynamic_priority[t]
    BY <1>1, <2>1 DEF Chosen
  <2> QED BY <2>2 DEF IInv, PriorityTypes
<1>4. \A t \in Tasks : /\ t = c => dynamic_priority'[t] = static_priority[t]
                       /\ t # c /\ Contains(readyq, t)
                            => dynamic_priority'[t] = dynamic_priority[t] - 1
                       /\ t # c /\ ~Contains(readyq, t)
                            => dynamic_priority'[t] = dynamic_priority[t]
  BY <1>1, AgesByOne DEF aged, IInv, PriorityTypes
<1>5. PriorityTypes'
  <2>1. dynamic_priority' \in [Tasks -> Int]
    <3>1. \A t \in Tasks : dynamic_priority'[t] \in Int
      BY <1>4 DEF IInv, PriorityTypes
    <3> QED BY <3>1, <1>1 DEF aged
  <2>2. \A t \in Tasks : dynamic_priority'[t] < HALF
    BY <1>4, ShortType DEF IInv, PriorityTypes
  <2> QED BY <2>1, <2>2, <1>2 DEF IInv, PriorityTypes
<1>6. ASSUME NEW k \in 1..Cardinality(Tasks)
      PROVE  Cardinality(Below(k)') <= Cardinality(Tasks) - k
  <2>0. k \in Int /\ k > 0 /\ Cardinality(Tasks) \in Nat
    BY BelowFinite
  <2>1. CASE dynamic_priority[c] <= LeastPriority - (k - 1)
    <3>1. Below(k)' \subseteq Below(k - 1) \ {c}
      BY <2>0, <1>4, <1>5 DEF Below, IInv, PriorityTypes
    <3>2. c \in Below(k - 1)
      BY <2>1 DEF Below
    <3>3. /\ IsFiniteSet(Below(k - 1) \ {c})
          /\ Cardinality(Below(k - 1) \ {c}) = Cardinality(Below(k - 1)) - 1
      BY <3>2, BelowFinite, FS_RemoveElement
    <3>4. /\ Cardinality(Below(k)') <= Cardinality(Below(k - 1)) - 1
          /\ Cardinality(Below(k)') \in Nat
      BY <3>1, <3>3, FS_Subset, FS_CardinalityType
    <3>5. Cardinality(Below(k - 1)) <= Cardinality(Tasks) - (k - 1)
      <4>1. CASE k = 1
        BY <4>1, BelowFinite
      <4>2. CASE k # 1
        <5>1. k - 1 \in 1..Cardinality(Tasks)
          BY <4>2, <2>0
        <5> QED BY <5>1 DEF IInv, AgeBound
      <4> QED BY <4>1, <4>2
    <3> QED BY <3>4, <3>5, <2>0, BelowFinite
  <2>2. CASE ~(dynamic_priority[c] <= LeastPriority - (k - 1))
    <3>1. Below(k)' \subseteq Below(k)
      BY <2>0, <2>2, <1>3, <1>4, <1>5 DEF Below, IInv, PriorityTypes
    <3>2. Cardinality(Below(k)') <= Cardinality(Below(k)) /\ Cardinality(Below(k)') \in Nat
      BY <3>1, BelowFinite, FS_Subset, FS_CardinalityType
    <3>3. Cardinality(Below(k)) <= Cardinality(Tasks) - k
      BY DEF IInv, AgeBound
    <3> QED BY <3>2, <3>3, <2>0, BelowFinite
  <2> QED BY <2>1, <2>2
<1> QED BY <1>5, <1>6 DEF IInv, AgeBound

LEMMA Unchanged ==
  ASSUME IInv, UNCHANGED prioVars
  PROVE  IInv'
BY DEF prioVars, IInv, PriorityTypes, AgeBound, Below

(* All the other calls leave the priorities alone.                          *)
LEMMA StepInv ==
  ASSUME IInv, NEW t \in Tasks, Step(t)
  PROVE  IInv'
<1>1. CASE task_setprio(t)
  <2>1. PICK u \in Tasks, prio \in Priorities :
          /\ static_priority' = [static_priority EXCEPT ![u] = short(prio)]
          /\ dynamic_priority' = [dynamic_priority EXCEPT ![u] = short(prio)]
    BY <1>1 DEF task_setprio
  <2>2. PICK p \in Int : p = short(prio) /\ p >= LeastPriority /\ p < HALF
    BY TasksAssumption, ShortType
  <2>3. /\ static_priority' = [static_priority EXCEPT ![u] = p]
        /\ dynamic_priority' = [dynamic_priority EXCEPT ![u] = p]
    BY <2>1, <2>2
  <2> QED BY <2>2, <2>3, PriorityGiven
<1>2. CASE init_fill(t)
  <2>1. CASE target[t] \in Tasks
    <3>1. PICK p \in Int : p = DEFAULT_PRIORITY /\ p >= LeastPriority /\ p < HALF
      BY TasksAssumption DEF DEFAULT_PRIORITY, HALF
    <3>2. /\ static_priority' = [static_priority EXCEPT ![target[t]] = p]
          /\ dynamic_priority' = [dynamic_priority EXCEPT ![target[t]] = p]
      BY <1>2, <3>1 DEF init_fill
    <3> QED BY <2>1, <3>1, <3>2, PriorityGiven
  <2>2. CASE target[t] \notin Tasks
    <3>1. UNCHANGED prioVars
      BY <1>2, <2>2 DEF init_fill, prioVars, IInv, PriorityTypes
    <3> QED BY <3>1, Unchanged
  <2> QED BY <2>1, <2>2
<1>3. CASE \/ task_yield(t) \/ task_sleep(t) \/ task_wait(t) \/ wait_set(t) \/ wait_return(t)
           \/ task_init(t) \/ init_id_load(t) \/ init_id_store(t) \/ init_append(t)
           \/ init_count_load(t) \/ init_count_store(t)
  <2>1. UNCHANGED prioVars
    BY <1>3 DEF task_yield, task_sleep, task_wait, wait_set, wait_return, task_init,
                init_id_load, init_id_store, init_append, init_count_load, init_count_store,
                count_load, count_store, coreVars, prioVars
  <2> QED BY <2>1, Unchanged
<1>4. CASE \/ task_exit(t) \/ set_exit_code(t) \/ exit_head(t) \/ exit_loop(t)
           \/ exit_next(t) \/ exit_check(t) \/ exit_clear(t)
           \/ exit_last(t) \/ exit_last_clear(t) \/ exit_remove(t)
           \/ exit_count_load(t) \/ exit_count_store(t) \/ exit_switch(t)
  <2>1. UNCHANGED prioVars
    BY <1>4 DEF task_exit, set_exit_code, exit_head, exit_loop, exit_next, exit_check,
                exit_clear, exit_last, exit_last_clear, exit_remove, exit_count_load, exit_count_store, exit_switch,
                count_load, count_store, coreVars, prioVars
  <2> QED BY <2>1, Unchanged
<1>5. CASE SuspendResume(t)
  <2>1. UNCHANGED prioVars
    BY <1>5 DEF SuspendResume, suspend_remove, suspend_append, suspend_switch,
                resume_remove, resume_append, prioVars
  <2> QED BY <2>1, Unchanged
<1> QED BY <1>1, <1>2, <1>3, <1>4, <1>5 DEF Step

LEMMA NextInv == WithinShort /\ IInv /\ [Next]_vars => IInv'
<1> SUFFICES ASSUME WithinShort, IInv, [Next]_vars PROVE IInv'
  OBVIOUS
<1>1. CASE TickSleep \/ Shutdown \/ UNCHANGED vars
  <2>1. UNCHANGED prioVars
    BY <1>1 DEF TickSleep, Tick, Shutdown, vars, kernelVars, coreVars, prioVars
  <2> QED BY <2>1, Unchanged
<1>2. CASE Dispatch
  BY <1>2, DispatchInv
<1>3. CASE \E t \in Tasks : Step(t)
  BY <1>3, StepInv
<1> QED BY <1>1, <1>2, <1>3 DEF Next, DispatchNext

LEMMA AgeingInvariant == WithinShort => (Spec => []IInv)
<1> SUFFICES ASSUME WithinShort PROVE Spec => []IInv
  OBVIOUS
<1>1. IInv /\ [Next]_vars => IInv'
  BY NextInv
<1> QED BY <1>1, InitInv, PTL DEF Spec

(* The scheduler cannot starve a ready task nor age it without limit: at    *)
(* most N - k tasks are ever k or more below the least static priority.     *)
THEOREM AgeingBounded == WithinShort => (Spec => []AgeBound)
<1>1. IInv => AgeBound
  BY DEF IInv
<1> QED BY <1>1, AgeingInvariant, PTL

(* In particular no decrement of the short dynamic_priority underflows.     *)
THEOREM NoUnderflow ==
  WithinShort => (Spec => [](\A t \in Tasks : dynamic_priority[t] + ALPHA >= -HALF))
<1> SUFFICES ASSUME WithinShort
             PROVE  Spec => [](\A t \in Tasks : dynamic_priority[t] + ALPHA >= -HALF)
  OBVIOUS
<1>1. IInv => \A t \in Tasks : dynamic_priority[t] + ALPHA >= -HALF
  BY NoneThatLow, TasksAssumption, BelowFinite, ShortType DEF IInv, PriorityTypes, WithinShort, ALPHA
<1> QED BY <1>1, AgeingInvariant, PTL
=============================================================================
