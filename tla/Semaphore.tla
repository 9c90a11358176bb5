------------------------------ MODULE Semaphore ------------------------------
(***************************************************************************)
(* The semaphores of core/ppos_core.c over the Kernel: sem_down, sem_up,   *)
(* sem_destroy and the spin lock of enter_cs / leave_cs.  Every task runs  *)
(* its Program, a sequence of calls, over and over; the tasks exist from   *)
(* the start and never exit (module Tasks covers that part).               *)
(***************************************************************************)
EXTENDS Kernel

CONSTANTS Sems,         \* the semaphores; each is also the name of its queue, and
                        \* a module over this one may add queues of its own
          InitialValue, \* the value that sem_init gave to each
          Program,      \* for each task the calls it makes, [op, sem] records
          OtherCalls,   \* the calls that a module over this one adds
          Observed      \* the semaphore compared with its abstraction

SemLabels ==
  {"user", "down_lock", "down_load", "down_store", "down_unlock", "down_test", "sem_return",
   "up_lock", "up_load", "up_store", "up_unlock", "up_test", "up_head",
   "destroy_loop", "destroy_head"}

(* Environments, by the labels at which the quantum may end.                *)
\* The code as written.
Anywhere       == SemLabels \cup KernelLabels
\* Everywhere, inside the spin lock too, but in two windows: from the store of
\* the value in sem_down to the entry in the queue, and from the choice of the
\* task to wake to its removal.  A label does not depend on v, so that the
\* sem_downs that do not wait are not cut at their leave_cs and their test either.
HandOver       == Anywhere \ {"down_unlock", "down_test", "suspend_remove", "suspend_append",
                               "resume_remove"}
\* Outside the calls only.
OutsideCalls   == {"user"}
\* Inside task_resume after the choice of the task, inside task_suspend.
StaleWaker     == {"user", "resume_remove", "suspend_append"}

ASSUME SemaphoreAssumption ==
  /\ NULL \notin WaitQueues /\ WaitQueues \cap {"ready", "suspended", "sleeping"} = {}
  /\ Sems \subseteq WaitQueues /\ Labels = SemLabels
  /\ InitialValue \in [Sems -> Nat]
  /\ Observed \in Sems
  /\ \A t \in Tasks : /\ Program[t] \in Seq([op : {"down", "up", "destroy"} \cup OtherCalls, sem : Sems])
                      /\ Program[t] # << >>

VARIABLES
  value, lock, active, \* the fields of semaphore_t
  ip,                  \* the position of each task in its program
  v                    \* the local v of sem_down and sem_up

semVars  == <<value, lock, active>>
userVars == <<ip, v>>
vars     == <<kernelVars, semVars, userVars>>

(* The tasks of readyq exist, no semaphore has been used yet, and the       *)
(* dispatcher is about to run the first one.  sem_init sets value and       *)
(* active and leaves lock as it finds it: that it is 0 rests on every       *)
(* semaphore of the repository being in static memory.                      *)
Booted(readyq) ==
  /\ curr = Dispatcher
  /\ queues = [q \in Queues |-> IF q = "ready" THEN readyq ELSE << >>]
  /\ status = [t \in Tasks |-> "READY"]
  /\ static_priority = [t \in Tasks |-> DEFAULT_PRIORITY]
  /\ dynamic_priority = [t \in Tasks |-> DEFAULT_PRIORITY]
  /\ quantum = 0 /\ sysclock = 0
  /\ wake_up_time = [t \in Tasks |-> 0]
  /\ user_tasks_num = Len(readyq)
  /\ os = "up"
  /\ pc = [t \in Tasks |-> "user"]
  /\ back = [t \in Tasks |-> NULL]
  /\ arg_task = [t \in Tasks |-> NULL]
  /\ arg_queue = [t \in Tasks |-> NULL]
  /\ value = InitialValue
  /\ lock = [s \in Sems |-> 0]
  /\ active = [s \in Sems |-> 1]
  /\ ip = [t \in Tasks |-> 1]
  /\ v = [t \in Tasks |-> 0]

Orders(S) == {order \in [1..Cardinality(S) -> S] :
                \A i, j \in DOMAIN order : order[i] = order[j] => i = j}

(* The tasks were created in any order.                                     *)
Init == \E order \in Orders(Tasks) : Booted(order)

At(t, label) == Running(t) /\ pc[t] = label

(* The call a task is making, or makes next, and its semaphore.             *)
call(t) == Program[t][ip[t]].op
sem(t)  == Program[t][ip[t]].sem

advance(t) ==
  /\ ip' = [ip EXCEPT ![t] = IF @ = Len(Program[t]) THEN 1 ELSE @ + 1]
  /\ v' = [v EXCEPT ![t] = 0]

return(t) == Goto(t, "user") /\ advance(t)

-----------------------------------------------------------------------------
(* enter_cs and leave_cs; while the lock is taken the running task spins.   *)

\* Seeded bug: the lock is read and then written, and taken even when busy.
enter_cs_not_atomic(t, s) == lock' = [lock EXCEPT ![s] = 1]

enter_cs(t, s) == lock[s] = 0 /\ lock' = [lock EXCEPT ![s] = 1]

leave_cs(s) == lock' = [lock EXCEPT ![s] = 0]

lock_step(t, here, there) ==
  /\ At(t, here)
  /\ enter_cs(t, sem(t))
  /\ Goto(t, there)
  /\ UNCHANGED <<coreVars, argVars, value, active, userVars>>

load_step(t, here, there) ==
  /\ At(t, here)
  /\ v' = [v EXCEPT ![t] = value[sem(t)]]
  /\ Goto(t, there)
  /\ UNCHANGED <<coreVars, argVars, semVars, ip>>

store_step(t, here, there, delta) ==
  /\ At(t, here)
  /\ value' = [value EXCEPT ![sem(t)] = v[t] + delta]
  /\ v' = [v EXCEPT ![t] = @ + delta]
  /\ Goto(t, there)
  /\ UNCHANGED <<coreVars, argVars, lock, active, ip>>

unlock_step(t, here, there) ==
  /\ At(t, here)
  /\ leave_cs(sem(t))
  /\ Goto(t, there)
  /\ UNCHANGED <<coreVars, argVars, value, active, userVars>>

-----------------------------------------------------------------------------
(* sem_down and sem_up return -1 at once when the semaphore is not active.  *)
enter_call(t, op, label) ==
  /\ At(t, "user") /\ call(t) = op
  /\ \/ active[sem(t)] = 1 /\ Goto(t, label) /\ UNCHANGED userVars
     \/ active[sem(t)] = 0 /\ return(t)
  /\ UNCHANGED <<coreVars, argVars, semVars>>

sem_down(t)    == enter_call(t, "down", "down_lock")
down_lock(t)   == lock_step(t, "down_lock", "down_load")
down_load(t)   == load_step(t, "down_load", "down_store")

\* Seeded bug: the value is tested, and the task blocks, before leave_cs.
down_store_keeps_lock(t) == store_step(t, "down_store", "down_test", -1)

down_store(t)  == store_step(t, "down_store", "down_unlock", -1)
down_unlock(t) == unlock_step(t, "down_unlock", "down_test")

\* Seeded bug: one permit too many is granted.
must_wait_below_zero(t) == v[t] < -1

must_wait(t) == v[t] < 0

down_test(t) ==
  /\ At(t, "down_test")
  /\ \/ must_wait(t) /\ call_suspend(t, sem(t), "sem_return") /\ UNCHANGED userVars
     \/ ~must_wait(t) /\ return(t) /\ UNCHANGED argVars
  /\ UNCHANGED <<coreVars, semVars>>

(* The rest of sem_down after task_suspend. *)
sem_return(t) ==
  /\ At(t, "sem_return")
  /\ return(t)
  /\ UNCHANGED <<coreVars, argVars, semVars>>

-----------------------------------------------------------------------------
sem_up(t)    == enter_call(t, "up", "up_lock")
up_lock(t)   == lock_step(t, "up_lock", "up_load")
up_load(t)   == load_step(t, "up_load", "up_store")
up_store(t)  == store_step(t, "up_store", "up_unlock", 1)
up_unlock(t) == unlock_step(t, "up_unlock", "up_test")

\* Seeded bug: an off-by-one, the last waiter is not woken.
someone_waits_strict(t) == v[t] < 0

\* Seeded bug: the value is not looked at, only the queue.
someone_waits_unchecked(t) == TRUE

someone_waits(t) == v[t] <= 0

up_test(t) ==
  /\ At(t, "up_test")
  /\ \/ /\ someone_waits(t) /\ queues[sem(t)] # << >>
        /\ Goto(t, "up_head") /\ UNCHANGED userVars
     \/ /\ ~(someone_waits(t) /\ queues[sem(t)] # << >>)
        /\ return(t)
  /\ UNCHANGED <<coreVars, argVars, semVars>>

(* task_resume(s->queue, &s->queue): s->queue is read a second time, after  *)
(* the test.                                                                *)
head_of(s) == IF queues[s] = << >> THEN NULL ELSE Head(queues[s])

resume_head(t, label) ==
  /\ call_resume(t, head_of(sem(t)), sem(t), label)
  /\ UNCHANGED <<curr, queues, status, prioVars, timeVars, user_tasks_num, semVars, userVars>>

up_head(t) == At(t, "up_head") /\ resume_head(t, "sem_return")

-----------------------------------------------------------------------------
sem_destroy(t) ==
  /\ At(t, "user") /\ call(t) = "destroy"
  /\ \/ /\ active[sem(t)] = 1
        /\ active' = [active EXCEPT ![sem(t)] = 0]
        /\ Goto(t, "destroy_loop") /\ UNCHANGED userVars
     \/ active[sem(t)] = 0 /\ return(t) /\ UNCHANGED active
  /\ UNCHANGED <<coreVars, argVars, value, lock>>

\* Seeded bug: sem_destroy wakes one of the blocked tasks only.
destroy_once(t) ==
  /\ At(t, "destroy_loop")
  /\ \/ queues[sem(t)] # << >> /\ v[t] = 0 /\ Goto(t, "destroy_head") /\ v' = [v EXCEPT ![t] = 1]
        /\ UNCHANGED ip
     \/ (queues[sem(t)] = << >> \/ v[t] = 1) /\ return(t)
  /\ UNCHANGED <<coreVars, argVars, semVars>>

destroy_loop(t) ==
  /\ At(t, "destroy_loop")
  /\ \/ queues[sem(t)] # << >> /\ Goto(t, "destroy_head") /\ UNCHANGED userVars
     \/ queues[sem(t)] = << >> /\ return(t)
  /\ UNCHANGED <<coreVars, argVars, semVars>>

destroy_head(t) == At(t, "destroy_head") /\ resume_head(t, "destroy_loop")

-----------------------------------------------------------------------------
Step(t) ==
  \/ sem_down(t) \/ down_lock(t) \/ down_load(t) \/ down_store(t) \/ down_unlock(t)
  \/ down_test(t) \/ sem_return(t)
  \/ sem_up(t) \/ up_lock(t) \/ up_load(t) \/ up_store(t) \/ up_unlock(t)
  \/ up_test(t) \/ up_head(t)
  \/ sem_destroy(t) \/ destroy_loop(t) \/ destroy_head(t)
  \/ SuspendResume(t) /\ UNCHANGED <<semVars, userVars>>

System == (Tick \/ Dispatch) /\ UNCHANGED <<semVars, userVars>>

Next == System \/ \E t \in Tasks : Step(t)

Spec == Init /\ [][Next]_vars

-----------------------------------------------------------------------------
(* Properties *)

TypeOK ==
  /\ KernelTypeOK
  /\ status \in [Tasks -> {"READY", "RUNNING", "SUSPENDED"}]
  /\ value \in [Sems -> Int]
  /\ lock \in [Sems -> {0, 1}]
  /\ active \in [Sems -> {0, 1}]
  /\ ip \in [Tasks -> Nat] /\ \A t \in Tasks : ip[t] \in 1..Len(Program[t])
  /\ v \in [Tasks -> Int]

(* A task is inside the section that s guards between the return of its     *)
(* sem_down(s) and its call of sem_up(s), also while it is in a call on     *)
(* another semaphore.                                                       *)
Inside(t, s) ==
  /\ pc[t] = "user" \/ sem(t) # s
  /\ \E i \in 1..(ip[t]-1) :
       /\ Program[t][i] = [op |-> "down", sem |-> s]
       /\ \A j \in i..(ip[t]-1) : Program[t][j] # [op |-> "up", sem |-> s]

(* At most InitialValue[s] tasks are inside the section of s, until it is   *)
(* destroyed: lost wake-ups may leave a permit unused, they never make one. *)
PermitsRespected ==
  \A s \in Sems : active[s] = 1 =>
    Cardinality({t \in Tasks : Inside(t, s)}) <= InitialValue[s]

(* The same for the semaphores that are used as a mutex.                    *)
MutualExclusion ==
  \A s \in Sems : active[s] = 1 /\ InitialValue[s] = 1 =>
    \A t, u \in Tasks : Inside(t, s) /\ Inside(u, s) => t = u

(* The spin lock of a semaphore covers the update of its value.             *)
InLock(t, s) ==
  /\ sem(t) = s
  /\ pc[t] \in {"down_load", "down_store", "down_unlock", "up_load", "up_store", "up_unlock"}

LockCovers == \A s \in Sems : \A t, u \in Tasks : InLock(t, s) /\ InLock(u, s) => t = u

(* Nobody blocks inside the spin lock: while it is taken, the task that has *)
(* taken it is there and in the ready queue, so that those who spin wait    *)
(* for nothing but the scheduler, wherever the tasks are preempted.         *)
LockHolderRuns ==
  \A s \in Sems : lock[s] = 1 =>
    \E t \in Tasks : InLock(t, s) /\ Contains(queues["ready"], t)

(* A task that waits for a semaphore has somebody to wake it: the value is  *)
(* negative, or a sem_up that will look at the queue is under way.          *)
WakingUp(t, s) ==
  /\ sem(t) = s /\ call(t) = "up" /\ v[t] <= 0
  /\ pc[t] \in {"up_unlock", "up_test", "up_head", "resume_remove"}

NoLostWakeup ==
  \A s \in Sems : queues[s] # << >> /\ value[s] >= 0 => \E t \in Tasks : WakingUp(t, s)

(* sem_up never hands a null task to task_resume, which ends the process.   *)
NoNullResume == os # "NULL_PTR_ERROR"

(* Nobody stays blocked on a semaphore once its sem_destroy is over.        *)
Destroying(t, s) == call(t) = "destroy" /\ sem(t) = s /\ pc[t] # "user"

DestroyReleases ==
  \A s \in Sems : active[s] = 0 /\ queues[s] # << >> => \E t \in Tasks : Destroying(t, s)

(* The abstract semaphore.  A task that calls sem_down holds a permit once  *)
(* it has decremented a positive value, or once it has left the queue; a    *)
(* task that calls sem_up holds its permit until it has incremented the     *)
(* value.  The permits promised to the line are those of the sem_up calls   *)
(* that are going to look at the queue.                                     *)
Granted(t, s) ==
  /\ sem(t) = s /\ call(t) = "down"
  /\ \/ pc[t] \in {"down_unlock", "down_test"} /\ v[t] >= 0
     \/ pc[t] \in {"suspend_switch", "sem_return"} /\ ~Contains(queues[s], t)

NotGivenBack(t, s) ==
  sem(t) = s /\ call(t) = "up" /\ pc[t] \in {"up_lock", "up_load", "up_store"}

Abs == INSTANCE AbsSemaphore
         WITH Permits  <- InitialValue[Observed],
              permits  <- IF value[Observed] > 0 THEN value[Observed] ELSE 0,
              promised <- Cardinality({t \in Tasks : WakingUp(t, Observed)}),
              holding  <- {t \in Tasks : \/ Inside(t, Observed) \/ Granted(t, Observed)
                                         \/ NotGivenBack(t, Observed)},
              line     <- queues[Observed]

(* When the quantum does not end in the two windows (HandOver) the code     *)
(* implements the abstract semaphore.                                       *)
ImplementsSemaphore == Abs!Spec
=============================================================================
