--------------------------- MODULE SemaphoreProofs ---------------------------
(***************************************************************************)
(* What holds of the semaphores whatever the programs of the tasks are and *)
(* wherever the quantum ends: the types, the queues, the arguments of the  *)
(* calls of task_suspend and task_resume that are under way, and the spin  *)
(* lock around the value.  SemInv is inductive; each lemma below shows     *)
(* that one group of steps preserves it.  The second part is about         *)
(* sem_destroy, the third about semaphores that are used as mutexes.       *)
(***************************************************************************)
EXTENDS Semaphore, KernelProofs, FiniteSetTheorems

(* A task inside task_suspend or task_resume comes back to the call that it *)
(* is making, and that call has given it a queue: the calls on a semaphore  *)
(* that of the semaphore.                                                   *)
Frame(t) ==
  /\ pc[t] \in KernelLabels => back[t] \in {"sem_return", "destroy_loop"}
  /\ pc[t] \in KernelLabels \ {"suspend_switch"} =>
       /\ arg_queue[t] \in WaitQueues
       /\ call(t) \in {"down", "up", "destroy"} => arg_queue[t] = sem(t)
  /\ pc[t] \in {"resume_remove", "resume_append"} => arg_task[t] \in Tasks

(* Who is inside the lock of s is alone there, and the lock is taken.       *)
LockInv ==
  \A s \in Sems : \A t \in Tasks :
    InLock(t, s) => lock[s] = 1 /\ \A u \in Tasks : InLock(u, s) => t = u

SemInv ==
  /\ TypeOK /\ QueuesOK
  /\ queues["sleeping"] = << >> /\ queues["suspended"] = << >>
  /\ \A t \in Tasks : Frame(t)
  /\ LockInv

-----------------------------------------------------------------------------
(* The position in the program, the call and its semaphore.                 *)
LEMMA CallTypes ==
  ASSUME TypeOK, NEW t \in Tasks
  PROVE  /\ sem(t) \in Sems /\ sem(t) \in Queues /\ ip[t] \in 1..Len(Program[t])
         /\ Len(Program[t]) \in Nat \ {0}
         /\ sem(t) # "ready"
<1>1. Program[t] \in Seq([op : {"down", "up", "destroy"} \cup OtherCalls, sem : Sems])
  BY SemaphoreAssumption
<1>2. ip[t] \in 1..Len(Program[t])
  BY DEF TypeOK
<1>3. Program[t][ip[t]] \in [op : {"down", "up", "destroy"} \cup OtherCalls, sem : Sems]
  BY <1>1, <1>2, ElementOfSeq
<1>4. Len(Program[t]) \in Nat
  BY <1>1, LenProperties
<1> QED BY <1>2, <1>3, <1>4, SemaphoreAssumption DEF sem, Queues

LEMMA AdvanceTypes ==
  ASSUME TypeOK, NEW t \in Tasks, advance(t)
  PROVE  /\ ip' \in [Tasks -> Nat] /\ \A u \in Tasks : ip'[u] \in 1..Len(Program[u])
         /\ v' \in [Tasks -> Int] /\ v'[t] = 0
         /\ \A u \in Tasks : u # t => ip'[u] = ip[u] /\ v'[u] = v[u]
<1>1. Len(Program[t]) \in Nat \ {0} /\ ip[t] \in 1..Len(Program[t])
  BY CallTypes
<1>2. (IF ip[t] = Len(Program[t]) THEN 1 ELSE ip[t] + 1) \in 1..Len(Program[t])
  BY <1>1
<1> QED BY <1>2 DEF advance, TypeOK

(* What a step of t leaves to the others.                                   *)
Moves(t) ==
  \A u \in Tasks : u # t =>
    /\ pc'[u] = pc[u] /\ back'[u] = back[u]
    /\ arg_task'[u] = arg_task[u] /\ arg_queue'[u] = arg_queue[u]
    /\ ip'[u] = ip[u] /\ v'[u] = v[u]

(* What a step of t does to the spin locks.                                 *)
LockMoves(t) ==
  \A s \in Sems :
    /\ InLock(t, s)' => lock'[s] = 1 /\ (InLock(t, s) \/ lock[s] = 0)
    /\ lock'[s] = lock[s] \/ lock'[s] = 1 \/ InLock(t, s)

LEMMA CallKept ==
  ASSUME NEW u \in Tasks, ip'[u] = ip[u]
  PROVE  call(u)' = call(u) /\ sem(u)' = sem(u)
BY DEF call, sem

(* The frames and the lock after a step of t.                               *)
LEMMA FramesAfter ==
  ASSUME SemInv, NEW t \in Tasks, Moves(t), Frame(t)'
  PROVE  \A u \in Tasks : Frame(u)'
<1> SUFFICES ASSUME NEW u \in Tasks, u # t PROVE Frame(u)'
  OBVIOUS
<1>1. Frame(u) /\ sem(u)' = sem(u) /\ call(u)' = call(u)
  BY CallKept DEF SemInv, Moves
<1> QED BY <1>1 DEF Frame, Moves

LEMMA LockAfter ==
  ASSUME SemInv, NEW t \in Tasks, Moves(t),
         LockMoves(t)
  PROVE  LockInv'
<1> SUFFICES ASSUME NEW s \in Sems, NEW u \in Tasks, InLock(u, s)'
             PROVE  lock'[s] = 1 /\ \A w \in Tasks : InLock(w, s)' => u = w
  BY DEF LockInv
<1>1. \A w \in Tasks : w # t => (InLock(w, s)' <=> InLock(w, s))
  BY CallKept DEF Moves, InLock
<1>2. \A w, x \in Tasks : InLock(w, s) /\ InLock(x, s) => w = x /\ lock[s] = 1
  BY DEF SemInv, LockInv
<1>3. CASE u = t
  BY <1>1, <1>2, <1>3 DEF LockMoves
<1>4. CASE u # t
  <2>1. InLock(u, s) /\ lock[s] = 1 /\ ~InLock(t, s)
    BY <1>1, <1>2, <1>4
  <2> QED BY <2>1, <1>1, <1>2 DEF LockMoves
<1> QED BY <1>3, <1>4

-----------------------------------------------------------------------------
(* A step of t that stays out of the queues.                                *)
LEMMA Quiet ==
  ASSUME SemInv, NEW t \in Tasks, Moves(t), TypeOK', Frame(t)', queues' = queues,
         LockMoves(t)
  PROVE  SemInv'
<1>1. QueuesOK' /\ queues'["sleeping"] = << >> /\ queues'["suspended"] = << >>
  BY DEF SemInv, QueuesOK, In
<1>2. (\A u \in Tasks : Frame(u)') /\ LockInv'
  BY FramesAfter, LockAfter
<1> QED BY <1>1, <1>2 DEF SemInv

LEMMA GotoTypes ==
  ASSUME TypeOK, NEW t \in Tasks, NEW l \in SemLabels \cup KernelLabels, Goto(t, l)
  PROVE  /\ pc' \in [Tasks -> Labels \cup KernelLabels] /\ pc'[t] = l
         /\ \A u \in Tasks : u # t => pc'[u] = pc[u]
BY SemaphoreAssumption DEF Goto, TypeOK, KernelTypeOK

(* One lemma for the steps of each kind.                                    *)
LEMMA LockSteps ==
  ASSUME SemInv, NEW t \in Tasks, down_lock(t) \/ up_lock(t)
  PROVE  SemInv'
<1> DEFINE l == pc'[t]
<1>1. /\ pc[t] \in {"down_lock", "up_lock"} /\ l \in {"down_load", "up_load"}
      /\ enter_cs(t, sem(t)) /\ Goto(t, l) /\ UNCHANGED <<coreVars, argVars, value, active, userVars>>
  BY DEF down_lock, up_lock, lock_step, At, Goto, SemInv, TypeOK, KernelTypeOK
<1> HIDE DEF l
<1>2. l \in SemLabels \cup KernelLabels
  BY <1>1 DEF SemLabels
<1>3. /\ pc' \in [Tasks -> Labels \cup KernelLabels] /\ pc'[t] = l
      /\ \A u \in Tasks : u # t => pc'[u] = pc[u]
  BY <1>1, <1>2, GotoTypes DEF SemInv
<1>4. sem(t) \in Sems
  BY CallTypes DEF SemInv
<1>5. lock' = [lock EXCEPT ![sem(t)] = 1] /\ lock[sem(t)] = 0
  BY <1>1 DEF enter_cs
<1>6. TypeOK'
  BY <1>1, <1>3, <1>5 DEF SemInv, TypeOK, KernelTypeOK, coreVars, prioVars, timeVars, argVars, userVars
<1>7. Moves(t) /\ queues' = queues /\ sem(t)' = sem(t)
  BY <1>1, <1>3, CallKept DEF Moves, coreVars, prioVars, timeVars, argVars, userVars
<1>8. Frame(t)'
  BY <1>1, <1>3 DEF Frame, KernelLabels
<1>9. LockMoves(t)
  BY <1>4, <1>5, <1>7 DEF LockMoves, InLock, SemInv, TypeOK
<1> QED BY <1>6, <1>7, <1>8, <1>9, Quiet

LEMMA OutsideLock ==
  ASSUME NEW t \in Tasks, lock' = lock,
         pc'[t] \notin {"down_load", "down_store", "down_unlock",
                       "up_load", "up_store", "up_unlock"}
  PROVE  LockMoves(t)
BY DEF LockMoves, InLock

LEMMA InsideLock ==
  ASSUME SemInv, NEW t \in Tasks, ip'[t] = ip[t],
         pc[t] \in {"down_load", "down_store", "up_load", "up_store"}, lock' = lock
  PROVE  LockMoves(t)
<1>1. sem(t)' = sem(t) /\ sem(t) \in Sems
  BY CallTypes, CallKept DEF SemInv
<1>2. InLock(t, sem(t)) /\ lock[sem(t)] = 1
  BY <1>1 DEF InLock, SemInv, LockInv
<1> QED BY <1>1, <1>2 DEF LockMoves, InLock

LEMMA LoadSteps ==
  ASSUME SemInv, NEW t \in Tasks, down_load(t) \/ up_load(t)
  PROVE  SemInv'
<1> DEFINE l == pc'[t]
<1>1. /\ pc[t] \in {"down_load", "up_load"} /\ l \in {"down_store", "up_store"}
      /\ v' = [v EXCEPT ![t] = value[sem(t)]] /\ Goto(t, l)
      /\ UNCHANGED <<coreVars, argVars, semVars, ip>>
  BY DEF down_load, up_load, load_step, At, Goto, SemInv, TypeOK, KernelTypeOK
<1> HIDE DEF l
<1>2. l \in SemLabels \cup KernelLabels
  BY <1>1 DEF SemLabels
<1>3. /\ pc' \in [Tasks -> Labels \cup KernelLabels] /\ pc'[t] = l
      /\ \A u \in Tasks : u # t => pc'[u] = pc[u]
  BY <1>1, <1>2, GotoTypes DEF SemInv
<1>4. sem(t) \in Sems
  BY CallTypes DEF SemInv
<1>5. TypeOK'
  BY <1>1, <1>3, <1>4 DEF SemInv, TypeOK, KernelTypeOK, coreVars, prioVars, timeVars, argVars, semVars
<1>6. Moves(t) /\ queues' = queues /\ lock' = lock /\ ip'[t] = ip[t]
  BY <1>1, <1>3 DEF Moves, coreVars, prioVars, timeVars, argVars, semVars, SemInv, TypeOK
<1>7. Frame(t)'
  BY <1>1, <1>3 DEF Frame, KernelLabels
<1>8. LockMoves(t)
  BY <1>1, <1>6, InsideLock
<1> QED BY <1>5, <1>6, <1>7, <1>8, Quiet

LEMMA StoreSteps ==
  ASSUME SemInv, NEW t \in Tasks, down_store(t) \/ up_store(t)
  PROVE  SemInv'
<1> DEFINE l == pc'[t]
<1>1. PICK delta \in {-1, 1} :
        /\ pc[t] \in {"down_store", "up_store"} /\ l \in {"down_unlock", "up_unlock"}
        /\ value' = [value EXCEPT ![sem(t)] = v[t] + delta]
        /\ v' = [v EXCEPT ![t] = v[t] + delta] /\ Goto(t, l)
        /\ UNCHANGED <<coreVars, argVars, lock, active, ip>>
  BY DEF down_store, up_store, store_step, At, Goto, SemInv, TypeOK, KernelTypeOK
<1> HIDE DEF l
<1>2. l \in SemLabels \cup KernelLabels
  BY <1>1 DEF SemLabels
<1>3. /\ pc' \in [Tasks -> Labels \cup KernelLabels] /\ pc'[t] = l
      /\ \A u \in Tasks : u # t => pc'[u] = pc[u]
  BY <1>1, <1>2, GotoTypes DEF SemInv
<1>4. sem(t) \in Sems
  BY CallTypes DEF SemInv
<1>5. TypeOK'
  <2>1. v[t] + delta \in Int
    BY <1>1 DEF SemInv, TypeOK
  <2>2. value' \in [Sems -> Int] /\ v' \in [Tasks -> Int]
    BY <1>1, <1>4, <2>1 DEF SemInv, TypeOK
  <2> QED BY <1>1, <1>3, <2>2
        DEF SemInv, TypeOK, KernelTypeOK, coreVars, prioVars, timeVars, argVars
<1>6. Moves(t) /\ queues' = queues /\ lock' = lock /\ ip'[t] = ip[t]
  BY <1>1, <1>3 DEF Moves, coreVars, prioVars, timeVars, argVars, SemInv, TypeOK
<1>7. Frame(t)'
  BY <1>1, <1>3 DEF Frame, KernelLabels
<1>8. LockMoves(t)
  BY <1>1, <1>6, InsideLock
<1> QED BY <1>5, <1>6, <1>7, <1>8, Quiet

LEMMA UnlockSteps ==
  ASSUME SemInv, NEW t \in Tasks, down_unlock(t) \/ up_unlock(t)
  PROVE  SemInv'
<1> DEFINE l == pc'[t]
<1>1. /\ pc[t] \in {"down_unlock", "up_unlock"} /\ l \in {"down_test", "up_test"}
      /\ lock' = [lock EXCEPT ![sem(t)] = 0] /\ Goto(t, l)
      /\ UNCHANGED <<coreVars, argVars, value, active, userVars>>
  BY DEF down_unlock, up_unlock, unlock_step, leave_cs, At, Goto, SemInv, TypeOK, KernelTypeOK
<1> HIDE DEF l
<1>2. l \in SemLabels \cup KernelLabels
  BY <1>1 DEF SemLabels
<1>3. /\ pc' \in [Tasks -> Labels \cup KernelLabels] /\ pc'[t] = l
      /\ \A u \in Tasks : u # t => pc'[u] = pc[u]
  BY <1>1, <1>2, GotoTypes DEF SemInv
<1>4. sem(t) \in Sems
  BY CallTypes DEF SemInv
<1>5. TypeOK'
  BY <1>1, <1>3, <1>4 DEF SemInv, TypeOK, KernelTypeOK, coreVars, prioVars, timeVars, argVars, userVars
<1>6. Moves(t) /\ queues' = queues
  BY <1>1, <1>3 DEF Moves, coreVars, prioVars, timeVars, argVars, userVars, SemInv, TypeOK
<1>7. Frame(t)'
  BY <1>1, <1>3 DEF Frame, KernelLabels
<1>8. LockMoves(t)
  <2>1. InLock(t, sem(t))
    BY <1>1 DEF InLock
  <2>2. \A s \in Sems : ~InLock(t, s)'
    BY <1>1, <1>3 DEF InLock
  <2>3. \A s \in Sems : s # sem(t) => lock'[s] = lock[s]
    BY <1>1 DEF SemInv, TypeOK
  <2> QED BY <2>1, <2>2, <2>3 DEF LockMoves
<1> QED BY <1>5, <1>6, <1>7, <1>8, Quiet

(* return -1, return 0, and a call that goes on with its second step.       *)
LEMMA ReturnStep ==
  ASSUME SemInv, NEW t \in Tasks, return(t), active' \in [Sems -> {0, 1}],
         UNCHANGED <<coreVars, argVars, value, lock>>
  PROVE  SemInv'
<1>1. /\ pc' \in [Tasks -> Labels \cup KernelLabels] /\ pc'[t] = "user"
      /\ \A u \in Tasks : u # t => pc'[u] = pc[u]
  BY GotoTypes DEF SemInv, return, SemLabels
<1>2. /\ ip' \in [Tasks -> Nat] /\ \A u \in Tasks : ip'[u] \in 1..Len(Program[u])
      /\ v' \in [Tasks -> Int] /\ v'[t] = 0
      /\ \A u \in Tasks : u # t => ip'[u] = ip[u] /\ v'[u] = v[u]
  BY AdvanceTypes DEF SemInv, return
<1>3. TypeOK'
  BY <1>1, <1>2 DEF SemInv, TypeOK, KernelTypeOK, coreVars, prioVars, timeVars, argVars
<1>4. Moves(t) /\ queues' = queues /\ lock' = lock
  BY <1>1, <1>2 DEF Moves, coreVars, argVars
<1>5. Frame(t)'
  BY <1>1 DEF Frame, KernelLabels
<1>6. LockMoves(t)
  BY <1>1, <1>4, OutsideLock
<1> QED BY <1>3, <1>4, <1>5, <1>6, Quiet

LEMMA GoOnStep ==
  ASSUME SemInv, NEW t \in Tasks, NEW l \in {"down_lock", "up_lock", "up_head", "destroy_loop", "destroy_head"},
         Goto(t, l), active' \in [Sems -> {0, 1}],
         UNCHANGED <<coreVars, argVars, value, lock, userVars>>
  PROVE  SemInv'
<1>1. /\ pc' \in [Tasks -> Labels \cup KernelLabels] /\ pc'[t] = l
      /\ \A u \in Tasks : u # t => pc'[u] = pc[u]
  BY GotoTypes DEF SemInv, SemLabels
<1>2. TypeOK'
  BY <1>1 DEF SemInv, TypeOK, KernelTypeOK, coreVars, prioVars, timeVars, argVars, userVars
<1>3. Moves(t) /\ queues' = queues /\ lock' = lock
  BY <1>1 DEF Moves, coreVars, argVars, userVars
<1>4. Frame(t)'
  BY <1>1 DEF Frame, KernelLabels
<1>5. LockMoves(t)
  BY <1>1, <1>3, OutsideLock
<1> QED BY <1>2, <1>3, <1>4, <1>5, Quiet

(* The steps that return or go on.                                          *)
LEMMA BranchSteps ==
  ASSUME SemInv, NEW t \in Tasks,
         \/ sem_down(t) \/ sem_up(t) \/ sem_destroy(t)
         \/ sem_return(t) \/ up_test(t) \/ destroy_loop(t)
  PROVE  SemInv'
<1>1. CASE return(t) /\ active' = active /\ UNCHANGED <<coreVars, argVars, value, lock>>
  BY <1>1, ReturnStep DEF SemInv, TypeOK
<1>2. CASE /\ \E l \in {"down_lock", "up_lock", "up_head", "destroy_loop", "destroy_head"} : Goto(t, l)
           /\ active' \in [Sems -> {0, 1}] /\ UNCHANGED <<coreVars, argVars, value, lock, userVars>>
  BY <1>2, GoOnStep
<1>3. active \in [Sems -> {0, 1}] /\ [active EXCEPT ![sem(t)] = 0] \in [Sems -> {0, 1}]
  BY DEF SemInv, TypeOK
<1> QED BY <1>1, <1>2, <1>3 DEF sem_down, sem_up, enter_call, sem_destroy, sem_return, up_test,
                                destroy_loop, semVars

(* The calls of task_suspend and of task_resume.                            *)
LEMMA TestStep ==
  ASSUME SemInv, NEW t \in Tasks, down_test(t)
  PROVE  SemInv'
<1>1. CASE return(t) /\ UNCHANGED <<coreVars, argVars, semVars>>
  BY <1>1, ReturnStep DEF SemInv, TypeOK, semVars
<1>2. CASE /\ call_suspend(t, sem(t), "sem_return")
           /\ UNCHANGED <<coreVars, semVars, userVars>>
  <2>1. /\ pc' \in [Tasks -> Labels \cup KernelLabels] /\ pc'[t] = "suspend_remove"
        /\ \A u \in Tasks : u # t => pc'[u] = pc[u]
    BY <1>2, GotoTypes DEF SemInv, call_suspend, KernelLabels
  <2>2. sem(t) \in Queues /\ "sem_return" \in Labels
    BY CallTypes, SemaphoreAssumption DEF SemInv, SemLabels
  <2>3. /\ arg_queue' = [arg_queue EXCEPT ![t] = sem(t)]
        /\ back' = [back EXCEPT ![t] = "sem_return"] /\ arg_task' = arg_task
    BY <1>2 DEF call_suspend
  <2>4. TypeOK'
    BY <1>2, <2>1, <2>2, <2>3
       DEF SemInv, TypeOK, KernelTypeOK, coreVars, prioVars, timeVars, semVars, userVars
  <2>5. Moves(t) /\ queues' = queues /\ lock' = lock /\ ip' = ip
    BY <1>2, <2>1, <2>3 DEF Moves, coreVars, semVars, userVars, SemInv, TypeOK, KernelTypeOK
  <2>6. Frame(t)'
    BY <2>1, <2>3, <2>5, CallKept, CallTypes, SemaphoreAssumption
       DEF Frame, KernelLabels, SemInv, TypeOK, KernelTypeOK
  <2>7. LockMoves(t)
    BY <2>1, <2>5, OutsideLock
  <2> QED BY <2>4, <2>5, <2>6, <2>7, Quiet
<1> QED BY <1>1, <1>2 DEF down_test, argVars

LEMMA HeadSteps ==
  ASSUME SemInv, NEW t \in Tasks, up_head(t) \/ destroy_head(t)
  PROVE  SemInv'
<1>1. PICK label \in {"sem_return", "destroy_loop"} :
        /\ call_resume(t, head_of(sem(t)), sem(t), label)
        /\ UNCHANGED <<curr, queues, status, prioVars, timeVars, user_tasks_num, semVars, userVars>>
        /\ pc[t] \in {"up_head", "destroy_head"}
  BY DEF up_head, destroy_head, resume_head, At
<1>2. CASE head_of(sem(t)) = NULL
  <2>1. os' = "NULL_PTR_ERROR" /\ UNCHANGED frameVars
    BY <1>1, <1>2 DEF call_resume
  <2>2. TypeOK'
    BY <1>1, <2>1 DEF SemInv, TypeOK, KernelTypeOK, prioVars, timeVars, frameVars, argVars, semVars, userVars
  <2>3. Moves(t) /\ queues' = queues /\ lock' = lock /\ ip' = ip /\ pc' = pc
    BY <1>1, <2>1 DEF Moves, frameVars, argVars, semVars, userVars
  <2>4. Frame(t)'
    BY <1>1, <2>3 DEF Frame, KernelLabels
  <2>5. LockMoves(t)
    BY <1>1, <2>3, OutsideLock
  <2> QED BY <2>2, <2>3, <2>4, <2>5, Quiet
<1>3. CASE head_of(sem(t)) # NULL
  <2> DEFINE x == head_of(sem(t))
  <2>1. sem(t) \in Queues /\ sem(t) \in Sems /\ label \in Labels
    BY CallTypes, SemaphoreAssumption DEF SemInv, SemLabels
  <2>2. x \in Tasks
    <3>1. queues[sem(t)] # << >> /\ x = Head(queues[sem(t)])
      BY <1>3 DEF head_of
    <3> QED BY <2>1, <3>1, HeadIn DEF SemInv
  <2> HIDE DEF x
  <2>3. /\ Goto(t, "resume_remove") /\ os' = os
        /\ arg_task' = [arg_task EXCEPT ![t] = x]
        /\ arg_queue' = [arg_queue EXCEPT ![t] = sem(t)]
        /\ back' = [back EXCEPT ![t] = label]
    BY <1>1, <1>3 DEF call_resume, x
  <2>4. /\ pc' \in [Tasks -> Labels \cup KernelLabels] /\ pc'[t] = "resume_remove"
        /\ \A u \in Tasks : u # t => pc'[u] = pc[u]
    BY <2>3, GotoTypes DEF SemInv, KernelLabels
  <2>5. TypeOK'
    BY <1>1, <2>1, <2>2, <2>3, <2>4
       DEF SemInv, TypeOK, KernelTypeOK, prioVars, timeVars, semVars, userVars
  <2>6. Moves(t) /\ queues' = queues /\ lock' = lock /\ ip' = ip
    BY <1>1, <2>3, <2>4 DEF Moves, semVars, userVars, SemInv, TypeOK, KernelTypeOK
  <2>7. Frame(t)'
    BY <2>1, <2>2, <2>3, <2>4, <2>6, CallKept, SemaphoreAssumption
       DEF Frame, KernelLabels, SemInv, TypeOK, KernelTypeOK
  <2>8. LockMoves(t)
    BY <2>4, <2>6, OutsideLock
  <2> QED BY <2>5, <2>6, <2>7, <2>8, Quiet
<1> QED BY <1>2, <1>3

-----------------------------------------------------------------------------
(* The steps of task_suspend and task_resume.                               *)

(* A step of t that changes the ready queue and those of the semaphores.    *)
LEMMA QueueStep ==
  ASSUME SemInv, NEW t \in Tasks, Moves(t), TypeOK', Frame(t)',
         QueuesOK', queues'["sleeping"] = queues["sleeping"],
         queues'["suspended"] = queues["suspended"],
         lock' = lock, pc'[t] \in {"sem_return", "destroy_loop", "suspend_append", "suspend_switch", "resume_append"}
  PROVE  SemInv'
<1>1. LockMoves(t)
  BY OutsideLock
<1>2. (\A u \in Tasks : Frame(u)') /\ LockInv'
  BY <1>1, FramesAfter, LockAfter
<1> QED BY <1>2 DEF SemInv

LEMMA KernelSteps ==
  ASSUME SemInv, NEW t \in Tasks, SuspendResume(t), UNCHANGED <<semVars, userVars>>
  PROVE  SemInv'
<1> USE SemaphoreAssumption
<1>0. /\ "ready" \in Queues /\ "sleeping" \in Queues /\ "suspended" \in Queues
      /\ \A q \in WaitQueues : q \in Queues /\ q \notin {"sleeping", "suspended"}
      /\ lock' = lock /\ ip' = ip /\ v' = v /\ sem(t)' = sem(t) /\ call(t)' = call(t)
  BY CallKept DEF SemInv, Queues, semVars, userVars
<1>1. CASE suspend_remove(t)
  <2>1. /\ pc[t] = "suspend_remove" /\ queue_remove("ready", t) /\ Goto(t, "suspend_append")
        /\ UNCHANGED <<curr, status, prioVars, timeVars, user_tasks_num, os, argVars>>
    BY <1>1 DEF suspend_remove
  <2>2. /\ pc' \in [Tasks -> Labels \cup KernelLabels] /\ pc'[t] = "suspend_append"
        /\ \A u \in Tasks : u # t => pc'[u] = pc[u]
    BY <2>1, GotoTypes DEF SemInv, KernelLabels
  <2>3. QueuesOK'
    BY <1>0, <2>1, RemoveMembers DEF SemInv
  <2>4. queues'["sleeping"] = queues["sleeping"] /\ queues'["suspended"] = queues["suspended"]
    BY <1>0, <2>1 DEF queue_remove, SemInv, QueuesOK
  <2>5. TypeOK'
    BY <2>1, <2>2, <2>3 DEF SemInv, TypeOK, KernelTypeOK, QueuesOK, prioVars, timeVars, argVars, semVars, userVars
  <2>6. Moves(t)
    BY <1>0, <2>1, <2>2 DEF Moves, argVars
  <2>7. Frame(t)'
    BY <1>0, <2>1, <2>2 DEF Frame, KernelLabels, argVars, SemInv
  <2> QED BY <1>0, <2>2, <2>3, <2>4, <2>5, <2>6, <2>7, QueueStep
<1>2. CASE suspend_append(t)
  <2>1. /\ pc[t] = "suspend_append" /\ queue_append(arg_queue[t], t) /\ arg_queue[t] \in WaitQueues /\ Goto(t, "suspend_switch")
        /\ status' = [status EXCEPT ![t] = "SUSPENDED"]
        /\ UNCHANGED <<curr, prioVars, timeVars, user_tasks_num, os, argVars>>
    BY <1>2 DEF suspend_append, SemInv, Frame, KernelLabels
  <2>2. /\ pc' \in [Tasks -> Labels \cup KernelLabels] /\ pc'[t] = "suspend_switch"
        /\ \A u \in Tasks : u # t => pc'[u] = pc[u]
    BY <2>1, GotoTypes DEF SemInv, KernelLabels
  <2>3. QueuesOK'
    BY <1>0, <2>1, AppendMembers DEF SemInv
  <2>4. queues'["sleeping"] = queues["sleeping"] /\ queues'["suspended"] = queues["suspended"]
    BY <1>0, <2>1 DEF queue_append, SemInv, QueuesOK
  <2>5. TypeOK'
    BY <2>1, <2>2, <2>3 DEF SemInv, TypeOK, KernelTypeOK, QueuesOK, prioVars, timeVars, argVars, semVars, userVars
  <2>6. Moves(t)
    BY <1>0, <2>1, <2>2 DEF Moves, argVars
  <2>7. Frame(t)'
    BY <1>0, <2>1, <2>2 DEF Frame, KernelLabels, argVars, SemInv
  <2> QED BY <1>0, <2>2, <2>3, <2>4, <2>5, <2>6, <2>7, QueueStep
<1>3. CASE suspend_switch(t)
  <2>1. /\ pc[t] = "suspend_switch" /\ switch_to_dispatcher(t) /\ Goto(t, back[t])
        /\ back' = [back EXCEPT ![t] = NULL] /\ arg_queue' = [arg_queue EXCEPT ![t] = NULL]
        /\ UNCHANGED <<queues, prioVars, timeVars, user_tasks_num, os, arg_task>>
    BY <1>3 DEF suspend_switch
  <2>2. back[t] \in {"sem_return", "destroy_loop"}
    BY <2>1 DEF SemInv, Frame, KernelLabels
  <2>3. /\ pc' \in [Tasks -> Labels \cup KernelLabels] /\ pc'[t] = back[t]
        /\ \A u \in Tasks : u # t => pc'[u] = pc[u]
    BY <2>1, <2>2, GotoTypes DEF SemInv, SemLabels
  <2>4. QueuesOK'
    BY <2>1 DEF SemInv, QueuesOK, In
  <2>5. TypeOK'
    BY <2>1, <2>3, <2>4 DEF SemInv, TypeOK, KernelTypeOK, QueuesOK, prioVars, timeVars, semVars, userVars, switch_to_dispatcher
  <2>6. Moves(t)
    BY <1>0, <2>1, <2>3 DEF Moves, SemInv, TypeOK, KernelTypeOK
  <2>7. Frame(t)'
    BY <2>2, <2>3 DEF Frame, KernelLabels
  <2> QED BY <1>0, <2>1, <2>2, <2>3, <2>4, <2>5, <2>6, <2>7, QueueStep
<1>4. CASE resume_remove(t)
  <2>1. /\ pc[t] = "resume_remove" /\ queue_remove(arg_queue[t], arg_task[t]) /\ Goto(t, "resume_append")
        /\ arg_task[t] \in Tasks /\ arg_queue[t] \in WaitQueues
        /\ UNCHANGED <<curr, status, prioVars, timeVars, user_tasks_num, os, argVars>>
    BY <1>4 DEF resume_remove, SemInv, Frame, KernelLabels
  <2>2. /\ pc' \in [Tasks -> Labels \cup KernelLabels] /\ pc'[t] = "resume_append"
        /\ \A u \in Tasks : u # t => pc'[u] = pc[u]
    BY <2>1, GotoTypes DEF SemInv, KernelLabels
  <2>3. QueuesOK'
    BY <1>0, <2>1, RemoveMembers DEF SemInv
  <2>4. queues'["sleeping"] = queues["sleeping"] /\ queues'["suspended"] = queues["suspended"]
    BY <1>0, <2>1 DEF queue_remove, SemInv, QueuesOK
  <2>5. TypeOK'
    BY <2>1, <2>2, <2>3 DEF SemInv, TypeOK, KernelTypeOK, QueuesOK, prioVars, timeVars, argVars, semVars, userVars
  <2>6. Moves(t)
    BY <1>0, <2>1, <2>2 DEF Moves, argVars
  <2>7. Frame(t)'
    BY <1>0, <2>1, <2>2 DEF Frame, KernelLabels, argVars, SemInv
  <2> QED BY <1>0, <2>2, <2>3, <2>4, <2>5, <2>6, <2>7, QueueStep
<1>5. CASE resume_append(t)
  <2>1. /\ pc[t] = "resume_append" /\ queue_append("ready", arg_task[t]) /\ Goto(t, back[t])
        /\ arg_task[t] \in Tasks
        /\ status' = [status EXCEPT ![arg_task[t]] = "READY"]
        /\ back' = [back EXCEPT ![t] = NULL] /\ arg_queue' = [arg_queue EXCEPT ![t] = NULL]
        /\ arg_task' = [arg_task EXCEPT ![t] = NULL]
        /\ UNCHANGED <<curr, prioVars, timeVars, user_tasks_num, os>>
    BY <1>5 DEF resume_append, SemInv, Frame, KernelLabels
  <2>2. back[t] \in {"sem_return", "destroy_loop"}
    BY <2>1 DEF SemInv, Frame, KernelLabels
  <2>3. /\ pc' \in [Tasks -> Labels \cup KernelLabels] /\ pc'[t] = back[t]
        /\ \A u \in Tasks : u # t => pc'[u] = pc[u]
    BY <2>1, <2>2, GotoTypes DEF SemInv, SemLabels
  <2>4. QueuesOK'
    BY <1>0, <2>1, AppendMembers DEF SemInv
  <2>5. queues'["sleeping"] = queues["sleeping"] /\ queues'["suspended"] = queues["suspended"]
    BY <1>0, <2>1 DEF queue_append, SemInv, QueuesOK
  <2>6. TypeOK'
    BY <2>1, <2>3, <2>4 DEF SemInv, TypeOK, KernelTypeOK, QueuesOK, prioVars, timeVars, semVars, userVars
  <2>7. Moves(t)
    BY <1>0, <2>1, <2>3 DEF Moves, SemInv, TypeOK, KernelTypeOK
  <2>8. Frame(t)'
    BY <2>2, <2>3 DEF Frame, KernelLabels
  <2> QED BY <1>0, <2>2, <2>3, <2>4, <2>5, <2>6, <2>7, <2>8, QueueStep
<1> QED BY <1>1, <1>2, <1>3, <1>4, <1>5 DEF SuspendResume

-----------------------------------------------------------------------------
(* The timer and the dispatcher.                                            *)
LEMMA TickStep ==
  ASSUME SemInv, Tick, UNCHANGED <<semVars, userVars>>
  PROVE  SemInv'
<1>1. UNCHANGED <<queues, prioVars, wake_up_time, user_tasks_num, os, frameVars>>
  BY DEF Tick
<1>2. sysclock' \in 0..CLOCK_MOD-1
  <2>1. sysclock \in Int /\ CLOCK_MOD \in Nat \ {0}
    BY KernelAssumption DEF SemInv, TypeOK, KernelTypeOK
  <2> QED BY <2>1 DEF Tick
<1>3. /\ curr' \in Tasks \cup {Dispatcher} /\ quantum' \in 0..QUANTUM_LIMIT-1
      /\ status' \in [Tasks -> {"READY", "RUNNING", "SUSPENDED"}]
  <2>1. /\ curr \in Tasks \cup {Dispatcher} /\ quantum \in 0..QUANTUM_LIMIT-1
        /\ status \in [Tasks -> {"READY", "RUNNING", "SUSPENDED"}] /\ QUANTUM_LIMIT \in Nat \ {0}
    BY KernelAssumption DEF SemInv, TypeOK, KernelTypeOK
  <2>2. CASE UNCHANGED <<curr, quantum, status>>
    BY <2>1, <2>2
  <2>3. CASE ~expired /\ quantum' = quantum + 1 /\ UNCHANGED <<curr, status>>
    BY <2>1, <2>3 DEF expired
  <2>4. CASE curr # Dispatcher /\ quantum' = 0 /\ switch_to_dispatcher(curr)
    BY <2>1, <2>4 DEF switch_to_dispatcher
  <2> QED BY <2>2, <2>3, <2>4 DEF Tick
<1>4. TypeOK'
  BY <1>1, <1>2, <1>3 DEF SemInv, TypeOK, KernelTypeOK, prioVars, frameVars, argVars, semVars, userVars
<1>5. QueuesOK' /\ queues' = queues
  BY <1>1 DEF SemInv, QueuesOK, In
<1>6. LockInv' /\ \A u \in Tasks : Frame(u)'
  BY <1>1 DEF SemInv, LockInv, InLock, Frame, sem, call, frameVars, argVars, semVars, userVars
<1> QED BY <1>4, <1>5, <1>6 DEF SemInv

(* Nobody sleeps, so wake_tasks changes nothing.                            *)
LEMMA NobodyDue ==
  ASSUME SemInv
  PROVE  /\ after_wake_tasks = queues
         /\ \A t \in Tasks : ~Contains(queues["sleeping"], t)
<1>1. "ready" \in Queues /\ "sleeping" \in Queues /\ queues["sleeping"] = << >>
  BY DEF SemInv, Queues
<1>2. Only(queues["sleeping"], due_tasks) = << >>
      /\ Only(queues["sleeping"], Tasks \ due_tasks) = << >>
  BY <1>1, OnlyEmpty
<1>3. queues["ready"] \o << >> = queues["ready"]
  BY <1>1, ConcatEmptySeq DEF SemInv, QueuesOK
<1>4. after_wake_tasks = queues
  <2>1. queues \in [Queues -> Seq(Tasks)]
    BY DEF SemInv, QueuesOK
  <2> QED BY <1>1, <1>2, <1>3, <2>1 DEF after_wake_tasks
<1>5. \A t \in Tasks : ~Contains(queues["sleeping"], t)
  BY <1>1, EmptySeq DEF Contains
<1> QED BY <1>4, <1>5

LEMMA DispatchStep ==
  ASSUME SemInv, Dispatch, UNCHANGED <<semVars, userVars>>
  PROVE  SemInv'
<1>1. UNCHANGED <<queues, static_priority, sysclock, wake_up_time, user_tasks_num, os, frameVars>>
  BY NobodyDue DEF Dispatch
<1>2. PICK next \in Tasks :
        /\ dynamic_priority' = aged(queues["ready"], next)
        /\ status' = [t \in Tasks |->
                        CASE t = next -> "RUNNING"
                          [] t # next /\ Contains(queues["sleeping"], t) /\ Due(t) -> "READY"
                          [] OTHER -> status[t]]
        /\ curr' = next /\ quantum' = 0
  BY <1>1 DEF Dispatch
<1>3. status' \in [Tasks -> {"READY", "RUNNING", "SUSPENDED"}]
  BY <1>2 DEF SemInv, TypeOK
<1>4. dynamic_priority' \in [Tasks -> Int]
  <2>1. \A t \in Tasks : static_priority[t] \in Int /\ dynamic_priority[t] \in Int
    BY DEF SemInv, TypeOK, KernelTypeOK
  <2> QED BY <1>2, <2>1, ShortType DEF aged, ALPHA
<1>5. TypeOK'
  <2>1. 0 \in 0..QUANTUM_LIMIT-1
    BY KernelAssumption
  <2> QED BY <1>1, <1>2, <1>3, <1>4, <2>1
        DEF SemInv, TypeOK, KernelTypeOK, frameVars, argVars, semVars, userVars
<1>6. QueuesOK' /\ queues' = queues
  BY <1>1 DEF SemInv, QueuesOK, In
<1>7. LockInv' /\ \A u \in Tasks : Frame(u)'
  BY <1>1 DEF SemInv, LockInv, InLock, Frame, sem, call, frameVars, argVars, semVars, userVars
<1> QED BY <1>5, <1>6, <1>7 DEF SemInv

(* The queues are empty but for the ready queue, nobody is inside a call.   *)
LEMMA BootInv ==
  ASSUME NEW S \in SUBSET Tasks, NEW order \in Orders(S), Booted(order)
  PROVE  SemInv
<1> USE SemaphoreAssumption, KernelAssumption
<1>1. /\ \A i, j \in DOMAIN order : order[i] = order[j] => i = j
      /\ queues = [q \in Queues |-> IF q = "ready" THEN order ELSE << >>]
  BY DEF Booted, Orders
<1>2. Cardinality(S) \in Nat /\ order \in [1..Cardinality(S) -> S]
  BY FS_Subset, FS_CardinalityType DEF Orders
<1>3. order \in Seq(Tasks) /\ Len(order) = Cardinality(S)
  BY <1>1, <1>2, IsASeq
<1>4. QueuesOK
  <2>1. << >> \in Seq(Tasks) /\ Len(<< >>) = 0
    BY EmptySeq
  <2>2. queues \in [Queues -> Seq(Tasks)]
    BY <1>1, <1>3, <2>1
  <2>3. \A q \in Queues : Injective(queues[q])
    <3>1. Injective(order)
      BY <1>1, <1>2, <1>3 DEF Injective
    <3>2. Injective(<< >>)
      BY <2>1 DEF Injective
    <3> QED BY <1>1, <3>1, <3>2
  <2>4. \A q \in Queues, t \in Tasks : In(q, t) => q = "ready"
    <3>1. \A t : ~Contains(<< >>, t)
      BY <2>1 DEF Contains
    <3> QED BY <1>1, <3>1 DEF In
  <2> QED BY <2>2, <2>3, <2>4 DEF QueuesOK
<1>5. queues["sleeping"] = << >> /\ queues["suspended"] = << >>
  BY <1>1 DEF Queues
<1>6. TypeOK
  <2>1. \A t \in Tasks : 1 \in 1..Len(Program[t])
    <3> SUFFICES ASSUME NEW t \in Tasks PROVE 1 \in 1..Len(Program[t])
      OBVIOUS
    <3>1. Len(Program[t]) \in Nat /\ Len(Program[t]) # 0
      BY LenProperties, EmptySeq
    <3> QED BY <3>1
  <2>2. KernelTypeOK
    <3>1. queues \in [Queues -> Seq(Tasks)]
      BY <1>4 DEF QueuesOK
    <3>2. 0 \in 0..QUANTUM_LIMIT-1 /\ 0 \in 0..CLOCK_MOD-1
      OBVIOUS
    <3> QED BY <1>2, <1>3, <3>1, <3>2 DEF Booted, KernelTypeOK, SemLabels, DEFAULT_PRIORITY
  <2> QED BY <2>1, <2>2 DEF Booted, TypeOK
<1>7. LockInv /\ \A t \in Tasks : Frame(t)
  BY DEF Booted, LockInv, InLock, Frame, KernelLabels
<1> QED BY <1>4, <1>5, <1>6, <1>7 DEF SemInv

LEMMA InitInv == Init => SemInv
BY BootInv DEF Init

(* Every step preserves SemInv.                                             *)
LEMMA NextInv == SemInv /\ [Next]_vars => SemInv'
<1> SUFFICES ASSUME SemInv, [Next]_vars PROVE SemInv'
  OBVIOUS
<1>1. CASE System
  BY <1>1, TickStep, DispatchStep DEF System
<1>2. ASSUME NEW t \in Tasks, Step(t)
      PROVE  SemInv'
  BY <1>2, LockSteps, LoadSteps, StoreSteps, UnlockSteps, BranchSteps, TestStep, HeadSteps,
     KernelSteps DEF Step
<1>3. CASE UNCHANGED vars
  <2>1. TypeOK'
    BY <1>3 DEF SemInv, TypeOK, KernelTypeOK, vars, kernelVars, coreVars, prioVars, timeVars,
                frameVars, argVars, semVars, userVars
  <2>2. QueuesOK' /\ queues' = queues
    BY <1>3 DEF SemInv, QueuesOK, In, vars, kernelVars, coreVars
  <2>3. LockInv' /\ \A u \in Tasks : Frame(u)'
    BY <1>3 DEF SemInv, LockInv, InLock, Frame, sem, call, vars, kernelVars, frameVars, argVars,
                semVars, userVars
  <2> QED BY <2>1, <2>2, <2>3 DEF SemInv
<1> QED BY <1>1, <1>2, <1>3 DEF Next

(* SemInv holds in every state, for any tasks, semaphores, programs and any *)
(* set of points at which the quantum may end.                              *)
THEOREM SemInvariant == Spec => []SemInv
BY InitInv, NextInv, PTL DEF Spec

(* The fields of task_t and semaphore_t keep their types; in particular a   *)
(* task_suspend and a task_resume always have a queue to work on.           *)
THEOREM TypeCorrect == Spec => []TypeOK
<1>1. SemInv => TypeOK
  BY DEF SemInv
<1> QED BY <1>1, SemInvariant, PTL

(* prev and next of a task are never part of two queues at once, although   *)
(* two sem_up calls may resume the same task and a task_suspend may be cut  *)
(* between its removal and its append: the checks of queue_append and       *)
(* queue_remove suffice.                                                    *)
THEOREM TasksInOneQueue == Spec => []OneQueue
<1>1. SemInv => OneQueue
  BY QueuesOKOneQueue DEF SemInv
<1> QED BY <1>1, SemInvariant, PTL

(* enter_cs and leave_cs keep the load and the store of value of sem_down   *)
(* and sem_up apart, for any number of tasks, preempted anywhere.           *)
THEOREM LockCoversValue == Spec => []LockCovers
<1>1. SemInv => LockCovers
  BY DEF SemInv, LockInv, LockCovers
<1> QED BY <1>1, SemInvariant, PTL
(* A step is one of the running task, and leaves the others where they are. *)
LEMMA StepMoves ==
  ASSUME SemInv, NEW t \in Tasks, Step(t)
  PROVE  Running(t) /\ Moves(t)
<1> DEFINE Args == \A u \in Tasks : u # t => /\ back'[u] = back[u] /\ arg_task'[u] = arg_task[u]
                                             /\ arg_queue'[u] = arg_queue[u]
           User == \A u \in Tasks : u # t => ip'[u] = ip[u] /\ v'[u] = v[u]
           Pcs  == \A u \in Tasks : u # t => pc'[u] = pc[u]
<1>1. (\E l : Goto(t, l)) => Pcs
  BY DEF Goto, SemInv, TypeOK, KernelTypeOK
<1>2. return(t) => Pcs /\ User
  BY <1>1 DEF return, advance, SemInv, TypeOK
<1>3. (\E q, l : call_suspend(t, q, l)) => Pcs /\ Args
  BY <1>1 DEF call_suspend, SemInv, TypeOK, KernelTypeOK
<1>4. (\E u, q, l : call_resume(t, u, q, l)) => Pcs /\ Args
  BY <1>1 DEF call_resume, frameVars, argVars, SemInv, TypeOK, KernelTypeOK
<1>5. (UNCHANGED userVars => User) /\ (UNCHANGED argVars => Args)
  BY DEF userVars, argVars
<1>6. CASE \/ sem_down(t) \/ sem_up(t) \/ sem_destroy(t) \/ sem_return(t) \/ up_test(t) \/ destroy_loop(t)
  <2>1. Running(t) /\ UNCHANGED argVars
    BY <1>6 DEF sem_down, sem_up, enter_call, sem_destroy, sem_return, up_test, destroy_loop, At
  <2>2. return(t) \/ ((\E l : Goto(t, l)) /\ UNCHANGED userVars)
    BY <1>6 DEF sem_down, sem_up, enter_call, sem_destroy, sem_return, up_test, destroy_loop
  <2> QED BY <2>1, <2>2, <1>1, <1>2, <1>5 DEF Moves
<1>7. CASE \/ down_lock(t) \/ up_lock(t) \/ down_unlock(t) \/ up_unlock(t)
  <2>1. Running(t) /\ UNCHANGED argVars /\ UNCHANGED userVars /\ \E l : Goto(t, l)
    BY <1>7 DEF down_lock, up_lock, lock_step, down_unlock, up_unlock, unlock_step, At
  <2> QED BY <2>1, <1>1, <1>5 DEF Moves
<1>8. CASE \/ down_load(t) \/ up_load(t) \/ down_store(t) \/ up_store(t)
  <2>1. Running(t) /\ UNCHANGED argVars /\ (\E l : Goto(t, l)) /\ ip' = ip
        /\ \E x : v' = [v EXCEPT ![t] = x]
    BY <1>8 DEF down_load, up_load, load_step, down_store, up_store, store_step, At
  <2>2. User
    BY <2>1 DEF SemInv, TypeOK
  <2> QED BY <2>1, <2>2, <1>1, <1>5 DEF Moves
<1>9. CASE down_test(t)
  <2>1. Running(t)
    BY <1>9 DEF down_test, At
  <2>2. \/ call_suspend(t, sem(t), "sem_return") /\ UNCHANGED userVars
        \/ return(t) /\ UNCHANGED argVars
    BY <1>9 DEF down_test
  <2> QED BY <2>1, <2>2, <1>2, <1>3, <1>5 DEF Moves
<1>10. CASE up_head(t) \/ destroy_head(t)
  <2>1. /\ Running(t) /\ UNCHANGED userVars
        /\ \E u, q, l : call_resume(t, u, q, l)
    BY <1>10 DEF up_head, destroy_head, resume_head, At
  <2> QED BY <2>1, <1>4, <1>5 DEF Moves
<1>11. CASE SuspendResume(t) /\ UNCHANGED <<semVars, userVars>>
  <2>1. Running(t) /\ (\E l : Goto(t, l)) /\ Args
    BY <1>11 DEF SuspendResume, suspend_remove, suspend_append, suspend_switch, resume_remove,
                resume_append, argVars, SemInv, TypeOK, KernelTypeOK
  <2> QED BY <1>11, <2>1, <1>1, <1>5 DEF Moves
<1> QED BY <1>6, <1>7, <1>8, <1>9, <1>10, <1>11 DEF Step

-----------------------------------------------------------------------------
(* The spin lock: nobody blocks inside it.                                  *)

(* Who is not in the ready queue has called task_suspend, and does not run  *)
(* once it has been through it.                                             *)
ReadyLocal(t) ==
  /\ \/ In("ready", t)
     \/ pc[t] \in {"suspend_append", "suspend_switch"}
     \/ pc[t] \in {"user", "sem_return"} /\ curr # t
  /\ pc[t] \in {"suspend_remove", "suspend_append", "suspend_switch"} => back[t] = "sem_return"

HolderInv ==
  /\ SemInv /\ \A t \in Tasks : ReadyLocal(t)
  /\ \A s \in Sems : lock[s] = 1 => \E t \in Tasks : InLock(t, s)

(* A lock that is taken after a step of t is its own, or was taken before   *)
(* by somebody else.                                                        *)
LockKept(t) ==
  \A s \in Sems : lock'[s] = 1 => InLock(t, s)' \/ (lock[s] = 1 /\ ~InLock(t, s))

(* After a step of t, unless t leaves the ready queue in it.                *)
LEMMA HolderAfter ==
  ASSUME HolderInv, SemInv', NEW t \in Tasks, Running(t), Moves(t), LockKept(t), ReadyLocal(t)',
         curr' = curr \/ curr' \notin Tasks,
         \A u \in Tasks : u # t /\ In("ready", u) => In("ready", u)'
  PROVE  HolderInv'
<1>1. ASSUME NEW u \in Tasks, u # t PROVE ReadyLocal(u)'
  BY <1>1 DEF HolderInv, ReadyLocal, Moves, Running
<1>2. ASSUME NEW s \in Sems, lock'[s] = 1 PROVE \E u \in Tasks : InLock(u, s)'
  <2>1. CASE InLock(t, s)'
    BY <2>1
  <2>2. CASE lock[s] = 1 /\ ~InLock(t, s)
    <3>1. PICK u \in Tasks : InLock(u, s)
      BY <2>2 DEF HolderInv
    <3>2. u # t
      BY <2>2, <3>1
    <3>3. InLock(u, s)'
      BY <3>1, <3>2, CallKept DEF Moves, InLock
    <3> QED BY <3>3
  <2> QED BY <1>2, <2>1, <2>2 DEF LockKept
<1> QED BY <1>1, <1>2 DEF HolderInv

(* The steps that stay out of the queues.                                   *)
LEMMA HolderCalls ==
  ASSUME HolderInv, SemInv', NEW t \in Tasks, Running(t), Moves(t),
         \/ sem_down(t) \/ down_lock(t) \/ down_load(t) \/ down_store(t) \/ down_unlock(t)
         \/ down_test(t) \/ sem_return(t)
         \/ sem_up(t) \/ up_lock(t) \/ up_load(t) \/ up_store(t) \/ up_unlock(t) \/ up_test(t)
         \/ up_head(t)
         \/ sem_destroy(t) \/ destroy_loop(t) \/ destroy_head(t)
  PROVE  HolderInv'
<1>1. UNCHANGED <<curr, queues>>
  BY DEF sem_down, sem_up, enter_call, down_lock, up_lock, lock_step, down_load, up_load, load_step,
         down_store, up_store, store_step, down_unlock, up_unlock, unlock_step, down_test, sem_return,
         up_test, up_head, resume_head, sem_destroy, destroy_loop, destroy_head, coreVars
<1>2. /\ pc \in [Tasks -> Labels \cup KernelLabels] /\ back \in [Tasks -> Labels \cup {NULL}]
      /\ lock \in [Sems -> {0, 1}] /\ sem(t) \in Sems /\ ReadyLocal(t) /\ curr = t
  BY CallTypes DEF HolderInv, SemInv, TypeOK, KernelTypeOK, Running
<1>3. return(t) => pc'[t] = "user"
  BY <1>2 DEF return, Goto
<1>4. CASE \/ sem_down(t) \/ sem_up(t) \/ sem_destroy(t) \/ sem_return(t) \/ up_test(t)
           \/ destroy_loop(t) \/ down_test(t) \/ up_head(t) \/ destroy_head(t)
  <2>1. /\ lock' = lock
        /\ pc[t] \in {"user", "sem_return", "up_test", "destroy_loop", "down_test", "up_head",
                      "destroy_head"}
        /\ \/ pc'[t] \in {"user", "down_lock", "up_lock", "up_head", "up_test", "destroy_loop", "destroy_head",
                          "resume_remove"}
           \/ pc'[t] = "suspend_remove" /\ back'[t] = "sem_return"
    <3>1. CASE \/ sem_down(t) \/ sem_up(t) \/ sem_destroy(t) \/ sem_return(t) \/ up_test(t)
               \/ destroy_loop(t)
      BY <1>2, <1>3, <3>1 DEF sem_down, sem_up, enter_call, sem_destroy, sem_return, up_test,
         destroy_loop, At, Goto, semVars
    <3>2. CASE down_test(t)
      BY <1>2, <1>3, <3>2 DEF down_test, call_suspend, At, Goto, semVars
    <3>3. CASE up_head(t) \/ destroy_head(t)
      BY <1>2, <3>3 DEF up_head, destroy_head, resume_head, call_resume, At, Goto, frameVars, semVars
    <3> QED BY <1>4, <3>1, <3>2, <3>3
  <2>2. LockKept(t)
    BY <2>1 DEF LockKept, InLock
  <2>3. ReadyLocal(t)'
    BY <1>1, <1>2, <2>1 DEF ReadyLocal, In
  <2> QED BY <1>1, <2>2, <2>3, HolderAfter DEF In
<1>5. CASE \/ down_lock(t) \/ up_lock(t) \/ down_load(t) \/ up_load(t) \/ down_store(t) \/ up_store(t)
           \/ down_unlock(t) \/ up_unlock(t)
  <2>1. ip' = ip
    BY <1>5 DEF down_lock, up_lock, lock_step, down_load, up_load, load_step, down_store, up_store,
       store_step, down_unlock, up_unlock, unlock_step, userVars
  <2>2. sem(t)' = sem(t)
    BY <2>1, CallKept
  <2>3. \/ /\ pc[t] \in {"down_lock", "up_lock"} /\ pc'[t] \in {"down_load", "up_load"}
           /\ lock' = [lock EXCEPT ![sem(t)] = 1]
        \/ /\ pc[t] \in {"down_load", "up_load", "down_store", "up_store"} /\ lock' = lock
           /\ pc'[t] \in {"down_store", "up_store", "down_unlock", "up_unlock"}
        \/ /\ pc[t] \in {"down_unlock", "up_unlock"} /\ pc'[t] \in {"down_test", "up_test"}
           /\ lock' = [lock EXCEPT ![sem(t)] = 0]
    <3>1. CASE down_lock(t) \/ up_lock(t)
      BY <1>2, <3>1 DEF down_lock, up_lock, lock_step, enter_cs, At, Goto
    <3>2. CASE down_load(t) \/ up_load(t) \/ down_store(t) \/ up_store(t)
      BY <1>2, <3>2 DEF down_load, up_load, load_step, down_store, up_store, store_step, At, Goto, semVars
    <3>3. CASE down_unlock(t) \/ up_unlock(t)
      BY <1>2, <3>3 DEF down_unlock, up_unlock, unlock_step, leave_cs, At, Goto
    <3> QED BY <1>5, <3>1, <3>2, <3>3
  <2>4. LockKept(t)
    BY <1>2, <2>2, <2>3 DEF LockKept, InLock
  <2>5. ReadyLocal(t)'
    BY <1>1, <1>2, <2>3 DEF ReadyLocal, In
  <2> QED BY <1>1, <2>4, <2>5, HolderAfter DEF In
<1> QED BY <1>4, <1>5

(* A task is taken out of the ready queue by its own task_suspend only: a   *)
(* task_resume takes its task out of another queue.                         *)
LEMMA HolderKernel ==
  ASSUME HolderInv, SemInv', NEW t \in Tasks, Running(t), Moves(t), SuspendResume(t),
         UNCHANGED <<semVars, userVars>>
  PROVE  HolderInv'
<1>1. /\ pc \in [Tasks -> Labels \cup KernelLabels] /\ back \in [Tasks -> Labels \cup {NULL}]
      /\ ReadyLocal(t) /\ Frame(t) /\ QueuesOK /\ curr = t /\ t # Dispatcher /\ Dispatcher \notin Tasks
      /\ "ready" \in Queues /\ "ready" \notin WaitQueues /\ WaitQueues \subseteq Queues
      /\ lock' = lock
  BY KernelAssumption, SemaphoreAssumption
     DEF HolderInv, SemInv, TypeOK, KernelTypeOK, Running, Queues, semVars
<1>2. CASE suspend_remove(t)
  <2>1. /\ pc[t] = "suspend_remove" /\ pc'[t] = "suspend_append" /\ UNCHANGED <<curr, back>>
        /\ queue_remove("ready", t)
    BY <1>1, <1>2 DEF suspend_remove, Goto, argVars
  <2>2. \A u \in Tasks : u # t /\ In("ready", u) => In("ready", u)'
    BY <1>1, <2>1, RemoveMembers
  <2>3. LockKept(t)
    BY <1>1, <2>1 DEF LockKept, InLock
  <2>4. ReadyLocal(t)'
    BY <1>1, <2>1 DEF ReadyLocal
  <2> QED BY <2>1, <2>2, <2>3, <2>4, HolderAfter
<1>3. CASE suspend_append(t)
  <2>1. /\ pc[t] = "suspend_append" /\ pc'[t] = "suspend_switch" /\ UNCHANGED <<curr, back>>
        /\ arg_queue[t] \in Queues /\ queue_append(arg_queue[t], t)
    BY <1>1, <1>3 DEF suspend_append, Goto, argVars, Frame, KernelLabels
  <2>2. \A u \in Tasks : In("ready", u) => In("ready", u)'
    BY <1>1, <2>1, AppendMembers
  <2>3. LockKept(t)
    BY <1>1, <2>1 DEF LockKept, InLock
  <2>4. ReadyLocal(t)'
    BY <1>1, <2>1 DEF ReadyLocal
  <2> QED BY <2>1, <2>2, <2>3, <2>4, HolderAfter
<1>4. CASE suspend_switch(t)
  <2>1. /\ pc[t] = "suspend_switch" /\ pc'[t] = "sem_return" /\ curr' = Dispatcher /\ queues' = queues
    BY <1>1, <1>4 DEF suspend_switch, switch_to_dispatcher, Goto, ReadyLocal
  <2>2. LockKept(t)
    BY <1>1, <2>1 DEF LockKept, InLock
  <2>3. ReadyLocal(t)'
    BY <1>1, <2>1 DEF ReadyLocal
  <2> QED BY <1>1, <2>1, <2>2, <2>3, HolderAfter DEF In
<1>5. CASE resume_remove(t)
  <2>1. /\ pc[t] = "resume_remove" /\ pc'[t] = "resume_append" /\ UNCHANGED curr
        /\ arg_queue[t] \in WaitQueues /\ arg_task[t] \in Tasks
        /\ queue_remove(arg_queue[t], arg_task[t])
    BY <1>1, <1>5 DEF resume_remove, Goto, Frame, KernelLabels
  <2>2. \A u \in Tasks : In("ready", u) => In("ready", u)'
    BY <1>1, <2>1, RemoveMembers
  <2>3. LockKept(t)
    BY <1>1, <2>1 DEF LockKept, InLock
  <2>4. ReadyLocal(t)'
    BY <1>1, <2>1, <2>2 DEF ReadyLocal
  <2> QED BY <2>1, <2>2, <2>3, <2>4, HolderAfter
<1>6. CASE resume_append(t)
  <2>1. /\ pc[t] = "resume_append" /\ pc'[t] \in {"sem_return", "destroy_loop"} /\ UNCHANGED curr
        /\ arg_task[t] \in Tasks /\ queue_append("ready", arg_task[t])
    BY <1>1, <1>6 DEF resume_append, Goto, Frame, KernelLabels
  <2>2. \A u \in Tasks : In("ready", u) => In("ready", u)'
    BY <1>1, <2>1, AppendMembers
  <2>3. LockKept(t)
    BY <1>1, <2>1 DEF LockKept, InLock
  <2>4. ReadyLocal(t)'
    BY <1>1, <2>1, <2>2 DEF ReadyLocal
  <2> QED BY <2>1, <2>2, <2>3, <2>4, HolderAfter
<1> QED BY <1>2, <1>3, <1>4, <1>5, <1>6 DEF SuspendResume

(* Whom the dispatcher lets run is in the ready queue.                      *)
LEMMA HolderSystem ==
  ASSUME HolderInv, SemInv', System \/ UNCHANGED vars
  PROVE  HolderInv'
<1>1. UNCHANGED <<queues, frameVars, semVars, userVars>>
  BY NobodyDue DEF System, Tick, Dispatch, HolderInv, vars, kernelVars, coreVars
<1>2. \/ curr' = curr \/ curr' = Dispatcher
      \/ curr' \in Tasks /\ In("ready", curr')
  <2>1. CASE Tick
    BY <2>1 DEF Tick, switch_to_dispatcher
  <2>2. CASE Dispatch
    <3>1. PICK next \in Tasks : Chosen(queues["ready"], next) /\ curr' = next
      BY <1>1, <2>2 DEF Dispatch
    <3> QED BY <3>1 DEF Chosen, In, Contains
  <2> QED BY <2>1, <2>2 DEF System, vars, kernelVars, coreVars
<1>3. ASSUME NEW t \in Tasks PROVE ReadyLocal(t)'
  <2>1. ReadyLocal(t) /\ (In("ready", t)' <=> In("ready", t)) /\ pc' = pc /\ back' = back
        /\ Dispatcher \notin Tasks
    BY <1>1, KernelAssumption DEF HolderInv, In, frameVars, argVars
  <2> QED BY <1>2, <2>1 DEF ReadyLocal
<1>4. \A s \in Sems : lock'[s] = 1 => \E t \in Tasks : InLock(t, s)'
  BY <1>1 DEF HolderInv, InLock, sem, frameVars, semVars, userVars
<1> QED BY <1>3, <1>4 DEF HolderInv

LEMMA HolderNext == HolderInv /\ [Next]_vars => HolderInv'
<1> SUFFICES ASSUME HolderInv, [Next]_vars PROVE HolderInv'
  OBVIOUS
<1>1. SemInv'
  BY NextInv DEF HolderInv
<1>2. CASE System \/ UNCHANGED vars
  BY <1>1, <1>2, HolderSystem
<1>3. ASSUME NEW t \in Tasks, Step(t) PROVE HolderInv'
  <2>1. Running(t) /\ Moves(t)
    BY <1>3, StepMoves DEF HolderInv
  <2> QED BY <1>1, <1>3, <2>1, HolderCalls, HolderKernel DEF Step
<1> QED BY <1>2, <1>3 DEF Next

LEMMA HolderInit == Init => HolderInv
<1> SUFFICES ASSUME Init PROVE HolderInv
  OBVIOUS
<1>1. pc = [t \in Tasks |-> "user"] /\ curr = Dispatcher /\ lock = [s \in Sems |-> 0]
  BY DEF Init, Booted
<1>2. \A t \in Tasks : ReadyLocal(t)
  BY <1>1, KernelAssumption DEF ReadyLocal
<1> QED BY <1>1, <1>2, InitInv DEF HolderInv

(* A spin lock that is taken has been taken by a task that is inside its    *)
(* sem_down or sem_up and is in the ready queue, whatever the programs do   *)
(* and wherever the quantum ends: those who spin in enter_cs cost time, and *)
(* never wait for a task that waits for them.                               *)
THEOREM HoldersKeepRunning == Spec => []LockHolderRuns
<1>1. HolderInv => LockHolderRuns
  <2> SUFFICES ASSUME HolderInv, NEW s \in Sems, lock[s] = 1
               PROVE  \E t \in Tasks : InLock(t, s) /\ Contains(queues["ready"], t)
    BY DEF LockHolderRuns
  <2>1. PICK t \in Tasks : InLock(t, s)
    BY DEF HolderInv
  <2>2. In("ready", t)
    BY <2>1 DEF HolderInv, ReadyLocal, InLock
  <2> QED BY <2>1, <2>2 DEF In
<1> QED BY <1>1, HolderInit, HolderNext, PTL DEF Spec

-----------------------------------------------------------------------------
(* sem_destroy: nobody stays in a queue that no sem_up will ever look at.   *)

(* From the test of active in sem_down to the entry into the queue.         *)
EnterLabels == {"down_lock", "down_load", "down_store", "down_unlock", "down_test",
                "suspend_remove", "suspend_append"}

(* A task on its way into a queue is alone and its semaphore is active; a   *)
(* sem_destroy comes back to its loop.                                      *)
DestroyLocal(t) ==
  /\ pc[t] \in EnterLabels => curr = t /\ call(t) = "down" /\ active[sem(t)] = 1
  /\ call(t) = "destroy" =>
       pc[t] \in {"user", "destroy_loop", "destroy_head", "resume_remove", "resume_append"}
  /\ call(t) = "destroy" /\ pc[t] \in KernelLabels => back[t] = "destroy_loop"

DestroyInv == SemInv /\ (\A t \in Tasks : DestroyLocal(t)) /\ DestroyReleases

(* What a step of t does to the queues of destroyed semaphores.             *)
DestroyMoves(t) ==
  \A s \in Sems : active'[s] = 0 /\ queues'[s] # << >> =>
    \/ Destroying(t, s)'
    \/ active[s] = 0 /\ queues[s] # << >> /\ ~Destroying(t, s)

LEMMA DestroyKept ==
  ASSUME DestroyInv, SemInv', NEW t \in Tasks, Running(t), Moves(t), curr' = curr \/ pc'[t] \notin EnterLabels,
         DestroyLocal(t)', DestroyMoves(t)
  PROVE  DestroyInv'
<1>1. ASSUME NEW u \in Tasks, u # t PROVE DestroyLocal(u)'
  <2>1. pc[u] \notin EnterLabels
    BY <1>1 DEF DestroyInv, DestroyLocal, Running
  <2> QED BY <1>1, <2>1, CallKept DEF DestroyInv, DestroyLocal, Moves
<1>2. DestroyReleases'
  <2> SUFFICES ASSUME NEW s \in Sems, active'[s] = 0, queues'[s] # << >>
               PROVE  \E u \in Tasks : Destroying(u, s)'
    BY DEF DestroyReleases
  <2>1. CASE Destroying(t, s)'
    BY <2>1
  <2>2. CASE active[s] = 0 /\ queues[s] # << >> /\ ~Destroying(t, s)
    <3>1. PICK u \in Tasks : Destroying(u, s)
      BY <2>2 DEF DestroyInv, DestroyReleases
    <3>2. u # t
      BY <2>2, <3>1
    <3>3. Destroying(u, s)'
      BY <3>1, <3>2, CallKept DEF Moves, Destroying
    <3> QED BY <3>3
  <2> QED BY <2>1, <2>2 DEF DestroyMoves
<1> QED BY <1>1, <1>2 DEF DestroyInv

(* The steps that stay out of the queues.                                   *)
LEMMA DestroyQuiet ==
  ASSUME DestroyInv, SemInv', NEW t \in Tasks, Running(t), Moves(t),
         UNCHANGED <<curr, queues, active>>, DestroyLocal(t)',
         \A s \in Sems : Destroying(t, s) /\ active[s] = 0 /\ queues[s] # << >> => Destroying(t, s)'
  PROVE  DestroyInv'
<1>1. DestroyMoves(t)
  BY DEF DestroyMoves
<1> QED BY <1>1, DestroyKept

LEMMA DestroyCalls ==
  ASSUME DestroyInv, SemInv', NEW t \in Tasks, Running(t), Moves(t),
         \/ sem_down(t) \/ down_lock(t) \/ down_load(t) \/ down_store(t) \/ down_unlock(t)
         \/ down_test(t) \/ sem_return(t)
         \/ sem_up(t) \/ up_lock(t) \/ up_load(t) \/ up_store(t) \/ up_unlock(t) \/ up_test(t)
         \/ up_head(t)
  PROVE  DestroyInv'
<1>1. UNCHANGED <<curr, queues, active>>
  BY DEF sem_down, sem_up, enter_call, down_lock, up_lock, lock_step, down_load, up_load, load_step,
         down_store, up_store, store_step, down_unlock, up_unlock, unlock_step, down_test, sem_return,
         up_test, up_head, resume_head, coreVars, semVars
<1>2. /\ pc[t] \in {"user", "down_lock", "down_load", "down_store", "down_unlock", "down_test",
                    "sem_return", "up_lock", "up_load", "up_store", "up_unlock", "up_test", "up_head"}
      /\ call(t) # "destroy" /\ curr = t
  <2>1. /\ pc[t] \in {"user", "down_lock", "down_load", "down_store", "down_unlock", "down_test",
                      "sem_return", "up_lock", "up_load", "up_store", "up_unlock", "up_test", "up_head"}
        /\ pc[t] = "user" => call(t) # "destroy"
    BY DEF sem_down, sem_up, enter_call, down_lock, up_lock, lock_step, down_load, up_load, load_step,
           down_store, up_store, store_step, down_unlock, up_unlock, unlock_step, down_test, sem_return,
           up_test, up_head, At
  <2> QED BY <2>1 DEF DestroyInv, DestroyLocal, Running
<1>3. \A s \in Sems : ~Destroying(t, s)
  BY <1>2 DEF Destroying
<1>4. DestroyLocal(t)'
  <2>1. CASE pc'[t] = "user"
    BY <2>1 DEF DestroyLocal, EnterLabels, KernelLabels
  <2>2. CASE pc'[t] # "user"
    <3>1. ip' = ip
      <4>1. return(t) => pc'[t] = "user"
        BY DEF return, Goto, SemInv, DestroyInv, TypeOK, KernelTypeOK
      <4> QED BY <2>2, <4>1 DEF sem_down, sem_up, enter_call, down_lock, up_lock, lock_step, down_load,
             up_load, load_step, down_store, up_store, store_step, down_unlock, up_unlock, unlock_step,
             down_test, sem_return, up_test, up_head, resume_head, userVars
    <3>2. call(t)' = call(t) /\ sem(t)' = sem(t)
      BY <3>1, CallKept
    <3>3. pc'[t] \in EnterLabels => call(t) = "down" /\ active[sem(t)] = 1
      <4>1. pc \in [Tasks -> Labels \cup KernelLabels] /\ DestroyLocal(t)
        BY DEF DestroyInv, SemInv, TypeOK, KernelTypeOK
      <4>2. CASE sem_down(t)
        BY <2>2, <4>1, <4>2 DEF sem_down, enter_call, At, return, Goto
      <4>3. CASE \/ sem_up(t) \/ up_lock(t) \/ up_load(t) \/ up_store(t) \/ up_unlock(t) \/ up_test(t)
                 \/ sem_return(t)
        BY <2>2, <4>1, <4>3 DEF sem_up, enter_call, up_lock, lock_step, up_load, load_step, up_store,
             store_step, up_unlock, unlock_step, up_test, sem_return, return, Goto, EnterLabels
      <4>4. CASE \/ down_lock(t) \/ down_load(t) \/ down_store(t) \/ down_unlock(t) \/ down_test(t)
        <5>1. pc[t] \in EnterLabels
          BY <4>4 DEF down_lock, lock_step, down_load, load_step, down_store, store_step, down_unlock,
                      unlock_step, down_test, At, EnterLabels
        <5> QED BY <4>1, <5>1 DEF DestroyLocal
      <4>5. CASE up_head(t)
        BY <1>2, <4>1, <4>5 DEF up_head, resume_head, call_resume, At, Goto, frameVars, EnterLabels
      <4> QED BY <4>2, <4>3, <4>4, <4>5
    <3> QED BY <1>1, <1>2, <3>2, <3>3 DEF DestroyLocal
  <2> QED BY <2>1, <2>2
<1> QED BY <1>1, <1>3, <1>4, DestroyQuiet

LEMMA DestroySteps ==
  ASSUME DestroyInv, SemInv', NEW t \in Tasks, Running(t), Moves(t),
         sem_destroy(t) \/ destroy_loop(t) \/ destroy_head(t)
  PROVE  DestroyInv'
<1>1. curr' = curr /\ queues' = queues
  BY DEF sem_destroy, destroy_loop, destroy_head, resume_head, coreVars
<1>2. pc \in [Tasks -> Labels \cup KernelLabels] /\ DestroyLocal(t) /\ active \in [Sems -> {0, 1}]
      /\ sem(t) \in Sems /\ back \in [Tasks -> Labels \cup {NULL}]
  BY CallTypes DEF DestroyInv, SemInv, TypeOK, KernelTypeOK
<1>3. CASE sem_destroy(t)
  <2>1. /\ pc[t] = "user" /\ call(t) = "destroy"
        /\ \/ /\ active' = [active EXCEPT ![sem(t)] = 0] /\ pc'[t] = "destroy_loop" /\ ip' = ip
           \/ active[sem(t)] = 0 /\ active' = active /\ pc'[t] = "user"
    BY <1>2, <1>3 DEF sem_destroy, At, Goto, return, userVars
  <2>2. CASE pc'[t] = "user"
    <3>1. DestroyLocal(t)'
      BY <2>2 DEF DestroyLocal, EnterLabels, KernelLabels
    <3> QED BY <1>1, <2>1, <2>2, <3>1, DestroyQuiet DEF Destroying
  <2>3. CASE active' = [active EXCEPT ![sem(t)] = 0] /\ pc'[t] = "destroy_loop" /\ ip' = ip
    <3>1. call(t)' = call(t) /\ sem(t)' = sem(t)
      BY <2>3, CallKept
    <3>2. DestroyLocal(t)'
      BY <2>1, <2>3, <3>1 DEF DestroyLocal, EnterLabels, KernelLabels
    <3>3. DestroyMoves(t)
      BY <1>1, <1>2, <2>1, <2>3, <3>1 DEF DestroyMoves, Destroying
    <3> QED BY <1>1, <3>2, <3>3, DestroyKept
  <2> QED BY <2>1, <2>2, <2>3
<1>4. CASE destroy_loop(t)
  <2>1. /\ pc[t] = "destroy_loop" /\ active' = active
        /\ \/ queues[sem(t)] # << >> /\ pc'[t] = "destroy_head" /\ ip' = ip
           \/ queues[sem(t)] = << >> /\ pc'[t] = "user"
    BY <1>2, <1>4 DEF destroy_loop, At, Goto, return, userVars, semVars
  <2>2. DestroyLocal(t)'
    BY <2>1, CallKept DEF DestroyLocal, EnterLabels, KernelLabels
  <2>3. \A s \in Sems : Destroying(t, s) /\ queues[s] # << >> => Destroying(t, s)'
    BY <2>1, CallKept DEF Destroying
  <2> QED BY <1>1, <2>1, <2>2, <2>3, DestroyQuiet
<1>5. CASE destroy_head(t)
  <2>1. /\ pc[t] = "destroy_head" /\ active' = active /\ ip' = ip
        /\ \/ pc'[t] = "destroy_head"
           \/ pc'[t] = "resume_remove" /\ back'[t] = "destroy_loop"
    BY <1>2, <1>5 DEF destroy_head, resume_head, call_resume, At, Goto, frameVars, semVars, userVars
  <2>2. call(t)' = call(t) /\ sem(t)' = sem(t)
    BY <2>1, CallKept
  <2>3. DestroyLocal(t)'
    BY <2>1, <2>2 DEF DestroyLocal, EnterLabels, KernelLabels
  <2>4. \A s \in Sems : Destroying(t, s) => Destroying(t, s)'
    BY <2>1, <2>2 DEF Destroying
  <2> QED BY <1>1, <2>1, <2>3, <2>4, DestroyQuiet
<1> QED BY <1>3, <1>4, <1>5

LEMMA DestroyKernel ==
  ASSUME DestroyInv, SemInv', NEW t \in Tasks, Running(t), Moves(t), SuspendResume(t),
         UNCHANGED <<semVars, userVars>>
  PROVE  DestroyInv'
<1>1. /\ call(t)' = call(t) /\ sem(t)' = sem(t) /\ active' = active
  BY CallKept DEF semVars, userVars
<1>2. /\ pc[t] \in KernelLabels /\ Frame(t) /\ DestroyLocal(t) /\ QueuesOK
      /\ pc \in [Tasks -> Labels \cup KernelLabels] /\ back \in [Tasks -> Labels \cup {NULL}]
      /\ sem(t) \in Sems /\ sem(t) \in Queues /\ "ready" \in Queues
      /\ \A s \in Sems : s \in Queues /\ s # "ready"
  BY CallTypes, SemaphoreAssumption
     DEF DestroyInv, SemInv, TypeOK, KernelTypeOK, SuspendResume, suspend_remove, suspend_append,
         suspend_switch, resume_remove, resume_append, KernelLabels, Queues
<1>3. DestroyLocal(t)' /\ (curr' = curr \/ pc'[t] \notin EnterLabels)
      /\ \A s \in Sems : Destroying(t, s) => Destroying(t, s)'
  <2>1. CASE suspend_remove(t) \/ suspend_append(t)
    BY <1>1, <1>2, <2>1 DEF suspend_remove, suspend_append, Goto, DestroyLocal, EnterLabels,
       KernelLabels, Destroying
  <2>2. CASE resume_remove(t)
    BY <1>1, <1>2, <2>2 DEF resume_remove, Goto, DestroyLocal, EnterLabels, KernelLabels, Destroying,
       argVars
  <2>3. CASE suspend_switch(t) \/ resume_append(t)
    <3>1. pc'[t] = back[t] /\ back[t] \in {"sem_return", "destroy_loop"}
          /\ pc[t] \in {"suspend_switch", "resume_append"}
          /\ (curr' = curr \/ pc[t] = "suspend_switch")
      BY <1>2, <2>3 DEF suspend_switch, resume_append, Goto, Frame
    <3> QED BY <1>1, <1>2, <3>1 DEF DestroyLocal, EnterLabels, KernelLabels, Destroying
  <2> QED BY <2>1, <2>2, <2>3 DEF SuspendResume
<1>4. \A s \in Sems : active[s] = 0 /\ queues'[s] # << >> => queues[s] # << >>
  <2>1. CASE suspend_remove(t) \/ suspend_switch(t) \/ resume_append(t)
    BY <1>2, <2>1 DEF suspend_remove, suspend_switch, resume_append, queue_remove, queue_append, QueuesOK
  <2>2. CASE suspend_append(t)
    <3>1. arg_queue[t] = sem(t) /\ active[sem(t)] = 1
      BY <1>2, <2>2 DEF suspend_append, Frame, DestroyLocal, EnterLabels, KernelLabels
    <3> QED BY <1>2, <2>2, <3>1 DEF suspend_append, queue_append, QueuesOK
  <2>3. CASE resume_remove(t)
    <3>1. arg_queue[t] \in Queues
      BY <1>2, <2>3 DEF resume_remove, Frame, KernelLabels, Queues
    <3>2. \A x : Without(<< >>, x) = << >>
      BY EmptySeq DEF Without, Contains
    <3> QED BY <1>2, <2>3, <3>1, <3>2 DEF resume_remove, queue_remove, QueuesOK
  <2> QED BY <2>1, <2>2, <2>3 DEF SuspendResume
<1>5. DestroyMoves(t)
  BY <1>1, <1>3, <1>4 DEF DestroyMoves
<1> QED BY <1>3, <1>5, DestroyKept

(* The steps of the timer and of the dispatcher, and stuttering.            *)
LEMMA DestroyFrozen ==
  ASSUME DestroyInv, SemInv', Preemptible \cap EnterLabels = {},
         System \/ UNCHANGED vars
  PROVE  DestroyInv'
<1>1. UNCHANGED <<queues, frameVars, semVars, userVars>>
  BY NobodyDue DEF System, Tick, Dispatch, DestroyInv, vars, kernelVars, coreVars
<1>2. \A t \in Tasks : pc[t] \in EnterLabels => curr' = curr
  <2> SUFFICES ASSUME NEW t \in Tasks, pc[t] \in EnterLabels, curr' # curr PROVE FALSE
    OBVIOUS
  <2>1. curr = t /\ curr # Dispatcher
    BY KernelAssumption DEF DestroyInv, DestroyLocal
  <2>2. pc[curr] \in Preemptible
    <3>1. curr' = curr \/ Tick \/ Dispatch
      BY DEF System, vars, kernelVars, coreVars
    <3>2. Tick
      BY <2>1, <3>1 DEF Dispatch, Running
    <3> QED BY <3>2 DEF Tick
  <2> QED BY <2>1, <2>2
<1>3. ASSUME NEW t \in Tasks PROVE DestroyLocal(t)'
  BY <1>1, <1>2, <1>3 DEF DestroyInv, DestroyLocal, call, sem, frameVars, argVars, semVars, userVars
<1>4. DestroyReleases'
  BY <1>1 DEF DestroyInv, DestroyReleases, Destroying, call, sem, frameVars, semVars, userVars
<1> QED BY <1>3, <1>4 DEF DestroyInv

LEMMA DestroyNext ==
  ASSUME Preemptible \cap EnterLabels = {}, DestroyInv, [Next]_vars
  PROVE  DestroyInv'
<1>1. SemInv'
  BY NextInv DEF DestroyInv
<1>2. CASE System \/ UNCHANGED vars
  BY <1>1, <1>2, DestroyFrozen
<1>3. ASSUME NEW t \in Tasks, Step(t) PROVE DestroyInv'
  <2>1. Running(t) /\ Moves(t)
    BY <1>3, StepMoves DEF DestroyInv
  <2> QED BY <1>1, <1>3, <2>1, DestroyCalls, DestroySteps, DestroyKernel DEF Step
<1> QED BY <1>2, <1>3 DEF Next

LEMMA DestroyInit == Init => DestroyInv
<1> SUFFICES ASSUME Init PROVE DestroyInv
  OBVIOUS
<1>1. pc = [t \in Tasks |-> "user"] /\ active = [s \in Sems |-> 1]
  BY DEF Init, Booted
<1>2. DestroyReleases /\ \A t \in Tasks : DestroyLocal(t)
  BY <1>1 DEF DestroyReleases, DestroyLocal, EnterLabels, KernelLabels
<1> QED BY <1>2, InitInv DEF DestroyInv

(* sem_destroy lets every task go that waits: once it has returned, the     *)
(* queue is empty and stays so, although other tasks call sem_down and      *)
(* sem_up and others destroy the semaphore again, as long as the quantum    *)
(* does not end between the test of active in sem_down and the entry into   *)
(* the queue.  A task preempted there waits in the queue of a destroyed     *)
(* semaphore for good.                                                      *)
THEOREM DestroyReleasesAll ==
  ASSUME Preemptible \cap EnterLabels = {}
  PROVE  Spec => []DestroyReleases
<1>1. Init => DestroyInv
  BY DestroyInit
<1>2. DestroyInv /\ [Next]_vars => DestroyInv'
  BY DestroyNext
<1>3. DestroyInv => DestroyReleases
  BY DEF DestroyInv
<1> QED BY <1>1, <1>2, <1>3, PTL DEF Spec

-----------------------------------------------------------------------------
(* What the proofs about particular programs share.                         *)

Down(s) == [op |-> "down", sem |-> s]
Up(s)   == [op |-> "up", sem |-> s]

(* Task t has passed Down(s) and not Up(s) before the position i.           *)
Holds(t, s, i) ==
  \E k \in 1..i-1 : /\ Program[t][k] = Down(s)
                    /\ \A j \in k..i-1 : Program[t][j] # Up(s)

(* A task gives back what it has taken, takes nothing twice, and nobody     *)
(* destroys a semaphore: a sem_up matches each sem_down, as brackets do.    *)
Bracketed ==
  /\ \A t \in Tasks : \A i \in 1..Len(Program[t]) :
       \E s \in Sems : \/ Program[t][i] = Down(s) /\ ~Holds(t, s, i)
                       \/ Program[t][i] = Up(s) /\ Holds(t, s, i)
  /\ \A t \in Tasks, s \in Sems : ~Holds(t, s, Len(Program[t]) + 1)

(* What a position of the program changes of Holds.                         *)
LEMMA HoldsNext ==
  ASSUME Bracketed, NEW t \in Tasks, NEW s \in Sems, NEW i \in 1..Len(Program[t])
  PROVE  Holds(t, s, i+1) <=> \/ Program[t][i] = Down(s)
                              \/ Program[t][i].sem # s /\ Holds(t, s, i)
<1>0. i \in Int /\ i >= 1 /\ i+1-1 = i
  <2>1. Len(Program[t]) \in Nat
    BY LenProperties, SemaphoreAssumption
  <2> QED BY <2>1
<1>1. PICK r \in Sems : Program[t][i] = Down(r) \/ Program[t][i] = Up(r)
  BY DEF Bracketed
<1>2. CASE Program[t][i] = Down(s)
  <2>1. Program[t][i] # Up(s)
    BY <1>2 DEF Down, Up
  <2>2. i \in 1..i /\ \A j \in i..i : Program[t][j] # Up(s)
    BY <1>0, <2>1
  <2> QED BY <1>0, <1>2, <2>2 DEF Holds
<1>3. CASE Program[t][i] = Up(s)
  <2>1. Program[t][i] # Down(s) /\ Program[t][i].sem = s
    BY <1>3 DEF Down, Up
  <2>2. ~Holds(t, s, i+1)
    <3>1. \A k \in 1..i : i \in k..i
      BY <1>0
    <3> QED BY <1>0, <1>3, <3>1 DEF Holds
  <2> QED BY <2>1, <2>2
<1>4. CASE r # s
  <2>1. Program[t][i].sem = r /\ Program[t][i] # Down(s) /\ Program[t][i] # Up(s)
    <3>1. Program[t][i].sem = r
      BY <1>1 DEF Down, Up
    <3>2. Down(s).sem = s /\ Up(s).sem = s
      BY DEF Down, Up
    <3> QED BY <3>1, <3>2, <1>4
  <2>2. ASSUME Holds(t, s, i+1) PROVE Holds(t, s, i)
    <3>1. PICK k \in 1..i : Program[t][k] = Down(s) /\ \A j \in k..i : Program[t][j] # Up(s)
      BY <1>0, <2>2 DEF Holds
    <3>2. k \in 1..i-1 /\ \A j \in k..i-1 : j \in k..i
      BY <1>0, <2>1, <3>1
    <3> QED BY <3>1, <3>2 DEF Holds
  <2>3. ASSUME Holds(t, s, i) PROVE Holds(t, s, i+1)
    <3>1. PICK k \in 1..i-1 : Program[t][k] = Down(s) /\ \A j \in k..i-1 : Program[t][j] # Up(s)
      BY <2>3 DEF Holds
    <3>2. k \in 1..i /\ \A j \in k..i : j \in k..i-1 \/ j = i
      BY <1>0
    <3> QED BY <1>0, <2>1, <3>1, <3>2 DEF Holds
  <2> QED BY <2>1, <2>2, <2>3, <1>4
<1> QED BY <1>1, <1>2, <1>3, <1>4

LEMMA HoldsAdvance ==
  ASSUME Bracketed, TypeOK, NEW t \in Tasks, NEW s \in Sems, advance(t)
  PROVE  Holds(t, s, ip'[t]) <=> \/ call(t) = "down" /\ sem(t) = s
                                 \/ sem(t) # s /\ Holds(t, s, ip[t])
<1> DEFINE i == ip[t]
<1>1. i \in 1..Len(Program[t]) /\ Len(Program[t]) \in Nat \ {0}
  BY CallTypes
<1>2. ip'[t] = IF i = Len(Program[t]) THEN 1 ELSE i + 1
  BY DEF advance, TypeOK
<1>3. /\ Program[t][i] = Down(s) <=> call(t) = "down" /\ sem(t) = s
      /\ sem(t) = Program[t][i].sem
  <2>1. PICK r \in Sems : Program[t][i] = Down(r) \/ Program[t][i] = Up(r)
    BY <1>1 DEF Bracketed
  <2>2. /\ Down(r).op = "down" /\ Down(r).sem = r /\ Up(r).op = "up" /\ Up(r).sem = r
        /\ Down(s).op = "down" /\ Down(s).sem = s
    BY DEF Down, Up
  <2> QED BY <2>1, <2>2 DEF call, sem
<1> HIDE DEF i
<1>4. Holds(t, s, i+1) <=> \/ Program[t][i] = Down(s)
                           \/ Program[t][i].sem # s /\ Holds(t, s, i)
  BY <1>1, HoldsNext
<1>5. Holds(t, s, i+1) <=> \/ call(t) = "down" /\ sem(t) = s
                           \/ sem(t) # s /\ Holds(t, s, i)
  BY <1>3, <1>4
<1>6. ~Holds(t, s, 1)
  BY DEF Holds
<1>7. CASE i = Len(Program[t])
  <2>1. ~Holds(t, s, i+1)
    BY <1>7 DEF Bracketed
  <2> QED BY <1>2, <1>5, <1>6, <1>7, <2>1 DEF i
<1>8. CASE i # Len(Program[t])
  BY <1>2, <1>5, <1>8 DEF i
<1> QED BY <1>7, <1>8

(* A program calls nothing but sem_down on what it does not hold and sem_up *)
(* on what it holds.                                                        *)
LEMMA CallsAt ==
  ASSUME Bracketed, NEW t \in Tasks, NEW i \in 1..Len(Program[t])
  PROVE  LET c == Program[t][i]
         IN  /\ c.sem \in Sems
             /\ \/ c.op = "down" /\ ~Holds(t, c.sem, i)
                \/ c.op = "up" /\ Holds(t, c.sem, i)
<1>1. PICK s \in Sems : \/ Program[t][i] = Down(s) /\ ~Holds(t, s, i)
                        \/ Program[t][i] = Up(s) /\ Holds(t, s, i)
  BY DEF Bracketed
<1>2. Down(s).op = "down" /\ Down(s).sem = s /\ Up(s).op = "up" /\ Up(s).sem = s
  BY DEF Down, Up
<1> QED BY <1>1, <1>2

LEMMA Calls ==
  ASSUME Bracketed, TypeOK, NEW t \in Tasks
  PROVE  /\ sem(t) \in Sems /\ sem(t) \in Queues /\ sem(t) # "ready"
         /\ \/ call(t) = "down" /\ ~Holds(t, sem(t), ip[t])
            \/ call(t) = "up" /\ Holds(t, sem(t), ip[t])
<1>1. ip[t] \in 1..Len(Program[t])
  BY CallTypes
<1> QED BY <1>1, CallsAt, CallTypes DEF call, sem

(* The labels of the two calls, those of the kernel calls they make included. *)
DownLabels == {"user", "down_lock", "down_load", "down_store", "down_unlock", "down_test",
               "suspend_remove", "suspend_append", "suspend_switch", "sem_return"}
UpLabels   == {"user", "up_lock", "up_load", "up_store", "up_unlock", "up_test", "up_head",
               "resume_remove", "resume_append", "sem_return"}

(* The queue of s holds tasks that wait for s.                              *)
InLine ==
  \A s \in Sems, t \in Tasks : In(s, t) =>
    sem(t) = s /\ call(t) = "down" /\ pc[t] \in {"suspend_switch", "sem_return"}

(* The running task is ready, except on its way into a queue.               *)
RunsFromReady ==
  curr \in Tasks => In("ready", curr) \/ pc[curr] \in {"suspend_append", "suspend_switch"}

-----------------------------------------------------------------------------
(* Semaphores used as mutexes: mutual exclusion for any number of tasks and *)
(* mutexes, nested or not, wherever the quantum ends.                       *)
(*                                                                          *)
(* The argument: the permit of a mutex has one owner at a time, who alone   *)
(* can raise the value or take somebody out of the queue, and the owner     *)
(* passes the permit on at one step, resume_remove.                         *)


(* Every semaphore is a mutex: brackets around it, and a value of 1.        *)
Mutexes == Bracketed /\ \A s \in Sems : InitialValue[s] = 1

-----------------------------------------------------------------------------
(* The permit of s belongs to the task that is between its sem_down(s) and  *)
(* its sem_up(s), has just been granted it, or has not yet handed it on.    *)
Owner(t, s) ==
  \/ Holds(t, s, ip[t]) /\ ~(call(t) = "up" /\ sem(t) = s)
  \/ /\ call(t) = "down" /\ sem(t) = s
     /\ \/ pc[t] \in {"down_unlock", "down_test"} /\ v[t] >= 0
        \/ pc[t] \in {"suspend_switch", "sem_return"} /\ ~In(s, t)
  \/ /\ call(t) = "up" /\ sem(t) = s
     /\ \/ pc[t] \in {"user", "up_lock", "up_load", "up_store"}
        \/ pc[t] \in {"up_unlock", "up_test", "up_head", "resume_remove"} /\ v[t] <= 0

(* u has been taken out of the queue of s and is not ready yet.             *)
Handed(u, s) ==
  /\ u \in Tasks /\ Owner(u, s) /\ call(u) = "down" /\ sem(u) = s
  /\ pc[u] \in {"suspend_switch", "sem_return"}
  /\ curr # u /\ \A q \in Queues : ~In(q, u)

(* What task t knows at its label.                                          *)
MutexLocal(t) ==
  /\ call(t) = "down" => pc[t] \in DownLabels
  /\ call(t) = "up" => pc[t] \in UpLabels
  /\ pc[t] \in KernelLabels => back[t] = "sem_return"
  /\ pc[t] \in {"down_store", "up_store"} => v[t] = value[sem(t)]
  /\ pc[t] \in {"up_head", "resume_remove"} => v[t] <= 0
  /\ pc[t] = "up_head" => \E u \in Tasks : In(sem(t), u)
  /\ pc[t] = "resume_remove" => In(sem(t), arg_task[t])
  /\ pc[t] = "suspend_append" => \A q \in Queues : ~In(q, t)
  /\ pc[t] = "resume_append" => Handed(arg_task[t], sem(t))

(* The permit is unique, and free only if nobody owns it.                   *)
OneOwner == \A s \in Sems : \A t, u \in Tasks : Owner(t, s) /\ Owner(u, s) => t = u

OnePermit ==
  \A s \in Sems : value[s] <= 1 /\ \A t \in Tasks : Owner(t, s) => value[s] <= 0

(* One task at a time is being handed the permit.                           *)
OneHandOver ==
  \A t, u \in Tasks :
    pc[t] = "resume_append" /\ pc[u] = "resume_append" /\ sem(t) = sem(u) => t = u

MutexInv ==
  /\ SemInv
  /\ os = "up" /\ active = [s \in Sems |-> 1]
  /\ \A t \in Tasks : MutexLocal(t)
  /\ OneOwner /\ OnePermit /\ InLine /\ OneHandOver /\ RunsFromReady

-----------------------------------------------------------------------------
(* What t leaves alone.                                                     *)
LEMMA OwnerKept ==
  ASSUME NEW t \in Tasks, Moves(t), NEW u \in Tasks, u # t, NEW s \in Sems,
         In(s, u)' <=> In(s, u)
  PROVE  Owner(u, s)' <=> Owner(u, s)
<1>1. /\ ip'[u] = ip[u] /\ pc'[u] = pc[u] /\ v'[u] = v[u]
      /\ call(u)' = call(u) /\ sem(u)' = sem(u)
  BY CallKept DEF Moves
<1>2. Holds(u, s, ip[u])' <=> Holds(u, s, ip[u])
  BY <1>1 DEF Holds
<1> HIDE DEF Holds
<1> QED BY <1>1, <1>2 DEF Owner

(* The running task is in no queue of a semaphore, but on its way out.      *)
LEMMA RunningOutOfLine ==
  ASSUME MutexInv, NEW t \in Tasks, curr = t, pc[t] # "suspend_switch"
  PROVE  \A s \in Sems : ~In(s, t)
<1>1. ASSUME NEW s \in Sems, In(s, t) PROVE FALSE
  <2>1. pc[t] = "sem_return"
    BY <1>1 DEF MutexInv, InLine
  <2>2. In("ready", t)
    BY <2>1 DEF MutexInv, RunsFromReady
  <2>3. s # "ready" /\ s \in Queues /\ "ready" \in Queues
    BY SemaphoreAssumption DEF Queues
  <2> QED BY <1>1, <2>2, <2>3 DEF MutexInv, SemInv, QueuesOK
<1> QED BY <1>1

(* A step of the running t that stays out of the queues.                    *)
OwnerMoves(t) ==
  \A s \in Sems :
    /\ value'[s] <= 1
    /\ Owner(t, s)' => value'[s] <= 0 /\ (Owner(t, s) \/ value[s] > 0)
    /\ value'[s] = value[s] \/ value'[s] <= 0 \/ Owner(t, s)
    /\ value'[s] = value[s] \/ InLock(t, s)

LEMMA QuietMutex ==
  ASSUME MutexInv, SemInv', NEW t \in Tasks, Running(t), Moves(t), OwnerMoves(t), MutexLocal(t)',
         queues' = queues, curr' = curr, os' = os, active' = active,
         pc[t] \notin {"suspend_append", "suspend_switch"},
         pc'[t] # "resume_append"
  PROVE  MutexInv'
<1>0. curr = t /\ In("ready", t) /\ \A s \in Sems : ~In(s, t)
  <2>1. curr = t
    BY DEF Running
  <2> QED BY <2>1, RunningOutOfLine DEF MutexInv, RunsFromReady
<1>1. \A q, u : In(q, u)' <=> In(q, u)
  BY DEF In
<1>2. \A u \in Tasks, s \in Sems : u # t => (Owner(u, s)' <=> Owner(u, s))
  BY <1>1, OwnerKept
<1>3. ASSUME NEW u \in Tasks, u # t PROVE MutexLocal(u)'
  <2>1. /\ ip'[u] = ip[u] /\ pc'[u] = pc[u] /\ v'[u] = v[u] /\ back'[u] = back[u]
        /\ arg_task'[u] = arg_task[u]
        /\ call(u)' = call(u) /\ sem(u)' = sem(u) /\ sem(u) \in Sems /\ MutexLocal(u)
    BY <1>3, CallKept, CallTypes DEF Moves, MutexInv, SemInv
  <2>2. pc[u] \in {"down_store", "up_store"} => value'[sem(u)] = value[sem(u)]
    <3>1. pc[u] \in {"down_store", "up_store"} => InLock(u, sem(u))
      BY DEF InLock
    <3>2. ~(InLock(u, sem(u)) /\ InLock(t, sem(u)))
      BY <1>3, <2>1 DEF MutexInv, SemInv, LockInv
    <3> QED BY <2>1, <3>1, <3>2 DEF OwnerMoves
  <2>3. pc[u] = "resume_append" => Handed(arg_task[u], sem(u))'
    <3> SUFFICES ASSUME pc[u] = "resume_append" PROVE Handed(arg_task[u], sem(u))'
      OBVIOUS
    <3> DEFINE x == arg_task[u]
    <3>1. Handed(x, sem(u))
      BY <2>1 DEF MutexLocal
    <3>2. x \in Tasks /\ x # t /\ x' = x
      BY <3>1, <1>0, <2>1 DEF Handed
    <3>3. call(x)' = call(x) /\ sem(x)' = sem(x) /\ pc'[x] = pc[x]
      BY <3>2, CallKept DEF Moves
    <3> HIDE DEF x
    <3>4. Handed(x, sem(u))'
      <4>1. Owner(x, sem(u)) /\ Owner(x, sem(u))' 
        BY <3>1, <3>2, <1>2, <2>1 DEF Handed
      <4> QED BY <4>1, <3>1, <3>2, <3>3, <1>1, <2>1 DEF Handed
    <3> QED BY <3>4 DEF x
  <2> QED BY <2>1, <2>2, <2>3, <1>1 DEF MutexLocal
<1>4. \A u \in Tasks : MutexLocal(u)'
  BY <1>3
<1>5. OneOwner'
  <2> SUFFICES ASSUME NEW s \in Sems, NEW u \in Tasks, NEW w \in Tasks,
                      Owner(u, s)', Owner(w, s)'
               PROVE  u = w
    BY DEF OneOwner
  <2>1. value[s] > 0 => \A x \in Tasks : ~Owner(x, s)
    BY DEF MutexInv, OnePermit, SemInv, TypeOK
  <2>2. Owner(t, s)' => Owner(t, s) \/ value[s] > 0
    BY DEF OwnerMoves
  <2> QED BY <1>2, <2>1, <2>2 DEF MutexInv, OneOwner
<1>6. OnePermit'
  <2> SUFFICES ASSUME NEW s \in Sems, NEW u \in Tasks, Owner(u, s)'
               PROVE  value'[s] <= 0
    BY DEF OnePermit, OwnerMoves
  <2>1. CASE u = t
    BY <2>1 DEF OwnerMoves
  <2>2. CASE u # t
    <3>1. Owner(u, s) /\ value[s] <= 0 /\ ~Owner(t, s)
      BY <1>2, <2>2 DEF MutexInv, OnePermit, OneOwner
    <3> QED BY <3>1 DEF OwnerMoves
  <2> QED BY <2>1, <2>2
<1>7. InLine'
  <2> SUFFICES ASSUME NEW s \in Sems, NEW u \in Tasks, In(s, u)
               PROVE  sem(u)' = s /\ call(u)' = "down" /\ pc'[u] \in {"suspend_switch", "sem_return"}
    BY <1>1 DEF InLine
  <2>1. u # t
    BY <1>0
  <2> QED BY <2>1, CallKept DEF Moves, MutexInv, InLine
<1>8. OneHandOver'
  <2> SUFFICES ASSUME NEW u \in Tasks, NEW w \in Tasks, pc'[u] = "resume_append",
                      pc'[w] = "resume_append", sem(u)' = sem(w)'
               PROVE  u = w
    BY DEF OneHandOver
  <2>1. u # t /\ w # t
    OBVIOUS
  <2> QED BY <2>1, CallKept DEF Moves, MutexInv, OneHandOver
<1>9. RunsFromReady'
  BY <1>0, <1>1 DEF RunsFromReady
<1> QED BY <1>4, <1>5, <1>6, <1>7, <1>8, <1>9 DEF MutexInv

-----------------------------------------------------------------------------
(* The steps of sem_down and sem_up one by one.                             *)
LEMMA ReturnMutex ==
  ASSUME Mutexes, MutexInv, SemInv', NEW t \in Tasks, Running(t), return(t),
         UNCHANGED <<coreVars, argVars, semVars>>,
         pc[t] \notin {"suspend_append", "suspend_switch"},
         call(t) = "down" => Owner(t, sem(t))
  PROVE  MutexInv'
<1>1. /\ \A u \in Tasks : u # t => pc'[u] = pc[u] /\ ip'[u] = ip[u] /\ v'[u] = v[u]
      /\ pc'[t] = "user"
  BY GotoTypes, AdvanceTypes DEF MutexInv, SemInv, return, SemLabels
<1>2. Moves(t) /\ queues' = queues /\ curr' = curr /\ os' = os /\ active' = active /\ value' = value
  BY <1>1 DEF Moves, coreVars, argVars, semVars
<1>3. MutexLocal(t)'
  BY <1>1 DEF MutexLocal, DownLabels, UpLabels, KernelLabels
<1>4. ASSUME NEW s \in Sems, Owner(t, s)' PROVE Owner(t, s)
  <2>1. ip'[t] \in 1..Len(Program[t])
    BY DEF SemInv, TypeOK
  <2>2. Holds(t, s, ip'[t])
    <3>1. CASE Holds(t, s, ip[t])'
      BY <3>1 DEF Holds
    <3>2. CASE call(t)' = "up" /\ sem(t)' = s
      BY <2>1, <3>2, CallsAt DEF call, sem, Mutexes
    <3> HIDE DEF Holds
    <3> QED BY <1>1, <1>4, <3>1, <3>2 DEF Owner
  <2>3. (call(t) = "down" /\ sem(t) = s) \/ (sem(t) # s /\ Holds(t, s, ip[t]))
    <3>1. advance(t) /\ TypeOK
      BY DEF MutexInv, SemInv, return
    <3> QED BY <2>2, <3>1, HoldsAdvance DEF Mutexes
  <2> QED BY <2>3 DEF Owner
<1>5. OwnerMoves(t)
  BY <1>2, <1>4 DEF OwnerMoves, MutexInv, OnePermit
<1> QED BY <1>1, <1>2, <1>3, <1>5, QuietMutex

(* A step within a call.                                                    *)
LEMMA WithinCall ==
  ASSUME MutexInv, SemInv', NEW t \in Tasks, Running(t), Moves(t), MutexLocal(t)',
         ip' = ip, queues' = queues, curr' = curr, os' = os, active' = active, value' = value,
         pc[t] \notin {"suspend_append", "suspend_switch"}, pc'[t] # "resume_append",
         \A s \in Sems : Owner(t, s)' => Owner(t, s)
  PROVE  MutexInv'
<1>1. OwnerMoves(t)
  BY DEF OwnerMoves, MutexInv, OnePermit
<1> QED BY <1>1, QuietMutex

(* The test of active, the lock, the load and the unlock move no permit.    *)
LEMMA EnterMutex ==
  ASSUME Mutexes, MutexInv, SemInv', NEW t \in Tasks, sem_down(t) \/ sem_up(t)
  PROVE  MutexInv'
<1> DEFINE l == pc'[t]
<1>1. /\ Running(t) /\ pc[t] = "user" /\ UNCHANGED <<coreVars, argVars, semVars, userVars>>
      /\ \/ call(t) = "down" /\ Goto(t, "down_lock")
         \/ call(t) = "up" /\ Goto(t, "up_lock")
  <2>1. active[sem(t)] = 1
    BY CallTypes DEF MutexInv, SemInv
  <2> QED BY <2>1 DEF sem_down, sem_up, enter_call, At
<1>2. /\ (call(t) = "down" /\ l = "down_lock") \/ (call(t) = "up" /\ l = "up_lock")
      /\ \A u \in Tasks : u # t => pc'[u] = pc[u]
  BY <1>1 DEF Goto, MutexInv, SemInv, TypeOK, KernelTypeOK
<1>3. Moves(t) /\ queues' = queues /\ curr' = curr /\ os' = os /\ active' = active /\ value' = value
      /\ ip' = ip /\ v' = v
  BY <1>1, <1>2 DEF Moves, coreVars, argVars, semVars, userVars
<1>4. call(t)' = call(t) /\ sem(t)' = sem(t)
  BY <1>3, CallKept
<1>5. MutexLocal(t)'
  BY <1>2, <1>4 DEF MutexLocal, DownLabels, UpLabels, KernelLabels
<1>6. \A s \in Sems : Owner(t, s)' => Owner(t, s)
  BY <1>1, <1>2, <1>3, <1>4 DEF Owner, Holds
<1> QED BY <1>1, <1>2, <1>3, <1>5, <1>6, WithinCall

LEMMA LockMutex ==
  ASSUME Mutexes, MutexInv, SemInv', NEW t \in Tasks, down_lock(t) \/ up_lock(t)
  PROVE  MutexInv'
<1> DEFINE l == pc'[t]
<1>1. /\ Running(t) /\ UNCHANGED <<coreVars, argVars, value, active, userVars>>
      /\ \/ pc[t] = "down_lock" /\ Goto(t, "down_load")
         \/ pc[t] = "up_lock" /\ Goto(t, "up_load")
  BY DEF down_lock, up_lock, lock_step, At
<1>2. /\ (pc[t] = "down_lock" /\ l = "down_load") \/ (pc[t] = "up_lock" /\ l = "up_load")
      /\ \A u \in Tasks : u # t => pc'[u] = pc[u]
  BY <1>1 DEF Goto, MutexInv, SemInv, TypeOK, KernelTypeOK
<1>3. Moves(t) /\ queues' = queues /\ curr' = curr /\ os' = os /\ active' = active /\ value' = value
      /\ ip' = ip /\ v' = v
  BY <1>1, <1>2 DEF Moves, coreVars, argVars, userVars
<1>4. call(t)' = call(t) /\ sem(t)' = sem(t)
  BY <1>3, CallKept
<1>5. MutexLocal(t)'
  BY <1>2, <1>4 DEF MutexLocal, DownLabels, UpLabels, KernelLabels, MutexInv
<1>6. \A s \in Sems : Owner(t, s)' => Owner(t, s)
  BY <1>1, <1>2, <1>3, <1>4 DEF Owner, Holds
<1> QED BY <1>1, <1>2, <1>3, <1>5, <1>6, WithinCall

LEMMA LoadMutex ==
  ASSUME Mutexes, MutexInv, SemInv', NEW t \in Tasks, down_load(t) \/ up_load(t)
  PROVE  MutexInv'
<1> DEFINE l == pc'[t]
<1>1. /\ Running(t) /\ UNCHANGED <<coreVars, argVars, semVars, ip>>
      /\ v' = [v EXCEPT ![t] = value[sem(t)]]
      /\ \/ pc[t] = "down_load" /\ Goto(t, "down_store")
         \/ pc[t] = "up_load" /\ Goto(t, "up_store")
  BY DEF down_load, up_load, load_step, At
<1>2. /\ (pc[t] = "down_load" /\ l = "down_store") \/ (pc[t] = "up_load" /\ l = "up_store")
      /\ \A u \in Tasks : u # t => pc'[u] = pc[u]
  BY <1>1 DEF Goto, MutexInv, SemInv, TypeOK, KernelTypeOK
<1>3. Moves(t) /\ queues' = queues /\ curr' = curr /\ os' = os /\ active' = active /\ value' = value
      /\ ip' = ip /\ v'[t] = value[sem(t)]
  BY <1>1, <1>2 DEF Moves, coreVars, argVars, semVars, MutexInv, SemInv, TypeOK
<1>4. call(t)' = call(t) /\ sem(t)' = sem(t)
  BY <1>3, CallKept
<1>5. MutexLocal(t)'
  BY <1>2, <1>3, <1>4 DEF MutexLocal, DownLabels, UpLabels, KernelLabels, MutexInv
<1>6. \A s \in Sems : Owner(t, s)' => Owner(t, s)
  BY <1>1, <1>2, <1>3, <1>4 DEF Owner, Holds
<1> QED BY <1>1, <1>2, <1>3, <1>5, <1>6, WithinCall

LEMMA UnlockMutex ==
  ASSUME Mutexes, MutexInv, SemInv', NEW t \in Tasks, down_unlock(t) \/ up_unlock(t)
  PROVE  MutexInv'
<1> DEFINE l == pc'[t]
<1>1. /\ Running(t) /\ UNCHANGED <<coreVars, argVars, value, active, userVars>>
      /\ \/ pc[t] = "down_unlock" /\ Goto(t, "down_test")
         \/ pc[t] = "up_unlock" /\ Goto(t, "up_test")
  BY DEF down_unlock, up_unlock, unlock_step, At
<1>2. /\ (pc[t] = "down_unlock" /\ l = "down_test") \/ (pc[t] = "up_unlock" /\ l = "up_test")
      /\ \A u \in Tasks : u # t => pc'[u] = pc[u]
  BY <1>1 DEF Goto, MutexInv, SemInv, TypeOK, KernelTypeOK
<1>3. Moves(t) /\ queues' = queues /\ curr' = curr /\ os' = os /\ active' = active /\ value' = value
      /\ ip' = ip /\ v' = v
  BY <1>1, <1>2 DEF Moves, coreVars, argVars, userVars
<1>4. call(t)' = call(t) /\ sem(t)' = sem(t)
  BY <1>3, CallKept
<1>5. MutexLocal(t)'
  BY <1>2, <1>4 DEF MutexLocal, DownLabels, UpLabels, KernelLabels, MutexInv
<1>6. \A s \in Sems : Owner(t, s)' => Owner(t, s)
  BY <1>1, <1>2, <1>3, <1>4 DEF Owner, Holds
<1> QED BY <1>1, <1>2, <1>3, <1>5, <1>6, WithinCall

(* sem_down takes the permit if it finds one, sem_up of the owner gives it  *)
(* back or keeps it for the line.                                           *)
LEMMA DownStoreMutex ==
  ASSUME Mutexes, MutexInv, SemInv', NEW t \in Tasks, down_store(t)
  PROVE  MutexInv'
<1> DEFINE s == sem(t)
<1>1. /\ Running(t) /\ pc[t] = "down_store" /\ Goto(t, "down_unlock")
      /\ value' = [value EXCEPT ![s] = v[t] + (-1)] /\ v' = [v EXCEPT ![t] = v[t] + (-1)]
      /\ UNCHANGED <<coreVars, argVars, lock, active, ip>>
  BY DEF down_store, store_step, At
<1>2. pc'[t] = "down_unlock" /\ \A u \in Tasks : u # t => pc'[u] = pc[u]
  BY <1>1 DEF Goto, MutexInv, SemInv, TypeOK, KernelTypeOK
<1>3. s \in Sems /\ value[s] \in Int /\ v[t] = value[s] /\ value[s] <= 1
  BY <1>1, CallTypes DEF MutexInv, SemInv, TypeOK, MutexLocal, OnePermit
<1>4. /\ value'[s] = value[s] - 1 /\ v'[t] = value[s] - 1
      /\ \A r \in Sems : r # s => value'[r] = value[r]
  BY <1>1, <1>3 DEF MutexInv, SemInv, TypeOK
<1>5. Moves(t) /\ queues' = queues /\ curr' = curr /\ os' = os /\ active' = active /\ ip' = ip
  BY <1>1, <1>2 DEF Moves, coreVars, argVars, MutexInv, SemInv, TypeOK
<1>6. call(t)' = call(t) /\ sem(t)' = s
  BY <1>5, CallKept
<1>7. MutexLocal(t)'
  BY <1>1, <1>2, <1>6 DEF MutexLocal, DownLabels, UpLabels, KernelLabels, MutexInv
<1>8. OwnerMoves(t)
  <2>1. ASSUME NEW r \in Sems, r # s, Owner(t, r)' PROVE Owner(t, r)
    BY <2>1, <1>1, <1>2, <1>5, <1>6 DEF Owner, Holds
  <2>2. ASSUME NEW r \in Sems, r = s, Owner(t, r)' PROVE Owner(t, r) \/ value[r] > 0
    BY <2>2, <1>1, <1>2, <1>3, <1>4, <1>5, <1>6 DEF Owner, Holds
  <2>3. InLock(t, s)
    BY <1>1 DEF InLock
  <2>4. value'[s] <= 0
    BY <1>3, <1>4
  <2>5. \A r \in Sems : value[r] <= 1 /\ (Owner(t, r) => value[r] <= 0)
    BY DEF MutexInv, OnePermit
  <2> SUFFICES ASSUME NEW r \in Sems
               PROVE  /\ value'[r] <= 1
                      /\ Owner(t, r)' => value'[r] <= 0 /\ (Owner(t, r) \/ value[r] > 0)
                      /\ value'[r] = value[r] \/ value'[r] <= 0 \/ Owner(t, r)
                      /\ value'[r] = value[r] \/ InLock(t, r)
    BY DEF OwnerMoves
  <2>6. CASE r = s
    BY <2>2, <2>3, <2>4, <2>6, <1>3, <1>4
  <2>7. CASE r # s
    BY <2>1, <2>5, <2>7, <1>4
  <2> QED BY <2>6, <2>7
<1> QED BY <1>1, <1>2, <1>5, <1>7, <1>8, QuietMutex

LEMMA UpStoreMutex ==
  ASSUME Mutexes, MutexInv, SemInv', NEW t \in Tasks, up_store(t)
  PROVE  MutexInv'
<1> DEFINE s == sem(t)
<1>1. /\ Running(t) /\ pc[t] = "up_store" /\ Goto(t, "up_unlock")
      /\ value' = [value EXCEPT ![s] = v[t] + 1] /\ v' = [v EXCEPT ![t] = v[t] + 1]
      /\ UNCHANGED <<coreVars, argVars, lock, active, ip>>
  BY DEF up_store, store_step, At
<1>2. pc'[t] = "up_unlock" /\ \A u \in Tasks : u # t => pc'[u] = pc[u]
  BY <1>1 DEF Goto, MutexInv, SemInv, TypeOK, KernelTypeOK
<1>3. /\ s \in Sems /\ value[s] \in Int /\ v[t] = value[s]
      /\ call(t) = "up" /\ Owner(t, s) /\ value[s] <= 0
  <2>1. s \in Sems /\ value[s] \in Int /\ v[t] = value[s] /\ MutexLocal(t)
    BY <1>1, CallTypes DEF MutexInv, SemInv, TypeOK, MutexLocal
  <2>2. call(t) = "up"
    BY <1>1, <2>1, Calls DEF MutexLocal, DownLabels, MutexInv, SemInv, Mutexes
  <2>3. Owner(t, s)
    BY <1>1, <2>2 DEF Owner
  <2> QED BY <2>1, <2>2, <2>3 DEF MutexInv, OnePermit
<1>4. /\ value'[s] = value[s] + 1 /\ v'[t] = value[s] + 1
      /\ \A r \in Sems : r # s => value'[r] = value[r]
  BY <1>1, <1>3 DEF MutexInv, SemInv, TypeOK
<1>5. Moves(t) /\ queues' = queues /\ curr' = curr /\ os' = os /\ active' = active /\ ip' = ip
  BY <1>1, <1>2 DEF Moves, coreVars, argVars, MutexInv, SemInv, TypeOK
<1>6. call(t)' = call(t) /\ sem(t)' = s
  BY <1>5, CallKept
<1>7. MutexLocal(t)'
  BY <1>1, <1>2, <1>3, <1>6 DEF MutexLocal, DownLabels, UpLabels, KernelLabels, MutexInv
<1>8. OwnerMoves(t)
  <2>1. ASSUME NEW r \in Sems, r # s, Owner(t, r)' PROVE Owner(t, r)
    BY <2>1, <1>1, <1>2, <1>5, <1>6 DEF Owner, Holds
  <2>2. ASSUME NEW r \in Sems, r = s, Owner(t, r)' PROVE value'[r] <= 0
    BY <2>2, <1>1, <1>2, <1>3, <1>4, <1>5, <1>6 DEF Owner, Holds
  <2>3. InLock(t, s)
    BY <1>1 DEF InLock
  <2>4. value'[s] <= 1
    BY <1>3, <1>4
  <2>5. \A r \in Sems : value[r] <= 1 /\ (Owner(t, r) => value[r] <= 0)
    BY DEF MutexInv, OnePermit
  <2> SUFFICES ASSUME NEW r \in Sems
               PROVE  /\ value'[r] <= 1
                      /\ Owner(t, r)' => value'[r] <= 0 /\ (Owner(t, r) \/ value[r] > 0)
                      /\ value'[r] = value[r] \/ value'[r] <= 0 \/ Owner(t, r)
                      /\ value'[r] = value[r] \/ InLock(t, r)
    BY DEF OwnerMoves
  <2>6. CASE r = s
    BY <2>2, <2>3, <2>4, <2>6, <1>3, <1>4
  <2>7. CASE r # s
    BY <2>1, <2>5, <2>7, <1>4
  <2> QED BY <2>6, <2>7
<1> QED BY <1>1, <1>2, <1>5, <1>7, <1>8, QuietMutex

LEMMA DownTestMutex ==
  ASSUME Mutexes, MutexInv, SemInv', NEW t \in Tasks, down_test(t)
  PROVE  MutexInv'
<1>1. /\ Running(t) /\ pc[t] = "down_test" /\ call(t) = "down" /\ v[t] \in Int
  BY Calls DEF down_test, At, MutexInv, SemInv, TypeOK, MutexLocal, UpLabels, Mutexes
<1>2. CASE /\ v[t] < 0 /\ call_suspend(t, sem(t), "sem_return")
           /\ UNCHANGED <<coreVars, semVars, userVars>>
  <2>1. /\ pc'[t] = "suspend_remove" /\ back'[t] = "sem_return"
        /\ \A u \in Tasks : u # t => /\ pc'[u] = pc[u] /\ back'[u] = back[u]
                                   /\ arg_queue'[u] = arg_queue[u] /\ arg_task'[u] = arg_task[u]
    BY <1>2 DEF call_suspend, Goto, MutexInv, SemInv, TypeOK, KernelTypeOK
  <2>2. Moves(t) /\ queues' = queues /\ curr' = curr /\ os' = os /\ active' = active /\ value' = value
        /\ ip' = ip /\ v' = v
    BY <1>2, <2>1 DEF Moves, coreVars, semVars, userVars
  <2>3. call(t)' = call(t) /\ sem(t)' = sem(t)
    BY <2>2, CallKept
  <2>4. MutexLocal(t)'
    BY <1>1, <2>1, <2>3 DEF MutexLocal, DownLabels, UpLabels
  <2>5. \A s \in Sems : Owner(t, s)' => Owner(t, s)
    BY <1>1, <2>1, <2>2, <2>3 DEF Owner, Holds
  <2> QED BY <1>1, <2>1, <2>2, <2>4, <2>5, WithinCall
<1>3. CASE ~(v[t] < 0) /\ return(t) /\ UNCHANGED <<coreVars, argVars, semVars>>
  <2>1. Owner(t, sem(t))
    BY <1>1, <1>3 DEF Owner
  <2> QED BY <1>1, <1>3, <2>1, ReturnMutex
<1> QED BY <1>2, <1>3 DEF down_test, must_wait, argVars

LEMMA SemReturnMutex ==
  ASSUME Mutexes, MutexInv, SemInv', NEW t \in Tasks, sem_return(t)
  PROVE  MutexInv'
<1>1. /\ Running(t) /\ pc[t] = "sem_return" /\ return(t) /\ curr = t
      /\ UNCHANGED <<coreVars, argVars, semVars>>
  BY DEF sem_return, At, Running
<1>2. call(t) = "down" => Owner(t, sem(t))
  <2>1. ~In(sem(t), t)
    BY <1>1, RunningOutOfLine, CallTypes DEF MutexInv, SemInv
  <2> QED BY <1>1, <2>1 DEF Owner
<1> QED BY <1>1, <1>2, ReturnMutex

(* s->queue is null when nobody is in the queue.                            *)
LEMMA NotEmpty ==
  ASSUME QueuesOK, NEW q \in Queues
  PROVE  queues[q] # << >> <=> \E u \in Tasks : In(q, u)
<1>1. ASSUME queues[q] # << >> PROVE \E u \in Tasks : In(q, u)
  BY <1>1, HeadIn
<1>2. ASSUME queues[q] = << >>, NEW u, In(q, u) PROVE FALSE
  BY <1>2, EmptySeq DEF In, Contains
<1> QED BY <1>1, <1>2

LEMMA UpTestMutex ==
  ASSUME Mutexes, MutexInv, SemInv', NEW t \in Tasks, up_test(t)
  PROVE  MutexInv'
<1>1. /\ Running(t) /\ pc[t] = "up_test" /\ call(t) = "up"
      /\ UNCHANGED <<coreVars, argVars, semVars>>
  BY Calls DEF up_test, At, MutexInv, SemInv, MutexLocal, DownLabels, Mutexes
<1>2. CASE v[t] <= 0 /\ queues[sem(t)] # << >> /\ Goto(t, "up_head") /\ UNCHANGED userVars
  <2>1. pc'[t] = "up_head" /\ \A u \in Tasks : u # t => pc'[u] = pc[u]
    BY <1>2 DEF Goto, MutexInv, SemInv, TypeOK, KernelTypeOK
  <2>2. Moves(t) /\ queues' = queues /\ curr' = curr /\ os' = os /\ active' = active /\ value' = value
        /\ ip' = ip /\ v' = v
    BY <1>1, <1>2, <2>1 DEF Moves, coreVars, argVars, semVars, userVars
  <2>3. call(t)' = call(t) /\ sem(t)' = sem(t)
    BY <2>2, CallKept
  <2>4. \E u \in Tasks : In(sem(t), u)
    BY <1>2, NotEmpty, CallTypes DEF MutexInv, SemInv
  <2>5. MutexLocal(t)'
    BY <1>1, <1>2, <2>1, <2>2, <2>3, <2>4 DEF MutexLocal, DownLabels, UpLabels, KernelLabels, In
  <2>6. \A s \in Sems : Owner(t, s)' => Owner(t, s)
    BY <1>1, <2>1, <2>2, <2>3 DEF Owner, Holds
  <2> QED BY <1>1, <2>1, <2>2, <2>5, <2>6, WithinCall
<1>3. CASE return(t)
  BY <1>1, <1>3, ReturnMutex
<1> QED BY <1>2, <1>3 DEF up_test, someone_waits

LEMMA UpHeadMutex ==
  ASSUME Mutexes, MutexInv, SemInv', NEW t \in Tasks, up_head(t)
  PROVE  MutexInv'
<1>1. /\ Running(t) /\ pc[t] = "up_head" /\ call(t) = "up"
      /\ call_resume(t, head_of(sem(t)), sem(t), "sem_return")
      /\ UNCHANGED <<curr, queues, status, prioVars, timeVars, user_tasks_num, semVars, userVars>>
  BY Calls DEF up_head, resume_head, At, MutexInv, SemInv, MutexLocal, DownLabels, Mutexes
<1> DEFINE x == Head(queues[sem(t)])
<1>2. head_of(sem(t)) = x /\ x \in Tasks /\ x # NULL /\ In(sem(t), x)
  <2>1. queues[sem(t)] # << >> /\ sem(t) \in Queues
    BY <1>1, NotEmpty, CallTypes DEF MutexInv, SemInv, MutexLocal
  <2> QED BY <2>1, HeadIn, KernelAssumption DEF head_of, MutexInv, SemInv
<1> HIDE DEF x
<1>3. /\ Goto(t, "resume_remove") /\ os' = os
      /\ arg_task' = [arg_task EXCEPT ![t] = x]
      /\ arg_queue' = [arg_queue EXCEPT ![t] = sem(t)]
      /\ back' = [back EXCEPT ![t] = "sem_return"]
  BY <1>1, <1>2 DEF call_resume
<1>4. /\ pc'[t] = "resume_remove" /\ back'[t] = "sem_return" /\ arg_task'[t] = x
      /\ \A u \in Tasks : u # t => /\ pc'[u] = pc[u] /\ back'[u] = back[u]
                                 /\ arg_queue'[u] = arg_queue[u] /\ arg_task'[u] = arg_task[u]
  BY <1>3 DEF Goto, MutexInv, SemInv, TypeOK, KernelTypeOK
<1>5. Moves(t) /\ queues' = queues /\ curr' = curr /\ active' = active /\ value' = value
      /\ ip' = ip /\ v' = v
  BY <1>1, <1>4 DEF Moves, semVars, userVars
<1>6. call(t)' = call(t) /\ sem(t)' = sem(t)
  BY <1>5, CallKept
<1>7. MutexLocal(t)'
  BY <1>1, <1>2, <1>4, <1>5, <1>6 DEF MutexLocal, DownLabels, UpLabels, In, MutexInv
<1>8. \A s \in Sems : Owner(t, s)' => Owner(t, s)
  BY <1>1, <1>4, <1>5, <1>6 DEF Owner, Holds
<1> QED BY <1>1, <1>3, <1>4, <1>5, <1>7, <1>8, WithinCall

-----------------------------------------------------------------------------
(* The steps of task_suspend and of task_resume change the queues.          *)

(* A step of t leaves the frame of u alone; what u relies on in the queues  *)
(* is untouched.                                                            *)
LEMMA OthersLocal ==
  ASSUME MutexInv, NEW t \in Tasks, Moves(t), value' = value, curr = t,
         NEW u \in Tasks, u # t,
         \A s \in Sems, w \in Tasks :
           pc[u] \in {"up_head", "resume_remove"} /\ sem(u) = s /\ In(s, w) => In(s, w)',
         pc[u] = "suspend_append" => \A q \in Queues : ~In(q, u)',
         \A x \in Tasks : pc[u] = "resume_append" /\ arg_task[u] = x =>
           curr' # x /\ \A q \in Queues : ~In(q, x)'
  PROVE  MutexLocal(u)'
<1>1. /\ ip'[u] = ip[u] /\ pc'[u] = pc[u] /\ v'[u] = v[u] /\ back'[u] = back[u]
      /\ arg_task'[u] = arg_task[u]
      /\ call(u)' = call(u) /\ sem(u)' = sem(u) /\ sem(u) \in Sems /\ MutexLocal(u)
  BY CallKept, CallTypes DEF Moves, MutexInv, SemInv
<1>2. pc[u] = "resume_append" => Handed(arg_task[u], sem(u))'
  <2> SUFFICES ASSUME pc[u] = "resume_append" PROVE Handed(arg_task[u], sem(u))'
    OBVIOUS
  <2>1. PICK x \in Tasks : x = arg_task[u] /\ Handed(x, sem(u))
    BY <1>1 DEF MutexLocal, Handed
  <2>2. PICK s \in Sems : s = sem(u) /\ Handed(x, s)
    BY <1>1, <2>1
  <2>3. x # t /\ ~In(s, x) /\ s \in Queues
    BY <2>2, SemaphoreAssumption DEF Handed, Queues
  <2>4. ~In(s, x)'
    BY <2>1, <2>3
  <2>5. Owner(x, s)'
    BY <2>2, <2>3, <2>4, OwnerKept DEF Handed
  <2>6. call(x)' = call(x) /\ sem(x)' = sem(x) /\ pc'[x] = pc[x]
    BY <2>3, CallKept DEF Moves
  <2>7. Handed(x, s)'
    BY <2>1, <2>2, <2>5, <2>6 DEF Handed
  <2>8. arg_task'[u] = x /\ sem(u)' = s
    BY <1>1, <2>1, <2>2
  <2> HIDE DEF Handed
  <2> QED BY <2>7, <2>8 DEF Handed
<1>3. pc[u] = "up_head" => \E w \in Tasks : In(sem(u), w)'
  <2>1. \A s \in Sems : s = sem(u) /\ pc[u] = "up_head" => \E w \in Tasks : In(s, w)'
    BY <1>1 DEF MutexLocal
  <2> QED BY <1>1, <2>1 DEF In
<1>4. pc[u] = "resume_remove" => In(sem(u), arg_task[u])'
  <2>1. \A s \in Sems, w \in Tasks :
          s = sem(u) /\ w = arg_task[u] /\ pc[u] = "resume_remove" => In(s, w)'
    BY <1>1 DEF MutexLocal
  <2>2. pc[u] = "resume_remove" => arg_task[u] \in Tasks
    BY DEF MutexInv, SemInv, Frame
  <2> QED BY <1>1, <2>1, <2>2 DEF In
<1> QED BY <1>1, <1>2, <1>3, <1>4 DEF MutexLocal, In

(* Nobody becomes an owner; the lines; nobody starts a hand-over.           *)
LEMMA OwnersAfter ==
  ASSUME MutexInv, value' = value, \A w \in Tasks, s \in Sems : Owner(w, s)' => Owner(w, s)
  PROVE  OneOwner' /\ OnePermit'
<1>1. OneOwner'
  BY DEF OneOwner, MutexInv
<1>2. OnePermit'
  BY DEF OnePermit, MutexInv
<1> QED BY <1>1, <1>2

LEMMA InLineAfter ==
  ASSUME MutexInv, NEW t \in Tasks, Moves(t),
         \A s \in Sems, w \in Tasks : In(s, w)' /\ w # t => In(s, w),
         \A s \in Sems : In(s, t)' =>
           sem(t)' = s /\ call(t)' = "down" /\ pc'[t] \in {"suspend_switch", "sem_return"}
  PROVE  InLine'
<1> SUFFICES ASSUME NEW s \in Sems, NEW u \in Tasks, In(s, u)'
             PROVE  sem(u)' = s /\ call(u)' = "down" /\ pc'[u] \in {"suspend_switch", "sem_return"}
  BY DEF InLine
<1>1. CASE u # t
  BY <1>1, CallKept DEF Moves, MutexInv, InLine
<1>2. CASE u = t
  BY <1>2 DEF In
<1> QED BY <1>1, <1>2

LEMMA OneHandOverAfter ==
  ASSUME MutexInv, NEW t \in Tasks, Moves(t), pc'[t] # "resume_append"
  PROVE  OneHandOver'
<1> SUFFICES ASSUME NEW u \in Tasks, NEW w \in Tasks, pc'[u] = "resume_append",
                    pc'[w] = "resume_append", sem(u)' = sem(w)'
             PROVE  u = w
  BY DEF OneHandOver
<1>1. u # t /\ w # t
  OBVIOUS
<1> QED BY <1>1, CallKept DEF Moves, MutexInv, OneHandOver

LEMMA QueueNames == "ready" \in Queues /\ \A s \in Sems : s \in Queues /\ s # "ready"
BY SemaphoreAssumption DEF Queues

(* task_suspend: out of the ready queue, into the line, away.               *)
LEMMA SuspendRemoveMutex ==
  ASSUME Mutexes, MutexInv, SemInv', NEW t \in Tasks, suspend_remove(t),
         UNCHANGED <<semVars, userVars>>
  PROVE  MutexInv'
<1>1. /\ curr = t /\ pc[t] = "suspend_remove" /\ queue_remove("ready", t)
      /\ Goto(t, "suspend_append") /\ curr' = curr /\ os' = os
      /\ UNCHANGED <<argVars, semVars, userVars>>
  BY DEF suspend_remove, Running
<1>2. pc'[t] = "suspend_append" /\ \A u \in Tasks : u # t => pc'[u] = pc[u]
  BY <1>1 DEF Goto, MutexInv, SemInv, TypeOK, KernelTypeOK
<1>3. Moves(t) /\ ip' = ip /\ v' = v /\ value' = value /\ active' = active /\ back' = back
  BY <1>1, <1>2 DEF Moves, argVars, semVars, userVars
<1>4. call(t)' = call(t) /\ sem(t)' = sem(t) /\ call(t) = "down"
  BY <1>1, <1>3, CallKept, Calls DEF MutexInv, SemInv, MutexLocal, UpLabels, Mutexes
<1>5. \A p \in Queues, u \in Tasks : In(p, u)' <=> In(p, u) /\ ~(p = "ready" /\ u = t)
  BY <1>1, QueueNames, RemoveMembers DEF MutexInv, SemInv
<1>6. \A s \in Sems, u \in Tasks : In(s, u)' <=> In(s, u)
  BY <1>5, QueueNames
<1>7. \A q \in Queues : ~In(q, t)'
  <2>1. \A q \in Queues : In(q, t) => q = "ready"
    <3>1. In("ready", t) /\ "ready" \in Queues
      BY <1>1, QueueNames DEF MutexInv, RunsFromReady
    <3> QED BY <3>1 DEF MutexInv, SemInv, QueuesOK
  <2> QED BY <1>5, <2>1
<1>8. MutexLocal(t)'
  BY <1>1, <1>2, <1>3, <1>4, <1>7 DEF MutexLocal, DownLabels, KernelLabels, MutexInv
<1>9. \A u \in Tasks : MutexLocal(u)'
  <2> SUFFICES ASSUME NEW u \in Tasks, u # t PROVE MutexLocal(u)'
    BY <1>8
  <2>1. pc[u] = "suspend_append" => \A q \in Queues : ~In(q, u)'
    BY <1>5 DEF MutexInv, MutexLocal
  <2>2. \A x \in Tasks : pc[u] = "resume_append" /\ arg_task[u] = x =>
          curr' # x /\ \A q \in Queues : ~In(q, x)'
    BY <1>1, <1>5 DEF MutexInv, MutexLocal, Handed
  <2> QED BY <1>1, <1>3, <1>6, <2>1, <2>2, OthersLocal
<1>10. OneOwner' /\ OnePermit'
  <2>1. \A s \in Sems : Owner(t, s)' => Owner(t, s)
    BY <1>2, <1>3, <1>4 DEF Owner, Holds
  <2>2. \A w \in Tasks, s \in Sems : Owner(w, s)' => Owner(w, s)
    <3> SUFFICES ASSUME NEW w \in Tasks, NEW s \in Sems, w # t, Owner(w, s)' PROVE Owner(w, s)
      BY <2>1
    <3> QED BY <1>3, <1>6, OwnerKept
  <2> QED BY <1>3, <2>2, OwnersAfter
<1>11. InLine'
  BY <1>3, <1>6, <1>7, QueueNames, InLineAfter
<1>12. OneHandOver' /\ RunsFromReady'
  BY <1>1, <1>2, <1>3, OneHandOverAfter DEF RunsFromReady
<1> QED BY <1>1, <1>3, <1>9, <1>10, <1>11, <1>12 DEF MutexInv

LEMMA SuspendAppendMutex ==
  ASSUME Mutexes, MutexInv, SemInv', NEW t \in Tasks, suspend_append(t),
         UNCHANGED <<semVars, userVars>>
  PROVE  MutexInv'
<1>1. /\ curr = t /\ pc[t] = "suspend_append" /\ queue_append(sem(t), t)
      /\ Goto(t, "suspend_switch") /\ curr' = curr /\ os' = os
      /\ UNCHANGED <<argVars, semVars, userVars>>
  BY Calls DEF suspend_append, Running, Mutexes, MutexInv, SemInv, Frame, KernelLabels
<1>2. pc'[t] = "suspend_switch" /\ \A u \in Tasks : u # t => pc'[u] = pc[u]
  BY <1>1 DEF Goto, MutexInv, SemInv, TypeOK, KernelTypeOK
<1>3. Moves(t) /\ ip' = ip /\ v' = v /\ value' = value /\ active' = active /\ back' = back
  BY <1>1, <1>2 DEF Moves, argVars, semVars, userVars
<1>4. /\ call(t)' = call(t) /\ sem(t)' = sem(t) /\ call(t) = "down"
      /\ sem(t) \in Sems /\ sem(t) \in Queues
  BY <1>1, <1>3, CallKept, Calls DEF MutexInv, SemInv, MutexLocal, UpLabels, Mutexes
<1>5. \A p \in Queues, u \in Tasks : In(p, u)' <=> In(p, u) \/ (p = sem(t) /\ u = t)
  <2>1. ~Linked(t)
    BY <1>1 DEF MutexInv, MutexLocal, Linked, In
  <2> QED BY <1>1, <1>4, <2>1, AppendMembers DEF MutexInv, SemInv
<1>6. \A q \in Queues : ~In(q, t)
  BY <1>1 DEF MutexInv, MutexLocal
<1>7. MutexLocal(t)'
  BY <1>1, <1>2, <1>3, <1>4 DEF MutexLocal, DownLabels, KernelLabels, MutexInv
<1>8. \A u \in Tasks : MutexLocal(u)'
  <2> SUFFICES ASSUME NEW u \in Tasks, u # t PROVE MutexLocal(u)'
    BY <1>7
  <2>1. pc[u] = "suspend_append" => \A q \in Queues : ~In(q, u)'
    BY <1>5 DEF MutexInv, MutexLocal
  <2>2. \A x \in Tasks : pc[u] = "resume_append" /\ arg_task[u] = x =>
          curr' # x /\ \A q \in Queues : ~In(q, x)'
    BY <1>1, <1>5 DEF MutexInv, MutexLocal, Handed
  <2>3. \A s \in Sems, w \in Tasks : In(s, w) => In(s, w)'
    BY <1>5, QueueNames
  <2> QED BY <1>1, <1>3, <2>1, <2>2, <2>3, OthersLocal
<1>9. OneOwner' /\ OnePermit'
  <2>1. In(sem(t), t)'
    <3>1. \A p \in Queues : p = sem(t) => In(p, t)'
      BY <1>5
    <3> QED BY <1>4, <3>1 DEF In
  <2>2. \A s \in Sems : Owner(t, s)' => Owner(t, s)
    <3> SUFFICES ASSUME NEW s \in Sems, Owner(t, s)' PROVE Owner(t, s)
      OBVIOUS
    <3>1. sem(t)' = s => In(s, t)'
      BY <2>1 DEF In
    <3> QED BY <1>2, <1>3, <1>4, <3>1 DEF Owner, Holds
  <2>3. \A w \in Tasks, s \in Sems : Owner(w, s)' => Owner(w, s)
    <3> SUFFICES ASSUME NEW w \in Tasks, NEW s \in Sems, w # t, Owner(w, s)' PROVE Owner(w, s)
      BY <2>2
    <3>1. In(s, w)' <=> In(s, w)
      BY <1>5, QueueNames
    <3> QED BY <1>3, <3>1, OwnerKept
  <2> QED BY <1>3, <2>3, OwnersAfter
<1>10. InLine'
  <2>1. \A s \in Sems, w \in Tasks : In(s, w)' /\ w # t => In(s, w)
    BY <1>5, QueueNames
  <2>2. \A s \in Sems : In(s, t)' =>
          sem(t)' = s /\ call(t)' = "down" /\ pc'[t] \in {"suspend_switch", "sem_return"}
    BY <1>2, <1>4, <1>5, <1>6, QueueNames
  <2> QED BY <1>3, <2>1, <2>2, InLineAfter
<1>11. OneHandOver' /\ RunsFromReady'
  BY <1>1, <1>2, <1>3, OneHandOverAfter DEF RunsFromReady
<1> QED BY <1>1, <1>3, <1>8, <1>9, <1>10, <1>11 DEF MutexInv

LEMMA SuspendSwitchMutex ==
  ASSUME Mutexes, MutexInv, SemInv', NEW t \in Tasks, suspend_switch(t),
         UNCHANGED <<semVars, userVars>>
  PROVE  MutexInv'
<1>1. /\ curr = t /\ pc[t] = "suspend_switch" /\ curr' = Dispatcher /\ Goto(t, "sem_return")
      /\ back' = [back EXCEPT ![t] = NULL] /\ arg_queue' = [arg_queue EXCEPT ![t] = NULL]
      /\ queues' = queues /\ os' = os /\ arg_task' = arg_task
      /\ UNCHANGED <<semVars, userVars>>
  BY DEF suspend_switch, switch_to_dispatcher, Running, MutexInv, MutexLocal, KernelLabels
<1>2. pc'[t] = "sem_return" /\ \A u \in Tasks : u # t => pc'[u] = pc[u]
  BY <1>1 DEF Goto, MutexInv, SemInv, TypeOK, KernelTypeOK
<1>3. Moves(t) /\ ip' = ip /\ v' = v /\ value' = value /\ active' = active
  BY <1>1, <1>2 DEF Moves, semVars, userVars, MutexInv, SemInv, TypeOK, KernelTypeOK
<1>4. call(t)' = call(t) /\ sem(t)' = sem(t) /\ call(t) = "down"
  BY <1>1, <1>3, CallKept, Calls DEF MutexInv, SemInv, MutexLocal, UpLabels, Mutexes
<1>5. \A q, u : In(q, u)' <=> In(q, u)
  BY <1>1 DEF In
<1>6. MutexLocal(t)'
  BY <1>1, <1>2, <1>3, <1>4 DEF MutexLocal, DownLabels, KernelLabels, MutexInv
<1>7. \A u \in Tasks : MutexLocal(u)'
  <2> SUFFICES ASSUME NEW u \in Tasks, u # t PROVE MutexLocal(u)'
    BY <1>6
  <2>1. pc[u] = "suspend_append" => \A q \in Queues : ~In(q, u)'
    BY <1>5 DEF MutexInv, MutexLocal
  <2>2. \A x \in Tasks : pc[u] = "resume_append" /\ arg_task[u] = x =>
          curr' # x /\ \A q \in Queues : ~In(q, x)'
    BY <1>1, <1>5, KernelAssumption DEF MutexInv, MutexLocal, Handed
  <2> QED BY <1>1, <1>3, <1>5, <2>1, <2>2, OthersLocal
<1>8. OneOwner' /\ OnePermit'
  <2>1. \A s \in Sems : Owner(t, s)' => Owner(t, s)
    <3> SUFFICES ASSUME NEW s \in Sems, Owner(t, s)' PROVE Owner(t, s)
      OBVIOUS
    <3>1. In(s, t)' <=> In(s, t)
      BY <1>5
    <3> QED BY <1>1, <1>2, <1>3, <1>4, <3>1 DEF Owner, Holds
  <2>2. \A w \in Tasks, s \in Sems : Owner(w, s)' => Owner(w, s)
    <3> SUFFICES ASSUME NEW w \in Tasks, NEW s \in Sems, w # t, Owner(w, s)' PROVE Owner(w, s)
      BY <2>1
    <3> QED BY <1>3, <1>5, OwnerKept
  <2> QED BY <1>3, <2>2, OwnersAfter
<1>9. InLine'
  <2>1. \A s \in Sems : In(s, t)' =>
          sem(t)' = s /\ call(t)' = "down" /\ pc'[t] \in {"suspend_switch", "sem_return"}
    BY <1>2, <1>4, <1>5 DEF MutexInv, InLine
  <2> QED BY <1>3, <1>5, <2>1, InLineAfter
<1>10. OneHandOver' /\ RunsFromReady'
  BY <1>1, <1>2, <1>3, OneHandOverAfter, KernelAssumption DEF RunsFromReady
<1> QED BY <1>1, <1>3, <1>7, <1>8, <1>9, <1>10 DEF MutexInv

(* The permit goes from the task that gives it back to the head of the      *)
(* line.                                                                    *)
LEMMA ResumeRemoveMutex ==
  ASSUME Mutexes, MutexInv, SemInv', NEW t \in Tasks, resume_remove(t),
         UNCHANGED <<semVars, userVars>>
  PROVE  MutexInv'
<1>1. PICK s \in Sems, x \in Tasks :
        /\ s = sem(t) /\ x = arg_task[t] /\ In(s, x)
        /\ curr = t /\ pc[t] = "resume_remove" /\ v[t] <= 0 /\ queue_remove(s, x)
        /\ Goto(t, "resume_append") /\ curr' = curr /\ os' = os
        /\ UNCHANGED <<argVars, semVars, userVars>>
  <2>1. /\ arg_queue[t] = sem(t) /\ arg_task[t] \in Tasks /\ sem(t) \in Sems
        /\ In(sem(t), arg_task[t]) /\ v[t] <= 0
    BY CallTypes, Calls DEF resume_remove, Mutexes, MutexInv, SemInv, Frame, MutexLocal, KernelLabels
  <2> QED BY <2>1 DEF resume_remove, Running
<1>2. pc'[t] = "resume_append" /\ \A u \in Tasks : u # t => pc'[u] = pc[u]
  BY <1>1 DEF Goto, MutexInv, SemInv, TypeOK, KernelTypeOK
<1>3. /\ Moves(t) /\ ip' = ip /\ v' = v /\ value' = value /\ active' = active /\ back' = back
      /\ arg_task' = arg_task
  BY <1>1, <1>2 DEF Moves, argVars, semVars, userVars
<1>4. call(t)' = call(t) /\ sem(t)' = s /\ call(t) = "up" /\ Owner(t, s)
  <2>1. call(t)' = call(t) /\ sem(t)' = s
    BY <1>1, <1>3, CallKept
  <2>2. call(t) = "up"
    BY <1>1, Calls DEF MutexInv, SemInv, MutexLocal, DownLabels, Mutexes
  <2> QED BY <1>1, <2>1, <2>2 DEF Owner
<1>5. \A p \in Queues, u \in Tasks : In(p, u)' <=> In(p, u) /\ ~(p = s /\ u = x)
  BY <1>1, QueueNames, RemoveMembers DEF MutexInv, SemInv
<1>6. x # t /\ sem(x) = s /\ call(x) = "down" /\ pc[x] \in {"suspend_switch", "sem_return"}
  <2>1. x # t
    BY <1>1, RunningOutOfLine
  <2> QED BY <1>1, <2>1 DEF MutexInv, InLine
<1>7. \A w \in Tasks : Owner(w, s) => w = t
  BY <1>4 DEF MutexInv, OneOwner
<1>8. \A q \in Queues : ~In(q, x)'
  BY <1>1, <1>5, QueueNames DEF MutexInv, SemInv, QueuesOK
<1>9. pc'[x] = pc[x] /\ call(x)' = call(x) /\ sem(x)' = sem(x)
  BY <1>2, <1>3, <1>6, CallKept
<1>10. Handed(x, s)'
  <2>1. ~In(s, x)'
    BY <1>8, QueueNames
  <2>2. Owner(x, s)'
    BY <1>6, <1>9, <2>1 DEF Owner
  <2> QED BY <1>1, <1>6, <1>8, <1>9, <2>2 DEF Handed
<1>11. MutexLocal(t)'
  <2>1. arg_task'[t] = x /\ back'[t] = back[t]
    BY <1>1, <1>3
  <2>2. Handed(arg_task[t], sem(t))'
    <3> HIDE DEF Handed
    <3> QED BY <1>4, <1>10, <2>1 DEF Handed
  <2> QED BY <1>1, <1>2, <1>4, <2>1, <2>2 DEF MutexLocal, UpLabels, KernelLabels, MutexInv
<1>12. \A u \in Tasks : MutexLocal(u)'
  <2> SUFFICES ASSUME NEW u \in Tasks, u # t PROVE MutexLocal(u)'
    BY <1>11
  <2>1. pc[u] = "suspend_append" => \A q \in Queues : ~In(q, u)'
    BY <1>5 DEF MutexInv, MutexLocal
  <2>2. \A y \in Tasks : pc[u] = "resume_append" /\ arg_task[u] = y =>
          curr' # y /\ \A q \in Queues : ~In(q, y)'
    BY <1>1, <1>5 DEF MutexInv, MutexLocal, Handed
  <2>3. ~(pc[u] \in {"up_head", "resume_remove"} /\ sem(u) = s)
    <3> SUFFICES ASSUME pc[u] \in {"up_head", "resume_remove"}, sem(u) = s PROVE FALSE
      OBVIOUS
    <3>1. v[u] <= 0 /\ call(u) = "up"
      BY Calls DEF MutexInv, SemInv, MutexLocal, DownLabels, Mutexes
    <3>2. Owner(u, s)
      BY <3>1 DEF Owner
    <3> QED BY <1>7, <3>2
  <2>4. \A r \in Sems, w \in Tasks :
          pc[u] \in {"up_head", "resume_remove"} /\ sem(u) = r /\ In(r, w) => In(r, w)'
    BY <1>5, <2>3, QueueNames
  <2> QED BY <1>1, <1>3, <2>1, <2>2, <2>4, OthersLocal
<1>13. \A w \in Tasks, r \in Sems : Owner(w, r)' => Owner(w, r) \/ (w = x /\ r = s)
  <2>1. \A r \in Sems : Owner(t, r)' => Owner(t, r)
    BY <1>1, <1>2, <1>3, <1>4 DEF Owner, Holds
  <2> SUFFICES ASSUME NEW w \in Tasks, NEW r \in Sems, w # t, Owner(w, r)', ~(w = x /\ r = s)
               PROVE  Owner(w, r)
    BY <2>1
  <2>2. In(r, w)' <=> In(r, w)
    BY <1>5, QueueNames
  <2> QED BY <1>3, <2>2, OwnerKept
<1>14. \A r \in Sems : r = s => ~Owner(t, r)'
  BY <1>2, <1>3, <1>4 DEF Owner, Holds
<1>15. OneOwner'
  <2> SUFFICES ASSUME NEW r \in Sems, NEW w \in Tasks, NEW y \in Tasks, Owner(w, r)', Owner(y, r)'
               PROVE  w = y
    BY DEF OneOwner
  <2>1. CASE r = s
    <3>1. \A z \in Tasks : Owner(z, r)' => z = x
      <4> SUFFICES ASSUME NEW z \in Tasks, Owner(z, r)', z # x PROVE FALSE
        OBVIOUS
      <4>1. Owner(z, r) /\ z = t
        BY <1>7, <1>13, <2>1
      <4>2. \A a \in Tasks : a = t => ~Owner(a, r)'
        BY <1>14, <2>1
      <4> QED BY <4>1, <4>2
    <3> QED BY <3>1
  <2>2. CASE r # s
    BY <1>13, <2>2 DEF MutexInv, OneOwner
  <2> QED BY <2>1, <2>2
<1>16. OnePermit'
  BY <1>3, <1>4, <1>13 DEF OnePermit, MutexInv
<1>17. InLine'
  <2>1. \A r \in Sems, w \in Tasks : In(r, w)' => In(r, w)
    BY <1>5, QueueNames
  <2>2. \A r \in Sems : ~In(r, t)'
    BY <1>1, <2>1, RunningOutOfLine
  <2> QED BY <1>3, <2>1, <2>2, InLineAfter
<1>18. OneHandOver'
  <2>1. ASSUME NEW w \in Tasks, pc[w] = "resume_append", sem(w) = s PROVE FALSE
    <3>1. PICK y \in Tasks : Owner(y, s) /\ call(y) = "down"
      BY <2>1 DEF MutexInv, MutexLocal, Handed
    <3> QED BY <1>4, <1>7, <3>1
  <2> SUFFICES ASSUME NEW u \in Tasks, NEW w \in Tasks, pc'[u] = "resume_append",
                      pc'[w] = "resume_append", sem(u)' = sem(w)'
               PROVE  u = w
    BY DEF OneHandOver
  <2>2. \A y \in Tasks : sem(y)' = sem(y) /\ (y # t => pc'[y] = pc[y])
    BY <1>2, <1>3, CallKept
  <2> QED BY <1>1, <2>1, <2>2 DEF MutexInv, OneHandOver
<1>19. RunsFromReady'
  BY <1>1, <1>5, QueueNames DEF RunsFromReady, MutexInv
<1> QED BY <1>1, <1>3, <1>12, <1>15, <1>16, <1>17, <1>18, <1>19 DEF MutexInv

(* The task that has been handed the permit becomes ready.                  *)
LEMMA ResumeAppendMutex ==
  ASSUME Mutexes, MutexInv, SemInv', NEW t \in Tasks, resume_append(t),
         UNCHANGED <<semVars, userVars>>
  PROVE  MutexInv'
<1>1. PICK x \in Tasks :
        /\ x = arg_task[t] /\ Handed(x, sem(t))
        /\ curr = t /\ pc[t] = "resume_append" /\ queue_append("ready", x)
        /\ Goto(t, "sem_return") /\ curr' = curr /\ os' = os
        /\ back' = [back EXCEPT ![t] = NULL] /\ arg_queue' = [arg_queue EXCEPT ![t] = NULL]
        /\ arg_task' = [arg_task EXCEPT ![t] = NULL]
        /\ UNCHANGED <<semVars, userVars>>
  <2>1. arg_task[t] \in Tasks /\ back[t] = "sem_return" /\ Handed(arg_task[t], sem(t))
    BY DEF resume_append, MutexInv, SemInv, Frame, MutexLocal, KernelLabels
  <2> QED BY <2>1 DEF resume_append, Running
<1>2. pc'[t] = "sem_return" /\ \A u \in Tasks : u # t => pc'[u] = pc[u]
  BY <1>1 DEF Goto, MutexInv, SemInv, TypeOK, KernelTypeOK
<1>3. Moves(t) /\ ip' = ip /\ v' = v /\ value' = value /\ active' = active
  BY <1>1, <1>2 DEF Moves, semVars, userVars, MutexInv, SemInv, TypeOK, KernelTypeOK
<1>4. call(t)' = call(t) /\ sem(t)' = sem(t) /\ call(t) = "up"
  BY <1>1, <1>3, CallKept, Calls DEF MutexInv, SemInv, MutexLocal, DownLabels, Mutexes
<1>5. \A p \in Queues, u \in Tasks : In(p, u)' => In(p, u) \/ (p = "ready" /\ u = x)
  BY <1>1, QueueNames, AppendMembers DEF MutexInv, SemInv
<1>6. \A p \in Queues, u \in Tasks : In(p, u) => In(p, u)'
  BY <1>1, QueueNames, AppendMembers DEF MutexInv, SemInv
<1>7. MutexLocal(t)'
  BY <1>1, <1>2, <1>3, <1>4 DEF MutexLocal, UpLabels, KernelLabels, MutexInv
<1>8. \A u \in Tasks : MutexLocal(u)'
  <2> SUFFICES ASSUME NEW u \in Tasks, u # t PROVE MutexLocal(u)'
    BY <1>7
  <2>1. pc[u] = "suspend_append" => \A q \in Queues : ~In(q, u)'
    BY <1>1, <1>5 DEF MutexInv, MutexLocal, Handed
  <2>2. ASSUME NEW y \in Tasks, pc[u] = "resume_append", arg_task[u] = y
        PROVE  curr' # y /\ \A q \in Queues : ~In(q, y)'
    <3>1. Handed(y, sem(u))
      BY <2>2 DEF MutexInv, MutexLocal
    <3>2. sem(u) # sem(t)
      BY <1>1, <2>2 DEF MutexInv, OneHandOver
    <3>3. y # x
      BY <1>1, <3>1, <3>2 DEF Handed
    <3> QED BY <1>1, <1>5, <3>1, <3>3 DEF Handed
  <2>3. \A s \in Sems, w \in Tasks : In(s, w) => In(s, w)'
    BY <1>6, QueueNames
  <2> QED BY <1>1, <1>3, <2>1, <2>2, <2>3, OthersLocal
<1>9. \A s \in Sems, w \in Tasks : In(s, w)' <=> In(s, w)
  BY <1>5, <1>6, QueueNames
<1>10. OneOwner' /\ OnePermit'
  <2>1. \A s \in Sems : Owner(t, s)' => Owner(t, s)
    BY <1>2, <1>3, <1>4 DEF Owner, Holds
  <2>2. \A w \in Tasks, s \in Sems : Owner(w, s)' => Owner(w, s)
    <3> SUFFICES ASSUME NEW w \in Tasks, NEW s \in Sems, w # t, Owner(w, s)' PROVE Owner(w, s)
      BY <2>1
    <3> QED BY <1>3, <1>9, OwnerKept
  <2> QED BY <1>3, <2>2, OwnersAfter
<1>11. InLine'
  <2>1. \A s \in Sems : ~In(s, t)'
    BY <1>1, <1>9, RunningOutOfLine
  <2> QED BY <1>3, <1>9, <2>1, InLineAfter
<1>12. OneHandOver'
  BY <1>2, <1>3, OneHandOverAfter
<1>13. RunsFromReady'
  BY <1>1, <1>6, QueueNames DEF RunsFromReady, MutexInv
<1> QED BY <1>1, <1>3, <1>8, <1>10, <1>11, <1>12, <1>13 DEF MutexInv

-----------------------------------------------------------------------------
(* The timer, the dispatcher and stuttering steps choose who runs: nobody,  *)
(* the same task, or a ready one.                                           *)
LEMMA ScheduleMutex ==
  ASSUME MutexInv, SemInv', queues' = queues, os' = os, UNCHANGED <<frameVars, semVars, userVars>>,
         \/ curr' = curr
         \/ curr' = Dispatcher
         \/ curr' \in Tasks /\ In("ready", curr')
  PROVE  MutexInv'
<1>1. /\ pc' = pc /\ back' = back /\ arg_task' = arg_task /\ arg_queue' = arg_queue
      /\ value' = value /\ active' = active /\ ip' = ip /\ v' = v
  BY DEF frameVars, argVars, semVars, userVars
<1>2. \A u \in Tasks : call(u)' = call(u) /\ sem(u)' = sem(u)
  BY <1>1 DEF call, sem
<1>3. \A q, u : In(q, u)' <=> In(q, u)
  BY DEF In
<1>4. \A u \in Tasks, s \in Sems : Owner(u, s)' <=> Owner(u, s)
  BY <1>1, <1>2, <1>3 DEF Owner, Holds
<1>5. \A u \in Tasks : MutexLocal(u)'
  <2> SUFFICES ASSUME NEW u \in Tasks PROVE MutexLocal(u)'
    OBVIOUS
  <2>1. MutexLocal(u) /\ sem(u) \in Sems
    BY CallTypes DEF MutexInv, SemInv
  <2>2. pc[u] = "resume_append" => Handed(arg_task[u], sem(u))'
    <3> SUFFICES ASSUME pc[u] = "resume_append" PROVE Handed(arg_task[u], sem(u))'
      OBVIOUS
    <3>1. PICK x \in Tasks, s \in Sems : x = arg_task[u] /\ s = sem(u) /\ Handed(x, s)
      BY <2>1 DEF MutexLocal, Handed
    <3>2. curr' # x
      BY <3>1, KernelAssumption, QueueNames DEF Handed
    <3>3. Handed(x, s)'
      BY <3>1, <3>2, <1>1, <1>2, <1>3, <1>4 DEF Handed
    <3>4. arg_task'[u] = x /\ sem(u)' = s
      BY <3>1, <1>1, <1>2
    <3> HIDE DEF Handed
    <3> QED BY <3>3, <3>4 DEF Handed
  <2> QED BY <2>1, <2>2, <1>1, <1>2, <1>3 DEF MutexLocal, In
<1>6. OneOwner' /\ OnePermit'
  BY <1>1, <1>4, OwnersAfter
<1>7. InLine'
  BY <1>1, <1>2, <1>3 DEF InLine, MutexInv
<1>8. OneHandOver'
  BY <1>1, <1>2 DEF OneHandOver, MutexInv
<1>9. RunsFromReady'
  BY <1>1, <1>3, KernelAssumption DEF RunsFromReady, MutexInv
<1> QED BY <1>1, <1>5, <1>6, <1>7, <1>8, <1>9 DEF MutexInv

LEMMA SystemMutex ==
  ASSUME MutexInv, SemInv', System
  PROVE  MutexInv'
<1>1. CASE Tick
  BY <1>1, ScheduleMutex DEF System, Tick, switch_to_dispatcher
<1>2. CASE Dispatch
  <2>1. /\ queues' = queues /\ os' = os /\ UNCHANGED frameVars
        /\ \E next \in Tasks : Chosen(queues["ready"], next) /\ curr' = next
    BY <1>2, NobodyDue DEF Dispatch, MutexInv
  <2>2. curr' \in Tasks /\ In("ready", curr')
    BY <2>1 DEF Chosen, In, Contains
  <2> QED BY <2>1, <2>2, ScheduleMutex DEF System
<1> QED BY <1>1, <1>2 DEF System

LEMMA NobodyDestroys ==
  ASSUME Mutexes, MutexInv, NEW t \in Tasks
  PROVE  ~sem_destroy(t) /\ ~destroy_loop(t) /\ ~destroy_head(t)
<1>1. call(t) = "down" \/ call(t) = "up"
  BY Calls DEF MutexInv, SemInv, Mutexes
<1>2. pc[t] # "destroy_loop" /\ pc[t] # "destroy_head"
  BY <1>1 DEF MutexInv, MutexLocal, DownLabels, UpLabels
<1> QED BY <1>1, <1>2 DEF sem_destroy, destroy_loop, destroy_head, At

(* Nobody owns a permit at the start, and every step preserves MutexInv.    *)
LEMMA MutexInit ==
  ASSUME Mutexes, Init
  PROVE  MutexInv
<1>1. SemInv
  BY InitInv
<1>2. /\ os = "up" /\ active = [s \in Sems |-> 1] /\ curr = Dispatcher
      /\ value = InitialValue
      /\ \A t \in Tasks : pc[t] = "user" /\ ip[t] = 1
      /\ \A s \in Sems : queues[s] = << >>
  BY QueueNames DEF Init, Booted
<1>3. \A t \in Tasks, s \in Sems : ~Holds(t, s, ip[t])
  BY <1>2 DEF Holds
<1>4. \A t \in Tasks : call(t) = "down"
  BY <1>1, <1>3, Calls DEF SemInv, Mutexes
<1>5. \A t \in Tasks, s \in Sems : ~Owner(t, s)
  BY <1>2, <1>3, <1>4 DEF Owner
<1>6. \A t \in Tasks, s \in Sems : ~In(s, t)
  BY <1>2, EmptySeq DEF In, Contains
<1>7. \A t \in Tasks : MutexLocal(t)
  BY <1>2, <1>4 DEF MutexLocal, DownLabels, KernelLabels
<1>8. OneOwner /\ OnePermit /\ InLine /\ OneHandOver /\ RunsFromReady
  <2>1. OnePermit
    BY <1>2, <1>5 DEF OnePermit, Mutexes
  <2>2. OneOwner /\ InLine /\ OneHandOver
    BY <1>2, <1>5, <1>6 DEF OneOwner, InLine, OneHandOver
  <2>3. RunsFromReady
    BY <1>2, KernelAssumption DEF RunsFromReady
  <2> QED BY <2>1, <2>2, <2>3
<1> QED BY <1>1, <1>2, <1>7, <1>8 DEF MutexInv

LEMMA MutexNext ==
  ASSUME Mutexes, MutexInv, [Next]_vars
  PROVE  MutexInv'
<1>1. SemInv'
  BY NextInv DEF MutexInv
<1>2. CASE System
  BY <1>1, <1>2, SystemMutex
<1>3. ASSUME NEW t \in Tasks, Step(t)
      PROVE  MutexInv'
  BY <1>1, <1>3, EnterMutex, LockMutex, LoadMutex, DownStoreMutex, UpStoreMutex, UnlockMutex,
     DownTestMutex, SemReturnMutex, UpTestMutex, UpHeadMutex, NobodyDestroys,
     SuspendRemoveMutex, SuspendAppendMutex, SuspendSwitchMutex, ResumeRemoveMutex,
     ResumeAppendMutex DEF Step, SuspendResume
<1>4. CASE UNCHANGED vars
  BY <1>1, <1>4, ScheduleMutex DEF vars, kernelVars, coreVars
<1> QED BY <1>2, <1>3, <1>4 DEF Next

(* MutexInv is inductive for programs that use every semaphore as a mutex.  *)
THEOREM MutexInvariant ==
  ASSUME Mutexes
  PROVE  Spec => []MutexInv
<1>1. Init => MutexInv
  BY MutexInit
<1>2. MutexInv /\ [Next]_vars => MutexInv'
  BY MutexNext
<1> QED BY <1>1, <1>2, PTL DEF Spec

(* However many tasks contend, in whatever order the timer and the          *)
(* dispatcher interleave them and wherever the quantum ends, no two tasks   *)
(* are between the return of sem_down and the call of sem_up of one mutex.  *)
THEOREM MutexExcludes ==
  ASSUME Mutexes
  PROVE  Spec => []MutualExclusion
<1>1. MutexInv => MutualExclusion
  <2> SUFFICES ASSUME MutexInv, NEW s \in Sems, NEW t \in Tasks, NEW u \in Tasks,
                      Inside(t, s), Inside(u, s)
               PROVE  t = u
    BY DEF MutualExclusion
  <2>1. \A w \in Tasks : Inside(w, s) => Owner(w, s)
    <3> SUFFICES ASSUME NEW w \in Tasks, Inside(w, s) PROVE Owner(w, s)
      OBVIOUS
    <3>1. (pc[w] = "user" \/ sem(w) # s) /\ Holds(w, s, ip[w])
      BY DEF Inside, Holds, Down, Up
    <3> QED BY <3>1 DEF Owner
  <2> QED BY <2>1 DEF MutexInv, OneOwner
<1> QED BY <1>1, MutexInvariant, PTL

(* sem_up of a mutex always finds the task it decided to wake: the second   *)
(* read of s->queue, after the test, is never null.                         *)
THEOREM MutexNeverResumesNull ==
  ASSUME Mutexes
  PROVE  Spec => []NoNullResume
<1>1. MutexInv => NoNullResume
  BY DEF MutexInv, NoNullResume
<1> QED BY <1>1, MutexInvariant, PTL
=============================================================================
