------------------------------ MODULE DiskProofs ------------------------------
(***************************************************************************)
(* The disk manager, for any number of clients, any requests and any       *)
(* number of failures of malloc.  The first part holds whatever interrupts *)
(* what: the types, the queues, the spin lock and, if nobody asks for what *)
(* the disk refuses, the order in which the requests reach the disk.       *)
(* The second part is mutual exclusion over request_queue, which needs the *)
(* one window in which the driver enters the line of sem_disk to be left   *)
(* alone.  The third part, for the hand-over timing and requests that the  *)
(* disk does not refuse, is that every client returns after its own        *)
(* operation, that the driver does not sleep through what it is waiting    *)
(* for, and the refinement of AbsDisk.  In between, under the condition of *)
(* the second part alone: what a failed malloc leaves behind.              *)
(***************************************************************************)
EXTENDS DiskManager, SemaphoreProofs

-----------------------------------------------------------------------------
(* The two programs.                                                        *)
LEMMA Programs ==
  /\ Sems = {s_disk} /\ InitialValue = [s \in Sems |-> 1]
  /\ Driver \in Tasks /\ Driver # NULL
  /\ DiskQueue \in Queues /\ s_disk \in Queues /\ "ready" \in Queues
  /\ DiskQueue \in WaitQueues /\ s_disk \in WaitQueues
  /\ DiskQueue \notin {s_disk, "ready", "sleeping", "suspended"}
  /\ s_disk \notin {"ready", "sleeping", "suspended"}
  /\ Program[Driver] = disk_driver
  /\ \A t \in Clients : Program[t] = disk_block_op /\ t \in Tasks /\ t # Driver /\ t # NULL
BY DiskAssumption, SemaphoreAssumption, KernelAssumption DEF Clients, Queues

LEMMA DriverPositions ==
  /\ Len(disk_driver) = 8
  /\ \A i \in 1..8 : disk_driver[i].sem = s_disk
  /\ disk_driver[1].op = "down" /\ disk_driver[2].op = "check" /\ disk_driver[3].op = "clear"
  /\ disk_driver[4].op = "look" /\ disk_driver[5].op = "take" /\ disk_driver[6].op = "issue"
  /\ disk_driver[7].op = "up" /\ disk_driver[8].op = "sleep"
BY DEF disk_driver, Do

LEMMA ClientPositions ==
  /\ Len(disk_block_op) = 5
  /\ \A i \in 1..5 : disk_block_op[i].sem = s_disk
  /\ disk_block_op[1].op = "down" /\ disk_block_op[2].op = "put" /\ disk_block_op[3].op = "wake"
  /\ disk_block_op[4].op = "up" /\ disk_block_op[5].op = "wait"
BY DEF disk_block_op, Do

(* The calls of a task, and the one that follows.                           *)
DriverCalls == {"down", "check", "clear", "look", "take", "issue", "up", "sleep"}
ClientCalls == {"down", "put", "wake", "up", "wait"}

Following(op, t) ==
  CASE op = "down"  -> IF t = Driver THEN "check" ELSE "put"
    [] op = "put"   -> "wake"
    [] op = "wake"  -> "up"
    [] op = "check" -> "clear"
    [] op = "clear" -> "look"
    [] op = "look"  -> "take"
    [] op = "take"  -> "issue"
    [] op = "issue" -> "up"
    [] op = "up"    -> IF t = Driver THEN "sleep" ELSE "wait"
    [] OTHER        -> "down"

LEMMA CallRoles ==
  ASSUME TypeOK, NEW t \in Tasks
  PROVE  /\ sem(t) = s_disk
         /\ call(t) \in IF t = Driver THEN DriverCalls ELSE ClientCalls
         /\ ip[t] \in IF t = Driver THEN 1..8 ELSE 1..5
<1>1. ip[t] \in 1..Len(Program[t])
  BY DEF TypeOK
<1>2. CASE t = Driver
  <2>1. ip[t] \in 1..8 /\ Program[t] = disk_driver
    BY <1>1, <1>2, Programs, DriverPositions
  <2>2. \/ ip[t] = 1 \/ ip[t] = 2 \/ ip[t] = 3 \/ ip[t] = 4
        \/ ip[t] = 5 \/ ip[t] = 6 \/ ip[t] = 7 \/ ip[t] = 8
    BY <2>1
  <2> QED BY <1>2, <2>1, <2>2, DriverPositions DEF call, sem, DriverCalls
<1>3. CASE t # Driver
  <2>1. ip[t] \in 1..5 /\ Program[t] = disk_block_op
    BY <1>1, <1>3, Programs, ClientPositions DEF Clients
  <2>2. ip[t] = 1 \/ ip[t] = 2 \/ ip[t] = 3 \/ ip[t] = 4 \/ ip[t] = 5
    BY <2>1
  <2> QED BY <1>3, <2>1, <2>2, ClientPositions DEF call, sem, ClientCalls
<1> QED BY <1>2, <1>3

LEMMA NextCall ==
  ASSUME TypeOK, NEW t \in Tasks, advance(t)
  PROVE  call(t)' = Following(call(t), t)
<1> DEFINE i == ip[t]  j == ip'[t]
<1>1. j = (IF i = Len(Program[t]) THEN 1 ELSE i + 1) /\ i \in 1..Len(Program[t])
  BY DEF advance, TypeOK
<1>2. call(t) = Program[t][i].op /\ call(t)' = Program[t][j].op
  BY DEF call
<1> HIDE DEF i, j
<1>3. CASE t = Driver
  <2>1. Program[t] = disk_driver
    BY <1>3, Programs
  <2>2. i \in 1..8 /\ j = IF i = 8 THEN 1 ELSE i + 1
    BY <1>1, <2>1, DriverPositions
  <2>3. <<i, j>> \in {<<1, 2>>, <<2, 3>>, <<3, 4>>, <<4, 5>>, <<5, 6>>, <<6, 7>>, <<7, 8>>, <<8, 1>>}
    BY <2>2
  <2> QED BY <1>2, <1>3, <2>1, <2>3, DriverPositions DEF Following
<1>4. CASE t # Driver
  <2>1. Program[t] = disk_block_op
    BY <1>4, Programs DEF Clients
  <2>2. i \in 1..5 /\ j = IF i = 5 THEN 1 ELSE i + 1
    BY <1>1, <2>1, ClientPositions
  <2>3. <<i, j>> \in {<<1, 2>>, <<2, 3>>, <<3, 4>>, <<4, 5>>, <<5, 1>>}
    BY <2>2
  <2> QED BY <1>2, <1>4, <2>1, <2>3, ClientPositions DEF Following
<1> QED BY <1>3, <1>4

(* check passes over clear when no signal is up, look passes over the       *)
(* request when there is nothing to serve, and a client whose malloc fails  *)
(* starts anew.                                                             *)
LEMMA JumpCalls ==
  ASSUME TypeOK, NEW t \in Tasks
  PROVE  /\ call(t) = "check" /\ ip' = [ip EXCEPT ![t] = ip[t] + 2] =>
              call(t)' = "look" /\ ip'[t] = 4 /\ t = Driver
         /\ call(t) = "look" /\ ip' = [ip EXCEPT ![t] = ip[t] + 3] =>
              call(t)' = "up" /\ ip'[t] = 7 /\ t = Driver
         /\ ip' = [ip EXCEPT ![t] = 1] => call(t)' = "down"
<1>1. ip[t] \in 1..Len(Program[t]) /\ ip \in [Tasks -> Nat]
  BY DEF TypeOK
<1>2. CASE t = Driver
  <2>1. Program[t] = disk_driver /\ ip[t] \in 1..8
    BY <1>1, <1>2, Programs, DriverPositions
  <2>2. \/ ip[t] = 1 \/ ip[t] = 2 \/ ip[t] = 3 \/ ip[t] = 4
        \/ ip[t] = 5 \/ ip[t] = 6 \/ ip[t] = 7 \/ ip[t] = 8
    BY <2>1
  <2>3. (call(t) = "check" => ip[t] = 2) /\ (call(t) = "look" => ip[t] = 4)
    BY <2>1, <2>2, DriverPositions DEF call
  <2> QED BY <1>1, <1>2, <2>1, <2>3, DriverPositions DEF call
<1>3. CASE t # Driver
  <2>1. Program[t] = disk_block_op
    BY <1>3, Programs DEF Clients
  <2>2. call(t) # "check" /\ call(t) # "look"
    BY <1>3, CallRoles DEF ClientCalls
  <2> QED BY <1>1, <1>3, <2>1, <2>2, ClientPositions DEF call
<1> QED BY <1>2, <1>3

-----------------------------------------------------------------------------
(* The steps that this module adds, seen from the kernel.                   *)

(* A step of t outside the queues: it moves t in its program or enters      *)
(* task_suspend or task_resume on disk_queue.                               *)
OwnStep(t) ==
  /\ Running(t) /\ pc[t] = "user"
  /\ UNCHANGED <<curr, queues, status, prioVars, timeVars, user_tasks_num, semVars>>
  /\ \/ /\ UNCHANGED <<frameVars, os>>
        /\ ip' \in [Tasks -> Nat] /\ \A u \in Tasks : ip'[u] \in 1..Len(Program[u])
        /\ v' \in [Tasks -> Int]
        /\ \A u \in Tasks : u # t => ip'[u] = ip[u] /\ v'[u] = v[u]
     \/ /\ call_suspend(t, DiskQueue, "sem_return") /\ UNCHANGED <<os, userVars>>
        /\ call(t) \in {"wait", "sleep"}
     \/ /\ \E u \in Tasks \cup {NULL} : call_resume(t, u, DiskQueue, "sem_return")
        /\ UNCHANGED userVars
        /\ call(t) \in {"wake", "check"}

LEMMA HeadOf ==
  ASSUME QueuesOK, NEW q \in Queues
  PROVE  head_of(q) \in Tasks \cup {NULL}
BY HeadIn DEF head_of

LEMMA IsOwnStep ==
  ASSUME SemInv, NEW t \in Tasks,
         \/ put_malloc_fails(t) \/ put(t) \/ wake(t) \/ sleep_in_disk_queue(t)
         \/ check(t) \/ clear(t) \/ look(t) \/ take(t) \/ issue(t)
  PROVE  OwnStep(t)
<1>1. Running(t) /\ pc[t] = "user"
  BY DEF put_malloc_fails, put, wake, sleep_in_disk_queue, check, clear, look, take, issue, AtOp, At
<1>2. UNCHANGED <<curr, queues, status, prioVars, timeVars, user_tasks_num, semVars>>
  BY DEF put_malloc_fails, put, wake, sleep_in_disk_queue, check, clear, look, take, issue,
     kernelVars, coreVars
<1>3. ASSUME UNCHANGED <<frameVars, os>>,
             \/ advance(t)
             \/ ip' = [ip EXCEPT ![t] = 1] /\ v' = v
             \/ call(t) = "check" /\ ip' = [ip EXCEPT ![t] = ip[t] + 2] /\ v' = v
             \/ call(t) = "look" /\ ip' = [ip EXCEPT ![t] = ip[t] + 3] /\ v' = v
      PROVE  OwnStep(t)
  <2>1. TypeOK /\ ip \in [Tasks -> Nat] /\ v \in [Tasks -> Int]
    BY DEF SemInv, TypeOK
  <2>2. \A u \in Tasks : ip[u] \in 1..Len(Program[u])
    BY DEF SemInv, TypeOK
  <2>3. /\ ip' \in [Tasks -> Nat] /\ \A u \in Tasks : ip'[u] \in 1..Len(Program[u])
        /\ v' \in [Tasks -> Int]
        /\ \A u \in Tasks : u # t => ip'[u] = ip[u] /\ v'[u] = v[u]
    <3>1. CASE advance(t)
      BY <3>1, <2>1, AdvanceTypes
    <3>2. CASE ip' = [ip EXCEPT ![t] = 1] /\ v' = v
      <4>1. 1 \in 1..Len(Program[t])
        BY <2>1, CallTypes
      <4> QED BY <2>1, <2>2, <3>2, <4>1
    <3>3. CASE call(t) = "check" /\ ip' = [ip EXCEPT ![t] = ip[t] + 2] /\ v' = v
      <4>0. ip'[t] = 4 /\ t = Driver
        BY <2>1, <3>3, JumpCalls
      <4>1. ip'[t] = 4 /\ 4 \in 1..Len(Program[t])
        BY <4>0, Programs, DriverPositions
      <4>2. ip[t] + 2 = 4
        BY <2>1, <3>3, <4>1
      <4> QED BY <2>1, <2>2, <3>3, <4>1, <4>2
    <3>4. CASE call(t) = "look" /\ ip' = [ip EXCEPT ![t] = ip[t] + 3] /\ v' = v
      <4>0. ip'[t] = 7 /\ t = Driver
        BY <2>1, <3>4, JumpCalls
      <4>1. ip'[t] = 7 /\ 7 \in 1..Len(Program[t])
        BY <4>0, Programs, DriverPositions
      <4>2. ip[t] + 3 = 7
        BY <2>1, <3>4, <4>1
      <4> QED BY <2>1, <2>2, <3>4, <4>1, <4>2
    <3> QED BY <1>3, <3>1, <3>2, <3>3, <3>4
  <2> QED BY <1>1, <1>2, <1>3, <2>3 DEF OwnStep
<1>4. CASE put_malloc_fails(t) \/ put(t) \/ clear(t) \/ look(t) \/ take(t) \/ issue(t)
  <2>1. /\ UNCHANGED <<frameVars, os>>
        /\ \/ advance(t)
           \/ ip' = [ip EXCEPT ![t] = 1] /\ v' = v
           \/ call(t) = "look" /\ ip' = [ip EXCEPT ![t] = ip[t] + 3] /\ v' = v
    BY <1>4 DEF put_malloc_fails, put, clear, look, take, issue, AtOp, kernelVars, coreVars
  <2> QED BY <2>1, <1>3
<1>5. CASE wake(t)
  <2>1. \/ call_resume(t, Driver, DiskQueue, "sem_return") /\ UNCHANGED userVars /\ call(t) = "wake"
        \/ advance(t) /\ UNCHANGED <<frameVars, os>>
    BY <1>5 DEF wake, AtOp
  <2>2. CASE advance(t) /\ UNCHANGED <<frameVars, os>>
    BY <2>2, <1>3
  <2> QED BY <1>1, <1>2, <2>1, <2>2, Programs DEF OwnStep
<1>6. CASE check(t)
  <2>1. \/ call_resume(t, head_of(DiskQueue), DiskQueue, "sem_return") /\ UNCHANGED userVars
        \/ /\ ip' = [ip EXCEPT ![t] = ip[t] + 2] /\ v' = v /\ UNCHANGED <<frameVars, os>>
    BY <1>6 DEF check
  <2>2. call(t) = "check" /\ head_of(DiskQueue) \in Tasks \cup {NULL}
    BY <1>6, HeadOf, Programs DEF check, AtOp, SemInv
  <2>3. CASE ip' = [ip EXCEPT ![t] = ip[t] + 2] /\ v' = v /\ UNCHANGED <<frameVars, os>>
    BY <2>2, <2>3, <1>3
  <2> QED BY <1>1, <1>2, <2>1, <2>2, <2>3 DEF OwnStep
<1>7. CASE sleep_in_disk_queue(t)
  BY <1>1, <1>2, <1>7 DEF sleep_in_disk_queue, AtOp, OwnStep, coreVars
<1> QED BY <1>4, <1>5, <1>6, <1>7

LEMMA OwnStepInv ==
  ASSUME SemInv, NEW t \in Tasks, OwnStep(t)
  PROVE  SemInv' /\ Moves(t)
<1>1. TypeOK
  BY DEF SemInv
<1>2. DiskQueue \in Queues /\ DiskQueue \in WaitQueues /\ "sem_return" \in Labels
  BY Programs, SemaphoreAssumption DEF SemLabels
<1>3. lock' = lock /\ queues' = queues
  BY DEF OwnStep, semVars
<1>4. CASE /\ UNCHANGED <<frameVars, os>>
           /\ ip' \in [Tasks -> Nat] /\ \A u \in Tasks : ip'[u] \in 1..Len(Program[u])
           /\ v' \in [Tasks -> Int]
           /\ \A u \in Tasks : u # t => ip'[u] = ip[u] /\ v'[u] = v[u]
  <2>1. Moves(t) /\ pc'[t] = "user"
    BY <1>4 DEF OwnStep, Moves, frameVars, argVars
  <2>2. TypeOK'
    BY <1>1, <1>4 DEF OwnStep, TypeOK, KernelTypeOK, prioVars, timeVars, frameVars, argVars, semVars
  <2>3. Frame(t)' /\ LockMoves(t)
    BY <1>3, <2>1, OutsideLock DEF Frame, KernelLabels
  <2> QED BY <1>3, <2>1, <2>2, <2>3, Quiet
<1>5. CASE /\ call_suspend(t, DiskQueue, "sem_return") /\ UNCHANGED <<os, userVars>>
           /\ call(t) \in {"wait", "sleep"}
  <2>1. /\ pc' \in [Tasks -> Labels \cup KernelLabels] /\ pc'[t] = "suspend_remove"
        /\ \A u \in Tasks : u # t => pc'[u] = pc[u]
        /\ arg_queue' = [arg_queue EXCEPT ![t] = DiskQueue]
        /\ back' = [back EXCEPT ![t] = "sem_return"] /\ arg_task' = arg_task
    BY <1>1, <1>5, GotoTypes DEF call_suspend, KernelLabels
  <2>2. Moves(t) /\ ip' = ip
    BY <1>1, <1>5, <2>1 DEF Moves, userVars, TypeOK, KernelTypeOK
  <2>3. TypeOK'
    BY <1>1, <1>2, <1>5, <2>1 DEF OwnStep, TypeOK, KernelTypeOK, prioVars, timeVars, semVars, userVars
  <2>4. Frame(t)'
    BY <1>1, <1>2, <1>5, <2>1, <2>2, CallKept DEF Frame, KernelLabels, TypeOK, KernelTypeOK
  <2>5. LockMoves(t)
    BY <1>3, <2>1, OutsideLock
  <2> QED BY <1>3, <2>2, <2>3, <2>4, <2>5, Quiet
<1>6. ASSUME NEW u \in Tasks \cup {NULL}, call_resume(t, u, DiskQueue, "sem_return"),
             UNCHANGED userVars, call(t) \in {"wake", "check"}
      PROVE  SemInv' /\ Moves(t)
  <2>1. CASE u = NULL
    <3>1. os' = "NULL_PTR_ERROR" /\ UNCHANGED frameVars
      BY <1>6, <2>1 DEF call_resume
    <3>2. Moves(t) /\ pc'[t] = "user"
      BY <1>6, <3>1 DEF OwnStep, Moves, frameVars, argVars, userVars
    <3>3. TypeOK'
      BY <1>1, <1>6, <3>1
         DEF OwnStep, TypeOK, KernelTypeOK, prioVars, timeVars, frameVars, argVars, semVars, userVars
    <3>4. Frame(t)' /\ LockMoves(t)
      BY <1>3, <3>2, OutsideLock DEF Frame, KernelLabels
    <3> QED BY <1>3, <3>2, <3>3, <3>4, Quiet
  <2>2. CASE u # NULL
    <3>1. /\ pc' \in [Tasks -> Labels \cup KernelLabels] /\ pc'[t] = "resume_remove"
          /\ \A w \in Tasks : w # t => pc'[w] = pc[w]
          /\ arg_queue' = [arg_queue EXCEPT ![t] = DiskQueue]
          /\ back' = [back EXCEPT ![t] = "sem_return"] /\ os' = os
          /\ arg_task' = [arg_task EXCEPT ![t] = u]
      BY <1>1, <1>6, <2>2, GotoTypes DEF call_resume, KernelLabels
    <3>2. Moves(t) /\ ip' = ip
      BY <1>1, <1>6, <3>1 DEF Moves, userVars, TypeOK, KernelTypeOK
    <3>3. TypeOK'
      BY <1>1, <1>2, <1>6, <3>1 DEF OwnStep, TypeOK, KernelTypeOK, prioVars, timeVars, semVars, userVars
    <3>4. Frame(t)'
      BY <1>1, <1>2, <1>6, <2>2, <3>1, <3>2, CallKept DEF Frame, KernelLabels, TypeOK, KernelTypeOK
    <3>5. LockMoves(t)
      BY <1>3, <3>1, OutsideLock
    <3> QED BY <1>3, <3>2, <3>3, <3>4, <3>5, Quiet
  <2> QED BY <2>1, <2>2
<1> QED BY <1>4, <1>5, <1>6 DEF OwnStep

(* The interrupt of the disk moves the driver to the ready queue, out of    *)
(* disk_queue or out of nowhere.                                            *)
DriverElsewhere == \E q \in Queues \ {DiskQueue} : In(q, Driver)

LEMMA ResumedMembers ==
  ASSUME QueuesOK, queues' = resumed
  PROVE  /\ QueuesOK'
         /\ \A q \in Queues, u \in Tasks :
              In(q, u)' <=> IF u = Driver /\ ~DriverElsewhere THEN q = "ready" ELSE In(q, u)
         /\ \A q \in Queues : q \notin {DiskQueue, "ready"} => queues'[q] = queues[q]
<1>1. CASE DriverElsewhere
  <2>1. queues' = queues
    BY <1>1 DEF resumed, DriverElsewhere, In
  <2> QED BY <1>1, <2>1 DEF QueuesOK, In
<1>2. CASE ~DriverElsewhere
  <2> DEFINE d == Without(queues[DiskQueue], Driver)
             r == Append(queues["ready"], Driver)
  <2>0. DiskQueue \in Queues /\ "ready" \in Queues /\ DiskQueue # "ready" /\ Driver \in Tasks
    BY Programs
  <2>1. queues' = [queues EXCEPT ![DiskQueue] = d, !["ready"] = r]
    BY <1>2 DEF resumed, DriverElsewhere, In
  <2>2. /\ d \in Seq(Tasks) /\ Injective(d)
        /\ \A u : Contains(d, u) <=> Contains(queues[DiskQueue], u) /\ u # Driver
    BY <2>0, WithoutProperties DEF QueuesOK
  <2>3. /\ r \in Seq(Tasks) /\ Injective(r)
        /\ \A u : Contains(r, u) <=> Contains(queues["ready"], u) \/ u = Driver
    <3>1. ~Contains(queues["ready"], Driver)
      BY <1>2, <2>0 DEF DriverElsewhere, In
    <3> QED BY <2>0, <3>1, AppendKeeps DEF QueuesOK
  <2> HIDE DEF d, r
  <2>4. \A q \in Queues : queues'[q] = IF q = DiskQueue THEN d ELSE IF q = "ready" THEN r ELSE queues[q]
    BY <2>0, <2>1 DEF QueuesOK
  <2>5. queues' \in [Queues -> Seq(Tasks)] /\ \A q \in Queues : Injective(queues'[q])
    BY <2>1, <2>2, <2>3, <2>4 DEF QueuesOK
  <2>6. \A q \in Queues, u \in Tasks :
          In(q, u)' <=> IF u = Driver THEN q = "ready" ELSE In(q, u)
    BY <1>2, <2>0, <2>2, <2>3, <2>4 DEF In, DriverElsewhere
  <2>7. \A p, q \in Queues, u \in Tasks : In(p, u)' /\ In(q, u)' => p = q
    BY <2>6 DEF QueuesOK
  <2> QED BY <1>2, <2>4, <2>5, <2>6, <2>7 DEF QueuesOK
<1> QED BY <1>1, <1>2

(* What leaves the frames alone leaves SemInv to the queues and the types.  *)
LEMMA FrozenFrames ==
  ASSUME SemInv, UNCHANGED <<frameVars, lock, ip>>, TypeOK', QueuesOK',
         queues'["sleeping"] = queues["sleeping"], queues'["suspended"] = queues["suspended"]
  PROVE  SemInv'
BY DEF SemInv, LockInv, InLock, Frame, sem, call, frameVars, argVars

LEMMA InterruptSemInv ==
  ASSUME SemInv, disk_interrupt
  PROVE  SemInv'
<1>1. /\ QueuesOK' /\ queues'["sleeping"] = queues["sleeping"]
      /\ queues'["suspended"] = queues["suspended"]
  BY ResumedMembers, Programs DEF disk_interrupt, SemInv, Queues
<1>2. UNCHANGED <<frameVars, lock, ip>>
  BY DEF disk_interrupt, semVars, userVars
<1>3. TypeOK'
  BY <1>1, Programs DEF disk_interrupt, SemInv, TypeOK, KernelTypeOK, QueuesOK, prioVars, timeVars,
     frameVars, argVars, semVars, userVars
<1> QED BY <1>1, <1>2, <1>3, FrozenFrames

LEMMA StartSemInv ==
  ASSUME SemInv, NEW t \in Tasks, disk_mgr_init(t)
  PROVE  SemInv'
<1>1. queue_append("ready", Driver) \/ UNCHANGED queues
  BY DEF disk_mgr_init, start_disk, start_driver, install_handler, kernelVars, coreVars
<1>2. /\ QueuesOK' /\ queues'["sleeping"] = queues["sleeping"]
      /\ queues'["suspended"] = queues["suspended"]
  <2>1. CASE queue_append("ready", Driver)
    <3>1. QueuesOK'
      BY <2>1, Programs, AppendMembers DEF SemInv
    <3>2. queues'["sleeping"] = queues["sleeping"] /\ queues'["suspended"] = queues["suspended"]
      BY <2>1, Programs DEF queue_append, SemInv, QueuesOK, Queues
    <3> QED BY <3>1, <3>2
  <2>2. CASE UNCHANGED queues
    BY <2>2 DEF SemInv, QueuesOK, In
  <2> QED BY <1>1, <2>1, <2>2
<1>3. /\ UNCHANGED <<frameVars, lock, ip>>
      /\ UNCHANGED <<curr, status, prioVars, timeVars, user_tasks_num, os, semVars, userVars>>
  BY DEF disk_mgr_init, start_disk, start_driver, install_handler, kernelVars, coreVars, semVars, userVars
<1>4. TypeOK'
  BY <1>2, <1>3 DEF SemInv, TypeOK, KernelTypeOK, QueuesOK, prioVars, timeVars,
     frameVars, argVars, semVars, userVars
<1> QED BY <1>2, <1>3, <1>4, FrozenFrames

LEMMA DiskNextSemInv ==
  ASSUME SemInv, [DiskNext]_allVars
  PROVE  SemInv'
<1>1. CASE DiskTick \/ DiskDispatch
  BY <1>1, NextInv DEF DiskTick, DiskDispatch, System, Next
<1>2. CASE DiskInterrupt
  BY <1>2, InterruptSemInv DEF DiskInterrupt
<1>3. ASSUME NEW t \in Tasks, DiskStep(t) PROVE SemInv'
  <2>1. CASE disk_mgr_init(t)
    BY <2>1, StartSemInv
  <2>2. CASE Step(t)
    BY <2>2, NextInv DEF Next
  <2>3. CASE \/ put_malloc_fails(t) \/ put(t) \/ wake(t) \/ sleep_in_disk_queue(t)
             \/ check(t) \/ clear(t) \/ look(t) \/ take(t) \/ issue(t)
    BY <2>3, IsOwnStep, OwnStepInv
  <2> QED BY <1>3, <2>1, <2>2, <2>3 DEF DiskStep
<1>4. CASE UNCHANGED allVars
  BY <1>4, NextInv DEF allVars
<1> QED BY <1>1, <1>2, <1>3, <1>4 DEF DiskNext

LEMMA DiskInitSemInv == DiskInit => SemInv
BY BootInv DEF DiskInit, Clients

-----------------------------------------------------------------------------
(* The requests and the disk.                                               *)
ManagerTypes ==
  /\ disk_status \in {"UNKNOWN", "IDLE", "READ", "WRITE"}
  /\ next_block \in Int /\ buffer \in Clients \cup {NULL}
  /\ disk_status \in D!Commands => buffer \in Clients
  /\ request_queue \in Seq(Requests) /\ request \in Seq(Requests) /\ Len(request) <= 1
  /\ signal \in {0, 1} /\ failures \in 0..MaxFailures
  /\ setup \in {"none", "disk", "driver", "done"} /\ starter \in Clients \cup {NULL}
  /\ done \in [Clients -> BOOLEAN] /\ asked \in Seq(Clients)

(* What the driver has found when it takes a request out of request_queue   *)
(* and issues it; nobody but the driver can change it.                      *)
DriverHolds ==
  /\ call(Driver) \in {"clear", "look", "take", "issue"} => pc[Driver] = "user"
  /\ call(Driver) \in {"take", "issue"} => disk_status = "IDLE"
  /\ call(Driver) = "take" => request_queue # << >>
  /\ call(Driver) = "issue" <=> request # << >>

(* Every request is in asked until its operation has ended.                 *)
Busy == IF disk_status \in D!Commands THEN 1 ELSE 0

AskedLong == Len(request_queue) + Len(request) + Busy <= Len(asked)

DiskInv == SemInv /\ ManagerTypes /\ DriverHolds /\ AskedLong

LEMMA InvTypes == DiskInv => DiskTypeOK
BY DEF DiskInv, SemInv, ManagerTypes, DiskTypeOK

LEMMA Lengths ==
  ASSUME ManagerTypes
  PROVE  /\ Len(request_queue) \in Nat /\ Len(asked) \in Nat
         /\ Len(request) \in {0, 1} /\ (request = << >> <=> Len(request) = 0)
         /\ request_queue = << >> <=> Len(request_queue) = 0
<1>1. /\ Len(request_queue) \in Nat /\ Len(asked) \in Nat /\ Len(request) \in Nat
  BY LenProperties DEF ManagerTypes
<1>2. /\ request = << >> <=> Len(request) = 0
      /\ request_queue = << >> <=> Len(request_queue) = 0
  BY EmptySeq DEF ManagerTypes
<1>3. Len(request) <= 1
  BY DEF ManagerTypes
<1>4. Len(request) \in {0, 1}
  <2>1. \A n \in Nat : n <= 1 => n \in {0, 1}
    OBVIOUS
  <2> QED BY <1>1, <1>3, <2>1, Zenon
<1> QED BY <1>1, <1>2, <1>4, Zenon

(* What the driver takes out of request_queue is its head.                  *)
LEMMA TakeHead ==
  ASSUME ManagerTypes, request_queue # << >>
  PROVE  /\ request_queue[chosen] = Head(request_queue) /\ Head(request_queue) \in Requests
         /\ RemoveAt(request_queue, chosen) \in Seq(Requests)
         /\ Len(RemoveAt(request_queue, chosen)) = Len(request_queue) - 1
<1>1. request_queue \in Seq(Requests) /\ Len(request_queue) \in Nat \ {0}
  BY EmptySeq DEF ManagerTypes
<1>2. 1 \in 1..Len(request_queue) /\ chosen = 1
  BY <1>1 DEF chosen
<1>3. request_queue[1] \in Requests /\ Head(request_queue) = request_queue[1]
  BY <1>1, <1>2, ElementOfSeq
<1> QED BY <1>1, <1>2, <1>3, RemoveAtProperties

LEMMA Taken ==
  ASSUME ManagerTypes, DriverHolds, NEW t \in Tasks, take(t), t = Driver
  PROVE  /\ request_queue # << >> /\ disk_status = "IDLE" /\ request = << >>
         /\ request_queue' = RemoveAt(request_queue, chosen)
         /\ request_queue' \in Seq(Requests) /\ Len(request_queue') = Len(request_queue) - 1
         /\ Head(request_queue) \in Requests
         /\ request' = <<Head(request_queue)>> /\ request' \in Seq(Requests) /\ Len(request') = 1
<1>1. call(Driver) = "take"
  BY DEF take, AtOp
<1>2. request_queue # << >> /\ disk_status = "IDLE" /\ request = << >>
  BY <1>1 DEF DriverHolds
<1>3. /\ request_queue[chosen] = Head(request_queue) /\ Head(request_queue) \in Requests
      /\ RemoveAt(request_queue, chosen) \in Seq(Requests)
      /\ Len(RemoveAt(request_queue, chosen)) = Len(request_queue) - 1
  BY <1>2, TakeHead
<1>4. request_queue' = RemoveAt(request_queue, chosen) /\ request' = <<request_queue[chosen]>>
  BY DEF take
<1>5. request' = <<Head(request_queue)>>
  BY <1>3, <1>4
<1> QED BY <1>2, <1>3, <1>4, <1>5

(* The pending command: accepted whole, or not at all.                      *)
LEMMA Issued ==
  ASSUME ManagerTypes, DriverHolds, NEW t \in Tasks, issue(t), t = Driver
  PROVE  /\ disk_status = "IDLE" /\ Len(request) = 1 /\ request[1] \in Requests
         /\ request' = << >> /\ request_queue' = request_queue
         /\ IF request[1].block \in 0..numblocks-1 /\ request[1].buffer # NULL
            THEN /\ disk_status' = request[1].op /\ next_block' = request[1].block
                 /\ buffer' = request[1].buffer
            ELSE UNCHANGED diskVars
         /\ disk_status' \in {"IDLE", "READ", "WRITE"} /\ next_block' \in Int
         /\ buffer' \in Clients \cup {NULL}
         /\ disk_status' \in D!Commands => buffer' \in Clients
<1>1. call(Driver) = "issue"
  BY DEF issue, AtOp
<1>2. disk_status = "IDLE" /\ request # << >>
  BY <1>1 DEF DriverHolds
<1>3. Len(request) = 1 /\ request \in Seq(Requests)
  BY <1>2, Lengths DEF ManagerTypes
<1>4. request[1] \in Requests
  <2>1. 1 \in 1..Len(request)
    BY <1>3
  <2> QED BY <1>3, <2>1, ElementOfSeq
<1>5. /\ request[1].op \in {"READ", "WRITE"} /\ request[1].block \in Int
      /\ request[1].buffer \in Clients \cup {NULL}
  BY <1>4 DEF Requests
<1>6. /\ D!disk_cmd(request[1].op, request[1].block, request[1].buffer)
      /\ request' = << >> /\ request_queue' = request_queue
  BY DEF issue
<1> QED BY <1>2, <1>3, <1>4, <1>5, <1>6 DEF D!disk_cmd, D!accepts, D!Commands, ManagerTypes, diskVars

(* The steps at request_queue are the driver's, or a client's.              *)
LEMMA WhoseStep ==
  ASSUME SemInv, NEW t \in Tasks
  PROVE  /\ check(t) \/ clear(t) \/ look(t) \/ take(t) \/ issue(t) => t = Driver
         /\ put(t) \/ wake(t) \/ put_malloc_fails(t) => t \in Clients
<1>1. call(t) \in IF t = Driver THEN DriverCalls ELSE ClientCalls
  BY CallRoles DEF SemInv
<1> QED BY <1>1 DEF check, clear, look, take, issue, put, wake, put_malloc_fails, AtOp,
           DriverCalls, ClientCalls, Clients

LEMMA Putting ==
  ASSUME SemInv, ManagerTypes, NEW t \in Tasks, put(t)
  PROVE  \E ask \in Asks[t] :
           LET new == [tid |-> t, op |-> ask.op, block |-> ask.block, buffer |-> ask.buffer]
           IN  /\ new \in Requests
               /\ request_queue' = Append(request_queue, new)
               /\ request_queue' \in Seq(Requests)
               /\ Len(request_queue') = Len(request_queue) + 1
<1>1. t \in Clients
  BY WhoseStep
<1>2. PICK ask \in Asks[t] :
        request_queue' = Append(request_queue, [tid |-> t, op |-> ask.op, block |-> ask.block,
                                                buffer |-> ask.buffer])
  BY DEF put
<1>3. [tid |-> t, op |-> ask.op, block |-> ask.block, buffer |-> ask.buffer] \in Requests
  <2>1. ask \in [op : {"READ", "WRITE"}, block : Int, buffer : {t, NULL}]
    BY <1>1, <1>2, DiskAssumption
  <2> QED BY <1>1, <2>1 DEF Requests
<1> QED BY <1>2, <1>3, AppendProperties DEF ManagerTypes

LEMMA DiskStepTypes ==
  ASSUME DiskInv, NEW t \in Tasks, DiskStep(t)
  PROVE  ManagerTypes' /\ AskedLong'
<1>0. SemInv /\ ManagerTypes /\ DriverHolds /\ AskedLong
  BY DEF DiskInv
<1>1. CASE disk_mgr_init(t)
  <2>1. /\ disk_status' \in {disk_status, "IDLE"} /\ next_block' \in {next_block, 0} /\ buffer' = buffer
        /\ UNCHANGED <<requestVars, signal, failures>>
        /\ setup' \in {"disk", "driver", "done"} /\ starter' \in {t, starter, NULL}
        /\ disk_status' \in D!Commands => disk_status \in D!Commands
    BY <1>1 DEF disk_mgr_init, start_disk, start_driver, install_handler, D!disk_init, D!Commands, diskVars
  <2>2. t \in Clients \/ starter' \in {starter, NULL}
    BY <1>1 DEF disk_mgr_init, start_disk, start_driver, install_handler, Clients
  <2>3. ManagerTypes'
    BY <1>0, <2>1, <2>2 DEF ManagerTypes, requestVars
  <2>4. AskedLong'
    BY <1>0, <2>1, Lengths DEF AskedLong, Busy, requestVars
  <2> QED BY <2>3, <2>4
<1>2. CASE UNCHANGED <<diskVars, managerVars>>
  BY <1>0, <1>2 DEF ManagerTypes, AskedLong, Busy, diskVars, managerVars, requestVars, setupVars
<1>3. CASE put_malloc_fails(t)
  <2>1. /\ failures < MaxFailures /\ failures' = failures + 1 /\ MaxFailures \in Nat
        /\ UNCHANGED <<diskVars, requestVars, signal, setupVars>>
    BY <1>3, DiskAssumption DEF put_malloc_fails
  <2> QED BY <1>0, <2>1 DEF ManagerTypes, AskedLong, Busy, diskVars, requestVars, setupVars
<1>4. CASE put(t)
  <2>1. t \in Clients
    BY <1>0, <1>4, WhoseStep
  <2>2. request_queue' \in Seq(Requests) /\ Len(request_queue') = Len(request_queue) + 1
    BY <1>0, <1>4, Putting
  <2>3. asked' = Append(asked, t) /\ UNCHANGED <<diskVars, request, signal, failures, setupVars>>
        /\ done' = [done EXCEPT ![t] = FALSE]
    BY <1>4 DEF put
  <2>4. asked' \in Seq(Clients) /\ Len(asked') = Len(asked) + 1
    BY <1>0, <2>1, <2>3, AppendProperties DEF ManagerTypes
  <2>5. ManagerTypes'
    BY <1>0, <2>1, <2>2, <2>3, <2>4 DEF ManagerTypes, diskVars, setupVars
  <2>6. AskedLong'
    BY <1>0, <2>2, <2>3, <2>4, Lengths DEF AskedLong, Busy, diskVars
  <2> QED BY <2>5, <2>6
<1>5. CASE clear(t)
  BY <1>0, <1>5 DEF clear, ManagerTypes, AskedLong, Busy, diskVars, requestVars, setupVars
<1>6. CASE take(t)
  <2>1. t = Driver
    BY <1>0, <1>6, WhoseStep
  <2>2. /\ request_queue' \in Seq(Requests) /\ Len(request_queue') = Len(request_queue) - 1
        /\ request = << >> /\ request' \in Seq(Requests) /\ Len(request') = 1
    BY <1>0, <1>6, <2>1, Taken
  <2>3. UNCHANGED <<diskVars, done, asked, signal, failures, setupVars>>
    BY <1>6 DEF take
  <2> QED BY <1>0, <2>2, <2>3, Lengths DEF ManagerTypes, AskedLong, Busy, diskVars, setupVars
<1>7. CASE issue(t)
  <2>1. t = Driver
    BY <1>0, <1>7, WhoseStep
  <2>2. /\ disk_status = "IDLE" /\ Len(request) = 1 /\ request' = << >>
        /\ request_queue' = request_queue
        /\ disk_status' \in {"IDLE", "READ", "WRITE"} /\ next_block' \in Int
        /\ buffer' \in Clients \cup {NULL}
        /\ disk_status' \in D!Commands => buffer' \in Clients
    BY <1>0, <1>7, <2>1, Issued
  <2>3. UNCHANGED <<done, asked, signal, failures, setupVars>>
    BY <1>7 DEF issue
  <2>4. request' \in Seq(Requests) /\ Len(request') = 0
    BY <2>2, EmptySeq
  <2> QED BY <1>0, <2>2, <2>3, <2>4, Lengths DEF ManagerTypes, AskedLong, Busy, setupVars, D!Commands
<1> QED BY <1>1, <1>2, <1>3, <1>4, <1>5, <1>6, <1>7
        DEF DiskStep, wake, sleep_in_disk_queue, check, look

(* A call that returns makes the task go on in its program; nothing else    *)
(* that Semaphore does moves it there.                                      *)
LEMMA StepReturns ==
  ASSUME SemInv, NEW t \in Tasks, Step(t)
  PROVE  \/ ip' = ip /\ (pc[t] = "user" => call(t) \in {"down", "up", "destroy"})
         \/ return(t) /\ (pc[t] = "user" => call(t) \in {"down", "up", "destroy"})
<1>1. CASE \/ sem_down(t) \/ sem_up(t) \/ sem_destroy(t)
  BY <1>1 DEF sem_down, sem_up, enter_call, sem_destroy, userVars
<1>2. CASE \/ down_lock(t) \/ up_lock(t) \/ down_unlock(t) \/ up_unlock(t)
           \/ down_load(t) \/ up_load(t) \/ down_store(t) \/ up_store(t)
  BY <1>2 DEF down_lock, up_lock, lock_step, down_unlock, up_unlock, unlock_step,
     down_load, up_load, load_step, down_store, up_store, store_step, At, userVars
<1>3. CASE \/ sem_return(t) \/ up_test(t) \/ destroy_loop(t) \/ down_test(t)
  BY <1>3 DEF sem_return, up_test, destroy_loop, down_test, At, userVars
<1>4. CASE up_head(t) \/ destroy_head(t)
  BY <1>4 DEF up_head, destroy_head, resume_head, At, userVars
<1>5. CASE SuspendResume(t) /\ UNCHANGED <<semVars, userVars>>
  BY <1>5 DEF SuspendResume, suspend_remove, suspend_append, suspend_switch, resume_remove,
     resume_append, userVars
<1> QED BY <1>1, <1>2, <1>3, <1>4, <1>5 DEF Step

LEMMA HoldsKept ==
  ASSUME DiskInv, call(Driver)' = call(Driver), pc'[Driver] = pc[Driver] \/ call(Driver) \notin {"clear", "look", "take", "issue"},
         disk_status' = disk_status \/ disk_status' = "IDLE" \/ call(Driver) \notin {"take", "issue"},
         request' = request, request_queue' = request_queue \/ request_queue' # << >>
  PROVE  DriverHolds'
BY DEF DiskInv, DriverHolds

LEMMA StepHolds ==
  ASSUME DiskInv, NEW t \in Tasks, DiskStep(t)
  PROVE  DriverHolds'
<1>0. SemInv /\ ManagerTypes /\ DriverHolds /\ Driver \in Tasks
  BY Programs DEF DiskInv
<1>1. CASE disk_mgr_init(t)
  <2>1. ip' = ip /\ pc' = pc
    BY <1>1 DEF disk_mgr_init, start_disk, start_driver, install_handler, kernelVars, frameVars, userVars
  <2>2. call(Driver)' = call(Driver)
    BY <1>0, <2>1, CallKept
  <2>3. /\ disk_status' = disk_status \/ disk_status' = "IDLE"
        /\ request' = request /\ request_queue' = request_queue
    BY <1>1 DEF disk_mgr_init, start_disk, start_driver, install_handler, D!disk_init, diskVars, requestVars
  <2> QED BY <2>1, <2>2, <2>3, HoldsKept
<1>2. CASE Step(t) /\ UNCHANGED <<diskVars, managerVars>>
  <2>1. disk_status' = disk_status /\ request' = request /\ request_queue' = request_queue
    BY <1>2 DEF diskVars, managerVars, requestVars
  <2>2. CASE t # Driver
    <3>1. ip'[Driver] = ip[Driver] /\ pc'[Driver] = pc[Driver]
      BY <1>0, <1>2, <2>2, StepMoves DEF Moves
    <3> QED BY <1>0, <2>1, <3>1, CallKept, HoldsKept
  <2>3. CASE t = Driver
    <3>1. call(Driver) \notin {"clear", "look", "take", "issue"}
      <4>1. CASE pc[Driver] = "user"
        BY <1>0, <1>2, <2>3, <4>1, StepReturns
      <4>2. CASE pc[Driver] # "user"
        BY <1>0, <4>2 DEF DriverHolds
      <4> QED BY <4>1, <4>2
    <3>2. CASE ip' = ip
      BY <1>0, <2>1, <3>1, <3>2, CallKept, HoldsKept
    <3>3. CASE return(t)
      <4>1. pc'[Driver] = "user"
        BY <1>0, <2>3, <3>3, GotoTypes DEF return, SemInv, SemLabels
      <4>2. call(Driver)' = Following(call(Driver), Driver)
        BY <1>0, <2>3, <3>3, NextCall DEF return, SemInv
      <4>3. call(Driver)' \notin {"look", "take", "issue"}
        BY <3>1, <4>2 DEF Following
      <4> QED BY <1>0, <2>1, <3>1, <4>1, <4>3 DEF DriverHolds
    <3> QED BY <1>0, <1>2, <3>2, <3>3, StepReturns
  <2> QED BY <2>2, <2>3
<1>3. CASE put_malloc_fails(t) \/ put(t) \/ wake(t) \/ (sleep_in_disk_queue(t) /\ t # Driver)
  <2>1. t # Driver /\ OwnStep(t)
    BY <1>0, <1>3, WhoseStep, IsOwnStep DEF Clients
  <2>2. ip'[Driver] = ip[Driver] /\ pc'[Driver] = pc[Driver]
    BY <1>0, <2>1, OwnStepInv DEF Moves
  <2>3. call(Driver)' = call(Driver)
    BY <1>0, <2>2, CallKept
  <2>4. UNCHANGED <<disk_status, request>>
    BY <1>3 DEF put_malloc_fails, put, wake, sleep_in_disk_queue, diskVars, managerVars, requestVars
  <2>5. CASE put(t)
    <3>1. Len(request_queue') = Len(request_queue) + 1 /\ request_queue' \in Seq(Requests)
      BY <1>0, <2>5, Putting
    <3>2. request_queue' # << >>
      BY <1>0, <3>1, Lengths, EmptySeq
    <3> QED BY <2>2, <2>3, <2>4, <3>2, HoldsKept
  <2>6. CASE put_malloc_fails(t) \/ wake(t) \/ sleep_in_disk_queue(t)
    <3>1. request_queue' = request_queue
      BY <2>6 DEF put_malloc_fails, wake, sleep_in_disk_queue, managerVars, requestVars
    <3> QED BY <2>2, <2>3, <2>4, <3>1, HoldsKept
  <2> QED BY <1>3, <2>5, <2>6
<1>4. CASE sleep_in_disk_queue(t) /\ t = Driver
  <2>1. ip' = ip /\ UNCHANGED <<disk_status, request, request_queue>>
    BY <1>4 DEF sleep_in_disk_queue, userVars, diskVars, managerVars, requestVars
  <2>2. call(Driver)' = call(Driver) /\ call(Driver) \in {"wait", "sleep"}
    BY <1>0, <1>4, <2>1, CallKept DEF sleep_in_disk_queue, AtOp
  <2> QED BY <2>1, <2>2, HoldsKept
<1>5. CASE check(t)
  <2>1. t = Driver /\ call(Driver) = "check" /\ pc[Driver] = "user"
    BY <1>0, <1>5, WhoseStep DEF check, AtOp, At
  <2>2. UNCHANGED <<disk_status, request, request_queue>>
    BY <1>5 DEF check, diskVars, managerVars, requestVars
  <2>3. CASE ip' = ip
    BY <1>0, <2>1, <2>2, <2>3, CallKept, HoldsKept
  <2>4. CASE pc' = pc /\ ip' = [ip EXCEPT ![t] = ip[t] + 2]
    <3>1. call(Driver)' = "look"
      BY <1>0, <2>1, <2>4, JumpCalls DEF SemInv
    <3> QED BY <1>0, <2>1, <2>2, <2>4, <3>1 DEF DriverHolds
  <2> QED BY <1>5, <2>3, <2>4 DEF check, userVars, frameVars
<1>6. CASE clear(t)
  <2>1. t = Driver /\ call(Driver) = "clear" /\ pc[Driver] = "user"
    BY <1>0, <1>6, WhoseStep DEF clear, AtOp, At
  <2>2. UNCHANGED <<disk_status, request, request_queue>> /\ pc' = pc
    BY <1>6 DEF clear, diskVars, requestVars, kernelVars, frameVars
  <2>3. call(Driver)' = "look"
    BY <1>0, <1>6, <2>1, NextCall DEF clear, SemInv, Following
  <2> QED BY <1>0, <2>1, <2>2, <2>3 DEF DriverHolds
<1>7. CASE look(t)
  <2>1. t = Driver /\ call(Driver) = "look" /\ pc[Driver] = "user"
    BY <1>0, <1>7, WhoseStep DEF look, AtOp, At
  <2>2. UNCHANGED <<disk_status, request, request_queue>> /\ pc' = pc
    BY <1>7 DEF look, diskVars, managerVars, requestVars, kernelVars, frameVars
  <2>3. CASE can_serve /\ advance(t)
    <3>1. call(Driver)' = "take"
      BY <1>0, <2>1, <2>3, NextCall DEF SemInv, Following
    <3> QED BY <1>0, <2>1, <2>2, <2>3, <3>1 DEF DriverHolds, can_serve
  <2>4. CASE ip' = [ip EXCEPT ![t] = ip[t] + 3]
    <3>1. call(Driver)' = "up"
      BY <1>0, <2>1, <2>4, JumpCalls DEF SemInv
    <3> QED BY <1>0, <2>1, <2>2, <3>1 DEF DriverHolds
  <2> QED BY <1>7, <2>3, <2>4 DEF look
<1>8. CASE take(t)
  <2>1. t = Driver /\ call(Driver) = "take" /\ pc[Driver] = "user"
    BY <1>0, <1>8, WhoseStep DEF take, AtOp, At
  <2>2. disk_status' = disk_status /\ pc' = pc /\ advance(t)
    BY <1>8 DEF take, diskVars, kernelVars, frameVars
  <2>3. call(Driver)' = "issue"
    BY <1>0, <2>1, <2>2, NextCall DEF SemInv, Following
  <2>4. Len(request') = 1 /\ disk_status = "IDLE"
    BY <1>0, <1>8, <2>1, Taken
  <2>5. request' # << >>
    BY <2>4
  <2> QED BY <1>0, <2>1, <2>2, <2>3, <2>4, <2>5 DEF DriverHolds
<1>9. CASE issue(t)
  <2>1. t = Driver /\ call(Driver) = "issue" /\ pc[Driver] = "user"
    BY <1>0, <1>9, WhoseStep DEF issue, AtOp, At
  <2>2. pc' = pc /\ advance(t) /\ request' = << >>
    BY <1>9 DEF issue, kernelVars, frameVars
  <2>3. call(Driver)' = "up"
    BY <1>0, <2>1, <2>2, NextCall DEF SemInv, Following
  <2> QED BY <2>2, <2>3 DEF DriverHolds
<1> QED BY <1>1, <1>2, <1>3, <1>4, <1>5, <1>6, <1>7, <1>8, <1>9 DEF DiskStep

LEMMA DiskNextInv ==
  ASSUME DiskInv, [DiskNext]_allVars
  PROVE  DiskInv'
<1>1. SemInv'
  BY DiskNextSemInv DEF DiskInv
<1>2. ManagerTypes' /\ AskedLong' /\ DriverHolds'
  <2>1. CASE DiskTick \/ DiskDispatch \/ UNCHANGED allVars
    <3>1. ip' = ip /\ pc' = pc /\ UNCHANGED <<diskVars, managerVars>>
      BY <2>1 DEF DiskTick, DiskDispatch, Tick, Dispatch, allVars, vars, kernelVars, frameVars, userVars
    <3>2. call(Driver)' = call(Driver)
      BY <3>1, Programs, CallKept
    <3> QED BY <3>1, <3>2
            DEF DiskInv, ManagerTypes, AskedLong, Busy, DriverHolds, diskVars, managerVars, requestVars, setupVars
  <2>2. CASE DiskInterrupt
    <3>1. /\ disk_status \in D!Commands /\ disk_status' = "IDLE" /\ UNCHANGED <<next_block, buffer>>
          /\ asked' = Tail(asked) /\ done' = [done EXCEPT ![buffer] = TRUE] /\ signal' = 1
          /\ UNCHANGED <<request_queue, request, failures, setupVars, ip, pc>>
      BY <2>2 DEF DiskInterrupt, disk_interrupt, D!disk_sighandle, userVars, frameVars
    <3>2. asked \in Seq(Clients) /\ Len(asked) >= 1
      BY <3>1, Lengths DEF DiskInv, AskedLong, Busy, ManagerTypes
    <3>3. asked' \in Seq(Clients) /\ Len(asked') = Len(asked) - 1
      BY <3>1, <3>2, HeadTailProperties, EmptySeq
    <3>4. ManagerTypes'
      BY <3>1, <3>3 DEF DiskInv, ManagerTypes, setupVars, D!Commands
    <3>5. AskedLong'
      BY <3>1, <3>3, Lengths DEF DiskInv, AskedLong, Busy, D!Commands
    <3>6. DriverHolds'
      BY <3>1, Programs, CallKept, HoldsKept
    <3> QED BY <3>4, <3>5, <3>6
  <2>3. ASSUME NEW t \in Tasks, DiskStep(t) PROVE ManagerTypes' /\ AskedLong' /\ DriverHolds'
    BY <2>3, DiskStepTypes, StepHolds
  <2> QED BY <2>1, <2>2, <2>3 DEF DiskNext
<1> QED BY <1>1, <1>2 DEF DiskInv

LEMMA DiskInitInv == DiskInit => DiskInv
<1> SUFFICES ASSUME DiskInit PROVE DiskInv
  OBVIOUS
<1>1. << >> \in Seq(Requests) /\ << >> \in Seq(Clients) /\ Len(<< >>) = 0
  BY EmptySeq
<1>2. ManagerTypes /\ AskedLong
  BY <1>1, DiskAssumption DEF DiskInit, D!Unknown, ManagerTypes, AskedLong, Busy, D!Commands
<1>3. call(Driver) = "down"
  BY Programs, DriverPositions DEF DiskInit, Booted, call
<1>4. DriverHolds
  BY <1>3 DEF DriverHolds, DiskInit
<1> QED BY <1>2, <1>4, DiskInitSemInv DEF DiskInv

(* The types of the manager's state, whatever interrupts what: a pending    *)
(* operation of the disk has the buffer of a client.                        *)
THEOREM DiskTypeCorrect == DiskSpec => []DiskTypeOK
<1>1. DiskInv => DiskTypeOK
  BY InvTypes
<1> QED BY <1>1, DiskInitInv, DiskNextInv, PTL DEF DiskSpec

(* A task is in one queue at most, although the signal handler of the disk  *)
(* resumes the driver in the middle of its own task_suspend, of a           *)
(* task_resume of it by a client, and of the scheduler.                     *)
THEOREM DiskTasksInOneQueue == DiskSpec => []OneQueue
<1>1. DiskInv => OneQueue
  BY QueuesOKOneQueue DEF DiskInv, SemInv
<1> QED BY <1>1, DiskInitInv, DiskNextInv, PTL DEF DiskSpec

-----------------------------------------------------------------------------
(* The requests that the disk has not been given yet, oldest first: the one *)
(* in the hands of the driver, and those of request_queue.                  *)
Open == request \o request_queue

(* The hypothesis on the requests: nobody asks for a block that the disk    *)
(* does not have, nor with no buffer.  They are what disk_cmd refuses.      *)
AsksAccepted ==
  \A t \in Clients : \A ask \in Asks[t] : ask.block \in 0..numblocks-1 /\ ask.buffer = t

OpenAccepted ==
  \A i \in 1..Len(Open) : Open[i].block \in 0..numblocks-1 /\ Open[i].buffer = Open[i].tid

LEMMA Joined ==
  ASSUME NEW S, NEW r \in Seq(S), NEW q \in Seq(S), NEW o, o = r \o q
  PROVE  /\ o \in Seq(S) /\ Len(o) = Len(r) + Len(q)
         /\ Len(o) \in Nat /\ (o = << >> <=> Len(o) = 0)
         /\ r = << >> => o = q
         /\ \A i \in 1..Len(o) : /\ o[i] \in S
                                /\ o[i] = IF i <= Len(r) THEN r[i] ELSE q[i - Len(r)]
<1>1. /\ o \in Seq(S) /\ Len(o) = Len(r) + Len(q)
      /\ \A i \in 1..Len(r) + Len(q) : o[i] = IF i <= Len(r) THEN r[i] ELSE q[i - Len(r)]
  BY ConcatProperties
<1>2. Len(o) \in Nat /\ (o = << >> <=> Len(o) = 0)
  BY <1>1, LenProperties, EmptySeq
<1>3. r = << >> => o = q
  BY ConcatEmptySeq
<1>4. \A i \in 1..Len(o) : o[i] \in S
  BY <1>1, ElementOfSeq
<1> QED BY <1>1, <1>2, <1>3, <1>4

LEMMA OpenTypes ==
  ASSUME ManagerTypes
  PROVE  /\ Open \in Seq(Requests) /\ Len(Open) = Len(request) + Len(request_queue)
         /\ Len(Open) \in Nat /\ (Open = << >> <=> Len(Open) = 0)
         /\ request = << >> => Open = request_queue
         /\ \A i \in 1..Len(Open) : /\ Open[i] \in Requests
                                   /\ Open[i] = IF i <= Len(request) THEN request[i]
                                               ELSE request_queue[i - Len(request)]
<1>1. request \in Seq(Requests) /\ request_queue \in Seq(Requests)
  BY DEF ManagerTypes
<1> QED BY <1>1, Joined DEF Open

(* put adds a request at the end, take leaves them as they are, and issue   *)
(* takes the first one away.                                                *)
LEMMA OpenPut ==
  ASSUME SemInv, ManagerTypes, ManagerTypes', NEW t \in Tasks, put(t)
  PROVE  \E ask \in Asks[t] :
           LET new == [tid |-> t, op |-> ask.op, block |-> ask.block, buffer |-> ask.buffer]
           IN  /\ new \in Requests /\ Open' = Append(Open, new)
               /\ Len(Open') = Len(Open) + 1 /\ Open'[Len(Open)+1] = new
               /\ \A i \in 1..Len(Open) : Open'[i] = Open[i]
<1>1. PICK ask \in Asks[t] :
        LET new == [tid |-> t, op |-> ask.op, block |-> ask.block, buffer |-> ask.buffer]
        IN  /\ new \in Requests
            /\ request_queue' = Append(request_queue, new)
            /\ request_queue' \in Seq(Requests)
            /\ Len(request_queue') = Len(request_queue) + 1
  BY Putting
<1> DEFINE new == [tid |-> t, op |-> ask.op, block |-> ask.block, buffer |-> ask.buffer]
<1>2. new \in Requests /\ request_queue' = Append(request_queue, new) /\ request' = request
  BY <1>1 DEF put
<1> HIDE DEF new
<1>3. /\ request \in Seq(Requests) /\ request_queue \in Seq(Requests) /\ Open \in Seq(Requests)
      /\ Len(Open) \in Nat
  BY OpenTypes DEF ManagerTypes
<1>4. Open' = Append(Open, new)
  BY <1>2, <1>3, AppendIsConcat, ConcatAssociative DEF Open
<1>5. /\ Len(Open') = Len(Open) + 1 /\ Open'[Len(Open)+1] = new
      /\ \A i \in 1..Len(Open) : Open'[i] = Open[i]
  BY <1>2, <1>3, <1>4, AppendProperties
<1> QED BY <1>2, <1>4, <1>5 DEF new

LEMMA OpenTake ==
  ASSUME ManagerTypes, ManagerTypes', DriverHolds, NEW t \in Tasks, take(t), t = Driver
  PROVE  Open' = Open
<1>1. /\ request_queue # << >> /\ request = << >> /\ request' = <<Head(request_queue)>>
      /\ request_queue' = RemoveAt(request_queue, 1)
      /\ Len(request_queue') = Len(request_queue) - 1
  BY Taken DEF chosen
<1>2. request_queue \in Seq(Requests) /\ Len(request_queue) \in Nat \ {0}
  BY <1>1, EmptySeq, LenProperties DEF ManagerTypes
<1>3. \A i \in 1..Len(request_queue)-1 : request_queue'[i] = request_queue[i+1]
  <2>1. 1 \in 1..Len(request_queue)
    BY <1>2
  <2>2. \A i \in 1..Len(request_queue)-1 :
          RemoveAt(request_queue, 1)[i] = IF i < 1 THEN request_queue[i] ELSE request_queue[i+1]
    BY <1>2, <2>1, RemoveAtProperties
  <2> QED BY <1>1, <2>2
<1>4. Open = request_queue
  BY <1>1, OpenTypes
<1>5. /\ Open' \in Seq(Requests) /\ Len(Open') = Len(request_queue)
      /\ \A i \in 1..Len(Open') :
           Open'[i] = IF i <= 1 THEN Head(request_queue) ELSE request_queue'[i - 1]
  <2>1. Len(request') = 1 /\ request'[1] = Head(request_queue)
    BY <1>1
  <2>2. Open' = request' \o request_queue' /\ request' \in Seq(Requests) /\ request_queue' \in Seq(Requests)
    BY DEF Open, ManagerTypes
  <2>3. /\ Open' \in Seq(Requests) /\ Len(Open') = 1 + Len(request_queue')
        /\ \A i \in 1..Len(Open') : Open'[i] = IF i <= 1 THEN request'[i] ELSE request_queue'[i - 1]
    <3>1. /\ Open' \in Seq(Requests) /\ Len(Open') = Len(request') + Len(request_queue')
          /\ \A i \in 1..Len(Open') :
               Open'[i] = IF i <= Len(request') THEN request'[i] ELSE request_queue'[i - Len(request')]
      BY <2>2, Joined
    <3> QED BY <2>1, <3>1
  <2>4. \A i \in 1..Len(Open') : i <= 1 => i = 1
    OBVIOUS
  <2> QED BY <1>1, <1>2, <2>1, <2>3, <2>4
<1>6. \A i \in 1..Len(request_queue) : Open'[i] = request_queue[i]
  BY <1>2, <1>3, <1>5
<1> QED BY <1>2, <1>4, <1>5, <1>6, SeqEqual

LEMMA OpenIssue ==
  ASSUME ManagerTypes, ManagerTypes', DriverHolds, NEW t \in Tasks, issue(t), t = Driver
  PROVE  /\ Len(Open) \in Nat \ {0} /\ Open[1] = request[1] /\ Open[1] \in Requests
         /\ Len(Open') = Len(Open) - 1
         /\ \A i \in 1..Len(Open') : Open'[i] = Open[i+1]
<1>1. Len(request) = 1 /\ request' = << >> /\ request_queue' = request_queue
  BY Issued
<1>2. /\ Len(Open) = 1 + Len(request_queue) /\ Len(request_queue) \in Nat
      /\ \A i \in 1..Len(Open) :
           Open[i] \in Requests /\ Open[i] = IF i <= 1 THEN request[i] ELSE request_queue[i - 1]
  BY <1>1, OpenTypes, Lengths
<1>3. Open' = request_queue
  <2>1. request_queue \in Seq(Requests) /\ Open' = << >> \o request_queue
    BY <1>1 DEF Open, ManagerTypes
  <2> QED BY <2>1, ConcatEmptySeq
<1> QED BY <1>2, <1>3

(* Their clients.                                                           *)
LEMMA TidsProperties ==
  ASSUME NEW s \in Seq(Requests)
  PROVE  /\ Tids(s) \in Seq(Clients) /\ Len(Tids(s)) = Len(s) /\ DOMAIN Tids(s) = 1..Len(s)
         /\ \A i \in 1..Len(s) : Tids(s)[i] = s[i].tid
<1>1. Len(s) \in Nat /\ DOMAIN s = 1..Len(s) /\ \A i \in 1..Len(s) : s[i] \in Requests
  BY LenProperties, ElementOfSeq
<1>2. \A i \in 1..Len(s) : s[i].tid \in Clients
  BY <1>1 DEF Requests
<1> QED BY <1>1, <1>2 DEF Tids

LEMMA TidsAppend ==
  ASSUME NEW s \in Seq(Requests), NEW r \in Requests
  PROVE  Tids(Append(s, r)) = Append(Tids(s), r.tid)
<1> DEFINE a == Append(s, r)
           b == Append(Tids(s), r.tid)
<1>1. r.tid \in Clients
  BY DEF Requests
<1>2. /\ a \in Seq(Requests) /\ Len(s) \in Nat /\ Len(a) = Len(s) + 1
      /\ \A i \in 1..Len(s) : a[i] = s[i]
      /\ a[Len(s)+1] = r
  BY AppendProperties, LenProperties
<1>3. /\ b \in Seq(Clients) /\ Len(b) = Len(s) + 1
      /\ \A i \in 1..Len(s) : b[i] = s[i].tid
      /\ b[Len(s)+1] = r.tid
  BY <1>1, TidsProperties, AppendProperties
<1> HIDE DEF a, b
<1>4. Tids(a) \in Seq(Clients) /\ Len(Tids(a)) = Len(s) + 1
  BY <1>2, TidsProperties
<1>5. ASSUME NEW i \in 1..Len(s)+1 PROVE Tids(a)[i] = b[i]
  <2>1. Tids(a)[i] = a[i].tid
    BY <1>2, TidsProperties
  <2>2. CASE i \in 1..Len(s)
    BY <1>2, <1>3, <2>1, <2>2
  <2>3. CASE i = Len(s) + 1
    BY <1>2, <1>3, <2>1, <2>3
  <2> QED BY <1>2, <2>2, <2>3
<1>6. Tids(a) = b
  BY <1>3, <1>4, <1>5, SeqEqual
<1> QED BY <1>6 DEF a, b

LEMMA TidsTail ==
  ASSUME NEW s \in Seq(Requests), Len(s) \in Nat \ {0}, NEW a \in Seq(Requests),
         Len(a) = Len(s) - 1, \A i \in 1..Len(a) : a[i] = s[i+1]
  PROVE  /\ Tids(s) \in Seq(Clients) /\ Tids(s) # << >>
         /\ Head(Tids(s)) = s[1].tid /\ Tids(a) = Tail(Tids(s))
<1> DEFINE b == Tail(Tids(s))
<1>1. /\ Tids(s) \in Seq(Clients) /\ Len(Tids(s)) = Len(s) /\ Tids(s) # << >>
      /\ \A i \in 1..Len(s) : Tids(s)[i] = s[i].tid
  BY TidsProperties, EmptySeq
<1>2. /\ b \in Seq(Clients) /\ Len(b) = Len(s) - 1
      /\ \A i \in 1..Len(s)-1 : b[i] = Tids(s)[i+1]
  BY <1>1, HeadTailProperties
<1>3. 1 \in 1..Len(s)
  OBVIOUS
<1>4. Head(Tids(s)) = s[1].tid
  BY <1>1, <1>3
<1> HIDE DEF b
<1>5. Tids(a) \in Seq(Clients) /\ Len(Tids(a)) = Len(s) - 1
  BY TidsProperties
<1>6. ASSUME NEW i \in 1..Len(s)-1 PROVE Tids(a)[i] = b[i]
  <2>1. Tids(a)[i] = a[i].tid
    BY TidsProperties
  <2>2. i + 1 \in 1..Len(s)
    OBVIOUS
  <2> QED BY <1>1, <1>2, <2>1, <2>2
<1>7. Tids(a) = b
  BY <1>2, <1>5, <1>6, SeqEqual
<1> QED BY <1>1, <1>4, <1>7 DEF b

LEMMA HeadThenTail ==
  ASSUME NEW S, NEW s \in Seq(S), s # << >>
  PROVE  <<Head(s)>> \o Tail(s) = s
<1> DEFINE h == <<Head(s)>>
           c == h \o Tail(s)
<1>1. /\ Head(s) \in S /\ Tail(s) \in Seq(S) /\ Len(Tail(s)) = Len(s) - 1
      /\ \A i \in 1..Len(s)-1 : Tail(s)[i] = s[i+1]
      /\ Len(s) \in Nat \ {0} /\ Head(s) = s[1]
  BY HeadTailProperties, EmptySeq, LenProperties
<1>2. h \in Seq(S) /\ Len(h) = 1 /\ h[1] = Head(s)
  BY <1>1
<1> HIDE DEF h
<1>c. c = h \o Tail(s)
  OBVIOUS
<1> HIDE DEF c
<1>3. c \in Seq(S) /\ Len(c) = Len(h) + Len(Tail(s))
      /\ \A i \in 1..Len(c) : c[i] = IF i <= Len(h) THEN h[i] ELSE Tail(s)[i - Len(h)]
  <2>1. /\ c \in Seq(S) /\ Len(c) = Len(h) + Len(Tail(s))
        /\ \A i \in 1..Len(h) + Len(Tail(s)) :
             c[i] = IF i <= Len(h) THEN h[i] ELSE Tail(s)[i - Len(h)]
    BY <1>1, <1>2, <1>c, ConcatProperties
  <2> QED BY <2>1
<1>4. Len(c) = Len(s)
  BY <1>1, <1>2, <1>3
<1>5. ASSUME NEW i \in 1..Len(s) PROVE c[i] = s[i]
  <2>1. CASE i = 1
    BY <1>1, <1>2, <1>3, <1>4, <2>1
  <2>2. CASE i # 1
    <3>1. i - 1 \in 1..Len(s)-1 /\ (i - 1) + 1 = i /\ ~(i <= 1)
      BY <1>1, <2>2
    <3> QED BY <1>1, <1>2, <1>3, <1>4, <3>1
  <2> QED BY <2>1, <2>2
<1>6. c = s
  BY <1>3, <1>4, <1>5, SeqEqual
<1> QED BY <1>6 DEF c, h

LEMMA TailOfCons ==
  ASSUME NEW S, NEW x \in S, NEW s \in Seq(S)
  PROVE  Tail(<<x>> \o s) = s
<1> DEFINE h == <<x>>
           c == h \o s
           t == Tail(c)
<1>1. h \in Seq(S) /\ Len(h) = 1 /\ Len(s) \in Nat
  BY LenProperties
<1> HIDE DEF h
<1>c. c = h \o s
  OBVIOUS
<1> HIDE DEF c
<1>2. /\ c \in Seq(S) /\ Len(c) = Len(h) + Len(s)
      /\ \A i \in 1..Len(c) : c[i] = IF i <= Len(h) THEN h[i] ELSE s[i - Len(h)]
  <2>1. /\ c \in Seq(S) /\ Len(c) = Len(h) + Len(s)
        /\ \A i \in 1..Len(h) + Len(s) : c[i] = IF i <= Len(h) THEN h[i] ELSE s[i - Len(h)]
    BY <1>1, <1>c, ConcatProperties
  <2> QED BY <2>1
<1>3. c # << >>
  BY <1>1, <1>2, EmptySeq
<1>4. /\ t \in Seq(S) /\ Len(t) = Len(c) - 1 /\ \A i \in 1..Len(t) : t[i] = c[i+1]
  BY <1>2, <1>3, HeadTailProperties
<1> HIDE DEF t
<1>5. Len(t) = Len(s)
  BY <1>1, <1>2, <1>4
<1>6. ASSUME NEW i \in 1..Len(s) PROVE t[i] = s[i]
  <2>1. i + 1 \in 1..Len(c) /\ ~(i + 1 <= 1) /\ (i + 1) - 1 = i
    BY <1>1, <1>2
  <2> QED BY <1>1, <1>2, <1>4, <1>5, <2>1
<1>7. t = s
  BY <1>4, <1>5, <1>6, SeqEqual
<1> QED BY <1>7 DEF t, c, h

-----------------------------------------------------------------------------
(* The order of the requests, whatever interrupts what.                     *)
(*                                                                          *)
(* The driver has found the disk idle when it takes a request out of        *)
(* request_queue, and nobody else can give the disk an operation, so the    *)
(* command is accepted; and the interrupt ends the operation of the oldest. *)
InOrderInv == OpenAccepted /\ asked = OnTheDisk \o Tids(Open)

LEMMA SameOrder ==
  ASSUME InOrderInv, Open' = Open, asked' = asked, buffer' = buffer,
         disk_status' \in D!Commands <=> disk_status \in D!Commands
  PROVE  InOrderInv'
BY DEF InOrderInv, OpenAccepted, OnTheDisk, Tids

LEMMA OrderTypes ==
  ASSUME ManagerTypes
  PROVE  /\ Open \in Seq(Requests) /\ Tids(Open) \in Seq(Clients) /\ OnTheDisk \in Seq(Clients)
         /\ OnTheDisk \o Tids(Open) \in Seq(Clients)
<1>1. Open \in Seq(Requests)
  BY OpenTypes
<1>2. Tids(Open) \in Seq(Clients)
  BY <1>1, TidsProperties
<1>3. OnTheDisk \in Seq(Clients)
  <2>1. << >> \in Seq(Clients) /\ \A c \in Clients : <<c>> \in Seq(Clients)
    BY EmptySeq
  <2>2. disk_status \in D!Commands => buffer \in Clients
    BY DEF ManagerTypes
  <2> QED BY <2>1, <2>2 DEF OnTheDisk
<1> QED BY <1>1, <1>2, <1>3, ConcatProperties

LEMMA PutOrder ==
  ASSUME AsksAccepted, DiskInv, DiskInv', InOrderInv, NEW t \in Tasks, put(t)
  PROVE  InOrderInv'
<1>1. PICK ask \in Asks[t] :
        LET new == [tid |-> t, op |-> ask.op, block |-> ask.block, buffer |-> ask.buffer]
        IN  /\ new \in Requests /\ Open' = Append(Open, new)
            /\ Len(Open') = Len(Open) + 1 /\ Open'[Len(Open)+1] = new
            /\ \A i \in 1..Len(Open) : Open'[i] = Open[i]
  BY OpenPut DEF DiskInv
<1> DEFINE new == [tid |-> t, op |-> ask.op, block |-> ask.block, buffer |-> ask.buffer]
<1>2. t \in Clients
  BY WhoseStep DEF DiskInv
<1>3. new.tid = t /\ new.block \in 0..numblocks-1 /\ new.buffer = new.tid
  BY <1>2 DEF AsksAccepted
<1>4. /\ new \in Requests /\ Open' = Append(Open, new)
      /\ Len(Open') = Len(Open) + 1 /\ Open'[Len(Open)+1] = new
      /\ \A i \in 1..Len(Open) : Open'[i] = Open[i]
  BY <1>1
<1> HIDE DEF new
<1>5. /\ Open \in Seq(Requests) /\ Len(Open) \in Nat
      /\ Tids(Open) \in Seq(Clients) /\ OnTheDisk \in Seq(Clients)
      /\ OnTheDisk \o Tids(Open) \in Seq(Clients)
  BY OpenTypes, OrderTypes DEF DiskInv
<1>6. OpenAccepted'
  <2> SUFFICES ASSUME NEW i \in 1..Len(Open)+1
               PROVE  Open'[i].block \in 0..numblocks-1 /\ Open'[i].buffer = Open'[i].tid
    BY <1>4 DEF OpenAccepted
  <2>1. CASE i = Len(Open) + 1
    BY <1>3, <1>4, <2>1
  <2>2. CASE i \in 1..Len(Open)
    BY <1>4, <2>2 DEF InOrderInv, OpenAccepted
  <2> QED BY <1>5, <2>1, <2>2
<1>7. Tids(Open)' = Append(Tids(Open), t)
  <2>1. Tids(Append(Open, new)) = Append(Tids(Open), new.tid)
    BY <1>4, <1>5, TidsAppend
  <2> QED BY <1>3, <1>4, <2>1 DEF Tids
<1>8. asked' = Append(asked, t) /\ OnTheDisk' = OnTheDisk
  BY DEF put, diskVars, OnTheDisk
<1>9. Append(OnTheDisk \o Tids(Open), t) = OnTheDisk \o Append(Tids(Open), t)
  <2> DEFINE o == OnTheDisk
             s == Tids(Open)
             x == <<t>>
  <2>1. o \in Seq(Clients) /\ s \in Seq(Clients) /\ o \o s \in Seq(Clients) /\ x \in Seq(Clients)
    BY <1>2, <1>5
  <2> HIDE DEF o, s
  <2>2. Append(o \o s, t) = (o \o s) \o x /\ Append(s, t) = s \o x
    BY <1>2, <2>1, AppendIsConcat
  <2> HIDE DEF x
  <2>3. (o \o s) \o x = o \o (s \o x)
    BY <2>1, ConcatAssociative
  <2>4. Append(o \o s, t) = o \o Append(s, t)
    BY <2>2, <2>3
  <2> QED BY <2>4 DEF o, s
<1> QED BY <1>6, <1>7, <1>8, <1>9 DEF InOrderInv

LEMMA IssueOrder ==
  ASSUME DiskInv, DiskInv', InOrderInv, NEW t \in Tasks, issue(t), t = Driver
  PROVE  InOrderInv'
<1>1. /\ Len(Open) \in Nat \ {0} /\ Open[1] = request[1] /\ Open[1] \in Requests
      /\ Len(Open') = Len(Open) - 1 /\ \A i \in 1..Len(Open') : Open'[i] = Open[i+1]
      /\ Open \in Seq(Requests) /\ Open' \in Seq(Requests)
  <2>1. Open' \in Seq(Requests)
    BY ConcatProperties DEF DiskInv, ManagerTypes, Open
  <2> QED BY <2>1, OpenIssue, OpenTypes DEF DiskInv
<1>2. OpenAccepted'
  <2> SUFFICES ASSUME NEW i \in 1..Len(Open)-1
               PROVE  Open'[i].block \in 0..numblocks-1 /\ Open'[i].buffer = Open'[i].tid
    BY <1>1 DEF OpenAccepted
  <2>1. i + 1 \in 1..Len(Open) /\ Open'[i] = Open[i+1]
    BY <1>1
  <2> QED BY <2>1 DEF InOrderInv, OpenAccepted
<1>3. /\ Tids(Open) \in Seq(Clients) /\ Tids(Open) # << >>
      /\ Head(Tids(Open)) = Open[1].tid /\ Tids(Open)' = Tail(Tids(Open))
  <2>1. Tids(Open') = Tail(Tids(Open))
    BY <1>1, TidsTail
  <2> QED BY <1>1, <2>1, TidsTail DEF Tids
<1>4. disk_status = "IDLE" /\ disk_status' \in D!Commands /\ buffer' = Open[1].tid
  <2>1. 1 \in 1..Len(Open)
    BY <1>1
  <2>2. request[1].block \in 0..numblocks-1 /\ request[1].buffer = request[1].tid
    BY <1>1, <2>1 DEF InOrderInv, OpenAccepted
  <2>3. request[1].buffer # NULL /\ request[1].op \in D!Commands
    BY <1>1, <2>2, Programs DEF Requests, D!Commands
  <2> QED BY <1>1, <2>2, <2>3, Issued DEF DiskInv
<1>5. OnTheDisk = << >> /\ OnTheDisk' = <<Head(Tids(Open))>> /\ asked' = asked
  BY <1>3, <1>4 DEF OnTheDisk, D!Commands, issue
<1>6. <<Head(Tids(Open))>> \o Tail(Tids(Open)) = << >> \o Tids(Open)
  <2> DEFINE s == Tids(Open)
             c == <<Head(s)>> \o Tail(s)
  <2>1. s \in Seq(Clients) /\ s # << >> /\ << >> \o s = s
    BY <1>3, ConcatEmptySeq
  <2> HIDE DEF s
  <2> QED BY <2>1, HeadThenTail DEF s
<1> QED BY <1>2, <1>3, <1>5, <1>6 DEF InOrderInv

LEMMA InterruptOrder ==
  ASSUME DiskInv, DiskInv', InOrderInv, disk_interrupt
  PROVE  InOrderInv'
<1>1. /\ disk_status \in D!Commands /\ disk_status' = "IDLE" /\ asked' = Tail(asked)
      /\ UNCHANGED <<request_queue, request>>
  BY DEF disk_interrupt, D!disk_sighandle
<1>2. Open' = Open /\ Tids(Open)' = Tids(Open) /\ buffer \in Clients
  BY <1>1 DEF Open, Tids, DiskInv, ManagerTypes
<1>3. OnTheDisk = <<buffer>> /\ OnTheDisk' = << >>
  BY <1>1 DEF OnTheDisk, D!Commands
<1>4. Tids(Open) \in Seq(Clients)
  BY OrderTypes DEF DiskInv
<1>5. Tail(<<buffer>> \o Tids(Open)) = << >> \o Tids(Open)
  BY <1>2, <1>4, TailOfCons, ConcatEmptySeq
<1>6. OpenAccepted'
  BY <1>2 DEF InOrderInv, OpenAccepted
<1> QED BY <1>1, <1>2, <1>3, <1>5, <1>6 DEF InOrderInv

LEMMA OrderNext ==
  ASSUME AsksAccepted, DiskInv, DiskInv', InOrderInv, [DiskNext]_allVars
  PROVE  InOrderInv'
<1>1. CASE UNCHANGED <<diskVars, requestVars>>
  BY <1>1, SameOrder DEF Open, diskVars, requestVars
<1>2. CASE DiskTick \/ DiskDispatch \/ UNCHANGED allVars
  BY <1>1, <1>2 DEF DiskTick, DiskDispatch, allVars, managerVars
<1>3. CASE DiskInterrupt
  BY <1>3, InterruptOrder DEF DiskInterrupt
<1>4. ASSUME NEW t \in Tasks, DiskStep(t) PROVE InOrderInv'
  <2>1. CASE disk_mgr_init(t)
    <3>1. /\ buffer' = buffer /\ UNCHANGED requestVars
          /\ disk_status' \in D!Commands <=> disk_status \in D!Commands
      BY <2>1 DEF disk_mgr_init, start_disk, start_driver, install_handler, D!disk_init, D!Commands, diskVars
    <3> QED BY <3>1, SameOrder DEF Open, requestVars
  <2>2. CASE put(t)
    BY <2>2, PutOrder
  <2>3. CASE take(t)
    <3>1. t = Driver
      BY <2>3, WhoseStep DEF DiskInv
    <3>2. Open' = Open
      BY <2>3, <3>1, OpenTake DEF DiskInv
    <3> QED BY <2>3, <3>2, SameOrder DEF take, diskVars
  <2>4. CASE issue(t)
    <3>1. t = Driver
      BY <2>4, WhoseStep DEF DiskInv
    <3> QED BY <2>4, <3>1, IssueOrder
  <2>5. CASE \/ Step(t) /\ UNCHANGED <<diskVars, managerVars>>
             \/ put_malloc_fails(t) \/ wake(t) \/ sleep_in_disk_queue(t)
             \/ check(t) \/ clear(t) \/ look(t)
    BY <1>1, <2>5 DEF put_malloc_fails, wake, sleep_in_disk_queue, check, clear, look, managerVars
  <2> QED BY <1>4, <2>1, <2>2, <2>3, <2>4, <2>5 DEF DiskStep
<1> QED BY <1>2, <1>3, <1>4 DEF DiskNext

LEMMA OrderInit == DiskInit => InOrderInv
<1> SUFFICES ASSUME DiskInit PROVE InOrderInv
  OBVIOUS
<1>1. request = << >> /\ request_queue = << >> /\ asked = << >> /\ disk_status = "UNKNOWN"
  BY DEF DiskInit, D!Unknown
<1>2. << >> \in Seq(Requests) /\ << >> \in Seq(Clients) /\ Len(<< >>) = 0
  BY EmptySeq
<1>3. Open = << >>
  BY <1>1, <1>2, ConcatEmptySeq DEF Open
<1>4. Tids(Open) \in Seq(Clients) /\ Len(Tids(Open)) = 0
  BY <1>2, <1>3, TidsProperties
<1>5. Tids(Open) = << >> /\ OnTheDisk = << >>
  BY <1>1, <1>4, EmptySeq DEF OnTheDisk, D!Commands
<1>6. OnTheDisk \o Tids(Open) = << >>
  BY <1>2, <1>5, ConcatEmptySeq
<1> QED BY <1>1, <1>2, <1>3, <1>6 DEF InOrderInv, OpenAccepted

(* No request is lost, made twice or overtaken on its way to the disk,      *)
(* whatever interrupts what, as long as nobody asks for what disk_cmd       *)
(* refuses: the driver looks at the status, takes a request and issues it   *)
(* in three steps, clients, timer and disk come in between, and what the    *)
(* disk has still to carry out is in the order in which it was asked for.   *)
THEOREM RequestsKeptInOrder ==
  ASSUME AsksAccepted
  PROVE  DiskSpec => []RequestsInOrder
<1>1. DiskInit => DiskInv /\ InOrderInv
  BY DiskInitInv, OrderInit
<1>2. DiskInv /\ InOrderInv /\ [DiskNext]_allVars => DiskInv' /\ InOrderInv'
  BY DiskNextInv, OrderNext
<1>3. InOrderInv => RequestsInOrder
  BY DEF InOrderInv, RequestsInOrder, Open
<1> QED BY <1>1, <1>2, <1>3, PTL DEF DiskSpec

-----------------------------------------------------------------------------
(* Mutual exclusion over request_queue.                                     *)
(*                                                                          *)
(* The permit of sem_disk has one owner at a time, who alone can raise the  *)
(* value, change request_queue or take somebody out of the line; it passes  *)
(* the permit on at one step, the removal in task_resume.  The signal of    *)
(* the disk and the clients resume the driver whatever it is doing.  That   *)
(* is harmless at every point but one: between the removal and the append   *)
(* of the task_suspend in its own sem_down.                                 *)

(* Where t is in its call, and what it has passed to the kernel.            *)
Places(t) ==
  /\ call(t) = "down" => pc[t] \in DownLabels
  /\ call(t) = "up" => pc[t] \in UpLabels
  /\ call(t) \in {"put", "clear", "look", "take", "issue"} => pc[t] = "user"
  /\ call(t) \in {"wake", "check"} =>
       pc[t] \in {"user", "resume_remove", "resume_append", "sem_return"}
  /\ call(t) \in {"wait", "sleep"} =>
       pc[t] \in {"user", "suspend_remove", "suspend_append", "suspend_switch", "sem_return"}
  /\ pc[t] \in KernelLabels => back[t] = "sem_return"
  /\ pc[t] \in KernelLabels \ {"suspend_switch"} =>
       arg_queue[t] = IF call(t) \in {"down", "up"} THEN s_disk ELSE DiskQueue
  /\ call(t) = "wake" /\ pc[t] \in {"resume_remove", "resume_append"} => arg_task[t] = Driver

(* The owner of the permit: inside the section, granted the permit, or      *)
(* about to hand it on.                                                     *)
OwnsDisk(t) ==
  \/ call(t) \in {"put", "wake", "check", "clear", "look", "take", "issue"}
  \/ /\ call(t) = "down"
     /\ \/ pc[t] \in {"down_unlock", "down_test"} /\ v[t] >= 0
        \/ pc[t] \in {"suspend_switch", "sem_return"} /\ ~In(s_disk, t)
  \/ /\ call(t) = "up"
     /\ \/ pc[t] \in {"user", "up_lock", "up_load", "up_store"}
        \/ pc[t] \in {"up_unlock", "up_test", "up_head", "resume_remove"} /\ v[t] <= 0

Nowhere(x) == \A q \in Queues : ~In(q, x)

(* Client x has been taken out of the queue it blocked in, by the call op,  *)
(* and is not ready yet.                                                    *)
Away(x, op) ==
  /\ x \in Clients /\ call(x) = op /\ pc[x] \in {"suspend_switch", "sem_return"}
  /\ curr # x /\ Nowhere(x)

(* What t relies on at its label.                                           *)
Knows(t) ==
  /\ pc[t] \in {"down_store", "up_store"} => v[t] = value[s_disk]
  /\ call(t) = "up" /\ pc[t] \in {"up_head", "resume_remove"} => v[t] <= 0
  /\ call(t) = "down" /\ pc[t] = "suspend_append" =>
       Nowhere(t) /\ (t = Driver => curr = t)
  /\ call(t) = "up" /\ pc[t] = "resume_remove" => In(s_disk, arg_task[t])
  /\ call(t) = "check" /\ pc[t] = "resume_remove" =>
       arg_task[t] \in Clients /\ In(DiskQueue, arg_task[t])
  /\ call(t) = "up" /\ pc[t] = "resume_append" =>
       arg_task[t] = Driver \/ Away(arg_task[t], "down")
  /\ call(t) = "check" /\ pc[t] = "resume_append" => Away(arg_task[t], "wait")

OneDiskOwner == \A t, u \in Tasks : OwnsDisk(t) /\ OwnsDisk(u) => t = u

OneDiskPermit == value[s_disk] <= 1 /\ \A t \in Tasks : OwnsDisk(t) => value[s_disk] <= 0

(* The two queues hold the tasks that have suspended themselves there.      *)
DiskLines ==
  \A t \in Tasks :
    /\ In(s_disk, t) => call(t) = "down" /\ pc[t] \in {"suspend_switch", "sem_return"}
    /\ In(DiskQueue, t) =>
         call(t) \in {"wait", "sleep"} /\ pc[t] \in {"suspend_switch", "sem_return"}

(* A client is woken by one sem_up at a time; the driver may be by several. *)
Waking(t) == call(t) = "up" /\ pc[t] = "resume_append" /\ arg_task[t] # Driver

OneWaker == \A t, u \in Tasks : Waking(t) /\ Waking(u) /\ arg_task[t] = arg_task[u] => t = u

GuardInv ==
  /\ SemInv /\ active[s_disk] = 1
  /\ \A t \in Tasks : Places(t) /\ Knows(t)
  /\ OneDiskOwner /\ OneDiskPermit /\ DiskLines /\ OneWaker /\ RunsFromReady

(* The hypothesis on what may interrupt the driver.                         *)
WindowClosed == Timing \in {"one_window", "hand_over"}

-----------------------------------------------------------------------------
(* The call that a label belongs to.                                        *)
LEMMA LabelCall ==
  ASSUME GuardInv, NEW t \in Tasks
  PROVE  /\ pc[t] \in {"down_lock", "down_load", "down_store", "down_unlock", "down_test"} =>
              call(t) = "down"
         /\ pc[t] \in {"up_lock", "up_load", "up_store", "up_unlock", "up_test", "up_head"} =>
              call(t) = "up"
         /\ pc[t] \in {"suspend_remove", "suspend_append", "suspend_switch"} =>
              call(t) \in {"down", "wait", "sleep"}
         /\ pc[t] \in {"resume_remove", "resume_append"} => call(t) \in {"up", "wake", "check"}
         /\ pc[t] = "sem_return" => call(t) \in {"down", "up", "wake", "check", "wait", "sleep"}
         /\ pc[t] \notin {"destroy_loop", "destroy_head"}
         /\ sem(t) = s_disk
         /\ call(t) \in {"down", "put", "wake", "up", "wait", "check", "clear",
                         "look", "take", "issue", "sleep"}
         /\ call(t) \in {"check", "clear", "look", "take", "issue", "sleep"} => t = Driver
         /\ call(t) \in {"put", "wake", "wait"} => t \in Clients
<1>1. TypeOK /\ Places(t)
  BY DEF GuardInv, SemInv
<1>2. /\ sem(t) = s_disk
      /\ call(t) \in IF t = Driver THEN DriverCalls ELSE ClientCalls
  BY <1>1, CallRoles
<1>3. /\ call(t) \in {"down", "put", "wake", "up", "wait", "check", "clear",
                      "look", "take", "issue", "sleep"}
      /\ call(t) \in {"check", "clear", "look", "take", "issue", "sleep"} => t = Driver
      /\ call(t) \in {"put", "wake", "wait"} => t \in Clients
  BY <1>2 DEF DriverCalls, ClientCalls, Clients
<1> QED BY <1>1, <1>2, <1>3 DEF Places, DownLabels, UpLabels

(* u stays where it is.                                                     *)
Same(u) ==
  /\ pc'[u] = pc[u] /\ back'[u] = back[u]
  /\ arg_task'[u] = arg_task[u] /\ arg_queue'[u] = arg_queue[u]
  /\ ip'[u] = ip[u] /\ v'[u] = v[u]

LEMMA SameCall ==
  ASSUME NEW u \in Tasks, Same(u)
  PROVE  call(u)' = call(u)
BY CallKept DEF Same

LEMMA OwnsKept ==
  ASSUME NEW u \in Tasks, Same(u), In(s_disk, u)' <=> In(s_disk, u)
  PROVE  OwnsDisk(u)' <=> OwnsDisk(u)
BY SameCall DEF Same, OwnsDisk

(* The running task is in the ready queue alone, but for its way out.       *)
LEMMA RunnerReady ==
  ASSUME GuardInv, NEW t \in Tasks, curr = t, pc[t] \notin {"suspend_append", "suspend_switch"}
  PROVE  In("ready", t) /\ ~In(s_disk, t) /\ ~In(DiskQueue, t)
         /\ \A q \in Queues : In(q, t) => q = "ready"
BY Programs DEF GuardInv, RunsFromReady, SemInv, QueuesOK

(* What a step of somebody else leaves to u.                                *)
LEMMA OthersGuard ==
  ASSUME GuardInv, NEW u \in Tasks, Same(u), \A x \in Tasks : x # curr => Same(x),
         pc[u] \in {"down_store", "up_store"} => value'[s_disk] = value[s_disk],
         call(u) = "down" /\ pc[u] = "suspend_append" =>
           Nowhere(u)' /\ (u = Driver => curr' = u),
         \A x \in Tasks : call(u) = "up" /\ pc[u] = "resume_remove" /\ arg_task[u] = x /\ In(s_disk, x) =>
           In(s_disk, x)',
         \A x \in Clients : call(u) = "check" /\ pc[u] = "resume_remove" /\ arg_task[u] = x =>
           In(DiskQueue, x)',
         \A x \in Clients : pc[u] = "resume_append" /\ call(u) \in {"up", "check"} /\ arg_task[u] = x
                            /\ Nowhere(x) /\ curr # x =>
           curr' # x /\ Nowhere(x)'
  PROVE  Places(u)' /\ Knows(u)'
<1>1. call(u)' = call(u) /\ Places(u) /\ Knows(u) /\ Frame(u)
  BY SameCall DEF GuardInv, SemInv
<1>2. Places(u)'
  BY <1>1 DEF Same, Places
<1>3. ASSUME NEW op, pc[u] = "resume_append", call(u) \in {"up", "check"}, Away(arg_task[u], op)
      PROVE  Away(arg_task[u], op)'
  <2>1. PICK x \in Clients : x = arg_task[u] /\ Away(x, op)
    BY <1>3 DEF Away
  <2>2. x \in Tasks /\ x # curr
    BY <2>1 DEF Away, Clients
  <2>3. Same(x) /\ call(x)' = call(x)
    BY <2>2, SameCall
  <2>4. curr' # x /\ Nowhere(x)'
    BY <1>3, <2>1 DEF Away
  <2>5. Away(x, op)'
    BY <2>1, <2>3, <2>4 DEF Away, Same
  <2>6. arg_task'[u] = x
    BY <2>1 DEF Same
  <2> HIDE DEF Away
  <2> QED BY <2>5, <2>6 DEF Away
<1>4. call(u) = "up" /\ pc[u] = "resume_remove" => In(s_disk, arg_task[u])'
  <2>1. call(u) = "up" /\ pc[u] = "resume_remove" => arg_task[u] \in Tasks /\ In(s_disk, arg_task[u])
    BY <1>1 DEF Knows, Frame
  <2> QED BY <2>1 DEF Same, In
<1>5. call(u) = "check" /\ pc[u] = "resume_remove" =>
        arg_task'[u] \in Clients /\ In(DiskQueue, arg_task[u])'
  <2>1. call(u) = "check" /\ pc[u] = "resume_remove" => arg_task[u] \in Clients
    BY <1>1 DEF Knows
  <2> QED BY <2>1 DEF Same, In
<1>6. Knows(u)'
  BY <1>1, <1>3, <1>4, <1>5 DEF Knows, Same, Nowhere
<1> QED BY <1>2, <1>6

LEMMA OwnersStay ==
  ASSUME GuardInv, value' = value, \A w \in Tasks : OwnsDisk(w)' => OwnsDisk(w)
  PROVE  OneDiskOwner' /\ OneDiskPermit'
<1>1. OneDiskOwner'
  BY DEF OneDiskOwner, GuardInv
<1>2. OneDiskPermit'
  BY DEF OneDiskPermit, GuardInv
<1> QED BY <1>1, <1>2

LEMMA LinesAfter ==
  ASSUME GuardInv, NEW t \in Tasks, Moves(t),
         \A w \in Tasks : w # t => (In(s_disk, w)' => In(s_disk, w)) /\ (In(DiskQueue, w)' => In(DiskQueue, w)),
         In(s_disk, t)' => call(t)' = "down" /\ pc'[t] \in {"suspend_switch", "sem_return"},
         In(DiskQueue, t)' =>
           call(t)' \in {"wait", "sleep"} /\ pc'[t] \in {"suspend_switch", "sem_return"}
  PROVE  DiskLines'
<1> SUFFICES ASSUME NEW w \in Tasks
             PROVE  /\ In(s_disk, w)' => call(w)' = "down" /\ pc'[w] \in {"suspend_switch", "sem_return"}
                    /\ In(DiskQueue, w)' =>
                         call(w)' \in {"wait", "sleep"} /\ pc'[w] \in {"suspend_switch", "sem_return"}
  BY DEF DiskLines
<1>1. CASE w # t
  BY <1>1, CallKept DEF Moves, GuardInv, DiskLines
<1>2. CASE w = t
  BY <1>2 DEF In
<1> QED BY <1>1, <1>2

LEMMA WakersAfter ==
  ASSUME GuardInv, NEW t \in Tasks, Moves(t), pc'[t] # "resume_append"
  PROVE  OneWaker'
<1> SUFFICES ASSUME NEW u \in Tasks, NEW w \in Tasks, Waking(u)', Waking(w)', arg_task'[u] = arg_task'[w]
             PROVE  u = w
  BY DEF OneWaker
<1>1. u # t /\ w # t
  BY DEF Waking
<1>2. Waking(u) /\ Waking(w) /\ arg_task[u] = arg_task[w]
  BY <1>1, CallKept DEF Moves, Waking
<1> QED BY <1>2 DEF GuardInv, OneWaker

(* A step of the running t that stays out of the queues.                    *)
OwnMoves(t) ==
  /\ value'[s_disk] <= 1
  /\ OwnsDisk(t)' => value'[s_disk] <= 0 /\ (OwnsDisk(t) \/ value[s_disk] > 0)
  /\ value'[s_disk] = value[s_disk] \/ value'[s_disk] <= 0 \/ OwnsDisk(t)
  /\ value'[s_disk] = value[s_disk] \/ InLock(t, s_disk)

LEMMA QuietGuard ==
  ASSUME GuardInv, SemInv', NEW t \in Tasks, curr = t, Moves(t), OwnMoves(t), Places(t)', Knows(t)',
         queues' = queues, curr' = curr, active' = active,
         pc[t] \notin {"suspend_append", "suspend_switch"}, pc'[t] # "resume_append"
  PROVE  GuardInv'
<1>1. \A q, u : In(q, u)' <=> In(q, u)
  BY DEF In
<1>2. \A u \in Tasks : u # t => Same(u)
  BY DEF Moves, Same
<1>3. In("ready", t) /\ ~In(s_disk, t) /\ ~In(DiskQueue, t)
  BY RunnerReady
<1>4. \A u \in Tasks : Places(u)' /\ Knows(u)'
  <2> SUFFICES ASSUME NEW u \in Tasks, u # t PROVE Places(u)' /\ Knows(u)'
    OBVIOUS
  <2>1. pc[u] \in {"down_store", "up_store"} => value'[s_disk] = value[s_disk]
    <3>1. pc[u] \in {"down_store", "up_store"} => InLock(u, s_disk)
      BY LabelCall DEF InLock
    <3>2. ~(InLock(u, s_disk) /\ InLock(t, s_disk))
      BY Programs DEF GuardInv, SemInv, LockInv
    <3> QED BY <3>1, <3>2 DEF OwnMoves
  <2>2. Knows(u)
    BY DEF GuardInv
  <2>3. call(u) = "down" /\ pc[u] = "suspend_append" => Nowhere(u)' /\ (u = Driver => curr' = u)
    BY <1>1, <2>2 DEF Knows, Nowhere
  <2>4. \A x \in Clients : call(u) = "check" /\ pc[u] = "resume_remove" /\ arg_task[u] = x =>
          In(DiskQueue, x)'
    BY <1>1, <2>2 DEF Knows
  <2>5. \A x \in Clients : Nowhere(x) => Nowhere(x)'
    BY <1>1 DEF Nowhere
  <2> QED BY <1>1, <1>2, <2>1, <2>3, <2>4, <2>5, OthersGuard
<1>5. \A u \in Tasks : u # t => (OwnsDisk(u)' <=> OwnsDisk(u))
  BY <1>1, <1>2, OwnsKept
<1>6. OneDiskOwner'
  <2> SUFFICES ASSUME NEW u \in Tasks, NEW w \in Tasks, OwnsDisk(u)', OwnsDisk(w)' PROVE u = w
    BY DEF OneDiskOwner
  <2>1. value[s_disk] > 0 => \A x \in Tasks : ~OwnsDisk(x)
    BY Programs DEF GuardInv, OneDiskPermit, SemInv, TypeOK
  <2> QED BY <1>5, <2>1 DEF GuardInv, OneDiskOwner, OwnMoves
<1>7. OneDiskPermit'
  <2> SUFFICES ASSUME NEW u \in Tasks, OwnsDisk(u)' PROVE value'[s_disk] <= 0
    BY DEF OneDiskPermit, OwnMoves
  <2>1. CASE u = t
    BY <2>1 DEF OwnMoves
  <2>2. CASE u # t
    <3>1. OwnsDisk(u) /\ value[s_disk] <= 0 /\ ~OwnsDisk(t)
      BY <1>5, <2>2 DEF GuardInv, OneDiskPermit, OneDiskOwner
    <3> QED BY <3>1 DEF OwnMoves
  <2> QED BY <2>1, <2>2
<1>8. DiskLines' /\ OneWaker'
  BY <1>1, <1>3, LinesAfter, WakersAfter
<1>9. RunsFromReady'
  BY <1>1, <1>3 DEF RunsFromReady
<1> QED BY <1>4, <1>6, <1>7, <1>8, <1>9 DEF GuardInv

LEMMA WithinGuard ==
  ASSUME GuardInv, SemInv', NEW t \in Tasks, curr = t, Moves(t), value' = value,
         OwnsDisk(t)' => OwnsDisk(t), Places(t)', Knows(t)',
         queues' = queues, curr' = curr, active' = active,
         pc[t] \notin {"suspend_append", "suspend_switch"}, pc'[t] # "resume_append"
  PROVE  GuardInv'
<1>1. OwnMoves(t)
  BY DEF OwnMoves, GuardInv, OneDiskPermit
<1> QED BY <1>1, QuietGuard

-----------------------------------------------------------------------------
(* The steps of sem_down and sem_up that stay out of the queues.            *)

(* A call returns: what comes next is for the owner, or for everybody.      *)
LEMMA UserGuard ==
  ASSUME GuardInv, SemInv', NEW t \in Tasks, curr = t, Moves(t), value' = value,
         queues' = queues, curr' = curr, active' = active,
         pc[t] \notin {"suspend_append", "suspend_switch"}, pc'[t] = "user",
         call(t)' \in {"down", "sleep", "wait"} \/ OwnsDisk(t)
  PROVE  GuardInv'
<1>1. Places(t)' /\ Knows(t)'
  BY DEF Places, Knows, DownLabels, UpLabels, KernelLabels
<1>2. OwnsDisk(t)' => OwnsDisk(t)
  <2>1. CASE call(t)' \in {"down", "sleep", "wait"}
    BY <2>1 DEF OwnsDisk
  <2> QED BY <2>1
<1> QED BY <1>1, <1>2, WithinGuard

LEMMA ReturnGuard ==
  ASSUME GuardInv, SemInv', NEW t \in Tasks, curr = t, return(t),
         UNCHANGED <<coreVars, argVars, semVars>>,
         pc[t] \notin {"suspend_append", "suspend_switch"},
         call(t) \in {"down", "wake", "check"} => OwnsDisk(t),
         call(t) \in {"down", "up", "wake", "check", "wait", "sleep"}
  PROVE  GuardInv'
<1>1. /\ \A u \in Tasks : u # t => pc'[u] = pc[u] /\ ip'[u] = ip[u] /\ v'[u] = v[u]
      /\ pc'[t] = "user"
  BY GotoTypes, AdvanceTypes DEF GuardInv, SemInv, return, SemLabels
<1>2. Moves(t) /\ queues' = queues /\ curr' = curr /\ active' = active /\ value' = value
  BY <1>1 DEF Moves, coreVars, argVars, semVars
<1>3. call(t)' = Following(call(t), t)
  BY NextCall DEF GuardInv, SemInv, return
<1>4. call(t)' \in {"down", "sleep", "wait"} \/ OwnsDisk(t)
  BY <1>3 DEF Following
<1> QED BY <1>1, <1>2, <1>4, UserGuard

(* A call goes on.                                                          *)
LEMMA GoOnGuard ==
  ASSUME GuardInv, SemInv', NEW t \in Tasks, curr = t, Moves(t),
         ip' = ip, v' = v, value' = value, queues' = queues, curr' = curr, active' = active,
         \/ pc[t] = "user" /\ call(t) = "down" /\ pc'[t] = "down_lock"
         \/ pc[t] = "user" /\ call(t) = "up" /\ pc'[t] = "up_lock"
         \/ pc[t] = "down_lock" /\ pc'[t] = "down_load"
         \/ pc[t] = "up_lock" /\ pc'[t] = "up_load"
         \/ pc[t] = "down_unlock" /\ pc'[t] = "down_test"
         \/ pc[t] = "up_unlock" /\ pc'[t] = "up_test"
         \/ pc[t] = "up_test" /\ pc'[t] = "up_head" /\ v[t] <= 0
  PROVE  GuardInv'
<1>1. call(t)' = call(t) /\ v[t] \in Int
  BY CallKept DEF GuardInv, SemInv, TypeOK
<1>2. \/ call(t) = "down" /\ pc'[t] \in {"down_lock", "down_load", "down_test"}
      \/ call(t) = "up" /\ pc'[t] \in {"up_lock", "up_load", "up_test", "up_head"}
  BY LabelCall
<1>3. Places(t)'
  BY <1>1, <1>2 DEF Places, DownLabels, UpLabels, KernelLabels
<1>4. Knows(t)'
  BY <1>1, <1>2 DEF Knows
<1>5. OwnsDisk(t)' => OwnsDisk(t)
  BY <1>1, <1>2 DEF OwnsDisk
<1> QED BY <1>3, <1>4, <1>5, WithinGuard

LEMMA CallGuard ==
  ASSUME GuardInv, SemInv', NEW t \in Tasks,
         \/ sem_down(t) \/ down_lock(t) \/ down_unlock(t)
         \/ sem_up(t) \/ up_lock(t) \/ up_unlock(t)
  PROVE  GuardInv'
<1>1. /\ curr = t /\ ip' = ip /\ v' = v /\ UNCHANGED <<coreVars, argVars, value, active>>
      /\ \/ pc[t] = "user" /\ call(t) = "down" /\ Goto(t, "down_lock")
         \/ pc[t] = "user" /\ call(t) = "up" /\ Goto(t, "up_lock")
         \/ pc[t] = "down_lock" /\ Goto(t, "down_load")
         \/ pc[t] = "up_lock" /\ Goto(t, "up_load")
         \/ pc[t] = "down_unlock" /\ Goto(t, "down_test")
         \/ pc[t] = "up_unlock" /\ Goto(t, "up_test")
  <2>1. active[sem(t)] = 1
    BY LabelCall DEF GuardInv
  <2> QED BY <2>1 DEF sem_down, sem_up, enter_call, down_lock, up_lock, lock_step,
                      down_unlock, up_unlock, unlock_step, At, Running, semVars, userVars
<1>2. /\ \A u \in Tasks : u # t => pc'[u] = pc[u]
      /\ \A l : Goto(t, l) => pc'[t] = l
  BY <1>1 DEF Goto, GuardInv, SemInv, TypeOK, KernelTypeOK
<1>3. Moves(t) /\ queues' = queues /\ curr' = curr /\ active' = active /\ value' = value
  BY <1>1, <1>2 DEF Moves, coreVars, argVars
<1> QED BY <1>1, <1>2, <1>3, GoOnGuard

LEMMA LoadGuard ==
  ASSUME GuardInv, SemInv', NEW t \in Tasks, down_load(t) \/ up_load(t)
  PROVE  GuardInv'
<1>1. /\ curr = t /\ UNCHANGED <<coreVars, argVars, semVars, ip>>
      /\ v' = [v EXCEPT ![t] = value[s_disk]]
      /\ \/ pc[t] = "down_load" /\ Goto(t, "down_store")
         \/ pc[t] = "up_load" /\ Goto(t, "up_store")
  BY LabelCall DEF down_load, up_load, load_step, At, Running
<1>2. /\ (pc[t] = "down_load" /\ pc'[t] = "down_store") \/ (pc[t] = "up_load" /\ pc'[t] = "up_store")
      /\ \A u \in Tasks : u # t => pc'[u] = pc[u]
  BY <1>1 DEF Goto, GuardInv, SemInv, TypeOK, KernelTypeOK
<1>3. Moves(t) /\ queues' = queues /\ curr' = curr /\ active' = active /\ value' = value
      /\ v'[t] = value[s_disk]
  BY <1>1, <1>2 DEF Moves, coreVars, argVars, semVars, GuardInv, SemInv, TypeOK
<1>4. call(t)' = call(t) /\ (pc[t] = "down_load" => call(t) = "down")
      /\ (pc[t] = "up_load" => call(t) = "up")
  BY <1>1, CallKept, LabelCall
<1>5. Places(t)'
  BY <1>2, <1>4 DEF Places, DownLabels, UpLabels, KernelLabels
<1>6. Knows(t)'
  BY <1>2, <1>3, <1>4 DEF Knows
<1>7. OwnsDisk(t)' => OwnsDisk(t)
  BY <1>2, <1>4 DEF OwnsDisk
<1> QED BY <1>1, <1>2, <1>3, <1>5, <1>6, <1>7, WithinGuard

(* sem_down takes the permit if it finds one, sem_up of the owner gives it  *)
(* back or keeps it for the line.                                           *)
LEMMA StoreGuard ==
  ASSUME GuardInv, SemInv', NEW t \in Tasks, down_store(t) \/ up_store(t)
  PROVE  GuardInv'
<1>1. PICK delta \in {-1, 1} :
        /\ curr = t /\ UNCHANGED <<coreVars, argVars, lock, active, ip>>
        /\ value' = [value EXCEPT ![s_disk] = v[t] + delta]
        /\ v' = [v EXCEPT ![t] = v[t] + delta]
        /\ \/ pc[t] = "down_store" /\ Goto(t, "down_unlock") /\ delta = -1
           \/ pc[t] = "up_store" /\ Goto(t, "up_unlock") /\ delta = 1
  BY LabelCall DEF down_store, up_store, store_step, At, Running
<1>2. /\ \/ pc[t] = "down_store" /\ pc'[t] = "down_unlock" /\ delta = -1
         \/ pc[t] = "up_store" /\ pc'[t] = "up_unlock" /\ delta = 1
      /\ \A u \in Tasks : u # t => pc'[u] = pc[u]
  BY <1>1 DEF Goto, GuardInv, SemInv, TypeOK, KernelTypeOK
<1>3. s_disk \in Sems /\ value[s_disk] \in Int /\ v[t] = value[s_disk] /\ value[s_disk] <= 1
  BY <1>1, Programs DEF GuardInv, SemInv, TypeOK, Knows, OneDiskPermit
<1>4. value'[s_disk] = value[s_disk] + delta /\ v'[t] = value[s_disk] + delta
  BY <1>1, <1>3 DEF GuardInv, SemInv, TypeOK
<1>5. Moves(t) /\ queues' = queues /\ curr' = curr /\ active' = active
  BY <1>1, <1>2 DEF Moves, coreVars, argVars, GuardInv, SemInv, TypeOK
<1>6. call(t)' = call(t) /\ (pc[t] = "down_store" => call(t) = "down")
      /\ (pc[t] = "up_store" => call(t) = "up")
  BY <1>1, CallKept, LabelCall
<1>7. Places(t)' /\ Knows(t)'
  BY <1>2, <1>6 DEF Places, Knows, DownLabels, UpLabels, KernelLabels
<1>8. InLock(t, s_disk)
  BY <1>1, LabelCall DEF InLock
<1>9. OwnMoves(t)
  <2>1. CASE pc[t] = "down_store"
    <3>1. value'[s_disk] = value[s_disk] - 1 /\ v'[t] = value[s_disk] - 1
      BY <1>2, <1>3, <1>4, <2>1
    <3>2. OwnsDisk(t)' => value[s_disk] > 0
      BY <1>2, <1>3, <1>6, <2>1, <3>1 DEF OwnsDisk
    <3> QED BY <1>3, <1>8, <3>1, <3>2 DEF OwnMoves
  <2>2. CASE pc[t] = "up_store"
    <3>1. value'[s_disk] = value[s_disk] + 1 /\ v'[t] = value[s_disk] + 1
      BY <1>2, <1>3, <1>4, <2>2
    <3>2. OwnsDisk(t) /\ value[s_disk] <= 0
      BY <1>6, <2>2 DEF OwnsDisk, GuardInv, OneDiskPermit
    <3>3. OwnsDisk(t)' => value'[s_disk] <= 0
      BY <1>2, <1>3, <1>6, <2>2, <3>1 DEF OwnsDisk
    <3> QED BY <1>3, <1>8, <3>1, <3>2, <3>3 DEF OwnMoves
  <2> QED BY <1>1, <2>1, <2>2
<1> QED BY <1>1, <1>2, <1>5, <1>7, <1>9, QuietGuard

(* Into task_suspend and into task_resume.                                  *)
LEMMA SuspendCallGuard ==
  ASSUME GuardInv, SemInv', NEW t \in Tasks, curr = t, NEW q,
         call_suspend(t, q, "sem_return"),
         UNCHANGED <<coreVars, semVars, userVars>>,
         \/ call(t) = "down" /\ pc[t] = "down_test" /\ q = s_disk
         \/ call(t) \in {"wait", "sleep"} /\ pc[t] = "user" /\ q = DiskQueue
  PROVE  GuardInv'
<1>1. /\ pc'[t] = "suspend_remove" /\ back'[t] = "sem_return" /\ arg_queue'[t] = q
      /\ \A u \in Tasks : u # t => /\ pc'[u] = pc[u] /\ back'[u] = back[u]
                                 /\ arg_queue'[u] = arg_queue[u] /\ arg_task'[u] = arg_task[u]
  BY DEF call_suspend, Goto, GuardInv, SemInv, TypeOK, KernelTypeOK
<1>2. Moves(t) /\ queues' = queues /\ curr' = curr /\ active' = active /\ value' = value
      /\ ip' = ip /\ v' = v
  BY <1>1 DEF Moves, coreVars, semVars, userVars
<1>3. call(t)' = call(t)
  BY <1>2, CallKept
<1>4. Places(t)' /\ Knows(t)'
  BY <1>1, <1>3 DEF Places, Knows, DownLabels, UpLabels, KernelLabels
<1>5. OwnsDisk(t)' => OwnsDisk(t)
  BY <1>1, <1>3 DEF OwnsDisk
<1> QED BY <1>1, <1>2, <1>4, <1>5, WithinGuard

LEMMA ResumeCallGuard ==
  ASSUME GuardInv, SemInv', NEW t \in Tasks, curr = t, NEW x, NEW q,
         call_resume(t, x, q, "sem_return"),
         UNCHANGED <<curr, queues, status, prioVars, timeVars, user_tasks_num, semVars, userVars>>,
         \/ call(t) = "up" /\ pc[t] = "up_head" /\ q = s_disk /\ (x # NULL => In(s_disk, x))
         \/ call(t) = "wake" /\ pc[t] = "user" /\ q = DiskQueue /\ x = Driver
         \/ call(t) = "check" /\ pc[t] = "user" /\ q = DiskQueue
              /\ (x # NULL => x \in Clients /\ In(DiskQueue, x))
  PROVE  GuardInv'
<1>1. queues' = queues /\ curr' = curr /\ active' = active /\ value' = value /\ ip' = ip /\ v' = v
      /\ call(t)' = call(t)
  <2>1. ip' = ip
    BY DEF userVars
  <2> QED BY <2>1, CallKept DEF semVars, userVars
<1>2. \A p, u : In(p, u)' <=> In(p, u)
  BY <1>1 DEF In
<1>3. CASE x = NULL
  <2>1. UNCHANGED frameVars
    BY <1>3 DEF call_resume
  <2>2. Moves(t) /\ Same(t)
    BY <1>1, <2>1 DEF Moves, Same, frameVars, argVars
  <2>3. Places(t)' /\ Knows(t)' /\ (OwnsDisk(t)' <=> OwnsDisk(t))
    <3>1. Places(t) /\ Knows(t)
      BY DEF GuardInv
    <3>2. Places(t)'
      BY <1>1, <2>2, <3>1 DEF Places, Same
    <3>3. Knows(t)'
      BY <1>1, <2>2, <3>1 DEF Knows, Same
    <3> QED BY <1>2, <2>2, <3>2, <3>3, OwnsKept
  <2> QED BY <1>1, <2>2, <2>3, WithinGuard DEF Same
<1>4. CASE x # NULL
  <2>1. /\ Goto(t, "resume_remove") /\ arg_task' = [arg_task EXCEPT ![t] = x]
        /\ arg_queue' = [arg_queue EXCEPT ![t] = q] /\ back' = [back EXCEPT ![t] = "sem_return"]
    BY <1>4 DEF call_resume
  <2>2. /\ pc'[t] = "resume_remove" /\ back'[t] = "sem_return" /\ arg_queue'[t] = q /\ arg_task'[t] = x
        /\ \A u \in Tasks : u # t => /\ pc'[u] = pc[u] /\ back'[u] = back[u]
                                   /\ arg_queue'[u] = arg_queue[u] /\ arg_task'[u] = arg_task[u]
    BY <2>1 DEF Goto, GuardInv, SemInv, TypeOK, KernelTypeOK
  <2>3. Moves(t)
    BY <1>1, <2>2 DEF Moves
  <2>4. Places(t)'
    BY <1>1, <2>2 DEF Places, DownLabels, UpLabels, KernelLabels
  <2>5. Knows(t)'
    <3>1. call(t) = "up" => v[t] <= 0
      BY DEF GuardInv, Knows
    <3>2. call(t) = "up" => In(s_disk, arg_task[t])'
      BY <1>1, <1>4, <2>2 DEF In
    <3>3. call(t) = "check" => arg_task'[t] \in Clients /\ In(DiskQueue, arg_task[t])'
      BY <1>1, <1>4, <2>2 DEF In
    <3> QED BY <1>1, <2>2, <3>1, <3>2, <3>3 DEF Knows
  <2>6. OwnsDisk(t)' => OwnsDisk(t)
    BY <1>1, <2>2 DEF OwnsDisk
  <2> QED BY <1>1, <2>2, <2>3, <2>4, <2>5, <2>6, WithinGuard
<1> QED BY <1>3, <1>4

LEMMA DownTestGuard ==
  ASSUME GuardInv, SemInv', NEW t \in Tasks, down_test(t)
  PROVE  GuardInv'
<1>1. /\ curr = t /\ pc[t] = "down_test" /\ call(t) = "down" /\ sem(t) = s_disk /\ v[t] \in Int
  BY LabelCall DEF down_test, At, Running, GuardInv, SemInv, TypeOK
<1>2. CASE v[t] < 0 /\ call_suspend(t, s_disk, "sem_return") /\ UNCHANGED <<coreVars, semVars, userVars>>
  BY <1>1, <1>2, SuspendCallGuard
<1>3. CASE ~(v[t] < 0) /\ return(t) /\ UNCHANGED <<coreVars, argVars, semVars>>
  <2>1. OwnsDisk(t)
    BY <1>1, <1>3 DEF OwnsDisk
  <2> QED BY <1>1, <1>3, <2>1, ReturnGuard
<1> QED BY <1>1, <1>2, <1>3 DEF down_test, must_wait, argVars

LEMMA SemReturnGuard ==
  ASSUME GuardInv, SemInv', NEW t \in Tasks, sem_return(t)
  PROVE  GuardInv'
<1>1. /\ curr = t /\ pc[t] = "sem_return" /\ return(t) /\ UNCHANGED <<coreVars, argVars, semVars>>
  BY DEF sem_return, At, Running
<1>2. call(t) \in {"down", "wake", "check"} => OwnsDisk(t)
  BY <1>1, RunnerReady DEF OwnsDisk
<1> QED BY <1>1, <1>2, LabelCall, ReturnGuard

LEMMA UpTestGuard ==
  ASSUME GuardInv, SemInv', NEW t \in Tasks, up_test(t)
  PROVE  GuardInv'
<1>1. /\ curr = t /\ pc[t] = "up_test" /\ call(t) = "up"
      /\ UNCHANGED <<coreVars, argVars, semVars>>
  BY LabelCall DEF up_test, At, Running
<1>2. CASE v[t] <= 0 /\ Goto(t, "up_head") /\ UNCHANGED userVars
  <2>1. pc'[t] = "up_head" /\ \A u \in Tasks : u # t => pc'[u] = pc[u]
    BY <1>2 DEF Goto, GuardInv, SemInv, TypeOK, KernelTypeOK
  <2>2. Moves(t) /\ queues' = queues /\ curr' = curr /\ active' = active /\ value' = value
        /\ ip' = ip /\ v' = v
    BY <1>1, <1>2, <2>1 DEF Moves, coreVars, argVars, semVars, userVars
  <2> QED BY <1>1, <1>2, <2>1, <2>2, GoOnGuard
<1>3. CASE return(t)
  BY <1>1, <1>3, ReturnGuard
<1> QED BY <1>2, <1>3 DEF up_test, someone_waits

LEMMA UpHeadGuard ==
  ASSUME GuardInv, SemInv', NEW t \in Tasks, up_head(t)
  PROVE  GuardInv'
<1>1. /\ curr = t /\ pc[t] = "up_head" /\ call(t) = "up" /\ sem(t) = s_disk
      /\ call_resume(t, head_of(s_disk), s_disk, "sem_return")
      /\ UNCHANGED <<curr, queues, status, prioVars, timeVars, user_tasks_num, semVars, userVars>>
  BY LabelCall DEF up_head, resume_head, At, Running
<1>2. head_of(s_disk) # NULL => In(s_disk, head_of(s_disk))
  BY HeadIn, Programs DEF head_of, GuardInv, SemInv
<1> QED BY <1>1, <1>2, ResumeCallGuard

LEMMA NobodyDestroysDisk ==
  ASSUME GuardInv, NEW t \in Tasks
  PROVE  ~sem_destroy(t) /\ ~destroy_loop(t) /\ ~destroy_head(t)
BY LabelCall DEF sem_destroy, destroy_loop, destroy_head, At

-----------------------------------------------------------------------------
(* The steps that this module adds.                                         *)
LEMMA AdvanceGuard ==
  ASSUME GuardInv, SemInv', NEW t \in Tasks, AtOp(t, call(t)), OwnsDisk(t),
         UNCHANGED <<kernelVars, semVars>>,
         \A u \in Tasks : u # t => ip'[u] = ip[u] /\ v'[u] = v[u]
  PROVE  GuardInv'
<1>1. curr = t /\ pc[t] = "user" /\ pc'[t] = "user"
  BY DEF AtOp, At, Running, kernelVars, frameVars
<1>2. Moves(t) /\ queues' = queues /\ curr' = curr /\ active' = active /\ value' = value
  BY DEF Moves, kernelVars, coreVars, frameVars, argVars, semVars
<1> QED BY <1>1, <1>2, UserGuard

LEMMA SectionGuard ==
  ASSUME GuardInv, SemInv', NEW t \in Tasks,
         put_malloc_fails(t) \/ put(t) \/ clear(t) \/ look(t) \/ take(t) \/ issue(t)
  PROVE  GuardInv'
<1>1. /\ AtOp(t, call(t)) /\ UNCHANGED <<kernelVars, semVars>>
      /\ call(t) \in {"put", "clear", "look", "take", "issue"}
      /\ advance(t) \/ (\E i : ip' = [ip EXCEPT ![t] = i] /\ v' = v)
  BY DEF put_malloc_fails, put, clear, look, take, issue, AtOp
<1>2. \A u \in Tasks : u # t => ip'[u] = ip[u] /\ v'[u] = v[u]
  BY <1>1, AdvanceTypes DEF GuardInv, SemInv, TypeOK
<1> QED BY <1>1, <1>2, AdvanceGuard DEF OwnsDisk

LEMMA WakeGuard ==
  ASSUME GuardInv, SemInv', NEW t \in Tasks, wake(t)
  PROVE  GuardInv'
<1>1. /\ AtOp(t, call(t)) /\ call(t) = "wake" /\ curr = t /\ pc[t] = "user"
      /\ UNCHANGED <<curr, queues, status, prioVars, timeVars, user_tasks_num, semVars>>
  BY DEF wake, AtOp, At, Running
<1>2. CASE call_resume(t, Driver, DiskQueue, "sem_return") /\ UNCHANGED userVars
  BY <1>1, <1>2, ResumeCallGuard
<1>3. CASE advance(t) /\ UNCHANGED <<frameVars, os>>
  <2>1. \A u \in Tasks : u # t => ip'[u] = ip[u] /\ v'[u] = v[u]
    BY <1>3, AdvanceTypes DEF GuardInv, SemInv
  <2> QED BY <1>1, <1>3, <2>1, AdvanceGuard DEF OwnsDisk, kernelVars, coreVars
<1> QED BY <1>2, <1>3 DEF wake

(* The driver runs, so it is not at the head of disk_queue.                 *)
LEMMA CheckGuard ==
  ASSUME GuardInv, SemInv', NEW t \in Tasks, check(t)
  PROVE  GuardInv'
<1>1. /\ AtOp(t, call(t)) /\ call(t) = "check" /\ curr = t /\ pc[t] = "user" /\ t = Driver
      /\ UNCHANGED <<curr, queues, status, prioVars, timeVars, user_tasks_num, semVars>>
  BY LabelCall DEF check, AtOp, At, Running
<1>2. CASE call_resume(t, head_of(DiskQueue), DiskQueue, "sem_return") /\ UNCHANGED userVars
  <2> DEFINE x == head_of(DiskQueue)
  <2>1. x # NULL => x \in Tasks /\ In(DiskQueue, x)
    BY HeadIn, Programs DEF head_of, GuardInv, SemInv
  <2>2. ~In(DiskQueue, Driver)
    BY <1>1, RunnerReady
  <2>3. x # NULL => x \in Clients /\ In(DiskQueue, x)
    BY <2>1, <2>2 DEF Clients
  <2> QED BY <1>1, <1>2, <2>3, ResumeCallGuard
<1>3. CASE ip' = [ip EXCEPT ![t] = @ + 2] /\ UNCHANGED <<frameVars, os, v>>
  <2>1. \A u \in Tasks : u # t => ip'[u] = ip[u] /\ v'[u] = v[u]
    BY <1>3 DEF GuardInv, SemInv, TypeOK
  <2> QED BY <1>1, <1>3, <2>1, AdvanceGuard DEF OwnsDisk, kernelVars, coreVars
<1> QED BY <1>2, <1>3 DEF check

LEMMA SleepGuard ==
  ASSUME GuardInv, SemInv', NEW t \in Tasks, sleep_in_disk_queue(t)
  PROVE  GuardInv'
<1>1. /\ curr = t /\ pc[t] = "user" /\ call(t) \in {"wait", "sleep"}
      /\ call_suspend(t, DiskQueue, "sem_return") /\ UNCHANGED <<coreVars, semVars, userVars>>
  BY DEF sleep_in_disk_queue, AtOp, At, Running
<1> QED BY <1>1, SuspendCallGuard

-----------------------------------------------------------------------------
(* The steps of task_suspend and of task_resume change the queues.          *)
LEMMA SuspendRemoveGuard ==
  ASSUME GuardInv, SemInv', NEW t \in Tasks, suspend_remove(t), UNCHANGED <<semVars, userVars>>
  PROVE  GuardInv'
<1>1. /\ curr = t /\ pc[t] = "suspend_remove" /\ queue_remove("ready", t)
      /\ Goto(t, "suspend_append") /\ curr' = curr /\ UNCHANGED <<argVars, semVars, userVars>>
  BY DEF suspend_remove, Running
<1>2. pc'[t] = "suspend_append" /\ \A u \in Tasks : u # t => pc'[u] = pc[u]
  BY <1>1 DEF Goto, GuardInv, SemInv, TypeOK, KernelTypeOK
<1>3. /\ Moves(t) /\ ip' = ip /\ v' = v /\ value' = value /\ active' = active
      /\ back' = back /\ arg_queue' = arg_queue /\ arg_task' = arg_task
  BY <1>1, <1>2 DEF Moves, argVars, semVars, userVars
<1>4. call(t)' = call(t) /\ call(t) \in {"down", "wait", "sleep"}
  BY <1>1, <1>3, CallKept, LabelCall
<1>5. \A p \in Queues, u \in Tasks : In(p, u)' <=> In(p, u) /\ ~(p = "ready" /\ u = t)
  BY <1>1, Programs, RemoveMembers DEF GuardInv, SemInv
<1>6. \A u \in Tasks : (In(s_disk, u)' <=> In(s_disk, u)) /\ (In(DiskQueue, u)' <=> In(DiskQueue, u))
  BY <1>5, Programs
<1>7. Nowhere(t)' /\ ~In(s_disk, t) /\ ~In(DiskQueue, t)
  BY <1>1, <1>5, RunnerReady DEF Nowhere
<1>8. Places(t)'
  <2>1. Places(t)
    BY DEF GuardInv
  <2> QED BY <2>1, <1>1, <1>2, <1>3, <1>4 DEF Places, DownLabels, KernelLabels
<1>9. Knows(t)'
  BY <1>1, <1>2, <1>4, <1>7 DEF Knows
<1>10. \A u \in Tasks : u # t => Same(u)
  BY <1>3 DEF Moves, Same
<1>11. \A u \in Tasks : Places(u)' /\ Knows(u)'
  <2> SUFFICES ASSUME NEW u \in Tasks, u # t PROVE Places(u)' /\ Knows(u)'
    BY <1>8, <1>9
  <2>1. Knows(u)
    BY DEF GuardInv
  <2>2. \A x \in Tasks : Nowhere(x) => Nowhere(x)'
    BY <1>5 DEF Nowhere
  <2>3. call(u) = "down" /\ pc[u] = "suspend_append" => Nowhere(u)' /\ (u = Driver => curr' = u)
    BY <1>1, <2>1, <2>2 DEF Knows
  <2>4. \A x \in Clients : call(u) = "check" /\ pc[u] = "resume_remove" /\ arg_task[u] = x =>
          In(DiskQueue, x)'
    BY <1>6, <2>1 DEF Knows, Clients
  <2> QED BY <1>1, <1>3, <1>6, <1>10, <2>2, <2>3, <2>4, OthersGuard DEF Clients
<1>12. OneDiskOwner' /\ OneDiskPermit'
  <2>1. ~OwnsDisk(t)'
    BY <1>2, <1>4 DEF OwnsDisk
  <2>2. \A w \in Tasks : OwnsDisk(w)' => OwnsDisk(w)
    BY <1>6, <1>10, <2>1, OwnsKept
  <2> QED BY <1>3, <2>2, OwnersStay
<1>13. DiskLines' /\ OneWaker'
  BY <1>2, <1>3, <1>6, <1>7, LinesAfter, WakersAfter
<1>14. RunsFromReady'
  BY <1>1, <1>2 DEF RunsFromReady
<1> QED BY <1>3, <1>11, <1>12, <1>13, <1>14 DEF GuardInv

LEMMA SuspendAppendGuard ==
  ASSUME GuardInv, SemInv', NEW t \in Tasks, suspend_append(t), UNCHANGED <<semVars, userVars>>
  PROVE  GuardInv'
<1>1. /\ curr = t /\ pc[t] = "suspend_append" /\ queue_append(arg_queue[t], t)
      /\ Goto(t, "suspend_switch") /\ curr' = curr /\ UNCHANGED <<argVars, semVars, userVars>>
  BY DEF suspend_append, Running
<1>2. pc'[t] = "suspend_switch" /\ \A u \in Tasks : u # t => pc'[u] = pc[u]
  BY <1>1 DEF Goto, GuardInv, SemInv, TypeOK, KernelTypeOK
<1>3. /\ Moves(t) /\ ip' = ip /\ v' = v /\ value' = value /\ active' = active
      /\ back' = back /\ arg_queue' = arg_queue /\ arg_task' = arg_task
  BY <1>1, <1>2 DEF Moves, argVars, semVars, userVars
<1>4. call(t)' = call(t) /\ call(t) \in {"down", "wait", "sleep"}
  BY <1>1, <1>3, CallKept, LabelCall
<1>5. /\ Places(t) /\ Knows(t)
      /\ arg_queue[t] = (IF call(t) = "down" THEN s_disk ELSE DiskQueue) /\ back[t] = "sem_return"
  BY <1>1, <1>4 DEF GuardInv, Places, KernelLabels
<1>6. PICK q \in {s_disk, DiskQueue} : q = arg_queue[t]
  BY <1>5
<1>7. \A p \in Queues, u \in Tasks : In(p, u)' <=> In(p, u) \/ (p = q /\ u = t /\ ~Linked(t))
  BY <1>1, <1>6, Programs, AppendMembers DEF GuardInv, SemInv
<1>8. ~In(s_disk, t) /\ ~In(DiskQueue, t)
  BY <1>1 DEF GuardInv, DiskLines
<1>9. call(t) = "down" => In(s_disk, t)'
  <2>1. call(t) = "down" => q = s_disk /\ ~Linked(t)
    BY <1>1, <1>5, <1>6 DEF Knows, Nowhere, Linked, In
  <2> QED BY <1>7, <2>1, Programs
<1>10. Places(t)'
  BY <1>2, <1>3, <1>4, <1>5 DEF Places, DownLabels, KernelLabels
<1>11. Knows(t)'
  BY <1>2, <1>4 DEF Knows
<1>12. \A u \in Tasks : u # t => Same(u)
  BY <1>3 DEF Moves, Same
<1>13. \A u \in Tasks : u # t => (In(s_disk, u)' <=> In(s_disk, u)) /\ (In(DiskQueue, u)' <=> In(DiskQueue, u))
  BY <1>7, Programs
<1>14. \A u \in Tasks : Places(u)' /\ Knows(u)'
  <2> SUFFICES ASSUME NEW u \in Tasks, u # t PROVE Places(u)' /\ Knows(u)'
    BY <1>10, <1>11
  <2>1. Knows(u)
    BY DEF GuardInv
  <2>2. \A x \in Tasks : x # t /\ Nowhere(x) => Nowhere(x)'
    BY <1>7 DEF Nowhere
  <2>3. call(u) = "down" /\ pc[u] = "suspend_append" => Nowhere(u)' /\ (u = Driver => curr' = u)
    BY <1>1, <2>1, <2>2 DEF Knows
  <2>4. \A x \in Clients : call(u) = "check" /\ pc[u] = "resume_remove" /\ arg_task[u] = x =>
          In(DiskQueue, x)'
    BY <1>7, <2>1, Programs DEF Knows, Clients
  <2>5. \A x \in Tasks : In(s_disk, x) => In(s_disk, x)'
    BY <1>7, Programs
  <2> QED BY <1>1, <1>3, <1>12, <2>2, <2>3, <2>4, <2>5, OthersGuard DEF Clients
<1>15. OneDiskOwner' /\ OneDiskPermit'
  <2>1. ~OwnsDisk(t)'
    BY <1>2, <1>4, <1>9 DEF OwnsDisk
  <2>2. \A w \in Tasks : OwnsDisk(w)' => OwnsDisk(w)
    BY <1>12, <1>13, <2>1, OwnsKept
  <2> QED BY <1>3, <2>2, OwnersStay
<1>16. DiskLines'
  <2>1. /\ In(s_disk, t)' => call(t)' = "down"
        /\ In(DiskQueue, t)' => call(t)' \in {"wait", "sleep"}
    BY <1>4, <1>5, <1>6, <1>7, <1>8, Programs
  <2> QED BY <1>2, <1>3, <1>13, <2>1, LinesAfter
<1>17. OneWaker' /\ RunsFromReady'
  BY <1>1, <1>2, <1>3, WakersAfter DEF RunsFromReady
<1> QED BY <1>3, <1>14, <1>15, <1>16, <1>17 DEF GuardInv

LEMMA SuspendSwitchGuard ==
  ASSUME GuardInv, SemInv', NEW t \in Tasks, suspend_switch(t), UNCHANGED <<semVars, userVars>>
  PROVE  GuardInv'
<1>1. /\ curr = t /\ pc[t] = "suspend_switch" /\ curr' = Dispatcher /\ Goto(t, "sem_return")
      /\ back' = [back EXCEPT ![t] = NULL] /\ arg_queue' = [arg_queue EXCEPT ![t] = NULL]
      /\ queues' = queues /\ arg_task' = arg_task /\ UNCHANGED <<semVars, userVars>>
  BY DEF suspend_switch, switch_to_dispatcher, Running, GuardInv, Places, KernelLabels
<1>2. pc'[t] = "sem_return" /\ \A u \in Tasks : u # t => pc'[u] = pc[u]
  BY <1>1 DEF Goto, GuardInv, SemInv, TypeOK, KernelTypeOK
<1>3. Moves(t) /\ ip' = ip /\ v' = v /\ value' = value /\ active' = active
  BY <1>1, <1>2 DEF Moves, semVars, userVars, GuardInv, SemInv, TypeOK, KernelTypeOK
<1>4. call(t)' = call(t) /\ call(t) \in {"down", "wait", "sleep"}
  BY <1>1, <1>3, CallKept, LabelCall
<1>5. \A q, u : In(q, u)' <=> In(q, u)
  BY <1>1 DEF In
<1>6. Places(t)' /\ Knows(t)'
  BY <1>2, <1>4 DEF Places, Knows, DownLabels, KernelLabels
<1>7. \A u \in Tasks : u # t => Same(u)
  BY <1>3 DEF Moves, Same
<1>8. \A u \in Tasks : Places(u)' /\ Knows(u)'
  <2> SUFFICES ASSUME NEW u \in Tasks, u # t PROVE Places(u)' /\ Knows(u)'
    BY <1>6
  <2>1. Knows(u)
    BY DEF GuardInv
  <2>2. \A x \in Tasks : Nowhere(x) => Nowhere(x)'
    BY <1>5 DEF Nowhere
  <2>3. call(u) = "down" /\ pc[u] = "suspend_append" => Nowhere(u)' /\ (u = Driver => curr' = u)
    BY <1>1, <2>1, <2>2 DEF Knows
  <2>4. \A x \in Clients : call(u) = "check" /\ pc[u] = "resume_remove" /\ arg_task[u] = x =>
          In(DiskQueue, x)'
    BY <1>5, <2>1 DEF Knows
  <2>5. \A x \in Clients : curr' # x /\ x \in Tasks
    BY <1>1, KernelAssumption DEF Clients
  <2> QED BY <1>1, <1>3, <1>5, <1>7, <2>2, <2>3, <2>4, <2>5, OthersGuard
<1>9. OneDiskOwner' /\ OneDiskPermit'
  <2>1. OwnsDisk(t)' => OwnsDisk(t)
    BY <1>1, <1>2, <1>3, <1>4, <1>5 DEF OwnsDisk
  <2>2. \A w \in Tasks : OwnsDisk(w)' => OwnsDisk(w)
    BY <1>5, <1>7, <2>1, OwnsKept
  <2> QED BY <1>3, <2>2, OwnersStay
<1>10. DiskLines'
  <2>1. /\ In(s_disk, t)' => call(t)' = "down"
        /\ In(DiskQueue, t)' => call(t)' \in {"wait", "sleep"}
    BY <1>4, <1>5 DEF GuardInv, DiskLines
  <2> QED BY <1>2, <1>3, <1>5, <2>1, LinesAfter
<1>11. OneWaker' /\ RunsFromReady'
  BY <1>1, <1>2, <1>3, WakersAfter, KernelAssumption DEF RunsFromReady
<1> QED BY <1>3, <1>8, <1>9, <1>10, <1>11 DEF GuardInv

(* sem_up takes the head of the line out, who owns the permit from then on; *)
(* a client takes the driver out of disk_queue, the driver a client.        *)
LEMMA ResumeRemoveGuard ==
  ASSUME GuardInv, SemInv', NEW t \in Tasks, resume_remove(t), UNCHANGED <<semVars, userVars>>
  PROVE  GuardInv'
<1>1. /\ curr = t /\ pc[t] = "resume_remove" /\ queue_remove(arg_queue[t], arg_task[t])
      /\ Goto(t, "resume_append") /\ curr' = curr /\ UNCHANGED <<argVars, semVars, userVars>>
  BY DEF resume_remove, Running
<1>2. pc'[t] = "resume_append" /\ \A u \in Tasks : u # t => pc'[u] = pc[u]
  BY <1>1 DEF Goto, GuardInv, SemInv, TypeOK, KernelTypeOK
<1>3. /\ Moves(t) /\ ip' = ip /\ v' = v /\ value' = value /\ active' = active
      /\ back' = back /\ arg_queue' = arg_queue /\ arg_task' = arg_task
  BY <1>1, <1>2 DEF Moves, argVars, semVars, userVars
<1>4. /\ call(t)' = call(t) /\ call(t) \in {"up", "wake", "check"} /\ Places(t) /\ Knows(t)
      /\ arg_queue[t] = (IF call(t) = "up" THEN s_disk ELSE DiskQueue)
  BY <1>1, <1>3, CallKept, LabelCall DEF GuardInv, Places, KernelLabels
<1>5. PICK q \in {s_disk, DiskQueue}, x \in Tasks : q = arg_queue[t] /\ x = arg_task[t]
  BY <1>1, <1>4 DEF GuardInv, SemInv, Frame
<1>6. /\ call(t) = "up" => q = s_disk /\ In(s_disk, x) /\ v[t] <= 0
      /\ call(t) = "wake" => q = DiskQueue /\ x = Driver
      /\ call(t) = "check" => q = DiskQueue /\ x \in Clients /\ In(DiskQueue, x)
  BY <1>1, <1>4, <1>5 DEF Places, Knows
<1>7. \A p \in Queues, u \in Tasks : In(p, u)' <=> In(p, u) /\ ~(p = q /\ u = x)
  BY <1>1, <1>5, Programs, RemoveMembers DEF GuardInv, SemInv
<1>8. In("ready", t) /\ ~In(s_disk, t) /\ ~In(DiskQueue, t)
  BY <1>1, RunnerReady
<1>9. OwnsDisk(t)
  BY <1>1, <1>4, <1>6 DEF OwnsDisk
<1>10. \A u \in Tasks : OwnsDisk(u) => u = t
  BY <1>9 DEF GuardInv, OneDiskOwner
<1>11. \A u \in Tasks : u # t => Same(u)
  BY <1>3 DEF Moves, Same
<1>12. In(q, x) => x # t /\ Nowhere(x)' /\ Same(x)
  <2> SUFFICES ASSUME In(q, x) PROVE x # t /\ Nowhere(x)' /\ Same(x)
    OBVIOUS
  <2>1. x # t
    BY <1>8
  <2>2. \A p \in Queues : In(p, x) => p = q
    BY Programs DEF GuardInv, SemInv, QueuesOK
  <2> QED BY <1>7, <1>11, <2>1, <2>2 DEF Nowhere
<1>13. call(t) = "up" => x = Driver \/ Away(x, "down")'
  <2> SUFFICES ASSUME call(t) = "up", x # Driver PROVE Away(x, "down")'
    OBVIOUS
  <2>1. call(x) = "down" /\ pc[x] \in {"suspend_switch", "sem_return"} /\ In(q, x)
    BY <1>6 DEF GuardInv, DiskLines
  <2> QED BY <1>1, <1>12, <2>1, SameCall DEF Away, Clients, Same
<1>14. call(t) = "check" => Away(x, "wait")'
  <2> SUFFICES ASSUME call(t) = "check" PROVE Away(x, "wait")'
    OBVIOUS
  <2>1. call(x) \in {"wait", "sleep"} /\ pc[x] \in {"suspend_switch", "sem_return"} /\ In(q, x)
    BY <1>6 DEF GuardInv, DiskLines
  <2>2. call(x) = "wait"
    BY <1>6, <2>1, LabelCall DEF Clients
  <2> QED BY <1>1, <1>6, <1>12, <2>1, <2>2, SameCall DEF Away, Same
<1>15. Places(t)'
  BY <1>1, <1>2, <1>3, <1>4 DEF Places, UpLabels, KernelLabels
<1>16. Knows(t)'
  <2>1. \A op : arg_task'[t] = x /\ (Away(x, op)' => Away(arg_task[t], op)')
    <3>1. arg_task'[t] = x
      BY <1>3, <1>5
    <3> QED BY <3>1 DEF Away, Nowhere, In, call
  <2>2. call(t) = "up" => arg_task'[t] = Driver \/ Away(arg_task[t], "down")'
    BY <1>13, <2>1
  <2>3. call(t) = "check" => Away(arg_task[t], "wait")'
    BY <1>14, <2>1
  <2> HIDE DEF Away
  <2> QED BY <1>2, <1>4, <2>2, <2>3 DEF Knows
<1>17. \A u \in Tasks : Places(u)' /\ Knows(u)'
  <2> SUFFICES ASSUME NEW u \in Tasks, u # t PROVE Places(u)' /\ Knows(u)'
    BY <1>15, <1>16
  <2>1. Knows(u) /\ ~OwnsDisk(u)
    BY <1>10 DEF GuardInv
  <2>2. \A y \in Tasks : Nowhere(y) => Nowhere(y)'
    BY <1>7 DEF Nowhere
  <2>3. call(u) = "down" /\ pc[u] = "suspend_append" => Nowhere(u)' /\ (u = Driver => curr' = u)
    BY <1>1, <2>1, <2>2 DEF Knows
  <2>4. ~(call(u) \in {"up", "check"} /\ pc[u] = "resume_remove")
    BY <2>1 DEF Knows, OwnsDisk
  <2> QED BY <1>1, <1>3, <1>11, <2>2, <2>3, <2>4, OthersGuard DEF Clients
<1>18. \A u \in Tasks : u # t /\ OwnsDisk(u)' => call(t) = "up" /\ u = x
  <2> SUFFICES ASSUME NEW u \in Tasks, u # t, OwnsDisk(u)', ~(call(t) = "up" /\ u = x) PROVE FALSE
    OBVIOUS
  <2>1. In(s_disk, u)' <=> In(s_disk, u)
    BY <1>4, <1>6, <1>7, Programs
  <2> QED BY <1>10, <1>11, <2>1, OwnsKept
<1>19. OneDiskOwner' /\ OneDiskPermit'
  <2>1. call(t) = "up" => ~OwnsDisk(t)'
    BY <1>2, <1>4 DEF OwnsDisk
  <2>2. OneDiskOwner'
    BY <1>18, <2>1 DEF OneDiskOwner
  <2>3. OneDiskPermit'
    BY <1>3, <1>9 DEF GuardInv, OneDiskPermit
  <2> QED BY <2>2, <2>3
<1>20. DiskLines'
  BY <1>3, <1>7, <1>8, Programs, LinesAfter
<1>21. OneWaker'
  <2>1. \A u \in Tasks : u # t => (Waking(u)' <=> Waking(u)) /\ arg_task'[u] = arg_task[u]
    BY <1>11, SameCall DEF Waking, Same
  <2>2. ASSUME NEW u \in Tasks, u # t, Waking(u), Waking(t)', arg_task[u] = x PROVE FALSE
    <3>1. call(t) = "up"
      BY <1>4, <2>2 DEF Waking
    <3>2. Away(x, "down")
      BY <2>2 DEF Waking, GuardInv, Knows
    <3> QED BY <1>6, <3>1, <3>2, Programs DEF Away, Nowhere
  <2>3. arg_task'[t] = x
    BY <1>3, <1>5
  <2> SUFFICES ASSUME NEW u \in Tasks, NEW w \in Tasks, Waking(u)', Waking(w)', arg_task'[u] = arg_task'[w]
               PROVE  u = w
    BY DEF OneWaker
  <2>4. CASE u # t /\ w # t
    BY <2>1, <2>4 DEF GuardInv, OneWaker
  <2> QED BY <2>1, <2>2, <2>3, <2>4
<1>22. RunsFromReady'
  BY <1>1, <1>7, <1>8, Programs DEF RunsFromReady
<1> QED BY <1>3, <1>17, <1>19, <1>20, <1>21, <1>22 DEF GuardInv

LEMMA ResumeAppendGuard ==
  ASSUME GuardInv, SemInv', NEW t \in Tasks, resume_append(t), UNCHANGED <<semVars, userVars>>
  PROVE  GuardInv'
<1>1. PICK x \in Tasks :
        /\ x = arg_task[t] /\ curr = t /\ pc[t] = "resume_append" /\ queue_append("ready", x)
        /\ Goto(t, "sem_return") /\ curr' = curr
        /\ back' = [back EXCEPT ![t] = NULL] /\ arg_queue' = [arg_queue EXCEPT ![t] = NULL]
        /\ arg_task' = [arg_task EXCEPT ![t] = NULL]
        /\ UNCHANGED <<semVars, userVars>>
  <2>1. arg_task[t] \in Tasks /\ back[t] = "sem_return"
    BY DEF resume_append, GuardInv, SemInv, Frame, Places, KernelLabels
  <2> QED BY <2>1 DEF resume_append, Running
<1>2. pc'[t] = "sem_return" /\ \A u \in Tasks : u # t => pc'[u] = pc[u]
  BY <1>1 DEF Goto, GuardInv, SemInv, TypeOK, KernelTypeOK
<1>3. Moves(t) /\ ip' = ip /\ v' = v /\ value' = value /\ active' = active
  BY <1>1, <1>2 DEF Moves, semVars, userVars, GuardInv, SemInv, TypeOK, KernelTypeOK
<1>4. call(t)' = call(t) /\ call(t) \in {"up", "wake", "check"} /\ Places(t) /\ Knows(t)
  BY <1>1, <1>3, CallKept, LabelCall DEF GuardInv
<1>5. /\ call(t) = "up" => x = Driver \/ Away(x, "down")
      /\ call(t) = "wake" => x = Driver
      /\ call(t) = "check" => Away(x, "wait") /\ t = Driver
  BY <1>1, <1>4, LabelCall DEF Places, Knows
<1>6. \A p \in Queues, u \in Tasks : In(p, u)' <=> In(p, u) \/ (p = "ready" /\ u = x /\ ~Linked(x))
  BY <1>1, Programs, AppendMembers DEF GuardInv, SemInv
<1>7. \A u \in Tasks : (In(s_disk, u)' <=> In(s_disk, u)) /\ (In(DiskQueue, u)' <=> In(DiskQueue, u))
  BY <1>6, Programs
<1>8. In("ready", t) /\ ~In(s_disk, t) /\ ~In(DiskQueue, t)
  BY <1>1, RunnerReady
<1>9. Places(t)' /\ Knows(t)'
  BY <1>2, <1>4 DEF Places, Knows, UpLabels, KernelLabels
<1>10. \A u \in Tasks : u # t => Same(u)
  BY <1>3 DEF Moves, Same
<1>11. \A u \in Tasks : Places(u)' /\ Knows(u)'
  <2> SUFFICES ASSUME NEW u \in Tasks, u # t PROVE Places(u)' /\ Knows(u)'
    BY <1>9
  <2>1. Knows(u) /\ (call(u) = "check" => u = Driver)
    BY LabelCall DEF GuardInv
  <2>2. \A y \in Tasks : y # x /\ Nowhere(y) => Nowhere(y)'
    BY <1>6 DEF Nowhere
  <2>3. ASSUME call(u) = "down", pc[u] = "suspend_append" PROVE Nowhere(u)' /\ u # Driver
    <3>1. u # Driver
      BY <1>1, <2>1, <2>3 DEF Knows
    <3>2. u # x
      BY <1>4, <1>5, <2>3, <3>1 DEF Away
    <3> QED BY <2>1, <2>2, <2>3, <3>1, <3>2 DEF Knows
  <2>4. ASSUME NEW y \in Clients, pc[u] = "resume_append", call(u) \in {"up", "check"},
               arg_task[u] = y, Nowhere(y), curr # y
        PROVE  Nowhere(y)'
    <3>0. y # Driver /\ y \in Tasks
      BY DEF Clients
    <3>1. Away(y, IF call(u) = "up" THEN "down" ELSE "wait")
      BY <2>1, <2>4, <3>0 DEF Knows
    <3>2. y # x
      <4> SUFFICES ASSUME y = x PROVE FALSE
        OBVIOUS
      <4>1. CASE call(t) = "up" /\ call(u) = "up"
        <5>1. Waking(t) /\ Waking(u) /\ arg_task[t] = arg_task[u]
          BY <1>1, <2>4, <3>0, <4>1 DEF Waking
        <5> QED BY <5>1 DEF GuardInv, OneWaker
      <4>2. CASE call(t) = "up" /\ call(u) = "check"
        BY <1>5, <3>0, <3>1, <4>2 DEF Away
      <4>3. CASE call(t) = "check" /\ call(u) = "up"
        BY <1>5, <3>1, <4>3 DEF Away
      <4>4. ~(call(t) = "check" /\ call(u) = "check") /\ call(t) # "wake"
        BY <1>5, <2>1, <3>0
      <4> QED BY <1>4, <2>4, <4>1, <4>2, <4>3, <4>4
    <3> QED BY <2>2, <2>4, <3>0, <3>2
  <2>5. \A y \in Clients : call(u) = "check" /\ pc[u] = "resume_remove" /\ arg_task[u] = y =>
          In(DiskQueue, y)'
    BY <1>7, <2>1 DEF Knows, Clients
  <2> QED BY <1>1, <1>3, <1>7, <1>10, <2>3, <2>4, <2>5, OthersGuard
<1>12. OneDiskOwner' /\ OneDiskPermit'
  <2>1. OwnsDisk(t)' => OwnsDisk(t)
    BY <1>2, <1>4 DEF OwnsDisk
  <2>2. \A w \in Tasks : OwnsDisk(w)' => OwnsDisk(w)
    BY <1>7, <1>10, <2>1, OwnsKept
  <2> QED BY <1>3, <2>2, OwnersStay
<1>13. DiskLines' /\ OneWaker'
  BY <1>2, <1>3, <1>7, <1>8, LinesAfter, WakersAfter
<1>14. RunsFromReady'
  BY <1>1, <1>6, <1>8, Programs DEF RunsFromReady
<1> QED BY <1>3, <1>11, <1>12, <1>13, <1>14 DEF GuardInv

-----------------------------------------------------------------------------
(* The timer, the dispatcher, the interrupt of the disk and the start of    *)
(* the driver leave the calls where they are.                               *)
LEMMA FrozenGuard ==
  ASSUME GuardInv, SemInv', UNCHANGED <<frameVars, semVars, userVars>>,
         \A u \in Tasks : In(s_disk, u)' <=> In(s_disk, u),
         \A u \in Tasks : In(DiskQueue, u)' => In(DiskQueue, u),
         \A u \in Tasks : In("ready", u) => In("ready", u)',
         \A q \in Queues, u \in Clients : In(q, u)' <=> In(q, u),
         HalfBlocked => Nowhere(Driver)' /\ curr' = Driver,
         \/ curr' = curr
         \/ curr' = Dispatcher
         \/ curr' \in Tasks /\ In("ready", curr')
  PROVE  GuardInv'
<1>1. value' = value /\ active' = active
      /\ \A u \in Tasks : Same(u) /\ call(u)' = call(u)
  <2>1. \A u \in Tasks : Same(u)
    BY DEF Same, frameVars, argVars, userVars
  <2> QED BY <2>1, SameCall DEF semVars
<1>2. \A u \in Tasks : Places(u)' /\ Knows(u)'
  <2> SUFFICES ASSUME NEW u \in Tasks PROVE Places(u)' /\ Knows(u)'
    OBVIOUS
  <2>1. Knows(u)
    BY DEF GuardInv
  <2>2. \A x \in Clients : Nowhere(x) => Nowhere(x)'
    BY DEF Nowhere
  <2>3. call(u) = "down" /\ pc[u] = "suspend_append" => Nowhere(u)' /\ (u = Driver => curr' = u)
    <3>1. CASE u = Driver
      BY <3>1 DEF HalfBlocked, Nowhere
    <3>2. CASE u # Driver
      BY <2>1, <2>2, <3>2 DEF Knows, Clients
    <3> QED BY <3>1, <3>2
  <2>4. \A x \in Clients : call(u) = "check" /\ pc[u] = "resume_remove" /\ arg_task[u] = x =>
          In(DiskQueue, x)'
    BY <2>1, Programs DEF Knows
  <2>5. \A x \in Clients : Nowhere(x) /\ curr # x => curr' # x
    BY KernelAssumption, Programs DEF Nowhere, Clients
  <2> QED BY <1>1, <2>2, <2>3, <2>4, <2>5, OthersGuard
<1>3. OneDiskOwner' /\ OneDiskPermit'
  BY <1>1, OwnsKept, OwnersStay
<1>4. DiskLines'
  BY <1>1 DEF DiskLines, GuardInv, Same
<1>5. OneWaker'
  BY <1>1 DEF OneWaker, Waking, GuardInv, Same
<1>6. RunsFromReady'
  <2>1. CASE curr' = curr
    <3>1. curr \in Tasks => In("ready", curr) \/ pc[curr] \in {"suspend_append", "suspend_switch"}
      BY DEF GuardInv, RunsFromReady
    <3>2. curr \in Tasks => In("ready", curr)' \/ pc'[curr] \in {"suspend_append", "suspend_switch"}
      <4>1. \A u \in Tasks : u = curr => (In("ready", u)' \/ ~In("ready", u)) /\ pc'[u] = pc[u]
        BY <1>1 DEF Same
      <4>2. \A u : u = curr => (In("ready", u)' <=> In("ready", curr)')
        BY <2>1 DEF In
      <4> QED BY <3>1, <4>1, <4>2
    <3> QED BY <2>1, <3>2 DEF RunsFromReady, In
  <2>2. CASE curr' = Dispatcher
    BY <2>2, KernelAssumption DEF RunsFromReady
  <2>3. CASE curr' \in Tasks /\ In("ready", curr')
    <3>1. \A u \in Tasks : u = curr' => In("ready", u)'
      BY <2>3
    <3> QED BY <2>3, <3>1 DEF RunsFromReady, In
  <2> QED BY <2>1, <2>2, <2>3
<1> QED BY <1>1, <1>2, <1>3, <1>4, <1>5, <1>6 DEF GuardInv

LEMMA StillGuard ==
  ASSUME GuardInv, SemInv', queues' = queues, UNCHANGED <<frameVars, semVars, userVars>>,
         HalfBlocked => curr' = curr,
         \/ curr' = curr
         \/ curr' = Dispatcher
         \/ curr' \in Tasks /\ In("ready", curr')
  PROVE  GuardInv'
<1>1. \A q, u : In(q, u)' <=> In(q, u)
  BY DEF In
<1>2. HalfBlocked => Nowhere(Driver)' /\ curr' = Driver
  BY <1>1, Programs DEF HalfBlocked, GuardInv, Knows, Nowhere
<1> QED BY <1>1, <1>2, FrozenGuard

LEMMA TickGuard ==
  ASSUME WindowClosed, GuardInv, SemInv', DiskTick
  PROVE  GuardInv'
<1>1. /\ queues' = queues /\ UNCHANGED <<frameVars, semVars, userVars>>
      /\ curr' = curr \/ curr' = Dispatcher
  BY DEF DiskTick, Tick, switch_to_dispatcher
<1>2. HalfBlocked => curr' = curr
  <2> SUFFICES ASSUME HalfBlocked, curr' # curr PROVE FALSE
    OBVIOUS
  <2>1. curr = Driver /\ QuantumMayEnd(curr)
    BY Programs DEF HalfBlocked, GuardInv, Knows, DiskTick
  <2>2. CASE Timing = "one_window"
    BY <2>1, <2>2 DEF QuantumMayEnd
  <2>3. CASE Timing = "hand_over"
    BY <2>1, <2>3 DEF QuantumMayEnd, Entering, HalfBlocked
  <2> QED BY <2>2, <2>3 DEF WindowClosed
<1> QED BY <1>1, <1>2, StillGuard

LEMMA DispatchGuard ==
  ASSUME GuardInv, SemInv', DiskDispatch
  PROVE  GuardInv'
<1>1. /\ queues' = queues /\ curr = Dispatcher /\ UNCHANGED <<frameVars, semVars, userVars>>
      /\ \E next \in Tasks : Chosen(queues["ready"], next) /\ curr' = next
  BY NobodyDue DEF DiskDispatch, Dispatch, Running, GuardInv
<1>2. curr' \in Tasks /\ In("ready", curr')
  BY <1>1 DEF Chosen, In, Contains
<1>3. ~HalfBlocked
  BY <1>1, Programs, KernelAssumption DEF HalfBlocked, GuardInv, Knows
<1> QED BY <1>1, <1>2, <1>3, StillGuard

LEMMA InterruptGuard ==
  ASSUME WindowClosed, GuardInv, SemInv', DiskInterrupt
  PROVE  GuardInv'
<1>1. UNCHANGED <<curr, frameVars, semVars, userVars>> /\ queues' = resumed
  BY DEF DiskInterrupt, disk_interrupt
<1>2. ~HalfBlocked
  BY DEF WindowClosed, DiskInterrupt, DiskMayInterrupt
<1>3. \A q \in Queues, u \in Tasks :
        In(q, u)' <=> IF u = Driver /\ ~DriverElsewhere THEN q = "ready" ELSE In(q, u)
  BY <1>1, ResumedMembers DEF GuardInv, SemInv
<1>4. ~DriverElsewhere => \A q \in Queues : In(q, Driver) => q = DiskQueue
  BY DEF DriverElsewhere
<1>5. /\ \A u \in Tasks : In(s_disk, u)' <=> In(s_disk, u)
      /\ \A u \in Tasks : In(DiskQueue, u)' => In(DiskQueue, u)
      /\ \A u \in Tasks : In("ready", u) => In("ready", u)'
      /\ \A q \in Queues, u \in Clients : In(q, u)' <=> In(q, u)
  BY <1>3, <1>4, Programs
<1> QED BY <1>1, <1>2, <1>5, FrozenGuard

LEMMA StartGuard ==
  ASSUME DiskInv, GuardInv, SemInv', NEW t \in Tasks, disk_mgr_init(t)
  PROVE  GuardInv'
<1>1. curr = t /\ t # Driver /\ curr' = curr /\ UNCHANGED <<frameVars, semVars, userVars>>
  BY Programs DEF disk_mgr_init, start_disk, start_driver, install_handler, Running, kernelVars, coreVars,
     DiskInv, ManagerTypes, Clients
<1>2. ~HalfBlocked
  BY <1>1, Programs DEF HalfBlocked, GuardInv, Knows
<1>3. CASE queue_append("ready", Driver)
  <2>1. \A q \in Queues, u \in Tasks :
          In(q, u)' <=> In(q, u) \/ (q = "ready" /\ u = Driver /\ ~Linked(Driver))
    BY <1>3, Programs, AppendMembers DEF GuardInv, SemInv
  <2> QED BY <1>1, <1>2, <2>1, Programs, FrozenGuard
<1>4. CASE queues' = queues
  BY <1>1, <1>2, <1>4, StillGuard
<1> QED BY <1>3, <1>4 DEF disk_mgr_init, start_disk, start_driver, install_handler, kernelVars, coreVars

-----------------------------------------------------------------------------
(* GuardInv is inductive.                                                   *)
LEMMA GuardInit == DiskInit => GuardInv
<1> SUFFICES ASSUME DiskInit PROVE GuardInv
  OBVIOUS
<1>1. SemInv
  BY DiskInitSemInv
<1>2. /\ curr = Dispatcher /\ value = InitialValue /\ active = [s \in Sems |-> 1]
      /\ \A t \in Tasks : pc[t] = "user" /\ ip[t] = 1
      /\ queues[s_disk] = << >> /\ queues[DiskQueue] = << >>
  BY Programs DEF DiskInit, Booted
<1>3. \A t \in Tasks : call(t) = "down"
  <2> SUFFICES ASSUME NEW t \in Tasks PROVE call(t) = "down"
    OBVIOUS
  <2>1. CASE t = Driver
    BY <1>2, <2>1, Programs, DriverPositions DEF call
  <2>2. CASE t # Driver
    BY <1>2, <2>2, Programs, ClientPositions DEF call, Clients
  <2> QED BY <2>1, <2>2
<1>4. \A t \in Tasks : Places(t) /\ Knows(t) /\ ~OwnsDisk(t) /\ ~Waking(t)
  BY <1>2, <1>3 DEF Places, Knows, OwnsDisk, Waking, DownLabels, KernelLabels
<1>5. \A t \in Tasks : ~In(s_disk, t) /\ ~In(DiskQueue, t)
  BY <1>2, EmptySeq DEF In, Contains
<1>6. value[s_disk] = 1 /\ active[s_disk] = 1
  BY <1>2, Programs
<1>7. OneDiskOwner /\ OneDiskPermit
  BY <1>4, <1>6 DEF OneDiskOwner, OneDiskPermit
<1>8. DiskLines /\ OneWaker /\ RunsFromReady
  BY <1>2, <1>4, <1>5, KernelAssumption DEF DiskLines, OneWaker, RunsFromReady
<1> QED BY <1>1, <1>4, <1>6, <1>7, <1>8 DEF GuardInv

LEMMA GuardNext ==
  ASSUME WindowClosed, DiskInv, GuardInv, [DiskNext]_allVars
  PROVE  GuardInv'
<1>1. SemInv'
  BY DiskNextSemInv DEF GuardInv
<1>2. ASSUME NEW t \in Tasks, Step(t)
      PROVE  GuardInv'
  BY <1>1, <1>2, CallGuard, LoadGuard, StoreGuard, DownTestGuard, SemReturnGuard,
     UpTestGuard, UpHeadGuard, NobodyDestroysDisk, SuspendRemoveGuard, SuspendAppendGuard,
     SuspendSwitchGuard, ResumeRemoveGuard, ResumeAppendGuard DEF Step, SuspendResume
<1>3. ASSUME NEW t \in Tasks, DiskStep(t)
      PROVE  GuardInv'
  BY <1>1, <1>2, <1>3, StartGuard, SectionGuard, WakeGuard, CheckGuard, SleepGuard DEF DiskStep
<1>4. CASE UNCHANGED allVars
  BY <1>1, <1>4, StillGuard DEF allVars, vars, kernelVars, coreVars
<1> QED BY <1>1, <1>3, <1>4, TickGuard, DispatchGuard, InterruptGuard DEF DiskNext

THEOREM GuardInvariant ==
  ASSUME WindowClosed
  PROVE  DiskSpec => [](DiskInv /\ GuardInv)
<1>1. DiskInit => DiskInv /\ GuardInv
  BY DiskInitInv, GuardInit
<1>2. DiskInv /\ GuardInv /\ [DiskNext]_allVars => DiskInv' /\ GuardInv'
  BY DiskNextInv, GuardNext
<1> QED BY <1>1, <1>2, PTL DEF DiskSpec

(* Once the window in which the driver enters the line of sem_disk is left  *)
(* alone, one task at a time is at the steps that use request_queue: the    *)
(* driver is resumed by the signal of the disk, by the clients and by       *)
(* sem_up, in any order, and none of these bypasses the semaphore.          *)
THEOREM RequestsAreGuarded ==
  ASSUME WindowClosed
  PROVE  DiskSpec => []RequestsGuarded
<1>1. GuardInv => RequestsGuarded
  BY DEF GuardInv, OneDiskOwner, OwnsDisk, RequestsGuarded, AtRequests
<1> QED BY <1>1, GuardInvariant, PTL

-----------------------------------------------------------------------------
(* Every client returns after its own operation.                            *)
(*                                                                          *)
(* The driver wakes the head of disk_queue, whoever that is.  That it is    *)
(* the client whose operation has ended rests on two orders being the same: *)
(* that of the requests and that in which the clients that made them lie    *)
(* down, which needs a client to reach disk_queue before the next one can   *)
(* put its request, and before the disk can carry its own out.              *)

(* The hypothesis on the timing.                                            *)
HandedOver == Timing = "hand_over"

(* Client t has made its request and is not in disk_queue yet.              *)
Pending(t) ==
  \/ call(t) \in {"wake", "up"}
  \/ call(t) = "wait" /\ pc[t] \in {"user", "suspend_remove", "suspend_append"}

Asleep(t) == In(DiskQueue, t)

(* From the increment of sem_up to disk_queue.                              *)
InWindow(t) == Releasing(t) \/ Entering(t, {"wait"})

Asked(t)  == \E i \in 1..Len(Open) : Open[i].tid = t
OnDisk(t) == disk_status \in {"READ", "WRITE"} /\ buffer = t

InOrder(s, t, u) == \E i, j \in 1..Len(s) : i < j /\ s[i] = t /\ s[j] = u

AheadIn(q, t, u) == InOrder(queues[q], t, u)

(* The request of t comes before that of u.                                 *)
Before(t, u) ==
  \/ done[t] /\ ~done[u]
  \/ OnDisk(t) /\ Asked(u)
  \/ \E i, j \in 1..Len(Open) : i < j /\ Open[i].tid = t /\ Open[j].tid = u

(* The clients whose operation has not been carried out have one request    *)
(* each, open or on the disk.                                               *)
OneRequestEach ==
  /\ \A i, j \in 1..Len(Open) : Open[i].tid = Open[j].tid => i = j
  /\ disk_status \in {"READ", "WRITE"} => buffer \in Clients
  /\ \A t \in Clients : /\ ~(Asked(t) /\ OnDisk(t))
                        /\ ~done[t] <=> Asked(t) \/ OnDisk(t)

WindowsHeld == \A t \in Clients : InWindow(t) => curr = t

OnePending == \A t, u \in Clients : Pending(t) /\ Pending(u) => t = u

UndoneWaits == \A t \in Clients : ~done[t] => Pending(t) \/ Asleep(t)

LeavesAlone == \A t \in Clients : call(t) = "wait" /\ pc[t] = "suspend_append" => Nowhere(t)

(* The driver has taken the client that the signal stands for out already.  *)
PastRemoval ==
  \/ call(Driver) = "check" /\ pc[Driver] \in {"resume_append", "sem_return"}
  \/ call(Driver) = "clear"

(* Where the driver is, and the signal.                                     *)
DriverKnows ==
  /\ call(Driver) \in {"look", "take", "issue"} => signal = 0
  /\ call(Driver) = "clear" \/ (call(Driver) = "check" /\ pc[Driver] # "user") => signal = 1
  /\ \A t \in Clients :
       call(Driver) = "check" /\ pc[Driver] = "resume_remove" /\ arg_task[Driver] = t => done[t]

(* The signal is up for an operation that has ended and whose client sleeps.*)
SignalMeans ==
  /\ \A t \in Clients : OnDisk(t) => signal = 0 /\ Asleep(t)
  /\ signal = 1 /\ ~PastRemoval => \E t \in Clients : Asleep(t) /\ done[t]

SleepInOrder ==
  /\ \A t, u \in Clients : AheadIn(DiskQueue, t, u) => ~Before(u, t)
  /\ \A t, u \in Clients : Asleep(t) /\ Pending(u) => ~Before(u, t)

RequestParts == ManagerTypes /\ OneRequestEach /\ OpenAccepted

ClientParts == WindowsHeld /\ OnePending /\ UndoneWaits /\ LeavesAlone

ServeInv ==
  GuardInv /\ RequestParts /\ ClientParts /\ DriverKnows /\ SignalMeans /\ SleepInOrder

-----------------------------------------------------------------------------
(* Orders in sequences.                                                     *)
LEMMA WithoutOrder ==
  ASSUME NEW S, NEW s \in Seq(S), Injective(s), NEW x, NEW t, NEW u, InOrder(Without(s, x), t, u)
  PROVE  InOrder(s, t, u)
<1>1. CASE ~Contains(s, x)
  BY <1>1 DEF Without
<1>2. CASE Contains(s, x)
  <2> DEFINE k == CHOOSE i \in 1..Len(s) : s[i] = x
             w == RemoveAt(s, k)
  <2>1. k \in 1..Len(s) /\ Without(s, x) = w
    BY <1>2 DEF Contains, Without
  <2> HIDE DEF k
  <2>2. /\ Len(s) \in Nat /\ Len(w) = Len(s) - 1
        /\ \A i \in 1..Len(s)-1 : w[i] = IF i < k THEN s[i] ELSE s[i+1]
    BY <2>1, RemoveAtProperties, LenProperties
  <2> HIDE DEF w
  <2>3. PICK i \in 1..Len(s)-1, j \in 1..Len(s)-1 : i < j /\ w[i] = t /\ w[j] = u
    BY <2>1, <2>2 DEF InOrder
  <2> DEFINE a == IF i < k THEN i ELSE i + 1
             b == IF j < k THEN j ELSE j + 1
  <2>4. a \in 1..Len(s) /\ b \in 1..Len(s) /\ a < b
    BY <2>1, <2>2, <2>3
  <2>5. s[a] = t /\ s[b] = u
    BY <2>2, <2>3
  <2> QED BY <2>4, <2>5 DEF InOrder
<1> QED BY <1>1, <1>2

LEMMA AppendOrder ==
  ASSUME NEW S, NEW s \in Seq(S), NEW x \in S, NEW t, NEW u, InOrder(Append(s, x), t, u)
  PROVE  InOrder(s, t, u) \/ (Contains(s, t) /\ u = x)
<1> DEFINE a == Append(s, x)
<1>1. /\ Len(s) \in Nat /\ Len(a) = Len(s) + 1
      /\ \A i \in 1..Len(s) : a[i] = s[i]
      /\ a[Len(s)+1] = x
  BY LenProperties, AppendProperties
<1> HIDE DEF a
<1>2. PICK i \in 1..Len(s)+1, j \in 1..Len(s)+1 : i < j /\ a[i] = t /\ a[j] = u
  BY <1>1 DEF InOrder, a
<1>3. i \in 1..Len(s) /\ s[i] = t
  BY <1>1, <1>2
<1>4. CASE j \in 1..Len(s)
  BY <1>1, <1>2, <1>3, <1>4 DEF InOrder
<1>5. CASE j = Len(s) + 1
  BY <1>1, <1>2, <1>3, <1>5 DEF Contains
<1> QED BY <1>1, <1>4, <1>5

LEMMA HeadOrder ==
  ASSUME NEW S, NEW s \in Seq(S), s # << >>, NEW u, Contains(s, u), u # Head(s)
  PROVE  InOrder(s, Head(s), u)
<1>1. Len(s) \in Nat \ {0}
  BY EmptySeq
<1>2. Head(s) = s[1]
  OBVIOUS
<1>3. PICK j \in 1..Len(s) : s[j] = u
  BY DEF Contains
<1> QED BY <1>1, <1>2, <1>3 DEF InOrder

LEMMA OrderIn ==
  ASSUME NEW q, NEW t, NEW u, AheadIn(q, t, u)
  PROVE  In(q, t) /\ In(q, u)
BY DEF AheadIn, InOrder, In, Contains

(* What the kernel does to the order in a queue.                            *)
LEMMA RemoveOrder ==
  ASSUME QueuesOK, NEW q \in Queues, NEW x \in Tasks, queue_remove(q, x), NEW p \in Queues, NEW t, NEW u,
         AheadIn(p, t, u)'
  PROVE  AheadIn(p, t, u)
<1>1. queues'[p] = IF p = q THEN Without(queues[q], x) ELSE queues[p]
  BY DEF queue_remove, QueuesOK
<1> QED BY <1>1, WithoutOrder DEF AheadIn, QueuesOK

LEMMA LinkOrder ==
  ASSUME QueuesOK, NEW q \in Queues, NEW x \in Tasks, queue_append(q, x), NEW p \in Queues, NEW t, NEW u,
         AheadIn(p, t, u)'
  PROVE  AheadIn(p, t, u) \/ (p = q /\ In(p, t) /\ u = x)
<1>1. CASE Linked(x)
  BY <1>1 DEF queue_append, AheadIn
<1>2. CASE ~Linked(x)
  <2>1. queues'[p] = IF p = q THEN Append(queues[q], x) ELSE queues[p]
    BY <1>2 DEF queue_append, QueuesOK
  <2> QED BY <2>1, AppendOrder DEF AheadIn, In, QueuesOK
<1> QED BY <1>1, <1>2

LEMMA ResumedOrder ==
  ASSUME QueuesOK, queues' = resumed, NEW t, NEW u, AheadIn(DiskQueue, t, u)'
  PROVE  AheadIn(DiskQueue, t, u)
<1>1. queues'[DiskQueue] = queues[DiskQueue] \/ queues'[DiskQueue] = Without(queues[DiskQueue], Driver)
  BY Programs DEF resumed, QueuesOK
<1> QED BY <1>1, WithoutOrder, Programs DEF AheadIn, QueuesOK

-----------------------------------------------------------------------------
(* The steps of the calls that stay out of the queues: a call of sem_down   *)
(* or sem_up goes on, or a call returns.                                    *)
Goes(t) ==
  /\ curr = t /\ curr' = curr /\ queues' = queues /\ Moves(t)
  /\ pc'[t] \notin {"suspend_append", "resume_append"}
  /\ \/ ip' = ip /\ call(t) \in {"down", "up"}
     \/ /\ pc'[t] = "user" /\ call(t)' = Following(call(t), t)
        /\ call(t) \in {"down", "up"} \/ pc[t] = "sem_return"

LEMMA CallSteps ==
  ASSUME GuardInv, NEW t \in Tasks, Step(t), ~SuspendResume(t)
  PROVE  Goes(t)
<1>1. curr = t /\ Moves(t)
  BY StepMoves DEF GuardInv, Running
<1>2. sem(t) = s_disk /\ active[s_disk] = 1
  BY LabelCall DEF GuardInv
<1>3. ASSUME NEW l, Goto(t, l) PROVE pc'[t] = l
  BY <1>3 DEF Goto, GuardInv, SemInv, TypeOK, KernelTypeOK
<1>4. return(t) => pc'[t] = "user" /\ call(t)' = Following(call(t), t)
  BY <1>3, NextCall DEF return, GuardInv, SemInv
<1>5. CASE sem_down(t) \/ sem_up(t) \/ up_test(t) \/ down_test(t)
  <2>1. /\ curr' = curr /\ queues' = queues /\ call(t) \in {"down", "up"}
        /\ \/ /\ ip' = ip /\ \E l \in {"down_lock", "up_lock", "up_head", "suspend_remove"} : Goto(t, l)
           \/ return(t)
    <3>1. CASE sem_down(t) \/ sem_up(t)
      BY <1>2, <3>1 DEF sem_down, sem_up, enter_call, coreVars, userVars
    <3>2. CASE up_test(t)
      BY <3>2, LabelCall DEF up_test, At, coreVars, userVars
    <3>3. CASE down_test(t)
      BY <3>3, LabelCall DEF down_test, At, coreVars, userVars, call_suspend
    <3> QED BY <1>5, <3>1, <3>2, <3>3
  <2> QED BY <1>1, <1>3, <1>4, <2>1 DEF Goes
<1>6. CASE \/ down_lock(t) \/ up_lock(t) \/ down_load(t) \/ up_load(t)
           \/ down_store(t) \/ up_store(t) \/ down_unlock(t) \/ up_unlock(t)
  <2>1. /\ curr' = curr /\ queues' = queues /\ ip' = ip
        /\ pc[t] \in {"down_lock", "down_load", "down_store", "down_unlock",
                      "up_lock", "up_load", "up_store", "up_unlock"}
        /\ \E l \in {"down_load", "up_load", "down_store", "up_store", "down_unlock", "up_unlock",
                     "down_test", "up_test"} : Goto(t, l)
    BY <1>6 DEF down_lock, up_lock, lock_step, down_load, up_load, load_step, down_store, up_store,
                store_step, down_unlock, up_unlock, unlock_step, At, coreVars, userVars
  <2>2. call(t) \in {"down", "up"}
    BY <2>1, LabelCall
  <2> QED BY <1>1, <1>3, <2>1, <2>2 DEF Goes
<1>7. CASE sem_return(t)
  BY <1>1, <1>4, <1>7 DEF sem_return, At, coreVars, Goes
<1>8. CASE up_head(t)
  <2>1. /\ curr' = curr /\ queues' = queues /\ ip' = ip /\ pc[t] = "up_head"
        /\ Goto(t, "resume_remove") \/ UNCHANGED frameVars
    BY <1>8 DEF up_head, resume_head, call_resume, At, userVars
  <2>2. pc'[t] = "resume_remove" \/ pc'[t] = "up_head"
    BY <1>3, <2>1 DEF frameVars
  <2> QED BY <1>1, <2>1, <2>2, LabelCall DEF Goes
<1>9. ~(sem_destroy(t) \/ destroy_loop(t) \/ destroy_head(t))
  BY LabelCall DEF sem_destroy, destroy_loop, destroy_head, At
<1> QED BY <1>5, <1>6, <1>7, <1>8, <1>9 DEF Step

-----------------------------------------------------------------------------
(* The parts of ServeInv, for the steps that leave the requests alone.      *)

(* A client that lies down has been pending; nobody gets up undone.         *)
ClientsMove ==
  /\ \A t \in Clients : Pending(t)' => Pending(t)
  /\ \A t \in Clients : Pending(t) => Pending(t)' \/ Asleep(t)'
  /\ \A t \in Clients : Asleep(t)' => Asleep(t) \/ Pending(t)
  /\ \A t \in Clients : Asleep(t) => Asleep(t)' \/ done[t]
  /\ \A t, u \in Clients :
       AheadIn(DiskQueue, t, u)' => AheadIn(DiskQueue, t, u) \/ (Asleep(t) /\ Pending(u))

(* No request comes in, and nothing changes in their order.                 *)
RequestsMove ==
  /\ RequestParts'
  /\ \A t, u \in Clients : Before(t, u)' => Before(t, u)
  /\ \A t \in Clients : done[t] => done'[t]

RequestsStay ==
  RequestsMove /\ signal' = signal /\ \A t \in Clients : OnDisk(t)' => OnDisk(t)

LEMMA SameRequests ==
  ASSUME RequestParts, ManagerTypes', Open' = Open, UNCHANGED <<signal, done>>,
         \/ UNCHANGED <<disk_status, buffer>>
         \/ {disk_status, disk_status'} \cap {"READ", "WRITE"} = {}
  PROVE  RequestsStay
<1>1. \A t : (OnDisk(t)' <=> OnDisk(t)) /\ (Asked(t)' <=> Asked(t))
  BY DEF OnDisk, Asked
<1>2. \A t, u : Before(t, u)' <=> Before(t, u)
  BY <1>1 DEF Before
<1>3. RequestParts'
  BY <1>1 DEF RequestParts, OneRequestEach, OpenAccepted
<1> QED BY <1>1, <1>2, <1>3 DEF RequestsStay, RequestsMove

LEMMA UntouchedRequests ==
  ASSUME RequestParts, UNCHANGED <<diskVars, managerVars>>
  PROVE  RequestsStay
<1>1. ManagerTypes'
  BY DEF RequestParts, ManagerTypes, diskVars, managerVars, requestVars, setupVars
<1> QED BY <1>1, SameRequests DEF Open, diskVars, managerVars, requestVars

(* Who sleeps is no longer pending.                                         *)
LEMMA SleepersLie ==
  ASSUME GuardInv, NEW t \in Clients
  PROVE  /\ Asleep(t) => ~Pending(t) /\ call(t) = "wait" /\ ~InWindow(t) /\ ~OwnsDisk(t)
         /\ Asleep(t) => pc[t] \in {"suspend_switch", "sem_return"}
<1>1. t \in Tasks /\ t # Driver
  BY Programs
<1>2. Asleep(t) => call(t) = "wait" /\ pc[t] \in {"suspend_switch", "sem_return"}
  BY <1>1, LabelCall DEF GuardInv, DiskLines, Asleep
<1> QED BY <1>2 DEF Pending, InWindow, Releasing, Entering, OwnsDisk

LEMMA CalmServe ==
  ASSUME ServeInv, GuardInv', RequestsMove, ClientsMove,
         WindowsHeld', LeavesAlone', DriverKnows', SignalMeans'
  PROVE  ServeInv'
<1>1. /\ RequestParts'
      /\ \A t, u \in Clients : Before(t, u)' => Before(t, u)
      /\ \A t \in Clients : done[t] => done'[t]
  BY DEF RequestsMove
<1>2. OnePending'
  BY DEF OnePending, ServeInv, ClientParts, ClientsMove
<1>3. UndoneWaits'
  BY <1>1 DEF UndoneWaits, ServeInv, ClientParts, ClientsMove
<1>4. \A t \in Clients : Asleep(t)' => ~Pending(t)'
  <2>1. SemInv' /\ \A t \in Clients : Asleep(t)' => call(t)' \in {"wait", "sleep"} /\ pc'[t] \in {"suspend_switch", "sem_return"}
    BY Programs DEF GuardInv, DiskLines, Asleep
  <2> QED BY <2>1 DEF Pending
<1>5. SleepInOrder'
  <2>1. ASSUME NEW t \in Clients, NEW u \in Clients, AheadIn(DiskQueue, t, u)' PROVE ~Before(u, t)'
    BY <1>1, <2>1 DEF ServeInv, SleepInOrder, ClientsMove
  <2>2. ASSUME NEW t \in Clients, NEW u \in Clients, Asleep(t)', Pending(u)' PROVE ~Before(u, t)'
    <3>1. Pending(u) /\ t # u
      BY <1>4, <2>2 DEF ClientsMove
    <3>2. Asleep(t)
      BY <2>2, <3>1 DEF ClientsMove, ServeInv, ClientParts, OnePending
    <3> QED BY <1>1, <3>1, <3>2 DEF ServeInv, SleepInOrder
  <2> QED BY <2>1, <2>2 DEF SleepInOrder
<1> QED BY <1>1, <1>2, <1>3, <1>5 DEF ServeInv, ClientParts

(* The driver of a step that is not its own.                                *)
LEMMA DriverStays ==
  ASSUME ServeInv, RequestsStay, Same(Driver),
         \A t \in Clients : Asleep(t) => Asleep(t)'
  PROVE  DriverKnows' /\ SignalMeans'
<1>1. call(Driver)' = call(Driver)
  BY Programs, SameCall
<1>2. DriverKnows'
  BY <1>1 DEF DriverKnows, ServeInv, Same, RequestsStay, RequestsMove
<1>3. PastRemoval' <=> PastRemoval
  BY <1>1 DEF PastRemoval, Same
<1>4. SignalMeans'
  BY <1>3 DEF SignalMeans, ServeInv, RequestsStay, RequestsMove
<1> QED BY <1>2, <1>4

(* The others of a step of t.                                               *)
LEMMA OthersServe ==
  ASSUME NEW u \in Clients, Same(u)
  PROVE  (Pending(u)' <=> Pending(u)) /\ (InWindow(u)' <=> InWindow(u))
BY SameCall, Programs DEF Same, Pending, InWindow, Releasing, Entering

(* A step of the running t that stays out of the queues.                    *)
LEMMA QuietServe ==
  ASSUME ServeInv, GuardInv', RequestsStay, NEW t \in Tasks,
         curr = t, curr' = curr, queues' = queues, Moves(t), pc'[t] # "suspend_append",
         t \in Clients => (Pending(t)' <=> Pending(t)),
         t = Driver => DriverKnows' /\ (PastRemoval => PastRemoval')
  PROVE  ServeInv'
<1>1. /\ \A u \in Tasks : u # t => Same(u)
      /\ \A u : Asleep(u)' <=> Asleep(u)
      /\ \A u, w : AheadIn(DiskQueue, u, w)' <=> AheadIn(DiskQueue, u, w)
      /\ \A u : Nowhere(u)' <=> Nowhere(u)
  BY DEF Moves, Same, Asleep, In, AheadIn, Nowhere
<1>2. \A u \in Clients : u \in Tasks /\ (Pending(u)' <=> Pending(u))
  BY <1>1, OthersServe, Programs
<1>3. ClientsMove
  BY <1>1, <1>2 DEF ClientsMove
<1>4. WindowsHeld'
  <2> SUFFICES ASSUME NEW u \in Clients, InWindow(u)' PROVE curr' = u
    BY DEF WindowsHeld
  <2>1. u # t => InWindow(u)
    BY <1>1, <1>2, OthersServe
  <2> QED BY <2>1 DEF ServeInv, ClientParts, WindowsHeld
<1>5. LeavesAlone'
  <2> SUFFICES ASSUME NEW u \in Clients, call(u)' = "wait", pc'[u] = "suspend_append" PROVE Nowhere(u)
    BY <1>1 DEF LeavesAlone
  <2>1. Same(u) /\ call(u)' = call(u)
    BY <1>1, <1>2, SameCall
  <2> QED BY <2>1 DEF Same, ServeInv, ClientParts, LeavesAlone
<1>6. DriverKnows' /\ SignalMeans'
  <2>1. CASE t = Driver
    BY <1>1, <2>1 DEF SignalMeans, ServeInv, RequestsStay, RequestsMove
  <2>2. CASE t # Driver
    BY <1>1, <2>2, Programs, DriverStays
  <2> QED BY <2>1, <2>2
<1> QED BY <1>3, <1>4, <1>5, <1>6, CalmServe DEF RequestsStay

LEMMA CallServe ==
  ASSUME ServeInv, GuardInv', RequestsStay, NEW t \in Tasks,
         Step(t), ~SuspendResume(t)
  PROVE  ServeInv'
<1>1. Goes(t)
  BY CallSteps DEF ServeInv
<1>2. /\ ip' = ip => call(t)' = call(t)
      /\ pc[t] = "sem_return" => call(t) \in {"down", "up", "wake", "check", "wait", "sleep"}
  BY CallKept, LabelCall DEF ServeInv
<1>3. ASSUME t \in Clients PROVE Pending(t)' <=> Pending(t)
  <2>1. t # Driver
    BY <1>3, Programs
  <2>2. CASE ip' = ip /\ call(t) \in {"down", "up"}
    BY <1>2, <2>2 DEF Pending
  <2>3. CASE /\ pc'[t] = "user" /\ call(t)' = Following(call(t), t)
             /\ call(t) \in {"down", "up"} \/ pc[t] = "sem_return"
    <3>1. call(t) \in {"down", "up", "wake", "check", "wait", "sleep"}
      BY <1>2, <2>3
    <3>2. call(t) \notin {"check", "sleep"}
      BY <2>1, LabelCall DEF ServeInv
    <3> QED BY <2>1, <2>3, <3>1, <3>2 DEF Following, Pending
  <2> QED BY <1>1, <2>2, <2>3 DEF Goes
<1>4. ASSUME t = Driver PROVE DriverKnows' /\ (PastRemoval => PastRemoval')
  <2>1. CASE ip' = ip /\ call(t) \in {"down", "up"}
    BY <1>2, <1>4, <2>1 DEF DriverKnows, PastRemoval
  <2>2. CASE /\ pc'[t] = "user" /\ call(t)' = Following(call(t), t)
             /\ call(t) \in {"down", "up"} \/ pc[t] = "sem_return"
    <3>1. call(t) \in {"down", "up", "wake", "check", "wait", "sleep"}
      BY <1>2, <2>2
    <3>2. call(t)' = "clear" => call(t) = "check" /\ pc[t] = "sem_return"
      BY <2>2, <3>1 DEF Following
    <3>3. call(t)' \notin {"look", "take", "issue"} /\ (call(t) = "check" => call(t)' = "clear")
      BY <2>2, <3>1 DEF Following
    <3>4. call(t)' = "clear" => signal' = 1
      BY <1>4, <3>2 DEF ServeInv, DriverKnows, RequestsStay, RequestsMove
    <3> QED BY <1>4, <2>2, <3>1, <3>2, <3>3, <3>4 DEF DriverKnows, PastRemoval
  <2> QED BY <1>1, <2>1, <2>2 DEF Goes
<1> QED BY <1>1, <1>3, <1>4, QuietServe DEF Goes

LEMMA WakeServe ==
  ASSUME ServeInv, GuardInv', NEW t \in Tasks, wake(t)
  PROVE  ServeInv'
<1>1. /\ curr = t /\ curr' = curr /\ queues' = queues /\ call(t) = "wake" /\ pc[t] = "user"
      /\ UNCHANGED <<diskVars, managerVars>>
  BY DEF wake, AtOp, At, Running
<1>2. Moves(t) /\ RequestsStay
  BY <1>1, IsOwnStep, OwnStepInv, UntouchedRequests DEF ServeInv, GuardInv
<1>3. t \in Clients /\ t # Driver
  BY <1>1, LabelCall, Programs DEF ServeInv
<1>4. pc'[t] # "suspend_append" /\ call(t)' \in {"wake", "up"}
  <2>1. CASE call_resume(t, Driver, DiskQueue, "sem_return") /\ UNCHANGED userVars
    <3>1. Goto(t, "resume_remove")
      BY <2>1, Programs DEF call_resume
    <3>2. pc'[t] = "resume_remove"
      BY <3>1 DEF Goto, ServeInv, GuardInv, SemInv, TypeOK, KernelTypeOK
    <3> QED BY <1>1, <2>1, <3>2, CallKept DEF userVars
  <2>2. CASE advance(t) /\ UNCHANGED <<frameVars, os>>
    <3>1. call(t)' = "up"
      BY <1>1, <2>2, NextCall DEF Following, ServeInv, GuardInv, SemInv
    <3> QED BY <1>1, <2>2, <3>1 DEF frameVars
  <2> QED BY <2>1, <2>2 DEF wake
<1> QED BY <1>1, <1>2, <1>3, <1>4, QuietServe DEF Pending

LEMMA SleepServe ==
  ASSUME ServeInv, GuardInv', NEW t \in Tasks, sleep_in_disk_queue(t)
  PROVE  ServeInv'
<1>1. /\ curr = t /\ curr' = curr /\ queues' = queues /\ call(t) \in {"wait", "sleep"} /\ pc[t] = "user"
      /\ UNCHANGED <<diskVars, managerVars>> /\ ip' = ip /\ Goto(t, "suspend_remove")
  BY DEF sleep_in_disk_queue, AtOp, At, Running, coreVars, userVars, call_suspend
<1>2. Moves(t) /\ RequestsStay
  BY <1>1, IsOwnStep, OwnStepInv, UntouchedRequests DEF ServeInv, GuardInv
<1>3. pc'[t] = "suspend_remove" /\ call(t)' = call(t)
  BY <1>1, CallKept DEF Goto, ServeInv, GuardInv, SemInv, TypeOK, KernelTypeOK
<1>4. t \in Clients => (Pending(t)' <=> Pending(t))
  BY <1>1, <1>3 DEF Pending
<1>5. t = Driver => DriverKnows' /\ (PastRemoval => PastRemoval')
  BY <1>1, <1>3 DEF DriverKnows, PastRemoval
<1> QED BY <1>1, <1>2, <1>3, <1>4, <1>5, QuietServe

(* The signal is up, so some client sleeps whose operation has ended; the   *)
(* head of disk_queue made its request before, so its own has ended too.    *)
LEMMA HeadIsDone ==
  ASSUME ServeInv, signal = 1, ~PastRemoval, curr = Driver, pc[Driver] = "user"
  PROVE  head_of(DiskQueue) \in Clients /\ done[head_of(DiskQueue)]
<1>1. PICK d \in Clients : Asleep(d) /\ done[d]
  BY DEF ServeInv, SignalMeans
<1>2. QueuesOK /\ DiskQueue \in Queues /\ queues[DiskQueue] \in Seq(Tasks)
  BY Programs DEF ServeInv, GuardInv, SemInv, QueuesOK
<1>3. queues[DiskQueue] # << >>
  BY <1>1, EmptySeq DEF Asleep, In, Contains
<1> DEFINE h == Head(queues[DiskQueue])
<1>4. h \in Tasks /\ In(DiskQueue, h) /\ head_of(DiskQueue) = h
  BY <1>2, <1>3, HeadIn DEF head_of
<1>5. h \in Clients
  <2>1. ~In(DiskQueue, Driver)
    BY Programs, RunnerReady DEF ServeInv
  <2> QED BY <1>4, <2>1 DEF Clients
<1>6. done[h]
  <2>1. CASE d = h
    BY <1>1, <2>1
  <2>2. CASE d # h
    <3>1. AheadIn(DiskQueue, h, d)
      BY <1>1, <1>2, <1>3, <2>2, HeadOrder DEF Asleep, In, AheadIn
    <3>2. ~Before(d, h)
      BY <1>5, <3>1 DEF ServeInv, SleepInOrder
    <3> QED BY <1>1, <3>2 DEF Before
  <2> QED BY <2>1, <2>2
<1> QED BY <1>4, <1>5, <1>6

LEMMA CheckServe ==
  ASSUME ServeInv, GuardInv', NEW t \in Tasks, check(t)
  PROVE  ServeInv'
<1>1. /\ curr = t /\ curr' = curr /\ queues' = queues /\ call(t) = "check" /\ pc[t] = "user"
      /\ UNCHANGED <<diskVars, managerVars>>
  BY DEF check, AtOp, At, Running
<1>2. Moves(t) /\ RequestsStay
  BY <1>1, IsOwnStep, OwnStepInv, UntouchedRequests DEF ServeInv, GuardInv
<1>3. t = Driver /\ t \notin Clients
  BY <1>1, LabelCall, Programs DEF ServeInv
<1>4. ~PastRemoval /\ signal' = signal
  BY <1>1, <1>2, <1>3 DEF PastRemoval, RequestsStay, RequestsMove
<1>5. CASE signal = 1 /\ call_resume(t, head_of(DiskQueue), DiskQueue, "sem_return") /\ UNCHANGED userVars
  <2>1. head_of(DiskQueue) \in Clients /\ done[head_of(DiskQueue)]
    BY <1>1, <1>3, <1>4, <1>5, HeadIsDone
  <2>2. Goto(t, "resume_remove") /\ arg_task' = [arg_task EXCEPT ![t] = head_of(DiskQueue)]
    BY <1>5, <2>1, Programs DEF call_resume
  <2>3. pc'[t] = "resume_remove" /\ arg_task'[t] = head_of(DiskQueue)
    BY <2>2 DEF Goto, ServeInv, GuardInv, SemInv, TypeOK, KernelTypeOK
  <2>4. call(t)' = "check"
    BY <1>1, <1>5, CallKept DEF userVars
  <2>5. DriverKnows'
    BY <1>1, <1>2, <1>3, <1>4, <1>5, <2>1, <2>3, <2>4 DEF DriverKnows, RequestsStay, RequestsMove
  <2> QED BY <1>1, <1>2, <1>3, <1>4, <2>3, <2>5, QuietServe
<1>6. CASE signal = 0 /\ ip' = [ip EXCEPT ![t] = @ + 2] /\ UNCHANGED <<frameVars, os, v>>
  <2>1. call(t)' = "look" /\ pc'[t] = "user"
    BY <1>1, <1>6, JumpCalls DEF frameVars, ServeInv, GuardInv, SemInv
  <2>2. DriverKnows'
    BY <1>3, <1>4, <1>6, <2>1 DEF DriverKnows
  <2> QED BY <1>1, <1>2, <1>3, <1>4, <2>1, <2>2, QuietServe
<1> QED BY <1>5, <1>6 DEF check

-----------------------------------------------------------------------------
(* The steps of task_suspend and of task_resume.                            *)

(* Somebody is on the way to disk_queue alone: the running task.            *)
LEMMA KernelServe ==
  ASSUME ServeInv, GuardInv', RequestsStay, NEW t \in Tasks,
         curr = t, Moves(t), ip' = ip,
         curr' = curr \/ (t \in Clients => ~InWindow(t)'),
         call(t) = "wait" /\ pc'[t] = "suspend_append" => Nowhere(t)',
         t \in Clients => (Pending(t)' => Pending(t)) /\ (Pending(t) => Pending(t)' \/ Asleep(t)'),
         \A u \in Clients : Asleep(u)' => Asleep(u) \/ (u = t /\ Pending(t)),
         \A u \in Clients : Asleep(u) => Asleep(u)' \/ done[u],
         \A u, w \in Clients :
           AheadIn(DiskQueue, u, w)' => AheadIn(DiskQueue, u, w) \/ (Asleep(u) /\ w = t /\ Pending(t)),
         DriverKnows', SignalMeans'
  PROVE  ServeInv'
<1>1. \A u \in Clients : u \in Tasks /\ call(u)' = call(u)
  BY CallKept, Programs
<1>2. \A u \in Clients : u # t =>
        Same(u) /\ (Pending(u)' <=> Pending(u)) /\ (InWindow(u)' <=> InWindow(u))
  BY <1>1, OthersServe DEF Moves, Same
<1>3. ClientsMove
  BY <1>2 DEF ClientsMove
<1>4. WindowsHeld'
  BY <1>2 DEF WindowsHeld, ServeInv, ClientParts
<1>5. LeavesAlone'
  <2> SUFFICES ASSUME NEW u \in Clients, call(u)' = "wait", pc'[u] = "suspend_append" PROVE Nowhere(u)'
    BY DEF LeavesAlone
  <2>1. InWindow(u)'
    BY DEF InWindow, Entering
  <2>2. u = t
    BY <1>2, <2>1 DEF ServeInv, ClientParts, WindowsHeld
  <2>3. Nowhere(t)'
    BY <1>1, <2>2
  <2> QED BY <2>2, <2>3 DEF Nowhere, In
<1> QED BY <1>3, <1>4, <1>5, CalmServe DEF RequestsStay

(* The driver in a call that has nothing to do with the signal.             *)
LEMMA DriverWaits ==
  ASSUME ServeInv, RequestsStay, ip' = ip, call(Driver) \in {"down", "up", "sleep"},
         \A t \in Clients : Asleep(t) => Asleep(t)'
  PROVE  DriverKnows' /\ SignalMeans'
<1>1. call(Driver)' = call(Driver)
  BY CallKept, Programs
<1>2. DriverKnows' /\ ~PastRemoval
  BY <1>1 DEF DriverKnows, PastRemoval
<1>3. SignalMeans'
  BY <1>2 DEF SignalMeans, ServeInv, RequestsStay, RequestsMove
<1> QED BY <1>2, <1>3

LEMMA SuspendRemoveServe ==
  ASSUME ServeInv, GuardInv', RequestsStay, NEW t \in Tasks,
         suspend_remove(t), UNCHANGED <<semVars, userVars>>
  PROVE  ServeInv'
<1>1. /\ curr = t /\ pc[t] = "suspend_remove" /\ queue_remove("ready", t)
      /\ Goto(t, "suspend_append") /\ curr' = curr /\ ip' = ip
  BY DEF suspend_remove, Running, userVars
<1>2. pc'[t] = "suspend_append" /\ Moves(t)
  BY <1>1 DEF suspend_remove, Goto, Moves, ServeInv, GuardInv, SemInv, TypeOK, KernelTypeOK, argVars, userVars
<1>3. call(t)' = call(t) /\ call(t) \in {"down", "wait", "sleep"}
  BY <1>1, CallKept, LabelCall DEF ServeInv
<1>4. QueuesOK
  BY DEF ServeInv, GuardInv, SemInv
<1>5. \A p \in Queues, u \in Tasks : In(p, u)' <=> In(p, u) /\ ~(p = "ready" /\ u = t)
  BY <1>1, <1>4, Programs, RemoveMembers
<1>6. \A u \in Tasks : Asleep(u)' <=> Asleep(u)
  BY <1>5, Programs DEF Asleep
<1>7. Nowhere(t)'
  BY <1>1, <1>5, RunnerReady DEF Nowhere, ServeInv
<1>8. \A u, w : AheadIn(DiskQueue, u, w)' => AheadIn(DiskQueue, u, w)
  BY <1>1, <1>4, Programs, RemoveOrder
<1>9. \A u \in Clients : u \in Tasks /\ u # Driver
  BY Programs
<1>10. DriverKnows' /\ SignalMeans'
  <2>1. t = Driver => call(Driver) \in {"down", "sleep"}
    BY <1>3, <1>9, LabelCall DEF ServeInv
  <2>2. t # Driver => Same(Driver)
    BY <1>2, Programs DEF Moves, Same
  <2> QED BY <1>1, <1>6, <1>9, <2>1, <2>2, DriverStays, DriverWaits
<1>11. Pending(t)' <=> Pending(t)
  BY <1>1, <1>2, <1>3 DEF Pending
<1> QED BY <1>1, <1>2, <1>6, <1>7, <1>8, <1>9, <1>10, <1>11, KernelServe

(* A client lies down behind those that made their requests before.         *)
LEMMA SuspendAppendServe ==
  ASSUME ServeInv, GuardInv', RequestsStay, NEW t \in Tasks,
         suspend_append(t), UNCHANGED <<semVars, userVars>>
  PROVE  ServeInv'
<1>1. /\ curr = t /\ pc[t] = "suspend_append" /\ queue_append(arg_queue[t], t)
      /\ Goto(t, "suspend_switch") /\ curr' = curr /\ ip' = ip
  BY DEF suspend_append, Running, userVars
<1>2. pc'[t] = "suspend_switch" /\ Moves(t)
  BY <1>1 DEF suspend_append, Goto, Moves, ServeInv, GuardInv, SemInv, TypeOK, KernelTypeOK, argVars, userVars
<1>3. call(t)' = call(t) /\ call(t) \in {"down", "wait", "sleep"}
  BY <1>1, CallKept, LabelCall DEF ServeInv
<1>4. QueuesOK /\ arg_queue[t] = (IF call(t) = "down" THEN s_disk ELSE DiskQueue)
  BY <1>1, <1>3 DEF ServeInv, GuardInv, SemInv, Places, KernelLabels
<1>5. PICK q \in {s_disk, DiskQueue} : q = arg_queue[t]
  BY <1>4
<1>6. \A p \in Queues, u \in Tasks : In(p, u)' <=> In(p, u) \/ (p = q /\ u = t /\ ~Linked(t))
  BY <1>1, <1>4, <1>5, Programs, AppendMembers
<1>7. \A u \in Tasks : Asleep(u)' <=> Asleep(u) \/ (q = DiskQueue /\ u = t /\ ~Linked(t))
  BY <1>6, Programs DEF Asleep
<1>8. \A u \in Clients : u \in Tasks /\ u # Driver
  BY Programs
<1>9. t \in Clients /\ q = DiskQueue => call(t) = "wait" /\ Pending(t)
  <2>1. t \in Clients => call(t) \in {"down", "wait"}
    BY <1>3, <1>8, LabelCall DEF ServeInv
  <2> QED BY <1>1, <1>4, <1>5, <2>1, Programs DEF Pending
<1>10. t \in Clients /\ Pending(t) => Asleep(t)'
  <2> SUFFICES ASSUME t \in Clients, Pending(t) PROVE Asleep(t)'
    OBVIOUS
  <2>1. call(t) = "wait" /\ q = DiskQueue
    BY <1>3, <1>4, <1>5 DEF Pending
  <2>2. ~Linked(t)
    BY <1>1, <2>1 DEF ServeInv, ClientParts, LeavesAlone, Nowhere, Linked, In
  <2> QED BY <1>7, <2>1, <2>2
<1>11. \A u, w \in Clients :
         AheadIn(DiskQueue, u, w)' => AheadIn(DiskQueue, u, w) \/ (Asleep(u) /\ w = t /\ Pending(t))
  <2> SUFFICES ASSUME NEW u \in Clients, NEW w \in Clients, AheadIn(DiskQueue, u, w)', ~AheadIn(DiskQueue, u, w)
               PROVE  Asleep(u) /\ w = t /\ Pending(t)
    OBVIOUS
  <2>1. DiskQueue = q /\ In(DiskQueue, u) /\ w = t
    BY <1>1, <1>4, <1>5, Programs, LinkOrder
  <2> QED BY <1>9, <2>1 DEF Asleep
<1>12. DriverKnows' /\ SignalMeans'
  <2>1. t = Driver => call(Driver) \in {"down", "sleep"}
    BY <1>3, <1>8, LabelCall DEF ServeInv
  <2>2. t # Driver => Same(Driver)
    BY <1>2, Programs DEF Moves, Same
  <2>3. \A u \in Clients : Asleep(u) => Asleep(u)'
    BY <1>7, <1>8
  <2> QED BY <1>1, <2>1, <2>2, <2>3, DriverStays, DriverWaits
<1>13. ~Pending(t)'
  BY <1>2, <1>3 DEF Pending
<1> QED BY <1>1, <1>2, <1>7, <1>8, <1>9, <1>10, <1>11, <1>12, <1>13, KernelServe

LEMMA SuspendSwitchServe ==
  ASSUME ServeInv, GuardInv', RequestsStay, NEW t \in Tasks,
         suspend_switch(t), UNCHANGED <<semVars, userVars>>
  PROVE  ServeInv'
<1>1. /\ curr = t /\ pc[t] = "suspend_switch" /\ Goto(t, "sem_return") /\ ip' = ip /\ queues' = queues
  BY DEF suspend_switch, Running, userVars, ServeInv, GuardInv, Places, KernelLabels
<1>2. pc'[t] = "sem_return" /\ Moves(t)
  BY <1>1 DEF suspend_switch, Goto, Moves, ServeInv, GuardInv, SemInv, TypeOK, KernelTypeOK, argVars, userVars
<1>3. call(t)' = call(t) /\ call(t) \in {"down", "wait", "sleep"}
  BY <1>1, CallKept, LabelCall DEF ServeInv
<1>4. /\ \A u : Asleep(u)' <=> Asleep(u)
      /\ \A u, w : AheadIn(DiskQueue, u, w)' <=> AheadIn(DiskQueue, u, w)
  BY <1>1 DEF Asleep, In, AheadIn
<1>5. ~InWindow(t)' /\ ~Pending(t)' /\ ~Pending(t)
  BY <1>1, <1>2, <1>3 DEF InWindow, Releasing, Entering, Pending
<1>6. DriverKnows' /\ SignalMeans'
  <2>1. t = Driver => call(Driver) \in {"down", "sleep"}
    BY <1>3, Programs, LabelCall DEF ServeInv
  <2>2. t # Driver => Same(Driver)
    BY <1>2, Programs DEF Moves, Same
  <2> QED BY <1>1, <1>4, <2>1, <2>2, DriverStays, DriverWaits
<1> QED BY <1>1, <1>2, <1>4, <1>5, <1>6, KernelServe

(* The driver takes a client out of disk_queue whose operation has ended;   *)
(* nobody else takes a client out of there.                                 *)
LEMMA ResumeRemoveServe ==
  ASSUME ServeInv, GuardInv', RequestsStay, NEW t \in Tasks,
         resume_remove(t), UNCHANGED <<semVars, userVars>>
  PROVE  ServeInv'
<1>1. /\ curr = t /\ pc[t] = "resume_remove" /\ queue_remove(arg_queue[t], arg_task[t])
      /\ Goto(t, "resume_append") /\ curr' = curr /\ ip' = ip
  BY DEF resume_remove, Running, userVars
<1>2. pc'[t] = "resume_append" /\ Moves(t)
  BY <1>1 DEF resume_remove, Goto, Moves, ServeInv, GuardInv, SemInv, TypeOK, KernelTypeOK, argVars, userVars
<1>3. /\ call(t)' = call(t) /\ call(t) \in {"up", "wake", "check"} /\ Places(t) /\ Knows(t) /\ QueuesOK
      /\ arg_queue[t] = (IF call(t) = "up" THEN s_disk ELSE DiskQueue)
  BY <1>1, CallKept, LabelCall DEF ServeInv, GuardInv, SemInv, Places, KernelLabels
<1>4. PICK q \in {s_disk, DiskQueue}, x \in Tasks : q = arg_queue[t] /\ x = arg_task[t]
  BY <1>1, <1>3 DEF ServeInv, GuardInv, SemInv, Frame
<1>5. \A p \in Queues, u \in Tasks : In(p, u)' <=> In(p, u) /\ ~(p = q /\ u = x)
  BY <1>1, <1>3, <1>4, Programs, RemoveMembers
<1>6. \A u \in Tasks : Asleep(u)' <=> Asleep(u) /\ ~(q = DiskQueue /\ u = x)
  BY <1>5, Programs DEF Asleep
<1>7. \A u, w : AheadIn(DiskQueue, u, w)' => AheadIn(DiskQueue, u, w)
  BY <1>1, <1>3, <1>4, Programs, RemoveOrder
<1>8. \A u \in Clients : u \in Tasks /\ u # Driver
  BY Programs
<1>9. call(t) \in {"up", "wake"} => \A u \in Clients : Asleep(u) => Asleep(u)'
  BY <1>1, <1>3, <1>4, <1>6, <1>8, Programs DEF Places
<1>10. call(t) = "check" => t = Driver /\ x \in Clients /\ done[x] /\ signal = 1 /\ arg_task[Driver] = x
  <2> SUFFICES ASSUME call(t) = "check" PROVE t = Driver /\ x \in Clients /\ done[x] /\ signal = 1 /\ arg_task[Driver] = x
    OBVIOUS
  <2>1. t = Driver /\ x \in Clients
    BY <1>1, <1>3, <1>4, LabelCall DEF Knows, ServeInv
  <2> QED BY <1>1, <1>4, <2>1 DEF ServeInv, DriverKnows
<1>11. DriverKnows' /\ SignalMeans'
  <2>1. CASE call(t) = "check"
    <3>1. DriverKnows' /\ PastRemoval' /\ signal' = 1
      BY <1>2, <1>3, <1>10, <2>1 DEF DriverKnows, PastRemoval, RequestsStay, RequestsMove
    <3>2. SignalMeans'
      BY <1>10, <2>1, <3>1 DEF SignalMeans, ServeInv, RequestsStay, RequestsMove
    <3> QED BY <3>1, <3>2
  <2>2. CASE call(t) \in {"up", "wake"} /\ t # Driver
    <3>1. Same(Driver)
      BY <1>2, <2>2, Programs DEF Moves, Same
    <3> QED BY <1>9, <2>2, <3>1, DriverStays
  <2>3. CASE call(t) \in {"up", "wake"} /\ t = Driver
    <3>1. call(Driver) = "up"
      BY <1>8, <2>3, LabelCall DEF ServeInv
    <3> QED BY <1>1, <1>9, <2>3, <3>1, DriverWaits
  <2> QED BY <1>3, <2>1, <2>2, <2>3
<1>12. Pending(t)' <=> Pending(t)
  BY <1>1, <1>2, <1>3 DEF Pending
<1>13. \A u \in Clients : Asleep(u) => Asleep(u)' \/ done[u]
  BY <1>3, <1>6, <1>8, <1>9, <1>10
<1> QED BY <1>1, <1>2, <1>6, <1>7, <1>8, <1>11, <1>12, <1>13, KernelServe

LEMMA ResumeAppendServe ==
  ASSUME ServeInv, GuardInv', RequestsStay, NEW t \in Tasks,
         resume_append(t), UNCHANGED <<semVars, userVars>>
  PROVE  ServeInv'
<1>1. /\ curr = t /\ pc[t] = "resume_append" /\ queue_append("ready", arg_task[t])
      /\ Goto(t, "sem_return") /\ curr' = curr /\ ip' = ip
  BY DEF resume_append, Running, userVars, ServeInv, GuardInv, Places, KernelLabels
<1>2. pc'[t] = "sem_return" /\ Moves(t)
  BY <1>1 DEF resume_append, Goto, Moves, ServeInv, GuardInv, SemInv, TypeOK, KernelTypeOK, userVars
<1>3. call(t)' = call(t) /\ call(t) \in {"up", "wake", "check"} /\ QueuesOK /\ arg_task[t] \in Tasks
  BY <1>1, CallKept, LabelCall DEF ServeInv, GuardInv, SemInv, Frame
<1>4. \A u \in Tasks : Asleep(u)' <=> Asleep(u)
  BY <1>1, <1>3, Programs, AppendMembers DEF Asleep
<1>5. \A u, w : AheadIn(DiskQueue, u, w)' => AheadIn(DiskQueue, u, w)
  BY <1>1, <1>3, Programs, LinkOrder
<1>6. \A u \in Clients : u \in Tasks /\ u # Driver
  BY Programs
<1>7. DriverKnows' /\ SignalMeans'
  <2>1. CASE call(t) = "check"
    <3>1. t = Driver /\ PastRemoval
      BY <1>1, <2>1, LabelCall DEF PastRemoval, ServeInv
    <3>2. DriverKnows' /\ PastRemoval'
      BY <1>1, <1>2, <1>3, <2>1, <3>1 DEF DriverKnows, PastRemoval, ServeInv, RequestsStay, RequestsMove
    <3>3. SignalMeans'
      BY <1>4, <1>6, <3>2 DEF SignalMeans, ServeInv, RequestsStay, RequestsMove
    <3> QED BY <3>2, <3>3
  <2>2. CASE t # Driver
    <3>1. Same(Driver)
      BY <1>2, <2>2, Programs DEF Moves, Same
    <3> QED BY <1>4, <1>6, <3>1, DriverStays
  <2>3. CASE t = Driver /\ call(t) # "check"
    <3>1. call(Driver) = "up"
      BY <1>3, <1>6, <2>3, LabelCall DEF ServeInv
    <3> QED BY <1>1, <1>4, <1>6, <3>1, DriverWaits
  <2> QED BY <2>1, <2>2, <2>3
<1>8. Pending(t)' <=> Pending(t)
  BY <1>1, <1>2, <1>3 DEF Pending
<1> QED BY <1>1, <1>2, <1>4, <1>5, <1>6, <1>7, <1>8, KernelServe

-----------------------------------------------------------------------------
(* The timer, the dispatcher and the start of the driver.                   *)
LEMMA FrozenServe ==
  ASSUME ServeInv, GuardInv', RequestsStay, UNCHANGED <<frameVars, userVars>>, WindowsHeld',
         \A q \in Queues, u \in Clients : In(q, u)' <=> In(q, u),
         \A u, w : AheadIn(DiskQueue, u, w)' => AheadIn(DiskQueue, u, w)
  PROVE  ServeInv'
<1>1. \A u \in Tasks : Same(u) /\ call(u)' = call(u)
  <2>1. \A u \in Tasks : Same(u)
    BY DEF Same, frameVars, argVars, userVars
  <2> QED BY <2>1, SameCall
<1>2. \A u \in Clients : (Asleep(u)' <=> Asleep(u)) /\ (Pending(u)' <=> Pending(u)) /\ u \in Tasks
  BY <1>1, OthersServe, Programs DEF Asleep
<1>3. ClientsMove
  BY <1>2 DEF ClientsMove
<1>4. LeavesAlone'
  BY <1>1, <1>2 DEF LeavesAlone, ServeInv, ClientParts, Nowhere, Same
<1>5. DriverKnows' /\ SignalMeans'
  BY <1>1, <1>2, Programs, DriverStays
<1> QED BY <1>3, <1>4, <1>5, CalmServe DEF RequestsStay

LEMMA TickServe ==
  ASSUME HandedOver, ServeInv, GuardInv', DiskTick
  PROVE  ServeInv'
<1>1. /\ queues' = queues /\ UNCHANGED <<frameVars, userVars>>
      /\ curr' = curr \/ QuantumMayEnd(curr)
  BY DEF DiskTick, Tick
<1>2. RequestsStay
  BY UntouchedRequests DEF DiskTick, ServeInv
<1>3. \A u \in Clients : InWindow(u)' <=> InWindow(u)
  BY <1>1, OthersServe DEF Same, frameVars, argVars, userVars
<1>4. WindowsHeld'
  <2> SUFFICES ASSUME NEW u \in Clients, InWindow(u) PROVE curr' = u
    BY <1>3 DEF WindowsHeld
  <2>1. curr = u
    BY DEF ServeInv, ClientParts, WindowsHeld
  <2>2. ~QuantumMayEnd(u)
    BY DEF HandedOver, QuantumMayEnd, InWindow, Entering
  <2> QED BY <1>1, <2>1, <2>2
<1> QED BY <1>1, <1>2, <1>4, FrozenServe DEF In, AheadIn

LEMMA DispatchServe ==
  ASSUME ServeInv, GuardInv', DiskDispatch
  PROVE  ServeInv'
<1>1. queues' = queues /\ UNCHANGED <<frameVars, userVars>> /\ curr = Dispatcher
  BY NobodyDue DEF DiskDispatch, Dispatch, Running, ServeInv, GuardInv
<1>2. RequestsStay
  BY UntouchedRequests DEF DiskDispatch, ServeInv
<1>3. \A u \in Clients : InWindow(u)' <=> InWindow(u)
  BY <1>1, OthersServe DEF Same, frameVars, argVars, userVars
<1>4. WindowsHeld'
  BY <1>1, <1>3, KernelAssumption DEF WindowsHeld, ServeInv, ClientParts, Clients
<1> QED BY <1>1, <1>2, <1>4, FrozenServe DEF In, AheadIn

LEMMA StartServe ==
  ASSUME DiskInv, DiskInv', ServeInv, GuardInv', NEW t \in Tasks, disk_mgr_init(t)
  PROVE  ServeInv'
<1>1. /\ curr' = curr /\ UNCHANGED <<frameVars, userVars, requestVars, signal>>
      /\ queue_append("ready", Driver) \/ queues' = queues
  BY DEF disk_mgr_init, start_disk, start_driver, install_handler, kernelVars, coreVars
<1>2. RequestsStay
  <2>1. \/ UNCHANGED <<disk_status, buffer>>
        \/ disk_status = "UNKNOWN" /\ disk_status' = "IDLE"
    BY DEF disk_mgr_init, start_disk, start_driver, install_handler, D!disk_init, diskVars,
           DiskInv, ManagerTypes
  <2> QED BY <1>1, <2>1, SameRequests DEF ServeInv, DiskInv, Open, requestVars
<1>3. QueuesOK
  BY DEF ServeInv, GuardInv, SemInv
<1>4. \A q \in Queues, u \in Clients : In(q, u)' <=> In(q, u)
  BY <1>1, <1>3, Programs, AppendMembers DEF In
<1>5. \A u, w : AheadIn(DiskQueue, u, w)' => AheadIn(DiskQueue, u, w)
  BY <1>1, <1>3, Programs, LinkOrder DEF AheadIn
<1>6. WindowsHeld'
  <2>1. \A u \in Clients : InWindow(u)' <=> InWindow(u)
    BY <1>1, OthersServe DEF Same, frameVars, argVars, userVars
  <2> QED BY <1>1, <2>1 DEF WindowsHeld, ServeInv, ClientParts
<1> QED BY <1>1, <1>2, <1>4, <1>5, <1>6, FrozenServe

-----------------------------------------------------------------------------
(* The steps that change the requests, the disk and the signal.             *)

LEMMA FailureServe ==
  ASSUME DiskInv, DiskInv', ServeInv, GuardInv', NEW t \in Tasks, put_malloc_fails(t)
  PROVE  ServeInv'
<1>1. /\ curr = t /\ call(t) = "put" /\ pc[t] = "user" /\ UNCHANGED <<kernelVars, diskVars>>
      /\ ip' = [ip EXCEPT ![t] = 1] /\ UNCHANGED <<requestVars, signal>>
  BY DEF put_malloc_fails, AtOp, At, Running
<1>2. Moves(t) /\ call(t)' = "down" /\ t \in Clients /\ t # Driver
  BY <1>1, IsOwnStep, OwnStepInv, JumpCalls, LabelCall, Programs DEF ServeInv, GuardInv, SemInv
<1>3. RequestsStay
  BY <1>1, SameRequests DEF ServeInv, DiskInv, Open, requestVars, diskVars
<1> QED BY <1>1, <1>2, <1>3, QuietServe DEF Pending, kernelVars, coreVars, frameVars

LEMMA ClearServe ==
  ASSUME DiskInv, DiskInv', ServeInv, GuardInv', NEW t \in Tasks, clear(t)
  PROVE  ServeInv'
<1>1. /\ curr = t /\ call(t) = "clear" /\ pc[t] = "user" /\ UNCHANGED <<kernelVars, diskVars>>
      /\ signal' = 0 /\ advance(t) /\ Open' = Open /\ done' = done
  BY DEF clear, AtOp, At, Running, requestVars, Open
<1>2. Moves(t) /\ call(t)' = "look" /\ t = Driver /\ pc'[t] = "user"
  BY <1>1, IsOwnStep, OwnStepInv, NextCall, LabelCall
     DEF ServeInv, GuardInv, SemInv, Following, kernelVars, frameVars
<1>3. /\ \A u \in Tasks : u # t => Same(u)
      /\ \A u : (Asleep(u)' <=> Asleep(u)) /\ (Nowhere(u)' <=> Nowhere(u))
      /\ \A u, w : AheadIn(DiskQueue, u, w)' <=> AheadIn(DiskQueue, u, w)
  BY <1>1, <1>2 DEF kernelVars, coreVars, Moves, Same, Asleep, In, AheadIn, Nowhere
<1>4. \A u \in Clients : /\ u \in Tasks /\ u # t /\ Same(u) /\ call(u)' = call(u)
                         /\ (Pending(u)' <=> Pending(u)) /\ (InWindow(u)' <=> InWindow(u))
  BY <1>2, <1>3, OthersServe, SameCall, Programs
<1>5. ClientsMove
  BY <1>3, <1>4 DEF ClientsMove
<1>6. WindowsHeld' /\ LeavesAlone'
  BY <1>1, <1>3, <1>4 DEF WindowsHeld, LeavesAlone, ServeInv, ClientParts, Same, kernelVars, coreVars
<1>7. /\ \A u : (OnDisk(u)' <=> OnDisk(u)) /\ (Asked(u)' <=> Asked(u))
      /\ \A u, w : Before(u, w)' <=> Before(u, w)
  BY <1>1 DEF diskVars, OnDisk, Asked, Before
<1>8. RequestsMove
  <2>1. ManagerTypes'
    BY DEF DiskInv
  <2>2. OneRequestEach' /\ OpenAccepted'
    BY <1>1, <1>7 DEF ServeInv, RequestParts, OneRequestEach, OpenAccepted, diskVars
  <2> QED BY <1>1, <1>7, <2>1, <2>2 DEF RequestsMove, RequestParts
<1>9. DriverKnows' /\ SignalMeans'
  BY <1>1, <1>2, <1>3, <1>7 DEF DriverKnows, SignalMeans, ServeInv
<1> QED BY <1>5, <1>6, <1>8, <1>9, CalmServe

(* The operation ends: its client sleeps, and all others that sleep undone  *)
(* have asked later.                                                        *)
LEMMA InterruptServe ==
  ASSUME HandedOver, DiskInv, DiskInv', ServeInv, GuardInv', DiskInterrupt
  PROVE  ServeInv'
<1>1. /\ disk_status \in {"READ", "WRITE"} /\ disk_status' = "IDLE" /\ UNCHANGED <<next_block, buffer>>
      /\ done' = [done EXCEPT ![buffer] = TRUE] /\ signal' = 1 /\ queues' = resumed
      /\ curr' = curr /\ UNCHANGED <<frameVars, userVars>> /\ Open' = Open
  BY DEF DiskInterrupt, disk_interrupt, D!disk_sighandle, D!Commands, Open
<1>2. ~Deaf
  BY DEF HandedOver, DiskInterrupt, DiskMayInterrupt
<1>3. PICK b \in Clients : b = buffer /\ OnDisk(b)
  BY <1>1 DEF ServeInv, RequestParts, OneRequestEach, OnDisk
<1>4. /\ \A u \in Clients : done'[u] <=> done[u] \/ u = b
      /\ \A u : ~OnDisk(u)' /\ (OnDisk(u) <=> u = b) /\ (Asked(u)' <=> Asked(u))
  <2>1. \A u \in Clients : done'[u] <=> done[u] \/ u = b
    BY <1>1, <1>3 DEF ServeInv, RequestParts, ManagerTypes
  <2>2. \A u : ~OnDisk(u)' /\ (OnDisk(u) <=> u = b) /\ (Asked(u)' <=> Asked(u))
    BY <1>1, <1>3 DEF OnDisk, Asked
  <2> QED BY <2>1, <2>2
<1>5. OneRequestEach
  BY DEF ServeInv, RequestParts
<1>6. \A u \in Tasks : Same(u) /\ call(u)' = call(u)
  <2>1. \A u \in Tasks : Same(u)
    BY <1>1 DEF Same, frameVars, argVars, userVars
  <2> QED BY <2>1, SameCall
<1>7. /\ \A q \in Queues, u \in Clients : In(q, u)' <=> In(q, u)
      /\ \A u, w : AheadIn(DiskQueue, u, w)' => AheadIn(DiskQueue, u, w)
  <2>1. QueuesOK
    BY DEF ServeInv, GuardInv, SemInv
  <2> QED BY <1>1, <2>1, ResumedMembers, ResumedOrder, Programs
<1>8. \A u \in Clients : /\ u \in Tasks /\ (Asleep(u)' <=> Asleep(u)) /\ (Nowhere(u)' <=> Nowhere(u))
                         /\ (Pending(u)' <=> Pending(u)) /\ (InWindow(u)' <=> InWindow(u))
  BY <1>6, <1>7, OthersServe, Programs DEF Asleep, Nowhere
<1>9. ClientsMove
  BY <1>7, <1>8 DEF ClientsMove
<1>10. WindowsHeld' /\ LeavesAlone'
  BY <1>1, <1>6, <1>8 DEF WindowsHeld, LeavesAlone, ServeInv, ClientParts, Same
<1>11. RequestsMove
  <2>1. ManagerTypes'
    BY DEF DiskInv
  <2>2. OneRequestEach'
    <3>1. \A u \in Clients : ~done'[u] <=> Asked(u)' \/ OnDisk(u)'
      BY <1>4, <1>5 DEF OneRequestEach
    <3>2. \A i, j \in 1..Len(Open') : Open'[i].tid = Open'[j].tid => i = j
      BY <1>1, <1>5 DEF OneRequestEach
    <3>3. disk_status' \in {"READ", "WRITE"} => buffer' \in Clients
      BY <1>1
    <3> QED BY <1>4, <3>1, <3>2, <3>3 DEF OneRequestEach
  <2>3. OpenAccepted'
    BY <1>1 DEF OpenAccepted, ServeInv, RequestParts
  <2>4. ASSUME NEW u \in Clients, NEW w \in Clients, Before(u, w)' PROVE Before(u, w)
    <3>1. CASE done'[u] /\ ~done'[w]
      <4>1. CASE u = b
        <5>1. ~done[w] /\ w # b
          BY <1>4, <3>1
        <5>2. Asked(w)
          BY <1>4, <1>5, <5>1 DEF OneRequestEach
        <5> QED BY <1>3, <4>1, <5>2 DEF Before
      <4>2. CASE u # b
        BY <1>4, <3>1, <4>2 DEF Before
      <4> QED BY <4>1, <4>2
    <3>2. CASE \E i, j \in 1..Len(Open) : i < j /\ Open[i].tid = u /\ Open[j].tid = w
      BY <3>2 DEF Before
    <3> QED BY <1>1, <1>4, <2>4, <3>1, <3>2 DEF Before
  <2> QED BY <1>4, <2>1, <2>2, <2>3, <2>4 DEF RequestsMove, RequestParts
<1>12. DriverKnows'
  <2>1. call(Driver) \notin {"look", "take", "issue"}
    BY <1>2 DEF Deaf
  <2> QED BY <1>1, <1>4, <1>6, <2>1, Programs DEF DriverKnows, ServeInv, Same
<1>13. SignalMeans'
  <2>1. Asleep(b)'
    BY <1>3, <1>8 DEF ServeInv, SignalMeans
  <2> QED BY <1>3, <1>4, <2>1 DEF SignalMeans
<1> QED BY <1>9, <1>10, <1>11, <1>12, <1>13, CalmServe

(* A client that has put its request owns the permit or runs towards        *)
(* disk_queue.                                                              *)
LEMMA PendingOwns ==
  ASSUME ServeInv, NEW t \in Clients, Pending(t)
  PROVE  OwnsDisk(t) \/ curr = t
<1>1. t \in Tasks /\ Places(t)
  BY Programs DEF ServeInv, GuardInv
<1>2. CASE call(t) = "wake"
  BY <1>2 DEF OwnsDisk
<1>3. CASE call(t) = "up"
  <2>1. OwnsDisk(t) \/ Releasing(t)
    BY <1>3 DEF OwnsDisk, Releasing
  <2> QED BY <2>1 DEF InWindow, ServeInv, ClientParts, WindowsHeld
<1>4. CASE call(t) = "wait" /\ pc[t] \in {"user", "suspend_remove", "suspend_append"}
  <2>1. InWindow(t)
    BY <1>4 DEF InWindow, Entering
  <2> QED BY <2>1 DEF ServeInv, ClientParts, WindowsHeld
<1> QED BY <1>2, <1>3, <1>4 DEF Pending

LEMMA OwnerAlone ==
  ASSUME ServeInv, NEW t \in Tasks, curr = t, call(t) \in {"put", "look", "take", "issue"}
  PROVE  \A u \in Clients : ~Pending(u)
<1> SUFFICES ASSUME NEW u \in Clients, Pending(u) PROVE FALSE
  OBVIOUS
<1>1. OwnsDisk(t) /\ u \in Tasks
  BY Programs DEF OwnsDisk
<1>2. u = t
  BY <1>1, PendingOwns DEF ServeInv, GuardInv, OneDiskOwner
<1> QED BY <1>2 DEF Pending

(* The driver looks at the disk and takes a request; neither changes what   *)
(* is open.                                                                 *)
LEMMA LookServe ==
  ASSUME DiskInv, DiskInv', ServeInv, GuardInv', NEW t \in Tasks, look(t)
  PROVE  ServeInv'
<1>1. /\ curr = t /\ call(t) = "look" /\ pc[t] = "user" /\ UNCHANGED <<kernelVars, diskVars, managerVars>>
      /\ advance(t) \/ ip' = [ip EXCEPT ![t] = ip[t] + 3]
  BY DEF look, AtOp, At, Running
<1>2. Moves(t) /\ call(t)' \in {"take", "up"} /\ t = Driver /\ pc'[t] = "user"
  <2>1. call(t)' \in {"take", "up"}
    BY <1>1, NextCall, JumpCalls, LabelCall DEF ServeInv, GuardInv, SemInv, Following
  <2> QED BY <1>1, <2>1, IsOwnStep, OwnStepInv, LabelCall DEF ServeInv, GuardInv, kernelVars, frameVars
<1>3. RequestsStay
  BY <1>1, UntouchedRequests DEF ServeInv
<1>4. DriverKnows' /\ ~PastRemoval
  BY <1>1, <1>2, <1>3 DEF DriverKnows, ServeInv, PastRemoval, RequestsStay
<1> QED BY <1>1, <1>2, <1>3, <1>4, QuietServe DEF kernelVars, coreVars, Clients

LEMMA TakeServe ==
  ASSUME DiskInv, DiskInv', ServeInv, GuardInv', NEW t \in Tasks, take(t)
  PROVE  ServeInv'
<1>1. /\ curr = t /\ call(t) = "take" /\ pc[t] = "user" /\ UNCHANGED <<kernelVars, diskVars, done, signal>>
      /\ advance(t)
  BY DEF take, AtOp, At, Running
<1>2. Moves(t) /\ call(t)' = "issue" /\ t = Driver /\ pc'[t] = "user"
  BY <1>1, IsOwnStep, OwnStepInv, NextCall, LabelCall
     DEF ServeInv, GuardInv, SemInv, Following, kernelVars, frameVars
<1>3. RequestsStay
  <2>1. Open' = Open
    BY <1>2, OpenTake DEF DiskInv
  <2> QED BY <1>1, <2>1, SameRequests DEF ServeInv, DiskInv, diskVars
<1>4. DriverKnows' /\ ~PastRemoval
  BY <1>1, <1>2, <1>3 DEF DriverKnows, ServeInv, PastRemoval, RequestsStay
<1> QED BY <1>1, <1>2, <1>3, <1>4, QuietServe DEF kernelVars, coreVars, Clients

(* The oldest request goes to the disk, and its client sleeps: it no longer *)
(* owns the permit.                                                         *)
LEMMA IssueServe ==
  ASSUME DiskInv, DiskInv', ServeInv, GuardInv', NEW t \in Tasks, issue(t)
  PROVE  ServeInv'
<1>1. /\ curr = t /\ call(t) = "issue" /\ pc[t] = "user" /\ UNCHANGED kernelVars
      /\ advance(t) /\ UNCHANGED <<signal, done>>
  BY DEF issue, AtOp, At, Running
<1>2. Moves(t) /\ call(t)' = "up" /\ t = Driver /\ pc'[t] = "user"
  BY <1>1, IsOwnStep, OwnStepInv, NextCall, LabelCall
     DEF ServeInv, GuardInv, SemInv, Following, kernelVars, frameVars
<1>3. /\ \A u \in Tasks : u # t => Same(u)
      /\ \A u : (Asleep(u)' <=> Asleep(u)) /\ (Nowhere(u)' <=> Nowhere(u))
      /\ \A u, w : AheadIn(DiskQueue, u, w)' <=> AheadIn(DiskQueue, u, w)
  BY <1>1, <1>2 DEF kernelVars, coreVars, Moves, Same, Asleep, In, AheadIn, Nowhere
<1>4. \A u \in Clients : /\ u \in Tasks /\ u # t /\ Same(u) /\ call(u)' = call(u)
                         /\ (Pending(u)' <=> Pending(u)) /\ (InWindow(u)' <=> InWindow(u))
  BY <1>2, <1>3, OthersServe, SameCall, Programs
<1>5. ClientsMove
  BY <1>3, <1>4 DEF ClientsMove
<1>6. WindowsHeld' /\ LeavesAlone'
  BY <1>1, <1>3, <1>4 DEF WindowsHeld, LeavesAlone, ServeInv, ClientParts, Same, kernelVars, coreVars
<1>7. ManagerTypes /\ ManagerTypes' /\ DriverHolds
  BY DEF DiskInv
<1>8. signal' = 0 /\ DriverKnows' /\ ~PastRemoval
  BY <1>1, <1>2 DEF DriverKnows, ServeInv, PastRemoval
<1>9. /\ Len(Open) \in Nat \ {0} /\ Open[1] = request[1] /\ Open[1] \in Requests
      /\ Len(Open') = Len(Open) - 1 /\ \A i \in 1..Len(Open)-1 : Open'[i] = Open[i+1]
      /\ disk_status = "IDLE" /\ 1 \in 1..Len(Open)
  BY <1>2, <1>7, OpenIssue, Issued
<1>10. PICK x \in Clients : x = Open[1].tid
  BY <1>9 DEF Requests
<1>11. disk_status' \in {"READ", "WRITE"} /\ buffer' = x
  <2>1. request[1].block \in 0..numblocks-1 /\ request[1].buffer = request[1].tid
    BY <1>9 DEF ServeInv, RequestParts, OpenAccepted
  <2>2. request[1].buffer # NULL /\ request[1].op \in D!Commands
    BY <1>9, <2>1, Programs DEF Requests, D!Commands
  <2> QED BY <1>2, <1>7, <1>9, <1>10, <2>1, <2>2, Issued DEF D!Commands
<1>12. OneRequestEach /\ Asked(x) /\ ~done[x] /\ \A u : ~OnDisk(u)
  <2>1. Asked(x) /\ \A u : ~OnDisk(u)
    BY <1>9, <1>10 DEF Asked, OnDisk
  <2> QED BY <2>1 DEF ServeInv, RequestParts, OneRequestEach
<1>13. \A u \in Clients : (OnDisk(u)' <=> u = x) /\ (Asked(u)' <=> Asked(u) /\ u # x)
  <2> SUFFICES ASSUME NEW u \in Clients PROVE Asked(u)' <=> Asked(u) /\ u # x
    BY <1>11 DEF OnDisk
  <2>1. ASSUME Asked(u)' PROVE Asked(u) /\ u # x
    <3>1. PICK i \in 1..Len(Open)-1 : Open[i+1].tid = u
      BY <1>9, <2>1 DEF Asked
    <3>2. i + 1 \in 1..Len(Open) /\ 1 \in 1..Len(Open) /\ i + 1 # 1
      BY <1>9
    <3> QED BY <1>10, <1>12, <3>1, <3>2 DEF Asked, OneRequestEach
  <2>2. ASSUME Asked(u), u # x PROVE Asked(u)'
    <3>1. PICK i \in 1..Len(Open) : Open[i].tid = u
      BY <2>2 DEF Asked
    <3>2. i # 1
      BY <1>10, <2>2, <3>1
    <3>3. i - 1 \in 1..Len(Open)-1 /\ (i - 1) + 1 = i
      BY <1>9, <3>2
    <3>4. Open'[i-1].tid = u
      BY <1>9, <3>1, <3>3
    <3> QED BY <1>9, <3>3, <3>4 DEF Asked
  <2> QED BY <2>1, <2>2
<1>14. OneRequestEach'
  <2>1. \A i, j \in 1..Len(Open') : Open'[i].tid = Open'[j].tid => i = j
    <3> SUFFICES ASSUME NEW i \in 1..Len(Open)-1, NEW j \in 1..Len(Open)-1,
                        Open[i+1].tid = Open[j+1].tid
                 PROVE  i = j
      BY <1>9
    <3>1. i + 1 \in 1..Len(Open) /\ j + 1 \in 1..Len(Open)
      BY <1>9
    <3>2. i + 1 = j + 1
      BY <1>12, <3>1 DEF OneRequestEach
    <3> QED BY <3>2
  <2>2. \A u \in Clients : /\ ~(Asked(u)' /\ OnDisk(u)')
                           /\ ~done'[u] <=> Asked(u)' \/ OnDisk(u)'
    BY <1>1, <1>12, <1>13 DEF OneRequestEach
  <2> QED BY <1>11, <2>1, <2>2 DEF OneRequestEach
<1>15. OpenAccepted'
  <2> SUFFICES ASSUME NEW i \in 1..Len(Open)-1
               PROVE  Open[i+1].block \in 0..numblocks-1 /\ Open[i+1].buffer = Open[i+1].tid
    BY <1>9 DEF OpenAccepted
  <2>1. i + 1 \in 1..Len(Open)
    BY <1>9
  <2> QED BY <2>1 DEF ServeInv, RequestParts, OpenAccepted
<1>16. ASSUME NEW u \in Clients, NEW w \in Clients, Before(u, w)' PROVE Before(u, w)
  <2>1. CASE done'[u] /\ ~done'[w]
    BY <1>1, <2>1 DEF Before
  <2>2. CASE OnDisk(u)' /\ Asked(w)'
    <3>1. u = x /\ Asked(w) /\ w # x
      BY <1>13, <2>2
    <3>2. PICK j \in 1..Len(Open) : Open[j].tid = w
      BY <3>1 DEF Asked
    <3>3. 1 \in 1..Len(Open) /\ 1 < j
      BY <1>9, <1>10, <3>1, <3>2
    <3> QED BY <1>10, <3>1, <3>2, <3>3 DEF Before
  <2>3. CASE \E i, j \in 1..Len(Open') :
               i < j /\ Open'[i].tid = u /\ Open'[j].tid = w
    <3>0. PICK i \in 1..Len(Open'), j \in 1..Len(Open') : i < j /\ Open'[i].tid = u /\ Open'[j].tid = w
      BY <2>3
    <3>1. /\ i \in 1..Len(Open)-1 /\ j \in 1..Len(Open)-1 /\ i < j
          /\ Open[i+1].tid = u /\ Open[j+1].tid = w
      BY <1>9, <3>0
    <3>2. i + 1 \in 1..Len(Open) /\ j + 1 \in 1..Len(Open) /\ i + 1 < j + 1
      BY <1>9, <3>1
    <3> QED BY <3>1, <3>2 DEF Before
  <2> QED BY <1>16, <2>1, <2>2, <2>3 DEF Before
<1>17. RequestsMove
  BY <1>1, <1>7, <1>14, <1>15, <1>16 DEF RequestsMove, RequestParts
<1>18. SignalMeans'
  <2>1. Asleep(x)
    BY <1>1, <1>12, OwnerAlone DEF ServeInv, ClientParts, UndoneWaits
  <2> QED BY <1>3, <1>8, <1>13, <2>1 DEF SignalMeans
<1> QED BY <1>5, <1>6, <1>8, <1>17, <1>18, CalmServe

(* A request comes last, and its client is the only one that is pending.    *)
LEMMA PutServe ==
  ASSUME AsksAccepted, DiskInv, DiskInv', ServeInv, GuardInv', NEW t \in Tasks, put(t)
  PROVE  ServeInv'
<1>1. /\ curr = t /\ call(t) = "put" /\ pc[t] = "user" /\ UNCHANGED <<kernelVars, diskVars>>
      /\ advance(t) /\ UNCHANGED <<signal, failures>> /\ done' = [done EXCEPT ![t] = FALSE]
  BY DEF put, AtOp, At, Running
<1>2. t \in Clients /\ t # Driver
  BY <1>1, LabelCall, Programs DEF ServeInv
<1>3. Moves(t) /\ call(t)' = "wake" /\ pc'[t] = "user"
  BY <1>1, IsOwnStep, OwnStepInv, NextCall
     DEF ServeInv, GuardInv, SemInv, Following, kernelVars, frameVars
<1>4. /\ \A u \in Tasks : u # t => Same(u)
      /\ \A u : (Asleep(u)' <=> Asleep(u)) /\ (Nowhere(u)' <=> Nowhere(u))
      /\ \A u, w : AheadIn(DiskQueue, u, w)' <=> AheadIn(DiskQueue, u, w)
  BY <1>1, <1>3 DEF kernelVars, coreVars, Moves, Same, Asleep, In, AheadIn, Nowhere
<1>5. \A u \in Clients : u # t => /\ u \in Tasks /\ Same(u) /\ call(u)' = call(u)
                                  /\ (Pending(u)' <=> Pending(u)) /\ (InWindow(u)' <=> InWindow(u))
  BY <1>4, OthersServe, SameCall, Programs
<1>6. ManagerTypes /\ ManagerTypes' /\ OneRequestEach
  BY DEF DiskInv, ServeInv, RequestParts
<1>7. done[t] /\ ~Asked(t) /\ ~OnDisk(t) /\ ~Asleep(t)
  <2>1. ~Pending(t) /\ ~Asleep(t)
    BY <1>1, <1>2, SleepersLie DEF Pending, ServeInv
  <2>2. done[t]
    BY <1>2, <2>1 DEF ServeInv, ClientParts, UndoneWaits
  <2> QED BY <1>2, <1>6, <2>1, <2>2 DEF OneRequestEach
<1>8. \A u \in Clients : ~Pending(u) /\ (Pending(u)' <=> u = t)
  BY <1>1, <1>3, <1>5, OwnerAlone DEF Pending
<1>9. \A u \in Clients : (done'[u] <=> done[u] /\ u # t) /\ (OnDisk(u)' <=> OnDisk(u))
  BY <1>1, <1>6 DEF ManagerTypes, OnDisk, diskVars
<1>10. PICK ask \in Asks[t] :
         LET new == [tid |-> t, op |-> ask.op, block |-> ask.block, buffer |-> ask.buffer]
         IN  /\ new \in Requests /\ Open' = Append(Open, new)
             /\ Len(Open') = Len(Open) + 1 /\ Open'[Len(Open)+1] = new
             /\ \A i \in 1..Len(Open) : Open'[i] = Open[i]
  BY OpenPut DEF DiskInv
<1> DEFINE n == Len(Open)
           r == [tid |-> t, op |-> ask.op, block |-> ask.block, buffer |-> ask.buffer]
<1>11. /\ n \in Nat /\ Len(Open') = n + 1
       /\ \A i \in 1..n : Open'[i] = Open[i]
       /\ Open'[n+1] = r
  BY <1>6, <1>10, OpenTypes
<1>12. r.tid = t /\ r.block \in 0..numblocks-1 /\ r.buffer = r.tid
  BY <1>2 DEF AsksAccepted
<1> HIDE DEF r, n
<1>13. /\ n + 1 \in 1..n+1 /\ n + 1 \notin 1..n
       /\ \A i \in 1..n+1 : i \in 1..n \/ i = n + 1
  BY <1>11
<1>14. \A i \in 1..n : Open[i].tid # t
  BY <1>7 DEF Asked, n
<1>15. \A u \in Clients : Asked(u)' <=> Asked(u) \/ u = t
  <2> SUFFICES ASSUME NEW u \in Clients PROVE Asked(u)' <=> Asked(u) \/ u = t
    OBVIOUS
  <2>1. Asked(u)' <=> \E i \in 1..n+1 : Open'[i].tid = u
    BY <1>11 DEF Asked
  <2>2. Asked(u) <=> \E i \in 1..n : Open'[i].tid = u
    BY <1>11 DEF Asked, n
  <2>3. Open'[n+1].tid = t
    BY <1>11, <1>12
  <2>4. ASSUME Asked(u)' PROVE Asked(u) \/ u = t
    <3>1. PICK i \in 1..n+1 : Open'[i].tid = u
      BY <2>1, <2>4
    <3>2. CASE i \in 1..n
      BY <2>2, <3>1, <3>2
    <3>3. CASE i = n + 1
      BY <2>3, <3>1, <3>3
    <3> QED BY <1>13, <3>2, <3>3
  <2>5. ASSUME Asked(u) PROVE Asked(u)'
    <3>1. PICK i \in 1..n : Open'[i].tid = u
      BY <2>2, <2>5
    <3>2. i \in 1..n+1
      BY <1>11
    <3> QED BY <2>1, <3>1, <3>2
  <2>6. ASSUME u = t PROVE Asked(u)'
    BY <1>13, <2>1, <2>3, <2>6
  <2> QED BY <2>4, <2>5, <2>6
<1>16. OneRequestEach'
  <2>1. \A i, j \in 1..Len(Open') : Open'[i].tid = Open'[j].tid => i = j
    <3> SUFFICES ASSUME NEW i \in 1..n+1, NEW j \in 1..n+1, Open'[i].tid = Open'[j].tid
                 PROVE  i = j
      BY <1>11
    <3>1. CASE i \in 1..n /\ j \in 1..n
      BY <1>6, <1>11, <3>1 DEF OneRequestEach, n
    <3>2. CASE i = n + 1 \/ j = n + 1
      BY <1>11, <1>12, <1>13, <1>14, <3>2
    <3> QED BY <1>13, <3>1, <3>2
  <2>2. \A u \in Clients : /\ ~(Asked(u)' /\ OnDisk(u)')
                           /\ ~done'[u] <=> Asked(u)' \/ OnDisk(u)'
    BY <1>6, <1>7, <1>9, <1>15 DEF OneRequestEach
  <2>3. disk_status' \in {"READ", "WRITE"} => buffer' \in Clients
    BY <1>1, <1>6 DEF OneRequestEach, diskVars
  <2> QED BY <2>1, <2>2, <2>3 DEF OneRequestEach
<1>17. OpenAccepted'
  <2> SUFFICES ASSUME NEW i \in 1..n+1
               PROVE  Open'[i].block \in 0..numblocks-1 /\ Open'[i].buffer = Open'[i].tid
    BY <1>11 DEF OpenAccepted
  <2> QED BY <1>11, <1>12, <1>13 DEF ServeInv, RequestParts, OpenAccepted, n
<1>18. ClientParts'
  <2>1. WindowsHeld' /\ LeavesAlone'
    BY <1>1, <1>3, <1>4, <1>5 DEF WindowsHeld, LeavesAlone, ServeInv, ClientParts, Same, kernelVars, coreVars
  <2>2. OnePending' /\ UndoneWaits'
    BY <1>4, <1>8, <1>9 DEF OnePending, UndoneWaits, ServeInv, ClientParts
  <2> QED BY <2>1, <2>2 DEF ClientParts
<1>19. Driver \in Tasks /\ Same(Driver) /\ call(Driver)' = call(Driver)
  BY <1>2, <1>4, Programs, SameCall
<1>20. DriverKnows'
  <2>1. call(Driver) # "check"
    BY <1>1, <1>2, <1>19 DEF OwnsDisk, ServeInv, GuardInv, OneDiskOwner
  <2> QED BY <1>1, <1>19, <2>1 DEF DriverKnows, ServeInv, Same
<1>21. SignalMeans'
  <2>1. PastRemoval' <=> PastRemoval
    BY <1>19 DEF PastRemoval, Same
  <2> QED BY <1>1, <1>4, <1>7, <1>9, <2>1 DEF SignalMeans, ServeInv
<1>22. ASSUME NEW u \in Clients, NEW w \in Clients, w # t, Before(u, w)'
       PROVE  Before(u, w)
  <2>1. CASE done'[u] /\ ~done'[w]
    BY <1>9, <1>22, <2>1 DEF Before
  <2>2. CASE OnDisk(u)' /\ Asked(w)'
    BY <1>9, <1>15, <1>22, <2>2 DEF Before
  <2>3. CASE \E i, j \in 1..Len(Open') :
               i < j /\ Open'[i].tid = u /\ Open'[j].tid = w
    <3>1. PICK i \in 1..n+1, j \in 1..n+1 :
            i < j /\ Open'[i].tid = u /\ Open'[j].tid = w
      BY <1>11, <2>3
    <3>2. j \in 1..n
      BY <1>11, <1>12, <1>13, <1>22, <3>1
    <3>3. i \in 1..n
      BY <1>11, <3>1, <3>2
    <3> QED BY <1>11, <3>1, <3>2, <3>3 DEF Before, n
  <2> QED BY <1>22, <2>1, <2>2, <2>3 DEF Before
<1>23. ASSUME NEW u \in Clients, Before(t, u)' PROVE FALSE
  <2>1. ~done'[t] /\ ~OnDisk(t)'
    BY <1>2, <1>7, <1>9
  <2>2. PICK i \in 1..n+1, j \in 1..n+1 : i < j /\ Open'[i].tid = t
    BY <1>11, <1>23, <2>1 DEF Before
  <2>3. i \in 1..n
    BY <1>11, <2>2
  <2> QED BY <1>11, <1>14, <2>2, <2>3
<1>24. SleepInOrder'
  <2>1. ASSUME NEW u \in Clients, NEW w \in Clients, AheadIn(DiskQueue, u, w)' PROVE ~Before(w, u)'
    <3>1. Asleep(u) /\ AheadIn(DiskQueue, u, w)
      BY <1>4, <2>1, OrderIn DEF Asleep
    <3>2. u # t
      BY <1>7, <3>1
    <3> QED BY <1>22, <3>1, <3>2 DEF ServeInv, SleepInOrder
  <2>2. ASSUME NEW u \in Clients, NEW w \in Clients, Asleep(u)', Pending(w)' PROVE ~Before(w, u)'
    BY <1>8, <1>23, <2>2
  <2> QED BY <2>1, <2>2 DEF SleepInOrder
<1> QED BY <1>6, <1>16, <1>17, <1>18, <1>20, <1>21, <1>24 DEF ServeInv, RequestParts

-----------------------------------------------------------------------------
(* ServeInv is inductive.                                                   *)
LEMMA ServeInit == DiskInit => ServeInv
<1> SUFFICES ASSUME DiskInit PROVE ServeInv
  OBVIOUS
<1>1. GuardInv /\ ManagerTypes
  BY GuardInit, DiskInitInv DEF DiskInv
<1>2. /\ request_queue = << >> /\ request = << >> /\ signal = 0 /\ done = [t \in Clients |-> TRUE]
      /\ disk_status = "UNKNOWN" /\ queues[DiskQueue] = << >>
      /\ \A t \in Tasks : pc[t] = "user" /\ ip[t] = 1
  BY Programs DEF DiskInit, D!Unknown, Booted
<1>3. \A t \in Tasks : call(t) = "down"
  <2> SUFFICES ASSUME NEW t \in Tasks PROVE call(t) = "down"
    OBVIOUS
  <2>1. CASE t = Driver
    BY <1>2, <2>1, Programs, DriverPositions DEF call
  <2>2. CASE t # Driver
    BY <1>2, <2>2, Programs, ClientPositions DEF call, Clients
  <2> QED BY <2>1, <2>2
<1>4. Len(Open) = 0 /\ Len(queues[DiskQueue]) = 0
  <2>1. Len(request_queue) = 0 /\ Len(request) = 0 /\ Len(queues[DiskQueue]) = 0
    BY <1>2
  <2> QED BY <1>1, <2>1, OpenTypes
<1>5. /\ \A t \in Clients : ~Pending(t) /\ ~InWindow(t) /\ ~OnDisk(t) /\ ~Asked(t) /\ done[t]
      /\ \A t : ~Asleep(t)
      /\ \A t, u : ~AheadIn(DiskQueue, t, u)
  <2>1. \A t \in Clients : ~Pending(t) /\ ~InWindow(t)
    BY <1>2, <1>3, Programs DEF Pending, InWindow, Releasing, Entering
  <2>2. \A t \in Clients : ~OnDisk(t) /\ ~Asked(t) /\ done[t]
    BY <1>2, <1>4 DEF OnDisk, Asked
  <2>3. (\A t : ~Asleep(t)) /\ \A t, u : ~AheadIn(DiskQueue, t, u)
    BY <1>4 DEF Asleep, In, Contains, AheadIn, InOrder
  <2> QED BY <2>1, <2>2, <2>3
<1>6. RequestParts
  BY <1>1, <1>2, <1>4, <1>5 DEF RequestParts, OneRequestEach, OpenAccepted
<1>7. ClientParts
  BY <1>3, <1>5, Programs DEF ClientParts, WindowsHeld, OnePending, UndoneWaits, LeavesAlone
<1>8. DriverKnows /\ SignalMeans /\ SleepInOrder
  BY <1>2, <1>3, <1>5, Programs DEF DriverKnows, SignalMeans, SleepInOrder
<1> QED BY <1>1, <1>6, <1>7, <1>8 DEF ServeInv

(* A step of the kernel is no other step.                                   *)
LEMMA KernelOrCall ==
  ASSUME NEW t \in Tasks, Step(t)
  PROVE  ~SuspendResume(t) \/ UNCHANGED <<semVars, userVars>>
<1> SUFFICES ASSUME SuspendResume(t) PROVE UNCHANGED <<semVars, userVars>>
  OBVIOUS
<1>1. pc[t] \in KernelLabels
  BY DEF SuspendResume, suspend_remove, suspend_append, suspend_switch, resume_remove, resume_append,
         KernelLabels
<1> QED BY <1>1 DEF Step, KernelLabels, sem_down, sem_up, enter_call, down_lock, up_lock, lock_step,
        down_load, up_load, load_step, down_store, up_store, store_step, down_unlock, up_unlock,
        unlock_step, down_test, sem_return, up_test, up_head, sem_destroy, destroy_loop, destroy_head, At

LEMMA ServeNext ==
  ASSUME HandedOver, AsksAccepted, DiskInv, ServeInv, [DiskNext]_allVars
  PROVE  ServeInv'
<1>1. GuardInv' /\ DiskInv'
  BY GuardNext, DiskNextInv DEF ServeInv, HandedOver, WindowClosed
<1>2. ASSUME NEW t \in Tasks, Step(t), UNCHANGED <<diskVars, managerVars>>
      PROVE  ServeInv'
  <2>1. RequestsStay
    BY <1>2, UntouchedRequests DEF ServeInv
  <2>2. CASE ~SuspendResume(t)
    BY <1>1, <1>2, <2>1, <2>2, CallServe
  <2>3. CASE SuspendResume(t)
    <3>1. UNCHANGED <<semVars, userVars>>
      BY <1>2, <2>3, KernelOrCall
    <3> QED BY <1>1, <2>1, <2>3, <3>1, SuspendRemoveServe, SuspendAppendServe, SuspendSwitchServe,
            ResumeRemoveServe, ResumeAppendServe DEF SuspendResume
  <2> QED BY <2>2, <2>3
<1>3. ASSUME NEW t \in Tasks, DiskStep(t)
      PROVE  ServeInv'
  BY <1>1, <1>2, <1>3, StartServe, FailureServe, PutServe, WakeServe, SleepServe, CheckServe,
     ClearServe, LookServe, TakeServe, IssueServe DEF DiskStep
<1>4. CASE UNCHANGED allVars
  <2>1. UNCHANGED <<diskVars, managerVars>> /\ UNCHANGED <<frameVars, userVars>> /\ curr' = curr /\ queues' = queues
    BY <1>4 DEF allVars, vars, kernelVars, coreVars
  <2>2. RequestsStay
    BY <2>1, UntouchedRequests DEF ServeInv
  <2>3. WindowsHeld'
    <3>1. \A u \in Clients : InWindow(u)' <=> InWindow(u)
      BY <2>1, OthersServe DEF Same, frameVars, argVars, userVars
    <3> QED BY <2>1, <3>1 DEF WindowsHeld, ServeInv, ClientParts
  <2> QED BY <1>1, <2>1, <2>2, <2>3, FrozenServe DEF In, AheadIn
<1> QED BY <1>1, <1>3, <1>4, TickServe, DispatchServe, InterruptServe DEF DiskNext

THEOREM ServeInvariant ==
  ASSUME HandedOver, AsksAccepted
  PROVE  DiskSpec => [](DiskInv /\ ServeInv)
<1>1. DiskInit => DiskInv /\ ServeInv
  BY DiskInitInv, ServeInit
<1>2. DiskInv /\ ServeInv /\ [DiskNext]_allVars => DiskInv' /\ ServeInv'
  BY DiskNextInv, ServeNext
<1> QED BY <1>1, <1>2, PTL DEF DiskSpec

(* The call of a client returns after its own operation: under the          *)
(* hand-over timing, and when the disk refuses no request, the driver never *)
(* wakes a client for the operation of another.                             *)
THEOREM EveryoneIsServed ==
  ASSUME HandedOver, AsksAccepted
  PROVE  DiskSpec => []ReturnsServed
<1>1. ASSUME DiskInv, ServeInv PROVE ReturnsServed
  <2> SUFFICES ASSUME NEW t \in Clients, ~InCall(t) PROVE done[t]
    BY DEF ReturnsServed
  <2>1. call(t) = "down"
    BY Programs, ClientPositions DEF InCall, call
  <2>2. ~Pending(t) /\ ~Asleep(t)
    BY <1>1, <2>1, SleepersLie DEF Pending, ServeInv
  <2> QED BY <1>1, <2>2 DEF ServeInv, ClientParts, UndoneWaits
<1> QED BY <1>1, ServeInvariant, PTL

-----------------------------------------------------------------------------
(* The driver does not sleep over a signal or a request.                    *)
(*                                                                          *)
(* From its test of signal to disk_queue the driver relies on two things:   *)
(* that the disk does not interrupt, and that no client makes a request     *)
(* behind its back.  Up to the increment of its sem_up it owns sem_disk,    *)
(* and from there it keeps the processor.                                   *)
DriverInWindow == Releasing(Driver) \/ Entering(Driver, {"sleep"})

Retiring == call(Driver) = "up" \/ Entering(Driver, {"sleep"})

IdleHands == disk_status = "IDLE" /\ request_queue # << >>

WakesDriver(t) == call(t) = "wake" /\ pc[t] \in {"user", "resume_remove"}

NobodyAsks == \A t \in Clients : call(t) \notin {"put", "wake"}

DriverWindowHeld == DriverInWindow => curr = Driver

RetiringKnows == Retiring => signal = 0 /\ ~IdleHands /\ NobodyAsks

(* Until disk_mgr_init has returned nobody asks for anything.               *)
BeforeStart ==
  setup # "done" => /\ request_queue = << >>
                    /\ \A t \in Clients : call(t) = "down" /\ pc[t] = "user"

(* A client that sees the driver's status wakes it, since the status of a   *)
(* driver that sleeps is SUSPENDED.                                         *)
SleepsInside ==
  Asleep(Driver) =>
    /\ status[Driver] = "SUSPENDED" /\ signal = 0
    /\ IdleHands => \E t \in Clients : WakesDriver(t)

(* Whoever is about to make the driver ready has taken it out of its queue, *)
(* and the driver has not gone to sleep since.                              *)
ResumesOnce(t) ==
  pc[t] = "resume_append" /\ arg_task[t] = Driver =>
    /\ call(t) = "wake" => ~Asleep(Driver)
    /\ call(t) = "up" => call(Driver) = "down"

SleepParts ==
  /\ DriverWindowHeld /\ RetiringKnows /\ BeforeStart /\ SleepsInside
  /\ \A t \in Tasks : ResumesOnce(t)

SleepInv == ServeInv /\ SleepParts

Calm == UNCHANGED <<disk_status, request_queue, signal>>

(* What a step of the driver, or of a client t, does to all this.           *)
DriverMoves ==
  /\ Retiring' => (Retiring /\ Calm) \/ (OwnsDisk(Driver)' /\ signal' = 0 /\ ~IdleHands')
  /\ Asleep(Driver)' => (Asleep(Driver) \/ Retiring) /\ Calm

ClientMoves(t) ==
  /\ signal' = signal /\ (Asleep(Driver)' => Asleep(Driver))
  /\ IdleHands' => IdleHands \/ (call(t) = "put" /\ WakesDriver(t)')
  /\ Asleep(Driver)' /\ WakesDriver(t) => WakesDriver(t)'

LEMMA DriverFrame ==
  ASSUME Same(Driver)
  PROVE  /\ DriverInWindow' <=> DriverInWindow
         /\ Retiring' <=> Retiring
         /\ call(Driver)' = call(Driver)
BY SameCall, Programs DEF Same, DriverInWindow, Retiring, Releasing, Entering

LEMMA CalmHands ==
  ASSUME Calm
  PROVE  (IdleHands' <=> IdleHands) /\ signal' = signal
BY DEF Calm, IdleHands

(* While a client runs, a driver that is quiet owns sem_disk.               *)
LEMMA RetiringOwns ==
  ASSUME SleepInv, Retiring, curr # Driver
  PROVE  call(Driver) = "up" /\ pc[Driver] \in {"user", "up_lock"}
<1>1. ~DriverInWindow
  BY DEF SleepInv, SleepParts, DriverWindowHeld
<1> QED BY <1>1 DEF DriverInWindow, Retiring, Releasing

LEMMA StepSleep ==
  ASSUME SleepInv, ServeInv', NEW t \in Tasks, curr = t, Moves(t),
         setup' = setup, setup = "done" \/ (t = Driver /\ request_queue' = request_queue),
         t = Driver => curr' = curr \/ ~DriverInWindow',
         Asleep(Driver)' => \/ status'[Driver] = "SUSPENDED"
                            \/ Asleep(Driver) /\ status'[Driver] = status[Driver],
         t = Driver => DriverMoves,
         t # Driver => ClientMoves(t),
         pc'[t] # "resume_append" \/ ResumesOnce(t)'
  PROVE  SleepInv'
<1>1. \A u \in Tasks : u # t => Same(u) /\ call(u)' = call(u)
  BY SameCall DEF Moves, Same
<1>2. /\ \A u \in Clients : u \in Tasks /\ u # Driver
      /\ \A u \in Tasks : u # Driver => u \in Clients
      /\ \A u \in Clients : u # t => (WakesDriver(u)' <=> WakesDriver(u))
  BY <1>1, Programs DEF WakesDriver, Same, Clients
<1>3. DriverWindowHeld'
  <2>1. CASE t = Driver
    BY <2>1 DEF DriverWindowHeld
  <2>2. CASE t # Driver
    BY <1>1, <2>2, DriverFrame, Programs DEF DriverWindowHeld, SleepInv, SleepParts
  <2> QED BY <2>1, <2>2
<1>4. RetiringKnows'
  <2> SUFFICES ASSUME Retiring' PROVE signal' = 0 /\ ~IdleHands' /\ NobodyAsks'
    BY DEF RetiringKnows
  <2>1. CASE t = Driver
    <3>1. CASE Retiring /\ Calm
      <4>1. signal' = 0 /\ ~IdleHands' /\ NobodyAsks
        BY <3>1, CalmHands DEF SleepInv, SleepParts, RetiringKnows
      <4> QED BY <1>1, <1>2, <2>1, <4>1 DEF NobodyAsks
    <3>2. CASE OwnsDisk(Driver)' /\ signal' = 0 /\ ~IdleHands'
      <4>1. \A u \in Clients : ~OwnsDisk(u)'
        BY <1>2, <3>2, Programs DEF ServeInv, GuardInv, OneDiskOwner
      <4> QED BY <3>2, <4>1 DEF NobodyAsks, OwnsDisk
    <3> QED BY <2>1, <3>1, <3>2 DEF DriverMoves
  <2>2. CASE t # Driver
    <3>1. Retiring /\ Same(Driver) /\ call(Driver)' = call(Driver)
      BY <1>1, <2>2, DriverFrame, Programs
    <3>2. signal = 0 /\ ~IdleHands /\ NobodyAsks
      BY <3>1 DEF SleepInv, SleepParts, RetiringKnows
    <3>3. OwnsDisk(Driver)'
      BY <2>2, <3>1, RetiringOwns DEF OwnsDisk, Same
    <3>4. \A u \in Clients : ~OwnsDisk(u)'
      BY <1>2, <3>3, Programs DEF ServeInv, GuardInv, OneDiskOwner
    <3>5. NobodyAsks'
      BY <3>4 DEF NobodyAsks, OwnsDisk
    <3>6. call(t) # "put"
      BY <1>2, <2>2, <3>2 DEF NobodyAsks
    <3> QED BY <2>2, <3>2, <3>5, <3>6 DEF ClientMoves
  <2> QED BY <2>1, <2>2
<1>5. BeforeStart'
  BY <1>1, <1>2 DEF BeforeStart, SleepInv, SleepParts, Same
<1>6. SleepsInside'
  <2> SUFFICES ASSUME Asleep(Driver)'
               PROVE  /\ status'[Driver] = "SUSPENDED" /\ signal' = 0
                      /\ IdleHands' => \E u \in Clients : WakesDriver(u)'
    BY DEF SleepsInside
  <2>1. status'[Driver] = "SUSPENDED"
    BY DEF SleepInv, SleepParts, SleepsInside
  <2>2. CASE t = Driver
    <3>1. signal' = signal /\ (IdleHands' <=> IdleHands)
      BY <2>2, CalmHands DEF DriverMoves
    <3>2. CASE Asleep(Driver)
      BY <1>2, <2>1, <2>2, <3>1, <3>2 DEF SleepInv, SleepParts, SleepsInside
    <3>3. CASE Retiring
      BY <2>1, <3>1, <3>3 DEF SleepInv, SleepParts, RetiringKnows
    <3> QED BY <2>2, <3>2, <3>3 DEF DriverMoves
  <2>3. CASE t # Driver
    <3>1. Asleep(Driver) /\ signal' = signal /\ t \in Clients
      BY <1>2, <2>3 DEF ClientMoves
    <3>2. CASE IdleHands
      <4>1. PICK u \in Clients : WakesDriver(u)
        BY <3>1, <3>2 DEF SleepInv, SleepParts, SleepsInside
      <4>2. WakesDriver(u)'
        BY <1>2, <2>3, <4>1 DEF ClientMoves
      <4> QED BY <2>1, <3>1, <4>2 DEF SleepInv, SleepParts, SleepsInside
    <3>3. CASE ~IdleHands
      BY <2>1, <2>3, <3>1, <3>3 DEF ClientMoves, SleepInv, SleepParts, SleepsInside
    <3> QED BY <3>2, <3>3
  <2> QED BY <2>2, <2>3
<1>7. ASSUME NEW u \in Tasks PROVE ResumesOnce(u)'
  <2>1. CASE u = t
    BY <2>1 DEF ResumesOnce
  <2>2. CASE u # t
    <3> SUFFICES ASSUME pc[u] = "resume_append", arg_task[u] = Driver
                 PROVE  /\ call(u) = "wake" => ~Asleep(Driver)'
                        /\ call(u) = "up" => call(Driver)' = "down"
      BY <1>1, <2>2 DEF ResumesOnce, Same
    <3>1. /\ call(u) = "wake" => ~Asleep(Driver) /\ u \in Clients
          /\ call(u) = "up" => call(Driver) = "down" /\ u \in Clients
      BY <1>2, LabelCall DEF SleepInv, SleepParts, ResumesOnce, ServeInv
    <3>2. ASSUME call(u) = "wake" PROVE ~Asleep(Driver)'
      <4>1. ~NobodyAsks
        BY <3>1, <3>2 DEF NobodyAsks
      <4>2. ~Retiring
        BY <4>1 DEF SleepInv, SleepParts, RetiringKnows
      <4> QED BY <3>1, <3>2, <4>2 DEF DriverMoves, ClientMoves
    <3>3. ASSUME call(u) = "up" PROVE call(Driver)' = "down"
      <4>1. InWindow(u)
        BY <3>3 DEF InWindow, Releasing
      <4>2. curr = u
        BY <3>1, <3>3, <4>1 DEF SleepInv, ServeInv, ClientParts, WindowsHeld
      <4> QED BY <2>2, <4>2
    <3> QED BY <3>2, <3>3
  <2> QED BY <2>1, <2>2
<1> QED BY <1>3, <1>4, <1>5, <1>6, <1>7 DEF SleepInv, SleepParts

(* The calls that stay out of the queues.                                   *)
LEMMA StatusStays ==
  ASSUME NEW t \in Tasks, Step(t), ~SuspendResume(t)
  PROVE  status' = status
BY DEF Step, sem_down, sem_up, enter_call, down_lock, up_lock, lock_step, down_load, up_load, load_step,
       down_store, up_store, store_step, down_unlock, up_unlock, unlock_step, down_test, sem_return,
       up_test, up_head, resume_head, sem_destroy, destroy_loop, destroy_head, coreVars

LEMMA CallSleep ==
  ASSUME SleepInv, ServeInv', NEW t \in Tasks, Step(t), ~SuspendResume(t),
         t = Driver \/ setup = "done", UNCHANGED <<diskVars, managerVars>>
  PROVE  SleepInv'
<1>1. Goes(t) /\ status' = status /\ Calm
  BY CallSteps, StatusStays DEF SleepInv, ServeInv, Calm, diskVars, managerVars, requestVars
<1>2. /\ Asleep(Driver)' <=> Asleep(Driver)
      /\ ip' = ip => call(t)' = call(t)
      /\ pc[t] = "sem_return" => call(t) \in {"down", "up", "wake", "check", "wait", "sleep"}
  BY <1>1, CallKept, LabelCall DEF SleepInv, ServeInv, Goes, Asleep, In
<1>3. ASSUME t = Driver PROVE DriverMoves
  <2>1. Retiring' => Retiring
    <3>1. CASE ip' = ip /\ call(t) \in {"down", "up"}
      BY <1>2, <1>3, <3>1 DEF Retiring, Entering
    <3>2. CASE call(t)' = Following(call(t), t) /\ (call(t) \in {"down", "up"} \/ pc[t] = "sem_return")
      <4>1. call(t) \in {"down", "up", "wake", "check", "wait", "sleep"} /\ call(t) # "wake"
        BY <1>2, <1>3, <3>2, LabelCall, Programs DEF SleepInv, ServeInv
      <4> QED BY <1>3, <3>2, <4>1 DEF Following, Retiring, Entering
    <3> QED BY <1>1, <3>1, <3>2 DEF Goes
  <2> QED BY <1>1, <1>2, <2>1 DEF DriverMoves
<1>4. ASSUME t # Driver PROVE ClientMoves(t)
  <2>1. ~WakesDriver(t)
    BY <1>1 DEF Goes, WakesDriver
  <2> QED BY <1>1, <1>2, <2>1, CalmHands DEF ClientMoves
<1>5. curr = t /\ Moves(t) /\ curr' = curr /\ pc'[t] # "resume_append"
  BY <1>1 DEF Goes
<1>6. setup' = setup /\ request_queue' = request_queue
  BY DEF managerVars, requestVars, setupVars
<1> QED BY <1>1, <1>2, <1>3, <1>4, <1>5, <1>6, StepSleep

(* A step of the kernel.                                                    *)
LEMMA KernelSleep ==
  ASSUME SleepInv, ServeInv', NEW t \in Tasks, SuspendResume(t), UNCHANGED <<semVars, userVars>>,
         t = Driver \/ setup = "done", UNCHANGED <<diskVars, managerVars>>
  PROVE  SleepInv'
<1>1. /\ curr = t /\ Moves(t) /\ ip' = ip /\ call(t)' = call(t)
      /\ Calm /\ setup' = setup /\ request_queue' = request_queue
  BY CallKept, StepMoves DEF SuspendResume, suspend_remove, suspend_append, suspend_switch,
     resume_remove, resume_append, Running, Step, Calm, diskVars, managerVars, requestVars, setupVars, userVars,
     SleepInv, ServeInv, GuardInv
<1>2. /\ TypeOK /\ QueuesOK /\ Places(t) /\ Knows(t)
      /\ \A l : Goto(t, l) => pc'[t] = l
  BY DEF SleepInv, ServeInv, GuardInv, SemInv, TypeOK, KernelTypeOK, Goto
<1>3. status \in [Tasks -> {"READY", "RUNNING", "SUSPENDED"}] /\ Driver \in Tasks
  BY <1>2, Programs DEF TypeOK
<1>4. /\ pc[t] \in {"suspend_remove", "suspend_append", "suspend_switch"} =>
           call(t) \in {"down", "wait", "sleep"}
      /\ pc[t] \in {"resume_remove", "resume_append"} => call(t) \in {"up", "wake", "check"}
      /\ call(t) = "wake" => t # Driver
      /\ call(t) \in {"check", "sleep"} => t = Driver
      /\ \A u \in Clients : u \in Tasks /\ u # Driver
  BY LabelCall, Programs DEF SleepInv, ServeInv
<1>5. CASE suspend_remove(t)
  <2>1. /\ pc[t] = "suspend_remove" /\ pc'[t] = "suspend_append" /\ curr' = curr /\ status' = status
        /\ queue_remove("ready", t)
    BY <1>2, <1>5 DEF suspend_remove
  <2>2. Asleep(Driver)' <=> Asleep(Driver)
    BY <1>2, <2>1, Programs, RemoveMembers DEF Asleep
  <2>3. t = Driver => DriverMoves
    BY <1>1, <2>1, <2>2 DEF DriverMoves, Retiring, Entering
  <2>4. t # Driver => ClientMoves(t)
    BY <1>1, <2>1, <2>2, CalmHands DEF ClientMoves, WakesDriver
  <2> QED BY <1>1, <2>1, <2>2, <2>3, <2>4, StepSleep
<1>6. CASE suspend_append(t)
  <2>1. /\ pc[t] = "suspend_append" /\ pc'[t] = "suspend_switch" /\ curr' = curr
        /\ status' = [status EXCEPT ![t] = "SUSPENDED"] /\ queue_append(arg_queue[t], t)
    BY <1>2, <1>6 DEF suspend_append
  <2>2. arg_queue[t] \in {s_disk, DiskQueue}
    BY <1>2, <1>4, <2>1 DEF Places, KernelLabels
  <2>3. Asleep(Driver)' => Asleep(Driver) \/ t = Driver
    BY <1>2, <2>1, <2>2, Programs, AppendMembers DEF Asleep
  <2>4. t = Driver => DriverMoves
    <3> SUFFICES ASSUME t = Driver PROVE DriverMoves
      OBVIOUS
    <3>1. Retiring' => Retiring
      BY <1>1, <1>4, <2>1 DEF Retiring, Entering
    <3>2. Asleep(Driver)' => Retiring
      <4>1. Asleep(Driver)' => call(Driver)' \in {"wait", "sleep"}
        BY Programs DEF ServeInv, GuardInv, DiskLines, Asleep
      <4> QED BY <1>1, <1>4, <2>1, <4>1, LabelCall DEF Retiring, Entering, SleepInv, ServeInv
    <3> QED BY <1>1, <3>1, <3>2 DEF DriverMoves
  <2>5. t # Driver => ClientMoves(t)
    BY <1>1, <2>1, <2>3, CalmHands DEF ClientMoves, WakesDriver
  <2>6. status'[Driver] = "SUSPENDED" \/ (t # Driver /\ status'[Driver] = status[Driver])
    BY <1>3, <2>1
  <2> QED BY <1>1, <2>1, <2>3, <2>4, <2>5, <2>6, StepSleep
<1>7. CASE suspend_switch(t)
  <2>1. /\ pc[t] = "suspend_switch" /\ queues' = queues
        /\ status' = [status EXCEPT ![t] = "SUSPENDED"] /\ pc'[t] = back[t] /\ back[t] = "sem_return"
    BY <1>2, <1>7 DEF suspend_switch, switch_to_dispatcher, Places, KernelLabels
  <2>2. Asleep(Driver)' <=> Asleep(Driver)
    BY <2>1 DEF Asleep, In
  <2>3. t = Driver => DriverMoves /\ ~DriverInWindow'
    BY <1>1, <1>4, <2>1, <2>2 DEF DriverMoves, Retiring, Entering, DriverInWindow, Releasing
  <2>4. t # Driver => ClientMoves(t)
    BY <1>1, <2>1, <2>2, CalmHands DEF ClientMoves, WakesDriver
  <2>5. status'[Driver] = "SUSPENDED" \/ status'[Driver] = status[Driver]
    BY <1>3, <2>1
  <2> QED BY <1>1, <2>1, <2>2, <2>3, <2>4, <2>5, StepSleep
<1>8. CASE resume_remove(t)
  <2>1. /\ pc[t] = "resume_remove" /\ pc'[t] = "resume_append" /\ curr' = curr /\ status' = status
        /\ queue_remove(arg_queue[t], arg_task[t]) /\ arg_task' = arg_task
    BY <1>2, <1>8 DEF resume_remove, argVars
  <2>2. /\ call(t) \in {"up", "wake", "check"}
        /\ arg_queue[t] = (IF call(t) = "up" THEN s_disk ELSE DiskQueue)
        /\ call(t) = "wake" => arg_task[t] = Driver
    BY <1>2, <1>4, <2>1 DEF Places, KernelLabels
  <2>3. arg_task[t] \in Tasks
    BY <1>2, <2>1, <2>2, Programs DEF Knows, In, Contains, QueuesOK
  <2>4. \A p \in Queues, u \in Tasks : In(p, u)' <=> In(p, u) /\ ~(p = arg_queue[t] /\ u = arg_task[t])
    BY <1>2, <2>1, <2>2, <2>3, Programs, RemoveMembers
  <2>5. /\ Asleep(Driver)' => Asleep(Driver)
        /\ call(t) = "wake" => ~Asleep(Driver)'
    BY <2>2, <2>4, Programs DEF Asleep
  <2>6. call(t) = "up" /\ arg_task[t] = Driver => call(Driver) = "down"
    BY <1>2, <2>1, Programs DEF Knows, SleepInv, ServeInv, GuardInv, DiskLines
  <2>7. ResumesOnce(t)'
    <3>1. call(t) = "up" /\ arg_task[t] = Driver => call(Driver)' = "down"
      BY <1>1, <2>6, CallKept, Programs
    <3> QED BY <1>1, <2>1, <2>5, <3>1 DEF ResumesOnce
  <2>8. t = Driver => DriverMoves
    BY <1>1, <2>1, <2>2, <2>5 DEF DriverMoves, Retiring, Entering
  <2>9. t # Driver => ClientMoves(t)
    BY <1>1, <2>2, <2>5, CalmHands DEF ClientMoves, WakesDriver
  <2> QED BY <1>1, <2>1, <2>5, <2>7, <2>8, <2>9, StepSleep
<1>9. CASE resume_append(t)
  <2>1. /\ pc[t] = "resume_append" /\ pc'[t] = back[t] /\ back[t] = "sem_return" /\ curr' = curr
        /\ status' = [status EXCEPT ![arg_task[t]] = "READY"] /\ queue_append("ready", arg_task[t])
    BY <1>2, <1>9 DEF resume_append, Places, KernelLabels
  <2>2. call(t) \in {"up", "wake", "check"} /\ arg_task[t] \in Tasks
    BY <1>4, <2>1 DEF SleepInv, ServeInv, GuardInv, SemInv, Frame
  <2>3. Asleep(Driver)' <=> Asleep(Driver)
    BY <1>2, <2>1, <2>2, Programs, AppendMembers DEF Asleep
  <2>4. Asleep(Driver) => arg_task[t] # Driver
    <3> SUFFICES ASSUME arg_task[t] = Driver PROVE ~Asleep(Driver)
      OBVIOUS
    <3>1. CASE call(t) = "wake"
      BY <2>1, <3>1 DEF SleepInv, SleepParts, ResumesOnce
    <3>2. CASE call(t) = "up"
      <4>1. call(Driver) = "down"
        BY <2>1, <3>2 DEF SleepInv, SleepParts, ResumesOnce
      <4> QED BY <4>1, Programs DEF Asleep, SleepInv, ServeInv, GuardInv, DiskLines
    <3>3. CASE call(t) = "check"
      BY <1>2, <1>4, <2>1, <3>3 DEF Knows, Away
    <3> QED BY <2>2, <3>1, <3>2, <3>3
  <2>5. Asleep(Driver)' => status'[Driver] = status[Driver]
    BY <1>3, <2>1, <2>3, <2>4
  <2>6. t = Driver => DriverMoves
    BY <1>1, <2>1, <2>2, <2>3 DEF DriverMoves, Retiring, Entering
  <2>7. t # Driver => ClientMoves(t)
    BY <1>1, <2>1, <2>3, CalmHands DEF ClientMoves, WakesDriver
  <2> QED BY <1>1, <2>1, <2>3, <2>5, <2>6, <2>7, StepSleep
<1> QED BY <1>5, <1>6, <1>7, <1>8, <1>9 DEF SuspendResume

(* The steps that this module adds move the driver or a client alone, and   *)
(* no client makes them before disk_mgr_init has returned.                  *)
LEMMA OwnSleep ==
  ASSUME DiskInv, SleepInv, ServeInv', NEW t \in Tasks,
         \/ put_malloc_fails(t) \/ put(t) \/ wake(t) \/ sleep_in_disk_queue(t)
         \/ check(t) \/ clear(t) \/ look(t) \/ take(t) \/ issue(t),
         pc'[t] # "resume_append",
         t = Driver => DriverMoves,
         t # Driver => ClientMoves(t)
  PROVE  SleepInv'
<1>1. OwnStep(t) /\ Moves(t)
  BY IsOwnStep, OwnStepInv DEF SleepInv, ServeInv, GuardInv
<1>2. curr = t /\ curr' = curr /\ queues' = queues /\ status' = status
  BY <1>1 DEF OwnStep, Running
<1>3. Asleep(Driver)' <=> Asleep(Driver)
  BY <1>2 DEF Asleep, In
<1>4. call(t) # "down" /\ setup' = setup /\ (take(t) => t = Driver)
  BY WhoseStep DEF put_malloc_fails, put, wake, sleep_in_disk_queue, check, clear, look, take, issue,
     AtOp, managerVars, setupVars, DiskInv
<1>5. setup = "done" \/ (t = Driver /\ request_queue' = request_queue)
  <2>1. CASE t # Driver
    BY <1>4, <2>1 DEF SleepInv, SleepParts, BeforeStart, Clients
  <2>2. CASE take(t)
    <3>1. request_queue # << >>
      BY <1>4, <2>2 DEF take, AtOp, DiskInv, DriverHolds
    <3> QED BY <3>1 DEF SleepInv, SleepParts, BeforeStart
  <2>3. CASE sleep_in_disk_queue(t) \/ check(t) \/ clear(t) \/ look(t) \/ issue(t)
    BY <2>1, <2>3 DEF sleep_in_disk_queue, check, clear, look, issue, managerVars, requestVars
  <2>4. put_malloc_fails(t) \/ put(t) \/ wake(t) => t # Driver
    BY WhoseStep DEF DiskInv, Clients
  <2> QED BY <2>1, <2>2, <2>3, <2>4
<1> QED BY <1>1, <1>2, <1>3, <1>4, <1>5, StepSleep

LEMMA PutSleep ==
  ASSUME DiskInv, SleepInv, ServeInv', NEW t \in Tasks, put_malloc_fails(t) \/ put(t)
  PROVE  SleepInv'
<1>1. /\ call(t) = "put" /\ pc'[t] = "user" /\ queues' = queues
      /\ disk_status' = disk_status /\ signal' = signal
  BY DEF put_malloc_fails, put, AtOp, At, kernelVars, coreVars, frameVars, diskVars
<1>2. t # Driver /\ ~WakesDriver(t)
  BY <1>1, LabelCall DEF SleepInv, ServeInv, WakesDriver, Clients
<1>3. Asleep(Driver)' <=> Asleep(Driver)
  BY <1>1 DEF Asleep, In
<1>4. IdleHands' => IdleHands \/ (call(t) = "put" /\ WakesDriver(t)')
  <2>1. CASE put_malloc_fails(t)
    BY <1>1, <2>1 DEF put_malloc_fails, requestVars, IdleHands
  <2>2. CASE put(t)
    <3>1. advance(t)
      BY <2>2 DEF put
    <3>2. call(t)' = "wake"
      BY <1>1, <3>1, NextCall DEF Following, SleepInv, ServeInv, GuardInv, SemInv
    <3> QED BY <1>1, <3>2 DEF WakesDriver
  <2> QED BY <2>1, <2>2
<1>5. ClientMoves(t)
  BY <1>1, <1>2, <1>3, <1>4 DEF ClientMoves
<1> QED BY <1>1, <1>2, <1>5, OwnSleep

(* A client that finds the driver asleep wakes it.                          *)
LEMMA WakeSleep ==
  ASSUME DiskInv, SleepInv, ServeInv', NEW t \in Tasks, wake(t)
  PROVE  SleepInv'
<1>1. /\ call(t) = "wake" /\ pc[t] = "user" /\ queues' = queues /\ Calm
  BY DEF wake, AtOp, At, diskVars, managerVars, requestVars, Calm
<1>2. t # Driver
  BY <1>1, LabelCall DEF SleepInv, ServeInv, Clients
<1>3. Asleep(Driver)' <=> Asleep(Driver)
  BY <1>1 DEF Asleep, In
<1>4. CASE driver_sleeps /\ call_resume(t, Driver, DiskQueue, "sem_return") /\ UNCHANGED userVars
  <2>1. Goto(t, "resume_remove")
    BY <1>4, Programs DEF call_resume
  <2>2. pc'[t] = "resume_remove"
    BY <2>1 DEF Goto, SleepInv, ServeInv, GuardInv, SemInv, TypeOK, KernelTypeOK
  <2>3. call(t)' = "wake"
    BY <1>1, <1>4, CallKept DEF userVars
  <2>4. ClientMoves(t)
    BY <1>1, <1>3, <2>2, <2>3, CalmHands DEF ClientMoves, WakesDriver
  <2> QED BY <1>1, <1>2, <2>2, <2>4, OwnSleep DEF Calm
<1>5. CASE ~driver_sleeps /\ advance(t) /\ UNCHANGED <<frameVars, os>>
  <2>1. ~Asleep(Driver)
    BY <1>5 DEF driver_sleeps, SleepInv, SleepParts, SleepsInside
  <2>2. ClientMoves(t) /\ pc'[t] = "user"
    BY <1>1, <1>3, <1>5, <2>1, CalmHands DEF ClientMoves, frameVars
  <2> QED BY <1>1, <1>2, <2>2, OwnSleep DEF Calm
<1> QED BY <1>4, <1>5 DEF wake

LEMMA SleepSleep ==
  ASSUME DiskInv, SleepInv, ServeInv', NEW t \in Tasks, sleep_in_disk_queue(t)
  PROVE  SleepInv'
<1>1. /\ call(t) \in {"wait", "sleep"} /\ pc[t] = "user" /\ queues' = queues /\ Calm
      /\ ip' = ip /\ Goto(t, "suspend_remove")
  BY DEF sleep_in_disk_queue, AtOp, At, coreVars, userVars, diskVars, managerVars, requestVars,
         call_suspend, Calm
<1>2. pc'[t] = "suspend_remove" /\ call(t)' = call(t)
  BY <1>1, CallKept DEF Goto, SleepInv, ServeInv, GuardInv, SemInv, TypeOK, KernelTypeOK
<1>3. Asleep(Driver)' <=> Asleep(Driver)
  BY <1>1 DEF Asleep, In
<1>4. t = Driver => DriverMoves
  <2>1. t = Driver => call(t) = "sleep"
    BY <1>1, LabelCall DEF SleepInv, ServeInv, Clients
  <2> QED BY <1>1, <1>3, <2>1 DEF DriverMoves, Retiring, Entering
<1>5. t # Driver => ClientMoves(t)
  BY <1>1, <1>3, CalmHands DEF ClientMoves, WakesDriver
<1> QED BY <1>1, <1>2, <1>4, <1>5, OwnSleep DEF Calm

(* The driver's own work: after it no signal is up, and no request waits    *)
(* for an idle disk.                                                        *)
LEMMA WorkSleep ==
  ASSUME DiskInv, SleepInv, ServeInv', NEW t \in Tasks,
         check(t) \/ clear(t) \/ look(t) \/ take(t) \/ issue(t)
  PROVE  SleepInv'
<1>1. /\ curr = t /\ pc[t] = "user" /\ queues' = queues
      /\ call(t) \in {"check", "clear", "look", "take", "issue"}
  BY DEF check, clear, look, take, issue, AtOp, At, Running, kernelVars, coreVars
<1>2. t = Driver
  BY <1>1, LabelCall DEF SleepInv, ServeInv
<1>3. ~Asleep(Driver) /\ ~Asleep(Driver)'
  BY <1>1, <1>2, RunnerReady DEF SleepInv, ServeInv, Asleep, In
<1>4. TypeOK /\ pc \in [Tasks -> Labels \cup KernelLabels]
  BY DEF SleepInv, ServeInv, GuardInv, SemInv, TypeOK, KernelTypeOK
<1>5. CASE check(t)
  <2>1. call(t) = "check"
    BY <1>5 DEF check, AtOp
  <2>2. CASE signal = 1 /\ call_resume(t, head_of(DiskQueue), DiskQueue, "sem_return") /\ UNCHANGED userVars
    <3>1. pc'[t] \in {"user", "resume_remove"}
      BY <1>1, <1>4, <2>2 DEF call_resume, Goto, frameVars
    <3>2. call(t)' = "check"
      BY <2>1, <2>2, CallKept DEF userVars
    <3>3. DriverMoves
      BY <1>2, <1>3, <3>2 DEF DriverMoves, Retiring, Entering
    <3> QED BY <1>2, <1>5, <2>1, <3>1, <3>3, OwnSleep
  <2>3. CASE signal = 0 /\ ip' = [ip EXCEPT ![t] = @ + 2] /\ UNCHANGED <<frameVars, os, v>>
    <3>1. call(t)' = "look" /\ pc'[t] = "user"
      BY <1>1, <1>4, <2>1, <2>3, JumpCalls DEF frameVars
    <3>2. DriverMoves
      BY <1>2, <1>3, <3>1 DEF DriverMoves, Retiring, Entering
    <3> QED BY <1>2, <1>5, <2>1, <3>1, <3>2, OwnSleep
  <2> QED BY <1>5, <2>2, <2>3 DEF check
<1>6. CASE clear(t)
  <2>1. call(t) = "clear" /\ pc'[t] = "user" /\ advance(t)
    BY <1>1, <1>6 DEF clear, AtOp, kernelVars, frameVars
  <2>2. call(t)' = "look"
    BY <1>4, <2>1, NextCall DEF Following
  <2>3. DriverMoves
    BY <1>2, <1>3, <2>2 DEF DriverMoves, Retiring, Entering
  <2> QED BY <1>2, <1>6, <2>1, <2>3, OwnSleep
<1>7. CASE look(t)
  <2>1. call(t) = "look" /\ pc'[t] = "user" /\ UNCHANGED <<disk_status, request_queue, signal>>
    BY <1>1, <1>7 DEF look, AtOp, kernelVars, frameVars, diskVars, managerVars, requestVars
  <2>2. CASE can_serve /\ advance(t)
    <3>1. call(t)' = "take"
      BY <1>4, <2>1, <2>2, NextCall DEF Following
    <3>2. DriverMoves
      BY <1>2, <1>3, <3>1 DEF DriverMoves, Retiring, Entering
    <3> QED BY <1>2, <1>7, <2>1, <3>2, OwnSleep
  <2>3. CASE ~can_serve /\ ip' = [ip EXCEPT ![t] = @ + 3]
    <3>1. call(t)' = "up"
      BY <1>1, <1>4, <2>1, <2>3, JumpCalls
    <3>2. OwnsDisk(Driver)' /\ signal' = 0 /\ ~IdleHands'
      BY <1>2, <2>1, <2>3, <3>1 DEF OwnsDisk, SleepInv, ServeInv, DriverKnows, can_serve, IdleHands
    <3>3. DriverMoves
      BY <1>3, <3>2 DEF DriverMoves
    <3> QED BY <1>2, <1>7, <2>1, <3>3, OwnSleep
  <2> QED BY <1>7, <2>2, <2>3 DEF look
<1>8. CASE take(t)
  <2>1. call(t) = "take" /\ pc'[t] = "user" /\ advance(t)
    BY <1>1, <1>8 DEF take, AtOp, kernelVars, frameVars
  <2>2. call(t)' = "issue"
    BY <1>4, <2>1, NextCall DEF Following
  <2>3. DriverMoves
    BY <1>2, <1>3, <2>2 DEF DriverMoves, Retiring, Entering
  <2> QED BY <1>2, <1>8, <2>1, <2>3, OwnSleep
<1>9. CASE issue(t)
  <2>1. call(t) = "issue" /\ pc'[t] = "user" /\ advance(t) /\ signal' = signal
    BY <1>1, <1>9 DEF issue, AtOp, kernelVars, frameVars
  <2>2. call(t)' = "up"
    BY <1>4, <2>1, NextCall DEF Following
  <2>3. OwnsDisk(Driver)' /\ signal' = 0
    BY <1>2, <2>1, <2>2 DEF OwnsDisk, SleepInv, ServeInv, DriverKnows
  <2>4. ~IdleHands'
    <3>1. ManagerTypes /\ ManagerTypes' /\ DriverHolds /\ OpenAccepted
      BY DEF DiskInv, SleepInv, ServeInv, RequestParts
    <3>2. /\ Len(Open) \in Nat \ {0} /\ Open[1] = request[1] /\ Open[1] \in Requests
          /\ 1 \in 1..Len(Open)
      BY <1>2, <1>9, <3>1, OpenIssue
    <3>3. request[1].block \in 0..numblocks-1 /\ request[1].buffer # NULL
      BY <3>1, <3>2, Programs DEF OpenAccepted, Requests
    <3>4. disk_status' = request[1].op
      BY <1>2, <1>9, <3>1, <3>3, Issued
    <3> QED BY <3>2, <3>4 DEF Requests, IdleHands
  <2>5. DriverMoves
    BY <1>3, <2>3, <2>4 DEF DriverMoves
  <2> QED BY <1>2, <1>9, <2>1, <2>5, OwnSleep
<1> QED BY <1>5, <1>6, <1>7, <1>8, <1>9

(* The steps that leave the calls where they are.                           *)
LEMMA FrozenSleep ==
  ASSUME SleepInv, ServeInv', UNCHANGED <<frameVars, userVars>>,
         DriverInWindow => curr' = Driver,
         Retiring \/ Asleep(Driver)' => signal' = signal /\ (IdleHands' => IdleHands),
         Asleep(Driver)' => Asleep(Driver) /\ status'[Driver] \in {status[Driver], "SUSPENDED"},
         request_queue' = request_queue, setup = "done" => setup' = "done"
  PROVE  SleepInv'
<1>1. \A u \in Tasks : Same(u) /\ call(u)' = call(u)
  BY SameCall DEF Same, frameVars, argVars, userVars
<1>2. (DriverInWindow' <=> DriverInWindow) /\ (Retiring' <=> Retiring)
  BY <1>1, Programs, DriverFrame
<1>3. \A u \in Clients : u \in Tasks /\ (WakesDriver(u)' <=> WakesDriver(u))
  BY <1>1, Programs DEF WakesDriver, Same
<1>4. DriverWindowHeld'
  BY <1>2 DEF DriverWindowHeld
<1>5. RetiringKnows'
  <2>1. NobodyAsks' <=> NobodyAsks
    BY <1>1, <1>3 DEF NobodyAsks
  <2> QED BY <1>2, <2>1 DEF RetiringKnows, SleepInv, SleepParts
<1>6. BeforeStart'
  BY <1>1, <1>3 DEF BeforeStart, Same, SleepInv, SleepParts
<1>7. SleepsInside'
  BY <1>3 DEF SleepsInside, SleepInv, SleepParts
<1>8. \A u \in Tasks : ResumesOnce(u)'
  BY <1>1, Programs DEF ResumesOnce, Same, SleepInv, SleepParts
<1> QED BY <1>4, <1>5, <1>6, <1>7, <1>8 DEF SleepInv, SleepParts

LEMMA TickSleep ==
  ASSUME HandedOver, SleepInv, ServeInv', DiskTick
  PROVE  SleepInv'
<1>1. /\ queues' = queues /\ UNCHANGED <<frameVars, userVars>> /\ Calm /\ setup' = setup
      /\ curr' = curr \/ QuantumMayEnd(curr)
      /\ status' = status \/ status' = [status EXCEPT ![curr] = "SUSPENDED"]
  BY DEF DiskTick, Tick, switch_to_dispatcher, Calm, diskVars, managerVars, requestVars, setupVars
<1>2. DriverInWindow => curr' = Driver
  <2>1. DriverInWindow => curr = Driver /\ ~QuantumMayEnd(Driver)
    BY DEF HandedOver, QuantumMayEnd, DriverInWindow, Entering, SleepInv, SleepParts, DriverWindowHeld
  <2> QED BY <1>1, <2>1
<1>3. status'[Driver] \in {status[Driver], "SUSPENDED"}
  <2>1. status \in [Tasks -> {"READY", "RUNNING", "SUSPENDED"}] /\ Driver \in Tasks
    BY Programs DEF SleepInv, ServeInv, GuardInv, SemInv, TypeOK
  <2> QED BY <1>1, <2>1
<1> QED BY <1>1, <1>2, <1>3, CalmHands, FrozenSleep DEF Asleep, In, Calm

LEMMA DispatchSleep ==
  ASSUME SleepInv, ServeInv', DiskDispatch
  PROVE  SleepInv'
<1>1. /\ queues' = queues /\ UNCHANGED <<frameVars, userVars>> /\ Calm /\ setup' = setup
      /\ curr = Dispatcher
  BY NobodyDue DEF DiskDispatch, Dispatch, Running, SleepInv, ServeInv, GuardInv, Calm, diskVars,
     managerVars, requestVars, setupVars
<1>2. ~DriverInWindow
  BY <1>1, Programs, KernelAssumption DEF SleepInv, SleepParts, DriverWindowHeld
<1>3. Asleep(Driver)' => status'[Driver] = status[Driver]
  <2>0. \A u \in Tasks : ~Contains(queues["sleeping"], u)
    BY NobodyDue DEF SleepInv, ServeInv, GuardInv
  <2>1. PICK next \in Tasks :
          /\ Chosen(queues["ready"], next)
          /\ status' = [t \in Tasks |->
                         CASE t = next -> "RUNNING"
                           [] t # next /\ Contains(queues["sleeping"], t) /\ Due(t) -> "READY"
                           [] OTHER -> status[t]]
    BY <1>1 DEF DiskDispatch, Dispatch
  <2>2. In("ready", next)
    BY <2>1 DEF Chosen, In, Contains
  <2>3. Asleep(Driver)' => next # Driver
    BY <1>1, <2>2, Programs DEF Asleep, In, SleepInv, ServeInv, GuardInv, SemInv, QueuesOK
  <2>4. Driver # next => status'[Driver] = status[Driver]
    BY <2>0, <2>1, Programs
  <2> QED BY <2>3, <2>4
<1> QED BY <1>1, <1>2, <1>3, CalmHands, FrozenSleep DEF Asleep, In, Calm

(* The signal finds the driver before its test, and takes it out of         *)
(* disk_queue.                                                              *)
LEMMA InterruptSleep ==
  ASSUME HandedOver, SleepInv, ServeInv', DiskInterrupt
  PROVE  SleepInv'
<1>1. /\ queues' = resumed /\ curr' = curr /\ UNCHANGED <<frameVars, userVars>>
      /\ request_queue' = request_queue /\ setup' = setup
  BY DEF DiskInterrupt, disk_interrupt, setupVars
<1>2. ~Retiring
  BY DEF HandedOver, DiskInterrupt, DiskMayInterrupt, Deaf, Retiring
<1>3. ~Asleep(Driver)'
  BY <1>1, ResumedMembers, Programs DEF SleepInv, ServeInv, GuardInv, SemInv, Asleep, DriverElsewhere, QueuesOK
<1>4. DriverInWindow => curr' = Driver
  BY <1>1 DEF SleepInv, SleepParts, DriverWindowHeld
<1> QED BY <1>1, <1>2, <1>3, <1>4, FrozenSleep

LEMMA StartSleep ==
  ASSUME SleepInv, ServeInv', NEW t \in Tasks, disk_mgr_init(t)
  PROVE  SleepInv'
<1>1. /\ UNCHANGED <<frameVars, userVars>> /\ curr' = curr /\ status' = status
      /\ UNCHANGED <<request_queue, signal>> /\ setup # "done"
      /\ queues' = queues \/ queue_append("ready", Driver)
  BY DEF disk_mgr_init, start_disk, start_driver, install_handler, kernelVars, coreVars, requestVars
<1>2. ~IdleHands'
  BY <1>1 DEF IdleHands, SleepInv, SleepParts, BeforeStart
<1>3. Asleep(Driver)' => Asleep(Driver)
  BY <1>1, Programs, AppendMembers DEF Asleep, In, SleepInv, ServeInv, GuardInv, SemInv
<1>4. DriverInWindow => curr' = Driver
  BY <1>1 DEF SleepInv, SleepParts, DriverWindowHeld
<1> QED BY <1>1, <1>2, <1>3, <1>4, FrozenSleep

LEMMA SleepInit == DiskInit => SleepInv
<1> SUFFICES ASSUME DiskInit PROVE SleepInv
  OBVIOUS
<1>1. ServeInv
  BY ServeInit
<1>2. /\ \A t \in Tasks : pc[t] = "user" /\ ip[t] = 1
      /\ queues[DiskQueue] = << >> /\ request_queue = << >>
  BY Programs DEF DiskInit, Booted
<1>3. \A t \in Tasks : call(t) = "down"
  BY <1>2, Programs, DriverPositions, ClientPositions DEF call, Clients
<1>4. ~Asleep(Driver)
  BY <1>2, EmptySeq DEF Asleep, In, Contains
<1>5. ~Retiring /\ ~DriverInWindow
  BY <1>3, Programs DEF Retiring, Entering, DriverInWindow, Releasing
<1>6. \A t \in Clients : t \in Tasks
  BY Programs
<1> QED BY <1>1, <1>2, <1>3, <1>4, <1>5, <1>6
        DEF SleepInv, SleepParts, DriverWindowHeld, RetiringKnows, BeforeStart, SleepsInside, ResumesOnce

LEMMA SleepNext ==
  ASSUME HandedOver, AsksAccepted, DiskInv, SleepInv, [DiskNext]_allVars
  PROVE  SleepInv'
<1>1. ServeInv'
  BY ServeNext DEF SleepInv
<1>2. ASSUME NEW t \in Tasks, Step(t), t = Driver \/ setup = "done", UNCHANGED <<diskVars, managerVars>>
      PROVE  SleepInv'
  BY <1>1, <1>2, CallSleep, KernelSleep, KernelOrCall
<1>3. ASSUME NEW t \in Tasks, DiskStep(t)
      PROVE  SleepInv'
  BY <1>1, <1>2, <1>3, StartSleep, PutSleep, WakeSleep, SleepSleep, WorkSleep DEF DiskStep
<1>4. CASE UNCHANGED allVars
  <2>1. /\ UNCHANGED <<frameVars, userVars>> /\ Calm /\ setup' = setup
        /\ curr' = curr /\ queues' = queues /\ status' = status
    BY <1>4 DEF allVars, vars, kernelVars, coreVars, diskVars, managerVars, requestVars, setupVars, Calm
  <2>2. DriverInWindow => curr' = Driver
    BY <2>1 DEF SleepInv, SleepParts, DriverWindowHeld
  <2> QED BY <1>1, <2>1, <2>2, CalmHands, FrozenSleep DEF Asleep, In, Calm
<1> QED BY <1>1, <1>3, <1>4, TickSleep, DispatchSleep, InterruptSleep DEF DiskNext

(* The driver does not sleep over a signal of the disk, nor over a request  *)
(* for an idle disk unless the client that made it is about to wake it:     *)
(* under the hand-over timing, and when the disk refuses no request.  It is *)
(* safe for a client to look at the status of the driver rather than at its *)
(* queue.                                                                   *)
THEOREM DriverHears ==
  ASSUME HandedOver, AsksAccepted
  PROVE  DiskSpec => []DriverNotDeaf
<1>1. SleepInv => DriverNotDeaf
  BY DEF SleepInv, SleepParts, SleepsInside, Asleep, In, IdleHands, WakesDriver, DriverNotDeaf
<1>2. DiskInit => DiskInv /\ SleepInv
  BY DiskInitInv, SleepInit
<1>3. DiskInv /\ SleepInv /\ [DiskNext]_allVars => DiskInv' /\ SleepInv'
  BY DiskNextInv, SleepNext
<1> QED BY <1>1, <1>2, <1>3, PTL DEF DiskSpec

-----------------------------------------------------------------------------
(* A permit that is lost.                                                   *)
(*                                                                          *)
(* When the value is not positive and nobody owns sem_disk, it stays so:    *)
(* only the owner raises the value or takes somebody out of the line, and   *)
(* only a positive value makes an owner.  A failed malloc leaves it like    *)
(* this.                                                                    *)
PermitLost == value[s_disk] <= 0 /\ \A t \in Tasks : ~OwnsDisk(t)

LEMMA StepLost ==
  ASSUME GuardInv, NEW t \in Tasks, Moves(t), value'[s_disk] <= 0, ~OwnsDisk(t)',
         \A u \in Tasks : u # t => ~OwnsDisk(u) /\ (In(s_disk, u) => In(s_disk, u)')
  PROVE  PermitLost'
<1> SUFFICES ASSUME NEW u \in Tasks, u # t PROVE ~OwnsDisk(u)'
  BY DEF PermitLost
<1>1. Same(u) /\ call(u)' = call(u)
  BY SameCall DEF Moves, Same
<1> QED BY <1>1 DEF OwnsDisk, Same

LEMMA CallLost ==
  ASSUME GuardInv, PermitLost, NEW t \in Tasks, Step(t), ~SuspendResume(t)
  PROVE  PermitLost'
<1>1. Goes(t)
  BY CallSteps
<1>2. /\ curr = t /\ Moves(t) /\ queues' = queues /\ ~OwnsDisk(t) /\ value[s_disk] <= 0
      /\ \A u : In(s_disk, u)' <=> In(s_disk, u)
      /\ call(t) # "up" \/ pc[t] \notin {"user", "up_lock", "up_load", "up_store"}
  BY <1>1 DEF Goes, PermitLost, In, OwnsDisk
<1>3. /\ sem(t) = s_disk /\ s_disk \in Sems /\ v[t] \in Int /\ value[s_disk] \in Int
      /\ \A l : Goto(t, l) => pc'[t] = l
      /\ ip' = ip => call(t)' = call(t)
  BY LabelCall, Programs, CallKept DEF Goto, GuardInv, SemInv, TypeOK, KernelTypeOK
<1>4. CASE pc'[t] = "user" /\ call(t)' = Following(call(t), t)
           /\ (call(t) \in {"down", "up"} \/ pc[t] = "sem_return") /\ value' = value
  <2>1. call(t) \in {"up", "wait", "sleep"}
    <3>1. call(t) \in {"down", "up", "wake", "check", "wait", "sleep"}
      BY <1>4, LabelCall
    <3>2. call(t) \notin {"wake", "check"}
      BY <1>2 DEF OwnsDisk
    <3>3. CASE call(t) = "down"
      <4>1. pc[t] = "sem_return" => FALSE
        BY <1>2, <3>3, RunnerReady DEF OwnsDisk
      <4>2. active[sem(t)] = 1
        BY <1>3 DEF GuardInv
      <4>3. sem_down(t) \/ down_test(t)
        BY <1>3, <1>4, <3>3, <4>1, <4>2, LabelCall
           DEF Step, sem_up, enter_call, down_lock, up_lock, lock_step, down_load, up_load, load_step,
               down_store, up_store, store_step, down_unlock, up_unlock, unlock_step, sem_return, up_test,
               up_head, sem_destroy, destroy_loop, destroy_head, At
      <4>4. CASE sem_down(t)
        BY <1>3, <1>4, <4>2, <4>4 DEF sem_down, enter_call
      <4>5. CASE down_test(t)
        <5>1. v[t] < 0
          BY <1>2, <1>3, <3>3, <4>5 DEF OwnsDisk, down_test, At
        <5> QED BY <1>3, <1>4, <4>5, <5>1 DEF down_test, must_wait, call_suspend
      <4> QED BY <4>3, <4>4, <4>5
    <3> QED BY <3>1, <3>2, <3>3
  <2>2. ~OwnsDisk(t)'
    BY <1>4, <2>1 DEF Following, OwnsDisk
  <2> QED BY <1>2, <1>4, <2>2, StepLost DEF PermitLost
<1>5. CASE ip' = ip /\ call(t) \in {"down", "up"}
  <2>1. CASE down_store(t)
    <3>1. /\ pc[t] = "down_store" /\ pc'[t] = "down_unlock"
          /\ value' = [value EXCEPT ![s_disk] = v[t] + (-1)] /\ v' = [v EXCEPT ![t] = @ + (-1)]
      BY <1>3, <2>1 DEF down_store, store_step, At
    <3>2. call(t) = "down" /\ v[t] = value[s_disk]
      BY <3>1, LabelCall DEF GuardInv, Knows
    <3>3. value'[s_disk] = value[s_disk] - 1 /\ v'[t] = value[s_disk] - 1
      BY <1>3, <3>1, <3>2 DEF GuardInv, SemInv, TypeOK
    <3>4. ~OwnsDisk(t)'
      BY <1>2, <1>3, <1>5, <3>1, <3>2, <3>3 DEF OwnsDisk
    <3> QED BY <1>2, <1>3, <3>3, <3>4, StepLost DEF PermitLost
  <2>2. CASE ~down_store(t)
    <3>1. ~(up_lock(t) \/ up_load(t) \/ up_store(t) \/ sem_up(t))
      BY <1>2, LabelCall DEF sem_up, enter_call, up_lock, lock_step, up_load, load_step, up_store, store_step, At
    <3>2. value' = value
      BY <2>2, <3>1 DEF Step, sem_down, enter_call, down_lock, lock_step, down_load, load_step,
         down_unlock, up_unlock, unlock_step, down_test, sem_return, up_test, up_head, resume_head,
         sem_destroy, destroy_loop, destroy_head, semVars
    <3>3. ~OwnsDisk(t)'
      <4>1. CASE sem_down(t) \/ down_lock(t) \/ down_load(t)
        <5>1. call(t) = "down" /\ pc'[t] \in {"user", "down_lock", "down_load", "down_store"}
          BY <1>3, <4>1, LabelCall DEF sem_down, enter_call, down_lock, lock_step, down_load, load_step, At, return
        <5> QED BY <1>3, <1>5, <5>1 DEF OwnsDisk
      <4>2. CASE down_unlock(t) \/ up_unlock(t)
        <5>1. v' = v /\ (\/ pc[t] = "down_unlock" /\ pc'[t] = "down_test"
                         \/ pc[t] = "up_unlock" /\ pc'[t] = "up_test")
          BY <1>3, <4>2 DEF down_unlock, up_unlock, unlock_step, At, userVars
        <5> QED BY <1>2, <1>3, <1>5, <5>1, LabelCall DEF OwnsDisk
      <4>3. CASE down_test(t) \/ sem_return(t)
        <5>1. CASE return(t)
          <6>1. call(t)' = Following(call(t), t)
            BY <5>1, NextCall DEF return, GuardInv, SemInv
          <6> QED BY <1>3, <1>5, <6>1 DEF Following
        <5>2. CASE call_suspend(t, s_disk, "sem_return")
          BY <1>3, <1>5, <5>2 DEF call_suspend, OwnsDisk
        <5> QED BY <1>3, <4>3, <5>1, <5>2 DEF down_test, sem_return
      <4>4. CASE up_test(t) \/ up_head(t)
        <5>1. /\ call(t) = "up" /\ pc[t] \in {"up_test", "up_head"}
          BY <4>4, LabelCall DEF up_test, up_head, At
        <5>2. v[t] > 0 /\ pc[t] = "up_test"
          BY <1>2, <1>3, <5>1 DEF OwnsDisk, GuardInv, Knows
        <5>3. return(t)
          BY <1>3, <4>4, <5>2 DEF up_test, up_head, someone_waits, At
        <5>4. call(t)' \in {"wait", "sleep"}
          BY <5>1, <5>3, NextCall DEF return, Following, GuardInv, SemInv
        <5> QED BY <5>4 DEF OwnsDisk
      <4> QED BY <2>2, <3>1, <4>1, <4>2, <4>3, <4>4, NobodyDestroysDisk DEF Step
    <3> QED BY <1>2, <3>2, <3>3, StepLost DEF PermitLost
  <2> QED BY <2>1, <2>2
<1>6. CASE pc'[t] = "user" /\ call(t)' = Following(call(t), t)
           /\ (call(t) \in {"down", "up"} \/ pc[t] = "sem_return")
  <2>1. value' = value
    BY <1>3, <1>6 DEF Step, sem_down, sem_up, enter_call, down_lock, up_lock, lock_step, down_load, up_load, load_step,
       down_store, up_store, store_step, down_unlock, up_unlock, unlock_step, down_test, sem_return, up_test,
       up_head, resume_head, sem_destroy, destroy_loop, destroy_head, semVars, userVars
  <2> QED BY <1>4, <1>6, <2>1
<1> QED BY <1>1, <1>5, <1>6 DEF Goes

LEMMA KernelLost ==
  ASSUME GuardInv, PermitLost, NEW t \in Tasks, SuspendResume(t), UNCHANGED <<semVars, userVars>>
  PROVE  PermitLost'
<1>1. /\ curr = t /\ Moves(t) /\ ip' = ip /\ call(t)' = call(t) /\ value' = value /\ v' = v
  BY CallKept, StepMoves DEF SuspendResume, suspend_remove, suspend_append, suspend_switch,
     resume_remove, resume_append, Running, Step, semVars, userVars, GuardInv
<1>2. /\ TypeOK /\ QueuesOK /\ Places(t) /\ Knows(t) /\ ~OwnsDisk(t)
      /\ \A l : Goto(t, l) => pc'[t] = l
  BY DEF GuardInv, SemInv, TypeOK, KernelTypeOK, Goto, PermitLost
<1>3. /\ pc[t] \in {"suspend_remove", "suspend_append", "suspend_switch"} =>
           call(t) \in {"down", "wait", "sleep"}
      /\ pc[t] \in {"resume_remove", "resume_append"} => call(t) = "up"
  BY <1>2, LabelCall DEF OwnsDisk
<1>4. CASE suspend_remove(t)
  <2>1. pc[t] = "suspend_remove" /\ pc'[t] = "suspend_append" /\ queue_remove("ready", t)
    BY <1>2, <1>4 DEF suspend_remove
  <2>2. \A u \in Tasks : In(s_disk, u)' <=> In(s_disk, u)
    BY <1>2, <2>1, Programs, RemoveMembers
  <2> QED BY <1>1, <1>3, <2>1, <2>2, StepLost DEF OwnsDisk, PermitLost
<1>5. CASE suspend_append(t)
  <2>1. pc[t] = "suspend_append" /\ pc'[t] = "suspend_switch" /\ queue_append(arg_queue[t], t)
    BY <1>2, <1>5 DEF suspend_append
  <2>2. arg_queue[t] = IF call(t) = "down" THEN s_disk ELSE DiskQueue
    BY <1>2, <1>3, <2>1 DEF Places, KernelLabels
  <2>3. \A u \in Tasks : In(s_disk, u) => In(s_disk, u)'
    BY <1>2, <2>1, <2>2, Programs, AppendMembers
  <2>4. call(t) = "down" => In(s_disk, t)'
    BY <1>2, <2>1, <2>2, Programs, AppendMembers DEF Knows, Nowhere, Linked, In
  <2> QED BY <1>1, <1>3, <2>1, <2>3, <2>4, StepLost DEF OwnsDisk, PermitLost
<1>6. CASE suspend_switch(t)
  <2>1. pc[t] = "suspend_switch" /\ pc'[t] = "sem_return" /\ queues' = queues
    BY <1>2, <1>6 DEF suspend_switch, Places, KernelLabels
  <2>2. \A u : In(s_disk, u)' <=> In(s_disk, u)
    BY <2>1 DEF In
  <2> QED BY <1>1, <1>2, <1>3, <2>1, <2>2, StepLost DEF OwnsDisk, PermitLost
<1>7. CASE resume_remove(t)
  BY <1>2, <1>3, <1>7 DEF resume_remove, Knows, OwnsDisk
<1>8. CASE resume_append(t)
  <2>1. pc[t] = "resume_append" /\ pc'[t] = "sem_return" /\ queue_append("ready", arg_task[t])
    BY <1>2, <1>8 DEF resume_append, Places, KernelLabels
  <2>2. arg_task[t] \in Tasks
    BY <1>3, <2>1 DEF GuardInv, SemInv, Frame
  <2>3. \A u \in Tasks : In(s_disk, u)' <=> In(s_disk, u)
    BY <1>2, <2>1, <2>2, Programs, AppendMembers
  <2> QED BY <1>1, <1>3, <2>1, <2>3, StepLost DEF OwnsDisk, PermitLost
<1> QED BY <1>4, <1>5, <1>6, <1>7, <1>8 DEF SuspendResume

(* The steps that leave the calls where they are.                           *)
LEMMA FrozenLost ==
  ASSUME PermitLost, UNCHANGED <<frameVars, semVars, userVars>>,
         \A u \in Tasks : In(s_disk, u)' <=> In(s_disk, u)
  PROVE  PermitLost'
<1>1. \A u \in Tasks : Same(u)
  BY DEF Same, frameVars, argVars, userVars
<1> QED BY <1>1, OwnsKept DEF PermitLost, semVars

(* The steps that this module adds are the owner's, but for the last of a   *)
(* client's call and of the driver's loop.                                  *)
LEMMA OwnLost ==
  ASSUME GuardInv, PermitLost, NEW t \in Tasks, sleep_in_disk_queue(t)
  PROVE  PermitLost'
<1>1. Moves(t)
  BY IsOwnStep, OwnStepInv DEF GuardInv
<1>2. /\ call(t) \in {"wait", "sleep"} /\ ip' = ip /\ queues' = queues /\ value' = value
      /\ call(t)' = call(t)
  BY CallKept DEF sleep_in_disk_queue, AtOp, coreVars, userVars, semVars
<1> QED BY <1>1, <1>2, StepLost DEF OwnsDisk, PermitLost, In

LEMMA FailureLoses ==
  ASSUME GuardInv, NEW t \in Tasks, put_malloc_fails(t)
  PROVE  PermitLost'
<1>1. Moves(t) /\ call(t)' = "down" /\ pc'[t] = "user"
  BY IsOwnStep, OwnStepInv, JumpCalls
     DEF put_malloc_fails, AtOp, At, kernelVars, frameVars, GuardInv, SemInv
<1>2. OwnsDisk(t) /\ queues' = queues /\ value' = value
  BY DEF put_malloc_fails, AtOp, OwnsDisk, kernelVars, coreVars, semVars
<1>3. value[s_disk] <= 0 /\ \A u \in Tasks : u # t => ~OwnsDisk(u)
  BY <1>2 DEF GuardInv, OneDiskOwner, OneDiskPermit
<1> QED BY <1>1, <1>2, <1>3, StepLost DEF OwnsDisk, In

LostForGood == failures > 0 => PermitLost

LEMMA LostNext ==
  ASSUME GuardInv, LostForGood, [DiskNext]_allVars
  PROVE  LostForGood'
<1>0. QueuesOK /\ s_disk \in Queues
  BY Programs DEF GuardInv, SemInv
<1>1. CASE DiskTick \/ UNCHANGED allVars
  <2>1. queues' = queues /\ failures' = failures /\ UNCHANGED <<frameVars, semVars, userVars>>
    BY <1>1 DEF DiskTick, Tick, allVars, vars, kernelVars, coreVars, managerVars
  <2> QED BY <2>1, FrozenLost DEF In, LostForGood
<1>2. CASE DiskDispatch
  <2>1. queues' = queues /\ failures' = failures /\ UNCHANGED <<frameVars, semVars, userVars>>
    BY <1>2, NobodyDue DEF DiskDispatch, Dispatch, managerVars, GuardInv
  <2> QED BY <2>1, FrozenLost DEF In, LostForGood
<1>3. CASE DiskInterrupt
  <2>1. queues' = resumed /\ failures' = failures /\ UNCHANGED <<frameVars, semVars, userVars>>
    BY <1>3 DEF DiskInterrupt, disk_interrupt
  <2>2. \A u \in Tasks : In(s_disk, u)' <=> In(s_disk, u)
    BY <1>0, <2>1, ResumedMembers, Programs DEF DriverElsewhere
  <2> QED BY <2>1, <2>2, FrozenLost DEF LostForGood
<1>4. ASSUME NEW t \in Tasks, disk_mgr_init(t) PROVE LostForGood'
  <2>1. /\ queue_append("ready", Driver) \/ queues' = queues
        /\ failures' = failures /\ UNCHANGED <<frameVars, semVars, userVars>>
    BY <1>4 DEF disk_mgr_init, start_disk, start_driver, install_handler, kernelVars, coreVars
  <2>2. \A u \in Tasks : In(s_disk, u)' <=> In(s_disk, u)
    BY <1>0, <2>1, Programs, AppendMembers DEF In
  <2> QED BY <2>1, <2>2, FrozenLost DEF LostForGood
<1>5. ASSUME NEW t \in Tasks, Step(t), failures' = failures PROVE LostForGood'
  BY <1>5, CallLost, KernelLost, KernelOrCall DEF LostForGood
<1>6. ASSUME NEW t \in Tasks, put_malloc_fails(t) PROVE LostForGood'
  BY <1>6, FailureLoses DEF LostForGood
<1>7. ASSUME NEW t \in Tasks, sleep_in_disk_queue(t) PROVE LostForGood'
  <2>1. failures' = failures
    BY <1>7 DEF sleep_in_disk_queue, managerVars
  <2> QED BY <1>7, <2>1, OwnLost DEF LostForGood
<1>8. ASSUME NEW t \in Tasks,
             put(t) \/ wake(t) \/ check(t) \/ clear(t) \/ look(t) \/ take(t) \/ issue(t)
      PROVE  LostForGood'
  <2>1. failures' = failures /\ OwnsDisk(t)
    BY <1>8 DEF put, wake, check, clear, look, take, issue, AtOp, OwnsDisk, managerVars
  <2> QED BY <2>1 DEF LostForGood, PermitLost
<1> QED BY <1>1, <1>2, <1>3, <1>4, <1>5, <1>6, <1>7, <1>8 DEF DiskNext, DiskStep, managerVars

(* A failed malloc of disk_block_op stops the disk manager: the permit of   *)
(* sem_disk is lost, and neither the driver nor any client ever comes to    *)
(* request_queue again.                                                     *)
THEOREM FailureStopsTheDisk ==
  ASSUME WindowClosed
  PROVE  DiskSpec => []FailureIsFatal
<1>1. LostForGood => FailureIsFatal
  BY DEF LostForGood, PermitLost, OwnsDisk, FailureIsFatal, AtRequests
<1>2. DiskInit => LostForGood
  BY DEF DiskInit, LostForGood
<1>3. DiskInv /\ GuardInv /\ LostForGood /\ [DiskNext]_allVars => LostForGood'
  BY LostNext
<1> QED BY <1>1, <1>2, <1>3, GuardInvariant, PTL DEF DiskSpec

-----------------------------------------------------------------------------
(* The manager carries the requests out one at a time in their order, and   *)
(* implements AbsDisk.                                                      *)

(* The state of AbsDisk: the tasks whose requests wait, oldest first, the   *)
(* one whose request is on the disk, and those that are served.             *)
Current   == IF disk_status \in D!Commands THEN buffer ELSE NULL
InBlockOp(t) == call(t) \in {"wake", "up", "wait"}
Attended  == {t \in Clients : done[t] /\ InBlockOp(t)}

View == <<Tids(Open), Current, Attended>>

(* A step that leaves the requests and the disk alone is seen only when it  *)
(* takes a client into its call or out of it.                               *)
LEMMA ViewStays ==
  ASSUME ManagerTypes, Open' = Open, done' = done,
         \/ UNCHANGED <<disk_status, buffer>>
         \/ {disk_status, disk_status'} \cap {"READ", "WRITE"} = {},
         \A t \in Clients : InBlockOp(t)' <=> InBlockOp(t)
  PROVE  UNCHANGED View
<1>1. Current' = Current
  BY DEF Current, D!Commands
<1>2. Attended' = Attended
  BY DEF Attended
<1> QED BY <1>1, <1>2 DEF View, Tids

LEMMA OthersInBlockOp ==
  ASSUME NEW t \in Tasks, Moves(t)
  PROVE  \A u \in Clients : u # t => (InBlockOp(u)' <=> InBlockOp(u))
BY SameCall, Programs DEF Moves, Same, InBlockOp

LEMMA FrozenView ==
  ASSUME ManagerTypes, ip' = ip, UNCHANGED <<diskVars, managerVars>>
  PROVE  UNCHANGED View
<1>1. \A t \in Clients : InBlockOp(t)' <=> InBlockOp(t)
  BY CallKept, Programs DEF InBlockOp
<1> QED BY <1>1, ViewStays DEF diskVars, managerVars, requestVars, Open

(* A task that is back from its wait has been served.                       *)
Leaves(t) ==
  /\ t \in Attended
  /\ UNCHANGED <<Tids(Open), Current>>
  /\ Attended' = Attended \ {t}

LEMMA CallView ==
  ASSUME ServeInv, NEW t \in Tasks, Step(t), UNCHANGED <<diskVars, managerVars>>
  PROVE  UNCHANGED View \/ (t \in Clients /\ Leaves(t))
<1>1. ManagerTypes
  BY DEF ServeInv, RequestParts
<1>2. CASE SuspendResume(t)
  BY <1>1, <1>2, KernelOrCall, FrozenView DEF SuspendResume, suspend_remove, suspend_append,
     suspend_switch, resume_remove, resume_append, userVars, KernelLabels
<1>3. CASE ~SuspendResume(t)
  <2>1. Goes(t)
    BY <1>3, CallSteps DEF ServeInv
  <2>2. pc[t] = "sem_return" => call(t) \in {"down", "up", "wake", "check", "wait", "sleep"}
    BY LabelCall DEF ServeInv
  <2>3. CASE ip' = ip
    BY <1>1, <2>3, FrozenView
  <2>4. CASE t = Driver
    <3>1. \A u \in Clients : InBlockOp(u)' <=> InBlockOp(u)
      BY <2>1, <2>4, OthersInBlockOp, Programs DEF Goes
    <3> QED BY <1>1, <3>1, ViewStays DEF diskVars, managerVars, requestVars, Open
  <2>5. CASE /\ t # Driver /\ call(t)' = Following(call(t), t)
             /\ call(t) \in {"down", "up"} \/ pc[t] = "sem_return"
    <3>1. t \in Clients /\ \A u \in Clients : u # t => (InBlockOp(u)' <=> InBlockOp(u))
      BY <2>1, <2>5, OthersInBlockOp DEF Clients, Goes
    <3>2. call(t) \in {"down", "up", "wake", "wait"}
      <4>1. call(t) \notin {"check", "sleep"}
        BY <2>5, LabelCall DEF ServeInv
      <4> QED BY <2>2, <2>5, <4>1
    <3>3. CASE call(t) # "wait"
      <4>1. InBlockOp(t)' <=> InBlockOp(t)
        BY <2>5, <3>2, <3>3 DEF Following, InBlockOp
      <4> QED BY <1>1, <3>1, <4>1, ViewStays DEF diskVars, managerVars, requestVars, Open
    <3>4. CASE call(t) = "wait"
      <4>1. InBlockOp(t) /\ ~InBlockOp(t)' /\ pc[t] = "sem_return"
        BY <2>5, <3>4 DEF Following, InBlockOp
      <4>2. done[t]
        <5>1. ~Pending(t)
          BY <3>4, <4>1 DEF Pending
        <5>2. ~Asleep(t)
          BY <2>1, <4>1, RunnerReady DEF Goes, ServeInv, Asleep
        <5> QED BY <3>1, <5>1, <5>2 DEF ServeInv, ClientParts, UndoneWaits
      <4>3. Open' = Open /\ UNCHANGED <<disk_status, buffer, done>>
        BY DEF diskVars, managerVars, requestVars, Open
      <4>4. t \in Attended /\ Attended' = Attended \ {t}
        BY <3>1, <4>1, <4>2, <4>3 DEF Attended
      <4> QED BY <3>1, <4>3, <4>4 DEF Leaves, Current, Tids
    <3> QED BY <3>3, <3>4
  <2> QED BY <2>1, <2>3, <2>4, <2>5 DEF Goes
<1> QED BY <1>2, <1>3

(* A client that makes its request.                                         *)
Joins(t) ==
  /\ t # Current /\ t \notin Attended /\ ~Asked(t)
  /\ Tids(Open)' = Append(Tids(Open), t)
  /\ UNCHANGED <<Current, Attended>>

LEMMA PutView ==
  ASSUME DiskInv, DiskInv', ServeInv, NEW t \in Tasks, put(t)
  PROVE  t \in Clients /\ Joins(t)
<1>1. /\ curr = t /\ call(t) = "put" /\ pc[t] = "user" /\ UNCHANGED <<kernelVars, diskVars>>
      /\ advance(t) /\ done' = [done EXCEPT ![t] = FALSE]
  BY DEF put, AtOp, At, Running
<1>2. t \in Clients /\ t # Driver /\ t # NULL
  BY <1>1, LabelCall, Programs DEF ServeInv
<1>3. Moves(t) /\ call(t)' = "wake"
  BY <1>1, IsOwnStep, OwnStepInv, NextCall DEF ServeInv, GuardInv, SemInv, Following
<1>4. ManagerTypes /\ OneRequestEach
  BY DEF ServeInv, RequestParts
<1>5. done[t]
  <2>1. ~Pending(t) /\ ~Asleep(t)
    BY <1>1, <1>2, SleepersLie DEF Pending, ServeInv
  <2> QED BY <1>2, <2>1 DEF ServeInv, ClientParts, UndoneWaits
<1>6. t # Current /\ ~Asked(t) /\ t \notin Attended
  BY <1>1, <1>2, <1>4, <1>5 DEF OneRequestEach, OnDisk, Current, D!Commands, Attended, InBlockOp
<1>7. Tids(Open)' = Append(Tids(Open), t)
  <2>1. PICK ask \in Asks[t] :
          LET new == [tid |-> t, op |-> ask.op, block |-> ask.block, buffer |-> ask.buffer]
          IN  new \in Requests /\ Open' = Append(Open, new)
    BY OpenPut DEF DiskInv
  <2> DEFINE new == [tid |-> t, op |-> ask.op, block |-> ask.block, buffer |-> ask.buffer]
  <2>2. new \in Requests /\ new.tid = t /\ Open' = Append(Open, new)
    BY <2>1
  <2> HIDE DEF new
  <2>3. Tids(Append(Open, new)) = Append(Tids(Open), new.tid)
    BY <1>4, <2>2, OpenTypes, TidsAppend
  <2> QED BY <2>2, <2>3 DEF Tids
<1>8. Current' = Current
  BY <1>1 DEF Current, diskVars
<1>9. Attended' = Attended
  <2>1. \A u \in Clients : u # t => (InBlockOp(u)' <=> InBlockOp(u)) /\ (done'[u] <=> done[u])
    BY <1>1, <1>3, <1>4, OthersInBlockOp DEF ManagerTypes
  <2>2. ~done'[t] /\ ~InBlockOp(t)
    BY <1>1, <1>2, <1>4 DEF ManagerTypes, InBlockOp
  <2> QED BY <2>1, <2>2 DEF Attended
<1> QED BY <1>2, <1>6, <1>7, <1>8, <1>9 DEF Joins

(* The driver gives the oldest request to the disk.                         *)
Begins ==
  /\ Current = NULL /\ Tids(Open) # << >>
  /\ Current' = Head(Tids(Open))
  /\ Tids(Open)' = Tail(Tids(Open))
  /\ UNCHANGED Attended

LEMMA IssueView ==
  ASSUME DiskInv, DiskInv', ServeInv, NEW t \in Tasks, issue(t)
  PROVE  Begins
<1>1. call(t) = "issue" /\ advance(t) /\ UNCHANGED <<kernelVars, done>>
  BY DEF issue, AtOp
<1>2. Moves(t) /\ t = Driver
  BY <1>1, IsOwnStep, OwnStepInv, LabelCall DEF ServeInv, GuardInv
<1>3. \A u \in Clients : InBlockOp(u)' <=> InBlockOp(u)
  BY <1>2, OthersInBlockOp, Programs
<1>4. /\ Len(Open) \in Nat \ {0} /\ Open[1] = request[1] /\ Open[1] \in Requests
      /\ Len(Open') = Len(Open) - 1 /\ \A i \in 1..Len(Open') : Open'[i] = Open[i+1]
      /\ Open \in Seq(Requests) /\ Open' \in Seq(Requests)
  <2>1. Open' \in Seq(Requests)
    BY ConcatProperties DEF DiskInv, ManagerTypes, Open
  <2> QED BY <1>2, <2>1, OpenIssue, OpenTypes DEF DiskInv
<1>5. Current = NULL /\ Current' = Open[1].tid
  <2>1. 1 \in 1..Len(Open)
    BY <1>4
  <2>2. request[1].block \in 0..numblocks-1 /\ request[1].buffer = request[1].tid
    BY <1>4, <2>1 DEF ServeInv, RequestParts, OpenAccepted
  <2>3. request[1].buffer # NULL /\ request[1].op \in D!Commands
    BY <1>4, <2>2, Programs DEF Requests, D!Commands
  <2>4. disk_status = "IDLE" /\ disk_status' \in D!Commands /\ buffer' = request[1].tid
    BY <1>2, <2>2, <2>3, Issued DEF DiskInv
  <2> QED BY <1>4, <2>4 DEF Current, D!Commands
<1>6. Tids(Open) # << >> /\ Head(Tids(Open)) = Open[1].tid /\ Tids(Open)' = Tail(Tids(Open))
  <2>1. Tids(Open') = Tail(Tids(Open))
    BY <1>4, TidsTail
  <2> QED BY <1>4, <2>1, TidsTail DEF Tids
<1>7. Attended' = Attended
  BY <1>1, <1>3 DEF Attended
<1> QED BY <1>5, <1>6, <1>7 DEF Begins

(* The disk carries the operation out: its client lies in disk_queue.       *)
Ends ==
  /\ Current # NULL
  /\ Attended' = Attended \cup {Current}
  /\ Current' = NULL
  /\ UNCHANGED Tids(Open)

LEMMA InterruptView ==
  ASSUME ServeInv, disk_interrupt
  PROVE  Ends
<1>1. /\ disk_status \in {"READ", "WRITE"} /\ disk_status' = "IDLE"
      /\ done' = [done EXCEPT ![buffer] = TRUE] /\ UNCHANGED userVars /\ Open' = Open
  BY DEF disk_interrupt, D!disk_sighandle, D!Commands, Open
<1>2. buffer \in Clients /\ buffer # NULL
  BY <1>1, Programs DEF ServeInv, RequestParts, OneRequestEach
<1>3. Current = buffer /\ Current' = NULL
  BY <1>1 DEF Current, D!Commands
<1>4. InBlockOp(buffer)
  <2>1. Asleep(buffer)
    BY <1>1, <1>2 DEF ServeInv, SignalMeans, OnDisk
  <2> QED BY <1>2, <2>1, SleepersLie DEF ServeInv, InBlockOp
<1>5. \A u \in Clients : InBlockOp(u)' <=> InBlockOp(u)
  BY <1>1, CallKept, Programs DEF InBlockOp, userVars
<1>6. \A u \in Clients : done'[u] <=> done[u] \/ u = buffer
  BY <1>1, <1>2 DEF ServeInv, RequestParts, ManagerTypes
<1>7. Attended' = Attended \cup {buffer}
  BY <1>2, <1>4, <1>5, <1>6 DEF Attended
<1> QED BY <1>1, <1>2, <1>3, <1>7 DEF Ends, Tids

LEMMA StepsView ==
  ASSUME DiskInv, DiskInv', ServeInv, [DiskNext]_allVars
  PROVE  \/ UNCHANGED View \/ Begins \/ Ends
         \/ \E t \in Clients : Joins(t) \/ Leaves(t)
<1>1. ManagerTypes
  BY DEF ServeInv, RequestParts
<1>2. CASE UNCHANGED allVars
  BY <1>1, <1>2, FrozenView DEF allVars, vars, userVars
<1>3. CASE DiskTick \/ DiskDispatch
  BY <1>1, <1>3, FrozenView DEF DiskTick, DiskDispatch, userVars
<1>4. CASE DiskInterrupt
  BY <1>4, InterruptView DEF DiskInterrupt
<1>5. ASSUME NEW t \in Tasks, DiskStep(t)
      PROVE  \/ UNCHANGED View \/ Begins
             \/ \E u \in Clients : Joins(u) \/ Leaves(u)
  <2>1. CASE disk_mgr_init(t)
    <3>1. /\ \/ UNCHANGED <<disk_status, buffer>>
             \/ disk_status = "UNKNOWN" /\ disk_status' = "IDLE"
          /\ Open' = Open /\ UNCHANGED <<done, ip>>
      BY <2>1 DEF disk_mgr_init, start_disk, start_driver, install_handler, D!disk_init, userVars,
                  diskVars, requestVars, Open, DiskInv, ManagerTypes
    <3>2. \A u \in Clients : InBlockOp(u)' <=> InBlockOp(u)
      BY <3>1, CallKept, Programs DEF InBlockOp
    <3> QED BY <1>1, <3>1, <3>2, ViewStays
  <2>2. CASE Step(t) /\ UNCHANGED <<diskVars, managerVars>>
    BY <2>2, CallView
  <2>3. CASE put_malloc_fails(t)
    <3>1. /\ call(t) = "put" /\ ip' = [ip EXCEPT ![t] = 1]
          /\ UNCHANGED <<diskVars, done>> /\ Open' = Open
      BY <2>3 DEF put_malloc_fails, AtOp, requestVars, Open
    <3>2. Moves(t) /\ call(t)' = "down"
      BY <2>3, <3>1, IsOwnStep, OwnStepInv, JumpCalls DEF ServeInv, GuardInv, SemInv
    <3>3. \A u \in Clients : InBlockOp(u)' <=> InBlockOp(u)
      BY <3>1, <3>2, OthersInBlockOp DEF InBlockOp
    <3> QED BY <1>1, <3>1, <3>3, ViewStays DEF diskVars
  <2>4. CASE put(t)
    BY <2>4, PutView
  <2>5. CASE wake(t)
    <3>1. call(t) = "wake" /\ UNCHANGED <<diskVars, managerVars>>
      BY <2>5 DEF wake, AtOp
    <3>2. Moves(t)
      BY <2>5, IsOwnStep, OwnStepInv DEF ServeInv, GuardInv
    <3>3. call(t)' \in {"wake", "up"}
      <4>1. ip' = ip \/ advance(t)
        BY <2>5 DEF wake, userVars
      <4> QED BY <3>1, <4>1, CallKept, NextCall DEF Following, ServeInv, GuardInv, SemInv
    <3>4. \A u \in Clients : InBlockOp(u)' <=> InBlockOp(u)
      BY <3>1, <3>2, <3>3, OthersInBlockOp DEF InBlockOp
    <3> QED BY <1>1, <3>1, <3>4, ViewStays DEF diskVars, managerVars, requestVars, Open
  <2>6. CASE sleep_in_disk_queue(t)
    BY <1>1, <2>6, FrozenView DEF sleep_in_disk_queue, userVars
  <2>7. CASE check(t) \/ clear(t) \/ look(t) \/ take(t)
    <3>0. /\ call(t) \in {"check", "clear", "look", "take"} /\ UNCHANGED <<diskVars, done>>
          /\ take(t) \/ Open' = Open
      BY <2>7 DEF check, clear, look, take, AtOp, managerVars, requestVars, Open
    <3>1. /\ call(t) \in {"check", "clear", "look", "take"} /\ UNCHANGED <<diskVars, done>>
          /\ Open' = Open
      <4>1. t = Driver
        BY <3>0, LabelCall DEF ServeInv
      <4> QED BY <3>0, <4>1, OpenTake DEF DiskInv
    <3>2. Moves(t) /\ t = Driver
      BY <2>7, <3>1, IsOwnStep, OwnStepInv, LabelCall DEF ServeInv, GuardInv
    <3>3. \A u \in Clients : InBlockOp(u)' <=> InBlockOp(u)
      BY <3>2, OthersInBlockOp, Programs
    <3> QED BY <1>1, <3>1, <3>3, ViewStays DEF diskVars
  <2>8. CASE issue(t)
    BY <2>8, IssueView
  <2> QED BY <1>5, <2>1, <2>2, <2>3, <2>4, <2>5, <2>6, <2>7, <2>8 DEF DiskStep
<1> QED BY <1>2, <1>3, <1>4, <1>5 DEF DiskNext

(* The disk manager implements AbsDisk: the requests are carried out one at *)
(* a time in the order in which they were made, and the call returns to its *)
(* task after its own request has been carried out, and only once.          *)
THEOREM DiskImplements ==
  ASSUME HandedOver, AsksAccepted
  PROVE  DiskSpec => ImplementsDisk
<1>1. DiskInit => AD!Init
  <2> SUFFICES ASSUME DiskInit PROVE AD!Init
    OBVIOUS
  <2>1. Open = << >> /\ disk_status = "UNKNOWN" /\ \A t \in Tasks : ip[t] = 1
    <3>1. request = << >> /\ request_queue = << >> /\ << >> \in Seq(Requests)
      BY EmptySeq DEF DiskInit
    <3> QED BY <3>1, ConcatEmptySeq, Programs DEF DiskInit, D!Unknown, Booted, Open
  <2>2. \A t \in Clients : call(t) = "down"
    BY <2>1, Programs, ClientPositions DEF call
  <2>3. Tids(Open) = << >> /\ Current = NULL /\ Attended = {}
    BY <2>1, <2>2 DEF Tids, Current, D!Commands, Attended, InBlockOp
  <2> QED BY <2>3 DEF AD!Init, Tids, Open, Current, Attended, InBlockOp
<1>2. DiskInv /\ ServeInv /\ [DiskNext]_allVars => [AD!Next]_(AD!vars)
  <2> SUFFICES ASSUME DiskInv, ServeInv, [DiskNext]_allVars PROVE [AD!Next]_(AD!vars)
    OBVIOUS
  <2>1. \/ UNCHANGED View \/ Begins \/ Ends
        \/ \E t \in Clients : Joins(t) \/ Leaves(t)
    BY DiskNextInv, StepsView
  <2>2. CASE UNCHANGED View
    BY <2>2 DEF View, AD!vars, Tids, Open, Current, Attended, InBlockOp
  <2>3. CASE Begins
    BY <2>3 DEF Begins, AD!Next, AD!Start, Tids, Open, Current, Attended, InBlockOp
  <2>4. CASE Ends
    BY <2>4 DEF Ends, AD!Next, AD!Complete, Tids, Open, Current, Attended, InBlockOp
  <2>5. ASSUME NEW t \in Clients, Joins(t) PROVE AD!Next
    <3>1. \A i \in DOMAIN Tids(Open) : Tids(Open)[i] # t
      BY <2>5, OpenTypes, TidsProperties DEF Joins, Asked, DiskInv
    <3>2. AD!Request(t)
      BY <2>5, <3>1 DEF Joins, AD!Request, AD!Idle, Tids, Open, Current, Attended, InBlockOp
    <3> QED BY <3>2 DEF AD!Next
  <2>6. ASSUME NEW t \in Clients, Leaves(t) PROVE AD!Next
    <3>1. AD!Return(t)
      BY <2>6 DEF Leaves, AD!Return, Tids, Open, Current, Attended, InBlockOp
    <3> QED BY <3>1 DEF AD!Next
  <2> QED BY <2>1, <2>2, <2>3, <2>4, <2>5, <2>6
<1> QED BY <1>1, <1>2, ServeInvariant, PTL DEF DiskSpec, ImplementsDisk, AD!Spec
=============================================================================
