----------------------------- MODULE DiskManager -----------------------------
(***************************************************************************)
(* The disk manager of core/ppos_disk.c over the Semaphore and the         *)
(* simulated disk: disk_block_op, which every client calls again and       *)
(* again, the driver task, and the signal handlers that end an operation.  *)
(* Both functions are Programs of Semaphore, the semaphore calls they make *)
(* in their order with the steps that this module adds in between.         *)
(***************************************************************************)
EXTENDS Semaphore

CONSTANTS Driver,      \* disk_driver_task
          s_disk,      \* disk.sem_disk
          DiskQueue,   \* disk.disk_queue
          numblocks,
          Asks,        \* Asks[t]: the requests that client t may make, [op, block, buffer]
                       \* records; the buffer is named after its client, or NULL
          Timing,      \* what interrupts what, see below
          MaxFailures  \* bound: failures of malloc

Clients == Tasks \ {Driver}

Do(op) == [op |-> op, sem |-> s_disk]

disk_driver == <<Do("down"), Do("check"), Do("clear"), Do("look"), Do("take"), Do("issue"),
                 Do("up"), Do("sleep")>>

\* Seeded bug: the request is made outside the semaphore.
disk_block_op_unguarded == <<Do("down"), Do("up"), Do("put"), Do("wake"), Do("wait")>>

disk_block_op == <<Do("down"), Do("put"), Do("wake"), Do("up"), Do("wait")>>

ASSUME DiskAssumption ==
  /\ Driver \in Tasks
  /\ Sems = {s_disk} /\ InitialValue = [s \in Sems |-> 1]
  /\ DiskQueue \notin Sems /\ WaitQueues = {s_disk, DiskQueue}
  /\ OtherCalls = {"put", "wake", "wait", "check", "clear", "look", "take", "issue", "sleep"}
  /\ Program = [t \in Tasks |-> IF t = Driver THEN disk_driver ELSE disk_block_op]
  /\ numblocks \in Nat /\ MaxFailures \in Nat
  /\ \A t \in Clients : Asks[t] \subseteq [op : {"READ", "WRITE"}, block : Int, buffer : {t, NULL}]
  /\ Timing \in {"anywhere", "one_window", "hand_over", "calls"}

VARIABLES
  disk_status, next_block, buffer, \* the simulated disk
  request_queue, \* disk.request_queue, request_t records, oldest first
  request,       \* the local request of disk_driver, as a sequence of one, or empty
  signal,        \* disk.signal
  setup,         \* how far disk_mgr_init has come
  starter,       \* the task that has called it
  failures,      \* how often malloc has failed
  done,          \* for the properties: has the client's last request been carried out?
  asked          \* for the properties: the clients whose requests the disk has still to
                 \* carry out, in the order in which they were made

D == INSTANCE SimDisk

diskVars    == <<disk_status, next_block, buffer>>
requestVars == <<request_queue, request, done, asked>>
setupVars   == <<setup, starter>>
managerVars == <<requestVars, signal, failures, setupVars>>
allVars     == <<vars, diskVars, managerVars>>

(* Before disk_mgr_init: the clients exist, the driver does not.            *)
DiskInit ==
  /\ \E order \in Orders(Clients) : Booted(order)
  /\ D!Unknown
  /\ request_queue = << >> /\ request = << >> /\ asked = << >>
  /\ signal = 0 /\ failures = 0
  /\ setup = "none" /\ starter = NULL
  /\ done = [t \in Clients |-> TRUE]

(* In disk_block_op, or in disk_mgr_init.                                   *)
InCall(t) == ip[t] # 1 \/ pc[t] # "user" \/ starter = t

AtOp(t, op) == At(t, "user") /\ call(t) = op

-----------------------------------------------------------------------------
(* disk_mgr_init, called by any client; a second call finds the disk        *)
(* initialised and changes nothing.  Its sem_init writes what DiskInit says *)
(* of sem_disk.  Its task_init makes the driver ready and does not count it *)
(* as a user task.  The handler of SIGUSR1 is installed last.               *)
start_disk(t) ==
  /\ Running(t) /\ t # Driver /\ ~InCall(t)
  /\ setup = "none"
  /\ D!disk_init
  /\ setup' = "disk" /\ starter' = t
  /\ UNCHANGED <<kernelVars, semVars, userVars, requestVars, signal, failures>>

start_driver(t) ==
  /\ Running(t) /\ starter = t
  /\ setup = "disk"
  /\ queue_append("ready", Driver)
  /\ setup' = "driver"
  /\ UNCHANGED <<curr, status, prioVars, timeVars, user_tasks_num, os, frameVars,
                 semVars, userVars, diskVars, requestVars, signal, failures, starter>>

install_handler(t) ==
  /\ Running(t) /\ starter = t
  /\ setup = "driver"
  /\ setup' = "done" /\ starter' = NULL
  /\ UNCHANGED <<kernelVars, semVars, userVars, diskVars, requestVars, signal, failures>>

disk_mgr_init(t) == start_disk(t) \/ start_driver(t) \/ install_handler(t)

-----------------------------------------------------------------------------
(* disk_block_op *)

put_malloc_fails(t) ==
  /\ AtOp(t, "put")
  /\ failures < MaxFailures
  /\ failures' = failures + 1
  /\ ip' = [ip EXCEPT ![t] = 1] \* return -1, the semaphore stays taken
  /\ UNCHANGED <<kernelVars, semVars, v, diskVars, requestVars, signal, setupVars>>

put(t) ==
  /\ AtOp(t, "put")
  /\ \E ask \in Asks[t] :
       request_queue' = Append(request_queue, [tid |-> t, op |-> ask.op, block |-> ask.block,
                                               buffer |-> ask.buffer])
  /\ done' = [done EXCEPT ![t] = FALSE]
  /\ asked' = Append(asked, t)
  /\ advance(t)
  /\ UNCHANGED <<kernelVars, semVars, diskVars, request, signal, failures, setupVars>>

\* Seeded bug: the driver is always taken to be awake.
driver_sleeps_never == FALSE

driver_sleeps == status[Driver] = "SUSPENDED"

wake(t) ==
  /\ AtOp(t, "wake")
  /\ \/ /\ driver_sleeps
        /\ call_resume(t, Driver, DiskQueue, "sem_return")
        /\ UNCHANGED userVars
     \/ /\ ~driver_sleeps
        /\ advance(t)
        /\ UNCHANGED <<frameVars, os>>
  /\ UNCHANGED <<curr, queues, status, prioVars, timeVars, user_tasks_num,
                 semVars, diskVars, managerVars>>

(* task_suspend(&disk.disk_queue), the last call of disk_block_op and of    *)
(* the driver's loop.                                                       *)
sleep_in_disk_queue(t) ==
  /\ AtOp(t, "wait") \/ AtOp(t, "sleep")
  /\ call_suspend(t, DiskQueue, "sem_return")
  /\ UNCHANGED <<coreVars, semVars, userVars, diskVars, managerVars>>

-----------------------------------------------------------------------------
(* disk_driver *)

(* Woken by a signal of the disk or by a client?  The head of disk_queue is *)
(* read whether or not there is one.                                        *)
check(t) ==
  /\ AtOp(t, "check")
  /\ \/ /\ signal = 1
        /\ call_resume(t, head_of(DiskQueue), DiskQueue, "sem_return")
        /\ UNCHANGED userVars
     \/ /\ signal = 0
        /\ ip' = [ip EXCEPT ![t] = @ + 2]
        /\ UNCHANGED <<frameVars, os, v>>
  /\ UNCHANGED <<curr, queues, status, prioVars, timeVars, user_tasks_num,
                 semVars, diskVars, managerVars>>

\* Seeded bug: the signal stays up.
clear_nothing(t) ==
  /\ AtOp(t, "clear")
  /\ advance(t)
  /\ UNCHANGED <<kernelVars, semVars, diskVars, managerVars>>

clear(t) ==
  /\ AtOp(t, "clear")
  /\ signal' = 0
  /\ advance(t)
  /\ UNCHANGED <<kernelVars, semVars, diskVars, requestVars, failures, setupVars>>

\* Seeded bug: the status of the disk is not looked at.
can_serve_busy == request_queue # << >>

can_serve == disk_status = "IDLE" /\ request_queue # << >>

\* Seeded bug: the driver takes the last request.
chosen_last == Len(request_queue)

(* First come, first served.                                                *)
chosen == 1

look(t) ==
  /\ AtOp(t, "look")
  /\ \/ can_serve /\ advance(t)
     \/ ~can_serve /\ ip' = [ip EXCEPT ![t] = @ + 3] /\ UNCHANGED v
  /\ UNCHANGED <<kernelVars, semVars, diskVars, managerVars>>

take(t) ==
  /\ AtOp(t, "take")
  /\ request' = <<request_queue[chosen]>>
  /\ request_queue' = RemoveAt(request_queue, chosen)
  /\ advance(t)
  /\ UNCHANGED <<kernelVars, semVars, diskVars, done, asked, signal, failures, setupVars>>

(* The request is freed whether or not the disk has accepted it.            *)
issue(t) ==
  /\ AtOp(t, "issue")
  /\ D!disk_cmd(request[1].op, request[1].block, request[1].buffer)
  /\ request' = << >>
  /\ advance(t)
  /\ UNCHANGED <<kernelVars, semVars, request_queue, done, asked, signal, failures, setupVars>>

-----------------------------------------------------------------------------
(* task_resume(&disk_driver_task, &disk.disk_queue), the handler of SIGUSR1, *)
(* as one step: the driver moves if it is in disk_queue or in no queue.     *)
resumed ==
  IF \E q \in Queues \ {DiskQueue} : Contains(queues[q], Driver) THEN queues
  ELSE [queues EXCEPT ![DiskQueue] = Without(@, Driver), !["ready"] = Append(@, Driver)]

(* The timer of the disk fires while some task or the dispatcher runs: the  *)
(* operation is carried out, and the handler of SIGIO raises SIGUSR1.       *)
(* Nobody sleeps here, so a signal within an iteration of the dispatcher    *)
(* only adds the driver to the tail of the ready queue, before the          *)
(* scheduler gets there or after.  That is a signal before the iteration or *)
(* after it, except that a driver that was passed over may age by one more; *)
(* no property of this module depends on an age.                            *)
disk_interrupt ==
  /\ os = "up"
  /\ D!disk_sighandle
  /\ done' = [done EXCEPT ![buffer] = TRUE]
  /\ asked' = Tail(asked)
  /\ signal' = 1
  /\ queues' = resumed
  /\ status' = [status EXCEPT ![Driver] = "READY"]
  /\ UNCHANGED <<curr, prioVars, timeVars, user_tasks_num, os, frameVars,
                 semVars, userVars, request_queue, request, failures, setupVars>>

-----------------------------------------------------------------------------
(* Timing.  The code blocks no signal: "anywhere" is the program.  The      *)
(* others are hypotheses, to see which windows the promises depend on.      *)
(*                                                                          *)
(* "one_window": while the driver is half-way through the task_suspend of   *)
(* its sem_down, out of the ready queue and not in the other queue yet, its *)
(* quantum does not end and the disk does not interrupt.                    *)
(* "hand_over": in addition the quantum does not end between the load of    *)
(* the value in sem_down and its return or the entry in the queue, nor      *)
(* from the load in sem_up to the entry in disk_queue, and the disk does    *)
(* not interrupt between the driver's test of signal and its entry there.   *)
(* "calls": the quantum ends outside the calls only, the disk interrupts    *)
(* anywhere.                                                                *)
HalfBlocked == call(Driver) = "down" /\ pc[Driver] = "suspend_append"

Entering(t, ops) ==
  /\ call(t) \in ops
  /\ \/ pc[t] \in {"down_store", "down_unlock", "down_test", "suspend_remove", "suspend_append"}
     \/ pc[t] = "user" /\ call(t) \in {"wait", "sleep"}

Releasing(t) == call(t) = "up" /\ pc[t] # "user" /\ pc[t] # "up_lock"

Deaf == call(Driver) \in {"clear", "look", "take", "issue", "up"} \/ Entering(Driver, {"sleep"})

QuantumMayEnd(t) ==
  CASE Timing = "anywhere" -> TRUE
    [] Timing = "one_window" -> t = Driver => ~HalfBlocked
    [] Timing = "hand_over" -> ~Releasing(t) /\ ~Entering(t, {"down", "wait", "sleep"})
    [] Timing = "calls" -> ~InCall(t)

DiskMayInterrupt ==
  CASE Timing \in {"anywhere", "calls"} -> TRUE
    [] Timing = "one_window" -> ~HalfBlocked
    [] Timing = "hand_over" -> ~HalfBlocked /\ ~Deaf

DiskTick ==
  /\ Tick
  /\ curr' # curr => QuantumMayEnd(curr)
  /\ UNCHANGED <<semVars, userVars, diskVars, managerVars>>

DiskDispatch == Dispatch /\ UNCHANGED <<semVars, userVars, diskVars, managerVars>>

DiskInterrupt == DiskMayInterrupt /\ disk_interrupt

(* Nobody asks for a block before disk_mgr_init has returned; the driver    *)
(* runs as soon as it is ready.                                             *)
DiskStep(t) ==
  \/ disk_mgr_init(t)
  \/ /\ Step(t) /\ (t = Driver \/ setup = "done")
     /\ UNCHANGED <<diskVars, managerVars>>
  \/ put_malloc_fails(t) \/ put(t) \/ wake(t) \/ sleep_in_disk_queue(t)
  \/ check(t) \/ clear(t) \/ look(t) \/ take(t) \/ issue(t)

DiskNext == DiskTick \/ DiskDispatch \/ DiskInterrupt \/ \E t \in Tasks : DiskStep(t)

DiskSpec == DiskInit /\ [][DiskNext]_allVars

(* As in module MQueue; and an operation that the disk has accepted ends.   *)
DiskFairness ==
  /\ SF_allVars(DiskTick)
  /\ WF_allVars(DiskDispatch)
  /\ SF_allVars(DiskInterrupt)
  /\ \A t \in Tasks : SF_allVars((t = Driver \/ InCall(t)) /\ DiskStep(t))

DiskFairSpec == DiskSpec /\ DiskFairness

-----------------------------------------------------------------------------
(* Properties *)

Requests == [tid : Clients, op : {"READ", "WRITE"}, block : Int, buffer : Clients \cup {NULL}]

(* The types of the manager's state: among them, a pending operation always *)
(* has the buffer of a client.                                              *)
DiskTypeOK ==
  /\ TypeOK
  /\ disk_status \in {"UNKNOWN", "IDLE", "READ", "WRITE"}
  /\ next_block \in Int /\ buffer \in Clients \cup {NULL}
  /\ disk_status \in D!Commands => buffer \in Clients
  /\ request_queue \in Seq(Requests) /\ request \in Seq(Requests) /\ Len(request) <= 1
  /\ signal \in {0, 1} /\ failures \in 0..MaxFailures
  /\ setup \in {"none", "disk", "driver", "done"} /\ starter \in Clients \cup {NULL}
  /\ done \in [Clients -> BOOLEAN] /\ asked \in Seq(Clients)

(* One task at a time is at the steps that use request_queue: it rests on   *)
(* sem_disk, which the resume of the driver by a signal must not bypass.    *)
AtRequests(t) == pc[t] = "user" /\ call(t) \in {"put", "wake", "check", "clear", "look", "take", "issue"}

RequestsGuarded == \A t, u \in Tasks : AtRequests(t) /\ AtRequests(u) => t = u

(* A failure of malloc is fatal: disk_block_op returns with sem_disk taken, *)
(* and neither the driver nor any client ever gets to request_queue again.  *)
FailureIsFatal == failures > 0 => \A t \in Tasks : ~AtRequests(t)

(* No request is lost, made twice or overtaken on its way to the disk: what *)
(* the disk has still to carry out is, in the order in which it was asked   *)
(* for, the operation that is on the disk, the request in the hands of the  *)
(* driver and those in request_queue.                                       *)
Tids(requests) == [i \in DOMAIN requests |-> requests[i].tid]

OnTheDisk == IF disk_status \in D!Commands THEN <<buffer>> ELSE << >>

RequestsInOrder == asked = OnTheDisk \o Tids(request \o request_queue)

(* A driver that sleeps has nothing to do: it has seen the last signal of   *)
(* the disk, and no request waits for an idle disk, unless the task that    *)
(* made it is about to wake the driver.                                     *)
DriverNotDeaf ==
  Contains(queues[DiskQueue], Driver) =>
    /\ signal = 0
    /\ disk_status = "IDLE" /\ request_queue # << >> =>
         \E t \in Clients : call(t) = "wake" /\ pc[t] \in {"user", "resume_remove"}

(* The call of a client returns after its own operation has been carried   *)
(* out, and not after that of somebody else.                                *)
ReturnsServed == \A t \in Clients : ~InCall(t) => done[t]

(* Requests are carried out one at a time, first come first served: the     *)
(* manager implements AbsDisk.  A client has been served, and has not       *)
(* returned, from the end of its operation to the end of its disk_block_op. *)
AD == INSTANCE AbsDisk
        WITH Nobody  <- NULL,
             waiting <- Tids(request \o request_queue),
             serving <- IF disk_status \in D!Commands THEN buffer ELSE NULL,
             served  <- {t \in Clients : done[t] /\ call(t) \in {"wake", "up", "wait"}}

ImplementsDisk == AD!Spec

(* Every call of disk_block_op returns: no request, completion or wake-up   *)
(* is lost, and a resume of NULL, which stops the system, never happens.    *)
(* A failure of malloc excepted: it leaves the semaphore taken, for good.   *)
RequestsReturn == \A t \in Clients : InCall(t) ~> ~InCall(t) \/ failures > 0
=============================================================================
