# PingPongOS in TLA+

PingPongOS is a teaching operating system that lives in one Linux process:
`ucontext` coroutines are its tasks, a `SIGALRM` timer is its clock, a dispatcher
task with an ageing scheduler shares out the processor, and `core/ppos_core.c`
offers sleeping, waiting, semaphores, message queues and a disk manager on top.
Nothing in the code blocks the timer signal, so **every kernel call can be cut
between two accesses to shared state**. This project says which promises survive that, which hold
only under a stated condition, and which are broken, with the shortest run that
breaks them.

Paths below are relative to `src/`.

## 1. Inventory

| component | code | state it keeps | operations |
|---|---|---|---|
| generic queue | `core/queue.c` | `prev`, `next` of each element, head pointers | `queue_append`, `queue_remove`, `queue_size` |
| timer, dispatcher, scheduler | `core/ppos_core.c` 106-116, 224-349, 417-434, 518-557 | `curr`, `sysclock`, ready / suspended / sleeping queues, `status`, priorities, `quantum`, `wake_up_time` | `interruption_handler`, `wake_tasks`, `scheduler`, `dispatcher`, `task_switch`, `task_suspend`, `task_resume` |
| task life cycle | `core/ppos_core.c` 351-498, 559-581 | `last_task_id`, `user_tasks_num`, `id`, `waiting_task`, `exit_code` | `task_init`, `task_exit`, `task_wait`, `task_sleep`, `task_yield`, `task_setprio` |
| semaphores | `core/ppos_core.c` 72-84, 583-660 | `value`, `lock`, `active`, a queue of tasks | `sem_init`, `sem_down`, `sem_up`, `sem_destroy`, `enter_cs`, `leave_cs` |
| message queues | `core/ppos_core.c` 662-797 | the buffer, `active`, three semaphores | `mqueue_init`, `mqueue_send`, `mqueue_recv`, `mqueue_destroy` |
| disk manager | `core/ppos_disk.c` | `request_queue`, `disk_queue`, `signal`, the driver task | `disk_mgr_init`, `disk_driver`, `disk_block_op`, the `SIGUSR1` handler |
| simulated disk | `core/disk/disk.c` | `status`, pending block and buffer | `disk_cmd`, its timer handler |
| coordination exercises | `coordination/*.c` | POSIX semaphores and counters | a barrier, two bathrooms, three robots |

How they interact. Every service is a set of functions called by the running
task; they share the global queues and the task descriptors, and they give the
processor away only through `task_switch(&dispatcher_task)`: in `task_yield`
(called by the timer handler too), at the end of `task_suspend` and at the end of
`task_exit`. The dispatcher moves due sleepers to the ready queue, picks a task and
switches to it. A semaphore call updates its value under a spin lock and blocks or
wakes through `task_suspend` and `task_resume`; a message queue is a program over
three semaphores; the disk driver is a task that is resumed from a signal handler.

What is hard, and what makes each component correct:

- **queue.c**: any sequence of calls, refused ones included, keeps the rings doubly
  linked and disjoint and behaves as FIFO queues with the documented error codes.
  All the other components rely on the refusals.
- **kernel**: a task is in one queue at most; the running one is in the ready queue
  unless it is leaving; a task in the system is never out of everybody's hands; a
  ready task is chosen after a bounded number of turns; a task that has exited never
  returns; sleepers sleep as long as they asked and wake up.
- **tasks**: `task_wait` returns after the exit and then does return; ids are unique;
  the system ends when, and only when, the last task has exited. Difficult because the
  test, the registration and the suspension of a waiter are separate steps, and
  `task_exit` walks a queue that changes under it.
- **semaphores**: as many tasks inside as there are permits, no lost wake-up, first
  come first served, nobody left behind by `sem_destroy`. Difficult because the
  decision to wait, or to wake, is taken under the lock and carried out after it.
- **message queues**: slots and messages are neither lost nor invented, the buffer has
  one user at a time, every call returns, also when the queue is destroyed under it.
- **disk manager**: requests reach the disk one at a time in the order in which they were
  made, each client returns after its own operation, and every call returns. Difficult
  because clients and driver sleep in one queue, `disk_queue`, and are woken by position;
  because a signal handler resumes the driver wherever it is; and because both sleep after
  they have given up the semaphore.
- **simulated disk**: one operation at a time; what it refuses leaves no trace.
- **barrier and the other exercises**: nobody leaves a round before everybody has come,
  also over several rounds; the count of the bathroom is exact; the robots speak in turn.

`PROJECT.json` lists every hazard at its line, with the properties that catch it or
the reason why none does yet.

## 2. Modules

```
QueueFIFO <--implements-- Queue <-- WakeTasks <-- MCQueue
                                <-- QueueProofs
Kernel <-- Tasks <-- MCTasks, TasksProofs
       <-- Semaphore <-- MCSemaphore, SemaphoreProofs <-- HandOverProofs, DiskProofs
                     <-- MQueue <-- MCMQueue, MQueueProofs
                     <-- DiskManager <-- MCDiskManager, DiskProofs      (DiskManager uses SimDisk)
       <-- KernelProofs <-- TasksProofs, SemaphoreProofs
HandOverProofs <-- MQueueProofs
AbsSemaphore <--implements-- Semaphore
AbsMailbox   <--implements-- MQueue
AbsDisk      <--implements-- DiskManager
Barrier, Bathrooms, Robots <-- Coordination <-- CoordinationProofs
```

**Queue** models `queue.c` on the pointers themselves: `next`, `prev` and the heads,
one action per call, with the value it returns. `QueueFIFO` is what `queue.h` promises
to callers: sequences, with the error codes. The refinement reads the sequence off the
`next` links.

**WakeTasks** runs the loop of `wake_tasks` on these links, after any sequence of calls: `aux`
and `aux_next`, the link that is read before the element leaves the list, the last sleeper apart,
the two calls of `task_resume` as the two actions of `Queue`. Which sleepers are due is any set.
`WakesTheDue` says that its result is what `Kernel` takes it to be.

**Kernel** is the part every service is built on. State: the globals of `ppos_core.c`
and the fields of `task_t` under their own names; `queues[q]` is the contents of a task
queue, head first (the abstraction that `Queue` justifies); `pc[t]` is the point of the
code where a task is or resumes; `back`, `arg_task`, `arg_queue` are the stack frame of a
`task_suspend` or `task_resume` under way. `Tick` is one `SIGALRM` with the whole handler,
`Dispatch` one iteration of the dispatcher's loop with `scheduler` and the result of `wake_tasks`,
`Shutdown` the end of that loop. `task_suspend` is three steps (out of the ready queue,
into the other, away), `task_resume` two. Priorities are `short`s: `task_setprio` cuts any `int` down
to one, and ageing wraps.

**Tasks** adds the life cycle, one action per access to shared state. `user_tasks_num++`,
`user_tasks_num--` and `++last_task_id` are a load and a store; `task_exit` walks
`suspended_tasks` with `aux` and `next` as the code does, including the null dereference
when the queue empties under it, and reads `aux->next` and `aux->waiting_task` in two steps; the
status and the exit code of the task are two steps as well. `due` is a history variable for the sleep properties.

**Semaphore** adds `sem_down`, `sem_up` and `sem_destroy`. Every task runs a `Program`, a
sequence of calls, over and over. Lock, load, store, unlock, test and block or wake are
separate steps; the second read of `s->queue` in `sem_up` (line 638) is a step of its own.
`sem_init` is the initial state. It does not write `lock`; that this is 0 is an assumption on the
memory of the semaphore, true of those of the repository, which are all static.
`AbsSemaphore` is the promise: a FIFO semaphore where a release with somebody in line
promises the permit to the line, out of reach of newcomers.

**MQueue** makes each of the three calls a `Program` over `s_vaga`, `s_buffer` and `s_item`
(the semaphore calls in the order of the source) and adds the steps in between: the first
test of `active`, the second, which is a step apart from the use of the buffer (the task can lose the
processor in between, while it holds `s_buffer`), the failing `malloc`, put, take, and what `mqueue_destroy` does after it
has destroyed the semaphores. A take from an empty buffer reads through a null head and
ends in `segmentation_fault`. `AbsMailbox` is the promise: messages are received in the order
in which they were sent, each once, never more of them than slots; a call moves one message before it
returns; a call that finds no memory jams the queue.

**SimDisk** is `disk.c`: a status with one pending operation, accepted by `disk_cmd` and
carried out by the handler of the disk's timer. It refuses a command while it is busy, a command
without a buffer, and a block that does not exist. The timer is armed exactly while the status
is READ or WRITE, so "the timer fires" is `disk_sighandle`, enabled in these states. How long
an access takes, and the bytes, are abstracted.

**DiskManager** makes `disk_driver` and `disk_block_op` programs over the semaphore
`sem_disk` and adds the steps between the semaphore calls: put (or a `malloc` that fails), wake the
driver, sleep in `disk_queue`; look at `signal` and resume the head of the queue, clear
`signal`, look at the status of the disk and the queue, take a request out, issue it. The last three
are steps of their own, and the request is freed whatever the disk answers. The driver reads the head of `disk_queue` whether or not there is one: a
`task_resume` of NULL ends the process, as in `sem_up`. `disk_interrupt` is the disk's timer,
the operation, and the handler of `SIGUSR1` in one step, at any point of whatever runs.
`disk_mgr_init` is three actions of whichever task calls it: the disk, the driver, the signal handler;
the others use the disk after it has returned. Two history variables: `done`, has the client's last
request been carried out, and `asked`, the clients whose requests the disk has still to carry out, in
the order of their calls. `AbsDisk` is the promise: a line of requests, one on
the disk, and a set of clients that have been served and not returned.

**Barrier**, **Bathrooms** and **Robots** are the three POSIX programs, one step per access to
shared state. `paced` says whether the sleeps of `threadBody` keep consecutive rounds of the
barrier apart, as they do with the numbers of the source (3i + 1 and 5 seconds). The two
bathroom functions are one text with the roles exchanged, except for the letter `'h'` that
`use_bath_w` compares with and nobody writes.

### Where the quantum may end

The constant `Preemptible` is the set of labels at which the timer may preempt the
running task. The program as written is `Anywhere`: all of them. The others are
hypotheses on the timing, and each run names the one it uses:

- `OutsideWindows` (tasks): anywhere, inside every call too, but in three windows: the updates of
  `user_tasks_num`; while the running task is out of the ready queue; and the calls of `task_wait`
  from the test to the queue and of `task_exit` from the marking of the task to the end of the walk.
- `OutsideCalls` (semaphores): never inside a call, as if calls were shorter than a tick and the
  timer were armed at their end. Blocking still interleaves the tasks. It is what the code
  would satisfy if the calls masked the signal.
- `HandOver` (semaphores): anywhere, inside the spin lock too, so that others spin on it, but in two
  windows: from the store of the value in `sem_down` to the entry in the queue, and from the choice of
  the task to wake in `sem_up` to its removal. A label does not depend on the value, so a `sem_down` that
  does not wait is not cut at its `leave_cs` and its test either. `HandOver` isolates which steps
  have to be protected.
- `StaleWaker` (semaphores): only inside these windows, to keep a counterexample short.
- `Between` (message queues): with `TRUE` the quantum may also end between two steps of
  one call, with `FALSE` only blocking interrupts a call.

For the disk manager `Preemptible` is `Anywhere` and the constant `Timing` restricts the quantum
and the disk's interrupt:

- `"anywhere"`: nothing; the program as written.
- `"one_window"`: neither may come while the driver is between the removal and the append of
  the `task_suspend` of its `sem_down`. In these two instructions it is in no queue, a resume
  (by the handler or by line 195) makes it ready, its append is then refused, and it enters
  the section without the permit.
- `"hand_over"`: in addition the quantum does not end between the load of the value in `sem_down` and
  its return or the entry in the queue, nor between the load in `sem_up` and the entry in
  `disk_queue`; and the disk does not interrupt between the driver's test of `signal` and its
  entry there. This is what masking the signals around the two hand-overs would give.
- `"calls"`: the quantum ends outside the calls only, the disk interrupts anywhere.

Two things are one step in every environment: an iteration of the dispatcher, whose
quantum starts at -`INT_MAX` so that the timer's handler never preempts it, and the hand-over of
`task_switch` (`curr` and `swapcontext`). Within the second a tick would be charged to the
wrong task; that window is not modelled. A `SIGUSR1` in the middle of an iteration of the dispatcher
only adds the driver to the tail of the ready queue, before the scheduler gets there or after; it is
one before or after the iteration, except that a driver that was passed over may age by one more, and
no property of the disk depends on an age. A call of `queue.c` is one step as well; a call
that is interrupted half-way is a hazard on the list and the plan has it.

## 3. Runs

Ten runs pass and two exhibit a disagreement between the code and what its comments or
headers say. State counts are TLC's distinct states.

| run | instance | what it shows |
|---|---|---|
| `queue` | 4 elements, 2 queues, any set of due sleepers (59 k) | rings well formed and disjoint after every sequence of calls, valid or not; implements `QueueFIFO`, return codes included; the loop of `wake_tasks` moves the due sleepers and nobody else, in their order |
| `tasks_anywhere` | 3 tasks, `Anywhere` (400 k) | what survives any preemption, with one task that creates the others: one queue per task, the running task stays ready, no wait returns before the exit, an exited task never comes back |
| `tasks_calls` | 3 tasks, `OutsideWindows`, clock of 3 ticks, quantum of 2, fair (109 k) | no waiter lost, nobody stranded, bounded ageing, no early wake, waiters and sleepers return, the system shuts down when and only when it should |
| `sem_anywhere` | 3 tasks on a mutex that one of them destroys, `Anywhere` (375 k) | the lock covers the value and nobody blocks inside it; one task inside the section, calls on other semaphores included (that no task is linked twice is proved, section 4) |
| `sem_hand_over` | 4 tasks, 2 permits, `HandOver` (1.2 million up to symmetry) | permits respected, no lost wake-up, no null resume, implements `AbsSemaphore`, with the spin lock contended |
| `mqueue_hand_over` | 2 senders, 1 receiver, 2 slots, failing `malloc`s, `HandOver` (1.3 million up to symmetry) | every slot accounted for in every state, one task at the buffer, implements `AbsMailbox` |
| `mqueue_calls` | sender, 2 receivers, a destroyer, 1 slot, fair (28 k) | every call returns, `sem_destroy` leaves nobody blocked |
| `disk_preempted` | driver and 2 clients, `"one_window"`, one failing `malloc` (1.7 million up to symmetry) | though a handler resumes the driver anywhere: one task at a time at the requests, and none after a failed `malloc`; no request is lost, made twice or overtaken on its way to the disk |
| `disk_hand_over` | driver and 2 clients, `"hand_over"`, one failing `malloc`, fair (80 k) | each client returns after its own operation, requests are served in order one at a time (implements `AbsDisk`), the driver does not sleep while there is something to do, every call returns |
| `coordination` | 4 threads, 3 rounds, paced or not; 2 men and 2 women, 2 places; the 3 robots (2.2 million) | nobody leaves a round early, posts match waiters, the count is exact, the robots speak in turn |
| `mqueue_destroyed` | 3 tasks, a destroyer, `Between` | violation of `NoNullMessage` |
| `disk_wrong_client` | driver and 2 clients, one asks for a block that does not exist or gives no buffer, `"calls"` | violation of `ReturnsServed` |

### Findings

1. **A message queue is closed last** (`mqueue_destroyed`). `mqueue_destroy` releases the
   blocked receivers before it lowers `active`; the test of line 743, written for this case,
   finds the queue active, and line 756 reads `queue->buffer->msg` of an empty buffer.
2. **The disk wakes the wrong client** (`disk_wrong_client`). A client whose block does not
   exist has its request dropped (lines 89 and 97 of `core/ppos_disk.c`) and stays at the head of
   `disk_queue`. When the next operation completes, line 65 wakes that client; its call returns 0
   with nothing transferred, and the client that was served sleeps on.

The following configurations are kept beside the runs. Each ends with a counterexample, for the
same kind of cause; `NoLostWaiter` and the like are the properties that the passing runs check
under a milder timing.

| configuration (module) | violated | what happens |
|---|---|---|
| `TasksLostWaiter.cfg` (`MCTasks`) | `NoLostWaiter` | `task_wait` tests the status at line 561 and is in `suspended_tasks` only after line 569; the awaited task exits in between and finds nobody to resume |
| `TasksCount.cfg` (`MCTasks`) | `NoEarlyShutdown` | `user_tasks_num++` is a load and a store; an update is lost and the dispatcher ends the process while tasks are ready |
| `TasksTwins.cfg` (`MCTasks`) | `WaitReturnsExitCode` | `++last_task_id` is a load and a store: two tasks that create others give two of them one id, and the exit of the one ends the wait for the other (52 steps) |
| `TasksClockWrap.cfg` (`MCTasks`) | `NoEarlyWake` | a sleep that crosses the wrap of the unsigned clock (49.7 days; 2^32 is scaled down to 4) ends at once |
| `SemCrossed.cfg` (`MCSemaphore`) | `PermitsRespected` | two `sem_up` calls pick the same task; the late one makes it ready while it is between the removal and the append of `task_suspend` for *another* semaphore, which it passes without a permit (100 steps) |
| `DiskUnguarded.cfg` (`MCDiskManager`) | `RequestsGuarded` | as written (`"anywhere"`): the driver is resumed half-way into the queue of `sem_disk` and uses the requests together with a client |
| `DiskDeaf.cfg` (`MCDiskManager`) | `DriverNotDeaf` | the disk interrupts between the driver's test of `signal` and its sleep: the handler's resume is without effect, and the client waits until somebody else makes a request |
| `BathroomsMixed.cfg` (`Coordination`) | `Apart` | `ocpp` is tested outside its semaphore, and with the wrong letter by the women: men and women are inside together |

Changing `Preemptible` to `Anywhere` in the passing configurations shows further losses,
with the same causes: `NoTaskStranded` (a preemption between lines 529 and 531 strands the
task) in `TasksCalls.cfg`, `NoLostWakeup` and `NoNullResume` in
`SemHandOver.cfg`, and, with `Between = TRUE`, `DestroyReleases` in `MQueueCalls.cfg`, for a task that
has passed the test of `active` and has not blocked yet. The hazards of `PROJECT.json` whose window no
passing run opens say so, and name the configuration that shows the loss and the theorem that covers
everything else.

### Bounds, and why they are enough

- *Tasks*: three or four. Every hazard on the list involves at most two actors and a
  bystander; `SemCrossed.cfg` needs four (two stale wakers, the victim, the holder).
- *Clock*: with `CLOCK_MOD = 1` and `MaxClock = 1` the clock stands still while ticks go on
  without limit, which is right where nobody sleeps, and in `tasks_anywhere`, where sleepers
  are due at the next iteration of the dispatcher. `tasks_calls`, the run about time, lets the
  clock run to 3 with sleeps of one tick (`MaxClock` also bounds the calls of `task_sleep`).
- *Quantum*: with `QUANTUM_LIMIT = 1` (10 in the code) every tick may preempt, which gives the
  most interleavings; `tasks_calls` uses 2 so that a tick may also pass without a preemption.
- *Priorities*: `task_setprio` is called with 65535, which the `short` of the task makes -1: two
  levels, and ageing across them. Elsewhere all are equal and ageing alone decides.
- *Sleepers*: four elements are enough for the first, a middle, the last but one and the last of the
  list, each due or not.
- *Requests*: two clients that ask for the one block of the disk. Clients differ in nothing but
  the block, and a third client adds no new kind of overtaking: `disk_hand_over` without its
  liveness was checked with three as well (4.6 million states). `MaxFailures` as below.
- *Rounds*: three for each thread, so that the posts of one round can meet the waiters of the
  next two; the proofs need no bound. `MaxValue` stops the values of `men_s` and `woman_s`, which
  double posts would let grow for ever.
- *Messages*: named by their senders; contents, sizes and addresses make no difference to a
  property. `max_msgs` 1 and 2; `MaxFailures` bounds how often `malloc` fails: 2 in `mqueue_hand_over`, where
  the second failure never comes (the first one jams the queue, as `ImplementsMailbox` says). The proofs need
  no bound on tasks or slots.
- *Symmetry*: only in runs of safety properties (and a refinement without fairness) where the
  permuted tasks have the same program or role.

The type invariants of the modules other than `Queue`, `OneQueue` of the semaphores and of the disk
manager, and `MessagesAnnounced` hold in the same instances. They are proved (section 4), so no run
spends its time on them; `NoNullMessage` follows from `ImplementsMailbox` where that holds.

`CHECK_DEADLOCK FALSE` appears where the system may stop: all tasks blocked or exited,
the clock at its bound, a mutex destroyed.

### Fairness

The timer fires for ever and the dispatcher keeps looping, so `Tick` and `Dispatch` are
weakly fair (`Tick` strongly in `MQueue`, because a tick that finds the task where its quantum
may not end is pending, not disabled). A task is *strongly* fair: it is enabled only while it
runs, but each dispatch gives it a fresh quantum of ten ticks, far longer than a step. No
fairness is assumed on who is scheduled: that a task runs again follows from the ageing
scheduler (`SleepersReturn` fails without it). Nobody has to call `mqueue_destroy`, but who has
called it goes on. The disk manager adds that an accepted operation ends (`disk_settimer` arms the
timer) and that a client in a call, and the driver always, goes on when dispatched; nobody has to
ask for a block. Liveness is claimed for tasks with the timing `OutsideWindows`, for calls of message queues
that only blocking interrupts, and for the `"hand_over"` timing of the disk: under `Anywhere` a task that
is preempted inside a spin lock makes the others spin, and the lost wake-ups above are real.

## 4. Proofs

TLC checks the instances above; TLAPS proves the following for every number of tasks,
elements, queues, semaphores, permits and slots. A hypothesis is part of the theorem;
where the table names none, the theorem covers the code as written, with `Preemptible`
and the programs arbitrary.

| module | theorem | statement |
|---|---|---|
| `QueueProofs` | `TypeCorrect`, `ListsWellFormed`, `QueuesDisjoint` | `[]TypeOK`, `[]DoublyLinked`, `[]Disjoint` |
| | `ListsAreFIFO` | `ImplementsFIFO`: `Queue` implements `QueueFIFO` |
| `TasksProofs` | `TypeCorrect`, `TasksInOneQueue`, `RunningStaysReady` | `[]TypeOK`, `[]OneQueue`, `[]RunningIsReady` |
| | `AgeingBounded`, `NoUnderflow` | under `WithinShort`: `[]AgeBound`; no decrement of a dynamic priority underflows |
| | `LifeInvariant`, `WaitersGetExitCode`, `ExitedTasksStayOut`, `IdsAreUnique` | under `SerialCreation`: `[]WaitReturnsExitCode`, `[]ExitedStaysOut`, `[]UniqueIds` |
| | `NobodyStranded` | if the quantum does not end in `LeavingLabels`: `[]NoTaskStranded` |
| | `NeverEndsEarly` | under `SerialCreation`, and if it does not end in `CountLabels`: `[]NoEarlyShutdown` |
| | `NobodyLeftWaiting` | under `SerialCreation`, and if it does not end in `AlertLabels`: `[]NoLostWaiter` |
| | `SleepersSleepOn` | under `SerialCreation`, and if the clock does not wrap: `NoEarlyWake` |
| `SemaphoreProofs` | `TypeCorrect`, `TasksInOneQueue`, `LockCoversValue` | `[]TypeOK`, `[]OneQueue`, `[]LockCovers` |
| | `DestroyReleasesAll` | if the quantum does not end in `EnterLabels`: `[]DestroyReleases` |
| | `HoldersKeepRunning` | `[]LockHolderRuns` |
| | `MutexInvariant`, `MutexExcludes`, `MutexNeverResumesNull` | if every semaphore is used as a mutex: `[]MutualExclusion`, `[]NoNullResume` |
| `HandOverProofs` | `CountInvariant`, `NoWakeupLost`, `NeverResumesNull` | under `HandedOver`: `[]NoLostWakeup`, `[]NoNullResume` |
| | `PermitsAreRespected`, `SemaphoreImplements` | with bracketed programs and `Preemptible` within `HandOver`: `[]PermitsRespected`, `ImplementsSemaphore` |
| `MQueueProofs` | `MQSemInvariant` | the invariant of the semaphores below, for any roles and any preemption |
| | `QueueDestroyReleases` | if the quantum does not end in `EnterLabels`: `[]DestroyReleases` |
| | `AccountsInvariant`, `NeverReadsEmpty`, `QueueBounded`, `BufferExclusive`, `SlotsAreConserved`, `MessagesAreAnnounced` | nobody calls `mqueue_destroy` and `Preemptible` is within `HandOver`: `[]NoNullMessage`, `[]MQTypeOK`, `[]BufferGuarded`, `[]SlotsConserved`, `[]MessagesAnnounced` |
| | `MailboxImplements` | under the same hypotheses: `ImplementsMailbox` |
| `DiskProofs` | `DiskTypeCorrect`, `DiskTasksInOneQueue` | `[]DiskTypeOK`, `[]OneQueue` of the disk manager, for any `Timing` |
| | `RequestsKeptInOrder` | under `AsksAccepted`, for any `Timing`: `[]RequestsInOrder` |
| | `GuardInvariant`, `RequestsAreGuarded`, `FailureStopsTheDisk` | under `WindowClosed`: `[]RequestsGuarded`, `[]FailureIsFatal` |
| | `ServeInvariant`, `EveryoneIsServed`, `DriverHears`, `DiskImplements` | under `HandedOver` and `AsksAccepted` of this module: `[]ReturnsServed`, `[]DriverNotDeaf`, `ImplementsDisk` |
| `CoordinationProofs` | `PostsMatch`, `BarrierHolds` | `[]PostsMatchWaiters` at any pace; `[]NobodyLeavesEarly` with the sleeps |
| | `BathroomCount` | `[]CountExact` of the bathrooms |
| | `RobotsInTurn` | `[]SpokenInTurn` of the robots |
| | `ApartFromEachOther`, `ExercisesHold` | the composition that TLC runs has the behaviours of each exercise, so all of the above hold of it |

The hypotheses:

- `SerialCreation`: one task creates all the others and is preempted anywhere, or several do and the
  quantum does not end between the load of `last_task_id` and the reading of the new id. The code
  needs it: `++last_task_id` is a load and a store, two creators that interleave give two tasks
  the same id, and from there TLC reaches a `task_wait` that returns before the exit of its task
  (`TasksTwins.cfg`); in `tests/` and in the
  runs `main` creates all the tasks.
- `LeavingLabels`: between the removal of the running task from the ready queue and its
  `task_switch`; `CountLabels`: between load and store of `user_tasks_num`; `AlertLabels`:
  between the test of `task_wait` and the entry in `suspended_tasks`, and in the walk of
  `task_exit`; `EnterLabels`: between the test of `active` in `sem_down` and the entry in the
  queue; `WindowClosed`: `Timing` is `"one_window"` or `"hand_over"`, so the point of section 2 at
  which the driver is in no queue is left alone. Each names the window of one promise and nothing else: every other step, the other
  calls included, may be preempted. With preemption allowed in its window TLC refutes the promise.
- `WithinShort`: with N tasks, no priority is within N of the least `short`. `task_setprio` checks
  nothing, so this is up to the application; a priority of -32768 would age into the highest ones.
- `HandedOver`: the quantum ends at the labels of `HandOver` only and no program
  destroys a semaphore. `Bracketed`: each task gives back what it took and takes nothing twice.
- `HandedOver` and `AsksAccepted` of `DiskProofs`: the timing is `"hand_over"`, and nobody asks for
  what `disk_cmd` refuses of an idle disk, a block that does not exist or no buffer. The code
  needs both. The run `disk_wrong_client` drops the second, and a client returns for the operation of
  another. With `"one_window"` in place of `"hand_over"` TLC finds the operation of a client carried
  out before it lies in `disk_queue`: the driver resumes a null task (57 steps), or a client returns
  while its operation is not done (78 steps).
- the assumptions on constants that the modules name (`KernelAssumption`, `QueueAssumption`,
  `TasksAssumption`, `SemaphoreAssumption`, `MQueueAssumption`, `DiskAssumption`, `BarrierAssumption`,
  `PeopleAssumption`): finitely many tasks, distinct names, programs that are non-empty
  sequences of calls; TLC evaluates them in the runs.

The arguments:

- *Queues.* That two rings are disjoint says nothing about the element a call is given. The
  invariant names an owner: there is a map from elements to queues that is constant along the
  links and gives every head its own queue. Each of the four ways of linking or unlinking an
  element changes that map at the element only; the search of `queue_remove`, which cannot
  leave a set that is closed under `next`, shows that what is unlinked belongs to the queue.
  For the refinement the invariant has a sequence for each queue whose neighbours are linked
  (`Listed`). The search meets the head exactly when the element is in the sequence, each call
  turns the sequence into the longer or the shorter one, and the walk of `queue_size`, by least
  counterexample as below, visits the sequence: the mapping reads off the links what they hold.
- *The kernel's lemmas* (`KernelProofs`): what `queue_append` and `queue_remove` do to membership,
  what the dispatcher chooses, and what `Only` (the model of the wake-up of the sleepers) keeps.
  The last is recursive; in place of induction over a predicate, which the provers cannot
  instantiate, the lemma takes the *least* position of a counterexample.
- *Ageing.* That no priority falls too low is not inductive. The invariant counts: at most
  N - k tasks are k or more below the least static priority. A task falls to depth k only
  while another one, chosen, was at least as low and climbs back. So none is N below, and under
  `WithinShort` the decrement does not wrap.
- *Tasks.* `CallsInv` says where the locals of each call point: the stale pointers of the walk of
  `task_exit` always lead to tasks, so its types hold at any preemption. `LifeInv` adds the
  ids, what a waiter knows of the task it named, and that nobody who could resume an exited
  task has it in hand; this is enough for waits and exits. Three more invariants stand on it:
  `HandsInv` (a task in no queue is in the hands of one that is about to link it), `RollInv`
  (`user_tasks_num` and the `task_init` under way add up to the tasks in the system), and
  `LineInv` (the walk of `task_exit`: which waiters it has passed, and that what is left of
  the queue contains the others; it sees a queue that stands still, since only the running
  task changes it; TLC checked it on all calls of three tasks before the proof). `SleepInv`
  bounds what a sleeper still owes to the clock.
- *Semaphores.* `SemInv` adds to the types that every queue is injective and that two queues
  share no task, that a suspended call works on its own semaphore, and that who is inside the
  spin lock is alone there. `HolderInv` adds that a taken lock has a holder, and where
  each task is in its calls when it is not in the ready queue: only its own `task_suspend` takes it
  out (a `task_resume` removes from another queue), and that comes after `leave_cs`. `DestroyInv` adds that the semaphore of a task on its way into a
  queue is active.
- *Mutual exclusion.* `MutexInv` defines the owner of a permit at every label (granted by the
  decrement, or by having been taken out of the queue; until the increment, or the removal of
  a successor). The owner is unique, the value is positive only if there is none, the queue
  holds only tasks inside their `sem_down`, and a task in transit between the two queues is in
  no queue and not running. So the windows that break general semaphores are harmless for
  mutexes: only the owner wakes, and it wakes one task. A mutex program never
  strands more than itself: what the windows still cost is liveness.
- *Hand-over.* `CountInv`: the tasks in line, and those on their way into it, are as many as the
  value is below zero and as the `sem_up` calls that have not taken anybody out yet. With brackets,
  `Conserved` adds up free, promised and held permits to the initial value; these two give
  `PermitsRespected` and map every step to a step of `AbsSemaphore` or a stutter, one lemma for
  each action (`SemaphoreImplements` is that simulation, from the initial states on).
- *Message queues.* The three semaphores are not bracketed by task: a slot is taken by a sender and
  given back by a receiver. The invariant keeps accounts instead. `Supply(s)` is what is free or
  promised at `s` and what tasks own of it; the steps of the semaphores keep it (`SupplyStep`),
  those of `mqueue_send` and `mqueue_recv` move it to the buffer or back, and a `malloc`
  that fails loses a slot and the buffer for good. A receiver that has passed `s_item` owns a
  message, so the head it reads exists. The same accounts give the refinement of `AbsMailbox`: who
  is at the buffer owns the one permit of `s_buffer`, so no `malloc` has failed before, and a sender
  there owns a slot, so the mailbox is not full.
- *Disk manager.* What holds for any timing rests on `SemInv`, which the handler of `SIGUSR1`
  preserves because it leaves the driver alone when it finds it in any queue but `disk_queue`.
  For `RequestsKeptInOrder` the invariant says where the driver stands: between its look at the disk and
  its command it has a request to take, or has taken one, and the disk, which only the driver
  commands, is idle, so that the command is accepted; that goes for any timing, because the requests
  are appended at one end and taken at the other.
  `GuardInv` is `MutexInv` again, for a mutex whose user is resumed by others while it is inside:
  the owner of the permit of `sem_disk` is unique, the two queues hold the tasks that suspended
  themselves there, and a client on its way from a queue to the ready queue is in no queue, does
  not run and has one waker. Of the driver none of the last three is true, and none is needed: a second
  resume of it is refused, unless it is at the one point that `WindowClosed` protects. TLC
  checked `GuardInv` on two clients before the proof.
  `ServeInv` is about orders. The driver resumes the head of `disk_queue` and trusts that it is the
  client whose operation has ended. The request of a client is done, on the disk or in
  `request_queue`, one of the three, and these three together are one line (`Before`). The clients
  lie in `disk_queue` in the order of this line, and the one that is on its way there comes after those
  that lie there already (`SleepInOrder`). So, while the signal is up, the head is done. For
  `DiskImplements` the mapping gives `AbsDisk` that line, and one lemma for each kind of step shows what
  it does to it. TLC checked `ServeInv` on two and on three clients before the proof.
  `SleepInv` says of the driver that once it has read `signal` and the queue and found nothing to do,
  what comes after finds it asleep or on its way to the test: a completion resumes it, and a client
  that adds a request is at its `wake` while it does. A failed `malloc` needs no accounts: it
  leaves the value of `sem_disk` at zero or below with no owner of the permit, nobody on the way to
  a `sem_up`; a decrement keeps it there and every hand-over starts with an owner, so this is
  stable (`LostForGood`).
- *Barrier.* `PostsInv` adds to the count of the posts that `size_s` has one holder. `RoundsInv`
  adds that a thread in the barrier is behind nobody, and that while a round is open (posts are
  there or under way) all threads have come equally often. When the last thread counts, the
  counter and the count of the waiters show that *all* the others wait, which is what opening
  a round means; nobody counts while a round is open, because then nobody would wait for it.
- *Bathrooms.* `BathInv`: `count_s` is a mutex, so what a thread has loaded is still the count when
  it stores; the places taken and the value of `bath_s` add up to `BATH_MAX`.

- *Robots.* Twelve phases, one after the other: whose post is pending, and where the three bodies
  stand. `spoken` keeps four lines, so the invariant also says which piece of the conversation they are.

What stays with TLC is liveness, which is out of the reach of the prover: `WaitersReturn`,
`SleepersReturn`, `ShutsDown`, `CallsReturn`, `RequestsReturn`.

## 5. What is not modelled

- Accounting fields (`activations`, `processor_time`, `execution_time`): only printed.
- Stacks, `ucontext`, failures of `malloc` in `task_init`.
- Memory that is not freed (`mqueue_recv` frees the element and not its buffer).
- `mqueue_msgs`, `task_id`, `task_getprio`, `systime`, `queue_print`: read only.
- `mutex_t` and `barrier_t` of `ppos.h`: declared, never implemented.
- `examples/`, `tests/`, the build files: read for the intended use of the calls.
- The access time of the disk, the bytes of its blocks, system calls that fail in `disk_init`,
  `disk_mgr_init` and `disk_settimer`.
- Signal handlers that interrupt each other, and a handler that takes effect in the middle of a
  call of `queue.c`: a call, and the handler of `SIGUSR1`, are one step. The quantum and the
  interrupt of the disk may come between any two of the steps.

## 6. Plan

Done so far: the queue, the kernel, tasks, semaphores, message queues, the disk manager over
the simulated disk, and the exercises; the proofs of section 4, which cover every safety
property and every refinement that a passing run checks. What is left, in this order:

1. `QueueSteps`: `queue.c` with one step per assignment and a second caller in between, to see
   which of the kernel's queues need protection.
2. Scheduler liveness with spin locks: `LockHolderRuns` says that a holder is ready, `AgeBound`
   that ageing is bounded; the number of turns for which a spinner can keep it from running is left.

## 7. Running

In this directory:

```
tlc -workers 2 -config SemHandOver.cfg MCSemaphore.tla
tlapm SemaphoreProofs.tla
```

`PROJECT.json` lists the module and configuration of each run, the definition-by-definition
map to source lines, and for each property a seeded bug (the definitions marked so in the
modules) that violates it.
