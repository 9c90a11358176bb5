------------------------------ MODULE WakeTasks ------------------------------
(***************************************************************************)
(* wake_tasks of core/ppos_core.c on the links of core/queue.c: the loop   *)
(* takes sleepers out of the list it walks on.  It runs in the dispatcher, *)
(* which is not preempted, after any sequence of calls of queue.c; module  *)
(* Kernel has its result in one step (after_wake_tasks).                   *)
(***************************************************************************)
EXTENDS Queue, SequencesExt

CONSTANTS sleeping_tasks, ready_tasks  \* two of the queues

ASSUME WakeTasksAssumption ==
  {sleeping_tasks, ready_tasks} \subseteq Queues /\ sleeping_tasks # ready_tasks

VARIABLES
  at,       \* the point of wake_tasks, or idle
  aux,      \* its locals
  aux_next,
  due,      \* the tasks whose wake_up_time is not after now
  slept,    \* the sleeping and the ready tasks at the start of the call
  readied

wakeVars == <<at, aux, aux_next, due, slept, readied>>
allVars  == <<vars, wakeVars>>

Contents(q) == [i \in 1..queue_size(q) |-> Walk(q)[i]]

WakeInit ==
  /\ Init
  /\ at = "idle" /\ aux = NULL /\ aux_next = NULL
  /\ due = {} /\ slept = << >> /\ readied = << >>

(* The rest of the system: any call of queue.c. *)
QueueCall == at = "idle" /\ Next /\ UNCHANGED wakeVars

wake_tasks ==
  /\ at = "idle" /\ at' = "test"
  /\ aux' = head[sleeping_tasks]
  /\ due' \in SUBSET Elems
  /\ slept' = Contents(sleeping_tasks) /\ readied' = Contents(ready_tasks)
  /\ UNCHANGED <<vars, aux_next>>

-----------------------------------------------------------------------------
(* The while loop goes as far as the last sleeper, which is looked at after *)
(* it.                                                                      *)
before_last == aux # NULL /\ aux # prev[head[sleeping_tasks]]

\* Seeded bug: the link is followed after the task has left the list.
following_reread == next'[aux]

following == aux_next

pass_by ==
  /\ at = "test" /\ before_last /\ aux \notin due
  /\ aux' = next[aux] /\ aux_next' = next[aux]
  /\ UNCHANGED <<vars, at, due, slept, readied>>

find_due ==
  /\ at = "test" /\ before_last /\ aux \in due
  /\ aux_next' = next[aux]
  /\ at' = "remove"
  /\ UNCHANGED <<vars, aux, due, slept, readied>>

(* task_resume(aux, &sleeping_tasks): its two calls of queue.c. *)
resume_remove(here, there) ==
  /\ at = here /\ at' = there
  /\ queue_remove(sleeping_tasks, aux)
  /\ UNCHANGED <<aux, aux_next, due, slept, readied>>

resume_append ==
  /\ at = "append" /\ at' = "test"
  /\ queue_append(ready_tasks, aux)
  /\ aux' = following
  /\ UNCHANGED <<aux_next, due, slept, readied>>

end_loop ==
  /\ at = "test" /\ ~before_last
  /\ at' = IF aux # NULL /\ aux \in due THEN "remove_last" ELSE "return"
  /\ UNCHANGED <<vars, aux, aux_next, due, slept, readied>>

resume_append_last ==
  /\ at = "append_last" /\ at' = "return"
  /\ queue_append(ready_tasks, aux)
  /\ UNCHANGED <<aux, aux_next, due, slept, readied>>

return_from_wake ==
  /\ at = "return" /\ at' = "idle"
  /\ aux' = NULL /\ aux_next' = NULL
  /\ due' = {} /\ slept' = << >> /\ readied' = << >>
  /\ UNCHANGED vars

WakeNext ==
  \/ QueueCall \/ wake_tasks \/ pass_by \/ find_due
  \/ resume_remove("remove", "append") \/ resume_append
  \/ end_loop
  \/ resume_remove("remove_last", "append_last") \/ resume_append_last
  \/ return_from_wake

WakeSpec == WakeInit /\ [][WakeNext]_allVars

-----------------------------------------------------------------------------
(* Properties *)

(* The first n of the sleepers have been looked at: the due ones are at the *)
(* tail of the ready queue, in the order in which they slept, and nobody    *)
(* else has moved.                                                          *)
LookedAt(n) ==
  LET seen == SubSeq(slept, 1, n) IN
  /\ Contents(ready_tasks) = readied \o SelectSeq(seen, LAMBDA t : t \in due)
  /\ Contents(sleeping_tasks) =
       SelectSeq(seen, LAMBDA t : t \notin due) \o SubSeq(slept, n + 1, Len(slept))

(* The walk meets every sleeper once and in order although it changes the   *)
(* list under itself, the last one included, and wakes the due ones: what   *)
(* module Kernel takes wake_tasks to do.                                    *)
WakesTheDue ==
  /\ at = "test" => \/ aux = NULL /\ slept = << >>
                    \/ \E i \in DOMAIN slept : aux = slept[i] /\ LookedAt(i - 1)
  /\ at = "return" => LookedAt(Len(slept))
=============================================================================
