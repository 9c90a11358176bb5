------------------------------- MODULE MCQueue -------------------------------
(* Four elements over two queues: every ring of up to four nodes, and an     *)
(* element to mistake for a member of the other queue.  The queues are those *)
(* of the sleeping and the ready tasks, so that wake_tasks can run, for any  *)
(* set of due sleepers, after any sequence of calls.                         *)
EXTENDS WakeTasks
=============================================================================
