------------------------------- MODULE MCTasks -------------------------------
(* Instances of Tasks: main creates the others, unless said otherwise.       *)
EXTENDS Tasks

CONSTANTS main, t1, t2, t3

Pair   == {main, t1}
Trio   == {main, t1, t2}
NoWaitQueues == {}

MainCreatesPair == {<<main, t1>>}
MainCreatesTrio == {<<main, t1>>, <<main, t2>>}

(* main creates and awaits the others; t1 awaits t2, which sleeps.            *)
Roles == [t \in Tasks |-> CASE t = main -> {"init", "wait", "exit"}
                            [] t = t1 -> {"wait", "exit", "yield"}
                            [] OTHER -> {"sleep", "exit"}]

(* The same, and main raises priorities.                                     *)
LiveRoles == [t \in Tasks |-> CASE t = main -> {"init", "wait", "exit", "setprio"}
                                [] t = t1 -> {"wait", "exit", "yield"}
                                [] OTHER -> {"sleep", "exit"}]

(* The same calls for every task, for the runs about one of them.            *)
Waiters  == [t \in Tasks |-> {"init", "wait", "exit"}]
Creators == [t \in Tasks |-> {"init", "exit"}]
Sleepers == [t \in Tasks |-> {"init", "sleep"}]

(* t1 creates t3 while main creates t2 and awaits it.                        *)
Quartet     == Trio \cup {t3}
TwoCreators == MainCreatesTrio \cup {<<t1, t3>>}
MainAwaits2 == {<<main, t2>>}
Twins == [t \in Tasks |-> CASE t = main -> {"init", "wait"}
                            [] t = t1 -> {"init"}
                            [] OTHER -> {"exit"}]
(* The quantum ends outside the calls, and between load and store of         *)
(* ++last_task_id.                                                           *)
InIds == {"user", "init_id_store"}

NoWaits     == {}
MainWaits   == {<<main, t1>>}
ChainWaits  == {<<main, t1>>, <<main, t2>>, <<t1, t2>>}

LevelPriorities == {0}
(* 2^16 - 1 becomes -1 in the short of the task.                             *)
RaisedPriorities == {65535}
Bottom == -1
=============================================================================
