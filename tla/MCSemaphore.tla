----------------------------- MODULE MCSemaphore -----------------------------
(* Instances of Semaphore: three or four tasks around one semaphore.         *)
EXTENDS Semaphore

CONSTANTS t1, t2, t3, t4, s1, s2

Trio == {t1, t2, t3}
Four == {t1, t2, t3, t4}
(* Sound where every task runs the same program: nothing else tells them apart. *)
SymmetricTasks == Permutations(Tasks)

NoCalls == {}

One == {s1}
Two == {s1, s2}

Value1 == [s \in Sems |-> 1]
Value2 == [s \in Sems |-> 2]
(* s1 is a mutex, s2 has two permits.                                        *)
MutexAndPair == [s \in Sems |-> IF s = s1 THEN 1 ELSE 2]

Down(s)    == [op |-> "down", sem |-> s]
Up(s)      == [op |-> "up", sem |-> s]
Destroy(s) == [op |-> "destroy", sem |-> s]

(* Every task guards its section with s1.                                    *)
Guards == [t \in Tasks |-> <<Down(s1), Up(s1)>>]

(* All use s2, two of them the mutex s1 afterwards.                          *)
OneAfterTheOther ==
  [t \in Tasks |-> IF t \in {t1, t2} THEN <<Down(s2), Up(s2), Down(s1), Up(s1)>>
                                     ELSE <<Down(s2), Up(s2)>>]

(* t1 destroys the mutex s1 that all three use.                              *)
Destroyer ==
  [t \in Tasks |-> IF t = t1 THEN <<Down(s1), Up(s1), Destroy(s1)>> ELSE <<Down(s1), Up(s1)>>]
=============================================================================
