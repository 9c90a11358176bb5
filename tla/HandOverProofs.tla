---------------------------- MODULE HandOverProofs ----------------------------
(***************************************************************************)
(* What the semaphores promise when the quantum ends anywhere, inside the  *)
(* spin lock too, but in the two windows and at the leave_cs and the test  *)
(* of sem_down (Preemptible \subseteq HandOver): the value counts the      *)
(* waiting tasks and the sem_up calls under way, so no wake-up is lost and *)
(* no null task is resumed, and sem_down and sem_up implement the          *)
(* semaphore of module AbsSemaphore, for any number of tasks, semaphores   *)
(* and permits.                                                            *)
(*                                                                         *)
(* The argument: CountInv says that the tasks in line are as many as the   *)
(* value is below zero and the wakers that have raised it but not taken    *)
(* anybody out of the line; the steps of the two windows, where this is    *)
(* not so, are those of the running task alone.                            *)
(***************************************************************************)
EXTENDS SemaphoreProofs

(* The quantum ends outside the windows and nobody calls sem_destroy.       *)
HandedOver ==
  /\ Preemptible \subseteq HandOver
  /\ \A t \in Tasks : \A i \in 1..Len(Program[t]) : Program[t][i].op # "destroy"

(* The steps at which the running task cannot lose the processor.           *)
WindowLabels == {"down_unlock", "down_test", "suspend_remove", "suspend_append", "resume_remove"}

(* What task t knows at its label.                                          *)
Local(t) ==
  /\ call(t) = "down" => pc[t] \in DownLabels
  /\ call(t) = "up" => pc[t] \in UpLabels
  /\ call(t) \notin {"down", "up"} => pc[t] = "user"
  /\ pc[t] \in KernelLabels => back[t] = "sem_return"
  /\ pc[t] \in WindowLabels => curr = t
  /\ pc[t] \in {"down_store", "down_unlock", "down_test", "up_store"} => v[t] = value[sem(t)]
  /\ pc[t] \in {"suspend_remove", "suspend_append"} => value[sem(t)] < 0
  /\ pc[t] \in {"up_head", "resume_remove"} => v[t] <= 0
  /\ pc[t] = "resume_remove" =>
       queues[sem(t)] # << >> /\ arg_task[t] = Head(queues[sem(t)])
  /\ pc[t] = "suspend_append" => \A q \in Queues : ~In(q, t)

(* t has taken the value below zero and is on its way into the line of s.   *)
Entering(t, s) ==
  /\ sem(t) = s /\ call(t) = "down"
  /\ \/ pc[t] \in {"down_unlock", "down_test"} /\ v[t] < 0
     \/ pc[t] \in {"suspend_remove", "suspend_append"}

Comers(s) == {t \in Tasks : Entering(t, s)}
Wakers(s) == {t \in Tasks : WakingUp(t, s)}

Below(s) == IF value[s] < 0 THEN -value[s] ELSE 0

(* The tasks in line, or about to be, have one sem_up each on its way to    *)
(* them, or are counted by the value.                                       *)
Counted(s) ==
  Len(queues[s]) + Cardinality(Comers(s)) = Cardinality(Wakers(s)) + Below(s)

CountInv ==
  /\ SemInv
  /\ NoNullResume /\ active = [s \in Sems |-> 1]
  /\ \A t \in Tasks : Local(t)
  /\ RunsFromReady /\ InLine
  /\ \A s \in Sems : Counted(s)

-----------------------------------------------------------------------------
(* Sizes.                                                                   *)

(* Two sets of tasks that differ in t at most.                              *)
LEMMA SizeStep ==
  ASSUME NEW t \in Tasks, NEW A \in SUBSET Tasks, NEW B \in SUBSET Tasks,
         \A u \in Tasks : u # t => (u \in A <=> u \in B)
  PROVE  /\ Cardinality(A) \in Nat /\ Cardinality(B) \in Nat
         /\ t \in A /\ t \in B => Cardinality(B) = Cardinality(A)
         /\ t \in A /\ t \notin B => Cardinality(B) = Cardinality(A) - 1
         /\ t \notin A /\ t \in B => Cardinality(B) = Cardinality(A) + 1
         /\ t \notin A /\ t \notin B => Cardinality(B) = Cardinality(A)
<1>1. IsFiniteSet(A) /\ IsFiniteSet(B)
  BY FS_Subset, KernelAssumption
<1>2. Cardinality(A) \in Nat /\ Cardinality(B) \in Nat
  BY <1>1, FS_CardinalityType
<1>3. (t \in A <=> t \in B) => A = B
  OBVIOUS
<1>4. t \in A /\ t \notin B => A = B \cup {t}
  OBVIOUS
<1>5. t \notin A /\ t \in B => B = A \cup {t}
  OBVIOUS
<1>6. t \in A /\ t \notin B => Cardinality(A) = Cardinality(B) + 1
  BY <1>1, <1>4, FS_AddElement
<1>7. t \notin A /\ t \in B => Cardinality(B) = Cardinality(A) + 1
  BY <1>1, <1>5, FS_AddElement
<1> QED BY <1>2, <1>3, <1>6, <1>7

LEMMA SizeTypes ==
  ASSUME NEW s
  PROVE  /\ Cardinality(Comers(s)) \in Nat /\ Cardinality(Wakers(s)) \in Nat
         /\ \A t \in Tasks : t \in Wakers(s) => Cardinality(Wakers(s)) # 0
         /\ (\A t \in Tasks : t \notin Comers(s)) => Cardinality(Comers(s)) = 0
<1>1. IsFiniteSet(Comers(s)) /\ IsFiniteSet(Wakers(s))
  BY FS_Subset, KernelAssumption DEF Comers, Wakers
<1>2. Cardinality(Comers(s)) \in Nat /\ Cardinality(Wakers(s)) \in Nat
  BY <1>1, FS_CardinalityType
<1>3. ASSUME NEW t \in Tasks, t \in Wakers(s) PROVE Cardinality(Wakers(s)) # 0
  BY <1>1, <1>3, FS_EmptySet
<1>4. ASSUME \A t \in Tasks : t \notin Comers(s) PROVE Cardinality(Comers(s)) = 0
  <2>1. Comers(s) = {}
    BY <1>4 DEF Comers
  <2> QED BY <2>1, FS_EmptySet
<1> QED BY <1>2, <1>3, <1>4

(* task_resume takes the head of the line.                                  *)
LEMMA HeadGone ==
  ASSUME NEW S, NEW s \in Seq(S), s # << >>, Injective(s)
  PROVE  /\ Without(s, Head(s)) = Tail(s) /\ Len(Tail(s)) = Len(s) - 1
         /\ Len(s) \in Nat \ {0}
<1>1. /\ Len(s) \in Nat /\ Len(s) >= 1 /\ Head(s) = s[1]
      /\ Tail(s) \in Seq(S) /\ Len(Tail(s)) = Len(s) - 1
      /\ \A i \in 1..Len(s)-1 : Tail(s)[i] = s[i+1]
  BY LenProperties, EmptySeq, HeadTailProperties
<1> DEFINE k == CHOOSE i \in 1..Len(s) : s[i] = Head(s)
           w == RemoveAt(s, k)
<1>2. Contains(s, Head(s)) /\ k \in 1..Len(s) /\ s[k] = s[1]
  <2>1. 1 \in 1..Len(s)
    BY <1>1
  <2> QED BY <1>1, <2>1 DEF Contains
<1>3. k = 1
  BY <1>1, <1>2 DEF Injective
<1>4. Without(s, Head(s)) = w
  BY <1>2 DEF Without
<1> HIDE DEF k
<1>5. /\ w \in Seq(S) /\ Len(w) = Len(s) - 1
      /\ \A i \in 1..Len(s)-1 : w[i] = s[i+1]
  <2>1. /\ w \in Seq(S) /\ Len(w) = Len(s) - 1
        /\ \A i \in 1..Len(s)-1 : w[i] = IF i < k THEN s[i] ELSE s[i+1]
    BY <1>2, RemoveAtProperties
  <2>2. \A i \in 1..Len(s)-1 : ~(i < k)
    BY <1>3
  <2> QED BY <2>1, <2>2
<1> HIDE DEF w
<1>6. w = Tail(s)
  BY <1>1, <1>5, SeqEqual
<1> QED BY <1>1, <1>4, <1>6

-----------------------------------------------------------------------------
(* What a step of the running t leaves alone.                               *)
LEMMA OthersOutside ==
  ASSUME CountInv, NEW t \in Tasks, Running(t)
  PROVE  \A u \in Tasks : u # t => pc[u] \notin WindowLabels
BY DEF CountInv, Local, Running

LEMMA RunningNotInLine ==
  ASSUME CountInv, NEW t \in Tasks, Running(t), pc[t] # "suspend_switch"
  PROVE  \A s \in Sems : ~In(s, t)
<1>1. ASSUME NEW s \in Sems, In(s, t) PROVE FALSE
  <2>1. pc[t] = "sem_return"
    BY <1>1 DEF CountInv, InLine
  <2>2. In("ready", t)
    BY <2>1 DEF CountInv, RunsFromReady, Running
  <2>3. s # "ready" /\ s \in Queues /\ "ready" \in Queues
    BY SemaphoreAssumption DEF Queues
  <2> QED BY <1>1, <2>2, <2>3 DEF CountInv, SemInv, QueuesOK
<1> QED BY <1>1

LEMMA ViewKept ==
  ASSUME NEW t \in Tasks, Moves(t), NEW u \in Tasks, u # t, NEW s
  PROVE  /\ Entering(u, s)' <=> Entering(u, s)
         /\ WakingUp(u, s)' <=> WakingUp(u, s)
<1>1. /\ pc'[u] = pc[u] /\ v'[u] = v[u] /\ call(u)' = call(u) /\ sem(u)' = sem(u)
  BY CallKept DEF Moves
<1> QED BY <1>1 DEF Entering, WakingUp

(* The value of a semaphore changes under its spin lock.                    *)
Locked(t) == \A s \in Sems : value'[s] = value[s] \/ InLock(t, s)

LEMMA LocalKept ==
  ASSUME CountInv, NEW t \in Tasks, Running(t), Moves(t), Locked(t), NEW u \in Tasks, u # t
  PROVE  Local(u)'
<1>1. /\ ip'[u] = ip[u] /\ pc'[u] = pc[u] /\ v'[u] = v[u] /\ back'[u] = back[u]
      /\ call(u)' = call(u) /\ sem(u)' = sem(u) /\ Local(u) /\ pc[u] \notin WindowLabels
  BY CallKept, OthersOutside DEF Moves, CountInv
<1>2. pc[u] \in {"down_store", "up_store"} => value'[sem(u)] = value[sem(u)]
  <2> SUFFICES ASSUME pc[u] \in {"down_store", "up_store"}, InLock(t, sem(u)) PROVE FALSE
    BY CallTypes DEF Locked, CountInv, SemInv
  <2>1. InLock(u, sem(u)) /\ sem(u) \in Sems
    BY CallTypes DEF InLock, CountInv, SemInv
  <2> QED BY <2>1 DEF CountInv, SemInv, LockInv
<1> QED BY <1>1, <1>2 DEF Local, WindowLabels

(* What a step of t does to the count of s.                                 *)
CountMoves(t, s, inline) ==
  \/ /\ inline = 0 /\ Below(s)' = Below(s)
     /\ (Entering(t, s)' <=> Entering(t, s)) /\ (WakingUp(t, s)' <=> WakingUp(t, s))
  \/ /\ inline = 0 /\ Below(s)' = Below(s) + 1
     /\ ~Entering(t, s) /\ Entering(t, s)' /\ ~WakingUp(t, s) /\ ~WakingUp(t, s)'
  \/ /\ inline = 0 /\ Below(s)' = Below(s) - 1
     /\ ~Entering(t, s) /\ ~Entering(t, s)' /\ ~WakingUp(t, s) /\ WakingUp(t, s)'
  \/ /\ inline = 1 /\ Below(s)' = Below(s)
     /\ Entering(t, s) /\ ~Entering(t, s)' /\ ~WakingUp(t, s) /\ ~WakingUp(t, s)'
  \/ /\ inline = -1 /\ Below(s)' = Below(s)
     /\ ~Entering(t, s) /\ ~Entering(t, s)' /\ WakingUp(t, s) /\ ~WakingUp(t, s)'

LEMMA CountStep ==
  ASSUME CountInv, SemInv', NEW t \in Tasks, Moves(t), NEW s \in Sems, NEW inline \in Int,
         Len(queues'[s]) = Len(queues[s]) + inline, CountMoves(t, s, inline)
  PROVE  Counted(s)'
<1> DEFINE C == Comers(s)  D == Comers(s)'  W == Wakers(s)  X == Wakers(s)'
<1>1. /\ C \in SUBSET Tasks /\ D \in SUBSET Tasks /\ W \in SUBSET Tasks /\ X \in SUBSET Tasks
      /\ \A u \in Tasks : u # t => (u \in C <=> u \in D) /\ (u \in W <=> u \in X)
  BY ViewKept DEF Comers, Wakers
<1>2. (t \in C <=> Entering(t, s)) /\ (t \in D <=> Entering(t, s)')
      /\ (t \in W <=> WakingUp(t, s)) /\ (t \in X <=> WakingUp(t, s)')
  BY DEF Comers, Wakers
<1> HIDE DEF C, D, W, X
<1>3. /\ Cardinality(C) \in Nat /\ Cardinality(D) \in Nat
      /\ t \in C /\ t \in D => Cardinality(D) = Cardinality(C)
      /\ t \in C /\ t \notin D => Cardinality(D) = Cardinality(C) - 1
      /\ t \notin C /\ t \in D => Cardinality(D) = Cardinality(C) + 1
      /\ t \notin C /\ t \notin D => Cardinality(D) = Cardinality(C)
  BY <1>1, SizeStep
<1>4. /\ Cardinality(W) \in Nat /\ Cardinality(X) \in Nat
      /\ t \in W /\ t \in X => Cardinality(X) = Cardinality(W)
      /\ t \in W /\ t \notin X => Cardinality(X) = Cardinality(W) - 1
      /\ t \notin W /\ t \in X => Cardinality(X) = Cardinality(W) + 1
      /\ t \notin W /\ t \notin X => Cardinality(X) = Cardinality(W)
  BY <1>1, SizeStep
<1>5. Len(queues[s]) \in Int /\ Below(s) \in Int
  <2>1. s \in Queues /\ queues[s] \in Seq(Tasks) /\ value[s] \in Int
    BY SemaphoreAssumption DEF CountInv, SemInv, QueuesOK, TypeOK, Queues
  <2> QED BY <2>1, LenProperties DEF Below
<1>6. Len(queues[s]) + Cardinality(C) = Cardinality(W) + Below(s)
  BY DEF CountInv, Counted, C, W
<1>7. Len(queues'[s]) + Cardinality(D) = Cardinality(X) + Below(s)'
  <2> DEFINE len == Len(queues[s])  len1 == Len(queues'[s])  b == Below(s)  b1 == Below(s)'
             c == Cardinality(C)  d == Cardinality(D)  w == Cardinality(W)  x == Cardinality(X)
  <2>1. /\ len \in Int /\ b \in Int /\ c \in Int /\ w \in Int /\ len1 = len + inline
        /\ len + c = w + b
    BY <1>3, <1>4, <1>5, <1>6
  <2>2. \/ inline = 0 /\ b1 = b /\ d = c /\ x = w
        \/ inline = 0 /\ b1 = b + 1 /\ d = c + 1 /\ x = w
        \/ inline = 0 /\ b1 = b - 1 /\ d = c /\ x = w + 1
        \/ inline = 1 /\ b1 = b /\ d = c - 1 /\ x = w
        \/ inline = -1 /\ b1 = b /\ d = c /\ x = w - 1
    BY <1>2, <1>3, <1>4 DEF CountMoves
  <2> HIDE DEF len, len1, b, b1, c, d, w, x
  <2>3. len1 + d = x + b1
    BY <2>1, <2>2
  <2> QED BY <2>3 DEF len1, d, x, b1
<1> QED BY <1>7 DEF Counted, D, X

(* A step of t that stays out of the queues.                                *)
LEMMA QuietCount ==
  ASSUME CountInv, SemInv', NEW t \in Tasks, Running(t), Moves(t), Local(t)',
         queues' = queues, curr' = curr, active' = active, NoNullResume',
         pc[t] \notin {"suspend_append", "suspend_switch"},
         Locked(t), \A s \in Sems : CountMoves(t, s, 0)
  PROVE  CountInv'
<1>0. curr = t /\ In("ready", t) /\ \A s \in Sems : ~In(s, t)
  <2>1. curr = t
    BY DEF Running
  <2> QED BY <2>1, RunningNotInLine DEF CountInv, RunsFromReady
<1>1. \A q, u : In(q, u)' <=> In(q, u)
  BY DEF In
<1>2. \A u \in Tasks : Local(u)'
  BY LocalKept
<1>3. RunsFromReady'
  BY <1>0, <1>1 DEF RunsFromReady
<1>4. InLine'
  <2> SUFFICES ASSUME NEW s \in Sems, NEW u \in Tasks, In(s, u)
               PROVE  sem(u)' = s /\ call(u)' = "down" /\ pc'[u] \in {"suspend_switch", "sem_return"}
    BY <1>1 DEF InLine
  <2>1. u # t
    BY <1>0
  <2> QED BY <2>1, CallKept DEF Moves, CountInv, InLine
<1>5. ASSUME NEW s \in Sems PROVE Counted(s)'
  <2>1. Len(queues'[s]) = Len(queues[s]) + 0
    <3>1. s \in Queues /\ queues[s] \in Seq(Tasks)
      BY SemaphoreAssumption DEF CountInv, SemInv, QueuesOK, Queues
    <3> QED BY <3>1, LenProperties
  <2> QED BY <2>1, CountStep
<1>6. active' = [s \in Sems |-> 1]
  BY DEF CountInv
<1> QED BY <1>2, <1>3, <1>4, <1>5, <1>6 DEF CountInv

-----------------------------------------------------------------------------
(* The steps of sem_down and sem_up one by one.                             *)

(* The label tells which call it is.                                        *)
LEMMA CallOf ==
  ASSUME CountInv, NEW t \in Tasks
  PROVE  /\ sem(t) \in Sems /\ sem(t) \in Queues /\ sem(t) # "ready"
         /\ pc[t] \in DownLabels \ {"user", "sem_return"} => call(t) = "down"
         /\ pc[t] \in UpLabels \ {"user", "sem_return"} => call(t) = "up"
BY CallTypes DEF CountInv, SemInv, Local, DownLabels, UpLabels

(* At these labels t is not counted anywhere.                               *)
LEMMA Uncounted ==
  ASSUME NEW t, pc[t] \in {"user", "down_lock", "down_load", "down_store", "sem_return",
                           "suspend_switch", "up_lock", "up_load", "up_store", "resume_append"}
  PROVE  \A s : ~Entering(t, s) /\ ~WakingUp(t, s)
BY DEF Entering, WakingUp

LEMMA ReturnCount ==
  ASSUME CountInv, SemInv', NEW t \in Tasks, Running(t), return(t),
         UNCHANGED <<coreVars, argVars, semVars>>,
         pc[t] \notin {"suspend_append", "suspend_switch"},
         \A s \in Sems : ~Entering(t, s) /\ ~WakingUp(t, s)
  PROVE  CountInv'
<1>1. /\ \A u \in Tasks : u # t => pc'[u] = pc[u] /\ ip'[u] = ip[u] /\ v'[u] = v[u]
      /\ pc'[t] = "user"
  BY GotoTypes, AdvanceTypes DEF CountInv, SemInv, return, SemLabels
<1>2. /\ Moves(t) /\ queues' = queues /\ curr' = curr /\ active' = active /\ value' = value
      /\ NoNullResume'
  BY <1>1 DEF Moves, coreVars, argVars, semVars, CountInv, NoNullResume
<1>3. Local(t)'
  BY <1>1 DEF Local, DownLabels, UpLabels, KernelLabels, WindowLabels
<1>4. \A s \in Sems : ~Entering(t, s)' /\ ~WakingUp(t, s)'
  BY <1>1 DEF Entering, WakingUp
<1>5. \A s \in Sems : CountMoves(t, s, 0)
  BY <1>2, <1>4 DEF CountMoves, Below
<1> QED BY <1>2, <1>3, <1>5, QuietCount DEF Locked

(* A step inside the call that leaves the position in the program.          *)
LEMMA GoOnCount ==
  ASSUME CountInv, SemInv', NEW t \in Tasks, Running(t), NEW l \in SemLabels \cup KernelLabels,
         Goto(t, l), UNCHANGED <<coreVars, argVars, active, ip>>,
         \A u \in Tasks : u # t => v'[u] = v[u],
         pc[t] \notin {"suspend_append", "suspend_switch"}, l \notin KernelLabels,
         \/ l \in DownLabels /\ call(t) = "down"
         \/ l \in UpLabels /\ call(t) = "up",
         l \in {"down_store", "down_unlock", "down_test", "up_store"} => v'[t] = value'[sem(t)],
         l = "up_head" => v'[t] <= 0,
         Locked(t), \A s \in Sems : CountMoves(t, s, 0)
  PROVE  CountInv'
<1>1. /\ pc'[t] = l /\ \A u \in Tasks : u # t => pc'[u] = pc[u]
  BY GotoTypes DEF CountInv, SemInv
<1>2. /\ Moves(t) /\ queues' = queues /\ curr' = curr /\ NoNullResume'
      /\ call(t)' = call(t) /\ sem(t)' = sem(t)
  BY <1>1, CallKept DEF Moves, coreVars, argVars, CountInv, NoNullResume
<1>3. Local(t)'
  <2>1. curr' = t
    BY <1>2 DEF Running
  <2> QED BY <1>1, <1>2, <2>1 DEF Local, KernelLabels
<1> QED BY <1>2, <1>3, QuietCount

LEMMA EnterCount ==
  ASSUME CountInv, SemInv', NEW t \in Tasks, sem_down(t) \/ sem_up(t)
  PROVE  CountInv'
<1>1. active[sem(t)] = 1
  BY CallOf DEF CountInv
<1>2. PICK l \in {"down_lock", "up_lock"} :
        /\ Running(t) /\ pc[t] = "user" /\ Goto(t, l)
        /\ l = "down_lock" => call(t) = "down"
        /\ l = "up_lock" => call(t) = "up"
        /\ UNCHANGED <<coreVars, argVars, semVars, userVars>>
  BY <1>1 DEF sem_down, sem_up, enter_call, At
<1>3. l \in SemLabels /\ pc'[t] = l
  BY <1>2, GotoTypes DEF SemLabels, CountInv, SemInv
<1>4. \A s \in Sems : CountMoves(t, s, 0)
  <2>1. \A s \in Sems : ~Entering(t, s) /\ ~WakingUp(t, s) /\ ~Entering(t, s)' /\ ~WakingUp(t, s)'
    BY <1>2, <1>3 DEF Entering, WakingUp
  <2> QED BY <1>2, <2>1 DEF CountMoves, Below, semVars
<1>5. \/ l \in DownLabels /\ call(t) = "down"
      \/ l \in UpLabels /\ call(t) = "up"
  BY <1>2 DEF DownLabels, UpLabels
<1>6. l \notin KernelLabels
  BY <1>2 DEF KernelLabels
<1> QED BY <1>2, <1>3, <1>4, <1>5, <1>6, GoOnCount DEF semVars, userVars, Locked

LEMMA LockCount ==
  ASSUME CountInv, SemInv', NEW t \in Tasks, \/ down_lock(t) \/ up_lock(t)
                                             \/ down_load(t) \/ up_load(t)
  PROVE  CountInv'
<1>1. PICK l \in {"down_load", "up_load", "down_store", "up_store"} :
        /\ Running(t) /\ Goto(t, l) /\ UNCHANGED <<coreVars, argVars, value, active, ip>>
        /\ pc[t] \in {"down_lock", "up_lock", "down_load", "up_load"}
        /\ l \in {"down_load", "down_store"} => pc[t] \in {"down_lock", "down_load"}
        /\ l \in {"up_load", "up_store"} => pc[t] \in {"up_lock", "up_load"}
        /\ l \in {"down_store", "up_store"} => v' = [v EXCEPT ![t] = value[sem(t)]]
        /\ l \in {"down_load", "up_load"} => v' = v
  BY DEF down_lock, up_lock, lock_step, down_load, up_load, load_step, At, semVars, userVars
<1>2. l \in SemLabels /\ pc'[t] = l /\ sem(t) \in Sems
  BY <1>1, CallOf, GotoTypes DEF SemLabels, CountInv, SemInv
<1>3. \A s \in Sems : CountMoves(t, s, 0)
  <2>1. \A s \in Sems : ~Entering(t, s) /\ ~WakingUp(t, s) /\ ~Entering(t, s)' /\ ~WakingUp(t, s)'
    BY <1>1, <1>2 DEF Entering, WakingUp
  <2> QED BY <1>1, <2>1 DEF CountMoves, Below
<1>4. /\ \A u \in Tasks : u # t => v'[u] = v[u]
      /\ l \in {"down_store", "up_store"} => v'[t] = value'[sem(t)]
  BY <1>1 DEF CountInv, SemInv, TypeOK
<1>5. \/ l \in DownLabels /\ call(t) = "down"
      \/ l \in UpLabels /\ call(t) = "up"
  BY <1>1, CallOf DEF DownLabels, UpLabels
<1>6. l \notin KernelLabels
  BY <1>1 DEF KernelLabels
<1> QED BY <1>1, <1>2, <1>3, <1>4, <1>5, <1>6, GoOnCount DEF Locked

LEMMA StoreCount ==
  ASSUME CountInv, SemInv', NEW t \in Tasks, down_store(t) \/ up_store(t)
  PROVE  CountInv'
<1>1. PICK delta \in {-1, 1}, l \in {"down_unlock", "up_unlock"} :
        /\ Running(t) /\ Goto(t, l) /\ UNCHANGED <<coreVars, argVars, active, ip>>
        /\ pc[t] \in {"down_store", "up_store"}
        /\ l = "down_unlock" => pc[t] = "down_store" /\ delta = -1
        /\ l = "up_unlock" => pc[t] = "up_store" /\ delta = 1
        /\ value' = [value EXCEPT ![sem(t)] = v[t] + delta]
        /\ v' = [v EXCEPT ![t] = v[t] + delta]
  BY DEF down_store, up_store, store_step, At
<1>2. l \in SemLabels /\ pc'[t] = l /\ sem(t) \in Sems /\ call(t)' = call(t) /\ sem(t)' = sem(t)
  BY <1>1, CallOf, CallKept, GotoTypes DEF SemLabels, CountInv, SemInv
<1>3. \/ l \in DownLabels /\ call(t) = "down"
      \/ l \in UpLabels /\ call(t) = "up"
  BY <1>1, CallOf DEF DownLabels, UpLabels
<1>4. /\ \A u \in Tasks : u # t => v'[u] = v[u]
      /\ v[t] = value[sem(t)] /\ value[sem(t)] \in Int
      /\ v'[t] = value[sem(t)] + delta /\ value'[sem(t)] = value[sem(t)] + delta
      /\ \A s \in Sems : s # sem(t) => value'[s] = value[s]
  <2>1. v[t] = value[sem(t)]
    BY <1>1 DEF CountInv, Local
  <2> QED BY <1>1, <1>2, <2>1 DEF CountInv, SemInv, TypeOK
<1>5. ASSUME NEW s \in Sems PROVE CountMoves(t, s, 0)
  <2>1. ~Entering(t, s) /\ ~WakingUp(t, s)
    BY <1>1 DEF Entering, WakingUp
  <2>2. CASE s # sem(t)
    <3>1. ~Entering(t, s)' /\ ~WakingUp(t, s)' /\ Below(s)' = Below(s)
      BY <1>2, <1>4, <2>2 DEF Entering, WakingUp, Below
    <3> QED BY <2>1, <3>1 DEF CountMoves
  <2>3. CASE s = sem(t) /\ l = "down_unlock"
    <3>1. call(t)' = "down" /\ ~WakingUp(t, s)' /\ (Entering(t, s)' <=> v'[t] < 0)
      BY <1>1, <1>2, <2>3, CallOf DEF Entering, WakingUp, DownLabels
    <3>2. value'[s] = value[s] - 1 /\ v'[t] = value[s] - 1 /\ value[s] \in Int
      BY <1>1, <1>4, <2>3
    <3>3. Below(s)' = Below(s) + (IF value[s] <= 0 THEN 1 ELSE 0)
      BY <3>2 DEF Below
    <3>4. Below(s) \in Int /\ (Entering(t, s)' <=> value[s] <= 0)
      BY <3>1, <3>2 DEF Below
    <3> QED BY <2>1, <3>1, <3>3, <3>4 DEF CountMoves
  <2>4. CASE s = sem(t) /\ l = "up_unlock"
    <3>1. call(t)' = "up" /\ ~Entering(t, s)' /\ (WakingUp(t, s)' <=> v'[t] <= 0)
      BY <1>1, <1>2, <2>4, CallOf DEF Entering, WakingUp, UpLabels
    <3>2. value'[s] = value[s] + 1 /\ v'[t] = value[s] + 1 /\ value[s] \in Int
      BY <1>1, <1>4, <2>4
    <3>3. Below(s)' = Below(s) - (IF value[s] < 0 THEN 1 ELSE 0)
      BY <3>2 DEF Below
    <3>4. Below(s) \in Int
      BY <3>2 DEF Below
    <3> QED BY <2>1, <3>1, <3>2, <3>3, <3>4 DEF CountMoves
  <2> QED BY <2>2, <2>3, <2>4, <1>1
<1>6. l \notin KernelLabels
  BY <1>1 DEF KernelLabels
<1>7. l \in {"down_store", "down_unlock", "down_test", "up_store"} => v'[t] = value'[sem(t)]
  BY <1>4
<1>8. Locked(t)
  BY <1>1, <1>4 DEF Locked, InLock
<1> QED BY <1>1, <1>2, <1>3, <1>4, <1>5, <1>6, <1>7, <1>8, GoOnCount

LEMMA UnlockCount ==
  ASSUME CountInv, SemInv', NEW t \in Tasks, down_unlock(t) \/ up_unlock(t)
  PROVE  CountInv'
<1>1. PICK l \in {"down_test", "up_test"} :
        /\ Running(t) /\ Goto(t, l) /\ UNCHANGED <<coreVars, argVars, value, active, userVars>>
        /\ pc[t] \in {"down_unlock", "up_unlock"}
        /\ l = "down_test" => pc[t] = "down_unlock"
        /\ l = "up_test" => pc[t] = "up_unlock"
  BY DEF down_unlock, up_unlock, unlock_step, At
<1>2. l \in SemLabels /\ pc'[t] = l /\ call(t)' = call(t) /\ sem(t)' = sem(t) /\ v' = v
      /\ ip' = ip
  BY <1>1, CallKept, GotoTypes DEF SemLabels, CountInv, SemInv, userVars
<1>3. \/ l \in DownLabels /\ call(t) = "down"
      \/ l \in UpLabels /\ call(t) = "up"
  BY <1>1, CallOf DEF DownLabels, UpLabels
<1>4. l \in {"down_store", "down_unlock", "down_test", "up_store"} => v'[t] = value'[sem(t)]
  BY <1>1, <1>2 DEF CountInv, Local
<1>5. \A s \in Sems : CountMoves(t, s, 0)
  BY <1>1, <1>2 DEF CountMoves, Below, Entering, WakingUp
<1>6. l \notin KernelLabels
  BY <1>1 DEF KernelLabels
<1> QED BY <1>1, <1>2, <1>3, <1>4, <1>5, <1>6, GoOnCount DEF Locked

(* Nobody comes into a line while another task runs.                        *)
LEMMA NoComers ==
  ASSUME CountInv, NEW t \in Tasks, Running(t), NEW s \in Sems, ~Entering(t, s)
  PROVE  Len(queues[s]) = Cardinality(Wakers(s)) + Below(s)
<1>1. \A u \in Tasks : u \notin Comers(s)
  BY OthersOutside DEF Comers, Entering, WindowLabels
<1>2. Cardinality(Comers(s)) = 0 /\ Len(queues[s]) \in Nat
  <2>1. s \in Queues /\ queues[s] \in Seq(Tasks)
    BY SemaphoreAssumption DEF CountInv, SemInv, QueuesOK, Queues
  <2> QED BY <1>1, <2>1, SizeTypes, LenProperties
<1> QED BY <1>2 DEF CountInv, Counted

(* A sem_up that has to wake somebody finds somebody in line.               *)
LEMMA WakerFinds ==
  ASSUME CountInv, NEW t \in Tasks, Running(t), NEW s \in Sems, WakingUp(t, s)
  PROVE  queues[s] # << >>
<1>1. ~Entering(t, s)
  BY DEF Entering, WakingUp
<1>2. Len(queues[s]) = Cardinality(Wakers(s)) + Below(s)
  BY <1>1, NoComers
<1>3. Cardinality(Wakers(s)) \in Nat \ {0}
  BY SizeTypes DEF Wakers
<1>4. Below(s) \in Nat
  BY DEF CountInv, SemInv, TypeOK, Below
<1>5. Len(queues[s]) # 0
  BY <1>2, <1>3, <1>4
<1> QED BY <1>5, EmptySeq

LEMMA ReturnsCount ==
  ASSUME CountInv, SemInv', NEW t \in Tasks,
         \/ down_test(t) /\ ~must_wait(t)
         \/ sem_return(t)
         \/ up_test(t) /\ ~(someone_waits(t) /\ queues[sem(t)] # << >>)
  PROVE  CountInv'
<1>1. /\ Running(t) /\ return(t) /\ UNCHANGED <<coreVars, argVars, semVars>>
      /\ pc[t] \in {"down_test", "sem_return", "up_test"}
      /\ pc[t] = "down_test" => ~(v[t] < 0)
      /\ pc[t] = "up_test" => ~(v[t] <= 0 /\ queues[sem(t)] # << >>)
  BY DEF down_test, sem_return, up_test, At, must_wait, someone_waits
<1>2. ASSUME NEW s \in Sems PROVE ~Entering(t, s) /\ ~WakingUp(t, s)
  <2>1. ~Entering(t, s)
    BY <1>1 DEF Entering
  <2>2. ASSUME WakingUp(t, s) PROVE FALSE
    <3>1. queues[s] # << >>
      BY <1>1, <2>2, WakerFinds
    <3>2. sem(t) = s /\ v[t] <= 0 /\ call(t) = "up" /\ pc[t] = "up_test"
      BY <1>1, <2>2 DEF WakingUp
    <3> QED BY <1>1, <3>1, <3>2
  <2> QED BY <2>1, <2>2
<1> QED BY <1>1, <1>2, ReturnCount

LEMMA SuspendCount ==
  ASSUME CountInv, SemInv', NEW t \in Tasks, down_test(t), must_wait(t)
  PROVE  CountInv'
<1>1. /\ Running(t) /\ pc[t] = "down_test" /\ v[t] < 0
      /\ call_suspend(t, sem(t), "sem_return") /\ UNCHANGED <<coreVars, semVars, userVars>>
  BY DEF down_test, At, must_wait
<1>2. /\ pc'[t] = "suspend_remove" /\ \A u \in Tasks : u # t => pc'[u] = pc[u]
  BY <1>1, GotoTypes DEF CountInv, SemInv, call_suspend, KernelLabels
<1>3. /\ Moves(t) /\ queues' = queues /\ curr' = curr /\ active' = active /\ value' = value
      /\ NoNullResume' /\ call(t)' = call(t) /\ sem(t)' = sem(t) /\ back'[t] = "sem_return"
  BY <1>1, <1>2, CallKept DEF Moves, coreVars, semVars, userVars, CountInv, NoNullResume,
     call_suspend, SemInv, TypeOK, KernelTypeOK
<1>4. call(t) = "down" /\ value[sem(t)] < 0
  BY <1>1, CallOf DEF CountInv, Local, DownLabels
<1>5. Local(t)'
  BY <1>1, <1>2, <1>3, <1>4 DEF Local, Running, DownLabels, KernelLabels, WindowLabels
<1>6. \A s \in Sems : CountMoves(t, s, 0)
  BY <1>1, <1>2, <1>3, <1>4 DEF CountMoves, Below, Entering, WakingUp
<1> QED BY <1>1, <1>3, <1>5, <1>6, QuietCount DEF Locked

LEMMA UpTestCount ==
  ASSUME CountInv, SemInv', NEW t \in Tasks, up_test(t), someone_waits(t), queues[sem(t)] # << >>
  PROVE  CountInv'
<1>1. /\ Running(t) /\ pc[t] = "up_test" /\ v[t] <= 0
      /\ Goto(t, "up_head") /\ UNCHANGED <<coreVars, argVars, semVars, userVars>>
  BY DEF up_test, At, someone_waits
<1>2. "up_head" \in SemLabels /\ pc'[t] = "up_head" /\ call(t) = "up" /\ "up_head" \in UpLabels
      /\ "up_head" \notin KernelLabels
  BY <1>1, CallOf, GotoTypes DEF SemLabels, CountInv, SemInv, UpLabels, KernelLabels
<1>3. v' = v /\ call(t)' = call(t) /\ sem(t)' = sem(t) /\ ip' = ip /\ value' = value
      /\ active' = active
  BY <1>1, CallKept DEF userVars, semVars
<1>4. \A s \in Sems : CountMoves(t, s, 0)
  BY <1>1, <1>2, <1>3 DEF CountMoves, Below, Entering, WakingUp
<1> QED BY <1>1, <1>2, <1>3, <1>4, GoOnCount DEF Locked

LEMMA UpHeadCount ==
  ASSUME CountInv, SemInv', NEW t \in Tasks, up_head(t)
  PROVE  CountInv'
<1>1. /\ Running(t) /\ pc[t] = "up_head"
      /\ call_resume(t, head_of(sem(t)), sem(t), "sem_return")
      /\ UNCHANGED <<curr, queues, semVars, userVars>>
  BY DEF up_head, At, resume_head
<1>2. call(t) = "up" /\ sem(t) \in Sems /\ v[t] <= 0 /\ sem(t) \in Queues
  BY <1>1, CallOf DEF CountInv, Local, UpLabels
<1>3. queues[sem(t)] # << >>
  BY <1>1, <1>2, WakerFinds DEF WakingUp
<1>4. head_of(sem(t)) = Head(queues[sem(t)]) /\ Head(queues[sem(t)]) \in Tasks
  BY <1>2, <1>3, HeadIn DEF head_of, CountInv, SemInv
<1>5. /\ Goto(t, "resume_remove") /\ os' = os
      /\ arg_task' = [arg_task EXCEPT ![t] = Head(queues[sem(t)])]
      /\ arg_queue' = [arg_queue EXCEPT ![t] = sem(t)]
      /\ back' = [back EXCEPT ![t] = "sem_return"]
  BY <1>1, <1>4, KernelAssumption DEF call_resume
<1>6. pc'[t] = "resume_remove" /\ \A u \in Tasks : u # t => pc'[u] = pc[u]
  BY <1>5, GotoTypes DEF CountInv, SemInv, KernelLabels
<1>7. /\ Moves(t) /\ queues' = queues /\ curr' = curr /\ active' = active /\ value' = value
      /\ NoNullResume' /\ call(t)' = call(t) /\ sem(t)' = sem(t) /\ v' = v
      /\ back'[t] = "sem_return" /\ arg_task'[t] = Head(queues[sem(t)])
  BY <1>1, <1>5, <1>6, CallKept DEF Moves, semVars, userVars, CountInv, NoNullResume,
     SemInv, TypeOK, KernelTypeOK
<1>8. Local(t)'
  BY <1>1, <1>2, <1>3, <1>6, <1>7 DEF Local, Running, UpLabels, KernelLabels, WindowLabels
<1>9. \A s \in Sems : CountMoves(t, s, 0)
  BY <1>1, <1>2, <1>6, <1>7 DEF CountMoves, Below, Entering, WakingUp
<1> QED BY <1>1, <1>7, <1>8, <1>9, QuietCount DEF Locked

-----------------------------------------------------------------------------
(* The steps of task_suspend and task_resume.                               *)

(* Queues and positions of the running task t inside them.                  *)
LEMMA KernelView ==
  ASSUME CountInv, SemInv', NEW t \in Tasks, SuspendResume(t), UNCHANGED <<semVars, userVars>>
  PROVE  /\ Running(t) /\ curr = t /\ QueuesOK
         /\ sem(t) \in Sems /\ sem(t) \in Queues /\ sem(t) # "ready" /\ "ready" \in Queues
         /\ pc[t] \in {"suspend_remove", "suspend_append", "suspend_switch"} => call(t) = "down"
         /\ pc[t] \in {"resume_remove", "resume_append"} => call(t) = "up"
         /\ back[t] = "sem_return"
         /\ pc[t] \in {"suspend_remove", "suspend_append"} => arg_queue[t] = sem(t)
         /\ pc[t] \in {"resume_remove", "resume_append"} =>
              arg_queue[t] = sem(t) /\ arg_task[t] \in Tasks
         /\ \A u \in Tasks : u # t => pc'[u] = pc[u]
         /\ Moves(t) /\ active' = active /\ value' = value /\ v' = v
         /\ NoNullResume' /\ call(t)' = call(t) /\ sem(t)' = sem(t)
<1>1. /\ Running(t) /\ pc[t] \in KernelLabels /\ os' = os
      /\ \E l : Goto(t, l)
      /\ \A u \in Tasks : u # t => /\ back'[u] = back[u]
                                   /\ arg_task'[u] = arg_task[u] /\ arg_queue'[u] = arg_queue[u]
  BY DEF SuspendResume, suspend_remove, suspend_append, suspend_switch, resume_remove,
         resume_append, KernelLabels, argVars, CountInv, SemInv, TypeOK, KernelTypeOK
<1>2. \A u \in Tasks : u # t => pc'[u] = pc[u]
  BY <1>1 DEF Goto, CountInv, SemInv, TypeOK, KernelTypeOK
<1>3. /\ sem(t) \in Sems /\ sem(t) \in Queues /\ sem(t) # "ready" /\ "ready" \in Queues
      /\ pc[t] \in {"suspend_remove", "suspend_append", "suspend_switch"} => call(t) = "down"
      /\ pc[t] \in {"resume_remove", "resume_append"} => call(t) = "up"
  BY CallOf DEF DownLabels, UpLabels, Queues
<1>4. Moves(t) /\ active' = active /\ value' = value /\ v' = v /\ call(t)' = call(t) /\ sem(t)' = sem(t)
  BY <1>1, <1>2, CallKept DEF Moves, semVars, userVars
<1>5. curr = t /\ QueuesOK /\ back[t] = "sem_return" /\ NoNullResume' /\ Frame(t)
  BY <1>1 DEF Running, CountInv, SemInv, Local, NoNullResume
<1> QED BY <1>1, <1>2, <1>3, <1>4, <1>5 DEF Frame, KernelLabels

LEMMA SameLength ==
  ASSUME CountInv, NEW s \in Sems, queues'[s] = queues[s]
  PROVE  Len(queues'[s]) = Len(queues[s]) + 0
<1>1. s \in Queues /\ queues[s] \in Seq(Tasks)
  BY SemaphoreAssumption DEF CountInv, SemInv, QueuesOK, Queues
<1> QED BY <1>1, LenProperties

LEMMA SuspendRemoveCount ==
  ASSUME CountInv, SemInv', NEW t \in Tasks, suspend_remove(t), UNCHANGED <<semVars, userVars>>
  PROVE  CountInv'
<1>0. /\ Running(t) /\ curr = t /\ QueuesOK /\ call(t) = "down" /\ back[t] = "sem_return"
      /\ sem(t) \in Queues /\ sem(t) # "ready" /\ "ready" \in Queues
      /\ Moves(t) /\ active' = active /\ value' = value /\ v' = v
      /\ NoNullResume' /\ call(t)' = call(t) /\ sem(t)' = sem(t)
  BY KernelView DEF SuspendResume, suspend_remove
<1>1. /\ pc[t] = "suspend_remove" /\ queue_remove("ready", t) /\ Goto(t, "suspend_append")
      /\ curr' = curr /\ back' = back
  BY DEF suspend_remove, argVars
<1>2. pc'[t] = "suspend_append"
  BY <1>1, GotoTypes DEF CountInv, SemInv, KernelLabels
<1>3. \A p \in Queues, u \in Tasks : In(p, u)' <=> In(p, u) /\ ~(p = "ready" /\ u = t)
  BY <1>0, <1>1, RemoveMembers
<1>4. In("ready", t)
  BY <1>0, <1>1 DEF CountInv, RunsFromReady
<1>5. \A q \in Queues : ~In(q, t)'
  BY <1>0, <1>3, <1>4 DEF QueuesOK
<1>6. value[sem(t)] < 0
  BY <1>1 DEF CountInv, Local
<1>7. Local(t)'
  BY <1>0, <1>1, <1>2, <1>5, <1>6 DEF Local, DownLabels, KernelLabels, WindowLabels
<1>8. \A u \in Tasks : Local(u)'
  BY <1>0, <1>7, LocalKept DEF Locked
<1>9. RunsFromReady'
  BY <1>0, <1>1, <1>2 DEF RunsFromReady
<1>10. InLine'
  <2> SUFFICES ASSUME NEW s \in Sems, NEW u \in Tasks, In(s, u)'
               PROVE  sem(u)' = s /\ call(u)' = "down" /\ pc'[u] \in {"suspend_switch", "sem_return"}
    BY DEF InLine
  <2>1. In(s, u) /\ u # t
    BY <1>3, <1>5, SemaphoreAssumption DEF Queues
  <2> QED BY <2>1, <1>0, CallKept DEF Moves, CountInv, InLine
<1>11. ASSUME NEW s \in Sems PROVE Counted(s)'
  <2>1. queues'[s] = queues[s]
    <3>1. s \in Queues /\ s # "ready"
      BY SemaphoreAssumption DEF Queues
    <3> QED BY <3>1, <1>0, <1>1 DEF queue_remove, QueuesOK
  <2>2. CountMoves(t, s, 0)
    BY <1>0, <1>1, <1>2 DEF CountMoves, Below, Entering, WakingUp
  <2> QED BY <1>0, <2>1, <2>2, SameLength, CountStep
<1> QED BY <1>0, <1>8, <1>9, <1>10, <1>11 DEF CountInv

LEMMA SuspendAppendCount ==
  ASSUME CountInv, SemInv', NEW t \in Tasks, suspend_append(t), UNCHANGED <<semVars, userVars>>
  PROVE  CountInv'
<1>0. /\ Running(t) /\ curr = t /\ QueuesOK /\ call(t) = "down" /\ back[t] = "sem_return"
      /\ sem(t) \in Queues /\ sem(t) # "ready" /\ sem(t) \in Sems
      /\ Moves(t) /\ active' = active /\ value' = value /\ v' = v
      /\ NoNullResume' /\ call(t)' = call(t) /\ sem(t)' = sem(t)
  BY KernelView DEF SuspendResume, suspend_append
<1>1. /\ pc[t] = "suspend_append" /\ queue_append(sem(t), t) /\ Goto(t, "suspend_switch")
      /\ curr' = curr /\ back' = back
  BY KernelView DEF SuspendResume, suspend_append, argVars
<1>2. pc'[t] = "suspend_switch"
  BY <1>1, GotoTypes DEF CountInv, SemInv, KernelLabels
<1>3. ~Linked(t)
  BY <1>1 DEF CountInv, Local, Linked, In
<1>4. \A p \in Queues, u \in Tasks : In(p, u)' <=> In(p, u) \/ (p = sem(t) /\ u = t)
  BY <1>0, <1>1, <1>3, AppendMembers
<1>5. Local(t)'
  BY <1>0, <1>1, <1>2 DEF Local, DownLabels, KernelLabels, WindowLabels
<1>6. \A u \in Tasks : Local(u)'
  BY <1>0, <1>5, LocalKept DEF Locked
<1>7. RunsFromReady'
  BY <1>0, <1>1, <1>2 DEF RunsFromReady
<1>8. InLine'
  <2> SUFFICES ASSUME NEW s \in Sems, NEW u \in Tasks, In(s, u)'
               PROVE  sem(u)' = s /\ call(u)' = "down" /\ pc'[u] \in {"suspend_switch", "sem_return"}
    BY DEF InLine
  <2>1. s \in Queues
    BY SemaphoreAssumption DEF Queues
  <2>2. CASE u = t
    <3>1. s = sem(t)
      <4>1. ~In(s, t)
        BY <1>1, <2>1 DEF CountInv, Local
      <4> QED BY <1>4, <2>1, <2>2, <4>1
    <3> QED BY <3>1, <2>2, <1>0, <1>2
  <2>3. CASE u # t
    <3>1. In(s, u)
      BY <1>4, <2>1, <2>3
    <3> QED BY <3>1, <2>3, CallKept, <1>0 DEF Moves, CountInv, InLine
  <2> QED BY <2>2, <2>3
<1>9. ASSUME NEW s \in Sems PROVE Counted(s)'
  <2>1. queues' = [queues EXCEPT ![sem(t)] = Append(@, t)] /\ s \in Queues /\ queues[s] \in Seq(Tasks)
    BY <1>0, <1>1, <1>3, SemaphoreAssumption DEF queue_append, QueuesOK, Queues
  <2>2. CASE s = sem(t)
    <3>1. Len(queues'[s]) = Len(queues[s]) + 1
      BY <1>0, <2>1, <2>2, AppendProperties DEF QueuesOK
    <3>2. CountMoves(t, s, 1)
      BY <1>0, <1>1, <1>2, <2>2 DEF CountMoves, Below, Entering, WakingUp
    <3> QED BY <1>0, <3>1, <3>2, CountStep
  <2>3. CASE s # sem(t)
    <3>1. queues'[s] = queues[s]
      BY <2>1, <2>3
    <3>2. CountMoves(t, s, 0)
      BY <1>0, <1>1, <1>2, <2>3 DEF CountMoves, Below, Entering, WakingUp
    <3> QED BY <1>0, <3>1, <3>2, SameLength, CountStep
  <2> QED BY <2>2, <2>3
<1> QED BY <1>0, <1>6, <1>7, <1>8, <1>9 DEF CountInv

LEMMA SuspendSwitchCount ==
  ASSUME CountInv, SemInv', NEW t \in Tasks, suspend_switch(t), UNCHANGED <<semVars, userVars>>
  PROVE  CountInv'
<1>0. /\ Running(t) /\ curr = t /\ QueuesOK /\ call(t) = "down" /\ back[t] = "sem_return"
      /\ Moves(t) /\ active' = active /\ value' = value /\ v' = v
      /\ NoNullResume' /\ call(t)' = call(t) /\ sem(t)' = sem(t)
  BY KernelView DEF SuspendResume, suspend_switch
<1>1. /\ pc[t] = "suspend_switch" /\ Goto(t, "sem_return") /\ curr' = Dispatcher /\ queues' = queues
  BY <1>0 DEF suspend_switch, switch_to_dispatcher
<1>2. pc'[t] = "sem_return"
  BY <1>1, GotoTypes DEF CountInv, SemInv, SemLabels
<1>3. Local(t)'
  BY <1>0, <1>2 DEF Local, DownLabels, KernelLabels, WindowLabels
<1>4. \A u \in Tasks : Local(u)'
  BY <1>0, <1>3, LocalKept DEF Locked
<1>5. RunsFromReady'
  BY <1>1, KernelAssumption DEF RunsFromReady
<1>6. InLine'
  <2> SUFFICES ASSUME NEW s \in Sems, NEW u \in Tasks, In(s, u)
               PROVE  sem(u)' = s /\ call(u)' = "down" /\ pc'[u] \in {"suspend_switch", "sem_return"}
    BY <1>1 DEF InLine, In
  <2>1. sem(u) = s /\ call(u) = "down" /\ pc[u] \in {"suspend_switch", "sem_return"}
    BY DEF CountInv, InLine
  <2> QED BY <2>1, <1>0, <1>2, CallKept DEF Moves
<1>7. ASSUME NEW s \in Sems PROVE Counted(s)'
  <2>1. CountMoves(t, s, 0)
    BY <1>0, <1>1, <1>2 DEF CountMoves, Below, Entering, WakingUp
  <2> QED BY <1>0, <1>1, <2>1, SameLength, CountStep
<1> QED BY <1>0, <1>4, <1>5, <1>6, <1>7 DEF CountInv

LEMMA ResumeRemoveCount ==
  ASSUME CountInv, SemInv', NEW t \in Tasks, resume_remove(t), UNCHANGED <<semVars, userVars>>
  PROVE  CountInv'
<1>0. /\ Running(t) /\ curr = t /\ QueuesOK /\ call(t) = "up" /\ back[t] = "sem_return"
      /\ sem(t) \in Queues /\ sem(t) # "ready" /\ sem(t) \in Sems /\ "ready" \in Queues
      /\ arg_task[t] \in Tasks
      /\ Moves(t) /\ active' = active /\ value' = value /\ v' = v
      /\ NoNullResume' /\ call(t)' = call(t) /\ sem(t)' = sem(t)
  BY KernelView DEF SuspendResume, resume_remove
<1>1. /\ pc[t] = "resume_remove" /\ queue_remove(sem(t), arg_task[t]) /\ Goto(t, "resume_append")
      /\ curr' = curr /\ back' = back
  BY KernelView DEF SuspendResume, resume_remove, argVars
<1>2. pc'[t] = "resume_append"
  BY <1>1, GotoTypes DEF CountInv, SemInv, KernelLabels
<1>3. \A p \in Queues, u \in Tasks : In(p, u)' <=> In(p, u) /\ ~(p = sem(t) /\ u = arg_task[t])
  BY <1>0, <1>1, RemoveMembers
<1>4. v[t] <= 0 /\ queues[sem(t)] # << >> /\ arg_task[t] = Head(queues[sem(t)])
  BY <1>1 DEF CountInv, Local
<1>5. Local(t)'
  BY <1>0, <1>1, <1>2 DEF Local, UpLabels, KernelLabels, WindowLabels
<1>6. \A u \in Tasks : Local(u)'
  BY <1>0, <1>5, LocalKept DEF Locked
<1>7. RunsFromReady'
  <2>1. In("ready", t)
    BY <1>0, <1>1 DEF CountInv, RunsFromReady
  <2> QED BY <1>0, <1>1, <1>3, <2>1 DEF RunsFromReady
<1>8. InLine'
  <2> SUFFICES ASSUME NEW s \in Sems, NEW u \in Tasks, In(s, u)'
               PROVE  sem(u)' = s /\ call(u)' = "down" /\ pc'[u] \in {"suspend_switch", "sem_return"}
    BY DEF InLine
  <2>1. In(s, u) /\ u # t
    <3>1. s \in Queues
      BY SemaphoreAssumption DEF Queues
    <3>2. In(s, u)
      BY <1>3, <3>1
    <3>3. ~In(s, t)
      BY <1>0, <1>1, RunningNotInLine
    <3> QED BY <3>2, <3>3
  <2> QED BY <2>1, <1>0, CallKept DEF Moves, CountInv, InLine
<1>9. ASSUME NEW s \in Sems PROVE Counted(s)'
  <2>1. queues' = [queues EXCEPT ![sem(t)] = Without(@, arg_task[t])] /\ s \in Queues
        /\ queues[s] \in Seq(Tasks) /\ Injective(queues[s])
    BY <1>0, <1>1, SemaphoreAssumption DEF queue_remove, QueuesOK, Queues
  <2>2. CASE s = sem(t)
    <3>1. queues'[s] = Tail(queues[s]) /\ Len(queues'[s]) = Len(queues[s]) - 1
          /\ Len(queues[s]) \in Nat
      BY <1>0, <1>4, <2>1, <2>2, HeadGone DEF QueuesOK
    <3>2. CountMoves(t, s, -1)
      BY <1>0, <1>1, <1>2, <1>4, <2>2 DEF CountMoves, Below, Entering, WakingUp
    <3>3. Len(queues'[s]) = Len(queues[s]) + (-1)
      BY <3>1
    <3> QED BY <1>0, <3>2, <3>3, CountStep
  <2>3. CASE s # sem(t)
    <3>1. queues'[s] = queues[s]
      BY <1>0, <2>1, <2>3 DEF QueuesOK
    <3>2. CountMoves(t, s, 0)
      BY <1>0, <1>1, <1>2, <2>3 DEF CountMoves, Below, Entering, WakingUp
    <3> QED BY <1>0, <3>1, <3>2, SameLength, CountStep
  <2> QED BY <2>2, <2>3
<1> QED BY <1>0, <1>6, <1>7, <1>8, <1>9 DEF CountInv

LEMMA ResumeAppendCount ==
  ASSUME CountInv, SemInv', NEW t \in Tasks, resume_append(t), UNCHANGED <<semVars, userVars>>
  PROVE  CountInv'
<1>0. /\ Running(t) /\ curr = t /\ QueuesOK /\ call(t) = "up" /\ back[t] = "sem_return"
      /\ "ready" \in Queues /\ arg_task[t] \in Tasks
      /\ Moves(t) /\ active' = active /\ value' = value /\ v' = v
      /\ NoNullResume' /\ call(t)' = call(t) /\ sem(t)' = sem(t)
  BY KernelView DEF SuspendResume, resume_append
<1>1. /\ pc[t] = "resume_append" /\ queue_append("ready", arg_task[t]) /\ Goto(t, "sem_return")
      /\ curr' = curr
  BY <1>0 DEF resume_append
<1>2. pc'[t] = "sem_return"
  BY <1>1, GotoTypes DEF CountInv, SemInv, SemLabels
<1>3. \A p \in Queues, u \in Tasks :
        In(p, u)' <=> In(p, u) \/ (p = "ready" /\ u = arg_task[t] /\ ~Linked(arg_task[t]))
  BY <1>0, <1>1, AppendMembers
<1>4. Local(t)'
  BY <1>0, <1>1, <1>2 DEF Local, UpLabels, KernelLabels, WindowLabels
<1>5. \A u \in Tasks : Local(u)'
  BY <1>0, <1>4, LocalKept DEF Locked
<1>6. RunsFromReady'
  <2>1. In("ready", t)
    BY <1>0, <1>1 DEF CountInv, RunsFromReady
  <2> QED BY <1>0, <1>1, <1>3, <2>1 DEF RunsFromReady
<1>7. InLine'
  <2> SUFFICES ASSUME NEW s \in Sems, NEW u \in Tasks, In(s, u)'
               PROVE  sem(u)' = s /\ call(u)' = "down" /\ pc'[u] \in {"suspend_switch", "sem_return"}
    BY DEF InLine
  <2>1. In(s, u) /\ u # t
    <3>1. s \in Queues /\ s # "ready"
      BY SemaphoreAssumption DEF Queues
    <3>2. In(s, u)
      BY <1>3, <3>1
    <3>3. ~In(s, t)
      BY <1>0, <1>1, RunningNotInLine
    <3> QED BY <3>2, <3>3
  <2> QED BY <2>1, <1>0, CallKept DEF Moves, CountInv, InLine
<1>8. ASSUME NEW s \in Sems PROVE Counted(s)'
  <2>1. queues'[s] = queues[s]
    <3>1. s \in Queues /\ s # "ready"
      BY SemaphoreAssumption DEF Queues
    <3> QED BY <3>1, <1>0, <1>1 DEF queue_append, QueuesOK
  <2>2. CountMoves(t, s, 0)
    BY <1>0, <1>1, <1>2 DEF CountMoves, Below, Entering, WakingUp
  <2> QED BY <1>0, <2>1, <2>2, SameLength, CountStep
<1> QED BY <1>0, <1>5, <1>6, <1>7, <1>8 DEF CountInv

-----------------------------------------------------------------------------
(* The timer and the dispatcher.                                            *)
LEMMA FrozenCount ==
  ASSUME CountInv, SemInv', UNCHANGED <<queues, frameVars, semVars, userVars>>, NoNullResume',
         RunsFromReady', \A t \in Tasks : pc[t] \in WindowLabels => curr' = t
  PROVE  CountInv'
<1>1. \A t \in Tasks : Local(t)'
  BY DEF CountInv, Local, frameVars, argVars, semVars, userVars, call, sem, In
<1>2. InLine'
  BY DEF CountInv, InLine, frameVars, userVars, call, sem, In
<1>3. \A s \in Sems : Counted(s)'
  BY DEF CountInv, Counted, Comers, Wakers, Below, Entering, WakingUp, frameVars, semVars,
         userVars, call, sem
<1> QED BY <1>1, <1>2, <1>3 DEF CountInv, semVars

(* The quantum ends at no label of a window.                                *)
LEMMA TickCount ==
  ASSUME HandedOver, CountInv, SemInv', Tick, UNCHANGED <<semVars, userVars>>
  PROVE  CountInv'
<1>1. UNCHANGED <<queues, frameVars, os>>
  BY DEF Tick
<1>2. curr' = curr \/ (curr' = Dispatcher /\ pc[curr] \in Preemptible)
  BY DEF Tick, switch_to_dispatcher
<1>3. RunsFromReady'
  BY <1>1, <1>2, KernelAssumption DEF RunsFromReady, In, frameVars, CountInv
<1>4. \A t \in Tasks : pc[t] \in WindowLabels => curr' = t
  <2>1. \A t \in Tasks : pc[t] \in WindowLabels => curr = t
    BY DEF CountInv, Local
  <2>2. \A t \in Tasks : pc[t] \in WindowLabels => pc[t] \notin Preemptible
    BY DEF HandedOver, HandOver, Anywhere, WindowLabels
  <2> QED BY <1>2, <2>1, <2>2
<1>5. NoNullResume'
  BY <1>1 DEF CountInv, NoNullResume
<1> QED BY <1>1, <1>3, <1>4, <1>5, FrozenCount

LEMMA DispatchCount ==
  ASSUME CountInv, SemInv', Dispatch, UNCHANGED <<semVars, userVars>>
  PROVE  CountInv'
<1>1. UNCHANGED <<queues, frameVars, os>> /\ curr = Dispatcher
  BY NobodyDue DEF Dispatch, CountInv, Running
<1>2. PICK next \in Tasks : Chosen(queues["ready"], next) /\ curr' = next
  BY <1>1 DEF Dispatch
<1>3. RunsFromReady'
  <2>1. In("ready", next)
    BY <1>2 DEF Chosen, In, Contains
  <2> QED BY <1>1, <1>2, <2>1 DEF RunsFromReady, In
<1>4. \A t \in Tasks : pc[t] \in WindowLabels => curr' = t
  BY <1>1, KernelAssumption DEF CountInv, Local
<1>5. NoNullResume'
  BY <1>1 DEF CountInv, NoNullResume
<1> QED BY <1>1, <1>3, <1>4, <1>5, FrozenCount

LEMMA CountInit == Init => CountInv
<1> SUFFICES ASSUME Init PROVE CountInv
  OBVIOUS
<1>1. PICK readyq : Booted(readyq)
  BY DEF Init
<1>2. SemInv /\ NoNullResume /\ active = [s \in Sems |-> 1] /\ curr = Dispatcher
      /\ \A t \in Tasks : pc[t] = "user"
  BY <1>1, InitInv DEF Booted, NoNullResume
<1>3. \A t \in Tasks : Local(t)
  BY <1>2 DEF Local, DownLabels, UpLabels, KernelLabels, WindowLabels
<1>4. RunsFromReady
  BY <1>2, KernelAssumption DEF RunsFromReady
<1>5. \A s \in Sems : s \in Queues /\ queues[s] = << >> /\ value[s] = InitialValue[s]
  BY <1>1, SemaphoreAssumption DEF Booted, Queues
<1>6. InLine
  BY <1>5, EmptySeq DEF InLine, In, Contains
<1>7. ASSUME NEW s \in Sems PROVE Counted(s)
  <2>1. Comers(s) = {} /\ Wakers(s) = {}
    BY <1>2, Uncounted DEF Comers, Wakers
  <2>2. Cardinality(Comers(s)) = 0 /\ Cardinality(Wakers(s)) = 0
    BY <2>1, FS_EmptySet
  <2>3. Len(queues[s]) = 0 /\ Below(s) = 0
    <3>1. value[s] \in Nat
      BY <1>5, SemaphoreAssumption
    <3> QED BY <1>5, <3>1, EmptySeq DEF Below
  <2> QED BY <2>2, <2>3 DEF Counted
<1> QED BY <1>2, <1>3, <1>4, <1>6, <1>7 DEF CountInv

LEMMA StepCount ==
  ASSUME HandedOver, CountInv, SemInv', NEW t \in Tasks, Step(t)
  PROVE  CountInv'
<1>1. call(t) # "destroy"
  BY CallTypes DEF HandedOver, CountInv, SemInv, call
<1>2. pc[t] \notin {"destroy_loop", "destroy_head"}
  BY DEF CountInv, Local, DownLabels, UpLabels
<1>3. ~(sem_destroy(t) \/ destroy_loop(t) \/ destroy_head(t))
  BY <1>1, <1>2 DEF sem_destroy, destroy_loop, destroy_head, At
<1>4. CASE \/ sem_down(t) \/ down_lock(t) \/ down_load(t) \/ down_store(t) \/ down_unlock(t)
           \/ sem_up(t) \/ up_lock(t) \/ up_load(t) \/ up_store(t) \/ up_unlock(t)
  BY <1>4, EnterCount, LockCount, StoreCount, UnlockCount
<1>5. CASE down_test(t) \/ sem_return(t) \/ up_test(t) \/ up_head(t)
  BY <1>5, SuspendCount, ReturnsCount, UpTestCount, UpHeadCount
<1>6. CASE SuspendResume(t) /\ UNCHANGED <<semVars, userVars>>
  BY <1>6, SuspendRemoveCount, SuspendAppendCount, SuspendSwitchCount, ResumeRemoveCount,
     ResumeAppendCount DEF SuspendResume
<1> QED BY <1>3, <1>4, <1>5, <1>6 DEF Step

LEMMA CountNext ==
  ASSUME HandedOver, CountInv, [Next]_vars
  PROVE  CountInv'
<1>1. SemInv'
  BY NextInv DEF CountInv
<1>2. CASE System
  BY <1>1, <1>2, TickCount, DispatchCount DEF System
<1>3. ASSUME NEW t \in Tasks, Step(t) PROVE CountInv'
  BY <1>1, <1>3, StepCount
<1>4. CASE UNCHANGED vars
  <2>1. UNCHANGED <<queues, frameVars, semVars, userVars, curr, os>>
    BY <1>4 DEF vars, kernelVars, coreVars
  <2>2. RunsFromReady' /\ NoNullResume' /\ \A t \in Tasks : pc[t] \in WindowLabels => curr' = t
    BY <2>1 DEF CountInv, RunsFromReady, NoNullResume, Local, In, frameVars
  <2> QED BY <1>1, <2>1, <2>2, FrozenCount
<1> QED BY <1>2, <1>3, <1>4 DEF Next

(* The count of the line holds in every state, for any programs without     *)
(* sem_destroy, when the quantum ends outside the windows only.             *)
THEOREM CountInvariant ==
  ASSUME HandedOver
  PROVE  Spec => []CountInv
<1>1. Init => CountInv
  BY CountInit
<1>2. CountInv /\ [Next]_vars => CountInv'
  BY CountNext
<1> QED BY <1>1, <1>2, PTL DEF Spec

(* A task in line is counted by the value or has a sem_up on its way to it, *)
(* so that sem_up never returns without waking a task that it should wake.  *)
THEOREM NoWakeupLost ==
  ASSUME HandedOver
  PROVE  Spec => []NoLostWakeup
<1>1. CountInv => NoLostWakeup
  <2> SUFFICES ASSUME CountInv, NEW s \in Sems, queues[s] # << >>, value[s] >= 0
               PROVE  \E t \in Tasks : WakingUp(t, s)
    BY DEF NoLostWakeup
  <2>1. Len(queues[s]) \in Nat /\ Len(queues[s]) # 0
    <3>1. s \in Queues /\ queues[s] \in Seq(Tasks)
      BY SemaphoreAssumption DEF CountInv, SemInv, QueuesOK, Queues
    <3> QED BY <3>1, LenProperties, EmptySeq
  <2>2. Below(s) = 0
    BY DEF CountInv, SemInv, TypeOK, Below
  <2>3. Cardinality(Comers(s)) \in Nat /\ Cardinality(Wakers(s)) \in Nat
    BY SizeTypes
  <2>4. Len(queues[s]) + Cardinality(Comers(s)) = Cardinality(Wakers(s)) + Below(s)
    BY DEF CountInv, Counted
  <2> DEFINE l == Len(queues[s])  c == Cardinality(Comers(s))  w == Cardinality(Wakers(s))
  <2>5. w # 0
    <3>1. l \in Nat /\ l # 0 /\ c \in Nat /\ w \in Nat /\ l + c = w + 0
      BY <2>1, <2>2, <2>3, <2>4
    <3> HIDE DEF l, c, w
    <3> QED BY <3>1
  <2>6. Wakers(s) # {}
    BY <2>5, FS_EmptySet
  <2> QED BY <2>6 DEF Wakers
<1> QED BY <1>1, CountInvariant, PTL

(* The second read of s->queue in sem_up is never null, whatever the        *)
(* semaphores are used for.                                                 *)
THEOREM NeverResumesNull ==
  ASSUME HandedOver
  PROVE  Spec => []NoNullResume
<1>1. CountInv => NoNullResume
  BY DEF CountInv
<1> QED BY <1>1, CountInvariant, PTL

-----------------------------------------------------------------------------
(* The refinement of AbsSemaphore, for programs with brackets around every  *)
(* semaphore.  The abstract state of s:                                     *)
Free(s) == IF value[s] > 0 THEN value[s] ELSE 0

InHold(t, s) == Inside(t, s) \/ Granted(t, s) \/ NotGivenBack(t, s)

Holders(s) == {t \in Tasks : InHold(t, s)}

(* The abstract steps and their stuttering.                                 *)
SameLine(s) == queues'[s] = queues[s]
SamePromise(s) == Cardinality(Wakers(s))' = Cardinality(Wakers(s))

TakesOne(t, s) ==
  /\ Free(s) > 0 /\ ~InHold(t, s) /\ ~In(s, t)
  /\ Free(s)' = Free(s) - 1
  /\ Holders(s)' = Holders(s) \cup {t}
  /\ SamePromise(s) /\ SameLine(s)

WaitsInLine(t, s) ==
  /\ Free(s) = 0 /\ ~InHold(t, s) /\ ~In(s, t)
  /\ queues'[s] = Append(queues[s], t)
  /\ Free(s)' = Free(s) /\ SamePromise(s) /\ Holders(s)' = Holders(s)

ReleasesOne(t, s) ==
  /\ InHold(t, s)
  /\ Holders(s)' = Holders(s) \ {t}
  /\ \/ /\ Len(queues[s]) > Cardinality(Wakers(s))
        /\ Cardinality(Wakers(s))' = Cardinality(Wakers(s)) + 1 /\ Free(s)' = Free(s)
     \/ /\ Len(queues[s]) <= Cardinality(Wakers(s))
        /\ Free(s)' = Free(s) + 1 /\ SamePromise(s)
  /\ SameLine(s)

GrantsOne(s) ==
  /\ Cardinality(Wakers(s)) > 0 /\ queues[s] # << >> /\ ~InHold(Head(queues[s]), s)
  /\ Cardinality(Wakers(s))' = Cardinality(Wakers(s)) - 1
  /\ Holders(s)' = Holders(s) \cup {Head(queues[s])}
  /\ queues'[s] = Tail(queues[s])
  /\ Free(s)' = Free(s)

Stutters(s) == Free(s)' = Free(s) /\ SamePromise(s) /\ Holders(s)' = Holders(s) /\ SameLine(s)

AbstractStep(s) ==
  \/ Stutters(s) \/ GrantsOne(s)
  \/ \E t \in Tasks : TakesOne(t, s) \/ WaitsInLine(t, s) \/ ReleasesOne(t, s)

-----------------------------------------------------------------------------
(* What a step of t changes of the abstract state.                          *)
LEMMA InsideIs ==
  ASSUME NEW t, NEW s
  PROVE  /\ Inside(t, s) <=> (pc[t] = "user" \/ sem(t) # s) /\ Holds(t, s, ip[t])
         /\ Inside(t, s)' <=> (pc'[t] = "user" \/ sem(t)' # s) /\ Holds(t, s, ip'[t])
BY DEF Inside, Holds, Down, Up

(* The others hold what they held, and the line kept those who wait.        *)
LEMMA HoldersStep ==
  ASSUME NEW t \in Tasks, Moves(t), NEW s \in Sems, NEW u \in Tasks, u # t, In(s, u)' <=> In(s, u)
  PROVE  InHold(u, s)' <=> InHold(u, s)
<1>1. /\ ip'[u] = ip[u] /\ pc'[u] = pc[u] /\ v'[u] = v[u]
      /\ call(u)' = call(u) /\ sem(u)' = sem(u)
  BY CallKept DEF Moves
<1>2. Inside(u, s)' <=> Inside(u, s)
  BY <1>1, InsideIs
<1> QED BY <1>1, <1>2 DEF InHold, Granted, NotGivenBack, In

(* A step of t that leaves it where it was for the abstract semaphore.      *)
LEMMA StuttersIf ==
  ASSUME NEW t \in Tasks, Moves(t), NEW s \in Sems, queues'[s] = queues[s], Free(s)' = Free(s),
         InHold(t, s)' <=> InHold(t, s), WakingUp(t, s)' <=> WakingUp(t, s)
  PROVE  Stutters(s)
<1>1. Holders(s)' = Holders(s)
  <2>1. \A u \in Tasks : InHold(u, s)' <=> InHold(u, s)
    BY HoldersStep DEF In
  <2> QED BY <2>1 DEF Holders
<1>2. Wakers(s)' = Wakers(s)
  <2>1. \A u \in Tasks : WakingUp(u, s)' <=> WakingUp(u, s)
    BY ViewKept
  <2> QED BY <2>1 DEF Wakers
<1> QED BY <1>1, <1>2 DEF Stutters, SamePromise, SameLine

(* A step of t at its place in the program concerns one semaphore only.     *)
LEMMA StaysAt ==
  ASSUME Bracketed, CountInv, NEW t \in Tasks, ip'[t] = ip[t], NEW s \in Sems
  PROVE  /\ call(t)' = call(t) /\ sem(t)' = sem(t)
         /\ s # sem(t) => /\ InHold(t, s)' <=> InHold(t, s)
                          /\ ~WakingUp(t, s) /\ ~WakingUp(t, s)'
         /\ s = sem(t) => /\ Inside(t, s) <=> pc[t] = "user" /\ call(t) = "up"
                          /\ Inside(t, s)' <=> pc'[t] = "user" /\ call(t) = "up"
<1>1. call(t)' = call(t) /\ sem(t)' = sem(t)
  BY CallKept
<1>2. CASE s # sem(t)
  <2>1. Inside(t, s)' <=> Inside(t, s)
    BY <1>1, <1>2, InsideIs
  <2> QED BY <1>1, <1>2, <2>1 DEF InHold, Granted, NotGivenBack, WakingUp
<1>3. CASE s = sem(t)
  <2>1. Holds(t, s, ip[t]) <=> call(t) = "up"
    BY <1>3, Calls DEF CountInv, SemInv
  <2> QED BY <1>1, <1>3, <2>1, InsideIs
<1> QED BY <1>1, <1>2, <1>3

(* The return of a call: who returns from sem_down is inside.               *)
LEMMA ReturnsAt ==
  ASSUME Bracketed, CountInv, NEW t \in Tasks, return(t), pc[t] # "user", NEW s \in Sems
  PROVE  /\ ~WakingUp(t, s)'
         /\ s # sem(t) => (InHold(t, s)' <=> InHold(t, s)) /\ ~WakingUp(t, s)
         /\ s = sem(t) => (InHold(t, s)' <=> call(t) = "down") /\ ~Inside(t, s)
<1>1. pc'[t] = "user"
  BY GotoTypes DEF CountInv, SemInv, return, SemLabels
<1>2. Holds(t, s, ip'[t]) <=> \/ call(t) = "down" /\ sem(t) = s
                              \/ sem(t) # s /\ Holds(t, s, ip[t])
  BY HoldsAdvance DEF return, CountInv, SemInv
<1>3. /\ ~WakingUp(t, s)' /\ (InHold(t, s)' <=> Holds(t, s, ip'[t]))
      /\ Inside(t, s) <=> sem(t) # s /\ Holds(t, s, ip[t])
  BY <1>1, InsideIs DEF WakingUp, InHold, Granted, NotGivenBack
<1>4. s # sem(t) => ~Granted(t, s) /\ ~NotGivenBack(t, s) /\ ~WakingUp(t, s)
  BY DEF Granted, NotGivenBack, WakingUp
<1> QED BY <1>2, <1>3, <1>4 DEF InHold

-----------------------------------------------------------------------------
(* Every step is an abstract step or a stutter, for every semaphore.        *)

(* The stretches of the two calls in which t is the same for the abstract   *)
(* semaphore.                                                               *)
SameStretch(t) ==
  \/ call(t) = "down" /\ {pc[t], pc'[t]} \subseteq {"user", "down_lock", "down_load", "down_store"}
  \/ /\ call(t) = "down" /\ v' = v
     /\ {pc[t], pc'[t]} \subseteq {"down_unlock", "down_test"}
  \/ /\ call(t) = "down" /\ pc[t] = "down_test" /\ v[t] < 0 /\ pc'[t] = "suspend_remove"
  \/ call(t) = "down" /\ {pc[t], pc'[t]} \subseteq {"suspend_remove", "suspend_append"}
  \/ call(t) = "down" /\ {pc[t], pc'[t]} \subseteq {"suspend_switch", "sem_return"}
  \/ call(t) = "up" /\ {pc[t], pc'[t]} \subseteq {"user", "up_lock", "up_load", "up_store"}
  \/ /\ call(t) = "up" /\ v' = v
     /\ {pc[t], pc'[t]} \subseteq {"up_unlock", "up_test", "up_head", "resume_remove"}
  \/ call(t) = "up" /\ {pc[t], pc'[t]} \subseteq {"resume_append", "sem_return"}

LEMMA StretchStutters ==
  ASSUME Bracketed, CountInv, NEW t \in Tasks, Moves(t), ip'[t] = ip[t], SameStretch(t),
         NEW s \in Sems, queues'[s] = queues[s], value'[s] = value[s]
  PROVE  Stutters(s)
<1>1. /\ call(t)' = call(t) /\ sem(t)' = sem(t)
      /\ s # sem(t) => /\ InHold(t, s)' <=> InHold(t, s)
                       /\ ~WakingUp(t, s) /\ ~WakingUp(t, s)'
      /\ s = sem(t) => /\ Inside(t, s) <=> pc[t] = "user" /\ call(t) = "up"
                       /\ Inside(t, s)' <=> pc'[t] = "user" /\ call(t) = "up"
  BY StaysAt
<1>2. CASE s # sem(t)
  BY <1>1, <1>2, StuttersIf DEF Free
<1>3. CASE s = sem(t)
  <2>1. WakingUp(t, s)' <=> WakingUp(t, s)
    BY <1>1, <1>3 DEF SameStretch, WakingUp
  <2>2. InHold(t, s)' <=> InHold(t, s)
    <3>1. Granted(t, s)' <=> Granted(t, s)
      <4> DEFINE c == Contains(queues[s], t)
      <4>1. c' <=> c
        OBVIOUS
      <4>2. v[t] \in Int
        BY DEF CountInv, SemInv, TypeOK
      <4>3. /\ Granted(t, s) <=> /\ call(t) = "down"
                                 /\ \/ pc[t] \in {"down_unlock", "down_test"} /\ v[t] >= 0
                                    \/ pc[t] \in {"suspend_switch", "sem_return"} /\ ~c
            /\ Granted(t, s)' <=> /\ call(t) = "down"
                                  /\ \/ pc'[t] \in {"down_unlock", "down_test"} /\ v'[t] >= 0
                                     \/ pc'[t] \in {"suspend_switch", "sem_return"} /\ ~c'
        BY <1>1, <1>3 DEF Granted
      <4> HIDE DEF c
      <4> QED BY <4>1, <4>2, <4>3 DEF SameStretch
    <3>2. Inside(t, s)' \/ NotGivenBack(t, s)' <=> Inside(t, s) \/ NotGivenBack(t, s)
      BY <1>1, <1>3 DEF SameStretch, NotGivenBack
    <3> QED BY <3>1, <3>2 DEF InHold
  <2> QED BY <2>1, <2>2, StuttersIf DEF Free
<1> QED BY <1>2, <1>3

(* What the steps that return from a call see.                              *)
LEMMA ReturnsView ==
  ASSUME CountInv, NEW t \in Tasks,
         \/ down_test(t) /\ ~must_wait(t)
         \/ sem_return(t)
         \/ up_test(t) /\ ~(someone_waits(t) /\ queues[sem(t)] # << >>)
  PROVE  /\ Running(t) /\ return(t) /\ UNCHANGED <<queues, value>>
         /\ pc[t] \notin {"user", "suspend_switch"}
         /\ call(t) = "down" \/ call(t) = "up"
         /\ ~WakingUp(t, sem(t)) /\ ~NotGivenBack(t, sem(t))
         /\ Granted(t, sem(t)) <=> call(t) = "down"
<1>1. /\ Running(t) /\ return(t) /\ UNCHANGED <<queues, value>>
      /\ pc[t] \in {"down_test", "sem_return", "up_test"}
      /\ pc[t] = "down_test" => ~(v[t] < 0)
      /\ pc[t] = "up_test" => ~(v[t] <= 0 /\ queues[sem(t)] # << >>)
  BY DEF down_test, sem_return, up_test, At, must_wait, someone_waits, coreVars, semVars
<1>2. sem(t) \in Sems /\ (call(t) = "down" \/ call(t) = "up")
  BY <1>1, CallOf DEF CountInv, Local
<1>3. ~WakingUp(t, sem(t))
  <2> SUFFICES ASSUME WakingUp(t, sem(t)) PROVE FALSE
    OBVIOUS
  <2>1. queues[sem(t)] # << >>
    BY <1>1, <1>2, WakerFinds
  <2> QED BY <1>1, <2>1 DEF WakingUp
<1>4. ~NotGivenBack(t, sem(t))
  BY <1>1 DEF NotGivenBack
<1>5. Granted(t, sem(t)) <=> call(t) = "down"
  <2>1. ~Contains(queues[sem(t)], t)
    BY <1>1, <1>2, RunningNotInLine DEF In
  <2>2. pc[t] = "down_test" => v[t] >= 0
    BY <1>1 DEF CountInv, SemInv, TypeOK
  <2>3. call(t) = "down" => pc[t] # "up_test"
    BY DEF CountInv, Local, DownLabels
  <2> QED BY <1>1, <2>1, <2>2, <2>3 DEF Granted
<1> QED BY <1>1, <1>2, <1>3, <1>4, <1>5

LEMMA ReturnsAbstract ==
  ASSUME Bracketed, CountInv, NEW t \in Tasks, Moves(t), NEW s \in Sems,
         \/ down_test(t) /\ ~must_wait(t)
         \/ sem_return(t)
         \/ up_test(t) /\ ~(someone_waits(t) /\ queues[sem(t)] # << >>)
  PROVE  Stutters(s)
<1>1. /\ Running(t) /\ return(t) /\ UNCHANGED <<queues, value>>
      /\ pc[t] \notin {"user", "suspend_switch"}
      /\ ~WakingUp(t, sem(t)) /\ ~NotGivenBack(t, sem(t))
      /\ Granted(t, sem(t)) <=> call(t) = "down"
  BY ReturnsView
<1>2. /\ ~WakingUp(t, s)'
      /\ s # sem(t) => (InHold(t, s)' <=> InHold(t, s)) /\ ~WakingUp(t, s)
      /\ s = sem(t) => (InHold(t, s)' <=> call(t) = "down") /\ ~Inside(t, s)
  BY <1>1, ReturnsAt
<1>3. InHold(t, s)' <=> InHold(t, s)
  BY <1>1, <1>2 DEF InHold
<1> QED BY <1>1, <1>2, <1>3, StuttersIf DEF Free

(* The steps of the calls that concern the calling task alone.              *)
LEMMA CallStretch ==
  ASSUME CountInv, NEW t \in Tasks,
         \/ sem_down(t) \/ sem_up(t) \/ down_lock(t) \/ up_lock(t) \/ down_load(t) \/ up_load(t)
         \/ down_unlock(t) \/ up_unlock(t)
         \/ down_test(t) /\ must_wait(t)
         \/ up_test(t) /\ someone_waits(t) /\ queues[sem(t)] # << >>
         \/ up_head(t)
  PROVE  UNCHANGED <<queues, value, ip>> /\ SameStretch(t)
<1>1. active[sem(t)] = 1 /\ pc \in [Tasks -> Labels \cup KernelLabels] /\ Local(t)
  BY CallOf DEF CountInv, SemInv, TypeOK, KernelTypeOK
<1>2. CASE sem_down(t) \/ sem_up(t)
  BY <1>1, <1>2
     DEF sem_down, sem_up, enter_call, At, Goto, coreVars, semVars, userVars, SameStretch
<1>3. CASE down_lock(t) \/ up_lock(t) \/ down_load(t) \/ up_load(t)
  <2>1. /\ UNCHANGED <<queues, value, ip>>
        /\ \/ pc[t] \in {"down_lock", "down_load"} /\ pc'[t] \in {"down_load", "down_store"}
           \/ pc[t] \in {"up_lock", "up_load"} /\ pc'[t] \in {"up_load", "up_store"}
    BY <1>1, <1>3 DEF down_lock, up_lock, lock_step, down_load, up_load, load_step, At, Goto,
                      coreVars, semVars, userVars
  <2>2. SameStretch(t)
    BY <1>1, <2>1, CallOf DEF SameStretch, DownLabels, UpLabels
  <2> QED BY <2>1, <2>2
<1>4. CASE down_unlock(t) \/ up_unlock(t)
  <2>1. /\ UNCHANGED <<queues, value, ip>> /\ v' = v
        /\ \/ pc[t] = "down_unlock" /\ pc'[t] = "down_test"
           \/ pc[t] = "up_unlock" /\ pc'[t] = "up_test"
    BY <1>1, <1>4 DEF down_unlock, up_unlock, unlock_step, At, Goto, coreVars, userVars
  <2>2. SameStretch(t)
    BY <1>1, <2>1, CallOf DEF SameStretch, DownLabels, UpLabels
  <2> QED BY <2>1, <2>2
<1>5. CASE down_test(t) /\ must_wait(t)
  <2>1. /\ UNCHANGED <<queues, value, ip>> /\ v[t] < 0
        /\ pc[t] = "down_test" /\ pc'[t] = "suspend_remove"
    BY <1>1, <1>5 DEF down_test, must_wait, At, Goto, coreVars, semVars, userVars, call_suspend
  <2>2. SameStretch(t)
    BY <1>1, <2>1, CallOf DEF SameStretch, DownLabels
  <2> QED BY <2>1, <2>2
<1>6. CASE up_test(t) /\ someone_waits(t) /\ queues[sem(t)] # << >>
  <2>1. /\ UNCHANGED <<queues, value, ip>> /\ v' = v
        /\ pc[t] = "up_test" /\ pc'[t] = "up_head"
    BY <1>1, <1>6 DEF up_test, At, Goto, coreVars, semVars, userVars
  <2>2. SameStretch(t)
    BY <1>1, <2>1, CallOf DEF SameStretch, UpLabels
  <2> QED BY <2>1, <2>2
<1>7. CASE up_head(t)
  <2>1. /\ UNCHANGED <<queues, value, ip>> /\ v' = v
        /\ pc[t] = "up_head" /\ pc'[t] \in {"up_head", "resume_remove"}
    BY <1>1, <1>7 DEF up_head, resume_head, call_resume, At, Goto, semVars, userVars, frameVars
  <2>2. SameStretch(t)
    BY <1>1, <2>1, CallOf DEF SameStretch, UpLabels
  <2> QED BY <2>1, <2>2
<1> QED BY <1>2, <1>3, <1>4, <1>5, <1>6, <1>7

LEMMA CallAbstract ==
  ASSUME Bracketed, CountInv, NEW t \in Tasks, Moves(t), NEW s \in Sems,
         \/ sem_down(t) \/ sem_up(t) \/ down_lock(t) \/ up_lock(t) \/ down_load(t) \/ up_load(t)
         \/ down_unlock(t) \/ up_unlock(t)
         \/ down_test(t) /\ must_wait(t)
         \/ up_test(t) /\ someone_waits(t) /\ queues[sem(t)] # << >>
         \/ up_head(t)
  PROVE  Stutters(s)
BY CallStretch, StretchStutters

(* A step of t at its place in the program leaves the other semaphores.     *)
LEMMA OtherSems ==
  ASSUME Bracketed, CountInv, NEW t \in Tasks, Moves(t), ip'[t] = ip[t],
         NEW s \in Sems, s # sem(t), queues'[s] = queues[s], value'[s] = value[s]
  PROVE  Stutters(s)
BY StaysAt, StuttersIf DEF Free

LEMMA StoreView ==
  ASSUME CountInv, NEW t \in Tasks, down_store(t) \/ up_store(t)
  PROVE  \E delta \in {-1, 1} :
           /\ Running(t) /\ UNCHANGED <<queues, ip>> /\ sem(t) \in Sems
           /\ value[sem(t)] \in Int /\ v'[t] = value[sem(t)] + delta
           /\ value'[sem(t)] = value[sem(t)] + delta
           /\ \A s \in Sems : s # sem(t) => value'[s] = value[s]
           /\ \/ /\ delta = -1 /\ call(t) = "down" /\ down_store(t)
                 /\ pc[t] = "down_store" /\ pc'[t] = "down_unlock"
              \/ /\ delta = 1 /\ call(t) = "up" /\ up_store(t)
                 /\ pc[t] = "up_store" /\ pc'[t] = "up_unlock"
<1>1. PICK delta \in {-1, 1} :
        /\ Running(t) /\ UNCHANGED <<queues, ip>>
        /\ value' = [value EXCEPT ![sem(t)] = v[t] + delta]
        /\ v' = [v EXCEPT ![t] = v[t] + delta]
        /\ \/ /\ delta = -1 /\ down_store(t) /\ pc[t] = "down_store" /\ Goto(t, "down_unlock")
           \/ /\ delta = 1 /\ up_store(t) /\ pc[t] = "up_store" /\ Goto(t, "up_unlock")
  BY DEF down_store, up_store, store_step, At, coreVars
<1>2. sem(t) \in Sems /\ v[t] = value[sem(t)] /\ value \in [Sems -> Int] /\ v \in [Tasks -> Int]
  BY <1>1, CallOf DEF CountInv, Local, SemInv, TypeOK
<1>3. pc'[t] = IF delta = -1 THEN "down_unlock" ELSE "up_unlock"
  BY <1>1, GotoTypes DEF CountInv, SemInv, SemLabels
<1>4. (pc[t] = "down_store" => call(t) = "down") /\ (pc[t] = "up_store" => call(t) = "up")
  BY CallOf DEF DownLabels, UpLabels
<1> QED BY <1>1, <1>2, <1>3, <1>4

(* sem_down takes a permit as it stores the value, when there is one.       *)
LEMMA DownStoreAbstract ==
  ASSUME Bracketed, CountInv, NEW t \in Tasks, Moves(t), NEW s \in Sems, down_store(t)
  PROVE  AbstractStep(s)
<1>1. /\ Running(t) /\ UNCHANGED <<queues, ip>> /\ sem(t) \in Sems /\ call(t) = "down"
      /\ value[sem(t)] \in Int /\ v'[t] = value[sem(t)] - 1
      /\ value'[sem(t)] = value[sem(t)] - 1
      /\ \A r \in Sems : r # sem(t) => value'[r] = value[r]
      /\ pc[t] = "down_store" /\ pc'[t] = "down_unlock"
  <2>1. pc[t] = "down_store"
    BY DEF down_store, store_step, At
  <2> QED BY <2>1, StoreView
<1>2. CASE s # sem(t)
  BY <1>1, <1>2, OtherSems DEF AbstractStep
<1>3. CASE s = sem(t)
  <2>1. call(t)' = call(t) /\ sem(t)' = sem(t) /\ ~Inside(t, s) /\ ~Inside(t, s)'
    BY <1>1, <1>3, StaysAt
  <2>2. /\ ~InHold(t, s) /\ ~WakingUp(t, s) /\ ~WakingUp(t, s)'
        /\ InHold(t, s)' <=> value[s] > 0
    <3>1. ~Granted(t, s) /\ ~NotGivenBack(t, s) /\ ~NotGivenBack(t, s)'
          /\ ~WakingUp(t, s) /\ ~WakingUp(t, s)'
      BY <1>1, <2>1 DEF Granted, NotGivenBack, WakingUp
    <3>2. Granted(t, s)' <=> v'[t] >= 0
      BY <1>1, <1>3, <2>1 DEF Granted
    <3>3. v'[t] >= 0 <=> value[s] > 0
      BY <1>1, <1>3
    <3> QED BY <2>1, <3>1, <3>2, <3>3 DEF InHold
  <2>3. CASE ~(value[s] > 0)
    <3>1. Free(s)' = Free(s)
      BY <1>1, <1>3, <2>3 DEF Free
    <3>2. Stutters(s)
      BY <1>1, <2>2, <2>3, <3>1, StuttersIf
    <3> QED BY <3>2 DEF AbstractStep
  <2>4. CASE value[s] > 0
    <3>1. Free(s) > 0 /\ Free(s)' = Free(s) - 1
      BY <1>1, <1>3, <2>4 DEF Free
    <3>2. ~In(s, t)
      BY <1>1, RunningNotInLine
    <3>3. Holders(s)' = Holders(s) \cup {t}
      <4>1. \A u \in Tasks : u # t => (InHold(u, s)' <=> InHold(u, s))
        BY <1>1, HoldersStep DEF In
      <4>2. InHold(t, s)'
        BY <2>2, <2>4
      <4> QED BY <4>1, <4>2 DEF Holders
    <3>4. Wakers(s)' = Wakers(s)
      <4>1. \A u \in Tasks : WakingUp(u, s)' <=> WakingUp(u, s)
        BY <2>2, ViewKept
      <4> QED BY <4>1 DEF Wakers
    <3>5. TakesOne(t, s)
      BY <1>1, <2>2, <3>1, <3>2, <3>3, <3>4 DEF TakesOne, SamePromise, SameLine
    <3> QED BY <3>5 DEF AbstractStep
  <2> QED BY <2>3, <2>4
<1> QED BY <1>2, <1>3

(* sem_up releases its permit as it stores the value: to anybody when       *)
(* nobody waits, to the line otherwise.                                     *)
LEMMA UpStoreAbstract ==
  ASSUME Bracketed, CountInv, NEW t \in Tasks, Moves(t), NEW s \in Sems, up_store(t)
  PROVE  AbstractStep(s)
<1>1. /\ Running(t) /\ UNCHANGED <<queues, ip>> /\ sem(t) \in Sems /\ call(t) = "up"
      /\ value[sem(t)] \in Int /\ v'[t] = value[sem(t)] + 1
      /\ value'[sem(t)] = value[sem(t)] + 1
      /\ \A r \in Sems : r # sem(t) => value'[r] = value[r]
      /\ pc[t] = "up_store" /\ pc'[t] = "up_unlock"
  <2>1. pc[t] = "up_store"
    BY DEF up_store, store_step, At
  <2> QED BY <2>1, StoreView
<1>2. CASE s # sem(t)
  BY <1>1, <1>2, OtherSems DEF AbstractStep
<1>3. CASE s = sem(t)
  <2>1. call(t)' = call(t) /\ sem(t)' = sem(t) /\ ~Inside(t, s)'
    BY <1>1, <1>3, StaysAt
  <2>2. /\ InHold(t, s) /\ ~InHold(t, s)' /\ ~WakingUp(t, s) /\ ~Entering(t, s)
        /\ WakingUp(t, s)' <=> value[s] < 0
    <3>1. NotGivenBack(t, s) /\ ~NotGivenBack(t, s)' /\ ~Granted(t, s)' /\ ~WakingUp(t, s)
          /\ ~Entering(t, s)
      BY <1>1, <1>3, <2>1 DEF Granted, NotGivenBack, WakingUp, Entering
    <3>2. WakingUp(t, s)' <=> v'[t] <= 0
      BY <1>1, <1>3, <2>1 DEF WakingUp
    <3>3. v'[t] <= 0 <=> value[s] < 0
      BY <1>1, <1>3
    <3> QED BY <2>1, <3>1, <3>2, <3>3 DEF InHold
  <2>3. Holders(s)' = Holders(s) \ {t}
    <3>1. \A u \in Tasks : u # t => (InHold(u, s)' <=> InHold(u, s))
      BY <1>1, HoldersStep DEF In
    <3> QED BY <2>2, <3>1 DEF Holders
  <2>4. Len(queues[s]) = Cardinality(Wakers(s)) + Below(s)
    BY <1>1, <2>2, NoComers
  <2>5. /\ Cardinality(Wakers(s)) \in Nat
        /\ Cardinality(Wakers(s))' = Cardinality(Wakers(s)) + (IF value[s] < 0 THEN 1 ELSE 0)
    <3> DEFINE W == Wakers(s)  X == Wakers(s)'
    <3>1. /\ W \in SUBSET Tasks /\ X \in SUBSET Tasks /\ t \notin W /\ (t \in X <=> value[s] < 0)
          /\ \A u \in Tasks : u # t => (u \in W <=> u \in X)
      BY <2>2, ViewKept DEF Wakers
    <3> HIDE DEF W, X
    <3>2. /\ Cardinality(W) \in Nat
          /\ t \in X => Cardinality(X) = Cardinality(W) + 1
          /\ t \notin X => Cardinality(X) = Cardinality(W)
      BY <3>1, SizeStep
    <3>3. Cardinality(X) = Cardinality(W) + (IF value[s] < 0 THEN 1 ELSE 0)
      BY <3>1, <3>2
    <3> QED BY <3>2, <3>3 DEF W, X
  <2> DEFINE w == Cardinality(Wakers(s))  l == Len(queues[s])
  <2>6. /\ value[s] < 0 => l > w /\ w' = w + 1 /\ Free(s)' = Free(s)
        /\ ~(value[s] < 0) => l <= w /\ w' = w /\ Free(s)' = Free(s) + 1
    <3>1. /\ value[s] < 0 => Below(s) > 0 /\ Free(s)' = Free(s)
          /\ ~(value[s] < 0) => Below(s) = 0 /\ Free(s)' = Free(s) + 1
          /\ Below(s) \in Int
      BY <1>1, <1>3 DEF Below, Free
    <3>2. l = w + Below(s) /\ w \in Nat /\ w' = w + (IF value[s] < 0 THEN 1 ELSE 0)
      BY <2>4, <2>5
    <3> HIDE DEF w, l
    <3> QED BY <3>1, <3>2
  <2>7. ReleasesOne(t, s)
    BY <1>1, <2>2, <2>3, <2>6 DEF ReleasesOne, SamePromise, SameLine
  <2> QED BY <2>7 DEF AbstractStep
<1> QED BY <1>2, <1>3

(* The entry into the queue, and what becomes of the task that entered.     *)
LEMMA SuspendAppendView ==
  ASSUME CountInv, SemInv', NEW t \in Tasks, suspend_append(t), UNCHANGED <<semVars, userVars>>
  PROVE  /\ Running(t) /\ Moves(t) /\ value' = value /\ ip' = ip
         /\ sem(t) \in Sems /\ sem(t)' = sem(t) /\ call(t) = "down" /\ call(t)' = "down"
         /\ pc[t] = "suspend_append" /\ pc'[t] = "suspend_switch"
         /\ value[sem(t)] < 0 /\ ~In(sem(t), t) /\ In(sem(t), t)'
         /\ queues'[sem(t)] = Append(queues[sem(t)], t)
         /\ \A s \in Sems : s # sem(t) => queues'[s] = queues[s]
         /\ \A s \in Sems, u \in Tasks : u # t => (In(s, u)' <=> In(s, u))
<1>0. /\ Running(t) /\ QueuesOK /\ call(t) = "down" /\ arg_queue[t] = sem(t)
      /\ sem(t) \in Queues /\ sem(t) \in Sems /\ Sems \subseteq Queues
      /\ Moves(t) /\ value' = value /\ ip' = ip /\ call(t)' = call(t) /\ sem(t)' = sem(t)
  BY KernelView, SemaphoreAssumption DEF SuspendResume, suspend_append, userVars, Queues
<1>1. /\ pc[t] = "suspend_append" /\ queue_append(sem(t), t) /\ Goto(t, "suspend_switch")
  BY <1>0 DEF suspend_append
<1>2. pc'[t] = "suspend_switch" /\ ~Linked(t) /\ value[sem(t)] < 0
  BY <1>1, GotoTypes DEF CountInv, SemInv, KernelLabels, Local, Linked, In
<1>3. queues' = [queues EXCEPT ![sem(t)] = Append(@, t)] /\ queues \in [Queues -> Seq(Tasks)]
  BY <1>0, <1>1, <1>2 DEF queue_append, QueuesOK
<1>4. \A p \in Queues, u \in Tasks : In(p, u)' <=> In(p, u) \/ (p = sem(t) /\ u = t)
  BY <1>0, <1>1, <1>2, AppendMembers
<1>5. ~In(sem(t), t)
  BY <1>0, <1>2 DEF Linked, In
<1> QED BY <1>0, <1>1, <1>2, <1>3, <1>4, <1>5

(* A task that finds no permit waits in line as it enters the queue.        *)
LEMMA SuspendAppendAbstract ==
  ASSUME Bracketed, CountInv, SemInv', NEW t \in Tasks, suspend_append(t),
         UNCHANGED <<semVars, userVars>>, NEW s \in Sems
  PROVE  AbstractStep(s)
<1>1. /\ Running(t) /\ Moves(t) /\ value' = value /\ ip' = ip
      /\ sem(t) \in Sems /\ sem(t)' = sem(t) /\ call(t) = "down" /\ call(t)' = "down"
      /\ pc[t] = "suspend_append" /\ pc'[t] = "suspend_switch"
      /\ value[sem(t)] < 0 /\ ~In(sem(t), t) /\ In(sem(t), t)'
      /\ queues'[sem(t)] = Append(queues[sem(t)], t)
      /\ \A r \in Sems : r # sem(t) => queues'[r] = queues[r]
      /\ \A r \in Sems, u \in Tasks : u # t => (In(r, u)' <=> In(r, u))
  BY SuspendAppendView
<1>2. CASE s # sem(t)
  BY <1>1, <1>2, OtherSems DEF AbstractStep
<1>3. CASE s = sem(t)
  <2>1. /\ ~Inside(t, s) /\ ~Inside(t, s)'
    BY <1>1, <1>3, StaysAt
  <2>2. ~InHold(t, s) /\ ~InHold(t, s)' /\ ~WakingUp(t, s) /\ ~WakingUp(t, s)'
    <3>1. Contains(queues[s], t)'
      BY <1>1, <1>3 DEF In
    <3>2. /\ ~Granted(t, s) /\ ~NotGivenBack(t, s) /\ ~NotGivenBack(t, s)'
          /\ ~WakingUp(t, s) /\ ~WakingUp(t, s)'
      BY <1>1 DEF Granted, NotGivenBack, WakingUp
    <3>3. ~Granted(t, s)'
      BY <1>1, <3>1 DEF Granted
    <3> QED BY <2>1, <3>2, <3>3 DEF InHold
  <2>3. Holders(s)' = Holders(s)
    <3>1. \A u \in Tasks : u # t => (InHold(u, s)' <=> InHold(u, s))
      BY <1>1, HoldersStep
    <3> QED BY <2>2, <3>1 DEF Holders
  <2>4. Wakers(s)' = Wakers(s)
    <3>1. \A u \in Tasks : WakingUp(u, s)' <=> WakingUp(u, s)
      BY <1>1, <2>2, ViewKept
    <3> QED BY <3>1 DEF Wakers
  <2>5. Free(s) = 0 /\ Free(s)' = 0
    <3>1. value[s] < 0 /\ value[s] \in Int /\ value'[s] = value[s]
      BY <1>1, <1>3 DEF CountInv, SemInv, TypeOK
    <3> QED BY <3>1 DEF Free
  <2>6. WaitsInLine(t, s)
    BY <1>1, <1>3, <2>2, <2>3, <2>4, <2>5 DEF WaitsInLine, SamePromise
  <2> QED BY <2>6 DEF AbstractStep
<1> QED BY <1>2, <1>3

(* The removal of the head of the line, and what becomes of it.             *)
LEMMA ResumeRemoveView ==
  ASSUME CountInv, SemInv', NEW t \in Tasks, resume_remove(t), UNCHANGED <<semVars, userVars>>
  PROVE  /\ Running(t) /\ Moves(t) /\ value' = value /\ ip' = ip
         /\ sem(t) \in Sems /\ sem(t)' = sem(t) /\ call(t) = "up" /\ call(t)' = "up"
         /\ pc[t] = "resume_remove" /\ pc'[t] = "resume_append"
         /\ WakingUp(t, sem(t)) /\ ~WakingUp(t, sem(t))'
         /\ queues[sem(t)] # << >> /\ queues'[sem(t)] = Tail(queues[sem(t)])
         /\ \A s \in Sems : s # sem(t) => queues'[s] = queues[s]
         /\ \E h \in Tasks :
              /\ h = Head(queues[sem(t)]) /\ h # t
              /\ sem(h) = sem(t) /\ sem(h)' = sem(t) /\ call(h) = "down"
              /\ pc[h] \in {"suspend_switch", "sem_return"} /\ pc'[h] = pc[h]
              /\ Granted(h, sem(t))' /\ ~Granted(h, sem(t))
              /\ \A s \in Sems, u \in Tasks : u # h => (In(s, u)' <=> In(s, u))
<1>h. PICK h \in Tasks : h = arg_task[t]
  BY KernelView DEF SuspendResume, resume_remove
<1> DEFINE s == sem(t)
<1>0. /\ Running(t) /\ QueuesOK /\ call(t) = "up" /\ arg_queue[t] = s
      /\ s \in Queues /\ s \in Sems /\ Sems \subseteq Queues
      /\ Moves(t) /\ value' = value /\ ip' = ip /\ call(t)' = call(t) /\ sem(t)' = s
  BY KernelView, SemaphoreAssumption DEF SuspendResume, resume_remove, userVars, Queues
<1>1. /\ pc[t] = "resume_remove" /\ queue_remove(s, h) /\ Goto(t, "resume_append")
  BY <1>0, <1>h DEF resume_remove
<1>2. /\ pc'[t] = "resume_append" /\ v[t] <= 0
      /\ queues[s] # << >> /\ h = Head(queues[s])
  BY <1>1, <1>h, GotoTypes DEF CountInv, SemInv, KernelLabels, Local
<1>3. queues' = [queues EXCEPT ![s] = Without(@, h)] /\ queues \in [Queues -> Seq(Tasks)]
  BY <1>0, <1>1 DEF queue_remove, QueuesOK
<1>4. /\ \A p \in Queues, u \in Tasks : In(p, u)' <=> In(p, u) /\ ~(p = s /\ u = h)
      /\ In(s, h)
  BY <1>0, <1>1, <1>2, RemoveMembers, HeadIn
<1>5. queues'[s] = Tail(queues[s])
  BY <1>0, <1>2, <1>3, HeadGone DEF QueuesOK
<1>6. h # t /\ sem(h) = s /\ call(h) = "down" /\ pc[h] \in {"suspend_switch", "sem_return"}
  <2>1. ~In(s, t)
    BY <1>0, <1>1, RunningNotInLine
  <2> QED BY <1>0, <1>4, <2>1 DEF CountInv, InLine
<1>7. pc'[h] = pc[h] /\ call(h)' = call(h) /\ sem(h)' = sem(h)
  BY <1>0, <1>6, CallKept DEF Moves
<1>8. Granted(h, sem(t))' /\ ~Granted(h, s)
  <2>1. Contains(queues[s], h) /\ ~Contains(queues'[s], h)
    BY <1>0, <1>4 DEF In
  <2> HIDE DEF s
  <2>2. ~Granted(h, s)
    BY <1>6, <2>1 DEF Granted
  <2>3. Granted(h, sem(t))'
    BY <1>0, <1>6, <1>7, <2>1 DEF Granted
  <2> QED BY <2>2, <2>3
<1>9. WakingUp(t, s) /\ ~WakingUp(t, sem(t))'
  BY <1>0, <1>1, <1>2 DEF WakingUp
<1>10. \A r \in Sems : r # s => queues'[r] = queues[r]
  BY <1>0, <1>3
<1>11. \A r \in Sems, u \in Tasks : u # h => (In(r, u)' <=> In(r, u))
  BY <1>0, <1>4
<1> QED BY <1>0, <1>1, <1>2, <1>5, <1>6, <1>7, <1>8, <1>9, <1>10, <1>11

(* task_resume grants a promised permit to the head of the line.            *)
LEMMA ResumeRemoveAbstract ==
  ASSUME Bracketed, CountInv, SemInv', NEW t \in Tasks, resume_remove(t),
         UNCHANGED <<semVars, userVars>>, NEW s \in Sems
  PROVE  AbstractStep(s)
<1>1. /\ Running(t) /\ Moves(t) /\ value' = value /\ ip' = ip
      /\ sem(t) \in Sems /\ sem(t)' = sem(t) /\ call(t) = "up" /\ call(t)' = "up"
      /\ pc[t] = "resume_remove" /\ pc'[t] = "resume_append"
      /\ WakingUp(t, sem(t)) /\ ~WakingUp(t, sem(t))'
      /\ queues[sem(t)] # << >> /\ queues'[sem(t)] = Tail(queues[sem(t)])
      /\ \A r \in Sems : r # sem(t) => queues'[r] = queues[r]
  BY ResumeRemoveView
<1>2. PICK h \in Tasks :
              /\ h = Head(queues[sem(t)]) /\ h # t
              /\ sem(h) = sem(t) /\ sem(h)' = sem(t) /\ call(h) = "down"
              /\ pc[h] \in {"suspend_switch", "sem_return"} /\ pc'[h] = pc[h]
              /\ Granted(h, sem(t))' /\ ~Granted(h, sem(t))
              /\ \A r \in Sems, u \in Tasks : u # h => (In(r, u)' <=> In(r, u))
  BY ResumeRemoveView
<1>3. CASE s # sem(t)
  BY <1>1, <1>3, OtherSems DEF AbstractStep
<1>4. CASE s = sem(t)
  <2>1. ~InHold(h, s) /\ InHold(h, s)'
    <3>1. ~Inside(h, s)
      BY <1>2, <1>4, InsideIs
    <3>2. ~NotGivenBack(h, s)
      BY <1>2 DEF NotGivenBack
    <3>3. ~Granted(h, s) /\ Granted(h, s)'
      BY <1>1, <1>2, <1>4 DEF Granted
    <3> QED BY <3>1, <3>2, <3>3 DEF InHold
  <2>2. WakingUp(t, s) /\ ~WakingUp(t, s)' /\ ~InHold(t, s) /\ ~InHold(t, s)'
    <3>1. ~Inside(t, s) /\ ~Inside(t, s)'
      BY <1>1, <1>4, StaysAt
    <3>2. WakingUp(t, s) /\ ~WakingUp(t, s)'
      BY <1>1, <1>4 DEF WakingUp
    <3>3. /\ ~Granted(t, s) /\ ~Granted(t, s)' /\ ~NotGivenBack(t, s) /\ ~NotGivenBack(t, s)'
      BY <1>1 DEF Granted, NotGivenBack
    <3> QED BY <3>1, <3>2, <3>3 DEF InHold
  <2>3. Holders(s)' = Holders(s) \cup {h}
    <3>1. \A u \in Tasks : u # t /\ u # h => (InHold(u, s)' <=> InHold(u, s))
      BY <1>1, <1>2, HoldersStep
    <3> QED BY <2>1, <2>2, <3>1 DEF Holders
  <2>4. /\ Cardinality(Wakers(s)) > 0
        /\ Cardinality(Wakers(s))' = Cardinality(Wakers(s)) - 1
    <3> DEFINE W == Wakers(s)  X == Wakers(s)'
    <3>1. /\ W \in SUBSET Tasks /\ X \in SUBSET Tasks /\ t \in W /\ t \notin X
          /\ \A u \in Tasks : u # t => (u \in W <=> u \in X)
      BY <1>1, <2>2, ViewKept DEF Wakers
    <3> HIDE DEF W, X
    <3>2. /\ Cardinality(W) \in Nat /\ Cardinality(X) \in Nat
          /\ Cardinality(X) = Cardinality(W) - 1
      BY <3>1, SizeStep
    <3>3. Cardinality(W) > 0
      BY <3>2
    <3> QED BY <3>2, <3>3 DEF W, X
  <2>5. GrantsOne(s)
    BY <1>1, <1>2, <1>4, <2>1, <2>3, <2>4 DEF GrantsOne, Free
  <2> QED BY <2>5 DEF AbstractStep
<1> QED BY <1>3, <1>4

LEMMA KernelStretch ==
  ASSUME CountInv, SemInv', NEW t \in Tasks, suspend_remove(t) \/ suspend_switch(t) \/ resume_append(t),
         UNCHANGED <<semVars, userVars>>, NEW s \in Sems
  PROVE  queues'[s] = queues[s] /\ value' = value /\ ip' = ip /\ Moves(t) /\ SameStretch(t)
<1>0. SuspendResume(t)
  BY DEF SuspendResume
<1>1. /\ Moves(t) /\ value' = value /\ ip' = ip /\ back[t] = "sem_return"
      /\ pc[t] \in {"suspend_remove", "suspend_append", "suspend_switch"} => call(t) = "down"
      /\ pc[t] \in {"resume_remove", "resume_append"} => call(t) = "up"
      /\ QueuesOK /\ s \in Queues /\ s # "ready" /\ pc \in [Tasks -> Labels \cup KernelLabels]
  BY <1>0, KernelView, SemaphoreAssumption DEF Queues, userVars, CountInv, SemInv, TypeOK, KernelTypeOK
<1>2. queues'[s] = queues[s]
  BY <1>1 DEF suspend_remove, suspend_switch, resume_append, queue_remove, queue_append, QueuesOK
<1>3. \/ pc[t] = "suspend_remove" /\ pc'[t] = "suspend_append"
      \/ pc[t] = "suspend_switch" /\ pc'[t] = "sem_return"
      \/ pc[t] = "resume_append" /\ pc'[t] = "sem_return"
  BY <1>1 DEF suspend_remove, suspend_switch, resume_append, Goto
<1>4. SameStretch(t)
  BY <1>1, <1>3 DEF SameStretch
<1> QED BY <1>1, <1>2, <1>4

LEMMA KernelAbstract ==
  ASSUME Bracketed, CountInv, SemInv', NEW t \in Tasks, SuspendResume(t),
         UNCHANGED <<semVars, userVars>>, NEW s \in Sems
  PROVE  AbstractStep(s)
<1>1. CASE suspend_append(t) \/ resume_remove(t)
  BY <1>1, SuspendAppendAbstract, ResumeRemoveAbstract
<1>2. CASE suspend_remove(t) \/ suspend_switch(t) \/ resume_append(t)
  BY <1>2, KernelStretch, StretchStutters DEF AbstractStep
<1> QED BY <1>1, <1>2 DEF SuspendResume

LEMMA FrozenStutters ==
  ASSUME UNCHANGED <<queues, frameVars, semVars, userVars>>, NEW s \in Sems
  PROVE  Stutters(s)
<1>1. \A t \in Tasks : InHold(t, s)' <=> InHold(t, s)
  BY DEF InHold, Inside, Granted, NotGivenBack, frameVars, userVars, call, sem
<1>2. \A t \in Tasks : WakingUp(t, s)' <=> WakingUp(t, s)
  BY DEF WakingUp, frameVars, userVars, call, sem
<1>3. Holders(s)' = Holders(s) /\ Wakers(s)' = Wakers(s)
  BY <1>1, <1>2 DEF Holders, Wakers
<1> QED BY <1>3 DEF Stutters, SamePromise, SameLine, Free, semVars

LEMMA BracketedHandedOver ==
  ASSUME Bracketed, Preemptible \subseteq HandOver
  PROVE  HandedOver
<1>1. ASSUME NEW t \in Tasks, NEW i \in 1..Len(Program[t]) PROVE Program[t][i].op # "destroy"
  BY CallsAt
<1> QED BY <1>1 DEF HandedOver

(* The refinement, step by step, for every semaphore at once.               *)
LEMMA StepsImplement ==
  ASSUME Bracketed, Preemptible \subseteq HandOver, CountInv, [Next]_vars, NEW s \in Sems
  PROVE  AbstractStep(s)
<1>1. SemInv'
  BY NextInv DEF CountInv
<1>2. CASE System
  <2>1. UNCHANGED <<queues, frameVars, semVars, userVars>>
    BY <1>2, NobodyDue DEF System, Tick, Dispatch, CountInv
  <2> QED BY <2>1, FrozenStutters DEF AbstractStep
<1>3. ASSUME NEW t \in Tasks, Step(t) PROVE AbstractStep(s)
  <2>1. Running(t) /\ Moves(t)
    BY <1>3, StepMoves DEF CountInv
  <2>2. ~(sem_destroy(t) \/ destroy_loop(t) \/ destroy_head(t))
    <3>1. call(t) # "destroy" /\ pc[t] \notin {"destroy_loop", "destroy_head"}
      BY Calls DEF CountInv, SemInv, Local, DownLabels, UpLabels
    <3> QED BY <3>1 DEF sem_destroy, destroy_loop, destroy_head, At
  <2>3. CASE \/ sem_down(t) \/ sem_up(t) \/ down_lock(t) \/ up_lock(t) \/ down_load(t) \/ up_load(t)
             \/ down_unlock(t) \/ up_unlock(t) \/ up_head(t)
    BY <2>1, <2>3, CallAbstract DEF AbstractStep
  <2>4. CASE down_test(t) \/ sem_return(t) \/ up_test(t)
    BY <2>1, <2>4, CallAbstract, ReturnsAbstract DEF AbstractStep
  <2>5. CASE down_store(t) \/ up_store(t)
    BY <2>1, <2>5, DownStoreAbstract, UpStoreAbstract
  <2>6. CASE SuspendResume(t) /\ UNCHANGED <<semVars, userVars>>
    BY <1>1, <2>6, KernelAbstract
  <2> QED BY <1>3, <2>2, <2>3, <2>4, <2>5, <2>6 DEF Step
<1>4. CASE UNCHANGED vars
  BY <1>4, FrozenStutters DEF vars, kernelVars, coreVars, AbstractStep
<1> QED BY <1>2, <1>3, <1>4 DEF Next

(* The permits of s are free, promised to the line or held.                 *)
Conserved ==
  \A s \in Sems :
    Free(s) + Cardinality(Wakers(s)) + Cardinality(Holders(s)) = InitialValue[s]

LEMMA AbstractInit ==
  ASSUME Init, NEW s \in Sems
  PROVE  /\ Free(s) = InitialValue[s] /\ queues[s] = << >>
         /\ Holders(s) = {} /\ Cardinality(Wakers(s)) = 0
<1>1. PICK readyq : Booted(readyq)
  BY DEF Init
<1>2. s \in Queues /\ queues[s] = << >> /\ value[s] = InitialValue[s] /\ InitialValue[s] \in Nat
  BY <1>1, SemaphoreAssumption DEF Booted, Queues
<1>3. \A t \in Tasks : pc[t] = "user" /\ ip[t] = 1
  BY <1>1 DEF Booted
<1>4. Holders(s) = {}
  <2>1. \A t \in Tasks : ~Holds(t, s, ip[t])
    BY <1>3 DEF Holds
  <2> QED BY <1>3, <2>1, InsideIs DEF Holders, InHold, Granted, NotGivenBack
<1>5. Wakers(s) = {}
  BY <1>3 DEF Wakers, WakingUp
<1> QED BY <1>2, <1>4, <1>5, FS_EmptySet DEF Free

LEMMA HoldersSizes ==
  ASSUME CountInv, NEW s \in Sems
  PROVE  /\ IsFiniteSet(Holders(s)) /\ Cardinality(Holders(s)) \in Nat
         /\ Free(s) \in Nat /\ Cardinality(Wakers(s)) \in Nat
<1>1. IsFiniteSet(Holders(s))
  BY FS_Subset, KernelAssumption DEF Holders
<1>2. Free(s) \in Nat
  BY DEF Free, CountInv, SemInv, TypeOK
<1> QED BY <1>1, <1>2, SizeTypes, FS_CardinalityType

LEMMA ConservedNext ==
  ASSUME Bracketed, Preemptible \subseteq HandOver, CountInv, Conserved, [Next]_vars
  PROVE  Conserved'
<1> SUFFICES ASSUME NEW s \in Sems
             PROVE  (Free(s) + Cardinality(Wakers(s)) + Cardinality(Holders(s)))' = InitialValue[s]
  BY DEF Conserved
<1> DEFINE f == Free(s)  w == Cardinality(Wakers(s))  H == Holders(s)
<1>1. AbstractStep(s)
  BY StepsImplement
<1>2. IsFiniteSet(H) /\ Cardinality(H) \in Nat /\ f \in Nat /\ w \in Nat
      /\ f + w + Cardinality(H) = InitialValue[s]
  BY HoldersSizes DEF Conserved
<1>3. (f + w + Cardinality(H))' = f' + w' + Cardinality(H')
  OBVIOUS
<1>4. CASE Stutters(s) \/ \E t \in Tasks : WaitsInLine(t, s)
  BY <1>2, <1>4 DEF Stutters, WaitsInLine, SamePromise
<1>5. ASSUME NEW t \in Tasks, TakesOne(t, s) PROVE f' + w' + Cardinality(H') = InitialValue[s]
  <2>1. t \notin H /\ H' = H \cup {t} /\ f' = f - 1 /\ w' = w
    BY <1>5 DEF TakesOne, SamePromise, Holders
  <2>2. Cardinality(H \cup {t}) = Cardinality(H) + 1
    BY <1>2, <2>1, FS_AddElement
  <2> HIDE DEF f, w, H
  <2> QED BY <1>2, <2>1, <2>2
<1>6. ASSUME NEW t \in Tasks, ReleasesOne(t, s) PROVE f' + w' + Cardinality(H') = InitialValue[s]
  <2>1. t \in H /\ H' = H \ {t}
    BY <1>6 DEF ReleasesOne, Holders
  <2>2. (f' = f /\ w' = w + 1) \/ (f' = f + 1 /\ w' = w)
    BY <1>6 DEF ReleasesOne, SamePromise
  <2>3. Cardinality(H \ {t}) = Cardinality(H) - 1
    BY <1>2, <2>1, FS_RemoveElement
  <2> HIDE DEF f, w, H
  <2> QED BY <1>2, <2>1, <2>2, <2>3
<1>7. ASSUME GrantsOne(s) PROVE f' + w' + Cardinality(H') = InitialValue[s]
  <2> DEFINE h == Head(queues[s])
  <2>1. h \notin H /\ H' = H \cup {h} /\ f' = f /\ w' = w - 1
    BY <1>7 DEF GrantsOne, Holders
  <2>2. Cardinality(H \cup {h}) = Cardinality(H) + 1
    BY <1>2, <2>1, FS_AddElement
  <2> HIDE DEF f, w, H
  <2> QED BY <1>2, <2>1, <2>2
<1> QED BY <1>1, <1>3, <1>4, <1>5, <1>6, <1>7 DEF AbstractStep

(* The tasks inside the section of s are never more than its permits, in    *)
(* programs that give back what they take, nested sections included.        *)
THEOREM PermitsAreRespected ==
  ASSUME Bracketed, Preemptible \subseteq HandOver
  PROVE  Spec => []PermitsRespected
<1>1. Init => CountInv /\ Conserved
  <2>1. ASSUME Init, NEW s \in Sems
        PROVE  Free(s) + Cardinality(Wakers(s)) + Cardinality(Holders(s)) = InitialValue[s]
    <3> DEFINE f == Free(s)  w == Cardinality(Wakers(s))  h == Cardinality(Holders(s))
    <3>1. f = InitialValue[s] /\ w = 0 /\ Holders(s) = {}
      BY <2>1, AbstractInit
    <3>2. h = 0
      BY <3>1, FS_EmptySet
    <3>3. InitialValue[s] \in Nat
      BY SemaphoreAssumption
    <3> HIDE DEF f, w, h
    <3>4. f + w + h = InitialValue[s]
      BY <3>1, <3>2, <3>3
    <3> QED BY <3>4 DEF f, w, h
  <2> QED BY <2>1, CountInit DEF Conserved
<1>2. CountInv /\ Conserved /\ [Next]_vars => (CountInv /\ Conserved)'
  BY BracketedHandedOver, CountNext, ConservedNext
<1>3. CountInv /\ Conserved => PermitsRespected
  <2> SUFFICES ASSUME CountInv, Conserved, NEW s \in Sems
               PROVE  Cardinality({t \in Tasks : Inside(t, s)}) <= InitialValue[s]
    BY DEF PermitsRespected
  <2> DEFINE I == {t \in Tasks : Inside(t, s)}  H == Holders(s)
  <2>1. I \subseteq H
    BY DEF Holders, InHold
  <2>2. IsFiniteSet(H) /\ Cardinality(H) \in Nat /\ Free(s) \in Nat /\ Cardinality(Wakers(s)) \in Nat
    BY HoldersSizes
  <2>3. Cardinality(I) <= Cardinality(H) /\ Cardinality(I) \in Nat
    BY <2>1, <2>2, FS_Subset, FS_CardinalityType
  <2>4. Free(s) + Cardinality(Wakers(s)) + Cardinality(H) = InitialValue[s]
    BY DEF Conserved
  <2> HIDE DEF I, H
  <2>5. Cardinality(I) <= InitialValue[s]
    BY <2>2, <2>3, <2>4
  <2> QED BY <2>5 DEF I
<1> QED BY <1>1, <1>2, <1>3, PTL DEF Spec

(* sem_down and sem_up implement the abstract semaphore, for any number of  *)
(* tasks, permits and semaphores: a task takes a permit or waits in line,   *)
(* a release with a task in line is promised to the line, and the line is   *)
(* served in order.                                                         *)
THEOREM SemaphoreImplements ==
  ASSUME Bracketed, Preemptible \subseteq HandOver
  PROVE  Spec => ImplementsSemaphore
<1> DEFINE o == Observed
<1>0. o \in Sems
  BY SemaphoreAssumption
<1>1. Init => Abs!Init
  <2> SUFFICES ASSUME Init PROVE Abs!Init
    OBVIOUS
  <2>1. Free(o) = InitialValue[o] /\ queues[o] = << >> /\ Holders(o) = {} /\ Cardinality(Wakers(o)) = 0
    BY <1>0, AbstractInit
  <2> QED BY <2>1 DEF Abs!Init, Free, Holders, InHold, Wakers
<1>2. CountInv /\ [Next]_vars => [Abs!Next]_(Abs!vars)
  <2> SUFFICES ASSUME CountInv, [Next]_vars PROVE [Abs!Next]_(Abs!vars)
    OBVIOUS
  <2>1. AbstractStep(o)
    BY <1>0, StepsImplement
  <2>2. \A t : Abs!Waiting(t) <=> In(o, t)
    <3>1. o \in Queues /\ queues[o] \in Seq(Tasks)
      BY <1>0, SemaphoreAssumption DEF CountInv, SemInv, QueuesOK, Queues
    <3>2. DOMAIN queues[o] = 1..Len(queues[o])
      BY <3>1, LenProperties
    <3> QED BY <3>2 DEF Abs!Waiting, In, Contains
  <2>3. CASE Stutters(o)
    BY <2>3 DEF Stutters, SamePromise, SameLine, Abs!vars, Free, Holders, InHold, Wakers
  <2>4. CASE GrantsOne(o)
    BY <2>4 DEF GrantsOne, Abs!Next, Abs!Grant, Free, Holders, InHold, Wakers
  <2>5. ASSUME NEW t \in Tasks, TakesOne(t, o) PROVE Abs!Take(t)
    BY <2>2, <2>5 DEF TakesOne, SamePromise, SameLine, Abs!Take, Free, Holders, InHold, Wakers
  <2>6. ASSUME NEW t \in Tasks, WaitsInLine(t, o) PROVE Abs!Wait(t)
    BY <2>2, <2>6 DEF WaitsInLine, SamePromise, Abs!Wait, Free, Holders, InHold, Wakers
  <2>7. ASSUME NEW t \in Tasks, ReleasesOne(t, o) PROVE Abs!Release(t)
    BY <2>7 DEF ReleasesOne, SamePromise, SameLine, Abs!Release, Free, Holders, InHold, Wakers
  <2> QED BY <2>1, <2>3, <2>4, <2>5, <2>6, <2>7 DEF AbstractStep, Abs!Next
<1>3. Spec => []CountInv
  BY BracketedHandedOver, CountInvariant
<1> QED BY <1>1, <1>2, <1>3, PTL DEF Spec, ImplementsSemaphore, Abs!Spec
=============================================================================
