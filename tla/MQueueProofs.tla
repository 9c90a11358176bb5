----------------------------- MODULE MQueueProofs -----------------------------
(***************************************************************************)
(* The message queue: what holds of its semaphores in every program and at *)
(* every point of preemption, and, outside the two windows and while       *)
(* nobody destroys the queue, where its permits are.                       *)
(*                                                                         *)
(* The argument: a permit of a semaphore is free, or in a call of sem_down *)
(* or sem_up (Token), or kept by a task between two calls (Keeps).  The    *)
(* steps of sem_down and sem_up keep the sum (SupplyStep); the steps of    *)
(* mqueue_send and mqueue_recv move permits from one semaphore to the      *)
(* buffer or back (SendPut, RecvTake), or lose two (MallocFails).          *)
(***************************************************************************)
EXTENDS MQueue, HandOverProofs

(* Only mqueue_send and mqueue_recv are called.                             *)
Undestroyed == \A t \in Tasks : Role[t] \in {"send", "recv"}

(* The semaphores that a call takes and gives.                              *)
Takes(t) == IF Role[t] = "send" THEN s_vaga ELSE s_item
Gives(t) == IF Role[t] = "send" THEN s_item ELSE s_vaga

(* The positions at which t keeps a permit of s between two calls.          *)
Keeps(t, s) ==
  IF s = s_buffer THEN {4, 5, 6} ELSE IF s = Takes(t) THEN {3, 4, 5} ELSE {6, 7}

(* The permit in a call of sem_down or sem_up.                              *)
Token(t, s) == Granted(t, s) \/ NotGivenBack(t, s) \/ WakingUp(t, s)

Owns(t, s) == IF pc[t] # "user" /\ sem(t) = s THEN Token(t, s) ELSE ip[t] \in Keeps(t, s)

Owners(s) == {t \in Tasks : Owns(t, s)}

Supply(s) == Free(s) + Cardinality(Owners(s))

(* Where the permits of the three semaphores are.                           *)
Accounts ==
  /\ Supply(s_vaga) + Len(buffer) + failures = max_msgs
  /\ Supply(s_item) = Len(buffer)
  /\ Supply(s_buffer) + failures = 1

MQInv ==
  /\ CountInv
  /\ buffer \in Seq(Tasks) /\ mq_active = 1 /\ failures \in 0..MaxFailures
  /\ Accounts

-----------------------------------------------------------------------------
(* The programs.                                                            *)
LEMMA ThreeSems ==
  /\ s_buffer # s_item /\ s_item # s_vaga /\ s_vaga # s_buffer
  /\ s_buffer \in Sems /\ s_item \in Sems /\ s_vaga \in Sems
  /\ \A s \in Sems : s = s_buffer \/ s = s_item \/ s = s_vaga
  /\ InitialValue[s_buffer] = 1 /\ InitialValue[s_item] = 0 /\ InitialValue[s_vaga] = max_msgs
<1>1. s_buffer # s_item /\ s_item # s_vaga /\ s_vaga # s_buffer
  <2>1. \A a, b : Cardinality({a, b}) <= 2
    <3> SUFFICES ASSUME NEW a, NEW b PROVE Cardinality({a, b}) <= 2
      OBVIOUS
    <3>1. IsFiniteSet({a}) /\ Cardinality({a}) = 1
      BY FS_Singleton
    <3>2. {a, b} = {a} \cup {b}
      OBVIOUS
    <3>3. Cardinality({a, b}) = IF b \in {a} THEN 1 ELSE 2
      BY <3>1, <3>2, FS_AddElement
    <3> QED BY <3>3
  <2>2. s_buffer = s_item => Sems = {s_item, s_vaga}
    BY MQueueAssumption
  <2>3. s_item = s_vaga => Sems = {s_buffer, s_vaga}
    BY MQueueAssumption
  <2>4. s_vaga = s_buffer => Sems = {s_buffer, s_item}
    BY MQueueAssumption
  <2>5. Cardinality(Sems) = 3
    BY MQueueAssumption
  <2>6. ASSUME NEW a, NEW b, Sems = {a, b} PROVE FALSE
    <3>1. Cardinality(Sems) <= 2
      BY <2>1, <2>6
    <3> QED BY <2>5, <3>1
  <2> QED BY <2>2, <2>3, <2>4, <2>6
<1>2. /\ InitialValue[s_buffer] = 1 /\ InitialValue[s_item] = 0 /\ InitialValue[s_vaga] = max_msgs
  BY MQueueAssumption
<1> QED BY <1>1, <1>2, MQueueAssumption

LEMMA ProgramOf ==
  ASSUME Undestroyed, NEW t \in Tasks
  PROVE  /\ Len(Program[t]) = 7
         /\ Program[t][1].op \in {"send", "recv"}
         /\ Program[t][2] = Down(Takes(t))
         /\ Program[t][3] = Down(s_buffer)
         /\ Program[t][4].op = "check"
         /\ Program[t][5].op = IF Role[t] = "send" THEN "put" ELSE "take"
         /\ Program[t][6] = Up(s_buffer)
         /\ Program[t][7] = Up(Gives(t))
<1>1. Program[t] = Body(Role[t])
  BY MQueueAssumption
<1>2. CASE Role[t] = "send"
  <2>1. Program[t] = mqueue_send
    BY <1>1, <1>2 DEF Body
  <2> QED BY <1>2, <2>1 DEF mqueue_send, Do, Down, Up, Takes, Gives
<1>3. CASE Role[t] = "recv"
  <2>1. Program[t] = mqueue_recv
    BY <1>1, <1>3 DEF Body
  <2> QED BY <1>3, <2>1 DEF mqueue_recv, Do, Down, Up, Takes, Gives
<1> QED BY <1>2, <1>3 DEF Undestroyed

LEMMA UndestroyedHandedOver ==
  ASSUME Undestroyed, Preemptible \subseteq HandOver
  PROVE  HandedOver
<1> SUFFICES ASSUME NEW t \in Tasks, NEW i \in 1..Len(Program[t])
             PROVE  Program[t][i].op # "destroy"
  BY DEF HandedOver
<1>1. i = 1 \/ i = 2 \/ i = 3 \/ i = 4 \/ i = 5 \/ i = 6 \/ i = 7
  <2>1. Len(Program[t]) = 7
    BY ProgramOf
  <2>2. i \in 1..7
    BY <2>1
  <2> QED BY <2>2
<1>2. \A s : Down(s).op = "down" /\ Up(s).op = "up"
  BY DEF Down, Up
<1> QED BY <1>1, <1>2, ProgramOf

(* Where t is in its program.                                               *)
LEMMA Position ==
  ASSUME Undestroyed, TypeOK, NEW t \in Tasks
  PROVE  /\ ip[t] \in 1..7
         /\ ip[t] = 1 => call(t) \in {"send", "recv"}
         /\ ip[t] = 2 => call(t) = "down" /\ sem(t) = Takes(t)
         /\ ip[t] = 3 => call(t) = "down" /\ sem(t) = s_buffer
         /\ ip[t] = 4 => call(t) = "check"
         /\ ip[t] = 5 => call(t) = IF Role[t] = "send" THEN "put" ELSE "take"
         /\ ip[t] = 6 => call(t) = "up" /\ sem(t) = s_buffer
         /\ ip[t] = 7 => call(t) = "up" /\ sem(t) = Gives(t)
<1>1. ip[t] \in 1..7
  BY ProgramOf, CallTypes
<1>2. \A s : Down(s).op = "down" /\ Up(s).op = "up" /\ Down(s).sem = s /\ Up(s).sem = s
  BY DEF Down, Up
<1> QED BY <1>1, <1>2, ProgramOf DEF call, sem

LEMMA KeepsAt ==
  ASSUME Undestroyed, TypeOK, NEW t \in Tasks, call(t) = "down" \/ call(t) = "up"
  PROVE  ip[t] \in Keeps(t, sem(t)) <=> call(t) = "up"
<1>1. /\ ip[t] \in {2, 3, 6, 7}
      /\ ip[t] = 2 => call(t) = "down" /\ sem(t) = Takes(t)
      /\ ip[t] = 3 => call(t) = "down" /\ sem(t) = s_buffer
      /\ ip[t] = 6 => call(t) = "up" /\ sem(t) = s_buffer
      /\ ip[t] = 7 => call(t) = "up" /\ sem(t) = Gives(t)
  BY Position
<1>2. /\ Takes(t) # s_buffer /\ Gives(t) # s_buffer /\ Takes(t) # Gives(t)
  BY ThreeSems DEF Takes, Gives
<1> QED BY <1>1, <1>2 DEF Keeps

LEMMA AdvanceTo ==
  ASSUME Undestroyed, TypeOK, NEW t \in Tasks, advance(t)
  PROVE  ip'[t] = IF ip[t] = 7 THEN 1 ELSE ip[t] + 1
<1>1. Len(Program[t]) = 7
  BY ProgramOf
<1> QED BY <1>1 DEF advance, TypeOK

(* sem_down takes what t does not keep and sem_up gives what it keeps; the  *)
(* other semaphores are not concerned.                                      *)
LEMMA Balanced ==
  ASSUME Undestroyed, TypeOK, NEW t \in Tasks, advance(t), NEW s \in Sems,
         call(t) = "down" \/ call(t) = "up"
  PROVE  /\ s = sem(t) => /\ ip[t] \in Keeps(t, s) <=> call(t) = "up"
                          /\ ip'[t] \in Keeps(t, s) <=> call(t) = "down"
         /\ s # sem(t) => (ip'[t] \in Keeps(t, s) <=> ip[t] \in Keeps(t, s))
<1>1. ip'[t] = IF ip[t] = 7 THEN 1 ELSE ip[t] + 1
  BY AdvanceTo
<1>2. /\ ip[t] \in {2, 3, 6, 7}
      /\ ip[t] = 2 => call(t) = "down" /\ sem(t) = Takes(t)
      /\ ip[t] = 3 => call(t) = "down" /\ sem(t) = s_buffer
      /\ ip[t] = 6 => call(t) = "up" /\ sem(t) = s_buffer
      /\ ip[t] = 7 => call(t) = "up" /\ sem(t) = Gives(t)
  BY Position
<1>3. /\ Takes(t) # s_buffer /\ Gives(t) # s_buffer /\ Takes(t) # Gives(t)
      /\ s = s_buffer \/ s = Takes(t) \/ s = Gives(t)
  BY ThreeSems DEF Takes, Gives
<1> QED BY <1>1, <1>2, <1>3 DEF Keeps

-----------------------------------------------------------------------------
(* What a step of t does to the permits of s.                               *)
LEMMA OwnsKept ==
  ASSUME NEW t \in Tasks, Moves(t), NEW s \in Sems, NEW u \in Tasks, u # t, In(s, u)' <=> In(s, u)
  PROVE  Owns(u, s)' <=> Owns(u, s)
<1>1. /\ ip'[u] = ip[u] /\ pc'[u] = pc[u] /\ v'[u] = v[u]
      /\ call(u)' = call(u) /\ sem(u)' = sem(u)
  BY CallKept DEF Moves
<1>2. Token(u, s)' <=> Token(u, s)
  BY <1>1 DEF Token, Granted, NotGivenBack, WakingUp, In
<1>3. Keeps(u, s)' = Keeps(u, s)
  BY DEF Keeps, Takes
<1> QED BY <1>1, <1>2, <1>3 DEF Owns

(* Only what t owns can change.                                             *)
OwnMoves(t, s) ==
  \/ Free(s)' = Free(s) /\ (Owns(t, s)' <=> Owns(t, s))
  \/ Free(s)' = Free(s) - 1 /\ ~Owns(t, s) /\ Owns(t, s)'
  \/ Free(s)' = Free(s) + 1 /\ Owns(t, s) /\ ~Owns(t, s)'

LEMMA SupplySizes ==
  ASSUME TypeOK, NEW s \in Sems
  PROVE  /\ IsFiniteSet(Owners(s)) /\ Cardinality(Owners(s)) \in Nat /\ Free(s) \in Nat
<1>1. IsFiniteSet(Owners(s))
  BY FS_Subset, KernelAssumption DEF Owners
<1> QED BY <1>1, FS_CardinalityType DEF Free, TypeOK

LEMMA SupplyIf ==
  ASSUME TypeOK, NEW t \in Tasks, NEW s \in Sems, OwnMoves(t, s),
         \A u \in Tasks : u # t => (Owns(u, s)' <=> Owns(u, s))
  PROVE  Supply(s)' = Supply(s)
<1> DEFINE O == Owners(s)  P == Owners(s)'  f == Free(s)
<1>1. /\ O \in SUBSET Tasks /\ P \in SUBSET Tasks
      /\ t \in O <=> Owns(t, s)
      /\ t \in P <=> Owns(t, s)'
      /\ \A u \in Tasks : u # t => (u \in O <=> u \in P)
  BY DEF Owners
<1>2. f \in Nat
  BY SupplySizes
<1>3. Supply(s) = f + Cardinality(O) /\ Supply(s)' = f' + Cardinality(P)
  BY DEF Supply
<1>4. \/ f' = f /\ (t \in P <=> t \in O)
      \/ f' = f - 1 /\ t \notin O /\ t \in P
      \/ f' = f + 1 /\ t \in O /\ t \notin P
  BY <1>1 DEF OwnMoves
<1> HIDE DEF O, P, f
<1>5. /\ Cardinality(O) \in Nat /\ Cardinality(P) \in Nat
      /\ t \in O /\ t \in P => Cardinality(P) = Cardinality(O)
      /\ t \in O /\ t \notin P => Cardinality(P) = Cardinality(O) - 1
      /\ t \notin O /\ t \in P => Cardinality(P) = Cardinality(O) + 1
      /\ t \notin O /\ t \notin P => Cardinality(P) = Cardinality(O)
  BY <1>1, SizeStep
<1> QED BY <1>2, <1>3, <1>4, <1>5
(* A step of t that leaves it the same for every semaphore.                 *)
LEMMA StretchSupply ==
  ASSUME Undestroyed, CountInv, NEW t \in Tasks, Moves(t), ip'[t] = ip[t], SameStretch(t),
         NEW s \in Sems, queues'[s] = queues[s], value'[s] = value[s]
  PROVE  Supply(s)' = Supply(s)
<1>1. /\ call(t)' = call(t) /\ sem(t)' = sem(t) /\ Keeps(t, s)' = Keeps(t, s)
      /\ call(t) = "down" \/ call(t) = "up"
      /\ TypeOK /\ v[t] \in Int
  BY CallKept DEF SameStretch, Keeps, Takes, CountInv, SemInv, TypeOK
<1>2. \A u \in Tasks : u # t => (Owns(u, s)' <=> Owns(u, s))
  BY OwnsKept DEF In
<1>3. Owns(t, s)' <=> Owns(t, s)
  <2>1. CASE s # sem(t)
    BY <1>1, <2>1 DEF Owns
  <2>2. CASE s = sem(t)
    <3>1. ip[t] \in Keeps(t, s) <=> call(t) = "up"
      BY <1>1, <2>2, KeepsAt
    <3> DEFINE c == Contains(queues[s], t)
    <3>2. c' <=> c
      OBVIOUS
    <3>3. /\ Granted(t, s) <=> /\ call(t) = "down"
                               /\ \/ pc[t] \in {"down_unlock", "down_test"} /\ v[t] >= 0
                                  \/ pc[t] \in {"suspend_switch", "sem_return"} /\ ~c
          /\ Granted(t, s)' <=> /\ call(t) = "down"
                                /\ \/ pc'[t] \in {"down_unlock", "down_test"} /\ v'[t] >= 0
                                   \/ pc'[t] \in {"suspend_switch", "sem_return"} /\ ~c'
      BY <1>1, <2>2 DEF Granted
    <3> HIDE DEF c
    <3>4. CASE call(t) = "down"
      <4>1. Granted(t, s)' <=> Granted(t, s)
        BY <1>1, <3>2, <3>3, <3>4 DEF SameStretch
      <4>2. /\ Owns(t, s) <=> Granted(t, s)
            /\ Owns(t, s)' <=> Granted(t, s)'
        BY <1>1, <2>2, <3>1, <3>3, <3>4 DEF Owns, Token, NotGivenBack, WakingUp
      <4> QED BY <4>1, <4>2
    <3>5. CASE call(t) = "up"
      <4>1. /\ Owns(t, s) <=> pc[t] = "user" \/ NotGivenBack(t, s) \/ WakingUp(t, s)
            /\ Owns(t, s)' <=> pc'[t] = "user" \/ NotGivenBack(t, s)' \/ WakingUp(t, s)'
        BY <1>1, <2>2, <3>1, <3>3, <3>5 DEF Owns, Token
      <4>2. pc[t] = "user" \/ NotGivenBack(t, s) \/ WakingUp(t, s)
              <=> pc'[t] = "user" \/ NotGivenBack(t, s)' \/ WakingUp(t, s)'
        BY <1>1, <2>2, <3>5 DEF SameStretch, NotGivenBack, WakingUp
      <4> QED BY <4>1, <4>2
    <3> QED BY <1>1, <3>4, <3>5
  <2> QED BY <2>1, <2>2
<1>4. OwnMoves(t, s)
  BY <1>3 DEF OwnMoves, Free
<1> QED BY <1>1, <1>2, <1>4, SupplyIf

LEMMA ReturnSupply ==
  ASSUME Undestroyed, CountInv, NEW t \in Tasks, Moves(t), NEW s \in Sems,
         \/ down_test(t) /\ ~must_wait(t)
         \/ sem_return(t)
         \/ up_test(t) /\ ~(someone_waits(t) /\ queues[sem(t)] # << >>)
  PROVE  Supply(s)' = Supply(s)
<1>1. /\ Running(t) /\ return(t) /\ UNCHANGED <<queues, value>>
      /\ pc[t] \notin {"user", "suspend_switch"}
      /\ call(t) = "down" \/ call(t) = "up"
      /\ ~WakingUp(t, sem(t)) /\ ~NotGivenBack(t, sem(t))
      /\ Granted(t, sem(t)) <=> call(t) = "down"
  BY ReturnsView
<1>2. TypeOK /\ pc'[t] = "user" /\ advance(t)
  BY <1>1, GotoTypes DEF CountInv, SemInv, return, SemLabels
<1>3. /\ s = sem(t) => (ip'[t] \in Keeps(t, s) <=> call(t) = "down")
      /\ s # sem(t) => (ip'[t] \in Keeps(t, s) <=> ip[t] \in Keeps(t, s))
  BY <1>1, <1>2, Balanced
<1>4. Owns(t, s)' <=> ip'[t] \in Keeps(t, s)
  BY <1>2 DEF Owns, Keeps, Takes
<1>5. Owns(t, s)' <=> Owns(t, s)
  BY <1>1, <1>3, <1>4 DEF Owns, Token
<1>6. \A u \in Tasks : u # t => (Owns(u, s)' <=> Owns(u, s))
  BY <1>1, OwnsKept DEF In
<1>7. OwnMoves(t, s)
  BY <1>1, <1>5 DEF OwnMoves, Free
<1> QED BY <1>2, <1>6, <1>7, SupplyIf

(* The stores of the value.                                                 *)
LEMMA StoreSupply ==
  ASSUME Undestroyed, CountInv, NEW t \in Tasks, Moves(t), NEW s \in Sems,
         down_store(t) \/ up_store(t)
  PROVE  Supply(s)' = Supply(s)
<1>1. PICK delta \in {-1, 1} :
        /\ Running(t) /\ UNCHANGED <<queues, ip>> /\ sem(t) \in Sems
        /\ value[sem(t)] \in Int /\ v'[t] = value[sem(t)] + delta
        /\ value'[sem(t)] = value[sem(t)] + delta
        /\ \A r \in Sems : r # sem(t) => value'[r] = value[r]
        /\ \/ /\ delta = -1 /\ call(t) = "down" /\ down_store(t)
              /\ pc[t] = "down_store" /\ pc'[t] = "down_unlock"
           \/ /\ delta = 1 /\ call(t) = "up" /\ up_store(t)
              /\ pc[t] = "up_store" /\ pc'[t] = "up_unlock"
  BY StoreView
<1>2. TypeOK /\ call(t)' = call(t) /\ sem(t)' = sem(t) /\ Keeps(t, s)' = Keeps(t, s)
  BY <1>1, CallKept DEF CountInv, SemInv, Keeps, Takes
<1>3. \A u \in Tasks : u # t => (Owns(u, s)' <=> Owns(u, s))
  BY <1>1, OwnsKept DEF In
<1>4. CASE s # sem(t)
  <2>1. Owns(t, s)' <=> Owns(t, s)
    BY <1>1, <1>2, <1>4 DEF Owns
  <2>2. OwnMoves(t, s)
    BY <1>1, <1>4, <2>1 DEF OwnMoves, Free
  <2> QED BY <1>2, <1>3, <2>2, SupplyIf
<1>5. CASE s = sem(t) /\ call(t) = "down"
  <2>1. ~Owns(t, s) /\ (Owns(t, s)' <=> v'[t] >= 0)
    BY <1>1, <1>2, <1>5 DEF Owns, Token, Granted, NotGivenBack, WakingUp
  <2>2. OwnMoves(t, s)
    BY <1>1, <1>5, <2>1 DEF OwnMoves, Free
  <2> QED BY <1>2, <1>3, <2>2, SupplyIf
<1>6. CASE s = sem(t) /\ call(t) = "up"
  <2>1. Owns(t, s) /\ (Owns(t, s)' <=> v'[t] <= 0)
    BY <1>1, <1>2, <1>6 DEF Owns, Token, Granted, NotGivenBack, WakingUp
  <2>2. OwnMoves(t, s)
    BY <1>1, <1>6, <2>1 DEF OwnMoves, Free
  <2> QED BY <1>2, <1>3, <2>2, SupplyIf
<1> QED BY <1>1, <1>4, <1>5, <1>6

(* A task that waits owns nothing.                                          *)
LEMMA SuspendSupply ==
  ASSUME Undestroyed, CountInv, SemInv', NEW t \in Tasks, suspend_append(t),
         UNCHANGED <<semVars, userVars>>, NEW s \in Sems
  PROVE  Supply(s)' = Supply(s)
<1>1. /\ Running(t) /\ Moves(t) /\ value' = value /\ ip' = ip
      /\ sem(t) \in Sems /\ sem(t)' = sem(t) /\ call(t) = "down" /\ call(t)' = "down"
      /\ pc[t] = "suspend_append" /\ pc'[t] = "suspend_switch"
      /\ value[sem(t)] < 0 /\ ~In(sem(t), t) /\ In(sem(t), t)'
      /\ queues'[sem(t)] = Append(queues[sem(t)], t)
      /\ \A r \in Sems : r # sem(t) => queues'[r] = queues[r]
      /\ \A r \in Sems, u \in Tasks : u # t => (In(r, u)' <=> In(r, u))
  BY SuspendAppendView
<1>2. TypeOK /\ Keeps(t, s)' = Keeps(t, s)
  BY DEF CountInv, SemInv, Keeps, Takes
<1>3. Owns(t, s)' <=> Owns(t, s)
  <2>1. CASE s # sem(t)
    BY <1>1, <1>2, <2>1 DEF Owns
  <2>2. CASE s = sem(t)
    <3>1. Contains(queues'[s], t)
      BY <1>1, <2>2 DEF In
    <3>2. ~Owns(t, s) /\ ~Owns(t, s)'
      BY <1>1, <2>2, <3>1 DEF Owns, Token, Granted, NotGivenBack, WakingUp
    <3> QED BY <3>2
  <2> QED BY <2>1, <2>2
<1>4. OwnMoves(t, s)
  BY <1>1, <1>3 DEF OwnMoves, Free
<1>5. \A u \in Tasks : u # t => (Owns(u, s)' <=> Owns(u, s))
  BY <1>1, OwnsKept
<1> QED BY <1>2, <1>4, <1>5, SupplyIf

(* The permit passes from the task that wakes to the task that is woken.    *)
LEMMA ResumeSupply ==
  ASSUME Undestroyed, CountInv, SemInv', NEW t \in Tasks, resume_remove(t),
         UNCHANGED <<semVars, userVars>>, NEW s \in Sems
  PROVE  Supply(s)' = Supply(s)
<1>1. /\ Running(t) /\ Moves(t) /\ value' = value /\ ip' = ip
      /\ sem(t) \in Sems /\ sem(t)' = sem(t) /\ call(t) = "up" /\ call(t)' = "up"
      /\ pc[t] = "resume_remove" /\ pc'[t] = "resume_append"
      /\ WakingUp(t, sem(t)) /\ ~WakingUp(t, sem(t))'
      /\ queues[sem(t)] # << >> /\ queues'[sem(t)] = Tail(queues[sem(t)])
      /\ \A r \in Sems : r # sem(t) => queues'[r] = queues[r]
  BY ResumeRemoveView
<1>2. PICK h \in Tasks :
              /\ h = Head(queues[sem(t)]) /\ h # t
              /\ sem(h) = sem(t) /\ sem(h)' = sem(t) /\ call(h) = "down"
              /\ pc[h] \in {"suspend_switch", "sem_return"} /\ pc'[h] = pc[h]
              /\ Granted(h, sem(t))' /\ ~Granted(h, sem(t))
              /\ \A r \in Sems, u \in Tasks : u # h => (In(r, u)' <=> In(r, u))
  BY ResumeRemoveView
<1>3. TypeOK /\ \A u \in Tasks : Keeps(u, s)' = Keeps(u, s)
  BY DEF CountInv, SemInv, Keeps, Takes
<1>4. \A u \in Tasks : u # t /\ u # h => (Owns(u, s)' <=> Owns(u, s))
  BY <1>1, <1>2, OwnsKept
<1>5. Free(s)' = Free(s)
  BY <1>1 DEF Free
<1>6. CASE s # sem(t)
  <2>1. /\ Owns(t, s)' <=> Owns(t, s)
        /\ Owns(h, s)' <=> Owns(h, s)
    BY <1>1, <1>2, <1>3, <1>6 DEF Owns
  <2>2. OwnMoves(t, s)
    BY <1>5, <2>1 DEF OwnMoves
  <2> QED BY <1>3, <1>4, <2>1, <2>2, SupplyIf
<1>7. CASE s = sem(t)
  <2>1. Owns(t, s) /\ ~Owns(t, s)'
    BY <1>1, <1>7 DEF Owns, Token, Granted, NotGivenBack
  <2>2. ~Owns(h, s) /\ Owns(h, s)'
    <3>1. ~NotGivenBack(h, s) /\ ~WakingUp(h, s)
      BY <1>2 DEF NotGivenBack, WakingUp
    <3>2. Granted(h, s)'
      BY <1>1, <1>2, <1>7 DEF Granted
    <3> QED BY <1>1, <1>2, <1>7, <3>1, <3>2 DEF Owns, Token
  <2> DEFINE O == Owners(s)  P == Owners(s)'
  <2>3. /\ t \in O /\ h \notin O \ {t} /\ P = (O \ {t}) \cup {h} /\ IsFiniteSet(O)
    BY <1>2, <1>3, <1>4, <2>1, <2>2, SupplySizes DEF Owners
  <2> HIDE DEF O, P
  <2>4. /\ IsFiniteSet(O \ {t}) /\ Cardinality(O \ {t}) = Cardinality(O) - 1
    BY <2>3, FS_RemoveElement
  <2>5. Cardinality(P) = Cardinality(O \ {t}) + 1
    BY <2>3, <2>4, FS_AddElement
  <2>6. Cardinality(O) \in Nat
    BY <2>3, FS_CardinalityType
  <2>7. Cardinality(P) = Cardinality(O)
    BY <2>4, <2>5, <2>6
  <2> QED BY <1>5, <2>7 DEF Supply, O, P
<1> QED BY <1>6, <1>7

LEMMA FrozenSupply ==
  ASSUME UNCHANGED <<queues, frameVars, semVars, userVars>>, NEW s \in Sems
  PROVE  Supply(s)' = Supply(s)
<1>1. \A t \in Tasks : Owns(t, s)' <=> Owns(t, s)
  BY DEF Owns, Keeps, Takes, Token, Granted, NotGivenBack, WakingUp, frameVars, userVars, call, sem
<1>2. Owners(s)' = Owners(s)
  BY <1>1 DEF Owners
<1> QED BY <1>2 DEF Supply, Free, semVars

(* No step of sem_down and sem_up makes or loses a permit.                  *)
LEMMA SupplyStep ==
  ASSUME Undestroyed, CountInv, SemInv', NEW t \in Tasks, Step(t), NEW s \in Sems
  PROVE  Supply(s)' = Supply(s)
<1>1. Running(t) /\ Moves(t)
  BY StepMoves DEF CountInv
<1>2. ~(sem_destroy(t) \/ destroy_loop(t) \/ destroy_head(t))
  <2>1. call(t) # "destroy" /\ pc[t] \notin {"destroy_loop", "destroy_head"}
    BY Position DEF CountInv, SemInv, Local, DownLabels, UpLabels
  <2> QED BY <2>1 DEF sem_destroy, destroy_loop, destroy_head, At
<1>3. CASE \/ sem_down(t) \/ sem_up(t) \/ down_lock(t) \/ up_lock(t) \/ down_load(t) \/ up_load(t)
           \/ down_unlock(t) \/ up_unlock(t) \/ up_head(t)
           \/ down_test(t) /\ must_wait(t)
           \/ up_test(t) /\ someone_waits(t) /\ queues[sem(t)] # << >>
  <2>1. UNCHANGED <<queues, value, ip>> /\ SameStretch(t)
    BY <1>3, CallStretch
  <2> QED BY <1>1, <2>1, StretchSupply
<1>4. CASE \/ down_test(t) /\ ~must_wait(t)
           \/ sem_return(t)
           \/ up_test(t) /\ ~(someone_waits(t) /\ queues[sem(t)] # << >>)
  BY <1>1, <1>4, ReturnSupply
<1>5. CASE down_store(t) \/ up_store(t)
  BY <1>1, <1>5, StoreSupply
<1>6. CASE SuspendResume(t) /\ UNCHANGED <<semVars, userVars>>
  <2>1. CASE suspend_remove(t) \/ suspend_switch(t) \/ resume_append(t)
    BY <1>6, <2>1, KernelStretch, StretchSupply
  <2>2. CASE suspend_append(t) \/ resume_remove(t)
    BY <1>6, <2>2, SuspendSupply, ResumeSupply
  <2> QED BY <1>6, <2>1, <2>2 DEF SuspendResume
<1> QED BY <1>2, <1>3, <1>4, <1>5, <1>6 DEF Step

-----------------------------------------------------------------------------
(* The steps of this module leave the kernel and the semaphores alone.      *)
UserStep(t) ==
  /\ Running(t) /\ pc[t] = "user"
  /\ UNCHANGED <<curr, queues, status, prioVars, timeVars, user_tasks_num, frameVars, semVars>>
  /\ os' \in {"up", "segmentation_fault"}
  /\ ip' \in [Tasks -> Nat] /\ \A u \in Tasks : ip'[u] \in 1..Len(Program[u])
  /\ v' \in [Tasks -> Int]
  /\ \A u \in Tasks : u # t => ip'[u] = ip[u] /\ v'[u] = v[u]

LEMMA IsUserStep ==
  ASSUME TypeOK, NEW t \in Tasks,
         \/ begin_call(t) \/ check_again(t) \/ send_malloc_fails(t) \/ send_put(t)
         \/ recv_take(t) \/ destroy_free(t) \/ destroy_close(t)
  PROVE  UserStep(t)
<1>1. Running(t) /\ pc[t] = "user" /\ os = "up"
  BY DEF begin_call, check_again, send_malloc_fails, send_put, recv_take, destroy_free,
         destroy_close, AtOp, At, Running
<1>2. /\ UNCHANGED <<curr, queues, status, prioVars, timeVars, user_tasks_num, frameVars, semVars>>
      /\ os' \in {"up", "segmentation_fault"}
  BY <1>1 DEF begin_call, check_again, send_malloc_fails, send_put, recv_take, destroy_free,
              destroy_close, kernelVars, coreVars
<1>3. advance(t) \/ give_up(t) \/ UNCHANGED userVars
  BY DEF begin_call, check_again, send_malloc_fails, send_put, recv_take, destroy_free,
         destroy_close
<1>4. /\ ip' \in [Tasks -> Nat] /\ \A u \in Tasks : ip'[u] \in 1..Len(Program[u])
      /\ v' \in [Tasks -> Int]
      /\ \A u \in Tasks : u # t => ip'[u] = ip[u] /\ v'[u] = v[u]
  <2>1. CASE advance(t)
    BY <2>1, AdvanceTypes
  <2>2. CASE give_up(t)
    <3>1. 1 \in 1..Len(Program[t])
      BY CallTypes
    <3> QED BY <2>2, <3>1 DEF give_up, TypeOK
  <2>3. CASE UNCHANGED userVars
    BY <2>3 DEF userVars, TypeOK
  <2> QED BY <1>3, <2>1, <2>2, <2>3
<1> QED BY <1>1, <1>2, <1>4 DEF UserStep

LEMMA UserStepInv ==
  ASSUME SemInv, NEW t \in Tasks, UserStep(t)
  PROVE  SemInv' /\ Moves(t)
<1>1. Moves(t) /\ pc'[t] = "user" /\ queues' = queues /\ lock' = lock
  BY DEF UserStep, Moves, frameVars, argVars, semVars
<1>2. TypeOK'
  BY DEF UserStep, SemInv, TypeOK, KernelTypeOK, prioVars, timeVars, frameVars, argVars, semVars
<1>3. Frame(t)'
  BY <1>1 DEF Frame, KernelLabels
<1>4. LockMoves(t)
  BY <1>1 DEF LockMoves, InLock
<1> QED BY <1>1, <1>2, <1>3, <1>4, Quiet

(* The steps of mqueue_send, mqueue_recv and mqueue_destroy between their   *)
(* calls of the semaphores are not inside a sem_destroy.                    *)
LEMMA IsMQStep ==
  ASSUME TypeOK, NEW t \in Tasks, MQStep(t)
  PROVE  (Step(t) /\ UNCHANGED mqVars) \/ UserStep(t)
BY IsUserStep DEF MQStep

LEMMA MQNextSemInv ==
  ASSUME SemInv, [MQNext]_mqAllVars
  PROVE  SemInv'
<1>1. CASE MQTick \/ MQDispatch
  BY <1>1, NextInv DEF MQTick, MQDispatch, System, Next
<1>2. ASSUME NEW t \in Tasks, MQStep(t) PROVE SemInv'
  <2>1. TypeOK
    BY DEF SemInv
  <2>2. CASE Step(t)
    BY <2>2, NextInv DEF Next
  <2> QED BY <1>2, <2>1, <2>2, IsMQStep, UserStepInv
<1>3. CASE UNCHANGED mqAllVars
  BY <1>3, NextInv DEF mqAllVars
<1> QED BY <1>1, <1>2, <1>3 DEF MQNext

(* The types, the queues and the spin locks, for every program of senders,  *)
(* receivers and destroyers and every point at which the quantum may end.   *)
THEOREM MQSemInvariant == MQSpec => []SemInv
<1>1. MQInit => SemInv
  BY InitInv DEF MQInit
<1>2. SemInv /\ [MQNext]_mqAllVars => SemInv'
  BY MQNextSemInv
<1> QED BY <1>1, <1>2, PTL DEF MQSpec

LEMMA UserStepDestroy ==
  ASSUME DestroyInv, NEW t \in Tasks, UserStep(t)
  PROVE  DestroyInv'
<1>1. /\ SemInv' /\ Moves(t) /\ Running(t) /\ pc[t] = "user" /\ pc'[t] = "user"
      /\ UNCHANGED <<curr, queues, active>>
  BY UserStepInv DEF DestroyInv, UserStep, frameVars, semVars
<1>2. DestroyLocal(t)'
  BY <1>1 DEF DestroyLocal, EnterLabels, KernelLabels
<1>3. \A s \in Sems : ~Destroying(t, s)
  BY <1>1 DEF Destroying
<1> QED BY <1>1, <1>2, <1>3, DestroyQuiet

(* mqueue_destroy leaves nobody in the queue of a semaphore that it has     *)
(* destroyed, with any number of senders, receivers and destroyers, unless  *)
(* a sem_down is preempted between its test of active and its queue.        *)
THEOREM QueueDestroyReleases ==
  ASSUME Preemptible \cap EnterLabels = {}
  PROVE  MQSpec => []DestroyReleases
<1>1. MQInit => DestroyInv
  BY DestroyInit DEF MQInit
<1>2. ASSUME DestroyInv, [MQNext]_mqAllVars PROVE DestroyInv'
  <2>1. CASE MQTick \/ MQDispatch
    BY <1>2, <2>1, DestroyNext DEF MQTick, MQDispatch, System, Next
  <2>2. ASSUME NEW t \in Tasks, MQStep(t) PROVE DestroyInv'
    <3>1. TypeOK
      BY <1>2 DEF DestroyInv, SemInv
    <3>2. CASE Step(t)
      BY <1>2, <3>2, DestroyNext DEF Next
    <3> QED BY <1>2, <2>2, <3>1, <3>2, IsMQStep, UserStepDestroy
  <2>3. CASE UNCHANGED mqAllVars
    BY <1>2, <2>3, DestroyNext DEF mqAllVars
  <2> QED BY <1>2, <2>1, <2>2, <2>3 DEF MQNext
<1>3. DestroyInv => DestroyReleases
  BY DEF DestroyInv
<1> QED BY <1>1, <1>2, <1>3, PTL DEF MQSpec

LEMMA UserStepCount ==
  ASSUME CountInv, NEW t \in Tasks, UserStep(t)
  PROVE  CountInv'
<1>1. /\ SemInv' /\ Moves(t) /\ Running(t) /\ pc[t] = "user" /\ pc'[t] = "user"
      /\ queues' = queues /\ curr' = curr /\ active' = active /\ value' = value
      /\ NoNullResume'
  BY UserStepInv DEF CountInv, UserStep, frameVars, semVars, NoNullResume
<1>2. Local(t)'
  BY <1>1 DEF Local, DownLabels, UpLabels, KernelLabels, WindowLabels
<1>3. \A s \in Sems : CountMoves(t, s, 0)
  BY <1>1 DEF CountMoves, Below, Entering, WakingUp
<1> QED BY <1>1, <1>2, <1>3, QuietCount DEF Locked

(* What a move between two positions does to the permits of s.              *)
LEMMA UserSupply ==
  ASSUME CountInv, NEW t \in Tasks, UserStep(t), NEW s \in Sems
  PROVE  /\ (ip'[t] \in Keeps(t, s) <=> ip[t] \in Keeps(t, s)) => Supply(s)' = Supply(s)
         /\ ip[t] \in Keeps(t, s) /\ ip'[t] \notin Keeps(t, s) => Supply(s)' = Supply(s) - 1
         /\ ip[t] \notin Keeps(t, s) /\ ip'[t] \in Keeps(t, s) => Supply(s)' = Supply(s) + 1
<1>1. /\ Moves(t) /\ TypeOK /\ pc[t] = "user" /\ pc'[t] = "user"
      /\ queues' = queues /\ value' = value /\ Keeps(t, s)' = Keeps(t, s)
  BY UserStepInv DEF CountInv, SemInv, UserStep, frameVars, semVars, Keeps, Takes
<1>2. \A u \in Tasks : u # t => (Owns(u, s)' <=> Owns(u, s))
  BY <1>1, OwnsKept DEF In
<1>3. /\ Owns(t, s) <=> ip[t] \in Keeps(t, s)
      /\ Owns(t, s)' <=> ip'[t] \in Keeps(t, s)
  BY <1>1 DEF Owns
<1> DEFINE O == Owners(s)  P == Owners(s)'  f == Free(s)
<1>4. /\ O \in SUBSET Tasks /\ P \in SUBSET Tasks
      /\ t \in O <=> ip[t] \in Keeps(t, s)
      /\ t \in P <=> ip'[t] \in Keeps(t, s)
      /\ \A u \in Tasks : u # t => (u \in O <=> u \in P)
  BY <1>2, <1>3 DEF Owners
<1>5. f \in Nat /\ f' = f
  BY <1>1, SupplySizes DEF Free
<1>6. Supply(s) = f + Cardinality(O) /\ Supply(s)' = f' + Cardinality(P)
  BY DEF Supply
<1> HIDE DEF O, P, f
<1>7. /\ Cardinality(O) \in Nat /\ Cardinality(P) \in Nat
      /\ t \in O /\ t \in P => Cardinality(P) = Cardinality(O)
      /\ t \in O /\ t \notin P => Cardinality(P) = Cardinality(O) - 1
      /\ t \notin O /\ t \in P => Cardinality(P) = Cardinality(O) + 1
      /\ t \notin O /\ t \notin P => Cardinality(P) = Cardinality(O)
  BY <1>4, SizeStep
<1> QED BY <1>4, <1>5, <1>6, <1>7

LEMMA SupplyIsNat ==
  ASSUME TypeOK, NEW s \in Sems
  PROVE  Supply(s) \in Nat
BY SupplySizes DEF Supply

-----------------------------------------------------------------------------
(* The accounts, step by step.                                              *)
LEMMA AccountsKept ==
  ASSUME Accounts, \A s \in Sems : Supply(s)' = Supply(s), buffer' = buffer, failures' = failures
  PROVE  Accounts'
BY ThreeSems DEF Accounts

(* The two tests of active move no permit.                                  *)
LEMMA BeginCall ==
  ASSUME Undestroyed, MQInv, NEW t \in Tasks, begin_call(t) \/ check_again(t)
  PROVE  MQInv'
<1>1. /\ UserStep(t) /\ TypeOK /\ CountInv /\ UNCHANGED mqVars
      /\ call(t) \in {"send", "recv", "check"} /\ advance(t)
  BY IsUserStep DEF MQInv, CountInv, SemInv, begin_call, check_again, AtOp
<1>2. (ip[t] = 1 /\ ip'[t] = 2) \/ (ip[t] = 4 /\ ip'[t] = 5)
  <2>1. ip[t] = 1 \/ ip[t] = 4
    BY <1>1, Position
  <2>2. ip'[t] = IF ip[t] = 7 THEN 1 ELSE ip[t] + 1
    BY <1>1, AdvanceTo
  <2> QED BY <2>1, <2>2
<1>3. \A s \in Sems : Supply(s)' = Supply(s)
  BY <1>1, <1>2, UserSupply DEF Keeps
<1>4. Accounts'
  BY <1>1, <1>3, AccountsKept DEF MQInv, mqVars
<1>5. CountInv'
  BY <1>1, UserStepCount
<1> QED BY <1>1, <1>4, <1>5 DEF MQInv, mqVars

(* A message takes the slot and is announced later.                         *)
LEMMA SendPut ==
  ASSUME Undestroyed, MQInv, NEW t \in Tasks, send_put(t)
  PROVE  MQInv'
<1>1. /\ UserStep(t) /\ TypeOK /\ CountInv /\ UNCHANGED <<mq_active, failures>>
      /\ call(t) = "put" /\ advance(t) /\ buffer' = Append(buffer, t) /\ buffer \in Seq(Tasks)
  BY IsUserStep DEF MQInv, CountInv, SemInv, send_put, AtOp
<1>2. ip[t] = 5 /\ Role[t] = "send" /\ ip'[t] = 6
  <2>1. ip[t] = 5 /\ Role[t] = "send"
    BY <1>1, Position
  <2>2. ip'[t] = IF ip[t] = 7 THEN 1 ELSE ip[t] + 1
    BY <1>1, AdvanceTo
  <2> QED BY <2>1, <2>2
<1>3. /\ Supply(s_vaga)' = Supply(s_vaga) - 1
      /\ Supply(s_item)' = Supply(s_item) + 1
      /\ Supply(s_buffer)' = Supply(s_buffer)
  BY <1>1, <1>2, UserSupply, ThreeSems DEF Keeps, Takes
<1>4. /\ Supply(s_vaga) \in Nat /\ Supply(s_item) \in Nat
      /\ Len(buffer') = Len(buffer) + 1 /\ Len(buffer) \in Nat /\ buffer' \in Seq(Tasks)
  BY <1>1, ThreeSems, SupplyIsNat, AppendProperties, LenProperties
<1>5. Accounts'
  BY <1>1, <1>3, <1>4 DEF Accounts, MQInv
<1>6. CountInv'
  BY <1>1, UserStepCount
<1> QED BY <1>1, <1>4, <1>5, <1>6 DEF MQInv

(* A sender that finds no memory keeps the slot and the buffer for ever.    *)
LEMMA MallocFails ==
  ASSUME Undestroyed, MQInv, NEW t \in Tasks, send_malloc_fails(t)
  PROVE  MQInv'
<1>1. /\ UserStep(t) /\ TypeOK /\ CountInv /\ UNCHANGED <<mq_active, buffer>>
      /\ call(t) = "put" /\ ip' = [ip EXCEPT ![t] = 1]
      /\ failures < MaxFailures /\ failures' = failures + 1
  BY IsUserStep DEF MQInv, CountInv, SemInv, send_malloc_fails, AtOp, give_up
<1>2. ip[t] = 5 /\ Role[t] = "send" /\ ip'[t] = 1
  <2>1. ip[t] = 5 /\ Role[t] = "send"
    BY <1>1, Position
  <2>2. ip'[t] = 1
    BY <1>1 DEF TypeOK
  <2> QED BY <2>1, <2>2
<1>3. /\ Supply(s_vaga)' = Supply(s_vaga) - 1
      /\ Supply(s_item)' = Supply(s_item)
      /\ Supply(s_buffer)' = Supply(s_buffer) - 1
  BY <1>1, <1>2, UserSupply, ThreeSems DEF Keeps, Takes
<1>4. /\ Supply(s_vaga) \in Nat /\ Supply(s_buffer) \in Nat /\ Len(buffer) \in Nat
      /\ failures \in Nat /\ failures' \in 0..MaxFailures
  BY <1>1, ThreeSems, SupplyIsNat, LenProperties, MQueueAssumption DEF MQInv
<1>5. Accounts'
  BY <1>1, <1>3, <1>4 DEF Accounts, MQInv
<1>6. CountInv'
  BY <1>1, UserStepCount
<1> QED BY <1>1, <1>4, <1>5, <1>6 DEF MQInv

(* A receiver finds a message, since it owns its announcement.              *)
LEMMA TakeFinds ==
  ASSUME Undestroyed, MQInv, NEW t \in Tasks, pc[t] = "user", call(t) = "take"
  PROVE  buffer # << >>
<1>1. TypeOK /\ ip[t] = 5 /\ Role[t] = "recv"
  BY Position DEF MQInv, CountInv, SemInv, Undestroyed
<1>2. t \in Owners(s_item)
  BY <1>1, ThreeSems DEF Owners, Owns, Keeps, Takes
<1>3. Cardinality(Owners(s_item)) \in Nat \ {0} /\ Free(s_item) \in Nat
  BY <1>1, <1>2, ThreeSems, SupplySizes, FS_EmptySet
<1>4. Len(buffer) # 0
  BY <1>3 DEF MQInv, Accounts, Supply
<1> QED BY <1>4, EmptySeq

LEMMA RecvTake ==
  ASSUME Undestroyed, MQInv, NEW t \in Tasks, recv_take(t)
  PROVE  MQInv' /\ os' = os
<1>0. buffer # << >>
  BY TakeFinds DEF recv_take, AtOp, At
<1>1. /\ UserStep(t) /\ TypeOK /\ CountInv /\ UNCHANGED <<mq_active, failures>>
      /\ call(t) = "take" /\ advance(t) /\ buffer' = Tail(buffer) /\ buffer \in Seq(Tasks)
      /\ os' = os
  BY <1>0, IsUserStep DEF MQInv, CountInv, SemInv, recv_take, without_oldest, AtOp
<1>2. ip[t] = 5 /\ Role[t] = "recv" /\ ip'[t] = 6
  <2>1. ip[t] = 5 /\ Role[t] = "recv"
    BY <1>1, Position DEF Undestroyed
  <2>2. ip'[t] = IF ip[t] = 7 THEN 1 ELSE ip[t] + 1
    BY <1>1, AdvanceTo
  <2> QED BY <2>1, <2>2
<1>3. /\ Supply(s_vaga)' = Supply(s_vaga) + 1
      /\ Supply(s_item)' = Supply(s_item) - 1
      /\ Supply(s_buffer)' = Supply(s_buffer)
  BY <1>1, <1>2, UserSupply, ThreeSems DEF Keeps, Takes
<1>4. /\ Supply(s_vaga) \in Nat /\ Supply(s_item) \in Nat
      /\ Len(buffer') = Len(buffer) - 1 /\ Len(buffer) \in Nat /\ buffer' \in Seq(Tasks)
  BY <1>0, <1>1, ThreeSems, SupplyIsNat, HeadTailProperties, LenProperties
<1>5. Accounts'
  BY <1>1, <1>3, <1>4 DEF Accounts, MQInv
<1>6. CountInv'
  BY <1>1, UserStepCount
<1> QED BY <1>1, <1>4, <1>5, <1>6 DEF MQInv

LEMMA MQInitInv ==
  ASSUME Undestroyed, MQInit
  PROVE  MQInv /\ NoNullMessage
<1>1. PICK readyq : Booted(readyq)
  BY DEF MQInit, Init
<1>2. CountInv /\ buffer = << >> /\ mq_active = 1 /\ failures = 0 /\ os = "up"
  BY <1>1, CountInit DEF MQInit, Booted
<1>3. ASSUME NEW s \in Sems PROVE Supply(s) = InitialValue[s]
  <2>1. \A t \in Tasks : ~Owns(t, s)
    BY <1>1 DEF Booted, Owns, Keeps
  <2>2. Cardinality(Owners(s)) = 0
    <3>1. Owners(s) = {}
      BY <2>1 DEF Owners
    <3> QED BY <3>1, FS_EmptySet
  <2>3. Free(s) = InitialValue[s] /\ InitialValue[s] \in Nat
    BY <1>1, SemaphoreAssumption DEF Free, Booted
  <2> QED BY <2>2, <2>3 DEF Supply
<1>4. buffer \in Seq(Tasks) /\ Len(buffer) = 0 /\ failures \in 0..MaxFailures
  BY <1>2, EmptySeq, MQueueAssumption
<1>5. Accounts
  <2>1. Supply(s_buffer) = 1 /\ Supply(s_item) = 0 /\ Supply(s_vaga) = max_msgs
    BY <1>3, ThreeSems
  <2>2. max_msgs \in Nat
    BY MQueueAssumption
  <2> QED BY <1>2, <1>4, <2>1, <2>2 DEF Accounts
<1> QED BY <1>2, <1>4, <1>5 DEF MQInv, NoNullMessage

(* A call of the semaphores does not read a message.                        *)
LEMMA StepOs ==
  ASSUME NEW t \in Tasks, Step(t)
  PROVE  os' # "segmentation_fault"
<1>1. os = "up" /\ (os' = os \/ os' = "NULL_PTR_ERROR")
  BY DEF Step, sem_down, sem_up, enter_call, sem_destroy, sem_return, up_test, destroy_loop,
         down_lock, up_lock, lock_step, down_unlock, up_unlock, unlock_step, down_load, up_load,
         load_step, down_store, up_store, store_step, down_test, up_head, destroy_head,
         resume_head, call_resume, SuspendResume, suspend_remove, suspend_append, suspend_switch,
         resume_remove, resume_append, At, Running, coreVars
<1> QED BY <1>1

LEMMA MQNextInv ==
  ASSUME Undestroyed, Preemptible \subseteq HandOver, MQInv, NoNullMessage, [MQNext]_mqAllVars
  PROVE  MQInv' /\ NoNullMessage'
<1>1. CountInv /\ SemInv /\ TypeOK /\ HandedOver /\ mq_active = 1
  BY UndestroyedHandedOver DEF MQInv, CountInv, SemInv
<1>2. CASE MQTick \/ MQDispatch
  <2>1. System /\ [Next]_vars /\ UNCHANGED mqVars
    BY <1>2 DEF MQTick, MQDispatch, System, Next
  <2>2. CountInv'
    BY <1>1, <2>1, CountNext
  <2>3. UNCHANGED <<queues, frameVars, semVars, userVars, os>>
    BY <1>1, <2>1, NobodyDue DEF System, Tick, Dispatch
  <2>4. Accounts'
    BY <2>1, <2>3, FrozenSupply, AccountsKept DEF MQInv, mqVars
  <2> QED BY <2>1, <2>2, <2>3, <2>4 DEF MQInv, mqVars, NoNullMessage
<1>3. ASSUME NEW t \in Tasks, Step(t), UNCHANGED mqVars PROVE MQInv' /\ NoNullMessage'
  <2>1. SemInv'
    BY <1>1, <1>3, NextInv DEF Next
  <2>2. CountInv'
    BY <1>1, <1>3, <2>1, StepCount
  <2>3. \A s \in Sems : Supply(s)' = Supply(s)
    BY <1>1, <1>3, <2>1, SupplyStep
  <2>4. Accounts'
    BY <1>3, <2>3, AccountsKept DEF MQInv, mqVars
  <2>5. NoNullMessage'
    BY <1>3, StepOs DEF NoNullMessage
  <2> QED BY <1>3, <2>2, <2>4, <2>5 DEF MQInv, mqVars
<1>4. ASSUME NEW t \in Tasks, \/ begin_call(t) \/ check_again(t)
                               \/ send_malloc_fails(t) \/ send_put(t) \/ recv_take(t)
      PROVE  MQInv' /\ NoNullMessage'
  <2>1. MQInv'
    BY <1>4, BeginCall, MallocFails, SendPut, RecvTake
  <2>2. os' = os
    <3>1. CASE recv_take(t)
      BY <3>1, RecvTake
    <3>2. CASE begin_call(t) \/ check_again(t) \/ send_malloc_fails(t) \/ send_put(t)
      BY <3>2 DEF begin_call, check_again, send_malloc_fails, send_put, kernelVars, coreVars
    <3> QED BY <1>4, <3>1, <3>2
  <2> QED BY <2>1, <2>2 DEF NoNullMessage
<1>5. ASSUME NEW t \in Tasks
      PROVE  ~(destroy_free(t) \/ destroy_close(t))
  <2>1. call(t) \notin {"free", "close"}
    BY <1>1, Position
  <2> QED BY <1>1, <2>1 DEF destroy_free, destroy_close, AtOp
<1>6. CASE UNCHANGED mqAllVars
  <2>1. UNCHANGED <<queues, frameVars, semVars, userVars, os>> /\ UNCHANGED vars /\ UNCHANGED mqVars
    BY <1>6 DEF mqAllVars, vars, kernelVars, coreVars
  <2>2. CountInv'
    BY <1>1, <2>1, CountNext
  <2>3. Accounts'
    BY <2>1, FrozenSupply, AccountsKept DEF MQInv, mqVars
  <2> QED BY <2>1, <2>2, <2>3 DEF MQInv, mqVars, NoNullMessage
<1> QED BY <1>2, <1>3, <1>4, <1>5, <1>6 DEF MQNext, MQStep

(* Where the permits and the messages are, in every state, for any number   *)
(* of senders and receivers and any max_msgs.                               *)
THEOREM AccountsInvariant ==
  ASSUME Undestroyed, Preemptible \subseteq HandOver
  PROVE  MQSpec => [](MQInv /\ NoNullMessage)
<1>1. MQInit => MQInv /\ NoNullMessage
  BY MQInitInv
<1>2. (MQInv /\ NoNullMessage) /\ [MQNext]_mqAllVars => (MQInv /\ NoNullMessage)'
  BY MQNextInv
<1> QED BY <1>1, <1>2, PTL DEF MQSpec

(* mqueue_recv never takes a message from an empty buffer: who has passed   *)
(* sem_down(s_item) owns one of the messages.                               *)
THEOREM NeverReadsEmpty ==
  ASSUME Undestroyed, Preemptible \subseteq HandOver
  PROVE  MQSpec => []NoNullMessage
BY AccountsInvariant, PTL

(* The buffer holds at most max_msgs messages.                              *)
THEOREM QueueBounded ==
  ASSUME Undestroyed, Preemptible \subseteq HandOver
  PROVE  MQSpec => []MQTypeOK
<1>1. MQInv => MQTypeOK
  <2> SUFFICES ASSUME MQInv PROVE MQTypeOK
    OBVIOUS
  <2>1. TypeOK /\ Supply(s_vaga) \in Nat /\ Len(buffer) \in Nat /\ failures \in Nat
    BY ThreeSems, SupplyIsNat, LenProperties, MQueueAssumption DEF MQInv, CountInv, SemInv
  <2>2. Len(buffer) <= max_msgs
    BY <2>1 DEF MQInv, Accounts
  <2> QED BY <2>1, <2>2 DEF MQTypeOK, MQInv
<1> QED BY <1>1, AccountsInvariant, PTL

(* The buffer is used by one task at a time: s_buffer has one permit, and   *)
(* whoever reads or writes the buffer owns it.                              *)
THEOREM BufferExclusive ==
  ASSUME Undestroyed, Preemptible \subseteq HandOver
  PROVE  MQSpec => []BufferGuarded
<1>1. MQInv => BufferGuarded
  <2> SUFFICES ASSUME MQInv, NEW t \in Tasks, NEW u \in Tasks, AtBuffer(t), AtBuffer(u), t # u
               PROVE  FALSE
    BY DEF BufferGuarded
  <2>1. TypeOK
    BY DEF MQInv, CountInv, SemInv
  <2>2. ip[t] = 5 /\ ip[u] = 5
    BY <2>1, Position DEF AtBuffer
  <2>3. {t, u} \subseteq Owners(s_buffer)
    BY <2>2 DEF Owners, Owns, Keeps, AtBuffer
  <2>4. Cardinality({t, u}) = 2
    <3>1. IsFiniteSet({t}) /\ Cardinality({t}) = 1 /\ {t, u} = {t} \cup {u}
      BY FS_Singleton
    <3> QED BY <3>1, FS_AddElement
  <2>5. /\ IsFiniteSet(Owners(s_buffer)) /\ Cardinality(Owners(s_buffer)) \in Nat
        /\ Free(s_buffer) \in Nat /\ failures \in Nat
    BY <2>1, ThreeSems, SupplySizes, MQueueAssumption DEF MQInv
  <2>6. 2 <= Cardinality(Owners(s_buffer))
    BY <2>3, <2>4, <2>5, FS_Subset
  <2> QED BY <2>5, <2>6 DEF MQInv, Accounts, Supply
<1> QED BY <1>1, AccountsInvariant, PTL

-----------------------------------------------------------------------------
(* The owners of a slot or of an announcement, as module MQueue counts them. *)
LEMMA OwnsIs ==
  ASSUME Undestroyed, CountInv, NEW t \in Tasks, NEW s \in Sems, s # s_buffer
  PROVE  Owns(t, s) <=>
           \/ s = Takes(t) /\ (Granted(t, s) \/ (2 < ip[t] /\ ip[t] <= 5))
           \/ /\ s = Gives(t) /\ ip[t] >= 6
              /\ call(t) = "up" /\ sem(t) = s => pc[t] = "user" \/ NotGivenBack(t, s) \/ WakingUp(t, s)
<1>1. /\ ip[t] \in 1..7
      /\ ip[t] = 1 => call(t) \in {"send", "recv"}
      /\ ip[t] = 2 => call(t) = "down" /\ sem(t) = Takes(t)
      /\ ip[t] = 3 => call(t) = "down" /\ sem(t) = s_buffer
      /\ ip[t] = 4 => call(t) = "check"
      /\ ip[t] = 5 => call(t) \in {"put", "take"}
      /\ ip[t] = 6 => call(t) = "up" /\ sem(t) = s_buffer
      /\ ip[t] = 7 => call(t) = "up" /\ sem(t) = Gives(t)
  BY Position DEF CountInv, SemInv
<1>2. call(t) \notin {"down", "up"} => pc[t] = "user"
  BY DEF CountInv, Local
<1>3. /\ Takes(t) # s_buffer /\ Gives(t) # s_buffer /\ Takes(t) # Gives(t)
      /\ s = Takes(t) \/ s = Gives(t)
  BY ThreeSems DEF Takes, Gives
<1>4. /\ Granted(t, s) => call(t) = "down" /\ sem(t) = s /\ pc[t] # "user"
      /\ NotGivenBack(t, s) \/ WakingUp(t, s) => call(t) = "up" /\ sem(t) = s /\ pc[t] # "user"
  BY DEF Granted, NotGivenBack, WakingUp
<1>5. CASE s = Takes(t)
  <2>1. Owns(t, s) <=> IF ip[t] = 2 /\ pc[t] # "user" THEN Granted(t, s) ELSE ip[t] \in {3, 4, 5}
    BY <1>1, <1>2, <1>3, <1>4, <1>5 DEF Owns, Keeps, Token
  <2>2. Granted(t, s) => ip[t] = 2 /\ pc[t] # "user"
    BY <1>1, <1>3, <1>4, <1>5
  <2> QED BY <1>1, <1>3, <1>5, <2>1, <2>2
<1>6. CASE s = Gives(t)
  <2>1. Owns(t, s) <=> IF ip[t] = 7 /\ pc[t] # "user" THEN NotGivenBack(t, s) \/ WakingUp(t, s)
                                                     ELSE ip[t] \in {6, 7}
    BY <1>1, <1>2, <1>3, <1>4, <1>6 DEF Owns, Keeps, Token
  <2> QED BY <1>1, <1>3, <1>6, <2>1
<1> QED BY <1>3, <1>5, <1>6

(* No slot is lost or invented.                                             *)
THEOREM SlotsAreConserved ==
  ASSUME Undestroyed, Preemptible \subseteq HandOver
  PROVE  MQSpec => []SlotsConserved
<1>1. MQInv => SlotsConserved
  <2> SUFFICES ASSUME MQInv PROVE SlotsConserved
    OBVIOUS
  <2> DEFINE S == {t \in Tasks : \/ GrantedUntil(t, s_vaga, "send", 5)
                                 \/ GivesFrom(t, s_vaga, "recv", 6)}
  <2>1. \A t \in Tasks : /\ s_vaga = Takes(t) <=> Role[t] = "send"
                         /\ s_vaga = Gives(t) <=> Role[t] = "recv"
    BY ThreeSems DEF Takes, Gives, Undestroyed
  <2>2. \A t \in Tasks : GrantedUntil(t, s_vaga, "send", 5) \/ GivesFrom(t, s_vaga, "recv", 6)
                          <=> Owns(t, s_vaga)
    <3> SUFFICES ASSUME NEW t \in Tasks
                 PROVE  GrantedUntil(t, s_vaga, "send", 5) \/ GivesFrom(t, s_vaga, "recv", 6)
                          <=> Owns(t, s_vaga)
      OBVIOUS
    <3>1. Owns(t, s_vaga) <=>
            \/ s_vaga = Takes(t) /\ (Granted(t, s_vaga) \/ (2 < ip[t] /\ ip[t] <= 5))
            \/ /\ s_vaga = Gives(t) /\ ip[t] >= 6
               /\ call(t) = "up" /\ sem(t) = s_vaga =>
                    pc[t] = "user" \/ NotGivenBack(t, s_vaga) \/ WakingUp(t, s_vaga)
      BY ThreeSems, OwnsIs DEF MQInv
    <3>2. (Role[t] = "send" \/ Role[t] = "recv") /\ ip[t] \in Nat
      BY DEF Undestroyed, MQInv, CountInv, SemInv, TypeOK
    <3>3. CASE Role[t] = "send"
      BY <2>1, <3>1, <3>2, <3>3 DEF GrantedUntil, GivesFrom
    <3>4. CASE Role[t] = "recv"
      BY <2>1, <3>1, <3>2, <3>4 DEF GrantedUntil, GivesFrom
    <3> QED BY <3>2, <3>3, <3>4
  <2>3. S = Owners(s_vaga)
    BY <2>2 DEF Owners
  <2>4. permits_free(s_vaga) = Free(s_vaga)
    BY DEF permits_free, Free
  <2>5. permits_free(s_vaga) + Len(buffer) + failures + Cardinality(S) = max_msgs
    <3>1. /\ Free(s_vaga) \in Nat /\ Cardinality(Owners(s_vaga)) \in Nat
          /\ Len(buffer) \in Nat /\ failures \in Nat
      BY ThreeSems, SupplySizes, LenProperties, MQueueAssumption DEF MQInv, CountInv, SemInv
    <3>2. Free(s_vaga) + Cardinality(Owners(s_vaga)) + Len(buffer) + failures = max_msgs
      BY DEF MQInv, Accounts, Supply
    <3> DEFINE f == Free(s_vaga)  o == Cardinality(Owners(s_vaga))  l == Len(buffer)
    <3> HIDE DEF f, o, l
    <3>3. f + l + failures + o = max_msgs
      BY <3>1, <3>2 DEF f, o, l
    <3> QED BY <2>3, <2>4, <3>3 DEF f, o, l
  <2> QED BY <2>5 DEF SlotsConserved
<1> QED BY <1>1, AccountsInvariant, PTL

(* Every message is announced once.                                         *)
THEOREM MessagesAreAnnounced ==
  ASSUME Undestroyed, Preemptible \subseteq HandOver
  PROVE  MQSpec => []MessagesAnnounced
<1>1. MQInv => MessagesAnnounced
  <2> SUFFICES ASSUME MQInv PROVE MessagesAnnounced
    OBVIOUS
  <2> DEFINE S == {t \in Tasks : \/ GrantedUntil(t, s_item, "recv", 5)
                                 \/ GivesFrom(t, s_item, "send", 6)}
  <2>1. \A t \in Tasks : /\ s_item = Takes(t) <=> Role[t] = "recv"
                         /\ s_item = Gives(t) <=> Role[t] = "send"
    BY ThreeSems DEF Takes, Gives, Undestroyed
  <2>2. \A t \in Tasks : GrantedUntil(t, s_item, "recv", 5) \/ GivesFrom(t, s_item, "send", 6)
                          <=> Owns(t, s_item)
    <3> SUFFICES ASSUME NEW t \in Tasks
                 PROVE  GrantedUntil(t, s_item, "recv", 5) \/ GivesFrom(t, s_item, "send", 6)
                          <=> Owns(t, s_item)
      OBVIOUS
    <3>1. Owns(t, s_item) <=>
            \/ s_item = Takes(t) /\ (Granted(t, s_item) \/ (2 < ip[t] /\ ip[t] <= 5))
            \/ /\ s_item = Gives(t) /\ ip[t] >= 6
               /\ call(t) = "up" /\ sem(t) = s_item =>
                    pc[t] = "user" \/ NotGivenBack(t, s_item) \/ WakingUp(t, s_item)
      BY ThreeSems, OwnsIs DEF MQInv
    <3>2. (Role[t] = "send" \/ Role[t] = "recv") /\ ip[t] \in Nat
      BY DEF Undestroyed, MQInv, CountInv, SemInv, TypeOK
    <3>3. CASE Role[t] = "send"
      BY <2>1, <3>1, <3>2, <3>3 DEF GrantedUntil, GivesFrom
    <3>4. CASE Role[t] = "recv"
      BY <2>1, <3>1, <3>2, <3>4 DEF GrantedUntil, GivesFrom
    <3> QED BY <3>2, <3>3, <3>4
  <2>3. S = Owners(s_item)
    BY <2>2 DEF Owners
  <2>4. permits_free(s_item) = Free(s_item)
    BY DEF permits_free, Free
  <2>5. Len(buffer) = permits_free(s_item) + Cardinality(S)
    BY <2>3, <2>4 DEF MQInv, Accounts, Supply
  <2> QED BY <2>5 DEF MessagesAnnounced
<1> QED BY <1>1, AccountsInvariant, PTL

-----------------------------------------------------------------------------
(* The refinement of AbsMailbox.                                            *)
Sent == {t \in Tasks : Past(t, "send")}
Got  == {t \in Tasks : Past(t, "recv")}

(* A call of the semaphores is at no step on the buffer.                    *)
LEMMA SemaphoreCallMoves ==
  ASSUME Undestroyed, CountInv, NEW t \in Tasks, Step(t)
  PROVE  /\ Moves(t)
         /\ \/ ip'[t] = ip[t]
            \/ ip[t] \in {2, 3, 6, 7} /\ ip'[t] = IF ip[t] = 7 THEN 1 ELSE ip[t] + 1
<1>1. SemInv /\ TypeOK /\ Local(t)
  BY DEF CountInv, SemInv
<1>2. Moves(t)
  BY <1>1, StepMoves
<1>3. ip' = ip \/ advance(t)
  BY DEF Step, sem_down, sem_up, enter_call, sem_destroy, sem_return, up_test, destroy_loop,
         down_lock, up_lock, lock_step, down_unlock, up_unlock, unlock_step, down_load, up_load,
         load_step, down_store, up_store, store_step, down_test, up_head, destroy_head,
         resume_head, userVars, return
<1>4. pc[t] # "user" \/ call(t) \in {"down", "up", "destroy"}
  BY DEF Step, sem_down, sem_up, enter_call, sem_destroy, sem_return, up_test, destroy_loop,
         down_lock, up_lock, lock_step, down_unlock, up_unlock, unlock_step, down_load, up_load,
         load_step, down_store, up_store, store_step, down_test, up_head, destroy_head,
         SuspendResume, suspend_remove, suspend_append, suspend_switch, resume_remove,
         resume_append, At
<1>5. ip[t] \in {2, 3, 6, 7}
  BY <1>1, <1>4, Position DEF Local
<1> QED BY <1>1, <1>2, <1>3, <1>5, AdvanceTo

(* What a step of t does to the two sets.                                   *)
LEMMA PastAfter ==
  ASSUME TypeOK, NEW t \in Tasks, \A u \in Tasks : u # t => ip'[u] = ip[u]
  PROVE  /\ (ip'[t] > 5 <=> ip[t] > 5) => UNCHANGED <<Sent, Got>>
         /\ ip[t] > 5 /\ ~(ip'[t] > 5) => Sent' = Sent \ {t} /\ Got' = Got \ {t}
         /\ ~(ip[t] > 5) /\ ip'[t] > 5 =>
              /\ Sent' = IF Role[t] = "send" THEN Sent \cup {t} ELSE Sent
              /\ Got' = IF Role[t] = "recv" THEN Got \cup {t} ELSE Got
BY DEF Sent, Got, Past

(* While a task is at the buffer, no malloc has failed yet, and a sender    *)
(* there has a free slot.                                                   *)
LEMMA AtTheBuffer ==
  ASSUME Undestroyed, MQInv, NEW t \in Tasks, pc[t] = "user", call(t) \in {"put", "take"}
  PROVE  /\ failures = 0 /\ ip[t] = 5
         /\ call(t) = "put" => Role[t] = "send" /\ Len(buffer) < max_msgs
         /\ call(t) = "take" => Role[t] = "recv"
<1>1. /\ TypeOK /\ ip[t] = 5 /\ failures \in Nat /\ Len(buffer) \in Nat
      /\ call(t) = IF Role[t] = "send" THEN "put" ELSE "take"
  BY Position, LenProperties, MQueueAssumption DEF MQInv, CountInv, SemInv
<1>2. t \in Owners(s_buffer) /\ t \in Owners(Takes(t))
  BY <1>1, ThreeSems DEF Owners, Owns, Keeps, Takes
<1>3. \A s \in Sems : t \in Owners(s) => Supply(s) \in Nat \ {0}
  <2> SUFFICES ASSUME NEW s \in Sems, t \in Owners(s) PROVE Supply(s) \in Nat \ {0}
    OBVIOUS
  <2>1. Cardinality(Owners(s)) \in Nat \ {0} /\ Free(s) \in Nat
    BY <1>1, SupplySizes, FS_EmptySet
  <2> QED BY <2>1 DEF Supply
<1>4. failures = 0
  <2>1. Supply(s_buffer) \in Nat \ {0} /\ Supply(s_buffer) + failures = 1
    BY <1>2, <1>3, ThreeSems DEF MQInv, Accounts
  <2> QED BY <1>1, <2>1
<1>5. Role[t] = "send" => Len(buffer) < max_msgs
  <2> SUFFICES ASSUME Role[t] = "send" PROVE Len(buffer) < max_msgs
    OBVIOUS
  <2>1. Supply(s_vaga) \in Nat \ {0} /\ Supply(s_vaga) + Len(buffer) + failures = max_msgs
    BY <1>2, <1>3, ThreeSems DEF MQInv, Accounts, Takes
  <2> QED BY <1>1, <1>4, <2>1
<1> QED BY <1>1, <1>4, <1>5 DEF Undestroyed

(* mqueue_send and mqueue_recv implement the abstract message queue: the    *)
(* messages are received in the order in which they were sent, there are    *)
(* never more than max_msgs, a call puts or takes one message and returns,  *)
(* and after a failed malloc the buffer stays as it is.                     *)
THEOREM MailboxImplements ==
  ASSUME Undestroyed, Preemptible \subseteq HandOver
  PROVE  MQSpec => ImplementsMailbox
<1>1. MQInit => Box!Init
  <2> SUFFICES ASSUME MQInit PROVE Box!Init
    OBVIOUS
  <2>1. buffer = << >> /\ failures = 0 /\ \A t \in Tasks : ip[t] = 1
    BY DEF MQInit, Init, Booted
  <2>2. Sent = {} /\ Got = {}
    BY <2>1 DEF Sent, Got, Past
  <2> QED BY <2>1, <2>2 DEF Box!Init, Sent, Got
<1>2. MQInv /\ [MQNext]_mqAllVars => [Box!Next]_(Box!vars)
  <2> SUFFICES ASSUME MQInv, [MQNext]_mqAllVars PROVE [Box!Next]_(Box!vars)
    OBVIOUS
  <2>0. /\ TypeOK /\ CountInv /\ SemInv /\ mq_active = 1 /\ failures \in Nat
    BY MQueueAssumption DEF MQInv, CountInv, SemInv
  <2>1. CASE MQTick \/ MQDispatch \/ UNCHANGED mqAllVars
    <3>1. UNCHANGED <<buffer, failures, ip>>
      BY <2>1 DEF MQTick, MQDispatch, mqAllVars, mqVars, vars, userVars
    <3>2. UNCHANGED <<Sent, Got>>
      BY <3>1 DEF Sent, Got, Past
    <3> QED BY <3>1, <3>2 DEF Box!vars, Sent, Got
  <2>2. ASSUME NEW t \in Tasks, Step(t), UNCHANGED mqVars PROVE [Box!Next]_(Box!vars)
    <3>1. /\ UNCHANGED <<buffer, failures>>
          /\ \A u \in Tasks : u # t => ip'[u] = ip[u]
          /\ \/ ip'[t] = ip[t]
             \/ ip[t] \in {2, 3, 6, 7} /\ ip'[t] = IF ip[t] = 7 THEN 1 ELSE ip[t] + 1
      BY <2>0, <2>2, SemaphoreCallMoves DEF Moves, mqVars
    <3>2. CASE ip[t] = 7 /\ ip'[t] = 1
      <4>1. Sent' = Sent \ {t} /\ Got' = Got \ {t}
        BY <2>0, <3>1, <3>2, PastAfter
      <4>2. t \in Sent \/ t \in Got
        BY <3>2 DEF Sent, Got, Past, Undestroyed
      <4>3. Box!Return(t)
        BY <3>1, <4>1, <4>2 DEF Box!Return, Sent, Got
      <4> QED BY <4>3 DEF Box!Next, Undestroyed
    <3>3. CASE ~(ip[t] = 7 /\ ip'[t] = 1)
      <4>1. ip'[t] > 5 <=> ip[t] > 5
        BY <2>0, <3>1, <3>3 DEF TypeOK
      <4>2. UNCHANGED <<Sent, Got>>
        BY <2>0, <3>1, <4>1, PastAfter
      <4> QED BY <3>1, <4>2 DEF Box!vars, Sent, Got
    <3> QED BY <3>2, <3>3
  <2>3. ASSUME NEW t \in Tasks, begin_call(t) \/ check_again(t) PROVE [Box!Next]_(Box!vars)
    <3>1. /\ UNCHANGED <<buffer, failures>> /\ ip[t] \in {1, 4} /\ advance(t)
      BY <2>0, <2>3, Position DEF begin_call, check_again, AtOp, mqVars
    <3>2. ip'[t] = ip[t] + 1 /\ \A u \in Tasks : u # t => ip'[u] = ip[u]
      BY <2>0, <3>1, AdvanceTo, AdvanceTypes
    <3>3. UNCHANGED <<Sent, Got>>
      BY <2>0, <3>1, <3>2, PastAfter
    <3> QED BY <3>1, <3>3 DEF Box!vars, Sent, Got
  <2>4. ASSUME NEW t \in Tasks, send_put(t) PROVE [Box!Next]_(Box!vars)
    <3>1. /\ failures = 0 /\ failures' = failures /\ ip[t] = 5 /\ Role[t] = "send"
          /\ Len(buffer) < max_msgs /\ buffer' = Append(buffer, t) /\ advance(t)
      BY <2>4, AtTheBuffer DEF send_put, AtOp, At
    <3>2. ip'[t] = 6 /\ \A u \in Tasks : u # t => ip'[u] = ip[u]
      BY <2>0, <3>1, AdvanceTo, AdvanceTypes
    <3>3. Sent' = Sent \cup {t} /\ Got' = Got /\ t \notin Sent
      <4>1. Sent' = Sent \cup {t} /\ Got' = Got
        BY <2>0, <3>1, <3>2, PastAfter
      <4> QED BY <3>1, <4>1 DEF Sent, Past
    <3>4. Box!Send(t)
      BY <3>1, <3>3 DEF Box!Send, Sent, Got
    <3> QED BY <3>1, <3>4 DEF Box!Next
  <2>5. ASSUME NEW t \in Tasks, send_malloc_fails(t) PROVE [Box!Next]_(Box!vars)
    <3>1. /\ failures = 0 /\ failures' = failures + 1 /\ ip[t] = 5 /\ Role[t] = "send"
          /\ Len(buffer) < max_msgs /\ buffer' = buffer /\ ip' = [ip EXCEPT ![t] = 1]
      BY <2>5, AtTheBuffer DEF send_malloc_fails, give_up, AtOp, At
    <3>2. ip'[t] = 1 /\ \A u \in Tasks : u # t => ip'[u] = ip[u]
      BY <2>0, <3>1 DEF TypeOK
    <3>3. UNCHANGED <<Sent, Got>> /\ t \notin Sent
      <4>1. UNCHANGED <<Sent, Got>>
        BY <2>0, <3>1, <3>2, PastAfter
      <4> QED BY <3>1, <4>1 DEF Sent, Past
    <3>4. Box!Fail(t)
      BY <3>1, <3>3 DEF Box!Fail, Sent, Got
    <3> QED BY <3>1, <3>4 DEF Box!Next
  <2>6. ASSUME NEW t \in Tasks, recv_take(t) PROVE [Box!Next]_(Box!vars)
    <3>1. pc[t] = "user" /\ call(t) = "take" /\ failures' = failures
      BY <2>6 DEF recv_take, AtOp, At
    <3>2. failures = 0 /\ ip[t] = 5 /\ Role[t] = "recv" /\ buffer # << >>
      BY <3>1, AtTheBuffer, TakeFinds
    <3>3. buffer' = Tail(buffer) /\ advance(t)
      BY <2>6, <3>2 DEF recv_take, without_oldest
    <3>4. ip'[t] = 6 /\ \A u \in Tasks : u # t => ip'[u] = ip[u]
      BY <2>0, <3>2, <3>3, AdvanceTo, AdvanceTypes
    <3>5. Sent' = Sent /\ Got' = Got \cup {t} /\ t \notin Got
      <4>1. Sent' = Sent /\ Got' = Got \cup {t}
        BY <2>0, <3>2, <3>4, PastAfter
      <4> QED BY <3>2, <4>1 DEF Got, Past
    <3>6. Box!Receive(t)
      BY <3>1, <3>2, <3>3, <3>5 DEF Box!Receive, Sent, Got
    <3> QED BY <3>2, <3>6 DEF Box!Next
  <2>7. ASSUME NEW t \in Tasks
        PROVE  ~(destroy_free(t) \/ destroy_close(t))
    <3>1. call(t) \notin {"free", "close"}
      BY <2>0, Position
    <3> QED BY <2>0, <3>1 DEF destroy_free, destroy_close, AtOp
  <2> QED BY <2>1, <2>2, <2>3, <2>4, <2>5, <2>6, <2>7 DEF MQNext, MQStep
<1> QED BY <1>1, <1>2, AccountsInvariant, PTL DEF MQSpec, ImplementsMailbox, Box!Spec
===============================================================================
