-------------------------------- MODULE MQueue --------------------------------
(***************************************************************************)
(* The message queue of core/ppos_core.c over the Semaphore: mqueue_send,  *)
(* mqueue_recv and mqueue_destroy of one queue.  Every task makes one of   *)
(* the three calls, again and again; a call is a Program of Semaphore, the *)
(* semaphore calls it makes in their order with the steps that this module *)
(* adds in between.                                                        *)
(***************************************************************************)
EXTENDS Semaphore

CONSTANTS s_buffer, s_item, s_vaga, \* the semaphores of mqueue_t
          max_msgs,
          Role,        \* for each task the call it makes: send, recv or destroy
          Between,     \* may the quantum end between two steps of a call?
          MaxFailures  \* bound: failures of malloc

Do(op, s) == [op |-> op, sem |-> s]

\* Seeded bugs: the buffer is used without its semaphore, the semaphores are
\* taken in the other order.
mqueue_send_unguarded == <<Do("send", s_vaga), Do("down", s_vaga), Do("check", s_buffer),
                           Do("put", s_buffer), Do("up", s_item)>>
mqueue_send_crossed   == <<Do("send", s_vaga), Do("down", s_buffer), Do("down", s_vaga),
                           Do("check", s_buffer), Do("put", s_buffer), Do("up", s_buffer),
                           Do("up", s_item)>>

\* Seeded bug: the slot is given back before the message is taken.
mqueue_recv_early == <<Do("recv", s_item), Do("down", s_item), Do("up", s_vaga),
                       Do("down", s_buffer), Do("check", s_buffer), Do("take", s_buffer),
                       Do("up", s_buffer)>>

mqueue_send    == <<Do("send", s_vaga), Do("down", s_vaga), Do("down", s_buffer),
                    Do("check", s_buffer), Do("put", s_buffer), Do("up", s_buffer),
                    Do("up", s_item)>>
mqueue_recv    == <<Do("recv", s_item), Do("down", s_item), Do("down", s_buffer),
                    Do("check", s_buffer), Do("take", s_buffer), Do("up", s_buffer),
                    Do("up", s_vaga)>>
mqueue_destroy == <<Do("destroy", s_buffer), Do("destroy", s_item), Do("destroy", s_vaga),
                    Do("free", s_buffer), Do("close", s_buffer)>>

Body(role) == CASE role = "send" -> mqueue_send
                [] role = "recv" -> mqueue_recv
                [] role = "destroy" -> mqueue_destroy

ASSUME MQueueAssumption ==
  /\ Sems = {s_buffer, s_item, s_vaga} /\ Cardinality(Sems) = 3
  /\ max_msgs \in Nat \ {0} /\ MaxFailures \in Nat /\ Between \in BOOLEAN
  /\ InitialValue[s_buffer] = 1 /\ InitialValue[s_item] = 0 /\ InitialValue[s_vaga] = max_msgs
  /\ OtherCalls = {"send", "recv", "check", "put", "take", "free", "close"}
  /\ Role \in [Tasks -> {"send", "recv", "destroy"}]
  /\ Program = [t \in Tasks |-> Body(Role[t])]

VARIABLES
  buffer,    \* the messages, by their senders, oldest first
  mq_active, \* mqueue_t.active
  failures   \* how often malloc has failed

mqVars    == <<buffer, mq_active, failures>>
mqAllVars == <<vars, mqVars>>

MQInit == Init /\ buffer = << >> /\ mq_active = 1 /\ failures = 0

InCall(t) == ip[t] # 1 \/ pc[t] # "user"

AtOp(t, op) == At(t, "user") /\ call(t) = op

(* return -1 in the middle of a call: whatever it holds stays taken.        *)
give_up(t) == ip' = [ip EXCEPT ![t] = 1] /\ UNCHANGED v

-----------------------------------------------------------------------------
(* The first test of mqueue_send and of mqueue_recv.                        *)
begin_call(t) ==
  /\ AtOp(t, "send") \/ AtOp(t, "recv")
  /\ \/ mq_active = 1 /\ advance(t)
     \/ mq_active = 0 /\ give_up(t)
  /\ UNCHANGED <<kernelVars, semVars, mqVars>>

(* The second test: the queue may have been destroyed while the task slept. *)
(* The task can lose the processor between the test and the buffer.         *)
check_again(t) ==
  /\ AtOp(t, "check")
  /\ \/ mq_active = 1 /\ advance(t)
     \/ mq_active = 0 /\ give_up(t)
  /\ UNCHANGED <<kernelVars, semVars, mqVars>>

send_malloc_fails(t) ==
  /\ AtOp(t, "put")
  /\ failures < MaxFailures
  /\ failures' = failures + 1
  /\ give_up(t)
  /\ UNCHANGED <<kernelVars, semVars, buffer, mq_active>>

send_put(t) ==
  /\ AtOp(t, "put")
  /\ buffer' = Append(buffer, t)
  /\ advance(t)
  /\ UNCHANGED <<kernelVars, semVars, mq_active, failures>>

\* Seeded bug: the newest message is taken out.
without_newest == SubSeq(buffer, 1, Len(buffer) - 1)

(* queue_remove(&buffer, buffer). *)
without_oldest == Tail(buffer)

(* queue->buffer->msg of an empty queue is a read through a null pointer.   *)
recv_take(t) ==
  /\ AtOp(t, "take")
  /\ IF buffer = << >>
     THEN /\ os' = "segmentation_fault"
          /\ UNCHANGED <<buffer, userVars>>
     ELSE /\ buffer' = without_oldest
          /\ advance(t)
          /\ UNCHANGED os
  /\ UNCHANGED <<curr, queues, status, prioVars, timeVars, user_tasks_num, frameVars,
                 semVars, mq_active, failures>>

-----------------------------------------------------------------------------
(* What mqueue_destroy does once the semaphores are destroyed.              *)
destroy_free(t) ==
  /\ AtOp(t, "free")
  /\ \/ buffer # << >> /\ buffer' = without_oldest /\ UNCHANGED userVars
     \/ buffer = << >> /\ advance(t) /\ UNCHANGED buffer
  /\ UNCHANGED <<kernelVars, semVars, mq_active, failures>>

destroy_close(t) ==
  /\ AtOp(t, "close")
  /\ mq_active' = 0
  /\ advance(t)
  /\ UNCHANGED <<kernelVars, semVars, buffer, failures>>

-----------------------------------------------------------------------------
(* The quantum ends outside the calls of the queue, or also inside.         *)
MQTick ==
  /\ Tick
  /\ curr' # curr => Between \/ ~InCall(curr)
  /\ UNCHANGED <<semVars, userVars, mqVars>>

MQDispatch == Dispatch /\ UNCHANGED <<semVars, userVars, mqVars>>

MQStep(t) ==
  \/ Step(t) /\ UNCHANGED mqVars
  \/ begin_call(t) \/ check_again(t)
  \/ send_malloc_fails(t) \/ send_put(t)
  \/ recv_take(t)
  \/ destroy_free(t) \/ destroy_close(t)

MQNext == MQTick \/ MQDispatch \/ \E t \in Tasks : MQStep(t)

MQSpec == MQInit /\ [][MQNext]_mqAllVars

(* As in module Tasks: a full quantum is enough for the next step of a task *)
(* that is dispatched again and again.  The timer is strongly fair: a tick  *)
(* that finds the task where its quantum cannot end stays pending.  Nobody  *)
(* has to call mqueue_destroy, but who has called it goes on.               *)
MQFairness ==
  /\ SF_mqAllVars(MQTick)
  /\ WF_mqAllVars(MQDispatch)
  /\ \A t \in Tasks : IF Role[t] = "destroy" THEN SF_mqAllVars(InCall(t) /\ MQStep(t))
                                             ELSE SF_mqAllVars(MQStep(t))

MQFairSpec == MQSpec /\ MQFairness
-----------------------------------------------------------------------------
(* Properties *)

MQTypeOK ==
  /\ TypeOK
  /\ buffer \in Seq(Tasks) /\ Len(buffer) <= max_msgs
  /\ mq_active \in {0, 1}
  /\ failures \in 0..MaxFailures

(* mqueue_recv never reads through the null head of an empty queue.         *)
NoNullMessage == os # "segmentation_fault"

(* At most one task is at the steps that read and write the buffer.         *)
AtBuffer(t) == pc[t] = "user" /\ call(t) \in {"put", "take"}

BufferGuarded == \A t, u \in Tasks : AtBuffer(t) /\ AtBuffer(u) => t = u

(* A permit of s in a call that has been granted it at the position first   *)
(* and has not used it at the position last yet.                            *)
GrantedUntil(t, s, role, last) ==
  Role[t] = role /\ (Granted(t, s) \/ (2 < ip[t] /\ ip[t] <= last))

(* A permit that a call is about to give, from the position first on.       *)
GivesFrom(t, s, role, first) ==
  /\ Role[t] = role /\ ip[t] >= first
  /\ call(t) = "up" /\ sem(t) = s => pc[t] = "user" \/ NotGivenBack(t, s) \/ WakingUp(t, s)

permits_free(s) == IF value[s] > 0 THEN value[s] ELSE 0

(* No slot is lost and none is invented: each of the max_msgs slots is free, *)
(* holds a message, belongs to a sender that has not put its message yet or  *)
(* to a receiver that has taken one and not given the slot back, or was lost *)
(* by a sender that found no memory.                                         *)
SlotsConserved ==
  permits_free(s_vaga) + Len(buffer) + failures
    + Cardinality({t \in Tasks : \/ GrantedUntil(t, s_vaga, "send", 5)
                                 \/ GivesFrom(t, s_vaga, "recv", 6)}) = max_msgs

(* Every message in the buffer is announced once: by the value of s_item, by *)
(* the sender that has just put it, or to the receiver on its way to it.     *)
MessagesAnnounced ==
  Len(buffer) = permits_free(s_item)
    + Cardinality({t \in Tasks : \/ GrantedUntil(t, s_item, "recv", 5)
                                 \/ GivesFrom(t, s_item, "send", 6)})

(* The abstract queue: a call has done its work once it is past the step on  *)
(* the buffer.                                                               *)
Past(t, role) == Role[t] = role /\ ip[t] > 5

Box == INSTANCE AbsMailbox
         WITH Senders   <- {t \in Tasks : Role[t] = "send"},
              Receivers <- {t \in Tasks : Role[t] = "recv"},
              Slots     <- max_msgs,
              mail      <- buffer,
              sent      <- {t \in Tasks : Past(t, "send")},
              got       <- {t \in Tasks : Past(t, "recv")},
              jammed    <- failures > 0

(* While nobody destroys the queue, mqueue_send and mqueue_recv implement    *)
(* the abstract one: first come first served, at most max_msgs messages,     *)
(* one message for each call, and nothing after a failed malloc.             *)
ImplementsMailbox == Box!Spec

(* Every call of mqueue_send, mqueue_recv and mqueue_destroy returns, with   *)
(* senders and receivers that go on calling or with a queue that is          *)
(* destroyed under them.                                                     *)
CallsReturn == \A t \in Tasks : InCall(t) ~> ~InCall(t)
=============================================================================
