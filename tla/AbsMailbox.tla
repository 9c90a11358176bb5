------------------------------ MODULE AbsMailbox ------------------------------
(***************************************************************************)
(* What a message queue promises to the tasks that share it: the messages  *)
(* are received in the order in which they were sent, each once; there are *)
(* never more of them than there are slots; a call puts or takes one       *)
(* message before it returns.  A call that finds no memory jams the queue: *)
(* nothing is sent or received after it.                                   *)
(***************************************************************************)
EXTENDS Integers, Sequences

CONSTANTS Senders, Receivers, Slots

VARIABLES mail,  \* the messages, by their senders, oldest first
          sent,  \* the senders that have sent their message and not returned
          got,   \* the receivers that have got a message and not returned
          jammed

vars == <<mail, sent, got, jammed>>

Init == mail = << >> /\ sent = {} /\ got = {} /\ jammed = FALSE

Send(t) ==
  /\ ~jammed /\ Len(mail) < Slots /\ t \notin sent
  /\ mail' = Append(mail, t)
  /\ sent' = sent \cup {t}
  /\ UNCHANGED <<got, jammed>>

Receive(t) ==
  /\ ~jammed /\ mail # << >> /\ t \notin got
  /\ mail' = Tail(mail)
  /\ got' = got \cup {t}
  /\ UNCHANGED <<sent, jammed>>

Return(t) ==
  /\ t \in sent \cup got
  /\ sent' = sent \ {t} /\ got' = got \ {t}
  /\ UNCHANGED <<mail, jammed>>

Fail(t) ==
  /\ ~jammed /\ Len(mail) < Slots /\ t \notin sent
  /\ jammed' = TRUE
  /\ UNCHANGED <<mail, sent, got>>

Next ==
  \/ \E t \in Senders : Send(t) \/ Fail(t) \/ Return(t)
  \/ \E t \in Receivers : Receive(t) \/ Return(t)

Spec == Init /\ [][Next]_vars
=============================================================================
