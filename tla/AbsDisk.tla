------------------------------- MODULE AbsDisk -------------------------------
(***************************************************************************)
(* What the disk manager promises to the tasks that call it: requests are  *)
(* carried out one at a time in the order in which they were made, and the *)
(* call returns to its task after its own request has been carried out.    *)
(***************************************************************************)
EXTENDS Integers, Sequences

CONSTANTS Clients, Nobody

VARIABLES waiting, \* the tasks whose request is not on the disk yet, oldest first
          serving, \* the task whose request is on the disk, or Nobody
          served   \* the tasks whose request is done and that have not returned

vars == <<waiting, serving, served>>

Init == waiting = << >> /\ serving = Nobody /\ served = {}

Idle(t) == t # serving /\ t \notin served /\ \A i \in DOMAIN waiting : waiting[i] # t

Request(t) ==
  /\ Idle(t)
  /\ waiting' = Append(waiting, t)
  /\ UNCHANGED <<serving, served>>

Start ==
  /\ serving = Nobody /\ waiting # << >>
  /\ serving' = Head(waiting)
  /\ waiting' = Tail(waiting)
  /\ UNCHANGED served

Complete ==
  /\ serving # Nobody
  /\ served' = served \cup {serving}
  /\ serving' = Nobody
  /\ UNCHANGED waiting

Return(t) ==
  /\ t \in served
  /\ served' = served \ {t}
  /\ UNCHANGED <<waiting, serving>>

Next == Start \/ Complete \/ \E t \in Clients : Request(t) \/ Return(t)

Spec == Init /\ [][Next]_vars
=============================================================================
