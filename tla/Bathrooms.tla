------------------------------ MODULE Bathrooms ------------------------------
(***************************************************************************)
(* coordination/bathrooms.c: men and women share a bathroom of BATH_MAX    *)
(* places.  use_bath_m and use_bath_w are the same text with the roles     *)
(* exchanged, but for the letter that line 78 compares with.               *)
(***************************************************************************)
EXTENDS Integers, FiniteSets

CONSTANTS Men, Women, BATH_MAX,
          MaxValue \* bound: the value of a semaphore (see open_other)

BathroomsAssumption ==
  /\ IsFiniteSet(Men \cup Women) /\ Men \cap Women = {}
  /\ BATH_MAX \in 0..MaxValue /\ MaxValue \in Nat \ {0}

People == Men \cup Women

VARIABLES sem,   \* the values of the five semaphores
          ocpp,  \* who occupies the bathroom: "v", "m" or "w"
          count,
          loaded, \* the count that each thread has read to change it
          pc

vars == <<sem, ocpp, count, loaded, pc>>

Init ==
  /\ sem = [s \in {"bath_s", "ocpp_s", "men_s", "woman_s", "count_s"} |->
              IF s = "bath_s" THEN BATH_MAX ELSE 1]
  /\ ocpp = "v" /\ count = 0 /\ loaded = [t \in People |-> 0]
  /\ pc = [t \in People |-> "work"]

letter(t)     == IF t \in Men THEN "m" ELSE "w"
own_s(t)      == IF t \in Men THEN "men_s" ELSE "woman_s"
other_s(t)    == IF t \in Men THEN "woman_s" ELSE "men_s"
\* No code writes the "h" that use_bath_w looks for.
waits_for(t)  == IF t \in Men THEN "w" ELSE "h"

Goto(t, from, to) == pc[t] = from /\ pc' = [pc EXCEPT ![t] = to]

sem_wait(t, s, from, to) ==
  /\ Goto(t, from, to)
  /\ sem[s] > 0 /\ sem' = [sem EXCEPT ![s] = @ - 1]
  /\ UNCHANGED <<ocpp, count, loaded>>

sem_post(t, s, from, to) ==
  /\ Goto(t, from, to)
  /\ sem' = [sem EXCEPT ![s] = @ + 1]
  /\ UNCHANGED <<ocpp, count, loaded>>

(* The first to come occupies the bathroom and shuts the others out, with   *)
(* ocpp_s held until their semaphore is free.                               *)
occupy(t) ==
  /\ \/ ocpp = "v" /\ Goto(t, "look", "shut") /\ ocpp' = letter(t)
     \/ ocpp # "v" /\ Goto(t, "look", "looked") /\ UNCHANGED ocpp
  /\ UNCHANGED <<sem, count, loaded>>

(* ocpp is read again, outside its semaphore.                               *)
test(t) ==
  /\ \/ ocpp = waits_for(t) /\ Goto(t, "test", "hold")
     \/ ocpp # waits_for(t) /\ Goto(t, "test", "queue")
  /\ UNCHANGED <<sem, ocpp, count, loaded>>

\* Seeded bug: the count is changed without its semaphore.
lock_count_never(t, from, to) == Goto(t, from, to) /\ UNCHANGED <<sem, ocpp, count, loaded>>

lock_count(t, from, to) == sem_wait(t, "count_s", from, to)

(* count++ and count-- are a load and a store.                              *)
load(t, from, to) ==
  /\ Goto(t, from, to)
  /\ loaded' = [loaded EXCEPT ![t] = count]
  /\ UNCHANGED <<sem, ocpp, count>>

store(t, delta, from, to) ==
  /\ Goto(t, from, to)
  /\ count' = loaded[t] + delta
  /\ loaded' = [loaded EXCEPT ![t] = 0] \* dead from here on
  /\ UNCHANGED <<sem, ocpp>>

(* count is read outside its semaphore: has the last one left?              *)
check(t) ==
  /\ \/ count = 0 /\ Goto(t, "check", "vacate")
     \/ count # 0 /\ Goto(t, "check", "work")
  /\ UNCHANGED <<sem, ocpp, count, loaded>>

vacate(t) ==
  /\ Goto(t, "vacant", "vacated")
  /\ ocpp' = "v"
  /\ UNCHANGED <<sem, count, loaded>>

(* Two threads that find the bathroom empty both post: nothing bounds the   *)
(* value of men_s and woman_s but MaxValue.                                 *)
open_other(t) ==
  /\ sem[other_s(t)] < MaxValue
  /\ sem_post(t, other_s(t), "open", "work")

use_bath(t) ==
  \/ sem_wait(t, "ocpp_s", "work", "look") \/ occupy(t)
  \/ sem_wait(t, other_s(t), "shut", "looked") \/ sem_post(t, "ocpp_s", "looked", "test")
  \/ test(t) \/ sem_wait(t, own_s(t), "hold", "queue")
  \/ sem_wait(t, "bath_s", "queue", "enter")
  \/ lock_count(t, "enter", "add") \/ load(t, "add", "added")
  \/ store(t, 1, "added", "counted") \/ sem_post(t, "count_s", "counted", "inside")
  \/ lock_count(t, "inside", "subtract") \/ load(t, "subtract", "subtracted")
  \/ store(t, -1, "subtracted", "uncounted") \/ sem_post(t, "count_s", "uncounted", "leave")
  \/ sem_post(t, "bath_s", "leave", "check") \/ check(t)
  \/ sem_wait(t, "ocpp_s", "vacate", "vacant") \/ vacate(t)
  \/ sem_post(t, "ocpp_s", "vacated", "open") \/ open_other(t)

Next == \E t \in People : use_bath(t)

Spec == Init /\ [][Next]_vars

-----------------------------------------------------------------------------
Inside == {t \in People : pc[t] \in {"counted", "inside", "subtract", "subtracted"}}

(* The count is that of the threads inside, and there is a place for each.  *)
CountExact == count = Cardinality(Inside) /\ count <= BATH_MAX

(* What the exercise is about, and the code does not achieve: men and women *)
(* are not inside at the same time.                                         *)
Apart == Inside \subseteq Men \/ Inside \subseteq Women
=============================================================================
