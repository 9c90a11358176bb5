-------------------------------- MODULE Robots --------------------------------
(***************************************************************************)
(* coordination/robots.c: three threads that speak in turn, each with a    *)
(* semaphore of its own.  Each body is a sequence of steps that its thread *)
(* repeats.                                                                *)
(***************************************************************************)
EXTENDS Integers, Sequences

Speakers == {"bart", "lisa", "maggie"}

Say == [op |-> "say", sem |-> "none"]
Wait(t) == [op |-> "wait", sem |-> t]
Post(t) == [op |-> "post", sem |-> t]

bart == <<Wait("bart"), Say, Post("lisa")>>

\* Seeded bug: Lisa gives the turn to Bart first.
lisa_swapped == <<Wait("lisa"), Say, Post("bart"), Wait("lisa"), Say, Post("maggie")>>

lisa == <<Wait("lisa"), Say, Post("maggie"), Wait("lisa"), Say, Post("bart")>>
maggie == <<Wait("maggie"), Say, Post("lisa")>>

Body == [t \in Speakers |-> CASE t = "bart" -> bart [] t = "lisa" -> lisa [] t = "maggie" -> maggie]

VARIABLES value,  \* bart_s, lisa_s, maggie_s
          at,     \* the position of each thread in its body
          spoken  \* for the property: who spoke, the last four lines

vars == <<value, at, spoken>>

Init ==
  /\ value = [t \in Speakers |-> IF t = "bart" THEN 1 ELSE 0]
  /\ at = [t \in Speakers |-> 1]
  /\ spoken = << >>

step(t) == Body[t][at[t]]

Perform(t, op) ==
  /\ step(t).op = op
  /\ at' = [at EXCEPT ![t] = IF @ = Len(Body[t]) THEN 1 ELSE @ + 1]

sem_wait(t) ==
  /\ Perform(t, "wait")
  /\ value[step(t).sem] > 0
  /\ value' = [value EXCEPT ![step(t).sem] = @ - 1]
  /\ UNCHANGED spoken

sem_post(t) ==
  /\ Perform(t, "post")
  /\ value' = [value EXCEPT ![step(t).sem] = @ + 1]
  /\ UNCHANGED spoken

say(t) ==
  /\ Perform(t, "say")
  /\ spoken' = IF Len(spoken) = 4 THEN Append(Tail(spoken), t) ELSE Append(spoken, t)
  /\ UNCHANGED value

Next == \E t \in Speakers : sem_wait(t) \/ sem_post(t) \/ say(t)

Spec == Init /\ [][Next]_vars

-----------------------------------------------------------------------------
(* The conversation goes Bart, Lisa, Maggie, Lisa and again, whoever sleeps *)
(* for how long: any four lines in a row are a piece of it.                 *)
Conversation == <<"bart", "lisa", "maggie", "lisa", "bart", "lisa", "maggie">>

SpokenInTurn ==
  \E first \in 1..4 : \A i \in DOMAIN spoken : spoken[i] = Conversation[first + i - 1]
=============================================================================
