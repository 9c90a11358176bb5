----------------------------- MODULE AbsSemaphore -----------------------------
(***************************************************************************)
(* What a counting semaphore promises to tasks that use it to guard a      *)
(* resource: permits are neither lost nor made, a task that finds none     *)
(* waits in line, a release with a task in line that nobody has served yet *)
(* promises its permit to the line, out of reach of newcomers, and the     *)
(* promised permits are granted in the order of the line.                  *)
(***************************************************************************)
EXTENDS Integers, Sequences

CONSTANTS Tasks, Permits

VARIABLES permits,  \* the permits that anybody may take
          promised, \* the permits that are reserved to the line
          holding,  \* the tasks that hold one
          line      \* the tasks that wait for one, first come first served

vars == <<permits, promised, holding, line>>

Init == permits = Permits /\ promised = 0 /\ holding = {} /\ line = << >>

Waiting(t) == \E i \in DOMAIN line : line[i] = t

Take(t) ==
  /\ permits > 0 /\ t \notin holding /\ ~Waiting(t)
  /\ permits' = permits - 1
  /\ holding' = holding \cup {t}
  /\ UNCHANGED <<promised, line>>

Wait(t) ==
  /\ permits = 0 /\ t \notin holding /\ ~Waiting(t)
  /\ line' = Append(line, t)
  /\ UNCHANGED <<permits, promised, holding>>

Release(t) ==
  /\ t \in holding
  /\ holding' = holding \ {t}
  /\ \/ Len(line) > promised /\ promised' = promised + 1 /\ UNCHANGED permits
     \/ Len(line) <= promised /\ permits' = permits + 1 /\ UNCHANGED promised
  /\ UNCHANGED line

Grant ==
  /\ promised > 0 /\ line # << >>
  /\ promised' = promised - 1
  /\ holding' = holding \cup {Head(line)}
  /\ line' = Tail(line)
  /\ UNCHANGED permits

Next == Grant \/ \E t \in Tasks : Take(t) \/ Wait(t) \/ Release(t)

Spec == Init /\ [][Next]_vars
=============================================================================
