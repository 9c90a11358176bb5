------------------------------- MODULE Barrier -------------------------------
(***************************************************************************)
(* coordination/barrier.c: a barrier of two POSIX semaphores that the      *)
(* threads use round after round.  size_s guards the counter; the last     *)
(* thread to come posts barrier_s once for each of the others.             *)
(***************************************************************************)
EXTENDS Integers, FiniteSets

CONSTANTS Threads,
          MaxRounds \* bound: calls of barrier_wait by each thread

ASSUME BarrierAssumption ==
  /\ IsFiniteSet(Threads) /\ Threads # {}
  /\ MaxRounds \in Nat

VARIABLES paced,             \* do the sleeps of threadBody keep the rounds apart?
          size_s, barrier_s, \* the values of the semaphores
          counter,
          posted,            \* i in the loop of the last thread
          pc,
          came, left         \* for the properties: how often each thread came and left

vars == <<paced, size_s, barrier_s, counter, posted, pc, came, left>>

size == Cardinality(Threads)

Init ==
  /\ paced \in BOOLEAN
  /\ size_s = 1 /\ barrier_s = 0 /\ counter = 0 /\ posted = 0
  /\ pc = [t \in Threads |-> "body"]
  /\ came = [t \in Threads |-> 0] /\ left = [t \in Threads |-> 0]

Goto(t, from, to) == pc[t] = from /\ pc' = [pc EXCEPT ![t] = to]

(* The thread sleeps for 5 s after each round and longer before the next.   *)
(* If paced, that is long enough for the others to have left the round.     *)
Rested(t) == paced => \A u \in Threads : left[u] >= left[t]

(* barrier_wait, up to its sem_wait(size_s).                                *)
barrier_wait(t) ==
  /\ Goto(t, "body", "count")
  /\ left[t] < MaxRounds /\ Rested(t)
  /\ size_s > 0 /\ size_s' = size_s - 1
  /\ UNCHANGED <<barrier_s, counter, posted, came, left>>

\* Seeded bug: the barrier opens one thread too early.
is_last_early == counter + 2 >= size

is_last == counter + 1 = size

arrive(t) ==
  /\ came' = [came EXCEPT ![t] = @ + 1]
  /\ \/ ~is_last /\ Goto(t, "count", "release") /\ counter' = counter + 1
     \/ is_last /\ Goto(t, "count", "post") /\ counter' = 0
  /\ posted' = 0
  /\ UNCHANGED <<size_s, barrier_s, left>>

\* Seeded bug: the last thread posts for itself as well.
more_posts_all == posted < size

more_posts == posted < size - 1

post(t) ==
  /\ Goto(t, "post", "post") /\ more_posts
  /\ barrier_s' = barrier_s + 1 /\ posted' = posted + 1
  /\ UNCHANGED <<size_s, counter, came, left>>

(* The last thread is through its loop, and returns.                        *)
open(t) ==
  /\ Goto(t, "post", "body") /\ ~more_posts
  /\ size_s' = size_s + 1
  /\ left' = [left EXCEPT ![t] = @ + 1]
  /\ UNCHANGED <<barrier_s, counter, posted, came>>

release(t) ==
  /\ Goto(t, "release", "wait")
  /\ size_s' = size_s + 1
  /\ UNCHANGED <<barrier_s, counter, posted, came, left>>

pass(t) ==
  /\ Goto(t, "wait", "body")
  /\ barrier_s > 0 /\ barrier_s' = barrier_s - 1
  /\ left' = [left EXCEPT ![t] = @ + 1]
  /\ UNCHANGED <<size_s, counter, posted, came>>

Next ==
  /\ \E t \in Threads :
       barrier_wait(t) \/ arrive(t) \/ post(t) \/ open(t) \/ release(t) \/ pass(t)
  /\ UNCHANGED paced

Spec == Init /\ [][Next]_vars

-----------------------------------------------------------------------------
(* Nobody leaves a round before everybody has come to it.  It takes the     *)
(* sleeps: a thread that comes back at once may take a post of the round    *)
(* before, meant for a thread that has not been scheduled yet.              *)
NobodyLeavesEarly == paced => \A t, u \in Threads : left[t] <= came[u]

(* Whatever the pace, no post is lost and none is one too many: the threads *)
(* that wait, or are about to, are those of the round that is not complete  *)
(* yet and those that a post is there for, or under way.                    *)
Waiters == {t \in Threads : pc[t] \in {"release", "wait"}}

Posters == {t \in Threads : pc[t] = "post"}

to_post == IF Posters = {} THEN 0 ELSE size - 1 - posted

PostsMatchWaiters == Cardinality(Waiters) = counter + barrier_s + to_post
=============================================================================
