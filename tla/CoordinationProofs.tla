-------------------------- MODULE CoordinationProofs --------------------------
(***************************************************************************)
(* The barrier of coordination/barrier.c for any number of threads and any *)
(* number of rounds.  At any pace, posts and waiters match; with the       *)
(* sleeps of threadBody, nobody leaves a round before all have come to it. *)
(* Then the bathrooms of coordination/bathrooms.c, for any number of men,  *)
(* women and places: the count is right although it is a load and a store. *)
(* Then the robots of coordination/robots.c, who speak in turn, and last   *)
(* the three programs in one run, each of which is a run of its own.       *)
(***************************************************************************)
EXTENDS Coordination, SequenceTheorems, FiniteSetTheorems, TLAPS

(* The threads that hold size_s.                                            *)
Holders == {t \in Threads : pc[t] \in {"count", "post", "release"}}

BarrierTypeOK ==
  /\ size_s \in {0, 1} /\ barrier_s \in Nat /\ counter \in Nat /\ posted \in Nat
  /\ pc \in [Threads -> {"body", "count", "post", "release", "wait"}]
  /\ came \in [Threads -> Nat] /\ left \in [Threads -> Nat] /\ paced \in BOOLEAN

(* size_s is a mutex, and the last thread posts no more than it should.     *)
Guarded ==
  /\ \A t, u \in Holders : t = u
  /\ Holders # {} => size_s = 0
  /\ Posters # {} => posted <= size - 1

PostsInv == BarrierTypeOK /\ Guarded /\ PostsMatchWaiters

(* A round that is being opened, or has posts left.                         *)
Opened == Posters # {} \/ barrier_s > 0

Rounds ==
  /\ \A t \in Threads :
       came[t] = IF pc[t] \in {"post", "release", "wait"} THEN left[t] + 1 ELSE left[t]
  /\ paced => \A t, u \in Threads : pc[t] # "body" => left[t] <= left[u]
  /\ paced /\ Opened => \A t, u \in Threads : came[t] = came[u]
  /\ NobodyLeavesEarly

RoundsInv == PostsInv /\ Rounds

-----------------------------------------------------------------------------
(* The size is a positive number, and any set of threads is finite.         *)
LEMMA Sizes ==
  /\ size \in Nat \ {0}
  /\ \A S \in SUBSET Threads :
       /\ IsFiniteSet(S) /\ Cardinality(S) \in Nat
       /\ \A t \in Threads : Cardinality(S \cup {t}) = IF t \in S THEN Cardinality(S) ELSE Cardinality(S) + 1
       /\ \A t \in Threads : Cardinality(S \ {t}) = IF t \in S THEN Cardinality(S) - 1 ELSE Cardinality(S)
<1>1. size \in Nat \ {0}
  BY BarrierAssumption, FS_CardinalityType, FS_EmptySet DEF size
<1>2. ASSUME NEW S \in SUBSET Threads PROVE IsFiniteSet(S)
  BY BarrierAssumption, FS_Subset
<1>3. ASSUME NEW S \in SUBSET Threads PROVE Cardinality(S) \in Nat
  BY <1>2, FS_CardinalityType
<1>4. ASSUME NEW S \in SUBSET Threads, NEW t \in Threads
      PROVE  Cardinality(S \cup {t}) = IF t \in S THEN Cardinality(S) ELSE Cardinality(S) + 1
  BY <1>2, FS_AddElement
<1>5. ASSUME NEW S \in SUBSET Threads, NEW t \in Threads
      PROVE  Cardinality(S \ {t}) = IF t \in S THEN Cardinality(S) - 1 ELSE Cardinality(S)
  BY <1>2, FS_RemoveElement
<1> QED BY <1>1, <1>2, <1>3, <1>4, <1>5

LEMMA InitPosts == Init => PostsInv
<1> SUFFICES ASSUME Init PROVE PostsInv
  OBVIOUS
<1>1. Waiters = {} /\ Posters = {} /\ Holders = {}
  BY DEF Init, Waiters, Posters, Holders
<1>2. PostsMatchWaiters
  BY <1>1, FS_EmptySet DEF Init, PostsMatchWaiters, to_post
<1> QED BY <1>1, <1>2 DEF Init, PostsInv, BarrierTypeOK, Guarded

(* Which of the sets of threads each step changes.                          *)
LEMMA StepSets ==
  ASSUME PostsInv, NEW t \in Threads
  PROVE  /\ barrier_wait(t) => Waiters' = Waiters /\ Posters' = Posters
         /\ arrive(t) => /\ Posters = {} /\ t \notin Waiters
                         /\ ~is_last => Waiters' = Waiters \cup {t} /\ Posters' = {}
                         /\ is_last => Waiters' = Waiters /\ Posters' = {t}
         /\ post(t) => Waiters' = Waiters /\ Posters' = Posters /\ t \in Posters
         /\ open(t) => Waiters' = Waiters /\ Posters = {t} /\ Posters' = {}
         /\ release(t) => Waiters' = Waiters /\ Posters = {} /\ Posters' = {}
         /\ pass(t) => Waiters' = Waiters \ {t} /\ t \in Waiters /\ Posters' = Posters
<1> USE DEF PostsInv, BarrierTypeOK, Waiters, Posters, Goto
<1>1. barrier_wait(t) => Waiters' = Waiters /\ Posters' = Posters
  BY DEF barrier_wait
<1>2. ASSUME arrive(t)
      PROVE  /\ Posters = {} /\ t \notin Waiters
             /\ ~is_last => Waiters' = Waiters \cup {t} /\ Posters' = {}
             /\ is_last => Waiters' = Waiters /\ Posters' = {t}
  <2>1. pc[t] = "count"
    BY <1>2 DEF arrive
  <2>2. Posters = {} /\ t \notin Waiters
    BY <2>1 DEF Guarded, Holders
  <2>3. ~is_last => pc' = [pc EXCEPT ![t] = "release"]
    BY <1>2 DEF arrive
  <2>4. is_last => pc' = [pc EXCEPT ![t] = "post"]
    BY <1>2 DEF arrive
  <2> QED BY <2>1, <2>2, <2>3, <2>4
<1>3. post(t) => Waiters' = Waiters /\ Posters' = Posters /\ t \in Posters
  BY DEF post
<1>4. open(t) => Waiters' = Waiters /\ Posters = {t} /\ Posters' = {}
  BY DEF open, Guarded, Holders
<1>5. release(t) => Waiters' = Waiters /\ Posters = {} /\ Posters' = {}
  BY DEF release, Guarded, Holders
<1>6. pass(t) => Waiters' = Waiters \ {t} /\ t \in Waiters /\ Posters' = Posters
  BY DEF pass
<1> QED BY <1>1, <1>2, <1>3, <1>4, <1>5, <1>6

(* A step keeps the mutex, the types and the count of the posts.            *)
LEMMA StepPosts ==
  ASSUME PostsInv, [Next]_vars
  PROVE  PostsInv'
<1>1. CASE UNCHANGED vars
  BY <1>1 DEF vars, PostsInv, BarrierTypeOK, Guarded, Holders, Posters, Waiters, PostsMatchWaiters, to_post, size
<1>2. CASE Next
  <2> PICK t \in Threads :
        barrier_wait(t) \/ arrive(t) \/ post(t) \/ open(t) \/ release(t) \/ pass(t)
    BY <1>2 DEF Next
  <2> paced' = paced
    BY <1>2 DEF Next
  <2>1. BarrierTypeOK'
    <3> USE DEF PostsInv, BarrierTypeOK, Goto
    <3>1. CASE barrier_wait(t) BY <3>1 DEF barrier_wait
    <3>2. CASE arrive(t)        BY <3>2 DEF arrive
    <3>3. CASE post(t)         BY <3>3 DEF post
    <3>4. CASE open(t)         BY <3>4, t \in Holders DEF open, Guarded, Holders
    <3>5. CASE release(t)      BY <3>5, t \in Holders DEF release, Guarded, Holders
    <3>6. CASE pass(t)         BY <3>6 DEF pass
    <3> QED BY <3>1, <3>2, <3>3, <3>4, <3>5, <3>6
  <2>2. (\A u, w \in Holders : u = w)' /\ (Holders # {} => size_s = 0)'
    <3> USE DEF PostsInv, BarrierTypeOK, Guarded, Holders, Goto
    <3>1. CASE barrier_wait(t) BY <3>1 DEF barrier_wait
    <3>2. CASE arrive(t)        BY <3>2 DEF arrive
    <3>3. CASE post(t)         BY <3>3 DEF post
    <3>4. CASE open(t)         BY <3>4 DEF open
    <3>5. CASE release(t)      BY <3>5 DEF release
    <3>6. CASE pass(t)         BY <3>6 DEF pass
    <3> QED BY <3>1, <3>2, <3>3, <3>4, <3>5, <3>6
  <2>3. (Posters # {} => posted <= size - 1)'
    <3> USE StepSets, Sizes DEF PostsInv, BarrierTypeOK, Guarded, size
    <3>1. CASE barrier_wait(t) BY <3>1 DEF barrier_wait
    <3>2. CASE arrive(t)        BY <3>2 DEF arrive
    <3>3. CASE post(t)         BY <3>3 DEF post, more_posts
    <3>4. CASE open(t)         BY <3>4 DEF open
    <3>5. CASE release(t)      BY <3>5 DEF release
    <3>6. CASE pass(t)         BY <3>6 DEF pass
    <3> QED BY <3>1, <3>2, <3>3, <3>4, <3>5, <3>6
  <2>4. PostsMatchWaiters'
    <3> USE DEF PostsMatchWaiters, to_post
    <3>0. /\ Waiters \in SUBSET Threads /\ size' = size
          /\ counter \in Nat /\ barrier_s \in Nat /\ posted \in Nat
          /\ size \in Nat /\ Cardinality(Waiters) \in Nat
          /\ Cardinality(Waiters \cup {t}) =
               IF t \in Waiters THEN Cardinality(Waiters) ELSE Cardinality(Waiters) + 1
          /\ Cardinality(Waiters \ {t}) =
               IF t \in Waiters THEN Cardinality(Waiters) - 1 ELSE Cardinality(Waiters)
          /\ Cardinality(Waiters) = counter + barrier_s + to_post
          /\ Posters # {} => posted <= size - 1
      BY Sizes DEF Waiters, PostsInv, BarrierTypeOK, Guarded, size
    <3>1. CASE barrier_wait(t)
      BY <3>0, <3>1, StepSets DEF barrier_wait
    <3>2. CASE arrive(t) /\ ~is_last
      <4>1. Posters = {} /\ t \notin Waiters /\ Waiters' = Waiters \cup {t} /\ Posters' = {}
        BY <3>2, StepSets
      <4>2. counter' = counter + 1 /\ barrier_s' = barrier_s
        BY <3>2 DEF arrive, Goto
      <4> QED BY <3>0, <4>1, <4>2
    <3>3. CASE arrive(t) /\ is_last
      <4>1. Posters = {} /\ Waiters' = Waiters /\ Posters' = {t}
        BY <3>3, StepSets
      <4>2. counter = size - 1 /\ counter' = 0 /\ barrier_s' = barrier_s /\ posted' = 0
        BY <3>0, <3>3 DEF arrive, is_last, Goto
      <4> QED BY <3>0, <4>1, <4>2
    <3>4. CASE post(t)
      BY <3>0, <3>4, StepSets DEF post
    <3>5. CASE open(t)
      <4>1. Posters = {t} /\ Waiters' = Waiters /\ Posters' = {}
        BY <3>5, StepSets
      <4>2. counter' = counter /\ barrier_s' = barrier_s /\ posted >= size - 1
        BY <3>0, <3>5 DEF open, more_posts
      <4> QED BY <3>0, <4>1, <4>2
    <3>6. CASE release(t)
      BY <3>0, <3>6, StepSets DEF release
    <3>7. CASE pass(t)
      <4>1. Waiters' = Waiters \ {t} /\ t \in Waiters /\ Posters' = Posters
        BY <3>7, StepSets
      <4>2. counter' = counter /\ barrier_s' = barrier_s - 1 /\ posted' = posted
        BY <3>7 DEF pass
      <4> QED BY <3>0, <4>1, <4>2
    <3> QED BY <3>1, <3>2, <3>3, <3>4, <3>5, <3>6, <3>7
  <2> QED BY <2>1, <2>2, <2>3, <2>4 DEF PostsInv, Guarded
<1> QED BY <1>1, <1>2

(* At any pace of the threads, a post is under way or there for exactly the *)
(* waiting threads that a complete round has to let go: none is lost, and   *)
(* none lets one thread too many through.                                   *)
THEOREM PostsMatch == Spec => []PostsMatchWaiters
<1>1. PostsInv => PostsMatchWaiters
  BY DEF PostsInv
<1> QED BY InitPosts, StepPosts, <1>1, PTL DEF Spec

-----------------------------------------------------------------------------
LEMMA InitRounds == Init => RoundsInv
<1> SUFFICES ASSUME Init PROVE Rounds
  BY InitPosts DEF RoundsInv
<1>1. ~Opened
  BY DEF Init, Opened, Posters
<1> QED BY <1>1 DEF Init, Rounds, NobodyLeavesEarly

(* When the last thread of a round counts, all the others wait: those of    *)
(* the round before have left.                                              *)
LEMMA AllHaveCome ==
  ASSUME RoundsInv, paced, NEW t \in Threads, arrive(t), is_last
  PROVE  Waiters = Threads \ {t}
<1>1. /\ Posters = {} /\ t \notin Waiters
      /\ counter = size - 1
  BY StepSets, Sizes DEF RoundsInv, is_last, PostsInv, BarrierTypeOK
<1>2. Waiters \in SUBSET (Threads \ {t}) /\ Threads \ {t} \in SUBSET Threads
  BY <1>1 DEF Waiters
<1>3. IsFiniteSet(Threads \ {t}) /\ Cardinality(Threads \ {t}) = size - 1
  BY <1>2, Sizes DEF size
<1>4. Cardinality(Waiters) >= size - 1 /\ Cardinality(Waiters) \in Nat
  BY <1>1, Sizes DEF RoundsInv, PostsInv, BarrierTypeOK, PostsMatchWaiters, to_post, Waiters
<1>5. Cardinality(Waiters) <= Cardinality(Threads \ {t})
  BY <1>2, <1>3, FS_Subset
<1>6. Cardinality(Waiters) = Cardinality(Threads \ {t})
  BY <1>3, <1>4, <1>5, Sizes
<1> QED BY <1>2, <1>3, <1>6, FS_Subset

(* Nobody counts while a round is open.                                     *)
LEMMA NobodyCounts ==
  ASSUME RoundsInv, paced, NEW t \in Threads, pc[t] = "count"
  PROVE  ~Opened
<1> SUFFICES ASSUME Opened PROVE FALSE
  OBVIOUS
<1>1. \A u \in Threads : came[u] = left[t] /\ left[t] <= left[u]
  BY DEF RoundsInv, Rounds
<1>2. \A u \in Threads : pc[u] \notin {"post", "release", "wait"}
  BY <1>1 DEF RoundsInv, Rounds, PostsInv, BarrierTypeOK
<1>3. Waiters = {} /\ Posters = {}
  BY <1>2 DEF Waiters, Posters
<1>4. 0 = counter + barrier_s
  BY <1>3, FS_EmptySet DEF RoundsInv, PostsInv, BarrierTypeOK, PostsMatchWaiters, to_post
<1> QED BY <1>3, <1>4 DEF Opened, RoundsInv, PostsInv, BarrierTypeOK

(* A step keeps the rounds apart.                                           *)
LEMMA StepRounds ==
  ASSUME RoundsInv, [Next]_vars
  PROVE  RoundsInv'
<1> SUFFICES Rounds'
  BY StepPosts DEF RoundsInv
<1>1. CASE UNCHANGED vars
  BY <1>1 DEF vars, RoundsInv, Rounds, NobodyLeavesEarly, Opened, Posters
<1>2. CASE Next
  <2> PICK t \in Threads :
        barrier_wait(t) \/ arrive(t) \/ post(t) \/ open(t) \/ release(t) \/ pass(t)
    BY <1>2 DEF Next
  <2> paced' = paced
    BY <1>2 DEF Next
  <2>0. PostsInv /\ BarrierTypeOK /\ BarrierTypeOK' /\ Rounds
    BY StepPosts DEF RoundsInv, PostsInv
  <2>1. CASE barrier_wait(t)
    BY <2>0, <2>1, StepSets
    DEF barrier_wait, Goto, Rested, Rounds, NobodyLeavesEarly, Opened, BarrierTypeOK
  <2>2. CASE arrive(t)
    <3>1. /\ pc[t] = "count" /\ pc' = [pc EXCEPT ![t] = IF is_last THEN "post" ELSE "release"]
          /\ came' = [came EXCEPT ![t] = @ + 1] /\ left' = left /\ barrier_s' = barrier_s
      BY <2>2 DEF arrive, Goto
    <3>2. /\ \A u \in Threads :
               came'[u] = IF pc'[u] \in {"post", "release", "wait"} THEN left'[u] + 1 ELSE left'[u]
          /\ paced => \A u, w \in Threads : pc'[u] # "body" => left'[u] <= left'[w]
          /\ NobodyLeavesEarly'
      BY <2>0, <3>1 DEF Rounds, NobodyLeavesEarly, BarrierTypeOK
    <3>3. paced /\ Opened' => \A u, w \in Threads : came'[u] = came'[w]
      <4> SUFFICES ASSUME paced, Opened' PROVE \A u, w \in Threads : came'[u] = came'[w]
        OBVIOUS
      <4>1. ~Opened
        BY <3>1, NobodyCounts
      <4>2. is_last
        BY <2>0, <2>2, <3>1, <4>1, StepSets DEF Opened
      <4>3. \A u \in Threads \ {t} : pc[u] \in {"release", "wait"}
        BY <2>2, <4>2, AllHaveCome DEF Waiters
      <4>4. \A u, w \in Threads : left[u] = left[w]
        <5>1. \A u \in Threads : pc[u] # "body"
          BY <3>1, <4>3
        <5> QED BY <2>0, <5>1 DEF Rounds, BarrierTypeOK
      <4>5. \A u \in Threads : came'[u] = left[u] + 1
        BY <2>0, <3>1, <4>3 DEF Rounds, BarrierTypeOK
      <4> QED BY <4>4, <4>5
    <3> QED BY <3>2, <3>3 DEF Rounds
  <2>3. CASE post(t)
    BY <2>0, <2>3, StepSets
    DEF post, Goto, Rounds, NobodyLeavesEarly, Opened, BarrierTypeOK
  <2>4. CASE release(t)
    BY <2>0, <2>4, StepSets
    DEF release, Goto, Rounds, NobodyLeavesEarly, Opened, BarrierTypeOK
  <2>5. CASE open(t) \/ pass(t)
    <3>1. /\ pc[t] \in {"post", "wait"} /\ pc' = [pc EXCEPT ![t] = "body"]
          /\ left' = [left EXCEPT ![t] = @ + 1] /\ came' = came
      BY <2>5 DEF open, pass, Goto
    <3>2. Opened
      BY <2>0, <2>5, StepSets DEF open, pass, Opened
    <3>3. \A u \in Threads : left'[u] >= left[u]
      BY <2>0, <3>1 DEF BarrierTypeOK
    <3>4. paced => \A u \in Threads : came[u] = left[t] + 1
      BY <2>0, <3>1, <3>2 DEF Rounds, BarrierTypeOK
    <3>5. NobodyLeavesEarly'
      BY <2>0, <3>1, <3>4 DEF Rounds, NobodyLeavesEarly, BarrierTypeOK
    <3>6. paced => \A u, w \in Threads : pc'[u] # "body" => left'[u] <= left'[w]
      BY <2>0, <3>1, <3>3 DEF Rounds, BarrierTypeOK
    <3>7. \A u \in Threads :
            came'[u] = IF pc'[u] \in {"post", "release", "wait"} THEN left'[u] + 1 ELSE left'[u]
      BY <2>0, <3>1 DEF Rounds, BarrierTypeOK
    <3>8. paced => \A u, w \in Threads : came'[u] = came'[w]
      BY <3>1, <3>4
    <3> QED BY <3>5, <3>6, <3>7, <3>8 DEF Rounds
  <2> QED BY <2>1, <2>2, <2>3, <2>4, <2>5
<1> QED BY <1>1, <1>2

(* With the sleeps of threadBody, nobody leaves a round before every thread *)
(* has come to it, for any number of threads and rounds.                    *)
THEOREM BarrierHolds == Spec => []NobodyLeavesEarly
<1>1. RoundsInv => NobodyLeavesEarly
  BY DEF RoundsInv, Rounds
<1> QED BY InitRounds, StepRounds, <1>1, PTL DEF Spec

-----------------------------------------------------------------------------
(* The bathrooms: who holds count_s, and who has a place (bath_s).          *)
Counting == {t \in B!People : wpc[t] \in {"add", "added", "counted",
                                          "subtract", "subtracted", "uncounted"}}
Placed   == Counting \cup {t \in B!People : wpc[t] \in {"enter", "inside", "leave"}}

BathLabels ==
  {"work", "look", "shut", "looked", "test", "hold", "queue", "enter", "add", "added",
   "counted", "inside", "subtract", "subtracted", "uncounted", "leave", "check",
   "vacate", "vacant", "vacated", "open"}

BathTypeOK ==
  /\ sem \in [{"bath_s", "ocpp_s", "men_s", "woman_s", "count_s"} -> Int]
  /\ wpc \in [B!People -> BathLabels]
  /\ inside \in Int /\ loaded \in [B!People -> Int]

(* count_s is a mutex, what a thread has loaded is still the count, and     *)
(* each thread that has a place has taken it from bath_s.                   *)
BathInv ==
  /\ BathTypeOK
  /\ \A t, u \in Counting : t = u
  /\ sem["count_s"] = IF Counting = {} THEN 1 ELSE 0
  /\ \A t \in B!People : wpc[t] \in {"added", "subtracted"} => loaded[t] = inside
  /\ inside = Cardinality(B!Inside)
  /\ sem["bath_s"] >= 0 /\ sem["bath_s"] + Cardinality(Placed) = BATH_MAX

(* Bathrooms counts with its own copy of FiniteSets.                        *)
LEMMA SameSizes ==
  ASSUME NEW S
  PROVE  (B!IsFiniteSet(S) <=> IsFiniteSet(S)) /\ B!Cardinality(S) = Cardinality(S)
<1>1. B!IsFiniteSet(S) <=> IsFiniteSet(S)
  BY Zenon DEF B!IsFiniteSet, IsFiniteSet
<1>2. B!Cardinality(S) = Cardinality(S)
  BY Zenon DEF B!Cardinality, Cardinality
<1> QED BY <1>1, <1>2

(* What adding or removing a member does to the size of a finite set.       *)
LEMMA OneMoreOneLess ==
  ASSUME NEW S, NEW t, S \subseteq B!People
  PROVE  /\ IsFiniteSet(S) /\ Cardinality(S) \in Nat
         /\ Cardinality(S \cup {t}) = IF t \in S THEN Cardinality(S) ELSE Cardinality(S) + 1
         /\ Cardinality(S \ {t}) = IF t \in S THEN Cardinality(S) - 1 ELSE Cardinality(S)
<1>1. IsFiniteSet(B!People)
  BY PeopleAssumption, SameSizes DEF B!BathroomsAssumption, B!People
<1>2. IsFiniteSet(S)
  BY <1>1, FS_Subset
<1> QED BY <1>2, FS_CardinalityType, FS_AddElement, FS_RemoveElement

LEMMA Subsets ==
  Counting \subseteq B!People /\ Placed \subseteq B!People /\ B!Inside \subseteq B!People
BY DEF Counting, Placed, B!Inside

LEMMA BathInit == B!Init => BathInv
<1> SUFFICES ASSUME B!Init PROVE BathInv
  OBVIOUS
<1>1. Counting = {} /\ Placed = {} /\ B!Inside = {}
  BY DEF B!Init, Counting, Placed, B!Inside
<1>2. sem["bath_s"] = BATH_MAX /\ sem["count_s"] = 1 /\ BATH_MAX \in Nat
  BY PeopleAssumption DEF B!Init, B!BathroomsAssumption
<1>3. BathTypeOK
  <2>1. sem \in [{"bath_s", "ocpp_s", "men_s", "woman_s", "count_s"} -> Int]
    BY <1>2 DEF B!Init
  <2>2. wpc \in [B!People -> BathLabels] /\ inside \in Int /\ loaded \in [B!People -> Int]
    BY DEF B!Init, BathLabels
  <2> QED BY <2>1, <2>2 DEF BathTypeOK
<1>4. \A t \in B!People : wpc[t] \notin {"added", "subtracted"}
  BY DEF B!Init
<1>5. inside = Cardinality(B!Inside) /\ sem["bath_s"] + Cardinality(Placed) = BATH_MAX
  BY <1>1, <1>2, FS_EmptySet DEF B!Init
<1> QED BY <1>1, <1>2, <1>3, <1>4, <1>5 DEF BathInv

(* Which sets a step of t from one label to another joins it to.            *)
LEMMA GotoSets ==
  ASSUME BathInv, NEW t \in B!People, NEW from, NEW to \in BathLabels, B!Goto(t, from, to)
  PROVE  /\ wpc[t] = from /\ wpc' = [wpc EXCEPT ![t] = to] /\ wpc' \in [B!People -> BathLabels]
         /\ Counting' = IF to \in {"add", "added", "counted", "subtract", "subtracted", "uncounted"}
                        THEN Counting \cup {t} ELSE Counting \ {t}
         /\ Placed' = IF to \in {"add", "added", "counted", "subtract", "subtracted", "uncounted",
                                 "enter", "inside", "leave"}
                      THEN Placed \cup {t} ELSE Placed \ {t}
         /\ B!Inside' = IF to \in {"counted", "inside", "subtract", "subtracted"}
                        THEN B!Inside \cup {t} ELSE B!Inside \ {t}
<1>1. wpc[t] = from /\ wpc' = [wpc EXCEPT ![t] = to] /\ wpc' \in [B!People -> BathLabels]
  BY DEF B!Goto, BathInv, BathTypeOK
<1>2. \A u \in B!People : wpc'[u] = IF u = t THEN to ELSE wpc[u]
  BY <1>1 DEF BathInv, BathTypeOK
<1>3. B!People' = B!People
  BY DEF B!People
<1> QED BY <1>1, <1>2, <1>3 DEF Counting, Placed, B!Inside

(* A step outside the places.                                               *)
LEMMA OutsideSteps ==
  ASSUME BathInv, NEW t \in B!People, NEW from, NEW to \in BathLabels, B!Goto(t, from, to),
         from \in {"work", "look", "shut", "looked", "test", "hold", "queue", "check", "vacate",
                  "vacant", "vacated", "open"},
         to \in {"work", "look", "shut", "looked", "test", "hold", "queue", "vacate",
                "vacant", "vacated", "open"},
         sem' = sem \/ \E s \in {"ocpp_s", "men_s", "woman_s"}, k \in Int : sem' = [sem EXCEPT ![s] = k],
         inside' = inside, loaded' = loaded
  PROVE  BathInv'
<1>1. t \notin Placed /\ t \notin B!Inside /\ t \notin Counting
  BY GotoSets DEF Placed, Counting, B!Inside
<1>2. Placed' = Placed /\ B!Inside' = B!Inside /\ Counting' = Counting
  BY <1>1, GotoSets
<1>3. BathTypeOK' /\ sem'["count_s"] = sem["count_s"] /\ sem'["bath_s"] = sem["bath_s"]
  BY GotoSets DEF BathInv, BathTypeOK, B!People
<1>4. \A u \in B!People : wpc'[u] \in {"added", "subtracted"} => loaded'[u] = inside'
  BY GotoSets DEF BathInv, BathTypeOK
<1>5. B!People' = B!People
  BY DEF B!People
<1> QED BY <1>2, <1>3, <1>4, <1>5 DEF BathInv

(* Taking a place and giving it back.                                       *)
LEMMA PlaceSteps ==
  ASSUME BathInv, NEW t \in B!People,
         B!sem_wait(t, "bath_s", "queue", "enter") \/ B!sem_post(t, "bath_s", "leave", "check")
  PROVE  BathInv'
<1>0. B!People' = B!People /\ inside' = inside /\ loaded' = loaded
  BY DEF B!People, B!sem_wait, B!sem_post
<1>1. CASE B!sem_wait(t, "bath_s", "queue", "enter")
  <2>1. B!Goto(t, "queue", "enter") /\ sem["bath_s"] > 0 /\ sem' = [sem EXCEPT !["bath_s"] = @ - 1]
    BY <1>1 DEF B!sem_wait
  <2>2. t \notin Placed /\ t \notin B!Inside /\ t \notin Counting
    BY <2>1, GotoSets DEF Placed, Counting, B!Inside, BathLabels
  <2>3. Placed' = Placed \cup {t} /\ B!Inside' = B!Inside /\ Counting' = Counting
    BY <2>1, <2>2, GotoSets DEF BathLabels
  <2>4. Cardinality(Placed') = Cardinality(Placed) + 1 /\ Cardinality(Placed) \in Nat
    BY <2>2, <2>3, Subsets, OneMoreOneLess
  <2>5. BathTypeOK' /\ sem'["count_s"] = sem["count_s"] /\ sem'["bath_s"] = sem["bath_s"] - 1
    BY <1>0, <2>1, GotoSets DEF BathInv, BathTypeOK, BathLabels
  <2>6. \A u \in B!People : wpc'[u] \in {"added", "subtracted"} => loaded'[u] = inside'
    BY <1>0, <2>1, GotoSets DEF BathInv, BathTypeOK, BathLabels
  <2>7. sem["bath_s"] \in Int
    BY DEF BathInv, BathTypeOK
  <2>8. sem'["bath_s"] >= 0 /\ sem'["bath_s"] + Cardinality(Placed') = BATH_MAX
    BY <2>1, <2>4, <2>5, <2>7 DEF BathInv
  <2> QED BY <1>0, <2>3, <2>5, <2>6, <2>8 DEF BathInv
<1>2. CASE B!sem_post(t, "bath_s", "leave", "check")
  <2>1. B!Goto(t, "leave", "check") /\ sem' = [sem EXCEPT !["bath_s"] = @ + 1]
    BY <1>2 DEF B!sem_post
  <2>2. t \in Placed /\ t \notin B!Inside /\ t \notin Counting
    BY <2>1, GotoSets DEF Placed, Counting, B!Inside, BathLabels
  <2>a. Placed' = Placed \ {t} /\ B!Inside' = B!Inside \ {t} /\ Counting' = Counting \ {t}
    BY <2>1, GotoSets DEF BathLabels
  <2>3. Placed' = Placed \ {t} /\ B!Inside' = B!Inside /\ Counting' = Counting
    BY <2>2, <2>a
  <2>4. Cardinality(Placed') = Cardinality(Placed) - 1 /\ Cardinality(Placed) \in Nat
    BY <2>2, <2>3, Subsets, OneMoreOneLess
  <2>5. BathTypeOK' /\ sem'["count_s"] = sem["count_s"] /\ sem'["bath_s"] = sem["bath_s"] + 1
    BY <1>0, <2>1, GotoSets DEF BathInv, BathTypeOK, BathLabels
  <2>6. \A u \in B!People : wpc'[u] \in {"added", "subtracted"} => loaded'[u] = inside'
    BY <1>0, <2>1, GotoSets DEF BathInv, BathTypeOK, BathLabels
  <2>7. sem["bath_s"] \in Int
    BY DEF BathInv, BathTypeOK
  <2>8. sem'["bath_s"] >= 0 /\ sem'["bath_s"] + Cardinality(Placed') = BATH_MAX
    BY <2>4, <2>5, <2>7 DEF BathInv
  <2> QED BY <1>0, <2>3, <2>5, <2>6, <2>8 DEF BathInv
<1> QED BY <1>1, <1>2

(* The mutex of the count.                                                  *)
LEMMA CountLockSteps ==
  ASSUME BathInv, NEW t \in B!People,
         \/ B!lock_count(t, "enter", "add") \/ B!lock_count(t, "inside", "subtract")
         \/ B!sem_post(t, "count_s", "counted", "inside")
         \/ B!sem_post(t, "count_s", "uncounted", "leave")
  PROVE  BathInv'
<1>0. B!People' = B!People /\ inside' = inside /\ loaded' = loaded
  BY DEF B!People, B!sem_wait, B!sem_post, B!lock_count
<1>1. ASSUME NEW from \in {"enter", "inside", "counted", "uncounted"},
             NEW to \in {"add", "subtract", "inside", "leave"},
             B!Goto(t, from, to),
             from \in {"inside", "counted"} <=> to \in {"inside", "subtract"},
             \/ /\ from \in {"enter", "inside"} /\ to \in {"add", "subtract"}
                /\ sem["count_s"] > 0 /\ sem' = [sem EXCEPT !["count_s"] = @ - 1]
             \/ /\ from \in {"counted", "uncounted"} /\ to \in {"inside", "leave"}
                /\ sem' = [sem EXCEPT !["count_s"] = @ + 1]
      PROVE  BathInv'
  <2>0. to \in BathLabels /\ wpc[t] = from
    BY <1>1, GotoSets DEF BathLabels
  <2>1. t \in Placed
    BY <1>1, <2>0 DEF Placed, Counting
  <2>2. t \in B!Inside <=> to \in {"inside", "subtract"}
    BY <1>1, <2>0 DEF B!Inside
  <2>3. Placed' = Placed
    <3>1. Placed' = Placed \cup {t}
      BY <1>1, <2>0, GotoSets
    <3> QED BY <2>1, <3>1
  <2>4. B!Inside' = B!Inside
    <3>1. B!Inside' = IF to \in {"inside", "subtract"} THEN B!Inside \cup {t} ELSE B!Inside \ {t}
      BY <1>1, <2>0, GotoSets
    <3> QED BY <2>2, <3>1
  <2>5. BathTypeOK' /\ sem'["bath_s"] = sem["bath_s"]
    BY <1>0, <1>1, <2>0, GotoSets DEF BathInv, BathTypeOK
  <2>6. \A u \in B!People : wpc'[u] \in {"added", "subtracted"} => loaded'[u] = inside'
    BY <1>0, <1>1, <2>0, GotoSets DEF BathInv, BathTypeOK
  <2>7. /\ \A u, w \in Counting' : u = w
        /\ sem'["count_s"] = IF Counting' = {} THEN 1 ELSE 0
    <3>1. CASE from \in {"enter", "inside"}
      <4>1. Counting' = Counting \cup {t} /\ sem["count_s"] > 0 /\ sem'["count_s"] = sem["count_s"] - 1
        BY <1>1, <2>0, <3>1, GotoSets DEF BathInv, BathTypeOK
      <4>2. Counting = {} /\ sem["count_s"] = 1
        BY <4>1 DEF BathInv
      <4> QED BY <4>1, <4>2
    <3>2. CASE from \in {"counted", "uncounted"}
      <4>1. Counting' = Counting \ {t} /\ sem'["count_s"] = sem["count_s"] + 1 /\ t \in Counting
        BY <1>1, <2>0, <3>2, GotoSets DEF BathInv, BathTypeOK, Counting
      <4>2. Counting' = {} /\ sem["count_s"] = 0
        BY <4>1 DEF BathInv
      <4> QED BY <4>1, <4>2
    <3> QED BY <1>1, <3>1, <3>2
  <2> QED BY <1>0, <2>3, <2>4, <2>5, <2>6, <2>7 DEF BathInv
<1>2. CASE B!lock_count(t, "enter", "add")
  BY <1>1, <1>2 DEF B!lock_count, B!sem_wait
<1>3. CASE B!lock_count(t, "inside", "subtract")
  BY <1>1, <1>3 DEF B!lock_count, B!sem_wait
<1>4. CASE B!sem_post(t, "count_s", "counted", "inside")
  BY <1>1, <1>4 DEF B!sem_post
<1>5. CASE B!sem_post(t, "count_s", "uncounted", "leave")
  BY <1>1, <1>5 DEF B!sem_post
<1> QED BY <1>2, <1>3, <1>4, <1>5

(* The load and the store, under the mutex.                                 *)
LEMMA CountSteps ==
  ASSUME BathInv, NEW t \in B!People,
         \/ B!load(t, "add", "added") \/ B!load(t, "subtract", "subtracted")
         \/ B!store(t, 1, "added", "counted") \/ B!store(t, -1, "subtracted", "uncounted")
  PROVE  BathInv'
<1>0. B!People' = B!People /\ sem' = sem
  BY DEF B!People, B!load, B!store
<1>1. PICK from \in {"add", "subtract", "added", "subtracted"},
           to \in {"added", "subtracted", "counted", "uncounted"} :
        /\ B!Goto(t, from, to)
        /\ <<from, to>> \in {<<"add", "added">>, <<"subtract", "subtracted">>,
                             <<"added", "counted">>, <<"subtracted", "uncounted">>}
        /\ \/ /\ from \in {"add", "subtract"}
              /\ loaded' = [loaded EXCEPT ![t] = inside] /\ inside' = inside
           \/ /\ from \in {"added", "subtracted"}
              /\ loaded' = [loaded EXCEPT ![t] = 0]
              /\ inside' = loaded[t] + IF from = "added" THEN 1 ELSE -1
  BY DEF B!load, B!store
<1>2. to \in BathLabels /\ wpc[t] = from
  BY <1>1, GotoSets DEF BathLabels
<1>3. t \in Counting /\ t \in Placed
  BY <1>1, <1>2 DEF Placed, Counting
<1>4. t \in B!Inside <=> from \in {"subtract", "subtracted"}
  BY <1>1, <1>2 DEF B!Inside
<1>5. Placed' = Placed /\ Counting' = Counting
  <2>1. Placed' = Placed \cup {t} /\ Counting' = Counting \cup {t}
    BY <1>1, <1>2, GotoSets
  <2> QED BY <1>3, <2>1
<1>6. B!Inside' = IF to \in {"counted", "subtracted"} THEN B!Inside \cup {t} ELSE B!Inside \ {t}
  BY <1>1, <1>2, GotoSets
<1>7. BathTypeOK'
  BY <1>0, <1>1, <1>2, GotoSets DEF BathInv, BathTypeOK
<1>8. \A u \in B!People : wpc'[u] \in {"added", "subtracted"} => loaded'[u] = inside'
  <2>1. \A u \in B!People : u # t => wpc[u] \notin {"added", "subtracted"}
    BY <1>3 DEF BathInv, Counting
  <2> QED BY <1>1, <1>2, <2>1, GotoSets DEF BathInv, BathTypeOK
<1>9. inside' = Cardinality(B!Inside')
  <2>1. CASE from \in {"add", "subtract"}
    BY <1>1, <1>4, <1>6, <2>1, B!Inside' = B!Inside DEF BathInv
  <2>2. CASE from \in {"added", "subtracted"}
    <3>1. loaded[t] = inside /\ inside = Cardinality(B!Inside)
      BY <1>2, <2>2 DEF BathInv
    <3>2. /\ Cardinality(B!Inside) \in Nat
          /\ Cardinality(B!Inside \cup {t}) = IF t \in B!Inside THEN Cardinality(B!Inside)
                                               ELSE Cardinality(B!Inside) + 1
          /\ Cardinality(B!Inside \ {t}) = IF t \in B!Inside THEN Cardinality(B!Inside) - 1
                                            ELSE Cardinality(B!Inside)
      BY Subsets, OneMoreOneLess
    <3> QED BY <1>1, <1>4, <1>6, <2>2, <3>1, <3>2
  <2> QED BY <1>1, <2>1, <2>2
<1> QED BY <1>0, <1>5, <1>7, <1>8, <1>9 DEF BathInv

LEMMA BathStep ==
  ASSUME BathInv, [B!Next]_bathVars
  PROVE  BathInv'
<1>1. CASE UNCHANGED bathVars
  BY <1>1 DEF bathVars, BathInv, BathTypeOK, Counting, Placed, B!Inside, B!People
<1>2. CASE B!Next
  <2> PICK t \in B!People : B!use_bath(t)
    BY <1>2 DEF B!Next
  <2>1. CASE \/ B!sem_wait(t, "ocpp_s", "work", "look") \/ B!occupy(t)
             \/ B!sem_wait(t, B!other_s(t), "shut", "looked")
             \/ B!sem_post(t, "ocpp_s", "looked", "test")
             \/ B!test(t) \/ B!sem_wait(t, B!own_s(t), "hold", "queue")
             \/ B!check(t) \/ B!sem_wait(t, "ocpp_s", "vacate", "vacant") \/ B!vacate(t)
             \/ B!sem_post(t, "ocpp_s", "vacated", "open") \/ B!open_other(t)
    <3>1. /\ \E from \in {"work", "look", "shut", "looked", "test", "hold", "queue", "check",
                         "vacate", "vacant", "vacated", "open"},
               to \in {"work", "look", "shut", "looked", "test", "hold", "queue", "vacate",
                       "vacant", "vacated", "open"} : B!Goto(t, from, to)
          /\ inside' = inside /\ loaded' = loaded
      BY <2>1 DEF B!sem_wait, B!sem_post, B!occupy, B!test, B!check, B!vacate, B!open_other
    <3>2. sem' = sem \/ \E s \in {"ocpp_s", "men_s", "woman_s"}, k \in Int : sem' = [sem EXCEPT ![s] = k]
      BY <2>1 DEF B!sem_wait, B!sem_post, B!occupy, B!test, B!check, B!vacate, B!open_other,
                  B!own_s, B!other_s, BathInv, BathTypeOK
    <3> QED BY <3>1, <3>2, OutsideSteps DEF BathLabels
  <2>2. CASE B!sem_wait(t, "bath_s", "queue", "enter") \/ B!sem_post(t, "bath_s", "leave", "check")
    BY <2>2, PlaceSteps
  <2>3. CASE \/ B!lock_count(t, "enter", "add") \/ B!lock_count(t, "inside", "subtract")
             \/ B!sem_post(t, "count_s", "counted", "inside")
             \/ B!sem_post(t, "count_s", "uncounted", "leave")
    BY <2>3, CountLockSteps
  <2>4. CASE \/ B!load(t, "add", "added") \/ B!load(t, "subtract", "subtracted")
             \/ B!store(t, 1, "added", "counted") \/ B!store(t, -1, "subtracted", "uncounted")
    BY <2>4, CountSteps
  <2> QED BY <2>1, <2>2, <2>3, <2>4 DEF B!use_bath
<1> QED BY <1>1, <1>2

(* The count of the bathroom is the number of threads inside, and never     *)
(* more than its places, for any number of men, women and places.           *)
THEOREM BathroomCount == B!Spec => []CountExact
<1>1. B!Init => BathInv
  BY BathInit
<1>2. BathInv /\ [B!Next]_<<sem, ocpp, inside, loaded, wpc>> => BathInv'
  BY BathStep DEF bathVars
<1>3. BathInv => CountExact
  <2> SUFFICES ASSUME BathInv PROVE CountExact
    OBVIOUS
  <2>1. B!Inside \subseteq Placed
    BY DEF B!Inside, Placed, Counting
  <2>2. Cardinality(B!Inside) <= Cardinality(Placed) /\ Cardinality(Placed) \in Nat
    BY <2>1, Subsets, OneMoreOneLess, FS_Subset
  <2>3. inside <= BATH_MAX /\ inside = Cardinality(B!Inside)
    BY <2>2 DEF BathInv, BathTypeOK
  <2> QED BY <2>3, SameSizes DEF CountExact, B!CountExact
<1> QED BY <1>1, <1>2, <1>3, PTL DEF B!Spec, B!vars
-----------------------------------------------------------------------------
(* The robots: the three threads are never free to run at once, so that     *)
(* their positions and the semaphores go round in twelve phases.            *)
At(b, l, m) == at["bart"] = b /\ at["lisa"] = l /\ at["maggie"] = m

(* One semaphore is free, that of t, or none is.                            *)
Turn(t) == \A u \in R!Speakers : value[u] = IF u = t THEN 1 ELSE 0

(* What was said is the piece of the conversation before its k-th line: the *)
(* last four lines, or all since the beginning.                             *)
Said(k) ==
  /\ Len(spoken) = 4 \/ Len(spoken) = k - 1
  /\ \A i \in 1..Len(spoken) : spoken[i] = R!Conversation[k + 3 + i - Len(spoken)]

Phase ==
  \/ Said(1) /\ \/ Turn("bart") /\ At(1, 1, 1)
                \/ Turn("none") /\ At(2, 1, 1)
                \/ Turn("none") /\ At(1, 6, 1)
  \/ Said(2) /\ \/ Turn("none") /\ At(3, 1, 1)
                \/ Turn("lisa") /\ At(1, 1, 1)
                \/ Turn("none") /\ At(1, 2, 1)
  \/ Said(3) /\ \/ Turn("none") /\ At(1, 3, 1)
                \/ Turn("maggie") /\ At(1, 4, 1)
                \/ Turn("none") /\ At(1, 4, 2)
  \/ Said(4) /\ \/ Turn("none") /\ At(1, 4, 3)
                \/ Turn("lisa") /\ At(1, 4, 1)
                \/ Turn("none") /\ At(1, 5, 1)

RobotsTypeOK ==
  value \in [R!Speakers -> Nat] /\ at \in [R!Speakers -> Nat] /\ spoken \in Seq(R!Speakers)

RobotsInv == RobotsTypeOK /\ Phase

(* The steps that the bodies are made of.                                   *)
LEMMA Bodies ==
  /\ Len(R!Body["bart"]) = 3 /\ Len(R!Body["lisa"]) = 6 /\ Len(R!Body["maggie"]) = 3
  /\ R!Body["bart"][1] = R!Wait("bart") /\ R!Body["bart"][2] = R!Say
  /\ R!Body["bart"][3] = R!Post("lisa")
  /\ R!Body["lisa"][1] = R!Wait("lisa") /\ R!Body["lisa"][2] = R!Say
  /\ R!Body["lisa"][3] = R!Post("maggie")
  /\ R!Body["lisa"][4] = R!Wait("lisa") /\ R!Body["lisa"][5] = R!Say
  /\ R!Body["lisa"][6] = R!Post("bart")
  /\ R!Body["maggie"][1] = R!Wait("maggie") /\ R!Body["maggie"][2] = R!Say
  /\ R!Body["maggie"][3] = R!Post("lisa")
<1>1. R!Body["bart"] = R!bart /\ R!Body["lisa"] = R!lisa /\ R!Body["maggie"] = R!maggie
  BY DEF R!Body, R!Speakers
<1> QED BY <1>1 DEF R!bart, R!lisa, R!maggie

LEMMA RobotsInit == R!Init => RobotsInv
<1> SUFFICES ASSUME R!Init PROVE RobotsInv
  OBVIOUS
<1>1. RobotsTypeOK
  BY DEF R!Init, RobotsTypeOK, R!Speakers
<1>2. Turn("bart") /\ At(1, 1, 1) /\ Said(1)
  BY DEF R!Init, Turn, At, Said, R!Speakers
<1> QED BY <1>1, <1>2 DEF RobotsInv, Phase

(* Dropping the first of four and adding one at the end.                    *)
LEMMA Shift ==
  ASSUME NEW S, NEW s \in Seq(S), NEW e \in S, Len(s) = 4
  PROVE  /\ Append(Tail(s), e) \in Seq(S) /\ Len(Append(Tail(s), e)) = 4
         /\ \A i \in 1..4 : Append(Tail(s), e)[i] = IF i = 4 THEN e ELSE s[i + 1]
<1> DEFINE q == Tail(s)
           u == Append(q, e)
<1>1. q \in Seq(S) /\ Len(q) = Len(s) - 1 /\ \A i \in 1..Len(q) : q[i] = s[i + 1]
  BY s # << >>, HeadTailProperties, Zenon
<1> HIDE DEF q
<1>2. /\ u \in Seq(S) /\ Len(u) = Len(q) + 1
      /\ (\A i \in 1..Len(q) : u[i] = q[i]) /\ u[Len(q) + 1] = e
  <2>1. q \in Seq(S)
    BY <1>1
  <2> QED BY ONLY <2>1, e \in S, SMT
<1> HIDE DEF u
<1>3. u \in Seq(S) /\ Len(u) = 4 /\ \A i \in 1..4 : u[i] = IF i = 4 THEN e ELSE s[i + 1]
  <2>1. \A i \in 1..4 : i = 4 \/ i \in 1..3
    OBVIOUS
  <2>2. Len(q) = 3 /\ Len(u) = 4
    BY <1>1, <1>2
  <2> QED BY <1>1, <1>2, <2>1, <2>2
<1> QED BY <1>3 DEF q, u

(* The next line of the conversation is said.                               *)
LEMMA SaidMoves ==
  ASSUME spoken \in Seq(R!Speakers), NEW k \in 1..4, Said(k),
         spoken' = IF Len(spoken) = 4 THEN Append(Tail(spoken), R!Conversation[k])
                                      ELSE Append(spoken, R!Conversation[k])
  PROVE  Said(IF k = 4 THEN 1 ELSE k + 1)' /\ spoken' \in Seq(R!Speakers)
<1> DEFINE next == IF k = 4 THEN 1 ELSE k + 1
<1>0. R!Conversation[k] \in R!Speakers /\ next \in 1..4 /\ R!Conversation[next + 3] = R!Conversation[k]
  BY DEF R!Conversation, R!Speakers
<1>1. CASE Len(spoken) = 4
  <2>1. /\ Len(spoken') = 4 /\ spoken' \in Seq(R!Speakers)
        /\ \A i \in 1..4 : spoken'[i] = IF i = 4 THEN R!Conversation[k] ELSE spoken[i + 1]
    <3>1. spoken' = Append(Tail(spoken), R!Conversation[k])
      BY <1>1
    <3> QED BY <1>0, <1>1, <3>1, Shift
  <2>2. \A i \in 1..3 : spoken[i + 1] = R!Conversation[k + i]
    BY <1>1 DEF Said
  <2>3. \A i \in 1..3 : R!Conversation[k + i] = R!Conversation[next + i - 1]
    BY DEF R!Conversation
  <2>4. \A i \in 1..4 : spoken'[i] = R!Conversation[next + 3 + i - 4]
    <3> TAKE i \in 1..4
    <3>1. CASE i = 4
      BY <1>0, <2>1, <3>1
    <3>2. CASE i \in 1..3
      <4>1. next + 3 + i - 4 = next + i - 1
        BY <1>0, <3>2
      <4> QED BY <2>1, <2>2, <2>3, <3>2, <4>1
    <3>3. i = 4 \/ i \in 1..3
      OBVIOUS
    <3> QED BY <3>1, <3>2, <3>3
  <2> QED BY <2>1, <2>4 DEF Said
<1>2. CASE Len(spoken) # 4
  <2>1. Len(spoken) = k - 1
    BY <1>2 DEF Said
  <2>2. /\ Len(spoken') = k /\ spoken' \in Seq(R!Speakers)
        /\ \A i \in 1..k : spoken'[i] = IF i = k THEN R!Conversation[k] ELSE spoken[i]
    BY <1>0, <1>2, <2>1
  <2>3. \A i \in 1..(k - 1) : spoken[i] = R!Conversation[4 + i]
    <3> TAKE i \in 1..(k - 1)
    <3>1. k + 3 + i - Len(spoken) = 4 + i
      BY <2>1
    <3> QED BY <2>1, <3>1 DEF Said
  <2>4. \A i \in 1..k : spoken'[i] = R!Conversation[next + 3 + i - k]
    <3> TAKE i \in 1..k
    <3>1. CASE i = k
      <4>1. next + 3 + i - k = next + 3
        BY <1>0, <3>1
      <4> QED BY <1>0, <2>2, <3>1, <4>1
    <3>2. CASE i # k /\ k # 4
      <4>1. next + 3 + i - k = 4 + i
        BY <3>2
      <4> QED BY <2>2, <2>3, <3>2, <4>1
    <3>3. CASE i # k /\ k = 4
      <4>1. next + 3 + i - k = i /\ i \in 1..3
        BY <3>3
      <4>2. R!Conversation[4 + i] = R!Conversation[i]
        BY <4>1 DEF R!Conversation
      <4>3. spoken'[i] = spoken[i] /\ spoken[i] = R!Conversation[4 + i]
        <5>1. i \in 1..(k - 1)
          BY <3>3
        <5> QED BY <2>2, <2>3, <3>3, <5>1
      <4> QED BY <4>1, <4>2, <4>3
    <3> QED BY <3>1, <3>2, <3>3
  <2>5. Len(spoken') = 4 \/ Len(spoken') = next - 1
    BY <1>0, <2>2
  <2> QED BY <2>2, <2>4, <2>5 DEF Said
<1> QED BY <1>1, <1>2

Says(t) == spoken' = IF Len(spoken) = 4 THEN Append(Tail(spoken), t) ELSE Append(spoken, t)

(* What the steps of a thread change, by the step of its body that is next. *)
LEMMA Steps ==
  ASSUME RobotsTypeOK, NEW t \in R!Speakers, R!sem_wait(t) \/ R!sem_post(t) \/ R!say(t)
  PROVE  /\ at'["bart"] = IF t = "bart" THEN IF at[t] = 3 THEN 1 ELSE at[t] + 1 ELSE at["bart"]
         /\ at'["lisa"] = IF t = "lisa" THEN IF at[t] = 6 THEN 1 ELSE at[t] + 1 ELSE at["lisa"]
         /\ at'["maggie"] = IF t = "maggie" THEN IF at[t] = 3 THEN 1 ELSE at[t] + 1 ELSE at["maggie"]
         /\ \A s \in R!Speakers : R!Body[t][at[t]] = R!Wait(s) =>
              /\ value[s] > 0 /\ spoken' = spoken
              /\ \A u \in R!Speakers : value'[u] = IF u = s THEN value[u] - 1 ELSE value[u]
         /\ \A s \in R!Speakers : R!Body[t][at[t]] = R!Post(s) =>
              /\ spoken' = spoken
              /\ \A u \in R!Speakers : value'[u] = IF u = s THEN value[u] + 1 ELSE value[u]
         /\ R!Body[t][at[t]] = R!Say => Says(t) /\ value' = value
<1>1. R!Perform(t, "wait") \/ R!Perform(t, "post") \/ R!Perform(t, "say")
  BY DEF R!sem_wait, R!sem_post, R!say
<1>2. at' = [at EXCEPT ![t] = IF @ = Len(R!Body[t]) THEN 1 ELSE @ + 1]
  BY <1>1 DEF R!Perform
<1>3. t \in {"bart", "lisa", "maggie"} /\ at \in [{"bart", "lisa", "maggie"} -> Nat]
  BY DEF RobotsTypeOK, R!Speakers
<1>4. /\ at'["bart"] = IF t = "bart" THEN IF at[t] = 3 THEN 1 ELSE at[t] + 1 ELSE at["bart"]
      /\ at'["lisa"] = IF t = "lisa" THEN IF at[t] = 6 THEN 1 ELSE at[t] + 1 ELSE at["lisa"]
      /\ at'["maggie"] = IF t = "maggie" THEN IF at[t] = 3 THEN 1 ELSE at[t] + 1 ELSE at["maggie"]
  BY <1>2, <1>3, Bodies
<1>5. ASSUME NEW s \in R!Speakers, R!Body[t][at[t]] = R!Wait(s)
      PROVE  /\ value[s] > 0 /\ spoken' = spoken
             /\ \A u \in R!Speakers : value'[u] = IF u = s THEN value[u] - 1 ELSE value[u]
  <2>1. R!step(t).op = "wait" /\ R!step(t).sem = s
    BY <1>5 DEF R!step, R!Wait
  <2>2. R!sem_wait(t)
    BY <2>1 DEF R!sem_post, R!say, R!Perform
  <2> QED BY <2>1, <2>2 DEF R!sem_wait, RobotsTypeOK
<1>6. ASSUME NEW s \in R!Speakers, R!Body[t][at[t]] = R!Post(s)
      PROVE  /\ spoken' = spoken
             /\ \A u \in R!Speakers : value'[u] = IF u = s THEN value[u] + 1 ELSE value[u]
  <2>1. R!step(t).op = "post" /\ R!step(t).sem = s
    BY <1>6 DEF R!step, R!Post
  <2>2. R!sem_post(t)
    BY <2>1 DEF R!sem_wait, R!say, R!Perform
  <2> QED BY <2>1, <2>2 DEF R!sem_post, RobotsTypeOK
<1>7. ASSUME R!Body[t][at[t]] = R!Say
      PROVE  Says(t) /\ value' = value
  <2>1. R!step(t).op = "say"
    BY <1>7 DEF R!step, R!Say
  <2> QED BY <2>1 DEF R!sem_wait, R!sem_post, R!say, R!Perform, Says
<1> QED BY <1>4, <1>5, <1>6, <1>7

LEMMA RobotsTypes ==
  ASSUME RobotsTypeOK, NEW t \in R!Speakers, R!sem_wait(t) \/ R!sem_post(t) \/ R!say(t)
  PROVE  RobotsTypeOK'
<1>1. at' \in [R!Speakers -> Nat]
  <2>1. at' = [at EXCEPT ![t] = IF @ = Len(R!Body[t]) THEN 1 ELSE @ + 1]
    BY DEF R!sem_wait, R!sem_post, R!say, R!Perform
  <2>2. at \in [R!Speakers -> Nat]
    BY DEF RobotsTypeOK
  <2> QED BY ONLY <2>1, <2>2, t \in R!Speakers
<1>2. value' \in [R!Speakers -> Nat]
  BY DEF RobotsTypeOK, R!sem_wait, R!sem_post, R!say
<1>3. spoken' \in Seq(R!Speakers)
  <2>1. CASE spoken' = spoken
    BY <2>1 DEF RobotsTypeOK
  <2>2. CASE Len(spoken) = 4 /\ spoken' = Append(Tail(spoken), t)
    BY <2>2, Shift DEF RobotsTypeOK
  <2>3. CASE spoken' = Append(spoken, t)
    BY <2>3 DEF RobotsTypeOK
  <2> QED BY <2>1, <2>2, <2>3 DEF R!sem_wait, R!sem_post, R!say
<1> QED BY <1>1, <1>2, <1>3 DEF RobotsTypeOK

(* Each step is the one that leads to the next phase.                       *)
LEMMA RobotsStep ==
  ASSUME RobotsInv, [R!Next]_robotVars
  PROVE  RobotsInv'
<1>1. CASE UNCHANGED robotVars
  BY <1>1 DEF robotVars, RobotsInv, RobotsTypeOK, Phase, Said, Turn, At
<1>2. CASE R!Next
  <2> PICK t \in R!Speakers : R!sem_wait(t) \/ R!sem_post(t) \/ R!say(t)
    BY <1>2 DEF R!Next
  <2>0. RobotsTypeOK /\ t \in {"bart", "lisa", "maggie"} /\ R!Speakers = {"bart", "lisa", "maggie"}
    BY DEF RobotsInv, R!Speakers
  <2>a. RobotsTypeOK'
    BY <2>0, RobotsTypes
  <2>1. CASE Said(1) /\ Turn("bart") /\ At(1, 1, 1)
    <3>1. Turn("none")' /\ At(2, 1, 1)'
      BY <2>0, <2>1, Steps, Bodies DEF Turn, At
    <3>2. spoken' = spoken
      BY <2>0, <2>1, Steps, Bodies DEF Turn, At, Says
    <3> QED BY <2>a, <2>1, <3>1, <3>2 DEF Said, RobotsInv, Phase
  <2>2. CASE Said(1) /\ Turn("none") /\ At(2, 1, 1)
    <3>1. Turn("none")' /\ At(3, 1, 1)'
      BY <2>0, <2>2, Steps, Bodies DEF Turn, At
    <3>2. Says("bart")
      BY <2>0, <2>2, Steps, Bodies DEF Turn, At, Says
    <3>3. Said(2)'
      BY <2>0, <2>2, <3>2, SaidMoves DEF Says, RobotsTypeOK, R!Conversation
    <3> QED BY <2>a, <3>1, <3>3 DEF RobotsInv, Phase
  <2>3. CASE Said(2) /\ Turn("none") /\ At(3, 1, 1)
    <3>1. Turn("lisa")' /\ At(1, 1, 1)'
      BY <2>0, <2>3, Steps, Bodies DEF Turn, At
    <3>2. spoken' = spoken
      BY <2>0, <2>3, Steps, Bodies DEF Turn, At, Says
    <3> QED BY <2>a, <2>3, <3>1, <3>2 DEF Said, RobotsInv, Phase
  <2>4. CASE Said(2) /\ Turn("lisa") /\ At(1, 1, 1)
    <3>1. Turn("none")' /\ At(1, 2, 1)'
      BY <2>0, <2>4, Steps, Bodies DEF Turn, At
    <3>2. spoken' = spoken
      BY <2>0, <2>4, Steps, Bodies DEF Turn, At, Says
    <3> QED BY <2>a, <2>4, <3>1, <3>2 DEF Said, RobotsInv, Phase
  <2>5. CASE Said(2) /\ Turn("none") /\ At(1, 2, 1)
    <3>1. Turn("none")' /\ At(1, 3, 1)'
      BY <2>0, <2>5, Steps, Bodies DEF Turn, At
    <3>2. Says("lisa")
      BY <2>0, <2>5, Steps, Bodies DEF Turn, At, Says
    <3>3. Said(3)'
      BY <2>0, <2>5, <3>2, SaidMoves DEF Says, RobotsTypeOK, R!Conversation
    <3> QED BY <2>a, <3>1, <3>3 DEF RobotsInv, Phase
  <2>6. CASE Said(3) /\ Turn("none") /\ At(1, 3, 1)
    <3>1. Turn("maggie")' /\ At(1, 4, 1)'
      BY <2>0, <2>6, Steps, Bodies DEF Turn, At
    <3>2. spoken' = spoken
      BY <2>0, <2>6, Steps, Bodies DEF Turn, At, Says
    <3> QED BY <2>a, <2>6, <3>1, <3>2 DEF Said, RobotsInv, Phase
  <2>7. CASE Said(3) /\ Turn("maggie") /\ At(1, 4, 1)
    <3>1. Turn("none")' /\ At(1, 4, 2)'
      BY <2>0, <2>7, Steps, Bodies DEF Turn, At
    <3>2. spoken' = spoken
      BY <2>0, <2>7, Steps, Bodies DEF Turn, At, Says
    <3> QED BY <2>a, <2>7, <3>1, <3>2 DEF Said, RobotsInv, Phase
  <2>8. CASE Said(3) /\ Turn("none") /\ At(1, 4, 2)
    <3>1. Turn("none")' /\ At(1, 4, 3)'
      BY <2>0, <2>8, Steps, Bodies DEF Turn, At
    <3>2. Says("maggie")
      BY <2>0, <2>8, Steps, Bodies DEF Turn, At, Says
    <3>3. Said(4)'
      BY <2>0, <2>8, <3>2, SaidMoves DEF Says, RobotsTypeOK, R!Conversation
    <3> QED BY <2>a, <3>1, <3>3 DEF RobotsInv, Phase
  <2>9. CASE Said(4) /\ Turn("none") /\ At(1, 4, 3)
    <3>1. Turn("lisa")' /\ At(1, 4, 1)'
      BY <2>0, <2>9, Steps, Bodies DEF Turn, At
    <3>2. spoken' = spoken
      BY <2>0, <2>9, Steps, Bodies DEF Turn, At, Says
    <3> QED BY <2>a, <2>9, <3>1, <3>2 DEF Said, RobotsInv, Phase
  <2>10. CASE Said(4) /\ Turn("lisa") /\ At(1, 4, 1)
    <3>1. Turn("none")' /\ At(1, 5, 1)'
      BY <2>0, <2>10, Steps, Bodies DEF Turn, At
    <3>2. spoken' = spoken
      BY <2>0, <2>10, Steps, Bodies DEF Turn, At, Says
    <3> QED BY <2>a, <2>10, <3>1, <3>2 DEF Said, RobotsInv, Phase
  <2>11. CASE Said(4) /\ Turn("none") /\ At(1, 5, 1)
    <3>1. Turn("none")' /\ At(1, 6, 1)'
      BY <2>0, <2>11, Steps, Bodies DEF Turn, At
    <3>2. Says("lisa")
      BY <2>0, <2>11, Steps, Bodies DEF Turn, At, Says
    <3>3. Said(1)'
      BY <2>0, <2>11, <3>2, SaidMoves DEF Says, RobotsTypeOK, R!Conversation
    <3> QED BY <2>a, <3>1, <3>3 DEF RobotsInv, Phase
  <2>12. CASE Said(1) /\ Turn("none") /\ At(1, 6, 1)
    <3>1. Turn("bart")' /\ At(1, 1, 1)'
      BY <2>0, <2>12, Steps, Bodies DEF Turn, At
    <3>2. spoken' = spoken
      BY <2>0, <2>12, Steps, Bodies DEF Turn, At, Says
    <3> QED BY <2>a, <2>12, <3>1, <3>2 DEF Said, RobotsInv, Phase
  <2> QED BY <2>1, <2>2, <2>3, <2>4, <2>5, <2>6, <2>7, <2>8, <2>9, <2>10, <2>11, <2>12 DEF RobotsInv, Phase
<1> QED BY <1>1, <1>2

(* The robots speak in turn, however long each of them sleeps.              *)
THEOREM RobotsInTurn == R!Spec => []SpokenInTurn
<1>1. R!Init => RobotsInv
  BY RobotsInit
<1>2. RobotsInv /\ [R!Next]_<<value, at, spoken>> => RobotsInv'
  BY RobotsStep DEF robotVars
<1>3. RobotsInv => SpokenInTurn
  <2> SUFFICES ASSUME RobotsInv PROVE SpokenInTurn
    OBVIOUS
  <2>1. PICK k \in 1..4 : Said(k)
    BY DEF RobotsInv, Phase
  <2>2. Len(spoken) \in 0..4 /\ DOMAIN spoken = 1..Len(spoken)
    <3>1. spoken \in Seq(R!Speakers)
      BY DEF RobotsInv, RobotsTypeOK
    <3>2. Len(spoken) \in Nat /\ DOMAIN spoken = 1..Len(spoken)
      BY <3>1
    <3>3. Len(spoken) = 4 \/ Len(spoken) = k - 1
      BY <2>1 DEF Said
    <3> QED BY <3>2, <3>3
  <2>3. CASE Len(spoken) = 4
    <3>1. \A i \in 1..4 : spoken[i] = R!Conversation[k + i - 1]
      <4> TAKE i \in 1..4
      <4>1. k + 3 + i - Len(spoken) = k + i - 1
        BY <2>3
      <4> QED BY <2>1, <2>3, <4>1 DEF Said
    <3> QED BY <2>2, <2>3, <3>1 DEF SpokenInTurn, R!SpokenInTurn
  <2>4. CASE Len(spoken) = k - 1
    <3>1. \A i \in 1..(k - 1) : spoken[i] = R!Conversation[4 + i]
      <4> TAKE i \in 1..(k - 1)
      <4>1. k + 3 + i - Len(spoken) = 4 + i
        BY <2>4
      <4> QED BY <2>1, <2>4, <4>1 DEF Said
    <3>2. \A i \in 1..3 : R!Conversation[4 + i] = R!Conversation[1 + i - 1]
      BY DEF R!Conversation
    <3>3. \A i \in DOMAIN spoken : spoken[i] = R!Conversation[1 + i - 1]
      BY <2>2, <2>4, <3>1, <3>2
    <3> QED BY <3>3 DEF SpokenInTurn, R!SpokenInTurn
  <2> QED BY <2>1, <2>3, <2>4 DEF Said
<1> QED BY <1>1, <1>2, <1>3, PTL DEF R!Spec, R!vars
-----------------------------------------------------------------------------
(* A run of the three programs, one exercise after the other, is a run of   *)
(* each of them: the exercises share nothing.                               *)
THEOREM ApartFromEachOther == CoordSpec => Spec /\ B!Spec /\ R!Spec
<1>1. CoordInit => Init /\ B!Init /\ R!Init
  BY DEF CoordInit
<1>2. [CoordNext]_allVars =>
        [Next]_vars /\ [B!Next]_<<sem, ocpp, inside, loaded, wpc>> /\ [R!Next]_<<value, at, spoken>>
  <2> SUFFICES ASSUME [CoordNext]_allVars
               PROVE  /\ [Next]_vars /\ [B!Next]_<<sem, ocpp, inside, loaded, wpc>>
                      /\ [R!Next]_<<value, at, spoken>>
    OBVIOUS
  <2>1. CASE UNCHANGED allVars
    BY <2>1 DEF allVars, bathVars, robotVars
  <2>2. CASE Next /\ UNCHANGED <<bathVars, robotVars>>
    BY <2>2 DEF bathVars, robotVars
  <2>3. CASE B!Next /\ UNCHANGED <<vars, robotVars>>
    BY <2>3 DEF robotVars
  <2>4. CASE R!Next /\ UNCHANGED <<vars, bathVars>>
    BY <2>4 DEF bathVars
  <2> QED BY <2>1, <2>2, <2>3, <2>4 DEF CoordNext
<1> QED BY <1>1, <1>2, PTL DEF CoordSpec, Spec, B!Spec, B!vars, R!Spec, R!vars

(* What holds of each program alone holds of the three in one run.          *)
THEOREM ExercisesHold ==
  CoordSpec => [](NobodyLeavesEarly /\ PostsMatchWaiters /\ CountExact /\ SpokenInTurn)
BY ApartFromEachOther, BarrierHolds, PostsMatch, BathroomCount, RobotsInTurn, PTL
=============================================================================
