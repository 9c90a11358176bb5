----------------------------- MODULE QueueProofs -----------------------------
(***************************************************************************)
(* The lists of core/queue.c stay well formed and apart, and are the FIFO  *)
(* queues of queue.h, for any number of elements and queues and any        *)
(* sequence of calls.                                                      *)
(*                                                                         *)
(* DoublyLinked is not inductive alone: to remove e from q one must know   *)
(* that the search loop meets the head of q only when e is in q.  The      *)
(* strengthening is an owner for every linked element, which next and prev *)
(* preserve: the elements owned like e are closed under next, so the       *)
(* search cannot leave them.  The refinement adds the order: a sequence    *)
(* for each queue whose neighbours are the links (Listed), which is what   *)
(* the walk of queue_size reads back.                                      *)
(***************************************************************************)
EXTENDS Queue, SequenceTheorems, FiniteSetTheorems, WellFoundedInduction, TLAPS

Owns(own) ==
  /\ own \in [Elems -> Queues \cup {NULL}]
  /\ \A e \in Elems : own[e] = NULL <=> next[e] = NULL
  /\ \A e \in Elems : next[e] # NULL => own[next[e]] = own[e]
  /\ \A e \in Elems : prev[e] # NULL => own[prev[e]] = own[e]
  /\ \A q \in Queues : head[q] # NULL => own[head[q]] = q

IInv == TypeOK /\ DoublyLinked /\ \E own : Owns(own)

-----------------------------------------------------------------------------

(* The search loop of queue_remove started at a linked element meets only   *)
(* heads of the element's own queue.                                        *)
LEMMA SearchStaysInQueue ==
  ASSUME IInv, NEW own, Owns(own), NEW e \in Elems, NEW h \in Elems,
         next[e] # NULL, SearchMeets(e, h)
  PROVE  own[h] = own[e]
<1> DEFINE S == {x \in Elems : own[x] = own[e]}
<1>1. next[e] \in S
  BY DEF IInv, TypeOK, Owns
<1>2. \A x \in S \ {e} : next[x] \in S
  BY DEF IInv, TypeOK, Owns
<1>3. h \in S
  BY <1>1, <1>2, S \in SUBSET Elems DEF SearchMeets
<1> QED BY <1>3

(* Initially every list is empty. *)
LEMMA InitInv == Init => IInv
<1> SUFFICES ASSUME Init PROVE IInv
  OBVIOUS
<1>1. TypeOK /\ DoublyLinked
  BY DEF Init, TypeOK, DoublyLinked
<1>2. Owns([e \in Elems |-> NULL])
  BY QueueAssumption DEF Init, Owns
<1> QED BY <1>1, <1>2 DEF IInv

(* queue_append keeps the lists well formed: an accepted element is not     *)
(* linked anywhere and becomes owned by the queue.                          *)
LEMMA AppendInv ==
  ASSUME IInv, NEW q \in Queues \cup {NULL}, NEW e \in Elems \cup {NULL},
         queue_append(q, e)
  PROVE  IInv'
<1> PICK own : Owns(own)
  BY DEF IInv
<1> USE DEF IInv
<1>1. CASE \E code \in {NO_QUEUE, NO_ELEM, BELONGS_TO_ANOTHER_QUEUE} : Reject(code)
  BY <1>1 DEF Reject, TypeOK, DoublyLinked, Owns
<1>2. CASE /\ q # NULL /\ e # NULL /\ Unlinked(e)
           /\ head[q] = NULL /\ LinkFirst(q, e) /\ ret' = SUCESS
  <2> q \in Queues /\ e \in Elems
    BY <1>2
  <2>1. TypeOK' /\ DoublyLinked'
    BY <1>2, QueueAssumption DEF Unlinked, LinkFirst, TypeOK, DoublyLinked
  <2>2. Owns([own EXCEPT ![e] = q])'
    BY <1>2, QueueAssumption DEF Unlinked, LinkFirst, TypeOK, DoublyLinked, Owns
  <2> QED BY <2>1, <2>2
<1>3. CASE /\ q # NULL /\ e # NULL /\ Unlinked(e)
           /\ head[q] # NULL /\ LinkLast(q, e) /\ ret' = SUCESS
  <2> q \in Queues /\ e \in Elems
    BY <1>3
  <2> DEFINE h == head[q]
             last == prev[h]
  <2>0. h \in Elems /\ last \in Elems /\ h # e /\ last # e
    BY <1>3, QueueAssumption DEF Unlinked, TypeOK, DoublyLinked
  <2>1. TypeOK'
    BY <1>3, <2>0 DEF LinkLast, TypeOK
  <2>2. DoublyLinked'
    BY <1>3, <2>0, QueueAssumption DEF Unlinked, LinkLast, TypeOK, DoublyLinked
  <2>3. Owns([own EXCEPT ![e] = q])'
    BY <1>3, <2>0, QueueAssumption DEF Unlinked, LinkLast, TypeOK, DoublyLinked, Owns
  <2> QED BY <2>1, <2>2, <2>3
<1> QED BY <1>1, <1>2, <1>3 DEF queue_append

(* queue_remove keeps the lists well formed: what it unlinks belongs to the *)
(* queue it was asked to remove it from.                                    *)
LEMMA RemoveInv ==
  ASSUME IInv, NEW q \in Queues \cup {NULL}, NEW e \in Elems \cup {NULL},
         queue_remove(q, e)
  PROVE  IInv'
<1> PICK own : Owns(own)
  BY DEF IInv
<1> USE DEF IInv
<1>1. CASE \E code \in {NO_QUEUE, NO_ELEM, EMPTY_QUEUE, NOT_ON_QUEUE,
                        BELONGS_TO_ANOTHER_QUEUE} : Reject(code)
  BY <1>1 DEF Reject, TypeOK, DoublyLinked, Owns
<1>2. CASE /\ q # NULL /\ e # NULL /\ head[q] # NULL /\ next[e] # NULL
           /\ prev[e] # NULL /\ SearchMeets(e, head[q]) /\ ret' = SUCESS
           /\ \/ next[e] = e /\ UnlinkOnly(q, e)
              \/ next[e] # e /\ Unlink(q, e)
  <2> q \in Queues /\ e \in Elems
    BY <1>2
  <2>1. head[q] \in Elems /\ next[e] \in Elems /\ prev[e] \in Elems
    BY <1>2 DEF TypeOK
  <2>2. own[e] = q
    BY <1>2, <2>1, SearchStaysInQueue DEF Owns
  <2>3. CASE next[e] = e /\ UnlinkOnly(q, e)
    <3>1. head[q] = e
      BY <1>2, <2>3, <2>1, {e} \in SUBSET Elems DEF SearchMeets
    <3>2. TypeOK' /\ DoublyLinked'
      BY <1>2, <2>1, <2>2, <2>3, <3>1, QueueAssumption
         DEF UnlinkOnly, TypeOK, DoublyLinked, Owns
    <3>3. Owns([own EXCEPT ![e] = NULL])'
      BY <1>2, <2>1, <2>2, <2>3, <3>1, QueueAssumption
         DEF UnlinkOnly, TypeOK, DoublyLinked, Owns
    <3> QED BY <3>2, <3>3
  <2>4. CASE next[e] # e /\ Unlink(q, e)
    <3>1. TypeOK'
      BY <1>2, <2>1, <2>4 DEF Unlink, TypeOK
    <3>2. DoublyLinked'
      BY <1>2, <2>1, <2>2, <2>4, QueueAssumption
         DEF Unlink, TypeOK, DoublyLinked, Owns
    <3>3. Owns([own EXCEPT ![e] = NULL])'
      BY <1>2, <2>1, <2>2, <2>4, QueueAssumption
         DEF Unlink, TypeOK, DoublyLinked, Owns
    <3> QED BY <3>1, <3>2, <3>3
  <2> QED BY <1>2, <2>3, <2>4
<1> QED BY <1>1, <1>2 DEF queue_remove

LEMMA NextInv == IInv /\ [Next]_vars => IInv'
<1> SUFFICES ASSUME IInv, [Next]_vars PROVE IInv'
  OBVIOUS
<1>1. CASE Next
  BY <1>1, AppendInv, RemoveInv DEF Next
<1>2. CASE UNCHANGED vars
  BY <1>2 DEF vars, IInv, TypeOK, DoublyLinked, Owns
<1> QED BY <1>1, <1>2

LEMMA Invariance == Spec => []IInv
  BY InitInv, NextInv, PTL DEF Spec

-----------------------------------------------------------------------------

(* The fields of queue.c always hold elements or NULL, and a call returns   *)
(* one of the codes that the file defines.                                  *)
THEOREM TypeCorrect == Spec => []TypeOK
  BY Invariance, PTL DEF IInv

(* next and prev stay inverse links after any sequence of queue_append and  *)
(* queue_remove calls, and no head is left on an element that was removed.  *)
THEOREM ListsWellFormed == Spec => []DoublyLinked
  BY Invariance, PTL DEF IInv

(* No sequence of calls makes two queues share an element.                  *)
THEOREM QueuesDisjoint == Spec => []Disjoint
<1>1. IInv => Disjoint
  <2> SUFFICES ASSUME IInv, NEW q1 \in Queues, NEW q2 \in Queues, q1 # q2,
                      head[q1] # NULL, head[q2] # NULL,
                      SearchMeets(head[q1], head[q2])
               PROVE  FALSE
    BY DEF Disjoint
  <2>1. PICK own : Owns(own)
    BY DEF IInv
  <2>2. head[q1] \in Elems /\ head[q2] \in Elems /\ next[head[q1]] # NULL
    BY DEF IInv, TypeOK, DoublyLinked
  <2>3. own[head[q2]] = own[head[q1]]
    BY <2>1, <2>2, SearchStaysInQueue
  <2> QED BY <2>1, <2>3 DEF Owns
<1> QED BY <1>1, Invariance, PTL

-----------------------------------------------------------------------------
(* The refinement: queue.c implements the FIFO queues of QueueFIFO.  What   *)
(* the queues hold is a function c, and the links are those of c.           *)
Holds(c, q, e) == \E i \in 1..Len(c[q]) : c[q][i] = e

Listed(c) ==
  /\ c \in [Queues -> Seq(Elems)]
  /\ \A q \in Queues : head[q] = IF Len(c[q]) = 0 THEN NULL ELSE c[q][1]
  /\ \A q \in Queues : \A i \in 1..Len(c[q]) :
       /\ next[c[q][i]] = c[q][IF i = Len(c[q]) THEN 1 ELSE i + 1]
       /\ prev[c[q][i]] = c[q][IF i = 1 THEN Len(c[q]) ELSE i - 1]
  /\ \A p, q \in Queues : \A i \in 1..Len(c[p]), j \in 1..Len(c[q]) :
       c[p][i] = c[q][j] => p = q /\ i = j
  /\ \A e \in Elems : next[e] # NULL => \E q \in Queues : Holds(c, q, e)

RingInv == IInv /\ \E c : Listed(c)

(* A set of numbers that is not empty has a least element: the least        *)
(* counterexample is how the facts about Walk are proved.                   *)
LEMMA LeastNumber ==
  ASSUME NEW N \in SUBSET Nat, N # {}
  PROVE  \E n \in N : \A m \in N : n <= m
<1> DEFINE R == {p \in Nat \X Nat : p[1] < p[2]}
<1>1. IsWellFoundedOn(R, Nat)
  BY Zenon, NatLessThanWellFounded DEF OpToRel
<1> HIDE DEF R
<1>2. PICK n \in N : \A m \in N : <<m, n>> \notin R
  BY <1>1, WFMin
<1>3. ASSUME NEW m \in N, m < n PROVE FALSE
  <2>1. <<m, n>> \in R
    BY <1>3 DEF R
  <2> QED BY <2>1, <1>2
<1>4. \A m \in N : n \in Nat /\ m \in Nat
  OBVIOUS
<1> QED BY <1>3, <1>4

LEMMA ListTypes ==
  ASSUME NEW c, Listed(c), NEW q \in Queues
  PROVE  /\ c[q] \in Seq(Elems) /\ Len(c[q]) \in Nat /\ DOMAIN c[q] = 1..Len(c[q])
         /\ \A i \in 1..Len(c[q]) : c[q][i] \in Elems
<1>1. c[q] \in Seq(Elems)
  BY DEF Listed
<1> QED BY <1>1, LenProperties, ElementOfSeq

(* The elements of a queue are distinct, so there are not more of them than *)
(* elements.                                                                *)
LEMMA ListFits ==
  ASSUME NEW c, Listed(c), NEW q \in Queues
  PROVE  Len(c[q]) <= Cardinality(Elems) /\ Cardinality(Elems) \in Nat
<1> DEFINE L == Len(c[q])
<1>1. L \in Nat /\ c[q] \in [1..L -> Elems]
  BY ListTypes, LenProperties
<1>2. \A i, j \in 1..L : c[q][i] = c[q][j] => i = j
  BY DEF Listed
<1>3. c[q] \in Injection(1..L, Elems)
  BY <1>1, <1>2 DEF Injection, IsInjective
<1>4. Cardinality(1..L) <= Cardinality(Elems)
  BY <1>3, FS_Injection, QueueAssumption
<1>5. Cardinality(1..L) = L
  BY <1>1, FS_Interval
<1>6. Cardinality(Elems) \in Nat
  BY FS_CardinalityType, QueueAssumption
<1> QED BY <1>4, <1>5, <1>6

(* The search loop of queue_remove meets the head of a queue exactly when   *)
(* the element is in it.                                                    *)
LEMMA SearchFinds ==
  ASSUME RingInv, NEW c, Listed(c), NEW q \in Queues, NEW e \in Elems,
         head[q] # NULL, next[e] # NULL
  PROVE  SearchMeets(e, head[q]) <=> Holds(c, q, e)
<1> DEFINE s == c[q]
           L == Len(s)
<1>1. /\ s \in Seq(Elems) /\ L \in Nat /\ L # 0 /\ head[q] = s[1]
      /\ \A i \in 1..L : s[i] \in Elems
  BY ListTypes DEF Listed
<1>2. ASSUME Holds(c, q, e) PROVE SearchMeets(e, head[q])
  <2>1. PICK k \in 1..L : s[k] = e
    BY <1>2 DEF Holds
  <2>2. \A i, j \in 1..L : s[i] = s[j] => i = j
    BY DEF Listed
  <2>3. \A i \in 1..L : next[s[i]] = s[IF i = L THEN 1 ELSE i + 1]
    BY DEF Listed
  <2> SUFFICES ASSUME NEW S \in SUBSET Elems, next[e] \in S,
                      \A x \in S \ {e} : next[x] \in S, s[1] \notin S
               PROVE  FALSE
    BY <1>1 DEF SearchMeets
  <2> HIDE DEF s, L
  <2> DEFINE N == {n \in Nat : n \in k+1..L /\ s[n] \notin S}
  <2>4. k # L
    BY <1>1, <2>1, <2>3
  <2>5. k + 1 \in 1..L /\ s[k+1] \in S
    BY <1>1, <2>1, <2>3, <2>4
  <2>6. N = {}
    <3> SUFFICES ASSUME N # {} PROVE FALSE
      OBVIOUS
    <3>1. PICK n \in N : \A m \in N : n <= m
      BY LeastNumber, N \in SUBSET Nat
    <3>2. n \in k+1..L /\ s[n] \notin S /\ n # k+1
      BY <3>1, <2>5
    <3>3. n-1 \in k+1..L /\ n-1 \notin N /\ n-1 \in Nat
      BY <3>1, <3>2, <1>1, <2>1
    <3>4. s[n-1] \in S
      BY <3>3
    <3>5. s[n-1] # e /\ next[s[n-1]] = s[n]
      BY <3>2, <3>3, <2>1, <2>2, <2>3, <1>1
    <3> QED BY <3>2, <3>4, <3>5
  <2>7. s[L] \in S
    BY <2>4, <2>6, <2>1, <1>1
  <2>8. s[L] # e /\ next[s[L]] = s[1]
    BY <2>1, <2>2, <2>3, <2>4, <1>1
  <2> QED BY <2>7, <2>8
<1>3. ASSUME SearchMeets(e, head[q]) PROVE Holds(c, q, e)
  <2>1. PICK p \in Queues : Holds(c, p, e)
    BY DEF Listed
  <2>2. PICK k \in 1..Len(c[p]) : c[p][k] = e
    BY <2>1 DEF Holds
  <2>3. Len(c[p]) \in Nat
    BY ListTypes
  <2> DEFINE S == {x \in Elems : Holds(c, p, x)}
  <2>4. ASSUME NEW x \in S PROVE next[x] \in S
    <3>1. PICK i \in 1..Len(c[p]) : c[p][i] = x
      BY DEF Holds
    <3>2. next[x] = c[p][IF i = Len(c[p]) THEN 1 ELSE i + 1]
      BY <3>1 DEF Listed
    <3>3. (IF i = Len(c[p]) THEN 1 ELSE i + 1) \in 1..Len(c[p])
      BY <2>3
    <3> QED BY <3>2, <3>3, ListTypes DEF Holds
  <2>5. next[e] \in S
    BY <2>1, <2>4
  <2>6. head[q] \in S
    BY <1>3, <2>4, <2>5, S \in SUBSET Elems DEF SearchMeets
  <2>7. PICK j \in 1..Len(c[p]) : c[p][j] = s[1]
    BY <2>6, <1>1 DEF Holds
  <2>8. p = q
    BY <2>7, <1>1, 1 \in 1..L DEF Listed
  <2> QED BY <2>1, <2>8
<1> QED BY <1>2, <1>3

-----------------------------------------------------------------------------
(* Walk, the recursion of queue_size, up to its n-th node.                  *)
WalkUpTo(f, q, n) ==
  f = [i \in 1..n |-> IF i = 1 THEN head[q]
                      ELSE IF f[i-1] = NULL THEN NULL ELSE next[f[i-1]]]

LEMMA WalkDefined ==
  ASSUME NEW q \in Queues
  PROVE  WalkUpTo(Walk(q), q, Cardinality(Elems))
<1> DEFINE M == Cardinality(Elems)
           N == {n \in 0..M : ~ \E f : WalkUpTo(f, q, n)}
<1>0. M \in Nat
  BY FS_CardinalityType, QueueAssumption
<1> HIDE DEF M
<1>1. ASSUME N # {} PROVE FALSE
  <2>1. PICK n \in N : \A m \in N : n <= m
    BY <1>0, <1>1, N \in SUBSET Nat, LeastNumber
  <2>2. n \in 0..M
    OBVIOUS
  <2>3. n # 0
    <3>1. WalkUpTo([i \in 1..0 |-> NULL], q, 0)
      BY DEF WalkUpTo
    <3> QED BY <3>1
  <2>4. n-1 \in 0..M /\ n-1 \notin N
    BY <2>1, <2>2, <2>3, <1>0
  <2>5. PICK f : WalkUpTo(f, q, n-1)
    BY <2>4
  <2> DEFINE g == [i \in 1..n |-> IF i < n THEN f[i]
                                  ELSE IF n = 1 THEN head[q]
                                  ELSE IF f[n-1] = NULL THEN NULL ELSE next[f[n-1]]]
  <2>6. \A i \in 1..n-1 : f[i] = IF i = 1 THEN head[q]
                                 ELSE IF f[i-1] = NULL THEN NULL ELSE next[f[i-1]]
    BY Zenon, <2>5 DEF WalkUpTo
  <2>7. \A i \in 1..n : g[i] = IF i = 1 THEN head[q]
                               ELSE IF g[i-1] = NULL THEN NULL ELSE next[g[i-1]]
    BY <2>2, <2>3, <2>6, <1>0
  <2>8. g = [i \in 1..n |-> g[i]]
    OBVIOUS
  <2> HIDE DEF g
  <2>9. WalkUpTo(g, q, n)
    BY <2>7, <2>8 DEF WalkUpTo
  <2> QED BY <2>9
<1>2. \E f : WalkUpTo(f, q, M)
  BY <1>0, <1>1, M \in 0..M
<1>3. Walk(q) = CHOOSE f : WalkUpTo(f, q, M)
  BY DEF Walk, WalkUpTo, M
<1> QED BY <1>2, <1>3 DEF M

(* The walk visits what the queue holds, in its order.                      *)
LEMMA WalkVisits ==
  ASSUME RingInv, NEW c, Listed(c), NEW q \in Queues
  PROVE  \A n \in 1..Len(c[q]) : Walk(q)[n] = c[q][n]
<1> DEFINE M == Cardinality(Elems)
           L == Len(c[q])
           s == c[q]
           w == Walk(q)
           N == {n \in 1..L : w[n] # s[n]}
<1>1. L \in Nat /\ M \in Nat /\ L <= M /\ \A i \in 1..L : s[i] \in Elems
  BY ListTypes, ListFits
<1>2. L # 0 => head[q] = s[1]
  BY DEF Listed
<1>3. \A i \in 1..L : i # L => next[s[i]] = s[i+1]
  BY DEF Listed
<1>4. \A i \in 1..M : w[i] = IF i = 1 THEN head[q]
                             ELSE IF w[i-1] = NULL THEN NULL ELSE next[w[i-1]]
  BY Zenon, WalkDefined DEF WalkUpTo
<1> HIDE DEF M, L, s, w
<1>5. ASSUME N # {} PROVE FALSE
  <2>1. PICK n \in N : \A m \in N : n <= m
    BY <1>1, <1>5, N \in SUBSET Nat, LeastNumber
  <2>2. n \in 1..L /\ w[n] # s[n]
    OBVIOUS
  <2>3. n # 1
    BY <1>1, <1>2, <1>4, <2>2
  <2>4. n-1 \in 1..L /\ n-1 # L /\ n-1 \notin N /\ (n-1)+1 = n
    BY <1>1, <2>1, <2>2, <2>3
  <2>5. w[n-1] = s[n-1] /\ next[s[n-1]] = s[n]
    BY <2>4, <1>3
  <2>6. w[n] = next[w[n-1]]
    BY <1>1, <1>4, <2>2, <2>3, <2>4, <2>5, QueueAssumption
  <2> QED BY <2>2, <2>5, <2>6
<1>6. \A n \in 1..L : w[n] = s[n]
  BY <1>5
<1> QED BY <1>6 DEF L, s, w

(* queue_size returns the number of elements.                               *)
LEMMA SizeCounts ==
  ASSUME RingInv, NEW c, Listed(c), NEW q \in Queues
  PROVE  queue_size(q) = Len(c[q])
<1> DEFINE L == Len(c[q])
           s == c[q]
           w == Walk(q)
           back == {n \in DOMAIN w : w[n] # NULL /\ next[w[n]] = head[q]}
<1>1. L \in Nat /\ L <= Cardinality(Elems) /\ Cardinality(Elems) \in Nat
      /\ \A i \in 1..L : s[i] \in Elems
  BY ListTypes, ListFits
<1>2. head[q] = IF L = 0 THEN NULL ELSE s[1]
  BY DEF Listed
<1>3. \A i \in 1..L : next[s[i]] = s[IF i = L THEN 1 ELSE i + 1]
  BY DEF Listed
<1>4. \A i, j \in 1..L : s[i] = s[j] => i = j
  BY DEF Listed
<1>5. \A n \in 1..L : w[n] = s[n]
  BY WalkVisits
<1>6. DOMAIN w = 1..Cardinality(Elems)
  <2>1. w = [i \in 1..Cardinality(Elems) |-> w[i]]
    BY Zenon, WalkDefined DEF WalkUpTo
  <2> HIDE DEF w
  <2> QED BY <2>1
<1>7. queue_size(q) = CASE head[q] = NULL -> 0
                        [] head[q] # NULL /\ back # {} -> CHOOSE n \in back : \A m \in back : n <= m
                        [] OTHER -> Cardinality(Elems)
  BY Zenon DEF queue_size
<1> HIDE DEF L, s, w
<1>8. CASE L = 0
  BY <1>2, <1>7, <1>8 DEF L
<1>9. CASE L # 0
  <2>1. s[1] \in Elems /\ head[q] = s[1] /\ head[q] # NULL
    BY <1>1, <1>2, <1>9, QueueAssumption
  <2>2. L \in back
    BY <1>1, <1>3, <1>5, <1>6, <1>9, <2>1, QueueAssumption
  <2>3. ASSUME NEW m \in back PROVE L <= m
    <3>1. m \in 1..Cardinality(Elems) /\ next[w[m]] = s[1]
      BY <1>6, <2>1
    <3>2. CASE m < L
      <4>1. m \in 1..L /\ m + 1 \in 1..L /\ m # L
        BY <1>1, <3>1, <3>2
      <4>2. next[w[m]] = s[m+1]
        BY <1>3, <1>5, <4>1
      <4>3. 1 \in 1..L /\ m + 1 # 1
        BY <1>1, <1>9, <4>1
      <4> QED BY <1>4, <3>1, <4>1, <4>2, <4>3
    <3> QED BY <1>1, <3>1, <3>2
  <2>4. \A n \in back : n \in Nat
    BY <1>1, <1>6
  <2> HIDE DEF back
  <2>5. \A n \in back : (\A m \in back : n <= m) => n = L
    BY <2>2, <2>3, <2>4
  <2>6. (CHOOSE n \in back : \A m \in back : n <= m) = L
    BY <2>2, <2>3, <2>5
  <2> QED BY <1>7, <2>1, <2>2, <2>6 DEF L
<1> QED BY <1>8, <1>9

(* So the contents of the refinement mapping are what the queues hold.      *)
Contents == [q \in Queues |-> [i \in 1..queue_size(q) |-> Walk(q)[i]]]

LEMMA ContentsHeld ==
  \A c : RingInv /\ Listed(c) => Contents = c
<1> SUFFICES ASSUME NEW c, RingInv, Listed(c) PROVE Contents = c
  OBVIOUS
<1>1. ASSUME NEW q \in Queues PROVE [i \in 1..queue_size(q) |-> Walk(q)[i]] = c[q]
  <2>1. queue_size(q) = Len(c[q])
    BY SizeCounts
  <2>2. \A i \in 1..Len(c[q]) : Walk(q)[i] = c[q][i]
    BY WalkVisits
  <2>3. c[q] = [i \in 1..Len(c[q]) |-> c[q][i]]
    BY ListTypes
  <2> QED BY <2>1, <2>2, <2>3
<1>2. c = [q \in Queues |-> c[q]]
  BY DEF Listed
<1> QED BY <1>1, <1>2 DEF Contents

-----------------------------------------------------------------------------
(* The links after an accepted queue_append are those of the longer queue.  *)
LEMMA AppendLists ==
  ASSUME RingInv, NEW c, Listed(c), NEW q \in Queues, NEW e \in Elems, Unlinked(e),
         \/ head[q] = NULL /\ LinkFirst(q, e)
         \/ head[q] # NULL /\ LinkLast(q, e)
  PROVE  Listed([c EXCEPT ![q] = Append(@, e)])'
<1> DEFINE L == Len(c[q])
           d == [c EXCEPT ![q] = Append(@, e)]
<1>0. QueueAssumption /\ TypeOK /\ DoublyLinked
  BY QueueAssumption DEF RingInv, IInv
<1>1. \A p \in Queues : /\ Len(c[p]) \in Nat /\ c[p] \in Seq(Elems)
                        /\ \A i \in 1..Len(c[p]) : c[p][i] \in Elems
  BY ListTypes
<1>2. /\ \A p \in Queues : head[p] = IF Len(c[p]) = 0 THEN NULL ELSE c[p][1]
      /\ \A p \in Queues : \A i \in 1..Len(c[p]) :
           /\ next[c[p][i]] = c[p][IF i = Len(c[p]) THEN 1 ELSE i + 1]
           /\ prev[c[p][i]] = c[p][IF i = 1 THEN Len(c[p]) ELSE i - 1]
      /\ \A p, r \in Queues : \A i \in 1..Len(c[p]), j \in 1..Len(c[r]) :
           c[p][i] = c[r][j] => p = r /\ i = j
      /\ \A x \in Elems : next[x] # NULL => \E p \in Queues : \E i \in 1..Len(c[p]) : c[p][i] = x
      /\ c \in [Queues -> Seq(Elems)]
  BY DEF Listed, Holds
<1>3. /\ d \in [Queues -> Seq(Elems)] /\ Len(d[q]) = L + 1 /\ d[q][L+1] = e
      /\ \A i \in 1..L : d[q][i] = c[q][i]
      /\ \A p \in Queues : p # q => d[p] = c[p]
  BY <1>1, <1>2, AppendProperties
<1>4. \A p \in Queues : \A i \in 1..Len(c[p]) : c[p][i] # e
  <2> SUFFICES ASSUME NEW p \in Queues, NEW i \in 1..Len(c[p]), c[p][i] = e PROVE FALSE
    OBVIOUS
  <2>1. (IF i = Len(c[p]) THEN 1 ELSE i + 1) \in 1..Len(c[p])
    BY <1>1
  <2>2. next[e] \in Elems
    BY <2>1, <1>1, <1>2
  <2> QED BY <2>2, <1>0 DEF Unlinked, QueueAssumption
<1> HIDE DEF d, L
<1>5. /\ L \in Nat /\ L = Len(c[q])
      /\ head' = [head EXCEPT ![q] = IF L = 0 THEN e ELSE @]
      /\ L = 0 => next' = [next EXCEPT ![e] = e] /\ prev' = [prev EXCEPT ![e] = e]
      /\ L # 0 => /\ next' = [next EXCEPT ![c[q][L]] = e, ![e] = c[q][1]]
                  /\ prev' = [prev EXCEPT ![c[q][1]] = e, ![e] = c[q][L]]
  <2>1. L # 0 => 1 \in 1..L /\ L \in 1..L /\ c[q][1] \in Elems
    BY <1>1 DEF L
  <2>2. L # 0 => head[q] = c[q][1] /\ head[q] # NULL /\ prev[head[q]] = c[q][L]
    BY <2>1, <1>0, <1>2 DEF L, QueueAssumption
  <2>3. L = 0 => head[q] = NULL
    BY <1>2 DEF L
  <2>4. head \in [Queues -> Elems \cup {NULL}]
    BY <1>0 DEF TypeOK
  <2> QED BY <2>1, <2>2, <2>3, <2>4, <1>1 DEF L, LinkFirst, LinkLast
<1>6. \A p \in Queues : head'[p] = IF Len(d[p]) = 0 THEN NULL ELSE d[p][1]
  BY <1>0, <1>1, <1>2, <1>3, <1>5 DEF TypeOK
<1>7. ASSUME NEW p \in Queues, NEW i \in 1..Len(d[p])
      PROVE  /\ next'[d[p][i]] = d[p][IF i = Len(d[p]) THEN 1 ELSE i + 1]
             /\ prev'[d[p][i]] = d[p][IF i = 1 THEN Len(d[p]) ELSE i - 1]
  <2>1. /\ next \in [Elems -> Elems \cup {NULL}] /\ prev \in [Elems -> Elems \cup {NULL}]
    BY <1>0 DEF TypeOK
  <2>2. CASE p # q
    <3>1. d[p] = c[p] /\ c[p][i] \in Elems /\ c[p][i] # e
      BY <1>1, <1>3, <1>4, <2>2
    <3>2. L # 0 => c[p][i] # c[q][1] /\ c[p][i] # c[q][L]
      <4>1. i \in 1..Len(c[p]) /\ (L # 0 => 1 \in 1..L /\ L \in 1..L)
        BY <1>3, <1>5, <2>2
      <4> QED BY <4>1, <1>2, <1>5, <2>2
    <3> QED BY <2>1, <3>1, <3>2, <1>2, <1>5
  <2>3. CASE p = q /\ i = L + 1
    BY <2>1, <2>3, <1>1, <1>3, <1>4, <1>5
  <2>4. CASE p = q /\ i # L + 1
    <3>1. i \in 1..L /\ L # 0 /\ d[q][i] = c[q][i] /\ c[q][i] \in Elems /\ c[q][i] # e
      BY <1>1, <1>3, <1>4, <1>5, <2>4
    <3>2. 1 \in 1..L /\ L \in 1..L
      BY <3>1, <1>5
    <3>3. (c[q][i] = c[q][1] <=> i = 1) /\ (c[q][i] = c[q][L] <=> i = L)
      BY <3>1, <3>2, <1>2, <1>5
    <3>4. next'[c[q][i]] = IF i = L THEN e ELSE next[c[q][i]]
      BY <2>1, <3>1, <3>3, <1>5
    <3>5. prev'[c[q][i]] = IF i = 1 THEN e ELSE prev[c[q][i]]
      BY <2>1, <3>1, <3>3, <1>5
    <3>6. next[c[q][i]] = c[q][IF i = L THEN 1 ELSE i + 1] /\ prev[c[q][i]] = c[q][IF i = 1 THEN L ELSE i - 1]
      BY <3>1, <1>2, <1>5
    <3>7. i # L => i + 1 \in 1..L
      BY <3>1, <1>5
    <3>8. i # 1 => i - 1 \in 1..L
      BY <3>1, <1>5
    <3> QED BY <2>4, <3>1, <3>4, <3>5, <3>6, <3>7, <3>8, <1>3, <1>5
  <2> QED BY <2>2, <2>3, <2>4
<1>8. ASSUME NEW p \in Queues, NEW r \in Queues, NEW i \in 1..Len(d[p]), NEW j \in 1..Len(d[r]),
             d[p][i] = d[r][j]
      PROVE  p = r /\ i = j
  <2>1. \A u \in Queues : \A k \in 1..Len(d[u]) :
          \/ k \in 1..Len(c[u]) /\ d[u][k] = c[u][k]
          \/ u = q /\ k = L + 1 /\ d[u][k] = e
    BY <1>1, <1>3, <1>5
  <2>2. \/ i \in 1..Len(c[p]) /\ d[p][i] = c[p][i]
        \/ p = q /\ i = L + 1 /\ d[p][i] = e
    BY <2>1
  <2>3. \/ j \in 1..Len(c[r]) /\ d[r][j] = c[r][j]
        \/ r = q /\ j = L + 1 /\ d[r][j] = e
    BY <2>1
  <2> QED BY <2>2, <2>3, <1>2, <1>4, <1>8
<1>9. ASSUME NEW x \in Elems, next'[x] # NULL
      PROVE  \E p \in Queues : \E i \in 1..Len(d[p]) : d[p][i] = x
  <2>1. CASE x = e
    BY <2>1, <1>3, <1>5, L + 1 \in 1..L+1
  <2>2. CASE x # e
    <3>1. \E p \in Queues : \E i \in 1..Len(c[p]) : c[p][i] = x
      <4>1. CASE L # 0 /\ x = c[q][L]
        BY <4>1, <1>5, L \in 1..L
      <4>2. CASE ~(L # 0 /\ x = c[q][L])
        BY <4>2, <2>2, <1>0, <1>2, <1>5, <1>9 DEF TypeOK
      <4> QED BY <4>1, <4>2
    <3>2. PICK p \in Queues : \E i \in 1..Len(c[p]) : c[p][i] = x
      BY <3>1
    <3>3. PICK i \in 1..Len(c[p]) : c[p][i] = x
      BY <3>2
    <3>4. i \in 1..Len(d[p]) /\ d[p][i] = x
      BY <3>3, <1>1, <1>3, <1>5
    <3> QED BY <3>4
  <2> QED BY <2>1, <2>2
<1>10. Listed(d)'
  BY <1>3, <1>6, <1>7, <1>8, <1>9 DEF Listed, Holds
<1> QED BY <1>10 DEF d

(* RemoveAt: what stood behind the position moves up by one.                *)
LEMMA RemovedAt ==
  ASSUME NEW S, NEW s \in Seq(S), NEW k \in 1..Len(s)
  PROVE  /\ FIFO!RemoveAt(s, k) \in Seq(S)
         /\ Len(FIFO!RemoveAt(s, k)) = Len(s) - 1
         /\ \A i \in 1..Len(s)-1 : FIFO!RemoveAt(s, k)[i] = IF i < k THEN s[i] ELSE s[i+1]
<1> DEFINE f == SubSeq(s, 1, k-1)
           r == SubSeq(s, k+1, Len(s))
<1>0. Len(s) \in Nat /\ \A i \in 1..Len(s) : s[i] \in S
  BY LenProperties, ElementOfSeq
<1>1. f \in Seq(S) /\ Len(f) = k - 1 /\ \A i \in 1..k-1 : f[i] = s[i]
  BY <1>0, SubSeqProperties
<1>2. r \in Seq(S) /\ Len(r) = Len(s) - k /\ \A i \in 1..Len(s)-k : r[i] = s[k+i]
  <2>1. \A i \in k+1..Len(s) : s[i] \in S
    BY <1>0
  <2>2. /\ r \in Seq(S) /\ Len(r) = IF k+1 <= Len(s) THEN Len(s)-(k+1)+1 ELSE 0
        /\ \A i \in 1..Len(s)-(k+1)+1 : r[i] = s[k+1+i-1]
    BY <1>0, <2>1, SubSeqProperties
  <2> QED BY <1>0, <2>2
<1> HIDE DEF f, r
<1> DEFINE w == f \o r
<1>3. /\ w \in Seq(S) /\ Len(w) = Len(f) + Len(r)
      /\ \A i \in 1..Len(f)+Len(r) : w[i] = IF i <= Len(f) THEN f[i] ELSE r[i - Len(f)]
  BY <1>1, <1>2, ConcatProperties
<1>4. FIFO!RemoveAt(s, k) = w
  BY DEF FIFO!RemoveAt, f, r
<1> HIDE DEF w
<1>5. ASSUME NEW i \in 1..Len(s)-1 PROVE w[i] = IF i < k THEN s[i] ELSE s[i+1]
  <2>1. w[i] = IF i <= k-1 THEN f[i] ELSE r[i - (k-1)]
    BY <1>0, <1>1, <1>2, <1>3
  <2>2. CASE i < k
    BY <2>1, <2>2, <1>0, <1>1
  <2>3. CASE i >= k
    <3>1. i - (k-1) \in 1..Len(s)-k /\ k + (i - (k-1)) = i + 1
      BY <2>3, <1>0
    <3>2. r[i - (k-1)] = s[i+1]
      BY <3>1, <1>2
    <3> QED BY <2>1, <2>3, <3>2, <1>0
  <2> QED BY <2>2, <2>3, <1>0
<1> QED BY <1>0, <1>1, <1>2, <1>3, <1>4, <1>5

(* The links after an accepted queue_remove are those of the shorter queue. *)
LEMMA RemoveLists ==
  ASSUME RingInv, NEW c, Listed(c), NEW q \in Queues, NEW e \in Elems,
         NEW k \in 1..Len(c[q]), c[q][k] = e,
         \/ next[e] = e /\ UnlinkOnly(q, e)
         \/ next[e] # e /\ Unlink(q, e)
  PROVE  Listed([c EXCEPT ![q] = FIFO!RemoveAt(@, k)])'
<1> DEFINE L == Len(c[q])
           d == [c EXCEPT ![q] = FIFO!RemoveAt(@, k)]
           old(i) == IF i < k THEN i ELSE i + 1
           before == IF k = 1 THEN L ELSE k - 1
           after == IF k = L THEN 1 ELSE k + 1
<1>0. TypeOK /\ NULL \notin Elems
  BY QueueAssumption DEF RingInv, IInv
<1>1. \A p \in Queues : /\ Len(c[p]) \in Nat /\ c[p] \in Seq(Elems)
                        /\ \A i \in 1..Len(c[p]) : c[p][i] \in Elems
  BY ListTypes
<1>2. /\ \A p \in Queues : head[p] = IF Len(c[p]) = 0 THEN NULL ELSE c[p][1]
      /\ \A p \in Queues : \A i \in 1..Len(c[p]) :
           /\ next[c[p][i]] = c[p][IF i = Len(c[p]) THEN 1 ELSE i + 1]
           /\ prev[c[p][i]] = c[p][IF i = 1 THEN Len(c[p]) ELSE i - 1]
      /\ \A p, r \in Queues : \A i \in 1..Len(c[p]), j \in 1..Len(c[r]) :
           c[p][i] = c[r][j] => p = r /\ i = j
      /\ \A x \in Elems : next[x] # NULL => \E p \in Queues : \E i \in 1..Len(c[p]) : c[p][i] = x
      /\ c \in [Queues -> Seq(Elems)]
  BY DEF Listed, Holds
<1>3. /\ d \in [Queues -> Seq(Elems)] /\ Len(d[q]) = L - 1
      /\ \A i \in 1..L-1 : d[q][i] = c[q][old(i)]
      /\ \A p \in Queues : p # q => d[p] = c[p]
  <2> DEFINE w == FIFO!RemoveAt(c[q], k)
  <2>1. w \in Seq(Elems) /\ Len(w) = L - 1 /\ \A i \in 1..L-1 : w[i] = IF i < k THEN c[q][i] ELSE c[q][i+1]
    BY <1>1, RemovedAt
  <2> HIDE DEF w
  <2>2. d = [c EXCEPT ![q] = w]
    BY DEF w
  <2> HIDE DEF d
  <2>3. d \in [Queues -> Seq(Elems)] /\ d[q] = w /\ \A p \in Queues : p # q => d[p] = c[p]
    BY <2>1, <2>2, <1>2
  <2> QED BY <2>1, <2>3
<1> HIDE DEF d
<1>4. L \in Nat /\ k \in 1..L /\ 1 \in 1..L /\ before \in 1..L /\ after \in 1..L
  BY <1>1
<1>5. \A i \in 1..L-1 : old(i) \in 1..L /\ old(i) # k
  BY <1>4
<1>6. next[e] = c[q][after] /\ prev[e] = c[q][before] /\ head[q] = c[q][1] /\ head[q] # NULL
  BY <1>0, <1>1, <1>2, <1>4
<1> DEFINE succ == IF L = 1 THEN NULL ELSE c[q][after]
           pred == IF L = 1 THEN NULL ELSE c[q][before]
<1>7. next[e] = e <=> L = 1
  <2>1. c[q][after] = c[q][k] <=> after = k
    BY <1>2, <1>4
  <2>2. after = k <=> L = 1
    <3> HIDE DEF L
    <3>1. L \in Nat /\ k \in 1..L
      BY <1>4
    <3>2. CASE k = L
      BY <3>1, <3>2
    <3>3. CASE k # L
      BY <3>1, <3>3
    <3> QED BY <3>2, <3>3
  <2> QED BY <2>1, <2>2, <1>6
<1>8. head' = [head EXCEPT ![q] = IF L = 1 THEN NULL ELSE IF k = 1 THEN c[q][2] ELSE c[q][1]]
  <2>1. CASE L = 1
    BY <2>1, <1>7 DEF UnlinkOnly, Unlink
  <2>2. CASE L # 1
    <3>1. e = head[q] <=> k = 1
      BY <1>2, <1>4, <1>6
    <3>2. k = 1 => after = 2
      BY <2>2, <1>4
    <3> QED BY <2>2, <3>1, <3>2, <1>0, <1>6, <1>7 DEF UnlinkOnly, Unlink, TypeOK
  <2> QED BY <2>1, <2>2
<1>9. /\ next' = [next EXCEPT ![c[q][before]] = succ, ![e] = NULL]
      /\ prev' = [prev EXCEPT ![c[q][after]] = pred, ![e] = NULL]
  <2>1. CASE L = 1
    <3>1. c[q][before] = e /\ c[q][after] = e
      BY <2>1, <1>4
    <3> QED BY <2>1, <3>1, <1>0, <1>7 DEF UnlinkOnly, Unlink, TypeOK
  <2>2. CASE L # 1
    BY <2>2, <1>6, <1>7 DEF UnlinkOnly, Unlink
  <2> QED BY <2>1, <2>2
<1> HIDE DEF succ, pred
<1>10. \A p \in Queues : head'[p] = IF Len(d[p]) = 0 THEN NULL ELSE d[p][1]
  <2>1. L # 1 => 1 \in 1..L-1 /\ d[q][1] = c[q][IF k = 1 THEN 2 ELSE 1]
    <3>0. L # 1 => 1 \in 1..L-1
      <4> HIDE DEF L
      <4> QED BY <1>4
    <3>1. L # 1 => 1 \in 1..L-1 /\ d[q][1] = c[q][old(1)]
      <4> HIDE DEF old
      <4> QED BY <1>3, <3>0
    <3>2. old(1) = IF k = 1 THEN 2 ELSE 1
      BY <1>4
    <3> QED BY <3>1, <3>2
  <2> QED BY <2>1, <1>0, <1>2, <1>3, <1>4, <1>8 DEF TypeOK
<1>11. \A x \in Elems : /\ next'[x] = IF x = e THEN NULL ELSE IF x = c[q][before] THEN succ ELSE next[x]
                        /\ prev'[x] = IF x = e THEN NULL ELSE IF x = c[q][after] THEN pred ELSE prev[x]
  BY <1>0, <1>9 DEF TypeOK
<1>12. ASSUME NEW p \in Queues, NEW i \in 1..Len(d[p])
       PROVE  /\ next'[d[p][i]] = d[p][IF i = Len(d[p]) THEN 1 ELSE i + 1]
              /\ prev'[d[p][i]] = d[p][IF i = 1 THEN Len(d[p]) ELSE i - 1]
  <2>1. CASE p # q
    <3>1. d[p] = c[p] /\ i \in 1..Len(c[p]) /\ c[p][i] \in Elems
      BY <1>1, <1>3, <2>1
    <3>2. c[p][i] # e /\ c[p][i] # c[q][before] /\ c[p][i] # c[q][after]
      BY <1>2, <1>4, <2>1, <3>1
    <3>3. next'[c[p][i]] = next[c[p][i]] /\ prev'[c[p][i]] = prev[c[p][i]]
      BY <3>1, <3>2, <1>11
    <3>4. /\ next[c[p][i]] = c[p][IF i = Len(c[p]) THEN 1 ELSE i + 1]
          /\ prev[c[p][i]] = c[p][IF i = 1 THEN Len(c[p]) ELSE i - 1]
      BY <3>1, <1>2
    <3> QED BY <3>1, <3>3, <3>4
  <2>2. CASE p = q
    <3>1. i \in 1..L-1 /\ L # 1 /\ d[q][i] = c[q][old(i)] /\ c[q][old(i)] \in Elems
      BY <2>2, <1>1, <1>3, <1>4, <1>5
    <3>2. /\ c[q][old(i)] # e
          /\ c[q][old(i)] = c[q][before] <=> old(i) = before
          /\ c[q][old(i)] = c[q][after] <=> old(i) = after
      <4>1. \A o, u \in 1..L : c[q][o] = c[q][u] => o = u
        BY <1>2
      <4>2. old(i) \in 1..L /\ old(i) # k
        BY <1>5, <3>1
      <4> HIDE DEF old, before, after
      <4> QED BY <4>1, <4>2, <1>4
    <3>3. /\ next[c[q][old(i)]] = c[q][IF old(i) = L THEN 1 ELSE old(i) + 1]
          /\ prev[c[q][old(i)]] = c[q][IF old(i) = 1 THEN L ELSE old(i) - 1]
      <4>1. \A o \in 1..L : /\ next[c[q][o]] = c[q][IF o = L THEN 1 ELSE o + 1]
                             /\ prev[c[q][o]] = c[q][IF o = 1 THEN L ELSE o - 1]
        BY <1>2
      <4>2. old(i) \in 1..L
        BY <1>5, <3>1
      <4> HIDE DEF old
      <4> QED BY <4>1, <4>2
    <3> DEFINE m == IF i = L - 1 THEN 1 ELSE i + 1
               n == IF i = 1 THEN L - 1 ELSE i - 1
    <3>4. /\ m \in 1..L-1 /\ n \in 1..L-1
          /\ old(m) = IF old(i) = before THEN after ELSE IF old(i) = L THEN 1 ELSE old(i) + 1
          /\ old(n) = IF old(i) = after THEN before ELSE IF old(i) = 1 THEN L ELSE old(i) - 1
      BY <1>4, <3>1
    <3>5. d[q][m] = c[q][old(m)] /\ d[q][n] = c[q][old(n)]
      BY <1>3, <3>4
    <3> HIDE DEF m, n, old, before, after
    <3>6. next'[c[q][old(i)]] = c[q][old(m)] /\ prev'[c[q][old(i)]] = c[q][old(n)]
      BY <1>11, <3>1, <3>2, <3>3, <3>4 DEF succ, pred
    <3>7. next'[d[q][i]] = d[q][m] /\ prev'[d[q][i]] = d[q][n]
      BY <3>1, <3>5, <3>6
    <3> QED BY <2>2, <3>7, <1>3 DEF m, n
  <2> QED BY <2>1, <2>2
<1>13. \A u \in Queues : \A i \in 1..Len(d[u]) :
         \/ u # q /\ i \in 1..Len(c[u]) /\ d[u][i] = c[u][i]
         \/ u = q /\ i \in 1..L-1 /\ old(i) \in 1..L /\ d[u][i] = c[u][old(i)]
  BY <1>3, <1>4, <1>5
<1>14. ASSUME NEW p \in Queues, NEW r \in Queues, NEW i \in 1..Len(d[p]), NEW j \in 1..Len(d[r]),
              d[p][i] = d[r][j]
       PROVE  p = r /\ i = j
  <2>1. \/ p # q /\ i \in 1..Len(c[p]) /\ d[p][i] = c[p][i]
        \/ p = q /\ i \in 1..L-1 /\ old(i) \in 1..L /\ d[p][i] = c[p][old(i)]
    BY <1>13
  <2>2. \/ r # q /\ j \in 1..Len(c[r]) /\ d[r][j] = c[r][j]
        \/ r = q /\ j \in 1..L-1 /\ old(j) \in 1..L /\ d[r][j] = c[r][old(j)]
    BY <1>13
  <2>3. p = q /\ r = q /\ old(i) = old(j) => i = j
    BY <1>4, <2>1, <2>2
  <2> HIDE DEF old
  <2> QED BY <2>1, <2>2, <2>3, <1>2, <1>14
<1>15. ASSUME NEW x \in Elems, next'[x] # NULL
       PROVE  \E p \in Queues : \E i \in 1..Len(d[p]) : d[p][i] = x
  <2>1. x # e
    BY <1>11, <1>15
  <2>2. \E p \in Queues : \E i \in 1..Len(c[p]) : c[p][i] = x
    <3>1. CASE x = c[q][before]
      BY <3>1, <1>4
    <3>2. CASE x # c[q][before]
      BY <3>2, <2>1, <1>2, <1>11, <1>15
    <3> QED BY <3>1, <3>2
  <2>3. PICK p \in Queues : \E i \in 1..Len(c[p]) : c[p][i] = x
    BY <2>2
  <2>4. PICK i \in 1..Len(c[p]) : c[p][i] = x
    BY <2>3
  <2>5. CASE p # q
    BY <2>4, <2>5, <1>3
  <2>6. CASE p = q
    <3> DEFINE j == IF i < k THEN i ELSE i - 1
    <3>1. i # k
      BY <2>1, <2>4, <2>6
    <3>2. j \in 1..L-1 /\ old(j) = i
      BY <2>6, <3>1, <1>4
    <3>3. d[q][j] = x
      BY <2>4, <2>6, <3>2, <1>3
    <3> QED BY <2>6, <3>2, <3>3, <1>3
  <2> QED BY <2>5, <2>6
<1>16. Listed(d)'
  BY <1>3, <1>10, <1>12, <1>14, <1>15 DEF Listed, Holds
<1> QED BY <1>16 DEF d

-----------------------------------------------------------------------------
(* A queued element of the abstract specification is a linked one.          *)
LEMMA QueuedLinked ==
  ASSUME RingInv, NEW c, Listed(c), NEW e \in Elems
  PROVE  /\ next[e] # NULL <=> \E q \in Queues : Holds(c, q, e)
         /\ next[e] = NULL <=> prev[e] = NULL
<1>1. \A q \in Queues : Holds(c, q, e) => next[e] # NULL
  <2> SUFFICES ASSUME NEW q \in Queues, NEW i \in 1..Len(c[q]), c[q][i] = e PROVE next[e] # NULL
    BY DEF Holds
  <2>1. next[e] = c[q][IF i = Len(c[q]) THEN 1 ELSE i + 1]
    BY DEF Listed
  <2>2. (IF i = Len(c[q]) THEN 1 ELSE i + 1) \in 1..Len(c[q])
    BY ListTypes
  <2> QED BY <2>1, <2>2, ListTypes, QueueAssumption
<1> QED BY <1>1 DEF Listed, RingInv, IInv, DoublyLinked

LEMMA HeadOfList ==
  ASSUME NEW c, Listed(c), NEW q \in Queues
  PROVE  /\ head[q] = NULL <=> c[q] = << >>
         /\ c[q] = << >> => \A e : ~Holds(c, q, e)
<1>1. c[q] \in Seq(Elems) /\ Len(c[q]) \in Nat /\ \A i \in 1..Len(c[q]) : c[q][i] \in Elems
  BY ListTypes
<1>2. head[q] = IF Len(c[q]) = 0 THEN NULL ELSE c[q][1]
  BY DEF Listed
<1>3. Len(c[q]) = 0 <=> c[q] = << >>
  BY <1>1, EmptySeq
<1> QED BY <1>1, <1>2, <1>3, QueueAssumption DEF Holds

LEMMA ContentsHeldNext == \A c : RingInv' /\ Listed(c)' => Contents' = c
<1>1. (\A c : RingInv /\ Listed(c) => Contents = c)'
  BY ContentsHeld, PTL
<1> QED BY <1>1

(* A call that changes no link leaves what the queues hold as it is.        *)
LEMMA UnchangedLists ==
  ASSUME NEW c, Listed(c), UNCHANGED <<head, next, prev>>
  PROVE  Listed(c)'
BY DEF Listed, Holds

LEMMA AppendRefines ==
  ASSUME RingInv, NEW q \in Queues \cup {NULL}, NEW e \in Elems \cup {NULL}, queue_append(q, e)
  PROVE  RingInv' /\ FIFO!Insert(q, e)
<1>1. PICK c : Listed(c)
  BY DEF RingInv
<1>2. IInv'
  BY AppendInv DEF RingInv
<1>3. Contents = c
  BY <1>1, ContentsHeld
<1>4. ASSUME NEW d, Listed(d)' PROVE RingInv' /\ Contents' = d
  <2>1. RingInv'
    BY <1>2, <1>4 DEF RingInv
  <2> QED BY <1>4, <2>1, ContentsHeldNext
<1>5. FIFO!Insert(q, e) <=>
        \/ q = NULL /\ ret' = NO_QUEUE /\ Contents' = Contents
        \/ q # NULL /\ e = NULL /\ ret' = NO_ELEM /\ Contents' = Contents
        \/ /\ q # NULL /\ e # NULL /\ \E p \in Queues : Holds(Contents, p, e)
           /\ ret' = BELONGS_TO_ANOTHER_QUEUE /\ Contents' = Contents
        \/ /\ q # NULL /\ e # NULL /\ ~ \E p \in Queues : Holds(Contents, p, e)
           /\ Contents' = [Contents EXCEPT ![q] = Append(@, e)] /\ ret' = SUCESS
  BY Zenon DEF FIFO!Insert, FIFO!Reject, FIFO!Queued, FIFO!Contains, Contents, Holds,
     FIFO!NO_QUEUE, FIFO!NO_ELEM, FIFO!BELONGS_TO_ANOTHER_QUEUE, FIFO!SUCESS,
     NO_QUEUE, NO_ELEM, BELONGS_TO_ANOTHER_QUEUE, SUCESS
<1>6. CASE q = NULL \/ e = NULL \/ ~Unlinked(e)
  <2>1. Listed(c)'
    BY <1>1, <1>6, UnchangedLists DEF queue_append, Reject
  <2>2. RingInv' /\ Contents' = Contents
    BY <1>3, <1>4, <2>1
  <2>3. CASE q = NULL \/ e = NULL
    BY <1>5, <2>2, <2>3 DEF queue_append, Reject
  <2>4. CASE q # NULL /\ e # NULL /\ ~Unlinked(e)
    <3>1. \E p \in Queues : Holds(Contents, p, e)
      BY <1>1, <1>3, <2>4, QueuedLinked DEF Unlinked
    <3> QED BY <1>5, <2>2, <2>4, <3>1 DEF queue_append, Reject
  <2> QED BY <1>6, <2>3, <2>4
<1>7. CASE q # NULL /\ e # NULL /\ Unlinked(e)
  <2>0. /\ ret' = SUCESS
        /\ \/ head[q] = NULL /\ LinkFirst(q, e)
           \/ head[q] # NULL /\ LinkLast(q, e)
    BY <1>7 DEF queue_append
  <2>1. q \in Queues /\ e \in Elems
    BY <1>7
  <2>2. Listed([c EXCEPT ![q] = Append(@, e)])'
    BY <1>1, <1>7, <2>0, <2>1, AppendLists
  <2>3. RingInv' /\ Contents' = [c EXCEPT ![q] = Append(@, e)]
    BY <1>4, <2>2
  <2>4. ~ \E p \in Queues : Holds(Contents, p, e)
    BY <1>1, <1>3, <1>7, <2>1, QueuedLinked DEF Unlinked
  <2> QED BY <1>3, <1>5, <1>7, <2>0, <2>3, <2>4
<1> QED BY <1>6, <1>7

LEMMA RemoveRefines ==
  ASSUME RingInv, NEW q \in Queues \cup {NULL}, NEW e \in Elems \cup {NULL}, queue_remove(q, e)
  PROVE  RingInv' /\ FIFO!Delete(q, e)
<1>1. PICK c : Listed(c)
  BY DEF RingInv
<1>2. IInv'
  BY RemoveInv DEF RingInv
<1>3. Contents = c
  BY <1>1, ContentsHeld
<1>4. ASSUME NEW d, Listed(d)' PROVE RingInv' /\ Contents' = d
  <2>1. RingInv'
    BY <1>2, <1>4 DEF RingInv
  <2> QED BY <1>4, <2>1, ContentsHeldNext
<1>5. FIFO!Delete(q, e) <=>
        \/ q = NULL /\ ret' = NO_QUEUE /\ Contents' = Contents
        \/ q # NULL /\ e = NULL /\ ret' = NO_ELEM /\ Contents' = Contents
        \/ /\ q # NULL /\ e # NULL
           /\ \/ Contents[q] = << >> /\ ret' = EMPTY_QUEUE /\ Contents' = Contents
              \/ /\ Contents[q] # << >> /\ ~ \E p \in Queues : Holds(Contents, p, e)
                 /\ ret' = NOT_ON_QUEUE /\ Contents' = Contents
              \/ /\ Contents[q] # << >> /\ \E p \in Queues : Holds(Contents, p, e)
                 /\ ~Holds(Contents, q, e)
                 /\ ret' = BELONGS_TO_ANOTHER_QUEUE /\ Contents' = Contents
              \/ /\ \E i \in DOMAIN Contents[q] :
                      /\ Contents[q][i] = e
                      /\ Contents' = [Contents EXCEPT ![q] = FIFO!RemoveAt(@, i)]
                 /\ ret' = SUCESS
  BY Zenon DEF FIFO!Delete, FIFO!Reject, FIFO!Queued, FIFO!Contains, Contents, Holds,
     FIFO!NO_QUEUE, FIFO!NO_ELEM, FIFO!EMPTY_QUEUE, FIFO!NOT_ON_QUEUE,
     FIFO!BELONGS_TO_ANOTHER_QUEUE, FIFO!SUCESS,
     NO_QUEUE, NO_ELEM, EMPTY_QUEUE, NOT_ON_QUEUE, BELONGS_TO_ANOTHER_QUEUE, SUCESS
<1>6. CASE q = NULL \/ e = NULL
  <2>1. Listed(c)'
    BY <1>1, <1>6, UnchangedLists DEF queue_remove, Reject
  <2>2. RingInv' /\ Contents' = Contents
    BY <1>3, <1>4, <2>1
  <2> QED BY <1>5, <1>6, <2>2 DEF queue_remove, Reject
<1>7. CASE q \in Queues /\ e \in Elems
  <2>0. q # NULL /\ e # NULL
    BY <1>7, QueueAssumption
  <2>1. /\ head[q] = NULL <=> c[q] = << >>
        /\ c[q] = << >> => ~Holds(c, q, e)
        /\ next[e] # NULL <=> \E p \in Queues : Holds(c, p, e)
        /\ next[e] = NULL <=> prev[e] = NULL
    BY <1>1, <1>7, HeadOfList, QueuedLinked
  <2>2. head[q] # NULL /\ next[e] # NULL => (SearchMeets(e, head[q]) <=> Holds(c, q, e))
    BY <1>1, <1>7, SearchFinds
  <2>3. CASE ~Holds(c, q, e)
    <3>1. UNCHANGED <<head, next, prev>>
      BY <2>0, <2>1, <2>2, <2>3 DEF queue_remove, Reject
    <3>2. RingInv' /\ Contents' = Contents
      BY <1>1, <1>3, <1>4, <3>1, UnchangedLists
    <3> QED BY <1>3, <1>5, <2>0, <2>1, <2>2, <2>3, <3>2 DEF queue_remove, Reject
  <2>4. CASE Holds(c, q, e)
    <3>1. PICK k \in 1..Len(c[q]) : c[q][k] = e
      BY <2>4 DEF Holds
    <3>2. head[q] # NULL /\ next[e] # NULL /\ prev[e] # NULL /\ SearchMeets(e, head[q])
      BY <1>7, <2>1, <2>2, <2>4
    <3>3. /\ ret' = SUCESS
          /\ \/ next[e] = e /\ UnlinkOnly(q, e)
             \/ next[e] # e /\ Unlink(q, e)
      BY <2>0, <3>2 DEF queue_remove
    <3>4. Listed([c EXCEPT ![q] = FIFO!RemoveAt(@, k)])'
      BY <1>1, <1>7, <3>1, <3>3, RemoveLists
    <3>5. RingInv' /\ Contents' = [c EXCEPT ![q] = FIFO!RemoveAt(@, k)]
      BY <1>4, <3>4
    <3>6. k \in DOMAIN c[q]
      BY <1>1, <1>7, ListTypes
    <3> QED BY <1>3, <1>5, <2>0, <3>1, <3>3, <3>5, <3>6
  <2> QED BY <2>3, <2>4
<1> QED BY <1>6, <1>7

LEMMA InitRefines == Init => RingInv /\ FIFO!Init
<1> SUFFICES ASSUME Init PROVE RingInv /\ FIFO!Init
  OBVIOUS
<1> DEFINE c == [q \in Queues |-> << >>]
<1>1. \A q \in Queues : c[q] = << >> /\ Len(c[q]) = 0
  BY EmptySeq
<1>2. c \in [Queues -> Seq(Elems)]
  BY EmptySeq
<1> HIDE DEF c
<1>3. Listed(c)
  BY <1>1, <1>2 DEF Init, Listed, Holds
<1>4. RingInv
  BY <1>3, InitInv DEF RingInv
<1>5. Contents = c
  BY <1>3, <1>4, ContentsHeld
<1> QED BY <1>4, <1>5 DEF Contents, c, FIFO!Init, Init, FIFO!SUCESS, SUCESS

LEMMA NextRefines == RingInv /\ [Next]_vars => RingInv' /\ [FIFO!Next]_(FIFO!vars)
<1> SUFFICES ASSUME RingInv, [Next]_vars PROVE RingInv' /\ [FIFO!Next]_(FIFO!vars)
  OBVIOUS
<1>1. CASE Next
  <2>1. PICK q \in Queues \cup {NULL}, e \in Elems \cup {NULL} :
          queue_append(q, e) \/ queue_remove(q, e)
    BY <1>1 DEF Next
  <2>2. RingInv' /\ (FIFO!Insert(q, e) \/ FIFO!Delete(q, e))
    BY <2>1, AppendRefines, RemoveRefines
  <2> QED BY <2>2 DEF FIFO!Next
<1>2. CASE UNCHANGED vars
  <2>1. PICK c : Listed(c)
    BY DEF RingInv
  <2>2. Listed(c)' /\ IInv'
    BY <1>2, <2>1, UnchangedLists, NextInv DEF vars, RingInv
  <2>3. RingInv' /\ Contents' = Contents /\ ret' = ret
    BY <1>2, <2>1, <2>2, ContentsHeld, ContentsHeldNext DEF vars, RingInv
  <2> QED BY <2>3 DEF Contents, FIFO!vars
<1> QED BY <1>1, <1>2

(* queue.c implements the FIFO queues that queue.h promises, for any number *)
(* of elements and queues: each call changes what the queues hold, and      *)
(* returns, as the abstract call does.                                      *)
THEOREM ListsAreFIFO == Spec => ImplementsFIFO
<1>1. RingInv /\ [Next]_vars => [FIFO!Next]_(FIFO!vars)
  BY NextRefines
<1>2. RingInv /\ [Next]_vars => RingInv'
  BY NextRefines
<1>3. Init => RingInv /\ FIFO!Init
  BY InitRefines
<1> QED BY <1>1, <1>2, <1>3, PTL DEF Spec, ImplementsFIFO, FIFO!Spec
=============================================================================
