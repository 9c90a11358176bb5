----------------------------- MODULE KernelProofs -----------------------------
(***************************************************************************)
(* What the queue operations of the Kernel do to membership, for queues of *)
(* any length: the facts that the proofs about the services rest on.       *)
(***************************************************************************)
EXTENDS Kernel, SequenceTheorems, WellFoundedInduction, TLAPS

Injective(s) == \A i, j \in 1..Len(s) : s[i] = s[j] => i = j

LEMMA RemoveAtProperties ==
  ASSUME NEW S, NEW s \in Seq(S), NEW k \in 1..Len(s)
  PROVE  /\ RemoveAt(s, k) \in Seq(S)
         /\ Len(RemoveAt(s, k)) = Len(s) - 1
         /\ \A i \in 1..Len(s)-1 : RemoveAt(s, k)[i] = IF i < k THEN s[i] ELSE s[i+1]
<1> DEFINE front == SubSeq(s, 1, k-1)
           rest  == SubSeq(s, k+1, Len(s))
<1>0. Len(s) \in Nat /\ k \in Int /\ k >= 1 /\ k <= Len(s)
  BY LenProperties
<1>1. /\ front \in Seq(S) /\ Len(front) = k - 1
      /\ \A i \in 1..k-1 : front[i] = s[i]
  <2>1. \A i \in 1..k-1 : s[i] \in S
    BY <1>0, ElementOfSeq
  <2>2. /\ front \in Seq(S) /\ Len(front) = IF 1 <= k-1 THEN k-1-1+1 ELSE 0
        /\ \A i \in 1..k-1-1+1 : front[i] = s[1+i-1]
    BY <1>0, <2>1, SubSeqProperties
  <2> QED BY <1>0, <2>2
<1>2. /\ rest \in Seq(S) /\ Len(rest) = Len(s) - k
      /\ \A i \in 1..Len(s)-k : rest[i] = s[k+i]
  <2>1. \A i \in k+1..Len(s) : s[i] \in S
    BY <1>0, ElementOfSeq
  <2>2. /\ rest \in Seq(S) /\ Len(rest) = IF k+1 <= Len(s) THEN Len(s)-(k+1)+1 ELSE 0
        /\ \A i \in 1..Len(s)-(k+1)+1 : rest[i] = s[k+1+i-1]
    BY <1>0, <2>1, SubSeqProperties
  <2> QED BY <1>0, <2>2
<1> DEFINE w == front \o rest
<1>3. RemoveAt(s, k) = w
  BY DEF RemoveAt
<1> HIDE DEF front, rest
<1>4. /\ w \in Seq(S) /\ Len(w) = Len(front) + Len(rest)
      /\ \A i \in 1..Len(front)+Len(rest) :
           w[i] = IF i <= Len(front) THEN front[i] ELSE rest[i - Len(front)]
  BY <1>1, <1>2, ConcatProperties
<1> HIDE DEF w
<1>5. ASSUME NEW i \in 1..Len(s)-1
      PROVE  w[i] = IF i < k THEN s[i] ELSE s[i+1]
  <2>1. i \in 1..Len(front)+Len(rest)
    BY <1>0, <1>1, <1>2
  <2>2. CASE i < k
    BY <2>1, <2>2, <1>0, <1>1, <1>4
  <2>3. CASE i >= k
    <3> DEFINE j == i - (k-1)
    <3>1. j \in 1..Len(s)-k /\ k + j = i + 1 /\ j = i - Len(front)
      BY <2>3, <1>0, <1>1
    <3>2. rest[j] = s[i+1]
      BY <3>1, <1>2
    <3>3. w[i] = rest[j]
      <4>1. w[i] = IF i <= Len(front) THEN front[i] ELSE rest[i - Len(front)]
        BY <2>1, <1>4
      <4>2. ~(i <= Len(front))
        BY <2>3, <1>0, <1>1
      <4> QED BY <4>1, <4>2, <3>1
    <3> QED BY <3>2, <3>3, <2>3, <1>0
  <2> QED BY <2>2, <2>3, <1>0
<1> QED BY <1>0, <1>1, <1>2, <1>3, <1>4, <1>5

LEMMA WithoutProperties ==
  ASSUME NEW S, NEW s \in Seq(S), Injective(s), NEW t
  PROVE  /\ Without(s, t) \in Seq(S) /\ Injective(Without(s, t))
         /\ \A u : Contains(Without(s, t), u) <=> Contains(s, u) /\ u # t
<1>1. CASE ~Contains(s, t)
  BY <1>1 DEF Without
<1>2. CASE Contains(s, t)
  <2> DEFINE k == CHOOSE i \in 1..Len(s) : s[i] = t
             w == RemoveAt(s, k)
  <2>1. k \in 1..Len(s) /\ s[k] = t
    BY <1>2 DEF Contains
  <2> HIDE DEF k
  <2>2. Len(s) \in Nat
    BY LenProperties
  <2>3. /\ w \in Seq(S) /\ Len(w) = Len(s) - 1
        /\ \A i \in 1..Len(s)-1 : w[i] = IF i < k THEN s[i] ELSE s[i+1]
    BY <2>1, RemoveAtProperties
  <2> HIDE DEF w
  <2>4. Injective(w)
    BY <2>1, <2>2, <2>3 DEF Injective
  <2>5. ASSUME NEW u, Contains(w, u)
        PROVE  Contains(s, u) /\ u # t
    <3>1. PICK i \in 1..Len(s)-1 : w[i] = u
      BY <2>3, <2>5 DEF Contains
    <3>2. CASE i < k
      <4>1. i \in 1..Len(s) /\ s[i] = u
        BY <3>1, <3>2, <2>2, <2>3
      <4> QED BY <4>1, <3>2, <2>1 DEF Contains, Injective
    <3>3. CASE ~(i < k)
      <4>1. i+1 \in 1..Len(s) /\ s[i+1] = u /\ i+1 # k
        BY <3>1, <3>3, <2>1, <2>2, <2>3
      <4> QED BY <4>1, <2>1 DEF Contains, Injective
    <3> QED BY <3>2, <3>3
  <2>6. ASSUME NEW u, Contains(s, u), u # t
        PROVE  Contains(w, u)
    <3>1. PICK i \in 1..Len(s) : s[i] = u
      BY <2>6 DEF Contains
    <3>2. CASE i < k
      <4>1. i \in 1..Len(w) /\ w[i] = u
        BY <3>1, <3>2, <2>1, <2>2, <2>3
      <4> QED BY <4>1 DEF Contains
    <3>3. CASE ~(i < k)
      <4>1. i-1 \in 1..Len(w) /\ w[i-1] = u
        BY <3>1, <3>3, <2>1, <2>2, <2>3, <2>6
      <4> QED BY <4>1 DEF Contains
    <3> QED BY <3>2, <3>3
  <2>7. Without(s, t) = w
    BY <1>2 DEF Without, w, k
  <2> QED BY <2>3, <2>4, <2>5, <2>6, <2>7
<1> QED BY <1>1, <1>2

LEMMA AppendKeeps ==
  ASSUME NEW S, NEW s \in Seq(S), Injective(s), NEW t \in S, ~Contains(s, t)
  PROVE  /\ Append(s, t) \in Seq(S) /\ Injective(Append(s, t))
         /\ \A u : Contains(Append(s, t), u) <=> Contains(s, u) \/ u = t
<1> DEFINE a == Append(s, t)
<1>1. /\ Len(s) \in Nat /\ a \in Seq(S) /\ Len(a) = Len(s) + 1
      /\ \A i \in 1..Len(s) : a[i] = s[i]
      /\ a[Len(s)+1] = t
  BY LenProperties, AppendProperties
<1> HIDE DEF a
<1>2. \A i \in 1..Len(s) : s[i] # t
  BY DEF Contains
<1>3. Injective(a)
  BY <1>1, <1>2 DEF Injective
<1>4. \A u : Contains(a, u) <=> Contains(s, u) \/ u = t
  BY <1>1 DEF Contains
<1> QED BY <1>1, <1>3, <1>4 DEF a

-----------------------------------------------------------------------------
(* What a recursive function computes is proved by the least counterexample: *)
(* a set of numbers that is not empty has a least element.                  *)
LEMMA LeastNumber ==
  ASSUME NEW N \in SUBSET Nat, N # {}
  PROVE  \E n \in N : \A m \in N : n <= m
<1> DEFINE R == {p \in Nat \X Nat : p[1] < p[2]}
<1>1. IsWellFoundedOn(R, Nat)
  BY Zenon, NatLessThanWellFounded DEF OpToRel
<1> HIDE DEF R
<1>2. PICK n \in N : \A m \in N : <<m, n>> \notin R
  BY <1>1, WFMin
<1>3. ASSUME NEW m \in N, m < n PROVE FALSE
  <2>1. <<m, n>> \in R
    BY <1>3 DEF R
  <2> QED BY <2>1, <1>2
<1>4. \A m \in N : n \in Nat /\ m \in Nat
  OBVIOUS
<1> QED BY <1>3, <1>4

(* The recursion of Only, up to the position n of s.                        *)
OnlyUpTo(f, s, D, n) ==
  f = [i \in 0..n |-> IF i = 0 THEN << >>
                      ELSE IF s[i] \in D THEN Append(f[i-1], s[i]) ELSE f[i-1]]

LEMMA OnlyDefined ==
  ASSUME NEW S, NEW s \in Seq(S), NEW D
  PROVE  \E f : OnlyUpTo(f, s, D, Len(s)) /\ Only(s, D) = f[Len(s)]
<1> DEFINE N == {n \in 0..Len(s) : ~ \E f : OnlyUpTo(f, s, D, n)}
<1>0. Len(s) \in Nat
  BY LenProperties
<1>1. ASSUME N # {} PROVE FALSE
  <2>1. PICK n \in N : \A m \in N : n <= m
    <3>1. N \in SUBSET Nat
      BY <1>0
    <3> QED BY <3>1, <1>1, LeastNumber
  <2>2. n \in 0..Len(s)
    OBVIOUS
  <2>3. CASE n = 0
    <3>1. OnlyUpTo([i \in 0..0 |-> << >>], s, D, 0)
      BY DEF OnlyUpTo
    <3> QED BY <2>3, <3>1
  <2>4. CASE n # 0
    <3>1. n-1 \in 0..Len(s) /\ n-1 \notin N
      BY <2>1, <2>2, <2>4, <1>0
    <3>2. PICK f : OnlyUpTo(f, s, D, n-1)
      BY <3>1
    <3> DEFINE g == [i \in 0..n |-> IF i < n THEN f[i]
                                    ELSE IF s[n] \in D THEN Append(f[n-1], s[n]) ELSE f[n-1]]
    <3>3. DOMAIN f = 0..n-1 /\ f[0] = << >>
      BY <3>2, <2>2, <2>4, <1>0 DEF OnlyUpTo
    <3>4. \A i \in 1..n-1 : f[i] = IF s[i] \in D THEN Append(f[i-1], s[i]) ELSE f[i-1]
      <4>1. \A i \in 1..n-1 : i \in 0..n-1 /\ i # 0
        BY <2>2, <1>0
      <4>2. \A i \in 0..n-1 : f[i] = IF i = 0 THEN << >>
                                      ELSE IF s[i] \in D THEN Append(f[i-1], s[i]) ELSE f[i-1]
        BY Zenon, <3>2 DEF OnlyUpTo
      <4> QED BY <4>1, <4>2
    <3>5. OnlyUpTo(g, s, D, n)
      <4>1. g[0] = << >>
        BY <3>3, <2>2, <2>4, <1>0
      <4>2. ASSUME NEW i \in 1..n
            PROVE  g[i] = IF s[i] \in D THEN Append(g[i-1], s[i]) ELSE g[i-1]
        <5>1. CASE i < n
          BY <3>4, <5>1, <2>2, <1>0
        <5>2. CASE i = n
          BY <5>2, <2>2, <2>4, <1>0
        <5> QED BY <5>1, <5>2, <2>2, <1>0
      <4> HIDE DEF g
      <4>3. g = [i \in 0..n |-> g[i]]
        BY DEF g
      <4>4. \A i \in 0..n : i # 0 => i \in 1..n
        BY <2>2, <1>0
      <4>5. \A i \in 0..n : g[i] = IF i = 0 THEN << >>
                                    ELSE IF s[i] \in D THEN Append(g[i-1], s[i]) ELSE g[i-1]
        BY <4>1, <4>2, <4>4
      <4> QED BY <4>3, <4>5 DEF OnlyUpTo
    <3> QED BY <3>5
  <2> QED BY <2>3, <2>4
<1>2. \E f : OnlyUpTo(f, s, D, Len(s))
  <2>1. Len(s) \notin N
    BY <1>1
  <2> QED BY <1>0, <2>1
<1>3. Only(s, D) = (CHOOSE f : OnlyUpTo(f, s, D, Len(s)))[Len(s)]
  BY DEF Only, OnlyUpTo
<1> QED BY <1>2, <1>3

LEMMA OnlyEmpty ==
  ASSUME NEW D
  PROVE  Only(<< >>, D) = << >>
<1>1. << >> \in Seq({}) /\ Len(<< >>) = 0
  BY EmptySeq
<1>2. PICK f : OnlyUpTo(f, << >>, D, 0) /\ Only(<< >>, D) = f[0]
  BY <1>1, OnlyDefined
<1> QED BY <1>2 DEF OnlyUpTo

LEMMA OnlyProperties ==
  ASSUME NEW S, NEW s \in Seq(S), Injective(s), NEW D
  PROVE  /\ Only(s, D) \in Seq(S) /\ Injective(Only(s, D))
         /\ \A u : Contains(Only(s, D), u) <=> Contains(s, u) /\ u \in D
<1>0. Len(s) \in Nat /\ \A i \in 1..Len(s) : s[i] \in S
  BY LenProperties, ElementOfSeq
<1>1. PICK f : OnlyUpTo(f, s, D, Len(s)) /\ Only(s, D) = f[Len(s)]
  BY OnlyDefined
<1> DEFINE Good(n) == /\ f[n] \in Seq(S) /\ Injective(f[n])
                      /\ \A u : Contains(f[n], u) <=> u \in D /\ \E j \in 1..n : s[j] = u
           N == {n \in 0..Len(s) : ~Good(n)}
<1> HIDE DEF Good
<1>2. ASSUME N # {} PROVE FALSE
  <2>1. PICK n \in N : \A m \in N : n <= m
    <3>1. N \in SUBSET Nat
      BY <1>0
    <3> QED BY <3>1, <1>2, LeastNumber
  <2>2. n \in 0..Len(s)
    OBVIOUS
  <2>3. CASE n = 0
    <3>1. f[0] = << >>
      BY <1>0, <1>1 DEF OnlyUpTo
    <3>2. << >> \in Seq(S) /\ Len(<< >>) = 0
      BY EmptySeq
    <3>3. Good(0)
      BY <3>1, <3>2 DEF Injective, Contains, Good
    <3> QED BY <2>3, <3>3
  <2>4. CASE n # 0
    <3>1. n-1 \in 0..Len(s) /\ Good(n-1) /\ n \in 1..Len(s)
      BY <2>1, <2>2, <2>4, <1>0
    <3>2. f[n] = IF s[n] \in D THEN Append(f[n-1], s[n]) ELSE f[n-1]
      BY <1>1, <2>2, <2>4, <1>0 DEF OnlyUpTo
    <3>3. \A u : (\E j \in 1..n : s[j] = u) <=> (s[n] = u \/ \E j \in 1..n-1 : s[j] = u)
      BY <2>2, <2>4, <1>0
    <3>4. CASE s[n] \in D
      <4>1. ~Contains(f[n-1], s[n]) /\ s[n] \in S
        <5>1. \A j \in 1..n-1 : s[j] # s[n]
          BY <1>0, <2>2, <2>4 DEF Injective
        <5> QED BY <5>1, <3>1, <1>0 DEF Good
      <4>2. /\ f[n] \in Seq(S) /\ Injective(f[n])
            /\ \A u : Contains(f[n], u) <=> Contains(f[n-1], u) \/ u = s[n]
        BY <3>1, <3>2, <3>4, <4>1, AppendKeeps DEF Good
      <4>3. Good(n)
        BY <3>1, <3>3, <3>4, <4>2 DEF Good
      <4> QED BY <4>3
    <3>5. CASE s[n] \notin D
      <4>1. f[n] = f[n-1]
        BY <3>2, <3>5
      <4>2. Good(n)
        BY <3>1, <3>3, <3>5, <4>1 DEF Good
      <4> QED BY <4>2
    <3> QED BY <3>4, <3>5
  <2> QED BY <2>3, <2>4
<1>3. Good(Len(s))
  BY <1>0, <1>2
<1> QED BY <1>1, <1>3 DEF Contains, Good

LEMMA ConcatKeeps ==
  ASSUME NEW S, NEW r \in Seq(S), NEW s \in Seq(S), Injective(r), Injective(s),
         \A u : ~(Contains(r, u) /\ Contains(s, u))
  PROVE  /\ r \o s \in Seq(S) /\ Injective(r \o s)
         /\ \A u : Contains(r \o s, u) <=> Contains(r, u) \/ Contains(s, u)
<1> DEFINE w == r \o s
<1>1. /\ w \in Seq(S) /\ Len(w) = Len(r) + Len(s) /\ Len(r) \in Nat /\ Len(s) \in Nat
      /\ \A i \in 1..Len(r)+Len(s) : w[i] = IF i <= Len(r) THEN r[i] ELSE s[i - Len(r)]
  BY ConcatProperties, LenProperties
<1> HIDE DEF w
<1>2. \A i \in 1..Len(r), j \in 1..Len(s) : r[i] # s[j]
  BY DEF Contains
<1>3. \A i \in 1..Len(w) : \/ i <= Len(r) /\ i \in 1..Len(r) /\ w[i] = r[i]
                           \/ i > Len(r) /\ i - Len(r) \in 1..Len(s) /\ w[i] = s[i - Len(r)]
  BY <1>1
<1>4. Injective(w)
  <2> SUFFICES ASSUME NEW i \in 1..Len(w), NEW j \in 1..Len(w), w[i] = w[j]
               PROVE  i = j
    BY DEF Injective
  <2> QED BY <1>1, <1>2, <1>3 DEF Injective
<1>5. ASSUME NEW u PROVE Contains(w, u) <=> Contains(r, u) \/ Contains(s, u)
  <2>1. \A j \in 1..Len(s) : w[Len(r) + j] = s[j] /\ Len(r) + j \in 1..Len(w)
    BY <1>1
  <2>2. \A i \in 1..Len(r) : w[i] = r[i] /\ i \in 1..Len(w)
    BY <1>1
  <2> QED BY <1>3, <2>1, <2>2 DEF Contains
<1> QED BY <1>1, <1>4, <1>5 DEF w

-----------------------------------------------------------------------------
(* The state of the queues in terms of membership.                          *)
In(q, t) == Contains(queues[q], t)

QueuesOK ==
  /\ queues \in [Queues -> Seq(Tasks)]
  /\ \A q \in Queues : Injective(queues[q])
  /\ \A p, q \in Queues, t \in Tasks : In(p, t) /\ In(q, t) => p = q

(* queue_append links a task that is linked nowhere, and is void otherwise. *)
LEMMA AppendMembers ==
  ASSUME QueuesOK, NEW q \in Queues, NEW t \in Tasks, queue_append(q, t)
  PROVE  /\ QueuesOK'
         /\ \A p \in Queues, u \in Tasks : In(p, u)' <=> In(p, u) \/ (p = q /\ u = t /\ ~Linked(t))
<1>1. CASE Linked(t)
  <2>1. queues' = queues
    BY <1>1 DEF queue_append
  <2> QED BY <1>1, <2>1 DEF QueuesOK, In
<1>2. CASE ~Linked(t)
  <2>1. queues' = [queues EXCEPT ![q] = Append(queues[q], t)]
    BY <1>2 DEF queue_append
  <2>2. queues[q] \in Seq(Tasks) /\ Injective(queues[q]) /\ ~Contains(queues[q], t)
    BY <1>2 DEF QueuesOK, Linked
  <2>3. /\ Append(queues[q], t) \in Seq(Tasks) /\ Injective(Append(queues[q], t))
        /\ \A u : Contains(Append(queues[q], t), u) <=> Contains(queues[q], u) \/ u = t
    BY <2>2, AppendKeeps
  <2>4. \A p \in Queues, u \in Tasks : In(p, u)' <=> In(p, u) \/ (p = q /\ u = t)
    BY <2>1, <2>3 DEF In, QueuesOK
  <2>5. QueuesOK'
    <3>1. queues' \in [Queues -> Seq(Tasks)] /\ \A p \in Queues : Injective(queues'[p])
      BY <2>1, <2>3 DEF QueuesOK
    <3>2. \A p, r \in Queues, u \in Tasks : In(p, u)' /\ In(r, u)' => p = r
      BY <2>4, <1>2 DEF QueuesOK, Linked, In
    <3> QED BY <3>1, <3>2 DEF QueuesOK
  <2> QED BY <2>4, <2>5, <1>2
<1> QED BY <1>1, <1>2

(* queue_remove takes the task out of that queue and of no other.           *)
LEMMA RemoveMembers ==
  ASSUME QueuesOK, NEW q \in Queues, NEW t \in Tasks, queue_remove(q, t)
  PROVE  /\ QueuesOK'
         /\ \A p \in Queues, u \in Tasks : In(p, u)' <=> In(p, u) /\ ~(p = q /\ u = t)
<1>1. queues' = [queues EXCEPT ![q] = Without(queues[q], t)]
  BY DEF queue_remove
<1>2. /\ Without(queues[q], t) \in Seq(Tasks) /\ Injective(Without(queues[q], t))
      /\ \A u : Contains(Without(queues[q], t), u) <=> Contains(queues[q], u) /\ u # t
  BY WithoutProperties DEF QueuesOK
<1>3. \A p \in Queues, u \in Tasks : In(p, u)' <=> In(p, u) /\ ~(p = q /\ u = t)
  BY <1>1, <1>2 DEF In, QueuesOK
<1>4. QueuesOK'
  <2>1. queues' \in [Queues -> Seq(Tasks)] /\ \A p \in Queues : Injective(queues'[p])
    BY <1>1, <1>2 DEF QueuesOK
  <2> QED BY <2>1, <1>3 DEF QueuesOK
<1> QED BY <1>3, <1>4

(* wake_tasks moves the sleepers that are due, and nobody else.             *)
LEMMA WakeMembers ==
  ASSUME QueuesOK, queues' = after_wake_tasks
  PROVE  /\ QueuesOK'
         /\ \A q \in Queues, u \in Tasks :
              In(q, u)' <=> CASE q = "ready" -> In(q, u) \/ (In("sleeping", u) /\ Due(u))
                              [] q = "sleeping" -> In(q, u) /\ ~Due(u)
                              [] OTHER -> In(q, u)
<1> DEFINE sleepers == queues["sleeping"]
           moved    == Only(sleepers, due_tasks)
           left     == Only(sleepers, Tasks \ due_tasks)
<1>0. "ready" \in Queues /\ "sleeping" \in Queues
  BY DEF Queues
<1>1. /\ sleepers \in Seq(Tasks) /\ Injective(sleepers)
      /\ queues["ready"] \in Seq(Tasks) /\ Injective(queues["ready"])
  BY <1>0 DEF QueuesOK
<1>2. /\ moved \in Seq(Tasks) /\ Injective(moved)
      /\ \A u : Contains(moved, u) <=> Contains(sleepers, u) /\ u \in due_tasks
  BY <1>1, OnlyProperties
<1>3. /\ left \in Seq(Tasks) /\ Injective(left)
      /\ \A u : Contains(left, u) <=> Contains(sleepers, u) /\ u \in Tasks \ due_tasks
  BY <1>1, OnlyProperties
<1>4. queues' = [queues EXCEPT !["sleeping"] = left, !["ready"] = queues["ready"] \o moved]
  BY DEF after_wake_tasks
<1> HIDE DEF moved, left
<1>5. /\ queues["ready"] \o moved \in Seq(Tasks) /\ Injective(queues["ready"] \o moved)
      /\ \A u : Contains(queues["ready"] \o moved, u) <=> Contains(queues["ready"], u) \/ Contains(moved, u)
  <2>1. \A u : ~(Contains(queues["ready"], u) /\ Contains(moved, u))
    BY <1>0, <1>2 DEF QueuesOK, In, due_tasks
  <2> QED BY <1>1, <1>2, <2>1, ConcatKeeps
<1>6. /\ queues'["sleeping"] = left /\ queues'["ready"] = queues["ready"] \o moved
      /\ \A q \in Queues : q \notin {"ready", "sleeping"} => queues'[q] = queues[q]
      /\ DOMAIN queues' = Queues
  BY <1>0, <1>4 DEF QueuesOK
<1>7. queues' \in [Queues -> Seq(Tasks)] /\ \A q \in Queues : Injective(queues'[q])
  <2>1. queues' = [q \in Queues |-> queues'[q]]
    BY <1>4 DEF QueuesOK
  <2>2. \A q \in Queues : queues'[q] \in Seq(Tasks) /\ Injective(queues'[q])
    BY <1>3, <1>5, <1>6 DEF QueuesOK
  <2> QED BY <2>1, <2>2
<1>8. \A u \in Tasks : u \in due_tasks <=> Due(u)
  BY DEF due_tasks
<1>9. \A q \in Queues, u \in Tasks :
        In(q, u)' <=> CASE q = "ready" -> In(q, u) \/ (In("sleeping", u) /\ Due(u))
                        [] q = "sleeping" -> In(q, u) /\ ~Due(u)
                        [] OTHER -> In(q, u)
  BY <1>2, <1>3, <1>5, <1>6, <1>8 DEF In
<1>10. \A p, q \in Queues, u \in Tasks : In(p, u)' /\ In(q, u)' => p = q
  <2> SUFFICES ASSUME NEW p \in Queues, NEW q \in Queues, NEW u \in Tasks, In(p, u)', In(q, u)'
               PROVE  p = q
    OBVIOUS
  <2>1. \A r \in Queues : In(r, u)' => In(r, u) \/ (r = "ready" /\ In("sleeping", u) /\ Due(u))
    BY <1>9
  <2>2. In("sleeping", u)' => ~Due(u)
    BY <1>0, <1>9
  <2> QED BY <1>0, <2>1, <2>2 DEF QueuesOK
<1> QED BY <1>7, <1>9, <1>10 DEF QueuesOK

(* The head of a queue that is not empty is in it.                          *)
LEMMA HeadIn ==
  ASSUME QueuesOK, NEW q \in Queues, queues[q] # << >>
  PROVE  Head(queues[q]) \in Tasks /\ In(q, Head(queues[q]))
<1>1. queues[q] \in Seq(Tasks) /\ Len(queues[q]) \in Nat \ {0}
  BY EmptySeq DEF QueuesOK
<1>2. Head(queues[q]) = queues[q][1] /\ queues[q][1] \in Tasks
  BY <1>1, ElementOfSeq
<1> QED BY <1>1, <1>2 DEF In, Contains

(* What a remainder shifted by h yields, and where it changes nothing.       *)
LEMMA ShiftedRemainder ==
  ASSUME NEW n \in Int, NEW h \in Nat \ {0}
  PROVE  LET r == ((n + h) % (2 * h)) - h
         IN  r \in Int /\ -h <= r /\ r < h /\ (-h <= n /\ n < h => r = n)
<1>1. PICK m \in Int : m = n + h
  OBVIOUS
<1>2. PICK b \in Nat \ {0} : b = 2 * h
  OBVIOUS
<1>3. m % b \in 0..b-1 /\ (m \in 0..b-1 => m % b = m)
  OBVIOUS
<1>4. (n + h) % (2 * h) = m % b
  BY <1>1, <1>2
<1> DEFINE r == m % b
<1>5. r \in 0..b-1 /\ (m \in 0..b-1 => r = m) /\ (n + h) % (2 * h) = r
  BY <1>3, <1>4
<1> HIDE DEF r
<1>6. r - h \in Int /\ -h <= r - h /\ r - h < h /\ (-h <= n /\ n < h => r - h = n)
  BY <1>1, <1>2, <1>5
<1> QED BY <1>5, <1>6

(* What the conversion to a short yields, and where it changes nothing.     *)
LEMMA ShortType ==
  ASSUME NEW n \in Int
  PROVE  /\ HALF \in Nat \ {0}
         /\ short(n) \in Int /\ -HALF <= short(n) /\ short(n) < HALF
         /\ -HALF <= n /\ n < HALF => short(n) = n
<1>1. HALF \in Nat \ {0}
  BY DEF HALF
<1> QED BY <1>1, ShiftedRemainder DEF short

(* Membership-wise this is OneQueue.                                        *)
LEMMA QueuesOKOneQueue == QueuesOK => OneQueue
<1> SUFFICES ASSUME QueuesOK, NEW t \in Tasks, NEW p \in Queues, NEW q \in Queues,
                    NEW i \in DOMAIN queues[p], NEW j \in DOMAIN queues[q],
                    queues[p][i] = t, queues[q][j] = t
             PROVE  p = q /\ i = j
  BY DEF OneQueue
<1>1. DOMAIN queues[p] = 1..Len(queues[p]) /\ DOMAIN queues[q] = 1..Len(queues[q])
  BY LenProperties DEF QueuesOK
<1>2. p = q
  BY <1>1 DEF QueuesOK, In, Contains
<1> QED BY <1>1, <1>2 DEF QueuesOK, Injective
=============================================================================
