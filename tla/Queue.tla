-------------------------------- MODULE Queue --------------------------------
(***************************************************************************)
(* core/queue.c at the level of its pointers: every queue is a circular    *)
(* doubly linked list, a queue is the pointer to its first element, and    *)
(* the prev/next fields live inside the elements.  Each action is one      *)
(* complete call; a call is not interrupted here (see the README for what  *)
(* the timer signal does to that).                                         *)
(***************************************************************************)
EXTENDS Integers, FiniteSets

CONSTANTS Elems, Queues, NULL

ASSUME QueueAssumption ==
  /\ NULL \notin Elems \cup Queues /\ Elems \cap Queues = {}
  /\ IsFiniteSet(Elems)

VARIABLES head,  \* head[q]: *queue, the first element or NULL
          next,  \* next[e], prev[e]: the link fields of e
          prev,
          ret    \* the value the last call returned

vars == <<head, next, prev, ret>>

SUCESS                   == 0
EMPTY_QUEUE              == -1
NO_ELEM                  == -2
BELONGS_TO_ANOTHER_QUEUE == -3
NO_QUEUE                 == -4
NOT_ON_QUEUE             == -5

Init == /\ head = [q \in Queues |-> NULL]
        /\ next = [e \in Elems |-> NULL]
        /\ prev = [e \in Elems |-> NULL]
        /\ ret = SUCESS

Reject(code) == ret' = code /\ UNCHANGED <<head, next, prev>>

-----------------------------------------------------------------------------
(* queue_append *)

\* Seeded bug: the membership check of queue_append is gone.
UnlinkedUnchecked(e) == TRUE

Unlinked(e) == next[e] = NULL /\ prev[e] = NULL

\* Seeded bug: a dereference is missing, the links hold the address of the queue.
LinkFirstUndereferenced(q, e) ==
  /\ head' = [head EXCEPT ![q] = e]
  /\ next' = [next EXCEPT ![e] = q]
  /\ prev' = [prev EXCEPT ![e] = q]

(* The element becomes the only one of an empty queue ... *)
LinkFirst(q, e) ==
  /\ head' = [head EXCEPT ![q] = e]
  /\ next' = [next EXCEPT ![e] = e]
  /\ prev' = [prev EXCEPT ![e] = e]

\* Seeded bug: the new element becomes the head, as in a stack.
LinkFirstInStack(q, e) ==
  /\ next' = [next EXCEPT ![prev[head[q]]] = e, ![e] = head[q]]
  /\ prev' = [prev EXCEPT ![head[q]] = e, ![e] = prev[head[q]]]
  /\ head' = [head EXCEPT ![q] = e]

(* ... or is linked between the last element, the head's prev, and the head. *)
LinkLast(q, e) ==
  LET last == prev[head[q]] IN
  /\ next' = [next EXCEPT ![last] = e, ![e] = head[q]]
  /\ prev' = [prev EXCEPT ![head[q]] = e, ![e] = last]
  /\ UNCHANGED head

queue_append(q, e) ==
  \/ q = NULL /\ Reject(NO_QUEUE)
  \/ q # NULL /\ e = NULL /\ Reject(NO_ELEM)
  \/ /\ q # NULL /\ e # NULL /\ ~Unlinked(e)
     /\ Reject(BELONGS_TO_ANOTHER_QUEUE)
  \/ /\ q # NULL /\ e # NULL /\ Unlinked(e)
     /\ \/ head[q] = NULL /\ LinkFirst(q, e)
        \/ head[q] # NULL /\ LinkLast(q, e)
     /\ ret' = SUCESS

-----------------------------------------------------------------------------
(* queue_remove *)

(***************************************************************************)
(* The search loop: aux starts at elem->next and follows next until it     *)
(* meets elem or *queue.  It meets *queue, h, exactly when h is in every   *)
(* set that holds elem->next and is closed under next except at elem.      *)
(***************************************************************************)
SearchMeets(e, h) ==
  \A S \in SUBSET Elems :
    (next[e] \in S /\ \A x \in S \ {e} : next[x] \in S) => h \in S

(* The last step: *queue moves on if it pointed at elem, and elem's        *)
(* neighbours are linked to each other.                                    *)
Unlink(q, e) ==
  /\ head' = [head EXCEPT ![q] = IF e = @ THEN next[e] ELSE @]
  /\ next' = [next EXCEPT ![prev[e]] = next[e], ![e] = NULL]
  /\ prev' = [prev EXCEPT ![next[e]] = prev[e], ![e] = NULL]

UnlinkOnly(q, e) ==
  /\ head' = [head EXCEPT ![q] = NULL]
  /\ next' = [next EXCEPT ![e] = NULL]
  /\ prev' = [prev EXCEPT ![e] = NULL]

queue_remove(q, e) ==
  \/ q = NULL /\ Reject(NO_QUEUE)
  \/ q # NULL /\ e = NULL /\ Reject(NO_ELEM)
  \/ /\ q # NULL /\ e # NULL
     /\ \/ head[q] = NULL /\ Reject(EMPTY_QUEUE)
        \/ /\ head[q] # NULL /\ (next[e] = NULL \/ prev[e] = NULL)
           /\ Reject(NOT_ON_QUEUE)
        \/ /\ head[q] # NULL /\ next[e] # NULL /\ prev[e] # NULL
           /\ \/ ~SearchMeets(e, head[q]) /\ Reject(BELONGS_TO_ANOTHER_QUEUE)
              \/ /\ SearchMeets(e, head[q])
                 /\ \/ next[e] = e /\ UnlinkOnly(q, e)
                    \/ next[e] # e /\ Unlink(q, e)
                 /\ ret' = SUCESS

Next == \E q \in Queues \cup {NULL}, e \in Elems \cup {NULL} :
          queue_append(q, e) \/ queue_remove(q, e)

Spec == Init /\ [][Next]_vars

-----------------------------------------------------------------------------
(* queue_size: the number of nodes on the way from the head back to it.     *)

(* Walk(q)[n] is the n-th node that the loop visits. *)
Walk(q) ==
  LET visit[n \in 1..Cardinality(Elems)] ==
        IF n = 1 THEN head[q]
        ELSE IF visit[n-1] = NULL THEN NULL ELSE next[visit[n-1]]
  IN visit

queue_size(q) ==
  LET back == {n \in DOMAIN Walk(q) : Walk(q)[n] # NULL /\ next[Walk(q)[n]] = head[q]}
  IN CASE head[q] = NULL -> 0
       [] head[q] # NULL /\ back # {} -> CHOOSE n \in back : \A m \in back : n <= m
       [] OTHER -> Cardinality(Elems)

-----------------------------------------------------------------------------
(* Properties *)

TypeOK ==
  /\ head \in [Queues -> Elems \cup {NULL}]
  /\ next \in [Elems -> Elems \cup {NULL}]
  /\ prev \in [Elems -> Elems \cup {NULL}]
  /\ ret \in {SUCESS, EMPTY_QUEUE, NO_ELEM, BELONGS_TO_ANOTHER_QUEUE,
              NO_QUEUE, NOT_ON_QUEUE}

(* After any sequence of calls, valid or not, next and prev are inverse     *)
(* links and *queue never points at an element that is out of the lists, so *)
(* no traversal in the kernel can meet a null or a dangling link.           *)
DoublyLinked ==
  /\ \A e \in Elems :
       /\ next[e] = NULL <=> prev[e] = NULL
       /\ next[e] # NULL => prev[next[e]] = e /\ next[prev[e]] = e
  /\ \A q \in Queues : head[q] # NULL => next[head[q]] # NULL

(* No two queues share an element: walking one queue, with the very search  *)
(* loop of queue_remove, never meets the head of another.  It is what makes *)
(* BELONGS_TO_ANOTHER_QUEUE trustworthy.                                    *)
Disjoint ==
  \A q1, q2 \in Queues :
    q1 # q2 /\ head[q1] # NULL /\ head[q2] # NULL => ~SearchMeets(head[q1], head[q2])

(* queue.c implements the FIFO queues of queue.h, with the same results and *)
(* the same return codes: contents[q] is what queue_print would print.      *)
FIFO == INSTANCE QueueFIFO
          WITH contents <- [q \in Queues |-> [i \in 1..queue_size(q) |-> Walk(q)[i]]]
ImplementsFIFO == FIFO!Spec
=============================================================================
