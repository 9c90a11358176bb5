------------------------------ MODULE QueueFIFO ------------------------------
(***************************************************************************)
(* What core/queue.h promises of the generic queue: every queue is a FIFO  *)
(* sequence, an element is in at most one queue at a time, insertion is at *)
(* the tail, removal takes the named element from wherever it stands, and  *)
(* a call that meets one of the listed error conditions changes nothing    *)
(* and returns a negative code.  Pointers do not exist at this level.      *)
(***************************************************************************)
EXTENDS Integers, SequencesExt

CONSTANTS Elems,   \* the elements (any structure that starts with prev/next)
          Queues,  \* the queues (variables holding the head pointer)
          NULL     \* the null pointer, legal as either argument

VARIABLES contents,  \* contents[q]: the elements of q, head first
          ret        \* the value the last call returned

vars == <<contents, ret>>

SUCESS                   == 0
EMPTY_QUEUE              == -1
NO_ELEM                  == -2
BELONGS_TO_ANOTHER_QUEUE == -3
NO_QUEUE                 == -4
NOT_ON_QUEUE             == -5

Queued(e) == \E q \in Queues : Contains(contents[q], e)

Init == /\ contents = [q \in Queues |-> << >>]
        /\ ret = SUCESS

(* An erroneous call: no queue changes, the code says why. *)
Reject(code) == ret' = code /\ UNCHANGED contents

Insert(q, e) ==
  \/ q = NULL /\ Reject(NO_QUEUE)
  \/ q # NULL /\ e = NULL /\ Reject(NO_ELEM)
  \/ q # NULL /\ e # NULL /\ Queued(e) /\ Reject(BELONGS_TO_ANOTHER_QUEUE)
  \/ /\ q # NULL /\ e # NULL /\ ~Queued(e)
     /\ contents' = [contents EXCEPT ![q] = Append(@, e)]
     /\ ret' = SUCESS

Delete(q, e) ==
  \/ q = NULL /\ Reject(NO_QUEUE)
  \/ q # NULL /\ e = NULL /\ Reject(NO_ELEM)
  \/ /\ q # NULL /\ e # NULL
     /\ \/ contents[q] = << >> /\ Reject(EMPTY_QUEUE)
        \/ contents[q] # << >> /\ ~Queued(e) /\ Reject(NOT_ON_QUEUE)
        \/ /\ contents[q] # << >> /\ Queued(e) /\ ~Contains(contents[q], e)
           /\ Reject(BELONGS_TO_ANOTHER_QUEUE)
        \/ /\ \E i \in DOMAIN contents[q] :
                /\ contents[q][i] = e
                /\ contents' = [contents EXCEPT ![q] = RemoveAt(@, i)]
           /\ ret' = SUCESS

Next == \E q \in Queues \cup {NULL}, e \in Elems \cup {NULL} :
          Insert(q, e) \/ Delete(q, e)

Spec == Init /\ [][Next]_vars
=============================================================================
