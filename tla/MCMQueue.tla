------------------------------- MODULE MCMQueue -------------------------------
(* Instances of MQueue: three or four tasks around one queue.                *)
EXTENDS MQueue

CONSTANTS t1, t2, t3, t4

Trio == {t1, t2, t3}
Four == {t1, t2, t3, t4}

QueueSems   == {s_buffer, s_item, s_vaga}
QueueValues == (s_buffer :> 1 @@ s_item :> 0 @@ s_vaga :> max_msgs)
QueueCalls  == {"send", "recv", "check", "put", "take", "free", "close"}

TwoSenders   == [t \in Tasks |-> IF t \in {t1, t2} THEN "send" ELSE "recv"]
TwoReceivers == [t \in Tasks |-> IF t = t1 THEN "send" ELSE "recv"]
WithDestroyer ==
  [t \in Tasks |-> CASE t = t1 -> "destroy" [] t = t2 -> "send" [] OTHER -> "recv"]

(* Tasks with the same role are interchangeable.                              *)
SymmetricRoles == Permutations({t1, t2}) \cup Permutations({t3, t4})

Calls == [t \in Tasks |-> Body(Role[t])]
=============================================================================
