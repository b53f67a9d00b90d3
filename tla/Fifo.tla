--------------------------------- MODULE Fifo ---------------------------------
(***************************************************************************)
(* What a pipe promises: the bytes in flight are a bounded queue; a step      *)
(* adds bytes at the end or takes bytes from the front, never both and never  *)
(* anything else.                                                             *)
(***************************************************************************)
EXTENDS Integers, Sequences

CONSTANTS Vals, Capacity
VARIABLE queue

Init == queue = <<>>
Send == /\ Len(queue) <= Len(queue') /\ SubSeq(queue', 1, Len(queue)) = queue
        /\ Len(queue') <= Capacity /\ queue' \in Seq(Vals)
Receive == \E k \in 0..Len(queue) : queue' = SubSeq(queue, k + 1, Len(queue))
Next == Send \/ Receive
Spec == Init /\ [][Next]_queue
===============================================================================
