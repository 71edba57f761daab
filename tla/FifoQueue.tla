----------------------------- MODULE FifoQueue ------------------------------
(***************************************************************************)
(* What erl_thr_queue.h promises to its users: a queue that many threads   *)
(* fill and one empties.  An item is named by its producer and its number, *)
(* so that each is enqueued once, and is delivered once and in order.      *)
(***************************************************************************)
EXTENDS Naturals, Sequences

CONSTANTS Producers

VARIABLES sent,   \* how many items each producer has enqueued
          queue,  \* the items that wait
          got     \* how many items have been delivered

Init == sent = [p \in Producers |-> 0] /\ queue = <<>> /\ got = 0

Enqueue(p) ==
  /\ sent' = [sent EXCEPT ![p] = @ + 1]
  /\ queue' = Append(queue, <<p, sent'[p]>>)
  /\ UNCHANGED got

Dequeue ==
  /\ queue # <<>>
  /\ queue' = Tail(queue) /\ got' = got + 1
  /\ UNCHANGED sent

Next == Dequeue \/ \E p \in Producers : Enqueue(p)

Spec == Init /\ [][Next]_<<sent, queue, got>>
=============================================================================
