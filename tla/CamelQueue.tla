----------------------------- MODULE CamelQueue -----------------------------
(***************************************************************************)
(* The lock-free queue both service queues are built on                    *)
(* (src/src/base/concurrent, moodycamel ConcurrentQueue), as far as its    *)
(* callers can observe it.  Each enqueuing thread owns an implicit         *)
(* producer, a FIFO of its own; a dequeue takes the oldest element of some *)
(* non-empty producer, chosen by a size heuristic this model leaves open.  *)
(* No order is kept between the elements of two producers.                 *)
(***************************************************************************)
EXTENDS Sequences

(* No producer has anything pending. *)
EmptyQueue(producers) == [p \in producers |-> <<>>]

(* inner.enqueue: append to the calling thread's own FIFO. *)
Push(queue, p, x) == [queue EXCEPT ![p] = Append(@, x)]

(* The producers a try_dequeue can serve. *)
Pending(queue) == {p \in DOMAIN queue : queue[p] # <<>>}

(* A successful dequeue from producer p removes its oldest element. *)
Pop(queue, p) == [queue EXCEPT ![p] = Tail(@)]

(* try_dequeue has nothing to take. *)
IsEmpty(queue) == Pending(queue) = {}
=============================================================================
