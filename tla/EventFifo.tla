------------------------------ MODULE EventFifo ------------------------------
(***************************************************************************)
(* What the event queue of the SDK promises to its users: a bounded        *)
(* first-in first-out queue.  Whoever holds a pointer to the oldest event  *)
(* (the event handler of the application) may also overwrite it in place.  *)
(***************************************************************************)
EXTENDS Naturals, Sequences

CONSTANTS
  Item,      \* the events that can be queued
  Capacity   \* how many of them fit

VARIABLE queue

Init == queue = << >>

Enqueue(e) == Len(queue) < Capacity /\ queue' = Append(queue, e)

Dequeue == queue # << >> /\ queue' = Tail(queue)

RewriteHead(e) == queue # << >> /\ queue' = [queue EXCEPT ![1] = e]

Next ==
  \/ \E e \in Item : Enqueue(e) \/ RewriteHead(e)
  \/ Dequeue

Spec == Init /\ [][Next]_queue

=============================================================================
