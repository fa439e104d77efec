---------------------------- MODULE BoundedQueue ----------------------------
(***************************************************************************)
(* What the interrupt queue looks like from outside: bytes leave it in the *)
(* order in which they came, each once, and there are at most Capacity.    *)
(***************************************************************************)
EXTENDS Naturals, Sequences

CONSTANTS Byte, Capacity
VARIABLE items

QueueInit == items = <<>>

Enqueue == \E b \in Byte : Len(items) < Capacity /\ items' = Append(items, b)

Dequeue == items # <<>> /\ items' = Tail(items)

QueueSpec == QueueInit /\ [][Enqueue \/ Dequeue]_items
=============================================================================
