----------------------------- MODULE BoundedFifo -----------------------------
(***************************************************************************)
(* What a bounded FIFO queue promises: an item that was put is handed out  *)
(* exactly once, in the order of the puts, and at most Capacity items are  *)
(* held at a time.  uo_queue.h declares enqueue and dequeue with this      *)
(* contract; UoQueue is the implementation.                                *)
(***************************************************************************)
EXTENDS Naturals, Sequences

CONSTANTS Consumers,   \* threads that take items
          Items,       \* the pointers that are put into the queue
          Capacity,    \* most items held at a time
          NoItem       \* what a consumer holds before its first item

VARIABLES queue,       \* the items put and not yet taken, oldest first
          taken        \* the item each consumer took last

vars == <<queue, taken>>

Init ==
    /\ queue = <<>>
    /\ taken = [c \in Consumers |-> NoItem]

Put(item) ==
    /\ Len(queue) < Capacity
    /\ queue' = Append(queue, item)
    /\ UNCHANGED taken

Take(c) ==
    /\ queue # <<>>
    /\ taken' = [taken EXCEPT ![c] = Head(queue)]
    /\ queue' = Tail(queue)

(* A consumer that gives its item up, or finds the queue empty, holds      *)
(* nothing.                                                                *)
Release(c) ==
    /\ taken[c] # NoItem
    /\ taken' = [taken EXCEPT ![c] = NoItem]
    /\ UNCHANGED queue

Next ==
    \/ \E item \in Items : Put(item)
    \/ \E c \in Consumers : Take(c) \/ Release(c)

Spec == Init /\ [][Next]_vars
=============================================================================
