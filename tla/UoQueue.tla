------------------------------- MODULE UoQueue -------------------------------
(***************************************************************************)
(* The bounded ring queue of libuo: uo_queue.c, and uo_cb_queue.c, which   *)
(* repeats the same protocol for callbacks.  Two counting semaphores count *)
(* the free and the filled slots; a thread that got its token draws a      *)
(* ticket from the atomic counter head or tail and then, in a separate     *)
(* step, writes or reads slot ticket % capasity.  The steps of one call    *)
(* are separate actions: other threads run between them.                   *)
(*                                                                         *)
(* head and tail are size_t and wrap at SizeMod (2^64 in the code).        *)
(* ledger and due are history variables: no action reads them.  They       *)
(* remember which item each dequeue ticket stands for.                     *)
(***************************************************************************)
EXTENDS Integers, Sequences, FiniteSets

CONSTANTS Producers,   \* threads that call uo_queue_enqueue
          Consumers,   \* threads that call uo_queue_dequeue
          Items,       \* the pointers that are enqueued
          Capacity,    \* capasity: 0x10 in uo_linkpool.h, 0x100 in uo_cb_queue.c
          SizeMod,     \* number of values of size_t
          NoItem       \* NULL, and whatever malloc left in a slot never written

ASSUME QueueConstants ==
    /\ IsFiniteSet(Producers) /\ IsFiniteSet(Consumers)
    /\ Producers \cap Consumers = {}
    /\ Capacity \in Nat \ {0}
    /\ SizeMod \in Nat
    /\ NoItem \notin Items

(* size_t arithmetic only keeps slots in sequence across the wrap if the   *)
(* capacity divides 2^64; both capacities in the code are powers of two.   *)
ASSUME CapacityDividesSize ==
    \E k \in 2..SizeMod : SizeMod = k * Capacity

VARIABLES enqueue_sem, dequeue_sem,  \* the two semaphores
          head, tail,                \* next ticket of each side
          items,                     \* the slots
          pc,                        \* what each thread does next
          arg,                       \* the item a producer is enqueueing
          ticket,                    \* the ticket a thread drew
          ret,                       \* uo_queue_enqueue's last return value
          got,                       \* uo_queue_dequeue's return value
          ledger, due                \* history

vars == <<enqueue_sem, dequeue_sem, head, tail, items, pc, arg, ticket, ret,
          got, ledger, due>>

Threads == Producers \cup Consumers
Slots   == 0 .. Capacity - 1
\* mutation: the ring is one slot short
SlotShort(t) == t % (Capacity - 1)
Slot(t) == t % Capacity
Sizes   == 0 .. SizeMod - 1

TypeOK ==
    /\ enqueue_sem \in 0 .. Capacity
    /\ dequeue_sem \in 0 .. Capacity
    /\ head \in Sizes
    /\ tail \in Sizes
    /\ items \in [Slots -> Items \cup {NoItem}]
    /\ pc \in [Threads -> {"idle", "ticket", "access", "post"}]
    /\ arg \in [Producers -> Items \cup {NoItem}]
    /\ ticket \in [Threads -> Sizes]
    /\ ret \in [Producers -> BOOLEAN]
    /\ got \in [Consumers -> Items \cup {NoItem}]
    /\ ledger \in Seq(Items)
    /\ due \in [Consumers -> Items \cup {NoItem}]

-----------------------------------------------------------------------------
(* uo_queue_create, uo_cb_queue_init                                       *)
Init ==
    /\ enqueue_sem = Capacity
    /\ dequeue_sem = 0
    /\ head = 0
    /\ tail = 0
    /\ items = [s \in Slots |-> NoItem]
    /\ pc = [t \in Threads |-> "idle"]
    /\ arg = [p \in Producers |-> NoItem]
    /\ ticket = [t \in Threads |-> 0]
    /\ ret = [p \in Producers |-> TRUE]
    /\ got = [c \in Consumers |-> NoItem]
    /\ ledger = <<>>
    /\ due = [c \in Consumers |-> NoItem]

(* sem_wait or a successful sem_trywait on enqueue_sem                     *)
EnqueueWait(p, item) ==
    /\ pc[p] = "idle"
    /\ enqueue_sem > 0
    /\ enqueue_sem' = enqueue_sem - 1
    /\ arg' = [arg EXCEPT ![p] = item]
    /\ pc' = [pc EXCEPT ![p] = "ticket"]
    /\ UNCHANGED <<dequeue_sem, head, tail, items, ticket, ret, got, ledger, due>>

\* mutation: the early return after a failed sem_trywait is missing
EnqueueFullGoesOn(p) ==
    /\ pc[p] = "idle"
    /\ enqueue_sem = 0
    /\ arg' = [arg EXCEPT ![p] = CHOOSE item \in Items : TRUE]
    /\ pc' = [pc EXCEPT ![p] = "ticket"]
    /\ UNCHANGED <<enqueue_sem, dequeue_sem, head, tail, items, ticket, ret, got,
                   ledger, due>>

(* sem_trywait fails: no free slot, the call returns false                 *)
EnqueueFull(p) ==
    /\ pc[p] = "idle"
    /\ enqueue_sem = 0
    /\ ret' = [ret EXCEPT ![p] = FALSE]
    /\ UNCHANGED <<enqueue_sem, dequeue_sem, head, tail, items, pc, arg, ticket,
                   got, ledger, due>>

(* head = atomic_fetch_add(&queue->head, 1)                                *)
EnqueueTicket(p) ==
    /\ pc[p] = "ticket"
    /\ ticket' = [ticket EXCEPT ![p] = head]
    /\ head' = (head + 1) % SizeMod
    /\ ledger' = Append(ledger, arg[p])
    /\ pc' = [pc EXCEPT ![p] = "access"]
    /\ UNCHANGED <<enqueue_sem, dequeue_sem, tail, items, arg, ret, got, due>>

(* queue->items[head % queue->capasity] = item                             *)
EnqueueWrite(p) ==
    /\ pc[p] = "access"
    /\ items' = [items EXCEPT ![Slot(ticket[p])] = arg[p]]
    /\ pc' = [pc EXCEPT ![p] = "post"]
    /\ UNCHANGED <<enqueue_sem, dequeue_sem, head, tail, arg, ticket, ret, got,
                   ledger, due>>

\* mutation: the sem_post is missing
EnqueuePostLost(p) ==
    /\ pc[p] = "post"
    /\ pc' = [pc EXCEPT ![p] = "idle"]
    /\ arg' = [arg EXCEPT ![p] = NoItem]
    /\ UNCHANGED <<enqueue_sem, dequeue_sem, head, tail, items, ticket, ret, got,
                   ledger, due>>

(* sem_post(&queue->dequeue_sem), return true                              *)
EnqueuePost(p) ==
    /\ pc[p] = "post"
    /\ dequeue_sem' = dequeue_sem + 1
    /\ ret' = [ret EXCEPT ![p] = TRUE]
    /\ arg' = [arg EXCEPT ![p] = NoItem]
    /\ pc' = [pc EXCEPT ![p] = "idle"]
    /\ UNCHANGED <<enqueue_sem, head, tail, items, ticket, got, ledger, due>>

(* sem_wait, or a successful sem_trywait or sem_timedwait on dequeue_sem   *)
DequeueWait(c) ==
    /\ pc[c] = "idle"
    /\ dequeue_sem > 0
    /\ dequeue_sem' = dequeue_sem - 1
    /\ got' = [got EXCEPT ![c] = NoItem]
    /\ due' = [due EXCEPT ![c] = NoItem]
    /\ pc' = [pc EXCEPT ![c] = "ticket"]
    /\ UNCHANGED <<enqueue_sem, head, tail, items, arg, ticket, ret, ledger>>

(* sem_trywait fails, or sem_timedwait times out: return NULL              *)
DequeueEmpty(c) ==
    /\ pc[c] = "idle"
    /\ dequeue_sem = 0
    /\ got' = [got EXCEPT ![c] = NoItem]
    /\ due' = [due EXCEPT ![c] = NoItem]
    /\ UNCHANGED <<enqueue_sem, dequeue_sem, head, tail, items, pc, arg, ticket,
                   ret, ledger>>

(* tail = atomic_fetch_add(&queue->tail, 1)                                *)
DequeueTicket(c) ==
    /\ pc[c] = "ticket"
    /\ ticket' = [ticket EXCEPT ![c] = tail]
    /\ tail' = (tail + 1) % SizeMod
    /\ due' = [due EXCEPT ![c] = Head(ledger)]
    /\ ledger' = Tail(ledger)
    /\ pc' = [pc EXCEPT ![c] = "access"]
    /\ UNCHANGED <<enqueue_sem, dequeue_sem, head, items, arg, ret, got>>

(* item = queue->items[tail % queue->capasity]                             *)
DequeueRead(c) ==
    /\ pc[c] = "access"
    /\ got' = [got EXCEPT ![c] = items[Slot(ticket[c])]]
    /\ pc' = [pc EXCEPT ![c] = "post"]
    /\ UNCHANGED <<enqueue_sem, dequeue_sem, head, tail, items, arg, ticket, ret,
                   ledger, due>>

(* sem_post(&queue->enqueue_sem), return item                              *)
DequeuePost(c) ==
    /\ pc[c] = "post"
    /\ enqueue_sem' = enqueue_sem + 1
    /\ pc' = [pc EXCEPT ![c] = "idle"]
    /\ UNCHANGED <<dequeue_sem, head, tail, items, arg, ticket, ret, got, ledger,
                   due>>

Enqueue(p) ==
    \/ \E item \in Items : EnqueueWait(p, item)
    \/ EnqueueFull(p)
    \/ EnqueueTicket(p)
    \/ EnqueueWrite(p)
    \/ EnqueuePost(p)

Dequeue(c) ==
    \/ DequeueWait(c)
    \/ DequeueEmpty(c)
    \/ DequeueTicket(c)
    \/ DequeueRead(c)
    \/ DequeuePost(c)

Next ==
    \/ \E p \in Producers : Enqueue(p)
    \/ \E c \in Consumers : Dequeue(c)

Spec == Init /\ [][Next]_vars

(* A thread that passed its semaphore runs on: nothing between the wait    *)
(* and the post blocks.  Nobody is obliged to call the queue.              *)
FairSpec ==
    /\ Spec
    /\ \A p \in Producers : WF_vars(EnqueueTicket(p) \/ EnqueueWrite(p) \/ EnqueuePost(p))
    /\ \A c \in Consumers : WF_vars(DequeueTicket(c) \/ DequeueRead(c) \/ DequeuePost(c))

-----------------------------------------------------------------------------
Busy(S, labels) == {t \in S : pc[t] \in labels}

(* No token is lost or duplicated: the two semaphores and the threads that *)
(* are inside a call hold Capacity tokens between them, so a call that     *)
(* blocks is always owed a sem_post by somebody (uo_queue.c:41,47,57,63).  *)
TokensConserved ==
    enqueue_sem + dequeue_sem + Cardinality(Busy(Threads, {"ticket", "access", "post"}))
        = Capacity

(* Every filled slot has its own ticket: the tickets drawn by producers    *)
(* and not yet by consumers are exactly the tokens on the dequeue side and *)
(* the calls about to use or to return one.  A consumer therefore never    *)
(* draws a ticket no producer drew before it (uo_queue.c:45,61).           *)
TicketsMatchTokens ==
    Len(ledger) = dequeue_sem + Cardinality(Busy(Producers, {"access", "post"}))
                              + Cardinality(Busy(Consumers, {"ticket"}))

(* The queue never stays full for every producer and empty for every       *)
(* consumer: a thread that took a token gives one to the other side, so a  *)
(* blocked sem_wait is not the end of the queue (uo_queue.c:41,57).        *)
TokensReturn ==
    (enqueue_sem = 0 /\ dequeue_sem = 0) ~> (enqueue_sem > 0 \/ dequeue_sem > 0)

(* The item a dequeue returns is the one that was enqueued under the       *)
(* ticket of the same number: nothing is lost, duplicated or reordered     *)
(* (uo_queue.c:46,62).                                                     *)
DequeuedInOrder ==
    \A c \in Consumers : pc[c] = "post" => got[c] = due[c]

-----------------------------------------------------------------------------
(* Refinement mapping for one producer and one consumer: the abstract      *)
(* queue holds the slots written and not yet read.                         *)
Written == head - Cardinality(Busy(Producers, {"access"}))
Read    == tail - Cardinality(Busy(Consumers, {"access"}))

SlotsHeld ==
    [i \in 1 .. (Written - Read) % SizeMod |-> items[Slot((Read + i - 1) % SizeMod)]]

Fifo == INSTANCE BoundedFifo WITH queue <- SlotsHeld, taken <- got

(* The ring with its semaphores implements the bounded FIFO.               *)
ImplementsFifo == Fifo!Spec
=============================================================================
