---------------------------- MODULE UoQueueProofs ----------------------------
(***************************************************************************)
(* Proofs about UoQueue for every set of threads, every item set and every *)
(* capacity.                                                               *)
(***************************************************************************)
EXTENDS UoQueue, NaturalFacts, FiniteSetTheorems, TLAPS

Labels == {"idle", "ticket", "access", "post"}

(* How a count of threads by label changes when one thread moves on.       *)
LEMMA CountStep ==
    ASSUME NEW S, S \subseteq Threads, NEW t \in Threads, NEW l \in Labels, NEW L,
           pc \in [Threads -> Labels], pc' = [pc EXCEPT ![t] = l]
    PROVE  /\ Cardinality(Busy(S, L)) \in Nat
           /\ Cardinality(Busy(S, L)') \in Nat
           /\ t \notin S => Cardinality(Busy(S, L)') = Cardinality(Busy(S, L))
           /\ t \in S /\ (pc[t] \in L <=> l \in L)
                => Cardinality(Busy(S, L)') = Cardinality(Busy(S, L))
           /\ t \in S /\ pc[t] \notin L /\ l \in L
                => Cardinality(Busy(S, L)') = Cardinality(Busy(S, L)) + 1
           /\ t \in S /\ pc[t] \in L /\ l \notin L
                => Cardinality(Busy(S, L)') = Cardinality(Busy(S, L)) - 1
<1> DEFINE A == Busy(S, L)
           B == Busy(S, L)'
<1>1. IsFiniteSet(Threads)
  BY QueueConstants, FS_Union DEF Threads
<1>2. A \subseteq Threads /\ B \subseteq Threads
  BY DEF Busy
<1>3. IsFiniteSet(A) /\ IsFiniteSet(B)
  BY <1>1, <1>2, FS_Subset
<1>4. Cardinality(A) \in Nat /\ Cardinality(B) \in Nat
  BY <1>3, FS_CardinalityType
<1>5. t \notin S => B = A
  BY DEF Busy
<1>6. t \in S /\ (pc[t] \in L <=> l \in L) => B = A
  BY DEF Busy
<1>7. ASSUME t \in S, pc[t] \notin L, l \in L
      PROVE  Cardinality(B) = Cardinality(A) + 1
  <2>1. B = A \cup {t} /\ t \notin A
    BY <1>7 DEF Busy
  <2> QED
    BY <2>1, <1>3, FS_AddElement
<1>8. ASSUME t \in S, pc[t] \in L, l \notin L
      PROVE  Cardinality(B) = Cardinality(A) - 1
  <2>1. B = A \ {t} /\ t \in A
    BY <1>8 DEF Busy
  <2> QED
    BY <2>1, <1>3, FS_RemoveElement
<1> QED
  BY <1>4, <1>5, <1>6, <1>7, <1>8

(* No thread is inside a call when every thread is idle.                   *)
LEMMA CountNothing ==
    ASSUME NEW S, NEW L, \A t \in S : pc[t] \notin L
    PROVE  Cardinality(Busy(S, L)) = 0
<1>1. Busy(S, L) = {}
  BY DEF Busy
<1> QED
  BY <1>1, FS_EmptySet

-----------------------------------------------------------------------------
(* A producer that has its token carries a real item to its slot.          *)
ArgIsItem ==
    \A p \in Producers : pc[p] \in {"ticket", "access"} => arg[p] \in Items

(* The inductive invariant of the token and ticket accounting.             *)
TokenInv ==
    /\ TypeOK
    /\ ArgIsItem
    /\ TokensConserved
    /\ TicketsMatchTokens

Calls == {"ticket", "access", "post"}

(* The token invariant holds in a queue just created.                      *)
LEMMA TokenInit == Init => TokenInv
<1> SUFFICES ASSUME Init PROVE TokenInv
  OBVIOUS
<1>0. Capacity \in Nat \ {0} /\ SizeMod \in Nat /\ SizeMod > 0
  BY QueueConstants, CapacityDividesSize
<1>1. TypeOK
  BY <1>0 DEF Init, TypeOK, Sizes, Slots, Threads
<1>2. ArgIsItem
  BY DEF Init, ArgIsItem, Threads
<1>3. \A t \in Threads : pc[t] = "idle"
  BY DEF Init
<1>4. TokensConserved
  <2>1. Cardinality(Busy(Threads, {"ticket", "access", "post"})) = 0
    BY <1>3, CountNothing
  <2> QED
    BY <2>1, <1>0 DEF Init, TokensConserved
<1>5. TicketsMatchTokens
  <2>1. Cardinality(Busy(Producers, {"access", "post"})) = 0
    BY <1>3, CountNothing DEF Threads
  <2>2. Cardinality(Busy(Consumers, {"ticket"})) = 0
    BY <1>3, CountNothing DEF Threads
  <2> QED
    BY <2>1, <2>2 DEF Init, TicketsMatchTokens
<1> QED
  BY <1>1, <1>2, <1>4, <1>5 DEF TokenInv

(* Every step of a producer or consumer keeps it.                          *)
LEMMA TokenNext == TokenInv /\ [Next]_vars => TokenInv'
<1> SUFFICES ASSUME TokenInv, [Next]_vars PROVE TokenInv'
  OBVIOUS
<1> DEFINE T == Cardinality(Busy(Threads, {"ticket", "access", "post"}))
           P == Cardinality(Busy(Producers, {"access", "post"}))
           C == Cardinality(Busy(Consumers, {"ticket"}))
<1>0. /\ Capacity \in Nat \ {0} /\ SizeMod \in Nat /\ SizeMod > 0
      /\ Producers \subseteq Threads /\ Consumers \subseteq Threads
      /\ Producers \cap Consumers = {} /\ NoItem \notin Items
  BY QueueConstants, CapacityDividesSize DEF Threads
<1>m. \A n \in Nat : n % SizeMod \in Sizes /\ n % Capacity \in Slots
  BY <1>0 DEF Sizes, Slots
<1>1. /\ pc \in [Threads -> Labels]
      /\ ledger \in Seq(Items)
      /\ enqueue_sem + dequeue_sem + T = Capacity
      /\ Len(ledger) = dequeue_sem + P + C
      /\ enqueue_sem \in Nat /\ dequeue_sem \in Nat
  BY DEF TokenInv, TypeOK, TokensConserved, TicketsMatchTokens, Labels
<1> HIDE DEF T, P, C
<1>2. ASSUME NEW t \in Threads, NEW l \in Labels, pc' = [pc EXCEPT ![t] = l]
      PROVE  /\ T \in Nat /\ T' \in Nat /\ P \in Nat /\ P' \in Nat /\ C \in Nat /\ C' \in Nat
             /\ pc[t] = "idle" /\ l = "ticket" => T' = T + 1
             /\ pc[t] \in Calls /\ l \in Calls => T' = T
             /\ pc[t] = "post" /\ l = "idle" => T' = T - 1
             /\ t \in Producers => C' = C
             /\ t \in Consumers => P' = P
             /\ t \in Producers /\ pc[t] = "idle" /\ l = "ticket" => P' = P
             /\ t \in Producers /\ pc[t] = "ticket" /\ l = "access" => P' = P + 1
             /\ t \in Producers /\ pc[t] = "access" /\ l = "post" => P' = P
             /\ t \in Producers /\ pc[t] = "post" /\ l = "idle" => P' = P - 1
             /\ t \in Consumers /\ pc[t] = "idle" /\ l = "ticket" => C' = C + 1
             /\ t \in Consumers /\ pc[t] = "ticket" /\ l = "access" => C' = C - 1
             /\ t \in Consumers /\ pc[t] \in {"access", "post"} /\ l # "ticket" => C' = C
  <2>1. /\ T \in Nat /\ T' \in Nat
        /\ pc[t] \notin Calls /\ l \in Calls => T' = T + 1
        /\ pc[t] \in Calls /\ l \in Calls => T' = T
        /\ pc[t] \in Calls /\ l \notin Calls => T' = T - 1
    <3>1. Threads \subseteq Threads /\ pc \in [Threads -> Labels]
      BY <1>1
    <3> QED
      BY <3>1, <1>2, CountStep DEF T, Calls
  <2>2. /\ P \in Nat /\ P' \in Nat
        /\ t \notin Producers => P' = P
        /\ t \in Producers /\ (pc[t] \in {"access", "post"} <=> l \in {"access", "post"})
             => P' = P
        /\ t \in Producers /\ pc[t] \notin {"access", "post"} /\ l \in {"access", "post"}
             => P' = P + 1
        /\ t \in Producers /\ pc[t] \in {"access", "post"} /\ l \notin {"access", "post"}
             => P' = P - 1
    <3>1. Producers \subseteq Threads /\ pc \in [Threads -> Labels]
      BY <1>0, <1>1
    <3> QED
      BY <3>1, <1>2, CountStep DEF P
  <2>3. /\ C \in Nat /\ C' \in Nat
        /\ t \notin Consumers => C' = C
        /\ t \in Consumers /\ (pc[t] \in {"ticket"} <=> l \in {"ticket"}) => C' = C
        /\ t \in Consumers /\ pc[t] \notin {"ticket"} /\ l \in {"ticket"} => C' = C + 1
        /\ t \in Consumers /\ pc[t] \in {"ticket"} /\ l \notin {"ticket"} => C' = C - 1
    <3>1. Consumers \subseteq Threads /\ pc \in [Threads -> Labels]
      BY <1>0, <1>1
    <3> QED
      BY <3>1, <1>2, CountStep DEF C
  <2> QED
    BY <2>1, <2>2, <2>3, <1>0 DEF Calls
<1>3. ASSUME TypeOK', ArgIsItem', enqueue_sem' + dequeue_sem' + T' = Capacity,
             Len(ledger') = dequeue_sem' + P' + C'
      PROVE  TokenInv'
  BY <1>3 DEF TokenInv, TokensConserved, TicketsMatchTokens, T, P, C
<1>a. \A p \in Producers : pc[p] \in {"ticket", "access"} => arg[p] \in Items
  BY DEF TokenInv, ArgIsItem
<1>b. TypeOK
  BY DEF TokenInv
<1>4. ASSUME NEW p \in Producers, NEW item \in Items, EnqueueWait(p, item) PROVE TokenInv'
  <2>1. T' = T + 1 /\ P' = P /\ C' = C /\ T' \in Nat /\ T \in Nat /\ P \in Nat /\ C \in Nat
    BY <1>0, <1>2, <1>4 DEF EnqueueWait, Labels
  <2>2. ArgIsItem'
    BY <1>4, <1>a, <1>b DEF EnqueueWait, ArgIsItem, TypeOK
  <2>3. TypeOK'
    BY <1>0, <1>1, <1>4, <1>b, <2>1 DEF EnqueueWait, TypeOK
  <2> QED
    BY <1>1, <1>3, <1>4, <2>1, <2>2, <2>3 DEF EnqueueWait
<1>5. ASSUME NEW p \in Producers, EnqueueFull(p) PROVE TokenInv'
  <2>1. UNCHANGED <<T, P, C>>
    BY <1>5 DEF EnqueueFull, T, P, C, Busy
  <2>2. TypeOK' /\ ArgIsItem'
    BY <1>5, <1>a, <1>b DEF EnqueueFull, TypeOK, ArgIsItem
  <2> QED
    BY <1>1, <1>3, <1>5, <2>1, <2>2 DEF EnqueueFull
<1>6. ASSUME NEW p \in Producers, EnqueueTicket(p) PROVE TokenInv'
  <2>1. T' = T /\ P' = P + 1 /\ C' = C /\ T \in Nat /\ P \in Nat /\ C \in Nat
    BY <1>0, <1>2, <1>6 DEF EnqueueTicket, Labels, Calls
  <2>2. ArgIsItem'
    BY <1>6, <1>a, <1>b DEF EnqueueTicket, ArgIsItem, TypeOK
  <2>3. ledger' \in Seq(Items) /\ Len(ledger') = Len(ledger) + 1
    BY <1>1, <1>6, <1>a DEF EnqueueTicket
  <2>4. TypeOK'
    <3>1. head \in Sizes /\ head + 1 \in Nat
      BY <1>b DEF TypeOK, Sizes
    <3>2. head' \in Sizes
      BY <1>m, <1>6, <3>1 DEF EnqueueTicket
    <3> QED
      BY <1>6, <1>b, <2>3, <3>1, <3>2 DEF EnqueueTicket, TypeOK
  <2> QED
    BY <1>1, <1>3, <1>6, <2>1, <2>2, <2>3, <2>4 DEF EnqueueTicket
<1>7. ASSUME NEW p \in Producers, EnqueueWrite(p) PROVE TokenInv'
  <2>1. T' = T /\ P' = P /\ C' = C /\ T \in Nat /\ P \in Nat /\ C \in Nat
    BY <1>0, <1>2, <1>7 DEF EnqueueWrite, Labels, Calls
  <2>2. TypeOK' /\ ArgIsItem'
    <3>1. enqueue_sem' \in 0..Capacity /\ dequeue_sem' \in 0..Capacity
      BY <1>0, <1>1, <1>7, <2>1 DEF EnqueueWrite
    <3>2. TypeOK'
      BY <1>0, <1>1, <1>7, <1>b, <3>1 DEF EnqueueWrite, TypeOK, Sizes
    <3>3. ArgIsItem'
      BY <1>7, <1>a, <1>b DEF EnqueueWrite, TypeOK, ArgIsItem
    <3> QED
      BY <3>2, <3>3
  <2> QED
    BY <1>1, <1>3, <1>7, <2>1, <2>2 DEF EnqueueWrite
<1>8. ASSUME NEW p \in Producers, EnqueuePost(p) PROVE TokenInv'
  <2>1. T' = T - 1 /\ P' = P - 1 /\ C' = C /\ T \in Nat /\ P \in Nat /\ C \in Nat /\ T' \in Nat
    BY <1>0, <1>2, <1>8 DEF EnqueuePost, Labels
  <2>2. TypeOK' /\ ArgIsItem'
    <3>1. enqueue_sem' \in 0..Capacity /\ dequeue_sem' \in 0..Capacity
      BY <1>0, <1>1, <1>8, <2>1 DEF EnqueuePost
    <3>2. TypeOK'
      BY <1>0, <1>1, <1>8, <1>b, <3>1 DEF EnqueuePost, TypeOK, Sizes
    <3>3. ArgIsItem'
      BY <1>0, <1>8, <1>a, <1>b DEF EnqueuePost, TypeOK, ArgIsItem
    <3> QED
      BY <3>2, <3>3
  <2> QED
    BY <1>1, <1>3, <1>8, <2>1, <2>2 DEF EnqueuePost
<1>9. ASSUME NEW c \in Consumers, DequeueWait(c) PROVE TokenInv'
  <2>1. T' = T + 1 /\ P' = P /\ C' = C + 1 /\ T \in Nat /\ P \in Nat /\ C \in Nat
    BY <1>0, <1>2, <1>9 DEF DequeueWait, Labels
  <2>2. TypeOK' /\ ArgIsItem'
    <3>1. enqueue_sem' \in 0..Capacity /\ dequeue_sem' \in 0..Capacity
      BY <1>0, <1>1, <1>9, <2>1 DEF DequeueWait
    <3>2. TypeOK'
      BY <1>0, <1>1, <1>9, <1>b, <3>1 DEF DequeueWait, TypeOK, Sizes
    <3>3. ArgIsItem'
      BY <1>0, <1>9, <1>a, <1>b DEF DequeueWait, TypeOK, ArgIsItem
    <3> QED
      BY <3>2, <3>3
  <2> QED
    BY <1>1, <1>3, <1>9, <2>1, <2>2 DEF DequeueWait
<1>10. ASSUME NEW c \in Consumers, DequeueEmpty(c) PROVE TokenInv'
  <2>1. UNCHANGED <<T, P, C>>
    BY <1>10 DEF DequeueEmpty, T, P, C, Busy
  <2>2. TypeOK' /\ ArgIsItem'
    BY <1>10, <1>a, <1>b DEF DequeueEmpty, TypeOK, ArgIsItem
  <2> QED
    BY <1>1, <1>3, <1>10, <2>1, <2>2 DEF DequeueEmpty
<1>11. ASSUME NEW c \in Consumers, DequeueTicket(c) PROVE TokenInv'
  <2>1. T' = T /\ P' = P /\ C' = C - 1 /\ T \in Nat /\ P \in Nat /\ C \in Nat /\ C' \in Nat
    BY <1>0, <1>2, <1>11 DEF DequeueTicket, Labels, Calls
  <2>2. ledger # <<>>
    BY <1>1, <2>1
  <2>3. /\ Head(ledger) \in Items /\ Tail(ledger) \in Seq(Items)
        /\ Len(Tail(ledger)) = Len(ledger) - 1
    BY <1>1, <2>2
  <2>4. TypeOK' /\ ArgIsItem'
    <3>1. enqueue_sem' \in 0..Capacity /\ dequeue_sem' \in 0..Capacity
      BY <1>0, <1>1, <1>11, <2>1 DEF DequeueTicket
    <3>2. TypeOK'
      <4>1. tail \in Sizes /\ tail + 1 \in Nat
        BY <1>b DEF TypeOK, Sizes
      <4>2. tail' \in Sizes
        BY <1>m, <1>11, <4>1 DEF DequeueTicket
      <4> QED
        BY <1>11, <1>b, <2>3, <3>1, <4>1, <4>2 DEF DequeueTicket, TypeOK
    <3>3. ArgIsItem'
      BY <1>0, <1>11, <1>a, <1>b DEF DequeueTicket, TypeOK, ArgIsItem
    <3> QED
      BY <3>2, <3>3
  <2> QED
    BY <1>1, <1>3, <1>11, <2>1, <2>3, <2>4 DEF DequeueTicket
<1>12. ASSUME NEW c \in Consumers, DequeueRead(c) PROVE TokenInv'
  <2>1. T' = T /\ P' = P /\ C' = C /\ T \in Nat /\ P \in Nat /\ C \in Nat
    BY <1>0, <1>2, <1>12 DEF DequeueRead, Labels, Calls
  <2>2. items[Slot(ticket[c])] \in Items \cup {NoItem}
    BY <1>0, <1>m, <1>b DEF TypeOK, Slot, Sizes
  <2>3. TypeOK' /\ ArgIsItem'
    BY <1>0, <1>12, <1>a, <1>b, <2>2 DEF DequeueRead, TypeOK, ArgIsItem
  <2> QED
    BY <1>1, <1>3, <1>12, <2>1, <2>3 DEF DequeueRead
<1>13. ASSUME NEW c \in Consumers, DequeuePost(c) PROVE TokenInv'
  <2>1. T' = T - 1 /\ P' = P /\ C' = C /\ T \in Nat /\ P \in Nat /\ C \in Nat /\ T' \in Nat
    BY <1>0, <1>2, <1>13 DEF DequeuePost, Labels
  <2>2. TypeOK' /\ ArgIsItem'
    <3>1. enqueue_sem' \in 0..Capacity /\ dequeue_sem' \in 0..Capacity
      BY <1>0, <1>1, <1>13, <2>1 DEF DequeuePost
    <3>2. TypeOK'
      BY <1>0, <1>1, <1>13, <1>b, <3>1 DEF DequeuePost, TypeOK, Sizes
    <3>3. ArgIsItem'
      BY <1>0, <1>13, <1>a, <1>b DEF DequeuePost, TypeOK, ArgIsItem
    <3> QED
      BY <3>2, <3>3
  <2> QED
    BY <1>1, <1>3, <1>13, <2>1, <2>2 DEF DequeuePost
<1>14. ASSUME UNCHANGED vars PROVE TokenInv'
  <2>1. UNCHANGED <<T, P, C>>
    BY <1>14 DEF vars, T, P, C, Busy
  <2>2. TypeOK' /\ ArgIsItem'
    BY <1>14, <1>a, <1>b DEF vars, TypeOK, ArgIsItem
  <2> QED
    BY <1>1, <1>3, <1>14, <2>1, <2>2 DEF vars
<1> QED
  BY <1>4, <1>5, <1>6, <1>7, <1>8, <1>9, <1>10, <1>11, <1>12, <1>13, <1>14
     DEF Next, Enqueue, Dequeue

(* Type correctness, and with it the bound on both semaphores: neither can *)
(* count more than Capacity tokens (uo_queue.c:13-14,47,63).               *)
THEOREM TypeCorrect == Spec => []TypeOK
<1>1. TokenInv => TypeOK
  BY DEF TokenInv
<1> QED
  BY <1>1, TokenInit, TokenNext, PTL DEF Spec

(* The semaphores and the calls in progress hold Capacity tokens, however  *)
(* many threads use the queue (uo_queue.c:35-66).                          *)
THEOREM TokensAreConserved == Spec => []TokensConserved
<1>1. TokenInv => TokensConserved
  BY DEF TokenInv
<1> QED
  BY <1>1, TokenInit, TokenNext, PTL DEF Spec

(* The tickets drawn by producers and not yet by consumers are the tokens  *)
(* of the dequeue side: a consumer never draws ahead of the producers.     *)
THEOREM TicketsAreMatched == Spec => []TicketsMatchTokens
<1>1. TokenInv => TicketsMatchTokens
  BY DEF TokenInv
<1> QED
  BY <1>1, TokenInit, TokenNext, PTL DEF Spec

-----------------------------------------------------------------------------
(* One producer and one consumer: the slots between tail and head hold the *)
(* ledger, except the newest one while its producer has drawn the ticket   *)
(* and not yet written; a consumer that drew its ticket still finds its    *)
(* item in the slot.                                                       *)
RingInv(p, c) ==
    /\ head = (tail + Len(ledger)) % SizeMod
    /\ \A i \in 1 .. Len(ledger) :
          (pc[p] = "access" /\ i = Len(ledger)) \/ items[Slot(tail + i - 1)] = ledger[i]
    /\ pc[p] = "access" => /\ Slot(ticket[p]) = Slot(tail + Len(ledger) - 1)
                           /\ ledger[Len(ledger)] = arg[p]
    /\ pc[c] = "access" => /\ tail = (ticket[c] + 1) % SizeMod
                           /\ items[Slot(ticket[c])] = due[c]
    /\ DequeuedInOrder

(* What the token accounting says of the number of filled slots.           *)
LEMMA SpscBounds ==
    ASSUME NEW p, NEW c, Producers = {p}, Consumers = {c}, TokenInv
    PROVE  /\ Len(ledger) \in 0 .. Capacity
           /\ pc[p] \in {"access", "post"} => Len(ledger) >= 1
           /\ pc[c] = "access" => Len(ledger) <= Capacity - 1
           /\ pc[c] = "ticket" => Len(ledger) >= 1 + (IF pc[p] = "access" THEN 1 ELSE 0)
<1> DEFINE T == Cardinality(Busy(Threads, {"ticket", "access", "post"}))
           P == Cardinality(Busy(Producers, {"access", "post"}))
           C == Cardinality(Busy(Consumers, {"ticket"}))
<1>0. Threads = {p, c} /\ p # c
  BY QueueConstants DEF Threads
<1>1. P = IF pc[p] \in {"access", "post"} THEN 1 ELSE 0
  <2>1. Busy(Producers, {"access", "post"}) = IF pc[p] \in {"access", "post"} THEN {p} ELSE {}
    BY DEF Busy
  <2> QED
    BY <2>1, FS_EmptySet, FS_Singleton
<1>2. C = IF pc[c] = "ticket" THEN 1 ELSE 0
  <2>1. Busy(Consumers, {"ticket"}) = IF pc[c] = "ticket" THEN {c} ELSE {}
    BY DEF Busy
  <2> QED
    BY <2>1, FS_EmptySet, FS_Singleton
<1>3. T = (IF pc[p] \in Calls THEN 1 ELSE 0) + (IF pc[c] \in Calls THEN 1 ELSE 0)
  <2> DEFINE B == Busy(Threads, {"ticket", "access", "post"})
  <2>1. CASE pc[p] \in Calls /\ pc[c] \in Calls
    <3>1. B = {p} \cup {c} /\ c \notin {p}
      BY <1>0, <2>1 DEF Busy, Calls
    <3>a. IsFiniteSet({p}) /\ Cardinality({p}) = 1
      BY FS_Singleton
    <3>2. Cardinality({p} \cup {c}) = Cardinality({p}) + 1
      BY <3>1, <3>a, FS_AddElement
    <3> QED
      BY <2>1, <3>1, <3>2, <3>a
  <2>2. CASE pc[p] \in Calls /\ pc[c] \notin Calls
    <3>1. B = {p}
      BY <1>0, <2>2 DEF Busy, Calls
    <3> QED
      BY <2>2, <3>1, FS_Singleton
  <2>3. CASE pc[p] \notin Calls /\ pc[c] \in Calls
    <3>1. B = {c}
      BY <1>0, <2>3 DEF Busy, Calls
    <3> QED
      BY <2>3, <3>1, FS_Singleton
  <2>4. CASE pc[p] \notin Calls /\ pc[c] \notin Calls
    <3>1. B = {}
      BY <1>0, <2>4 DEF Busy, Calls
    <3> QED
      BY <2>4, <3>1, FS_EmptySet
  <2> QED
    BY <2>1, <2>2, <2>3, <2>4
<1>4. /\ enqueue_sem + dequeue_sem + T = Capacity
      /\ Len(ledger) = dequeue_sem + P + C
      /\ enqueue_sem \in Nat /\ dequeue_sem \in Nat /\ Capacity \in Nat
      /\ ledger \in Seq(Items)
  BY QueueConstants DEF TokenInv, TypeOK, TokensConserved, TicketsMatchTokens
<1> HIDE DEF T, P, C
<1> QED
  BY <1>1, <1>2, <1>3, <1>4 DEF Calls

(* The ring invariant holds in a queue just created.                       *)
LEMMA RingInit ==
    ASSUME NEW p, NEW c, Producers = {p}, Consumers = {c}
    PROVE  Init => RingInv(p, c)
<1> SUFFICES ASSUME Init PROVE RingInv(p, c)
  OBVIOUS
<1>1. pc[p] = "idle" /\ pc[c] = "idle" /\ ledger = <<>> /\ head = 0 /\ tail = 0
  BY DEF Init, Threads
<1>2. SizeMod \in Nat /\ SizeMod > 0
  BY QueueConstants, CapacityDividesSize
<1>3. 0 % SizeMod = 0
  BY <1>2
<1>4. DequeuedInOrder
  BY <1>1 DEF DequeuedInOrder
<1> QED
  BY <1>1, <1>3, <1>4 DEF RingInv

(* A counter reduced modulo SizeMod keeps its slot.                        *)
LEMMA SlotOfReduced ==
    ASSUME NEW a \in Nat, NEW j \in Int
    PROVE  /\ Slot((a % SizeMod) + j) = Slot(a + j)
           /\ ((a % SizeMod) + j) % SizeMod = (a + j) % SizeMod
           /\ a % SizeMod \in Nat
<1>1. PICK k \in Nat \ {0} : SizeMod = k * Capacity
  BY CapacityDividesSize
<1>2. Capacity \in Nat \ {0} /\ SizeMod \in Nat \ {0}
  BY QueueConstants, CapacityDividesSize
<1>0. a \in Int
  OBVIOUS
<1>3. Slot((a % SizeMod) + j) = Slot(a + j)
  BY <1>0, <1>1, <1>2, ModAdd DEF Slot
<1>4. ((a % SizeMod) + j) % SizeMod = (a + j) % SizeMod
  <2>1. SizeMod = 1 * SizeMod
    BY <1>2
  <2>2. 1 \in Nat \ {0}
    OBVIOUS
  <2>3. ((a % (1 * SizeMod)) + j) % SizeMod = (a + j) % SizeMod
    BY <2>2, <1>0, <1>2, ModAdd, Zenon
  <2> QED
    BY <2>1, <2>3, Zenon
<1> QED
  BY <1>2, <1>3, <1>4

(* Every step of the one producer and the one consumer keeps it.           *)
LEMMA RingNext ==
    ASSUME NEW p, NEW c, Producers = {p}, Consumers = {c}
    PROVE  TokenInv /\ TokenInv' /\ RingInv(p, c) /\ [Next]_vars => RingInv(p, c)'
<1> SUFFICES ASSUME TokenInv, TokenInv', RingInv(p, c), [Next]_vars PROVE RingInv(p, c)'
  OBVIOUS
<1> DEFINE L == Len(ledger)
<1>t. /\ Threads = {p, c} /\ p # c
      /\ Capacity \in Nat \ {0} /\ SizeMod \in Nat \ {0}
  <2>1. Threads = {p, c} /\ p # c
    BY QueueConstants DEF Threads
  <2>2. Capacity \in Nat \ {0} /\ SizeMod \in Nat \ {0}
    BY QueueConstants, CapacityDividesSize
  <2> QED
    BY <2>1, <2>2
<1>y. TypeOK
  BY DEF TokenInv
<1>n. tail \in Nat /\ head \in Nat /\ ticket[p] \in Nat /\ ticket[c] \in Nat
  BY <1>y, <1>t DEF TypeOK, Sizes
<1>l. ledger \in Seq(Items) /\ L \in Nat
  BY <1>y DEF TypeOK
<1>b. /\ L \in 0 .. Capacity
      /\ pc[p] \in {"access", "post"} => L >= 1
      /\ pc[c] = "access" => L <= Capacity - 1
      /\ pc[c] = "ticket" => L >= 1 + (IF pc[p] = "access" THEN 1 ELSE 0)
  BY SpscBounds
<1>r. /\ head = (tail + L) % SizeMod
      /\ \A i \in 1 .. L :
            (pc[p] = "access" /\ i = L) \/ items[Slot(tail + i - 1)] = ledger[i]
      /\ pc[p] = "access" => /\ Slot(ticket[p]) = Slot(tail + L - 1)
                             /\ ledger[L] = arg[p]
      /\ pc[c] = "access" => /\ tail = (ticket[c] + 1) % SizeMod
                             /\ items[Slot(ticket[c])] = due[c]
      /\ DequeuedInOrder
  BY DEF RingInv
<1>1. ASSUME NEW item \in Items, EnqueueWait(p, item) PROVE RingInv(p, c)'
  BY <1>1, <1>r, <1>t, <1>y DEF EnqueueWait, RingInv, DequeuedInOrder, TypeOK
<1>2. ASSUME EnqueueFull(p) PROVE RingInv(p, c)'
  BY <1>2, <1>r DEF EnqueueFull, RingInv, DequeuedInOrder
<1>3. ASSUME EnqueueTicket(p) PROVE RingInv(p, c)'
  <2>1. /\ L' = L + 1 /\ ledger'[L'] = arg[p]
        /\ \A i \in 1 .. L : ledger'[i] = ledger[i]
        /\ L' \in Nat
    BY <1>3, <1>l, <1>y DEF EnqueueTicket, TypeOK
  <2>2. head' = (tail' + L') % SizeMod
    BY <1>3, <1>r, <1>n, <1>l, <2>1, SlotOfReduced DEF EnqueueTicket
  <2>3. Slot(ticket'[p]) = Slot(tail' + L' - 1)
    <3>1. ticket'[p] = (tail + L) % SizeMod
      BY <1>3, <1>r, <1>t, <1>y DEF EnqueueTicket, TypeOK
    <3>2. Slot(((tail + L) % SizeMod) + 0) = Slot((tail + L) + 0)
      <4>1. tail + L \in Nat /\ 0 \in Int
        BY <1>n, <1>l
      <4> QED
        BY <4>1, SlotOfReduced, Zenon
    <3>3. /\ ((tail + L) % SizeMod) + 0 = (tail + L) % SizeMod
          /\ (tail + L) + 0 = tail + L /\ tail' + L' - 1 = tail + L
      BY <1>3, <1>n, <1>l, <1>t, <2>1 DEF EnqueueTicket
    <3> QED
      BY <3>1, <3>2, <3>3
  <2> QED
    BY <1>3, <1>r, <1>t, <1>y, <1>l, <2>1, <2>2, <2>3
       DEF EnqueueTicket, RingInv, DequeuedInOrder, TypeOK
<1>4. ASSUME EnqueueWrite(p) PROVE RingInv(p, c)'
  <2>1. L >= 1 /\ Slot(ticket[p]) = Slot(tail + L - 1) /\ ledger[L] = arg[p]
    BY <1>4, <1>b, <1>r DEF EnqueueWrite
  <2>2. \A i \in 1 .. L - 1 : Slot(tail + i - 1) # Slot(tail + L - 1)
    <3> SUFFICES ASSUME NEW i \in 1 .. L - 1 PROVE Slot(tail + i - 1) # Slot(tail + L - 1)
      OBVIOUS
    <3>1. tail + i - 1 \in Nat /\ L - i \in 1 .. Capacity - 1
      BY <1>n, <1>b, <1>l, <1>t
    <3>2. ((tail + i - 1) + (L - i)) % Capacity # (tail + i - 1) % Capacity
      BY <3>1, <1>t, ModDistinct
    <3>3. (tail + i - 1) + (L - i) = tail + L - 1
      BY <1>n, <1>l
    <3> QED
      BY <3>2, <3>3 DEF Slot
  <2>3. pc[c] = "access" => Slot(ticket[c]) # Slot(tail + L - 1)
    <3> SUFFICES ASSUME pc[c] = "access" PROVE Slot(ticket[c]) # Slot(tail + L - 1)
      OBVIOUS
    <3>1. L \in 1 .. Capacity - 1 /\ L - 1 \in Int /\ ticket[c] + 1 \in Nat
      BY <1>b, <1>l, <2>1, <1>n
    <3>2. Slot(tail + L - 1) = Slot((ticket[c] + 1) + (L - 1))
      <4>1. Slot(((ticket[c] + 1) % SizeMod) + (L - 1)) = Slot((ticket[c] + 1) + (L - 1))
        BY <3>1, SlotOfReduced
      <4>2. tail = (ticket[c] + 1) % SizeMod /\ tail + L - 1 = tail + (L - 1)
        BY <1>r, <1>n, <1>l
      <4> QED
        BY <4>1, <4>2
    <3>3. (ticket[c] + 1) + (L - 1) = ticket[c] + L
      BY <1>n, <1>l
    <3>4. (ticket[c] + L) % Capacity # ticket[c] % Capacity
      BY <3>1, <1>n, <1>t, ModDistinct
    <3> QED
      BY <3>2, <3>3, <3>4 DEF Slot
  <2>4. Slot(tail + L - 1) \in Slots
    <3>1. tail + L - 1 \in Nat
      BY <1>n, <1>l, <2>1
    <3> QED
      BY <3>1, <1>t DEF Slot, Slots
  <2>5. \A i \in 1 .. L : items'[Slot(tail + i - 1)] = ledger[i]
    <3> SUFFICES ASSUME NEW i \in 1 .. L PROVE items'[Slot(tail + i - 1)] = ledger[i]
      OBVIOUS
    <3>1. CASE i = L
      BY <3>1, <1>4, <1>y, <2>1, <2>4 DEF EnqueueWrite, TypeOK
    <3>2. CASE i # L
      <4>1. i \in 1 .. L - 1 /\ items[Slot(tail + i - 1)] = ledger[i]
        BY <3>2, <1>r, <1>l
      <4>2. Slot(tail + i - 1) \in Slots
        <5>1. tail + i - 1 \in Nat
          BY <1>n, <1>l
        <5> QED
          BY <5>1, <1>t DEF Slot, Slots
      <4> QED
        BY <4>1, <4>2, <1>4, <1>y, <2>1, <2>2 DEF EnqueueWrite, TypeOK
    <3> QED
      BY <3>1, <3>2
  <2>6. pc[c] = "access" => items'[Slot(ticket[c])] = due[c]
    <3>1. Slot(ticket[c]) \in Slots
      BY <1>n, <1>t DEF Slot, Slots
    <3> QED
      BY <3>1, <1>4, <1>r, <1>y, <2>1, <2>3 DEF EnqueueWrite, TypeOK
  <2> QED
    BY <1>4, <1>r, <1>t, <1>y, <2>5, <2>6 DEF EnqueueWrite, RingInv, DequeuedInOrder, TypeOK
<1>5. ASSUME EnqueuePost(p) PROVE RingInv(p, c)'
  BY <1>5, <1>r, <1>t, <1>y DEF EnqueuePost, RingInv, DequeuedInOrder, TypeOK
<1>6. ASSUME DequeueWait(c) PROVE RingInv(p, c)'
  BY <1>6, <1>r, <1>t, <1>y DEF DequeueWait, RingInv, DequeuedInOrder, TypeOK
<1>7. ASSUME DequeueEmpty(c) PROVE RingInv(p, c)'
  BY <1>7, <1>r, <1>t, <1>y DEF DequeueEmpty, RingInv, DequeuedInOrder, TypeOK
<1>8. ASSUME DequeueTicket(c) PROVE RingInv(p, c)'
  <2>1. L >= 1 /\ (pc[p] = "access" => L >= 2)
    BY <1>8, <1>b, <1>l DEF DequeueTicket
  <2>2. /\ L' = L - 1 /\ L' \in Nat
        /\ \A i \in 1 .. L' : ledger'[i] = ledger[i + 1]
        /\ Head(ledger) = ledger[1]
    BY <1>8, <1>l, <2>1 DEF DequeueTicket
  <2>3. tail' = (tail + 1) % SizeMod /\ tail + 1 \in Nat
    BY <1>8, <1>n DEF DequeueTicket
  <2>4. ASSUME NEW j \in Int
        PROVE  Slot(tail' + j) = Slot(tail + (1 + j))
    <3>1. Slot(((tail + 1) % SizeMod) + j) = Slot((tail + 1) + j)
      BY <2>3, SlotOfReduced
    <3>2. (tail + 1) + j = tail + (1 + j)
      BY <1>n
    <3> QED
      BY <3>1, <3>2, <2>3
  <2>5. head' = (tail' + L') % SizeMod
    <3>1. (((tail + 1) % SizeMod) + L') % SizeMod = ((tail + 1) + L') % SizeMod
      <4>1. L' \in Int
        BY <2>2
      <4> HIDE DEF L
      <4> QED
        BY <4>1, <2>3, SlotOfReduced, Zenon
    <3>2. (tail + 1) + L' = tail + L
      BY <2>2, <1>n, <1>l
    <3> QED
      BY <3>1, <3>2, <2>3, <1>8, <1>r DEF DequeueTicket
  <2>6. /\ pc'[c] = "access" /\ pc'[p] = pc[p]
        /\ ticket'[c] = tail /\ ticket'[p] = ticket[p]
        /\ due'[c] = ledger[1] /\ items' = items /\ arg' = arg /\ got' = got
    BY <1>8, <1>t, <1>y, <2>2 DEF DequeueTicket, TypeOK
  <2>7. \A i \in 1 .. L' : (pc'[p] = "access" /\ i = L') \/ items'[Slot(tail' + i - 1)] = ledger'[i]
    <3> SUFFICES ASSUME NEW i \in 1 .. L', ~(pc'[p] = "access" /\ i = L')
                 PROVE  items'[Slot(tail' + i - 1)] = ledger'[i]
      OBVIOUS
    <3>1. i + 1 \in 1 .. L /\ (i + 1 = L => i = L') /\ i - 1 \in Int
      BY <2>2, <1>l
    <3>2. items[Slot(tail + (i + 1) - 1)] = ledger[i + 1]
      BY <3>1, <1>r, <2>6
    <3>3. Slot(tail' + (i - 1)) = Slot(tail + (1 + (i - 1)))
      BY <3>1, <2>4
    <3>4. /\ tail' + (i - 1) = tail' + i - 1
          /\ tail + (1 + (i - 1)) = tail + (i + 1) - 1
      <4>1. tail' \in Nat
        BY <2>3, <1>t
      <4> QED
        BY <4>1, <1>n
    <3> QED
      BY <3>2, <3>3, <3>4, <2>2, <2>6
  <2>8. pc'[p] = "access" => /\ Slot(ticket'[p]) = Slot(tail' + L' - 1)
                             /\ ledger'[L'] = arg'[p]
    <3> SUFFICES ASSUME pc'[p] = "access"
                 PROVE  Slot(ticket'[p]) = Slot(tail' + L' - 1) /\ ledger'[L'] = arg'[p]
      OBVIOUS
    <3>1. L >= 2 /\ L' \in 1 .. L' /\ L' + 1 = L /\ L' - 1 \in Int
      BY <2>1, <2>2, <2>6, <1>l
    <3>2. ledger'[L'] = ledger[L]
      BY <3>1, <2>2
    <3>3. Slot(tail' + (L' - 1)) = Slot(tail + (1 + (L' - 1)))
      BY <3>1, <2>4
    <3>4. tail' + (L' - 1) = tail' + L' - 1 /\ tail + (1 + (L' - 1)) = tail + L - 1
      <4>1. tail' \in Nat
        BY <2>3, <1>t
      <4> QED
        BY <4>1, <3>1, <1>n, <2>2
    <3> QED
      BY <3>2, <3>3, <3>4, <2>6, <1>r
  <2>9. items'[Slot(ticket'[c])] = due'[c]
    <3>1. 1 \in 1 .. L /\ (L >= 2 => 1 # L) /\ tail + 1 - 1 = tail
      <4>1. L \in Nat /\ L >= 1 /\ tail \in Nat
        BY <2>1, <1>l, <1>n
      <4> HIDE DEF L
      <4> QED
        BY <4>1
    <3>2. items[Slot(tail + 1 - 1)] = ledger[1]
      BY <3>1, <2>1, <1>r
    <3> QED
      BY <3>1, <3>2, <2>6
  <2>10. DequeuedInOrder'
    BY <2>6 DEF DequeuedInOrder
  <2> QED
    BY <2>3, <2>5, <2>6, <2>7, <2>8, <2>9, <2>10 DEF RingInv
<1>9. ASSUME DequeueRead(c) PROVE RingInv(p, c)'
  BY <1>9, <1>r, <1>t, <1>y DEF DequeueRead, RingInv, DequeuedInOrder, TypeOK
<1>10. ASSUME DequeuePost(c) PROVE RingInv(p, c)'
  BY <1>10, <1>r, <1>t, <1>y DEF DequeuePost, RingInv, DequeuedInOrder, TypeOK
<1>11. ASSUME UNCHANGED vars PROVE RingInv(p, c)'
  BY <1>11, <1>r DEF vars, RingInv, DequeuedInOrder
<1> QED
  BY <1>1, <1>2, <1>3, <1>4, <1>5, <1>6, <1>7, <1>8, <1>9, <1>10, <1>11
     DEF Next, Enqueue, Dequeue

(* With one producer and one consumer every dequeue returns the item of    *)
(* its own ticket, for every capacity that divides the range of size_t     *)
(* (uo_queue.c:45-46,61-62).                                               *)
THEOREM SpscInOrder ==
    ASSUME NEW p, NEW c, Producers = {p}, Consumers = {c}
    PROVE  Spec => []DequeuedInOrder
<1>1. RingInv(p, c) => DequeuedInOrder
  BY DEF RingInv
<1> QED
  BY <1>1, TokenInit, TokenNext, RingInit, RingNext, PTL DEF Spec
-----------------------------------------------------------------------------
(* The slots written and not yet read, oldest first: the item a consumer   *)
(* is about to read, then the ledger, without the item that is still to be *)
(* written.                                                                *)
Writing(p) == IF pc[p] = "access" THEN 1 ELSE 0
Reading(c) == IF pc[c] = "access" THEN 1 ELSE 0
HeldInv(p, c) ==
    LET n == Len(ledger) - Writing(p) + Reading(c) IN
    /\ n \in 0 .. Capacity
    /\ SlotsHeld \in [1 .. n -> Items \cup {NoItem}]
    /\ \A i \in 1 .. n :
          SlotsHeld[i] = IF pc[c] = "access" /\ i = 1 THEN due[c] ELSE ledger[i - Reading(c)]

(* The slots of two numbers that are equal modulo SizeMod are the same.    *)
LEMMA SlotOfMod ==
    ASSUME NEW a \in Int
    PROVE  Slot(a % SizeMod) = Slot(a)
<1>1. PICK k \in Nat \ {0} : SizeMod = k * Capacity
  BY CapacityDividesSize
<1>2. Capacity \in Nat \ {0} /\ 0 \in Int
  BY QueueConstants
<1>3. ((a % (k * Capacity)) + 0) % Capacity = (a + 0) % Capacity
  BY <1>1, <1>2, ModAdd, Zenon
<1>4. a % SizeMod \in Int
  BY QueueConstants, CapacityDividesSize
<1>5. (a % SizeMod) + 0 = a % SizeMod /\ a + 0 = a
  BY <1>4
<1> QED
  BY <1>1, <1>3, <1>5 DEF Slot

(* What is held follows from the two invariants.                           *)
LEMMA RingHeld ==
    ASSUME NEW p, NEW c, Producers = {p}, Consumers = {c}
    PROVE  TokenInv /\ RingInv(p, c) => HeldInv(p, c)
<1> SUFFICES ASSUME TokenInv, RingInv(p, c) PROVE HeldInv(p, c)
  OBVIOUS
<1> DEFINE L == Len(ledger)
           a == Writing(p)
           b == Reading(c)
           n == L - a + b
<1>1. Capacity \in Nat \ {0} /\ SizeMod \in Nat \ {0} /\ SizeMod > Capacity
  <2>1. Capacity \in Nat \ {0} /\ SizeMod \in Nat
    BY QueueConstants
  <2>2. PICK k \in 2 .. SizeMod : SizeMod = k * Capacity
    BY CapacityDividesSize
  <2>3. k * Capacity = Capacity + (k - 1) * Capacity /\ (k - 1) * Capacity >= Capacity
    BY <2>1, <2>2
  <2> QED
    BY <2>1, <2>2, <2>3
<1>2. /\ tail \in Nat /\ head \in Nat /\ ticket[c] \in Nat /\ L \in Nat
      /\ items \in [Slots -> Items \cup {NoItem}] /\ ledger \in Seq(Items)
  BY QueueConstants DEF TokenInv, TypeOK, Sizes, Threads
<1>3. a \in 0 .. 1 /\ b \in 0 .. 1 /\ n \in 0 .. Capacity /\ n \in 0 .. SizeMod - 1
  <2>1. /\ L \in 0 .. Capacity
        /\ pc[p] \in {"access", "post"} => L >= 1
        /\ pc[c] = "access" => L <= Capacity - 1
    BY SpscBounds
  <2>2. a \in 0 .. 1 /\ b \in 0 .. 1 /\ (a = 1 => L >= 1) /\ (b = 1 => L <= Capacity - 1)
    BY <2>1 DEF Writing, Reading
  <2> HIDE DEF L, a, b
  <2> QED
    BY <1>1, <2>1, <2>2
<1>4. Written = head - a /\ Read = tail - b
  <2>1. Busy(Producers, {"access"}) = IF pc[p] = "access" THEN {p} ELSE {}
    BY DEF Busy
  <2>2. Busy(Consumers, {"access"}) = IF pc[c] = "access" THEN {c} ELSE {}
    BY DEF Busy
  <2> QED
    BY <2>1, <2>2, FS_EmptySet, FS_Singleton DEF Written, Read, Writing, Reading
<1>r. /\ head = (tail + L) % SizeMod
      /\ \A i \in 1 .. L :
            (pc[p] = "access" /\ i = L) \/ items[Slot(tail + i - 1)] = ledger[i]
      /\ pc[c] = "access" => /\ tail = (ticket[c] + 1) % SizeMod
                             /\ items[Slot(ticket[c])] = due[c]
  BY DEF RingInv
<1> HIDE DEF L, a, b
<1>5. (Written - Read) % SizeMod = n
  <2> DEFINE q == (tail + L) \div SizeMod
             x == Written - Read
             y == x \div SizeMod
             z == x % SizeMod
  <2>1. q \in Int /\ tail + L = SizeMod * q + head
    <3>1. tail + L \in Int
      BY <1>2
    <3>2. q \in Int /\ tail + L = SizeMod * q + ((tail + L) % SizeMod)
      BY <3>1, <1>1, DivMod, Zenon DEF q
    <3> QED
      BY <3>2, <1>r
  <2>2. y \in Int /\ z \in 0 .. (SizeMod - 1) /\ x = SizeMod * y + z
    <3>1. x \in Int
      BY <1>2, <1>3, <1>4
    <3> QED
      BY <3>1, <1>1, DivMod, Zenon DEF y, z
  <2>3. x = head - a - tail + b
    BY <1>2, <1>3, <1>4 DEF x
  <2> HIDE DEF q, x, y, z
  <2>4. SizeMod * (0 - q) = 0 - SizeMod * q /\ 0 - q \in Int /\ SizeMod * q \in Int
    BY <2>1, <1>1
  <2>5. x = SizeMod * (0 - q) + n
    BY <2>1, <2>3, <2>4, <1>2, <1>3
  <2>6. SizeMod * y + z = SizeMod * (0 - q) + n
    BY <2>2, <2>5
  <2> HIDE DEF n
  <2>7. z = n
    BY <2>2, <2>4, <2>6, <1>1, <1>3, ModUnique
  <2> QED
    BY <2>7 DEF z, x
<1>6. SlotsHeld = [i \in 1 .. n |-> items[Slot((Read + i - 1) % SizeMod)]]
  BY <1>5 DEF SlotsHeld
<1>7. \A i \in 1 .. n : Slot((Read + i - 1) % SizeMod) = Slot(tail + (i - b) - 1)
  <2> SUFFICES ASSUME NEW i \in 1 .. n
               PROVE  Slot((Read + i - 1) % SizeMod) = Slot(tail + (i - b) - 1)
    OBVIOUS
  <2>1. Read + i - 1 \in Int /\ Read + i - 1 = tail + (i - b) - 1
    BY <1>2, <1>3, <1>4
  <2> QED
    BY <2>1, SlotOfMod
<1>8. \A i \in Int : Slot(i) \in Slots
  BY <1>1 DEF Slot, Slots
<1>9. SlotsHeld \in [1 .. n -> Items \cup {NoItem}]
  <2>1. \A i \in 1 .. n : items[Slot(tail + (i - b) - 1)] \in Items \cup {NoItem}
    <3> TAKE i \in 1 .. n
    <3>1. tail + (i - b) - 1 \in Int
      BY <1>2, <1>3
    <3> QED
      BY <3>1, <1>2, <1>8
  <2> QED
    BY <2>1, <1>6, <1>7
<1>10. \A i \in 1 .. n :
          SlotsHeld[i] = IF pc[c] = "access" /\ i = 1 THEN due[c] ELSE ledger[i - b]
  <2> TAKE i \in 1 .. n
  <2>1. SlotsHeld[i] = items[Slot(tail + (i - b) - 1)]
    BY <1>6, <1>7
  <2>2. CASE pc[c] = "access" /\ i = 1
    <3>1. tail + (i - b) - 1 = tail - 1
      BY <2>2, <1>2 DEF b, Reading
    <3>2. ticket[c] + 1 \in Nat /\ (0 - 1) \in Int
      BY <1>2
    <3>3. Slot(((ticket[c] + 1) % SizeMod) + (0 - 1)) = Slot((ticket[c] + 1) + (0 - 1))
      BY <3>2, SlotOfReduced, Zenon
    <3>4. tail + (0 - 1) = tail - 1 /\ (ticket[c] + 1) + (0 - 1) = ticket[c]
      BY <1>2
    <3>5. Slot(tail - 1) = Slot(ticket[c])
      BY <3>3, <3>4, <1>r, <2>2
    <3> QED
      BY <2>1, <2>2, <3>1, <3>5, <1>r
  <2>3. CASE ~(pc[c] = "access" /\ i = 1)
    <3>1. i - b \in 1 .. L /\ (pc[p] = "access" => i - b # L)
      BY <2>3, <1>2, <1>3 DEF a, b, n, Writing, Reading
    <3>2. items[Slot(tail + (i - b) - 1)] = ledger[i - b]
      BY <3>1, <1>r
    <3> QED
      BY <2>1, <2>3, <3>2
  <2> QED
    BY <2>2, <2>3
<1> QED
  BY <1>3, <1>9, <1>10 DEF HeldInv, n, L, a, b

(* Every step of the ring is a step of the FIFO under the mapping, or      *)
(* leaves it alone: a write is a Put, a read a Take, and a call that gives *)
(* up its earlier result a Release.                                        *)
LEMMA FifoStep ==
    ASSUME NEW p, NEW c, Producers = {p}, Consumers = {c}
    PROVE  TokenInv /\ HeldInv(p, c) /\ RingInv(p, c) /\ HeldInv(p, c)' /\ [Next]_vars
             => [Fifo!Next]_(Fifo!vars)
<1> SUFFICES ASSUME TokenInv, RingInv(p, c), HeldInv(p, c), HeldInv(p, c)', [Next]_vars
             PROVE  [Fifo!Next]_(Fifo!vars)
  OBVIOUS
<1> DEFINE I == Items \cup {NoItem}
           n == Len(ledger) - Writing(p) + Reading(c)
           a == Writing(p)
           b == Reading(c)
<1>1. /\ pc \in [{p, c} -> Labels] /\ p # c
      /\ ledger \in Seq(Items) /\ Len(ledger) \in Nat
      /\ got \in [{c} -> I] /\ due \in [{c} -> I]
  <2>1. Threads = {p, c} /\ p # c
    BY QueueConstants DEF Threads
  <2> QED
    BY <2>1 DEF TokenInv, TypeOK, Labels
<1>0. {a, a', b, b'} \subseteq 0 .. 1
  BY DEF Writing, Reading
<1>2. n \in 0 .. Capacity /\ SlotsHeld \in [1 .. n -> I]
  BY DEF HeldInv
<1>3. \A i \in 1 .. n :
          SlotsHeld[i] = IF pc[c] = "access" /\ i = 1 THEN due[c] ELSE ledger[i - b]
  BY DEF HeldInv
<1>4. n' \in 0 .. Capacity /\ SlotsHeld' \in [1 .. n' -> I]
  BY DEF HeldInv
<1>5. \A i \in 1 .. n' :
          SlotsHeld'[i] = IF pc'[c] = "access" /\ i = 1 THEN due'[c] ELSE ledger'[i - b']
  BY DEF HeldInv
<1>6. ASSUME n' = n, \A i \in 1 .. n : SlotsHeld'[i] = SlotsHeld[i]
      PROVE  SlotsHeld' = SlotsHeld
  BY <1>2, <1>4, <1>6
<1>7. ASSUME pc' = pc \/ \E t \in {p, c} : pc[t] # "access" /\ \E l \in Labels \ {"access"} : pc' = [pc EXCEPT ![t] = l],
             ledger' = ledger, due' = due \/ pc[c] # "access"
      PROVE  SlotsHeld' = SlotsHeld
  <2>1. a' = a /\ b' = b /\ (pc'[c] = "access" <=> pc[c] = "access")
    BY <1>1, <1>7 DEF Writing, Reading
  <2>2. n' = n
    BY <2>1, <1>7
  <2> QED
    BY <1>3, <1>5, <1>6, <1>7, <2>1, <2>2
<1>8. ASSUME SlotsHeld' = SlotsHeld, got' = got PROVE [Fifo!Next]_(Fifo!vars)
  BY <1>8 DEF Fifo!vars
<1>9. ASSUME SlotsHeld' = SlotsHeld, got' = [got EXCEPT ![c] = NoItem]
      PROVE  [Fifo!Next]_(Fifo!vars)
  <2>1. CASE got[c] = NoItem
    BY <1>1, <1>8, <1>9, <2>1
  <2>2. CASE got[c] # NoItem
    BY <1>9, <2>2 DEF Fifo!Next, Fifo!Release
  <2> QED
    BY <2>1, <2>2
<1>10. ASSUME NEW item \in Items, EnqueueWait(p, item) PROVE [Fifo!Next]_(Fifo!vars)
  BY <1>1, <1>7, <1>8, <1>10 DEF EnqueueWait, Labels
<1>11. ASSUME EnqueueFull(p) PROVE [Fifo!Next]_(Fifo!vars)
  BY <1>7, <1>8, <1>11 DEF EnqueueFull
<1>12. ASSUME EnqueueTicket(p) PROVE [Fifo!Next]_(Fifo!vars)
  <2>1. a = 0 /\ a' = 1 /\ b' = b /\ pc'[c] = pc[c]
    BY <1>1, <1>12 DEF EnqueueTicket, Writing, Reading
  <2>2. /\ Len(ledger') = Len(ledger) + 1 /\ n' = n
        /\ \A i \in 1 .. Len(ledger) : ledger'[i] = ledger[i]
    BY <1>1, <1>12, <2>1 DEF EnqueueTicket, TokenInv, ArgIsItem
  <2>3. \A i \in 1 .. n : SlotsHeld'[i] = SlotsHeld[i]
    <3> TAKE i \in 1 .. n
    <3>1. ~(pc[c] = "access" /\ i = 1) => i - b \in 1 .. Len(ledger)
      BY <1>1, <2>1 DEF Writing, Reading
    <3> QED
      BY <1>3, <1>5, <1>12, <2>1, <2>2, <3>1 DEF EnqueueTicket
  <2> QED
    BY <1>6, <1>8, <1>12, <2>2, <2>3 DEF EnqueueTicket
<1>13. ASSUME EnqueueWrite(p) PROVE [Fifo!Next]_(Fifo!vars)
  <2>1. a = 1 /\ a' = 0 /\ b' = b /\ pc'[c] = pc[c]
    BY <1>1, <1>13 DEF EnqueueWrite, Writing, Reading
  <2>2. n' = n + 1 /\ ledger' = ledger /\ due' = due /\ n < Capacity
    BY <1>0, <1>1, <1>4, <1>13, <2>1, QueueConstants DEF EnqueueWrite
  <2>3. arg[p] \in Items /\ ledger[Len(ledger)] = arg[p]
    BY <1>13 DEF EnqueueWrite, TokenInv, ArgIsItem, RingInv
  <2>4. SlotsHeld'[n + 1] = arg[p]
    <3>1. n + 1 \in 1 .. n' /\ (n + 1) - b = Len(ledger) /\ ~(pc'[c] = "access" /\ n + 1 = 1)
      BY <1>1, <1>2, <2>1, <2>2, SpscBounds, <1>13 DEF Reading, EnqueueWrite
    <3> QED
      BY <1>5, <2>1, <2>2, <2>3, <3>1
  <2>5. \A i \in 1 .. n : SlotsHeld'[i] = SlotsHeld[i]
    BY <1>2, <1>3, <1>5, <2>1, <2>2
  <2>6. SlotsHeld' = Append(SlotsHeld, arg[p]) /\ Len(SlotsHeld) = n
    BY <1>2, <1>4, <2>2, <2>3, <2>4, <2>5
  <2> QED
    BY <2>2, <2>3, <2>6, <1>13 DEF EnqueueWrite, Fifo!Next, Fifo!Put
<1>14. ASSUME EnqueuePost(p) PROVE [Fifo!Next]_(Fifo!vars)
  BY <1>1, <1>7, <1>8, <1>14 DEF EnqueuePost, Labels
<1>15. ASSUME DequeueWait(c) PROVE [Fifo!Next]_(Fifo!vars)
  BY <1>1, <1>7, <1>9, <1>15 DEF DequeueWait, Labels
<1>16. ASSUME DequeueEmpty(c) PROVE [Fifo!Next]_(Fifo!vars)
  BY <1>1, <1>7, <1>9, <1>16 DEF DequeueEmpty, Labels
<1>17. ASSUME DequeueTicket(c) PROVE [Fifo!Next]_(Fifo!vars)
  <2>1. b = 0 /\ b' = 1 /\ a' = a /\ pc'[c] = "access" /\ pc[c] = "ticket"
    BY <1>1, <1>17 DEF DequeueTicket, Writing, Reading
  <2>2. ledger # <<>>
    BY <1>1, <2>1, SpscBounds
  <2>3. /\ Len(ledger') = Len(ledger) - 1 /\ n' = n
        /\ \A i \in 1 .. Len(ledger) - 1 : ledger'[i] = ledger[i + 1]
        /\ due'[c] = ledger[1]
    BY <1>0, <1>1, <1>17, <2>1, <2>2 DEF DequeueTicket
  <2>4. \A i \in 1 .. n : SlotsHeld'[i] = SlotsHeld[i]
    <3> TAKE i \in 1 .. n
    <3>1. i # 1 => i - 1 \in 1 .. Len(ledger) - 1
      BY <1>1, <2>1 DEF Writing
    <3> QED
      BY <1>3, <1>5, <2>1, <2>3, <3>1
  <2> QED
    BY <1>6, <1>8, <1>17, <2>3, <2>4 DEF DequeueTicket
<1>18. ASSUME DequeueRead(c) PROVE [Fifo!Next]_(Fifo!vars)
  <2>1. b = 1 /\ b' = 0 /\ a' = a /\ pc'[c] = "post" /\ pc[c] = "access"
    BY <1>1, <1>18 DEF DequeueRead, Writing, Reading
  <2>2. n' = n - 1 /\ ledger' = ledger /\ n >= 1
    BY <1>0, <1>1, <1>2, <1>4, <1>18, <2>1 DEF DequeueRead
  <2>3. SlotsHeld[1] = items[Slot(ticket[c])]
    BY <1>2, <1>3, <2>1, <2>2 DEF RingInv
  <2>4. \A i \in 1 .. n' : SlotsHeld'[i] = SlotsHeld[i + 1]
    BY <1>2, <1>3, <1>5, <2>1, <2>2
  <2>5. SlotsHeld # <<>> /\ Head(SlotsHeld) = SlotsHeld[1] /\ SlotsHeld' = Tail(SlotsHeld)
    BY <1>2, <1>4, <2>2, <2>4
  <2> QED
    BY <2>3, <2>5, <1>18 DEF DequeueRead, Fifo!Next, Fifo!Take
<1>19. ASSUME DequeuePost(c) PROVE [Fifo!Next]_(Fifo!vars)
  BY <1>1, <1>7, <1>8, <1>19 DEF DequeuePost, Labels
<1>20. ASSUME UNCHANGED vars PROVE [Fifo!Next]_(Fifo!vars)
  BY <1>7, <1>8, <1>20 DEF vars
<1> QED
  BY <1>10, <1>11, <1>12, <1>13, <1>14, <1>15, <1>16, <1>17, <1>18, <1>19, <1>20
     DEF Next, Enqueue, Dequeue

(* With one producer and one consumer the ring with its two semaphores and *)
(* wrapping counters implements the bounded FIFO queue, for every capacity *)
(* (uo_queue.c:35-66).                                                     *)
THEOREM SpscImplementsFifo ==
    ASSUME NEW p, NEW c, Producers = {p}, Consumers = {c}
    PROVE  Spec => ImplementsFifo
<1>1. Init => Fifo!Init
  <2> SUFFICES ASSUME Init PROVE Fifo!Init
    OBVIOUS
  <2>1. HeldInv(p, c) /\ Len(ledger) = 0 /\ pc[p] = "idle" /\ pc[c] = "idle"
    BY TokenInit, RingInit, RingHeld DEF Init, Threads
  <2>2. SlotsHeld = <<>>
    BY <2>1 DEF HeldInv, Writing, Reading
  <2> QED
    BY <2>2 DEF Init, Fifo!Init
<1> QED
  BY <1>1, TokenInit, TokenNext, RingInit, RingNext, RingHeld, FifoStep, PTL
     DEF Spec, ImplementsFifo, Fifo!Spec
=============================================================================
