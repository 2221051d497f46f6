------------------------- MODULE UoCbThrdpoolProofs -------------------------
(***************************************************************************)
(* Proofs about UoCbThrdpool for every size of the pool and of the queue.  *)
(***************************************************************************)
EXTENDS UoCbThrdpool, FiniteSetTheorems, TLAPS

(* TypeOK in two parts: the queue of callbacks keeps its type and its      *)
(* capacity, and so do the other variables.                                *)
QueueTyped ==
    /\ cbs \in Seq(Producers \cup {Filled}) /\ Len(cbs) <= QUEUE_CAPACITY
    /\ writing \subseteq Producers /\ misread \in BOOLEAN
    /\ late \in [ThrdSlots -> Nat]

RestTyped ==
    /\ is_quitting \in BOOLEAN /\ is_paused \in BOOLEAN
    /\ update_sem \in 0 .. 1
    /\ thrd_count \in 0 .. THRD_COUNT_MAX
    /\ thrd_count_target \in {0} \cup THRD_COUNT_MIN .. THRD_COUNT_MAX
    /\ executing_count \in 0 .. THRD_COUNT_MAX
    /\ state \in [ThrdSlots -> {"UNINITIALIZED", "RUNNING", "EXITED"}]
    /\ issued \in 0 .. MaxCallbacks /\ called \in Nat
    /\ stacks \in 0 .. LINKPOOL_CAPACITY /\ others \in 0 .. OTHER_THRDS
    /\ thrd \in [ThrdSlots -> WorkerSteps]
    /\ seen \in [ThrdSlots -> 0 .. THRD_COUNT_MAX]
    /\ manager \in ManagerSteps
    /\ count \in 0 .. THRD_COUNT_MAX
    /\ thrd_i \in ThrdSlots
    /\ pause_counter \in 1 .. PAUSE_COUNTER
    /\ quitter \in QuitSteps /\ i \in 0 .. THRD_COUNT_MAX

(* Where each thread stands, and what it may rely on there.                *)
Control ==
    /\ is_paused = FALSE
    /\ is_quitting = (quitter # "running")
    /\ quitter \in {"running", "post"} => update_sem = 0
    /\ manager = "start" => thrd_count = 0 /\ \A w \in ThrdSlots : thrd[w] = "none"
    /\ manager # "start" => thrd_count_target >= THRD_COUNT_MIN
    /\ CountCoversPool
    /\ manager = "add" => count < THRD_COUNT_MAX
    /\ \A w \in ThrdSlots : /\ state[w] = "UNINITIALIZED" => thrd[w] = "none"
                            /\ thrd[w] = "cas" => seen[w] > THRD_COUNT_MIN
                            /\ thrd[w] = "stop" => quitter # "running"
    /\ quitter \in {"running", "post", "join_manager"} => i = 0
    /\ quitter = "enqueue" => i < THRD_COUNT_MAX
    /\ quitter \in {"for", "enqueue", "join", "done"} => manager = "ended"
    /\ quitter \in {"join", "done"} => \A w \in ThrdSlots : w < i => thrd[w] = "none"
    /\ quitter = "done" => i = THRD_COUNT_MAX

At(L) == {w \in ThrdSlots : thrd[w] \in L}

Gone    == {"none", "shed", "ended"}
Running == {"cb", "enqueue", "after"}

(* executing_count is the number of workers inside a callback.             *)
ExecutingCounted == executing_count = Cardinality(At(Running))

PoolInv == QueueTyped /\ RestTyped /\ Control /\ CountIsActive /\ ExecutingCounted

-----------------------------------------------------------------------------
(* The slots of the pool are THRD_COUNT_MAX many.                          *)
LEMMA SlotsFinite == IsFiniteSet(ThrdSlots) /\ Cardinality(ThrdSlots) = THRD_COUNT_MAX
<1>1. THRD_COUNT_MAX \in Nat \ {0}
  BY PoolConstants
<1>2. IsFiniteSet(0 .. THRD_COUNT_MAX - 1)
      /\ Cardinality(0 .. THRD_COUNT_MAX - 1) = THRD_COUNT_MAX - 1 - 0 + 1
  BY <1>1, FS_Interval
<1> QED
  BY <1>1, <1>2 DEF ThrdSlots

(* How a count of workers by step changes when one of them moves on.       *)
LEMMA CountMove ==
    ASSUME NEW w \in ThrdSlots, NEW step \in WorkerSteps, NEW L,
           thrd \in [ThrdSlots -> WorkerSteps], Goto(w, step)
    PROVE  /\ Cardinality(At(L)) \in Nat
           /\ Cardinality(At(L)') \in 0 .. THRD_COUNT_MAX
           /\ (thrd[w] \in L <=> step \in L) => Cardinality(At(L)') = Cardinality(At(L))
           /\ thrd[w] \notin L /\ step \in L => Cardinality(At(L)') = Cardinality(At(L)) + 1
           /\ thrd[w] \in L /\ step \notin L => Cardinality(At(L)') = Cardinality(At(L)) - 1
<1> DEFINE A == At(L)
           B == At(L)'
<1>1. A \subseteq ThrdSlots /\ B \subseteq ThrdSlots
  BY DEF At
<1>2. IsFiniteSet(A) /\ IsFiniteSet(B) /\ Cardinality(B) <= THRD_COUNT_MAX
  BY <1>1, SlotsFinite, FS_Subset
<1>3. Cardinality(A) \in Nat /\ Cardinality(B) \in Nat /\ THRD_COUNT_MAX \in Nat
  BY <1>2, FS_CardinalityType, PoolConstants
<1>4. (thrd[w] \in L <=> step \in L) => B = A
  BY DEF At, Goto
<1>5. ASSUME thrd[w] \notin L, step \in L PROVE Cardinality(B) = Cardinality(A) + 1
  <2>1. B = A \cup {w} /\ w \notin A
    BY <1>5 DEF At, Goto
  <2> QED
    BY <2>1, <1>2, FS_AddElement
<1>6. ASSUME thrd[w] \in L, step \notin L PROVE Cardinality(B) = Cardinality(A) - 1
  <2>1. B = A \ {w} /\ w \in A
    BY <1>6 DEF At, Goto
  <2> QED
    BY <2>1, <1>2, FS_RemoveElement
<1>7. Cardinality(B) \in 0 .. THRD_COUNT_MAX
  BY <1>2, <1>3
<1> QED
  BY <1>3, <1>4, <1>5, <1>6, <1>7

(* The same for the workers thrd_count stands for.                         *)
LEMMA ActiveMove ==
    ASSUME NEW w \in ThrdSlots, NEW step \in WorkerSteps,
           thrd \in [ThrdSlots -> WorkerSteps], Goto(w, step)
    PROVE  /\ Cardinality(Active) \in Nat
           /\ Cardinality(Active') \in Nat
           /\ (thrd[w] \in Gone <=> step \in Gone) => Cardinality(Active') = Cardinality(Active)
           /\ thrd[w] \in Gone /\ step \notin Gone
                => Cardinality(Active') = Cardinality(Active) + 1
           /\ thrd[w] \notin Gone /\ step \in Gone
                => Cardinality(Active') = Cardinality(Active) - 1
<1> DEFINE L == WorkerSteps \ Gone
<1>1. Active = At(L) /\ Active' = At(L)'
  BY DEF Active, At, Gone, Goto
<1>2. (thrd[w] \in L <=> thrd[w] \notin Gone) /\ (step \in L <=> step \notin Gone)
  OBVIOUS
<1> HIDE DEF L
<1>3. /\ Cardinality(At(L)) \in Nat
      /\ Cardinality(At(L)') \in 0 .. THRD_COUNT_MAX
      /\ (thrd[w] \in L <=> step \in L) => Cardinality(At(L)') = Cardinality(At(L))
      /\ thrd[w] \notin L /\ step \in L => Cardinality(At(L)') = Cardinality(At(L)) + 1
      /\ thrd[w] \in L /\ step \notin L => Cardinality(At(L)') = Cardinality(At(L)) - 1
  BY CountMove
<1> QED
  BY <1>1, <1>2, <1>3

(* Steps that move no worker and change no count.                          *)
LEMMA CountsKept ==
    ASSUME CountIsActive, ExecutingCounted, UNCHANGED <<thrd, thrd_count, executing_count>>,
           manager' = "slot" <=> manager = "slot", is_quitting => is_quitting'
    PROVE  CountIsActive' /\ ExecutingCounted'
<1>1. Active' = Active /\ At(Running)' = At(Running)
  BY DEF Active, At
<1> QED
  BY <1>1 DEF CountIsActive, ExecutingCounted

(* Steps of a worker that neither enter nor leave the pool or a callback.  *)
LEMMA CountsKeptByMove ==
    ASSUME NEW w \in ThrdSlots, NEW step \in WorkerSteps, RestTyped,
           CountIsActive, ExecutingCounted, Goto(w, step),
           thrd[w] \in Gone <=> step \in Gone, thrd[w] \in Running <=> step \in Running,
           UNCHANGED <<thrd_count, executing_count>>,
           manager' = manager, is_quitting' = is_quitting
    PROVE  CountIsActive' /\ ExecutingCounted'
<1>1. thrd \in [ThrdSlots -> WorkerSteps]
  BY DEF RestTyped
<1>2. Cardinality(Active') = Cardinality(Active)
  BY <1>1, ActiveMove
<1>3. Cardinality(At(Running)') = Cardinality(At(Running))
  BY <1>1, CountMove
<1> QED
  BY <1>2, <1>3 DEF CountIsActive, ExecutingCounted

-----------------------------------------------------------------------------
(* How many workers are reading, and how many producers writing, is a      *)
(* number.                                                                 *)
LEMMA UsersCounted ==
    ASSUME QueueTyped
    PROVE  Cardinality(Reading) \in Nat /\ Cardinality(writing) \in Nat
<1>1. IsFiniteSet(Producers)
  BY SlotsFinite, CallersAssumption, FS_Union DEF Producers
<1>2. IsFiniteSet(writing)
  BY <1>1, FS_Subset DEF QueueTyped
<1>3. Reading \subseteq ThrdSlots
  BY DEF Reading
<1>4. IsFiniteSet(Reading)
  BY <1>3, SlotsFinite, FS_Subset
<1> QED
  BY <1>2, <1>4, FS_CardinalityType

(* Both steps of an enqueue keep it so.                                    *)
LEMMA Enqueued ==
    ASSUME QueueTyped, NEW p \in Producers, Draw(p) \/ Fill(p)
    PROVE  QueueTyped'
<1> DEFINE Q == Producers \cup {Filled}
<1>1. cbs \in Seq(Q) /\ Len(cbs) \in Nat /\ Len(cbs) <= QUEUE_CAPACITY /\ p \in Q /\ Filled \in Q
  BY DEF QueueTyped
<1>2. QUEUE_CAPACITY \in Nat
  BY PoolConstants
<1>3. writing' \subseteq Producers /\ misread' \in BOOLEAN /\ late' \in [ThrdSlots -> Nat]
  BY DEF QueueTyped, Draw, Fill
<1> HIDE DEF Q
<1>4. cbs' \in Seq(Q) /\ Len(cbs') <= QUEUE_CAPACITY
  <2>1. CASE Draw(p)
    <3>1. Len(cbs) < QUEUE_CAPACITY
      BY <1>1, <1>2, <2>1, UsersCounted DEF Draw, enqueue_sem
    <3> QED
      BY <1>1, <1>2, <2>1, <3>1 DEF Draw
  <2>2. CASE Fill(p)
    <3>1. cbs' = [k \in 1 .. Len(cbs) |-> IF cbs[k] = p THEN Filled ELSE cbs[k]]
      BY <2>2 DEF Fill
    <3>2. \A k \in 1 .. Len(cbs) : cbs[k] \in Q
      BY <1>1
    <3> QED
      BY <1>1, <3>1, <3>2
  <2> QED
    BY <2>1, <2>2
<1> QED
  BY <1>3, <1>4 DEF QueueTyped, Q

(* So does a worker that finds a token or none: a token stands for a       *)
(* ticket.                                                                 *)
LEMMA Dequeued ==
    ASSUME QueueTyped, NEW w \in ThrdSlots, WorkerDequeue(w)
    PROVE  QueueTyped'
<1> DEFINE Q == Producers \cup {Filled}
<1>1. cbs \in Seq(Q) /\ Len(cbs) \in Nat /\ Len(cbs) <= QUEUE_CAPACITY
  BY DEF QueueTyped
<1>2. Cardinality(writing) \in Nat
  BY UsersCounted
<1>3. CASE UNCHANGED <<cbs, late, misread>>
  BY <1>3 DEF QueueTyped, WorkerDequeue
<1>4. CASE /\ dequeue_sem > 0 /\ cbs' = Tail(cbs) /\ writing' = writing
           /\ misread' = (misread \/ Head(cbs) # Filled)
           /\ late' = [x \in ThrdSlots |-> IF x \in Reading /\ ~misread' THEN late[x] + 1 ELSE 0]
  <2>1. Len(cbs) > 0
    BY <1>1, <1>2, <1>4 DEF dequeue_sem
  <2>2. cbs # <<>> /\ QUEUE_CAPACITY \in Nat
    BY <1>1, <2>1, PoolConstants
  <2>3. writing' \subseteq Producers /\ misread' \in BOOLEAN /\ late' \in [ThrdSlots -> Nat]
    BY <1>4 DEF QueueTyped
  <2> HIDE DEF Q
  <2>4. cbs' \in Seq(Q) /\ Len(cbs') = Len(cbs) - 1
    BY <1>1, <1>4, <2>2
  <2>5. Len(cbs') <= QUEUE_CAPACITY
    BY <1>1, <2>2, <2>4
  <2> QED
    BY <2>3, <2>4, <2>5 DEF QueueTyped, Q
<1> QED
  BY <1>3, <1>4 DEF WorkerDequeue

(* No other step touches the queue.                                        *)
LEMMA QueueNext == QueueTyped /\ [Next]_vars => QueueTyped'
<1> SUFFICES ASSUME QueueTyped, [Next]_vars PROVE QueueTyped'
  OBVIOUS
<1>1. CASE \E c \in Callers : InvokeAsync(c) \/ InvokeAsyncPost(c)
  BY <1>1, Enqueued DEF InvokeAsync, InvokeAsyncPost, Producers
<1>2. CASE \E w \in ThrdSlots : InvokeEnqueue(w)
  BY <1>2, Enqueued DEF InvokeEnqueue, Producers
<1>3. CASE QuitEnqueue
  BY <1>3, Enqueued, CallersAssumption DEF QuitEnqueue, Producers
<1>4. CASE \E w \in ThrdSlots : WorkerDequeue(w)
  BY <1>4, Dequeued
<1>5. CASE \E w \in ThrdSlots : WorkerRead(w)
  BY <1>5 DEF WorkerRead, QueueTyped
<1>6. CASE UNCHANGED <<cbs, writing, late, misread>>
  BY <1>6 DEF QueueTyped
<1> QED
  BY <1>1, <1>2, <1>3, <1>4, <1>5, <1>6
     DEF Next, OtherThrdQuit, Worker, WorkerInit, WorkerWhile, NotifyBefore, Invoke, NotifyAfter,
         WorkerLoad, WorkerCompare, WorkerCas, WorkerExit, Manager, ManagerStart, ManagerWhile,
         ManagerGrow, ManagerAdd, ManagerPassSlot, ManagerCreate, ManagerWait, ManagerRetune,
         ManagerIdle, ManagerPaused, QuitFlag, Quit, QuitPost, QuitJoinManager, QuitFor, QuitJoin,
         QuitDone, queue_vars, vars

-----------------------------------------------------------------------------
(* The pool invariant holds when the manager thread was created.           *)
LEMMA PoolInit == Init => PoolInv
<1> SUFFICES ASSUME Init PROVE PoolInv
  OBVIOUS
<1>0. /\ THRD_COUNT_MAX \in Nat \ {0} /\ 0 \in ThrdSlots
      /\ QUEUE_CAPACITY \in Nat /\ LINKPOOL_CAPACITY \in Nat /\ OTHER_THRDS \in Nat
      /\ MaxCallbacks \in Nat /\ PAUSE_COUNTER \in Nat \ {0}
  BY PoolConstants DEF ThrdSlots
<1>a. /\ state \in [ThrdSlots -> {"UNINITIALIZED", "RUNNING", "EXITED"}]
      /\ thrd \in [ThrdSlots -> WorkerSteps]
      /\ seen \in [ThrdSlots -> 0 .. THRD_COUNT_MAX]
  BY <1>0 DEF Init, WorkerSteps
<1>b. manager \in ManagerSteps /\ quitter \in QuitSteps
  BY DEF Init, ManagerSteps, QuitSteps
<1>d. is_quitting \in BOOLEAN /\ is_paused \in BOOLEAN
  BY DEF Init
<1>e. /\ update_sem \in 0 .. 1 /\ thrd_count \in 0 .. THRD_COUNT_MAX
      /\ thrd_count_target \in {0} \cup THRD_COUNT_MIN .. THRD_COUNT_MAX
      /\ executing_count \in 0 .. THRD_COUNT_MAX
      /\ issued \in 0 .. MaxCallbacks /\ called \in Nat
      /\ stacks \in 0 .. LINKPOOL_CAPACITY /\ others \in 0 .. OTHER_THRDS
      /\ count \in 0 .. THRD_COUNT_MAX /\ thrd_i \in ThrdSlots
      /\ pause_counter \in 1 .. PAUSE_COUNTER /\ i \in 0 .. THRD_COUNT_MAX
  BY <1>0 DEF Init
<1>f. QueueTyped
  BY <1>0 DEF Init, QueueTyped
<1>1. RestTyped
  BY <1>a, <1>b, <1>d, <1>e DEF RestTyped
<1>2. Control
  BY PoolConstants DEF Init, Control, CountCoversPool
<1>3. Active = {} /\ At(Running) = {}
  BY DEF Init, Active, At, Running
<1>4. CountIsActive /\ ExecutingCounted
  BY <1>3, FS_EmptySet DEF Init, CountIsActive, ExecutingCounted
<1> QED
  BY <1>1, <1>2, <1>4, <1>f DEF PoolInv

(* Every step of a worker, the manager or the atexit handler keeps it.     *)
LEMMA PoolNext == PoolInv /\ [Next]_vars => PoolInv'
<1> SUFFICES ASSUME PoolInv, [Next]_vars PROVE PoolInv'
  OBVIOUS
<1> USE PoolConstants
<1>t. RestTyped
  BY DEF PoolInv
<1>c. Control
  BY DEF PoolInv
<1>a. CountIsActive /\ ExecutingCounted
  BY DEF PoolInv
<1>p. ASSUME RestTyped', Control', CountIsActive', ExecutingCounted' PROVE PoolInv'
  BY <1>p, QueueNext DEF PoolInv
<1>1. ASSUME NEW c \in Callers, InvokeAsync(c) \/ InvokeAsyncPost(c) PROVE PoolInv'
  <2>1. RestTyped'
    <3>1. issued' \in 0 .. MaxCallbacks
      BY <1>1, <1>t DEF InvokeAsync, InvokeAsyncPost, RestTyped
    <3> QED
      BY <1>1, <1>t, <3>1
         DEF InvokeAsync, InvokeAsyncPost, pool_vars, pool_queue_vars, count_vars, worker_vars,
             manager_vars, quit_vars, RestTyped
  <2>2. Control'
    <3>1. UNCHANGED <<is_quitting, is_paused, update_sem, thrd_count, thrd_count_target, state, thrd, seen,
                      manager, count, quitter, i>>
      BY <1>1 DEF InvokeAsync, InvokeAsyncPost, pool_vars, count_vars, worker_vars, manager_vars, quit_vars
    <3> QED
      BY <3>1, <1>c DEF Control, CountCoversPool
  <2>3. CountIsActive' /\ ExecutingCounted'
    BY <1>1, <1>a, CountsKept
       DEF InvokeAsync, InvokeAsyncPost, pool_vars, count_vars, worker_vars, manager_vars,
           quit_vars
  <2> QED
    BY <1>p, <2>1, <2>2, <2>3
<1>30. ASSUME OtherThrdQuit PROVE PoolInv'
  <2>1. RestTyped'
    BY <1>30, <1>t
       DEF OtherThrdQuit, LeaveStack, pool_vars, count_vars, queue_vars, worker_vars,
           manager_vars, quit_vars, RestTyped
  <2>2. Control'
    BY <1>30, <1>t, <1>c
       DEF OtherThrdQuit, pool_vars, count_vars, queue_vars, worker_vars, manager_vars,
           quit_vars, RestTyped, Control, CountCoversPool, ThrdSlots
  <2>3. CountIsActive' /\ ExecutingCounted'
    BY <1>30, <1>a, CountsKept
       DEF OtherThrdQuit, pool_vars, count_vars, queue_vars, worker_vars, manager_vars,
           quit_vars
  <2> QED
    BY <1>p, <2>1, <2>2, <2>3
<1>31. ASSUME NEW w \in ThrdSlots, WorkerInit(w) PROVE PoolInv'
  <2>1. RestTyped'
    BY <1>31, <1>t
       DEF WorkerInit, TakeStack, Goto, pool_vars, count_vars, queue_vars, manager_vars,
           quit_vars, RestTyped, WorkerSteps
  <2>2. Control'
    BY <1>31, <1>t, <1>c
       DEF WorkerInit, Goto, pool_vars, count_vars, queue_vars, manager_vars,
           quit_vars, RestTyped, Control, CountCoversPool, ThrdSlots
  <2>3. CountIsActive' /\ ExecutingCounted'
    BY <1>31, <1>t, <1>a, CountsKeptByMove
       DEF WorkerInit, pool_vars, count_vars, manager_vars, WorkerSteps, Gone, Running
  <2> QED
    BY <1>p, <2>1, <2>2, <2>3
<1>2. ASSUME NEW w \in ThrdSlots, WorkerWhile(w) PROVE PoolInv'
  <2>1. RestTyped'
    BY <1>2, <1>t
       DEF WorkerWhile, Goto, pool_vars, pool_queue_vars, count_vars, queue_vars, worker_vars,
           manager_vars, quit_vars, RestTyped, WorkerSteps, ManagerSteps, QuitSteps
  <2>2. Control'
    BY <1>2, <1>t, <1>c
       DEF WorkerWhile, Goto, pool_vars, pool_queue_vars, count_vars, queue_vars, worker_vars,
           manager_vars, quit_vars, RestTyped, Control, CountCoversPool, ThrdSlots
  <2>3. CountIsActive' /\ ExecutingCounted'
    BY <1>2, <1>t, <1>a, CountsKeptByMove
       DEF WorkerWhile, pool_vars, pool_queue_vars, count_vars, queue_vars, worker_vars, manager_vars,
           quit_vars, WorkerSteps, Gone, Running
  <2> QED
    BY <1>p, <2>1, <2>2, <2>3
<1>3. ASSUME NEW w \in ThrdSlots, WorkerDequeue(w) PROVE PoolInv'
  <2>1. RestTyped'
    <3>1. thrd' \in [ThrdSlots -> WorkerSteps]
      BY <1>3, <1>t DEF WorkerDequeue, Goto, RestTyped, WorkerSteps
    <3> QED
      BY <1>3, <1>t, <3>1
         DEF WorkerDequeue, pool_vars, pool_queue_vars, count_vars, manager_vars, quit_vars,
             RestTyped
  <2>2. Control'
    BY <1>3, <1>t, <1>c
       DEF WorkerDequeue, Goto, pool_vars, pool_queue_vars, count_vars, queue_vars, worker_vars,
           manager_vars, quit_vars, RestTyped, Control, CountCoversPool, ThrdSlots
  <2>3. CountIsActive' /\ ExecutingCounted'
    BY <1>3, <1>t, <1>a, CountsKeptByMove
       DEF WorkerDequeue, pool_vars, pool_queue_vars, count_vars, queue_vars, worker_vars, manager_vars,
           quit_vars, WorkerSteps, Gone, Running
  <2> QED
    BY <1>p, <2>1, <2>2, <2>3
<1>r. ASSUME NEW w \in ThrdSlots, WorkerRead(w) PROVE PoolInv'
  <2>1. RestTyped'
    <3>1. thrd' \in [ThrdSlots -> WorkerSteps]
      BY <1>r, <1>t DEF WorkerRead, Goto, RestTyped, WorkerSteps
    <3> QED
      BY <1>r, <1>t, <3>1
         DEF WorkerRead, pool_vars, pool_queue_vars, count_vars, manager_vars, quit_vars,
             RestTyped
  <2>2. Control'
    BY <1>r, <1>t, <1>c
       DEF WorkerRead, Goto, pool_vars, pool_queue_vars, count_vars, queue_vars, worker_vars,
           manager_vars, quit_vars, RestTyped, Control, CountCoversPool, ThrdSlots
  <2>3. CountIsActive' /\ ExecutingCounted'
    BY <1>r, <1>t, <1>a, CountsKeptByMove
       DEF WorkerRead, pool_vars, pool_queue_vars, count_vars, queue_vars, worker_vars, manager_vars,
           quit_vars, WorkerSteps, Gone, Running
  <2> QED
    BY <1>p, <2>1, <2>2, <2>3
<1>4. ASSUME NEW w \in ThrdSlots, NotifyBefore(w) PROVE PoolInv'
  <2>x. /\ Cardinality(At(Running)') = Cardinality(At(Running)) + 1
        /\ Cardinality(At(Running)') \in 0 .. THRD_COUNT_MAX
        /\ executing_count' \in 0 .. THRD_COUNT_MAX /\ ExecutingCounted'
    <3>1. "cb" \in WorkerSteps /\ thrd \in [ThrdSlots -> WorkerSteps] /\ Goto(w, "cb")
      BY <1>4, <1>t DEF NotifyBefore, RestTyped, WorkerSteps
    <3>2. "cb" \in Running /\ thrd[w] \notin Running
      BY <1>4 DEF NotifyBefore, Running
    <3>3. /\ Cardinality(At(Running)') = Cardinality(At(Running)) + 1
          /\ Cardinality(At(Running)') \in 0 .. THRD_COUNT_MAX
      BY <3>1, <3>2, CountMove
    <3> QED
      BY <3>3, <1>4, <1>a DEF NotifyBefore, ExecutingCounted
  <2>1. RestTyped'
    BY <1>4, <1>t, <2>x
       DEF NotifyBefore, Goto, pool_vars, pool_queue_vars, count_vars, queue_vars, worker_vars,
           manager_vars, quit_vars, RestTyped, WorkerSteps, ManagerSteps, QuitSteps
  <2>2. Control'
    BY <1>4, <1>t, <1>c
       DEF NotifyBefore, Goto, pool_vars, pool_queue_vars, count_vars, queue_vars, worker_vars,
           manager_vars, quit_vars, RestTyped, Control, CountCoversPool, ThrdSlots
  <2>3. CountIsActive' /\ ExecutingCounted'
    <3>1. "cb" \in WorkerSteps /\ thrd \in [ThrdSlots -> WorkerSteps] /\ Goto(w, "cb")
      BY <1>4, <1>t DEF NotifyBefore, RestTyped, WorkerSteps
    <3>2. "cb" \notin Gone /\ thrd[w] \notin Gone
      BY <1>4 DEF NotifyBefore, Gone
    <3>3. Cardinality(Active') = Cardinality(Active)
      BY <3>1, <3>2, ActiveMove
    <3> QED
      BY <3>3, <2>x, <1>4, <1>a DEF NotifyBefore, CountIsActive, pool_vars, manager_vars
  <2> QED
    BY <1>p, <2>1, <2>2, <2>3
<1>5. ASSUME NEW w \in ThrdSlots, Invoke(w) PROVE PoolInv'
  <2>1. RestTyped'
    BY <1>5, <1>t
       DEF Invoke, Goto, pool_vars, pool_queue_vars, count_vars, queue_vars, worker_vars, manager_vars,
           quit_vars, RestTyped, WorkerSteps, ManagerSteps, QuitSteps
  <2>2. Control'
    BY <1>5, <1>t, <1>c
       DEF Invoke, Goto, pool_vars, pool_queue_vars, count_vars, queue_vars, worker_vars, manager_vars,
           quit_vars, RestTyped, Control, CountCoversPool, ThrdSlots
  <2>3. CountIsActive' /\ ExecutingCounted'
    BY <1>5, <1>t, <1>a, CountsKeptByMove
       DEF Invoke, pool_vars, pool_queue_vars, count_vars, queue_vars, worker_vars, manager_vars,
           quit_vars, WorkerSteps, Gone, Running
  <2> QED
    BY <1>p, <2>1, <2>2, <2>3
<1>6. ASSUME NEW w \in ThrdSlots, InvokeEnqueue(w) PROVE PoolInv'
  <2>1. RestTyped'
    <3>1. thrd' \in [ThrdSlots -> WorkerSteps]
      BY <1>6, <1>t DEF InvokeEnqueue, Goto, RestTyped, WorkerSteps
    <3> QED
      BY <1>6, <1>t, <3>1
         DEF InvokeEnqueue, pool_vars, pool_queue_vars, count_vars, manager_vars, quit_vars,
             RestTyped
  <2>2. Control'
    BY <1>6, <1>t, <1>c
       DEF InvokeEnqueue, Goto, pool_vars, pool_queue_vars, count_vars, queue_vars, worker_vars,
           manager_vars, quit_vars, RestTyped, Control, CountCoversPool, ThrdSlots
  <2>3. CountIsActive' /\ ExecutingCounted'
    <3>1. CASE Draw(w) /\ UNCHANGED thrd
      BY <3>1, <1>6, <1>a, CountsKept
         DEF InvokeEnqueue, pool_vars, count_vars, manager_vars
    <3>2. CASE Fill(w) /\ Goto(w, "after")
      BY <3>2, <1>6, <1>t, <1>a, CountsKeptByMove
         DEF InvokeEnqueue, pool_vars, count_vars, manager_vars, WorkerSteps, Gone, Running
    <3> QED
      BY <3>1, <3>2, <1>6 DEF InvokeEnqueue
  <2> QED
    BY <1>p, <2>1, <2>2, <2>3
<1>7. ASSUME NEW w \in ThrdSlots, NotifyAfter(w) PROVE PoolInv'
  <2>x. /\ Cardinality(At(Running)') = Cardinality(At(Running)) - 1
        /\ Cardinality(At(Running)') \in 0 .. THRD_COUNT_MAX
        /\ executing_count' \in 0 .. THRD_COUNT_MAX /\ ExecutingCounted'
    <3>1. "load" \in WorkerSteps /\ thrd \in [ThrdSlots -> WorkerSteps] /\ Goto(w, "load")
      BY <1>7, <1>t DEF NotifyAfter, RestTyped, WorkerSteps
    <3>2. "load" \notin Running /\ thrd[w] \in Running
      BY <1>7 DEF NotifyAfter, Running
    <3>3. /\ Cardinality(At(Running)') = Cardinality(At(Running)) - 1
          /\ Cardinality(At(Running)') \in 0 .. THRD_COUNT_MAX
      BY <3>1, <3>2, CountMove
    <3> QED
      BY <3>3, <1>7, <1>a DEF NotifyAfter, ExecutingCounted
  <2>1. RestTyped'
    BY <1>7, <1>t, <1>c, <2>x
       DEF NotifyAfter, Goto, pool_vars, pool_queue_vars, count_vars, queue_vars, worker_vars,
           manager_vars, quit_vars, RestTyped, WorkerSteps, ManagerSteps, QuitSteps,
           Control, CountCoversPool
  <2>2. Control'
    BY <1>7, <1>t, <1>c
       DEF NotifyAfter, Goto, pool_vars, pool_queue_vars, count_vars, queue_vars, worker_vars,
           manager_vars, quit_vars, RestTyped, Control, CountCoversPool, ThrdSlots
  <2>3. CountIsActive' /\ ExecutingCounted'
    <3>1. "load" \in WorkerSteps /\ thrd \in [ThrdSlots -> WorkerSteps] /\ Goto(w, "load")
      BY <1>7, <1>t DEF NotifyAfter, RestTyped, WorkerSteps
    <3>2. "load" \notin Gone /\ thrd[w] \notin Gone
      BY <1>7 DEF NotifyAfter, Gone
    <3>3. Cardinality(Active') = Cardinality(Active)
      BY <3>1, <3>2, ActiveMove
    <3> QED
      BY <3>3, <2>x, <1>7, <1>a DEF NotifyAfter, CountIsActive, pool_vars, manager_vars
  <2> QED
    BY <1>p, <2>1, <2>2, <2>3
<1>8. ASSUME NEW w \in ThrdSlots, WorkerLoad(w) PROVE PoolInv'
  <2>1. RestTyped'
    BY <1>8, <1>t
       DEF WorkerLoad, Goto, pool_vars, pool_queue_vars, count_vars, queue_vars, worker_vars,
           manager_vars, quit_vars, RestTyped, WorkerSteps, ManagerSteps, QuitSteps
  <2>2. Control'
    BY <1>8, <1>t, <1>c
       DEF WorkerLoad, Goto, pool_vars, pool_queue_vars, count_vars, queue_vars, worker_vars,
           manager_vars, quit_vars, RestTyped, Control, CountCoversPool, ThrdSlots
  <2>3. CountIsActive' /\ ExecutingCounted'
    BY <1>8, <1>t, <1>a, CountsKeptByMove
       DEF WorkerLoad, pool_vars, pool_queue_vars, count_vars, queue_vars, worker_vars, manager_vars,
           quit_vars, WorkerSteps, Gone, Running
  <2> QED
    BY <1>p, <2>1, <2>2, <2>3
<1>9. ASSUME NEW w \in ThrdSlots, WorkerCompare(w) PROVE PoolInv'
  <2>1. RestTyped'
    BY <1>9, <1>t
       DEF WorkerCompare, Goto, Forget, pool_vars, pool_queue_vars, count_vars, queue_vars, worker_vars,
           manager_vars, quit_vars, RestTyped, WorkerSteps, ManagerSteps, QuitSteps
  <2>2. Control'
    BY <1>9, <1>t, <1>c
       DEF WorkerCompare, Goto, Forget, pool_vars, pool_queue_vars, count_vars, queue_vars, worker_vars,
           manager_vars, quit_vars, RestTyped, Control, CountCoversPool, ThrdSlots
  <2>3. CountIsActive' /\ ExecutingCounted'
    BY <1>9, <1>t, <1>a, CountsKeptByMove
       DEF WorkerCompare, pool_vars, pool_queue_vars, count_vars, queue_vars, worker_vars, manager_vars,
           quit_vars, WorkerSteps, Gone, Running
  <2> QED
    BY <1>p, <2>1, <2>2, <2>3
<1>10. ASSUME NEW w \in ThrdSlots, WorkerCas(w) PROVE PoolInv'
  <2>1. RestTyped'
    BY <1>10, <1>t, <1>c
       DEF WorkerCas, Goto, Forget, pool_vars, pool_queue_vars, count_vars, queue_vars, worker_vars,
           manager_vars, quit_vars, RestTyped, WorkerSteps, ManagerSteps, QuitSteps,
           Control, CountCoversPool
  <2>2. Control'
    <3>1. /\ thrd_count \in Nat /\ thrd_count' \in Nat /\ thrd_count' <= thrd_count
          /\ manager # "start"
      BY <1>10, <1>t, <1>c DEF WorkerCas, RestTyped, Control
    <3>2. CountCoversPool'
      BY <3>1, <1>10, <1>t, <1>c DEF WorkerCas, RestTyped, Control, CountCoversPool, manager_vars
    <3>3. \A v \in ThrdSlots : /\ thrd'[v] = "none" <=> thrd[v] = "none"
                               /\ thrd'[v] # "stop" \/ thrd[v] = "stop"
                               /\ thrd'[v] = "cas" => thrd[v] = "cas" /\ seen'[v] = seen[v]
      BY <1>10, <1>t DEF WorkerCas, Goto, Forget, RestTyped
    <3>4. UNCHANGED <<is_paused, is_quitting, update_sem, thrd_count_target, manager, count,
                      quitter, i, state>>
      BY <1>10 DEF WorkerCas, pool_vars, manager_vars, quit_vars
    <3>5. \A v \in ThrdSlots : /\ state'[v] = "UNINITIALIZED" => thrd'[v] = "none"
                               /\ thrd'[v] = "cas" => seen'[v] > THRD_COUNT_MIN
                               /\ thrd'[v] = "stop" => quitter' # "running"
      BY <3>3, <3>4, <1>c DEF Control
    <3>6. quitter' \in {"join", "done"} => \A v \in ThrdSlots : v < i' => thrd'[v] = "none"
      <4>1. quitter \in {"join", "done"} => \A v \in ThrdSlots : v < i => thrd[v] = "none"
        BY <1>c DEF Control
      <4>2. quitter' = quitter /\ i' = i
        BY <3>4
      <4>3. \A v \in ThrdSlots : thrd'[v] = "none" <=> thrd[v] = "none"
        BY <3>3
      <4> QED
        BY <4>1, <4>2, <4>3, Zenon
    <3>7. /\ is_paused' = FALSE
          /\ is_quitting' = (quitter' # "running")
          /\ quitter' \in {"running", "post"} => update_sem' = 0
          /\ manager' # "start" => thrd_count_target' >= THRD_COUNT_MIN
          /\ manager' = "add" => count' < THRD_COUNT_MAX
          /\ quitter' \in {"running", "post", "join_manager"} => i' = 0
          /\ quitter' = "enqueue" => i' < THRD_COUNT_MAX
          /\ quitter' \in {"for", "enqueue", "join", "done"} => manager' = "ended"
          /\ quitter' = "done" => i' = THRD_COUNT_MAX
      BY <3>4, <1>c DEF Control
    <3>8. manager' # "start"
      BY <3>1, <3>4
    <3> QED
      BY <3>2, <3>5, <3>6, <3>7, <3>8, Zenon DEF Control
  <2>3. CountIsActive' /\ ExecutingCounted'
    <3>1. CASE thrd_count = seen[w]
      <4>1. "shed" \in WorkerSteps /\ thrd \in [ThrdSlots -> WorkerSteps] /\ Goto(w, "shed")
        BY <3>1, <1>10, <1>t DEF WorkerCas, RestTyped, WorkerSteps
      <4>2. "shed" \in Gone /\ thrd[w] \notin Gone /\ "shed" \notin Running /\ thrd[w] \notin Running
        BY <1>10 DEF WorkerCas, Gone, Running
      <4>3. Cardinality(Active) \in Nat /\ Cardinality(Active') = Cardinality(Active) - 1
        BY <4>1, <4>2, ActiveMove
      <4>4. Cardinality(At(Running)') = Cardinality(At(Running))
        BY <4>1, <4>2, CountMove
      <4>5. thrd_count' = thrd_count - 1 /\ thrd_count \in Nat
        BY <3>1, <1>10, <1>t DEF WorkerCas, RestTyped
      <4> QED
        BY <4>3, <4>4, <4>5, <1>10, <1>a
           DEF WorkerCas, CountIsActive, ExecutingCounted, pool_vars, manager_vars
    <3>2. CASE thrd_count # seen[w]
      BY <3>2, <1>10, <1>t, <1>a, CountsKeptByMove
         DEF WorkerCas, pool_vars, manager_vars, WorkerSteps, Gone, Running
    <3> QED
      BY <3>1, <3>2
  <2> QED
    BY <1>p, <2>1, <2>2, <2>3
<1>11. ASSUME NEW w \in ThrdSlots, WorkerExit(w) PROVE PoolInv'
  <2>1. RestTyped'
    BY <1>11, <1>t
       DEF WorkerExit, LeaveStack, Goto, pool_vars, count_vars, queue_vars, worker_vars,
           manager_vars, quit_vars, RestTyped, WorkerSteps, ManagerSteps, QuitSteps
  <2>2. Control'
    BY <1>11, <1>t, <1>c
       DEF WorkerExit, Goto, pool_vars, pool_queue_vars, count_vars, queue_vars, worker_vars,
           manager_vars, quit_vars, RestTyped, Control, CountCoversPool, ThrdSlots
  <2>3. CountIsActive' /\ ExecutingCounted'
    <3>1. CASE thrd[w] = "shed"
      BY <3>1, <1>11, <1>t, <1>a, CountsKeptByMove
         DEF WorkerExit, pool_vars, pool_queue_vars, count_vars, manager_vars, WorkerSteps, Gone, Running
    <3>2. CASE thrd[w] = "stop"
      <4>1. "ended" \in WorkerSteps /\ thrd \in [ThrdSlots -> WorkerSteps] /\ Goto(w, "ended")
        BY <1>11, <1>t DEF WorkerExit, RestTyped, WorkerSteps
      <4>2. "ended" \notin Running /\ thrd[w] \notin Running
        BY <3>2 DEF Running
      <4>3. Cardinality(At(Running)') = Cardinality(At(Running))
        BY <4>1, <4>2, CountMove
      <4>4. is_quitting'
        BY <3>2, <1>11, <1>c DEF WorkerExit, Control, pool_vars
      <4> QED
        BY <4>3, <4>4, <1>11, <1>a DEF WorkerExit, CountIsActive, ExecutingCounted, count_vars
    <3> QED
      BY <3>1, <3>2, <1>11 DEF WorkerExit
  <2> QED
    BY <1>p, <2>1, <2>2, <2>3
<1>12. ASSUME ManagerStart PROVE PoolInv'
  <2>1. RestTyped'
    BY <1>12, <1>t
       DEF ManagerStart, pool_vars, pool_queue_vars, count_vars, queue_vars, worker_vars, manager_vars,
           quit_vars, RestTyped, WorkerSteps, ManagerSteps, QuitSteps
  <2>2. Control'
    BY <1>12, <1>t, <1>c
       DEF ManagerStart, pool_vars, pool_queue_vars, count_vars, queue_vars, worker_vars, manager_vars,
           quit_vars, RestTyped, Control, CountCoversPool, ThrdSlots
  <2>3. CountIsActive' /\ ExecutingCounted'
    BY <1>12, <1>a, CountsKept
       DEF ManagerStart, pool_vars, pool_queue_vars, count_vars, queue_vars, worker_vars, manager_vars,
           quit_vars
  <2> QED
    BY <1>p, <2>1, <2>2, <2>3
<1>13. ASSUME ManagerWhile PROVE PoolInv'
  <2>1. RestTyped'
    BY <1>13, <1>t
       DEF ManagerWhile, pool_vars, pool_queue_vars, count_vars, queue_vars, worker_vars, manager_vars,
           quit_vars, RestTyped, WorkerSteps, ManagerSteps, QuitSteps
  <2>2. Control'
    BY <1>13, <1>t, <1>c
       DEF ManagerWhile, pool_vars, pool_queue_vars, count_vars, queue_vars, worker_vars, manager_vars,
           quit_vars, RestTyped, Control, CountCoversPool, ThrdSlots
  <2>3. CountIsActive' /\ ExecutingCounted'
    BY <1>13, <1>a, CountsKept
       DEF ManagerWhile, pool_vars, pool_queue_vars, count_vars, queue_vars, worker_vars, manager_vars,
           quit_vars
  <2> QED
    BY <1>p, <2>1, <2>2, <2>3
<1>14. ASSUME ManagerGrow PROVE PoolInv'
  <2>1. RestTyped'
    BY <1>14, <1>t
       DEF ManagerGrow, pool_vars, pool_queue_vars, count_vars, queue_vars, worker_vars, manager_vars,
           quit_vars, RestTyped, WorkerSteps, ManagerSteps, QuitSteps
  <2>2. Control'
    BY <1>14, <1>t, <1>c
       DEF ManagerGrow, pool_vars, pool_queue_vars, count_vars, queue_vars, worker_vars, manager_vars,
           quit_vars, RestTyped, Control, CountCoversPool, ThrdSlots
  <2>3. CountIsActive' /\ ExecutingCounted'
    BY <1>14, <1>a, CountsKept
       DEF ManagerGrow, pool_vars, pool_queue_vars, count_vars, queue_vars, worker_vars, manager_vars,
           quit_vars
  <2> QED
    BY <1>p, <2>1, <2>2, <2>3
<1>15. ASSUME ManagerAdd PROVE PoolInv'
  <2>1. RestTyped'
    BY <1>15, <1>t, <1>c
       DEF ManagerAdd, pool_vars, pool_queue_vars, count_vars, queue_vars, worker_vars, manager_vars,
           quit_vars, RestTyped, WorkerSteps, ManagerSteps, QuitSteps, Control,
           CountCoversPool
  <2>2. Control'
    BY <1>15, <1>t, <1>c
       DEF ManagerAdd, pool_vars, pool_queue_vars, count_vars, queue_vars, worker_vars, manager_vars,
           quit_vars, RestTyped, Control, CountCoversPool, ThrdSlots
  <2>3. CountIsActive' /\ ExecutingCounted'
    <3>1. Active' = Active /\ At(Running)' = At(Running)
      BY <1>15 DEF ManagerAdd, Active, At, worker_vars
    <3>2. thrd_count \in Nat /\ thrd_count' = thrd_count + 1
      BY <1>15, <1>t DEF ManagerAdd, RestTyped
    <3>3. Cardinality(Active) \in Nat
      <4>1. IsFiniteSet(Active)
        BY SlotsFinite, FS_Subset DEF Active
      <4> QED
        BY <4>1, FS_CardinalityType
    <3> QED
      BY <3>1, <3>2, <3>3, <1>15, <1>a
         DEF ManagerAdd, CountIsActive, ExecutingCounted, pool_vars
  <2> QED
    BY <1>p, <2>1, <2>2, <2>3
<1>16. ASSUME ManagerPassSlot PROVE PoolInv'
  <2>1. RestTyped'
    BY <1>16, <1>t
       DEF ManagerPassSlot, Goto, pool_vars, pool_queue_vars, count_vars, queue_vars, worker_vars,
           manager_vars, quit_vars, RestTyped, WorkerSteps, ManagerSteps, QuitSteps,
           ThrdSlots
  <2>2. Control'
    BY <1>16, <1>t, <1>c
       DEF ManagerPassSlot, Goto, pool_vars, pool_queue_vars, count_vars, queue_vars, worker_vars,
           manager_vars, quit_vars, RestTyped, Control, CountCoversPool, ThrdSlots
  <2>3. CountIsActive' /\ ExecutingCounted'
    <3>1. CASE state[thrd_i] = "RUNNING"
      BY <3>1, <1>16, <1>a, CountsKept DEF ManagerPassSlot, pool_vars, pool_queue_vars, count_vars
    <3>2. CASE state[thrd_i] = "EXITED"
      BY <3>2, <1>16, <1>t, <1>a, CountsKeptByMove
         DEF ManagerPassSlot, RestTyped, pool_vars, pool_queue_vars, count_vars, WorkerSteps, Gone, Running
    <3> QED
      BY <3>1, <3>2, <1>16 DEF ManagerPassSlot
  <2> QED
    BY <1>p, <2>1, <2>2, <2>3
<1>17. ASSUME ManagerCreate PROVE PoolInv'
  <2>1. RestTyped'
    BY <1>17, <1>t
       DEF ManagerCreate, Goto, pool_vars, pool_queue_vars, count_vars, queue_vars, worker_vars,
           manager_vars, quit_vars, RestTyped, WorkerSteps, ManagerSteps, QuitSteps
  <2>2. Control'
    BY <1>17, <1>t, <1>c
       DEF ManagerCreate, Goto, pool_vars, pool_queue_vars, count_vars, queue_vars, worker_vars,
           manager_vars, quit_vars, RestTyped, Control, CountCoversPool, ThrdSlots
  <2>3. CountIsActive' /\ ExecutingCounted'
    <3>1. /\ "init" \in WorkerSteps /\ thrd \in [ThrdSlots -> WorkerSteps]
          /\ Goto(thrd_i, "init") /\ thrd_i \in ThrdSlots /\ thrd[thrd_i] = "none"
      BY <1>17, <1>t, <1>c DEF ManagerCreate, RestTyped, WorkerSteps, Control
    <3>2. /\ "init" \notin Gone /\ thrd[thrd_i] \in Gone
          /\ "init" \notin Running /\ thrd[thrd_i] \notin Running
      BY <3>1 DEF Gone, Running
    <3>3. Cardinality(Active') = Cardinality(Active) + 1 /\ Cardinality(Active) \in Nat
      BY <3>1, <3>2, ActiveMove
    <3>4. Cardinality(At(Running)') = Cardinality(At(Running))
      BY <3>1, <3>2, CountMove
    <3>5. thrd_count' = thrd_count /\ thrd_count \in Nat
      BY <1>17, <1>t DEF ManagerCreate, RestTyped, count_vars
    <3> QED
      BY <3>3, <3>4, <3>5, <1>17, <1>a
         DEF ManagerCreate, CountIsActive, ExecutingCounted, pool_vars, pool_queue_vars, count_vars
  <2> QED
    BY <1>p, <2>1, <2>2, <2>3
<1>18. ASSUME ManagerWait PROVE PoolInv'
  <2>1. RestTyped'
    BY <1>18, <1>t
       DEF ManagerWait, pool_vars, pool_queue_vars, count_vars, queue_vars, worker_vars, manager_vars,
           quit_vars, RestTyped, WorkerSteps, ManagerSteps, QuitSteps
  <2>2. Control'
    BY <1>18, <1>t, <1>c
       DEF ManagerWait, pool_vars, pool_queue_vars, count_vars, queue_vars, worker_vars, manager_vars,
           quit_vars, RestTyped, Control, CountCoversPool, ThrdSlots
  <2>3. CountIsActive' /\ ExecutingCounted'
    BY <1>18, <1>a, CountsKept
       DEF ManagerWait, pool_vars, pool_queue_vars, count_vars, queue_vars, worker_vars, manager_vars,
           quit_vars
  <2> QED
    BY <1>p, <2>1, <2>2, <2>3
<1>19. ASSUME ManagerRetune PROVE PoolInv'
  <2>n. /\ THRD_COUNT_MIN \in Nat \ {0} /\ THRD_COUNT_MAX \in Nat
        /\ thrd_count_target \in THRD_COUNT_MIN .. THRD_COUNT_MAX
    BY <1>19, <1>t, <1>c, PoolConstants DEF ManagerRetune, RestTyped, Control
  <2>m. thrd_count_target' \in THRD_COUNT_MIN .. THRD_COUNT_MAX
    <3>1. PICK increase \in BOOLEAN :
              thrd_count_target' =
                  CASE increase /\ thrd_count_target < THRD_COUNT_MAX -> thrd_count_target + 1
                    [] ~increase /\ thrd_count_target > THRD_COUNT_MIN -> thrd_count_target - 1
                    [] OTHER -> thrd_count_target
      BY <1>19 DEF ManagerRetune
    <3>2. CASE increase /\ thrd_count_target < THRD_COUNT_MAX
      BY <3>1, <3>2, <2>n
    <3>3. CASE ~increase /\ thrd_count_target > THRD_COUNT_MIN
      BY <3>1, <3>3, <2>n
    <3>4. CASE /\ ~(increase /\ thrd_count_target < THRD_COUNT_MAX)
               /\ ~(~increase /\ thrd_count_target > THRD_COUNT_MIN)
      BY <3>1, <3>4, <2>n
    <3> QED
      BY <3>2, <3>3, <3>4
  <2>u. /\ manager = "sample" /\ manager' = "while"
        /\ UNCHANGED <<pool_vars, pool_queue_vars, thrd_count, executing_count, state, queue_vars,
                       worker_vars, count, thrd_i, pause_counter, quit_vars>>
    BY <1>19 DEF ManagerRetune
  <2>1. RestTyped'
    BY <2>m, <2>u, <1>t
       DEF pool_vars, pool_queue_vars, queue_vars, worker_vars, quit_vars, RestTyped, ManagerSteps
  <2>2. Control'
    <3>1. thrd_count_target' >= THRD_COUNT_MIN
      BY <2>m, <2>n
    <3> QED
      BY <3>1, <2>u, <1>c
         DEF pool_vars, pool_queue_vars, queue_vars, worker_vars, quit_vars, Control, CountCoversPool
  <2>3. CountIsActive' /\ ExecutingCounted'
    BY <1>19, <1>a, CountsKept
       DEF ManagerRetune, pool_vars, pool_queue_vars, count_vars, queue_vars, worker_vars, manager_vars,
           quit_vars
  <2> QED
    BY <1>p, <2>1, <2>2, <2>3
<1>20. ASSUME ManagerIdle PROVE PoolInv'
  <2>1. RestTyped'
    BY <1>20, <1>t, <1>c
       DEF ManagerIdle, pool_vars, pool_queue_vars, count_vars, queue_vars, worker_vars, manager_vars,
           quit_vars, RestTyped, WorkerSteps, ManagerSteps, QuitSteps, Control,
           CountCoversPool
  <2>2. Control'
    BY <1>20, <1>t, <1>c
       DEF ManagerIdle, pool_vars, pool_queue_vars, count_vars, queue_vars, worker_vars, manager_vars,
           quit_vars, RestTyped, Control, CountCoversPool, ThrdSlots
  <2>3. CountIsActive' /\ ExecutingCounted'
    BY <1>20, <1>a, CountsKept
       DEF ManagerIdle, pool_vars, pool_queue_vars, count_vars, queue_vars, worker_vars, manager_vars,
           quit_vars
  <2> QED
    BY <1>p, <2>1, <2>2, <2>3
<1>21. ASSUME ManagerPaused PROVE PoolInv'
  <2>1. RestTyped'
    BY <1>21, <1>t
       DEF ManagerPaused, pool_vars, pool_queue_vars, count_vars, queue_vars, worker_vars, manager_vars,
           quit_vars, RestTyped, WorkerSteps, ManagerSteps, QuitSteps
  <2>2. Control'
    BY <1>21, <1>t, <1>c
       DEF ManagerPaused, pool_vars, pool_queue_vars, count_vars, queue_vars, worker_vars, manager_vars,
           quit_vars, RestTyped, Control, CountCoversPool, ThrdSlots
  <2>3. CountIsActive' /\ ExecutingCounted'
    BY <1>21, <1>a, CountsKept
       DEF ManagerPaused, pool_vars, pool_queue_vars, count_vars, queue_vars, worker_vars, manager_vars,
           quit_vars
  <2> QED
    BY <1>p, <2>1, <2>2, <2>3
<1>22. ASSUME QuitFlag PROVE PoolInv'
  <2>1. RestTyped'
    BY <1>22, <1>t
       DEF QuitFlag, pool_vars, pool_queue_vars, count_vars, queue_vars, worker_vars, manager_vars,
           quit_vars, RestTyped, WorkerSteps, ManagerSteps, QuitSteps
  <2>2. Control'
    BY <1>22, <1>t, <1>c
       DEF QuitFlag, pool_vars, pool_queue_vars, count_vars, queue_vars, worker_vars, manager_vars,
           quit_vars, RestTyped, Control, CountCoversPool, ThrdSlots
  <2>3. CountIsActive' /\ ExecutingCounted'
    BY <1>22, <1>a, CountsKept
       DEF QuitFlag, pool_vars, pool_queue_vars, count_vars, queue_vars, worker_vars, manager_vars,
           quit_vars
  <2> QED
    BY <1>p, <2>1, <2>2, <2>3
<1>23. ASSUME QuitPost PROVE PoolInv'
  <2>1. RestTyped'
    BY <1>23, <1>t, <1>c
       DEF QuitPost, pool_vars, pool_queue_vars, count_vars, queue_vars, worker_vars, manager_vars,
           quit_vars, RestTyped, WorkerSteps, ManagerSteps, QuitSteps, Control,
           CountCoversPool
  <2>2. Control'
    BY <1>23, <1>t, <1>c
       DEF QuitPost, pool_vars, pool_queue_vars, count_vars, queue_vars, worker_vars, manager_vars,
           quit_vars, RestTyped, Control, CountCoversPool, ThrdSlots
  <2>3. CountIsActive' /\ ExecutingCounted'
    BY <1>23, <1>a, CountsKept
       DEF QuitPost, pool_vars, pool_queue_vars, count_vars, queue_vars, worker_vars, manager_vars,
           quit_vars
  <2> QED
    BY <1>p, <2>1, <2>2, <2>3
<1>24. ASSUME QuitJoinManager PROVE PoolInv'
  <2>1. RestTyped'
    BY <1>24, <1>t
       DEF QuitJoinManager, pool_vars, pool_queue_vars, count_vars, queue_vars, worker_vars,
           manager_vars, quit_vars, RestTyped, WorkerSteps, ManagerSteps, QuitSteps
  <2>2. Control'
    BY <1>24, <1>t, <1>c
       DEF QuitJoinManager, pool_vars, pool_queue_vars, count_vars, queue_vars, worker_vars,
           manager_vars, quit_vars, RestTyped, Control, CountCoversPool, ThrdSlots
  <2>3. CountIsActive' /\ ExecutingCounted'
    BY <1>24, <1>a, CountsKept
       DEF QuitJoinManager, pool_vars, pool_queue_vars, count_vars, queue_vars, worker_vars,
           manager_vars, quit_vars
  <2> QED
    BY <1>p, <2>1, <2>2, <2>3
<1>25. ASSUME QuitFor PROVE PoolInv'
  <2>1. RestTyped'
    BY <1>25, <1>t, <1>c
       DEF QuitFor, pool_vars, pool_queue_vars, count_vars, queue_vars, worker_vars, manager_vars,
           quit_vars, RestTyped, WorkerSteps, ManagerSteps, QuitSteps, Control,
           CountCoversPool
  <2>2. Control'
    BY <1>25, <1>t, <1>c
       DEF QuitFor, pool_vars, pool_queue_vars, count_vars, queue_vars, worker_vars, manager_vars,
           quit_vars, RestTyped, Control, CountCoversPool, ThrdSlots
  <2>3. CountIsActive' /\ ExecutingCounted'
    BY <1>25, <1>a, CountsKept
       DEF QuitFor, pool_vars, pool_queue_vars, count_vars, queue_vars, worker_vars, manager_vars,
           quit_vars
  <2> QED
    BY <1>p, <2>1, <2>2, <2>3
<1>26. ASSUME QuitEnqueue PROVE PoolInv'
  <2>1. RestTyped'
    <3>1. quitter' \in QuitSteps /\ i' \in 0 .. THRD_COUNT_MAX
      BY <1>26, <1>t, <1>c DEF QuitEnqueue, RestTyped, Control, QuitSteps
    <3> QED
      BY <1>26, <1>t, <3>1
         DEF QuitEnqueue, pool_vars, pool_queue_vars, count_vars, worker_vars, manager_vars,
             RestTyped
  <2>2. Control'
    BY <1>26, <1>t, <1>c
       DEF QuitEnqueue, pool_vars, pool_queue_vars, count_vars, queue_vars, worker_vars, manager_vars,
           quit_vars, RestTyped, Control, CountCoversPool, ThrdSlots
  <2>3. CountIsActive' /\ ExecutingCounted'
    BY <1>26, <1>a, CountsKept
       DEF QuitEnqueue, pool_vars, pool_queue_vars, count_vars, queue_vars, worker_vars, manager_vars,
           quit_vars
  <2> QED
    BY <1>p, <2>1, <2>2, <2>3
<1>27. ASSUME QuitJoin PROVE PoolInv'
  <2>1. RestTyped'
    BY <1>27, <1>t, <1>c
       DEF QuitJoin, Goto, pool_vars, pool_queue_vars, count_vars, queue_vars, worker_vars, manager_vars,
           quit_vars, RestTyped, WorkerSteps, ManagerSteps, QuitSteps, Control,
           CountCoversPool, ThrdSlots
  <2>2. Control'
    BY <1>27, <1>t, <1>c
       DEF QuitJoin, Goto, pool_vars, pool_queue_vars, count_vars, queue_vars, worker_vars, manager_vars,
           quit_vars, RestTyped, Control, CountCoversPool, ThrdSlots
  <2>3. CountIsActive' /\ ExecutingCounted'
    <3>1. CASE state[i] = "UNINITIALIZED"
      BY <3>1, <1>27, <1>a, CountsKept DEF QuitJoin, pool_vars, pool_queue_vars, count_vars, manager_vars
    <3>2. CASE state[i] # "UNINITIALIZED"
      <4>1. i \in ThrdSlots
        BY <1>27, <1>t DEF QuitJoin, RestTyped, ThrdSlots
      <4> QED
        BY <3>2, <4>1, <1>27, <1>t, <1>a, CountsKeptByMove
           DEF QuitJoin, pool_vars, pool_queue_vars, count_vars, manager_vars, WorkerSteps, Gone, Running
    <3> QED
      BY <3>1, <3>2
  <2> QED
    BY <1>p, <2>1, <2>2, <2>3
<1>28. ASSUME QuitDone PROVE PoolInv'
  <2>1. RestTyped'
    BY <1>28, <1>t
       DEF QuitDone, LeaveStack, pool_vars, count_vars, queue_vars, worker_vars, manager_vars,
           quit_vars, RestTyped, WorkerSteps, ManagerSteps, QuitSteps
  <2>2. Control'
    BY <1>28, <1>t, <1>c
       DEF QuitDone, pool_vars, pool_queue_vars, count_vars, queue_vars, worker_vars, manager_vars,
           quit_vars, RestTyped, Control, CountCoversPool, ThrdSlots
  <2>3. CountIsActive' /\ ExecutingCounted'
    BY <1>28, <1>a, CountsKept
       DEF QuitDone, pool_vars, pool_queue_vars, count_vars, queue_vars, worker_vars, manager_vars,
           quit_vars
  <2> QED
    BY <1>p, <2>1, <2>2, <2>3
<1>29. ASSUME UNCHANGED vars PROVE PoolInv'
  <2>1. RestTyped' /\ Control'
    BY <1>29, <1>t, <1>c
       DEF vars, pool_vars, pool_queue_vars, count_vars, queue_vars, worker_vars, manager_vars,
           quit_vars, RestTyped, Control, CountCoversPool
  <2>2. CountIsActive' /\ ExecutingCounted'
    BY <1>29, <1>a, CountsKept
       DEF vars, pool_vars, pool_queue_vars, count_vars, queue_vars, worker_vars, manager_vars, quit_vars
  <2> QED
    BY <1>p, <2>1, <2>2
<1> QED
  BY <1>1, <1>2, <1>3, <1>r, <1>4, <1>5, <1>6, <1>7, <1>8, <1>9, <1>10, <1>11, <1>12, <1>13, <1>14, <1>15, <1>16, <1>17, <1>18, <1>19, <1>20, <1>21, <1>22, <1>23, <1>24, <1>25, <1>26, <1>27, <1>28,
     <1>29, <1>30, <1>31 DEF Next, Worker, Manager, Quit

-----------------------------------------------------------------------------
(* Type correctness of the pool.                                           *)
THEOREM PoolTypeCorrect == Spec => []TypeOK
<1>1. PoolInv => TypeOK
  BY DEF PoolInv, QueueTyped, RestTyped, TypeOK
<1> QED
  BY <1>1, PoolInit, PoolNext, PTL DEF Spec

(* The manager's possibly stale count is an upper bound of thrd_count and  *)
(* never exceeds the number of slots (uo_cb_thrdpool.c:106,128,130).       *)
THEOREM CountAlwaysCoversPool == Spec => []CountCoversPool
<1>1. PoolInv => CountCoversPool
  BY DEF PoolInv, Control
<1> QED
  BY <1>1, PoolInit, PoolNext, PTL DEF Spec

(* thrd_count is the number of workers in service, for every pool size     *)
(* (uo_cb_thrdpool.c:106,130,148).                                         *)
THEOREM CountIsAlwaysActive == Spec => []CountIsActive
<1>1. PoolInv => CountIsActive
  BY DEF PoolInv
<1> QED
  BY <1>1, PoolInit, PoolNext, PTL DEF Spec

(* Nobody of the pool runs on after the atexit handler                     *)
(* (uo_cb_thrdpool.c:217-237).                                             *)
THEOREM NobodyLeftBehind == Spec => []NoThreadLeftBehind
<1>1. PoolInv => NoThreadLeftBehind
  BY DEF PoolInv, Control, NoThreadLeftBehind, ThrdSlots, RestTyped
<1> QED
  BY <1>1, PoolInit, PoolNext, PTL DEF Spec

(* No race of the workers shrinks the pool below THRD_COUNT_MIN            *)
(* (uo_cb_thrdpool.c:103-107).                                             *)
THEOREM PoolKeepsMinimum == Spec => NeverShrunkBelowMin
<1>1. PoolInv /\ [Next]_vars => [thrd_count' < thrd_count => thrd_count' >= THRD_COUNT_MIN]_vars
  <2> SUFFICES ASSUME PoolInv, Next, thrd_count' < thrd_count
               PROVE  thrd_count' >= THRD_COUNT_MIN
    OBVIOUS
  <2>t. thrd_count \in Nat /\ THRD_COUNT_MIN \in Nat /\ \A w \in ThrdSlots : seen[w] \in Nat
    BY PoolConstants DEF PoolInv, RestTyped
  <2>c. \A w \in ThrdSlots : thrd[w] = "cas" => seen[w] > THRD_COUNT_MIN
    BY DEF PoolInv, Control
  <2>1. PICK w \in ThrdSlots : WorkerCas(w)
    BY <2>t DEF Next, InvokeAsync, InvokeAsyncPost, OtherThrdQuit, Worker, WorkerInit, WorkerWhile, WorkerDequeue, WorkerRead,
       NotifyBefore, Invoke,
       InvokeEnqueue, NotifyAfter, WorkerLoad, WorkerCompare, WorkerExit, Manager, ManagerStart,
       ManagerWhile, ManagerGrow, ManagerAdd, ManagerPassSlot, ManagerCreate, ManagerWait,
       ManagerRetune, ManagerIdle, ManagerPaused, QuitFlag, Quit, QuitPost, QuitJoinManager,
       QuitFor, QuitEnqueue, QuitJoin, QuitDone, count_vars
  <2>2. thrd[w] = "cas" /\ thrd_count' = seen[w] - 1
    BY <2>1, <2>t DEF WorkerCas
  <2> QED
    BY <2>2, <2>c, <2>t
<1> QED
  BY <1>1, PoolInit, PoolNext, PTL DEF Spec, NeverShrunkBelowMin
=============================================================================
