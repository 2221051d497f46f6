---------------------------- MODULE UoCbThrdpool ----------------------------
(***************************************************************************)
(* The callback thread pool: uo_cb_thrdpool.c.  A manager thread grows the *)
(* pool and retunes its target size, workers take callbacks from the       *)
(* callback queue and leave when the pool is above its target, and the     *)
(* atexit handler uo_cb_thrdpool_quit stops everybody.                     *)
(*                                                                         *)
(* The callback queue is the sequence of its tickets, filled or still to   *)
(* be filled by the producer that drew them (each step of a queue of this  *)
(* kind is in UoQueue).  Of the link pools (uo_linkpool.h) a thread takes  *)
(* its stacks from when it starts and leaves them in when it quits, only   *)
(* the number of stacks matters here; UoCb says what is in them.  The      *)
(* three pools go alike: the model has one.  The throughput sample that    *)
(* decides whether the target goes up or down is a nondeterministic        *)
(* choice, and with it sample.completions and the length of the timeouts   *)
(* are left out.                                                           *)
(***************************************************************************)
EXTENDS Integers, Sequences, FiniteSets

CONSTANTS THRD_COUNT_INI, THRD_COUNT_MIN, THRD_COUNT_MAX,
          PAUSE_COUNTER,
          QUEUE_CAPACITY,   \* UO_CB_QUEUE_CAPACITY
          LINKPOOL_CAPACITY,  \* of the queue of a link pool (uo_linkpool.h:141)
          Callers,          \* threads of the application
          Main,             \* the one of them that calls exit
          OTHER_THRDS,      \* accept threads and the like that quit some day
          MaxCallbacks      \* bound: callbacks enqueued in a behaviour, no-ops of quit aside

ASSUME PoolConstants ==
    /\ THRD_COUNT_MIN \in Nat \ {0} /\ THRD_COUNT_INI \in Nat /\ THRD_COUNT_MAX \in Nat
    /\ THRD_COUNT_MIN <= THRD_COUNT_INI /\ THRD_COUNT_INI <= THRD_COUNT_MAX
    /\ PAUSE_COUNTER \in Nat \ {0}
    /\ QUEUE_CAPACITY \in Nat \ {0} /\ LINKPOOL_CAPACITY \in Nat \ {0}
    /\ OTHER_THRDS \in Nat
    /\ MaxCallbacks \in Nat

ASSUME CallersAssumption ==
    /\ IsFiniteSet(Callers) /\ Main \in Callers
    /\ Callers \cap (-1 .. THRD_COUNT_MAX - 1) = {}

VARIABLES is_quitting,
          is_paused, update_sem,
          thrd_count, thrd_count_target, executing_count,
          state,            \* cb_thrds[i].state
          cbs,              \* tickets of cb_queue: Filled, or who is to fill it
          writing,          \* who drew a ticket and has not filled its slot
          late,             \* tickets drawn by other workers since a worker that reads drew its own
          misread,          \* a slot was read while another thread was to write it
          stacks,           \* stacks in the queue of a link pool
          others,           \* other threads that have not left their stack yet
          issued,           \* callbacks given to uo_cb_invoke_async so far
          called,           \* callbacks invoked so far
          thrd,             \* what the worker of each slot does next
          seen,             \* count in each worker: the thrd_count it loaded
          manager, count, thrd_i, pause_counter,   \* the manager and its locals
          quitter, i        \* uo_cb_thrdpool_quit and its loop counter

pool_vars    == <<is_quitting, is_paused, update_sem>>
count_vars   == <<thrd_count, thrd_count_target, executing_count>>
queue_vars   == <<cbs, writing, late, misread, issued, called>>
pool_queue_vars == <<stacks, others>>
worker_vars  == <<thrd, seen>>
manager_vars == <<manager, count, thrd_i, pause_counter>>
quit_vars    == <<quitter, i>>
vars == <<pool_vars, pool_queue_vars, count_vars, state, queue_vars, worker_vars, manager_vars, quit_vars>>

ThrdSlots == 0 .. THRD_COUNT_MAX - 1

Producers == Callers \cup ThrdSlots
Filled    == -1

(* A worker is "none" before pthread_create and after it was joined, and   *)
(* "ended" between its last statement and the join.                        *)
WorkerSteps  == {"none", "init", "while", "dequeue", "read", "before", "cb", "enqueue", "after",
                 "load", "compare", "cas", "shed", "stop", "ended"}
ManagerSteps == {"start", "while", "grow", "add", "slot", "wait", "sample", "pause", "ended"}
QuitSteps    == {"running", "post", "join_manager", "for", "enqueue", "join", "done"}

TypeOK ==
    /\ is_quitting \in BOOLEAN /\ is_paused \in BOOLEAN
    /\ update_sem \in 0 .. 1
    /\ thrd_count \in 0 .. THRD_COUNT_MAX
    /\ thrd_count_target \in {0} \cup THRD_COUNT_MIN .. THRD_COUNT_MAX
    /\ executing_count \in 0 .. THRD_COUNT_MAX
    /\ state \in [ThrdSlots -> {"UNINITIALIZED", "RUNNING", "EXITED"}]
    /\ cbs \in Seq(Producers \cup {Filled}) /\ Len(cbs) <= QUEUE_CAPACITY
    /\ writing \subseteq Producers /\ misread \in BOOLEAN
    /\ late \in [ThrdSlots -> Nat]
    /\ issued \in 0 .. MaxCallbacks /\ called \in Nat
    /\ stacks \in 0 .. LINKPOOL_CAPACITY /\ others \in 0 .. OTHER_THRDS
    /\ thrd \in [ThrdSlots -> WorkerSteps]
    /\ seen \in [ThrdSlots -> 0 .. THRD_COUNT_MAX]
    /\ manager \in ManagerSteps
    /\ count \in 0 .. THRD_COUNT_MAX
    /\ thrd_i \in ThrdSlots
    /\ pause_counter \in 1 .. PAUSE_COUNTER
    /\ quitter \in QuitSteps /\ i \in 0 .. THRD_COUNT_MAX

-----------------------------------------------------------------------------
(* uo_cb_thrdpool_init, after its pthread_create of the manager            *)
Init ==
    /\ is_quitting = FALSE /\ is_paused = FALSE /\ update_sem = 0
    /\ thrd_count = 0 /\ thrd_count_target = 0 /\ executing_count = 0
    /\ state = [s \in ThrdSlots |-> "UNINITIALIZED"]
    /\ cbs = <<>> /\ writing = {} /\ late = [s \in ThrdSlots |-> 0] /\ misread = FALSE
    /\ issued = 0 /\ called = 0
    /\ stacks = 0 /\ others = OTHER_THRDS
    /\ thrd = [s \in ThrdSlots |-> "none"]
    /\ seen = [s \in ThrdSlots |-> 0]
    /\ manager = "start" /\ count = 0 /\ thrd_i = 0 /\ pause_counter = PAUSE_COUNTER
    /\ quitter = "running" /\ i = 0

-----------------------------------------------------------------------------
(* The queue of callbacks.  uo_cb_queue_enqueue waits for room and draws a  *)
(* ticket, then fills the slot of the ticket and posts: with two producers  *)
(* the earlier ticket may be filled after the later one was posted.         *)
Reading == {w \in ThrdSlots : thrd[w] = "read"}
dequeue_sem == Len(cbs) - Cardinality(writing)
enqueue_sem == QUEUE_CAPACITY - Len(cbs) - Cardinality(Reading)

(* The next slot of the ring is one that a worker has still to read: other  *)
(* workers that came after it have made room.                               *)
SlotUnread == \E w \in Reading : late[w] + Len(cbs) + 1 = QUEUE_CAPACITY

Draw(p) ==
    /\ p \notin writing /\ enqueue_sem > 0
    /\ cbs' = Append(cbs, p)
    /\ writing' = writing \cup {p}
    /\ misread' = (misread \/ SlotUnread)
    /\ UNCHANGED late

(* Filling a ticket that a worker has already taken reaches nobody.         *)
Fill(p) ==
    /\ p \in writing
    /\ cbs' = [k \in 1 .. Len(cbs) |-> IF cbs[k] = p THEN Filled ELSE cbs[k]]
    /\ writing' = writing \ {p}
    /\ UNCHANGED <<late, misread>>

(* The application enqueues a callback: uo_cb_invoke_async, which waits    *)
(* while the queue is full.  Main does no more of it once it calls exit.   *)
InvokeAsync(c) ==
    /\ issued < MaxCallbacks /\ Draw(c)
    /\ quitter # "done" /\ (c = Main => quitter = "running")
    /\ issued' = issued + 1
    /\ UNCHANGED <<pool_vars, pool_queue_vars, count_vars, state, called, worker_vars,
                   manager_vars, quit_vars>>

InvokeAsyncPost(c) ==
    /\ Fill(c) /\ (c = Main => quitter = "running")
    /\ UNCHANGED <<pool_vars, pool_queue_vars, count_vars, state, issued, called, worker_vars,
                   manager_vars, quit_vars>>

-----------------------------------------------------------------------------
(* The stacks of the link pools.  A thread that starts takes one if there   *)
(* is one; a thread that quits waits for room to leave its own.             *)
TakeStack  == stacks' = IF stacks = 0 THEN 0 ELSE stacks - 1
LeaveStack == stacks < LINKPOOL_CAPACITY /\ stacks' = stacks + 1

(* Another thread that uses callbacks, as the one of uo_tcp_server_accept,  *)
(* is over: uo_cb_thrd_quit.                                                *)
OtherThrdQuit ==
    /\ others > 0 /\ LeaveStack
    /\ others' = others - 1
    /\ UNCHANGED <<pool_vars, count_vars, state, queue_vars, worker_vars, manager_vars,
                   quit_vars>>

-----------------------------------------------------------------------------
(* A worker: uo_cb_execute.                                                *)
Goto(w, step) == thrd' = [thrd EXCEPT ![w] = step]

(* the local count goes out of scope                                       *)
Forget(w) == seen' = [seen EXCEPT ![w] = 0]

(* uo_cb_thrd_init                                                         *)
WorkerInit(w) ==
    /\ thrd[w] = "init"
    /\ TakeStack
    /\ Goto(w, "while")
    /\ UNCHANGED <<pool_vars, others, count_vars, state, queue_vars, seen, manager_vars,
                   quit_vars>>

(* while (!is_quitting)                                                    *)
WorkerWhile(w) ==
    /\ thrd[w] = "while"
    /\ Goto(w, IF is_quitting THEN "stop" ELSE "dequeue")
    /\ UNCHANGED <<pool_vars, pool_queue_vars, count_vars, state, queue_vars, seen, manager_vars, quit_vars>>

(* uo_cb_queue_try_dequeue: a timeout returns NULL.  After a misread late  *)
(* is of no interest.                                                      *)
WorkerDequeue(w) ==
    /\ thrd[w] = "dequeue"
    /\ \/ dequeue_sem = 0 /\ Goto(w, "load") /\ UNCHANGED <<cbs, late, misread>>
       \/ /\ dequeue_sem > 0
          /\ cbs' = Tail(cbs)
          /\ misread' = (misread \/ Head(cbs) # Filled)
          /\ late' = [x \in ThrdSlots |-> IF x \in Reading /\ ~misread' THEN late[x] + 1 ELSE 0]
          /\ Goto(w, "read")
    /\ UNCHANGED <<pool_vars, pool_queue_vars, count_vars, state, writing, issued, called,
                   seen, manager_vars, quit_vars>>

(* the slot is read and the room posted, and if (cb): a slot that another  *)
(* thread was to write may hold NULL, or a callback of another round       *)
WorkerRead(w) ==
    /\ thrd[w] = "read"
    /\ Goto(w, "before") \/ (misread /\ Goto(w, "load"))
    /\ late' = [late EXCEPT ![w] = 0]
    /\ UNCHANGED <<pool_vars, pool_queue_vars, count_vars, state, cbs, writing, misread, issued, called,
                   seen, manager_vars, quit_vars>>

(* uo_cb_thrdpool_notify_before_invoke                                     *)
NotifyBefore(w) ==
    /\ thrd[w] = "before"
    /\ executing_count' = executing_count + 1
    /\ Goto(w, "cb")
    /\ UNCHANGED <<pool_vars, pool_queue_vars, thrd_count, thrd_count_target, state, queue_vars, seen,
                   manager_vars, quit_vars>>

(* uo_cb_invoke(cb): the callback returns, at once or after it enqueued    *)
(* another callback, as uo_io_read_async does from inside a callback.      *)
Invoke(w) ==
    /\ thrd[w] = "cb"
    /\ called' = called + 1
    /\ \/ Goto(w, "after") /\ UNCHANGED issued
       \/ issued < MaxCallbacks /\ issued' = issued + 1 /\ Goto(w, "enqueue")
    /\ UNCHANGED <<pool_vars, pool_queue_vars, count_vars, state, cbs, writing, late, misread, seen,
                   manager_vars, quit_vars>>

(* the callback's uo_cb_invoke_async                                       *)
InvokeEnqueue(w) ==
    /\ thrd[w] = "enqueue"
    /\ \/ Draw(w) /\ UNCHANGED thrd
       \/ Fill(w) /\ Goto(w, "after")
    /\ UNCHANGED <<pool_vars, pool_queue_vars, count_vars, state, issued, called, seen,
                   manager_vars, quit_vars>>

(* uo_cb_thrdpool_notify_after_invoke                                      *)
NotifyAfter(w) ==
    /\ thrd[w] = "after"
    /\ executing_count' = executing_count - 1
    /\ is_paused' = FALSE
    /\ update_sem' = IF is_paused THEN update_sem + 1 ELSE update_sem
    /\ Goto(w, "load")
    /\ UNCHANGED <<pool_queue_vars, is_quitting, thrd_count, thrd_count_target, state, queue_vars, seen,
                   manager_vars, quit_vars>>

(* count = atomic_load(&thrdpool.thrd_count)                               *)
WorkerLoad(w) ==
    /\ thrd[w] = "load"
    /\ seen' = [seen EXCEPT ![w] = thrd_count]
    /\ Goto(w, "compare")
    /\ UNCHANGED <<pool_vars, pool_queue_vars, count_vars, state, queue_vars, manager_vars, quit_vars>>

\* mutation: >= instead of >
WorkerCompareAtTarget(w) ==
    /\ thrd[w] = "compare"
    /\ \/ seen[w] >= thrd_count_target /\ Goto(w, "cas") /\ UNCHANGED seen
       \/ seen[w] < thrd_count_target /\ Goto(w, "while") /\ Forget(w)
    /\ UNCHANGED <<pool_vars, pool_queue_vars, count_vars, state, queue_vars, manager_vars, quit_vars>>

(* count > count_target                                                    *)
WorkerCompare(w) ==
    /\ thrd[w] = "compare"
    /\ \/ seen[w] > thrd_count_target /\ Goto(w, "cas") /\ UNCHANGED seen
       \/ seen[w] <= thrd_count_target /\ Goto(w, "while") /\ Forget(w)
    /\ UNCHANGED <<pool_vars, pool_queue_vars, count_vars, state, queue_vars, manager_vars, quit_vars>>

\* mutation: a plain store instead of the compare-and-exchange
WorkerStore(w) ==
    /\ thrd[w] = "cas"
    /\ thrd_count' = seen[w] - 1
    /\ Goto(w, "shed") /\ Forget(w)
    /\ UNCHANGED <<pool_vars, pool_queue_vars, thrd_count_target, executing_count, state, queue_vars,
                   manager_vars, quit_vars>>

\* mutation: atomic_fetch_sub instead of the compare-and-exchange
WorkerFetchSub(w) ==
    /\ thrd[w] = "cas"
    /\ thrd_count' = thrd_count - 1
    /\ Goto(w, "shed") /\ Forget(w)
    /\ UNCHANGED <<pool_vars, pool_queue_vars, thrd_count_target, executing_count, state, queue_vars,
                   manager_vars, quit_vars>>

(* atomic_compare_exchange_strong(&thrdpool.thrd_count, &count, count - 1) *)
WorkerCas(w) ==
    /\ thrd[w] = "cas"
    /\ \/ thrd_count = seen[w] /\ thrd_count' = seen[w] - 1 /\ Goto(w, "shed")
       \/ thrd_count # seen[w] /\ thrd_count' = thrd_count /\ Goto(w, "while")
    /\ Forget(w)
    /\ UNCHANGED <<pool_vars, pool_queue_vars, thrd_count_target, executing_count, state, queue_vars,
                   manager_vars, quit_vars>>

(* uo_cb_thrd_quit, which waits for room in the link pools, then           *)
(* state = UO_CB_THRD_EXITED, and the thread is over                       *)
WorkerExit(w) ==
    /\ thrd[w] \in {"shed", "stop"}
    /\ LeaveStack
    /\ state' = [state EXCEPT ![w] = "EXITED"]
    /\ Goto(w, "ended")
    /\ UNCHANGED <<pool_vars, others, count_vars, queue_vars, seen, manager_vars, quit_vars>>

Worker(w) ==
    \/ WorkerInit(w) \/ WorkerWhile(w) \/ WorkerDequeue(w) \/ WorkerRead(w) \/ NotifyBefore(w)
    \/ Invoke(w) \/ InvokeEnqueue(w) \/ NotifyAfter(w) \/ WorkerLoad(w) \/ WorkerCompare(w) \/ WorkerCas(w) \/ WorkerExit(w)

-----------------------------------------------------------------------------
(* The manager: uo_cb_manage_thrds.                                        *)
ManagerStart ==
    /\ manager = "start"
    /\ thrd_count_target' = THRD_COUNT_INI
    /\ count' = thrd_count
    /\ manager' = "while"
    /\ UNCHANGED <<pool_vars, pool_queue_vars, thrd_count, executing_count, state, queue_vars, worker_vars,
                   thrd_i, pause_counter, quit_vars>>

(* while (!is_quitting)                                                    *)
ManagerWhile ==
    /\ manager = "while"
    /\ manager' = IF is_quitting THEN "ended" ELSE "grow"
    /\ UNCHANGED <<pool_vars, pool_queue_vars, count_vars, state, queue_vars, worker_vars, count, thrd_i,
                   pause_counter, quit_vars>>

\* mutation: off by one in both bounds of the growing loop
ManagerGrowOneMore ==
    /\ manager = "grow"
    /\ manager' = IF ~is_quitting /\ count <= thrd_count_target /\ count <= THRD_COUNT_MAX
                  THEN "add" ELSE "wait"
    /\ UNCHANGED <<pool_vars, pool_queue_vars, count_vars, state, queue_vars, worker_vars, count, thrd_i,
                   pause_counter, quit_vars>>

(* the condition of the growing loop, on the manager's own count           *)
ManagerGrow ==
    /\ manager = "grow"
    /\ manager' = IF ~is_quitting /\ count < thrd_count_target /\ count < THRD_COUNT_MAX
                  THEN "add" ELSE "wait"
    /\ UNCHANGED <<pool_vars, pool_queue_vars, count_vars, state, queue_vars, worker_vars, count, thrd_i,
                   pause_counter, quit_vars>>

(* count = atomic_fetch_add(&thrdpool.thrd_count, 1) + 1                   *)
ManagerAdd ==
    /\ manager = "add"
    /\ thrd_count' = thrd_count + 1
    /\ count' = thrd_count + 1
    /\ manager' = "slot"
    /\ UNCHANGED <<pool_vars, pool_queue_vars, thrd_count_target, executing_count, state, queue_vars,
                   worker_vars, thrd_i, pause_counter, quit_vars>>

\* mutation: the search stays at an occupied slot
ManagerPassSlotStays ==
    /\ manager = "slot"
    /\ state[thrd_i] = "EXITED" /\ thrd[thrd_i] = "ended"
    /\ state' = [state EXCEPT ![thrd_i] = "UNINITIALIZED"]
    /\ Goto(thrd_i, "none")
    /\ UNCHANGED <<pool_vars, pool_queue_vars, count_vars, queue_vars, seen, manager_vars, quit_vars>>

(* an occupied slot is passed over; an exited thread is joined, its slot   *)
(* freed, and then passed over as well                                     *)
ManagerPassSlot ==
    /\ manager = "slot"
    /\ \/ state[thrd_i] = "RUNNING" /\ UNCHANGED <<state, thrd>>
       \/ /\ state[thrd_i] = "EXITED" /\ thrd[thrd_i] = "ended"
          /\ state' = [state EXCEPT ![thrd_i] = "UNINITIALIZED"]
          /\ Goto(thrd_i, "none")
    /\ thrd_i' = (thrd_i + 1) % THRD_COUNT_MAX
    /\ UNCHANGED <<pool_vars, pool_queue_vars, count_vars, queue_vars, seen, manager, count, pause_counter,
                   quit_vars>>

(* a free slot: mark it and create its thread                              *)
ManagerCreate ==
    /\ manager = "slot"
    /\ state[thrd_i] = "UNINITIALIZED"
    /\ state' = [state EXCEPT ![thrd_i] = "RUNNING"]
    /\ Goto(thrd_i, "init")
    /\ manager' = "grow"
    /\ UNCHANGED <<pool_vars, pool_queue_vars, count_vars, queue_vars, seen, count, thrd_i, pause_counter,
                   quit_vars>>

(* sem_timedwait(&thrdpool.update_sem): woken or timed out                 *)
ManagerWait ==
    /\ manager = "wait"
    /\ \/ update_sem > 0 /\ update_sem' = update_sem - 1 /\ manager' = "while"
       \/ update_sem = 0 /\ update_sem' = update_sem /\ manager' = "sample"
    /\ UNCHANGED <<pool_queue_vars, is_quitting, is_paused, count_vars, state, queue_vars, worker_vars, count,
                   thrd_i, pause_counter, quit_vars>>

(* callbacks were executing: the target moves by one, within its limits    *)
ManagerRetune ==
    /\ manager = "sample"
    /\ executing_count > 0
    /\ \E increase \in BOOLEAN :
          thrd_count_target' =
              CASE increase /\ thrd_count_target < THRD_COUNT_MAX -> thrd_count_target + 1
                [] ~increase /\ thrd_count_target > THRD_COUNT_MIN -> thrd_count_target - 1
                [] OTHER -> thrd_count_target
    /\ manager' = "while"
    /\ UNCHANGED <<pool_vars, pool_queue_vars, thrd_count, executing_count, state, queue_vars, worker_vars,
                   count, thrd_i, pause_counter, quit_vars>>

(* nothing was executing: after PAUSE_COUNTER such samples the target goes *)
(* down, or, at its minimum, the manager waits for update_sem              *)
ManagerIdle ==
    /\ manager = "sample"
    /\ executing_count = 0
    /\ \/ /\ pause_counter > 1
          /\ pause_counter' = pause_counter - 1
          /\ manager' = "while" /\ UNCHANGED thrd_count_target
       \/ /\ pause_counter = 1 /\ thrd_count_target > THRD_COUNT_MIN
          /\ thrd_count_target' = thrd_count_target - 1
          /\ pause_counter' = PAUSE_COUNTER
          /\ manager' = "while"
       \/ /\ pause_counter = 1 /\ thrd_count_target <= THRD_COUNT_MIN
          /\ manager' = "pause" /\ UNCHANGED <<thrd_count_target, pause_counter>>
    /\ UNCHANGED <<pool_vars, pool_queue_vars, thrd_count, executing_count, state, queue_vars, worker_vars,
                   count, thrd_i, quit_vars>>

(* sem_wait(&thrdpool.update_sem)                                          *)
ManagerPaused ==
    /\ manager = "pause"
    /\ update_sem > 0
    /\ update_sem' = update_sem - 1
    /\ pause_counter' = PAUSE_COUNTER
    /\ manager' = "while"
    /\ UNCHANGED <<pool_queue_vars, is_quitting, is_paused, count_vars, state, queue_vars, worker_vars, count,
                   thrd_i, quit_vars>>

Manager ==
    \/ ManagerStart \/ ManagerWhile \/ ManagerGrow \/ ManagerAdd \/ ManagerPassSlot
    \/ ManagerCreate \/ ManagerWait \/ ManagerRetune \/ ManagerIdle \/ ManagerPaused

-----------------------------------------------------------------------------
(* The atexit handler: uo_cb_thrdpool_quit.  Main has its stacks already,  *)
(* its uo_cb_thrd_init does nothing.                                       *)
QuitFlag ==
    /\ quitter = "running" /\ Main \notin writing
    /\ is_quitting' = TRUE
    /\ quitter' = "post"
    /\ UNCHANGED <<pool_queue_vars, is_paused, update_sem, count_vars, state, queue_vars, worker_vars,
                   manager_vars, i>>

\* mutation: the manager is not woken
QuitNoPost ==
    /\ quitter = "post"
    /\ quitter' = "join_manager"
    /\ UNCHANGED <<pool_vars, pool_queue_vars, count_vars, state, queue_vars, worker_vars, manager_vars, i>>

(* sem_post(&thrdpool.update_sem)                                          *)
QuitPost ==
    /\ quitter = "post"
    /\ update_sem' = update_sem + 1
    /\ quitter' = "join_manager"
    /\ UNCHANGED <<pool_queue_vars, is_quitting, is_paused, count_vars, state, queue_vars, worker_vars,
                   manager_vars, i>>

(* pthread_join(thrdpool.manager_thrd, NULL)                               *)
QuitJoinManager ==
    /\ quitter = "join_manager"
    /\ manager = "ended"
    /\ quitter' = "for"
    /\ UNCHANGED <<pool_vars, pool_queue_vars, count_vars, state, queue_vars, worker_vars, manager_vars, i>>

(* for (i = 0; i < thrdpool.thrd_count; ++i)                               *)
QuitFor ==
    /\ quitter = "for"
    /\ \/ i < thrd_count /\ quitter' = "enqueue" /\ i' = i
       \/ i >= thrd_count /\ quitter' = "join" /\ i' = 0
    /\ UNCHANGED <<pool_vars, pool_queue_vars, count_vars, state, queue_vars, worker_vars, manager_vars>>

(* uo_cb_invoke_async(uo_cb_create()): an empty callback wakes one worker  *)
QuitEnqueue ==
    /\ quitter = "enqueue"
    /\ \/ Draw(Main) /\ UNCHANGED <<quitter, i>>
       \/ Fill(Main) /\ i' = i + 1 /\ quitter' = "for"
    /\ UNCHANGED <<pool_vars, pool_queue_vars, count_vars, state, issued, called, worker_vars,
                   manager_vars>>

\* mutation: only the slots that still run are joined
QuitJoinRunning ==
    /\ quitter = "join"
    /\ i < THRD_COUNT_MAX
    /\ \/ state[i] # "RUNNING" /\ UNCHANGED thrd
       \/ state[i] = "RUNNING" /\ thrd[i] = "ended" /\ Goto(i, "none")
    /\ i' = i + 1
    /\ UNCHANGED <<pool_vars, pool_queue_vars, count_vars, state, queue_vars, seen, manager_vars, quitter>>

(* join the thread of every slot in use                                    *)
QuitJoin ==
    /\ quitter = "join"
    /\ i < THRD_COUNT_MAX
    /\ \/ state[i] = "UNINITIALIZED" /\ UNCHANGED thrd
       \/ state[i] # "UNINITIALIZED" /\ thrd[i] = "ended" /\ Goto(i, "none")
    /\ i' = i + 1
    /\ UNCHANGED <<pool_vars, pool_queue_vars, count_vars, state, queue_vars, seen, manager_vars, quitter>>

(* sem_destroy(&thrdpool.update_sem), uo_cb_thrd_quit, is_init = false     *)
QuitDone ==
    /\ quitter = "join"
    /\ i = THRD_COUNT_MAX
    /\ LeaveStack
    /\ quitter' = "done"
    /\ UNCHANGED <<pool_vars, others, count_vars, state, queue_vars, worker_vars, manager_vars, i>>

Quit == QuitPost \/ QuitJoinManager \/ QuitFor \/ QuitEnqueue \/ QuitJoin \/ QuitDone

Next ==
    \/ \E c \in Callers : InvokeAsync(c) \/ InvokeAsyncPost(c)
    \/ OtherThrdQuit
    \/ \E w \in ThrdSlots : Worker(w)
    \/ Manager
    \/ QuitFlag
    \/ Quit

Spec == Init /\ [][Next]_vars

(* Every thread runs on unless it waits for a semaphore or a join;         *)
(* callbacks return.  Nobody is obliged to call exit or to enqueue.        *)
FairSpec ==
    /\ Spec
    /\ \A w \in ThrdSlots : WF_vars(Worker(w))
    /\ \A c \in Callers : WF_vars(InvokeAsyncPost(c))
    /\ WF_vars(Manager)
    /\ WF_vars(Quit)

-----------------------------------------------------------------------------
(* The workers that thrd_count stands for.                                 *)
Active == {w \in ThrdSlots : thrd[w] \notin {"none", "shed", "ended"}}

(* The manager's count may be stale, but only upwards, and never exceeds   *)
(* the number of slots: a thread is only created while a slot is free for  *)
(* it (uo_cb_thrdpool.c:106,128,130).                                      *)
CountCoversPool ==
    manager # "start" => thrd_count <= count /\ count <= THRD_COUNT_MAX

(* Until exit thrd_count is the number of workers that will still take     *)
(* callbacks, plus the one the manager is about to create: no worker is    *)
(* forgotten or counted twice by the race between the workers' compare-and *)
(* -exchange and the manager's fetch-add (uo_cb_thrdpool.c:106,130,148).   *)
CountIsActive ==
    ~is_quitting =>
        thrd_count = Cardinality(Active) + (IF manager = "slot" THEN 1 ELSE 0)

(* However the workers race, the pool is never shrunk below its minimum:   *)
(* the last workers stay (uo_cb_thrdpool.c:103-107).                       *)
NeverShrunkBelowMin ==
    [][thrd_count' < thrd_count => thrd_count' >= THRD_COUNT_MIN]_vars

(* When the atexit handler returns, and with it the queue's semaphores are *)
(* about to be destroyed, every thread of the pool was joined              *)
(* (uo_cb_thrdpool.c:138-139,229-231).                                     *)
NoThreadLeftBehind ==
    quitter = "done" => manager = "ended" /\ \A w \in ThrdSlots : thrd[w] = "none"

(* The queue is full and nobody will empty it: every worker left waits for *)
(* room in it, inside a callback, or they have all left because of exit(). *)
Waits(w) == thrd[w] = "enqueue" /\ w \notin writing
Jammed ==
    /\ Len(cbs) = QUEUE_CAPACITY
    /\ \A w \in ThrdSlots : thrd[w] \in {"none", "ended"} \/ Waits(w)
    /\ is_quitting \/ \E w \in ThrdSlots : Waits(w)

(* A thread that quits waits for room in a link pool; until it gets it, a  *)
(* worker keeps its slot (uo_cb_thrdpool.c:110-112, uo_linkpool.h:162).    *)
CannotLeave ==
    /\ stacks = LINKPOOL_CAPACITY
    /\ (\E w \in ThrdSlots : thrd[w] \in {"shed", "stop"}) \/ (quitter = "join" /\ i = THRD_COUNT_MAX)

(* The search for a free slot ends: it spins without a bound and without a *)
(* look at is_quitting, relying on a worker that left thrd_count to give   *)
(* its slot up (uo_cb_thrdpool.c:134-144), which it does unless it finds   *)
(* the queue of a link pool full again and again.                          *)
SlotSearchEnds == []<>(manager # "slot" \/ CannotLeave)

(* exit() ends, whatever the pool and its manager are doing: a paused      *)
(* manager, a spinning one, workers about to leave.  The exception are two *)
(* queues that may be full for ever: that of the callbacks, when the       *)
(* wake-up callbacks of the atexit handler or the callback of a worker it  *)
(* joins wait for room (uo_cb_thrdpool.c:198,221-231), and that of a link  *)
(* pool, when more threads quit than it has slots (lines 110, 234;         *)
(* uo_linkpool.h:141,162).                                                 *)
QuitEnds == []<>(is_quitting => quitter = "done" \/ Jammed \/ CannotLeave)

(* A callback given to uo_cb_invoke_async is called, unless the program    *)
(* exits first, the callbacks of all workers wait for room in the queue    *)
(* for ever, a worker that leaves waits for room in a link pool and so     *)
(* keeps the slot of the one to replace it, or a worker met another thread *)
(* at a slot of the ring: it read a ticket that was still to be filled, as *)
(* it can with two producers, or it was so late that its slot was filled   *)
(* again (uo_cb.h:80, uo_cb_thrdpool.c:94-101,110,134-144,                 *)
(* uo_cb_queue.c:63-66,77-80).                                             *)
CallbacksAreCalled ==
    []<>(called >= issued \/ is_quitting \/ Jammed \/ CannotLeave \/ misread)
=============================================================================
