-------------------------------- MODULE UoCb --------------------------------
(***************************************************************************)
(* Callbacks (uo_cb.c) and the pools their nodes come from                 *)
(* (uo_linkpool.h).  A callback is a list of functions and a stack of      *)
(* items; it is built by one thread, handed over with uo_cb_invoke_async   *)
(* and run by another, which takes its nodes apart and keeps them.         *)
(*                                                                         *)
(* The linkpool of uo_cb_func is modelled; those of uo_cb and uo_refcount  *)
(* come from the same macros and are used in the same calls.  A node is    *)
(* its chunk (one calloc of uo_linkpool_grow) and its place in it.  A      *)
(* linked list is the sequence of its nodes from head.next to head.prev.   *)
(* A function of the model is a number: 0 takes nothing off the stack,     *)
(* n > 0 pops one item, which is the n it was given.                       *)
(*                                                                         *)
(* The stack of chunks goes with its ticket: the queue holds it from the   *)
(* thread's ticket on, a thread that starts from its own ticket on.  When  *)
(* one thread writes a slot of the ring while another reads it, what the   *)
(* reader gets is undefined (uo_queue.c:46, 62) and the model stops.       *)
(***************************************************************************)
EXTENDS UoStack, FiniteSets, FiniteSetsExt

CONSTANTS
  Threads,       \* threads that call uo_cb_thrd_init
  main,          \* the one that calls uo_cb_init
  Cbs,           \* callbacks alive at a time
  QUEUE,         \* capacity of the linkpool's queue of stacks, 0x10
  GROW,          \* UO__LINKPOOL_DEFAULT_GROW, 0x20
  MaxChunks      \* bound: allocations

ASSUME CbAssumption ==
  main \in Threads /\ IsFiniteSet(Threads) /\ QUEUE \in Nat \ {0} /\ GROW \in Nat \ {0}

VARIABLES
  queue,         \* uo_cb_func_linkpool_queue: stacks of threads that quit
  writer,        \* who has still to write the slot of each stack of the queue
  step,          \* of each thread: "idle", or "taking" or "leaving" a stack
  late,          \* tickets drawn by others since a thread that is taking drew its own
  race,          \* a slot of the ring is read and written at a time
  pool,          \* thread-local: is it initialised, its stack of chunks, its free nodes
  chunks,        \* number of chunks allocated
  freed,         \* stacks whose chunks were given back to the heap, in order
  cb,            \* the callbacks
  owner,         \* the thread that has the callback, or where it is
  peak,          \* most threads initialised at a time
  phase          \* of exit(): "up", "exiting", "quit"

ringVars == <<queue, writer, step, late, race>>
vars == <<ringVars, pool, chunks, freed, cb, owner, peak, phase>>
poolVars == <<ringVars, chunks, freed, peak, phase>>

FREE == "free"        \* no callback has this place
QUEUED == "queued"    \* in the callback queue (uo_cb_queue.c)
NOBODY == "nobody"    \* the slot is written

NoPool == [init |-> FALSE, stack |-> <<>>, head |-> <<>>]
NoCb == [stack |-> StackCreate(0), funclist |-> <<>>]

(* uo_cb_init: the calling thread is initialised with a new stack.          *)
Init ==
  /\ queue = <<>> /\ writer = <<>> /\ race = FALSE
  /\ step = [t \in Threads |-> "idle"] /\ late = [t \in Threads |-> 0]
  /\ pool = [t \in Threads |-> [NoPool EXCEPT !.init = (t = main)]]
  /\ chunks = 0 /\ freed = <<>>
  /\ cb = [k \in Cbs |-> NoCb]
  /\ owner = [k \in Cbs |-> FREE]
  /\ peak = 1
  /\ phase = "up"

-----------------------------------------------------------------------------
(* The linkpool.                                                            *)
Nodes(chunk) == [i \in 1..GROW |-> <<chunk, i>>]

(* rent: the test is of the function's address, so every rent allocates;    *)
(* the nodes are linked before the head, and the last one is taken.         *)
Grow(p, chunk) == [p EXCEPT !.stack = Append(@, chunk), !.head = @ \o Nodes(chunk)]
Rented(p, chunk) == Last(Grow(p, chunk).head)
RentUnchained(p, chunk) == Grow(p, chunk)
Rent(p, chunk) == [Grow(p, chunk) EXCEPT !.head = Front(@)]

(* n rents of one thread, in order.                                         *)
RentAll(p, chunk, n) ==
  LET after[i \in 0..n] == IF i = 0 THEN p ELSE Rent(after[i - 1], chunk + i - 1) IN after[n]
RentedAll(p, chunk, n) == [i \in 1..n |-> Rented(RentAll(p, chunk, i - 1), chunk + i - 1)]

Returned(p, nodes) == [p EXCEPT !.head = @ \o nodes]

Rents(t, n) ==
  /\ chunks + n <= MaxChunks
  /\ chunks' = chunks + n
  /\ pool' = [pool EXCEPT ![t] = RentAll(@, chunks + 1, n)]
  /\ UNCHANGED <<ringVars, freed, peak, phase>>

Returns(t, nodes) ==
  /\ pool' = [pool EXCEPT ![t] = Returned(@, nodes)]
  /\ UNCHANGED poolVars

Initialised == {t \in Threads : pool[t].init}
Taking == {t \in Threads : step[t] = "taking"}
Leaving == {t \in Threads : step[t] = "leaving"}
Keeping == Initialised \cup Taking    \* threads that have a stack of chunks
Out(t) == ~pool[t].init /\ step[t] = "idle"

(* The semaphores of the queue, a ticket being drawn with its token.        *)
dequeue_sem == Len(queue) - Cardinality(Leaving)
enqueue_sem == QUEUE - Len(queue) - Cardinality(Taking)

(* thrd_init takes over the stack of a thread that has quit, its nodes that *)
(* are in use included; the free nodes of that thread are not taken over.   *)
(* A thread that has its ticket but has not posted yet is not seen: then    *)
(* the stack is a new one.                                                  *)
NewStack(t) ==
  /\ dequeue_sem = 0
  /\ pool' = [pool EXCEPT ![t].init = TRUE]
  /\ UNCHANGED ringVars

DrawStack(t) ==
  /\ dequeue_sem > 0
  /\ pool' = [pool EXCEPT ![t].stack = Head(queue)]
  /\ queue' = Tail(queue)
  /\ writer' = Tail(writer)
  /\ race' = (Head(writer) # NOBODY)
  /\ step' = [step EXCEPT ![t] = "taking"]
  /\ late' = [x \in Threads |-> IF x \in Taking THEN late[x] + 1 ELSE 0]

ThrdInit(t) ==
  /\ phase = "up" /\ Out(t)
  /\ NewStack(t) \/ DrawStack(t)
  /\ peak' = Max({peak, Cardinality(Keeping \cup Leaving) + 1})
  /\ UNCHANGED <<chunks, freed, cb, owner, phase>>

(* The slot is read, and the room for a stack posted.                       *)
Taken(t) ==
  /\ step[t] = "taking"
  /\ step' = [step EXCEPT ![t] = "idle"]
  /\ late' = [late EXCEPT ![t] = 0]
  /\ pool' = [pool EXCEPT ![t].init = TRUE]
  /\ UNCHANGED <<queue, writer, race, chunks, freed, cb, owner, peak, phase>>

(* The next slot of the ring is that of a stack another thread has still to *)
(* read: threads that came after it have read and made room.                *)
SlotUnread == \E t \in Taking : late[t] + Len(queue) + 1 = QUEUE

Enqueue(t) ==
  /\ enqueue_sem > 0
  /\ queue' = Append(queue, pool[t].stack)
  /\ writer' = Append(writer, t)
  /\ race' = SlotUnread
  /\ step' = [step EXCEPT ![t] = "leaving"]
  /\ UNCHANGED <<late, chunks, freed, cb, owner, peak, phase>>

LeaveKeepsStack(t) ==
  /\ pool[t].init /\ Enqueue(t)
  /\ pool' = [pool EXCEPT ![t].init = FALSE, ![t].head = <<>>]

(* thrd_quit waits for room in the queue and draws a ticket, ...            *)
Leave(t) ==
  /\ pool[t].init /\ Enqueue(t)
  /\ pool' = [pool EXCEPT ![t] = NoPool]

(* ... writes the slot and posts the stack.                                 *)
Left(t) ==
  /\ step[t] = "leaving"
  /\ step' = [step EXCEPT ![t] = "idle"]
  /\ writer' = [i \in DOMAIN writer |-> IF writer[i] = t THEN NOBODY ELSE writer[i]]
  /\ UNCHANGED <<queue, late, race, pool, chunks, freed, cb, owner, peak, phase>>

Holds(t) == \E k \in Cbs : owner[k] = t

ThrdQuit(t) == t # main /\ ~Holds(t) /\ Leave(t)

(* exit(): the workers are joined, then the pool of the calling thread is   *)
(* left, then uo_linkpool_quit frees what is in the queue.                  *)
Exit ==
  /\ phase = "up" /\ ~Holds(main)
  /\ phase' = "exiting"
  /\ UNCHANGED <<ringVars, pool, chunks, freed, cb, owner, peak>>

MainQuit ==
  /\ phase = "exiting" /\ \A t \in Threads \ {main} : Out(t)
  /\ Leave(main)

LinkpoolQuit ==
  /\ phase = "exiting" /\ \A t \in Threads : Out(t)
  /\ freed' = freed \o queue
  /\ queue' = <<>> /\ writer' = <<>>
  /\ phase' = "quit"
  /\ UNCHANGED <<step, late, race, pool, chunks, cb, owner, peak>>

-----------------------------------------------------------------------------
(* Callbacks.  New ones are made before exit() only: a function that kept   *)
(* making them would keep its worker, and exit(), waiting.                  *)
Mine(t, k) == pool[t].init /\ owner[k] = t
Called(node, f) == [node |-> node, func |-> f]
FuncsOf(k) == [i \in DOMAIN cb[k].funclist |-> cb[k].funclist[i].func]
NodesOf(k) == [i \in DOMAIN cb[k].funclist |-> cb[k].funclist[i].node]
NewFuncs(t, fs) ==
  LET nodes == RentedAll(pool[t], chunks + 1, Len(fs)) IN [i \in DOMAIN fs |-> Called(nodes[i], fs[i])]

Create(t, k) ==
  /\ phase = "up" /\ pool[t].init /\ owner[k] = FREE
  /\ owner' = [owner EXCEPT ![k] = t]
  /\ UNCHANGED <<pool, cb, poolVars>>

(* uo_cb_prepend_func, and the item the function will pop.                  *)
PrependCall(t, k) ==
  /\ Mine(t, k) /\ Rents(t, 1)
  /\ cb' = [cb EXCEPT ![k] = [stack |-> StackPush(@.stack, chunks + 1),
                              funclist |-> NewFuncs(t, <<chunks + 1>>) \o @.funclist]]
  /\ UNCHANGED owner

AppendFunc(t, k) ==
  /\ Mine(t, k) /\ Rents(t, 1)
  /\ cb' = [cb EXCEPT ![k].funclist = @ \o NewFuncs(t, <<0>>)]
  /\ UNCHANGED owner

PrependCbForward(t, k, before) ==
  /\ k # before /\ Mine(t, k) /\ Mine(t, before) /\ Rents(t, Len(cb[before].funclist))
  /\ cb' = [cb EXCEPT ![k] = [stack |-> StackPushArr(@.stack, cb[before].stack.items),
                              funclist |-> Reverse(NewFuncs(t, FuncsOf(before))) \o @.funclist]]
  /\ UNCHANGED owner

(* The functions of the other callback are copied one by one from the last  *)
(* to the first, its items onto the stack.                                  *)
PrependCb(t, k, before) ==
  /\ k # before /\ Mine(t, k) /\ Mine(t, before) /\ Rents(t, Len(cb[before].funclist))
  /\ cb' = [cb EXCEPT ![k] = [stack |-> StackPushArr(@.stack, cb[before].stack.items),
                              funclist |-> Reverse(NewFuncs(t, Reverse(FuncsOf(before)))) \o @.funclist]]
  /\ UNCHANGED owner

(* Here the items go below those that are there.                            *)
AppendCb(t, k, after) ==
  /\ k # after /\ Mine(t, k) /\ Mine(t, after) /\ Rents(t, Len(cb[after].funclist))
  /\ cb' = [cb EXCEPT ![k] = [stack |-> StackInsertArr(@.stack, 0, cb[after].stack.items),
                              funclist |-> @.funclist \o NewFuncs(t, FuncsOf(after))]]
  /\ UNCHANGED owner

Clone(t, k, new) ==
  /\ phase = "up" /\ Mine(t, k) /\ owner[new] = FREE /\ Rents(t, Len(cb[k].funclist))
  /\ owner' = [owner EXCEPT ![new] = t]
  /\ cb' = [cb EXCEPT ![new] = [stack |-> StackPushArr(NoCb.stack, cb[k].stack.items),
                                funclist |-> NewFuncs(t, FuncsOf(k))]]

Destroy(t, k) ==
  /\ Mine(t, k)
  /\ Returns(t, NodesOf(k))
  /\ cb' = [cb EXCEPT ![k] = NoCb]
  /\ owner' = [owner EXCEPT ![k] = FREE]

(* uo_cb_invoke: the node of the first function goes to the pool of the     *)
(* calling thread before the function is called; an empty list ends the     *)
(* callback (uo_cb_destroy).                                                *)
Invoke(t, k) ==
  /\ Mine(t, k) /\ cb[k].funclist # <<>>
  /\ LET f == Head(cb[k].funclist).func
         pops == f > 0
         s == cb[k].stack
     IN /\ Returns(t, <<Head(cb[k].funclist).node>>)
        /\ cb' = [cb EXCEPT ![k] = [stack |-> IF pops THEN StackPop(s) ELSE s,
                                    funclist |-> Tail(@.funclist)]]
  /\ UNCHANGED owner

InvokeLast(t, k) == cb[k].funclist = <<>> /\ Destroy(t, k)

InvokeAsync(t, k) ==
  /\ Mine(t, k)
  /\ owner' = [owner EXCEPT ![k] = QUEUED]
  /\ UNCHANGED <<pool, cb, poolVars>>

(* A worker dequeues the callback and is about to invoke it.                *)
Take(t, k) ==
  /\ phase = "up" /\ t # main /\ pool[t].init /\ ~Holds(t) /\ owner[k] = QUEUED
  /\ owner' = [owner EXCEPT ![k] = t]
  /\ UNCHANGED <<pool, cb, poolVars>>

Step ==
  \/ \E t \in Threads : ThrdInit(t) \/ Taken(t) \/ ThrdQuit(t) \/ Left(t)
  \/ Exit \/ MainQuit \/ LinkpoolQuit
  \/ \E t \in Threads, k \in Cbs :
       \/ Create(t, k) \/ PrependCall(t, k) \/ AppendFunc(t, k) \/ Destroy(t, k)
       \/ Invoke(t, k) \/ InvokeLast(t, k) \/ InvokeAsync(t, k) \/ Take(t, k)
       \/ \E j \in Cbs : PrependCb(t, k, j) \/ AppendCb(t, k, j) \/ Clone(t, k, j)

Next == ~race /\ Step

Spec == Init /\ [][Next]_vars

-----------------------------------------------------------------------------
(* The variables keep their types, and the queue its capacity.              *)
TypeOK ==
  /\ enqueue_sem >= 0 /\ dequeue_sem >= 0
  /\ step \in [Threads -> {"idle", "taking", "leaving"}] /\ late \in [Threads -> Nat]
  /\ \A t \in Threads : DOMAIN pool[t] = DOMAIN NoPool
  /\ owner \in [Cbs -> Threads \cup {FREE, QUEUED}]
  /\ phase \in {"up", "exiting", "quit"}

(* No item twice, in one of the sequences of f or in two of them.           *)
NoneTwice(f) ==
  \A x, y \in DOMAIN f : \A i \in DOMAIN f[x], j \in DOMAIN f[y] :
    f[x][i] = f[y][j] => x = y /\ i = j
All(f) == UNION {ToSet(f[x]) : x \in DOMAIN f}

InUse == [k \in Cbs |-> NodesOf(k)]
FreeNodes == [t \in Threads |-> pool[t].head]

(* A node is free in one pool or in use in one callback, never both and     *)
(* never twice, whichever threads rented, ran and returned it: the          *)
(* assertion of uo_linklist_link holds.                                     *)
OneHolder == NoneTwice(InUse) /\ NoneTwice(FreeNodes) /\ All(InUse) \cap All(FreeNodes) = {}

Stacks == [t \in Threads |-> pool[t].stack]

(* Every chunk belongs to one thread or to the queue until exit() has freed *)
(* it, and is then freed exactly once: no allocation is lost when a thread  *)
(* quits, and none is freed while a callback may still use its nodes.       *)
ChunksKept ==
  /\ NoneTwice(queue) /\ NoneTwice(Stacks) /\ NoneTwice(freed)
  /\ All(queue) \cap All(Stacks) = {}
  /\ IF phase = "quit" THEN All(freed) = 1..chunks /\ All(queue) \cup All(Stacks) = {}
                       ELSE All(queue) \cup All(Stacks) = 1..chunks /\ freed = <<>>

(* The functions of the list that pop an item, by their places.             *)
Callers(k) == {i \in DOMAIN cb[k].funclist : cb[k].funclist[i].func > 0}
Before(k, i) == Cardinality({j \in Callers(k) : j < i})

(* What uo_cb.h promises of the indexes of merged stacks, as a function     *)
(* sees it: however callbacks were prepended, appended and cloned, and      *)
(* whoever runs them, each function finds the item that was meant for it on *)
(* top when the functions before it have popped theirs, and none is left.   *)
FindsItsItem ==
  \A k \in Cbs :
    LET items == cb[k].stack.items IN
    /\ Len(items) = Cardinality(Callers(k))
    /\ \A i \in Callers(k) : items[Len(items) - Before(k, i)] = cb[k].funclist[i].func

(* There are never more stacks of chunks than threads were initialised at   *)
(* one time, those included that have not posted theirs yet: a thread that  *)
(* starts takes over the stack of one that quit.  So only with more than    *)
(* QUEUE threads at a time can uo_cb_thrd_quit, at the latest that of       *)
(* exit(), wait for room which nobody will make.                            *)
StacksTakenOver == Len(queue) + Cardinality(Keeping) = IF phase = "quit" THEN 0 ELSE peak

(* The memory of the linkpools is in order: what threads leave behind is   *)
(* kept, taken over and at the end freed once (uo_linkpool.h:117-164).  The *)
(* exception is that two threads meet at one slot of the ring, where the    *)
(* model stops (race): of two threads that quit at a time the later posts   *)
(* first and a thread that starts reads the slot of the earlier, or a       *)
(* thread that starts is so late that the slot is written again.            *)
PoolsSound == TypeOK /\ ChunksKept /\ StacksTakenOver
=============================================================================
