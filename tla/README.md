# Verification of libuo

TLA+ models of libuo, TLC configurations that check them on small instances, and
TLAPS proofs of the invariants that matter most. Line numbers refer to the files
under `src/`.

## The system

libuo is a C library for event-driven servers. At its bottom is a bounded
blocking queue; on it stand a pool of threads that execute *callbacks* (`uo_cb`),
asynchronous socket I/O that hands callbacks over to epoll, TCP connections
driven by chains of callbacks, and a TCP server that keeps them; HTTP is a set of
event handlers on TCP connections. Data structures (hash table, linked list,
stack, buffers, node pools) and codecs (JSON, base64, URIs) are used everywhere.

| component | state | operations | what is hard | what makes it correct |
|---|---|---|---|---|
| `uo_queue`, callback queue | ring of slots, two semaphores, two atomic tickets | create, enqueue, dequeue | a call is four separate steps; tickets wrap | no token lost, never jams; FIFO for one producer and one consumer |
| callback thread pool | counters, slot states, semaphore, the manager's locals | worker loop, manager loop, notifications, quit | decisions on stale counts; spinning for a slot; exit against a waiting manager; a full queue | counters true to the threads, minimum kept, everybody joined, exit ends |
| `uo_cb`, linkpool | function list and stack; thread-local pools of nodes, a queue of left stacks | create, clone, append, prepend, invoke, destroy; rent, return, thread init and quit | nodes rented by one thread and returned by another; merged stacks; threads come and go | a node has one holder, no chunk lost, each function finds its item |
| asynchronous I/O | the epoll descriptor, one thread that moves ready callbacks to the pool | read_async, write_async, init, quit | failures after the stack was prepared | stack left as it was found |
| TCP connection | atomic `state` (one pending request), buffers, event handlers | open, next_recv / next_send / next_close, advance, recv, send, close | requests from other threads; failure in the middle of a chain; freed by one function of a list | no use after free, one driver, requests neither replaced nor overlooked, freed in the end |
| TCP server | table `conns` by descriptor, queue `closing_conns` | start, accept loop, after_close, destroy | descriptors reused; closings outrun openings; a full queue | each table entry has an end, destroy returns |
| TCP client | event handlers | flow options, connect | name lookup is I/O | through the connection |
| HTTP server, client, connection, messages | one message being parsed, one being composed, per connection | event handlers of TCP, parse, handle, write | messages cut anywhere; two kinds of pointers at the bottom of one stack; a union | whole messages delivered and written, answered in turn |
| HTTP request handler | pattern with parameters | try | where a parameter ends | matches what the pattern describes |
| HTTP file server | cache of files with two kinds of mutex, counted contents | serve, refresh, replace, remove | lock order; lookup before lock; files edited meanwhile | right content, right counts, no deadlock |
| hash table | slots, tombstones, counters, list of items | get, set, remove, resize | collisions, wrap, tombstones, rebuilding | an insertion-ordered map; probes end |
| stack, buffer, refcount | small records | push, insert, append, inc, dec | growth | room for what is in them |
| JSON, base64, URI, UTF-8 | none | encode, decode, search | escapes, nesting, ends of text, coding in place | what was encoded is restored |
| JWT, conf, err, sock, prog, httpc | none worth a model | wrap system and library calls | cryptography, I/O | out of scope |

The interactions: a connection *calls* the pool (`uo_cb_invoke_async`), and parks
callbacks in epoll, whose thread calls the pool again; workers of the pool run
the functions of the connection, those of HTTP among them; `after_close` *posts*
to the server's `closing_conns`, which is a `uo_queue`; the server's `conns` is a
`uo_hashtbl`; responses *share* the file server's contents through counts.

## Modules

| module | models | kind |
|---|---|---|
| `BoundedFifo` | what a queue promises | abstract specification |
| `UoQueue` | `uo_queue.c`, `uo_cb_queue.c` | component; `ImplementsFifo` is its refinement |
| `NaturalFacts`, `UoQueueProofs` | | lemmas on `%`, induction and sums over finite sets; theorems |
| `UoCbThrdpool`, `UoCbThrdpoolProofs` | `uo_cb_thrdpool.c` | component; theorems |
| `UoStack` | `uo_stack.h` | operators |
| `UoCb`, `MCCb`, `UoCbProofs` | `uo_cb.c`, `uo_linkpool.h` | component; instance; theorems |
| `UoTcpConn`, `MCTcpConn`, `UoConnProofs` | `uo_tcp_conn.c`, reads of `uo_io.c`, the flow options of server and client | component; instance; theorems |
| `UoTcpServer`, `UoTcpServerProofs` | `uo_tcp_server.c` | component that composes the life of connections with a FIFO; theorems |
| `UoHttpConn`, `MCHttpConn`, `UoConnProofs` | `uo_http_msg.c`, `uo_http_conn.c`, `uo_http_server.c`, `uo_http_client.c` | extends and composes `UoTcpConn`; instance; theorems |
| `UoHttpFileServer`, `UoHttpFileServerProofs` | `uo_http_file_server.c`, `uo_refcount` | component; theorems |
| `OrderedMap` | what a hash table promises | abstract specification |
| `UoHashtbl`, `MCHashtbl`, `UoHashtblProofs` | `uo_hashtbl.h` | component; `ImplementsMap` is its refinement; instance; theorems |
| `UoUtil`, `UoBase64`, `UoJson`, `UoHttpReqHandler`, `UoBuf` | the file of that name; `UoJson` also `uo_http_conn_get_req_data` | pure algorithms |
| `MCCodecs` | | reference definitions and inputs for them and `UoStack` |

Definitions keep the names of the code where TLA+ allows it. A variable is a
field or a local variable with the same name; `pc`, `thrd`, `manager`, `quitter`,
`acc`, `dst` say which statement a thread executes next. An operator marked
*mutation* or *defect*, or that stands before a definition whose name it
extends, is a plausible wrong version of that definition; it is used only to test
that a property can fail.

**UoQueue.** A call of `uo_queue_enqueue` is `EnqueueWait` (the semaphore),
`EnqueueTicket` (the atomic fetch-add, modulo `SizeMod`), `EnqueueWrite` and
`EnqueuePost`; a non-blocking call on a full queue is `EnqueueFull`. `ledger` and
`due` are history variables that remember which item a ticket stands for.
`sem_t` is a counter; that `uo_queue.h:18-19` declares the semaphores as pointers,
which are smaller than a `sem_t`, is not modelled.

**UoCbThrdpool.** One action per statement that reads or writes shared state, for
the workers (`uo_cb_execute`), the manager (`uo_cb_manage_thrds`) and
`uo_cb_thrdpool_quit`. `cbs` is the sequence of the callback queue's tickets, each
filled or waiting for the producer that drew it; `Draw` and `Fill`, and on the
worker's side `WorkerDequeue` and `WorkerRead`, are separate steps, for workers,
`Callers` of the application and `exit()` alike. `misread` remembers that a
worker read a slot that another thread was to write: the ticket was not filled
yet, or the worker was so late that the slot was due again. From then on a read
may give NULL, and another callback may run. `stacks` counts the stacks
in the queue of a link pool, for whose room a thread that quits waits
(`LeaveStack`); the three pools go alike and one is modelled. `OTHER_THRDS` are
threads like the one of `uo_tcp_server_accept`, which also leave a stack. The
measured throughput is a choice of going up or down. `MaxCallbacks` bounds the
callbacks a behaviour enqueues.

**UoCb.** Threads with their pools make, merge, clone, invoke and hand over
callbacks. A node is a chunk (one `calloc`) and a place in it; a function is the
item it will pop, or 0. A thread that quits draws a ticket of the queue of stacks
(`Leave`) and writes and posts later (`Left`); one that starts finds no token
and makes a new stack (`NewStack`), or draws a ticket (`DrawStack`) and reads the slot
later (`Taken`). A stack goes with its ticket. When one thread is to write a slot
while another reads it, what is read is undefined and the model stops (`race`).
That a callback handed over is run once is the callback queue's part
(`CallbacksAreCalled`). The pools of `uo_cb` and `uo_refcount` come from the same
macros as that of `uo_cb_func` and are not repeated. `rent` tests the address of
a function, not its result (`uo_linkpool.h:180`), so each rent allocates: it is
modelled as written.

**UoTcpConn.** A chain is a `uo_cb`: queued, run by a worker, parked in epoll, or
over, with its function list and its stack of pointers. Every function of
`uo_tcp_conn.c` is an action that does all the function does, including what it
appends to the list. The two compare-and-exchanges of `uo_tcp_conn_next_state`
and of `uo_tcp_conn_advance` are separate steps. Bytes are left out: a read gives
a message, part of one, end of file or an error.

**UoTcpServer.** The accept loop in its steps (`AcceptClient`, `Check`,
`SetConn`, `Drain`, `Flush`, `AcceptQuit`), the worker's `CloseSocket` and
`FreeConn`, and the steps of `uo_tcp_server_destroy`. The post to `closing_conns`
is the ticket (`PostClosed`, or the first step of `DestroyPost`), the slot
(`PostWrite`) and the token (`PostToken`); `Dequeue` takes the next ticket with any
token and, if its slot is not written, finds anything that may be there
(`Leftovers`, `misread`). Between the post and `FreeConn` the other `after_close`
handlers run. Descriptor numbers are given out by the kernel and reused;
`Closes` takes the number away from whoever holds it, as `close` does.

**UoHttpConn.** The handlers of HTTP as actions on the chain of `UoTcpConn`, with
the pointer they swap at index 0, plus the bytes: `rbuf`, `wbuf` and what is on
the wire. A start line, a header or a byte of a body is one token; CR and LF are
tokens of their own, so that a read may end between any two of them. The parse
functions work on `rbuf` again after each read, as the code does, with the offset
and the request handler in one union (`temp`). The peer sends a message only when
the one before was answered.

**UoHttpFileServer.** A request is the sequence of steps between which the code
gives up control or another thread can see its effects: lookup, lock, stat,
refresh, respond, remove, destroy, create, read, enter, replace. A file is its
version, its size and its `st_mtime`, which is in whole seconds: an edit may give a
version the time of an earlier one. It may be edited or removed between any
two steps. A use of a
freed entry is the state `crashed`, from which nothing more is claimed.

**UoHashtbl.** The slots with key and value, tombstones as the code marks them,
the list as a sequence of slots. `FindLink` is the probe loop; a rebuild enters
the items of the list one after the other. The condition for halving the table
(line 335) is modelled as it is written and is never true.

**Algorithms.** Memory is a function from addresses for `UoBase64`, whose encoder
and decoder may work in place, and a sequence of characters elsewhere. What the
code returns when it runs over the end of its input, reads NULL or never ends is
a value of its own (`OVERREAD`, `OVERRUN`, `FAULT`, `LOOPS`, `UNINIT`).

## Runs

| run | instance | what it shows |
|---|---|---|
| `queue_spsc` | 1 + 1 threads, capacity 3, tickets modulo 6 | the ring refines `BoundedFifo`, items come in order, several times around the ring and across the wrap |
| `queue_mpmc` | 2 + 2 threads, capacity 2, tickets modulo 4 | tokens are conserved, tickets match them, and a drained queue has all tokens back |
| `queue_order` | 2 producers, 1 consumer | *violation*: a dequeue can return a slot that its producer has not written yet |
| `pool` | 1 to 2 workers, main, 1 other thread, queues of 2, 3 callbacks that may enqueue one another | the counters stay true under every race; at exit everybody is joined; slot search, exit and callbacks come to their end unless the callback queue jams, a thread cannot leave its stacks or a slot was misread |
| `callbacks` | main and 2 workers, 2 callbacks, chunks of 1 node, at most 4 of them, queue of 2 stacks | a node has one holder, functions find their items in merged callbacks; chunks are kept and freed once while threads quit and start at once, until two of them meet at a slot |
| `conn_flows` | four flow options; reads, writes, `epoll_ctl` may fail | memory, stack and framing are in order; exactly one callback drives the connection; it ends after its peer |
| `conn_users` | two other threads, with and without a flow option | requests are neither replaced nor overlooked by a callback about to idle |
| `server` | 2 connections, 2 descriptors, queue of 2, failing connect | every table entry has a closing on its way unless one was misread; destroy awaits the closings of connections whose number was not reused, and ends unless the queue is full, the accept thread cannot leave its stacks, or a closing was misread |
| `http_conn` | server and client; buffer of 4 tokens; 2 messages of 6 and 4 kinds, cut anywhere | pointers, union and buffer are in order; messages are delivered as sent, written whole and answered in turn; `connection: close` is honoured |
| `file_server` | 2 connections, 1 file of 0 to 2 bytes, cache of 1 byte, 2 edits, 3 requests | right content when nobody interferes, right counts and space, entries safe after the lock, answers unless the locks cross or a lookup comes late |
| `hashtbl` | 4 keys with collisions and wrap, 8 slots at first, 2 values | probes end, counters and list are true, the table refines `OrderedMap` |
| `codecs` | all inputs up to 2 to 6 elements over alphabets of what the algorithms tell apart | encodings are those of the standard and restored; values are found by name; patterns match what they describe; buffers and stacks grow enough |

The invariants named `...Sound`, `EntriesSafe`, `EncodingsRestore`,
`JsonValuesFound` and `GrownEnough` are conjunctions of named parts, the type
invariant of the module among them; each part has its own comment.

**Bounds.** The queues are small so that full, empty and wrapped states all
occur. Two threads per side are enough for every pair of racing steps of a call.
With two pool slots and a minimum of one the manager adds a thread again after one
has left, and its search meets a worker on its way out; a queue of two and three
callbacks let all workers wait for room, exit find the queue full, a later
producer post before an earlier one has written, and a slow worker be overtaken. Two
stacks in the link pool are fewer than main, two workers and another
thread leave: the last of them at exit finds it full. A worker that leaves
before exit finds it full only in larger instances (three slots and a queue of one
were tried, which showed that `CannotLeave` belongs in all three liveness properties).
That all workers wait for room with the queue full before exit takes a fourth callback;
with three, the queue jams at exit. In `callbacks`
two threads can quit while a third starts, a slow reader can be overtaken in the ring of
two, and main at exit can find it full. With four
chunks a callback of two functions can be cloned or merged and run by the other
thread while its maker quits and starts anew; with three threads there at a time
two chunks are made, which is enough for two stacks to be told apart in the ring
(`FewThreadsOrChunks`). Two connections
and destroy are three producers for a queue of two, and either connection can get the
other's number; that the queue fills when its reader is over takes a third connection
and a queue of one, which were tried too. The HTTP buffer of four tokens is
smaller than each message, so it must grow while one arrives; of two messages the
second shows what the first left behind. A cache of one byte with files of up to
two shows files that fit, that do not, and that grow in a refresh; two
connections on one file meet in every step. Four keys reach the growth of an
8-slot table, and in the 16-slot table three tombstones, one short of a rebuild,
and the rebuild itself. The codecs are checked past two base64 groups, escapes at
every place up to the end, three JSON members, patterns with two parameters and
programs of four or five operations. `Chains` bounds the callbacks a connection has at
once: with a flow option there is one, and a second is never used; with two other
threads at most four are kept apart.

Deadlock is checked for the queue; the other systems may really stop (program
exited, connection freed, server destroyed, two threads at a slot of the ring of
stacks, inputs exhausted).

**Symmetry** is used where only safety is checked: the workers and callbacks of
`callbacks` and the values of `hashtbl`.

### Fairness

* Queue: a thread that has passed its semaphore goes on; nothing between wait and
  post blocks. Nobody is obliged to call.
* Pool: workers, manager and the exiting thread run unless they wait on a
  semaphore or a join; callbacks return unless they wait for room. An application
  thread that has drawn a ticket fills it and posts (nothing between blocks), but
  nobody is obliged to enqueue, and the other threads need never quit.
* Connection: queued callbacks are run, which is what the pool guarantees; epoll
  reports the end of file once the peer has closed (level-triggered readiness of
  a closed socket). In `http_conn` epoll also reports data that has arrived.
  Peers and users need do nothing.
* Server: the accept thread, the workers that post a closing and the destroying
  thread run. Each connection's owner may keep it open, and `DestroyEnds` asks only
  for connections that were closed; the other `after_close` handlers belong to the
  user and may take for ever, and so may the accept thread's `uo_cb_thrd_quit`.
* File server: a worker that serves a request goes on, and gets a mutex that is
  free again and again (strong fairness): a mutex hands itself to its waiters,
  whose number is bounded by the workers.

All other fairness is weak.

## Where code and intention differ

`queue_order` is a run of its own: `src/README.md:35` promises synchronized
access, but with several producers the post of a later producer can let a consumer
read the slot of an earlier one too soon. Three queues of the library have several
producers, and what such a read does to each is part of its component's model:

* The callback queue: a worker finds NULL, which `uo_cb_execute` skips, or a callback
  of an earlier round; the callback of the slot is never called
  (`misread` of `UoCbThrdpool`, `uo_cb_queue.c:64-66,77-80`, `uo_cb_thrdpool.c:96`).
* `closing_conns`: a descriptor is lost, its entry stays in the table, and the last
  loop of the accept thread, and with it `uo_tcp_server_destroy`, may wait for ever
  (`misread` of `UoTcpServer`, `uo_tcp_server.c:27,64-66,213`).
* The queues of the link pools: a thread that starts may take over memory that
  `malloc` left there, or a stack that another thread has (`race` of
  `UoCb`, `uo_linkpool.h:151,162`). Here a slow reader and the next writer of the
  slot can also meet, as the post that makes room may be another reader's; so they
  can in the callback queue, whose workers are several readers too.

`uo_tcp_conn.h:88-89` promises that user data is
looked up in the server, also in an `after_close` handler, but the post to
`closing_conns` is the first of those handlers. Once the accept thread
has taken the entry out nothing holds `uo_tcp_server_destroy` back, and the handlers
that follow (`uo_http_server.c:38-50`, the one of `uo_http_test.c:145-154`) may find
the server freed. `UoTcpServer` says only when `FreeConn` may run, and leaves out what
these handlers do; `DestroyAwaitsClosings` says what destroy does wait for.

The passing properties name their exception, and the exception is what the
code does:

* A queue of callbacks that is full while all workers wait in callbacks for room,
  or after they have left, holds up callbacks and `exit()` (`Jammed` of
  `UoCbThrdpool`, `uo_cb_queue.c:63`, `uo_cb_thrdpool.c:226`).
* A thread that quits waits for room in a queue of 16 stacks. With 16 workers and
  main there are 17 at least: the last one waits for ever, which may be `exit()`
  itself, or a worker that was to make its slot free, for which the manager then
  searches on and no worker takes its place (`CannotLeave` of `UoCbThrdpool`, `uo_cb_thrdpool.c:110,234`,
  `uo_linkpool.h:141,162`; `StacksTakenOver` of `UoCb` counts the stacks), or the accept thread that
  `uo_tcp_server_destroy` joins (`CannotQuit` of `UoTcpServer`, `uo_tcp_server.c:68`).
* The three kinds of misread above: `CallbacksAreCalled`, `EntriesHaveAnEnd`,
  `DestroyEnds` and `DestroyAwaitsClosings` claim nothing after one, and the
  properties of `UoCb` nothing after `race`.
* A request made to an idle connection is stored and nobody takes it up:
  `uo_tcp_conn_next_state` creates a callback only if the exchange from idle
  *fails* (`uo_tcp_conn.c:39`). `RequestNotOverlooked` is about requests made
  while a callback is in charge.
* A failed write ends the callback with the close merely requested
  (`AbandonedByWrite`, `uo_tcp_conn.c:103`).
* The accept thread enters a connection under a reused number, then drains the
  earlier closing of that number and removes the new entry; destroy does not wait
  for that connection (`NumberReused`, `uo_tcp_server.c:61`). Destroy posts to
  `closing_conns` before it wakes its only reader, and waits if it is full; the
  reader may even be over, having seen `is_closing`, when the closings of connections
  whose entries were removed in that way fill the queue
  (`Jammed` of `UoTcpServer`, `uo_tcp_server.c:45,213`).
* File server: an entry is looked up and then locked, and may be freed in between
  (`crashed`, `uo_http_file_server.c:151`); replacing takes the cache mutex and then
  the entry's, removing the other way round (`LocksCrossed`, lines 166, 187); a
  refresh does not charge `cache_space` (`grown`, lines 114-140); a version with the
  `st_mtime` of an earlier one, written within the same second or with its time set
  back, is not noticed, and the cached content is sent (`OwnTime`, line 230).
* HTTP: a request found invalid is neither answered nor closed (`Stalls`,
  `uo_http_msg.c:545`); the search for the end of the headers runs again over a body
  that arrives in parts and contains a blank line (`BlankLineIn`, line 435);
  bytes of a next request that arrived with a request are dropped with the buffer
  (`uo_tcp_conn.c:80`; the modelled peer waits for the answer). After a failing
  `epoll_ctl` the event structure stays on the stack, where HTTP expects its
  connection (`uo_io.c:340`; not enabled in `http_conn`). The NUL after a body
  that fills the buffer is written past its end (`uo_http_msg.c:516`; memory
  behind a buffer is not modelled).
* base64: the padded decoder looks at the padding of a group that need not be
  there, and reads on after an encoding without padding (`uo_base64.c:96`).
* JSON: a number directly before a brace or bracket, and `[ ]`, have no end
  (`uo_json.c:174-182`, 230, 263); the search inside a nested object goes on at a comma
  of the outer one (line 234); an array of two elements is searched for ever (line 267).
  `JsonFinds` therefore speaks of objects with a blank after each value and nested
  values last. `uo_http_conn_get_req_data` cuts a value that is not a string to the
  length of its key (`uo_http_conn.c:129`).
* A star directly after a parameter of a pattern is taken for the character that ends
  the value, so a request without a star is refused although the pattern, read like
  any other with a star, matches it (`uo_http_req_handler.c:78,82`). `Patterns` has
  no such pattern; in all others with a star, literal text comes before it.
* A request with a brace can make the pattern's difference NULL, which is read
  (`uo_http_req_handler.c:69`; braces are not in the alphabet). A buffer of size 0
  is doubled for ever by `uo_buf_memcpy_append` (the run starts with 1).
* The hash table never shrinks (`uo_hashtbl.h:335`), and every rent of a node
  allocates (`uo_linkpool.h:180`): memory only, no property is about it.

## Proofs

Proved by TLAPS for all values of the constants that satisfy the named
assumptions of the modules:

* `UoQueueProofs`, from `QueueConstants` (finite, disjoint sets of threads,
  positive capacity) and `CapacityDividesSize` (the capacity divides the range of
  the tickets; both capacities in the code are powers of two).
  `TokenInv` joins the types with the two conservation laws: neither is inductive
  without the other and without `ArgIsItem`. `CountStep` gives the change of
  the number of threads at a label when one of them moves. `TypeCorrect`,
  `TokensAreConserved` and `TicketsAreMatched` follow for any number of threads.
  `SpscInOrder` adds `RingInv` for one producer and one consumer: the filled
  slots, counted from the head, are the ledger; `NaturalFacts` supplies that
  different tickets less than a capacity apart have different slots, also across
  the wrap. `SpscImplementsFifo` is the refinement: under the same invariant the
  write of a slot is the abstract put, its read the take, and every other step
  leaves the abstract queue alone or gives up an item.
* `UoCbThrdpoolProofs`, from `PoolConstants` and `CallersAssumption` (finitely many
  application threads). `PoolInv` adds to the types
  `Control` (what the locals of each thread say about the shared counters) and
  `ExecutingCounted`. The theorems are type correctness, `CountCoversPool`,
  `CountIsActive`, `NoThreadLeftBehind` and the action property
  `NeverShrunkBelowMin`.
* `UoTcpServerProofs`, from `CapacityAssumption`, `NamesAssumption` and
  `ConnsAssumption` (finitely many connections, since callers between their ticket
  and their token are counted).
  `TypeInv` needs `HasFd` (a connection past accept has a descriptor) and
  `TicketsAreOver` (a caller draws one ticket);
  `EntriesHaveAnEnd` needs `SetInv`, what holds between the check and the entry
  into the table. `ServerTypeCorrect` and `EntriesAlwaysEnd` hold for any number
  of connections and any reuse of descriptors; the latter as long as no slot was
  read before it was written, which several producers cannot exclude.
  `DestroyAwaitsTheClosings` adds
  `AwaitInv`: as long as no number was reused and no slot misread, a connection
  that has not written its closing has its entry in the table or is just getting it, and
  the accept thread ends with an empty table.
* `UoConnProofs` about `UoTcpConn`, from `FirstChainAssumption`. `RequestsAreKept` needs no
  invariant: no step, of whichever callback or thread, replaces a request. The
  other three assume `OwnRequests`: no requests from outside (`Users = {}`),
  and event handlers made of the functions that the options of server and client
  install (`OptionHandlers`); `OneInCharge` also that a flow option was chosen
  (`FlowHandlers`), `RepliesToFullMessages` that a server's flow is used with the
  length prefix (`ServerHandlers`). `MCTcpConn` checks that the handlers of the
  runs satisfy these assumptions. `ConnInv` says what may be left in
  the function list of the one callback: functions of the handler that is
  running, then one of a few tails of `uo_tcp_conn.c`, and for each tail what the
  stack, `state`, `full` and the life of the connection are (`Driving`). A list
  with a `next_*` function in it will have asked for an operation when it arrives
  at `advance`, unless it idles: that is `AlwaysInCharge`.
* `UoConnProofs` about `UoHttpConn`, from `BufSizeAssumption` (a buffer holds
  something) and `PeerMessagesAssumption` (what a peer sends are sequences).
  `HttpConnIsSound` is `HttpConnSound` for any messages of the peer, cut anywhere,
  any buffer size, any request handlers and any failures of reads and writes. It
  assumes (`HttpAssumption`) that `epoll_ctl` succeeds, for after a failure the
  event structure stays on the stack where HTTP expects its connection
  (`uo_io.c:333-343`), and that the event handlers are as
  `uo_http_server_create` or `uo_http_client_create` and any flow options
  install them (`HttpServerHandlers`, `HttpClientHandlers`); `MCHttpConn` checks
  that those of the run are. `Now` is a snapshot of the one callback and of what
  its functions depend on, and `Invokes` what each function does to it.
  `Mode` is the core of the invariant: the list of functions is always a
  prefix of HTTP functions that a handler prepended, which run with the
  `http_conn` on the stack, then the rest of the event's own handlers, which run
  with the `uo_tcp_conn` on it, then what `uo_tcp_conn.c` appended; which
  lists there can be, and whether `temp` of the message being received is the
  parser's offset or the request's handler, depends on the event. `ModeRuns`
  follows every function from one mode to the next, `Parsing` says that an
  offset is within the buffer and that an unfinished message is parsed on from
  where it was, and `ModeFits` that in every mode the next function finds what it
  needs. `TempIsOffset` needs all of it: that an offset is not overwritten by a
  handler while a message is incomplete follows only from the order in which
  receiving, replying and resetting come around.
* `UoHttpFileServerProofs`, from `ConnsAssumption` and `UrisAssumption` (finitely
  many connections, their names, some path). Each action is first reduced to its
  effect on the fields it changes (`Gets`, `Locks`, ..., `StepEffect`), and three
  invariants are built on one another. `SafeInv`: references are in range, the
  mutexes are held by whom the steps say, and every entry that is not in the table
  is in exactly one place: unpublished, being replaced, or on its way to be freed.
  It gives `EntriesSafe`, its type invariant included. `RefInv`: no two entries
  share a content and the count of a content is the number of entries and
  responses that refer to it (`CountsAreHolders`); hence bytes that are referred
  to are not freed. `SpaceInv` gives `CacheSpaceIsAccounted`: the sum of the sizes
  goes over one set, the entries in the table and the one a replacement has just
  taken out (`InCache`), each of which is in it once; entering, replacing and
  removing move one entry and a refresh changes one size, and `grown` remembers the
  latter. `FreshInv`: a cached entry with the time of the current
  version has its bytes, and what a connection took from `stat` is current unless
  the file was edited since; it gives `Undisturbed`, for versions with a time of
  their own (`OwnTime`).
* `UoHashtblProofs`, from `HashtblConstants`: the capacity is at first a power of
  two, at least 4, and neither 0, NULL nor the tag is a key or a value. A table
  that is created larger is the instance with that `MIN_CAPACITY`, which occurs
  elsewhere only in the condition that is never true. `Sound` says what a table is:
  each slot is free, a tombstone or an item; the list goes through the items once
  each; and a probe for an item's key skips every slot before the item. Hence a
  probe that ends at a free slot has shown that the key is absent (`FoundOrFree`).
  Entering, revising and dropping an item keep `Sound`, and a rebuild is an
  induction over the items entered (`BuiltTables`, `ResizedSound`). `Inv` adds that
  less than half of the slots are items and less than a quarter tombstones, so a
  free slot remains. It gives `TableIsSound`. What the map shows is a
  function of the sequence of items only (`Mapping`); `TableImplementsMap` follows
  from what each operation does to that sequence.
* `UoCbProofs`, about every behaviour up to the first `race`, from `CbAssumption` (finitely many threads, a queue and chunks
  that hold something) and `StackAssumption`. The n rents of one call are a
  recursive function; `RentSteps` gives its
  equation and `RentsAll`, by induction, what a thread has after them: the last
  node of each new chunk was taken, the others are free. Each operation is then a
  rearrangement (`Rearranged`) of the nodes of one callback, one pool and the new
  chunks. `CbInv` joins the types, `OneHolder`, that every node is of a chunk that
  was allocated, and `PoolsSound`, with `ThreadsEmpty`: a thread that is not
  initialised has neither nodes nor chunks, so a stack that is taken over
  overwrites nothing and exit leaves no chunk behind. Of the ring it has that
  neither semaphore falls below zero (`TypeOK` of `UoCb`) and that a stack is in the
  queue from its ticket on and a thread's from its own: the stacks of threads and queue
  together are as many as threads were there at a time. `NodesHaveOneHolder` and
  `PoolsAreSound` follow for any number of threads and callbacks; that there are
  finitely many is needed for `StacksTakenOver`, which counts them.
  `FunctionsFindTheirItems` adds `ItemsMeet`: there is a map from the items of a
  stack to the functions of the list that pop them, onto all of these, and falling:
  the lower an item, the later its function (`Meets`). Joined lists meet their items
  joined the other way round (`MeetsJoined`), which is why a callback that is put
  first has its items pushed and one that is put last has them inserted at 0, and
  why the functions of the former are linked backwards from the last
  (`FuncsInNew`). Counting the map's values gives the property (`MeetsFinds`).

The library's induction theorems take an operator as a parameter and cannot be
used; `NaturalFacts` derives from well-foundedness the induction over a set of
numbers (`SetInduction`), which can. A sum over a set is a fold that takes the
elements in an order of its own; `NaturalFacts` shows that the order does not matter
and how the sum changes when an element is added, removed or changes its value
(`SumAdd`, `SumRemove`, `SumChange`).

The type invariants of the queue, the pool and the server are proved and need no
run.

Only model-checked:

* all liveness (`TokensReturn`, the ends of pool, connection, server, HTTP and
  file server), which is out of the prover's reach;
* `RequestNotOverlooked`, and the properties of connections with users: there
  several callbacks exist at once;
* the codecs, whose operators are recursive;
* that the array of a stack, of a callback's too, has room for its items
  (`GrownEnough`, on `UoStack` itself): how the capacity follows from the bits of the
  count is an induction over data, and holds only within the width of a word;
* that HTTP messages are delivered as sent and written whole (`DeliveredAsSent`,
  `WrittenIsWhole`): both compare texts that folds put together and parsing takes
  apart, again an induction over data.

## Not modelled, and why

* `uo_io_write_async` and `uo_io_quit`: nothing in the repository writes
  asynchronously, and quitting is a pipe and a join.
* Name lookup and `connect` of the TCP client, options and handlers that are set
  before a server starts, user data of connections: sequential set-up.
* JWT (cryptography around base64url), configuration (a file read once into a hash
  table), program lifecycle (a semaphore and a signal handler), the thin wrappers.
* The legacy HTTP client `uo_httpc`: one blocking function of socket and TLS calls.
* The Windows branches (`#ifdef WIN32` in `uo_io.c` and others), memory layout, and
  allocation failure, which the code does not handle.

## Plan

1. `uo_io_quit` against the epoll thread.
2. `uo_httpc`: its retries with exponential backoff.
