----------------------------- MODULE UoTcpServer -----------------------------
(***************************************************************************)
(* The TCP server of libuo: uo_tcp_server.c.                               *)
(*                                                                         *)
(* A thread accepts connections and keeps them in the hash table conns,    *)
(* keyed by the descriptor.  The worker that closes a connection posts its *)
(* descriptor to the bounded queue closing_conns, and the accept thread    *)
(* takes the entry out: after each accept, and once more at the end, when  *)
(* it waits until the table is empty.  uo_tcp_server_destroy wakes the     *)
(* thread with a connection of its own, joins it and frees the server.     *)
(*                                                                         *)
(* A connection is here only what the server sees of it: open, its socket  *)
(* closed, the steps of its uo_queue_enqueue, the after_close handlers     *)
(* that come after it, freed (UoTcpConn has the rest).  conns is a         *)
(* function from descriptors.                                              *)
(*                                                                         *)
(* closing_conns is the ring of UoQueue, with several producers and one    *)
(* consumer: the callers that drew a ticket the accept thread did not draw *)
(* yet, in the order of the tickets.  A caller writes its slot and posts   *)
(* its token in later steps, and another caller's token lets the accept    *)
(* thread read a slot that is not written.  It then finds what malloc or   *)
(* an earlier round left there, and from then on a late write may replace  *)
(* any other item: misread remembers that this has happened.               *)
(***************************************************************************)
EXTENDS Naturals, Sequences, FiniteSets

CONSTANTS Conns,         \* clients that connect, one connection each
          Fds,           \* descriptor numbers
          Capacity,      \* of closing_conns: 0x10 in the code
          ConnectFails   \* whether destroy can fail to reach its own server

ASSUME CapacityAssumption == Capacity \in Nat \ {0}

None     == "none"
MinusOne == "-1"         \* what destroy posts to closing_conns

ASSUME NamesAssumption ==
    None \notin Conns \cup Fds \cup {MinusOne} /\ MinusOne \notin Conns \cup Fds

ASSUME ConnsAssumption == IsFiniteSet(Conns)

VARIABLES stage,         \* of each connection
          fd,            \* tcp_conn->sockfd
          owner,         \* whose socket a descriptor number is
          conns,         \* tcp_server->conns
          closing_conns, \* tcp_server->closing_conns: who drew a ticket
          misread,       \* a slot was read before it was written
          is_closing,    \* tcp_server->is_closing
          acc,           \* where the accept thread is
          accepted,      \* its local variable sockfd, by connection
          dst,           \* where uo_tcp_server_destroy is
          wake           \* its connection is waiting to be accepted

vars == <<stage, fd, owner, conns, closing_conns, misread, is_closing, acc, accepted, dst, wake>>

Stages == {"away", "backlog", "accepted", "open", "closed", "drawn", "written", "posted",
           "freed"}

TypeOK ==
    /\ stage \in [Conns -> Stages]
    /\ fd \in [Conns -> Fds \cup {None}]
    /\ owner \in [Fds -> Conns \cup {None}]
    /\ conns \in [Fds -> Conns \cup {None}]
    /\ closing_conns \in Seq(Conns \cup {MinusOne}) /\ Len(closing_conns) <= Capacity
    /\ misread \in BOOLEAN
    /\ is_closing \in BOOLEAN
    /\ acc \in {"accept", "check", "set", "drain", "flush", "quit", "done"}
    /\ accepted \in Conns \cup {None}
    /\ dst \in {"none", "post", "drawn", "written", "connect", "join", "free", "done"}
    /\ wake \in BOOLEAN

(* uo_tcp_server_create and uo_tcp_server_start                            *)
Init ==
    /\ stage = [c \in Conns |-> "away"]
    /\ fd = [c \in Conns |-> None]
    /\ owner = [f \in Fds |-> None]
    /\ conns = [f \in Fds |-> None]
    /\ closing_conns = <<>> /\ misread = FALSE
    /\ is_closing = FALSE
    /\ acc = "accept" /\ accepted = None
    /\ dst = "none" /\ wake = FALSE

-----------------------------------------------------------------------------
(* a client connects to the listening socket                               *)
ClientConnects(c) ==
    /\ stage[c] = "away" /\ dst # "done"
    /\ stage' = [stage EXCEPT ![c] = "backlog"]
    /\ UNCHANGED <<fd, owner, conns, closing_conns, misread, is_closing, acc, accepted, dst, wake>>

-----------------------------------------------------------------------------
(* uo_tcp_server_accept: accept() of a client, of destroy's connection     *)
(* (its descriptor is never used), or -1 when no descriptor is free        *)
AcceptClient(c, f) ==
    /\ acc = "accept" /\ stage[c] = "backlog" /\ owner[f] = None
    /\ stage' = [stage EXCEPT ![c] = "accepted"]
    /\ fd' = [fd EXCEPT ![c] = f]
    /\ owner' = [owner EXCEPT ![f] = c]
    /\ accepted' = c /\ acc' = "check"
    /\ UNCHANGED <<conns, closing_conns, misread, is_closing, dst, wake>>

AcceptNothing ==
    /\ acc = "accept"
    /\ \/ wake /\ wake' = FALSE
       \/ /\ \E c \in Conns : stage[c] = "backlog"
          /\ \A f \in Fds : owner[f] # None
          /\ UNCHANGED wake
    /\ accepted' = None /\ acc' = "check"
    /\ UNCHANGED <<stage, fd, owner, conns, closing_conns, misread, is_closing, dst>>

(* is_closing ends the loop, an error repeats it, otherwise                *)
(* uo_tcp_conn_create_for_server and uo_tcp_conn_open                      *)
Check ==
    /\ acc = "check"
    /\ acc' = CASE is_closing                     -> "flush"
                [] ~is_closing /\ accepted = None -> "accept"
                [] ~is_closing /\ accepted # None -> "set"
    /\ stage' = IF acc' = "set" THEN [stage EXCEPT ![accepted] = "open"] ELSE stage
    /\ UNCHANGED <<fd, owner, conns, closing_conns, misread, is_closing, accepted, dst, wake>>

(* uo_inthashtbl_set: the descriptor's earlier entry, if any, is replaced  *)
SetConn ==
    /\ acc = "set"
    /\ conns' = [conns EXCEPT ![fd[accepted]] = accepted]
    /\ acc' = "drain"
    /\ UNCHANGED <<stage, fd, owner, closing_conns, misread, is_closing, accepted, dst, wake>>

(* Of a caller of uo_queue_enqueue: where it is, and what it puts.         *)
At(p)     == IF p = MinusOne THEN dst ELSE stage[p]
Number(p) == IF p = MinusOne THEN MinusOne ELSE fd[p]

(* sem_wait on enqueue_sem, of which every ticket not yet drawn by the     *)
(* accept thread holds a token, and the ticket                             *)
Draw(p) ==
    /\ Len(closing_conns) < Capacity
    /\ closing_conns' = Append(closing_conns, p)

(* A call that drew its ticket and did not sem_post(dequeue_sem) yet: the  *)
(* semaphore holds a token for every other ticket in closing_conns.        *)
Enqueueing == {p \in Conns \cup {MinusOne} : At(p) \in {"drawn", "written"}}

(* What a slot may hold that nobody wrote: the items of earlier rounds,    *)
(* zero, or a number that is no key of conns, as -1                        *)
Leftovers == Fds \cup {MinusOne, None}

(* uo_queue_dequeue with a token: the next slot, written or not            *)
Dequeue(item) ==
    /\ Len(closing_conns) > Cardinality(Enqueueing)
    /\ closing_conns' = Tail(closing_conns)
    /\ misread' = (misread \/ At(Head(closing_conns)) = "drawn")
    /\ item \in IF misread' THEN Leftovers ELSE {Number(Head(closing_conns))}

(* uo_inthashtbl_remove: nothing happens for a number without an entry     *)
RemoveConn(item) == conns' = [f \in Fds |-> IF f = item THEN None ELSE conns[f]]

(* dequeue without waiting: until NULL, from an empty queue or a slot      *)
Drain ==
    /\ acc = "drain"
    /\ \/ /\ Len(closing_conns) = Cardinality(Enqueueing)
          /\ acc' = "accept" /\ UNCHANGED <<conns, closing_conns, misread>>
       \/ \E item \in Leftovers :
            /\ Dequeue(item) /\ RemoveConn(item)
            /\ acc' = IF item = None THEN "accept" ELSE acc
    /\ UNCHANGED <<stage, fd, owner, is_closing, accepted, dst, wake>>

(* the last loop: until conns.count is 0, waiting for closing_conns        *)
FlushNoWait ==                                \* mutation: ends when the queue is empty
    /\ acc = "flush"
    /\ \/ Len(closing_conns) = Cardinality(Enqueueing) /\ acc' = "quit"
          /\ UNCHANGED <<conns, closing_conns, misread>>
       \/ \E item \in Leftovers : Dequeue(item) /\ RemoveConn(item) /\ UNCHANGED acc
    /\ UNCHANGED <<stage, fd, owner, is_closing, accepted, dst, wake>>
Flush ==
    /\ acc = "flush"
    /\ \/ /\ \A f \in Fds : conns[f] = None
          /\ acc' = "quit" /\ UNCHANGED <<conns, closing_conns, misread>>
       \/ /\ \E f \in Fds : conns[f] # None
          /\ \E item \in Leftovers : Dequeue(item) /\ RemoveConn(item)
          /\ UNCHANGED acc
    /\ UNCHANGED <<stage, fd, owner, is_closing, accepted, dst, wake>>

(* uo_cb_thrd_quit: may wait for room in the link pools (UoCbThrdpool)     *)
AcceptQuit ==
    /\ acc = "quit"
    /\ acc' = "done"
    /\ UNCHANGED <<stage, fd, owner, conns, closing_conns, misread, is_closing, accepted, dst, wake>>

-----------------------------------------------------------------------------
(* close(tcp_conn->sockfd): whoever owns the number now loses it           *)
Closes(c) == owner' = [owner EXCEPT ![fd[c]] = None]

(* uo_tcp_conn_close, in uo_tcp_conn.c                                     *)
CloseSocket(c) ==
    /\ stage[c] = "open"
    /\ stage' = [stage EXCEPT ![c] = "closed"]
    /\ Closes(c)
    /\ UNCHANGED <<fd, conns, closing_conns, misread, is_closing, acc, accepted, dst, wake>>

(* uo_tcp_conn_after_close of uo_tcp_server.c, the first after_close       *)
(* handler: it waits while closing_conns is full, writes its descriptor to *)
(* the slot of its ticket and posts                                        *)
PostClosedTry(c) ==                           \* mutation: an enqueue that does not wait
    /\ stage[c] = "closed"
    /\ \/ Draw(c) /\ stage' = [stage EXCEPT ![c] = "drawn"]
       \/ /\ Len(closing_conns) = Capacity /\ UNCHANGED closing_conns
          /\ stage' = [stage EXCEPT ![c] = "posted"]
    /\ UNCHANGED <<fd, owner, conns, misread, is_closing, acc, accepted, dst, wake>>
PostClosed(c) ==
    /\ stage[c] = "closed"
    /\ Draw(c)
    /\ stage' = [stage EXCEPT ![c] = "drawn"]
    /\ UNCHANGED <<fd, owner, conns, misread, is_closing, acc, accepted, dst, wake>>

PostWrite(c) ==
    /\ stage[c] = "drawn"
    /\ stage' = [stage EXCEPT ![c] = "written"]
    /\ UNCHANGED <<fd, owner, conns, closing_conns, misread, is_closing, acc, accepted, dst, wake>>

PostToken(c) ==
    /\ stage[c] = "written"
    /\ stage' = [stage EXCEPT ![c] = "posted"]
    /\ UNCHANGED <<fd, owner, conns, closing_conns, misread, is_closing, acc, accepted, dst, wake>>

(* the other after_close handlers, for HTTP those of uo_http_server.c,     *)
(* which read the server's handlers and user data, freed or not; then      *)
(* uo_tcp_conn_destroy, in uo_tcp_conn.c: the same number is closed again  *)
FreeConn(c) ==
    /\ stage[c] = "posted"
    /\ stage' = [stage EXCEPT ![c] = "freed"]
    /\ Closes(c)
    /\ UNCHANGED <<fd, conns, closing_conns, misread, is_closing, acc, accepted, dst, wake>>

-----------------------------------------------------------------------------
(* uo_tcp_server_destroy                                                   *)
DestroyBegin ==
    /\ dst = "none"
    /\ is_closing' = TRUE /\ dst' = "post"
    /\ UNCHANGED <<stage, fd, owner, conns, closing_conns, misread, acc, accepted, wake>>

(* uo_queue_enqueue of -1, in the same steps as a connection's             *)
DestroyPost ==
    /\ \/ dst = "post" /\ Draw(MinusOne) /\ dst' = "drawn"
       \/ dst = "drawn" /\ dst' = "written" /\ UNCHANGED closing_conns
       \/ dst = "written" /\ dst' = "connect" /\ UNCHANGED closing_conns
    /\ UNCHANGED <<stage, fd, owner, conns, misread, is_closing, acc, accepted, wake>>

(* connect() and pthread_join, or pthread_cancel and no join               *)
DestroyNoConnect ==                           \* mutation: joins a thread that nobody woke
    /\ dst = "connect"
    /\ dst' = "join"
    /\ UNCHANGED <<stage, fd, owner, conns, closing_conns, misread, is_closing, acc, accepted, wake>>
DestroyConnect ==
    /\ dst = "connect"
    /\ \/ wake' = TRUE /\ dst' = "join"
       \/ ConnectFails /\ dst' = "free" /\ UNCHANGED wake
    /\ UNCHANGED <<stage, fd, owner, conns, closing_conns, misread, is_closing, acc, accepted>>

DestroyFree ==
    /\ dst = "free" \/ (dst = "join" /\ acc = "done")
    /\ dst' = "done"
    /\ UNCHANGED <<stage, fd, owner, conns, closing_conns, misread, is_closing, acc, accepted, wake>>

(* the cancelled thread ends at accept() or in a sem_wait, perhaps after   *)
(* the server was freed                                                    *)
Cancelled ==
    /\ dst \in {"free", "done"}
    /\ acc \in {"accept", "flush", "quit"}
    /\ acc' = "done"
    /\ UNCHANGED <<stage, fd, owner, conns, closing_conns, misread, is_closing, accepted, dst, wake>>

AcceptThread ==
    \/ \E c \in Conns, f \in Fds : AcceptClient(c, f)
    \/ AcceptNothing \/ Check \/ SetConn \/ Drain \/ Flush \/ Cancelled
Posting(c) == PostClosed(c) \/ PostWrite(c) \/ PostToken(c)
Conn(c)    == CloseSocket(c) \/ Posting(c) \/ FreeConn(c)
Destroy    == DestroyPost \/ DestroyConnect \/ DestroyFree

Next ==
    \/ \E c \in Conns : ClientConnects(c) \/ Conn(c)
    \/ AcceptThread \/ AcceptQuit
    \/ DestroyBegin \/ Destroy

Spec == Init /\ [][Next]_vars

(* The threads run: the accept thread, the workers that post a closing,    *)
(* the thread inside uo_tcp_server_destroy.  Nobody has to connect, to     *)
(* close a connection or to call uo_tcp_server_destroy, and the other      *)
(* after_close handlers, which are the user's, may take for ever; so may   *)
(* the accept thread's uo_cb_thrd_quit.                                    *)
FairSpec ==
    /\ Spec
    /\ WF_vars(AcceptThread) /\ WF_vars(Destroy)
    /\ \A c \in Conns : WF_vars(Posting(c))

-----------------------------------------------------------------------------
Posted(f) == \E i \in 1 .. Len(closing_conns) : Number(closing_conns[i]) = f

(* Every entry of conns will be taken out: its connection is still to post *)
(* the descriptor, or its ticket is in closing_conns.  Otherwise           *)
(* uo_tcp_server_destroy would wait forever (uo_tcp_server.c:27,57-66).    *)
(* The exception is closing_conns itself, when the accept thread has read  *)
(* a slot before it was written (uo_queue.c:45-47): that descriptor is     *)
(* lost.                                                                   *)
EntriesHaveAnEnd ==
    ~misread => \A f \in Fds : conns[f] # None =>
        Posted(f) \/ \E c \in Conns : fd[c] = f /\ stage[c] \in {"open", "closed"}

(* If its connections are closed sooner or later, uo_tcp_server_destroy    *)
(* frees the server, with three exceptions.  It may wait for ever to post  *)
(* -1 to closing_conns: a full queue has room again only when somebody     *)
(* connects, and destroy connects after it has posted; or the accept       *)
(* thread has seen is_closing and is over, while closings of connections   *)
(* whose entries went with an earlier holder of their number fill the      *)
(* queue.  It may join an accept thread that waits for ever for room in a  *)
(* link pool.  And it may wait for ever for a descriptor that was lost     *)
(* because its slot was read before it was written (uo_tcp_server.h:102,   *)
(* uo_tcp_server.c:45,61-68,213,226-227, uo_linkpool.h:162,                *)
(* uo_queue.c:45-47).                                                      *)
Jammed     == dst = "post" /\ Len(closing_conns) = Capacity /\ acc \in {"accept", "quit", "done"}
CannotQuit == dst = "join" /\ acc = "quit"
DestroyEnds ==
    []<>(is_closing => dst = "done" \/ Jammed \/ CannotQuit \/ misread
                          \/ \E c \in Conns : stage[c] = "open")

(* Before uo_tcp_server_destroy, having joined the accept thread, frees    *)
(* the server, every connection has written its descriptor to its slot of  *)
(* closing_conns: none is left that would still receive, send, close or    *)
(* wait for room there.  It does not wait for what a connection does after *)
(* that (its sem_post, the other after_close handlers).                    *)
(* Two more exceptions: two connections were given the same number, and    *)
(* the entry of the later one was taken out when the earlier one's closing *)
(* arrived; a slot was read before it was written (uo_tcp_server.c:26-27,  *)
(* 61-66).                                                                 *)
NumberReused == \E c, d \in Conns : c # d /\ fd[c] = fd[d] /\ fd[c] # None
DestroyAwaitsClosings ==
    [][dst = "join" /\ dst' = "done" /\ ~NumberReused /\ ~misread =>
           \A c \in Conns : stage[c] \notin {"open", "closed", "drawn"}]_vars
=============================================================================
