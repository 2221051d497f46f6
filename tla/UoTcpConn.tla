------------------------------ MODULE UoTcpConn ------------------------------
(***************************************************************************)
(* One TCP connection of libuo: uo_tcp_conn.c, with the part of uo_io.c    *)
(* that carries its reads.                                                 *)
(*                                                                         *)
(* A connection is driven by a callback (uo_cb): a list of functions, each *)
(* of which ends with uo_cb_invoke of the next, and a stack of pointers    *)
(* with the connection at index 0.  Such a callback is a chain here.  It   *)
(* is queued for the thread pool, run by a worker, parked in epoll, or     *)
(* over.  Operations are requested by setting the atomic state, and taken  *)
(* up by uo_tcp_conn_advance at the end of the chain.  Threads outside the *)
(* chain may request operations too (Users).                               *)
(*                                                                         *)
(* Left out: the bytes.  A read yields data, end of file or an error; a    *)
(* send writes everything or fails.                                        *)
(***************************************************************************)
EXTENDS Naturals, Sequences, FiniteSets

CONSTANTS Handlers,      \* the evt_handlers there are: the functions of each event
          Users,         \* threads that call uo_tcp_conn_next_* from outside
          Chains,        \* uo_cb instances of the connection; bound: no more exist at once
          FirstChain,    \* the one uo_tcp_conn_open creates
          WritesFail,    \* whether a write can fail
          EpollFails     \* whether epoll_ctl can fail

ASSUME FirstChainAssumption == FirstChain \in Chains

VARIABLES evt_handlers,  \* tcp_conn->evt_handlers
          state,         \* tcp_conn->state
          full,          \* evt_arg.after_recv.is_msg_fully_received
          chain,         \* the callbacks
          call,          \* uo_tcp_conn_next_state calls between their two CAS
          waits,         \* callers inside uo_tcp_conn_advance of a chain they created
          life,          \* the uo_tcp_conn: "open", its socket "closed", or "freed"
          peer,          \* the other end: "open" or "closed"
          write_failed   \* history: a write failed

vars == <<evt_handlers, state, full, chain, call, waits, life, peer, write_failed>>

Requests == {"r", "s", "c"}
Agents   == Chains \cup Users

(* uo_tcp_conn's own functions, the cb_funcs of the flow options, the      *)
(* length-prefix functions, and an application's handler                   *)
Functions == {"advance", "before_recv", "execute_io", "recv", "send", "after_send", "close",
              "after_close", "next_r", "next_s", "next_c", "lp_send", "lp_recv", "app"}
Pointers  == {"conn", "epevt", "err", "zero", "len"}

NoChain == [at |-> "none", funcs |-> <<>>, stack |-> <<>>, idling |-> FALSE]
Live(c) == chain[c].at # "none"

TypeOK ==
    /\ evt_handlers \in Handlers
    /\ state \in {"0", "i"} \cup Requests
    /\ full \in BOOLEAN
    /\ \A c \in Chains :
          /\ chain[c].at \in {"none", "queued", "run", "io"}
          /\ chain[c].funcs \in Seq(Functions)
          /\ chain[c].stack \in Seq(Pointers)
          /\ chain[c].idling \in BOOLEAN
          /\ ~Live(c) => chain[c] = NoChain
    /\ call \in [Agents -> Requests \cup {"none"}]
    /\ \A a \in Agents : waits[a] = {} \/ \E c \in Chains : waits[a] = {c}
    /\ life \in {"open", "closed", "freed"}
    /\ peer \in {"open", "closed"}
    /\ write_failed \in BOOLEAN

(* uo_tcp_conn_create_for_*, uo_tcp_conn_open                              *)
Init ==
    /\ evt_handlers \in Handlers
    /\ state = "0" /\ full = FALSE
    /\ chain = [c \in Chains |->
                  IF c = FirstChain
                  THEN [NoChain EXCEPT !.at = "queued", !.stack = <<"conn">>,
                                       !.funcs = Append(evt_handlers["after_open"], "advance")]
                  ELSE NoChain]
    /\ call = [a \in Agents |-> "none"]
    /\ waits = [a \in Agents |-> {}]
    /\ life = "open" /\ peer = "open" /\ write_failed = FALSE

-----------------------------------------------------------------------------
(* an agent is not inside uo_tcp_conn_next_state, nor in a chain it made   *)
Ready(a) == call[a] = "none" /\ \A c \in waits[a] : chain[c].at # "run"

(* uo_cb_invoke is about to call f                                         *)
Calls(c, f) ==
    /\ chain[c].at = "run" /\ Ready(c) /\ ~chain[c].idling
    /\ chain[c].funcs # <<>> /\ Head(chain[c].funcs) = f

(* uo_cb_append of functions, after f was unlinked                         *)
Rest(c)       == Tail(chain[c].funcs)
Then(c, more) == [chain EXCEPT ![c].funcs = Rest(c) \o more]
Continue(c)   == Then(c, <<>>)

Top(s) == s[Len(s)]
Pop(s) == SubSeq(s, 1, Len(s) - 1)

(* uo_cb_queue: a worker takes the callback up                             *)
Dispatch(c) ==
    /\ chain[c].at = "queued"
    /\ chain' = [chain EXCEPT ![c].at = "run"]
    /\ UNCHANGED <<evt_handlers, state, full, call, waits, life, peer, write_failed>>

(* uo_cb_invoke on an empty list: uo_cb_destroy                            *)
EndChain(c) ==
    /\ chain[c].at = "run" /\ Ready(c) /\ ~chain[c].idling /\ chain[c].funcs = <<>>
    /\ chain' = [chain EXCEPT ![c] = NoChain]
    /\ waits' = [a \in Agents |-> waits[a] \ {c}]
    /\ UNCHANGED <<evt_handlers, state, full, call, life, peer, write_failed>>

-----------------------------------------------------------------------------
(* uo_tcp_conn_next_state, first compare-and-exchange: '\0' to req         *)
NextState(a, req) ==
    \/ state = "0" /\ state' = req /\ UNCHANGED call
    \/ state = "i" /\ call' = [call EXCEPT ![a] = req] /\ UNCHANGED state
    \/ state \in Requests /\ UNCHANGED <<state, call>>

(* second compare-and-exchange: 'i' to req.  If it fails, a new callback   *)
(* runs uo_tcp_conn_advance in the caller's thread                         *)
NextStateIdle(a) ==
    /\ call[a] # "none"
    /\ call' = [call EXCEPT ![a] = "none"]
    /\ \/ state = "i" /\ state' = call[a] /\ UNCHANGED <<chain, waits>>
       \/ /\ state # "i"
          /\ \E c \in Chains :
                /\ ~Live(c)
                /\ chain' = [chain EXCEPT ![c] = [NoChain EXCEPT !.at = "run", !.stack = <<"conn">>,
                                                                !.funcs = <<"advance">>]]
                /\ waits' = [waits EXCEPT ![a] = {c}]
          /\ UNCHANGED state
    /\ UNCHANGED <<evt_handlers, full, life, peer, write_failed>>

(* uo_tcp_conn_next_recv, _send and _close called by another thread, which *)
(* knows that the connection is not closed yet                             *)
UserRequest(u, req) ==
    /\ Ready(u) /\ life = "open"
    /\ NextState(u, req)
    /\ waits' = [waits EXCEPT ![u] = {}]
    /\ UNCHANGED <<evt_handlers, full, chain, life, peer, write_failed>>

(* uo_tcp_conn_next_recv_cb_func, _send_ and _close_                       *)
NextFunc(c, f, req) ==
    /\ Calls(c, f)
    /\ NextState(c, req)
    /\ chain' = Continue(c)
    /\ UNCHANGED <<evt_handlers, full, waits, life, peer, write_failed>>

-----------------------------------------------------------------------------
(* uo_tcp_conn_advance: take the request, atomic_exchange(&state, '\0')    *)
Advance(c) ==
    /\ Calls(c, "advance")
    /\ state' = "0"
    /\ chain' = CASE state = "r" -> Then(c, Append(evt_handlers["before_recv"], "before_recv"))
                  [] state = "s" -> Then(c, Append(evt_handlers["before_send"], "send"))
                  [] state = "c" -> Then(c, Append(evt_handlers["before_close"], "close"))
                  [] state = "0" -> [Continue(c) EXCEPT ![c].idling = TRUE]
                  [] state = "i" -> Continue(c)
    /\ UNCHANGED <<evt_handlers, full, call, waits, life, peer, write_failed>>

(* no request: '\0' to 'i', unless a request arrived meanwhile             *)
AdvanceIdleBlind(c) ==                        \* mutation: a store instead of the CAS
    /\ chain[c].idling
    /\ state' = "i"
    /\ chain' = [chain EXCEPT ![c].idling = FALSE]
    /\ UNCHANGED <<evt_handlers, full, call, waits, life, peer, write_failed>>
AdvanceIdleGivesUp(c) ==                      \* mutation: no second look at the state
    /\ chain[c].idling
    /\ state' = IF state = "0" THEN "i" ELSE state
    /\ chain' = [chain EXCEPT ![c].idling = FALSE]
    /\ UNCHANGED <<evt_handlers, full, call, waits, life, peer, write_failed>>
AdvanceIdle(c) ==
    /\ chain[c].idling
    /\ \/ /\ state = "0" /\ state' = "i"
          /\ chain' = [chain EXCEPT ![c].idling = FALSE]
       \/ /\ state # "0" /\ UNCHANGED state
          /\ chain' = [chain EXCEPT ![c].idling = FALSE,
                                    ![c].funcs = Append(chain[c].funcs, "advance")]
    /\ UNCHANGED <<evt_handlers, full, call, waits, life, peer, write_failed>>

(* uo_tcp_conn_before_recv and uo_io_read_async: the callback is parked in *)
(* epoll, or queued with an error                                          *)
BeforeRecv(c) ==
    /\ Calls(c, "before_recv")
    /\ LET parked == [chain[c] EXCEPT !.funcs = <<"recv">> \o Rest(c), !.at = "io",
                                      !.stack = Append(chain[c].stack, "epevt")]
       IN \/ chain' = [chain EXCEPT ![c] = parked]
          \/ /\ EpollFails
             /\ chain' = [chain EXCEPT ![c] = [parked EXCEPT !.at = "queued",
                                                 !.stack = parked.stack \o <<"err", "zero">>]]
    /\ waits' = [a \in Agents |-> waits[a] \ {c}]
    /\ UNCHANGED <<evt_handlers, state, full, call, life, peer, write_failed>>

(* uo_io_accept_async_io: the descriptor is readable                       *)
IoReady(c) ==
    /\ chain[c].at = "io"
    /\ chain' = [chain EXCEPT ![c].at = "queued",
                              ![c].funcs = <<"execute_io">> \o chain[c].funcs]
    /\ UNCHANGED <<evt_handlers, state, full, call, waits, life, peer, write_failed>>

(* uo_io_execute_io: read() returns data, 0 after the peer closed, or -1   *)
ExecuteIo(c) ==
    /\ Calls(c, "execute_io")
    /\ \E result \in {<<"len">>, <<"err", "zero">>} :
          /\ result = <<"len">> => peer = "open"
          /\ chain' = [Continue(c) EXCEPT ![c].stack = Pop(chain[c].stack) \o result]
    /\ UNCHANGED <<evt_handlers, state, full, call, waits, life, peer, write_failed>>

(* uo_tcp_conn_recv                                                        *)
RecvNoAdvance(c) ==                           \* mutation: the error path returns early
    /\ Calls(c, "recv")
    /\ LET stack == chain[c].stack IN
       \/ /\ Top(stack) # "zero"
          /\ chain' = [Then(c, Append(evt_handlers["after_recv"], "advance"))
                          EXCEPT ![c].stack = Pop(stack)]
          /\ UNCHANGED <<state, call>>
       \/ /\ Top(stack) = "zero"
          /\ NextState(c, "c")
          /\ chain' = [Continue(c) EXCEPT ![c].stack = Pop(Pop(stack))]
    /\ UNCHANGED <<evt_handlers, full, waits, life, peer, write_failed>>
Recv(c) ==
    /\ Calls(c, "recv")
    /\ LET stack == chain[c].stack IN
       \/ /\ Top(stack) # "zero"
          /\ chain' = [Then(c, Append(evt_handlers["after_recv"], "advance"))
                          EXCEPT ![c].stack = Pop(stack)]
          /\ UNCHANGED <<state, call>>
       \/ /\ Top(stack) = "zero"
          /\ NextState(c, "c")
          /\ chain' = [Then(c, <<"advance">>) EXCEPT ![c].stack = Pop(Pop(stack))]
    /\ UNCHANGED <<evt_handlers, full, waits, life, peer, write_failed>>

(* uo_tcp_conn_send: everything is written, or a write fails               *)
Send(c) ==
    /\ Calls(c, "send")
    /\ \/ /\ chain' = Then(c, evt_handlers["after_send"] \o <<"after_send", "advance">>)
          /\ UNCHANGED <<state, call, write_failed>>
       \/ /\ WritesFail
          /\ NextState(c, "c")
          /\ chain' = [Continue(c) EXCEPT ![c].stack = Pop(chain[c].stack)]
          /\ write_failed' = TRUE
    /\ UNCHANGED <<evt_handlers, full, waits, life, peer>>

(* uo_tcp_conn_after_send: buffers and event arguments are reset           *)
AfterSendKeeps(c) ==                          \* mutation: evt_arg is not reset
    /\ Calls(c, "after_send")
    /\ chain' = Continue(c)
    /\ UNCHANGED <<evt_handlers, state, full, call, waits, life, peer, write_failed>>
AfterSend(c) ==
    /\ Calls(c, "after_send")
    /\ full' = FALSE
    /\ chain' = Continue(c)
    /\ UNCHANGED <<evt_handlers, state, call, waits, life, peer, write_failed>>

(* uo_tcp_conn_close: close(tcp_conn->sockfd)                              *)
CloseSwapped(c) ==                            \* mutation: freed before the handlers run
    /\ Calls(c, "close")
    /\ life' = "closed"
    /\ chain' = Then(c, <<"after_close">> \o evt_handlers["after_close"])
    /\ UNCHANGED <<evt_handlers, state, full, call, waits, peer, write_failed>>
Close(c) ==
    /\ Calls(c, "close")
    /\ life' = "closed"
    /\ chain' = Then(c, Append(evt_handlers["after_close"], "after_close"))
    /\ UNCHANGED <<evt_handlers, state, full, call, waits, peer, write_failed>>

(* uo_tcp_conn_after_close, uo_tcp_conn_destroy: shutdown and close of the *)
(* same number again, then everything is freed                             *)
AfterClose(c) ==
    /\ Calls(c, "after_close")
    /\ life' = "freed"
    /\ chain' = Continue(c)
    /\ UNCHANGED <<evt_handlers, state, full, call, waits, peer, write_failed>>

-----------------------------------------------------------------------------
(* uo_tcp_conn_after_recv_length_prefixed_msg: less than a length prefix,  *)
(* an incomplete message, or all of it                                     *)
LengthPrefixRecv(c) ==
    /\ Calls(c, "lp_recv")
    /\ \/ NextState(c, "c") /\ UNCHANGED full
       \/ NextState(c, "r") /\ UNCHANGED full
       \/ full' = TRUE /\ UNCHANGED <<state, call>>
    /\ chain' = Continue(c)
    /\ UNCHANGED <<evt_handlers, waits, life, peer, write_failed>>

(* uo_tcp_conn_before_send_length_prefixed_msg, and any application        *)
(* handler that makes no request                                           *)
Handler(c) ==
    /\ Calls(c, "lp_send") \/ Calls(c, "app")
    /\ chain' = Continue(c)
    /\ UNCHANGED <<evt_handlers, state, full, call, waits, life, peer, write_failed>>

(* the peer closed its end, and what it had sent was read                  *)
PeerCloses ==
    /\ peer = "open"
    /\ peer' = "closed"
    /\ UNCHANGED <<evt_handlers, state, full, chain, call, waits, life, write_failed>>

Step(c) ==
    \/ Dispatch(c) \/ EndChain(c) \/ NextStateIdle(c)
    \/ NextFunc(c, "next_r", "r") \/ NextFunc(c, "next_s", "s") \/ NextFunc(c, "next_c", "c")
    \/ Advance(c) \/ AdvanceIdle(c) \/ BeforeRecv(c) \/ ExecuteIo(c) \/ Recv(c) \/ Send(c)
    \/ AfterSend(c) \/ Close(c) \/ AfterClose(c) \/ LengthPrefixRecv(c) \/ Handler(c)

User(u) == NextStateIdle(u) \/ \E req \in Requests : UserRequest(u, req)

Next ==
    \/ \E c \in Chains : Step(c) \/ IoReady(c)
    \/ \E u \in Users : User(u)
    \/ PeerCloses

Spec == Init /\ [][Next]_vars

(* Workers run what is queued, a call that was begun goes on, and epoll    *)
(* reports the end of file once the peer closed.  Neither the peer nor the *)
(* users are obliged to do anything.                                       *)
FairSpec ==
    /\ Spec
    /\ \A c \in Chains : WF_vars(Step(c)) /\ WF_vars(peer = "closed" /\ IoReady(c))
    /\ \A u \in Users : WF_vars(NextStateIdle(u))

-----------------------------------------------------------------------------
(* What may be set up as event handlers: the cb_funcs of the options, and  *)
(* application handlers that make no request.  Before a read or a write    *)
(* nothing is requested: the operation is under way already.               *)
Events    == {"after_open", "before_recv", "after_recv", "before_send", "after_send",
              "before_close", "after_close"}
NextFuncs    == {"next_r", "next_s", "next_c"}
QuietFuncs   == {"lp_send", "app"}
HandlerFuncs == NextFuncs \cup QuietFuncs \cup {"lp_recv"}
OptionHandlers(eh) == /\ eh \in [Events -> Seq(HandlerFuncs)]
                      /\ eh["before_recv"] \in Seq(QuietFuncs)
                      /\ eh["before_send"] \in Seq(QuietFuncs)

(* a flow option was chosen: every event that has to goes on to another    *)
GoesOn(funcs) == \E i \in DOMAIN funcs : funcs[i] \in NextFuncs
FlowHandlers(eh) == /\ OptionHandlers(eh)
                    /\ GoesOn(eh["after_open"])
                    /\ GoesOn(eh["after_recv"])
                    /\ GoesOn(eh["after_send"])

(* a server's flow, with length-prefixed messages: uo_cb_prepend puts the  *)
(* length-prefix function before whatever else follows a read              *)
AfterRecvFuncs == QuietFuncs \cup {"next_s", "next_c"}
AfterSendFuncs == QuietFuncs \cup {"next_r", "next_c"}
ServerHandlers(eh) == /\ OptionHandlers(eh)
                      /\ eh["after_open"] = <<"next_r">>
                      /\ eh["after_recv"] # <<>> /\ Head(eh["after_recv"]) = "lp_recv"
                      /\ Tail(eh["after_recv"]) \in Seq(AfterRecvFuncs)
                      /\ eh["after_send"] \in Seq(AfterSendFuncs)

-----------------------------------------------------------------------------
Active == {c \in Chains : Live(c)}

(* The connection is never touched after it was freed: no callback has     *)
(* functions left and no request is under way (uo_tcp_conn.c:29,56,65,167).*)
NoUseAfterFree ==
    life = "freed" => /\ \A c \in Chains : chain[c].funcs = <<>> /\ ~chain[c].idling
                      /\ \A a \in Agents : call[a] = "none"

(* A function that is still to run finds the connection at index 0 of the  *)
(* callback's stack, whatever the I/O functions pushed and popped above it *)
(* (uo_io.c:119-177,333,342-343, uo_tcp_conn.c:124,136).                   *)
ConnAtIndexZero ==
    \A c \in Chains : chain[c].funcs # <<>> =>
        chain[c].stack # <<>> /\ Head(chain[c].stack) = "conn"

(* The stack does not grow with the messages: every operation removes what *)
(* was pushed for it.  Only a failing epoll_ctl leaves the epoll_event     *)
(* behind, and then the connection is closed (uo_io.c:119,333,340-344).    *)
StackBounded == \A c \in Chains : Len(chain[c].stack) <= 4

(* A server with length-prefixed messages sends nothing before a whole     *)
(* message was received, and waits for the next one with a clean slate: of *)
(* the requests made in after_recv the first one counts, and the event     *)
(* argument of one message does not reach the next (uo_tcp_conn.c:37,50,   *)
(* 82,308-314, uo_tcp_server.c:159,177).                                   *)
ReplyOnlyToFullMessage ==
    evt_handlers["after_open"] = <<"next_r">> =>
        \A c \in Chains :
            /\ chain[c].funcs # <<>> /\ Head(chain[c].funcs) = "send" => full
            /\ chain[c].at = "io" => ~full

(* A pending request is taken up or stays: no later request, and no chain  *)
(* about to idle, replaces it (uo_tcp_conn.c:37,169,189).                  *)
PendingRequestKept == [][(state \in Requests) => (state' \in {state, "0"})]_vars

(* A request made while a callback drives the connection is not overlooked *)
(* when that callback is just about to idle: it is taken up, unless the    *)
(* connection ends first or the callback waits for input (uo_tcp_conn.c:   *)
(* 186-191).                                                               *)
RequestNotOverlooked ==
    (state \in Requests /\ \E c \in Chains : chain[c].funcs # <<>> \/ chain[c].idling) ~>
        (state \notin Requests \/ life = "freed" \/ \E c \in Chains : chain[c].at = "io")

(* A failed write: uo_tcp_conn_send requested the close and ended its      *)
(* callback without uo_tcp_conn_advance (uo_tcp_conn.c:100-106).           *)
AbandonedByWrite == write_failed /\ state = "c" /\ Active = {}

(* A connection with a flow option is never abandoned, except by a failed  *)
(* write: as long as it is not freed exactly one callback is in charge of  *)
(* it, so that some thread or epoll will take it on, and no two ever drive *)
(* it at once (uo_tcp_conn.c:112-114,140,189-190).                         *)
AlwaysInCharge == life # "freed" => Cardinality(Active) = 1 \/ AbandonedByWrite

(* The peer closes, and the connection ends too: the end of file, a failed *)
(* read or a failed epoll_ctl leads to the close and to the release of the *)
(* connection, unless a failed write abandoned it (uo_tcp_conn.c:54-73,    *)
(* 119-143, uo_io.c:340-344).                                              *)
PeerCloseEnds == peer = "closed" ~> (life = "freed" \/ AbandonedByWrite)

(* Whoever still has something to do with the connection finds it: alive,  *)
(* and at the bottom of a stack that does not grow, whichever reads,       *)
(* writes and epoll calls failed (uo_tcp_conn.c:29,56,124, uo_io.c:342).   *)
ConnSound == TypeOK /\ NoUseAfterFree /\ ConnAtIndexZero /\ StackBounded
=============================================================================
