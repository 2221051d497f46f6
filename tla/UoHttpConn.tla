------------------------------ MODULE UoHttpConn ------------------------------
(***************************************************************************)
(* HTTP on a TCP connection of libuo: uo_http_msg.c, uo_http_conn.c,       *)
(* uo_http_server.c and uo_http_client.c, on top of UoTcpConn.             *)
(*                                                                         *)
(* The HTTP code is a set of event handlers of the TCP connection.  Each   *)
(* of them swaps the pointer at index 0 of the callback's stack, tcp_conn  *)
(* for http_conn or back, and prepends the functions that continue the     *)
(* event.  Received bytes pile up in rbuf, in pieces of any size, and are  *)
(* parsed again after every read.                                          *)
(*                                                                         *)
(* A byte or a piece of text without a line break is a token <<kind, n>>:  *)
(* a start line, a header with its number, a body byte, CR or LF.          *)
(***************************************************************************)
EXTENDS UoTcpConn, SequencesExt

CONSTANTS PeerMessages,  \* what the other end may send, for each role of ours
          AppMessages,   \* what the application may set as request or response, for each role
          ReqHandlers,   \* for each method, how many of the request handlers match it
          HasFileServer, \* whether static files are served
          BUF_SIZE,      \* UO_TCP_BUF_SIZE in tokens
          MaxMessages    \* bound: messages the other end sends

ASSUME BufSizeAssumption == BUF_SIZE \in Nat \ {0}

VARIABLES http,          \* the uo_http_conn: "none", "open" or "freed"
          msg,           \* the message being received: http_req of a server, http_res of a client
          out,           \* the message being composed: http_res of a server, http_req of a client
          rbuf, rsize,   \* tcp_conn->rbuf: the bytes before its ptr, and its size
          wbuf,          \* tcp_conn->wbuf
          wire,          \* sent by the other end and not read yet
          request,       \* history: the last message of the other end
          requests,      \* history: how many there were
          written        \* history: how many messages were written to the socket

http_vars == <<http, msg, out, rbuf, rsize, wbuf, wire, request, requests, written>>
all_vars  == <<vars, http_vars>>

CR    == <<"cr", 0>>
LF    == <<"lf", 0>>
None  == <<"none", 0>>
Role  == IF "s_after_open" \in ToSet(evt_handlers["after_open"]) THEN "server" ELSE "client"

(* functions that expect the http_conn at index 0, and those that expect   *)
(* the tcp_conn                                                            *)
HttpFuncs == {"pass", "process", "app_http", "s_before_send_response", "c_before_send_request",
              "s_after_send_response", "http_after_close"}
TcpFuncs  == {"s_after_open", "s_after_recv", "s_before_send", "s_after_send", "s_before_close",
              "s_after_close", "c_after_open", "c_after_recv", "c_before_send", "c_after_send",
              "c_before_close", "c_after_close"} \cup (Functions \ {"recv", "execute_io"})

-----------------------------------------------------------------------------
(* Messages to be sent: uo_http_msg_create_at with role SEND               *)
NewOut == [start |-> None, headers |-> <<>>, body |-> <<>>]

(* uo_http_res_set_status_line, uo_http_req_set_request_line               *)
SetStatusLine(o, status)  == [o EXCEPT !.start = status]
SetRequestLine(o, method) == [o EXCEPT !.start = method]

(* uo_http_msg_set_content: the headers are set only once with the content *)
SetContent(o, content) ==
    [o EXCEPT !.body = content,
              !.headers = Append(@, <<"content-length", Len(content)>>)
                          \o (IF content = <<>> THEN <<>> ELSE << <<"content-type", 0>> >>)]

(* uo_http_msg_write_to_buf                                                *)
WriteToBuf(o) ==
    <<o.start, CR, LF>> \o FoldLeft(LAMBDA s, h : s \o <<h, CR, LF>>, <<>>, o.headers)
    \o <<CR, LF>> \o o.body

ASSUME PeerMessagesAssumption ==
    \A o \in PeerMessages["server"] \cup PeerMessages["client"] :
        WriteToBuf(o) \in Seq(ToSet(WriteToBuf(o)))

-----------------------------------------------------------------------------
(* Messages being received.  temp is a union: the parsing offset, and      *)
(* later the last request handler that was tried                           *)
NewMsg == [start |-> None, headers |-> {}, body |-> <<>>, start_line |-> FALSE,
           has_headers |-> FALSE, has_body |-> FALSE, is_invalid |-> FALSE,
           temp |-> <<"offset", 0>>]

(* memchr(p, '\r', len - 1), which has to be followed by '\n'; a line that *)
(* has neither two spaces nor a known version is invalid                   *)
ParseStartLine(m, b) ==
    LET crs == {i \in 1 .. Len(b) - 1 : b[i] = CR}
        cr  == CHOOSE i \in crs : \A j \in crs : i <= j
    IN CASE crs = {} -> m
         [] crs # {} /\ b[cr + 1] # LF -> m
         [] crs # {} /\ b[cr + 1] = LF /\ b[1][1] = "bad" -> [m EXCEPT !.is_invalid = TRUE]
         [] OTHER -> [m EXCEPT !.start = b[1], !.start_line = TRUE,
                               !.temp = <<"offset", cr + 1>>]

(* strstr(headers_start - 2, "\r\n\r\n"): the blank lines it can find      *)
BlankLines(b, from) ==
    {i \in from .. Len(b) - 3 : SubSeq(b, i, i + 3) = <<CR, LF, CR, LF>>}

(* uo_strhashtbl_set of each header in turn                                *)
SetHeaders(hs, new) ==
    FoldLeft(LAMBDA s, h : {g \in s : g[1] # h[1]} \cup {h}, hs, new)

(* from the parsing offset, whatever was parsed before it                  *)
HeadersEnd(m, b) == BlankLines(b, m.temp[2] - 1)
ParseHeaders(m, b) ==
    LET ends == HeadersEnd(m, b)
        end  == CHOOSE i \in ends : \A j \in ends : i <= j
    IN IF ends = {} THEN m
       ELSE [m EXCEPT !.has_headers = TRUE, !.temp = <<"offset", end + 3>>,
                      !.headers = SetHeaders(@, SelectSeq(SubSeq(b, m.temp[2] + 1, end - 1),
                                                          LAMBDA t : t \notin {CR, LF}))]

(* requests and responses that have no body when there is no length        *)
WithoutBody == {"GET", "HEAD", "DELETE", "CONNECT", "TRACE", "100", "101", "204", "304"}

ContentLength(m) == {h[2] : h \in {g \in m.headers : g[1] = "content-length"}}

ParseBodyShort(m, b) ==                       \* mutation: the length counts from the start
    IF \E len \in ContentLength(m) : len <= Len(b)
    THEN [m EXCEPT !.body = SubSeq(b, m.temp[2] + 1, Len(b)), !.has_body = TRUE]
    ELSE m
ParseBodyStrict(m, b) ==                      \* mutation: waits for a byte after the body
    IF \E len \in ContentLength(m) : len < Len(b) - m.temp[2]
    THEN [m EXCEPT !.body = SubSeq(b, m.temp[2] + 1, Len(b)), !.has_body = TRUE]
    ELSE m
ParseBody(m, b) ==
    LET lens == ContentLength(m)
        from == m.temp[2]
    IN CASE lens # {} ->
              LET len == CHOOSE n \in lens : TRUE
              IN IF len > Len(b) - from THEN m
                 ELSE [m EXCEPT !.body = SubSeq(b, from + 1, from + len), !.has_body = TRUE,
                                !.temp = <<"offset", 0>>]
         [] lens = {} /\ m.start[1] \in WithoutBody ->
              [m EXCEPT !.has_body = TRUE, !.temp = <<"offset", 0>>]
         [] OTHER -> [m EXCEPT !.is_invalid = TRUE]

-----------------------------------------------------------------------------
HttpInit ==
    /\ Init
    /\ http = "none" /\ msg = NewMsg /\ out = NewOut
    /\ rbuf = <<>> /\ rsize = BUF_SIZE /\ wbuf = <<>>
    /\ wire = <<>> /\ request = NewOut /\ requests = 0 /\ written = 0

(* an event handler: put p at index 0 of the stack, prepend functions      *)
Swap(c, f, p, first) ==
    /\ Calls(c, f)
    /\ chain' = [chain EXCEPT ![c].funcs = first \o Rest(c), ![c].stack = Append(Pop(@), p)]
    /\ UNCHANGED <<evt_handlers, full, waits, life, peer, write_failed>>

(* a function that leaves the stack alone                                  *)
Plain(c, f, first) ==
    /\ Calls(c, f)
    /\ chain' = [chain EXCEPT ![c].funcs = first \o Rest(c)]
    /\ UNCHANGED <<evt_handlers, full, waits, life, peer, write_failed>>

NoRequest == UNCHANGED <<state, call>>

(* uo_http_conn_pass_cb_to_tcp_server, uo_http_conn_pass_cb_to_tcp_client  *)
PassCbToTcp(c) == Swap(c, "pass", "conn", <<>>) /\ NoRequest /\ UNCHANGED http_vars

(* uo_http_conn_create_for_server, uo_http_conn_create_for_client          *)
CreateHttpConn == /\ http' = "open" /\ msg' = NewMsg /\ out' = NewOut
                  /\ UNCHANGED <<rbuf, rsize, wbuf, wire, request, requests, written>>

(* uo_http_conn_reset                                                      *)
ResetHttpConn == /\ msg' = NewMsg /\ out' = NewOut
                 /\ UNCHANGED <<http, rbuf, rsize, wbuf, wire, request, requests, written>>

(* tcp_server_evt_handler_after_open and the client's                      *)
ServerAfterOpen(c) ==
    Swap(c, "s_after_open", "http", <<"app_http", "pass">>) /\ NoRequest /\ CreateHttpConn
ClientAfterOpen(c) ==
    Swap(c, "c_after_open", "http", <<"app_http", "pass">>) /\ NoRequest /\ CreateHttpConn

(* an application's handler: it may set the message to be sent, or call    *)
(* uo_http_conn_next_close                                                 *)
App(c) ==
    /\ Plain(c, "app_http", <<>>)
    /\ \/ NoRequest /\ UNCHANGED out
       \/ NoRequest /\ out.start = None /\ out' \in AppMessages[Role]
       \/ NextState(c, "c") /\ UNCHANGED out
    /\ UNCHANGED <<http, msg, rbuf, rsize, wbuf, wire, request, requests, written>>

(* a server goes on with its request handlers, from the first one          *)
Parsed(m) == IF Role = "server" THEN [m EXCEPT !.temp = <<"handler", 0>>] ELSE m

(* What server and client do with the bytes received so far: a message is  *)
(* complete, its headers are, or more has to be read                       *)
Received(c, f, complete) ==
    LET started == IF msg.start_line THEN msg ELSE ParseStartLine(msg, rbuf)
        headed  == started.start_line /\ started.has_headers
        again   == IF headed THEN ParseBody(started, rbuf) ELSE started
        parsed  == ParseBody(ParseHeaders(again, rbuf), rbuf)
    IN /\ Calls(c, f)
       /\ \/ /\ headed /\ again.has_body
             /\ Swap(c, f, "http", complete) /\ NoRequest
             /\ msg' = Parsed(again) /\ UNCHANGED rsize
          \/ /\ started.start_line /\ ~again.has_body /\ HeadersEnd(again, rbuf) # {}
             /\ \/ /\ parsed.has_body /\ NoRequest
                   /\ Swap(c, f, "http", <<"app_http">> \o complete)
                   /\ msg' = Parsed(parsed)
                \/ /\ ~parsed.has_body /\ NextState(c, "r")
                   /\ Swap(c, f, "http", <<"app_http", "pass">>)
                   /\ msg' = parsed
             /\ rsize' = IF Len(rbuf) = rsize THEN 2 * rsize ELSE rsize
          \/ /\ started.start_line /\ ~again.has_body /\ HeadersEnd(again, rbuf) = {}
             /\ Plain(c, f, <<>>) /\ NextState(c, "r") /\ msg' = again
             /\ rsize' = IF Len(rbuf) = rsize THEN 2 * rsize ELSE rsize
          \/ /\ ~started.start_line
             /\ Plain(c, f, <<>>) /\ NextState(c, "r") /\ msg' = started /\ UNCHANGED rsize
       /\ UNCHANGED <<http, out, rbuf, wbuf, wire, request, requests, written>>

ServerAfterRecvNoPass(c) ==                   \* mutation: the handlers' chain does not pass back
    Received(c, "s_after_recv", <<"app_http", "process">>)
ServerAfterRecv(c) == Received(c, "s_after_recv", <<"app_http", "process", "pass">>)
ClientAfterRecv(c) == Received(c, "c_after_recv", <<"app_http", "pass">>)

(* uo_http_server_process_req_handlers: the next handler that matches,     *)
(* until one of them has set the status line                               *)
ProcessReqHandlers(c) ==
    LET i == msg.temp[2] + 1 IN
    /\ Calls(c, "process")
    /\ \/ /\ out.start = None /\ i <= ReqHandlers[msg.start[1]]
          /\ Plain(c, "process", <<"app_http", "process">>)
          /\ msg' = [msg EXCEPT !.temp = <<"handler", i>>]
       \/ /\ out.start # None \/ i > ReqHandlers[msg.start[1]]
          /\ Plain(c, "process", <<>>) /\ UNCHANGED msg
    /\ NoRequest
    /\ UNCHANGED <<http, out, rbuf, rsize, wbuf, wire, request, requests, written>>

(* tcp_server_evt_handler_before_send and the client's                     *)
ServerBeforeSend(c) ==
    /\ Swap(c, "s_before_send", "http", <<"app_http", "s_before_send_response", "pass">>)
    /\ NoRequest /\ UNCHANGED http_vars
ClientBeforeSend(c) ==
    /\ Swap(c, "c_before_send", "http", <<"app_http", "c_before_send_request", "pass">>)
    /\ NoRequest /\ UNCHANGED http_vars

(* uo_http_server_before_send_response: nobody answered, so a file does,   *)
(* or an error                                                             *)
BeforeSendResponse(c) ==
    /\ Plain(c, "s_before_send_response", <<>>) /\ NoRequest
    /\ \/ out.start # None /\ out' = out
       \/ /\ out.start = None /\ msg.start[1] = "GET" /\ HasFileServer
          /\ \E status \in {"200", "404"} :
                out' = SetContent(SetStatusLine(out, <<status, 0>>), << <<"b", 0>> >>)
       \/ /\ out.start = None /\ ~(msg.start[1] = "GET" /\ HasFileServer)
          /\ out' = SetContent(SetStatusLine(out, <<"400", 0>>), << <<"b", 0>> >>)
    /\ wbuf' = wbuf \o WriteToBuf(out')
    /\ UNCHANGED <<http, msg, rbuf, rsize, wire, request, requests, written>>

(* uo_http_client_before_send_request: the default request                 *)
BeforeSendRequest(c) ==
    /\ Plain(c, "c_before_send_request", <<>>) /\ NoRequest
    /\ out' = IF out.start = None THEN SetRequestLine(out, <<"GET", 0>>) ELSE out
    /\ wbuf' = wbuf \o WriteToBuf(out')
    /\ UNCHANGED <<http, msg, rbuf, rsize, wire, request, requests, written>>

(* tcp_server_evt_handler_after_send: the request decides whether the      *)
(* connection is kept                                                      *)
ServerAfterSendKeeps(c) ==                    \* mutation: read after the reset of the messages
    /\ Swap(c, "s_after_send", "http", <<"app_http", "s_after_send_response", "pass">>)
    /\ NextState(c, "r") /\ UNCHANGED http_vars
ServerAfterSend(c) ==
    /\ Swap(c, "s_after_send", "http", <<"app_http", "s_after_send_response", "pass">>)
    /\ NextState(c, IF <<"connection", 0>> \in msg.headers THEN "c" ELSE "r")
    /\ UNCHANGED http_vars
ClientAfterSend(c) ==
    Swap(c, "c_after_send", "http", <<"app_http", "pass">>) /\ NoRequest /\ UNCHANGED http_vars

(* uo_http_server_after_send_response                                      *)
AfterSendResponse(c) ==
    Plain(c, "s_after_send_response", <<>>) /\ NoRequest /\ ResetHttpConn

(* tcp_server_evt_handler_before_close, _after_close, the client's, and    *)
(* what they lead to: uo_http_conn_destroy                                 *)
ServerBeforeClose(c) ==
    Swap(c, "s_before_close", "http", <<"app_http", "pass">>) /\ NoRequest /\ UNCHANGED http_vars
ClientBeforeClose(c) ==
    Swap(c, "c_before_close", "http", <<"app_http", "pass">>) /\ NoRequest /\ UNCHANGED http_vars
ServerAfterClose(c) ==
    /\ Swap(c, "s_after_close", "http", <<"app_http", "http_after_close">>)
    /\ NoRequest /\ UNCHANGED http_vars
ClientAfterClose(c) ==
    /\ Swap(c, "c_after_close", "http", <<"app_http", "http_after_close">>)
    /\ NoRequest /\ UNCHANGED http_vars
HttpAfterClose(c) ==
    /\ Swap(c, "http_after_close", "conn", <<>>) /\ NoRequest
    /\ http' = "freed"
    /\ UNCHANGED <<msg, out, rbuf, rsize, wbuf, wire, request, requests, written>>

-----------------------------------------------------------------------------
(* The steps of the TCP connection that touch its buffers                  *)

(* uo_tcp_conn_before_recv: a full buffer grows                            *)
HttpBeforeRecv(c) ==
    /\ BeforeRecv(c)
    /\ rsize' = IF Len(rbuf) = rsize THEN 2 * rsize ELSE rsize
    /\ UNCHANGED <<http, msg, out, rbuf, wbuf, wire, request, requests, written>>

(* uo_io_execute_io: read() fills rbuf with some of what has arrived.  With*)
(* no room it returns 0, which is taken for the end of the stream          *)
HttpExecuteIo(c) ==
    /\ ExecuteIo(c)
    /\ \/ /\ Top(chain'[c].stack) = "len"
          /\ \E n \in 1 .. Len(wire) :
                /\ n <= rsize - Len(rbuf)
                /\ rbuf' = rbuf \o SubSeq(wire, 1, n)
                /\ wire' = SubSeq(wire, n + 1, Len(wire))
       \/ Top(chain'[c].stack) = "zero" /\ UNCHANGED <<rbuf, wire>>
    /\ UNCHANGED <<http, msg, out, rsize, wbuf, request, requests, written>>

HttpSend(c) ==
    /\ Send(c)
    /\ written' = IF write_failed' THEN written ELSE written + 1
    /\ UNCHANGED <<http, msg, out, rbuf, rsize, wbuf, wire, request, requests>>

(* uo_tcp_conn_after_send: whatever rbuf held is dropped, wbuf is emptied  *)
HttpTcpAfterSendKeeps(c) ==                   \* mutation: the written bytes stay in wbuf
    /\ AfterSend(c) /\ rbuf' = <<>>
    /\ UNCHANGED <<http, msg, out, rsize, wbuf, wire, request, requests, written>>
HttpTcpAfterSend(c) ==
    /\ AfterSend(c)
    /\ rbuf' = <<>> /\ wbuf' = <<>>
    /\ UNCHANGED <<http, msg, out, rsize, wire, request, requests, written>>

(* epoll reports a descriptor with data, or at the end of the stream       *)
HttpIoReady(c) == IoReady(c) /\ (wire # <<>> \/ peer = "closed") /\ UNCHANGED http_vars

(* The other end is strict: it sends a request once the last one was       *)
(* answered, and a response once it was asked                              *)
PeerSends ==
    /\ peer = "open" /\ requests < MaxMessages
    /\ written = IF Role = "server" THEN requests ELSE requests + 1
    /\ request' \in PeerMessages[Role]
    /\ requests' = requests + 1
    /\ wire' = wire \o WriteToBuf(request')
    /\ UNCHANGED <<vars, http, msg, out, rbuf, rsize, wbuf, written>>

(* it may also give up in the middle of a message                          *)
PeerGivesUp ==
    /\ PeerCloses /\ wire' = <<>>
    /\ UNCHANGED <<http, msg, out, rbuf, rsize, wbuf, request, requests, written>>

TcpStep(c) ==
    /\ \/ Dispatch(c) \/ EndChain(c) \/ Advance(c) \/ Recv(c) \/ Close(c) \/ AfterClose(c)
       \/ NextFunc(c, "next_r", "r") \/ NextFunc(c, "next_s", "s") \/ NextFunc(c, "next_c", "c")
       \/ Handler(c)
    /\ UNCHANGED http_vars

HttpStep(c) ==
    \/ TcpStep(c) \/ HttpBeforeRecv(c) \/ HttpExecuteIo(c) \/ HttpSend(c) \/ HttpTcpAfterSend(c)
    \/ PassCbToTcp(c) \/ App(c) \/ ServerAfterOpen(c) \/ ClientAfterOpen(c)
    \/ ServerAfterRecv(c) \/ ClientAfterRecv(c) \/ ProcessReqHandlers(c)
    \/ ServerBeforeSend(c) \/ ClientBeforeSend(c) \/ BeforeSendResponse(c) \/ BeforeSendRequest(c)
    \/ ServerAfterSend(c) \/ ClientAfterSend(c) \/ AfterSendResponse(c)
    \/ ServerBeforeClose(c) \/ ClientBeforeClose(c) \/ ServerAfterClose(c) \/ ClientAfterClose(c)
    \/ HttpAfterClose(c)

HttpNext ==
    \/ \E c \in Chains : HttpStep(c) \/ HttpIoReady(c)
    \/ PeerSends \/ PeerGivesUp

(* Workers run what is queued and epoll reports what has arrived; the      *)
(* other end need not do anything.                                         *)
HttpSpec ==
    /\ HttpInit /\ [][HttpNext]_all_vars
    /\ \A c \in Chains : WF_all_vars(HttpStep(c)) /\ WF_all_vars(HttpIoReady(c))

-----------------------------------------------------------------------------
(* What may be set up as event handlers: what a server or client of HTTP   *)
(* installs, first or last, with flow options and handlers of the          *)
(* application.  Before a read or a write nothing is requested, and after  *)
(* a read not another one.                                                 *)
HttpFlow  == NextFuncs \cup {"app"}
RecvFlow  == HttpFlow \ {"next_r"}
SwapsAtEvents(eh, open, recv, send, sent, close, closed) ==
    /\ eh \in [Events -> Seq(TcpFuncs)]
    /\ eh["after_open"] # <<>> /\ Head(eh["after_open"]) = open
    /\ Tail(eh["after_open"]) \in Seq(HttpFlow)
    /\ eh["before_recv"] \in Seq({"app"})
    /\ eh["after_recv"] # <<>> /\ Head(eh["after_recv"]) = recv
    /\ Tail(eh["after_recv"]) \in Seq(RecvFlow)
    /\ eh["before_send"] \in Seq({send, "app"})
    /\ eh["after_send"] # <<>> /\ Head(eh["after_send"]) = sent
    /\ Tail(eh["after_send"]) \in Seq(HttpFlow)
    /\ eh["before_close"] \in Seq(HttpFlow \cup {close})
    /\ eh["after_close"] # <<>> /\ Top(eh["after_close"]) = closed
    /\ Pop(eh["after_close"]) \in Seq({"app"})
HttpServerHandlers(eh) ==
    SwapsAtEvents(eh, "s_after_open", "s_after_recv", "s_before_send", "s_after_send",
                  "s_before_close", "s_after_close")
HttpClientHandlers(eh) ==
    SwapsAtEvents(eh, "c_after_open", "c_after_recv", "c_before_send", "c_after_send",
                  "c_before_close", "c_after_close")

-----------------------------------------------------------------------------
HttpTypeOK ==
    /\ http \in {"none", "open", "freed"}
    /\ msg.temp \in {"offset", "handler"} \X Nat
    /\ msg.temp[1] = "offset" => msg.temp[2] <= Len(rbuf)
    /\ Len(rbuf) <= rsize
    /\ \A c \in Chains : chain[c].at = "io" => Len(rbuf) < rsize   \* never a read of no bytes

(* Every function finds the connection it expects at index 0 of the stack, *)
(* the HTTP or the TCP one, although each event swaps them and is          *)
(* continued by functions of both kinds (uo_http_server.c:19-21,79,90,     *)
(* 183-193, uo_http_client.c:20-22,88-97).                                 *)
TopFits ==
    \A c \in Chains : chain[c].funcs # <<>> =>
        LET f == Head(chain[c].funcs)
            p == Head(chain[c].stack)
        IN (f \in HttpFuncs => p = "http") /\ (f \in TcpFuncs => p = "conn")

(* The http_conn is there whenever one of its functions runs, and is gone  *)
(* when the tcp_conn is freed: created in after_open and destroyed in      *)
(* after_close, on every way to the end (uo_http_server.c:33,223).         *)
HttpConnLives ==
    /\ \A c \in Chains : chain[c].funcs # <<>> /\ Head(chain[c].stack) = "http" => http = "open"
    /\ life = "freed" => http = "freed"

(* The parse functions never take a request handler for an offset: the two *)
(* share a union (uo_http_msg.h:70-74, uo_http_server.c:181,189,198).      *)
TempIsOffset ==
    \A c \in Chains : chain[c].funcs # <<>> /\ Head(chain[c].funcs) \in {"s_after_recv", "c_after_recv"}
        => msg.temp[1] = "offset"

(* strstr starts two bytes before the offset, so that a body that brings   *)
(* or completes a blank line is taken for headers when it arrives in parts *)
BlankLineIn(body) == BlankLines(<<CR, LF>> \o body, 1) # {}

(* "request is fully parsed" (uo_http_server.c:180,197): however a message *)
(* was cut into reads, what is handed on is the start line and the body    *)
(* the other end sent, and never a part of them; except for a body with a  *)
(* blank line (uo_http_msg.c:435, uo_http_server.c:178,189).               *)
DeliveredAsSent ==
    [][(msg'.has_body /\ ~msg.has_body) =>
          /\ msg'.start = request.start
          /\ msg'.body = request.body \/ BlankLineIn(request.body)]_all_vars

(* What a server or client writes is one whole message, and one that the   *)
(* receiving side of the same code accepts; the k-th response answers the  *)
(* k-th request (uo_tcp_conn.c:80-81, uo_http_conn.c:63-86,                *)
(* uo_http_msg.c:555-586).                                                 *)
WrittenIsWhole ==
    [][written' # written =>
          LET m == ParseBody(ParseHeaders(ParseStartLine(NewMsg, wbuf), wbuf), wbuf)
          IN /\ m.has_body
             /\ wbuf = WriteToBuf([start |-> m.start, body |-> m.body,
                                   headers |-> SelectSeq(wbuf, LAMBDA t : t \in m.headers)])
             /\ Role = "server" => written' = requests /\ msg.start = request.start]_all_vars

(* A message that is sent in full is acted upon: the server writes a       *)
(* response, the client ends the connection; unless the message is invalid *)
(* or has a body with a blank line, which stall the connection, or the     *)
(* connection ends or was abandoned by a failed write                      *)
(* (uo_http_server.c:204,209,212, uo_http_msg.c:545).                      *)
Stalls(m) ==
    \/ m.start[1] = "bad"
    \/ BlankLineIn(m.body)
    \/ m.start[1] \notin WithoutBody /\ m.headers = <<>>
Answered ==
    (requests > 0 /\ ~Stalls(request)) ~>
        (written >= requests /\ Role = "server") \/ life = "freed" \/ AbandonedByWrite

(* A request with "connection: close" is the last one: once it is answered *)
(* the server closes, although the request was reset by then               *)
(* (uo_http_server.c:82-88,71).                                            *)
CloseHonoured ==
    (Role = "server" /\ written = requests /\ <<"connection", 0>> \in ToSet(request.headers)) ~>
        (life = "freed" \/ AbandonedByWrite)

(* Every function of an event finds what it works on: the connection it    *)
(* expects, alive, the parsing offset and not a request handler, and room  *)
(* in the buffer it reads into (uo_http_server.c:19-33,181-198,            *)
(* uo_http_msg.h:72-76, uo_tcp_conn.c:150-155).                            *)
HttpConnSound == HttpTypeOK /\ TopFits /\ HttpConnLives /\ TempIsOffset
=============================================================================
