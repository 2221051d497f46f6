------------------------------ MODULE MCHttpConn ------------------------------
(***************************************************************************)
(* Messages and event handlers for UoHttpConn: what uo_http_server_create  *)
(* and uo_http_client_create install before the flow options.              *)
(***************************************************************************)
EXTENDS UoHttpConn

HttpServer ==
    [after_open   |-> <<"s_after_open", "next_r">>,
     before_recv  |-> <<>>,
     after_recv   |-> <<"s_after_recv", "next_s">>,
     before_send  |-> <<"s_before_send">>,
     after_send   |-> <<"s_after_send", "next_r">>,
     before_close |-> <<"s_before_close">>,
     after_close  |-> <<"app", "s_after_close">>]

HttpClient ==
    [after_open   |-> <<"c_after_open", "next_s">>,
     before_recv  |-> <<>>,
     after_recv   |-> <<"c_after_recv", "next_c">>,
     before_send  |-> <<"c_before_send">>,
     after_send   |-> <<"c_after_send", "next_r">>,
     before_close |-> <<"c_before_close">>,
     after_close  |-> <<"c_after_close">>]

MCHandlers == {HttpServer, HttpClient}

(* what the theorem HttpConnIsSound asks of the event handlers             *)
ASSUME HandlersAssumption ==
    \A eh \in MCHandlers : HttpServerHandlers(eh) \/ HttpClientHandlers(eh)

Message(start, headers, body) ==
    LET o == [NewOut EXCEPT !.start = <<start, 0>>, !.headers = headers]
    IN IF body = <<>> THEN o ELSE SetContent(o, body)

B == <<"b", 0>>
D == <<"d", 0>>
Closing == << <<"connection", 0>> >>

(* without and with headers and bodies, a body with a blank line, a        *)
(* request without the length it needs, and a line that is no start line   *)
MCPeerMessages ==
    [server |-> {Message("GET", <<>>, <<>>),
                 Message("POST", <<>>, <<B, D>>), Message("PUT", Closing, <<D>>),
                 Message("POST", <<>>, <<B, CR, LF, CR, LF, D>>),
                 Message("POST", <<>>, <<>>), Message("bad", <<>>, <<>>)},
     client |-> {Message("204", <<>>, <<>>), Message("200", <<>>, <<B, D>>),
                 Message("200", <<>>, <<>>), Message("bad", <<>>, <<>>)}]

MCAppMessages ==
    [server |-> {Message("204", <<>>, <<>>), Message("200", <<>>, <<D>>)},
     client |-> {Message("POST", <<>>, <<B>>)}]

MCReqHandlers == [GET |-> 0, POST |-> 2, PUT |-> 1]
=============================================================================
