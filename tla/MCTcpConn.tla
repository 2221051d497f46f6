------------------------------ MODULE MCTcpConn ------------------------------
(***************************************************************************)
(* Event handlers for UoTcpConn: what the flow options of uo_tcp_server.c  *)
(* and uo_tcp_client.c install.                                            *)
(***************************************************************************)
EXTENDS UoTcpConn

NoHandlers == [e \in Events |-> <<>>]

(* uo_tcp_server_set_opt_use_flow_recv_send_repeat, with length-prefixed   *)
(* messages                                                                *)
ServerRepeat ==
    [NoHandlers EXCEPT !["after_open"]  = <<"next_r">>,
                       !["after_recv"]  = <<"lp_recv", "next_s">>,
                       !["before_send"] = <<"lp_send">>,
                       !["after_send"]  = <<"next_r">>,
                       !["after_close"] = <<"app">>]

(* uo_tcp_server_set_opt_use_flow_recv_send_close                          *)
ServerClose == [ServerRepeat EXCEPT !["after_send"] = <<"next_c">>]

(* uo_tcp_client_set_opt_use_flow_send_recv_repeat, with length-prefixed   *)
(* messages                                                                *)
ClientRepeat ==
    [NoHandlers EXCEPT !["after_open"]  = <<"next_s">>,
                       !["after_recv"]  = <<"lp_recv", "next_s">>,
                       !["before_send"] = <<"lp_send">>,
                       !["after_send"]  = <<"next_r">>]

(* uo_tcp_client_set_opt_use_flow_send_recv_close, without them            *)
ClientClose ==
    [NoHandlers EXCEPT !["after_open"] = <<"next_s">>,
                       !["after_send"] = <<"next_r">>,
                       !["after_recv"] = <<"next_c">>]

Flows  == {ServerRepeat, ServerClose, ClientRepeat, ClientClose}
Idle   == {NoHandlers}
Any    == {ServerRepeat, NoHandlers}

(* what the theorems of UoConnProofs ask of the event handlers          *)
ASSUME FlowsAssumption ==
    /\ \A eh \in Flows : FlowHandlers(eh)
    /\ \A eh \in Flows : eh["after_open"] = <<"next_r">> => ServerHandlers(eh)
    /\ \A eh \in Any : OptionHandlers(eh)
=============================================================================
