--------------------------- MODULE UoConnProofs ---------------------------
(***************************************************************************)
(* Proofs about a connection, in two layers.                               *)
(*                                                                         *)
(* UoTcpConn, for any number of callbacks, any event handlers of the       *)
(* classes OptionHandlers, FlowHandlers and ServerHandlers, and any        *)
(* failures of reads, writes and epoll_ctl.  PendingRequestKept holds      *)
(* whatever the handlers are and however many threads request operations.  *)
(* The other theorems about it are about a connection whose requests come  *)
(* from its own handlers (Users = {}).                                     *)
(*                                                                         *)
(* UoHttpConn, for any messages the other end sends, any sizes of buffer   *)
(* and pieces, any failures of reads and writes, and event handlers as     *)
(* uo_http_server_create and uo_http_client_create install them with any   *)
(* flow options.                                                           *)
(***************************************************************************)
EXTENDS UoHttpConn, NaturalFacts, FiniteSetTheorems, SequenceTheorems, TLAPS


-----------------------------------------------------------------------------
(* The callback that drives the connection is a record r.  It has          *)
(* functions of an event handler, h, left to run, and then the functions t *)
(* that uo_tcp_conn.c appended to them: which operation the connection is  *)
(* in is told by t alone.  What is known of the rest of the state depends  *)
(* on the operation.                                                       *)
Record == [at : {"none", "queued", "run", "io"}, funcs : Seq(Functions),
           stack : Seq(Pointers), idling : BOOLEAN]

Advancing == {<<"advance">>, <<"after_send", "advance">>}
Tails     == Advancing \cup {<<"before_recv">>, <<"recv">>, <<"execute_io", "recv">>,
                             <<"send">>, <<"close">>, <<"after_close">>}

(* where the callback is, and what is on its stack                         *)
Placed(r, h, t, st, lf) ==
    \/ /\ t \in Advancing /\ r.at \in {"queued", "run"} /\ lf = "open"
       /\ \/ r.stack = <<"conn">>
          \/ r.stack = <<"conn", "epevt">> /\ h = <<>> /\ t = <<"advance">> /\ st = "c"
    \/ /\ t \in {<<"before_recv">>, <<"send">>} /\ h \in Seq(QuietFuncs)
       /\ r.at = "run" /\ r.stack = <<"conn">> /\ st = "0" /\ lf = "open"
    \/ /\ t = <<"recv">> /\ h = <<>> /\ st = "0" /\ lf = "open"
       /\ \/ r.at = "io" /\ r.stack = <<"conn", "epevt">>
          \/ /\ r.at \in {"queued", "run"}
             /\ r.stack \in {<<"conn", "len">>, <<"conn", "err", "zero">>,
                             <<"conn", "epevt", "err", "zero">>}
    \/ /\ t = <<"execute_io", "recv">> /\ h = <<>> /\ st = "0" /\ lf = "open"
       /\ r.at \in {"queued", "run"} /\ r.stack = <<"conn", "epevt">>
    \/ /\ t = <<"close">> /\ r.at = "run" /\ lf = "open"
       /\ r.stack \in {<<"conn">>, <<"conn", "epevt">>}
    \/ /\ t = <<"after_close">> /\ r.at = "run" /\ lf = "closed"
       /\ r.stack \in {<<"conn">>, <<"conn", "epevt">>}

(* whether a whole message was received, while a server's handlers run     *)
Served(h, t, st, fl) ==
    /\ t = <<"send">> => fl
    /\ t \in {<<"before_recv">>, <<"recv">>, <<"execute_io", "recv">>} => ~fl
    /\ t = <<"after_send", "advance">> => h \in Seq(AfterSendFuncs) /\ st # "s"
    /\ t = <<"advance">> =>
          /\ (st = "s" => fl) /\ (st = "r" => ~fl)
          /\ \/ /\ st = "0" /\ ~fl
                /\ h # <<>> /\ Head(h) = "lp_recv" /\ Tail(h) \in Seq(AfterRecvFuncs)
             \/ h \in Seq(AfterRecvFuncs) /\ (st = "0" => fl)
             \/ h \in Seq(AfterSendFuncs) /\ ~fl /\ st # "s"

Driving(r, h, t, eh, st, fl, lf) ==
    /\ r.funcs = h \o t /\ ~r.idling /\ st # "i"
    /\ Placed(r, h, t, st, lf)
    /\ FlowHandlers(eh) /\ t \in Advancing => st \in Requests \/ GoesOn(h)
    /\ ServerHandlers(eh) => Served(h, t, st, fl)

(* the callback has run all of its functions                               *)
Done(r, st, lf) ==
    /\ r.funcs = <<>> /\ r.at = "run"
    /\ r.stack \in {<<>>, <<"conn">>, <<"conn", "epevt">>}
    /\ r.idling => st = "0" /\ lf = "open" /\ r.stack = <<"conn">>

(* why a connection with a flow option may have nobody to drive it         *)
Excused(eh, st, lf, wf) == FlowHandlers(eh) => lf = "freed" \/ (wf /\ st = "c")

Charged(r, eh, st, fl, lf, wf) ==
    /\ r \in Record
    /\ \/ \E h \in Seq(HandlerFuncs), t \in Tails : Driving(r, h, t, eh, st, fl, lf)
       \/ Done(r, st, lf) /\ (FlowHandlers(eh) => ~r.idling) /\ Excused(eh, st, lf, wf)

(* At most one callback is live, and it is as described.                   *)
InCharge ==
    \/ \E c \in Chains : /\ \A d \in Chains : d # c => chain[d] = NoChain
                         /\ Charged(chain[c], evt_handlers, state, full, life, write_failed)
    \/ /\ \A d \in Chains : chain[d] = NoChain
       /\ Excused(evt_handlers, state, life, write_failed)

ConnInv ==
    /\ evt_handlers \in Handlers
    /\ state \in {"0", "i"} \cup Requests /\ full \in BOOLEAN
    /\ life \in {"open", "closed", "freed"} /\ peer \in {"open", "closed"}
    /\ write_failed \in BOOLEAN
    /\ chain \in [Chains -> Record]
    /\ call = [a \in Agents |-> "none"] /\ waits = [a \in Agents |-> {}]
    /\ InCharge

-----------------------------------------------------------------------------
(* uo_cb_invoke takes the functions of the handler first, then those that  *)
(* uo_tcp_conn.c appended.                                                 *)
LEMMA HandlerFront ==
    ASSUME NEW h \in Seq(HandlerFuncs), NEW t \in Tails
    PROVE  /\ h \o t \in Seq(Functions) /\ h \o t # <<>>
           /\ h = <<>> => h \o t = t
           /\ h # <<>> => /\ Head(h \o t) = Head(h) /\ Tail(h \o t) = Tail(h) \o t
                          /\ Head(h) \in HandlerFuncs /\ Tail(h) \in Seq(HandlerFuncs)
<1>1. h \in Seq(Functions)
  <2> HandlerFuncs \subseteq Functions
    BY DEF HandlerFuncs, NextFuncs, QuietFuncs, Functions
  <2> QED
    BY SeqMonotonic
<1>2. t \in Seq(Functions) /\ t # <<>>
  <2>1. \A f, g \in Functions : /\ <<f>> \in Seq(Functions) /\ <<f>> # <<>>
                                /\ <<f, g>> \in Seq(Functions) /\ <<f, g>> # <<>>
    OBVIOUS
  <2>2. {"advance", "after_send", "before_recv", "recv", "execute_io", "send", "close",
         "after_close"} \subseteq Functions
    BY DEF Functions
  <2>3. \E f, g \in Functions : t = <<f>> \/ t = <<f, g>>
    BY <2>2 DEF Tails, Advancing
  <2> QED
    BY <2>1, <2>3
<1>3. h \o t \in Seq(Functions) /\ h \o t # <<>>
  BY <1>1, <1>2, ConcatProperties, ConcatEqualIffEmpty
<1>4. h = <<>> => h \o t = t
  BY <1>2, ConcatEmptySeq
<1>5. ASSUME h # <<>>
      PROVE  Head(h) \in HandlerFuncs /\ Tail(h) \in Seq(HandlerFuncs)
  BY <1>5, HeadTailProperties
<1>6. ASSUME h # <<>>
      PROVE  Head(h \o t) = Head(h) /\ Tail(h \o t) = Tail(h) \o t
  BY <1>1, <1>2, <1>6
<1> QED
  BY <1>3, <1>4, <1>5, <1>6

(* A handler with functions of a set S left, after the first of them ran.  *)
LEMMA TailIn ==
    ASSUME NEW S, NEW h \in Seq(S), h # <<>>
    PROVE  Tail(h) \in Seq(S) /\ Head(h) \in S
BY HeadTailProperties

(* A request of the handler is the first function, or still to come.       *)
LEMMA GoesOnTail ==
    ASSUME NEW h \in Seq(HandlerFuncs), h # <<>>, GoesOn(h), Head(h) \notin NextFuncs
    PROVE  GoesOn(Tail(h))
<1>1. PICK i \in 1 .. Len(h) : h[i] \in NextFuncs
  BY DEF GoesOn
<1>2. i # 1
  BY <1>1
<1>3. i - 1 \in 1 .. Len(Tail(h)) /\ Tail(h)[i - 1] = h[i]
  BY <1>1, <1>2
<1>4. i - 1 \in DOMAIN Tail(h)
  BY <1>3, TailIn, LenProperties
<1> QED
  BY <1>1, <1>3, <1>4 DEF GoesOn

-----------------------------------------------------------------------------
(* What a function of a handler does to the request and to the event       *)
(* argument, when the connection is not idle.                              *)
Requested(st, req) == IF st = "0" THEN req ELSE st
Effect(f, st, fl, st2, fl2) ==
    \/ f \in QuietFuncs /\ st2 = st /\ fl2 = fl
    \/ f = "next_r" /\ st2 = Requested(st, "r") /\ fl2 = fl
    \/ f = "next_s" /\ st2 = Requested(st, "s") /\ fl2 = fl
    \/ f = "next_c" /\ st2 = Requested(st, "c") /\ fl2 = fl
    \/ f = "lp_recv" /\ st2 = Requested(st, "c") /\ fl2 = fl
    \/ f = "lp_recv" /\ st2 = Requested(st, "r") /\ fl2 = fl
    \/ f = "lp_recv" /\ st2 = st /\ fl2 = TRUE

(* A function of a handler leaves the callback in the same operation.      *)
LEMMA HandlerStep ==
    ASSUME NEW h \in Seq(HandlerFuncs), NEW t \in Tails, h # <<>>,
           NEW r \in Record, r.at = "run", NEW eh, NEW lf,
           NEW st \in {"0", "i"} \cup Requests, NEW fl \in BOOLEAN,
           NEW st2, NEW fl2, Effect(Head(h), st, fl, st2, fl2),
           Driving(r, h, t, eh, st, fl, lf)
    PROVE  /\ [r EXCEPT !.funcs = Tail(h) \o t] \in Record
           /\ Driving([r EXCEPT !.funcs = Tail(h) \o t], Tail(h), t, eh, st2, fl2, lf)
<1> DEFINE r2 == [r EXCEPT !.funcs = Tail(h) \o t]
<1>1. Tail(h) \in Seq(HandlerFuncs) /\ Tail(h) \o t \in Seq(Functions)
  BY HandlerFront
<1>2. r2 \in Record /\ r2.funcs = Tail(h) \o t /\ r2.at = r.at /\ r2.stack = r.stack
      /\ r2.idling = r.idling
  BY <1>1 DEF Record
<1>3. st2 # "i" /\ (st \in Requests => st2 = st)
  BY DEF Driving, Effect, Requested, Requests
<1>4. ASSUME h \in Seq(QuietFuncs) PROVE Tail(h) \in Seq(QuietFuncs) /\ st2 = st
  <2>1. Tail(h) \in Seq(QuietFuncs) /\ Head(h) \in QuietFuncs
    BY <1>4, TailIn
  <2> QED
    BY <2>1 DEF Effect, QuietFuncs
<1>5. Placed(r2, Tail(h), t, st2, lf)
  <2>1. Placed(r, h, t, st, lf)
    BY DEF Driving
  <2> QED
    BY <1>2, <1>4, <2>1 DEF Placed, Advancing
<1>6. ASSUME FlowHandlers(eh), t \in Advancing PROVE st2 \in Requests \/ GoesOn(Tail(h))
  <2>1. st \in Requests \/ GoesOn(h)
    BY <1>6 DEF Driving
  <2>2. CASE st \in Requests
    BY <1>3, <2>2
  <2>3. CASE Head(h) \notin NextFuncs /\ GoesOn(h)
    BY <2>3, GoesOnTail
  <2>4. CASE Head(h) \in NextFuncs /\ st \notin Requests
    <3>1. st = "0"
      BY <2>4 DEF Driving
    <3> QED
      BY <2>4, <3>1 DEF Effect, Requested, NextFuncs, QuietFuncs, Requests
  <2> QED
    BY <2>1, <2>2, <2>3, <2>4
<1>7. ASSUME ServerHandlers(eh) PROVE Served(Tail(h), t, st2, fl2)
  <2>1. Served(h, t, st, fl)
    BY <1>7 DEF Driving
  <2>2. ASSUME h \in Seq(AfterSendFuncs), st # "s"
        PROVE  Tail(h) \in Seq(AfterSendFuncs) /\ st2 # "s" /\ fl2 = fl
    <3>1. Tail(h) \in Seq(AfterSendFuncs) /\ Head(h) \in AfterSendFuncs
      BY <2>2, TailIn
    <3> QED
      BY <2>2, <3>1 DEF Effect, Requested, AfterSendFuncs, QuietFuncs
  <2>3. ASSUME h \in Seq(AfterRecvFuncs)
        PROVE  /\ Tail(h) \in Seq(AfterRecvFuncs) /\ fl2 = fl
               /\ st2 = st \/ (st = "0" /\ st2 \in {"s", "c"})
    <3>1. Tail(h) \in Seq(AfterRecvFuncs) /\ Head(h) \in AfterRecvFuncs
      BY <2>3, TailIn
    <3> QED
      BY <2>3, <3>1 DEF Effect, Requested, AfterRecvFuncs, QuietFuncs
  <2>4. CASE t \in {<<"before_recv">>, <<"send">>}
    <3>1. h \in Seq(QuietFuncs)
      BY <2>4 DEF Driving, Placed, Advancing
    <3>2. Head(h) \in QuietFuncs
      BY <3>1, TailIn
    <3>3. fl2 = fl
      BY <3>2 DEF Effect, QuietFuncs
    <3> QED
      BY <2>1, <2>4, <3>3 DEF Served
  <2>5. CASE t \in {<<"recv">>, <<"execute_io", "recv">>}
    BY <2>5 DEF Driving, Placed, Advancing
  <2>6. CASE t \in {<<"close">>, <<"after_close">>}
    BY <2>6 DEF Served
  <2>7. CASE t = <<"after_send", "advance">>
    BY <2>1, <2>2, <2>7 DEF Served
  <2>8. CASE t = <<"advance">>
    <3>1. CASE h \in Seq(AfterSendFuncs) /\ ~fl /\ st # "s"
      BY <2>1, <2>2, <2>8, <3>1 DEF Served
    <3>2. CASE h \in Seq(AfterRecvFuncs) /\ (st = "0" => fl)
      BY <2>1, <2>3, <2>8, <3>2 DEF Served
    <3>3. CASE /\ st = "0" /\ ~fl
               /\ Head(h) = "lp_recv" /\ Tail(h) \in Seq(AfterRecvFuncs)
      <4>1. \/ st2 \in {"r", "c"} /\ ~fl2
            \/ st2 = "0" /\ fl2
        BY <3>3 DEF Effect, Requested, QuietFuncs
      <4> QED
        BY <2>8, <3>3, <4>1 DEF Served
    <3> QED
      BY <2>1, <2>8, <3>1, <3>2, <3>3 DEF Served
  <2> QED
    BY <2>4, <2>5, <2>6, <2>7, <2>8 DEF Tails, Advancing
<1> QED
  BY <1>2, <1>3, <1>5, <1>6, <1>7 DEF Driving

-----------------------------------------------------------------------------
(* The parameters of the theorems: requests come from the handlers alone.  *)
OwnRequests == Users = {} /\ \A eh \in Handlers : OptionHandlers(eh)

OthersOver(c) == \A d \in Chains : d # c => chain[d] = NoChain

(* The callback that runs is the one in charge.                            *)
LEMMA RunsInCharge ==
    ASSUME ConnInv, NEW c \in Chains, chain[c] # NoChain
    PROVE  OthersOver(c) /\ Charged(chain[c], evt_handlers, state, full, life, write_failed)
BY DEF ConnInv, InCharge, OthersOver

(* uo_cb_invoke is about to call f: a function of the handler, or one of   *)
(* uo_tcp_conn.c once the handler has run.                                 *)
LEMMA Called ==
    ASSUME ConnInv, NEW c \in Chains, NEW f, Calls(c, f)
    PROVE  /\ OthersOver(c) /\ chain[c] \in Record /\ chain[c].at = "run"
           /\ Rest(c) \in Seq(Functions)
           /\ \E h \in Seq(HandlerFuncs), t \in Tails :
                 /\ Driving(chain[c], h, t, evt_handlers, state, full, life)
                 /\ \/ /\ h # <<>> /\ f = Head(h) /\ f \in HandlerFuncs
                       /\ Tail(h) \in Seq(HandlerFuncs) /\ Rest(c) = Tail(h) \o t
                    \/ h = <<>> /\ f = Head(t) /\ Rest(c) = Tail(t)
<1>1. chain[c] # NoChain /\ chain[c].at = "run" /\ chain[c].funcs # <<>>
  BY DEF Calls, NoChain
<1>2. OthersOver(c) /\ Charged(chain[c], evt_handlers, state, full, life, write_failed)
  BY <1>1, RunsInCharge
<1>3. PICK h \in Seq(HandlerFuncs), t \in Tails :
             Driving(chain[c], h, t, evt_handlers, state, full, life)
  BY <1>1, <1>2 DEF Charged, Done
<1>4. chain[c].funcs = h \o t
  BY <1>3 DEF Driving
<1>5. Rest(c) \in Seq(Functions)
  BY <1>1, <1>2, TailIn DEF Rest, Charged, Record
<1>6. CASE h # <<>>
  <2>1. /\ Head(h \o t) = Head(h) /\ Tail(h \o t) = Tail(h) \o t
        /\ Head(h) \in HandlerFuncs /\ Tail(h) \in Seq(HandlerFuncs)
    BY <1>6, HandlerFront
  <2>2. f = Head(h) /\ Rest(c) = Tail(h) \o t
    BY <1>4, <2>1 DEF Calls, Rest
  <2> QED
    BY <1>1, <1>2, <1>3, <1>5, <1>6, <2>1, <2>2 DEF Charged
<1>7. CASE h = <<>>
  BY <1>1, <1>2, <1>3, <1>4, <1>5, <1>7, HandlerFront DEF Calls, Rest, Charged
<1> QED
  BY <1>6, <1>7

(* A function of a handler runs while handler functions are at the front of *)
(* the list.                                                               *)
LEMMA CalledByHandler ==
    ASSUME ConnInv, NEW c \in Chains, NEW f \in HandlerFuncs, Calls(c, f)
    PROVE  \E h \in Seq(HandlerFuncs), t \in Tails :
              /\ Driving(chain[c], h, t, evt_handlers, state, full, life)
              /\ h # <<>> /\ f = Head(h) /\ Tail(h) \in Seq(HandlerFuncs)
              /\ Rest(c) = Tail(h) \o t
<1>1. \A t \in Tails : Head(t) \notin HandlerFuncs
  BY DEF Tails, Advancing, HandlerFuncs, NextFuncs, QuietFuncs
<1> QED
  BY <1>1, Called

(* Any other function runs when no function of a handler is left before it. *)
LEMMA CalledByConn ==
    ASSUME ConnInv, NEW c \in Chains, NEW f, f \notin HandlerFuncs, Calls(c, f)
    PROVE  \E t \in Tails :
              /\ Driving(chain[c], <<>>, t, evt_handlers, state, full, life)
              /\ f = Head(t) /\ Rest(c) = Tail(t)
BY Called

(* What has to be shown of a step of the callback c.                       *)
LEMMA StaysInCharge ==
    ASSUME ConnInv, NEW c \in Chains, OthersOver(c), NEW r,
           chain' = [chain EXCEPT ![c] = r],
           Charged(r, evt_handlers, state', full', life', write_failed'),
           evt_handlers' = evt_handlers, state' \in {"0", "i"} \cup Requests,
           full' \in BOOLEAN, life' \in {"open", "closed", "freed"}, peer' = peer,
           write_failed' \in BOOLEAN, call' = call,
           waits' = waits \/ waits' = [a \in Agents |-> waits[a] \ {c}]
    PROVE  ConnInv'
<1>1. r \in Record
  BY DEF Charged
<1>2. chain' \in [Chains -> Record] /\ chain'[c] = r
      /\ \A d \in Chains : d # c => chain'[d] = NoChain
  BY <1>1 DEF ConnInv, OthersOver
<1>3. InCharge'
  BY <1>2 DEF InCharge
<1>4. waits' = [a \in Agents |-> {}]
  BY DEF ConnInv
<1> QED
  BY <1>2, <1>3, <1>4 DEF ConnInv

(* A function of a handler keeps the invariant.                            *)
LEMMA HandlerKeeps ==
    ASSUME ConnInv, NEW c \in Chains, NEW f \in HandlerFuncs, Calls(c, f),
           Effect(f, state, full, state', full'), chain' = Continue(c),
           UNCHANGED <<evt_handlers, call, waits, life, peer, write_failed>>
    PROVE  ConnInv'
<1>1. /\ OthersOver(c) /\ chain[c] \in Record /\ chain[c].at = "run"
      /\ Rest(c) \in Seq(Functions)
  BY Called
<1>2. PICK h \in Seq(HandlerFuncs), t \in Tails :
         /\ Driving(chain[c], h, t, evt_handlers, state, full, life)
         /\ h # <<>> /\ f = Head(h) /\ Tail(h) \in Seq(HandlerFuncs)
         /\ Rest(c) = Tail(h) \o t
  BY CalledByHandler
<1> DEFINE r == [chain[c] EXCEPT !.funcs = Tail(h) \o t]
<1>3. chain' = [chain EXCEPT ![c] = r]
  <2>1. Rest(c) \o <<>> = Rest(c)
    BY <1>1, ConcatEmptySeq
  <2> QED
    BY <1>2, <2>1 DEF Continue, Then
<1>4. state \in {"0", "i"} \cup Requests /\ full \in BOOLEAN
  BY DEF ConnInv
<1>5. r \in Record /\ Driving(r, Tail(h), t, evt_handlers, state', full', life)
  BY <1>1, <1>2, <1>4, HandlerStep
<1>6. Charged(r, evt_handlers, state', full', life', write_failed')
  BY <1>2, <1>5 DEF Charged
<1>7. state' \in {"0", "i"} \cup Requests /\ full' \in BOOLEAN
  BY <1>4 DEF Effect, Requested, Requests
<1>8. life' \in {"open", "closed", "freed"} /\ write_failed' \in BOOLEAN
  BY DEF ConnInv
<1> HIDE DEF r
<1> QED
  BY <1>1, <1>3, <1>6, <1>7, <1>8, StaysInCharge

(* The next function of uo_tcp_conn.c tells the operation.                 *)
LEMMA TailsByHead ==
    ASSUME NEW t \in Tails
    PROVE  /\ Head(t) = "advance" => t = <<"advance">> /\ Tail(t) = <<>>
           /\ Head(t) = "after_send" => t = <<"after_send", "advance">> /\ Tail(t) = <<"advance">>
           /\ Head(t) = "before_recv" => t = <<"before_recv">> /\ Tail(t) = <<>>
           /\ Head(t) = "recv" => t = <<"recv">> /\ Tail(t) = <<>>
           /\ Head(t) = "execute_io" => t = <<"execute_io", "recv">> /\ Tail(t) = <<"recv">>
           /\ Head(t) = "send" => t = <<"send">> /\ Tail(t) = <<>>
           /\ Head(t) = "close" => t = <<"close">> /\ Tail(t) = <<>>
           /\ Head(t) = "after_close" => t = <<"after_close">> /\ Tail(t) = <<>>
<1>1. \A f, g : /\ Head(<<f>>) = f /\ Tail(<<f>>) = <<>>
                /\ Head(<<f, g>>) = f /\ Tail(<<f, g>>) = <<g>>
  OBVIOUS
<1>2. CASE \E f \in {"advance", "before_recv", "recv", "send", "close", "after_close"} : t = <<f>>
  BY <1>1, <1>2
<1>3. CASE t = <<"after_send", "advance">>
  BY <1>1, <1>3
<1>4. CASE t = <<"execute_io", "recv">>
  BY <1>1, <1>4
<1> QED
  BY <1>2, <1>3, <1>4 DEF Tails, Advancing

(* Functions appended to an empty list are all there is left.              *)
LEMMA Appended ==
    ASSUME NEW h \in Seq(HandlerFuncs), NEW f, <<f>> \in Tails
    PROVE  /\ Append(h, f) = h \o <<f>> /\ <<>> \o Append(h, f) = h \o <<f>>
           /\ h \o <<f>> \in Seq(Functions)
<1>1. h \in Seq(HandlerFuncs \cup {f})
  BY SeqMonotonic
<1>2. Append(h, f) = h \o <<f>> /\ Append(h, f) \in Seq(HandlerFuncs \cup {f})
  BY <1>1, AppendIsConcat, AppendProperties
<1>3. <<>> \o Append(h, f) = Append(h, f)
  BY <1>2, ConcatEmptySeq
<1> QED
  BY <1>2, <1>3, HandlerFront

(* Concatenation of short tuples.                                          *)
LEMMA Tuples ==
    /\ \A a, b : <<a>> \o <<b>> = <<a, b>>
    /\ \A a, b : Append(<<a>>, b) = <<a, b>>
    /\ \A a, b, c : <<a>> \o <<b, c>> = <<a, b, c>>
    /\ \A a, b, c, d : <<a, b>> \o <<c, d>> = <<a, b, c, d>>
<1>1. ASSUME NEW S, NEW s \in Seq(S), NEW t \in Seq(S), NEW u \in Seq(S),
             Len(u) = Len(s) + Len(t),
             \A i \in 1 .. Len(u) : u[i] = IF i <= Len(s) THEN s[i] ELSE t[i - Len(s)]
      PROVE  s \o t = u
  <2>1. s \o t \in Seq(S) /\ Len(s \o t) = Len(u) /\ \A i \in 1 .. Len(u) : (s \o t)[i] = u[i]
    BY <1>1, ConcatProperties
  <2> QED
    BY <1>1, <2>1, SeqEqual
<1>2. ASSUME NEW a, NEW b PROVE <<a>> \o <<b>> = <<a, b>>
  <2> DEFINE S == {a, b}
             p == <<a>>
             q == <<b>>
             r == <<a, b>>
  <2>1. /\ p \in Seq(S) /\ q \in Seq(S) /\ r \in Seq(S) /\ Len(r) = Len(p) + Len(q)
        /\ \A i \in 1 .. Len(r) : r[i] = IF i <= Len(p) THEN p[i] ELSE q[i - Len(p)]
    OBVIOUS
  <2> HIDE DEF S, p, q, r
  <2>2. p \o q = r
    BY <1>1, <2>1
  <2> QED
    BY <2>2 DEF p, q, r
<1>3. ASSUME NEW a, NEW b, NEW c PROVE <<a>> \o <<b, c>> = <<a, b, c>>
  <2> DEFINE S == {a, b, c}
             p == <<a>>
             q == <<b, c>>
             r == <<a, b, c>>
  <2>1. /\ p \in Seq(S) /\ q \in Seq(S) /\ r \in Seq(S) /\ Len(r) = Len(p) + Len(q)
        /\ \A i \in 1 .. Len(r) : r[i] = IF i <= Len(p) THEN p[i] ELSE q[i - Len(p)]
    OBVIOUS
  <2> HIDE DEF S, p, q, r
  <2>2. p \o q = r
    BY <1>1, <2>1
  <2> QED
    BY <2>2 DEF p, q, r
<1>4. ASSUME NEW a, NEW b, NEW c, NEW d PROVE <<a, b>> \o <<c, d>> = <<a, b, c, d>>
  <2> DEFINE S == {a, b, c, d}
             p == <<a, b>>
             q == <<c, d>>
             r == <<a, b, c, d>>
  <2>1. /\ p \in Seq(S) /\ q \in Seq(S) /\ r \in Seq(S) /\ Len(r) = Len(p) + Len(q)
        /\ \A i \in 1 .. Len(r) : r[i] = IF i <= Len(p) THEN p[i] ELSE q[i - Len(p)]
    OBVIOUS
  <2> HIDE DEF S, p, q, r
  <2>2. p \o q = r
    BY <1>1, <2>1
  <2> QED
    BY <2>2 DEF p, q, r
<1>5. ASSUME NEW a, NEW b PROVE Append(<<a>>, b) = <<a, b>>
  <2>1. <<a>> \in Seq({a, b}) /\ b \in {a, b}
    OBVIOUS
  <2>2. Append(<<a>>, b) = <<a>> \o <<b>>
    BY <2>1, AppendIsConcat
  <2> QED
    BY <1>2, <2>2
<1> QED
  BY <1>2, <1>3, <1>4, <1>5

(* uo_cb_stack_pop on short stacks.                                        *)
LEMMA Popped ==
    /\ \A a : Pop(<<a>>) = <<>>
    /\ \A a, b : Pop(<<a, b>>) = <<a>> /\ Top(<<a, b>>) = b
    /\ \A a, b, c : Pop(<<a, b, c>>) = <<a, b>> /\ Top(<<a, b, c>>) = c
    /\ \A a, b, c, d : Pop(<<a, b, c, d>>) = <<a, b, c>> /\ Top(<<a, b, c, d>>) = d
<1>1. ASSUME NEW S, NEW s \in Seq(S), NEW u \in Seq(S), Len(s) = Len(u) + 1,
             \A i \in 1 .. Len(u) : s[i] = u[i]
      PROVE  Pop(s) = u
  <2>1. Pop(s) = SubSeq(s, 1, Len(u)) /\ Len(u) \in Nat
    BY <1>1, LenProperties DEF Pop
  <2>2. \A i \in 1 .. Len(u) : s[i] \in S
    BY <1>1, <2>1, ElementOfSeq
  <2>3. /\ Pop(s) \in Seq(S) /\ Len(Pop(s)) = Len(u)
        /\ \A i \in 1 .. Len(u) : Pop(s)[i] = s[i]
    BY <2>1, <2>2, SubSeqProperties
  <2> QED
    BY <1>1, <2>3, SeqEqual
<1>2. ASSUME NEW a PROVE Pop(<<a>>) = <<>>
  <2>1. Len(<<a>>) - 1 = 0
    OBVIOUS
  <2> QED
    BY <2>1, SubSeqEmpty DEF Pop
<1>3. ASSUME NEW a, NEW b PROVE Pop(<<a, b>>) = <<a>> /\ Top(<<a, b>>) = b
  <2> DEFINE S == {a, b}
             p == <<a, b>>
             q == <<a>>
  <2>1. /\ p \in Seq(S) /\ q \in Seq(S) /\ Len(p) = Len(q) + 1
        /\ \A i \in 1 .. Len(q) : p[i] = q[i]
    OBVIOUS
  <2>2. Top(p) = b
    BY DEF Top
  <2> HIDE DEF S, p, q
  <2>3. Pop(p) = q
    BY <1>1, <2>1
  <2> QED
    BY <2>2, <2>3 DEF p, q
<1>4. ASSUME NEW a, NEW b, NEW c PROVE Pop(<<a, b, c>>) = <<a, b>> /\ Top(<<a, b, c>>) = c
  <2> DEFINE S == {a, b, c}
             p == <<a, b, c>>
             q == <<a, b>>
  <2>1. /\ p \in Seq(S) /\ q \in Seq(S) /\ Len(p) = Len(q) + 1
        /\ \A i \in 1 .. Len(q) : p[i] = q[i]
    OBVIOUS
  <2>2. Top(p) = c
    BY DEF Top
  <2> HIDE DEF S, p, q
  <2>3. Pop(p) = q
    BY <1>1, <2>1
  <2> QED
    BY <2>2, <2>3 DEF p, q
<1>5. ASSUME NEW a, NEW b, NEW c, NEW d PROVE Pop(<<a, b, c, d>>) = <<a, b, c>>
                 /\ Top(<<a, b, c, d>>) = d
  <2> DEFINE S == {a, b, c, d}
             p == <<a, b, c, d>>
             q == <<a, b, c>>
  <2>1. /\ p \in Seq(S) /\ q \in Seq(S) /\ Len(p) = Len(q) + 1
        /\ \A i \in 1 .. Len(q) : p[i] = q[i]
    OBVIOUS
  <2>2. Top(p) = d
    BY DEF Top
  <2> HIDE DEF S, p, q
  <2>3. Pop(p) = q
    BY <1>1, <2>1
  <2> QED
    BY <2>2, <2>3 DEF p, q
<1> QED
  BY <1>2, <1>3, <1>4, <1>5

-----------------------------------------------------------------------------
(* In the initial state the callback of uo_tcp_conn_open is in charge.     *)
LEMMA ConnInit == ASSUME OwnRequests, Init PROVE ConnInv
<1> DEFINE eh == evt_handlers
           h  == eh["after_open"]
           r  == [NoChain EXCEPT !.at = "queued", !.stack = <<"conn">>,
                                !.funcs = Append(h, "advance")]
<1>1. OptionHandlers(eh) /\ eh \in Handlers
  BY DEF Init, OwnRequests
<1>2. h \in Seq(HandlerFuncs)
  BY <1>1 DEF OptionHandlers, Events
<1>3. Append(h, "advance") = h \o <<"advance">> /\ h \o <<"advance">> \in Seq(Functions)
  <2>1. <<"advance">> \in Tails
    BY DEF Tails, Advancing
  <2>2. Append(h, "advance") = h \o <<"advance">>
    <3>1. h \in Seq(HandlerFuncs \cup {"advance"})
      BY <1>2, SeqMonotonic
    <3> QED
      BY <3>1, AppendIsConcat
  <2> QED
    BY <1>2, <2>1, <2>2, HandlerFront
<1>5. NoChain \in Record /\ ~NoChain.idling
  BY DEF Record, NoChain
<1>4. /\ r \in Record /\ ~r.idling
      /\ r.at = "queued" /\ r.funcs = h \o <<"advance">> /\ r.stack = <<"conn">>
  <2>1. <<"conn">> \in Seq(Pointers)
    BY DEF Pointers
  <2> HIDE DEF h
  <2> QED
    BY <1>3, <1>5, <2>1 DEF Record
<1>6. Driving(r, h, <<"advance">>, eh, "0", FALSE, "open")
  <2>1. Placed(r, h, <<"advance">>, "0", "open")
    BY <1>4 DEF Placed, Advancing
  <2>2. FlowHandlers(eh) => GoesOn(h)
    BY DEF FlowHandlers
  <2>3. ASSUME ServerHandlers(eh) PROVE Served(h, <<"advance">>, "0", FALSE)
    <3>1. h = <<"next_r">>
      BY <2>3 DEF ServerHandlers
    <3>2. h \in Seq(AfterSendFuncs)
      BY <3>1 DEF AfterSendFuncs
    <3> QED
      BY <3>2 DEF Served
  <2> QED
    BY <1>4, <2>1, <2>2, <2>3 DEF Driving
<1>7. Charged(r, eh, "0", FALSE, "open", FALSE)
  BY <1>2, <1>4, <1>6 DEF Charged, Tails, Advancing
<1>8. chain = [c \in Chains |-> IF c = FirstChain THEN r ELSE NoChain]
  BY DEF Init
<1>9. chain \in [Chains -> Record] /\ InCharge
  <2> HIDE DEF r, h
  <2>1. chain \in [Chains -> Record] /\ chain[FirstChain] = r
        /\ \A d \in Chains : d # FirstChain => chain[d] = NoChain
    BY <1>4, <1>5, <1>8, FirstChainAssumption
  <2> QED
    BY <1>7, <2>1, FirstChainAssumption DEF InCharge, Init
<1> QED
  BY <1>1, <1>9 DEF ConnInv, Init

(* Every step keeps the invariant.                                         *)
LEMMA ConnStep == ASSUME OwnRequests, ConnInv, [Next]_vars PROVE ConnInv'
<1> USE DEF Requests
<1>a. /\ state \in {"0", "i"} \cup Requests /\ full \in BOOLEAN
      /\ life \in {"open", "closed", "freed"} /\ peer \in {"open", "closed"}
      /\ write_failed \in BOOLEAN /\ evt_handlers \in Handlers
      /\ chain \in [Chains -> Record]
      /\ call = [a \in Agents |-> "none"] /\ waits = [a \in Agents |-> {}]
  BY DEF ConnInv
<1>b. OptionHandlers(evt_handlers)
  BY <1>a DEF OwnRequests
<1>c. \A c \in Chains : call[c] = "none"
  BY <1>a DEF Agents
<1>1. ASSUME NEW c \in Chains, Dispatch(c) PROVE ConnInv'
  <2> DEFINE r == [chain[c] EXCEPT !.at = "run"]
  <2>1. OthersOver(c) /\ Charged(chain[c], evt_handlers, state, full, life, write_failed)
    BY <1>1, RunsInCharge DEF Dispatch, NoChain
  <2>2. chain[c].at = "queued" /\ chain' = [chain EXCEPT ![c] = r]
    BY <1>1 DEF Dispatch
  <2>3. PICK h \in Seq(HandlerFuncs), t \in Tails :
               Driving(chain[c], h, t, evt_handlers, state, full, life)
    BY <2>1, <2>2 DEF Charged, Done
  <2>4. r \in Record /\ r.at = "run" /\ r.funcs = chain[c].funcs /\ r.stack = chain[c].stack
        /\ r.idling = chain[c].idling
    BY <1>a DEF Record
  <2>5. Driving(r, h, t, evt_handlers, state, full, life)
    BY <2>2, <2>3, <2>4 DEF Driving, Placed
  <2>6. Charged(r, evt_handlers, state, full, life, write_failed)
    BY <2>4, <2>5 DEF Charged
  <2> HIDE DEF r
  <2> QED
    BY <1>1, <1>a, <2>1, <2>2, <2>6, StaysInCharge DEF Dispatch
<1>2. ASSUME NEW c \in Chains, EndChain(c) PROVE ConnInv'
  <2>1. OthersOver(c) /\ Charged(chain[c], evt_handlers, state, full, life, write_failed)
    BY <1>2, RunsInCharge DEF EndChain, NoChain
  <2>2. Excused(evt_handlers, state, life, write_failed)
    <3>1. \A h \in Seq(HandlerFuncs), t \in Tails : chain[c].funcs # h \o t
      BY <1>2, HandlerFront DEF EndChain
    <3> QED
      BY <2>1, <3>1 DEF Charged, Driving
  <2>3. chain' \in [Chains -> Record] /\ \A d \in Chains : chain'[d] = NoChain
    <3>1. NoChain \in Record
      BY DEF NoChain, Record
    <3> QED
      BY <1>2, <1>a, <2>1, <3>1 DEF EndChain, OthersOver
  <2>4. waits' = [a \in Agents |-> {}]
    BY <1>2, <1>a DEF EndChain
  <2>5. InCharge'
    BY <1>2, <2>2, <2>3 DEF InCharge, EndChain
  <2> QED
    BY <1>2, <1>a, <2>3, <2>4, <2>5 DEF ConnInv, EndChain
<1>3. ASSUME NEW c \in Chains, NextStateIdle(c) PROVE FALSE
  BY <1>3, <1>c DEF NextStateIdle
<1>4. ASSUME NEW c \in Chains, NEW f, Calls(c, f) PROVE state # "i"
  BY <1>4, Called DEF Driving
<1>5. ASSUME NEW c \in Chains, NEW f, NEW req \in Requests, NextFunc(c, f, req),
             <<f, req>> \in {<<"next_r", "r">>, <<"next_s", "s">>, <<"next_c", "c">>}
      PROVE  ConnInv'
  <2>1. f \in HandlerFuncs /\ Calls(c, f)
    BY <1>5 DEF NextFunc, HandlerFuncs, NextFuncs
  <2>2. state # "i"
    BY <1>4, <2>1
  <2>3. state' = Requested(state, req) /\ call' = call
    BY <1>5, <1>a, <2>2 DEF NextFunc, NextState, Requested
  <2>4. Effect(f, state, full, state', full')
    BY <1>5, <2>3 DEF NextFunc, Effect
  <2> QED
    BY <1>5, <2>1, <2>3, <2>4, HandlerKeeps DEF NextFunc
<1>6. ASSUME NEW c \in Chains, LengthPrefixRecv(c) PROVE ConnInv'
  <2>1. "lp_recv" \in HandlerFuncs /\ Calls(c, "lp_recv")
    BY <1>6 DEF LengthPrefixRecv, HandlerFuncs
  <2>2. state # "i"
    BY <1>4, <2>1
  <2>3. call' = call /\ Effect("lp_recv", state, full, state', full')
    BY <1>6, <1>a, <2>2 DEF LengthPrefixRecv, NextState, Effect, Requested
  <2> QED
    BY <1>6, <2>1, <2>3, HandlerKeeps DEF LengthPrefixRecv
<1>7. ASSUME NEW c \in Chains, Handler(c) PROVE ConnInv'
  <2>1. PICK f \in {"lp_send", "app"} : Calls(c, f)
    BY <1>7 DEF Handler
  <2>2. f \in HandlerFuncs /\ Effect(f, state, full, state', full')
    BY <1>7, <2>1 DEF Handler, HandlerFuncs, QuietFuncs, Effect
  <2> QED
    BY <1>7, <2>1, <2>2, HandlerKeeps DEF Handler
<1>8. ASSUME NEW c \in Chains, NEW f, f \notin HandlerFuncs, Calls(c, f)
      PROVE  /\ OthersOver(c) /\ chain[c] \in Record /\ chain[c].at = "run" /\ ~chain[c].idling
             /\ \E t \in Tails :
                   /\ Driving(chain[c], <<>>, t, evt_handlers, state, full, life)
                   /\ f = Head(t) /\ Rest(c) = Tail(t)
  BY <1>8, Called, CalledByConn DEF Calls
<1>9. {"advance", "after_send", "before_recv", "recv", "execute_io", "send", "close", "after_close"}
        \cap HandlerFuncs = {}
  BY DEF HandlerFuncs, NextFuncs, QuietFuncs
<1>10. ASSUME NEW c \in Chains, Advance(c) PROVE ConnInv'
  <2> DEFINE eh == evt_handlers
  <2>1. /\ OthersOver(c) /\ chain[c] \in Record /\ chain[c].at = "run" /\ ~chain[c].idling
        /\ Driving(chain[c], <<>>, <<"advance">>, eh, state, full, life)
        /\ Rest(c) = <<>>
    BY <1>8, <1>9, <1>10, TailsByHead DEF Advance
  <2>2. /\ life = "open" /\ state # "i" /\ state' = "0"
        /\ chain[c].stack = <<"conn">> \/ (chain[c].stack = <<"conn", "epevt">> /\ state = "c")
    BY <1>10, <2>1 DEF Driving, Placed, Advancing, Advance
  <2>3. ServerHandlers(eh) => (state = "s" => full) /\ (state = "r" => ~full)
    BY <2>1 DEF Driving, Served
  <2>4. /\ eh["before_recv"] \in Seq(HandlerFuncs) /\ eh["before_recv"] \in Seq(QuietFuncs)
        /\ eh["before_send"] \in Seq(HandlerFuncs) /\ eh["before_send"] \in Seq(QuietFuncs)
        /\ eh["before_close"] \in Seq(HandlerFuncs)
    BY <1>b DEF OptionHandlers, Events
  <2>5. ASSUME NEW h \in Seq(HandlerFuncs), NEW f, <<f>> \in Tails,
               chain' = Then(c, Append(h, f)),
               LET r == [chain[c] EXCEPT !.funcs = h \o <<f>>]
               IN r \in Record => Driving(r, h, <<f>>, eh, "0", full, life)
        PROVE  ConnInv'
    <3> DEFINE r == [chain[c] EXCEPT !.funcs = h \o <<f>>]
    <3>1. chain' = [chain EXCEPT ![c] = r] /\ h \o <<f>> \in Seq(Functions)
      BY <2>1, <2>5, Appended DEF Then
    <3>2. r \in Record
      BY <2>1, <3>1 DEF Record
    <3>3. Charged(r, eh, "0", full, life, write_failed)
      BY <2>5, <3>2 DEF Charged
    <3> HIDE DEF r
    <3> QED
      BY <1>10, <1>a, <2>1, <2>2, <3>1, <3>3, StaysInCharge DEF Advance
  <2>6. ASSUME NEW h \in Seq(HandlerFuncs), NEW f, <<f>> \in Tails, <<f>> \notin Advancing,
               LET r == [chain[c] EXCEPT !.funcs = h \o <<f>>]
               IN r.at = "run" /\ r.stack = chain[c].stack => Placed(r, h, <<f>>, "0", life),
               ServerHandlers(eh) => Served(h, <<f>>, "0", full)
        PROVE  LET r == [chain[c] EXCEPT !.funcs = h \o <<f>>]
               IN r \in Record => Driving(r, h, <<f>>, eh, "0", full, life)
    <3> DEFINE r == [chain[c] EXCEPT !.funcs = h \o <<f>>]
    <3>1. /\ r.at = "run" /\ r.stack = chain[c].stack /\ ~r.idling
          /\ r.funcs = h \o <<f>>
      BY <2>1 DEF Record
    <3>2. Placed(r, h, <<f>>, "0", life)
      BY <2>6, <3>1
    <3> HIDE DEF r
    <3>3. Driving(r, h, <<f>>, eh, "0", full, life)
      BY <2>6, <3>1, <3>2 DEF Driving
    <3> QED
      BY <3>3 DEF r
  <2>7. CASE state = "r"
    <3>1. <<"before_recv">> \in Tails /\ <<"before_recv">> \notin Advancing
      BY DEF Tails, Advancing
    <3>2. chain' = Then(c, Append(eh["before_recv"], "before_recv"))
      BY <1>10, <2>7 DEF Advance
    <3>3. ServerHandlers(eh) => Served(eh["before_recv"], <<"before_recv">>, "0", full)
      BY <2>3, <2>7 DEF Served
    <3>4. \A r : r.at = "run" /\ r.stack = chain[c].stack =>
                 Placed(r, eh["before_recv"], <<"before_recv">>, "0", life)
      BY <2>2, <2>4, <2>7 DEF Placed
    <3> HIDE DEF eh
    <3> QED
      BY <2>4, <2>5, <2>6, <3>1, <3>2, <3>3, <3>4
  <2>8. CASE state = "s"
    <3>1. <<"send">> \in Tails /\ <<"send">> \notin Advancing
      BY DEF Tails, Advancing
    <3>2. chain' = Then(c, Append(eh["before_send"], "send"))
      BY <1>10, <2>8 DEF Advance
    <3>3. ServerHandlers(eh) => Served(eh["before_send"], <<"send">>, "0", full)
      BY <2>3, <2>8 DEF Served
    <3>4. \A r : r.at = "run" /\ r.stack = chain[c].stack =>
                 Placed(r, eh["before_send"], <<"send">>, "0", life)
      BY <2>2, <2>4, <2>8 DEF Placed
    <3> HIDE DEF eh
    <3> QED
      BY <2>4, <2>5, <2>6, <3>1, <3>2, <3>3, <3>4
  <2>9. CASE state = "c"
    <3>1. <<"close">> \in Tails /\ <<"close">> \notin Advancing
      BY DEF Tails, Advancing
    <3>2. chain' = Then(c, Append(eh["before_close"], "close"))
      BY <1>10, <2>9 DEF Advance
    <3>3. Served(eh["before_close"], <<"close">>, "0", full)
      BY DEF Served
    <3>4. \A r : r.at = "run" /\ r.stack = chain[c].stack =>
                 Placed(r, eh["before_close"], <<"close">>, "0", life)
      BY <2>2 DEF Placed
    <3> HIDE DEF eh
    <3> QED
      BY <2>4, <2>5, <2>6, <3>1, <3>2, <3>3, <3>4
  <2>10. CASE state = "0"
    <3> DEFINE r == [chain[c] EXCEPT !.funcs = <<>>, !.idling = TRUE]
    <3>1. chain' = [chain EXCEPT ![c] = r]
      <4>1. <<>> \o <<>> = <<>>
        BY ConcatEmptySeq, EmptySeq
      <4>2. chain' = [Continue(c) EXCEPT ![c].idling = TRUE]
        BY <1>10, <2>10 DEF Advance
      <4>3. Continue(c) = [chain EXCEPT ![c].funcs = <<>>]
        BY <2>1, <4>1 DEF Continue, Then
      <4> QED
        BY <1>a, <4>2, <4>3 DEF Record
    <3>2. r \in Record /\ r.at = "run" /\ r.funcs = <<>> /\ r.stack = chain[c].stack
      <4>1. <<>> \in Seq(Functions)
        BY EmptySeq
      <4> QED
        BY <2>1, <4>1 DEF Record
    <3>3. ~FlowHandlers(eh)
      <4>1. ~GoesOn(<<>>)
        BY DEF GoesOn
      <4> QED
        BY <2>1, <2>10, <4>1 DEF Driving, Advancing
    <3>4. Charged(r, eh, "0", full, life, write_failed)
      BY <2>2, <2>10, <3>2, <3>3 DEF Charged, Done, Excused
    <3> HIDE DEF r
    <3> QED
      BY <1>10, <1>a, <2>1, <2>2, <3>1, <3>4, StaysInCharge DEF Advance
  <2> QED
    BY <1>a, <2>2, <2>7, <2>8, <2>9, <2>10
<1>11. ASSUME NEW c \in Chains, AdvanceIdle(c) PROVE ConnInv'
  <2>1. OthersOver(c) /\ Charged(chain[c], evt_handlers, state, full, life, write_failed)
    BY <1>11, RunsInCharge DEF AdvanceIdle, NoChain
  <2>2. Done(chain[c], state, life) /\ ~FlowHandlers(evt_handlers)
    BY <1>11, <2>1 DEF AdvanceIdle, Charged, Driving
  <2> DEFINE r == [chain[c] EXCEPT !.idling = FALSE]
  <2>3. state' = "i" /\ chain' = [chain EXCEPT ![c] = r]
    BY <1>11, <2>2 DEF AdvanceIdle, Done
  <2>4. /\ r \in Record /\ ~r.idling /\ r.at = chain[c].at /\ r.funcs = chain[c].funcs
        /\ r.stack = chain[c].stack
    BY <1>a DEF Record
  <2>5. Charged(r, evt_handlers, "i", full, life, write_failed)
    BY <2>2, <2>4 DEF Charged, Done, Excused
  <2> HIDE DEF r
  <2> QED
    BY <1>11, <1>a, <2>1, <2>3, <2>5, StaysInCharge DEF AdvanceIdle
<1>12. <<"recv">> \in Tails /\ <<"execute_io", "recv">> \in Tails /\ <<"advance">> \in Tails
       /\ <<"after_send", "advance">> \in Tails /\ <<"after_close">> \in Tails
       /\ <<>> \in Seq(HandlerFuncs)
       /\ \A t \in Tails : <<>> \o t = t /\ t \o <<>> = t /\ t \in Seq(Functions)
  <2>1. <<>> \in Seq(HandlerFuncs)
    BY EmptySeq
  <2>2. \A t \in Tails : <<>> \o t = t /\ t \in Seq(Functions)
    BY <2>1, HandlerFront
  <2>3. \A t \in Tails : t \o <<>> = t
    BY <2>2, ConcatEmptySeq
  <2> QED
    BY <2>1, <2>2, <2>3 DEF Tails, Advancing
<1>t. /\ <<"execute_io">> \o <<"recv">> = <<"execute_io", "recv">>
      /\ Append(<<"conn">>, "epevt") = <<"conn", "epevt">>
      /\ <<"conn", "epevt">> \o <<"err", "zero">> = <<"conn", "epevt", "err", "zero">>
      /\ <<"conn">> \o <<"len">> = <<"conn", "len">>
      /\ <<"conn">> \o <<"err", "zero">> = <<"conn", "err", "zero">>
      /\ Pop(<<"conn">>) = <<>> /\ Pop(<<"conn", "epevt">>) = <<"conn">>
      /\ Pop(<<"conn", "len">>) = <<"conn">> /\ Pop(<<"conn", "err">>) = <<"conn">>
      /\ Pop(<<"conn", "err", "zero">>) = <<"conn", "err">>
      /\ Pop(<<"conn", "epevt", "err", "zero">>) = <<"conn", "epevt", "err">>
      /\ Pop(<<"conn", "epevt", "err">>) = <<"conn", "epevt">>
      /\ Top(<<"conn", "len">>) = "len" /\ Top(<<"conn", "err", "zero">>) = "zero"
      /\ Top(<<"conn", "epevt", "err", "zero">>) = "zero"
  BY Tuples, Popped
<1>13. ASSUME NEW c \in Chains, BeforeRecv(c) PROVE ConnInv'
  <2>1. /\ OthersOver(c) /\ chain[c] \in Record /\ chain[c].at = "run" /\ ~chain[c].idling
        /\ Driving(chain[c], <<>>, <<"before_recv">>, evt_handlers, state, full, life)
        /\ Rest(c) = <<>>
    BY <1>8, <1>9, <1>13, TailsByHead DEF BeforeRecv
  <2>2. /\ life = "open" /\ state = "0" /\ chain[c].stack = <<"conn">>
        /\ ServerHandlers(evt_handlers) => ~full
    BY <2>1 DEF Driving, Placed, Advancing, Served
  <2>3. ASSUME NEW r \in Record, chain' = [chain EXCEPT ![c] = r], r.funcs = <<"recv">>, ~r.idling,
               \/ r.at = "io" /\ r.stack = <<"conn", "epevt">>
               \/ r.at = "queued" /\ r.stack = <<"conn", "epevt", "err", "zero">>
        PROVE  ConnInv'
    <3>1. Placed(r, <<>>, <<"recv">>, "0", "open")
      BY <2>3 DEF Placed
    <3>2. Driving(r, <<>>, <<"recv">>, evt_handlers, "0", full, "open")
      BY <1>12, <2>2, <2>3, <3>1 DEF Driving, Served, Advancing
    <3>3. Charged(r, evt_handlers, "0", full, "open", write_failed)
      BY <1>12, <3>2 DEF Charged
    <3> QED
      BY <1>13, <1>a, <2>1, <2>2, <2>3, <3>3, StaysInCharge DEF BeforeRecv
  <2> DEFINE r1 == [chain[c] EXCEPT !.funcs = <<"recv">> \o Rest(c), !.at = "io",
                                    !.stack = Append(chain[c].stack, "epevt")]
             r2 == [r1 EXCEPT !.at = "queued", !.stack = r1.stack \o <<"err", "zero">>]
  <2>4. /\ <<"recv">> \o Rest(c) = <<"recv">> /\ <<"recv">> \in Seq(Functions)
        /\ Append(chain[c].stack, "epevt") = <<"conn", "epevt">>
        /\ <<"conn", "epevt">> \in Seq(Pointers)
    BY <1>12, <1>t, <2>1, <2>2 DEF Pointers
  <2>5. /\ r1 \in Record /\ r1.funcs = <<"recv">> /\ r1.at = "io" /\ ~r1.idling
        /\ r1.stack = <<"conn", "epevt">>
    BY <2>1, <2>4 DEF Record
  <2>6. /\ r2 \in Record /\ r2.funcs = <<"recv">> /\ r2.at = "queued" /\ ~r2.idling
        /\ r2.stack = <<"conn", "epevt", "err", "zero">>
    <3>1. <<"conn", "epevt">> \o <<"err", "zero">> = <<"conn", "epevt", "err", "zero">>
      BY <1>t
    <3>2. <<"conn", "epevt", "err", "zero">> \in Seq(Pointers)
      BY DEF Pointers
    <3> HIDE DEF r1
    <3> QED
      BY <2>5, <3>1, <3>2 DEF Record
  <2>7. chain' = [chain EXCEPT ![c] = r1] \/ chain' = [chain EXCEPT ![c] = r2]
    BY <1>13 DEF BeforeRecv
  <2> HIDE DEF r1, r2
  <2> QED
    BY <2>3, <2>5, <2>6, <2>7
<1>14. ASSUME NEW c \in Chains, IoReady(c) PROVE ConnInv'
  <2> DEFINE r == [chain[c] EXCEPT !.at = "queued", !.funcs = <<"execute_io">> \o chain[c].funcs]
  <2>1. OthersOver(c) /\ Charged(chain[c], evt_handlers, state, full, life, write_failed)
    BY <1>14, RunsInCharge DEF IoReady, NoChain
  <2>2. PICK h \in Seq(HandlerFuncs), t \in Tails :
               Driving(chain[c], h, t, evt_handlers, state, full, life)
    BY <1>14, <2>1 DEF IoReady, Charged, Done
  <2>3. /\ t = <<"recv">> /\ h = <<>> /\ chain[c].stack = <<"conn", "epevt">> /\ ~chain[c].idling
        /\ state = "0" /\ life = "open" /\ (ServerHandlers(evt_handlers) => ~full)
    BY <1>14, <2>2 DEF IoReady, Driving, Placed, Served
  <2>4. chain[c].funcs = <<"recv">>
    BY <1>12, <2>2, <2>3 DEF Driving
  <2>5. chain' = [chain EXCEPT ![c] = r]
    BY <1>14, <1>a DEF IoReady, Record
  <2>6. <<"execute_io">> \o <<"recv">> = <<"execute_io", "recv">>
    BY <1>t
  <2>7. /\ r \in Record /\ r.at = "queued" /\ r.funcs = <<"execute_io", "recv">>
        /\ r.stack = <<"conn", "epevt">> /\ ~r.idling
    BY <1>12, <1>a, <2>3, <2>4, <2>6 DEF Record
  <2> HIDE DEF r
  <2>8. Placed(r, <<>>, <<"execute_io", "recv">>, "0", "open")
    BY <2>7 DEF Placed
  <2>9. Driving(r, <<>>, <<"execute_io", "recv">>, evt_handlers, "0", full, "open")
    BY <1>12, <2>3, <2>7, <2>8 DEF Driving, Served, Advancing
  <2>10. Charged(r, evt_handlers, "0", full, "open", write_failed)
    BY <1>12, <2>7, <2>9 DEF Charged
  <2> QED
    BY <1>14, <1>a, <2>1, <2>3, <2>5, <2>10, StaysInCharge DEF IoReady
<1>15. ASSUME NEW c \in Chains, ExecuteIo(c) PROVE ConnInv'
  <2>1. /\ OthersOver(c) /\ chain[c] \in Record /\ chain[c].at = "run" /\ ~chain[c].idling
        /\ Driving(chain[c], <<>>, <<"execute_io", "recv">>, evt_handlers, state, full, life)
        /\ Rest(c) = <<"recv">>
    <3>1. Calls(c, "execute_io") /\ "execute_io" \notin HandlerFuncs
      BY <1>9, <1>15 DEF ExecuteIo
    <3>2. PICK t \in Tails :
             /\ Driving(chain[c], <<>>, t, evt_handlers, state, full, life)
             /\ "execute_io" = Head(t) /\ Rest(c) = Tail(t)
      BY <1>8, <3>1
    <3>3. t = <<"execute_io", "recv">> /\ Tail(t) = <<"recv">>
      BY <3>2, TailsByHead
    <3> QED
      BY <1>8, <3>1, <3>2, <3>3
  <2>2. /\ life = "open" /\ state = "0" /\ chain[c].stack = <<"conn", "epevt">>
        /\ ServerHandlers(evt_handlers) => ~full
    BY <2>1 DEF Driving, Placed, Advancing, Served
  <2>3. PICK result \in {<<"len">>, <<"err", "zero">>} :
               chain' = [Continue(c) EXCEPT ![c].stack = Pop(chain[c].stack) \o result]
    BY <1>15 DEF ExecuteIo
  <2>4. Continue(c) = [chain EXCEPT ![c].funcs = <<"recv">>]
    BY <1>12, <2>1 DEF Continue, Then
  <2>5. Pop(chain[c].stack) = <<"conn">>
    BY <1>t, <2>2
  <2>6. /\ <<"conn">> \o result \in {<<"conn", "len">>, <<"conn", "err", "zero">>}
        /\ <<"conn">> \o result \in Seq(Pointers)
    <3>1. <<"conn">> \o result \in {<<"conn", "len">>, <<"conn", "err", "zero">>}
      BY <1>t
    <3>2. <<"conn", "len">> \in Seq(Pointers) /\ <<"conn", "err", "zero">> \in Seq(Pointers)
      BY DEF Pointers
    <3> QED
      BY <3>1, <3>2
  <2> DEFINE r == [chain[c] EXCEPT !.funcs = <<"recv">>, !.stack = <<"conn">> \o result]
  <2>7. chain' = [chain EXCEPT ![c] = r]
    BY <1>a, <2>3, <2>4, <2>5 DEF Record
  <2>8. /\ r \in Record /\ r.at = "run" /\ r.funcs = <<"recv">> /\ ~r.idling
        /\ r.stack \in {<<"conn", "len">>, <<"conn", "err", "zero">>}
    BY <1>12, <2>1, <2>6 DEF Record
  <2> HIDE DEF r
  <2>9. Placed(r, <<>>, <<"recv">>, "0", "open")
    BY <2>8 DEF Placed
  <2>10. Driving(r, <<>>, <<"recv">>, evt_handlers, "0", full, "open")
    BY <1>12, <2>2, <2>8, <2>9 DEF Driving, Served, Advancing
  <2>11. Charged(r, evt_handlers, "0", full, "open", write_failed)
    BY <1>12, <2>8, <2>10 DEF Charged
  <2> QED
    BY <1>15, <1>a, <2>1, <2>2, <2>7, <2>11, StaysInCharge DEF ExecuteIo
<1>16. ASSUME NEW c \in Chains, Recv(c) PROVE ConnInv'
  <2> DEFINE eh == evt_handlers
  <2>1. /\ OthersOver(c) /\ chain[c] \in Record /\ chain[c].at = "run" /\ ~chain[c].idling
        /\ Driving(chain[c], <<>>, <<"recv">>, eh, state, full, life)
        /\ Rest(c) = <<>>
    BY <1>8, <1>9, <1>16, TailsByHead DEF Recv
  <2>2. /\ life = "open" /\ state = "0" /\ (ServerHandlers(eh) => ~full)
        /\ chain[c].stack \in {<<"conn", "len">>, <<"conn", "err", "zero">>,
                               <<"conn", "epevt", "err", "zero">>}
    BY <2>1 DEF Driving, Placed, Advancing, Served
  <2>3. CASE Top(chain[c].stack) # "zero"
    <3> DEFINE h == eh["after_recv"]
               r == [chain[c] EXCEPT !.funcs = h \o <<"advance">>, !.stack = <<"conn">>]
    <3>1. h \in Seq(HandlerFuncs) /\ <<"conn">> \in Seq(Pointers)
      BY <1>b DEF OptionHandlers, Events, Pointers
    <3>2. Pop(chain[c].stack) = <<"conn">>
      BY <1>t, <2>2, <2>3
    <3>3. <<>> \o Append(h, "advance") = h \o <<"advance">> /\ h \o <<"advance">> \in Seq(Functions)
      BY <1>12, <3>1, Appended
    <3>4. state' = state /\ call' = call
          /\ chain' = [Then(c, Append(h, "advance")) EXCEPT ![c].stack = <<"conn">>]
      BY <1>16, <2>3, <3>2 DEF Recv
    <3>5. Then(c, Append(h, "advance")) = [chain EXCEPT ![c].funcs = h \o <<"advance">>]
      BY <2>1, <3>3 DEF Then
    <3> HIDE DEF h
    <3>6. chain' = [chain EXCEPT ![c] = r]
      BY <1>a, <3>4, <3>5 DEF Record
    <3>7. /\ r \in Record /\ r.at = "run" /\ r.funcs = h \o <<"advance">> /\ r.stack = <<"conn">>
          /\ ~r.idling
      BY <2>1, <3>1, <3>3 DEF Record
    <3> HIDE DEF r
    <3>8. Placed(r, h, <<"advance">>, "0", "open")
      BY <3>7 DEF Placed, Advancing
    <3>9. FlowHandlers(eh) => GoesOn(h)
      BY DEF FlowHandlers, h
    <3>10. ServerHandlers(eh) => Served(h, <<"advance">>, "0", full)
      BY <2>2 DEF ServerHandlers, Served, h
    <3>11. Driving(r, h, <<"advance">>, eh, "0", full, "open")
      BY <3>7, <3>8, <3>9, <3>10 DEF Driving
    <3>12. Charged(r, eh, "0", full, "open", write_failed)
      BY <1>12, <3>1, <3>7, <3>11 DEF Charged
    <3> QED
      BY <1>16, <1>a, <2>1, <2>2, <3>4, <3>6, <3>12, StaysInCharge DEF Recv
  <2>4. CASE Top(chain[c].stack) = "zero"
    <3> DEFINE stack == Pop(Pop(chain[c].stack))
               r     == [chain[c] EXCEPT !.funcs = <<"advance">>, !.stack = stack]
    <3>1. stack \in {<<"conn">>, <<"conn", "epevt">>}
      BY <1>t, <2>2, <2>4
    <3>2. stack \in Seq(Pointers)
      <4>1. <<"conn">> \in Seq(Pointers) /\ <<"conn", "epevt">> \in Seq(Pointers)
        BY DEF Pointers
      <4> QED
        BY <3>1, <4>1
    <3>3. state' = "c" /\ call' = call
          /\ chain' = [Then(c, <<"advance">>) EXCEPT ![c].stack = stack]
      BY <1>16, <2>2, <2>4 DEF Recv, NextState
    <3>4. Then(c, <<"advance">>) = [chain EXCEPT ![c].funcs = <<"advance">>]
      BY <1>12, <2>1 DEF Then
    <3> HIDE DEF stack
    <3>5. chain' = [chain EXCEPT ![c] = r]
      BY <1>a, <3>3, <3>4 DEF Record
    <3>6. /\ r \in Record /\ r.at = "run" /\ r.funcs = <<"advance">> /\ r.stack = stack
          /\ ~r.idling
      BY <1>12, <2>1, <3>2 DEF Record
    <3> HIDE DEF r
    <3>7. Placed(r, <<>>, <<"advance">>, "c", "open")
      BY <3>1, <3>6 DEF Placed, Advancing
    <3>8. ServerHandlers(eh) => Served(<<>>, <<"advance">>, "c", full)
      <4>1. <<>> \in Seq(AfterSendFuncs)
        BY EmptySeq
      <4> QED
        BY <2>2, <4>1 DEF Served
    <3>9. Driving(r, <<>>, <<"advance">>, eh, "c", full, "open")
      BY <1>12, <3>6, <3>7, <3>8 DEF Driving
    <3>10. Charged(r, eh, "c", full, "open", write_failed)
      BY <1>12, <3>6, <3>9 DEF Charged
    <3> QED
      BY <1>16, <1>a, <2>1, <2>2, <3>3, <3>5, <3>10, StaysInCharge DEF Recv
  <2> QED
    BY <2>3, <2>4
<1>17. ASSUME NEW c \in Chains, Send(c) PROVE ConnInv'
  <2> DEFINE eh == evt_handlers
  <2>1. /\ OthersOver(c) /\ chain[c] \in Record /\ chain[c].at = "run" /\ ~chain[c].idling
        /\ Driving(chain[c], <<>>, <<"send">>, eh, state, full, life)
        /\ Rest(c) = <<>>
    BY <1>8, <1>9, <1>17, TailsByHead DEF Send
  <2>2. life = "open" /\ state = "0" /\ chain[c].stack = <<"conn">>
    BY <2>1 DEF Driving, Placed, Advancing
  <2>3. ASSUME chain' = Then(c, eh["after_send"] \o <<"after_send", "advance">>),
               UNCHANGED <<state, call, write_failed>>
        PROVE  ConnInv'
    <3> DEFINE h == eh["after_send"]
               t == <<"after_send", "advance">>
               r == [chain[c] EXCEPT !.funcs = h \o t]
    <3>1. h \in Seq(HandlerFuncs)
      BY <1>b DEF OptionHandlers, Events
    <3>2. h \o t \in Seq(Functions) /\ <<>> \o (h \o t) = h \o t
      BY <1>12, <3>1, HandlerFront, ConcatEmptySeq
    <3>3. chain' = [chain EXCEPT ![c] = r]
      BY <2>1, <2>3, <3>2 DEF Then
    <3> HIDE DEF h
    <3>4. /\ r \in Record /\ r.at = "run" /\ r.funcs = h \o t /\ r.stack = <<"conn">>
          /\ ~r.idling
      BY <2>1, <2>2, <3>2 DEF Record
    <3> HIDE DEF r
    <3>5. Placed(r, h, t, "0", "open")
      BY <3>4 DEF Placed, Advancing
    <3>6. FlowHandlers(eh) => GoesOn(h)
      BY DEF FlowHandlers, h
    <3>7. ServerHandlers(eh) => Served(h, t, "0", full)
      BY DEF ServerHandlers, Served, h
    <3>8. Driving(r, h, t, eh, "0", full, "open")
      BY <3>4, <3>5, <3>6, <3>7 DEF Driving
    <3>9. Charged(r, eh, "0", full, "open", write_failed)
      BY <1>12, <3>1, <3>4, <3>8 DEF Charged
    <3> QED
      BY <1>17, <1>a, <2>1, <2>2, <2>3, <3>3, <3>9, StaysInCharge DEF Send
  <2>4. ASSUME NextState(c, "c"), write_failed' = TRUE,
               chain' = [Continue(c) EXCEPT ![c].stack = Pop(chain[c].stack)]
        PROVE  ConnInv'
    <3> DEFINE r == [chain[c] EXCEPT !.funcs = <<>>, !.stack = <<>>]
    <3>1. state' = "c" /\ call' = call
      BY <2>2, <2>4 DEF NextState
    <3>2. <<>> \in Seq(Functions) /\ <<>> \in Seq(Pointers) /\ <<>> \o <<>> = <<>>
      BY EmptySeq, ConcatEmptySeq
    <3>3. Continue(c) = [chain EXCEPT ![c].funcs = <<>>]
      BY <2>1, <3>2 DEF Continue, Then
    <3>4. chain' = [chain EXCEPT ![c] = r]
      BY <1>a, <1>t, <2>2, <2>4, <3>3 DEF Record
    <3>5. /\ r \in Record /\ r.at = "run" /\ r.funcs = <<>> /\ r.stack = <<>> /\ ~r.idling
      BY <2>1, <3>2 DEF Record
    <3> HIDE DEF r
    <3>6. Charged(r, eh, "c", full, life, TRUE)
      BY <3>5 DEF Charged, Done, Excused
    <3> QED
      BY <1>17, <1>a, <2>1, <2>4, <3>1, <3>4, <3>6, StaysInCharge DEF Send
  <2> QED
    BY <1>17, <2>3, <2>4 DEF Send
<1>18. ASSUME NEW c \in Chains, AfterSend(c) PROVE ConnInv'
  <2> DEFINE r == [chain[c] EXCEPT !.funcs = <<"advance">>]
  <2>1. Calls(c, "after_send") /\ "after_send" \notin HandlerFuncs
    BY <1>9, <1>18 DEF AfterSend
  <2>2. PICK t \in Tails : /\ Driving(chain[c], <<>>, t, evt_handlers, state, full, life)
                           /\ "after_send" = Head(t) /\ Rest(c) = Tail(t)
    BY <1>8, <2>1
  <2>3. t = <<"after_send", "advance">> /\ Rest(c) = <<"advance">>
    BY <2>2, TailsByHead
  <2>4. OthersOver(c) /\ chain[c] \in Record /\ chain[c].at = "run" /\ ~chain[c].idling
    BY <1>8, <2>1
  <2>5. /\ life = "open" /\ state # "i" /\ chain[c].stack = <<"conn">>
        /\ FlowHandlers(evt_handlers) => state \in Requests \/ GoesOn(<<>>)
        /\ ServerHandlers(evt_handlers) => state # "s"
    BY <2>2, <2>3 DEF Driving, Placed, Advancing, Served
  <2>6. chain' = [chain EXCEPT ![c] = r]
    BY <1>12, <1>18, <2>3 DEF AfterSend, Continue, Then
  <2>7. /\ r \in Record /\ r.at = "run" /\ r.funcs = <<"advance">> /\ r.stack = <<"conn">>
        /\ ~r.idling
    BY <1>12, <2>4, <2>5 DEF Record
  <2> HIDE DEF r
  <2>8. Placed(r, <<>>, <<"advance">>, state, "open")
    BY <2>7 DEF Placed, Advancing
  <2>9. ServerHandlers(evt_handlers) => Served(<<>>, <<"advance">>, state, FALSE)
    <3>1. <<>> \in Seq(AfterSendFuncs)
      BY EmptySeq
    <3> QED
      BY <2>5, <3>1 DEF Served
  <2>10. Driving(r, <<>>, <<"advance">>, evt_handlers, state, FALSE, "open")
    BY <1>12, <2>5, <2>7, <2>8, <2>9 DEF Driving
  <2>11. Charged(r, evt_handlers, state, FALSE, "open", write_failed)
    BY <1>12, <2>7, <2>10 DEF Charged
  <2> QED
    BY <1>18, <1>a, <2>4, <2>5, <2>6, <2>11, StaysInCharge DEF AfterSend
<1>19. ASSUME NEW c \in Chains, Close(c) PROVE ConnInv'
  <2> DEFINE h == evt_handlers["after_close"]
             r == [chain[c] EXCEPT !.funcs = h \o <<"after_close">>]
  <2>1. /\ OthersOver(c) /\ chain[c] \in Record /\ chain[c].at = "run" /\ ~chain[c].idling
        /\ Driving(chain[c], <<>>, <<"close">>, evt_handlers, state, full, life)
        /\ Rest(c) = <<>>
    BY <1>8, <1>9, <1>19, TailsByHead DEF Close
  <2>2. state # "i" /\ chain[c].stack \in {<<"conn">>, <<"conn", "epevt">>}
    BY <2>1 DEF Driving, Placed, Advancing
  <2>3. h \in Seq(HandlerFuncs)
    BY <1>b DEF OptionHandlers, Events
  <2>4. /\ <<>> \o Append(h, "after_close") = h \o <<"after_close">>
        /\ h \o <<"after_close">> \in Seq(Functions)
    BY <1>12, <2>3, Appended
  <2>5. chain' = [chain EXCEPT ![c] = r]
    BY <1>19, <2>1, <2>4 DEF Close, Then
  <2> HIDE DEF h
  <2>6. /\ r \in Record /\ r.at = "run" /\ r.funcs = h \o <<"after_close">>
        /\ r.stack = chain[c].stack /\ ~r.idling
    BY <2>1, <2>4 DEF Record
  <2> HIDE DEF r
  <2>7. Placed(r, h, <<"after_close">>, state, "closed")
    BY <2>2, <2>6 DEF Placed
  <2>8. Driving(r, h, <<"after_close">>, evt_handlers, state, full, "closed")
    BY <2>2, <2>6, <2>7 DEF Driving, Served, Advancing
  <2>9. Charged(r, evt_handlers, state, full, "closed", write_failed)
    BY <1>12, <2>3, <2>6, <2>8 DEF Charged
  <2> QED
    BY <1>19, <1>a, <2>1, <2>5, <2>9, StaysInCharge DEF Close
<1>20. ASSUME NEW c \in Chains, AfterClose(c) PROVE ConnInv'
  <2> DEFINE r == [chain[c] EXCEPT !.funcs = <<>>]
  <2>1. /\ OthersOver(c) /\ chain[c] \in Record /\ chain[c].at = "run" /\ ~chain[c].idling
        /\ Driving(chain[c], <<>>, <<"after_close">>, evt_handlers, state, full, life)
        /\ Rest(c) = <<>>
    BY <1>8, <1>9, <1>20, TailsByHead DEF AfterClose
  <2>2. chain[c].stack \in {<<"conn">>, <<"conn", "epevt">>}
    BY <2>1 DEF Driving, Placed, Advancing
  <2>3. <<>> \in Seq(Functions) /\ <<>> \o <<>> = <<>>
    BY EmptySeq, ConcatEmptySeq
  <2>4. chain' = [chain EXCEPT ![c] = r]
    BY <1>20, <2>1, <2>3 DEF AfterClose, Continue, Then
  <2>5. /\ r \in Record /\ r.at = "run" /\ r.funcs = <<>> /\ r.stack = chain[c].stack
        /\ ~r.idling
    BY <2>1, <2>3 DEF Record
  <2> HIDE DEF r
  <2>6. Charged(r, evt_handlers, state, full, "freed", write_failed)
    BY <2>2, <2>5 DEF Charged, Done, Excused
  <2> QED
    BY <1>20, <1>a, <2>1, <2>4, <2>6, StaysInCharge DEF AfterClose
<1>21. CASE UNCHANGED vars
  BY <1>21 DEF vars, ConnInv, InCharge
<1>22. CASE PeerCloses
  BY <1>22 DEF PeerCloses, ConnInv, InCharge
<1>23. ASSUME NEW c \in Chains, Step(c) PROVE ConnInv'
  <2>1. \A f : \A req \in Requests :
           /\ NextFunc(c, f, req)
           /\ <<f, req>> \in {<<"next_r", "r">>, <<"next_s", "s">>, <<"next_c", "c">>}
           => ConnInv'
    BY <1>5
  <2>2. NextFunc(c, "next_r", "r") \/ NextFunc(c, "next_s", "s")
            \/ NextFunc(c, "next_c", "c") => ConnInv'
    BY <2>1
  <2> QED
    BY <1>23, <1>1, <1>2, <1>3, <1>6, <1>7, <1>10, <1>11, <1>13, <1>15, <1>16, <1>17, <1>18, <1>19,
       <1>20, <2>2 DEF Step
<1> QED
  BY <1>14, <1>21, <1>22, <1>23 DEF Next, OwnRequests

-----------------------------------------------------------------------------
(* A request that was made is never replaced by a later one, nor dropped   *)
(* by a callback about to idle, whatever the handlers and the threads are  *)
(* (uo_tcp_conn.c:37,169,189).                                             *)
THEOREM RequestsAreKept == Spec => PendingRequestKept
<1> DEFINE Kept == (state \in Requests) => (state' \in {state, "0"})
<1>1. ASSUME [Next]_vars PROVE Kept
  <2>1. ASSUME NEW a, NEW req, NextState(a, req) PROVE Kept
    BY <2>1 DEF NextState, Requests
  <2>2. ASSUME NEW a, NextStateIdle(a) PROVE Kept
    BY <2>2 DEF NextStateIdle, Requests
  <2>3. ASSUME NEW c \in Chains, Step(c) PROVE Kept
    <3>1. \A f, req : NextFunc(c, f, req) => Kept
      BY <2>1 DEF NextFunc
    <3>2. Recv(c) \/ Send(c) \/ LengthPrefixRecv(c) => Kept
      BY <2>1 DEF Recv, Send, LengthPrefixRecv
    <3>3. Advance(c) \/ AdvanceIdle(c) => Kept
      BY DEF Advance, AdvanceIdle, Requests
    <3>4. Dispatch(c) \/ EndChain(c) \/ BeforeRecv(c) \/ ExecuteIo(c) \/ AfterSend(c) \/ Close(c)
          \/ AfterClose(c) \/ Handler(c) => Kept
      BY DEF Dispatch, EndChain, BeforeRecv, ExecuteIo, AfterSend, Close, AfterClose, Handler
    <3> QED
      BY <2>2, <2>3, <3>1, <3>2, <3>3, <3>4 DEF Step
  <2>4. ASSUME NEW c \in Chains, IoReady(c) PROVE Kept
    BY <2>4 DEF IoReady
  <2>5. ASSUME NEW u \in Users, User(u) PROVE Kept
    BY <2>1, <2>2, <2>5 DEF User, UserRequest
  <2>6. CASE PeerCloses
    BY <2>6 DEF PeerCloses
  <2>7. CASE UNCHANGED vars
    BY <2>7 DEF vars
  <2> QED
    BY <1>1, <2>3, <2>4, <2>5, <2>6, <2>7 DEF Next
<1> QED
  BY <1>1, PTL DEF Spec, PendingRequestKept

(* The invariant of the connection, for handlers of the options.           *)
LEMMA ConnInvariant == ASSUME OwnRequests PROVE Spec => []ConnInv
<1>1. Init => ConnInv
  BY ConnInit
<1>2. ConnInv /\ [Next]_vars => ConnInv'
  BY ConnStep
<1> QED
  BY <1>1, <1>2, PTL DEF Spec

(* Whatever reads, writes and epoll calls fail, no function runs after the *)
(* connection was freed, each finds the connection at index 0 of its       *)
(* stack, and the stack never holds more than four pointers                *)
(* (uo_tcp_conn.c:29,56,124, uo_io.c:342).                                 *)
THEOREM ConnIsSound == ASSUME OwnRequests PROVE Spec => []ConnSound
<1>1. ASSUME ConnInv PROVE ConnSound
  <2>1. \A c \in Chains : \/ chain[c] = NoChain
                          \/ Charged(chain[c], evt_handlers, state, full, life, write_failed)
    BY <1>1 DEF ConnInv, InCharge
  <2>2. ASSUME NEW c \in Chains
        PROVE  /\ life = "freed" => chain[c].funcs = <<>> /\ ~chain[c].idling
               /\ chain[c].funcs # <<>> => chain[c].stack # <<>> /\ Head(chain[c].stack) = "conn"
               /\ Len(chain[c].stack) <= 4
               /\ ~Live(c) => chain[c] = NoChain
    <3>1. CASE chain[c] = NoChain
      BY <3>1 DEF NoChain
    <3>2. CASE Done(chain[c], state, life)
      <4>2. life = "freed" => ~chain[c].idling
        BY <3>2 DEF Done
      <4>3. Len(chain[c].stack) <= 4
        <5>1. CASE chain[c].stack = <<>>
          BY <5>1
        <5>2. CASE chain[c].stack = <<"conn">>
          BY <5>2
        <5>3. CASE chain[c].stack = <<"conn", "epevt">>
          BY <5>3
        <5> QED
          BY <3>2, <5>1, <5>2, <5>3 DEF Done
      <4>4. chain[c].funcs = <<>> /\ Live(c)
        BY <3>2 DEF Done, Live
      <4> QED
        BY <4>2, <4>3, <4>4
    <3>3. ASSUME NEW h \in Seq(HandlerFuncs), NEW t \in Tails,
                 Driving(chain[c], h, t, evt_handlers, state, full, life)
          PROVE  /\ life # "freed" /\ Live(c)
                 /\ chain[c].stack \in {<<"conn">>, <<"conn", "epevt">>, <<"conn", "len">>,
                        <<"conn", "err", "zero">>, <<"conn", "epevt", "err", "zero">>}
      BY <3>3 DEF Driving, Placed, Live
    <3>4. ASSUME chain[c].stack \in {<<"conn">>, <<"conn", "epevt">>, <<"conn", "len">>,
                        <<"conn", "err", "zero">>, <<"conn", "epevt", "err", "zero">>}
          PROVE  /\ chain[c].stack # <<>> /\ Head(chain[c].stack) = "conn"
                 /\ Len(chain[c].stack) <= 4
      <4>1. CASE chain[c].stack = <<"conn">>
        BY <4>1
      <4>2. CASE chain[c].stack = <<"conn", "epevt">>
        BY <4>2
      <4>3. CASE chain[c].stack = <<"conn", "len">>
        BY <4>3
      <4>4. CASE chain[c].stack = <<"conn", "err", "zero">>
        BY <4>4
      <4>5. CASE chain[c].stack = <<"conn", "epevt", "err", "zero">>
        BY <4>5
      <4> QED
        BY <3>4, <4>1, <4>2, <4>3, <4>4, <4>5
    <3> QED
      BY <2>1, <3>1, <3>2, <3>3, <3>4 DEF Charged
  <2>3. TypeOK
    <3>1. \A c \in Chains : /\ chain[c].at \in {"none", "queued", "run", "io"}
                            /\ chain[c].funcs \in Seq(Functions)
                            /\ chain[c].stack \in Seq(Pointers)
                            /\ chain[c].idling \in BOOLEAN
      BY <1>1 DEF ConnInv, Record
    <3>2. call \in [Agents -> Requests \cup {"none"}] /\ \A a \in Agents : waits[a] = {}
      BY <1>1 DEF ConnInv
    <3> QED
      BY <1>1, <2>2, <3>1, <3>2 DEF ConnInv, TypeOK
  <2>4. \A a \in Agents : call[a] = "none"
    BY <1>1 DEF ConnInv
  <2> QED
    BY <2>2, <2>3, <2>4 DEF ConnSound, NoUseAfterFree, ConnAtIndexZero, StackBounded
<1> QED
  BY <1>1, ConnInvariant, PTL

(* With a flow option exactly one callback is in charge until the          *)
(* connection is freed or a write failed, so that no two threads drive it  *)
(* and it is never left without one (uo_tcp_conn.c:112-114,140,189-190).   *)
THEOREM OneInCharge ==
    ASSUME OwnRequests, \A eh \in Handlers : FlowHandlers(eh)
    PROVE  Spec => []AlwaysInCharge
<1>1. ASSUME ConnInv PROVE AlwaysInCharge
  <2>0. FlowHandlers(evt_handlers)
    BY <1>1 DEF ConnInv
  <2>1. CASE \A d \in Chains : chain[d] = NoChain
    <3>1. Active = {}
      BY <2>1 DEF Active, Live, NoChain
    <3>2. Excused(evt_handlers, state, life, write_failed)
      <4>1. \A c \in Chains : ~Charged(chain[c], evt_handlers, state, full, life, write_failed)
        BY <2>1, HandlerFront DEF Charged, Done, Driving, NoChain
      <4> QED
        BY <1>1, <4>1 DEF ConnInv, InCharge
    <3> QED
      BY <2>0, <3>1, <3>2 DEF AlwaysInCharge, AbandonedByWrite, Excused
  <2>2. ASSUME NEW c \in Chains, \A d \in Chains : d # c => chain[d] = NoChain,
               Charged(chain[c], evt_handlers, state, full, life, write_failed)
        PROVE  AlwaysInCharge
    <3>1. Live(c)
      BY <2>2 DEF Charged, Done, Driving, Placed, Live
    <3>2. Active = {c}
      BY <2>2, <3>1 DEF Active, Live, NoChain
    <3>3. Cardinality(Active) = 1
      BY <3>2, FS_Singleton
    <3> QED
      BY <3>3 DEF AlwaysInCharge
  <2> QED
    BY <1>1, <2>1, <2>2 DEF ConnInv, InCharge
<1> QED
  BY <1>1, ConnInvariant, PTL

(* A server with length-prefixed messages writes only after a whole        *)
(* message was received, and waits for the next with a clean slate         *)
(* (uo_tcp_conn.c:37,50,82,308-314, uo_tcp_server.c:159,177).              *)
THEOREM RepliesToFullMessages ==
    ASSUME OwnRequests,
           \A eh \in Handlers : eh["after_open"] = <<"next_r">> => ServerHandlers(eh)
    PROVE  Spec => []ReplyOnlyToFullMessage
<1>1. ASSUME ConnInv, evt_handlers["after_open"] = <<"next_r">>, NEW c \in Chains
      PROVE  /\ chain[c].funcs # <<>> /\ Head(chain[c].funcs) = "send" => full
             /\ chain[c].at = "io" => ~full
  <2>1. ServerHandlers(evt_handlers)
    BY <1>1 DEF ConnInv
  <2>2. CASE chain[c].funcs = <<>> /\ chain[c].at # "io"
    BY <2>2
  <2>3. ASSUME NEW h \in Seq(HandlerFuncs), NEW t \in Tails,
               Driving(chain[c], h, t, evt_handlers, state, full, life)
        PROVE  /\ Head(chain[c].funcs) = "send" => full
               /\ chain[c].at = "io" => ~full
    <3>1. chain[c].at = "io" => t = <<"recv">>
      BY <2>3 DEF Driving, Placed
    <3>2. ASSUME Head(chain[c].funcs) = "send" PROVE t = <<"send">>
      <4>1. h = <<>>
        <5>1. "send" \notin HandlerFuncs
          BY DEF HandlerFuncs, NextFuncs, QuietFuncs
        <5> QED
          BY <2>3, <3>2, <5>1, HandlerFront DEF Driving
      <4> QED
        BY <2>3, <3>2, <4>1, HandlerFront, TailsByHead DEF Driving
    <3> QED
      BY <2>1, <2>3, <3>1, <3>2 DEF Driving, Served
  <2> QED
    BY <1>1, <2>2, <2>3 DEF ConnInv, InCharge, Charged, Done, NoChain
<1>2. ConnInv => ReplyOnlyToFullMessage
  BY <1>1 DEF ReplyOnlyToFullMessage
<1> QED
  BY <1>2, ConnInvariant, PTL

-----------------------------------------------------------------------------
(* HTTP on a connection.                                                   *)

(* the bytes and pieces of text the other end may send                     *)
PeerTokens ==
    UNION {ToSet(WriteToBuf(o)) : o \in PeerMessages["server"] \cup PeerMessages["client"]}

-----------------------------------------------------------------------------
(* The callback is a snapshot s: what it has left to run, its stack, and   *)
(* the parts of the state that its functions depend on.                    *)
Now == [at |-> chain[FirstChain].at, funcs |-> chain[FirstChain].funcs,
        stack |-> chain[FirstChain].stack, state |-> state, temp |-> msg.temp,
        http |-> http, life |-> life]

(* Functions of HTTP handlers p that were prepended to an event, what is   *)
(* left of the handlers of the event, in Seq(qs), and the functions t that *)
(* uo_tcp_conn.c appended to them.  The http_conn is at index 0 as long as *)
(* there is something of p.                                                *)
Running(s, ps, qs, t) ==
    \E p \in ps, q \in Seq(qs) :
        /\ s.funcs = p \o (q \o t)
        /\ s.stack = IF p = <<>> THEN <<"conn">> ELSE <<"http">>

(* an event whose first handler is f                                       *)
Begins(s, f, qs, t) ==
    \E q \in Seq(qs) : s.funcs = <<f>> \o (q \o t) /\ s.stack = <<"conn">>

PassParts  == {<<>>, <<"pass">>, <<"app_http", "pass">>, <<"app_http", "app_http", "pass">>}
ReplyParts == {<<"process", "pass">>, <<"app_http", "process", "pass">>,
               <<"app_http", "app_http", "process", "pass">>}
SendParts  == {<<"s_before_send_response", "pass">>,
               <<"app_http", "s_before_send_response", "pass">>,
               <<"c_before_send_request", "pass">>,
               <<"app_http", "c_before_send_request", "pass">>}
ResetParts == {<<"s_after_send_response", "pass">>,
               <<"app_http", "s_after_send_response", "pass">>}

(* the handlers of each event, as they are joined                          *)
Installed(eh, open, recv, send, sent, close, closed) ==
    /\ \E q \in Seq(HttpFlow) : eh["after_open"] = <<open>> \o q
    /\ eh["before_recv"] \in Seq({"app"})
    /\ \E q \in Seq(RecvFlow) : eh["after_recv"] = <<recv>> \o q
    /\ eh["before_send"] \in Seq({send, "app"})
    /\ \E q \in Seq(HttpFlow) : eh["after_send"] = <<sent>> \o q
    /\ eh["before_close"] \in Seq(HttpFlow \cup {close})
    /\ \E q \in Seq({"app"}) : eh["after_close"] = q \o <<closed>>
ServerHttp(eh) == Installed(eh, "s_after_open", "s_after_recv", "s_before_send", "s_after_send",
                            "s_before_close", "s_after_close")
ClientHttp(eh) == Installed(eh, "c_after_open", "c_after_recv", "c_before_send", "c_after_send",
                            "c_before_close", "c_after_close")

Fresh(s)   == s.temp = <<"offset", 0>>
Offset(s)  == s.temp[1] = "offset"
Handles(s, eh) == s.temp[1] = "handler" /\ ServerHttp(eh)

Opening(s) ==
    /\ s.http = "none" /\ s.life = "open" /\ s.at # "io" /\ s.state = "0" /\ Fresh(s)
    /\ \E f \in {"s_after_open", "c_after_open"} : Begins(s, f, HttpFlow, <<"advance">>)

(* what is requested by the handlers of an event is not known yet, but if  *)
(* a message was received in part it is to read on or to close             *)
Asking(s) ==
    /\ Offset(s) /\ (Fresh(s) \/ s.state \in {"r", "c"})
    /\ Running(s, PassParts, HttpFlow, <<"advance">>)
Reading(s) ==
    /\ Offset(s) /\ s.state = "0" /\ Running(s, {<<>>}, {"app"}, <<"before_recv">>)
Executing(s) ==
    /\ Offset(s) /\ s.state = "0" /\ s.stack = <<"conn", "epevt">>
    /\ s.funcs = <<"execute_io", "recv">>
HasRead(s) ==
    /\ Offset(s) /\ s.state = "0" /\ s.stack \in {<<"conn", "len">>, <<"conn", "err", "zero">>}
    /\ s.funcs = <<"recv">>
HasReceived(s, eh) ==
    /\ Offset(s) /\ s.state = "0"
    /\ \/ ServerHttp(eh) /\ Begins(s, "s_after_recv", RecvFlow, <<"advance">>)
       \/ ClientHttp(eh) /\ Begins(s, "c_after_recv", RecvFlow, <<"advance">>)
Replying(s, eh) ==
    /\ Handles(s, eh) /\ s.state # "r"
    /\ Running(s, PassParts \cup ReplyParts, RecvFlow, <<"advance">>)
Sending(s, eh) ==
    /\ Fresh(s) \/ Handles(s, eh)
    /\ s.state \in {"0", "c"}
    /\ Running(s, PassParts \cup SendParts, {"s_before_send", "c_before_send", "app"}, <<"send">>)
HasSent(s) ==
    /\ Fresh(s)
    /\ Running(s, PassParts \cup ResetParts, HttpFlow \cup {"s_after_send", "c_after_send"},
               <<"after_send", "advance">>)
Resetting(s, eh) ==
    /\ Handles(s, eh)
    /\ \/ Begins(s, "s_after_send", HttpFlow, <<"after_send", "advance">>)
       \/ Running(s, ResetParts, HttpFlow, <<"after_send", "advance">>)
Closes(s) ==
    Running(s, PassParts, HttpFlow \cup {"s_before_close", "c_before_close"}, <<"close">>)

Working(s, eh) ==
    /\ s.http = "open" /\ s.life = "open" /\ s.at # "io"
    /\ \/ Asking(s) \/ Reading(s) \/ Executing(s) \/ HasRead(s) \/ HasReceived(s, eh)
       \/ Replying(s, eh) \/ Sending(s, eh) \/ HasSent(s) \/ Resetting(s, eh) \/ Closes(s)

Parked(s) ==
    /\ s.http = "open" /\ s.life = "open" /\ s.at = "io"
    /\ Offset(s) /\ s.state = "0" /\ s.stack = <<"conn", "epevt">> /\ s.funcs = <<"recv">>

Closed(s) ==
    /\ s.life = "closed" /\ s.at # "io"
    /\ \/ /\ s.http = "open"
          /\ \E f \in {"s_after_close", "c_after_close"} :
                Running(s, {<<>>}, {"app"}, <<f, "after_close">>)
       \/ /\ s.http = "open" /\ s.stack = <<"http">>
          /\ s.funcs \in {<<"app_http", "http_after_close", "after_close">>,
                          <<"http_after_close", "after_close">>}
       \/ s.http = "freed" /\ s.stack = <<"conn">> /\ s.funcs = <<"after_close">>

Over(s) ==
    /\ s.funcs = <<>> /\ s.stack \in Seq(Pointers \cup {"http"}) /\ s.at # "io"
    /\ s.life = "freed" => s.http = "freed"

Mode(s, eh) == Opening(s) \/ Working(s, eh) \/ Parked(s) \/ Closed(s) \/ Over(s)

(* The message being received: a complete one has nothing left to parse,   *)
(* and parsing goes on within the buffer.                                  *)
MsgFields == {"start", "headers", "body", "start_line", "has_headers", "has_body",
              "is_invalid", "temp"}
IsMsg(m)  == m = [f \in MsgFields |-> m[f]]
Parsing(m, len) ==
    /\ IsMsg(m)
    /\ m.temp \in {"offset", "handler"} \X Nat
    /\ m.temp[1] = "offset" => m.temp[2] <= len
    /\ m.start_line \in BOOLEAN /\ m.has_headers \in BOOLEAN /\ m.has_body \in BOOLEAN
    /\ m.has_body => m.start_line /\ (m.temp[1] = "offset" => m.temp[2] = 0)
    /\ m.start_line /\ ~m.has_body /\ m.temp[1] = "offset" => m.temp[2] > 0

Buffers ==
    /\ rbuf \in Seq(PeerTokens) /\ wire \in Seq(PeerTokens)
    /\ rsize \in Nat \ {0} /\ Len(rbuf) <= rsize
    /\ chain[FirstChain].at = "io" => Len(rbuf) < rsize
    /\ Parsing(msg, Len(rbuf))

AllFuncs == HttpFuncs \cup TcpFuncs \cup Functions
Driver   == [at : {"none", "queued", "run", "io"}, funcs : Seq(AllFuncs),
             stack : Seq(Pointers \cup {"http"}), idling : BOOLEAN]
Drivers  == /\ chain \in [Chains -> Driver]
            /\ \A c \in Chains : c # FirstChain => chain[c] = NoChain
HttpConnInv ==
    /\ evt_handlers \in Handlers /\ state \in {"0"} \cup Requests
    /\ http \in {"none", "open", "freed"}
    /\ Drivers /\ Buffers
    /\ Mode(Now, evt_handlers)

-----------------------------------------------------------------------------
(* The first of the functions that are left, and the others.               *)
LEMMA FirstOfParts ==
    ASSUME NEW p \in Seq(AllFuncs), NEW r \in Seq(AllFuncs), p # <<>>
    PROVE  p \o r # <<>> /\ Head(p \o r) = Head(p) /\ Tail(p \o r) = Tail(p) \o r
<1>1. p \o r \in Seq(AllFuncs) /\ p \o r # <<>>
  BY ConcatProperties, ConcatEqualIffEmpty
<1> QED
  BY <1>1

(* The head and the tail of lists of one to four functions.                *)
LEMMA ShortTails ==
    /\ \A a : <<a>> # <<>> /\ Head(<<a>>) = a /\ Tail(<<a>>) = <<>>
    /\ \A a, b : <<a, b>> # <<>> /\ Head(<<a, b>>) = a /\ Tail(<<a, b>>) = <<b>>
    /\ \A a, b, c : <<a, b, c>> # <<>> /\ Head(<<a, b, c>>) = a /\ Tail(<<a, b, c>>) = <<b, c>>
    /\ \A a, b, c, d : <<a, b, c, d>> # <<>> /\ Head(<<a, b, c, d>>) = a
           /\ Tail(<<a, b, c, d>>) = <<b, c, d>>
<1>1. \A a : <<a>> # <<>> /\ Head(<<a>>) = a /\ Tail(<<a>>) = <<>>
  OBVIOUS
<1>2. \A a, b : <<a, b>> # <<>> /\ Head(<<a, b>>) = a /\ Tail(<<a, b>>) = <<b>>
  OBVIOUS
<1>3. \A a, b, c : <<a, b, c>> # <<>> /\ Head(<<a, b, c>>) = a /\ Tail(<<a, b, c>>) = <<b, c>>
  OBVIOUS
<1>4. \A a, b, c, d : <<a, b, c, d>> # <<>> /\ Head(<<a, b, c, d>>) = a
          /\ Tail(<<a, b, c, d>>) = <<b, c, d>>
  OBVIOUS
<1> QED
  BY <1>1, <1>2, <1>3, <1>4

(* Lists of up to four members of a set are sequences over it.             *)
LEMMA ShortSeqs ==
    ASSUME NEW S
    PROVE  /\ <<>> \in Seq(S)
           /\ \A a \in S : <<a>> \in Seq(S)
           /\ \A a, b \in S : <<a, b>> \in Seq(S)
           /\ \A a, b, c \in S : <<a, b, c>> \in Seq(S)
           /\ \A a, b, c, d \in S : <<a, b, c, d>> \in Seq(S)
OBVIOUS

AllParts == PassParts \cup ReplyParts \cup SendParts \cup ResetParts

(* Whatever HTTP functions are prepended to an event, they are a list of   *)
(* functions the driver can run.                                           *)
LEMMA PartsAreText == AllParts \subseteq Seq(AllFuncs)
<1>1. {"pass", "app_http", "process", "s_before_send_response", "c_before_send_request",
       "s_after_send_response"} \subseteq AllFuncs
  BY DEF AllFuncs, HttpFuncs
<1>2. PassParts \subseteq Seq(AllFuncs)
  BY <1>1, ShortSeqs DEF PassParts
<1>3. ReplyParts \subseteq Seq(AllFuncs)
  BY <1>1, ShortSeqs DEF ReplyParts
<1>4. SendParts \subseteq Seq(AllFuncs)
  BY <1>1, ShortSeqs DEF SendParts
<1>5. ResetParts \subseteq Seq(AllFuncs)
  BY <1>1, ShortSeqs DEF ResetParts
<1> QED
  BY <1>2, <1>3, <1>4, <1>5 DEF AllParts

(* What is left of the functions of an HTTP handler after the first.       *)
LEMMA PassFirst ==
    \A p \in PassParts : p # <<>> =>
        \/ Head(p) = "pass" /\ Tail(p) = <<>>
        \/ Head(p) = "app_http" /\ Tail(p) \in PassParts /\ Tail(p) # <<>>
<1>1. <<"pass">> # <<>> /\ Head(<<"pass">>) = "pass"
      /\ Tail(<<"pass">>) = <<>>
  OBVIOUS
<1>2. <<"app_http", "pass">> # <<>> /\ Head(<<"app_http", "pass">>) = "app_http"
      /\ Tail(<<"app_http", "pass">>) = <<"pass">>
  OBVIOUS
<1>3. <<"app_http", "app_http", "pass">> # <<>>
          /\ Head(<<"app_http", "app_http", "pass">>) = "app_http"
      /\ Tail(<<"app_http", "app_http", "pass">>) = <<"app_http", "pass">>
  OBVIOUS
<1> QED
  BY <1>1, <1>2, <1>3 DEF PassParts

(* The functions that reply to a request run in order: the application's,  *)
(* then uo_http_server_process_request, then the one that hands the event  *)
(* back to uo_tcp.                                                         *)
LEMMA ReplyFirst ==
    \A p \in ReplyParts :
        /\ p # <<>>
        /\ \/ Head(p) = "process" /\ Tail(p) = <<"pass">>
           \/ Head(p) = "app_http" /\ Tail(p) \in ReplyParts
<1>1. <<"process", "pass">> # <<>> /\ Head(<<"process", "pass">>) = "process"
      /\ Tail(<<"process", "pass">>) = <<"pass">>
  OBVIOUS
<1>2. <<"app_http", "process", "pass">> # <<>>
          /\ Head(<<"app_http", "process", "pass">>) = "app_http"
      /\ Tail(<<"app_http", "process", "pass">>) = <<"process", "pass">>
  OBVIOUS
<1>3. <<"app_http", "app_http", "process", "pass">> # <<>>
          /\ Head(<<"app_http", "app_http", "process", "pass">>) = "app_http"
      /\ Tail(<<"app_http", "app_http", "process", "pass">>) = <<"app_http", "process", "pass">>
  OBVIOUS
<1> QED
  BY <1>1, <1>2, <1>3 DEF ReplyParts

(* The functions that send a message run in order, the application's       *)
(* first.                                                                  *)
LEMMA SendFirst ==
    \A p \in SendParts :
        /\ p # <<>>
        /\ \/ Head(p) \in {"s_before_send_response", "c_before_send_request"}
                  /\ Tail(p) = <<"pass">>
           \/ Head(p) = "app_http" /\ Tail(p) \in SendParts
<1>1. <<"s_before_send_response", "pass">> # <<>>
          /\ Head(<<"s_before_send_response", "pass">>) = "s_before_send_response"
      /\ Tail(<<"s_before_send_response", "pass">>) = <<"pass">>
  OBVIOUS
<1>2. <<"app_http", "s_before_send_response", "pass">> # <<>>
          /\ Head(<<"app_http", "s_before_send_response", "pass">>) = "app_http"
      /\ Tail(<<"app_http", "s_before_send_response", "pass">>) =
             <<"s_before_send_response", "pass">>
  OBVIOUS
<1>3. <<"c_before_send_request", "pass">> # <<>>
          /\ Head(<<"c_before_send_request", "pass">>) = "c_before_send_request"
      /\ Tail(<<"c_before_send_request", "pass">>) = <<"pass">>
  OBVIOUS
<1>4. <<"app_http", "c_before_send_request", "pass">> # <<>>
          /\ Head(<<"app_http", "c_before_send_request", "pass">>) = "app_http"
      /\ Tail(<<"app_http", "c_before_send_request", "pass">>) = <<"c_before_send_request", "pass">>
  OBVIOUS
<1> QED
  BY <1>1, <1>2, <1>3, <1>4 DEF SendParts

(* The functions that follow a response that was sent run in order, the    *)
(* application's first.                                                    *)
LEMMA ResetFirst ==
    \A p \in ResetParts :
        /\ p # <<>>
        /\ \/ Head(p) = "s_after_send_response" /\ Tail(p) = <<"pass">>
           \/ Head(p) = "app_http" /\ Tail(p) \in ResetParts
<1>1. <<"s_after_send_response", "pass">> # <<>>
          /\ Head(<<"s_after_send_response", "pass">>) = "s_after_send_response"
      /\ Tail(<<"s_after_send_response", "pass">>) = <<"pass">>
  OBVIOUS
<1>2. <<"app_http", "s_after_send_response", "pass">> # <<>>
          /\ Head(<<"app_http", "s_after_send_response", "pass">>) = "app_http"
      /\ Tail(<<"app_http", "s_after_send_response", "pass">>) = <<"s_after_send_response", "pass">>
  OBVIOUS
<1> QED
  BY <1>1, <1>2 DEF ResetParts

(* The first function is one of an HTTP handler, of the event's handlers,  *)
(* or of uo_tcp_conn.c.                                                    *)
StartsIn(s, ps, qs, t) ==
    \/ \E p \in ps, q \in Seq(qs) :
          /\ p # <<>> /\ s.funcs # <<>> /\ s.stack = <<"http">>
          /\ Head(s.funcs) = Head(p) /\ Tail(s.funcs) = Tail(p) \o (q \o t)
    \/ \E q \in Seq(qs) :
          /\ s.funcs # <<>> /\ s.stack = <<"conn">>
          /\ Head(s.funcs) \in qs /\ Tail(s.funcs) = <<>> \o (q \o t)
    \/ s.funcs = t /\ s.stack = <<"conn">>

(* In the midst of an event the next function is the first of the          *)
(* prepended ones, the first of the event's own handlers, or the first     *)
(* that uo_tcp_conn.c appended, and what follows it is known.              *)
LEMMA Runs ==
    ASSUME NEW ps, ps \subseteq Seq(AllFuncs), NEW qs, qs \subseteq AllFuncs,
           NEW t \in Seq(AllFuncs), NEW s, Running(s, ps, qs, t)
    PROVE  /\ s.funcs \in Seq(AllFuncs) /\ s.stack \in {<<"conn">>, <<"http">>}
           /\ StartsIn(s, ps, qs, t)
<1>1. PICK p \in ps, q \in Seq(qs) : /\ s.funcs = p \o (q \o t)
                                     /\ s.stack = IF p = <<>> THEN <<"conn">> ELSE <<"http">>
  BY DEF Running
<1>2. p \in Seq(AllFuncs) /\ q \in Seq(AllFuncs) /\ q \o t \in Seq(AllFuncs)
      /\ s.funcs \in Seq(AllFuncs)
  <2>1. q \in Seq(AllFuncs)
    BY SeqMonotonic
  <2>2. p \in Seq(AllFuncs) /\ q \o t \in Seq(AllFuncs)
    BY <2>1, ConcatProperties
  <2> QED
    BY <1>1, <2>1, <2>2, ConcatProperties
<1>3. CASE p # <<>>
  <2>1. s.funcs # <<>> /\ Head(s.funcs) = Head(p) /\ Tail(s.funcs) = Tail(p) \o (q \o t)
    BY <1>1, <1>2, <1>3, FirstOfParts
  <2> QED
    BY <1>1, <1>2, <1>3, <2>1 DEF StartsIn
<1>4. CASE p = <<>> /\ q # <<>>
  <2>1. s.funcs = q \o t
    BY <1>1, <1>2, <1>4, ConcatEmptySeq
  <2>2. s.funcs # <<>> /\ Head(s.funcs) = Head(q) /\ Tail(s.funcs) = Tail(q) \o t
    BY <1>2, <1>4, <2>1, FirstOfParts
  <2>3. Head(q) \in qs /\ Tail(q) \in Seq(qs)
    BY <1>4, HeadTailProperties
  <2>4. Tail(s.funcs) = <<>> \o (Tail(q) \o t)
    <3>1. Tail(q) \o t \in Seq(AllFuncs)
      BY <2>3, SeqMonotonic, ConcatProperties
    <3> QED
      BY <2>2, <3>1, ConcatEmptySeq
  <2> QED
    BY <1>1, <1>2, <1>4, <2>2, <2>3, <2>4 DEF StartsIn
<1>5. CASE p = <<>> /\ q = <<>>
  <2>1. s.funcs = t
    BY <1>1, <1>2, <1>5, ConcatEmptySeq
  <2> QED
    BY <1>1, <1>2, <1>5, <2>1 DEF StartsIn
<1> QED
  BY <1>3, <1>4, <1>5

-----------------------------------------------------------------------------
(* What the functions do to the snapshot, as uo_cb_invoke calls them one   *)
(* after the other.                                                        *)
Continues(s, s2, first) ==
    s2.funcs = first \o Tail(s.funcs) /\ s2.stack = s.stack
Swaps(s, s2, first, p) ==
    s2.funcs = first \o Tail(s.funcs) /\ s2.stack = Append(Pop(s.stack), p)
Follows(s, s2, more, f) ==
    s2.funcs = Tail(s.funcs) \o (more \o <<f>>) /\ s2.stack = s.stack
SameConn(s, s2)  == s2.at = s.at /\ s2.http = s.http /\ s2.life = s.life
SameState(s, s2) == s2.state = s.state
SameTemp(s, s2)  == s2.temp = s.temp
Asks(s, s2, req) == s2.state = Requested(s.state, req)

(* of an HTTP handler, with the http_conn at index 0                       *)
HttpRuns(f, s, s2) ==
    \/ /\ f = "app_http" /\ Continues(s, s2, <<>>) /\ SameConn(s, s2) /\ SameTemp(s, s2)
       /\ SameState(s, s2) \/ Asks(s, s2, "c")
    \/ /\ f \in {"s_before_send_response", "c_before_send_request"}
       /\ Continues(s, s2, <<>>) /\ SameConn(s, s2) /\ SameTemp(s, s2) /\ SameState(s, s2)
    \/ /\ f = "s_after_send_response"
       /\ Continues(s, s2, <<>>) /\ SameConn(s, s2) /\ Fresh(s2) /\ SameState(s, s2)
    \/ /\ f = "process" /\ SameConn(s, s2) /\ SameState(s, s2)
       /\ \/ Continues(s, s2, <<>>) /\ SameTemp(s, s2)
          \/ Continues(s, s2, <<"app_http", "process">>) /\ s2.temp[1] = "handler"
    \/ /\ f = "pass" /\ Swaps(s, s2, <<>>, "conn")
       /\ SameConn(s, s2) /\ SameTemp(s, s2) /\ SameState(s, s2)
    \/ /\ f = "http_after_close" /\ Swaps(s, s2, <<>>, "conn")
       /\ s2.at = s.at /\ s2.http = "freed" /\ s2.life = s.life

(* of the event, with the tcp_conn at index 0                              *)
EventRuns(f, s, s2) ==
    \/ /\ f \in {"app", "lp_send"} /\ Continues(s, s2, <<>>)
       /\ SameConn(s, s2) /\ SameTemp(s, s2) /\ SameState(s, s2)
    \/ /\ Continues(s, s2, <<>>) /\ SameConn(s, s2) /\ SameTemp(s, s2)
       /\ \/ f = "next_r" /\ Asks(s, s2, "r")
          \/ f = "next_s" /\ Asks(s, s2, "s")
          \/ f = "next_c" /\ Asks(s, s2, "c")
    \/ /\ f \in {"s_after_open", "c_after_open"} /\ Swaps(s, s2, <<"app_http", "pass">>, "http")
       /\ s2.at = s.at /\ s2.http = "open" /\ s2.life = s.life /\ Fresh(s2) /\ SameState(s, s2)
    \/ /\ \/ /\ f = "s_before_send"
             /\ Swaps(s, s2, <<"app_http", "s_before_send_response", "pass">>, "http")
          \/ /\ f = "c_before_send"
             /\ Swaps(s, s2, <<"app_http", "c_before_send_request", "pass">>, "http")
       /\ SameConn(s, s2) /\ SameTemp(s, s2) /\ SameState(s, s2)
    \/ /\ f = "s_after_send"
       /\ Swaps(s, s2, <<"app_http", "s_after_send_response", "pass">>, "http")
       /\ SameConn(s, s2) /\ SameTemp(s, s2) /\ (Asks(s, s2, "c") \/ Asks(s, s2, "r"))
    \/ /\ f \in {"c_after_send", "s_before_close", "c_before_close"}
       /\ Swaps(s, s2, <<"app_http", "pass">>, "http")
       /\ SameConn(s, s2) /\ SameTemp(s, s2) /\ SameState(s, s2)
    \/ /\ f \in {"s_after_close", "c_after_close"}
       /\ Swaps(s, s2, <<"app_http", "http_after_close">>, "http")
       /\ SameConn(s, s2) /\ SameTemp(s, s2) /\ SameState(s, s2)

(* of the event of received data: of a complete message, or of a part      *)
Complete(f) == IF f = "s_after_recv" THEN <<"app_http", "process", "pass">>
    ELSE <<"app_http", "pass">>
RecvRuns(f, s, s2, eh) ==
    /\ f \in {"s_after_recv", "c_after_recv"} /\ SameConn(s, s2)
    /\ \/ /\ SameState(s, s2)
          /\ IF "s_after_open" \in ToSet(eh["after_open"]) THEN s2.temp[1] = "handler"
                 ELSE Fresh(s2)
          /\ Swaps(s, s2, Complete(f), "http")
                 \/ Swaps(s, s2, <<"app_http">> \o Complete(f), "http")
       \/ /\ Asks(s, s2, "r") /\ Offset(s2)
          /\ Continues(s, s2, <<>>) \/ Swaps(s, s2, <<"app_http", "pass">>, "http")

(* of uo_tcp_conn.c and uo_io.c                                            *)
ConnRuns(f, s, s2, eh) ==
    \/ /\ f = "advance" /\ SameConn(s, s2) /\ SameTemp(s, s2) /\ s2.state = "0"
       /\ \/ s.state = "r" /\ Follows(s, s2, eh["before_recv"], "before_recv")
          \/ s.state = "s" /\ Follows(s, s2, eh["before_send"], "send")
          \/ s.state = "c" /\ Follows(s, s2, eh["before_close"], "close")
          \/ s.state = "0" /\ s2.funcs = Tail(s.funcs) /\ s2.stack = s.stack
    \/ /\ f = "before_recv" /\ SameTemp(s, s2) /\ SameState(s, s2)
       /\ s2.funcs = <<"recv">> \o Tail(s.funcs) /\ s2.stack = Append(s.stack, "epevt")
       /\ s2.at = "io" /\ s2.http = s.http /\ s2.life = s.life
    \/ /\ f = "execute_io" /\ SameConn(s, s2) /\ SameTemp(s, s2) /\ SameState(s, s2)
       /\ s2.funcs = Tail(s.funcs)
       /\ s2.stack = Pop(s.stack) \o <<"len">> \/ s2.stack = Pop(s.stack) \o <<"err", "zero">>
    \/ /\ f = "recv" /\ SameConn(s, s2) /\ SameTemp(s, s2)
       /\ \/ /\ Top(s.stack) # "zero" /\ SameState(s, s2) /\ s2.stack = Pop(s.stack)
             /\ s2.funcs = Tail(s.funcs) \o (eh["after_recv"] \o <<"advance">>)
          \/ /\ Top(s.stack) = "zero" /\ Asks(s, s2, "c") /\ s2.stack = Pop(Pop(s.stack))
             /\ s2.funcs = Tail(s.funcs) \o <<"advance">>
    \/ /\ f = "send" /\ SameConn(s, s2) /\ SameTemp(s, s2)
       /\ \/ /\ SameState(s, s2) /\ s2.stack = s.stack
             /\ s2.funcs = Tail(s.funcs) \o (eh["after_send"] \o <<"after_send", "advance">>)
          \/ Asks(s, s2, "c") /\ s2.stack = Pop(s.stack) /\ s2.funcs = Tail(s.funcs)
    \/ /\ f = "after_send" /\ Continues(s, s2, <<>>)
       /\ SameConn(s, s2) /\ SameTemp(s, s2) /\ SameState(s, s2)
    \/ /\ f = "close" /\ Follows(s, s2, eh["after_close"], "after_close")
       /\ s2.at = s.at /\ s2.http = s.http /\ s2.life = "closed" /\ SameTemp(s, s2)
              /\ SameState(s, s2)
    \/ /\ f = "after_close" /\ Continues(s, s2, <<>>)
       /\ s2.at = s.at /\ s2.http = s.http /\ s2.life = "freed"

Invokes(f, s, s2, eh) ==
    \/ HttpRuns(f, s, s2) \/ EventRuns(f, s, s2) \/ RecvRuns(f, s, s2, eh) \/ ConnRuns(f, s, s2, eh)

(* The pointer at index 0 is swapped.                                      *)
LEMMA Swapped == \A a, b : Append(Pop(<<a>>), b) = <<b>>
<1>1. \A a : Pop(<<a>>) = <<>>
  BY Popped
<1>2. \A b : Append(<<>>, b) = <<b>>
  OBVIOUS
<1> QED
  BY <1>1, <1>2

(* Joining lists of functions is associative.                              *)
LEMMA Regrouped ==
    ASSUME NEW a, NEW b, NEW c, a \in Seq(AllFuncs), b \in Seq(AllFuncs), c \in Seq(AllFuncs)
    PROVE  (a \o b) \o c = a \o (b \o c)
BY ConcatAssociative

(* A function leaves what is left of its handler, prepends, or swaps.      *)
LEMMA NextPart ==
    ASSUME NEW ps, NEW qs, qs \subseteq AllFuncs, NEW t \in Seq(AllFuncs), NEW q \in Seq(qs),
           NEW first \in Seq(AllFuncs), NEW rest \in Seq(AllFuncs), NEW s, NEW s2, NEW y,
           Tail(s.funcs) = rest \o (q \o t), first \o rest \in ps, s.stack = <<y>>,
           \/ /\ Continues(s, s2, first)
              /\ y = IF first \o rest = <<>> THEN "conn" ELSE "http"
           \/ Swaps(s, s2, first, IF first \o rest = <<>> THEN "conn" ELSE "http")
    PROVE  Running(s2, ps, qs, t)
<1> DEFINE u == q \o t
           p == first \o rest
           x == IF p = <<>> THEN "conn" ELSE "http"
<1>1. u \in Seq(AllFuncs)
  BY SeqMonotonic, ConcatProperties
<1>2. s2.funcs = first \o (rest \o u)
  BY DEF Continues, Swaps
<1>3. s2.funcs = p \o u
  <2> HIDE DEF u
  <2>1. (first \o rest) \o u = first \o (rest \o u)
    BY <1>1, Regrouped
  <2> QED
    BY <1>2, <2>1
<1>4. s2.stack = <<x>>
  <2>1. CASE Continues(s, s2, first) /\ y = x
    BY <2>1 DEF Continues
  <2>2. CASE Swaps(s, s2, first, x)
    BY <2>2, Swapped DEF Swaps
  <2> HIDE DEF x
  <2> QED
    BY <2>1, <2>2 DEF x
<1>5. s2.stack = IF p = <<>> THEN <<"conn">> ELSE <<"http">>
  BY <1>4
<1>6. p \in ps
  OBVIOUS
<1> HIDE DEF p
<1> QED
  BY <1>3, <1>5, <1>6 DEF Running

(* A function of the prepended ones that prepends nothing leaves the       *)
(* others of them, and the last of them has to swap the connections back.  *)
LEMMA NextOfHttp ==
    ASSUME NEW ps, NEW qs, qs \subseteq AllFuncs, NEW t \in Seq(AllFuncs), NEW q \in Seq(qs),
           NEW rest \in Seq(AllFuncs), NEW s, NEW s2,
           Tail(s.funcs) = rest \o (q \o t), rest \in ps, s.stack = <<"http">>
    PROVE  /\ Continues(s, s2, <<>>) /\ rest # <<>> => Running(s2, ps, qs, t)
           /\ Swaps(s, s2, <<>>, "conn") /\ rest = <<>> => Running(s2, ps, qs, t)
<1>1. <<>> \in Seq(AllFuncs) /\ <<>> \o rest = rest
  BY ShortSeqs, ConcatEmptySeq
<1>2. ASSUME Continues(s, s2, <<>>), rest # <<>> PROVE Running(s2, ps, qs, t)
  BY <1>1, <1>2, NextPart
<1>3. ASSUME Swaps(s, s2, <<>>, "conn"), rest = <<>> PROVE Running(s2, ps, qs, t)
  BY <1>1, <1>3, NextPart
<1> QED
  BY <1>2, <1>3

(* A handler of the event that prepends nothing leaves the others, and one *)
(* that prepends functions has to put the http_conn on the stack for them. *)
LEMMA NextOfEvent ==
    ASSUME NEW ps, NEW qs, qs \subseteq AllFuncs, NEW t \in Seq(AllFuncs), NEW q \in Seq(qs),
           NEW s, NEW s2, Tail(s.funcs) = <<>> \o (q \o t), s.stack = <<"conn">>
    PROVE  /\ Continues(s, s2, <<>>) /\ <<>> \in ps => Running(s2, ps, qs, t)
           /\ \A first \in ps : first \in Seq(AllFuncs) /\ first # <<>>
                  /\ Swaps(s, s2, first, "http")
                => Running(s2, ps, qs, t)
<1>1. <<>> \in Seq(AllFuncs) /\ <<>> \o <<>> = <<>>
  BY ShortSeqs, ConcatEmptySeq
<1>2. ASSUME Continues(s, s2, <<>>), <<>> \in ps PROVE Running(s2, ps, qs, t)
  BY <1>1, <1>2, NextPart
<1>3. ASSUME NEW first \in ps, first \in Seq(AllFuncs), first # <<>>, Swaps(s, s2, first, "http")
      PROVE  Running(s2, ps, qs, t)
  <2>1. first \o <<>> = first
    BY <1>3, ConcatEmptySeq
  <2> QED
    BY <1>1, <1>3, <2>1, NextPart
<1> QED
  BY <1>2, <1>3

(* An event stays what it is when more handlers are allowed for it.        *)
LEMMA RunningMore ==
    ASSUME NEW s, NEW ps, NEW qs, NEW ps2, NEW qs2, NEW t, ps \subseteq ps2, qs \subseteq qs2,
           Running(s, ps, qs, t)
    PROVE  Running(s, ps2, qs2, t)
BY SeqMonotonic DEF Running

(* An event begins: the handlers of its list, and then a function f.       *)
LEMMA RunningAll ==
    ASSUME NEW s, NEW ps, <<>> \in ps, NEW qs, qs \subseteq AllFuncs, NEW t \in Seq(AllFuncs),
           NEW q \in Seq(qs), s.funcs = q \o t, s.stack = <<"conn">>
    PROVE  Running(s, ps, qs, t)
<1>1. q \o t \in Seq(AllFuncs)
  BY SeqMonotonic, ConcatProperties
<1>2. s.funcs = <<>> \o (q \o t)
  BY <1>1, ConcatEmptySeq
<1> QED
  BY <1>2 DEF Running

-----------------------------------------------------------------------------
(* Which functions there may be.                                           *)
EventFuncs == {"s_before_send", "c_before_send", "s_after_send", "c_after_send",
               "s_before_close", "c_before_close"}

(* Which functions a handler of each event may be.                         *)
LEMMA Kinds ==
    /\ HttpFlow \subseteq AllFuncs /\ RecvFlow \subseteq HttpFlow /\ {"app"} \subseteq HttpFlow
    /\ EventFuncs \subseteq AllFuncs
    /\ {"s_before_send", "c_before_send", "app"} \subseteq AllFuncs
    /\ HttpFlow \cup {"s_after_send", "c_after_send"} \subseteq AllFuncs
    /\ HttpFlow \cup {"s_before_close", "c_before_close"} \subseteq AllFuncs
BY DEF HttpFlow, RecvFlow, AllFuncs, HttpFuncs, TcpFuncs, Functions, NextFuncs, EventFuncs

Ends == {<<"advance">>, <<"before_recv">>, <<"send">>, <<"after_send", "advance">>, <<"close">>,
         <<"s_after_close", "after_close">>, <<"c_after_close", "after_close">>}

(* What uo_tcp_conn.c appends to an event are lists of functions.          *)
LEMMA EndsAreText == Ends \subseteq Seq(AllFuncs)
<1>1. {"advance", "before_recv", "send", "after_send", "close", "s_after_close", "c_after_close",
       "after_close"} \subseteq AllFuncs
  BY DEF AllFuncs, TcpFuncs, Functions
<1> QED
  BY <1>1, ShortSeqs DEF Ends

(* A function of an HTTP handler runs, with the http_conn at index 0.      *)
LEMMA HttpPart ==
    ASSUME NEW ps, NEW qs, qs \subseteq AllFuncs, NEW t \in Seq(AllFuncs), NEW q \in Seq(qs),
           NEW rest \in Seq(AllFuncs), NEW f, NEW s, NEW s2, NEW eh, Invokes(f, s, s2, eh),
           s.stack = <<"http">>, Tail(s.funcs) = rest \o (q \o t), rest \in ps,
           \/ f = "pass" /\ rest = <<>>
           \/ f \in {"app_http", "s_before_send_response", "c_before_send_request"} /\ rest # <<>>
    PROVE  /\ Running(s2, ps, qs, t) /\ SameConn(s, s2) /\ SameTemp(s, s2)
           /\ SameState(s, s2) \/ Asks(s, s2, "c")
<1>1. CASE f = "pass" /\ rest = <<>>
  <2>1. /\ Swaps(s, s2, <<>>, "conn") /\ SameConn(s, s2) /\ SameTemp(s, s2) /\ SameState(s, s2)
    BY <1>1 DEF Invokes, HttpRuns, EventRuns, RecvRuns, ConnRuns
  <2> QED
    BY <1>1, <2>1, NextOfHttp
<1>2. CASE f \in {"app_http", "s_before_send_response", "c_before_send_request"} /\ rest # <<>>
  <2>1. /\ Continues(s, s2, <<>>) /\ SameConn(s, s2) /\ SameTemp(s, s2)
        /\ SameState(s, s2) \/ Asks(s, s2, "c")
    BY <1>2 DEF Invokes, HttpRuns, EventRuns, RecvRuns, ConnRuns
  <2> QED
    BY <1>2, <2>1, NextOfHttp
<1> QED
  BY <1>1, <1>2

(* A function of the event runs that leaves the tcp_conn at index 0.       *)
LEMMA EventPart ==
    ASSUME NEW ps, <<>> \in ps, NEW qs, qs \subseteq AllFuncs, NEW t \in Seq(AllFuncs),
           NEW q \in Seq(qs), NEW f \in HttpFlow, NEW s, NEW s2, NEW eh, Invokes(f, s, s2, eh),
           s.stack = <<"conn">>, Tail(s.funcs) = <<>> \o (q \o t)
    PROVE  /\ Running(s2, ps, qs, t) /\ SameConn(s, s2) /\ SameTemp(s, s2)
           /\ \/ f = "app" /\ SameState(s, s2)
              \/ f = "next_r" /\ Asks(s, s2, "r")
              \/ f = "next_s" /\ Asks(s, s2, "s")
              \/ f = "next_c" /\ Asks(s, s2, "c")
<1>1. /\ Continues(s, s2, <<>>) /\ SameConn(s, s2) /\ SameTemp(s, s2)
      /\ \/ f = "app" /\ SameState(s, s2)
         \/ f = "next_r" /\ Asks(s, s2, "r")
         \/ f = "next_s" /\ Asks(s, s2, "s")
         \/ f = "next_c" /\ Asks(s, s2, "c")
  BY DEF HttpFlow, NextFuncs, Invokes, HttpRuns, EventRuns, RecvRuns, ConnRuns
<1> QED
  BY <1>1, NextOfEvent

(* A handler that libuo installed runs: the http_conn goes to index 0.     *)
LEMMA EventSwap ==
    ASSUME NEW ps, NEW qs, qs \subseteq AllFuncs, NEW t \in Seq(AllFuncs), NEW q \in Seq(qs),
           NEW f, NEW s, NEW s2, NEW eh, Invokes(f, s, s2, eh),
           s.stack = <<"conn">>, Tail(s.funcs) = <<>> \o (q \o t),
           \/ f = "s_before_send" /\ SendParts \subseteq ps
           \/ f = "c_before_send" /\ SendParts \subseteq ps
           \/ f \in {"c_after_send", "s_before_close", "c_before_close"} /\ PassParts \subseteq ps
    PROVE  Running(s2, ps, qs, t) /\ SameConn(s, s2) /\ SameTemp(s, s2) /\ SameState(s, s2)
<1> DEFINE a == <<"app_http", "s_before_send_response", "pass">>
           b == <<"app_http", "c_before_send_request", "pass">>
           d == <<"app_http", "pass">>
<1>1. a \in SendParts /\ b \in SendParts /\ d \in PassParts
  BY DEF SendParts, PassParts
<1>2. d # <<>>
  OBVIOUS
<1>3. /\ SameConn(s, s2) /\ SameTemp(s, s2) /\ SameState(s, s2)
      /\ \/ f = "s_before_send" /\ Swaps(s, s2, a, "http")
         \/ f = "c_before_send" /\ Swaps(s, s2, b, "http")
         \/ f \in {"c_after_send", "s_before_close", "c_before_close"} /\ Swaps(s, s2, d, "http")
  BY DEF Invokes, HttpRuns, EventRuns, RecvRuns, ConnRuns
<1> HIDE DEF a, b, d
<1>4. \E first \in ps : first \in Seq(AllFuncs) /\ first # <<>> /\ Swaps(s, s2, first, "http")
  BY <1>1, <1>2, <1>3, SendFirst, PartsAreText DEF AllParts
<1> QED
  BY <1>3, <1>4, NextOfEvent

-----------------------------------------------------------------------------
(* Each function leads from one mode to another.                           *)
Stepped(s, s2, eh) ==
    /\ s.state \in {"0"} \cup Requests
    /\ ServerHttp(eh) \/ ClientHttp(eh)
    /\ s.funcs # <<>> /\ Invokes(Head(s.funcs), s, s2, eh)
OpenConn(s) == s.http = "open" /\ s.life = "open" /\ s.at # "io"

(* What is left of the prepended functions after one of them ran is a list *)
(* of functions.                                                           *)
LEMMA RestIsText ==
    \A p \in AllParts : p # <<>> => Tail(p) \in Seq(AllFuncs)
BY PartsAreText, HeadTailProperties

(* uo_tcp_conn_advance begins the operation that was requested, and what   *)
(* is known of the HTTP message is what that operation needs               *)
(* (uo_tcp_conn.c:189-241).                                                *)
LEMMA Advances ==
    ASSUME NEW s, NEW s2, NEW eh, Stepped(s, s2, eh), OpenConn(s),
           s.funcs = <<"advance">>, s.stack = <<"conn">>,
           \/ Offset(s) /\ (Fresh(s) \/ s.state \in {"r", "c"})
           \/ Handles(s, eh) /\ s.state # "r"
    PROVE  Mode(s2, eh)
<1>1. Head(s.funcs) = "advance" /\ Tail(s.funcs) = <<>>
  OBVIOUS
<1>2. /\ SameConn(s, s2) /\ SameTemp(s, s2) /\ s2.state = "0"
      /\ \/ s.state = "r" /\ Follows(s, s2, eh["before_recv"], "before_recv")
         \/ s.state = "s" /\ Follows(s, s2, eh["before_send"], "send")
         \/ s.state = "c" /\ Follows(s, s2, eh["before_close"], "close")
         \/ s.state = "0" /\ s2.funcs = Tail(s.funcs) /\ s2.stack = s.stack
  BY <1>1 DEF Stepped, Invokes, HttpRuns, EventRuns, RecvRuns, ConnRuns
<1>3. OpenConn(s2) /\ (Fresh(s) => Fresh(s2)) /\ (Offset(s) => Offset(s2))
      /\ (Handles(s, eh) => Handles(s2, eh))
  BY <1>2 DEF OpenConn, SameConn, SameTemp, Fresh, Offset, Handles
<1>4. ASSUME NEW qs, qs \subseteq AllFuncs, NEW q \in Seq(qs), NEW f, <<f>> \in Ends,
             Follows(s, s2, q, f), NEW ps, <<>> \in ps
      PROVE  Running(s2, ps, qs, <<f>>)
  <2>1. s2.funcs = <<>> \o (q \o <<f>>) /\ s2.stack = <<"conn">>
    BY <1>1, <1>4 DEF Follows
  <2> QED
    BY <1>4, <2>1 DEF Running
<1>5. <<>> \in PassParts /\ {<<"before_recv">>, <<"send">>, <<"close">>} \subseteq Ends
  BY DEF PassParts, Ends
<1>6. CASE s.state = "r" /\ Follows(s, s2, eh["before_recv"], "before_recv")
  <2>1. eh["before_recv"] \in Seq({"app"}) /\ {"app"} \subseteq AllFuncs
    BY Kinds DEF Stepped, ServerHttp, ClientHttp, Installed
  <2>2. Running(s2, {<<>>}, {"app"}, <<"before_recv">>)
    BY <1>4, <1>5, <1>6, <2>1
  <2> QED
    BY <1>2, <1>3, <1>6, <2>2 DEF Mode, Working, OpenConn, Reading
<1>7. CASE s.state = "s" /\ Follows(s, s2, eh["before_send"], "send")
  <2> DEFINE qs == {"s_before_send", "c_before_send", "app"}
  <2>1. eh["before_send"] \in Seq(qs) /\ qs \subseteq AllFuncs
    <3>1. eh["before_send"] \in Seq({"s_before_send", "app"})
              \/ eh["before_send"] \in Seq({"c_before_send", "app"})
      BY DEF Stepped, ServerHttp, ClientHttp, Installed
    <3> QED
      BY <3>1, Kinds, SeqMonotonic
  <2>2. Running(s2, PassParts \cup SendParts, qs, <<"send">>)
    <3> HIDE DEF qs
    <3> QED
      BY <1>4, <1>5, <1>7, <2>1
  <2>3. Fresh(s) \/ Handles(s, eh)
    BY <1>7
  <2> QED
    BY <1>2, <1>3, <1>7, <2>2, <2>3 DEF Mode, Working, OpenConn, Sending
<1>8. CASE s.state = "c" /\ Follows(s, s2, eh["before_close"], "close")
  <2> DEFINE qs == HttpFlow \cup {"s_before_close", "c_before_close"}
  <2>1. eh["before_close"] \in Seq(qs) /\ qs \subseteq AllFuncs
    <3>1. \/ eh["before_close"] \in Seq(HttpFlow \cup {"s_before_close"})
          \/ eh["before_close"] \in Seq(HttpFlow \cup {"c_before_close"})
      BY DEF Stepped, ServerHttp, ClientHttp, Installed
    <3> QED
      BY <3>1, Kinds, SeqMonotonic
  <2>2. Running(s2, PassParts, qs, <<"close">>)
    <3> HIDE DEF qs
    <3> QED
      BY <1>4, <1>5, <1>8, <2>1
  <2> QED
    BY <1>3, <2>2 DEF Mode, Working, OpenConn, Closes
<1>9. CASE s.state = "0" /\ s2.funcs = Tail(s.funcs) /\ s2.stack = s.stack
  <2>1. s2.stack \in Seq(Pointers \cup {"http"})
    BY <1>9, ShortSeqs DEF Pointers
  <2> QED
    BY <1>1, <1>3, <1>9, <2>1 DEF Mode, Over, OpenConn
<1> QED
  BY <1>2, <1>6, <1>7, <1>8, <1>9

(* The handlers of after_open, after_send, or of a message that was        *)
(* received in part.                                                       *)
LEMMA AskingRuns ==
    ASSUME NEW s, NEW s2, NEW eh, Stepped(s, s2, eh), OpenConn(s), Asking(s)
    PROVE  Mode(s2, eh)
<1> DEFINE t == <<"advance">>
<1>1. t \in Seq(AllFuncs) /\ PassParts \subseteq Seq(AllFuncs) /\ <<>> \in PassParts
      /\ PassParts \subseteq AllParts
  BY EndsAreText, PartsAreText DEF Ends, AllParts, PassParts
<1>2. ASSUME Running(s2, PassParts, HttpFlow, t), SameConn(s, s2), SameTemp(s, s2),
             \/ SameState(s, s2)
             \/ \E req \in Requests : Asks(s, s2, req) /\ s.state \in {"0", s2.state}
      PROVE  Mode(s2, eh)
  <2>1. s.state \in {"r", "c"} => s2.state = s.state
    BY <1>2 DEF SameState, Requests
  <2>2. Asking(s2)
    BY <1>2, <2>1 DEF Asking, Offset, Fresh, SameTemp
  <2> QED
    BY <1>2, <2>2 DEF Mode, Working, OpenConn, SameConn
<1>3. \A req \in Requests : Asks(s, s2, req) => s.state \in {"0", s2.state}
  BY DEF Asks, Requested, Stepped
<1>4. ASSUME NEW p \in PassParts, NEW q \in Seq(HttpFlow), p # <<>>, s.stack = <<"http">>,
             Head(s.funcs) = Head(p), Tail(s.funcs) = Tail(p) \o (q \o t)
      PROVE  Mode(s2, eh)
  <2>1. Tail(p) \in Seq(AllFuncs)
    BY <1>1, <1>4, RestIsText
  <2>2. /\ Running(s2, PassParts, HttpFlow, t) /\ SameConn(s, s2) /\ SameTemp(s, s2)
        /\ SameState(s, s2) \/ Asks(s, s2, "c")
    BY <1>1, <1>4, <2>1, PassFirst, Kinds, HttpPart DEF Stepped
  <2> QED
    BY <1>2, <1>3, <2>2 DEF Requests
<1>5. ASSUME NEW q \in Seq(HttpFlow), s.stack = <<"conn">>,
             Head(s.funcs) \in HttpFlow, Tail(s.funcs) = <<>> \o (q \o t)
      PROVE  Mode(s2, eh)
  <2>1. /\ Running(s2, PassParts, HttpFlow, t) /\ SameConn(s, s2) /\ SameTemp(s, s2)
        /\ SameState(s, s2) \/ Asks(s, s2, "r") \/ Asks(s, s2, "s") \/ Asks(s, s2, "c")
    BY <1>1, <1>5, Kinds, EventPart DEF Stepped
  <2> QED
    BY <1>2, <1>3, <2>1 DEF Requests
<1>6. CASE s.funcs = t /\ s.stack = <<"conn">>
  BY <1>6, Advances DEF Asking
<1>7. StartsIn(s, PassParts, HttpFlow, t)
  BY <1>1, Runs, Kinds DEF Asking
<1> QED
  BY <1>4, <1>5, <1>6, <1>7 DEF StartsIn

(* The handlers before a read, and the read.                               *)
LEMMA ReadingRuns ==
    ASSUME NEW s, NEW s2, NEW eh, Stepped(s, s2, eh), OpenConn(s), Reading(s)
    PROVE  Mode(s2, eh)
<1> DEFINE t == <<"before_recv">>
<1>1. t \in Seq(AllFuncs) /\ {<<>>} \subseteq Seq(AllFuncs) /\ {"app"} \subseteq AllFuncs
  BY EndsAreText, ShortSeqs, Kinds DEF Ends
<1>2. ASSUME NEW q \in Seq({"app"}), s.stack = <<"conn">>,
             Head(s.funcs) \in {"app"}, Tail(s.funcs) = <<>> \o (q \o t)
      PROVE  Mode(s2, eh)
  <2>1. /\ Running(s2, {<<>>}, {"app"}, t) /\ SameConn(s, s2) /\ SameTemp(s, s2) /\ SameState(s, s2)
    BY <1>1, <1>2, Kinds, EventPart DEF Stepped
  <2> QED
    BY <2>1 DEF Mode, Working, OpenConn, SameConn, Reading, SameTemp, SameState, Offset
<1>3. CASE s.funcs = t /\ s.stack = <<"conn">>
  <2>1. Head(s.funcs) = "before_recv" /\ Tail(s.funcs) = <<>>
    BY <1>3
  <2>2. /\ SameTemp(s, s2) /\ SameState(s, s2)
        /\ s2.funcs = <<"recv">> \o Tail(s.funcs) /\ s2.stack = Append(s.stack, "epevt")
        /\ s2.at = "io" /\ s2.http = s.http /\ s2.life = s.life
    BY <2>1 DEF Stepped, Invokes, HttpRuns, EventRuns, RecvRuns, ConnRuns
  <2>3. <<"recv">> \o <<>> = <<"recv">> /\ Append(<<"conn">>, "epevt") = <<"conn", "epevt">>
    BY Tuples, ShortSeqs, ConcatEmptySeq
  <2>4. s2.funcs = <<"recv">> /\ s2.stack = <<"conn", "epevt">>
    BY <1>3, <2>1, <2>2, <2>3
  <2> QED
    BY <2>2, <2>4 DEF Mode, Parked, OpenConn, Reading, SameTemp, SameState, Offset
<1>4. StartsIn(s, {<<>>}, {"app"}, t)
  BY <1>1, Runs DEF Reading
<1> QED
  BY <1>2, <1>3, <1>4 DEF StartsIn

(* uo_io_read_async waits for data or goes on to uo_tcp_conn_recv at once. *)
LEMMA ExecutingRuns ==
    ASSUME NEW s, NEW s2, NEW eh, Stepped(s, s2, eh), OpenConn(s), Executing(s)
    PROVE  Mode(s2, eh)
<1>1. Head(s.funcs) = "execute_io" /\ Tail(s.funcs) = <<"recv">>
  BY DEF Executing
<1>2. /\ SameConn(s, s2) /\ SameTemp(s, s2) /\ SameState(s, s2) /\ s2.funcs = Tail(s.funcs)
      /\ s2.stack = Pop(s.stack) \o <<"len">> \/ s2.stack = Pop(s.stack) \o <<"err", "zero">>
  BY <1>1 DEF Stepped, Invokes, HttpRuns, EventRuns, RecvRuns, ConnRuns
<1>3. Pop(<<"conn", "epevt">>) = <<"conn">>
  BY Popped
<1>4. s2.stack \in {<<"conn", "len">>, <<"conn", "err", "zero">>}
  <2>1. s.stack = <<"conn", "epevt">>
    BY DEF Executing
  <2>2. s2.stack = <<"conn">> \o <<"len">> \/ s2.stack = <<"conn">> \o <<"err", "zero">>
    BY <1>2, <1>3, <2>1
  <2> QED
    BY <2>2, Tuples
<1>5. HasRead(s2)
  BY <1>1, <1>2, <1>4 DEF Executing, HasRead, SameTemp, SameState, Offset
<1> QED
  BY <1>2, <1>5 DEF Mode, Working, OpenConn, SameConn

(* Functions of a handler in a given order.                                *)
LEMMA BeginsRun ==
    ASSUME NEW s, NEW f \in AllFuncs, NEW qs, qs \subseteq AllFuncs, NEW t \in Seq(AllFuncs),
           Begins(s, f, qs, t)
    PROVE  /\ s.funcs \in Seq(AllFuncs) /\ s.stack = <<"conn">>
           /\ s.funcs # <<>> /\ Head(s.funcs) = f
           /\ \E q \in Seq(qs) : Tail(s.funcs) = <<>> \o (q \o t)
<1>1. PICK q \in Seq(qs) : s.funcs = <<f>> \o (q \o t) /\ s.stack = <<"conn">>
  BY DEF Begins
<1>2. q \o t \in Seq(AllFuncs) /\ <<f>> \in Seq(AllFuncs)
  BY SeqMonotonic, ConcatProperties, ShortSeqs
<1>3. <<f>> # <<>> /\ Head(<<f>>) = f /\ Tail(<<f>>) = <<>>
  BY ShortTails
<1>4. s.funcs # <<>> /\ Head(s.funcs) = f /\ Tail(s.funcs) = <<>> \o (q \o t)
  BY <1>1, <1>2, <1>3, FirstOfParts
<1>5. s.funcs \in Seq(AllFuncs)
  BY <1>1, <1>2, ConcatProperties
<1> QED
  BY <1>1, <1>4, <1>5

(* The first handler of a list is the one an event begins with.            *)
LEMMA Begun ==
    ASSUME NEW s, NEW f \in AllFuncs, NEW qs, qs \subseteq AllFuncs, NEW t \in Seq(AllFuncs),
           NEW q \in Seq(qs), s.funcs = <<>> \o ((<<f>> \o q) \o t), s.stack = <<"conn">>
    PROVE  Begins(s, f, qs, t) /\ <<f>> \o q \in Seq(qs \cup {f})
<1>1. q \in Seq(AllFuncs) /\ q \o t \in Seq(AllFuncs) /\ <<f>> \in Seq(AllFuncs)
  BY SeqMonotonic, ConcatProperties, ShortSeqs
<1>2. <<f>> \o (q \o t) \in Seq(AllFuncs)
  BY <1>1, ConcatProperties
<1>3. (<<f>> \o q) \o t = <<f>> \o (q \o t)
  BY <1>1, Regrouped
<1>4. s.funcs = <<f>> \o (q \o t)
  BY <1>2, <1>3, ConcatEmptySeq
<1>5. q \in Seq(qs \cup {f}) /\ <<f>> \in Seq(qs \cup {f})
  BY SeqMonotonic, ShortSeqs
<1>6. <<f>> \o q \in Seq(qs \cup {f})
  BY <1>5, ConcatProperties
<1> QED
  BY <1>4, <1>6 DEF Begins

(* No handler is left: uo_tcp_conn_advance is next.                        *)
LEMMA Ended ==
    ASSUME NEW s, NEW ps, <<>> \in ps, NEW qs, qs \subseteq AllFuncs, NEW t \in Seq(AllFuncs),
           s.funcs = <<>> \o t, s.stack = <<"conn">>
    PROVE  Running(s, ps, qs, t)
<1>1. <<>> \in Seq(qs)
  BY ShortSeqs
<1> QED
  BY <1>1, RunningAll

(* Data was read: its handlers follow; or there is none, which closes.     *)
LEMMA HasReadRuns ==
    ASSUME NEW s, NEW s2, NEW eh, Stepped(s, s2, eh), OpenConn(s), HasRead(s)
    PROVE  Mode(s2, eh)
<1> DEFINE t == <<"advance">>
<1>1. t \in Seq(AllFuncs) /\ <<>> \in PassParts /\ HttpFlow \subseteq AllFuncs
          /\ RecvFlow \subseteq AllFuncs
  BY EndsAreText, Kinds DEF Ends, PassParts
<1>2. Head(s.funcs) = "recv" /\ Tail(s.funcs) = <<>>
  BY DEF HasRead
<1>3. /\ SameConn(s, s2) /\ SameTemp(s, s2)
      /\ \/ /\ Top(s.stack) # "zero" /\ SameState(s, s2) /\ s2.stack = Pop(s.stack)
            /\ s2.funcs = Tail(s.funcs) \o (eh["after_recv"] \o t)
         \/ /\ Top(s.stack) = "zero" /\ Asks(s, s2, "c") /\ s2.stack = Pop(Pop(s.stack))
            /\ s2.funcs = Tail(s.funcs) \o t
  BY <1>2 DEF Stepped, Invokes, HttpRuns, EventRuns, RecvRuns, ConnRuns
<1>4. CASE /\ s.stack = <<"conn", "len">> /\ Top(s.stack) # "zero"
           /\ SameState(s, s2) /\ s2.stack = Pop(s.stack)
           /\ s2.funcs = Tail(s.funcs) \o (eh["after_recv"] \o t)
  <2>1. s2.stack = <<"conn">>
    BY <1>4, Popped
  <2>2. PICK f \in {"s_after_recv", "c_after_recv"}, q \in Seq(RecvFlow) :
           /\ eh["after_recv"] = <<f>> \o q
           /\ \/ f = "s_after_recv" /\ ServerHttp(eh)
              \/ f = "c_after_recv" /\ ClientHttp(eh)
    <3>1. CASE ServerHttp(eh)
      BY <3>1 DEF ServerHttp, Installed
    <3>2. CASE ClientHttp(eh)
      BY <3>2 DEF ClientHttp, Installed
    <3> QED
      BY <3>1, <3>2 DEF Stepped
  <2>3. s2.funcs = <<>> \o ((<<f>> \o q) \o t) /\ f \in AllFuncs
    BY <1>2, <1>4, <2>2 DEF AllFuncs, TcpFuncs
  <2>4. Begins(s2, f, RecvFlow, t)
    BY <1>1, <2>1, <2>3, Begun
  <2>5. HasReceived(s2, eh)
    BY <1>3, <1>4, <2>2, <2>4 DEF HasReceived, HasRead, SameTemp, SameState, Offset
  <2> QED
    BY <1>3, <2>5 DEF Mode, Working, OpenConn, SameConn
<1>5. CASE /\ s.stack = <<"conn", "err", "zero">>
           /\ Asks(s, s2, "c") /\ s2.stack = Pop(Pop(s.stack))
           /\ s2.funcs = Tail(s.funcs) \o t
  <2>1. s2.stack = <<"conn">>
    BY <1>5, Popped
  <2>2. Running(s2, PassParts, HttpFlow, t)
    BY <1>1, <1>2, <1>5, <2>1, Ended
  <2>3. s2.state = "c"
    BY <1>5 DEF Asks, Requested, HasRead
  <2>4. Asking(s2)
    BY <1>3, <2>2, <2>3 DEF Asking, HasRead, SameTemp, Offset
  <2> QED
    BY <1>3, <2>4 DEF Mode, Working, OpenConn, SameConn
<1>6. Top(<<"conn", "len">>) = "len" /\ Top(<<"conn", "err", "zero">>) = "zero"
  BY Popped
<1> QED
  BY <1>3, <1>4, <1>5, <1>6 DEF HasRead

(* The handlers of after_open tell a server from a client.                 *)
LEMMA Roles ==
    ASSUME NEW eh
    PROVE  /\ ServerHttp(eh) => "s_after_open" \in ToSet(eh["after_open"])
           /\ ClientHttp(eh) => "s_after_open" \notin ToSet(eh["after_open"])
<1> DEFINE a == eh["after_open"]
<1>1. ASSUME NEW f, NEW q \in Seq(HttpFlow), a = <<f>> \o q
      PROVE  f \in ToSet(a) /\ ToSet(a) \subseteq HttpFlow \cup {f}
  <2>1. <<f>> \in Seq(HttpFlow \cup {f}) /\ q \in Seq(HttpFlow \cup {f})
    BY ShortSeqs, SeqMonotonic
  <2>2. /\ a \in Seq(HttpFlow \cup {f}) /\ Len(a) = Len(<<f>>) + Len(q)
        /\ \A i \in 1 .. Len(<<f>>) + Len(q) : a[i] = IF i <= Len(<<f>>) THEN <<f>>[i]
               ELSE q[i - Len(<<f>>)]
    BY <1>1, <2>1, ConcatProperties
  <2>3. Len(<<f>>) = 1 /\ <<f>>[1] = f /\ Len(q) \in Nat
    BY LenProperties
  <2>4. a[1] = f /\ 1 \in DOMAIN a
    BY <2>2, <2>3
  <2>5. \A i \in DOMAIN a : a[i] \in HttpFlow \cup {f}
    BY <2>2, ElementOfSeq, LenProperties
  <2> HIDE DEF a
  <2> QED
    BY <2>4, <2>5 DEF ToSet
<1>2. "s_after_open" \notin HttpFlow
  BY DEF HttpFlow, NextFuncs
<1>3. ASSUME ServerHttp(eh) PROVE "s_after_open" \in ToSet(a)
  BY <1>1, <1>3 DEF ServerHttp, Installed
<1>4. ASSUME ClientHttp(eh) PROVE "s_after_open" \notin ToSet(a)
  <2>1. PICK q \in Seq(HttpFlow) : a = <<"c_after_open">> \o q
    BY <1>4 DEF ClientHttp, Installed
  <2>2. ToSet(a) \subseteq HttpFlow \cup {"c_after_open"}
    <3> HIDE DEF a
    <3> QED
      BY <1>1, <2>1
  <2> QED
    BY <1>2, <2>2
<1> QED
  BY <1>3, <1>4

(* Two sequences joined are the sequence that has their lengths and their  *)
(* elements.                                                               *)
LEMMA Joined ==
    ASSUME NEW S, NEW s \in Seq(S), NEW t \in Seq(S), NEW u \in Seq(S),
           Len(u) = Len(s) + Len(t),
           \A i \in 1 .. Len(u) : u[i] = IF i <= Len(s) THEN s[i] ELSE t[i - Len(s)]
    PROVE  s \o t = u
<1>1. s \o t \in Seq(S) /\ Len(s \o t) = Len(u) /\ \A i \in 1 .. Len(u) : (s \o t)[i] = u[i]
  BY ConcatProperties
<1> QED
  BY <1>1, SeqEqual

(* A list of two functions and one more.                                   *)
LEMMA ThreeFuncs == \A a, b, c : <<a, b>> \o <<c>> = <<a, b, c>>
<1>1. ASSUME NEW a, NEW b, NEW c PROVE <<a, b>> \o <<c>> = <<a, b, c>>
  <2> DEFINE S == {a, b, c}
             p == <<a, b>>
             q == <<c>>
             r == <<a, b, c>>
  <2>1. /\ p \in Seq(S) /\ q \in Seq(S) /\ r \in Seq(S) /\ Len(r) = Len(p) + Len(q)
        /\ \A i \in 1 .. Len(r) : r[i] = IF i <= Len(p) THEN p[i] ELSE q[i - Len(p)]
    OBVIOUS
  <2> HIDE DEF S, p, q, r
  <2>2. p \o q = r
    BY <2>1, Joined
  <2> QED
    BY <2>2 DEF p, q, r
<1> QED
  BY <1>1

(* A function in front of a list of three.                                 *)
LEMMA FourFuncs == \A a, b, c, d : <<a>> \o <<b, c, d>> = <<a, b, c, d>>
<1>1. ASSUME NEW a, NEW b, NEW c, NEW d PROVE <<a>> \o <<b, c, d>> = <<a, b, c, d>>
  <2> DEFINE S == {a, b, c, d}
             p == <<a>>
             q == <<b, c, d>>
             r == <<a, b, c, d>>
  <2>1. /\ p \in Seq(S) /\ q \in Seq(S) /\ r \in Seq(S) /\ Len(r) = Len(p) + Len(q)
        /\ \A i \in 1 .. Len(r) : r[i] = IF i <= Len(p) THEN p[i] ELSE q[i - Len(p)]
    OBVIOUS
  <2> HIDE DEF S, p, q, r
  <2>2. p \o q = r
    BY <2>1, Joined
  <2> QED
    BY <2>2 DEF p, q, r
<1> QED
  BY <1>1

(* A message is complete, or more of it has to be read.                    *)
LEMMA HasReceivedRuns ==
    ASSUME NEW s, NEW s2, NEW eh, Stepped(s, s2, eh), OpenConn(s), HasReceived(s, eh)
    PROVE  Mode(s2, eh)
<1> DEFINE t == <<"advance">>
<1>1. t \in Seq(AllFuncs) /\ RecvFlow \subseteq AllFuncs /\ RecvFlow \subseteq HttpFlow
      /\ PassParts \subseteq Seq(AllFuncs) /\ ReplyParts \subseteq Seq(AllFuncs)
  BY EndsAreText, Kinds, PartsAreText DEF Ends, AllParts
<1>2. PICK f \in {"s_after_recv", "c_after_recv"} :
         /\ Begins(s, f, RecvFlow, t)
         /\ f = "s_after_recv" => ServerHttp(eh)
         /\ f = "c_after_recv" => ClientHttp(eh)
  BY DEF HasReceived
<1>3. f \in AllFuncs
  BY DEF AllFuncs, TcpFuncs
<1>4. PICK q \in Seq(RecvFlow) :
         s.stack = <<"conn">> /\ Head(s.funcs) = f /\ Tail(s.funcs) = <<>> \o (q \o t)
  BY <1>1, <1>2, <1>3, BeginsRun
<1>5. RecvRuns(f, s, s2, eh)
  BY <1>4 DEF Stepped, Invokes, HttpRuns, EventRuns, ConnRuns, HttpFlow
<1>6. SameConn(s, s2) /\ OpenConn(s2) /\ s.state = "0"
  BY <1>5 DEF RecvRuns, OpenConn, SameConn, HasReceived
<1>7. ASSUME Asks(s, s2, "r"), Offset(s2),
             Continues(s, s2, <<>>) \/ Swaps(s, s2, <<"app_http", "pass">>, "http")
      PROVE  Mode(s2, eh)
  <2>1. <<>> \in PassParts /\ <<"app_http", "pass">> \in PassParts /\ <<"app_http", "pass">> # <<>>
    BY DEF PassParts
  <2>2. Running(s2, PassParts, RecvFlow, t)
    BY <1>1, <1>4, <1>7, <2>1, NextOfEvent
  <2>3. Running(s2, PassParts, HttpFlow, t)
    BY <1>1, <2>2, RunningMore
  <2>4. s2.state = "r"
    BY <1>6, <1>7 DEF Asks, Requested
  <2> QED
    BY <1>6, <1>7, <2>3, <2>4 DEF Mode, Working, OpenConn, Asking
<1>8. ASSUME SameState(s, s2), f = "s_after_recv", s2.temp[1] = "handler",
             Swaps(s, s2, Complete(f), "http")
                 \/ Swaps(s, s2, <<"app_http">> \o Complete(f), "http")
      PROVE  Mode(s2, eh)
  <2>1. /\ Complete(f) \in ReplyParts /\ <<"app_http">> \o Complete(f) \in ReplyParts
    BY <1>8, FourFuncs DEF Complete, ReplyParts
  <2>2. PICK first \in ReplyParts : Swaps(s, s2, first, "http")
    BY <1>8, <2>1
  <2>3. first \in Seq(AllFuncs) /\ first # <<>>
    BY <1>1, ReplyFirst
  <2>4. Running(s2, ReplyParts, RecvFlow, t)
    BY <1>1, <1>4, <2>2, <2>3, NextOfEvent
  <2>5. Running(s2, PassParts \cup ReplyParts, RecvFlow, t)
    BY <2>4, RunningMore
  <2> QED
    BY <1>2, <1>6, <1>8, <2>5 DEF Mode, Working, OpenConn, Replying, Handles, SameState
<1>9. ASSUME SameState(s, s2), f = "c_after_recv", Fresh(s2),
             Swaps(s, s2, Complete(f), "http")
                 \/ Swaps(s, s2, <<"app_http">> \o Complete(f), "http")
      PROVE  Mode(s2, eh)
  <2>1. /\ Complete(f) \in PassParts \ {<<>>}
               /\ <<"app_http">> \o Complete(f) \in PassParts \ {<<>>}
    <3>1. Complete(f) = <<"app_http", "pass">>
      BY <1>9 DEF Complete
    <3>2. <<"app_http">> \o <<"app_http", "pass">> = <<"app_http", "app_http", "pass">>
      BY Tuples
    <3>3. <<"app_http", "pass">> # <<>> /\ <<"app_http", "app_http", "pass">> # <<>>
      OBVIOUS
    <3> QED
      BY <3>1, <3>2, <3>3 DEF PassParts
  <2>2. PICK first \in PassParts \ {<<>>} : Swaps(s, s2, first, "http")
    BY <1>9, <2>1
  <2>3. Running(s2, PassParts, RecvFlow, t)
    BY <1>1, <1>4, <2>2, NextOfEvent
  <2>4. Running(s2, PassParts, HttpFlow, t)
    BY <1>1, <2>3, RunningMore
  <2> QED
    BY <1>6, <1>9, <2>4 DEF Mode, Working, OpenConn, Asking, Fresh, Offset
<1> QED
  BY <1>2, <1>5, <1>7, <1>8, <1>9, Roles DEF RecvRuns

(* The request handlers run, and those of the event after them.            *)
LEMMA ReplyingRuns ==
    ASSUME NEW s, NEW s2, NEW eh, Stepped(s, s2, eh), OpenConn(s), Replying(s, eh)
    PROVE  Mode(s2, eh)
<1> DEFINE t  == <<"advance">>
           ps == PassParts \cup ReplyParts
<1>1. t \in Seq(AllFuncs) /\ ps \subseteq Seq(AllFuncs) /\ <<>> \in ps /\ <<"pass">> \in ps
      /\ <<"app_http", "process", "pass">> \in ps /\ RecvFlow \subseteq AllFuncs
      /\ <<"app_http", "process">> \in Seq(AllFuncs) /\ <<"pass">> \in Seq(AllFuncs)
  <2>1. {"app_http", "process", "pass"} \subseteq AllFuncs
    BY DEF AllFuncs, HttpFuncs
  <2> QED
    BY <2>1, EndsAreText, Kinds, PartsAreText, ShortSeqs DEF Ends, AllParts, PassParts, ReplyParts
<1>2. ASSUME Running(s2, ps, RecvFlow, t), SameConn(s, s2), s2.temp[1] = "handler",
             SameState(s, s2) \/ Asks(s, s2, "s") \/ Asks(s, s2, "c")
      PROVE  Mode(s2, eh)
  <2>1. s2.state # "r" /\ Handles(s2, eh)
    BY <1>2 DEF Replying, Handles, SameState, Asks, Requested
  <2> QED
    BY <1>2, <2>1 DEF Mode, Working, OpenConn, SameConn, Replying
<1>3. s.temp[1] = "handler"
  BY DEF Replying, Handles
<1>4. ASSUME NEW p \in ps, NEW q \in Seq(RecvFlow), p # <<>>, s.stack = <<"http">>,
             Head(s.funcs) = Head(p), Tail(s.funcs) = Tail(p) \o (q \o t)
      PROVE  Mode(s2, eh)
  <2>1. Tail(p) \in Seq(AllFuncs)
    BY <1>1, <1>4, HeadTailProperties
  <2>2. CASE Head(p) # "process"
    <3>1. /\ Tail(p) \in ps
          /\ \/ Head(p) = "pass" /\ Tail(p) = <<>>
             \/ Head(p) = "app_http" /\ Tail(p) # <<>>
      <4>1. CASE p \in PassParts
        BY <1>1, <1>4, <4>1, PassFirst
      <4>2. CASE p \in ReplyParts
        <5>1. Head(p) = "app_http" /\ Tail(p) \in ReplyParts
          BY <2>2, <4>2, ReplyFirst
        <5>2. Tail(p) # <<>>
          BY <5>1, ReplyFirst
        <5> QED
          BY <5>1, <5>2
      <4> QED
        BY <1>4, <4>1, <4>2
    <3>2. /\ Running(s2, ps, RecvFlow, t) /\ SameConn(s, s2) /\ SameTemp(s, s2)
          /\ SameState(s, s2) \/ Asks(s, s2, "c")
      <4> HIDE DEF ps
      <4> QED
        BY <1>1, <1>4, <2>1, <3>1, HttpPart DEF Stepped
    <3> QED
      BY <1>2, <1>3, <3>2 DEF SameTemp
  <2>3. CASE Head(p) = "process"
    <3>1. Tail(p) = <<"pass">>
      BY <1>4, <2>3, PassFirst, ReplyFirst
    <3>2. /\ SameConn(s, s2) /\ SameState(s, s2)
          /\ \/ Continues(s, s2, <<>>) /\ SameTemp(s, s2)
             \/ Continues(s, s2, <<"app_http", "process">>) /\ s2.temp[1] = "handler"
      BY <1>4, <2>3 DEF Stepped, Invokes, HttpRuns, EventRuns, RecvRuns, ConnRuns
    <3>3. ASSUME Continues(s, s2, <<>>) PROVE Running(s2, ps, RecvFlow, t)
      <4>1. <<"pass">> # <<>>
        OBVIOUS
      <4> HIDE DEF ps
      <4> QED
        BY <1>1, <1>4, <3>1, <3>3, <4>1, NextOfHttp
    <3>4. ASSUME Continues(s, s2, <<"app_http", "process">>) PROVE Running(s2, ps, RecvFlow, t)
      <4>1. <<"app_http", "process">> \o <<"pass">> = <<"app_http", "process", "pass">>
        BY ThreeFuncs
      <4>2. <<"app_http", "process", "pass">> # <<>>
        OBVIOUS
      <4> HIDE DEF ps
      <4> QED
        BY <1>1, <1>4, <3>1, <3>4, <4>1, <4>2, NextPart
    <3> QED
      BY <1>2, <1>3, <3>2, <3>3, <3>4 DEF SameTemp
  <2> QED
    BY <2>2, <2>3
<1>5. ASSUME NEW q \in Seq(RecvFlow), s.stack = <<"conn">>,
             Head(s.funcs) \in RecvFlow, Tail(s.funcs) = <<>> \o (q \o t)
      PROVE  Mode(s2, eh)
  <2>1. /\ Running(s2, ps, RecvFlow, t) /\ SameConn(s, s2) /\ SameTemp(s, s2)
        /\ SameState(s, s2) \/ Asks(s, s2, "s") \/ Asks(s, s2, "c")
    <3>1. Head(s.funcs) \in HttpFlow /\ Head(s.funcs) # "next_r"
      BY <1>5 DEF RecvFlow, HttpFlow, NextFuncs
    <3> HIDE DEF ps
    <3> QED
      BY <1>1, <1>5, <3>1, EventPart DEF Stepped
  <2> QED
    BY <1>2, <1>3, <2>1 DEF SameTemp
<1>6. CASE s.funcs = t /\ s.stack = <<"conn">>
  BY <1>6, Advances DEF Replying
<1>7. StartsIn(s, ps, RecvFlow, t)
  BY <1>1, Runs DEF Replying
<1> QED
  BY <1>4, <1>5, <1>6, <1>7 DEF StartsIn

(* The handlers before a write put the message into the buffer.            *)
LEMMA SendingRuns ==
    ASSUME NEW s, NEW s2, NEW eh, Stepped(s, s2, eh), OpenConn(s), Sending(s, eh)
    PROVE  Mode(s2, eh)
<1> DEFINE t  == <<"send">>
           ps == PassParts \cup SendParts
           qs == {"s_before_send", "c_before_send", "app"}
           t2 == <<"after_send", "advance">>
<1>1. t \in Seq(AllFuncs) /\ t2 \in Seq(AllFuncs) /\ ps \subseteq Seq(AllFuncs) /\ <<>> \in ps
      /\ <<"pass">> \in ps /\ qs \subseteq AllFuncs /\ SendParts \subseteq ps
      /\ ps \subseteq AllParts
  BY EndsAreText, Kinds, PartsAreText DEF Ends, AllParts, PassParts
<1>2. ASSUME Running(s2, ps, qs, t), SameConn(s, s2), SameTemp(s, s2),
             SameState(s, s2) \/ Asks(s, s2, "c")
      PROVE  Mode(s2, eh)
  <2>1. s2.state \in {"0", "c"}
    BY <1>2 DEF Sending, SameState, Asks, Requested
  <2> QED
    BY <1>2, <2>1 DEF Mode, Working, OpenConn, SameConn, SameTemp, Sending, Fresh, Handles
<1>3. ASSUME NEW p \in ps, NEW q \in Seq(qs), p # <<>>, s.stack = <<"http">>,
             Head(s.funcs) = Head(p), Tail(s.funcs) = Tail(p) \o (q \o t)
      PROVE  Mode(s2, eh)
  <2>1. Tail(p) \in Seq(AllFuncs)
    BY <1>1, <1>3, RestIsText
  <2>2. /\ Tail(p) \in ps
        /\ \/ Head(p) = "pass" /\ Tail(p) = <<>>
           \/ /\ Head(p) \in {"app_http", "s_before_send_response", "c_before_send_request"}
              /\ Tail(p) # <<>>
    <3>1. CASE p \in PassParts
      BY <1>1, <1>3, <3>1, PassFirst
    <3>2. CASE p \in SendParts
      <4>1. /\ Head(p) \in {"app_http", "s_before_send_response", "c_before_send_request"}
            /\ Tail(p) = <<"pass">> \/ Tail(p) \in SendParts
        BY <3>2, SendFirst
      <4>2. <<"pass">> # <<>>
        OBVIOUS
      <4> QED
        BY <1>1, <4>1, <4>2, SendFirst
    <3> QED
      BY <1>3, <3>1, <3>2
  <2>3. /\ Running(s2, ps, qs, t) /\ SameConn(s, s2) /\ SameTemp(s, s2)
        /\ SameState(s, s2) \/ Asks(s, s2, "c")
    <3> HIDE DEF ps, qs
    <3> QED
      BY <1>1, <1>3, <2>1, <2>2, HttpPart DEF Stepped
  <2> QED
    BY <1>2, <2>3
<1>4. ASSUME NEW q \in Seq(qs), s.stack = <<"conn">>,
             Head(s.funcs) \in qs, Tail(s.funcs) = <<>> \o (q \o t)
      PROVE  Mode(s2, eh)
  <2>1. CASE Head(s.funcs) = "app"
    <3>1. Running(s2, ps, qs, t) /\ SameConn(s, s2) /\ SameTemp(s, s2) /\ SameState(s, s2)
      <4>1. "app" \in HttpFlow
        BY DEF HttpFlow
      <4> HIDE DEF ps, qs
      <4> QED
        BY <1>1, <1>4, <2>1, <4>1, EventPart DEF Stepped
    <3> QED
      BY <1>2, <3>1
  <2>2. CASE Head(s.funcs) \in {"s_before_send", "c_before_send"}
    <3>1. Running(s2, ps, qs, t) /\ SameConn(s, s2) /\ SameTemp(s, s2) /\ SameState(s, s2)
      <4> HIDE DEF ps, qs
      <4> QED
        BY <1>1, <1>4, <2>2, EventSwap DEF Stepped
    <3> QED
      BY <1>2, <3>1
  <2> QED
    BY <1>4, <2>1, <2>2
<1>5. CASE s.funcs = t /\ s.stack = <<"conn">>
  <2>1. Head(s.funcs) = "send" /\ Tail(s.funcs) = <<>>
    BY <1>5
  <2>2. /\ SameConn(s, s2) /\ SameTemp(s, s2)
        /\ \/ /\ SameState(s, s2) /\ s2.stack = s.stack
              /\ s2.funcs = Tail(s.funcs) \o (eh["after_send"] \o t2)
           \/ Asks(s, s2, "c") /\ s2.stack = Pop(s.stack) /\ s2.funcs = Tail(s.funcs)
    BY <2>1 DEF Stepped, Invokes, HttpRuns, EventRuns, RecvRuns, ConnRuns
  <2>3. CASE s2.stack = Pop(s.stack) /\ s2.funcs = Tail(s.funcs)
    <3>1. s2.stack = <<>> /\ s2.funcs = <<>>
      BY <1>5, <2>1, <2>3, Popped
    <3>2. s2.stack \in Seq(Pointers \cup {"http"})
      BY <3>1, ShortSeqs
    <3> QED
      BY <2>2, <3>1, <3>2 DEF Mode, Over, OpenConn, SameConn
  <2>4. CASE s2.stack = s.stack /\ s2.funcs = Tail(s.funcs) \o (eh["after_send"] \o t2)
    <3>1. PICK f \in {"s_after_send", "c_after_send"}, q \in Seq(HttpFlow) :
             /\ eh["after_send"] = <<f>> \o q
             /\ ServerHttp(eh) => f = "s_after_send"
      <4>1. CASE ServerHttp(eh)
        <5>1. "s_after_open" \in ToSet(eh["after_open"]) /\ ~ClientHttp(eh)
          BY <4>1, Roles
        <5> QED
          BY <4>1, <5>1 DEF ServerHttp, Installed
      <4>2. CASE ClientHttp(eh)
        <5>1. ~ServerHttp(eh)
          BY <4>2, Roles
        <5> QED
          BY <4>2, <5>1 DEF ClientHttp, Installed
      <4> QED
        BY <4>1, <4>2 DEF Stepped
    <3>2. s2.funcs = <<>> \o ((<<f>> \o q) \o t2) /\ s2.stack = <<"conn">>
      BY <1>5, <2>1, <2>4, <3>1
    <3>3. f \in AllFuncs /\ HttpFlow \subseteq AllFuncs
      BY Kinds DEF AllFuncs, TcpFuncs
    <3>4. Begins(s2, f, HttpFlow, t2) /\ <<f>> \o q \in Seq(HttpFlow \cup {f})
      BY <1>1, <3>2, <3>3, Begun
    <3>5. CASE Fresh(s)
      <4> DEFINE fs == HttpFlow \cup {"s_after_send", "c_after_send"}
                 p2 == PassParts \cup ResetParts
      <4>1. <<f>> \o q \in Seq(fs) /\ fs \subseteq AllFuncs
        BY <3>4, Kinds, SeqMonotonic
      <4>2. <<>> \in p2 /\ s2.funcs = <<>> \o ((<<f>> \o q) \o t2)
        BY <3>2 DEF PassParts
      <4>3. Running(s2, p2, fs, t2)
        BY <3>2, <4>1, <4>2 DEF Running
      <4> QED
        BY <2>2, <3>5, <4>3 DEF Mode, Working, OpenConn, SameConn, SameTemp, HasSent, Fresh
    <3>6. CASE Handles(s, eh)
      <4>1. Begins(s2, "s_after_send", HttpFlow, t2) /\ Handles(s2, eh)
        BY <2>2, <3>1, <3>4, <3>6 DEF Handles, SameTemp
      <4> QED
        BY <2>2, <4>1 DEF Mode, Working, OpenConn, SameConn, Resetting
    <3> QED
      BY <3>5, <3>6 DEF Sending
  <2> QED
    BY <2>2, <2>3, <2>4
<1>6. StartsIn(s, ps, qs, t)
  BY <1>1, Runs DEF Sending
<1> QED
  BY <1>3, <1>4, <1>5, <1>6 DEF StartsIn
(* The connection was told that everything was written, and what to do     *)
(* next.                                                                   *)
LEMMA HasSentRuns ==
    ASSUME NEW s, NEW s2, NEW eh, Stepped(s, s2, eh), OpenConn(s), HasSent(s)
    PROVE  Mode(s2, eh)
<1> DEFINE t  == <<"after_send", "advance">>
           ps == PassParts \cup ResetParts
           qs == HttpFlow \cup {"s_after_send", "c_after_send"}
           a  == <<"app_http", "s_after_send_response", "pass">>
<1>1. t \in Seq(AllFuncs) /\ ps \subseteq Seq(AllFuncs) /\ <<>> \in ps /\ <<"pass">> \in ps
      /\ a \in ResetParts /\ qs \subseteq AllFuncs /\ PassParts \subseteq ps
      /\ ResetParts \subseteq ps /\ ps \subseteq AllParts
  BY EndsAreText, Kinds, PartsAreText DEF Ends, AllParts, PassParts, ResetParts
<1>2. ASSUME Running(s2, ps, qs, t), SameConn(s, s2), Fresh(s2)
      PROVE  Mode(s2, eh)
  BY <1>2 DEF Mode, Working, OpenConn, SameConn, HasSent
<1>3. Fresh(s) /\ (SameTemp(s, s2) => Fresh(s2))
  BY DEF HasSent, SameTemp, Fresh
<1>4. ASSUME NEW p \in ps, NEW q \in Seq(qs), p # <<>>, s.stack = <<"http">>,
             Head(s.funcs) = Head(p), Tail(s.funcs) = Tail(p) \o (q \o t)
      PROVE  Mode(s2, eh)
  <2>1. Tail(p) \in Seq(AllFuncs)
    BY <1>1, <1>4, RestIsText
  <2>2. CASE Head(p) = "s_after_send_response"
    <3>1. Tail(p) = <<"pass">>
      BY <1>4, <2>2, PassFirst, ResetFirst
    <3>2. Continues(s, s2, <<>>) /\ SameConn(s, s2) /\ Fresh(s2)
      BY <1>4, <2>2 DEF Stepped, Invokes, HttpRuns, EventRuns, RecvRuns, ConnRuns
    <3>3. Running(s2, ps, qs, t)
      <4>1. <<"pass">> # <<>>
        OBVIOUS
      <4> HIDE DEF ps, qs
      <4> QED
        BY <1>1, <1>4, <2>1, <3>1, <3>2, <4>1, NextOfHttp
    <3> QED
      BY <1>2, <3>2, <3>3
  <2>3. CASE Head(p) # "s_after_send_response"
    <3>1. /\ Tail(p) \in ps
          /\ \/ Head(p) = "pass" /\ Tail(p) = <<>>
             \/ Head(p) = "app_http" /\ Tail(p) # <<>>
      <4>1. CASE p \in PassParts
        BY <1>1, <1>4, <4>1, PassFirst
      <4>2. CASE p \in ResetParts
        <5>1. Head(p) = "app_http" /\ Tail(p) \in ResetParts
          BY <2>3, <4>2, ResetFirst
        <5> QED
          BY <5>1, ResetFirst
      <4> QED
        BY <1>4, <4>1, <4>2
    <3>2. Running(s2, ps, qs, t) /\ SameConn(s, s2) /\ SameTemp(s, s2)
      <4> HIDE DEF ps, qs
      <4> QED
        BY <1>1, <1>4, <2>1, <3>1, HttpPart DEF Stepped
    <3> QED
      BY <1>2, <1>3, <3>2
  <2> QED
    BY <2>2, <2>3
<1>5. ASSUME NEW q \in Seq(qs), s.stack = <<"conn">>,
             Head(s.funcs) \in qs, Tail(s.funcs) = <<>> \o (q \o t)
      PROVE  Mode(s2, eh)
  <2>1. CASE Head(s.funcs) \in HttpFlow
    <3>1. Running(s2, ps, qs, t) /\ SameConn(s, s2) /\ SameTemp(s, s2)
      <4> HIDE DEF ps, qs
      <4> QED
        BY <1>1, <1>5, <2>1, EventPart DEF Stepped
    <3> QED
      BY <1>2, <1>3, <3>1
  <2>2. CASE Head(s.funcs) = "c_after_send"
    <3>1. Running(s2, ps, qs, t) /\ SameConn(s, s2) /\ SameTemp(s, s2)
      <4> HIDE DEF ps, qs
      <4> QED
        BY <1>1, <1>5, <2>2, EventSwap DEF Stepped
    <3> QED
      BY <1>2, <1>3, <3>1
  <2>3. CASE Head(s.funcs) = "s_after_send"
    <3>1. Swaps(s, s2, a, "http") /\ SameConn(s, s2) /\ SameTemp(s, s2)
      BY <2>3 DEF Stepped, Invokes, HttpRuns, EventRuns, RecvRuns, ConnRuns
    <3>2. a \in ps /\ a \in Seq(AllFuncs) /\ a # <<>>
      BY <1>1, ResetFirst
    <3>3. Running(s2, ps, qs, t)
      <4> HIDE DEF ps, qs, a
      <4> QED
        BY <1>1, <1>5, <3>1, <3>2, NextOfEvent
    <3> QED
      BY <1>2, <1>3, <3>1, <3>3
  <2> QED
    BY <1>5, <2>1, <2>2, <2>3
<1>6. CASE s.funcs = t /\ s.stack = <<"conn">>
  <2>1. Head(s.funcs) = "after_send" /\ Tail(s.funcs) = <<"advance">>
    BY <1>6
  <2>2. Continues(s, s2, <<>>) /\ SameConn(s, s2) /\ SameTemp(s, s2)
    BY <2>1 DEF Stepped, Invokes, HttpRuns, EventRuns, RecvRuns, ConnRuns
  <2>3. s2.funcs = <<>> \o <<"advance">> /\ s2.stack = <<"conn">>
    BY <1>6, <2>1, <2>2 DEF Continues
  <2>4. Running(s2, PassParts, HttpFlow, <<"advance">>)
    BY <2>3, Ended, Kinds, EndsAreText DEF Ends, PassParts
  <2> QED
    BY <1>3, <2>2, <2>4 DEF Mode, Working, OpenConn, SameConn, Asking, Fresh, Offset
<1>7. StartsIn(s, ps, qs, t)
  BY <1>1, Runs DEF HasSent
<1> QED
  BY <1>4, <1>5, <1>6, <1>7 DEF StartsIn

(* A response was written: the messages are reset, before anything else.   *)
LEMMA ResettingRuns ==
    ASSUME NEW s, NEW s2, NEW eh, Stepped(s, s2, eh), OpenConn(s), Resetting(s, eh)
    PROVE  Mode(s2, eh)
<1> DEFINE t  == <<"after_send", "advance">>
           ps == PassParts \cup ResetParts
           qs == HttpFlow \cup {"s_after_send", "c_after_send"}
           a  == <<"app_http", "s_after_send_response", "pass">>
<1>1. t \in Seq(AllFuncs) /\ ResetParts \subseteq Seq(AllFuncs) /\ <<"pass">> \in PassParts
      /\ PassParts \subseteq ps /\ a \in ResetParts /\ HttpFlow \subseteq AllFuncs
             /\ HttpFlow \subseteq qs
      /\ ResetParts \subseteq AllParts /\ PassParts \subseteq AllParts
  BY EndsAreText, Kinds, PartsAreText DEF Ends, AllParts, PassParts, ResetParts
<1>2. Handles(s, eh)
  BY DEF Resetting
<1>3. ASSUME Running(s2, ResetParts, HttpFlow, t), SameConn(s, s2), SameTemp(s, s2)
      PROVE  Mode(s2, eh)
  BY <1>2, <1>3 DEF Mode, Working, OpenConn, SameConn, SameTemp, Handles, Resetting
<1>4. CASE Begins(s, "s_after_send", HttpFlow, t)
  <2>1. "s_after_send" \in AllFuncs
    BY Kinds DEF EventFuncs
  <2>2. PICK q \in Seq(HttpFlow) : /\ s.stack = <<"conn">> /\ Head(s.funcs) = "s_after_send"
                               /\ Tail(s.funcs) = <<>> \o (q \o t)
    BY <1>1, <1>4, <2>1, BeginsRun
  <2>3. Swaps(s, s2, a, "http") /\ SameConn(s, s2) /\ SameTemp(s, s2)
    BY <2>2 DEF Stepped, Invokes, HttpRuns, EventRuns, RecvRuns, ConnRuns
  <2>4. a \in Seq(AllFuncs) /\ a # <<>>
    BY <1>1, ResetFirst
  <2>5. Running(s2, ResetParts, HttpFlow, t)
    <3> HIDE DEF a
    <3> QED
      BY <1>1, <2>2, <2>3, <2>4, NextOfEvent
  <2> QED
    BY <1>3, <2>3, <2>5
<1>5. CASE Running(s, ResetParts, HttpFlow, t)
  <2>1. ASSUME NEW p \in ResetParts, NEW q \in Seq(HttpFlow), s.stack = <<"http">>,
               Head(s.funcs) = Head(p), Tail(s.funcs) = Tail(p) \o (q \o t)
        PROVE  Mode(s2, eh)
    <3>1. Tail(p) \in Seq(AllFuncs) /\ p # <<>>
      BY <1>1, <2>1, RestIsText, ResetFirst
    <3>2. CASE Head(p) = "app_http" /\ Tail(p) \in ResetParts
      <4>1. Tail(p) # <<>>
        BY <3>2, ResetFirst
      <4>2. Running(s2, ResetParts, HttpFlow, t) /\ SameConn(s, s2) /\ SameTemp(s, s2)
        BY <1>1, <2>1, <3>1, <3>2, <4>1, HttpPart DEF Stepped
      <4> QED
        BY <1>3, <4>2
    <3>3. CASE Head(p) = "s_after_send_response" /\ Tail(p) = <<"pass">>
      <4>1. Continues(s, s2, <<>>) /\ SameConn(s, s2) /\ Fresh(s2)
        BY <2>1, <3>3 DEF Stepped, Invokes, HttpRuns, EventRuns, RecvRuns, ConnRuns
      <4>2. <<"pass">> # <<>>
        OBVIOUS
      <4>3. Running(s2, PassParts, HttpFlow, t)
        BY <1>1, <2>1, <3>1, <3>3, <4>1, <4>2, NextOfHttp
      <4>4. Running(s2, ps, qs, t)
        <5> HIDE DEF ps, qs
        <5> QED
          BY <1>1, <4>3, RunningMore
      <4> QED
        BY <4>1, <4>4 DEF Mode, Working, OpenConn, SameConn, HasSent
    <3> QED
      BY <3>2, <3>3, ResetFirst
  <2>2. PICK p \in ResetParts, q \in Seq(HttpFlow) :
           s.funcs = p \o (q \o t) /\ s.stack = IF p = <<>> THEN <<"conn">> ELSE <<"http">>
    BY <1>5 DEF Running
  <2>3. p # <<>> /\ p \in Seq(AllFuncs) /\ q \o t \in Seq(AllFuncs)
    BY <1>1, ResetFirst, SeqMonotonic, ConcatProperties
  <2>4. Head(s.funcs) = Head(p) /\ Tail(s.funcs) = Tail(p) \o (q \o t)
    BY <2>2, <2>3, FirstOfParts
  <2> QED
    BY <2>1, <2>2, <2>3, <2>4
<1> QED
  BY <1>4, <1>5 DEF Resetting

(* The connection is about to be closed.                                   *)
LEMMA ClosesRuns ==
    ASSUME NEW s, NEW s2, NEW eh, Stepped(s, s2, eh), OpenConn(s), Closes(s)
    PROVE  Mode(s2, eh)
<1> DEFINE t  == <<"close">>
           ps == PassParts
           qs == HttpFlow \cup {"s_before_close", "c_before_close"}
<1>1. t \in Seq(AllFuncs) /\ ps \subseteq Seq(AllFuncs) /\ <<>> \in ps /\ qs \subseteq AllFuncs
      /\ ps \subseteq AllParts
  BY EndsAreText, Kinds, PartsAreText DEF Ends, AllParts, PassParts
<1>2. ASSUME Running(s2, ps, qs, t), SameConn(s, s2)
      PROVE  Mode(s2, eh)
  BY <1>2 DEF Mode, Working, OpenConn, SameConn, Closes
<1>3. ASSUME NEW p \in ps, NEW q \in Seq(qs), p # <<>>, s.stack = <<"http">>,
             Head(s.funcs) = Head(p), Tail(s.funcs) = Tail(p) \o (q \o t)
      PROVE  Mode(s2, eh)
  <2>1. Tail(p) \in Seq(AllFuncs)
    BY <1>1, <1>3, RestIsText
  <2>2. /\ Tail(p) \in ps
        /\ \/ Head(p) = "pass" /\ Tail(p) = <<>>
           \/ Head(p) = "app_http" /\ Tail(p) # <<>>
    BY <1>1, <1>3, PassFirst
  <2>3. Running(s2, ps, qs, t) /\ SameConn(s, s2)
    <3> HIDE DEF ps, qs
    <3> QED
      BY <1>1, <1>3, <2>1, <2>2, HttpPart DEF Stepped
  <2> QED
    BY <1>2, <2>3
<1>4. ASSUME NEW q \in Seq(qs), s.stack = <<"conn">>,
             Head(s.funcs) \in qs, Tail(s.funcs) = <<>> \o (q \o t)
      PROVE  Mode(s2, eh)
  <2>1. CASE Head(s.funcs) \in HttpFlow
    <3>1. Running(s2, ps, qs, t) /\ SameConn(s, s2)
      <4> HIDE DEF ps, qs
      <4> QED
        BY <1>1, <1>4, <2>1, EventPart DEF Stepped
    <3> QED
      BY <1>2, <3>1
  <2>2. CASE Head(s.funcs) \in {"s_before_close", "c_before_close"}
    <3>1. Running(s2, ps, qs, t) /\ SameConn(s, s2)
      <4>1. PassParts \subseteq ps
        OBVIOUS
      <4> HIDE DEF ps, qs
      <4> QED
        BY <1>1, <1>4, <2>2, <4>1, EventSwap DEF Stepped
    <3> QED
      BY <1>2, <3>1
  <2> QED
    BY <1>4, <2>1, <2>2
<1>5. CASE s.funcs = t /\ s.stack = <<"conn">>
  <2>1. Head(s.funcs) = "close" /\ Tail(s.funcs) = <<>>
    BY <1>5
  <2>2. /\ Follows(s, s2, eh["after_close"], "after_close")
        /\ s2.at = s.at /\ s2.http = s.http /\ s2.life = "closed"
    BY <2>1 DEF Stepped, Invokes, HttpRuns, EventRuns, RecvRuns, ConnRuns
  <2>3. PICK f \in {"s_after_close", "c_after_close"}, q \in Seq({"app"}) :
           eh["after_close"] = q \o <<f>>
    BY DEF Stepped, ServerHttp, ClientHttp, Installed
  <2> DEFINE u == <<f, "after_close">>
  <2>4. q \in Seq(AllFuncs) /\ <<f>> \in Seq(AllFuncs) /\ <<"after_close">> \in Seq(AllFuncs)
        /\ u \in Seq(AllFuncs)
    <3>1. f \in AllFuncs /\ "after_close" \in AllFuncs /\ {"app"} \subseteq AllFuncs
      BY Kinds DEF AllFuncs, TcpFuncs, Functions
    <3> QED
      BY <3>1, ShortSeqs, SeqMonotonic
  <2>5. (q \o <<f>>) \o <<"after_close">> = q \o (<<f>> \o <<"after_close">>)
    BY <2>4, Regrouped
  <2>6. <<f>> \o <<"after_close">> = u
    BY Tuples
  <2>7. s2.funcs = <<>> \o (q \o u) /\ s2.stack = <<"conn">>
    BY <1>5, <2>1, <2>2, <2>3, <2>5, <2>6 DEF Follows
  <2>8. Running(s2, {<<>>}, {"app"}, u)
    <3> HIDE DEF u
    <3> QED
      BY <2>7 DEF Running
  <2> QED
    BY <2>2, <2>8 DEF Mode, Closed, OpenConn
<1>6. StartsIn(s, ps, qs, t)
  BY <1>1, Runs DEF Closes
<1> QED
  BY <1>3, <1>4, <1>5, <1>6 DEF StartsIn

(* The http_conn is created by the first handler of all.                   *)
LEMMA OpeningRuns ==
    ASSUME NEW s, NEW s2, NEW eh, Stepped(s, s2, eh), Opening(s)
    PROVE  Mode(s2, eh)
<1> DEFINE t == <<"advance">>
           d == <<"app_http", "pass">>
<1>1. t \in Seq(AllFuncs) /\ PassParts \subseteq Seq(AllFuncs) /\ HttpFlow \subseteq AllFuncs
      /\ d \in PassParts /\ d # <<>>
  BY EndsAreText, Kinds, PartsAreText DEF Ends, AllParts, PassParts
<1>2. PICK f \in {"s_after_open", "c_after_open"} : Begins(s, f, HttpFlow, t)
  BY DEF Opening
<1>3. f \in AllFuncs
  BY DEF AllFuncs, TcpFuncs
<1>4. PICK q \in Seq(HttpFlow) :
         s.stack = <<"conn">> /\ Head(s.funcs) = f /\ Tail(s.funcs) = <<>> \o (q \o t)
  BY <1>1, <1>2, <1>3, BeginsRun
<1>5. Swaps(s, s2, d, "http") /\ s2.at = s.at /\ s2.http = "open" /\ s2.life = s.life /\ Fresh(s2)
  BY <1>4 DEF Stepped, Invokes, HttpRuns, EventRuns, RecvRuns, ConnRuns, HttpFlow
<1>6. Running(s2, PassParts, HttpFlow, t)
  <2> HIDE DEF d
  <2> QED
    BY <1>1, <1>4, <1>5, NextOfEvent
<1> QED
  BY <1>5, <1>6 DEF Mode, Working, Opening, Asking, Fresh, Offset

(* The http_conn and then the tcp_conn are freed, in this order.           *)
LEMMA ClosedRuns ==
    ASSUME NEW s, NEW s2, NEW eh, Stepped(s, s2, eh), Closed(s)
    PROVE  Mode(s2, eh)
<1>1. ASSUME NEW f \in {"s_after_close", "c_after_close"}, s.http = "open",
             Running(s, {<<>>}, {"app"}, <<f, "after_close">>)
      PROVE  Mode(s2, eh)
  <2> DEFINE u == <<f, "after_close">>
             v == <<"app_http", "http_after_close">>
  <2>1. u \in Seq(AllFuncs) /\ {<<>>} \subseteq Seq(AllFuncs) /\ {"app"} \subseteq AllFuncs
    BY EndsAreText, ShortSeqs, Kinds DEF Ends
  <2>2. ASSUME NEW q \in Seq({"app"}), s.stack = <<"conn">>,
               Head(s.funcs) \in {"app"}, Tail(s.funcs) = <<>> \o (q \o u)
        PROVE  Mode(s2, eh)
    <3>1. Running(s2, {<<>>}, {"app"}, u) /\ SameConn(s, s2)
      <4> HIDE DEF u
      <4> QED
        BY <2>1, <2>2, Kinds, EventPart DEF Stepped
    <3> QED
      BY <1>1, <3>1 DEF Mode, Closed, SameConn
  <2>3. CASE s.funcs = u /\ s.stack = <<"conn">>
    <3>1. Head(s.funcs) = f /\ Tail(s.funcs) = <<"after_close">>
      BY <2>3
    <3>2. Swaps(s, s2, v, "http") /\ SameConn(s, s2)
      BY <3>1 DEF Stepped, Invokes, HttpRuns, EventRuns, RecvRuns, ConnRuns, HttpFlow
    <3>3. s2.funcs = <<"app_http", "http_after_close", "after_close">> /\ s2.stack = <<"http">>
      BY <2>3, <3>1, <3>2, ThreeFuncs, Swapped DEF Swaps
    <3> QED
      BY <1>1, <3>2, <3>3 DEF Mode, Closed, SameConn
  <2>4. StartsIn(s, {<<>>}, {"app"}, u)
    <3> HIDE DEF u
    <3> QED
      BY <1>1, <2>1, Runs DEF u
  <2> QED
    BY <2>2, <2>3, <2>4 DEF StartsIn
<1>2. ASSUME s.http = "open", s.stack = <<"http">>,
             s.funcs = <<"app_http", "http_after_close", "after_close">>
      PROVE  Mode(s2, eh)
  <2>1. Head(s.funcs) = "app_http" /\ Tail(s.funcs) = <<"http_after_close", "after_close">>
    BY <1>2
  <2>2. Continues(s, s2, <<>>) /\ SameConn(s, s2)
    BY <2>1 DEF Stepped, Invokes, HttpRuns, EventRuns, RecvRuns, ConnRuns
  <2>3. s2.funcs = <<"http_after_close", "after_close">> /\ s2.stack = <<"http">>
    <3>1. <<>> \o <<"http_after_close", "after_close">> = <<"http_after_close", "after_close">>
      OBVIOUS
    <3> QED
      BY <1>2, <2>1, <2>2, <3>1 DEF Continues
  <2> QED
    BY <1>2, <2>2, <2>3 DEF Mode, Closed, SameConn
<1>3. ASSUME s.http = "open", s.stack = <<"http">>, s.funcs = <<"http_after_close", "after_close">>
      PROVE  Mode(s2, eh)
  <2>1. Head(s.funcs) = "http_after_close" /\ Tail(s.funcs) = <<"after_close">>
    BY <1>3
  <2>2. Swaps(s, s2, <<>>, "conn") /\ s2.at = s.at /\ s2.http = "freed" /\ s2.life = s.life
    BY <2>1 DEF Stepped, Invokes, HttpRuns, EventRuns, RecvRuns, ConnRuns
  <2>3. s2.funcs = <<"after_close">> /\ s2.stack = <<"conn">>
    <3>1. <<>> \o <<"after_close">> = <<"after_close">>
      OBVIOUS
    <3> QED
      BY <1>3, <2>1, <2>2, <3>1, Swapped DEF Swaps
  <2> QED
    BY <2>2, <2>3 DEF Mode, Closed
<1>4. ASSUME s.http = "freed", s.stack = <<"conn">>, s.funcs = <<"after_close">>
      PROVE  Mode(s2, eh)
  <2>1. Head(s.funcs) = "after_close" /\ Tail(s.funcs) = <<>>
    BY <1>4
  <2>2. Continues(s, s2, <<>>) /\ s2.at = s.at /\ s2.http = s.http /\ s2.life = "freed"
    BY <2>1 DEF Stepped, Invokes, HttpRuns, EventRuns, RecvRuns, ConnRuns
  <2>3. s2.funcs = <<>> /\ s2.stack = <<"conn">>
    <3>1. <<>> \o <<>> = <<>>
      OBVIOUS
    <3> QED
      BY <1>4, <2>1, <2>2, <3>1 DEF Continues
  <2>4. s2.stack \in Seq(Pointers \cup {"http"})
    BY <2>3, ShortSeqs DEF Pointers
  <2> QED
    BY <1>4, <2>2, <2>3, <2>4 DEF Mode, Over, Closed
<1> QED
  BY <1>1, <1>2, <1>3, <1>4 DEF Closed

(* Every function leads from one mode to another.                          *)
LEMMA ModeRuns ==
    ASSUME NEW s, NEW s2, NEW eh, Stepped(s, s2, eh), Mode(s, eh), s.at # "io"
    PROVE  Mode(s2, eh)
<1>1. CASE Working(s, eh)
  <2>1. OpenConn(s)
    BY <1>1 DEF Working, OpenConn
  <2> QED
    BY <1>1, <2>1, AskingRuns, ReadingRuns, ExecutingRuns, HasReadRuns, HasReceivedRuns,
       ReplyingRuns, SendingRuns, HasSentRuns, ResettingRuns, ClosesRuns DEF Working
<1>2. ~Parked(s) /\ ~Over(s)
  BY DEF Parked, Over, Stepped
<1> QED
  BY <1>1, <1>2, OpeningRuns, ClosedRuns DEF Mode

-----------------------------------------------------------------------------
(* Parsing stays within the buffer, whatever it holds.                     *)
Unfinished(m, b) == Parsing(m, Len(b)) /\ m.temp[1] = "offset"

(* Parsing a start line leaves the offset within the buffer, and beyond it *)
(* when the line was complete (uo_http_msg.c).                             *)
LEMMA StartLineParsed ==
    ASSUME NEW m, NEW b \in Seq(PeerTokens), Unfinished(m, b), ~m.start_line
    PROVE  Unfinished(ParseStartLine(m, b), b)
<1> DEFINE crs == {i \in 1 .. Len(b) - 1 : b[i] = CR}
           cr  == CHOOSE i \in crs : \A j \in crs : i <= j
           r   == ParseStartLine(m, b)
<1>1. Len(b) \in Nat
  OBVIOUS
<1>2. crs # {} => cr \in crs
  <2>1. crs \subseteq Nat
    OBVIOUS
  <2> HIDE DEF crs
  <2> QED
    BY <2>1, LeastElement
<1>3. crs # {} => cr + 1 \in Nat /\ cr + 1 > 0 /\ cr + 1 <= Len(b)
  <2> HIDE DEF cr
  <2>1. crs \subseteq 1 .. Len(b) - 1
    BY Zenon
  <2> HIDE DEF crs
  <2>2. crs # {} => cr \in 1 .. Len(b) - 1
    BY <1>2, <2>1, Zenon
  <2>3. \A i \in 1 .. Len(b) - 1 : i + 1 \in Nat /\ i + 1 > 0 /\ i + 1 <= Len(b)
    BY <1>1
  <2> QED
    BY <2>2, <2>3, Zenon
<1>4. \/ r = m
      \/ r = [m EXCEPT !.is_invalid = TRUE]
      \/ /\ crs # {}
         /\ r = [m EXCEPT !.start = b[1], !.start_line = TRUE, !.temp = <<"offset", cr + 1>>]
  BY DEF ParseStartLine
<1> HIDE DEF crs, cr, r
<1>5. CASE r = m
  BY <1>5 DEF r
<1>6. CASE r = [m EXCEPT !.is_invalid = TRUE]
  <2>1. IsMsg(r) /\ r.temp = m.temp /\ r.start_line = m.start_line
        /\ r.has_headers = m.has_headers /\ r.has_body = m.has_body
    BY <1>6 DEF Unfinished, Parsing, IsMsg, MsgFields
  <2> QED
    BY <2>1 DEF Unfinished, Parsing, r
<1>7. CASE /\ crs # {}
           /\ r = [m EXCEPT !.start = b[1], !.start_line = TRUE, !.temp = <<"offset", cr + 1>>]
  <2>1. IsMsg(r) /\ r.temp = <<"offset", cr + 1>> /\ r.start_line
        /\ r.has_headers = m.has_headers /\ r.has_body = m.has_body /\ r.start_line = TRUE
    BY <1>7 DEF Unfinished, Parsing, IsMsg, MsgFields
  <2>2. m.has_body = FALSE
    BY DEF Unfinished, Parsing
  <2> QED
    BY <1>3, <1>7, <2>1, <2>2 DEF Unfinished, Parsing, r
<1> QED
  BY <1>4, <1>5, <1>6, <1>7

(* Parsing headers leaves the offset within the buffer and does not        *)
(* complete a message by itself.                                           *)
LEMMA HeadersParsed ==
    ASSUME NEW m, NEW b \in Seq(PeerTokens), Unfinished(m, b), m.start_line, ~m.has_body
    PROVE  /\ Unfinished(ParseHeaders(m, b), b)
           /\ ParseHeaders(m, b).start_line /\ ~ParseHeaders(m, b).has_body
<1> DEFINE ends == HeadersEnd(m, b)
           end  == CHOOSE i \in ends : \A j \in ends : i <= j
           hs   == SetHeaders(m.headers, SelectSeq(SubSeq(b, m.temp[2] + 1, end - 1),
                                                   LAMBDA t : t \notin {CR, LF}))
           r    == ParseHeaders(m, b)
<1>1. Len(b) \in Nat /\ m.temp[2] \in Nat /\ m.temp[2] > 0
  BY DEF Unfinished, Parsing
<1>2. ends # {} => end \in ends
  <2>1. ends \subseteq Nat
    BY <1>1 DEF HeadersEnd, BlankLines
  <2> HIDE DEF ends
  <2> QED
    BY <2>1, LeastElement
<1>3. ends # {} => end + 3 \in Nat /\ end + 3 > 0 /\ end + 3 <= Len(b)
  BY <1>1, <1>2 DEF HeadersEnd, BlankLines
<1>4. \/ r = m
      \/ /\ ends # {}
         /\ r = [m EXCEPT !.has_headers = TRUE, !.temp = <<"offset", end + 3>>, !.headers = hs]
  BY DEF ParseHeaders
<1> HIDE DEF ends, end, r, hs
<1>5. CASE r = m
  BY <1>5 DEF r
<1>6. CASE /\ ends # {}
           /\ r = [m EXCEPT !.has_headers = TRUE, !.temp = <<"offset", end + 3>>, !.headers = hs]
  <2>1. m.start_line = TRUE /\ m.has_body = FALSE
    BY DEF Unfinished, Parsing
  <2>2. IsMsg(r) /\ r.temp = <<"offset", end + 3>>
        /\ r.start_line = m.start_line /\ r.has_headers \in BOOLEAN /\ r.has_body = m.has_body
    BY <1>6 DEF Unfinished, Parsing, IsMsg, MsgFields
  <2>3. Unfinished(r, b)
    <3> DEFINE n == end + 3
    <3>1. n \in Nat /\ n > 0 /\ n <= Len(b) /\ r.temp = <<"offset", n>>
      BY <1>3, <1>6, <2>2
    <3> HIDE DEF n
    <3>2. r.temp \in {"offset", "handler"} \X Nat /\ r.temp[1] = "offset" /\ r.temp[2] = n
      BY <3>1
    <3>3. r.start_line \in BOOLEAN /\ r.has_headers \in BOOLEAN /\ r.has_body \in BOOLEAN
          /\ ~r.has_body
      BY <2>1, <2>2 DEF Unfinished, Parsing
    <3> QED
      BY <2>2, <3>1, <3>2, <3>3 DEF Unfinished, Parsing
  <2> QED
    BY <2>1, <2>2, <2>3 DEF r
<1> QED
  BY <1>4, <1>5, <1>6

(* Parsing a body leaves the offset within the buffer, and at 0 when the   *)
(* message is complete.                                                    *)
LEMMA BodyParsed ==
    ASSUME NEW m, NEW b \in Seq(PeerTokens), Unfinished(m, b), m.start_line
    PROVE  Unfinished(ParseBody(m, b), b) /\ ParseBody(m, b).start_line
<1> DEFINE r == ParseBody(m, b)
<1>1. \/ r = m
      \/ \E body : r = [m EXCEPT !.body = body, !.has_body = TRUE, !.temp = <<"offset", 0>>]
      \/ r = [m EXCEPT !.has_body = TRUE, !.temp = <<"offset", 0>>]
      \/ r = [m EXCEPT !.is_invalid = TRUE]
  BY DEF ParseBody
<1> HIDE DEF r
<1>2. CASE r = m
  BY <1>2 DEF r
<1>3. CASE r = [m EXCEPT !.is_invalid = TRUE]
  <2>1. IsMsg(r) /\ r.temp = m.temp /\ r.start_line = m.start_line
        /\ r.has_headers = m.has_headers /\ r.has_body = m.has_body
    BY <1>3 DEF Unfinished, Parsing, IsMsg, MsgFields
  <2> QED
    BY <2>1 DEF Unfinished, Parsing, r
<1>4. ASSUME \/ \E body : r = [m EXCEPT !.body = body, !.has_body = TRUE, !.temp = <<"offset", 0>>]
             \/ r = [m EXCEPT !.has_body = TRUE, !.temp = <<"offset", 0>>]
      PROVE  Unfinished(r, b) /\ r.start_line
  <2>1. Len(b) \in Nat
    OBVIOUS
  <2>2. IsMsg(r) /\ r.temp = <<"offset", 0>> /\ r.start_line = m.start_line
        /\ r.has_headers = m.has_headers /\ r.has_body \in BOOLEAN /\ r.has_body
    BY <1>4 DEF Unfinished, Parsing, IsMsg, MsgFields
  <2> QED
    BY <2>1, <2>2 DEF Unfinished, Parsing
<1> QED
  BY <1>1, <1>2, <1>3, <1>4 DEF r

(* A complete message: nothing is left to parse, and a server goes on with *)
(* its request handlers.                                                   *)
LEMMA MessageParsed ==
    ASSUME NEW m, NEW b \in Seq(PeerTokens), Unfinished(m, b), m.has_body
    PROVE  /\ Parsing(Parsed(m), Len(b))
           /\ IF Role = "server" THEN Parsed(m).temp = <<"handler", 0>>
                                 ELSE Parsed(m).temp = <<"offset", 0>>
<1>1. CASE Role = "server"
  <2> DEFINE r == Parsed(m)
  <2>1. r = [m EXCEPT !.temp = <<"handler", 0>>]
    BY <1>1 DEF Parsed
  <2> HIDE DEF r
  <2>2. IsMsg(r) /\ r.temp = <<"handler", 0>>
        /\ r.start_line = m.start_line /\ r.has_headers = m.has_headers /\ r.has_body = m.has_body
    BY <2>1 DEF Unfinished, Parsing, IsMsg, MsgFields
  <2>3. Parsing(r, Len(b))
    BY <2>2 DEF Unfinished, Parsing
  <2> QED
    BY <1>1, <2>2, <2>3 DEF r
<1>2. CASE Role # "server"
  <2>1. Parsed(m) = m
    BY <1>2 DEF Parsed
  <2>2. m.temp \in {"offset", "handler"} \X Nat /\ m.temp[1] = "offset" /\ m.temp[2] = 0
    BY DEF Unfinished, Parsing
  <2> QED
    BY <1>2, <2>1, <2>2 DEF Unfinished
<1> QED
  BY <1>1, <1>2

-----------------------------------------------------------------------------
(* What a function finds in any of the modes.                              *)
PartFuncs == {"pass", "app_http", "process", "s_before_send_response", "c_before_send_request",
              "s_after_send_response"}
EndFuncs  == {"advance", "before_recv", "send", "after_send", "close", "s_after_close",
              "c_after_close"}

(* In the midst of an event the next function is a prepended one, with the *)
(* http_conn on the stack, or one of the event or of uo_tcp, with the      *)
(* uo_tcp_conn on it.                                                      *)
LEMMA RunningHead ==
    ASSUME NEW ps, ps \subseteq AllParts, NEW qs, qs \subseteq EventFuncs \cup HttpFlow,
           NEW t \in Ends,
           NEW s, Running(s, ps, qs, t)
    PROVE  /\ s.funcs \in Seq(AllFuncs) /\ s.stack \in Seq(Pointers \cup {"http"})
           /\ s.funcs # <<>>
           /\ \/ Head(s.funcs) \in PartFuncs /\ s.stack = <<"http">>
              \/ Head(s.funcs) \in qs \cup {Head(t)} /\ s.stack = <<"conn">>
<1>1. ps \subseteq Seq(AllFuncs) /\ qs \subseteq AllFuncs /\ t \in Seq(AllFuncs)
  BY PartsAreText, Kinds, EndsAreText
<1>2. s.funcs \in Seq(AllFuncs) /\ s.stack \in {<<"conn">>, <<"http">>} /\ StartsIn(s, ps, qs, t)
  BY <1>1, Runs
<1>3. s.stack \in Seq(Pointers \cup {"http"})
  BY <1>2, ShortSeqs DEF Pointers
<1>4. \A p \in ps : p # <<>> => Head(p) \in PartFuncs
  BY PassFirst, ReplyFirst, SendFirst, ResetFirst DEF AllParts, PartFuncs
<1>5. t # <<>>
  BY DEF Ends
<1> QED
  BY <1>2, <1>3, <1>4, <1>5 DEF StartsIn

(* What uo_tcp_conn.c appends begins with a function of uo_tcp, and the    *)
(* one that resets a sent message is uo_tcp_conn_after_send.               *)
LEMMA EndHeads ==
    \A t \in Ends : /\ Head(t) \in EndFuncs
                    /\ Head(t) = "after_send" => t = <<"after_send", "advance">>
<1>1. \A a, b : Head(<<a>>) = a /\ Head(<<a, b>>) = a
  OBVIOUS
<1>2. Head(<<"advance">>) = "advance" /\ Head(<<"before_recv">>) = "before_recv"
      /\ Head(<<"send">>) = "send" /\ Head(<<"close">>) = "close"
      /\ Head(<<"after_send", "advance">>) = "after_send"
      /\ Head(<<"s_after_close", "after_close">>) = "s_after_close"
      /\ Head(<<"c_after_close", "after_close">>) = "c_after_close"
  BY <1>1
<1> QED
  BY <1>2 DEF Ends, EndFuncs

Fits(s) ==
    LET f == Head(s.funcs)
        p == Head(s.stack)
    IN /\ (f \in HttpFuncs => p = "http") /\ (f \in TcpFuncs => p = "conn")
       /\ p = "http" => s.http = "open"
       /\ f \in {"s_after_recv", "c_after_recv"} => Offset(s)
       /\ f = "after_send" => Fresh(s)

(* In the midst of an event the next function finds the connection it      *)
(* expects.                                                                *)
LEMMA RunningFits ==
    ASSUME NEW ps, ps \subseteq AllParts, NEW qs, qs \subseteq EventFuncs \cup HttpFlow,
           NEW t \in Ends,
           NEW s, Running(s, ps, qs, t), s.http = "open",
           t = <<"after_send", "advance">> => Fresh(s) \/ <<>> \notin ps
    PROVE  /\ s.funcs \in Seq(AllFuncs) /\ s.stack \in Seq(Pointers \cup {"http"})
           /\ Fits(s)
<1>1. /\ s.funcs \in Seq(AllFuncs) /\ s.stack \in Seq(Pointers \cup {"http"})
      /\ s.funcs # <<>>
      /\ \/ Head(s.funcs) \in PartFuncs /\ s.stack = <<"http">>
         \/ Head(s.funcs) \in qs \cup {Head(t)} /\ s.stack = <<"conn">>
  BY RunningHead
<1>2. Head(<<"http">>) = "http" /\ Head(<<"conn">>) = "conn"
  OBVIOUS
<1>3. CASE Head(s.funcs) \in PartFuncs /\ s.stack = <<"http">>
  <2>1. Head(s.funcs) \in HttpFuncs \ TcpFuncs
    BY <1>3 DEF PartFuncs, HttpFuncs, TcpFuncs, Functions
  <2>2. Head(s.funcs) \notin {"s_after_recv", "c_after_recv", "after_send"}
    BY <1>3 DEF PartFuncs
  <2> QED
    BY <1>1, <1>2, <1>3, <2>1, <2>2 DEF Fits
<1>4. CASE Head(s.funcs) \in qs \cup {Head(t)} /\ s.stack = <<"conn">>
  <2>1. Head(s.funcs) \in EventFuncs \cup HttpFlow \cup EndFuncs
    BY <1>4, EndHeads
  <2>2. Head(s.funcs) \notin HttpFuncs \cup {"s_after_recv", "c_after_recv"}
    BY <2>1 DEF EventFuncs, HttpFlow, NextFuncs, EndFuncs, HttpFuncs
  <2>3. Head(s.funcs) = "after_send" => t = <<"after_send", "advance">>
    <3>1. "after_send" \notin EventFuncs \cup HttpFlow
      BY DEF EventFuncs, HttpFlow, NextFuncs
    <3> QED
      BY <1>4, <3>1, EndHeads
  <2>4. <<>> \in ps
    BY <1>4 DEF Running
  <2> QED
    BY <1>1, <1>2, <1>4, <2>2, <2>3, <2>4 DEF Fits
<1> QED
  BY <1>1, <1>3, <1>4

Found(s) ==
    /\ s.funcs \in Seq(AllFuncs) /\ s.stack \in Seq(Pointers \cup {"http"})
    /\ s.funcs # <<>> => Fits(s)
    /\ s.life = "freed" => s.http = "freed"

(* At the beginning of an event its first function finds the connection it *)
(* expects.                                                                *)
LEMMA BeginsFits ==
    ASSUME NEW s, NEW f \in TcpFuncs, NEW qs, qs \subseteq HttpFlow, NEW t \in Ends,
           Begins(s, f, qs, t),
           f \in {"s_after_recv", "c_after_recv"} => Offset(s), f # "after_send"
    PROVE  s.funcs \in Seq(AllFuncs) /\ s.stack \in Seq(Pointers \cup {"http"}) /\ Fits(s)
<1>1. f \in AllFuncs /\ qs \subseteq AllFuncs /\ t \in Seq(AllFuncs)
  BY Kinds, EndsAreText DEF AllFuncs
<1>2. s.funcs \in Seq(AllFuncs) /\ s.stack = <<"conn">> /\ Head(s.funcs) = f
  BY <1>1, BeginsRun
<1>3. f \notin HttpFuncs /\ Head(<<"conn">>) = "conn"
  BY DEF HttpFuncs, TcpFuncs, Functions
<1>4. s.stack \in Seq(Pointers \cup {"http"})
  BY <1>2, ShortSeqs DEF Pointers
<1> QED
  BY <1>2, <1>3, <1>4 DEF Fits

(* The lists of prepended functions of every event are among all of them.  *)
LEMMA PartKinds ==
    /\ PassParts \subseteq AllParts /\ ReplyParts \subseteq AllParts
    /\ SendParts \subseteq AllParts /\ ResetParts \subseteq AllParts
    /\ {<<>>} \subseteq AllParts /\ RecvFlow \subseteq HttpFlow /\ {"app"} \subseteq HttpFlow
BY Kinds DEF AllParts, PassParts

(* The functions that complete a read find the uo_tcp_conn they expect.    *)
LEMMA ReadFits ==
    ASSUME NEW s, s.funcs \in {<<"execute_io", "recv">>, <<"recv">>},
           s.stack \in {<<"conn", "epevt">>, <<"conn", "len">>, <<"conn", "err", "zero">>}
    PROVE  s.funcs \in Seq(AllFuncs) /\ s.stack \in Seq(Pointers \cup {"http"}) /\ Fits(s)
<1>1. Head(s.funcs) \in {"execute_io", "recv"} /\ Head(s.stack) = "conn"
  <2>1. \A a, b, c : Head(<<a>>) = a /\ Head(<<a, b>>) = a /\ Head(<<a, b, c>>) = a
    OBVIOUS
  <2> QED
    BY <2>1
<1>2. {"execute_io", "recv"} \cap (HttpFuncs \cup TcpFuncs) = {}
      /\ {"execute_io", "recv"} \subseteq AllFuncs
  BY DEF HttpFuncs, TcpFuncs, AllFuncs, Functions
<1>3. s.funcs \in Seq(AllFuncs)
  <2>1. <<"execute_io", "recv">> \in Seq(AllFuncs) /\ <<"recv">> \in Seq(AllFuncs)
    BY <1>2, ShortSeqs
  <2> QED
    BY <2>1
<1>4. s.stack \in Seq(Pointers \cup {"http"})
  <2> DEFINE S == Pointers \cup {"http"}
  <2>1. {"conn", "epevt", "len", "err", "zero"} \subseteq S
    BY DEF Pointers
  <2> HIDE DEF S
  <2>2. /\ <<"conn", "epevt">> \in Seq(S) /\ <<"conn", "len">> \in Seq(S)
        /\ <<"conn", "err", "zero">> \in Seq(S)
    BY <2>1, ShortSeqs
  <2> QED
    BY <2>2 DEF S
<1> QED
  BY <1>1, <1>2, <1>3, <1>4 DEF Fits

(* While the http_conn is open and the callback is not parked, the next    *)
(* function finds the connection it expects.                               *)
LEMMA WorkingFits ==
    ASSUME NEW s, NEW eh, Working(s, eh)
    PROVE  Found(s)
<1> SUFFICES s.funcs \in Seq(AllFuncs) /\ s.stack \in Seq(Pointers \cup {"http"}) /\ Fits(s)
  BY DEF Working, Found
<1>1. s.http = "open"
  BY DEF Working
<1>2. {<<"advance">>, <<"before_recv">>, <<"send">>, <<"after_send", "advance">>, <<"close">>}
      \subseteq Ends
  BY DEF Ends
<1>3. /\ <<"advance">> # <<"after_send", "advance">>
             /\ <<"before_recv">> # <<"after_send", "advance">>
      /\ <<"send">> # <<"after_send", "advance">> /\ <<"close">> # <<"after_send", "advance">>
  OBVIOUS
<1>4. {"s_after_recv", "c_after_recv", "s_after_send"} \subseteq TcpFuncs
  BY DEF TcpFuncs
<1>5. CASE Asking(s)
  <2>1. PassParts \subseteq AllParts /\ HttpFlow \subseteq EventFuncs \cup HttpFlow
    BY PartKinds
  <2> QED
    BY <1>1, <1>2, <1>3, <1>5, <2>1, RunningFits DEF Asking
<1>6. CASE Reading(s)
  <2>1. {<<>>} \subseteq AllParts /\ {"app"} \subseteq EventFuncs \cup HttpFlow
    BY PartKinds
  <2> QED
    BY <1>1, <1>2, <1>3, <1>6, <2>1, RunningFits DEF Reading
<1>7. CASE Executing(s) \/ HasRead(s)
  <2>1. /\ s.funcs \in {<<"execute_io", "recv">>, <<"recv">>}
        /\ s.stack \in {<<"conn", "epevt">>, <<"conn", "len">>, <<"conn", "err", "zero">>}
    BY <1>7 DEF Executing, HasRead
  <2> QED
    BY <2>1, ReadFits
<1>8. CASE HasReceived(s, eh)
  BY <1>2, <1>4, <1>8, PartKinds, BeginsFits DEF HasReceived
<1>9. CASE Replying(s, eh)
  <2> DEFINE ps == PassParts \cup ReplyParts
  <2>1. ps \subseteq AllParts /\ RecvFlow \subseteq EventFuncs \cup HttpFlow
    BY PartKinds
  <2>2. Running(s, ps, RecvFlow, <<"advance">>)
    BY <1>9 DEF Replying
  <2> HIDE DEF ps
  <2> QED
    BY <1>1, <1>2, <1>3, <2>1, <2>2, RunningFits
<1>10. CASE Sending(s, eh)
  <2> DEFINE ps == PassParts \cup SendParts
             qs == {"s_before_send", "c_before_send", "app"}
  <2>1. ps \subseteq AllParts /\ qs \subseteq EventFuncs \cup HttpFlow
    BY PartKinds DEF EventFuncs, HttpFlow
  <2>2. Running(s, ps, qs, <<"send">>)
    BY <1>10 DEF Sending
  <2> HIDE DEF ps, qs
  <2> QED
    BY <1>1, <1>2, <1>3, <2>1, <2>2, RunningFits
<1>11. CASE HasSent(s)
  <2> DEFINE ps == PassParts \cup ResetParts
             qs == HttpFlow \cup {"s_after_send", "c_after_send"}
  <2>1. ps \subseteq AllParts /\ qs \subseteq EventFuncs \cup HttpFlow
    BY PartKinds DEF EventFuncs
  <2>2. Running(s, ps, qs, <<"after_send", "advance">>) /\ Fresh(s)
    BY <1>11 DEF HasSent
  <2> HIDE DEF ps, qs
  <2> QED
    BY <1>1, <1>2, <2>1, <2>2, RunningFits
<1>12. CASE Resetting(s, eh)
  <2>1. CASE Begins(s, "s_after_send", HttpFlow, <<"after_send", "advance">>)
    BY <1>2, <1>4, <2>1, BeginsFits
  <2>2. CASE Running(s, ResetParts, HttpFlow, <<"after_send", "advance">>)
    <3>1. ResetParts \subseteq AllParts /\ HttpFlow \subseteq EventFuncs \cup HttpFlow
              /\ <<>> \notin ResetParts
      BY PartKinds, ResetFirst
    <3> QED
      BY <1>1, <1>2, <2>2, <3>1, RunningFits
  <2> QED
    BY <1>12, <2>1, <2>2 DEF Resetting
<1>13. CASE Closes(s)
  <2> DEFINE qs == HttpFlow \cup {"s_before_close", "c_before_close"}
  <2>1. PassParts \subseteq AllParts /\ qs \subseteq EventFuncs \cup HttpFlow
    BY PartKinds DEF EventFuncs
  <2>2. Running(s, PassParts, qs, <<"close">>)
    BY <1>13 DEF Closes
  <2> HIDE DEF qs
  <2> QED
    BY <1>1, <1>2, <1>3, <2>1, <2>2, RunningFits
<1> QED
  BY <1>5, <1>6, <1>7, <1>8, <1>9, <1>10, <1>11, <1>12, <1>13 DEF Working

(* Wherever the callback is, the next function finds the connection it     *)
(* expects, alive, and a parse function finds an offset.                   *)
LEMMA ModeFits ==
    ASSUME NEW s, NEW eh, Mode(s, eh)
    PROVE  Found(s)
<1>1. CASE Opening(s)
  <2>1. {"s_after_open", "c_after_open"} \subseteq TcpFuncs /\ <<"advance">> \in Ends
    BY DEF TcpFuncs, Ends
  <2>2. s.funcs \in Seq(AllFuncs) /\ s.stack \in Seq(Pointers \cup {"http"}) /\ Fits(s)
    BY <1>1, <2>1, BeginsFits DEF Opening
  <2> QED
    BY <1>1, <2>2 DEF Opening, Found
<1>2. CASE Parked(s)
  <2>1. /\ s.funcs \in {<<"execute_io", "recv">>, <<"recv">>}
        /\ s.stack \in {<<"conn", "epevt">>, <<"conn", "len">>, <<"conn", "err", "zero">>}
    BY <1>2 DEF Parked
  <2>2. s.funcs \in Seq(AllFuncs) /\ s.stack \in Seq(Pointers \cup {"http"}) /\ Fits(s)
    BY <2>1, ReadFits
  <2> QED
    BY <1>2, <2>2 DEF Parked, Found
<1>3. CASE Over(s)
  BY <1>3, ShortSeqs DEF Over, Found
<1>4. CASE Closed(s)
  <2>1. ASSUME NEW f \in {"s_after_close", "c_after_close"}, s.http = "open",
               Running(s, {<<>>}, {"app"}, <<f, "after_close">>)
        PROVE  s.funcs \in Seq(AllFuncs) /\ s.stack \in Seq(Pointers \cup {"http"}) /\ Fits(s)
    <3> DEFINE u == <<f, "after_close">>
    <3>1. {<<>>} \subseteq AllParts /\ {"app"} \subseteq EventFuncs \cup HttpFlow /\ u \in Ends
          /\ u # <<"after_send", "advance">>
      BY PartKinds DEF Ends
    <3>2. Running(s, {<<>>}, {"app"}, u)
      BY <2>1
    <3> HIDE DEF u
    <3> QED
      BY <2>1, <3>1, <3>2, RunningFits
  <2>2. ASSUME s.http = "open", s.stack = <<"http">>,
               s.funcs \in {<<"app_http", "http_after_close", "after_close">>,
                            <<"http_after_close", "after_close">>}
        PROVE  s.funcs \in Seq(AllFuncs) /\ s.stack \in Seq(Pointers \cup {"http"}) /\ Fits(s)
    <3>1. Head(s.funcs) \in {"app_http", "http_after_close"} /\ Head(s.stack) = "http"
      <4>1. \A a, b, c : Head(<<a>>) = a /\ Head(<<a, b>>) = a /\ Head(<<a, b, c>>) = a
        OBVIOUS
      <4> QED
        BY <2>2, <4>1
    <3>2. {"app_http", "http_after_close", "after_close"} \subseteq AllFuncs
          /\ {"app_http", "http_after_close"} \cap TcpFuncs = {}
      BY DEF AllFuncs, HttpFuncs, TcpFuncs, Functions
    <3>3. /\ <<"app_http", "http_after_close", "after_close">> \in Seq(AllFuncs)
          /\ <<"http_after_close", "after_close">> \in Seq(AllFuncs)
          /\ <<"http">> \in Seq(Pointers \cup {"http"})
      BY <3>2, ShortSeqs
    <3>4. s.funcs \in Seq(AllFuncs) /\ s.stack \in Seq(Pointers \cup {"http"})
      BY <2>2, <3>3
    <3>5. Head(s.funcs) \notin {"s_after_recv", "c_after_recv", "after_send"}
      BY <3>1
    <3> QED
      BY <2>2, <3>1, <3>2, <3>4, <3>5 DEF Fits
  <2>3. ASSUME s.stack = <<"conn">>, s.funcs = <<"after_close">>
        PROVE  s.funcs \in Seq(AllFuncs) /\ s.stack \in Seq(Pointers \cup {"http"}) /\ Fits(s)
    <3>1. Head(s.funcs) = "after_close" /\ Head(s.stack) = "conn"
      BY <2>3
    <3>2. "after_close" \in AllFuncs \ HttpFuncs /\ "conn" \in Pointers
      BY DEF AllFuncs, HttpFuncs, TcpFuncs, Functions, Pointers
    <3> QED
      BY <2>3, <3>1, <3>2, ShortSeqs DEF Fits
  <2> QED
    BY <1>4, <2>1, <2>2, <2>3 DEF Closed, Found
<1> QED
  BY <1>1, <1>2, <1>3, <1>4, WorkingFits DEF Mode

-----------------------------------------------------------------------------
(* What the actions do to the callback, the only one there is.             *)
LEMMA CalledFirst ==
    ASSUME HttpConnInv, NEW c \in Chains, NEW f, Calls(c, f)
    PROVE  /\ c = FirstChain /\ chain[c] \in Driver /\ chain[c].at = "run"
           /\ Now.at = "run" /\ Now.funcs # <<>> /\ Head(Now.funcs) = f
           /\ Rest(c) = Tail(Now.funcs) /\ chain[c].stack = Now.stack /\ Rest(c) \in Seq(AllFuncs)
<1>1. c = FirstChain
  <2>1. NoChain.at # "run"
    BY DEF NoChain
  <2> QED
    BY <2>1 DEF HttpConnInv, Drivers, Calls
<1>2. chain[c] \in Driver
  BY DEF HttpConnInv, Drivers
<1>3. Now.at = chain[c].at /\ Now.funcs = chain[c].funcs /\ Now.stack = chain[c].stack
  BY <1>1 DEF Now
<1>4. chain[c].funcs \in Seq(AllFuncs)
  BY <1>2 DEF Driver
<1> QED
  BY <1>1, <1>2, <1>3, <1>4 DEF Calls, Rest

(* An update of the callback leaves a callback.                            *)
Edit(q, a, fs, st) ==
    /\ q.at = a /\ q.funcs = fs /\ q.stack = st
    /\ fs \in Seq(AllFuncs) /\ st \in Seq(Pointers \cup {"http"}) => q \in Driver

(* An assignment to fields of the callback's record changes these and      *)
(* keeps the others.                                                       *)
LEMMA Edited ==
    ASSUME NEW r \in Driver, NEW fs, NEW st, NEW a \in {"none", "queued", "run", "io"}
    PROVE  /\ Edit([r EXCEPT !.funcs = fs], r.at, fs, r.stack)
           /\ Edit([r EXCEPT !.funcs = fs, !.stack = st], r.at, fs, st)
           /\ Edit([r EXCEPT !.funcs = fs, !.idling = TRUE], r.at, fs, r.stack)
           /\ Edit([r EXCEPT !.at = a], a, r.funcs, r.stack)
           /\ Edit([r EXCEPT !.at = a, !.funcs = fs], a, fs, r.stack)
           /\ Edit([r EXCEPT !.funcs = fs, !.at = a, !.stack = st], a, fs, st)
<1>1. Edit([r EXCEPT !.funcs = fs], r.at, fs, r.stack)
  BY DEF Driver, Edit
<1>2. Edit([r EXCEPT !.funcs = fs, !.stack = st], r.at, fs, st)
  BY DEF Driver, Edit
<1>3. Edit([r EXCEPT !.funcs = fs, !.idling = TRUE], r.at, fs, r.stack)
  BY DEF Driver, Edit
<1>4. Edit([r EXCEPT !.at = a], a, r.funcs, r.stack)
  BY DEF Driver, Edit
<1>5. Edit([r EXCEPT !.at = a, !.funcs = fs], a, fs, r.stack)
  BY DEF Driver, Edit
<1>6. Edit([r EXCEPT !.funcs = fs, !.at = a, !.stack = st], a, fs, st)
  BY DEF Driver, Edit
<1> QED
  BY <1>1, <1>2, <1>3, <1>4, <1>5, <1>6

(* A step that replaces the record of the one callback is a step of its    *)
(* snapshot.                                                               *)
LEMMA Moved ==
    ASSUME HttpConnInv, NEW q, NEW a, NEW fs, NEW st, Edit(q, a, fs, st),
           chain' = [chain EXCEPT ![FirstChain] = q]
    PROVE  /\ Now'.at = a /\ Now'.funcs = fs /\ Now'.stack = st
           /\ Found(Now') => Drivers'
<1>1. FirstChain \in Chains /\ chain \in [Chains -> Driver]
      /\ \A c \in Chains : c # FirstChain => chain[c] = NoChain
  BY FirstChainAssumption DEF HttpConnInv, Drivers
<1>2. chain'[FirstChain] = q /\ \A c \in Chains : c # FirstChain => chain'[c] = NoChain
  BY <1>1
<1>3. Now'.at = a /\ Now'.funcs = fs /\ Now'.stack = st
  BY <1>2 DEF Now, Edit
<1>4. ASSUME Found(Now') PROVE Drivers'
  <2>1. q \in Driver
    BY <1>3, <1>4 DEF Found, Edit
  <2>2. chain' \in [Chains -> Driver]
    BY <1>1, <2>1
  <2> QED
    BY <1>2, <2>2 DEF Drivers
<1> QED
  BY <1>3, <1>4

(* A function ran: what it did to the list and to the stack.               *)
Ran(f) ==
    /\ Now.funcs # <<>> /\ Head(Now.funcs) = f /\ Now.at = "run"
    /\ evt_handlers' = evt_handlers /\ (Found(Now') => Drivers')

(* A function that only prepends is one that ran and continued.            *)
LEMMA PlainRan ==
    ASSUME HttpConnInv, NEW c \in Chains, NEW f, NEW first, Plain(c, f, first)
    PROVE  /\ Ran(f) /\ Continues(Now, Now', first)
           /\ c = FirstChain /\ Now'.at = Now.at /\ Now'.life = Now.life
<1>1. Calls(c, f)
  BY DEF Plain
<1>2. /\ c = FirstChain /\ chain[c] \in Driver /\ Now.at = "run" /\ chain[c].at = "run"
      /\ Now.funcs # <<>> /\ Head(Now.funcs) = f
      /\ Rest(c) = Tail(Now.funcs) /\ chain[c].stack = Now.stack
  BY <1>1, CalledFirst
<1> DEFINE r  == chain[c]
           fs == first \o Rest(c)
<1>3. chain' = [chain EXCEPT ![c] = [r EXCEPT !.funcs = fs]]
  <2>1. chain \in [Chains -> Driver]
    BY DEF HttpConnInv, Drivers
  <2>2. chain' = [chain EXCEPT ![c].funcs = fs]
    BY DEF Plain
  <2> HIDE DEF fs
  <2> QED
    BY <2>1, <2>2
<1>4. Edit([r EXCEPT !.funcs = fs], r.at, fs, r.stack)
  BY <1>2, Edited
<1> HIDE DEF r, fs
<1>5. Now'.at = r.at /\ Now'.funcs = fs /\ Now'.stack = r.stack /\ (Found(Now') => Drivers')
  BY <1>2, <1>3, <1>4, Moved
<1>6. Now'.life = Now.life /\ evt_handlers' = evt_handlers
  BY DEF Plain, Now
<1> QED
  BY <1>2, <1>5, <1>6 DEF Ran, Continues, r, fs

(* A function that swaps the connections on the stack is one that ran and  *)
(* swapped.                                                                *)
LEMMA SwapRan ==
    ASSUME HttpConnInv, NEW c \in Chains, NEW f, NEW p, NEW first, Swap(c, f, p, first)
    PROVE  /\ Ran(f) /\ Swaps(Now, Now', first, p)
           /\ c = FirstChain /\ Now'.at = Now.at /\ Now'.life = Now.life
<1>1. Calls(c, f)
  BY DEF Swap
<1>2. /\ c = FirstChain /\ chain[c] \in Driver /\ Now.at = "run" /\ chain[c].at = "run"
      /\ Now.funcs # <<>> /\ Head(Now.funcs) = f
      /\ Rest(c) = Tail(Now.funcs) /\ chain[c].stack = Now.stack
  BY <1>1, CalledFirst
<1> DEFINE r  == chain[c]
           fs == first \o Rest(c)
           st == Append(Pop(r.stack), p)
<1>3. chain' = [chain EXCEPT ![c] = [r EXCEPT !.funcs = fs, !.stack = st]]
  <2>1. chain \in [Chains -> Driver]
    BY DEF HttpConnInv, Drivers
  <2>2. chain' = [chain EXCEPT ![c].funcs = fs, ![c].stack = Append(Pop(@), p)]
    BY DEF Swap
  <2>3. chain' = [chain EXCEPT ![c].funcs = fs, ![c].stack = st]
    BY <2>1, <2>2 DEF Driver
  <2> HIDE DEF fs, st
  <2> QED
    BY <2>1, <2>3
<1>4. Edit([r EXCEPT !.funcs = fs, !.stack = st], r.at, fs, st)
  BY <1>2, Edited
<1> HIDE DEF r, fs, st
<1>5. Now'.at = r.at /\ Now'.funcs = fs /\ Now'.stack = st /\ (Found(Now') => Drivers')
  BY <1>2, <1>3, <1>4, Moved
<1>6. Now'.life = Now.life /\ evt_handlers' = evt_handlers
  BY DEF Swap, Now
<1> QED
  BY <1>2, <1>5, <1>6 DEF Ran, Swaps, r, fs, st

(* A function of uo_tcp_conn.c that appends functions is one that ran and  *)
(* is followed by them.                                                    *)
LEMMA ThenRan ==
    ASSUME HttpConnInv, NEW c \in Chains, NEW f, Calls(c, f), NEW more,
           chain' = Then(c, more), evt_handlers' = evt_handlers
    PROVE  /\ Ran(f) /\ Now'.at = Now.at
           /\ Now'.funcs = Tail(Now.funcs) \o more /\ Now'.stack = Now.stack
<1> DEFINE r  == chain[c]
           fs == Rest(c) \o more
<1>1. r \in Driver /\ Rest(c) = Tail(Now.funcs) /\ r.stack = Now.stack /\ r.at = "run"
      /\ Now.at = "run"
  BY CalledFirst
<1>2. chain' = [chain EXCEPT ![c] = [r EXCEPT !.funcs = fs]]
  <2>1. chain \in [Chains -> Driver]
    BY DEF HttpConnInv, Drivers
  <2>2. chain' = [chain EXCEPT ![c].funcs = fs]
    BY DEF Then
  <2> HIDE DEF fs
  <2> QED
    BY <2>1, <2>2
<1>3. Edit([r EXCEPT !.funcs = fs], r.at, fs, r.stack)
  BY <1>1, Edited
<1> DEFINE q == [r EXCEPT !.funcs = fs]
<1>4. chain' = [chain EXCEPT ![c] = q] /\ Edit(q, r.at, fs, r.stack)
  BY <1>2, <1>3
<1> HIDE DEF q, r, fs
<1>5. c = FirstChain /\ Now.funcs # <<>> /\ Head(Now.funcs) = f
  BY CalledFirst
<1>6. /\ Now'.at = r.at /\ Now'.funcs = fs /\ Now'.stack = r.stack
      /\ Found(Now') => Drivers'
  BY <1>4, <1>5, Moved
<1> QED
  BY <1>1, <1>5, <1>6 DEF Ran, r, fs

(* A function that calls uo_cb_invoke and nothing else is one that ran and *)
(* continued.                                                              *)
LEMMA ContinueRan ==
    ASSUME HttpConnInv, NEW c \in Chains, NEW f, Calls(c, f),
           chain' = Continue(c), evt_handlers' = evt_handlers
    PROVE  Ran(f) /\ Now'.at = Now.at /\ Continues(Now, Now', <<>>) /\ Now'.funcs = Tail(Now.funcs)
<1>1. Tail(Now.funcs) \in Seq(AllFuncs)
  BY CalledFirst
<1>2. /\ Ran(f) /\ Now'.at = Now.at
      /\ Now'.funcs = Tail(Now.funcs) \o <<>> /\ Now'.stack = Now.stack
  BY ThenRan DEF Continue
<1>3. Tail(Now.funcs) \o <<>> = Tail(Now.funcs) /\ <<>> \o Tail(Now.funcs) = Tail(Now.funcs)
  BY <1>1, ConcatEmptySeq
<1> QED
  BY <1>2, <1>3 DEF Continues

(* What is requested of the connection, which is never idle (its advance   *)
(* does not get as far).                                                   *)
LEMMA StateAsked ==
    ASSUME HttpConnInv, NEW c, NEW req \in Requests, NextState(c, req)
    PROVE  Asks(Now, Now', req) /\ state' \in {"0"} \cup Requests
<1>1. state \in {"0"} \cup Requests /\ state # "i"
  BY DEF HttpConnInv, Requests
<1> QED
  BY <1>1 DEF NextState, Asks, Requested, Now, Requests

(* A sequence that is not empty is its head and its tail.                  *)
LEMMA SplitAtHead ==
    ASSUME NEW S, NEW x \in Seq(S), x # <<>>
    PROVE  x = <<Head(x)>> \o Tail(x)
<1>1. Len(x) \in Nat \ {0}
  BY EmptySeq
<1>2. x[1] \in S
  BY <1>1, ElementOfSeq
<1>3. Tail(x) \in Seq(S) /\ Len(Tail(x)) = Len(x) - 1
  BY HeadTailProperties
<1>4. \A i \in 1 .. Len(Tail(x)) : Tail(x)[i] = x[i + 1]
  BY HeadTailProperties
<1>5. Head(x) = x[1]
  BY <1>1
<1>6. <<x[1]>> \in Seq(S) /\ Len(<<x[1]>>) = 1 /\ <<x[1]>>[1] = x[1]
  BY <1>2
<1>7. Len(x) = Len(<<x[1]>>) + Len(Tail(x))
  BY <1>1, <1>3, <1>6
<1>8. ASSUME NEW i \in 1 .. Len(x)
      PROVE  x[i] = IF i <= Len(<<x[1]>>) THEN <<x[1]>>[i] ELSE Tail(x)[i - Len(<<x[1]>>)]
  <2>1. i \in Nat /\ (i <= 1 => i = 1) /\ (~(i <= 1) => i - 1 \in 1 .. Len(Tail(x)))
    BY <1>1, <1>3
  <2>2. ~(i <= 1) => Tail(x)[i - 1] = x[(i - 1) + 1]
    BY <2>1, <1>4
  <2>3. (i - 1) + 1 = i
    BY <2>1
  <2> QED
    BY <2>1, <2>2, <2>3, <1>6
<1>9. x = <<x[1]>> \o Tail(x)
  BY <1>3, <1>6, <1>7, <1>8, Joined
<1> QED
  BY <1>5, <1>9, Zenon

(* A sequence that is not empty is what Pop leaves of it and its top.      *)
LEMMA SplitAtTop ==
    ASSUME NEW S, NEW x \in Seq(S), x # <<>>
    PROVE  x = Pop(x) \o <<Top(x)>>
<1>1. Len(x) \in Nat \ {0}
  BY EmptySeq
<1>2. x[Len(x)] \in S /\ \A i \in 1 .. Len(x) : x[i] \in S
  BY <1>1, ElementOfSeq
<1>3. Pop(x) \in Seq(S) /\ Len(Pop(x)) = Len(x) - 1
  <2>1. 1 \in Int /\ Len(x) - 1 \in Int /\ \A i \in 1 .. Len(x) - 1 : x[i] \in S
    BY <1>1, <1>2
  <2>2. /\ SubSeq(x, 1, Len(x) - 1) \in Seq(S)
        /\ Len(SubSeq(x, 1, Len(x) - 1)) =
               IF 1 <= Len(x) - 1 THEN (Len(x) - 1) - 1 + 1 ELSE 0
    BY <2>1, SubSeqProperties
  <2> DEFINE n == Len(x)
  <2>3. (IF 1 <= n - 1 THEN (n - 1) - 1 + 1 ELSE 0) = n - 1
    <3>1. n \in Nat /\ n # 0
      BY <1>1
    <3> HIDE DEF n
    <3> QED
      BY <3>1
  <2>4. Pop(x) = SubSeq(x, 1, Len(x) - 1)
    BY DEF Pop
  <2> QED
    BY <2>2, <2>3, <2>4, Zenon
<1>4. \A i \in 1 .. Len(x) - 1 : Pop(x)[i] = x[i]
  BY <1>1 DEF Pop
<1>5. /\ <<x[Len(x)]>> \in Seq(S) /\ Len(<<x[Len(x)]>>) = 1
      /\ <<x[Len(x)]>>[1] = x[Len(x)]
  BY <1>2
<1>6. Len(x) = Len(Pop(x)) + Len(<<x[Len(x)]>>)
  BY <1>1, <1>3, <1>5
<1>7. ASSUME NEW i \in 1 .. Len(x)
      PROVE  x[i] = IF i <= Len(Pop(x)) THEN Pop(x)[i] ELSE <<x[Len(x)]>>[i - Len(Pop(x))]
  BY <1>1, <1>3, <1>4, <1>5
<1>8. x = Pop(x) \o <<x[Len(x)]>>
  BY <1>3, <1>5, <1>6, <1>7, Joined
<1> QED
  BY <1>8, Zenon DEF Top

(* What the constants say of the handlers that uo_http_server_create and   *)
(* uo_http_client_create install is the form in which the lists of an      *)
(* event are joined and taken apart.                                       *)
LEMMA HandlersInstalled ==
    ASSUME NEW eh
    PROVE  /\ HttpServerHandlers(eh) => ServerHttp(eh)
           /\ HttpClientHandlers(eh) => ClientHttp(eh)
<1>1. ASSUME NEW x \in Seq(TcpFuncs), x # <<>>
      PROVE  x = <<Head(x)>> \o Tail(x) /\ x = Pop(x) \o <<Top(x)>>
  <2> DEFINE S == TcpFuncs
  <2>1. x \in Seq(S)
    OBVIOUS
  <2> HIDE DEF S
  <2>2. x = <<Head(x)>> \o Tail(x)
    BY <2>1, <1>1, SplitAtHead
  <2>3. x = Pop(x) \o <<Top(x)>>
    BY <2>1, <1>1, SplitAtTop
  <2> QED
    BY <2>2, <2>3, Zenon
<1>2. ASSUME NEW open, NEW recv, NEW send, NEW sent, NEW close, NEW closed,
             SwapsAtEvents(eh, open, recv, send, sent, close, closed)
      PROVE  Installed(eh, open, recv, send, sent, close, closed)
  <2>1. /\ eh["after_open"] \in Seq(TcpFuncs) /\ eh["after_recv"] \in Seq(TcpFuncs)
        /\ eh["after_send"] \in Seq(TcpFuncs) /\ eh["after_close"] \in Seq(TcpFuncs)
    BY <1>2 DEF SwapsAtEvents, Events
  <2>2. \E q \in Seq(HttpFlow) : eh["after_open"] = <<open>> \o q
    BY <1>1, <1>2, <2>1 DEF SwapsAtEvents, HttpFlow
  <2>3. \E q \in Seq(RecvFlow) : eh["after_recv"] = <<recv>> \o q
    BY <1>1, <1>2, <2>1 DEF SwapsAtEvents, RecvFlow
  <2>4. \E q \in Seq(HttpFlow) : eh["after_send"] = <<sent>> \o q
    BY <1>1, <1>2, <2>1 DEF SwapsAtEvents, HttpFlow
  <2>5. \E q \in Seq({"app"}) : eh["after_close"] = q \o <<closed>>
    BY <1>1, <1>2, <2>1 DEF SwapsAtEvents
  <2> QED
    BY <1>2, <2>2, <2>3, <2>4, <2>5 DEF SwapsAtEvents, Installed, HttpFlow
<1> QED
  BY <1>2 DEF HttpServerHandlers, HttpClientHandlers, ServerHttp, ClientHttp

(* The step of a function, and what is left to show of it.                 *)
Acts ==
    /\ Now.funcs # <<>> /\ Now.at = "run" /\ Invokes(Head(Now.funcs), Now, Now', evt_handlers)
    /\ evt_handlers' = evt_handlers /\ (Found(Now') => Drivers')
    /\ state' \in {"0"} \cup Requests /\ http' \in {"none", "open", "freed"}

HttpAssumption ==
    ~EpollFails /\ \A eh \in Handlers : HttpServerHandlers(eh) \/ HttpClientHandlers(eh)

(* A function that does what it is known to do keeps the invariant, if it  *)
(* leaves the buffers in order.                                            *)
LEMMA ActsKeep ==
    ASSUME HttpAssumption, HttpConnInv, Acts, Buffers'
    PROVE  HttpConnInv'
<1>1. Stepped(Now, Now', evt_handlers)
  <2>1. Now.state = state
    BY DEF Now
  <2> QED
    BY <2>1, HandlersInstalled DEF Stepped, Acts, HttpConnInv, HttpAssumption
<1>2. Mode(Now', evt_handlers)
  <2>1. Now.at # "io"
    BY DEF Acts
  <2> QED
    BY <1>1, <2>1, ModeRuns DEF HttpConnInv
<1>3. Found(Now')
  BY <1>2, ModeFits
<1> QED
  BY <1>2, <1>3 DEF HttpConnInv, Acts

(* What is to be shown of a function that ran.                             *)
LEMMA ActsIf ==
    ASSUME NEW f, Ran(f), Invokes(f, Now, Now', evt_handlers),
           state' \in {"0"} \cup Requests, http' \in {"none", "open", "freed"}
    PROVE  Acts
BY DEF Ran, Acts

(* The buffers, when a function neither reads nor waits for data.          *)
LEMMA BuffersKept ==
    ASSUME HttpConnInv, UNCHANGED <<rbuf, wire, rsize>>, Now'.at = "run",
           msg' = msg \/ Parsing(msg', Len(rbuf))
    PROVE  Buffers'
<1>1. chain'[FirstChain].at # "io"
  BY DEF Now
<1>2. Parsing(msg', Len(rbuf'))
  BY DEF HttpConnInv, Buffers
<1> QED
  BY <1>1, <1>2 DEF HttpConnInv, Buffers

(* A message that was just reset is parsed from offset 0.                  *)
LEMMA NewMsgParses ==
    ASSUME NEW len \in Nat
    PROVE  Parsing(NewMsg, len) /\ NewMsg.temp = <<"offset", 0>>
<1>1. /\ NewMsg.temp = <<"offset", 0>> /\ NewMsg.start_line = FALSE
      /\ NewMsg.has_headers = FALSE /\ NewMsg.has_body = FALSE
  BY DEF NewMsg
<1>2. NewMsg.start_line \in BOOLEAN /\ NewMsg.has_headers \in BOOLEAN /\ NewMsg.has_body \in BOOLEAN
  BY DEF NewMsg
<1>3. IsMsg(NewMsg)
  BY DEF NewMsg, IsMsg, MsgFields
<1> QED
  BY <1>1, <1>2, <1>3 DEF Parsing

(* A handler that only swaps, and changes no message.                      *)
LEMMA QuietSwap ==
    ASSUME HttpConnInv, NEW c \in Chains, NEW f, NEW p, NEW first, Swap(c, f, p, first), NoRequest,
           UNCHANGED http_vars
    PROVE  /\ Swaps(Now, Now', first, p) /\ SameConn(Now, Now') /\ SameTemp(Now, Now')
           /\ SameState(Now, Now') /\ Buffers' /\ (Invokes(f, Now, Now', evt_handlers) => Acts)
<1>1. /\ Ran(f) /\ Swaps(Now, Now', first, p)
      /\ Now'.at = Now.at /\ Now'.life = Now.life
  BY SwapRan
<1>2. SameConn(Now, Now') /\ SameTemp(Now, Now') /\ SameState(Now, Now')
  BY <1>1 DEF SameConn, SameTemp, SameState, NoRequest, http_vars, Now
<1>3. Buffers'
  BY <1>1, BuffersKept DEF Ran, http_vars
<1>4. state' \in {"0"} \cup Requests /\ http' \in {"none", "open", "freed"}
  BY DEF NoRequest, http_vars, HttpConnInv
<1> QED
  BY <1>1, <1>2, <1>3, <1>4, ActsIf

(* The handlers that hand an event to HTTP functions or back to uo_tcp.    *)
LEMMA SwappingActs ==
    ASSUME HttpConnInv, NEW c \in Chains,
           \/ PassCbToTcp(c) \/ ServerBeforeSend(c) \/ ClientBeforeSend(c) \/ ClientAfterSend(c)
           \/ ServerBeforeClose(c) \/ ClientBeforeClose(c)
           \/ ServerAfterClose(c) \/ ClientAfterClose(c)
    PROVE  Acts /\ Buffers'
<1>1. CASE PassCbToTcp(c)
  <2>1. Swap(c, "pass", "conn", <<>>) /\ NoRequest /\ UNCHANGED http_vars
    BY <1>1 DEF PassCbToTcp
  <2>2. HttpRuns("pass", Now, Now')
    BY <2>1, QuietSwap DEF HttpRuns
  <2> QED
    BY <2>1, <2>2, QuietSwap DEF Invokes
<1>2. ASSUME NEW f \in {"c_after_send", "s_before_close", "c_before_close"},
             Swap(c, f, "http", <<"app_http", "pass">>), NoRequest, UNCHANGED http_vars
      PROVE  Acts /\ Buffers'
  <2>1. EventRuns(f, Now, Now')
    BY <1>2, QuietSwap DEF EventRuns
  <2> QED
    BY <1>2, <2>1, QuietSwap DEF Invokes
<1>3. CASE ClientAfterSend(c) \/ ServerBeforeClose(c) \/ ClientBeforeClose(c)
  BY <1>2, <1>3 DEF ClientAfterSend, ServerBeforeClose, ClientBeforeClose
<1>4. ASSUME NEW f \in {"s_after_close", "c_after_close"},
             Swap(c, f, "http", <<"app_http", "http_after_close">>), NoRequest, UNCHANGED http_vars
      PROVE  Acts /\ Buffers'
  <2>1. EventRuns(f, Now, Now')
    BY <1>4, QuietSwap DEF EventRuns
  <2> QED
    BY <1>4, <2>1, QuietSwap DEF Invokes
<1>5. CASE ServerAfterClose(c) \/ ClientAfterClose(c)
  BY <1>4, <1>5 DEF ServerAfterClose, ClientAfterClose
<1>6. CASE ServerBeforeSend(c)
  <2>1. /\ Swap(c, "s_before_send", "http", <<"app_http", "s_before_send_response", "pass">>)
        /\ NoRequest /\ UNCHANGED http_vars
    BY <1>6 DEF ServerBeforeSend
  <2>2. EventRuns("s_before_send", Now, Now')
    BY <2>1, QuietSwap DEF EventRuns
  <2> QED
    BY <2>1, <2>2, QuietSwap DEF Invokes
<1>7. CASE ClientBeforeSend(c)
  <2>1. /\ Swap(c, "c_before_send", "http", <<"app_http", "c_before_send_request", "pass">>)
        /\ NoRequest /\ UNCHANGED http_vars
    BY <1>7 DEF ClientBeforeSend
  <2>2. EventRuns("c_before_send", Now, Now')
    BY <2>1, QuietSwap DEF EventRuns
  <2> QED
    BY <2>1, <2>2, QuietSwap DEF Invokes
<1> QED
  BY <1>1, <1>3, <1>5, <1>6, <1>7

(* The http_conn is created or freed, or the connection is to be kept or   *)
(* closed.                                                                 *)
LEMMA ConnectionActs ==
    ASSUME HttpConnInv, NEW c \in Chains,
           \/ ServerAfterOpen(c) \/ ClientAfterOpen(c) \/ ServerAfterSend(c) \/ HttpAfterClose(c)
    PROVE  Acts /\ Buffers'
<1>1. Len(rbuf) \in Nat
  BY DEF HttpConnInv, Buffers
<1>2. ASSUME NEW f \in {"s_after_open", "c_after_open"},
             Swap(c, f, "http", <<"app_http", "pass">>), NoRequest, CreateHttpConn
      PROVE  Acts /\ Buffers'
  <2>1. /\ Ran(f) /\ Swaps(Now, Now', <<"app_http", "pass">>, "http")
        /\ Now'.at = Now.at /\ Now'.life = Now.life
    BY <1>2, SwapRan
  <2>2. Now'.http = "open" /\ Fresh(Now') /\ SameState(Now, Now')
    BY <1>1, <1>2, NewMsgParses DEF CreateHttpConn, NoRequest, Fresh, SameState, Now
  <2>3. EventRuns(f, Now, Now')
    BY <1>2, <2>1, <2>2 DEF EventRuns
  <2>4. state' \in {"0"} \cup Requests /\ http' \in {"none", "open", "freed"}
    BY <1>2 DEF NoRequest, CreateHttpConn, HttpConnInv
  <2>5. Buffers'
    BY <1>1, <1>2, <2>1, NewMsgParses, BuffersKept DEF Ran, CreateHttpConn
  <2> QED
    BY <2>1, <2>3, <2>4, <2>5, ActsIf DEF Invokes
<1>3. CASE ServerAfterOpen(c) \/ ClientAfterOpen(c)
  BY <1>2, <1>3 DEF ServerAfterOpen, ClientAfterOpen
<1>4. CASE ServerAfterSend(c)
  <2> DEFINE a == <<"app_http", "s_after_send_response", "pass">>
  <2>1. PICK req \in {"c", "r"} :
           Swap(c, "s_after_send", "http", a) /\ NextState(c, req) /\ UNCHANGED http_vars
    BY <1>4 DEF ServerAfterSend
  <2>2. /\ Ran("s_after_send") /\ Swaps(Now, Now', a, "http")
        /\ Now'.at = Now.at /\ Now'.life = Now.life
    BY <2>1, SwapRan
  <2>3. Asks(Now, Now', req) /\ state' \in {"0"} \cup Requests
    BY <2>1, StateAsked DEF Requests
  <2>4. SameConn(Now, Now') /\ SameTemp(Now, Now') /\ http' \in {"none", "open", "freed"}
    BY <2>1, <2>2 DEF SameConn, SameTemp, http_vars, Now, HttpConnInv
  <2>5. EventRuns("s_after_send", Now, Now')
    BY <2>2, <2>3, <2>4 DEF EventRuns
  <2>6. Buffers'
    BY <2>1, <2>2, BuffersKept DEF Ran, http_vars
  <2> QED
    BY <2>2, <2>3, <2>4, <2>5, <2>6, ActsIf DEF Invokes
<1>5. CASE HttpAfterClose(c)
  <2>1. Swap(c, "http_after_close", "conn", <<>>) /\ NoRequest /\ http' = "freed"
        /\ UNCHANGED <<msg, rbuf, rsize, wire>>
    BY <1>5 DEF HttpAfterClose
  <2>2. /\ Ran("http_after_close") /\ Swaps(Now, Now', <<>>, "conn")
        /\ Now'.at = Now.at /\ Now'.life = Now.life
    BY <2>1, SwapRan
  <2>3. HttpRuns("http_after_close", Now, Now')
    BY <2>1, <2>2 DEF HttpRuns, Now
  <2>4. state' \in {"0"} \cup Requests
    BY <2>1 DEF NoRequest, HttpConnInv
  <2>5. Buffers'
    BY <2>1, <2>2, BuffersKept DEF Ran
  <2> QED
    BY <2>1, <2>2, <2>3, <2>4, <2>5, ActsIf DEF Invokes
<1> QED
  BY <1>3, <1>4, <1>5

(* The functions that leave the stack alone.                               *)
LEMMA PlainActs ==
    ASSUME HttpConnInv, NEW c \in Chains,
           \/ App(c) \/ BeforeSendResponse(c) \/ BeforeSendRequest(c) \/ AfterSendResponse(c)
           \/ ProcessReqHandlers(c)
    PROVE  Acts /\ Buffers'
<1>1. Len(rbuf) \in Nat /\ Parsing(msg, Len(rbuf)) /\ Now.temp = msg.temp
  BY DEF HttpConnInv, Buffers, Now
<1>2. CASE App(c)
  <2>1. /\ Plain(c, "app_http", <<>>)
        /\ NoRequest \/ NextState(c, "c")
        /\ UNCHANGED <<http, msg, rbuf, rsize, wire>>
    BY <1>2 DEF App
  <2>2. /\ Ran("app_http") /\ Continues(Now, Now', <<>>)
        /\ Now'.at = Now.at /\ Now'.life = Now.life
    BY <2>1, PlainRan
  <2>3. /\ SameState(Now, Now') \/ Asks(Now, Now', "c")
        /\ state' \in {"0"} \cup Requests
    <3>1. CASE NoRequest
      BY <3>1 DEF NoRequest, SameState, Now, HttpConnInv
    <3>2. CASE NextState(c, "c")
      BY <3>2, StateAsked DEF Requests
    <3> QED
      BY <2>1, <3>1, <3>2
  <2>4. SameConn(Now, Now') /\ SameTemp(Now, Now') /\ http' \in {"none", "open", "freed"}
    BY <2>1, <2>2 DEF SameConn, SameTemp, Now, HttpConnInv
  <2>5. HttpRuns("app_http", Now, Now')
    BY <2>2, <2>3, <2>4 DEF HttpRuns
  <2>6. Buffers'
    BY <2>1, <2>2, BuffersKept DEF Ran
  <2> QED
    BY <2>2, <2>3, <2>4, <2>5, <2>6, ActsIf DEF Invokes
<1>3. ASSUME NEW f \in {"s_before_send_response", "c_before_send_request"},
             Plain(c, f, <<>>), NoRequest, UNCHANGED <<http, msg, rbuf, rsize, wire>>
      PROVE  Acts /\ Buffers'
  <2>1. /\ Ran(f) /\ Continues(Now, Now', <<>>)
        /\ Now'.at = Now.at /\ Now'.life = Now.life
    BY <1>3, PlainRan
  <2>2. /\ SameState(Now, Now') /\ SameConn(Now, Now') /\ SameTemp(Now, Now')
        /\ state' \in {"0"} \cup Requests /\ http' \in {"none", "open", "freed"}
    BY <1>3, <2>1 DEF NoRequest, SameState, SameConn, SameTemp, Now, HttpConnInv
  <2>3. HttpRuns(f, Now, Now')
    BY <1>3, <2>1, <2>2 DEF HttpRuns
  <2>4. Buffers'
    BY <1>3, <2>1, BuffersKept DEF Ran
  <2> QED
    BY <2>1, <2>2, <2>3, <2>4, ActsIf DEF Invokes
<1>4. CASE BeforeSendResponse(c) \/ BeforeSendRequest(c)
  BY <1>3, <1>4 DEF BeforeSendResponse, BeforeSendRequest
<1>5. CASE AfterSendResponse(c)
  <2>1. /\ Plain(c, "s_after_send_response", <<>>) /\ NoRequest /\ msg' = NewMsg
        /\ UNCHANGED <<http, rbuf, rsize, wire>>
    BY <1>5 DEF AfterSendResponse, ResetHttpConn
  <2>2. /\ Ran("s_after_send_response") /\ Continues(Now, Now', <<>>)
        /\ Now'.at = Now.at /\ Now'.life = Now.life
    BY <2>1, PlainRan
  <2>3. /\ SameState(Now, Now') /\ SameConn(Now, Now')
        /\ state' \in {"0"} \cup Requests /\ http' \in {"none", "open", "freed"}
    BY <2>1, <2>2 DEF NoRequest, SameState, SameConn, Now, HttpConnInv
  <2>4. Fresh(Now')
    BY <1>1, <2>1, NewMsgParses DEF Fresh, Now
  <2>5. HttpRuns("s_after_send_response", Now, Now')
    BY <2>2, <2>3, <2>4 DEF HttpRuns
  <2>6. Buffers'
    BY <1>1, <2>1, <2>2, BuffersKept, NewMsgParses DEF Ran
  <2> QED
    BY <2>2, <2>3, <2>5, <2>6, ActsIf DEF Invokes
<1>6. CASE ProcessReqHandlers(c)
  <2> DEFINE i == msg.temp[2] + 1
             m == [msg EXCEPT !.temp = <<"handler", i>>]
  <2>1. /\ NoRequest /\ UNCHANGED <<http, rbuf, rsize, wire>>
        /\ \/ Plain(c, "process", <<"app_http", "process">>) /\ msg' = m
           \/ Plain(c, "process", <<>>) /\ msg' = msg
    BY <1>6 DEF ProcessReqHandlers
  <2>2. PICK first \in {<<"app_http", "process">>, <<>>} :
           /\ Plain(c, "process", first)
           /\ first = <<>> => msg' = msg
           /\ first # <<>> => msg' = m
    <3>1. <<"app_http", "process">> # <<>>
      OBVIOUS
    <3> HIDE DEF m
    <3> QED
      BY <2>1, <3>1
  <2>3. /\ Ran("process") /\ Continues(Now, Now', first)
        /\ Now'.at = Now.at /\ Now'.life = Now.life
    BY <2>2, PlainRan
  <2>4. /\ SameState(Now, Now') /\ SameConn(Now, Now')
        /\ state' \in {"0"} \cup Requests /\ http' \in {"none", "open", "freed"}
    BY <2>1, <2>3 DEF NoRequest, SameState, SameConn, Now, HttpConnInv
  <2>5. Parsing(m, Len(rbuf)) /\ m.temp[1] = "handler"
    <3>1. i \in Nat
      BY <1>1 DEF Parsing
    <3>2. IsMsg(m) /\ m.temp = <<"handler", i>> /\ m.start_line = msg.start_line
          /\ m.has_headers = msg.has_headers /\ m.has_body = msg.has_body
      BY <1>1 DEF Parsing, IsMsg, MsgFields
    <3> HIDE DEF m, i
    <3> QED
      BY <1>1, <3>1, <3>2 DEF Parsing
  <2>6. HttpRuns("process", Now, Now')
    <3>1. first = <<>> => SameTemp(Now, Now')
      BY <2>2 DEF SameTemp, Now
    <3>2. first # <<>> => Now'.temp[1] = "handler"
      BY <2>2, <2>5 DEF Now
    <3> QED
      BY <2>2, <2>3, <2>4, <3>1, <3>2 DEF HttpRuns
  <2>7. Buffers'
    <3> HIDE DEF m
    <3>1. msg' = msg \/ Parsing(msg', Len(rbuf))
      BY <2>2, <2>5
    <3> QED
      BY <2>1, <2>3, <3>1, BuffersKept DEF Ran
  <2> QED
    BY <2>3, <2>4, <2>6, <2>7, ActsIf DEF Invokes
<1> QED
  BY <1>2, <1>4, <1>5, <1>6

(* The buffers, when a full one is doubled before the next read            *)
(* (uo_tcp_conn.c:150-155).                                                *)
LEMMA BuffersGrown ==
    ASSUME HttpConnInv, UNCHANGED <<rbuf, wire>>,
           rsize' = rsize \/ rsize' = IF Len(rbuf) = rsize THEN 2 * rsize ELSE rsize,
           Now'.at = "run", Parsing(msg', Len(rbuf))
    PROVE  Buffers'
<1>1. chain'[FirstChain].at # "io"
  BY DEF Now
<1>2. Parsing(msg', Len(rbuf'))
  OBVIOUS
<1>3. rsize \in Nat \ {0} /\ Len(rbuf) <= rsize /\ Len(rbuf) \in Nat
  BY DEF HttpConnInv, Buffers
<1>4. rsize' \in Nat \ {0} /\ Len(rbuf') <= rsize'
  BY <1>3
<1> QED
  BY <1>1, <1>2, <1>4 DEF HttpConnInv, Buffers

(* Received bytes are parsed.                                              *)
LEMMA ReceivedActs ==
    ASSUME HttpConnInv, NEW c \in Chains, NEW f \in {"s_after_recv", "c_after_recv"},
           Received(c, f, Complete(f))
    PROVE  Acts /\ Buffers'
<1> DEFINE started == IF msg.start_line THEN msg ELSE ParseStartLine(msg, rbuf)
           headed  == started.start_line /\ started.has_headers
           again   == IF headed THEN ParseBody(started, rbuf) ELSE started
           heads   == ParseHeaders(again, rbuf)
           parsed  == ParseBody(heads, rbuf)
           whole   == <<"app_http">> \o Complete(f)
           more    == <<"app_http", "pass">>
           grown   == IF Len(rbuf) = rsize THEN 2 * rsize ELSE rsize
<1>1. rbuf \in Seq(PeerTokens) /\ Unfinished(msg, rbuf)
  <2>1. Calls(c, f)
    BY DEF Received
  <2>2. Now.funcs # <<>> /\ Head(Now.funcs) = f
    BY <2>1, CalledFirst
  <2>3. Found(Now)
    BY ModeFits DEF HttpConnInv
  <2>4. Offset(Now)
    BY <2>2, <2>3 DEF Found, Fits
  <2>5. msg.temp[1] = "offset"
    BY <2>4 DEF Offset, Now
  <2> QED
    BY <2>5 DEF HttpConnInv, Buffers, Unfinished
<1>2. Unfinished(started, rbuf)
  BY <1>1, StartLineParsed
<1>3. started.start_line => Unfinished(again, rbuf) /\ again.start_line
  <2> HIDE DEF started
  <2> QED
    BY <1>1, <1>2, BodyParsed
<1>4. started.start_line /\ ~again.has_body => Unfinished(parsed, rbuf)
  <2> HIDE DEF again
  <2>1. ASSUME Unfinished(again, rbuf), again.start_line, ~again.has_body
        PROVE  Unfinished(heads, rbuf) /\ heads.start_line
    BY <1>1, <2>1, HeadersParsed
  <2> HIDE DEF heads
  <2> QED
    BY <1>1, <1>3, <2>1, BodyParsed
<1>5. /\ UNCHANGED <<http, rbuf, wire>>
      /\ \/ /\ started.start_line /\ again.has_body
            /\ Swap(c, f, "http", Complete(f)) /\ NoRequest
            /\ msg' = Parsed(again) /\ rsize' = rsize
         \/ /\ started.start_line /\ ~again.has_body /\ parsed.has_body
            /\ Swap(c, f, "http", whole) /\ NoRequest
            /\ msg' = Parsed(parsed) /\ rsize' = grown
         \/ /\ started.start_line /\ ~again.has_body
            /\ Swap(c, f, "http", more) /\ NextState(c, "r")
            /\ msg' = parsed /\ rsize' = grown
         \/ /\ started.start_line
            /\ Plain(c, f, <<>>) /\ NextState(c, "r")
            /\ msg' = again /\ rsize' = grown
         \/ /\ Plain(c, f, <<>>) /\ NextState(c, "r") /\ msg' = started /\ rsize' = rsize
  BY Zenon DEF Received
<1> HIDE DEF started, headed, again, heads, parsed
<1>6. ASSUME NEW first, first = Complete(f) \/ first = whole, Swap(c, f, "http", first), NoRequest,
             NEW m, Unfinished(m, rbuf), m.has_body, msg' = Parsed(m),
             rsize' = rsize \/ rsize' = grown
      PROVE  Acts /\ Buffers'
  <2>1. /\ Ran(f) /\ Swaps(Now, Now', first, "http")
        /\ Now'.at = Now.at /\ Now'.life = Now.life
    BY <1>6, SwapRan
  <2>2. /\ Parsing(msg', Len(rbuf))
        /\ IF Role = "server" THEN msg'.temp = <<"handler", 0>> ELSE msg'.temp = <<"offset", 0>>
    BY <1>1, <1>6, MessageParsed
  <2>3. /\ SameState(Now, Now') /\ SameConn(Now, Now')
        /\ state' \in {"0"} \cup Requests /\ http' \in {"none", "open", "freed"}
    BY <1>5, <1>6, <2>1 DEF NoRequest, SameState, SameConn, Now, HttpConnInv
  <2>4. IF "s_after_open" \in ToSet(evt_handlers["after_open"])
        THEN Now'.temp[1] = "handler" ELSE Fresh(Now')
    <3>1. Now'.temp = msg'.temp
      BY DEF Now
    <3>2. CASE "s_after_open" \in ToSet(evt_handlers["after_open"])
      BY <2>2, <3>1, <3>2 DEF Role
    <3>3. CASE "s_after_open" \notin ToSet(evt_handlers["after_open"])
      BY <2>2, <3>1, <3>3 DEF Role, Fresh
    <3> QED
      BY <3>2, <3>3
  <2>5. RecvRuns(f, Now, Now', evt_handlers)
    BY <1>6, <2>1, <2>3, <2>4 DEF RecvRuns
  <2>6. Buffers'
    BY <1>5, <1>6, <2>1, <2>2, BuffersGrown DEF Ran
  <2> QED
    BY <2>1, <2>3, <2>5, <2>6, ActsIf DEF Invokes
<1>7. ASSUME Swap(c, f, "http", more) \/ Plain(c, f, <<>>), NextState(c, "r"),
             NEW m, Unfinished(m, rbuf), msg' = m, rsize' = rsize \/ rsize' = grown
      PROVE  Acts /\ Buffers'
  <2>1. /\ Ran(f)
        /\ Continues(Now, Now', <<>>) \/ Swaps(Now, Now', more, "http")
        /\ Now'.at = Now.at /\ Now'.life = Now.life
    BY <1>7, SwapRan, PlainRan
  <2>2. Parsing(msg', Len(rbuf)) /\ Offset(Now')
    BY <1>7 DEF Unfinished, Offset, Now
  <2>3. Asks(Now, Now', "r") /\ state' \in {"0"} \cup Requests
    BY <1>7, StateAsked DEF Requests
  <2>4. SameConn(Now, Now') /\ http' \in {"none", "open", "freed"}
    BY <1>5, <2>1 DEF SameConn, Now, HttpConnInv
  <2>5. RecvRuns(f, Now, Now', evt_handlers)
    BY <2>1, <2>2, <2>3, <2>4 DEF RecvRuns
  <2>6. Buffers'
    BY <1>5, <1>7, <2>1, <2>2, BuffersGrown DEF Ran
  <2> QED
    BY <2>1, <2>3, <2>4, <2>5, <2>6, ActsIf DEF Invokes
<1> HIDE DEF whole, more, grown
<1> QED
  BY <1>2, <1>3, <1>4, <1>5, <1>6, <1>7

(* The handlers of every event are functions, and uo_tcp_conn.c appends    *)
(* its own to them.                                                        *)
LEMMA Following ==
    ASSUME NEW eh, ServerHttp(eh) \/ ClientHttp(eh),
           NEW e \in {"before_recv", "after_recv", "before_send", "before_close", "after_close"},
           NEW f \in AllFuncs
    PROVE  Append(eh[e], f) = eh[e] \o <<f>>
<1>1. PICK open \in TcpFuncs, recv \in TcpFuncs, send \in TcpFuncs, sent \in TcpFuncs,
           close \in TcpFuncs, closed \in TcpFuncs :
        Installed(eh, open, recv, send, sent, close, closed)
  BY DEF ServerHttp, ClientHttp, TcpFuncs
<1>2. {"app", send, close, recv, closed} \subseteq AllFuncs /\ HttpFlow \subseteq AllFuncs
      /\ RecvFlow \subseteq AllFuncs
  BY Kinds DEF AllFuncs, Functions
<1>3. CASE e = "before_recv"
  <2>1. eh[e] \in Seq({"app"}) /\ {"app"} \subseteq AllFuncs
    BY <1>1, <1>2, <1>3 DEF Installed
  <2>2. eh[e] \in Seq(AllFuncs)
    BY <2>1, SeqMonotonic
  <2> QED
    BY <2>2, AppendIsConcat
<1>4. CASE e = "before_send"
  <2>1. eh[e] \in Seq({send, "app"}) /\ {send, "app"} \subseteq AllFuncs
    BY <1>1, <1>2, <1>4 DEF Installed
  <2>2. eh[e] \in Seq(AllFuncs)
    BY <2>1, SeqMonotonic
  <2> QED
    BY <2>2, AppendIsConcat
<1>5. CASE e = "before_close"
  <2>1. eh[e] \in Seq(HttpFlow \cup {close}) /\ HttpFlow \cup {close} \subseteq AllFuncs
    BY <1>1, <1>2, <1>5 DEF Installed
  <2>2. eh[e] \in Seq(AllFuncs)
    BY <2>1, SeqMonotonic
  <2> QED
    BY <2>2, AppendIsConcat
<1>6. CASE e = "after_recv"
  <2>1. PICK q \in Seq(RecvFlow) : eh[e] = <<recv>> \o q
    BY <1>1, <1>6 DEF Installed
  <2>2. q \in Seq(AllFuncs) /\ <<recv>> \in Seq(AllFuncs)
    BY <1>2, SeqMonotonic, ShortSeqs
  <2>3. eh[e] \in Seq(AllFuncs)
    BY <2>1, <2>2, ConcatProperties
  <2> QED
    BY <2>3, AppendIsConcat
<1>7. CASE e = "after_close"
  <2>1. PICK q \in Seq({"app"}) : eh[e] = q \o <<closed>>
    BY <1>1, <1>7 DEF Installed
  <2>2. q \in Seq(AllFuncs) /\ <<closed>> \in Seq(AllFuncs)
    BY <1>2, SeqMonotonic, ShortSeqs
  <2>3. eh[e] \in Seq(AllFuncs)
    BY <2>1, <2>2, ConcatProperties
  <2> QED
    BY <2>3, AppendIsConcat
<1> QED
  BY <1>3, <1>4, <1>5, <1>6, <1>7

(* A function of the TCP connection that touches no buffer.                *)
LEMMA QuietRan ==
    ASSUME HttpConnInv, NEW f, Ran(f), Now'.at = Now.at,
           UNCHANGED <<http, msg, rbuf, rsize, wire>>
    PROVE  /\ SameTemp(Now, Now') /\ Now'.http = Now.http /\ Buffers'
           /\ http' \in {"none", "open", "freed"}
<1>1. SameTemp(Now, Now') /\ Now'.http = Now.http
  BY DEF SameTemp, Now
<1>2. Now'.at = "run" /\ UNCHANGED <<rbuf, wire, rsize, msg>>
  BY DEF Ran
<1>3. Buffers'
  BY <1>2, BuffersKept
<1>4. http' \in {"none", "open", "freed"}
  BY DEF HttpConnInv
<1> QED
  BY <1>1, <1>3, <1>4

(* A function that also pushes to the stack or pops from it.               *)
LEMMA StackRan ==
    ASSUME HttpConnInv, NEW c \in Chains, NEW f, Calls(c, f), NEW more, NEW st,
           chain' = [Then(c, more) EXCEPT ![c].stack = st], evt_handlers' = evt_handlers
    PROVE  /\ Ran(f) /\ Now'.at = Now.at
           /\ Now'.funcs = Tail(Now.funcs) \o more /\ Now'.stack = st
<1> DEFINE r  == chain[c]
           fs == Rest(c) \o more
<1>1. r \in Driver /\ Rest(c) = Tail(Now.funcs) /\ r.at = "run" /\ Now.at = "run"
  BY CalledFirst
<1>2. chain' = [chain EXCEPT ![c] = [r EXCEPT !.funcs = fs, !.stack = st]]
  <2>1. chain \in [Chains -> Driver]
    BY DEF HttpConnInv, Drivers
  <2>2. Then(c, more) = [chain EXCEPT ![c].funcs = fs]
    BY DEF Then
  <2> HIDE DEF fs
  <2> QED
    BY <2>1, <2>2 DEF Driver
<1> HIDE DEF r, fs
<1>3. Edit([r EXCEPT !.funcs = fs, !.stack = st], r.at, fs, st)
  BY <1>1 DEF Driver, Edit
<1> DEFINE q == [r EXCEPT !.funcs = fs, !.stack = st]
<1>4. chain' = [chain EXCEPT ![c] = q] /\ Edit(q, r.at, fs, st)
  BY <1>2, <1>3
<1> HIDE DEF q
<1>5. c = FirstChain /\ Now.funcs # <<>> /\ Head(Now.funcs) = f
  BY CalledFirst
<1>6. /\ Now'.at = r.at /\ Now'.funcs = fs /\ Now'.stack = st
      /\ Found(Now') => Drivers'
  BY <1>4, <1>5, Moved
<1> QED
  BY <1>1, <1>5, <1>6 DEF Ran, r, fs

(* uo_tcp_conn_advance finds nothing to do.                                *)
LEMMA IdleRan ==
    ASSUME HttpConnInv, NEW c \in Chains, NEW f, Calls(c, f),
           chain' = [Continue(c) EXCEPT ![c].idling = TRUE], evt_handlers' = evt_handlers
    PROVE  /\ Ran(f) /\ Now'.at = Now.at
           /\ Now'.funcs = Tail(Now.funcs) /\ Now'.stack = Now.stack
<1> DEFINE r  == chain[c]
           fs == Tail(Now.funcs)
<1>1. /\ r \in Driver /\ Rest(c) = fs /\ r.at = "run" /\ Now.at = "run" /\ r.stack = Now.stack
      /\ fs \in Seq(AllFuncs)
  BY CalledFirst
<1>2. chain' = [chain EXCEPT ![c] = [r EXCEPT !.funcs = fs, !.idling = TRUE]]
  <2>1. chain \in [Chains -> Driver]
    BY DEF HttpConnInv, Drivers
  <2>2. Rest(c) \o <<>> = fs
    BY <1>1, ConcatEmptySeq
  <2>3. Continue(c) = [chain EXCEPT ![c].funcs = fs]
    BY <2>2 DEF Continue, Then
  <2> HIDE DEF fs
  <2> QED
    BY <2>1, <2>3 DEF Driver
<1> HIDE DEF r, fs
<1>3. Edit([r EXCEPT !.funcs = fs, !.idling = TRUE], r.at, fs, r.stack)
  BY <1>1 DEF Driver, Edit
<1> DEFINE q == [r EXCEPT !.funcs = fs, !.idling = TRUE]
<1>4. chain' = [chain EXCEPT ![c] = q] /\ Edit(q, r.at, fs, r.stack)
  BY <1>2, <1>3
<1> HIDE DEF q
<1>5. c = FirstChain /\ Now.funcs # <<>> /\ Head(Now.funcs) = f
  BY CalledFirst
<1>6. /\ Now'.at = r.at /\ Now'.funcs = fs /\ Now'.stack = r.stack
      /\ Found(Now') => Drivers'
  BY <1>4, <1>5, Moved
<1> QED
  BY <1>1, <1>5, <1>6 DEF Ran, r, fs

(* The functions of uo_tcp_conn.c that touch no buffer.                    *)
LEMMA AdvanceActs ==
    ASSUME HttpAssumption, HttpConnInv, NEW c \in Chains, Advance(c), UNCHANGED http_vars
    PROVE  Acts /\ Buffers'
<1>1. /\ Calls(c, "advance") /\ state' = "0" /\ state \in {"0", "r", "s", "c"}
      /\ evt_handlers' = evt_handlers /\ life' = life
      /\ ServerHttp(evt_handlers) \/ ClientHttp(evt_handlers)
  BY HandlersInstalled DEF Advance, HttpConnInv, Requests, HttpAssumption
<1>2. Now.state = state /\ Now'.state = state' /\ Now'.life = Now.life
  BY <1>1 DEF Now
<1>3. {"before_recv", "send", "close"} \subseteq AllFuncs
  BY DEF AllFuncs, Functions
<1> DEFINE Goes(e, f) == chain' = Then(c, evt_handlers[e] \o <<f>>)
<1>4. \/ state = "r" /\ Goes("before_recv", "before_recv")
      \/ state = "s" /\ Goes("before_send", "send")
      \/ state = "c" /\ Goes("before_close", "close")
      \/ state = "0" /\ chain' = [Continue(c) EXCEPT ![c].idling = TRUE]
  <2>1. CASE state = "r"
    <3>1. chain' = Then(c, Append(evt_handlers["before_recv"], "before_recv"))
      BY <2>1 DEF Advance
    <3> QED
      BY <1>1, <1>3, <2>1, <3>1, Following
  <2>2. CASE state = "s"
    <3>1. chain' = Then(c, Append(evt_handlers["before_send"], "send"))
      BY <2>2 DEF Advance
    <3> QED
      BY <1>1, <1>3, <2>2, <3>1, Following
  <2>3. CASE state = "c"
    <3>1. chain' = Then(c, Append(evt_handlers["before_close"], "close"))
      BY <2>3 DEF Advance
    <3> QED
      BY <1>1, <1>3, <2>3, <3>1, Following
  <2>4. CASE state = "0"
    BY <2>4 DEF Advance
  <2> QED
    BY <1>1, <2>1, <2>2, <2>3, <2>4
<1>5. Ran("advance") /\ Now'.at = Now.at
      /\ \/ Now.state = "r" /\ Follows(Now, Now', evt_handlers["before_recv"], "before_recv")
         \/ Now.state = "s" /\ Follows(Now, Now', evt_handlers["before_send"], "send")
         \/ Now.state = "c" /\ Follows(Now, Now', evt_handlers["before_close"], "close")
         \/ Now.state = "0" /\ Now'.funcs = Tail(Now.funcs) /\ Now'.stack = Now.stack
  <2>1. ASSUME NEW e, NEW f, Goes(e, f)
        PROVE  Ran("advance") /\ Now'.at = Now.at /\ Follows(Now, Now', evt_handlers[e], f)
    BY <1>1, <2>1, ThenRan DEF Follows
  <2>2. ASSUME chain' = [Continue(c) EXCEPT ![c].idling = TRUE]
        PROVE  /\ Ran("advance") /\ Now'.at = Now.at
               /\ Now'.funcs = Tail(Now.funcs) /\ Now'.stack = Now.stack
    BY <1>1, <2>2, IdleRan
  <2> HIDE DEF Goes
  <2> QED
    BY <1>2, <1>4, <2>1, <2>2
<1>6. /\ SameTemp(Now, Now') /\ Now'.http = Now.http /\ Buffers'
             /\ http' \in {"none", "open", "freed"}
  BY <1>5, QuietRan DEF http_vars
<1>7. ConnRuns("advance", Now, Now', evt_handlers)
  BY <1>1, <1>2, <1>5, <1>6 DEF ConnRuns, SameConn
<1> QED
  BY <1>1, <1>5, <1>6, <1>7, ActsIf DEF Invokes

(* uo_tcp_conn_recv, with what the read pushed to the stack.               *)
LEMMA RecvActs ==
    ASSUME HttpAssumption, HttpConnInv, NEW c \in Chains, Recv(c), UNCHANGED http_vars
    PROVE  Acts /\ Buffers'
<1>1. /\ Calls(c, "recv") /\ evt_handlers' = evt_handlers /\ life' = life
      /\ ServerHttp(evt_handlers) \/ ClientHttp(evt_handlers)
  BY HandlersInstalled DEF Recv, HttpConnInv, HttpAssumption
<1>2. chain[c].stack = Now.stack /\ Now'.life = Now.life /\ "advance" \in AllFuncs
  BY <1>1, CalledFirst DEF Now, AllFuncs, Functions
<1> DEFINE h == evt_handlers["after_recv"]
<1>3. /\ Ran("recv") /\ Now'.at = Now.at
      /\ \/ /\ Top(Now.stack) # "zero" /\ SameState(Now, Now') /\ state' \in {"0"} \cup Requests
            /\ Now'.funcs = Tail(Now.funcs) \o (h \o <<"advance">>) /\ Now'.stack = Pop(Now.stack)
         \/ /\ Top(Now.stack) = "zero" /\ Asks(Now, Now', "c") /\ state' \in {"0"} \cup Requests
            /\ Now'.funcs = Tail(Now.funcs) \o <<"advance">> /\ Now'.stack = Pop(Pop(Now.stack))
  <2>1. CASE Top(Now.stack) # "zero"
    <3>1. /\ chain' = [Then(c, Append(h, "advance")) EXCEPT ![c].stack = Pop(Now.stack)]
          /\ state' = state
      BY <1>2, <2>1 DEF Recv
    <3>2. Append(h, "advance") = h \o <<"advance">>
      BY <1>1, <1>2, Following
    <3>3. SameState(Now, Now') /\ state' \in {"0"} \cup Requests
      BY <3>1 DEF SameState, Now, HttpConnInv
    <3> HIDE DEF h
    <3> QED
      BY <1>1, <2>1, <3>1, <3>2, <3>3, StackRan
  <2>2. CASE Top(Now.stack) = "zero"
    <3>1. /\ chain' = [Then(c, <<"advance">>) EXCEPT ![c].stack = Pop(Pop(Now.stack))]
          /\ NextState(c, "c")
      BY <1>2, <2>2 DEF Recv
    <3>2. Asks(Now, Now', "c") /\ state' \in {"0"} \cup Requests
      BY <3>1, StateAsked DEF Requests
    <3> HIDE DEF h
    <3> QED
      BY <1>1, <2>2, <3>1, <3>2, StackRan
  <2> QED
    BY <2>1, <2>2
<1>4. /\ SameTemp(Now, Now') /\ Now'.http = Now.http /\ Buffers'
             /\ http' \in {"none", "open", "freed"}
  BY <1>3, QuietRan DEF http_vars
<1>5. ConnRuns("recv", Now, Now', evt_handlers)
  BY <1>2, <1>3, <1>4 DEF ConnRuns, SameConn
<1> QED
  BY <1>3, <1>4, <1>5, ActsIf DEF Invokes

(* The others that touch no buffer.                                        *)
LEMMA CloseActs ==
    ASSUME HttpAssumption, HttpConnInv, NEW c \in Chains, Close(c) \/ AfterClose(c),
           UNCHANGED http_vars
    PROVE  Acts /\ Buffers'
<1>1. evt_handlers' = evt_handlers /\ state' = state
      /\ (ServerHttp(evt_handlers) \/ ClientHttp(evt_handlers)) /\ "after_close" \in AllFuncs
  BY HandlersInstalled DEF Close, AfterClose, HttpConnInv, HttpAssumption, AllFuncs, Functions
<1>2. SameState(Now, Now') /\ state' \in {"0"} \cup Requests
  BY <1>1 DEF SameState, Now, HttpConnInv
<1>3. CASE Close(c)
  <2>1. Append(evt_handlers["after_close"], "after_close")
        = evt_handlers["after_close"] \o <<"after_close">>
    BY <1>1, Following
  <2>2. Calls(c, "close") /\ Now'.life = "closed"
        /\ chain' = Then(c, evt_handlers["after_close"] \o <<"after_close">>)
    BY <1>3, <2>1 DEF Close, Now
  <2>3. /\ Ran("close") /\ Now'.at = Now.at
        /\ Follows(Now, Now', evt_handlers["after_close"], "after_close")
    BY <1>1, <2>2, ThenRan DEF Follows
  <2>4. /\ SameTemp(Now, Now') /\ Now'.http = Now.http /\ Buffers'
               /\ http' \in {"none", "open", "freed"}
    BY <2>3, QuietRan DEF http_vars
  <2>5. ConnRuns("close", Now, Now', evt_handlers)
    BY <1>2, <2>2, <2>3, <2>4 DEF ConnRuns
  <2> QED
    BY <1>2, <2>3, <2>4, <2>5, ActsIf DEF Invokes
<1>4. CASE AfterClose(c)
  <2>1. Calls(c, "after_close") /\ Now'.life = "freed" /\ chain' = Continue(c)
    BY <1>4 DEF AfterClose, Now
  <2>2. Ran("after_close") /\ Now'.at = Now.at /\ Continues(Now, Now', <<>>)
    BY <1>1, <2>1, ContinueRan
  <2>3. /\ Now'.http = Now.http /\ Buffers' /\ http' \in {"none", "open", "freed"}
    BY <2>2, QuietRan DEF http_vars
  <2>4. ConnRuns("after_close", Now, Now', evt_handlers)
    BY <2>1, <2>2, <2>3 DEF ConnRuns
  <2> QED
    BY <1>2, <2>2, <2>3, <2>4, ActsIf DEF Invokes
<1> QED
  BY <1>3, <1>4

(* The handlers of the flow options and of the application.                *)
LEMMA HandlerActs ==
    ASSUME HttpConnInv, NEW c \in Chains, UNCHANGED http_vars,
           \/ NextFunc(c, "next_r", "r") \/ NextFunc(c, "next_s", "s")
           \/ NextFunc(c, "next_c", "c") \/ Handler(c)
    PROVE  Acts /\ Buffers'
<1>1. ASSUME NEW f, Calls(c, f), chain' = Continue(c), evt_handlers' = evt_handlers, life' = life
      PROVE  /\ Ran(f) /\ Continues(Now, Now', <<>>) /\ SameConn(Now, Now') /\ SameTemp(Now, Now')
             /\ Buffers' /\ http' \in {"none", "open", "freed"}
  <2>1. Ran(f) /\ Now'.at = Now.at /\ Continues(Now, Now', <<>>)
    BY <1>1, ContinueRan
  <2>2. /\ SameTemp(Now, Now') /\ Now'.http = Now.http /\ Buffers'
               /\ http' \in {"none", "open", "freed"}
    BY <2>1, QuietRan DEF http_vars
  <2>3. Now'.life = Now.life
    BY <1>1 DEF Now
  <2> QED
    BY <2>1, <2>2, <2>3 DEF SameConn
<1>2. ASSUME NEW f, NEW req \in Requests, NextFunc(c, f, req),
             <<f, req>> \in {<<"next_r", "r">>, <<"next_s", "s">>, <<"next_c", "c">>}
      PROVE  Acts /\ Buffers'
  <2>1. /\ Calls(c, f) /\ chain' = Continue(c) /\ evt_handlers' = evt_handlers /\ life' = life
        /\ NextState(c, req)
    BY <1>2 DEF NextFunc
  <2>2. Asks(Now, Now', req) /\ state' \in {"0"} \cup Requests
    BY <2>1, StateAsked
  <2>3. /\ Ran(f) /\ Continues(Now, Now', <<>>) /\ SameConn(Now, Now') /\ SameTemp(Now, Now')
        /\ Buffers' /\ http' \in {"none", "open", "freed"}
    BY <1>1, <2>1
  <2>4. EventRuns(f, Now, Now')
    BY <1>2, <2>2, <2>3 DEF EventRuns
  <2> QED
    BY <2>2, <2>3, <2>4, ActsIf DEF Invokes
<1>3. CASE Handler(c)
  <2>1. PICK f \in {"app", "lp_send"} : Calls(c, f)
    BY <1>3 DEF Handler
  <2>2. chain' = Continue(c) /\ evt_handlers' = evt_handlers /\ life' = life /\ state' = state
    BY <1>3 DEF Handler
  <2>3. /\ Ran(f) /\ Continues(Now, Now', <<>>) /\ SameConn(Now, Now') /\ SameTemp(Now, Now')
        /\ Buffers' /\ http' \in {"none", "open", "freed"}
    BY <1>1, <2>1, <2>2
  <2>4. SameState(Now, Now') /\ state' \in {"0"} \cup Requests
    BY <2>2 DEF SameState, Now, HttpConnInv
  <2>5. EventRuns(f, Now, Now')
    BY <2>3, <2>4 DEF EventRuns
  <2> QED
    BY <2>3, <2>4, <2>5, ActsIf DEF Invokes
<1> QED
  BY <1>2, <1>3 DEF Requests

(* uo_tcp_conn_send and uo_tcp_conn_after_send, with the buffers.          *)
LEMMA SendActs ==
    ASSUME HttpConnInv, NEW c \in Chains, HttpSend(c)
    PROVE  Acts /\ Buffers'
<1>1. /\ Calls(c, "send") /\ evt_handlers' = evt_handlers /\ life' = life
      /\ UNCHANGED <<http, msg, rbuf, rsize, wire>>
  BY DEF HttpSend, Send
<1>2. chain[c].stack = Now.stack /\ Now'.life = Now.life /\ Tail(Now.funcs) \in Seq(AllFuncs)
  BY <1>1, CalledFirst DEF Now
<1> DEFINE h == evt_handlers["after_send"]
           more == h \o <<"after_send", "advance">>
<1>3. /\ Ran("send") /\ Now'.at = Now.at
      /\ \/ /\ SameState(Now, Now') /\ state' \in {"0"} \cup Requests
            /\ Now'.funcs = Tail(Now.funcs) \o more /\ Now'.stack = Now.stack
         \/ /\ Asks(Now, Now', "c") /\ state' \in {"0"} \cup Requests
            /\ Now'.funcs = Tail(Now.funcs) /\ Now'.stack = Pop(Now.stack)
  <2>1. CASE chain' = Then(c, more) /\ state' = state
    <3>1. SameState(Now, Now') /\ state' \in {"0"} \cup Requests
      BY <2>1 DEF SameState, Now, HttpConnInv
    <3> HIDE DEF more
    <3> QED
      BY <1>1, <2>1, <3>1, ThenRan
  <2>2. CASE chain' = [Continue(c) EXCEPT ![c].stack = Pop(Now.stack)] /\ NextState(c, "c")
    <3>1. Asks(Now, Now', "c") /\ state' \in {"0"} \cup Requests
      BY <2>2, StateAsked DEF Requests
    <3>2. chain' = [Then(c, <<>>) EXCEPT ![c].stack = Pop(Now.stack)]
      BY <2>2 DEF Continue
    <3>3. Tail(Now.funcs) \o <<>> = Tail(Now.funcs)
      BY <1>2, ConcatEmptySeq
    <3> HIDE DEF more
    <3> QED
      BY <1>1, <3>1, <3>2, <3>3, StackRan
  <2> QED
    BY <1>2, <2>1, <2>2 DEF HttpSend, Send
<1>4. /\ SameTemp(Now, Now') /\ Now'.http = Now.http /\ Buffers'
             /\ http' \in {"none", "open", "freed"}
  BY <1>1, <1>3, QuietRan
<1>5. ConnRuns("send", Now, Now', evt_handlers)
  BY <1>2, <1>3, <1>4 DEF ConnRuns, SameConn
<1> QED
  BY <1>3, <1>4, <1>5, ActsIf DEF Invokes

(* uo_http_server's handler after a response was sent resets the messages, *)
(* so that the next request is parsed from offset 0.                       *)
LEMMA AfterSendActs ==
    ASSUME HttpConnInv, NEW c \in Chains, HttpTcpAfterSend(c)
    PROVE  Acts /\ Buffers'
<1>1. /\ Calls(c, "after_send") /\ chain' = Continue(c) /\ evt_handlers' = evt_handlers
      /\ life' = life /\ state' = state /\ rbuf' = <<>>
      /\ UNCHANGED <<http, msg, rsize, wire>>
  BY DEF HttpTcpAfterSend, AfterSend
<1>2. Ran("after_send") /\ Now'.at = Now.at /\ Continues(Now, Now', <<>>)
  BY <1>1, ContinueRan
<1>3. SameConn(Now, Now') /\ SameTemp(Now, Now') /\ SameState(Now, Now')
  BY <1>1, <1>2 DEF SameConn, SameTemp, SameState, Now
<1>4. state' \in {"0"} \cup Requests /\ http' \in {"none", "open", "freed"}
  BY <1>1 DEF HttpConnInv
<1>5. ConnRuns("after_send", Now, Now', evt_handlers)
  BY <1>2, <1>3 DEF ConnRuns
<1>6. Buffers'
  <2>1. Found(Now)
    BY ModeFits DEF HttpConnInv
  <2>2. Fresh(Now)
    BY <1>2, <2>1 DEF Ran, Found, Fits
  <2>3. msg.temp = <<"offset", 0>>
    BY <2>2 DEF Fresh, Now
  <2>4. Parsing(msg', 0)
    BY <1>1, <2>3 DEF HttpConnInv, Buffers, Parsing
  <2>5. chain'[FirstChain].at # "io"
    BY <1>2 DEF Ran, Now
  <2>6. rbuf' \in Seq(PeerTokens) /\ Len(rbuf') = 0
    BY <1>1
  <2>7. wire' \in Seq(PeerTokens) /\ rsize' \in Nat \ {0}
    BY <1>1 DEF HttpConnInv, Buffers
  <2> QED
    BY <2>4, <2>5, <2>6, <2>7 DEF Buffers
<1> QED
  BY <1>2, <1>4, <1>5, <1>6, ActsIf DEF Invokes

(* uo_io_execute_io: what is read fits into the buffer.                    *)
LEMMA ExecuteActs ==
    ASSUME HttpConnInv, NEW c \in Chains, HttpExecuteIo(c)
    PROVE  Acts /\ Buffers'
<1>1. /\ Calls(c, "execute_io") /\ evt_handlers' = evt_handlers /\ life' = life /\ state' = state
      /\ UNCHANGED <<http, msg, rsize>>
  BY DEF HttpExecuteIo, ExecuteIo
<1>2. chain[c].stack = Now.stack /\ Now'.life = Now.life /\ Tail(Now.funcs) \in Seq(AllFuncs)
  BY <1>1, CalledFirst DEF Now
<1>3. PICK result \in {<<"len">>, <<"err", "zero">>} :
         chain' = [Continue(c) EXCEPT ![c].stack = Pop(Now.stack) \o result]
  BY <1>2 DEF HttpExecuteIo, ExecuteIo
<1>4. /\ Ran("execute_io") /\ Now'.at = Now.at
      /\ Now'.funcs = Tail(Now.funcs) /\ Now'.stack = Pop(Now.stack) \o result
  <2> DEFINE st == Pop(Now.stack) \o result
  <2>1. chain' = [Then(c, <<>>) EXCEPT ![c].stack = st]
    BY <1>3 DEF Continue
  <2>2. Tail(Now.funcs) \o <<>> = Tail(Now.funcs)
    BY <1>2, ConcatEmptySeq
  <2> HIDE DEF st
  <2>3. Calls(c, "execute_io") /\ evt_handlers' = evt_handlers
    BY <1>1
  <2>4. /\ Ran("execute_io") /\ Now'.at = Now.at
        /\ Now'.funcs = Tail(Now.funcs) \o <<>> /\ Now'.stack = st
    BY <2>1, <2>3, StackRan
  <2> QED
    BY <2>2, <2>4 DEF st
<1>5. SameConn(Now, Now') /\ SameTemp(Now, Now') /\ SameState(Now, Now')
  BY <1>1, <1>4 DEF SameConn, SameTemp, SameState, Now
<1>6. state' \in {"0"} \cup Requests /\ http' \in {"none", "open", "freed"}
  BY <1>1 DEF HttpConnInv
<1>7. ConnRuns("execute_io", Now, Now', evt_handlers)
  BY <1>4, <1>5 DEF ConnRuns
<1>8. Buffers'
  <2>1. /\ rbuf \in Seq(PeerTokens) /\ wire \in Seq(PeerTokens) /\ rsize \in Nat \ {0}
        /\ Len(rbuf) <= rsize /\ Parsing(msg, Len(rbuf)) /\ Len(rbuf) \in Nat /\ Len(wire) \in Nat
    BY DEF HttpConnInv, Buffers
  <2>2. /\ rbuf' \in Seq(PeerTokens) /\ wire' \in Seq(PeerTokens)
        /\ Len(rbuf) <= Len(rbuf') /\ Len(rbuf') <= rsize
    <3>1. CASE rbuf' = rbuf /\ wire' = wire
      BY <2>1, <3>1
    <3>2. ASSUME NEW n \in 1 .. Len(wire), n <= rsize - Len(rbuf),
                 rbuf' = rbuf \o SubSeq(wire, 1, n), wire' = SubSeq(wire, n + 1, Len(wire))
          PROVE  /\ rbuf' \in Seq(PeerTokens) /\ wire' \in Seq(PeerTokens)
                 /\ Len(rbuf) <= Len(rbuf') /\ Len(rbuf') <= rsize
      <4>1. \A i \in 1 .. Len(wire) : wire[i] \in PeerTokens
        BY <2>1, ElementOfSeq
      <4>2. SubSeq(wire, 1, n) \in Seq(PeerTokens) /\ Len(SubSeq(wire, 1, n)) = n
        BY <2>1, <4>1, SubSeqProperties
      <4>3. SubSeq(wire, n + 1, Len(wire)) \in Seq(PeerTokens)
        BY <2>1, <4>1, SubSeqProperties
      <4>4. rbuf' \in Seq(PeerTokens) /\ Len(rbuf') = Len(rbuf) + n
        BY <2>1, <3>2, <4>2, ConcatProperties
      <4> QED
        BY <2>1, <3>2, <4>3, <4>4
    <3> QED
      BY <3>1, <3>2 DEF HttpExecuteIo
  <2>3. chain'[FirstChain].at # "io"
    BY <1>4 DEF Ran, Now
  <2>4. Len(rbuf') \in Nat
    BY <2>2
  <2>5. Parsing(msg, Len(rbuf'))
    BY <2>1, <2>2, <2>4 DEF Parsing
  <2> QED
    BY <1>1, <2>1, <2>2, <2>3, <2>5 DEF Buffers
<1> QED
  BY <1>4, <1>6, <1>7, <1>8, ActsIf DEF Invokes

(* uo_tcp_conn_before_recv: there is room for what will be read.           *)
LEMMA BeforeRecvActs ==
    ASSUME HttpAssumption, HttpConnInv, NEW c \in Chains, HttpBeforeRecv(c)
    PROVE  Acts /\ Buffers'
<1> DEFINE r  == chain[c]
           fs == <<"recv">> \o Rest(c)
           st == Append(r.stack, "epevt")
<1>1. /\ Calls(c, "before_recv") /\ evt_handlers' = evt_handlers /\ life' = life /\ state' = state
      /\ UNCHANGED <<http, msg, rbuf, wire>>
      /\ rsize' = IF Len(rbuf) = rsize THEN 2 * rsize ELSE rsize
      /\ chain' = [chain EXCEPT ![c] = [r EXCEPT !.funcs = fs, !.at = "io", !.stack = st]]
  BY DEF HttpBeforeRecv, BeforeRecv, HttpAssumption
<1>2. /\ c = FirstChain /\ r \in Driver /\ Now.funcs # <<>> /\ Head(Now.funcs) = "before_recv"
      /\ Now.at = "run" /\ Rest(c) = Tail(Now.funcs) /\ r.stack = Now.stack
  BY <1>1, CalledFirst
<1> HIDE DEF r, fs, st
<1>3. Edit([r EXCEPT !.funcs = fs, !.at = "io", !.stack = st], "io", fs, st)
  BY <1>2 DEF Driver, Edit
<1> DEFINE q == [r EXCEPT !.funcs = fs, !.at = "io", !.stack = st]
<1>4. chain' = [chain EXCEPT ![c] = q] /\ Edit(q, "io", fs, st)
  BY <1>1, <1>3
<1> HIDE DEF q
<1>5. Now'.at = "io" /\ Now'.funcs = fs /\ Now'.stack = st /\ (Found(Now') => Drivers')
  BY <1>2, <1>4, Moved
<1>6. /\ SameTemp(Now, Now') /\ SameState(Now, Now') /\ Now'.http = Now.http /\ Now'.life = Now.life
  BY <1>1 DEF SameTemp, SameState, Now
<1>7. state' \in {"0"} \cup Requests /\ http' \in {"none", "open", "freed"}
  BY <1>1 DEF HttpConnInv
<1>8. ConnRuns("before_recv", Now, Now', evt_handlers)
  BY <1>2, <1>5, <1>6 DEF ConnRuns, fs, st
<1>9. Buffers'
  <2>1. rsize \in Nat \ {0} /\ Len(rbuf) <= rsize /\ Len(rbuf) \in Nat
    BY DEF HttpConnInv, Buffers
  <2>2. rsize' \in Nat \ {0} /\ Len(rbuf') < rsize'
    BY <1>1, <2>1
  <2>3. Len(rbuf') <= rsize'
    BY <1>1, <2>1, <2>2
  <2>4. Parsing(msg', Len(rbuf'))
    BY <1>1 DEF HttpConnInv, Buffers
  <2> QED
    BY <1>1, <2>2, <2>3, <2>4 DEF HttpConnInv, Buffers
<1> QED
  BY <1>1, <1>2, <1>5, <1>7, <1>8, <1>9 DEF Acts, Invokes

-----------------------------------------------------------------------------
(* The steps that call no function.                                        *)

(* Where the callback is does not matter, as long as it is not in epoll.   *)
LEMMA ModeAnywhere ==
    ASSUME NEW s, NEW s2, NEW eh, Mode(s, eh), s.at # "io", s2.at # "io",
           s2.funcs = s.funcs, s2.stack = s.stack, s2.state = s.state, s2.temp = s.temp,
           s2.http = s.http, s2.life = s.life
    PROVE  Mode(s2, eh)
<1>1. /\ \A ps, qs, t : Running(s, ps, qs, t) => Running(s2, ps, qs, t)
      /\ \A f, qs, t : Begins(s, f, qs, t) => Begins(s2, f, qs, t)
  BY DEF Running, Begins
<1>2. /\ Fresh(s) => Fresh(s2)
      /\ Offset(s) => Offset(s2)
      /\ Handles(s, eh) => Handles(s2, eh)
  BY DEF Fresh, Offset, Handles
<1>3. CASE Opening(s)
  BY <1>1, <1>2, <1>3 DEF Opening, Mode
<1>4. CASE Working(s, eh)
  <2>1. /\ Asking(s) => Asking(s2)
        /\ Reading(s) => Reading(s2)
        /\ Executing(s) => Executing(s2)
        /\ HasRead(s) => HasRead(s2)
    BY <1>1, <1>2 DEF Asking, Reading, Executing, HasRead
  <2>2. /\ HasReceived(s, eh) => HasReceived(s2, eh)
        /\ Replying(s, eh) => Replying(s2, eh)
        /\ Sending(s, eh) => Sending(s2, eh)
    BY <1>1, <1>2 DEF HasReceived, Replying, Sending
  <2>3. /\ HasSent(s) => HasSent(s2)
        /\ Resetting(s, eh) => Resetting(s2, eh)
        /\ Closes(s) => Closes(s2)
    BY <1>1, <1>2 DEF HasSent, Resetting, Closes
  <2> QED
    BY <1>4, <2>1, <2>2, <2>3 DEF Working, Mode
<1>5. CASE Parked(s)
  BY <1>5 DEF Parked
<1>6. CASE Closed(s)
  BY <1>1, <1>6 DEF Closed, Mode
<1>7. CASE Over(s)
  BY <1>7 DEF Over, Mode
<1> QED
  BY <1>3, <1>4, <1>5, <1>6, <1>7 DEF Mode

(* A worker takes the callback up.                                         *)
LEMMA DispatchKeeps ==
    ASSUME HttpConnInv, NEW c \in Chains, Dispatch(c), UNCHANGED http_vars
    PROVE  HttpConnInv'
<1> DEFINE r == chain[c]
<1>1. c = FirstChain
  <2>1. NoChain.at # "queued"
    BY DEF NoChain
  <2> QED
    BY <2>1 DEF HttpConnInv, Drivers, Dispatch
<1>2. r \in Driver /\ r.funcs = Now.funcs /\ r.stack = Now.stack /\ Now.at = "queued"
  BY <1>1 DEF HttpConnInv, Drivers, Now, Dispatch
<1>3. chain' = [chain EXCEPT ![c] = [r EXCEPT !.at = "run"]]
  BY DEF Dispatch
<1> HIDE DEF r
<1>4. Edit([r EXCEPT !.at = "run"], "run", r.funcs, r.stack)
  BY <1>2 DEF Driver, Edit
<1>5. Now'.at = "run" /\ Now'.funcs = Now.funcs /\ Now'.stack = Now.stack
      /\ (Found(Now') => Drivers')
  BY <1>1, <1>2, <1>3, <1>4, Moved
<1>6. /\ Now'.state = Now.state /\ Now'.temp = Now.temp /\ Now'.http = Now.http
      /\ Now'.life = Now.life
  BY DEF Now, Dispatch, http_vars
<1>7. Mode(Now', evt_handlers)
  BY <1>2, <1>5, <1>6, ModeAnywhere DEF HttpConnInv
<1>8. Drivers'
  BY <1>5, <1>7, ModeFits
<1>9. Buffers'
  BY <1>5, BuffersKept DEF http_vars
<1> QED
  BY <1>7, <1>8, <1>9 DEF HttpConnInv, Dispatch, http_vars

(* The callback ends.                                                      *)
LEMMA EndChainKeeps ==
    ASSUME HttpConnInv, NEW c \in Chains, EndChain(c), UNCHANGED http_vars
    PROVE  HttpConnInv'
<1>1. c = FirstChain
  <2>1. NoChain.at # "run"
    BY DEF NoChain
  <2> QED
    BY <2>1 DEF HttpConnInv, Drivers, EndChain
<1>2. Edit(NoChain, "none", <<>>, <<>>)
  BY ShortSeqs DEF NoChain, Driver, Edit
<1>3. chain' = [chain EXCEPT ![FirstChain] = NoChain]
  BY <1>1 DEF EndChain
<1>4. Now'.at = "none" /\ Now'.funcs = <<>> /\ Now'.stack = <<>> /\ (Found(Now') => Drivers')
  BY <1>2, <1>3, Moved
<1>5. Now'.http = Now.http /\ Now'.life = Now.life
  BY DEF Now, EndChain, http_vars
<1>6. Found(Now)
  BY ModeFits DEF HttpConnInv
<1>7. Mode(Now', evt_handlers)
  BY <1>4, <1>5, <1>6, ShortSeqs DEF Found, Over, Mode
<1>8. Drivers'
  BY <1>4, <1>7, ModeFits
<1>9. Buffers'
  <2>1. chain'[FirstChain].at # "io"
    BY <1>4 DEF Now
  <2> QED
    BY <2>1 DEF http_vars, HttpConnInv, Buffers
<1> QED
  BY <1>7, <1>8, <1>9 DEF HttpConnInv, EndChain, http_vars

(* epoll reports that there is something to read.                          *)
LEMMA IoReadyKeeps ==
    ASSUME HttpConnInv, NEW c \in Chains, HttpIoReady(c)
    PROVE  HttpConnInv'
<1> DEFINE r  == chain[c]
           fs == <<"execute_io">> \o r.funcs
<1>1. c = FirstChain /\ chain[c].at = "io"
  <2>1. NoChain.at # "io"
    BY DEF NoChain
  <2> QED
    BY <2>1 DEF HttpConnInv, Drivers, HttpIoReady, IoReady
<1>2. r \in Driver /\ r.funcs = Now.funcs /\ r.stack = Now.stack /\ Now.at = "io"
  BY <1>1 DEF HttpConnInv, Drivers, Now
<1>3. Parked(Now)
  BY <1>2 DEF HttpConnInv, Mode, Opening, Working, Closed, Over
<1>4. chain' = [chain EXCEPT ![c] = [r EXCEPT !.at = "queued", !.funcs = fs]]
  <2>1. chain \in [Chains -> Driver]
    BY DEF HttpConnInv, Drivers
  <2>2. chain' = [chain EXCEPT ![c].at = "queued", ![c].funcs = fs]
    BY DEF HttpIoReady, IoReady
  <2> HIDE DEF fs
  <2> QED
    BY <2>1, <2>2 DEF Driver
<1> HIDE DEF r, fs
<1>5. Edit([r EXCEPT !.at = "queued", !.funcs = fs], "queued", fs, r.stack)
  BY <1>2 DEF Driver, Edit
<1>6. Now'.at = "queued" /\ Now'.funcs = fs /\ Now'.stack = Now.stack /\ (Found(Now') => Drivers')
  BY <1>1, <1>2, <1>4, <1>5, Moved
<1>7. /\ Now'.state = Now.state /\ Now'.temp = Now.temp /\ Now'.http = Now.http
      /\ Now'.life = Now.life
  BY DEF Now, HttpIoReady, IoReady, http_vars
<1>8. fs = <<"execute_io", "recv">>
  <2>1. r.funcs = <<"recv">>
    BY <1>2, <1>3 DEF Parked
  <2> QED
    BY <2>1, Tuples DEF fs
<1>9. Mode(Now', evt_handlers)
  BY <1>3, <1>6, <1>7, <1>8 DEF Parked, Offset, Executing, Working, Mode
<1>10. Drivers'
  BY <1>6, <1>9, ModeFits
<1>11. Buffers'
  <2>1. chain'[FirstChain].at # "io"
    BY <1>6 DEF Now
  <2> QED
    BY <2>1 DEF HttpIoReady, http_vars, HttpConnInv, Buffers
<1> QED
  BY <1>9, <1>10, <1>11 DEF HttpConnInv, HttpIoReady, IoReady, http_vars

(* Every step of the callback keeps the invariant.                         *)
LEMMA StepsKeep ==
    ASSUME HttpAssumption, HttpConnInv, NEW c \in Chains, HttpStep(c)
    PROVE  HttpConnInv'
<1>1. CASE TcpStep(c)
  <2>1. UNCHANGED http_vars
    BY <1>1 DEF TcpStep
  <2>2. CASE \/ Advance(c) \/ Recv(c) \/ Close(c) \/ AfterClose(c)
             \/ NextFunc(c, "next_r", "r") \/ NextFunc(c, "next_s", "s")
             \/ NextFunc(c, "next_c", "c") \/ Handler(c)
    <3>1. Acts /\ Buffers'
      BY <2>1, <2>2, AdvanceActs, RecvActs, CloseActs, HandlerActs
    <3> QED
      BY <3>1, ActsKeep
  <2>3. CASE Dispatch(c) \/ EndChain(c)
    BY <2>1, <2>3, DispatchKeeps, EndChainKeeps
  <2> QED
    BY <1>1, <2>2, <2>3 DEF TcpStep
<1>2. CASE HttpBeforeRecv(c) \/ HttpExecuteIo(c) \/ HttpSend(c) \/ HttpTcpAfterSend(c)
  <2>1. Acts /\ Buffers'
    BY <1>2, BeforeRecvActs, ExecuteActs, SendActs, AfterSendActs
  <2> QED
    BY <2>1, ActsKeep
<1>3. CASE ServerAfterRecv(c) \/ ClientAfterRecv(c)
  <2>1. PICK f \in {"s_after_recv", "c_after_recv"} : Received(c, f, Complete(f))
    BY <1>3 DEF ServerAfterRecv, ClientAfterRecv, Complete
  <2>2. Acts /\ Buffers'
    BY <2>1, ReceivedActs
  <2> QED
    BY <2>2, ActsKeep
<1>4. CASE \/ PassCbToTcp(c) \/ ServerBeforeSend(c) \/ ClientBeforeSend(c) \/ ClientAfterSend(c)
           \/ ServerBeforeClose(c) \/ ClientBeforeClose(c) \/ ServerAfterClose(c)
           \/ ClientAfterClose(c)
  <2>1. Acts /\ Buffers'
    BY <1>4, SwappingActs
  <2> QED
    BY <2>1, ActsKeep
<1>5. CASE ServerAfterOpen(c) \/ ClientAfterOpen(c) \/ ServerAfterSend(c) \/ HttpAfterClose(c)
  <2>1. Acts /\ Buffers'
    BY <1>5, ConnectionActs
  <2> QED
    BY <2>1, ActsKeep
<1>6. CASE \/ App(c) \/ BeforeSendResponse(c) \/ BeforeSendRequest(c) \/ AfterSendResponse(c)
           \/ ProcessReqHandlers(c)
  <2>1. Acts /\ Buffers'
    BY <1>6, PlainActs
  <2> QED
    BY <2>1, ActsKeep
<1> QED
  BY <1>1, <1>2, <1>3, <1>4, <1>5, <1>6 DEF HttpStep

(* The other end sends or gives up.                                        *)
LEMMA PeerKeeps ==
    ASSUME HttpConnInv, PeerSends \/ PeerGivesUp
    PROVE  HttpConnInv'
<1>1. /\ UNCHANGED <<chain, state, life, evt_handlers, http, msg, rbuf, rsize>>
  BY DEF PeerSends, PeerGivesUp, PeerCloses, vars
<1>2. Now' = Now
  BY <1>1 DEF Now
<1>3. wire' \in Seq(PeerTokens)
  <2>1. CASE PeerSends
    <3>1. /\ request' \in PeerMessages[Role] /\ wire' = wire \o WriteToBuf(request')
          /\ Role \in {"server", "client"}
      BY <2>1 DEF PeerSends, Role
    <3>2. request' \in PeerMessages["server"] \cup PeerMessages["client"]
      BY <3>1
    <3>3. WriteToBuf(request') \in Seq(ToSet(WriteToBuf(request')))
      BY <3>2, PeerMessagesAssumption
    <3>4. ToSet(WriteToBuf(request')) \subseteq PeerTokens
      BY <3>2 DEF PeerTokens
    <3>5. WriteToBuf(request') \in Seq(PeerTokens)
      BY <3>3, <3>4, SeqMonotonic
    <3> QED
      BY <3>1, <3>5, ConcatProperties DEF HttpConnInv, Buffers
  <2>2. CASE PeerGivesUp
    BY <2>2 DEF PeerGivesUp
  <2> QED
    BY <2>1, <2>2
<1>4. Buffers'
  BY <1>1, <1>3 DEF HttpConnInv, Buffers
<1>5. Drivers'
  BY <1>1 DEF HttpConnInv, Drivers
<1>6. Mode(Now', evt_handlers')
  BY <1>1, <1>2 DEF HttpConnInv
<1> QED
  BY <1>1, <1>4, <1>5, <1>6 DEF HttpConnInv

-----------------------------------------------------------------------------
(* The invariant holds at the start, in every step, and says that each     *)
(* function finds what it works on.                                        *)
LEMMA HttpInvInit ==
    ASSUME HttpAssumption, HttpInit
    PROVE  HttpConnInv
<1>1. /\ evt_handlers \in Handlers /\ state = "0" /\ life = "open" /\ http = "none" /\ msg = NewMsg
      /\ rbuf = <<>> /\ rsize = BUF_SIZE /\ wire = <<>> /\ FirstChain \in Chains
  BY FirstChainAssumption DEF HttpInit, Init
<1> DEFINE h == evt_handlers["after_open"]
           t == <<"advance">>
           fs == Append(h, "advance")
           q0 == [NoChain EXCEPT !.at = "queued", !.stack = <<"conn">>, !.funcs = fs]
<1>2. chain = [c \in Chains |-> IF c = FirstChain THEN q0 ELSE NoChain]
  BY DEF HttpInit, Init
<1>3. PICK f \in {"s_after_open", "c_after_open"}, q \in Seq(HttpFlow) : h = <<f>> \o q
  BY <1>1, HandlersInstalled DEF HttpAssumption, ServerHttp, ClientHttp, Installed
<1>4. /\ <<f>> \in Seq(AllFuncs) /\ q \in Seq(AllFuncs) /\ t \in Seq(AllFuncs)
      /\ "advance" \in AllFuncs
  <2>1. f \in AllFuncs /\ "advance" \in AllFuncs /\ HttpFlow \subseteq AllFuncs
    BY Kinds DEF AllFuncs, TcpFuncs, Functions
  <2> QED
    BY <2>1, SeqMonotonic, ShortSeqs
<1>5. fs = <<f>> \o (q \o t) /\ fs \in Seq(AllFuncs)
  <2>1. h \in Seq(AllFuncs)
    BY <1>3, <1>4, ConcatProperties
  <2>2. fs = h \o t /\ fs \in Seq(AllFuncs)
    BY <1>4, <2>1, AppendIsConcat, AppendProperties
  <2>3. (<<f>> \o q) \o t = <<f>> \o (q \o t)
    BY <1>4, Regrouped
  <2> QED
    BY <1>3, <2>2, <2>3
<1> HIDE DEF h, fs
<1>6. q0 \in Driver /\ q0.at = "queued" /\ q0.funcs = fs /\ q0.stack = <<"conn">>
  <2>1. <<"conn">> \in Seq(Pointers \cup {"http"})
    BY ShortSeqs DEF Pointers
  <2> QED
    BY <1>5, <2>1 DEF NoChain, Driver
<1>7. NoChain \in Driver
  BY ShortSeqs DEF NoChain, Driver
<1> HIDE DEF q0
<1>8. Drivers /\ chain[FirstChain] = q0
  BY <1>1, <1>2, <1>6, <1>7 DEF Drivers
<1>9. Buffers
  <2>1. Parsing(msg, Len(rbuf)) /\ Len(rbuf) = 0
    BY <1>1, NewMsgParses
  <2> QED
    BY <1>1, <1>6, <1>8, <2>1, BufSizeAssumption, ShortSeqs DEF Buffers
<1>10. Opening(Now)
  <2>1. NewMsg.temp = <<"offset", 0>>
    BY NewMsgParses
  <2>2. Begins(Now, f, HttpFlow, t)
    BY <1>5, <1>6, <1>8 DEF Begins, Now
  <2> QED
    BY <1>1, <1>6, <1>8, <2>1, <2>2 DEF Opening, Fresh, Now
<1> QED
  BY <1>1, <1>8, <1>9, <1>10 DEF HttpConnInv, Mode

(* Every step keeps the invariant.                                         *)
LEMMA HttpInvNext ==
    ASSUME HttpAssumption, HttpConnInv, [HttpNext]_all_vars
    PROVE  HttpConnInv'
<1>1. ASSUME UNCHANGED all_vars PROVE HttpConnInv'
  <2>1. UNCHANGED <<chain, state, life, evt_handlers, http, msg, rbuf, rsize, wire>>
    BY <1>1 DEF all_vars, vars, http_vars
  <2>2. Now' = Now
    BY <2>1 DEF Now
  <2>3. Buffers' /\ Drivers'
    BY <2>1 DEF HttpConnInv, Buffers, Drivers
  <2> QED
    BY <2>1, <2>2, <2>3 DEF HttpConnInv
<1> QED
  BY <1>1, StepsKeep, IoReadyKeeps, PeerKeeps DEF HttpNext

(* The invariant implies what is to be shown of every state.               *)
LEMMA HttpInvSound ==
    ASSUME HttpConnInv
    PROVE  HttpConnSound
<1>1. Found(Now)
  BY ModeFits DEF HttpConnInv
<1>2. ASSUME NEW c \in Chains, chain[c].funcs # <<>> \/ chain[c].at = "io"
      PROVE  /\ c = FirstChain /\ Now.at = chain[c].at /\ Now.funcs = chain[c].funcs
             /\ Now.stack = chain[c].stack
  <2>1. c = FirstChain
    BY <1>2 DEF HttpConnInv, Drivers, NoChain
  <2> QED
    BY <2>1 DEF Now
<1>3. HttpTypeOK
  BY <1>2 DEF HttpConnInv, Buffers, Parsing, HttpTypeOK
<1>4. TopFits
  BY <1>1, <1>2 DEF Found, Fits, TopFits
<1>5. HttpConnLives
  <2>1. http = Now.http /\ life = Now.life
    BY DEF Now
  <2> QED
    BY <1>1, <1>2, <2>1 DEF Found, Fits, HttpConnLives
<1>6. TempIsOffset
  <2>1. msg.temp = Now.temp
    BY DEF Now
  <2> QED
    BY <1>1, <1>2, <2>1 DEF Found, Fits, Offset, TempIsOffset
<1> QED
  BY <1>3, <1>4, <1>5, <1>6 DEF HttpConnSound

(* Whatever the other end sends, in pieces of any size, and whatever the   *)
(* handlers ask for in whichever order, each function of an HTTP event     *)
(* finds the connection it expects at index 0 of the stack, alive, a parse *)
(* function finds an offset within the buffer, and no read is begun with a *)
(* full buffer (uo_http_server.c:19-33,181-198, uo_http_msg.h:72-76,       *)
(* uo_tcp_conn.c:150-155).                                                 *)
THEOREM HttpConnIsSound ==
    ASSUME HttpAssumption
    PROVE  HttpSpec => []HttpConnSound
<1>1. HttpInit => HttpConnInv
  BY HttpInvInit
<1>2. HttpConnInv /\ [HttpNext]_all_vars => HttpConnInv'
  BY HttpInvNext
<1>3. HttpConnInv => HttpConnSound
  BY HttpInvSound
<1> QED
  BY <1>1, <1>2, <1>3, PTL DEF HttpSpec
=============================================================================
