-------------------------- MODULE UoTcpServerProofs --------------------------
(***************************************************************************)
(* Proofs about UoTcpServer, for any number of connections, any capacity   *)
(* of closing_conns and any reuse of descriptor numbers.                   *)
(***************************************************************************)
EXTENDS UoTcpServer, FiniteSetTheorems, TLAPS

(* A connection that was accepted has a descriptor, and it is not open     *)
(* before the accept thread has looked at is_closing.                      *)
HasFd ==
    /\ \A c \in Conns : stage[c] \notin {"away", "backlog"} => fd[c] \in Fds
    /\ accepted # None => fd[accepted] \in Fds
    /\ acc = "check" /\ accepted # None => stage[accepted] = "accepted"

(* A ticket is drawn by a connection whose socket was closed.              *)
Over == {"drawn", "written", "posted", "freed"}
TicketsAreOver ==
    \A i \in 1 .. Len(closing_conns) :
        closing_conns[i] \in Conns => stage[closing_conns[i]] \in Over

TypeInv == TypeOK /\ HasFd /\ TicketsAreOver

-----------------------------------------------------------------------------
(* A thread that got a token of dequeue_sem finds a ticket.                *)
LEMMA TokenHasTicket ==
    ASSUME TypeOK, NEW item, Dequeue(item)
    PROVE  /\ closing_conns \in Seq(Conns \cup {MinusOne}) /\ closing_conns # <<>>
           /\ closing_conns' = Tail(closing_conns)
<1>1. IsFiniteSet(Conns \cup {MinusOne})
  BY ConnsAssumption, FS_AddElement
<1>2. IsFiniteSet(Enqueueing)
  BY <1>1, FS_Subset DEF Enqueueing
<1>3. Cardinality(Enqueueing) \in Nat
  BY <1>2, FS_CardinalityType
<1>4. Len(closing_conns) > Cardinality(Enqueueing) /\ closing_conns' = Tail(closing_conns)
  BY DEF Dequeue
<1>5. closing_conns \in Seq(Conns \cup {MinusOne})
  BY DEF TypeOK
<1> QED
  BY <1>3, <1>4, <1>5

(* What a dequeue leaves was there, one place further.                     *)
LEMMA DequeueShifts ==
    ASSUME TypeOK, NEW item, Dequeue(item)
    PROVE  /\ Len(closing_conns') = Len(closing_conns) - 1
           /\ \A i \in 1 .. Len(closing_conns') :
                 i + 1 \in 1 .. Len(closing_conns) /\ closing_conns'[i] = closing_conns[i + 1]
           /\ \A i \in 1 .. Len(closing_conns) : i # 1 =>
                 i - 1 \in 1 .. Len(closing_conns') /\ closing_conns'[i - 1] = closing_conns[i]
           /\ 1 \in 1 .. Len(closing_conns) /\ Head(closing_conns) = closing_conns[1]
  BY TokenHasTicket

(* What a ticket leaves was there, and the new one is the last.            *)
LEMMA DrawAppends ==
    ASSUME TypeOK, NEW p, Draw(p)
    PROVE  /\ Len(closing_conns') = Len(closing_conns) + 1 /\ Len(closing_conns) \in Nat
           /\ \A i \in 1 .. Len(closing_conns) : closing_conns'[i] = closing_conns[i]
           /\ closing_conns'[Len(closing_conns) + 1] = p
           /\ \A i \in 1 .. Len(closing_conns') :
                 i \in 1 .. Len(closing_conns) \/ i = Len(closing_conns) + 1
<1>1. closing_conns \in Seq(Conns \cup {MinusOne}) /\ closing_conns' = Append(closing_conns, p)
  BY DEF TypeOK, Draw
<1> QED
  BY <1>1

(* What a dequeue does to the types.                                       *)
LEMMA DequeueType ==
    ASSUME TypeInv, NEW item, Dequeue(item), RemoveConn(item), UNCHANGED stage
    PROVE  /\ closing_conns' \in Seq(Conns \cup {MinusOne}) /\ Len(closing_conns') <= Capacity
           /\ misread' \in BOOLEAN
           /\ conns' \in [Fds -> Conns \cup {None}]
           /\ TicketsAreOver'
<1>t. TypeOK /\ TicketsAreOver
  BY DEF TypeInv
<1>1. closing_conns' \in Seq(Conns \cup {MinusOne})
  BY <1>t, TokenHasTicket
<1>2. Len(closing_conns') <= Capacity
  <2>1. Len(closing_conns) <= Capacity /\ Len(closing_conns) \in Nat
    BY <1>t DEF TypeOK
  <2> QED
    BY <1>t, <2>1, DequeueShifts, CapacityAssumption
<1>3. misread' \in BOOLEAN
  BY <1>t DEF Dequeue, TypeOK
<1>4. conns' \in [Fds -> Conns \cup {None}]
  BY <1>t DEF RemoveConn, TypeOK
<1>5. TicketsAreOver'
  BY <1>t, DequeueShifts, Zenon DEF TicketsAreOver
<1> QED
  BY <1>1, <1>2, <1>3, <1>4, <1>5

(* Types, the descriptor of an accepted connection and the stage of one    *)
(* with a ticket are kept by every step.                                   *)
LEMMA TypeStep == TypeInv /\ [Next]_vars => TypeInv'
<1> SUFFICES ASSUME TypeInv, [Next]_vars PROVE TypeInv'
  OBVIOUS
<1>t. TypeOK /\ HasFd /\ TicketsAreOver
  BY DEF TypeInv
(* a connection goes from one stage to the next, closing_conns is left     *)
<1>0. ASSUME UNCHANGED closing_conns, NEW c \in Conns, NEW s,
             stage' = [stage EXCEPT ![c] = s], stage[c] \in Over => s \in Over
      PROVE  TicketsAreOver'
  BY <1>t, <1>0 DEF TicketsAreOver, TypeOK
<1>00. ASSUME UNCHANGED <<closing_conns, stage>> PROVE TicketsAreOver'
  BY <1>t, <1>00 DEF TicketsAreOver
(* a ticket is drawn                                                       *)
<1>01. ASSUME NEW p \in Conns \cup {MinusOne}, Draw(p)
       PROVE  closing_conns' \in Seq(Conns \cup {MinusOne}) /\ Len(closing_conns') <= Capacity
  <2>1. closing_conns \in Seq(Conns \cup {MinusOne}) /\ Len(closing_conns) \in Nat
    BY <1>t DEF TypeOK
  <2> QED
    BY <1>01, <2>1, CapacityAssumption DEF Draw
<1> USE CapacityAssumption, NamesAssumption
<1>1. ASSUME NEW c \in Conns, ClientConnects(c) PROVE TypeInv'
  <2>1. TypeOK' /\ HasFd'
    BY <1>t, <1>1 DEF ClientConnects, TypeOK, HasFd, Stages
  <2>2. TicketsAreOver'
    BY <1>0, <1>1 DEF ClientConnects, Over
  <2> QED
    BY <2>1, <2>2 DEF TypeInv
<1>2. ASSUME NEW c \in Conns, NEW f \in Fds, AcceptClient(c, f) PROVE TypeInv'
  <2>1. TypeOK' /\ HasFd'
    BY <1>t, <1>2 DEF AcceptClient, TypeOK, HasFd, Stages
  <2>2. TicketsAreOver'
    BY <1>0, <1>2 DEF AcceptClient, Over
  <2> QED
    BY <2>1, <2>2 DEF TypeInv
<1>3. CASE AcceptNothing
  <2>1. TypeOK' /\ HasFd'
    BY <1>t, <1>3 DEF AcceptNothing, TypeOK, HasFd
  <2>2. TicketsAreOver'
    BY <1>00, <1>3 DEF AcceptNothing
  <2> QED
    BY <2>1, <2>2 DEF TypeInv
<1>4. CASE Check
  <2>1. stage' \in [Conns -> Stages] /\ acc' \in {"accept", "set", "flush"}
    BY <1>t, <1>4 DEF Check, TypeOK, Stages
  <2>2. HasFd'
    <3>1. UNCHANGED <<fd, accepted>> /\ acc' # "check"
      BY <1>4 DEF Check
    <3>2. \A d \in Conns : stage'[d] # stage[d] => accepted # None /\ d = accepted
      BY <1>t, <1>4 DEF Check, TypeOK
    <3> QED
      BY <1>t, <3>1, <3>2 DEF HasFd
  <2>3. TypeOK'
    BY <1>t, <1>4, <2>1 DEF Check, TypeOK
  <2>4. TicketsAreOver'
    <3>1. UNCHANGED closing_conns /\ acc = "check"
      BY <1>4 DEF Check
    <3>2. CASE acc' = "set"
      <4>1. accepted \in Conns /\ accepted # None /\ stage' = [stage EXCEPT ![accepted] = "open"]
        BY <1>t, <1>4, <3>2 DEF Check, TypeOK
      <4> QED
        BY <1>0, <1>t, <3>1, <4>1 DEF HasFd, Over
    <3>3. CASE acc' # "set"
      BY <1>00, <1>4, <3>1, <3>3 DEF Check
    <3> QED
      BY <3>2, <3>3
  <2> QED
    BY <2>2, <2>3, <2>4 DEF TypeInv
<1>5. CASE SetConn
  <2>1. TypeOK' /\ HasFd'
    BY <1>t, <1>5 DEF SetConn, TypeOK, HasFd
  <2>2. TicketsAreOver'
    BY <1>00, <1>5 DEF SetConn
  <2> QED
    BY <2>1, <2>2 DEF TypeInv
<1>6. ASSUME NEW item \in Leftovers, Dequeue(item), RemoveConn(item),
             UNCHANGED <<stage, fd, owner, is_closing, accepted, dst, wake>>,
             acc' \in {"accept", "drain", "flush"}
      PROVE  TypeInv'
  <2>1. /\ closing_conns' \in Seq(Conns \cup {MinusOne}) /\ Len(closing_conns') <= Capacity
        /\ misread' \in BOOLEAN
        /\ conns' \in [Fds -> Conns \cup {None}]
        /\ TicketsAreOver'
    BY <1>6, DequeueType
  <2>2. TypeOK'
    BY <1>t, <1>6, <2>1 DEF TypeOK
  <2>3. HasFd'
    BY <1>t, <1>6 DEF HasFd
  <2> QED
    BY <2>1, <2>2, <2>3 DEF TypeInv
<1>7. ASSUME UNCHANGED <<stage, fd, owner, conns, closing_conns, misread, is_closing, accepted>>,
             acc' \in {"accept", "quit", "done", acc},
             dst' \in {"drawn", "written", "post", "connect", "join", "free", "done", dst},
             wake' \in {TRUE, wake}
      PROVE  TypeInv'
  <2>1. TypeOK'
    BY <1>t, <1>7 DEF TypeOK
  <2>2. HasFd' /\ TicketsAreOver'
    BY <1>t, <1>00, <1>7 DEF HasFd
  <2> QED
    BY <2>1, <2>2 DEF TypeInv
<1>8. CASE Drain
  <2>1. CASE acc' = "accept" /\ UNCHANGED <<conns, closing_conns, misread>>
    <3>1. is_closing' = is_closing
      BY <1>8 DEF Drain
    <3> QED
      <4>1. UNCHANGED <<stage, fd, owner, is_closing, accepted, dst, wake>>
        BY <1>8 DEF Drain
      <4>2. TypeOK'
        BY <1>t, <2>1, <4>1 DEF TypeOK
      <4>3. HasFd' /\ TicketsAreOver'
        BY <1>t, <1>00, <2>1, <4>1 DEF HasFd
      <4> QED
        BY <4>2, <4>3 DEF TypeInv
  <2>2. ASSUME NEW item \in Leftovers, Dequeue(item), RemoveConn(item),
               acc' = IF item = None THEN "accept" ELSE acc
        PROVE  TypeInv'
    BY <1>6, <1>8, <2>2 DEF Drain
  <2> QED
    BY <1>8, <2>1, <2>2 DEF Drain
<1>9. CASE Flush
  <2>1. CASE acc' = "quit" /\ UNCHANGED <<conns, closing_conns, misread>>
    <3>1. UNCHANGED <<stage, fd, owner, is_closing, accepted, dst, wake>>
      BY <1>9 DEF Flush
    <3>2. TypeOK'
      BY <1>t, <2>1, <3>1 DEF TypeOK
    <3>3. HasFd' /\ TicketsAreOver'
      BY <1>t, <1>00, <2>1, <3>1 DEF HasFd
    <3> QED
      BY <3>2, <3>3 DEF TypeInv
  <2>2. ASSUME NEW item \in Leftovers, Dequeue(item), RemoveConn(item), acc' = acc
        PROVE  TypeInv'
    BY <1>6, <1>9, <2>2 DEF Flush
  <2> QED
    BY <1>9, <2>1, <2>2 DEF Flush
<1>10. ASSUME NEW c \in Conns, NEW s \in Stages, stage' = [stage EXCEPT ![c] = s],
              stage[c] \in Over => s \in Over, stage[c] \notin {"away", "backlog", "accepted"},
              owner' \in {owner, [owner EXCEPT ![fd[c]] = None]},
              UNCHANGED <<fd, conns, closing_conns, misread, is_closing, acc, accepted, dst, wake>>
       PROVE  TypeInv'
  <2>1. stage' \in [Conns -> Stages] /\ owner' \in [Fds -> Conns \cup {None}]
    BY <1>t, <1>10 DEF TypeOK
  <2>2. TypeOK'
    BY <1>t, <1>10, <2>1 DEF TypeOK
  <2>3. HasFd'
    BY <1>t, <1>10 DEF HasFd, TypeOK
  <2>4. TicketsAreOver'
    BY <1>0, <1>10
  <2> QED
    BY <2>2, <2>3, <2>4 DEF TypeInv
<1>11. ASSUME NEW c \in Conns, CloseSocket(c) PROVE TypeInv'
  BY <1>10, <1>11 DEF CloseSocket, Closes, Stages, Over
<1>12. ASSUME NEW c \in Conns, PostWrite(c) \/ PostToken(c) PROVE TypeInv'
  BY <1>10, <1>12 DEF PostWrite, PostToken, Stages, Over
<1>13. ASSUME NEW c \in Conns, FreeConn(c) PROVE TypeInv'
  BY <1>10, <1>13 DEF FreeConn, Closes, Stages, Over
<1>14. ASSUME NEW c \in Conns, PostClosed(c) PROVE TypeInv'
  <2>1. /\ stage' = [stage EXCEPT ![c] = "drawn"] /\ stage[c] = "closed" /\ Draw(c)
        /\ UNCHANGED <<fd, owner, conns, misread, is_closing, acc, accepted, dst, wake>>
    BY <1>14 DEF PostClosed
  <2>2. stage' \in [Conns -> Stages]
    BY <1>t, <2>1 DEF TypeOK, Stages
  <2>3. TypeOK'
    BY <1>t, <1>01, <2>1, <2>2 DEF TypeOK
  <2>4. HasFd'
    BY <1>t, <2>1 DEF HasFd, TypeOK
  <2>5. stage'[c] \in Over /\ \A d \in Conns : d # c => stage'[d] = stage[d]
    BY <1>t, <2>1 DEF TypeOK, Over
  <2>6. TicketsAreOver'
    <3> SUFFICES ASSUME NEW i \in 1 .. Len(closing_conns'), closing_conns'[i] \in Conns
                 PROVE  stage'[closing_conns'[i]] \in Over
      BY DEF TicketsAreOver
    <3>1. CASE closing_conns'[i] = c
      BY <2>5, <3>1
    <3>2. CASE closing_conns'[i] # c
      <4>1. i \in 1 .. Len(closing_conns) /\ closing_conns'[i] = closing_conns[i]
        BY <1>t, <2>1, <3>2, DrawAppends
      <4> QED
        BY <1>t, <2>5, <3>2, <4>1 DEF TicketsAreOver
    <3> QED
      BY <3>1, <3>2
  <2> QED
    BY <2>3, <2>4, <2>6 DEF TypeInv
<1>15. CASE DestroyPost
  <2>1. CASE dst = "post" /\ Draw(MinusOne) /\ dst' = "drawn"
    <3>1. UNCHANGED <<stage, fd, owner, conns, misread, is_closing, acc, accepted, wake>>
      BY <1>15 DEF DestroyPost
    <3>2. closing_conns' \in Seq(Conns \cup {MinusOne}) /\ Len(closing_conns') <= Capacity
      BY <1>01, <2>1
    <3>3. TypeOK'
      BY <1>t, <2>1, <3>1, <3>2 DEF TypeOK
    <3>4. HasFd'
      BY <1>t, <3>1 DEF HasFd
    <3>5. TicketsAreOver'
      <4> SUFFICES ASSUME NEW i \in 1 .. Len(closing_conns'), closing_conns'[i] \in Conns
                   PROVE  stage[closing_conns'[i]] \in Over
        BY <3>1 DEF TicketsAreOver
      <4>1. i \in 1 .. Len(closing_conns) /\ closing_conns'[i] = closing_conns[i]
        BY <1>t, <2>1, DrawAppends
      <4> QED
        BY <1>t, <4>1 DEF TicketsAreOver
    <3> QED
      BY <3>3, <3>4, <3>5 DEF TypeInv
  <2>2. CASE UNCHANGED closing_conns /\ dst' \in {"written", "connect"}
    BY <1>7, <1>15, <2>2 DEF DestroyPost
  <2> QED
    BY <1>15, <2>1, <2>2 DEF DestroyPost
<1>16. CASE AcceptQuit \/ Cancelled \/ DestroyConnect \/ DestroyFree \/ UNCHANGED vars
  BY <1>7, <1>16 DEF AcceptQuit, Cancelled, DestroyConnect, DestroyFree, vars
<1>17. CASE DestroyBegin
  <2>1. TypeOK' /\ HasFd'
    BY <1>t, <1>17 DEF DestroyBegin, TypeOK, HasFd
  <2>2. TicketsAreOver'
    BY <1>00, <1>17 DEF DestroyBegin
  <2> QED
    BY <2>1, <2>2 DEF TypeInv
<1> QED
  BY <1>1, <1>2, <1>3, <1>4, <1>5, <1>8, <1>9, <1>11, <1>12, <1>13, <1>14, <1>15, <1>16, <1>17
     DEF Next, AcceptThread, Conn, Posting, Destroy

(* They hold when the server was started.                                  *)
LEMMA TypeInit == Init => TypeInv
<1> SUFFICES ASSUME Init PROVE TypeInv
  OBVIOUS
<1>1. closing_conns \in Seq(Conns \cup {MinusOne}) /\ Len(closing_conns) <= Capacity
  BY CapacityAssumption DEF Init
<1>2. TypeOK /\ HasFd
  BY <1>1 DEF Init, TypeOK, HasFd, Stages
<1>3. TicketsAreOver
  BY DEF Init, TicketsAreOver
<1> QED
  BY <1>2, <1>3 DEF TypeInv

(* Type correctness, with closing_conns never above its capacity           *)
(* (uo_tcp_server.c:27,131,213).                                           *)
THEOREM ServerTypeCorrect == Spec => []TypeOK
<1>1. TypeInv => TypeOK
  BY DEF TypeInv
<1> QED
  BY <1>1, TypeInit, TypeStep, PTL DEF Spec

-----------------------------------------------------------------------------
(* Between uo_tcp_conn_open and uo_inthashtbl_set the new connection may   *)
(* already be closed, but then its ticket is still in closing_conns: only  *)
(* the accept thread itself draws it.                                      *)
SetInv ==
    ~misread => (acc = "set" => /\ accepted \in Conns
                                /\ \/ stage[accepted] \in {"open", "closed"}
                                   \/ Posted(fd[accepted]))

TableInv == SetInv /\ EntriesHaveAnEnd

(* A step that leaves closing_conns and the numbers in it alone.           *)
LEMMA PostedSame ==
    ASSUME UNCHANGED <<closing_conns, fd>>, NEW f PROVE Posted(f)' <=> Posted(f)
  BY DEF Posted, Number

(* A new ticket keeps the others.                                          *)
LEMMA PostedDraw ==
    ASSUME TypeOK, NEW p, Draw(p), UNCHANGED fd, NEW f
    PROVE  Posted(f) \/ Number(p) = f => Posted(f)'
<1>1. /\ Len(closing_conns') = Len(closing_conns) + 1 /\ Len(closing_conns) \in Nat
      /\ \A i \in 1 .. Len(closing_conns) : closing_conns'[i] = closing_conns[i]
      /\ closing_conns'[Len(closing_conns) + 1] = p
  BY DrawAppends
<1>2. \A i \in 1 .. Len(closing_conns) : i \in 1 .. Len(closing_conns')
  BY <1>1
<1>3. Posted(f) => Posted(f)'
  BY <1>1, <1>2, Zenon DEF Posted, Number
<1>4. Len(closing_conns) + 1 \in 1 .. Len(closing_conns')
  BY <1>1
<1>5. Number(p) = f => Posted(f)'
  BY <1>1, <1>4, Zenon DEF Posted, Number
<1> QED
  BY <1>3, <1>5

(* A dequeue of a written slot leaves every other number in closing_conns. *)
LEMMA PostedDequeue ==
    ASSUME TypeOK, NEW item, Dequeue(item), ~misread', UNCHANGED fd, NEW f, f # item
    PROVE  Posted(f) => Posted(f)'
<1> SUFFICES ASSUME NEW i \in 1 .. Len(closing_conns), Number(closing_conns[i]) = f
             PROVE  Posted(f)'
  BY DEF Posted
<1>1. item = Number(Head(closing_conns))
  BY DEF Dequeue
<1>2. Head(closing_conns) = closing_conns[1]
  BY DequeueShifts
<1>3. i # 1
  BY <1>1, <1>2
<1>4. i - 1 \in 1 .. Len(closing_conns') /\ closing_conns'[i - 1] = closing_conns[i]
  BY <1>3, DequeueShifts
<1> QED
  BY <1>4, Zenon DEF Posted, Number

(* A connection that is accepted has no ticket yet.                        *)
LEMMA PostedAccept ==
    ASSUME TypeInv, NEW c \in Conns, NEW g \in Fds, AcceptClient(c, g), NEW f
    PROVE  Posted(f)' <=> Posted(f)
<1>1. /\ UNCHANGED closing_conns /\ stage[c] = "backlog"
      /\ \A d \in Conns : d # c => fd'[d] = fd[d]
  BY DEF AcceptClient, TypeInv, TypeOK
<1>2. ASSUME NEW i \in 1 .. Len(closing_conns)
      PROVE  Number(closing_conns[i])' = Number(closing_conns[i])
  <2>1. CASE closing_conns[i] = MinusOne
    BY <1>1, <2>1 DEF Number
  <2>2. CASE closing_conns[i] # MinusOne
    <3>1. closing_conns[i] \in Conns
      BY <2>2 DEF TypeInv, TypeOK
    <3>2. closing_conns[i] # c
      BY <1>1, <3>1 DEF TypeInv, TicketsAreOver, Over
    <3> QED
      BY <1>1, <2>2, <3>1, <3>2 DEF Number
  <2> QED
    BY <2>1, <2>2
<1> QED
  BY <1>1, <1>2 DEF Posted

(* A slot read before it was written is not forgotten.                     *)
LEMMA MisreadStays == TypeInv /\ [Next]_vars => (misread => misread')
  BY DEF Next, AcceptThread, Conn, Posting, Destroy, ClientConnects, AcceptClient, AcceptNothing,
     Check, SetConn, Drain, Flush, Dequeue, AcceptQuit, Cancelled, CloseSocket, PostClosed, PostWrite,
     PostToken, FreeConn, DestroyBegin, DestroyPost, DestroyConnect, DestroyFree, vars

(* SetInv and EntriesHaveAnEnd together are kept by every step.            *)
LEMMA TableStep == TypeInv /\ TableInv /\ [Next]_vars => TableInv'
<1> SUFFICES ASSUME TypeInv, TableInv, [Next]_vars, ~misread' PROVE TableInv'
  BY DEF TableInv, SetInv, EntriesHaveAnEnd
<1>t. TypeOK /\ HasFd
  BY DEF TypeInv
<1>m. ~misread
  BY MisreadStays
<1> USE DEF TableInv, SetInv, EntriesHaveAnEnd
(* steps that concern neither the table nor a connection's way to closing_conns *)
<1>1. ASSUME UNCHANGED <<conns, closing_conns, stage, fd, accepted>>, acc' # "set" \/ acc = "set"
      PROVE  TableInv'
  BY <1>1, <1>m, PostedSame
<1>2. ASSUME NEW c \in Conns, ClientConnects(c) PROVE TableInv'
  <2>1. UNCHANGED <<closing_conns, fd, conns, acc, accepted>>
    BY <1>2 DEF ClientConnects
  <2>2. \A d \in Conns : stage[d] \in {"open", "closed"} => stage'[d] = stage[d]
    BY <1>t, <1>2 DEF ClientConnects, TypeOK
  <2> QED
    BY <1>m, <2>1, <2>2, PostedSame
<1>3. ASSUME NEW c \in Conns, NEW f \in Fds, AcceptClient(c, f) PROVE TableInv'
  <2>1. UNCHANGED <<conns, closing_conns>> /\ acc' = "check"
    BY <1>3 DEF AcceptClient
  <2>2. \A d \in Conns : stage[d] \in {"open", "closed"}
                            => stage'[d] = stage[d] /\ fd'[d] = fd[d]
    BY <1>t, <1>3 DEF AcceptClient, TypeOK
  <2>3. \A g : Posted(g)' <=> Posted(g)
    BY <1>3, PostedAccept
  <2> QED
    BY <1>m, <2>1, <2>2, <2>3
<1>4. CASE Check
  <2>1. UNCHANGED <<conns, closing_conns, fd, accepted>>
    BY <1>4 DEF Check
  <2>2. \A d \in Conns : stage[d] \in {"open", "closed"} => stage'[d] \in {"open", "closed"}
    BY <1>t, <1>4 DEF Check, TypeOK
  <2>3. acc' = "set" => accepted \in Conns /\ stage'[accepted] = "open"
    BY <1>t, <1>4 DEF Check, TypeOK
  <2> QED
    BY <1>m, <2>1, <2>2, <2>3, PostedSame
<1>5. CASE SetConn
  <2>1. /\ UNCHANGED <<stage, fd, closing_conns>> /\ acc' = "drain"
        /\ \A f \in Fds : f # fd[accepted] => conns'[f] = conns[f]
    BY <1>t, <1>5 DEF SetConn, TypeOK
  <2>2. /\ accepted \in Conns
        /\ stage[accepted] \in {"open", "closed"} \/ Posted(fd[accepted])
    BY <1>m, <1>5 DEF SetConn
  <2> QED
    BY <1>m, <2>1, <2>2, PostedSame
<1>6. ASSUME NEW item, Dequeue(item), RemoveConn(item), UNCHANGED <<stage, fd>>
      PROVE  EntriesHaveAnEnd'
  <2> SUFFICES ASSUME NEW f \in Fds, conns'[f] # None
               PROVE  Posted(f)' \/ \E c \in Conns : fd[c] = f /\ stage[c] \in {"open", "closed"}
    BY <1>6
  <2>1. f # item /\ conns[f] # None
    BY <1>6 DEF RemoveConn
  <2>2. Posted(f) => Posted(f)'
    BY <1>t, <1>6, <2>1, PostedDequeue
  <2> QED
    BY <1>m, <2>1, <2>2
<1>7. CASE Drain \/ Flush
  <2>1. UNCHANGED <<stage, fd>> /\ acc' # "set"
    BY <1>7 DEF Drain, Flush
  <2>2. \/ UNCHANGED <<conns, closing_conns>>
        \/ \E item \in Leftovers : Dequeue(item) /\ RemoveConn(item)
    BY <1>7 DEF Drain, Flush
  <2>3. CASE UNCHANGED <<conns, closing_conns>>
    BY <1>m, <2>1, <2>3, PostedSame
  <2>4. ASSUME NEW item \in Leftovers, Dequeue(item), RemoveConn(item) PROVE TableInv'
    <3>1. EntriesHaveAnEnd'
      BY <1>6, <2>1, <2>4
    <3> QED
      BY <2>1, <3>1
  <2> QED
    BY <2>2, <2>3, <2>4
<1>8. ASSUME NEW c \in Conns, CloseSocket(c) \/ PostWrite(c) \/ PostToken(c) \/ FreeConn(c)
      PROVE  TableInv'
  <2>1. UNCHANGED <<conns, closing_conns, fd, acc, accepted>>
    BY <1>8 DEF CloseSocket, PostWrite, PostToken, FreeConn
  <2>2. \A d \in Conns : stage[d] \in {"open", "closed"} => stage'[d] \in {"open", "closed"}
    BY <1>t, <1>8 DEF CloseSocket, PostWrite, PostToken, FreeConn, TypeOK
  <2> QED
    BY <1>m, <2>1, <2>2, PostedSame
<1>9. ASSUME NEW c \in Conns, PostClosed(c) PROVE TableInv'
  <2>1. UNCHANGED <<conns, fd, acc, accepted>> /\ Draw(c)
    BY <1>9 DEF PostClosed
  <2>2. \A d \in Conns : d # c => stage'[d] = stage[d]
    BY <1>t, <1>9 DEF PostClosed, TypeOK
  <2>3. Number(c) = fd[c]
    BY NamesAssumption DEF Number
  <2>4. \A f : Posted(f) \/ f = fd[c] => Posted(f)'
    <3> HIDE DEF TableInv, SetInv, EntriesHaveAnEnd
    <3> QED
      BY <1>t, <2>1, <2>3, PostedDraw
  <2> QED
    BY <1>m, <2>1, <2>2, <2>4
<1>10. CASE DestroyPost
  <2>1. UNCHANGED <<conns, fd, stage, acc, accepted>>
    BY <1>10 DEF DestroyPost
  <2>2. CASE UNCHANGED closing_conns
    BY <1>1, <2>1, <2>2
  <2>3. CASE Draw(MinusOne)
    <3>1. \A f : Posted(f) => Posted(f)'
      BY <1>t, <2>1, <2>3, PostedDraw
    <3> QED
      BY <1>m, <2>1, <3>1
  <2> QED
    BY <1>10, <2>2, <2>3 DEF DestroyPost
<1>11. CASE AcceptNothing
  <2>1. UNCHANGED <<conns, closing_conns, fd, stage>> /\ acc' = "check"
    BY <1>11 DEF AcceptNothing
  <2> QED
    BY <1>m, <2>1, PostedSame
<1>12. CASE AcceptQuit \/ Cancelled \/ DestroyBegin \/ DestroyConnect \/ DestroyFree \/ UNCHANGED vars
  BY <1>1, <1>12 DEF AcceptQuit, Cancelled, DestroyBegin, DestroyConnect, DestroyFree, vars
<1> QED
  BY <1>2, <1>3, <1>4, <1>5, <1>7, <1>8, <1>9, <1>10, <1>11, <1>12
     DEF Next, AcceptThread, Conn, Posting, Destroy

(* They hold when the server was started.                                  *)
LEMMA TableInit == Init => TableInv
  BY DEF Init, TableInv, SetInv, EntriesHaveAnEnd

(* Until a slot of closing_conns is read before it was written, every      *)
(* entry of conns has a closing on its way, for any interleaving of        *)
(* accepts, of the steps of closings and of reused numbers:                *)
(* uo_tcp_server_destroy never waits for an entry that nobody will remove  *)
(* (uo_tcp_server.c:57-66, uo_queue.c:45-47).                              *)
THEOREM EntriesAlwaysEnd == Spec => []EntriesHaveAnEnd
<1>1. TableInv => EntriesHaveAnEnd
  BY DEF TableInv
<1> QED
  BY <1>1, TypeInit, TypeStep, TableInit, TableStep, PTL DEF Spec

-----------------------------------------------------------------------------
(* A client that was not accepted has no number.                           *)
NoNumberYet == \A c \in Conns : stage[c] \in {"away", "backlog"} => fd[c] = None

(* Without reuse of numbers a connection that is still to write its        *)
(* descriptor to its slot has its entry in the table, or is just getting   *)
(* it.                                                                     *)
Unwritten == {"open", "closed", "drawn"}
EntryUntilWritten ==
    ~misread /\ ~NumberReused => \A c \in Conns : stage[c] \in Unwritten =>
        conns[fd[c]] = c \/ (acc = "set" /\ accepted = c)

(* The accept thread ends with an empty table, unless it was cancelled.    *)
EndsEmpty ==
    acc \in {"quit", "done"} => dst \in {"free", "done"} \/ \A f \in Fds : conns[f] = None

AwaitInv == NoNumberYet /\ EntryUntilWritten /\ EndsEmpty

(* They hold when the server was started.                                  *)
LEMMA AwaitInit == Init => AwaitInv
  BY DEF Init, AwaitInv, NoNumberYet, EntryUntilWritten, EndsEmpty, Unwritten

(* Every step keeps them.                                                  *)
LEMMA AwaitStep == TypeInv /\ TableInv /\ AwaitInv /\ [Next]_vars => AwaitInv'
<1> SUFFICES ASSUME TypeInv, TableInv, AwaitInv, [Next]_vars PROVE AwaitInv'
  OBVIOUS
<1>t. TypeOK /\ HasFd
  BY DEF TypeInv
<1>i. NoNumberYet /\ EntryUntilWritten /\ EndsEmpty
  BY DEF AwaitInv
<1>m. misread => misread'
  BY MisreadStays
<1>n. ASSUME UNCHANGED fd PROVE NumberReused' <=> NumberReused
  BY <1>n DEF NumberReused
<1> USE NamesAssumption
(* steps that leave the connections and the table alone                    *)
<1>1. ASSUME UNCHANGED <<stage, fd, conns>>, acc # "set",
             \/ acc' \in {acc, "accept", "check", "flush"}
             \/ acc = "quit" /\ acc' = "done"
             \/ acc' = "quit" /\ \A f \in Fds : conns[f] = None
             \/ acc' = "done" /\ dst \in {"free", "done"},
             dst \in {"free", "done"} => dst' \in {"free", "done"}
      PROVE  AwaitInv'
  <2>1. NumberReused' <=> NumberReused
    BY <1>n, <1>1
  <2>2. NoNumberYet'
    BY <1>i, <1>1 DEF NoNumberYet
  <2>3. EntryUntilWritten'
    BY <1>i, <1>m, <1>1, <2>1 DEF EntryUntilWritten
  <2>4. EndsEmpty'
    BY <1>i, <1>1 DEF EndsEmpty
  <2> QED
    BY <2>2, <2>3, <2>4 DEF AwaitInv
<1>2. ASSUME UNCHANGED <<stage, fd, conns, acc, accepted>>,
             dst \in {"free", "done"} => dst' \in {"free", "done"}
      PROVE  AwaitInv'
  <2>1. NumberReused' <=> NumberReused
    BY <1>n, <1>2
  <2>2. NoNumberYet'
    BY <1>i, <1>2 DEF NoNumberYet
  <2>3. EntryUntilWritten'
    BY <1>i, <1>m, <1>2, <2>1 DEF EntryUntilWritten
  <2>4. EndsEmpty'
    BY <1>i, <1>2 DEF EndsEmpty
  <2> QED
    BY <2>2, <2>3, <2>4 DEF AwaitInv
(* steps of one connection, from a stage to the next                       *)
<1>3. ASSUME NEW c \in Conns, NEW s \in Stages, stage' = [stage EXCEPT ![c] = s],
             UNCHANGED <<fd, conns, acc, accepted, dst>>,
             stage[c] = "away" \/ s \notin {"away", "backlog"},
             s \in Unwritten => stage[c] \in Unwritten,
             s \in {"away", "backlog"} => stage[c] \in {"away", "backlog"}
      PROVE  AwaitInv'
  <2>1. stage'[c] = s /\ \A d \in Conns : d # c => stage'[d] = stage[d]
    BY <1>t, <1>3 DEF TypeOK
  <2>2. NoNumberYet'
    BY <1>i, <1>3, <2>1 DEF NoNumberYet
  <2>3. NumberReused' <=> NumberReused
    BY <1>n, <1>3
  <2>4. EntryUntilWritten'
    BY <1>i, <1>m, <1>3, <2>1, <2>3 DEF EntryUntilWritten
  <2>5. EndsEmpty'
    BY <1>i, <1>3 DEF EndsEmpty
  <2> QED
    BY <2>2, <2>4, <2>5 DEF AwaitInv
<1>4. ASSUME NEW c \in Conns, ClientConnects(c) PROVE AwaitInv'
  BY <1>3, <1>4 DEF ClientConnects, Stages, Unwritten
<1>5. ASSUME NEW c \in Conns, CloseSocket(c) \/ PostWrite(c) \/ PostToken(c) \/ FreeConn(c)
      PROVE  AwaitInv'
  BY <1>3, <1>5 DEF CloseSocket, PostWrite, PostToken, FreeConn, Stages, Unwritten
<1>6. ASSUME NEW c \in Conns, PostClosed(c) PROVE AwaitInv'
  BY <1>3, <1>6 DEF PostClosed, Stages, Unwritten
<1>7. ASSUME NEW c \in Conns, NEW f \in Fds, AcceptClient(c, f) PROVE AwaitInv'
  <2>1. /\ stage[c] = "backlog" /\ stage'[c] = "accepted" /\ fd'[c] = f /\ fd[c] = None
        /\ \A d \in Conns : d # c => stage'[d] = stage[d] /\ fd'[d] = fd[d]
        /\ acc' = "check" /\ acc = "accept"
        /\ UNCHANGED <<conns, misread, dst>>
    BY <1>t, <1>i, <1>7 DEF AcceptClient, TypeOK, NoNumberYet
  <2>2. NoNumberYet'
    BY <1>i, <2>1 DEF NoNumberYet
  <2>3. EntryUntilWritten'
    <3>1. ~NumberReused' => ~NumberReused
      BY <2>1 DEF NumberReused
    <3> QED
      BY <1>i, <2>1, <3>1 DEF EntryUntilWritten, Unwritten
  <2> QED
    BY <2>1, <2>2, <2>3 DEF AwaitInv, EndsEmpty
<1>8. CASE Check
  <2>1. UNCHANGED <<fd, conns, misread, accepted, dst>> /\ acc = "check"
    BY <1>8 DEF Check
  <2>2. CASE acc' = "set"
    <3>1. /\ accepted \in Conns /\ stage[accepted] = "accepted" /\ stage'[accepted] = "open"
          /\ \A d \in Conns : d # accepted => stage'[d] = stage[d]
      BY <1>t, <1>8, <2>2 DEF Check, TypeOK, HasFd
    <3>2. NumberReused' <=> NumberReused
      BY <1>n, <2>1
    <3>3. EntryUntilWritten'
      BY <1>i, <2>1, <2>2, <3>1, <3>2 DEF EntryUntilWritten
    <3>4. NoNumberYet'
      BY <1>i, <2>1, <2>2, <3>1 DEF NoNumberYet
    <3> QED
      BY <2>2, <3>3, <3>4 DEF AwaitInv, EndsEmpty
  <2>3. CASE acc' # "set"
    <3>1. stage' = stage /\ acc' \in {"flush", "accept"}
      BY <1>8, <2>3 DEF Check
    <3> QED
      BY <1>1, <2>1, <3>1
  <2> QED
    BY <2>2, <2>3
<1>9. CASE AcceptNothing
  BY <1>1, <1>9 DEF AcceptNothing
<1>10. CASE SetConn
  <2>1. /\ UNCHANGED <<stage, fd, misread, accepted, dst>> /\ acc = "set" /\ acc' = "drain"
        /\ fd[accepted] \in Fds => conns'[fd[accepted]] = accepted
        /\ \A f \in Fds : f # fd[accepted] => conns'[f] = conns[f]
    BY <1>t, <1>10 DEF SetConn, TypeOK
  <2>2. NumberReused' <=> NumberReused
    BY <1>n, <2>1
  <2>3. EntryUntilWritten'
    <3> SUFFICES ASSUME ~misread, ~NumberReused, NEW c \in Conns, stage[c] \in Unwritten
                 PROVE  conns'[fd[c]] = c
      BY <2>1, <2>2 DEF EntryUntilWritten
    <3>1. fd[c] \in Fds /\ fd[c] # None
      BY <1>t DEF HasFd, Unwritten
    <3>2. CASE c = accepted
      BY <2>1, <3>1, <3>2
    <3>3. CASE c # accepted
      <4>1. conns[fd[c]] = c
        BY <1>i, <3>3 DEF EntryUntilWritten
      <4>2. accepted \in Conns
        BY <2>1 DEF TableInv, SetInv
      <4>3. fd[c] # fd[accepted]
        BY <3>1, <3>3, <4>2 DEF NumberReused
      <4> QED
        BY <2>1, <3>1, <4>1, <4>3
    <3> QED
      BY <3>2, <3>3
  <2>4. NoNumberYet'
    BY <1>i, <2>1 DEF NoNumberYet
  <2> QED
    BY <2>1, <2>3, <2>4 DEF AwaitInv, EndsEmpty
<1>11. ASSUME NEW item, Dequeue(item), RemoveConn(item), UNCHANGED <<stage, fd, accepted, dst>>,
              acc \in {"drain", "flush"}, acc' \in {acc, "accept"}
       PROVE  AwaitInv'
  <2>1. EntryUntilWritten'
    <3> SUFFICES ASSUME ~misread', ~NumberReused, NEW c \in Conns, stage[c] \in Unwritten
                 PROVE  conns'[fd[c]] = c
      BY <1>n, <1>11 DEF EntryUntilWritten
    <3>1. fd[c] \in Fds /\ conns[fd[c]] = c
      BY <1>t, <1>i, <1>m, <1>11 DEF HasFd, EntryUntilWritten, Unwritten
    <3>2. item = Number(Head(closing_conns)) /\ At(Head(closing_conns)) # "drawn"
      BY <1>11 DEF Dequeue
    <3>3. fd[c] # item
      <4> SUFFICES ASSUME fd[c] = item PROVE FALSE
        OBVIOUS
      <4>1. /\ Head(closing_conns) = closing_conns[1] /\ 1 \in 1 .. Len(closing_conns)
            /\ closing_conns \in Seq(Conns \cup {MinusOne})
        BY <1>t, <1>11, DequeueShifts, TokenHasTicket
      <4>2. closing_conns[1] \in Conns \cup {MinusOne}
        BY <4>1
      <4>3. closing_conns[1] # MinusOne
        BY <3>1, <3>2, <4>1 DEF Number
      <4>4. /\ closing_conns[1] \in Conns /\ fd[closing_conns[1]] = fd[c]
            /\ stage[closing_conns[1]] # "drawn"
        BY <3>2, <4>1, <4>2, <4>3 DEF Number, At
      <4>5. stage[closing_conns[1]] \in Over
        BY <4>1, <4>4 DEF TypeInv, TicketsAreOver
      <4>6. closing_conns[1] # c
        BY <4>4, <4>5 DEF Over, Unwritten
      <4> QED
        BY <3>1, <4>4, <4>6 DEF NumberReused
    <3> QED
      BY <1>11, <3>1, <3>3 DEF RemoveConn
  <2>2. NoNumberYet' /\ EndsEmpty'
    BY <1>i, <1>11 DEF NoNumberYet, EndsEmpty
  <2> QED
    BY <2>1, <2>2 DEF AwaitInv
<1>12. CASE Drain
  <2>1. UNCHANGED <<stage, fd, accepted, dst>> /\ acc = "drain"
    BY <1>12 DEF Drain
  <2>2. CASE acc' = "accept" /\ UNCHANGED conns
    BY <1>1, <2>1, <2>2
  <2>3. ASSUME NEW item \in Leftovers, Dequeue(item), RemoveConn(item), acc' \in {acc, "accept"}
        PROVE  AwaitInv'
    BY <1>11, <2>1, <2>3
  <2> QED
    BY <1>12, <2>2, <2>3 DEF Drain
<1>13. CASE Flush
  <2>1. UNCHANGED <<stage, fd, accepted, dst>> /\ acc = "flush"
    BY <1>13 DEF Flush
  <2>2. CASE acc' = "quit" /\ UNCHANGED conns /\ \A f \in Fds : conns[f] = None
    BY <1>1, <2>1, <2>2
  <2>3. ASSUME NEW item \in Leftovers, Dequeue(item), RemoveConn(item), acc' = acc
        PROVE  AwaitInv'
    BY <1>11, <2>1, <2>3
  <2> QED
    BY <1>13, <2>2, <2>3 DEF Flush
<1>14. CASE AcceptQuit \/ Cancelled
  BY <1>1, <1>14 DEF AcceptQuit, Cancelled
<1>15. CASE DestroyBegin \/ DestroyPost \/ DestroyConnect \/ DestroyFree \/ UNCHANGED vars
  BY <1>2, <1>15 DEF DestroyBegin, DestroyPost, DestroyConnect, DestroyFree, vars
<1> QED
  BY <1>4, <1>5, <1>6, <1>7, <1>8, <1>9, <1>10, <1>12, <1>13, <1>14, <1>15
     DEF Next, AcceptThread, Conn, Posting, Destroy

(* A server that was freed after its accept thread was joined has no       *)
(* connection left that would still receive, send or close, or that has    *)
(* its descriptor still to write to closing_conns, for any number of       *)
(* connections, as long as no descriptor number was given twice and no     *)
(* slot was read before it was written.  What connections do after they    *)
(* wrote their slot is not covered (uo_tcp_server.c:57-66,226-243).        *)
THEOREM DestroyAwaitsTheClosings == Spec => DestroyAwaitsClosings
<1>1. ASSUME TypeInv, AwaitInv, [Next]_vars
      PROVE  [dst = "join" /\ dst' = "done" /\ ~NumberReused /\ ~misread =>
                \A c \in Conns : stage[c] \notin {"open", "closed", "drawn"}]_vars
  <2> SUFFICES ASSUME dst = "join", dst' = "done", ~NumberReused, ~misread,
                      NEW c \in Conns, stage[c] \in {"open", "closed", "drawn"}
               PROVE  FALSE
    OBVIOUS
  <2>1. DestroyFree
    BY <1>1 DEF Next, AcceptThread, Conn, Posting, Destroy, ClientConnects, AcceptClient, AcceptNothing,
       Check, SetConn, Drain, Flush, AcceptQuit, Cancelled, CloseSocket, PostClosed, PostWrite,
       PostToken, FreeConn, DestroyBegin, DestroyPost, DestroyConnect, vars
  <2>2. acc = "done" /\ \A f \in Fds : conns[f] = None
    BY <1>1, <2>1 DEF DestroyFree, AwaitInv, EndsEmpty
  <2>3. fd[c] \in Fds /\ conns[fd[c]] = c
    BY <1>1, <2>2 DEF AwaitInv, EntryUntilWritten, TypeInv, HasFd, Unwritten
  <2> QED
    BY <2>2, <2>3, NamesAssumption
<1> QED
  BY <1>1, TypeInit, TypeStep, TableInit, TableStep, AwaitInit, AwaitStep, PTL
     DEF Spec, DestroyAwaitsClosings
=============================================================================
