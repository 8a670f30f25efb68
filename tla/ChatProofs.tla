----------------------------- MODULE ChatProofs -----------------------------
(***************************************************************************)
(* What is proved of Chat for every bound, every window and both clients.  *)
(***************************************************************************)
EXTENDS Chat, SequenceTheorems, FiniteSetTheorems, FunctionTheorems, TLAPS

LEMMA Sides ==
  /\ \A r \in Roles : Side(r) \in Ends /\ Peer(Side(r)) \in Ends
  /\ Tickers \subseteq Roles
  /\ "hello" \in Roles /\ "recv" \in Roles /\ "push" \in Roles /\ "echo" \in Roles
  /\ Side("hello") = "client" /\ Side("recv") = "client"
  /\ Side("push") = "server" /\ Side("echo") = "server"
  /\ "client" \in Ends /\ "server" \in Ends
BY DEF Side, Peer, Ends, Roles, Tickers

LEMMA Update ==
  ASSUME NEW A, NEW B, NEW T, NEW f \in [A -> [B -> T]], NEW a \in A, NEW b \in B,
         NEW v \in T
  PROVE  [f EXCEPT ![a][b] = v] \in [A -> [B -> T]]
OBVIOUS

-----------------------------------------------------------------------------
(* Types.  A goroutine in Send holds a message for the other end. *)

InboxOK ==
  /\ inbox \in [Streams -> [Ends -> Seq(Msg)]]
  /\ \A s \in Streams, e \in Ends : inbox[s][e] \in Seq(MsgTo(e))

HandOK ==
  \A s \in Streams, r \in Roles :
    pc[s][r] = "send" => /\ hand[s][r] \in MsgTo(Peer(Side(r)))
                         /\ hand[s][r].kind \notin EndMarks

Typed == TypeOK /\ HandOK /\ (main = "chat" => cur # 0)

\* The messages the programs make are messages for the end they are sent to.
LEMMA MessageTypes ==
  /\ \A i \in Nat : Hello(i) \in Msg /\ Hello(i) \in MsgTo("server") /\ Hello(i).kind = "hello"
  /\ \A i \in Nat : Push(i) \in Msg /\ Push(i) \in MsgTo("client") /\ Push(i).kind = "push"
  /\ \A m \in Msg : Ack(m) \in Msg /\ Ack(m) \in MsgTo("server") /\ Ack(m).kind = "ack"
  /\ \A m \in Msg : /\ Echo(m) \in Msg /\ Echo(m) \in MsgTo("client")
                    /\ Echo(m).kind \in {"echoHello", "echoAck"}
  /\ \A x \in EndMarks : End(x) \in Msg /\ End(x) \in MsgTo("client") /\ End(x).kind = x
  /\ Nothing \in Msg
  /\ \A e \in Ends : MsgTo(e) \subseteq Msg
BY DEF Hello, Push, Ack, Echo, End, Nothing, Msg, MsgTo, Kinds, EndMarks, Ends

LEMMA InboxAppend ==
  ASSUME InboxOK, NEW s \in Streams, NEW e \in Ends, NEW m \in MsgTo(e),
         inbox' = [inbox EXCEPT ![s][e] = Append(@, m)]
  PROVE  InboxOK'
<1>1. m \in Msg
  BY MessageTypes
<1>2. Append(inbox[s][e], m) \in Seq(Msg) /\ Append(inbox[s][e], m) \in Seq(MsgTo(e))
  BY <1>1 DEF InboxOK
<1> QED
  BY <1>2, Update DEF InboxOK

LEMMA InboxTail ==
  ASSUME InboxOK, NEW s \in Streams, NEW e \in Ends, inbox[s][e] # << >>,
         inbox' = [inbox EXCEPT ![s][e] = Tail(@)]
  PROVE  InboxOK'
<1>1. Tail(inbox[s][e]) \in Seq(Msg) /\ Tail(inbox[s][e]) \in Seq(MsgTo(e))
  BY DEF InboxOK
<1> QED
  BY <1>1, Update DEF InboxOK

\* Every variable keeps its type and a goroutine in Send holds a message for the
\* other end: in particular the server is only ever sent
\* hellos and acks, and the client pushes, echoes and the mark of the end.
THEOREM TypedAlways == Spec => []Typed
<1>1. Init => Typed
  <2> SUFFICES ASSUME Init PROVE Typed
    OBVIOUS
  <2>1. TypeOK
    BY ChatAssumption, MessageTypes DEF Init, TypeOK, PCs, Tickers
  <2> QED
    BY <2>1 DEF Init, Typed, HandOK
<1>2. Typed /\ [Next]_vars => Typed'
  <2> SUFFICES ASSUME Typed, [Next]_vars PROVE Typed'
    OBVIOUS
  <2> USE ChatAssumption, Sides
  <2>1. /\ InboxOK' => (inbox' \in [Streams -> [Ends -> Seq(Msg)]]
                        /\ \A s \in Streams, e \in Ends : inbox'[s][e] \in Seq(MsgTo(e)))
        /\ InboxOK
    BY DEF Typed, TypeOK, InboxOK
  <2>2. CASE OpenStream
    <3>1. cur + 1 \in Streams /\ cur + 1 \in 0..MaxStream /\ cur + 1 # 0
      BY <2>2 DEF OpenStream, Typed, TypeOK, Streams
    <3>2. pc' \in [Streams -> [Roles -> PCs]] /\ HandOK'
      BY <2>2, <3>1 DEF OpenStream, Typed, TypeOK, HandOK, PCs
    <3> QED
      BY <2>2, <3>1, <3>2 DEF OpenStream, Typed, TypeOK
  <2>3. CASE DialFails
    BY <2>3 DEF DialFails, Typed, TypeOK, HandOK
  <2>4. CASE WakeUp
    BY <2>4 DEF WakeUp, Typed, TypeOK, HandOK
  <2>5. CASE ChatLoopReturns
    <3>1. cur \in Streams
      BY <2>5 DEF ChatLoopReturns, Typed, TypeOK, Streams
    <3>2. Tail(errCh[cur]["client"]) \in Seq({"nil", "err"})
      BY <2>5, <3>1 DEF ChatLoopReturns, Typed, TypeOK
    <3>3. errCh' \in [Streams -> [Ends -> Seq({"nil", "err"})]]
      BY <2>5, <3>1, <3>2, Update DEF ChatLoopReturns, Typed, TypeOK
    <3> QED
      BY <2>5, <3>3 DEF ChatLoopReturns, Typed, TypeOK, HandOK
  <2>6. ASSUME NEW s \in Streams, NEW r \in Roles, SendOK(s, r) PROVE Typed'
    <3>1. InboxOK'
      <4>1. CASE Delivers(s, Peer(Side(r)))
        BY <2>6, <2>1, <4>1, InboxAppend DEF SendOK, Typed, HandOK
      <4>2. CASE ~Delivers(s, Peer(Side(r)))
        BY <2>6, <2>1, <4>2 DEF SendOK, InboxOK
      <4> QED
        BY <4>1, <4>2
    <3>2. pc' \in [Streams -> [Roles -> PCs]] /\ hand' \in [Streams -> [Roles -> Msg]]
      BY <2>6, MessageTypes DEF SendOK, Typed, TypeOK, PCs
    <3>3. HandOK'
      BY <2>6 DEF SendOK, Typed, TypeOK, HandOK
    <3> QED
      BY <2>1, <2>6, <3>1, <3>2, <3>3 DEF SendOK, Typed, TypeOK
  <2>7. ASSUME NEW s \in Streams, NEW r \in Roles, SendFails(s, r) PROVE Typed'
    <3>1. pc' \in [Streams -> [Roles -> PCs]] /\ hand' \in [Streams -> [Roles -> Msg]]
      BY <2>7, MessageTypes DEF SendFails, Typed, TypeOK, PCs
    <3>2. HandOK'
      BY <2>7 DEF SendFails, Typed, TypeOK, HandOK
    <3> QED
      BY <2>7, <3>1, <3>2 DEF SendFails, Typed, TypeOK
  <2>8. ASSUME NEW s \in Streams, NEW r \in Roles, Report(s, r) PROVE Typed'
    <3>1. Append(errCh[s][Side(r)], pc[s][r]) \in Seq({"nil", "err"})
      BY <2>8 DEF Report, Typed, TypeOK
    <3>2. errCh' \in [Streams -> [Ends -> Seq({"nil", "err"})]]
      BY <2>8, <3>1 DEF Report, Typed, TypeOK
    <3>3. pc' \in [Streams -> [Roles -> PCs]] /\ HandOK'
      BY <2>8 DEF Report, Typed, TypeOK, HandOK, PCs
    <3> QED
      BY <2>8, <3>2, <3>3 DEF Report, Typed, TypeOK
  <2>9. ASSUME NEW s \in Streams, NEW r \in Tickers, Tick(s, r) PROVE Typed'
    <3> DEFINE m == IF r = "hello" THEN Hello(sent[s][r] + 1) ELSE Push(sent[s][r] + 1)
    <3>1. sent[s][r] + 1 \in Nat
      <4>1. sent \in [Streams -> [Tickers -> Nat]]
        BY DEF Typed, TypeOK
      <4> QED
        BY <4>1
    <3>2. m \in Msg /\ m \in MsgTo(Peer(Side(r))) /\ m.kind \notin EndMarks
      BY <3>1, MessageTypes DEF Tickers, Peer, EndMarks
    <3>3. sent' \in [Streams -> [Tickers -> Nat]]
      BY <2>9, <3>1 DEF Tick, Typed, TypeOK
    <3>4. pc' = [pc EXCEPT ![s][r] = "send"] /\ hand' = [hand EXCEPT ![s][r] = m]
      BY <2>9 DEF Tick
    <3> HIDE DEF m
    <3>5. pc' \in [Streams -> [Roles -> PCs]] /\ hand' \in [Streams -> [Roles -> Msg]]
      BY <3>2, <3>4 DEF Typed, TypeOK, PCs
    <3>6. HandOK'
      BY <3>2, <3>4 DEF Typed, TypeOK, HandOK
    <3> QED
      BY <2>9, <3>3, <3>5, <3>6 DEF Tick, Typed, TypeOK
  <2>10. ASSUME NEW s \in Streams, HelloCtxDone(s) PROVE Typed'
    BY <2>10 DEF HelloCtxDone, PCs, Typed, TypeOK, HandOK
  <2>11. ASSUME NEW s \in Streams, ClientRecv(s) PROVE Typed'
    <3> DEFINE m == Head(inbox[s]["client"])
    <3>1. InboxOK'
      BY <2>1, <2>11, InboxTail DEF ClientRecv
    <3>2. m \in Msg /\ m.n \in Nat
      <4>1. inbox[s]["client"] \in Seq(Msg) /\ inbox[s]["client"] # << >>
        BY <2>11 DEF ClientRecv, Typed, TypeOK
      <4>2. m \in Msg
        BY <4>1, HeadTailProperties
      <4> QED
        BY <4>2 DEF Msg
    <3>3. heard' \in [Streams -> [Ends -> Nat]]
      BY <2>11, <3>2 DEF ClientRecv, Typed, TypeOK
    <3>4. \/ /\ hand' = [hand EXCEPT ![s]["recv"] = Ack(m)]
             /\ pc' = [pc EXCEPT ![s]["recv"] = "send"]
          \/ hand' = hand /\ pc' = pc
      BY <2>11 DEF ClientRecv
    <3>5. pc' \in [Streams -> [Roles -> PCs]] /\ hand' \in [Streams -> [Roles -> Msg]] /\ HandOK'
      <4>1. Ack(m) \in MsgTo(Peer(Side("recv"))) /\ Ack(m).kind \notin EndMarks /\ Ack(m) \in Msg
        BY <3>2, MessageTypes DEF Peer, EndMarks
      <4> HIDE DEF m
      <4>2. CASE hand' = hand /\ pc' = pc
        BY <4>2 DEF Typed, TypeOK, HandOK
      <4>3. CASE /\ hand' = [hand EXCEPT ![s]["recv"] = Ack(m)]
                 /\ pc' = [pc EXCEPT ![s]["recv"] = "send"]
        BY <4>1, <4>3 DEF Typed, TypeOK, HandOK, PCs
      <4> QED
        BY <3>4, <4>2, <4>3
    <3> QED
      BY <2>1, <2>11, <3>1, <3>3, <3>5 DEF ClientRecv, Typed, TypeOK
  <2>12. ASSUME NEW s \in Streams, ClientRecvEnd(s) PROVE Typed'
    BY <2>12 DEF ClientRecvEnd, PCs, Outcome, Typed, TypeOK, HandOK
  <2>13. ASSUME NEW s \in Streams, HandlerStarts(s) PROVE Typed'
    BY <2>13 DEF HandlerStarts, PCs, Typed, TypeOK, HandOK
  <2>14. ASSUME NEW s \in Streams, PushCtxDone(s) PROVE Typed'
    BY <2>14 DEF PushCtxDone, PCs, Typed, TypeOK, HandOK
  <2>15. ASSUME NEW s \in Streams, ServerRecv(s) PROVE Typed'
    <3> DEFINE m == Head(inbox[s]["server"])
    <3>1. InboxOK'
      BY <2>1, <2>15, InboxTail DEF ServerRecv
    <3>2. m \in Msg /\ m.n \in Nat
      <4>1. inbox[s]["server"] \in Seq(Msg) /\ inbox[s]["server"] # << >>
        BY <2>15 DEF ServerRecv, Typed, TypeOK
      <4>2. m \in Msg
        BY <4>1, HeadTailProperties
      <4> QED
        BY <4>2 DEF Msg
    <3>3. heard' \in [Streams -> [Ends -> Nat]]
      BY <2>15, <3>2 DEF ServerRecv, Typed, TypeOK
    <3>4. pc' \in [Streams -> [Roles -> PCs]] /\ hand' \in [Streams -> [Roles -> Msg]]
      BY <2>15, <3>2, MessageTypes DEF ServerRecv, Typed, TypeOK, PCs
    <3>5. HandOK'
      <4>1. Echo(m) \in MsgTo(Peer(Side("echo"))) /\ Echo(m).kind \notin EndMarks
        BY <3>2, MessageTypes DEF Peer, EndMarks
      <4> QED
        BY <2>15, <4>1 DEF ServerRecv, Typed, TypeOK, HandOK
    <3> QED
      BY <2>1, <2>15, <3>1, <3>3, <3>4, <3>5 DEF ServerRecv, Typed, TypeOK
  <2>16. ASSUME NEW s \in Streams, ServerRecvFails(s) PROVE Typed'
    BY <2>16 DEF ServerRecvFails, PCs, Typed, TypeOK, HandOK
  <2>17. ASSUME NEW s \in Streams, HandlerReturns(s) PROVE Typed'
    <3> DEFINE x == IF Head(errCh[s]["server"]) = "nil" THEN "eof" ELSE "err"
    <3>1. End(x) \in MsgTo("client")
      BY MessageTypes DEF EndMarks
    <3>2. InboxOK'
      BY <2>1, <2>17, <3>1, InboxAppend DEF HandlerReturns, InboxOK
    <3>3. Tail(errCh[s]["server"]) \in Seq({"nil", "err"})
      BY <2>17 DEF HandlerReturns, Typed, TypeOK
    <3>4. errCh' \in [Streams -> [Ends -> Seq({"nil", "err"})]]
      BY <2>17, <3>3 DEF HandlerReturns, Typed, TypeOK
    <3> QED
      BY <2>1, <2>17, <3>2, <3>4 DEF HandlerReturns, Typed, TypeOK, HandOK
  <2>18. ASSUME NEW s \in Streams, ServerNotices(s) PROVE Typed'
    BY <2>18 DEF ServerNotices, Typed, TypeOK, HandOK
  <2>19. ASSUME NEW s \in Streams, ClientNotices(s) PROVE Typed'
    <3>1. End("err") \in MsgTo("client")
      BY MessageTypes DEF EndMarks
    <3>2. InboxOK'
      BY <2>1, <2>19, <3>1, InboxAppend DEF ClientNotices, InboxOK
    <3> QED
      BY <2>1, <2>19, <3>2 DEF ClientNotices, Typed, TypeOK, HandOK
  <2>20. ASSUME NEW s \in Streams, LinkLost(s) PROVE Typed'
    <3>1. PICK i \in 0..Len(inbox[s]["client"]), j \in 0..Len(inbox[s]["server"]) :
            inbox' = [inbox EXCEPT ![s] =
                       [e \in Ends |-> SubSeq(inbox[s][e], 1, IF e = "client" THEN i ELSE j)]]
      BY <2>20 DEF LinkLost
    <3>2. \A e \in Ends : LET k == IF e = "client" THEN i ELSE j IN
             /\ SubSeq(inbox[s][e], 1, k) \in Seq(MsgTo(e))
             /\ SubSeq(inbox[s][e], 1, k) \in Seq(Msg)
      BY <2>1 DEF InboxOK, Ends
    <3>3. InboxOK'
      BY <2>1, <3>1, <3>2 DEF InboxOK
    <3> QED
      BY <2>1, <2>20, <3>3 DEF LinkLost, Typed, TypeOK, HandOK
  <2>21. CASE UNCHANGED vars
    BY <2>21 DEF vars, Typed, TypeOK, HandOK
  <2>22. ASSUME NEW s \in Streams, NEW r \in {"push", "echo"}, FirstSendsCollide(s, r)
         PROVE  Typed'
    <3>1. pc' \in [Streams -> [Roles -> PCs]] /\ hand' \in [Streams -> [Roles -> Msg]]
      BY <2>22, MessageTypes DEF FirstSendsCollide, Typed, TypeOK, PCs
    <3>2. HandOK'
      BY <2>22 DEF FirstSendsCollide, Typed, TypeOK, HandOK
    <3> QED
      BY <2>22, <3>1, <3>2 DEF FirstSendsCollide, Typed, TypeOK
  <2> QED
    BY <2>2, <2>3, <2>4, <2>5, <2>6, <2>7, <2>8, <2>9, <2>10, <2>11, <2>12, <2>13,
       <2>14, <2>15, <2>16, <2>17, <2>18, <2>19, <2>20, <2>21, <2>22
       DEF Next, MainStep, StreamStep
<1> QED
  BY <1>1, <1>2, PTL DEF Spec

\* The type invariant of Chat, for every value of its constants.
THEOREM TypeCorrect == Spec => []TypeOK
BY TypedAlways, PTL DEF Typed

-----------------------------------------------------------------------------
(***************************************************************************)
(* The errCh protocol.  What main and Chat took out of an errCh plus what  *)
(* is still in it is what the goroutines put there.  The client's put      *)
(* something there only once their end of the stream is dead; the server's *)
(* put nil there only then.                                                *)
(***************************************************************************)

Reported(s, r) == IF pc[s][r] = "done" THEN 1 ELSE 0

TakenByMain(s) == IF s < cur \/ (s = cur /\ main # "chat") THEN 1 ELSE 0
TakenByChat(s) == IF handler[s] = "returned" THEN 1 ELSE 0

Unborn(s) ==
  /\ s > cur => /\ handler[s] = "off"
                /\ \A e \in Ends : ~open[s][e]
                /\ pc[s]["hello"] = "off" /\ pc[s]["recv"] = "off"
                /\ ~ctxDone[s]
  /\ handler[s] = "off" => pc[s]["push"] = "off" /\ pc[s]["echo"] = "off"

DeadWhenEnding(s) ==
  /\ ctxDone[s] => ~open[s]["client"]
  /\ \A r \in {"hello", "recv"} : pc[s][r] \in {"nil", "err", "done"} => ~open[s]["client"]
  /\ \A r \in {"push", "echo"} : pc[s][r] = "nil" => ~open[s]["server"]
  /\ open[s]["server"] =>
       \A i \in 1..Len(errCh[s]["server"]) : errCh[s]["server"][i] = "err"

Accounts(s) ==
  /\ Len(errCh[s]["client"]) + TakenByMain(s) = Reported(s, "hello") + Reported(s, "recv")
  /\ Len(errCh[s]["server"]) + TakenByChat(s) = Reported(s, "push") + Reported(s, "echo")

Protocol == \A s \in Streams : Unborn(s) /\ DeadWhenEnding(s) /\ Accounts(s)

\* The parts of TypeOK the protocol rests on.
LEMMA ProtocolTypes ==
  ASSUME Typed
  PROVE  /\ cur \in 0..MaxStream /\ MaxStream \in Nat
         /\ main = "chat" => cur \in Streams
         /\ pc \in [Streams -> [Roles -> PCs]]
         /\ handler \in [Streams -> {"off", "wait", "returned"}]
         /\ errCh \in [Streams -> [Ends -> Seq({"nil", "err"})]]
         /\ open \in [Streams -> [Ends -> BOOLEAN]]
         /\ ctxDone \in [Streams -> BOOLEAN]
BY ChatAssumption DEF Typed, TypeOK, Streams

\* errCh loses its head by a receive and grows by a send.
LEMMA ErrChLengths ==
  ASSUME Typed, NEW s \in Streams, NEW e \in Ends
  PROVE  /\ Len(errCh[s][e]) \in Nat
         /\ errCh[s][e] # << >> => /\ Len(errCh[s][e]) > 0
                                   /\ Len(Tail(errCh[s][e])) = Len(errCh[s][e]) - 1
         /\ \A x : Len(Append(errCh[s][e], x)) = Len(errCh[s][e]) + 1
<1>1. errCh[s][e] \in Seq({"nil", "err"})
  BY ProtocolTypes
<1> QED
  BY <1>1

THEOREM ProtocolAlways == Spec => []Protocol
<1>1. Init => Protocol
  BY DEF Init, Protocol, Unborn, DeadWhenEnding, Accounts, TakenByMain, TakenByChat, Reported,
         Streams, Ends, Roles, Side
<1>2. Typed /\ Protocol /\ [Next]_vars => Protocol'
  <2> SUFFICES ASSUME Typed, Protocol, [Next]_vars, NEW t \in Streams
               PROVE  Unborn(t)' /\ DeadWhenEnding(t)' /\ Accounts(t)'
    BY DEF Protocol
  <2> USE Sides, ProtocolTypes, ErrChLengths
  <2>1. Unborn(t) /\ DeadWhenEnding(t) /\ Accounts(t)
    BY DEF Protocol
  <2> DEFINE Goal == Unborn(t)' /\ DeadWhenEnding(t)' /\ Accounts(t)'
  <2> USE DEF Unborn, DeadWhenEnding, Accounts, TakenByMain, TakenByChat, Reported
  <2>2. CASE OpenStream
    <3> DEFINE n == cur + 1
    <3>1. n \in Streams /\ n > cur /\ n \in Nat
      BY <2>2 DEF OpenStream, Streams
    <3>2. Unborn(n) /\ DeadWhenEnding(n) /\ Accounts(n)
      BY <3>1 DEF Protocol
    <3>3. /\ main = "dial" /\ main' = "chat" /\ cur' = n /\ ctxDone' = ctxDone
          /\ pc' = [pc EXCEPT ![n]["hello"] = "select", ![n]["recv"] = "recv"]
          /\ open' = [open EXCEPT ![n] = [e \in Ends |-> TRUE]]
          /\ handler' = handler /\ errCh' = errCh
      BY <2>2 DEF OpenStream
    <3>4. cur \in Nat /\ t \in Nat /\ n = cur + 1
      BY DEF Streams
    <3> HIDE DEF n
    <3>5. CASE t = n
      <4>1. /\ pc'[t]["hello"] = "select" /\ pc'[t]["recv"] = "recv"
            /\ pc'[t]["push"] = "off" /\ pc'[t]["echo"] = "off"
        BY <3>1, <3>2, <3>3, <3>5 DEF Roles
      <4>2. Unborn(t)'
        BY <3>1, <3>2, <3>3, <3>5, <4>1
      <4>3. DeadWhenEnding(t)'
        BY <3>1, <3>2, <3>3, <3>5, <4>1 DEF Roles
      <4>4. TakenByMain(t)' = 0 /\ TakenByMain(t) = 0 /\ TakenByChat(t)' = TakenByChat(t)
        BY <3>1, <3>3, <3>4, <3>5
      <4>5. \A r \in Roles : Reported(t, r)' = Reported(t, r)
        BY <3>1, <3>2, <3>4, <3>5, <4>1 DEF Roles
      <4>6. Accounts(t)'
        <5>1. Accounts(t) /\ errCh' = errCh
          BY <2>1, <3>3
        <5> HIDE DEF TakenByMain, TakenByChat, Reported, Unborn, DeadWhenEnding
        <5> QED
          BY <4>4, <4>5, <5>1
      <4> QED
        BY <4>2, <4>3, <4>6
    <3>6. CASE t # n
      <4>1. pc'[t] = pc[t] /\ open'[t] = open[t]
        BY <3>1, <3>3, <3>6
      <4>2. Unborn(t)'
        BY <2>1, <3>3, <3>4, <3>6, <4>1
      <4>3. DeadWhenEnding(t)'
        BY <2>1, <3>3, <3>4, <3>6, <4>1
      <4>4. TakenByMain(t)' = TakenByMain(t)
        BY <2>1, <3>3, <3>4, <3>6, <4>1
      <4>5. TakenByChat(t)' = TakenByChat(t)
        BY <2>1, <3>3, <3>4, <3>6, <4>1
      <4>6. Accounts(t)'
        BY <2>1, <3>3, <4>1, <4>4, <4>5
      <4> QED
        BY <4>2, <4>3, <4>6
    <3> QED
      BY <3>5, <3>6
  <2>3. CASE DialFails
    BY <2>1, <2>3 DEF DialFails
  <2>4. CASE WakeUp
    BY <2>1, <2>4 DEF WakeUp
  <2>5. CASE ChatLoopReturns
    <3>1. /\ cur \in Streams
          /\ Len(Tail(errCh[cur]["client"])) = Len(errCh[cur]["client"]) - 1
          /\ Len(errCh[cur]["client"]) \in Nat
      BY <2>5, ErrChLengths DEF ChatLoopReturns
    <3>2. main = "chat" /\ main' # "chat" /\ main' # "dial"
      BY <2>5 DEF ChatLoopReturns
    <3>3. Unborn(t)' /\ DeadWhenEnding(t)'
      BY <2>1, <2>5 DEF ChatLoopReturns
    <3>4. /\ errCh'[cur]["client"] = Tail(errCh[cur]["client"])
          /\ \A e \in Ends : (t # cur \/ e # "client") => errCh'[t][e] = errCh[t][e]
          /\ pc' = pc /\ handler' = handler /\ cur' = cur
      BY <2>5, <3>1 DEF ChatLoopReturns
    <3>5. Accounts(t)'
      <4>1. /\ TakenByChat(t)' = TakenByChat(t)
            /\ \A r \in Roles : Reported(t, r)' = Reported(t, r)
        BY <3>4
      <4>2. CASE t = cur
        <5>1. TakenByMain(t) = 0 /\ TakenByMain(t)' = 1
          BY <3>2, <3>4, <4>2 DEF Streams
        <5>2. /\ Len(errCh'[t]["client"]) = Len(errCh[t]["client"]) - 1
              /\ Len(errCh[t]["client"]) \in Nat
              /\ errCh'[t]["server"] = errCh[t]["server"]
          BY <3>1, <3>4, <4>2
        <5>3. /\ \A r \in Roles : Reported(t, r) \in Nat
              /\ TakenByMain(t) \in Nat /\ TakenByChat(t) \in Nat
              /\ \A e \in Ends : Len(errCh[t][e]) \in Nat
          OBVIOUS
        <5>4. Accounts(t)
          BY <2>1
        <5> HIDE DEF TakenByMain, TakenByChat, Reported, Unborn, DeadWhenEnding
        <5> QED
          BY <4>1, <5>1, <5>2, <5>3, <5>4
      <4>3. CASE t # cur
        <5>1. TakenByMain(t) = TakenByMain(t)'
          BY <3>4, <4>3
        <5>2. \A e \in Ends : errCh'[t][e] = errCh[t][e]
          BY <3>4, <4>3
        <5>3. /\ \A r \in Roles : Reported(t, r) \in Nat
              /\ TakenByMain(t) \in Nat /\ TakenByChat(t) \in Nat
              /\ \A e \in Ends : Len(errCh[t][e]) \in Nat
          OBVIOUS
        <5>4. Accounts(t)
          BY <2>1
        <5> HIDE DEF TakenByMain, TakenByChat, Reported, Unborn, DeadWhenEnding
        <5> QED
          BY <4>1, <5>1, <5>2, <5>3, <5>4
      <4> QED
        BY <4>2, <4>3
    <3> QED
      BY <3>3, <3>5
  <2>6. ASSUME NEW s \in Streams, NEW r \in Roles, SendOK(s, r) PROVE Goal
    <3>1. Unborn(t)'
      BY <2>1, <2>6 DEF SendOK
    <3>2. DeadWhenEnding(t)'
      BY <2>1, <2>6 DEF SendOK
    <3>3. Accounts(t)'
      BY <2>1, <2>6 DEF SendOK
    <3> QED
      BY <3>1, <3>2, <3>3
  <2>7. ASSUME NEW s \in Streams, NEW r \in Roles, SendFails(s, r) PROVE Goal
    <3>1. Unborn(t)'
      BY <2>1, <2>7 DEF SendFails
    <3>2. DeadWhenEnding(t)'
      BY <2>1, <2>7 DEF SendFails
    <3>3. Accounts(t)'
      BY <2>1, <2>7 DEF SendFails
    <3> QED
      BY <3>1, <3>2, <3>3
  <2>8. ASSUME NEW s \in Streams, NEW r \in Roles, Report(s, r) PROVE Goal
    <3>1. Len(Append(errCh[s][Side(r)], pc[s][r])) = Len(errCh[s][Side(r)]) + 1
      BY ErrChLengths
    <3>2. Len(errCh[s][Side(r)]) \in Nat
      BY ErrChLengths
    <3>3. Unborn(t)' /\ DeadWhenEnding(t)'
      <4>1. Unborn(t)'
        BY <2>1, <2>8 DEF Report
      <4>2. ctxDone' = ctxDone /\ open' = open
        BY <2>8 DEF Report
      <4>3. /\ \A q \in {"hello", "recv"} :
                 pc'[t][q] \in {"nil", "err", "done"} => ~open[t]["client"]
            /\ \A q \in {"push", "echo"} : pc'[t][q] = "nil" => ~open[t]["server"]
        BY <2>1, <2>8 DEF Report
      <4>4. ASSUME open[t]["server"]
            PROVE  \A i \in 1..Len(errCh'[t]["server"]) : errCh'[t]["server"][i] = "err"
        <5>1. CASE errCh'[t]["server"] = errCh[t]["server"]
          BY <2>1, <4>4, <5>1
        <5>2. CASE errCh'[t]["server"] # errCh[t]["server"]
          <6>1. t = s /\ Side(r) = "server"
            BY <2>8, <5>2 DEF Report
          <6>2. pc[s][r] = "err"
            BY <2>1, <2>8, <4>4, <6>1 DEF Report, Roles
          <6>3. /\ errCh'[t]["server"] = Append(errCh[t]["server"], "err")
                /\ errCh[t]["server"] \in Seq({"nil", "err"})
            BY <2>8, <6>1, <6>2 DEF Report
          <6>4. \A i \in 1..Len(errCh[t]["server"]) : errCh[t]["server"][i] = "err"
            BY <2>1, <4>4
          <6> QED
            BY <6>3, <6>4
        <5> QED
          BY <5>1, <5>2
      <4>5. DeadWhenEnding(t)'
        BY <2>1, <4>2, <4>3, <4>4
      <4> QED
        BY <4>1, <4>5
    <3>4. /\ errCh'[s][Side(r)] = Append(errCh[s][Side(r)], pc[s][r])
          /\ \A e \in Ends : (t # s \/ e # Side(r)) => errCh'[t][e] = errCh[t][e]
      BY <2>8 DEF Report
    <3>5. /\ pc[s][r] # "done" /\ pc'[s][r] = "done"
          /\ \A q \in Roles : (t # s \/ q # r) => pc'[t][q] = pc[t][q]
          /\ handler' = handler /\ cur' = cur /\ main' = main
      BY <2>8 DEF Report
    <3>6. Accounts(t)'
      <4>1. CASE t = s
        <5>1. /\ Len(errCh'[t][Side(r)]) = Len(errCh[t][Side(r)]) + 1
              /\ \A e \in Ends : e # Side(r) => errCh'[t][e] = errCh[t][e]
          BY <3>1, <3>4, <4>1
        <5>2. /\ Reported(t, r) = 0 /\ Reported(t, r)' = 1
              /\ \A q \in Roles : q # r => Reported(t, q)' = Reported(t, q)
          BY <3>5, <4>1
        <5>3. TakenByMain(t)' = TakenByMain(t) /\ TakenByChat(t)' = TakenByChat(t)
          BY <3>5
        <5>4. /\ TakenByMain(t) \in Nat /\ TakenByChat(t) \in Nat
              /\ \A q \in Roles : Reported(t, q) \in Nat
              /\ \A e \in Ends : Len(errCh[t][e]) \in Nat
          OBVIOUS
        <5>5. Accounts(t)
          BY <2>1
        <5> HIDE DEF TakenByMain, TakenByChat, Reported, Unborn, DeadWhenEnding
        <5>6. CASE r = "hello"
          <6>1. /\ Len(errCh'[t]["client"]) = Len(errCh[t]["client"]) + 1
                /\ errCh'[t]["server"] = errCh[t]["server"]
            BY <5>1, <5>6
          <6>2. /\ Reported(t, "hello") = 0 /\ Reported(t, "hello")' = 1
                /\ Reported(t, "recv")' = Reported(t, "recv")
            BY <5>2, <5>6
          <6>3. \A q \in Roles : Side(q) = "server" => Reported(t, q)' = Reported(t, q)
            BY <5>2, <5>6
          <6> QED
            BY <5>3, <5>4, <5>5, <6>1, <6>2, <6>3
        <5>7. CASE r = "recv"
          <6>1. /\ Len(errCh'[t]["client"]) = Len(errCh[t]["client"]) + 1
                /\ errCh'[t]["server"] = errCh[t]["server"]
            BY <5>1, <5>7
          <6>2. /\ Reported(t, "recv") = 0 /\ Reported(t, "recv")' = 1
                /\ Reported(t, "hello")' = Reported(t, "hello")
            BY <5>2, <5>7
          <6>3. \A q \in Roles : Side(q) = "server" => Reported(t, q)' = Reported(t, q)
            BY <5>2, <5>7
          <6> QED
            BY <5>3, <5>4, <5>5, <6>1, <6>2, <6>3
        <5>8. CASE r = "push"
          <6>1. /\ Len(errCh'[t]["server"]) = Len(errCh[t]["server"]) + 1
                /\ errCh'[t]["client"] = errCh[t]["client"]
            BY <5>1, <5>8
          <6>2. /\ Reported(t, "push") = 0 /\ Reported(t, "push")' = 1
                /\ Reported(t, "echo")' = Reported(t, "echo")
            BY <5>2, <5>8
          <6>3. \A q \in Roles : Side(q) = "client" => Reported(t, q)' = Reported(t, q)
            BY <5>2, <5>8
          <6> QED
            BY <5>3, <5>4, <5>5, <6>1, <6>2, <6>3
        <5>9. CASE r = "echo"
          <6>1. /\ Len(errCh'[t]["server"]) = Len(errCh[t]["server"]) + 1
                /\ errCh'[t]["client"] = errCh[t]["client"]
            BY <5>1, <5>9
          <6>2. /\ Reported(t, "echo") = 0 /\ Reported(t, "echo")' = 1
                /\ Reported(t, "push")' = Reported(t, "push")
            BY <5>2, <5>9
          <6>3. \A q \in Roles : Side(q) = "client" => Reported(t, q)' = Reported(t, q)
            BY <5>2, <5>9
          <6> QED
            BY <5>3, <5>4, <5>5, <6>1, <6>2, <6>3
        <5> QED
          BY <5>6, <5>7, <5>8, <5>9 DEF Roles
      <4>2. CASE t # s
        BY <2>1, <3>4, <3>5, <4>2
      <4> QED
        BY <4>1, <4>2
    <3> QED
      BY <3>3, <3>6
  <2>9. ASSUME NEW s \in Streams, NEW r \in Tickers, Tick(s, r) PROVE Goal
    <3>1. /\ pc' = [pc EXCEPT ![s][r] = "send"] /\ pc[s][r] = "select"
          /\ handler' = handler /\ cur' = cur /\ main' = main /\ errCh' = errCh
          /\ open' = open /\ ctxDone' = ctxDone
      BY <2>9 DEF Tick
    <3>2. r \in Roles
      BY DEF Tickers, Roles
    <3>3. Unborn(t)'
      BY <2>1, <3>1, <3>2
    <3>4. DeadWhenEnding(t)'
      BY <2>1, <3>1, <3>2
    <3>5. Accounts(t)'
      <4>1. \A q \in Roles : Reported(t, q)' = Reported(t, q)
        BY <2>1, <3>1, <3>2
      <4>2. TakenByMain(t)' = TakenByMain(t) /\ TakenByChat(t)' = TakenByChat(t)
        BY <3>1
      <4> QED
        BY <2>1, <3>1, <4>1, <4>2
    <3> QED
      BY <3>3, <3>4, <3>5
  <2>10. ASSUME NEW s \in Streams, HelloCtxDone(s) PROVE Goal
    <3>1. Unborn(t)'
      BY <2>1, <2>10 DEF HelloCtxDone, Cancelled
    <3>2. DeadWhenEnding(t)'
      BY <2>1, <2>10 DEF HelloCtxDone, Cancelled
    <3>3. Accounts(t)'
      BY <2>1, <2>10 DEF HelloCtxDone, Cancelled
    <3> QED
      BY <3>1, <3>2, <3>3
  <2>11. ASSUME NEW s \in Streams, ClientRecv(s) PROVE Goal
    <3>1. pc' = pc \/ pc' = [pc EXCEPT ![s]["recv"] = "send"]
      BY <2>11 DEF ClientRecv
    <3>2. /\ handler' = handler /\ cur' = cur /\ main' = main /\ errCh' = errCh
          /\ open' = open /\ ctxDone' = ctxDone /\ pc[s]["recv"] = "recv"
      BY <2>11 DEF ClientRecv
    <3>3. CASE pc' = pc
      BY <2>1, <3>2, <3>3
    <3>4. CASE pc' = [pc EXCEPT ![s]["recv"] = "send"]
      <4>1. Unborn(t)'
        BY <2>1, <3>2, <3>4
      <4>2. DeadWhenEnding(t)'
        BY <2>1, <3>2, <3>4
      <4>3. Accounts(t)'
        BY <2>1, <3>2, <3>4
      <4> QED
        BY <4>1, <4>2, <4>3
    <3> QED
      BY <3>1, <3>3, <3>4
  <2>12. ASSUME NEW s \in Streams, ClientRecvEnd(s) PROVE Goal
    <3>1. Unborn(t)'
      BY <2>1, <2>12 DEF ClientRecvEnd, Outcome
    <3>2. DeadWhenEnding(t)'
      BY <2>1, <2>12 DEF ClientRecvEnd, Outcome
    <3>3. Accounts(t)'
      BY <2>1, <2>12 DEF ClientRecvEnd, Outcome
    <3> QED
      BY <3>1, <3>2, <3>3
  <2>13. ASSUME NEW s \in Streams, HandlerStarts(s) PROVE Goal
    <3>1. Unborn(t)'
      BY <2>1, <2>13 DEF HandlerStarts
    <3>2. DeadWhenEnding(t)'
      BY <2>1, <2>13 DEF HandlerStarts
    <3>3. Accounts(t)'
      BY <2>1, <2>13 DEF HandlerStarts
    <3> QED
      BY <3>1, <3>2, <3>3
  <2>14. ASSUME NEW s \in Streams, PushCtxDone(s) PROVE Goal
    <3>1. Unborn(t)'
      BY <2>1, <2>14 DEF PushCtxDone, Cancelled
    <3>2. DeadWhenEnding(t)'
      BY <2>1, <2>14 DEF PushCtxDone, Cancelled
    <3>3. Accounts(t)'
      BY <2>1, <2>14 DEF PushCtxDone, Cancelled
    <3> QED
      BY <3>1, <3>2, <3>3
  <2>15. ASSUME NEW s \in Streams, ServerRecv(s) PROVE Goal
    <3>1. Unborn(t)'
      BY <2>1, <2>15 DEF ServerRecv
    <3>2. DeadWhenEnding(t)'
      BY <2>1, <2>15 DEF ServerRecv
    <3>3. Accounts(t)'
      BY <2>1, <2>15 DEF ServerRecv
    <3> QED
      BY <3>1, <3>2, <3>3
  <2>16. ASSUME NEW s \in Streams, ServerRecvFails(s) PROVE Goal
    <3>1. Unborn(t)'
      BY <2>1, <2>16 DEF ServerRecvFails, Cancelled
    <3>2. DeadWhenEnding(t)'
      BY <2>1, <2>16 DEF ServerRecvFails, Cancelled
    <3>3. Accounts(t)'
      BY <2>1, <2>16 DEF ServerRecvFails, Cancelled
    <3> QED
      BY <3>1, <3>2, <3>3
  <2>17. ASSUME NEW s \in Streams, HandlerReturns(s) PROVE Goal
    <3>1. /\ Len(Tail(errCh[s]["server"])) = Len(errCh[s]["server"]) - 1
          /\ Len(errCh[s]["server"]) \in Nat
      BY <2>17, ErrChLengths DEF HandlerReturns
    <3>2. Unborn(t)' /\ DeadWhenEnding(t)'
      BY <2>1, <2>17 DEF HandlerReturns
    <3>3. /\ errCh'[s]["server"] = Tail(errCh[s]["server"])
          /\ \A e \in Ends : (t # s \/ e # "server") => errCh'[t][e] = errCh[t][e]
          /\ handler[s] # "returned" /\ handler'[s] = "returned"
          /\ t # s => handler'[t] = handler[t]
          /\ pc' = pc /\ main' = main /\ cur' = cur
      BY <2>17 DEF HandlerReturns
    <3>4. Accounts(t)'
      <4>1. /\ TakenByMain(t)' = TakenByMain(t)
            /\ \A r \in Roles : Reported(t, r)' = Reported(t, r)
        BY <3>3
      <4>2. CASE t = s
        <5>1. TakenByChat(t) = 0 /\ TakenByChat(t)' = 1
          BY <3>3, <4>2
        <5>2. /\ Len(errCh'[t]["server"]) = Len(errCh[t]["server"]) - 1
              /\ Len(errCh[t]["server"]) \in Nat
              /\ errCh'[t]["client"] = errCh[t]["client"]
          BY <3>1, <3>3, <4>2
        <5>3. /\ \A r \in Roles : Reported(t, r) \in Nat
              /\ TakenByMain(t) \in Nat /\ TakenByChat(t) \in Nat
              /\ \A e \in Ends : Len(errCh[t][e]) \in Nat
          OBVIOUS
        <5>4. Accounts(t)
          BY <2>1
        <5> HIDE DEF TakenByMain, TakenByChat, Reported, Unborn, DeadWhenEnding
        <5> QED
          BY <4>1, <5>1, <5>2, <5>3, <5>4
      <4>3. CASE t # s
        <5>1. TakenByChat(t) = TakenByChat(t)'
          BY <3>3, <4>3
        <5>2. \A e \in Ends : errCh'[t][e] = errCh[t][e]
          BY <3>3, <4>3
        <5>3. /\ \A r \in Roles : Reported(t, r) \in Nat
              /\ TakenByMain(t) \in Nat /\ TakenByChat(t) \in Nat
              /\ \A e \in Ends : Len(errCh[t][e]) \in Nat
          OBVIOUS
        <5>4. Accounts(t)
          BY <2>1
        <5> HIDE DEF TakenByMain, TakenByChat, Reported, Unborn, DeadWhenEnding
        <5> QED
          BY <4>1, <5>1, <5>2, <5>3, <5>4
      <4> QED
        BY <4>2, <4>3
    <3> QED
      BY <3>2, <3>4
  <2>18. ASSUME NEW s \in Streams, ServerNotices(s) PROVE Goal
    <3>1. Unborn(t)'
      BY <2>1, <2>18 DEF ServerNotices
    <3>2. DeadWhenEnding(t)'
      BY <2>1, <2>18 DEF ServerNotices
    <3>3. Accounts(t)'
      BY <2>1, <2>18 DEF ServerNotices
    <3> QED
      BY <3>1, <3>2, <3>3
  <2>19. ASSUME NEW s \in Streams, ClientNotices(s) PROVE Goal
    <3>1. Unborn(t)'
      BY <2>1, <2>19 DEF ClientNotices
    <3>2. DeadWhenEnding(t)'
      BY <2>1, <2>19 DEF ClientNotices
    <3>3. Accounts(t)'
      BY <2>1, <2>19 DEF ClientNotices
    <3> QED
      BY <3>1, <3>2, <3>3
  <2>20. ASSUME NEW s \in Streams, LinkLost(s) PROVE Goal
    <3>1. Unborn(t)'
      BY <2>1, <2>20 DEF LinkLost
    <3>2. DeadWhenEnding(t)'
      BY <2>1, <2>20 DEF LinkLost
    <3>3. Accounts(t)'
      BY <2>1, <2>20 DEF LinkLost
    <3> QED
      BY <3>1, <3>2, <3>3
  <2>21. CASE UNCHANGED vars
    BY <2>1, <2>21 DEF vars
  <2>22. ASSUME NEW s \in Streams, NEW r \in {"push", "echo"}, FirstSendsCollide(s, r)
         PROVE  Goal
    <3>1. Unborn(t)'
      BY <2>1, <2>22 DEF FirstSendsCollide
    <3>2. DeadWhenEnding(t)'
      BY <2>1, <2>22 DEF FirstSendsCollide
    <3>3. Accounts(t)'
      BY <2>1, <2>22 DEF FirstSendsCollide
    <3> QED
      BY <3>1, <3>2, <3>3
  <2> QED
    BY <2>2, <2>3, <2>4, <2>5, <2>6, <2>7, <2>8, <2>9, <2>10, <2>11, <2>12, <2>13,
       <2>14, <2>15, <2>16, <2>17, <2>18, <2>19, <2>20, <2>21, <2>22
       DEF Next, MainStep, StreamStep
<1> QED
  BY <1>1, <1>2, TypedAlways, PTL DEF Spec

-----------------------------------------------------------------------------
(* What the protocol gives. *)

LEMMA CounterTypes ==
  ASSUME NEW s
  PROVE  /\ \A r \in Roles : Reported(s, r) \in {0, 1}
         /\ TakenByMain(s) \in {0, 1} /\ TakenByChat(s) \in {0, 1}
BY DEF Reported, TakenByMain, TakenByChat

\* A value in the client's errCh, or one already taken from it, was put there by a
\* goroutine that found the stream dead; and so was a nil in the server's.
LEMMA TakenMeansDead ==
  ASSUME Typed, Protocol, NEW s \in Streams
  PROVE  /\ errCh[s]["server"] # << >> /\ open[s]["server"] => Head(errCh[s]["server"]) = "err"
         /\ errCh[s]["client"] # << >> => ~open[s]["client"]
         /\ TakenByMain(s) = 1 => ~open[s]["client"]
<1> USE Sides
<1>1. Accounts(s) /\ DeadWhenEnding(s)
  BY DEF Protocol
<1>2. ASSUME NEW r \in {"hello", "recv"}, Reported(s, r) = 1 PROVE ~open[s]["client"]
  BY <1>1, <1>2 DEF DeadWhenEnding, Reported
<1>3. \A e \in Ends : /\ Len(errCh[s][e]) \in Nat
                      /\ errCh[s][e] # << >> => Len(errCh[s][e]) > 0
  BY ErrChLengths
<1>4. ASSUME errCh[s]["server"] # << >>, open[s]["server"]
      PROVE  Head(errCh[s]["server"]) = "err"
  <2>1. errCh[s]["server"] \in Seq({"nil", "err"}) /\ 1 \in 1..Len(errCh[s]["server"])
    BY <1>3, <1>4, ProtocolTypes
  <2>2. errCh[s]["server"][1] = "err"
    BY <1>1, <1>4, <2>1 DEF DeadWhenEnding
  <2> QED
    BY <2>1, <2>2
<1>5. \/ errCh[s]["client"] = << >> /\ TakenByMain(s) = 0
      \/ Reported(s, "hello") = 1 \/ Reported(s, "recv") = 1
  BY <1>1, <1>3, CounterTypes DEF Accounts
<1>6. errCh[s]["client"] # << >> \/ TakenByMain(s) = 1 => ~open[s]["client"]
  BY <1>2, <1>5
<1> QED
  BY <1>4, <1>6

\* server.go:25 and client.go:67 make errCh with room for two: that is enough for
\* a goroutine never to wait there.
THEOREM NobodyWaitsOnErrCh == Spec => []ErrChNeverBlocks
<1>1. Typed /\ Protocol => ErrChNeverBlocks
  <2> SUFFICES ASSUME Typed, Protocol, NEW s \in Streams, NEW r \in Roles,
                      pc[s][r] \in {"nil", "err"}
               PROVE  Len(errCh[s][Side(r)]) < 2
    BY DEF ErrChNeverBlocks, ErrChCap
  <2>1. Accounts(s)
    BY DEF Protocol
  <2>2. Reported(s, r) = 0
    BY DEF Reported
  <2>3. \A e \in Ends : Len(errCh[s][e]) \in Nat
    BY ErrChLengths
  <2> QED
    BY <2>1, <2>2, <2>3, Sides, CounterTypes DEF Accounts, Roles
<1> QED
  BY <1>1, TypedAlways, ProtocolAlways, PTL

\* Chat (server.go:32) returns nil only once its stream is dead.
THEOREM NilEndsDead == Spec => []NilEndsDeadStreams
<1>1. Typed /\ Protocol => NilEndsDeadStreams
  BY TakenMeansDead DEF NilEndsDeadStreams
<1> QED
  BY <1>1, TypedAlways, ProtocolAlways, PTL

\* The client's main loop (client.go:48-62, client1.go:49-77) never leaves a live
\* stream.
THEOREM LoopLeavesDead == Spec => []LeavesOnlyDeadStreams
<1>1. Typed /\ Protocol => LeavesOnlyDeadStreams
  <2> SUFFICES ASSUME Typed, Protocol, NEW s \in Streams,
                      s < cur \/ (s = cur /\ main # "chat")
               PROVE  ~open[s]["client"]
    BY DEF LeavesOnlyDeadStreams
  <2>1. TakenByMain(s) = 1
    BY DEF TakenByMain
  <2> QED
    BY <2>1, TakenMeansDead
<1> QED
  BY <1>1, TypedAlways, ProtocolAlways, PTL

-----------------------------------------------------------------------------
(***************************************************************************)
(* client1.go never leaves its loop.  Its goroutines report nil only for   *)
(* io.EOF, and io.EOF takes a handler that returns on a live stream.       *)
(***************************************************************************)

NeverNil ==
  /\ main # "exited"
  /\ \A s \in Streams :
       /\ pc[s]["hello"] # "nil" /\ pc[s]["recv"] # "nil"
       /\ \A i \in 1..Len(errCh[s]["client"]) : errCh[s]["client"][i] = "err"
       /\ \A i \in 1..Len(inbox[s]["client"]) : inbox[s]["client"][i].kind # "eof"

\* With ~WatchesCtx the client restarts the chat for ever, whatever happens to its
\* streams.
THEOREM Client1KeepsRestarting == ASSUME ~WatchesCtx PROVE Spec => []ClientKeepsRestarting
<1>1. Init => NeverNil
  BY DEF Init, NeverNil, Streams, Ends, Roles
<1>2. Typed /\ Protocol /\ NeverNil /\ [Next]_vars => NeverNil'
  <2> SUFFICES ASSUME Typed, Protocol, NeverNil, [Next]_vars PROVE NeverNil'
    OBVIOUS
  <2> USE Sides DEF NeverNil
  <2>1. /\ errCh \in [Streams -> [Ends -> Seq({"nil", "err"})]]
        /\ inbox \in [Streams -> [Ends -> Seq(Msg)]]
        /\ pc \in [Streams -> [Roles -> PCs]]
        /\ hand \in [Streams -> [Roles -> Msg]]
    BY DEF Typed, TypeOK
  <2>2. CASE OpenStream
    BY <2>1, <2>2 DEF OpenStream
  <2>3. CASE DialFails
    BY <2>3 DEF DialFails
  <2>4. CASE WakeUp
    BY <2>4 DEF WakeUp
  <2>5. CASE ChatLoopReturns
    <3> DEFINE q == errCh[cur]["client"]
    <3>1. cur \in Streams /\ q \in Seq({"nil", "err"}) /\ q # << >>
      BY <2>1, <2>5, ProtocolTypes DEF ChatLoopReturns
    <3>2. Head(q) = "err" /\ \A i \in 1..Len(Tail(q)) : Tail(q)[i] = "err"
      BY <3>1, HeadTailProperties
    <3>3. errCh' = [errCh EXCEPT ![cur]["client"] = Tail(q)] /\ main' = "sleep"
      BY <2>5, <3>2 DEF ChatLoopReturns
    <3>4. pc' = pc /\ inbox' = inbox
      BY <2>5 DEF ChatLoopReturns
    <3> HIDE DEF q
    <3> QED
      BY <2>1, <3>1, <3>2, <3>3, <3>4
  <2>6. ASSUME NEW s \in Streams, NEW r \in Roles, SendOK(s, r) PROVE NeverNil'
    <3>1. hand[s][r].kind # "eof"
      BY <2>6 DEF SendOK, Typed, HandOK, EndMarks
    <3>2. main' = main /\ errCh' = errCh
      BY <2>6 DEF SendOK
    <3>3. \A t \in Streams : pc'[t]["hello"] # "nil" /\ pc'[t]["recv"] # "nil"
      BY <2>1, <2>6 DEF SendOK
    <3>4. \/ inbox' = inbox
          \/ inbox' = [inbox EXCEPT ![s]["client"] = Append(@, hand[s][r])]
          \/ inbox' = [inbox EXCEPT ![s]["server"] = Append(@, hand[s][r])]
      BY <2>6 DEF SendOK, Peer
    <3>5. \A t \in Streams : \A i \in 1..Len(inbox'[t]["client"]) :
            inbox'[t]["client"][i].kind # "eof"
      <4>1. CASE inbox' = [inbox EXCEPT ![s]["client"] = Append(@, hand[s][r])]
        <5> DEFINE q == inbox[s]["client"]
        <5>1. q \in Seq(Msg)
          BY <2>1
        <5>2. \A i \in 1..Len(Append(q, hand[s][r])) : Append(q, hand[s][r])[i].kind # "eof"
          BY <3>1, <5>1
        <5> HIDE DEF q
        <5>3. inbox' = [inbox EXCEPT ![s]["client"] = Append(q, hand[s][r])]
          BY <4>1 DEF q
        <5> QED
          BY <2>1, <5>2, <5>3
      <4>2. CASE inbox' = [inbox EXCEPT ![s]["server"] = Append(@, hand[s][r])]
        BY <2>1, <4>2
      <4> QED
        BY <3>4, <4>1, <4>2
    <3> QED
      BY <3>2, <3>3, <3>5
  <2>7. ASSUME NEW s \in Streams, NEW r \in Roles, SendFails(s, r) PROVE NeverNil'
    BY <2>1, <2>7 DEF SendFails
  <2>8. ASSUME NEW s \in Streams, NEW r \in Roles, Report(s, r) PROVE NeverNil'
    <3>1. main' = main /\ inbox' = inbox
      BY <2>8 DEF Report
    <3>2. \A t \in Streams : pc'[t]["hello"] # "nil" /\ pc'[t]["recv"] # "nil"
      BY <2>1, <2>8 DEF Report
    <3>3. \A t \in Streams : \A i \in 1..Len(errCh'[t]["client"]) :
            errCh'[t]["client"][i] = "err"
      <4>1. errCh' = [errCh EXCEPT ![s][Side(r)] = Append(@, pc[s][r])]
        BY <2>8 DEF Report
      <4>2. CASE Side(r) = "client"
        <5>1. pc[s][r] = "err"
          BY <2>8, <4>2 DEF Report, Side, Roles
        <5> DEFINE q == errCh[s]["client"]
        <5>2. q \in Seq({"nil", "err"})
          BY <2>1
        <5>3. \A i \in 1..Len(q) : q[i] = "err"
          OBVIOUS
        <5> HIDE DEF q
        <5>4. \A i \in 1..Len(Append(q, "err")) : Append(q, "err")[i] = "err"
          BY <5>2, <5>3
        <5>5. errCh' = [errCh EXCEPT ![s]["client"] = Append(q, "err")]
          BY <4>1, <4>2, <5>1 DEF q
        <5> QED
          BY <2>1, <5>4, <5>5
      <4>3. CASE Side(r) = "server"
        <5>1. \A t \in Streams : errCh'[t]["client"] = errCh[t]["client"]
          BY <2>1, <4>1, <4>3
        <5> QED
          BY <5>1
      <4> QED
        BY <4>2, <4>3 DEF Side
    <3> QED
      BY <3>1, <3>2, <3>3
  <2>9. ASSUME NEW s \in Streams, NEW r \in Tickers, Tick(s, r) PROVE NeverNil'
    BY <2>1, <2>9 DEF Tick
  <2>10. ASSUME NEW s \in Streams, HelloCtxDone(s) PROVE NeverNil'
    BY <2>10 DEF HelloCtxDone
  <2>11. ASSUME NEW s \in Streams, ClientRecv(s) PROVE NeverNil'
    <3> DEFINE q == inbox[s]["client"]
    <3>1. q \in Seq(Msg) /\ q # << >>
      BY <2>1, <2>11 DEF ClientRecv
    <3>2. \A i \in 1..Len(Tail(q)) : Tail(q)[i].kind # "eof"
      BY <3>1, HeadTailProperties
    <3>3. main' = main /\ errCh' = errCh /\ inbox' = [inbox EXCEPT ![s]["client"] = Tail(q)]
      BY <2>11 DEF ClientRecv
    <3>4. \A t \in Streams : pc'[t]["hello"] # "nil" /\ pc'[t]["recv"] # "nil"
      <4>1. pc' = pc \/ pc' = [pc EXCEPT ![s]["recv"] = "send"]
        BY <2>11 DEF ClientRecv
      <4>2. CASE pc' = pc
        BY <4>2
      <4>3. CASE pc' = [pc EXCEPT ![s]["recv"] = "send"]
        BY <2>1, <4>3
      <4> QED
        BY <4>1, <4>2, <4>3
    <3> HIDE DEF q
    <3> QED
      BY <2>1, <3>2, <3>3, <3>4
  <2>12. ASSUME NEW s \in Streams, ClientRecvEnd(s) PROVE NeverNil'
    <3>1. inbox[s]["client"] \in Seq(Msg) /\ inbox[s]["client"] # << >>
      BY <2>1, <2>12 DEF ClientRecvEnd
    <3>2. Head(inbox[s]["client"]).kind # "eof"
      BY <3>1
    <3>3. pc' = [pc EXCEPT ![s]["recv"] = "err"]
      BY <2>12, <3>2 DEF ClientRecvEnd, Outcome
    <3>4. main' = main /\ errCh' = errCh /\ inbox' = inbox
      BY <2>12 DEF ClientRecvEnd
    <3> QED
      BY <2>1, <3>3, <3>4
  <2>13. ASSUME NEW s \in Streams, HandlerStarts(s) PROVE NeverNil'
    BY <2>1, <2>13 DEF HandlerStarts
  <2>14. ASSUME NEW s \in Streams, PushCtxDone(s) PROVE NeverNil'
    BY <2>1, <2>14 DEF PushCtxDone
  <2>15. ASSUME NEW s \in Streams, ServerRecv(s) PROVE NeverNil'
    BY <2>1, <2>15 DEF ServerRecv
  <2>16. ASSUME NEW s \in Streams, ServerRecvFails(s) PROVE NeverNil'
    BY <2>1, <2>16 DEF ServerRecvFails
  <2>17. ASSUME NEW s \in Streams, HandlerReturns(s) PROVE NeverNil'
    <3>1. main' = main /\ pc' = pc
      BY <2>17 DEF HandlerReturns
    <3>2. \A u \in Streams : errCh'[u]["client"] = errCh[u]["client"]
      BY <2>1, <2>17 DEF HandlerReturns
    <3>3. \A u \in Streams : \A i \in 1..Len(inbox'[u]["client"]) :
            inbox'[u]["client"][i].kind # "eof"
      <4>1. CASE inbox' = inbox
        BY <4>1
      <4>2. CASE inbox' # inbox
        <5> DEFINE q == inbox[s]["client"]
        <5>1. inbox' = [inbox EXCEPT ![s]["client"] = Append(q, End("err"))]
          BY <2>17, <4>2, TakenMeansDead DEF HandlerReturns, Delivers
        <5>2. q \in Seq(Msg) /\ End("err").kind # "eof" /\ End("err") \in Msg
          BY <2>1, MessageTypes DEF EndMarks
        <5>3. \A i \in 1..Len(q) : q[i].kind # "eof"
          OBVIOUS
        <5> HIDE DEF q
        <5>4. \A i \in 1..Len(Append(q, End("err"))) : Append(q, End("err"))[i].kind # "eof"
          BY <5>2, <5>3
        <5> QED
          BY <2>1, <5>1, <5>4
      <4> QED
        BY <4>1, <4>2
    <3> QED
      BY <3>1, <3>2, <3>3
  <2>18. ASSUME NEW s \in Streams, ServerNotices(s) PROVE NeverNil'
    BY <2>18 DEF ServerNotices
  <2>19. ASSUME NEW s \in Streams, ClientNotices(s) PROVE NeverNil'
    BY <2>1, <2>19, MessageTypes DEF ClientNotices, EndMarks
  <2>20. ASSUME NEW s \in Streams, LinkLost(s) PROVE NeverNil'
    BY <2>1, <2>20 DEF LinkLost
  <2>21. CASE UNCHANGED vars
    BY <2>21 DEF vars
  <2>22. ASSUME NEW s \in Streams, NEW r \in {"push", "echo"}, FirstSendsCollide(s, r)
         PROVE  NeverNil'
    BY <2>1, <2>22 DEF FirstSendsCollide
  <2> QED
    BY <2>2, <2>3, <2>4, <2>5, <2>6, <2>7, <2>8, <2>9, <2>10, <2>11, <2>12, <2>13,
       <2>14, <2>15, <2>16, <2>17, <2>18, <2>19, <2>20, <2>21, <2>22
       DEF Next, MainStep, StreamStep
<1> QED
  BY <1>1, <1>2, TypedAlways, ProtocolAlways, PTL DEF Spec, ClientKeepsRestarting, NeverNil

LEMMA MsgFields ==
  ASSUME NEW q \in Seq(Msg)
  PROVE  Len(q) \in Nat /\ \A i \in 1..Len(q) : q[i] \in Msg /\ q[i].n \in Nat
<1>1. Len(q) \in Nat /\ \A i \in 1..Len(q) : q[i] \in Msg
  OBVIOUS
<1>2. \A m \in Msg : m.n \in Nat
  BY DEF Msg
<1> QED
  BY <1>1, <1>2

LEMMA CarriesNone ==
  ASSUME NEW kind, NEW a \in Nat
  PROVE  Carries(<< >>, kind, a, a)
BY DEF Carries, Places

LEMMA CarriesOne ==
  ASSUME NEW m \in Msg, NEW kind, NEW a \in Nat
  PROVE  /\ m.kind = kind /\ m.n = a + 1 => Carries(<<m>>, kind, a, a + 1)
         /\ m.kind # kind => Carries(<<m>>, kind, a, a)
BY DEF Carries, Places, Msg

LEMMA CarriesNothing ==
  ASSUME NEW kind, NEW a \in Nat, NEW b \in Nat, Carries(<< >>, kind, a, b)
  PROVE  a = b
<1>1. Places(<< >>, kind) = {}
  BY DEF Places
<1>2. b \notin (a + 1)..b
  BY <1>1 DEF Carries
<1> QED
  BY <1>2 DEF Carries

LEMMA CarriesAtMostOne ==
  ASSUME NEW m \in Msg, NEW kind, NEW a \in Nat, NEW b \in Nat, Carries(<<m>>, kind, a, b)
  PROVE  /\ m.kind = kind => m.n = a + 1 /\ b = a + 1
         /\ m.kind # kind => a = b
<1>1. ASSUME m.kind = kind PROVE m.n = a + 1 /\ b = a + 1
  <2>1. Places(<<m>>, kind) = {1} /\ <<m>>[1] = m
    BY <1>1 DEF Places
  <2>2. (a + 1)..b = {m.n}
    BY <2>1 DEF Carries
  <2>3. m.n \in (a + 1)..b
    BY <2>2
  <2>4. a + 1 \in (a + 1)..b /\ b \in (a + 1)..b
    BY <2>3
  <2> QED
    BY <2>2, <2>4
<1>2. ASSUME m.kind # kind PROVE a = b
  <2>1. Places(<<m>>, kind) = {}
    BY <1>2 DEF Places
  <2>2. b \notin (a + 1)..b
    BY <2>1 DEF Carries
  <2> QED
    BY <2>2 DEF Carries
<1> QED
  BY <1>1, <1>2


\* Carries in first-order form, of the first l messages of q.
Numbered(q, l, kind, a, b) ==
  /\ a <= b
  /\ \A i \in 1..l : q[i].kind = kind => a < q[i].n /\ q[i].n <= b
  /\ \A n \in (a + 1)..b : \E i \in 1..l : q[i].kind = kind /\ q[i].n = n
  /\ \A i, j \in 1..l : q[i].kind = kind /\ q[j].kind = kind /\ i < j => q[i].n < q[j].n

LEMMA CarriesMeans ==
  ASSUME NEW q \in Seq(Msg), NEW kind, NEW a \in Nat, NEW b \in Nat
  PROVE  Carries(q, kind, a, b) <=> Numbered(q, Len(q), kind, a, b)
<1> DEFINE l == Len(q)
<1>1. l \in Nat /\ \A i \in 1..l : q[i].n \in Nat
  BY MsgFields
<1>2. \A i : i \in Places(q, kind) <=> i \in 1..l /\ q[i].kind = kind
  BY DEF Places
<1> HIDE DEF l
<1>3. {q[i].n : i \in Places(q, kind)} = (a + 1)..b <=>
        /\ \A i \in 1..l : q[i].kind = kind => a < q[i].n /\ q[i].n <= b
        /\ \A n \in (a + 1)..b : \E i \in 1..l : q[i].kind = kind /\ q[i].n = n
  <2>1. ASSUME {q[i].n : i \in Places(q, kind)} = (a + 1)..b
        PROVE  /\ \A i \in 1..l : q[i].kind = kind => a < q[i].n /\ q[i].n <= b
               /\ \A n \in (a + 1)..b : \E i \in 1..l : q[i].kind = kind /\ q[i].n = n
    <3>1. \A i \in 1..l : q[i].kind = kind => q[i].n \in (a + 1)..b
      BY <1>2, <2>1
    <3>2. \A n \in (a + 1)..b : \E i \in Places(q, kind) : q[i].n = n
      BY <2>1
    <3> QED
      BY <1>1, <1>2, <3>1, <3>2
  <2>2. ASSUME \A i \in 1..l : q[i].kind = kind => a < q[i].n /\ q[i].n <= b,
               \A n \in (a + 1)..b : \E i \in 1..l : q[i].kind = kind /\ q[i].n = n
        PROVE  {q[i].n : i \in Places(q, kind)} = (a + 1)..b
    <3>1. \A i \in Places(q, kind) : q[i].n \in (a + 1)..b
      BY <1>1, <1>2, <2>2
    <3>2. \A n \in (a + 1)..b : \E i \in Places(q, kind) : q[i].n = n
      BY <1>2, <2>2
    <3> QED
      BY <3>1, <3>2
  <2> QED
    BY <2>1, <2>2
<1> QED
  BY <1>2, <1>3 DEF Carries, Numbered, l

LEMMA NumberedAppend ==
  ASSUME NEW q, NEW p, NEW l \in Nat, NEW kind, NEW a \in Nat, NEW b \in Nat,
         Numbered(q, l, kind, a, b), \A i \in 1..l : q[i].n \in Nat /\ p[i] = q[i]
  PROVE  /\ p[l + 1].kind = kind /\ p[l + 1].n = b + 1 => Numbered(p, l + 1, kind, a, b + 1)
         /\ p[l + 1].kind # kind => Numbered(p, l + 1, kind, a, b)
<1>1. \A i \in 1..(l + 1) : i = l + 1 \/ (i \in 1..l /\ p[i] = q[i] /\ q[i].n \in Nat)
  OBVIOUS
<1>2. ASSUME p[l + 1].kind = kind, p[l + 1].n = b + 1 PROVE Numbered(p, l + 1, kind, a, b + 1)
  <2>1. \A i \in 1..(l + 1) : p[i].kind = kind => a < p[i].n /\ p[i].n <= b + 1
    BY <1>1, <1>2 DEF Numbered
  <2>2. ASSUME NEW n \in (a + 1)..(b + 1)
        PROVE  \E i \in 1..(l + 1) : p[i].kind = kind /\ p[i].n = n
    <3>1. CASE n = b + 1
      BY <1>2, <3>1
    <3>2. CASE n # b + 1
      <4>1. PICK i \in 1..l : q[i].kind = kind /\ q[i].n = n
        BY <3>2 DEF Numbered
      <4> QED BY <4>1
    <3> QED BY <3>1, <3>2
  <2>3. \A i, j \in 1..(l + 1) :
          p[i].kind = kind /\ p[j].kind = kind /\ i < j => p[i].n < p[j].n
    BY <1>1, <1>2 DEF Numbered
  <2> QED
    BY <2>1, <2>2, <2>3 DEF Numbered
<1>3. ASSUME p[l + 1].kind # kind PROVE Numbered(p, l + 1, kind, a, b)
  BY <1>1, <1>3 DEF Numbered
<1> QED
  BY <1>2, <1>3

LEMMA NumberedTail ==
  ASSUME NEW q, NEW p, NEW l \in Nat, NEW kind, NEW a \in Nat, NEW b \in Nat,
         Numbered(q, l + 1, kind, a, b),
         \A i \in 1..(l + 1) : q[i].n \in Nat, \A i \in 1..l : p[i] = q[i + 1]
  PROVE  /\ q[1].kind = kind =>
              q[1].n = a + 1 /\ a + 1 <= b /\ Numbered(p, l, kind, a + 1, b)
         /\ q[1].kind # kind => Numbered(p, l, kind, a, b)
<1>1. \A i \in 1..(l + 1) : i # 1 => i - 1 \in 1..l /\ q[i] = p[i - 1]
  OBVIOUS
<1>2. \A i \in 1..l : i + 1 \in 1..(l + 1) /\ p[i] = q[i + 1] /\ p[i].n \in Nat
  OBVIOUS
<1>3. \A i, j \in 1..l : p[i].kind = kind /\ p[j].kind = kind /\ i < j => p[i].n < p[j].n
  BY <1>2 DEF Numbered
<1>4. ASSUME q[1].kind = kind
      PROVE  q[1].n = a + 1 /\ a + 1 <= b /\ Numbered(p, l, kind, a + 1, b)
  <2>1. a < q[1].n /\ q[1].n <= b /\ a + 1 \in (a + 1)..b /\ 1 \in 1..(l + 1)
    BY <1>4 DEF Numbered
  <2>2. PICK k \in 1..(l + 1) : q[k].kind = kind /\ q[k].n = a + 1
    BY <2>1 DEF Numbered
  <2>3. q[1].n = a + 1
    BY <1>4, <2>1, <2>2 DEF Numbered
  <2>4. \A i \in 1..l : p[i].kind = kind => a + 1 < p[i].n /\ p[i].n <= b
    BY <1>2, <1>4, <2>1, <2>3 DEF Numbered
  <2>5. ASSUME NEW n \in (a + 1 + 1)..b PROVE \E i \in 1..l : p[i].kind = kind /\ p[i].n = n
    <3>1. PICK i \in 1..(l + 1) : q[i].kind = kind /\ q[i].n = n
      BY DEF Numbered
    <3> QED BY <1>1, <2>3, <3>1
  <2> QED
    BY <1>3, <2>1, <2>3, <2>4, <2>5 DEF Numbered
<1>5. ASSUME q[1].kind # kind PROVE Numbered(p, l, kind, a, b)
  <2>1. \A i \in 1..l : p[i].kind = kind => a < p[i].n /\ p[i].n <= b
    BY <1>2 DEF Numbered
  <2>2. ASSUME NEW n \in (a + 1)..b PROVE \E i \in 1..l : p[i].kind = kind /\ p[i].n = n
    <3>1. PICK i \in 1..(l + 1) : q[i].kind = kind /\ q[i].n = n
      BY DEF Numbered
    <3> QED BY <1>1, <1>5, <3>1
  <2> QED
    BY <1>3, <2>1, <2>2 DEF Numbered
<1> QED
  BY <1>4, <1>5

LEMMA AppendMeans ==
  ASSUME NEW q \in Seq(Msg), NEW m \in Msg
  PROVE  /\ Append(q, m) \in Seq(Msg) /\ Len(Append(q, m)) = Len(q) + 1
         /\ Append(q, m)[Len(q) + 1] = m
         /\ \A i \in 1..Len(q) : Append(q, m)[i] = q[i]
OBVIOUS

LEMMA TailMeans ==
  ASSUME NEW q \in Seq(Msg), q # << >>
  PROVE  /\ Tail(q) \in Seq(Msg) /\ Len(Tail(q)) \in Nat /\ Len(q) = Len(Tail(q)) + 1
         /\ Head(q) = q[1] /\ Head(q) \in Msg
         /\ \A i \in 1..Len(Tail(q)) : Tail(q)[i] = q[i + 1]
OBVIOUS

\* A message joins the tail of a pipe: the next of its kind, or one of another kind.
LEMMA CarriesAppend ==
  ASSUME NEW q \in Seq(Msg), NEW kind, NEW a \in Nat, NEW b \in Nat, NEW m \in Msg,
         Carries(q, kind, a, b)
  PROVE  /\ m.kind = kind /\ m.n = b + 1 => Carries(Append(q, m), kind, a, b + 1)
         /\ m.kind # kind => Carries(Append(q, m), kind, a, b)
<1> DEFINE p == Append(q, m)
           l == Len(q)
<1>1. p \in Seq(Msg) /\ Len(p) = l + 1 /\ p[l + 1] = m /\ \A i \in 1..l : p[i] = q[i]
  BY AppendMeans
<1>2. l \in Nat /\ \A i \in 1..l : q[i].n \in Nat
  BY MsgFields
<1>3. Numbered(q, l, kind, a, b)
  BY CarriesMeans
<1> HIDE DEF p, l
<1>4. /\ m.kind = kind /\ m.n = b + 1 => Numbered(p, l + 1, kind, a, b + 1)
      /\ m.kind # kind => Numbered(p, l + 1, kind, a, b)
  BY <1>1, <1>2, <1>3, NumberedAppend
<1>5. \A c \in Nat : Carries(p, kind, a, c) <=> Numbered(p, l + 1, kind, a, c)
  BY <1>1, CarriesMeans
<1>6. b + 1 \in Nat
  OBVIOUS
<1> QED
  BY <1>4, <1>5, <1>6 DEF p

\* The head of a pipe leaves it: the first of its kind, or one of another kind.
LEMMA CarriesTail ==
  ASSUME NEW q \in Seq(Msg), NEW kind, NEW a \in Nat, NEW b \in Nat, q # << >>,
         Carries(q, kind, a, b)
  PROVE  /\ Head(q).kind = kind =>
              Head(q).n = a + 1 /\ a + 1 <= b /\ Carries(Tail(q), kind, a + 1, b)
         /\ Head(q).kind # kind => Carries(Tail(q), kind, a, b)
<1> DEFINE p == Tail(q)
           l == Len(p)
           h == Head(q)
<1>1. /\ p \in Seq(Msg) /\ l \in Nat /\ Len(q) = l + 1 /\ h = q[1]
      /\ \A i \in 1..l : p[i] = q[i + 1]
  BY TailMeans
<1>2. \A i \in 1..(l + 1) : q[i].n \in Nat
  BY <1>1, MsgFields
<1>3. Numbered(q, l + 1, kind, a, b)
  BY <1>1, CarriesMeans
<1>4. \A c \in Nat : Carries(p, kind, c, b) <=> Numbered(p, l, kind, c, b)
  BY <1>1, CarriesMeans
<1>5. a + 1 \in Nat
  OBVIOUS
<1> HIDE DEF p, l, h
<1>6. /\ q[1].kind = kind => q[1].n = a + 1 /\ a + 1 <= b /\ Numbered(p, l, kind, a + 1, b)
      /\ q[1].kind # kind => Numbered(p, l, kind, a, b)
  BY <1>1, <1>2, <1>3, NumberedTail
<1>7. /\ h.kind = kind => h.n = a + 1 /\ a + 1 <= b /\ Numbered(p, l, kind, a + 1, b)
      /\ h.kind # kind => Numbered(p, l, kind, a, b)
  BY <1>1, <1>6
<1>8. /\ h.kind = kind => h.n = a + 1 /\ a + 1 <= b /\ Carries(p, kind, a + 1, b)
      /\ h.kind # kind => Carries(p, kind, a, b)
  BY <1>4, <1>5, <1>7
<1> QED
  BY <1>8 DEF p, h

-----------------------------------------------------------------------------
(* Pipelines *)

LEMMA PipelineEmpty ==
  ASSUME NEW kind, NEW made, NEW a \in Nat
  PROVE  Pipeline(<< >>, << >>, kind, << >>, << >>, made, a, a)
<1>1. a \in a..a
  OBVIOUS
<1> QED
  BY <1>1, CarriesNone DEF Pipeline

\* The next message is made.
LEMMA PipelineMake ==
  ASSUME NEW last, NEW sender, NEW kind, NEW first, NEW m \in Msg, NEW made,
         NEW a \in Nat, NEW b \in Nat,
         Pipeline(last, sender, kind, first, << >>, made, a, b),
         m.kind = made, m.n = b + 1
  PROVE  Pipeline(last, sender, kind, first, <<m>>, made, a, b + 1)
<1>1. PICK i, j, k \in a..b :
        /\ Carries(last, kind, a, i) /\ Carries(sender, kind, i, j)
        /\ Carries(first, made, j, k) /\ Carries(<< >>, made, k, b)
  BY DEF Pipeline
<1>2. k = b
  BY <1>1, CarriesNothing
<1>3. Carries(<<m>>, made, k, b + 1)
  BY <1>2, CarriesOne
<1>4. i \in a..(b + 1) /\ j \in a..(b + 1) /\ k \in a..(b + 1)
  OBVIOUS
<1> QED
  BY <1>1, <1>3, <1>4 DEF Pipeline

\* What joins a pipe after what a goroutine holds is added to the pipe.
LEMMA CarriesJoin ==
  ASSUME NEW q \in Seq(Msg), NEW m \in Msg, NEW kind, NEW a \in Nat, NEW i \in Nat, NEW j \in Nat,
         Carries(q, kind, a, i), Carries(<<m>>, kind, i, j)
  PROVE  Carries(Append(q, m), kind, a, j)
<1>1. CASE m.kind = kind
  <2>1. m.n = i + 1 /\ j = i + 1
    BY <1>1, CarriesAtMostOne
  <2> QED
    BY <1>1, <2>1, CarriesAppend
<1>2. CASE m.kind # kind
  <2>1. i = j
    BY <1>2, CarriesAtMostOne
  <2> QED
    BY <1>2, <2>1, CarriesAppend
<1> QED
  BY <1>1, <1>2

\* The maker's Send puts its message into the first pipe.
LEMMA PipelineMakerSends ==
  ASSUME NEW last, NEW sender, NEW kind, NEW first \in Seq(Msg), NEW m \in Msg, NEW made,
         NEW a \in Nat, NEW b \in Nat,
         Pipeline(last, sender, kind, first, <<m>>, made, a, b)
  PROVE  Pipeline(last, sender, kind, Append(first, m), << >>, made, a, b)
<1>1. PICK i, j, k \in a..b :
        /\ Carries(last, kind, a, i) /\ Carries(sender, kind, i, j)
        /\ Carries(first, made, j, k) /\ Carries(<<m>>, made, k, b)
  BY DEF Pipeline
<1>2. Carries(Append(first, m), made, j, b)
  BY <1>1, CarriesJoin
<1>3. Carries(<< >>, made, b, b) /\ b \in a..b
  BY CarriesNone
<1> QED
  BY <1>1, <1>2, <1>3 DEF Pipeline

\* A message of the first pipe is received and answered.
LEMMA PipelineForward ==
  ASSUME NEW last, NEW kind, NEW first \in Seq(Msg), NEW maker, NEW made, NEW m \in Msg,
         NEW a \in Nat, NEW b \in Nat, first # << >>,
         Pipeline(last, << >>, kind, first, maker, made, a, b),
         Head(first).kind = made, m.kind = kind, m.n = Head(first).n
  PROVE  Pipeline(last, <<m>>, kind, Tail(first), maker, made, a, b)
<1>1. PICK i, j, k \in a..b :
        /\ Carries(last, kind, a, i) /\ Carries(<< >>, kind, i, j)
        /\ Carries(first, made, j, k) /\ Carries(maker, made, k, b)
  BY DEF Pipeline
<1>2. i = j
  BY <1>1, CarriesNothing
<1>3. m.n = j + 1 /\ j + 1 <= k /\ Carries(Tail(first), made, j + 1, k)
  BY <1>1, CarriesTail
<1>4. Carries(<<m>>, kind, i, j + 1) /\ j + 1 \in a..b
  BY <1>2, <1>3, CarriesOne
<1> QED
  BY <1>1, <1>3, <1>4 DEF Pipeline

\* The sender's Send puts what it holds into the last pipe.
LEMMA PipelineSenderSends ==
  ASSUME NEW last \in Seq(Msg), NEW m \in Msg, NEW kind, NEW first, NEW maker, NEW made,
         NEW a \in Nat, NEW b \in Nat,
         Pipeline(last, <<m>>, kind, first, maker, made, a, b)
  PROVE  Pipeline(Append(last, m), << >>, kind, first, maker, made, a, b)
<1>1. PICK i, j, k \in a..b :
        /\ Carries(last, kind, a, i) /\ Carries(<<m>>, kind, i, j)
        /\ Carries(first, made, j, k) /\ Carries(maker, made, k, b)
  BY DEF Pipeline
<1>2. Carries(Append(last, m), kind, a, j)
  BY <1>1, CarriesJoin
<1>3. Carries(<< >>, kind, j, j)
  BY CarriesNone
<1> QED
  BY <1>1, <1>2, <1>3 DEF Pipeline

\* A message of the last pipe arrives.
LEMMA PipelineArrives ==
  ASSUME NEW last \in Seq(Msg), NEW sender, NEW kind, NEW first, NEW maker, NEW made,
         NEW a \in Nat, NEW b \in Nat, last # << >>,
         Pipeline(last, sender, kind, first, maker, made, a, b),
         Head(last).kind = kind
  PROVE  Head(last).n = a + 1 /\ Pipeline(Tail(last), sender, kind, first, maker, made, a + 1, b)
<1>1. PICK i, j, k \in a..b :
        /\ Carries(last, kind, a, i) /\ Carries(sender, kind, i, j)
        /\ Carries(first, made, j, k) /\ Carries(maker, made, k, b)
  BY DEF Pipeline
<1>2. Head(last).n = a + 1 /\ a + 1 <= i /\ Carries(Tail(last), kind, a + 1, i)
  BY <1>1, CarriesTail
<1>3. i <= j /\ j <= k
  BY <1>1 DEF Carries
<1>4. i \in (a + 1)..b /\ j \in (a + 1)..b /\ k \in (a + 1)..b
  BY <1>2, <1>3
<1> QED
  BY <1>1, <1>2, <1>4 DEF Pipeline

\* Messages of another kind come and go.
LEMMA PipelineIgnores ==
  ASSUME NEW last \in Seq(Msg), NEW sender, NEW kind, NEW first \in Seq(Msg), NEW maker, NEW made,
         NEW a \in Nat, NEW b \in Nat, NEW m \in Msg,
         Pipeline(last, sender, kind, first, maker, made, a, b)
  PROVE  /\ m.kind # kind => Pipeline(Append(last, m), sender, kind, first, maker, made, a, b)
         /\ m.kind # made => Pipeline(last, sender, kind, Append(first, m), maker, made, a, b)
         /\ last # << >> /\ Head(last).kind # kind =>
              Pipeline(Tail(last), sender, kind, first, maker, made, a, b)
         /\ first # << >> /\ Head(first).kind # made =>
              Pipeline(last, sender, kind, Tail(first), maker, made, a, b)
         /\ sender = << >> /\ m.kind # kind =>
              Pipeline(last, <<m>>, kind, first, maker, made, a, b)
<1>1. PICK i, j, k \in a..b :
        /\ Carries(last, kind, a, i) /\ Carries(sender, kind, i, j)
        /\ Carries(first, made, j, k) /\ Carries(maker, made, k, b)
  BY DEF Pipeline
<1>2. i \in Nat /\ j \in Nat /\ k \in Nat
  OBVIOUS
<1>3. m.kind # kind => Pipeline(Append(last, m), sender, kind, first, maker, made, a, b)
  BY <1>1, <1>2, CarriesAppend DEF Pipeline
<1>4. m.kind # made => Pipeline(last, sender, kind, Append(first, m), maker, made, a, b)
  BY <1>1, <1>2, CarriesAppend DEF Pipeline
<1>5. last # << >> /\ Head(last).kind # kind =>
        Pipeline(Tail(last), sender, kind, first, maker, made, a, b)
  BY <1>1, <1>2, CarriesTail DEF Pipeline
<1>6. first # << >> /\ Head(first).kind # made =>
        Pipeline(last, sender, kind, Tail(first), maker, made, a, b)
  BY <1>1, <1>2, CarriesTail DEF Pipeline
<1>7. sender = << >> /\ m.kind # kind =>
        Pipeline(last, <<m>>, kind, first, maker, made, a, b)
  <2>1. sender = << >> /\ m.kind # kind => Carries(<<m>>, kind, i, j)
    BY <1>1, <1>2, CarriesNothing, CarriesOne
  <2> QED
    BY <1>1, <2>1 DEF Pipeline
<1> QED
  BY <1>3, <1>4, <1>5, <1>6, <1>7

-----------------------------------------------------------------------------
(* The invariant *)

\* Of the first l messages of q those of the kind have the numbers a + 1, a + 2, ...,
\* none above b, in this order.
Follows(q, l, kind, a, b) ==
  /\ a <= b
  /\ \A i \in 1..l : q[i].kind = kind => a < q[i].n /\ q[i].n <= b
  /\ \A i, j \in 1..l : q[i].kind = kind /\ q[j].kind = kind /\ i < j => q[i].n < q[j].n
  /\ \A i \in 1..l : q[i].kind = kind =>
       \A n \in (a + 1)..q[i].n : \E j \in 1..i : q[j].kind = kind /\ q[j].n = n

Hellos(s) ==
  Pipeline(inbox[s]["client"], Sending(s, "echo"), "echoHello",
           inbox[s]["server"], Sending(s, "hello"), "hello",
           heard[s]["client"], sent[s]["hello"])

Acks(s) ==
  Pipeline(inbox[s]["server"], Sending(s, "recv"), "ack",
           inbox[s]["client"], Sending(s, "push"), "push",
           heard[s]["server"], sent[s]["push"])

\* A stream that main has not opened is untouched.
Untouched(s) ==
  s > cur => /\ link[s] = "lost"
             /\ \A e \in Ends : inbox[s][e] = << >> /\ heard[s][e] = 0
             /\ \A r \in Tickers : sent[s][r] = 0

\* Each goroutine sends messages of its own kinds.
Spoken(s) ==
  /\ pc[s]["hello"] = "send" => hand[s]["hello"].kind = "hello"
  /\ pc[s]["recv"] = "send" => hand[s]["recv"].kind = "ack"
  /\ pc[s]["push"] = "send" => hand[s]["push"].kind = "push"
  /\ pc[s]["echo"] = "send" => hand[s]["echo"].kind \in {"echoHello", "echoAck"}

\* While the link and the server's end are up the client's end is up too.
Whole(s) ==
  link[s] = "up" /\ open[s]["server"] => open[s]["client"] /\ ~Ended(s)

\* The push goroutine may fail on a stream whose echo goroutine goes on.
Echoing(s) == link[s] = "up" /\ open[s]["server"] /\ pc[s]["echo"] \notin {"err", "done"}

\* The echoes that the client reads, on a dead stream too.
Answered(s) ==
  Follows(inbox[s]["client"], Len(inbox[s]["client"]), "echoHello",
          heard[s]["client"], sent[s]["hello"])

Flow(s) ==
  /\ Untouched(s) /\ Spoken(s) /\ Whole(s) /\ Answered(s)
  /\ Echoing(s) => Hellos(s)
  /\ Live(s) => Acks(s)

-----------------------------------------------------------------------------
(* Follows *)

LEMMA CarriesFollows ==
  ASSUME NEW q \in Seq(Msg), NEW kind, NEW a \in Nat, NEW i \in Nat, NEW b \in Nat,
         Carries(q, kind, a, i), i <= b
  PROVE  Follows(q, Len(q), kind, a, b)
<1> DEFINE l == Len(q)
<1>1. l \in Nat /\ Numbered(q, l, kind, a, i) /\ \A k \in 1..l : q[k].n \in Nat
  BY CarriesMeans, MsgFields
<1> HIDE DEF l
<1>2. ASSUME NEW k \in 1..l, q[k].kind = kind, NEW n \in (a + 1)..q[k].n
      PROVE  \E j \in 1..k : q[j].kind = kind /\ q[j].n = n
  <2>1. n \in (a + 1)..i
    BY <1>1, <1>2 DEF Numbered
  <2>2. PICK j \in 1..l : q[j].kind = kind /\ q[j].n = n
    BY <1>1, <2>1 DEF Numbered
  <2>3. j <= k
    BY <1>1, <1>2, <2>2 DEF Numbered
  <2> QED
    BY <2>2, <2>3
<1>3. Follows(q, l, kind, a, b)
  BY <1>1, <1>2 DEF Numbered, Follows
<1> QED
  BY <1>3 DEF l

LEMMA FollowsLonger ==
  ASSUME NEW q, NEW p, NEW l \in Nat, NEW kind, NEW a \in Nat, NEW b \in Nat,
         Follows(q, l, kind, a, b), \A i \in 1..l : q[i].n \in Nat /\ p[i] = q[i],
         p[l + 1].kind # kind
  PROVE  Follows(p, l + 1, kind, a, b)
<1>1. \A i \in 1..(l + 1) : p[i].kind = kind => i \in 1..l /\ p[i] = q[i] /\ q[i].n \in Nat
  OBVIOUS
<1>2. ASSUME NEW k \in 1..(l + 1), p[k].kind = kind, NEW n \in (a + 1)..p[k].n
      PROVE  \E j \in 1..k : p[j].kind = kind /\ p[j].n = n
  <2>1. PICK j \in 1..k : q[j].kind = kind /\ q[j].n = n
    BY <1>1, <1>2 DEF Follows
  <2>2. j \in 1..l
    BY <1>1, <1>2
  <2> QED
    BY <2>1, <2>2
<1> QED
  BY <1>1, <1>2 DEF Follows

LEMMA FollowsTail ==
  ASSUME NEW q, NEW p, NEW l \in Nat, NEW kind, NEW a \in Nat, NEW b \in Nat,
         Follows(q, l + 1, kind, a, b),
         \A i \in 1..(l + 1) : q[i].n \in Nat, \A i \in 1..l : p[i] = q[i + 1]
  PROVE  /\ q[1].kind = kind =>
              q[1].n = a + 1 /\ a + 1 <= b /\ Follows(p, l, kind, a + 1, b)
         /\ q[1].kind # kind => Follows(p, l, kind, a, b)
<1>1. \A i \in 1..(l + 1) : i # 1 => i - 1 \in 1..l /\ q[i] = p[i - 1]
  OBVIOUS
<1>2. \A i \in 1..l : i + 1 \in 1..(l + 1) /\ p[i] = q[i + 1] /\ p[i].n \in Nat
  OBVIOUS
<1>3. \A i, j \in 1..l : p[i].kind = kind /\ p[j].kind = kind /\ i < j => p[i].n < p[j].n
  BY <1>2 DEF Follows
<1>4. ASSUME q[1].kind = kind
      PROVE  q[1].n = a + 1 /\ a + 1 <= b /\ Follows(p, l, kind, a + 1, b)
  <2>1. 1 \in 1..(l + 1) /\ a < q[1].n /\ q[1].n <= b /\ q[1].n \in Nat
    BY <1>4 DEF Follows
  <2>2. PICK h \in 1..1 : q[h].n = a + 1
    BY <1>4, <2>1 DEF Follows
  <2>3. q[1].n = a + 1
    BY <2>2
  <2>4. \A i \in 1..l : p[i].kind = kind => a + 1 < p[i].n /\ p[i].n <= b
    BY <1>2, <1>4, <2>1, <2>3 DEF Follows
  <2>5. ASSUME NEW k \in 1..l, p[k].kind = kind, NEW n \in (a + 1 + 1)..p[k].n
        PROVE  \E j \in 1..k : p[j].kind = kind /\ p[j].n = n
    <3>1. k + 1 \in 1..(l + 1) /\ q[k + 1].kind = kind /\ n \in (a + 1)..q[k + 1].n
      BY <1>2, <2>5
    <3>2. PICK i \in 1..(k + 1) : q[i].kind = kind /\ q[i].n = n
      BY <3>1 DEF Follows
    <3> QED BY <1>1, <2>3, <3>1, <3>2
  <2> QED
    BY <1>3, <2>1, <2>3, <2>4, <2>5 DEF Follows
<1>5. ASSUME q[1].kind # kind PROVE Follows(p, l, kind, a, b)
  <2>1. \A i \in 1..l : p[i].kind = kind => a < p[i].n /\ p[i].n <= b
    BY <1>2 DEF Follows
  <2>2. ASSUME NEW k \in 1..l, p[k].kind = kind, NEW n \in (a + 1)..p[k].n
        PROVE  \E j \in 1..k : p[j].kind = kind /\ p[j].n = n
    <3>1. k + 1 \in 1..(l + 1) /\ q[k + 1].kind = kind /\ n \in (a + 1)..q[k + 1].n
      BY <1>2, <2>2
    <3>2. PICK i \in 1..(k + 1) : q[i].kind = kind /\ q[i].n = n
      BY <3>1 DEF Follows
    <3> QED BY <1>1, <1>5, <3>1, <3>2
  <2> QED
    BY <1>3, <2>1, <2>2 DEF Follows
<1> QED
  BY <1>4, <1>5

\* More hellos may have been said, and of what was under way a prefix may have arrived.
LEMMA FollowsWeaker ==
  ASSUME NEW q, NEW p, NEW l \in Nat, NEW k \in 0..l, NEW kind,
         NEW a \in Nat, NEW b \in Nat, NEW c \in Nat, b <= c,
         \A i \in 1..l : q[i].n \in Nat, \A i \in 1..k : p[i] = q[i],
         Follows(q, l, kind, a, b)
  PROVE  Follows(p, k, kind, a, c)
<1>1. \A i \in 1..k : i \in 1..l /\ p[i] = q[i] /\ p[i].n \in Nat
  OBVIOUS
<1>2. ASSUME NEW i \in 1..k, p[i].kind = kind, NEW n \in (a + 1)..p[i].n
      PROVE  \E j \in 1..i : p[j].kind = kind /\ p[j].n = n
  <2>1. PICK j \in 1..i : q[j].kind = kind /\ q[j].n = n
    BY <1>1, <1>2 DEF Follows
  <2> QED
    BY <1>1, <2>1
<1> QED
  BY <1>1, <1>2 DEF Follows

LEMMA FollowsAppend ==
  ASSUME NEW q \in Seq(Msg), NEW m \in Msg, NEW kind, NEW a \in Nat, NEW b \in Nat,
         Follows(q, Len(q), kind, a, b), m.kind # kind
  PROVE  Follows(Append(q, m), Len(Append(q, m)), kind, a, b)
<1> DEFINE p == Append(q, m)
           l == Len(q)
           h == Len(p)
<1>1. h = l + 1 /\ p[l + 1] = m /\ l \in Nat /\ \A i \in 1..l : q[i].n \in Nat /\ p[i] = q[i]
  BY AppendMeans, MsgFields
<1> HIDE DEF p, l, h
<1>2. Follows(q, l, kind, a, b)
  BY DEF l
<1>3. Follows(p, h, kind, a, b)
  BY <1>1, <1>2, FollowsLonger
<1> QED
  BY <1>3 DEF p, h

LEMMA FollowsRead ==
  ASSUME NEW q \in Seq(Msg), NEW kind, NEW a \in Nat, NEW b \in Nat, q # << >>,
         Follows(q, Len(q), kind, a, b)
  PROVE  /\ Head(q).kind = kind =>
              Head(q).n = a + 1 /\ a + 1 <= b
              /\ Follows(Tail(q), Len(Tail(q)), kind, a + 1, b)
         /\ Head(q).kind # kind => Follows(Tail(q), Len(Tail(q)), kind, a, b)
<1> DEFINE p == Tail(q)
           l == Len(p)
           h == Head(q)
<1>1. l \in Nat /\ Len(q) = l + 1 /\ h = q[1] /\ \A i \in 1..l : p[i] = q[i + 1]
  BY TailMeans
<1>2. \A i \in 1..(l + 1) : q[i].n \in Nat
  BY <1>1, MsgFields
<1>3. Follows(q, l + 1, kind, a, b)
  BY <1>1
<1> HIDE DEF p, l, h
<1>4. /\ q[1].kind = kind => q[1].n = a + 1 /\ a + 1 <= b /\ Follows(p, l, kind, a + 1, b)
      /\ q[1].kind # kind => Follows(p, l, kind, a, b)
  BY <1>1, <1>2, <1>3, FollowsTail
<1>5. /\ h.kind = kind => h.n = a + 1 /\ a + 1 <= b /\ Follows(p, l, kind, a + 1, b)
      /\ h.kind # kind => Follows(p, l, kind, a, b)
  BY <1>1, <1>4
<1> QED
  BY <1>5 DEF p, l, h

LEMMA FollowsPrefix ==
  ASSUME NEW q \in Seq(Msg), NEW k \in 0..Len(q), NEW kind, NEW a \in Nat, NEW b \in Nat,
         Follows(q, Len(q), kind, a, b)
  PROVE  Follows(SubSeq(q, 1, k), Len(SubSeq(q, 1, k)), kind, a, b)
<1> DEFINE p == SubSeq(q, 1, k)
           l == Len(q)
           h == Len(p)
<1>1. l \in Nat
  BY MsgFields
<1>2. h = k /\ l \in Nat /\ \A i \in 1..k : p[i] = q[i]
  BY <1>1, SubSeqProperties
<1>3. (\A i \in 1..l : q[i].n \in Nat) /\ k \in 0..l
  BY MsgFields
<1> HIDE DEF p, l, h
<1>4. Follows(q, l, kind, a, b)
  BY DEF l
<1>5. b <= b
  OBVIOUS
<1>6. Follows(p, k, kind, a, b)
  BY <1>2, <1>3, <1>4, <1>5, FollowsWeaker
<1>7. Follows(p, h, kind, a, b)
  BY <1>2, <1>6
<1> QED
  BY <1>7 DEF p, h

-----------------------------------------------------------------------------
(* The steps *)

LEMMA FlowTypes ==
  ASSUME Typed, NEW s \in Streams
  PROVE  /\ s \in Nat /\ cur \in Nat
         /\ \A e \in Ends : inbox[s][e] \in Seq(Msg) /\ heard[s][e] \in Nat
         /\ \A r \in Roles : hand[s][r] \in Msg
         /\ \A r \in Tickers : sent[s][r] \in Nat
         /\ inbox \in [Streams -> [Ends -> Seq(Msg)]]
         /\ heard \in [Streams -> [Ends -> Nat]]
         /\ sent \in [Streams -> [Tickers -> Nat]]
         /\ hand \in [Streams -> [Roles -> Msg]]
         /\ pc \in [Streams -> [Roles -> PCs]]
         /\ open \in [Streams -> [Ends -> BOOLEAN]]
         /\ link \in [Streams -> {"up", "lost"}]
         /\ ctxDone \in [Streams -> BOOLEAN]
         /\ handler \in [Streams -> {"off", "wait", "returned"}]
BY ChatAssumption DEF Typed, TypeOK, Streams

LEMMA FlowParts ==
  /\ HelloPipeline <=> \A s \in Streams : Live(s) => Hellos(s)
  /\ AckPipeline <=> \A s \in Streams : Live(s) => Acks(s)
  /\ \A s \in Streams : Live(s) => Echoing(s)
BY DEF HelloPipeline, AckPipeline, Hellos, Acks, Live, Echoing

\* A step leaves stream s alone.
Same(s) ==
  /\ inbox'[s] = inbox[s] /\ heard'[s] = heard[s] /\ sent'[s] = sent[s]
  /\ hand'[s] = hand[s] /\ pc'[s] = pc[s] /\ open'[s] = open[s] /\ link'[s] = link[s]

LEMMA FlowSame ==
  ASSUME NEW s \in Streams, Flow(s), Same(s), s > cur' => s > cur
  PROVE  Flow(s)'
<1>1. /\ \A r \in Roles : Sending(s, r)' = Sending(s, r)
      /\ Ended(s)' <=> Ended(s)
      /\ Live(s)' <=> Live(s)
      /\ Echoing(s)' <=> Echoing(s)
  BY DEF Same, Sending, Ended, Live, Echoing
<1>2. (Hellos(s)' <=> Hellos(s)) /\ (Acks(s)' <=> Acks(s)) /\ (Answered(s)' <=> Answered(s))
  BY <1>1, Sides DEF Same, Hellos, Acks, Answered
<1>3. Untouched(s)' /\ Spoken(s)' /\ Whole(s)'
  BY <1>1 DEF Same, Flow, Untouched, Spoken, Whole
<1> QED
  BY <1>1, <1>2, <1>3 DEF Flow

\* A stream that has not been opened does nothing.
LEMMA Opened ==
  ASSUME Typed, Protocol, NEW s \in Streams, Untouched(s),
         \/ link[s] = "up"
         \/ \E e \in Ends : open[s][e]
         \/ \E r \in Roles : pc[s][r] # "off"
  PROVE  ~(s > cur)
BY DEF Protocol, Unborn, Untouched, Roles

-----------------------------------------------------------------------------
(* Send *)

LEMMA SendEffect ==
  ASSUME Typed, NEW s \in Streams, NEW r \in Roles, SendOK(s, r)
  PROVE  /\ pc[s][r] = "send" /\ pc'[s][r] \notin {"send", "err", "done"} /\ open[s][Side(r)]
         /\ Sending(s, r) = <<hand[s][r]>> /\ Sending(s, r)' = << >>
         /\ \A x \in Roles \ {r} : /\ Sending(s, x)' = Sending(s, x)
                                   /\ pc'[s][x] = pc[s][x] /\ hand'[s][x] = hand[s][x]
         /\ inbox'[s][Side(r)] = inbox[s][Side(r)]
         /\ IF Delivers(s, Peer(Side(r)))
              THEN inbox'[s][Peer(Side(r))] = Append(inbox[s][Peer(Side(r))], hand[s][r])
              ELSE inbox'[s][Peer(Side(r))] = inbox[s][Peer(Side(r))]
         /\ UNCHANGED <<cur, heard, sent, open, link>>
         /\ \A t \in Streams \ {s} : Same(t)
<1> DEFINE q == IF Delivers(s, Peer(Side(r)))
                  THEN Append(inbox[s][Peer(Side(r))], hand[s][r])
                  ELSE inbox[s][Peer(Side(r))]
<1>1. inbox' = [inbox EXCEPT ![s][Peer(Side(r))] = q]
  BY FlowTypes, Sides DEF SendOK
<1>2. /\ hand' = [hand EXCEPT ![s][r] = Nothing]
      /\ pc' = [pc EXCEPT ![s][r] = IF r \in Tickers THEN "select" ELSE "recv"]
      /\ pc[s][r] = "send" /\ open[s][Side(r)]
      /\ UNCHANGED <<cur, heard, sent, open, link>>
  BY DEF SendOK
<1>3. Peer(Side(r)) # Side(r) /\ Side(r) \in Ends /\ Peer(Side(r)) \in Ends
  BY DEF Peer, Side, Ends
<1> HIDE DEF q
<1>4. inbox'[s][Peer(Side(r))] = q /\ inbox'[s][Side(r)] = inbox[s][Side(r)]
      /\ \A t \in Streams \ {s} : inbox'[t] = inbox[t]
  BY <1>1, <1>3, FlowTypes
<1>5. \A t \in Streams \ {s} : Same(t)
  BY <1>2, <1>4, FlowTypes DEF Same
<1>6. /\ \A x \in Roles \ {r} : pc'[s][x] = pc[s][x] /\ hand'[s][x] = hand[s][x]
      /\ pc'[s][r] \notin {"send", "err", "done"}
  BY <1>2, FlowTypes
<1>7. /\ Sending(s, r) = <<hand[s][r]>> /\ Sending(s, r)' = << >>
      /\ \A x \in Roles \ {r} : Sending(s, x)' = Sending(s, x)
  BY <1>2, <1>6 DEF Sending
<1>8. IF Delivers(s, Peer(Side(r)))
        THEN inbox'[s][Peer(Side(r))] = Append(inbox[s][Peer(Side(r))], hand[s][r])
        ELSE inbox'[s][Peer(Side(r))] = inbox[s][Peer(Side(r))]
  BY <1>4 DEF q
<1> QED
  BY <1>2, <1>4, <1>5, <1>6, <1>7, <1>8

LEMMA SendKept ==
  ASSUME Typed, Typed', Protocol, NEW s \in Streams, NEW r \in Roles, SendOK(s, r), Flow(s)
  PROVE  Untouched(s)' /\ Spoken(s)' /\ Whole(s)'
<1>1. Untouched(s)'
  BY SendEffect, Opened DEF Flow, Untouched
<1>2. Spoken(s)'
  BY SendEffect, Sides DEF Flow, Spoken
<1>3. ASSUME link[s] = "up" /\ open[s]["server"] PROVE open[s]["client"] /\ ~Ended(s)'
  <2>1. open[s]["client"] /\ ~Ended(s)
    BY <1>3 DEF Flow, Whole
  <2>2. CASE inbox'[s]["client"] = inbox[s]["client"]
    BY <2>1, <2>2 DEF Ended
  <2>3. CASE inbox'[s]["client"] = Append(inbox[s]["client"], hand[s][r])
    <3> DEFINE q == inbox[s]["client"]
               p == Append(q, hand[s][r])
               l == Len(q)
               h == Len(p)
    <3>1. h = l + 1 /\ p[l + 1] = hand[s][r] /\ \A i \in 1..l : p[i] = q[i]
      BY AppendMeans, FlowTypes, Sides
    <3>2. l \in Nat /\ inbox'[s]["client"] = p
      BY <2>3, MsgFields, FlowTypes, Sides
    <3>3. hand[s][r].kind \notin EndMarks
      BY SendEffect DEF Typed, HandOK
    <3>4. \A i \in 1..l : q[i].kind \notin EndMarks
      BY <2>1 DEF Ended
    <3>5. Ended(s)' <=> \E i \in 1..h : p[i].kind \in EndMarks
      BY <3>2 DEF Ended
    <3> HIDE DEF p, q, l, h
    <3>6. ~Ended(s)'
      BY <3>1, <3>2, <3>3, <3>4, <3>5
    <3> QED
      BY <2>1, <3>6
  <2>4. \/ inbox'[s]["client"] = inbox[s]["client"]
        \/ inbox'[s]["client"] = Append(inbox[s]["client"], hand[s][r])
    BY SendEffect DEF Peer, Side
  <2> QED
    BY <2>2, <2>3, <2>4
<1>4. Whole(s)'
  BY <1>3, SendEffect DEF Whole
<1> QED
  BY <1>1, <1>2, <1>4

\* On a live stream a Send delivers.
LEMMA SendDelivers ==
  ASSUME Typed, NEW s \in Streams, Flow(s), link[s] = "up", open[s]["server"]
  PROVE  Delivers(s, "client") /\ Delivers(s, "server")
BY DEF Flow, Whole, Delivers

LEMMA SendFacts ==
  ASSUME Typed, NEW s \in Streams
  PROVE  /\ Peer(Side("hello")) = "server" /\ Peer(Side("recv")) = "server"
         /\ Peer(Side("push")) = "client" /\ Peer(Side("echo")) = "client"
         /\ inbox[s]["client"] \in Seq(Msg) /\ inbox[s]["server"] \in Seq(Msg)
         /\ heard[s]["client"] \in Nat /\ heard[s]["server"] \in Nat
         /\ sent[s]["hello"] \in Nat /\ sent[s]["push"] \in Nat
         /\ \A r \in Roles : hand[s][r] \in Msg
BY FlowTypes, Sides DEF Peer, Tickers

LEMMA HelloSent ==
  ASSUME Typed, Typed', Protocol, NEW s \in Streams, SendOK(s, "hello"), Flow(s)
  PROVE  Flow(s)'
<1> USE Sides, SendFacts
<1> DEFINE m == hand[s]["hello"]
<1>1. m.kind = "hello" /\ m \in Msg
  BY SendEffect DEF Flow, Spoken
<1>2. Echoing(s)' => Hellos(s)'
  <2> SUFFICES ASSUME Echoing(s)' PROVE Hellos(s)'
    OBVIOUS
  <2>1. Echoing(s)
    BY SendEffect DEF Echoing
  <2>2. Pipeline(inbox[s]["client"], Sending(s, "echo"), "echoHello",
                 Append(inbox[s]["server"], m), << >>, "hello",
                 heard[s]["client"], sent[s]["hello"])
    <3>1. Pipeline(inbox[s]["client"], Sending(s, "echo"), "echoHello",
                   inbox[s]["server"], <<m>>, "hello",
                   heard[s]["client"], sent[s]["hello"])
      BY <2>1, SendEffect DEF Flow, Hellos
    <3> QED
      BY <1>1, <3>1, PipelineMakerSends
  <2>3. inbox'[s]["server"] = Append(inbox[s]["server"], m)
    BY <2>1, SendEffect, SendDelivers DEF Echoing
  <2> QED
    BY <2>2, <2>3, SendEffect DEF Hellos
<1>3. Live(s)' => Acks(s)'
  <2> SUFFICES ASSUME Live(s)' PROVE Acks(s)'
    OBVIOUS
  <2>1. Live(s)
    BY SendEffect DEF Live
  <2>2. Pipeline(Append(inbox[s]["server"], m), Sending(s, "recv"), "ack",
                 inbox[s]["client"], Sending(s, "push"), "push",
                 heard[s]["server"], sent[s]["push"])
    BY <1>1, <2>1, PipelineIgnores DEF Flow, Acks
  <2>3. inbox'[s]["server"] = Append(inbox[s]["server"], m)
    BY <2>1, SendEffect, SendDelivers DEF Live
  <2> QED
    BY <2>2, <2>3, SendEffect DEF Acks
<1>4. Answered(s)'
  BY SendEffect DEF Flow, Answered
<1> QED
  BY <1>2, <1>3, <1>4, SendKept DEF Flow

LEMMA AckSent ==
  ASSUME Typed, Typed', Protocol, NEW s \in Streams, SendOK(s, "recv"), Flow(s)
  PROVE  Flow(s)'
<1> USE Sides, SendFacts
<1> DEFINE m == hand[s]["recv"]
<1>1. m.kind = "ack" /\ m \in Msg
  BY SendEffect DEF Flow, Spoken
<1>2. Echoing(s)' => Hellos(s)'
  <2> SUFFICES ASSUME Echoing(s)' PROVE Hellos(s)'
    OBVIOUS
  <2>1. Echoing(s)
    BY SendEffect DEF Echoing
  <2>2. Pipeline(inbox[s]["client"], Sending(s, "echo"), "echoHello",
                 Append(inbox[s]["server"], m), Sending(s, "hello"), "hello",
                 heard[s]["client"], sent[s]["hello"])
    BY <1>1, <2>1, PipelineIgnores DEF Flow, Hellos
  <2>3. inbox'[s]["server"] = Append(inbox[s]["server"], m)
    BY <2>1, SendEffect, SendDelivers DEF Echoing
  <2> QED
    BY <2>2, <2>3, SendEffect DEF Hellos
<1>3. Live(s)' => Acks(s)'
  <2> SUFFICES ASSUME Live(s)' PROVE Acks(s)'
    OBVIOUS
  <2>1. Live(s)
    BY SendEffect DEF Live
  <2>2. Pipeline(Append(inbox[s]["server"], m), << >>, "ack",
                 inbox[s]["client"], Sending(s, "push"), "push",
                 heard[s]["server"], sent[s]["push"])
    <3>1. Pipeline(inbox[s]["server"], <<m>>, "ack",
                   inbox[s]["client"], Sending(s, "push"), "push",
                   heard[s]["server"], sent[s]["push"])
      BY <2>1, SendEffect DEF Flow, Acks
    <3> QED
      BY <1>1, <3>1, PipelineSenderSends
  <2>3. inbox'[s]["server"] = Append(inbox[s]["server"], m)
    BY <2>1, SendEffect, SendDelivers DEF Live
  <2> QED
    BY <2>2, <2>3, SendEffect DEF Acks
<1>4. Answered(s)'
  BY SendEffect DEF Flow, Answered
<1> QED
  BY <1>2, <1>3, <1>4, SendKept DEF Flow

LEMMA PushSent ==
  ASSUME Typed, Typed', Protocol, NEW s \in Streams, SendOK(s, "push"), Flow(s)
  PROVE  Flow(s)'
<1> USE Sides, SendFacts
<1> DEFINE m == hand[s]["push"]
<1>1. m.kind = "push" /\ m \in Msg
  BY SendEffect DEF Flow, Spoken
<1>2. Echoing(s)' => Hellos(s)'
  <2> SUFFICES ASSUME Echoing(s)' PROVE Hellos(s)'
    OBVIOUS
  <2>1. Echoing(s)
    BY SendEffect DEF Echoing
  <2>2. Pipeline(Append(inbox[s]["client"], m), Sending(s, "echo"), "echoHello",
                 inbox[s]["server"], Sending(s, "hello"), "hello",
                 heard[s]["client"], sent[s]["hello"])
    BY <1>1, <2>1, PipelineIgnores DEF Flow, Hellos
  <2>3. inbox'[s]["client"] = Append(inbox[s]["client"], m)
    BY <2>1, SendEffect, SendDelivers DEF Echoing
  <2> QED
    BY <2>2, <2>3, SendEffect DEF Hellos
<1>3. Live(s)' => Acks(s)'
  <2> SUFFICES ASSUME Live(s)' PROVE Acks(s)'
    OBVIOUS
  <2>1. Live(s)
    BY SendEffect DEF Live
  <2>2. Pipeline(inbox[s]["server"], Sending(s, "recv"), "ack",
                 Append(inbox[s]["client"], m), << >>, "push",
                 heard[s]["server"], sent[s]["push"])
    <3>1. Pipeline(inbox[s]["server"], Sending(s, "recv"), "ack",
                   inbox[s]["client"], <<m>>, "push",
                   heard[s]["server"], sent[s]["push"])
      BY <2>1, SendEffect DEF Flow, Acks
    <3> QED
      BY <1>1, <3>1, PipelineMakerSends
  <2>3. inbox'[s]["client"] = Append(inbox[s]["client"], m)
    BY <2>1, SendEffect, SendDelivers DEF Live
  <2> QED
    BY <2>2, <2>3, SendEffect DEF Acks
<1>4. Answered(s)'
  <2>1. Answered(s)
    BY DEF Flow
  <2>2. CASE Delivers(s, "client")
    <3>1. inbox'[s]["client"] = Append(inbox[s]["client"], m)
      BY <2>2, SendEffect
    <3> QED
      BY <1>1, <2>1, <3>1, FollowsAppend, SendEffect DEF Answered
  <2>3. CASE ~Delivers(s, "client")
    BY <2>1, <2>3, SendEffect DEF Answered
  <2> QED
    BY <2>2, <2>3
<1> QED
  BY <1>2, <1>3, <1>4, SendKept DEF Flow

LEMMA EchoSent ==
  ASSUME Typed, Typed', Protocol, NEW s \in Streams, SendOK(s, "echo"), Flow(s)
  PROVE  Flow(s)'
<1> USE Sides, SendFacts
<1> DEFINE m == hand[s]["echo"]
<1>1. m.kind # "push" /\ m \in Msg
  BY SendEffect DEF Flow, Spoken
<1>2. ASSUME Echoing(s)
      PROVE  Pipeline(Append(inbox[s]["client"], m), << >>, "echoHello",
                      inbox[s]["server"], Sending(s, "hello"), "hello",
                      heard[s]["client"], sent[s]["hello"])
  <2>1. Pipeline(inbox[s]["client"], <<m>>, "echoHello",
                 inbox[s]["server"], Sending(s, "hello"), "hello",
                 heard[s]["client"], sent[s]["hello"])
    BY <1>2, SendEffect DEF Flow, Hellos
  <2> QED
    BY <1>1, <2>1, PipelineSenderSends
<1>3. Echoing(s)' => Hellos(s)'
  <2> SUFFICES ASSUME Echoing(s)' PROVE Hellos(s)'
    OBVIOUS
  <2>1. Echoing(s)
    BY SendEffect DEF Echoing
  <2>2. inbox'[s]["client"] = Append(inbox[s]["client"], m)
    BY <2>1, SendEffect, SendDelivers DEF Echoing
  <2> QED
    BY <1>2, <2>1, <2>2, SendEffect DEF Hellos
<1>4. Live(s)' => Acks(s)'
  <2> SUFFICES ASSUME Live(s)' PROVE Acks(s)'
    OBVIOUS
  <2>1. Live(s)
    BY SendEffect DEF Live
  <2>2. Pipeline(inbox[s]["server"], Sending(s, "recv"), "ack",
                 Append(inbox[s]["client"], m), Sending(s, "push"), "push",
                 heard[s]["server"], sent[s]["push"])
    BY <1>1, <2>1, PipelineIgnores DEF Flow, Acks
  <2>3. inbox'[s]["client"] = Append(inbox[s]["client"], m)
    BY <2>1, SendEffect, SendDelivers DEF Live
  <2> QED
    BY <2>2, <2>3, SendEffect DEF Acks
<1>5. Answered(s)'
  <2>1. Answered(s)
    BY DEF Flow
  <2>2. CASE Delivers(s, "client")
    <3>1. inbox'[s]["client"] = Append(inbox[s]["client"], m)
      BY <2>2, SendEffect
    <3>2. Echoing(s)
      BY <2>2, SendEffect DEF Delivers, Echoing
    <3>3. PICK j \in heard[s]["client"]..sent[s]["hello"] :
            Carries(Append(inbox[s]["client"], m), "echoHello", heard[s]["client"], j)
      BY <1>2, <3>2 DEF Pipeline
    <3>4. Append(inbox[s]["client"], m) \in Seq(Msg) /\ j \in Nat /\ j <= sent[s]["hello"]
      BY <1>1, AppendMeans
    <3> DEFINE q == Append(inbox[s]["client"], m)
    <3>5. Follows(q, Len(q), "echoHello", heard[s]["client"], sent[s]["hello"])
      BY <3>3, <3>4, CarriesFollows
    <3>6. inbox'[s]["client"] = q /\ UNCHANGED <<heard, sent>>
      BY <3>1, SendEffect
    <3> HIDE DEF q
    <3> QED
      BY <3>5, <3>6 DEF Answered
  <2>3. CASE ~Delivers(s, "client")
    BY <2>1, <2>3, SendEffect DEF Answered
  <2> QED
    BY <2>2, <2>3
<1> QED
  BY <1>3, <1>4, <1>5, SendKept DEF Flow

-----------------------------------------------------------------------------
(* Recv *)

LEMMA ClientRecvEffect ==
  ASSUME Typed, NEW s \in Streams, ClientRecv(s),
         NEW m, m = Head(inbox[s]["client"])
  PROVE  /\ inbox[s]["client"] # << >> /\ m.kind \notin EndMarks /\ m \in Msg
         /\ inbox'[s]["client"] = Tail(inbox[s]["client"])
         /\ inbox'[s]["server"] = inbox[s]["server"]
         /\ heard'[s]["client"] = IF m.kind = "echoHello" THEN m.n ELSE heard[s]["client"]
         /\ heard'[s]["server"] = heard[s]["server"]
         /\ Sending(s, "recv") = << >>
         /\ Sending(s, "recv")' = IF m.kind = "push" THEN <<Ack(m)>> ELSE << >>
         /\ \A x \in Roles \ {"recv"} : /\ Sending(s, x)' = Sending(s, x)
                                        /\ pc'[s][x] = pc[s][x] /\ hand'[s][x] = hand[s][x]
         /\ pc'[s]["recv"] = "send" => hand'[s]["recv"].kind = "ack"
         /\ pc[s]["recv"] = "recv"
         /\ UNCHANGED <<cur, sent, open, link>>
         /\ \A t \in Streams \ {s} : Same(t)
<1> USE FlowTypes, Sides
<1> DEFINE q == Tail(inbox[s]["client"])
<1>1. inbox[s]["client"] # << >> /\ m.kind \notin EndMarks /\ m \in Msg
  BY TailMeans DEF ClientRecv
<1>2. /\ inbox' = [inbox EXCEPT ![s]["client"] = q]
      /\ heard' = IF m.kind = "echoHello" THEN [heard EXCEPT ![s]["client"] = m.n] ELSE heard
      /\ IF m.kind = "push" THEN /\ hand' = [hand EXCEPT ![s]["recv"] = Ack(m)]
                                 /\ pc' = [pc EXCEPT ![s]["recv"] = "send"]
                            ELSE hand' = hand /\ pc' = pc
      /\ pc[s]["recv"] = "recv" /\ UNCHANGED <<cur, sent, open, link>>
  BY DEF ClientRecv, IsPush
<1> HIDE DEF q
<1>3. inbox'[s]["client"] = q /\ inbox'[s]["server"] = inbox[s]["server"]
      /\ \A t \in Streams \ {s} : inbox'[t] = inbox[t]
  BY <1>2
<1>4. /\ heard'[s]["client"] = IF m.kind = "echoHello" THEN m.n ELSE heard[s]["client"]
      /\ heard'[s]["server"] = heard[s]["server"]
      /\ \A t \in Streams \ {s} : heard'[t] = heard[t]
  BY <1>2
<1>5. /\ \A x \in Roles \ {"recv"} : pc'[s][x] = pc[s][x] /\ hand'[s][x] = hand[s][x]
      /\ \A t \in Streams \ {s} : pc'[t] = pc[t] /\ hand'[t] = hand[t]
      /\ IF m.kind = "push" THEN pc'[s]["recv"] = "send" /\ hand'[s]["recv"] = Ack(m)
                            ELSE pc'[s]["recv"] = "recv"
  <2>1. CASE m.kind = "push"
    BY <1>2, <2>1
  <2>2. CASE m.kind # "push"
    BY <1>2, <2>2
  <2> QED
    BY <2>1, <2>2
<1>6. /\ Sending(s, "recv") = << >>
      /\ Sending(s, "recv")' = IF m.kind = "push" THEN <<Ack(m)>> ELSE << >>
      /\ \A x \in Roles \ {"recv"} : Sending(s, x)' = Sending(s, x)
  BY <1>2, <1>5 DEF Sending
<1>7. pc'[s]["recv"] = "send" => hand'[s]["recv"].kind = "ack"
  BY <1>1, <1>5, MessageTypes
<1>8. \A t \in Streams \ {s} : Same(t)
  BY <1>2, <1>3, <1>4, <1>5 DEF Same
<1>9. inbox'[s]["client"] = Tail(inbox[s]["client"])
  BY <1>3 DEF q
<1> QED
  BY <1>1, <1>2, <1>3, <1>4, <1>5, <1>6, <1>7, <1>8, <1>9

LEMMA EndedTail ==
  ASSUME NEW q \in Seq(Msg), q # << >>, \A i \in 1..Len(q) : q[i].kind \notin EndMarks
  PROVE  \A i \in 1..Len(Tail(q)) : Tail(q)[i].kind \notin EndMarks
<1> DEFINE p == Tail(q)
           l == Len(p)
<1>1. l \in Nat /\ Len(q) = l + 1 /\ \A i \in 1..l : p[i] = q[i + 1]
  BY TailMeans
<1>2. \A i \in 1..(l + 1) : q[i].kind \notin EndMarks
  BY <1>1
<1> HIDE DEF p, l
<1>3. \A i \in 1..l : p[i].kind \notin EndMarks
  BY <1>1, <1>2
<1> QED
  BY <1>3 DEF p, l

LEMMA ClientReceives ==
  ASSUME Typed, Typed', Protocol, NEW s \in Streams, ClientRecv(s), Flow(s)
  PROVE  Flow(s)'
<1> USE Sides, SendFacts
<1>1. PICK m : m = Head(inbox[s]["client"])
  OBVIOUS
<1>2. /\ inbox[s]["client"] # << >> /\ m.kind \notin EndMarks /\ m \in Msg
      /\ inbox'[s]["client"] = Tail(inbox[s]["client"])
      /\ UNCHANGED <<cur, sent, open, link>>
  BY <1>1, ClientRecvEffect
<1>3. Ack(m) \in Msg /\ Ack(m).kind = "ack" /\ Ack(m).n = m.n
  BY <1>2, MessageTypes DEF Ack
<1>4. Untouched(s)' /\ Spoken(s)'
  BY <1>1, <1>2, ClientRecvEffect, Opened DEF Flow, Untouched, Spoken
<1>5. Whole(s)'
  <2> SUFFICES ASSUME link[s] = "up", open[s]["server"] PROVE open[s]["client"] /\ ~Ended(s)'
    BY <1>2 DEF Whole
  <2>1. open[s]["client"] /\ ~Ended(s)
    BY DEF Flow, Whole
  <2>2. \A i \in 1..Len(Tail(inbox[s]["client"])) :
          Tail(inbox[s]["client"])[i].kind \notin EndMarks
    BY <1>2, <2>1, EndedTail DEF Ended
  <2> QED
    BY <1>2, <2>1, <2>2 DEF Ended
<1>6. Answered(s)'
  <2>1. /\ m.kind = "echoHello" =>
             /\ m.n = heard[s]["client"] + 1
             /\ Follows(Tail(inbox[s]["client"]), Len(Tail(inbox[s]["client"])), "echoHello",
                        heard[s]["client"] + 1, sent[s]["hello"])
        /\ m.kind # "echoHello" =>
             Follows(Tail(inbox[s]["client"]), Len(Tail(inbox[s]["client"])), "echoHello",
                     heard[s]["client"], sent[s]["hello"])
    BY <1>1, <1>2, FollowsRead DEF Flow, Answered
  <2>2. heard'[s]["client"] = IF m.kind = "echoHello" THEN m.n ELSE heard[s]["client"]
    BY <1>1, ClientRecvEffect
  <2> QED
    BY <1>2, <2>1, <2>2 DEF Answered
<1>7. Echoing(s)' => Hellos(s)'
  <2> SUFFICES ASSUME Echoing(s)' PROVE Hellos(s)'
    OBVIOUS
  <2>1. Hellos(s)
    BY <1>1, ClientRecvEffect DEF Echoing, Flow
  <2>2. /\ Sending(s, "echo")' = Sending(s, "echo") /\ Sending(s, "hello")' = Sending(s, "hello")
        /\ inbox'[s]["server"] = inbox[s]["server"]
        /\ heard'[s]["client"] = IF m.kind = "echoHello" THEN m.n ELSE heard[s]["client"]
    BY <1>1, ClientRecvEffect
  <2>3. CASE m.kind = "echoHello"
    <3>1. m.n = heard[s]["client"] + 1
          /\ Pipeline(Tail(inbox[s]["client"]), Sending(s, "echo"), "echoHello",
                      inbox[s]["server"], Sending(s, "hello"), "hello",
                      heard[s]["client"] + 1, sent[s]["hello"])
      BY <1>1, <1>2, <2>1, <2>3, PipelineArrives DEF Hellos
    <3> QED
      BY <1>2, <2>2, <2>3, <3>1 DEF Hellos
  <2>4. CASE m.kind # "echoHello"
    <3>1. Pipeline(Tail(inbox[s]["client"]), Sending(s, "echo"), "echoHello",
                   inbox[s]["server"], Sending(s, "hello"), "hello",
                   heard[s]["client"], sent[s]["hello"])
      BY <1>1, <1>2, <2>1, <2>4, PipelineIgnores DEF Hellos
    <3> QED
      BY <1>2, <2>2, <2>4, <3>1 DEF Hellos
  <2> QED
    BY <2>3, <2>4
<1>8. Live(s)' => Acks(s)'
  <2> SUFFICES ASSUME Live(s)' PROVE Acks(s)'
    OBVIOUS
  <2>1. Acks(s)
    BY <1>1, ClientRecvEffect DEF Live, Flow
  <2>2. /\ Sending(s, "push")' = Sending(s, "push") /\ Sending(s, "recv") = << >>
        /\ Sending(s, "recv")' = IF m.kind = "push" THEN <<Ack(m)>> ELSE << >>
        /\ inbox'[s]["server"] = inbox[s]["server"]
        /\ heard'[s]["server"] = heard[s]["server"]
    BY <1>1, ClientRecvEffect
  <2>3. CASE m.kind = "push"
    <3>1. Pipeline(inbox[s]["server"], <<Ack(m)>>, "ack",
                   Tail(inbox[s]["client"]), Sending(s, "push"), "push",
                   heard[s]["server"], sent[s]["push"])
      BY <1>1, <1>2, <1>3, <2>1, <2>2, <2>3, PipelineForward DEF Acks
    <3> QED
      BY <1>2, <2>2, <2>3, <3>1 DEF Acks
  <2>4. CASE m.kind # "push"
    <3>1. Pipeline(inbox[s]["server"], << >>, "ack",
                   Tail(inbox[s]["client"]), Sending(s, "push"), "push",
                   heard[s]["server"], sent[s]["push"])
      BY <1>1, <1>2, <2>1, <2>2, <2>4, PipelineIgnores DEF Acks
    <3> QED
      BY <1>2, <2>2, <2>4, <3>1 DEF Acks
  <2> QED
    BY <2>3, <2>4
<1> QED
  BY <1>4, <1>5, <1>6, <1>7, <1>8 DEF Flow

LEMMA ServerRecvEffect ==
  ASSUME Typed, NEW s \in Streams, ServerRecv(s),
         NEW m, m = Head(inbox[s]["server"])
  PROVE  /\ inbox[s]["server"] # << >> /\ m.kind \in {"hello", "ack"} /\ m \in Msg
         /\ inbox'[s]["server"] = Tail(inbox[s]["server"])
         /\ inbox'[s]["client"] = inbox[s]["client"]
         /\ heard'[s]["server"] = IF m.kind = "ack" THEN m.n ELSE heard[s]["server"]
         /\ heard'[s]["client"] = heard[s]["client"]
         /\ Sending(s, "echo") = << >> /\ Sending(s, "echo")' = <<Echo(m)>>
         /\ hand'[s]["echo"] = Echo(m)
         /\ \A x \in Roles \ {"echo"} : /\ Sending(s, x)' = Sending(s, x)
                                        /\ pc'[s][x] = pc[s][x] /\ hand'[s][x] = hand[s][x]
         /\ pc[s]["echo"] = "recv"
         /\ UNCHANGED <<cur, sent, open, link>>
         /\ \A t \in Streams \ {s} : Same(t)
<1> USE FlowTypes, Sides
<1> DEFINE q == Tail(inbox[s]["server"])
<1>1. inbox[s]["server"] # << >> /\ m.kind \in {"hello", "ack"} /\ m \in Msg
  <2>1. inbox[s]["server"] # << >>
    BY DEF ServerRecv
  <2>2. inbox[s]["server"] \in Seq(MsgTo("server"))
    BY DEF Typed, TypeOK
  <2>3. m \in MsgTo("server")
    BY <2>1, <2>2
  <2> QED
    BY <2>1, <2>3, MessageTypes DEF MsgTo
<1>2. /\ inbox' = [inbox EXCEPT ![s]["server"] = q]
      /\ heard' = IF m.kind = "ack" THEN [heard EXCEPT ![s]["server"] = m.n] ELSE heard
      /\ hand' = [hand EXCEPT ![s]["echo"] = Echo(m)]
      /\ pc' = [pc EXCEPT ![s]["echo"] = "send"]
      /\ pc[s]["echo"] = "recv" /\ UNCHANGED <<cur, sent, open, link>>
  BY DEF ServerRecv
<1> HIDE DEF q
<1>3. inbox'[s]["server"] = q /\ inbox'[s]["client"] = inbox[s]["client"]
      /\ \A t \in Streams \ {s} : inbox'[t] = inbox[t]
  BY <1>2
<1>4. /\ heard'[s]["server"] = IF m.kind = "ack" THEN m.n ELSE heard[s]["server"]
      /\ heard'[s]["client"] = heard[s]["client"]
      /\ \A t \in Streams \ {s} : heard'[t] = heard[t]
  BY <1>2
<1>5. /\ \A x \in Roles \ {"echo"} : pc'[s][x] = pc[s][x] /\ hand'[s][x] = hand[s][x]
      /\ \A t \in Streams \ {s} : pc'[t] = pc[t] /\ hand'[t] = hand[t]
      /\ pc'[s]["echo"] = "send" /\ hand'[s]["echo"] = Echo(m)
  BY <1>2
<1>6. /\ Sending(s, "echo") = << >> /\ Sending(s, "echo")' = <<Echo(m)>>
      /\ \A x \in Roles \ {"echo"} : Sending(s, x)' = Sending(s, x)
  BY <1>2, <1>5 DEF Sending
<1>7. \A t \in Streams \ {s} : Same(t)
  BY <1>2, <1>3, <1>4, <1>5 DEF Same
<1>8. inbox'[s]["server"] = Tail(inbox[s]["server"])
  BY <1>3 DEF q
<1> QED
  BY <1>1, <1>2, <1>3, <1>4, <1>5, <1>6, <1>7, <1>8

LEMMA ServerReceives ==
  ASSUME Typed, Typed', Protocol, NEW s \in Streams, ServerRecv(s), Flow(s)
  PROVE  Flow(s)'
<1> USE Sides, SendFacts
<1>1. PICK m : m = Head(inbox[s]["server"])
  OBVIOUS
<1>2. /\ inbox[s]["server"] # << >> /\ m.kind \in {"hello", "ack"} /\ m \in Msg
      /\ inbox'[s]["server"] = Tail(inbox[s]["server"])
      /\ inbox'[s]["client"] = inbox[s]["client"]
      /\ heard'[s]["client"] = heard[s]["client"]
      /\ UNCHANGED <<cur, sent, open, link>>
  BY <1>1, ServerRecvEffect
<1>3. Echo(m) \in Msg /\ Echo(m).n = m.n
      /\ Echo(m).kind = IF m.kind = "hello" THEN "echoHello" ELSE "echoAck"
  BY <1>2, MessageTypes DEF Echo
<1>4. Untouched(s)' /\ Spoken(s)'
  BY <1>1, <1>2, <1>3, ServerRecvEffect, Opened DEF Flow, Untouched, Spoken
<1>5. Whole(s)' /\ Answered(s)'
  BY <1>2 DEF Flow, Whole, Ended, Answered
<1>6. Echoing(s)' => Hellos(s)'
  <2> SUFFICES ASSUME Echoing(s)' PROVE Hellos(s)'
    OBVIOUS
  <2>1. Hellos(s)
    BY <1>1, ServerRecvEffect DEF Echoing, Flow
  <2>2. /\ Sending(s, "echo") = << >> /\ Sending(s, "echo")' = <<Echo(m)>>
        /\ Sending(s, "hello")' = Sending(s, "hello")
    BY <1>1, ServerRecvEffect
  <2>3. CASE m.kind = "hello"
    <3>1. Pipeline(inbox[s]["client"], <<Echo(m)>>, "echoHello",
                   Tail(inbox[s]["server"]), Sending(s, "hello"), "hello",
                   heard[s]["client"], sent[s]["hello"])
      BY <1>1, <1>2, <1>3, <2>1, <2>2, <2>3, PipelineForward DEF Hellos
    <3> QED
      BY <1>2, <2>2, <3>1 DEF Hellos
  <2>4. CASE m.kind # "hello"
    <3>1. Pipeline(inbox[s]["client"], << >>, "echoHello",
                   Tail(inbox[s]["server"]), Sending(s, "hello"), "hello",
                   heard[s]["client"], sent[s]["hello"])
      BY <1>1, <1>2, <2>1, <2>2, <2>4, PipelineIgnores DEF Hellos
    <3>2. Pipeline(inbox[s]["client"], <<Echo(m)>>, "echoHello",
                   Tail(inbox[s]["server"]), Sending(s, "hello"), "hello",
                   heard[s]["client"], sent[s]["hello"])
      BY <1>2, <1>3, <2>4, <3>1, TailMeans, PipelineIgnores
    <3> QED
      BY <1>2, <2>2, <3>2 DEF Hellos
  <2> QED
    BY <2>3, <2>4
<1>7. Live(s)' => Acks(s)'
  <2> SUFFICES ASSUME Live(s)' PROVE Acks(s)'
    OBVIOUS
  <2>1. Acks(s)
    BY <1>1, ServerRecvEffect DEF Live, Flow
  <2>2. /\ Sending(s, "push")' = Sending(s, "push") /\ Sending(s, "recv")' = Sending(s, "recv")
        /\ heard'[s]["server"] = IF m.kind = "ack" THEN m.n ELSE heard[s]["server"]
    BY <1>1, ServerRecvEffect
  <2>3. CASE m.kind = "ack"
    <3>1. m.n = heard[s]["server"] + 1
          /\ Pipeline(Tail(inbox[s]["server"]), Sending(s, "recv"), "ack",
                      inbox[s]["client"], Sending(s, "push"), "push",
                      heard[s]["server"] + 1, sent[s]["push"])
      BY <1>1, <1>2, <2>1, <2>3, PipelineArrives DEF Acks
    <3> QED
      BY <1>2, <2>2, <2>3, <3>1 DEF Acks
  <2>4. CASE m.kind # "ack"
    <3>1. Pipeline(Tail(inbox[s]["server"]), Sending(s, "recv"), "ack",
                   inbox[s]["client"], Sending(s, "push"), "push",
                   heard[s]["server"], sent[s]["push"])
      BY <1>1, <1>2, <2>1, <2>4, PipelineIgnores DEF Acks
    <3> QED
      BY <1>2, <2>2, <2>4, <3>1 DEF Acks
  <2> QED
    BY <2>3, <2>4
<1> QED
  BY <1>4, <1>5, <1>6, <1>7 DEF Flow

-----------------------------------------------------------------------------
(* Tickers *)

LEMMA TickEffect ==
  ASSUME Typed, NEW s \in Streams, NEW r \in Tickers, Tick(s, r)
  PROVE  \E m \in Msg :
         /\ m.kind = r /\ m.n = sent[s][r] + 1
         /\ Sending(s, r) = << >> /\ Sending(s, r)' = <<m>> /\ hand'[s][r] = m
         /\ sent'[s][r] = sent[s][r] + 1
         /\ \A x \in Tickers \ {r} : sent'[s][x] = sent[s][x]
         /\ \A x \in Roles \ {r} : /\ Sending(s, x)' = Sending(s, x)
                                   /\ pc'[s][x] = pc[s][x] /\ hand'[s][x] = hand[s][x]
         /\ pc[s][r] = "select" /\ pc'[s][r] = "send"
         /\ UNCHANGED <<cur, inbox, heard, open, link>>
         /\ \A t \in Streams \ {s} : Same(t)
<1> USE FlowTypes, Sides
<1> DEFINE w == IF r = "hello" THEN Hello(sent[s][r] + 1) ELSE Push(sent[s][r] + 1)
<1>1. sent[s][r] + 1 \in Nat
  OBVIOUS
<1>2. w \in Msg /\ w.kind = r /\ w.n = sent[s][r] + 1
  BY <1>1, MessageTypes DEF Tickers, Hello, Push
<1>3. /\ hand' = [hand EXCEPT ![s][r] = w]
      /\ pc' = [pc EXCEPT ![s][r] = "send"]
      /\ sent' = [sent EXCEPT ![s][r] = @ + 1]
      /\ pc[s][r] = "select" /\ UNCHANGED <<cur, inbox, heard, open, link>>
  BY DEF Tick
<1> HIDE DEF w
<1>4. /\ \A x \in Roles \ {r} : pc'[s][x] = pc[s][x] /\ hand'[s][x] = hand[s][x]
      /\ \A t \in Streams \ {s} : pc'[t] = pc[t] /\ hand'[t] = hand[t] /\ sent'[t] = sent[t]
      /\ \A x \in Tickers \ {r} : sent'[s][x] = sent[s][x]
      /\ pc'[s][r] = "send" /\ hand'[s][r] = w /\ sent'[s][r] = sent[s][r] + 1
  BY <1>3
<1>5. /\ Sending(s, r) = << >> /\ Sending(s, r)' = <<w>>
      /\ \A x \in Roles \ {r} : Sending(s, x)' = Sending(s, x)
  BY <1>3, <1>4 DEF Sending
<1>6. \A t \in Streams \ {s} : Same(t)
  BY <1>3, <1>4 DEF Same
<1> QED
  BY <1>2, <1>3, <1>4, <1>5, <1>6

LEMMA HelloTicks ==
  ASSUME Typed, Typed', Protocol, NEW s \in Streams, Tick(s, "hello"), Flow(s)
  PROVE  Flow(s)'
<1> USE Sides, SendFacts
<1>1. PICK m \in Msg :
        /\ m.kind = "hello" /\ m.n = sent[s]["hello"] + 1
        /\ Sending(s, "hello") = << >> /\ Sending(s, "hello")' = <<m>> /\ hand'[s]["hello"] = m
        /\ sent'[s]["hello"] = sent[s]["hello"] + 1 /\ sent'[s]["push"] = sent[s]["push"]
        /\ \A x \in Roles \ {"hello"} : /\ Sending(s, x)' = Sending(s, x)
                                        /\ pc'[s][x] = pc[s][x] /\ hand'[s][x] = hand[s][x]
        /\ pc[s]["hello"] = "select" /\ pc'[s]["hello"] = "send"
        /\ UNCHANGED <<cur, inbox, heard, open, link>>
  BY TickEffect DEF Tickers
<1>2. Untouched(s)' /\ Spoken(s)' /\ Whole(s)'
  BY <1>1, Opened DEF Flow, Untouched, Spoken, Whole, Ended
<1>3. Answered(s)'
  <2> DEFINE q == inbox[s]["client"]
             l == Len(q)
             a == heard[s]["client"]
             b == sent[s]["hello"]
  <2>1. l \in Nat /\ \A i \in 1..l : q[i].n \in Nat
    BY MsgFields
  <2>2. Follows(q, l, "echoHello", a, b)
    BY DEF Flow, Answered
  <2>3. a \in Nat /\ b \in Nat
    OBVIOUS
  <2> HIDE DEF q, l, a, b
  <2>4. l \in 0..l /\ b + 1 \in Nat /\ b <= b + 1
    BY <2>3, <2>1
  <2>5. Follows(q, l, "echoHello", a, b + 1)
    BY <2>3, <2>1, <2>2, <2>4, FollowsWeaker
  <2> QED
    BY <1>1, <2>5 DEF Answered, q, l, a, b
<1>4. Echoing(s)' => Hellos(s)'
  <2> SUFFICES ASSUME Echoing(s)' PROVE Hellos(s)'
    OBVIOUS
  <2>1. Hellos(s)
    BY <1>1 DEF Echoing, Flow
  <2>2. Pipeline(inbox[s]["client"], Sending(s, "echo"), "echoHello",
                 inbox[s]["server"], <<m>>, "hello",
                 heard[s]["client"], sent[s]["hello"] + 1)
    BY <1>1, <2>1, PipelineMake DEF Hellos
  <2> QED
    BY <1>1, <2>2 DEF Hellos
<1>5. Live(s)' => Acks(s)'
  BY <1>1 DEF Live, Flow, Acks
<1> QED
  BY <1>2, <1>3, <1>4, <1>5 DEF Flow

LEMMA PushTicks ==
  ASSUME Typed, Typed', Protocol, NEW s \in Streams, Tick(s, "push"), Flow(s)
  PROVE  Flow(s)'
<1> USE Sides, SendFacts
<1>1. PICK m \in Msg :
        /\ m.kind = "push" /\ m.n = sent[s]["push"] + 1
        /\ Sending(s, "push") = << >> /\ Sending(s, "push")' = <<m>> /\ hand'[s]["push"] = m
        /\ sent'[s]["push"] = sent[s]["push"] + 1 /\ sent'[s]["hello"] = sent[s]["hello"]
        /\ \A x \in Roles \ {"push"} : /\ Sending(s, x)' = Sending(s, x)
                                       /\ pc'[s][x] = pc[s][x] /\ hand'[s][x] = hand[s][x]
        /\ pc[s]["push"] = "select" /\ pc'[s]["push"] = "send"
        /\ UNCHANGED <<cur, inbox, heard, open, link>>
  BY TickEffect DEF Tickers
<1>2. Untouched(s)' /\ Spoken(s)' /\ Whole(s)'
  BY <1>1, Opened DEF Flow, Untouched, Spoken, Whole, Ended
<1>3. Answered(s)'
  BY <1>1 DEF Flow, Answered
<1>4. Echoing(s)' => Hellos(s)'
  BY <1>1 DEF Echoing, Flow, Hellos
<1>5. Live(s)' => Acks(s)'
  <2> SUFFICES ASSUME Live(s)' PROVE Acks(s)'
    OBVIOUS
  <2>1. Acks(s)
    BY <1>1 DEF Live, Flow
  <2>2. Pipeline(inbox[s]["server"], Sending(s, "recv"), "ack",
                 inbox[s]["client"], <<m>>, "push",
                 heard[s]["server"], sent[s]["push"] + 1)
    BY <1>1, <2>1, PipelineMake DEF Acks
  <2> QED
    BY <1>1, <2>2 DEF Acks
<1> QED
  BY <1>2, <1>3, <1>4, <1>5 DEF Flow

-----------------------------------------------------------------------------
(* Steps that move no message *)

\* What r of stream s was doing between Sends it leaves; or it fails in one.
Turns(s, r) ==
  /\ UNCHANGED <<cur, inbox, heard, sent>>
  /\ pc'[s][r] # "send"
  /\ \A x \in Roles \ {r} : pc'[s][x] = pc[s][x] /\ hand'[s][x] = hand[s][x]

LEMMA FlowTurns ==
  ASSUME Typed, Protocol, NEW s \in Streams, NEW r \in Roles, Turns(s, r), pc[s][r] # "off",
         Flow(s), Whole(s)',
         Echoing(s)' => Echoing(s) /\ (pc[s][r] # "send" \/ r = "push"),
         Live(s)' => Live(s) /\ pc[s][r] # "send"
  PROVE  Flow(s)'
<1> USE Sides
<1>1. Untouched(s)' /\ Spoken(s)'
  BY Opened DEF Turns, Flow, Untouched, Spoken
<1>2. Answered(s)'
  BY DEF Turns, Flow, Answered
<1>3. /\ \A x \in Roles \ {r} : Sending(s, x)' = Sending(s, x)
      /\ pc[s][r] # "send" => Sending(s, r)' = Sending(s, r)
  BY DEF Turns, Sending
<1>4. Echoing(s)' => Hellos(s)'
  <2>1. Echoing(s)' => Sending(s, "hello")' = Sending(s, "hello")
                       /\ Sending(s, "echo")' = Sending(s, "echo")
    BY <1>3
  <2> QED
    BY <2>1 DEF Turns, Flow, Hellos
<1>5. Live(s)' => Acks(s)'
  <2>1. Live(s)' => Sending(s, "recv")' = Sending(s, "recv")
                    /\ Sending(s, "push")' = Sending(s, "push")
    BY <1>3
  <2> QED
    BY <2>1 DEF Turns, Flow, Acks
<1> QED
  BY <1>1, <1>2, <1>4, <1>5 DEF Flow

LEMMA SendFailsKept ==
  ASSUME Typed, Protocol, NEW s \in Streams, NEW r \in Roles, SendFails(s, r), Flow(s)
  PROVE  Flow(s)' /\ \A t \in Streams \ {s} : Same(t)
<1> USE Sides, FlowTypes
<1>1. /\ hand' = [hand EXCEPT ![s][r] = Nothing] /\ pc' = [pc EXCEPT ![s][r] = "err"]
      /\ pc[s][r] = "send" /\ ~open[s][Side(r)]
      /\ UNCHANGED <<cur, inbox, open, link, sent, heard>>
  BY DEF SendFails
<1>2. Turns(s, r) /\ (\A t \in Streams \ {s} : Same(t)) /\ pc'[s][r] = "err"
  BY <1>1 DEF Turns, Same
<1>3. Whole(s)'
  BY <1>1 DEF Flow, Whole, Ended
<1>4. ~Echoing(s)' /\ ~Live(s)'
  BY <1>1 DEF Flow, Whole, Echoing, Live, Side
<1> QED
  BY <1>1, <1>2, <1>3, <1>4, FlowTurns

LEMMA CollisionKept ==
  ASSUME Typed, Protocol, NEW s \in Streams, NEW r \in {"push", "echo"},
         FirstSendsCollide(s, r), Flow(s)
  PROVE  Flow(s)' /\ \A t \in Streams \ {s} : Same(t)
<1> USE Sides, FlowTypes
<1>1. /\ hand' = [hand EXCEPT ![s][r] = Nothing] /\ pc' = [pc EXCEPT ![s][r] = "err"]
      /\ pc[s][r] = "send" /\ r \in Roles
      /\ UNCHANGED <<cur, inbox, open, link, sent, heard>>
  BY DEF FirstSendsCollide
<1>2. Turns(s, r) /\ (\A t \in Streams \ {s} : Same(t)) /\ pc'[s][r] = "err"
  BY <1>1 DEF Turns, Same
<1>3. Whole(s)'
  BY <1>1 DEF Flow, Whole, Ended
<1>4. ~Live(s)' /\ (Echoing(s)' => Echoing(s) /\ r = "push")
  BY <1>1, <1>2 DEF Turns, Echoing, Live
<1> QED
  BY <1>1, <1>2, <1>3, <1>4, FlowTurns

LEMMA ReportKept ==
  ASSUME Typed, Protocol, NEW s \in Streams, NEW r \in Roles, Report(s, r), Flow(s)
  PROVE  Flow(s)' /\ \A t \in Streams \ {s} : Same(t)
<1> USE Sides, FlowTypes
<1>1. /\ pc' = [pc EXCEPT ![s][r] = "done"] /\ pc[s][r] \in {"nil", "err"}
      /\ UNCHANGED <<cur, hand, inbox, open, link, sent, heard>>
  BY DEF Report
<1>2. Turns(s, r) /\ (\A t \in Streams \ {s} : Same(t)) /\ pc'[s][r] = "done"
  BY <1>1 DEF Turns, Same
<1>3. Whole(s)'
  BY <1>1 DEF Flow, Whole, Ended
<1>4. (Live(s)' => Live(s)) /\ (Echoing(s)' => Echoing(s))
  BY <1>1, <1>2 DEF Turns, Echoing, Live
<1> QED
  BY <1>1, <1>2, <1>3, <1>4, FlowTurns

\* A goroutine finds that its stream is dead.
LEMMA DeathKept ==
  ASSUME Typed, Protocol, NEW s \in Streams, Flow(s),
         HelloCtxDone(s) \/ PushCtxDone(s) \/ ServerRecvFails(s)
  PROVE  Flow(s)' /\ \A t \in Streams \ {s} : Same(t)
<1> USE Sides, FlowTypes
<1>1. PICK r \in Roles, v \in {"nil", "err"} :
        /\ pc' = [pc EXCEPT ![s][r] = v] /\ pc[s][r] \in {"select", "recv"}
        /\ UNCHANGED <<cur, hand, inbox, open, link, sent, heard>>
  <2>1. CASE HelloCtxDone(s)
    BY <2>1 DEF HelloCtxDone
  <2>2. CASE PushCtxDone(s)
    BY <2>2 DEF PushCtxDone
  <2>3. CASE ServerRecvFails(s)
    BY <2>3 DEF ServerRecvFails
  <2> QED
    BY <2>1, <2>2, <2>3
<1>2. Turns(s, r) /\ (\A t \in Streams \ {s} : Same(t)) /\ pc'[s][r] = v
  BY <1>1 DEF Turns, Same
<1>3. Whole(s)'
  BY <1>1 DEF Flow, Whole, Ended
<1>4. (Live(s)' => Live(s)) /\ (Echoing(s)' => Echoing(s))
  BY <1>1, <1>2 DEF Turns, Echoing, Live
<1> QED
  BY <1>1, <1>2, <1>3, <1>4, FlowTurns

LEMMA ClientEndKept ==
  ASSUME Typed, Protocol, NEW s \in Streams, Flow(s), ClientRecvEnd(s)
  PROVE  Flow(s)' /\ \A t \in Streams \ {s} : Same(t)
<1> USE Sides, FlowTypes
<1>1. PICK v \in {"nil", "err"} :
        /\ pc' = [pc EXCEPT ![s]["recv"] = v] /\ pc[s]["recv"] = "recv"
        /\ open' = [open EXCEPT ![s]["client"] = FALSE]
        /\ UNCHANGED <<cur, hand, inbox, link, sent, heard>>
  BY DEF ClientRecvEnd, Outcome
<1>2. Ended(s)
  <2>1. inbox[s]["client"] # << >> /\ Head(inbox[s]["client"]).kind \in EndMarks
    BY DEF ClientRecvEnd
  <2>2. 1 \in 1..Len(inbox[s]["client"])
        /\ Head(inbox[s]["client"]) = inbox[s]["client"][1]
    BY <2>1, TailMeans
  <2> QED
    BY <2>1, <2>2 DEF Ended
<1>3. ~(link[s] = "up" /\ open[s]["server"])
  BY <1>2 DEF Flow, Whole
<1>4. /\ Turns(s, "recv") /\ \A t \in Streams \ {s} : Same(t)
      /\ open'[s]["server"] = open[s]["server"]
  BY <1>1 DEF Turns, Same
<1>5. Whole(s)' /\ ~Live(s)' /\ ~Echoing(s)'
  BY <1>1, <1>3, <1>4 DEF Whole, Live, Echoing
<1> QED
  BY <1>1, <1>4, <1>5, FlowTurns

LEMMA HandlerStartKept ==
  ASSUME Typed, Protocol, NEW s \in Streams, Flow(s), HandlerStarts(s)
  PROVE  Flow(s)' /\ \A t \in Streams \ {s} : Same(t)
<1> USE Sides, FlowTypes
<1>1. /\ pc' = [pc EXCEPT ![s]["push"] = "select", ![s]["echo"] = "recv"]
      /\ handler[s] = "off" /\ open[s]["server"]
      /\ UNCHANGED <<cur, hand, inbox, open, link, sent, heard>>
  BY DEF HandlerStarts
<1>2. pc[s]["push"] = "off" /\ pc[s]["echo"] = "off"
  BY <1>1 DEF Protocol, Unborn
<1>3. /\ pc'[s]["push"] = "select" /\ pc'[s]["echo"] = "recv"
      /\ pc'[s]["hello"] = pc[s]["hello"] /\ pc'[s]["recv"] = pc[s]["recv"]
      /\ \A t \in Streams \ {s} : pc'[t] = pc[t]
  BY <1>1
<1>4. \A x \in Roles : Sending(s, x)' = Sending(s, x)
  BY <1>1, <1>2, <1>3 DEF Sending, Roles
<1>5. (Echoing(s)' => Echoing(s)) /\ (Live(s)' => Live(s))
  BY <1>1, <1>2 DEF Echoing, Live
<1>6. Untouched(s)' /\ Spoken(s)' /\ Whole(s)' /\ Answered(s)'
  BY <1>1, <1>3 DEF Flow, Untouched, Spoken, Whole, Ended, Answered
<1>7. (Echoing(s)' => Hellos(s)') /\ (Live(s)' => Acks(s)')
  BY <1>1, <1>4, <1>5 DEF Flow, Hellos, Acks
<1>8. \A t \in Streams \ {s} : Same(t)
  BY <1>1, <1>3 DEF Same
<1> QED
  BY <1>6, <1>7, <1>8 DEF Flow

\* What ends a stream leaves its counters and may add a mark to what the client reads.
LEMMA FlowEnds ==
  ASSUME Typed, Protocol, NEW s \in Streams, Flow(s),
         \/ link[s] = "up" \/ \E e \in Ends : open[s][e] \/ \E r \in Roles : pc[s][r] # "off",
         UNCHANGED <<cur, hand, pc, sent, heard>>, ~(link'[s] = "up" /\ open'[s]["server"]),
         \/ inbox'[s]["client"] = inbox[s]["client"]
         \/ \E x \in EndMarks : inbox'[s]["client"] = Append(inbox[s]["client"], End(x))
  PROVE  Flow(s)'
<1> USE Sides, SendFacts
<1>1. Answered(s)'
  <2>1. Answered(s)
    BY DEF Flow
  <2>2. CASE inbox'[s]["client"] = inbox[s]["client"]
    BY <2>1, <2>2 DEF Answered
  <2>3. ASSUME NEW x \in EndMarks, inbox'[s]["client"] = Append(inbox[s]["client"], End(x))
        PROVE  Answered(s)'
    <3>1. End(x) \in Msg /\ End(x).kind # "echoHello"
      BY MessageTypes DEF EndMarks
    <3> QED
      BY <2>1, <2>3, <3>1, FollowsAppend DEF Answered
  <2> QED
    BY <2>2, <2>3
<1>2. ~Echoing(s)' /\ ~Live(s)' /\ Whole(s)'
  BY DEF Echoing, Live, Whole
<1>3. Untouched(s)' /\ Spoken(s)'
  BY Opened DEF Flow, Untouched, Spoken
<1> QED
  BY <1>1, <1>2, <1>3 DEF Flow

LEMMA HandlerReturnKept ==
  ASSUME Typed, Protocol, NEW s \in Streams, Flow(s), HandlerReturns(s)
  PROVE  Flow(s)' /\ \A t \in Streams \ {s} : Same(t)
<1> USE Sides, FlowTypes
<1> DEFINE x == IF Head(errCh[s]["server"]) = "nil" THEN "eof" ELSE "err"
           q == Append(inbox[s]["client"], End(x))
<1>1. /\ open' = [open EXCEPT ![s]["server"] = FALSE]
      /\ inbox' = inbox \/ inbox' = [inbox EXCEPT ![s]["client"] = q]
      /\ handler[s] = "wait" /\ errCh[s]["server"] # << >>
      /\ UNCHANGED <<cur, pc, hand, link, sent, heard>>
  BY DEF HandlerReturns
<1>2. x \in EndMarks
  BY DEF EndMarks
<1> HIDE DEF x, q
<1>3. /\ \A t \in Streams \ {s} : Same(t)
      /\ inbox'[s]["client"] = inbox[s]["client"] \/ inbox'[s]["client"] = q
      /\ ~open'[s]["server"]
  BY <1>1 DEF Same
<1>4. \E r \in Roles : pc[s][r] # "off"
  <2>1. Reported(s, "push") = 1 \/ Reported(s, "echo") = 1
    <3>1. Len(errCh[s]["server"]) \in Nat /\ Len(errCh[s]["server"]) > 0
      BY <1>1, ErrChLengths
    <3>2. Len(errCh[s]["server"]) + TakenByChat(s) = Reported(s, "push") + Reported(s, "echo")
      BY DEF Protocol, Accounts
    <3>3. /\ TakenByChat(s) \in {0, 1}
          /\ Reported(s, "push") \in {0, 1} /\ Reported(s, "echo") \in {0, 1}
      BY CounterTypes
    <3> QED
      BY <3>1, <3>2, <3>3
  <2> QED
    BY <2>1 DEF Reported
<1>5. \/ inbox'[s]["client"] = inbox[s]["client"]
      \/ \E y \in EndMarks : inbox'[s]["client"] = Append(inbox[s]["client"], End(y))
  BY <1>2, <1>3 DEF q
<1> QED
  BY <1>1, <1>3, <1>4, <1>5, FlowEnds

LEMMA ServerNoticeKept ==
  ASSUME Typed, Protocol, NEW s \in Streams, Flow(s), ServerNotices(s)
  PROVE  Flow(s)' /\ \A t \in Streams \ {s} : Same(t)
<1> USE Sides, FlowTypes
<1>1. /\ open' = [open EXCEPT ![s]["server"] = FALSE] /\ open[s]["server"] /\ link'[s] # "up"
      /\ UNCHANGED <<cur, pc, hand, inbox, link, sent, heard>>
  BY DEF ServerNotices
<1>2. \A t \in Streams \ {s} : Same(t)
  BY <1>1 DEF Same
<1> QED
  BY <1>1, <1>2, FlowEnds

LEMMA ClientNoticeKept ==
  ASSUME Typed, Protocol, NEW s \in Streams, Flow(s), ClientNotices(s)
  PROVE  Flow(s)' /\ \A t \in Streams \ {s} : Same(t)
<1> USE Sides, FlowTypes
<1> DEFINE q == Append(inbox[s]["client"], End("err"))
<1>1. /\ open' = [open EXCEPT ![s]["client"] = FALSE] /\ open[s]["client"]
      /\ inbox' = inbox \/ inbox' = [inbox EXCEPT ![s]["client"] = q]
      /\ link[s] = "lost" \/ Ended(s)
      /\ UNCHANGED <<cur, pc, hand, link, sent, heard>>
  BY DEF ClientNotices
<1> HIDE DEF q
<1>2. /\ \A t \in Streams \ {s} : Same(t)
      /\ inbox'[s]["client"] = inbox[s]["client"] \/ inbox'[s]["client"] = q
      /\ open'[s]["server"] = open[s]["server"]
  BY <1>1 DEF Same
<1>3. ~(link'[s] = "up" /\ open'[s]["server"])
  BY <1>1, <1>2 DEF Flow, Whole
<1>4. \/ inbox'[s]["client"] = inbox[s]["client"]
      \/ \E y \in EndMarks : inbox'[s]["client"] = Append(inbox[s]["client"], End(y))
  BY <1>2 DEF q, EndMarks
<1> QED
  BY <1>1, <1>2, <1>3, <1>4, FlowEnds

LEMMA LossKept ==
  ASSUME Typed, Protocol, NEW s \in Streams, Flow(s), LinkLost(s)
  PROVE  Flow(s)' /\ \A t \in Streams \ {s} : Same(t)
<1> USE Sides, FlowTypes
<1>1. PICK k \in 0..Len(inbox[s]["client"]), j \in 0..Len(inbox[s]["server"]) :
        inbox' = [inbox EXCEPT ![s] =
                   [e \in Ends |-> SubSeq(inbox[s][e], 1, IF e = "client" THEN k ELSE j)]]
  BY DEF LinkLost
<1>2. /\ link' = [link EXCEPT ![s] = "lost"] /\ link[s] = "up"
      /\ UNCHANGED <<cur, pc, hand, open, sent, heard>>
  BY DEF LinkLost
<1>3. /\ inbox'[s]["client"] = SubSeq(inbox[s]["client"], 1, k)
      /\ \A t \in Streams \ {s} : inbox'[t] = inbox[t]
  BY <1>1
<1>4. Answered(s)'
  <2>1. Follows(inbox[s]["client"], Len(inbox[s]["client"]), "echoHello",
                heard[s]["client"], sent[s]["hello"])
    BY DEF Flow, Answered
  <2>2. Follows(SubSeq(inbox[s]["client"], 1, k), Len(SubSeq(inbox[s]["client"], 1, k)),
                "echoHello", heard[s]["client"], sent[s]["hello"])
    BY <2>1, SendFacts, FollowsPrefix
  <2> QED
    BY <1>2, <1>3, <2>2 DEF Answered
<1>5. ~Echoing(s)' /\ ~Live(s)' /\ Whole(s)'
  BY <1>2 DEF Echoing, Live, Whole
<1>6. Untouched(s)' /\ Spoken(s)'
  BY <1>2, Opened DEF Flow, Untouched, Spoken
<1>7. \A t \in Streams \ {s} : Same(t)
  BY <1>2, <1>3 DEF Same
<1> QED
  BY <1>4, <1>5, <1>6, <1>7 DEF Flow

-----------------------------------------------------------------------------
(* The client's main goroutine *)

LEMMA OpenKept ==
  ASSUME Typed, Protocol, NEW s \in Streams, Flow(s), OpenStream, s = cur + 1
  PROVE  Flow(s)'
<1> USE Sides, FlowTypes
<1>1. /\ cur' = s /\ ~(s > cur') /\ s > cur
      /\ pc' = [pc EXCEPT ![s]["hello"] = "select", ![s]["recv"] = "recv"]
      /\ UNCHANGED <<hand, inbox, sent, heard>>
  BY DEF OpenStream
<1>2. /\ inbox[s]["client"] = << >> /\ inbox[s]["server"] = << >>
      /\ heard[s]["client"] = 0 /\ heard[s]["server"] = 0
      /\ sent[s]["hello"] = 0 /\ sent[s]["push"] = 0
  BY <1>1 DEF Flow, Untouched, Tickers
<1>3. \A r \in Roles : pc'[s][r] # "send"
  BY <1>1 DEF Protocol, Unborn, Roles
<1>4. \A r \in Roles : Sending(s, r)' = << >>
  BY <1>3 DEF Sending
<1>5. ~Ended(s)'
  BY <1>1, <1>2 DEF Ended
<1>6. open'[s]["client"]
  BY <1>1 DEF OpenStream
<1>7. Untouched(s)' /\ Spoken(s)' /\ Whole(s)'
  BY <1>1, <1>3, <1>5, <1>6 DEF Untouched, Spoken, Whole
<1>8. Hellos(s)' /\ Acks(s)'
  BY <1>1, <1>2, <1>4, PipelineEmpty DEF Hellos, Acks
<1>9. Answered(s)'
  BY <1>1, <1>2 DEF Answered, Follows
<1> QED
  BY <1>7, <1>8, <1>9 DEF Flow

LEMMA LoopReturnKept ==
  ASSUME Typed, Protocol, NEW s \in Streams, Flow(s), ChatLoopReturns
  PROVE  Flow(s)'
<1> USE Sides, FlowTypes
<1>1. /\ \/ link' = link
         \/ link' = [t \in Streams |-> "lost"]
      /\ UNCHANGED <<cur, pc, hand, inbox, open, sent, heard>>
  BY DEF ChatLoopReturns
<1>2. CASE link' = link
  <2>1. Same(s)
    BY <1>1, <1>2 DEF Same
  <2> QED
    BY <1>1, <2>1, FlowSame
<1>3. CASE link' = [t \in Streams |-> "lost"]
  <2>1. link'[s] = "lost"
    BY <1>3
  <2>2. Untouched(s)' /\ Spoken(s)' /\ Answered(s)'
    BY <1>1, <2>1 DEF Flow, Untouched, Spoken, Answered
  <2>3. ~Echoing(s)' /\ ~Live(s)' /\ Whole(s)'
    BY <2>1 DEF Echoing, Live, Whole
  <2> QED
    BY <2>2, <2>3 DEF Flow
<1> QED
  BY <1>1, <1>2, <1>3

-----------------------------------------------------------------------------

LEMMA FlowInit ==
  ASSUME Init, NEW s \in Streams
  PROVE  Flow(s)
<1> USE Sides
<1>1. /\ inbox[s]["client"] = << >> /\ heard[s]["client"] = 0 /\ sent[s]["hello"] = 0
      /\ link[s] = "lost" /\ \A r \in Roles : pc[s][r] = "off"
  BY DEF Init, Tickers
<1>2. Untouched(s)
  BY DEF Init, Untouched
<1>3. Spoken(s) /\ Whole(s) /\ ~Echoing(s) /\ ~Live(s)
  BY <1>1 DEF Spoken, Whole, Echoing, Live
<1>4. Answered(s)
  BY <1>1 DEF Answered, Follows
<1> QED
  BY <1>2, <1>3, <1>4 DEF Flow

\* One step of one stream.
LEMMA StreamStepKept ==
  ASSUME Typed, Typed', Protocol, NEW s \in Streams, Flow(s), StreamStep(s) \/ LinkLost(s)
  PROVE  Flow(s)' /\ \A t \in Streams \ {s} : Same(t)
<1>1. ASSUME NEW r \in Roles, SendOK(s, r) PROVE Flow(s)' /\ \A t \in Streams \ {s} : Same(t)
  <2>1. \A t \in Streams \ {s} : Same(t)
    BY <1>1, SendEffect
  <2>2. r = "hello" \/ r = "recv" \/ r = "push" \/ r = "echo"
    BY DEF Roles
  <2> QED
    BY <1>1, <2>1, <2>2, HelloSent, AckSent, PushSent, EchoSent
<1>2. ASSUME NEW r \in Tickers, Tick(s, r) PROVE Flow(s)' /\ \A t \in Streams \ {s} : Same(t)
  <2>1. \A t \in Streams \ {s} : Same(t)
    BY <1>2, TickEffect
  <2>2. r = "hello" \/ r = "push"
    BY DEF Tickers
  <2> QED
    BY <1>2, <2>1, <2>2, HelloTicks, PushTicks
<1>3. ASSUME ClientRecv(s) PROVE Flow(s)' /\ \A t \in Streams \ {s} : Same(t)
  <2>1. \A t \in Streams \ {s} : Same(t)
    BY <1>3, ClientRecvEffect
  <2> QED
    BY <1>3, <2>1, ClientReceives
<1>4. ASSUME ServerRecv(s) PROVE Flow(s)' /\ \A t \in Streams \ {s} : Same(t)
  <2>1. \A t \in Streams \ {s} : Same(t)
    BY <1>4, ServerRecvEffect
  <2> QED
    BY <1>4, <2>1, ServerReceives
<1> QED
  BY <1>1, <1>2, <1>3, <1>4, SendFailsKept, CollisionKept, ReportKept, DeathKept, ClientEndKept,
     HandlerStartKept, HandlerReturnKept, ServerNoticeKept, ClientNoticeKept, LossKept
     DEF StreamStep

\* The invariant behind the pipelines: for every stream, whatever is lost and whichever
\* goroutine fails first.
THEOREM FlowAlways == Spec => []\A s \in Streams : Flow(s)
<1>1. Init => \A s \in Streams : Flow(s)
  BY FlowInit
<1>2. /\ Typed /\ Typed' /\ Protocol /\ (\A s \in Streams : Flow(s)) /\ [Next]_vars
      => (\A s \in Streams : Flow(s))'
  <2> SUFFICES ASSUME Typed, Typed', Protocol, \A s \in Streams : Flow(s), [Next]_vars,
                      NEW t \in Streams
               PROVE  Flow(t)'
    OBVIOUS
  <2>1. ASSUME NEW s \in Streams, StreamStep(s) \/ LinkLost(s) PROVE Flow(t)'
    <3>1. Flow(s)' /\ \A u \in Streams \ {s} : Same(u)
      BY <2>1, StreamStepKept
    <3>2. cur' = cur
      BY <2>1 DEF StreamStep, LinkLost, SendOK, SendFails, Report, FirstSendsCollide, Tick,
                  HelloCtxDone, ClientRecv, ClientRecvEnd, HandlerStarts, PushCtxDone,
                  ServerRecv, ServerRecvFails, HandlerReturns, ServerNotices, ClientNotices
    <3>3. CASE t = s
      BY <3>1, <3>3
    <3>4. CASE t # s
      BY <3>1, <3>2, <3>4, FlowSame
    <3> QED
      BY <3>3, <3>4
  <2>2. CASE OpenStream
    <3>1. CASE t = cur + 1
      BY <2>2, <3>1, OpenKept
    <3>2. CASE t # cur + 1
      <4>1. Same(t)
        BY <2>2, <3>2, FlowTypes DEF OpenStream, Same
      <4>2. t > cur' => t > cur
        BY <2>2, FlowTypes DEF OpenStream
      <4> QED
        BY <4>1, <4>2, FlowSame
    <3> QED
      BY <3>1, <3>2
  <2>3. CASE DialFails \/ WakeUp \/ UNCHANGED vars
    <3>1. Same(t) /\ cur' = cur
      BY <2>3 DEF DialFails, WakeUp, vars, Same
    <3> QED
      BY <3>1, FlowSame
  <2>4. CASE ChatLoopReturns
    BY <2>4, LoopReturnKept
  <2> QED
    BY <2>1, <2>2, <2>3, <2>4 DEF Next, MainStep
<1> QED
  BY <1>1, <1>2, TypedAlways, ProtocolAlways, PTL DEF Spec

\* On a live stream the hellos between the ticker (client.go:91) and the log of their
\* echoes (client.go:124) are exactly the unanswered ones, in order.
THEOREM HellosInOrder == Spec => []HelloPipeline
<1>1. (\A s \in Streams : Flow(s)) => HelloPipeline
  BY FlowParts DEF Flow
<1> QED
  BY <1>1, FlowAlways, PTL

\* And the pushes between the ticker (server.go:50) and the log of their acknowledgements.
THEOREM AcksInOrder == Spec => []AckPipeline
<1>1. (\A s \in Streams : Flow(s)) => AckPipeline
  BY FlowParts DEF Flow
<1> QED
  BY <1>1, FlowAlways, PTL

-----------------------------------------------------------------------------
(* What a deadlock takes *)

LEMMA PlacesFinite ==
  ASSUME NEW q \in Seq(Msg), NEW kind
  PROVE  IsFiniteSet(Places(q, kind)) /\ Cardinality(Places(q, kind)) \in Nat
<1>1. Len(q) \in Nat
  BY MsgFields
<1>2. IsFiniteSet(1..Len(q))
  BY <1>1, FS_Interval
<1>3. Places(q, kind) \subseteq 1..Len(q)
  BY DEF Places
<1> QED
  BY <1>2, <1>3, FS_Subset, FS_CardinalityType

\* As many messages of the kind as numbers.
LEMMA CarriesCount ==
  ASSUME NEW q \in Seq(Msg), NEW kind, NEW a \in Nat, NEW b \in Nat, Carries(q, kind, a, b)
  PROVE  Cardinality(Places(q, kind)) = b - a
<1> DEFINE P == Places(q, kind)
           T == (a + 1)..b
           F == [i \in P |-> q[i].n]
<1>1. a <= b /\ {q[i].n : i \in P} = T /\ \A i, j \in P : i < j => q[i].n < q[j].n
  BY DEF Carries
<1>2. \A i \in P : i \in Nat /\ q[i].n \in Nat
  BY MsgFields DEF Places
<1> HIDE DEF P
<1>3. F \in [P -> T]
  BY <1>1
<1>4. \A i, j \in P : F[i] = F[j] => i = j
  <2> SUFFICES ASSUME NEW i \in P, NEW j \in P, q[i].n = q[j].n PROVE i = j
    OBVIOUS
  <2> QED
    BY <1>1, <1>2
<1>5. \A t \in T : \E i \in P : F[i] = t
  BY <1>1
<1>6. F \in Bijection(P, T)
  BY <1>3, <1>4, <1>5, Fun_IsBij
<1>7. ExistsBijection(P, T)
  BY <1>6 DEF ExistsBijection
<1>8. IsFiniteSet(P)
  BY PlacesFinite DEF P
<1>9. Cardinality(T) = Cardinality(P)
  BY <1>7, <1>8, FS_Bijection
<1>10. Cardinality(T) = b - a
  <2>1. a + 1 \in Int /\ b \in Int /\ a <= b
    BY <1>1
  <2>2. Cardinality(T) = IF a + 1 > b THEN 0 ELSE b - (a + 1) + 1
    BY <2>1, FS_Interval
  <2> QED
    BY <2>1, <2>2
<1> QED
  BY <1>9, <1>10 DEF P

\* A pipeline holds as many messages as its numbers say.
LEMMA PipelineCount ==
  ASSUME NEW last \in Seq(Msg), NEW sender \in Seq(Msg), NEW kind, NEW first \in Seq(Msg),
         NEW maker, NEW made, NEW a \in Nat, NEW b \in Nat,
         Pipeline(last, sender, kind, first, maker, made, a, b)
  PROVE  b - a >= Cardinality(Places(last, kind)) + Cardinality(Places(sender, kind))
                  + Cardinality(Places(first, made))
<1>1. PICK i, j, k \in a..b :
        /\ Carries(last, kind, a, i) /\ Carries(sender, kind, i, j)
        /\ Carries(first, made, j, k) /\ Carries(maker, made, k, b)
  BY DEF Pipeline
<1>2. /\ Cardinality(Places(last, kind)) = i - a
      /\ Cardinality(Places(sender, kind)) = j - i
      /\ Cardinality(Places(first, made)) = k - j
  BY <1>1, CarriesCount
<1> QED
  BY <1>1, <1>2

\* The kinds of a sequence make up its length.
LEMMA PlacesUnion ==
  ASSUME NEW q \in Seq(Msg), NEW x, NEW y, NEW z, x # y, x # z, y # z,
         \A i \in 1..Len(q) : q[i].kind \in {x, y, z}
  PROVE  Cardinality(Places(q, x)) + Cardinality(Places(q, y)) + Cardinality(Places(q, z))
           = Len(q)
<1> DEFINE X == Places(q, x)
           Y == Places(q, y)
           Z == Places(q, z)
<1>1. IsFiniteSet(X) /\ IsFiniteSet(Y) /\ IsFiniteSet(Z)
      /\ Cardinality(X) \in Nat /\ Cardinality(Y) \in Nat /\ Cardinality(Z) \in Nat
  BY PlacesFinite
<1>2. X \cap Y = {} /\ (X \cup Y) \cap Z = {} /\ (X \cup Y) \cup Z = 1..Len(q)
  BY DEF Places
<1>3. Cardinality({}) = 0
  BY FS_EmptySet
<1>4. Len(q) \in Nat /\ Cardinality(1..Len(q)) = Len(q)
  <2>1. Len(q) \in Nat
    BY MsgFields
  <2> QED
    BY <2>1, FS_Interval
<1> HIDE DEF X, Y, Z
<1>5. IsFiniteSet(X \cup Y) /\ Cardinality(X \cup Y) = Cardinality(X) + Cardinality(Y)
  <2>1. IsFiniteSet(X \cup Y)
        /\ Cardinality(X \cup Y) = Cardinality(X) + Cardinality(Y) - Cardinality(X \cap Y)
    BY <1>1, FS_Union
  <2>2. Cardinality(X \cap Y) = 0
    BY <1>2, <1>3
  <2> QED
    BY <1>1, <2>1, <2>2
<1>6. Cardinality((X \cup Y) \cup Z) = Cardinality(X \cup Y) + Cardinality(Z)
  <2>1. Cardinality((X \cup Y) \cup Z)
          = Cardinality(X \cup Y) + Cardinality(Z) - Cardinality((X \cup Y) \cap Z)
    BY <1>1, <1>5, FS_Union
  <2>2. Cardinality((X \cup Y) \cap Z) = 0
    BY <1>2, <1>3
  <2> QED
    BY <1>1, <1>5, <2>1, <2>2
<1>7. Cardinality(X) + Cardinality(Y) + Cardinality(Z) = Len(q)
  BY <1>1, <1>2, <1>4, <1>5, <1>6
<1> QED
  BY <1>7 DEF X, Y, Z

LEMMA PlacesOfOne ==
  ASSUME NEW m \in Msg, NEW kind
  PROVE  Cardinality(Places(<<m>>, kind)) = IF m.kind = kind THEN 1 ELSE 0
<1>1. Places(<<m>>, kind) = IF m.kind = kind THEN {1} ELSE {}
  BY DEF Places
<1> QED
  BY <1>1, FS_EmptySet, FS_Singleton

LEMMA FullPipelines ==
  ASSUME NEW A \in Int, NEW B \in Int,
         NEW ce \in Nat, NEW cp \in Nat, NEW ca \in Nat, NEW vh \in Nat, NEW va \in Nat,
         NEW ee \in Nat, NEW ea \in Nat,
         ee + ea = 1, A >= ce + ee + vh, B >= va + 1 + cp
  PROVE  A + B + (ca + ea) >= (ce + cp + ca) + (vh + va) + 2
OBVIOUS

\* A deadlock of the two receive loops takes the messages of two full windows and the
\* two in their hands, all of them unanswered, unacknowledged or not yet echoed.
THEOREM DeadlockIsLarge == Spec => []DeadlockNeedsFullWindows
<1>1. ASSUME Typed, Protocol, \A s \in Streams : Flow(s) PROVE DeadlockNeedsFullWindows
  <2> SUFFICES ASSUME NEW s \in Streams, MutuallyBlocked(s)
               PROVE  Unanswered(s) + Returning(s) >= 2 * Window + 2
    BY DEF DeadlockNeedsFullWindows
  <2> USE Sides, SendFacts
  <2> DEFINE c == inbox[s]["client"]
             v == inbox[s]["server"]
             e == hand[s]["echo"]
             r == hand[s]["recv"]
             ce == Cardinality(Places(c, "echoHello"))
             cp == Cardinality(Places(c, "push"))
             ca == Cardinality(Places(c, "echoAck"))
             vh == Cardinality(Places(v, "hello"))
             va == Cardinality(Places(v, "ack"))
             ee == Cardinality(Places(<<e>>, "echoHello"))
             ea == Cardinality(Places(<<e>>, "echoAck"))
             ra == Cardinality(Places(<<r>>, "ack"))
  <2>1. /\ Live(s) /\ Echoing(s) /\ Flow(s) /\ Whole(s) /\ Spoken(s) /\ Hellos(s) /\ Acks(s)
        /\ pc[s]["recv"] = "send" /\ pc[s]["echo"] = "send"
        /\ Len(c) >= Window /\ Len(v) >= Window
    BY <1>1, FlowParts DEF MutuallyBlocked, Flow
  <2>2. /\ Sending(s, "echo") = <<e>> /\ Sending(s, "recv") = <<r>>
        /\ e.kind \in {"echoHello", "echoAck"} /\ r.kind = "ack" /\ e \in Msg /\ r \in Msg
    BY <1>1, <2>1 DEF Sending, Spoken
  <2>3. c \in Seq(Msg) /\ v \in Seq(Msg) /\ <<e>> \in Seq(Msg) /\ <<r>> \in Seq(Msg)
    BY <1>1, <2>2
  <2>4. \A i \in 1..Len(c) : c[i].kind \in {"echoHello", "push", "echoAck"}
    <3>1. ~Ended(s)
      BY <2>1 DEF Live, Whole
    <3>2. \A i \in 1..Len(c) : c[i] \in MsgTo("client")
      <4>1. c \in Seq(MsgTo("client"))
        BY <1>1 DEF Typed, TypeOK
      <4> QED
        BY <4>1
    <3> QED
      BY <3>1, <3>2 DEF Ended, MsgTo, EndMarks
  <2>5. \A i \in 1..Len(v) : v[i].kind \in {"hello", "ack", "eof"}
    <3>1. \A i \in 1..Len(v) : v[i] \in MsgTo("server")
      <4>1. v \in Seq(MsgTo("server"))
        BY <1>1 DEF Typed, TypeOK
      <4> QED
        BY <4>1
    <3> QED
      BY <3>1 DEF MsgTo
  <2>6. ce + cp + ca = Len(c)
    BY <2>3, <2>4, PlacesUnion
  <2>7. vh + va = Len(v)
    <3>1. vh + va + Cardinality(Places(v, "eof")) = Len(v)
      BY <2>3, <2>5, PlacesUnion
    <3>2. Places(v, "eof") = {}
      <4>1. \A i \in 1..Len(v) : v[i] \in MsgTo("server")
        <5>1. v \in Seq(MsgTo("server"))
          BY <1>1 DEF Typed, TypeOK
        <5> QED
          BY <5>1
      <4> QED
        BY <4>1 DEF Places, MsgTo
    <3>3. Cardinality(Places(v, "eof")) = 0
      BY <3>2, FS_EmptySet
    <3>4. vh \in Nat /\ va \in Nat
      BY <2>3, PlacesFinite
    <3> QED
      BY <3>1, <3>3, <3>4
  <2>8. sent[s]["hello"] - heard[s]["client"]
          >= ce + ee + vh
    BY <1>1, <2>1, <2>2, <2>3, PipelineCount DEF Hellos
  <2>9. sent[s]["push"] - heard[s]["server"]
          >= va + ra + cp
    BY <1>1, <2>1, <2>2, <2>3, PipelineCount DEF Acks
  <2>10. ra = 1 /\ ee + ea = 1
    BY <2>2, PlacesOfOne
  <2>11. Returning(s) = ca + ea
    BY <2>2 DEF Returning
  <2>12. /\ ce \in Nat /\ cp \in Nat /\ ca \in Nat
         /\ vh \in Nat /\ va \in Nat
         /\ ee \in Nat /\ ea \in Nat
         /\ Len(c) \in Nat /\ Len(v) \in Nat
    BY <2>3, PlacesFinite, MsgFields
  <2>13. Window \in Nat
    BY ChatAssumption
  <2>14. /\ sent[s]["hello"] \in Nat /\ heard[s]["client"] \in Nat
         /\ sent[s]["push"] \in Nat /\ heard[s]["server"] \in Nat
    BY <1>1
  <2> DEFINE A == sent[s]["hello"] - heard[s]["client"]
             B == sent[s]["push"] - heard[s]["server"]
             k == Len(c)
             l == Len(v)
  <2>15. A \in Int /\ B \in Int /\ Unanswered(s) = A + B
    BY <2>14 DEF Unanswered
  <2>16. k \in Nat /\ l \in Nat /\ k >= Window /\ l >= Window
    BY <2>1, <2>12
  <2>17. /\ ce + cp + ca = k
         /\ vh + va = l
    BY <2>6, <2>7
  <2>18. /\ A >= ce + ee + vh
         /\ B >= va + 1 + cp
    BY <2>8, <2>9, <2>10
  <2> HIDE DEF c, v, e, r, A, B, k, l, ce, cp, ca, vh, va, ee, ea, ra
  <2>19. A + B + Returning(s) >= k + l + 2 /\ Returning(s) \in Nat
    <3>1. /\ ce \in Nat /\ cp \in Nat /\ ca \in Nat
          /\ vh \in Nat /\ va \in Nat /\ ee \in Nat /\ ea \in Nat
          /\ A \in Int /\ B \in Int
      BY <2>12, <2>15
    <3>2. ee + ea = 1
      BY <2>10
    <3>3. A + B + (ca + ea) >= (ce + cp + ca) + (vh + va) + 2
      BY <3>1, <3>2, <2>18, FullPipelines
    <3>4. ca + ea \in Nat
      BY <3>1
    <3>5. A + B + (ca + ea) >= k + l + 2
      BY <3>3, <2>17
    <3> QED
      BY <3>4, <3>5, <2>11
  <2>20. A + B + Returning(s) \in Int /\ k + l + 2 >= Window + Window + 2
    BY <2>13, <2>15, <2>19, <2>16
  <2>21. 2 * Window = Window + Window
    BY <2>13
  <2> QED
    BY <2>13, <2>15, <2>19, <2>16, <2>20, <2>21
<1> QED
  BY <1>1, TypedAlways, ProtocolAlways, FlowAlways, PTL

-----------------------------------------------------------------------------
(* The echo service *)

Asked(s) == sent[s]["hello"]
Heard(s) == heard[s]["client"]
Phase(s) == IF s > cur THEN "new" ELSE IF open[s]["server"] THEN link[s] ELSE "lost"

\* The step is nothing to the user of stream s.
Quiet(s) == Asked(s)' = Asked(s) /\ Heard(s)' = Heard(s) /\ Phase(s)' = Phase(s)

\* A change of one stream is a step of the abstract specification.
LEMMA ServiceSteps ==
  ASSUME NEW s \in Streams, \A t \in Streams \ {s} : Quiet(t),
         \/ Quiet(s)
         \/ /\ Phase(s) = "new" /\ Phase(s)' = "up"
            /\ Asked(s)' = Asked(s) /\ Heard(s)' = Heard(s)
         \/ /\ Phase(s) # "new" /\ Asked(s)' = Asked(s) + 1
            /\ Heard(s)' = Heard(s) /\ Phase(s)' = Phase(s)
         \/ /\ Heard(s) < Asked(s) /\ Heard(s)' = Heard(s) + 1
            /\ Asked(s)' = Asked(s) /\ Phase(s)' = Phase(s)
         \/ /\ Phase(s) = "up" /\ Phase(s)' = "lost"
            /\ Asked(s)' = Asked(s) /\ Heard(s)' = Heard(s)
  PROVE  [Service!Next]_(Service!vars)
<1> DEFINE A == [t \in Streams |-> Asked(t)]
           H == [t \in Streams |-> Heard(t)]
           P == [t \in Streams |-> Phase(t)]
<1>1. \A t \in Streams : A[t] = Asked(t) /\ H[t] = Heard(t) /\ P[t] = Phase(t)
  OBVIOUS
<1>2. /\ Asked(s)' = Asked(s) => A' = A
      /\ Heard(s)' = Heard(s) => H' = H
      /\ Phase(s)' = Phase(s) => P' = P
  BY DEF Quiet
<1>3. /\ A' = [A EXCEPT ![s] = Asked(s)']
      /\ H' = [H EXCEPT ![s] = Heard(s)']
      /\ P' = [P EXCEPT ![s] = Phase(s)']
  BY DEF Quiet
<1> HIDE DEF A, H, P
<1>4. CASE Quiet(s)
  <2>1. UNCHANGED <<A, H, P>>
    BY <1>2, <1>4 DEF Quiet
  <2> QED BY <2>1 DEF Service!vars, A, H, P, Asked, Heard, Phase
<1>5. CASE /\ Phase(s) = "new" /\ Phase(s)' = "up"
           /\ Asked(s)' = Asked(s) /\ Heard(s)' = Heard(s)
  <2>1. P[s] = "new" /\ P' = [P EXCEPT ![s] = "up"] /\ UNCHANGED <<A, H>>
    BY <1>1, <1>2, <1>3, <1>5
  <2>2. Service!Connect(s)
    BY <2>1 DEF Service!Connect, A, H, P, Asked, Heard, Phase
  <2> QED BY <2>2 DEF Service!Next
<1>6. CASE /\ Phase(s) # "new" /\ Asked(s)' = Asked(s) + 1
           /\ Heard(s)' = Heard(s) /\ Phase(s)' = Phase(s)
  <2>1. P[s] # "new" /\ A' = [A EXCEPT ![s] = A[s] + 1] /\ UNCHANGED <<H, P>>
    BY <1>1, <1>2, <1>3, <1>6
  <2>2. Service!Ask(s)
    BY <2>1 DEF Service!Ask, A, H, P, Asked, Heard, Phase
  <2> QED BY <2>2 DEF Service!Next
<1>7. CASE /\ Heard(s) < Asked(s) /\ Heard(s)' = Heard(s) + 1
           /\ Asked(s)' = Asked(s) /\ Phase(s)' = Phase(s)
  <2>1. H[s] < A[s] /\ H' = [H EXCEPT ![s] = H[s] + 1] /\ UNCHANGED <<A, P>>
    BY <1>1, <1>2, <1>3, <1>7
  <2>2. Service!Answer(s)
    BY <2>1 DEF Service!Answer, A, H, P, Asked, Heard, Phase
  <2> QED BY <2>2 DEF Service!Next
<1>8. CASE /\ Phase(s) = "up" /\ Phase(s)' = "lost"
           /\ Asked(s)' = Asked(s) /\ Heard(s)' = Heard(s)
  <2>1. P[s] = "up" /\ P' = [P EXCEPT ![s] = "lost"] /\ UNCHANGED <<A, H>>
    BY <1>1, <1>2, <1>3, <1>8
  <2>2. Service!Lose(s)
    BY <2>1 DEF Service!Lose, A, H, P, Asked, Heard, Phase
  <2> QED BY <2>2 DEF Service!Next
<1> QED BY <1>4, <1>5, <1>6, <1>7, <1>8

LEMMA QuietIf ==
  ASSUME NEW s, UNCHANGED <<sent[s]["hello"], heard[s]["client"], open[s]["server"], link[s]>>,
         s > cur' <=> s > cur
  PROVE  Quiet(s)
BY DEF Quiet, Asked, Heard, Phase

LEMMA SameQuiet ==
  ASSUME NEW s \in Streams, \A t \in Streams \ {s} : Same(t), cur' = cur
  PROVE  \A t \in Streams \ {s} : Quiet(t)
BY QuietIf DEF Same

\* Once its call is over a stream stays lost.
LEMMA EndIsLoss ==
  ASSUME Typed, NEW s \in Streams, \A t \in Streams \ {s} : Same(t),
         UNCHANGED <<cur, sent, heard>>,
         Phase(s)' = Phase(s) \/ (Phase(s) = "up" /\ Phase(s)' = "lost")
  PROVE  [Service!Next]_(Service!vars)
<1>1. Asked(s)' = Asked(s) /\ Heard(s)' = Heard(s)
  BY DEF Asked, Heard
<1>2. \A t \in Streams \ {s} : Quiet(t)
  BY SameQuiet
<1> QED
  BY <1>1, <1>2, ServiceSteps DEF Quiet

LEMMA OpenIsConnect ==
  ASSUME Typed, OpenStream
  PROVE  [Service!Next]_(Service!vars)
<1> USE Sides
<1>1. PICK s \in Streams : s = cur + 1 /\ s > cur /\ ~(s > cur')
  BY ChatAssumption DEF OpenStream, Typed, TypeOK, Streams
<1>2. /\ open' = [open EXCEPT ![s] = [e \in Ends |-> TRUE]]
      /\ link' = [link EXCEPT ![s] = "up"] /\ cur' = cur + 1 /\ UNCHANGED <<sent, heard>>
  BY <1>1 DEF OpenStream
<1>3. open'[s]["server"] /\ link'[s] = "up"
  BY <1>2, FlowTypes
<1>4. ASSUME NEW t \in Streams \ {s} PROVE Quiet(t)
  <2>1. t > cur' <=> t > cur
    <3>1. t \in Int /\ cur \in Int /\ t # cur + 1 /\ cur' = cur + 1
      BY <1>1, <1>2, ChatAssumption DEF Typed, TypeOK, Streams
    <3> QED
      BY <3>1
  <2>2. open'[t] = open[t] /\ link'[t] = link[t]
    BY <1>2, FlowTypes
  <2> QED
    BY <1>2, <2>1, <2>2, QuietIf
<1>5. /\ Phase(s) = "new" /\ Phase(s)' = "up"
      /\ Asked(s)' = Asked(s) /\ Heard(s)' = Heard(s)
  BY <1>1, <1>2, <1>3 DEF Phase, Asked, Heard
<1> QED
  BY <1>4, <1>5, ServiceSteps

LEMMA TickIsAsk ==
  ASSUME Typed, Protocol, NEW s \in Streams, Flow(s), NEW r \in Tickers, Tick(s, r)
  PROVE  [Service!Next]_(Service!vars)
<1> USE Sides
<1>1. /\ sent'[s][r] = sent[s][r] + 1 /\ (\A x \in Tickers \ {r} : sent'[s][x] = sent[s][x])
      /\ pc[s][r] = "select" /\ UNCHANGED <<cur, inbox, heard, open, link>>
      /\ \A t \in Streams \ {s} : Same(t)
  BY TickEffect
<1>2. ~(s > cur)
  BY <1>1, Opened DEF Flow
<1>3. \A t \in Streams \ {s} : Quiet(t)
  BY <1>1, SameQuiet
<1>4. CASE r = "hello"
  <2>1. /\ Asked(s)' = Asked(s) + 1 /\ Heard(s)' = Heard(s) /\ Phase(s)' = Phase(s)
        /\ Phase(s) # "new"
    BY <1>1, <1>2, <1>4, FlowTypes DEF Asked, Heard, Phase
  <2> QED
    BY <1>3, <2>1, ServiceSteps
<1>5. CASE r # "hello"
  <2>1. Quiet(s)
    BY <1>1, <1>5, QuietIf DEF Tickers
  <2> QED
    BY <1>3, <2>1, ServiceSteps
<1> QED
  BY <1>4, <1>5

LEMMA RecvIsAnswer ==
  ASSUME Typed, NEW s \in Streams, Flow(s), ClientRecv(s)
  PROVE  [Service!Next]_(Service!vars)
<1> USE Sides, SendFacts
<1>1. PICK m : m = Head(inbox[s]["client"])
  OBVIOUS
<1>2. /\ inbox[s]["client"] # << >>
      /\ heard'[s]["client"] = IF m.kind = "echoHello" THEN m.n ELSE heard[s]["client"]
      /\ UNCHANGED <<cur, sent, open, link>>
      /\ \A t \in Streams \ {s} : Same(t)
  BY <1>1, ClientRecvEffect
<1>3. \A t \in Streams \ {s} : Quiet(t)
  BY <1>2, SameQuiet
<1>4. Asked(s)' = Asked(s) /\ Phase(s)' = Phase(s)
  BY <1>2 DEF Asked, Phase
<1>5. CASE m.kind = "echoHello"
  <2>1. m.n = heard[s]["client"] + 1 /\ heard[s]["client"] + 1 <= sent[s]["hello"]
    BY <1>1, <1>2, <1>5, FollowsRead DEF Flow, Answered
  <2>2. Heard(s) < Asked(s) /\ Heard(s)' = Heard(s) + 1
    BY <1>2, <1>5, <2>1 DEF Heard, Asked
  <2> QED
    BY <1>3, <1>4, <2>2, ServiceSteps
<1>6. CASE m.kind # "echoHello"
  <2>1. Quiet(s)
    BY <1>2, <1>4, <1>6 DEF Quiet, Heard
  <2> QED
    BY <1>3, <2>1, ServiceSteps
<1> QED
  BY <1>5, <1>6

\* The steps by which a stream gets lost, and main's return, which finds none to lose.
LEMMA LossIsLoss ==
  ASSUME Typed, Protocol, NEW s \in Streams, Flow(s),
         HandlerReturns(s) \/ ServerNotices(s) \/ LinkLost(s)
  PROVE  [Service!Next]_(Service!vars)
<1> USE Sides, FlowTypes
<1>1. \A t \in Streams \ {s} : Same(t)
  BY HandlerReturnKept, ServerNoticeKept, LossKept
<1>2. UNCHANGED <<cur, sent, heard>>
  BY DEF HandlerReturns, ServerNotices, LinkLost
<1>3. Phase(s)' = Phase(s) \/ (Phase(s) = "up" /\ Phase(s)' = "lost")
  <2>1. CASE HandlerReturns(s)
    <3>1. ~open'[s]["server"] /\ link' = link
      BY <2>1 DEF HandlerReturns
    <3> QED
      BY <1>2, <3>1 DEF Phase
  <2>2. CASE ServerNotices(s)
    <3>1. ~open'[s]["server"] /\ link[s] = "lost" /\ link' = link
      BY <2>2 DEF ServerNotices
    <3> QED
      BY <1>2, <3>1 DEF Phase
  <2>3. CASE LinkLost(s)
    <3>1. link[s] = "up" /\ link'[s] = "lost" /\ open' = open
      BY <2>3 DEF LinkLost
    <3> QED
      BY <1>2, <3>1 DEF Phase
  <2> QED
    BY <2>1, <2>2, <2>3
<1> QED
  BY <1>1, <1>2, <1>3, EndIsLoss

LEMMA ReturnLosesNothing ==
  ASSUME Typed, Protocol, \A s \in Streams : Flow(s), ChatLoopReturns, NEW t \in Streams
  PROVE  Quiet(t)
<1> USE FlowTypes
<1>1. /\ link' = link \/ link' = [s \in Streams |-> "lost"]
      /\ UNCHANGED <<cur, open, sent, heard>> /\ main = "chat" /\ errCh[cur]["client"] # << >>
  BY DEF ChatLoopReturns
<1>2. t <= cur => ~open[t]["client"]
  <2>1. CASE t < cur
    <3>1. TakenByMain(t) = 1
      BY <2>1 DEF TakenByMain
    <3> QED
      BY <3>1, TakenMeansDead
  <2>2. CASE t = cur
    BY <1>1, <2>2, TakenMeansDead
  <2> QED
    BY <2>1, <2>2
<1>3. t <= cur /\ open[t]["server"] => link[t] = "lost"
  BY <1>2 DEF Flow, Whole
<1>4. Phase(t)' = Phase(t)
  BY <1>1, <1>3 DEF Phase
<1> QED
  BY <1>1, <1>4 DEF Quiet, Asked, Heard

LEMMA NothingIsNothing ==
  ASSUME \A s \in Streams : Quiet(s)
  PROVE  [Service!Next]_(Service!vars)
<1> DEFINE A == [t \in Streams |-> Asked(t)]
           H == [t \in Streams |-> Heard(t)]
           P == [t \in Streams |-> Phase(t)]
<1>1. A' = A /\ H' = H /\ P' = P
  BY DEF Quiet
<1> HIDE DEF A, H, P
<1>2. UNCHANGED <<A, H, P>>
  BY <1>1
<1> QED
  BY <1>2 DEF Service!vars, A, H, P, Asked, Heard, Phase

\* The safety half of EchoService, for every bound, every window and both clients: an
\* echo answers the oldest hello that has none, also when it is read after the stream is
\* lost, and a lost stream is never taken up again.
THEOREM EchoesAnswerHellos == Spec => Service!Safe
<1>1. Init => Service!Init
  <2> SUFFICES ASSUME Init PROVE Service!Init
    OBVIOUS
  <2>1. \A s \in Streams : Asked(s) = 0 /\ Heard(s) = 0 /\ Phase(s) = "new"
    BY Sides DEF Init, Asked, Heard, Phase, Tickers, Streams
  <2> QED
    BY <2>1 DEF Service!Init, Asked, Heard, Phase
<1>2. /\ Typed /\ Typed' /\ Protocol /\ (\A s \in Streams : Flow(s)) /\ [Next]_vars
      => [Service!Next]_(Service!vars)
  <2> SUFFICES ASSUME Typed, Typed', Protocol, \A s \in Streams : Flow(s), [Next]_vars
               PROVE  [Service!Next]_(Service!vars)
    OBVIOUS
  <2>1. CASE OpenStream
    BY <2>1, OpenIsConnect
  <2>2. CASE ChatLoopReturns
    BY <2>2, ReturnLosesNothing, NothingIsNothing
  <2>3. CASE UNCHANGED <<cur, sent, heard, open, link>>
    <3>1. \A s \in Streams : Quiet(s)
      BY <2>3, QuietIf
    <3> QED
      BY <3>1, NothingIsNothing
  <2>4. ASSUME NEW s \in Streams, StreamStep(s) \/ LinkLost(s)
        PROVE  [Service!Next]_(Service!vars)
    <3>1. ASSUME NEW r \in Tickers, Tick(s, r) PROVE [Service!Next]_(Service!vars)
      BY <3>1, TickIsAsk
    <3>2. CASE ClientRecv(s)
      BY <3>2, RecvIsAnswer
    <3>3. CASE HandlerReturns(s) \/ ServerNotices(s) \/ LinkLost(s)
      BY <3>3, LossIsLoss
    <3>4. CASE ClientNotices(s) \/ ClientRecvEnd(s)
      <4>1. \A t \in Streams \ {s} : Same(t)
        BY <3>4, ClientNoticeKept, ClientEndKept
      <4>2. UNCHANGED <<cur, sent, heard, link>> /\ open'[s]["server"] = open[s]["server"]
        <5>1. UNCHANGED <<cur, sent, heard, link>> /\ open' = [open EXCEPT ![s]["client"] = FALSE]
          BY <3>4 DEF ClientNotices, ClientRecvEnd
        <5>2. open \in [Streams -> [Ends -> BOOLEAN]] /\ "client" \in Ends /\ "server" \in Ends
          BY FlowTypes, Sides
        <5> QED
          BY <5>1, <5>2
      <4>3. Phase(s)' = Phase(s)
        BY <4>2 DEF Phase
      <4> QED
        BY <4>1, <4>2, <4>3, EndIsLoss
    <3>5. CASE ServerRecv(s)
      <4>1. PICK m : m = Head(inbox[s]["server"])
        OBVIOUS
      <4>2. /\ \A t \in Streams \ {s} : Same(t)
            /\ UNCHANGED <<cur, sent, open, link>> /\ heard'[s]["client"] = heard[s]["client"]
        BY <3>5, <4>1, ServerRecvEffect
      <4>3. \A t \in Streams \ {s} : Quiet(t)
        BY <4>2, SameQuiet
      <4>4. Quiet(s)
        BY <4>2, QuietIf
      <4> QED
        BY <4>3, <4>4, NothingIsNothing
    <3>6. \/ \E r \in Tickers : Tick(s, r)
          \/ ClientRecv(s) \/ HandlerReturns(s) \/ ServerNotices(s) \/ LinkLost(s)
          \/ ClientNotices(s) \/ ClientRecvEnd(s) \/ ServerRecv(s)
          \/ UNCHANGED <<cur, sent, heard, open, link>>
      BY <2>4 DEF StreamStep, SendOK, SendFails, Report, FirstSendsCollide, HelloCtxDone,
                  HandlerStarts, PushCtxDone, ServerRecvFails
    <3> QED
      BY <2>3, <3>1, <3>2, <3>3, <3>4, <3>5, <3>6
  <2>5. DialFails \/ WakeUp \/ UNCHANGED vars => UNCHANGED <<cur, sent, heard, open, link>>
    BY DEF DialFails, WakeUp, vars
  <2> QED
    BY <2>1, <2>2, <2>3, <2>4, <2>5 DEF Next, MainStep
<1> QED
  BY <1>1, <1>2, TypedAlways, ProtocolAlways, FlowAlways, PTL DEF Spec, Service!Safe
=============================================================================
