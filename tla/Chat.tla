-------------------------------- MODULE Chat --------------------------------
(***************************************************************************)
(* The bidirectional gRPC chat of golang/gRPC_bidir_streaming: the main    *)
(* loop of a client (client.go or client1.go), the two goroutines it runs  *)
(* per stream, the server's Chat handler and the two goroutines it runs    *)
(* per stream, over the streams of grpc-go.                                *)
(*                                                                         *)
(* A stream is opened by each turn of the client's loop and keeps its      *)
(* number for ever: goroutines of an old stream may still run when the     *)
(* next one is open.  Tickers fire at any moment, a link is lost at any    *)
(* moment, and each end notices it in its own time (keepalive).            *)
(*                                                                         *)
(* The gRPC library is not in the repository.  What is modelled of it is   *)
(* what the programs use: per-stream delivery in order, flow control (a    *)
(* Send blocks while Window messages are unread), Send failing on a dead   *)
(* stream, Recv draining what has arrived before it reports the end, the   *)
(* client's stream context being cancelled inside the Recv that reports    *)
(* the end, and the server's by the loss of the transport or the return    *)
(* of the handler.  grpc-go documents that two goroutines must not Send on *)
(* one stream, yet both do at either end: their messages enter the stream  *)
(* whole, in either order, and at the server, where the first Send also    *)
(* writes the response header, one of two first Sends at the same time can *)
(* fail (FirstSendsCollide).                                               *)
(***************************************************************************)
EXTENDS Integers, Sequences, FiniteSets

CONSTANTS
  WatchesCtx,   \* TRUE: client.go, whose hello loop selects on ctx.Done();
                \* FALSE: client1.go, whose hello loop only ranges over the ticker
  MaxStream,    \* bound: streams the client opens
  MaxHello,     \* bound: ticks of the hello loop of a live stream
  MaxPush,      \* bound: ticks of the push loop of a live stream
  Window        \* messages one direction of a stream holds before Send blocks

ASSUME ChatAssumption ==
  /\ WatchesCtx \in BOOLEAN
  /\ MaxStream \in Nat
  /\ MaxHello \in Nat
  /\ MaxPush \in Nat
  /\ Window \in Nat \ {0}

VARIABLES
  main,     \* where the client's main goroutine is
  cur,      \* number of the stream main opened last, 0 before the first
  handler,  \* handler[s]: the server's Chat call for stream s
  pc,       \* pc[s][r]: where goroutine r of stream s is
  hand,     \* hand[s][r]: the message goroutine r is sending
  errCh,    \* errCh[s][e]: contents of the errCh made by end e for stream s
  inbox,    \* inbox[s][e]: messages of stream s under way to end e, or unread there
  open,     \* open[s][e]: end e still takes stream s for alive
  ctxDone,  \* ctxDone[s]: the context of the client's stream s is cancelled
  link,     \* link[s]: the connection that carries stream s
  sent,     \* sent[s][r]: the counter i of ticker goroutine r
  heard     \* heard[s][e]: number of the last hello echoed (client), acked push (server)

vars == <<main, cur, handler, pc, hand, errCh, inbox, open, ctxDone, link, sent, heard>>

Streams == 1..MaxStream
Ends    == {"client", "server"}
Roles   == {"hello", "recv", "push", "echo"}
Tickers == {"hello", "push"}

Side(r)  == IF r \in {"hello", "recv"} THEN "client" ELSE "server"
Peer(e)  == IF e = "client" THEN "server" ELSE "client"
Bound(r) == IF r = "hello" THEN MaxHello ELSE MaxPush

(***************************************************************************)
(* Definitions named Bug... are the bugs the properties have been tried    *)
(* on: each replaces the definition PROJECT.json pairs it with, and TLC    *)
(* then finds the property violated.  Nothing else uses them.              *)
(***************************************************************************)
BugHello(i)     == [kind |-> "hello", n |-> i - 1]        \* message made before i++
BugOneEcho(m)   == [kind |-> "echoHello", n |-> m.n]      \* acks echoed like hellos
BugAckAll(m)    == TRUE                                   \* prefix test left out
BugOutcome(m)   == "nil"                                  \* err not told from io.EOF
BugErrChCap     == 1                                      \* room for one goroutine only
BugCancelled(s, e)  == TRUE                               \* select with a default case

\* Payloads are told apart by their prefix and the number in them.
Kinds == {"hello", "ack", "push", "echoHello", "echoAck"}
EndMarks == {"eof", "err"}      \* the status that ends a stream: io.EOF or an error
Msg == [kind : Kinds \cup EndMarks, n : Nat]
MsgTo(e) == [kind : IF e = "client" THEN {"push", "echoHello", "echoAck"} \cup EndMarks
                                    ELSE {"hello", "ack"},
             n : Nat]

Hello(i)  == [kind |-> "hello", n |-> i]
Push(i)   == [kind |-> "push", n |-> i]
Ack(m)    == [kind |-> "ack", n |-> m.n]
Echo(m)   == [kind |-> IF m.kind = "hello" THEN "echoHello" ELSE "echoAck", n |-> m.n]
\* The test for the prefix "Server push " that makes the client acknowledge.
IsPush(m) == m.kind = "push"
End(mark) == [kind |-> mark, n |-> 0]
Outcome(m) == IF m.kind = "eof" THEN "nil" ELSE "err"   \* what Recv makes of it
Nothing   == End("eof")         \* in hand[s][r] while r is not sending

\* "nil" and "err": about to execute errCh <- nil, errCh <- err.
PCs == {"off", "select", "recv", "send", "nil", "err", "done"}

ErrChCap == 2

TypeOK ==
  /\ main \in {"dial", "chat", "sleep", "exited"}
  /\ cur \in 0..MaxStream
  /\ handler \in [Streams -> {"off", "wait", "returned"}]
  /\ pc \in [Streams -> [Roles -> PCs]]
  /\ hand \in [Streams -> [Roles -> Msg]]
  /\ errCh \in [Streams -> [Ends -> Seq({"nil", "err"})]]
  /\ inbox \in [Streams -> [Ends -> Seq(Msg)]]
  /\ \A s \in Streams, e \in Ends : inbox[s][e] \in Seq(MsgTo(e))
  /\ open \in [Streams -> [Ends -> BOOLEAN]]
  /\ ctxDone \in [Streams -> BOOLEAN]
  /\ link \in [Streams -> {"up", "lost"}]
  /\ sent \in [Streams -> [Tickers -> Nat]]
  /\ heard \in [Streams -> [Ends -> Nat]]

Init ==
  /\ main = "dial"
  /\ cur = 0
  /\ handler = [s \in Streams |-> "off"]
  /\ pc = [s \in Streams |-> [r \in Roles |-> "off"]]
  /\ hand = [s \in Streams |-> [r \in Roles |-> Nothing]]
  /\ errCh = [s \in Streams |-> [e \in Ends |-> << >>]]
  /\ inbox = [s \in Streams |-> [e \in Ends |-> << >>]]
  /\ open = [s \in Streams |-> [e \in Ends |-> FALSE]]
  /\ ctxDone = [s \in Streams |-> FALSE]
  /\ link = [s \in Streams |-> "lost"]
  /\ sent = [s \in Streams |-> [r \in Tickers |-> 0]]
  /\ heard = [s \in Streams |-> [e \in Ends |-> 0]]

-----------------------------------------------------------------------------
(* The client's main goroutine *)

\* client.Chat succeeds, and runChatLoop makes errCh and starts its goroutines.
OpenStream ==
  /\ main = "dial"
  /\ cur < MaxStream
  /\ main' = "chat"
  /\ cur' = cur + 1
  /\ pc' = [pc EXCEPT ![cur + 1]["hello"] = "select", ![cur + 1]["recv"] = "recv"]
  /\ open' = [open EXCEPT ![cur + 1] = [e \in Ends |-> TRUE]]
  /\ link' = [link EXCEPT ![cur + 1] = "up"]
  /\ UNCHANGED <<handler, hand, errCh, inbox, ctxDone, sent, heard>>

\* client.Chat fails; main sleeps a second and tries again.
DialFails ==
  /\ main = "dial"
  /\ main' = "sleep"
  /\ UNCHANGED <<cur, handler, pc, hand, errCh, inbox, open, ctxDone, link, sent, heard>>

WakeUp ==
  /\ main = "sleep"
  /\ main' = "dial"
  /\ UNCHANGED <<cur, handler, pc, hand, errCh, inbox, open, ctxDone, link, sent, heard>>

BugChatLoopReturns ==           \* errCh not waited for: return once the goroutines run
  /\ main = "chat"
  /\ main' = "sleep"
  /\ UNCHANGED <<cur, handler, pc, hand, errCh, inbox, open, ctxDone, link, sent, heard>>

\* runChatLoop returns what it takes from errCh: on an error main sleeps and
\* opens another stream, on nil it leaves the loop, closes the connection and
\* ends the process with every goroutine in it.
ChatLoopReturns ==
  /\ main = "chat"
  /\ errCh[cur]["client"] # << >>
  /\ errCh' = [errCh EXCEPT ![cur]["client"] = Tail(@)]
  /\ IF Head(errCh[cur]["client"]) = "err"
       THEN main' = "sleep" /\ UNCHANGED link
       ELSE main' = "exited" /\ link' = [s \in Streams |-> "lost"]
  /\ UNCHANGED <<cur, handler, pc, hand, inbox, open, ctxDone, sent, heard>>

-----------------------------------------------------------------------------
(* Steps the goroutines of the two ends share *)

\* A goroutine runs as long as its process does.
Runs(r) == Side(r) = "client" => main # "exited"

\* ctx.Done() of the stream at end e.
Cancelled(s, e) == IF e = "client" THEN ctxDone[s] ELSE ~open[s]["server"]

\* A message put into stream s now will get to end e unless the link is lost.
Delivers(s, e) == link[s] = "up" /\ open[s][e]

\* stream.Send returns nil: the message is under way, or silently lost with
\* the link or with a peer that has left.
SendOK(s, r) ==
  LET to == Peer(Side(r)) IN
  /\ Runs(r)
  /\ pc[s][r] = "send"
  /\ open[s][Side(r)]
  /\ Delivers(s, to) => Len(inbox[s][to]) < Window
  /\ inbox' = IF Delivers(s, to)
                THEN [inbox EXCEPT ![s][to] = Append(@, hand[s][r])]
                ELSE inbox
  /\ hand' = [hand EXCEPT ![s][r] = Nothing]
  /\ pc' = [pc EXCEPT ![s][r] = IF r \in Tickers THEN "select" ELSE "recv"]
  /\ UNCHANGED <<main, cur, handler, errCh, open, ctxDone, link, sent, heard>>

BugSendFails(s, r) ==           \* the error of Send ignored, the loop goes on
  /\ Runs(r)
  /\ pc[s][r] = "send"
  /\ ~open[s][Side(r)]
  /\ hand' = [hand EXCEPT ![s][r] = Nothing]
  /\ pc' = [pc EXCEPT ![s][r] = IF r \in Tickers THEN "select" ELSE "recv"]
  /\ UNCHANGED <<main, cur, handler, errCh, inbox, open, ctxDone, link, sent, heard>>

\* stream.Send returns an error, a Send that was blocked included.
SendFails(s, r) ==
  /\ Runs(r)
  /\ pc[s][r] = "send"
  /\ ~open[s][Side(r)]
  /\ hand' = [hand EXCEPT ![s][r] = Nothing]
  /\ pc' = [pc EXCEPT ![s][r] = "err"]
  /\ UNCHANGED <<main, cur, handler, errCh, inbox, open, ctxDone, link, sent, heard>>

\* The first push and the first echo are sent at the same time: one of them finds
\* the response header written by the other, and its Send fails.
FirstSendsCollide(s, r) ==
  /\ pc[s]["push"] = "send" /\ sent[s]["push"] = 1
  /\ pc[s]["echo"] = "send" /\ hand[s]["echo"].n = 1
  /\ hand' = [hand EXCEPT ![s][r] = Nothing]
  /\ pc' = [pc EXCEPT ![s][r] = "err"]
  /\ UNCHANGED <<main, cur, handler, errCh, inbox, open, ctxDone, link, sent, heard>>

\* errCh <- nil or errCh <- err, which blocks while errCh is full; then return.
Report(s, r) ==
  /\ Runs(r)
  /\ pc[s][r] \in {"nil", "err"}
  /\ Len(errCh[s][Side(r)]) < ErrChCap
  /\ errCh' = [errCh EXCEPT ![s][Side(r)] = Append(@, pc[s][r])]
  /\ pc' = [pc EXCEPT ![s][r] = "done"]
  /\ UNCHANGED <<main, cur, handler, hand, inbox, open, ctxDone, link, sent, heard>>

\* The ticker of goroutine r fires: i++ and the next message is made.  Past
\* its bound the counter takes the one more step that finds the stream dead.
Tick(s, r) ==
  /\ Runs(r)
  /\ pc[s][r] = "select"
  /\ sent[s][r] < IF open[s][Side(r)] THEN Bound(r) ELSE Bound(r) + 1
  /\ sent' = [sent EXCEPT ![s][r] = @ + 1]
  /\ hand' = [hand EXCEPT ![s][r] = IF r = "hello" THEN Hello(sent[s][r] + 1)
                                                   ELSE Push(sent[s][r] + 1)]
  /\ pc' = [pc EXCEPT ![s][r] = "send"]
  /\ UNCHANGED <<main, cur, handler, errCh, inbox, open, ctxDone, link, heard>>

-----------------------------------------------------------------------------
(* The client's goroutines: startClientHelloLoop, startClientReceiveLoop *)

\* case <-ctx.Done(): errCh <- nil.  Only client.go has the case.
HelloCtxDone(s) ==
  /\ Runs("hello")
  /\ WatchesCtx
  /\ pc[s]["hello"] = "select"
  /\ Cancelled(s, "client")
  /\ pc' = [pc EXCEPT ![s]["hello"] = "nil"]
  /\ UNCHANGED <<main, cur, handler, hand, errCh, inbox, open, ctxDone, link, sent, heard>>

\* Recv returns a message: a push is acknowledged, an echo only logged.
ClientRecv(s) ==
  /\ Runs("recv")
  /\ pc[s]["recv"] = "recv"
  /\ inbox[s]["client"] # << >>
  /\ LET m == Head(inbox[s]["client"]) IN
       /\ m.kind \notin EndMarks
       /\ inbox' = [inbox EXCEPT ![s]["client"] = Tail(@)]
       /\ heard' = IF m.kind = "echoHello" THEN [heard EXCEPT ![s]["client"] = m.n]
                                           ELSE heard
       /\ IF IsPush(m)
            THEN /\ hand' = [hand EXCEPT ![s]["recv"] = Ack(m)]
                 /\ pc' = [pc EXCEPT ![s]["recv"] = "send"]
            ELSE UNCHANGED <<hand, pc>>
  /\ UNCHANGED <<main, cur, handler, errCh, open, ctxDone, link, sent>>

\* Recv reports the end of the stream: it cancels the stream's context, and
\* only then does the goroutine get to its errCh <- nil (io.EOF) or errCh <- err.
ClientRecvEnd(s) ==
  /\ Runs("recv")
  /\ pc[s]["recv"] = "recv"
  /\ inbox[s]["client"] # << >>
  /\ LET m == Head(inbox[s]["client"]) IN
       /\ m.kind \in EndMarks
       /\ pc' = [pc EXCEPT ![s]["recv"] = Outcome(m)]
  /\ ctxDone' = [ctxDone EXCEPT ![s] = TRUE]
  /\ open' = [open EXCEPT ![s]["client"] = FALSE]
  /\ UNCHANGED <<main, cur, handler, hand, errCh, inbox, link, sent, heard>>

-----------------------------------------------------------------------------
(* The server: Chat, startServerPushes, startServerReceive *)

\* The call reaches the server: Chat makes errCh and starts its goroutines.
HandlerStarts(s) ==
  /\ handler[s] = "off"
  /\ open[s]["server"]
  /\ handler' = [handler EXCEPT ![s] = "wait"]
  /\ pc' = [pc EXCEPT ![s]["push"] = "select", ![s]["echo"] = "recv"]
  /\ UNCHANGED <<main, cur, hand, errCh, inbox, open, ctxDone, link, sent, heard>>

PushCtxDone(s) ==
  /\ pc[s]["push"] = "select"
  /\ Cancelled(s, "server")
  /\ pc' = [pc EXCEPT ![s]["push"] = "nil"]
  /\ UNCHANGED <<main, cur, handler, hand, errCh, inbox, open, ctxDone, link, sent, heard>>

ServerRecv(s) ==
  /\ pc[s]["echo"] = "recv"
  /\ inbox[s]["server"] # << >>
  /\ LET m == Head(inbox[s]["server"]) IN
       /\ inbox' = [inbox EXCEPT ![s]["server"] = Tail(@)]
       /\ heard' = IF m.kind = "ack" THEN [heard EXCEPT ![s]["server"] = m.n] ELSE heard
       /\ hand' = [hand EXCEPT ![s]["echo"] = Echo(m)]
  /\ pc' = [pc EXCEPT ![s]["echo"] = "send"]
  /\ UNCHANGED <<main, cur, handler, errCh, open, ctxDone, link, sent>>

\* Recv fails once the stream's context is cancelled, whether or not messages
\* are still unread.  (io.EOF would take a client that calls CloseSend; no
\* client here does.)
ServerRecvFails(s) ==
  /\ pc[s]["echo"] = "recv"
  /\ Cancelled(s, "server")
  /\ pc' = [pc EXCEPT ![s]["echo"] = "err"]
  /\ UNCHANGED <<main, cur, handler, hand, errCh, inbox, open, ctxDone, link, sent, heard>>

\* Chat returns what it takes from errCh: the stream's context is cancelled,
\* and if the stream is alive the status goes to the client: nil as io.EOF.
HandlerReturns(s) ==
  /\ handler[s] = "wait"
  /\ errCh[s]["server"] # << >>
  /\ handler' = [handler EXCEPT ![s] = "returned"]
  /\ errCh' = [errCh EXCEPT ![s]["server"] = Tail(@)]
  /\ open' = [open EXCEPT ![s]["server"] = FALSE]
  /\ inbox' = IF Delivers(s, "server")
                THEN [inbox EXCEPT ![s]["client"] = Append(@,
                        End(IF Head(errCh[s]["server"]) = "nil" THEN "eof" ELSE "err"))]
                ELSE inbox
  /\ UNCHANGED <<main, cur, pc, hand, ctxDone, link, sent, heard>>

-----------------------------------------------------------------------------
(* The network *)

\* The connection breaks: of what was under way a prefix has arrived, and all of
\* it if the client has the status.
LinkLost(s) ==
  /\ link[s] = "up"
  /\ link' = [link EXCEPT ![s] = "lost"]
  /\ \E i \in 0..Len(inbox[s]["client"]), j \in 0..Len(inbox[s]["server"]) :
       /\ ~open[s]["client"] => i = Len(inbox[s]["client"])
       /\ inbox' = [inbox EXCEPT ![s] =
                   [e \in Ends |-> SubSeq(inbox[s][e], 1, IF e = "client" THEN i ELSE j)]]
  /\ UNCHANGED <<main, cur, handler, pc, hand, errCh, open, ctxDone, sent, heard>>

\* The server's transport notices: every stream context on it is cancelled.
ServerNotices(s) ==
  /\ link[s] = "lost"
  /\ open[s]["server"]
  /\ open' = [open EXCEPT ![s]["server"] = FALSE]
  /\ UNCHANGED <<main, cur, handler, pc, hand, errCh, inbox, ctxDone, link, sent, heard>>

\* The status has arrived, or the client's transport notices the loss and puts
\* an error after what had arrived.  Send fails from here on.
Ended(s) == \E i \in 1..Len(inbox[s]["client"]) : inbox[s]["client"][i].kind \in EndMarks

BugClientNotices(s) ==          \* no keepalive: only a status ends the stream
  /\ main # "exited"
  /\ open[s]["client"]
  /\ Ended(s)
  /\ open' = [open EXCEPT ![s]["client"] = FALSE]
  /\ UNCHANGED <<main, cur, handler, pc, hand, errCh, inbox, ctxDone, link, sent, heard>>

ClientNotices(s) ==
  /\ main # "exited"
  /\ open[s]["client"]
  /\ link[s] = "lost" \/ Ended(s)
  /\ open' = [open EXCEPT ![s]["client"] = FALSE]
  /\ inbox' = IF Ended(s) THEN inbox
                          ELSE [inbox EXCEPT ![s]["client"] = Append(@, End("err"))]
  /\ UNCHANGED <<main, cur, handler, pc, hand, errCh, ctxDone, link, sent, heard>>

-----------------------------------------------------------------------------

MainStep == OpenStream \/ DialFails \/ WakeUp \/ ChatLoopReturns

StreamStep(s) ==
  \/ \E r \in Roles : SendOK(s, r) \/ SendFails(s, r) \/ Report(s, r)
  \/ \E r \in {"push", "echo"} : FirstSendsCollide(s, r)
  \/ \E r \in Tickers : Tick(s, r)
  \/ HelloCtxDone(s) \/ ClientRecv(s) \/ ClientRecvEnd(s)
  \/ HandlerStarts(s) \/ PushCtxDone(s) \/ ServerRecv(s) \/ ServerRecvFails(s)
  \/ HandlerReturns(s)
  \/ ServerNotices(s) \/ ClientNotices(s)

Next == MainStep \/ \E s \in Streams : StreamStep(s) \/ LinkLost(s)

Spec == Init /\ [][Next]_vars

\* The Go scheduler runs every goroutine that can run, tickers go on ticking, a
\* select whose ctx.Done() stays ready takes it in the end, and keepalive
\* notices a lost link at each end.  Nothing makes a link get lost.
Fairness ==
  /\ WF_vars(WakeUp) /\ WF_vars(ChatLoopReturns) /\ WF_vars(OpenStream \/ DialFails)
  /\ \A s \in Streams :
       /\ \A r \in Roles : WF_vars(SendOK(s, r)) /\ WF_vars(SendFails(s, r))
                           /\ WF_vars(Report(s, r))
       /\ \A r \in Tickers : WF_vars(Tick(s, r))
       /\ WF_vars(HelloCtxDone(s)) /\ WF_vars(ClientRecv(s)) /\ WF_vars(ClientRecvEnd(s))
       /\ WF_vars(HandlerStarts(s)) /\ WF_vars(PushCtxDone(s))
       /\ WF_vars(ServerRecv(s)) /\ WF_vars(ServerRecvFails(s))
       /\ WF_vars(HandlerReturns(s))
       /\ WF_vars(ServerNotices(s)) /\ WF_vars(ClientNotices(s))

FairSpec == Spec /\ Fairness

-----------------------------------------------------------------------------
(* Properties *)

\* The connection is up, and neither server goroutine has failed.
Live(s) ==
  /\ link[s] = "up" /\ open[s]["server"]
  /\ pc[s]["push"] # "err" /\ pc[s]["echo"] # "err"
  /\ pc[s]["push"] # "done" /\ pc[s]["echo"] # "done"

\* What goroutine r of stream s is sending.
Sending(s, r) == IF pc[s][r] = "send" THEN <<hand[s][r]>> ELSE << >>

Places(q, kind) == {i \in 1..Len(q) : q[i].kind = kind}

\* The messages of the kind in q have the numbers a + 1, ..., b, in this order.
Carries(q, kind, a, b) ==
  /\ a <= b
  /\ {q[i].n : i \in Places(q, kind)} = (a + 1)..b
  /\ \A i, j \in Places(q, kind) : i < j => q[i].n < q[j].n

\* What the last pipe and its sender, and behind them the first, have of a + 1, ..., b.
Pipeline(last, sender, kind, first, maker, made, a, b) ==
  \E i, j, k \in a..b :
    /\ Carries(last, kind, a, i) /\ Carries(sender, kind, i, j)
    /\ Carries(first, made, j, k) /\ Carries(maker, made, k, b)

\* Two goroutines Send on each end, in no fixed order, yet on a live stream the
\* hellos between the ticker and the client's log of their echoes are exactly
\* the unanswered ones, in order: none lost, doubled or overtaken
\* (client.go:91-97, server.go:70-86, client.go:111-124).
HelloPipeline ==
  \A s \in Streams : Live(s) =>
    Pipeline(inbox[s]["client"], Sending(s, "echo"), "echoHello",
             inbox[s]["server"], Sending(s, "hello"), "hello",
             heard[s]["client"], sent[s]["hello"])

\* Likewise for pushes and their acknowledgements: on a live stream every push
\* is acknowledged once, in the order of the pushes (server.go:50-56,
\* client.go:120-131, server.go:79).
AckPipeline ==
  \A s \in Streams : Live(s) =>
    Pipeline(inbox[s]["server"], Sending(s, "recv"), "ack",
             inbox[s]["client"], Sending(s, "push"), "push",
             heard[s]["server"], sent[s]["push"])

\* Nobody takes a second value from errCh, so a goroutine that had to wait there
\* would wait for ever: none ever does (server.go:25, client.go:67).
ErrChNeverBlocks ==
  \A s \in Streams, r \in Roles :
    pc[s][r] \in {"nil", "err"} => Len(errCh[s][Side(r)]) < ErrChCap

\* Chat never returns nil while its stream is alive, so the client never gets
\* io.EOF: the nil of server.go:48 only ever ends a call that is already dead.
NilEndsDeadStreams ==
  \A s \in Streams :
    (errCh[s]["server"] # << >> /\ Head(errCh[s]["server"]) = "nil") => ~open[s]["server"]

\* The client's main loop leaves a stream only when its transport is dead, so it
\* never runs two live streams (client.go:56-60).
LeavesOnlyDeadStreams ==
  \A s \in Streams : (s < cur \/ (s = cur /\ main # "chat")) => ~open[s]["client"]

\* The client's main loop restarts the chat whenever a stream ends: as the server
\* never ends one with io.EOF it should never leave the loop.  True of client1.go;
\* client.go leaves when its hello loop sees ctx.Done() and puts nil in errCh
\* before the receive loop puts the error there.
ClientKeepsRestarting == main # "exited"

\* The two receive loops wait for each other for ever once each is in a Send that
\* the other's unread messages block.
MutuallyBlocked(s) ==
  /\ Live(s)
  /\ pc[s]["recv"] = "send" /\ Len(inbox[s]["server"]) >= Window
  /\ pc[s]["echo"] = "send" /\ Len(inbox[s]["client"]) >= Window

Unanswered(s) ==
  (sent[s]["hello"] - heard[s]["client"]) + (sent[s]["push"] - heard[s]["server"])

\* Acknowledgements that the server has taken and the client has not seen echoed.
Returning(s) ==
  Cardinality(Places(inbox[s]["client"], "echoAck"))
    + Cardinality(Places(Sending(s, "echo"), "echoAck"))

\* That takes both windows full: at least 2 * Window + 2 hellos without an answer, pushes
\* without an acknowledgement and acknowledgements without their echo, no message of one
\* taking the place of two (client.go:131, server.go:86).
DeadlockNeedsFullWindows ==
  \A s \in Streams : MutuallyBlocked(s) => Unanswered(s) + Returning(s) >= 2 * Window + 2

\* A lost link ends all of its stream, whatever the goroutines were doing: runChatLoop
\* (client.go:73), the handler, and the two goroutines at each end.
LossEndsStream ==
  \A s \in Streams :
    /\ (link[s] = "lost" /\ cur = s) ~> (cur > s \/ main # "chat")
    /\ (link[s] = "lost" /\ handler[s] = "wait")
         ~> (handler[s] = "returned" /\ \A r \in {"push", "echo"} : pc[s][r] = "done")
    /\ (link[s] = "lost" /\ cur >= s)
         ~> (main = "exited" \/ \A r \in {"hello", "recv"} : pc[s][r] = "done")

\* With windows that do not fill up, the chat is the echo service of EchoService:
\* every hello is answered, once and in order, or the link is lost.
Service == INSTANCE EchoService WITH
  asked    <- [s \in Streams |-> sent[s]["hello"]],
  answered <- [s \in Streams |-> heard[s]["client"]],
  phase    <- [s \in Streams |-> IF s > cur THEN "new"
                                ELSE IF open[s]["server"] THEN link[s] ELSE "lost"]

ImplementsEchoService == Service!Spec
=============================================================================
