------------------------------ MODULE Greeter ------------------------------
(***************************************************************************)
(* The server-side stream of golang/gRPC_server-side_streaming: the        *)
(* client's endless loop of calls and the server's SayHelloStream handler, *)
(* one handler per call.  The handler of an old call may still be running  *)
(* when the client makes the next call.                                    *)
(*                                                                         *)
(* The counter of the handler is an int32; MaxInt stands for its maximum.  *)
(* grpc-go is external: a call's messages arrive in order, Send blocks     *)
(* while Window messages are unread and fails once the call's context is   *)
(* done, and the ten second deadline may pass at either end at any moment. *)
(***************************************************************************)
EXTENDS Integers, Sequences

CONSTANTS
  MaxCall,   \* bound: calls the client makes
  Counts,    \* Counts[c]: the counts that call c may ask for
  Default,   \* greetings for a count that is not positive, 5 in the code
  MaxInt,    \* the greatest int32
  Window     \* unread messages before Send blocks

ASSUME GreeterAssumption ==
  /\ MaxCall \in Nat
  /\ MaxInt \in Nat \ {0}
  /\ Default \in 1..(MaxInt - 1)
  /\ Counts \in [1..MaxCall -> SUBSET ((-MaxInt - 1)..MaxInt)]
  /\ Window \in Nat \ {0}

VARIABLES
  main,      \* where the client's loop is
  cur,       \* number of the client's last call
  count,     \* count[c]: the request's count
  handler,   \* handler[c]: where the handler of call c is
  i,         \* i[c]: the handler's loop counter
  wire,      \* wire[c]: what the server has sent and the client not read
  alive,     \* alive[c]: the connection under call c is up
  cliCtx,    \* cliCtx[c]: the client's context of call c is done
  srvCtx,    \* srvCtx[c]: the server's context of call c is done
  got,       \* got[c]: seq of the last greeting the client read
  ended      \* ended[c]: "open", or what Recv ended with: "EOF", "err"

vars == <<main, cur, count, handler, i, wire, alive, cliCtx, srvCtx, got, ended>>

Calls == 1..MaxCall
Int32 == (-MaxInt - 1)..MaxInt
Ends  == {"EOF", "err"}
Message == [seq : Int32] \cup [end : Ends]     \* a greeting, or the status

\* Seeded bugs, here and below: PROJECT.json says which definition each replaces.
BugInLoop(c) == i[c] < IF count[c] <= 0 THEN Default ELSE count[c]   \* < for <=

\* i++ on an int32.
Inc(n) == IF n = MaxInt THEN -MaxInt - 1 ELSE n + 1

\* a count that is not positive is defaulted.
Effective(n) == IF n <= 0 THEN Default ELSE n

TypeOK ==
  /\ main \in {"dial", "call", "recv", "clean", "sleep"}
  /\ cur \in 0..MaxCall
  /\ count \in [Calls -> Int32]
  /\ handler \in [Calls -> {"off", "loop", "send", "nap", "returned"}]
  /\ i \in [Calls -> Int32]
  /\ wire \in [Calls -> Seq(Message)]
  /\ alive \in [Calls -> BOOLEAN]
  /\ cliCtx \in [Calls -> BOOLEAN]
  /\ srvCtx \in [Calls -> BOOLEAN]
  /\ got \in [Calls -> Int32]
  /\ ended \in [Calls -> Ends \cup {"open"}]

Init ==
  /\ main = "dial"
  /\ cur = 0
  /\ count = [c \in Calls |-> 0]
  /\ handler = [c \in Calls |-> "off"]
  /\ i = [c \in Calls |-> 0]
  /\ wire = [c \in Calls |-> << >>]
  /\ alive = [c \in Calls |-> FALSE]
  /\ cliCtx = [c \in Calls |-> FALSE]
  /\ srvCtx = [c \in Calls |-> FALSE]
  /\ got = [c \in Calls |-> 0]
  /\ ended = [c \in Calls |-> "open"]

-----------------------------------------------------------------------------
(* The client's loop *)

Dial ==
  /\ main = "dial"
  /\ main' \in {"call", "sleep"}      \* connected, or dial failed
  /\ UNCHANGED <<cur, count, handler, i, wire, alive, cliCtx, srvCtx, got, ended>>

Call ==
  /\ main = "call"
  /\ cur < MaxCall
  /\ main' = "recv"
  /\ cur' = cur + 1
  /\ \E n \in Counts[cur + 1] : count' = [count EXCEPT ![cur + 1] = n]
  /\ alive' = [alive EXCEPT ![cur + 1] = TRUE]
  /\ UNCHANGED <<handler, i, wire, cliCtx, srvCtx, got, ended>>

\* SayHelloStream returns an error: cancel, close, sleep, again.
CallFails ==
  /\ main = "call"
  /\ main' = "sleep"
  /\ UNCHANGED <<cur, count, handler, i, wire, alive, cliCtx, srvCtx, got, ended>>

Recv ==
  /\ main = "recv"
  /\ wire[cur] # << >>
  /\ "seq" \in DOMAIN Head(wire[cur])
  /\ got' = [got EXCEPT ![cur] = Head(wire[cur]).seq]
  /\ wire' = [wire EXCEPT ![cur] = Tail(@)]
  /\ UNCHANGED <<main, cur, count, handler, i, alive, cliCtx, srvCtx, ended>>

\* Recv returns an error: the status, the deadline or the lost connection.
RecvEnds ==
  /\ main = "recv"
  /\ \/ /\ wire[cur] # << >>
        /\ "end" \in DOMAIN Head(wire[cur])
        /\ ended' = [ended EXCEPT ![cur] = Head(wire[cur]).end]
     \/ /\ cliCtx[cur] \/ (~alive[cur] /\ wire[cur] = << >>)
        /\ ended' = [ended EXCEPT ![cur] = "err"]
  /\ main' = "clean"
  /\ UNCHANGED <<cur, count, handler, i, wire, alive, cliCtx, srvCtx, got>>

\* cancel(); conn.Close(); sleep
CleanUp ==
  /\ main = "clean"
  /\ main' = "sleep"
  /\ cliCtx' = [cliCtx EXCEPT ![cur] = TRUE]
  /\ alive' = [alive EXCEPT ![cur] = FALSE]
  /\ wire' = [wire EXCEPT ![cur] = << >>]
  /\ UNCHANGED <<cur, count, handler, i, srvCtx, got, ended>>

WakeUp ==
  /\ main = "sleep"
  /\ main' = "dial"
  /\ UNCHANGED <<cur, count, handler, i, wire, alive, cliCtx, srvCtx, got, ended>>

-----------------------------------------------------------------------------
(* The server: SayHelloStream *)

\* The request arrives: count is defaulted and the loop starts at 1.
HandlerStarts(c) ==
  /\ handler[c] = "off"
  /\ c <= cur
  /\ ~srvCtx[c]
  /\ handler' = [handler EXCEPT ![c] = "loop"]
  /\ i' = [i EXCEPT ![c] = 1]
  /\ UNCHANGED <<main, cur, count, wire, alive, cliCtx, srvCtx, got, ended>>

\* The handler returns: its status goes to the client, its context is done.
Returns(c, end) ==
  /\ handler' = [handler EXCEPT ![c] = "returned"]
  /\ srvCtx' = [srvCtx EXCEPT ![c] = TRUE]
  /\ wire' = IF alive[c] THEN [wire EXCEPT ![c] = Append(@, [end |-> end])] ELSE wire
  /\ UNCHANGED <<main, cur, count, i, alive, cliCtx, got, ended>>

InLoop(c) == i[c] <= Effective(count[c])

LoopEnds(c) ==
  /\ handler[c] = "loop"
  /\ ~InLoop(c)
  /\ Returns(c, "EOF")

LoopCancelled(c) ==
  /\ handler[c] = "loop"
  /\ InLoop(c)
  /\ srvCtx[c]
  /\ Returns(c, "err")

LoopSends(c) ==
  /\ handler[c] = "loop"
  /\ InLoop(c)
  /\ ~srvCtx[c]
  /\ handler' = [handler EXCEPT ![c] = "send"]
  /\ UNCHANGED <<main, cur, count, i, wire, alive, cliCtx, srvCtx, got, ended>>

SendOK(c) ==
  /\ handler[c] = "send"
  /\ ~srvCtx[c]
  /\ alive[c] => Len(wire[c]) < Window
  /\ wire' = IF alive[c] THEN [wire EXCEPT ![c] = Append(@, [seq |-> i[c]])] ELSE wire
  /\ handler' = [handler EXCEPT ![c] = "nap"]
  /\ UNCHANGED <<main, cur, count, i, alive, cliCtx, srvCtx, got, ended>>

BugSendFails(c) ==               \* a failed Send is tried again
  /\ handler[c] = "send"
  /\ srvCtx[c]
  /\ UNCHANGED vars

SendFails(c) ==
  /\ handler[c] = "send"
  /\ srvCtx[c]
  /\ Returns(c, "err")

\* time.Sleep, then i++.
Nap(c) ==
  /\ handler[c] = "nap"
  /\ handler' = [handler EXCEPT ![c] = "loop"]
  /\ i' = [i EXCEPT ![c] = Inc(@)]
  /\ UNCHANGED <<main, cur, count, wire, alive, cliCtx, srvCtx, got, ended>>

-----------------------------------------------------------------------------
(* Deadlines and the network *)

BugDeadline ==                   \* a context without a timeout
  /\ FALSE
  /\ UNCHANGED vars

Deadline ==
  /\ main = "recv"
  /\ ~cliCtx[cur]
  /\ cliCtx' = [cliCtx EXCEPT ![cur] = TRUE]
  /\ UNCHANGED <<main, cur, count, handler, i, wire, alive, srvCtx, got, ended>>

\* The deadline passes at the server, or it learns that the client cancelled or
\* that the connection is gone.
ServerCtxDone(c) ==
  /\ c <= cur
  /\ ~srvCtx[c]
  /\ srvCtx' = [srvCtx EXCEPT ![c] = TRUE]
  /\ UNCHANGED <<main, cur, count, handler, i, wire, alive, cliCtx, got, ended>>

\* The connection breaks: of what was under way a prefix has arrived.
LinkLost(c) ==
  /\ alive[c]
  /\ alive' = [alive EXCEPT ![c] = FALSE]
  /\ \E k \in 0..Len(wire[c]) : wire' = [wire EXCEPT ![c] = SubSeq(@, 1, k)]
  /\ UNCHANGED <<main, cur, count, handler, i, cliCtx, srvCtx, got, ended>>

-----------------------------------------------------------------------------

ClientStep == Dial \/ Call \/ CallFails \/ Recv \/ RecvEnds \/ CleanUp \/ WakeUp

ServerStep(c) ==
  \/ HandlerStarts(c) \/ LoopEnds(c) \/ LoopCancelled(c) \/ LoopSends(c)
  \/ SendOK(c) \/ SendFails(c) \/ Nap(c)

Next ==
  \/ ClientStep \/ Deadline
  \/ \E c \in Calls : ServerStep(c) \/ ServerCtxDone(c) \/ LinkLost(c)

Spec == Init /\ [][Next]_vars

\* Both programs are scheduled, and the client's deadline passes in the end.
FairSpec ==
  /\ Spec
  /\ WF_vars(ClientStep) /\ WF_vars(RecvEnds) /\ WF_vars(Deadline)
  /\ \A c \in Calls : WF_vars(ServerStep(c))

-----------------------------------------------------------------------------
(* Properties *)

\* Whatever is lost and whenever the deadline passes, a caller who asks for fewer
\* than MaxInt greetings reads 1, 2, ... in order, none twice and none beyond the
\* count, and reads io.EOF only after the last (server.go:24-51, client.go:46-53).
Counted(c) == c <= cur /\ count[c] # MaxInt

Asked(c) == IF Counted(c) THEN Effective(count[c]) ELSE 0
Heard(c) == IF Counted(c) THEN got[c] ELSE 0
State(c) == IF ended[c] = "open" \/ ~Counted(c) THEN "open"
            ELSE IF ended[c] = "EOF" THEN "complete" ELSE "broken"

Stream == INSTANCE NumberedStream WITH
  MaxCount <- MaxInt,
  asked <- [c \in Calls |-> Asked(c)],
  got   <- [c \in Calls |-> Heard(c)],
  state <- [c \in Calls |-> State(c)]

ImplementsNumberedStream == Stream!Spec

\* i <= count holds of every int32 when count is the greatest: such a call is
\* never ended by its loop (server.go:31).
GreatestCountNeverEnds ==
  \A c \in Calls : count[c] = MaxInt => ended[c] # "EOF"

\* "honor client cancellation" (server.go:30): once the context of a call is done
\* its handler returns, also from a Send that flow control blocks.
HonorsCancellation ==
  \A c \in Calls : (srvCtx[c] /\ handler[c] # "off") ~> handler[c] = "returned"

\* The deadline gets the client out of any call, and it dials again.
ClientDialsAgain == (main = "recv") ~> (main = "dial")
=============================================================================
