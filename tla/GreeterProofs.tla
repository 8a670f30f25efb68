--------------------------- MODULE GreeterProofs ---------------------------
(* Proofs for Greeter: any number of calls, any counts, window and greatest int32. *)
EXTENDS Greeter, TLAPS

LEMMA MessageKinds ==
  ASSUME NEW m \in Message
  PROVE  /\ "seq" \in DOMAIN m <=> m \in [seq : Int32]
         /\ "end" \in DOMAIN m <=> m \in [end : Ends]
         /\ ~("seq" \in DOMAIN m /\ "end" \in DOMAIN m)
         /\ "seq" \in DOMAIN m \/ "end" \in DOMAIN m
BY DEF Message

LEMMA IncType ==
  ASSUME NEW n \in Int32
  PROVE  Inc(n) \in Int32 /\ (n < MaxInt => Inc(n) = n + 1)
BY GreeterAssumption DEF Inc, Int32

LEMMA EffectiveType ==
  ASSUME NEW n \in Int32
  PROVE  Effective(n) \in 1..MaxInt /\ (n # MaxInt <=> Effective(n) < MaxInt)
BY GreeterAssumption DEF Effective, Int32

LEMMA Bounds ==
  /\ MaxCall \in Nat /\ 0 \in 0..MaxCall
  /\ 0 \in Int32 /\ 1 \in Int32
  /\ \A c \in Calls : Counts[c] \subseteq Int32
BY GreeterAssumption DEF Int32, Calls

-----------------------------------------------------------------------------
(* Types *)

WireOK == wire \in [Calls -> Seq(Message)]

\* TypeOK but for wire.
RestOK ==
  /\ main \in {"dial", "call", "recv", "clean", "sleep"}
  /\ cur \in 0..MaxCall
  /\ count \in [Calls -> Int32]
  /\ handler \in [Calls -> {"off", "loop", "send", "nap", "returned"}]
  /\ i \in [Calls -> Int32]
  /\ alive \in [Calls -> BOOLEAN]
  /\ cliCtx \in [Calls -> BOOLEAN]
  /\ srvCtx \in [Calls -> BOOLEAN]
  /\ got \in [Calls -> Int32]
  /\ ended \in [Calls -> Ends \cup {"open"}]

\* main is in a call only when there is one, and a call that has not been made is untouched.
Born ==
  /\ main \in {"recv", "clean"} => cur \in Calls
  /\ \A c \in Calls : c > cur => handler[c] = "off" /\ ~alive[c] /\ got[c] = 0
  /\ \A c \in Calls : ended[c] # "open" => c < cur \/ (c = cur /\ main # "recv")

Unsent == \A c \in Calls : c > cur => wire[c] = << >>

LEMMA TypeParts == TypeOK <=> WireOK /\ RestOK
BY DEF TypeOK, WireOK, RestOK

LEMMA CallNumbers ==
  ASSUME RestOK
  PROVE  /\ cur \in Nat /\ \A c \in Calls : c \in Nat
         /\ cur < MaxCall => cur + 1 \in Calls /\ cur + 1 \in 0..MaxCall
<1>1. cur \in 0..MaxCall
  BY DEF RestOK
<1> QED BY <1>1, Bounds DEF Calls

LEMMA WireUpdate ==
  ASSUME WireOK, NEW c, NEW q \in Seq(Message), wire' = [wire EXCEPT ![c] = q]
  PROVE  WireOK'
BY DEF WireOK

\* The first of what is on the wire.
LEMMA WireHead ==
  ASSUME WireOK, NEW c \in Calls, wire[c] # << >>
  PROVE  Head(wire[c]) \in Message /\ Tail(wire[c]) \in Seq(Message)
BY DEF WireOK

LEMMA WireAppend ==
  ASSUME WireOK, NEW c \in Calls, NEW m \in Message
  PROVE  Append(wire[c], m) \in Seq(Message)
BY DEF WireOK

LEMMA InitTyped == Init => WireOK /\ RestOK /\ Born /\ Unsent
<1> SUFFICES ASSUME Init PROVE WireOK /\ RestOK /\ Born /\ Unsent
  OBVIOUS
<1>1. wire = [c \in Calls |-> << >>]
  BY DEF Init
<1>2. WireOK /\ Unsent
  BY <1>1 DEF WireOK, Unsent
<1>3. /\ main = "dial" /\ cur = 0
      /\ count = [c \in Calls |-> 0] /\ i = [c \in Calls |-> 0] /\ got = [c \in Calls |-> 0]
      /\ handler = [c \in Calls |-> "off"] /\ ended = [c \in Calls |-> "open"]
      /\ alive = [c \in Calls |-> FALSE] /\ cliCtx = [c \in Calls |-> FALSE]
      /\ srvCtx = [c \in Calls |-> FALSE]
  BY DEF Init
<1>4. RestOK /\ Born
  BY <1>3, Bounds DEF RestOK, Born
<1> QED BY <1>2, <1>4

LEMMA RestStep == WireOK /\ RestOK /\ Born /\ [Next]_vars => RestOK'
<1> SUFFICES ASSUME WireOK, RestOK, Born, [Next]_vars PROVE RestOK'
  OBVIOUS
<1>1. CASE Dial \/ CallFails \/ WakeUp
  BY <1>1 DEF Dial, CallFails, WakeUp, RestOK
<1>2. CASE Call
  <2>1. cur + 1 \in Calls /\ cur + 1 \in 0..MaxCall
    BY <1>2, CallNumbers DEF Call
  <2>2. PICK n \in Counts[cur + 1] : count' = [count EXCEPT ![cur + 1] = n]
    BY <1>2 DEF Call
  <2>3. n \in Int32
    BY <2>1, <2>2, Bounds
  <2>4. count' \in [Calls -> Int32]
    BY <2>1, <2>2, <2>3 DEF RestOK
  <2>5. /\ main' = "recv" /\ cur' = cur + 1 /\ alive' = [alive EXCEPT ![cur + 1] = TRUE]
        /\ UNCHANGED <<handler, i, cliCtx, srvCtx, got, ended>>
    BY <1>2 DEF Call
  <2> QED BY <2>1, <2>4, <2>5 DEF RestOK
<1>3. CASE Recv
  <2>1. cur \in Calls
    BY <1>3 DEF Recv, Born
  <2>2. Head(wire[cur]) \in Message /\ "seq" \in DOMAIN Head(wire[cur])
    BY <1>3, <2>1, WireHead DEF Recv
  <2>3. Head(wire[cur]).seq \in Int32
    BY <2>2, MessageKinds
  <2>4. PICK n \in Int32 : got' = [got EXCEPT ![cur] = n]
    BY <1>3, <2>3 DEF Recv
  <2>5. UNCHANGED <<main, cur, count, handler, i, alive, cliCtx, srvCtx, ended>>
    BY <1>3 DEF Recv
  <2> QED BY <2>1, <2>4, <2>5 DEF RestOK
<1>4. CASE RecvEnds
  <2>1. cur \in Calls
    BY <1>4 DEF RecvEnds, Born
  <2>2. ASSUME wire[cur] # << >>, "end" \in DOMAIN Head(wire[cur])
        PROVE  Head(wire[cur]).end \in Ends
    BY <2>1, <2>2, WireHead, MessageKinds
  <2>3. PICK e \in Ends : ended' = [ended EXCEPT ![cur] = e]
    BY <1>4, <2>2 DEF RecvEnds, Ends
  <2>4. main' = "clean" /\ UNCHANGED <<cur, count, handler, i, alive, cliCtx, srvCtx, got>>
    BY <1>4 DEF RecvEnds
  <2> QED BY <2>1, <2>3, <2>4 DEF RestOK
<1>5. CASE CleanUp
  <2>1. /\ main' = "sleep" /\ UNCHANGED <<cur, count, handler, i, srvCtx, got, ended>>
        /\ cliCtx' = [cliCtx EXCEPT ![cur] = TRUE] /\ alive' = [alive EXCEPT ![cur] = FALSE]
    BY <1>5 DEF CleanUp
  <2> QED BY <2>1 DEF RestOK
<1>6. CASE Deadline
  BY <1>6 DEF Deadline, RestOK
<1>7. ASSUME NEW c \in Calls, ServerStep(c) PROVE RestOK'
  <2>1. ASSUME NEW e, Returns(c, e) PROVE RestOK'
    <3>1. /\ handler' = [handler EXCEPT ![c] = "returned"] /\ srvCtx' = [srvCtx EXCEPT ![c] = TRUE]
          /\ UNCHANGED <<main, cur, count, i, alive, cliCtx, got, ended>>
      BY <2>1 DEF Returns
    <3> QED BY <3>1 DEF RestOK
  <2>2. CASE HandlerStarts(c)
    BY <2>2, Bounds DEF HandlerStarts, RestOK
  <2>3. CASE LoopEnds(c) \/ LoopCancelled(c) \/ SendFails(c)
    BY <2>1, <2>3 DEF LoopEnds, LoopCancelled, SendFails
  <2>4. CASE LoopSends(c)
    BY <2>4 DEF LoopSends, RestOK
  <2>5. CASE SendOK(c)
    <3>1. /\ handler' = [handler EXCEPT ![c] = "nap"]
          /\ UNCHANGED <<main, cur, count, i, alive, cliCtx, srvCtx, got, ended>>
      BY <2>5 DEF SendOK
    <3> QED BY <3>1 DEF RestOK
  <2>6. CASE Nap(c)
    BY <2>6, IncType DEF Nap, RestOK
  <2> QED BY <1>7, <2>2, <2>3, <2>4, <2>5, <2>6 DEF ServerStep
<1>8. ASSUME NEW c \in Calls, ServerCtxDone(c) PROVE RestOK'
  BY <1>8 DEF ServerCtxDone, RestOK
<1>9. ASSUME NEW c \in Calls, LinkLost(c) PROVE RestOK'
  <2>1. /\ alive' = [alive EXCEPT ![c] = FALSE]
        /\ UNCHANGED <<main, cur, count, handler, i, cliCtx, srvCtx, got, ended>>
    BY <1>9 DEF LinkLost
  <2> QED BY <2>1 DEF RestOK
<1>10. CASE UNCHANGED vars
  BY <1>10 DEF vars, RestOK
<1> QED BY <1>1, <1>2, <1>3, <1>4, <1>5, <1>6, <1>7, <1>8, <1>9, <1>10 DEF Next, ClientStep

LEMMA WireStep == WireOK /\ RestOK /\ Born /\ [Next]_vars => WireOK'
<1> SUFFICES ASSUME WireOK, RestOK, Born, [Next]_vars PROVE WireOK'
  OBVIOUS
<1>1. CASE UNCHANGED wire
  BY <1>1 DEF WireOK
<1>2. CASE Recv
  <2>1. cur \in Calls /\ wire[cur] # << >> /\ wire' = [wire EXCEPT ![cur] = Tail(@)]
    BY <1>2 DEF Recv, Born
  <2> QED BY <2>1, WireHead, WireUpdate
<1>3. CASE CleanUp
  <2>1. wire' = [wire EXCEPT ![cur] = << >>]
    BY <1>3 DEF CleanUp
  <2>2. << >> \in Seq(Message)
    OBVIOUS
  <2> QED BY <2>1, <2>2, WireUpdate
<1>4. ASSUME NEW c \in Calls, NEW m \in Message, wire' = [wire EXCEPT ![c] = Append(@, m)]
      PROVE  WireOK'
  BY <1>4, WireAppend, WireUpdate
<1>5. ASSUME NEW c \in Calls, NEW e \in Ends, Returns(c, e) PROVE WireOK'
  <2>1. [end |-> e] \in Message
    BY DEF Message
  <2>2. wire' = [wire EXCEPT ![c] = Append(@, [end |-> e])] \/ UNCHANGED wire
    BY <1>5 DEF Returns
  <2> QED BY <1>1, <1>4, <2>1, <2>2
<1>6. ASSUME NEW c \in Calls, SendOK(c) PROVE WireOK'
  <2>1. [seq |-> i[c]] \in Message
    BY DEF Message, RestOK
  <2>2. wire' = [wire EXCEPT ![c] = Append(@, [seq |-> i[c]])] \/ UNCHANGED wire
    BY <1>6 DEF SendOK
  <2> QED BY <1>1, <1>4, <2>1, <2>2
<1>7. ASSUME NEW c \in Calls, LinkLost(c) PROVE WireOK'
  <2>1. PICK k \in 0..Len(wire[c]) : wire' = [wire EXCEPT ![c] = SubSeq(@, 1, k)]
    BY <1>7 DEF LinkLost
  <2>2. SubSeq(wire[c], 1, k) \in Seq(Message)
    BY DEF WireOK
  <2> QED BY <2>1, <2>2, WireUpdate
<1>8. ASSUME NEW c \in Calls, ServerStep(c) PROVE WireOK'
  <2>1. CASE HandlerStarts(c) \/ LoopSends(c) \/ Nap(c)
    BY <1>1, <2>1 DEF HandlerStarts, LoopSends, Nap
  <2>2. CASE LoopEnds(c) \/ LoopCancelled(c) \/ SendFails(c)
    BY <1>5, <2>2 DEF LoopEnds, LoopCancelled, SendFails, Ends
  <2> QED BY <1>6, <1>8, <2>1, <2>2 DEF ServerStep
<1>9. CASE Dial \/ Call \/ CallFails \/ RecvEnds \/ WakeUp \/ Deadline \/ UNCHANGED vars
  BY <1>1, <1>9 DEF Dial, Call, CallFails, RecvEnds, WakeUp, Deadline, vars
<1>10. ASSUME NEW c \in Calls, ServerCtxDone(c) PROVE WireOK'
  BY <1>1, <1>10 DEF ServerCtxDone
<1> QED BY <1>2, <1>3, <1>7, <1>8, <1>9, <1>10 DEF Next, ClientStep

LEMMA BornStep == RestOK /\ Born /\ [Next]_vars => Born'
<1> SUFFICES ASSUME RestOK, Born, [Next]_vars PROVE Born'
  OBVIOUS
<1>0. cur \in Nat /\ \A c \in Calls : c \in Nat
  BY CallNumbers
<1>1. CASE Dial \/ CallFails \/ WakeUp
  BY <1>1 DEF Dial, CallFails, WakeUp, Born
<1>2. CASE Call
  <2>1. cur + 1 \in Calls /\ cur \in Nat
    BY <1>2, CallNumbers DEF Call
  <2>2. /\ main' = "recv" /\ cur' = cur + 1 /\ alive' = [alive EXCEPT ![cur + 1] = TRUE]
        /\ UNCHANGED <<handler, got, ended>>
    BY <1>2 DEF Call
  <2> QED BY <1>0, <2>1, <2>2 DEF Born, RestOK
<1>3. CASE Recv \/ RecvEnds \/ CleanUp \/ Deadline
  <2>1. cur \in Calls /\ cur' = cur /\ handler' = handler
    BY <1>3 DEF Recv, RecvEnds, CleanUp, Deadline, Born
  <2>2. \/ main' = main /\ ended' = ended
        \/ main' \in {"clean", "sleep"} /\ \A c \in Calls \ {cur} : ended'[c] = ended[c]
    BY <1>3 DEF Recv, RecvEnds, CleanUp, Deadline, RestOK
  <2>3. \A c \in Calls \ {cur} : alive'[c] = alive[c] /\ got'[c] = got[c]
    BY <1>3 DEF Recv, RecvEnds, CleanUp, Deadline, RestOK
  <2> QED BY <1>0, <2>1, <2>2, <2>3 DEF Born
<1>4. ASSUME NEW c \in Calls, ServerStep(c) PROVE Born'
  <2>1. c <= cur
    <3>1. handler[c] # "off" \/ c <= cur
      BY <1>4 DEF ServerStep, HandlerStarts, LoopEnds, LoopCancelled, LoopSends, SendOK, SendFails, Nap
    <3> QED BY <1>0, <3>1 DEF Born
  <2>2. /\ UNCHANGED <<main, cur, alive, got, ended>>
        /\ \A d \in Calls \ {c} : handler'[d] = handler[d]
    BY <1>4 DEF ServerStep, HandlerStarts, LoopEnds, LoopCancelled, LoopSends, SendOK, SendFails,
                Nap, Returns, RestOK
  <2> QED BY <1>0, <2>1, <2>2 DEF Born, RestOK
<1>5. ASSUME NEW c \in Calls, ServerCtxDone(c) PROVE Born'
  BY <1>5 DEF ServerCtxDone, Born
<1>6. ASSUME NEW c \in Calls, LinkLost(c) PROVE Born'
  <2>1. UNCHANGED <<main, cur, handler, got, ended>> /\ alive' = [alive EXCEPT ![c] = FALSE]
    BY <1>6 DEF LinkLost
  <2> QED BY <2>1 DEF Born, RestOK
<1>7. CASE UNCHANGED vars
  BY <1>7 DEF vars, Born
<1> QED BY <1>1, <1>2, <1>3, <1>4, <1>5, <1>6, <1>7 DEF Next, ClientStep

Typed == WireOK /\ RestOK /\ Born

LEMMA TypedAlways == Spec => []Typed
<1>1. Init => Typed
  BY InitTyped DEF Typed
<1>2. Typed /\ [Next]_vars => Typed'
  BY RestStep, WireStep, BornStep DEF Typed
<1> QED BY <1>1, <1>2, PTL DEF Spec

\* The type invariant of Greeter: what is on the wire is greetings and ends, and
\* counters are int32 (server.go:25, 31).
THEOREM TypeCorrect == Spec => []TypeOK
BY TypedAlways, TypeParts, PTL DEF Typed

-----------------------------------------------------------------------------
(* What is on the wire of one call *)

IsGreeting(m) == "seq" \in DOMAIN m
IsEnd(m)      == "end" \in DOMAIN m

NoEnd(w) == \A k \in 1..Len(w) : ~IsEnd(w[k])
NoEOF(w) == \A k \in 1..Len(w) : IsEnd(w[k]) => w[k].end # "EOF"

\* After g of n greetings have been read: the next ones in order, at most one end, the
\* last, and that is EOF only behind the n-th greeting.
Queue(w, g, n) ==
  \A k \in 1..Len(w) :
    /\ IsGreeting(w[k]) => w[k].seq = g + k /\ g + k <= n
    /\ IsEnd(w[k]) => k = Len(w) /\ (w[k].end = "EOF" => g + k - 1 = n)

LEMMA Greeting ==
  ASSUME NEW n \in Int32
  PROVE  /\ [seq |-> n] \in Message /\ [seq |-> n].seq = n
         /\ IsGreeting([seq |-> n]) /\ ~IsEnd([seq |-> n])
BY DEF Message, IsGreeting, IsEnd

LEMMA EndMessage ==
  ASSUME NEW e \in Ends
  PROVE  /\ [end |-> e] \in Message /\ [end |-> e].end = e
         /\ IsEnd([end |-> e]) /\ ~IsGreeting([end |-> e])
BY DEF Message, IsGreeting, IsEnd

LEMMA AppendAt ==
  ASSUME NEW w \in Seq(Message), NEW m \in Message
  PROVE  /\ Len(w) \in Nat /\ Len(Append(w, m)) = Len(w) + 1
         /\ \A k \in 1..Len(w) : Append(w, m)[k] = w[k]
         /\ Append(w, m)[Len(w) + 1] = m
OBVIOUS

LEMMA TailAt ==
  ASSUME NEW w \in Seq(Message), w # << >>
  PROVE  /\ Len(w) \in Nat /\ Len(w) >= 1 /\ Len(Tail(w)) = Len(w) - 1
         /\ \A k \in 1..Len(Tail(w)) : Tail(w)[k] = w[k + 1]
         /\ Head(w) = w[1]
OBVIOUS

LEMMA PrefixAt ==
  ASSUME NEW w \in Seq(Message), NEW n \in 0..Len(w)
  PROVE  /\ Len(w) \in Nat /\ Len(SubSeq(w, 1, n)) = n
         /\ \A k \in 1..n : SubSeq(w, 1, n)[k] = w[k]
OBVIOUS

LEMMA QueueGreeting ==
  ASSUME NEW w \in Seq(Message), NEW g \in Int, NEW n \in Int, NEW x \in Int32,
         Queue(w, g, n), NoEnd(w), x = g + Len(w) + 1, x <= n
  PROVE  Queue(Append(w, [seq |-> x]), g, n) /\ NoEnd(Append(w, [seq |-> x]))
<1> DEFINE m == [seq |-> x]
           v == Append(w, m)
<1>1. m \in Message /\ m.seq = x /\ IsGreeting(m) /\ ~IsEnd(m)
  BY Greeting
<1> HIDE DEF m
<1>2. /\ Len(w) \in Nat /\ Len(v) = Len(w) + 1
      /\ \A k \in 1..Len(w) : v[k] = w[k]
      /\ v[Len(w) + 1] = m
  BY <1>1, AppendAt
<1> HIDE DEF v
<1>3. ASSUME NEW k \in 1..Len(v)
      PROVE  /\ ~IsEnd(v[k])
             /\ IsGreeting(v[k]) => v[k].seq = g + k /\ g + k <= n
  <2>1. CASE k = Len(w) + 1
    BY <1>1, <1>2, <2>1
  <2>2. CASE k \in 1..Len(w)
    BY <1>2, <2>2 DEF Queue, NoEnd
  <2> QED BY <1>2, <2>1, <2>2
<1>4. Queue(v, g, n) /\ NoEnd(v)
  BY <1>3 DEF Queue, NoEnd
<1> QED BY <1>4 DEF v, m

LEMMA QueueEnd ==
  ASSUME NEW w \in Seq(Message), NEW g \in Int, NEW n \in Int, NEW e \in Ends,
         Queue(w, g, n), NoEnd(w), e = "EOF" => g + Len(w) = n
  PROVE  Queue(Append(w, [end |-> e]), g, n)
<1> DEFINE m == [end |-> e]
           v == Append(w, m)
<1>1. m \in Message /\ m.end = e /\ IsEnd(m) /\ ~IsGreeting(m)
  BY EndMessage
<1> HIDE DEF m
<1>2. /\ Len(w) \in Nat /\ Len(v) = Len(w) + 1
      /\ \A k \in 1..Len(w) : v[k] = w[k]
      /\ v[Len(w) + 1] = m
  BY <1>1, AppendAt
<1> HIDE DEF v
<1>3. ASSUME NEW k \in 1..Len(v)
      PROVE  /\ IsGreeting(v[k]) => v[k].seq = g + k /\ g + k <= n
             /\ IsEnd(v[k]) => k = Len(v) /\ (v[k].end = "EOF" => g + k - 1 = n)
  <2>1. CASE k = Len(w) + 1
    BY <1>1, <1>2, <2>1
  <2>2. CASE k \in 1..Len(w)
    BY <1>2, <2>2 DEF Queue, NoEnd
  <2> QED BY <1>2, <2>1, <2>2
<1>4. Queue(v, g, n)
  BY <1>3 DEF Queue
<1> QED BY <1>4 DEF v, m

LEMMA QueueTail ==
  ASSUME NEW w \in Seq(Message), NEW g \in Int, NEW n \in Int,
         Queue(w, g, n), w # << >>, IsGreeting(Head(w))
  PROVE  /\ Head(w).seq = g + 1 /\ g + 1 <= n
         /\ Queue(Tail(w), g + 1, n)
<1> DEFINE v == Tail(w)
<1>1. /\ Len(w) \in Nat /\ Len(w) >= 1 /\ Len(v) = Len(w) - 1
      /\ \A k \in 1..Len(v) : v[k] = w[k + 1]
      /\ Head(w) = w[1]
  BY TailAt
<1> HIDE DEF v
<1>2. Head(w).seq = g + 1 /\ g + 1 <= n
  BY <1>1 DEF Queue
<1>3. ASSUME NEW k \in 1..Len(v)
      PROVE  /\ IsGreeting(v[k]) => v[k].seq = (g + 1) + k /\ (g + 1) + k <= n
             /\ IsEnd(v[k]) => k = Len(v) /\ (v[k].end = "EOF" => (g + 1) + k - 1 = n)
  <2>1. v[k] = w[k + 1] /\ k + 1 \in 1..Len(w)
    BY <1>1
  <2>2. /\ IsGreeting(w[k + 1]) => w[k + 1].seq = g + (k + 1) /\ g + (k + 1) <= n
        /\ IsEnd(w[k + 1]) => k + 1 = Len(w) /\ (w[k + 1].end = "EOF" => g + (k + 1) - 1 = n)
    BY <2>1 DEF Queue
  <2> QED BY <1>1, <2>1, <2>2
<1>4. Queue(v, g + 1, n)
  BY <1>3 DEF Queue
<1> QED BY <1>2, <1>4 DEF v

LEMMA TailKeeps ==
  ASSUME NEW w \in Seq(Message), w # << >>
  PROVE  /\ NoEnd(w) => NoEnd(Tail(w))
         /\ NoEOF(w) => NoEOF(Tail(w))
<1> DEFINE v == Tail(w)
<1>1. Len(w) \in Nat /\ Len(v) = Len(w) - 1 /\ \A k \in 1..Len(v) : v[k] = w[k + 1]
  BY TailAt
<1> HIDE DEF v
<1>2. \A k \in 1..Len(v) : k + 1 \in 1..Len(w) /\ v[k] = w[k + 1]
  BY <1>1
<1>3. /\ NoEnd(w) => NoEnd(v)
      /\ NoEOF(w) => NoEOF(v)
  BY <1>2 DEF NoEnd, NoEOF
<1> QED BY <1>3 DEF v

LEMMA PrefixKeeps ==
  ASSUME NEW w \in Seq(Message), NEW n \in 0..Len(w)
  PROVE  /\ NoEnd(w) => NoEnd(SubSeq(w, 1, n))
         /\ NoEOF(w) => NoEOF(SubSeq(w, 1, n))
         /\ \A g, x \in Int : Queue(w, g, x) => Queue(SubSeq(w, 1, n), g, x)
<1> DEFINE v == SubSeq(w, 1, n)
<1>1. Len(w) \in Nat /\ Len(v) = n /\ \A k \in 1..n : v[k] = w[k]
  BY PrefixAt
<1> HIDE DEF v
<1>2. n <= Len(w) /\ \A k \in 1..Len(v) : k \in 1..Len(w) /\ v[k] = w[k]
  BY <1>1
<1>3. /\ NoEnd(w) => NoEnd(v)
      /\ NoEOF(w) => NoEOF(v)
  BY <1>2 DEF NoEnd, NoEOF
<1>4. ASSUME NEW g \in Int, NEW x \in Int, Queue(w, g, x) PROVE Queue(v, g, x)
  BY <1>1, <1>2, <1>4 DEF Queue
<1> QED BY <1>3, <1>4 DEF v

LEMMA NoEOFAppend ==
  ASSUME NEW w \in Seq(Message), NEW m \in Message, NoEOF(w), IsEnd(m) => m.end # "EOF"
  PROVE  NoEOF(Append(w, m))
<1> DEFINE v == Append(w, m)
<1>1. /\ Len(w) \in Nat /\ Len(v) = Len(w) + 1
      /\ \A k \in 1..Len(w) : v[k] = w[k]
      /\ v[Len(w) + 1] = m
  BY AppendAt
<1> HIDE DEF v
<1>2. ASSUME NEW k \in 1..Len(v) PROVE IsEnd(v[k]) => v[k].end # "EOF"
  <2>1. CASE k = Len(w) + 1
    BY <1>1, <2>1
  <2>2. CASE k \in 1..Len(w)
    BY <1>1, <2>2 DEF NoEOF
  <2> QED BY <1>1, <2>1, <2>2
<1> QED BY <1>2 DEF NoEOF, v

LEMMA EmptyWire == NoEnd(<< >>) /\ NoEOF(<< >>) /\ \A g, n : Queue(<< >>, g, n)
BY DEF NoEnd, NoEOF, Queue

-----------------------------------------------------------------------------
(* One call, and what each step does to it *)

\* Of a call for n greetings: w is on the wire, the handler is at h with its counter at
\* k, the connection is up if a, and the client has read g greetings and ended with e.
OneCall(w, h, n, e, k, a, g) ==
  /\ h # "returned" => NoEnd(w)
  /\ n = MaxInt => NoEOF(w) /\ e # "EOF"
  /\ n # MaxInt =>
       /\ g \in 0..Effective(n)
       /\ Queue(w, g, Effective(n))
       /\ e = "EOF" => g = Effective(n)
       /\ h \in {"send", "nap"} => k \in 1..Effective(n)
       /\ h = "loop" => k \in 1..(Effective(n) + 1)
       /\ a => /\ h = "off" => g = 0 /\ w = << >>
               /\ h \in {"loop", "send"} => g + Len(w) = k - 1
               /\ h = "nap" => g + Len(w) = k

LEMMA CallMade ==
  ASSUME NEW n \in Int32, NEW k, NEW a
  PROVE  OneCall(<< >>, "off", n, "open", k, a, 0)
BY EmptyWire, EffectiveType DEF OneCall

LEMMA CallReads ==
  ASSUME NEW w \in Seq(Message), NEW h, NEW n \in Int32, NEW e, NEW k \in Int32,
         NEW a \in BOOLEAN, NEW g \in Int32, OneCall(w, h, n, e, k, a, g),
         w # << >>, IsGreeting(Head(w)), e # "EOF"
  PROVE  OneCall(Tail(w), h, n, e, k, a, Head(w).seq)
<1>1. /\ NoEnd(w) => NoEnd(Tail(w))
      /\ NoEOF(w) => NoEOF(Tail(w))
  BY TailKeeps
<1>2. CASE n = MaxInt
  BY <1>1, <1>2 DEF OneCall
<1>3. CASE n # MaxInt
  <2>1. Effective(n) \in Int /\ g \in 0..Effective(n) /\ Queue(w, g, Effective(n))
    BY <1>3, EffectiveType DEF OneCall
  <2>2. /\ Head(w).seq = g + 1 /\ g + 1 <= Effective(n)
        /\ Queue(Tail(w), g + 1, Effective(n))
    BY <2>1, QueueTail
  <2>3. Len(w) \in Nat /\ Len(Tail(w)) = Len(w) - 1
    BY TailAt
  <2>4. /\ h # "returned" => NoEnd(Tail(w))
        /\ h \in {"send", "nap"} => k \in 1..Effective(n)
        /\ h = "loop" => k \in 1..(Effective(n) + 1)
        /\ a => /\ h # "off"
                /\ h \in {"loop", "send"} => g + Len(w) = k - 1
                /\ h = "nap" => g + Len(w) = k
    BY <1>1, <1>3 DEF OneCall
  <2> QED BY <1>3, <2>1, <2>2, <2>3, <2>4 DEF OneCall
<1> QED BY <1>2, <1>3

LEMMA CallEnds ==
  ASSUME NEW w \in Seq(Message), NEW h, NEW n \in Int32, NEW e, NEW k \in Int32,
         NEW a \in BOOLEAN, NEW g \in Int32, OneCall(w, h, n, e, k, a, g), NEW x,
         x # "err" => w # << >> /\ IsEnd(Head(w)) /\ x = Head(w).end
  PROVE  OneCall(w, h, n, x, k, a, g)
<1>1. CASE x = "err"
  BY <1>1 DEF OneCall
<1>2. CASE w # << >> /\ IsEnd(Head(w)) /\ x = Head(w).end
  <2>1. Len(w) \in Nat /\ 1 \in 1..Len(w) /\ Head(w) = w[1]
    BY <1>2, TailAt
  <2>2. n = MaxInt => x # "EOF"
    BY <1>2, <2>1 DEF OneCall, NoEOF
  <2>3. n # MaxInt /\ x = "EOF" => g = Effective(n)
    BY <1>2, <2>1, EffectiveType DEF OneCall, Queue
  <2> QED BY <2>2, <2>3 DEF OneCall
<1> QED BY <1>1, <1>2

LEMMA CallCleaned ==
  ASSUME NEW w, NEW h, NEW n, NEW e, NEW k, NEW a, NEW g, OneCall(w, h, n, e, k, a, g)
  PROVE  OneCall(<< >>, h, n, e, k, FALSE, g)
BY EmptyWire DEF OneCall

LEMMA CallStarts ==
  ASSUME NEW w \in Seq(Message), NEW n \in Int32, NEW e, NEW k, NEW a, NEW g,
         OneCall(w, "off", n, e, k, a, g)
  PROVE  OneCall(w, "loop", n, e, 1, a, g)
<1>1. Effective(n) \in 1..MaxInt /\ MaxInt \in Nat
  BY EffectiveType, GreeterAssumption
<1>2. a /\ n # MaxInt => g + Len(w) = 0
  BY DEF OneCall
<1> QED BY <1>1, <1>2 DEF OneCall

LEMMA CallReturns ==
  ASSUME NEW w \in Seq(Message), NEW h, NEW n \in Int32, NEW e, NEW k \in Int32,
         NEW a \in BOOLEAN, NEW g \in Int32, OneCall(w, h, n, e, k, a, g),
         h # "returned", NEW x \in Ends, x = "EOF" => h = "loop" /\ ~(k <= Effective(n))
  PROVE  OneCall(IF a THEN Append(w, [end |-> x]) ELSE w, "returned", n, e, k, a, g)
<1>1. Effective(n) \in Int /\ Len(w) \in Nat
  BY EffectiveType, GreeterAssumption
<1>2. ASSUME n = MaxInt PROVE x # "EOF"
  BY <1>2, GreeterAssumption DEF Effective, Int32
<1>3. ASSUME n = MaxInt PROVE NoEOF(Append(w, [end |-> x]))
  BY <1>2, <1>3, NoEOFAppend, EndMessage DEF OneCall
<1>4. ASSUME n # MaxInt, a PROVE Queue(Append(w, [end |-> x]), g, Effective(n))
  <2>1. x = "EOF" => g + Len(w) = Effective(n)
    BY <1>1, <1>4 DEF OneCall, Int32
  <2>2. Queue(w, g, Effective(n)) /\ NoEnd(w) /\ g \in Int
    BY <1>4 DEF OneCall
  <2> QED BY <1>1, <2>1, <2>2, QueueEnd
<1> QED BY <1>3, <1>4 DEF OneCall

LEMMA CallSends ==
  ASSUME NEW w, NEW n, NEW e, NEW k \in Int32, NEW a, NEW g,
         OneCall(w, "loop", n, e, k, a, g), k <= Effective(n)
  PROVE  OneCall(w, "send", n, e, k, a, g)
BY DEF OneCall

LEMMA CallSent ==
  ASSUME NEW w \in Seq(Message), NEW n \in Int32, NEW e, NEW k \in Int32,
         NEW a \in BOOLEAN, NEW g \in Int32, OneCall(w, "send", n, e, k, a, g)
  PROVE  OneCall(IF a THEN Append(w, [seq |-> k]) ELSE w, "nap", n, e, k, a, g)
<1> DEFINE v == Append(w, [seq |-> k])
<1>1. Effective(n) \in Int /\ NoEnd(w)
  BY EffectiveType, GreeterAssumption DEF OneCall
<1>2. Len(w) \in Nat /\ Len(v) = Len(w) + 1
  BY Greeting, AppendAt
<1>3. ASSUME n # MaxInt, a PROVE Queue(v, g, Effective(n)) /\ NoEnd(v) /\ g + Len(v) = k
  <2>1. g + Len(w) = k - 1 /\ k \in 1..Effective(n) /\ g \in 0..Effective(n)
        /\ Queue(w, g, Effective(n))
    BY <1>3 DEF OneCall
  <2>2. k = g + Len(w) + 1 /\ k <= Effective(n) /\ g \in Int
    BY <1>1, <1>2, <2>1
  <2>3. Queue(v, g, Effective(n)) /\ NoEnd(v)
    BY <1>1, <2>1, <2>2, QueueGreeting
  <2> QED BY <1>2, <2>2, <2>3
<1>4. ASSUME n = MaxInt PROVE NoEOF(v) /\ NoEnd(v)
  <2>1. NoEOF(v)
    BY <1>4, NoEOFAppend, Greeting DEF OneCall
  <2>2. \A j \in 1..Len(w) : v[j] = w[j]
    BY Greeting, AppendAt
  <2>3. v[Len(w) + 1] = [seq |-> k] /\ ~IsEnd([seq |-> k])
    BY Greeting, AppendAt
  <2> HIDE DEF v
  <2>4. NoEnd(v)
    BY <1>1, <1>2, <2>2, <2>3 DEF NoEnd
  <2> QED BY <2>1, <2>4
<1> HIDE DEF v
<1>5. OneCall(IF a THEN v ELSE w, "nap", n, e, k, a, g)
  BY <1>3, <1>4 DEF OneCall
<1> QED BY <1>5 DEF v

LEMMA CallNaps ==
  ASSUME NEW w, NEW n \in Int32, NEW e, NEW k \in Int32, NEW a, NEW g,
         OneCall(w, "nap", n, e, k, a, g)
  PROVE  OneCall(w, "loop", n, e, Inc(k), a, g)
<1>1. CASE n = MaxInt
  BY <1>1 DEF OneCall
<1>2. CASE n # MaxInt
  <2>1. Effective(n) \in 1..MaxInt /\ Effective(n) < MaxInt /\ MaxInt \in Nat
    BY <1>2, EffectiveType, GreeterAssumption
  <2>2. k \in 1..Effective(n)
    BY <1>2 DEF OneCall
  <2>3. Inc(k) = k + 1
    BY <2>1, <2>2, IncType
  <2> QED BY <1>2, <2>1, <2>2, <2>3 DEF OneCall
<1> QED BY <1>1, <1>2

LEMMA CallCut ==
  ASSUME NEW w \in Seq(Message), NEW h, NEW n \in Int32, NEW e, NEW k, NEW a, NEW g,
         OneCall(w, h, n, e, k, a, g), NEW j \in 0..Len(w)
  PROVE  OneCall(SubSeq(w, 1, j), h, n, e, k, FALSE, g)
<1>1. Effective(n) \in Int /\ (n # MaxInt => g \in Int)
  BY EffectiveType, GreeterAssumption DEF OneCall
<1> QED BY <1>1, PrefixKeeps DEF OneCall

-----------------------------------------------------------------------------
(* Every call, in every state *)

At(c) == OneCall(wire[c], handler[c], count[c], ended[c], i[c], alive[c], got[c])

Ordered == Unsent /\ \A c \in Calls : At(c)

Inductive == Typed /\ Ordered

\* The step leaves call c alone.
Same(c) ==
  /\ wire'[c] = wire[c] /\ handler'[c] = handler[c] /\ count'[c] = count[c]
  /\ ended'[c] = ended[c] /\ i'[c] = i[c] /\ alive'[c] = alive[c] /\ got'[c] = got[c]

LEMMA Elsewhere ==
  ASSUME \A d \in Calls : At(d), NEW c \in Calls, At(c)', \A d \in Calls \ {c} : Same(d)
  PROVE  \A d \in Calls : At(d)'
BY DEF At, Same

LEMMA InitOrdered == Init => Ordered
<1> SUFFICES ASSUME Init PROVE Ordered
  OBVIOUS
<1>1. ASSUME NEW c \in Calls PROVE At(c)
  <2>1. /\ wire[c] = << >> /\ handler[c] = "off" /\ count[c] = 0
        /\ ended[c] = "open" /\ got[c] = 0
    BY DEF Init
  <2> QED BY <2>1, CallMade, Bounds DEF At
<1> QED BY <1>1, InitTyped DEF Ordered

\* The types of the state of one call.
LEMMA CallTypes ==
  ASSUME Typed, NEW c \in Calls
  PROVE  /\ wire[c] \in Seq(Message) /\ count[c] \in Int32 /\ i[c] \in Int32
         /\ alive[c] \in BOOLEAN /\ got[c] \in Int32
         /\ MaxInt \in Nat /\ Int32 \subseteq Int
<1>1. wire[c] \in Seq(Message)
  BY DEF Typed, WireOK
<1>2. count[c] \in Int32 /\ i[c] \in Int32 /\ alive[c] \in BOOLEAN /\ got[c] \in Int32
  BY DEF Typed, RestOK
<1>3. MaxInt \in Nat /\ Int32 \subseteq Int
  BY GreeterAssumption DEF Int32
<1> QED BY <1>1, <1>2, <1>3

LEMMA ClientKeeps == ASSUME Inductive, ClientStep PROVE \A c \in Calls : At(c)'
<1> USE DEF Inductive, Ordered
<1>1. CASE Dial \/ CallFails \/ WakeUp
  BY <1>1 DEF Dial, CallFails, WakeUp, At
<1>2. CASE Call
  <2>1. PICK c \in Calls : c = cur + 1 /\ c > cur
    BY <1>2, CallNumbers DEF Call, Typed
  <2>2. PICK n \in Counts[c] : count' = [count EXCEPT ![c] = n]
    BY <1>2, <2>1 DEF Call
  <2>3. n \in Int32
    BY <2>2, Bounds
  <2>4. alive' = [alive EXCEPT ![c] = TRUE] /\ UNCHANGED <<handler, i, wire, got, ended>>
    BY <1>2, <2>1 DEF Call
  <2>5. wire[c] = << >> /\ handler[c] = "off" /\ got[c] = 0
    BY <2>1 DEF Unsent, Typed, Born
  <2>6. ended[c] = "open"
    BY <2>1, CallNumbers DEF Typed, Born
  <2>7. count'[c] = n /\ \A d \in Calls \ {c} : Same(d)
    BY <2>2, <2>4 DEF Same, Typed, RestOK
  <2>8. At(c)'
    BY <2>3, <2>4, <2>5, <2>6, <2>7, CallMade DEF At
  <2> QED BY <2>7, <2>8, Elsewhere
<1>3. CASE Recv
  <2>1. PICK c \in Calls : c = cur
    BY <1>3 DEF Recv, Typed, Born
  <2>2. wire[c] # << >> /\ IsGreeting(Head(wire[c])) /\ ended[c] # "EOF"
    BY <1>3, <2>1, CallNumbers DEF Recv, IsGreeting, Typed, Born
  <2>3. /\ got' = [got EXCEPT ![c] = Head(wire[c]).seq]
        /\ wire' = [wire EXCEPT ![c] = Tail(wire[c])]
        /\ UNCHANGED <<count, handler, i, alive, ended>>
    BY <1>3, <2>1 DEF Recv
  <2>4. /\ wire'[c] = Tail(wire[c]) /\ got'[c] = Head(wire[c]).seq
        /\ \A d \in Calls \ {c} : Same(d)
    BY <2>3 DEF Same, Typed, RestOK, WireOK
  <2>5. OneCall(Tail(wire[c]), handler[c], count[c], ended[c], i[c], alive[c], Head(wire[c]).seq)
    BY <2>2, CallReads, CallTypes DEF At
  <2>6. At(c)'
    BY <2>3, <2>4, <2>5 DEF At
  <2> QED BY <2>4, <2>6, Elsewhere
<1>4. CASE RecvEnds
  <2>1. PICK c \in Calls : c = cur
    BY <1>4 DEF RecvEnds, Typed, Born
  <2>2. PICK x : /\ ended' = [ended EXCEPT ![c] = x]
                 /\ x # "err" => wire[c] # << >> /\ IsEnd(Head(wire[c])) /\ x = Head(wire[c]).end
    <3>1. CASE ended' = [ended EXCEPT ![c] = "err"]
      BY <3>1
    <3>2. CASE /\ wire[c] # << >> /\ IsEnd(Head(wire[c]))
               /\ ended' = [ended EXCEPT ![c] = Head(wire[c]).end]
      BY <3>2
    <3> QED BY <1>4, <2>1, <3>1, <3>2 DEF RecvEnds, IsEnd
  <2>3. UNCHANGED <<count, handler, i, wire, alive, got>>
    BY <1>4 DEF RecvEnds
  <2>4. ended'[c] = x /\ \A d \in Calls \ {c} : Same(d)
    BY <2>2, <2>3 DEF Same, Typed, RestOK
  <2>5. OneCall(wire[c], handler[c], count[c], x, i[c], alive[c], got[c])
    BY <2>2, CallEnds, CallTypes DEF At
  <2>6. At(c)'
    BY <2>3, <2>4, <2>5 DEF At
  <2> QED BY <2>4, <2>6, Elsewhere
<1>5. CASE CleanUp
  <2>1. PICK c \in Calls : c = cur
    BY <1>5 DEF CleanUp, Typed, Born
  <2>2. /\ alive' = [alive EXCEPT ![c] = FALSE] /\ wire' = [wire EXCEPT ![c] = << >>]
        /\ UNCHANGED <<count, handler, i, got, ended>>
    BY <1>5, <2>1 DEF CleanUp
  <2>3. wire'[c] = << >> /\ alive'[c] = FALSE /\ \A d \in Calls \ {c} : Same(d)
    BY <2>2 DEF Same, Typed, RestOK, WireOK
  <2>4. OneCall(<< >>, handler[c], count[c], ended[c], i[c], FALSE, got[c])
    BY CallCleaned DEF At
  <2>5. At(c)'
    BY <2>2, <2>3, <2>4 DEF At
  <2> QED BY <2>3, <2>5, Elsewhere
<1> QED BY <1>1, <1>2, <1>3, <1>4, <1>5 DEF ClientStep

LEMMA ReturnKeeps ==
  ASSUME Inductive, NEW c \in Calls, NEW x \in Ends, Returns(c, x), handler[c] # "returned",
         x = "EOF" => handler[c] = "loop" /\ ~(i[c] <= Effective(count[c]))
  PROVE  \A d \in Calls : At(d)'
<1>1. /\ handler' = [handler EXCEPT ![c] = "returned"]
      /\ wire' = IF alive[c] THEN [wire EXCEPT ![c] = Append(wire[c], [end |-> x])] ELSE wire
      /\ UNCHANGED <<count, i, alive, got, ended>>
  BY DEF Returns
<1>2. /\ wire'[c] = (IF alive[c] THEN Append(wire[c], [end |-> x]) ELSE wire[c])
      /\ handler'[c] = "returned" /\ \A d \in Calls \ {c} : Same(d)
  BY <1>1 DEF Same, Inductive, Typed, RestOK, WireOK
<1>3. OneCall(IF alive[c] THEN Append(wire[c], [end |-> x]) ELSE wire[c],
              "returned", count[c], ended[c], i[c], alive[c], got[c])
  BY CallReturns, CallTypes DEF Inductive, Ordered, At
<1>4. At(c)'
  BY <1>1, <1>2, <1>3 DEF At
<1> QED BY <1>2, <1>4, Elsewhere DEF Inductive, Ordered

LEMMA ServerKeeps ==
  ASSUME Inductive, NEW c \in Calls, ServerStep(c)
  PROVE  \A d \in Calls : At(d)'
<1> USE DEF Inductive, Ordered
<1>1. CASE HandlerStarts(c)
  <2>1. /\ handler[c] = "off"
        /\ handler' = [handler EXCEPT ![c] = "loop"] /\ i' = [i EXCEPT ![c] = 1]
        /\ UNCHANGED <<count, wire, alive, got, ended>>
    BY <1>1 DEF HandlerStarts
  <2>2. handler'[c] = "loop" /\ i'[c] = 1 /\ \A d \in Calls \ {c} : Same(d)
    BY <2>1 DEF Same, Typed, RestOK
  <2>3. At(c)'
    BY <2>1, <2>2, CallStarts, CallTypes DEF At
  <2> QED BY <2>2, <2>3, Elsewhere
<1>2. CASE LoopEnds(c)
  <2>1. handler[c] = "loop" /\ ~(i[c] <= Effective(count[c])) /\ Returns(c, "EOF")
    BY <1>2 DEF LoopEnds, InLoop
  <2> QED BY <2>1, ReturnKeeps DEF Ends
<1>3. CASE LoopCancelled(c) \/ SendFails(c)
  <2>1. handler[c] # "returned" /\ Returns(c, "err")
    BY <1>3 DEF LoopCancelled, SendFails
  <2> QED BY <2>1, ReturnKeeps DEF Ends
<1>4. CASE LoopSends(c)
  <2>1. /\ handler[c] = "loop" /\ i[c] <= Effective(count[c])
        /\ handler' = [handler EXCEPT ![c] = "send"]
        /\ UNCHANGED <<count, i, wire, alive, got, ended>>
    BY <1>4 DEF LoopSends, InLoop
  <2>2. handler'[c] = "send" /\ \A d \in Calls \ {c} : Same(d)
    BY <2>1 DEF Same, Typed, RestOK
  <2>3. At(c)'
    BY <2>1, <2>2, CallSends, CallTypes DEF At
  <2> QED BY <2>2, <2>3, Elsewhere
<1>5. CASE SendOK(c)
  <2>1. /\ handler[c] = "send" /\ handler' = [handler EXCEPT ![c] = "nap"]
        /\ wire' = IF alive[c] THEN [wire EXCEPT ![c] = Append(wire[c], [seq |-> i[c]])] ELSE wire
        /\ UNCHANGED <<count, i, alive, got, ended>>
    BY <1>5 DEF SendOK
  <2>2. /\ wire'[c] = (IF alive[c] THEN Append(wire[c], [seq |-> i[c]]) ELSE wire[c])
        /\ handler'[c] = "nap" /\ \A d \in Calls \ {c} : Same(d)
    BY <2>1 DEF Same, Typed, RestOK, WireOK
  <2>3. OneCall(IF alive[c] THEN Append(wire[c], [seq |-> i[c]]) ELSE wire[c],
                "nap", count[c], ended[c], i[c], alive[c], got[c])
    BY <2>1, CallSent, CallTypes DEF At
  <2>4. At(c)'
    BY <2>1, <2>2, <2>3 DEF At
  <2> QED BY <2>2, <2>4, Elsewhere
<1>6. CASE Nap(c)
  <2>1. /\ handler[c] = "nap" /\ handler' = [handler EXCEPT ![c] = "loop"]
        /\ i' = [i EXCEPT ![c] = Inc(i[c])] /\ UNCHANGED <<count, wire, alive, got, ended>>
    BY <1>6 DEF Nap
  <2>2. handler'[c] = "loop" /\ i'[c] = Inc(i[c]) /\ \A d \in Calls \ {c} : Same(d)
    BY <2>1 DEF Same, Typed, RestOK
  <2>3. At(c)'
    BY <2>1, <2>2, CallNaps, CallTypes DEF At
  <2> QED BY <2>2, <2>3, Elsewhere
<1> QED BY <1>1, <1>2, <1>3, <1>4, <1>5, <1>6 DEF ServerStep

LEMMA LinkKeeps ==
  ASSUME Inductive, NEW c \in Calls, LinkLost(c)
  PROVE  \A d \in Calls : At(d)'
<1>1. PICK k \in 0..Len(wire[c]) :
         /\ alive' = [alive EXCEPT ![c] = FALSE]
         /\ wire' = [wire EXCEPT ![c] = SubSeq(wire[c], 1, k)]
         /\ UNCHANGED <<count, handler, i, got, ended>>
  BY DEF LinkLost
<1>2. /\ wire'[c] = SubSeq(wire[c], 1, k) /\ alive'[c] = FALSE
      /\ \A d \in Calls \ {c} : Same(d)
  BY <1>1 DEF Same, Inductive, Typed, RestOK, WireOK
<1>3. OneCall(SubSeq(wire[c], 1, k), handler[c], count[c], ended[c], i[c], FALSE, got[c])
  BY <1>1, CallCut, CallTypes DEF Inductive, Ordered, At
<1>4. At(c)'
  BY <1>1, <1>2, <1>3 DEF At
<1> QED BY <1>2, <1>4, Elsewhere DEF Inductive, Ordered

\* Nothing is put on the wire of a call that has not been made.
LEMMA UnsentStep == Typed /\ Unsent /\ [Next]_vars => Unsent'
<1> SUFFICES ASSUME Typed, Unsent, [Next]_vars PROVE Unsent'
  OBVIOUS
<1>1. cur \in Nat /\ \A c \in Calls : c \in Nat
  BY CallNumbers DEF Typed
<1>2. cur' = cur \/ cur' = cur + 1
  BY DEF Next, ClientStep, ServerStep, Dial, Call, CallFails, Recv, RecvEnds, CleanUp, WakeUp,
         HandlerStarts, LoopEnds, LoopCancelled, LoopSends, SendOK, SendFails, Nap, Returns,
         Deadline, ServerCtxDone, LinkLost, vars
<1>3. \A d \in Calls : d > cur => wire'[d] = wire[d]
  <2>1. CASE Recv \/ CleanUp
    <3>1. PICK x : wire' = [wire EXCEPT ![cur] = x]
      BY <2>1 DEF Recv, CleanUp
    <3> QED BY <1>1, <3>1 DEF Typed, WireOK
  <2>2. CASE Dial \/ Call \/ CallFails \/ RecvEnds \/ WakeUp \/ Deadline \/ UNCHANGED vars
    BY <2>2 DEF Dial, Call, CallFails, RecvEnds, WakeUp, Deadline, vars
  <2>3. ASSUME NEW c \in Calls, ServerStep(c) PROVE \A d \in Calls : d > cur => wire'[d] = wire[d]
    <3>1. handler[c] # "off" \/ c <= cur
      BY <2>3 DEF ServerStep, HandlerStarts, LoopEnds, LoopCancelled, LoopSends, SendOK, SendFails, Nap
    <3>2. c <= cur
      BY <1>1, <3>1 DEF Typed, Born
    <3>3. wire' = wire \/ \E x : wire' = [wire EXCEPT ![c] = x]
      BY <2>3 DEF ServerStep, HandlerStarts, LoopEnds, LoopCancelled, LoopSends, SendOK, SendFails,
                  Nap, Returns
    <3> QED BY <1>1, <3>2, <3>3 DEF Typed, WireOK
  <2>4. ASSUME NEW c \in Calls, ServerCtxDone(c) PROVE wire' = wire
    BY <2>4 DEF ServerCtxDone
  <2>5. ASSUME NEW c \in Calls, LinkLost(c) PROVE \A d \in Calls : d > cur => wire'[d] = wire[d]
    <3>1. c <= cur
      BY <1>1, <2>5 DEF LinkLost, Typed, Born
    <3>2. PICK x : wire' = [wire EXCEPT ![c] = x]
      BY <2>5 DEF LinkLost
    <3> QED BY <1>1, <3>1, <3>2 DEF Typed, WireOK
  <2> QED BY <2>1, <2>2, <2>3, <2>4, <2>5 DEF Next, ClientStep
<1> QED BY <1>1, <1>2, <1>3 DEF Unsent

LEMMA InductiveStep == Inductive /\ [Next]_vars => Inductive'
<1> SUFFICES ASSUME Inductive, [Next]_vars PROVE Inductive'
  OBVIOUS
<1>1. Typed' /\ Unsent'
  BY RestStep, WireStep, BornStep, UnsentStep DEF Inductive, Typed, Ordered
<1>2. CASE Deadline \/ (\E c \in Calls : ServerCtxDone(c)) \/ UNCHANGED vars
  <2>1. UNCHANGED <<wire, handler, count, ended, i, alive, got>>
    BY <1>2 DEF Deadline, ServerCtxDone, vars
  <2> QED BY <1>1, <2>1 DEF Inductive, Ordered, At
<1>3. CASE ClientStep \/ \E c \in Calls : ServerStep(c) \/ LinkLost(c)
  BY <1>1, <1>3, ClientKeeps, ServerKeeps, LinkKeeps DEF Inductive, Ordered
<1> QED BY <1>2, <1>3 DEF Next

LEMMA InductiveAlways == Spec => []Inductive
<1>1. Init => Inductive
  BY InitTyped, InitOrdered DEF Inductive, Typed
<1> QED BY <1>1, InductiveStep, PTL DEF Spec

\* A call for the greatest int32 is never ended by its loop: i <= count holds of every
\* counter (server.go:31).
THEOREM GreatestCount == Spec => []GreatestCountNeverEnds
<1>1. Inductive => GreatestCountNeverEnds
  BY DEF Inductive, Ordered, At, OneCall, GreatestCountNeverEnds
<1> QED BY <1>1, InductiveAlways, PTL

-----------------------------------------------------------------------------
(* The stream of greetings that the caller was promised *)

\* What a step does to the stream of call c.
Quiet(c) == Asked(c)' = Asked(c) /\ Heard(c)' = Heard(c) /\ State(c)' = State(c)

\* A change of one call is a step of the abstract specification.
LEMMA Steps ==
  ASSUME NEW c \in Calls, \A d \in Calls \ {c} : Quiet(d),
         \/ Quiet(c)
         \/ /\ Asked(c) = 0 /\ Asked(c)' \in 1..MaxInt
            /\ Heard(c)' = Heard(c) /\ State(c)' = State(c)
         \/ /\ State(c) = "open" /\ Heard(c) < Asked(c) /\ Heard(c)' = Heard(c) + 1
            /\ Asked(c)' = Asked(c) /\ State(c)' = State(c)
         \/ /\ State(c) = "open" /\ Asked(c) > 0
            /\ \/ State(c)' = "complete" /\ Heard(c) = Asked(c)
               \/ State(c)' = "broken"
            /\ Asked(c)' = Asked(c) /\ Heard(c)' = Heard(c)
  PROVE  [Stream!Next]_(Stream!vars)
<1> DEFINE A == [d \in Calls |-> Asked(d)]
           H == [d \in Calls |-> Heard(d)]
           S == [d \in Calls |-> State(d)]
<1>1. \A d \in Calls : A[d] = Asked(d) /\ H[d] = Heard(d) /\ S[d] = State(d)
  OBVIOUS
<1>2. /\ Asked(c)' = Asked(c) => A' = A
      /\ Heard(c)' = Heard(c) => H' = H
      /\ State(c)' = State(c) => S' = S
  BY DEF Quiet
<1>3. /\ A' = [A EXCEPT ![c] = Asked(c)']
      /\ H' = [H EXCEPT ![c] = Heard(c)']
      /\ S' = [S EXCEPT ![c] = State(c)']
  BY DEF Quiet
<1> HIDE DEF A, H, S
<1>4. CASE Quiet(c)
  <2>1. UNCHANGED <<A, H, S>>
    BY <1>2, <1>4 DEF Quiet
  <2> QED BY <2>1 DEF Stream!vars, A, H, S
<1>5. CASE /\ Asked(c) = 0 /\ Asked(c)' \in 1..MaxInt
           /\ Heard(c)' = Heard(c) /\ State(c)' = State(c)
  <2>1. A[c] = 0 /\ (\E n \in 1..MaxInt : A' = [A EXCEPT ![c] = n]) /\ UNCHANGED <<H, S>>
    BY <1>1, <1>2, <1>3, <1>5
  <2>2. Stream!Ask(c)
    BY <2>1 DEF Stream!Ask, A, H, S
  <2> QED BY <2>2 DEF Stream!Next
<1>6. CASE /\ State(c) = "open" /\ Heard(c) < Asked(c) /\ Heard(c)' = Heard(c) + 1
           /\ Asked(c)' = Asked(c) /\ State(c)' = State(c)
  <2>1. S[c] = "open" /\ H[c] < A[c] /\ H' = [H EXCEPT ![c] = H[c] + 1] /\ UNCHANGED <<A, S>>
    BY <1>1, <1>2, <1>3, <1>6
  <2>2. Stream!Receive(c)
    BY <2>1 DEF Stream!Receive, A, H, S
  <2> QED BY <2>2 DEF Stream!Next
<1>7. CASE /\ State(c) = "open" /\ Asked(c) > 0 /\ Heard(c) = Asked(c)
           /\ State(c)' = "complete" /\ Asked(c)' = Asked(c) /\ Heard(c)' = Heard(c)
  <2>1. /\ S[c] = "open" /\ A[c] > 0 /\ H[c] = A[c]
        /\ S' = [S EXCEPT ![c] = "complete"] /\ UNCHANGED <<A, H>>
    BY <1>1, <1>2, <1>3, <1>7
  <2>2. Stream!Complete(c)
    BY <2>1 DEF Stream!Complete, A, H, S
  <2> QED BY <2>2 DEF Stream!Next
<1>8. CASE /\ State(c) = "open" /\ Asked(c) > 0
           /\ State(c)' = "broken" /\ Asked(c)' = Asked(c) /\ Heard(c)' = Heard(c)
  <2>1. /\ S[c] = "open" /\ A[c] > 0
        /\ S' = [S EXCEPT ![c] = "broken"] /\ UNCHANGED <<A, H>>
    BY <1>1, <1>2, <1>3, <1>8
  <2>2. Stream!Break(c)
    BY <2>1 DEF Stream!Break, A, H, S
  <2> QED BY <2>2 DEF Stream!Next
<1> QED BY <1>4, <1>5, <1>6, <1>7, <1>8

\* What the stream of a call depends on.
LEMMA QuietIf ==
  ASSUME NEW c, count'[c] = count[c], ended'[c] = ended[c], got'[c] = got[c],
         c <= cur' <=> c <= cur
  PROVE  Quiet(c)
BY DEF Quiet, Asked, Heard, State, Counted

LEMMA CallIsAsk == Inductive /\ Call => [Stream!Next]_(Stream!vars)
<1> SUFFICES ASSUME Inductive, Call PROVE [Stream!Next]_(Stream!vars)
  OBVIOUS
<1>1. PICK c \in Calls : c = cur + 1 /\ ~(c <= cur) /\ c <= cur'
  BY CallNumbers DEF Call, Inductive, Typed
<1>2. PICK n \in Counts[c] : count' = [count EXCEPT ![c] = n]
  BY <1>1 DEF Call
<1>3. n \in Int32 /\ count'[c] = n
  BY <1>2, Bounds DEF Inductive, Typed, RestOK
<1>4. cur' = cur + 1 /\ got' = got /\ ended' = ended
  BY DEF Call
<1>5. ASSUME NEW d \in Calls \ {c} PROVE Quiet(d)
  <2>1. d <= cur' <=> d <= cur
    BY <1>1, <1>4, CallNumbers DEF Inductive, Typed
  <2> QED BY <1>2, <1>4, <2>1, QuietIf DEF Inductive, Typed, RestOK
<1>6. c > cur
  BY <1>1, CallNumbers DEF Inductive, Typed
<1>7. got[c] = 0 /\ ended[c] = "open"
  BY <1>1, <1>6, CallNumbers DEF Inductive, Typed, Born
<1>8. Asked(c) = 0 /\ Heard(c)' = Heard(c) /\ State(c)' = State(c)
  BY <1>1, <1>4, <1>7 DEF Asked, Heard, State, Counted
<1>9. CASE n = MaxInt
  BY <1>3, <1>5, <1>8, <1>9, Steps DEF Asked, Counted, Quiet
<1>10. CASE n # MaxInt
  <2>1. Asked(c)' = Effective(n) /\ Effective(n) \in 1..MaxInt
    BY <1>1, <1>3, <1>10, EffectiveType DEF Asked, Counted
  <2> QED BY <1>5, <1>8, <2>1, Steps
<1> QED BY <1>9, <1>10

LEMMA RecvIsReceive == Inductive /\ Recv => [Stream!Next]_(Stream!vars)
<1> SUFFICES ASSUME Inductive, Recv PROVE [Stream!Next]_(Stream!vars)
  OBVIOUS
<1>1. PICK c \in Calls : c = cur
  BY DEF Recv, Inductive, Typed, Born
<1>2. wire[c] # << >> /\ IsGreeting(Head(wire[c])) /\ ended[c] = "open" /\ c <= cur
  BY <1>1, CallNumbers DEF Recv, IsGreeting, Inductive, Typed, Born
<1>3. got' = [got EXCEPT ![c] = Head(wire[c]).seq] /\ UNCHANGED <<cur, count, ended>>
  BY <1>1 DEF Recv
<1>4. got'[c] = Head(wire[c]).seq /\ \A d \in Calls \ {c} : Quiet(d)
  BY <1>3, QuietIf DEF Inductive, Typed, RestOK
<1>5. CASE count[c] = MaxInt
  <2>1. Quiet(c)
    BY <1>3, <1>5 DEF Quiet, Asked, Heard, State, Counted
  <2> QED BY <1>4, <2>1, Steps
<1>6. CASE count[c] # MaxInt
  <2>1. Effective(count[c]) \in Int /\ got[c] \in Int
    BY CallTypes, EffectiveType DEF Inductive
  <2>2. Queue(wire[c], got[c], Effective(count[c]))
    BY <1>6 DEF Inductive, Ordered, At, OneCall
  <2>3. Head(wire[c]).seq = got[c] + 1 /\ got[c] + 1 <= Effective(count[c])
    BY <1>2, <2>1, <2>2, QueueTail, CallTypes DEF Inductive
  <2>4. /\ Asked(c) = Effective(count[c]) /\ Heard(c) = got[c] /\ State(c) = "open"
        /\ Asked(c)' = Asked(c) /\ Heard(c)' = got[c] + 1 /\ State(c)' = State(c)
    BY <1>2, <1>3, <1>4, <1>6, <2>3 DEF Asked, Heard, State, Counted
  <2>5. Heard(c) < Asked(c)
    BY <2>1, <2>3, <2>4
  <2> QED BY <1>4, <2>4, <2>5, Steps
<1> QED BY <1>5, <1>6

LEMMA EndIsEnd == Inductive /\ Inductive' /\ RecvEnds => [Stream!Next]_(Stream!vars)
<1> SUFFICES ASSUME Inductive, Inductive', RecvEnds PROVE [Stream!Next]_(Stream!vars)
  OBVIOUS
<1>1. PICK c \in Calls : c = cur
  BY DEF RecvEnds, Inductive, Typed, Born
<1>2. ended[c] = "open" /\ c <= cur
  BY <1>1, CallNumbers DEF RecvEnds, Inductive, Typed, Born
<1>3. UNCHANGED <<cur, count, got>>
  BY DEF RecvEnds
<1>4. \A d \in Calls \ {c} : Quiet(d)
  BY <1>1, <1>3, QuietIf DEF RecvEnds, Inductive, Typed, RestOK
<1>5. CASE count[c] = MaxInt
  <2>1. Quiet(c)
    BY <1>3, <1>5 DEF Quiet, Asked, Heard, State, Counted
  <2> QED BY <1>4, <2>1, Steps
<1>6. CASE count[c] # MaxInt
  <2>1. /\ Asked(c) = Effective(count[c]) /\ Heard(c) = got[c] /\ State(c) = "open"
        /\ Asked(c)' = Asked(c) /\ Heard(c)' = Heard(c)
    BY <1>2, <1>3, <1>6 DEF Asked, Heard, State, Counted
  <2>2. Asked(c) > 0
    BY <2>1, CallTypes, EffectiveType DEF Inductive
  <2>3. State(c)' = IF ended'[c] = "open" THEN "open"
                    ELSE IF ended'[c] = "EOF" THEN "complete" ELSE "broken"
    BY <1>2, <1>3, <1>6 DEF State, Counted
  <2>4. ended'[c] = "EOF" => got[c] = Effective(count[c])
    BY <1>3, <1>6 DEF Inductive, Ordered, At, OneCall
  <2> QED BY <1>4, <2>1, <2>2, <2>3, <2>4, Steps DEF Quiet
<1> QED BY <1>5, <1>6

\* The program implements NumberedStream: a caller who asks for fewer than MaxInt greetings
\* reads 1, 2, ... in order, none beyond the count, and io.EOF only after the last,
\* whatever is lost and whenever a deadline passes (server.go:24-51, client.go:46-53).
THEOREM NumberedStreamImplemented == Spec => ImplementsNumberedStream
<1>1. Init => Stream!Init
  <2> SUFFICES ASSUME Init PROVE Stream!Init
    OBVIOUS
  <2>1. cur = 0 /\ \A c \in Calls : ended[c] = "open" /\ ~(c <= cur)
    BY Bounds DEF Init, Calls
  <2>2. \A c \in Calls : Asked(c) = 0 /\ Heard(c) = 0 /\ State(c) = "open"
    BY <2>1 DEF Asked, Heard, State, Counted
  <2> QED BY <2>2 DEF Stream!Init
<1>2. Inductive /\ Inductive' /\ [Next]_vars => [Stream!Next]_(Stream!vars)
  <2> SUFFICES ASSUME Inductive, Inductive', [Next]_vars PROVE [Stream!Next]_(Stream!vars)
    OBVIOUS
  <2>1. CASE Call \/ Recv \/ RecvEnds
    BY <2>1, CallIsAsk, RecvIsReceive, EndIsEnd
  <2>2. CASE UNCHANGED <<cur, count, got, ended>>
    <3>1. \A d \in Calls : Asked(d)' = Asked(d) /\ Heard(d)' = Heard(d) /\ State(d)' = State(d)
      BY <2>2 DEF Asked, Heard, State, Counted
    <3> QED BY <3>1 DEF Stream!vars
  <2>3. Call \/ Recv \/ RecvEnds \/ UNCHANGED <<cur, count, got, ended>>
    BY DEF Next, ClientStep, ServerStep, Dial, CallFails, CleanUp, WakeUp,
           HandlerStarts, LoopEnds, LoopCancelled, LoopSends, SendOK, SendFails, Nap, Returns,
           Deadline, ServerCtxDone, LinkLost, vars
  <2> QED BY <2>1, <2>2, <2>3
<1> QED BY <1>1, <1>2, InductiveAlways, PTL DEF Spec, ImplementsNumberedStream, Stream!Spec
=============================================================================
