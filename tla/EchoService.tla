---------------------------- MODULE EchoService ----------------------------
(***************************************************************************)
(* What the chat promises the user of a client, stream by stream: hellos   *)
(* are answered one after the other, each at most once and none before it  *)
(* was said; answers may stop only because the stream is lost, and a lost  *)
(* stream is never taken up again.  Chat is shown to implement this.       *)
(***************************************************************************)
EXTENDS Naturals

CONSTANTS Streams, MaxHello   \* MaxHello bounds the hellos Promise speaks of

VARIABLES
  asked,      \* asked[s]: hellos said on stream s
  answered,   \* answered[s]: hellos whose echo has come back
  phase       \* phase[s]: "new", "up" or "lost"

vars == <<asked, answered, phase>>

Init ==
  /\ asked = [s \in Streams |-> 0]
  /\ answered = [s \in Streams |-> 0]
  /\ phase = [s \in Streams |-> "new"]

Connect(s) ==
  /\ phase[s] = "new"
  /\ phase' = [phase EXCEPT ![s] = "up"]
  /\ UNCHANGED <<asked, answered>>

Ask(s) ==
  /\ phase[s] # "new"
  /\ asked' = [asked EXCEPT ![s] = @ + 1]
  /\ UNCHANGED <<answered, phase>>

\* An echo that had arrived is still read after the stream is lost.
Answer(s) ==
  /\ answered[s] < asked[s]
  /\ answered' = [answered EXCEPT ![s] = @ + 1]
  /\ UNCHANGED <<asked, phase>>

Lose(s) ==
  /\ phase[s] = "up"
  /\ phase' = [phase EXCEPT ![s] = "lost"]
  /\ UNCHANGED <<asked, answered>>

Next == \E s \in Streams : Connect(s) \/ Ask(s) \/ Answer(s) \/ Lose(s)

Safe == Init /\ [][Next]_vars

Promise ==
  \A s \in Streams, k \in 1..MaxHello :
    asked[s] >= k ~> (answered[s] >= k \/ phase[s] = "lost")

Spec == Safe /\ Promise
=============================================================================
