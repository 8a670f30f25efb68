--------------------------- MODULE NumberedStream ---------------------------
(***************************************************************************)
(* What a server-side stream of greetings promises its caller, call by     *)
(* call: the greetings 1, 2, ... in order, none beyond the number asked    *)
(* for, and an end that is called complete only after the last of them.    *)
(***************************************************************************)
EXTENDS Naturals

CONSTANTS Calls, MaxCount

VARIABLES
  asked,   \* asked[c]: how many greetings call c is for, 0 before the call
  got,     \* got[c]: number of the last greeting received
  state    \* state[c]: "open", "complete" or "broken"

vars == <<asked, got, state>>

Init ==
  /\ asked = [c \in Calls |-> 0]
  /\ got = [c \in Calls |-> 0]
  /\ state = [c \in Calls |-> "open"]

Ask(c) ==
  /\ asked[c] = 0
  /\ \E n \in 1..MaxCount : asked' = [asked EXCEPT ![c] = n]
  /\ UNCHANGED <<got, state>>

Receive(c) ==
  /\ state[c] = "open"
  /\ got[c] < asked[c]
  /\ got' = [got EXCEPT ![c] = @ + 1]
  /\ UNCHANGED <<asked, state>>

Complete(c) ==
  /\ state[c] = "open"
  /\ asked[c] > 0
  /\ got[c] = asked[c]
  /\ state' = [state EXCEPT ![c] = "complete"]
  /\ UNCHANGED <<asked, got>>

Break(c) ==
  /\ state[c] = "open"
  /\ asked[c] > 0
  /\ state' = [state EXCEPT ![c] = "broken"]
  /\ UNCHANGED <<asked, got>>

Next == \E c \in Calls : Ask(c) \/ Receive(c) \/ Complete(c) \/ Break(c)

Spec == Init /\ [][Next]_vars
=============================================================================
