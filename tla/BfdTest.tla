------------------------------ MODULE BfdTest ------------------------------
(***************************************************************************)
(* tcl/case_bfd_ipv6v4_intf.tcl: a test of BFD on the link between a head  *)
(* router, which is under test, and a tail router.  The script shuts the   *)
(* link, takes addresses off the tail's interface and puts them back, and  *)
(* after each change checks which BFD sessions are up; the first check     *)
(* that does not see what it should ends the test.                         *)
(*                                                                         *)
(* The routers are external.  A session is known by its address at the     *)
(* tail: 1..V6 are the IPv6 addresses, 0 is the IPv4 address.  A healthy   *)
(* router has a session up exactly while its address is configured and its *)
(* interface is not shut at either end; the faults are those the test is   *)
(* there to find.  The script's pauses only let sessions settle: calm      *)
(* says that they always do before the next look at them, and that none    *)
(* goes down for no reason.                                                *)
(***************************************************************************)
EXTENDS Integers, FiniteSets, FiniteSetsExt, Sequences

CONSTANTS
  Routers,     \* the routers an input file may name
  Rut,         \* the router under test
  V6,          \* max_v6_addr
  MaxFlaps     \* bound: sessions that go down for no reason

ASSUME BfdTestAssumption ==
  /\ Rut \in Routers
  /\ V6 \in Nat
  /\ MaxFlaps \in Nat

VARIABLES
  phase,        \* the section the script is in
  pc,           \* index of the next instruction of Test
  try,          \* which look at the session the current check makes
  testResult,   \* the script's variable
  reported,     \* what ml_testResult was called with, "none" before
  deviceList,   \* the routers of the input file
  links,        \* the pairs of routers it connects
  configure,    \* ml_global(configure), fixed by the operator
  asked,        \* whether the operator asked for the topology to be unconfigured
  unconfigure,  \* ml_global(unconfigure), which starts as asked
  topology,     \* whether the topology is configured on the routers
  shut,         \* the ends of the link that are shut
  removed,      \* the addresses taken off the tail's interface
  session,      \* session[a]: the head has the BFD session to a up
  fault,        \* what is wrong with the router under test
  calm,         \* whether sessions settle in time and stay up (see above)
  flaps         \* sessions that went down for no reason so far

input  == <<deviceList, links, configure, asked, fault, calm>>
result == <<testResult, reported>>
router == <<shut, removed, session, flaps>>
vars == <<phase, pc, try, result, input, unconfigure, topology, router>>

Addrs == 0..V6
Phases == {"common_setup", "test", "cleanup", "common_cleanup", "over"}

Healthy == [kind |-> "none"]
Faults ==
  {Healthy} \cup [kind : {"line"}]
    \cup [kind : {"stuckUp", "stuckDown", "lost"}, at : Addrs]
    \cup {f \in [kind : {"drags"}, at : Addrs, by : Addrs] : f.at # f.by}

TypeOK ==
  /\ phase \in Phases
  /\ pc \in Nat
  /\ try \in 1..3
  /\ testResult \in {"pass", "fail"}
  /\ reported \in {"none", "pass", "fail"}
  /\ deviceList \subseteq Routers
  /\ links \subseteq SUBSET Routers
  /\ configure \in BOOLEAN /\ asked \in BOOLEAN /\ unconfigure \in BOOLEAN
  /\ topology \in {"raw", "ours", "found"}
  /\ shut \subseteq {"head", "tail"}
  /\ removed \subseteq Addrs
  /\ session \in [Addrs -> BOOLEAN]
  /\ fault \in Faults
  /\ calm \in BOOLEAN
  /\ flaps \in 0..MaxFlaps

-----------------------------------------------------------------------------
(* The script as a sequence of instructions *)

Shut(e)         == [op |-> "shut", end |-> e]
NoShut(e)       == [op |-> "noshut", end |-> e]
IntsUp          == [op |-> "line", want |-> TRUE]
IntsDown        == [op |-> "line", want |-> FALSE]
NoAddress(a)    == [op |-> "remove", addr |-> a]
Address(a)      == [op |-> "restore", addr |-> a]
Verify(a, want) == [op |-> "verify", addr |-> a, want |-> want]

\* for {set i 1} {$i <= $max_v6_addr} {incr i}: n instructions in every turn[i]
Each(n, turn) == [k \in 1..(V6 * n) |-> turn[((k - 1) \div n) + 1][((k - 1) % n) + 1]]

VerifyIpv6(want) == [i \in 1..V6 |-> Verify(i, want)]
VerifyAll(want)  == VerifyIpv6(want) \o <<Verify(0, want)>>

Step2 == <<Shut("tail"), IntsDown>> \o VerifyAll(FALSE)

Step3 ==
  <<Shut("head"), IntsDown, NoShut("tail"), NoShut("head"), IntsUp, IntsUp>>
    \o VerifyAll(TRUE)

\* The bugs below are seeded: PROJECT.json says which definition each replaces.
BugStep4 ==                     \* the IPv4 session is not looked at while one is removed
  Each(2 * V6 + 3, [i \in 1..V6 |->
    <<NoAddress(i)>> \o [j \in 1..V6 |-> Verify(j, i # j)] \o <<Address(i)>> \o VerifyAll(TRUE)])

\* While the address i is removed, and the IPv4 session after each of the others.
VerifyWithout(i) == Each(2, [j \in 1..V6 |-> <<Verify(j, i # j), Verify(0, TRUE)>>])

\* Each IPv6 address in turn: while it is removed its session alone is down.
Step4 ==
  Each(3 * V6 + 3, [i \in 1..V6 |->
    <<NoAddress(i)>> \o VerifyWithout(i) \o <<Address(i)>> \o VerifyAll(TRUE)])

BugStep5 == <<NoAddress(0)>> \o VerifyIpv6(TRUE) \o <<Verify(0, FALSE)>> \* not restored

\* The IPv4 address likewise.
Step5 ==
  <<NoAddress(0)>> \o VerifyIpv6(TRUE) \o <<Verify(0, FALSE), Address(0)>> \o VerifyAll(TRUE)

\* The section setup, one look at each of the two routers, and the section test.
Test == <<IntsUp, IntsUp>> \o VerifyAll(TRUE) \o Step2 \o Step3 \o Step4 \o Step5

-----------------------------------------------------------------------------
(* The routers *)

\* The state of a session its configuration asks for.  A dragged session goes down
\* with another one, a lost one does not come up again.
Configured(a) == shut = {} /\ a \notin removed

Target(a) ==
  CASE fault.kind = "stuckUp" /\ fault.at = a   -> TRUE
    [] fault.kind = "stuckDown" /\ fault.at = a -> FALSE
    [] fault.kind = "lost" /\ fault.at = a      -> Configured(a) /\ session[a]
    [] fault.kind = "drags" /\ fault.at = a     -> Configured(a) /\ fault.by \notin removed
    [] OTHER                                    -> Configured(a)

Settled == \A a \in Addrs : session[a] = Target(a)

Settle(a) ==
  /\ session[a] # Target(a)
  /\ session' = [session EXCEPT ![a] = Target(a)]
  /\ UNCHANGED <<phase, pc, try, result, input, unconfigure, topology, shut, removed, flaps>>

\* A session goes down and will come up again.
Flap(a) ==
  /\ ~calm /\ flaps < MaxFlaps
  /\ session[a] /\ Target(a)
  /\ session' = [session EXCEPT ![a] = FALSE]
  /\ flaps' = flaps + 1
  /\ UNCHANGED <<phase, pc, try, result, input, unconfigure, topology, shut, removed>>

-----------------------------------------------------------------------------
(* The sections of the script *)

PeersOf(r) == {q \in deviceList \ {r} : {q, r} \in links}

\* The loop asks for the peers of rut, whatever router it is at.
EndRouters == {r \in deviceList : Cardinality(PeersOf(Rut)) = 1}

Accepts ==
  /\ Cardinality(deviceList) >= 2
  /\ Cardinality(EndRouters) = 2
  /\ Rut \in EndRouters

Init ==
  /\ phase = "common_setup"
  /\ pc = 1
  /\ try = 1
  /\ testResult = "pass"
  /\ reported = "none"
  /\ deviceList \in SUBSET Routers
  /\ links \in SUBSET kSubset(2, deviceList)
  /\ configure \in BOOLEAN
  /\ asked \in BOOLEAN
  /\ unconfigure = asked
  /\ topology = IF configure THEN "raw" ELSE "found"
  /\ shut = {} /\ removed = {}
  /\ fault \in Faults
  /\ session = [a \in Addrs |-> ~(fault.kind = "stuckDown" /\ fault.at = a)]
  /\ calm \in BOOLEAN
  /\ flaps = 0

Goto(section) == phase' = section /\ testResult' = "fail"

\* Library, arguments, sources or too few routers: nothing is configured yet, and
\* all but the first turn unconfigure off.
SetupFailsEarly ==
  /\ phase = "common_setup"
  /\ Goto("common_cleanup")
  /\ unconfigure' \in {unconfigure, FALSE}
  /\ UNCHANGED <<pc, try, reported, input, topology, router>>

\* Also when no router is an end router: the list of them is then still empty (line 212).
SetupRejects ==
  /\ phase = "common_setup"
  /\ ~Accepts
  /\ Goto("common_cleanup")
  /\ unconfigure' = (unconfigure /\ Cardinality(deviceList) >= 2)
  /\ UNCHANGED <<pc, try, reported, input, topology, router>>

BugConfigureFails ==            \* turns unconfigure off like the failures before it
  /\ phase = "common_setup"
  /\ Accepts /\ configure
  /\ topology' = "ours"
  /\ Goto("common_cleanup")
  /\ unconfigure' = FALSE
  /\ UNCHANGED <<pc, try, reported, input, router>>

\* ml_configureTopology fails, with some of the topology configured.
ConfigureFails ==
  /\ phase = "common_setup"
  /\ Accepts /\ configure
  /\ topology' = "ours"
  /\ Goto("common_cleanup")
  /\ UNCHANGED <<pc, try, reported, input, unconfigure, router>>

Configure ==
  /\ phase = "common_setup"
  /\ Accepts
  /\ topology' = IF configure THEN "ours" ELSE topology
  /\ phase' = "test"
  /\ UNCHANGED <<pc, try, result, input, unconfigure, router>>

\* The instruction the section test is at.
At(op) == phase = "test" /\ pc <= Len(Test) /\ Test[pc].op = op

ChangeLink ==
  /\ At("shut") \/ At("noshut")
  /\ shut' = IF Test[pc].op = "shut" THEN shut \cup {Test[pc].end} ELSE shut \ {Test[pc].end}
  /\ pc' = pc + 1
  /\ UNCHANGED <<phase, try, result, input, unconfigure, topology, removed, session,
                 flaps>>

ChangeAddress ==
  /\ At("remove") \/ At("restore")
  /\ removed' = IF Test[pc].op = "remove" THEN removed \cup {Test[pc].addr}
                                           ELSE removed \ {Test[pc].addr}
  /\ pc' = pc + 1
  /\ UNCHANGED <<phase, try, result, input, unconfigure, topology, shut, session,
                 flaps>>

\* What a check found: on, or to the section cleanup.
Conclude(ok) ==
  /\ try' = 1
  /\ IF ok THEN pc' = pc + 1 /\ UNCHANGED <<phase, testResult>>
           ELSE Goto("cleanup") /\ UNCHANGED pc

\* ml_intsUp, with or without -down
CheckLine ==
  /\ At("line")
  /\ Conclude(Test[pc].want = (shut = {}) /\ fault.kind # "line")
  /\ UNCHANGED <<reported, input, unconfigure, topology, router>>

BugLookAgain == try <= 3         \* a fourth look

LookAgain == try < 3             \* -maxBfdTries 3

\* ml_verifyBfdNeighborIpv6Up and ...Ipv4Up: $SUCCESS as soon as the session is seen up.
Look ==
  /\ At("verify")
  /\ calm => Settled
  /\ IF ~session[Test[pc].addr] /\ LookAgain
     THEN try' = try + 1 /\ UNCHANGED <<pc, phase, testResult>>
     ELSE Conclude(Test[pc].want = session[Test[pc].addr])
  /\ UNCHANGED <<reported, input, unconfigure, topology, router>>

TestEnds ==
  /\ phase = "test" /\ pc > Len(Test)
  /\ phase' = "cleanup"
  /\ UNCHANGED <<pc, try, result, input, unconfigure, topology, router>>

Cleanup ==
  /\ phase = "cleanup"
  /\ reported' = testResult
  /\ phase' = "common_cleanup"
  /\ UNCHANGED <<pc, try, testResult, input, unconfigure, topology, router>>

CommonCleanup ==
  /\ phase = "common_cleanup"
  /\ topology' = IF unconfigure THEN "raw" ELSE topology
  /\ phase' = "over"
  /\ UNCHANGED <<pc, try, result, input, unconfigure, router>>

Next ==
  \/ SetupFailsEarly \/ SetupRejects \/ ConfigureFails \/ Configure
  \/ ChangeLink \/ ChangeAddress \/ CheckLine \/ Look \/ TestEnds
  \/ Cleanup \/ CommonCleanup
  \/ \E a \in Addrs : Settle(a) \/ Flap(a)

Spec == Init /\ [][Next]_vars
-----------------------------------------------------------------------------
(* Properties *)

\* The verdict tells a healthy router from a faulty one (lines 403-780): of every
\* fault in Faults there is a check that sees it, and every check asks for what the
\* configuration at that point gives.
VerdictIsExact ==
  (reported # "none" /\ calm) => (reported = "pass" <=> fault = Healthy)

\* Sessions may be slow and go down by themselves: a test that passes has put back
\* all it changed, so the testbed can be kept (lines 456-742).
PassRestores == reported = "pass" => shut = {} /\ removed = {}

\* What the script has configured, completely or not, it unconfigures if asked to,
\* whatever fails (lines 360-372, 801-806).
UnconfiguresItsOwn == (phase = "over" /\ topology = "ours") => ~asked
=============================================================================
