------------------------------ MODULE Neutron ------------------------------
(***************************************************************************)
(* bash/create_neutron.sh and bash/delete_neutron.sh: a test topology of N *)
(* networks, each with a subnet, a VM with a floating IP and a router; the *)
(* last network's router is the one called "External router", which is     *)
(* always there.  Neither script looks at the result of a command, and an  *)
(* operator may run either at any time, one at a time.                     *)
(*                                                                         *)
(* Neutron and nova are external.  Names need not be unique: a command     *)
(* that names an object is refused when no object has the name, or several *)
(* have.  A command is also refused while something depends on what it     *)
(* would take away.  A VM is built and deleted in the background; it has   *)
(* an address once it is active, and a port until it is gone, unless its   *)
(* building failed.                                                        *)
(***************************************************************************)
EXTENDS Integers, FiniteSets, Sequences

CONSTANTS
  N,           \* networks, 10 in the scripts
  MaxCreates,  \* bound: runs of create_neutron.sh
  MaxFaults    \* bound: commands that fail, scripts that are interrupted

ASSUME NeutronAssumption ==
  /\ N \in Nat \ {0}
  /\ MaxCreates \in Nat
  /\ MaxFaults \in Nat

VARIABLES
  script,    \* the script that runs, or ran last
  pc,        \* the command it is at; the script is over behind the last one
  cloud,     \* what there is, see Cloud
  creates,   \* runs of create_neutron.sh so far
  faults,    \* faults so far
  fresh,     \* the last create_neutron.sh began with nothing there, and since then
             \* no fault and at most one delete_neutron.sh (no variable of the code)
  again      \* the last create_neutron.sh began right after such a one, and since then
             \* no fault and no delete_neutron.sh (no variable of the code)

vars == <<script, pc, cloud, creates, faults, fresh, again>>

\* <<i, k>>: the object with number i in its name that the k-th run has made.
Ids      == (1..N) \X (1..MaxCreates)
External == <<N, 0>>                  \* "External router"
NoVM     == <<0, 0>>
VMStates == {"none", "build", "active", "error", "deleting"}

\* A subnet is known by its network, an interface is a subnet and a router.
Cloud ==
  [nets     : SUBSET Ids,
   subnets  : SUBSET Ids,
   routers  : SUBSET (Ids \cup {External}),
   gateways : SUBSET (Ids \cup {External}),
   ifaces   : SUBSET (Ids \X (Ids \cup {External})),
   vm       : [Ids -> VMStates],
   on       : [Ids -> Ids \cup {NoVM}],
   fips     : SUBSET [id : Ids, vm : Ids \cup {NoVM}]]

Nothing ==
  [nets |-> {}, subnets |-> {}, routers |-> {External}, gateways |-> {External},
   ifaces |-> {}, vm |-> [o \in Ids |-> "none"], on |-> [o \in Ids |-> NoVM], fips |-> {}]

-----------------------------------------------------------------------------
(* The scripts as sequences of commands *)

\* Seeded bugs are called Bug...: PROJECT.json says which definition each replaces.

BugFor(n, op) == [i \in 1..(n + 1) |-> [op |-> op, i |-> i]]         \* one too many

\* for i in {1..n} ; do op ... ; done
For(n, op) == [i \in 1..n |-> [op |-> op, i |-> i]]

\* for i in {1..n} ; do first ... ; second ... ; done
ForBoth(n, first, second) ==
  [k \in 1..(2 * n) |->
     [op |-> IF k % 2 = 1 THEN first ELSE second, i |-> (k + 1) \div 2]]

BugEarly ==                           \* interfaces are added before there are routers
  For(N, "net-create") \o For(N, "subnet-create") \o For(N, "interface-add")
    \o For(N - 1, "router-create") \o For(N - 1, "gateway-set") \o For(N, "boot")
    \o ForBoth(N, "floatingip-create", "associate")

\* create_neutron.sh.  The id of the external network that it looks up once (line 20) is
\* taken to be found.
Create ==
  For(N, "net-create") \o For(N, "subnet-create") \o For(N - 1, "router-create")
    \o For(N - 1, "gateway-set") \o For(N, "interface-add") \o For(N, "boot")
    \o ForBoth(N, "floatingip-create", "associate")

BugRoutersFirst ==                    \* routers are deleted before their interfaces
  <<[op |-> "disassociate", i |-> 0], [op |-> "floatingip-delete", i |-> 0]>>
    \o For(N, "vm-delete") \o For(N - 1, "router-delete") \o For(N, "interface-delete")
    \o For(N - 1, "gateway-clear") \o For(N, "net-delete")

BugNoExternal ==                      \* the interface of "External router" is forgotten
  <<[op |-> "disassociate", i |-> 0], [op |-> "floatingip-delete", i |-> 0]>>
    \o For(N, "vm-delete") \o For(N - 1, "interface-delete") \o For(N - 1, "gateway-clear")
    \o For(N - 1, "router-delete") \o For(N, "net-delete")

\* The first two are xargs over every floating IP there is.
Delete ==
  <<[op |-> "disassociate", i |-> 0], [op |-> "floatingip-delete", i |-> 0]>>
    \o For(N, "vm-delete") \o For(N, "interface-delete") \o For(N - 1, "gateway-clear")
    \o For(N - 1, "router-delete") \o For(N, "net-delete")

Script  == IF script = "create" THEN Create ELSE Delete
Running == pc <= Len(Script)

-----------------------------------------------------------------------------
(* The services *)

VMs == {o \in Ids : cloud.vm[o] # "none"}

Named(S, i)  == {o \in S : o[1] = i}
Unique(S, i) == Cardinality(Named(S, i)) = 1
The(S, i)    == CHOOSE o \in Named(S, i) : TRUE

\* The routers that net is attached to, and the VMs on it that have a port.
RoutersOf(net) == {r \in cloud.routers : <<net, r>> \in cloud.ifaces}
PortsOn(net)   == {o \in VMs : cloud.on[o] = net /\ cloud.vm[o] # "error"}

\* The floating IPs in use on a network.
FipsOn(net) == {f \in cloud.fips : f.vm # NoVM /\ cloud.on[f.vm] = net}

Net(i)    == The(cloud.nets, i)
Router(i) == The(cloud.routers, i)

\* Whether the command is carried out.  A name that is not found leaves the id in the
\* next command's arguments empty, and that command is refused for want of it.
Accepted(op, i) ==
  CASE op \in {"net-create", "router-create", "floatingip-create"} -> TRUE
    [] op \in {"disassociate", "floatingip-delete"} -> TRUE
    [] op = "subnet-create" -> Unique(cloud.nets, i) /\ Net(i) \notin cloud.subnets
    [] op = "gateway-set" -> Unique(cloud.routers, i)
    [] op = "interface-add" ->
         /\ Unique(cloud.subnets, i) /\ Unique(cloud.routers, i)
         /\ RoutersOf(The(cloud.subnets, i)) = {}
    [] op = "boot" -> Unique(cloud.nets, i) /\ Net(i) \in cloud.subnets
    [] op = "associate" ->
         /\ \E f \in cloud.fips : f.id = <<i, creates>>
         /\ Unique(VMs, i)
         /\ cloud.vm[The(VMs, i)] = "active"
         /\ RoutersOf(cloud.on[The(VMs, i)]) \cap cloud.gateways # {}
         /\ \A f \in cloud.fips : f.vm # The(VMs, i)
    [] op = "vm-delete" -> Unique(VMs, i)
    [] op = "interface-delete" ->
         /\ Unique(cloud.subnets, i) /\ Unique(cloud.routers, i)
         /\ Router(i) \in RoutersOf(The(cloud.subnets, i))
         /\ FipsOn(The(cloud.subnets, i)) = {}
    [] op = "gateway-clear" ->
         /\ Unique(cloud.routers, i)
         /\ \A net \in cloud.subnets : Router(i) \in RoutersOf(net) => FipsOn(net) = {}
    [] op = "router-delete" ->
         /\ Unique(cloud.routers, i)
         /\ \A net \in cloud.subnets : Router(i) \notin RoutersOf(net)
    [] op = "net-delete" ->
         /\ Unique(cloud.nets, i)
         /\ RoutersOf(Net(i)) = {} /\ PortsOn(Net(i)) = {}

Free(f) == [id |-> f.id, vm |-> NoVM]

\* What there is after a command that is carried out.
After(op, i) ==
  LET new == <<i, creates>> IN
  CASE op = "net-create" -> [cloud EXCEPT !.nets = @ \cup {new}]
    [] op = "subnet-create" -> [cloud EXCEPT !.subnets = @ \cup {Net(i)}]
    [] op = "router-create" -> [cloud EXCEPT !.routers = @ \cup {new}]
    [] op = "gateway-set" -> [cloud EXCEPT !.gateways = @ \cup {Router(i)}]
    [] op = "interface-add" ->
         [cloud EXCEPT !.ifaces = @ \cup {<<The(cloud.subnets, i), Router(i)>>}]
    [] op = "boot" -> [cloud EXCEPT !.vm[new] = "build", !.on[new] = Net(i)]
    [] op = "floatingip-create" -> [cloud EXCEPT !.fips = @ \cup {[id |-> new, vm |-> NoVM]}]
    [] op = "associate" ->
         [cloud EXCEPT !.fips = {IF f.id = new THEN [f EXCEPT !.vm = The(VMs, i)] ELSE f : f \in @}]
    [] op = "disassociate" -> [cloud EXCEPT !.fips = {Free(f) : f \in @}]
    [] op = "floatingip-delete" -> [cloud EXCEPT !.fips = {}]
    [] op = "vm-delete" -> [cloud EXCEPT !.vm[The(VMs, i)] = "deleting"]
    [] op = "interface-delete" ->
         [cloud EXCEPT !.ifaces = @ \ {<<The(cloud.subnets, i), Router(i)>>}]
    [] op = "gateway-clear" -> [cloud EXCEPT !.gateways = @ \ {Router(i)}]
    [] op = "router-delete" ->
         [cloud EXCEPT !.routers = @ \ {Router(i)}, !.gateways = @ \ {Router(i)}]
    [] op = "net-delete" -> [cloud EXCEPT !.nets = @ \ {Net(i)}, !.subnets = @ \ {Net(i)}]

\* A VM gets its address.
Boots(o) ==
  /\ cloud.vm[o] = "build"
  /\ cloud' = [cloud EXCEPT !.vm[o] = "active"]
  /\ UNCHANGED <<script, pc, creates, faults, fresh, again>>

\* Its building fails.
Errs(o) ==
  /\ cloud.vm[o] = "build"
  /\ cloud' = [cloud EXCEPT !.vm[o] = "error"]
  /\ UNCHANGED <<script, pc, creates, faults, fresh, again>>

\* A VM that was deleted is gone, and its port with it.
Gone(o) ==
  /\ cloud.vm[o] = "deleting"
  /\ cloud' = [cloud EXCEPT !.vm[o] = "none", !.on[o] = NoVM,
                            !.fips = {IF f.vm = o THEN Free(f) ELSE f : f \in @}]
  /\ UNCHANGED <<script, pc, creates, faults, fresh, again>>

-----------------------------------------------------------------------------
(* The operator and the scripts *)

TypeOK ==
  /\ script \in {"create", "delete"}
  /\ pc \in 1..(Len(Script) + 1)
  /\ cloud \in Cloud
  /\ creates \in 0..MaxCreates
  /\ faults \in 0..MaxFaults
  /\ fresh \in BOOLEAN
  /\ again \in BOOLEAN

Init ==
  /\ script = "delete"
  /\ pc = Len(Delete) + 1
  /\ cloud = Nothing
  /\ creates = 0
  /\ faults = 0
  /\ fresh = FALSE
  /\ again = FALSE

RunCreate ==
  /\ ~Running
  /\ creates < MaxCreates
  /\ script' = "create"
  /\ pc' = 1
  /\ creates' = creates + 1
  /\ fresh' = (cloud = Nothing)
  /\ again' = (fresh /\ script = "create")
  /\ UNCHANGED <<cloud, faults>>

RunDelete ==
  /\ ~Running
  /\ fresh' = (fresh /\ script = "create")
  /\ again' = FALSE
  /\ script' = "delete"
  /\ pc' = 1
  /\ UNCHANGED <<cloud, creates, faults>>

Command ==
  /\ Running
  /\ LET c == Script[pc] IN
       cloud' = IF Accepted(c.op, c.i) THEN After(c.op, c.i) ELSE cloud
  /\ pc' = pc + 1
  /\ UNCHANGED <<script, creates, faults, fresh, again>>

\* The service cannot be reached or answers with an error, also for some of the
\* floating IPs only.
CommandFails ==
  /\ Running
  /\ faults < MaxFaults
  /\ LET c == Script[pc] IN
       \/ UNCHANGED cloud
       \/ /\ c.op = "disassociate"
          /\ \E kept \in SUBSET cloud.fips :
               cloud' = [cloud EXCEPT !.fips = kept \cup {Free(f) : f \in @ \ kept}]
       \/ /\ c.op = "floatingip-delete"
          /\ \E kept \in SUBSET cloud.fips : cloud' = [cloud EXCEPT !.fips = kept]
  /\ pc' = pc + 1
  /\ faults' = faults + 1
  /\ fresh' = FALSE
  /\ again' = FALSE
  /\ UNCHANGED <<script, creates>>

\* CTRL+C
Interrupt ==
  /\ Running
  /\ faults < MaxFaults
  /\ pc' = Len(Script) + 1
  /\ faults' = faults + 1
  /\ fresh' = FALSE
  /\ again' = FALSE
  /\ UNCHANGED <<script, cloud, creates>>

Next ==
  \/ RunCreate \/ RunDelete \/ Command \/ CommandFails \/ Interrupt
  \/ \E o \in Ids : Boots(o) \/ Errs(o) \/ Gone(o)

Spec == Init /\ [][Next]_vars

\* The operator runs delete_neutron.sh again and again, and nova ends the deletions it
\* has accepted.
FairSpec ==
  /\ Spec
  /\ WF_vars(Command) /\ WF_vars(RunDelete)
  /\ \A o \in Ids : WF_vars(Gone(o))

-----------------------------------------------------------------------------
(* Properties *)

\* The order of the commands is right: in a run of create_neutron.sh from nothing and
\* the delete_neutron.sh after it, nothing but the pace of nova gets a command refused:
\* a VM that has no address yet (create_neutron.sh:51-53), or one whose port is still
\* there (delete_neutron.sh:10, 32).
RefusedOnlyForVMs ==
  (fresh /\ Running) =>
    LET c == Script[pc] IN
      \/ Accepted(c.op, c.i)
      \/ c.op = "associate" /\ cloud.vm[<<c.i, creates>>] \in {"build", "error"}
      \/ c.op = "net-delete" /\ cloud.vm[<<c.i, creates>>] = "deleting"

\* All such a pair of runs leaves are networks, with their subnets, whose VM was too
\* slow to go (delete_neutron.sh:32).
LeavesOnlyNets ==
  (fresh /\ script = "delete" /\ ~Running) =>
    [cloud EXCEPT !.nets = {}, !.subnets = {},
                  !.vm = Nothing.vm, !.on = Nothing.on] = Nothing
      /\ \A o \in Ids : cloud.vm[o] \in {"none", "deleting"}

\* create_neutron.sh run again over a topology that stands: all the commands that would
\* connect or boot something are refused or make up for what the first run was too early
\* for, and the topology of the first run stays as it is beside spare networks, routers
\* and floating IPs (create_neutron.sh:11-45).
CreateAgainKeepsFirst ==
  again =>
    LET first == {o \in Ids : o[2] = creates - 1} IN
      /\ first \subseteq cloud.nets /\ cloud.subnets = first
      /\ cloud.gateways = {o \in first : o[1] # N} \cup {External}
      /\ cloud.gateways \subseteq cloud.routers
      /\ cloud.ifaces = {<<o, IF o[1] = N THEN External ELSE o>> : o \in first}
      /\ VMs = first /\ \A o \in first : cloud.on[o] = o

\* Two networks, routers or VMs of one name: what happens when create_neutron.sh is run
\* again before everything is deleted.  A VM that is being deleted will not stay.
Ambiguous(i) ==
  \E S \in {cloud.nets, cloud.routers, {o \in VMs : cloud.vm[o] # "deleting"}} :
    Cardinality(Named(S, i)) > 1

\* Unless names are ambiguous, running delete_neutron.sh again clears whatever
\* interrupted scripts, failed commands and slow VMs have left, although its commands
\* depend on each other.
DeleteConverges ==
  (\A i \in 1..N : ~Ambiguous(i)) ~> (cloud = Nothing \/ \E i \in 1..N : Ambiguous(i))
=============================================================================
