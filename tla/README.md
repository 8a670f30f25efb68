# A verification of my_greatest_scripts

TLA+ models of the programs in this repository that have behaviour of their own:
state that several goroutines, threads, processes or events change, failures they
have to survive, or a protocol they keep. The programs do not call each other; each is
a system, and each has a module. `PROJECT.json` maps every definition to the lines it
models, pairs every property with a seeded bug that breaks it (the definitions named
`Bug...`, used by nothing else), and lists the hazards the properties are aimed at.

## Inventory

| Part | State | Operations | What is hard | What makes it correct |
|---|---|---|---|---|
| Bidirectional gRPC chat, `golang/gRPC_bidir_streaming` | client's main loop, two goroutines per stream at each end, `errCh` at each end, the stream's buffers and contexts | open a stream, tick, send, receive, acknowledge, echo, report, restart | two senders on one stream, flow control, lost links, goroutines that outlive their stream, which of two results comes first | messages answered once and in order; nobody waits on `errCh`; the client never gives up a live stream nor stops for a dead one |
| Server-streamed greetings, `golang/gRPC_server-side_streaming` | client's loop, one handler per call with an int32 counter, contexts | dial, call, receive, clean up; loop, send, sleep, return | deadlines against late messages, cancellation during a blocked send, counter at its limit | a complete stream is complete, in order; cancellation ends a handler |
| HTTP client and server with retries, `golang/go_client_server` | the call, the attempt, requests in flight | send, time out, retry, back off, return; handle | a retried POST may be handled more than once | a request is repeated only for attempts that failed; the outcome printed is earned |
| ClickHouse CRUD script, `golang/clickhouse` | the table `users` and its unmerged row versions, position in the script | 21 queries, each a request that may fail | a crash between two queries, a query served after its client is gone, two runs at a time, background merges | a run that is served alone reads what it wrote and gets to its end, whatever a crash left; of two at a time, only the other's inserts, TRUNCATE and DROP disturb one |
| Tornado callback database, `python/tornado_test.py` | `connection_db`, `count`, the waiting requests | `get`, `on_response`, `half_second_loop` | two requests in one bucket, clients that leave | no request is answered twice; one whose bucket nobody else draws is answered |
| Kubernetes log collector, `python/k8s_kubectl_logs_all_pods_labels.py` | one thread per target, the kubectl processes, the directory | check, remove, open, follow, time out; start, join, interrupt | threads with the same file name, check then act, a kubectl nobody stops | a target's log is in the file of its label |
| BFD IPv6/IPv4 test case, `tcl/case_bfd_ipv6v4_intf.tcl` | the verdict, the testbed it reshapes, the flags of its setup and cleanup | shut, unshut, take an address off, put it back, verify | sixty dependent checks, failure at any of them | the verdict tells a healthy router from a faulty one; the testbed is restored |
| Neutron topology, `bash/create_neutron.sh`, `bash/delete_neutron.sh` | networks, subnets, routers, interfaces, VMs and floating IPs at the cloud | some 100 commands, none of whose results is looked at | commands that fail in the middle, interrupted scripts, deletions that depend on each other, VMs that come and go in the background, names that are not unique | creations and deletions in an order in which none is refused; deleting again clears what is left |
| gorm reader, `golang/gorm_mysql_db.go` | the connection pool of `database/sql` | a ping and four queries | rows that are not closed keep their connections; a server with a limit | the program comes to its end; how many connections it takes |
| Unary greeter, `golang/gRPC_client_server` | client's call, connection, server's handler | dial, call, handle, print | a deadline of a second against a server that starts late or stops, grpc-go sending a request again | one greeting per call at most |
| IxN2X survey, `tcl/get_cisco_ixn2x_info.tcl` | the controller and the part of its survey it is at | query, decode a serial number, print | calls that are caught and calls that are not, numbers without their leading zeros | the serial number shown is the chassis'; an error costs only what comes after it, and nothing if it is caught |
| BFD SSO test case, `tcl/case_bfd_ipv4_sso.tcl` | verdict, two route processors | switchover, toggle modes, compare uptimes | | not modelled: the script as committed does not parse, see below |
| IRC search, thread demonstration, stock calculators, REST and CLI clients, dump and installation scripts, generated code, configuration | none, or the service's | straight-line calls | little | not modelled; `PROJECT.json` gives the reason for each |

They meet nowhere: what interacts is the actors within a part, through a stream, a table, a
directory, a dictionary, or a service outside the repository.

## Modules

Each system has its module, an `MC` module with the values of its constants, one
`.cfg` per run, and, where something is proved, a module of proofs.

    Chat  --INSTANCE-->  EchoService        MCChat, ChatProofs              EXTEND Chat
    Greeter  --INSTANCE-->  NumberedStream  MCGreeter, GreeterProofs        EXTEND Greeter
    ClickHouse                              MCClickHouse, ClickHouseProofs
    Tornado                                 MCTornado, TornadoProofs
    PodLogs                                 MCPodLogs, PodLogsProofs
    BfdTest                                 MCBfdTest, BfdTestProofs
    Neutron                                 MCNeutron, NeutronProofs
    OneShots EXTENDS SqlRows,  --INSTANCE-->  HelloCall, HttpRetry, Survey
                                            MCOneShots, OneShotsProofs      EXTEND OneShots

### Chat and EchoService

`Chat` composes client.go or client1.go (the constant `WatchesCtx` tells which) with
server.go. `main` is the client's main goroutine: `OpenStream` and `DialFails` are the
two outcomes of `client.Chat`, `ChatLoopReturns` is `runChatLoop` taking one value
from `errCh`, which makes main sleep and open another stream (an error) or end the
process (nil). Streams are numbered, so goroutines of an old stream run on beside
those of the next: `pc[s][r]` is the place of goroutine `r` of stream `s`, with `hello` and `recv`
at the client and `push` and `echo` at the server. A goroutine makes a message
(`Tick`, `ClientRecv`, `ServerRecv`) and sends it in another step (`SendOK`,
`SendFails`), which blocks while `Window` messages are unread. It ends by putting nil
or an error into `errCh` (`Report`), and two steps separate the moment a context is
cancelled from the moment the value is in the channel: that is where client.go goes wrong.

grpc-go is not in the repository. What the programs use of it is modelled: delivery in
order, flow control, `Send` failing on a dead stream, `Recv` draining before it reports
the end, when contexts are cancelled, and what two concurrent first sends at the server
may do to each other. A link may be lost at any moment (`LinkLost`), with any prefix of
what was under way delivered, and each end notices in its own time.

`EchoService` is what the user of a client is promised: hellos answered one after the
other, and each answered unless the stream is lost. The refinement mapping reads
`asked` off the ticker's counter, `answered` off the last echo heard, and `phase`
off the state of the link and of the server's context.

### Greeter and NumberedStream

The client's endless loop and one `SayHelloStream` handler per call. `MaxInt` stands
for the greatest int32 and `Default` for the 5 that a count of zero or less asks for, so
that an instance can let the counter wrap. `LoopSends` is the check of the context,
`SendOK`/`SendFails` the send after it, so that cancellation may come in between.
`NumberedStream` is the promise to a caller: greetings 1, 2, ..., none beyond the
count, and an end called complete only after the last. `Asked`, `Heard` and `State` map a call
to it. Calls for the greatest int32 are exempt from the mapping (`Counted`), because `i <= count`
(server.go:31) then never fails; `GreatestCountNeverEnds` says so.

### HttpRetry

The two calls of go_client.go one after the other, resty's attempts (`Send`, `Fails`,
`Retry`, `BackoffEnds`, `Return`) and the server's handlers (`Handle`), which may run
late, after the client has given the attempt up. `failed` only observes: it counts the attempts
that timed out, got no answer or a bad one. `OneShots` runs it. The code asks for 5 retries
(`RetryCount`), while the comment on go_client.go:15 and the messages on lines 43 and
63, which name a literal 10, speak of 10; no run is spent on that.

### ClickHouse

`Script` is `main` with its functions spelled out, 21 queries; `pc` and `phase` say
where a run is. A query is sent (`Post`), served (`Serve`) and its status looked at
(`Returns`, `Panics`), and a run may die at any point (`Dies`), leaving a query that
may be served later (`ServeLate`). The table is the sequence of versions of its one row;
`Cleanup` (OPTIMIZE FINAL) and `Merge` reduce it. `alone` and `since` only observe: whether
nobody else has been served since the run began, and what others have made of the table since the
run created it or inserted its last version. That an error in reading the body of an answer goes
unnoticed (clickhouse.go:25) is left out. `Refused` says which queries the server answers with an error; `OwnAt` is the value a run has
written by a place of the script.

### Tornado

A request puts its callback into a random bucket (`Get`; `bucket` is its local variable),
half_second_loop draws one (`Miss`, `Hit`). The coroutine yields only in `gen.sleep`, so a draw, the
deletion and the callback are one step. A second request that draws a waiting request's bucket
overwrites its callback, which is then never answered, though the file's header
(tornado_test.py:10-19) has every client answered in the end: `EveryRequestIsAnswered`, which is
violated. What is left of the promise is `UnsharedIsAnswered`.

### PodLogs

The threads of `task_get_k8s_pods_logs` between their system calls (`Exists`,
`Remove`, `Open`, then `follow`), the kubectl processes, which survive their thread's
timeout, and the main thread with its joins and CTRL+C. A file is known by the thread
whose shell created it, because removing a name does not stop who has it open.

### BfdTest

The script's five steps are data, the sequence `Test` of changes and checks, built as
the script's loops build it; the actions execute one instruction each. Any failed check
goes to the cleanup (`Conclude`). The head router is external: `Target` is the state a
session settles in for each of the faults the test is there to find, `Settle` takes it
there. `calm` is an input: whether sessions settle before the next look and stay up.
Two limits of the script are visible in it, and no run is spent on either. A check
that a session is up accepts the first of three looks that sees it up (line 608), so a
session that goes down and comes up again passes, where lines 37-38 say that other sessions
"must not flap". And lines 321-328 keep only the head's last interface, so that with several
the step "Shutdown all interfaces" (line 393) shuts one; the model has one link,
as the script's diagram has.

### Neutron

The scripts are data, `Create` and `Delete`, sequences of commands built as their loops build
them; `Command` takes the next one, whether it is carried out (`Accepted`, `After`) or refused,
because the scripts look at no result. Neutron and nova are external: names need not be unique, a
command that names nothing or several things is refused, and so is one that would take away what
something depends on. `Boots`, `Errs` and `Gone` are nova's work in the background. The operator
runs either script again and again (`RunCreate`, `RunDelete`), may interrupt it, and a service may
fail. `fresh` and `again` only observe: they mark a run of create from nothing and the delete after
it, and a run of create over what such a run has made. The lookup of the external network's id
(create_neutron.sh:20) is taken to find it; without it every gateway and floating IP would be refused.

### SqlRows, HelloCall, Survey and OneShots

These and HttpRetry are programs that are started once and end. `OneShots` starts one of the four in
each behaviour; the variables of the others keep a fixed initial value.

- `SqlRows`: `query` counts the ping of `gorm.Open` and the four queries. `FirstRow` is
  run_sql_command returning with its rows open (gorm_mysql_db.go:10-23), whose connection stays in
  `held`; `NoMoreRows` gives it back. With the pool of database/sql this costs one connection per
  call and `ThreeSuffice` says what that comes to.
- `HelloCall`: one call, with grpc-go's part external: `Dial` does not wait, a request that was
  certainly not processed is sent once more (`Unprocessed`), and a handler runs on when its
  client has given up.
- `Survey`: `DecodeSerialNumber` is translated in full, as operators over digits and bits, and
  compared with `Encoded`, which writes a serial number the way a chassis reports it. `made` only
  observes: it is the number the chassis was given. Around it is
  the loop over the controllers, with the calls that are caught (`Unreachable`, `Goes`) and
  those that are not (`Dies`), which are at every step: where a call is caught, its error
  message is taken for a list, and that raises when it is none. Which lists a section prints is left out.

## Runs

| Run | Shows | Bounds, and why they are enough |
|---|---|---|
| chat_client | Conservation and order of hellos and pushes (`HelloPipeline`, `AckPipeline`), `errCh` never blocks, nil only for dead streams, and how many unanswered messages a deadlock of the two receive loops takes | client.go, one stream, windows of 1, 4 hellos and 2 pushes: both receive loops block each other with hellos and pushes in several mixes, also with an acknowledgement on its way back, which with one push never is in a deadlock |
| chat_live | client1.go never leaves its loop and gives up only dead streams; `EchoService`, liveness included; a lost link ends `runChatLoop` and every goroutine | one stream, windows of 4 that 2 hellos and 1 push do not fill, since with full windows the receive loops can wait for each other for ever; the safety properties are theorems for any number of streams and any window |
| chat_nil_race | a violation: client.go ends its process when a stream fails | one stream, one hello, one push |
| greeter_calls | `NumberedStream`; the greatest count never ends; cancellation ends handlers; the client gets away from any call | two calls: one defaulted, one for 1 or the greatest int32, which is 3, so that the counter wraps; a window of 1, so that sends block |
| clickhouse_runs | a run served alone reads its writes, is never refused and ends clean; one that is not is refused only after another's DROP, and misses its own latest version only after another's insert, TRUNCATE or DROP | two terminals and two runs: both at once, or one after a crash of the other |
| tornado_answers | callbacks are those of unanswered requests, nobody is answered twice, a request that shares its bucket with no other is answered | 3 requests over 2 buckets, so that a bucket is drawn twice and another once; draws counted to 6 |
| tornado_overwritten | a violation: a request whose callback is overwritten waits for ever | the same |
| podlogs_files | logs are lost, and `os.remove` raises, only between targets with one label; joins return | two namespaces with one label, one target with its own |
| podlogs_clobbered | a violation: told "collected" although a file was lost | the same targets |
| bfd_verdict | the verdict is exact when sessions settle in time; a pass has restored the testbed; cleanup as asked | three routers, every topology, 2 IPv6 addresses and the IPv4 one, every single fault, 2 sessions that go down by themselves |
| neutron_cycles | from nothing, only the pace of nova gets a command refused, and networks of slow VMs are all that is left; created again over what stands, it stays as it is; unless names are ambiguous, deleting again leaves nothing | 2 networks, of which the last has the external router; 2 runs of create, so that names can repeat, and 2 faults |
| one_shots | serial numbers are shown as given; an error nobody catches costs only what comes after it; one greeting per call; HTTP outcomes are earned, and requests repeated only for attempts that failed; three connections suffice for the gorm reader; all four programs end | 3 retries, enough for late requests of several attempts at once; 2 controllers; serial numbers that take each field through all its values (a character through its bits) beside two settings of the others, in six forms each; a server with 4 connections, any number of them taken by others |

The three violations are recorded under `findings`. They are disagreements of the code with its own
comments and messages: client.go stops where it means to restart; the log collector
names its files by label and not by namespace; the callback database forgets a request when
another draws its number. Deadlock is checked where the system cannot stop
(Greeter, Tornado, Neutron, whose operator can always run a script again); the others have an end, or
a bound on streams, where every step is done.

### Fairness

Liveness is checked under weak fairness of steps the programs' schedulers give
every runnable goroutine, thread or coroutine. Beyond that:

- Chat: tickers tick on, a ready `ctx.Done()` is taken in the end, and keepalive
  (server.go:99-109, client.go:34-38) notices a lost link at each end. Nothing makes
  a link get lost, and nothing is assumed of the order of `select` cases.
- Greeter: the ten seconds of the call's context pass (client.go:32).
- Tornado: draws are random and come to every bucket again, so a bucket that holds a
  callback is drawn. This holds with probability one, not of every sequence of draws.
- Neutron: the operator runs delete_neutron.sh again and again, a script goes on to its next
  command, and nova ends the deletions it has accepted. Nobody has to run create_neutron.sh, and
  nothing is assumed of VMs that are being built.
- OneShots: a program runs on, and the server, network or controller it waits for answers or
  fails in the end; for HelloCall the second of its context passes (client.go:27-28), for HttpRetry
  the sixty seconds of `SetTimeout` (go_client.go:31), and the servers of both owe nothing.
- PodLogs: an hour passes for `communicate(timeout=3600)`. Nobody has to press CTRL+C.

## Proofs

All proofs hold for every value of the constants that their assumptions admit: `ChatAssumption`,
`GreeterAssumption`, `ClickHouseAssumption`, `TornadoAssumption`, `PodLogsAssumption`,
`BfdTestAssumption`, `NeutronAssumption`, `SqlRowsAssumption`, `OneShotsAssumption` and
`SurveyAssumption`, which ask for no more than types, a `None` that is not a request or a target, a
`NoTable` that is no table, a default count below the greatest int32, at least one network, and of
the weeks in serial numbers that no year has more than 53. The last is needed for one number:
0xfffffffffff, whose week is 63, is taken for an error. The type invariants of all modules are
proved; of the first five the runs do not check them again.

- **ChatProofs.** `TypedAlways` strengthens `TypeOK` with what a goroutine in `Send`
  holds: only messages for the other end. `ProtocolAlways` adds, per stream, that an
  unborn stream is untouched, that whoever ends with a value other than a server goroutine's error has
  seen a dead stream, and an account of every value put into `errCh` and taken out of it. The
  account gives `NobodyWaitsOnErrCh` (two goroutines, one value each, room for two);
  with the rest it gives `NilEndsDead` and `LoopLeavesDead`. `Client1KeepsRestarting` adds
  `NeverNil`: for client1.go no nil and no io.EOF is ever under way to main.
  `ErrChNeverBlocks` and its like are not inductive: nothing in them says how many
  values have been taken already, or what a pending one stands for.

  The order of messages rests on `Flow`. `HelloPipeline` alone breaks when a goroutine sends
  something of another kind, or when it says nothing of a stream on which only the push goroutine
  has failed, while echoes go on. So `Flow` adds that an unopened stream is empty (`Untouched`), who
  sends which kinds (`Spoken`), that the client's end is up as long as link and server are
  (`Whole`), and that what is on the wire to the client answers the oldest hellos even on a dead
  stream (`Answered`). The lemmas `Carries...` and `Pipe...` say what becomes of a pipeline when a
  message is made, sent, taken or lost; each kind of step then has one lemma. `DeadlockIsLarge`
  counts: with both pipelines full, the messages in the two windows and in the two hands have
  different numbers. `EchoesAnswerHellos` is the safety half of the refinement of EchoService,
  step by step: `Tick` is an `Ask`, a received echo an `Answer`, the end of the link or of the
  server's context a `Lose`, and every other step none.
- **GreeterProofs.** `Inductive` adds to the types that a call which has not been made is untouched
  (`Born`, `Unsent`) and, of every call, `OneCall`: what is on its wire continues what the client
  has read (`Queue`), an end is the last message and is io.EOF only behind the last greeting, and
  while the connection is up the greetings read and under way add up to the handler's counter. The
  lemmas `Call...` say what each step does to one call; `NumberedStreamImplemented` then maps
  the client's `Call`, `Recv` and `RecvEnds` to steps of NumberedStream and all others to none.
  Neither `GreatestCountNeverEnds` nor the stream's promise is inductive: both depend on messages
  that are still under way, and those on a counter that may wrap.
- **ClickHouseProofs.** `TableAt(k)` says what the table holds when the first k queries have been served and no others, and
  `Relies` what a run that is served alone knows between its queries; the step from `TableAt(k - 1)` to
  `TableAt(k)` is `ServeAt`. `ReadsItsWrites` and `RunsThrough` follow. With others about, `HoldsAt(k, s)`
  says what is left of that when `since` is s: after its own inserts a run's last version is the
  last row, after others' it need not be, and only a DROP takes the table. `OwnServe` and
  `OthersServe` are the run's own queries and everybody else's, late ones included;
  `OnlyOthersDisturb` follows.
- **TornadoProofs.** `CallbackIsPending` is inductive with `TypeOK`; `NoSecondAnswer` is
  the action property that follows from it.
- **PodLogsProofs.** The argument is about a target without twins: nobody else touches the
  name of its file, so once the file is there it is the one its kubectl writes to.
  `LogsOfTwinlessCollected` and `TwinlessNeverRaise` follow.
- **BfdTestProofs.** The script never looks at a configuration, so its instructions alone say how
  the link is configured at each of them: `Plan[k]` is that configuration, for any number of
  addresses. `Runs` is a triple of a kind: a stretch of `Test` takes one configuration to another,
  every check on the way asks for what healthy routers show, and certain instructions occur in
  certain configurations. Lemmas prove it for one instruction, for two stretches in a row and for a
  loop (`Each`), then for each step of the script, and `Looks` sums it up for `Test`: it
  leaves the link as it found it (hence `RestoresAlways`) and looks at every session up, down and with
  every other address removed. The invariant is
  `Planned` (the link is as the plan has it), `Ended` (only a test that has run to its end passes),
  `Own` (what is configured is unconfigured if asked), and two halves for the verdict: `Sound`, no check
  fails a healthy router, and `Thorough`, no check that has passed is one that sees the fault. The
  last needs `Gone`, since a session that is lost is seen only by a check after the one that saw it
  down. `ExactVerdict` finds for every kind of fault the check in `Looks` that sees it.
- **OneShotsProofs.** For the gorm reader, `Connections` says which earlier queries may hold a
  connection when the program is at its k-th: with the one in use that makes three
  (`ThreeAreEnough`). For the unary call, `CallOK` has that the handler has run exactly when there is
  its response (`OneGreeting`). For the HTTP client, requests in flight are distinct attempts, and
  `Accounted` counts them against the attempts made, call by call; `Counted` has that all of those but
  the one in hand, or the one that succeeded, have failed, and an answer of 200 is only under
  way when its request has been handled (`HttpPhases`). `OutcomesEarned` and `NoIdleRepeats` follow.
  For the survey, `WhatAnErrorCosts` needs that the sections before the controller at hand are closed,
  and that the script ends only behind the last one.

  `SerialNumbersShown` rests on `Decodes`: a serial number is decoded to itself from every form it is
  written in. Fields have fixed widths of at most 7 bits, so the recursive function of
  `ConvertBinStringToDec` is written out (`Values`, `Value4` to `Value7`) and no induction is needed;
  `Back5` to `Back7` invert `Bits`, and `FieldsBack` inverts the 44 bits of `Code`. In hexadecimal
  (`EncodedIs`), no country has the code 0, so at most the first digit is zero; trimming gives the
  digits from the first or from the second on (`WrittenIs`), the bits of which `Pad` completes again
  (`HexIs`, `PadIs`). `DecodeType` has that any report, of any length, is decoded to a serial
  number or to an error; with the types of the other three programs this gives `AllTyped`.
- **NeutronProofs.** `CreateIs` and `DeleteIs` give the place of every command in its script, which
  the scripts' seven and six loops determine. Types follow (`TypedAlways`). `RefusedOnlyForVMs` and `LeavesOnlyNets` are far
  from inductive: whether a command is refused depends on all before it. `Fresh` says what there
  is when a script is at its p-th command: `Standing` what the loops of create_neutron.sh have
  made, `Falling` what those of delete_neutron.sh have left, whatever nova has done meanwhile.
  Each command has a lemma that it takes one such state to the next, and is not refused but for a
  VM; the lemmas `...Place` say how far each loop is then. The last state of create is the first
  of delete (`AllStands`). A second run of create starts from it too: `Beside` says what its p-th
  command finds, the first run's objects and spare ones beside them. A name that two objects have
  is found twice (`Crowded`), so nothing that names one of them is carried out; before that the
  first run's is the only one (`BesideCommand`). Nova may go on building meanwhile (`NovaBeside`), and
  a floating IP that came too early the first time may be given now. `FirstIsKept` follows.

Only model-checked is what needs fairness, since liveness is out of the provers' reach:
EchoService's `Promise` in `ImplementsEchoService` (its safety half is `EchoesAnswerHellos`),
`LossEndsStream`, `HonorsCancellation`, `ClientDialsAgain`, `UnsharedIsAnswered`, `JoinReturns`,
`DeleteConverges` and `ProgramEnds`. Every invariant that a run checks is also a theorem.

## Plan

Done: Chat with EchoService, whose safety half it is proved to implement; Greeter with
NumberedStream, which it is proved to implement; HttpRetry, ClickHouse, Tornado, PodLogs, Neutron,
SqlRows, HelloCall, Survey and BfdTest with their proofs.

What could come next is more of the IxN2X survey: the lists it prints, where the words of an error
message are taken for a list.

## Not modelled

case_bfd_ipv4_sso.tcl does not parse as committed: the condition at line 887 lacks a closing bracket
and brace, so the test case that starts at line 588 never runs, and a model would be of a program
nobody can run. Of the IxN2X survey the lists it prints (licenses, cards, versions, sessions) are
only known as printed or failed. Log prefixes of the chat are left out, which all goroutines share.
For the rest `PROJECT.json` gives a reason that does not change: floating-point calculators, generated
code, configuration, and clients that log in, read and print.
