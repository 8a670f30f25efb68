----------------------------- MODULE HelloCall -----------------------------
(***************************************************************************)
(* golang/gRPC_client_server: a client that makes one unary call with a    *)
(* deadline of a second, and a server that may be started before or after  *)
(* it, or stop under it.                                                   *)
(*                                                                         *)
(* grpc-go is external: Dial returns before there is a connection; a call  *)
(* waits for it until its deadline, but fails when connecting fails; a     *)
(* request that the server has certainly not processed is sent again,      *)
(* once; the handler of a request runs although its client has given up.   *)
(***************************************************************************)
EXTENDS Integers

VARIABLES
  client,     \* where the client's main is
  channel,    \* state of the client's connection
  server,     \* whether the server runs
  request,    \* where the request is
  resent,     \* whether it has been sent again
  handled     \* times that SayHello has run

vars == <<client, channel, server, request, resent, handled>>

Over == client \in {"printed", "fatal"}

TypeOK ==
  /\ client \in {"dial", "call", "printed", "fatal"}
  /\ channel \in {"none", "connecting", "ready", "lost"}
  /\ server \in {"down", "up"}
  /\ request \in {"unsent", "flying", "greeted", "rejected", "lost"}
  /\ resent \in BOOLEAN
  /\ handled \in 0..2

Init ==
  /\ client = "dial"
  /\ channel = "none"
  /\ server \in {"down", "up"}
  /\ request = "unsent"
  /\ resent = FALSE
  /\ handled = 0

-----------------------------------------------------------------------------
(* The client *)

\* grpc.Dial does not wait; SayHello starts with the second of its context.
Dial ==
  /\ client = "dial"
  /\ client' = "call"
  /\ channel' = "connecting"
  /\ UNCHANGED <<server, request, resent, handled>>

Connects ==
  /\ channel = "connecting" /\ ~Over
  /\ server = "up"
  /\ channel' = "ready"
  /\ UNCHANGED <<client, server, request, resent, handled>>

Sends ==
  /\ client = "call" /\ channel = "ready"
  /\ request = "unsent"
  /\ request' = "flying"
  /\ UNCHANGED <<client, channel, server, resent, handled>>

\* The response arrives: main prints its message.
Prints ==
  /\ client = "call" /\ channel = "ready"
  /\ request = "greeted"
  /\ client' = "printed"
  /\ UNCHANGED <<channel, server, request, resent, handled>>

\* Seeded bugs, here and below: PROJECT.json says which definition each replaces.
BugFatal ==                        \* main calls again after an error
  /\ client' = "call" /\ channel' = "connecting"
  /\ request' = "unsent"
  /\ UNCHANGED <<server, resent, handled>>

\* log.Fatalf
Fatal ==
  /\ client' = "fatal"
  /\ UNCHANGED <<channel, server, request, resent, handled>>

\* A call ends with an error: the server cannot be reached, has rejected the request,
\* or is gone.
CallFails ==
  /\ client = "call"
  /\ \/ channel = "connecting" /\ server = "down"
     \/ channel = "ready" /\ request = "rejected"
     \/ channel = "lost"
  /\ Fatal

BugDeadline == FALSE /\ UNCHANGED vars    \* context.Background()

\* The second is over: the request may be anywhere.
Deadline ==
  /\ client = "call"
  /\ Fatal

-----------------------------------------------------------------------------
(* The server *)

ServerStarts ==
  /\ server = "down"
  /\ server' = "up"
  /\ UNCHANGED <<client, channel, request, resent, handled>>

\* The server ends, with what it has not answered: a client learns of it.
ServerStops ==
  /\ server = "up"
  /\ server' = "down"
  /\ channel' = IF channel = "ready" THEN "lost" ELSE channel
  /\ request' = IF request = "flying" THEN "lost" ELSE request
  /\ UNCHANGED <<client, resent, handled>>

\* The stub's handler decodes the request and calls SayHello.
Handle ==
  /\ server = "up" /\ request = "flying"
  /\ \/ request' = "greeted" /\ handled' = handled + 1
     \/ request' = "rejected" /\ UNCHANGED handled          \* dec(in) fails
  /\ UNCHANGED <<client, channel, server, resent>>

\* The stream is refused before any handler has seen it: grpc-go sends it again.
Unprocessed ==
  /\ request = "flying" /\ channel = "ready"
  /\ channel' = IF resent THEN "lost" ELSE "connecting"
  /\ request' = IF resent THEN "lost" ELSE "unsent"
  /\ resent' = TRUE
  /\ UNCHANGED <<client, server, handled>>

\* The connection breaks; what is under way may still get to the handler.
LinkLost ==
  /\ channel = "ready"
  /\ channel' = "lost"
  /\ request' \in IF request = "flying" THEN {"flying", "lost"} ELSE {request}
  /\ UNCHANGED <<client, server, resent, handled>>

-----------------------------------------------------------------------------

Client == Dial \/ Connects \/ Sends \/ Prints \/ CallFails \/ Deadline

Next == Client \/ ServerStarts \/ ServerStops \/ Handle \/ Unprocessed \/ LinkLost

Spec == Init /\ [][Next]_vars

-----------------------------------------------------------------------------
(* Properties *)

\* However the second, the connection and the server end, SayHello runs at most once
\* for the one call, and a greeting that is printed is that of its only run; a client
\* that was told of an error knows nothing of the handler (client.go:27-35).
GreetedOnce ==
  /\ handled <= 1
  /\ client = "printed" => handled = 1
=============================================================================
