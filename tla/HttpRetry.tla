----------------------------- MODULE HttpRetry -----------------------------
(***************************************************************************)
(* golang/go_client_server: the client calls GET /get, then POST /post,    *)
(* through resty, which sends a request again when the last attempt ended  *)
(* in an error or in a status that is not a success.  The server runs one  *)
(* handler per request it receives; a handler whose client has timed out   *)
(* runs all the same.                                                      *)
(*                                                                         *)
(* resty and net/http are external: a request may get to the server late   *)
(* or never, an answer that comes after the attempt's timeout is dropped.  *)
(***************************************************************************)
EXTENDS Integers, FiniteSets

CONSTANT RetryCount    \* SetRetryCount

VARIABLES
  api,       \* the API that is called now, or "over"
  attempt,   \* attempts made before this one
  state,     \* where the attempt is
  answer,    \* status of the answer that has arrived, 0 if none has
  flying,    \* requests on their way to a handler
  handled,   \* handled[a]: requests a's handler has run for
  result,    \* result[a]: the outcome of the call, [status, retries], status 0 an error
  failed     \* failed[a]: attempts that ended without a success (no variable of the code)

vars == <<api, attempt, state, answer, flying, handled, result, failed>>

APIs == {"get", "post"}
Unknown == [status |-> -1, retries |-> 0]

TypeOK ==
  /\ api \in APIs \cup {"over"}
  /\ attempt \in 0..RetryCount
  /\ state \in {"send", "wait", "check", "backoff"}
  /\ answer \in {0, 200, 400}
  /\ flying \subseteq [api : APIs, attempt : 0..RetryCount]
  /\ handled \in [APIs -> 0..(RetryCount + 1)]
  /\ result \in [APIs -> [status : {-1, 0, 200, 400}, retries : 0..RetryCount]]
  /\ failed \in [APIs -> 0..(RetryCount + 1)]

Init ==
  /\ api = "get"
  /\ attempt = 0
  /\ state = "send"
  /\ answer = 0
  /\ flying = {}
  /\ handled = [a \in APIs |-> 0]
  /\ result = [a \in APIs |-> Unknown]
  /\ failed = [a \in APIs |-> 0]

-----------------------------------------------------------------------------
(* The server *)

\* The status each handler writes: /get looks at nothing; /post wants a POST (else
\* 405) with JSON in its body (else 400), which this client's requests are unless
\* their body does not arrive whole.
Status(a, whole) == IF a = "get" \/ whole THEN 200 ELSE 400

\* A handler runs; its answer counts if its attempt still waits.
Handle(q) ==
  /\ flying' = flying \ {q}
  /\ handled' = [handled EXCEPT ![q.api] = @ + 1]
  /\ IF state = "wait" /\ q = [api |-> api, attempt |-> attempt]
     THEN /\ state' = "check"
          /\ \E whole \in BOOLEAN : answer' = Status(q.api, whole)
          /\ failed' = IF answer' = 200 THEN failed ELSE [failed EXCEPT ![api] = @ + 1]
     ELSE UNCHANGED <<state, answer, failed>>
  /\ UNCHANGED <<api, attempt, result>>

Lost(q) ==
  /\ flying' = flying \ {q}
  /\ UNCHANGED <<api, attempt, state, answer, handled, result, failed>>

-----------------------------------------------------------------------------
(* The client *)

Send ==
  /\ api # "over"
  /\ state = "send"
  /\ state' = "wait"
  /\ answer' = 0
  /\ flying' = flying \cup {[api |-> api, attempt |-> attempt]}
  /\ UNCHANGED <<api, attempt, handled, result, failed>>

\* No connection, a broken one, or sixty seconds without an answer.
Fails ==
  /\ state = "wait"
  /\ state' = "check"
  /\ failed' = [failed EXCEPT ![api] = @ + 1]
  /\ UNCHANGED <<api, attempt, answer, flying, handled, result>>

\* Seeded bugs, here and below: PROJECT.json says which definition each replaces.
BugRetryable == answer = 0                   \* only errors are retried
BugAgain     == TRUE                         \* a success is retried as well

\* The retry condition: an error, or a status that is not a success.
Retryable == answer # 200

MayRetry == attempt < RetryCount

Retry ==
  /\ state = "check"
  /\ Retryable /\ MayRetry
  /\ state' = "backoff"
  /\ UNCHANGED <<api, attempt, answer, flying, handled, result, failed>>

BackoffEnds ==
  /\ state = "backoff"
  /\ state' = "send"
  /\ attempt' = attempt + 1
  /\ UNCHANGED <<api, answer, flying, handled, result, failed>>

\* client.R() returns with this outcome, and main goes on, GET failed or not.  What main
\* prints of a failed call (lines 43, 63) says 10 retries, whatever the count.
Return ==
  /\ state = "check"
  /\ ~(Retryable /\ MayRetry)
  /\ result' = [result EXCEPT ![api] = [status |-> answer, retries |-> attempt]]
  /\ api' = IF api = "get" THEN "post" ELSE "over"
  /\ attempt' = 0
  /\ state' = "send"
  /\ UNCHANGED <<answer, flying, handled, failed>>

-----------------------------------------------------------------------------

ClientStep == Send \/ Fails \/ Retry \/ BackoffEnds \/ Return

Next == ClientStep \/ \E q \in flying : Handle(q) \/ Lost(q)

Spec == Init /\ [][Next]_vars

-----------------------------------------------------------------------------
(* Properties *)

Returned(a) == result[a] # Unknown

\* A call that returns a success was handled, and one that returns anything else was
\* tried as often as it may be (go_client.go:15-29).
OutcomeIsEarned ==
  \A a \in APIs : Returned(a) =>
    IF result[a].status = 200 THEN handled[a] >= 1 ELSE result[a].retries = RetryCount

FlyingTo(a) == {q \in flying : q.api = a}

\* What has been handled for a call, and what still may be, is one request and one more
\* for each attempt that failed, timed out or was answered badly: a POST is not
\* idempotent, and is repeated for nothing else, however late the handlers are
\* (go_client.go:15-31, 54-57).
RepeatsAfterFailures ==
  \A a \in APIs : handled[a] + Cardinality(FlyingTo(a)) <= failed[a] + 1
=============================================================================
