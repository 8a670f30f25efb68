------------------------------ MODULE OneShots ------------------------------
(***************************************************************************)
(* The programs that an operator starts once and that end by themselves:   *)
(* SqlRows, HelloCall, HttpRetry and Survey.  They share nothing; each     *)
(* behaviour has one of them.                                              *)
(***************************************************************************)
EXTENDS SqlRows

CONSTANTS
  RetryCount,                    \* of HttpRetry
  Controllers, Reports, Made     \* of Survey

ASSUME OneShotsAssumption == RetryCount \in Nat /\ Controllers \in Nat

VARIABLES
  program,                                                     \* the one that is started
  client, channel, server, request, resent, handled,           \* HelloCall
  api, attempt, state, answer, flying, taken, result, failed,  \* HttpRetry
  ctrl, part, section, made, serial, script                    \* Survey

callVars   == <<client, channel, server, request, resent, handled>>
surveyVars == <<ctrl, part, section, made, serial, script>>
httpVars   == <<api, attempt, state, answer, flying, taken, result, failed>>
allVars    == <<program, vars, callVars, surveyVars, httpVars>>

Call == INSTANCE HelloCall
Http == INSTANCE HttpRetry WITH handled <- taken
Ixia == INSTANCE Survey WITH step <- part

\* A year has no more than 53 weeks, so no serial number is all ones.
ASSUME SurveyAssumption ==
  /\ Reports \subseteq Ixia!Report
  /\ Made \subseteq {s \in Ixia!SerialNumber : s.week <= 53}

\* Of the programs that are not started it does not matter how they would.
OneInit ==
  /\ program \in {"rows", "call", "http", "survey"}
  /\ Init /\ (program # "rows" => others = 0)
  /\ Call!Init /\ (program # "call" => server = "down")
  /\ Http!Init
  /\ Ixia!Init /\ (program # "survey" => script = "runs")

RowsStep   == program = "rows" /\ Next /\ UNCHANGED <<program, callVars, httpVars, surveyVars>>
CallStep   == program = "call" /\ Call!Next /\ UNCHANGED <<program, vars, httpVars, surveyVars>>
HttpStep   == program = "http" /\ Http!Next /\ UNCHANGED <<program, vars, callVars, surveyVars>>
SurveyStep == program = "survey" /\ Ixia!Next /\ UNCHANGED <<program, vars, callVars, httpVars>>

OneNext == RowsStep \/ CallStep \/ HttpStep \/ SurveyStep

\* A program runs on, its timeout passes, and the server, network or controller it waits
\* for answers or fails in the end; of the servers of HelloCall and HttpRetry nothing is
\* asked.
OneSpec ==
  /\ OneInit /\ [][OneNext]_allVars
  /\ WF_allVars(RowsStep /\ Program)
  /\ WF_allVars(CallStep /\ Call!Client)
  /\ WF_allVars(HttpStep /\ Http!ClientStep)
  /\ WF_allVars(SurveyStep /\ Ixia!Progress)

-----------------------------------------------------------------------------

\* The types of all four.
OneTypeOK == TypeOK /\ Call!TypeOK /\ Http!TypeOK /\ Ixia!TypeOK

\* HelloCall: the server's SayHello (server.go:17-20) runs at most once for the call,
\* and once if a greeting is printed.
GreetedOnce == Call!GreetedOnce

\* HttpRetry: a call that returns a success was handled, and one that returns anything
\* else was tried as often as it may be (go_client.go:15-29).
OutcomeIsEarned == Http!OutcomeIsEarned

\* HttpRetry: what has been handled for a call, and what still may be, is one request
\* and one more for each attempt that failed, timed out or was answered badly: a POST is
\* repeated for nothing else, however late its handlers are (go_client.go:15-31, 54-57).
RepeatsAfterFailures == Http!RepeatsAfterFailures

\* Survey: chassis are shown with the serial numbers they were given
\* (get_cisco_ixn2x_info.tcl:157-268).
ShowsSerialNumbers == Ixia!ShowsSerialNumbers

\* Survey: an error that is caught costs no controller its section, one that nobody
\* catches costs its controller the rest and those behind it theirs
\* (get_cisco_ixn2x_info.tcl:49-58, 295-321).
OnlyTheRestIsLost == Ixia!OnlyTheRestIsLost

\* Each program comes to its end, whatever fails: main returns or panics, the one
\* second of the call passes, requests are sent again so often and no more, the list of
\* controllers is finite.
ProgramEnds ==
  <>(CASE program = "rows"   -> outcome # "runs"
       [] program = "call"   -> client \in {"printed", "fatal"}
       [] program = "http"   -> api = "over"
       [] program = "survey" -> script # "runs")
=============================================================================
