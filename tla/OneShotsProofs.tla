--------------------------- MODULE OneShotsProofs ---------------------------
(***************************************************************************)
(* What is proved of the four programs of OneShots, for every server,      *)
(* every limit of it, any number of retries and of controllers.            *)
(***************************************************************************)
EXTENDS OneShots, FiniteSetTheorems, SequenceTheorems, WellFoundedInduction, TLAPS

-----------------------------------------------------------------------------
(* SqlRows *)

\* A query finds at most one idle connection, and none is idle while it has its own;
\* the rows left open are of queries before it.
Connections ==
  CASE outcome = "runs"                -> /\ held \subseteq 2..(query - 1)
                                          /\ idle <= 1
                                          /\ step # "connection" => idle = 0
    [] outcome = "done"                -> \/ held \subseteq 2..4 /\ idle = 0
                                          \/ held \subseteq 2..3 /\ idle = 1
    [] outcome \in {"refused", "lost"} -> held \subseteq 2..3 /\ idle = 0

RowsOK ==
  /\ TypeOK
  /\ Connections
  /\ outcome = "refused" => others + 3 > Limit

\* At most one query has open rows for each of the numbers 2, 3, ..., k.
LEMMA HeldSize ==
  ASSUME NEW k \in Nat, NEW H \in SUBSET (2..k), k >= 1
  PROVE  IsFiniteSet(H) /\ Cardinality(H) \in Nat /\ Cardinality(H) <= k - 1
<1>1. IsFiniteSet(2..k) /\ Cardinality(2..k) = k - 1
  BY FS_Interval
<1>2. IsFiniteSet(H) /\ Cardinality(H) <= Cardinality(2..k)
  BY <1>1, FS_Subset
<1> QED
  BY <1>1, <1>2, FS_CardinalityType

\* The program's connections are those of the rows left open, and one more.
LEMMA PoolSize ==
  ASSUME RowsOK
  PROVE  /\ Pool <= 3
         /\ outcome = "runs" /\ query <= 4 => Cardinality(held) \in Nat /\ Cardinality(held) <= 2
<1>1. CASE outcome = "runs"
  <2>1. query \in 0..4 /\ idle \in Nat /\ held \subseteq 2..(query - 1)
        /\ idle <= 1 /\ (step # "connection" => idle = 0)
    BY <1>1 DEF RowsOK, TypeOK, Connections
  <2>2. held \subseteq 2..3
    BY <2>1
  <2>3. Cardinality(held) \in Nat /\ Cardinality(held) <= 2
    BY <2>2, HeldSize
  <2> QED
    BY <2>1, <2>3 DEF Pool, Using
<1>2. CASE outcome = "done"
  <2>1. idle \in Nat /\ ((held \subseteq 2..4 /\ idle = 0) \/ (held \subseteq 2..3 /\ idle = 1))
    BY <1>2 DEF RowsOK, TypeOK, Connections
  <2>2. CASE held \subseteq 2..4 /\ idle = 0
    <3>1. Cardinality(held) \in Nat /\ Cardinality(held) <= 3
      BY <2>2, HeldSize
    <3> QED
      BY <1>2, <2>2, <3>1 DEF Pool, Using
  <2>3. CASE held \subseteq 2..3 /\ idle = 1
    <3>1. Cardinality(held) \in Nat /\ Cardinality(held) <= 2
      BY <2>3, HeldSize
    <3> QED
      BY <1>2, <2>3, <3>1 DEF Pool, Using
  <2> QED
    BY <2>1, <2>2, <2>3
<1>3. CASE outcome \in {"refused", "lost"}
  <2>1. held \subseteq 2..3 /\ idle = 0
    BY <1>3 DEF RowsOK, Connections
  <2>2. Cardinality(held) \in Nat /\ Cardinality(held) <= 2
    BY <2>1, HeldSize
  <2> QED
    BY <1>3, <2>1, <2>2 DEF Pool, Using
<1> QED
  BY <1>1, <1>2, <1>3 DEF RowsOK, TypeOK

LEMMA RowsInit == Init => RowsOK
BY SqlRowsAssumption DEF Init, RowsOK, TypeOK, Connections

\* A query that ends without rows left open.
LEMMA QueryEnds ==
  ASSUME RowsOK, outcome = "runs", step # "connection", NextQuery,
         idle' \in {0, 1}, UNCHANGED <<cut, others, held>>
  PROVE  RowsOK'
<1>1. /\ query \in 0..4 /\ idle = 0 /\ cut \in 0..idle /\ others \in 0..Limit /\ held \subseteq 2..(query - 1)
      /\ step \in {"connection", "reply", "rows"}
  BY DEF RowsOK, TypeOK, Connections
<1>2. CASE query = 4
  BY <1>1, <1>2, SqlRowsAssumption DEF NextQuery, RowsOK, TypeOK, Connections
<1>3. CASE query # 4
  BY <1>1, <1>3, SqlRowsAssumption DEF NextQuery, RowsOK, TypeOK, Connections
<1> QED
  BY <1>2, <1>3

LEMMA RowsNext ==
  ASSUME RowsOK, Next
  PROVE  RowsOK'
<1> USE SqlRowsAssumption
<1> SUFFICES ASSUME outcome = "runs" PROVE RowsOK'
  BY DEF Next, Program, TakeIdle, DropCut, OpenNew, Refused, Lost, Pong, Reply, FirstRow,
         NoMoreRows, RowsLost, CutIdle, OthersConnect, OthersLeave
<1>1. CASE TakeIdle
  BY <1>1 DEF TakeIdle, RowsOK, TypeOK, Connections
<1>2. CASE DropCut
  BY <1>2 DEF DropCut, RowsOK, TypeOK, Connections
<1>3. CASE OpenNew
  BY <1>3 DEF OpenNew, RowsOK, TypeOK, Connections
<1>4. CASE Refused
  <2>1. /\ query \in 0..4 /\ held \subseteq 2..(query - 1) /\ idle = 0 /\ cut = 0
        /\ outcome' = "refused" /\ UNCHANGED <<query, step, idle, cut, held, others>>
    BY <1>4 DEF Refused, Ends, RowsOK, TypeOK, Connections
  <2>2. held \subseteq 2..3
    BY <2>1
  <2>3. Pool = Cardinality(held) /\ Cardinality(held) \in Nat /\ Cardinality(held) <= 2
    BY <1>4, <2>1, <2>2, HeldSize DEF Refused, Pool, Using
  <2>4. others + 3 > Limit
    BY <1>4, <2>1, <2>3 DEF Refused, Room, Own, RowsOK, TypeOK
  <2> QED
    BY <2>1, <2>2, <2>4 DEF RowsOK, TypeOK, Connections
<1>5. CASE Lost
  <2>1. /\ query \in 0..4 /\ held \subseteq 2..(query - 1) /\ idle = 0 /\ cut = 0
        /\ outcome' = "lost" /\ UNCHANGED <<query, step, idle, cut, held, others>>
    BY <1>5 DEF Lost, Ends, RowsOK, TypeOK, Connections
  <2>2. held \subseteq 2..3
    BY <2>1
  <2> QED
    BY <2>1, <2>2 DEF RowsOK, TypeOK, Connections
<1>6. CASE Pong
  <2>1. step # "connection" /\ NextQuery /\ idle' \in {0, 1} /\ UNCHANGED <<cut, others, held>>
    BY <1>6 DEF Pong, RowsOK, TypeOK, Connections
  <2> QED
    BY <2>1, QueryEnds
<1>7. CASE Reply
  BY <1>7 DEF Reply, RowsOK, TypeOK, Connections
<1>8. CASE FirstRow
  <2>1. /\ query \in 2..4 /\ held \subseteq 2..(query - 1) /\ idle = 0
        /\ held' = held \cup {query} /\ NextQuery /\ UNCHANGED <<idle, cut, others>>
    BY <1>8 DEF FirstRow, ReadsOne, RowsOK, TypeOK, Connections
  <2>2. held' \subseteq 2..query /\ held' \subseteq 0..4
    BY <2>1
  <2>3. CASE query = 4
    BY <2>1, <2>2, <2>3 DEF NextQuery, RowsOK, TypeOK, Connections
  <2>4. CASE query # 4
    BY <2>1, <2>2, <2>4 DEF NextQuery, RowsOK, TypeOK, Connections
  <2> QED
    BY <2>3, <2>4
<1>9. CASE NoMoreRows
  <2>1. step # "connection" /\ NextQuery /\ idle' \in {0, 1} /\ UNCHANGED <<cut, others, held>>
    BY <1>9 DEF NoMoreRows, RowsOK, TypeOK, Connections
  <2> QED
    BY <2>1, QueryEnds
<1>10. CASE RowsLost
  <2>1. step # "connection" /\ NextQuery /\ idle' \in {0, 1} /\ UNCHANGED <<cut, others, held>>
    BY <1>10 DEF RowsLost, RowsOK, TypeOK, Connections
  <2> QED
    BY <2>1, QueryEnds
<1>11. CASE CutIdle
  BY <1>11 DEF CutIdle, RowsOK, TypeOK, Connections
<1>12. CASE OthersConnect
  <2>1. Cardinality(held) \in Nat /\ idle \in Nat /\ cut \in 0..idle
    BY PoolSize DEF RowsOK, TypeOK
  <2>2. Own \in Nat
    BY <2>1 DEF Own, Pool
  <2> QED
    BY <1>12, <2>2 DEF OthersConnect, Room, RowsOK, TypeOK, Connections
<1>13. CASE OthersLeave
  BY <1>13 DEF OthersLeave, RowsOK, TypeOK, Connections
<1> QED
  BY <1>1, <1>2, <1>3, <1>4, <1>5, <1>6, <1>7, <1>8, <1>9, <1>10, <1>11, <1>12, <1>13
     DEF Next, Program

LEMMA RowsAlways == OneSpec => []RowsOK
<1>1. OneInit => RowsOK
  BY RowsInit DEF OneInit
<1>2. RowsOK /\ [OneNext]_allVars => RowsOK'
  <2> SUFFICES ASSUME RowsOK, [OneNext]_allVars PROVE RowsOK'
    OBVIOUS
  <2>1. CASE UNCHANGED vars
    BY <2>1 DEF vars, RowsOK, TypeOK, Connections
  <2> QED
    BY <2>1, RowsNext DEF OneNext, RowsStep, CallStep, HttpStep, SurveyStep, allVars
<1> QED
  BY <1>1, <1>2, PTL DEF OneSpec

\* The three calls of run_sql_command leave rows open (gorm_mysql_db.go:10-33), and yet
\* the program never has more than three connections: a server of any limit that has
\* room for three refuses none.
THEOREM ThreeAreEnough == OneSpec => []ThreeSuffice
<1>1. RowsOK => ThreeSuffice
  BY PoolSize DEF RowsOK, ThreeSuffice
<1> QED
  BY <1>1, RowsAlways, PTL

-----------------------------------------------------------------------------
(* HelloCall *)

\* The handler has run exactly when there is its response, which no step of the
\* client, the connection or the server takes back.
CallOK ==
  /\ Call!TypeOK
  /\ handled = IF request = "greeted" THEN 1 ELSE 0
  /\ client = "printed" => request = "greeted"

LEMMA CallNext ==
  ASSUME CallOK, Call!Next
  PROVE  CallOK'
<1> USE DEF CallOK, Call!TypeOK
<1>1. CASE Call!Dial
  BY <1>1 DEF Call!Dial
<1>2. CASE Call!Connects
  BY <1>2 DEF Call!Connects
<1>3. CASE Call!Sends
  BY <1>3 DEF Call!Sends
<1>4. CASE Call!Prints
  BY <1>4 DEF Call!Prints
<1>5. CASE Call!CallFails \/ Call!Deadline
  BY <1>5 DEF Call!CallFails, Call!Deadline, Call!Fatal
<1>6. CASE Call!ServerStarts
  BY <1>6 DEF Call!ServerStarts
<1>7. CASE Call!ServerStops
  BY <1>7 DEF Call!ServerStops
<1>8. CASE Call!Handle
  BY <1>8 DEF Call!Handle
<1>9. CASE Call!Unprocessed
  BY <1>9 DEF Call!Unprocessed
<1>10. CASE Call!LinkLost
  BY <1>10 DEF Call!LinkLost
<1> QED
  BY <1>1, <1>2, <1>3, <1>4, <1>5, <1>6, <1>7, <1>8, <1>9, <1>10 DEF Call!Next, Call!Client

LEMMA CallAlways == OneSpec => []CallOK
<1>1. OneInit => CallOK
  <2> SUFFICES ASSUME Call!Init PROVE CallOK
    BY DEF OneInit
  <2>1. handled = IF request = "greeted" THEN 1 ELSE 0
    BY DEF Call!Init
  <2>2. Call!TypeOK
    <3>1. handled \in 0..2
      BY DEF Call!Init
    <3> QED
      BY <3>1, Zenon DEF Call!Init, Call!TypeOK
  <2>3. client # "printed"
    BY DEF Call!Init
  <2> QED
    BY <2>1, <2>2, <2>3 DEF CallOK
<1>2. CallOK /\ [OneNext]_allVars => CallOK'
  <2> SUFFICES ASSUME CallOK, [OneNext]_allVars PROVE CallOK'
    OBVIOUS
  <2>1. CASE UNCHANGED callVars
    BY <2>1 DEF callVars, CallOK, Call!TypeOK
  <2> QED
    BY <2>1, CallNext DEF OneNext, RowsStep, CallStep, HttpStep, SurveyStep, allVars
<1> QED
  BY <1>1, <1>2, PTL DEF OneSpec

\* However the second of the call, the connection and the server end, and although
\* grpc-go may send the request again, SayHello runs at most once, and has run if its
\* greeting is printed (client.go:27-35).
THEOREM OneGreeting == OneSpec => []GreetedOnce
<1>1. CallOK => GreetedOnce
  BY DEF CallOK, GreetedOnce, Call!GreetedOnce
<1> QED
  BY <1>1, CallAlways, PTL

-----------------------------------------------------------------------------
(* HttpRetry *)

\* TypeOK but for the bounds on handled and failed, which Accounted and Counted give.
HttpTyped ==
  /\ api \in Http!APIs \cup {"over"}
  /\ attempt \in 0..RetryCount
  /\ state \in {"send", "wait", "check", "backoff"}
  /\ answer \in {0, 200, 400}
  /\ flying \subseteq [api : Http!APIs, attempt : 0..RetryCount]
  /\ taken \in [Http!APIs -> Nat]
  /\ result \in [Http!APIs -> [status : {-1, 0, 200, 400}, retries : 0..RetryCount]]
  /\ failed \in [Http!APIs -> Nat]

\* GET is called first, and each call leaves its result; a retry is under way only
\* while there may be one; an answer is that of a request that was handled.
HttpPhases ==
  /\ Http!Returned("get") <=> api # "get"
  /\ Http!Returned("post") <=> api = "over"
  /\ api = "over" => state = "send"
  /\ state = "backoff" => Http!MayRetry /\ answer # 200
  /\ state = "wait" => answer = 0
  /\ (state \in {"check", "backoff"} /\ answer = 200) => taken[api] >= 1

\* HttpRetry's Cardinality is the one of the lemmas on finite sets.
LEMMA HttpCardinality == \A S : Http!Cardinality(S) = Cardinality(S)
BY DEF Http!Cardinality, Cardinality

\* Attempts of a that may have got to its handler, and those of them that have failed.
Attempts(a) ==
  IF Http!Returned(a) THEN result[a].retries + 1
  ELSE IF api # a THEN 0
  ELSE IF state = "send" THEN attempt ELSE attempt + 1

Failures(a) ==
  IF Http!Returned(a) THEN result[a].retries + (IF result[a].status = 200 THEN 0 ELSE 1)
  ELSE IF api # a THEN 0
  ELSE IF state \in {"send", "wait"} \/ answer = 200 THEN attempt ELSE attempt + 1

Counted == \A a \in Http!APIs : failed[a] = Failures(a)

\* However late requests are handled: at most one handling per attempt.
PerAttempt ==
  \A a \in Http!APIs : taken[a] + Cardinality(Http!FlyingTo(a)) <= Attempts(a)

Accounted == IsFiniteSet(flying) /\ PerAttempt

HttpOK == HttpTyped /\ HttpPhases /\ Http!OutcomeIsEarned /\ Accounted /\ Counted

\* A step of HttpRetry, or of another program.
HttpMoves == Http!Next \/ UNCHANGED httpVars

LEMMA HttpInit == Http!Init => HttpOK
<1> SUFFICES ASSUME Http!Init PROVE HttpOK
  OBVIOUS
<1> USE OneShotsAssumption DEF Http!Init
<1>1. HttpTyped
  BY DEF HttpTyped, Http!APIs, Http!Unknown
<1>2. HttpPhases /\ Http!OutcomeIsEarned
  BY DEF HttpPhases, Http!OutcomeIsEarned, Http!Returned, Http!APIs
<1>3. Accounted
  <2>1. ASSUME NEW a \in Http!APIs PROVE Http!FlyingTo(a) = {}
    BY DEF Http!FlyingTo
  <2>2. ASSUME NEW a \in Http!APIs PROVE taken[a] = 0 /\ Attempts(a) = 0
    BY DEF Attempts, Http!Returned, Http!APIs
  <2> QED BY <2>1, <2>2, FS_EmptySet DEF Accounted, PerAttempt
<1>4. Counted
  BY DEF Counted, Failures, Http!Returned, Http!APIs
<1> QED BY <1>1, <1>2, <1>3, <1>4 DEF HttpOK

\* What one request more or less makes of the number of those in flight.
LEMMA FlyingCount ==
  ASSUME IsFiniteSet(flying), NEW a
  PROVE  Cardinality(Http!FlyingTo(a)) \in Nat
<1>1. IsFiniteSet(Http!FlyingTo(a))
  BY FS_Subset DEF Http!FlyingTo
<1> QED BY <1>1, FS_CardinalityType

LEMMA HttpTypedStep == HttpOK /\ HttpMoves => HttpTyped'
<1> SUFFICES ASSUME HttpTyped, HttpPhases, HttpMoves PROVE HttpTyped'
  BY DEF HttpOK
<1> USE OneShotsAssumption DEF HttpTyped, Http!APIs
<1>1. ASSUME NEW q \in flying, Http!Handle(q) PROVE HttpTyped'
  BY <1>1 DEF Http!Handle, Http!Status
<1>2. ASSUME NEW q \in flying, Http!Lost(q) PROVE HttpTyped'
  BY <1>2 DEF Http!Lost
<1>3. CASE Http!Send
  BY <1>3 DEF Http!Send
<1>4. CASE Http!Fails
  <2>1. api \in Http!APIs
    BY <1>4 DEF Http!Fails, HttpPhases
  <2>2. failed' \in [Http!APIs -> Nat]
    BY <1>4, <2>1 DEF Http!Fails
  <2> QED BY <1>4, <2>2 DEF Http!Fails
<1>5. CASE Http!Retry
  BY <1>5 DEF Http!Retry
<1>6. CASE Http!BackoffEnds
  BY <1>6 DEF Http!BackoffEnds, HttpPhases, Http!MayRetry
<1>7. CASE Http!Return
  <2>1. api \in Http!APIs
    BY <1>7 DEF Http!Return, HttpPhases
  <2>2. [status |-> answer, retries |-> attempt]
          \in [status : {-1, 0, 200, 400}, retries : 0..RetryCount]
    OBVIOUS
  <2> QED BY <1>7, <2>1, <2>2 DEF Http!Return
<1>8. CASE UNCHANGED httpVars
  BY <1>8 DEF httpVars
<1> QED BY <1>1, <1>2, <1>3, <1>4, <1>5, <1>6, <1>7, <1>8 DEF HttpMoves, Http!Next, Http!ClientStep

LEMMA HttpPhasesStep == HttpOK /\ HttpMoves => HttpPhases' /\ Http!OutcomeIsEarned'
<1> SUFFICES ASSUME HttpTyped, HttpPhases, Http!OutcomeIsEarned, HttpMoves
             PROVE  HttpPhases' /\ Http!OutcomeIsEarned'
  BY DEF HttpOK
<1> USE OneShotsAssumption DEF HttpTyped, Http!APIs, HttpPhases, Http!OutcomeIsEarned, Http!Returned, Http!MayRetry
<1>1. ASSUME NEW q \in flying, Http!Handle(q) PROVE HttpPhases' /\ Http!OutcomeIsEarned'
  BY <1>1 DEF Http!Handle, Http!Status
<1>2. ASSUME NEW q \in flying, Http!Lost(q) PROVE HttpPhases' /\ Http!OutcomeIsEarned'
  BY <1>2 DEF Http!Lost
<1>3. CASE Http!Send
  BY <1>3 DEF Http!Send
<1>4. CASE Http!Fails
  BY <1>4 DEF Http!Fails
<1>5. CASE Http!Retry
  BY <1>5 DEF Http!Retry, Http!Retryable
<1>6. CASE Http!BackoffEnds
  BY <1>6 DEF Http!BackoffEnds
<1>7. CASE Http!Return
  <2>1. api \in Http!APIs
    BY <1>7 DEF Http!Return
  <2>2. result'[api] = [status |-> answer, retries |-> attempt]
        /\ \A a \in Http!APIs \ {api} : result'[a] = result[a]
    BY <1>7, <2>1 DEF Http!Return
  <2>3. result'[api] # Http!Unknown
    BY <2>2 DEF Http!Unknown
  <2>4. answer # 200 => attempt = RetryCount
    BY <1>7 DEF Http!Return, Http!Retryable
  <2>5. answer = 200 => taken[api] >= 1
    BY <1>7 DEF Http!Return
  <2>6. HttpPhases'
    BY <1>7, <2>1, <2>2, <2>3 DEF Http!Return
  <2>7. Http!OutcomeIsEarned'
    BY <1>7, <2>1, <2>2, <2>4, <2>5 DEF Http!Return
  <2> QED BY <2>6, <2>7
<1>8. CASE UNCHANGED httpVars
  BY <1>8 DEF httpVars
<1> QED BY <1>1, <1>2, <1>3, <1>4, <1>5, <1>6, <1>7, <1>8 DEF HttpMoves, Http!Next, Http!ClientStep

LEMMA AccountedStep == HttpOK /\ HttpMoves => Accounted'
<1> SUFFICES ASSUME HttpTyped, HttpPhases, Http!OutcomeIsEarned, Accounted, Counted, HttpMoves
             PROVE  Accounted'
  BY DEF HttpOK
<1> USE OneShotsAssumption
<1>0. \A a \in Http!APIs : Cardinality(Http!FlyingTo(a)) \in Nat /\ taken[a] \in Nat
  BY FlyingCount DEF Accounted, PerAttempt, HttpTyped
<1>1. ASSUME NEW q \in flying, Http!Handle(q) PROVE Accounted'
  <2>1. IsFiniteSet(flying')
    BY <1>1, FS_RemoveElement DEF Http!Handle, Accounted, PerAttempt
  <2>2. ASSUME NEW a \in Http!APIs
        PROVE  taken'[a] + Cardinality(Http!FlyingTo(a)') <= Attempts(a)'
    <3>1. Attempts(a)' = Attempts(a)
      BY <1>1 DEF Http!Handle, Attempts, Http!Returned, HttpTyped
    <3>2. CASE q.api = a
      <4>1. Http!FlyingTo(a)' = Http!FlyingTo(a) \ {q} /\ q \in Http!FlyingTo(a)
        BY <1>1, <3>2 DEF Http!Handle, Http!FlyingTo
      <4>2. IsFiniteSet(Http!FlyingTo(a))
        BY FS_Subset DEF Http!FlyingTo, Accounted, PerAttempt
      <4>3. Cardinality(Http!FlyingTo(a)') = Cardinality(Http!FlyingTo(a)) - 1
        BY <4>1, <4>2, FS_RemoveElement
      <4>4. taken'[a] = taken[a] + 1
        BY <1>1, <3>2 DEF Http!Handle, HttpTyped
      <4> QED BY <1>0, <3>1, <4>3, <4>4 DEF Accounted, PerAttempt
    <3>3. CASE q.api # a
      <4>1. Http!FlyingTo(a)' = Http!FlyingTo(a)
        BY <1>1, <3>3 DEF Http!Handle, Http!FlyingTo
      <4>2. taken'[a] = taken[a]
        BY <1>1, <3>3 DEF Http!Handle, HttpTyped
      <4> QED BY <3>1, <4>1, <4>2 DEF Accounted, PerAttempt
    <3> QED BY <3>2, <3>3
  <2> QED BY <2>1, <2>2 DEF Accounted, PerAttempt
<1>2. ASSUME NEW q \in flying, Http!Lost(q) PROVE Accounted'
  <2>1. IsFiniteSet(flying')
    BY <1>2, FS_RemoveElement DEF Http!Lost, Accounted, PerAttempt
  <2>2. ASSUME NEW a \in Http!APIs
        PROVE  taken'[a] + Cardinality(Http!FlyingTo(a)') <= Attempts(a)'
    <3>1. Attempts(a)' = Attempts(a) /\ taken'[a] = taken[a]
      BY <1>2 DEF Http!Lost, Attempts, Http!Returned
    <3>2. Http!FlyingTo(a)' \subseteq Http!FlyingTo(a)
      BY <1>2 DEF Http!Lost, Http!FlyingTo
    <3>3. IsFiniteSet(Http!FlyingTo(a))
      BY FS_Subset DEF Http!FlyingTo, Accounted, PerAttempt
    <3>4. Cardinality(Http!FlyingTo(a)') <= Cardinality(Http!FlyingTo(a)) /\ Cardinality(Http!FlyingTo(a)') \in Nat
      BY <3>2, <3>3, FS_Subset, FS_CardinalityType
    <3>5. Attempts(a) \in Int
      BY DEF Attempts, HttpTyped
    <3> QED BY <1>0, <3>1, <3>4, <3>5 DEF Accounted, PerAttempt
  <2> QED BY <2>1, <2>2 DEF Accounted, PerAttempt
<1>3. CASE Http!Send
  <2> DEFINE new == [api |-> api, attempt |-> attempt]
  <2>1. IsFiniteSet(flying')
    BY <1>3, FS_AddElement DEF Http!Send, Accounted, PerAttempt
  <2>2. ASSUME NEW a \in Http!APIs
        PROVE  taken'[a] + Cardinality(Http!FlyingTo(a)') <= Attempts(a)'
    <3>1. taken'[a] = taken[a]
      BY <1>3 DEF Http!Send
    <3>2. CASE a = api
      <4>1. Http!FlyingTo(a)' = Http!FlyingTo(a) \cup {new}
        BY <1>3, <3>2 DEF Http!Send, Http!FlyingTo
      <4>2. IsFiniteSet(Http!FlyingTo(a))
        BY FS_Subset DEF Http!FlyingTo, Accounted, PerAttempt
      <4>3. /\ Cardinality(Http!FlyingTo(a)') \in Nat
            /\ Cardinality(Http!FlyingTo(a)') <= Cardinality(Http!FlyingTo(a)) + 1
        <5>1. \/ Cardinality(Http!FlyingTo(a) \cup {new}) = Cardinality(Http!FlyingTo(a))
              \/ Cardinality(Http!FlyingTo(a) \cup {new}) = Cardinality(Http!FlyingTo(a)) + 1
          BY <4>2, FS_AddElement
        <5> QED BY <1>0, <4>1, <5>1
      <4>4. Attempts(a) = attempt /\ Attempts(a)' = attempt + 1
        BY <1>3, <3>2 DEF Http!Send, Attempts, Http!Returned, HttpPhases, Http!APIs
      <4> QED BY <1>0, <3>1, <4>3, <4>4 DEF Accounted, PerAttempt, HttpTyped
    <3>3. CASE a # api
      <4>1. Http!FlyingTo(a)' = Http!FlyingTo(a)
        BY <1>3, <3>3 DEF Http!Send, Http!FlyingTo
      <4>2. Attempts(a)' = Attempts(a)
        BY <1>3, <3>3 DEF Http!Send, Attempts, Http!Returned
      <4> QED BY <3>1, <4>1, <4>2 DEF Accounted, PerAttempt
    <3> QED BY <3>2, <3>3
  <2> QED BY <2>1, <2>2 DEF Accounted, PerAttempt
<1>4. CASE Http!Fails \/ Http!Retry \/ Http!BackoffEnds \/ Http!Return
  <2>1. flying' = flying /\ taken' = taken
    BY <1>4 DEF Http!Fails, Http!Retry, Http!BackoffEnds, Http!Return
  <2>2. ASSUME NEW a \in Http!APIs PROVE Http!FlyingTo(a)' = Http!FlyingTo(a)
    BY <2>1 DEF Http!FlyingTo
  <2>3. ASSUME NEW a \in Http!APIs PROVE Attempts(a)' >= Attempts(a)
    <3> USE DEF Attempts, Http!Returned, HttpPhases, HttpTyped, Http!APIs
    <3>1. CASE Http!Fails \/ Http!Retry
      BY <3>1 DEF Http!Fails, Http!Retry
    <3>2. CASE Http!BackoffEnds
      BY <3>2 DEF Http!BackoffEnds
    <3>3. CASE Http!Return
      <4>1. api \in Http!APIs
        BY <3>3 DEF Http!Return
      <4>2. result'[api] = [status |-> answer, retries |-> attempt]
            /\ \A b \in Http!APIs \ {api} : result'[b] = result[b]
        BY <3>3, <4>1 DEF Http!Return
      <4>3. result'[api] # Http!Unknown
        BY <4>2 DEF Http!Unknown
      <4> QED BY <3>3, <4>1, <4>2, <4>3 DEF Http!Return
    <3> QED BY <1>4, <3>1, <3>2, <3>3
  <2>4. ASSUME NEW a \in Http!APIs PROVE Attempts(a) \in Int /\ Attempts(a)' \in Int
    <3>1. HttpTyped'
      BY HttpTypedStep DEF HttpOK
    <3> QED BY <3>1 DEF Attempts, HttpTyped
  <2> QED BY <1>0, <2>1, <2>2, <2>3, <2>4 DEF Accounted, PerAttempt
<1>5. CASE UNCHANGED httpVars
  BY <1>5 DEF httpVars, Accounted, PerAttempt, Http!FlyingTo, Attempts, Http!Returned
<1> QED BY <1>1, <1>2, <1>3, <1>4, <1>5 DEF HttpMoves, Http!Next, Http!ClientStep

LEMMA CountedStep == HttpOK /\ HttpMoves => Counted'
<1> SUFFICES ASSUME HttpTyped, HttpPhases, Counted, HttpMoves, NEW a \in Http!APIs
             PROVE  failed'[a] = Failures(a)'
  BY DEF HttpOK, Counted
<1>0. failed[a] = Failures(a)
  BY DEF Counted
<1> USE OneShotsAssumption DEF HttpTyped, Http!APIs, HttpPhases, Http!Returned, Failures
<1>1. ASSUME NEW q \in flying, Http!Handle(q) PROVE failed'[a] = Failures(a)'
  BY <1>0, <1>1 DEF Http!Handle, Http!Status
<1>2. ASSUME NEW q \in flying, Http!Lost(q) PROVE failed'[a] = Failures(a)'
  BY <1>0, <1>2 DEF Http!Lost
<1>3. CASE Http!Send
  BY <1>0, <1>3 DEF Http!Send
<1>4. CASE Http!Fails
  BY <1>0, <1>4 DEF Http!Fails
<1>5. CASE Http!Retry
  BY <1>0, <1>5 DEF Http!Retry
<1>6. CASE Http!BackoffEnds
  BY <1>0, <1>6 DEF Http!BackoffEnds
<1>7. CASE Http!Return
  <2>1. api \in Http!APIs
    BY <1>7 DEF Http!Return
  <2>2. result'[api] = [status |-> answer, retries |-> attempt]
        /\ \A b \in Http!APIs \ {api} : result'[b] = result[b]
    BY <1>7, <2>1 DEF Http!Return
  <2>3. result'[api] # Http!Unknown
    BY <2>2 DEF Http!Unknown
  <2> QED
    BY <1>0, <1>7, <2>1, <2>2, <2>3 DEF Http!Return
<1>8. CASE UNCHANGED httpVars
  BY <1>0, <1>8 DEF httpVars
<1> QED BY <1>1, <1>2, <1>3, <1>4, <1>5, <1>6, <1>7, <1>8 DEF HttpMoves, Http!Next, Http!ClientStep

LEMMA HttpAlways == OneSpec => []HttpOK
<1>1. OneInit => HttpOK
  BY HttpInit DEF OneInit
<1>2. HttpOK /\ [OneNext]_allVars => HttpOK'
  <2>1. [OneNext]_allVars => HttpMoves
    BY DEF OneNext, RowsStep, CallStep, HttpStep, SurveyStep, allVars, HttpMoves
  <2> QED
    BY <2>1, HttpTypedStep, HttpPhasesStep, AccountedStep, CountedStep DEF HttpOK
<1> QED
  BY <1>1, <1>2, PTL DEF OneSpec

\* That no handler runs more than RetryCount + 1 times for one call of the client
\* (go_client.go:15) is part of the types.
LEMMA HttpTypes ==
  ASSUME HttpOK
  PROVE  Http!TypeOK
<1>1. ASSUME NEW a \in Http!APIs PROVE taken[a] \in 0..(RetryCount + 1)
  <2>1. Cardinality(Http!FlyingTo(a)) \in Nat
    BY FlyingCount DEF HttpOK, Accounted, PerAttempt
  <2>2. Attempts(a) \in 0..(RetryCount + 1)
    BY OneShotsAssumption DEF HttpOK, Attempts, HttpTyped
  <2> QED
    BY <2>1, <2>2, OneShotsAssumption DEF HttpOK, Accounted, PerAttempt, HttpTyped
<1>2. ASSUME NEW a \in Http!APIs PROVE failed[a] \in 0..(RetryCount + 1)
  BY OneShotsAssumption DEF HttpOK, Counted, Failures, HttpTyped
<1> QED
  BY <1>1, <1>2 DEF HttpOK, HttpTyped, Http!TypeOK

\* A call that succeeds was handled, one that does not was tried as often as it may be
\* (go_client.go:15-29).
THEOREM OutcomesEarned == OneSpec => []OutcomeIsEarned
<1>1. HttpOK => OutcomeIsEarned
  BY DEF HttpOK, OutcomeIsEarned
<1> QED
  BY <1>1, HttpAlways, PTL

\* A request is handled once more only for an attempt of its call that has failed, the
\* requests still on their way included (go_client.go:15-31, 54-57).
THEOREM NoIdleRepeats == OneSpec => []RepeatsAfterFailures
<1>1. ASSUME HttpOK, NEW a \in Http!APIs
      PROVE  taken[a] + Cardinality(Http!FlyingTo(a)) <= failed[a] + 1
  <2>1. Cardinality(Http!FlyingTo(a)) \in Nat /\ taken[a] \in Nat
    BY <1>1, FlyingCount DEF HttpOK, Accounted, HttpTyped
  <2>2. taken[a] + Cardinality(Http!FlyingTo(a)) <= Attempts(a)
    BY <1>1 DEF HttpOK, Accounted, PerAttempt
  <2>3. Attempts(a) \in Nat /\ failed[a] \in Nat /\ Attempts(a) <= failed[a] + 1
    BY <1>1, OneShotsAssumption DEF HttpOK, HttpTyped, HttpPhases, Counted, Attempts, Failures
  <2> QED
    BY <2>1, <2>2, <2>3
<1>2. HttpOK => RepeatsAfterFailures
  BY <1>1, HttpCardinality DEF RepeatsAfterFailures, Http!RepeatsAfterFailures
<1> QED
  BY <1>2, HttpAlways, PTL

-----------------------------------------------------------------------------
(* Survey *)

\* The sections of the controllers before this one are closed, those behind it are not
\* begun, and the script ends behind the last one.
SurveyOK ==
  /\ ctrl \in 1..(Controllers + 1)
  /\ section \in [1..Controllers -> Ixia!Sections]
  /\ \A c \in 1..Controllers :
       /\ c < ctrl => section[c] \in {"unreachable", "complete"}
       /\ c = ctrl => section[c] \in {"none", "begun"}
       /\ c > ctrl => section[c] = "none"
  /\ script = "ended" => ctrl > Controllers

LEMMA SurveyNext ==
  ASSUME SurveyOK, Ixia!Next
  PROVE  SurveyOK'
<1> USE OneShotsAssumption
<1>1. ASSUME NEW how \in {"unreachable", "complete"}, script = "runs", ctrl <= Controllers,
             Ixia!NextController(how)
      PROVE  SurveyOK'
  <2>1. /\ section' = [section EXCEPT ![ctrl] = how] /\ ctrl' = ctrl + 1 /\ script' = script
        /\ ctrl \in 1..Controllers
    BY <1>1 DEF Ixia!NextController, SurveyOK
  <2>2. section' \in [1..Controllers -> Ixia!Sections]
    BY <2>1 DEF SurveyOK, Ixia!Sections
  <2>3. ASSUME NEW c \in 1..Controllers
        PROVE  /\ c < ctrl' => section'[c] \in {"unreachable", "complete"}
               /\ c = ctrl' => section'[c] \in {"none", "begun"}
               /\ c > ctrl' => section'[c] = "none"
    BY <1>1, <2>1 DEF SurveyOK
  <2> QED
    BY <1>1, <2>1, <2>2, <2>3 DEF SurveyOK
<1>2. CASE Ixia!Unreachable \/ Ixia!Complete
  BY <1>1, <1>2 DEF Ixia!Unreachable, Ixia!Complete, Ixia!At
<1>3. CASE Ixia!Reached
  <2>1. /\ section' = [section EXCEPT ![ctrl] = "begun"] /\ UNCHANGED <<ctrl, script>>
        /\ ctrl \in 1..Controllers
    BY <1>3 DEF Ixia!Reached, Ixia!At, SurveyOK
  <2>2. section' \in [1..Controllers -> Ixia!Sections]
    BY <2>1 DEF SurveyOK, Ixia!Sections
  <2>3. ASSUME NEW c \in 1..Controllers
        PROVE  /\ c < ctrl' => section'[c] \in {"unreachable", "complete"}
               /\ c = ctrl' => section'[c] \in {"none", "begun"}
               /\ c > ctrl' => section'[c] = "none"
    BY <2>1 DEF SurveyOK
  <2> QED
    BY <2>1, <2>2, <2>3 DEF SurveyOK
<1>4. CASE Ixia!Dies \/ Ixia!Close
  BY <1>4 DEF Ixia!Dies, Ixia!Close, SurveyOK
<1>5. CASE Ixia!Goes \/ Ixia!Chassis \/ Ixia!NextChassis
  BY <1>5 DEF Ixia!Goes, Ixia!Chassis, Ixia!NextChassis, SurveyOK
<1> QED
  BY <1>2, <1>3, <1>4, <1>5 DEF Ixia!Next, Ixia!Progress

\* For any number of controllers: those before the one the survey is at have their
\* sections, those behind it have none yet, and all have theirs when the script ends; so
\* an error nobody catches costs the rest and nothing else
\* (get_cisco_ixn2x_info.tcl:49-58, 295-321).
THEOREM WhatAnErrorCosts == OneSpec => []OnlyTheRestIsLost
<1>1. OneInit => SurveyOK
  BY OneShotsAssumption DEF OneInit, Ixia!Init, SurveyOK, Ixia!Sections
<1>2. SurveyOK /\ [OneNext]_allVars => SurveyOK'
  <2> SUFFICES ASSUME SurveyOK, [OneNext]_allVars PROVE SurveyOK'
    OBVIOUS
  <2>1. CASE UNCHANGED surveyVars
    BY <2>1 DEF surveyVars, SurveyOK
  <2> QED
    BY <2>1, SurveyNext DEF OneNext, RowsStep, CallStep, HttpStep, SurveyStep, allVars
<1>3. SurveyOK => OnlyTheRestIsLost
  BY OneShotsAssumption DEF SurveyOK, OnlyTheRestIsLost, Ixia!OnlyTheRestIsLost
<1> QED
  BY <1>1, <1>2, <1>3, PTL DEF OneSpec

-----------------------------------------------------------------------------
(* Survey: the decoding of serial numbers *)

\* A number of n bits.
Number(n) == [1..n -> 0..1]

\* The value of a short number, from its most significant bit on.
LEMMA Values ==
  ASSUME NEW n \in 4..7, NEW b \in Number(n)
  PROVE  \E v : /\ v[0] = 0
                /\ \A k \in 1..n : v[k] = 2 * v[k - 1] + b[k]
                /\ Ixia!ConvertBinStringToDec(b) = v[n]
<1> DEFINE h1 == b[1]
           h2 == 2 * h1 + b[2]
           h3 == 2 * h2 + b[3]
           h4 == 2 * h3 + b[4]
           h5 == 2 * h4 + b[5]
           h6 == 2 * h5 + b[6]
           h7 == 2 * h6 + b[7]
           g == [k \in 0..n |->
                   IF k = 0 THEN 0 ELSE IF k = 1 THEN h1 ELSE IF k = 2 THEN h2
                   ELSE IF k = 3 THEN h3 ELSE IF k = 4 THEN h4 ELSE IF k = 5 THEN h5
                   ELSE IF k = 6 THEN h6 ELSE h7]
           R(v) == v = [k \in 0..n |-> IF k = 0 THEN 0 ELSE 2 * v[k - 1] + b[k]]
           v == CHOOSE v : R(v)
<1>1. R(g)
  <2>1. ASSUME NEW k \in 0..n PROVE g[k] = IF k = 0 THEN 0 ELSE 2 * g[k - 1] + b[k]
    <3>0. b[1] \in 0..1
      BY DEF Number
    <3> HIDE DEF h7, h6, h5, h4, h3, h2
    <3>1. CASE k = 0
      BY <3>1
    <3>2. CASE k = 1
      BY <3>0, <3>2
    <3>3. CASE k = 2
      BY <3>3 DEF h2
    <3>4. CASE k = 3
      BY <3>4 DEF h3
    <3>5. CASE k = 4
      BY <3>5 DEF h4
    <3>6. CASE k = 5
      BY <3>6 DEF h5
    <3>7. CASE k = 6
      BY <3>7 DEF h6
    <3>8. CASE k = 7
      BY <3>8 DEF h7
    <3> QED
      BY <3>1, <3>2, <3>3, <3>4, <3>5, <3>6, <3>7, <3>8
  <2> HIDE DEF h1, h2, h3, h4, h5, h6, h7
  <2>2. g = [k \in 0..n |-> g[k]]
    OBVIOUS
  <2> HIDE DEF g
  <2> QED
    BY <2>1, <2>2
<1> HIDE DEF g
<1>2. R(v)
  BY <1>1
<1>3. Ixia!ConvertBinStringToDec(b) = v[n]
  <2>1. Len(b) = n
    BY DEF Number
  <2> QED
    BY <2>1 DEF Ixia!ConvertBinStringToDec
<1> HIDE DEF v
<1>4. v[0] = 0 /\ \A k \in 1..n : v[k] = 2 * v[k - 1] + b[k]
  BY <1>2
<1> QED
  BY <1>3, <1>4

\* The value written out, and its bound, for each width that occurs.
LEMMA Value4 ==
  ASSUME NEW b \in Number(4)
  PROVE  /\ Ixia!ConvertBinStringToDec(b) = 8 * b[1] + 4 * b[2] + 2 * b[3] + b[4]
         /\ Ixia!ConvertBinStringToDec(b) \in 0..15
<1>1. PICK v : /\ v[0] = 0
               /\ \A k \in 1..4 : v[k] = 2 * v[k - 1] + b[k]
               /\ Ixia!ConvertBinStringToDec(b) = v[4]
  BY Values
<1>2. b[1] \in 0..1 /\ b[2] \in 0..1 /\ b[3] \in 0..1 /\ b[4] \in 0..1
  BY DEF Number
<1>3. /\ v[1] = 2 * v[0] + b[1] /\ v[2] = 2 * v[1] + b[2] /\ v[3] = 2 * v[2] + b[3]
      /\ v[4] = 2 * v[3] + b[4]
  BY <1>1
<1> DEFINE x == Ixia!ConvertBinStringToDec(b)
<1>4. x = v[4] /\ v[0] = 0
  BY <1>1
<1> HIDE DEF x
<1>5. v[1] = b[1] /\ v[1] \in 0..1
  BY <1>2, <1>3, <1>4
<1>6. v[2] = 2 * b[1] + b[2] /\ v[2] \in 0..3
  BY <1>2, <1>3, <1>5
<1>7. v[3] = 4 * b[1] + 2 * b[2] + b[3] /\ v[3] \in 0..7
  BY <1>2, <1>3, <1>6
<1>8. v[4] = 8 * b[1] + 4 * b[2] + 2 * b[3] + b[4] /\ v[4] \in 0..15
  BY <1>2, <1>3, <1>7
<1> QED
  BY <1>2, <1>4, <1>8 DEF x

LEMMA Value5 ==
  ASSUME NEW b \in Number(5)
  PROVE  /\ Ixia!ConvertBinStringToDec(b) = 16 * b[1] + 8 * b[2] + 4 * b[3] + 2 * b[4] + b[5]
         /\ Ixia!ConvertBinStringToDec(b) \in 0..31
<1>1. PICK v : /\ v[0] = 0
               /\ \A k \in 1..5 : v[k] = 2 * v[k - 1] + b[k]
               /\ Ixia!ConvertBinStringToDec(b) = v[5]
  BY Values
<1>2. b[1] \in 0..1 /\ b[2] \in 0..1 /\ b[3] \in 0..1 /\ b[4] \in 0..1 /\ b[5] \in 0..1
  BY DEF Number
<1>3. /\ v[1] = 2 * v[0] + b[1] /\ v[2] = 2 * v[1] + b[2] /\ v[3] = 2 * v[2] + b[3]
      /\ v[4] = 2 * v[3] + b[4] /\ v[5] = 2 * v[4] + b[5]
  BY <1>1
<1> DEFINE x == Ixia!ConvertBinStringToDec(b)
<1>4. x = v[5] /\ v[0] = 0
  BY <1>1
<1> HIDE DEF x
<1>5. v[1] = b[1] /\ v[1] \in 0..1
  BY <1>2, <1>3, <1>4
<1>6. v[2] = 2 * b[1] + b[2] /\ v[2] \in 0..3
  BY <1>2, <1>3, <1>5
<1>7. v[3] = 4 * b[1] + 2 * b[2] + b[3] /\ v[3] \in 0..7
  BY <1>2, <1>3, <1>6
<1>8. v[4] = 8 * b[1] + 4 * b[2] + 2 * b[3] + b[4] /\ v[4] \in 0..15
  BY <1>2, <1>3, <1>7
<1>9. v[5] = 16 * b[1] + 8 * b[2] + 4 * b[3] + 2 * b[4] + b[5] /\ v[5] \in 0..31
  BY <1>2, <1>3, <1>8
<1> QED
  BY <1>2, <1>4, <1>9 DEF x

LEMMA Value6 ==
  ASSUME NEW b \in Number(6)
  PROVE  /\ Ixia!ConvertBinStringToDec(b) =
              32 * b[1] + 16 * b[2] + 8 * b[3] + 4 * b[4] + 2 * b[5] + b[6]
         /\ Ixia!ConvertBinStringToDec(b) \in 0..63
<1>1. PICK v : /\ v[0] = 0
               /\ \A k \in 1..6 : v[k] = 2 * v[k - 1] + b[k]
               /\ Ixia!ConvertBinStringToDec(b) = v[6]
  BY Values
<1>2. /\ b[1] \in 0..1 /\ b[2] \in 0..1 /\ b[3] \in 0..1 /\ b[4] \in 0..1 /\ b[5] \in 0..1
      /\ b[6] \in 0..1
  BY DEF Number
<1>3. /\ v[1] = 2 * v[0] + b[1] /\ v[2] = 2 * v[1] + b[2] /\ v[3] = 2 * v[2] + b[3]
      /\ v[4] = 2 * v[3] + b[4] /\ v[5] = 2 * v[4] + b[5] /\ v[6] = 2 * v[5] + b[6]
  BY <1>1
<1> DEFINE x == Ixia!ConvertBinStringToDec(b)
<1>4. x = v[6] /\ v[0] = 0
  BY <1>1
<1> HIDE DEF x
<1>5. v[1] = b[1] /\ v[1] \in 0..1
  BY <1>2, <1>3, <1>4
<1>6. v[2] = 2 * b[1] + b[2] /\ v[2] \in 0..3
  BY <1>2, <1>3, <1>5
<1>7. v[3] = 4 * b[1] + 2 * b[2] + b[3] /\ v[3] \in 0..7
  BY <1>2, <1>3, <1>6
<1>8. v[4] = 8 * b[1] + 4 * b[2] + 2 * b[3] + b[4] /\ v[4] \in 0..15
  BY <1>2, <1>3, <1>7
<1>9. v[5] = 16 * b[1] + 8 * b[2] + 4 * b[3] + 2 * b[4] + b[5] /\ v[5] \in 0..31
  BY <1>2, <1>3, <1>8
<1>10. v[6] = 32 * b[1] + 16 * b[2] + 8 * b[3] + 4 * b[4] + 2 * b[5] + b[6] /\ v[6] \in 0..63
  BY <1>2, <1>3, <1>9
<1> QED
  BY <1>2, <1>4, <1>10 DEF x

LEMMA Value7 ==
  ASSUME NEW b \in Number(7)
  PROVE  /\ Ixia!ConvertBinStringToDec(b) =
              64 * b[1] + 32 * b[2] + 16 * b[3] + 8 * b[4] + 4 * b[5] + 2 * b[6] + b[7]
         /\ Ixia!ConvertBinStringToDec(b) \in 0..127
<1>1. PICK v : /\ v[0] = 0
               /\ \A k \in 1..7 : v[k] = 2 * v[k - 1] + b[k]
               /\ Ixia!ConvertBinStringToDec(b) = v[7]
  BY Values
<1>2. /\ b[1] \in 0..1 /\ b[2] \in 0..1 /\ b[3] \in 0..1 /\ b[4] \in 0..1 /\ b[5] \in 0..1
      /\ b[6] \in 0..1 /\ b[7] \in 0..1
  BY DEF Number
<1>3. /\ v[1] = 2 * v[0] + b[1] /\ v[2] = 2 * v[1] + b[2] /\ v[3] = 2 * v[2] + b[3]
      /\ v[4] = 2 * v[3] + b[4] /\ v[5] = 2 * v[4] + b[5] /\ v[6] = 2 * v[5] + b[6]
      /\ v[7] = 2 * v[6] + b[7]
  BY <1>1
<1> DEFINE x == Ixia!ConvertBinStringToDec(b)
<1>4. x = v[7] /\ v[0] = 0
  BY <1>1
<1> HIDE DEF x
<1>5. v[1] = b[1] /\ v[1] \in 0..1
  BY <1>2, <1>3, <1>4
<1>6. v[2] = 2 * b[1] + b[2] /\ v[2] \in 0..3
  BY <1>2, <1>3, <1>5
<1>7. v[3] = 4 * b[1] + 2 * b[2] + b[3] /\ v[3] \in 0..7
  BY <1>2, <1>3, <1>6
<1>8. v[4] = 8 * b[1] + 4 * b[2] + 2 * b[3] + b[4] /\ v[4] \in 0..15
  BY <1>2, <1>3, <1>7
<1>9. v[5] = 16 * b[1] + 8 * b[2] + 4 * b[3] + 2 * b[4] + b[5] /\ v[5] \in 0..31
  BY <1>2, <1>3, <1>8
<1>10. v[6] = 32 * b[1] + 16 * b[2] + 8 * b[3] + 4 * b[4] + 2 * b[5] + b[6] /\ v[6] \in 0..63
  BY <1>2, <1>3, <1>9
<1>11. /\ v[7] = 64 * b[1] + 32 * b[2] + 16 * b[3] + 8 * b[4] + 4 * b[5] + 2 * b[6] + b[7]
       /\ v[7] \in 0..127
  BY <1>2, <1>3, <1>10
<1> QED
  BY <1>2, <1>4, <1>11 DEF x

\* The bits of a number are a number of that many bits.
LEMMA BitsType ==
  ASSUME NEW x \in Nat, NEW w \in 1..7
  PROVE  Ixia!Bits(x, w) \in Number(w)
<1>1. ASSUME NEW k \in 1..w PROVE (x \div Ixia!Power[w - k + 1]) % 2 \in 0..1
  <2>1. w - k + 1 \in 1..7
    OBVIOUS
  <2>2. Ixia!Power[w - k + 1] \in {1, 2, 4, 8, 16, 32, 64}
    BY <2>1 DEF Ixia!Power
  <2>3. x \div Ixia!Power[w - k + 1] \in Nat
    BY <2>2
  <2> QED
    BY <2>3
<1> QED
  BY <1>1 DEF Ixia!Bits, Number

\* A number that fits is the value of its bits.
LEMMA Back5 ==
  ASSUME NEW x \in 0..31
  PROVE  Ixia!ConvertBinStringToDec(Ixia!Bits(x, 5)) = x
<1> DEFINE b == Ixia!Bits(x, 5)
<1>1. b \in Number(5)
  BY BitsType
<1>2. /\ b[1] = (x \div 16) % 2
      /\ b[2] = (x \div 8) % 2
      /\ b[3] = (x \div 4) % 2
      /\ b[4] = (x \div 2) % 2
      /\ b[5] = x % 2
  BY DEF Ixia!Bits, Ixia!Power
<1> HIDE DEF b
<1>3. Ixia!ConvertBinStringToDec(b) = 16 * b[1] + 8 * b[2] + 4 * b[3] + 2 * b[4] + b[5]
  BY <1>1, Value5
<1>4. x = 16 * b[1] + 8 * b[2] + 4 * b[3] + 2 * b[4] + b[5]
  BY <1>2
<1> QED
  BY <1>3, <1>4 DEF b

LEMMA Back6 ==
  ASSUME NEW x \in 0..63
  PROVE  Ixia!ConvertBinStringToDec(Ixia!Bits(x, 6)) = x
<1> DEFINE b == Ixia!Bits(x, 6)
<1>1. b \in Number(6)
  BY BitsType
<1>2. /\ b[1] = (x \div 32) % 2
      /\ b[2] = (x \div 16) % 2
      /\ b[3] = (x \div 8) % 2
      /\ b[4] = (x \div 4) % 2
      /\ b[5] = (x \div 2) % 2
      /\ b[6] = x % 2
  BY DEF Ixia!Bits, Ixia!Power
<1> HIDE DEF b
<1>3. Ixia!ConvertBinStringToDec(b) = 32 * b[1] + 16 * b[2] + 8 * b[3] + 4 * b[4] + 2 * b[5] + b[6]
  BY <1>1, Value6
<1>4. x = 32 * b[1] + 16 * b[2] + 8 * b[3] + 4 * b[4] + 2 * b[5] + b[6]
  BY <1>2
<1> QED
  BY <1>3, <1>4 DEF b

LEMMA Back7 ==
  ASSUME NEW x \in 0..127
  PROVE  Ixia!ConvertBinStringToDec(Ixia!Bits(x, 7)) = x
<1> DEFINE b == Ixia!Bits(x, 7)
<1>1. b \in Number(7)
  BY BitsType
<1>2. /\ b[1] = (x \div 64) % 2
      /\ b[2] = (x \div 32) % 2
      /\ b[3] = (x \div 16) % 2
      /\ b[4] = (x \div 8) % 2
      /\ b[5] = (x \div 4) % 2
      /\ b[6] = (x \div 2) % 2
      /\ b[7] = x % 2
  BY DEF Ixia!Bits, Ixia!Power
<1> HIDE DEF b
<1>3. Ixia!ConvertBinStringToDec(b) =
        64 * b[1] + 32 * b[2] + 16 * b[3] + 8 * b[4] + 4 * b[5] + 2 * b[6] + b[7]
  BY <1>1, Value7
<1>4. x = 64 * b[1] + 32 * b[2] + 16 * b[3] + 8 * b[4] + 4 * b[5] + 2 * b[6] + b[7]
  BY <1>2
<1> QED
  BY <1>3, <1>4 DEF b

\* And four bits are those of their value.
LEMMA BackNibble ==
  ASSUME NEW b \in Number(4)
  PROVE  Ixia!Bits(Ixia!ConvertBinStringToDec(b), 4) = b
<1> DEFINE x == Ixia!ConvertBinStringToDec(b)
<1>1. x = 8 * b[1] + 4 * b[2] + 2 * b[3] + b[4]
  BY Value4
<1>2. b[1] \in 0..1 /\ b[2] \in 0..1 /\ b[3] \in 0..1 /\ b[4] \in 0..1
  BY DEF Number
<1> HIDE DEF x
<1>3. /\ (x \div 8) % 2 = b[1] /\ (x \div 4) % 2 = b[2] /\ (x \div 2) % 2 = b[3]
      /\ x % 2 = b[4] /\ x \in 0..15
  <2>1. PICK b1 \in 0..1, b2 \in 0..1, b3 \in 0..1, b4 \in 0..1 :
          b1 = b[1] /\ b2 = b[2] /\ b3 = b[3] /\ b4 = b[4]
    BY <1>2
  <2>2. x = 8 * b1 + 4 * b2 + 2 * b3 + b4
    BY <1>1, <2>1
  <2>3. x \in 0..15
    BY <2>2
  <2>4. x \div 8 = b1 /\ b1 % 2 = b1
    BY <2>2
  <2>5. x \div 4 = 2 * b1 + b2 /\ (2 * b1 + b2) % 2 = b2
    BY <2>2
  <2>6. x \div 2 = 4 * b1 + 2 * b2 + b3 /\ (4 * b1 + 2 * b2 + b3) % 2 = b3
    BY <2>2
  <2>7. x % 2 = b4
    BY <2>2
  <2> QED
    BY <2>1, <2>3, <2>4, <2>5, <2>6, <2>7
<1> DEFINE c == Ixia!Bits(x, 4)
<1>4. /\ c[1] = (x \div 8) % 2 /\ c[2] = (x \div 4) % 2 /\ c[3] = (x \div 2) % 2
      /\ c[4] = (x \div 1) % 2
  BY DEF Ixia!Bits, Ixia!Power
<1>5. x \div 1 = x
  BY <1>3
<1>6. c \in Number(4)
  BY <1>3, BitsType
<1> HIDE DEF c
<1>7. \A k \in 1..4 : k = 1 \/ k = 2 \/ k = 3 \/ k = 4
  OBVIOUS
<1>8. \A k \in 1..4 : c[k] = b[k]
  BY <1>3, <1>4, <1>5, <1>7
<1>9. c = b
  BY <1>6, <1>8 DEF Number
<1> QED
  BY <1>9 DEF c, x

\* The bits o + 1 to o + w of a number.
LEMMA SliceIs ==
  ASSUME NEW n \in Nat, NEW b \in Number(n), NEW o \in Nat, NEW w \in Nat, o + w <= n
  PROVE  /\ SubSeq(b, o + 1, o + w) \in Number(w)
         /\ \A k \in 1..w : SubSeq(b, o + 1, o + w)[k] = b[o + k]
<1>1. b \in Seq(0..1) /\ Len(b) = n
  BY DEF Number
<1>2. \A k \in 1..w : o + k \in 1..n
  OBVIOUS
<1>3. SubSeq(b, o + 1, o + w) = [k \in 1..w |-> b[o + k]]
  <2>1. SubSeq(b, o + 1, o + w) = [k \in 1..((o + w) - (o + 1) + 1) |-> b[k + (o + 1) - 1]]
    BY <1>1
  <2> QED
    BY <2>1
<1>4. [k \in 1..w |-> b[o + k]] \in Number(w)
  BY <1>2 DEF Number
<1> QED
  BY <1>3, <1>4

\* Bits in a sequence are a number.
LEMMA SeqNumber ==
  ASSUME NEW n \in Nat, NEW s \in Seq(0..1), Len(s) = n
  PROVE  s \in Number(n)
BY DEF Number

\* One number after the other.
LEMMA CatIs ==
  ASSUME NEW n \in Nat, NEW m \in Nat, NEW a \in Number(n), NEW b \in Number(m)
  PROVE  /\ a \o b \in Number(n + m)
         /\ \A k \in 1..n : (a \o b)[k] = a[k]
         /\ \A k \in 1..m : (a \o b)[n + k] = b[k]
<1>1. a \in Seq(0..1) /\ Len(a) = n /\ b \in Seq(0..1) /\ Len(b) = m
  BY DEF Number
<1>2. a \o b \in Seq(0..1) /\ Len(a \o b) = n + m
  BY <1>1
<1>3. a \o b \in Number(n + m)
  <2>1. PICK k \in Nat : k = n + m
    OBVIOUS
  <2>2. a \o b \in Number(k)
    BY <1>2, <2>1, SeqNumber
  <2> QED
    BY <2>1, <2>2
<1>4. \A k \in 1..n : (a \o b)[k] = a[k]
  BY <1>1
<1>5. \A k \in 1..m : (a \o b)[n + k] = b[k]
  BY <1>1
<1> QED
  BY <1>3, <1>4, <1>5

\* A field whose bits are those of p.
LEMMA FieldIs ==
  ASSUME NEW b \in Number(44), NEW o \in 0..37, NEW w \in 5..7, NEW p \in Number(w), o + w <= 44,
         \A k \in 1..w : b[o + k] = p[k]
  PROVE  SubSeq(b, o + 1, o + w) = p
<1> DEFINE t == SubSeq(b, o + 1, o + w)
<1>1. t \in Number(w) /\ \A k \in 1..w : t[k] = b[o + k]
  BY SliceIs
<1> HIDE DEF t
<1>2. \A k \in 1..w : t[k] = p[k]
  BY <1>1
<1>3. t \in [1..w -> 0..1] /\ p \in [1..w -> 0..1]
  BY <1>1 DEF Number
<1>4. t = p
  BY <1>2, <1>3
<1> QED
  BY <1>4 DEF t

\* Each country has a code of its own, and none is 0.
LEMMA CountryIs ==
  /\ \A i \in 1..13 : Ixia!CountryCode[i] \in 1..31
  /\ \A i, j \in 1..13 : Ixia!CountryCode[i] = Ixia!CountryCode[j] => i = j
BY DEF Ixia!CountryCode

\* The bits of a serial number hold its fields.
LEMMA CodeIs ==
  ASSUME NEW s \in Ixia!SerialNumber, NEW b, b = Ixia!Code(s)
  PROVE  \E i \in 1..13 :
         /\ b \in Number(44)
         /\ Ixia!Countries[i] = s.country
         /\ SubSeq(b, 1, 5) = Ixia!Bits(Ixia!CountryCode[i], 5)
         /\ SubSeq(b, 6, 10) = Ixia!Bits(s.year - 41, 5)
         /\ SubSeq(b, 11, 16) = Ixia!Bits(s.week, 6)
         /\ SubSeq(b, 17, 23) = Ixia!Bits(s.product[1], 7)
         /\ SubSeq(b, 24, 30) = Ixia!Bits(s.product[2], 7)
         /\ SubSeq(b, 31, 37) = Ixia!Bits(s.sequence[1], 7)
         /\ SubSeq(b, 38, 44) = Ixia!Bits(s.sequence[2], 7)
<1> DEFINE i == CHOOSE i \in 1..13 : Ixia!Countries[i] = s.country
<1>1. i \in 1..13 /\ Ixia!Countries[i] = s.country
  BY DEF Ixia!SerialNumber
<1> HIDE DEF i
<1> DEFINE p1 == Ixia!Bits(Ixia!CountryCode[i], 5)
           p2 == Ixia!Bits(s.year - 41, 5)
           p3 == Ixia!Bits(s.week, 6)
           p4 == Ixia!Bits(s.product[1], 7)
           p5 == Ixia!Bits(s.product[2], 7)
           p6 == Ixia!Bits(s.sequence[1], 7)
           p7 == Ixia!Bits(s.sequence[2], 7)
           q2 == p1 \o p2
           q3 == q2 \o p3
           q4 == q3 \o p4
           q5 == q4 \o p5
           q6 == q5 \o p6
           q7 == q6 \o p7
<1>2. /\ p1 \in Number(5)
      /\ p2 \in Number(5)
      /\ p3 \in Number(6)
      /\ p4 \in Number(7)
      /\ p5 \in Number(7)
      /\ p6 \in Number(7)
      /\ p7 \in Number(7)
  <2>1. Ixia!CountryCode[i] \in Nat
    BY <1>1, CountryIs
  <2>2. /\ s.year - 41 \in Nat /\ s.week \in Nat /\ s.product[1] \in Nat /\ s.product[2] \in Nat
        /\ s.sequence[1] \in Nat /\ s.sequence[2] \in Nat
    BY DEF Ixia!SerialNumber
  <2> QED
    BY <2>1, <2>2, BitsType
<1> HIDE DEF p1, p2, p3, p4, p5, p6, p7
<1> HIDE DEF q2, q3, q4, q5, q6, q7
<1>3. /\ q2 \in Number(10)
      /\ \A k \in 1..5 : q2[k] = p1[k]
      /\ \A k \in 1..5 : q2[5 + k] = p2[k]
  <2>1. p1 \in Number(5) /\ p2 \in Number(5) /\ 5 \in Nat /\ 5 \in Nat
    BY <1>2
  <2>2. /\ p1 \o p2 \in Number(5 + 5)
        /\ \A k \in 1..5 : (p1 \o p2)[k] = p1[k]
        /\ \A k \in 1..5 : (p1 \o p2)[5 + k] = p2[k]
    BY <2>1, CatIs, Zenon
  <2>3. q2 = p1 \o p2
    BY DEF q2
  <2>4. 5 + 5 = 10
    OBVIOUS
  <2> QED
    BY <2>2, <2>3, <2>4, Zenon
<1>4. /\ q3 \in Number(16)
      /\ \A k \in 1..10 : q3[k] = q2[k]
      /\ \A k \in 1..6 : q3[10 + k] = p3[k]
  <2>1. q2 \in Number(10) /\ p3 \in Number(6) /\ 10 \in Nat /\ 6 \in Nat
    BY <1>2, <1>3
  <2>2. /\ q2 \o p3 \in Number(10 + 6)
        /\ \A k \in 1..10 : (q2 \o p3)[k] = q2[k]
        /\ \A k \in 1..6 : (q2 \o p3)[10 + k] = p3[k]
    BY <2>1, CatIs, Zenon
  <2>3. q3 = q2 \o p3
    BY DEF q3
  <2>4. 10 + 6 = 16
    OBVIOUS
  <2> QED
    BY <2>2, <2>3, <2>4, Zenon
<1>5. /\ q4 \in Number(23)
      /\ \A k \in 1..16 : q4[k] = q3[k]
      /\ \A k \in 1..7 : q4[16 + k] = p4[k]
  <2>1. q3 \in Number(16) /\ p4 \in Number(7) /\ 16 \in Nat /\ 7 \in Nat
    BY <1>2, <1>4
  <2>2. /\ q3 \o p4 \in Number(16 + 7)
        /\ \A k \in 1..16 : (q3 \o p4)[k] = q3[k]
        /\ \A k \in 1..7 : (q3 \o p4)[16 + k] = p4[k]
    BY <2>1, CatIs, Zenon
  <2>3. q4 = q3 \o p4
    BY DEF q4
  <2>4. 16 + 7 = 23
    OBVIOUS
  <2> QED
    BY <2>2, <2>3, <2>4, Zenon
<1>6. /\ q5 \in Number(30)
      /\ \A k \in 1..23 : q5[k] = q4[k]
      /\ \A k \in 1..7 : q5[23 + k] = p5[k]
  <2>1. q4 \in Number(23) /\ p5 \in Number(7) /\ 23 \in Nat /\ 7 \in Nat
    BY <1>2, <1>5
  <2>2. /\ q4 \o p5 \in Number(23 + 7)
        /\ \A k \in 1..23 : (q4 \o p5)[k] = q4[k]
        /\ \A k \in 1..7 : (q4 \o p5)[23 + k] = p5[k]
    BY <2>1, CatIs, Zenon
  <2>3. q5 = q4 \o p5
    BY DEF q5
  <2>4. 23 + 7 = 30
    OBVIOUS
  <2> QED
    BY <2>2, <2>3, <2>4, Zenon
<1>7. /\ q6 \in Number(37)
      /\ \A k \in 1..30 : q6[k] = q5[k]
      /\ \A k \in 1..7 : q6[30 + k] = p6[k]
  <2>1. q5 \in Number(30) /\ p6 \in Number(7) /\ 30 \in Nat /\ 7 \in Nat
    BY <1>2, <1>6
  <2>2. /\ q5 \o p6 \in Number(30 + 7)
        /\ \A k \in 1..30 : (q5 \o p6)[k] = q5[k]
        /\ \A k \in 1..7 : (q5 \o p6)[30 + k] = p6[k]
    BY <2>1, CatIs, Zenon
  <2>3. q6 = q5 \o p6
    BY DEF q6
  <2>4. 30 + 7 = 37
    OBVIOUS
  <2> QED
    BY <2>2, <2>3, <2>4, Zenon
<1>8. /\ q7 \in Number(44)
      /\ \A k \in 1..37 : q7[k] = q6[k]
      /\ \A k \in 1..7 : q7[37 + k] = p7[k]
  <2>1. q6 \in Number(37) /\ p7 \in Number(7) /\ 37 \in Nat /\ 7 \in Nat
    BY <1>2, <1>7
  <2>2. /\ q6 \o p7 \in Number(37 + 7)
        /\ \A k \in 1..37 : (q6 \o p7)[k] = q6[k]
        /\ \A k \in 1..7 : (q6 \o p7)[37 + k] = p7[k]
    BY <2>1, CatIs, Zenon
  <2>3. q7 = q6 \o p7
    BY DEF q7
  <2>4. 37 + 7 = 44
    OBVIOUS
  <2> QED
    BY <2>2, <2>3, <2>4, Zenon
<1>9. b = q7
  BY DEF Ixia!Code, i, p1, p2, p3, p4, p5, p6, p7, q2, q3, q4, q5, q6, q7
<1>10. b \in Number(44)
  BY <1>8, <1>9
<1>11. SubSeq(b, 1, 5) = p1
  <2>1. \A k \in 1..5 : b[0 + k] = p1[k]
    BY <1>9, <1>3, <1>4, <1>5, <1>6, <1>7, <1>8
  <2>2. SubSeq(b, 0 + 1, 0 + 5) = p1
    BY <1>2, <1>10, <2>1, FieldIs
  <2> QED
    BY <2>2
<1>12. SubSeq(b, 6, 10) = p2
  <2>1. \A k \in 1..5 : b[5 + k] = p2[k]
    BY <1>9, <1>3, <1>4, <1>5, <1>6, <1>7, <1>8
  <2>2. SubSeq(b, 5 + 1, 5 + 5) = p2
    BY <1>2, <1>10, <2>1, FieldIs
  <2> QED
    BY <2>2
<1>13. SubSeq(b, 11, 16) = p3
  <2>1. \A k \in 1..6 : b[10 + k] = p3[k]
    BY <1>9, <1>4, <1>5, <1>6, <1>7, <1>8
  <2>2. SubSeq(b, 10 + 1, 10 + 6) = p3
    BY <1>2, <1>10, <2>1, FieldIs
  <2> QED
    BY <2>2
<1>14. SubSeq(b, 17, 23) = p4
  <2>1. \A k \in 1..7 : b[16 + k] = p4[k]
    BY <1>9, <1>5, <1>6, <1>7, <1>8
  <2>2. SubSeq(b, 16 + 1, 16 + 7) = p4
    BY <1>2, <1>10, <2>1, FieldIs
  <2> QED
    BY <2>2
<1>15. SubSeq(b, 24, 30) = p5
  <2>1. \A k \in 1..7 : b[23 + k] = p5[k]
    BY <1>9, <1>6, <1>7, <1>8
  <2>2. SubSeq(b, 23 + 1, 23 + 7) = p5
    BY <1>2, <1>10, <2>1, FieldIs
  <2> QED
    BY <2>2
<1>16. SubSeq(b, 31, 37) = p6
  <2>1. \A k \in 1..7 : b[30 + k] = p6[k]
    BY <1>9, <1>7, <1>8
  <2>2. SubSeq(b, 30 + 1, 30 + 7) = p6
    BY <1>2, <1>10, <2>1, FieldIs
  <2> QED
    BY <2>2
<1>17. SubSeq(b, 38, 44) = p7
  <2>1. \A k \in 1..7 : b[37 + k] = p7[k]
    BY <1>9, <1>8
  <2>2. SubSeq(b, 37 + 1, 37 + 7) = p7
    BY <1>2, <1>10, <2>1, FieldIs
  <2> QED
    BY <2>2
<1> QED
  BY <1>1, <1>10, <1>11, <1>12, <1>13, <1>14, <1>15, <1>16, <1>17 DEF p1, p2, p3, p4, p5, p6, p7

\* Decoding the fields gives back the serial number.
LEMMA FieldsBack ==
  ASSUME NEW s \in Ixia!SerialNumber
  PROVE  Ixia!Code(s) \in Number(44) /\ Ixia!Fields(Ixia!Code(s)) = s
<1> DEFINE b == Ixia!Code(s)
           field(from, to) == Ixia!Field(b, from, to)
<1>1. PICK i \in 1..13 :
         /\ b \in Number(44)
         /\ Ixia!Countries[i] = s.country
         /\ SubSeq(b, 1, 5) = Ixia!Bits(Ixia!CountryCode[i], 5)
         /\ SubSeq(b, 6, 10) = Ixia!Bits(s.year - 41, 5)
         /\ SubSeq(b, 11, 16) = Ixia!Bits(s.week, 6)
         /\ SubSeq(b, 17, 23) = Ixia!Bits(s.product[1], 7)
         /\ SubSeq(b, 24, 30) = Ixia!Bits(s.product[2], 7)
         /\ SubSeq(b, 31, 37) = Ixia!Bits(s.sequence[1], 7)
         /\ SubSeq(b, 38, 44) = Ixia!Bits(s.sequence[2], 7)
  BY CodeIs
<1> HIDE DEF b
<1>2. /\ s.country \in {Ixia!Countries[j] : j \in 1..13}
      /\ s.year \in 41..72 /\ s.week \in 0..63
      /\ s.product \in (0..127) \X (0..127) /\ s.sequence \in (0..127) \X (0..127)
      /\ s = [country |-> s.country, year |-> s.year, week |-> s.week, product |-> s.product,
              sequence |-> s.sequence]
  BY DEF Ixia!SerialNumber
<1>3. /\ s.product[1] \in 0..127 /\ s.product[2] \in 0..127
      /\ s.sequence[1] \in 0..127 /\ s.sequence[2] \in 0..127
      /\ s.product = <<s.product[1], s.product[2]>> /\ s.sequence = <<s.sequence[1], s.sequence[2]>>
  BY <1>2
<1>4. field(0, 4) = Ixia!CountryCode[i]
  <2>1. field(0, 4) = Ixia!ConvertBinStringToDec(SubSeq(b, 1, 5))
    BY DEF Ixia!Field
  <2>2. Ixia!CountryCode[i] \in 0..31
    BY CountryIs
  <2> QED
    BY <1>1, <2>1, <2>2, Back5
<1>5. field(5, 9) + 2001 - 1960 = s.year
  <2>1. field(5, 9) = Ixia!ConvertBinStringToDec(SubSeq(b, 6, 10))
    BY DEF Ixia!Field
  <2>2. s.year - 41 \in 0..31
    BY <1>2
  <2>3. field(5, 9) = s.year - 41
    BY <1>1, <2>1, <2>2, Back5
  <2> QED
    BY <1>2, <2>3
<1>6. field(10, 15) = s.week
  <2>1. field(10, 15) = Ixia!ConvertBinStringToDec(SubSeq(b, 11, 16))
    BY DEF Ixia!Field
  <2>2. s.week \in 0..63
    BY <1>2
  <2>3. Ixia!ConvertBinStringToDec(Ixia!Bits(s.week, 6)) = s.week
    BY <2>2, Back6
  <2> QED
    BY <1>1, <2>1, <2>3
<1>7. field(16, 22) = s.product[1] /\ field(23, 29) = s.product[2]
  <2>1. /\ field(16, 22) = Ixia!ConvertBinStringToDec(SubSeq(b, 17, 23))
        /\ field(23, 29) = Ixia!ConvertBinStringToDec(SubSeq(b, 24, 30))
    BY DEF Ixia!Field
  <2> QED
    BY <1>1, <1>3, <2>1, Back7
<1>8. field(30, 36) = s.sequence[1] /\ field(37, 43) = s.sequence[2]
  <2>1. /\ field(30, 36) = Ixia!ConvertBinStringToDec(SubSeq(b, 31, 37))
        /\ field(37, 43) = Ixia!ConvertBinStringToDec(SubSeq(b, 38, 44))
    BY DEF Ixia!Field
  <2> QED
    BY <1>1, <1>3, <2>1, Back7
<1> DEFINE found == {j \in 1..13 : Ixia!CountryCode[j] = field(0, 4)}
<1>9. found = {i}
  BY <1>4, CountryIs
<1> HIDE DEF field
<1>10. Ixia!Countries[CHOOSE j \in found : TRUE] = s.country
  <2> HIDE DEF found
  <2>1. (CHOOSE j \in found : TRUE) = i
    BY <1>9
  <2> QED
    BY <1>1, <2>1
<1>11. Ixia!Fields(b) = [country |-> Ixia!Countries[CHOOSE j \in found : TRUE],
                         year     |-> field(5, 9) + 2001 - 1960,
                         week     |-> field(10, 15),
                         product  |-> <<field(16, 22), field(23, 29)>>,
                         sequence |-> <<field(30, 36), field(37, 43)>>]
  <2>1. found # {}
    BY <1>9
  <2> QED
    BY <2>1 DEF Ixia!Fields, field
<1>12. Ixia!Fields(b) = s
  BY <1>2, <1>3, <1>5, <1>6, <1>7, <1>8, <1>10, <1>11
<1> QED
  BY <1>1, <1>12 DEF b

\* What the hexadecimal digits of a serial number say of its bits.
LEMMA EncodedIs ==
  ASSUME NEW s \in Ixia!SerialNumber, NEW b, b = Ixia!Code(s), NEW e, e = Ixia!Encoded(s)
  PROVE  /\ e \in [1..11 -> 0..15]
         /\ \A k \in 1..11 : \A m \in 1..4 : Ixia!Bits(e[k], 4)[m] = b[4 * k - 4 + m]
         /\ e[1] = 0 => e[2] # 0 /\ \A m \in 1..4 : b[m] = 0
<1>1. b \in Number(44)
  BY FieldsBack
<1> DEFINE t(k) == SubSeq(b, 4 * k - 3, 4 * k)
<1>2. ASSUME NEW k \in 1..11
      PROVE  t(k) \in Number(4) /\ \A m \in 1..4 : t(k)[m] = b[4 * k - 4 + m]
  <2>1. PICK o \in Nat : o = 4 * k - 4
    OBVIOUS
  <2>2. o + 4 <= 44 /\ o + 1 = 4 * k - 3 /\ o + 4 = 4 * k
    BY <2>1
  <2>3. /\ SubSeq(b, o + 1, o + 4) \in Number(4)
        /\ \A m \in 1..4 : SubSeq(b, o + 1, o + 4)[m] = b[o + m]
    BY <1>1, <2>2, SliceIs
  <2> QED
    BY <2>1, <2>2, <2>3
<1>3. e = [k \in 1..11 |-> Ixia!ConvertBinStringToDec(t(k))]
  BY DEF Ixia!Encoded
<1> HIDE DEF t
<1>4. \A k \in 1..11 : e[k] = Ixia!ConvertBinStringToDec(t(k)) /\ e[k] \in 0..15
  BY <1>2, <1>3, Value4
<1>5. e \in [1..11 -> 0..15]
  BY <1>3, <1>4
<1>6. \A k \in 1..11 : Ixia!Bits(e[k], 4) = t(k)
  BY <1>2, <1>4, BackNibble
<1>7. \A k \in 1..11 : \A m \in 1..4 : Ixia!Bits(e[k], 4)[m] = b[4 * k - 4 + m]
  BY <1>2, <1>6
<1>8. /\ e[1] = 8 * b[1] + 4 * b[2] + 2 * b[3] + b[4]
      /\ e[2] = 8 * b[5] + 4 * b[6] + 2 * b[7] + b[8]
  <2>1. /\ e[1] = 8 * t(1)[1] + 4 * t(1)[2] + 2 * t(1)[3] + t(1)[4]
        /\ e[2] = 8 * t(2)[1] + 4 * t(2)[2] + 2 * t(2)[3] + t(2)[4]
    BY <1>2, <1>4, Value4
  <2>2. /\ t(1)[1] = b[1] /\ t(1)[2] = b[2] /\ t(1)[3] = b[3] /\ t(1)[4] = b[4]
        /\ t(2)[1] = b[5] /\ t(2)[2] = b[6] /\ t(2)[3] = b[7] /\ t(2)[4] = b[8]
    BY <1>2
  <2> QED
    BY <2>1, <2>2
<1>9. /\ b[1] \in 0..1 /\ b[2] \in 0..1 /\ b[3] \in 0..1 /\ b[4] \in 0..1
      /\ b[5] \in 0..1 /\ b[6] \in 0..1 /\ b[7] \in 0..1 /\ b[8] \in 0..1
  BY <1>1 DEF Number
<1>10. 16 * b[1] + 8 * b[2] + 4 * b[3] + 2 * b[4] + b[5] >= 1
  <2>1. PICK i \in 1..13 : SubSeq(b, 1, 5) = Ixia!Bits(Ixia!CountryCode[i], 5)
    BY CodeIs
  <2>2. PICK c \in 1..31 : c = Ixia!CountryCode[i]
    BY CountryIs
  <2>3. Ixia!ConvertBinStringToDec(SubSeq(b, 1, 5)) >= 1
    <3>1. Ixia!ConvertBinStringToDec(Ixia!Bits(c, 5)) = c
      BY Back5
    <3>2. SubSeq(b, 1, 5) = Ixia!Bits(c, 5)
      BY <2>1, <2>2, Zenon
    <3>3. Ixia!ConvertBinStringToDec(SubSeq(b, 1, 5)) = c
      BY <3>1, <3>2, Zenon
    <3> QED
      BY <3>3
  <2>4. /\ SubSeq(b, 0 + 1, 0 + 5) \in Number(5)
        /\ \A m \in 1..5 : SubSeq(b, 0 + 1, 0 + 5)[m] = b[0 + m]
    BY <1>1, SliceIs
  <2> DEFINE u == SubSeq(b, 1, 5)
  <2>5. u \in Number(5) /\ u[1] = b[1] /\ u[2] = b[2] /\ u[3] = b[3] /\ u[4] = b[4] /\ u[5] = b[5]
    BY <2>4
  <2> HIDE DEF u
  <2>6. Ixia!ConvertBinStringToDec(u) = 16 * u[1] + 8 * u[2] + 4 * u[3] + 2 * u[4] + u[5]
    BY <2>5, Value5
  <2> QED
    BY <2>3, <2>5, <2>6 DEF u
<1>11. e[1] = 0 => b[1] = 0 /\ b[2] = 0 /\ b[3] = 0 /\ b[4] = 0 /\ e[2] # 0
  BY <1>8, <1>9, <1>10
<1>12. \A m \in 1..4 : m = 1 \/ m = 2 \/ m = 3 \/ m = 4
  OBVIOUS
<1>13. e[1] = 0 => e[2] # 0 /\ \A m \in 1..4 : b[m] = 0
  BY <1>11, <1>12
<1> QED
  BY <1>5, <1>7, <1>13

\* Digits as a function and as a sequence.
LEMMA DigitsSeq ==
  ASSUME NEW n \in Nat, NEW e \in [1..n -> 0..15]
  PROVE  e \in Seq(0..15) /\ e \in Seq(Nat) /\ Len(e) = n
OBVIOUS

\* Digits from the k-th on.
LEMMA SubIs ==
  ASSUME NEW e \in Seq(0..15), NEW k \in 1..Len(e)
  PROVE  /\ SubSeq(e, k, Len(e)) \in Seq(0..15)
         /\ Len(SubSeq(e, k, Len(e))) = Len(e) - k + 1
         /\ \A j \in 1..(Len(e) - k + 1) : SubSeq(e, k, Len(e))[j] = e[k + j - 1]
<1>1. \A i \in k..Len(e) : e[i] \in 0..15
  OBVIOUS
<1>2. k \in Int /\ Len(e) \in Int /\ k <= Len(e)
  OBVIOUS
<1> QED
  BY <1>1, <1>2, SubSeqProperties

\* One sequence after the other.
LEMMA CatSeq ==
  ASSUME NEW S, NEW a \in Seq(S), NEW b \in Seq(S)
  PROVE  /\ a \o b \in Seq(S)
         /\ Len(a \o b) = Len(a) + Len(b)
         /\ \A j \in 1..Len(a) : (a \o b)[j] = a[j]
         /\ \A j \in 1..Len(b) : (a \o b)[Len(a) + j] = b[j]
<1>1. a \o b \in Seq(S) /\ Len(a \o b) = Len(a) + Len(b)
  OBVIOUS
<1>2. \A j \in 1..Len(a) : (a \o b)[j] = a[j]
  OBVIOUS
<1>3. \A j \in 1..Len(b) : (a \o b)[Len(a) + j] = b[j]
  OBVIOUS
<1> QED
  BY <1>1, <1>2, <1>3

\* Digits with five zeros in front.
LEMMA Prefixed ==
  ASSUME NEW e \in Seq(0..15)
  PROVE  LET z == <<0, 0, 0, 0, 0>> \o e
         IN  /\ z \in Seq(0..15)
             /\ Len(z) = 5 + Len(e)
             /\ \A j \in 1..5 : z[j] = 0
             /\ \A j \in 1..Len(e) : z[5 + j] = e[j]
<1> DEFINE o == <<0, 0, 0, 0, 0>>
<1>1. o \in Seq(0..15) /\ Len(o) = 5
  OBVIOUS
<1>2. \A j \in 1..5 : o[j] = 0
  OBVIOUS
<1> HIDE DEF o
<1> DEFINE z == o \o e
<1>3. /\ z \in Seq(0..15) /\ Len(z) = Len(o) + Len(e) /\ (\A j \in 1..Len(o) : z[j] = o[j])
      /\ \A j \in 1..Len(e) : z[Len(o) + j] = e[j]
  <2>1. PICK S : S = 0..15
    OBVIOUS
  <2>2. o \in Seq(S) /\ e \in Seq(S)
    BY <1>1, <2>1
  <2>3. /\ z \in Seq(S) /\ Len(z) = Len(o) + Len(e) /\ (\A j \in 1..Len(o) : z[j] = o[j])
        /\ \A j \in 1..Len(e) : z[Len(o) + j] = e[j]
    BY <2>2, CatSeq
  <2> QED
    BY <2>1, <2>3, Zenon
<1> HIDE DEF z
<1>4. /\ z \in Seq(0..15) /\ Len(z) = 5 + Len(e) /\ (\A j \in 1..5 : z[j] = 0)
      /\ \A j \in 1..Len(e) : z[5 + j] = e[j]
  BY <1>1, <1>2, <1>3
<1> QED
  BY <1>4 DEF o, z

\* Digits are trimmed of the zeros in front of the first that is not zero.
LEMMA TrimIs ==
  ASSUME NEW s \in Seq(0..15), NEW k \in 1..Len(s), s[k] # 0, \A j \in 1..(k - 1) : s[j] = 0
  PROVE  /\ Ixia!TrimLeft(s) \in Seq(0..15)
         /\ Len(Ixia!TrimLeft(s)) = Len(s) - k + 1
         /\ \A j \in 1..(Len(s) - k + 1) : Ixia!TrimLeft(s)[j] = s[k + j - 1]
<1> DEFINE nonzero == {j \in 1..Len(s) : s[j] # 0}
<1>1. k \in nonzero /\ \A j \in nonzero : k <= j
  <2>1. k \in nonzero
    OBVIOUS
  <2>2. ASSUME NEW j \in nonzero, ~ (k <= j) PROVE FALSE
    <3>1. j \in 1..(k - 1) /\ s[j] # 0
      BY <2>2
    <3> QED
      BY <3>1
  <2> QED
    BY <2>1, <2>2
<1>2. nonzero \subseteq Nat
  OBVIOUS
<1> HIDE DEF nonzero
<1>3. Ixia!Min(nonzero) = k
  <2>1. \A j \in nonzero : (\A y \in nonzero : j <= y) => j = k
    BY <1>1, <1>2
  <2> QED
    BY <1>1, <2>1 DEF Ixia!Min
<1>4. nonzero # {}
  BY <1>1
<1>5. Ixia!TrimLeft(s) = SubSeq(s, k, Len(s))
  BY <1>3, <1>4 DEF Ixia!TrimLeft, nonzero
<1> QED
  BY <1>5, SubIs

\* The ways in which the digits of a serial number may be given.
Forms(e) == {<<0, 0, 0, 0, 0>> \o e, e, Ixia!TrimLeft(e)}

\* Trimmed, d is e from its digit k on.
From(k, d, e) ==
  /\ k = 2 => e[1] = 0
  /\ Len(d) >= 10
  /\ Ixia!TrimLeft(d) \in Seq(0..15)
  /\ Len(Ixia!TrimLeft(d)) = 12 - k
  /\ \A j \in 1..(12 - k) : Ixia!TrimLeft(d)[j] = e[k + j - 1]

\* However it is written, trimmed of zeros a serial number is its digits from the first or
\* from the second on.
LEMMA WrittenIs ==
  ASSUME NEW e \in [1..11 -> 0..15], e[1] = 0 => e[2] # 0,
         NEW d \in Forms(e)
  PROVE  \E k \in 1..2 : From(k, d, e)
<1>2. PICK k \in 1..2 : e[k] # 0 /\ (k = 2 => e[1] = 0)
  <2>1. CASE e[1] = 0
    BY <2>1
  <2>2. CASE e[1] # 0
    BY <2>2
  <2> QED
    BY <2>1, <2>2
<1>3. e \in Seq(0..15) /\ Len(e) = 11
  <2>1. 11 \in Nat
    OBVIOUS
  <2> QED
    BY <2>1, DigitsSeq
<1>4. \A j \in 1..(k - 1) : e[j] = 0
  BY <1>2
<1> DEFINE t == Ixia!TrimLeft(e)
           z == <<0, 0, 0, 0, 0>> \o e
           Good(x) == /\ Len(x) >= 10
                      /\ Ixia!TrimLeft(x) \in Seq(0..15)
                      /\ Len(Ixia!TrimLeft(x)) = 12 - k
                      /\ \A j \in 1..(12 - k) : Ixia!TrimLeft(x)[j] = e[k + j - 1]
<1>5. t \in Seq(0..15) /\ Len(t) = 12 - k /\ \A j \in 1..(12 - k) : t[j] = e[k + j - 1]
  <2>1. k \in 1..Len(e) /\ Len(e) - k + 1 = 12 - k
    BY <1>3
  <2> QED
    BY <1>2, <1>3, <1>4, <2>1, TrimIs
<1>6. Good(e)
  BY <1>3, <1>5
<1>7. Good(t)
  <2> HIDE DEF t
  <2>1. t[1] = e[k] /\ 1 \in 1..Len(t)
    BY <1>5
  <2>2. \A j \in 1..(1 - 1) : t[j] = 0
    OBVIOUS
  <2>3. /\ Ixia!TrimLeft(t) \in Seq(0..15)
        /\ Len(Ixia!TrimLeft(t)) = Len(t) - 1 + 1
        /\ \A j \in 1..(Len(t) - 1 + 1) : Ixia!TrimLeft(t)[j] = t[1 + j - 1]
    BY <1>2, <1>5, <2>1, <2>2, TrimIs
  <2>4. Len(t) - 1 + 1 = 12 - k /\ \A j \in 1..(12 - k) : 1 + j - 1 = j
    BY <1>5
  <2> QED
    BY <1>5, <2>3, <2>4
<1>8. Good(z)
  <2>1. /\ z \in Seq(0..15) /\ Len(z) = 16 /\ (\A j \in 1..5 : z[j] = 0)
        /\ \A j \in 1..11 : z[5 + j] = e[j]
    <3>1. /\ z \in Seq(0..15) /\ Len(z) = 5 + Len(e) /\ (\A j \in 1..5 : z[j] = 0)
          /\ \A j \in 1..Len(e) : z[5 + j] = e[j]
      BY <1>3, Prefixed
    <3> HIDE DEF z
    <3> QED
      BY <1>3, <3>1
  <2> HIDE DEF z
  <2>2. PICK m \in 6..7 : m = 5 + k
    OBVIOUS
  <2>3. z[m] = e[k] /\ m \in 1..Len(z)
    BY <2>1, <2>2
  <2>4. z[6] = e[1]
    <3>1. z[5 + 1] = e[1]
      BY <2>1
    <3> QED
      BY <3>1
  <2>5. \A j \in 1..(m - 1) : z[j] = 0
    <3>1. ASSUME NEW j \in 1..(m - 1) PROVE z[j] = 0
      <4>1. CASE j \in 1..5
        BY <2>1, <4>1
      <4>2. CASE j = 6
        BY <1>2, <2>2, <2>4, <4>2
      <4> QED
        BY <4>1, <4>2
    <3> QED
      BY <3>1
  <2>6. /\ Ixia!TrimLeft(z) \in Seq(0..15)
        /\ Len(Ixia!TrimLeft(z)) = Len(z) - m + 1
        /\ \A j \in 1..(Len(z) - m + 1) : Ixia!TrimLeft(z)[j] = z[m + j - 1]
    BY <1>2, <2>1, <2>3, <2>5, TrimIs
  <2>7. Len(z) - m + 1 = 12 - k
    BY <2>1, <2>2
  <2>8. ASSUME NEW j \in 1..(12 - k) PROVE Ixia!TrimLeft(z)[j] = e[k + j - 1]
    <3>1. k + j - 1 \in 1..11 /\ m + j - 1 = 5 + (k + j - 1)
      BY <2>2
    <3>2. Ixia!TrimLeft(z)[j] = z[m + j - 1]
      BY <2>6, <2>7
    <3>3. PICK i \in 1..11 : i = k + j - 1
      BY <3>1
    <3>4. z[5 + i] = e[i]
      BY <2>1
    <3> QED
      BY <3>1, <3>2, <3>3, <3>4
  <2> QED
    BY <2>1, <2>6, <2>7, <2>8
<1>9. d = z \/ d = e \/ d = t
  BY DEF Forms
<1> HIDE DEF t, z, Good
<1>10. Good(d)
  BY <1>6, <1>7, <1>8, <1>9, Zenon
<1> QED
  BY <1>2, <1>10 DEF Good, From

\* A digit is four bits, so the bits of some digits are theirs one after the other.
LEMMA HexIs ==
  ASSUME NEW n \in 1..11, NEW t \in Seq(0..15), Len(t) = n
  PROVE  /\ Ixia!ConvertHexStringToBin(t) \in Number(4 * n)
         /\ \A i \in 1..n : \A m \in 1..4 :
              Ixia!ConvertHexStringToBin(t)[4 * i - 4 + m] = Ixia!Bits(t[i], 4)[m]
<1> DEFINE h == [j \in 1..(4 * n) |-> Ixia!Bits(t[((j - 1) \div 4) + 1], 4)[((j - 1) % 4) + 1]]
<1>1. Ixia!ConvertHexStringToBin(t) = h
  <2>1. t # << >>
    OBVIOUS
  <2> QED
    BY <2>1 DEF Ixia!ConvertHexStringToBin
<1>2. \A i \in 1..n : Ixia!Bits(t[i], 4) \in Number(4)
  <2>1. \A i \in 1..n : t[i] \in Nat
    OBVIOUS
  <2> QED
    BY <2>1, BitsType
<1>3. ASSUME NEW j \in 1..(4 * n)
      PROVE  ((j - 1) \div 4) + 1 \in 1..n /\ ((j - 1) % 4) + 1 \in 1..4
  OBVIOUS
<1>4. h \in Number(4 * n)
  <2>1. ASSUME NEW j \in 1..(4 * n)
        PROVE  Ixia!Bits(t[((j - 1) \div 4) + 1], 4)[((j - 1) % 4) + 1] \in 0..1
    <3>1. PICK i \in 1..n, m \in 1..4 : i = ((j - 1) \div 4) + 1 /\ m = ((j - 1) % 4) + 1
      BY <1>3
    <3>2. Ixia!Bits(t[i], 4) \in [1..4 -> 0..1]
      BY <1>2 DEF Number
    <3>3. Ixia!Bits(t[i], 4)[m] \in 0..1
      BY <3>2
    <3> QED
      BY <3>1, <3>3, Zenon
  <2> QED
    BY <2>1 DEF Number
<1>5. ASSUME NEW i \in 1..n, NEW m \in 1..4
      PROVE  h[4 * i - 4 + m] = Ixia!Bits(t[i], 4)[m]
  <2>1. PICK j \in 1..(4 * n) : j = 4 * i - 4 + m
    OBVIOUS
  <2>2. ((j - 1) \div 4) + 1 = i /\ ((j - 1) % 4) + 1 = m
    BY <2>1
  <2>3. h[j] = Ixia!Bits(t[((j - 1) \div 4) + 1], 4)[((j - 1) % 4) + 1]
    OBVIOUS
  <2> HIDE DEF h
  <2>4. h[j] = Ixia!Bits(t[i], 4)[m]
    BY <2>2, <2>3, Zenon
  <2> QED
    BY <2>1, <2>4, Zenon
<1> HIDE DEF h
<1> QED
  BY <1>1, <1>4, <1>5

\* Padded, a number has 44 bits, zeros first.
LEMMA PadIs ==
  ASSUME NEW n \in 0..44, NEW h \in Number(n)
  PROVE  /\ Ixia!Pad(h) \in Number(44)
         /\ \A j \in 1..(44 - n) : Ixia!Pad(h)[j] = 0
         /\ \A j \in 1..n : Ixia!Pad(h)[44 - n + j] = h[j]
<1>1. PICK o \in Nat : o = 44 - n
  OBVIOUS
<1> DEFINE z == [k \in 1..o |-> 0]
<1>2. z \in Number(o)
  BY DEF Number
<1>3. \A k \in 1..o : z[k] = 0
  OBVIOUS
<1>4. Ixia!Pad(h) = z \o h
  <2>1. Len(h) = n
    BY DEF Number
  <2> QED
    BY <1>1, <2>1 DEF Ixia!Pad
<1> HIDE DEF z
<1>5. n \in Nat
  OBVIOUS
<1>6. /\ z \o h \in Number(o + n)
      /\ \A k \in 1..o : (z \o h)[k] = z[k]
      /\ \A k \in 1..n : (z \o h)[o + k] = h[k]
  BY <1>2, <1>5, CatIs
<1>7. o + n = 44
  BY <1>1
<1>8. Ixia!Pad(h) \in Number(44)
  BY <1>4, <1>6, <1>7, Zenon
<1>9. \A j \in 1..(44 - n) : Ixia!Pad(h)[j] = 0
  BY <1>1, <1>3, <1>4, <1>6
<1>10. \A j \in 1..n : Ixia!Pad(h)[44 - n + j] = h[j]
  BY <1>1, <1>4, <1>6, Zenon
<1> QED
  BY <1>8, <1>9, <1>10

\* Numbers are told apart by their bits.
LEMMA SameNumber ==
  ASSUME NEW n \in Nat, NEW x \in Number(n), NEW y \in Number(n), \A j \in 1..n : x[j] = y[j]
  PROVE  x = y
BY DEF Number

\* A serial number is decoded to itself, however it is written.
LEMMA Decodes ==
  ASSUME NEW s \in Ixia!SerialNumber, s.week <= 53, NEW a \in Ixia!Written(s)
  PROVE  Ixia!DecodeSerialNumber(a) = s
<1>1. PICK b : b = Ixia!Code(s)
  OBVIOUS
<1>2. PICK e : e = Ixia!Encoded(s)
  OBVIOUS
<1>3. /\ e \in [1..11 -> 0..15]
      /\ \A k \in 1..11 : \A m \in 1..4 : Ixia!Bits(e[k], 4)[m] = b[4 * k - 4 + m]
      /\ e[1] = 0 => e[2] # 0 /\ \A m \in 1..4 : b[m] = 0
  BY <1>1, <1>2, EncodedIs
<1>4. b \in Number(44) /\ Ixia!Fields(b) = s
  BY <1>1, FieldsBack
<1>5. PICK p \in BOOLEAN, d \in Forms(e) : a = Ixia!Hex(p, d)
  BY <1>2 DEF Ixia!Written, Forms
<1>6. a.prefixed = p /\ a.digits = d /\ DOMAIN a = {"prefixed", "digits"}
  BY <1>5 DEF Ixia!Hex
<1>7. PICK t : t = Ixia!TrimLeft(d)
  OBVIOUS
<1>8. PICK k \in 1..2 : /\ k = 2 => e[1] = 0
                        /\ Len(d) >= 10
                        /\ t \in Seq(0..15)
                        /\ Len(t) = 12 - k
                        /\ \A j \in 1..(12 - k) : t[j] = e[k + j - 1]
  <2>1. e[1] = 0 => e[2] # 0
    BY <1>3
  <2>2. PICK k \in 1..2 : From(k, d, e)
    BY <1>3, <2>1, WrittenIs
  <2> QED
    BY <1>7, <2>2 DEF From
<1>9. t # Ixia!AllOnes
  <2> SUFFICES ASSUME t = Ixia!AllOnes
               PROVE  FALSE
    OBVIOUS
  <2>1. Len(t) = 11 /\ \A j \in 1..11 : t[j] = 15
    BY DEF Ixia!AllOnes
  <2>2. k = 1
    <3>1. 12 - k = 11
      BY <1>8, <2>1, Zenon
    <3> QED
      BY <3>1
  <2>3. \A j \in 1..11 : e[j] = 15
    BY <1>8, <2>1, <2>2
  <2>4. Ixia!Bits(15, 4)[1] = 1 /\ Ixia!Bits(15, 4)[2] = 1 /\ Ixia!Bits(15, 4)[3] = 1
        /\ Ixia!Bits(15, 4)[4] = 1
    BY DEF Ixia!Bits, Ixia!Power
  <2>5. \A j \in 1..11 : \A m \in 1..4 : b[4 * j - 4 + m] = Ixia!Bits(15, 4)[m]
    BY <1>3, <2>3
  <2>6. /\ b[4 * 3 - 4 + 3] = 1 /\ b[4 * 3 - 4 + 4] = 1 /\ b[4 * 4 - 4 + 1] = 1
        /\ b[4 * 4 - 4 + 2] = 1 /\ b[4 * 4 - 4 + 3] = 1 /\ b[4 * 4 - 4 + 4] = 1
    <3>0. 3 \in 1..11 /\ 4 \in 1..11
      OBVIOUS
    <3>1. \A m \in 1..4 : b[4 * 3 - 4 + m] = Ixia!Bits(15, 4)[m]
      BY <2>5, <3>0, Zenon
    <3>2. \A m \in 1..4 : b[4 * 4 - 4 + m] = Ixia!Bits(15, 4)[m]
      BY <2>5, <3>0, Zenon
    <3>3. 1 \in 1..4 /\ 2 \in 1..4 /\ 3 \in 1..4 /\ 4 \in 1..4
      OBVIOUS
    <3> QED
      BY <2>4, <3>1, <3>2, <3>3, Zenon
  <2>7. b[11] = 1 /\ b[12] = 1 /\ b[13] = 1 /\ b[14] = 1 /\ b[15] = 1 /\ b[16] = 1
    BY <2>6
  <2> DEFINE w == SubSeq(b, 11, 16)
  <2>8. w \in Number(6) /\ \A m \in 1..6 : w[m] = b[10 + m]
    <3>1. /\ SubSeq(b, 10 + 1, 10 + 6) \in Number(6)
          /\ \A m \in 1..6 : SubSeq(b, 10 + 1, 10 + 6)[m] = b[10 + m]
      <4>1. 44 \in Nat /\ 10 \in Nat /\ 6 \in Nat /\ 10 + 6 <= 44
        OBVIOUS
      <4> QED
        BY <1>4, <4>1, SliceIs, Zenon
    <3> QED
      BY <3>1
  <2>9. w = Ixia!Bits(s.week, 6)
    BY <1>1, CodeIs
  <2> HIDE DEF w
  <2>10. w[1] = 1 /\ w[2] = 1 /\ w[3] = 1 /\ w[4] = 1 /\ w[5] = 1 /\ w[6] = 1
    <3>1. /\ w[1] = b[10 + 1] /\ w[2] = b[10 + 2] /\ w[3] = b[10 + 3] /\ w[4] = b[10 + 4]
          /\ w[5] = b[10 + 5] /\ w[6] = b[10 + 6]
      BY <2>8
    <3> QED
      BY <2>7, <3>1
  <2>11. Ixia!ConvertBinStringToDec(w) =
           32 * w[1] + 16 * w[2] + 8 * w[3] + 4 * w[4] + 2 * w[5] + w[6]
    BY <2>8, Value6
  <2>12. PICK x \in 0..63 : x = s.week
    BY DEF Ixia!SerialNumber
  <2>13. Ixia!ConvertBinStringToDec(w) = x
    <3>1. Ixia!ConvertBinStringToDec(Ixia!Bits(x, 6)) = x
      BY Back6
    <3>2. w = Ixia!Bits(x, 6)
      BY <2>9, <2>12, Zenon
    <3> QED
      BY <3>1, <3>2, Zenon
  <2> QED
    BY <2>10, <2>11, <2>12, <2>13
<1>10. PICK n \in 10..11 : n = 12 - k
  OBVIOUS
<1>11. PICK h : h = Ixia!ConvertHexStringToBin(t)
  OBVIOUS
<1>12. /\ h \in Number(4 * n)
       /\ \A i \in 1..n : \A m \in 1..4 : h[4 * i - 4 + m] = Ixia!Bits(t[i], 4)[m]
  <2>1. n \in 1..11 /\ Len(t) = n
    BY <1>8, <1>10
  <2> QED
    BY <1>8, <1>11, <2>1, HexIs
<1>13. PICK N \in 0..44 : N = 4 * n /\ h \in Number(N) /\ Len(h) = N
  <2>1. PICK N \in 0..44 : N = 4 * n
    OBVIOUS
  <2>2. h \in Number(N)
    BY <1>12, <2>1, Zenon
  <2>3. Len(h) = N
    BY <2>2 DEF Number
  <2> QED
    BY <2>1, <2>2, <2>3
<1>14. /\ Ixia!Pad(h) \in Number(44)
       /\ \A j \in 1..(44 - N) : Ixia!Pad(h)[j] = 0
       /\ \A j \in 1..N : Ixia!Pad(h)[44 - N + j] = h[j]
  BY <1>13, PadIs
<1>15. ASSUME NEW j \in 1..44 PROVE Ixia!Pad(h)[j] = b[j]
  <2>1. PICK q \in 1..11, m \in 1..4 : j = 4 * q - 4 + m
    <3>1. ((j - 1) \div 4) + 1 \in 1..11 /\ ((j - 1) % 4) + 1 \in 1..4
          /\ j = 4 * (((j - 1) \div 4) + 1) - 4 + (((j - 1) % 4) + 1)
      OBVIOUS
    <3> QED
      BY <3>1
  <2>2. CASE k = 2 /\ q = 1
    <3>1. j = m /\ 44 - N = 4
      BY <1>10, <1>13, <2>1, <2>2
    <3>2. Ixia!Pad(h)[j] = 0
      BY <1>14, <3>1
    <3>3. b[m] = 0
      BY <1>3, <1>8, <2>2
    <3> QED
      BY <3>1, <3>2, <3>3
  <2>3. CASE ~ (k = 2 /\ q = 1)
    <3>1. PICK i \in 1..n : i = q - k + 1
      BY <1>10, <2>3
    <3>2. PICK x \in 1..N : x = 4 * i - 4 + m
      BY <1>13
    <3>3. j = 44 - N + x
      BY <1>10, <1>13, <2>1, <3>1, <3>2
    <3>4. Ixia!Pad(h)[j] = h[x]
      BY <1>14, <3>3
    <3>5. h[x] = Ixia!Bits(t[i], 4)[m]
      BY <1>12, <3>2
    <3>6. t[i] = e[q]
      BY <1>8, <1>10, <3>1
    <3>7. Ixia!Bits(e[q], 4)[m] = b[j]
      BY <1>3, <2>1
    <3> QED
      BY <3>4, <3>5, <3>6, <3>7, Zenon
  <2> QED
    BY <2>2, <2>3
<1>16. Ixia!Pad(h) = b
  <2>1. 44 \in Nat
    OBVIOUS
  <2> QED
    BY <1>4, <1>14, <1>15, <2>1, SameNumber, Zenon
<1>17. Len(h) <= 44
  BY <1>13
<1>18. ~ (Len(d) < 10)
  BY <1>8 
<1>19. Ixia!DecodeSerialNumber(a) = Ixia!Fields(Ixia!Pad(h))
  <2>1. "text" \notin DOMAIN a /\ "digits" \in DOMAIN a
    BY <1>6
  <2>2. Ixia!DecodeSerialNumber(a) =
          IF Len(d) < 10 \/ (p /\ t = Ixia!AllOnes) THEN Ixia!Error("Invalid")
          ELSE IF Len(h) > 44 THEN Ixia!Error("0") ELSE Ixia!Fields(Ixia!Pad(h))
    BY <1>6, <1>7, <1>11, <2>1 DEF Ixia!DecodeSerialNumber
  <2>3. ~ (Len(h) > 44)
    BY <1>13
  <2> QED
    BY <1>9, <1>18, <2>2, <2>3
<1> QED
  BY <1>4, <1>16, <1>19

\* What the survey may show.
Shown(x) == "text" \in DOMAIN x \/ "error" \in DOMAIN x \/ x \in Ixia!SerialNumber

\* The value of a field fits in its bits.
LEMMA FieldType ==
  ASSUME NEW b \in Number(44), NEW o \in 0..38, NEW w \in 5..7, o + w <= 44
  PROVE  /\ w = 5 => Ixia!ConvertBinStringToDec(SubSeq(b, o + 1, o + w)) \in 0..31
         /\ w = 6 => Ixia!ConvertBinStringToDec(SubSeq(b, o + 1, o + w)) \in 0..63
         /\ w = 7 => Ixia!ConvertBinStringToDec(SubSeq(b, o + 1, o + w)) \in 0..127
<1>1. 44 \in Nat /\ o \in Nat /\ w \in Nat
  OBVIOUS
<1>2. PICK t : t = SubSeq(b, o + 1, o + w)
  OBVIOUS
<1>3. t \in Number(w)
  BY <1>1, <1>2, SliceIs, Zenon
<1>4. w = 5 => Ixia!ConvertBinStringToDec(t) \in 0..31
  BY <1>3, Value5
<1>5. w = 6 => Ixia!ConvertBinStringToDec(t) \in 0..63
  BY <1>3, Value6
<1>6. w = 7 => Ixia!ConvertBinStringToDec(t) \in 0..127
  BY <1>3, Value7
<1> QED
  BY <1>2, <1>4, <1>5, <1>6, Zenon

\* Whatever the bits, they are a serial number, or the country is unknown.
LEMMA FieldsType ==
  ASSUME NEW b \in Number(44)
  PROVE  Shown(Ixia!Fields(b))
<1> DEFINE field(from, to) == Ixia!Field(b, from, to)
           found == {i \in 1..13 : Ixia!CountryCode[i] = field(0, 4)}
<1>1. CASE found = {}
  <2>1. Ixia!Fields(b) = Ixia!Error("0")
    BY <1>1 DEF Ixia!Fields
  <2> QED
    BY <2>1 DEF Ixia!Error, Shown
<1>2. CASE found # {}
  <2>1. /\ field(5, 9) = Ixia!ConvertBinStringToDec(SubSeq(b, 5 + 1, 5 + 5))
        /\ field(10, 15) = Ixia!ConvertBinStringToDec(SubSeq(b, 10 + 1, 10 + 6))
        /\ field(16, 22) = Ixia!ConvertBinStringToDec(SubSeq(b, 16 + 1, 16 + 7))
        /\ field(23, 29) = Ixia!ConvertBinStringToDec(SubSeq(b, 23 + 1, 23 + 7))
        /\ field(30, 36) = Ixia!ConvertBinStringToDec(SubSeq(b, 30 + 1, 30 + 7))
        /\ field(37, 43) = Ixia!ConvertBinStringToDec(SubSeq(b, 37 + 1, 37 + 7))
    BY DEF Ixia!Field
  <2>2. field(5, 9) \in 0..31 /\ field(10, 15) \in 0..63
    BY <2>1, FieldType
  <2>3. /\ field(16, 22) \in 0..127 /\ field(23, 29) \in 0..127
        /\ field(30, 36) \in 0..127 /\ field(37, 43) \in 0..127
    BY <2>1, FieldType
  <2>4. Ixia!Fields(b) = [country |-> Ixia!Countries[CHOOSE i \in found : TRUE],
                          year     |-> field(5, 9) + 2001 - 1960,
                          week     |-> field(10, 15),
                          product  |-> <<field(16, 22), field(23, 29)>>,
                          sequence |-> <<field(30, 36), field(37, 43)>>]
    BY <1>2 DEF Ixia!Fields
  <2> HIDE DEF field
  <2>5. PICK i \in 1..13 : i = CHOOSE j \in found : TRUE
    BY <1>2
  <2> HIDE DEF found
  <2>6. PICK y \in 41..72 : y = field(5, 9) + 2001 - 1960
    BY <2>2
  <2>7. Ixia!Fields(b) \in Ixia!SerialNumber
    <3>1. PICK w \in 0..63 : w = field(10, 15)
      BY <2>2
    <3>2. PICK p1 \in 0..127, p2 \in 0..127 : p1 = field(16, 22) /\ p2 = field(23, 29)
      BY <2>3
    <3>3. PICK q1 \in 0..127, q2 \in 0..127 : q1 = field(30, 36) /\ q2 = field(37, 43)
      BY <2>3
    <3>4. Ixia!Fields(b) = [country |-> Ixia!Countries[i], year |-> y, week |-> w,
                            product |-> <<p1, p2>>, sequence |-> <<q1, q2>>]
      BY <2>4, <2>5, <2>6, <3>1, <3>2, <3>3
    <3>5. Ixia!Countries[i] \in {Ixia!Countries[j] : j \in 1..13}
      OBVIOUS
    <3> QED
      BY <3>4, <3>5 DEF Ixia!SerialNumber
  <2> QED
    BY <2>7 DEF Shown
<1> QED
  BY <1>1, <1>2

\* Trimmed digits are digits: there is a first that is not zero.
LEMMA TrimType ==
  ASSUME NEW s \in Seq(0..15)
  PROVE  Ixia!TrimLeft(s) \in Seq(0..15)
<1> DEFINE nonzero == {j \in 1..Len(s) : s[j] # 0}
<1>1. CASE nonzero = {}
  BY <1>1 DEF Ixia!TrimLeft
<1>2. CASE nonzero # {}
  <2>1. nonzero \subseteq Nat
    OBVIOUS
  <2>2. PICK k \in nonzero : \A j \in nonzero : k <= j
    <3> HIDE DEF nonzero
    <3>1. \E k \in nonzero : \A j \in nonzero : ~ (<<j, k>> \in OpToRel(<, Nat))
      BY <1>2, <2>1, NatLessThanWellFounded, WFMin, Zenon DEF OpToRel
    <3>2. ASSUME NEW k \in nonzero, NEW j \in nonzero, ~ (<<j, k>> \in OpToRel(<, Nat))
          PROVE  k <= j
      <4>1. j \in Nat /\ k \in Nat
        BY <2>1
      <4>2. ~ (j < k)
        BY <3>2, <4>1, Zenon DEF OpToRel
      <4> QED
        BY <4>1, <4>2
    <3> QED
      BY <3>1, <3>2, Zenon
  <2>3. \A j \in 1..(k - 1) : s[j] = 0
    <3>1. ASSUME NEW j \in 1..(k - 1), s[j] # 0 PROVE FALSE
      <4>1. k \in 1..Len(s)
        OBVIOUS
      <4>2. j \in 1..Len(s) /\ j < k
        BY <4>1
      <4>3. j \in nonzero
        BY <3>1, <4>2
      <4> QED
        BY <2>2, <4>1, <4>2, <4>3
    <3> QED
      BY <3>1
  <2> QED
    BY <2>3, TrimIs
<1> QED
  BY <1>1, <1>2

\* Every report is decoded to a serial number or to an error.
LEMMA DecodeType ==
  ASSUME NEW a \in Ixia!Report
  PROVE  Shown(Ixia!DecodeSerialNumber(a))
<1>1. a.prefixed \in BOOLEAN /\ a.digits \in Seq(0..15) /\ DOMAIN a = {"prefixed", "digits"}
  BY DEF Ixia!Report, Ixia!Nibble
<1>2. PICK t \in Seq(0..15) : t = Ixia!TrimLeft(a.digits)
  BY <1>1, TrimType
<1>3. PICK h : h = Ixia!ConvertHexStringToBin(t)
  OBVIOUS
<1>4. Ixia!DecodeSerialNumber(a) =
        IF Len(a.digits) < 10 \/ (a.prefixed /\ t = Ixia!AllOnes) THEN Ixia!Error("Invalid")
        ELSE IF Len(h) > 44 THEN Ixia!Error("0") ELSE Ixia!Fields(Ixia!Pad(h))
  <2>1. "text" \notin DOMAIN a /\ "digits" \in DOMAIN a
    BY <1>1
  <2> QED
    BY <1>2, <1>3, <2>1 DEF Ixia!DecodeSerialNumber
<1>5. \A e : Shown(Ixia!Error(e))
  BY DEF Ixia!Error, Shown
<1>6. ASSUME ~ (Len(h) > 44)
      PROVE  Shown(Ixia!Fields(Ixia!Pad(h)))
  <2>1. \E n \in 0..44 : h \in Number(n)
    <3>1. CASE t = << >>
      <4>1. h = <<0>>
        BY <1>3, <3>1 DEF Ixia!ConvertHexStringToBin
      <4>2. h \in Number(1)
        BY <4>1 DEF Number
      <4> QED
        BY <4>2
    <3>2. CASE t # << >>
      <4>1. Len(h) = 4 * Len(t)
        BY <1>3, <3>2 DEF Ixia!ConvertHexStringToBin
      <4>2. PICK n \in 1..11 : n = Len(t)
        <5>1. Len(t) \in Nat /\ Len(t) # 0
          BY <3>2
        <5>2. ~ (4 * Len(t) > 44)
          BY <1>6, <4>1
        <5>3. PICK n \in Nat : n = Len(t)
          BY <5>1
        <5>4. n \in 1..11
          <6>1. n # 0 /\ ~ (4 * n > 44)
            BY <5>1, <5>2, <5>3, Zenon
          <6> QED
            BY <6>1
        <5> QED
          BY <5>3, <5>4
      <4>3. h \in Number(4 * n)
        BY <1>3, <4>2, HexIs
      <4>4. 4 * n \in 0..44
        OBVIOUS
      <4> QED
        BY <4>3, <4>4, Zenon
    <3> QED
      BY <3>1, <3>2
  <2>2. Ixia!Pad(h) \in Number(44)
    BY <2>1, PadIs
  <2> QED
    BY <2>2, FieldsType
<1> QED
  BY <1>4, <1>5, <1>6

\* The types, and the number shown is the one made.
SurveyTyped == Ixia!TypeOK /\ ShowsSerialNumbers

\* What a chassis reports is decoded to what it was given, or to something that can be shown.
LEMMA Reported ==
  /\ \A s \in Made : \A a \in Ixia!Written(s) : Ixia!DecodeSerialNumber(a) = s
  /\ \A a \in Reports : Shown(Ixia!DecodeSerialNumber(a))
  /\ Shown(Ixia!DecodeSerialNumber(Ixia!Text("XM")))
  /\ Shown(Ixia!DecodeSerialNumber(Ixia!Text("N/A")))
<1>1. \A s \in Made : \A a \in Ixia!Written(s) : Ixia!DecodeSerialNumber(a) = s
  <2>1. ASSUME NEW s \in Made, NEW a \in Ixia!Written(s)
        PROVE  Ixia!DecodeSerialNumber(a) = s
    <3>1. s \in Ixia!SerialNumber /\ s.week <= 53
      BY SurveyAssumption
    <3> QED
      BY <3>1, Decodes, Zenon
  <2> QED
    BY <2>1, Zenon
<1>2. \A a \in Reports : Shown(Ixia!DecodeSerialNumber(a))
  BY SurveyAssumption, DecodeType, Zenon
<1>3. ASSUME NEW t
      PROVE  Shown(Ixia!DecodeSerialNumber(Ixia!Text(t)))
  <2>1. PICK a : a = Ixia!Text(t)
    OBVIOUS
  <2>2. "text" \in DOMAIN a /\ "digits" \notin DOMAIN a
    BY <2>1 DEF Ixia!Text
  <2>3. Ixia!DecodeSerialNumber(a) = IF a.text = "XM" THEN a ELSE Ixia!Error("Invalid")
    BY <2>2 DEF Ixia!DecodeSerialNumber
  <2>4. Shown(Ixia!Error("Invalid")) /\ Shown(a)
    BY <2>2 DEF Shown, Ixia!Error
  <2> QED
    BY <2>1, <2>3, <2>4, Zenon
<1> QED
  BY <1>1, <1>2, <1>3, Zenon

\* Both are inductive: whatever is made of a report is forgotten with it.
LEMMA SurveyTypedNext ==
  ASSUME SurveyTyped, Ixia!Next
  PROVE  SurveyTyped'
<1> USE OneShotsAssumption
<1> DEFINE cleared == made' = Ixia!None /\ serial' = Ixia!None
           same == UNCHANGED <<made, serial>>
           Loop == /\ ctrl \in 1..(Controllers + 1)
                   /\ part \in Ixia!Steps
                   /\ section \in [1..Controllers -> Ixia!Sections]
                   /\ script \in {"runs", "ended", "died"}
           Numbers == /\ made \in Made \cup {Ixia!None}
                      /\ Shown(serial)
                      /\ made # Ixia!None => serial = made
<1>1. SurveyTyped <=> Loop /\ Numbers
  BY DEF SurveyTyped, Ixia!TypeOK, ShowsSerialNumbers, Ixia!ShowsSerialNumbers, Shown
<1>2. SurveyTyped' <=> Loop' /\ Numbers'
  BY DEF SurveyTyped, Ixia!TypeOK, ShowsSerialNumbers, Ixia!ShowsSerialNumbers, Shown
<1>3. Loop /\ Numbers
  BY <1>1
<1>4. Loop'
  <2>1. ASSUME NEW how \in {"unreachable", "complete"}, ctrl <= Controllers,
               Ixia!NextController(how)
        PROVE  Loop'
    <3>1. /\ section' = [section EXCEPT ![ctrl] = how] /\ ctrl' = ctrl + 1 /\ script' = script
          /\ part' = "version" /\ ctrl \in 1..Controllers
      BY <1>3, <2>1 DEF Ixia!NextController
    <3>2. section' \in [1..Controllers -> Ixia!Sections]
      BY <1>3, <3>1 DEF Ixia!Sections
    <3> QED
      BY <1>3, <3>1, <3>2 DEF Ixia!Steps
  <2>2. CASE Ixia!Unreachable \/ Ixia!Complete
    BY <2>1, <2>2 DEF Ixia!Unreachable, Ixia!Complete, Ixia!At
  <2>3. CASE Ixia!Reached
    <3>1. /\ section' = [section EXCEPT ![ctrl] = "begun"] /\ ctrl' = ctrl /\ script' = script
          /\ part' = "system"
      BY <2>3 DEF Ixia!Reached
    <3>2. section' \in [1..Controllers -> Ixia!Sections]
      BY <1>3, <3>1 DEF Ixia!Sections
    <3> QED
      BY <1>3, <3>1, <3>2 DEF Ixia!Steps
  <2>4. CASE Ixia!Dies \/ Ixia!Close
    BY <1>3, <2>4 DEF Ixia!Dies, Ixia!Close
  <2>5. CASE Ixia!Goes
    BY <1>3, <2>5 DEF Ixia!Goes, Ixia!After, Ixia!Steps
  <2>6. CASE Ixia!Chassis \/ Ixia!NextChassis
    BY <1>3, <2>6 DEF Ixia!Chassis, Ixia!NextChassis
  <2> QED
    BY <2>2, <2>3, <2>4, <2>5, <2>6 DEF Ixia!Next, Ixia!Progress
<1>5. Numbers'
  <2>1. cleared => Numbers'
    BY DEF Shown, Ixia!None, Ixia!Text
  <2>2. same => Numbers'
    BY <1>3 DEF Shown
  <2>3. CASE Ixia!Chassis
    <3>1. CASE \E s \in Made :
                 made' = s /\ \E a \in Ixia!Written(s) : serial' = Ixia!DecodeSerialNumber(a)
      <4>1. PICK s \in Made : made' = s /\ serial' = s
        BY <3>1, Reported
      <4>2. Shown(s)
        BY SurveyAssumption DEF Shown
      <4> QED
        BY <4>1, <4>2 DEF Shown
    <3>2. CASE /\ made' = Ixia!None
               /\ \E a \in Reports \cup {Ixia!Text("XM"), Ixia!Text("N/A")} :
                    serial' = Ixia!DecodeSerialNumber(a)
      <4>1. Shown(serial')
        BY <3>2, Reported, Zenon
      <4> QED
        BY <3>2, <4>1 DEF Shown
    <3> QED
      BY <2>3, <3>1, <3>2 DEF Ixia!Chassis
  <2>4. CASE Ixia!Unreachable \/ Ixia!Complete \/ Ixia!Goes \/ Ixia!NextChassis
    <3>1. cleared
      BY <2>4 DEF Ixia!Unreachable, Ixia!Complete, Ixia!Goes, Ixia!NextChassis, Ixia!NextController
    <3> QED
      BY <2>1, <3>1
  <2>5. CASE Ixia!Reached \/ Ixia!Dies \/ Ixia!Close
    <3>1. same
      BY <2>5 DEF Ixia!Reached, Ixia!Dies, Ixia!Close
    <3> QED
      BY <2>2, <3>1
  <2> QED
    BY <2>3, <2>4, <2>5 DEF Ixia!Next, Ixia!Progress
<1> QED
  BY <1>2, <1>4, <1>5

LEMMA SurveyTypedAlways == OneSpec => []SurveyTyped
<1>1. OneInit => SurveyTyped
  <2> SUFFICES ASSUME Ixia!Init PROVE SurveyTyped
    BY DEF OneInit
  <2>1. ctrl \in 1..(Controllers + 1) /\ section \in [1..Controllers -> Ixia!Sections]
    BY OneShotsAssumption DEF Ixia!Init, Ixia!Sections
  <2>2. made = Ixia!None /\ serial = Ixia!None /\ part = "version" /\ script \in {"runs", "died"}
    BY DEF Ixia!Init
  <2>3. "text" \in DOMAIN serial
    BY <2>2 DEF Ixia!None, Ixia!Text
  <2> QED
    BY <2>1, <2>2, <2>3
       DEF SurveyTyped, Ixia!TypeOK, Ixia!Steps, ShowsSerialNumbers, Ixia!ShowsSerialNumbers
<1>2. SurveyTyped /\ [OneNext]_allVars => SurveyTyped'
  <2> SUFFICES ASSUME SurveyTyped, [OneNext]_allVars PROVE SurveyTyped'
    OBVIOUS
  <2>1. CASE UNCHANGED surveyVars
    BY <2>1 DEF surveyVars, SurveyTyped, Ixia!TypeOK, ShowsSerialNumbers, Ixia!ShowsSerialNumbers
  <2> QED
    BY <2>1, SurveyTypedNext DEF OneNext, RowsStep, CallStep, HttpStep, SurveyStep, allVars
<1> QED
  BY <1>1, <1>2, PTL DEF OneSpec

\* Whatever serial numbers chassis are given, all of them are shown as they are
\* (get_cisco_ixn2x_info.tcl:157-268).
THEOREM SerialNumbersShown == OneSpec => []ShowsSerialNumbers
<1>1. SurveyTyped => ShowsSerialNumbers
  BY DEF SurveyTyped
<1> QED
  BY <1>1, SurveyTypedAlways, PTL

\* What is proved of each program covers its types.
THEOREM AllTyped == OneSpec => []OneTypeOK
<1>1. RowsOK /\ CallOK /\ HttpOK /\ SurveyTyped => OneTypeOK
  BY HttpTypes DEF RowsOK, CallOK, SurveyTyped, OneTypeOK
<1> QED
  BY <1>1, RowsAlways, CallAlways, HttpAlways, SurveyTypedAlways, PTL
=============================================================================
