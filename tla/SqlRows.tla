------------------------------ MODULE SqlRows ------------------------------
(***************************************************************************)
(* golang/gorm_mysql_db.go: main opens the database, reads the rows of one *)
(* query to the end, and calls run_sql_command for three more, which takes *)
(* the first row and neither reads on nor closes the rows.  No error after *)
(* that of gorm.Open is looked at.                                         *)
(*                                                                         *)
(* database/sql and MySQL are external.  A query takes an idle connection  *)
(* of the pool, or a new one; its connection is idle again once its rows   *)
(* have been read to the end.  The pool opens as many as are asked for;    *)
(* MySQL refuses one when all of its connections are taken, by others too. *)
(***************************************************************************)
EXTENDS Integers, FiniteSets

CONSTANT Limit    \* max_connections of the server

ASSUME SqlRowsAssumption == Limit \in Nat

VARIABLES
  query,     \* 0: the ping of gorm.Open; 1: main's own; 2..4: run_sql_command's
  step,      \* the query wants a connection, waits for the reply, or reads rows
  idle,      \* free connections of the pool
  cut,       \* those of them that the server has closed
  held,      \* queries that are over and whose rows are still open
  others,    \* connections of the server that others have
  outcome    \* how the program ended, "runs" before

vars == <<query, step, idle, cut, held, others, outcome>>

TypeOK ==
  /\ query \in 0..4
  /\ step \in {"connection", "reply", "rows"}
  /\ idle \in Nat /\ cut \in 0..idle
  /\ held \subseteq 0..4
  /\ others \in 0..Limit
  /\ outcome \in {"runs", "done", "refused", "lost"}

Init ==
  /\ query = 0
  /\ step = "connection"
  /\ idle = 0 /\ cut = 0
  /\ held = {}
  /\ others \in 0..Limit
  /\ outcome = "runs"

\* The current query has a connection.
Using == step # "connection" /\ outcome = "runs"

\* The program's connections, and those of them that the server knows of.
Pool == idle + Cardinality(held) + (IF Using THEN 1 ELSE 0)
Own  == Pool - cut
Room == Own + others < Limit

-----------------------------------------------------------------------------
(* The pool *)

TakeIdle ==
  /\ step = "connection" /\ outcome = "runs"
  /\ idle > cut
  /\ idle' = idle - 1
  /\ step' = "reply"
  /\ UNCHANGED <<query, cut, held, others, outcome>>

\* An idle connection turns out to be closed: another one is tried.
DropCut ==
  /\ step = "connection" /\ outcome = "runs"
  /\ cut > 0
  /\ idle' = idle - 1
  /\ cut' = cut - 1
  /\ UNCHANGED <<query, step, held, others, outcome>>

OpenNew ==
  /\ step = "connection" /\ outcome = "runs"
  /\ idle = 0 /\ Room
  /\ step' = "reply"
  /\ UNCHANGED <<query, idle, cut, held, others, outcome>>

\* main prints the error of gorm.Open and returns; after an error of any other query
\* the rows are nil, and the program panics.
Ends(how) ==
  /\ outcome' = how
  /\ UNCHANGED <<query, step, idle, cut, held, others>>

Refused ==
  /\ step = "connection" /\ outcome = "runs"
  /\ idle = 0 /\ ~Room
  /\ Ends("refused")

\* The server cannot be reached, or the connection breaks before the reply.
Lost ==
  /\ outcome = "runs"
  /\ (step = "connection" /\ idle = 0) \/ step = "reply"
  /\ Ends("lost")

-----------------------------------------------------------------------------
(* main and run_sql_command *)

\* Seeded bugs, here and below: PROJECT.json says which definition each replaces.
BugNextQuery ==                 \* a call too many
  IF query = 5 THEN outcome' = "done" /\ UNCHANGED <<query, step>>
               ELSE query' = query + 1 /\ step' = "connection" /\ UNCHANGED outcome

\* The query is over: the next one, or the end of main.
NextQuery ==
  IF query = 4 THEN outcome' = "done" /\ UNCHANGED <<query, step>>
               ELSE query' = query + 1 /\ step' = "connection" /\ UNCHANGED outcome

\* The ping gives its connection back.
Pong ==
  /\ step = "reply" /\ outcome = "runs" /\ query = 0
  /\ idle' = idle + 1
  /\ NextQuery
  /\ UNCHANGED <<cut, held, others>>

Reply ==
  /\ step = "reply" /\ outcome = "runs" /\ query # 0
  /\ step' = "rows"
  /\ UNCHANGED <<query, idle, cut, held, others, outcome>>

BugReadsOne == query # 0        \* main reads one row too

\* run_sql_command reads one row and returns: its rows stay open.
ReadsOne == query \in 2..4

FirstRow ==
  /\ step = "rows" /\ outcome = "runs"
  /\ ReadsOne
  /\ held' = held \cup {query}
  /\ NextQuery
  /\ UNCHANGED <<idle, cut, others>>

\* There is no row, or, for main, no further one: Next closes the rows.
NoMoreRows ==
  /\ step = "rows" /\ outcome = "runs"
  /\ idle' = idle + 1
  /\ NextQuery
  /\ UNCHANGED <<cut, held, others>>

\* The connection breaks while rows are read: Next returns false here, too.
RowsLost ==
  /\ step = "rows" /\ outcome = "runs"
  /\ NextQuery
  /\ UNCHANGED <<idle, cut, held, others>>

-----------------------------------------------------------------------------
(* The server *)

\* The server closes a connection that has been idle for too long.
CutIdle ==
  /\ outcome = "runs" /\ cut < idle
  /\ cut' = cut + 1
  /\ UNCHANGED <<query, step, idle, held, others, outcome>>

OthersConnect ==
  /\ outcome = "runs" /\ Room
  /\ others' = others + 1
  /\ UNCHANGED <<query, step, idle, cut, held, outcome>>

OthersLeave ==
  /\ outcome = "runs" /\ others > 0
  /\ others' = others - 1
  /\ UNCHANGED <<query, step, idle, cut, held, outcome>>

-----------------------------------------------------------------------------

Program ==
  \/ TakeIdle \/ DropCut \/ OpenNew \/ Refused \/ Lost
  \/ Pong \/ Reply \/ FirstRow \/ NoMoreRows \/ RowsLost

Next == Program \/ CutIdle \/ OthersConnect \/ OthersLeave

Spec == Init /\ [][Next]_vars

-----------------------------------------------------------------------------
(* Properties *)

\* Although run_sql_command leaves its rows open, the three calls never hold more than
\* three connections, the idle one included: main has given its own back
\* (gorm_mysql_db.go:64, 72-74).  A server with room for three refuses none.
ThreeSuffice ==
  /\ Pool <= 3
  /\ outcome = "refused" => others + 3 > Limit
=============================================================================
