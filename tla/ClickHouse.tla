----------------------------- MODULE ClickHouse -----------------------------
(***************************************************************************)
(* golang/clickhouse/clickhouse.go: a program that creates the table       *)
(* users, inserts, updates and "deletes" one row in it and drops it, one   *)
(* HTTP request at a time.  Anything but status 200 is a panic; the        *)
(* operator may run the program again, or twice at a time.                 *)
(*                                                                         *)
(* ClickHouse is external: a ReplacingMergeTree ordered by name keeps      *)
(* every inserted row until a merge, in the background or forced by        *)
(* OPTIMIZE FINAL, leaves the last of them; OPTIMIZE is taken to wait for  *)
(* its merge.  All rows have the name John, so a table is the sequence of  *)
(* its row versions.  A request whose client is gone may still be served,  *)
(* later.  An answer's status decides what the program does; that an error *)
(* in reading the body after a status 200 goes unnoticed is left out.      *)
(***************************************************************************)
EXTENDS Integers, SequencesExt

CONSTANTS
  Clients,    \* terminals the program is run from
  MaxRuns,    \* bound: runs in all
  NoTable     \* the table users does not exist

ASSUME ClickHouseAssumption ==
  /\ MaxRuns \in Nat
  /\ NoTable \notin Seq({"boston", "cambridge", "blank"})

VARIABLES
  table,      \* row versions of users, oldest first, or NoTable
  late,       \* queries in flight whose client is gone
  runs,       \* runs begun
  pc,         \* pc[c]: index in Script of the query the client is at
  phase,      \* phase[c]: where in postHttpRequest the client is
  reply,      \* reply[c]: what the server answered from
  alone,      \* alone[c]: only this run was served since it began (no variable of the code)
  since       \* since[c]: what others have made of the table since the run at c created it
              \* or inserted its last version (no variable of the code)

vars == <<table, late, runs, pc, phase, reply, alone, since>>

\* Seeded bugs, here and below: PROJECT.json says which definition each replaces.
BugScript ==                                  \* the table is dropped before it is truncated
  <<"create", "exists", "count", "rows",
    "insert", "cleanup", "count", "rows",
    "update", "cleanup", "count", "rows", "final",
    "delete", "cleanup", "count", "rows", "final",
    "drop", "truncate", "exists">>

\* main, each of its functions spelled out in its queries.
Script == <<"create", "exists", "count", "rows",
            "insert", "cleanup", "count", "rows",
            "update", "cleanup", "count", "rows", "final",
            "delete", "cleanup", "count", "rows", "final",
            "truncate", "drop", "exists">>

\* The row each statement inserts: a row is deleted by inserting a blank one.
Version == [insert |-> "boston", update |-> "cambridge", delete |-> "blank"]
Inserts == DOMAIN Version
Rows    == {"boston", "cambridge", "blank"}

TypeOK ==
  /\ table \in Seq(Rows) \cup {NoTable}
  /\ late \subseteq ToSet(Script) \X Clients \X (1..MaxRuns)
  /\ runs \in 0..MaxRuns
  /\ pc \in [Clients -> 1..Len(Script)]
  /\ phase \in [Clients -> {"ready", "waiting", "answered", "stopped", "done"}]
  /\ reply \in [Clients -> [ok : BOOLEAN, exists : BOOLEAN, rows : Seq(Rows)]]
  /\ alone \in [Clients -> BOOLEAN]
  /\ since \in [Clients -> {"own", "changed", "dropped"}]

Init ==
  /\ table = NoTable
  /\ late = {}
  /\ runs = 0
  /\ pc = [c \in Clients |-> 1]
  /\ phase = [c \in Clients |-> "stopped"]
  /\ reply = [c \in Clients |-> [ok |-> TRUE, exists |-> FALSE, rows |-> << >>]]
  /\ alone = [c \in Clients |-> TRUE]
  /\ since = [c \in Clients |-> "own"]

-----------------------------------------------------------------------------
(* The server *)

BugRefused(q) == IF table = NoTable THEN q \notin {"create", "exists"}
                 ELSE q = "create"           \* no IF NOT EXISTS

\* Every statement but these two fails without the table.
Refused(q) == table = NoTable /\ q \notin {"create", "exists"}

BugCleanup(t) == t                            \* OPTIMIZE TABLE users, without FINAL

\* cleanupOutdatedRows: OPTIMIZE TABLE users FINAL
Cleanup(t) == IF t = << >> THEN t ELSE <<Last(t)>>

\* The table after a query.
After(q) ==
  IF Refused(q) THEN table
  ELSE CASE q = "create"     -> IF table = NoTable THEN << >> ELSE table
         [] q \in Inserts    -> Append(table, Version[q])
         [] q = "cleanup"    -> Cleanup(table)
         [] q = "truncate"   -> << >>
         [] q = "drop"       -> NoTable
         [] OTHER            -> table

Execute(q) == table' = After(q)

\* since for a run of which it is s, when another's q is executed, and when its own is.
AfterOthers(s, q) ==
  IF Refused(q) \/ q \notin Inserts \cup {"truncate", "drop"} THEN s
  ELSE IF q = "drop" \/ s = "dropped" THEN "dropped" ELSE "changed"

AfterOwn(s, q) == IF ~Refused(q) /\ q \in Inserts \cup {"create"} THEN "own" ELSE s

Serve(c) ==
  /\ phase[c] = "waiting"
  /\ Execute(Script[pc[c]])
  /\ phase' = [phase EXCEPT ![c] = "answered"]
  /\ reply' = [reply EXCEPT ![c] =
       [ok |-> ~Refused(Script[pc[c]]), exists |-> table # NoTable,
        rows |-> IF table = NoTable THEN << >> ELSE table]]
  /\ alone' = [d \in Clients |-> alone[d] /\ d = c]
  /\ since' = [d \in Clients |->
       IF d = c THEN AfterOwn(since[d], Script[pc[c]]) ELSE AfterOthers(since[d], Script[pc[c]])]
  /\ UNCHANGED <<late, runs, pc>>

\* A query of a client that is gone is served all the same, or never.
ServeLate ==
  \E x \in late :
    /\ late' = late \ {x}
    /\ \/ /\ Execute(x[1])
          /\ alone' = [c \in Clients |-> FALSE]
          /\ since' = [c \in Clients |-> AfterOthers(since[c], x[1])]
       \/ UNCHANGED <<table, alone, since>>
    /\ UNCHANGED <<runs, pc, phase, reply>>

\* A background merge replaces neighbouring parts by the last of their rows.
Merge ==
  /\ table # NoTable
  /\ \E i \in 1..(Len(table) - 1) : table' = RemoveAt(table, i)
  /\ UNCHANGED <<late, runs, pc, phase, reply, alone, since>>

-----------------------------------------------------------------------------
(* The program *)

Start(c) ==
  /\ phase[c] \in {"stopped", "done"}
  /\ runs < MaxRuns
  /\ runs' = runs + 1
  /\ pc' = [pc EXCEPT ![c] = 1]
  /\ phase' = [phase EXCEPT ![c] = "ready"]
  /\ alone' = [alone EXCEPT ![c] = TRUE]
  /\ since' = [since EXCEPT ![c] = "own"]
  /\ UNCHANGED <<table, late, reply>>

\* postHttpRequest: the request is sent.
Post(c) ==
  /\ phase[c] = "ready"
  /\ phase' = [phase EXCEPT ![c] = "waiting"]
  /\ UNCHANGED <<table, late, runs, pc, reply, alone, since>>

\* Status 200: on with the next query, or the end of main.
Returns(c) ==
  /\ phase[c] = "answered"
  /\ reply[c].ok
  /\ IF pc[c] = Len(Script)
     THEN /\ phase' = [phase EXCEPT ![c] = "done"]
          /\ UNCHANGED pc
     ELSE /\ phase' = [phase EXCEPT ![c] = "ready"]
          /\ pc' = [pc EXCEPT ![c] = @ + 1]
  /\ UNCHANGED <<table, late, runs, reply, alone, since>>

\* Any other status: panic.
Panics(c) ==
  /\ phase[c] = "answered"
  /\ ~reply[c].ok
  /\ phase' = [phase EXCEPT ![c] = "stopped"]
  /\ UNCHANGED <<table, late, runs, pc, reply, alone, since>>

\* client.Do returns an error, or the program is killed: the request, or its
\* answer, is lost or still under way.
Dies(c) ==
  /\ phase[c] \in {"ready", "waiting", "answered"}
  /\ phase' = [phase EXCEPT ![c] = "stopped"]
  /\ late' = IF phase[c] = "waiting" THEN late \cup {<<Script[pc[c]], c, runs>>} ELSE late
  /\ UNCHANGED <<table, runs, pc, reply, alone, since>>

-----------------------------------------------------------------------------

Next ==
  \/ \E c \in Clients : Start(c) \/ Post(c) \/ Serve(c) \/ Returns(c) \/ Panics(c) \/ Dies(c)
  \/ ServeLate \/ Merge

Spec == Init /\ [][Next]_vars

-----------------------------------------------------------------------------
(* Properties *)

Answered(c, q) == phase[c] = "answered" /\ Script[pc[c]] = q

\* The version the last insert among the first k queries inserts.
OwnAt(k) == Version[Script[CHOOSE j \in 1..k :
  Script[j] \in Inserts /\ \A l \in (j + 1)..k : Script[l] \notin Inserts]]

\* From its first insert on, a run that is served alone finds one row in the table
\* after each clean-up, its own latest version (clickhouse.go:99-138), whatever
\* earlier runs, complete or not, have left there.
AloneReadsItsWrites ==
  \A c \in Clients :
    alone[c] /\ pc[c] \in 7..18 /\ (\E q \in {"count", "rows", "final"} : Answered(c, q))
      => reply[c].rows = <<OwnAt(pc[c])>>

\* A run that is served alone never panics over a status, and ends with the table gone:
\* the script can be run again after a crash at any point (clickhouse.go:34-36, 50, 177).
AloneRunsThrough ==
  \A c \in Clients : alone[c] =>
    /\ phase[c] = "answered" => reply[c].ok
    /\ phase[c] = "done" => ~reply[c].exists

\* Two runs at a time, whose queries interleave in any order, and queries of runs that are
\* over: a run is refused a query only after a DROP of another, and what it reads after
\* its clean-ups is its own latest version unless another has inserted, truncated or
\* dropped after that version was inserted (clickhouse.go:99-138, 141-158).
OthersAreToBlame ==
  \A c \in Clients : phase[c] = "answered" =>
    /\ ~reply[c].ok => since[c] = "dropped"
    /\ (since[c] = "own" /\ pc[c] \in 7..18 /\ Script[pc[c]] \in {"count", "rows", "final"})
         => reply[c].rows = <<OwnAt(pc[c])>>
=============================================================================
