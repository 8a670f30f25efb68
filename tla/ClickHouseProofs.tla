-------------------------- MODULE ClickHouseProofs --------------------------
(* Proofs for ClickHouse: any number of terminals and of runs. *)
EXTENDS ClickHouse, TLAPS

LEMMA NoTableIsNoSequence == NoTable \notin Seq(Rows) /\ NoTable # << >>
<1>1. NoTable \notin Seq(Rows)
  BY ClickHouseAssumption DEF Rows
<1>2. << >> \in Seq(Rows)
  OBVIOUS
<1> QED BY <1>1, <1>2

LEMMA ScriptLength == Len(Script) = 21
BY DEF Script

LEMMA ScriptQueries == \A k \in 1..Len(Script) : Script[k] \in ToSet(Script)
BY ScriptLength DEF ToSet, Script

\* Where in the script the table is made and where it is dropped.
LEMMA ScriptPlaces ==
  /\ Script[1] = "create" /\ Script[20] = "drop" /\ Script[21] = "exists"
  /\ \A k \in 2..19 : Script[k] \notin {"create", "drop"}
BY DEF Script

LEMMA Versions ==
  /\ Inserts = {"insert", "update", "delete"}
  /\ \A q \in Inserts : Version[q] \in Rows
BY DEF Inserts, Version, Rows

-----------------------------------------------------------------------------
(* The table after a query *)

TableOK == table \in Seq(Rows) \cup {NoTable}

LEMMA AppendLast ==
  ASSUME NEW t \in Seq(Rows), NEW r \in Rows
  PROVE  /\ Append(t, r) \in Seq(Rows) /\ Append(t, r) # << >>
         /\ Last(Append(t, r)) = r
BY DEF Last

LEMMA CleanupLast ==
  ASSUME NEW t \in Seq(Rows)
  PROVE  /\ Cleanup(t) \in Seq(Rows)
         /\ Cleanup(t) = << >> <=> t = << >>
         /\ t # << >> => Last(Cleanup(t)) = Last(t)
<1>1. CASE t = << >>
  BY <1>1 DEF Cleanup
<1>2. CASE t # << >>
  <2>1. Last(t) \in Rows
    BY <1>2 DEF Last
  <2>2. Cleanup(t) = <<Last(t)>>
    BY <1>2 DEF Cleanup
  <2>3. ASSUME NEW r \in Rows PROVE <<r>> \in Seq(Rows) /\ <<r>> # << >> /\ Last(<<r>>) = r
    BY DEF Last
  <2> QED BY <1>2, <2>1, <2>2, <2>3
<1> QED BY <1>1, <1>2

\* A merge of neighbouring parts keeps the last row.
LEMMA MergeLast ==
  ASSUME NEW t \in Seq(Rows), NEW k \in 1..(Len(t) - 1)
  PROVE  /\ RemoveAt(t, k) \in Seq(Rows) /\ RemoveAt(t, k) # << >>
         /\ Last(RemoveAt(t, k)) = Last(t)
<1> DEFINE a == SubSeq(t, 1, k - 1)
           b == SubSeq(t, k + 1, Len(t))
<1>1. a \in Seq(Rows) /\ b \in Seq(Rows)
  OBVIOUS
<1>2. Len(a) = k - 1 /\ Len(b) = Len(t) - k /\ Len(b) >= 1
  OBVIOUS
<1>3. b[Len(b)] = t[Len(t)]
  BY <1>2
<1> HIDE DEF a, b
<1>4. a \o b \in Seq(Rows) /\ Len(a \o b) = Len(a) + Len(b)
  BY <1>1
<1>5. (a \o b)[Len(a \o b)] = b[Len(b)]
  BY <1>1, <1>2, <1>4
<1>6. RemoveAt(t, k) = a \o b
  BY DEF RemoveAt, a, b
<1>7. a \o b # << >>
  BY <1>2, <1>4
<1> QED BY <1>3, <1>4, <1>5, <1>6, <1>7 DEF Last

\* What a query does to the table.
LEMMA AfterCases ==
  ASSUME TableOK, NEW q
  PROVE  \/ After(q) = table
         \/ After(q) = << >>
         \/ After(q) = NoTable
         \/ table # NoTable /\ q \in Inserts /\ After(q) = Append(table, Version[q])
         \/ table # NoTable /\ q = "cleanup" /\ After(q) = Cleanup(table)
<1>1. CASE Refused(q)
  BY <1>1 DEF After
<1>2. CASE ~Refused(q) /\ table = NoTable
  <2>1. q \in {"create", "exists"}
    BY <1>2 DEF Refused
  <2>2. "exists" \notin Inserts /\ "create" \notin Inserts
    BY Versions
  <2> QED BY <1>2, <2>1, <2>2 DEF After
<1>3. CASE table # NoTable
  <2>1. ~Refused(q)
    BY <1>3 DEF Refused
  <2>2. "create" \notin Inserts /\ "cleanup" \notin Inserts
    BY Versions
  <2> QED BY <1>3, <2>1, <2>2 DEF After
<1> QED BY <1>1, <1>2, <1>3

\* Nothing but DROP takes the table away.
LEMMA KeptUnlessDropped ==
  ASSUME TableOK, NEW q, table # NoTable, q # "drop"
  PROVE  After(q) # NoTable
<1>1. ~Refused(q) /\ table \in Seq(Rows)
  BY DEF Refused, TableOK
<1>2. CASE q \in Inserts
  <2>1. q \notin {"create", "cleanup", "truncate"} /\ Version[q] \in Rows
    BY <1>2, Versions
  <2>2. After(q) = Append(table, Version[q])
    BY <1>1, <1>2, <2>1 DEF After
  <2> QED BY <1>1, <2>1, <2>2, AppendLast, NoTableIsNoSequence
<1>3. CASE q = "cleanup"
  <2>1. q \notin Inserts
    BY <1>3, Versions
  <2>2. After(q) = Cleanup(table)
    BY <1>1, <1>3, <2>1 DEF After
  <2> QED BY <1>1, <2>2, CleanupLast, NoTableIsNoSequence
<1>4. CASE q \notin Inserts \cup {"cleanup", "drop"}
  <2>1. After(q) = table \/ After(q) = << >>
    BY <1>1, <1>4 DEF After
  <2> QED BY <2>1, NoTableIsNoSequence
<1> QED BY <1>2, <1>3, <1>4

LEMMA ExecuteKeeps ==
  ASSUME TableOK, NEW q, Execute(q)
  PROVE  TableOK'
<1>1. table' = After(q)
  BY DEF Execute
<1>2. << >> \in Seq(Rows)
  OBVIOUS
<1>3. CASE table # NoTable /\ q \in Inserts /\ After(q) = Append(table, Version[q])
  <2>1. table \in Seq(Rows) /\ Version[q] \in Rows
    BY <1>3, Versions DEF TableOK
  <2> QED BY <1>1, <1>3, <2>1, AppendLast DEF TableOK
<1>4. CASE table # NoTable /\ q = "cleanup" /\ After(q) = Cleanup(table)
  <2>1. table \in Seq(Rows)
    BY <1>4 DEF TableOK
  <2> QED BY <1>1, <1>4, <2>1, CleanupLast DEF TableOK
<1> QED BY <1>1, <1>2, <1>3, <1>4, AfterCases DEF TableOK

-----------------------------------------------------------------------------
(* Types *)

\* TypeOK but for table and reply; a terminal is busy only when a run has begun.
RestOK ==
  /\ late \subseteq ToSet(Script) \X Clients \X (1..MaxRuns)
  /\ runs \in 0..MaxRuns
  /\ pc \in [Clients -> 1..Len(Script)]
  /\ phase \in [Clients -> {"ready", "waiting", "answered", "stopped", "done"}]
  /\ alone \in [Clients -> BOOLEAN]
  /\ \A c \in Clients : phase[c] # "stopped" => runs \in 1..MaxRuns

SinceOK == since \in [Clients -> {"own", "changed", "dropped"}]

ReplyOK == reply \in [Clients -> [ok : BOOLEAN, exists : BOOLEAN, rows : Seq(Rows)]]

Typed == TableOK /\ RestOK /\ ReplyOK /\ SinceOK

LEMMA InitTyped == Init => Typed
<1> SUFFICES ASSUME Init PROVE Typed
  OBVIOUS
<1>1. TableOK /\ SinceOK
  BY DEF Init, TableOK, SinceOK
<1>2. RestOK
  <2>1. MaxRuns \in Nat
    BY ClickHouseAssumption
  <2> QED BY <2>1, ScriptLength DEF Init, RestOK
<1>3. ReplyOK
  <2>1. << >> \in Seq(Rows)
    OBVIOUS
  <2> QED BY <2>1 DEF Init, ReplyOK
<1> QED BY <1>1, <1>2, <1>3 DEF Typed

LEMMA SinceStep == SinceOK /\ [Next]_vars => SinceOK'
<1> SUFFICES ASSUME SinceOK, [Next]_vars PROVE SinceOK'
  OBVIOUS
<1> USE DEF SinceOK
<1>1. ASSUME NEW s \in {"own", "changed", "dropped"}, NEW q
      PROVE  /\ AfterOthers(s, q) \in {"own", "changed", "dropped"}
             /\ AfterOwn(s, q) \in {"own", "changed", "dropped"}
  BY DEF AfterOthers, AfterOwn
<1>2. ASSUME NEW c \in Clients, Start(c) PROVE SinceOK'
  BY <1>2 DEF Start
<1>3. ASSUME NEW c \in Clients, Serve(c) PROVE SinceOK'
  BY <1>1, <1>3 DEF Serve
<1>4. ASSUME NEW c \in Clients, Post(c) \/ Returns(c) \/ Panics(c) \/ Dies(c) PROVE SinceOK'
  BY <1>4 DEF Post, Returns, Panics, Dies
<1>5. CASE ServeLate
  BY <1>1, <1>5 DEF ServeLate
<1>6. CASE Merge \/ UNCHANGED vars
  BY <1>6 DEF Merge, vars
<1> QED BY <1>2, <1>3, <1>4, <1>5, <1>6 DEF Next

LEMMA TypedStep == Typed /\ [Next]_vars => Typed'
<1> SUFFICES ASSUME TableOK, RestOK, ReplyOK, SinceOK, [Next]_vars PROVE Typed'
  BY DEF Typed
<1>0. MaxRuns \in Nat /\ SinceOK'
  BY ClickHouseAssumption, SinceStep
<1>1. ASSUME UNCHANGED table PROVE TableOK'
  BY <1>1 DEF TableOK
<1>2. ASSUME UNCHANGED reply PROVE ReplyOK'
  BY <1>2 DEF ReplyOK
<1>3. ASSUME NEW c \in Clients, Start(c) PROVE Typed'
  <2>1. RestOK'
    BY <1>0, <1>3, ScriptLength DEF Start, RestOK
  <2> QED BY <1>0, <1>1, <1>2, <1>3, <2>1 DEF Start, Typed
<1>4. ASSUME NEW c \in Clients, Post(c) PROVE Typed'
  <2>1. RestOK'
    BY <1>4 DEF Post, RestOK
  <2> QED BY <1>0, <1>1, <1>2, <1>4, <2>1 DEF Post, Typed
<1>5. ASSUME NEW c \in Clients, Serve(c) PROVE Typed'
  <2>1. TableOK'
    BY <1>5, ExecuteKeeps DEF Serve
  <2>2. RestOK'
    BY <1>5 DEF Serve, RestOK
  <2>3. (IF table = NoTable THEN << >> ELSE table) \in Seq(Rows)
    BY DEF TableOK
  <2>4. ReplyOK'
    BY <1>5, <2>3 DEF Serve, ReplyOK, Refused
  <2> QED BY <1>0, <2>1, <2>2, <2>4 DEF Typed
<1>6. ASSUME NEW c \in Clients, Returns(c) PROVE Typed'
  <2>1. RestOK'
    BY <1>6, ScriptLength DEF Returns, RestOK
  <2> QED BY <1>0, <1>1, <1>2, <1>6, <2>1 DEF Returns, Typed
<1>7. ASSUME NEW c \in Clients, Panics(c) PROVE Typed'
  <2>1. RestOK'
    BY <1>7 DEF Panics, RestOK
  <2> QED BY <1>0, <1>1, <1>2, <1>7, <2>1 DEF Panics, Typed
<1>8. ASSUME NEW c \in Clients, Dies(c) PROVE Typed'
  <2>1. Script[pc[c]] \in ToSet(Script) /\ runs \in 1..MaxRuns
    BY <1>8, ScriptQueries DEF Dies, RestOK
  <2>2. late' \subseteq ToSet(Script) \X Clients \X (1..MaxRuns)
    BY <1>8, <2>1 DEF Dies, RestOK
  <2>3. RestOK'
    BY <1>8, <2>1, <2>2 DEF Dies, RestOK
  <2> QED BY <1>0, <1>1, <1>2, <1>8, <2>3 DEF Dies, Typed
<1>9. CASE ServeLate
  <2>1. PICK x \in late :
          /\ late' = late \ {x} /\ UNCHANGED <<runs, pc, phase, reply>>
          /\ \/ Execute(x[1]) /\ alone' = [c \in Clients |-> FALSE]
             \/ UNCHANGED <<table, alone>>
    BY <1>9 DEF ServeLate
  <2>2. TableOK'
    BY <1>1, <2>1, ExecuteKeeps
  <2>3. RestOK'
    BY <2>1 DEF RestOK
  <2> QED BY <1>0, <1>2, <2>1, <2>2, <2>3 DEF Typed
<1>10. CASE Merge
  <2>1. table \in Seq(Rows) /\ UNCHANGED <<late, runs, pc, phase, reply, alone>>
    BY <1>10 DEF Merge, TableOK
  <2>2. PICK k \in 1..(Len(table) - 1) : table' = RemoveAt(table, k)
    BY <1>10 DEF Merge
  <2>3. TableOK'
    BY <2>1, <2>2, MergeLast DEF TableOK
  <2>4. RestOK'
    BY <2>1 DEF RestOK
  <2> QED BY <1>0, <1>2, <2>1, <2>3, <2>4 DEF Typed
<1>11. CASE UNCHANGED vars
  <2>1. RestOK'
    BY <1>11 DEF vars, RestOK
  <2> QED BY <1>0, <1>1, <1>2, <1>11, <2>1 DEF vars, Typed
<1> QED BY <1>3, <1>4, <1>5, <1>6, <1>7, <1>8, <1>9, <1>10, <1>11 DEF Next

LEMMA TypedAlways == Spec => []Typed
BY InitTyped, TypedStep, PTL DEF Spec

\* The type invariant of ClickHouse.
THEOREM TypeCorrect == Spec => []TypeOK
<1>1. Typed => TypeOK
  BY DEF Typed, TypeOK, TableOK, RestOK, ReplyOK, SinceOK
<1> QED BY <1>1, TypedAlways, PTL

-----------------------------------------------------------------------------
(* A run that is served alone *)

\* The positions at which the table is tidy, and those that read rows.
Tidy  == (6..8) \cup (10..13) \cup (15..18)
Reads == {7, 8, 11, 12, 13, 16, 17, 18}

LEMMA Places ==
  /\ Script[5] = "insert" /\ Script[9] = "update" /\ Script[14] = "delete"
  /\ Script[19] = "truncate"
  /\ \A k \in {6, 10, 15} : Script[k] = "cleanup"
  /\ \A k \in {2, 3, 4} \cup Reads : Script[k] \in {"exists", "count", "rows", "final"}
BY DEF Script, Reads

LEMMA LastInsert ==
  ASSUME NEW j \in 1..21, NEW k \in j..21, Script[j] \in Inserts,
         \A l \in (j + 1)..k : Script[l] \notin Inserts
  PROVE  OwnAt(k) = Version[Script[j]]
<1> DEFINE P(x) == Script[x] \in Inserts /\ \A l \in (x + 1)..k : Script[l] \notin Inserts
<1>1. j \in 1..k /\ P(j)
  OBVIOUS
<1>2. ASSUME NEW x \in 1..k, P(x) PROVE x = j
  <2>1. ~(x < j)
    <3>1. x < j => j \in (x + 1)..k
      OBVIOUS
    <3> QED BY <1>2, <3>1
  <2>2. ~(j < x)
    <3>1. j < x => x \in (j + 1)..k
      OBVIOUS
    <3> QED BY <1>2, <3>1
  <2> QED BY <2>1, <2>2
<1> HIDE DEF P
<1>3. (CHOOSE x \in 1..k : P(x)) = j
  BY <1>1, <1>2
<1> QED BY <1>3 DEF OwnAt, P

LEMMA OwnValues ==
  /\ \A k \in 5..8 : OwnAt(k) = "boston"
  /\ \A k \in 9..13 : OwnAt(k) = "cambridge"
  /\ \A k \in 14..18 : OwnAt(k) = "blank"
<1>1. /\ \A k \in {5, 9, 14} : Script[k] \in Inserts
      /\ \A k \in (6..8) \cup (10..13) \cup (15..18) : Script[k] \notin Inserts
  BY Versions DEF Script
<1>2. Version["insert"] = "boston" /\ Version["update"] = "cambridge" /\ Version["delete"] = "blank"
  BY DEF Version
<1>3. ASSUME NEW k \in 5..8 PROVE OwnAt(k) = "boston"
  <2>1. OwnAt(k) = Version[Script[5]]
    BY <1>1, LastInsert
  <2> QED BY <1>2, <2>1, Places
<1>4. ASSUME NEW k \in 9..13 PROVE OwnAt(k) = "cambridge"
  <2>1. OwnAt(k) = Version[Script[9]]
    BY <1>1, LastInsert
  <2> QED BY <1>2, <2>1, Places
<1>5. ASSUME NEW k \in 14..18 PROVE OwnAt(k) = "blank"
  <2>1. OwnAt(k) = Version[Script[14]]
    BY <1>1, LastInsert
  <2> QED BY <1>2, <2>1, Places
<1> QED BY <1>3, <1>4, <1>5

\* The table when the first k queries of a run have been served, and no others.
TableAt(k) ==
  /\ k \in 1..19 => table # NoTable
  /\ k = 20 => table = NoTable
  /\ k \in 5..18 => table # << >> /\ Last(table) = OwnAt(k)
  /\ k \in Tidy => table = <<OwnAt(k)>>

LEMMA ServeAt ==
  ASSUME TableOK, NEW k \in 1..21, TableAt(k - 1), Execute(Script[k])
  PROVE  /\ ~Refused(Script[k]) /\ TableAt(k)'
         /\ k \in Reads => table = <<OwnAt(k)>>
         /\ k = 21 => table = NoTable
<1>0. table' = After(Script[k])
  BY DEF Execute
<1>1. CASE k = 1
  <2>1. Script[k] = "create"
    BY <1>1, ScriptPlaces
  <2>2. table' = IF table = NoTable THEN << >> ELSE table
    BY <1>0, <2>1, Versions DEF After, Refused
  <2>3. table' # NoTable
    BY <2>2, NoTableIsNoSequence
  <2> QED BY <1>1, <2>1, <2>3 DEF TableAt, Refused, Tidy, Reads
<1>2. CASE k \in {2, 3, 4} \cup Reads
  <2>1. Script[k] \in {"exists", "count", "rows", "final"}
    BY <1>2, Places
  <2>2. table # NoTable
    BY <1>2 DEF TableAt, Reads
  <2>3. table' = table
    BY <1>0, <2>1, <2>2, Versions DEF After, Refused
  <2>4. k \in Reads => OwnAt(k) = OwnAt(k - 1) /\ table = <<OwnAt(k)>>
    BY OwnValues DEF TableAt, Tidy, Reads
  <2>5. k \in 2..4 \/ k \in Reads
    BY <1>2
  <2>6. ~Refused(Script[k])
    BY <2>2 DEF Refused
  <2>7. k \in 5..18 => k \in Reads
    BY <1>2 DEF Reads
  <2>8. ASSUME NEW r PROVE <<r>> # << >> /\ Last(<<r>>) = r
    BY DEF Last
  <2>9. k \in Reads => table # << >> /\ Last(table) = OwnAt(k)
    BY <2>4, <2>8
  <2>10. k \in Tidy => k \in Reads
    BY <1>2 DEF Tidy, Reads
  <2>11. k # 20 /\ k # 21
    BY <1>2 DEF Reads
  <2> QED BY <2>2, <2>3, <2>4, <2>6, <2>7, <2>9, <2>10, <2>11 DEF TableAt
<1>3. CASE k \in {5, 9, 14}
  <2>1. Script[k] \in Inserts /\ Version[Script[k]] = OwnAt(k)
    BY <1>3, Places, Versions, OwnValues DEF Version
  <2>2. table # NoTable
    BY <1>3 DEF TableAt
  <2>3. table \in Seq(Rows) /\ Version[Script[k]] \in Rows
    BY <2>1, <2>2, Versions DEF TableOK
  <2>4. table' = Append(table, OwnAt(k))
    <3>1. Script[k] # "create" /\ ~Refused(Script[k])
      BY <2>1, <2>2, Versions DEF Refused
    <3> QED BY <1>0, <2>1, <3>1, Versions DEF After
  <2>5. table' \in Seq(Rows) /\ table' # << >> /\ Last(table') = OwnAt(k)
    BY <2>1, <2>3, <2>4, AppendLast
  <2>6. table' # NoTable
    BY <2>5, NoTableIsNoSequence
  <2> QED BY <1>3, <2>2, <2>5, <2>6 DEF TableAt, Refused, Tidy, Reads
<1>4. CASE k \in {6, 10, 15}
  <2>1. Script[k] = "cleanup"
    BY <1>4, Places
  <2>2. table # NoTable /\ table # << >> /\ Last(table) = OwnAt(k)
    BY <1>4, OwnValues DEF TableAt
  <2>3. table' = Cleanup(table)
    BY <1>0, <2>1, <2>2, Versions DEF After, Refused
  <2>4. table' = <<OwnAt(k)>>
    BY <2>2, <2>3 DEF Cleanup
  <2>5. OwnAt(k) \in Rows
    BY <1>4, OwnValues DEF Rows
  <2>6. ASSUME NEW r \in Rows PROVE <<r>> \in Seq(Rows) /\ <<r>> # << >> /\ Last(<<r>>) = r
    BY DEF Last
  <2>7. table' # NoTable /\ table' # << >> /\ Last(table') = OwnAt(k)
    BY <2>4, <2>5, <2>6, NoTableIsNoSequence
  <2> QED BY <1>4, <2>2, <2>4, <2>7 DEF TableAt, Refused, Reads
<1>5. CASE k = 19
  <2>1. Script[k] = "truncate" /\ table # NoTable
    BY <1>5, Places DEF TableAt
  <2>2. table' = << >>
    BY <1>0, <2>1, Versions DEF After, Refused
  <2> QED BY <1>5, <2>1, <2>2, NoTableIsNoSequence DEF TableAt, Refused, Tidy, Reads
<1>6. CASE k = 20
  <2>1. Script[k] = "drop" /\ table # NoTable
    BY <1>6, ScriptPlaces DEF TableAt
  <2>2. table' = NoTable
    BY <1>0, <2>1, Versions DEF After, Refused
  <2> QED BY <1>6, <2>1, <2>2 DEF TableAt, Refused, Tidy, Reads
<1>7. CASE k = 21
  BY <1>7, ScriptPlaces DEF TableAt, Refused, Tidy, Reads
<1>8. k = 1 \/ k \in {2, 3, 4} \cup Reads \/ k \in {5, 9, 14} \/ k \in {6, 10, 15}
      \/ k = 19 \/ k = 20 \/ k = 21
  BY DEF Reads
<1> QED BY <1>1, <1>2, <1>3, <1>4, <1>5, <1>6, <1>7, <1>8

\* A merge needs two rows, and keeps the last.
LEMMA MergeAt ==
  ASSUME TableOK, Merge, NEW k \in 0..21, TableAt(k) PROVE TableAt(k)'
<1>1. PICK n \in 1..(Len(table) - 1) : table' = RemoveAt(table, n)
  BY DEF Merge
<1>2. table \in Seq(Rows) /\ table # NoTable
  BY DEF Merge, TableOK
<1>3. /\ table' \in Seq(Rows) /\ table' # << >> /\ Last(table') = Last(table)
  BY <1>1, <1>2, MergeLast
<1>4. table' # NoTable
  BY <1>3, NoTableIsNoSequence
<1>5. ASSUME NEW r, table = <<r>> PROVE FALSE
  BY <1>1, <1>5
<1> QED BY <1>2, <1>3, <1>4, <1>5 DEF TableAt

Busy(c) == phase[c] \in {"ready", "waiting", "answered"}
Served(c) == IF phase[c] = "answered" THEN pc[c] ELSE pc[c] - 1

\* What the run at terminal c can rely on while it is served alone.
Relies(c) ==
  /\ Busy(c) => TableAt(Served(c))
  /\ phase[c] = "answered" => reply[c].ok
  /\ phase[c] = "answered" /\ pc[c] \in Reads => reply[c].rows = <<OwnAt(pc[c])>>
  /\ phase[c] = "answered" /\ pc[c] = 21 => ~reply[c].exists
  /\ phase[c] = "done" => ~reply[c].exists

Alone == \A c \in Clients : alone[c] => Relies(c)

LEMMA ReliesStep ==
  ASSUME Typed, [Next]_vars, NEW c \in Clients, alone[c] => Relies(c), alone'[c]
  PROVE  Relies(c)'
<1>0. TableOK /\ RestOK /\ ReplyOK /\ pc[c] \in 1..21
  BY ScriptLength DEF Typed, RestOK
<1>a. CASE UNCHANGED <<table, alone>> /\ pc'[c] = pc[c] /\ phase'[c] = phase[c] /\ reply'[c] = reply[c]
  BY <1>a DEF Relies, Busy, Served, TableAt
<1>b. CASE phase'[c] = "stopped"
  BY <1>b DEF Relies, Busy
<1>1. CASE Start(c)
  <2>1. phase'[c] = "ready" /\ pc'[c] = 1
    BY <1>0, <1>1 DEF Start, RestOK
  <2>2. Served(c)' = 0 /\ phase'[c] \notin {"answered", "done"}
    BY <2>1 DEF Served
  <2>3. TableAt(Served(c))'
    BY <2>2 DEF TableAt, Tidy
  <2> QED BY <2>2, <2>3 DEF Relies
<1>2. CASE Post(c)
  <2>1. /\ UNCHANGED <<table, alone>> /\ phase[c] = "ready" /\ phase'[c] = "waiting" /\ pc'[c] = pc[c]
    BY <1>0, <1>2 DEF Post, RestOK
  <2> QED BY <2>1 DEF Relies, Busy, Served, TableAt
<1>3. CASE Serve(c)
  <2>1. /\ phase[c] = "waiting" /\ phase'[c] = "answered" /\ pc'[c] = pc[c]
        /\ Execute(Script[pc[c]]) /\ alone[c]
    BY <1>0, <1>3 DEF Serve, RestOK
  <2>2. /\ reply'[c].ok = ~Refused(Script[pc[c]])
        /\ reply'[c].exists = (table # NoTable)
        /\ table # NoTable => reply'[c].rows = table
    BY <1>0, <1>3 DEF Serve, ReplyOK
  <2>3. TableAt(pc[c] - 1)
    BY <2>1 DEF Relies, Busy, Served
  <2>4. /\ ~Refused(Script[pc[c]]) /\ TableAt(pc[c])'
        /\ pc[c] \in Reads => table = <<OwnAt(pc[c])>>
        /\ pc[c] = 21 => table = NoTable
    BY <1>0, <2>1, <2>3, ServeAt
  <2>5. pc[c] \in Reads => table # NoTable
    BY <2>3 DEF TableAt, Reads
  <2>6. TableAt(Served(c))'
    BY <2>1, <2>4 DEF Served, TableAt
  <2> QED BY <2>1, <2>2, <2>4, <2>5, <2>6 DEF Relies
<1>4. CASE Returns(c)
  <2>1. /\ UNCHANGED <<table, alone>> /\ phase[c] = "answered" /\ reply'[c] = reply[c]
        /\ \/ pc[c] = 21 /\ phase'[c] = "done" /\ pc'[c] = pc[c]
           \/ phase'[c] = "ready" /\ pc'[c] = pc[c] + 1
    BY <1>0, <1>4, ScriptLength DEF Returns, RestOK
  <2>2. Relies(c) /\ alone[c]
    BY <2>1
  <2>3. CASE pc[c] = 21 /\ phase'[c] = "done"
    BY <2>1, <2>2, <2>3 DEF Relies, Busy
  <2>4. CASE phase'[c] = "ready" /\ pc'[c] = pc[c] + 1
    <3>1. PICK k \in 1..21 : k = pc[c]
      BY <1>0
    <3>2. TableAt(k)'
      BY <2>1, <2>2, <3>1 DEF Relies, Busy, Served, TableAt
    <3>3. Served(c)' = k
      BY <2>4, <3>1 DEF Served
    <3>4. TableAt(Served(c))'
      BY <3>2, <3>3 DEF TableAt
    <3> QED BY <2>4, <3>4 DEF Relies
  <2> QED BY <2>1, <2>3, <2>4
<1>5. CASE Panics(c) \/ Dies(c)
  BY <1>0, <1>5, <1>b DEF Panics, Dies, RestOK
<1>6. ASSUME NEW d \in Clients \ {c}, Start(d) \/ Post(d) \/ Returns(d) \/ Panics(d) \/ Dies(d)
      PROVE  Relies(c)'
  <2>1. /\ UNCHANGED table /\ alone'[c] = alone[c] /\ pc'[c] = pc[c]
        /\ phase'[c] = phase[c] /\ reply'[c] = reply[c]
    BY <1>0, <1>6 DEF Start, Post, Returns, Panics, Dies, RestOK
  <2> QED BY <2>1 DEF Relies, Busy, Served, TableAt
<1>7. ASSUME NEW d \in Clients \ {c}, Serve(d) PROVE FALSE
  BY <1>7 DEF Serve
<1>8. CASE ServeLate
  BY <1>8, <1>a DEF ServeLate
<1>9. CASE Merge
  <2>1. UNCHANGED <<alone, pc, phase, reply>>
    BY <1>9 DEF Merge
  <2>2. Served(c) \in 0..21 /\ Served(c)' = Served(c)
    BY <1>0, <2>1 DEF Served
  <2>3. Busy(c) => TableAt(Served(c))'
    BY <1>0, <1>9, <2>1, <2>2, MergeAt DEF Relies
  <2> QED BY <2>1, <2>3 DEF Relies, Busy
<1>10. CASE UNCHANGED vars
  BY <1>10, <1>a DEF vars
<1> QED BY <1>1, <1>2, <1>3, <1>4, <1>5, <1>6, <1>7, <1>8, <1>9, <1>10 DEF Next

LEMMA AloneAlways == Spec => []Alone
<1>1. Init => Alone
  BY DEF Init, Alone, Relies, Busy
<1>2. Typed /\ Alone /\ [Next]_vars => Alone'
  BY ReliesStep DEF Alone
<1> QED BY <1>1, <1>2, TypedAlways, PTL DEF Spec

\* From its first insert on, a run that is served alone reads its own latest version
\* after each clean-up, whatever earlier runs have left (clickhouse.go:99-138).
THEOREM ReadsItsWrites == Spec => []AloneReadsItsWrites
<1>1. Typed /\ Alone => AloneReadsItsWrites
  <2> SUFFICES ASSUME Typed, Alone, NEW c \in Clients, alone[c], pc[c] \in 7..18,
                      \E q \in {"count", "rows", "final"} : Answered(c, q)
               PROVE  reply[c].rows = <<OwnAt(pc[c])>>
    BY DEF AloneReadsItsWrites
  <2>1. phase[c] = "answered" /\ Script[pc[c]] \in {"count", "rows", "final"}
    BY DEF Answered
  <2>2. pc[c] \in Reads
    <3>1. \A k \in {9, 10, 14, 15} : Script[k] \notin {"count", "rows", "final"}
      BY Places
    <3> QED BY <2>1, <3>1 DEF Reads
  <2> QED BY <2>1, <2>2 DEF Alone, Relies
<1> QED BY <1>1, TypedAlways, AloneAlways, PTL

\* A run that is served alone is never refused and ends with the table gone, also
\* after runs that crashed at any point (clickhouse.go:34-36, 50, 177).
THEOREM RunsThrough == Spec => []AloneRunsThrough
<1>1. Alone => AloneRunsThrough
  BY DEF Alone, Relies, AloneRunsThrough
<1> QED BY <1>1, AloneAlways, PTL

-----------------------------------------------------------------------------
(* Runs that are served among others *)

\* The table when the first k queries of a run have been served, and others since made s
\* of its last write.
HoldsAt(k, s) ==
  /\ s # "dropped" /\ k \in 1..19 => table # NoTable
  /\ s = "own" /\ k \in 5..18 => table # << >> /\ Last(table) = OwnAt(k)
  /\ s = "own" /\ k \in Tidy => table = <<OwnAt(k)>>

\* The run's own next query, while nobody has touched its last write.
LEMMA OwnServe ==
  ASSUME TableOK, NEW k \in 1..21, HoldsAt(k - 1, "own"), Execute(Script[k])
  PROVE  /\ ~Refused(Script[k]) /\ HoldsAt(k, "own")'
         /\ k \in Reads => table = <<OwnAt(k)>>
<1>1. CASE k = 21
  BY <1>1, ScriptPlaces DEF HoldsAt, Refused, Tidy, Reads
<1>2. CASE k # 21
  <2>1. TableAt(k - 1)
    BY <1>2 DEF HoldsAt, TableAt
  <2>2. /\ ~Refused(Script[k]) /\ TableAt(k)'
        /\ k \in Reads => table = <<OwnAt(k)>>
    BY <2>1, ServeAt
  <2> QED BY <2>2 DEF HoldsAt, TableAt
<1> QED BY <1>1, <1>2

\* The run's own next query when others have changed or dropped the table: an insert that
\* is not refused, or the creation, makes it the run's own again.
LEMMA ForeignServe ==
  ASSUME TableOK, NEW k \in 1..21, NEW s \in {"changed", "dropped"}, HoldsAt(k - 1, s),
         Execute(Script[k]), NEW t, t = AfterOwn(s, Script[k])
  PROVE  /\ Refused(Script[k]) => s = "dropped"
         /\ HoldsAt(k, t)'
         /\ k \in Reads => t # "own"
<1>0. table' = After(Script[k])
  BY DEF Execute
<1>1. CASE k = 1
  <2>1. Script[k] = "create"
    BY <1>1, ScriptPlaces
  <2>2. table' = IF table = NoTable THEN << >> ELSE table
    BY <1>0, <2>1, Versions DEF After, Refused
  <2>3. table' # NoTable
    BY <2>2, NoTableIsNoSequence
  <2> QED BY <1>1, <2>1, <2>3 DEF HoldsAt, Refused, Tidy, Reads
<1>2. CASE k \in {5, 9, 14}
  <2>1. Script[k] \in Inserts /\ Version[Script[k]] = OwnAt(k)
    BY <1>2, Places, Versions, OwnValues DEF Version
  <2>2. Script[k] \notin {"create", "exists"}
    BY <2>1, Versions
  <2>3. CASE table = NoTable
    <3>1. s = "dropped" /\ Refused(Script[k])
      BY <1>2, <2>2, <2>3 DEF HoldsAt, Refused
    <3>2. t = "dropped"
      BY <3>1 DEF AfterOwn
    <3> QED BY <1>2, <3>1, <3>2 DEF HoldsAt, Reads
  <2>4. CASE table # NoTable
    <3>1. ~Refused(Script[k])
      BY <2>4 DEF Refused
    <3>2. table' = Append(table, OwnAt(k))
      BY <1>0, <2>1, <2>2, <3>1, Versions DEF After
    <3>3. table \in Seq(Rows) /\ Version[Script[k]] \in Rows
      BY <2>1, <2>4, Versions DEF TableOK
    <3>4. table' \in Seq(Rows) /\ table' # << >> /\ Last(table') = OwnAt(k)
      BY <2>1, <3>2, <3>3, AppendLast
    <3>5. table' # NoTable
      BY <3>4, NoTableIsNoSequence
    <3> QED BY <1>2, <3>1, <3>4, <3>5 DEF HoldsAt, Tidy, Reads
  <2> QED BY <2>3, <2>4
<1>3. CASE k \notin {1, 5, 9, 14}
  <2>1. Script[k] \notin Inserts \cup {"create"}
    BY <1>3, Versions DEF Script
  <2>2. t = s
    BY <2>1 DEF AfterOwn
  <2>3. CASE s = "dropped"
    BY <2>2, <2>3 DEF HoldsAt
  <2>4. CASE s = "changed" /\ k = 21
    BY <2>2, <2>4, ScriptPlaces DEF HoldsAt, Refused
  <2>5. CASE s = "changed" /\ k # 21
    <3>1. table # NoTable
      BY <1>3, <2>5 DEF HoldsAt
    <3>2. ~Refused(Script[k])
      BY <3>1 DEF Refused
    <3>3. k \in 1..19 => table' # NoTable
      <4> SUFFICES ASSUME k \in 1..19 PROVE table' # NoTable
        OBVIOUS
      <4>1. Script[k] # "drop"
        BY <1>3, ScriptPlaces
      <4> QED BY <1>0, <3>1, <4>1, KeptUnlessDropped
    <3> QED BY <2>2, <2>5, <3>2, <3>3 DEF HoldsAt
  <2> QED BY <2>3, <2>4, <2>5
<1> QED BY <1>1, <1>2, <1>3

\* A query of another run, or of one that is over.
LEMMA OthersServe ==
  ASSUME TableOK, NEW k \in 0..21, NEW s \in {"own", "changed", "dropped"}, HoldsAt(k, s),
         NEW q, Execute(q), NEW t, t = AfterOthers(s, q)
  PROVE  HoldsAt(k, t)'
<1>0. table' = After(q)
  BY DEF Execute
<1>1. CASE t = "dropped"
  BY <1>1 DEF HoldsAt
<1>2. CASE t # "dropped" /\ t # s
  <2>1. t = "changed" /\ s # "dropped" /\ q # "drop"
    BY <1>2 DEF AfterOthers
  <2>2. table # NoTable => table' # NoTable
    BY <1>0, <2>1, KeptUnlessDropped
  <2> QED BY <2>1, <2>2 DEF HoldsAt
<1>3. CASE t # "dropped" /\ t = s /\ s = "changed"
  <2>1. q # "drop" \/ Refused(q)
    BY <1>3 DEF AfterOthers
  <2>2. table # NoTable => table' # NoTable
    BY <1>0, <2>1, KeptUnlessDropped DEF Refused
  <2> QED BY <1>3, <2>2 DEF HoldsAt
<1>4. CASE t = "own" /\ s = "own"
  <2>1. Refused(q) \/ q \notin Inserts \cup {"truncate", "drop"}
    BY <1>4 DEF AfterOthers
  <2>2. CASE k \in 1..19
    <3>1. table # NoTable /\ table \in Seq(Rows)
      BY <1>4, <2>2 DEF HoldsAt, TableOK
    <3>2. q \notin Inserts \cup {"truncate", "drop"}
      BY <2>1, <3>1 DEF Refused
    <3>3. table' = table \/ table' = Cleanup(table)
      BY <1>0, <3>1, <3>2 DEF After
    <3>4. CASE table' = table
      BY <1>4, <3>4 DEF HoldsAt
    <3>5. CASE table' = Cleanup(table)
      <4>1. /\ table' \in Seq(Rows)
            /\ table' = << >> <=> table = << >>
            /\ table # << >> => Last(table') = Last(table)
        BY <3>1, <3>5, CleanupLast
      <4>2. table' # NoTable
        BY <4>1, NoTableIsNoSequence
      <4>3. ASSUME NEW r, table = <<r>> PROVE table' = <<r>>
        BY <3>5, <4>3 DEF Cleanup, Last
      <4>4. k \in 5..18 => table' # << >> /\ Last(table') = OwnAt(k)
        BY <1>4, <4>1 DEF HoldsAt
      <4>5. k \in Tidy => table' = <<OwnAt(k)>>
        BY <1>4, <4>3 DEF HoldsAt
      <4> QED BY <1>4, <4>2, <4>4, <4>5 DEF HoldsAt
    <3> QED BY <3>3, <3>4, <3>5
  <2>3. CASE k \notin 1..19
    BY <2>3 DEF HoldsAt, Tidy
  <2> QED BY <2>2, <2>3
<1> QED BY <1>1, <1>2, <1>3, <1>4 DEF AfterOthers

\* A merge needs two rows, and keeps the last.
LEMMA MergeHolds ==
  ASSUME TableOK, Merge, NEW k \in 0..21, NEW s, HoldsAt(k, s) PROVE HoldsAt(k, s)'
<1>1. PICK n \in 1..(Len(table) - 1) : table' = RemoveAt(table, n)
  BY DEF Merge
<1>2. table \in Seq(Rows) /\ table # NoTable
  BY DEF Merge, TableOK
<1>3. /\ table' \in Seq(Rows) /\ table' # << >> /\ Last(table') = Last(table)
  BY <1>1, <1>2, MergeLast
<1>4. table' # NoTable
  BY <1>3, NoTableIsNoSequence
<1>5. ASSUME NEW r, table = <<r>> PROVE FALSE
  BY <1>1, <1>5
<1> QED BY <1>2, <1>3, <1>4, <1>5 DEF HoldsAt

\* What the run at terminal c can rely on, whatever others do.
AmongOthers(c) ==
  /\ Busy(c) => HoldsAt(Served(c), since[c])
  /\ phase[c] = "answered" /\ ~reply[c].ok => since[c] = "dropped"
  /\ phase[c] = "answered" /\ since[c] = "own" /\ pc[c] \in Reads
       => reply[c].rows = <<OwnAt(pc[c])>>

LEMMA AmongOthersStep ==
  ASSUME Typed, [Next]_vars, NEW c \in Clients, AmongOthers(c)
  PROVE  AmongOthers(c)'
<1>0. TableOK /\ RestOK /\ ReplyOK /\ SinceOK /\ pc[c] \in 1..21
      /\ since[c] \in {"own", "changed", "dropped"} /\ Served(c) \in 0..21
  BY ScriptLength DEF Typed, RestOK, SinceOK, Served
<1>a. CASE /\ UNCHANGED table /\ pc'[c] = pc[c] /\ phase'[c] = phase[c]
           /\ reply'[c] = reply[c] /\ since'[c] = since[c]
  BY <1>a DEF AmongOthers, Busy, Served, HoldsAt
<1>b. CASE phase'[c] = "stopped"
  BY <1>b DEF AmongOthers, Busy
<1>c. ASSUME NEW q, Execute(q), since'[c] = AfterOthers(since[c], q),
             pc'[c] = pc[c], phase'[c] = phase[c], reply'[c] = reply[c]
      PROVE  AmongOthers(c)'
  <2>1. Served(c)' = Served(c) /\ (Busy(c)' <=> Busy(c))
    BY <1>c DEF Served, Busy
  <2>2. PICK t : t = AfterOthers(since[c], q)
    OBVIOUS
  <2>3. Busy(c)' => HoldsAt(Served(c), since[c])'
    <3>1. PICK k \in 0..21 : k = Served(c)
      BY <1>0
    <3>2. Busy(c) => HoldsAt(k, since[c])
      BY <3>1 DEF AmongOthers
    <3>3. Busy(c) => HoldsAt(k, t)'
      BY <1>0, <1>c, <2>2, <3>2, OthersServe
    <3> QED BY <1>c, <2>1, <2>2, <3>1, <3>3 DEF HoldsAt
  <2>4. /\ since[c] = "dropped" => since'[c] = "dropped"
        /\ since'[c] = "own" => since[c] = "own"
    BY <1>0, <1>c DEF AfterOthers
  <2> QED BY <1>c, <2>3, <2>4 DEF AmongOthers
<1>1. CASE Start(c)
  <2>1. phase'[c] = "ready" /\ pc'[c] = 1
    BY <1>0, <1>1 DEF Start, RestOK
  <2>2. Served(c)' = 0
    BY <2>1 DEF Served
  <2>3. HoldsAt(Served(c), since[c])'
    BY <2>2 DEF HoldsAt, Tidy
  <2> QED BY <2>1, <2>3 DEF AmongOthers
<1>2. CASE Post(c)
  <2>1. /\ UNCHANGED <<table, since>> /\ phase[c] = "ready" /\ phase'[c] = "waiting"
        /\ pc'[c] = pc[c]
    BY <1>0, <1>2 DEF Post, RestOK
  <2> QED BY <2>1 DEF AmongOthers, Busy, Served, HoldsAt
<1>3. CASE Serve(c)
  <2>1. PICK k \in 1..21 : k = pc[c]
    BY <1>0
  <2>2. /\ phase[c] = "waiting" /\ phase'[c] = "answered" /\ pc'[c] = k
        /\ Execute(Script[k])
    BY <1>0, <1>3, <2>1 DEF Serve, RestOK
  <2>3. since'[c] = AfterOwn(since[c], Script[k])
    BY <1>0, <1>3, <2>1 DEF Serve, SinceOK
  <2>4. /\ reply'[c].ok = ~Refused(Script[k])
        /\ table # NoTable => reply'[c].rows = table
    BY <1>0, <1>3, <2>1 DEF Serve, ReplyOK
  <2>5. HoldsAt(k - 1, since[c])
    BY <2>1, <2>2 DEF AmongOthers, Busy, Served
  <2>6. Served(c)' = k
    BY <2>2 DEF Served
  <2>7. CASE since[c] = "own"
    <3>1. /\ ~Refused(Script[k]) /\ HoldsAt(k, "own")'
          /\ k \in Reads => table = <<OwnAt(k)>>
      BY <1>0, <2>2, <2>5, <2>7, OwnServe
    <3>2. since'[c] = "own"
      BY <2>3, <2>7 DEF AfterOwn
    <3>3. k \in Reads => table # NoTable
      BY <2>5, <2>7 DEF HoldsAt, Reads
    <3>4. HoldsAt(Served(c), since[c])'
      BY <2>6, <3>1, <3>2 DEF HoldsAt
    <3> QED BY <2>2, <2>4, <3>1, <3>3, <3>4 DEF AmongOthers
  <2>8. CASE since[c] \in {"changed", "dropped"}
    <3>0. PICK t : t = AfterOwn(since[c], Script[k])
      OBVIOUS
    <3>1. /\ Refused(Script[k]) => since[c] = "dropped"
          /\ HoldsAt(k, t)'
          /\ k \in Reads => t # "own"
      BY <1>0, <2>2, <2>5, <2>8, <3>0, ForeignServe
    <3>2. HoldsAt(Served(c), since[c])'
      BY <2>3, <2>6, <3>0, <3>1 DEF HoldsAt
    <3>3. Refused(Script[k]) => since'[c] = "dropped"
      BY <2>3, <3>1 DEF AfterOwn
    <3> QED BY <2>2, <2>3, <2>4, <3>0, <3>1, <3>2, <3>3 DEF AmongOthers
  <2> QED BY <1>0, <2>7, <2>8
<1>4. CASE Returns(c)
  <2>1. /\ UNCHANGED <<table, since>> /\ phase[c] = "answered"
        /\ \/ pc[c] = 21 /\ phase'[c] = "done"
           \/ phase'[c] = "ready" /\ pc'[c] = pc[c] + 1
    BY <1>0, <1>4, ScriptLength DEF Returns, RestOK
  <2>2. CASE phase'[c] = "done"
    BY <2>2 DEF AmongOthers, Busy
  <2>3. CASE phase'[c] = "ready" /\ pc'[c] = pc[c] + 1
    <3>1. PICK k \in 1..21 : k = pc[c]
      BY <1>0
    <3>2. Served(c) = k /\ Served(c)' = k
      BY <2>1, <2>3, <3>1 DEF Served
    <3>3. HoldsAt(Served(c), since[c])'
      BY <2>1, <3>2 DEF AmongOthers, Busy, HoldsAt
    <3> QED BY <2>3, <3>3 DEF AmongOthers
  <2> QED BY <2>1, <2>2, <2>3
<1>5. CASE Panics(c) \/ Dies(c)
  BY <1>0, <1>5, <1>b DEF Panics, Dies, RestOK
<1>6. ASSUME NEW d \in Clients \ {c}, Start(d) \/ Post(d) \/ Returns(d) \/ Panics(d) \/ Dies(d)
      PROVE  AmongOthers(c)'
  <2>1. /\ UNCHANGED table /\ since'[c] = since[c] /\ pc'[c] = pc[c]
        /\ phase'[c] = phase[c] /\ reply'[c] = reply[c]
    BY <1>0, <1>6 DEF Start, Post, Returns, Panics, Dies, RestOK, SinceOK
  <2> QED BY <1>a, <2>1
<1>7. ASSUME NEW d \in Clients \ {c}, Serve(d) PROVE AmongOthers(c)'
  <2>1. /\ Execute(Script[pc[d]]) /\ since'[c] = AfterOthers(since[c], Script[pc[d]])
        /\ pc'[c] = pc[c] /\ phase'[c] = phase[c] /\ reply'[c] = reply[c]
    BY <1>0, <1>7 DEF Serve, RestOK, ReplyOK, SinceOK
  <2> QED BY <1>c, <2>1
<1>8. CASE ServeLate
  <2>1. PICK x \in late :
          /\ UNCHANGED <<pc, phase, reply>>
          /\ \/ Execute(x[1]) /\ since' = [d \in Clients |-> AfterOthers(since[d], x[1])]
             \/ UNCHANGED <<table, since>>
    BY <1>8 DEF ServeLate
  <2>2. CASE Execute(x[1]) /\ since' = [d \in Clients |-> AfterOthers(since[d], x[1])]
    BY <1>c, <2>1, <2>2
  <2> QED BY <1>a, <2>1, <2>2
<1>9. CASE Merge
  <2>1. UNCHANGED <<since, pc, phase, reply>>
    BY <1>9 DEF Merge
  <2>2. Served(c)' = Served(c)
    BY <2>1 DEF Served
  <2>3. Busy(c) => HoldsAt(Served(c), since[c])'
    <3>1. ASSUME Busy(c) PROVE HoldsAt(Served(c), since[c])
      BY <3>1 DEF AmongOthers
    <3>2. PICK k \in 0..21 : k = Served(c)
      BY <1>0
    <3>3. Busy(c) => HoldsAt(k, since[c])'
      BY <1>0, <1>9, <2>1, <3>1, <3>2, MergeHolds DEF HoldsAt
    <3> QED BY <2>2, <3>2, <3>3 DEF HoldsAt
  <2> QED BY <2>1, <2>3 DEF AmongOthers, Busy
<1>10. CASE UNCHANGED vars
  BY <1>10, <1>a DEF vars
<1> QED BY <1>1, <1>2, <1>3, <1>4, <1>5, <1>6, <1>7, <1>8, <1>9, <1>10 DEF Next

\* However many runs interleave, and whatever queries of dead ones are still served: only
\* another's DROP makes a run panic over a status, and only another's insert, TRUNCATE or
\* DROP after its own last insert makes it read what it did not write
\* (clickhouse.go:99-138, 141-158).
THEOREM OnlyOthersDisturb == Spec => []OthersAreToBlame
<1> DEFINE Among == \A c \in Clients : AmongOthers(c)
<1>1. Init => Among
  BY DEF Init, AmongOthers, Busy
<1>2. Typed /\ Among /\ [Next]_vars => Among'
  BY AmongOthersStep
<1>3. Among => OthersAreToBlame
  <2> SUFFICES ASSUME Among, NEW c \in Clients, phase[c] = "answered"
               PROVE  /\ ~reply[c].ok => since[c] = "dropped"
                      /\ (since[c] = "own" /\ pc[c] \in 7..18
                            /\ Script[pc[c]] \in {"count", "rows", "final"})
                           => reply[c].rows = <<OwnAt(pc[c])>>
    BY DEF OthersAreToBlame
  <2>1. \A k \in {9, 10, 14, 15} : Script[k] \notin {"count", "rows", "final"}
    BY Places, Versions
  <2>2. pc[c] \in 7..18 /\ Script[pc[c]] \in {"count", "rows", "final"} => pc[c] \in Reads
    BY <2>1 DEF Reads
  <2> QED BY <2>2 DEF AmongOthers
<1> QED BY <1>1, <1>2, <1>3, TypedAlways, PTL DEF Spec
=============================================================================
