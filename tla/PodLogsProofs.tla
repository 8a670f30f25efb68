--------------------------- MODULE PodLogsProofs ---------------------------
(* Invariance proofs for PodLogs: any targets and labels.  The argument is about *)
(* a target without twins: nobody else ever touches the name of its log file, so *)
(* the file of that name, once it is there, is the one its kubectl writes to.    *)
EXTENDS PodLogs, TLAPS

LEMMA LogfileIsALabel ==
  ASSUME NEW t \in Targets
  PROVE  Logfile(t) = Label(t) /\ Logfile(t) \in Labels
BY PodLogsAssumption DEF Logfile

\* The type invariant of the threads, the directory and the files.
THEOREM TypeCorrect == Spec => []TypeOK
<1>1. Init => TypeOK
  BY DEF Init, TypeOK, Finished
<1>2. TypeOK /\ [Next]_vars => TypeOK'
  <2> SUFFICES ASSUME TypeOK, [Next]_vars PROVE TypeOK'
    OBVIOUS
  <2> USE DEF TypeOK, Finished
  <2>1. CASE AllStarted \/ Joined \/ Interrupt
    BY <2>1 DEF AllStarted, Joined, Interrupt
  <2>2. ASSUME NEW t \in Targets, StartThread(t) PROVE TypeOK'
    BY <2>2 DEF StartThread
  <2>3. ASSUME NEW t \in Targets, Exists(t) PROVE TypeOK'
    BY <2>3 DEF Exists
  <2>4. ASSUME NEW t \in Targets, Remove(t) PROVE TypeOK'
    <3>1. thread' \in [Targets -> {"new", "exists", "remove", "open", "follow"} \cup Finished]
      BY <2>4 DEF Remove
    <3>2. dir' \in [Labels -> Targets \cup {None}]
      BY <2>4 DEF Remove
    <3> QED BY <2>4, <3>1, <3>2 DEF Remove
  <2>5. ASSUME NEW t \in Targets, Open(t) PROVE TypeOK'
    <3>1. PICK f \in Targets : /\ dir' = [dir EXCEPT ![Logfile(t)] = f]
                               /\ writes' = [writes EXCEPT ![t] = f]
                               /\ content' = [content EXCEPT ![f] = {}]
      BY <2>5, LogfileIsALabel DEF Open
    <3>2. dir' \in [Labels -> Targets \cup {None}]
      BY <3>1
    <3>3. writes' \in [Targets -> Targets \cup {None}] /\ content' \in [Targets -> SUBSET Targets]
      BY <3>1
    <3>4. thread' \in [Targets -> {"new", "exists", "remove", "open", "follow"} \cup Finished]
      BY <2>5 DEF Open
    <3> QED BY <2>5, <3>2, <3>3, <3>4 DEF Open
  <2>6. ASSUME NEW t \in Targets, Log(t) PROVE TypeOK'
    <3>1. content' \in [Targets -> SUBSET Targets]
      BY <2>6 DEF Log
    <3> QED BY <2>6, <3>1 DEF Log
  <2>7. ASSUME NEW t \in Targets, CommandEnds(t) PROVE TypeOK'
    BY <2>7 DEF CommandEnds
  <2>8. ASSUME NEW t \in Targets, TimesOut(t) PROVE TypeOK'
    BY <2>8 DEF TimesOut
  <2>9. CASE UNCHANGED vars
    BY <2>9 DEF vars
  <2> QED BY <2>1, <2>2, <2>3, <2>4, <2>5, <2>6, <2>7, <2>8, <2>9 DEF Next, ThreadStep
<1> QED BY <1>1, <1>2, PTL DEF Spec

-----------------------------------------------------------------------------
(* The inductive invariant *)

\* A file has the label of the target that created it.
FilesKeepTheirLabel == \A l \in Labels : dir[l] # None => Label(dir[l]) = l

\* How far the thread of a target without twins has come, and what it has left.
Untouched(t) ==
  /\ thread[t] \notin {"remove", "raised"}
  /\ thread[t] \in {"new", "exists", "open"} =>
       dir[Label(t)] = None /\ t \notin kubectl /\ t \notin logged
  /\ t \in kubectl => dir[Label(t)] = t /\ writes[t] = t
  /\ t \in logged => dir[Label(t)] = t /\ t \in content[t]

IInv == FilesKeepTheirLabel /\ \A t \in Targets : Twins(t) = {} => Untouched(t)

LEMMA TwinsOfOthers ==
  ASSUME NEW t \in Targets, NEW u \in Targets, Twins(t) = {}, u # t
  PROVE  Label(u) # Label(t)
BY DEF Twins

LEMMA LabelsKept == TypeOK /\ FilesKeepTheirLabel /\ [Next]_vars => FilesKeepTheirLabel'
<1> SUFFICES ASSUME TypeOK, FilesKeepTheirLabel, [Next]_vars PROVE FilesKeepTheirLabel'
  OBVIOUS
<1> USE DEF TypeOK, FilesKeepTheirLabel
<1>1. ASSUME NEW t \in Targets, Remove(t) PROVE FilesKeepTheirLabel'
  BY <1>1, LogfileIsALabel DEF Remove
<1>2. ASSUME NEW t \in Targets, Open(t) PROVE FilesKeepTheirLabel'
  BY <1>2, LogfileIsALabel DEF Open
<1>3. CASE UNCHANGED dir
  BY <1>3
<1> QED
  BY <1>1, <1>2, <1>3 DEF Next, ThreadStep, AllStarted, Joined, Interrupt, StartThread,
     Exists, Log, CommandEnds, TimesOut, vars

LEMMA UntouchedKept ==
  ASSUME TypeOK, FilesKeepTheirLabel, [Next]_vars,
         NEW t \in Targets, Twins(t) = {}, Untouched(t)
  PROVE  Untouched(t)'
<1> USE PodLogsAssumption DEF TypeOK, Untouched
<1>1. CASE AllStarted \/ Joined \/ Interrupt
  BY <1>1 DEF AllStarted, Joined, Interrupt
<1>2. ASSUME NEW u \in Targets, StartThread(u) PROVE Untouched(t)'
  BY <1>2 DEF StartThread
<1>3. ASSUME NEW u \in Targets, Exists(u) PROVE Untouched(t)'
  BY <1>3, LogfileIsALabel DEF Exists
<1>4. ASSUME NEW u \in Targets, Remove(u) PROVE Untouched(t)'
  <2>1. u # t
    BY <1>4 DEF Remove
  <2>2. dir'[Label(t)] = dir[Label(t)] /\ thread'[t] = thread[t]
    BY <1>4, <2>1, TwinsOfOthers, LogfileIsALabel DEF Remove
  <2> QED BY <1>4, <2>2 DEF Remove
<1>5. ASSUME NEW u \in Targets, Open(u) PROVE Untouched(t)'
  <2>1. PICK f \in Targets : /\ f = IF dir[Logfile(u)] = None THEN u ELSE dir[Logfile(u)]
                             /\ dir' = [dir EXCEPT ![Logfile(u)] = f]
                             /\ writes' = [writes EXCEPT ![u] = f]
                             /\ content' = [content EXCEPT ![f] = {}]
    BY <1>5, LogfileIsALabel DEF Open
  <2>2. Label(f) = Label(u)
    BY <2>1, LogfileIsALabel DEF FilesKeepTheirLabel
  <2>3. CASE u = t
    <3>1. f = t /\ t \notin logged
      BY <1>5, <2>1, <2>3, LogfileIsALabel DEF Open
    <3>2. dir'[Label(t)] = t /\ writes'[t] = t
      BY <2>1, <2>3, <3>1, LogfileIsALabel
    <3> QED BY <1>5, <2>3, <3>1, <3>2 DEF Open
  <2>4. CASE u # t
    <3>1. Label(u) # Label(t) /\ f # t
      BY <2>2, <2>4, TwinsOfOthers
    <3>2. dir'[Label(t)] = dir[Label(t)] /\ writes'[t] = writes[t] /\ content'[t] = content[t]
      BY <2>1, <2>4, <3>1, LogfileIsALabel
    <3> QED BY <1>5, <2>4, <3>2 DEF Open
  <2> QED BY <2>3, <2>4
<1>6. ASSUME NEW u \in Targets, Log(u) PROVE Untouched(t)'
  <2>1. content[t] \subseteq content'[t]
    BY <1>6 DEF Log
  <2>2. u = t => t \in content'[t]
    BY <1>6 DEF Log
  <2> QED BY <1>6, <2>1, <2>2 DEF Log
<1>7. ASSUME NEW u \in Targets, CommandEnds(u) PROVE Untouched(t)'
  BY <1>7 DEF CommandEnds
<1>8. ASSUME NEW u \in Targets, TimesOut(u) PROVE Untouched(t)'
  BY <1>8 DEF TimesOut
<1>9. CASE UNCHANGED vars
  BY <1>9 DEF vars
<1> QED BY <1>1, <1>2, <1>3, <1>4, <1>5, <1>6, <1>7, <1>8, <1>9 DEF Next, ThreadStep

\* The inductive invariant: what no other namespace can disturb, none does.
THEOREM TwinlessUntouched == Spec => []IInv
<1>1. Init => IInv
  BY PodLogsAssumption DEF Init, IInv, FilesKeepTheirLabel, Untouched
<1>2. TypeOK /\ IInv /\ [Next]_vars => IInv'
  BY LabelsKept, UntouchedKept DEF IInv, Twins
<1> QED BY <1>1, <1>2, TypeCorrect, PTL DEF Spec

-----------------------------------------------------------------------------

\* Logs are lost only when two namespaces use one label.
THEOREM LogsOfTwinlessCollected == Spec => []LostOnlyToTwins
<1>1. TypeOK /\ IInv => LostOnlyToTwins
  BY PodLogsAssumption DEF TypeOK, IInv, Untouched, LostOnlyToTwins, Collected
<1> QED BY <1>1, TypeCorrect, TwinlessUntouched, PTL

\* os.remove raises in a thread only when two namespaces use its label.
THEOREM TwinlessNeverRaise == Spec => []RaisesOnlyForTwins
<1>1. IInv => RaisesOnlyForTwins
  BY DEF IInv, Untouched, RaisesOnlyForTwins
<1> QED BY <1>1, TwinlessUntouched, PTL
=============================================================================
