------------------------------ MODULE PodLogs ------------------------------
(***************************************************************************)
(* python/k8s_kubectl_logs_all_pods_labels.py: one thread for each         *)
(* namespace and label follows the logs of the label's pods with kubectl   *)
(* into a file named after the label alone.                                *)
(*                                                                         *)
(* The threads run concurrently; the two seconds between their starts are  *)
(* an interval, not an order of their later steps, and are left out.  A    *)
(* file is known by the thread whose shell created it: removing a file     *)
(* does not stop a kubectl that has it open.                               *)
(***************************************************************************)
EXTENDS Naturals, FiniteSets

CONSTANTS
  Targets,       \* ns_label_list: pairs of a namespace and a label
  Label(_),      \* the label of a target
  Labels,        \* the labels there are
  None           \* no file

ASSUME PodLogsAssumption ==
  /\ IsFiniteSet(Targets)
  /\ \A t \in Targets : Label(t) \in Labels
  /\ None \notin Targets

VARIABLES
  main,       \* where the main thread is
  thread,     \* thread[t]: where in task_get_k8s_pods_logs the thread of t is
  kubectl,    \* the targets whose kubectl runs
  dir,        \* dir[l]: the file with the name of label l
  writes,     \* writes[t]: the file the kubectl of t writes to
  content,    \* content[f]: the targets that have lines in file f
  logged      \* the targets whose pods have logged (no variable of the code)

vars == <<main, thread, kubectl, dir, writes, content, logged>>

Finished == {"ended", "timeout", "raised"}

TypeOK ==
  /\ main \in {"start", "join", "told", "exited"}
  /\ thread \in [Targets -> {"new", "exists", "remove", "open", "follow"} \cup Finished]
  /\ kubectl \subseteq Targets
  /\ dir \in [Labels -> Targets \cup {None}]
  /\ writes \in [Targets -> Targets \cup {None}]
  /\ content \in [Targets -> SUBSET Targets]
  /\ logged \subseteq Targets

Init ==
  /\ main = "start"
  /\ thread = [t \in Targets |-> "new"]
  /\ kubectl = {}
  /\ dir = [l \in Labels |-> None]
  /\ writes = [t \in Targets |-> None]
  /\ content = [t \in Targets |-> {}]
  /\ logged = {}

Running == main \in {"start", "join"}

\* Seeded bugs, here and below: PROJECT.json says which definition each replaces.
OneFile == CHOOSE l \in Labels : TRUE
BugLogfile(t) == OneFile               \* one log file for all labels

\* The name of a target's log file.
Logfile(t) == Label(t)

-----------------------------------------------------------------------------
(* The main thread *)

\* The targets are started in the order of a set, which is any order.
StartThread(t) ==
  /\ main = "start"
  /\ thread[t] = "new"
  /\ thread' = [thread EXCEPT ![t] = "exists"]
  /\ UNCHANGED <<main, kubectl, dir, writes, content, logged>>

AllStarted ==
  /\ main = "start"
  /\ \A t \in Targets : thread[t] # "new"
  /\ main' = "join"
  /\ UNCHANGED <<thread, kubectl, dir, writes, content, logged>>

\* Every thread.join() has returned.
Joined ==
  /\ main = "join"
  /\ \A t \in Targets : thread[t] \in Finished
  /\ main' = "exited"
  /\ UNCHANGED <<thread, kubectl, dir, writes, content, logged>>

\* CTRL+C reaches every process of the terminal; the message is printed when the
\* main thread is joining.  The threads are daemons and end with it.
Interrupt ==
  /\ Running
  /\ main' = IF main = "join" THEN "told" ELSE "exited"
  /\ kubectl' = {}
  /\ UNCHANGED <<thread, dir, writes, content, logged>>

-----------------------------------------------------------------------------
(* task_get_k8s_pods_logs *)

Exists(t) ==
  /\ Running
  /\ thread[t] = "exists"
  /\ thread' = [thread EXCEPT ![t] = IF dir[Logfile(t)] = None THEN "open" ELSE "remove"]
  /\ UNCHANGED <<main, kubectl, dir, writes, content, logged>>

\* os.remove raises when another thread has removed the file since.
Remove(t) ==
  /\ Running
  /\ thread[t] = "remove"
  /\ thread' = [thread EXCEPT ![t] = IF dir[Logfile(t)] = None THEN "raised" ELSE "open"]
  /\ dir' = [dir EXCEPT ![Logfile(t)] = None]
  /\ UNCHANGED <<main, kubectl, writes, content, logged>>

\* The shell opens the file for >, creating or truncating it, and starts kubectl.
Open(t) ==
  /\ Running
  /\ thread[t] = "open"
  /\ LET f == IF dir[Logfile(t)] = None THEN t ELSE dir[Logfile(t)] IN
       /\ dir' = [dir EXCEPT ![Logfile(t)] = f]
       /\ writes' = [writes EXCEPT ![t] = f]
       /\ content' = [content EXCEPT ![f] = {}]
  /\ thread' = [thread EXCEPT ![t] = "follow"]
  /\ kubectl' = kubectl \cup {t}
  /\ UNCHANGED <<main, logged>>

\* A pod of the target logs; kubectl writes the line.
Log(t) ==
  /\ t \in kubectl
  /\ content' = [content EXCEPT ![writes[t]] = @ \cup {t}]
  /\ logged' = logged \cup {t}
  /\ UNCHANGED <<main, thread, kubectl, dir, writes>>

\* The pods are gone: kubectl ends, and communicate returns.
CommandEnds(t) ==
  /\ t \in kubectl
  /\ kubectl' = kubectl \ {t}
  /\ thread' = [thread EXCEPT ![t] = IF @ = "follow" THEN "ended" ELSE @]
  /\ UNCHANGED <<main, dir, writes, content, logged>>

BugTimesOut(t) ==                      \* communicate() without a timeout
  /\ FALSE
  /\ thread[t] = "follow"
  /\ UNCHANGED vars

\* communicate(timeout=3600) raises; nobody kills kubectl.
TimesOut(t) ==
  /\ Running
  /\ thread[t] = "follow"
  /\ thread' = [thread EXCEPT ![t] = "timeout"]
  /\ UNCHANGED <<main, kubectl, dir, writes, content, logged>>

-----------------------------------------------------------------------------

ThreadStep(t) == Exists(t) \/ Remove(t) \/ Open(t) \/ TimesOut(t)

Next ==
  \/ AllStarted \/ Joined \/ Interrupt
  \/ \E t \in Targets : StartThread(t) \/ ThreadStep(t) \/ Log(t) \/ CommandEnds(t)

Spec == Init /\ [][Next]_vars

\* Every thread is scheduled, and an hour passes; nobody has to press CTRL+C.
FairSpec ==
  /\ Spec
  /\ WF_vars(AllStarted) /\ WF_vars(Joined)
  /\ \A t \in Targets : WF_vars(StartThread(t)) /\ WF_vars(ThreadStep(t))

-----------------------------------------------------------------------------
(* Properties *)

Collected(t) == LET f == dir[Label(t)] IN f # None /\ t \in content[f]

Twins(t) == {u \in Targets \ {t} : Label(u) = Label(t)}

\* What a target has logged is in the directory under its label, unless another
\* namespace uses the same label (lines 28-31).
LostOnlyToTwins == \A t \in logged : Collected(t) \/ Twins(t) # {}

\* A thread dies in os.remove only when such a target's thread got in between
\* (lines 29-30).
RaisesOnlyForTwins == \A t \in Targets : thread[t] = "raised" => Twins(t) # {}

\* "Waiting for all threads to finish" (line 46) comes to an end by itself.
JoinReturns == (main = "join") ~> (main \in {"told", "exited"})

\* "The logs from all the xxxx pods in all the xxxx namespaces in the k8s cluster
\* are collected" (lines 51-52).
AllCollected == main = "told" => \A t \in logged : Collected(t)
=============================================================================
