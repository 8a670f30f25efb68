------------------------------ MODULE Tornado ------------------------------
(***************************************************************************)
(* python/tornado_test.py: one thread runs the handlers of requests and    *)
(* half_second_loop.  A request leaves its callback in a random bucket of  *)
(* connection_db; every half second the loop draws a bucket and answers    *)
(* the request it finds there with the number of draws since the last      *)
(* answer.                                                                 *)
(*                                                                         *)
(* The coroutine yields only in gen.sleep, so a draw and the answer it     *)
(* leads to are one step.                                                  *)
(***************************************************************************)
EXTENDS Integers

CONSTANTS
  Requests,   \* requests that clients may make
  Buckets,    \* range of the random numbers
  None,       \* an empty bucket
  MaxTicks    \* bound: draws are counted up to here

ASSUME TornadoAssumption ==
  /\ None \notin Requests
  /\ MaxTicks \in Nat

VARIABLES
  connection_db,   \* connection_db[b]: the request whose callback is in bucket b
  bucket,          \* bucket[r]: the bucket get has drawn for request r, a local variable
  status,          \* status[r]: where request r is
  tries,           \* tries[r]: the number its answer shows
  count            \* draws since the last answer

vars == <<connection_db, bucket, status, tries, count>>

Capped(n) == IF n > MaxTicks THEN MaxTicks ELSE n

TypeOK ==
  /\ connection_db \in [Buckets -> Requests \cup {None}]
  /\ bucket \in [Requests -> Buckets \cup {None}]
  /\ status \in [Requests -> {"none", "waiting", "gone", "answered"}]
  /\ tries \in [Requests -> 0..MaxTicks]
  /\ count \in 0..MaxTicks

Init ==
  /\ connection_db = [b \in Buckets |-> None]
  /\ bucket = [r \in Requests |-> None]
  /\ status = [r \in Requests |-> "none"]
  /\ tries = [r \in Requests |-> 0]
  /\ count = 0

\* FileHandler.get: a callback already in the bucket is overwritten.
Get(r) ==
  /\ status[r] = "none"
  /\ \E b \in Buckets :
       /\ bucket' = [bucket EXCEPT ![r] = b]
       /\ connection_db' = [connection_db EXCEPT ![b] = r]
  /\ status' = [status EXCEPT ![r] = "waiting"]
  /\ UNCHANGED <<tries, count>>

\* The client of a waiting request goes away; its callback stays.
Disconnect(r) ==
  /\ status[r] = "waiting"
  /\ status' = [status EXCEPT ![r] = "gone"]
  /\ UNCHANGED <<connection_db, bucket, tries, count>>

\* half_second_loop draws an empty bucket.
Miss(b) ==
  /\ connection_db[b] = None
  /\ count' = Capped(count + 1)
  /\ UNCHANGED <<connection_db, bucket, status, tries>>

\* Seeded bugs: PROJECT.json says which definition each replaces.
BugHitKeeps(b) ==                  \* the entry is not deleted
  /\ connection_db[b] # None
  /\ status' = [status EXCEPT ![connection_db[b]] = "answered"]
  /\ tries' = [tries EXCEPT ![connection_db[b]] = Capped(count + 1)]
  /\ count' = 0
  /\ UNCHANGED <<connection_db, bucket>>

BugHitForgets(b) ==                \* the entry is deleted, and its callback not called
  /\ connection_db[b] # None
  /\ connection_db' = [connection_db EXCEPT ![b] = None]
  /\ count' = 0
  /\ UNCHANGED <<bucket, status, tries>>

\* half_second_loop draws a callback: it is deleted, then called.
Hit(b) ==
  /\ connection_db[b] # None
  /\ connection_db' = [connection_db EXCEPT ![b] = None]
  /\ status' = [status EXCEPT ![connection_db[b]] = "answered"]
  /\ tries' = [tries EXCEPT ![connection_db[b]] = Capped(count + 1)]
  /\ count' = 0
  /\ UNCHANGED bucket

Next ==
  \/ \E r \in Requests : Get(r) \/ Disconnect(r)
  \/ \E b \in Buckets : Miss(b) \/ Hit(b)

Spec == Init /\ [][Next]_vars

\* Random draws come to every bucket again and again.
FairSpec == Spec /\ \A b \in Buckets : WF_vars(Hit(b))

-----------------------------------------------------------------------------
(* Properties *)

\* A registered callback is that of a request not answered yet, and no request
\* has two: the entry is deleted before it is called (tornado_test.py:56-59).
CallbackIsPending ==
  \A b \in Buckets : connection_db[b] # None =>
    /\ status[connection_db[b]] \in {"waiting", "gone"}
    /\ \A d \in Buckets : connection_db[d] = connection_db[b] => d = b

\* No request is answered a second time: RequestHandler.finish would raise, and
\* half_second_loop with it (tornado_test.py:43-46).
AnsweredOnce ==
  [][\A r \in Requests : status[r] = "answered" =>
       status'[r] = "answered" /\ tries'[r] = tries[r]]_vars

Waits(r) == status[r] = "waiting"

\* Another request has drawn r's bucket, before r or after it.
Shared(r) == \E q \in Requests \ {r} : bucket[q] = bucket[r]

\* A request that shares its bucket with no other is answered, unless its client leaves,
\* whatever is drawn, called and overwritten elsewhere (tornado_test.py:41, 54-59).
UnsharedIsAnswered == \A r \in Requests : Waits(r) ~> ~Waits(r) \/ Shared(r)

\* What the comment at tornado_test.py:7-19 promises: the loop comes to the number of any
\* request, and its callback sends the response.
EveryRequestIsAnswered == \A r \in Requests : Waits(r) ~> ~Waits(r)
=============================================================================
