--------------------------- MODULE TornadoProofs ---------------------------
(* Invariance proofs for Tornado: every set of requests, every set of buckets. *)
EXTENDS Tornado, TLAPS

LEMMA CappedType ==
  ASSUME NEW n \in Nat
  PROVE  Capped(n) \in 0..MaxTicks
BY TornadoAssumption DEF Capped

\* The type invariant of the callback table, the requests and the counters.
THEOREM TypeCorrect == Spec => []TypeOK
<1>1. Init => TypeOK
  BY TornadoAssumption DEF Init, TypeOK
<1>2. TypeOK /\ [Next]_vars => TypeOK'
  <2> SUFFICES ASSUME TypeOK, [Next]_vars PROVE TypeOK'
    OBVIOUS
  <2> USE DEF TypeOK
  <2>1. Capped(count + 1) \in 0..MaxTicks
    BY CappedType, TornadoAssumption
  <2>2. ASSUME NEW r \in Requests, Get(r) PROVE TypeOK'
    BY <2>2 DEF Get
  <2>3. ASSUME NEW r \in Requests, Disconnect(r) PROVE TypeOK'
    BY <2>3 DEF Disconnect
  <2>4. ASSUME NEW b \in Buckets, Miss(b) PROVE TypeOK'
    BY <2>1, <2>4 DEF Miss
  <2>5. ASSUME NEW b \in Buckets, Hit(b) PROVE TypeOK'
    BY <2>1, <2>5, TornadoAssumption DEF Hit
  <2>6. CASE UNCHANGED vars
    BY <2>6 DEF vars
  <2> QED BY <2>2, <2>3, <2>4, <2>5, <2>6 DEF Next
<1> QED BY <1>1, <1>2, PTL DEF Spec


\* Every callback in connection_db belongs to one unanswered request.
THEOREM CallbacksPending == Spec => []CallbackIsPending
<1> DEFINE IInv == TypeOK /\ CallbackIsPending
<1>1. Init => CallbackIsPending
  BY DEF Init, CallbackIsPending
<1>2. IInv /\ [Next]_vars => CallbackIsPending'
  <2> SUFFICES ASSUME TypeOK, CallbackIsPending, [Next]_vars PROVE CallbackIsPending'
    OBVIOUS
  <2> USE TornadoAssumption DEF TypeOK, CallbackIsPending
  <2>1. ASSUME NEW r \in Requests, Get(r) PROVE CallbackIsPending'
    <3>1. \A b \in Buckets : connection_db[b] # r
      BY <2>1 DEF Get
    <3>2. PICK b \in Buckets : connection_db' = [connection_db EXCEPT ![b] = r]
      BY <2>1 DEF Get
    <3>3. status' = [status EXCEPT ![r] = "waiting"]
      BY <2>1 DEF Get
    <3> QED BY <3>1, <3>2, <3>3
  <2>2. ASSUME NEW r \in Requests, Disconnect(r) PROVE CallbackIsPending'
    BY <2>2 DEF Disconnect
  <2>3. ASSUME NEW b \in Buckets, Miss(b) PROVE CallbackIsPending'
    BY <2>3 DEF Miss
  <2>4. ASSUME NEW b \in Buckets, Hit(b) PROVE CallbackIsPending'
    BY <2>4 DEF Hit
  <2>5. CASE UNCHANGED vars
    BY <2>5 DEF vars
  <2> QED BY <2>1, <2>2, <2>3, <2>4, <2>5 DEF Next
<1> QED BY <1>1, <1>2, TypeCorrect, PTL DEF Spec

\* No request is ever answered twice.
THEOREM NoSecondAnswer == Spec => AnsweredOnce
<1>1. ASSUME TypeOK, CallbackIsPending, [Next]_vars,
             NEW r \in Requests, status[r] = "answered"
      PROVE  status'[r] = "answered" /\ tries'[r] = tries[r]
  <2> USE TornadoAssumption, <1>1 DEF TypeOK
  <2>1. ASSUME NEW q \in Requests, Get(q) \/ Disconnect(q)
        PROVE  status'[r] = "answered" /\ tries'[r] = tries[r]
    BY <2>1 DEF Get, Disconnect
  <2>2. ASSUME NEW b \in Buckets, Miss(b)
        PROVE  status'[r] = "answered" /\ tries'[r] = tries[r]
    BY <2>2 DEF Miss
  <2>3. ASSUME NEW b \in Buckets, Hit(b)
        PROVE  status'[r] = "answered" /\ tries'[r] = tries[r]
    <3>1. connection_db[b] # r
      BY <2>3 DEF Hit, CallbackIsPending
    <3> QED BY <2>3, <3>1 DEF Hit
  <2>4. CASE UNCHANGED vars
    BY <2>4 DEF vars
  <2> QED BY <2>1, <2>2, <2>3, <2>4 DEF Next
<1>2. TypeOK /\ CallbackIsPending /\ [Next]_vars
      => [\A r \in Requests : status[r] = "answered" =>
            status'[r] = "answered" /\ tries'[r] = tries[r]]_vars
  BY <1>1
<1> QED BY <1>2, TypeCorrect, CallbacksPending, PTL DEF Spec, AnsweredOnce
=============================================================================
