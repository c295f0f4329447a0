------------------------- MODULE CircuitBreakerProofs -------------------------
(***************************************************************************)
(* TripsAtThreshold is inductive once the types are known; the types need  *)
(* that a query about to run the operation has attempts left, and this     *)
(* that a query waiting for the write lock has used none.  A breaker rests *)
(* after a trip because the time of the trip is the time that CanExecute   *)
(* looks at, until CanExecute itself replaces it.                          *)
(***************************************************************************)
EXTENDS CircuitBreaker, TLAPS

AttemptsLeft == \A q \in Queries : pc[q] = "operation" => attempt[q] < MaxRetries

Waiting == \A q \in Queries : pc[q] = "canExecute" => attempt[q] = 0

Resting == lastTrip = "recent" => lastStateLog = "recent" /\ state # "HALF_OPEN"

IInv == TypeOK /\ AttemptsLeft /\ Waiting /\ TripsAtThreshold /\ Resting

LEMMA InitIInv == Init => IInv
BY BreakerAssumption DEF Init, IInv, TypeOK, AttemptsLeft, Waiting, TripsAtThreshold, Resting

LEMMA StepTypes ==
  ASSUME TypeOK, AttemptsLeft, Waiting, [Next]_vars
  PROVE  TypeOK' /\ AttemptsLeft' /\ Waiting'
<1> USE BreakerAssumption DEF TypeOK, AttemptsLeft, Waiting, Goto, Fails, breaker
<1>1. CASE Cooldown
  BY <1>1 DEF Cooldown
<1>2. ASSUME NEW q \in Queries, Step(q)
      PROVE  TypeOK' /\ AttemptsLeft' /\ Waiting'
  <2>1. CASE PeekState(q)
    BY <2>1 DEF PeekState
  <2>2. CASE CanExecute(q)
    BY <2>2 DEF CanExecute
  <2>3. CASE Fallback(q)
    BY <2>3 DEF Fallback
  <2>4. CASE Operation(q)
    BY <2>4 DEF Operation
  <2>5. CASE Cancelled(q)
    BY <2>5 DEF Cancelled
  <2>6. CASE Backoff(q)
    BY <2>6 DEF Backoff
  <2>7. CASE RecordSuccess(q)
    BY <2>7 DEF RecordSuccess
  <2>8. CASE RecordFailure(q)
    BY <2>8 DEF RecordFailure
  <2> QED
    BY <1>2, <2>1, <2>2, <2>3, <2>4, <2>5, <2>6, <2>7, <2>8 DEF Step
<1>3. CASE UNCHANGED vars
  BY <1>3 DEF vars
<1> QED
  BY <1>1, <1>2, <1>3 DEF Next

LEMMA StepTrips ==
  ASSUME TypeOK, TripsAtThreshold, [Next]_vars
  PROVE  TripsAtThreshold'
<1> USE BreakerAssumption DEF TypeOK, TripsAtThreshold, Goto, breaker
<1>1. CASE Cooldown
  BY <1>1 DEF Cooldown
<1>2. ASSUME NEW q \in Queries, Step(q)
      PROVE  TripsAtThreshold'
  <2>1. CASE PeekState(q) \/ Fallback(q) \/ Operation(q) \/ Cancelled(q) \/ Backoff(q)
    BY <2>1 DEF PeekState, Fallback, Operation, Cancelled, Backoff
  <2>2. CASE CanExecute(q)
    BY <2>2 DEF CanExecute
  <2>3. CASE RecordSuccess(q)
    BY <2>3 DEF RecordSuccess
  <2>4. CASE RecordFailure(q)
    BY <2>4 DEF RecordFailure
  <2> QED
    BY <1>2, <2>1, <2>2, <2>3, <2>4 DEF Step
<1>3. CASE UNCHANGED vars
  BY <1>3 DEF vars
<1> QED
  BY <1>1, <1>2, <1>3 DEF Next

LEMMA StepRests ==
  ASSUME TypeOK, Resting, [Next]_vars
  PROVE  Resting'
<1> USE DEF TypeOK, Resting, Goto, breaker
<1>1. CASE Cooldown
  BY <1>1 DEF Cooldown
<1>2. ASSUME NEW q \in Queries, Step(q)
      PROVE  Resting'
  <2>1. CASE PeekState(q) \/ Fallback(q) \/ Operation(q) \/ Cancelled(q) \/ Backoff(q)
    BY <2>1 DEF PeekState, Fallback, Operation, Cancelled, Backoff
  <2>2. CASE CanExecute(q)
    BY <2>2 DEF CanExecute
  <2>3. CASE RecordSuccess(q)
    BY <2>3 DEF RecordSuccess
  <2>4. CASE RecordFailure(q)
    BY <2>4 DEF RecordFailure
  <2> QED
    BY <1>2, <2>1, <2>2, <2>3, <2>4 DEF Step
<1>3. CASE UNCHANGED vars
  BY <1>3 DEF vars
<1> QED
  BY <1>1, <1>2, <1>3 DEF Next

(***************************************************************************)
(* The inductive invariant holds in every reachable state.                 *)
(***************************************************************************)
THEOREM Invariant == Spec => []IInv
<1>1. IInv /\ [Next]_vars => IInv'
  BY StepTypes, StepTrips, StepRests DEF IInv
<1> QED
  BY <1>1, InitIInv, PTL DEF Spec

(***************************************************************************)
(* For every number of queries, threshold and retry limit, the breaker is  *)
(* CLOSED exactly while fewer than Threshold queries have failed since the *)
(* last success: neither late reports nor the gap between the two locks of *)
(* CanExecute can bring its state and its counter apart.                   *)
(***************************************************************************)
THEOREM BreakerConsistent == Spec => [](TypeOK /\ TripsAtThreshold)
<1>1. IInv => TypeOK /\ TripsAtThreshold
  BY DEF IInv
<1> QED
  BY <1>1, Invariant, PTL

\* A query that did not hold an admission and now does got it from PeekState or CanExecute.
LEMMA StepAdmits ==
  ASSUME TypeOK, Resting, [Next]_vars, NEW q \in Queries,
         pc[q] \in {"idle", "canExecute"}, pc'[q] = "operation", lastTrip = "recent"
  PROVE  state = "CLOSED"
<1> USE DEF TypeOK, Goto
<1>1. PICK r \in Queries : Step(r)
  BY DEF Next, Cooldown, vars
<1>2. CASE PeekState(r) \/ Fallback(r) \/ Operation(r) \/ Cancelled(r) \/ Backoff(r)
  BY <1>2 DEF PeekState, Fallback, Operation, Cancelled, Backoff
<1>3. CASE CanExecute(r)
  BY <1>3 DEF CanExecute, Resting
<1>4. CASE RecordSuccess(r) \/ RecordFailure(r)
  BY <1>4 DEF RecordSuccess, RecordFailure
<1> QED
  BY <1>1, <1>2, <1>3, <1>4 DEF Step

(***************************************************************************)
(* For every number of queries and every threshold, no query is admitted   *)
(* between a trip and the end of its cooldown unless a success has closed  *)
(* the breaker meanwhile.                                                  *)
(***************************************************************************)
THEOREM BreakerTurnsAway == Spec => TurnedAwayAfterTrip
<1>1. IInv /\ [Next]_vars =>
        [\A q \in Queries :
           pc[q] \in {"idle", "canExecute"} /\ pc'[q] = "operation" /\ lastTrip = "recent"
             => state = "CLOSED"]_vars
  BY StepAdmits DEF IInv
<1> QED
  BY <1>1, Invariant, PTL DEF Spec, TurnedAwayAfterTrip
=============================================================================
