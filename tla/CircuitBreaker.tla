---------------------------- MODULE CircuitBreaker ----------------------------
(***************************************************************************)
(* internal/database/cluster.go: the breaker in front of the read replica  *)
(* (CanExecute, RecordFailure, RecordSuccess) and RetryQuery, which wraps  *)
(* a read in it.  Each critical section of cb.mu is one step, so a query   *)
(* that was admitted long ago may report its outcome at any later time.    *)
(*                                                                         *)
(* Of time only the test time.Since(cb.lastStateLog) > cb.cooldown is      *)
(* kept: lastStateLog is "recent" or "past".                               *)
(***************************************************************************)
EXTENDS Naturals

CONSTANTS
  Queries,     \* goroutines that call RetryQuery, over and over
  Threshold,   \* failed queries that trip the breaker (5 in the code)
  MaxRetries,  \* attempts of one query (3 in the code)
  MaxFaults    \* bound on the operations that fail

ASSUME BreakerAssumption ==
  /\ Threshold \in Nat \ {0}
  /\ MaxRetries \in Nat \ {0}
  /\ MaxFaults \in Nat

VARIABLES
  state,         \* cb.state
  failureCount,  \* cb.failureCount
  lastStateLog,  \* cb.lastStateLog
  pc,            \* where each query is
  attempt,       \* i, the attempts of the loop that have failed
  faults,        \* operations that have failed so far
  lastTrip       \* history: when RecordFailure last opened the breaker

breaker == <<state, failureCount, lastStateLog>>
vars == <<state, failureCount, lastStateLog, pc, attempt, faults, lastTrip>>

\* The zero time is long ago.
Init ==
  /\ state = "CLOSED"
  /\ failureCount = 0
  /\ lastStateLog = "past"
  /\ pc = [q \in Queries |-> "idle"]
  /\ attempt = [q \in Queries |-> 0]
  /\ faults = 0
  /\ lastTrip = "past"

Goto(q, from, to) ==
  /\ pc[q] = from
  /\ pc' = [pc EXCEPT ![q] = to]

-----------------------------------------------------------------------------
(***************************************************************************)
(* CanExecute: a look under the read lock, and another under the write     *)
(* lock unless the first saw CLOSED.  The breaker may change in between.   *)
(***************************************************************************)
PeekState(q) ==
  /\ Goto(q, "idle", IF state = "CLOSED" THEN "operation" ELSE "canExecute")
  /\ attempt' = [attempt EXCEPT ![q] = 0]
  /\ UNCHANGED <<breaker, faults, lastTrip>>

CanExecute_OneTrial(q) ==
  /\ \/ /\ state = "OPEN" /\ lastStateLog = "past"
        /\ state' = "HALF_OPEN"
        /\ lastStateLog' = "recent"
        /\ Goto(q, "canExecute", "operation")
     \/ /\ (state = "OPEN" /\ lastStateLog = "recent") \/ state = "HALF_OPEN"
        /\ Goto(q, "canExecute", "fallback")
        /\ UNCHANGED <<state, lastStateLog>>
     \/ /\ state = "CLOSED"
        /\ Goto(q, "canExecute", "operation")
        /\ UNCHANGED <<state, lastStateLog>>
  /\ UNCHANGED <<failureCount, attempt, faults, lastTrip>>

CanExecute(q) ==
  /\ \/ /\ state = "OPEN" /\ lastStateLog = "past"
        /\ state' = "HALF_OPEN"
        /\ lastStateLog' = "recent"
        /\ Goto(q, "canExecute", "operation")
     \/ /\ state = "OPEN" /\ lastStateLog = "recent"
        /\ Goto(q, "canExecute", "fallback")
        /\ UNCHANGED <<state, lastStateLog>>
     \/ /\ state # "OPEN"
        /\ Goto(q, "canExecute", "operation")
        /\ UNCHANGED <<state, lastStateLog>>
  /\ UNCHANGED <<failureCount, attempt, faults, lastTrip>>

Fails == faults < MaxFaults /\ faults' = faults + 1

(***************************************************************************)
(* "Fallback Strategy: [...] gracefully route the read query to Master!"   *)
(* What runs is the caller's operation() as it stands, once: RetryQuery    *)
(* has no other pool to give it, and unlike the comment says the query     *)
(* still goes to the replica.  Its error is returned as it is, and the     *)
(* breaker is not told.                                                    *)
(***************************************************************************)
Fallback(q) ==
  /\ Goto(q, "fallback", "idle")
  /\ Fails \/ UNCHANGED faults
  /\ UNCHANGED <<breaker, attempt, lastTrip>>

(***************************************************************************)
(* One turn of the loop.  After a failure the query may find its context   *)
(* cancelled, there or during the backoff, and return without a report.    *)
(***************************************************************************)
Operation(q) ==
  /\ \/ Goto(q, "operation", "success") /\ UNCHANGED <<attempt, faults>>
     \/ /\ Goto(q, "operation", "backoff")
        /\ Fails
        /\ attempt' = [attempt EXCEPT ![q] = @ + 1]
  /\ UNCHANGED <<breaker, lastTrip>>

Cancelled(q) ==
  /\ Goto(q, "backoff", "idle")
  /\ UNCHANGED <<breaker, attempt, faults, lastTrip>>

Backoff_OneTooMany(q) ==
  /\ Goto(q, "backoff", IF attempt[q] <= MaxRetries THEN "operation" ELSE "failure")
  /\ UNCHANGED <<breaker, attempt, faults, lastTrip>>

Backoff(q) ==
  /\ Goto(q, "backoff", IF attempt[q] < MaxRetries THEN "operation" ELSE "failure")
  /\ UNCHANGED <<breaker, attempt, faults, lastTrip>>

RecordSuccess_KeepsCount(q) ==
  /\ Goto(q, "success", "idle")
  /\ state' = "CLOSED"
  /\ UNCHANGED <<failureCount, lastStateLog, attempt, faults, lastTrip>>

RecordSuccess(q) ==
  /\ Goto(q, "success", "idle")
  /\ state' = "CLOSED"
  /\ failureCount' = 0
  /\ UNCHANGED <<lastStateLog, attempt, faults, lastTrip>>

RecordFailure_NoTimestamp(q) ==
  /\ Goto(q, "failure", "idle")
  /\ failureCount' = failureCount + 1
  /\ IF state = "HALF_OPEN" \/ failureCount' >= Threshold
       THEN state' = "OPEN" /\ lastTrip' = "recent" /\ UNCHANGED lastStateLog
       ELSE UNCHANGED <<state, lastStateLog, lastTrip>>
  /\ UNCHANGED <<attempt, faults>>

RecordFailure(q) ==
  /\ Goto(q, "failure", "idle")
  /\ failureCount' = failureCount + 1
  /\ IF state = "HALF_OPEN" \/ failureCount' >= Threshold
       THEN state' = "OPEN" /\ lastStateLog' = "recent" /\ lastTrip' = "recent"
       ELSE UNCHANGED <<state, lastStateLog, lastTrip>>
  /\ UNCHANGED <<attempt, faults>>

\* The cooldown since lastStateLog runs out.
Cooldown ==
  /\ lastStateLog = "recent"
  /\ lastStateLog' = "past"
  /\ lastTrip' = "past"
  /\ UNCHANGED <<state, failureCount, pc, attempt, faults>>

-----------------------------------------------------------------------------
Step(q) ==
  \/ PeekState(q) \/ CanExecute(q) \/ Fallback(q) \/ Operation(q)
  \/ Cancelled(q) \/ Backoff(q) \/ RecordSuccess(q) \/ RecordFailure(q)

Next == Cooldown \/ \E q \in Queries : Step(q)

Spec == Init /\ [][Next]_vars

\* Time passes, goroutines run, and reads keep coming.
FairSpec == Spec /\ WF_vars(Cooldown) /\ \A q \in Queries : WF_vars(Step(q))

-----------------------------------------------------------------------------
(***************************************************************************)
(* Type invariant of the breaker and its callers.                          *)
(***************************************************************************)
TypeOK ==
  /\ state \in {"CLOSED", "OPEN", "HALF_OPEN"}
  /\ failureCount \in Nat
  /\ lastStateLog \in {"recent", "past"}
  /\ pc \in [Queries -> {"idle", "canExecute", "fallback", "operation", "backoff", "success",
                         "failure"}]
  /\ attempt \in [Queries -> 0..MaxRetries]
  /\ faults \in 0..MaxFaults
  /\ lastTrip \in {"recent", "past"}

(***************************************************************************)
(* "Trip open after 5 consecutive failures": whatever the order in which   *)
(* queries report, the breaker lets everything through exactly as long as  *)
(* fewer than Threshold queries have failed since the last success.        *)
(***************************************************************************)
TripsAtThreshold == state = "CLOSED" <=> failureCount < Threshold

(***************************************************************************)
(* What CanExecute promises after a trip: until the cooldown is over it    *)
(* turns every query away, OPEN or HALF_OPEN and whatever is reported late *)
(* by queries admitted before; only a success of one of those, which       *)
(* closes the breaker, lets queries in before their time.  A query that is *)
(* turned away takes the fallback, of which this says nothing.             *)
(***************************************************************************)
TurnedAwayAfterTrip ==
  [][\A q \in Queries :
       pc[q] \in {"idle", "canExecute"} /\ pc'[q] = "operation" /\ lastTrip = "recent"
         => state = "CLOSED"]_vars

(***************************************************************************)
(* The breaker cannot get stuck: once the replica stops failing, it        *)
(* closes and stays closed, even if the query that made it HALF_OPEN is    *)
(* cancelled and never reports.                                            *)
(***************************************************************************)
Recovers == <>[](state = "CLOSED")

=============================================================================
