------------------------------ MODULE Disputes ------------------------------
(***************************************************************************)
(* internal/service/dispute.go and internal/handler/dispute_handler.go:    *)
(* disputes kept in two sync.Maps.  Each call of a map is atomic, the      *)
(* sequence Load, Store, Store of CreateDispute is not.                    *)
(*                                                                         *)
(* A dispute is named after the request that opens it: the handler draws   *)
(* its id from 64 random bits.                                             *)
(***************************************************************************)
EXTENDS Integers, FiniteSets

CONSTANTS
  Requests,   \* POST /v1/disputes
  Payments,   \* payment ids requests may name
  Seeded      \* the payments in paymentsMap ("ch_test_99" in the code)

VARIABLES
  target,       \* req.PaymentID
  pc,           \* where each request is
  answer,       \* its status code
  paymentsMap,  \* payment id -> status
  disputesMap   \* requests whose dispute is stored

vars == <<target, pc, answer, paymentsMap, disputesMap>>

Init ==
  /\ target \in [Requests -> Payments]
  /\ pc = [r \in Requests |-> "idle"]
  /\ answer = [r \in Requests |-> "none"]
  /\ paymentsMap = [p \in Payments |-> IF p \in Seeded THEN "SUCCESS" ELSE "absent"]
  /\ disputesMap = {}

Goto(r, from, to) ==
  /\ pc[r] = from
  /\ pc' = [pc EXCEPT ![r] = to]

Reply(r, code) == answer' = [answer EXCEPT ![r] = code]

Malformed(r) ==
  /\ Goto(r, "idle", "done")
  /\ Reply(r, "400")
  /\ UNCHANGED <<target, paymentsMap, disputesMap>>

\* paymentsMap.Load and the two early returns.
Load(r) ==
  /\ \/ /\ paymentsMap[target[r]] = "absent"
        /\ Goto(r, "idle", "done") /\ Reply(r, "404")
     \/ /\ paymentsMap[target[r]] = "DISPUTED"
        /\ Goto(r, "idle", "done") /\ Reply(r, "409")
     \/ /\ paymentsMap[target[r]] = "SUCCESS"
        /\ Goto(r, "idle", "mark") /\ UNCHANGED answer
  /\ UNCHANGED <<target, paymentsMap, disputesMap>>

\* paymentsMap.Store(paymentID, "DISPUTED")
StorePayment(r) ==
  /\ Goto(r, "mark", "store")
  /\ paymentsMap' = [paymentsMap EXCEPT ![target[r]] = "DISPUTED"]
  /\ UNCHANGED <<target, answer, disputesMap>>

\* disputesMap.Store and 201.
StoreDispute(r) ==
  /\ Goto(r, "store", "done")
  /\ disputesMap' = disputesMap \cup {r}
  /\ Reply(r, "201")
  /\ UNCHANGED <<target, paymentsMap>>

Next ==
  \E r \in Requests : Malformed(r) \/ Load(r) \/ StorePayment(r) \/ StoreDispute(r)

Spec == Init /\ [][Next]_vars

-----------------------------------------------------------------------------
(***************************************************************************)
(* "payment is already locked in an active dispute case": a payment has at *)
(* most one open dispute.  Two requests may both load SUCCESS before       *)
(* either stores DISPUTED.                                                 *)
(***************************************************************************)
OneDisputePerPayment ==
  \A p \in Payments : Cardinality({r \in disputesMap : target[r] = p}) <= 1
=============================================================================
