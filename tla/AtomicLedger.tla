---------------------------- MODULE AtomicLedger ----------------------------
(***************************************************************************)
(* What the payment ledger promises: a charge and a refund are each one    *)
(* indivisible step.  Nothing of transactions, row locks, snapshots or     *)
(* failures is visible here; a request that fails simply takes no step.    *)
(* Ledger.tla, which executes the SQL statement by statement, is shown to  *)
(* implement this module.                                                  *)
(***************************************************************************)
EXTENDS Integers

CONSTANTS
  Users,           \* ids that have a row in the users table
  Requests,        \* HTTP requests; a charge's payment row is named after it
  InitialBalance   \* users.balance before the first request

VARIABLES
  req,       \* what each request asks for; never changes
  balance,   \* users.balance, committed
  status,    \* payments.status, committed; "none" when there is no row
  outbox     \* payments that have a row in outbox_events, committed

vars == <<req, balance, status, outbox>>

Init ==
  /\ balance = InitialBalance
  /\ status = [p \in Requests |-> "none"]
  /\ outbox = {}

(***************************************************************************)
(* ProcessCharge: the debit, the payment row and the outbox row appear     *)
(* together, once, and only for a positive amount the user can cover.      *)
(***************************************************************************)
Charge(p) ==
  /\ req[p].op = "charge"
  /\ req[p].user \in Users
  /\ req[p].amount > 0
  /\ req[p].amount <= balance[req[p].user]
  /\ status[p] = "none"
  /\ balance' = [balance EXCEPT ![req[p].user] = @ - req[p].amount]
  /\ status' = [status EXCEPT ![p] = "succeeded"]
  /\ outbox' = outbox \cup {p}
  /\ UNCHANGED req

(***************************************************************************)
(* RefundTransactionRecord: the amount of a succeeded payment goes back to *)
(* its owner, and the payment can never be refunded again.                 *)
(***************************************************************************)
Refund(p) ==
  /\ status[p] = "succeeded"
  /\ balance' = [balance EXCEPT ![req[p].user] = @ + req[p].amount]
  /\ status' = [status EXCEPT ![p] = "refunded"]
  /\ UNCHANGED <<req, outbox>>

Next == \E p \in Requests : Charge(p) \/ Refund(p)

Spec == Init /\ [][Next]_vars
=============================================================================
