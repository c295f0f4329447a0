------------------------------- MODULE Ledger -------------------------------
(***************************************************************************)
(* The charge and refund transactions of VaultPay, statement by statement, *)
(* against the PostgreSQL master:                                          *)
(*                                                                         *)
(*   internal/service/payment_service.go   ProcessCharge, ProcessRefund    *)
(*   internal/repository/payment_repo.go   BeginTx,                        *)
(*        CreateTransactionRecordTx, RefundTransactionRecord               *)
(*   internal/repository/outbox_repository.go   SaveEventTx                *)
(*                                                                         *)
(* Each request runs in a goroutine of its own, so the statements of       *)
(* different requests interleave.  pc[t] names the statement that request  *)
(* t executes next.  Of PostgreSQL the model keeps what the code relies    *)
(* on: row locks held to the end of the transaction, writes that become    *)
(* visible at COMMIT and only there, the snapshot of a SERIALIZABLE        *)
(* transaction with its first-updater-wins rule, and rollback on failure.  *)
(***************************************************************************)
EXTENDS Integers, FiniteSetsExt

CONSTANTS
  UserIds,         \* values clients send as user_id
  Users,           \* those that have a row in the users table
  Requests,        \* the HTTP requests to POST /charges and POST /refunds
  Amounts,         \* values clients send as amount
  InitialBalance,  \* users.balance before the first request
  NoTx             \* a row that no transaction has locked

ASSUME LedgerAssumption ==
  /\ Users \subseteq UserIds
  /\ Amounts \subseteq Int
  /\ InitialBalance \in [Users -> Nat]
  /\ NoTx \notin Requests

VARIABLES
  req,       \* what each request asks for; never changes
  balance,   \* users.balance, committed
  status,    \* payments.status, committed; "none" when there is no row
  outbox,    \* payments that have a row in outbox_events, committed
  pc,        \* the statement each request executes next
  writes,    \* the uncommitted writes of each request's transaction
  userLock,  \* which transaction has locked each users row
  payLock,   \* which transaction has locked each payments row
  stale,     \* SERIALIZABLE snapshots older than the users row they must lock
  resp       \* what the service returned to the handler

table == <<balance, status, outbox>>
vars == <<req, balance, status, outbox, pc, writes, userLock, payLock, stale, resp>>

(***************************************************************************)
(* A refund names a payment id.  gen_random_uuid() never repeats an id, so *)
(* the payment a charge request inserts is named after that request and    *)
(* carries its user_id and amount for ever.                                *)
(***************************************************************************)
Charges == [op : {"charge"}, user : UserIds, amount : Amounts]
Refunds == [op : {"refund"}, target : Requests]

\* The charge whose user and amount a transaction works with.
Payment(t) == IF req[t].op = "charge" THEN req[t] ELSE req[req[t].target]
Account(t) == Payment(t).user

Init ==
  /\ req \in [Requests -> Charges \cup Refunds]
  /\ balance = InitialBalance
  /\ status = [p \in Requests |-> "none"]
  /\ outbox = {}
  /\ pc = [t \in Requests |-> "idle"]
  /\ writes = [t \in Requests |-> {}]
  /\ userLock = [u \in Users |-> NoTx]
  /\ payLock = [p \in Requests |-> NoTx]
  /\ stale = {}
  /\ resp = [t \in Requests |-> "none"]

InTx(t) == pc[t] \notin {"idle", "done"}

Goto(t, from, to) ==
  /\ pc[t] = from
  /\ pc' = [pc EXCEPT ![t] = to]

(***************************************************************************)
(* The end of a transaction gives every row lock back and drops what was   *)
(* not committed.                                                          *)
(***************************************************************************)
EndTx_KeepsLocks(t, answer) ==
  /\ pc' = [pc EXCEPT ![t] = "done"]
  /\ resp' = [resp EXCEPT ![t] = answer]
  /\ writes' = [writes EXCEPT ![t] = {}]
  /\ UNCHANGED <<userLock, payLock>>

EndTx(t, answer) ==
  /\ pc' = [pc EXCEPT ![t] = "done"]
  /\ resp' = [resp EXCEPT ![t] = answer]
  /\ writes' = [writes EXCEPT ![t] = {}]
  /\ userLock' = [u \in Users |-> IF userLock[u] = t THEN NoTx ELSE userLock[u]]
  /\ payLock' = [p \in Requests |-> IF payLock[p] = t THEN NoTx ELSE payLock[p]]

Rollback_SwallowsError(t) ==
  /\ EndTx(t, "ok")
  /\ UNCHANGED <<req, table, stale>>

\* The deferred tx.Rollback() of both services, and the error they return.
Rollback(t) ==
  /\ EndTx(t, "error")
  /\ UNCHANGED <<req, table, stale>>

\* One more write inside the transaction; no other transaction can see it.
Write(t, from, to, w) ==
  /\ Goto(t, from, to)
  /\ writes' = [writes EXCEPT ![t] = @ \cup {w}]

\* What the pending updates add up to on the users row.
Net(t) ==
  (IF "credit" \in writes[t] THEN Payment(t).amount ELSE 0)
    - (IF "debit" \in writes[t] THEN Payment(t).amount ELSE 0)

(***************************************************************************)
(* COMMIT makes the writes of t visible.  Whoever took a snapshot before   *)
(* and still waits for the users row now has a stale snapshot.             *)
(***************************************************************************)
Publish(t) ==
  /\ balance' = [balance EXCEPT ![Account(t)] = @ + Net(t)]
  /\ status' = [p \in Requests |->
                  IF p = t /\ "payment" \in writes[t] THEN "succeeded"
                  ELSE IF req[t].op = "refund" /\ p = req[t].target /\ "refunded" \in writes[t]
                  THEN "refunded" ELSE status[p]]
  /\ outbox' = IF "event" \in writes[t] THEN outbox \cup {t} ELSE outbox
  /\ stale' = stale \cup {s \in Requests : pc[s] = "c_lock" /\ req[s].user = Account(t)}
  /\ UNCHANGED req

-----------------------------------------------------------------------------
(***************************************************************************)
(* POST /charges: ProcessCharge.                                           *)
(***************************************************************************)

\* The amount check of the handler and of the service, then BEGIN.
ChargeBegin(t) ==
  /\ req[t].op = "charge"
  /\ \/ /\ req[t].amount <= 0
        /\ Goto(t, "idle", "done")
        /\ resp' = [resp EXCEPT ![t] = "error"]
     \/ /\ req[t].amount > 0
        /\ Goto(t, "idle", "c_select")
        /\ UNCHANGED resp
  /\ UNCHANGED <<req, table, writes, userLock, payLock, stale>>

(***************************************************************************)
(* SELECT balance FROM users WHERE id = $1 FOR UPDATE is the first         *)
(* statement of a SERIALIZABLE transaction: it takes the snapshot, and     *)
(* only then waits for the row lock.                                       *)
(***************************************************************************)
ChargeSelect(t) ==
  /\ pc[t] = "c_select"
  /\ \/ /\ req[t].user \notin Users
        /\ Rollback(t)
     \/ /\ req[t].user \in Users
        /\ Goto(t, "c_select", "c_lock")
        /\ UNCHANGED <<req, table, writes, userLock, payLock, stale, resp>>

\* "could not serialize access": the row changed after the snapshot.
ChargeConflict(t) ==
  /\ pc[t] = "c_lock"
  /\ t \in stale
  /\ Rollback(t)

\* The same lookup on the pool instead of tx: its lock ends with it and no snapshot is taken.
ChargeLock_OutsideTx(t) ==
  /\ pc[t] = "c_lock"
  /\ userLock[req[t].user] = NoTx
  /\ \/ /\ balance[req[t].user] < req[t].amount
        /\ Rollback(t)
     \/ /\ balance[req[t].user] >= req[t].amount
        /\ Goto(t, "c_lock", "c_update")
        /\ UNCHANGED <<req, table, writes, userLock, payLock, stale, resp>>

ChargeLock(t) ==
  /\ pc[t] = "c_lock"
  /\ t \notin stale
  /\ userLock[req[t].user] = NoTx
  /\ \/ /\ balance[req[t].user] < req[t].amount
        /\ Rollback(t)
     \/ /\ balance[req[t].user] >= req[t].amount
        /\ Goto(t, "c_lock", "c_update")
        /\ userLock' = [userLock EXCEPT ![req[t].user] = t]
        /\ UNCHANGED <<req, table, writes, payLock, stale, resp>>

\* UPDATE users SET balance = balance - $1
ChargeUpdate(t) ==
  /\ Write(t, "c_update", "c_insert", "debit")
  /\ UNCHANGED <<req, table, userLock, payLock, stale, resp>>

ChargeInsert_DefaultStatus(t) ==
  /\ Write(t, "c_insert", "c_event", "pending")
  /\ UNCHANGED <<req, table, userLock, payLock, stale, resp>>

\* INSERT INTO payments ... 'succeeded'
ChargeInsert(t) ==
  /\ Write(t, "c_insert", "c_event", "payment")
  /\ UNCHANGED <<req, table, userLock, payLock, stale, resp>>

SaveEventTx_OwnConnection(t) ==
  /\ Goto(t, "c_event", "c_commit")
  /\ outbox' = outbox \cup {t}
  /\ UNCHANGED <<req, balance, status, writes, userLock, payLock, stale, resp>>

\* INSERT INTO outbox_events ... 'PENDING', on the same transaction
SaveEventTx(t) ==
  /\ Write(t, "c_event", "c_commit", "event")
  /\ UNCHANGED <<req, table, userLock, payLock, stale, resp>>

\* COMMIT; its acknowledgement can be lost although the data is durable.
ChargeCommit(t) ==
  /\ pc[t] = "c_commit"
  /\ Publish(t)
  /\ \E answer \in {"ok", "error"} : EndTx(t, answer)

-----------------------------------------------------------------------------
(***************************************************************************)
(* POST /refunds: RefundTransactionRecord, at READ COMMITTED.              *)
(***************************************************************************)

\* CreateRefundHandler turns a body without a payment_id away, or BEGIN.
RefundBegin(t) ==
  /\ req[t].op = "refund"
  /\ \/ /\ Goto(t, "idle", "done")
        /\ resp' = [resp EXCEPT ![t] = "error"]
     \/ /\ Goto(t, "idle", "r_select")
        /\ UNCHANGED resp
  /\ UNCHANGED <<req, table, writes, userLock, payLock, stale>>

\* The statuses the code accepts; the column's enum only has the first.
Refundable == {"succeeded", "paid", "COMPLETED"}

RefundSelect_AnyStatus(t) ==
  /\ pc[t] = "r_select"
  /\ payLock[req[t].target] = NoTx
  /\ \/ /\ status[req[t].target] = "none"
        /\ Rollback(t)
     \/ /\ status[req[t].target] # "none"
        /\ Goto(t, "r_select", "r_credit")
        /\ payLock' = [payLock EXCEPT ![req[t].target] = t]
        /\ UNCHANGED <<req, table, writes, userLock, stale, resp>>

RefundSelect_WithoutForUpdate(t) ==
  /\ pc[t] = "r_select"
  /\ status[req[t].target] \in Refundable
  /\ Goto(t, "r_select", "r_credit")
  /\ UNCHANGED <<req, table, writes, userLock, payLock, stale, resp>>

\* SELECT ... FROM payments WHERE id = $1 FOR UPDATE, and the status check
RefundSelect(t) ==
  /\ pc[t] = "r_select"
  /\ payLock[req[t].target] = NoTx
  /\ \/ /\ status[req[t].target] \notin Refundable
        /\ Rollback(t)
     \/ /\ status[req[t].target] \in Refundable
        /\ Goto(t, "r_select", "r_credit")
        /\ payLock' = [payLock EXCEPT ![req[t].target] = t]
        /\ UNCHANGED <<req, table, writes, userLock, stale, resp>>

\* UPDATE users SET balance = balance + $1, which waits for the row lock
RefundCredit(t) ==
  /\ pc[t] = "r_credit"
  /\ userLock[Account(t)] = NoTx
  /\ userLock' = [userLock EXCEPT ![Account(t)] = t]
  /\ Write(t, "r_credit", "r_mark", "credit")
  /\ UNCHANGED <<req, table, payLock, stale, resp>>

\* UPDATE payments SET status = 'refunded'
RefundMark(t) ==
  /\ Write(t, "r_mark", "r_commit", "refunded")
  /\ UNCHANGED <<req, table, userLock, payLock, stale, resp>>

RefundCommit(t) ==
  /\ pc[t] = "r_commit"
  /\ Publish(t)
  /\ \E answer \in {"ok", "error"} : EndTx(t, answer)

-----------------------------------------------------------------------------
(***************************************************************************)
(* Any statement, and COMMIT itself, may fail: a lost connection, a        *)
(* cancelled request, the 3 s deadline of a refund, a serialization        *)
(* failure, or the death of the process.  PostgreSQL then rolls back.      *)
(***************************************************************************)
Abort(t) ==
  /\ InTx(t)
  /\ Rollback(t)

Step(t) ==
  \/ ChargeBegin(t) \/ ChargeSelect(t) \/ ChargeConflict(t) \/ ChargeLock(t)
  \/ ChargeUpdate(t) \/ ChargeInsert(t) \/ SaveEventTx(t) \/ ChargeCommit(t)
  \/ RefundBegin(t) \/ RefundSelect(t) \/ RefundCredit(t) \/ RefundMark(t)
  \/ RefundCommit(t)

Next == \E t \in Requests : Step(t) \/ Abort(t)

Spec == Init /\ [][Next]_vars

(***************************************************************************)
(* Every goroutine is scheduled and every statement returns.  Nothing is   *)
(* assumed of Abort: a failure need never happen.                          *)
(***************************************************************************)
FairSpec == Spec /\ \A t \in Requests : WF_vars(Step(t))

-----------------------------------------------------------------------------
(***************************************************************************)
(* Type invariant of the tables, the locks and the transactions that       *)
(* CreateTransactionRecordTx and RefundTransactionRecord work on.          *)
(***************************************************************************)
TypeOK ==
  /\ req \in [Requests -> Charges \cup Refunds]
  /\ balance \in [Users -> Int]
  /\ status \in [Requests -> {"none", "succeeded", "refunded"}]
  /\ outbox \subseteq Requests
  /\ pc \in [Requests -> {"idle", "done", "c_select", "c_lock", "c_update", "c_insert",
                          "c_event", "c_commit", "r_select", "r_credit", "r_mark", "r_commit"}]
  /\ writes \in [Requests -> SUBSET {"debit", "payment", "event", "credit", "refunded"}]
  /\ userLock \in [Users -> Requests \cup {NoTx}]
  /\ payLock \in [Requests -> Requests \cup {NoTx}]
  /\ stale \subseteq Requests
  /\ resp \in [Requests -> {"none", "ok", "error"}]

(***************************************************************************)
(* No balance ever goes below zero, however charges and refunds of one     *)
(* user interleave: the overdraft check of CreateTransactionRecordTx is    *)
(* still true when its COMMIT takes effect.  The column has no CHECK       *)
(* constraint, and this says nothing about the Redis lock: the database    *)
(* transaction alone is enough.                                            *)
(***************************************************************************)
NoOverdraft == \A u \in Users : balance[u] >= 0

(***************************************************************************)
(* A payment row and its outbox row exist together or not at all: no       *)
(* charge without a webhook event and no event without a charge, whatever  *)
(* statement of ProcessCharge fails.                                       *)
(***************************************************************************)
ChargeAtomicity == \A p \in Requests : status[p] # "none" <=> p \in outbox

(***************************************************************************)
(* A request that the service answers with success has taken effect: the   *)
(* charge is on the books, or the payment is refunded and stays so.        *)
(***************************************************************************)
OkMeansCommitted ==
  \A t \in Requests : resp[t] = "ok" =>
    IF req[t].op = "charge" THEN status[t] # "none" ELSE status[req[t].target] = "refunded"

(***************************************************************************)
(* Of all the refund requests for one payment at most one is answered with *)
(* success, so RefundTransactionRecord pays nobody back twice.             *)
(***************************************************************************)
RefundedOnce ==
  \A s, t \in Requests :
    /\ resp[s] = "ok" /\ resp[t] = "ok"
    /\ req[s].op = "refund" /\ req[t].op = "refund"
    /\ req[s].target = req[t].target
    => s = t

\* The payments of u that are not refunded, and what payments add up to.
Held(u) == {p \in Requests : status[p] = "succeeded" /\ req[p].user = u}
Total(rows, S) == MapThenSumSet(LAMBDA p : rows[p].amount, S)

(***************************************************************************)
(* The books add up: what a user has, plus what the user's payments hold   *)
(* that are not refunded, is what the user started with.  Double debits,   *)
(* lost updates and double refunds by CreateTransactionRecordTx and        *)
(* RefundTransactionRecord would all show here.                            *)
(***************************************************************************)
Conservation == \A u \in Users : balance[u] + Total(req, Held(u)) = InitialBalance[u]

\* The transaction that holds the row which the next statement of t locks
Awaits(t) ==
  CASE pc[t] = "c_lock" -> userLock[req[t].user]
    [] pc[t] = "r_select" -> payLock[req[t].target]
    [] pc[t] = "r_credit" -> userLock[Account(t)]
    [] OTHER -> NoTx

(***************************************************************************)
(* No deadlock and no orphaned lock: who waits for a row, waits for a      *)
(* transaction that is still running.  That one, a refund between its      *)
(* SELECT and its UPDATE of the users row, may wait for another, and the   *)
(* other waits for nobody.                                                 *)
(***************************************************************************)
WaitsEnd ==
  \A t \in Requests : LET s == Awaits(t) IN s # NoTx =>
    /\ InTx(s)
    /\ Awaits(s) # NoTx => InTx(Awaits(s)) /\ Awaits(Awaits(s)) = NoTx

(***************************************************************************)
(* Each charge and each refund is atomic: the interleaved statements       *)
(* implement the one-step ledger.                                          *)
(***************************************************************************)
Atomic == INSTANCE AtomicLedger
          WITH req <- req, balance <- balance, status <- status, outbox <- outbox

\* The refinement as TLC and the proof state it.
Linearizable == Atomic!Spec

(***************************************************************************)
(* Every request that begins is answered: charges wait for the users row,  *)
(* refunds hold a payments row while they wait for it, and no cycle of     *)
(* waiting forms.                                                          *)
(***************************************************************************)
Answered == \A t \in Requests : pc[t] # "idle" ~> pc[t] = "done"
=============================================================================
