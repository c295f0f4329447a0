---------------------------- MODULE LedgerProofs ----------------------------
(***************************************************************************)
(* Proofs about Ledger, for any number of users, requests and amounts.     *)
(*                                                                         *)
(* The inductive invariant says, for each transaction, what it has earned  *)
(* by the statement it has reached: the row locks it holds, what it knows  *)
(* of the committed tables because of them, and what it has written.  Two  *)
(* transactions cannot both hold a row since userLock and payLock are      *)
(* functions; so what one of them knows, no commit of another can change.  *)
(***************************************************************************)
EXTENDS Ledger, FiniteSetTheorems, TLAPS

ChargeHolds == {"c_update", "c_insert", "c_event", "c_commit"}
ChargeSteps == {"c_select", "c_lock"} \cup ChargeHolds
CreditHolds == {"r_mark", "r_commit"}
RefundHolds == {"r_credit"} \cup CreditHolds
RefundSteps == {"r_select"} \cup RefundHolds

\* A charge under way is for a positive amount; past the SELECT its user exists,
\* and past the row lock the balance covers it.
ChargePhase(t) ==
  /\ pc[t] \in ChargeSteps => req[t].op = "charge" /\ req[t].amount > 0
  /\ pc[t] \in {"c_lock"} \cup ChargeHolds => req[t].user \in Users
  /\ pc[t] \in ChargeHolds =>
       userLock[req[t].user] = t /\ req[t].amount <= balance[req[t].user]

\* A refund under way holds the payment it found succeeded, then its owner's row.
RefundPhase(t) ==
  /\ pc[t] \in RefundSteps => req[t].op = "refund"
  /\ pc[t] \in RefundHolds =>
       payLock[req[t].target] = t /\ status[req[t].target] = "succeeded"
  /\ pc[t] \in CreditHolds => userLock[req[req[t].target].user] = t

\* What the transaction has written when it reaches COMMIT.
WritesPhase(t) ==
  /\ pc[t] \in {"c_update", "r_credit"} \cup {"idle", "c_select", "c_lock", "r_select"}
       => writes[t] = {}
  /\ pc[t] = "c_insert" => writes[t] = {"debit"}
  /\ pc[t] = "c_event" => writes[t] = {"debit", "payment"}
  /\ pc[t] = "c_commit" => writes[t] = {"debit", "payment", "event"}
  /\ pc[t] = "r_mark" => writes[t] = {"credit"}
  /\ pc[t] = "r_commit" => writes[t] = {"credit", "refunded"}

\* A payment row exists only once its request is done, for a valid charge.
RowPhase(t) ==
  /\ pc[t] # "done" => status[t] = "none"
  /\ status[t] # "none" => req[t].op = "charge" /\ req[t].user \in Users /\ req[t].amount > 0

PhaseOK(t) == ChargePhase(t) /\ RefundPhase(t) /\ WritesPhase(t) /\ RowPhase(t)

PhaseInv == \A t \in Requests : PhaseOK(t)

IInv == TypeOK /\ PhaseInv /\ NoOverdraft /\ ChargeAtomicity

-----------------------------------------------------------------------------

\* What the fields of a request can be, given what it asks for.
LEMMA ReqTypes ==
  ASSUME TypeOK, NEW t \in Requests
  PROVE  /\ req[t].op \in {"charge", "refund"}
         /\ req[t].op = "charge" => req[t].user \in UserIds /\ req[t].amount \in Int
         /\ req[t].op = "refund" => req[t].target \in Requests
BY LedgerAssumption DEF TypeOK, Charges, Refunds

LEMMA InitIInv == Init => IInv
BY LedgerAssumption DEF Init, IInv, TypeOK, PhaseInv, PhaseOK, NoOverdraft, ChargeAtomicity, ChargePhase,
   RefundPhase, WritesPhase, RowPhase, ChargeHolds, ChargeSteps, CreditHolds, RefundHolds, RefundSteps

\* Ending a transaction keeps the types and releases only its own locks.
LEMMA EndTxType ==
  ASSUME TypeOK, NEW t \in Requests, NEW answer \in {"ok", "error"}, EndTx(t, answer)
  PROVE  /\ pc' = [pc EXCEPT ![t] = "done"]
         /\ pc'[t] = "done"
         /\ \A s \in Requests \ {t} : pc'[s] = pc[s] /\ writes'[s] = writes[s]
         /\ \A u \in Users : userLock[u] # t => userLock'[u] = userLock[u]
         /\ \A p \in Requests : payLock[p] # t => payLock'[p] = payLock[p]
         /\ pc' \in [Requests -> {"idle", "done", "c_select", "c_lock", "c_update", "c_insert",
                          "c_event", "c_commit", "r_select", "r_credit", "r_mark", "r_commit"}]
         /\ writes' \in [Requests -> SUBSET {"debit", "payment", "event", "credit", "refunded"}]
         /\ userLock' \in [Users -> Requests \cup {NoTx}]
         /\ payLock' \in [Requests -> Requests \cup {NoTx}]
         /\ resp' \in [Requests -> {"none", "ok", "error"}]
BY DEF EndTx, TypeOK

(***************************************************************************)
(* A commit publishes exactly the abstract charge or refund.               *)
(***************************************************************************)
LEMMA ChargeCommitEffect ==
  ASSUME IInv, NEW t \in Requests, ChargeCommit(t)
  PROVE  /\ Atomic!Charge(t)
         /\ stale' \subseteq Requests
         /\ \E answer \in {"ok", "error"} : EndTx(t, answer)
<1>1. /\ writes[t] = {"debit", "payment", "event"}
      /\ req[t].op = "charge" /\ req[t].amount > 0 /\ req[t].user \in Users
      /\ req[t].amount <= balance[req[t].user] /\ status[t] = "none"
  BY DEF IInv, PhaseInv, PhaseOK, ChargeCommit, ChargePhase, WritesPhase, RowPhase, ChargeSteps, ChargeHolds
<1>2. req[t].amount \in Int /\ balance[req[t].user] \in Int
  BY <1>1, ReqTypes DEF IInv, TypeOK
<1>3. balance' = [balance EXCEPT ![req[t].user] = @ - req[t].amount]
  <2>1. Net(t) = 0 - req[t].amount /\ Account(t) = req[t].user
    BY <1>1, <1>2 DEF Net, Payment, Account
  <2>2. balance' = [balance EXCEPT ![req[t].user] = @ + (0 - req[t].amount)]
    BY <2>1 DEF ChargeCommit, Publish
  <2>3. balance[req[t].user] + (0 - req[t].amount) = balance[req[t].user] - req[t].amount
    BY <1>2
  <2> QED BY <2>2, <2>3, Zenon
<1>4. status' = [status EXCEPT ![t] = "succeeded"]
  BY <1>1 DEF ChargeCommit, Publish, IInv, TypeOK
<1>5. outbox' = outbox \cup {t} /\ UNCHANGED req /\ stale' \subseteq Requests
  BY <1>1 DEF ChargeCommit, Publish, IInv, TypeOK
<1>6. \E answer \in {"ok", "error"} : EndTx(t, answer)
  BY DEF ChargeCommit
<1> QED BY <1>1, <1>2, <1>3, <1>4, <1>5, <1>6 DEF Atomic!Charge

LEMMA RefundCommitEffect ==
  ASSUME IInv, NEW t \in Requests, RefundCommit(t)
  PROVE  /\ req[t].op = "refund" /\ req[t].target \in Requests
         /\ Atomic!Refund(req[t].target)
         /\ stale' \subseteq Requests
         /\ \E answer \in {"ok", "error"} : EndTx(t, answer)
<1> DEFINE p == req[t].target
<1>1. /\ writes[t] = {"credit", "refunded"}
      /\ req[t].op = "refund" /\ status[p] = "succeeded"
  BY DEF IInv, PhaseInv, PhaseOK, RefundCommit, RefundPhase, WritesPhase, RefundSteps, RefundHolds, CreditHolds
<1>2. p \in Requests
  BY <1>1, ReqTypes DEF IInv
<1>3. req[p].op = "charge" /\ req[p].user \in Users /\ req[p].amount > 0
  BY <1>1, <1>2 DEF IInv, PhaseInv, PhaseOK, RowPhase
<1>4. req[p].amount \in Int /\ balance[req[p].user] \in Int
  BY <1>2, <1>3, ReqTypes DEF IInv, TypeOK
<1>5. balance' = [balance EXCEPT ![req[p].user] = @ + req[p].amount]
  <2>1. Net(t) = req[p].amount /\ Account(t) = req[p].user
    BY <1>1, <1>4 DEF Net, Payment, Account
  <2> QED BY <2>1 DEF RefundCommit, Publish
<1>6. status' = [status EXCEPT ![p] = "refunded"]
  BY <1>1, <1>2 DEF RefundCommit, Publish, IInv, TypeOK
<1>7. UNCHANGED <<req, outbox>> /\ stale' \subseteq Requests
  BY <1>1 DEF RefundCommit, Publish, IInv, TypeOK
<1>8. \E answer \in {"ok", "error"} : EndTx(t, answer)
  BY DEF RefundCommit
<1> QED BY <1>1, <1>2, <1>5, <1>6, <1>7, <1>8 DEF Atomic!Refund

(***************************************************************************)
(* The invariant is inductive.                                             *)
(***************************************************************************)

\* A step of t that commits nothing and touches no lock of s leaves s as it was.
LEMMA OthersUndisturbed ==
  ASSUME IInv, NEW t \in Requests, NEW s \in Requests \ {t},
         UNCHANGED <<req, balance, status>>,
         pc'[s] = pc[s], writes'[s] = writes[s],
         \A u \in Users : userLock[u] = s => userLock'[u] = s,
         \A p \in Requests : payLock[p] = s => payLock'[p] = s
  PROVE  PhaseOK(s)'
<1>1. ChargePhase(s)'
  BY DEF IInv, PhaseInv, PhaseOK, ChargePhase, ChargeHolds, ChargeSteps
<1>2. RefundPhase(s)'
  <2>1. pc[s] \in RefundHolds => req[s].target \in Requests /\ payLock[req[s].target] = s
    BY ReqTypes DEF IInv, PhaseInv, PhaseOK, RefundPhase, RefundSteps
  <2>2. pc[s] \in RefundHolds => req[req[s].target].user \in Users
    BY <2>1 DEF IInv, PhaseInv, PhaseOK, RefundPhase, RowPhase
  <2> QED BY <2>1, <2>2 DEF IInv, PhaseInv, PhaseOK, RefundPhase, RefundHolds, CreditHolds, RefundSteps
<1>3. WritesPhase(s)' /\ RowPhase(s)'
  BY DEF IInv, PhaseInv, PhaseOK, WritesPhase, RowPhase
<1> QED BY <1>1, <1>2, <1>3 DEF PhaseOK

LEMMA RollbackKeepsIInv ==
  ASSUME IInv, NEW t \in Requests, Rollback(t)
  PROVE  IInv'
<1>1. EndTx(t, "error") /\ UNCHANGED <<req, balance, status, outbox, stale>>
  BY DEF Rollback, table
<1>2. TypeOK'
  BY <1>1, EndTxType DEF TypeOK, IInv
<1>3. ASSUME NEW s \in Requests PROVE PhaseOK(s)'
  <2>1. CASE s = t
    BY <1>1, <2>1, EndTxType DEF IInv, PhaseInv, PhaseOK, ChargePhase, RefundPhase, WritesPhase,
       RowPhase, ChargeHolds, ChargeSteps, CreditHolds, RefundHolds, RefundSteps
  <2>2. CASE s # t
    BY <1>1, <2>2, EndTxType, OthersUndisturbed DEF IInv
  <2> QED BY <2>1, <2>2
<1>4. NoOverdraft' /\ ChargeAtomicity'
  BY <1>1 DEF NoOverdraft, ChargeAtomicity, IInv
<1> QED BY <1>2, <1>3, <1>4 DEF IInv, PhaseInv, PhaseOK

\* A step of t inside its transaction: the tables stay, only t moves on.
InsideTx(t) ==
  /\ UNCHANGED <<req, table>>
  /\ \A s \in Requests \ {t} : pc'[s] = pc[s] /\ writes'[s] = writes[s]
  /\ \A s \in Requests \ {t}, u \in Users : userLock[u] = s => userLock'[u] = s
  /\ \A s \in Requests \ {t}, p \in Requests : payLock[p] = s => payLock'[p] = s

LEMMA InsideTxKeepsIInv ==
  ASSUME IInv, NEW t \in Requests, InsideTx(t), TypeOK', PhaseOK(t)'
  PROVE  IInv'
<1>1. ASSUME NEW s \in Requests PROVE PhaseOK(s)'
  <2>1. CASE s = t
    BY <2>1
  <2>2. CASE s # t
    BY <2>2, OthersUndisturbed DEF InsideTx, table
  <2> QED BY <2>1, <2>2
<1>2. NoOverdraft' /\ ChargeAtomicity'
  BY DEF NoOverdraft, ChargeAtomicity, IInv, InsideTx, table
<1> QED BY <1>1, <1>2 DEF IInv, PhaseInv, PhaseOK

LEMMA ChargeStepsKeepIInv ==
  ASSUME IInv, NEW t \in Requests,
         ChargeBegin(t) \/ ChargeSelect(t) \/ ChargeConflict(t) \/ ChargeLock(t)
           \/ ChargeUpdate(t) \/ ChargeInsert(t) \/ SaveEventTx(t)
  PROVE  IInv'
<1> USE DEF PhaseOK, ChargePhase, RefundPhase, WritesPhase, RowPhase, ChargeHolds, ChargeSteps,
            CreditHolds, RefundHolds, RefundSteps
<1>0. TypeOK /\ PhaseOK(t) /\ NoTx \notin Requests
  BY LedgerAssumption DEF IInv, PhaseInv, PhaseOK
<1>1. CASE ChargeBegin(t)
  <2>1. TypeOK' /\ InsideTx(t) /\ PhaseOK(t)'
    BY <1>0, <1>1 DEF ChargeBegin, Goto, InsideTx, table, TypeOK
  <2> QED BY <2>1, InsideTxKeepsIInv
<1>2. CASE ChargeSelect(t)
  <2>1. CASE Rollback(t)
    BY <2>1, RollbackKeepsIInv
  <2>2. CASE ~Rollback(t)
    <3>1. TypeOK' /\ InsideTx(t) /\ PhaseOK(t)'
      BY <1>0, <1>2, <2>2 DEF ChargeSelect, Goto, InsideTx, table, TypeOK
    <3> QED BY <3>1, InsideTxKeepsIInv
  <2> QED BY <2>1, <2>2
<1>3. CASE ChargeConflict(t)
  BY <1>3, RollbackKeepsIInv DEF ChargeConflict
<1>4. CASE ChargeLock(t)
  <2>1. CASE Rollback(t)
    BY <2>1, RollbackKeepsIInv
  <2>2. CASE ~Rollback(t)
    <3>1. TypeOK' /\ InsideTx(t) /\ PhaseOK(t)'
      BY <1>0, <1>4, <2>2 DEF ChargeLock, Goto, InsideTx, table, TypeOK
    <3> QED BY <3>1, InsideTxKeepsIInv
  <2> QED BY <2>1, <2>2
<1>5. CASE ChargeUpdate(t)
  <2>1. TypeOK' /\ InsideTx(t) /\ PhaseOK(t)'
    BY <1>0, <1>5 DEF ChargeUpdate, Write, Goto, InsideTx, table, TypeOK
  <2> QED BY <2>1, InsideTxKeepsIInv
<1>6. CASE ChargeInsert(t)
  <2>1. TypeOK' /\ InsideTx(t) /\ PhaseOK(t)'
    BY <1>0, <1>6 DEF ChargeInsert, Write, Goto, InsideTx, table, TypeOK
  <2> QED BY <2>1, InsideTxKeepsIInv
<1>7. CASE SaveEventTx(t)
  <2>1. TypeOK' /\ InsideTx(t) /\ PhaseOK(t)'
    BY <1>0, <1>7 DEF SaveEventTx, Write, Goto, InsideTx, table, TypeOK
  <2> QED BY <2>1, InsideTxKeepsIInv
<1> QED BY <1>1, <1>2, <1>3, <1>4, <1>5, <1>6, <1>7

LEMMA RefundStepsKeepIInv ==
  ASSUME IInv, NEW t \in Requests,
         RefundBegin(t) \/ RefundSelect(t) \/ RefundCredit(t) \/ RefundMark(t)
  PROVE  IInv'
<1> USE DEF PhaseOK, ChargePhase, RefundPhase, WritesPhase, RowPhase, ChargeHolds, ChargeSteps,
            CreditHolds, RefundHolds, RefundSteps
<1>0. TypeOK /\ PhaseOK(t) /\ NoTx \notin Requests
  BY LedgerAssumption DEF IInv, PhaseInv, PhaseOK
<1>1. CASE RefundBegin(t)
  <2>1. TypeOK' /\ InsideTx(t) /\ PhaseOK(t)'
    BY <1>0, <1>1 DEF RefundBegin, Goto, InsideTx, table, TypeOK
  <2> QED BY <2>1, InsideTxKeepsIInv
<1>2. CASE RefundSelect(t)
  <2>1. CASE Rollback(t)
    BY <2>1, RollbackKeepsIInv
  <2>2. CASE ~Rollback(t)
    <3>1. req[t].target \in Requests
      BY <1>0, <1>2, ReqTypes DEF RefundSelect
    <3>2. TypeOK' /\ InsideTx(t) /\ PhaseOK(t)'
      BY <1>0, <1>2, <2>2, <3>1 DEF RefundSelect, Refundable, Goto, InsideTx, table, TypeOK
    <3> QED BY <3>2, InsideTxKeepsIInv
  <2> QED BY <2>1, <2>2
<1>3. CASE RefundCredit(t)
  <2>1. req[t].op = "refund" /\ req[t].target \in Requests
    BY <1>0, <1>3, ReqTypes DEF RefundCredit
  <2>2. req[req[t].target].user \in Users
    BY <1>0, <1>3, <2>1 DEF RefundCredit, IInv, PhaseInv, PhaseOK
  <2>3. Account(t) = req[req[t].target].user
    BY <2>1 DEF Account, Payment
  <2>4. TypeOK' /\ InsideTx(t) /\ PhaseOK(t)'
    BY <1>0, <1>3, <2>1, <2>2, <2>3 DEF RefundCredit, Write, Goto, InsideTx, table, TypeOK
  <2> QED BY <2>4, InsideTxKeepsIInv
<1>4. CASE RefundMark(t)
  <2>1. TypeOK' /\ InsideTx(t) /\ PhaseOK(t)'
    BY <1>0, <1>4 DEF RefundMark, Write, Goto, InsideTx, table, TypeOK
  <2> QED BY <2>1, InsideTxKeepsIInv
<1> QED BY <1>1, <1>2, <1>3, <1>4

\* A commit by t cannot disturb s: s would hold the very row that t holds.
LEMMA ChargeCommitKeepsIInv ==
  ASSUME IInv, NEW t \in Requests, ChargeCommit(t)
  PROVE  IInv'
<1> DEFINE u == req[t].user
<1>1. Atomic!Charge(t) /\ stale' \subseteq Requests
  BY ChargeCommitEffect
<1>2. PICK answer \in {"ok", "error"} : EndTx(t, answer)
  BY ChargeCommitEffect
<1>3. /\ req[t].amount \in Int /\ u \in Users /\ balance[u] \in Int /\ req[t].amount > 0
      /\ status[t] = "none" /\ UNCHANGED req /\ req[t].op = "charge" /\ req[t].amount <= balance[u]
      /\ balance' = [balance EXCEPT ![u] = @ - req[t].amount]
      /\ status' = [status EXCEPT ![t] = "succeeded"]
      /\ outbox' = outbox \cup {t}
  BY <1>1, ReqTypes DEF Atomic!Charge, IInv, TypeOK
<1>4. userLock[u] = t
  BY DEF ChargeCommit, IInv, PhaseInv, PhaseOK, ChargePhase, ChargeHolds
<1>5. TypeOK'
  BY <1>1, <1>2, <1>3, EndTxType DEF TypeOK, IInv
<1>6. ASSUME NEW s \in Requests PROVE PhaseOK(s)'
  <2>1. CASE s = t
    BY <1>2, <1>3, <2>1, EndTxType DEF IInv, TypeOK, PhaseOK, ChargePhase, RefundPhase, WritesPhase,
       RowPhase, ChargeHolds, ChargeSteps, CreditHolds, RefundHolds, RefundSteps
  <2>2. CASE s # t
    <3>1. pc'[s] = pc[s] /\ writes'[s] = writes[s] /\ status'[s] = status[s]
      BY <1>2, <1>3, <2>2, EndTxType DEF IInv, TypeOK
    <3>2. ChargePhase(s)'
      <4>1. pc[s] \in ChargeHolds => req[s].user # u /\ req[s].user \in Users
        BY <1>4, <2>2 DEF IInv, PhaseInv, PhaseOK, ChargePhase
      <4>2. pc[s] \in ChargeHolds => balance'[req[s].user] = balance[req[s].user]
        BY <1>3, <4>1 DEF IInv, TypeOK
      <4>3. pc[s] \in ChargeHolds => userLock'[req[s].user] = s
        BY <1>2, <2>2, <4>1, EndTxType DEF IInv, PhaseInv, PhaseOK, ChargePhase
      <4> QED BY <1>3, <3>1, <4>2, <4>3 DEF IInv, PhaseInv, PhaseOK, ChargePhase, ChargeSteps, ChargeHolds
    <3>3. RefundPhase(s)'
      <4>1. pc[s] \in RefundHolds =>
              /\ req[s].target \in Requests /\ payLock[req[s].target] = s
              /\ status[req[s].target] = "succeeded"
        BY ReqTypes DEF IInv, PhaseInv, PhaseOK, RefundPhase, RefundSteps
      <4>2. pc[s] \in RefundHolds => req[req[s].target].user \in Users
        BY <4>1 DEF IInv, PhaseInv, PhaseOK, RowPhase
      <4>3. pc[s] \in RefundHolds => payLock'[req[s].target] = s /\ status'[req[s].target] = "succeeded"
        BY <1>2, <1>3, <2>2, <4>1, EndTxType DEF IInv, TypeOK
      <4>4. pc[s] \in CreditHolds => userLock'[req[req[s].target].user] = s
        BY <1>2, <2>2, <4>2, EndTxType DEF IInv, PhaseInv, PhaseOK, RefundPhase, RefundHolds
      <4> QED BY <1>3, <3>1, <4>3, <4>4 DEF IInv, PhaseInv, PhaseOK, RefundPhase
    <3>4. WritesPhase(s)' /\ RowPhase(s)'
      BY <1>3, <3>1 DEF IInv, PhaseInv, PhaseOK, WritesPhase, RowPhase
    <3> QED BY <3>2, <3>3, <3>4 DEF PhaseOK
  <2> QED BY <2>1, <2>2
<1>7. NoOverdraft'
  BY <1>3 DEF NoOverdraft, IInv, TypeOK
<1>8. ChargeAtomicity'
  BY <1>3 DEF ChargeAtomicity, IInv, TypeOK
<1> QED BY <1>5, <1>6, <1>7, <1>8 DEF IInv, PhaseInv

LEMMA RefundCommitKeepsIInv ==
  ASSUME IInv, NEW t \in Requests, RefundCommit(t)
  PROVE  IInv'
<1> DEFINE p == req[t].target
           u == req[p].user
<1>1. /\ req[t].op = "refund" /\ p \in Requests
      /\ Atomic!Refund(p) /\ stale' \subseteq Requests
  BY RefundCommitEffect
<1>2. PICK answer \in {"ok", "error"} : EndTx(t, answer)
  BY RefundCommitEffect
<1>3. /\ status[p] = "succeeded" /\ UNCHANGED <<req, outbox>>
      /\ balance' = [balance EXCEPT ![u] = @ + req[p].amount]
      /\ status' = [status EXCEPT ![p] = "refunded"]
  BY <1>1 DEF Atomic!Refund
<1>4. u \in Users /\ req[p].op = "charge" /\ req[p].amount > 0 /\ pc[p] = "done"
  BY <1>1, <1>3 DEF IInv, PhaseInv, PhaseOK, RowPhase
<1>5. req[p].amount \in Int /\ balance[u] \in Int /\ p # t
  BY <1>1, <1>4, ReqTypes DEF IInv, TypeOK
<1>6. userLock[u] = t /\ payLock[p] = t
  BY DEF RefundCommit, IInv, PhaseInv, PhaseOK, RefundPhase, RefundHolds, CreditHolds
<1>7. TypeOK'
  BY <1>1, <1>2, <1>3, <1>4, <1>5, EndTxType DEF TypeOK, IInv
<1>8. ASSUME NEW s \in Requests PROVE PhaseOK(s)'
  <2>1. CASE s = t
    BY <1>1, <1>2, <1>3, <1>5, <2>1, EndTxType DEF IInv, TypeOK, PhaseInv, PhaseOK, ChargePhase,
       RefundPhase, WritesPhase, RowPhase, ChargeHolds, ChargeSteps, CreditHolds, RefundHolds, RefundSteps
  <2>2. CASE s # t
    <3>1. pc'[s] = pc[s] /\ writes'[s] = writes[s]
      BY <1>2, <2>2, EndTxType DEF IInv
    <3>2. ChargePhase(s)'
      <4>1. pc[s] \in ChargeHolds => req[s].user # u /\ req[s].user \in Users
        BY <1>6, <2>2 DEF IInv, PhaseInv, PhaseOK, ChargePhase
      <4>2. pc[s] \in ChargeHolds => balance'[req[s].user] = balance[req[s].user]
        BY <1>3, <4>1 DEF IInv, TypeOK
      <4>3. pc[s] \in ChargeHolds => userLock'[req[s].user] = s
        BY <1>2, <2>2, <4>1, EndTxType DEF IInv, PhaseInv, PhaseOK, ChargePhase
      <4> QED BY <1>3, <3>1, <4>2, <4>3 DEF IInv, PhaseInv, PhaseOK, ChargePhase, ChargeSteps, ChargeHolds
    <3>3. RefundPhase(s)'
      <4>1. pc[s] \in RefundHolds =>
              /\ req[s].target \in Requests /\ payLock[req[s].target] = s
              /\ status[req[s].target] = "succeeded"
        BY ReqTypes DEF IInv, PhaseInv, PhaseOK, RefundPhase, RefundSteps
      <4>2. pc[s] \in RefundHolds => req[req[s].target].user \in Users
        BY <4>1 DEF IInv, PhaseInv, PhaseOK, RowPhase
      <4>3. pc[s] \in RefundHolds => req[s].target # p
        BY <1>6, <2>2, <4>1
      <4>4. pc[s] \in RefundHolds => payLock'[req[s].target] = s /\ status'[req[s].target] = "succeeded"
        BY <1>2, <1>3, <2>2, <4>1, <4>3, EndTxType DEF IInv, TypeOK
      <4>5. pc[s] \in CreditHolds => userLock'[req[req[s].target].user] = s
        BY <1>2, <2>2, <4>2, EndTxType DEF IInv, PhaseInv, PhaseOK, RefundPhase, RefundHolds
      <4> QED BY <1>3, <3>1, <4>4, <4>5 DEF IInv, PhaseInv, PhaseOK, RefundPhase
    <3>4. WritesPhase(s)' /\ RowPhase(s)'
      BY <1>3, <1>4, <3>1 DEF IInv, TypeOK, PhaseInv, PhaseOK, WritesPhase, RowPhase
    <3> QED BY <3>2, <3>3, <3>4 DEF PhaseOK
  <2> QED BY <2>1, <2>2
<1>9. NoOverdraft'
  BY <1>3, <1>4, <1>5 DEF NoOverdraft, IInv, TypeOK
<1>10. ChargeAtomicity'
  BY <1>3 DEF ChargeAtomicity, IInv, TypeOK
<1> QED BY <1>7, <1>8, <1>9, <1>10 DEF IInv, PhaseInv

LEMMA StepKeepsIInv ==
  ASSUME IInv, NEW t \in Requests, Step(t) \/ Abort(t)
  PROVE  IInv'
BY ChargeStepsKeepIInv, RefundStepsKeepIInv, ChargeCommitKeepsIInv, RefundCommitKeepsIInv,
   RollbackKeepsIInv DEF Step, Abort

LEMMA StutterKeepsIInv == IInv /\ UNCHANGED vars => IInv'
BY DEF vars, IInv, TypeOK, PhaseInv, PhaseOK, ChargePhase, RefundPhase, WritesPhase, RowPhase,
   NoOverdraft, ChargeAtomicity

\* The invariant holds in every reachable state of the ledger.
THEOREM Invariant == Spec => []IInv
<1>1. IInv /\ [Next]_vars => IInv'
  BY StepKeepsIInv, StutterKeepsIInv DEF Next
<1> QED BY <1>1, InitIInv, PTL DEF Spec

-----------------------------------------------------------------------------
\* Every step but a commit leaves the committed tables alone.
LEMMA OnlyCommitsWrite ==
  ASSUME NEW t \in Requests, Step(t) \/ Abort(t)
  PROVE  ChargeCommit(t) \/ RefundCommit(t) \/ UNCHANGED <<req, balance, status, outbox>>
BY DEF Step, Abort, ChargeBegin, ChargeSelect, ChargeConflict, ChargeLock, ChargeUpdate,
   ChargeInsert, SaveEventTx, RefundBegin, RefundSelect, RefundCredit, RefundMark, Rollback, table

\* Every step but a commit answers nothing or answers with an error.
LEMMA OnlyCommitsAnswerOk ==
  ASSUME TypeOK, NEW t \in Requests, Step(t) \/ Abort(t), NEW s \in Requests, resp'[s] = "ok"
  PROVE  resp[s] = "ok" \/ (s = t /\ (ChargeCommit(t) \/ RefundCommit(t)))
BY DEF TypeOK, Step, Abort, ChargeBegin, ChargeSelect, ChargeConflict, ChargeLock, ChargeUpdate,
   ChargeInsert, SaveEventTx, ChargeCommit, RefundBegin, RefundSelect, RefundCredit, RefundMark,
   RefundCommit, Rollback, EndTx, Goto, Write

(***************************************************************************)
(* Balances, payments, outbox rows, locks and transactions always have     *)
(* their types.                                                            *)
(***************************************************************************)
THEOREM TypeCorrect == Spec => []TypeOK
BY Invariant, PTL DEF IInv

(***************************************************************************)
(* No interleaving of ProcessCharge and RefundTransactionRecord makes a    *)
(* balance negative, for any users, amounts and number of requests.        *)
(***************************************************************************)
THEOREM NeverOverdrawn == Spec => []NoOverdraft
BY Invariant, PTL DEF IInv

(***************************************************************************)
(* The payment row and the outbox row of ProcessCharge appear together.    *)
(***************************************************************************)
THEOREM ChargeIsAtomic == Spec => []ChargeAtomicity
BY Invariant, PTL DEF IInv

(***************************************************************************)
(* The statement-by-statement ledger implements the one-step ledger:       *)
(* each COMMIT is one abstract charge or refund and all else stutters.     *)
(***************************************************************************)
THEOREM Refinement == Spec => Linearizable
<1>1. Init => Atomic!Init
  BY DEF Init, Atomic!Init
<1>2. IInv /\ [Next]_vars => [Atomic!Next]_(Atomic!vars)
  <2> SUFFICES ASSUME IInv, [Next]_vars PROVE [Atomic!Next]_(Atomic!vars)
    OBVIOUS
  <2>1. CASE UNCHANGED vars
    BY <2>1 DEF vars, Atomic!vars
  <2>2. CASE Next
    <3>1. PICK t \in Requests : Step(t) \/ Abort(t)
      BY <2>2 DEF Next
    <3>2. CASE ChargeCommit(t)
      BY <3>2, ChargeCommitEffect DEF Atomic!Next
    <3>3. CASE RefundCommit(t)
      BY <3>3, RefundCommitEffect DEF Atomic!Next
    <3>4. CASE UNCHANGED <<req, balance, status, outbox>>
      BY <3>4 DEF Atomic!vars
    <3> QED BY <3>1, <3>2, <3>3, <3>4, OnlyCommitsWrite
  <2> QED BY <2>1, <2>2
<1> QED BY <1>1, <1>2, Invariant, PTL DEF Spec, Linearizable, Atomic!Spec

(***************************************************************************)
(* What the service answered with success is on the books, and no payment  *)
(* is ever paid back twice.  The two hold together: the second refund of a *)
(* payment would need it succeeded, and the first one's answer says that   *)
(* it is refunded.                                                         *)
(***************************************************************************)
THEOREM AnswersAreTrue == Spec => [](OkMeansCommitted /\ RefundedOnce)
<1> DEFINE AInv == OkMeansCommitted /\ RefundedOnce
<1>1. Init => AInv
  BY DEF Init, OkMeansCommitted, RefundedOnce
<1>2. IInv /\ AInv /\ [Next]_vars => AInv'
  <2> SUFFICES ASSUME IInv, AInv, [Next]_vars PROVE AInv'
    OBVIOUS
  <2>1. CASE UNCHANGED vars
    BY <2>1 DEF vars, OkMeansCommitted, RefundedOnce
  <2>2. CASE Next
    <3>1. PICK t \in Requests : Step(t) \/ Abort(t)
      BY <2>2 DEF Next
    <3>2. \A s \in Requests : resp'[s] = "ok" =>
             resp[s] = "ok" \/ (s = t /\ (ChargeCommit(t) \/ RefundCommit(t)))
      BY <3>1, OnlyCommitsAnswerOk DEF IInv
    <3>3. CASE ChargeCommit(t)
      <4>1. /\ UNCHANGED req /\ status' = [status EXCEPT ![t] = "succeeded"]
            /\ status[t] = "none" /\ req[t].op = "charge"
        BY <3>3, ChargeCommitEffect DEF Atomic!Charge
      <4>2. \A s \in Requests : req[s].op = "refund" => req[s].target \in Requests
        BY ReqTypes DEF IInv
      <4>3. OkMeansCommitted'
        BY <3>2, <3>3, <4>1, <4>2, ReqTypes DEF OkMeansCommitted, IInv, TypeOK
      <4>4. RefundedOnce'
        BY <3>2, <4>1 DEF RefundedOnce
      <4> QED BY <4>3, <4>4
    <3>4. CASE RefundCommit(t)
      <4>1. /\ UNCHANGED req /\ req[t].op = "refund" /\ req[t].target \in Requests
            /\ status[req[t].target] = "succeeded"
            /\ status' = [status EXCEPT ![req[t].target] = "refunded"]
        BY <3>4, RefundCommitEffect DEF Atomic!Refund
      <4>2. \A s \in Requests : req[s].op = "refund" => req[s].target \in Requests
        BY ReqTypes DEF IInv
      <4>3. OkMeansCommitted'
        BY <3>2, <4>1, <4>2, ReqTypes DEF OkMeansCommitted, IInv, TypeOK
      <4>4. RefundedOnce'
        BY <3>2, <4>1 DEF OkMeansCommitted, RefundedOnce
      <4> QED BY <4>3, <4>4
    <3>5. CASE /\ UNCHANGED <<req, balance, status, outbox>>
               /\ ~ChargeCommit(t) /\ ~RefundCommit(t)
      BY <3>2, <3>5 DEF OkMeansCommitted, RefundedOnce
    <3> QED BY <3>1, <3>3, <3>4, <3>5, OnlyCommitsWrite
  <2> QED BY <2>1, <2>2
<1> QED BY <1>1, <1>2, Invariant, PTL DEF Spec

-----------------------------------------------------------------------------
(***************************************************************************)
(* Sums over finite sets.  MapThenSumSet applies to S the function that    *)
(* takes one element after the other out of a subset of S; Summing(a, S,   *)
(* g) says that g is such a function.  Induction on finite sets takes the  *)
(* form of Smallest: a set of counterexamples has a smallest one.          *)
(***************************************************************************)
Pick(s) == CHOOSE x \in s : TRUE
Summing(a, S, g) == g = [s \in SUBSET S |-> IF s = {} THEN 0 ELSE a[Pick(s)].amount + g[s \ {Pick(s)}]]

\* The element taken out first is an element.
LEMMA PickIn == ASSUME NEW s, s # {} PROVE Pick(s) \in s
BY DEF Pick

\* If S has a summing function, Total is the value of one at S.
LEMMA TotalChosen == ASSUME NEW a, NEW S, \E g : Summing(a, S, g)
  PROVE \E g : Summing(a, S, g) /\ Total(a, S) = g[S]
<1>1. Total(a, S) = (CHOOSE g : Summing(a, S, g))[S]
  BY DEF Total, MapThenSumSet, MapThenFoldSet, Summing, Pick
<1> QED BY <1>1

\* Among subsets of a finite set, one is minimal: induction, with a set in place of a predicate.
LEMMA Smallest == ASSUME NEW F, IsFiniteSet(F), NEW Bad, Bad \subseteq SUBSET F, Bad # {}
  PROVE \E S \in Bad : \A T \in Bad : T \subseteq S => T = S
<1>1. IsWellFoundedOn(StrictSubsetOrdering(F), SUBSET F)
  BY FS_StrictSubsetOrderingWellFounded, FS_FiniteSubsetsOfFinite
<1>2. \E S \in Bad : \A T \in Bad : <<T, S>> \notin StrictSubsetOrdering(F)
  BY <1>1, WFMin
<1> QED BY <1>2 DEF StrictSubsetOrdering

\* Two summing functions agree on every finite set that both are defined on.
LEMMA Agree == ASSUME NEW a, NEW S, NEW T, NEW g, NEW h, Summing(a, S, g), Summing(a, T, h),
   NEW U, IsFiniteSet(U), U \subseteq S, U \subseteq T
  PROVE g[U] = h[U]
<1> DEFINE Bad == {V \in SUBSET U : g[V] # h[V]}
<1>1. SUFFICES ASSUME Bad # {} PROVE FALSE
  BY <1>1
<1>2. PICK V \in Bad : \A W \in Bad : W \subseteq V => W = V
  <2>1. Bad \subseteq SUBSET U
    OBVIOUS
  <2> HIDE DEF Bad
  <2> QED BY <1>1, <2>1, Smallest
<1>3. V # {}
  BY DEF Summing
<1>4. V \ {Pick(V)} \notin Bad /\ V \ {Pick(V)} \in SUBSET U
  BY <1>2, <1>3, PickIn
<1> QED BY <1>3, <1>4 DEF Summing

\* A finite set has a summing function: a smallest one without would get it from its subsets.
LEMMA Exists == ASSUME NEW a, NEW S, IsFiniteSet(S) PROVE \E g : Summing(a, S, g)
<1> DEFINE Bad == {V \in SUBSET S : ~\E g : Summing(a, V, g)}
<1>1. SUFFICES ASSUME Bad # {} PROVE FALSE
  BY <1>1
<1>2. PICK V \in Bad : \A W \in Bad : W \subseteq V => W = V
  <2>1. Bad \subseteq SUBSET S
    OBVIOUS
  <2> HIDE DEF Bad
  <2> QED BY <1>1, <2>1, Smallest
<1> DEFINE Rest(s) == s \ {Pick(s)}
           g == [s \in SUBSET V |-> IF s = {} THEN 0 ELSE a[Pick(s)].amount + Total(a, Rest(s))]
<1>3. ASSUME NEW w \in SUBSET V, w # V PROVE \E h : Summing(a, w, h) /\ Total(a, w) = h[w]
  BY <1>2, <1>3, TotalChosen
<1>4. ASSUME NEW w \in SUBSET V, w # V PROVE g[w] = Total(a, w)
  <2>1. PICK h : Summing(a, w, h) /\ Total(a, w) = h[w]
    BY <1>3, <1>4
  <2>2. CASE w = {}
    BY <2>1, <2>2 DEF Summing
  <2>3. CASE w # {}
    <3>1. Pick(w) \in w /\ Rest(w) \in SUBSET V /\ Rest(w) # V /\ Rest(w) \subseteq w
      BY <2>3, PickIn
    <3>2. PICK k : Summing(a, Rest(w), k) /\ Total(a, Rest(w)) = k[Rest(w)]
      BY <3>1, <1>3
    <3>3. IsFiniteSet(Rest(w))
      BY <3>1, FS_Subset
    <3>4. h[Rest(w)] = k[Rest(w)]
      BY <2>1, <3>1, <3>2, <3>3, Agree
    <3>5. h[w] = a[Pick(w)].amount + h[Rest(w)]
      BY <2>1, <2>3 DEF Summing
    <3> QED BY <2>1, <2>3, <3>2, <3>4, <3>5
  <2> QED BY <2>2, <2>3
<1>5. ASSUME NEW s \in SUBSET V, s # {} PROVE g[s \ {Pick(s)}] = Total(a, Rest(s))
  BY <1>4, <1>5, PickIn
<1>6. Summing(a, V, g)
  BY <1>5 DEF Summing
<1> QED BY <1>6

\* Hence Total obeys the recursion it was meant to,
LEMMA TotalDef == ASSUME NEW a, NEW S, IsFiniteSet(S)
  PROVE  Total(a, S) = IF S = {} THEN 0 ELSE a[Pick(S)].amount + Total(a, S \ {Pick(S)})
<1> DEFINE R == S \ {Pick(S)}
<1>1. IsFiniteSet(R)
  BY FS_Subset
<1>2. PICK g : Summing(a, S, g) /\ Total(a, S) = g[S]
  BY Exists, TotalChosen
<1>3. PICK h : Summing(a, R, h) /\ Total(a, R) = h[R]
  BY <1>1, Exists, TotalChosen
<1>4. g[R] = h[R]
  BY <1>1, <1>2, <1>3, Agree
<1>5. g[S] = IF S = {} THEN 0 ELSE a[Pick(S)].amount + g[R]
  BY <1>2 DEF Summing
<1> QED BY <1>2, <1>3, <1>4, <1>5

\* and the order in which elements are taken out does not matter: any one may come first.
LEMMA TotalRemove == ASSUME NEW a, NEW S, IsFiniteSet(S), \A p \in S : a[p].amount \in Int
  PROVE  /\ Total(a, S) \in Int
         /\ \A p \in S : Total(a, S) = a[p].amount + Total(a, S \ {p})
<1> DEFINE Good(V) == /\ Total(a, V) \in Int
                      /\ \A p \in V : Total(a, V) = a[p].amount + Total(a, V \ {p})
           Bad == {V \in SUBSET S : ~Good(V)}
<1>1. SUFFICES ASSUME Bad # {} PROVE FALSE
  BY <1>1
<1>2. PICK V \in Bad : \A W \in Bad : W \subseteq V => W = V
  <2>1. Bad \subseteq SUBSET S
    OBVIOUS
  <2> HIDE DEF Bad
  <2> QED BY <1>1, <2>1, Smallest
<1>3. IsFiniteSet(V)
  BY FS_Subset
<1>4. V # {}
  <2>1. Total(a, {}) = 0
    BY FS_EmptySet, TotalDef
  <2>2. Good({})
    BY <2>1
  <2> QED BY <2>2
<1> DEFINE c == Pick(V)
<1>5. c \in V /\ Total(a, V) = a[c].amount + Total(a, V \ {c})
  BY <1>3, <1>4, TotalDef, PickIn
<1>6. ASSUME NEW p \in V PROVE Good(V \ {p})
  BY <1>2, <1>6
<1>7. ASSUME NEW p \in V, p # c PROVE Total(a, V) = a[p].amount + Total(a, V \ {p})
  <2>1. Total(a, V \ {c}) = a[p].amount + Total(a, (V \ {c}) \ {p})
    BY <1>5, <1>6, <1>7
  <2>2. Total(a, V \ {p}) = a[c].amount + Total(a, (V \ {c}) \ {p})
    <3>1. Total(a, V \ {p}) = a[c].amount + Total(a, (V \ {p}) \ {c})
      BY <1>5, <1>6, <1>7
    <3>2. (V \ {p}) \ {c} = (V \ {c}) \ {p}
      OBVIOUS
    <3> QED BY <3>1, <3>2
  <2>3. (V \ {c}) \ {p} \in SUBSET S /\ (V \ {c}) \ {p} \notin Bad
    BY <1>2, <1>5
  <2>4. /\ a[p].amount \in Int /\ a[c].amount \in Int
        /\ Total(a, (V \ {c}) \ {p}) \in Int
    BY <1>5, <2>3
  <2> HIDE DEF c
  <2>5. ASSUME NEW x \in Int, NEW y \in Int, NEW z \in Int PROVE y + (x + z) = x + (y + z)
    OBVIOUS
  <2> QED BY <1>5, <2>1, <2>2, <2>4, <2>5
<1>8. Total(a, V) \in Int
  BY <1>5, <1>6
<1> QED BY <1>5, <1>7, <1>8

\* A payment more, or a payment less.
LEMMA TotalAdd ==
  ASSUME NEW a, NEW S, IsFiniteSet(S), \A p \in S : a[p].amount \in Int,
         NEW q, q \notin S, a[q].amount \in Int
  PROVE  /\ IsFiniteSet(S \cup {q})
         /\ Total(a, S) \in Int /\ Total(a, S \cup {q}) = a[q].amount + Total(a, S)
<1>1. IsFiniteSet(S \cup {q}) /\ (S \cup {q}) \ {q} = S
  BY FS_AddElement
<1>2. \A p \in S \cup {q} : a[p].amount \in Int
  OBVIOUS
<1> QED BY <1>1, <1>2, TotalRemove

-----------------------------------------------------------------------------
\* The books add up, and at any time they are finite.
BooksInv == Conservation /\ \A u \in Users : IsFiniteSet(Held(u))

\* What a user holds are charges, with amounts that can be added.
LEMMA HeldTypes ==
  ASSUME IInv, NEW u \in Users
  PROVE  \A p \in Held(u) : p \in Requests /\ req[p].op = "charge" /\ req[p].amount \in Int
BY ReqTypes DEF IInv, PhaseInv, PhaseOK, RowPhase, Held

LEMMA ChargeKeepsBooks ==
  ASSUME IInv, BooksInv, NEW p \in Requests, Atomic!Charge(p)
  PROVE  BooksInv'
<1> DEFINE v == req[p].user
<1>1. /\ v \in Users /\ req[p].amount \in Int /\ status[p] = "none"
      /\ balance' = [balance EXCEPT ![v] = @ - req[p].amount]
      /\ status' = [status EXCEPT ![p] = "succeeded"] /\ req' = req
  BY ReqTypes DEF Atomic!Charge, IInv
<1>2. balance \in [Users -> Int] /\ DOMAIN status = Requests
  BY DEF IInv, TypeOK
<1> SUFFICES ASSUME NEW u \in Users
             PROVE  /\ balance'[u] + Total(req', Held(u)') = InitialBalance[u]
                    /\ IsFiniteSet(Held(u)')
  BY DEF BooksInv, Conservation
<1>3. balance[u] + Total(req, Held(u)) = InitialBalance[u] /\ IsFiniteSet(Held(u))
  BY DEF BooksInv, Conservation
<1>4. CASE u = v
  <2>1. Held(u)' = Held(u) \cup {p} /\ p \notin Held(u)
    BY <1>1, <1>2, <1>4 DEF Held
  <2>2. /\ IsFiniteSet(Held(u)')
        /\ Total(req, Held(u)) \in Int
        /\ Total(req, Held(u)') = req[p].amount + Total(req, Held(u))
    BY <1>1, <1>3, <2>1, HeldTypes, TotalAdd
  <2>3. balance'[u] = balance[u] - req[p].amount /\ balance[u] \in Int
    BY <1>1, <1>2, <1>4
  <2> QED BY <1>1, <1>3, <2>2, <2>3
<1>5. CASE u # v
  <2>1. Held(u)' = Held(u) /\ balance'[u] = balance[u]
    BY <1>1, <1>2, <1>5 DEF Held
  <2> QED BY <1>1, <1>3, <2>1
<1> QED BY <1>4, <1>5

LEMMA RefundKeepsBooks ==
  ASSUME IInv, BooksInv, NEW p \in Requests, Atomic!Refund(p)
  PROVE  BooksInv'
<1> DEFINE v == req[p].user
<1>1. /\ v \in Users /\ req[p].amount \in Int /\ status[p] = "succeeded"
      /\ balance' = [balance EXCEPT ![v] = @ + req[p].amount]
      /\ status' = [status EXCEPT ![p] = "refunded"] /\ req' = req
  BY ReqTypes DEF Atomic!Refund, IInv, PhaseInv, PhaseOK, RowPhase
<1>2. balance \in [Users -> Int] /\ DOMAIN status = Requests
  BY DEF IInv, TypeOK
<1> SUFFICES ASSUME NEW u \in Users
             PROVE  /\ balance'[u] + Total(req', Held(u)') = InitialBalance[u]
                    /\ IsFiniteSet(Held(u)')
  BY DEF BooksInv, Conservation
<1>3. balance[u] + Total(req, Held(u)) = InitialBalance[u] /\ IsFiniteSet(Held(u))
  BY DEF BooksInv, Conservation
<1>4. CASE u = v
  <2>1. Held(u)' = Held(u) \ {p} /\ p \in Held(u)
    BY <1>1, <1>2, <1>4 DEF Held
  <2>2. IsFiniteSet(Held(u)')
    BY <1>3, <2>1, FS_RemoveElement
  <2>3. /\ Total(req, Held(u)') \in Int
        /\ Total(req, Held(u)) = req[p].amount + Total(req, Held(u)')
    BY <1>3, <2>1, <2>2, HeldTypes, TotalRemove
  <2>4. balance'[u] = balance[u] + req[p].amount /\ balance[u] \in Int
    BY <1>1, <1>2, <1>4
  <2> QED BY <1>1, <1>3, <2>2, <2>3, <2>4
<1>5. CASE u # v
  <2>1. Held(u)' = Held(u) /\ balance'[u] = balance[u]
    BY <1>1, <1>2, <1>5 DEF Held
  <2> QED BY <1>1, <1>3, <2>1
<1> QED BY <1>4, <1>5

(***************************************************************************)
(* The balance of every user and the payments that are not refunded add up *)
(* to what the user started with, for any number of charges and refunds    *)
(* and however their statements interleave or fail.                        *)
(***************************************************************************)
THEOREM BooksBalance == Spec => []Conservation
<1>1. Init => BooksInv
  <2> SUFFICES ASSUME Init, NEW u \in Users
               PROVE  /\ IsFiniteSet(Held(u))
                      /\ balance[u] + Total(req, Held(u)) = InitialBalance[u]
    BY DEF BooksInv, Conservation
  <2>1. Held(u) = {}
    BY DEF Init, Held
  <2>2. IsFiniteSet({}) /\ Total(req, {}) = 0
    BY FS_EmptySet, TotalDef
  <2> QED BY <2>1, <2>2, LedgerAssumption DEF Init
<1>2. IInv /\ BooksInv /\ [Next]_vars => BooksInv'
  <2> SUFFICES ASSUME IInv, BooksInv, [Next]_vars PROVE BooksInv'
    OBVIOUS
  <2>1. CASE UNCHANGED <<req, balance, status, outbox>>
    BY <2>1 DEF BooksInv, Conservation, Held
  <2>2. CASE Next
    <3>1. PICK t \in Requests : Step(t) \/ Abort(t)
      BY <2>2 DEF Next
    <3>2. CASE ChargeCommit(t)
      BY <3>2, ChargeCommitEffect, ChargeKeepsBooks
    <3>3. CASE RefundCommit(t)
      BY <3>3, RefundCommitEffect, RefundKeepsBooks
    <3> QED BY <2>1, <3>1, <3>2, <3>3, OnlyCommitsWrite
  <2> QED BY <2>1, <2>2 DEF vars
<1>3. BooksInv => Conservation
  BY DEF BooksInv
<1> QED BY <1>1, <1>2, <1>3, Invariant, PTL DEF Spec

-----------------------------------------------------------------------------
\* Whoever has locked a row is past the statement that locks it and not yet done.
LocksOwned ==
  /\ \A u \in Users : userLock[u] # NoTx => pc[userLock[u]] \in ChargeHolds \cup CreditHolds
  /\ \A p \in Requests : payLock[p] # NoTx => pc[payLock[p]] \in RefundHolds

LEMMA EndTxLeavesNoLock ==
  ASSUME TypeOK, LocksOwned, NEW t \in Requests, NEW answer \in {"ok", "error"}, EndTx(t, answer)
  PROVE  LocksOwned'
<1>1. ASSUME NEW u \in Users, userLock'[u] # NoTx
      PROVE  pc'[userLock'[u]] \in ChargeHolds \cup CreditHolds
  <2>1. userLock[u] # t /\ userLock'[u] = userLock[u] /\ userLock[u] \in Requests \ {t}
    BY <1>1 DEF EndTx, TypeOK
  <2> QED BY <1>1, <2>1, EndTxType DEF LocksOwned
<1>2. ASSUME NEW p \in Requests, payLock'[p] # NoTx
      PROVE  pc'[payLock'[p]] \in RefundHolds
  <2>1. payLock[p] # t /\ payLock'[p] = payLock[p] /\ payLock[p] \in Requests \ {t}
    BY <1>2 DEF EndTx, TypeOK
  <2> QED BY <1>2, <2>1, EndTxType DEF LocksOwned
<1> QED BY <1>1, <1>2 DEF LocksOwned

LEMMA StepKeepsLocksOwned ==
  ASSUME IInv, LocksOwned, NEW t \in Requests, Step(t) \/ Abort(t)
  PROVE  LocksOwned'
<1> USE DEF ChargeHolds, CreditHolds, RefundHolds
<1>0. TypeOK /\ NoTx \notin Requests
  BY LedgerAssumption DEF IInv
<1>1. CASE \E answer \in {"ok", "error"} : EndTx(t, answer)
  BY <1>0, <1>1, EndTxLeavesNoLock
<1>2. CASE ChargeBegin(t) \/ RefundBegin(t)
  BY <1>0, <1>2 DEF ChargeBegin, RefundBegin, Goto, LocksOwned, TypeOK
<1>3. CASE ChargeSelect(t) /\ ~Rollback(t)
  BY <1>0, <1>3 DEF ChargeSelect, Goto, LocksOwned, TypeOK
<1>4. CASE ChargeLock(t) /\ ~Rollback(t)
  BY <1>0, <1>4 DEF ChargeLock, Goto, LocksOwned, TypeOK
<1>5. CASE ChargeUpdate(t) \/ ChargeInsert(t) \/ SaveEventTx(t) \/ RefundMark(t)
  BY <1>0, <1>5 DEF ChargeUpdate, ChargeInsert, SaveEventTx, RefundMark, Write, Goto, LocksOwned, TypeOK
<1>6. CASE RefundSelect(t) /\ ~Rollback(t)
  BY <1>0, <1>6 DEF RefundSelect, Goto, LocksOwned, TypeOK
<1>7. CASE RefundCredit(t)
  BY <1>0, <1>7 DEF RefundCredit, Write, Goto, LocksOwned, TypeOK
<1> QED
  BY <1>1, <1>2, <1>3, <1>4, <1>5, <1>6, <1>7
     DEF Step, Abort, ChargeSelect, ChargeConflict, ChargeLock, ChargeCommit, RefundSelect,
         RefundCommit, Rollback

\* A transaction that has locked a users row waits for nothing.
LEMMA UserLockHolderRuns ==
  ASSUME IInv, LocksOwned, NEW u \in Users, userLock[u] # NoTx
  PROVE  InTx(userLock[u]) /\ Awaits(userLock[u]) = NoTx
BY DEF LocksOwned, InTx, Awaits, ChargeHolds, CreditHolds

\* A refund that waits for the users row of the payment it holds waits for a row that exists.
LEMMA CreditAccount ==
  ASSUME IInv, NEW t \in Requests, pc[t] = "r_credit"
  PROVE  Account(t) \in Users
<1>1. req[t].op = "refund" /\ status[req[t].target] = "succeeded"
  BY DEF IInv, PhaseInv, PhaseOK, RefundPhase, RefundSteps, RefundHolds
<1>2. req[t].target \in Requests
  BY <1>1, ReqTypes DEF IInv
<1> QED BY <1>1, <1>2 DEF IInv, PhaseInv, PhaseOK, RowPhase, Account, Payment

(***************************************************************************)
(* The row locks of CreateTransactionRecordTx and RefundTransactionRecord  *)
(* cannot deadlock, and no transaction ends with a row still locked: every *)
(* chain of waiting ends, after two transactions at most, in one that      *)
(* waits for nothing.                                                      *)
(***************************************************************************)
THEOREM NoDeadlock == Spec => []WaitsEnd
<1>1. Init => LocksOwned
  BY DEF Init, LocksOwned
<1>2. IInv /\ LocksOwned /\ [Next]_vars => LocksOwned'
  <2> SUFFICES ASSUME IInv, LocksOwned, [Next]_vars PROVE LocksOwned'
    OBVIOUS
  <2>1. CASE UNCHANGED vars
    BY <2>1 DEF vars, LocksOwned
  <2>2. CASE Next
    BY <2>2, StepKeepsLocksOwned DEF Next
  <2> QED BY <2>1, <2>2
<1>3. IInv /\ LocksOwned => WaitsEnd
  <2> SUFFICES ASSUME IInv, LocksOwned, NEW t \in Requests, Awaits(t) # NoTx
               PROVE  /\ InTx(Awaits(t))
                      /\ Awaits(Awaits(t)) # NoTx =>
                           InTx(Awaits(Awaits(t))) /\ Awaits(Awaits(Awaits(t))) = NoTx
    BY DEF WaitsEnd
  <2>1. CASE pc[t] = "c_lock"
    <3>1. Awaits(t) = userLock[req[t].user] /\ req[t].user \in Users
      BY <2>1 DEF Awaits, IInv, PhaseInv, PhaseOK, ChargePhase
    <3> QED BY <3>1, UserLockHolderRuns
  <2>2. CASE pc[t] = "r_credit"
    <3>1. Awaits(t) = userLock[Account(t)]
      BY <2>2 DEF Awaits
    <3> QED BY <2>2, <3>1, CreditAccount, UserLockHolderRuns
  <2>3. CASE pc[t] = "r_select"
    <3> DEFINE p == req[t].target
               s == payLock[p]
    <3>1. Awaits(t) = s /\ p \in Requests
      BY <2>3, ReqTypes DEF Awaits, IInv, PhaseInv, PhaseOK, RefundPhase, RefundSteps
    <3>2. s \in Requests /\ pc[s] \in RefundHolds
      BY <3>1 DEF IInv, TypeOK, LocksOwned
    <3>3. CASE pc[s] = "r_credit"
      <4>1. Awaits(s) = userLock[Account(s)] /\ InTx(s)
        BY <3>3 DEF Awaits, InTx
      <4> QED BY <3>1, <3>2, <3>3, <4>1, CreditAccount, UserLockHolderRuns
    <3>4. CASE pc[s] \in CreditHolds
      BY <3>1, <3>4 DEF Awaits, InTx, CreditHolds
    <3> QED BY <3>2, <3>3, <3>4 DEF RefundHolds
  <2> QED BY <2>1, <2>2, <2>3 DEF Awaits
<1> QED BY <1>1, <1>2, <1>3, Invariant, PTL DEF Spec
=============================================================================
