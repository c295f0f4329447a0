------------------------------- MODULE Outbox -------------------------------
(***************************************************************************)
(* From the outbox_events table to the merchant:                           *)
(*                                                                         *)
(*   internal/service/outbox_worker.go    the poller of each API process   *)
(*   internal/service/webhook_worker.go   ProcessWebhookTask               *)
(*   internal/repository/outbox_repository.go   the PENDING rows           *)
(*   cmd/api/main.go                      start and graceful shutdown      *)
(*                                                                         *)
(* Several API processes may run, each with one poller.  A poller locks a  *)
(* batch of PENDING rows, and for each of them enqueues a task in Redis    *)
(* and updates the row; one COMMIT ends the batch.  The queue and          *)
(* PostgreSQL are two systems, so a batch that is rolled back has already  *)
(* enqueued some of its tasks.  The queue (asynq) is external: a task is   *)
(* tried, tried again when the handler returns an error, and archived      *)
(* after MaxRetry retries.                                                 *)
(***************************************************************************)
EXTENDS Integers, FiniteSets

CONSTANTS
  Events,      \* outbox_events rows
  Pollers,     \* API processes
  CreatedAt,   \* the created_at column; rows may commit in another order
  Batch,       \* LIMIT of the SELECT (10 in the code)
  MaxRetry,    \* asynq's retries of a task (25 by default)
  MaxFaults,   \* bound on failures and shutdowns
  None         \* a poller that is not handling a row

ASSUME OutboxAssumption ==
  /\ CreatedAt \in [Events -> Nat]
  /\ Batch \in Nat \ {0}
  /\ MaxRetry \in Nat
  /\ MaxFaults \in Nat

VARIABLES
  row,        \* outbox_events.status, committed
  pc,         \* where each poller is
  batch,      \* the rows its transaction has locked
  todo,       \* those it has not enqueued yet
  cur,        \* the row being handled and the status it will get
  marks,      \* uncommitted UPDATEs
  stopping,   \* pollers whose stopChan is closed
  tasks,      \* tasks in the queue
  enqueues,   \* history: tasks ever enqueued for a row
  received,   \* rows whose payload the merchant has received
  archived,   \* rows a task of which ran out of retries
  sent,       \* history: rows the poller's transaction has put into the queue
  lost,       \* history: for each row, transactions rolled back after that
  faults,     \* failed transactions and crashes so far
  shutdowns   \* graceful shutdowns so far

poller == <<pc, batch, todo, cur, marks, sent, stopping>>
queue == <<tasks, enqueues, received, archived>>
counts == <<lost, faults, shutdowns>>
vars == <<row, pc, batch, todo, cur, marks, sent, stopping, tasks, enqueues, received,
          archived, lost, faults, shutdowns>>

Init ==
  /\ row = [e \in Events |-> "absent"]
  /\ pc = [p \in Pollers |-> "idle"]
  /\ batch = [p \in Pollers |-> {}]
  /\ todo = [p \in Pollers |-> {}]
  /\ cur = [p \in Pollers |-> None]
  /\ marks = [p \in Pollers |-> [e \in Events |-> "none"]]
  /\ sent = [p \in Pollers |-> {}]
  /\ stopping = {}
  /\ tasks = {}
  /\ enqueues = [e \in Events |-> 0]
  /\ received = {}
  /\ archived = {}
  /\ lost = [e \in Events |-> 0]
  /\ faults = 0
  /\ shutdowns = 0

\* ProcessCharge commits a row (see Ledger).
Stage(e) ==
  /\ row[e] = "absent"
  /\ row' = [row EXCEPT ![e] = "PENDING"]
  /\ UNCHANGED <<poller, queue, counts>>

-----------------------------------------------------------------------------
(***************************************************************************)
(* ProcessPendingEvents.                                                   *)
(***************************************************************************)

Free_Unlocked(e) == row[e] = "PENDING"

\* FOR UPDATE SKIP LOCKED passes over the rows of other pollers' transactions.
Free(e) == row[e] = "PENDING" /\ \A p \in Pollers : e \notin batch[p]

\* ORDER BY created_at LIMIT Batch
Oldest(S, B) ==
  /\ B \subseteq S
  /\ Cardinality(B) = Batch \/ (B = S /\ Cardinality(S) < Batch)
  /\ \A e \in B, f \in S \ B : CreatedAt[e] <= CreatedAt[f]

\* The ticker fires.  Without pending rows nothing happens.
Poll(p) ==
  /\ pc[p] = "idle"
  /\ \E B \in (SUBSET Events) \ {{}} :
       /\ Oldest({e \in Events : Free(e)}, B)
       /\ batch' = [batch EXCEPT ![p] = B]
       /\ todo' = [todo EXCEPT ![p] = B]
  /\ pc' = [pc EXCEPT ![p] = "enqueue"]
  /\ UNCHANGED <<row, cur, marks, sent, stopping, queue, counts>>

NewTask(e) == [event |-> e, serial |-> enqueues[e] + 1, retried |-> 0]

\* The task is in the queue, whatever becomes of the transaction.
Push(p, e) ==
  /\ tasks' = tasks \cup {NewTask(e)}
  /\ enqueues' = [enqueues EXCEPT ![e] = @ + 1]
  /\ sent' = [sent EXCEPT ![p] = @ \cup {e}]
  /\ UNCHANGED <<received, archived>>

NoPush == UNCHANGED <<queue, sent>>

Enqueue_ErrorIgnored(p, e) ==
  /\ pc[p] = "enqueue" /\ e \in todo[p]
  /\ Push(p, e) \/ NoPush
  /\ cur' = [cur EXCEPT ![p] = [event |-> e, status |-> "PROCESSED"]]
  /\ todo' = [todo EXCEPT ![p] = @ \ {e}]
  /\ pc' = [pc EXCEPT ![p] = "update"]
  /\ UNCHANGED <<row, batch, marks, stopping, counts>>

Enqueue_KeepsPending(p, e) ==
  /\ pc[p] = "enqueue" /\ e \in todo[p]
  /\ \/ Push(p, e) /\ cur' = [cur EXCEPT ![p] = [event |-> e, status |-> "PROCESSED"]]
     \/ NoPush /\ cur' = [cur EXCEPT ![p] = [event |-> e, status |-> "PENDING"]]
  /\ todo' = [todo EXCEPT ![p] = @ \ {e}]
  /\ pc' = [pc EXCEPT ![p] = "update"]
  /\ UNCHANGED <<row, batch, marks, stopping, counts>>

(***************************************************************************)
(* EnqueueContext for the oldest row left.  An error may come back with or *)
(* without the task being in the queue; the row will be FAILED.            *)
(***************************************************************************)
Enqueue(p, e) ==
  /\ pc[p] = "enqueue"
  /\ e \in todo[p]
  /\ \A f \in todo[p] : CreatedAt[e] <= CreatedAt[f]
  /\ \/ /\ Push(p, e)
        /\ \E s \in {"PROCESSED", "FAILED"} :
             cur' = [cur EXCEPT ![p] = [event |-> e, status |-> s]]
     \/ /\ cur' = [cur EXCEPT ![p] = [event |-> e, status |-> "FAILED"]]
        /\ NoPush
  /\ todo' = [todo EXCEPT ![p] = @ \ {e}]
  /\ pc' = [pc EXCEPT ![p] = "update"]
  /\ UNCHANGED <<row, batch, marks, stopping, counts>>

\* UPDATE outbox_events SET status = $1
Update(p) ==
  /\ pc[p] = "update"
  /\ marks' = [marks EXCEPT ![p][cur[p].event] = cur[p].status]
  /\ cur' = [cur EXCEPT ![p] = None]
  /\ pc' = [pc EXCEPT ![p] = IF todo[p] = {} THEN "commit" ELSE "enqueue"]
  /\ UNCHANGED <<row, batch, todo, sent, stopping, queue, counts>>

EndBatch_KeepsLocks(p, to) ==
  /\ pc' = [pc EXCEPT ![p] = to]
  /\ todo' = [todo EXCEPT ![p] = {}]
  /\ cur' = [cur EXCEPT ![p] = None]
  /\ marks' = [marks EXCEPT ![p] = [e \in Events |-> "none"]]
  /\ sent' = [sent EXCEPT ![p] = {}]
  /\ UNCHANGED batch

\* COMMIT or ROLLBACK: the row locks are given back.
EndBatch(p, to) ==
  /\ pc' = [pc EXCEPT ![p] = to]
  /\ batch' = [batch EXCEPT ![p] = {}]
  /\ todo' = [todo EXCEPT ![p] = {}]
  /\ cur' = [cur EXCEPT ![p] = None]
  /\ marks' = [marks EXCEPT ![p] = [e \in Events |-> "none"]]
  /\ sent' = [sent EXCEPT ![p] = {}]

\* Whether or not the acknowledgement arrives; an error is only logged.
Commit(p) ==
  /\ pc[p] = "commit"
  /\ row' = [e \in Events |-> IF marks[p][e] = "none" THEN row[e] ELSE marks[p][e]]
  /\ EndBatch(p, "idle")
  /\ UNCHANGED <<stopping, queue, counts>>

InBatch(p) == pc[p] \in {"enqueue", "update", "commit"}

\* ROLLBACK undoes the UPDATEs and leaves the tasks where they are.
LoseBatch(p, to) ==
  /\ EndBatch(p, to)
  /\ lost' = [e \in Events |-> IF e \in sent[p] THEN lost[e] + 1 ELSE lost[e]]
  /\ UNCHANGED <<row, stopping, queue>>

\* A failing UPDATE or COMMIT, or a lost connection: everything is rolled back.
Abort(p) ==
  /\ InBatch(p)
  /\ faults + shutdowns < MaxFaults
  /\ faults' = faults + 1
  /\ LoseBatch(p, "idle")
  /\ UNCHANGED shutdowns

-----------------------------------------------------------------------------
(***************************************************************************)
(* Processes: crash, graceful shutdown, restart.  Stop() closes stopChan   *)
(* and does not wait for the poller; main returns some time later.  The    *)
(* poller leaves its loop when it is idle and select picks stopChan.       *)
(***************************************************************************)
Crash(p) ==
  /\ pc[p] # "down"
  /\ faults + shutdowns < MaxFaults
  /\ faults' = faults + 1
  /\ LoseBatch(p, "down")
  /\ UNCHANGED shutdowns

Stop(p) ==
  /\ pc[p] # "down" /\ p \notin stopping
  /\ faults + shutdowns < MaxFaults
  /\ shutdowns' = shutdowns + 1
  /\ stopping' = stopping \cup {p}
  /\ UNCHANGED <<row, pc, batch, todo, cur, marks, sent, queue, lost, faults>>

LeaveLoop(p) ==
  /\ pc[p] = "idle" /\ p \in stopping
  /\ pc' = [pc EXCEPT ![p] = "down"]
  /\ UNCHANGED <<row, batch, todo, cur, marks, sent, stopping, queue, counts>>

\* main returns while the poller is in the middle of a batch.
Exit(p) ==
  /\ InBatch(p) /\ p \in stopping
  /\ LoseBatch(p, "down")
  /\ UNCHANGED <<faults, shutdowns>>

Restart(p) ==
  /\ pc[p] = "down"
  /\ pc' = [pc EXCEPT ![p] = "idle"]
  /\ stopping' = stopping \ {p}
  /\ UNCHANGED <<row, batch, todo, cur, marks, sent, queue, counts>>

-----------------------------------------------------------------------------
(***************************************************************************)
(* ProcessWebhookTask, called by an asynq worker.                          *)
(***************************************************************************)

\* The merchant answers 2xx and the handler returns nil.
Deliver(t) ==
  /\ t \in tasks
  /\ tasks' = tasks \ {t}
  /\ received' = received \cup {t.event}
  /\ UNCHANGED <<row, poller, enqueues, archived, counts>>

DeliverFails_StatusIgnored(t) ==
  /\ t \in tasks
  /\ tasks' = tasks \ {t}
  /\ UNCHANGED <<row, poller, enqueues, received, archived, counts>>

(***************************************************************************)
(* A network error, a timeout, a status outside 2xx, or the death of the   *)
(* worker, whose lease then runs out.  The merchant may have taken the     *)
(* payload all the same.  The task is retried, or archived.                *)
(***************************************************************************)
DeliverFails(t) ==
  /\ t \in tasks
  /\ received' \in {received, received \cup {t.event}}
  /\ \/ /\ t.retried < MaxRetry
        /\ tasks' = (tasks \ {t}) \cup {[t EXCEPT !.retried = @ + 1]}
        /\ UNCHANGED archived
     \/ /\ t.retried >= MaxRetry
        /\ tasks' = tasks \ {t}
        /\ archived' = archived \cup {t.event}
  /\ UNCHANGED <<row, poller, enqueues, counts>>

-----------------------------------------------------------------------------
PollerStep(p) ==
  Poll(p) \/ (\E e \in Events : Enqueue(p, e)) \/ Update(p) \/ Commit(p) \/ LeaveLoop(p) \/ Restart(p)

WorkerStep(e) == \E t \in tasks : t.event = e /\ (Deliver(t) \/ DeliverFails(t))

Next ==
  \/ \E e \in Events : Stage(e) \/ WorkerStep(e)
  \/ \E p \in Pollers : PollerStep(p) \/ Abort(p) \/ Crash(p) \/ Stop(p) \/ Exit(p)

Spec == Init /\ [][Next]_vars

(***************************************************************************)
(* The ticker keeps firing and calls return, a process that is down is     *)
(* started again, and asynq works through its queue.  Charges, faults and  *)
(* shutdowns owe nothing.                                                  *)
(***************************************************************************)
FairSpec ==
  /\ Spec
  /\ \A p \in Pollers : WF_vars(PollerStep(p))
  /\ \A e \in Events : WF_vars(WorkerStep(e))

-----------------------------------------------------------------------------
(***************************************************************************)
(* Type invariant of the rows, the pollers and the queue.                  *)
(***************************************************************************)
Statuses == {"PROCESSED", "FAILED"}

Tasks == [event : Events, serial : Nat, retried : Nat]

TypeOK ==
  /\ row \in [Events -> {"absent", "PENDING"} \cup Statuses]
  /\ pc \in [Pollers -> {"idle", "enqueue", "update", "commit", "down"}]
  /\ batch \in [Pollers -> SUBSET Events]
  /\ todo \in [Pollers -> SUBSET Events]
  /\ cur \in [Pollers -> [event : Events, status : Statuses] \cup {None}]
  /\ marks \in [Pollers -> [Events -> {"none"} \cup Statuses]]
  /\ sent \in [Pollers -> SUBSET Events]
  /\ stopping \subseteq Pollers
  /\ tasks \subseteq Tasks
  /\ enqueues \in [Events -> Nat]
  /\ received \subseteq Events
  /\ archived \subseteq Events
  /\ lost \in [Events -> Nat] /\ faults \in Nat /\ shutdowns \in Nat

(***************************************************************************)
(* FOR UPDATE SKIP LOCKED keeps concurrent pollers apart: an event is      *)
(* enqueued a second time only after a transaction that had enqueued it    *)
(* was rolled back, and at most once for each such rollback.  Rollbacks of *)
(* transactions that had not yet come to this event account for nothing.   *)
(***************************************************************************)
DuplicatesNeedRollbacks == \A e \in Events : enqueues[e] <= 1 + lost[e]

(***************************************************************************)
(* Once enqueued, an event is never forgotten: the merchant has it, or one *)
(* of its tasks is still to be tried, or asynq has archived one.           *)
(***************************************************************************)
NoTaskLost ==
  \A e \in Events :
    enqueues[e] > 0 => e \in received \/ e \in archived \/ \E t \in tasks : t.event = e

(***************************************************************************)
(* No event is at a dead end: unless it is FAILED, the merchant has it,    *)
(* asynq has archived it, a task for it waits, the next poll can select    *)
(* it, or a poller that is still at work has it locked.  No rollback,      *)
(* crash or shutdown in the middle of ProcessPendingEvents leaves a row    *)
(* that SKIP LOCKED would pass over for ever.                              *)
(***************************************************************************)
NoDeadEnd ==
  \A e \in Events : row[e] \in {"PENDING", "PROCESSED"} =>
    \/ e \in received \/ e \in archived \/ \E t \in tasks : t.event = e
    \/ Free(e) \/ \E p \in Pollers : InBatch(p) /\ e \in batch[p]

(***************************************************************************)
(* Every staged event comes to an end: the merchant receives it, its task  *)
(* is archived, or the poller gives it up as FAILED.  No crash, rollback   *)
(* or shutdown leaves a row PENDING for ever.                              *)
(***************************************************************************)
Settled ==
  \A e \in Events :
    row[e] = "PENDING" ~> e \in received \/ e \in archived \/ row[e] = "FAILED"

(***************************************************************************)
(* How far an event has come, for whoever cannot see the tables: a task    *)
(* that was enqueued counts at once, although the row is PENDING until the *)
(* COMMIT, and after a rollback still.                                     *)
(***************************************************************************)
Unsent(status) ==
  CASE status = "absent" -> "absent"
    [] status = "PENDING" -> "staged"
    [] status = "FAILED" -> "failed"
    [] OTHER -> "dropped"

Phase(e) ==
  IF e \in received THEN "received"
  ELSE IF e \in archived THEN "archived"
  ELSE IF enqueues[e] > 0 THEN "queued" ELSE Unsent(row[e])

Relay == INSTANCE EventRelay WITH Events <- Events, phase <- [e \in Events |-> Phase(e)]

(***************************************************************************)
(* Batches, rollbacks, crashes, duplicate tasks and retries together do no *)
(* more than EventRelay allows: no event is delivered or archived that did *)
(* not go through the table and the queue, none goes back, and an event    *)
(* that was given up is never delivered after all.                         *)
(***************************************************************************)
Relays == Relay!Spec

-----------------------------------------------------------------------------
(***************************************************************************)
(* README.md: the outbox is "guaranteed [...] to ensure reliable event     *)
(* delivery", "without dropping data".  Every staged event at least        *)
(* reaches the queue.  One failed enqueue makes the row FAILED, and no     *)
(* query selects FAILED rows again.                                        *)
(***************************************************************************)
NothingDropped == \A e \in Events : row[e] = "PENDING" ~> enqueues[e] > 0
=============================================================================
