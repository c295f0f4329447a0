---------------------------- MODULE OutboxProofs ----------------------------
(***************************************************************************)
(* Proofs about Outbox, for any events, pollers, batch size and bounds.    *)
(*                                                                         *)
(* The argument for duplicates: the rows a poller works on are PENDING and *)
(* nobody else's, and when it reaches COMMIT every row it has enqueued has *)
(* an UPDATE waiting.  So a row that was enqueued and is PENDING again has *)
(* seen a rollback of the transaction that enqueued it.                    *)
(***************************************************************************)
EXTENDS Outbox, TLAPS

\* The rows a poller has locked are PENDING, and its own.
BatchOwned ==
  \A p \in Pollers :
    /\ todo[p] \subseteq batch[p] /\ sent[p] \subseteq batch[p] \ todo[p]
    /\ ~InBatch(p) => batch[p] = {}
    /\ \A e \in batch[p] : row[e] = "PENDING"
    /\ \A q \in Pollers : \A e \in batch[p] : e \in batch[q] => p = q

\* Every row that was enqueued has its UPDATE, or is the one being handled.
BatchMarked ==
  \A p \in Pollers :
    /\ pc[p] = "update" => /\ cur[p] \in [event : Events, status : Statuses]
                           /\ cur[p].event \in batch[p] \ todo[p]
    /\ \A e \in batch[p] \ todo[p] :
         marks[p][e] = "none" => pc[p] = "update" /\ cur[p].event = e
    /\ \A e \in Events : marks[p][e] # "none" => e \in batch[p] \ todo[p]
    /\ pc[p] = "commit" => todo[p] = {}

(***************************************************************************)
(* A row that ProcessPendingEvents marks PROCESSED has a task that really  *)
(* reached the queue: the relay never reports an event it did not hand     *)
(* over.                                                                   *)
(***************************************************************************)
ProcessedMeansEnqueued == \A e \in Events : row[e] = "PROCESSED" => enqueues[e] > 0

\* PROCESSED is only ever written for a task that is in the queue.
ProcessedTrue ==
  /\ ProcessedMeansEnqueued
  /\ \A p \in Pollers :
       /\ \A e \in Events : marks[p][e] = "PROCESSED" => enqueues[e] > 0
       /\ pc[p] = "update" /\ cur[p].status = "PROCESSED" => enqueues[cur[p].event] > 0

\* Enqueued by a transaction that is still open, or closed for good.
Handled(e) == row[e] \in Statuses \/ \E p \in Pollers : e \in sent[p]

DuplicatesCounted ==
  \A e \in Events : enqueues[e] <= lost[e] + (IF Handled(e) THEN 1 ELSE 0)

IInv == TypeOK /\ BatchOwned /\ BatchMarked /\ ProcessedTrue /\ DuplicatesCounted /\ NoTaskLost

-----------------------------------------------------------------------------

LEMMA EndBatchEffect ==
  ASSUME TypeOK, NEW p \in Pollers, NEW to \in {"idle", "down"}, EndBatch(p, to)
  PROVE  /\ pc' \in [Pollers -> {"idle", "enqueue", "update", "commit", "down"}]
         /\ batch' \in [Pollers -> SUBSET Events] /\ todo' \in [Pollers -> SUBSET Events]
         /\ cur' \in [Pollers -> [event : Events, status : Statuses] \cup {None}]
         /\ marks' \in [Pollers -> [Events -> {"none"} \cup Statuses]]
         /\ sent' \in [Pollers -> SUBSET Events]
         /\ pc'[p] = to /\ batch'[p] = {} /\ todo'[p] = {} /\ sent'[p] = {}
         /\ \A e \in Events : marks'[p][e] = "none"
         /\ \A q \in Pollers \ {p} : /\ pc'[q] = pc[q] /\ batch'[q] = batch[q] /\ todo'[q] = todo[q]
                                     /\ cur'[q] = cur[q] /\ marks'[q] = marks[q] /\ sent'[q] = sent[q]
<1>1. cur' \in [Pollers -> [event : Events, status : Statuses] \cup {None}]
  BY DEF EndBatch, TypeOK
<1>2. [e \in Events |-> "none"] \in [Events -> {"none"} \cup Statuses]
  OBVIOUS
<1>3. marks' \in [Pollers -> [Events -> {"none"} \cup Statuses]]
  BY <1>2 DEF EndBatch, TypeOK
<1> QED BY <1>1, <1>3 DEF EndBatch, TypeOK

LEMMA TypeInductive ==
  ASSUME TypeOK, BatchMarked, [Next]_vars
  PROVE  TypeOK'
<1> USE OutboxAssumption DEF poller, queue, counts, NoPush
<1>1. ASSUME NEW e \in Events, Stage(e) PROVE TypeOK'
  BY <1>1 DEF Stage, TypeOK
<1>2. ASSUME NEW p \in Pollers, Poll(p) PROVE TypeOK'
  BY <1>2 DEF Poll, Oldest, TypeOK
<1>3. ASSUME NEW p \in Pollers, NEW e \in Events, Enqueue(p, e) PROVE TypeOK'
  <2>1. NewTask(e) \in Tasks
    BY DEF NewTask, Tasks, TypeOK
  <2>2. /\ tasks' \subseteq Tasks /\ enqueues' \in [Events -> Nat]
        /\ received' \subseteq Events /\ archived' \subseteq Events
        /\ sent' \in [Pollers -> SUBSET Events]
    <3>1. CASE Push(p, e)
      BY <2>1, <3>1 DEF Push, TypeOK
    <3>2. CASE NoPush
      BY <3>2 DEF TypeOK
    <3> QED BY <1>3, <3>1, <3>2 DEF Enqueue
  <2>3. cur' \in [Pollers -> [event : Events, status : Statuses] \cup {None}]
    <3>1. PICK s \in Statuses : cur' = [cur EXCEPT ![p] = [event |-> e, status |-> s]]
      BY <1>3 DEF Enqueue, Statuses
    <3> QED BY <3>1 DEF TypeOK
  <2> QED BY <1>3, <2>2, <2>3 DEF Enqueue, TypeOK
<1>4. ASSUME NEW p \in Pollers, Update(p) PROVE TypeOK'
  <2>1. cur[p].event \in Events /\ cur[p].status \in Statuses
    BY <1>4 DEF Update, BatchMarked, TypeOK
  <2>2. marks' \in [Pollers -> [Events -> {"none"} \cup Statuses]]
    BY <1>4, <2>1 DEF Update, TypeOK
  <2>3. cur' \in [Pollers -> [event : Events, status : Statuses] \cup {None}]
    BY <1>4 DEF Update, TypeOK
  <2> QED BY <1>4, <2>2, <2>3 DEF Update, TypeOK
<1>5. ASSUME NEW p \in Pollers, Commit(p) PROVE TypeOK'
  <2>1. row' \in [Events -> {"absent", "PENDING"} \cup Statuses]
    BY <1>5 DEF Commit, TypeOK
  <2> QED BY <1>5, <2>1, EndBatchEffect DEF Commit, TypeOK
<1>6. ASSUME NEW p \in Pollers, Abort(p) \/ Crash(p) \/ Exit(p) PROVE TypeOK'
  <2>1. lost' \in [Events -> Nat]
    BY <1>6 DEF Abort, Crash, Exit, LoseBatch, TypeOK
  <2> QED BY <1>6, <2>1, EndBatchEffect DEF Abort, Crash, Exit, LoseBatch, TypeOK
<1>7. ASSUME NEW p \in Pollers, Stop(p) \/ LeaveLoop(p) \/ Restart(p) PROVE TypeOK'
  <2>1. CASE Stop(p)
    BY <2>1 DEF Stop, TypeOK
  <2>2. CASE LeaveLoop(p)
    BY <2>2 DEF LeaveLoop, TypeOK
  <2>3. CASE Restart(p)
    BY <2>3 DEF Restart, TypeOK
  <2> QED BY <1>7, <2>1, <2>2, <2>3
<1>8. ASSUME NEW t \in tasks, Deliver(t) PROVE TypeOK'
  BY <1>8 DEF Deliver, TypeOK, Tasks
<1>9. ASSUME NEW t \in tasks, DeliverFails(t) PROVE TypeOK'
  <2>0. t \in Tasks
    BY DEF TypeOK
  <2>1. t \in Tasks /\ [t EXCEPT !.retried = @ + 1] \in Tasks
    BY <2>0 DEF Tasks
  <2>2. t.event \in Events
    BY <2>1 DEF Tasks
  <2> QED BY <1>9, <2>1, <2>2 DEF DeliverFails, TypeOK
<1>10. CASE UNCHANGED vars
  BY <1>10 DEF vars, TypeOK
<1> QED BY <1>1, <1>2, <1>3, <1>4, <1>5, <1>6, <1>7, <1>8, <1>9, <1>10
        DEF Next, PollerStep, WorkerStep

LEMMA OwnedAfterEnd ==
  ASSUME TypeOK, BatchOwned, NEW p \in Pollers, NEW to \in {"idle", "down"}, EndBatch(p, to),
         \A q \in Pollers \ {p} : \A e \in batch[q] : row'[e] = row[e]
  PROVE  BatchOwned'
<1>1. /\ pc'[p] = to /\ batch'[p] = {} /\ todo'[p] = {} /\ sent'[p] = {}
      /\ \A q \in Pollers \ {p} : /\ pc'[q] = pc[q] /\ batch'[q] = batch[q]
                                  /\ todo'[q] = todo[q] /\ sent'[q] = sent[q]
  BY EndBatchEffect
<1>2. ASSUME NEW q \in Pollers
      PROVE  /\ todo'[q] \subseteq batch'[q] /\ sent'[q] \subseteq batch'[q] \ todo'[q]
             /\ ~InBatch(q)' => batch'[q] = {}
             /\ \A e \in batch'[q] : row'[e] = "PENDING"
             /\ \A o \in Pollers : \A e \in batch'[q] : e \in batch'[o] => q = o
  <2>1. CASE q = p
    BY <1>1, <2>1
  <2>2. CASE q # p
    BY <1>1, <2>2 DEF BatchOwned, InBatch
  <2> QED BY <2>1, <2>2
<1> QED BY <1>2 DEF BatchOwned

LEMMA OwnedInductive ==
  ASSUME TypeOK, BatchOwned, BatchMarked, [Next]_vars
  PROVE  BatchOwned'
<1> USE DEF poller, queue, counts, InBatch
<1>1. ASSUME NEW e \in Events, Stage(e) PROVE BatchOwned'
  BY <1>1 DEF Stage, TypeOK, BatchOwned
<1>2. ASSUME NEW p \in Pollers, Poll(p) PROVE BatchOwned'
  <2>1. PICK B \in SUBSET Events : /\ B \subseteq {e \in Events : Free(e)}
                                   /\ batch' = [batch EXCEPT ![p] = B]
                                   /\ todo' = [todo EXCEPT ![p] = B]
    BY <1>2 DEF Poll, Oldest
  <2>2. \A e \in B : row[e] = "PENDING" /\ \A q \in Pollers : e \notin batch[q]
    BY <2>1 DEF Free
  <2> QED BY <1>2, <2>1, <2>2 DEF Poll, TypeOK, BatchOwned
<1>3. ASSUME NEW p \in Pollers, NEW e \in Events, Enqueue(p, e) PROVE BatchOwned'
  <2>1. sent'[p] \subseteq sent[p] \cup {e} /\ \A q \in Pollers \ {p} : sent'[q] = sent[q]
    BY <1>3 DEF Enqueue, Push, NoPush, TypeOK
  <2> QED BY <1>3, <2>1 DEF Enqueue, TypeOK, BatchOwned
<1>4. ASSUME NEW p \in Pollers, Update(p) PROVE BatchOwned'
  BY <1>4 DEF Update, TypeOK, BatchOwned
<1>5. ASSUME NEW p \in Pollers, Commit(p) PROVE BatchOwned'
  <2>1. \A q \in Pollers \ {p} : \A e \in batch[q] : row'[e] = row[e]
    BY <1>5 DEF Commit, TypeOK, BatchOwned, BatchMarked
  <2> QED BY <1>5, <2>1, OwnedAfterEnd DEF Commit
<1>6. ASSUME NEW p \in Pollers, Abort(p) \/ Crash(p) \/ Exit(p) PROVE BatchOwned'
  BY <1>6, OwnedAfterEnd DEF Abort, Crash, Exit, LoseBatch
<1>7. ASSUME NEW p \in Pollers, Stop(p) \/ LeaveLoop(p) \/ Restart(p) PROVE BatchOwned'
  BY <1>7 DEF Stop, LeaveLoop, Restart, TypeOK, BatchOwned
<1>8. ASSUME NEW t \in tasks, Deliver(t) \/ DeliverFails(t) PROVE BatchOwned'
  BY <1>8 DEF Deliver, DeliverFails, BatchOwned
<1>9. CASE UNCHANGED vars
  BY <1>9 DEF vars, BatchOwned
<1> QED BY <1>1, <1>2, <1>3, <1>4, <1>5, <1>6, <1>7, <1>8, <1>9 DEF Next, PollerStep, WorkerStep

LEMMA MarkedInductive ==
  ASSUME TypeOK, BatchOwned, BatchMarked, [Next]_vars
  PROVE  BatchMarked'
<1> USE DEF poller, queue, counts, InBatch
<1>1. ASSUME NEW e \in Events, Stage(e) PROVE BatchMarked'
  BY <1>1 DEF Stage, BatchMarked
<1>2. ASSUME NEW p \in Pollers, Poll(p) PROVE BatchMarked'
  <2>1. PICK B \in SUBSET Events : /\ batch' = [batch EXCEPT ![p] = B]
                                   /\ todo' = [todo EXCEPT ![p] = B]
    BY <1>2 DEF Poll
  <2>2. \A e \in Events : marks[p][e] = "none"
    BY <1>2 DEF Poll, BatchOwned, BatchMarked
  <2> QED BY <1>2, <2>1, <2>2 DEF Poll, TypeOK, BatchMarked
<1>3. ASSUME NEW p \in Pollers, NEW e \in Events, Enqueue(p, e) PROVE BatchMarked'
  <2>1. PICK s \in Statuses : cur' = [cur EXCEPT ![p] = [event |-> e, status |-> s]]
    BY <1>3 DEF Enqueue, Statuses
  <2>2. cur'[p].event = e /\ cur'[p] \in [event : Events, status : Statuses]
    BY <2>1 DEF TypeOK
  <2> QED BY <1>3, <2>1, <2>2 DEF Enqueue, TypeOK, BatchMarked, BatchOwned
<1>4. ASSUME NEW p \in Pollers, Update(p) PROVE BatchMarked'
  <2>1. cur[p].event \in batch[p] \ todo[p] /\ cur[p].event \in Events /\ cur[p].status \in Statuses
    BY <1>4 DEF Update, BatchMarked, TypeOK
  <2>2. cur[p].status # "none"
    BY <2>1 DEF Statuses
  <2>3. /\ \A e \in Events : marks'[p][e] = IF e = cur[p].event THEN cur[p].status ELSE marks[p][e]
        /\ \A q \in Pollers \ {p} : marks'[q] = marks[q] /\ cur'[q] = cur[q] /\ pc'[q] = pc[q]
        /\ pc'[p] = IF todo[p] = {} THEN "commit" ELSE "enqueue"
    BY <1>4, <2>1 DEF Update, TypeOK
  <2> QED BY <1>4, <2>1, <2>2, <2>3 DEF Update, TypeOK, BatchMarked
<1>5. ASSUME NEW p \in Pollers, Commit(p) PROVE BatchMarked'
  BY <1>5, EndBatchEffect DEF Commit, BatchMarked
<1>6. ASSUME NEW p \in Pollers, Abort(p) \/ Crash(p) \/ Exit(p) PROVE BatchMarked'
  BY <1>6, EndBatchEffect DEF Abort, Crash, Exit, LoseBatch, BatchMarked
<1>7. ASSUME NEW p \in Pollers, Stop(p) \/ LeaveLoop(p) \/ Restart(p) PROVE BatchMarked'
  BY <1>7 DEF Stop, LeaveLoop, Restart, TypeOK, BatchMarked
<1>8. ASSUME NEW t \in tasks, Deliver(t) \/ DeliverFails(t) PROVE BatchMarked'
  BY <1>8 DEF Deliver, DeliverFails, BatchMarked
<1>9. CASE UNCHANGED vars
  BY <1>9 DEF vars, BatchMarked
<1> QED BY <1>1, <1>2, <1>3, <1>4, <1>5, <1>6, <1>7, <1>8, <1>9 DEF Next, PollerStep, WorkerStep

LEMMA ProcessedInductive ==
  ASSUME TypeOK, BatchMarked, ProcessedTrue, [Next]_vars
  PROVE  ProcessedTrue'
<1> USE DEF poller, queue, counts, NoPush, InBatch, ProcessedMeansEnqueued
<1>1. ASSUME NEW e \in Events, Stage(e) PROVE ProcessedTrue'
  BY <1>1 DEF Stage, TypeOK, ProcessedTrue
<1>2. ASSUME NEW p \in Pollers, Poll(p) PROVE ProcessedTrue'
  BY <1>2 DEF Poll, TypeOK, ProcessedTrue
<1>3. ASSUME NEW p \in Pollers, NEW e \in Events, Enqueue(p, e) PROVE ProcessedTrue'
  <2>1. \A f \in Events : enqueues'[f] >= enqueues[f]
    <3>1. enqueues \in [Events -> Nat]
      BY DEF TypeOK
    <3>2. enqueues' = [enqueues EXCEPT ![e] = @ + 1] \/ UNCHANGED enqueues
      BY <1>3 DEF Enqueue, Push
    <3> QED BY <3>1, <3>2
  <2>2. /\ cur'[p].event = e
        /\ cur'[p].status = "PROCESSED" => enqueues'[e] > 0
        /\ \A q \in Pollers \ {p} : cur'[q] = cur[q] /\ pc'[q] = pc[q]
    <3>1. CASE Push(p, e)
      BY <1>3, <3>1 DEF Enqueue, Push, TypeOK
    <3>2. CASE NoPush
      <4>1. cur' = [cur EXCEPT ![p] = [event |-> e, status |-> "FAILED"]]
        BY <1>3, <3>2 DEF Enqueue, Push, TypeOK
      <4> QED BY <1>3, <4>1 DEF Enqueue, TypeOK
    <3> QED BY <1>3, <3>1, <3>2 DEF Enqueue
  <2>3. enqueues' \in [Events -> Nat]
    BY TypeInductive DEF TypeOK
  <2>4. \A q \in Pollers : pc[q] = "update" => cur[q].event \in Events
    BY DEF BatchMarked, TypeOK
  <2> QED BY <1>3, <2>1, <2>2, <2>3, <2>4 DEF Enqueue, TypeOK, ProcessedTrue
<1>4. ASSUME NEW p \in Pollers, Update(p) PROVE ProcessedTrue'
  <2>1. cur[p].event \in Events
    BY <1>4 DEF Update, BatchMarked, TypeOK
  <2>2. /\ \A e \in Events : marks'[p][e] = IF e = cur[p].event THEN cur[p].status ELSE marks[p][e]
        /\ \A q \in Pollers \ {p} : marks'[q] = marks[q] /\ cur'[q] = cur[q] /\ pc'[q] = pc[q]
        /\ pc'[p] # "update"
    BY <1>4, <2>1 DEF Update, TypeOK
  <2> QED BY <1>4, <2>1, <2>2 DEF Update, ProcessedTrue
<1>5. ASSUME NEW p \in Pollers, Commit(p) PROVE ProcessedTrue'
  <2>1. \A e \in Events : row'[e] = "PROCESSED" => enqueues[e] > 0
    BY <1>5 DEF Commit, TypeOK, ProcessedTrue
  <2>2. /\ pc'[p] = "idle" /\ \A e \in Events : marks'[p][e] = "none"
        /\ \A q \in Pollers \ {p} : pc'[q] = pc[q] /\ cur'[q] = cur[q] /\ marks'[q] = marks[q]
    BY <1>5, EndBatchEffect DEF Commit
  <2> QED BY <1>5, <2>1, <2>2 DEF Commit, ProcessedTrue
<1>6. ASSUME NEW p \in Pollers, Abort(p) \/ Crash(p) \/ Exit(p) PROVE ProcessedTrue'
  BY <1>6, EndBatchEffect DEF Abort, Crash, Exit, LoseBatch, ProcessedTrue
<1>7. ASSUME NEW p \in Pollers, Stop(p) \/ LeaveLoop(p) \/ Restart(p) PROVE ProcessedTrue'
  BY <1>7 DEF Stop, LeaveLoop, Restart, TypeOK, ProcessedTrue
<1>8. ASSUME NEW t \in tasks, Deliver(t) \/ DeliverFails(t) PROVE ProcessedTrue'
  BY <1>8 DEF Deliver, DeliverFails, ProcessedTrue
<1>9. CASE UNCHANGED vars
  BY <1>9 DEF vars, ProcessedTrue
<1> QED BY <1>1, <1>2, <1>3, <1>4, <1>5, <1>6, <1>7, <1>8, <1>9 DEF Next, PollerStep, WorkerStep

LEMMA LostInductive ==
  ASSUME TypeOK, NoTaskLost, [Next]_vars
  PROVE  NoTaskLost'
<1> USE DEF poller, queue, counts
<1>1. CASE UNCHANGED queue
  BY <1>1 DEF NoTaskLost
<1>2. ASSUME NEW p \in Pollers, NEW e \in Events, Push(p, e) PROVE NoTaskLost'
  <2>1. NewTask(e).event = e /\ NewTask(e) \in tasks'
    BY <1>2 DEF Push, NewTask
  <2> QED BY <1>2, <2>1 DEF Push, NoTaskLost, TypeOK
<1>3. ASSUME NEW t \in tasks, Deliver(t) PROVE NoTaskLost'
  BY <1>3 DEF Deliver, NoTaskLost
<1>4. ASSUME NEW t \in tasks, DeliverFails(t) PROVE NoTaskLost'
  <2> DEFINE again == [t EXCEPT !.retried = @ + 1]
  <2>1. again.event = t.event
    BY DEF TypeOK, Tasks
  <2>2. (tasks' = (tasks \ {t}) \cup {again} /\ UNCHANGED archived)
          \/ (tasks' = tasks \ {t} /\ archived' = archived \cup {t.event})
    BY <1>4 DEF DeliverFails
  <2>3. received \subseteq received' /\ archived \subseteq archived' /\ UNCHANGED enqueues
    BY <1>4 DEF DeliverFails
  <2> HIDE DEF again
  <2> QED BY <2>1, <2>2, <2>3 DEF NoTaskLost
<1> QED BY <1>1, <1>2, <1>3, <1>4 DEF Next, vars, Stage, PollerStep, WorkerStep, Poll, Enqueue,
           NoPush, Update, Commit, LeaveLoop, Restart, Abort, Crash, Stop, Exit, LoseBatch

\* Where a row stays handled and no new task appears, the count still holds.
LEMMA CountKept ==
  ASSUME TypeOK, DuplicatesCounted, UNCHANGED enqueues,
         \A e \in Events : /\ lost'[e] \in Nat /\ lost'[e] >= lost[e]
                           /\ Handled(e) => Handled(e)' \/ lost'[e] > lost[e]
  PROVE  DuplicatesCounted'
<1> SUFFICES ASSUME NEW e \in Events
             PROVE  enqueues'[e] <= lost'[e] + (IF Handled(e)' THEN 1 ELSE 0)
  BY DEF DuplicatesCounted
<1>1. enqueues[e] \in Nat /\ lost[e] \in Nat /\ enqueues'[e] = enqueues[e]
  BY DEF TypeOK
<1>2. enqueues[e] <= lost[e] + (IF Handled(e) THEN 1 ELSE 0)
  BY DEF DuplicatesCounted
<1>3. CASE Handled(e)
  BY <1>1, <1>2, <1>3
<1>4. CASE ~Handled(e)
  BY <1>1, <1>2, <1>4
<1> QED BY <1>3, <1>4

LEMMA CountInductive ==
  ASSUME TypeOK, BatchOwned, BatchMarked, DuplicatesCounted, [Next]_vars
  PROVE  DuplicatesCounted'
<1> USE DEF poller, queue, counts
<1>0. \A e \in Events : lost[e] \in Nat
  BY DEF TypeOK
<1>1. ASSUME NEW e \in Events, Stage(e) PROVE DuplicatesCounted'
  <2>1. \A f \in Events : Handled(f) => Handled(f)'
    BY <1>1 DEF Stage, Handled, TypeOK, Statuses
  <2> QED BY <1>0, <1>1, <2>1, CountKept DEF Stage
<1>2. ASSUME NEW p \in Pollers, Poll(p) PROVE DuplicatesCounted'
  <2>1. PICK B \in SUBSET Events : /\ batch' = [batch EXCEPT ![p] = B]
                                   /\ todo' = [todo EXCEPT ![p] = B]
    BY <1>2 DEF Poll
  <2>2. batch[p] = {}
    BY <1>2 DEF Poll, BatchOwned, InBatch
  <2>3. \A f \in Events : Handled(f) => Handled(f)'
    BY <1>2, <2>1, <2>2 DEF Poll, Handled, TypeOK
  <2> QED BY <1>0, <1>2, <2>3, CountKept DEF Poll
<1>3. ASSUME NEW p \in Pollers, NEW e \in Events, Enqueue(p, e) PROVE DuplicatesCounted'
  <2>1. e \in todo[p] /\ e \in batch[p] /\ row[e] = "PENDING"
    BY <1>3 DEF Enqueue, BatchOwned
  <2>2. ~Handled(e)
    BY <2>1 DEF Handled, BatchOwned, Statuses
  <2>4. \A f \in Events : Handled(f) => Handled(f)'
    BY <1>3 DEF Enqueue, Push, NoPush, Handled, TypeOK
  <2>5. CASE NoPush
    BY <1>0, <1>3, <2>4, <2>5, CountKept DEF Enqueue, NoPush
  <2>6. CASE Push(p, e)
    <3>0. Handled(e)'
      BY <2>6 DEF Push, Handled, TypeOK
    <3> SUFFICES ASSUME NEW f \in Events
                 PROVE  enqueues'[f] <= lost'[f] + (IF Handled(f)' THEN 1 ELSE 0)
      BY DEF DuplicatesCounted
    <3>1. /\ enqueues[f] \in Nat /\ lost' = lost
          /\ enqueues'[f] = IF f = e THEN enqueues[f] + 1 ELSE enqueues[f]
      BY <1>3, <2>6 DEF Enqueue, Push, TypeOK
    <3>2. enqueues[f] <= lost[f] + (IF Handled(f) THEN 1 ELSE 0)
      BY DEF DuplicatesCounted
    <3>3. CASE f = e
      BY <1>0, <2>2, <3>0, <3>1, <3>2, <3>3
    <3>4. CASE f # e /\ Handled(f)
      BY <1>0, <2>4, <3>1, <3>2, <3>4
    <3>5. CASE f # e /\ ~Handled(f)
      BY <1>0, <3>1, <3>2, <3>5
    <3> QED BY <3>3, <3>4, <3>5
  <2> QED BY <1>3, <2>5, <2>6 DEF Enqueue
<1>4. ASSUME NEW p \in Pollers, Update(p) \/ LeaveLoop(p) \/ Restart(p) \/ Stop(p)
      PROVE  DuplicatesCounted'
  <2>1. UNCHANGED <<row, sent, enqueues, lost>>
    BY <1>4 DEF Update, LeaveLoop, Restart, Stop
  <2> QED BY <2>1 DEF DuplicatesCounted, Handled
<1>5. ASSUME NEW p \in Pollers, Commit(p) PROVE DuplicatesCounted'
  <2>1. \A f \in Events : f \in sent[p] => row'[f] \in Statuses
    BY <1>5 DEF Commit, BatchOwned, BatchMarked, TypeOK
  <2>2. \A f \in Events : row[f] \in Statuses => row'[f] \in Statuses
    BY <1>5 DEF Commit, TypeOK
  <2>3. \A q \in Pollers \ {p} : sent'[q] = sent[q]
    BY <1>5, EndBatchEffect DEF Commit
  <2>4. \A f \in Events : Handled(f) => Handled(f)'
    BY <2>1, <2>2, <2>3 DEF Handled
  <2> QED BY <1>0, <1>5, <2>4, CountKept DEF Commit
<1>6. ASSUME NEW p \in Pollers, Abort(p) \/ Crash(p) \/ Exit(p) PROVE DuplicatesCounted'
  <2>1. /\ UNCHANGED <<row, enqueues>>
        /\ \A f \in Events : lost'[f] = IF f \in sent[p] THEN lost[f] + 1 ELSE lost[f]
        /\ \A q \in Pollers \ {p} : sent'[q] = sent[q]
    BY <1>6, EndBatchEffect DEF Abort, Crash, Exit, LoseBatch
  <2>2. \A f \in Events : lost'[f] \in Nat /\ lost'[f] >= lost[f]
    BY <1>0, <2>1
  <2>3. \A f \in Events : Handled(f) => Handled(f)' \/ lost'[f] > lost[f]
    BY <1>0, <2>1 DEF Handled
  <2> QED BY <2>1, <2>2, <2>3, CountKept
<1>7. ASSUME NEW t \in tasks, Deliver(t) \/ DeliverFails(t) PROVE DuplicatesCounted'
  BY <1>7 DEF Deliver, DeliverFails, DuplicatesCounted, Handled
<1>8. CASE UNCHANGED vars
  BY <1>8 DEF vars, DuplicatesCounted, Handled
<1> QED BY <1>1, <1>2, <1>3, <1>4, <1>5, <1>6, <1>7, <1>8 DEF Next, PollerStep, WorkerStep

-----------------------------------------------------------------------------
LEMMA InitIInv == Init => IInv
<1> SUFFICES ASSUME Init PROVE IInv
  OBVIOUS
<1>1. TypeOK
  BY DEF Init, TypeOK
<1>2. BatchOwned /\ BatchMarked /\ ProcessedTrue /\ NoTaskLost
  BY DEF Init, BatchOwned, BatchMarked, ProcessedTrue, ProcessedMeansEnqueued, InBatch, NoTaskLost
<1>3. DuplicatesCounted
  BY DEF Init, DuplicatesCounted
<1> QED BY <1>1, <1>2, <1>3 DEF IInv

\* The invariant holds in every reachable state of the relay.
THEOREM Invariant == Spec => []IInv
<1>1. IInv /\ [Next]_vars => IInv'
  BY TypeInductive, OwnedInductive, MarkedInductive, ProcessedInductive, CountInductive,
     LostInductive DEF IInv
<1> QED BY <1>1, InitIInv, PTL DEF Spec

\* The rows, the pollers and the queue always have their types.
THEOREM TypeCorrect == Spec => []TypeOK
BY Invariant, PTL DEF IInv

(***************************************************************************)
(* ProcessPendingEvents marks a row PROCESSED only if its task is queued,  *)
(* and a task that is queued is never lost before the merchant has it or   *)
(* asynq archives it.                                                      *)
(***************************************************************************)
THEOREM NothingVanishes == Spec => [](ProcessedMeansEnqueued /\ NoTaskLost)
BY Invariant, PTL DEF IInv, ProcessedTrue

(***************************************************************************)
(* ProcessPendingEvents and the queue never leave an event where nothing   *)
(* can pick it up again, for any pollers, faults and shutdowns.            *)
(***************************************************************************)
THEOREM NothingGetsStuck == Spec => []NoDeadEnd
<1>1. IInv => NoDeadEnd
  <2> SUFFICES ASSUME IInv, NEW e \in Events, row[e] \in {"PENDING", "PROCESSED"}
               PROVE  \/ e \in received \/ e \in archived \/ \E t \in tasks : t.event = e
                      \/ Free(e) \/ \E p \in Pollers : InBatch(p) /\ e \in batch[p]
    BY DEF NoDeadEnd
  <2>1. CASE row[e] = "PENDING"
    BY <2>1 DEF Free, IInv, BatchOwned
  <2>2. CASE row[e] = "PROCESSED"
    BY <2>2 DEF IInv, ProcessedTrue, ProcessedMeansEnqueued, NoTaskLost
  <2> QED BY <2>1, <2>2
<1> QED BY <1>1, Invariant, PTL

(***************************************************************************)
(* Any number of pollers enqueue an event at most once more than           *)
(* transactions that had enqueued it have been rolled back: SKIP LOCKED    *)
(* really keeps them apart.                                                *)
(***************************************************************************)
THEOREM DuplicatesBounded == Spec => []DuplicatesNeedRollbacks
<1>1. IInv => DuplicatesNeedRollbacks
  <2> SUFFICES ASSUME IInv, NEW e \in Events PROVE enqueues[e] <= 1 + lost[e]
    BY DEF DuplicatesNeedRollbacks
  <2>1. enqueues[e] \in Nat /\ lost[e] \in Nat
    BY DEF IInv, TypeOK
  <2>2. enqueues[e] <= lost[e] + (IF Handled(e) THEN 1 ELSE 0)
    BY DEF IInv, DuplicatesCounted
  <2>3. CASE Handled(e)
    BY <2>1, <2>2, <2>3
  <2>4. CASE ~Handled(e)
    BY <2>1, <2>2, <2>4
  <2> QED BY <2>3, <2>4
<1> QED BY <1>1, Invariant, PTL

-----------------------------------------------------------------------------
(***************************************************************************)
(* Outbox implements EventRelay.                                           *)
(***************************************************************************)

\* Only events that are in the table have tasks, and only events with tasks arrive.
Queued ==
  /\ \A t \in tasks : enqueues[t.event] > 0
  /\ \A e \in received \cup archived : enqueues[e] > 0
  /\ \A e \in Events : enqueues[e] > 0 => row[e] # "absent"

LEMMA QueuedInductive ==
  ASSUME IInv, Queued, [Next]_vars
  PROVE  Queued'
<1> USE DEF poller, queue, counts, NoPush
<1>1. ASSUME NEW e \in Events, Stage(e) PROVE Queued'
  BY <1>1 DEF Stage, Queued, IInv, TypeOK
<1>2. ASSUME NEW p \in Pollers, NEW e \in Events, Enqueue(p, e) PROVE Queued'
  <2>1. row[e] = "PENDING" /\ UNCHANGED row
    BY <1>2 DEF Enqueue, IInv, BatchOwned
  <2>2. CASE Push(p, e)
    <3>1. /\ enqueues \in [Events -> Nat] /\ enqueues' = [enqueues EXCEPT ![e] = @ + 1]
          /\ tasks' = tasks \cup {NewTask(e)} /\ UNCHANGED <<received, archived>>
      BY <2>2 DEF Push, IInv, TypeOK
    <3>2. \A f \in Events : enqueues[f] > 0 => enqueues'[f] > 0
      BY <3>1
    <3>3. enqueues'[e] > 0 /\ \A f \in Events : enqueues'[f] > 0 => f = e \/ enqueues[f] > 0
      BY <3>1
    <3>4. /\ NewTask(e).event = e /\ \A t \in tasks : t.event \in Events
          /\ received \cup archived \subseteq Events
      BY DEF NewTask, IInv, TypeOK, Tasks
    <3> QED BY <2>1, <3>1, <3>2, <3>3, <3>4 DEF Queued
  <2>3. CASE NoPush
    BY <2>1, <2>3 DEF Queued
  <2> QED BY <1>2, <2>2, <2>3 DEF Enqueue
<1>3. ASSUME NEW p \in Pollers, Commit(p) PROVE Queued'
  <2>1. \A e \in Events : row[e] # "absent" => row'[e] # "absent"
    BY <1>3 DEF Commit, IInv, TypeOK, Statuses
  <2> QED BY <1>3, <2>1 DEF Commit, Queued
<1>4. ASSUME NEW t \in tasks, Deliver(t) PROVE Queued'
  BY <1>4 DEF Deliver, Queued
<1>5. ASSUME NEW t \in tasks, DeliverFails(t) PROVE Queued'
  <2>1. /\ received' \subseteq received \cup {t.event} /\ archived' \subseteq archived \cup {t.event}
        /\ UNCHANGED <<enqueues, row>>
        /\ tasks' \subseteq tasks \cup {[t EXCEPT !.retried = @ + 1]}
    BY <1>5 DEF DeliverFails
  <2>2. [t EXCEPT !.retried = @ + 1].event = t.event
    BY DEF IInv, TypeOK, Tasks
  <2> QED BY <2>1, <2>2 DEF Queued
<1>6. CASE UNCHANGED <<row, tasks, enqueues, received, archived>>
  BY <1>6 DEF Queued
<1> QED BY <1>1, <1>2, <1>3, <1>4, <1>5, <1>6
        DEF Next, PollerStep, WorkerStep, Poll, Update, LeaveLoop, Restart, Abort, Crash, Exit,
            LoseBatch, Stop, vars

\* A change of one event's phase is a move of the map of phases.
LEMMA OnePhase ==
  ASSUME NEW e \in Events, NEW from, NEW to, Phase(e) = from, Phase(e)' = to,
         \A f \in Events \ {e} : Phase(f)' = Phase(f)
  PROVE  Relay!Move(e, from, to)
<1> DEFINE ph == [f \in Events |-> Phase(f)]
<1>1. ph[e] = from /\ ph' = [ph EXCEPT ![e] = to]
  OBVIOUS
<1> QED BY <1>1 DEF Relay!Move

LEMMA SamePhases ==
  ASSUME \A e \in Events : Phase(e)' = Phase(e)
  PROVE  UNCHANGED [e \in Events |-> Phase(e)]
OBVIOUS

\* A task of t's event arrives, is archived, or both, or neither.
LEMMA DeliveryRelayed ==
  ASSUME IInv, Queued, NEW t \in tasks, UNCHANGED <<row, enqueues>>,
         received' \in {received, received \cup {t.event}},
         archived' \in {archived, archived \cup {t.event}}
  PROVE  [Relay!Next]_([e \in Events |-> Phase(e)])
<1> DEFINE e == t.event
<1>1. e \in Events /\ enqueues[e] > 0
  BY DEF IInv, TypeOK, Tasks, Queued
<1>2. \A f \in Events \ {e} : Phase(f)' = Phase(f)
  BY DEF Phase
<1>3. Phase(e) \in {"queued", "archived", "received"}
  BY <1>1 DEF Phase
<1>4. \/ Phase(e)' = Phase(e)
      \/ Phase(e) = "queued" /\ Phase(e)' \in {"received", "archived"}
      \/ Phase(e) = "archived" /\ Phase(e)' = "received"
  BY <1>1 DEF Phase
<1>5. CASE Phase(e)' = Phase(e)
  BY <1>2, <1>5, SamePhases
<1>6. CASE Phase(e) = "queued" /\ Phase(e)' = "received"
  BY <1>1, <1>2, <1>6, OnePhase DEF Relay!Next, Relay!Deliver
<1>7. CASE Phase(e) = "queued" /\ Phase(e)' = "archived"
  BY <1>1, <1>2, <1>7, OnePhase DEF Relay!Next, Relay!Archive
<1>8. CASE Phase(e) = "archived" /\ Phase(e)' = "received"
  BY <1>1, <1>2, <1>8, OnePhase DEF Relay!Next, Relay!Deliver
<1> QED BY <1>4, <1>5, <1>6, <1>7, <1>8

LEMMA StepRelayed ==
  ASSUME IInv, Queued, [Next]_vars
  PROVE  [Relay!Next]_([e \in Events |-> Phase(e)])
<1> USE DEF poller, queue, counts, NoPush
<1>1. ASSUME NEW e \in Events, Stage(e) PROVE Relay!Next
  <2>1. row[e] = "absent" /\ row'[e] = "PENDING" /\ UNCHANGED queue
        /\ \A f \in Events \ {e} : row'[f] = row[f]
    BY <1>1 DEF Stage, IInv, TypeOK
  <2>2. e \notin received \cup archived /\ ~(enqueues[e] > 0)
    BY <2>1 DEF Queued
  <2>3. Phase(e) = "absent" /\ Phase(e)' = "staged"
    BY <2>1, <2>2 DEF Phase, Unsent
  <2>4. \A f \in Events \ {e} : Phase(f)' = Phase(f)
    BY <2>1 DEF Phase
  <2> QED BY <2>3, <2>4, OnePhase DEF Relay!Next, Relay!Stage
<1>2. ASSUME NEW p \in Pollers, NEW e \in Events, Enqueue(p, e)
      PROVE  [Relay!Next]_([f \in Events |-> Phase(f)])
  <2>1. row[e] = "PENDING" /\ UNCHANGED row
    BY <1>2 DEF Enqueue, IInv, BatchOwned
  <2>2. CASE Push(p, e)
    <3>1. /\ enqueues[e] \in Nat /\ enqueues'[e] = enqueues[e] + 1
          /\ \A f \in Events \ {e} : enqueues'[f] = enqueues[f]
          /\ UNCHANGED <<received, archived>>
      BY <2>2 DEF Push, IInv, TypeOK
    <3>2. \A f \in Events \ {e} : Phase(f)' = Phase(f)
      BY <2>1, <3>1 DEF Phase
    <3>3. Phase(e)' = Phase(e) \/ (Phase(e) = "staged" /\ Phase(e)' = "queued")
      BY <2>1, <3>1 DEF Phase, Unsent
    <3>4. CASE Phase(e)' = Phase(e)
      BY <3>2, <3>4, SamePhases
    <3>5. CASE Phase(e) = "staged" /\ Phase(e)' = "queued"
      BY <3>2, <3>5, OnePhase DEF Relay!Next, Relay!Enqueue
    <3> QED BY <3>3, <3>4, <3>5
  <2>3. CASE NoPush
    <3>1. \A f \in Events : Phase(f)' = Phase(f)
      BY <2>1, <2>3 DEF Phase
    <3> QED BY <3>1, SamePhases
  <2> QED BY <1>2, <2>2, <2>3 DEF Enqueue
<1>3. ASSUME NEW p \in Pollers, Commit(p) PROVE Relay!Next
  <2> DEFINE S == {e \in Events : Phase(e) = "staged" /\ Phase(e)' = "failed"}
  <2>1. /\ \A e \in Events : row'[e] = IF marks[p][e] = "none" THEN row[e] ELSE marks[p][e]
        /\ UNCHANGED queue
    BY <1>3 DEF Commit
  <2>2. ASSUME NEW e \in Events PROVE Phase(e)' = IF e \in S THEN "failed" ELSE Phase(e)
    <3>1. CASE marks[p][e] = "none"
      BY <2>1, <3>1 DEF Phase, Unsent
    <3>2. CASE marks[p][e] # "none"
      <4>1. row[e] = "PENDING" /\ marks[p][e] \in {"PROCESSED", "FAILED"}
        BY <3>2 DEF IInv, TypeOK, BatchMarked, BatchOwned, Statuses
      <4>2. marks[p][e] = "PROCESSED" => enqueues[e] > 0
        BY DEF IInv, ProcessedTrue
      <4> QED BY <2>1, <3>2, <4>1, <4>2 DEF Phase, Unsent
    <3> QED BY <3>1, <3>2
  <2>3. Relay!GiveUp(S)
    <3>1. [e \in Events |-> Phase(e)]' = [e \in Events |-> IF e \in S THEN "failed" ELSE Phase(e)]
      BY <2>2
    <3> HIDE DEF S
    <3>2. \A e \in S : e \in Events /\ Phase(e) = "staged"
      BY DEF S
    <3> QED BY <3>1, <3>2 DEF Relay!GiveUp
  <2> QED BY <2>3 DEF Relay!Next
<1>4. ASSUME NEW t \in tasks, Deliver(t) \/ DeliverFails(t)
      PROVE  [Relay!Next]_([e \in Events |-> Phase(e)])
  BY <1>4, DeliveryRelayed DEF Deliver, DeliverFails
<1>5. CASE UNCHANGED <<row, enqueues, received, archived>>
  <2>1. \A e \in Events : Phase(e)' = Phase(e)
    BY <1>5 DEF Phase
  <2> QED BY <2>1, SamePhases
<1> QED BY <1>1, <1>2, <1>3, <1>4, <1>5
        DEF Next, PollerStep, WorkerStep, Poll, Update, LeaveLoop, Restart, Abort, Crash, Exit,
            LoseBatch, Stop, vars

(***************************************************************************)
(* The pollers, the table and the queue implement the relay of events:     *)
(* for any number of processes and any crash, rollback or retry.           *)
(***************************************************************************)
THEOREM OutboxIsRelay == Spec => Relays
<1>1. Init => Queued /\ Relay!Init
  <2> SUFFICES ASSUME Init PROVE Queued /\ Relay!Init
    OBVIOUS
  <2>1. Queued
    BY DEF Init, Queued
  <2>2. \A e \in Events : Phase(e) = "absent"
    BY DEF Init, Phase, Unsent
  <2> QED BY <2>1, <2>2 DEF Relay!Init
<1>2. IInv /\ Queued /\ [Next]_vars => Queued' /\ [Relay!Next]_([e \in Events |-> Phase(e)])
  BY QueuedInductive, StepRelayed
<1> QED BY <1>1, <1>2, Invariant, PTL DEF Spec, Relays, Relay!Spec
=============================================================================
