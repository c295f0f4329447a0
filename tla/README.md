# VaultPay: formal model

TLA+ specifications of VaultPay, the payment API in this repository, with TLC
configurations that check them on small instances and TLAPS proofs that hold
for every size. `PROJECT.json` lists the components, the runs, the source lines
behind every definition, the hazards and the theorems in machine-readable form.

## The system

VaultPay is one Go process (`cmd/api/main.go`), of which several may run, in
front of PostgreSQL (a master and a read replica) and Redis.

| Component | State | Operations | What makes it correct |
|---|---|---|---|
| Payment ledger (`payment_service.go`, `payment_repo.go`) | `users.balance`, `payments.status` | `ProcessCharge`, `ProcessRefund`, each one SQL transaction | no overdraft, no lost update, a payment is refunded once, all of a charge or none of it |
| Outbox staging (`outbox_repository.go`) | `outbox_events` rows | `SaveEventTx`, inside the charge's transaction | a payment has an event exactly when it is on the books |
| Charge endpoint (`payment_handler.go`) | the request's progress | `CreateChargeHandler` | 200 only for a committed charge; the lock is given back |
| Idempotency middleware (`idempotency.go`) | Redis `idem:<key>`, 24 h | look up, replay, record, save | a retry does not charge again |
| Distributed lock (`redis_lock.go`) | Redis `lock:payment:<user>`, 5 s | `AcquireLock`, `ReleaseLock` | charges of one user do not overlap while the TTL lasts |
| Outbox poller (`outbox_worker.go`) | rows locked, tasks enqueued | `ProcessPendingEvents` every few seconds, `Stop` | every event reaches the queue, again only after the rollback of a transaction that had enqueued it |
| Webhook worker (`webhook_worker.go`, asynq) | the queue | `ProcessWebhookTask` | no event is forgotten |
| Circuit breaker (`cluster.go`) | state, failure count, time of the last change | `CanExecute`, `RecordSuccess`, `RecordFailure`, `RetryQuery` | state and counter agree, queries are turned away after a trip, the replica rests, the breaker recovers |
| API key rate limiter (`rate_limiter.go`) | Redis sorted set per key | the Lua script | the set stays small; at most `limit` requests per window |
| Address rate limiter (`handler/middleware.go`) | token bucket per address | `Allow`, the cleaner goroutine | rate and burst hold for every interval |
| Access tokens (`jwt_auth.go`, `jwt_handler.go`) | Redis `blacklist:<token>` | issue, revoke, validate | revoked tokens stay out |
| Disputes (`dispute.go`) | two `sync.Map`s | `CreateDispute` | one open dispute per payment |
| Subscriptions (`subscription.go`, `subscription_handler.go`) | a `sync.Map` in the process | `CreateSubscription`, `CalculateProration` | whole periods on every date, quotes that follow the time left |
| Currency conversion (`currency.go`) | none | `ConvertMinorUnits` | conversions make no money and lose little |
| Payment list (`payment_repo.go`) | the client's cursor; `payments` on the replica | `GetPaginatedTransactions` | no payment twice, none left out, the list ends |
| Audit trail (`audit_repository.go`) | `payment_events` on both nodes | `LogEvent`, `ReplayHistory`, `AnalyzeTransitions` | a history once read does not change |
| API keys, users, migrations, logging | | | not modelled, see below |

A charge passes through most of them: the idempotency middleware, the handler
with the per-user lock, the ledger's transaction, which stages an event that the
poller later hands to the queue, from which a worker delivers it to the merchant.
The hard parts are where two of these systems meet: two requests between a check
and its effect, a Redis answer that comes too late or never, a `COMMIT` whose
outcome is unknown, a process that stops between PostgreSQL and the queue,
reports that reach the breaker after it has changed its mind, and readers of a
replica that is behind. Besides, there is arithmetic whose corners (the 31st, a
leap day, a fraction of a cent) tests on the day of writing do not meet. The hazards in
`PROJECT.json` name the line of each.

## Modules

Components that share state or a path share a module; `MC<Module>` with its
`.cfg` files instantiates it for TLC, and `<Module>Proofs` holds its theorems.

**AtomicLedger** is the abstract ledger: a charge moves money, adds a
`succeeded` payment and an event in one step; a refund gives the money back and
marks the payment `refunded` in one step.

**Ledger** is what the code does. `pc[t]` names the SQL statement request `t`
executes next; the statements of different requests interleave. `balance`,
`status` and `outbox` are the committed tables, `writes[t]` what transaction `t`
has written and not committed, `userLock` and `payLock` the row locks of
`SELECT ... FOR UPDATE` and `UPDATE`. `ChargeSelect`, `ChargeLock`,
`ChargeUpdate`, `ChargeInsert`, `SaveEventTx`, `ChargeCommit` follow
`CreateTransactionRecordTx` and `ProcessCharge`; `RefundSelect`, `RefundCredit`,
`RefundMark`, `RefundCommit` follow `RefundTransactionRecord`, with the rejections
of `CreateRefundHandler` in `RefundBegin`. A charge is
SERIALIZABLE: `stale` marks snapshots older than the row they must lock, and
`ChargeConflict` is PostgreSQL's refusal. `Abort` is any statement that fails;
each `Commit` may succeed, fail, or succeed without the service hearing of it.
`Linearizable` says that Ledger implements AtomicLedger; the tables are the same
variables in both, so the refinement mapping is the identity on them.

**ChargeApi** is the path of `POST /v1/charges` in front of the ledger, with
`ProcessCharge` as one step, which is what LedgerProofs justifies. `cache` and `lock`
are the two kinds of Redis entries, `gone` the requests whose context is cancelled.
`Loads` gives the requests that are sent and `Faults` which kinds of fault may come
together: a Redis call that fails with or without effect, a client that disconnects, a
lost acknowledgement of `COMMIT`, a crash, the cache's TTL. `LockExpire` may always
happen. `before`, `expired` and `trouble` only record history for the properties.

**Outbox** goes from the `PENDING` row to the merchant. A poller locks a batch
(`Poll`, `FOR UPDATE SKIP LOCKED LIMIT Batch`), enqueues and marks row by row
(`Enqueue`, `Update`), and commits (`Commit`); `Abort`, `Crash` and `Exit` end it
early, `Stop` and `LeaveLoop` shut it down, `Restart` starts the process again.
`Deliver` and `DeliverFails` are `ProcessWebhookTask` as asynq calls it. Several
pollers stand for several API processes. `sent` and `lost` record history: the rows
whose task a poller's open transaction has put into the queue, and for each row how
many transactions were rolled back after that.

**EventRelay** is what the outbox promises: each event on its own goes from
`staged` to `queued` to `received` or `archived`, or from `staged` to `failed`.
`Relays` says that Outbox implements it. The mapping `Phase(e)` lets an event be
`queued` from the moment its task is in the queue, whatever becomes of the
batch, which is how a second task after a rollback turns into a stutter.

**CircuitBreaker** has one step per critical section of `cb.mu`; `CanExecute` has
two, since the code looks under the read lock first. Time is the one test the
code makes, `lastStateLog` being `recent` or `past`. `RetryQuery` is the loop
around it: attempts, backoff, cancellation. `Fallback` is what becomes of a query
that is turned away: its operation runs once, the same operation that an admitted
query runs, and the breaker does not hear of it.

**Gateway** composes the two limiters in the order `main.go` installs them. The first is
the token bucket per address, with the cleaner that forgets clients silent for three
minutes; a unit of time is a fraction of a second in which a bucket gains `Rate` whole
tokens, and `excess` is what a client was granted beyond its rate and one burst for each
restart, counted since the moment that makes it largest. The second is the Lua script. A
request reads the clock and reaches Redis up to `MaxLag` seconds after it passed the
first limiter, so scripts run with readings out of order. The set holds seconds, because
the script uses the second both as score and as member. `passed` counts the requests of
a key that went on to their handlers in the current second. `AdmitUnlimited` are the
routes registered outside the `/v1` group. `Restart` empties the buckets and leaves the
windows. One process is modelled; each further one has buckets of its own.

**Billing** has the store of subscriptions, quotes for another plan, and money
that is converted back and forth. Dates are those of Go's `time` package: `DayNumber`
takes a day past the end of its month into the next, as `AddDate` does. An instant is
a date and a number of ticks since midnight, `DayTicks` to the day: nanoseconds in the
code, any number in the proofs. `Prorated` is the set of results the floating-point
expression can have. It divides, subtracts from 1.0, multiplies twice and subtracts
again, each time rounding to the nearest float64, so the result misses the exact share
on either side, by an amount that depends on all operands; then it is cut to an
integer. The model lets the share be off by anything up to `Rounding` in both
directions, except where no time has passed: then the ratio is 1.0 and nothing is
rounded. Conversion is exact on
fractions and then cut off, since 83.5 and all amounts below 2^53 are exact in
float64 and a quotient by 83.5 is either whole or far enough from it.

**PaymentReads** is everything that reads the replica. `Page` is
`GetPaginatedTransactions` as a client calls it that follows the cursors; `PageCut`
is the same when the connection breaks between two rows, which the code cannot
tell from the end, as it never asks for `rows.Err()`. `LogEvent` and `EndInsert` are
the two ends of an INSERT: its id is drawn at the first and visible at the second.
`AnalyzeTransitions` returns the row numbers and predecessors of the window
functions, again perhaps cut short. `from`, `repeated`, `base` and `missing` only
record history for the properties.

**AccessTokens** has a clock finer than a second: `iat` is cut to whole seconds
and the blacklist's TTL is not. A validation looks the token up and checks its
expiry in two steps; a failing lookup is treated as "not revoked", as in the code.

**Disputes** has one step per `sync.Map` call of `CreateDispute`.

## Runs

| Run | Checks | Instance |
|---|---|---|
| `ledger` | `NoOverdraft`, `ChargeAtomicity`, `OkMeansCommitted`, `RefundedOnce`, `Conservation`, `WaitsEnd`, `Linearizable`, `Answered` | 3 requests, each any charge or refund; 2 users and an unknown id; amounts 0 to 2 |
| `charge_api` | `MutualExclusion`, `TruthfulAnswer`, `RetrySafe`, `LockReturned` | 3 requests in 3 mixes of user, key and validity; each kind of fault, and disconnect with lost `COMMIT`; lock expiry |
| `outbox` | `DuplicatesNeedRollbacks`, `NoTaskLost`, `NoDeadEnd`, `Settled`, `Relays` | 2 pollers, 2 events, batches of 2, 1 retry, 1 failure, crash or shutdown |
| `breaker` | `TripsAtThreshold`, `TurnedAwayAfterTrip`, `Recovers` | 3 queries, threshold 2, 2 attempts, 9 failing operations |
| `gateway` | `QuotaRespected`, `WindowBounded` | 2 addresses with one key, rate 1, burst 2, forgotten after 2, window 2, lag 1, limit 4, any restarts, 6 units of time |
| `access_tokens` | `RevokedStaysOut` | tokens of 2 seconds, 2 ticks a second, one validation |
| `billing` | `PeriodLength`, `NoOvertaking`, `QuoteOffByOne`, `WaitingCostsOne`, `ConversionLoss` | 2 subscriptions on 11 dates from 2023 to 2100, 2 ticks a day; prices -1, 60 and 61, rounding by up to 2; amounts of -84 to 250 |
| `payment_reads` | `NoRepeat`, `Complete`, `WalkEnds`, `HistoryStable` | 4 payments, pages of 2, 3 events of a payment |
| `charged_twice` | `NeverChargedTwice`, violated | 2 requests, 1 key, a disconnect or none |
| `outbox_dropped` | `NothingDropped`, violated | 1 poller, 2 events, no crash |
| `dispute_race` | `OneDisputePerPayment`, violated | 3 requests, a known and an unknown payment |
| `key_limit` | `LimitEnforced`, violated | as `gateway` |

Type invariants are checked along with a module's passing run. That of
AccessTokens is part of the invariant proved in AccessTokensProofs; Disputes has
only the run that shows its race.

What they show:

- **ledger.** Whatever the interleaving, and whichever statement fails, balances
  stay non-negative and add up with the payments that are not refunded, a payment
  and its event appear together, and a payment is refunded to one requester at
  most. `WaitsEnd` rules out deadlock and rows that stay locked: a refund holds its
  payment row while it waits for the users row, whoever holds a users row waits for
  nothing, and whoever holds a row is still running. `Answered` is what follows for
  every request under fairness.
- **charge_api.** The lock can fail to exclude only after its TTL ran out under a
  holder, and then the ledger still keeps the money right. The cache never
  replays anything but a success of the same key. A retry sent after the first
  attempt ended is safe, unless one of the faults that lose the saved answer
  happened. A client that disconnects does not leave the lock behind.
- **outbox.** At-least-once delivery with a precise account of the "more than
  once": an event is enqueued again only after the rollback of a transaction that had
  enqueued it, once for each; other rollbacks account for nothing.
  `NoDeadEnd` says of every state what `Settled` says of every behaviour: something
  can still move an event that is not settled. Seen from outside, all of it is the
  relay of EventRelay.
- **breaker.** Late reports and the gap between the two locks of `CanExecute` do
  not bring state and counter apart, and after a trip nobody is admitted before the
  cooldown is over unless a query admitted earlier succeeds. This is about whom the
  breaker admits, not about the load on the replica: the fallback of a query that was
  turned away calls the same operation (see the disagreements below).
- **gateway.** Forgetting a bucket gives no client a second burst, because a
  bucket is full again by the time it is forgotten; a restart gives exactly one.
  The set stays within the window and the lag, since it holds seconds; what this
  means for the key's limit is shown by `key_limit`.
- **access_tokens.** The blacklist entry lives as long as a fresh token, hence at
  least as long as the revoked one, and the order of lookup and expiry check
  leaves no gap.
- **billing.** A monthly period has as many days as the month it starts in, so
  `AddDate` on the 31st of January leads to the 2nd or 3rd of March, and a customer
  who comes a moment later can end almost three days earlier, never more. Quotes are
  off by one minor unit at most, and a later quote is higher by one at most: both do
  happen, since a difference of two rounded products is not monotone near an integer.
  An amount that is converted again and again loses less than two cents in
  all: after the first round the cut-off finds nothing more to take.
- **payment_reads.** Although ids are random and new payments turn up on both
  sides of the cursor, no page repeats a payment and a walk that was not cut has
  shown all the replica had at its start. What a client cannot rely on is that a
  page without a cursor is the last one. A history changes in retrospect only where
  an INSERT with a smaller id was still under way or not replicated.

### Bounds

Three requests are enough for the ledger's and the lock's hard cases: two charges that
race and a refund; a charge and two refunds of it; a holder that lost its lock, its
successor and a third that would enter if the successor's lock were deleted. Amounts 0
to 2 against balances 2 and 1 reach the refusal of zero, insufficient funds at first and
only after another charge. Two events and two pollers reach batches of one and of two,
split batches, and a row taken over after a rollback; batches smaller than the backlog
are left to the proof, which holds for every `Batch`. In the breaker, 9 failing
operations make two trips and a failed trial possible. The limiters' clock passes their
windows at least twice, and restarts may come at any time; the tokens' clock goes past
the expiry of a token issued at the start and past the end of an early revocation.
Faults come one kind at a time, except for the pair that together hides a charge from
its client; the proofs hold for every combination. The dates are the ends of months and
years, leap days, and 2100, which is no leap year. Two ticks a day give periods that
start and end at noon and quotes between whole days. Prices differ by 61 and 62, so that
some shares of a period of 31 days are whole numbers and others are within `Rounding` of
one, above and below. In the code `Rounding` is far smaller in proportion: with amounts
up to 2^44 the rounded operations are off by less than 0.03 minor units together, and
the proofs ask only for less than half a unit in the shortest period. Subscriptions and
conversions have no variable in common, and the constraint `Apart` explores each with
the other at rest, and quotes for one subscription at a time. Four payments with pages
of two give walks of one to three pages with insertions before and behind the cursor;
three events are enough for one that commits between two that were read. `MaxFaults`,
`MaxTime` and `MaxEvents` appear only in guards, and the theorems hold for every value
of them.

### Fairness

- Ledger: `Step(t)` of each request; the pool gives every transaction a
  connection and PostgreSQL grants a row lock when its holder ends.
- ChargeApi: requests that have arrived go on; arrivals, faults and expiry owe
  nothing, so `LockReturned` does not lean on the TTL.
- Outbox: the ticker fires, calls return, a process that is down is started
  again, asynq works through its queue. Charges, faults and shutdowns owe nothing.
  The restart is what the Kubernetes Deployment does; `docker-compose.yml` has no
  restart policy, and there `Settled` holds only if somebody starts the process again.
- CircuitBreaker: time passes, goroutines run and reads keep coming.
- PaymentReads: the client goes on asking while it gets a cursor (`Page`). Inserts,
  replication and broken connections owe nothing.

Only weak fairness is used. Deadlock checking is off where every request has
ended or a bounded clock has run out.

## Proofs

| Theorem | Statement |
|---|---|
| `LedgerProofs!NeverOverdrawn` | no committed balance is negative |
| `LedgerProofs!ChargeIsAtomic` | payment row and outbox row exist together |
| `LedgerProofs!Refinement` | Ledger implements AtomicLedger |
| `LedgerProofs!AnswersAreTrue` | success is answered for what was committed, once per refunded payment |
| `LedgerProofs!BooksBalance` | balance and payments not refunded add up to the initial balance |
| `LedgerProofs!NoDeadlock` | every chain of lock waits ends, after two transactions at most, in one that waits for nothing |
| `ChargeApiProofs!Exclusion` | charges of one user overlap only after an expiry |
| `ChargeApiProofs!AnswersAreTrue` | 200 stands for a committed charge, under all faults |
| `ChargeApiProofs!RetriesAreSafe` | a retry after the first attempt ended does not charge again |
| `ChargeApiProofs!LocksComeBack` | a lock's holder is still in the handler, unless a process died or Redis failed |
| `OutboxProofs!NothingVanishes` | PROCESSED means enqueued; what was enqueued is received, archived or queued |
| `OutboxProofs!DuplicatesBounded` | an event is enqueued at most once more than transactions that had enqueued it were rolled back |
| `OutboxProofs!NothingGetsStuck` | an event that is not settled can be polled, is being worked on, or has a task |
| `CircuitBreakerProofs!BreakerConsistent` | CLOSED exactly while fewer than `Threshold` failures since a success |
| `CircuitBreakerProofs!BreakerTurnsAway` | nobody is admitted between a trip and the end of its cooldown, unless a success closed the breaker |
| `OutboxProofs!OutboxIsRelay` | Outbox implements EventRelay |
| `GatewayProofs!QuotaHolds` | between any two instants no client exceeds rate and burst, plus a burst for each restart in between |
| `GatewayProofs!WindowStaysSmall` | a sorted set has at most `Window + MaxLag` members |
| `AccessTokensProofs!RevocationHolds` | a confirmed revocation keeps its token out |
| `BillingProofs!PeriodsAreWhole` | a period is as long as the month or year it starts in |
| `BillingProofs!LaterEndsLater` | a later period ends less than three days before an earlier one |
| `BillingProofs!QuotesAreClose` | however the rounding goes, a quote is off by one minor unit at most, and within the difference in price |
| `BillingProofs!WaitingCostsLittle` | within a period a later quote is higher by one minor unit at most |
| `BillingProofs!ConversionIsSafe` | any number of conversions gains nothing and loses less than two cents |
| `PaymentReadsProofs!PagesAreDisjoint` | no payment is on two pages |
| `PaymentReadsProofs!WalkIsComplete` | a walk that was not cut shows all the replica had at its start |
| `PaymentReadsProofs!HistoryIsStable` | an event keeps its place in a history unless a smaller id was on its way |

Every one of these modules also proves its type invariant (`TypeCorrect`, or as a
part of `BreakerConsistent` and `RevocationHolds`). `Refinement`, `OutboxIsRelay`,
`BreakerTurnsAway`, `WaitingCostsLittle` and `HistoryIsStable` are about steps; the
others are invariants, each from the inductive invariant of its module. What has to be
added to the property is the same kind of thing everywhere: what an actor knows at the
place it has reached.

- *Ledger.* `PhaseOK(t)`: a charge past `ChargeLock` holds its user's row and the
  balance covers it; a refund past `RefundSelect` holds its payment's row and the
  payment is `succeeded`; `writes[t]` is complete at `COMMIT`. The lock variables
  are functions, so no other commit can change what one transaction knows. The
  commits are then steps of AtomicLedger and everything else is a stutter.
  For `NoDeadlock`, `LocksOwned` adds the converse: who holds a row is between the
  statement that locks it and the end of its transaction. `BooksBalance` needs to know
  what `MapThenSumSet` adds up to. Its recursion is unfolded by induction on finite
  sets in the form "a non-empty set of counterexamples has a smallest one"
  (`Smallest`, from `WFMin`); `TotalRemove` then says that any element may be taken
  out of a sum first. The set of requests may be infinite: at any time only finitely
  many are on the books (`BooksInv`).
- *ChargeApi.* A holder whose TTL has not run out finds its own token in Redis.
  While no harmful fault has happened, an ended request that charged is in the
  cache, and a request past the lookup has no charged predecessor under its key.
  `NoStrandedLock`, the safety half of `LockReturned`, is inductive by itself.
- *Outbox.* Rows of a batch are PENDING and in no other batch; at `COMMIT` each enqueued
  row has its UPDATE. So an enqueued row that is PENDING again has seen a rollback of
  the transaction that enqueued it, which `DuplicatesCounted` counts. For the
  refinement, `Queued` adds that tasks exist only for events that were enqueued: a
  delivery then starts from `queued` or `archived`, and a COMMIT moves exactly the
  events that failed before any task of theirs got through.
- *CircuitBreaker.* Attempts are left whenever the operation runs; as long as the
  last trip is recent, so is the time that `CanExecute` looks at.
- *Gateway.* Tokens and excess add up to at most `Burst`, and excess melts by `Rate` per
  unit of silence, so a client that is forgotten has none left. Each set lies in an
  interval of `Window + MaxLag` seconds, because no waiting request is older than
  `MaxLag`.
- *AccessTokens.* The blacklist entry of a revoked token ends no earlier than the
  token; a validation that missed it looked after the token's expiry.
- *Billing.* No strengthening but arithmetic: year lengths from the three divisions
  of `YearStart`, month lengths from the table of days, and from both that `AddDate`
  adds the length of the month it starts in. `QuotesInv` keeps for every quote how it
  was computed at its instant. A quote is at most k where its dividend is below k + 1
  periods (`ChargedAtMost`), so quotes grow with their dividends, and by one at most
  where the dividends are less than a period apart (`ChargedGrows`). The dividend of a
  quote is its exact one give or take `Rounding`, and two of these errors are less than
  a period: that gives both theorems. For conversion the invariant names the
  few amounts that can be seen after the first one in cents.
- *PaymentReads.* Everything shown lies at or above the cursor, and what the
  replica had at the start and was not shown lies below it. A report's base grows
  only by ids that were missing or had not been drawn.

The assumptions are the named `ASSUME`s: constants are natural numbers of the
right sign, special values differ from ordinary ones, initial balances are not
negative, payment ids lie below `Start`, dates exist in the calendar, in Gateway
`Burst <= Rate * Idle` (10 <= 5 * 180 in the code), and in Billing
`2 * Rounding < 28 * DayTicks` (the error of a quote is below half a minor unit).

Only model-checked: the liveness properties (`Answered`, `LockReturned`,
`Settled`, `Recovers`, `WalkEnds`), because TLAPS does not handle fairness and
ENABLED. For the first three the theorems give the safety part of the argument:
`NoDeadlock`, `LocksComeBack` and `NothingGetsStuck` show that no reachable state,
of an instance of any size, is one from which nobody could go on. Every invariant and
every action property of the passing runs is proved.

## Where code and documentation disagree

Four disagreements have a run that shows them; `findings` quotes the lines.

- **Charged twice** (`charged_twice`). The README promises that no customer is charged
  twice "due to network retries or double-clicks". There are two ways. A double click:
  the key is looked up before the lock is taken and the answer saved after it is
  released, so two overlapping requests with one key are both charged; this is the
  shortest trace, and the one the run shows. A network retry: the answer is saved with
  the request's context, so if the client has gone it is not saved, and a retry sent
  much later charges again. That is why `RetrySafe` excepts disconnects; without the
  exception TLC finds this trace as well.
- **Dropped events** (`outbox_dropped`). One failed enqueue makes a row FAILED and
  nothing selects FAILED rows again.
- **Dispute race** (`dispute_race`). The status is loaded and stored in two
  separate map calls.
- **Key limit** (`key_limit`). Requests of one second are one member of the sorted
  set, so a window of 60 seconds never has 1000 members, and the limit of 1000
  requests a minute is not enforced. Only the limiter per address answers 429.

Others are visible in the models or in the passing runs, without a run of their
own:

- The repository's README names the header `X-Idempotency-Key`; the middleware
  reads `Idempotency-Key` (`IdemKey` in ChargeApi), so clients that follow the
  README get no idempotency.
- A refund changes a balance and stages no event (`RefundCommit` leaves `outbox`
  alone), whereas the README describes events for every balance update.
- `Stop()` does not wait for a running batch, so a graceful shutdown can roll one
  back and enqueue its events twice (`Exit` loses the batch), although `main.go` logs
  a clean stop.
- A query that the breaker turns away is said to be routed to the master
  (`cluster.go:89`), and the replica to rest for 15 s (`cluster.go:73`); `RetryQuery`
  calls the same operation as for an admitted query (`Fallback`). The breaker saves the
  retries, not the query, and takes only that much load off the replica.
- The proration is said to use "absolute integer precision ratios"
  (`subscription.go:93`); it is a difference of two float64 products, cut to an
  integer. An upgrade from 2000 to 4800, half a day into a period of 28 days, is quoted
  at 2749 and not at 2750 (`QuoteOffByOne` is as close as it gets).
- A late success closes a breaker that has just tripped; `TurnedAwayAfterTrip` shows
  that this is the only way queries are admitted before the cooldown is over.
- `POST /v1/subscriptions` is registered twice; the registration outside the `/v1`
  group has no key limit (`AdmitUnlimited`).
- `api/openapi.yaml` offers the billing period `yearly`; the service takes `annual`
  and answers 422 to `yearly` (`Periods`).
- "Lookahead exactly 1 month" is a period of the starting month's length, which
  passes over all of February for one who starts on the 31st of January.
- A downgrade's "credit applies to the next invoice cycle", but nothing records it:
  `CalculateProration` changes no state.
- The repository for the columns of migration 000005 meets the table of 000001.

## Modelled code without a caller

These functions are exported, and modelled as the code that is there will behave when
it is called, but nothing in the repository calls them: `RetryQuery` and with it the
breaker's `CanExecute`, `RecordSuccess` and `RecordFailure`;
`GetPaginatedTransactions`; `CreateTransactionRecord`; `LogEvent`, so that every
history is empty at present, and `ReplayHistory`; `CalculateProration`;
`ConvertMinorUnits`; `ValidateAccessToken`. Their callers in the models (clients that
follow cursors, queries that keep coming, customers who ask for quotes) are
assumptions about the use they are meant for.

## Not modelled

- *UpdatePaymentStatus*: one unconditional UPDATE without a caller. Were it called,
  `RefundedOnce` would depend on its callers never overwriting `refunded`.
- *The Postgres repositories of subscriptions and payment events*: single statements
  without a caller; subscriptions live in memory only.
- *In Billing*: days of 23 or 25 hours (the image has no time zone, so days are UTC
  days), the difference between monotonic and wall clock, and amounts that float64 does
  not represent.
- *API keys, users and seeding*: single INSERTs. *Migrations, configuration,
  logging, metrics, error format, routing*: no behaviour a property is about.
- *Draining of HTTP requests at shutdown*: what a request meets then is a failing
  call, which Ledger and ChargeApi allow anywhere. A row the poller cannot scan (its
  columns are NOT NULL).
- *External*: PostgreSQL, Redis, asynq and `golang.org/x/time/rate` are modelled
  by what the code relies on. Lock tokens, payment ids and dispute ids are taken
  to be unique, and signatures to be sound.

## Plan

Done: ledger and outbox with their abstract specifications, charge path, breaker,
limiters, tokens, disputes, billing, readers of the replica. Next, in this order:

1. **Composition**: the charge path over AtomicLedger, so that "charged twice" is
   a statement about balances.
2. **Proofs**: that a dispute which was confirmed refuses later requests; theorems
   for the composition.
3. **Shutdown**: HTTP draining with its deadline next to the poller, should the
   order of `main.go` change.
