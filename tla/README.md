# Work Items: TLA+ models

Formal models of the Work Items application under `src/apps/work-items`: a Go
API and a Go worker around PostgreSQL and RabbitMQ, with a React client. Each
module is translated from the source; `PROJECT.json` maps its definitions to
lines.

## 1. Inventory

| Component | State it keeps | Operations | Talks to |
|---|---|---|---|
| API store (`api/store.go`, `items.go`) | `work_items`, `processing_jobs`, `outbox_messages` rows | create item, accept processing (item lock, checks, job and outbox rows in one transaction), read, list | PostgreSQL |
| Outbox publisher (`api/outbox_publisher*.go`, `rabbitmq_publisher.go`) | a broker connection, one row in hand | claim the lowest unpublished row, publish with confirmation, mark, record a failure, reconnect | outbox rows, broker queue |
| Broker queue (`tools/rabbitmq-local`, external) | durable queue, unsettled deliveries | deliver with prefetch 1, requeue when a channel closes | publishers, workers |
| Worker (`worker/`) | a session, one delivery in hand, the settlement it decided | inspect the job, run the processor, record a failed attempt, complete, ack / nack / reject | broker queue, job, item and result rows |
| Schema (`migrations/`) | constraints | state checks, one accepted-or-succeeded job per item, deferred keys between done items, results, succeeded jobs | all transactions |
| API lifecycle (`api/application.go`, `main.go`) | readiness, two services | start, shutdown, readiness | orchestrator, publisher |
| Worker lifecycle (`worker_lifecycle.go`, `worker_session.go`, `rabbitmq_session.go`) | the current session | open, run, close, wait, again | broker |
| Token validation (`internal/authn`) | key cache, last refresh and its outcome | validate, refresh, refresh for an unknown key (cooldown) | identity provider |
| Authorization and handlers (`internal/authz`, `api/authentication.go`, `items.go`, `processing.go`) | what each open request has done | parse permissions, guard the routes, check input, call the store, answer | token validation, store, clients |
| Browser client (`web/src/App.tsx`, `api/work-items.ts`) | list, pending action, notices | load, create, process and poll | API |
| Backup and restore (`tools/postgres-backup-local`, recovery runbook) | backup files, a running dump | create, restore into an empty database (inspect and validate only read) | PostgreSQL, the operator |
| CI gate (`scripts/*ci*`) | none | classify changed files, judge required jobs | GitHub |
| Security lab, local tools | containers, certificates | provision, verify | all |

What is hard, and what makes each part right:

* **Delivery path** (store, publisher, broker, worker). Three systems and no
  common transaction: duplicates, missed confirmations, uncertain commits,
  lost settlements, concurrent publishers and workers. Right means: an accepted
  job is never forgotten and is eventually resolved; duplicates have no second
  effect; done item, result and succeeded job go together; a job fails exactly
  when its budget is spent, and outages spend nothing.
* **Transactions.** Acceptance, completion and failure recording interleave
  statement by statement under READ COMMITTED; only two of the three take the
  item lock. Right means: each behaves as one step, none deadlocks, and the
  constraints never turn a legal interleaving into a stuck job.
* **Recovery.** A restored snapshot meets a broker that remembers more, and a
  sequence that hands out identities a second time. Right means: a backup taken
  under load is consistent, what a restore strands is known, and an old message
  harms nothing the runbook does not warn of.
* **Requests.** Guard, input checks and store answer in turn, and a store call may
  take effect and fail. Right means: nothing runs without its permission, and no
  answer but 503 leaves open what happened.
* **Lifecycles.** Both processes own two or more resources that must be stopped
  in order, on every error path; readiness must be withdrawn before serving ends.
* **Key refresh.** A shared cache refreshed under one lock with a cooldown whose
  recorded outcome is served to others.
* **Client.** Acts on stale lists, polls up to a limit.

## 2. Plan

| Order | Module | Says | Status |
|---|---|---|---|
| 1 | `ProcessingContract` | abstract promise: one active or successful job per item, attempts, terminal outcomes | done |
| 2 | `OutboxDelivery` (+ `MCOutboxDelivery`) | acceptance to settlement with all faults; implements 1 | done |
| 3 | `OutboxDeliveryProofs` | types, success invariant, no lost job, retry budget, 2 implements 1 | done |
| 4 | `ItemTransactions` (+ `MCItemTransactions`) | the three transactions statement by statement, locks and constraints; implements 1 | done |
| 5 | `ItemTransactionsProofs` | mutual exclusion, stable reads, exclusive outcomes, no deadlock, 4 implements 1 | done |
| 6 | `ApplicationLifecycle`, `WorkerLifecycle` | shutdown order, readiness, sessions | done |
| 7 | `KeyRefresh` (+ `MCKeyRefresh`) | signing-key cache, cooldown, shared outcome | done |
| 8 | `WebProcess` | submission, conflicts and polling by a page against the contract | done |
| 9 | `SnapshotRecovery` | backups beside the running system, a database restored while the broker keeps its messages | done |
| 10 | `Requests` (+ `MCRequests`) | guard, handlers and answers in front of the contract | done |
| 11 | `ApplicationLifecycleProofs`, `WorkerLifecycleProofs`, `KeyRefreshProofs` | what 6 and 7 check, for all constants | done |
| 12 | `RequestsProofs`, `SnapshotRecoveryProofs` | guard, answers, recovery points, stranded jobs, old messages, each history keeps 1 | done |
| 13 | `WebProcessProofs` | pages show the truth, and the outcome when processing ends | done |
| 14 | all proof modules | every type invariant; under which condition each property of section 7 holds | done |

The abstract specification is `ProcessingContract`. `OutboxDelivery` and
`ItemTransactions` implement it; `WebProcess` and `Requests` are composed with it,
so that what a page or a client sees rests on a promise the detailed modules keep.
`SnapshotRecovery` stands beside them: a restore breaks the contract by its nature,
but between two restores its database keeps it too (`HistoriesKeepContract`).

## 3. The modules and the code

### ProcessingContract

Four variables (which items exist, each job's item, state and attempts) and four
actions. It knows no messages, locks or crashes; `OutboxDelivery` and
`ItemTransactions` implement it, both under the mapping "an item is created when
its row exists, jobs are as committed", and `WebProcess` uses its steps as the
server. `Accept` says more than the code checks: the code looks at the item's
status and at active jobs, the contract demands that *every* earlier job of the
item failed. That the two agree is what the success invariant is for.

### OutboxDelivery

| Variable | Code |
|---|---|
| `status`, `result`, `jobState`, `jobItem`, `attempts` | columns of `work_items`, `work_item_results`, `processing_jobs` |
| `outbox`, `outboxError` | `published_at`, `last_error_code` of the job's `outbox_messages` row |
| `ready` | copies of the job's message the queue can deliver (a bag) |
| `pphase`, `pjob` | position in `runOutboxPublisher` / `publishNextOutboxMessage` and the claimed row |
| `wphase`, `delivery`, `settlement` | position in `processWorkerDelivery`, the delivery and the settlement decided on |
| `linked` | whether the broker still regards the worker's consumer as alive |

Actions carry the names of the functions: `AcceptProcessingJob`,
`BeginOutboxPublishAttempt`, `MarkOutboxPublished`, `RecordOutboxPublishFailure`,
`GetProcessingJob`, `RecordProcessingFailure`, `CompleteProcessingJob`,
`SettleDelivery`. Every database call is one step, since the code issues it as one
statement or one transaction, and everything between two calls of a process is
open to all others. Faults: `PublishFails` (nothing published, or published and
the confirmation missed), `PublisherStoreFails`, `PublisherCrash`, `ConnectionLost`
(the broker requeues while the worker, not knowing, goes on), `WorkerStoreFails`
(nothing written, or committed and the answer lost), `WorkerCrash`.

What to know when comparing it with the code:

* The claiming `SELECT ... FOR UPDATE SKIP LOCKED` is part of one UPDATE
  statement, so a row is locked for that statement only: `Claimable` lets a
  publisher take the lowest unpublished row, also one that another publisher has
  in hand, or pass over the latter.
* `publish_attempts` is not modelled: nothing reads it.
* Identities come from sequences outside the transaction, so the next job to
  appear may have any unused identity.
* The processor the worker ships with (`successfulProcessingJobProcessor`) never fails.
  The retry path, `RecordProcessingFailure` and its budget, is real code but only a
  processor that does fail reaches it: `ProcessorMayFail`, true in the runs, stands
  for any other implementation of `processingJobProcessor`. The theorems hold for both.
* A commit, or a mark, that takes effect after its process died is covered by a
  worker that continues after `ConnectionLost`, or by a second publisher.
* Calls cancelled by a shutdown appear as `PublisherStoreFails` and
  `WorkerStoreFails`, the end of the process as a crash.
* `CompletionOvertaken`: the guarded UPDATE of a completion that matches no row,
  because a failure was recorded after the transaction's read.

### ItemTransactions

Acceptance, completion and failure recording as PostgreSQL runs them under READ
COMMITTED: a program counter per session, one action per statement, the advisory
lock of each key, and the row and foreign-key locks as conditions on the other
sessions' program counters (`References`, `Updates`). The tables are what is
committed; a transaction's own writes appear at COMMIT. Any statement may fail
(`Rollback`), a COMMIT may succeed without the client learning of it (the session
ends all the same). `LockKey` maps items to lock keys, and items may share one,
as `hashint8` values may. A retry's UPDATE does not touch the columns
that foreign keys reference, so only a failure for good waits for a completion
that already inserted its result.

### ApplicationLifecycle

`runApplication`, `runHTTPServer` and `runOutboxPublisher` as goroutines: two
contexts (`signalled`, `cancelled`), the buffered channel of `results`, the channel of
`server.Serve`, the readiness flag, running handlers, the store and the
publisher's broker connection. A select with several ready cases is a choice. The
publisher's work is reduced to the outcomes its loop distinguishes. `log.Fatalf`
leaves without running the deferred close of the store, which is why a grace
period that ends early closes no store under a running handler.

### WorkerLifecycle

`runWorkerProcess`, the session loop, `openRabbitMQWorkerSession` step by step,
`runWorkerDeliveryLoop`, and the goroutines of the AMQP client that fill, close
or cancel the stream of deliveries. A delivery's handling is reduced to its
settlement. A connection whose `CloseWithin` times out counts as closed. The queue
is what the broker holds; a connection that ends gives back what was unsettled.

### KeyRefresh

One validation per request: `keys`, `refresh`, `refreshForUnknownKey`,
`refreshLocked`, with the lock, the cached keys, the recorded outcome and time of the last
refresh, and for each request the remaining time of its fetch context and whether
its client left. That time begins before the wait for the lock when a request
comes from `keys`, and with the fetch when it comes for an unknown key.
The issuer publishes and withdraws keys; its answer is fixed
when it answers and applied later. A fetch fails (`FetchIsLost`) when the issuer refuses
or has no key, or when the context has ended. `issuerFailed` is a history variable
which only the issuer and the clock set: after a refusal, an answer without keys, or a
fetch that has waited for its whole timeout with its client there. Time is counted
in ticks, ages up to `Gap`.
External, from how the code uses it: the key cache, refreshed in the background;
a lookup with an ended context may fail, and a response without keys empties it.

### WebProcess

`App.tsx`: `loadItems`, `handleCreate`, `handleProcess` with the conflicts
`processing_already_active` and `work_item_already_done`, polling, refreshing,
reloading. Each request is served at one moment and its answer applied at a later
one, or it fails before or after being served. The server is `ProcessingContract`;
`Elsewhere` is every step of it that workers and other clients take. Rows are a
set, so order and two equal rows are not distinguished.

### SnapshotRecovery

| Variable | Code |
|---|---|
| `tables` | the rows of the four tables, what `pg_dump` saves in one snapshot |
| `jobSeq`, `accepting` | `processing_jobs_id_seq`, and the identity an open acceptance transaction has taken from it |
| `queue`, `held` | messages the broker can deliver, and what a worker has handled and not settled |
| `publishing` | the row whose message is confirmed and not yet marked |
| `dumps`, `backups` | running `create` commands with their temporary files, the files at the paths |
| `stopped`, `history`, `reported` | the operator's part: everything stopped, losses so far, what the runbook's query listed |

`BeginBackup` is the `-e` check and the snapshot, `FinishBackup` what comes later:
the sequence, which no snapshot covers, and the `mv`. `ProvisionTarget`,
`RestoreBackup` (with `require_empty_restore_target`) and `Resume` follow
`docs/runbooks/work-items-recovery.md`. Identities are handed out in order, a
rollback gives none back. Messages are payloads, job and item; two auxiliary fields,
which no guard looks at, let properties speak of history: `born`, the history in
which a job was accepted, and `reused`, the jobs that got an identity while the
broker had a message beyond the sequence. The delivery machinery is
`OutboxDelivery`'s without claims, failing processors and the time
between a worker's transactions: what those do among themselves does not
depend on a restore.

### Requests

One request per client from arrival to answer. `RequireBearerToken` is the guard
in "oidc" mode, `WithoutAuthentication` the other; `mode` is chosen once. `Validate`
gives the outcomes of token validation: a malformed token fails before keys
are needed, any other may find them unavailable. `Parse` reads the role claim, where
one entry that is no string discards all. The store is
`ProcessingContract`, which has no item status: an item is done when it has a
succeeded job, which `SuccessInvariant` justifies. A call takes effect
(`Return`) and returns (`Respond`) at two moments, `Respond` may turn
any outcome into 503, and `StoreFails` is a call that did nothing. `told`
collects the jobs named in answers.

## 4. What the runs check

State counts are distinct states.

| Run | Bounds | Shows |
|---|---|---|
| `delivery_retries` (541 k) | 2 items, 2 jobs, 2 workers, 1 publisher, 3 attempts, 2 faults | `DeliveryInv`, `SuccessInvariant`, `AcceptedHasCarrier`, `RetryBudget`, `OnlyProcessorSpendsAttempts` |
| `delivery_liveness` (317 k) | 1 item, 2 jobs, 2 workers, 2 publishers, 2 attempts, 1 fault; no symmetry | `PublishedRowHasNoError`, `ContractSpec` (with the contract's fairness), `Drained` |
| `transactions` (27 k) | 2 items with one lock key, 2 jobs, 2 API and 2 worker sessions, 2 attempts; no symmetry | `TransactionInv`, `NoDeadlock`, `CheckedStateHolds`, `OutcomesExclude`, `ContractSafety`, `TransactionsEnd` |
| `application_lifecycle` (778) | 2 connections | `ResourcesOutliveServices`, `OrderlyExit`, `ReadyMeansServing`, `StopsTogether` |
| `worker_lifecycle` (968) | 3 messages, 3 faults | `CleanExit`, `NoNewResponsibility`, `ShutdownEnds`, `SessionsResume` |
| `key_refresh` (3.20 M) | 2 requests, 2 keys, cooldown 3 ticks, fetch timeout 2 ticks | `RejectionIsFresh`, `UnknownKeysShareRefresh` |
| `key_refresh_unavailable` | as before; a free lock is taken before the next tick (`PromptSpec`) | finding: `UnavailableMeansIssuerFailed` is violated |
| `web_process` (624 k) | 1 page, 2 items, 3 jobs, 1 attempt, 2 polls | `ShowsCommittedState`, `EndShowsOutcome`, `ProcessingEnds` |
| `web_rows` | 2 jobs, 1 poll | finding: `RowsStay` is violated |
| `snapshot_recovery` (1.17 M) | 2 items, 2 jobs, 1 worker, 1 create command, 1 path, 1 loss, 1 fault; no symmetry | `RecoveryPointsAreConsistent`, `StrandedJobsAreReported`, `ServesOwnJob`, `UnreportedJobsEnd` |
| `backup_overwrite` | 1 item, 1 job, 2 create commands, 1 path | finding: `BackupsStay` is violated |
| `requests` (4.44 M) | 2 clients, 7 tokens, 1 item, 2 jobs, 1 attempt | `OnlyPermittedRequestsRun`, `AnswersAreTrue`, `NamedJobsAreFound` |

Each passing run also checks its module's type invariant (part of `DeliveryInv`
and `TransactionInv` in the first three).

Why the bounds are enough:

* Delivery. Hazards need at most two actors on one job (a worker that lost its
  connection and the one its delivery went to; two publishers with one row) and
  two faults in a row. Three attempts leave room for a duplicate to spend one
  before the last; two jobs let an item be processed again after a failure and
  let two publishers pass over each other. The theorems lift all of its safety.
* Transactions. Two acceptances and two worker transactions give every pair of
  roles on one item, and two items sharing a key give the false conflict. The
  theorems lift the safety part.
* Lifecycles. They are control only: a second connection, message or fault of a
  kind repeats a state that was seen; three of them reach each counter's limit.
* Keys. `Gap` and `FetchTimeout` stand for 10 s and 3 s: what matters is that a
  fetch ends within the cooldown, with a tick to spare for it to be stale in. Two ticks
  of timeout let a request lose one of them behind the lock and begin its fetch with the
  other. One request refreshes while the other waits, times out, or profits.
  `PromptSpec` only keeps the counterexample from idling in front of a free lock; its
  behaviours are behaviours of `Spec`.
* Web. Pages share nothing but the server, so one page and `Elsewhere` are all
  pairs. Two polls distinguish the first, a further and the last of the 20.
* Recovery. One loss is what the runbook is about. Two identities and two items let
  an identity return for the same or for another item; one worker
  holds a message across the loss. The theorems lift the three safety properties.
* Requests. Clients meet only in the store: two of them are a request and
  whatever comes between its steps. The tokens are one of each kind the guard can
  tell apart: every verdict, claims that lack something at two levels, and lists
  that grant one permission, all, or none because of one entry.

Deadlock is checked in every run but two, and a process that has ended stutters
explicitly. The exceptions are the runs of `SnapshotRecovery`: with identities,
paths, losses and faults used up, its model rightly stops. Symmetry is used for
safety runs only.

## 5. Fairness

* `OutboxDelivery`: the loops of a running process go on, a crashed process is
  started again (the operator's part), a ready message reaches a waiting consumer.
  Requests owe nothing, faults are bounded: the claim is that progress resumes
  when they cease.
* `ItemTransactions`: a statement whose locks are granted is executed. Strong
  fairness per session, because the server's queue for a lock is first come,
  first served, while in the model the lock of a waiting session is enabled and
  disabled again as others take it.
* `ApplicationLifecycle`, `WorkerLifecycle`: runnable goroutines run; dialling has
  a timeout, delays and the grace period have timers. No handler has to end for the
  API process to exit.
* `WebProcess`: a request is answered or fails, and its answer is handled.
* `SnapshotRecovery`: publisher and workers go on, the operator ends a stop.
  Requests, backups, losses and faults are owed by nobody.
* `Requests` has no liveness property: deadlines end a request whatever happens, and
  what becomes of its job is the contract's part.
* `KeyRefresh` has no liveness property: at the size at which its safety is
  interesting the liveness graph is too large.

## 6. What is proved

Eight modules, one for each detailed module, for any number of items, jobs, pages,
workers, publishers, sessions, clients, requests, keys, messages and faults. The
assumptions are the named ASSUMEs of the component modules: values that stand for
"none" are not members of the sets they complete, API and worker sessions differ,
a page with a request under way is not one without, bounds are natural numbers, the budget is
positive (`RecordProcessingFailure` refuses any other, `worker/store.go:144`), every
item has a lock key (any, shared or not), tokens have the shape of decoded ones, the
fetch timeout is positive and below the cooldown, and there are finitely many workers.
Where a property is not inductive, an invariant with named parts carries it.

All eight type invariants, all other safety invariants and all safety action properties
that the passing runs check are theorems. Some type invariants say more than types
and need an invariant of their own, named below.

**Delivery.** The success invariant is not inductive alone: whether completion
may write depends on what the worker holds, and whether an acknowledgement loses
a job depends on what it decided earlier. `DeliveryInv` therefore joins

* `HandsInv`: rows, messages and deliveries in any hand belong to existing jobs;
* `DatabaseInv`: `SuccessInvariant`, `OneActiveJob`, `RetryBudget`. The second
  is needed to see that an active job's item is still pending
  (`ActiveIsCompletable`), so that completion never rejects a message;
* `CarrierInv`: `AcceptedHasCarrier` needs `ConfirmedIsInBroker` for the step that
  marks a row published, and both need `SettlementsAreSafe`, that only the
  delivery of a terminal job is acknowledged, which stays true because terminal
  jobs never change (`CopyStays` puts it together).

From `DeliveryInvariant` follow `SuccessInvariantHolds`, `NoAcceptedJobIsLost`,
`RetryBudgetHolds` and `NoMessageIsRejected`. `PublishedRowsHaveNoError` and
`AttemptsAreTheProcessors` follow from it and a case per action that writes the
column. `ImplementsContract` maps every step to a
step of the contract or to none; the only hard case is acceptance, where pending
plus no active job must give "all earlier jobs failed".

**Transactions.** `TransactionInv` says what each session works on (`SessionInv`),
that whoever is beyond the lock holds it (`LockInv`), and what it has read and is
still true: `PendingIsStillPending`, `CheckedStateHolds`, `OutcomesExclude`. The argument
for a step of session `t` seen from session `s`: if `t` commits under the item
lock of the same item, `s` is not beyond that lock (`NoOtherCommits`); if `t` commits
a failure, which takes no lock, row locks show that `s` has neither referenced
nor updated that job, and a failure does not touch what an acceptance or a completion
has read and relies on (`OthersKeepReads`, `OutcomesExcludeStep`). `ImplementsContract`
then gives that every interleaving of statements is a sequence of whole contract
steps, one at each COMMIT.

No interleaving ends in a deadlock that PostgreSQL would have to break.
`WaitsFor(s, t)` says that `t` must end before the next statement of `s` can run, and
`NoDeadlock` that chains of waiting have at most two links, so none is a circle, also
when items share a lock key. The argument follows the order of the locks: whoever
waits for an item's lock holds nothing; its holder can only wait for a row; and a row
is kept from others by a transaction that has all it needs, or by a
completion that waits for one that has. It rests on `LockHolders`: a lock
is held by a transaction beyond it and by nobody else. `NobodyWaitsInCircles` is the theorem. `WaitingLasts` adds that a transaction which
waits does nothing else (`WaitersWait`): it goes on when the one it waits for has
ended, or is rolled back. That all transactions end is then only a matter
of fairness, which `TransactionsEnd` checks.

**Application lifecycle.** `LifecycleInv` says where the server goroutine, the
readiness flag and the handlers can be for each place of `runHTTPServer`
(`ServerInv`), that every service that returned is in the channel or was received,
with its error not forgotten (`ResultsInv`), and how the process ends (`ExitInv`).
`ResourcesHold`, `ExitIsOrderly` and `ReadinessHolds` follow; the first needs that only
a shutdown that waited for all handlers returns without an error. `LifecycleTypes`
includes that the channel never holds more than its two places, so
no goroutine blocks on it.

**Worker lifecycle.** `WorkerInv`: the place of the main goroutine says whether
there is a connection and whose an unsettled delivery is (`SessionInv`), and a
delivery taken after the request to stop is the last (`StopInv`). `ExitIsClean`,
`NothingNewIsTaken` and `WorkerTypes` follow.

**Keys.** `KeyInv`: a fetch holds the lock and ends before the cooldown that
began with it (`LockInv`), and a key published for longer than the last
refresh is old was in what that refresh saw (`FreshInv`). From it
`RejectionsAreFresh` and `OneFetchPerCooldown`. `UnavailableOnlyIfFetchesAreCut` is about
the first finding, under two conditions: no client has left when its own request
fetches (`FetchersStay`), and no part of the timeout has gone by when a
fetch begins (`FetchesHaveTime`). Then every 503 goes back to a refusal, an answer without
keys or a whole unanswered timeout. The steps that record a failure or answer 503 do not
touch `issuerFailed`, so the argument (`FailureInv`) has to go back from the answer to the
recorded outcome, from it to the end of the fetch, and from there to the issuer or the
clock. Both conditions are needed: TLC finds a counterexample without either.

**Pages.** What the API says stays true after it was said: which item a job is for,
the outcome of a job, that an item is done (`ServerKeeps`, `TruthStays`). `WebInv`
therefore holds rows, shown views and answers under way to what is true now
(`TrueList`, `TrueView`, `TrueAnswer`), says that processing follows a job of its own
item, and that it refreshes only when the item is done or its job is shown as failed.
`PagesShowTruth` and `EndsShowOutcomes` follow; the second because the list that is
applied last was read after the outcome. `PagesKeepTypes` needs that an answer is of
the kind its step expects (`LoadFits`, `CreateFits`, `ProcessFits`) and that a job which
can still change has budget left (`Budgets`). `OnlyOverlapsDropRows` is
about the second finding: with `CreatesAlone`, that no creation overlaps a load or a
refresh on the same page, no row goes away; a list then covers the rows it replaces
(`RowsInv`), because all of them existed when it was read.

**Requests.** `GuardInv` says of each client what `OnlyPermittedRequestsRun` says, with
what carries it: a request not yet through the guard has no effect, and the
store never returns the guard's answers. `AnswersHold` adds that the store
never takes back what an answer reported, `NamedJobsHold` that a job's row
stays once it was named. `RequestTypes` needs that an identity in a request was
checked before the store sees it (`Truthful`), so that no answer names an unknown one.

**Recovery.** Three invariants, each on top of the one before. `RecoveryInv`: tables
and sequence fit together in the database, in every file and between a running
dump and the sequence it will save last; the sequence goes back only together with the
tables, when no dump with rows is running. It gives `RecoveryPointsHold`. `StrandingInv`:
a published accepted job that was not reported has its message in the queue itself,
not in a worker's hand, because whoever takes it completes the job; for that,
an accepted job's item is pending and has no other active job (`Orderly`).
It gives `StrandedJobsAreFound`. `OriginInv`: until requests begin anew after the first
loss all rows and messages are of the first history (`AllEarly`), and later a
message that is not its row's own has a marked identity (`AliasesAreMarked`). It
gives `JobsServeThemselves`.

With the same invariants `HistoriesKeepTheContract`: apart from the operator's two steps,
an emptied and a restored database, every step is one of `ProcessingContract` or changes
nothing in it. So a message of a lost history that completes a row of this one still
does no more than a worker may. (No processor fails in this module, so the mapping
counts one attempt, that of a success.) `OnlySharedPathsAreOverwritten` is about the third
finding: with `NoSharedPath`, no two running `create` commands having one path, the
check before the dump is enough (`PathsFree`), whatever is lost or restored meanwhile.

**Theorems and runs.** `WaitersWait` and `HistoriesKeepContract` are in no run's list;
before their proofs TLC checked them on the instances of `transactions` (27 k
states) and `snapshot_recovery` (1.17 M). `ItemExclusion` is in none because
`TransactionInv`, which is, implies it (`LockExcludes`). The conditions of the
three theorems about findings are no assumptions of the model: the runs
that violate the properties are behaviours without them, and the conditions exclude
nothing but what they name.

**Only model-checked.** Liveness under fairness (`ContractSpec` beyond its safety
part, `Drained`, `TransactionsEnd`, `StopsTogether`, `ShutdownEnds`, `SessionsResume`,
`ProcessingEnds`, `UnreportedJobsEnd`): liveness and ENABLED are outside of what the
prover does here. `WaitingLasts` says why a transaction waits, not that it ever goes on.

## 7. Findings

1. **503 for keys that can be fetched** (`key_refresh_unavailable`). The outcome of a
   refresh is recorded whatever ended it, also the disconnection of the one client
   whose request ran it, and is served for the cooldown to everyone whose token
   names a key not in the cache. This is the counterexample of the run. There is a
   second way: `keys` starts its 3 s before it waits for `refreshMu` (`validator.go:188`,
   `198`), so a request that lost its time behind another one's refresh fails its own,
   and that failure is recorded too. `docs/guides/local-security-lab.md:965` explains the
   answer by "The API cannot fetch Keycloak's signing keys". There is no third way:
   `UnavailableOnlyIfFetchesAreCut`.
2. **A created row disappears** (`web_rows`). A list read before a creation and
   applied after it replaces the rows; `docs/guides/local-security-lab.md:667`
   says "the row appears". This overlap on one page is the only way:
   `OnlyOverlapsDropRows`.
3. **A backup can be overwritten** (`backup_overwrite`). `create_backup` tests the path
   before the dump and moves the finished file there with a plain `mv`: one that
   appeared in between is replaced. `docs/guides/local-postgresql.md:346` says
   "Backup creation refuses to overwrite an existing artifact." Two commands with one
   path are the only way: `OnlySharedPathsAreOverwritten`.

Seen in passing, and no contradiction to what the repository promises: the page
gives up after 20 polls, while the job is still accepted, and after such a timeout
a later "already done" conflict refreshes the row but leaves the job's badge at
accepted. Accepted jobs that a restore strands, and identities that come back after
one, are limitations the runbook and the issues it cites (#130, #131) state; the model
shows how far they reach.

## 8. Not modelled

* The CI scripts: two sequential classifications without state, tabulated case by
  case by the tests beside them.
* `inspect` and `validate` of the backup tool only read a file; the table of contents
  that `validate` looks for, and `work_items_id_seq`, which no message refers to.
* `ServesOwnJob` says nothing after a second loss: a backup of the first history may be
  restored over messages of the second, and then identities can coincide that
  were never handed out over a waiting message.
* Token checks other than the key lookup: a library call on data.
* Column checks of the schema other than those the transactions could violate.
* Payload parsing: within one database history every message was written from
  its job's row. Stale messages are in `SnapshotRecovery`.
* Delays as durations, logging, configuration, session lookup and sign-out, rendering.
* Local tools and the security lab: scripts around containers and certificates
  without protocol state.
