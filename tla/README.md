# Verification of the ekokod job platform

TLA+ models of the concurrent core of ekokod, the Go energy-management platform in
`src/`, with TLC runs on small instances and TLAPS proofs for every value of the
constants. Paths below are relative to `src/internal/` unless they start with `src/`.

## 1. The system

One Go binary runs as `api`, `worker`, `scheduler` and as one-shot commands (`migrate`,
`seed`, `recompute`, `tool`). Postgres with TimescaleDB holds all durable data, Redis
holds the asynq queue, leases and caches. A Next.js client and a Python ML service sit
beside it. The work that is hard to get right is not in the request handlers but in the
jobs: the active scheduler enqueues dispatch tasks on cron, workers run them
concurrently, at least once, with retries, and they share cursors, leases, aggregates
and external accounts.

| Component | State | Operations | What is hard | What makes it correct |
|---|---|---|---|---|
| Scheduler election (`scheduler/`) | advisory lock on a Postgres session, leader flag, lead context, term | campaign, lead, monitor, teardown | session dies under the leader; ping deadlines; order of flag, context, unlock | one active scheduler as far as the lock allows, loss noticed in bounded time, lock never leaked |
| Ingestion (`ingest/`) | readings, ingestion cursor, tasks and their unique locks | dispatch, backfill, fetch pages, advance cursor, fail, request refresh | overlapping runs, stale cursor reads, crash between insert and cursor, page budget | cursor never above a hole, never back; readings arrive in the end; owed refreshes are requested |
| Consumption refresh (`service/consumption/refresh.go`, `job/consumption.go`, `platform/lock/`) | tasks by debounce slot, one global lease, four aggregates | enqueue, poll for the lease, refresh views, release | burst against an active task, lease expiry, deadline, stale release | no request swallowed, refreshes serialised, contention harmless |
| Generation hook (`ingest/generation`) | `active_export` of the rows, an anchor, a lease per analyzer | accumulate after each page, move the anchor, derive older rows | pages land without the lease, backfills before the anchor, retries | every register equals the anchor plus the intervals between |
| Alarms (`service/alarms`) | rules, events, claims of bills, notified marks | dispatch, evaluate, claim, record, notify | claim before send, send before mark, retries of whole evaluations | one event per bill, nobody silenced who was not told, honest marks |
| Billing (`service/billing`, `store/postgres/bills.go`) | bills and their status | dispatch, compute, generate, supersede, repair, render | two generations of a period, archived ids, a crash before the rows or the PDF | one live bill per period, hourly rows of that bill, issued bills stand |
| Credentials (`credentials/`) | sealed provider settings, OAuth token | open, refresh token, persist, update | read-merge-write by several workers | no token lost, each refreshed once, none handed out stale |
| Auth (`service/auth`) | session rows, refresh tokens | login, rotate, reuse detection, revoke, sweep | concurrent refresh, acting on a row read before | one live session per login, an ended login stays ended |
| Idempotency (`api/v1/mw/idempotency.go`) | Redis marker and stored response | claim, run, store, clear | crash or failure between them | a handler's effect happens once per key |
| Consumption derivation (`service/consumption/billing.go`, `domain/energy`) | none; reads `meter_readings` | load, pick boundary readings, segment at resets, give rows | missing, late and blank readings, replaced meters, look-back and tolerances | a number is the usage of its span, no usage twice, a closed window stands |
| Suspect periods (`service/consumption/anomalies.go`, `resolve.go`) | `consumption_anomalies`, operator messages, a lease per period | derive, record, block the bill, resolve, cascade | generations and operators over one period, failure between row and message | one row per reason, answers stand, nobody left untold |
| Job queue (`job/`, asynq external) | tasks, retries, archive | construct, enqueue, retry | unique lock of archived tasks, backoff | bounded delays, ids that collapse only duplicates |
| Domain arithmetic (`domain/`) | none | tariffs, bills, energy, carbon | decimals and calendars | golden and property tests |
| API, store, render, mail, migrate, seed, CLI, ML, web | rows and files | CRUD, formatting, I/O | little concurrency | tests of the repository |

Interactions: the scheduler's term enqueues `integration.sync_dispatch` and the other
periodic tasks; the sync tasks enqueue one `integration.fetch_readings` per stream;
a fetch run persists readings, calls the provider's hooks, advances the cursor and at
its end may enqueue `consumption.refresh`, whose handlers serialise on the one Redis
lease and refresh the continuous aggregates that billing, alarms and reports read.

## 2. Modules

| Module | What it is |
|---|---|
| `Ingestion` | one stream: analyzer x reading kind `load_profile` |
| `ConsumptionRefresh` | one window of `consumption.refresh` |
| `Leadership` | abstract promise of the election |
| `SchedulerElection` | the election and its terms; refines `Leadership` |
| `GenerationAccumulation` | the generation hook of one analyzer |
| `AlarmPipeline` | one company's alarm rule: dispatch, evaluations, events, deliveries |
| `BillGeneration` | the bills of one building and period |
| `SessionRotation` | the sessions of one user |
| `IdempotencyKey` | one idempotency key |
| `CredentialToken` | the iSolar token inside one credential |
| `MeterDerivation` | one register of one meter and what is derived from its readings |
| `SuspectPeriod` | the anomalies of one billing period of one analyzer |
| `MC*` | TLC instances; `MCIngestionHooked` and `MCServices` each put components side by side |
| `IngestionProofs`, `ConsumptionRefreshProofs`, `SchedulerElectionProofs`, `BillGenerationProofs`, `AlarmPipelineProofs` | theorems about the module they are named after |
| `ApiProofs` | theorems about `SessionRotation`, `IdempotencyKey` and `CredentialToken` |
| `EnergyProofs` | sums over finite sets; theorems about `GenerationAccumulation` and `MeterDerivation` |
| `ServicesProofs` | theorems about `SuspectPeriod`; the types of `MCServices` |

`MCIngestionHooked` and `MCServices` run several components in one TLC run. The
components there share no state, so exploring their product would only multiply the
states: a variable chosen in the initial state (`view`, `service`) says which of them
takes steps, and the others rest. Every behaviour of each component is a behaviour of the
composition, and its properties are checked on all of them.

### 2.1 Ingestion

A reading is its timestamp; time is discrete. `avail` is what the provider serves (and
validation keeps), `stored` is `meter_readings`, `cursor` is `ingestion_cursors.last_ts`,
`task` is the queue together with the locals of the run that executes each task, `uniq`
and `taken` are asynq's unique lock and retained task ids.

| Action | Code |
|---|---|
| `EnqueueLive`, `EnqueueBackfill` | `SyncAnalyzers`, `RefreshAnalyzer`, `Backfill`: duplicate errors are swallowed |
| `Begin`, `Decline`, `Resolve` | `FetchReadings` up to the page loop: `now` read once, gates, `resolveFetchWindow` |
| `FetchPage` | fetch, validate, bulk insert: one durable write |
| `AdvanceCursor` | hooks, then `RecordSuccess` (`greatest`) |
| `Complete`, `FailRun` | end of the run and `failFetchRun`, each with `maybeEnqueueConsumptionRefresh` |
| `Crash`, `Failed`, `UniqueExpires` | worker death, asynq's retry or archive, the hour of the unique lock |

Page insert and cursor write are separate steps because they are separate statements:
crashes and other runs fall between them. The cursor is read in `Resolve` and used for
the rest of the run, so it may be stale. The adapter may end a page anywhere above its
start (`NextCursor`); pages are bounded by `PageSpan` from their start rather than by
fixed, calendar-aligned chunks, which allows every page the code can ask for.
`created`, `late` and `owed` are history variables: no guard reads them.

### 2.2 ConsumptionRefresh

A row is a batch committed by ingestion before its request. A task is named by the
minute of its enqueue (`TaskSlot`); the window part of the id is fixed, since different
windows do not collide. `ProcessIn(1m)` is `Due`. The handler's polling is the state
"waiting"; `Acquire` is `SET NX PX` by one poller; every execution has an age and a
deadline (`asynq.Timeout`), and the lease a TTL. `Release` is the owner-only script, which
may fail and leave the key to its TTL. Which time range of a view is refreshed is not
modelled: a view refresh materialises every row committed by then.

### 2.3 SchedulerElection and Leadership

`owner` is the server's view of the lock. Each instance has the phase of `Run`/`attempt`,
the flag, the lead context, the term of `runTerm`, the monitor goroutine and the state of
its connection: `up`, `cut` (nobody answers, the session lives on) or `dead` (the session
has ended and the lock with it). `monitor` goes through its ticker (`watching`), the ping
with its own deadline (`pinging`), and the two separate writes of giving up (`clearing`:
flag down, context still open; then `CancelLead`). `Unlock` is the deferred teardown,
which waits for the monitor and then releases the lock, or leaves it to the session.
`Run`'s waits between attempts (retry cadence, backoff) are untimed.

`Leadership` says what the election promises: only an instance that was granted the lock
acts, and an instance gives a lock that it still has back only after it stopped acting.
The mapping is `lock <- owner`, `role <- RoleMap`, where an instance acts while it
reports leadership or while its term is not over.

### 2.4 GenerationAccumulation

A row is a 15-minute slot, `export` its `active_export`, `anchor` the analyzer's row of
`generation_anchors`. `PersistPage` is the upsert of `FetchReadings`, which takes no lease
and empties the register; the hook then runs under the lease: `TakeLease` (anchor read or
created), then `ContinueForward` from the base, or `MoveAnchorBack` (synthetic anchor), or
`DeriveOlder`/`WriteOlder` (an operator's or a migration's anchor), then `ReadSlice` once
per bounded range and `FlushBatch`. Reads and writes are separate steps, so pages of
another fetch fall between them. A batch is written at once (the code flushes parts of at
most `writeBatchSize`; each part holds the values the whole would). A page whose hook
failed is fetched again, as the retried task does. The anchors an operator or a migration
may have set are initial states: nothing in `src/internal` writes them, the schema
allows them.

### 2.5 AlarmPipeline

`eval[h]` is the evaluation task of hour h with the locals of `fire`; each durable write is
a step (`Claim`, `CreateEvent`, `Enqueue`, `Finish`). `RuleFails` is an error inside a
rule, which the run notes and swallows, so later analyzers of the rule are skipped;
`EvalFails` is an error after the rules or a death, which makes asynq run the whole
evaluation again. `notify[e]` is the delivery of event e: `FindEvent`/`MissEvent` (scan of
the newest events), `Send`, `Record` (`MarkNotified`), `Complete`. Whether readings breach
is nondeterministic; an invoice rule breaches on the newest bill.

### 2.6 BillGeneration

`gen` is the task with its fixed id, `exec` the executions: one that lost its lease goes on
beside the one that replaced it. `Read` (`Bills.Current`), `Priced` or `ComputeError`,
`Create`/`CreateLoses` (the partial unique index), `Supersede`/`SupersedeLoses` (one
transaction on the bill that was read), `WriteDetail`, `Repair`, `Report`. The inputs of a
bill are a version number and `Quality` says what a computation from it yields, so a bill
and its hourly rows can be told apart by what they were priced from. `Dispatch` enqueues
under fixed ids and takes a conflict for success; `Compute` replaces an archived task.

### 2.7 SessionRotation, IdempotencyKey, CredentialToken

Three protocols of the API whose steps are separate round trips to Postgres, Redis or the
provider.

* `SessionRotation`: a request reads the session row (`BeginRefresh`, `DetectReuse`,
  `BeginRevoke`, `BeginSweep`) and acts later: `Rotate` locks the row and looks again,
  `RevokeWithReason` updates a live row only, and a bulk revocation has the snapshot of its
  statement (`SweepSnapshot`) apart from its updates (`SweepUpdate`).
* `IdempotencyKey`: `Claim` is `SET NX`, `FindTaken`/`Replay` the two calls of a repeat,
  `RecordAnswer` the `SET`, `ForgetKey` the deferred `DEL`, `AbandonKey` both failing, since
  they use the request's own context, or the process dying.
* `CredentialToken`: the fast path (`Ask`, `OpenSecret`) takes no lease; `LeaseToken`,
  `Recheck`, `Refresh`, `MergeToken`, `WriteToken`, `StampExpiry` is the critical section,
  `BeginUpdate`, `MergeEdit`, `SaveEdit` an operator's edit of the same blob. The provider
  honours only the newest refresh token and may or may not issue a new one.

### 2.8 MeterDerivation and SuspectPeriod

How a quantity gets onto an invoice, and what happens when it cannot.

`MeterDerivation`: `index` is what the meter shows, `stored` the register in
`meter_readings` by kind and instant. `MeterRuns` and `MeterReplaced` are the site and
its meter (external); every snapshot that is due may arrive, show no value, be lost or
arrive one instant later, and a reading taken at the instant of a replacement may show
either meter. `ConsumptionRows(req)` is the code: `LoadAnalyzerBoundaryData` with its
look-back per kind, `ResolveBoundary` with the preference of kinds and
`BoundaryTolerance`, `ClosedBucket`, and `DeriveRegister`, which segments the span at
reset rows with the last load profile before each as the old meter's end. `used`, the
energy that really flowed, is history; `Metered` is what the readings can tell of it.

`SuspectPeriod`: a recorder is one bill generation: `DerivePeriod` (derive and apply what
operators resolved), `LeasePeriod`, then per reason `DedupByRow`, `CreateRow`,
`TellOperator`, and `PriceOrRefuse` after the lease is released. A resolver is an
operator: `PickAnomaly` reads the row for its lease key only, `RereadAnomaly` decides
under the lease, then `RegisterReset`, the cascade to the row ingestion wrote (`F2`,
whose period begins elsewhere and so has another lease) and `ResolveRow`. What the
derivation says is nondeterministic in every generation: readings may have arrived.

## 3. Runs

| Run | Question | Bounds |
|---|---|---|
| `ingestion` | safety of a stream; does the generation hook reconcile | 2 tasks, times 0..3, page span 2, budget 2 pages, refresh age 1, one recent window, every fault but the hook's; 2 fetches, 4 slots, slices of 2, no anchor or an operator's |
| `ingestion_live` | does the stream catch up | from a backlog at time 2: 2 tasks, times up to 3, page span 1, budget 2 pages, one recent window, every fault |
| `ingestion_hook` | violation: the owed refresh when a hook fails | 1 task, fault "hook" |
| `refresh` | safety and liveness of the refresh tasks | 2 rows, 3 views, 3 slots, timeout 2, TTL 1, 1 retry, every fault |
| `refresh_contention` | violation: does contention cost a retry | 3 rows, 2 views, no fault |
| `election` | safety, liveness and refinement of the election | 2 instances, watch interval 2, every fault |
| `alarms` | safety and liveness of the alarm pipeline | 1 analyzer, 2 hours, 2 events, 1 bill, 1 retry, a scan of 1 event, both kinds of rule, every fault |
| `billing` | safety and liveness of bill generation | 2 executions, 3 versions of the inputs, 3 bills, every fault |
| `billing_stuck` | violation: does the dispatch bill a period that failed once | 1 execution, 2 versions, no fault |
| `services` | safety of the three API protocols, of the derivation and of suspect periods | 2 requests, 3 rows, clock 0..2; 3 senders, 2 bodies; 3 callers, 3 tokens, 1 edit; instants 0..5, 2 replacements, 1 flawed reading, 6 series; 2 generations, 2 operators, 2 answers, 2 registers; every fault |
| `accepted_blocks` | violation: does accepting a suspect period unblock its bill | the bounds of `services` |
| `generation_before` | violation: rows before an operator's anchor | 2 fetches, 3 slots, anchor at the last |

Why the bounds are enough. `ingestion`: two runs suffice for every overlap of two writers
of one cursor; four instants give a window with a gap before it, a page that stops
short, an aged and a recent reading; the budget of two pages can be exhausted by a window
of three. The tasks are symmetric and no temporal formula with fairness is in that run,
so its symmetry set is sound. `ingestion_live` starts in a state such as an outage leaves
(`Backlog`, which a first run and two publications lead to): the readings of two instants wait,
a third may follow, and a run started at instant 3 needs three pages and has two, so its
budget is spent before its window is, also while the other task works on the same stream or
on the backfill, whose window lies above the cursor until the live runs have come there.
With two tasks a Unique lock that runs out under a live run lets a second one start.
`refresh`: three slots let one task be refreshing while a
second waits and a third is requested; a TTL below the timeout makes leases expire under
their holder; three views give a first, a middle and a last one. `election`: overlap,
takeover and handover need two instances; an interval of two separates a ping that is late
from one that is overdue. `ingestion` (hook): two fetches interleave every read and
write of the hook with another page; four slots hold a page before, at and after the
anchor and span two slices; the intervals are distinct powers of two, so that two sums are
equal only when their rows are. `alarms`: two hours let a retried evaluation overlap the
next one; two events are a delivered one and one in its window; a scan of one event makes
the older one fall out. `billing`: two executions race for one period; three versions give
unusable, flagged and issued inputs; three bills allow a supersede of a supersede.
`services`: two requests race on a row while a third row is free for the successor; three
senders or callers are a first, a repeat and one that arrives in between. In the meter's
part an instant stands for two days: the tolerance of a billing snapshot (72 hours) reaches
the neighbouring instant, that of the other kinds (36 hours) does not, and buckets two
instants wide leave a bound inside each. Two replacements put two resets into one window or
one into each of two; the series are hourly, daily, a monthly request with and without the
bucket before it, and explicit windows with equal and unequal widths at a bound. In the
suspect period two registers are suspect for different reasons, so that a generation can
fail between two rows; two operators race for one row or take the two leases of a period.
The generations are alike and so are the operators, and the run has no liveness property,
so its symmetry set is sound.

Properties.

* `CursorCoverage`: from a lookback before the cursor was created up to the cursor,
  everything served in time is stored.
  `CatchesUp`: a reading above it is stored in the end, unless an empty stretch before it
  uses up the budget of every run (`WithinBudget`). `RefreshOwed`: each persisted old
  row has a run that will still request its refresh, unless a crash or a failed enqueue
  swallowed the request, which the code only logs or cannot know.
* `NoRowForgotten`: the task a row's request went to has every view that still lacks the
  row ahead of it, or is archived. `Serialised`: refreshes overlap only after a lease
  expired under one of them. `Materialised`: every acknowledged row reaches every view,
  or its task is archived. `ContentionIsFree`: see the findings.
* `ForwardReconciled`: a row behind which no page is still to be reconciled holds the
  anchor's value plus every interval since. `BackwardReconciled`: see the findings.
* `BillFiredOnce`: no bill has two events. `SuppressedWasTold`: an event is silenced only if
  a mail went out less than one frequency before. `NotifiedWasMailed`: an event that reads
  as delivered was mailed at that time. `Settles`: evaluations end and every delivery ends
  with an outcome on its event, in the archive, or because the event fell out of the scan.
* `AlwaysBilledOnce`: once billed, exactly one live bill. `DetailMatchesBill`: hourly rows
  are priced from the inputs of their bill, or were repaired. `IssuedStands`: an issued bill
  is superseded only by an execution with Force. `Rendered`: a bill that stays live gets its
  PDF or its render task is archived. `NotStuck`: see the findings.
* `OneLivePerLogin`, `EndsForGood`, `FirstReasonStands`: a login has one live session; one
  whose session was revoked never gets another; the first revocation is the one recorded.
* `OncePerKey`, `ReplayMatches`, `PendingIsRunning`: a second effect under a key needs an
  answer that was never recorded; a replay answers the body that took effect; a pending
  record has a running request or was cut off.
* `NotStranded`, `RefreshedOnce`, `HandedOutFresh`: the stored refresh token is the one the
  provider honours unless a pair was lost on its way; one refresh per expiry; nobody gets
  a token that was already expiring when it was asked for.
* `DerivationSound`: a number given for a window is what the readings can tell of the usage
  in its span, a register is suspect only where the meter was replaced, no usage is in two
  rows, and no row takes more than half of another window (hourly rows apart).
  `SettledForGood`: the rows of a closed window never change, whatever arrives within the
  settle delay.
* `RecordStands`: one anomaly per reason, no operator's answer overwritten, and every reason
  a generation got past is answered or told to an operator, across failures between row and
  message. `AcceptedUnblocks`: see the findings.
* `ActiveApart`, `NoticedInTime`, `FlagFirst`, `LockNotLeaked`, `TakenOver`,
  `ImplementsLeadership`: crons of two instances overlap only after a session ended; a
  lost connection is noticed within two intervals (the comment at `elector.go:21-22` calls
  one interval the bound; the ping has a further one of its own); the flag goes down before the lead
  context; no instance holds the lock between attempts; leadership is taken over again
  and again; the election refines `Leadership`.

Deadlock checking is off in every run: the bounded clock stops, all rows are materialised,
or every scheduler has been told to stop, and then nothing is left to do.

### Fairness

`Ingestion`: time passes and locks expire; the cron keeps dispatching (strong fairness of
`EnqueueLive`, because backfills may hold the task slots now and then); workers run what
is queued. What may fail is strongly fair, by position: if cursor-driven runs come to
resolve their window, to ask for the page at one instant, or to move the cursor to one
reading again and again, then one of them does so in the end. That is what retries assume
of the provider and the database, and it leaves room for any number of failures and
crashes in between; nothing is assumed of backfills but that a worker takes them. `ConsumptionRefresh`: time, Redis' expiry and the
workers are weakly fair; acquisition is only weakly fair per task, so a waiter may lose
every race, which is why `Materialised` has archival as an outcome. `SchedulerElection`:
goroutines run, the server ends sessions whose client has gone, and campaigning for ever
some attempt is answered and leads (strong fairness over all instances, not for each).
`AlarmPipeline`: asynq's workers keep executing tasks; nothing is asked of the clock.
`BillGeneration`: workers keep executing and `billing.dispatch` comes every day. The
generation hook, the API protocols, the derivation and the suspect periods have safety
properties only.

### What the model-checked properties do not claim

* A reading published at or below the cursor, or behind the page position of a run
  (`late`), is not covered: a cursor-driven run never asks for it again; only a
  backfill does.
* A provider with no data for longer than the page budget covers leaves the cursor where
  it is, and every run spends its budget on the same empty pages. `CatchesUp` excuses it
  (`WithinBudget`); in the code the budget is 1000 pages per run.
* A crash loses the refresh request a run owed. Nothing in the code records it.
* Alarms: a claimed bill whose event or enqueue fails is never announced (the code says so,
  `service/alarms/run.go:156`). A mail is sent twice when its mark fails or the worker dies
  before it, and a repeat that cannot send overwrites the mark of one that could. An
  evaluation that fails after its rules runs again, and a reading rule without a frequency
  then has a second event in the hour. An error of one analyzer skips the rule's later ones.
* Billing: a retried Force execution supersedes the bill its predecessor made; a flagged
  bill is superseded by every daily dispatch; a forced request is swallowed while an
  unforced task is queued or running; repaired hourly rows are priced from today's inputs;
  an archived render task keeps its id, which is why `Rendered` excepts it.
* Sessions: a bulk revocation that overlaps a rotation misses the successor the rotation
  commits (`SweepSnapshot`), although `service/auth/sessions.go:30` says that it revokes every
  session of the caller. No property claims that nothing is live after it.
* Idempotency: an effect whose answer could not be recorded may be repeated, and a marker
  that was cut off answers "busy" for a day; both are excused by name in the properties.
* Tokens: the provider's answer may be lost, and a death between the answer and the write
  strands the credential (`stranded`). The lease is assumed to outlast its holder's call.
* Derivation: a replacement that left no reset row is billed as usage where the index did
  not fall, and a reset row that arrives after its window closed changes a billed window;
  `MeterReplaced` always leaves its row at once. Usage between the old meter's last load
  profile and its replacement is in no row (`Metered`). Windows of different requests may
  share usage when the requests have different widths. The analyzer has readings before the
  period, so the gap before an installation does not occur.
* Suspect periods: the cascade may overwrite an answer given to the `F2` row meanwhile, since
  that row has another lease; a period suspect again after its reset is refused with no open
  anomaly, since the resolved row is found and left. What is done under a lease is assumed
  to end within its 30 seconds.

## 4. Findings

* `ingest/fetch.go:299`: the comment at `fetch.go:468-470` promises a refresh for a partial
  run; a hook failing on the first page precedes `noteLoadProfilePersisted`, so no refresh
  is requested for rows already stored.
* `service/consumption/refresh.go:254`: the doc at `refresh.go:70-73` says contention uses
  no retry; the lease is given up only when the context is done, and the re-enqueue on
  that context fails.
* `service/billing/generate.go:298`: `service/consumption/resolve.go:28-30` says an accepted
  period no longer blocks the invoice; the accepted registers stay suspect in the row, and
  every row with a suspect register is refused, whatever its resolution.
* `service/billing/jobs.go:34`: `job/billing.go:20` says the lookback keeps a failing period
  from being stuck; a `ComputeError` archives the generate task under its fixed id, and
  later dispatches take the conflict for success and enqueue nothing.
* `ingest/generation/hook.go:282`: `accumulate.go:47` gives the formula for rows before a real
  anchor; a page between the anchor and a row derived earlier leaves that row as it was.

## 5. Proofs

The theorems hold for every value of the constants that the named assumptions allow.
`IngestionAssumption`, `RefreshAssumption`, `ElectionAssumption`, `BillingAssumption`,
`AlarmAssumption`, `SessionAssumption`, `KeyAssumption` and `TokenAssumption` only say that
bounds are numbers and that sentinels are not members of the sets they extend. Three say more:

* `GenerationAssumption`: a slice of a recompute and a page are not empty, and an anchor lies
  at a slot or before the first. The energy of an interval is any number.
* `MeterAssumption`: usage and indexes are not negative, the settle delay is not zero
  (`SettleDelay` in `service/consumption/doc.go` is two hours at least), and the bounds of a
  request rise by a bucket at least, except in hourly and explicit requests, whose bounds
  only rise (calendar buckets, and `validatePeriodRequest` for explicit windows).
* `SuspectAssumption`: an operator is not a bill generation, and the reasons a derivation may
  give are those of `deriveRegister`.

Each argument is an inductive invariant: true initially, kept by every step, and implying the
property.

* `IngestionProofs`: `TypeCorrect`; `CoverageCorrect` from `CoverageInv`; `MonotoneCorrect`;
  `RefreshOwedCorrect` from `OwedInv`, under the hypothesis that no hook fails (the
  finding shows why). `CursorCoverage` alone is not inductive: moving the cursor to the
  newest row of a page is sound only because everything between the run's window start
  and its position is stored and that window starts at or below the cursor the run read.
  `RunSound` states it for each run that may move the cursor, whatever the other runs do
  to the cursor in the meantime; `Origin` is where the covered stretch begins, which is
  the run's own lookback until a cursor exists. `OwedInv` adds that an owed row is in the
  accumulator of a run that will find `hasLoadProfile` set.
* `ConsumptionRefreshProofs`: `TypeCorrect`; `SerialisedCorrect` from `LeaseInv` (a task
  that refreshes holds the lease or has lost it by expiry); `RequestsCorrect`, which is
  `NoRowForgotten`, from `RequestInv`: a task executes only after the minute of its slot,
  so a request of the current minute always meets a task that has not started. That is
  the reason for debounce slot and `ProcessIn` together.
* `SchedulerElectionProofs`: `TypeCorrect`, `ActiveApartCorrect`, `NoticedCorrect`,
  `FlagFirstCorrect`, `LockNotLeakedCorrect` from `ElectionInv`: which session holds the
  lock (`LockInv`), which goroutines can be where at the same time (`ThreadInv`), how long
  the loss of the connection has gone unnoticed (`WatchInv`). `ImplementsCorrect` maps
  the initial states and every step of `SchedulerElection` to `Leadership`.

* `ApiProofs`, sessions: `SessionTypeCorrect`, `OneLiveCorrect`, `EndsCorrect`,
  `FirstReasonCorrect` from `SessionInv`: requests hold rows that exist and instants that have passed, every
  row's login has been inserted, and two live rows never share a login. The last is
  stated over pairs of rows (`AtMostOneLive`), because only then is it plain which conjunct
  a rotation needs: the row it replaces is still live, so it is the one live row.
* `ApiProofs`, idempotency keys: `KeyTypeCorrect`, `OnceCorrect`, `ReplayCorrect`, `PendingCorrect`
  from `KeyInv`: a request inside the handler owns the pending record, alone (`Owned`); the
  first effect is recorded, that of a request that may still record it, or excused
  (`Accounted`); a done record belongs to the body that took effect (`Replayed`).
* `ApiProofs`, tokens: `TokenTypeCorrect`, `NotStrandedCorrect`, `RefreshedOnceCorrect`,
  `HandedOutCorrect` from `TokenInv`: the blob against the provider's pair (`BlobSound`) and,
  for each step of a call, what its locals say about them (`CallSound`).
* `BillGenerationProofs`: `BillTypeCorrect`, `AlwaysBilledCorrect`, `DetailCorrect`,
  `IssuedStandsCorrect` from `BillInv`. One live bill (`OneLive`) follows from the guards of
  the two inserts alone, the partial unique index and the lock of the bill that was read.
  The other two need what an execution carries from the bill it read to the bill it writes
  (`Knows`): an execution past its computation that read an issued bill carries Force, and
  one that writes hourly rows writes them from the version its bill was priced from. Both
  survive the steps of every other execution because bills only grow and keep their version
  (`Grown`).
* `AlarmPipelineProofs`: `AlarmTypeCorrect`, `FiredOnceCorrect`, `ToldCorrect`, `MailedCorrect`
  from `AlarmInv`: an evaluation past its claim holds the claimed pair alone and the pair has
  no event yet (`ClaimSound`), so an overlapping or repeated evaluation cannot give it a
  second; one that decided to stay quiet has seen a mail inside the window (`ToldSound`); a
  delivery about to be recorded has been mailed at the time it will record
  (`DeliverySound`). `RoomKept` is about the bound on events only: the guard that starts an
  evaluation counts the events that running ones may still write.

* `EnergyProofs`, sums: `SumFunctionOnSet` is a fold, defined by recursion over the set.
  `SetInduction` derives induction over the naturals from the finiteness of intervals, and
  from it follow the laws of sums the other proofs use (`SumOfChosen`, adding and removing an
  element, `Extremes` of finite sets), each stated for the function at hand instead of for an
  operator, since no prover here instantiates an operator parameter.
* `EnergyProofs`, the generation hook: `GenerationTypeCorrect`, `ForwardReconciledCorrect` from
  `GenInv`. A recompute is right about a row only as far as no other run has a page behind it
  that is still to be reconciled (`Clear`): a batch it carries has, with their true value, all
  rows of its page and after it that are clear of the others (`ForwardSound`). A page that
  lands while the hook is at work is not in its batch, but then that page is not yet
  reconciled and its own run will be. `Unwritten` says that nothing is derived before a made-up
  anchor, which is why moving it back is sound.
* `EnergyProofs`, the derivation: `MeterTypeCorrect`, `DerivationSoundCorrect`,
  `SettledForGoodCorrect`, for any usage, replacements, schedule, flaws and requests. `MeterInv`
  says that every reading of an instant shows what one of the meters present at it had counted
  since it was put in, from the index it began with (`Shows`): at the instant of a replacement
  either meter may be read, which is where a naive invariant fails. From it, one segment of
  `DeriveRegister` is the usage between two readings of one meter, less what the old meter
  counted after its last load profile, and the segments of a span telescope (`Telescope`) to
  `Metered`. That no usage is in two rows follows from the order of the bounds and the
  boundary readings alone; that a row takes at most half of another window follows from
  `Width`. `SettledForGood` needs that a derivation reads nothing after the end of its window
  (`LoadedAlike`, `ResolvedAlike`, `DerivedAlike`) and that a reading arrives at most one
  instant late (`ReadingsKept`), which the settle delay covers.
* `ServicesProofs`, suspect periods: `SuspectTypeCorrect`, `RecordStandsCorrect` from
  `SuspectInv`. A lease is held exactly by the process at work under it (`LeaseHeld`), so what
  that process read of the rows (there is none for this reason; this one is still open)
  is true when it writes (`RecorderSound`, `ResolverSound`). Only the `F2` row can be answered
  twice: it has another lease than the period.
* `ServicesProofs`, the composed run: `ServicesTypeCorrect`, from the types of the five
  services.

Every safety property of the passing runs is a theorem. Only model-checked: the liveness
properties `CatchesUp`, `Materialised`, `TakenOver`, `Settles` and `Rendered`, since fairness and
`ENABLED` are outside the prover, and the violations.
`MonotoneCorrect` has no run: the cursor is written with `greatest`, and the theorem says so
for every step.

Every property of a passing run has a mutated definition in its module, marked
`MUTANT of ...` or `Mutant:`, under which TLC finds the property violated: a backfill that creates the cursor, a refresh id without its debounce slot,
a plain `DEL` of the lease, an unlock before the term has ended, and so on.

## 6. Not modelled, and why

* Validation, deduplication and anomaly detection of a page, reset rows, the multiplier
  update, `job_runs` and operational messages: data of one run that the modelled
  properties do not tell apart.
* The retry budget and backoff of fetch tasks: a failed task is retried or archived.
* Discovery of analyzers in `SyncAnalyzers`, the cron table, several streams at once:
  streams share no state of the model.
* Leases that run out under a living holder, in the generation hook and the token refresh
  (in `ConsumptionRefresh` they do); the iSolar OAuth callback; corrections of rows the
  generation hook holds a copy of; `Recompute`.
* Company bills, export and dashboards of billing; several alarm rules at once, SMS and the
  iSolar alarm forwarding; password hashing and reset tokens.
* Clock skew between enqueuers and asynq's scheduler of delayed tasks.
* Of the derivation: the classification of gaps, maximum demand, ratios, calendar widths
  that differ (months, daylight saving), several registers and analyzers in one request,
  the analytics path beside the invoice path, readings a provider corrects after the fact.
* Provider adapters, HTTP client, API handlers, CRUD services, arithmetic domain code,
  rendering, migration, seeding, CLI, the ML service and the web client: stateless or
  single-transaction code, formatting and I/O.

## 7. Plan

Done: the eleven components of section 2, their runs, and the proofs of section 5. What would
be worth adding, in this order:

1. The bulk revocation of sessions against a rotation, and the edit of a credential's other
   fields against a refresh, once the code says what it wants to promise there.
2. The bucket arithmetic of `RefreshConsumption` against the policies of the continuous
   aggregates, as pure operators over bounded inputs.
3. The OAuth callback beside the refresh, and leases that run out under their holder.
