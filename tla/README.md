# Keiro, verified

A TLA+ development beside the keiro repository: a Haskell library for event
sourcing and durable workflows on PostgreSQL, and the Python programs that
gate, build, check and publish its releases. It models the workers whose
correctness rests on SQL statements that race each other at READ COMMITTED, and
the release commands whose correctness rests on files that other commands, the
developer and the clock change under them. It checks the models with TLC on
small instances and proves the main invariants with TLAPS for every value of
the constants.

Paths below are relative to the repository root. `K` stands for
`keiro/src/Keiro`, `PUB` for
`keiro/bench/results/release-gates/0.24.0.0-publication`.

## 1. Inventory

Everything durable is in PostgreSQL: the streams of the event store (kiroku,
external) and keiro's own tables (`keiro-migrations/migrations`). The program
is a library: an application starts the worker loops it wants, in as many
processes as it wants, and they interact through the tables only. A worker
claims a row in one transaction, does its work outside every transaction, and
records the outcome in another one. Nearly all the hard behaviours come from
that shape: what was true at the claim may be false at the record.

| Component | State | Operations | Hard behaviours | What makes it correct |
|---|---|---|---|---|
| Outbox (`K/Outbox*`) | `keiro_outbox` rows: status, attempts, next attempt | enqueue in the producer's transaction; claim a batch, publish, mark; requeue stuck rows; GC | two claim statements overlap; a worker dies or outlives its claim; part of a batch fails | order per key or source, attempt budget, no row lost or marked without its answer |
| Inbox (`K/Inbox*`) | `keiro_inbox` rows | run a handler once per message: single, with retries, in batches; record failures; GC | broker redelivery, concurrent consumers, condemned transactions, deadlocks, a crash between the handler's failure and its record | effects committed once; acknowledged only when settled |
| Timers (`K/Timer*`) | `keiro_timers` rows with a foreground lease | schedule, claim, fire, mark, requeue, operator transitions, leased resume of dead timers | late marks, requeue racing a foreground session, crash between claim and mark | bounded fire actions, exclusive lease, final states final, every timer settled |
| Workflow engine (`K/Workflow.hs`, `Workflow/{Journal,Schema,Instance,Resume,Types}.hs`) | journal stream and step index, instance row, snapshots | run (replay, steps, awaits, completion, rotation), discovery, lease, crash record, cancel, resurrect, forced release | concurrent runs of one workflow, wakes racing the park, lost leases, crash anywhere | one ending; no wake lost; a stopped run stops; every workflow ends |
| Sleeps, awakeables (`K/Workflow/{Sleep,Awakeable}*`) | timers of a fixed kind; `keiro_awakeables` | arm, fire; allocate, signal, cancel | the wake races the park, the rotation and the cancellation | a resolved await wakes its workflow |
| Children (`K/Workflow/Child*`) | link rows | spawn, await, completion hook, cancel | crash between the child's end and the hook | a finished child wakes its parent |
| Retention (`K/Workflow/Gc.hs`) | - | delete ended workflows | resurrection and crash between the transactions | nothing live is deleted |
| Commands (`K/Command.hs`, `Snapshot*`) | streams, snapshots | hydrate, decide, append at a version, retry | conflicts, duplicate ids, stale seeds | decided on the version it is appended at |
| Process managers, routers (`K/ProcessManager*`, `K/Router*`) | manager streams | react to a source event: append, schedule, dispatch | redelivery, crash between the transactions | each command takes effect once |
| Sharded subscriptions (`K/Subscription/Shard*`) | bucket rows with leases; the readers of a worker | reconcile: renew, claim, shed, start and stop readers | lapsed leases with live readers, dying readers | every bucket read, by one worker |
| Projections, read models, rebuild (`K/Projection*`, `K/ReadModel*`) | dedup rows, status rows, run rows | apply, fence, truncate, replay, verify, promote | live writers racing a rebuild | each event applied once to what is served |
| PGMQ jobs (`keiro-pgmq`) | PGMQ queues (external) | drain, retry, dead-letter, redrive | visibility timeouts, two-statement moves | no job lost |
| Ops HTTP feed (`keiro-ops-http`) | STM queue per socket | enqueue, drop, notify overflow | queue at its limit with a frame in flight | a dropped frame is announced |
| Release gate (`scripts/release_workflow.py`, `PUB/review-readiness.py`) | workspace lock, receipts of attempts at stages, manifests | gate, release-ready, review | interrupts in a stage, edits under a stage, stale or contradicted evidence | what is accepted stands on the last attempt at every stage, on the bytes it names |
| Archives and publication (`scripts/release_{workflow,consumer}.py`, `PUB/publish.py`) | archives and their inventory, the consumer's result, readiness, the upload ledger | build, staged consumer, release-ready, upload | a build that outlives its command, edits, an upload without the lock, failed uploads | what is uploaded is what was tested and reviewed, once |
| Release preflight (`scripts/release_workflow.py`) | dependency walk, pool of lookups | static policies, blueprints, walk, lookups | parallel retries, cancellation on the first refusal | no unreleased dependency passes |
| Release consumer (`scripts/release_consumer.py`) | solver, plan, scratch database, server | solve, validate, build, health check, clean up | failure, hang or interrupt at any step | the cohort is the candidate's; nothing is left behind |
| Record-field manifests (`scripts/generate-record-migration-manifests.py`) | two documents that are both input and output | regenerate, check | the released labels survive only in the overwritten file | every field keeps its released label |
| Replay check, checked-mapping gates, package policies (`scripts/check-*.py`) | none: they read evidence | one check each | evidence that looks complete and is not | what passes means what a reader takes it to mean |
| Benchmark comparison (`scripts/*guarded-catalog*`, `bench/GuardedCatalogBench.hs`) | the benchmark's process, samples of the host, the evidence directory | check identities, measure, stop, summarise | a competitor, a signal, a timeout or an interrupt at any moment | what passes was measured undisturbed and completely |
| Other benchmark and evidence scripts (`bench`, `scripts`) | results of measurements | run, fit, compare | real-valued statistics | - |
| Dead letters, wake signal, ops CLI, replay audit, core codecs, telemetry, migrations, DSL toolchain, examples | | | | see `PROJECT.json` for the reason each is left out |

Interactions: a process manager schedules timers in its append; a workflow's
sleep is a timer whose fire action appends to the workflow's journal; a
completed child appends to its parent's journal; commands enqueue outbox rows
in their transaction; inbox handlers run commands in theirs. The release
commands interact through the files of the workspace and `dist-release/`: the
gate's manifest and the staged consumer's result are read by release-ready,
whose readiness file is read by the publication. All but the publication hold
the workspace lock; the developer needs no lock to edit.

`PROJECT.json` lists the hazards of this code at the lines where they bite,
with the properties that cover each one.

The list there is kept to the modelled parts. The hazards known in the rest of
the code, which no property covers because the components are not modelled:

| Where | Hazard |
|---|---|
| `K/Workflow/Child.hs:321` | a crash between the child's completion and the hook that records its result at the parent (`docs/bug-reports/8-*`) |
| `K/Workflow/Gc.hs:177` | retention deletes streams generation by generation, then rows, in separate transactions |
| `K/Workflow/Awakeable.hs:337` | signal and cancel take the awakeable's row and the step lock in opposite orders |
| `K/Subscription/Shard/Worker.hs:298`, `:244` | a reader dies before it is in the map of readers; readers outlive a lapsed lease |
| `K/ProcessManager.hs:604` | the manager's event and each of its commands are separate transactions |
| `K/Command.hs:1447` | a command is decided on a state read before the append |
| `K/Projection.hs:633`, `K/ReadModel/Rebuild/Runner.hs:895` | a live application races a rebuild; promotion is several transactions |
| `keiro-pgmq` (`Job.hs:1120`), ops HTTP feed (`Feed/Queue.hs:71`) | two-statement moves; a bounded queue with a frame in flight |
| `K/Outbox/Schema.hs:61` | `created_at` is the start of the transaction, so rows can commit against it; `Outbox` makes the order a premise (`Serialized`) |

## 2. Plan

Modelled so far, in this order: `Outbox`, `Inbox` (with its abstract
specification `InboxPromise`), `Timer`, `Workflow` (with sleeps and
awakeables); then the release: `Workspace` with `ReleaseGate` and
`Publication` over it, and one module for each check a release passes through
(`RecordManifests`, `ReplayCheck`, `MappingGates`, `PackagePolicies`,
`Preflight`, `Consumer`) or its performance stands on (`Comparison`).

Next:

1. `Child`: two instances, parent and child, at the level of journal, row and
   link; the crash between the completion and the hook, cancellation racing
   completion, retention (`Gc.hs`). Abstract specification: a parent's await is
   resolved by the child's single ending.
2. `Shard`: bucket leases and the map of readers (`Worker.hs:254-371`);
   properties: lapsed leases, readers that die before they are registered,
   fair share under joins and crashes.
3. `Command` and `Reaction`: append with retries under `StoreFailed` and
   duplicate ids; a reaction under redelivery implements "each command once".
4. `Projection`: the fence between live application, rebuild, and pruning;
   the promotion's separate transactions.
5. `FeedQueue` (STM, small and sequentially rich) and `Job` (PGMQ drain).

Every safety property of the passing runs is a theorem; what is only
model-checked is listed at the end of section 5. What the modules to come owe
first is the invariant of their own that relates what a process has read to what
the table says now: it carried every proof so far.

## 3. The modules

All modules share conventions. One action is one SQL statement, one
transaction, or the part of a transaction between two points where another
transaction can get in; the comment of each action names the function.
"Time has passed" is an action that any moment may take (`BackoffElapses`,
`GoesStale`, `LeaseExpires`, ...), so a timeout races everything. `Crash`,
`Kill`, `StoreError` and their kin lose what a process has in memory and keep
the rows. Variables marked "history" are not in the program; they record what
a property needs to look back at. Definitions commented "Mutant" are what a
plausible bug would make of the definition that follows; no module uses them.

### Outbox

| TLA+ | code |
|---|---|
| `status`, `attempts`, `due`, `claimedAt` | columns of `keiro_outbox`; `due` is `next_attempt_at <= now`, `claimedAt` the order of `updated_at` among claimed rows |
| `ClaimSnapshot`, `ClaimLock`, `ClaimCommit` | one `claimSql`: its snapshot with the pre-filter, `FOR UPDATE SKIP LOCKED` with the re-check of the row's newest version, the post-filter and the update |
| `PublishBatch`, `PublishNext` | the transport call: the whole batch, or row by row under `StopTheLine` |
| `Mark` | `groupMarks` and the marking transaction |
| `RequeueStuck`, `CollectSent` | the maintenance pass, `garbageCollectSent` |

`Serialized` says that rows of a source commit in `created_at` order;
`Timely` that no live worker outlives `publishingTimeout`. `KeepsOrder` is
what the comment on `publishClaimedOutbox` asks of a transport: no later row
of a run succeeds in a call in which an earlier one failed.

Runs: `outbox_stop` (`StopTheLine`, three rows, the middle one without a key,
two workers that stay within the timeout, one crash), `outbox_late`
(`PerKeyHeadOfLine`, two rows of one key, workers that may outlive the
timeout, a crash, fairness), `outbox_late_mark` (a finding). Three rows are
the least that put a row of a key behind a stranger in one batch; two workers
the least that race; `MaxAttempts` 2 is the least at which a row is retried
and given up. `PerSourceStream` is in the model and in the proofs and differs
from `PerKeyHeadOfLine` in `Ahead` and `SameGroup` only; no run instantiates
it or `BestEffort`.

Also seen: `StopTheLine` halts a pass, not the outbox "until operator
intervention": the next pass takes up the failed row when its backoff has run
out. Under `StopTheLine` rows behind a head that kills its worker are charged
by `requeueStuckOutbox` as if they had failed themselves; `faults` counts that
as their own.

### Inbox and InboxPromise

| TLA+ | code |
|---|---|
| `Insert`, `Select`, `HandlerReturns/Condemns/Throws`, `MarkCompleted` | the statements of `attemptOneTx`, each a step; an insert or update waits for an uncommitted writer (`Free`), a select does not |
| `Commit`, `VerifyBatch`, `FallBack` | the end of a transaction, `verifyBatchCommitted`, `perMessageFallback` |
| `RecordFailedAttempt` | the second transaction of the retrying wrappers |
| `DeadlockVictim` | PostgreSQL fails one transaction of a cycle |
| `Acknowledge` | the consumer commits the offsets of `Processed`, `Duplicate` and `PreviouslyFailed` results |

`InboxPromise` is the abstract specification: effects of a message are
committed at most once, and it is acknowledged only after that or when it was
given up. `KeepsPromise` is the refinement (`INSTANCE InboxPromise WITH
givenUp <- GivenUp`). It holds when no two consumers hold a message at a time
(`Exclusive`), which one consumer per partition gives; without it the two
findings below break it.

How the consumers are set up is the variable `mode`, fixed in the initial
state: the lists of messages they are handed, whether the retrying wrappers
are used and with which ceiling, whether a message has one owner at a time
(`Exclusive`), legacy rows, retention, and the bound on crashes. Each property
names the modes it is promised in: `RunsOnce` and `OwnersAckSettled` hold where
nothing is retried or each message has one owner (`Owned`), `FailuresWithinCeiling`
where it has one owner, `EverySettled` where failures are recorded, and
`KeepsPromise` where `Owned` and without retention, which forgets what was done.
Two cases are excepted by name: with a ceiling of 0 the first failure is charged
all the same, and a batch that repeats a message whose row an older release left
in `processing` has the repetition answered `Duplicate`, and acknowledged, though
nothing has run (`Unsettled`; `K/Inbox/Types.hs` says of `InboxDuplicate` that the
message was already completed).

Runs: `inbox_sound` checks four modes in one run: single messages, two keys,
one of them left in `processing` by an older release, two concurrent consumers,
a crash, with retention and without (`Racing`, the mode in which consumers that
race must keep the promise); batches of up to three messages, one that repeats a
message, with retries and one owner, and the refinement; two batches of the
same messages in opposite orders, whose transactions may deadlock, ceiling 1,
with fairness. `inbox_flip` and `inbox_batch_lost` are findings. `runs`
saturates at 2, which is enough to tell once from more than once. A message
repeated in a batch is answered `Duplicate` before its first occurrence is
known to succeed; when the batch falls back both are tried.
Not modelled: `Inbox/Delegated.hs` and the Kafka adapters, which only decode
and call these functions.

### Timer

| TLA+ | code |
|---|---|
| `StartPass`, `RequeueStuckTimers`, `ClaimDueTimer`, `FireProduces`, `FireDeclines`, `MarkTimerFired`, `DeadLetterExceeded` | `runTimerWorkerWith`: preamble, claim, fire action, mark or dead letter |
| `Schedule` | `scheduleTimerTx` (with `Rescheduling`), `scheduleTimerOnceTx` (without) |
| `Operate` | `cancelTimer`, `deadLetterTimer`, `requeueStuckTimer` |
| `ClaimDeadTimer`, `FinishResume`, `RenewRefused`, `RecoverExpired` | the foreground resume under a lease |

A renewal that is granted keeps the lease as it is, so it is not a step: a
lease may run out at any time anyway. Any due timer may be the one claimed.
`maxAttempts = Nothing` is a ceiling never reached. A reschedule while the
timer fires changes nothing, by the statement's guard.

Run: `timer_resume`, one timer (every property but the claim order is about
one row), two workers, two sessions, ceiling 2 and resume ceiling 5 (high
enough that a session can take up a timer the workers gave up, twice), two
crashes, with fairness.

A late mark succeeds on a row that was requeued and claimed by another worker:
the claim has no identity. The properties say what still holds: final states
are final, a foreground lease is respected, and the number of fire actions is
bounded. At-least-once firing is the documented contract.

### Workflow

| TLA+ | code |
|---|---|
| `journal`, `marks`, `opened` | step rows and lifecycle markers per generation; the highest generation |
| `status`, `attempts`, `paced`, `leasedBy`, `leaseLive`, `wake` | the instance row |
| `run[r]` | one run: its phase, the generation it read once, the boundaries it holds results of |
| `Discover`, `Claim`, `Release`, `RecordCrash`, `MarkFailed` | `resumeWorkflowsOnceUpTo`, `driveInstance`, `advance`, `handleAttempt` |
| `Begin`, `Load`, `FindWake`, `Probe`, `Act`, `AppendCheck`, `AppendCommit` | `runWorkflowWith` and its handler: generation, journal or snapshot, step index, lease renewal and stop check, action, append under the step's advisory lock |
| `ArmSleep`, `ArmAwait`, `ParkCheck`, `ParkCommit` | arming an await, and `markInstanceSuspendedAwaiting` |
| `Complete`, `Rotate` | completion and `rotateGeneration` |
| `TimerDue` ... `RequeueTimer` | the timer worker with `workflowSleepFireAction` |
| `SignalRead`, `SignalCheck`, `SignalCommit`, `CancelAwakeable` | signals and cancellation from outside |
| `CancelWorkflow`, `ResurrectFailedWorkflow`, `ForceReleaseLease` | the operator |

The body is a fixed list of boundaries (`step`, `alloc` and `await` of an
awakeable, `sleep`); replay is deterministic in the program as well, or a step
of another name is recorded. A snapshot may miss awaits that were recorded
while its run was in flight, never steps. One signal is under way at a time.
A direct caller takes no lease and so races the worker at every step.

Runs: `workflow_wake` (step, alloc, await; two workers whose leases may run
out under them, a direct caller, one intervention of the operator: 1.2 million
states), `workflow_ends` (step and sleep, two generations, one crash, with
fairness), `workflow_sleep_lost` (a finding). One await is enough for
`NoWakeLost`, since it speaks of the await a run is parked on; the step before
it gives a run something to be late with; the rotation in `workflow_ends` gives
marks and wakes an older generation.
Left out: patches, children, retention, inspection, payloads of older
releases, adoption of deterministic awakeable ids, a body that catches
`WorkflowAwakeableCancelled`. Liveness is checked for sleeps; for awaits it
rests on `NoWakeLost`, with no liveness run of its own.

### Workspace, ReleaseGate and Publication

| TLA+ | code |
|---|---|
| `tree`, `head`, `env`, `now` | the tracked bytes and the commit (`source_identity`), the other inputs of a stage (plan, compiler, PostgreSQL), the clock |
| `lock`, `Start`, `Leave` | `workspace_lock`: refused when held, gone with its process |
| `attempts`, `StageRun`, `StageReuse`, `StageEnd` | `Gate.stage`: the receipt is written before the command runs, without a status |
| `manifests`, `Finish` | `Gate.execute`, `Gate.finish` |
| `ManifestOK`, `ReviewedOK` | `check_manifest`, and the check of `review-readiness.py` |
| `archives`, `Sdist`, `Haddock`, `ListArtifacts` | `artifacts` |
| `ConsumerStart` ... `ConsumerEnd` | the staged consumer's reading of the archives |
| `ArtifactsOK`, `ReadyArtifacts`, `ReviewWrite` | `check_artifacts`, release-ready, the review's readiness file |
| `PublishStart` ... `PublishStop` | `publish.py`, one step per look at the disk and per upload |

`Workspace` is what the commands share: the developer edits, undoes, commits
and restarts the server at any moment, and evidence ages. `ReleaseGate` and
`Publication` extend it by the commands; the interface between them is the set
`gated` of sources with a manifest that is accepted. `GateStop`, `PubStop` and
`PublishStop` are refusals, failures, interrupts and kills: a command may stop
wherever it is. `StrayWrite` is a `cabal sdist` whose command was killed.

Run: `release`, two terminals (the least that want the lock), one guard, one
package with two archives (one that the consumer tests, one that it does not),
one change, evidence that is fresh for no tick, three attempts (a pass, a later
failure, a third to look past it), two builds. The gate and the publication
are explored side by side in one run (`part`): what would link them is `gated`.
`MaxChanges` 1 suffices for the properties, which compare a state with one
other source; the theorems hold for every bound.

Once a publication has ended only another attempt at it is followed (`Over`).
`publish.py`'s checks before the first upload are one step (`PublishStart`), as
nothing is sent between them; those it repeats per upload are steps of their own.

Left out: `run-check.py`, tags, the receipt of the native build, index lag of
the registry; `prepare` and the locked variants are an `Edit`; a readiness file
names no environment, so `Publication` has none.

### The checks: RecordManifests, ReplayCheck, MappingGates, PackagePolicies, Preflight, Consumer, Comparison

| Module | What changes | What is checked |
|---|---|---|
| `RecordManifests` | the source adopts targets, gains and loses fields; the documents are regenerated | `ReleasedSpellingKept`: a current manifest has the released label of every field, as long as the names are stable |
| `ReplayCheck` | any two fields of inventory and reports | `ReplaySound`: with `--require-all` a pass means every required case was replayed by both with the same outcome |
| `MappingGates` | manifest and tree, three changes | `MappingSound`: later gates stand on earlier ones and on one candidate; retained readers are in the tree |
| `PackagePolicies` | export lists, Cabal files, emitted imports, two edits | `BoundarySound`: no consumer constructs a protected value; generated imports resolve |
| `Preflight` | requests fail at any time, two threads, two attempts each | `PreflightSound`: what passes was found released |
| `Consumer` | commands, server and answers fail, hang or are interrupted at any time | `ConsumerSound`: a pass is of the candidate; nothing is left running |
| `Comparison` | the host gets busy and quiet, the benchmark fails, ends or resists its signals, the script is interrupted; one report of each kind, with a flaw each | `ComparisonSound`: a pass, or an `execution.json` that says 0 and clean, is of an undisturbed complete run; no benchmark is left running |

Each property says in its own terms what a reader concludes from a pass and not
how the script computes it: `ReplaySound` looks at cases and observations where
the script indexes and counts, `ExportsOpen` of `BoundarySound` looks at the
depth of parentheses where the script splits, `Reachable` of `PreflightSound` is
the least closed set where the script walks with a stack.

`MCPolicies` checks them side by side (`part`), each on an instance that meets
each rule of its script once, with the repository's own names where a rule is
about a name. Evidence is varied field by field from valid evidence, so that
one rule at a time, or two, decide. Regular expressions, JSON shapes, prose and
wording are left out. `Comparison` has three of the 190 reports, one of each kind
the summary treats differently, and two samples of the preflight for six.

## 4. What the runs show

| Run | Module | Expect | Properties |
|---|---|---|---|
| `outbox_stop` | `MCOutbox` | pass | `TypeOK` `GaplessRuns` `MarksAreAnswers` `DeadByOwnFaults` |
| `outbox_late` | `MCOutbox` | pass | `InOrderDelivery` `AttemptBudget` `TerminalIsFinal` `EverySettled` |
| `outbox_late_mark` | `MCOutbox` | violation | `LateMarkSparesReclaimed` |
| `inbox_sound` | `MCInbox` | pass | `TypeOK` `RunsOnce` `CompletedHasRun` `OwnersAckSettled` `FailuresWithinCeiling` `KeepsPromise` `EverySettled` |
| `inbox_flip` | `MCInbox` | violation | `CompletedIsFinal` |
| `inbox_batch_lost` | `MCInbox` | violation | `AckedIsSettled` |
| `timer_resume` | `MCTimer` | pass | `TypeOK` `FiresWithinCeiling` `LiveLeaseHolds` `SettledIsFinal` `EverySettled` |
| `workflow_wake` | `MCWorkflow` | pass | `TypeOK` `EndsOnce` `NoWakeLost` `OneLateAction` |
| `workflow_ends` | `MCWorkflow` | pass | `EveryEnds` |
| `workflow_sleep_lost` | `MCWorkflow` | violation | `SleepHasTimer` |
| `release` | `MCRelease` | pass | `ReleaseTypeOK` `LatestPassed` `RanOnItsSource` `GuardsAfterCorrectness` `ReadyIsOneCandidate` `ReadyIsTested` `UploadsAudited` `PublishedOnce` |
| `policies` | `MCPolicies` | pass | `ReleasedSpellingKept` `ReplaySound` `MappingSound` `BoundarySound` `PreflightSound` `ConsumerSound` `ComparisonSound` |

Each passing property has a mutant in `PROJECT.json`: a plausible bug in a
mapped definition under which TLC finds the property violated in the same run.

Disagreements between the code and what it says of itself:

* `outbox_late_mark`: a publisher that outlives `publishingTimeout` marks a
  row that another worker has claimed meanwhile (known to the repository as
  `docs/bug-reports/5-stale-outbox-publisher-finalizes-reclaimed-claim.md`).
* `inbox_flip`: the failure of one consumer, recorded in its second
  transaction, turns a row that another consumer has completed meanwhile back
  into a failed one; the handler then runs again.
* `inbox_batch_lost`: whether a batch was committed is inferred from one row,
  which another consumer may have written; a condemned batch is then
  acknowledged without its effects.
* `workflow_sleep_lost`: a sleep's timer that comes due while its workflow is
  failed is cancelled; resurrected, the workflow suspends on that sleep for
  ever (and its expired wake hint makes every discovery pass pick it up).

Also seen in the release programs, none of them contradicting a statement of
the repository that a run could refute:

* The gate compares the source only at the end of a stage, so an edit that is
  undone within the stage goes unnoticed; `restored` remembers it and
  `RanOnItsSource`, `ReadyIsOneCandidate` and `UploadsAudited` except it.
  `release-ready` reads the source twice, in preflight and in the identity it
  compares with.
* `publish.py` takes no workspace lock: an archive replaced between its digest
  and `cabal upload` would go out unreviewed. `Racing = FALSE` is the premise
  of the run and of the theorem that this does not happen.
* A listed prefix is cut off a record label inside a token
  (`generate-record-migration-manifests.py:265`; `CAMEL_PREFIX` is unused):
  `DispatchNode`'s `disposition` becomes `osition` in
  `keiro-dsl/record-field-migration-0.15.md`.
* A released label can be lost. The manifest's rows are found again by the "live
  target" (`historical_names`, `:280-283`), but a target is computed from all the
  labels of its declaration: once `MappingKey` has adopted `keyPath` for
  `mappingKeyPath`, a field `keyOrder` beside it makes `key` the common prefix,
  the target of `keyPath` becomes `path`, no row is found, and the regenerated
  manifest names `keyPath` as the released label and passes `--check`. The script
  itself does so on such a declaration, and so does the model:
  `ReleasedSpellingKept` fails in `Policies.cfg` once `NewLabels` has
  `<<"key", "order">>`. The declarations that the two manifests list do not run
  into it: adopted in full, each listed target is its own target.
  `SharedTokenUnstable` in `MCPolicies` keeps the example. Labels whose targets
  coincide would lose their released label in the same way.
* `TYPE_EXPORT` does not recognise a qualified name (`Migration.PreparedMove(..)`)
  or a re-exported module (`module Migration`) as an export of the type, and
  `BoundarySound` speaks of unqualified names only.
* The mapping gates want `legacyReadersRetained` even where retirement is
  eligible.
* Without `--require-all` the replay check counts a result outside the
  inventory as matched and does not look at its verdict.
* The consumer's health check leaves the scratch database when the wait after
  a kill times out, or when it is interrupted between `createdb` and the `try`
  (`left` in `Consumer`); a partial line of the server blocks `readline` past
  the 45 s deadline.
* A comparison that found a competitor in its preflight writes, in a cell, an
  `execution.json` that is not contaminated (its exit code is null), and a
  competitor that comes and goes between two samples, five seconds apart, is not
  seen: `ComparisonSound` speaks of the samples. The benchmark is left running
  when it resists SIGINT and SIGTERM, or when the script is interrupted in
  `Popen` or in its clean-up (`orphan`). The local script records HEAD and the
  digest of the executable, not that one was built from the other.

Fairness. Worker loops run pass after pass and each statement returns, hence
weak fairness on each worker's steps. Deadlines pass. In `Workflow` steps that
wait for an advisory lock are fair in the strong sense, because PostgreSQL
queues the waiters. The inbox assumes strong fairness of redelivery, which is
what an at-least-once broker gives. Nobody is obliged to call a workflow
directly, to intervene, or to crash. A timer that is postponed for ever is
excluded by the property itself (`Postponed`).

Bounds: `MaxCrashes` and `MaxInterventions` cap how many failures a behaviour
has, `LastGen` the rotations; attempts are bounded by the program's own
ceilings. `MaxChanges` caps edits and changes of the environment together,
`MaxNow` the clock, `MaxAttempts` attempts at stages, `MaxBuilds` builds of
archives; the bounds of the policies say in how many fields the evidence
differs from valid evidence, or how often it is changed. CHECK_DEADLOCK is
switched off in `Policies.cfg` only: its programs are scripts that end. In every
other run some step is always possible.

## 5. What is proved

Every theorem follows from the named assumptions on the constants only
(`ConstantsOK`, `WorkspaceOK`, `GateOK`, `PublicationOK`, `ConsumerOK`,
`ComparisonOK`, `CandidatesOK`, ...; TLC evaluates each of them), and from the
premise its entry names where it has one, for any number of rows, messages,
consumers, workers, timers, sessions, boundaries, generations, terminals,
archives, declarations, reports and bounds. Each invariant below was checked by
TLC before it was proved.

### Outbox_proofs

* `TypeCorrect`, and `LocksHold`: a locked row stays as the lock found it and is
  locked once.
* `TerminalStaysFinal`: by `StatusStep`, which says how any step may change a
  status.
* `BudgetHolds`: `AttemptBudget`, strengthened by "an absent row has no
  attempts" (`BudgetInv`).
* `DeliveryInOrder`: `Serialized` implies `InOrderDelivery`, which is not
  inductive: what allows a row to be published lies in the worker's snapshot.
  `DeliveryInv` adds: a candidate's predecessors were open in the snapshot or are
  settled (`SnapshotInv`); those of a claimed row are in the batch or settled
  (`ClaimInv`); a worker knows outcomes only from the transport (`OutcomeInv`) and
  in the phases it can (`PhaseInv`); producers leave no gap (`EnqueueInv`). The
  case that carries the argument is `ClaimCommit`: the post-filter turns "open in
  the snapshot" into "in my batch".
* `MarksRepeatAnswers`: `MarksAreAnswers` without that premise (`AnswerInv`).
* `DeadOfOwnFaults`: `DeadByOwnFaults`, from `FaultInv`: every attempt of a row is
  a failure of its own, but for the claim it is in. A row that a batch skips gets
  the attempt back in the mark, one that a dead worker leaves is charged.
* `RunsGapless`: `GaplessRuns` under `Serialized` and `Timely`. `RunInv` adds to
  `EnqueueInv` that what precedes a candidate was open in the snapshot or is
  terminal (`OpenInv`) and that the batch of a live worker is all that its claim
  put in `publishing` (`LiveInv`). The claim numbers keep the order of the rows,
  a requeue takes up whole claims, and the mark of a batch skips whatever follows
  a failure: so no step settles a row before one that precedes it in its run.
* `MarksSpareReclaimed`: `Timely` implies `LateMarkSparesReclaimed`, the property
  that `outbox_late_mark` refutes without it: a live worker holds the rows of its
  batch (`OwnerInv`). The finding is exactly that premise.

### Inbox_proofs

`Inductive` is `Spec => []IInv`, and the five properties and the refinement follow
from `IInv`, whose parts are: the control state of a consumer, its position and
what its transaction may have written (`Shape`, `TxShape`); a row has one
uncommitted writer, and consumers of exclusive messages hold different ones
(`Apart`); what a committed row says of the runs of its message (`Rows`); where
messages are `Owned`, a consumer is the only one that can settle what it has in
hand (`Claims`) and what it is about to answer is true (`Answers`). The last two
are what the findings break: without `Owned` the row a consumer has read may be
settled by another one before it writes.

* `RunsOnceAlways`, `CompletedRows`, `AckedSettled`, `Ceilings`: the properties
  `RunsOnce`, `CompletedHasRun`, `OwnersAckSettled`, `FailuresWithinCeiling`.
* `PromiseKept`: the refinement of `InboxPromise`. `Commit` is `Run` for every
  message that it runs, a condemned transaction and the failure that reaches the
  ceiling are `GiveUp`, `Acknowledge` is `Ack`, and every other step stutters.
  `verifyBatchCommitted` looks at the first processed message of the batch: the
  one lemma about data (`LeastNat`) is that there is a first.

### Timer_proofs

* `FiresBounded`: `fires[t] <= attempts[t]` and attempts never decrease
  (`FireInv`).
* `LeaseIsExclusive`: `LiveLeaseHolds` and `OwnedIsFiring` (a row with an owner
  is firing, stated for the proof and not a property of a run) together are
  inductive once a running session is known to hold a timer (`LeaseInv`).
* `SettledStaysFinal`: from the guards and `OwnedIsFiring`.

### Workflow_proofs

* `EndsOnceCorrect`: `EndsOnce`. It is not inductive: a rotation must find the next
  generation unmarked, and a completion or a rotation must not come from a run
  ahead of the journal. `Ends` adds that later generations have no marker, that the
  current one is never marked continued, and that the generation of every run is at
  most the current one. Most actions write no marker (`MarksStay`); three write the
  first one (`MarkEnds`); rotation and resurrection are argued on their own.
* `LateActions`: `OneLateAction`. A run that has started an action too late is
  stopped, and stays stopped until its next probe ends it (`LateInv`,
  `StoppedStays`): markers go, and a lease comes back to a worker, only by a
  resurrection or a claim, and both begin the count anew.
* `WakesKept`: `NoWakeLost`. `WakeInv` adds: what a run holds is recorded in its
  generation (`MapInv`); a generation is left when all its boundaries are recorded
  (`ClosedInv`); promises and signals belong to generations that have begun
  (`KnownInv`); a run that parks stands at an await that it has armed
  (`ArmedInv`). The heart is `ParkInv`: between the check and the commit of
  `markInstanceSuspendedAwaiting` the await is not resolved and nobody is about to
  record it (`NobodyWrites`), because whoever would be holds, or waits for, the same
  advisory lock.
* `SleepsKept`: `SleepHasTimer` holds of every behaviour without a resurrection:
  the finding `workflow_sleep_lost` needs one. A timer leaves the queue only when
  its sleep is recorded or its generation has ended (`TimerInv`).

### Release_proofs and Publication_proofs

* `GateTypeCorrect`: `GateTypeOK`, with `Phased`: only the terminal that holds
  the lock is in a command, and a running stage is the last attempt, which has
  no status yet (`GateBase`).
* `GuardsOnlyAfterCorrectness`: `GuardsAfterCorrectness` speaks of the past of
  an attempt, so it needs to know the present of the gate that makes the next
  one: what it has recorded for the correctness stage is the last attempt at it
  for its inputs (`Corrected`). That rests on `Refer` (what is recorded for a
  stage is an attempt at that stage for those inputs), on the lock (nobody
  else appends), and on attempts keeping what they have (`AttemptsStay`,
  `PrecededStays`).
* `AcceptedStagesPassed`: `LatestPassed`, from `Refer` and from the lock: while a
  manifest is accepted or excepted no attempt is made.
* `StagesSawTheirSource`: `RanOnItsSource`, strengthened by `Seen`: while a
  command runs, either its source is no longer the candidate's or it has seen
  nothing else. Edits only produce new bytes, and putting old ones back is what
  `restored` remembers.
* `ReadyOnOneCandidate`: `ReadyIsOneCandidate`, strengthened through the phases of
  the build (`OneCandidate`): what a build has written is of its candidate or
  the tree has moved on.
* `UploadsAreAudited`: from `~Racing`; the archive about to be sent is the one
  whose digest was compared (`Audited`).
* `PublishesOnce`: the ledger is written before the first upload and never
  reset, and the position of the upload only grows (`SentInOrder`).
* `PubTypeCorrect`: the types of `Publication` with its control state (`Control`:
  what a command has written by the phase it is in), which they need: a build
  numbers what it writes.
* `ReadyTestedAlways`: `ReadyIsTested`. A build writes each of its source archives
  once (`WritesOnce`), so an archive that the consumer has read and that is not
  there any more is gone for good, and the digests that release-ready compares can
  only be of the bytes that were tested (`Testing`). A build that was killed may
  still write (`StrayWrite`): then its files are of its own number.
* `ReleaseTypeCorrect`: `ReleaseTypeOK` of `MCRelease`, of both parts side by side.

`PublicationOK` now says that "no file" is not a content; nothing else is assumed.

### Measurement_proofs and Checks_proofs

* `ConsumerIsSound`: `ConsumerInv` says at each step of the script what server and
  database may be there, and that from the build on the plan was found good.
* `ComparisonIsSound`: what has been measured was measured before the host was
  seen busy (`Measured`), and a report that meets every test of the summary is the
  flawless one (`FlawsShow`).
* `MappingIsSound`, `ReplayIsSound`: a verdict is about the evidence that is there
  (a change withdraws it); the rest is what the absence of every error of the
  script means, in a lemma for each part of the script (`RepositoryShows`,
  `AdoptionShows`, `CaseShows`, `InventoryShows`, ...). That no key repeats is what
  makes the first item with a key the only one (`UniqueIsFirst`).
* `PreflightIsSound`: for every plan in which the units depend on units of the plan
  (`CandidatesOK`; the script looks them up there), any pool and any failures. The
  walk has seen, or has on its list, whatever it must visit (`Walked`), a lookup
  succeeds only if the registry says so and only a failure cancels one (`Asked`);
  when the list is empty, what was seen is closed, so it has every reachable unit.
* `BoundaryIsSound`: for every package tree whose export lists are of the form that
  compiles (`SourcesCompile`: a type with a list of members is an export of its own;
  the release compiles the sources in another stage, and the check alone does not
  see `f PreparedMove (..)`, which no compiler accepts). The heart is what
  `split_top_level_exports` has made of any prefix of the list (`ReadTo`): its depth
  is the number of parentheses still open, and its items are the runs of words
  between the commas read at depth 0. There is no shortest prefix of which it fails
  (`LeastPrefix`), as one step of `ReadToken` keeps it (`ReadKeeps`); then a type with
  a list after it is an item of its own (`OpenIsListed`), which the contracts do not
  allow.
* `ReleasedSpellings`: for any declarations, tables, spellings, edits and
  regenerations, where names are stable (`NamesStable`): labels can be led back to
  the one they were made from such that, whatever fields a declaration has, a target
  leads back to where its label does, and an adopted label is its own target. The
  code does not guarantee that for all labels, see `SharedTokenUnstable` in section 4;
  without it the property is false. The invariant (`RecordsKept`) relates the tree
  to the manifests that the next regeneration reads: every row leads from its target
  back to its origin (`RowsKept`), and a field either has the label it was made from
  or one that its manifest lists (`FieldKept`). So the last row found for a target
  has the right label, and when none is found the field's own label is right
  (`RowShows`); what is written then keeps the invariant (`RowsShow`), and a check
  that finds the documents current has computed the very rows that are there.

### Only model-checked

* Liveness (`EverySettled`, `EveryEnds`), and whatever needs ENABLED.
* The four properties of the violation runs, where their premises do not hold
  (`LateMarkSparesReclaimed` and `SleepHasTimer` are theorems under the premise
  that the finding lacks).
* That the instances of `MCPolicies` meet the hypotheses `SourcesCompile` and
  `NamesStable` of two theorems: TLC evaluates that on every run of the module
  (`SomeWellFormed`, `SomeNamesStable`).

The modules declare no RECURSIVE operator.

## 6. Running it

    tlc -workers 2 -config Timer_resume.cfg MCTimer.tla
    tlc -workers 2 -config Release.cfg MCRelease.tla
    tlapm Release_proofs.tla
    tlapm Publication_proofs.tla

`PROJECT.json` names the module and configuration of each run, maps every
definition to its source lines, and lists mutants, findings and hazards.
