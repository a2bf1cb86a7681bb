# Replay Lab V7: specifications, model checks and proofs

TLA+ modules for the current workstation of this repository, Replay Lab V7
(`v7/`): an offline market-replay application made of JavaScript runtimes that
run in one browser tab, and Python services on the loopback interface. `v4/` to
`v6/` are its frozen predecessors and are not modelled.

The heart of V7 is one question: *when the user moves the replay clock, do the
chart, the clock, the workspace, the screen and the saved checkpoint move
together, or not at all?* The first group of modules is about that. The others
are about the four places where V7 keeps something that outlives a transaction:
the Sessions in Web Storage, the snapshots that devices share through the state
service, the bars that panes hold, and the market database of a deployment.
Paths below are relative to `v7/src/` unless they say otherwise.

## 1. Inventory

### The parts, their state, and how they interact

| component | state it keeps | operations | talks to |
|---|---|---|---|
| workspace-transaction-runtime | current identity, accepted snapshot and revision, poison and disposal flags, active records | `execute`, `dispose`, `getSnapshot` | calls every port below, awaits them |
| prepared-commit contract | status of one participant's commit | `apply`, `finalize`, `rollback` | one per participant |
| replay-runtime | cursor, playback, revision, issued proposals | `proposeVisible`, `prepareVisible`, `reject`, `play`, `pause`, `setTiming` | participant |
| workspace-state-runtime | panes, focus, viewports, session hours, revision, current identity | `begin`, `prepare`, `prepareAcceptance`, `reject`, local commits | participant |
| chart-snapshot-application, lightweight-chart-adapter | accepted Chart snapshot and revision; series, applied data, mutation token, paint queue | `prepare`, `apply` (two animation frames), `rollback`, `finalize` | participant |
| replay-workspace-composition: publication and checkpoint persistence | accepted publication, rendered view, persisted key, pending reversible write | `stage`, `apply`, `rollback`, `finalize`, `save` | participant; session-persistence |
| replay-workspace-composition: execution | one pending command, waiters for idle | `run`, `waitForIdle`, `dispose` | transaction runtime |
| replay-workspace-composition: autoplay-scheduler | active flag, generation, timer, ticking flag | `play`, `pause`, `setCadenceMs`, `dispose` | execution, replay-runtime |
| transport commands and button | queue of Next clicks, last playback shown | Play, Pause, Next, navigation | autoplay, execution |
| replay-navigation | none (schedules and targets are computed) | navigation executor | replay-runtime, execution |
| session-persistence, session-store | the index and one enveloped record per Session in Web Storage; a pending reversible write | insert, remove, swap, reversible write, finalize, roll back | publication; other tabs |
| server-state-sync, `v7/server/state_store.py` | one row per user; per device the entries, sync metadata and backups in storage and the status of the page | initialize, push, retry, resolve a conflict | other devices, over HTTP |
| bar-data-runtime, raw-coverage-* | calls in flight, queue, exact-window cache, accepted and staged coverage per pane, leases | acquire, commit, release, dispose | provider-execution; panes of a transaction |
| provider-execution-runtime | attempts with deadlines | run, retry, fall back | network |
| workstation-settings | durable settings, staged preview | preview, save, roll back over consumers | chart adapters |
| module-host | start order | start, stop | every module |
| workspace replacement, pane-set materialization | replacement in progress | replace, materialize | bar data, transaction runtime |
| viewport, projection, calendar and timeframe domains | none: pure functions | projection, coverage, schedules | called by the runtimes |
| `v7/server` import store and market data services | jobs, candidate and active database files, activation lock | upload, prepare, activate, discard | HTTP requests, DuckDB |
| user interface modules | DOM | events | the runtimes |
| `v7/deploy` | installed files | install, rollback | system services |

### One transaction, from a click to a terminal

`executeWorkspaceTransaction` (`workspace-transaction-runtime/transaction-executor.js`)
is one async function. It *prepares*: proposes a cursor from Replay, acquires
pane data, projects it, stages the chart, and then prepares Replay, Workspace
State and publication in one turn. It *applies*: mutates the chart's series and
waits for it to be painted (two animation frames, at most two seconds), then
applies the other three owners synchronously. It *decides* by publishing the
accepted snapshot, after which every owner finalizes and nothing is taken back.
Anything that goes wrong before the decision is *rolled back* in reverse order;
a rollback that fails poisons the activation. A newer intent, poison or disposal
makes an older transaction stop at its next check.

### What is hard here

- Everything between two awaits is atomic, and everything else interleaves: a
  second transaction, the user's viewport gestures, Play and Pause, disposal.
- Values captured before an await (playback, pane workspace, revision of the
  adapter, persisted key) are used after it.
- Four owners are unwound by hand, and each of them may throw.
- One slot, one timer and one queue decide who may run; continuations of the
  command that frees the slot compete with those that wait for it.
- Cancellation is by identity, token or generation, in five places.

`PROJECT.json` lists each hazard at its line under `hazards`, with the property
that catches it going wrong, or the module of the plan that is to cover it.

### What makes each component correct

- *transaction runtime*: an intent commits in one step or changes nothing; only
  the newest commits; each one gets a terminal; no owner is left reversible.
- *owners*: clock, workspace, screen, checkpoint and chart agree with the
  accepted snapshot whenever nothing is in between; a user's edit, pause or play
  is not undone by a transaction.
- *persistence*: the key that suppresses saves is the key of what is durable.
- *autoplay*: one cadence, never lost and never outliving the user's last word;
  no Next click is dropped.
- *session persistence*: the list of Sessions always loads; a save that was
  acknowledged is neither lost nor taken back by another tab's rollback; a
  deleted Session stays deleted; two tabs never hold the same activation.
- *state sync*: nobody replaces a snapshot they have not seen, no copy is dropped
  without a backup, nothing is stored twice, and "synced" means saved.
- *bar data*: what a pane has accepted is one unbroken run of windows, nobody
  waits for a call that is not under way, leases are returned.
- *database import*: one import at a time, only a validated candidate is linked,
  never over another database, and a crash between any two steps is understood by
  the restart.

## 2. Plan

| step | modules | abstract specification | runs | theorems |
|---|---|---|---|---|
| 1 | `Transactions`, `TransactionCoordinator`, `ReplayRuntime`, `WorkspaceState`, `ChartPaneSet`, `WorkspacePublication`, composed by `WorkspaceTransaction` | `AtomicWorkspace` | overlap, single_flight, lost_pause, lost_edit | types, reversibility, counting, refinement; all safety properties of the four owners |
| 2 | `Autoplay` (scheduler, execution slot, navigation, Next queue, button) | - | autoplay, ignored_play | types, cadence, last word, Next queue |
| 3 | `SessionRepository`: the records of a browser and the tabs that write them | - | session_repository | all its properties |
| 4 | `StateSync`: the clients of several devices and the row of the state service | `SharedHistory` | state_sync, silent_replacement, stuck_syncing | all its properties |
| 5 | `RawCoverage` (operators) and `BarData` with the acquisitions of a transaction's panes | - | bar_data | all its properties |
| 6 | `DatabaseImport` | - | database_import | all its properties |

These steps are done, and every safety property that a passing run checks is
proved. What could follow, in this order: a change of the signed-in user in
`StateSync`; the settings runtime and the module host, each of them sequential;
the operators of projection, calendars and schedules over bounded inputs.

## 3. Modules and the code they stand for

| module | code | correspondence |
|---|---|---|
| `Transactions` | identities of `workspace-transaction-contract` | a transaction is a model value; a workspace value is the transaction it came from and the number of viewport edits in it |
| `AtomicWorkspace` | (abstract) | what callers of the runtime rely on |
| `TransactionCoordinator` | `runtime-state.js`, `transaction-executor.js` | `pc[t]` is the await the executor is suspended at; one action is the code from one await to the next; owners appear by their contract status only |
| `ReplayRuntime` | `replay-runtime/replay-runtime.js` | the cursor is named by the transaction that moved it |
| `WorkspaceState` | `workspace-state-runtime.js` | panes, focus and hours are one value |
| `ChartPaneSet` | `chart-snapshot-application`, `pane-set-adapter.js`, `lightweight-chart-adapter.js`, `paint-gate.js` | one pane; `paints` is the order in which animation frames prove paints |
| `WorkspacePublication` | `workspace-publication-port.js`, `workspace-publication-assembly.js`, `workspace-checkpoint-persistence.js`, reversible write of the Session repository | a checkpoint is the value it serializes, so is its key |
| `WorkspaceTransaction` | the above wired by `replay-workspace-composition` | every action is an action of the coordinator conjoined with what the owners do in that turn |
| `MCWorkspaceTransaction` | - | model values and symmetry |
| `Autoplay` | `autoplay-scheduler.js`, `workspace-execution.js`, `navigation-executor.js`, `workspace-replay-commands.js`, the button of `replay-transport.js` | a transaction is what its caller sees: pending, prepared, committed or failed |
| `SessionRepository` | `session-repository.js`, `reversible-session-write.js`, `session-store.js`, `session-browser.js` | a record is its revision, activation generation and writer, so that no two tabs write the same bytes; one synchronous operation of a tab is one step, which may fail or end with its tab between two storage writes |
| `SharedHistory` | (abstract) | the snapshots form one line, and only a device that has seen the last may replace it |
| `StateSync` | `state-sync-client.js` per device, `v7/server/state_store.py` and its API | `flow[d]` holds the two flows of a page, its chain of pushes and the command; an action is the code from one await (digest, request) to the next; `late` are requests whose client gave up and which the server may still accept |
| `RawCoverage` | `raw-coverage-store.js`, the walks of leases and projections | operators on sequences of windows; a batch is its window |
| `BarData` | `bar-data-runtime.js`, `exact-window-cache.js`, `coverage-lease-runtime.js`, `raw-coverage-store.js`, `pane-data-composition.js`, `materialization-ports.js` | `acq[t][p]` is how far transaction `t` has come in acquiring for pane `p`; `active` and `queue` are the provider calls the panes share |
| `DatabaseImport` | `v7/server/database_import_store.py`, `database_import_api.py` | `holder` is the request that holds the store's lock and its next step; files (`manifest`, `source`, `candidate`, `target`, `locked`) survive a crash, `job` and the threads do not |
| `MCSessionRepository`, `MCStateSync`, `MCBarData`, `MCDatabaseImport` | - | model values and symmetry |
| the eight modules named `...Proofs` | - | theorems, one module per component, two for the composition |

`PROJECT.json` maps each definition to its lines. Definitions whose comment
begins with "Mutant:" are deliberate errors (a dropped guard, a missing reset);
no specification uses them, and putting one in the place of the definition it
mimics makes the named property fail, which shows the property has teeth.

### The event loop

JavaScript runs one continuation at a time, and continuations of settled
promises run before timers, network responses, animation frames and input
events. `Ready`/`Idle` (transactions) and `HeadReady`/`Idle` (autoplay) say so.
What a transaction does between two awaits is one action, but two of its
continuations are two actions, because another continuation (a queued command
that begins a transaction, or a disposal) may run between them. The state
between the last synchronous apply and the decision is therefore visible to
another intent.

Devices, tabs and requests to the Python services have no common event loop: in
`StateSync` only the flows of one page give way to its own queued continuation
(`Microtask`), in `DatabaseImport` every thread interleaves with every other
between two steps, under the store's lock where the code takes it.

Paints are first-in-first-out because each waits for two animation frames of
the same window. A candidate is derived when its intent is submitted.

### Abstractions

- Transactions are given distinct snapshots, so a cursor, a series or a
  checkpoint of one is never mistaken for that of another.
- `signal.aborted` of an active record is `~IsCurrent`: the runtime aborts
  exactly the records that stop being current.
- The poison code is one flag. The branch for a missing decision cannot be
  reached.
- In the chart, the commit of the writer, the surface, the receipt and the
  contract are one step, since they happen in one turn. A restore whose paint
  cannot be proved is one step, whatever nested rollbacks repeat it.
- Pane data is external: rejecting it does not throw, and finalizing it may (the
  fault "finalize").
- Locally committed focus changes have the shape of a viewport edit and need an
  idle workspace; they are left to it. Panes, layout, layout synchronisation,
  receipts and identity checks against foreign objects are not modelled.
- Revisions stay below `Number.MAX_SAFE_INTEGER`.
- `SessionRepository`: migrations and the validation of stored bytes are left
  out; a record that is present can be read. A synchronous operation of one tab
  is one step, as if the storage were locked for it.
- `StateSync`: the replicated entries of a device are one content, and a user
  writes contents nobody has written before. `history` is the sequence of
  snapshots the row has held, so a revision is its length. Timeouts of five
  seconds are faults that may come at any moment; what a client gave up may
  still be served, once, later, or never.
- `BarData`: a batch of bars is the window it was asked for, and a window is
  answered with the same bars whoever asks, since the dataset revision is part of
  its source. A provider call gives one answer or one failure.
- `DatabaseImport`: a file is absent, partial or complete; what
  `validate_database()` looks at is whether the upload is in `Valid`. The crash is
  the process's, not the machine's: what was written stays written (the code
  does not `fsync` the candidate).
- In `Autoplay` time has no length: a set timer may fire at any moment. It begins
  with an entered workspace and leaves out poison, the re-publication after
  `setReplayStep`, and the history requests that pane-time-location chains.

## 4. Runs

`Overlap.cfg` (**overlap**, 1,411,878 states up to symmetry). Three intents
executed on the runtime directly, so each may supersede the others at any await;
every port, paint, restoring paint, view, write and finalizer may fail; the user
edits a viewport once; the composition may be disposed at any moment. Checks types;
`NoOwnerLeftReversible`; `PaintedIsShown` (the candles of the newest intent stay in
the series from its proved paint on, although the rollback of a superseded paint
may run later); `SemanticOwnersAgree` (clock, workspace, screen, publication and
durable checkpoint stand at the accepted snapshot, and the checkpoint has the
user's edit, unless a transaction is between apply and decision, or poisoned);
`PersistedKeyIsDurable`; and that the whole implements `AtomicWorkspace`. The edit
changes the key under a transaction that is preparing, so that a rollback meets a
key it did not capture: the restore is then refused, and only the poison it leaves
excuses the durable checkpoint.

`SingleFlight.cfg` (**single_flight**, 265,820 states). What the product's
composition allows: `workspace-execution.js:64-79` lets one command be pending
at a time. The user meanwhile edits viewports (which the code does not guard by
the pending command), plays, pauses and leaves; one of the two intents reaches
the end of the range. Checks that the chart is back at the accepted snapshot
whenever nothing is in flight (`ChartAgreesAtRest`), that edits and commits
account for every semantic revision (`RevisionsAccountForEdits`) and that every
intent settles (`EveryIntentSettles`). The first fails when intents overlap, so
this run also shows what the single slot is for.

`Autoplay.cfg` (**autoplay**, 19,731 states). A range of three bars and six
clicks or requests. `OneCadence`, `ActiveCadenceHasNextTick`,
`StepsOnlyAfterPlay`, `NextIsNeverDropped`, `NextsAreTaken`, `AutoplayEnds`.

`SessionRepository.cfg` (**session_repository**, 21,137 states up to symmetry).
Three tabs create, open, save, save reversibly, take back, leave and delete two
Sessions; writes fail and tabs end between two writes. `IndexedSessionsLoad`,
`AckedWritesStay` (a rollback restores bytes only over its own),
`DeletedStaysDeleted`, `GenerationsDistinct`.

`StateSync.cfg` (**state_sync**, 263,139 states up to symmetry). Two devices,
each with pushes and commands in any interleaving; requests and answers are
lost, late or timed out, storage fails inside a hydration, pages reload.
`NoBlindReplacement` says that clients and service implement `SharedHistory`;
`MetadataIsTrue`, `SyncedMeansSaved`, `ServerCopyKept`, `DeviceCopyKept` and
`StoredOnce` say what a device may rely on. `SyncedMeansSaved`, `ServerCopyKept`
and `StoredOnce` exempt a device whose push and command have run at the same time,
or whose user has edited during a command (`trace[d].overlapped`): the code does not
serialize the two, and the windows this leaves open are listed below.
`DeviceCopyKept` exempts one thing only, the edit made after a command captured the
device, which its hydration does overwrite. A hydration that fails puts back the
entries and the metadata captured before its digest.

`BarData.cfg` (**bar_data**, 1,379,147 states up to symmetry). A transaction
acquires windows for two panes and another supersedes it at any await.
`AcceptedIsContiguous`, `CoveredMeansHeld` (the walk of `covers()` agrees with the
bars held), `WaitersHaveACall`, `LeasesAreReturned`, `CommitBuildsOnAccepted` (a
commit never takes newer coverage back), `NothingAfterDisposal` (no late answer,
acquisition or rejection brings bars back). A call that has answered keeps its
provider slot until its `finally` clause runs (`closing`), and its answer is in the
cache before that. `LeasesAreReturned` does not count the leases of acquisitions
their transaction's rejection did not reach (`outlived`, see below); those stay
until the disposal, which drops them.

`DatabaseImport.cfg` (**database_import**, 1,516,417 states). Three uploads, one
of which the validation rejects; requests that wait for the lock after their
unlocked check, the worker beside them, failing writes, a crash between any two
steps, a restart that may crash again, and a target that others create or remove.
The lock and the manifest of a discard may fail before the file is there or in the
`fsync` of the directory after it, and a file that must go may not be removable,
which ends the request, or the worker with its job left preparing.
`OneActiveImport`, `ActiveIsValidated`, `ActivationIsFinal`,
`FinishedLeavesNothing`, `TargetIsNeverReplaced`.

Five runs show a disagreement between the code and what its documents say of it.
Each checks one property on a small instance in which it fails:

| run | property | what happens |
|---|---|---|
| lost_pause | `OnlyUserStartsPlayback` | a pause during the paint is undone by apply or rollback, which write back the playback captured earlier (`replay-runtime.js:212`) |
| lost_edit | `CommitsKeepViewportEdits` | a viewport edit between submission and preparation is overwritten by the commit (`workspace-state-runtime.js:282`) |
| ignored_play | `PlayPublishesPlaying` | Play, clicked while the timer of a cadence that navigation paused is still set, is ignored (`autoplay-scheduler.js:92`) |
| silent_replacement | `DivergenceIsDecided` | a push that digests while a reconcile reports a conflict uploads at the revision of the conflict and replaces the server's copy (`state-sync-client.js:303`) |
| stuck_syncing | `SyncingMeansBusy` | an upload that fails inside `reconcile()` leaves the page at "syncing", without a retry button, until the next edit (`state-sync-client.js:282`) |

After `lost_pause` the clock and the transport say "playing" while nothing
advances: `StepsOnlyAfterPlay` shows that the scheduler itself stays stopped
until the user plays again. None of the first three needs a failing port or
owner; `silent_replacement` needs an offline page that the user retries.

### Met while modelling, without a run of their own

Only when intents supersede each other on the transaction runtime directly, which
the product's single slot excludes:

- an intent begun between the last apply and the decision of another proposes
  from a reversible cursor (`transaction-executor.js:268`);
- the pane set's revision is put back although a newer stage advanced it
  (`pane-set-adapter.js:192`);
- a superseded intent cannot restore a checkpoint whose key changed under it, and
  the activation is poisoned (`workspace-checkpoint-persistence.js:101`).

In the product:

- *bar data*: when one pane's acquisition fails, the transaction is rejected while
  its siblings still wait; the lease a sibling then takes is not returned
  (`pane-data-composition.js:147`, against `v7/docs/V7_BAR_DATA_RUNTIME.md:56`).
- *bar data*: the shared revision promise is bound to its first caller's signal
  (`policy-bound-provider.js:134`); `foundation-market.js:219` keeps one dataset
  revision across awaits.
- *state sync*: an edit during the digest of a reconcile may be overwritten by its
  hydration; a read answered before and delivered after a push, and a conflict
  answered for a replacement of the device's own that arrived late, show the user
  a conflict with what the device wrote itself.
- *import*: an upload that passed its unlocked check before an activation stages a
  job behind the permanent lock, and can only be discarded; a manifest write
  that fails leaves a job at "preparing" without a worker until the restart; a
  manifest a restart cannot read is skipped, and a second job may become active
  beside it (`OneActiveImport` does not count such a manifest).

### Bounds, and why they are enough

- *Three intents* in `overlap`: one that is being rolled back, one that
  supersedes it and one that supersedes that. An intent reads nothing of another
  but the current identity, the accepted state and the state an applied one left,
  and a fourth would find one of the situations the third finds. The coordinator
  is proved for any number.
- *Two intents* in `single_flight`: the second starts in any state the first can
  leave behind, with `MaxEdits = 2` edits before, between or after their steps.
- *Three bars and six inputs* in `autoplay`: a cadence with a first, a middle and
  a last step, and enough clicks to start it, stop it, start it again and queue
  two Nexts. The safety properties are proved for any number of bars and clicks.

- *Three tabs, two Sessions, revisions up to four, two faults*: a writer, one that
  supersedes it and one that deletes; four revisions let a rollback meet its own
  bytes, a later write of the same tab and one of another.
- *Two devices, three contents, one fault*: each device starts with a content of
  its own or none, and one more edit is left. An instance with two faults
  (6.3 million states) was run once and has no error.
- *Two panes, two transactions, four windows* (three that adjoin and one of another
  source), *one call at a time, a cache of one, at most two windows accepted*: a
  window is asked for by both panes and both transactions, waits in the queue,
  is evicted, extends coverage on either side, and meets the limit.
- *Three uploads, three faults*: one active, one waiting for the lock, one
  finished; three faults are a failing write, a crash and a crash of the restart.

Deadlock is not checked: the system stops when every intent has its terminal
and the inputs are used up, or when it is disposed; in the other modules when
the bounds are reached.

### Fairness

`FairSpec` of `WorkspaceTransaction` is weak fairness of each executor: ports
settle (provider attempts have deadlines, a paint is given up after two
seconds), and the event loop runs continuations. `FairSpec` of `Autoplay` is weak
fairness of the pending transaction, which *ends* by `EveryIntentSettles`, of
continuations, and of a set timer. Users owe nothing: no input is fair.

The four later modules state no fairness and no liveness. `WaitersHaveACall` is
the safety content of "every acquisition is answered". Nothing in the state sync
must eventually happen: a page that is offline waits for its user. An import
waits for its operator at every step.

## 5. Proofs

All theorems are proved for arbitrary constants, with the assumptions the
modules name: `TransactionsAssumption` (intents are a finite set and `NoTx` is
not one of them), `EndTxAssumption`, `WorkspaceAssumption`, `AutoplayAssumption`,
`SessionAssumption`, `StateSyncAssumption`, `ImportAssumption` and
`BarDataAssumption` (bounds are naturals, sentinels differ from values),
`UnsetAssumption` (no transaction is called "unset", the missing key) and
`NoneIsNoFlow` (the absence of a flow is not one of the flows).

**The coordinator** (`TransactionCoordinatorProofs`), whatever its participants
do:

- `CoordinatorTypes`: type correctness.
- `NothingLeftReversible`: `NoOwnerLeftReversible` is not inductive, since it
  says nothing of an executor that is still running. `OwnersUnwound`
  strengthens it: before an intent is done nothing of it is finalized, and once
  its unwinding ran without failure only its chart may still be held.
- `RevisionCountsCommits`: needs in addition that a terminal is returned only by
  an executor that is done (`TerminalsReturned`), so a decision adds a new
  element to the committed set.
- `CoordinatorIsAtomic`: each action maps to `Submit`, `Commit`, `Abort`,
  `Close` or a stutter of `AtomicWorkspace`, with the phase of an intent read
  from where its executor stands and what it returned.

**The composition** (`WorkspaceTransactionProofs`): `CompositionCoordinates`
shows that every step of the four owners under the event loop is a step of the
coordinator or leaves it alone; the three properties above then carry over
(`CompositionLeavesNothingReversible`, `CompositionCountsCommits`,
`CompositionIsAtomic`).

**The four owners** (`WorkspaceOwnersProofs`). Clock, workspace, publication with
its checkpoint, and chart, under the event loop, any number of intents and any
faults:

- `CompositionTypes`: every variable of the composition keeps its type.
- `CompositionKeysDurable`: `PersistedKeyIsDurable` needs only that the pair a
  reversible write would put back is as consistent as the pair it wrote
  (`KeyInv`).
- `CompositionOwnersAgree`: `SemanticOwnersAgree` says nothing of a transaction
  between its first apply and its end, so a rollback could put back anything.
  `AgreementInv` says what it will put back: where the executor stands tells how
  far its owners are (`InOrder`), what it captured before waiting is the accepted
  state as long as nobody else has committed (`Captured`), at most one transaction
  holds the clock (`OneHot`), and while it does, each owner stands at its value or
  at the accepted one, with the accepted one kept for the way back (`Displaced`);
  otherwise all stand at the accepted one (`AtRest`). `FailsLate` says that a
  failed restoration, after which nothing is promised, is on record.
- `CompositionRevisionsAccount`: the same argument counting edits (`EditsInv`): the
  value a rollback puts back contains the edits made up to its revision.
  `CompositionOwnersAgree` needs this too, for the edits of the durable checkpoint
  (`DurableInv`): the value a transaction captured is the one it replaces because
  one revision has one value (`OneValuePerRevision`). It holds where saves do not
  fail; one that does leaves an older checkpoint durable.
- `CompositionShowsNewest`: `PaintedIsShown`, intents overlapping as they like.
  Only the current transaction takes a token, the series is that of the newest one,
  and once the current transaction took it every other stage that could still be
  put back has an older one (`ShownInv`), so its rollback mutates nothing.
- `CompositionChartAgrees`: the chart's mutation outlives several awaits, so this
  needs that one command at a time is pending, and has `SingleFlight` as its
  hypothesis: the property is false without it. `ChartInv` follows the one
  transaction in flight through staging, mutation, paint and restoring paint.

**Autoplay** (`AutoplayProofs`): `CadenceInv` joins `OneCadence` and
`ActiveCadenceHasNextTick` with what makes them inductive: a ticking step holds
the slot or has its answer waiting, a generation in use has been started, a free
slot is empty and a disposed scheduler is inactive. From it `CadenceIsSingle`,
`CadenceIsNeverLost`, `AutoplayTypes` and `NextClicksAreKept`; with `WordInv`,
which says that a cadence left active by a manual navigation finds the clock
paused, now and when the pending command settles, `AutoplayObeysLastWord`.

**Sessions** (`SessionRepositoryProofs`): `RecordsAlways`, an invariant that
adds to the properties that an open Session exists or is deleted
(`OpenIsKnown`), that a pending write is one revision above what it would
restore and not yet acknowledged (`PendingIsSound`), and that pending writes of
one Session lie on top of one another, never side by side (`PendingAreOrdered`):
at most one of them finds its own bytes and may put the prior ones back. From it
`RecordTypes`, `ListAlwaysLoads`, `DeletionIsFinal`, `AcknowledgedWritesStay`,
`ActivationsAreDistinct`.

**State sync** (`StateSyncProofs`): every revision a page, its flows, its
storage or a late request will send as expected has been shown to the device,
and every snapshot they hold is one the service accepted (`ShownExists`,
`FlowsAreGood`, `PagesAreGood`, `StoragesAreGood`, `LateAreGood`, together
`SyncAlways`). A page's step leaves the other devices' parts alone
(`LeftAlone`), and the history only grows, so what was good stays good. From it
`SyncTypes`, `MetadataStaysTrue`, and with `EveryStepIsShared` (each action is a
`Read`, a `Replace` or a stutter) the refinement `NobodyReplacesBlindly`.

A second layer, `ApartInv`, is about a device whose push and command have not run
at the same time. What such a device may rely on is spread over its storage, its
page, its flow and its history, and the properties name only the ends of it.
`DeviceIsApart` relates them: a command is alone in its page (`Alone`); a page that
says "synced" has stored the content its metadata names (`Saved`); the page and the
metadata name one revision, or the page knows a later one and a decision is still
to be made (`Versioned`); what a flow sends is what the device holds, unless
another push is queued behind it (`Captured`); each flow expects a revision the
device has held, or has been shown with the conflict that is being resolved, and a
flow that was refused was behind (`Expects`, `Opposed`, `Held`); what a command has
read is not older than what its device knows (`Newest`). `DevicesKept` and
`LateSettled` hold of every device and of requests still on their way. From
`ApartAlways`: `SyncedStaysSaved`, `ServerCopyIsKept`, `DeviceCopyIsKept` and
`SnapshotsStoredOnce`.

**Database import** (`DatabaseImportProofs`): `ImportsAlways` has two layers.
`ImportInv` is about one upload (what a stopped service has in memory, what job,
manifest, files and worker say of each other, which step the lock's holder has
reached). `PairInv` is about two (only one job is active in memory or would be
resumed from disk, a job is not forgotten by a restart, a second upload is not
admitted). From them `ImportTypes`, `OneImportAtATime`, `OnlyValidatedIsLinked`,
`ActivationLocks`, `NothingIsLeftBehind` and `TargetsStay`: every property the run
checks.

**Bar data** (`BarDataProofs`): `BarsAlways` joins what is true of the shared calls
(`GoodCalls`, `Full`: the queue is not empty only while all calls are in use), of
the waiters (`WaitersFly`), of the acquisitions of transactions that are over
(`AcquisitionsBelong`), and of a disposed runtime (`NothingAfterDisposal`,
`NobodyWaitsAfterDisposal`). From it `CallsAreShared`, `NobodyWaitsForNothing`,
`LeasesReturn`, `DisposalIsFinal`.

`CoverageAlways` adds what the windows are (`CoverageInv`). A transaction that may
still commit is the only one whose signal is not aborted (`LoneCurrent`), so the
coverage it staged on is the coverage it replaces (`StagedFresh`), which is
`CommitsBuildOnAccepted`. A history extension is projected together with the
window it adjoins only: that the windows behind it are contiguous too
(`AcceptedStaysContiguous`) follows from `StagedFresh` and from the invariant
itself. `BarDataTypes`, `CoverageIsWhatIsHeld` and `NavigationsAreProjected` are
about the two walks, `covers()` and `contiguousPrefix()`, over sequences of any
length. They are folds, and the folds are recursive functions on sets of
positions; `WalksExist` shows that such a function exists, and `CountingUp`, an
induction on the members of a set instead of on an operator, what its values are:
`CoverTrue` is the loop invariant of `covers()`, `PrefixData` that of
`contiguousPrefix()`. The proofs were also a check of the model: a `CASE` in
`StagedBatches` had overlapping arms and relied on the order in which TLC tries
them (now the code's chain of conditions).

**Only model-checked.** The liveness properties (`EveryIntentSettles`,
`NextsAreTaken`, `AutoplayEnds`) rest on fairness and `ENABLED`, which the proof
system does not handle. The properties of the five runs that show a disagreement
are false, and have no theorem. No module here has a recursive operator.

## 6. Not modelled

- *Sessions*: interleaving inside one synchronous operation (browsers that run
  tabs in several processes do not promise that storage is locked), migrations,
  validation of stored bytes. `WorkspacePublication` has of the repository the
  success, failure and conflict of a reversible write; the two modules are not
  composed.
- *State sync*: a change of the signed-in user, a second tab on the same storage,
  failing metadata writes outside a hydration, a page that ends inside
  `applyReplicatedEntries`, disposal.
- *Bar data*: projected history, transient reads, span limits, the time-location
  chain; the replacement executor that calls the ports.
- *Providers*: attempts, deadlines, retry delays and the revision cache. Each
  attempt settles once behind a flag of its own; to the bar data runtime a call
  is one answer or one failure.
- *Settings*: `save()` and `preview()` run in one turn over consumers that are
  external ports; nothing interleaves with them.
- *Module host*: one start and one stop in the order of a fixed plan; the status
  refuses a second caller.
- *Pure domains* (viewport, projection, calendars, timeframes, schedules and
  targets of navigation): arithmetic on bars and exchange calendars, data that
  the modules here abstract to model values.
- *Market data services*: reads of DuckDB without state of their own;
  `validate_database()` is an oracle.
- *User interface modules*: they build the DOM and forward events; the one control
  whose state matters, the Play button, is in `Autoplay`.
- `v7/deploy`: shell scripts that install services; not a state machine.
- `v4/` to `v6/`: predecessors. They, the interface and the tools are most of the
  repository's lines, so the definitions here stand for a small share of them:
  the share that decides what is kept, shown and lost.
