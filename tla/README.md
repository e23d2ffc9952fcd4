# Verification of quant-engine in TLA+

quant-engine is a Rust workspace for systematic crypto trading: batch jobs (`qe-cli`) search for
strategies and formulas and back-test them, a server (`qe-server`) runs those jobs and governs their
results, and an edge runtime (`qe-hedger`, `qe-edge`, `qe-risk`, `qe-venue`) carries targets to a
venue under risk controls. This directory models all three: TLC checks small instances, TLAPS proves
the central invariants of the run manager, governance, sign-in, link, feed, market and derived store,
hedger, desk, venue client, archive, back-test, train job and command processes for every value of the
constants. All paths below are relative to `src/`, crate paths to
`src/crates/`. `PROJECT.json` lists components, runs, mutants, the line map, hazards, findings and
theorems.

1. Inventory, 2. Modules, 3. Runs, 4. Proofs, 5. Findings, 6. Smaller disagreements, 7. What is left
out, 8. Plan.

## 1. Inventory

| Component | State it keeps | What is hard about it | Module |
|---|---|---|---|
| Run manager (`server/src/runs/manager.rs`, `store.rs`, `main.rs`) | `meta.json` and result files per run, `index.json`; in memory the handles, semaphores, `accepting` | supervisor, blocking drain worker, child, halt, shutdown and crash all touch one `meta.json`; `abort()` does not stop a blocking worker; the previous process' runs are classified from the disk | `RunManager` |
| Pool governance (`server/src/pools.rs`, `audit.rs`, `pool_seal.rs`, `formula-pool/src/lifecycle.rs`) | HMAC-chained audit log, governance cache per pool, `revocations.json`, record; in memory an evicting map of locks | four files changed by interleaved handlers; decisions on snapshots; eviction; disconnects, crashes, failing writes | `PoolGovernance` |
| Planner-adapter link, kill switch (`edge/src/transport.rs`, `edge.rs`, `risk/src/kill.rs`) | one pending revision, the last applied one, kept position and mark; atomic flag, reason | coalescing, re-send after a reconnect, trips in the middle of a pump | `EdgeLink` |
| Account feed, kill gate, reconciliation (`venue/src/userdata.rs`, `edge/src/kill_gate.rs`, `reconciliation.rs`) | listen key, connection, `flattened` latch, streak | a reconnect is three calls, each of which may fail while fills go on | `VenueFeed` |
| Hedger (`hedger/src/cutover.rs`, `evaluator.rs`, `bootstrap.rs`, `factor_join.rs`, `vintage_rollover.rs`) | session, expected bar, boot manifest | replay and live must be one computation; gaps, repeats, late funding; restarts | `Cutover`, `Genome` |
| Live inputs (`hedger/src/live_kline.rs`, `live_mark.rs`, `signal/src/reconstruct.rs`) | bar in progress, smoothed mark | repeats and reordering at the edge of a window | `Klines` |
| Breakers (`hedger/src/live_breakers.rs`, `risk/src/breaker.rs`, `calibration.rs`) | peaks, latches | latching and re-arming across resets, rollovers and restarts | `Breakers` |
| Netting, planning, limits, shadow gate (`hedger/src/live_netter.rs`, `pretrade.rs`, `risk/src/sizer.rs`, `limit.rs`, `edge/src/shadow.rs`) | positions, limits | several clamps at once; two readings of the equity; undefined quotients | `Sizing` |
| Venue REST and streams (`venue/src/rest.rs`, `ratelimit.rs`, `cache.rs`, `registry.rs`, `stream.rs`) | weight window, cool-down, cache, subscriptions | fixed windows, Retry-After, a wall clock set back; half-installed connections | `Venue` |
| Ingestion (`ingest/src/`) | vendor files with their digests, cursors | a crash between bytes and digest; page boundaries; alignment at the edges | `Series`, `Universe`, `MarketStore` |
| Market store (`storage/src/`) | LMDB tables, provenance, derived entries | a crash between transactions; key order; stale derived data | `MarketStore`, `DerivedCache` |
| Search (`wfo/src/`) | archives, credit, repository | minus infinity, displacement, ties | `MapElites` (refines `TopK`), `Variation`, `QualityGate` |
| Back-test (`wfo/src/backtest.rs`, `friction.rs`) | cash, position, trade log, ledger | flips, partial closes, a close that quantises to nothing | `Backtest` |
| Validation (`wfo/src/cv.rs`, `walkforward.rs`, `gate/`, `validation/src/`) | values | leakage and off-by-one at block edges; gates that must fail closed | `Splits`, `Screening` |
| Train job and vintages (`cli/src/jobs/train.rs`, `vintage/src/`) | vintage repository shared by processes | order of errors, evidence, torn files, overlapping holdouts | `TrainJob` |
| Command processes (`cli/src/main.rs`, `run-protocol/`) | run directory, stdout, exit code | failing writes, a reader that leaves, a kill | `Commands` |
| Requests and command lines (`server/src/runs/manager.rs`, `spawn.rs`, `cli/src/lib.rs`) | values | two hand-kept lists of flags in two crates | `Requests` |
| Sign-in and lists (`server/src/auth/`, `runs/api.rs`, `audit.rs`) | cookies, secret, role lists | cookies outlive restarts and role changes; lists grow while they are paged | `Session` |
| Formulas and features (`signal/src/indicator/`, `feature.rs`, `cli/src/jobs/features.rs`) | windows of a stream | resets, warm-up, lookback, canonical form, identity of a catalogue | `ExprTree`, `Catalogue` |
| Formula search (`wfo/src/gp/`, `cli/src/jobs/evolve.rs`, `formula-pool/src/lib.rs`) | archive, pool file | near-duplicates, trial count, a torn file | `Illuminate` |
| Ensemble and report (`ensemble/src/`, `cli/src/jobs/backtest.rs`, `metrics.rs`) | values | the capping loop; one account told in several tables | `Ensemble`, `ResultDoc` |
| Clock-skew guard, configuration layers, telemetry, web client | none, or a view | not concurrent, or formatting | not modelled |

How they interact. HTTP handlers validate a request (`Requests`) and hand it to the run manager, which
spawns `qe-cli` children (`Commands`); these run a job (`TrainJob`, `ResultDoc`, `Illuminate`,
`MarketStore`), talk back on stdout and leave result files. An evolve run's launch entry and its pool are
what governance decides on; a train job seals a vintage. The hedger replays the store's history into
a session of the vintage's genomes, goes live (`Cutover`), and the breakers (`Breakers`) rewrite what
it decides; netting, cap and limits (`Sizing`) turn that into an absolute target for the link
(`EdgeLink`), which plans an order against the kept position and sends it through the kill gate. Feed and
reconciliation (`VenueFeed`) observe the venue and trip the same switch.

## 2. The modules

Each module's heading says which files it translates and which abstraction of the data it makes; `map` in
`PROJECT.json` gives the lines of every definition. Definitions keep the source's names. A definition
introduced by "mutant" is a plausible bug in the definition after it; `PROJECT.json` pairs each with the
property it violates, and nothing in a specification refers to one.

### The server

`RunManager`. An action is the code between two await points, since a tokio task is only cancelled
there; what a `spawn_blocking` closure does is an action of its own and survives the cancellation of
the task that awaits it. The disk is `meta`, `index` and `files`; all other variables are lost by `Crash`
and `Exit`. A progress payload is one of five lines: what the control flow tells apart is a stage, a
gate verdict and a `done` with or without a sealed artefact.

| Actions | Code |
|---|---|
| `CreateBegin`, `CreateInit`, `CreateReadIndex`, `CreateWriteIndex`, `CreateIoError`, `CreateSpawn`, `CreateDropped` | `create`, `init_run`, the index update under `index_lock`, registration |
| `AcquirePool`, `PoolClosed`, `AcquireLane`, `Start`, `Spawn` | `run_task`: permits, then the child |
| `ReadEof` (both pipes at their end), `DeadlineFires`, `Conclude`, `Deregister` | `supervise`, `drain_child`, `supervise_flow` |
| `WorkerLine`, `WorkerFinish` | the drain worker with its throttled `write_meta` |
| `ChildLine`, `ChildResult`, `ChildDone`, `ChildCloses`, `ChildExit`, `OrphanResult` | the child, which may close its pipes and go on, and may outlive the server |
| `HaltTake`, `HaltMark`, `HaltNoHandle`, `HaltDropped` | `halt`, `mark_failed` |
| `Signal`, `ShutdownBegin`, `ShutdownDrained`, `ShutdownAbort`, `Exit` | `main` and `shutdown` |
| `Crash`, `Boot`, `Reconcile`, `ReconcileDone`, `Resume`, `Serve` | a hard kill, and the two boot passes |

`PoolGovernance` has one record of locals (`loc`) and one program counter per request. The handlers share
`Begin`, `Resolve`, `CloneLock`/`Acquire`/`ReadCache`/`WriteCache`/`Evict` and `AppendEntry`; a production
seal adds `Decide`, `Refuse` and `WriteRecord`, a revocation `ReadRevocations` and `WriteRevocations`.
`Launch`, `LogLaunch` and `RunStep` are what an evolve run contributes. A signature is what verification
makes of it: `valid`, `stale` (its ephemeral key is lost) or `foreign` (a line `append` did not write).
Addresses keep their spelling, because the separation of duties depends on `to_lowercase`.

`Requests` models the two ends of a command line apart: the server's validation and `CommandLine`, and
the parser `ParseArgs`. `Session` has a browser with several sign-ins in flight, a server that restarts
under another deployment, and a clock. Its second part has a reader that follows pages while runs are
created and change status. `Commands` is the child's process: configuration, job, files, lines and exit,
with a write that fails, a reader that leaves and a kill between any two steps. `RunManager` keeps its
own, coarser child, whose writes and lines come in any order a command can produce; it says at least one
line before it leaves its result, where an ingest says none, which changes nothing the supervisor
decides on.

### The live side

`EdgeLink` splits `pump` where it looks at the kill switch (`PumpTake`, `PumpGate`, `PumpSend`,
`PumpReport`); the other methods need `&mut self` and are single steps between pumps. `trip` is two
steps under the reason's mutex, taken by any thread at any time. Quantities are integers and
`TargetAssumption` asks that marks divide targets, so that the `Decimal` division is exact.

`VenueFeed` has a venue that fills, cuts, expires and reports on its own, a session whose `establish` is
three interruptible calls (`CreateKey`, `Connect`, `Snapshot`, `SeamFails`), the keeper (`Apply`), the
kill gate (`SubmitOrder`, `EnforceKill`) and the guard (`Check`). `seen` and `doubled` are history.
`EndsAgain` says how a dead connection behaves on a second poll (section 6).

`Cutover` composes `Genome` and `Breakers`: `ColdStart` replays the venue's history and seeds the
breakers, bars and funding prints (`CloseBar`, `FeedLiveBar`, `ObserveFunding`) come again, early and
late, `ObserveEquity` trips gates, `Rollover` replaces the vintage the next start runs, and `Stop` loses
all but the disk. The book `follow` stands for whoever acts on
the decisions. `Breakers` has the layer on its own too, with more ticks. `Klines` feeds base bars and
marks one at a time. `Sizing` has one desk (netting, cap, planning, pre-trade limits) and the shadow
run of the same revisions. `Venue` has a REST call as a sequence of steps (look in the cache, wait for the
limiter, send, answer, back off, next page) on a clock that may be set back while it sleeps, and the
registry's tier with its connection, subscription and pump. `MarketStore` has one action per LMDB
transaction of a real, a synthetic and a fused ingest. `Series`, `Universe` and the key encoding in `DerivedCache` are mostly pure;
their inputs arrive one at a time so that every prefix is checked. `DerivedCache` has the passes that write
derived entries and the eviction in two transactions.

### Research

`Splits`, `Screening`, `Variation`, `QualityGate`, `Ensemble`, `ResultDoc` and `Rationals` are algorithms as
operators, checked against what they must mean over enumerated inputs. `MapElites` is the driver's step
over the archive (select an operator, offer the child, credit), and refines the abstract `TopK` ("each cell
keeps the best fitnesses it was ever offered"). `Backtest` has one action per bar and, beside it, one per
event of the friction ledger: the two keep money independently in the code, and the model asks that
they agree. `TrainJob` has several jobs on one repository, each a sequence of steps a kill may cut. What a
statistic evaluates to is part of the request there. `ExprTree`, `Illuminate` and `Catalogue` compute
formulas, quantised series, fitness and features exactly, in rationals; where the code takes a square root the
model keeps the square.

### MC modules

`MCRunManager`, `MCPoolGovernance`, `MCEdgeLink` and `MCVenueFeed` name values for the constants.
`MCTrading`, `MCOffline` and `MCFormulas` put several modules into one state: the parts share no
variable, the variable `part` is chosen in the initial state and decides which part moves, and a
property of a part is guarded by it where evaluating it elsewhere would only cost time. A module
`XProofs` holds the lemmas and theorems about `X`. Three hold more: `HedgerProofs` is about `Breakers`,
`Cutover` and `Sizing`, `MarketStoreProofs` about `DerivedCache` too, and `OfflineProofs` about `MapElites`,
`Session`, `Commands`, `Backtest` and `TrainJob`.

## 3. The runs

| Run | Instance | Distinct states |
|---|---|---|
| `boot` | two flows, pool 2, flow lane 1; a crash, a graceful shutdown; children keep their pipes open | 1 990 000 |
| `hostile` | one flow; two halts, two crashes, a shutdown, disconnects, children that outlive the server | 335 000 |
| `live` | a flow and a backtest on one permit, no failures from outside | 64 000 |
| `flowGate` | as `live`, with a crash: violation of `SucceededFlowWasPromoted` | - |
| `link` | targets -2 and 2, marks 1 and 2; three sends, two mark changes, a disconnect, two trippers | 215 000 |
| `feed` | orders of 1, foreign trades of 1 and -1; three trades, a cut, a failed call, a report; streak of 2 | 527 000 |
| `prodRace` | one production pool in two settings (below) | 579 000 |
| `answered` | approve, reject, seal of a sandbox pool, seal of a misplaced one; disconnects | 9 600 |
| `lostRevocation` | approve and revoke of two pools: violation of `RevokeAnswered` | - |
| `trading` | 14 parts of `MCTrading` | 388 000 |
| `offline` | 17 parts of `MCOffline` | 721 000 |
| `formulas` | 7 parts of `MCFormulas` | 8 400 |

What the properties say. A conjunction's parts are defined beside it, each with its own comment.

* `boot`. `BooksExact`: no run is stranded once the server serves (`NoStrandedRun`), handles are neither
  leaked nor lost (`RegistryExact`), whatever executes is listed (`IndexComplete`), resumed and new
  flows share the lane (`FlowLaneBound`). `NeverSearchedTwice`, `TerminalIsFinal`.
* `hostile`. `SucceededHasResult`, `SoleWriter` (who may still write a meta), `SucceededIsFinal`.
* `live`. `RunsTerminate`: every indexed run reaches a terminal status, so long as no child that has closed its
  pipes goes on for ever. The ceiling takes care of a child that keeps them open for ever. What the comment
  at manager.rs:794 promises without that condition is `RunawayReleased`, which is refuted (section 5).
* `link`. `LinkSound`: the kept position is the venue's, the target is reached exactly, every revision
  is accounted for. `KillSound`: at most one order after the trip, first reason reported.
  `DownIsFinal`; `PendingTaken` (liveness).
* `feed`. `FeedSound`: nothing lost, exact unless a fill fell between connect and snapshot, debounce
  exact. `HaltedForGood`: from the trip on no planner's order is sent and one closing order in all, which closes the
  kept position and, on a drained stream, leaves the venue flat. `FeedRecovers` and `KillCloses` (liveness).
* `prodRace`. `DualSignoff`: two people other than the launcher signed. `GovernanceSound`: one holder of
  a pool's cache, an answered revocation in force and not undone by a seal. `OnlyLegalEdges`. The run is
  over and two approvals race with the seal and a revocation through a crash, an ephemeral key and a
  foreign line; or the run is being launched, and its launcher, spelling the address differently, and another
  approve.
* `answered`. `AllAnswered` (liveness).
* `trading`.
  `CutoverSound`: bars evaluated once and in order, replay and live one computation, the book out of a
  strategy behind a shut gate, rollovers a chain of verified vintages.
  `BreakersSound`: uncalibrated strategies stay gated, peaks remembered, a loss beyond the slow threshold
  gates.
  `GateLatched`: no equity and no bar opens a tripped gate.
  `DeskSound`: the net within the cap and on its side, what is sent within every limit under the capital it
  was checked with, no larger than planned and not turned round; the shadow gate honest.
  `VenueSound`: only final responses cached, at most two budgets in one window's length, Retry-After held
  on a clock set back, every missed event reported as a gap.
  `CallAnswered` (liveness): a call ends, a request heavier than the budget too.
  `StoreSound`: no bar without a segment, a successful ingest complete, no forming bar, a lineage on
  record only with its whole corpus.
  `InputsSound`: coarse bars exact under repetition, the mark within the marks seen; filling, missing slots,
  partitions, quality counts, verified files whole through torn writes, files of a universe and calendar
  exact; keys order and separate series; the live breaker trips where calibration counted.
  `DerivedSound`: derived data served only for its lineage.
* `offline`.
  `ResearchSound`: nothing leaks between train and test in folds, windows and paths; every bar tested once;
  holdout untouched; combinations, paths and percentiles exact; the overfitting count fails closed; the
  screen of indicators is the step-up procedure, is blind to the order of the catalogue and to the sign of a
  signal, and looks only at returns that follow a fold's bars; offspring valid and within the mask, credit
  finite and earned, the pool the best of the archive, simplification free, records earned in every window,
  robustness not satisfied by losers; what a request asks is what runs, pages miss nothing.
  `KeepsTheBest`: `MapElites` implements `TopK` under the mapping that forgets all but sorted fitnesses.
  `BacktestSound`: cash equals capital plus the ledger; one trade at a time, paid for.
  `JobSound`: a promotion was earned, an overlapping holdout is counted, a verdict is what is on disk.
  `CommandSound`: a command's done line is backed, its exit honest, its terminal line single.
  `AccessEarned`: access is earned on the lists in force.
* `formulas`.
  `FormulasHold`: streaming equals the windows' definition and depends on `max_lookback` samples, repair is
  inside every limit and idempotent, one hash is one indicator, the parser is exact.
  `CatalogueHolds`: features depend on their lookback alone, stay in range, identity independent of listing.
  `EvolveHolds`: elites in their cells and counted as trials, a listed pool holds the best, each stored text
  gives back its series. `BestKept`: no cell's best falls.
  `ResultHolds`: weights capped with the budget conserved, the member search never loses its best, the
  result document reconciles.

Bounds. Two runs are the least that compete for a permit or for `index.json`; one suffices where the
property is about one `meta.json`, which lets `hostile` afford two halts (one finds the handle taken), two
crashes (the second meets a resumed flow) and survivors. `prodRace` has exactly the two signatures a seal
needs, so that losing any one of them matters. In `link`, three sends are a first application, a pending
revision and a re-send; two mark changes make a re-sent target a real order; two trippers are a first and a
late reason. In `feed`, three trades are one before the cut, one lost with it and one between connect and
snapshot; the closing order is not counted. In `trading`: three bars are one replayed, one live and one
that skips; two starts are a boot and a restart after a trip; four ticks are a peak, a loss, a recovery and
a second loss around a reset; a budget of 2 with weights 1, 2 and 3 has calls that fit, fill and never fit;
a window of slots 0 to 4 with pages of 2 has a last page that is full and one that is short; two faults
are a crash in each of two jobs. In `offline`: series of up to 12 bars with up to 6 folds include lengths the
fold count does not divide and exclusions that reach both ends; an archive of two places per cell is
full, displaced and tied within four steps; three jobs share two holdout bars, one bar or none. In
`formulas`: trees reach beyond every limit of depth, nodes and lookback; streams of four samples fill the
windows and go on after a reset. In `boot` no child closes its pipes before it exits (`PipesClose`), which would
triple its states; `hostile`, `live` and `flowGate` let it, and the theorems hold for both.

Deadlock is checked for `link` and `feed`. The others switch it off because their system may stop: all
requests have been answered, all runs have ended, or the bounds on inputs are used up. Symmetry is used
only in `boot`, whose two flows are interchangeable.

### Fairness

* `RunManager`: weak fairness for steps of tasks and blocking workers (the runtime polls every ready
  task) and for the wall-clock ceiling; strong fairness for the two semaphores and the index lock, which
  tokio hands over first-in first-out. Nothing is assumed of children, clients, operators, signals or
  crashes. `RunsTerminate` rests on the ceiling, and where the ceiling does not reach (a child that has closed its
  pipes) it says so in its premise.
* `PoolGovernance`: weak fairness for a request that has begun, strong fairness for the pool mutex.
* `EdgeLink`: weak fairness for `Pump` (the adapter ticks), `Reconnect` and the second half of `trip`.
* `VenueFeed`: weak fairness for pumping, for the calls of a reconnect (a caller that retries, with
  finitely many failures) and for `EnforceKill`. Nothing is assumed of the venue.
* `MCTrading`: weak fairness for a REST call that has begun (`RestPart`): sleeping, sending and the
  answer. The HTTP client has a timeout of 30 s (venue/src/rest.rs:271), so that an answer or an error
  always comes. Nothing is assumed of callers or of the other parts.

## 4. The proofs

Eight modules `<Component>Proofs` prove what follows for every value of the constants, from the
`ASSUME`s of the modelled component. These say no more than what the code's types and callers give: a set
of inputs has the type of its inputs, limits are naturals, a page or a window is not empty, a "none" value
is no member of the set it stands outside of. Three of them limit the model: `TargetAssumption` (marks divide
targets, the `Decimal` division is exact), the cadences of `VenueAssumption` (the venue publishes
once per unit of cadence) and `SizingAssumption` (no cap on a notional is negative, section 6). Where a theorem needs more than the `ASSUME`s, its statement says so.

An invariant that a run checks is seldom inductive. Each module therefore strengthens it with the facts a
program counter stands for ("whoever is here has already ..."); below, that strengthening is named and why
it is needed. A proof then has one lemma per action or group of actions, and a theorem that joins them.

`RunManagerProofs`.

| Theorem | States | Invariant |
|---|---|---|
| `TypeCorrect` | `TypeOK` | itself |
| `SoleWriterHolds`, `HonestSuccess`, `SuccessIsFinal` | `SoleWriter`, `SucceededHasResult`, `SucceededIsFinal` | `Safe` |
| `RegistryHolds`, `SearchedOnce` | `RegistryExact`, `NeverSearchedTwice` | `Booked` |
| `LaneHolds` | `FlowLaneBound` | `LaneHeld` |
| `OutcomeIsFinal` | `TerminalIsFinal` | `Settled` |
| `BooksHold` | `BooksExact`, while no run was halted, without disconnects and surviving children | `Tended`, which contains `Listed` and `Booked` |

"A success is complete" is not inductive: a drain worker abandoned by a halt may still write its copy,
and a supervisor that has not decided may still write anything. `SoleWriter` states who can still write,
and `Safe` adds it. `Booked` ties a supervisor's program counter to its handle, child and phase. `LaneHeld`
counts permits through the set of their holders. `Settled` says that until a halt or a signal no worker
outlives its supervisor. `Listed` follows a create request through the index update and `Tended` says who
looks after a run whose status is not terminal. The three hypotheses of `BooksHold` are the three ways section 6
lists in which the code loses a run or leaves its status behind; the run `boot` checks under the same ones.

`PoolGovernanceProofs`. `TypeCorrect` rests on `Fit` (a request's snapshot of the log is a prefix of it).
`SealsAreSigned` states `DualSignoff` with disconnects, crashes and foreign lines; its invariant
`Signed` records what a production seal has established at each await point, and that evidence entries, which
later snapshots count as an approval, exist for signed pools only. Without disconnects, `RecordsExclusive`,
`LifecycleFollowed` (`OnlyLegalEdges`) and `RevocationsHold` follow from `Guarded`, that is `Locked` (whoever
waits for a lock or holds it has a clone of the one in the map, which is therefore not evicted) and
`Revoking` (a pool enters the set of revocations, or a request's copy of it, only when its record is beyond a
seal). `GovernanceHolds` states the whole of `GovernanceSound` and asks in addition that only one pool is ever
revoked (`OneRevoked`): with two, the finding `lostRevocation` refutes it.

`EdgeLinkProofs`. `Inv` joins the invariants of the run with `Planned` (kept position plus intent is the
target at this mark), `Switched` (an order is late only with the switch tripped, none follows a `Down`
heartbeat past the gate) and `Latched` (the reason is the first thread's). `LinkHolds`, `KillHolds` and
`DownFinal` state all the run `link` checks except liveness.

`VenueFeedProofs`. `FeedHolds` states `FeedSound` and `HaltHolds` states `HaltedForGood`: that the closing order leaves
the venue flat on a drained stream rests on the whole invariant of the feed. "Nothing is lost once the queue is
read" says nothing before it is read: `Complete` and `Truthful` say of every open connection, and of the one
being opened, that its queue makes up for each trade the keeper has not seen and ends at
the venue's position. `Counted` gives the streak its meaning as the end of the row of checks.

`MarketStoreProofs`. `StoreHolds` states `StoreSound` with `StoreInv`: what a job holds in
memory at each transaction is whole up to its cursor (`Fetching`, `BarsWhole`, `FundingWhole`), and a fused
corpus is stored up to the job's own place in the order of its transactions (`Fusing`). `DerivedHolds` states
`DerivedSound` with `DerivedKept`: each stored entry and each tier lies within the cover of the lineage it
names, a pass only has bars of its lineage left, and what an eviction has still to delete is of another
lineage unless somebody wrote it since.

`HedgerProofs`. `BreakersHold` states `BreakersSound` of the layer alone, `CutoverHolds` states it and
`CutoverSound` of the composition, `GateIsLatched` states `GateLatched`. `HedgerInv` joins `LayerInv`,
`SessionInv`, `BookInv` and `RollInv` with the parity of live and replayed sessions. The fresh replay that
the live session is compared with is a recursive function; its equation is obtained by unfolding the `CHOOSE` it
stands for, and facts about all its values are proved through a least counterexample (`FirstFailure`).
`DeskHolds` states `DeskSound` of `Sizing` for any number of chromosomes. The step that carries it is
`BrokenGrows`: whatever limit a notional breaks, a larger one breaks too. So a clamp, which only lowers
the notional to the smaller of two caps (`ClampIs`), cannot run into a limit the planned order respected, and
what it was clamped for holds by the clamp itself. `SizingKept` adds types only.

`OfflineProofs`.

| Theorem | States | Invariant |
|---|---|---|
| `ArchiveKeepsTheBest` | the refinement `KeepsTheBest` | `Kept`: every cell holds a sub-population |
| `AccessHolds` | `AccessEarned` | `SessionKept` |
| `CommandHolds` | `CommandSound` | `CommandKept` |
| `BacktestHolds` | `BacktestSound` of the bar loop | `BacktestKept` |
| `JobHolds` | `JobSound` | `TrainKept` |

Every step of either driver of the archive is, under the mapping that forgets all but sorted fitnesses, a step of
`TopK` or a stutter. A sorted sequence is characterised by counting (`IsSortOf`): it is determined by how many
elements reach each fitness, and one insertion or replacement changes these counts by one.

`SessionKept` says what a cookie in a jar is evidence of: a server of some deployment with that secret once
allowed its address, no later than now. Requests are judged by the deployment of today, so that the theorem holds
across restarts and changes of the lists. `CommandKept` ties the step of a process to what it has said so far
(`NothingSaid`), and to the files (`FilesBehind`) and coverage (`StockBehind`) a done line would announce.
`BacktestKept` joins the account (`Agree`: the cash of the loop is the capital plus what the friction ledger has booked, less shocks) with the trade log (`TradesOf`) and the order that waits for the next bar (`OrderSuits`).
`TrainKept` says of each stage of a job what has been checked before it (`JobKept`), of a job past its write that
its file is whole or another process has truncated it (`Landed`), and of each listed vintage that its evidence is
that of its request and counts every flow vintage of shared bars sealed before (`FileKept`). The count survives
later writes because a vintage is sealed at a time no earlier than any count made so far.

`VenueProofs`. `VenueHolds` states `VenueSound` of the client and the registry. `Metered` is what makes "at most
two budgets in any window's length" inductive: what was sent since the current window started is
within its budget, what was sent since the one before within both, and a request is charged
before it is sent. `Cleared` places a request that is past the limiter behind every deadline. For the registry, `Ordered`
says that what waits in a socket is no earlier than what was returned, so that the gap a message closes is
the one that is reported.

Proving changed the models. `RestartFused` kept the report of an earlier success, which no longer described the
store: it is reset, as the new call's outcome is all the code returns. The cap on the limiter's sleep could set
the clock back: it bounds the deadline now. The clock may be set back by any part of a sleep, where it was by one
unit. `TwoBudgets` and `MissedIsReported` are stated between pairs of requests and of messages, without sums and
extrema. What several modules compute with sums uses the function `Sums` of `Genome` in place of a recursive
operator. The errors of a job are a named set, not all strings, and the first flaw of a request is chosen from the
set of its flaws. `CalibrationParity`, a comparison of two computations, moved to the properties of inputs.
`SizingAssumption` was written when the sign of an order could not be shown (section 6).

Only model-checked:

* Liveness under fairness (`RunsTerminate`, `PendingTaken`, `FeedRecovers`, `KillCloses`, `AllAnswered`,
  `CallAnswered`): neither fairness nor ENABLED is in the prover's reach.
* `InputsSound` in `trading`, `ResearchSound` in `offline`, and `FormulasHold`, `CatalogueHolds`, `EvolveHolds`,
  `ResultHolds` and `BestKept` in `formulas`. They compare an algorithm with what it must mean over enumerated
  inputs. Most of these algorithms recurse over data, or use recursive operators, and a proof would be an
  induction over data. Where a sum or a replay is proved about, it is by a least counterexample over a set of
  numbers; the algorithms here recurse over trees, sets and rationals.
* The friction ledger beside the bar loop (`BooksAgree` of the part `ledger`): `BacktestSpec` is the bar loop, whose own
  account the theorem is about. The part feeds the same two functions adds, partial closes and flips the loop never
  makes.

## 5. Findings

* A gate-failed flow may succeed (`flowGate`): `classify_orphan` does not look at the gate verdict, so a
  crash right after the `done` line was recorded makes the flow resumable, against manager.rs:1097.
* Two concurrent revocations of different pools lose one (`lostRevocation`), after both were answered
  with 200.

The following definitions state what a comment or a document says, and the code refutes them. They
have no run; to see the trace, put the definition in the place of the properties of the named cfg.

| Definition | cfg | What happens |
|---|---|---|
| `RunManager.CleanShutdown` (PROPERTY) | `MCRunManager_boot` | a drain worker outlives the abort and writes `running` after the run was marked failed (manager.rs:371, 383) |
| `RunManager.RunawayReleased` (PROPERTY) | `MCRunManager_live` | the ceiling covers the reading of the pipes (manager.rs:809, 983) and `child.wait()` after it (824, 991) has none: a child that closes stdout and stderr and goes on holds the supervisor, the permit and the lane until it exits, is halted or the server goes down, against manager.rs:794 |
| `EdgeLink.LatestWins` | `MCEdgeLink_link` | a re-send after a reconnect replaces a newer pending target (transport.rs:27, 218, 232) |
| `Requests.HoldoutFloored` | `MCOffline_offline` | a request without a holdout runs with 31 bars, under the "floored, never tuned down" 250 (validation/src/steer.rs:117; cli/src/lib.rs:769) |
| `Requests.OneSourceOfTruth` | `MCOffline_offline` | the server pins `QE_CONFIG` (server/src/lib.rs:248), which train, evolve and ingest never read (cli/src/lib.rs:533) |
| `TrainJob.ConsultationsCounted` | `MCOffline_offline` | two holdouts that share exactly one bar are not counted as overlapping, nor are two runs at the same time (train.rs:218, 260) |
| `Commands.BarsAreTotal` | `MCOffline_offline` | `IngestOutcome.bars`, "total bars written", is the fullest coverage in the store (main.rs:511, 816) |
| `MarketStore.RealMeansReal` | `MCTrading_trading` | a provenance segment is keyed by its first bar: a short real batch replaces that of a longer synthetic one (store.rs:316; provenance.rs:3) |
| `Illuminate.FlattenedAtEnd` | `MCFormulas_formulas` | the closing quantity is computed from the last price and the opening one from its own: a residue stays (gp/gates.rs:203) |
| `Catalogue.LookbackCoversBars` | `MCFormulas_formulas` with `MaxFeed = 5` | the sparse flow indicators look back in prints while purge and embargo count bars (indicator/mod.rs:70; features.rs:126; train.rs:743) |

## 6. Smaller disagreements met while modelling

They are in the models, or in the notes of the hazards.

Run manager (`manager.rs`). The answer `AlreadyTerminal` may carry `queued` or `running` (417). A run
waiting for its lane holds a permit of the pool meanwhile (729; comment at 109). A child that outlives the
server and writes its result between the two boot passes strands its run (321): `BooksExact` is checked
with children that die with the server. A disconnect during create releases `index_lock` while the index
update goes on (224): it is checked without disconnects.

Desk. A cap on a notional is a signed `Decimal` nobody validates (risk/src/limit.rs:158; pretrade.rs:116, 237): a
negative one would be the smallest of the clamps and turn the order round. `SizingAssumption` leaves it out.

Commands. A configuration that fails to load, or a result that cannot be written, ends with exit 1 and no
terminal line. Train and evolve print progress with `println!`, which panics on a closed stdout; backtest
ignores it. A reader that left turns success into exit 1 though `result.json` is whole. An ingest error
leaves the instruments before it stored.

Requests. `TrainParams.purge` and four knobs of `EvolveParams` are accepted and ignored; an empty
`indicator_subset` means an unsteered run; the default of 2 windows is under the minimum of 4 a named value
must reach; `--states` is truncated to 16 bits.

Sessions survive logout and removal from the allowlist until they expire; roles are read anew.

Governance (`pools.rs`). A disconnect releases the pool lock with the write of the cache under way (843):
`GovernanceSound` and `OnlyLegalEdges` are checked without disconnects. Only the newest launcher of a pool is
barred from approving (933). `production_seal` does not ask `production_seal_capability_allowed` (516;
audit.rs:19). An unreadable revocation file counts as not revoked (593). `launcher_entry_hash` falls back to
the first launch entry of the log (740). A crash may leave a cache that says revoked and a set that does not
(839). A sandbox seal leaves no audit entry (869). A pool `evolve` writes is always blocked from a production
seal (evolve.rs:191).

Edge. A re-sent target is "exactly idempotent" (transport.rs:15) only while the mark has not moved. A
revision pumped before the first mark is acknowledged and not executed. A closing order sized from a keeper
that lags leaves a residue the latched gate does not close (kill_gate.rs:138), so `KillCloses` asks for the
order and not for a flat position. A fill between connect and snapshot is counted twice, since the keeper
does not compare trade ids (userdata.rs:274). A failed re-establish on a connection that turns idle
afterwards is not retried by `pump` (userdata.rs:269): `FeedRecovers` holds with `EndsAgain = TRUE` only.

Stores and ingestion. The limiter's "rolling window" is a fixed one: `TwoBudgets` is the bound that holds,
on a clock that is set back by no more than it slept; set back further, the open window lies in the future and
a third budget may carry the times of two.
`scan_recon_bars` does not compare lineages (synthetic.rs:228). `invalidate_stale_indicators` can delete an
entry refreshed meanwhile. `read_cached_feature` does not tell catalogues of equal lookback, states and width
apart. A funding stamp off the grid by milliseconds is stored as it came.

Research. `max_lookback` of a formula is an upper bound where a window reads constants only. Near-duplicates
may remain after a replacement, and identical constant series are not deduplicated. `most_parsimonious`
compares within a band, which is not transitive. A robustness check with no samples passes.
The sign of a return is inverted after negative equity (backtest.rs:403). `build_fills` passes an ADV in money
where the friction model divides a quantity by it (gates.rs; friction.rs:84). A rerun of a lineage
overwrites its vintage in place, and a kill in the middle loses both.

## 7. What is left out, and why

Within the modelled parts: a `write_meta` that fails in the supervisor (ignored by the code), progress
payloads, balances and event times (they decide nothing), order states the simulator never reaches,
`keepalive` (changes no state of the session), decoders of CSV, ZIP, JSON and websocket frames, LMDB, HTTP.

Transcendental statistics: the deflated Sharpe ratio, the reality check, Kelly fractions, the objective's
ratio, correlations of an ensemble, inverse-volatility seeds. TLC has no reals; where such a value decides
something, the model takes it as an input.

Not modelled: the clock-skew guard (one comparison of two clocks), configuration layers, seed derivation,
telemetry, architecture tests and the HTML report (no state), the read-only views of vintages and market
data, `steer.rs` (the view of the knobs), and the web client, whose polling hooks only read.

Modelled though no job calls it yet: Thompson selection, `walkforward`, `strategy_repo`, `robustness`, the
screen of indicators, parts of `gp/gates.rs`, and the writers of derived data.

## 8. Plan

1. Lemmas about the algorithms without recursion: coverage and separation of `Splits`, the fills of `Series`.
2. An abstract run lifecycle that `RunManager` refines without halts, and its refinement as a theorem.
3. The composition of `Cutover`, `Sizing` and `EdgeLink` in one state, so that a trip, a limit and a
   reconnect meet.
