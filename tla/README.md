# Verification of the Keystone finance agents

TLA+ specifications of this repository, the TLC configurations that check them
and the TLAPS proofs about them. Paths are relative to the repository root; for
files of `keystone/workspace/` and `keystone/workspace/onboarding/` only the
name is given.

* [1. The system](#1-the-system): inventory, state, interaction, correctness
* [2. Modules](#2-modules): what each models and how it maps to the code
* [3. Runs](#3-runs): what TLC checks, with which bounds, and what it shows
* [4. Fairness](#4-fairness)
* [5. Proofs](#5-proofs)
* [6. Disagreements found](#6-disagreements-found)
* [7. What is not modelled](#7-what-is-not-modelled)
* [8. Plan](#8-plan)

To check one configuration: `tlc -config JobWorkerSafety.cfg JobWorkerMC`. To
check the proofs: `tlapm JobWorkerProofs.tla`.

## 1. The system

Four agents produce financial reports; a local workspace runs them as jobs and
shows the results in a browser. Everything is one machine and one user, but many
processes: a FastAPI server with request threads, one worker, one supervised
child per job, command-line tools, and browser pages that outlive none of them
or all of them. State survives in SQLite and DuckDB files, private folders and
advisory file locks.

| Component | State it keeps | Operations | Interacts with |
|---|---|---|---|
| **Job ledger** `job_store.py` | jobs, executions, audit events in `jobs.sqlite3`; `worker.lock` | admit, next_queued, claim_next, update_execution, interrupt_running | server threads, worker, operator |
| **Worker** `worker.py`, `worker_process.py` | its process, the job in hand | run_one, main loop, signals | ledger, gate, supervisor, delivery |
| **Supervisor and child** `operation.py`, `saved_job.py` | `operations/<id>/operation.json`, `jobs/<id>/result` | execute (admit, spawn, wait, kill, receipt), render | inherits both locks to the child |
| **Delivery** `job_delivery.py`, `job_files.py` | `jobs/<id>`, `runs/<id>`, `catalog.json` | prepare_inputs, verified_result, publish_result | catalogue readers |
| **Operator commands** `__main__.py`, `recovery.py` | restoration holds | recover-job, release-restored-job, release-uncommitted-close | all of the above, under the same locks |
| **Admission** `jobs.py`, `job_contract.py`, `api.py` | none beyond the ledger | submit: existing, bind source, admit | ledger, catalogue |
| **Browser page** `web/src/execution` | token, submission identity and its frozen request | connect, submit, resend, edit, reload | admission over HTTP |
| **Input store** `store.py`, `service.py` | entities, datasets, permissions, versions, imports, staging and input folders | reserve, transfer, validate, accept, recover, revoke | admission, execution, snapshots |
| **Fresh close** `close_state.py`, `execution.py` | intent, commit and resolution objects; the company's accounting DuckDB | inspect, current, begin, calculate, committed, remember, resolve | input store, worker, Agent 4 |
| **Maintenance gate, storage** `keystone/maintenance.py`, `storage.py` | mutator and maintenance lock files, snapshots | gate, snapshot, verify, restore | every command that writes |
| **Attempt budget** `keystone/budget.py` | a locked JSON file: requests reserved, usage reported | reserve, report | every paid model request |
| **Agent 1** `agent/`, `composer.py`, `validation/` | recorded tool evidence of one run | bounded tool loop, gate | tools, model |
| **Agent 2** `state/`, `scheduler/`, `monitoring/` | current state, history, cycle runs, review queue, decisions | run_cycle, decide, retry_triage, replay | provider, model, reports |
| **Agent 3** `agent3/` | attempt records, sealed bundles, catalyst store | execute, run_bounded, record_outcome, index_bundle | provider, model, MCP server |
| **Agent 4** `agent4/` | versioned budgets, actuals, reforecasts, runs, attempts, deliveries | execute_close, prepare_close_sources, deliver_run | fresh close, command line |
| **MCP server** `mcp_server/` | none | statistical tools over stdio | agents |
| **Report views** `report_views/`, `web/src/reports` | none | read and render | catalogue |

What makes each component correct, and where it is hard:

* **Job execution.** "A claimed operation is never automatically executed
  twice" (`worker.py:1`). Attempts serialize; a finished attempt is never
  rewritten except by a recovery that delivers it; readers of the catalogue see
  complete, proven reports; a delivery that failed stays recoverable. Hard
  because the worker, its child and the machine may stop between any two writes,
  because a child survives its worker, and because five files have to agree.
* **Admission.** One job per submission identity, replays answered with the same
  job, ceilings that hold, and a page that can always recover a lost answer.
  Hard because lookup, source binding and insertion are separate steps of
  concurrent threads, and because a browser that gives up does not stop the
  request it sent.
* **Fresh close.** Each accounting commit extends exactly the generation its
  input was validated against; an attempted close blocks the company until it is
  resolved; what an operator releases as uncommitted never commits. Hard because
  two databases, a child and two operator commands take part.
* **Imports.** An accepted version has its files and its permissions; capacity is
  not overrun; an interrupted transfer is accepted by recovery or not at all.
* **Monitoring.** A cycle commits all of its rows or none; a revised value is
  quarantined, not overwritten; a decision applies to the evidence it showed; a
  saved cycle replays unchanged.
* **Event studies.** A terminal attempt record, its outcome row and its index
  entry agree; a failed attempt contributes no matched outcome.
* **Variance store.** Versions are immutable, a close sees the effective panel as
  of its sources, an export is idempotent.
* **Snapshot and restore.** A published snapshot is complete and unchanged; a
  failed restore leaves no destination.
* **Research loop and triage.** What a report states was computed from the figures
  beside it; no paid request leaves without a durable record; only complete and
  sound evidence earns confidence; one current report at most.
* **Gate and budget.** At most one mutator; no request beyond the budget.

Every place where this can go wrong is listed under "hazards" in `PROJECT.json`,
with its line and the properties that cover it.

## 2. Modules

| Module | Models | Composed with |
|---|---|---|
| `JobWorker` | ledger, worker, supervisor, child, delivery, recover-job, release-restored-job, other commands | implements `JobPromise` |
| `JobPromise` | what the workspace promises about a job, without processes, locks or files | |
| `Admission` | browser page, request threads, the ledger's uniqueness and ceilings | |
| `FreshClose` | the calculated close: accounts, intents, worker path of schema 3, both operator commands | relies on `JobWorker` for the exclusion of hands; implements `CloseLine` |
| `CloseLine` | what the closes of a company promise, without databases, workers or files | |
| `InputImports` | the private input store: registration, permissions, transfer, validation child, acceptance, recovery | what a close's validation pins is `FreshClose`'s |
| `MonitorStore` | Agent 2's database under overlapping cycles, reviews and triage snapshots | its triage is run by `AgentLoop` |
| `AgentLoop` | the audited model loop, its tools and budget, the research report and the triage built from it | |
| `CatalystAttempt` | Agent 3's attempts from request to sealed and indexed bundle | |
| `LineVariance` | the drivers of one line's variance: spending, factor and volume, mix of a basket | extended by `CloseFigures` |
| `CloseFigures` | the figures of a close as operators: roll-up, flags, persistence, forecast, claims | extended by `VarianceStore` |
| `VarianceStore` | Agent 4's database: versions, closes by several connections, exports | its transaction is one step of `FreshClose`; implements `CloseLine` |
| `...MC` | symmetry and small data for the instances | |
| `JobWorkerProofs`, `AdmissionProofs`, `FreshCloseProofs`, `InputImportsProofs`, `MonitorStoreProofs`, `AgentLoopProofs`, `CatalystAttemptProofs`, `VarianceStoreProofs` | theorems about the module of that name and what it implements or extends (`JobPromise`, `CloseLine`, `LineVariance`, `CloseFigures`) | |

A comment that starts with `(mutation)` marks a definition no specification
uses: it is a plausible bug in the definition that follows it, and shows that
the named property would notice (`PROJECT.json`, "mutants").

### JobWorker

The five durable places a job touches are the variables `status`/`event`/
`verified`/`result`/`held` (ledger), `folder` (`jobs/<id>` with its inputs),
`receipt` (`operation.json`), `stage` (`jobs/<id>/result`), and
`promoted`/`catalog`/`foreign` (run folders and the catalogue). `pc`, `job` and
`op` are the local state of worker and operator processes and are lost by
`Crash`. `child` and `cli` are other processes. `sourceOk` is the answer of
`current_version` or `matching_source`, which the outside may change at any time.

`pc` names the statement of `run_one` that is next:

| `pc` | code |
|---|---|
| `starting`, `idle` | `main` before `interrupt_running`; between iterations |
| `claimed`, `copying`, `copied` | `prepare_inputs`, up to the `inputs_verified` record |
| `verified`, `admitted`, `spawned`, `waiting`, `stopping`, `stopped` | `operation.execute` |
| `finished`, `checked` | `run_one` after it, `verified_result` |
| `recorded`, `promoted`, `cataloged` | `publish_result` |
| `ready`, `recovering` | `recover_delivery` |

The handlers of `run_one` are actions of their own, enabled where the code
raises into them: `SourceRefused`, `RefuseReused`, `PreparationError`,
`SupervisionError`, `DeliveryError`, `Interrupt`; `OpAbandon` is
`execute`'s own handler. Both locks are derived, not stored: whoever is in a
process that opened the ledger as a worker holds the lease, whoever is inside
`gate()` holds the mutator lock, and a living child holds both because it
inherited the descriptors (`operation.py:159-162`). `armed` says whose child has set
its alarm; before that it renders nothing.

Abstractions. Figures, hashes and file contents become one bit each (complete or
not). The status `completed`, which profiles without a human review use, takes
every path of `review_required` and is one value with it. A signal is taken at
the boundary of an action. A handler whose own ledger write fails ends the
process, which is `Crash` at that point. A ledger from an older copy (`Init`
with `NRestored > 0`) may find any combination of folder, receipt and catalogue
entry that a run leaves; a run that left no trace at all cannot be told from one
that never happened, by the code or by the model. Held jobs are dataset jobs
whose traces `prepare_restore` has already refused.

### JobPromise

Six phases and the set of visible runs. A job waits, is attempted at most once
and never together with another, and is then delivered, closed or held; a run is
published only during an attempt or while held, and a job is closed only while
no run of its attempt is visible. `JobWorker!KeepsPromise` is the refinement
(`phase` is computed from `status`, `visible` is `catalog`).

### Admission

One record per request slot: the stage its thread has reached (`sent`,
`unknown`, `bound`, `answered`), its key and request, whether its token was
valid. `Existing`, `BindSource` and `Admit` are the three steps of
`Admission.submit` with their different views of the ledger; `Busy` is any
`503` before commit; `Restart` is the end of the server process. A tab's
`pending`, `key`, `request`, `access`, `slot` and `stale` are the fields of
`JobClient`: `Submit` mints an identity, `Resend` repeats it, `GiveUp` is the
12-second abort (the slot keeps its request), `ReceiveJob`/`ReceiveError`
classify the answer, `EditRefused` and `Reload` forget. `stale` stands for the
epoch that `resetAccess` advances. A second client with the fixed key
`ScriptKey` may send conflicting requests. `asked` and `fate` are history.

### FreshClose

`commits` is the accounting database's list of closes, whose length is the
generation; `wal` says that a killed writer left a journal, which makes every
read-only inspection fail. `pin` is the generation a version was validated
against. `intent`, `proof` and `resolution` are the input store's close objects.
`child` is the calculation (`started`, `open`, `committed`, `remembered`,
`staged`) and may outlive the hand. There is one *hand* (`step`, `on`): the
worker or the operator, since `JobWorkerProofs!OrphansAreExcluded` and
`AttemptsSerialize` show that they exclude one another and a surviving child.
`Claim` takes any queued close (the queue's order is checked in `JobWorker`).
`AdmitCheck` and `Admit` are separate because the server reads the accounts
outside the gate and writes later. A resolve that fails after the job was
registered raises out of `run_one` and ends the worker: `Crash` at `registered`.

### CloseLine

Authors draft closes, each after the close that is the last of its line, and a draft
is added only while that close is still the last. `FreshCloseProofs!Chain` maps a job
whose version is pinned to a draft, until it has committed or was released;
`VarianceStoreProofs!Chain` maps a connection whose transaction is open, and the head
its snapshot shows. So the pin of the input store and the snapshot of the database
are one mechanism, once across days and processes and once within a transaction.
`OvertakenStay` says what it is worth: who was overtaken is never current again.

### InputImports

`row` is the table of imports, `versions` the committed version objects, `staged`
and `inputs` the two places a transfer folder can be, `prepared` the journal
beside them. `intake` is the server's one transfer under the intake lock, `child`
the validator, which holds the lent mutator lock and may outlive the server, and
`txn` a write transaction that is moving files: `Promote` and `Commit` are
separate because a crash between them leaves a folder without a version.
`AcceptPrepare` writes the journal by exclusive creation and is therefore not
enabled when an earlier transfer left one. `Recover` runs while the server is
down and takes the same three steps with the journal's transfer. `Expire` may
happen at any moment, `RevokePermission` is the operator's command. Which bytes
match their hashes, and whether a payload passes its family's checks, is left
open in each transfer (`ChildEnds`).

### MonitorStore

Every opening of the store holds a file lock, so that one opening is one action
and a command is a sequence of them: a live cycle checks the source
(`cycle.py:56-79`), fetches without the lock, and runs its transaction on what it
fetched. `proc` is what a command holds in memory between two openings. Commands
of one checkout take Keystone's gate one after another; the overlaps modelled
come from a second checkout that shares `--db`, or from a caller that uses
`run_cycle` alone (`Schedulers`). What a provider answered is chosen when the
cycle commits, among the values and dates it could have fetched then or before.
A row's classification is `Classify`, threshold state against the row before it;
significance and drift need six observations and stay silent within `MaxDay`.

### AgentLoop

`mem` is the `RunState` in memory, `disk` the saved `model.json`; `Checkpoint` is
the only way from one to the other and may fail, which ends the run. A tool
result is reduced to the provider revision it came from (`of`) and to what those
figures have (`Facts`): a contract, positive cash flow, debt and cash, earnings.
The model asks for any tools in any order (`menu` bounds which); the provider may
restate its figures between two calls (`Revise`). `DEPENDENCIES` and `RecordTool`
are those of `agent/state.py`; the loop of `record_tool` ends at the least closed set,
which is how `Affected` says it. `Assessed` stands for the gate and the grounding of the note,
`Reassess` and the actions after it for the rebuild, which may be interrupted
after each file. Every supervised run has a budget (`KEYSTONE_SUPERVISED=1` is
assumed); the offline script is one behaviour of the loop. Quotes carry no
observation date with any provider of the repository, so that a record is always
flagged for review: the model has the approved branch, and `ReportIsCurrent` says
that nobody reaches it. After the loop, what no later step reads is forgotten.
For a triage, `Recheck` is the recommendation each diagnostic earns.

### CatalystAttempt

`run` is `run.json`, `bundle` the sealed record, `outcome` and `index` the tables
of the catalyst database. `parent` is the statement the command is at, `worker`
its child, which works on when the command is killed and then keeps the lease.
One checkout's gate serializes attempts; those after the first are retries.
`Deadline` stops the worker before the record is read back; `Seal` publishes the
bundle by `os.link` and may fail before it, after which `run_live` relabels the record
as refused while `run_news` does not. A directory sync that fails after the link
(`bundles.py:62-67`) is no such fault: `run_live.py:103-106` finds `bundle.json` and
returns with the record unchanged, so that what is left is that of a failing `Index`.
`Reseal` and `Reindex` are the maintenance commands. A sample is `few` when fewer than
five events are usable, which ends the attempt without a calculation. `Replayed` recomputes the deterministic stages from what the bundle
retains and says `matched` or not, as `bundles.replay` does. Price data are
reduced to a report per company and a sample, articles to the checks they fail.

### LineVariance, CloseFigures and VarianceStore

`LineVariance` has no state. A factor and a volume are whole multiples of a
smallest unit (they are decimals of at most twelve places), and `Unit` says how
much of their product is a cent; the code's exact fractions become integers over
`Unit`, or over `Unit` times the volume of a basket, and each is rounded once, as
`money` does. A close only ever gives amounts, so it uses `Spending`; the split in
factor and volume, and the basket, serve callers of `hierarchy.rollup`.

`CloseFigures` has no state. Amounts are integer cents; ratios are compared after
multiplication, `Round` is Python's half-to-even rounding; of a probability only its side
of one half is kept, because that is all `commentary.py` reads. `ZLines` is the
flag line of `classify_variance` for the number of accounts of the instance.

`VarianceStore` runs `execute_close` for several connections. Each transaction
works on the snapshot it began with (`call[t].view`) and collects what it
`writes`; `Collides` is DuckDB's refusal of a commit whose keys, or whose head of
an entity, were written since. The attempt events are written by their own
transactions (`a4_attempts`), before and after, and stay when the close rolls
back. They are no proof of what became of it: `Fail` after COMMIT (`close.py:134-138`
also covers the `get_run` of line 203) leaves a saved close whose attempt says failed,
or nothing when that event cannot be written either, and a retry records a replay.
`sequence` is a database sequence and never goes back. An export first places the
file and then records the receipt. Two connections of one process are
what the repository's own test exercises (`tests/test_agent4_batch3.py:291`).

## 3. Runs

| Run | Checks | Size |
|---|---|---|
| `job_worker_safety` | types, locks, serialization, catalogue, recoverability, readable records, refinement of `JobPromise` | 513 thousand states |
| `job_worker_liveness` | a restored ledger: no second dispatch, no unreleased start; attempts end, a start becomes possible again, the queue is served | 422 thousand, three temporal properties |
| `job_worker_source_doc` | expected violation, see section 6 | counterexample |
| `admission_safety` | identities, replays, ceilings, the page's promises | 2.5 million |
| `admission_refusal` | expected violation | counterexample |
| `fresh_close_safety` | generations, intents, resolutions, reports, journals | 303 thousand |
| `fresh_close_recovery` | expected violation | counterexample |
| `input_imports_safety` | versions and receipts, journals, one listing, revocation | 2.3 million |
| `monitor_store_safety` | effective history, decisions, triage evidence | 113 thousand |
| `agent_loop` | current evidence, audited spending, one report, earned confidence and triage | 1.9 million |
| `catalyst_attempt` | final bundles, truthful index, earned results and their replay | 2.2 million |
| `variance_store` | basis and roll-up of saved closes, one line of closes, truthful records | 105 thousand |

Bounds, and why they are enough:

* `JobWorker`: two jobs, one saved and one dataset, because the profiles differ
  in when they verify the source and every relation between jobs is between
  two of them. One worker identity that may start again after each end covers
  restarts; two processes at once are excluded by the lease, which is proved
  for any number (section 5). One operator. `MaxRuns = 3` with one foreign run
  at the start lets the catalogue fill up at delivery time, and fill up before
  it. In the liveness run both jobs come from an older ledger put back, with any
  traces later runs left, one of them under a hold.
* `Admission`: one page, two request slots (so that an abandoned and a repeated
  request race), two request bodies, two minted identities, a pending ceiling
  of one and a retained ceiling of two, so that both refusals happen and room
  returns when the worker finishes a job.
* `FreshClose`: three close requests, so that one may be committed, one left
  behind and one follow; commits and objects only grow, at most one per job.
* `InputImports`: two imports of research for one company whose packages name
  different listings, two transfers of each (the second is the retry), two pending,
  two versions, nine units of bytes against a reservation of three: ceilings wide
  enough for both imports and their leftovers. The format `saved` only leaves the
  listing out.
* `MonitorStore`: one item and its replacement, two values, two days, three
  cycles, two commands of which one may triage, an old and a stricter definition:
  enough for a correction of the older day while a later cycle is under way. A
  second item would only repeat the first, since nothing but the retirement
  relates two series.
* `AgentLoop`: two menus, a whole analysis with one more fetch and the longest
  chain of computed figures in nearly any order; one restatement, after which the
  debt is missing; one fault; three requests; two flags with two diagnostics each.
* `CatalystAttempt`: an attempt and its retry, two companies beside the target,
  one of them in the study plan, `MinIssuers` 2 instead of 10, one fault. Seven
  requests cover study, live and fixture news, and each kind of plan.
* `VarianceStore`: five requests: a close, two competing corrections, a later close
  that shares a run ID with one of them, and another entity; six periods in years
  of three and `MinObs` 4 instead of 6, so that a shift can be established; three
  calls, one fault, and exports of two runs up to one kind of receipt. The same
  run evaluates three assumptions of `VarianceStoreMC`: every line with factors and
  volumes up to 4, and every basket of two with values up to 2, ties within its
  tolerance, and some line needs all of it.

There is no state constraint; what bounds the models is the constants named in
the modules.

Deadlock is checked in the runs of `JobWorker`, `Admission` and `FreshClose`:
crashes, sources that change and other commands are always possible there, so a
deadlock would be a modelling mistake, not a hung system. That nothing hangs is
what the liveness run says. The other models stop when their bounds are used up
(transfers, days, attempts, calls), and their configurations say so.

## 4. Fairness

`FairSpec` of `JobWorker` assumes:

* weak fairness of `WorkerStep`: the loop of `main` (`worker.py:224-234`)
  polls the ledger for ever while the process lives. It is fairness of the
  process as a whole, not of each branch, and a worker that is down owes nothing;
* weak fairness of `ChildArm`: a child that was started reads its record and sets
  itself a `SIGALRM` (`saved_job.py:107-113`); nothing there waits for anybody;
* weak fairness of `ChildAlarm`: the operating system delivers the alarm with its
  default action, for as long as the child computes or writes. Nothing is assumed of
  the rendering: a child may hang in `ChildStage` or `ChildComplete` for ever;
* weak fairness of `CliExit`: other commands finish.

Nothing is assumed of crashes, signals, restarts of the worker, operators or
sources. So `AttemptEnds` and `QueueServed` are stated for a living worker, and
`QueueServed` for an eventually free gate: a gate held again and again at the
wrong moment may starve the worker, since `run_one` only tries it once per poll.
`RestartPossible` is about the other case, when nobody is left but a child that
inherited both locks: only its alarm gives them back, and a child that cancelled
it before it renders (`ChildAlarmEarly`) would keep the ledger shut.

## 5. Proofs

The theorems hold for every value of the constants that meets the named
assumption of the module. Each is a consequence of an inductive invariant, called
`IInv` in every proof module, that says what the properties alone do not: what a
process in the middle of its program may still rely on. TLC has checked each
`IInv` as an invariant of the module's run before it was proved.

| Module | Theorem | Statement |
|---|---|---|
| `JobWorkerProofs` | `TypeCorrect` | `Spec => []TypeOK` |
| | `NeverDispatchedTwice` | `Spec => []AtMostOneDispatch` |
| | `OrphansAreExcluded` | `Spec => []OrphanExcluded` |
| | `AttemptsSerialize` | `Spec => []AtMostOneRunning` |
| | `HeldStaysUnstarted` | `Spec => []HeldNotStarted` |
| | `VisibleIsProven` | `Spec => []VisibleReport` |
| | `DeliveredLinks` | `Spec => []DeliveredIsListed` |
| | `HeldDeliveryRecovers` | `Spec => []DeliveryRecoverable` |
| | `RecordsStayReadable` | `Spec => []RecordReadable` |
| | `CatalogStaysLoadable` | `Spec => []CatalogWithinBound` |
| | `PromiseIsKept` | `Spec => KeepsPromise`, the refinement |
| | `PromiseSafety` | `PromiseSpec => []PromiseKept` of `JobPromise`: a delivered job has a visible run, one that was given up shows none |
| | `ClientsMayConclude` | `Spec => []PromiseKept`, by the refinement |
| `AdmissionProofs` | `IdentitiesNameOneJob` | `Spec => []IdentityNamesOneJob` |
| | `RetriesFindTheirJob` | `Spec => []RetryFindsJob` |
| | `CeilingsHold` | `Spec => []CapacityHeld` |
| | `IdentitiesAreKept` | `Spec => []IdentityKept` |
| `FreshCloseProofs` | `PinsAreFollowed` | `Spec => []CommitsFollowPins` |
| | `OneCloseAtATime` | `Spec => []OneOpenIntent` |
| | `ResolutionsHold` | `Spec => []ResolutionTruthful` |
| | `ListingsRest` | `Spec => []ListedIsCommitted` |
| | `JournalsHaveOwners` | `Spec => []JournalHasOwner` |
| | `FreshClosesFormALine` | `Spec => Chain!LineSpec`, the refinement of `CloseLine` |
| | `OvertakenJobsStay` | its `OvertakenStay` and `NothingLost`, two action properties |
| `InputImportsProofs` | `ReceiptsAgree` | `Spec => []VersionsTraced` |
| | `JournalsNameFolders` | `Spec => []PreparedWhole` |
| | `ResearchKeepsItsListing` | `Spec => []OneListing` |
| | `RevocationHolds` | `Spec => NotAfterRevocation`, an action property |
| `VarianceStoreProofs` | `ClosesFormOneLine` | `Spec => []OneLineOfCloses` |
| | `RecordsHold` | `Spec => []RecordsTruthful` |
| | `SavedClosesStand` | `Spec => []SavedCloseStands` |
| | `SourcesStayBehindCloses` | its half about the store, from `IInv` alone |
| | `SavedClosesValidate` | every saved close passes `validate_bundle` |
| | `ReportsReconcile`, `ReconciledAccountsTie` | of `CloseFigures`: what a close builds passes `validate_result`; what passes it ties over the tree |
| | `ClosesFormLines` | `Spec => Chain!LineSpec`, the refinement of `CloseLine` |
| | `OvertakenTransactionsStay` | its `OvertakenStay` and `NothingLost`, two action properties |
| | `LineTies`, `ProductWithinTolerance`, `BasketTies` | of `LineVariance`, see below |
| `CatalystAttemptProofs` | `SealsHold` | `Spec => []SealedIsFinal` |
| | `IndexHolds` | `Spec => []IndexTruthful` |
| | `ShownHasBeenEarned` | `Spec => []ShownIsEarned` |
| | `SealsNeverChange` | a sealed bundle and its record are never written again, an action property |
| `MonitorStoreProofs` | `HistoryIsAccounted` | `Spec => []HistoryAccounted` |
| | `DecisionsAreRespected` | `Spec => []DecisionsRespected` |
| | `TriageReadsItsCycle` | `Spec => []TriageOnOwnEvidence` |
| | `RetiredSeriesStand` | no step moves anything of a retired series, an action property |
| `AgentLoopProofs` | `EvidenceStaysCurrent` | `Spec => []EvidenceCurrent` |
| | `SpendingIsAudited` | `Spec => []SpendAudited` |
| | `ReportsAreCurrent` | `Spec => []ReportIsCurrent` |
| | `PublishedStaysEarned` | `Spec => []PublishedIsEarned` |
| | `ConfidenceIsEarned` | its half about a record with confidence |
| | `TriageIsOfItsRun` | a published triage is `Render` of its own completed run |

Every proof that a step preserves `IInv` is split by conjunct and within a
conjunct by action. Lemmas on the effect of the actions come first, so that an
action's text is opened once; actions that leave a conjunct's variables alone are
one case.

### JobWorker

For every number of jobs, workers, operators and catalogue places, under
`BoundsAssumption` (the bounds are naturals and restored jobs are among the jobs)
and `ProcessAssumption` (a process is a worker or an operator, not both).

* `LockInv`: at most one process is beyond the lease, workers and operators stay
  in their own programs, nobody is behind the gate together with another
  command. It needs `OrphanExcluded`, because a start is refused only as long
  as a surviving child is known to hold the lock, and `OrphanExcluded` needs it
  for the step that starts the child.
* `StatusInv`: the running job of the ledger is the one its worker has in hand,
  and an idle worker leaves none running. `AtMostOneRunning` is not inductive
  without it: a claim must know that there is nothing to clean up.
* `DispatchInv`: a job that was ever started and could still be claimed has left
  a trace that refuses the second start, and between that check and `Popen`
  nothing adds a dispatch. This is the argument behind `AtMostOneDispatch`.
* `SupervisorInv`: the receipt and the folder say what the supervisor's place in
  its program implies; a successful receipt exists only for a started job.
* `PublishInv`: each stage of publication has established what the next one
  relies on, and no entry of the catalogue belongs to the attempt in hand before
  its own `Replace`.
* `RecordInv` and `RoomInv`, proved on top of these: a row carries an event and a
  phase of its status, and between the count of the catalogue and the new list
  nobody else lists a run, because whoever counts is behind the gate.

`PromiseStep` maps every action to an action of `JobPromise` or to a stutter.
`AttemptClosed` and `AttemptConcludes` carry what all ends of an attempt have in
common. `PromiseSafety` is about `JobPromise` alone, whoever implements it;
`ClientsMayConclude` puts the two together.

### Admission

For any pages, request slots, keys, bodies and ceilings, under
`AdmissionAssumption` (the ceilings are naturals).

* `AskedInv`: under an identity a page minted, only the request it was minted for
  is shown, sent or admitted, wherever a copy of it still travels.
* `AwaitInv`: a page that is sending waits for its own slot, whose request carries
  the page's key, and no two pages wait for one slot.
* `LookupInv`: a request whose key was already admitted when it was sent does not
  get past the first lookup, so that the second one, in the transaction, is only
  reached by requests for which a conflict or a duplicate is still news.

`RetryFindsJob` is `LookupInv` read at the answer; `IdentityNamesOneJob` is
inductive only because the transaction looks the key up again.

### FreshClose

For any set of close requests; no assumption.

* `HandInv`: the status of the job in hand, by the step the hand is at.
* `ChildInv`: a calculation lives under its waiting worker or under nobody, its job
  is running and unresolved, and once it has opened the accounts their generation
  is the pinned one. The last part is what makes `CommitsFollowPins` inductive: two
  children cannot both have opened, because each one's job has an open intent
  (`OneOpenIntent`).
* `IntentInv`: an intent is there from `begin` on and before anything the attempt
  leaves behind; a new one is made only when every earlier one is resolved.
* `DeliveryInv`: each stage of a delivery has the proof and the listing that the
  next relies on.
* `JournalInv`: a journal cannot be left at a stage that has read the accounts.

For the refinement of `CloseLine` a step pins a version, commits, or moves nothing of
the line (`LineMoves`); the pin of a commit is the last close by `ChildInv`, and a
released job stays released. That no pin is ahead of the accounts (`PinsReached`) is
carried beside `IInv`, so that what a draft follows stays what it was.

### InputImports

For any imports, companies, packages and limits, under `ImportAssumption` (the
limits are naturals, a package has a format and at least one byte).

* `IntakeInv` and `ChildInv`: the one transfer of the server and the validator are
  at an import whose record says so; the validator's folder is the import's
  latest, also after the server is gone, and no journal names it yet.
* `TxnInv`: whoever holds the write transaction holds an open import and its
  journal, no validator runs, and what has been promoted carries a permission that
  was not revoked and a listing that agrees with the company's. `NotAfterRevocation`
  follows from it and from the transaction's keeping out `RevokePermission`.
* `JournalInv`: a journal names a transfer that was started, and a folder is staged
  or moved, never both.

That the first version with a listing exists (`OneListing` compares with it) is
well-foundedness of the numbers of versions.

### VarianceStore

For any connections, entities, runs and requests, every tree of accounts and any
bounds, under `RequestAssumption` (among it: the rows of a request are whole cents, as
`contracts.cents` demands of them) and `TreeAssumption` (of `CloseFigures`).

* `HandInv`, `AttemptInv`: a connection in a close has an open attempt of its own,
  so that nobody else ends it. A saved close keeps an attempt of its request that is
  no replay and that nobody works on; and the attempts known to have `Made` a close
  (committed on record, or of a transaction that has just committed) are one for each
  run, since a commit collides with a run that is saved. What that attempt recorded is
  left open: `Fail` may record a failure after COMMIT, or nothing.
* `ViewInv`: a snapshot is an earlier state of the store, and an entity whose head
  has not moved since has no version the snapshot lacks. A commit that does not
  collide has therefore seen everything of its entity. This is the heart of
  `OneLineOfCloses`: the freshness that was tested on the snapshot still holds.
* `StoreInv`: labels and sequence numbers name one version each, which makes the
  choices in the definitions determined.
* `PreparedInv`: what a transaction checked of its sources, and that the numbers it
  will write lie above every number of its snapshot and belong to nobody else. So a
  commit adds no delta below the basis of an older close, and the deltas of that
  close stay what they were (`SourcesInv`).
* `HeadInv`, `ExportInv`: the head carries its close's period; what stands in the
  output directory belongs to saved runs.

The figures of a close are recursive functions over an account tree of any shape, and
the induction theorems of the library cannot be used here. The last part of the module
does without them. A recursion over a finite set whose steps each look only at what
lies below has a solution and only one (`FiniteRecursion`): were there two, or none, the
least set of elements on which they part would have an element that depends on
nothing in it; `ValidTree` gives the same argument down and up the tree
(`DownTheTree`, `UpTheTree`, `TreeFounded`). Sums get the same treatment: `Adds(S, g, it)`
says that `it` sums `g` over the subsets of `S` in whatever order, so that sums can be
split, scaled, subtracted and bounded, and a lemma for each says that a `SumOver` of the
model is one.

* `ReconciledAccountsTie`: `Reconciles`, which is `validate_result`, looks at one account
  and its children; `Ties` follows for every account and the lines below it at any depth.
* `ReportsReconcile`: what `Accounts` rolls up of whole cents reconciles, so that no
  close is refused for its own figures.
* `ReportInv`: the report of a saved close is the one its sources and its effective
  rows give, and its effective rows are complete for the year to date.
  `SavedClosesStand` is `ReportInv` with `SourcesStand`; `SavedClosesValidate` adds that
  `Deltas` makes the request's own rows the latest. So the branch of an export that
  refuses a report (`report.py`) is for damage from outside only.

For the refinement of `CloseLine` a transaction that stays open keeps its request and
its snapshot (`CallSteps`), and a commit does not collide, so that the head is the one
it read. Both mappings were checked by TLC on the instances of the runs before they
were proved.

### CatalystAttempt

For any number of attempts, any companies, samples and plans, and any number of
issuers and faults, under `AttemptAssumption`.

* `CommandInv`: a worker lives only under the command that waits for it or after
  that command was killed; whoever reads the record back finds it over; and a
  bundle exists only when the command is past sealing and no worker is left. So
  nothing writes after a seal.
* `EvidenceInv`: what a record is worth at the stage its worker has saved. A
  running study's result is what its reports and sample give, the outcome in the
  database is that of the record only from `persistence` on, and a failure shows
  no published figures. It holds of every intermediate record, because a deadline
  or a kill may make any of them the last. `ShownIsEarned` is this at the end.
* `RetryInv`: the attempt a retry was made of rests, and what the retry pins are
  the peers it took over, before its worker starts and ever after.

That a replay agrees (`Replayed`) is proved by opening the deterministic stages on
what the bundle retains: `ReplayMatches`.

### MonitorStore

For any items, watchlists, values, commands and cycles, under `MonitorAssumption`
(a watchlist defines items, days are at most five, as many as the statistics stay
silent for).

* `HistoryInv`: each value is that of the cycle that saved it or of the last
  decision about its date. It holds through a recalculation because a decided
  value stands in the history of its series and is no younger than a review of it:
  a second decision about one date therefore takes the place of the first.
* `CycleInv` and `GapInv`: every cycle that a row, review or decision names was
  saved, from the one bound source, and the cycles skipped before a run have none.
* `ReviewInv`: while a review of an item waits nothing of the item moves, no later
  cycle has saved a row of it, and it still asks what it asked. So approving it,
  however late, restates the end of the series and nothing that was built on it.
* `RetiredInv`, `FrozenInv`: a retired series has no row of a later cycle; what a
  run froze ends with what the run flagged, in the database and in the hands of
  every command between its commit and its triage.

A command's evidence may be as old as its fetch. What makes the conjuncts hold is
that `Disposition` looks at the store again in the transaction: `NewFact` and
`HeldFact` say what it must have found there. `RetiredStands` needs no more.

### AgentLoop

For any menus, provider revisions, limits, budgets and flags, under
`LoopAssumption`.

* `EvidenceInv`: in memory and on disk a computed result carries the revisions of
  what it was computed from. `AffectedCloses` is the reason: what `record_tool`
  removes is the least set that holds the refreshed tool and everything that
  needs a member, so that what remains needs nothing that changed, and a tool that
  is computed needs nothing in its own closure.
* `SpendInv`: at each statement of the loop, the turns on disk are those in memory
  and no fewer than the requests reserved, except between the payment and the next
  checkpoint, when the disk says that a model request is in flight. That a failed
  checkpoint ends the run is what carries it from turn to turn.
* `ReportInv`: from the start of a run or a rebuild until a report is written, the
  report files of before are gone, so that `complete` finds the one just named.
* `EarnedInv`: confidence that is on disk passes every check of the execution and
  the note saved with it; a record that is published has not changed since.

`ConfidenceIsEarned` reads the checks off `~Fails`; `RecheckRules` is what
`recheck_flag` can say of one item. The stable sort of `_render` is stated by the
`Place` of each position; that every place is taken once (`PlacesTaken`) is a count of
the positions `Ahead`, and makes the sorted order a permutation with the breaches in front
(`SortedFacts`, `RenderedFacts`).

### LineVariance

For every unit, factor and volume: the refusals of `decomposition.py:167` and
`:271` never meet sound data. `LineTies`: at most two cents are left over in either
convention, and drivers and residual together are the variance. `BasketTies`: the same
of a basket with any number of products. The argument is one lemma, `RoundedTie`: five
roundings of exact values that tie are each at most half a unit off (`RoundNearest`),
so their sum is less than three units off. `ProductWithinTolerance` is this for one
product (two cents at most, of the three allowed for each); the sums over a basket are
`Adds`, and a sum is bounded by the number of its summands (`AddsBounded`). TLC
evaluates both for small lines and baskets of two.

### Only model-checked

`AttemptEnds`, `RestartPossible` and `QueueServed`: liveness under fairness, which needs
`ENABLED` and is beyond this prover. Every invariant and every action property of the
passing runs is a theorem.

Induction over data is beyond it too, as a rule: the library's induction theorems take
an operator as a parameter, which none of the provers can instantiate. What is proved of
recursive definitions is proved by a least counterexample instead, and only of sums and
of the recursions over the account tree. Medians (`Median2`), breaks, persistence and
forecasts are proved to be what the sources give (`ReportInv`), not what they mean. No
module with a theorem declares a recursive operator.

## 6. Disagreements found

* `job_worker_source_doc`: the docs and the page say that `source_changed` means
  nothing was processed. A dataset job whose source changes after its
  calculation gets the same status (`worker.py:84`).
* `fresh_close_recovery`: a close that committed and whose permission is
  withdrawn before delivery ends as `source_changed`. `recover-job` does not
  accept that status and `release-uncommitted-close` finds the commit, so the
  intent stays unresolved and the company blocked, although
  `docs/webapp/batch3b2-fresh-close.md` promises delivery of a committed close.
* `admission_refusal`: "Request refused before admission" may be shown of a
  request whose earlier, timed-out copy is admitted.

Observed while modelling and not counted as disagreements: a kill while `begin`
creates the first, empty accounting database leaves a journal without an intent,
which neither operator command heals (`JournalHasOwner` is therefore stated for
companies that have accounts); a failing `resolve` after registration ends the
worker process instead of the job; and when the `prepared` record of a close was
not yet saved, a delivery failure cannot be recorded by the validator of the
close's execution, so that the job later appears as `outcome_unknown`.

The new modules met more of this kind; each is in the model as the code has it:

* Recovery of a prepared import commits without looking for a version of the same
  content (`store.py:455-498` has no such check, `accept` does), so that one
  content may get two versions, while
  `docs/webapp/batch3b1-data-onboarding.md:144-146` says that a new key with
  identical content resolves to the same version. And since `prepared.json` is
  created exclusively and names one transfer (`store.py:450`, `:461`), an import
  whose delivery failed after the journal and that was transferred again can be
  neither accepted (the journal stands) nor recovered (it names the old transfer),
  although `:153-154` of that document speaks of recovery from either side.
* `persistence.py:147-162`: a significant break that has run for exactly three
  periods and has less than 60 % of one sign (`-1 -2 -3 -1 50 50 50` cents)
  is called one-off, "neither a break from pattern nor a sustained run"; two
  periods of it are ambiguous and four a shift, so the forecast does not carry it.
* No provider of the repository dates its quotes, so that an approved report is
  unreachable (`docs/agent1-evidence-validation.md:39-41` says "normally").
* An interruption between the checkpoint `assembled` and the result, or an error of
  the MCP server, seals a record whose replay does not match; such records are
  never completed or held.

## 7. What is not modelled

* Statistics and valuations: floating-point arithmetic over given data. Event
  studies, regressions, sentiment, discounted cash flows and peer statistics appear
  as what the checks after them tell apart.
* Model and provider answers, prompts and the parsing of both: external and
  nondeterministic; where their outcome matters it is an arbitrary choice.
* Local research and workflow profiles (schemas 4 and 5). They are claimed, supervised
  and published as `JobWorker` says, but their recovery is wider: `recover-job` accepts
  a job recorded as failed (`worker.py:116`), with receipts that `ProofHolds` refuses
  (`job_delivery.py:28-46`), on the strength of a commit record of their own
  (`job_store.py:357-358`). None of this is in `RecoverVerify`, `ProofHolds` or
  `FreshClose`, whose schema 3 has a similar rule.
* `keystone run` for other programs: the same `operation.execute` as in `JobWorker`.
* Agent 2: `monitor.py --reset`, and the statistics of series of six observations.
* Agent 3: the catalyst calendar (`upsert_catalyst`, `mark_status`), the index
  receipt, which nothing reads, and HTML exports.
* Agent 4: `append_actuals` outside a close, which only tests call; independent
  control totals and contexts of a tree (`hierarchy._controls`); `exception_view`; several
  currencies and cadences; amounts beyond 64 bits; malformed requests and rows
  altered behind the program's back, which every reader refuses.
* The MCP server and client: a transport without state.
* Snapshots, restore and the maintenance half of the gate: next in the plan.
* Rendering: report views, the React pages other than the execution client, HTML.
* Authentication beyond the token's validity, and file permissions.
* Torn writes: a single file replacement or SQLite/DuckDB transaction is atomic.

## 8. Plan

In order of importance; each module gets an MC module, a configuration and a
proof module where its invariants are within reach.

1. *Done:* `JobWorker` with `JobPromise` and proofs, `Admission`, `FreshClose`,
   `InputImports`, `MonitorStore`, `AgentLoop`, `CatalystAttempt`, `LineVariance`
   with proofs, `CloseFigures` and `VarianceStore`.
2. Proofs. *Done:* `JobWorker`, `Admission`, `FreshClose`, `InputImports`,
   `MonitorStore`, `AgentLoop`, `CatalystAttempt`, `VarianceStore`, `CloseFigures` (sums
   and roll-up), `LineVariance`, and the refinement of `CloseLine` by `FreshClose` and
   `VarianceStore`. *Next:* what the diagnostics of a close mean (medians, breaks).
3. `Snapshot` (`keystone/storage.py`): copy, publish and restore under the
   exclusive gate, with writers outside it and failures at any step.
