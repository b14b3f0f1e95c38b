--------------------------- MODULE CatalystAttempt ---------------------------
(***************************************************************************)
(* Attempts of Agent 3 (agent3/): the command (run_live.py, run_news.py)   *)
(* creates run.json, starts a worker that saves a checkpoint at every      *)
(* stage, stops it at the deadline, seals the record in an immutable       *)
(* bundle and indexes that in the catalyst database, where the worker has  *)
(* put the outcome itself.  A killed command leaves its worker running.    *)
(* Later commands retry an attempt or index a bundle again.  Prices and    *)
(* articles are reduced to what the publication checks tell apart.  The    *)
(* index receipt, which nothing reads, is left out.                        *)
(***************************************************************************)
EXTENDS Naturals, Sequences, FiniteSets

CONSTANTS NAttempts,  \* bound: attempts, numbered
          Target,     \* the company asked about
          Peers,      \* those that may be named or proposed beside it
          PlanPeers,  \* those the study plan was made for
          Requests,   \* what is asked: kind, peers or AskModel, plan
          Fetches,    \* per attempt, outcomes of fetching one company
          Samples,    \* per attempt, what enough assembled events may show
          News,       \* sets of articles a search returns, by kind
          MinIssuers, \* issuers inference takes (10 in the code)
          MaxFaults   \* bound: kills and failed operations

Attempts == 1..NAttempts
AskModel == {Target}     \* peers = None with live_propose: never a set of peers
NoPin    == [peers |-> {}, by |-> "none"]
NoResult == [status |-> "none", failed |-> {}, shown |-> "none", calculated |-> FALSE]
NoOutcome == [reports |-> <<>>, sample |-> "none", failed |-> {}]
NoRow    == [status |-> "none", reconciliation |-> "none"]
Fresh(request, of) ==
  [status |-> "running", stage |-> "configuration", past |-> {}, request |-> request,
   retry_of |-> of, retry |-> NoPin, pinned |-> NoPin, reports |-> <<>>,
   sample |-> "none", items |-> {}, result |-> NoResult]
NoRecord == [Fresh([kind |-> "none", peers |-> {}, plan |-> "none"], 0) EXCEPT !.status = "none"]
Terminal == {"completed", "held", "refused", "unavailable", "failed"}   \* EXIT_CODES

ASSUME AttemptAssumption ==
  /\ NAttempts \in Nat \ {0} /\ MinIssuers \in Nat /\ MaxFaults \in Nat
  /\ Target \notin Peers /\ PlanPeers \subseteq Peers
  /\ Requests \subseteq [kind : {"study", "live", "fixture"},
                          peers : (SUBSET Peers) \cup {AskModel},
                          plan : {"none", "check", "reviewed"}]
  /\ Fetches \in [Attempts -> SUBSET {"ok", "partial", "excluded", "error"}]
  /\ Samples \in [Attempts -> SUBSET {"null", "effect", "marginal", "dependent", "shifted"}]
  /\ News \subseteq SUBSET {"clean", "flagged", "stale", "offtopic", "failing"}

VARIABLES
  run,      \* run.json per attempt
  bundle,   \* bundle.json: the sealed record, or NoRecord
  outcome,  \* event_outcomes and outcome_evidence
  index,    \* run_bundles
  parent,   \* where the command of an attempt is
  worker,   \* "none", "alive", "exited" with the code of its record, "dead"
  faults    \* kills and failed operations so far

files == <<run, bundle>>
db    == <<outcome, index>>
vars  == <<files, db, parent, worker, faults>>

-----------------------------------------------------------------------------
(* Evidence and its checks.                                                *)

Contributing(reports) == {c \in DOMAIN reports : reports[c] \in {"ok", "partial"}}

\* assess: what an assembled study fails.  Without a reviewed plan nothing is
\* attested; "shifted" controls move, a "marginal" effect is lost to the size
\* of the declared family, "dependent" events allow no inference.
Inferable(plan, reports, sample) ==
  /\ plan = "reviewed" /\ sample # "dependent"
  /\ Cardinality(Contributing(reports)) >= MinIssuers
FailedChecks(plan, reports, sample) ==
  LET inferable == Inferable(plan, reports, sample) IN
  {c \in {"validation_only", "inference", "thin_data", "comparability", "assembly",
          "multiple_testing", "adjusted_significance", "placebo"} :
     \/ c = "validation_only" /\ plan = "check"
     \/ c = "inference" /\ ~inferable
     \/ c = "thin_data" /\ Cardinality(Contributing(reports)) < MinIssuers
     \/ c = "comparability" /\ plan # "reviewed"
     \/ c = "assembly" /\ \E x \in DOMAIN reports : reports[x] # "ok"
     \/ c = "multiple_testing" /\ plan = "none"
     \/ c = "adjusted_significance" /\ inferable /\ sample = "marginal"
     \/ c = "placebo" /\ (~inferable \/ sample = "shifted")}

\* A result whose checks all pass shows its figures, another keeps them for
\* review.
Gated(failed, figures) ==
  [status |-> IF failed = {} THEN "completed" ELSE "held", failed |-> failed, calculated |-> TRUE,
   shown |-> IF ~figures THEN "none" ELSE IF failed = {} THEN "published" ELSE "diagnostic"]

\* load_live_event_set refuses with fewer than five usable events, which may
\* happen while fewer issuers contribute than inference takes and must when
\* none does: analyze_assembled then reports an unavailable provider or too
\* little evidence.
TooFew(r) == r.sample = "few"
Uncalculated(reports) ==
  [NoResult EXCEPT !.status =
     IF \A c \in DOMAIN reports : reports[c] = "error" THEN "unavailable" ELSE "refused"]
Analyzed(r) ==
  IF TooFew(r) THEN Uncalculated(r.reports)
  ELSE Gated(FailedChecks(r.request.plan, r.reports, r.sample), TRUE)

\* The funnel: what is dropped, what is scored, and why the tone is held.
Ingested(items) == items \ {"stale"}
Relevant(items) == Ingested(items) \ {"offtopic"}
ReviewReasons(r) ==
  LET scored == Relevant(r.items) IN
  {c \in {"item_review", "excluded_input_evidence", "no_relevant_usable_news", "illustrative_fixture"} :
     \/ c = "item_review" /\ scored \cap {"flagged", "failing"} # {}
     \/ c = "excluded_input_evidence" /\ scored # r.items
     \/ c = "no_relevant_usable_news" /\ scored = {}
     \/ c = "illustrative_fixture" /\ r.request.kind = "fixture"}
Toned(items)  == Relevant(items) \ {"failing"}     \* score_items: the others have no score
Aggregated(r) == Gated(ReviewReasons(r), Toned(r.items) # {})
AllScorersFailed(items) == Relevant(items) # {} /\ Toned(items) = {}

-----------------------------------------------------------------------------
(* Records, bundles and the index.                                         *)

\* hold_terminal_result: a failure keeps its figures for diagnosis only.
Failures == {"unavailable", "failed", "refused"}
Hold(result, status) ==
  IF status \notin Failures THEN result
  ELSE [result EXCEPT !.status = status,
                      !.shown = IF @ = "published" THEN "diagnostic" ELSE @]

\* Attempt.finish and checkpoint.
FinishBare(r, status) == [r EXCEPT !.status = status]   \* (mutation) result as it was
Finish(r, status) ==
  [r EXCEPT !.status = status,
            !.result = IF @ = NoResult THEN @ ELSE Hold(@, status)]
At(r, stage) == [r EXCEPT !.stage = stage, !.past = @ \cup {stage}]

\* What record_outcome stores: the study, its gate and the peers.
Payload(r) == [reports |-> r.reports, sample |-> r.sample, failed |-> r.result.failed]

\* index_bundle compares the summary of the attempt with its bundle.
ReconcileFigures(b, summary) ==   \* (mutation) by the figures alone
  IF summary = NoOutcome THEN "no_summary"
  ELSE IF summary = Payload(b) THEN "matched" ELSE "summary_conflict_or_terminal_failure"
Reconcile(b, summary) ==
  IF summary = NoOutcome THEN "no_summary"
  ELSE IF summary = Payload(b) /\ b.status \in {"held", "completed"} THEN "matched"
  ELSE "summary_conflict_or_terminal_failure"

\* retained_inputs: what a later reader can calculate from again.
Retained(b) ==
  {i \in {"assembled_inputs", "saved_scores"} :
     IF i = "assembled_inputs" THEN "assembled" \in b.past
     ELSE "news_scoring" \in b.past /\ b.result # NoResult}

\* replay: the deterministic stages again, news with the scores as saved.
ReplayNews(b) == Aggregated(b)
Replayed(b) ==
  LET again(result) == IF Hold(result, b.status) = b.result THEN "matched" ELSE "mismatch" IN
  IF "assembled_inputs" \in Retained(b) THEN again(Analyzed(b))
  ELSE IF "saved_scores" \in Retained(b) THEN again(ReplayNews(b))
  ELSE "not_rebuildable"

\* read_bundle and write_once: a bundle is read only with a terminal status,
\* and never replaced by another; one cut short is not published at all.
ReadBundle(b) == b # NoRecord /\ b.status \in Terminal
WriteOnce(a)  == bundle[a] \in {NoRecord, run[a]} /\ bundle' = [bundle EXCEPT ![a] = run[a]]

-----------------------------------------------------------------------------
(* The command.  keystone's gate admits one command of a checkout at a     *)
(* time; a worker borrows the lease of its command and outlives it.        *)

GateFree ==
  \A a \in Attempts : parent[a] \in {"none", "done", "killed"} /\ worker[a] # "alive"
Stands(a, at)  == parent[a] = at
Goes(a, at)    == parent' = [parent EXCEPT ![a] = at]
Save(a, r)     == run' = [run EXCEPT ![a] = r]
Fault          == faults < MaxFaults /\ faults' = faults + 1
IsStudy(a)     == run[a].request.kind = "study"
Creates(a, r, at) ==
  /\ GateFree /\ run[a] = NoRecord /\ \A b \in 1..(a - 1) : run[b] # NoRecord
  /\ Save(a, r) /\ Goes(a, at) /\ UNCHANGED <<bundle, db, worker, faults>>

\* Attempt.create for a new request.  Attempts share no state but through a
\* retry, so those after the first are retries here.
Start(a) ==
  a = 1 /\ \E q \in Requests : Creates(a, Fresh(q, 0), IF q.kind = "study" THEN "checking" ELSE "launching")

\* --retry-from takes the request and the peers once accepted, whatever the
\* old attempt came to, and saves those peers in a second write.
Kept(old) == IF old.pinned # NoPin THEN old.pinned ELSE old.retry
Retry(a) ==
  \E of \in 1..(a - 1) :
    /\ run[of] # NoRecord /\ IsStudy(of)
    /\ LET kept == Kept(run[of]) IN
       IF kept = NoPin THEN Creates(a, Fresh(run[of].request, of), "checking")
       ELSE Creates(a, Fresh([run[of].request EXCEPT !.peers = kept.peers], of), "pinning")
PinRetry(a) ==
  /\ Stands(a, "pinning") /\ Goes(a, "checking")
  /\ LET kept == Kept(run[run[a].retry_of]) IN
     Save(a, [run[a] EXCEPT !.retry = kept, !.pinned = kept])
  /\ UNCHANGED <<bundle, db, worker, faults>>

\* main's handler: an attempt that is not sealed becomes a refused one and is
\* sealed, not indexed.
Refuse(a, r) == Save(a, Finish(r, "refused")) /\ Goes(a, "resealing")
PlanFits(q, peers) == q.plan = "none" \/ peers = PlanPeers
Check(a) ==
  /\ Stands(a, "checking")
  /\ LET q == run[a].request IN
     IF q.peers = AskModel \/ (q.peers # {} /\ PlanFits(q, q.peers))
     THEN Goes(a, "launching") /\ UNCHANGED run
     ELSE Refuse(a, run[a])
  /\ UNCHANGED <<bundle, db, worker, faults>>
Reseal(a) ==
  /\ Stands(a, "resealing") /\ Goes(a, "done")
  /\ \/ WriteOnce(a) /\ UNCHANGED faults
     \/ Fault /\ UNCHANGED bundle
  /\ UNCHANGED <<run, db, worker>>

\* run_bounded.
Launch(a) ==
  /\ Stands(a, "launching")
  /\ \/ /\ worker' = [worker EXCEPT ![a] = "alive"] /\ Goes(a, "waiting")
        /\ UNCHANGED <<run, faults>>
     \/ /\ Fault /\ Save(a, Finish(run[a], "failed")) /\ Goes(a, "sealing")
        /\ UNCHANGED worker
  /\ UNCHANGED <<bundle, db>>

\* The record the command itself has in memory, from before the worker.
AsStarted(r) == [Fresh(r.request, r.retry_of) EXCEPT !.retry = r.retry, !.pinned = r.retry]

\* The worker has ended: its record is read back and must be terminal and
\* agree with the exit code.
Collect(a) ==
  /\ Stands(a, "waiting") /\ worker[a] # "alive" /\ Goes(a, "sealing")
  /\ \/ /\ IF worker[a] = "exited" THEN UNCHANGED run ELSE Save(a, Finish(run[a], "failed"))
        /\ UNCHANGED faults
     \/ Fault /\ Save(a, Finish(AsStarted(run[a]), "failed"))
  /\ UNCHANGED <<bundle, db, worker>>

\* The deadline or ^C while it waits: the worker is killed, whatever it was
\* doing, and its record, terminal or not, ends unavailable.
Stopped(a) == worker' = [worker EXCEPT ![a] = IF @ = "alive" THEN "dead" ELSE @]
DeadlineUnkilled(a) ==    \* (mutation) the worker goes on
  Stands(a, "waiting") /\ Goes(a, "stopping") /\ UNCHANGED <<files, db, worker, faults>>
Deadline(a) ==
  Stands(a, "waiting") /\ Stopped(a) /\ Goes(a, "stopping") /\ UNCHANGED <<files, db, faults>>
Overtake(a) ==
  /\ Stands(a, "stopping")
  /\ \/ Save(a, Finish(run[a], "unavailable")) /\ Goes(a, "sealing") /\ UNCHANGED faults
     \/ Fault /\ IF IsStudy(a) THEN Refuse(a, AsStarted(run[a])) ELSE Goes(a, "done") /\ UNCHANGED run
  /\ UNCHANGED <<bundle, db, worker>>

Seal(a) ==
  /\ Stands(a, "sealing")
  /\ \/ WriteOnce(a) /\ Goes(a, "indexing") /\ UNCHANGED <<run, faults>>
     \/ /\ Fault /\ UNCHANGED bundle
        /\ IF IsStudy(a) THEN Refuse(a, run[a]) ELSE Goes(a, "done") /\ UNCHANGED run
  /\ UNCHANGED <<db, worker>>

IndexBundle(a) ==
  index' = [index EXCEPT ![a] = [status |-> bundle[a].status,
                                 reconciliation |-> Reconcile(bundle[a], outcome[a])]]
Index(a) ==
  /\ Stands(a, "indexing") /\ Goes(a, "done")
  /\ \/ IndexBundle(a) /\ UNCHANGED faults
     \/ Fault /\ UNCHANGED index
  /\ UNCHANGED <<files, outcome, worker>>
\* agent3.bundles --index-db, any time later; a second time changes nothing.
Reindex(a) ==
  /\ GateFree /\ ReadBundle(bundle[a]) /\ index[a] = NoRow
  /\ IndexBundle(a) /\ UNCHANGED <<files, outcome, parent, worker, faults>>

\* SIGKILL.
KillCommand(a) ==
  /\ parent[a] \notin {"none", "done", "killed"} /\ Fault /\ Goes(a, "killed")
  /\ UNCHANGED <<files, db, worker>>
KillWorker(a) ==
  /\ worker[a] = "alive" /\ Fault /\ worker' = [worker EXCEPT ![a] = "dead"]
  /\ UNCHANGED <<files, db, parent>>

-----------------------------------------------------------------------------
(* The worker.  Its position is the stage it saved last.                   *)

Works(a, stage) == worker[a] = "alive" /\ run[a].status = "running" /\ run[a].stage = stage
Saves(a, r)     == Save(a, r) /\ UNCHANGED <<bundle, db, parent, worker, faults>>
Ends(a, status) == Saves(a, Finish(run[a], status))
Exit(a) ==
  /\ worker[a] = "alive" /\ run[a].status \in Terminal
  /\ worker' = [worker EXCEPT ![a] = "exited"] /\ UNCHANGED <<files, db, parent, faults>>

\* analyze_event_type, _load_live: peers come from the attempt retried, from
\* the request, or from one audited question to the model.
Begin(a) == Works(a, "configuration") /\ IsStudy(a) /\ Saves(a, At(run[a], "assembly"))
SelectPeers(a) ==
  /\ Works(a, "assembly") /\ "peer_selection" \notin run[a].past
  /\ LET r == run[a] IN
     Saves(a, [At(r, "peer_selection") EXCEPT !.pinned =
       IF r.retry # NoPin THEN r.retry
       ELSE IF r.request.peers # AskModel THEN [peers |-> r.request.peers, by |-> "override"]
       ELSE NoPin])
Proposals == SUBSET Peers \ {{}}     \* those _validate_model accepts
ModelAnswers(a) ==
  /\ Works(a, "peer_selection") /\ run[a].pinned = NoPin
  /\ \E p \in Proposals :
       Saves(a, [run[a] EXCEPT !.pinned = [peers |-> p, by |-> "model"]])
ModelFails(a) ==
  /\ Works(a, "peer_selection") /\ run[a].pinned = NoPin
  /\ \E s \in {"unavailable", "refused"} : Ends(a, s)

\* load_live_event_set: one company after the other, each failure its own.
\* assemble_peer_events finds all, some or no usable windows; the provider may
\* not know a model's peer by the sites the model named.
Windows(a)  == Fetches[a]
Identity(r, c) == IF r.pinned.by = "model" /\ c # Target THEN {"excluded"} ELSE {}
StartAssembly(a) ==
  Works(a, "peer_selection") /\ run[a].pinned # NoPin /\ Saves(a, At(run[a], "assembly"))
Assembling(a) == Works(a, "assembly") /\ "peer_selection" \in run[a].past
Universe(r)   == {Target} \cup r.pinned.peers
BadPlan(a) ==
  Assembling(a) /\ ~PlanFits(run[a].request, run[a].pinned.peers) /\ Ends(a, "refused")
Fetch(a) ==
  /\ Assembling(a) /\ PlanFits(run[a].request, run[a].pinned.peers)
  /\ \E c \in Universe(run[a]) \ DOMAIN run[a].reports : \E f \in Windows(a) \cup Identity(run[a], c) :
       /\ c # Target => Target \in DOMAIN run[a].reports
       /\ Saves(a, [run[a] EXCEPT !.reports =
            [x \in DOMAIN @ \cup {c} |-> IF x = c THEN f ELSE @[x]]])
Drawn(a, issuers) ==
  IF issuers = {} THEN {"few"}
  ELSE IF Cardinality(issuers) >= MinIssuers THEN Samples[a] ELSE Samples[a] \cup {"few"}
Assembled(a) ==
  /\ Assembling(a) /\ DOMAIN run[a].reports = Universe(run[a])
  /\ \E s \in Drawn(a, Contributing(run[a].reports)) :
       Saves(a, [At(run[a], "assembled") EXCEPT !.sample = s])

\* analyze_assembled and execute: too little evidence is a result of its own.
Calculate(a) ==
  /\ Works(a, "assembled")
  /\ LET r == run[a] IN
     Saves(a, IF TooFew(r)
              THEN [At(r, "result") EXCEPT !.result = Analyzed(r)] ELSE At(r, "calculation"))
\* The calculating service answers with an error, or fails.
CalculationFails(a) ==
  /\ Works(a, "calculation") /\ Fault
  /\ \/ Save(a, [At(run[a], "result") EXCEPT !.result = [NoResult EXCEPT !.status = "unavailable"]])
     \/ Save(a, Finish(run[a], "failed"))
  /\ UNCHANGED <<bundle, db, parent, worker>>
Validate(a) ==
  \/ Works(a, "calculation") /\ Saves(a, At(run[a], "validation"))
  \/ /\ Works(a, "validation")
     /\ Saves(a, [At(run[a], "result") EXCEPT !.result = Analyzed(run[a])])

\* publication_allowed judges a completed result once more by its evidence.
Allowed(r) == r.result.status = "completed" /\ r.result.shown = "published"
                /\ FailedChecks(r.request.plan, r.reports, r.sample) = {}
Demoted(r) ==
  IF r.result.status # "completed" \/ Allowed(r) THEN r
  ELSE [r EXCEPT !.result.status = "held", !.result.shown = "diagnostic"]
Conclude(a) ==
  /\ Works(a, "result")
  /\ LET r == Demoted(run[a]) IN
     IF r.result.status \in {"held", "completed"} THEN Saves(a, At(r, "persistence"))
     ELSE Ends(a, r.result.status)
RecordOutcome(a) ==
  /\ Works(a, "persistence") /\ outcome[a] = NoOutcome
  /\ \/ outcome' = [outcome EXCEPT ![a] = Payload(run[a])] /\ UNCHANGED <<run, faults>>
     \/ Fault /\ Save(a, Finish(run[a], "failed")) /\ UNCHANGED outcome
  /\ UNCHANGED <<bundle, index, parent, worker>>
FinishStudy(a) ==
  Works(a, "persistence") /\ outcome[a] # NoOutcome /\ Ends(a, run[a].result.status)

\* news_execution: nothing is recorded but the record itself.
Search(a) ==
  /\ ~IsStudy(a)
  /\ \/ Works(a, "configuration") /\ Saves(a, At(run[a], "scorer_setup"))
     \/ Works(a, "scorer_setup") /\ Saves(a, At(run[a], "news_fetch"))
     \/ Works(a, "news_fetch") /\ \E items \in News :
          Saves(a, [At(run[a], "news_scoring") EXCEPT !.items = items])
SearchFails(a) ==
  \E s \in {"scorer_setup", "news_fetch", "news_scoring"} : Works(a, s) /\ Ends(a, "unavailable")
Score(a) ==
  /\ Works(a, "news_scoring")
  /\ Saves(a, [At(run[a], "news_result") EXCEPT !.result = Aggregated(run[a])])
FinishNews(a) ==
  /\ Works(a, "news_result")
  /\ Ends(a, IF AllScorersFailed(run[a].items) THEN "unavailable" ELSE run[a].result.status)

-----------------------------------------------------------------------------
Init ==
  /\ run = [a \in Attempts |-> NoRecord] /\ bundle = run
  /\ outcome = [a \in Attempts |-> NoOutcome] /\ index = [a \in Attempts |-> NoRow]
  /\ parent = [a \in Attempts |-> "none"] /\ worker = parent /\ faults = 0

Command(a) == \/ Start(a) \/ Retry(a) \/ PinRetry(a) \/ Check(a) \/ Reseal(a) \/ Launch(a)
              \/ Collect(a) \/ Deadline(a) \/ Overtake(a) \/ Seal(a) \/ Index(a) \/ Reindex(a)
Study(a)   == \/ Begin(a) \/ SelectPeers(a) \/ ModelAnswers(a) \/ ModelFails(a) \/ StartAssembly(a)
              \/ BadPlan(a) \/ Fetch(a) \/ Assembled(a) \/ Calculate(a) \/ CalculationFails(a)
              \/ Validate(a) \/ Conclude(a) \/ RecordOutcome(a) \/ FinishStudy(a)
Tone(a)    == Search(a) \/ SearchFails(a) \/ Score(a) \/ FinishNews(a)
Next == \E a \in Attempts :
          Command(a) \/ Study(a) \/ Tone(a) \/ Exit(a) \/ KillCommand(a) \/ KillWorker(a)

Spec == Init /\ [][Next]_vars
-----------------------------------------------------------------------------
(* Properties.                                                             *)

\* A sealed bundle is the last word: run.json beside it says the same, no
\* worker is left to change either, and it never changes, through deadlines,
\* kills and failed writes (execution.py:160-193).
SealedIsFinal ==
  \A a \in Attempts : bundle[a] # NoRecord =>
    bundle[a].status \in Terminal /\ run[a] = bundle[a] /\ worker[a] # "alive"

\* The index never counts an outcome a failed attempt left behind: only a held
\* or completed attempt matches, with the figures its bundle holds, and an
\* attempt indexed as without one has none to this day (catalyst_state.py:153).
IndexTruthful ==
  \A a \in Attempts : index[a] # NoRow =>
    /\ index[a].status = bundle[a].status
    /\ index[a].reconciliation = "matched" <=>
         bundle[a].status \in {"held", "completed"} /\ bundle[a].request.kind = "study"
    /\ index[a].reconciliation = "no_summary" <=> outcome[a] = NoOutcome
    /\ index[a].reconciliation = "matched" =>
         outcome[a] = [reports |-> bundle[a].reports, sample |-> bundle[a].sample,
                       failed |-> bundle[a].result.failed]

\* What an attempt shows it has earned: figures leave a terminal record only
\* when it completed, no check of the evidence it retains fails and, for a
\* study, its outcome is recorded; recomputing a held or completed bundle from
\* what it retains gives the same result again; and a retry of a study keeps
\* the peers once accepted (execution.py:94, bundles.py:157, run_live.py:46).
ShownIsEarned ==
  \A a \in Attempts : LET r == run[a] IN
    /\ r.status \in Terminal /\ r.result.shown = "published" =>
         /\ r.status = "completed"
         /\ IF r.request.kind = "study"
            THEN /\ \A c \in Universe(r) : r.reports[c] = "ok"
                 /\ Cardinality(Universe(r)) >= MinIssuers /\ r.request.plan = "reviewed"
                 /\ r.sample \in {"null", "effect"} /\ outcome[a] # NoOutcome
            ELSE r.items = {"clean"} /\ r.request.kind = "live"
    /\ bundle[a].status \in {"held", "completed"} => Replayed(bundle[a]) = "matched"
    /\ r.retry_of # 0 /\ r.pinned # NoPin /\ run[r.retry_of].pinned # NoPin =>
         r.pinned = run[r.retry_of].pinned
=============================================================================
