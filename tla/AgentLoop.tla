------------------------------ MODULE AgentLoop ------------------------------
(***************************************************************************)
(* The audited model loop (agent/loop.py) and what is published from it:   *)
(* a research report (run.py, composer.py, validation/) or the triage of a *)
(* monitoring cycle (monitoring/triage.py).  The model may ask for any     *)
(* tools in any order and answer anything.  model.json is the durable      *)
(* record; the budget file counts paid requests.  Figures are abstracted   *)
(* to the provider revision they came from and to what it has; the scripted*)
(* offline run is one behaviour of the loop, without budget and revision.  *)
(***************************************************************************)
EXTENDS Naturals, Sequences, FiniteSets, SequencesExt

CONSTANTS Kinds,       \* programs: "research", "triage"
          MaxIters,    \* MAX_ITERS
          MaxRequests, \* max_requests of an enabled budget
          MaxBatches,  \* bound: responses of one run that ask for tools
          MaxFaults,   \* bound: refused saves, failed tools and charts
          Menus,       \* bound: per tool call of a run, the tools it may be for
          Facts,       \* per provider revision: what its data have
          Flags,       \* items to triage
          Diagnostics  \* what flags each: "threshold", "anomaly" ("isolated": one value out of
                       \* a quiet series), "drift", "probability", "resolved"

\* What a tool's data may have or lack: statements that state currency, units
\* and periods, the lines of a positive free cash flow, debt and cash, positive
\* earnings; a quote in their currency; usable estimates; comparable years.
StatementFeatures == {"contract", "fcff", "bridge", "earnings"}
QuoteFeatures     == {"price"}
EstimateFeatures  == {"estimates"}
TrendFeatures     == {"years"}
Features == StatementFeatures \cup QuoteFeatures \cup EstimateFeatures \cup TrendFeatures
Fetchers == {"get_financials", "get_prices", "get_consensus", "get_historical_trend"}
Priced   == {"get_financials", "get_prices"}
DEPENDENCIES ==
  [t \in {"compute_ratios", "run_dcf", "peer_outlier_check", "compute_derived"} |->
     IF t = "compute_derived" THEN {"get_consensus", "run_dcf", "get_historical_trend"} ELSE Priced]
Computed == DOMAIN DEPENDENCIES
Required == {"get_financials", "get_prices", "get_consensus",
             "compute_ratios", "run_dcf", "peer_outlier_check"}
TriageTools == {"inspect_item", "recheck_flag"}
Tools == Fetchers \cup Computed \cup TriageTools

ASSUME LoopAssumption ==
  /\ Kinds \subseteq {"research", "triage"} /\ Menus \subseteq Seq(SUBSET (Fetchers \cup Computed))
  /\ {MaxIters, MaxRequests, MaxBatches, MaxFaults} \subseteq Nat /\ MaxIters > 0
  /\ Facts \in Seq(SUBSET Features) /\ Facts # <<>>
  /\ Diagnostics \in [Flags -> SUBSET {"threshold", "anomaly", "isolated", "drift",
                                      "probability", "resolved"}]

VARIABLES
  kind,     \* the program and
  menu,     \* what its model will ask for (a bound)
  pc,       \* where it is
  mem,      \* RunState: the audited execution
  turn,     \* iteration, last text, whether the revision was used, last response
  disk,     \* model.json
  files,    \* reports beside it
  budget,   \* requests left, requests reserved, whether one is unaccounted
  faults,   \* refused saves, failed tools and charts so far
  exit      \* exit code

world == <<menu, budget, faults>>
vars  == <<kind, pc, mem, turn, disk, files, world, exit>>

NoResult == [st |-> "none", of |-> <<0>>]
Start == [status |-> "running", reason |-> "", text |-> <<>>, turns |-> 0, inflight |-> "none",
          results |-> [t \in Tools |-> NoResult], stale |-> {}, failed |-> {}, fallback |-> FALSE]
NoDisk == [exec |-> Start, note |-> <<>>, errors |-> {}, artifacts |-> "none",
           confidence |-> "none", report |-> "none", publication |-> "none", order |-> <<>>]
NoResponse == [stop |-> "none", text |-> <<>>, tools |-> "none"]
Turn0 == [at |-> 0, partial |-> <<>>, revised |-> FALSE, batch |-> "none", batches |-> 0, response |-> NoResponse]
NoExit == 255
Budget0 == [left |-> 0, reserved |-> 0, unknown |-> FALSE]

-----------------------------------------------------------------------------
(* Tools: which figures one has, and what it is computed from.             *)

Ok(res, t) == res[t].st = "ok"
Of(res, t) == IF Ok(res, t) THEN res[t].of ELSE <<0>>
StatementBasis(res) == Of(res, "get_financials") \o Of(res, "get_prices")
DerivedBasis(res) ==
  Of(res, "get_consensus") \o Of(res, "run_dcf") \o Of(res, "get_historical_trend")
Basis(res, t) == IF t = "compute_derived" THEN DerivedBasis(res) ELSE StatementBasis(res)
Has(res, t, features) == Ok(res, t) /\ features \subseteq Facts[Head(res[t].of)]

\* financial_error and price_error against one another's currency and units.
Sound(res) == Has(res, "get_financials", {"contract"})
PriceFits(res) == res["get_prices"].st = "none" \/ Has(res, "get_prices", {"price"})
RatiosComputable(res) == Sound(res) /\ PriceFits(res)
\* Free cash flow is computable and positive, and in the model's scope.
DcfComputable(res) == Sound(res) /\ PriceFits(res) /\ Has(res, "get_financials", {"fcff"})
\* The target has a meaningful P/E; peers are the caller's.
PeersComparable(res) ==
  Sound(res) /\ Has(res, "get_prices", {"price"}) /\ Has(res, "get_financials", {"earnings"})
Computable(res, t) ==
  CASE t = "compute_ratios"     -> RatiosComputable(res)
    [] t = "run_dcf"            -> DcfComputable(res)
    [] t = "peer_outlier_check" -> PeersComparable(res)
    [] t = "compute_derived"    -> TRUE
Failed == [st |-> "error", of |-> <<0>>]
\* A provider may have restated its figures since they were last fetched.
Outputs(res, t) ==
  [st : {"ok"}, of : IF t \in Fetchers THEN {<<n>> : n \in DOMAIN Facts}
                     ELSE IF t \in TriageTools THEN {<<0>>}
                     ELSE IF Computable(res, t) THEN {Basis(res, t)} ELSE {}]

Needs(t) == IF t \in Computed THEN DEPENDENCIES[t] ELSE {}
\* A tool together with everything computed from it: the least set that the
\* loop of record_tool can stop at.
Closed(S) == \A t \in Tools : Needs(t) \cap S # {} => t \in S
Affected ==
  [t \in Tools |-> {d \in Tools : \A S \in SUBSET Tools : t \in S /\ Closed(S) => d \in S}]

\* The call log, kept as what the gate reads of it: results whose inputs were
\* called later, and tools whose latest call failed.
Called(m) == {t \in Tools : m.results[t].st # "none"} \cup m.failed
Log(m, t, succeeded) ==
  [m EXCEPT !.stale = (@ \ {t}) \cup {d \in Called(m) : t \in Needs(d)},
            !.failed = IF succeeded THEN @ \ {t} ELSE @ \cup {t}]
\* (mutation) Only direct dependents are removed.
RecordDirect(m, t, out) ==
  LET gone == {d \in Tools : t \in Needs(d)} IN
  [Log(m, t, out.st = "ok") EXCEPT
     !.results = [d \in Tools |-> IF d = t THEN out ELSE IF d \in gone THEN NoResult ELSE @[d]]]
\* record_tool: the result, without what was computed from the one before.
RecordTool(m, t, out) ==
  LET gone == Affected[t] IN
  [Log(m, t, out.st = "ok") EXCEPT
     !.results = [d \in Tools |-> IF d = t THEN out ELSE IF d \in gone THEN NoResult ELSE @[d]]]
\* A rejected request for another company leaves the results alone.
RecordRejected(m, t) == Log(m, t, FALSE)

-----------------------------------------------------------------------------
(* The publication decision.                                               *)

\* Texts: a claim of the valuation, one beside free prose, free figures.
Claims  == <<"claims">>
Prose   == <<"claims", "prose">>
Figures == <<"figures">>
Catalog(res)  == Ok(res, "get_financials")
Fallback == <<"catalog">>
Grounded(text, res) ==
  \/ text \in {Claims, Prose} /\ Catalog(res) /\ Ok(res, "run_dcf")
  \/ text = Fallback /\ Catalog(res)
Withheld(text) == text = Prose

\* assess: each operator is a group of its checks that fail or warn.
EvidenceFails(res) ==
  \/ \E t \in Required : ~Ok(res, t)
  \/ \E t \in Tools : res[t].st = "error"
  \/ ~Sound(res) \/ ~Has(res, "get_prices", {"price"})
ReconcileFails(res) ==
  \E t \in Computed : /\ res[t].st # "none" \/ t \in {"compute_ratios", "run_dcf"}
                      /\ ~Computable(res, t) \/ res[t].of # Basis(res, t)
ValuationFails(res) == ~Has(res, "run_dcf", {"bridge"})
PeersFail(res) == ~PeersComparable(res)
ComparisonFails(res) ==
  ~Has(res, "get_consensus", {"estimates"}) /\ ~Has(res, "get_historical_trend", {"years"})
CallLogFails(m) ==
  \E t \in (m.failed \cap Called(m)) \cup m.stale : m.results[t].st # "none"
\* The price adapters date no quote and fixtures are illustrative: a warning
\* stays whatever the run did.
SourceWarns(res) == Has(res, "get_prices", {}) 
ExecutionFails(m) == m.status # "completed"
\* (mutation) The execution is not asked whether it completed.
FailsTrusting(record) ==
  LET m == record.exec  res == m.results IN
  EvidenceFails(res) \/ ReconcileFails(res) \/ ValuationFails(res) \/ PeersFail(res)
    \/ ComparisonFails(res) \/ CallLogFails(m) \/ ~Grounded(record.note, res)
Fails(record) ==
  LET m == record.exec  res == m.results IN
  EvidenceFails(res) \/ ReconcileFails(res) \/ ValuationFails(res) \/ PeersFail(res)
    \/ ComparisonFails(res) \/ CallLogFails(m) \/ ~Grounded(record.note, res)
    \/ ExecutionFails(m)
Warns(record) ==
  SourceWarns(record.exec.results) \/ record.exec.fallback \/ record.errors # {}
    \/ Withheld(record.note)
\* aggregate_checks: confidence and, with it, the verdict.
Confidence(record) ==
  IF Fails(record) THEN "low" ELSE IF Warns(record) THEN "medium" ELSE "high"
Assessed(record) == [record EXCEPT !.confidence = Confidence(record)]
ReportName(record) ==
  IF record.confidence = "high" THEN "report.html" ELSE "report_REVIEW.html"
ExitCode(record) ==
  IF record.exec.reason = "interrupted" THEN 130
  ELSE IF record.exec.status = "failed" \/ record.artifacts \in {"failed", "degraded"} THEN 1
  ELSE IF record.exec.status # "completed" THEN 4
  ELSE IF record.confidence = "high" THEN 0 ELSE 3

-----------------------------------------------------------------------------
(* Saving: atomic, or refused by the file system.                          *)

\* The record write_sidecar makes of the run so far; triage keeps its own.
Snap(m) ==
  IF kind = "research"
    THEN [NoDisk EXCEPT !.exec = m, !.note = m.text, !.artifacts = "pending"]
    ELSE [disk EXCEPT !.exec = m, !.publication = "pending"]
Saved(record, next) ==
  disk' = record /\ pc' = next /\ UNCHANGED <<faults, exit>>
Refused(next) ==
  faults < MaxFaults /\ faults' = faults + 1 /\ pc' = next /\ UNCHANGED <<disk, exit>>
\* (mutation) A run goes on without its audit record.
CheckpointBestEffort(m, next) ==
  mem' = m /\ (Saved(Snap(m), next) \/ Refused(next))
\* A checkpoint error ends the run.
Checkpoint(m, next) == mem' = m /\ (Saved(Snap(m), next) \/ Refused("raised"))
Finish(st, reason, text) ==
  /\ Checkpoint([mem EXCEPT !.status = st, !.reason = reason, !.text = text,
                            !.inflight = "none"], "finished")
  /\ turn' = Turn0 /\ menu' = <<>> /\ UNCHANGED <<kind, files>>
Exit(code) == pc' = "done" /\ exit' = code
\* What nothing reads any more is forgotten (a bound).
LoopOver == turn' = Turn0 /\ menu' = <<>> /\ budget' = Budget0

\* A state of the program between a kill and a rebuild.
Alive == pc \notin {"done", "killed"}

Init ==
  /\ kind \in Kinds /\ pc = "start"
  /\ menu \in IF kind = "research" THEN Menus ELSE {<<TriageTools>>}
  /\ mem = Start /\ turn = Turn0 /\ disk = NoDisk /\ files = {}
  /\ budget \in {[Budget0 EXCEPT !.left = n] : n \in {0, MaxRequests}}
  /\ faults = 0 /\ exit = NoExit

\* _execute, run_triage_record: no model call before a first durable record.
Begin ==
  /\ pc = "start"
  /\ \/ Saved(Snap(mem), "setup")
     \/ faults < MaxFaults /\ faults' = faults + 1 /\ Exit(1) /\ UNCHANGED disk
  /\ UNCHANGED <<kind, menu, mem, turn, files, budget>>
\* No credentials.
MissingKey ==
  /\ pc = "setup" /\ Exit(1)
  /\ mem' = [mem EXCEPT !.status = "failed", !.reason = "missing_credentials"]
  /\ disk' = [Snap(mem') EXCEPT !.publication = "withheld"]
  /\ UNCHANGED <<kind, turn, files, world>>
LoopStart ==
  /\ pc = "setup" /\ Checkpoint(mem, "ask")
  /\ UNCHANGED <<kind, menu, turn, files, budget>>

-----------------------------------------------------------------------------
(* One iteration.                                                          *)

AskModel ==
  /\ pc = "ask" /\ turn.at < MaxIters
  /\ Checkpoint([mem EXCEPT !.inflight = "model"], "asking")
  /\ UNCHANGED <<kind, menu, turn, files, budget>>
Exhausted ==
  /\ pc = "ask" /\ turn.at = MaxIters /\ Finish("incomplete", "iteration_limit", turn.partial)
  /\ UNCHANGED budget

\* keystone.budget.reserve: counted before the network is used.
Affordable == budget.left > budget.reserved /\ ~budget.unknown
Reserve ==
  /\ pc = "asking" /\ Affordable
  /\ budget' = [budget EXCEPT !.reserved = @ + 1, !.unknown = TRUE]
  /\ pc' = "paid"
  /\ UNCHANGED <<kind, menu, mem, turn, disk, files, faults, exit>>
ModelError ==
  /\ Checkpoint([mem EXCEPT !.status = "failed", !.reason = "model_error", !.turns = @ + 1,
                            !.text = turn.partial, !.inflight = "none"], "finished")
  /\ turn' = Turn0 /\ menu' = <<>>
\* What is affordable may be refused too: the deadline, a limit on sizes or
\* tokens, a lock held by another process.
BudgetRefuses ==
  /\ pc = "asking" /\ ModelError
  /\ UNCHANGED <<kind, files, budget>>
\* report: the usage becomes known, unless the answer lacks it.
Report == budget' \in {budget, [budget EXCEPT !.unknown = FALSE]}
ModelFails ==
  /\ pc = "paid" /\ ModelError /\ Report
  /\ UNCHANGED <<kind, files>>
ModelInterrupted ==
  /\ pc \in {"asking", "paid"} /\ Finish("incomplete", "interrupted", turn.partial)
  /\ UNCHANGED budget
InvalidResponse ==
  /\ pc = "paid" /\ Report /\ Finish("failed", "invalid_model_response", turn.partial)

Texts == IF kind = "research" THEN {<<>>, Claims, Prose, Figures}
         ELSE {<<>>, <<"unparseable">>} \cup SeqOf(Flags, Cardinality(Flags) + 1)
Responses ==
  [stop : {"end_turn"}, text : Texts, tools : {"none"}]
    \cup {[stop |-> "tool_use", text |-> <<>>, tools |-> "some"],
          [stop |-> "end_turn", text |-> <<>>, tools |-> "some"],
          [stop |-> "max_tokens", text |-> Claims, tools |-> "none"],
          [stop |-> "tool_use", text |-> <<>>, tools |-> "none"],
          [stop |-> "tool_use", text |-> <<>>, tools |-> "repeated"]}
Answer ==
  /\ pc = "paid" /\ Report
  /\ Checkpoint([mem EXCEPT !.turns = @ + 1, !.inflight = "none"], "answered")
  /\ \E r \in Responses : turn' = [turn EXCEPT !.response = r, !.partial = r.text]
  /\ UNCHANGED <<kind, menu, files>>

\* What the loop does with it, in the order of its checks.
Response == turn.response
RevisionAsksTools == turn.revised /\ Response.tools # "none"
Ended == Response.stop = "end_turn" /\ Response.tools = "none"
\* _narrative_feedback, once, while an iteration is left.
Revisable ==
  /\ kind = "research" /\ ~turn.revised /\ turn.partial # <<>>
  /\ ~Grounded(turn.partial, mem.results) /\ turn.at + 1 < MaxIters
Revise ==
  /\ pc = "answered" /\ Ended /\ Revisable
  /\ turn' = [Turn0 EXCEPT !.at = turn.at + 1, !.partial = turn.partial, !.revised = TRUE]
  /\ Checkpoint(mem, "ask")
  /\ UNCHANGED <<kind, menu, files, budget>>
Verdict ==
  CASE RevisionAsksTools -> <<"incomplete", "narrative_revision_requested_tools">>
    [] ~RevisionAsksTools /\ Ended ->
         IF turn.partial # <<>> THEN <<"completed", "end_turn">>
                                ELSE <<"incomplete", "empty_answer">>
    [] ~RevisionAsksTools /\ Response.stop = "end_turn" /\ Response.tools # "none" ->
         <<"failed", "invalid_tool_protocol">>
    [] ~RevisionAsksTools /\ Response.stop \notin {"end_turn", "tool_use"} ->
         <<"incomplete", Response.stop>>
    [] OTHER -> <<"failed", "invalid_tool_protocol">>
Batchable == ~RevisionAsksTools /\ Response.stop = "tool_use" /\ Response.tools = "some"
Conclude ==
  /\ pc = "answered" /\ ~Batchable /\ ~(Ended /\ Revisable)
  /\ Finish(Verdict[1], Verdict[2], turn.partial)
  /\ UNCHANGED budget
StartBatch ==
  /\ pc = "answered" /\ Batchable /\ turn.batches < MaxBatches /\ menu # <<>>
  /\ pc' = "batch"
  /\ turn' = [turn EXCEPT !.response = NoResponse, !.batch = "asked", !.batches = @ + 1]
  /\ UNCHANGED <<kind, mem, disk, files, world, exit>>

ToolStart(t) ==
  /\ pc = "batch" /\ menu # <<>> /\ t \in Head(menu) /\ menu' = Tail(menu)
  /\ Checkpoint([mem EXCEPT !.inflight = t], "executing")
  /\ turn' = [turn EXCEPT !.batch = "some"]
  /\ UNCHANGED <<kind, files, budget>>
EndBatch ==
  /\ pc = "batch" /\ turn.batch = "some"
  /\ pc' = "ask" /\ turn' = [turn EXCEPT !.at = @ + 1, !.batch = "none"]
  /\ UNCHANGED <<kind, mem, disk, files, world, exit>>
ToolReturns(t) ==
  /\ pc = "executing" /\ mem.inflight = t
  /\ \E out \in Outputs(mem.results, t) :
       Checkpoint([RecordTool(mem, t, out) EXCEPT !.inflight = "none"], "batch")
  /\ UNCHANGED <<kind, menu, turn, files, budget>>
\* The provider, the arguments or the tool itself fail or its inputs are not
\* there yet, or the request was for another company.
ToolFails(t) ==
  /\ pc = "executing" /\ mem.inflight = t /\ faults < MaxFaults
  /\ \E m \in {RecordTool(mem, t, Failed), RecordRejected(mem, t)} :
       mem' = [m EXCEPT !.inflight = "none"]
  /\ disk' = Snap(mem') /\ pc' = "batch" /\ faults' = faults + 1
  /\ UNCHANGED <<kind, menu, turn, files, budget, exit>>
ToolInterrupted(t) ==
  /\ pc = "executing" /\ mem.inflight = t
  /\ Checkpoint([RecordTool(mem, t, Failed) EXCEPT !.inflight = "none", !.status = "incomplete",
                   !.reason = "interrupted", !.text = turn.partial], "finished")
  /\ turn' = Turn0 /\ menu' = <<>> /\ UNCHANGED <<kind, files, budget>>

-----------------------------------------------------------------------------
(* After the loop.                                                         *)

\* _execute's handler; in triage the error reaches the caller.
Raised ==
  /\ pc = "raised"
  /\ IF kind = "triage" THEN Exit(1) /\ UNCHANGED mem
     ELSE /\ pc' = "final" /\ UNCHANGED exit
          /\ mem' = [mem EXCEPT !.status = "failed", !.reason = "execution_error",
                                !.inflight = "none"]
  /\ LoopOver /\ UNCHANGED <<kind, disk, files, faults>>
\* _finalize_narrative: a rejected text gives way to the plain evidence.
Finalize ==
  /\ pc = "finished" /\ kind = "research"
  /\ IF mem.status = "completed" /\ ~Grounded(mem.text, mem.results) /\ Catalog(mem.results)
       THEN mem' = [mem EXCEPT !.text = Fallback, !.fallback = TRUE] ELSE mem' = mem
  /\ pc' = "final" /\ LoopOver
  /\ UNCHANGED <<kind, disk, files, faults, exit>>
\* An exception from here on leaves the last record and exit code 1.
SaveRefused ==
  /\ pc \in {"final", "emit", "history"}
  /\ faults < MaxFaults /\ faults' = faults + 1 /\ Exit(1)
  /\ UNCHANGED <<kind, menu, mem, turn, disk, files, budget>>
FinalSnapshot ==
  /\ pc = "final" /\ disk' = Snap(mem)
  /\ IF mem.reason = "interrupted" THEN Exit(130) ELSE pc' = "emit" /\ UNCHANGED exit
  /\ UNCHANGED <<kind, mem, turn, files, world>>
\* _emit_artifacts: assessed and saved before anything else is fetched.
EmitAssessed ==
  /\ pc = "emit" /\ disk' = Assessed(Snap(mem)) /\ pc' = "history" /\ mem' = Start
  /\ UNCHANGED <<kind, turn, files, world, exit>>
FetchHistories ==
  /\ pc = "history" /\ pc' = "build"
  /\ \E e \in {{}, {"fetch"}} : disk' = [disk EXCEPT !.errors = @ \cup e]
  /\ UNCHANGED <<kind, mem, turn, files, world, exit>>
HistoryInterrupted ==
  /\ pc = "history" /\ Exit(130)
  /\ disk' = [disk EXCEPT !.errors = @ \cup {"fetch"}, !.artifacts = "failed"]
  /\ UNCHANGED <<kind, mem, turn, files, world>>

\* build_report, of a run just made or of a saved record: earlier reports are
\* withdrawn before anything is read.
Withdraw ==
  /\ pc = "build" /\ files' = {} /\ pc' = "reassess"
  /\ UNCHANGED <<kind, mem, turn, disk, world, exit>>
Reassess ==
  /\ pc = "reassess" /\ pc' = "render"
  /\ disk' = Assessed([disk EXCEPT !.errors = @ \cap {"fetch"}, !.artifacts = "building"])
  /\ UNCHANGED <<kind, mem, turn, files, world, exit>>
RenderCharts ==
  /\ pc = "render" /\ pc' = "write"
  /\ \E e \in {{}, {"chart"}} :
       LET record == Assessed([disk EXCEPT !.errors = @ \cup e])
       IN disk' = [record EXCEPT !.report = ReportName(record)]
  /\ UNCHANGED <<kind, mem, turn, files, world, exit>>
WriteReport ==
  /\ pc = "write" /\ pc' = "complete" /\ files' = files \cup {disk.report}
  /\ UNCHANGED <<kind, mem, turn, disk, world, exit>>
CompleteReport ==
  /\ pc = "complete"
  /\ disk' = [disk EXCEPT !.artifacts = IF disk.errors = {} THEN "complete" ELSE "degraded"]
  /\ Exit(ExitCode(disk'))
  /\ UNCHANGED <<kind, mem, turn, files, world>>
\* Whatever fails in it withdraws the report again; the record says so, if it
\* can still be saved.
Broken == [disk EXCEPT !.artifacts = "failed", !.report = "none", !.errors = @ \cup {"report"}]
\* (mutation) The report written so far is kept.
BuildFailsKeeping(code) ==
  /\ pc \in {"reassess", "render", "write", "complete"} /\ faults < MaxFaults
  /\ faults' = faults + 1 /\ disk' \in {disk, Broken} /\ Exit(code)
  /\ UNCHANGED <<kind, menu, mem, turn, files, budget>>
BuildFails(code) ==
  /\ pc \in {"reassess", "render", "write", "complete"} /\ faults < MaxFaults
  /\ faults' = faults + 1 /\ files' = {} /\ disk' \in {disk, Broken} /\ Exit(code)
  /\ UNCHANGED <<kind, menu, mem, turn, budget>>

\* run_triage_record: a completed run that orders exactly the flags is
\* published, active breaches first.
Selected(text) == Len(text) = Cardinality(Flags) /\ ToSet(text) = Flags
\* recheck_flag: what Python recommends for an item, whatever the model wrote.
Breaching(i) == "threshold" \in Diagnostics[i]
Recheck(i) ==
  LET d == Diagnostics[i]
      signals  == d \cap {"threshold", "anomaly", "drift", "probability"}
      isolated == {"anomaly", "isolated"} \subseteq d
      verdict  == IF Breaching(i) THEN IF isolated THEN "breach_verify" ELSE "breach"
                  ELSE IF Cardinality(signals) >= 2
                  THEN IF isolated THEN "corroborated_but_verify" ELSE "corroborated"
                  ELSE IF "anomaly" \in d THEN "isolated"
                  ELSE IF "resolved" \in d THEN "resolved" ELSE "weak"
  IN  [item |-> i, verdict |-> verdict,
       escalate |-> verdict \notin {"isolated", "resolved", "weak"}, verify |-> "anomaly" \in d]
\* sorted by whether an item is breaching, stably: which of two positions comes
\* first, and what ends up at each.
Ahead(text, m, n) == IF Breaching(text[m]) = Breaching(text[n]) THEN m < n ELSE Breaching(text[m])
Place(text, n) == Cardinality({m \in DOMAIN text : Ahead(text, m, n)}) + 1
Sorted(text) == [k \in DOMAIN text |-> text[CHOOSE n \in DOMAIN text : Place(text, n) = k]]
Render(text) == LET order == Sorted(text) IN [k \in DOMAIN order |-> Recheck(order[k])]
PublishTriage ==
  /\ pc = "finished" /\ kind = "triage"
  /\ LET accepted == mem.status = "completed" /\ Selected(mem.text) IN
     \/ /\ disk' = [disk EXCEPT !.publication = IF accepted THEN "published" ELSE "withheld",
                                !.order = IF accepted THEN Render(mem.text) ELSE <<>>]
        /\ Exit(IF accepted THEN 0 ELSE 1) /\ UNCHANGED faults
     \/ faults < MaxFaults /\ faults' = faults + 1 /\ Exit(1) /\ UNCHANGED disk
  /\ UNCHANGED <<kind, menu, mem, turn, files, budget>>

Kill ==
  /\ Alive /\ pc' = "killed" /\ LoopOver /\ mem' = Start
  /\ UNCHANGED <<kind, disk, files, faults, exit>>
\* run.py --rebuild, on whatever record the run left.
Rebuild ==
  /\ ~Alive /\ kind = "research" /\ disk.artifacts # "none"
  /\ pc' = "build" /\ exit' = NoExit /\ mem' = Start
  /\ UNCHANGED <<kind, menu, turn, disk, files, budget, faults>>

Setup  == Begin \/ MissingKey \/ LoopStart
Asking == AskModel \/ Exhausted \/ Reserve \/ BudgetRefuses \/ ModelFails
            \/ ModelInterrupted \/ InvalidResponse \/ Answer
Using  == \/ Revise \/ Conclude \/ StartBatch \/ EndBatch
          \/ \E t \in Tools : ToolStart(t) \/ ToolReturns(t) \/ ToolFails(t) \/ ToolInterrupted(t)
Ending == Raised \/ Finalize \/ FinalSnapshot \/ SaveRefused \/ PublishTriage
Reporting == \/ EmitAssessed \/ FetchHistories \/ HistoryInterrupted
             \/ Withdraw \/ Reassess \/ RenderCharts \/ WriteReport \/ CompleteReport
             \/ \E code \in {1, 130} : BuildFails(code)
Next == Setup \/ Asking \/ Using \/ Ending \/ Reporting \/ Kill \/ Rebuild

Spec == Init /\ [][Next]_vars
-----------------------------------------------------------------------------
(* Properties.                                                             *)

\* What a saved or running analysis says was computed was computed from the
\* figures beside it, through refreshed inputs, failed calls and requests for
\* another company (record_tool, agent/state.py:49-72).
EvidenceCurrent ==
  \A res \in {mem.results, disk.exec.results} : \A t \in Computed :
    Ok(res, t) => res[t].of = Basis(res, t)

\* No paid request and no tool runs that the durable record does not show, and
\* no second request is paid while one before it is unrecorded: a run that can
\* no longer be saved stops (loop.py:18-20).
SpendAudited ==
  /\ pc \in {"asking", "paid"} => disk.exec.inflight = "model" /\ disk.exec.turns = mem.turns
  /\ pc = "executing" => disk.exec.inflight = mem.inflight /\ disk.exec.results = mem.results
  /\ budget.reserved <= disk.exec.turns + 1

\* At most one report exists, the one the saved record names, whatever failed
\* or was killed while it was rebuilt; none is an approved one, for no
\* provider dates its quotes (composer.py:414-416); and the exit code that
\* announces a report for review tells the truth.
ReportIsCurrent ==
  /\ files \subseteq {disk.report} /\ "report.html" \notin files
  /\ exit = 3 => /\ files = {disk.report} /\ disk.exec.status = "completed"
                 /\ disk.artifacts = "complete"

\* A record earns more than low confidence only with a completed run, every
\* required tool on sound and current inputs and a text bound to them; a
\* triage is published only with every flag once, active breaches first and
\* escalated, and nothing else escalated for a single diagnostic.
PublishedIsEarned ==
  /\ disk.confidence \in {"medium", "high"} =>
       LET res == disk.exec.results IN
       /\ disk.exec.status = "completed"
       /\ \A t \in Required : Ok(res, t)
       /\ \A t \in {"compute_ratios", "run_dcf", "peer_outlier_check"} :
            res[t].of = res["get_financials"].of \o res["get_prices"].of
       /\ {"contract", "fcff", "bridge", "earnings"} \subseteq Facts[res["get_financials"].of[1]]
       /\ disk.note # Figures
  /\ disk.publication = "published" =>
       /\ disk.exec.status = "completed"
       /\ {line.item : line \in ToSet(disk.order)} = Flags /\ Len(disk.order) = Cardinality(Flags)
       /\ \A i \in DOMAIN disk.order : LET line == disk.order[i] IN
            /\ "threshold" \in Diagnostics[line.item] =>
                 line.escalate /\ \A j \in 1..(i - 1) : "threshold" \in Diagnostics[disk.order[j].item]
            /\ line.escalate /\ "threshold" \notin Diagnostics[line.item] =>
                 Cardinality(Diagnostics[line.item] \ {"isolated", "resolved"}) > 1
=============================================================================
