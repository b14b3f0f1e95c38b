---------------------------- MODULE AgentLoopProofs ----------------------------
(***************************************************************************)
(* Proofs about AgentLoop for any menus, provider revisions, limits and    *)
(* flags.  IInv is the inductive invariant: results agree with their       *)
(* inputs in memory and on disk, the disk knows what is under way while    *)
(* money is spent, no earlier report is left when a report is decided, and *)
(* a record that earned confidence still meets every check.                *)
(***************************************************************************)
EXTENDS AgentLoop, SequenceTheorems, FiniteSetTheorems, TLAPS

Basics    == Seq(Nat) \ {<<>>}
Results   == [Tools -> [st : {"none", "ok", "error"}, of : Basics]]
SomeTexts == {<<>>, Claims, Prose, Figures, Fallback, <<"unparseable">>}
               \cup SeqOf(Flags, Cardinality(Flags) + 1)
Statuses == {"running", "completed", "incomplete", "failed"}
Stops    == {"none", "end_turn", "tool_use", "max_tokens"}
Reasons  == {"", "missing_credentials", "model_error", "interrupted", "invalid_model_response",
             "narrative_revision_requested_tools", "empty_answer", "invalid_tool_protocol",
             "iteration_limit", "execution_error"} \cup Stops
Execs    == [status : Statuses, reason : Reasons, text : SomeTexts, turns : Nat,
             inflight : Tools \cup {"none", "model"}, results : Results, stale : SUBSET Tools,
             failed : SUBSET Tools, fallback : BOOLEAN]
Errors   == {"fetch", "chart", "report"}
Records(order) ==
  [exec : Execs, note : SomeTexts, errors : SUBSET Errors,
   artifacts : {"none", "pending", "building", "complete", "degraded", "failed"},
   confidence : {"none", "low", "medium", "high"},
   report : {"none", "report.html", "report_REVIEW.html"},
   publication : {"none", "pending", "withheld", "published"}, order : {order}]
Answers  == [stop : Stops, text : SomeTexts, tools : {"none", "some", "repeated"}]
Turns    == [at : Nat, partial : SomeTexts, revised : BOOLEAN, batch : {"none", "asked", "some"},
             batches : Nat, response : Answers]
Budgets  == [left : Nat, reserved : Nat, unknown : BOOLEAN]
LoopPcs  == {"start", "setup", "ask", "asking", "paid", "answered", "batch", "executing"}
ReportPcs == {"final", "emit", "history", "build", "reassess", "render", "write", "complete"}
Pcs      == LoopPcs \cup ReportPcs \cup {"finished", "raised", "done", "killed"}

TypeOK ==
  /\ kind \in {"research", "triage"} /\ pc \in Pcs
  /\ mem \in Execs /\ turn \in Turns /\ disk \in Records(disk.order)
  /\ files \subseteq {"report.html", "report_REVIEW.html"}
  /\ budget \in Budgets
  /\ faults \in Nat /\ exit \in Nat

\* Where money may be spent, and where no report may be left of before.
OncePcs  == LoopPcs \cup {"finished", "raised", "final", "emit", "history"}
EmptyPcs == OncePcs \cup {"reassess", "render", "write"}
\* What was computed was computed from the results beside it.
Agrees(res) == \A t \in Computed : Ok(res, t) => res[t].of = Basis(res, t)
EvidenceInv == Agrees(mem.results) /\ Agrees(disk.exec.results)

\* The record on disk keeps up with the run while it may spend.
SpendInv ==
  /\ pc \in LoopPcs => disk.exec.turns = mem.turns
  /\ pc \in LoopPcs \ {"paid"} => budget.reserved <= disk.exec.turns
  /\ budget.reserved <= disk.exec.turns + 1
  /\ pc \in {"asking", "paid"} => disk.exec.inflight = "model"
  /\ pc = "executing" => disk.exec.inflight = mem.inflight /\ disk.exec.results = mem.results
  /\ pc \in ReportPcs \cup {"start", "setup"} => budget.reserved = 0
  /\ pc \in {"done", "killed"} /\ kind = "research" => budget.reserved = 0

\* No report is left when one is decided; the exit code is of a program that
\* is over.
ReportInv ==
  /\ pc \in EmptyPcs => files = {}
  /\ pc = "write" => disk.report = "report_REVIEW.html"
  /\ pc = "complete" => files = {disk.report}
  /\ files \subseteq {disk.report} /\ disk.report # "report.html"
  /\ pc # "done" => exit = NoExit
  /\ exit = 3 => /\ files = {disk.report} /\ disk.exec.status = "completed"
                 /\ disk.artifacts = "complete"

\* Confidence and publication are of the execution they are saved with.
EarnedInv ==
  /\ disk.confidence \in {"medium", "high"} => ~Fails(disk)
  /\ pc \in ReportPcs => kind = "research"
  /\ kind = "triage" => disk.confidence = "none"
  /\ pc = "finished" => disk.exec = mem
  /\ disk.publication = "published" =>
       /\ kind = "triage" /\ pc \in {"done"}
       /\ disk.exec.status = "completed" /\ Selected(disk.exec.text)
       /\ disk.order = Render(disk.exec.text)

IInv == TypeOK /\ EvidenceInv /\ SpendInv /\ ReportInv /\ EarnedInv

-----------------------------------------------------------------------------
(* Tools.                                                                  *)

\* What depends on a member is a member, and no tool depends on itself.
LEMMA AffectedCloses ==
  ASSUME NEW t \in Tools
  PROVE  /\ t \in Affected[t] /\ Affected[t] \subseteq Tools /\ Closed(Affected[t])
         /\ Needs(t) \cap Affected[t] = {}
<1>1. Affected[t] = {d \in Tools : \A S \in SUBSET Tools : t \in S /\ Closed(S) => d \in S}
  BY DEF Affected
<1>2. t \in Affected[t] /\ Affected[t] \subseteq Tools
  BY <1>1
<1>3. ASSUME NEW d \in Tools, NEW e \in Needs(d), e \in Affected[t] PROVE d \in Affected[t]
  <2> SUFFICES ASSUME NEW S \in SUBSET Tools, t \in S, Closed(S) PROVE d \in S
    BY <1>1
  <2>1. e \in S
    BY <1>1, <1>3
  <2> QED
    BY <1>3, <2>1 DEF Closed
<1>4. Closed(Affected[t])
  BY <1>3 DEF Closed
<1>5. ASSUME t \in Computed PROVE Needs(t) \cap Affected[t] = {}
  <2> DEFINE S == {t, "compute_derived"}
  <2>1. S \in SUBSET Tools /\ t \in S
    BY <1>5 DEF Tools, Computed, DEPENDENCIES
  <2>2. \A d \in Tools : Needs(d) \cap S # {} => d \in S
    BY <1>5 DEF Tools, Computed, DEPENDENCIES, Needs, Priced, Fetchers, TriageTools
  <2>3. Needs(t) \cap S = {}
    BY <1>5 DEF Computed, DEPENDENCIES, Needs, Priced
  <2> QED
    BY <1>1, <2>1, <2>2, <2>3 DEF Closed
<1> QED
  BY <1>2, <1>4, <1>5 DEF Needs

LEMMA NeedsOf ==
  /\ Needs("compute_ratios") = Priced /\ Needs("run_dcf") = Priced
  /\ Needs("peer_outlier_check") = Priced
  /\ Needs("compute_derived") = {"get_consensus", "run_dcf", "get_historical_trend"}
  /\ Computed = {"compute_ratios", "run_dcf", "peer_outlier_check", "compute_derived"}
  /\ \A t \in Tools \ Computed : Needs(t) = {}
BY DEF Needs, Computed, DEPENDENCIES

\* A tool's basis is what it needs.
LEMMA SameBasis ==
  ASSUME NEW t \in Computed, NEW old, NEW new, \A n \in Needs(t) : new[n] = old[n]
  PROVE  Basis(new, t) = Basis(old, t)
BY NeedsOf DEF Basis, StatementBasis, DerivedBasis, Of, Ok, Priced

LEMMA NoneType == <<0>> \in Basics
  BY DEF Basics

LEMMA BasisType ==
  ASSUME NEW res \in Results, NEW t \in Tools
  PROVE  /\ Of(res, t) \in Basics /\ Basis(res, t) \in Basics
         /\ res[t].st \in {"none", "ok", "error"} /\ res[t].of \in Basics
<1>1. \A d \in Tools : Of(res, d) \in Basics
  BY NoneType DEF Of, Results
<1>2. \A a, b \in Basics : a \o b \in Basics
  <2> SUFFICES ASSUME NEW a \in Basics, NEW b \in Basics PROVE a \o b \in Basics
    OBVIOUS
  <2>1. a \in Seq(Nat) /\ b \in Seq(Nat) /\ a # <<>>
    BY DEF Basics
  <2>2. a \o b \in Seq(Nat) /\ a \o b # <<>>
    BY <2>1, ConcatProperties, ConcatEqualIffEmpty
  <2> QED
    BY <2>2 DEF Basics
<1>3. Fetchers \subseteq Tools /\ "run_dcf" \in Tools
  BY NeedsOf DEF Tools
<1>4. StatementBasis(res) \in Basics /\ DerivedBasis(res) \in Basics
  BY <1>1, <1>2, <1>3 DEF StatementBasis, DerivedBasis, Fetchers
<1> QED
  BY <1>1, <1>4 DEF Basis, Results

\* What a tool returns, and what is recorded of it.
LEMMA OutputType ==
  ASSUME NEW res \in Results, NEW t \in Tools, NEW out \in Outputs(res, t)
  PROVE  /\ out \in [st : {"none", "ok", "error"}, of : Basics]
         /\ t \in Computed => out.of = Basis(res, t)
<1>1. \A n \in DOMAIN Facts : <<n>> \in Basics
  BY LoopAssumption DEF Basics
<1>2. Fetchers \cap Computed = {} /\ TriageTools \cap Computed = {}
  BY NeedsOf DEF Fetchers, TriageTools
<1> QED
  BY <1>1, <1>2, NoneType, BasisType DEF Outputs

LEMMA LogType ==
  ASSUME NEW m \in Execs, NEW t \in Tools, NEW b \in BOOLEAN
  PROVE  /\ Log(m, t, b) \in Execs /\ Log(m, t, b).results = m.results
         /\ Log(m, t, b).turns = m.turns
<1>1. Called(m) \subseteq Tools
  BY DEF Called, Execs
<1> QED
  BY <1>1 DEF Log, Execs

\* record_tool keeps the results in agreement.
LEMMA RecordAgrees ==
  ASSUME NEW m \in Execs, NEW t \in Tools, Agrees(m.results),
         NEW out \in [st : {"none", "ok", "error"}, of : Basics],
         t \in Computed /\ out.st = "ok" => out.of = Basis(m.results, t)
  PROVE  /\ RecordTool(m, t, out) \in Execs /\ Agrees(RecordTool(m, t, out).results)
         /\ RecordTool(m, t, out).turns = m.turns
<1> DEFINE old == m.results
           gone == Affected[t]
           new == [d \in Tools |-> IF d = t THEN out ELSE IF d \in gone THEN NoResult ELSE old[d]]
           log == Log(m, t, out.st = "ok")
<1>1. log \in Execs /\ log.results = old /\ log.turns = m.turns
  <2>1. (out.st = "ok") \in BOOLEAN
    OBVIOUS
  <2> QED
    BY <2>1, LogType
<1>2. RecordTool(m, t, out) = [log EXCEPT !.results = new]
  BY <1>1 DEF RecordTool
<1>3. new \in Results
  BY NoneType DEF Execs, Results, NoResult
<1>4. Agrees(new)
  <2> SUFFICES ASSUME NEW d \in Computed, Ok(new, d) PROVE new[d].of = Basis(new, d)
    BY DEF Agrees
  <2>0. d \in Tools /\ Needs(d) \subseteq Tools
    BY NeedsOf DEF Tools, Fetchers, Priced
  <2>1. CASE d = t
    <3>1. \A n \in Needs(d) : n # t /\ n \notin gone
      BY <2>1, AffectedCloses
    <3>2. Basis(new, d) = Basis(old, d)
      BY <2>0, <3>1, SameBasis
    <3> QED
      BY <2>0, <2>1, <3>2 DEF Ok
  <2>2. CASE d # t
    <3>1. d \notin gone /\ new[d] = old[d]
      BY <2>0, <2>2 DEF Ok, NoResult
    <3>2. \A n \in Needs(d) : n # t /\ n \notin gone
      BY <2>0, <3>1, AffectedCloses DEF Closed
    <3>3. Basis(new, d) = Basis(old, d)
      BY <2>0, <3>2, SameBasis
    <3> QED
      BY <3>1, <3>3 DEF Ok, Agrees
  <2> QED
    BY <2>1, <2>2
<1> HIDE DEF new, log
<1> QED
  BY <1>1, <1>2, <1>3, <1>4 DEF Execs

-----------------------------------------------------------------------------
(* Records.                                                                *)

LEMMA TextIs ==
  {<<>>, Claims, Prose, Figures, Fallback, <<"unparseable">>} \subseteq SomeTexts
  BY DEF SomeTexts

LEMMA StartIs ==
  Start \in Execs /\ Start.turns = 0 /\ Agrees(Start.results)
<1>1. Start.results \in Results
  BY NoneType DEF Start, Results, NoResult
<1>2. <<>> \in SomeTexts
  BY TextIs
<1>3. Start \in Execs
  BY <1>1, <1>2 DEF Start, Execs, Statuses, Reasons, Tools
<1>4. \A t \in Computed : ~Ok(Start.results, t)
  BY NeedsOf DEF Start, Ok, NoResult, Tools
<1> QED
  BY <1>3, <1>4 DEF Agrees, Start

LEMMA TurnIs == Turn0 \in Turns /\ NoResponse \in Answers
<1>1. <<>> \in SomeTexts
  BY TextIs
<1>2. NoResponse \in Answers
  BY <1>1 DEF NoResponse, Answers, Stops
<1> QED
  BY <1>1, <1>2 DEF Turn0, Turns

LEMMA BudgetIs == Budget0 \in Budgets /\ Budget0.reserved = 0
  BY DEF Budget0, Budgets

LEMMA NoDiskIs == NoDisk \in Records(<<>>)
<1>1. <<>> \in SomeTexts /\ Start \in Execs
  BY TextIs, StartIs
<1> QED
  BY <1>1 DEF NoDisk, Records

\* What a save of the run makes of the record.
LEMMA SnapIs ==
  ASSUME TypeOK, NEW m \in Execs
  PROVE  /\ Snap(m) \in Records(Snap(m).order) /\ Snap(m).exec = m
         /\ Snap(m).publication # "published"
         /\ kind = "research" => Snap(m).confidence = "none" /\ Snap(m).report = "none"
         /\ kind = "triage" => Snap(m).confidence = disk.confidence /\ Snap(m).report = disk.report
<1>1. CASE kind = "research"
  <2>1. m.text \in SomeTexts /\ <<>> \in SomeTexts
    BY TextIs DEF Execs
  <2>2. Snap(m) = [exec |-> m, note |-> m.text, errors |-> {}, artifacts |-> "pending",
           confidence |-> "none", report |-> "none", publication |-> "none", order |-> <<>>]
    BY <1>1 DEF Snap, NoDisk
  <2> QED
    BY <1>1, <2>1, <2>2 DEF Records
<1>2. CASE kind = "triage"
  <2>1. disk \in Records(disk.order) /\ Snap(m) = [disk EXCEPT !.exec = m, !.publication = "pending"]
    BY <1>2 DEF Snap, TypeOK
  <2> QED
    BY <1>2, <2>1 DEF Records
<1> QED
  BY <1>1, <1>2 DEF TypeOK

\* The checks read the execution and the note, and none is ever without a
\* warning: no provider dates its quotes.
LEMMA FailsOfExec ==
  ASSUME NEW a, NEW b, a.exec = b.exec, a.note = b.note
  PROVE  Fails(a) <=> Fails(b)
BY DEF Fails

LEMMA NeverHigh ==
  ASSUME NEW a
  PROVE  Confidence(a) \in {"low", "medium"} /\ (Confidence(a) = "medium" => ~Fails(a))
<1>1. ~Has(a.exec.results, "get_prices", {}) => Fails(a)
  BY DEF Has, Fails, EvidenceFails, Required
<1> QED
  BY <1>1 DEF Confidence, Warns, SourceWarns

LEMMA AssessedIs ==
  ASSUME NEW order, NEW a \in Records(order)
  PROVE  /\ Assessed(a) \in Records(order) /\ Assessed(a).exec = a.exec
         /\ Assessed(a).report = a.report /\ Assessed(a).publication = a.publication
         /\ Assessed(a).errors = a.errors /\ Assessed(a).artifacts = a.artifacts
         /\ Assessed(a).confidence \in {"low", "medium"}
         /\ Assessed(a).confidence = "medium" => ~Fails(Assessed(a))
         /\ Assessed(a).order = a.order
<1>1. Confidence(a) \in {"low", "medium"} /\ (Confidence(a) = "medium" => ~Fails(a))
  BY NeverHigh
<1>2. /\ Assessed(a) \in Records(order) /\ Assessed(a).exec = a.exec /\ Assessed(a).note = a.note
      /\ Assessed(a).report = a.report /\ Assessed(a).publication = a.publication
      /\ Assessed(a).errors = a.errors /\ Assessed(a).artifacts = a.artifacts
      /\ Assessed(a).confidence = Confidence(a) /\ Assessed(a).order = a.order
  BY <1>1 DEF Assessed, Records
<1> QED
  BY <1>1, <1>2, FailsOfExec

-----------------------------------------------------------------------------
(* Steps of the loop.                                                      *)

Kept == UNCHANGED <<kind, files, exit>>

LEMMA SavedStep ==
  ASSUME IInv, pc \in LoopPcs, Kept, mem' \in Execs, Agrees(mem'.results), disk' = Snap(mem'),
         turn' \in Turns, budget' \in Budgets, faults' \in Nat,
         budget'.reserved = budget.reserved, mem'.turns \in {mem.turns, mem.turns + 1},
         pc' \in (LoopPcs \ {"start", "paid"}) \cup {"finished"},
         pc' # "finished" => pc # "paid" \/ mem'.turns = mem.turns + 1,
         pc' = "asking" => mem'.inflight = "model", pc' = "setup" => pc = "start"
  PROVE  IInv'
<1>1. TypeOK /\ EvidenceInv /\ SpendInv /\ ReportInv /\ EarnedInv
  BY DEF IInv
<1>2. /\ disk' \in Records(disk'.order) /\ disk'.exec = mem' /\ disk'.publication # "published"
      /\ kind = "research" => disk'.confidence = "none" /\ disk'.report = "none"
      /\ kind = "triage" => disk'.confidence = disk.confidence /\ disk'.report = disk.report
  BY <1>1, SnapIs
<1>3. TypeOK'
  <2>1. pc' \in Pcs
    BY DEF Pcs
  <2>2. kind' = kind /\ files' = files /\ exit' = exit
    BY DEF Kept
  <2> QED
    BY <1>1, <1>2, <2>1, <2>2 DEF TypeOK, Budgets
<1>4. EvidenceInv'
  BY <1>2 DEF EvidenceInv, Agrees, Ok, Basis, StatementBasis, DerivedBasis, Of
<1>5. SpendInv'
  <2>1. mem.turns \in Nat /\ mem'.turns \in Nat /\ budget.reserved \in Nat
    BY <1>1 DEF TypeOK, Execs, Budgets
  <2> QED
    BY <1>1, <1>2, <2>1 DEF SpendInv, LoopPcs, ReportPcs
<1>6. ReportInv'
  BY <1>1, <1>2 DEF TypeOK, ReportInv, Kept, LoopPcs, OncePcs, EmptyPcs, NoExit
<1>7. EarnedInv'
  BY <1>1, <1>2 DEF TypeOK, EarnedInv, Kept, LoopPcs, ReportPcs
<1> QED
  BY <1>3, <1>4, <1>5, <1>6, <1>7 DEF IInv

\* A save that was refused stops the run.
LEMMA RaisedStep ==
  ASSUME IInv, pc \in LoopPcs, Kept, mem' \in Execs, Agrees(mem'.results), UNCHANGED disk,
         turn' \in Turns, budget' \in Budgets, faults' \in Nat,
         budget'.reserved = budget.reserved, pc' = "raised"
  PROVE  IInv'
<1>1. TypeOK /\ EvidenceInv /\ SpendInv /\ ReportInv /\ EarnedInv
  BY DEF IInv
<1>2. kind' = kind /\ files' = files /\ exit' = exit /\ disk' = disk
  BY DEF Kept
<1>3. TypeOK'
  BY <1>1, <1>2 DEF TypeOK, Pcs
<1>4. EvidenceInv'
  BY <1>1, <1>2 DEF EvidenceInv, Agrees, Ok, Basis, StatementBasis, DerivedBasis, Of
<1>5. SpendInv'
  BY <1>1, <1>2 DEF SpendInv, LoopPcs, ReportPcs
<1>6. ReportInv'
  BY <1>1, <1>2 DEF ReportInv, LoopPcs, OncePcs, EmptyPcs
<1>7. EarnedInv'
  <2>1. disk.publication # "published"
    BY <1>1 DEF EarnedInv, LoopPcs
  <2> QED
    BY <1>1, <1>2, <2>1 DEF EarnedInv, ReportPcs, Fails, Assessed
<1> QED
  BY <1>3, <1>4, <1>5, <1>6, <1>7 DEF IInv

LEMMA CheckpointStep ==
  ASSUME IInv, pc \in LoopPcs, UNCHANGED <<kind, files>>,
         NEW m \in Execs, NEW next, Checkpoint(m, next), Agrees(m.results),
         turn' \in Turns, budget' \in Budgets, budget'.reserved = budget.reserved,
         m.turns \in {mem.turns, mem.turns + 1},
         next \in (LoopPcs \ {"start", "setup", "paid"}) \cup {"finished"},
         next # "finished" => pc # "paid" \/ m.turns = mem.turns + 1,
         next = "asking" => m.inflight = "model"
  PROVE  IInv'
<1>1. mem' = m /\ faults \in Nat /\ Kept
  BY DEF Checkpoint, Saved, Refused, IInv, TypeOK, Kept
<1>2. CASE Saved(Snap(m), next)
  <2>1. disk' = Snap(m) /\ pc' = next /\ faults' = faults
    BY <1>2 DEF Saved
  <2>2. disk' = Snap(mem')
    BY <1>1, <2>1
  <2> QED
    BY <1>1, <2>1, <2>2, SavedStep
<1>3. CASE Refused("raised")
  <2>1. UNCHANGED disk /\ pc' = "raised" /\ faults' = faults + 1
    BY <1>3 DEF Refused
  <2> QED
    BY <1>1, <2>1, RaisedStep
<1> QED
  BY <1>2, <1>3 DEF Checkpoint

LEMMA ResponseType ==
  ASSUME NEW r \in Responses
  PROVE  r \in Answers
<1>1. Texts \subseteq SomeTexts
  BY DEF Texts, SomeTexts
<1>2. <<>> \in SomeTexts /\ Claims \in SomeTexts
  BY TextIs
<1> QED
  BY <1>1, <1>2 DEF Responses, Answers, Stops

\* The verdict on an answer.
LEMMA VerdictType ==
  ASSUME turn \in Turns
  PROVE  Verdict[1] \in Statuses /\ Verdict[2] \in Reasons
<1>1. Response.stop \in Stops
  BY DEF Response, Turns, Answers
<1>2. \E a \in Statuses, b \in Reasons : Verdict = <<a, b>>
  <2>1. /\ \A a \in {"incomplete", "completed", "failed"} : a \in Statuses
        /\ \A b \in {"narrative_revision_requested_tools", "end_turn", "empty_answer",
                     "invalid_tool_protocol", Response.stop} : b \in Reasons
    BY <1>1 DEF Statuses, Reasons, Stops
  <2>2. \/ Verdict = <<"incomplete", "narrative_revision_requested_tools">>
        \/ Verdict = <<"completed", "end_turn">> \/ Verdict = <<"incomplete", "empty_answer">>
        \/ Verdict = <<"failed", "invalid_tool_protocol">>
        \/ Verdict = <<"incomplete", Response.stop>>
    BY DEF Verdict
  <2> QED
    BY <2>1, <2>2
<1> QED
  BY <1>2

LEMMA FinishStep ==
  ASSUME IInv, pc \in LoopPcs, kind' = kind, budget' \in Budgets,
         budget'.reserved = budget.reserved,
         NEW st \in Statuses, NEW reason \in Reasons, NEW text \in SomeTexts, Finish(st, reason, text)
  PROVE  IInv'
<1> DEFINE m == [mem EXCEPT !.status = st, !.reason = reason, !.text = text, !.inflight = "none"]
<1>1. TypeOK /\ EvidenceInv
  BY DEF IInv
<1>2. m \in Execs /\ m.turns = mem.turns /\ m.results = mem.results
  BY <1>1 DEF TypeOK, Execs
<1>3. Checkpoint(m, "finished") /\ turn' = Turn0 /\ UNCHANGED files
  BY DEF Finish
<1> HIDE DEF m
<1> QED
  BY <1>1, <1>2, <1>3, TurnIs, CheckpointStep DEF EvidenceInv

LEMMA ErrorStep ==
  ASSUME IInv, pc \in LoopPcs, UNCHANGED <<kind, files>>, budget' \in Budgets,
         budget'.reserved = budget.reserved, ModelError
  PROVE  IInv'
<1> DEFINE m == [mem EXCEPT !.status = "failed", !.reason = "model_error", !.turns = @ + 1,
                            !.text = turn.partial, !.inflight = "none"]
<1>1. TypeOK /\ EvidenceInv
  BY DEF IInv
<1>2. m \in Execs /\ m.turns = mem.turns + 1 /\ m.results = mem.results
  <2>1. mem \in Execs /\ mem.turns + 1 \in Nat /\ turn.partial \in SomeTexts
    BY <1>1 DEF TypeOK, Execs, Turns
  <2> QED
    BY <2>1 DEF Execs, Statuses, Reasons
<1>3. Checkpoint(m, "finished") /\ turn' = Turn0
  BY DEF ModelError
<1> HIDE DEF m
<1> QED
  BY <1>1, <1>2, <1>3, TurnIs, CheckpointStep DEF EvidenceInv

LEMMA ReportKeeps ==
  ASSUME TypeOK, Report
  PROVE  budget' \in Budgets /\ budget'.reserved = budget.reserved
BY DEF Report, TypeOK, Budgets

\* Where only the place, the turn or the budget move.
LEMMA TurnStep ==
  ASSUME IInv, UNCHANGED <<kind, mem, disk, files, faults, exit>>,
         turn' \in Turns, budget' \in Budgets,
         \/ /\ pc \in LoopPcs \ {"paid"} /\ pc' \in {"ask", "batch"}
            /\ budget'.reserved = budget.reserved
         \/ pc = "asking" /\ pc' = "paid" /\ budget'.reserved = budget.reserved + 1
  PROVE  IInv'
<1>1. TypeOK /\ EvidenceInv /\ SpendInv /\ ReportInv /\ EarnedInv
  BY DEF IInv
<1>2. TypeOK'
  BY <1>1 DEF TypeOK, Pcs, LoopPcs
<1>3. EvidenceInv'
  BY <1>1 DEF EvidenceInv, Agrees, Ok, Basis, StatementBasis, DerivedBasis, Of
<1>4. SpendInv'
  <2>1. disk.exec.turns \in Nat /\ budget.reserved \in Nat
    BY <1>1 DEF TypeOK, Execs, Records, Budgets
  <2> QED
    BY <1>1, <2>1 DEF SpendInv, LoopPcs, ReportPcs
<1>5. ReportInv'
  BY <1>1 DEF ReportInv, LoopPcs, OncePcs, EmptyPcs
<1>6. EarnedInv'
  <2>1. disk.publication # "published"
    BY <1>1 DEF EarnedInv, LoopPcs
  <2> QED
    BY <1>1, <2>1 DEF EarnedInv, ReportPcs, Fails
<1> QED
  BY <1>2, <1>3, <1>4, <1>5, <1>6 DEF IInv

LEMMA AskingStep ==
  ASSUME IInv, Asking
  PROVE  IInv'
<1>1. TypeOK /\ EvidenceInv /\ Agrees(mem.results) /\ turn.partial \in SomeTexts
      /\ budget \in Budgets /\ mem \in Execs /\ turn \in Turns
  BY DEF IInv, EvidenceInv, TypeOK, Turns
<1>2. CASE AskModel
  <2> DEFINE m == [mem EXCEPT !.inflight = "model"]
  <2>1. m \in Execs /\ m.turns = mem.turns /\ m.results = mem.results /\ m.inflight = "model"
    BY <1>1 DEF Execs
  <2>2. pc = "ask" /\ Checkpoint(m, "asking") /\ UNCHANGED <<kind, turn, files, budget>>
    BY <1>2 DEF AskModel
  <2> HIDE DEF m
  <2> QED
    BY <1>1, <2>1, <2>2, CheckpointStep DEF LoopPcs
<1>3. CASE Exhausted
  <2>1. pc = "ask" /\ Finish("incomplete", "iteration_limit", turn.partial) /\ UNCHANGED <<kind, budget>>
    BY <1>3 DEF Exhausted, Finish
  <2> QED
    BY <1>1, <2>1, FinishStep DEF LoopPcs, Statuses, Reasons
<1>4. CASE Reserve
  <2>1. /\ pc = "asking" /\ pc' = "paid" /\ UNCHANGED <<kind, mem, turn, disk, files, faults, exit>>
        /\ budget' = [budget EXCEPT !.reserved = @ + 1, !.unknown = TRUE]
    BY <1>4 DEF Reserve
  <2>2. budget.reserved \in Nat /\ budget.reserved + 1 \in Nat
    BY <1>1 DEF Budgets
  <2>3. budget' \in Budgets /\ budget'.reserved = budget.reserved + 1
    BY <1>1, <2>1, <2>2 DEF Budgets
  <2> QED
    BY <1>1, <2>1, <2>3, TurnStep
<1>5. CASE BudgetRefuses
  BY <1>1, <1>5, ErrorStep DEF BudgetRefuses, LoopPcs
<1>6. CASE ModelFails
  BY <1>1, <1>6, ErrorStep, ReportKeeps DEF ModelFails, LoopPcs
<1>7. CASE ModelInterrupted
  <2>1. /\ pc \in {"asking", "paid"} /\ Finish("incomplete", "interrupted", turn.partial)
        /\ UNCHANGED <<kind, budget>>
    BY <1>7 DEF ModelInterrupted, Finish
  <2> QED
    BY <1>1, <2>1, FinishStep DEF LoopPcs, Statuses, Reasons
<1>8. CASE InvalidResponse
  <2>1. /\ pc = "paid" /\ Finish("failed", "invalid_model_response", turn.partial)
        /\ UNCHANGED kind /\ Report
    BY <1>8 DEF InvalidResponse, Finish
  <2> QED
    BY <1>1, <2>1, FinishStep, ReportKeeps DEF LoopPcs, Statuses, Reasons
<1>9. CASE Answer
  <2> DEFINE m == [mem EXCEPT !.turns = @ + 1, !.inflight = "none"]
  <2>1. m \in Execs /\ m.turns = mem.turns + 1 /\ m.results = mem.results
    <3>1. mem.turns + 1 \in Nat
      BY <1>1 DEF Execs
    <3> QED
      BY <1>1, <3>1 DEF Execs
  <2>2. pc = "paid" /\ Checkpoint(m, "answered") /\ UNCHANGED <<kind, files>> /\ Report
    BY <1>9 DEF Answer
  <2>3. turn' \in Turns
    <3>1. PICK r \in Responses : turn' = [turn EXCEPT !.response = r, !.partial = r.text]
      BY <1>9 DEF Answer
    <3>2. r \in Answers /\ r.text \in SomeTexts
      BY ResponseType DEF Answers
    <3> QED
      BY <1>1, <3>1, <3>2 DEF Turns
  <2> HIDE DEF m
  <2> QED
    BY <1>1, <2>1, <2>2, <2>3, ReportKeeps, CheckpointStep DEF LoopPcs
<1> QED
  BY <1>2, <1>3, <1>4, <1>5, <1>6, <1>7, <1>8, <1>9 DEF Asking

\* What a call of a tool leaves of the run.
LEMMA ToolFacts ==
  ASSUME TypeOK, NEW t \in Tools
  PROVE  /\ [mem EXCEPT !.inflight = t] \in Execs
         /\ \A m \in Execs : /\ [m EXCEPT !.inflight = "none"] \in Execs
                             /\ [m EXCEPT !.inflight = "none"].results = m.results
                             /\ [m EXCEPT !.inflight = "none"].turns = m.turns
BY DEF TypeOK, Execs

LEMMA FailedIs ==
  Failed \in [st : {"none", "ok", "error"}, of : Basics] /\ Failed.st # "ok"
BY NoneType DEF Failed

LEMMA ToolStep ==
  ASSUME IInv, NEW t \in Tools,
         ToolStart(t) \/ ToolReturns(t) \/ ToolFails(t) \/ ToolInterrupted(t)
  PROVE  IInv'
<1>1. TypeOK /\ Agrees(mem.results) /\ turn.partial \in SomeTexts
      /\ budget \in Budgets /\ mem \in Execs /\ turn \in Turns /\ faults \in Nat
  BY DEF IInv, EvidenceInv, TypeOK, Turns
<1>2. CASE ToolStart(t)
  <2> DEFINE m == [mem EXCEPT !.inflight = t]
  <2>1. m \in Execs /\ m.turns = mem.turns /\ m.results = mem.results
    BY <1>1, ToolFacts DEF Execs
  <2>2. pc = "batch" /\ Checkpoint(m, "executing") /\ UNCHANGED <<kind, files, budget>>
    BY <1>2 DEF ToolStart
  <2>3. turn' \in Turns
    BY <1>1, <1>2 DEF ToolStart, Turns
  <2> HIDE DEF m
  <2> QED
    BY <1>1, <2>1, <2>2, <2>3, CheckpointStep DEF LoopPcs
<1>3. CASE ToolReturns(t)
  <2>1. PICK out \in Outputs(mem.results, t) :
          Checkpoint([RecordTool(mem, t, out) EXCEPT !.inflight = "none"], "batch")
    BY <1>3 DEF ToolReturns
  <2> DEFINE r == RecordTool(mem, t, out)
             m == [r EXCEPT !.inflight = "none"]
  <2>2. mem.results \in Results
    BY <1>1 DEF Execs
  <2>3. /\ out \in [st : {"none", "ok", "error"}, of : Basics]
        /\ t \in Computed => out.of = Basis(mem.results, t)
    BY <2>2, OutputType
  <2>4. r \in Execs /\ Agrees(r.results) /\ r.turns = mem.turns
    BY <1>1, <2>3, RecordAgrees
  <2> HIDE DEF r
  <2>5. m \in Execs /\ m.results = r.results /\ m.turns = r.turns
    BY <1>1, <2>4, ToolFacts
  <2>6. Checkpoint(m, "batch")
    BY <2>1 DEF r
  <2>7. pc = "executing" /\ UNCHANGED <<kind, turn, files, budget>>
    BY <1>3 DEF ToolReturns
  <2> HIDE DEF m
  <2> QED
    BY <1>1, <2>4, <2>5, <2>6, <2>7, CheckpointStep DEF LoopPcs
<1>4. CASE ToolFails(t)
  <2>1. PICK r \in {RecordTool(mem, t, Failed), RecordRejected(mem, t)} :
          mem' = [r EXCEPT !.inflight = "none"]
    BY <1>4 DEF ToolFails
  <2>2. r \in Execs /\ Agrees(r.results) /\ r.turns = mem.turns
    <3>1. CASE r = RecordTool(mem, t, Failed)
      BY <1>1, <3>1, FailedIs, RecordAgrees
    <3>2. CASE r = RecordRejected(mem, t)
      <4>1. r = Log(mem, t, FALSE)
        BY <3>2 DEF RecordRejected
      <4> QED
        BY <1>1, <4>1, LogType
    <3> QED
      BY <2>1, <3>1, <3>2
  <2>3. mem' \in Execs /\ Agrees(mem'.results) /\ mem'.turns = mem.turns
    BY <1>1, <2>1, <2>2, ToolFacts
  <2>4. /\ pc = "executing" /\ pc' = "batch" /\ disk' = Snap(mem') /\ faults' = faults + 1
        /\ UNCHANGED <<turn, budget>> /\ Kept
    BY <1>4 DEF ToolFails, Kept
  <2> QED
    BY <1>1, <2>3, <2>4, SavedStep DEF LoopPcs
<1>5. CASE ToolInterrupted(t)
  <2> DEFINE r == RecordTool(mem, t, Failed)
             m == [r EXCEPT !.inflight = "none", !.status = "incomplete",
                            !.reason = "interrupted", !.text = turn.partial]
  <2>1. r \in Execs /\ Agrees(r.results) /\ r.turns = mem.turns
    BY <1>1, FailedIs, RecordAgrees
  <2>2. /\ pc = "executing" /\ Checkpoint(m, "finished") /\ turn' = Turn0
        /\ UNCHANGED <<kind, files, budget>>
    BY <1>5 DEF ToolInterrupted
  <2> HIDE DEF r
  <2>3. m \in Execs /\ m.results = r.results /\ m.turns = r.turns
    BY <1>1, <2>1 DEF Execs, Statuses, Reasons
  <2> HIDE DEF m
  <2> QED
    BY <1>1, <2>1, <2>2, <2>3, TurnIs, CheckpointStep DEF LoopPcs
<1> QED
  BY <1>2, <1>3, <1>4, <1>5

LEMMA UsingStep ==
  ASSUME IInv, Using
  PROVE  IInv'
<1>1. TypeOK /\ Agrees(mem.results) /\ turn.partial \in SomeTexts /\ turn.at + 1 \in Nat
      /\ turn.batches + 1 \in Nat /\ budget \in Budgets /\ mem \in Execs /\ turn \in Turns
  BY DEF IInv, EvidenceInv, TypeOK, Turns
<1>2. CASE Revise
  <2>1. pc = "answered" /\ Checkpoint(mem, "ask") /\ UNCHANGED <<kind, files, budget>>
    BY <1>2 DEF Revise
  <2>2. turn' \in Turns
    BY <1>1, <1>2, TurnIs DEF Revise, Turns
  <2> QED
    BY <1>1, <2>1, <2>2, CheckpointStep DEF LoopPcs
<1>3. CASE Conclude
  <2>1. pc = "answered" /\ Finish(Verdict[1], Verdict[2], turn.partial) /\ UNCHANGED <<kind, budget>>
    BY <1>3 DEF Conclude, Finish
  <2> QED
    BY <1>1, <2>1, VerdictType, FinishStep DEF LoopPcs
<1>4. CASE StartBatch
  <2>1. turn' \in Turns
    BY <1>1, <1>4, TurnIs DEF StartBatch, Turns
  <2>2. pc = "answered" /\ pc' = "batch" /\ UNCHANGED <<kind, mem, disk, files, budget, faults, exit>>
    BY <1>4 DEF StartBatch, world
  <2> QED
    BY <1>1, <2>1, <2>2, TurnStep DEF LoopPcs
<1>5. CASE EndBatch
  <2>1. turn' \in Turns
    BY <1>1, <1>5, TurnIs DEF EndBatch, Turns
  <2>2. pc = "batch" /\ pc' = "ask" /\ UNCHANGED <<kind, mem, disk, files, budget, faults, exit>>
    BY <1>5 DEF EndBatch, world
  <2> QED
    BY <1>1, <2>1, <2>2, TurnStep DEF LoopPcs
<1>6. ASSUME NEW t \in Tools,
             ToolStart(t) \/ ToolReturns(t) \/ ToolFails(t) \/ ToolInterrupted(t)
      PROVE  IInv'
  BY <1>6, ToolStep
<1> QED
  BY <1>2, <1>3, <1>4, <1>5, <1>6 DEF Using

-----------------------------------------------------------------------------
(* Beginnings and ends.                                                    *)

\* A program ends with an exit code, or is killed, and leaves record and files.
LEMMA EndStep ==
  ASSUME IInv, UNCHANGED <<kind, disk, files>>, mem' \in Execs, Agrees(mem'.results),
         turn' \in Turns, budget' \in Budgets, budget'.reserved <= budget.reserved, faults' \in Nat,
         \/ pc # "done" /\ pc' = "done" /\ exit' \in {1, 130}
         \/ pc # "done" /\ pc' = "killed" /\ exit' = exit,
         disk.publication # "published", kind = "research" => budget'.reserved = 0
  PROVE  IInv'
<1>1. TypeOK /\ EvidenceInv /\ SpendInv /\ ReportInv /\ EarnedInv
  BY DEF IInv
<1>2. TypeOK'
  BY <1>1 DEF TypeOK, Pcs
<1>3. EvidenceInv'
  BY <1>1 DEF EvidenceInv, Agrees, Ok, Basis, StatementBasis, DerivedBasis, Of
<1>4. SpendInv'
  <2>1. disk.exec.turns \in Nat /\ budget.reserved \in Nat /\ budget'.reserved \in Nat
    BY <1>1 DEF TypeOK, Execs, Records, Budgets
  <2> QED
    BY <1>1, <2>1 DEF SpendInv, LoopPcs, ReportPcs
<1>5. ReportInv'
  BY <1>1 DEF ReportInv, LoopPcs, OncePcs, EmptyPcs, NoExit
<1>6. EarnedInv'
  BY <1>1 DEF EarnedInv, ReportPcs, Fails
<1> QED
  BY <1>2, <1>3, <1>4, <1>5, <1>6 DEF IInv

\* What the report is made of, from the last record of a run.
LEMMA ReportStep ==
  ASSUME IInv, pc \in ReportPcs, UNCHANGED <<kind, budget>>, faults' \in Nat, turn' \in Turns,
         mem' \in Execs, Agrees(mem'.results), disk' \in Records(disk'.order),
         Agrees(disk'.exec.results), disk'.publication # "published",
         disk'.confidence \in {"medium", "high"} => ~Fails(disk'),
         files' \subseteq {"report.html", "report_REVIEW.html"}, exit' \in Nat,
         pc' \in ReportPcs \cup {"done"}, ReportInv'
  PROVE  IInv'
<1>1. TypeOK /\ SpendInv /\ EarnedInv
  BY DEF IInv
<1>2. TypeOK'
  BY <1>1 DEF TypeOK, Pcs
<1>3. EvidenceInv'
  BY DEF EvidenceInv, Agrees, Ok, Basis, StatementBasis, DerivedBasis, Of
<1>4. SpendInv'
  <2>1. budget'.reserved = 0 /\ disk'.exec.turns \in Nat
    BY <1>1 DEF SpendInv, Records, Execs
  <2> QED
    BY <2>1 DEF SpendInv, LoopPcs, ReportPcs
<1>5. EarnedInv'
  <2>1. kind' = "research"
    BY <1>1 DEF EarnedInv
  <2> QED
    BY <2>1 DEF EarnedInv, ReportPcs, Fails
<1> QED
  BY <1>2, <1>3, <1>4, <1>5 DEF IInv

LEMMA SetupStep ==
  ASSUME IInv, Setup
  PROVE  IInv'
<1>1. TypeOK /\ EvidenceInv /\ SpendInv /\ ReportInv /\ EarnedInv
  BY DEF IInv
<1>2. mem \in Execs /\ Agrees(mem.results) /\ turn \in Turns /\ budget \in Budgets /\ faults \in Nat
  BY <1>1 DEF TypeOK, EvidenceInv
<1>3. CASE Begin
  <2>1. pc = "start" /\ UNCHANGED <<kind, mem, turn, files, budget>> /\ disk.publication # "published"
    BY <1>1, <1>3 DEF Begin, EarnedInv
  <2>2. CASE Saved(Snap(mem), "setup")
    <3>1. disk' = Snap(mem') /\ pc' = "setup" /\ faults' = faults /\ Kept
      BY <2>1, <2>2 DEF Saved, Kept
    <3> QED
      BY <1>2, <2>1, <3>1, SavedStep DEF LoopPcs
  <2>3. CASE faults' = faults + 1 /\ Exit(1) /\ UNCHANGED disk
    <3>1. pc' = "done" /\ exit' = 1 /\ budget'.reserved = 0 /\ budget.reserved = 0
      BY <1>1, <2>1, <2>3 DEF Exit, SpendInv
    <3> QED
      BY <1>2, <2>1, <2>3, <3>1, EndStep
  <2> QED
    BY <1>3, <2>2, <2>3 DEF Begin
<1>4. CASE LoopStart
  BY <1>2, <1>4, CheckpointStep DEF LoopStart, LoopPcs
<1>5. CASE MissingKey
  <2>1. /\ pc = "setup" /\ pc' = "done" /\ exit' = 1 /\ UNCHANGED <<kind, turn, files, budget, faults>>
        /\ mem' = [mem EXCEPT !.status = "failed", !.reason = "missing_credentials"]
        /\ disk' = [Snap(mem') EXCEPT !.publication = "withheld"]
    BY <1>5 DEF MissingKey, Exit, world
  <2>2. mem' \in Execs /\ mem'.turns = mem.turns /\ mem'.results = mem.results
    BY <1>2, <2>1 DEF Execs, Statuses, Reasons
  <2> DEFINE s == Snap(mem')
  <2>3. /\ s \in Records(s.order) /\ s.exec = mem' /\ s.confidence = "none" /\ s.report # "report.html"
    BY <1>1, <2>2, SnapIs DEF EarnedInv, ReportInv, TypeOK
  <2> HIDE DEF s
  <2>4. /\ disk' \in Records(disk'.order) /\ disk'.exec = mem' /\ disk'.confidence = "none"
        /\ disk'.report # "report.html" /\ disk'.publication = "withheld"
    <3>1. disk' = [s EXCEPT !.publication = "withheld"]
      BY <2>1 DEF s
    <3> QED
      BY <2>3, <3>1 DEF Records
  <2>5. budget.reserved = 0 /\ mem.turns \in Nat
    BY <1>1, <1>2, <2>1 DEF SpendInv, Execs
  <2>6. TypeOK'
    BY <1>1, <2>1, <2>2, <2>4 DEF TypeOK, Pcs
  <2>7. EvidenceInv'
    BY <1>2, <2>2, <2>4 DEF EvidenceInv, Agrees, Ok, Basis, StatementBasis, DerivedBasis, Of
  <2>8. SpendInv'
    <3>1. budget'.reserved = 0 /\ disk'.exec.turns \in Nat /\ pc' = "done"
      BY <2>1, <2>2, <2>4, <2>5
    <3> QED
      BY <3>1 DEF SpendInv, LoopPcs, ReportPcs
  <2>9. files = {}
    BY <1>1, <2>1 DEF ReportInv, EmptyPcs, OncePcs, LoopPcs
  <2>10. ReportInv' /\ EarnedInv'
    BY <2>1, <2>4, <2>9 DEF ReportInv, EarnedInv, EmptyPcs, OncePcs, LoopPcs, ReportPcs
  <2> QED
    BY <2>6, <2>7, <2>8, <2>10 DEF IInv
<1> QED
  BY <1>3, <1>4, <1>5 DEF Setup

\* The loop is over and its result goes on to be reported.
LEMMA FinalStep ==
  ASSUME IInv, pc \in {"finished", "raised"}, kind = "research",
         UNCHANGED <<kind, disk, files, faults, exit>>, mem' \in Execs, Agrees(mem'.results),
         turn' \in Turns, budget' \in Budgets, budget'.reserved = 0, pc' = "final"
  PROVE  IInv'
<1>1. TypeOK /\ EvidenceInv /\ SpendInv /\ ReportInv /\ EarnedInv
  BY DEF IInv
<1>2. TypeOK'
  BY <1>1 DEF TypeOK, Pcs, ReportPcs
<1>3. EvidenceInv'
  BY <1>1 DEF EvidenceInv, Agrees, Ok, Basis, StatementBasis, DerivedBasis, Of
<1>4. SpendInv'
  <2>1. disk.exec.turns \in Nat
    BY <1>1 DEF TypeOK, Records, Execs
  <2> QED
    BY <2>1 DEF SpendInv, LoopPcs, ReportPcs
<1>5. ReportInv'
  BY <1>1 DEF ReportInv, OncePcs, EmptyPcs
<1>6. EarnedInv'
  BY <1>1 DEF EarnedInv, Fails
<1> QED
  BY <1>2, <1>3, <1>4, <1>5, <1>6 DEF IInv

LEMMA EndingStep ==
  ASSUME IInv, Ending
  PROVE  IInv'
<1>1. TypeOK /\ EvidenceInv /\ SpendInv /\ ReportInv /\ EarnedInv
  BY DEF IInv
<1>2. /\ mem \in Execs /\ Agrees(mem.results) /\ turn \in Turns /\ budget \in Budgets
      /\ faults \in Nat /\ budget.reserved \in Nat /\ disk \in Records(disk.order)
  BY <1>1 DEF TypeOK, EvidenceInv, Budgets
<1>3. CASE Raised
  <2>1. /\ pc = "raised" /\ UNCHANGED <<kind, disk, files, faults>>
        /\ turn' = Turn0 /\ budget' = Budget0
    BY <1>3 DEF Raised, LoopOver
  <2>2. CASE kind = "triage"
    <3>1. pc' = "done" /\ exit' = 1 /\ mem' = mem
      BY <1>3, <2>2 DEF Raised, Exit
    <3>2. disk.publication # "published"
      BY <1>1, <2>1 DEF EarnedInv
    <3> QED
      BY <1>2, <2>1, <2>2, <3>1, <3>2, TurnIs, BudgetIs, EndStep
  <2>3. CASE kind = "research"
    <3>1. /\ pc' = "final" /\ exit' = exit
          /\ mem' = [mem EXCEPT !.status = "failed", !.reason = "execution_error", !.inflight = "none"]
      BY <1>3, <2>3 DEF Raised
    <3>2. mem' \in Execs /\ mem'.results = mem.results
      BY <1>2, <3>1 DEF Execs, Statuses, Reasons
    <3> QED
      BY <1>2, <2>1, <2>3, <3>1, <3>2, TurnIs, BudgetIs, FinalStep
  <2> QED
    BY <1>1, <2>2, <2>3 DEF TypeOK
<1>4. CASE Finalize
  <2>1. /\ pc = "finished" /\ kind = "research" /\ pc' = "final"
        /\ UNCHANGED <<kind, disk, files, faults, exit>> /\ turn' = Turn0 /\ budget' = Budget0
    BY <1>4 DEF Finalize, LoopOver
  <2>2. mem' = mem \/ mem' = [mem EXCEPT !.text = Fallback, !.fallback = TRUE]
    BY <1>4 DEF Finalize
  <2>3. mem' \in Execs /\ mem'.results = mem.results
    BY <1>2, <2>2, TextIs DEF Execs
  <2> QED
    BY <1>2, <2>1, <2>3, TurnIs, BudgetIs, FinalStep
<1>5. CASE FinalSnapshot
  <2>1. /\ pc = "final" /\ disk' = Snap(mem) /\ UNCHANGED <<kind, mem, turn, files, budget, faults>>
        /\ \/ pc' = "done" /\ exit' = 130
           \/ pc' = "emit" /\ exit' = exit
    BY <1>5 DEF FinalSnapshot, Exit, world
  <2>2. kind = "research" /\ files = {} /\ exit = NoExit
    BY <1>1, <2>1 DEF EarnedInv, ReportInv, ReportPcs, EmptyPcs, OncePcs
  <2>3. /\ disk' \in Records(disk'.order) /\ disk'.exec = mem /\ disk'.publication # "published"
        /\ disk'.confidence = "none" /\ disk'.report = "none"
    BY <1>1, <1>2, <2>1, <2>2, SnapIs
  <2>4. ReportInv'
    BY <2>1, <2>2, <2>3 DEF ReportInv, NoExit
  <2>5. exit' \in Nat /\ files' \subseteq {"report.html", "report_REVIEW.html"} /\ pc \in ReportPcs
        /\ pc' \in ReportPcs \cup {"done"}
    BY <2>1, <2>2 DEF NoExit, ReportPcs
  <2> QED
    BY <1>2, <2>1, <2>3, <2>4, <2>5, ReportStep
<1>6. CASE SaveRefused
  <2>1. /\ pc \in {"final", "emit", "history"} /\ pc' = "done" /\ exit' = 1 /\ faults' = faults + 1
        /\ UNCHANGED <<kind, mem, turn, disk, files, budget>>
    BY <1>6 DEF SaveRefused, Exit
  <2>2. disk.publication # "published" /\ budget.reserved = 0
    BY <1>1, <2>1 DEF EarnedInv, SpendInv, ReportPcs
  <2> QED
    BY <1>2, <2>1, <2>2, EndStep
<1>7. CASE PublishTriage
  <2> DEFINE accepted == mem.status = "completed" /\ Selected(mem.text)
  <2>1. /\ pc = "finished" /\ kind = "triage" /\ pc' = "done" /\ exit' \in {0, 1}
        /\ UNCHANGED <<kind, mem, turn, files, budget>> /\ faults' \in Nat
    BY <1>2, <1>7 DEF PublishTriage, Exit
  <2>2. disk.exec = mem /\ disk.publication # "published" /\ files = {} /\ disk.confidence = "none"
    BY <1>1, <2>1 DEF EarnedInv, ReportInv, EmptyPcs, OncePcs
  <2>3. \/ disk' = disk
        \/ accepted /\ disk' = [disk EXCEPT !.publication = "published", !.order = Render(mem.text)]
        \/ disk' = [disk EXCEPT !.publication = "withheld", !.order = <<>>]
    BY <1>7 DEF PublishTriage
  <2>4. /\ disk' \in Records(disk'.order) /\ disk'.exec = mem /\ disk'.confidence = "none"
        /\ disk'.report = disk.report
        /\ disk'.publication = "published" => accepted /\ disk'.order = Render(mem.text)
    <3> HIDE DEF accepted
    <3> QED
      BY <1>2, <2>2, <2>3 DEF Records
  <2>5. TypeOK'
    BY <1>1, <1>2, <2>1, <2>4 DEF TypeOK, Pcs
  <2>6. EvidenceInv'
    BY <1>2, <2>1, <2>4 DEF EvidenceInv, Agrees, Ok, Basis, StatementBasis, DerivedBasis, Of
  <2>7. SpendInv'
    BY <1>1, <2>1, <2>2, <2>4 DEF SpendInv, LoopPcs, ReportPcs
  <2>8. ReportInv'
    BY <1>1, <2>1, <2>2, <2>4 DEF ReportInv, EmptyPcs, OncePcs, LoopPcs
  <2>9. EarnedInv'
    BY <2>1, <2>4 DEF EarnedInv, ReportPcs, Selected
  <2> QED
    BY <2>5, <2>6, <2>7, <2>8, <2>9 DEF IInv
<1> QED
  BY <1>3, <1>4, <1>5, <1>6, <1>7 DEF Ending

\* Each step of a report, from the last save of a run to its exit code.
LEMMA ReportingStep ==
  ASSUME IInv, Reporting
  PROVE  IInv'
<1>1. TypeOK /\ EvidenceInv /\ SpendInv /\ ReportInv /\ EarnedInv
  BY DEF IInv
<1>2. /\ mem \in Execs /\ Agrees(mem.results) /\ turn \in Turns /\ faults \in Nat /\ exit \in Nat
      /\ Start \in Execs /\ Agrees(Start.results)
      /\ disk \in Records(disk.order) /\ Agrees(disk.exec.results)
      /\ disk.confidence \in {"medium", "high"} => ~Fails(disk)
      /\ files \subseteq {"report.html", "report_REVIEW.html"} /\ files \subseteq {disk.report}
      /\ disk.report # "report.html"
  BY <1>1, StartIs DEF TypeOK, EvidenceInv, EarnedInv, ReportInv
<1>3. CASE EmitAssessed
  <2>1. /\ pc = "emit" /\ disk' = Assessed(Snap(mem)) /\ pc' = "history" /\ mem' = Start
        /\ UNCHANGED <<kind, turn, files, budget, faults, exit>>
    BY <1>3 DEF EmitAssessed, world
  <2>2. kind = "research" /\ files = {} /\ exit = NoExit
    BY <1>1, <2>1 DEF EarnedInv, ReportInv, ReportPcs, EmptyPcs, OncePcs
  <2> DEFINE s == Snap(mem)
  <2>3. s \in Records(s.order) /\ s.exec = mem /\ s.publication # "published" /\ s.report = "none"
    BY <1>1, <1>2, <2>2, SnapIs
  <2>6. disk' = Assessed(s)
    BY <2>1
  <2> HIDE DEF s
  <2>4. /\ disk' \in Records(disk'.order) /\ disk'.exec = mem /\ disk'.publication # "published"
        /\ disk'.report = "none" /\ disk'.confidence \in {"low", "medium"}
        /\ disk'.confidence = "medium" => ~Fails(disk')
    BY <2>3, <2>6, AssessedIs
  <2>5. ReportInv'
    BY <2>1, <2>2, <2>4 DEF ReportInv, NoExit
  <2> QED
    BY <1>2, <2>1, <2>2, <2>4, <2>5, ReportStep DEF ReportPcs
<1>4. CASE FetchHistories
  <2>1. PICK e \in {{}, {"fetch"}} :
          /\ pc = "history" /\ pc' = "build" /\ disk' = [disk EXCEPT !.errors = @ \cup e]
          /\ UNCHANGED <<kind, mem, turn, files, budget, faults, exit>>
    BY <1>4 DEF FetchHistories, world
  <2>2. disk.errors \cup e \in SUBSET Errors
    BY <1>2 DEF Records, Errors
  <2>3. /\ disk' \in Records(disk'.order) /\ disk'.exec = disk.exec /\ disk'.note = disk.note
        /\ disk'.publication = disk.publication /\ disk'.report = disk.report
        /\ disk'.confidence = disk.confidence
    BY <1>2, <2>1, <2>2 DEF Records
  <2>4. (Fails(disk') <=> Fails(disk)) /\ disk.publication # "published" /\ exit = NoExit
    BY <1>1, <2>1, <2>3, FailsOfExec DEF EarnedInv, ReportInv
  <2>5. ReportInv'
    BY <1>2, <2>1, <2>3, <2>4 DEF ReportInv, NoExit, EmptyPcs, OncePcs, LoopPcs
  <2> QED
    BY <1>2, <2>1, <2>3, <2>4, <2>5, ReportStep DEF ReportPcs
<1>5. CASE HistoryInterrupted
  <2>1. /\ pc = "history" /\ pc' = "done" /\ exit' = 130
        /\ disk' = [disk EXCEPT !.errors = @ \cup {"fetch"}, !.artifacts = "failed"]
        /\ UNCHANGED <<kind, mem, turn, files, budget, faults>>
    BY <1>5 DEF HistoryInterrupted, Exit, world
  <2>2. disk.errors \cup {"fetch"} \in SUBSET Errors
    BY <1>2 DEF Records, Errors
  <2>3. /\ disk' \in Records(disk'.order) /\ disk'.exec = disk.exec /\ disk'.note = disk.note
        /\ disk'.publication = disk.publication /\ disk'.report = disk.report
        /\ disk'.confidence = disk.confidence
    BY <1>2, <2>1, <2>2 DEF Records
  <2>4. (Fails(disk') <=> Fails(disk)) /\ disk.publication # "published"
    BY <1>1, <2>1, <2>3, FailsOfExec DEF EarnedInv
  <2>5. ReportInv'
    BY <1>2, <2>1, <2>3 DEF ReportInv, EmptyPcs, OncePcs, LoopPcs
  <2> QED
    BY <1>2, <2>1, <2>3, <2>4, <2>5, ReportStep DEF ReportPcs
<1>6. CASE Withdraw
  <2>1. /\ pc = "build" /\ pc' = "reassess" /\ files' = {}
        /\ UNCHANGED <<kind, mem, turn, disk, budget, faults, exit>>
    BY <1>6 DEF Withdraw, world
  <2>2. disk.publication # "published" /\ exit = NoExit
    BY <1>1, <2>1 DEF EarnedInv, ReportInv
  <2>3. ReportInv'
    BY <1>2, <2>1, <2>2 DEF ReportInv, NoExit
  <2> QED
    BY <1>2, <2>1, <2>2, <2>3, ReportStep DEF ReportPcs, Fails
<1>7. CASE Reassess
  <2> DEFINE a == [disk EXCEPT !.errors = @ \cap {"fetch"}, !.artifacts = "building"]
  <2>1. /\ pc = "reassess" /\ pc' = "render" /\ disk' = Assessed(a)
        /\ UNCHANGED <<kind, mem, turn, files, budget, faults, exit>>
    BY <1>7 DEF Reassess, world
  <2>2. disk.errors \cap {"fetch"} \in SUBSET Errors
    BY <1>2 DEF Records, Errors
  <2>3. /\ a \in Records(a.order) /\ a.exec = disk.exec /\ a.report = disk.report
        /\ a.publication = disk.publication
    BY <1>2, <2>2 DEF Records
  <2> HIDE DEF a
  <2>4. /\ disk' \in Records(disk'.order) /\ disk'.exec = disk.exec /\ disk'.report = disk.report
        /\ disk'.publication = disk.publication /\ disk'.confidence \in {"low", "medium"}
        /\ disk'.confidence = "medium" => ~Fails(disk')
    BY <2>1, <2>3, AssessedIs
  <2>5. disk.publication # "published" /\ exit = NoExit /\ files = {}
    BY <1>1, <2>1 DEF EarnedInv, ReportInv, EmptyPcs
  <2>6. ReportInv'
    BY <1>2, <2>1, <2>4, <2>5 DEF ReportInv, NoExit
  <2> QED
    BY <1>2, <2>1, <2>4, <2>5, <2>6, ReportStep DEF ReportPcs
<1>8. CASE RenderCharts
  <2>1. PICK e \in {{}, {"chart"}} :
          LET record == Assessed([disk EXCEPT !.errors = @ \cup e])
          IN disk' = [record EXCEPT !.report = ReportName(record)]
    BY <1>8 DEF RenderCharts
  <2>2. pc = "render" /\ pc' = "write" /\ UNCHANGED <<kind, mem, turn, files, budget, faults, exit>>
    BY <1>8 DEF RenderCharts, world
  <2> DEFINE a == [disk EXCEPT !.errors = @ \cup e]
             r == Assessed(a)
  <2>3. disk.errors \cup e \in SUBSET Errors
    BY <1>2 DEF Records, Errors
  <2>4. a \in Records(disk.order) /\ a.exec = disk.exec /\ a.publication = disk.publication
    BY <1>2, <2>3 DEF Records
  <2> HIDE DEF a
  <2>5. /\ r \in Records(disk.order) /\ r.exec = disk.exec /\ r.publication = disk.publication
        /\ r.confidence \in {"low", "medium"} /\ (r.confidence = "medium" => ~Fails(r))
    BY <2>4, AssessedIs
  <2> HIDE DEF r
  <2>6. disk' = [r EXCEPT !.report = "report_REVIEW.html"]
    BY <2>1, <2>5 DEF r, a, ReportName
  <2>7. /\ disk' \in Records(disk'.order) /\ disk'.exec = disk.exec /\ disk'.note = r.note
        /\ disk'.publication = disk.publication /\ disk'.confidence = r.confidence
        /\ disk'.report = "report_REVIEW.html"
    BY <2>5, <2>6 DEF Records
  <2>8. disk'.confidence \in {"medium", "high"} => ~Fails(disk')
    BY <2>5, <2>7, FailsOfExec
  <2>9. disk.publication # "published" /\ exit = NoExit /\ files = {}
    BY <1>1, <2>2 DEF EarnedInv, ReportInv, EmptyPcs
  <2>10. ReportInv'
    BY <1>2, <2>2, <2>7, <2>9 DEF ReportInv, NoExit
  <2> QED
    BY <1>2, <2>2, <2>7, <2>8, <2>9, <2>10, ReportStep DEF ReportPcs
<1>9. CASE WriteReport
  <2>1. /\ pc = "write" /\ pc' = "complete" /\ files' = files \cup {disk.report}
        /\ UNCHANGED <<kind, mem, turn, disk, budget, faults, exit>>
    BY <1>9 DEF WriteReport, world
  <2>2. /\ disk.publication # "published" /\ exit = NoExit /\ files = {}
        /\ disk.report = "report_REVIEW.html"
    BY <1>1, <2>1 DEF EarnedInv, ReportInv, EmptyPcs
  <2>3. ReportInv'
    BY <1>2, <2>1, <2>2 DEF ReportInv, NoExit, EmptyPcs, OncePcs, LoopPcs
  <2> QED
    BY <1>2, <2>1, <2>2, <2>3, ReportStep DEF ReportPcs, Fails
<1>10. CASE CompleteReport
  <2>1. /\ pc = "complete" /\ pc' = "done" /\ exit' = ExitCode(disk')
        /\ disk' = [disk EXCEPT !.artifacts = IF disk.errors = {} THEN "complete" ELSE "degraded"]
        /\ UNCHANGED <<kind, mem, turn, files, budget, faults>>
    BY <1>10 DEF CompleteReport, Exit, world
  <2>2. /\ disk' \in Records(disk'.order) /\ disk'.exec = disk.exec /\ disk'.note = disk.note
        /\ disk'.publication = disk.publication /\ disk'.report = disk.report
        /\ disk'.confidence = disk.confidence /\ disk'.artifacts \in {"complete", "degraded"}
    BY <1>2, <2>1 DEF Records
  <2>3. (Fails(disk') <=> Fails(disk)) /\ disk.publication # "published" /\ files = {disk.report}
    BY <1>1, <2>1, <2>2, FailsOfExec DEF EarnedInv, ReportInv
  <2>4. /\ exit' \in Nat
        /\ exit' = 3 => disk'.exec.status = "completed" /\ disk'.artifacts = "complete"
    BY <2>1, <2>2 DEF ExitCode
  <2>5. ReportInv'
    BY <1>2, <2>1, <2>2, <2>3, <2>4 DEF ReportInv, EmptyPcs, OncePcs, LoopPcs
  <2> QED
    BY <1>2, <2>1, <2>2, <2>3, <2>4, <2>5, ReportStep DEF ReportPcs
<1>11. ASSUME NEW code \in {1, 130}, BuildFails(code) PROVE IInv'
  <2>1. /\ pc \in {"reassess", "render", "write", "complete"} /\ pc' = "done" /\ exit' = code
        /\ disk' \in {disk, Broken} /\ files' = {} /\ faults' = faults + 1
        /\ UNCHANGED <<kind, mem, turn, budget>>
    BY <1>11 DEF BuildFails, Exit
  <2>2. disk.errors \cup {"report"} \in SUBSET Errors
    BY <1>2 DEF Records, Errors
  <2>3. /\ disk' \in Records(disk'.order) /\ disk'.exec = disk.exec /\ disk'.note = disk.note
        /\ disk'.publication = disk.publication /\ disk'.report \in {disk.report, "none"}
        /\ disk'.confidence = disk.confidence
    <3>1. CASE disk' = disk
      BY <1>2, <3>1
    <3>2. CASE disk' = Broken
      BY <1>2, <2>2, <3>2 DEF Broken, Records
    <3> QED
      BY <2>1, <3>1, <3>2
  <2>4. (Fails(disk') <=> Fails(disk)) /\ disk.publication # "published"
    BY <1>1, <2>1, <2>3, FailsOfExec DEF EarnedInv
  <2>5. ReportInv'
    BY <1>2, <2>1, <2>3 DEF ReportInv, EmptyPcs, OncePcs, LoopPcs
  <2> QED
    BY <1>2, <2>1, <2>3, <2>4, <2>5, ReportStep DEF ReportPcs
<1> QED
  BY <1>3, <1>4, <1>5, <1>6, <1>7, <1>8, <1>9, <1>10, <1>11 DEF Reporting

LEMMA KillStep ==
  ASSUME IInv, Kill
  PROVE  IInv'
<1>1. TypeOK /\ SpendInv /\ EarnedInv
  BY DEF IInv
<1>2. /\ pc \notin {"done", "killed"} /\ pc' = "killed" /\ turn' = Turn0 /\ budget' = Budget0
      /\ mem' = Start /\ UNCHANGED <<kind, disk, files, faults, exit>>
  BY DEF Kill, Alive, LoopOver
<1>3. disk.publication # "published" /\ budget.reserved \in Nat /\ faults \in Nat
  BY <1>1, <1>2 DEF EarnedInv, TypeOK, Budgets
<1> QED
  BY <1>2, <1>3, StartIs, TurnIs, BudgetIs, EndStep

LEMMA RebuildStep ==
  ASSUME IInv, Rebuild
  PROVE  IInv'
<1>1. TypeOK /\ EvidenceInv /\ SpendInv /\ ReportInv /\ EarnedInv
  BY DEF IInv
<1>2. /\ pc \in {"done", "killed"} /\ kind = "research" /\ pc' = "build" /\ exit' = NoExit
      /\ mem' = Start /\ UNCHANGED <<kind, turn, disk, files, budget, faults>>
  BY DEF Rebuild, Alive
<1>3. TypeOK'
  BY <1>1, <1>2, StartIs DEF TypeOK, Pcs, ReportPcs, NoExit
<1>4. EvidenceInv'
  BY <1>1, <1>2, StartIs DEF EvidenceInv, Agrees, Ok, Basis, StatementBasis, DerivedBasis, Of
<1>5. SpendInv'
  BY <1>1, <1>2 DEF SpendInv, LoopPcs, ReportPcs
<1>6. ReportInv'
  BY <1>1, <1>2 DEF ReportInv, EmptyPcs, OncePcs, LoopPcs, NoExit
<1>7. EarnedInv'
  BY <1>1, <1>2 DEF EarnedInv, ReportPcs, Fails
<1> QED
  BY <1>3, <1>4, <1>5, <1>6, <1>7 DEF IInv

-----------------------------------------------------------------------------
(* The invariant and what follows from it.                                 *)

LEMMA IInvInit == Init => IInv
<1> SUFFICES ASSUME Init PROVE IInv
  OBVIOUS
<1>1. /\ kind \in {"research", "triage"} /\ pc = "start" /\ mem = Start /\ turn = Turn0
      /\ disk = NoDisk /\ files = {} /\ faults = 0 /\ exit = NoExit
  BY LoopAssumption DEF Init
<1>2. budget \in Budgets /\ budget.reserved = 0
  <2>1. MaxRequests \in Nat
    BY LoopAssumption
  <2>2. PICK n \in {0, MaxRequests} : budget = [Budget0 EXCEPT !.left = n]
    BY DEF Init
  <2> QED
    BY <2>1, <2>2, BudgetIs DEF Budgets
<1>3. /\ NoDisk \in Records(NoDisk.order) /\ NoDisk.exec = Start /\ NoDisk.confidence = "none"
      /\ NoDisk.report = "none" /\ NoDisk.publication = "none"
  BY NoDiskIs DEF NoDisk
<1>4. TypeOK
  BY <1>1, <1>2, <1>3, StartIs, TurnIs DEF TypeOK, Pcs, LoopPcs, NoExit
<1>5. EvidenceInv
  BY <1>1, <1>3, StartIs DEF EvidenceInv
<1>6. SpendInv
  BY <1>1, <1>2, <1>3, StartIs DEF SpendInv, LoopPcs, ReportPcs
<1>7. ReportInv /\ EarnedInv
  BY <1>1, <1>3 DEF ReportInv, EarnedInv, EmptyPcs, OncePcs, LoopPcs, ReportPcs, NoExit
<1> QED
  BY <1>4, <1>5, <1>6, <1>7 DEF IInv

LEMMA IInvNext == IInv /\ [Next]_vars => IInv'
<1> SUFFICES ASSUME IInv, [Next]_vars PROVE IInv'
  OBVIOUS
<1>1. CASE UNCHANGED vars
  <2>1. UNCHANGED <<kind, pc, mem, turn, disk, files, budget, faults, exit>>
    BY <1>1 DEF vars, world
  <2> QED
    BY <2>1 DEF IInv, TypeOK, EvidenceInv, SpendInv, ReportInv, EarnedInv, Agrees, Ok, Basis,
                StatementBasis, DerivedBasis, Of, Fails
<1> QED
  BY <1>1, SetupStep, AskingStep, UsingStep, EndingStep, ReportingStep, KillStep, RebuildStep
  DEF Next

\* What every place of the loop, of the report and of the triage may rely on,
\* whatever the model answers, the tools do and the file system refuses.
THEOREM IInvariant == Spec => []IInv
BY IInvInit, IInvNext, PTL DEF Spec

\* No result outlives the figures it was computed from (agent/state.py:49-72):
\* refreshing a tool removes the closure of what depends on it.
THEOREM EvidenceStaysCurrent == Spec => []EvidenceCurrent
<1>1. IInv => EvidenceCurrent
  BY DEF IInv, EvidenceInv, Agrees, EvidenceCurrent
<1> QED
  BY <1>1, IInvariant, PTL

\* Nothing is paid or executed that the record on disk does not announce
\* (agent/loop.py:18-20).
THEOREM SpendingIsAudited == Spec => []SpendAudited
<1>1. IInv => SpendAudited
  BY DEF IInv, SpendInv, LoopPcs, SpendAudited
<1> QED
  BY <1>1, IInvariant, PTL

\* At most one report exists, the record names it, and exit code 3 announces a
\* complete one (composer.py, run.py).
THEOREM ReportsAreCurrent == Spec => []ReportIsCurrent
<1>1. IInv => ReportIsCurrent
  BY DEF IInv, ReportInv, ReportIsCurrent
<1> QED
  BY <1>1, IInvariant, PTL

\* The rules of recheck_flag for one item.
LEMMA RecheckRules ==
  ASSUME NEW i \in Flags
  PROVE  /\ Recheck(i).item = i
         /\ "threshold" \in Diagnostics[i] => Recheck(i).escalate
         /\ Recheck(i).escalate /\ "threshold" \notin Diagnostics[i] =>
              Cardinality(Diagnostics[i] \ {"isolated", "resolved"}) > 1
<1> DEFINE d == Diagnostics[i]
           signals  == d \cap {"threshold", "anomaly", "drift", "probability"}
           isolated == {"anomaly", "isolated"} \subseteq d
           verdict  == IF Breaching(i) THEN IF isolated THEN "breach_verify" ELSE "breach"
                       ELSE IF Cardinality(signals) >= 2
                       THEN IF isolated THEN "corroborated_but_verify" ELSE "corroborated"
                       ELSE IF "anomaly" \in d THEN "isolated"
                       ELSE IF "resolved" \in d THEN "resolved" ELSE "weak"
<1>1. /\ Recheck(i).item = i
      /\ Recheck(i).escalate <=> verdict \notin {"isolated", "resolved", "weak"}
  BY DEF Recheck
<1>2. signals = d \ {"isolated", "resolved"}
  BY LoopAssumption
<1>3. Breaching(i) <=> "threshold" \in d
  BY DEF Breaching
<1>4. "threshold" \in d => verdict \notin {"isolated", "resolved", "weak"}
  BY <1>3
<1>5. "threshold" \notin d /\ verdict \notin {"isolated", "resolved", "weak"} => Cardinality(signals) >= 2
  BY <1>3
<1>6. IsFiniteSet({"threshold", "anomaly", "drift", "probability"})
  <2>1. IsFiniteSet({"threshold"} \cup {"anomaly"} \cup {"drift"} \cup {"probability"})
    BY FS_Singleton, FS_Union
  <2>2. {"threshold"} \cup {"anomaly"} \cup {"drift"} \cup {"probability"}
          = {"threshold", "anomaly", "drift", "probability"}
    OBVIOUS
  <2> QED
    BY <2>1, <2>2
<1>7. Cardinality(signals) \in Nat
  BY <1>6, FS_Subset, FS_CardinalityType
<1>8. Cardinality(signals) >= 2 => Cardinality(d \ {"isolated", "resolved"}) > 1
  <2> HIDE DEF signals, d
  <2> QED
    BY <1>2, <1>7
<1> HIDE DEF verdict, signals
<1> QED
  BY <1>1, <1>4, <1>5, <1>8

\* Confidence is never more than the saved execution and text deserve
\* (validation/gate.py): the record half of PublishedIsEarned.
ConfidenceEarned ==
  disk.confidence \in {"medium", "high"} =>
    LET res == disk.exec.results IN
    /\ disk.exec.status = "completed"
    /\ \A t \in Required : Ok(res, t)
    /\ \A t \in {"compute_ratios", "run_dcf", "peer_outlier_check"} :
         res[t].of = res["get_financials"].of \o res["get_prices"].of
    /\ {"contract", "fcff", "bridge", "earnings"} \subseteq Facts[res["get_financials"].of[1]]
    /\ disk.note # Figures

THEOREM ConfidenceIsEarned == Spec => []ConfidenceEarned
<1>1. ASSUME IInv, disk.confidence \in {"medium", "high"} PROVE ConfidenceEarned
  <2> DEFINE res == disk.exec.results
             fin == res["get_financials"].of
  <2>1. ~Fails(disk) /\ res \in Results
    BY <1>1 DEF IInv, EarnedInv, TypeOK, Records, Execs
  <2>2. disk.exec.status = "completed" /\ \A t \in Required : Ok(res, t)
    BY <2>1 DEF Fails, ExecutionFails, EvidenceFails
  <2>3. ~ReconcileFails(res) /\ Sound(res) /\ PeersComparable(res) /\ Has(res, "run_dcf", {"bridge"})
        /\ Grounded(disk.note, res)
    BY <2>1 DEF Fails, EvidenceFails, PeersFail, ValuationFails
  <2>4. {"compute_ratios", "run_dcf", "peer_outlier_check"} \subseteq Required \cap Computed
        /\ Priced \subseteq Required
    BY NeedsOf DEF Required, Priced
  <2>5. ASSUME NEW t \in {"compute_ratios", "run_dcf", "peer_outlier_check"}
        PROVE  Computable(res, t) /\ res[t].of = fin \o res["get_prices"].of
    <3>1. Ok(res, t) /\ t \in Computed /\ Ok(res, "get_financials") /\ Ok(res, "get_prices")
      BY <2>2, <2>4 DEF Priced
    <3>2. res[t].st # "none"
      BY <3>1 DEF Ok
    <3>3. Computable(res, t) /\ res[t].of = Basis(res, t)
      BY <2>3, <3>1, <3>2 DEF ReconcileFails
    <3>4. Basis(res, t) = fin \o res["get_prices"].of
      BY <3>1 DEF Basis, StatementBasis, Of
    <3> QED
      BY <3>3, <3>4
  <2>6. Head(fin \o res["get_prices"].of) = Head(fin) /\ Head(fin) = fin[1]
    <3>1. fin \in Seq(Nat) /\ res["get_prices"].of \in Seq(Nat) /\ fin # <<>>
      BY <2>1 DEF Results, Basics, Tools, Fetchers
    <3> HIDE DEF fin, res
    <3> QED
      BY <3>1
  <2>7. DcfComputable(res)
    BY <2>5 DEF Computable
  <2>8. /\ "contract" \in Facts[Head(fin)] /\ "fcff" \in Facts[Head(fin)]
        /\ "earnings" \in Facts[Head(fin)] /\ "bridge" \in Facts[Head(res["run_dcf"].of)]
    BY <2>3, <2>7 DEF Sound, PeersComparable, DcfComputable, Has
  <2>9. res["run_dcf"].of = fin \o res["get_prices"].of
    BY <2>5
  <2>10. disk.note # Figures
    BY <2>3 DEF Grounded, Figures, Claims, Prose, Fallback
  <2>11. {"contract", "fcff", "bridge", "earnings"} \subseteq Facts[fin[1]]
    BY <2>6, <2>8, <2>9
  <2> HIDE DEF fin
  <2> QED
    BY <2>2, <2>5, <2>10, <2>11 DEF ConfidenceEarned, fin
<1>2. IInv => ConfidenceEarned
  BY <1>1 DEF ConfidenceEarned
<1> QED
  BY <1>2, IInvariant, PTL

\* A published triage is what Python makes of a completed run that named every
\* flag once, and says of each flag what recheck_flag does (triage.py).
TriageOfItsRun ==
  disk.publication = "published" =>
    /\ disk.exec.status = "completed" /\ Selected(disk.exec.text)
    /\ disk.order = Render(disk.exec.text)
    /\ \A n \in DOMAIN disk.order : LET line == disk.order[n] IN
         line.item \in Flags =>
           /\ line = Recheck(line.item)
           /\ "threshold" \in Diagnostics[line.item] => line.escalate
           /\ line.escalate /\ "threshold" \notin Diagnostics[line.item] =>
                Cardinality(Diagnostics[line.item] \ {"isolated", "resolved"}) > 1
THEOREM TriageIsOfItsRun == Spec => []TriageOfItsRun
<1>1. ASSUME IInv, disk.publication = "published" PROVE TriageOfItsRun
  <2>1. /\ disk.exec.status = "completed" /\ Selected(disk.exec.text)
        /\ disk.order = Render(disk.exec.text)
    BY <1>1 DEF IInv, EarnedInv
  <2>2. ASSUME NEW n \in DOMAIN disk.order, disk.order[n].item \in Flags
        PROVE  disk.order[n] = Recheck(disk.order[n].item)
    <3>1. \E i : disk.order[n] = Recheck(i)
      BY <2>1, <2>2 DEF Render
    <3>2. \A i : Recheck(i).item = i
      BY DEF Recheck
    <3> QED
      BY <3>1, <3>2
  <2> QED
    BY <2>1, <2>2, RecheckRules DEF TriageOfItsRun
<1>2. IInv => TriageOfItsRun
  BY <1>1 DEF TriageOfItsRun
<1> QED
  BY <1>2, IInvariant, PTL

-----------------------------------------------------------------------------
(* The order of a triage.                                                  *)

\* A text is a sequence.
LEMMA TextsAreSequences ==
  ASSUME NEW text \in SomeTexts
  PROVE  Len(text) \in Nat /\ DOMAIN text = 1..Len(text)
<1>1. CASE text \in {<<>>, Claims, Prose, Figures, Fallback, <<"unparseable">>}
  BY <1>1 DEF Claims, Prose, Figures, Fallback
<1>2. CASE text \in SeqOf(Flags, Cardinality(Flags) + 1)
  <2>1. PICK m \in 0..(Cardinality(Flags) + 1) : text \in [1..m -> Flags]
    BY <1>2 DEF SeqOf
  <2>2. m \in Nat
    BY <2>1
  <2>3. text \in Seq(Flags)
    BY <2>1, <2>2
  <2> QED
    BY <2>3
<1> QED
  BY <1>1, <1>2 DEF SomeTexts

\* Of two positions one is ahead, and whoever is ahead is placed earlier.
LEMMA AheadOrders ==
  ASSUME NEW text, NEW N \in Nat, DOMAIN text = 1..N, NEW m \in 1..N, NEW n \in 1..N
  PROVE  /\ Place(text, n) \in 1..N
         /\ Ahead(text, m, n) => Place(text, m) < Place(text, n)
         /\ m = n \/ Ahead(text, m, n) \/ Ahead(text, n, m)
<1> DEFINE A(k) == {i \in 1..N : Ahead(text, i, k)}
<1>1. IsFiniteSet(1..N) /\ Cardinality(1..N) = N
  BY FS_Interval
<1>2. \A k : A(k) \in SUBSET (1..N)
  OBVIOUS
<1>3. \A k : IsFiniteSet(A(k)) /\ Cardinality(A(k)) \in Nat
  BY <1>1, <1>2, FS_Subset, FS_CardinalityType
<1>4. \A k : Place(text, k) = Cardinality(A(k)) + 1
  BY DEF Place
<1>5. n \notin A(n) /\ m \notin A(m)
  BY DEF Ahead
<1>6. Ahead(text, m, n) => A(m) \subseteq A(n) /\ m \in A(n)
  <2> SUFFICES ASSUME Ahead(text, m, n), NEW i \in 1..N, Ahead(text, i, m) PROVE Ahead(text, i, n)
    OBVIOUS
  <2> QED
    BY DEF Ahead, Breaching
<1>7. m = n \/ Ahead(text, m, n) \/ Ahead(text, n, m)
  BY DEF Ahead, Breaching
<1> HIDE DEF A
<1>8. Cardinality(A(n)) < N
  <2>1. A(n) \in SUBSET ((1..N) \ {n}) /\ Cardinality((1..N) \ {n}) = N - 1 /\ IsFiniteSet((1..N) \ {n})
    BY <1>1, <1>2, <1>5, FS_RemoveElement
  <2>2. Cardinality(A(n)) <= N - 1
    BY <2>1, FS_Subset
  <2> QED
    BY <1>3, <2>2
<1>9. Ahead(text, m, n) => Cardinality(A(m)) < Cardinality(A(n))
  <2> SUFFICES ASSUME Ahead(text, m, n) PROVE Cardinality(A(m)) < Cardinality(A(n))
    OBVIOUS
  <2>1. A(m) \in SUBSET A(n) /\ A(m) # A(n)
    BY <1>5, <1>6
  <2>2. /\ Cardinality(A(m)) <= Cardinality(A(n))
        /\ Cardinality(A(m)) # Cardinality(A(n))
    BY <1>3, <2>1, FS_Subset
  <2> QED
    BY <1>3, <2>2
<1> QED
  BY <1>3, <1>4, <1>7, <1>8, <1>9

\* Every place is taken by one position.
LEMMA PlacesTaken ==
  ASSUME NEW text, NEW N \in Nat, DOMAIN text = 1..N
  PROVE  \A k \in 1..N : \E n \in 1..N : Place(text, n) = k
<1>1. PICK f : f = [n \in 1..N |-> Place(text, n)]
  OBVIOUS
<1>2. \A n \in 1..N : Place(text, n) \in 1..N
  BY AheadOrders
<1>3. \A m, n \in 1..N : m # n => Place(text, m) # Place(text, n)
  <2> SUFFICES ASSUME NEW m \in 1..N, NEW n \in 1..N, m # n
               PROVE  Place(text, m) # Place(text, n)
    OBVIOUS
  <2>1. Place(text, m) < Place(text, n) \/ Place(text, n) < Place(text, m)
    BY AheadOrders
  <2> QED
    BY <1>2, <2>1
<1>4. f \in Injection(1..N, 1..N)
  BY <1>1, <1>2, <1>3 DEF Injection, IsInjective
<1>5. f \in Surjection(1..N, 1..N)
  BY <1>4, FS_Interval, FS_Injection
<1> QED
  BY <1>1, <1>5 DEF Surjection

\* A stable sort keeps every item, and puts breaching ones first.
LEMMA SortedFacts ==
  ASSUME NEW text, NEW N \in Nat, DOMAIN text = 1..N
  PROVE  /\ DOMAIN Sorted(text) = 1..N
         /\ \A n \in 1..N : \E k \in 1..N : Sorted(text)[k] = text[n]
         /\ \A k \in 1..N : \E n \in 1..N : Sorted(text)[k] = text[n]
         /\ \A k \in 1..N : \A j \in 1..(k - 1) :
              Breaching(Sorted(text)[k]) => Breaching(Sorted(text)[j])
<1> DEFINE At(k) == CHOOSE n \in 1..N : Place(text, n) = k
<1>1. \A k \in 1..N : At(k) \in 1..N /\ Place(text, At(k)) = k
  BY PlacesTaken
<1>2. DOMAIN Sorted(text) = 1..N /\ \A k \in 1..N : Sorted(text)[k] = text[At(k)]
  BY DEF Sorted
<1> HIDE DEF At
<1>3. ASSUME NEW n \in 1..N PROVE \E k \in 1..N : Sorted(text)[k] = text[n]
  <2>1. PICK k \in 1..N : k = Place(text, n)
    BY AheadOrders
  <2>2. At(k) = n
    <3>1. /\ Ahead(text, At(k), n) => Place(text, At(k)) < Place(text, n)
          /\ Ahead(text, n, At(k)) => Place(text, n) < Place(text, At(k))
          /\ At(k) = n \/ Ahead(text, At(k), n) \/ Ahead(text, n, At(k))
      BY <1>1, AheadOrders
    <3> QED
      BY <1>1, <2>1, <3>1
  <2> QED
    BY <1>2, <2>2
<1>4. ASSUME NEW k \in 1..N, NEW j \in 1..(k - 1), Breaching(Sorted(text)[k])
      PROVE  Breaching(Sorted(text)[j])
  <2>1. j \in 1..N /\ j < k
    OBVIOUS
  <2>2. /\ Ahead(text, At(k), At(j)) => Place(text, At(k)) < Place(text, At(j))
        /\ At(j) = At(k) \/ Ahead(text, At(j), At(k)) \/ Ahead(text, At(k), At(j))
    BY <1>1, <2>1, AheadOrders
  <2>3. Ahead(text, At(j), At(k))
    BY <1>1, <2>1, <2>2
  <2>4. Breaching(text[At(k)])
    BY <1>2, <1>4
  <2>5. Breaching(text[At(j)])
    BY <2>3, <2>4 DEF Ahead, Breaching
  <2> QED
    BY <1>2, <2>1, <2>5
<1> QED
  BY <1>1, <1>2, <1>3, <1>4

\* What triage publishes: every flag once, breaching ones first.
LEMMA RenderedFacts ==
  ASSUME NEW text \in SomeTexts, Selected(text), NEW order, order = Render(text)
  PROVE  /\ {line.item : line \in ToSet(order)} = Flags /\ Len(order) = Cardinality(Flags)
         /\ \A i \in DOMAIN order : /\ order[i].item \in Flags
                                    /\ Breaching(order[i].item) =>
                                         \A j \in 1..(i - 1) : Breaching(order[j].item)
<1>1. PICK N \in Nat : N = Len(text) /\ DOMAIN text = 1..N
  BY TextsAreSequences
<1>2. N = Cardinality(Flags) /\ Flags = {text[n] : n \in 1..N}
  BY <1>1 DEF Selected, ToSet
<1>3. PICK sorted : sorted = Sorted(text)
  OBVIOUS
<1>4. /\ DOMAIN sorted = 1..N
      /\ \A n \in 1..N : \E k \in 1..N : sorted[k] = text[n]
      /\ \A k \in 1..N : \E n \in 1..N : sorted[k] = text[n]
      /\ \A k \in 1..N : \A j \in 1..(k - 1) : Breaching(sorted[k]) => Breaching(sorted[j])
  BY <1>1, <1>3, SortedFacts
<1>5. order = [k \in 1..N |-> Recheck(sorted[k])]
  BY <1>3, <1>4 DEF Render
<1>6. \A i : Recheck(i).item = i
  BY DEF Recheck
<1>7. DOMAIN order = 1..N /\ \A k \in 1..N : order[k].item = sorted[k]
  BY <1>5, <1>6
<1>8. Len(order) = N
  <2>1. order \in Seq({Recheck(sorted[k]) : k \in 1..N})
    BY <1>5
  <2> QED
    BY <1>7, <2>1
<1>9. {line.item : line \in ToSet(order)} = {sorted[k] : k \in 1..N}
  BY <1>7 DEF ToSet
<1>10. {sorted[k] : k \in 1..N} = Flags
  <2>1. \A i : i \in Flags <=> \E n \in 1..N : i = text[n]
    BY <1>2
  <2>2. /\ \A n \in 1..N : \E k \in 1..N : sorted[k] = text[n]
        /\ \A k \in 1..N : \E n \in 1..N : sorted[k] = text[n]
    BY <1>4
  <2> QED
    BY <2>1, <2>2
<1>11. ASSUME NEW i \in 1..N, Breaching(order[i].item), NEW j \in 1..(i - 1)
       PROVE  Breaching(order[j].item)
  <2>1. j \in 1..N /\ Breaching(sorted[i])
    BY <1>7, <1>11
  <2>2. Breaching(sorted[j])
    BY <1>4, <2>1
  <2> QED
    BY <1>7, <2>1, <2>2
<1>12. \A i \in 1..N : order[i].item \in Flags
  BY <1>7, <1>10
<1> QED
  BY <1>2, <1>7, <1>8, <1>9, <1>10, <1>11, <1>12

\* Nothing is published or approved that did not earn it: neither a record
\* (validation/gate.py) nor a triage, in which every flag stands once, active
\* breaches first and escalated, whatever order the model gave (triage.py).
THEOREM PublishedStaysEarned == Spec => []PublishedIsEarned
<1>1. ASSUME IInv, ConfidenceEarned, TriageOfItsRun PROVE PublishedIsEarned
  <2>1. ASSUME disk.publication = "published"
        PROVE  /\ disk.exec.status = "completed"
               /\ {line.item : line \in ToSet(disk.order)} = Flags
               /\ Len(disk.order) = Cardinality(Flags)
               /\ \A i \in DOMAIN disk.order : LET line == disk.order[i] IN
                    /\ "threshold" \in Diagnostics[line.item] =>
                         /\ line.escalate
                         /\ \A j \in 1..(i - 1) : "threshold" \in Diagnostics[disk.order[j].item]
                    /\ line.escalate /\ "threshold" \notin Diagnostics[line.item] =>
                         Cardinality(Diagnostics[line.item] \ {"isolated", "resolved"}) > 1
    <3>1. PICK text, order : text = disk.exec.text /\ order = disk.order
      OBVIOUS
    <3>2. text \in SomeTexts
      BY <1>1, <3>1 DEF IInv, TypeOK, Records, Execs
    <3>3. /\ disk.exec.status = "completed" /\ Selected(text) /\ order = Render(text)
          /\ \A n \in DOMAIN order : order[n].item \in Flags =>
               /\ "threshold" \in Diagnostics[order[n].item] => order[n].escalate
               /\ order[n].escalate /\ "threshold" \notin Diagnostics[order[n].item] =>
                    Cardinality(Diagnostics[order[n].item] \ {"isolated", "resolved"}) > 1
      BY <1>1, <2>1, <3>1 DEF TriageOfItsRun
    <3>4. /\ {line.item : line \in ToSet(order)} = Flags /\ Len(order) = Cardinality(Flags)
          /\ \A i \in DOMAIN order : /\ order[i].item \in Flags
                                     /\ Breaching(order[i].item) =>
                                          \A j \in 1..(i - 1) : Breaching(order[j].item)
      BY <3>2, <3>3, RenderedFacts
    <3> QED
      BY <3>1, <3>3, <3>4 DEF Breaching
  <2> QED
    BY <1>1, <2>1 DEF PublishedIsEarned, ConfidenceEarned
<1> QED
  BY <1>1, IInvariant, ConfidenceIsEarned, TriageIsOfItsRun, PTL
=============================================================================
