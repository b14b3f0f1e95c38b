------------------------- MODULE CatalystAttemptProofs -------------------------
(***************************************************************************)
(* Proofs about CatalystAttempt for every number of attempts, companies    *)
(* and issuers and whatever providers, models and faults do.  IInv is the  *)
(* inductive invariant: where a command may stand while its worker lives,  *)
(* what a record is worth at the stage its worker has saved, and what a    *)
(* retry took over.                                                        *)
(***************************************************************************)
EXTENDS CatalystAttempt, TLAPS

Checks   == {"validation_only", "inference", "thin_data", "comparability", "assembly",
             "multiple_testing", "adjusted_significance", "placebo", "item_review",
             "excluded_input_evidence", "no_relevant_usable_news", "illustrative_fixture"}
Articles == {"clean", "flagged", "stale", "offtopic", "failing"}
Sources  == {"ok", "partial", "excluded", "error"}
Asked    == [kind : {"none", "study", "live", "fixture"}, peers : (SUBSET Peers) \cup {AskModel},
             plan : {"none", "check", "reviewed"}]
Pins     == [peers : SUBSET Peers, by : {"none", "override", "model"}]
Reports  == UNION {[companies -> Sources] : companies \in SUBSET ({Target} \cup Peers)}
Results  == [status : Terminal \cup {"none"}, failed : SUBSET Checks, calculated : BOOLEAN,
             shown : {"none", "published", "diagnostic"}]
Later    == {"assembled", "calculation", "validation", "result", "persistence"}
Studying == {"configuration", "assembly", "peer_selection"} \cup Later
Toning   == {"configuration", "scorer_setup", "news_fetch", "news_scoring", "news_result"}
Shows    == {"none", "few", "null", "effect", "marginal", "dependent", "shifted"}
Records  == [status : Terminal \cup {"none", "running"}, stage : Studying \cup Toning,
             past : SUBSET (Studying \cup Toning), request : Asked, retry_of : Nat,
             retry : Pins, pinned : Pins, reports : Reports, sample : Shows,
             items : SUBSET Articles, result : Results]
Outcomes == [reports : Reports, sample : Shows, failed : SUBSET Checks]
Before   == {"none", "pinning", "checking", "launching"}
After    == {"done", "killed"}
Places   == Before \cup After \cup {"resealing", "waiting", "stopping", "sealing", "indexing"}

TypeOK ==
  /\ run \in [Attempts -> Records] /\ bundle \in [Attempts -> Records]
  /\ outcome \in [Attempts -> Outcomes]
  /\ DOMAIN index = Attempts
  /\ parent \in [Attempts -> Places]
  /\ worker \in [Attempts -> {"none", "alive", "exited", "dead"}]
  /\ faults \in Nat

\* Where a command may stand while its worker lives, and what is there by then.
CommandAt(a) ==
  /\ run[a].status = "none" <=> parent[a] = "none"
  /\ parent[a] = "none" => run[a] = NoRecord /\ outcome[a] = NoOutcome
  /\ run[a].request.kind = "none" => parent[a] = "none"
  /\ parent[a] \in Before => worker[a] = "none"
  /\ parent[a] \in Before \ {"none"} => run[a].status = "running" /\ run[a].stage = "configuration"
  /\ worker[a] = "alive" => parent[a] \in {"waiting", "killed"}
  /\ worker[a] = "exited" \/ parent[a] \in {"sealing", "resealing", "indexing"} =>
       run[a].status \in Terminal
  /\ bundle[a] # NoRecord => parent[a] \in After \cup {"indexing"}
  /\ parent[a] = "indexing" \/ index[a] # NoRow => bundle[a] # NoRecord
CommandInv == \A a \in Attempts : CommandAt(a)

\* What a record is worth, by the stage its worker has saved.
Complete(a, r) == DOMAIN r.reports = Universe(r) /\ Contributing(r.reports) # {}
                    /\ ~TooFew(r) /\ r.sample \in Samples[a] /\ r.result = Analyzed(r)
EarnedStudy(a, r, o) ==
  /\ r.status = "running" =>
       /\ r.stage \in Studying
       /\ r.stage \in Later =>
            /\ "assembled" \in r.past /\ DOMAIN r.reports = Universe(r)
            /\ ~TooFew(r) => Contributing(r.reports) # {} /\ r.sample \in Samples[a]
       /\ r.stage \in {"calculation", "validation"} => ~TooFew(r)
       /\ r.stage = "result" =>
            r.result \in {Analyzed(r), [NoResult EXCEPT !.status = "unavailable"]}
       /\ r.stage = "persistence" => Complete(a, r) /\ o \in {NoOutcome, Payload(r)}
       /\ r.stage # "persistence" => o = NoOutcome
  /\ r.status \in {"held", "completed"} =>
       Complete(a, r) /\ "assembled" \in r.past /\ r.status = r.result.status /\ o = Payload(r)
EarnedTone(r) ==
  /\ "assembled" \notin r.past
  /\ r.status = "running" =>
       /\ r.stage \in Toning
       /\ r.stage \in {"news_scoring", "news_result"} => "news_scoring" \in r.past
       /\ r.stage = "news_result" => r.result = Aggregated(r)
  /\ r.status \in {"held", "completed"} =>
       "news_scoring" \in r.past /\ r.result = Aggregated(r) /\ r.status = r.result.status
Worth(a, r, o) ==
  /\ r.status \in Failures => r.result.shown # "published"
  /\ r.request.kind = "study" => EarnedStudy(a, r, o)
  /\ r.request.kind # "study" => EarnedTone(r) /\ o = NoOutcome
EvidenceInv == \A a \in Attempts : Worth(a, run[a], outcome[a])

\* A retried attempt rests, and its peers are those of the retry.
Rests(a) == run[a] # NoRecord /\ parent[a] \in After /\ worker[a] # "alive"
RetryAt(a) ==
  LET r == run[a] IN
  /\ r.retry # NoPin => r.pinned = r.retry
  /\ parent[a] = "pinning" => r.retry_of # 0
  /\ r.retry_of # 0 =>
       /\ r.retry_of \in 1..(a - 1) /\ Rests(r.retry_of)
       /\ Kept(run[r.retry_of]) # NoPin =>
            \/ r.retry = Kept(run[r.retry_of])
            \/ /\ parent[a] \in {"pinning", "killed"} /\ worker[a] = "none"
               /\ r.pinned = NoPin
RetryInv == \A a \in Attempts : RetryAt(a)

IInv ==
  /\ TypeOK /\ CommandInv /\ EvidenceInv /\ RetryInv
  /\ SealedIsFinal /\ IndexTruthful

-----------------------------------------------------------------------------
(* Records.                                                                *)

Evidence(r) == <<r.request, r.pinned, r.reports, r.sample, r.items>>

LEMMA EmptyReports == <<>> \in Reports /\ DOMAIN <<>> = {}
<1>1. <<>> \in [{} -> Sources]
  OBVIOUS
<1>2. {} \in SUBSET ({Target} \cup Peers)
  OBVIOUS
<1> QED
  BY <1>1, <1>2 DEF Reports

LEMMA FreshTyped ==
  ASSUME NEW q \in Asked, NEW of \in Nat
  PROVE  Fresh(q, of) \in Records /\ NoPin \in Pins /\ NoResult \in Results
<1>1. NoPin \in Pins /\ NoResult \in Results
  BY DEF NoPin, Pins, NoResult, Results
<1> QED
  BY <1>1, EmptyReports DEF Fresh, Records, Studying, Shows

LEMMA NoRecordTyped ==
  NoRecord \in Records /\ NoRecord.status = "none" /\ NoRecord.request.kind = "none"
    /\ NoRecord.retry_of = 0 /\ NoRecord.retry = NoPin /\ NoRecord.pinned = NoPin
    /\ NoRecord.past = {} /\ NoRecord.result = NoResult
<1> DEFINE q == [kind |-> "none", peers |-> {}, plan |-> "none"]
<1>1. q \in Asked
  BY DEF Asked
<1>2. Fresh(q, 0) \in Records
  BY <1>1, FreshTyped
<1>3. Fresh(q, 0).retry_of = 0 /\ Fresh(q, 0).retry = NoPin /\ Fresh(q, 0).pinned = NoPin
        /\ Fresh(q, 0).past = {} /\ Fresh(q, 0).result = NoResult /\ Fresh(q, 0).request = q
  BY DEF Fresh
<1>4. NoRecord = [Fresh(q, 0) EXCEPT !.status = "none"]
  BY DEF NoRecord
<1> HIDE DEF q
<1>5. q.kind = "none"
  BY DEF q
<1> QED
  BY <1>2, <1>3, <1>4, <1>5 DEF Records

\* A checkpoint moves the stage.
LEMMA AtEffect ==
  ASSUME NEW r \in Records, NEW stage \in Studying \cup Toning
  PROVE  /\ At(r, stage) \in Records
         /\ At(r, stage).stage = stage /\ At(r, stage).past = r.past \cup {stage}
         /\ At(r, stage).status = r.status /\ At(r, stage).result = r.result
         /\ At(r, stage).retry_of = r.retry_of /\ At(r, stage).retry = r.retry
         /\ Evidence(At(r, stage)) = Evidence(r)
BY DEF At, Records, Evidence

\* An end keeps the evidence and, unless it is a failure, the result.
LEMMA HoldEffect ==
  ASSUME NEW x \in Results, NEW status \in Terminal
  PROVE  /\ Hold(x, status) \in Results
         /\ status \notin Failures => Hold(x, status) = x
         /\ status \in Failures => Hold(x, status).shown # "published"
BY DEF Hold, Results, Failures, Terminal

LEMMA FinishEffect ==
  ASSUME NEW r \in Records, NEW status \in Terminal
  PROVE  /\ Finish(r, status) \in Records
         /\ Finish(r, status).stage = r.stage /\ Finish(r, status).past = r.past
         /\ Finish(r, status).status = status
         /\ Finish(r, status).retry_of = r.retry_of /\ Finish(r, status).retry = r.retry
         /\ Evidence(Finish(r, status)) = Evidence(r)
         /\ status \notin Failures => Finish(r, status).result = r.result
         /\ status \in Failures => Finish(r, status).result.shown # "published"
<1>1. PICK x : x = IF r.result = NoResult THEN r.result ELSE Hold(r.result, status)
  OBVIOUS
<1>2. r.result \in Results
  BY DEF Records
<1>3. /\ x \in Results
      /\ status \notin Failures => x = r.result
      /\ status \in Failures => x.shown # "published"
  <2>1. CASE r.result = NoResult
    BY <1>1, <1>2, <2>1 DEF NoResult
  <2>2. CASE r.result # NoResult
    BY <1>1, <1>2, <2>2, HoldEffect
  <2> QED
    BY <2>1, <2>2
<1>4. Finish(r, status) = [r EXCEPT !.status = status, !.result = x]
  BY <1>1 DEF Finish
<1> QED
  BY <1>3, <1>4 DEF Records, Evidence

LEMMA AsStartedEffect ==
  ASSUME NEW r \in Records
  PROVE  /\ AsStarted(r) \in Records /\ AsStarted(r).request = r.request
         /\ AsStarted(r).retry_of = r.retry_of /\ AsStarted(r).retry = r.retry
         /\ AsStarted(r).pinned = r.retry /\ AsStarted(r).past = {}
<1>1. r.request \in Asked /\ r.retry_of \in Nat /\ r.retry \in Pins
  BY DEF Records
<1>2. PICK x \in Records : x = Fresh(r.request, r.retry_of)
  BY <1>1, FreshTyped
<1>3. x.request = r.request /\ x.retry_of = r.retry_of /\ x.past = {}
  BY <1>2 DEF Fresh
<1>4. AsStarted(r) = [x EXCEPT !.retry = r.retry, !.pinned = r.retry]
  BY <1>2 DEF AsStarted
<1> QED
  BY <1>1, <1>3, <1>4 DEF Records

\* What is calculated from the evidence of a record.
LEMMA GatedEffect ==
  ASSUME NEW failed \in SUBSET Checks, NEW figures \in BOOLEAN
  PROVE  /\ Gated(failed, figures) \in Results
         /\ Gated(failed, figures).status \in {"held", "completed"}
         /\ Gated(failed, figures).failed = failed
         /\ Gated(failed, figures).shown = "published" =>
              failed = {} /\ Gated(failed, figures).status = "completed"
         /\ Gated(failed, figures).status = "completed" => failed = {}
         /\ Gated(failed, figures).status = "completed" /\ figures =>
              Gated(failed, figures).shown = "published"
BY DEF Gated, Results, Terminal

LEMMA FailedTyped ==
  \A plan, reports, sample : FailedChecks(plan, reports, sample) \in SUBSET Checks
BY DEF FailedChecks, Checks

LEMMA AnalyzedEffect ==
  ASSUME NEW r
  PROVE  /\ Analyzed(r) \in Results
         /\ TooFew(r) => /\ Analyzed(r).status \in {"unavailable", "refused"}
                                            /\ Analyzed(r).shown = "none"
         /\ ~TooFew(r) =>
              /\ Analyzed(r) = Gated(FailedChecks(r.request.plan, r.reports, r.sample), TRUE)
              /\ Analyzed(r).status \in {"held", "completed"}
<1>1. CASE TooFew(r)
  BY <1>1 DEF Analyzed, Uncalculated, NoResult, Results, Terminal
<1>2. CASE ~TooFew(r)
  BY <1>2, GatedEffect, FailedTyped DEF Analyzed
<1> QED
  BY <1>1, <1>2

LEMMA AggregatedEffect ==
  ASSUME NEW r
  PROVE  /\ Aggregated(r) = Gated(ReviewReasons(r), Toned(r.items) # {})
         /\ Aggregated(r) \in Results /\ Aggregated(r).status \in {"held", "completed"}
<1>1. ReviewReasons(r) \in SUBSET Checks /\ (Toned(r.items) # {}) \in BOOLEAN
  BY DEF ReviewReasons, Checks
<1> QED
  BY <1>1, GatedEffect DEF Aggregated

\* The same evidence gives the same result.
LEMMA SameEvidence ==
  ASSUME NEW r, NEW s, Evidence(r) = Evidence(s)
  PROVE  /\ r.request = s.request /\ r.pinned = s.pinned /\ r.reports = s.reports
         /\ r.sample = s.sample /\ r.items = s.items
         /\ Analyzed(r) = Analyzed(s) /\ Aggregated(r) = Aggregated(s) /\ Universe(r) = Universe(s)
<1>1. /\ r.request = s.request /\ r.pinned = s.pinned /\ r.reports = s.reports
      /\ r.sample = s.sample /\ r.items = s.items
  BY DEF Evidence
<1> QED
  BY <1>1 DEF Analyzed, TooFew, Aggregated, ReviewReasons, Universe

-----------------------------------------------------------------------------
(* Steps, by what they do.                                                 *)

Faulty == faults' \in {faults, faults + 1}

\* A command ends the record itself, as a failure.
Gives(a, r, status, to) ==
  /\ parent[a] \in {"checking", "launching", "waiting", "stopping", "sealing"}
  /\ parent[a] = "waiting" => worker[a] # "alive"
  /\ run' = [run EXCEPT ![a] = Finish(r, status)] /\ parent' = [parent EXCEPT ![a] = to]
  /\ UNCHANGED <<bundle, db, worker>>
Closes(a) ==
  \E r \in {run[a], AsStarted(run[a])}, status \in Failures, to \in {"sealing", "resealing"} :
    Gives(a, r, status, to)

\* A command goes on, or is killed, and leaves every file as it is.
Onward == {<<"checking", "launching">>, <<"stopping", "done">>, <<"sealing", "done">>,
           <<"resealing", "done">>, <<"indexing", "done">>, <<"waiting", "sealing">>}
Moves(a, to) ==
  /\ \/ <<parent[a], to>> \in Onward /\ (parent[a] = "waiting" => worker[a] = "exited")
     \/ to = "killed" /\ parent[a] \notin {"none", "done", "killed"}
  /\ parent' = [parent EXCEPT ![a] = to] /\ UNCHANGED <<files, db, worker>>
Launches(a) ==
  /\ parent[a] = "launching" /\ parent' = [parent EXCEPT ![a] = "waiting"]
  /\ worker' = [worker EXCEPT ![a] = "alive"] /\ UNCHANGED <<files, db>>
Stops(a) ==
  /\ parent[a] = "waiting" /\ parent' = [parent EXCEPT ![a] = "stopping"]
  /\ worker' = [worker EXCEPT ![a] = IF @ = "alive" THEN "dead" ELSE @] /\ UNCHANGED <<files, db>>
Dies(a, how) ==
  /\ worker[a] = "alive" /\ (how = "exited" => run[a].status \in Terminal)
  /\ worker' = [worker EXCEPT ![a] = how] /\ UNCHANGED <<files, db, parent>>
Seals(a) ==
  /\ WriteOnce(a)
  /\ \/ parent[a] = "sealing" /\ parent' = [parent EXCEPT ![a] = "indexing"]
     \/ parent[a] = "resealing" /\ parent' = [parent EXCEPT ![a] = "done"]
  /\ UNCHANGED <<run, db, worker>>
Indexes(a) ==
  /\ IndexBundle(a)
  /\ \/ parent[a] = "indexing" /\ parent' = [parent EXCEPT ![a] = "done"]
     \/ ReadBundle(bundle[a]) /\ UNCHANGED parent
  /\ UNCHANGED <<files, outcome, worker>>

\* A worker saves its record, or the outcome.
Labors(a) ==
  /\ worker[a] = "alive" /\ run[a].status = "running"
  /\ Study(a) \/ Tone(a)
  /\ UNCHANGED <<bundle, index, parent, worker>>
  /\ \E r : run' = [run EXCEPT ![a] = r]
  /\ \E o : outcome' = [outcome EXCEPT ![a] = o]

Kinds(a) ==
  \/ Start(a) \/ Retry(a) \/ PinRetry(a) \/ Closes(a) \/ \E to \in Places : Moves(a, to)
  \/ Launches(a) \/ Stops(a) \/ \E how \in {"exited", "dead"} : Dies(a, how)
  \/ Seals(a) \/ Indexes(a) \/ Labors(a)

\* A study or a tone changes the record of its attempt, or its outcome.
LEMMA LaborKind ==
  ASSUME TypeOK, NEW a \in Attempts, Study(a) \/ Tone(a)
  PROVE  Labors(a) /\ Faulty
<1>1. /\ run = [run EXCEPT ![a] = run[a]] /\ outcome = [outcome EXCEPT ![a] = outcome[a]]
  BY DEF TypeOK
<1>2. ASSUME NEW r, Saves(a, r), worker[a] = "alive", run[a].status = "running"
      PROVE  Labors(a) /\ Faulty
  BY <1>1, <1>2 DEF Saves, Save, Labors, Faulty, db
<1>3. ASSUME NEW status, Ends(a, status), worker[a] = "alive", run[a].status = "running"
      PROVE  Labors(a) /\ Faulty
  BY <1>2, <1>3 DEF Ends
<1>4. CASE CalculationFails(a)
  BY <1>1, <1>4 DEF CalculationFails, Works, Save, Fault, Faulty, Labors, db
<1>5. CASE RecordOutcome(a)
  BY <1>1, <1>5 DEF RecordOutcome, Works, Save, Fault, Faulty, Labors, db
<1>6. CASE Begin(a) \/ SelectPeers(a) \/ ModelAnswers(a) \/ StartAssembly(a)
  BY <1>2, <1>6 DEF Begin, SelectPeers, ModelAnswers, StartAssembly, Works
<1>7. CASE Fetch(a) \/ Assembled(a) \/ Calculate(a) \/ Validate(a)
  BY <1>2, <1>7 DEF Fetch, Assembled, Calculate, Validate, Works, Assembling
<1>8. CASE Search(a) \/ Score(a)
  BY <1>2, <1>8 DEF Search, Score, Works
<1>9. CASE ModelFails(a) \/ BadPlan(a) \/ FinishStudy(a) \/ SearchFails(a) \/ FinishNews(a)
  BY <1>3, <1>9 DEF ModelFails, BadPlan, FinishStudy, SearchFails, FinishNews, Works, Assembling
<1>10. CASE Conclude(a)
  BY <1>2, <1>3, <1>10 DEF Conclude, Works
<1> QED
  BY <1>4, <1>5, <1>6, <1>7, <1>8, <1>9, <1>10 DEF Study, Tone

LEMMA CommandKind ==
  ASSUME TypeOK, NEW a \in Attempts,
         Command(a) \/ Exit(a) \/ KillCommand(a) \/ KillWorker(a)
  PROVE  Kinds(a) /\ Faulty
<1>1. CASE Start(a)
  BY <1>1 DEF Kinds, Start, Creates, Faulty
<1>2. CASE Retry(a)
  BY <1>2 DEF Kinds, Retry, Creates, Faulty
<1>3. CASE PinRetry(a)
  BY <1>3 DEF Kinds, PinRetry, Faulty
<1>4. ASSUME NEW r \in {run[a], AsStarted(run[a])}, NEW status \in Failures,
             NEW to \in {"sealing", "resealing"}, Gives(a, r, status, to)
      PROVE  Kinds(a)
  BY <1>4, Zenon DEF Kinds, Closes
<1>5. ASSUME NEW to \in Places, Moves(a, to) PROVE Kinds(a)
  BY <1>5 DEF Kinds
<1>6. CASE Check(a)
  BY <1>4, <1>5, <1>6 DEF Check, Stands, Goes, Refuse, Save, Gives, Moves, Onward, Places, Before,
     Failures, Faulty, files
<1>7. CASE Reseal(a)
  BY <1>5, <1>7
    DEF Reseal, Stands, Goes, Kinds, Seals, Moves, Onward, Places, After, Fault, Faulty, files
<1>8. CASE Launch(a)
  BY <1>4, <1>8
    DEF Launch, Stands, Goes, Save, Gives, Launches, Failures, Fault, Faulty, Kinds, files
<1>9. CASE Collect(a)
  BY <1>4, <1>5, <1>9
    DEF Collect, Stands, Goes, Save, Gives, Moves, Onward, Places, Failures, Fault,
     Faulty, files
<1>10. CASE Deadline(a)
  BY <1>10 DEF Deadline, Stands, Goes, Stopped, Stops, Kinds, Faulty
<1>11. CASE Overtake(a)
  BY <1>4, <1>5, <1>11
    DEF Overtake, Stands, Goes, Refuse, Save, Gives, Moves, Onward, Places, After,
     Failures, Fault, Faulty, files
<1>12. CASE Seal(a)
  BY <1>4, <1>5, <1>12
    DEF Seal, Stands, Goes, Refuse, Save, Seals, Kinds, Gives, Moves, Onward, Places,
     After, Failures, Fault, Faulty, files
<1>13. CASE Index(a)
  BY <1>5, <1>13
    DEF Index, Stands, Goes, Indexes, Kinds, Moves, Onward, Places, After, Fault, Faulty,
     files, db
<1>14. CASE Reindex(a)
  BY <1>14 DEF Reindex, Indexes, Kinds, Faulty
<1>15. CASE KillCommand(a)
  BY <1>5, <1>15 DEF KillCommand, Goes, Moves, Places, After, Fault, Faulty
<1>16. CASE Exit(a) \/ KillWorker(a)
  BY <1>16 DEF Exit, KillWorker, Dies, Kinds, Fault, Faulty
<1> QED
  BY <1>1, <1>2, <1>3, <1>6, <1>7, <1>8, <1>9, <1>10, <1>11, <1>12, <1>13, <1>14, <1>15, <1>16
     DEF Command

LEMMA StepKinds ==
  ASSUME TypeOK, [Next]_vars
  PROVE  UNCHANGED vars \/ \E a \in Attempts : Kinds(a) /\ Faulty
<1>1. ASSUME NEW a \in Attempts, Study(a) \/ Tone(a) PROVE Kinds(a) /\ Faulty
  BY <1>1, LaborKind DEF Kinds
<1> QED
  BY <1>1, CommandKind DEF Next

-----------------------------------------------------------------------------
(* The record after a step of the worker.                                  *)

\* The request and the peers taken over stay; the record runs on or has ended.
Advances(a, s) ==
  /\ run' = [run EXCEPT ![a] = s] /\ s \in Records
  /\ s.request = run[a].request /\ s.retry_of = run[a].retry_of /\ s.retry = run[a].retry
  /\ s.status \in Terminal \cup {"running"}
  /\ run[a].retry # NoPin /\ run[a].pinned = run[a].retry => s.pinned = s.retry
Labored(a) ==
  \E s : Advances(a, s) /\ outcome'[a] \in Outcomes /\ Worth(a, s, outcome'[a])

\* A failure claims nothing.
LEMMA FailureWorth ==
  ASSUME NEW a \in Attempts, NEW r \in Records, NEW s, NEW status \in Failures, NEW o,
         s \in {r, AsStarted(r)}, r.request.kind # "study" => EarnedTone(r) /\ o = NoOutcome
  PROVE  /\ Worth(a, Finish(s, status), o) /\ Finish(s, status) \in Records
         /\ Finish(s, status).request = r.request /\ Finish(s, status).status = status
         /\ Finish(s, status).retry_of = r.retry_of /\ Finish(s, status).retry = r.retry
         /\ r.retry # NoPin /\ r.pinned = r.retry => Finish(s, status).pinned = r.retry
         /\ Finish(s, status).pinned \in {r.pinned, r.retry}
<1>1. /\ s \in Records /\ s.request = r.request /\ s.past \subseteq r.past
      /\ s.retry_of = r.retry_of /\ s.retry = r.retry /\ s.pinned \in {r.pinned, r.retry}
  BY AsStartedEffect
<1>2. status \in Terminal /\ status \notin {"running", "held", "completed"}
  BY DEF Failures, Terminal
<1>3. PICK x : x = Finish(s, status)
  OBVIOUS
<1>4. /\ x \in Records /\ x.past = s.past /\ x.status = status /\ x.result.shown # "published"
      /\ x.retry_of = s.retry_of /\ x.retry = s.retry /\ Evidence(x) = Evidence(s)
  BY <1>1, <1>2, <1>3, FinishEffect
<1>5. x.request = s.request /\ x.pinned = s.pinned
  BY <1>4 DEF Evidence
<1>6. Worth(a, x, o)
  BY <1>1, <1>2, <1>4, <1>5 DEF Worth, EarnedStudy, EarnedTone
<1> QED
  BY <1>1, <1>3, <1>4, <1>5, <1>6

LEMMA EndsFailed ==
  ASSUME TypeOK, EvidenceInv, NEW a \in Attempts, NEW status \in Failures, UNCHANGED outcome,
         Save(a, Finish(run[a], status))
  PROVE  Labored(a)
<1>1. run[a] \in Records /\ outcome[a] \in Outcomes /\ status \in Terminal
  BY DEF TypeOK, Failures, Terminal
<1>2. run[a].request.kind # "study" => EarnedTone(run[a]) /\ outcome[a] = NoOutcome
  BY DEF EvidenceInv, Worth
<1>3. Advances(a, Finish(run[a], status)) /\ Worth(a, Finish(run[a], status), outcome[a])
  BY <1>1, <1>2, FailureWorth DEF Save, Advances
<1> QED
  BY <1>1, <1>3 DEF Labored

\* Before the evidence is assembled nothing is claimed.
LEMMA EarlyWorth ==
  ASSUME NEW a \in Attempts, NEW s \in Records, s.status = "running", s.request.kind = "study",
         s.stage \in Studying \ Later
  PROVE  Worth(a, s, NoOutcome)
BY DEF Worth, EarnedStudy, Failures, Later, Studying

\* A study works in its own stages, and a tone in its own.
LEMMA Running ==
  ASSUME TypeOK, EvidenceInv, NEW a \in Attempts, run[a].status = "running"
  PROVE  /\ run[a] \in Records /\ outcome[a] \in Outcomes
         /\ IsStudy(a) => EarnedStudy(a, run[a], outcome[a]) /\ run[a].stage \in Studying
         /\ ~IsStudy(a) => /\ EarnedTone(run[a]) /\ outcome[a] = NoOutcome
                           /\ run[a].stage \in Toning
         /\ run[a].stage \in Studying \ {"configuration"} => IsStudy(a)
         /\ run[a].stage \in Toning \ {"configuration"} => ~IsStudy(a)
<1>1. Worth(a, run[a], outcome[a]) /\ run[a] \in Records /\ outcome[a] \in Outcomes
  BY DEF EvidenceInv, TypeOK
<1> QED
  BY <1>1 DEF Worth, IsStudy, EarnedStudy, EarnedTone, Studying, Later, Toning

LEMMA AdvanceEarly ==
  ASSUME TypeOK, EvidenceInv, NEW a \in Attempts, run[a].status = "running", IsStudy(a),
         run[a].stage \notin {"persistence"}, NEW s \in Records, Save(a, s), UNCHANGED outcome,
         s.status = "running", s.request = run[a].request, s.retry_of = run[a].retry_of,
         s.retry = run[a].retry, s.stage \in Studying \ Later,
         run[a].retry # NoPin /\ run[a].pinned = run[a].retry => s.pinned = s.retry
  PROVE  Labored(a)
<1>1. outcome[a] = NoOutcome /\ outcome[a] \in Outcomes
  BY Running DEF EarnedStudy
<1>2. Worth(a, s, NoOutcome)
  BY EarlyWorth DEF IsStudy
<1>3. Advances(a, s)
  BY DEF Advances, Save
<1> QED
  BY <1>1, <1>2, <1>3 DEF Labored

LEMMA EarlyLabors ==
  ASSUME TypeOK, EvidenceInv, NEW a \in Attempts,
         \/ Begin(a) \/ SelectPeers(a) \/ ModelAnswers(a) \/ StartAssembly(a) \/ Fetch(a)
  PROVE  Labored(a)
<1> DEFINE r == run[a]
<1>1. r \in Records /\ r.status = "running" /\ worker[a] = "alive"
  BY DEF TypeOK, Begin, SelectPeers, ModelAnswers, StartAssembly, Fetch, Assembling, Works
<1>2. CASE Begin(a)
  <2>1. PICK s : s = At(r, "assembly")
    OBVIOUS
  <2>2. /\ Save(a, s) /\ UNCHANGED outcome /\ IsStudy(a) /\ r.stage = "configuration"
    BY <1>2, <2>1 DEF Begin, Saves, Works, db
  <2>3. s \in Records /\ s.stage = "assembly" /\ s.status = "running" /\ Evidence(s) = Evidence(r)
          /\ s.retry_of = r.retry_of /\ s.retry = r.retry
    BY <1>1, <2>1, AtEffect DEF Studying
  <2> QED
    BY <1>1, <2>2, <2>3, AdvanceEarly DEF Evidence, Studying, Later
<1>3. CASE SelectPeers(a)
  <2>1. PICK x : x = At(r, "peer_selection")
    OBVIOUS
  <2>2. PICK pin : pin = IF r.retry # NoPin THEN r.retry
                         ELSE IF r.request.peers # AskModel
                              THEN [peers |-> r.request.peers, by |-> "override"] ELSE NoPin
    OBVIOUS
  <2>3. PICK s : s = [x EXCEPT !.pinned = pin]
    OBVIOUS
  <2>4. /\ Save(a, s) /\ UNCHANGED outcome /\ r.stage = "assembly"
    BY <1>3, <2>1, <2>2, <2>3 DEF SelectPeers, Saves, Works, db
  <2>5. IsStudy(a)
    BY <1>1, <2>4, Running DEF Studying
  <2>6. x \in Records /\ x.stage = "peer_selection" /\ x.status = "running"
          /\ Evidence(x) = Evidence(r) /\ x.retry_of = r.retry_of /\ x.retry = r.retry
    BY <1>1, <2>1, AtEffect DEF Studying
  <2>7. pin \in Pins /\ (r.retry # NoPin => pin = r.retry)
    <3>1. r.request.peers \in (SUBSET Peers) \cup {AskModel} /\ r.retry \in Pins
      BY <1>1 DEF Records, Asked
    <3>2. r.request.peers # AskModel => [peers |-> r.request.peers, by |-> "override"] \in Pins
      BY <3>1 DEF Pins
    <3> QED
      BY <2>2, <3>1, <3>2, FreshTyped, NoRecordTyped DEF Records
  <2>8. s \in Records /\ s.stage = "peer_selection" /\ s.status = "running"
          /\ s.request = r.request /\ s.retry_of = r.retry_of /\ s.retry = r.retry
          /\ s.pinned = pin
    BY <2>3, <2>6, <2>7 DEF Records, Evidence
  <2> QED
    BY <1>1, <2>4, <2>5, <2>7, <2>8, AdvanceEarly DEF Studying, Later
<1>4. CASE ModelAnswers(a)
  <2>1. PICK p \in Proposals : Saves(a, [r EXCEPT !.pinned = [peers |-> p, by |-> "model"]])
    BY <1>4 DEF ModelAnswers
  <2>2. PICK s : s = [r EXCEPT !.pinned = [peers |-> p, by |-> "model"]]
    OBVIOUS
  <2>3. Save(a, s) /\ UNCHANGED outcome /\ r.stage = "peer_selection" /\ r.pinned = NoPin
    BY <1>4, <2>1, <2>2 DEF ModelAnswers, Saves, Works, db
  <2>4. IsStudy(a)
    BY <1>1, <2>3, Running DEF Studying
  <2>5. [peers |-> p, by |-> "model"] \in Pins
    BY DEF Proposals, Pins
  <2>6. s \in Records /\ s.stage = r.stage /\ s.status = "running"
          /\ s.request = r.request /\ s.retry_of = r.retry_of /\ s.retry = r.retry
    BY <1>1, <2>2, <2>5 DEF Records
  <2> QED
    BY <1>1, <2>3, <2>4, <2>6, AdvanceEarly DEF Studying, Later
<1>5. CASE StartAssembly(a)
  <2>1. PICK s : s = At(r, "assembly")
    OBVIOUS
  <2>2. Save(a, s) /\ UNCHANGED outcome /\ r.stage = "peer_selection"
    BY <1>5, <2>1 DEF StartAssembly, Saves, Works, db
  <2>3. IsStudy(a)
    BY <1>1, <2>2, Running DEF Studying
  <2>4. s \in Records /\ s.stage = "assembly" /\ s.status = "running" /\ Evidence(s) = Evidence(r)
          /\ s.retry_of = r.retry_of /\ s.retry = r.retry
    BY <1>1, <2>1, AtEffect DEF Studying
  <2> QED
    BY <1>1, <2>2, <2>3, <2>4, AdvanceEarly DEF Evidence, Studying, Later
<1>6. CASE Fetch(a)
  <2>0. PICK c \in Universe(r) \ DOMAIN r.reports : \E f \in Windows(a) \cup Identity(r, c) :
          Saves(a, [r EXCEPT !.reports = [x \in DOMAIN @ \cup {c} |-> IF x = c THEN f ELSE @[x]]])
    BY <1>6 DEF Fetch
  <2>1. PICK f \in Windows(a) \cup Identity(r, c) :
          Saves(a, [r EXCEPT !.reports = [x \in DOMAIN @ \cup {c} |-> IF x = c THEN f ELSE @[x]]])
    BY <2>0
  <2>2. PICK found : found = [x \in DOMAIN r.reports \cup {c} |-> IF x = c THEN f ELSE r.reports[x]]
    OBVIOUS
  <2>3. PICK s : s = [r EXCEPT !.reports = found]
    OBVIOUS
  <2>4. Save(a, s) /\ UNCHANGED outcome /\ r.stage = "assembly"
    BY <1>6, <2>1, <2>2, <2>3 DEF Fetch, Assembling, Saves, Works, db
  <2>5. IsStudy(a)
    BY <1>1, <2>4, Running DEF Studying
  <2>6. found \in Reports
    <3>1. PICK companies \in SUBSET ({Target} \cup Peers) : r.reports \in [companies -> Sources]
      BY <1>1 DEF Records, Reports
    <3>2. r.pinned.peers \subseteq Peers
      BY <1>1 DEF Records, Pins
    <3>3. c \in {Target} \cup Peers
      BY <3>2 DEF Universe
    <3>4. f \in Sources
      BY AttemptAssumption DEF Windows, Identity, Sources
    <3>5. found \in [companies \cup {c} -> Sources]
      BY <2>2, <3>1, <3>4
    <3>6. companies \cup {c} \in SUBSET ({Target} \cup Peers)
      BY <3>1, <3>3
    <3> QED
      BY <3>5, <3>6 DEF Reports
  <2>7. s \in Records /\ s.stage = r.stage /\ s.status = "running" /\ s.pinned = r.pinned
          /\ s.request = r.request /\ s.retry_of = r.retry_of /\ s.retry = r.retry
    BY <1>1, <2>3, <2>6 DEF Records
  <2> QED
    BY <1>1, <2>4, <2>5, <2>7, AdvanceEarly DEF Studying, Later
<1> QED
  BY <1>2, <1>3, <1>4, <1>5, <1>6

\* A record that runs on and is worth what its stage says.
LEMMA RunsOn ==
  ASSUME TypeOK, EvidenceInv, NEW a \in Attempts, NEW s \in Records, Save(a, s), UNCHANGED outcome,
         s.request = run[a].request, s.retry_of = run[a].retry_of, s.retry = run[a].retry,
         s.pinned = run[a].pinned,
         \/ s.status = "running"
         \/ s.status \in {"held", "completed"},
         Worth(a, s, outcome[a])
  PROVE  Labored(a)
<1>1. Advances(a, s)
  BY DEF Advances, Save, Terminal
<1>2. outcome'[a] \in Outcomes
  BY DEF TypeOK
<1> QED
  BY <1>1, <1>2 DEF Labored

LEMMA AssembledLabors ==
  ASSUME TypeOK, EvidenceInv, NEW a \in Attempts, Assembled(a)
  PROVE  Labored(a)
<1> DEFINE r == run[a]
<1>1. /\ r.status = "running" /\ r.stage = "assembly" /\ DOMAIN r.reports = Universe(r)
  BY DEF Assembled, Assembling, Works
<1>2. /\ r \in Records /\ IsStudy(a) /\ outcome[a] = NoOutcome
  BY <1>1, Running DEF Studying, EarnedStudy
<1>3. PICK x \in Drawn(a, Contributing(r.reports)) :
        Saves(a, [At(r, "assembled") EXCEPT !.sample = x])
  BY DEF Assembled
<1>4. PICK at : at = At(r, "assembled")
  OBVIOUS
<1>5. PICK s : s = [at EXCEPT !.sample = x]
  OBVIOUS
<1>6. Save(a, s) /\ UNCHANGED outcome
  BY <1>3, <1>4, <1>5 DEF Saves, db
<1>7. /\ at \in Records /\ at.stage = "assembled" /\ at.past = r.past \cup {"assembled"}
      /\ at.status = "running" /\ at.retry_of = r.retry_of /\ at.retry = r.retry
      /\ Evidence(at) = Evidence(r)
  BY <1>1, <1>2, <1>4, AtEffect DEF Studying, Later
<1>8. x \in Shows
  BY AttemptAssumption DEF Shows, Drawn
<1>9. /\ s \in Records /\ s.stage = "assembled" /\ "assembled" \in s.past /\ s.status = "running"
      /\ s.retry_of = r.retry_of /\ s.retry = r.retry /\ s.request = r.request
      /\ s.pinned = r.pinned /\ s.reports = r.reports /\ s.sample = x
  BY <1>5, <1>7, <1>8 DEF Records, Evidence
<1>10. EarnedStudy(a, s, NoOutcome)
  BY <1>1, <1>3, <1>9 DEF EarnedStudy, Studying, Later, Universe, Drawn, TooFew
<1>11. Worth(a, s, outcome[a])
  BY <1>2, <1>9, <1>10 DEF Worth, IsStudy, Failures
<1> QED
  BY <1>6, <1>9, <1>11, RunsOn

\* A later checkpoint of a study, with or without a result.
LEMMA LaterLabors ==
  ASSUME TypeOK, EvidenceInv, NEW a \in Attempts, run[a].status = "running",
         run[a].stage \in Later \ {"persistence"}, NEW stage \in {"calculation", "validation", "result"},
         NEW s, UNCHANGED outcome, Save(a, s),
         stage # "result" => ~TooFew(run[a]) /\ s = At(run[a], stage),
         stage = "result" => \E x \in {Analyzed(run[a]), [NoResult EXCEPT !.status = "unavailable"]} :
                               s = [At(run[a], stage) EXCEPT !.result = x]
  PROVE  Labored(a)
<1> DEFINE r == run[a]
<1>1. /\ r \in Records /\ IsStudy(a) /\ outcome[a] = NoOutcome
      /\ "assembled" \in r.past /\ DOMAIN r.reports = Universe(r)
      /\ ~TooFew(r) => Contributing(r.reports) # {} /\ r.sample \in Samples[a]
  BY Running DEF Studying, Later, EarnedStudy
<1>2. PICK at : at = At(r, stage)
  OBVIOUS
<1>3. /\ at \in Records /\ at.stage = stage /\ at.past = r.past \cup {stage}
      /\ at.status = "running" /\ at.retry_of = r.retry_of /\ at.retry = r.retry
      /\ Evidence(at) = Evidence(r)
  BY <1>1, <1>2, AtEffect DEF Studying, Later
<1>4. /\ s \in Records /\ s.stage = stage /\ s.past = at.past /\ s.status = "running"
      /\ s.retry_of = r.retry_of /\ s.retry = r.retry /\ Evidence(s) = Evidence(r)
      /\ stage = "result" =>
           s.result \in {Analyzed(r), [NoResult EXCEPT !.status = "unavailable"]}
  <2>1. CASE stage # "result"
    BY <1>2, <1>3, <2>1
  <2>2. CASE stage = "result"
    <3>1. PICK x \in {Analyzed(r), [NoResult EXCEPT !.status = "unavailable"]} :
            s = [at EXCEPT !.result = x]
      BY <1>2, <2>2
    <3>2. [NoResult EXCEPT !.status = "unavailable"] \in Results
      BY DEF NoResult, Results, Terminal
    <3>3. x \in Results
      BY <3>2, AnalyzedEffect
    <3>4. /\ s \in Records /\ s.stage = stage /\ s.past = at.past /\ s.status = "running"
          /\ s.retry_of = at.retry_of /\ s.retry = at.retry /\ Evidence(s) = Evidence(at)
          /\ s.result = x
      BY <1>3, <3>1, <3>3 DEF Records, Evidence
    <3> QED
      BY <1>3, <3>1, <3>4
  <2> QED
    BY <2>1, <2>2
<1>5. /\ s.request = r.request /\ s.pinned = r.pinned /\ s.reports = r.reports
      /\ s.sample = r.sample /\ Analyzed(s) = Analyzed(r) /\ Universe(s) = Universe(r)
  BY <1>4, SameEvidence
<1>6. EarnedStudy(a, s, NoOutcome)
  BY <1>1, <1>3, <1>4, <1>5 DEF TooFew, EarnedStudy, Studying, Later
<1>7. Worth(a, s, outcome[a])
  BY <1>1, <1>4, <1>5, <1>6 DEF Worth, IsStudy, Failures
<1> QED
  BY <1>4, <1>5, <1>7, RunsOn

LEMMA CalculationLabors ==
  ASSUME TypeOK, EvidenceInv, NEW a \in Attempts,
         Calculate(a) \/ CalculationFails(a) \/ Validate(a)
  PROVE  Labored(a)
<1> DEFINE r == run[a]
<1>1. r.status = "running" /\ r.stage \in {"assembled", "calculation", "validation"}
  BY DEF Calculate, CalculationFails, Validate, Works
<1>2. r \in Records /\ EarnedStudy(a, r, outcome[a])
  BY <1>1, Running DEF Studying, Later
<1>3. CASE Calculate(a)
  <2>1. UNCHANGED outcome /\ r.stage \in Later \ {"persistence"}
    BY <1>1, <1>3 DEF Calculate, Saves, db, Later
  <2>2. CASE TooFew(r)
    <3>1. Save(a, [At(r, "result") EXCEPT !.result = Analyzed(r)])
      BY <1>3, <2>2 DEF Calculate, Saves
    <3> QED
      BY <1>1, <2>1, <3>1, LaterLabors
  <2>3. CASE ~TooFew(r)
    <3>1. Save(a, At(r, "calculation"))
      BY <1>3, <2>3 DEF Calculate, Saves
    <3> QED
      BY <1>1, <2>1, <2>3, <3>1, LaterLabors
  <2> QED
    BY <2>2, <2>3
<1>4. CASE CalculationFails(a)
  <2>1. UNCHANGED outcome /\ r.stage \in Later \ {"persistence"}
    BY <1>1, <1>4 DEF CalculationFails, db, Later
  <2>2. CASE Save(a, [At(r, "result") EXCEPT !.result = [NoResult EXCEPT !.status = "unavailable"]])
    BY <1>1, <2>1, <2>2, LaterLabors
  <2>3. CASE Save(a, Finish(r, "failed"))
    BY <2>1, <2>3, EndsFailed DEF Failures
  <2> QED
    BY <1>4, <2>2, <2>3 DEF CalculationFails
<1>5. CASE Validate(a)
  <2>1. /\ UNCHANGED outcome /\ r.stage \in Later \ {"persistence"}
        /\ r.stage \in {"calculation", "validation"}
    BY <1>1, <1>5 DEF Validate, Saves, Works, db, Later
  <2>2. ~TooFew(r)
    BY <1>1, <1>2, <2>1 DEF EarnedStudy
  <2>3. CASE Save(a, At(r, "validation"))
    BY <1>1, <2>1, <2>2, <2>3, LaterLabors
  <2>4. CASE Save(a, [At(r, "result") EXCEPT !.result = Analyzed(r)])
    BY <1>1, <2>1, <2>4, LaterLabors
  <2> QED
    BY <1>5, <2>3, <2>4 DEF Validate, Saves
<1> QED
  BY <1>3, <1>4, <1>5

\* The second judgement of a completed study agrees with the first.
LEMMA StillAllowed ==
  ASSUME NEW r \in Records,
         r.result \in {Analyzed(r), [NoResult EXCEPT !.status = "unavailable"]}
  PROVE  /\ Demoted(r) = r /\ r.result.status \in {"held", "completed"} \cup Failures
         /\ r.result.status \in {"held", "completed"} =>
              r.result = Analyzed(r) /\ ~TooFew(r)
<1>1. [NoResult EXCEPT !.status = "unavailable"].status = "unavailable"
  BY DEF NoResult
<1>2. ASSUME r.result = Analyzed(r), ~TooFew(r), r.result.status = "completed"
      PROVE  Allowed(r)
  <2>1. PICK failed : failed = FailedChecks(r.request.plan, r.reports, r.sample)
    OBVIOUS
  <2>2. r.result = Gated(failed, TRUE)
    BY <1>2, <2>1, AnalyzedEffect
  <2>3. failed = {} /\ r.result.shown = "published"
    BY <1>2, <2>2 DEF Gated
  <2> QED
    BY <1>2, <2>1, <2>3 DEF Allowed
<1>3. /\ r.result.status \in {"held", "completed"} \cup Failures
      /\ r.result.status \in {"held", "completed"} =>
           r.result = Analyzed(r) /\ ~TooFew(r)
  BY <1>1, AnalyzedEffect DEF Failures
<1> QED
  BY <1>2, <1>3 DEF Demoted

LEMMA ConcludeLabors ==
  ASSUME TypeOK, EvidenceInv, NEW a \in Attempts, Conclude(a)
  PROVE  Labored(a)
<1> DEFINE r == run[a]
<1>1. r.status = "running" /\ r.stage = "result"
  BY DEF Conclude, Works
<1>2. r \in Records /\ EarnedStudy(a, r, outcome[a]) /\ IsStudy(a)
  BY <1>1, Running DEF Studying, Later
<1>3. /\ outcome[a] = NoOutcome /\ "assembled" \in r.past /\ DOMAIN r.reports = Universe(r)
      /\ ~TooFew(r) => Contributing(r.reports) # {} /\ r.sample \in Samples[a]
      /\ r.result \in {Analyzed(r), [NoResult EXCEPT !.status = "unavailable"]}
  BY <1>1, <1>2 DEF EarnedStudy, Later
<1>4. /\ Demoted(r) = r /\ r.result.status \in {"held", "completed"} \cup Failures
      /\ r.result.status \in {"held", "completed"} =>
           r.result = Analyzed(r) /\ ~TooFew(r)
  BY <1>2, <1>3, StillAllowed
<1>5. CASE r.result.status \in {"held", "completed"}
  <2>1. PICK s : s = At(r, "persistence")
    OBVIOUS
  <2>2. Save(a, s) /\ UNCHANGED outcome
    BY <1>4, <1>5, <2>1 DEF Conclude, Saves, db
  <2>3. /\ s \in Records /\ s.stage = "persistence" /\ s.past = r.past \cup {"persistence"}
        /\ s.status = "running" /\ s.result = r.result
        /\ s.retry_of = r.retry_of /\ s.retry = r.retry /\ Evidence(s) = Evidence(r)
    BY <1>1, <1>2, <2>1, AtEffect DEF Studying, Later
  <2>4. /\ s.request = r.request /\ s.pinned = r.pinned /\ s.reports = r.reports
        /\ s.sample = r.sample /\ Analyzed(s) = Analyzed(r) /\ Universe(s) = Universe(r)
    BY <2>3, SameEvidence
  <2>5. Complete(a, s)
    BY <1>3, <1>4, <1>5, <2>3, <2>4 DEF TooFew, Complete
  <2>6. EarnedStudy(a, s, NoOutcome)
    BY <1>3, <2>3, <2>4, <2>5 DEF EarnedStudy, Complete, Studying, Later
  <2>7. Worth(a, s, outcome[a])
    BY <1>2, <1>3, <2>3, <2>4, <2>6 DEF Worth, IsStudy, Failures
  <2> QED
    BY <2>2, <2>3, <2>4, <2>7, RunsOn
<1>6. CASE r.result.status \in Failures
  <2>1. r.result.status \notin {"held", "completed"}
    BY <1>6 DEF Failures
  <2>2. Save(a, Finish(r, r.result.status)) /\ UNCHANGED outcome
    BY <1>4, <2>1 DEF Conclude, Ends, Saves, db
  <2> QED
    BY <1>6, <2>2, EndsFailed
<1> QED
  BY <1>4, <1>5, <1>6

\* The outcome is recorded before the study ends.
LEMMA RecordLabors ==
  ASSUME TypeOK, EvidenceInv, NEW a \in Attempts, RecordOutcome(a) \/ FinishStudy(a)
  PROVE  Labored(a)
<1> DEFINE r == run[a]
<1>1. r.status = "running" /\ r.stage = "persistence"
  BY DEF RecordOutcome, FinishStudy, Works
<1>2. r \in Records /\ EarnedStudy(a, r, outcome[a]) /\ IsStudy(a)
  BY <1>1, Running DEF Studying, Later
<1>3. Complete(a, r) /\ outcome[a] \in {NoOutcome, Payload(r)} /\ "assembled" \in r.past
  BY <1>1, <1>2 DEF EarnedStudy, Later
<1>4. Payload(r) \in Outcomes
  BY <1>2 DEF Records, Results, Payload, Outcomes
<1>5. CASE RecordOutcome(a) /\ outcome' = [outcome EXCEPT ![a] = Payload(r)] /\ UNCHANGED run
  <2>1. outcome'[a] = Payload(r) /\ run' = [run EXCEPT ![a] = r]
    BY <1>5 DEF TypeOK
  <2>2. EarnedStudy(a, r, Payload(r))
    BY <1>1, <1>2, <1>3 DEF EarnedStudy
  <2>3. Worth(a, r, Payload(r))
    BY <1>1, <1>2, <2>2 DEF Worth, IsStudy, Failures
  <2>4. Advances(a, r)
    BY <1>1, <1>2, <2>1 DEF Advances
  <2> QED
    BY <1>4, <2>1, <2>3, <2>4 DEF Labored
<1>6. CASE RecordOutcome(a) /\ Save(a, Finish(r, "failed")) /\ UNCHANGED outcome
  BY <1>6, EndsFailed DEF Failures
<1>7. CASE FinishStudy(a)
  <2>1. r.result.status \in {"held", "completed"}
    BY <1>3, AnalyzedEffect DEF Complete
  <2>2. r.result.status \in Terminal /\ r.result.status \notin Failures
    BY <2>1 DEF Terminal, Failures
  <2>3. PICK s : s = Finish(r, r.result.status)
    OBVIOUS
  <2>4. Save(a, s) /\ UNCHANGED outcome /\ outcome[a] = Payload(r)
    BY <1>3, <1>7, <2>3 DEF FinishStudy, Ends, Saves, db
  <2>5. /\ s \in Records /\ s.past = r.past /\ s.status = r.result.status /\ s.result = r.result
        /\ s.retry_of = r.retry_of /\ s.retry = r.retry /\ Evidence(s) = Evidence(r)
    BY <1>2, <2>2, <2>3, FinishEffect
  <2>6. /\ s.request = r.request /\ s.pinned = r.pinned /\ s.reports = r.reports
        /\ s.sample = r.sample /\ Analyzed(s) = Analyzed(r) /\ Universe(s) = Universe(r)
    BY <2>5, SameEvidence
  <2>7. Complete(a, s) /\ Payload(s) = Payload(r)
    BY <1>3, <2>5, <2>6 DEF TooFew, Complete, Payload
  <2>8. Worth(a, s, outcome[a])
    BY <1>2, <1>3, <2>1, <2>2, <2>4, <2>5, <2>6, <2>7 DEF Worth, EarnedStudy, IsStudy
  <2> QED
    BY <2>1, <2>4, <2>5, <2>6, <2>8, RunsOn
<1> QED
  BY <1>5, <1>6, <1>7 DEF RecordOutcome

LEMMA StudyLabors ==
  ASSUME TypeOK, EvidenceInv, NEW a \in Attempts, Study(a)
  PROVE  Labored(a)
<1>1. ASSUME ModelFails(a) PROVE Labored(a)
  <2>1. PICK s \in {"unavailable", "refused"} : Ends(a, s)
    BY <1>1 DEF ModelFails
  <2> QED
    BY <2>1, EndsFailed DEF Ends, Saves, db, Failures
<1>2. ASSUME BadPlan(a) PROVE Labored(a)
  BY <1>2, EndsFailed DEF BadPlan, Ends, Saves, db, Failures
<1> QED
  BY <1>1, <1>2, EarlyLabors, AssembledLabors, CalculationLabors, ConcludeLabors, RecordLabors
     DEF Study

\* The same for the tone of news.
LEMMA ToneLabors ==
  ASSUME TypeOK, EvidenceInv, NEW a \in Attempts, Tone(a)
  PROVE  Labored(a)
<1> DEFINE r == run[a]
<1>1. r.status = "running" /\ r.stage \in Toning
  BY DEF Tone, Search, SearchFails, Score, FinishNews, Works, Toning
<1>2. ~IsStudy(a)
  BY <1>1, Running DEF Tone, Search, SearchFails, Score, FinishNews, Works, Toning
<1>3. r \in Records /\ EarnedTone(r) /\ outcome[a] = NoOutcome
  BY <1>1, <1>2, Running
<1>4. ASSUME NEW s \in Records, Save(a, s), UNCHANGED outcome,
             s.stage \in Toning, s.past = r.past \cup {s.stage}, s.status = "running",
             s.retry_of = r.retry_of, s.retry = r.retry, s.request = r.request, s.pinned = r.pinned,
             s.stage = "news_result" => s.result = Aggregated(s) /\ r.stage = "news_scoring"
      PROVE  Labored(a)
  <2>1. "assembled" \notin s.past /\ (s.stage \in {"news_scoring", "news_result"} => "news_scoring" \in s.past)
    BY <1>1, <1>3, <1>4 DEF EarnedTone, Toning
  <2>2. EarnedTone(s)
    BY <1>4, <2>1 DEF EarnedTone
  <2>3. Worth(a, s, outcome[a])
    BY <1>2, <1>3, <1>4, <2>2 DEF Worth, IsStudy, Failures
  <2> QED
    BY <1>4, <2>3, RunsOn
<1>5. ASSUME NEW stage \in Toning
      PROVE  /\ At(r, stage) \in Records /\ At(r, stage).stage = stage
             /\ At(r, stage).past = r.past \cup {stage} /\ At(r, stage).status = "running"
             /\ At(r, stage).retry_of = r.retry_of /\ At(r, stage).retry = r.retry
             /\ At(r, stage).request = r.request /\ At(r, stage).pinned = r.pinned
             /\ At(r, stage).items = r.items
  BY <1>1, <1>3, AtEffect DEF Evidence
<1>7. CASE Search(a)
  <2>1. UNCHANGED outcome
    BY <1>7 DEF Search, Saves, db
  <2>2. ASSUME NEW stage \in {"scorer_setup", "news_fetch"}, Save(a, At(r, stage)) PROVE Labored(a)
    <3>1. stage \in Toning /\ stage # "news_result"
      BY DEF Toning
    <3> QED
      BY <1>4, <1>5, <2>1, <2>2, <3>1
  <2>3. ASSUME NEW items \in News, Save(a, [At(r, "news_scoring") EXCEPT !.items = items])
        PROVE  Labored(a)
    <3>1. PICK at : at = At(r, "news_scoring")
      OBVIOUS
    <3>2. PICK s : s = [at EXCEPT !.items = items]
      OBVIOUS
    <3>3. items \in SUBSET Articles
      BY AttemptAssumption DEF Articles
    <3>4. /\ s \in Records /\ s.stage = "news_scoring" /\ s.past = r.past \cup {"news_scoring"}
          /\ s.status = "running" /\ s.retry_of = r.retry_of /\ s.retry = r.retry
          /\ s.request = r.request /\ s.pinned = r.pinned
      BY <1>5, <3>1, <3>2, <3>3 DEF Records, Toning
    <3> QED
      BY <1>4, <2>1, <2>3, <3>1, <3>2, <3>4 DEF Toning
  <2> QED
    BY <1>7, <2>2, <2>3 DEF Search, Saves, Works
<1>8. CASE SearchFails(a)
  BY <1>8, EndsFailed DEF SearchFails, Ends, Saves, db, Failures
<1>9. CASE Score(a)
  <2>1. /\ UNCHANGED outcome /\ r.stage = "news_scoring"
        /\ Save(a, [At(r, "news_result") EXCEPT !.result = Aggregated(r)])
    BY <1>9 DEF Score, Saves, Works, db
  <2>2. PICK at : at = At(r, "news_result")
    OBVIOUS
  <2>3. PICK s : s = [at EXCEPT !.result = Aggregated(r)]
    OBVIOUS
  <2>4. /\ at \in Records /\ at.stage = "news_result" /\ at.past = r.past \cup {"news_result"}
        /\ at.status = "running" /\ at.retry_of = r.retry_of /\ at.retry = r.retry
        /\ at.request = r.request /\ at.pinned = r.pinned /\ at.items = r.items
    BY <1>5, <2>2 DEF Toning
  <2>5. /\ s \in Records /\ s.stage = at.stage /\ s.past = at.past /\ s.status = at.status
        /\ s.retry_of = at.retry_of /\ s.retry = at.retry /\ s.request = at.request
        /\ s.pinned = at.pinned /\ s.items = at.items /\ s.result = Aggregated(r)
    BY <2>3, <2>4, AggregatedEffect DEF Records
  <2>6. s.result = Aggregated(s)
    BY <2>4, <2>5 DEF Aggregated, ReviewReasons
  <2>7. Save(a, s) /\ s.stage \in Toning
    BY <2>1, <2>2, <2>3, <2>4, <2>5 DEF Toning
  <2>8. /\ s.stage = "news_result" /\ s.past = r.past \cup {s.stage} /\ s.status = "running"
        /\ s.retry_of = r.retry_of /\ s.retry = r.retry /\ s.request = r.request
        /\ s.pinned = r.pinned
    BY <2>4, <2>5
  <2> QED
    BY <1>4, <2>1, <2>5, <2>6, <2>7, <2>8
<1>10. CASE FinishNews(a)
  <2>1. /\ UNCHANGED outcome /\ r.stage = "news_result"
        /\ Save(a, Finish(r, IF AllScorersFailed(r.items) THEN "unavailable" ELSE r.result.status))
    BY <1>10 DEF FinishNews, Works, Ends, Saves, db
  <2>2. CASE AllScorersFailed(r.items)
    BY <2>1, <2>2, EndsFailed DEF Failures
  <2>3. CASE ~AllScorersFailed(r.items)
    <3>1. r.result = Aggregated(r) /\ r.result.status \in {"held", "completed"} /\ "news_scoring" \in r.past
      BY <1>1, <1>3, <2>1, AggregatedEffect DEF EarnedTone
    <3>2. r.result.status \in Terminal /\ r.result.status \notin Failures
      BY <3>1 DEF Terminal, Failures
    <3>3. PICK s : s = Finish(r, r.result.status)
      OBVIOUS
    <3>4. Save(a, s)
      BY <2>1, <2>3, <3>3
    <3>5. /\ s \in Records /\ s.past = r.past /\ s.status = r.result.status /\ s.result = r.result
          /\ s.retry_of = r.retry_of /\ s.retry = r.retry /\ Evidence(s) = Evidence(r)
      BY <1>3, <3>2, <3>3, FinishEffect
    <3>6. s.request = r.request /\ s.pinned = r.pinned /\ Aggregated(s) = Aggregated(r)
      BY <3>5, SameEvidence
    <3>7. Worth(a, s, outcome[a])
      BY <1>2, <1>3, <3>1, <3>2, <3>5, <3>6 DEF Worth, EarnedTone, IsStudy
    <3> QED
      BY <2>1, <3>1, <3>4, <3>5, <3>6, <3>7, RunsOn
  <2> QED
    BY <2>2, <2>3
<1> QED
  BY <1>7, <1>8, <1>9, <1>10 DEF Tone

-----------------------------------------------------------------------------
(* Types.                                                                  *)

\* The peers once accepted are taken over in a second write.
LEMMA PinEffect ==
  ASSUME TypeOK, RetryInv, NEW a \in Attempts, PinRetry(a)
  PROVE  \E s \in Records :
           /\ run' = [run EXCEPT ![a] = s] /\ parent' = [parent EXCEPT ![a] = "checking"]
           /\ s.status = run[a].status /\ s.stage = run[a].stage /\ s.past = run[a].past
           /\ s.request = run[a].request /\ s.retry_of = run[a].retry_of
           /\ s.result = run[a].result /\ s.retry = Kept(run[run[a].retry_of]) /\ s.pinned = s.retry
<1>1. run[a].retry_of \in 1..(a - 1) /\ run[a] \in Records
  BY DEF RetryInv, RetryAt, PinRetry, Stands, TypeOK
<1>2. run[a].retry_of \in Attempts
  BY <1>1, AttemptAssumption DEF Attempts
<1>3. PICK kept : kept = Kept(run[run[a].retry_of])
  OBVIOUS
<1>4. kept \in Pins
  BY <1>2, <1>3 DEF Kept, TypeOK, Records
<1>5. PICK s : s = [run[a] EXCEPT !.retry = kept, !.pinned = kept]
  OBVIOUS
<1>6. /\ s \in Records /\ s.status = run[a].status /\ s.stage = run[a].stage /\ s.past = run[a].past
      /\ s.request = run[a].request /\ s.retry_of = run[a].retry_of
      /\ s.result = run[a].result /\ s.retry = kept /\ s.pinned = kept
  BY <1>1, <1>4, <1>5 DEF Records
<1>7. run' = [run EXCEPT ![a] = s] /\ parent' = [parent EXCEPT ![a] = "checking"]
  BY <1>3, <1>5 DEF PinRetry, Goes, Save
<1> QED
  BY <1>3, <1>6, <1>7

LEMMA TypePreserved ==
  ASSUME TypeOK, EvidenceInv, RetryInv, [Next]_vars
  PROVE  TypeOK'
<1>1. CASE UNCHANGED vars
  BY <1>1 DEF vars, files, db, TypeOK
<1> SUFFICES ASSUME NEW a \in Attempts, Kinds(a), Faulty PROVE TypeOK'
  BY <1>1, StepKinds
<1>2. faults' \in Nat /\ run[a] \in Records
  BY DEF Faulty, TypeOK
<1>3. ASSUME NEW r \in Records, NEW at \in Places, Creates(a, r, at) PROVE TypeOK'
  BY <1>2, <1>3 DEF Creates, Save, Goes, TypeOK, db
<1>4. CASE Start(a)
  <2>1. PICK q \in Requests :
          Creates(a, Fresh(q, 0), IF q.kind = "study" THEN "checking" ELSE "launching")
    BY <1>4 DEF Start
  <2>2. q \in Asked
    BY AttemptAssumption DEF Asked
  <2> QED
    BY <1>3, <2>1, <2>2, FreshTyped DEF Places, Before
<1>5. CASE Retry(a)
  <2>1. PICK of \in 1..(a - 1) : run[of] # NoRecord /\ IsStudy(of) /\
          LET kept == Kept(run[of]) IN
          IF kept = NoPin THEN Creates(a, Fresh(run[of].request, of), "checking")
          ELSE Creates(a, Fresh([run[of].request EXCEPT !.peers = kept.peers], of), "pinning")
    BY <1>5 DEF Retry
  <2>2. of \in Attempts /\ of \in Nat
    BY AttemptAssumption DEF Attempts
  <2>3. run[of].request \in Asked /\ Kept(run[of]) \in Pins
    BY <2>2 DEF TypeOK, Records, Kept
  <2>4. [run[of].request EXCEPT !.peers = Kept(run[of]).peers] \in Asked
    BY <2>3 DEF Asked, Pins
  <2> QED
    BY <1>3, <2>1, <2>2, <2>3, <2>4, FreshTyped DEF Places, Before
<1>6. CASE PinRetry(a)
  <2>1. PICK s \in Records :
          run' = [run EXCEPT ![a] = s] /\ parent' = [parent EXCEPT ![a] = "checking"]
    BY <1>6, PinEffect
  <2> QED
    BY <1>2, <1>6, <2>1 DEF PinRetry, TypeOK, Places, Before, db
<1>7. CASE Closes(a)
  <2>1. PICK r \in {run[a], AsStarted(run[a])}, status \in Failures, to \in {"sealing", "resealing"} :
          Gives(a, r, status, to)
    BY <1>7 DEF Closes
  <2>2. Finish(r, status) \in Records
    BY <1>2, AsStartedEffect, FinishEffect DEF Failures, Terminal
  <2> QED
    BY <1>2, <2>1, <2>2 DEF Gives, TypeOK, Places, db
<1>8. CASE \E to \in Places : Moves(a, to)
  BY <1>2, <1>8 DEF Moves, TypeOK, files, db
<1>9. CASE Launches(a) \/ Stops(a) \/ \E how \in {"exited", "dead"} : Dies(a, how)
  BY <1>2, <1>9 DEF Launches, Stops, Dies, TypeOK, files, db, Places
<1>10. CASE Seals(a)
  BY <1>2, <1>10 DEF Seals, WriteOnce, TypeOK, db, Places, After
<1>11. CASE Indexes(a)
  BY <1>2, <1>11 DEF Indexes, IndexBundle, TypeOK, files, Places, After
<1>12. CASE Labors(a)
  <2>1. Labored(a)
    BY <1>12, StudyLabors, ToneLabors DEF Labors
  <2> QED
    BY <1>2, <1>12, <2>1 DEF Labored, Advances, Labors, TypeOK
<1> QED
  BY <1>4, <1>5, <1>6, <1>7, <1>8, <1>9, <1>10, <1>11, <1>12 DEF Kinds

-----------------------------------------------------------------------------
(* Commands and their workers.                                             *)

\* A step touches one attempt.
Only(a) ==
  \A b \in Attempts \ {a} :
    /\ run'[b] = run[b] /\ bundle'[b] = bundle[b] /\ outcome'[b] = outcome[b]
    /\ index'[b] = index[b] /\ parent'[b] = parent[b] /\ worker'[b] = worker[b]

LEMMA OnlyOne ==
  ASSUME TypeOK, RetryInv, NEW a \in Attempts, Kinds(a)
  PROVE  Only(a)
<1>1. CASE Start(a) \/ Retry(a)
  BY <1>1 DEF Start, Retry, Creates, Save, Goes, db, Only, TypeOK
<1>2. CASE PinRetry(a)
  <2>1. \E s : run' = [run EXCEPT ![a] = s] /\ parent' = [parent EXCEPT ![a] = "checking"]
    BY <1>2, PinEffect
  <2>2. UNCHANGED <<bundle, outcome, index, worker>>
    BY <1>2 DEF PinRetry, db
  <2> QED
    BY <2>1, <2>2 DEF Only, TypeOK
<1>3. CASE Closes(a) \/ \E to \in Places : Moves(a, to)
  BY <1>3 DEF Closes, Gives, Moves, files, db, Only, TypeOK
<1>4. CASE Launches(a) \/ Stops(a) \/ \E how \in {"exited", "dead"} : Dies(a, how)
  BY <1>4 DEF Launches, Stops, Dies, files, db, Only, TypeOK
<1>5. CASE Seals(a)
  BY <1>5 DEF Seals, WriteOnce, db, Only, TypeOK
<1>6. CASE Indexes(a)
  BY <1>6 DEF Indexes, IndexBundle, files, Only, TypeOK
<1>7. CASE Labors(a)
  BY <1>7 DEF Labors, Only, TypeOK
<1> QED
  BY <1>1, <1>2, <1>3, <1>4, <1>5, <1>6, <1>7 DEF Kinds

\* What creating an attempt does.
LEMMA CreateEffect ==
  ASSUME TypeOK, CommandInv, NEW a \in Attempts, Start(a) \/ Retry(a)
  PROVE  /\ GateFree /\ run[a] = NoRecord /\ parent[a] = "none" /\ worker[a] = "none"
         /\ bundle[a] = NoRecord /\ outcome[a] = NoOutcome /\ index[a] = NoRow
         /\ UNCHANGED <<bundle, db, worker>>
         /\ \E q \in Asked, of \in {0} \cup 1..(a - 1), at \in {"pinning", "checking", "launching"} :
              /\ Creates(a, Fresh(q, of), at) /\ q.kind # "none"
              /\ at = "pinning" => of # 0
              /\ of # 0 => run[of] # NoRecord /\ (at = "pinning" <=> Kept(run[of]) # NoPin)
<1>1. CommandAt(a) /\ TypeOK
  BY DEF CommandInv
<1>2. ASSUME NEW r, NEW at, Creates(a, r, at)
      PROVE  /\ GateFree /\ run[a] = NoRecord /\ parent[a] = "none" /\ worker[a] = "none"
             /\ bundle[a] = NoRecord /\ outcome[a] = NoOutcome /\ index[a] = NoRow
             /\ UNCHANGED <<bundle, db, worker>>
  BY <1>1, <1>2, NoRecordTyped DEF Creates, CommandAt, Before, After
<1>3. CASE Start(a)
  <2>1. PICK q \in Requests :
          Creates(a, Fresh(q, 0), IF q.kind = "study" THEN "checking" ELSE "launching")
    BY <1>3 DEF Start
  <2>2. q \in Asked /\ q.kind # "none"
    BY AttemptAssumption DEF Asked
  <2> QED
    BY <1>2, <2>1, <2>2
<1>4. CASE Retry(a)
  <2>1. PICK of \in 1..(a - 1) : run[of] # NoRecord /\ IsStudy(of) /\
          LET kept == Kept(run[of]) IN
          IF kept = NoPin THEN Creates(a, Fresh(run[of].request, of), "checking")
          ELSE Creates(a, Fresh([run[of].request EXCEPT !.peers = kept.peers], of), "pinning")
    BY <1>4 DEF Retry
  <2>2. of \in Attempts /\ of \in Nat /\ of # 0
    BY AttemptAssumption DEF Attempts
  <2>3. /\ run[of].request \in Asked /\ run[of].request.kind = "study" /\ Kept(run[of]) \in Pins
    BY <2>1, <2>2 DEF TypeOK, Records, Kept, IsStudy
  <2>4. /\ [run[of].request EXCEPT !.peers = Kept(run[of]).peers] \in Asked
        /\ [run[of].request EXCEPT !.peers = Kept(run[of]).peers].kind = "study"
    BY <2>3 DEF Asked, Pins
  <2>5. CASE Kept(run[of]) = NoPin
    <3>1. Creates(a, Fresh(run[of].request, of), "checking")
      BY <2>1, <2>5
    <3> QED
      BY <1>2, <2>1, <2>2, <2>3, <2>5, <3>1
  <2>6. CASE Kept(run[of]) # NoPin
    <3>1. Creates(a, Fresh([run[of].request EXCEPT !.peers = Kept(run[of]).peers], of), "pinning")
      BY <2>1, <2>6
    <3> QED
      BY <1>2, <2>1, <2>2, <2>4, <2>6, <3>1
  <2> QED
    BY <2>5, <2>6
<1> QED
  BY <1>3, <1>4

LEMMA CommandPreserved ==
  ASSUME TypeOK, CommandInv, EvidenceInv, RetryInv, SealedIsFinal, [Next]_vars
  PROVE  CommandInv'
<1>1. CASE UNCHANGED vars
  BY <1>1 DEF vars, files, db, CommandInv, CommandAt
<1> SUFFICES ASSUME NEW a \in Attempts, Kinds(a) PROVE CommandInv'
  BY <1>1, StepKinds
<1>2. ASSUME NEW b \in Attempts \ {a} PROVE CommandAt(b)'
  BY <1>2, OnlyOne DEF Only, CommandInv, CommandAt
<1>3. CommandAt(a) /\ run[a] \in Records
  BY DEF CommandInv, TypeOK
<1>4. bundle[a] # NoRecord => worker[a] # "alive"
  BY DEF SealedIsFinal
<1>5. CASE Start(a) \/ Retry(a)
  <2>1. PICK q \in Asked, of \in Nat, at \in {"pinning", "checking", "launching"} :
          Creates(a, Fresh(q, of), at) /\ q.kind # "none"
    BY <1>5, CreateEffect DEF Attempts
  <2>2. /\ run'[a] = Fresh(q, of) /\ parent'[a] = at /\ worker'[a] = "none"
        /\ bundle'[a] = NoRecord /\ outcome'[a] = outcome[a] /\ index'[a] = NoRow
    BY <1>5, <2>1, CreateEffect DEF Creates, Save, Goes, TypeOK, db
  <2>3. /\ run'[a].status = "running" /\ run'[a].stage = "configuration"
        /\ run'[a].request.kind # "none"
    BY <2>1, <2>2 DEF Fresh
  <2>4. CommandAt(a)'
    BY <2>2, <2>3 DEF CommandAt, Before, After
  <2> QED
    BY <1>2, <2>4 DEF CommandInv
<1>6. CASE PinRetry(a)
  <2>1. /\ run'[a].status = run[a].status /\ parent'[a] = "checking" /\ parent[a] = "pinning"
        /\ run'[a].stage = run[a].stage /\ run'[a].request = run[a].request
        /\ worker'[a] = worker[a] /\ bundle'[a] = bundle[a] /\ index'[a] = index[a]
    BY <1>6, PinEffect DEF PinRetry, Stands, TypeOK, db
  <2>2. CommandAt(a)'
    BY <1>3, <2>1 DEF CommandAt, Before, After
  <2> QED
    BY <1>2, <2>2 DEF CommandInv
<1>7. CASE Closes(a)
  <2>1. PICK r \in {run[a], AsStarted(run[a])}, status \in Failures, to \in {"sealing", "resealing"} :
          Gives(a, r, status, to)
    BY <1>7 DEF Closes
  <2>2. /\ status \in Terminal /\ run'[a].status = status /\ run'[a].request = run[a].request
    <3>1. r \in Records /\ r.request = run[a].request /\ status \in Terminal
      BY <1>3, AsStartedEffect DEF Failures, Terminal
    <3> QED
      BY <2>1, <3>1, FinishEffect DEF Gives, TypeOK, Evidence
  <2>3. /\ parent[a] \in {"checking", "launching", "waiting", "stopping", "sealing"}
        /\ parent[a] = "waiting" => worker[a] # "alive"
        /\ parent'[a] \in {"sealing", "resealing"} /\ worker'[a] = worker[a]
        /\ bundle'[a] = bundle[a] /\ index'[a] = index[a]
    BY <2>1 DEF Gives, TypeOK, db
  <2>4. CommandAt(a)'
    BY <1>3, <2>2, <2>3 DEF CommandAt, Before, After, Terminal
  <2> QED
    BY <1>2, <2>4 DEF CommandInv
<1>8. CASE \E to \in Places : Moves(a, to)
  <2>1. PICK to \in Places : Moves(a, to)
    BY <1>8
  <2>2. /\ run'[a] = run[a] /\ bundle'[a] = bundle[a] /\ index'[a] = index[a]
        /\ outcome'[a] = outcome[a] /\ worker'[a] = worker[a] /\ parent'[a] = to
        /\ to # "none" /\ parent[a] # "none" /\ to # "pinning" /\ to # "checking"
        /\ to = "launching" => parent[a] = "checking"
        /\ to = "killed" \/ to = "launching" \/ parent[a] \notin Before
        /\ to \in After \cup {"launching", "sealing"}
        /\ to = "sealing" => parent[a] = "waiting" /\ worker[a] = "exited"
        /\ to = "done" => parent[a] \in {"stopping", "sealing", "resealing", "indexing"}
    BY <2>1 DEF Moves, Onward, TypeOK, files, db, Before, After
  <2>3. CommandAt(a)'
    BY <1>3, <2>2 DEF CommandAt, Before, After, Terminal
  <2> QED
    BY <1>2, <2>3 DEF CommandInv
<1>9. CASE Launches(a)
  <2>1. CommandAt(a)'
    BY <1>3, <1>9 DEF Launches, TypeOK, CommandAt, Before, After, files, db
  <2> QED
    BY <1>2, <2>1 DEF CommandInv
<1>10. CASE Stops(a)
  <2>1. CommandAt(a)'
    BY <1>3, <1>10 DEF Stops, TypeOK, CommandAt, Before, After, files, db
  <2> QED
    BY <1>2, <2>1 DEF CommandInv
<1>11. CASE \E how \in {"exited", "dead"} : Dies(a, how)
  <2>1. CommandAt(a)'
    BY <1>3, <1>11 DEF Dies, TypeOK, CommandAt, Before, After, files, db
  <2> QED
    BY <1>2, <2>1 DEF CommandInv
<1>12. CASE Seals(a)
  <2>1. /\ run'[a] = run[a] /\ bundle'[a] = run[a] /\ index'[a] = index[a]
        /\ outcome'[a] = outcome[a] /\ worker'[a] = worker[a]
        /\ \/ parent[a] = "sealing" /\ parent'[a] = "indexing"
           \/ parent[a] = "resealing" /\ parent'[a] = "done"
    BY <1>12 DEF Seals, WriteOnce, TypeOK, db
  <2>2. run[a] # NoRecord
    BY <1>3, <2>1, NoRecordTyped DEF CommandAt, Terminal
  <2>3. CommandAt(a)'
    BY <1>3, <2>1, <2>2 DEF CommandAt, Before, After
  <2> QED
    BY <1>2, <2>3 DEF CommandInv
<1>13. CASE Indexes(a)
  <2>1. /\ run'[a] = run[a] /\ bundle'[a] = bundle[a] /\ outcome'[a] = outcome[a]
        /\ worker'[a] = worker[a]
        /\ \/ parent[a] = "indexing" /\ parent'[a] = "done"
           \/ bundle[a] # NoRecord /\ parent'[a] = parent[a]
    BY <1>13 DEF Indexes, TypeOK, files, ReadBundle
  <2>2. CommandAt(a)'
    BY <1>3, <2>1 DEF CommandAt, Before, After
  <2> QED
    BY <1>2, <2>2 DEF CommandInv
<1>14. CASE Labors(a)
  <2>1. PICK s : Advances(a, s)
    BY <1>14, StudyLabors, ToneLabors DEF Labors, Labored
  <2>2. /\ run'[a].status \in Terminal \cup {"running"} /\ worker[a] = "alive"
        /\ run'[a].request = run[a].request
        /\ worker'[a] = worker[a] /\ parent'[a] = parent[a]
        /\ bundle'[a] = bundle[a] /\ index'[a] = index[a]
    BY <1>14, <2>1 DEF Advances, Labors, TypeOK
  <2>3. CommandAt(a)'
    BY <1>3, <1>4, <2>2 DEF CommandAt, Before, After, Terminal
  <2> QED
    BY <1>2, <2>3 DEF CommandInv
<1> QED
  BY <1>5, <1>6, <1>7, <1>8, <1>9, <1>10, <1>11, <1>12, <1>13, <1>14 DEF Kinds

-----------------------------------------------------------------------------
(* Evidence, retries, bundles and the index.                               *)

LEMMA EvidencePreserved ==
  ASSUME TypeOK, CommandInv, EvidenceInv, RetryInv, [Next]_vars
  PROVE  EvidenceInv'
<1>1. CASE UNCHANGED vars
  BY <1>1 DEF vars, files, db, EvidenceInv
<1> SUFFICES ASSUME NEW a \in Attempts, Kinds(a) PROVE EvidenceInv'
  BY <1>1, StepKinds
<1>2. ASSUME NEW b \in Attempts \ {a} PROVE Worth(b, run'[b], outcome'[b])
  BY <1>2, OnlyOne DEF Only, EvidenceInv
<1>3. Worth(a, run[a], outcome[a]) /\ CommandAt(a) /\ run[a] \in Records
  BY DEF EvidenceInv, CommandInv, TypeOK
<1> SUFFICES Worth(a, run'[a], outcome'[a])
  BY <1>2 DEF EvidenceInv
<1>4. CASE Start(a) \/ Retry(a)
  <2>1. PICK q \in Asked, of \in Nat, at \in {"pinning", "checking", "launching"} :
          Creates(a, Fresh(q, of), at)
    BY <1>4, CreateEffect DEF Attempts
  <2>2. run'[a] = Fresh(q, of) /\ outcome'[a] = NoOutcome
    BY <1>4, <2>1, CreateEffect DEF Creates, Save, TypeOK, db
  <2> QED
    BY <2>2 DEF Worth, EarnedStudy, EarnedTone, Fresh, Failures, Studying, Toning, Later
<1>5. CASE PinRetry(a)
  <2>1. /\ run'[a].status = run[a].status /\ run'[a].stage = run[a].stage
        /\ run'[a].past = run[a].past /\ run'[a].request = run[a].request
        /\ run'[a].result = run[a].result /\ outcome'[a] = outcome[a] /\ parent[a] = "pinning"
    BY <1>5, PinEffect DEF PinRetry, Stands, TypeOK, db
  <2>2. run[a].status = "running" /\ run[a].stage = "configuration"
    BY <1>3, <2>1 DEF CommandAt, Before
  <2> QED
    BY <1>3, <2>1, <2>2 DEF Worth, EarnedStudy, EarnedTone, Failures, Studying, Toning, Later
<1>6. CASE Closes(a)
  <2>1. PICK r \in {run[a], AsStarted(run[a])}, status \in Failures, to \in {"sealing", "resealing"} :
          Gives(a, r, status, to)
    BY <1>6 DEF Closes
  <2>2. run'[a] = Finish(r, status) /\ outcome'[a] = outcome[a]
    BY <2>1 DEF Gives, TypeOK, db
  <2>3. run[a].request.kind # "study" => EarnedTone(run[a]) /\ outcome[a] = NoOutcome
    BY <1>3 DEF Worth
  <2> QED
    BY <1>3, <2>2, <2>3, FailureWorth
<1>7. CASE \/ \E to \in Places : Moves(a, to)
           \/ Launches(a) \/ Stops(a) \/ \E how \in {"exited", "dead"} : Dies(a, how)
           \/ Seals(a) \/ Indexes(a)
  <2>1. UNCHANGED <<run, outcome>>
    BY <1>7 DEF Moves, Launches, Stops, Dies, Seals, Indexes, files, db
  <2> QED
    BY <1>3, <2>1
<1>8. CASE Labors(a)
  <2>1. PICK s : Advances(a, s) /\ Worth(a, s, outcome'[a])
    BY <1>8, StudyLabors, ToneLabors DEF Labors, Labored
  <2>2. run'[a] = s
    BY <2>1 DEF Advances, TypeOK
  <2> QED
    BY <2>1, <2>2
<1> QED
  BY <1>4, <1>5, <1>6, <1>7, <1>8 DEF Kinds

\* An attempt whose command and worker are gone is not changed any more.
LEMMA RestsStill ==
  ASSUME TypeOK, CommandInv, RetryInv, NEW a \in Attempts, Kinds(a), NEW b \in Attempts, Rests(b)
  PROVE  run'[b] = run[b] /\ Rests(b)'
<1>1. CASE b # a
  BY <1>1, OnlyOne DEF Only, Rests
<1>2. CASE b = a
  <2>1. parent[a] \in {"done", "killed"} /\ worker[a] # "alive" /\ run[a] # NoRecord
    BY <1>2 DEF Rests, After
  <2>2. Indexes(a)
    <3>1. ~Start(a) /\ ~Retry(a)
      BY <2>1, CreateEffect
    <3>2. ~PinRetry(a) /\ ~Closes(a) /\ ~Launches(a) /\ ~Stops(a) /\ ~Seals(a) /\ ~Labors(a)
      BY <2>1 DEF PinRetry, Stands, Closes, Gives, Launches, Stops, Seals, Labors
    <3>3. \A to \in Places : ~Moves(a, to)
      BY <2>1 DEF Moves, Onward
    <3>4. \A how : ~Dies(a, how)
      BY <2>1 DEF Dies
    <3> QED
      BY <3>1, <3>2, <3>3, <3>4 DEF Kinds
  <2>3. UNCHANGED <<run, parent, worker>>
    BY <2>1, <2>2 DEF Indexes, files
  <2> QED
    BY <2>3 DEF Rests
<1> QED
  BY <1>1, <1>2

LEMMA RetryPreserved ==
  ASSUME TypeOK, CommandInv, EvidenceInv, RetryInv, [Next]_vars
  PROVE  RetryInv'
<1>1. CASE UNCHANGED vars
  BY <1>1 DEF vars, files, db, RetryInv, RetryAt, Rests
<1> SUFFICES ASSUME NEW a \in Attempts, Kinds(a) PROVE RetryInv'
  BY <1>1, StepKinds
<1>2. \A b \in Attempts : b \in Nat /\ \A of \in 1..(b - 1) : of \in Attempts /\ of # 0 /\ of # b
  BY AttemptAssumption DEF Attempts
<1>3. ASSUME NEW b \in Attempts \ {a} PROVE RetryAt(b)'
  <2>1. RetryAt(b) /\ run'[b] = run[b] /\ parent'[b] = parent[b] /\ worker'[b] = worker[b]
    BY <1>3, OnlyOne DEF RetryInv, Only
  <2>2. CASE run[b].retry_of = 0
    BY <2>1, <2>2 DEF RetryAt
  <2>3. CASE run[b].retry_of # 0
    <3>1. PICK of : of = run[b].retry_of
      OBVIOUS
    <3>2. of \in Attempts /\ Rests(of)
      BY <1>2, <2>1, <2>3, <3>1 DEF RetryAt
    <3>3. run'[of] = run[of] /\ Rests(of)'
      BY <3>2, RestsStill
    <3> QED
      BY <2>1, <2>3, <3>1, <3>3 DEF RetryAt
  <2> QED
    BY <2>2, <2>3
<1>4. RetryAt(a) /\ run[a] \in Records /\ CommandAt(a)
  BY DEF RetryInv, TypeOK, CommandInv
<1> SUFFICES RetryAt(a)'
  BY <1>3 DEF RetryInv
<1>5. \A of : of = run[a].retry_of /\ of # 0 => run'[of] = run[of] /\ Rests(of)'
  <2>1. SUFFICES ASSUME NEW of, of = run[a].retry_of, of # 0 PROVE run'[of] = run[of] /\ Rests(of)'
    OBVIOUS
  <2>2. of \in Attempts /\ Rests(of)
    BY <1>2, <1>4, <2>1 DEF RetryAt
  <2> QED
    BY <2>2, RestsStill
\* An attempt that keeps what it took over, and has taken it over by now.
<1>6. ASSUME NEW s, run'[a] = s, s.retry_of = run[a].retry_of, s.retry = run[a].retry,
             s.retry # NoPin => s.pinned = s.retry,
             parent'[a] # "pinning",
             \/ parent[a] \notin {"pinning", "killed"} \/ worker[a] # "none"
             \/ parent'[a] = "killed" /\ worker'[a] = "none" /\ s.pinned = run[a].pinned
      PROVE  RetryAt(a)'
  <2>1. CASE s.retry_of = 0
    BY <1>6, <2>1 DEF RetryAt
  <2>2. CASE s.retry_of # 0
    <3>1. PICK of : of = run[a].retry_of
      OBVIOUS
    <3>2. run'[of] = run[of] /\ Rests(of)' /\ of \in 1..(a - 1)
      BY <1>4, <1>5, <1>6, <2>2, <3>1 DEF RetryAt
    <3>3. Kept(run[of]) # NoPin =>
            \/ s.retry = Kept(run[of])
            \/ parent'[a] = "killed" /\ worker'[a] = "none" /\ s.pinned = NoPin
      BY <1>4, <1>6, <2>2, <3>1 DEF RetryAt
    <3>4. run'[a].retry_of = of
      BY <1>6, <3>1
    <3> QED
      BY <1>6, <3>2, <3>3, <3>4 DEF RetryAt
  <2> QED
    BY <2>1, <2>2
<1>7. CASE Start(a) \/ Retry(a)
  <2>1. PICK q \in Asked, of \in {0} \cup 1..(a - 1), at \in {"pinning", "checking", "launching"} :
              /\ Creates(a, Fresh(q, of), at)
              /\ at = "pinning" => of # 0
              /\ of # 0 => run[of] # NoRecord /\ (at = "pinning" <=> Kept(run[of]) # NoPin)
    BY <1>7, CreateEffect
  <2>2. run'[a] = Fresh(q, of) /\ parent'[a] = at /\ worker'[a] = "none" /\ GateFree
    BY <1>7, <2>1, CreateEffect DEF Creates, Save, Goes, TypeOK, db
  <2>3. Fresh(q, of).retry_of = of /\ Fresh(q, of).retry = NoPin /\ Fresh(q, of).pinned = NoPin
    BY DEF Fresh
  <2>4. of # 0 => Rests(of) /\ of \in Attempts
    <3>1. SUFFICES ASSUME of # 0 PROVE Rests(of) /\ of \in Attempts
      OBVIOUS
    <3>2. of \in Attempts /\ CommandAt(of) /\ run[of] # NoRecord
      BY <1>2, <2>1, <3>1 DEF CommandInv
    <3>3. parent[of] \in {"none", "done", "killed"} /\ worker[of] # "alive"
      BY <2>2, <3>2 DEF GateFree
    <3> QED
      BY <3>2, <3>3 DEF Rests, After, CommandAt
  <2>5. of # 0 => run'[of] = run[of] /\ Rests(of)' /\ of \in 1..(a - 1)
    BY <2>1, <2>4, RestsStill
  <2> QED
    BY <2>1, <2>2, <2>3, <2>5 DEF RetryAt
<1>8. CASE PinRetry(a)
  <2>1. PICK s : /\ run' = [run EXCEPT ![a] = s] /\ parent' = [parent EXCEPT ![a] = "checking"]
                 /\ s.retry_of = run[a].retry_of /\ s.retry = Kept(run[run[a].retry_of])
                 /\ s.pinned = s.retry
    BY <1>8, PinEffect
  <2>2. run'[a] = s /\ parent'[a] = "checking" /\ run[a].retry_of # 0
    BY <1>4, <1>8, <2>1 DEF TypeOK, PinRetry, Stands, RetryAt
  <2>3. run[a].retry_of \in 1..(a - 1)
    BY <1>4, <2>2 DEF RetryAt
  <2> QED
    BY <1>5, <2>1, <2>2, <2>3 DEF RetryAt
<1>9. CASE Closes(a)
  <2>1. PICK r \in {run[a], AsStarted(run[a])}, status \in Failures, to \in {"sealing", "resealing"} :
          Gives(a, r, status, to)
    BY <1>9 DEF Closes
  <2>2. PICK s : s = Finish(r, status)
    OBVIOUS
  <2>3. /\ run'[a] = s /\ parent'[a] # "pinning" /\ parent[a] \notin {"pinning", "killed"}
    BY <2>1, <2>2 DEF Gives, TypeOK
  <2>4. r \in Records /\ status \in Terminal /\ r.retry_of = run[a].retry_of
          /\ r.retry = run[a].retry /\ r.pinned \in {run[a].pinned, run[a].retry}
    BY <1>4, AsStartedEffect DEF Failures, Terminal
  <2>5. s.retry_of = r.retry_of /\ s.retry = r.retry /\ s.pinned = r.pinned
    BY <2>2, <2>4, FinishEffect DEF Evidence
  <2>6. s.retry # NoPin => s.pinned = s.retry
    BY <1>4, <2>4, <2>5 DEF RetryAt
  <2> QED
    BY <1>6, <2>3, <2>4, <2>5, <2>6
<1>10. CASE \/ \E to \in Places : Moves(a, to)
            \/ Launches(a) \/ Stops(a) \/ \E how \in {"exited", "dead"} : Dies(a, how)
            \/ Seals(a) \/ Indexes(a)
  <2>1. run'[a] = run[a] /\ (run[a].retry # NoPin => run[a].pinned = run[a].retry)
    BY <1>4, <1>10 DEF Moves, Launches, Stops, Dies, Seals, Indexes, files, RetryAt
  <2>2. CASE Indexes(a) /\ UNCHANGED parent
    BY <1>4, <1>5, <2>1, <2>2 DEF Indexes, RetryAt
  <2>3. CASE ~(Indexes(a) /\ UNCHANGED parent)
    <3>1. CASE \E to \in Places : Moves(a, to)
      <4>1. PICK to \in Places : Moves(a, to)
        BY <3>1
      <4>2. /\ parent'[a] = to /\ to # "pinning" /\ worker'[a] = worker[a] /\ parent[a] # "killed"
            /\ parent[a] = "pinning" => to = "killed"
        BY <4>1 DEF Moves, Onward, TypeOK
      <4> QED
        BY <1>6, <2>1, <4>2
    <3>2. CASE Launches(a) \/ Stops(a) \/ Seals(a) \/ Indexes(a)
      <4>1. parent'[a] # "pinning" /\ parent[a] \notin {"pinning", "killed"}
        BY <2>3, <3>2 DEF Launches, Stops, Seals, Indexes, TypeOK
      <4> QED
        BY <1>6, <2>1, <4>1
    <3>3. CASE \E how \in {"exited", "dead"} : Dies(a, how)
      <4>1. worker[a] = "alive" /\ parent'[a] = parent[a]
        BY <3>3 DEF Dies
      <4>2. parent[a] # "pinning"
        BY <1>4, <4>1 DEF CommandAt
      <4> QED
        BY <1>6, <2>1, <4>1, <4>2
    <3> QED
      BY <1>10, <3>1, <3>2, <3>3
  <2> QED
    BY <2>2, <2>3
<1>11. CASE Labors(a)
  <2>1. PICK s : Advances(a, s)
    BY <1>11, StudyLabors, ToneLabors DEF Labors, Labored
  <2>2. /\ run'[a] = s /\ s.retry_of = run[a].retry_of /\ s.retry = run[a].retry
        /\ worker[a] = "alive" /\ parent'[a] = parent[a]
    BY <1>11, <2>1 DEF Advances, Labors, TypeOK
  <2>3. s.retry # NoPin => s.pinned = s.retry
    BY <1>4, <2>1, <2>2 DEF Advances, RetryAt
  <2>4. parent[a] # "pinning"
    BY <1>4, <2>2 DEF CommandAt
  <2> QED
    BY <1>6, <2>2, <2>3, <2>4
<1> QED
  BY <1>7, <1>8, <1>9, <1>10, <1>11 DEF Kinds

LEMMA SealedPreserved ==
  ASSUME TypeOK, CommandInv, EvidenceInv, RetryInv, SealedIsFinal, [Next]_vars
  PROVE  SealedIsFinal'
<1>1. CASE UNCHANGED vars
  BY <1>1 DEF vars, files, db, SealedIsFinal
<1> SUFFICES ASSUME NEW a \in Attempts, Kinds(a) PROVE SealedIsFinal'
  BY <1>1, StepKinds
<1> DEFINE Final == bundle[a] # NoRecord =>
                      bundle[a].status \in Terminal /\ run[a] = bundle[a] /\ worker[a] # "alive"
<1>2. ASSUME Final' PROVE SealedIsFinal'
  BY <1>2, OnlyOne DEF Only, SealedIsFinal
<1>3. Final /\ CommandAt(a)
  BY DEF SealedIsFinal, CommandInv
<1>4. CASE bundle'[a] = NoRecord
  BY <1>2, <1>4
<1>5. CASE Start(a) \/ Retry(a)
  BY <1>4, <1>5, CreateEffect
<1>6. CASE PinRetry(a) \/ Closes(a) \/ Launches(a) \/ Stops(a)
  <2>1. /\ parent[a] \notin After \cup {"indexing"}
    BY <1>6 DEF PinRetry, Stands, Closes, Gives, Launches, Stops, After
  <2>2. bundle'[a] = bundle[a]
    BY <1>6 DEF PinRetry, Closes, Gives, Launches, Stops, files
  <2> QED
    BY <1>3, <1>4, <2>1, <2>2 DEF CommandAt
<1>7. CASE Labors(a) \/ \E how \in {"exited", "dead"} : Dies(a, how)
  <2>1. worker[a] = "alive" /\ bundle'[a] = bundle[a]
    BY <1>7 DEF Labors, Dies, files
  <2> QED
    BY <1>3, <1>4, <2>1
<1>8. CASE Indexes(a) \/ \E to \in Places : Moves(a, to)
  <2>1. UNCHANGED <<run, bundle, worker>>
    BY <1>8 DEF Indexes, Moves, files
  <2> QED
    BY <1>2, <1>3, <2>1
<1>9. CASE Seals(a)
  <2>1. bundle'[a] = run[a] /\ UNCHANGED <<run, worker>> /\ parent[a] \in {"sealing", "resealing"}
    BY <1>9 DEF Seals, WriteOnce, TypeOK
  <2> QED
    BY <1>2, <1>3, <2>1 DEF CommandAt
<1> QED
  BY <1>5, <1>6, <1>7, <1>8, <1>9 DEF Kinds

\* A study that is held or completed has an outcome with figures.
LEMMA OutcomeRecorded ==
  ASSUME NEW a, NEW r, NEW o, EarnedStudy(a, r, o), r.status \in {"held", "completed"}
  PROVE  o = Payload(r) /\ o # NoOutcome
<1>1. o = Payload(r) /\ Contributing(r.reports) # {}
  BY DEF EarnedStudy, Complete
<1>2. DOMAIN r.reports # {}
  BY <1>1 DEF Contributing
<1>3. r.reports # <<>>
  BY <1>2, EmptyReports
<1> QED
  BY <1>1, <1>3 DEF Payload, NoOutcome

LEMMA IndexPreserved ==
  ASSUME TypeOK, CommandInv, EvidenceInv, RetryInv, SealedIsFinal, IndexTruthful, [Next]_vars
  PROVE  IndexTruthful'
<1>1. CASE UNCHANGED vars
  BY <1>1 DEF vars, files, db, IndexTruthful
<1> SUFFICES ASSUME NEW a \in Attempts, Kinds(a) PROVE IndexTruthful'
  BY <1>1, StepKinds
<1> DEFINE Truthful == index[a] # NoRow =>
    /\ index[a].status = bundle[a].status
    /\ index[a].reconciliation = "matched" <=>
         bundle[a].status \in {"held", "completed"} /\ bundle[a].request.kind = "study"
    /\ index[a].reconciliation = "no_summary" <=> outcome[a] = NoOutcome
    /\ index[a].reconciliation = "matched" =>
         outcome[a] = [reports |-> bundle[a].reports, sample |-> bundle[a].sample,
                       failed |-> bundle[a].result.failed]
<1>2. ASSUME Truthful' PROVE IndexTruthful'
  BY <1>2, OnlyOne DEF Only, IndexTruthful
<1>3. Truthful /\ CommandAt(a) /\ (bundle[a] # NoRecord => worker[a] # "alive" /\ run[a] = bundle[a])
  BY DEF IndexTruthful, CommandInv, SealedIsFinal
<1>4. CASE ~Indexes(a)
  <2>1. CASE index[a] = NoRow
    <3>1. index'[a] = NoRow
      BY <1>4, <2>1
        DEF Kinds, Start, Retry, Creates, PinRetry, Closes, Gives, Moves, Launches, Stops,
         Dies, Seals, Labors, files, db
    <3> QED
      BY <1>2, <3>1
  <2>2. CASE index[a] # NoRow
    <3>1. bundle[a] # NoRecord /\ worker[a] # "alive" /\ parent[a] \in After \cup {"indexing"}
      BY <1>3, <2>2 DEF CommandAt
    <3>2. ~(Start(a) \/ Retry(a))
      BY <2>2, CreateEffect
    <3>3. ~Seals(a) /\ ~Labors(a)
      BY <3>1 DEF Seals, Labors, After
    <3>4. bundle'[a] = bundle[a] /\ outcome'[a] = outcome[a] /\ index'[a] = index[a]
      BY <1>4, <3>2, <3>3
        DEF Kinds, PinRetry, Closes, Gives, Moves, Launches, Stops, Dies, files, db
    <3> QED
      BY <1>2, <1>3, <3>4
  <2> QED
    BY <2>1, <2>2
<1>5. CASE Indexes(a)
  <2>1. PICK b, o : b = bundle[a] /\ o = outcome[a]
    OBVIOUS
  <2>2. b # NoRecord
    BY <1>3, <1>5, <2>1 DEF Indexes, CommandAt, ReadBundle
  <2>3. Worth(a, b, o)
    BY <1>3, <2>1, <2>2 DEF EvidenceInv
  <2>4. /\ index'[a] = [status |-> b.status, reconciliation |-> Reconcile(b, o)]
        /\ bundle'[a] = b /\ outcome'[a] = o
    BY <1>5, <2>1 DEF Indexes, IndexBundle, TypeOK, files
  <2>5. index'[a].status = b.status /\ index'[a].reconciliation = Reconcile(b, o)
    BY <2>4
  <2>6. Reconcile(b, o) = "no_summary" <=> o = NoOutcome
    BY DEF Reconcile
  <2>7. Reconcile(b, o) = "matched" <=>
          o # NoOutcome /\ o = Payload(b) /\ b.status \in {"held", "completed"}
    BY DEF Reconcile
  <2>8. b.request.kind # "study" => o = NoOutcome
    BY <2>3 DEF Worth
  <2>9. b.request.kind = "study" /\ b.status \in {"held", "completed"} => o = Payload(b) /\ o # NoOutcome
    BY <2>3, OutcomeRecorded DEF Worth
  <2>10. Truthful'
    BY <2>4, <2>5, <2>6, <2>7, <2>8, <2>9 DEF Payload
  <2> QED
    BY <1>2, <2>10
<1> QED
  BY <1>4, <1>5

-----------------------------------------------------------------------------
(* The theorems.                                                           *)

LEMMA InitIInv == Init => IInv
<1> SUFFICES ASSUME Init PROVE IInv
  OBVIOUS
<1>1. \A a \in Attempts : /\ run[a] = NoRecord /\ bundle[a] = NoRecord /\ outcome[a] = NoOutcome
                          /\ index[a] = NoRow /\ parent[a] = "none" /\ worker[a] = "none"
  BY DEF Init
<1>2. NoOutcome \in Outcomes
  BY EmptyReports DEF NoOutcome, Outcomes, Shows
<1>3. TypeOK
  BY <1>1, <1>2, NoRecordTyped DEF Init, TypeOK, Places, Before
<1>4. CommandInv
  BY <1>1, NoRecordTyped DEF CommandInv, CommandAt, Before
<1>5. EvidenceInv
  BY <1>1, NoRecordTyped DEF EvidenceInv, Worth, EarnedTone, Failures
<1>6. RetryInv
  BY <1>1, NoRecordTyped DEF RetryInv, RetryAt
<1>7. SealedIsFinal /\ IndexTruthful
  BY <1>1 DEF SealedIsFinal, IndexTruthful
<1> QED
  BY <1>3, <1>4, <1>5, <1>6, <1>7 DEF IInv

LEMMA IInvPreserved == IInv /\ [Next]_vars => IInv'
BY TypePreserved, CommandPreserved, EvidencePreserved, RetryPreserved, SealedPreserved,
   IndexPreserved DEF IInv

\* The invariant behind all that follows.
THEOREM IInvariant == Spec => []IInv
<1> QED
  BY InitIInv, IInvPreserved, PTL DEF Spec

\* Whatever kills, deadlines and failed writes do, a sealed bundle agrees with
\* run.json, nobody is left who could change either (execution.py:160-193).
THEOREM SealsHold == Spec => []SealedIsFinal
<1>1. IInv => SealedIsFinal
  BY DEF IInv
<1> QED
  BY <1>1, IInvariant, PTL

\* An outcome a failed attempt left behind is never counted, whenever the
\* bundle is indexed (catalyst_state.py:153).
THEOREM IndexHolds == Spec => []IndexTruthful
<1>1. IInv => IndexTruthful
  BY DEF IInv
<1> QED
  BY <1>1, IInvariant, PTL

\* A gated result that is shown has passed every check.
LEMMA PublishedStudy ==
  ASSUME NEW a \in Attempts, NEW r \in Records, Complete(a, r), r.result.shown = "published"
  PROVE  /\ r.result.status = "completed" /\ \A c \in Universe(r) : r.reports[c] = "ok"
         /\ Cardinality(Universe(r)) >= MinIssuers /\ r.request.plan = "reviewed"
         /\ r.sample \in {"null", "effect"}
<1>1. PICK failed : failed = FailedChecks(r.request.plan, r.reports, r.sample)
  OBVIOUS
<1>2. r.result = Gated(failed, TRUE)
  BY <1>1, AnalyzedEffect DEF Complete
<1>3. failed = {} /\ r.result.status = "completed"
  BY <1>2 DEF Gated
<1>4. PICK inferable : inferable = Inferable(r.request.plan, r.reports, r.sample)
  OBVIOUS
<1>5. /\ "inference" \notin failed /\ "thin_data" \notin failed /\ "comparability" \notin failed
      /\ "assembly" \notin failed /\ "adjusted_significance" \notin failed /\ "placebo" \notin failed
  BY <1>3
<1>6. /\ Inferable(r.request.plan, r.reports, r.sample)
      /\ r.request.plan = "reviewed" /\ (\A x \in DOMAIN r.reports : r.reports[x] = "ok")
      /\ r.sample # "marginal" /\ r.sample # "shifted"
  BY <1>1, <1>5, Zenon DEF FailedChecks
<1>7. r.sample # "dependent" /\ Cardinality(Contributing(r.reports)) >= MinIssuers
  BY <1>6 DEF Inferable
<1>8. Contributing(r.reports) = Universe(r)
  BY <1>6 DEF Contributing, Complete
<1>9. r.sample \in {"null", "effect", "marginal", "dependent", "shifted"}
  BY AttemptAssumption DEF Complete
<1> QED
  BY <1>3, <1>6, <1>7, <1>8, <1>9 DEF Complete

LEMMA PublishedTone ==
  ASSUME NEW r \in Records, r.result = Aggregated(r), r.result.shown = "published"
  PROVE  r.result.status = "completed" /\ r.items = {"clean"} /\ r.request.kind # "fixture"
<1>1. r.result = Gated(ReviewReasons(r), Toned(r.items) # {})
  BY DEF Aggregated
<1>2. ReviewReasons(r) = {} /\ r.result.status = "completed"
  BY <1>1 DEF Gated
<1>3. /\ "item_review" \notin ReviewReasons(r) /\ "excluded_input_evidence" \notin ReviewReasons(r)
      /\ "no_relevant_usable_news" \notin ReviewReasons(r)
      /\ "illustrative_fixture" \notin ReviewReasons(r)
  BY <1>2
<1>4. /\ Relevant(r.items) \cap {"flagged", "failing"} = {} /\ Relevant(r.items) = r.items
      /\ Relevant(r.items) # {} /\ r.request.kind # "fixture"
  BY <1>3 DEF ReviewReasons
<1>5. r.items \subseteq Articles /\ "stale" \notin r.items /\ "offtopic" \notin r.items
  BY <1>4 DEF Records, Relevant, Ingested
<1>6. r.items = {"clean"}
  BY <1>4, <1>5 DEF Articles
<1> QED
  BY <1>2, <1>4, <1>6

\* Recomputing what a held or completed record retains gives its result again.
LEMMA ReplayMatches ==
  ASSUME NEW a \in Attempts, NEW r \in Records, NEW o, Worth(a, r, o),
         r.status \in {"held", "completed"}
  PROVE  Replayed(r) = "matched"
<1>1. r.status \notin Failures
  BY DEF Failures
<1>2. CASE r.request.kind = "study"
  <2>1. "assembled" \in r.past /\ r.result = Analyzed(r)
    BY <1>2 DEF Worth, EarnedStudy, Complete
  <2>2. Hold(Analyzed(r), r.status) = r.result
    BY <1>1, <2>1 DEF Hold
  <2>3. "assembled_inputs" \in Retained(r)
    BY <2>1 DEF Retained
  <2> QED
    BY <2>2, <2>3 DEF Replayed
<1>3. CASE r.request.kind # "study"
  <2>1. "assembled" \notin r.past /\ "news_scoring" \in r.past /\ r.result = Aggregated(r)
    BY <1>3 DEF Worth, EarnedTone
  <2>2. r.result # NoResult
    BY <2>1, AggregatedEffect DEF NoResult
  <2>3. Hold(ReplayNews(r), r.status) = r.result
    BY <1>1, <2>1 DEF Hold, ReplayNews
  <2>4. "assembled_inputs" \notin Retained(r) /\ "saved_scores" \in Retained(r)
    BY <2>1, <2>2 DEF Retained
  <2> QED
    BY <2>3, <2>4 DEF Replayed
<1> QED
  BY <1>2, <1>3

\* Figures leave an attempt only when it completed on evidence that passes every
\* check, a later reader computes the same result from what is retained, and a
\* retry studies the peers once accepted (execution.py:94, bundles.py:157,
\* run_live.py:46).
THEOREM ShownHasBeenEarned == Spec => []ShownIsEarned
<1>1. IInv => ShownIsEarned
  <2> SUFFICES ASSUME IInv, NEW a \in Attempts
               PROVE  LET r == run[a] IN
                 /\ r.status \in Terminal /\ r.result.shown = "published" =>
                      /\ r.status = "completed"
                      /\ IF r.request.kind = "study"
                         THEN /\ \A c \in Universe(r) : r.reports[c] = "ok"
                              /\ Cardinality(Universe(r)) >= MinIssuers
                              /\ r.request.plan = "reviewed"
                              /\ r.sample \in {"null", "effect"} /\ outcome[a] # NoOutcome
                         ELSE r.items = {"clean"} /\ r.request.kind = "live"
                 /\ bundle[a].status \in {"held", "completed"} => Replayed(bundle[a]) = "matched"
                 /\ r.retry_of # 0 /\ r.pinned # NoPin /\ run[r.retry_of].pinned # NoPin =>
                      r.pinned = run[r.retry_of].pinned
    BY DEF ShownIsEarned
  <2> DEFINE r == run[a]
  <2>1. /\ Worth(a, r, outcome[a]) /\ r \in Records /\ CommandAt(a) /\ RetryAt(a)
        /\ bundle[a] # NoRecord => r = bundle[a]
    BY DEF IInv, EvidenceInv, TypeOK, CommandInv, RetryInv, SealedIsFinal
  <2>2. ASSUME r.status \in Terminal, r.result.shown = "published"
        PROVE  /\ r.status = "completed"
               /\ IF r.request.kind = "study"
                  THEN /\ \A c \in Universe(r) : r.reports[c] = "ok"
                       /\ Cardinality(Universe(r)) >= MinIssuers
                       /\ r.request.plan = "reviewed"
                       /\ r.sample \in {"null", "effect"} /\ outcome[a] # NoOutcome
                  ELSE r.items = {"clean"} /\ r.request.kind = "live"
    <3>1. r.status \in {"held", "completed"}
      BY <2>1, <2>2 DEF Worth, Failures, Terminal
    <3>2. CASE r.request.kind = "study"
      <4>1. EarnedStudy(a, r, outcome[a])
        BY <2>1, <3>2 DEF Worth
      <4>2. Complete(a, r) /\ r.status = r.result.status
        BY <3>1, <4>1 DEF EarnedStudy
      <4> QED
        BY <2>1, <2>2, <3>1, <3>2, <4>1, <4>2, PublishedStudy, OutcomeRecorded
    <3>3. CASE r.request.kind # "study"
      <4>1. r.result = Aggregated(r) /\ r.status = r.result.status
        BY <2>1, <3>1, <3>3 DEF Worth, EarnedTone
      <4>2. r.request.kind \in {"none", "study", "live", "fixture"} /\ r.request.kind # "none"
        BY <2>1, <3>1 DEF Records, Asked, CommandAt
      <4> QED
        BY <2>1, <2>2, <3>3, <4>1, <4>2, PublishedTone
    <3> QED
      BY <3>2, <3>3
  <2>3. ASSUME bundle[a].status \in {"held", "completed"} PROVE Replayed(bundle[a]) = "matched"
    <3>1. bundle[a] # NoRecord
      BY <2>3, NoRecordTyped
    <3> QED
      BY <2>1, <2>3, <3>1, ReplayMatches
  <2>4. ASSUME r.retry_of # 0, r.pinned # NoPin, run[r.retry_of].pinned # NoPin
        PROVE  r.pinned = run[r.retry_of].pinned
    <3>1. Kept(run[r.retry_of]) = run[r.retry_of].pinned
      BY <2>4 DEF Kept
    <3> QED
      BY <2>1, <2>4, <3>1 DEF RetryAt
  <2> QED
    BY <2>2, <2>3, <2>4
<1> QED
  BY <1>1, IInvariant, PTL

\* A bundle once sealed, and the record beside it, are never written again, not
\* by a retry, a reseal or a worker that went on (bundles.py:47-67).
SealedStay ==
  [][\A a \in Attempts : bundle[a] # NoRecord => bundle'[a] = bundle[a] /\ run'[a] = run[a]]_vars
THEOREM SealsNeverChange == Spec => SealedStay
<1> DEFINE Stay == \A a \in Attempts : bundle[a] # NoRecord => bundle'[a] = bundle[a] /\ run'[a] = run[a]
<1>1. ASSUME IInv, [Next]_vars PROVE [Stay]_vars
  <2>1. TypeOK /\ CommandInv /\ RetryInv /\ SealedIsFinal
    BY <1>1 DEF IInv
  <2>2. ASSUME NEW a \in Attempts, Kinds(a) PROVE Stay
    <3>1. SUFFICES ASSUME bundle[a] # NoRecord PROVE UNCHANGED files
      BY <2>1, <2>2, OnlyOne DEF Only, files
    <3>2. parent[a] \in {"done", "killed", "indexing"} /\ worker[a] # "alive"
      BY <2>1, <3>1 DEF CommandInv, CommandAt, SealedIsFinal, After
    <3>3. ~Start(a) /\ ~Retry(a)
      BY <2>1, <3>1, CreateEffect
    <3>4. ~PinRetry(a) /\ ~Closes(a) /\ ~Launches(a) /\ ~Stops(a) /\ ~Seals(a) /\ ~Labors(a)
      BY <3>2 DEF PinRetry, Stands, Closes, Gives, Launches, Stops, Seals, Labors
    <3> QED
      BY <2>2, <3>3, <3>4 DEF Kinds, Moves, Dies, Indexes
  <2> QED
    BY <1>1, <2>1, <2>2, StepKinds
<1>2. IInv /\ [Next]_vars => [Stay]_vars
  BY <1>1
<1> QED
  BY <1>2, IInvariant, PTL DEF Spec, SealedStay

=============================================================================
