---------------------------- MODULE MonitorStore ----------------------------
(***************************************************************************)
(* Agent 2's monitoring database (state/store.py, scheduler/cycle.py,      *)
(* monitoring/live_data.py, recovery.py): cycles observe the watchlist,    *)
(* quarantine corrections and changed definitions, reviewers decide them,  *)
(* and triage reads the evidence of a saved cycle.  The file lock of the   *)
(* store makes every opening of it one step; between the openings of one   *)
(* command others run.  Provider fetches hold no lock.  The statistics     *)
(* need six observations and stay silent within MaxDay; monitor.py --reset *)
(* starts over from Init and is left out.                                  *)
(***************************************************************************)
EXTENDS Integers, FiniteSets, FiniteSetsExt

CONSTANTS Items,     \* watchlist item IDs, replacements included
          Profiles,  \* watchlists: item -> definition or NoDef
          Values,    \* what a metric can be
          MaxDay,    \* bound: calendar days
          MaxAge,    \* max_age_days
          MaxCycle,  \* bound: cycle numbers
          Procs,     \* commands that may run at the same time
          Schedulers,\* those that call run_cycle alone, without triage
          Modes      \* data sources in use

NoItem == "none"
NoDef  == [threshold |-> 0, direction |-> "none"]
Defs   == {NoDef} \cup [threshold : Int, direction : {"below", "above"}]
ASSUME MonitorAssumption ==
  /\ MaxDay \in 1..5 /\ MaxAge \in Nat /\ MaxCycle \in Nat \ {0} /\ Values \subseteq Int
  /\ \A w \in Profiles : DOMAIN w \subseteq Items /\ \A i \in DOMAIN w : w[i] \in Defs
  /\ Modes \subseteq {"yfinance", "bundled_fixtures"} /\ NoItem \notin Items

Days   == 1..MaxDay
Cycles == 1..MaxCycle
NoRow    == [cycle |-> 0, value |-> 0, def |-> NoDef, status |-> "none", revision |-> 0]
NoReview == [cycle |-> 0, reason |-> "none", value |-> 0, ts |-> 0, def |-> NoDef]
NoCurrent == [ts |-> 0, row |-> NoRow]
NoRun    == [date |-> 0, mode |-> "none", gap |-> 0, rows |-> {}, surfaced |-> {}, frozen |-> {}]
Surfacing == {"NEW_BREACH", "WIDENING", "IMPROVING", "RESOLVED"}   \* SURFACED

VARIABLES
  mode,      \* monitor_metadata: data_mode
  history,   \* effective observations: per item and observation date a row
  current,   \* current_state: per item its date and row
  reviews,   \* review_queue: per item the held candidate
  decisions, \* review_decisions
  retired,   \* retired_series: per item its replacement
  runs,      \* cycle_runs: per cycle what was saved
  today,     \* the calendar
  proc       \* per command: where it is and what it holds in memory

db   == <<mode, history, current, reviews, decisions, retired, runs>>
vars == <<db, today, proc>>

Idle == [at |-> "idle", day |-> 0, cycle |-> 0, run |-> NoRun, series |-> {}]

-----------------------------------------------------------------------------
(* Calculations.                                                           *)

\* threshold_check: above 0 is in breach, by that much.
Margin(value, def) ==
  IF def.direction = "below" THEN value - def.threshold ELSE def.threshold - value
Breached(row) == Margin(row.value, row.def) > 0

\* classify, given the row before (NoRow: first sight of the item).
Classify(last, value, def, baseline) ==
  LET this == Margin(value, def)  before == Margin(last.value, last.def) IN
  IF baseline \/ last = NoRow          THEN "BASELINE"
  ELSE IF before <= 0 /\ this <= 0     THEN "OK"
  ELSE IF before <= 0                  THEN "NEW_BREACH"
  ELSE IF this <= 0                    THEN "RESOLVED"
  ELSE IF this > before                THEN "WIDENING"
  ELSE IF this < before                THEN "IMPROVING" ELSE "KNOWN_STABLE"

\* calculate_observation, as far as it is stored.
Calculate(cycle, value, def, last, baseline, revision) ==
  [cycle |-> cycle, value |-> value, def |-> def,
   status |-> Classify(last, value, def, baseline), revision |-> revision]

\* The row of a series before a date.
Earlier(rows, d) == {e \in Days : e < d /\ rows[e] # NoRow}
Before(rows, d)  == IF Earlier(rows, d) = {} THEN NoRow ELSE rows[Max(Earlier(rows, d))]
Dates(rows)      == {d \in Days : rows[d] # NoRow}

\* (mutation) Only the corrected observation is calculated again.
RecalculateOne(rows, d, revision) ==
  [rows EXCEPT ![d] = Calculate(@.cycle, @.value, @.def, Before(rows, d), FALSE, revision)]
\* _recalculate: the whole series in the order of its dates.
Recalculate(rows, d, revision) ==
  [e \in Days |-> IF rows[e] = NoRow THEN NoRow
     ELSE Calculate(rows[e].cycle, rows[e].value, rows[e].def, Before(rows, e), FALSE, revision)]

\* get_history_series of one item.
Series(i) == {[item |-> i, cycle |-> history[i][d].cycle, value |-> history[i][d].value, ts |-> d] :
                d \in Dates(history[i])}

\* A ticker's snapshot: unusable for one of a dozen reasons, or a ratio of an
\* annual period.  observation() drops future and stale periods.
Snapshots == [usable : {FALSE}, period : {0}, value : {0}]
             \cup [usable : {TRUE}, period : Days, value : Values]
Observation(i, def, snap, day) ==
  LET usable == snap.usable /\ snap.period <= day /\ day - snap.period <= MaxAge IN
  [item |-> i, def |-> def, value |-> IF usable THEN snap.value ELSE 0,
   ts |-> IF usable THEN snap.period ELSE 0]     \* 0: value None, with a reason
\* prepare: every item of the watchlist.
Watched(w, snap, day) ==
  {Observation(i, w[i], snap, day) : i \in {j \in DOMAIN w : w[j] # NoDef}}

-----------------------------------------------------------------------------
(* A cycle.                                                                *)

NextCycle == 1 + Max({0} \cup {c \in Cycles : runs[c] # NoRun}
                         \cup {history[i][d].cycle : i \in Items, d \in Days})
\* source_mode, checked at both openings and again in bind_source.
SourceAgrees(m) == mode \in {"none", m}

Candidate(obs) == [value |-> obs.value, ts |-> obs.ts, def |-> obs.def]
\* (mutation) A rejected value is asked again in a later cycle.
RejectedNever(i, cand) == FALSE
\* rejected_candidate: the exact proposal, whenever it was fetched.
Rejected(i, cand) ==
  \E d \in decisions : d.item = i /\ d.action = "reject" /\ d.candidate = cand

\* What becomes of one observation, in the order of the code.
Disposition(obs) ==
  LET i == obs.item IN
  IF retired[i] # NoItem THEN "retired_definition"
  ELSE IF reviews[i] # NoReview THEN "pending_review"
  ELSE IF obs.ts = 0 THEN "unavailable"
  ELSE IF Rejected(i, Candidate(obs)) THEN "rejected_candidate"
  ELSE IF current[i] = NoCurrent THEN "new"
  ELSE IF current[i].row.def # obs.def THEN "definition_change_requires_review"
  ELSE IF obs.ts > current[i].ts THEN "new"
  ELSE IF history[i][obs.ts] # NoRow /\ history[i][obs.ts].value = obs.value
       THEN "duplicate_observation" ELSE "correction_requires_review"
Held == {"definition_change_requires_review", "correction_requires_review"}

\* run_cycle, first opening: then the day is read and the provider asked.  Its
\* answer is drawn when it is used: nobody looks at it before.
Fetch(p) ==
  /\ "yfinance" \in Modes /\ proc[p].at = "idle" /\ SourceAgrees("yfinance")
  /\ proc' = [proc EXCEPT ![p] = [Idle EXCEPT !.at = "fetched", !.day = today]]
  /\ UNCHANGED <<db, today>>

\* The store's writes of a cycle, at most one of a kind for an item: rows, the
\* current row, an item's first waiting review, the saved run.
Of(S, i) == CHOOSE x \in S : x.item = i
Written(S, i) == \E x \in S : x.item = i
WriteHistory(rows) ==
  /\ \A x \in rows : history[x.item][x.ts] \in {NoRow, x.row}
  /\ history' = [i \in Items |-> IF ~Written(rows, i) THEN history[i]
                  ELSE [history[i] EXCEPT ![Of(rows, i).ts] = Of(rows, i).row]]
UpsertCurrent(rows) ==
  current' = [i \in Items |-> IF ~Written(rows, i) THEN current[i]
                ELSE [ts |-> Of(rows, i).ts, row |-> Of(rows, i).row]]
WriteReview(held, cycle) ==
  reviews' = [i \in Items |-> IF ~Written(held, i) \/ reviews[i] # NoReview THEN reviews[i]
                ELSE LET obs == Of(held, i) IN
                  [cycle |-> cycle, reason |-> Disposition(obs), value |-> obs.value,
                   ts |-> obs.ts, def |-> obs.def]]
WriteRun(cycle, result) == runs[cycle] = NoRun /\ runs' = [runs EXCEPT ![cycle] = result]

\* _run_cycle on inputs observed on a day: computed, then written at once.
RunCycle(p, m, inputs, cycle, day) ==
  LET fresh == {obs \in inputs : Disposition(obs) = "new"}
      row(obs) == Calculate(cycle, obs.value, obs.def, current[obs.item].row, cycle = 1, 0)
      rows == {[item |-> obs.item, ts |-> obs.ts, row |-> row(obs)] : obs \in fresh}
      flagged == {obs \in fresh : row(obs).status \in Surfacing}
      result == [date |-> day, mode |-> m, gap |-> cycle - NextCycle, rows |-> rows,
                 surfaced |-> {obs.item : obs \in flagged},
                 frozen |-> UNION {Series(obs.item) \cup
                   {[item |-> obs.item, cycle |-> cycle, value |-> obs.value, ts |-> obs.ts]} :
                   obs \in flagged}]
  IN
  /\ SourceAgrees(m) /\ cycle >= NextCycle /\ cycle \in Cycles
  /\ \A obs \in inputs : obs.ts <= day
  /\ mode' = m
  /\ WriteHistory(rows) /\ UpsertCurrent(rows)
  /\ WriteReview({obs \in inputs : Disposition(obs) \in Held}, cycle) /\ WriteRun(cycle, result)
  /\ proc' = [proc EXCEPT ![p] = IF flagged = {} \/ p \in Schedulers THEN Idle
                ELSE [Idle EXCEPT !.at = "committed", !.cycle = cycle, !.run = result]]
  /\ UNCHANGED <<decisions, retired, today>>

\* Second opening, after the fetch; asof may skip ahead.  A cycle already
\* saved is replayed instead, which writes nothing.
LiveCycle(p) ==
  /\ proc[p].at = "fetched"
  /\ \E w \in Profiles, s \in Snapshots, cycle \in Cycles :
       RunCycle(p, "yfinance", Watched(w, s, proc[p].day), cycle, proc[p].day)
\* Bundled fixtures: no fetch, the cycle number is the day.
FixtureCycle(p) ==
  /\ "bundled_fixtures" \in Modes /\ proc[p].at = "idle"
  /\ \E w \in Profiles, s \in Snapshots, cycle \in Cycles \cap Days :
       RunCycle(p, "bundled_fixtures", Watched(w, s, cycle), cycle, cycle)

\* Refused, killed, or failed before its transaction: nothing was written.
Abandon(p) ==
  /\ proc[p].at # "idle"
  /\ proc' = [proc EXCEPT ![p] = Idle]
  /\ UNCHANGED <<db, today>>

-----------------------------------------------------------------------------
(* Triage and review.                                                      *)

\* (mutation) The snapshot reads the effective history of today.
SnapshotStore(run) == UNION {Series(i) : i \in run.surfaced}
\* HistorySnapshot.from_cycle.
Snapshot(run) == run.frozen
\* _triage_if_needed opens the store again after the cycle closed it ...
Triage(p) ==
  /\ proc[p].at = "committed"
  /\ proc' = [proc EXCEPT ![p].at = "triage", ![p].series = Snapshot(proc[p].run)]
  /\ UNCHANGED <<db, today>>
\* ... and retry_triage opens it for a cycle of the past.
RetryTriage(p) ==
  /\ proc[p].at = "idle" /\ p \notin Schedulers
  /\ \E c \in Cycles :
       /\ runs[c].surfaced # {}
       /\ proc' = [proc EXCEPT ![p] = [Idle EXCEPT !.at = "triage", !.cycle = c,
                                       !.run = runs[c], !.series = Snapshot(runs[c])]]
  /\ UNCHANGED <<db, today>>

ReviewOf(i) == [value |-> reviews[i].value, ts |-> reviews[i].ts, def |-> reviews[i].def]
Decision(i, action, replacement) ==
  [item |-> i, action |-> action, candidate |-> ReviewOf(i), cycle |-> reviews[i].cycle,
   replacement |-> replacement]
\* What every decision writes besides its effect.
Close(i, action, replacement) ==
  /\ decisions' = decisions \cup {Decision(i, action, replacement)}
  /\ reviews' = [reviews EXCEPT ![i] = NoReview]

Reject(i) ==
  /\ reviews[i] # NoReview
  /\ Close(i, "reject", NoItem)
  /\ UNCHANGED <<mode, history, current, retired, runs, today, proc>>

\* The saved cycle the review came from, and evidence to restate.
Approvable(i) == LET r == reviews[i] IN
  /\ r # NoReview /\ runs[r.cycle] # NoRun /\ r.ts <= runs[r.cycle].date
  /\ Dates(history[i]) # {}

\* A correction restates the series; its target keeps the cycle it had.
ApproveCorrection(i) ==
  LET r == reviews[i]  old == history[i][r.ts]
      given == [history[i] EXCEPT ![r.ts] = [NoRow EXCEPT !.value = r.value, !.def = r.def,
                  !.cycle = IF old = NoRow THEN r.cycle ELSE old.cycle]]
      rows == Recalculate(given, r.ts, r.cycle)
  IN
  /\ Approvable(i) /\ r.reason = "correction_requires_review"
  /\ history' = [history EXCEPT ![i] = rows]
  /\ current' = [current EXCEPT ![i] = [ts |-> Max(Dates(rows)), row |-> rows[Max(Dates(rows))]]]
  /\ Close(i, "approve", NoItem)
  /\ UNCHANGED <<mode, retired, runs, today, proc>>

\* A replacement ID must be new in every table.
Unused(k) ==
  current[k] = NoCurrent /\ reviews[k] = NoReview /\ retired[k] = NoItem /\ Dates(history[k]) = {}
\* A changed definition starts a new series; the old one is retired.
ApproveDefinition(i, k) ==
  LET r == reviews[i]
      row == Calculate(r.cycle, r.value, r.def, NoRow, FALSE, r.cycle)
  IN
  /\ Approvable(i) /\ r.reason = "definition_change_requires_review"
  /\ k # i /\ Unused(k)
  /\ retired' = [retired EXCEPT ![i] = k]
  /\ history' = [history EXCEPT ![k][r.ts] = row]
  /\ current' = [current EXCEPT ![k] = [ts |-> r.ts, row |-> row]]
  /\ Close(i, "approve", k)
  /\ UNCHANGED <<mode, runs, today, proc>>

Tick == today < MaxDay /\ today' = today + 1 /\ UNCHANGED <<db, proc>>

Init ==
  /\ mode = "none" /\ history = [i \in Items |-> [d \in Days |-> NoRow]]
  /\ current = [i \in Items |-> NoCurrent] /\ reviews = [i \in Items |-> NoReview]
  /\ decisions = {} /\ retired = [i \in Items |-> NoItem]
  /\ runs = [c \in Cycles |-> NoRun] /\ today = 1 /\ proc = [p \in Procs |-> Idle]

Cycle(p)  == Fetch(p) \/ LiveCycle(p) \/ FixtureCycle(p) \/ Abandon(p) \/ Triage(p) \/ RetryTriage(p)
Review(i) == Reject(i) \/ ApproveCorrection(i) \/ \E k \in Items : ApproveDefinition(i, k)
Next ==
  \/ \E p \in Procs : Cycle(p)
  \/ \E i \in Items : Review(i)
  \/ Tick
Spec == Init /\ [][Next]_vars
-----------------------------------------------------------------------------
(* Properties.                                                             *)

\* Decisions that set the effective value of an item at a date.
Settled(i, d) == {x \in decisions : x.action = "approve" /\ x.candidate.ts = d
                    /\ i = IF x.replacement = NoItem THEN x.item ELSE x.replacement}
\* An observation has the value of the last decision about it, or else of the
\* cycle that saved it; its classification follows from the row before it.
RowAccounted(i, d) ==
  LET row == history[i][d] IN
  /\ row.status = Classify(Before(history[i], d), row.value, row.def, FALSE)
  /\ IF Settled(i, d) = {}
     THEN \E f \in runs[row.cycle].rows :
            f.item = i /\ f.ts = d /\ f.row.value = row.value /\ f.row.def = row.def
     ELSE \E x \in Settled(i, d) :
            /\ \A y \in Settled(i, d) : y.cycle <= x.cycle
            /\ row.value = x.candidate.value /\ row.def = x.candidate.def
\* The effective history is accounted for: every row is, also after an older
\* date was corrected and whatever cycles fetched before it and committed after
\* it; the current row is the latest; one source feeds the database although
\* commands of both kinds overlap; and the cycles nobody ran are those a saved
\* gap names.
HistoryAccounted ==
  /\ \A i \in Items :
       /\ \A d \in Dates(history[i]) : RowAccounted(i, d)
       /\ IF Dates(history[i]) = {} THEN current[i] = NoCurrent
          ELSE /\ current[i].ts = Max(Dates(history[i]))
               /\ current[i].row = history[i][current[i].ts]
  /\ \A c \in Cycles : runs[c] # NoRun =>
       /\ runs[c].mode = mode
       /\ \A e \in Cycles : e < c /\ e >= c - runs[c].gap => runs[e] = NoRun
       /\ c - runs[c].gap = 1 \/ runs[c - runs[c].gap - 1] # NoRun

\* Decisions bind what comes later, although fetches and watchlists of before
\* still name the old facts: a waiting review is a question nobody answered (its
\* item is in use, this very candidate was not rejected, and it disagrees with
\* the effective history), and a retired series gets no row from a later cycle.
DecisionsRespected ==
  /\ \A i \in Items : reviews[i] # NoReview =>
       /\ retired[i] = NoItem
       /\ \A x \in decisions : x.item = i /\ x.action = "reject" => x.candidate # ReviewOf(i)
       /\ \/ reviews[i].def # current[i].row.def
          \/ reviews[i].ts <= current[i].ts /\ history[i][reviews[i].ts].value # reviews[i].value
          \/ reviews[i].ts <= current[i].ts /\ history[i][reviews[i].ts] = NoRow
  /\ \A x \in decisions : x.replacement # NoItem =>
       \A c \in Cycles : c > x.cycle => \A f \in runs[c].rows : f.item # x.item

\* Triage judges what its cycle saw: the last value of each series it holds is
\* the flagged one of the saved rows, whatever was corrected since.
TriageOnOwnEvidence ==
  \A p \in Procs : proc[p].at = "triage" =>
    \A f \in proc[p].run.rows : f.item \in proc[p].run.surfaced =>
      LET mine == {x \in proc[p].series : x.item = f.item} IN
      \E x \in mine : /\ x.cycle = proc[p].cycle /\ x.ts = f.ts /\ x.value = f.row.value
                      /\ \A y \in mine : y.ts <= x.ts
=============================================================================
