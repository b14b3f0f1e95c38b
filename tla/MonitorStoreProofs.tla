--------------------------- MODULE MonitorStoreProofs ---------------------------
(***************************************************************************)
(* Proofs about MonitorStore for any items, watchlists, values, commands   *)
(* and cycles.  IInv is the inductive invariant: every cycle that the      *)
(* database names was saved, a decision has left its value behind, nothing *)
(* of an item moves while a review of it waits, and what a run froze is    *)
(* what its cycle flagged.                                                 *)
(***************************************************************************)
EXTENDS MonitorStore, WellFoundedInduction, TLAPS

Sources  == {"yfinance", "bundled_fixtures"}
Statuses == Surfacing \cup {"BASELINE", "OK", "KNOWN_STABLE"}
Rows     == [cycle : Cycles, value : Int, def : Defs, status : Statuses, revision : Nat]
Currents == [ts : Days, row : Rows]
Reviews  == [cycle : Cycles, reason : Held, value : Int, ts : Days, def : Defs]
Offers   == [value : Int, ts : Days, def : Defs]
Answers  == [item : Items, action : {"approve", "reject"}, candidate : Offers, cycle : Cycles,
             replacement : Items \cup {NoItem}]
Saved    == [item : Items, ts : Days, row : Rows]
Points   == [item : Items, cycle : Cycles, value : Int, ts : Days]
Runs     == [date : Days, mode : Sources, gap : Nat, rows : SUBSET Saved,
             surfaced : SUBSET Items, frozen : SUBSET Points]
Readers  == [at : {"idle", "fetched", "committed", "triage"}, day : Days \cup {0},
             cycle : Cycles \cup {0}, run : Runs \cup {NoRun}, series : SUBSET Points]
Facts    == [item : Items, def : Defs, value : Int, ts : Days \cup {0}]

TypeOK ==
  /\ mode \in Sources \cup {"none"}
  /\ history \in [Items -> [Days -> Rows \cup {NoRow}]]
  /\ current \in [Items -> Currents \cup {NoCurrent}]
  /\ reviews \in [Items -> Reviews \cup {NoReview}]
  /\ decisions \subseteq Answers
  /\ retired \in [Items -> Items \cup {NoItem}]
  /\ runs \in [Cycles -> Runs \cup {NoRun}]
  /\ today \in Days
  /\ proc \in [Procs -> Readers]
  /\ \A p \in Procs : proc[p].at = "fetched" => proc[p].day \in Days

\* The current row of an item is the latest of its history.
CurrentIs(i) ==
  IF Dates(history[i]) = {} THEN current[i] = NoCurrent
  ELSE current[i].ts = Max(Dates(history[i])) /\ current[i].row = history[i][current[i].ts]
CurrentInv == \A i \in Items : CurrentIs(i)

\* A decided value is in the history of the series it was decided for, and no
\* younger than a review of that series.
Decided(x) == IF x.replacement = NoItem THEN x.item ELSE x.replacement
DecidedStands(x) ==
  x.action = "approve" =>
    /\ history[Decided(x)][x.candidate.ts] # NoRow
    /\ reviews[Decided(x)] # NoReview => x.cycle <= reviews[Decided(x)].cycle
HistoryInv ==
  /\ \A i \in Items, d \in Days : history[i][d] # NoRow => RowAccounted(i, d)
  /\ \A x \in decisions : DecidedStands(x)

\* Every cycle that is named anywhere was saved, from the one source.
CycleInv ==
  /\ \A i \in Items, d \in Days : history[i][d] # NoRow => runs[history[i][d].cycle] # NoRun
  /\ \A i \in Items : reviews[i] # NoReview => runs[reviews[i].cycle] # NoRun
  /\ \A x \in decisions : runs[x.cycle] # NoRun
  /\ \A c \in Cycles : runs[c] # NoRun => runs[c].mode = mode

\* The cycles that nobody ran.
GapAt(c) ==
  runs[c] # NoRun =>
    /\ \A e \in Cycles : e < c /\ e >= c - runs[c].gap => runs[e] = NoRun
    /\ \/ c - runs[c].gap = 1
       \/ c - runs[c].gap - 1 \in Cycles /\ runs[c - runs[c].gap - 1] # NoRun
GapInv == \A c \in Cycles : GapAt(c)

\* While a review of an item waits nothing of the item moves.
Unanswered(i) ==
  /\ retired[i] = NoItem
  /\ \A x \in decisions : x.item = i /\ x.action = "reject" => x.candidate # ReviewOf(i)
  /\ \/ reviews[i].def # current[i].row.def
     \/ reviews[i].ts <= current[i].ts /\ history[i][reviews[i].ts].value # reviews[i].value
     \/ reviews[i].ts <= current[i].ts /\ history[i][reviews[i].ts] = NoRow
  /\ \A c \in Cycles : c > reviews[i].cycle => \A f \in runs[c].rows : f.item # i
ReviewInv == \A i \in Items : reviews[i] # NoReview => Unanswered(i)
RetiredInv ==
  \A x \in decisions : x.replacement # NoItem =>
    /\ retired[x.item] # NoItem
    /\ \A c \in Cycles : c > x.cycle => \A f \in runs[c].rows : f.item # x.item

\* What a cycle flagged ends the series that were frozen with it.
Flagged(c, run, series) ==
  \A f \in run.rows : f.item \in run.surfaced =>
    LET mine == {x \in series : x.item = f.item} IN
    \E x \in mine : /\ x.cycle = c /\ x.ts = f.ts /\ x.value = f.row.value
                    /\ \A y \in mine : y.ts <= x.ts
FrozenInv ==
  /\ \A c \in Cycles : runs[c] # NoRun => Flagged(c, runs[c], runs[c].frozen)
  /\ \A p \in Procs :
       /\ proc[p].at = "committed" => Flagged(proc[p].cycle, proc[p].run, proc[p].run.frozen)
       /\ proc[p].at = "triage" => Flagged(proc[p].cycle, proc[p].run, proc[p].series)

IInv == /\ TypeOK /\ CurrentInv /\ HistoryInv /\ CycleInv /\ GapInv
        /\ ReviewInv /\ RetiredInv /\ FrozenInv

-----------------------------------------------------------------------------
(* Bounded sets of numbers have a greatest member.                         *)

LEMMA Greatest ==
  ASSUME NEW N \in Nat, NEW S \in SUBSET (0..N), S # {}
  PROVE  Max(S) \in S /\ \A y \in S : y <= Max(S)
<1> DEFINE R == OpToRel(<, Nat)
           T == {N - x : x \in S}
<1>1. T \in SUBSET Nat /\ T # {}
  <2>1. \A x \in S : x \in 0..N
    OBVIOUS
  <2>2. \A x \in 0..N : N - x \in Nat
    OBVIOUS
  <2> QED
    BY <2>1, <2>2
<1>2. PICK t \in T : \A y \in T : <<y, t>> \notin R
  <2>1. IsWellFoundedOn(R, Nat)
    BY NatLessThanWellFounded
  <2> HIDE DEF R, T
  <2> QED
    BY <1>1, <2>1, WFMin
<1>3. \A y \in T : y < t => <<y, t>> \in R
  <2> SUFFICES ASSUME NEW y \in T, y < t
               PROVE  <<y, t>> \in {ss \in Nat \X Nat : ss[1] < ss[2]}
    BY DEF OpToRel
  <2> QED
    OBVIOUS
<1>4. PICK x \in S : t = N - x
  OBVIOUS
<1>5. \A y \in S : y <= x
  <2> SUFFICES ASSUME NEW y \in S PROVE y <= x
    OBVIOUS
  <2>1. N - y \in T /\ ~(N - y < t)
    BY <1>2, <1>3
  <2> QED
    BY <1>4, <2>1
<1>6. \A y \in S : x >= y
  BY <1>5
<1>7. Max(S) \in S /\ \A y \in S : Max(S) >= y
  BY <1>6 DEF Max
<1> QED
  BY <1>7

LEMMA LatestDay ==
  ASSUME NEW S \in SUBSET Days, S # {}
  PROVE  Max(S) \in S /\ Max(S) \in Days /\ \A y \in S : y <= Max(S)
<1>1. MaxDay \in Nat /\ S \in SUBSET (0..MaxDay)
  BY MonitorAssumption DEF Days
<1> QED
  BY <1>1, Greatest

-----------------------------------------------------------------------------
(* Types.                                                                  *)

LEMMA Constants ==
  /\ MaxDay \in Nat /\ MaxCycle \in Nat
  /\ \A d \in Days : d \in Nat /\ d > 0 /\ d <= MaxDay
  /\ \A c \in Cycles : c \in Nat /\ c > 0 /\ c <= MaxCycle
  /\ NoItem \notin Items
BY MonitorAssumption DEF Days, Cycles

\* What is in the tables is not the row that says there is none.
LEMMA Absent ==
  /\ NoRow \notin Rows /\ NoReview \notin Reviews /\ NoCurrent \notin Currents
  /\ NoRun \notin Runs /\ NoRow.cycle = 0
BY Constants DEF NoRow, Rows, NoReview, Reviews, NoCurrent, Currents, NoRun, Runs

LEMMA ClassifyType ==
  ASSUME NEW last, NEW value, NEW def, NEW baseline
  PROVE  Classify(last, value, def, baseline) \in Statuses
BY DEF Classify, Statuses, Surfacing

LEMMA CalculateType ==
  ASSUME NEW cycle \in Cycles, NEW value \in Int, NEW def \in Defs, NEW last, NEW baseline,
         NEW revision \in Nat
  PROVE  /\ Calculate(cycle, value, def, last, baseline, revision) \in Rows
         /\ Calculate(cycle, value, def, last, baseline, revision) # NoRow
<1>1. Calculate(cycle, value, def, last, baseline, revision) \in Rows
  BY ClassifyType DEF Calculate, Rows
<1> QED
  BY <1>1, Absent

\* A classification depends on the row before only through its value and
\* definition, so that recalculating a series classifies it by its new values.
LEMMA SameBefore ==
  ASSUME NEW a, NEW b, NEW d \in Days,
         \A e \in Days : e < d => (a[e] = NoRow <=> b[e] = NoRow),
         \A e \in Days : e < d /\ a[e] # NoRow => a[e].value = b[e].value /\ a[e].def = b[e].def
  PROVE  /\ Before(a, d) = NoRow <=> Before(b, d) = NoRow
         /\ Before(a, d).value = Before(b, d).value /\ Before(a, d).def = Before(b, d).def
<1>1. Earlier(a, d) = Earlier(b, d) /\ Earlier(a, d) \in SUBSET Days
  BY DEF Earlier
<1>2. CASE Earlier(a, d) = {}
  BY <1>1, <1>2 DEF Before
<1>3. CASE Earlier(a, d) # {}
  <2> DEFINE m == Max(Earlier(a, d))
  <2>1. m \in Earlier(a, d) /\ m \in Days
    BY <1>1, <1>3, LatestDay
  <2>2. m < d /\ a[m] # NoRow /\ b[m] # NoRow
    BY <1>1, <2>1 DEF Earlier
  <2>3. Before(a, d) = a[m] /\ Before(b, d) = b[m]
    BY <1>1, <1>3 DEF Before
  <2> HIDE DEF m
  <2> QED
    BY <2>1, <2>2, <2>3
<1> QED
  BY <1>2, <1>3

LEMMA SameClass ==
  ASSUME NEW a, NEW b, NEW d \in Days, NEW value, NEW def,
         \A e \in Days : e < d => (a[e] = NoRow <=> b[e] = NoRow),
         \A e \in Days : e < d /\ a[e] # NoRow => a[e].value = b[e].value /\ a[e].def = b[e].def
  PROVE  Classify(Before(a, d), value, def, FALSE) = Classify(Before(b, d), value, def, FALSE)
BY SameBefore DEF Classify, Margin

\* The next cycle lies above every one that is named.
LEMMA NextIsNew ==
  ASSUME TypeOK
  PROVE  /\ NextCycle \in Nat /\ NextCycle > 0
         /\ \A c \in Cycles : runs[c] # NoRun => c < NextCycle
         /\ \A i \in Items, d \in Days : history[i][d].cycle < NextCycle
         /\ \/ NextCycle = 1
            \/ NextCycle - 1 \in Cycles /\ runs[NextCycle - 1] # NoRun
            \/ \E i \in Items, d \in Days : history[i][d] # NoRow /\ NextCycle - 1 = history[i][d].cycle
<1> DEFINE ran   == {c \in Cycles : runs[c] # NoRun}
           named == {history[i][d].cycle : i \in Items, d \in Days}
           S     == {0} \cup ran \cup named
<1>1. \A i \in Items, d \in Days : history[i][d].cycle \in 0..MaxCycle
  <2> SUFFICES ASSUME NEW i \in Items, NEW d \in Days PROVE history[i][d].cycle \in 0..MaxCycle
    OBVIOUS
  <2>1. history[i][d] \in Rows \cup {NoRow}
    BY DEF TypeOK
  <2> QED
    BY <2>1, Constants, Absent DEF Rows, Cycles
<1>2. S \in SUBSET (0..MaxCycle) /\ S # {} /\ MaxCycle \in Nat
  BY <1>1, Constants DEF Cycles
<1>3. NextCycle = 1 + Max(S)
  BY DEF NextCycle
<1>4. Max(S) \in S /\ \A y \in S : y <= Max(S)
  <2> HIDE DEF S
  <2> QED
    BY <1>2, Greatest
<1>5. Max(S) \in Nat
  BY <1>2, <1>4
<1>10. ran \subseteq S /\ S \subseteq {0} \cup ran \cup named
  OBVIOUS
<1>11. \A i \in Items, d \in Days : history[i][d].cycle \in S
  OBVIOUS
<1> HIDE DEF S
<1>6. \A c \in ran : c <= Max(S)
  <2> HIDE DEF ran, named
  <2> QED
    BY <1>4, <1>10
<1>7. \A i \in Items, d \in Days : history[i][d].cycle <= Max(S)
  BY <1>4, <1>11
<1>8. Max(S) = 0 \/ Max(S) \in ran \/ Max(S) \in named
  <2> HIDE DEF ran, named
  <2> QED
    BY <1>4, <1>10
<1>9. \/ NextCycle = 1
      \/ NextCycle - 1 \in Cycles /\ runs[NextCycle - 1] # NoRun
      \/ \E i \in Items, d \in Days : history[i][d] # NoRow /\ NextCycle - 1 = history[i][d].cycle
  <2>1. CASE Max(S) = 0
    BY <1>3, <2>1
  <2>2. CASE Max(S) \in ran
    BY <1>3, <1>5, <2>2
  <2>3. CASE Max(S) \in named /\ Max(S) # 0
    <3>1. PICK i \in Items, d \in Days : Max(S) = history[i][d].cycle
      BY <2>3
    <3>2. history[i][d] # NoRow
      BY <2>3, <3>1, Absent
    <3> QED
      BY <1>3, <1>5, <3>1, <3>2
  <2> QED
    BY <1>8, <2>1, <2>2, <2>3
<1>12. \A i \in Items, d \in Days : history[i][d].cycle < NextCycle
  BY <1>1, <1>3, <1>5, <1>7
<1>13. \A c \in Cycles : runs[c] # NoRun => c < NextCycle
  BY <1>3, <1>5, <1>6, Constants
<1> QED
  BY <1>3, <1>5, <1>9, <1>12, <1>13

\* The latest date of an item is that of its current row.
LEMMA CurrentLatest ==
  ASSUME TypeOK, CurrentInv, NEW i \in Items
  PROVE  /\ current[i] = NoCurrent => \A d \in Days : history[i][d] = NoRow
         /\ current[i] # NoCurrent =>
              /\ current[i].ts \in Days /\ history[i][current[i].ts] # NoRow
              /\ current[i].row = history[i][current[i].ts]
              /\ \A d \in Days : history[i][d] # NoRow => d <= current[i].ts
<1>1. CurrentIs(i) /\ Dates(history[i]) \in SUBSET Days
  BY DEF CurrentInv, Dates
<1>2. CASE Dates(history[i]) = {}
  BY <1>1, <1>2 DEF CurrentIs, Dates
<1>3. CASE Dates(history[i]) # {}
  <2>1. /\ Max(Dates(history[i])) \in Dates(history[i]) /\ Max(Dates(history[i])) \in Days
        /\ \A y \in Dates(history[i]) : y <= Max(Dates(history[i]))
    BY <1>1, <1>3, LatestDay
  <2>2. current[i].ts = Max(Dates(history[i])) /\ current[i].row = history[i][current[i].ts]
    BY <1>1, <1>3 DEF CurrentIs
  <2>3. current[i].ts \in Days /\ NoCurrent.ts = 0
    BY <2>1, <2>2 DEF NoCurrent
  <2>4. current[i] # NoCurrent
    BY <2>3, Constants
  <2> QED
    BY <2>1, <2>2, <2>4 DEF Dates
<1> QED
  BY <1>2, <1>3

-----------------------------------------------------------------------------
(* What a cycle does.                                                      *)

\* One fact for each watched item.
Given(inputs) == inputs \subseteq Facts /\ \A a, b \in inputs : a.item = b.item => a = b
FreshOf(inputs) == {obs \in inputs : Disposition(obs) = "new"}
RowOf(obs, cycle) ==
  Calculate(cycle, obs.value, obs.def, current[obs.item].row, cycle = 1, 0)
Entry(obs, cycle) == [item |-> obs.item, ts |-> obs.ts, row |-> RowOf(obs, cycle)]
RowsOf(inputs, cycle) == {Entry(obs, cycle) : obs \in FreshOf(inputs)}
FlaggedOf(inputs, cycle) == {obs \in FreshOf(inputs) : RowOf(obs, cycle).status \in Surfacing}
PointOf(obs, cycle) == [item |-> obs.item, cycle |-> cycle, value |-> obs.value, ts |-> obs.ts]
ResultOf(m, inputs, cycle, day) ==
  [date |-> day, mode |-> m, gap |-> cycle - NextCycle, rows |-> RowsOf(inputs, cycle),
   surfaced |-> {obs.item : obs \in FlaggedOf(inputs, cycle)},
   frozen |-> UNION {Series(obs.item) \cup {PointOf(obs, cycle)} : obs \in FlaggedOf(inputs, cycle)}]
HeldOf(inputs) == {obs \in inputs : Disposition(obs) \in Held}

LEMMA CycleHistory ==
  ASSUME NEW p, NEW m, NEW inputs, NEW cycle, NEW day, RunCycle(p, m, inputs, cycle, day)
  PROVE  history' = [i \in Items |-> IF ~Written(RowsOf(inputs, cycle), i) THEN history[i]
                      ELSE [history[i] EXCEPT ![Of(RowsOf(inputs, cycle), i).ts] =
                              Of(RowsOf(inputs, cycle), i).row]]
BY DEF RunCycle, WriteHistory, RowsOf, FreshOf, RowOf, Entry

LEMMA CycleCurrent ==
  ASSUME NEW p, NEW m, NEW inputs, NEW cycle, NEW day, RunCycle(p, m, inputs, cycle, day)
  PROVE  current' = [i \in Items |-> IF ~Written(RowsOf(inputs, cycle), i) THEN current[i]
                      ELSE [ts |-> Of(RowsOf(inputs, cycle), i).ts,
                            row |-> Of(RowsOf(inputs, cycle), i).row]]
BY DEF RunCycle, UpsertCurrent, RowsOf, FreshOf, RowOf, Entry

LEMMA CycleHeld ==
  ASSUME NEW p, NEW m, NEW inputs, NEW cycle, NEW day, RunCycle(p, m, inputs, cycle, day)
  PROVE  reviews' = [i \in Items |->
           IF ~Written(HeldOf(inputs), i) \/ reviews[i] # NoReview THEN reviews[i]
           ELSE [cycle |-> cycle, reason |-> Disposition(Of(HeldOf(inputs), i)),
                 value |-> Of(HeldOf(inputs), i).value, ts |-> Of(HeldOf(inputs), i).ts,
                 def |-> Of(HeldOf(inputs), i).def]]
BY DEF RunCycle, WriteReview, HeldOf

LEMMA CycleSaved ==
  ASSUME NEW p, NEW m, NEW inputs, NEW cycle, NEW day, RunCycle(p, m, inputs, cycle, day)
  PROVE  runs[cycle] = NoRun /\ runs' = [runs EXCEPT ![cycle] = ResultOf(m, inputs, cycle, day)]
BY DEF RunCycle, WriteRun, ResultOf, RowsOf, FlaggedOf, FreshOf, RowOf, Entry, PointOf

HandedOn(p, m, inputs, cycle, day) ==
  IF FlaggedOf(inputs, cycle) = {} \/ p \in Schedulers THEN Idle
  ELSE [Idle EXCEPT !.at = "committed", !.cycle = cycle, !.run = ResultOf(m, inputs, cycle, day)]

LEMMA CycleHands ==
  ASSUME NEW p, NEW m, NEW inputs, NEW cycle, NEW day, RunCycle(p, m, inputs, cycle, day)
  PROVE  proc' = [proc EXCEPT ![p] = HandedOn(p, m, inputs, cycle, day)]
BY DEF RunCycle, HandedOn, ResultOf, RowsOf, FlaggedOf, FreshOf, RowOf, Entry, PointOf

LEMMA CycleRest ==
  ASSUME NEW p, NEW m, NEW inputs, NEW cycle, NEW day, RunCycle(p, m, inputs, cycle, day)
  PROVE  /\ mode \in {"none", m} /\ mode' = m /\ cycle >= NextCycle /\ cycle \in Cycles
         /\ UNCHANGED <<decisions, retired, today>>
BY DEF RunCycle, SourceAgrees

LEMMA WatchedGiven ==
  ASSUME NEW w \in Profiles, NEW s \in Snapshots, NEW day \in Days
  PROVE  Given(Watched(w, s, day))
<1>1. \A i \in DOMAIN w : Observation(i, w[i], s, day) \in Facts /\ Observation(i, w[i], s, day).item = i
  <2> SUFFICES ASSUME NEW i \in DOMAIN w
               PROVE  Observation(i, w[i], s, day) \in Facts /\ Observation(i, w[i], s, day).item = i
    OBVIOUS
  <2>1. i \in Items /\ w[i] \in Defs /\ Values \subseteq Int
    BY MonitorAssumption
  <2>2. s.usable => s.value \in Int /\ s.period \in Days
    BY <2>1 DEF Snapshots
  <2> QED
    BY <2>1, <2>2 DEF Observation, Facts
<1> QED
  BY <1>1 DEF Given, Watched

\* Only a fact about a later day than the history of its item is new.
LEMMA NewFact ==
  ASSUME TypeOK, CurrentInv, NEW obs \in Facts, Disposition(obs) = "new"
  PROVE  /\ obs.item \in Items /\ obs.def \in Defs /\ obs.value \in Int /\ obs.ts \in Days
         /\ retired[obs.item] = NoItem /\ reviews[obs.item] = NoReview
         /\ \A d \in Days : history[obs.item][d] # NoRow => d < obs.ts
<1>1. obs.item \in Items /\ obs.def \in Defs /\ obs.value \in Int /\ obs.ts \in Days \cup {0}
  BY DEF Facts
<1>2. /\ retired[obs.item] = NoItem /\ reviews[obs.item] = NoReview /\ obs.ts # 0
      /\ current[obs.item] = NoCurrent \/ obs.ts > current[obs.item].ts
  BY DEF Disposition
<1>3. CASE current[obs.item] = NoCurrent
  BY <1>1, <1>2, <1>3, CurrentLatest
<1>4. CASE current[obs.item] # NoCurrent
  <2>1. /\ current[obs.item].ts \in Days
        /\ \A d \in Days : history[obs.item][d] # NoRow => d <= current[obs.item].ts
    BY <1>1, <1>4, CurrentLatest
  <2> QED
    BY <1>1, <1>2, <1>4, <2>1, Constants
<1> QED
  BY <1>3, <1>4

\* What is held is a question: it disagrees with the history and nobody has
\* rejected it.
LEMMA HeldFact ==
  ASSUME TypeOK, NEW obs \in Facts, Disposition(obs) \in Held
  PROVE  /\ obs.item \in Items /\ obs.def \in Defs /\ obs.value \in Int /\ obs.ts \in Days
         /\ retired[obs.item] = NoItem /\ reviews[obs.item] = NoReview
         /\ current[obs.item] # NoCurrent /\ ~Rejected(obs.item, Candidate(obs))
         /\ \/ obs.def # current[obs.item].row.def
            \/ obs.ts <= current[obs.item].ts /\ history[obs.item][obs.ts].value # obs.value
            \/ obs.ts <= current[obs.item].ts /\ history[obs.item][obs.ts] = NoRow
<1>1. obs.item \in Items /\ obs.def \in Defs /\ obs.value \in Int /\ obs.ts \in Days \cup {0}
  BY DEF Facts
<1>2. /\ retired[obs.item] = NoItem /\ reviews[obs.item] = NoReview /\ obs.ts # 0
      /\ current[obs.item] # NoCurrent /\ ~Rejected(obs.item, Candidate(obs))
      /\ \/ obs.def # current[obs.item].row.def
         \/ /\ ~(obs.ts > current[obs.item].ts)
            /\ ~(history[obs.item][obs.ts] # NoRow /\ history[obs.item][obs.ts].value = obs.value)
  BY DEF Disposition, Held
<1>3. current[obs.item].ts \in Days
  BY <1>1, <1>2 DEF TypeOK, Currents
<1> QED
  BY <1>1, <1>2, <1>3, Constants

LEMMA RowOfType ==
  ASSUME TypeOK, CurrentInv, NEW obs \in Facts, Disposition(obs) = "new", NEW cycle \in Cycles
  PROVE  /\ RowOf(obs, cycle) \in Rows /\ RowOf(obs, cycle) # NoRow
         /\ RowOf(obs, cycle).cycle = cycle /\ RowOf(obs, cycle).value = obs.value
         /\ RowOf(obs, cycle).def = obs.def
<1>1. obs.def \in Defs /\ obs.value \in Int
  BY DEF Facts
<1>2. RowOf(obs, cycle) \in Rows /\ RowOf(obs, cycle) # NoRow
  BY <1>1, CalculateType DEF RowOf
<1> QED
  BY <1>2 DEF RowOf, Calculate

\* An item gets the row of its one new fact, or none.
Unmoved(i, inputs, cycle) == /\ history'[i] = history[i] /\ current'[i] = current[i]
                             /\ \A f \in RowsOf(inputs, cycle) : f.item # i
Moved(i, inputs, cycle) ==
  \E obs \in FreshOf(inputs) :
    /\ obs.item = i /\ obs \in Facts /\ Disposition(obs) = "new"
    /\ history'[i] = [history[i] EXCEPT ![obs.ts] = RowOf(obs, cycle)]
    /\ current'[i] = [ts |-> obs.ts, row |-> RowOf(obs, cycle)]
    /\ Entry(obs, cycle) \in RowsOf(inputs, cycle)
Asked(i, inputs, cycle) ==
  \E obs \in inputs :
    /\ obs.item = i /\ obs \in Facts /\ Disposition(obs) \in Held
    /\ reviews'[i] = [cycle |-> cycle, reason |-> Disposition(obs), value |-> obs.value,
                      ts |-> obs.ts, def |-> obs.def]
LEMMA CycleRows ==
  ASSUME TypeOK, CurrentInv, NEW p, NEW m, NEW inputs, NEW cycle, NEW day, Given(inputs),
         RunCycle(p, m, inputs, cycle, day), NEW i \in Items
  PROVE  Unmoved(i, inputs, cycle) \/ Moved(i, inputs, cycle)
<1> DEFINE rows == RowsOf(inputs, cycle)
<1>0. /\ history'[i] = IF ~Written(rows, i) THEN history[i]
                       ELSE [history[i] EXCEPT ![Of(rows, i).ts] = Of(rows, i).row]
      /\ current'[i] = IF ~Written(rows, i) THEN current[i]
                       ELSE [ts |-> Of(rows, i).ts, row |-> Of(rows, i).row]
  <2>1. history' = [j \in Items |-> IF ~Written(rows, j) THEN history[j]
                      ELSE [history[j] EXCEPT ![Of(rows, j).ts] = Of(rows, j).row]]
    BY CycleHistory
  <2>2. current' = [j \in Items |-> IF ~Written(rows, j) THEN current[j]
                      ELSE [ts |-> Of(rows, j).ts, row |-> Of(rows, j).row]]
    BY CycleCurrent
  <2> HIDE DEF rows
  <2> QED
    BY <2>1, <2>2
<1>1. CASE ~Written(rows, i)
  BY <1>0, <1>1 DEF Written, Unmoved
<1>2. CASE Written(rows, i)
  <2>1. PICK obs \in FreshOf(inputs) : obs.item = i
    BY <1>2 DEF Written, RowsOf, Entry
  <2>2. Entry(obs, cycle) \in rows /\ Entry(obs, cycle).item = i
    BY <2>1 DEF RowsOf, Entry
  <2>3. \A f \in rows : f.item = i => f = Entry(obs, cycle)
    BY <2>1 DEF RowsOf, Entry, Given, FreshOf
  <2>4. Of(rows, i) = Entry(obs, cycle)
    BY <2>2, <2>3 DEF Of
  <2>5. Of(rows, i).ts = obs.ts /\ Of(rows, i).row = RowOf(obs, cycle)
    BY <2>4 DEF Entry
  <2>6. obs \in Facts /\ Disposition(obs) = "new"
    BY <2>1 DEF FreshOf, Given
  <2> HIDE DEF rows
  <2> QED
    BY <1>0, <1>2, <2>1, <2>2, <2>5, <2>6 DEF rows, Moved
<1> QED
  BY <1>1, <1>2

\* An item gets the review of its one held fact, or none; that item gets no row.
LEMMA CycleReviews ==
  ASSUME TypeOK, CurrentInv, NEW p, NEW m, NEW inputs, NEW cycle, NEW day, Given(inputs),
         RunCycle(p, m, inputs, cycle, day), NEW i \in Items
  PROVE  reviews'[i] = reviews[i] \/ (Asked(i, inputs, cycle) /\ Unmoved(i, inputs, cycle))
<1> DEFINE held == HeldOf(inputs)
<1>0. reviews'[i] = IF ~Written(held, i) \/ reviews[i] # NoReview THEN reviews[i]
                    ELSE [cycle |-> cycle, reason |-> Disposition(Of(held, i)),
                          value |-> Of(held, i).value, ts |-> Of(held, i).ts,
                          def |-> Of(held, i).def]
  <2>1. reviews' = [j \in Items |->
          IF ~Written(held, j) \/ reviews[j] # NoReview THEN reviews[j]
          ELSE [cycle |-> cycle, reason |-> Disposition(Of(held, j)),
                value |-> Of(held, j).value, ts |-> Of(held, j).ts, def |-> Of(held, j).def]]
    BY CycleHeld
  <2> HIDE DEF held
  <2> QED
    BY <2>1
<1>1. CASE ~Written(HeldOf(inputs), i) \/ reviews[i] # NoReview
  BY <1>0, <1>1
<1>2. CASE Written(HeldOf(inputs), i) /\ reviews[i] = NoReview
  <2>1. PICK obs \in HeldOf(inputs) : obs.item = i
    BY <1>2 DEF Written
  <2>2. obs \in inputs /\ obs \in Facts /\ Disposition(obs) \in Held
    BY <2>1 DEF HeldOf, Given
  <2>3. \A f \in HeldOf(inputs) : f.item = i => f = obs
    BY <2>1 DEF HeldOf, Given
  <2>4. Of(HeldOf(inputs), i) = obs
    BY <2>1, <2>3 DEF Of
  <2>5. reviews'[i] = [cycle |-> cycle, reason |-> Disposition(obs), value |-> obs.value,
                       ts |-> obs.ts, def |-> obs.def]
    BY <1>0, <1>2, <2>4
  <2>6. \A x \in FreshOf(inputs) : x.item # i
    BY <2>1, <2>2 DEF FreshOf, Given, Held
  <2>7. \A f \in RowsOf(inputs, cycle) : f.item # i
    BY <2>6 DEF RowsOf, Entry
  <2>8. history'[i] = history[i] /\ current'[i] = current[i]
    <3>1. ~Written(RowsOf(inputs, cycle), i)
      BY <2>7 DEF Written
    <3>2. history'[i] = history[i]
      BY <3>1, CycleHistory
    <3>3. current'[i] = current[i]
      BY <3>1, CycleCurrent
    <3> QED
      BY <3>2, <3>3
  <2> QED
    BY <2>1, <2>2, <2>5, <2>7, <2>8 DEF Asked, Unmoved
<1> QED
  BY <1>1, <1>2

-----------------------------------------------------------------------------
(* A cycle keeps the invariants.                                           *)

LEMMA SeriesType ==
  ASSUME TypeOK, NEW i \in Items
  PROVE  Series(i) \subseteq Points
<1>1. \A d \in Dates(history[i]) : d \in Days /\ history[i][d] \in Rows
  BY DEF TypeOK, Dates
<1> QED
  BY <1>1 DEF Series, Points, Rows

LEMMA ResultType ==
  ASSUME TypeOK, CurrentInv, NEW m \in Sources, NEW inputs, NEW cycle \in Cycles, NEW day \in Days,
         Given(inputs), cycle >= NextCycle
  PROVE  /\ ResultOf(m, inputs, cycle, day) \in Runs /\ ResultOf(m, inputs, cycle, day) # NoRun
         /\ ResultOf(m, inputs, cycle, day).mode = m
<1>1. \A obs \in FreshOf(inputs) : obs \in Facts /\ Disposition(obs) = "new"
  BY DEF FreshOf, Given
<1>2. \A obs \in FreshOf(inputs) : Entry(obs, cycle) \in Saved /\ PointOf(obs, cycle) \in Points
                                   /\ Series(obs.item) \subseteq Points /\ obs.item \in Items
  BY <1>1, NewFact, RowOfType, SeriesType DEF Entry, Saved, PointOf, Points
<1>3. cycle - NextCycle \in Nat
  BY NextIsNew, Constants
<1>4. RowsOf(inputs, cycle) \subseteq Saved
  BY <1>2 DEF RowsOf
<1>5. /\ {obs.item : obs \in FlaggedOf(inputs, cycle)} \subseteq Items
      /\ UNION {Series(obs.item) \cup {PointOf(obs, cycle)} : obs \in FlaggedOf(inputs, cycle)}
           \subseteq Points
  BY <1>2 DEF FlaggedOf
<1>6. ResultOf(m, inputs, cycle, day) \in Runs
  BY <1>3, <1>4, <1>5 DEF ResultOf, Runs
<1> QED
  BY <1>6, Absent DEF ResultOf

LEMMA CycleRowsType ==
  ASSUME TypeOK, CurrentInv, NEW p, NEW m, NEW inputs, NEW cycle, NEW day, Given(inputs),
         RunCycle(p, m, inputs, cycle, day)
  PROVE  /\ history' \in [Items -> [Days -> Rows \cup {NoRow}]]
         /\ current' \in [Items -> Currents \cup {NoCurrent}]
         /\ reviews' \in [Items -> Reviews \cup {NoReview}]
<1>1. cycle \in Cycles
  BY CycleRest
<1>2. ASSUME NEW i \in Items
      PROVE  history'[i] \in [Days -> Rows \cup {NoRow}] /\ current'[i] \in Currents \cup {NoCurrent}
  <2>1. CASE Unmoved(i, inputs, cycle)
    BY <2>1 DEF TypeOK, Unmoved
  <2>2. ASSUME NEW obs \in FreshOf(inputs), obs \in Facts, Disposition(obs) = "new", obs.item = i,
               history'[i] = [history[i] EXCEPT ![obs.ts] = RowOf(obs, cycle)],
               current'[i] = [ts |-> obs.ts, row |-> RowOf(obs, cycle)]
        PROVE  history'[i] \in [Days -> Rows \cup {NoRow}] /\ current'[i] \in Currents \cup {NoCurrent}
    <3>1. obs.ts \in Days /\ RowOf(obs, cycle) \in Rows
      BY <1>1, <2>2, NewFact, RowOfType
    <3> QED
      BY <2>2, <3>1 DEF TypeOK, Currents
  <2> QED
    <3>1. Unmoved(i, inputs, cycle) \/ Moved(i, inputs, cycle)
      BY CycleRows
    <3> QED
      BY <2>1, <2>2, <3>1 DEF Moved
<1>3. ASSUME NEW i \in Items PROVE reviews'[i] \in Reviews \cup {NoReview}
  <2>1. CASE reviews'[i] = reviews[i]
    BY <2>1 DEF TypeOK
  <2>2. ASSUME NEW obs \in inputs, obs \in Facts, Disposition(obs) \in Held,
               reviews'[i] = [cycle |-> cycle, reason |-> Disposition(obs), value |-> obs.value,
                              ts |-> obs.ts, def |-> obs.def]
        PROVE  reviews'[i] \in Reviews
    BY <1>1, <2>2, HeldFact DEF Reviews
  <2> QED
    <3>1. reviews'[i] = reviews[i] \/ Asked(i, inputs, cycle)
      BY CycleReviews
    <3> QED
      BY <2>1, <2>2, <3>1 DEF Asked
<1>4. DOMAIN history' = Items /\ history' = [i \in Items |-> history'[i]]
  BY CycleHistory
<1>5. DOMAIN current' = Items /\ current' = [i \in Items |-> current'[i]]
  BY CycleCurrent
<1>6. DOMAIN reviews' = Items /\ reviews' = [i \in Items |-> reviews'[i]]
  BY CycleHeld
<1> QED
  BY <1>2, <1>3, <1>4, <1>5, <1>6

LEMMA IdleType == Idle \in Readers
BY DEF Idle, Readers

LEMMA CycleType ==
  ASSUME TypeOK, CurrentInv, NEW p \in Procs, NEW m \in Sources, NEW inputs, NEW cycle,
         NEW day \in Days,
         Given(inputs), RunCycle(p, m, inputs, cycle, day)
  PROVE  TypeOK'
<1>1. cycle \in Cycles /\ cycle >= NextCycle /\ mode' = m /\ UNCHANGED <<decisions, retired, today>>
  BY CycleRest
<1>2. ResultOf(m, inputs, cycle, day) \in Runs
  BY <1>1, ResultType
<1>3. runs' \in [Cycles -> Runs \cup {NoRun}]
  BY <1>1, <1>2, CycleSaved DEF TypeOK
<1>4. HandedOn(p, m, inputs, cycle, day) \in Readers
      /\ HandedOn(p, m, inputs, cycle, day).at # "fetched"
  BY <1>1, <1>2, IdleType DEF HandedOn, Idle, Readers
<1>5. proc' = [proc EXCEPT ![p] = HandedOn(p, m, inputs, cycle, day)]
  BY CycleHands
<1>6. proc' \in [Procs -> Readers] /\ \A q \in Procs : proc'[q].at = "fetched" => proc'[q].day \in Days
  BY <1>4, <1>5 DEF TypeOK
<1> QED
  BY <1>1, <1>3, <1>6, CycleRowsType DEF TypeOK

LEMMA LatestIs ==
  ASSUME NEW S \in SUBSET Days, NEW d \in S, \A e \in S : e <= d
  PROVE  Max(S) = d
<1>1. Max(S) \in S /\ Max(S) \in Days /\ d <= Max(S)
  BY LatestDay
<1>2. Max(S) <= d /\ d \in Days
  BY <1>1
<1> QED
  BY <1>1, <1>2, Constants

\* What the cycle saved.
LEMMA RunSaved ==
  ASSUME TypeOK, NEW p, NEW m, NEW inputs, NEW cycle, NEW day,
         RunCycle(p, m, inputs, cycle, day)
  PROVE  /\ cycle \in Cycles /\ runs[cycle] = NoRun
         /\ runs'[cycle] = ResultOf(m, inputs, cycle, day)
         /\ runs'[cycle].rows = RowsOf(inputs, cycle)
         /\ \A c \in Cycles : c # cycle => runs'[c] = runs[c]
<1>1. cycle \in Cycles
  BY CycleRest
<1>2. runs[cycle] = NoRun /\ runs' = [runs EXCEPT ![cycle] = ResultOf(m, inputs, cycle, day)]
  BY CycleSaved
<1>3. runs'[cycle] = ResultOf(m, inputs, cycle, day) /\ \A c \in Cycles : c # cycle => runs'[c] = runs[c]
  BY <1>1, <1>2 DEF TypeOK
<1>4. ResultOf(m, inputs, cycle, day).rows = RowsOf(inputs, cycle)
  BY DEF ResultOf
<1> QED
  BY <1>1, <1>2, <1>3, <1>4

LEMMA CycleCurrentInv ==
  ASSUME TypeOK, CurrentInv, NEW p, NEW m, NEW inputs, NEW cycle, NEW day, Given(inputs),
         RunCycle(p, m, inputs, cycle, day)
  PROVE  CurrentInv'
<1> SUFFICES ASSUME NEW i \in Items PROVE CurrentIs(i)'
  BY DEF CurrentInv
<1>1. cycle \in Cycles
  BY CycleRest
<1>2. CASE Unmoved(i, inputs, cycle)
  BY <1>2 DEF CurrentInv, CurrentIs, Unmoved
<1>3. CASE Moved(i, inputs, cycle)
  <2>1. PICK obs \in FreshOf(inputs) :
          /\ obs.item = i /\ obs \in Facts /\ Disposition(obs) = "new"
          /\ history'[i] = [history[i] EXCEPT ![obs.ts] = RowOf(obs, cycle)]
          /\ current'[i] = [ts |-> obs.ts, row |-> RowOf(obs, cycle)]
    BY <1>3 DEF Moved
  <2>2. /\ obs.ts \in Days /\ RowOf(obs, cycle) # NoRow
        /\ \A d \in Days : history[i][d] # NoRow => d < obs.ts
    BY <1>1, <2>1, NewFact, RowOfType
  <2>3. history'[i][obs.ts] = RowOf(obs, cycle) /\ \A d \in Days : d # obs.ts => history'[i][d] = history[i][d]
    BY <2>1, <2>2 DEF TypeOK
  <2>4. Dates(history'[i]) \in SUBSET Days /\ obs.ts \in Dates(history'[i])
        /\ \A d \in Dates(history'[i]) : d <= obs.ts
    BY <2>2, <2>3, Constants DEF Dates
  <2>5. Max(Dates(history'[i])) = obs.ts
    BY <2>4, LatestIs
  <2> QED
    BY <2>1, <2>3, <2>4, <2>5 DEF CurrentIs
<1>4. Unmoved(i, inputs, cycle) \/ Moved(i, inputs, cycle)
  BY CycleRows
<1> QED
  BY <1>2, <1>3, <1>4

\* What is before a date depends on earlier dates only.
LEMMA SamePast ==
  ASSUME NEW a, NEW b, NEW d \in Days, \A e \in Days : e < d => a[e] = b[e]
  PROVE  Before(a, d) = Before(b, d)
<1>1. Earlier(a, d) = Earlier(b, d) /\ Earlier(a, d) \in SUBSET Days
  BY DEF Earlier
<1>2. CASE Earlier(a, d) = {}
  BY <1>1, <1>2 DEF Before
<1>3. CASE Earlier(a, d) # {}
  <2> DEFINE m == Max(Earlier(a, d))
  <2>1. m \in Earlier(a, d) /\ m \in Days
    BY <1>1, <1>3, LatestDay
  <2>2. m < d
    BY <2>1 DEF Earlier
  <2>3. Before(a, d) = a[m] /\ Before(b, d) = b[m]
    BY <1>1, <1>3 DEF Before
  <2> HIDE DEF m
  <2> QED
    BY <2>1, <2>2, <2>3
<1> QED
  BY <1>2, <1>3

\* A first observation has nothing before it; a later one the current row.
LEMMA BeforeNew ==
  ASSUME TypeOK, CurrentInv, NEW i \in Items, NEW d \in Days,
         \A e \in Days : history[i][e] # NoRow => e < d
  PROVE  Before(history[i], d) = current[i].row
<1>1. Earlier(history[i], d) = Dates(history[i]) /\ Dates(history[i]) \in SUBSET Days
  BY DEF Earlier, Dates
<1>2. CurrentIs(i)
  BY DEF CurrentInv
<1>3. CASE Dates(history[i]) = {}
  BY <1>1, <1>2, <1>3 DEF Before, CurrentIs, NoCurrent
<1>4. CASE Dates(history[i]) # {}
  BY <1>1, <1>2, <1>4 DEF Before, CurrentIs
<1> QED
  BY <1>3, <1>4

\* In cycle one nothing is there to compare with.
LEMMA FirstCycle ==
  ASSUME TypeOK, CurrentInv, NEW i \in Items, NextCycle = 1
  PROVE  current[i].row = NoRow
<1>1. \A d \in Days : history[i][d] = NoRow
  <2> SUFFICES ASSUME NEW d \in Days, history[i][d] # NoRow PROVE FALSE
    OBVIOUS
  <2>1. history[i][d].cycle \in Cycles
    BY DEF TypeOK, Rows
  <2> QED
    BY <2>1, NextIsNew, Constants
<1>2. current[i] = NoCurrent
  BY <1>1, CurrentLatest
<1> QED
  BY <1>2 DEF NoCurrent

LEMMA NewStatus ==
  ASSUME TypeOK, CurrentInv, NEW obs \in Facts, Disposition(obs) = "new", NEW cycle \in Cycles,
         cycle >= NextCycle, NEW rows, \A e \in Days : e < obs.ts => rows[e] = history[obs.item][e]
  PROVE  RowOf(obs, cycle).status = Classify(Before(rows, obs.ts), obs.value, obs.def, FALSE)
<1>1. obs.item \in Items /\ obs.ts \in Days
      /\ \A e \in Days : history[obs.item][e] # NoRow => e < obs.ts
  BY NewFact
<1>2. Before(history[obs.item], obs.ts) = current[obs.item].row
  BY <1>1, BeforeNew
<1>3. Before(rows, obs.ts) = current[obs.item].row
  <2>1. Before(rows, obs.ts) = Before(history[obs.item], obs.ts)
    BY <1>1, SamePast
  <2> QED
    BY <1>2, <2>1
<1>4. RowOf(obs, cycle).status = Classify(current[obs.item].row, obs.value, obs.def, cycle = 1)
  BY DEF RowOf, Calculate
<1>5. CASE cycle = 1
  <2>1. NextCycle = 1
    BY <1>5, NextIsNew
  <2>2. current[obs.item].row = NoRow
    BY <1>1, <2>1, FirstCycle
  <2> QED
    BY <1>3, <1>4, <1>5, <2>2 DEF Classify
<1>6. CASE cycle # 1
  BY <1>3, <1>4, <1>6 DEF Classify
<1> QED
  BY <1>5, <1>6

LEMMA CycleAccounts ==
  ASSUME TypeOK, CurrentInv, HistoryInv, CycleInv, NEW p, NEW m, NEW inputs, NEW cycle, NEW day,
         Given(inputs), RunCycle(p, m, inputs, cycle, day),
         NEW i \in Items, NEW d \in Days, history'[i][d] # NoRow
  PROVE  RowAccounted(i, d)'
<1>1. cycle \in Cycles /\ cycle >= NextCycle /\ decisions' = decisions
  BY CycleRest
<1>2. Settled(i, d)' = Settled(i, d)
  BY <1>1 DEF Settled
<1>3. ASSUME history[i][d] # NoRow PROVE runs'[history[i][d].cycle] = runs[history[i][d].cycle]
  <2>1. history[i][d].cycle \in Cycles /\ runs[history[i][d].cycle] # NoRun
    BY <1>3 DEF TypeOK, Rows, CycleInv
  <2> QED
    BY <2>1, RunSaved
<1>4. CASE Unmoved(i, inputs, cycle)
  <2>1. history'[i] = history[i] /\ history[i][d] # NoRow
    BY <1>4 DEF Unmoved
  <2>2. RowAccounted(i, d)
    BY <2>1 DEF HistoryInv
  <2> QED
    BY <1>2, <1>3, <2>1, <2>2 DEF RowAccounted
<1>5. CASE Moved(i, inputs, cycle)
  <2>1. PICK obs \in FreshOf(inputs) :
          /\ obs.item = i /\ obs \in Facts /\ Disposition(obs) = "new"
          /\ history'[i] = [history[i] EXCEPT ![obs.ts] = RowOf(obs, cycle)]
          /\ Entry(obs, cycle) \in RowsOf(inputs, cycle)
    BY <1>5 DEF Moved
  <2>2. /\ obs.ts \in Days /\ RowOf(obs, cycle) # NoRow /\ RowOf(obs, cycle).cycle = cycle
        /\ RowOf(obs, cycle).value = obs.value /\ RowOf(obs, cycle).def = obs.def
        /\ \A e \in Days : history[i][e] # NoRow => e < obs.ts
    BY <1>1, <2>1, NewFact, RowOfType
  <2>3. history'[i][obs.ts] = RowOf(obs, cycle) /\ \A e \in Days : e # obs.ts => history'[i][e] = history[i][e]
    BY <2>1, <2>2 DEF TypeOK
  <2>4. CASE d = obs.ts
    <3>1. \A e \in Days : e < obs.ts => history'[i][e] = history[i][e]
      BY <2>2, <2>3, Constants
    <3>2. history'[i][d].status = Classify(Before(history'[i], d), obs.value, obs.def, FALSE)
      <4> DEFINE rows == history'[i]
      <4>1. \A e \in Days : e < obs.ts => rows[e] = history[obs.item][e]
        BY <2>1, <3>1
      <4>2. rows[d].status = RowOf(obs, cycle).status
        BY <2>3, <2>4
      <4> HIDE DEF rows
      <4>3. RowOf(obs, cycle).status = Classify(Before(rows, obs.ts), obs.value, obs.def, FALSE)
        BY <1>1, <2>1, <4>1, NewStatus
      <4> QED
        BY <2>4, <4>2, <4>3 DEF rows
    <3>3. Settled(i, d) = {}
      <4> SUFFICES ASSUME NEW x \in Settled(i, d) PROVE FALSE
        OBVIOUS
      <4>1. x \in decisions /\ x.action = "approve" /\ x.candidate.ts = d /\ Decided(x) = i
        BY DEF Settled, Decided
      <4>2. history[i][d] # NoRow
        BY <4>1 DEF HistoryInv, DecidedStands
      <4> QED
        BY <2>2, <2>4, <4>2, Constants
    <3>4. /\ Entry(obs, cycle) \in runs'[history'[i][d].cycle].rows
          /\ Entry(obs, cycle).item = i /\ Entry(obs, cycle).ts = d
          /\ Entry(obs, cycle).row = history'[i][d]
      <4>1. runs'[cycle].rows = RowsOf(inputs, cycle)
        BY RunSaved
      <4> QED
        BY <2>1, <2>2, <2>3, <2>4, <4>1 DEF Entry
    <3> QED
      BY <1>2, <2>2, <2>3, <2>4, <3>2, <3>3, <3>4 DEF RowAccounted
  <2>5. CASE d # obs.ts
    <3>1. history'[i][d] = history[i][d] /\ history[i][d] # NoRow /\ d < obs.ts
      BY <2>2, <2>3, <2>5
    <3>2. \A e \in Days : e < d => history'[i][e] = history[i][e]
      BY <2>2, <2>3, <3>1, Constants
    <3>3. Before(history'[i], d) = Before(history[i], d)
      BY <3>2, SamePast
    <3>4. RowAccounted(i, d)
      BY <3>1 DEF HistoryInv
    <3> QED
      BY <1>2, <1>3, <3>1, <3>3, <3>4 DEF RowAccounted
  <2> QED
    BY <2>4, <2>5
<1>6. Unmoved(i, inputs, cycle) \/ Moved(i, inputs, cycle)
  BY CycleRows
<1> QED
  BY <1>4, <1>5, <1>6

LEMMA CycleHistoryInv ==
  ASSUME TypeOK, CurrentInv, HistoryInv, CycleInv, NEW p, NEW m, NEW inputs, NEW cycle, NEW day,
         Given(inputs), RunCycle(p, m, inputs, cycle, day)
  PROVE  /\ HistoryInv'
         /\ \A i \in Items, d \in Days : history[i][d] # NoRow => history'[i][d] = history[i][d]
<1>1. cycle \in Cycles /\ cycle >= NextCycle /\ decisions' = decisions
  BY CycleRest
<1>2. ASSUME NEW i \in Items, NEW d \in Days, history'[i][d] # NoRow PROVE RowAccounted(i, d)'
  BY <1>2, CycleAccounts
<1>3. ASSUME NEW i \in Items, NEW d \in Days, history[i][d] # NoRow
      PROVE  history'[i][d] = history[i][d]
  <2>1. CASE Unmoved(i, inputs, cycle)
    BY <1>3, <2>1 DEF Unmoved
  <2>2. CASE Moved(i, inputs, cycle)
    <3>1. PICK obs \in FreshOf(inputs) :
            /\ obs.item = i /\ obs \in Facts /\ Disposition(obs) = "new"
            /\ history'[i] = [history[i] EXCEPT ![obs.ts] = RowOf(obs, cycle)]
      BY <2>2 DEF Moved
    <3>2. obs.ts \in Days /\ d # obs.ts
      BY <1>3, <3>1, NewFact, Constants
    <3> QED
      BY <1>3, <3>1, <3>2 DEF TypeOK
  <2>3. Unmoved(i, inputs, cycle) \/ Moved(i, inputs, cycle)
    BY CycleRows
  <2> QED
    BY <2>1, <2>2, <2>3
<1>4. ASSUME NEW x \in decisions PROVE DecidedStands(x)'
  <2> SUFFICES ASSUME x.action = "approve"
               PROVE  /\ history'[Decided(x)][x.candidate.ts] # NoRow
                      /\ reviews'[Decided(x)] # NoReview => x.cycle <= reviews'[Decided(x)].cycle
    BY DEF DecidedStands, Decided
  <2>1. Decided(x) \in Items /\ x.candidate.ts \in Days /\ x.cycle \in Cycles
    BY DEF TypeOK, Answers, Offers, Decided
  <2>2. /\ history[Decided(x)][x.candidate.ts] # NoRow
        /\ reviews[Decided(x)] # NoReview => x.cycle <= reviews[Decided(x)].cycle
    BY DEF HistoryInv, DecidedStands
  <2>3. x.cycle < NextCycle
    BY <2>1, NextIsNew DEF CycleInv
  <2>4. reviews'[Decided(x)] = reviews[Decided(x)] \/ Asked(Decided(x), inputs, cycle)
    BY <2>1, CycleReviews
  <2>5. CASE reviews'[Decided(x)] = reviews[Decided(x)]
    BY <1>3, <2>1, <2>2, <2>5
  <2>6. CASE Asked(Decided(x), inputs, cycle)
    <3>1. reviews'[Decided(x)].cycle = cycle
      BY <2>6 DEF Asked
    <3>2. NextCycle \in Nat
      BY NextIsNew
    <3> QED
      BY <1>1, <1>3, <2>1, <2>2, <2>3, <3>1, <3>2, Constants
  <2> QED
    BY <2>4, <2>5, <2>6
<1> QED
  BY <1>1, <1>2, <1>3, <1>4 DEF HistoryInv

\* A row or a review that a cycle leaves is an old one or names the cycle.
LEMMA CycleCycleInv ==
  ASSUME TypeOK, CurrentInv, CycleInv, NEW p, NEW m \in Sources, NEW inputs, NEW cycle,
         NEW day \in Days,
         Given(inputs), RunCycle(p, m, inputs, cycle, day)
  PROVE  CycleInv'
<1>1. cycle \in Cycles /\ cycle >= NextCycle /\ decisions' = decisions /\ mode \in {"none", m} /\ mode' = m
  BY CycleRest
<1>2. /\ runs'[cycle] # NoRun /\ runs'[cycle].mode = m
      /\ \A c \in Cycles : c # cycle => runs'[c] = runs[c]
  BY <1>1, RunSaved, ResultType
<1>3. ASSUME NEW i \in Items, NEW d \in Days, history'[i][d] # NoRow
      PROVE  runs'[history'[i][d].cycle] # NoRun
  <2>1. CASE history'[i][d] = history[i][d]
    <3>1. history[i][d].cycle \in Cycles /\ runs[history[i][d].cycle] # NoRun
      BY <1>3, <2>1 DEF TypeOK, Rows, CycleInv
    <3> QED
      BY <1>2, <2>1, <3>1
  <2>2. CASE history'[i][d] # history[i][d]
    <3>1. Moved(i, inputs, cycle)
      <4>1. Unmoved(i, inputs, cycle) \/ Moved(i, inputs, cycle)
        BY CycleRows
      <4> QED
        BY <2>2, <4>1 DEF Unmoved
    <3>2. PICK obs \in FreshOf(inputs) :
            /\ obs.item = i /\ obs \in Facts /\ Disposition(obs) = "new"
            /\ history'[i] = [history[i] EXCEPT ![obs.ts] = RowOf(obs, cycle)]
      BY <3>1 DEF Moved
    <3>3. obs.ts \in Days /\ RowOf(obs, cycle).cycle = cycle
      BY <1>1, <3>2, NewFact, RowOfType
    <3>4. history'[i][d] = RowOf(obs, cycle)
      BY <2>2, <3>2, <3>3 DEF TypeOK
    <3> QED
      BY <1>2, <3>3, <3>4
  <2> QED
    BY <2>1, <2>2
<1>4. ASSUME NEW i \in Items, reviews'[i] # NoReview PROVE runs'[reviews'[i].cycle] # NoRun
  <2>1. CASE reviews'[i] = reviews[i]
    <3>1. reviews[i].cycle \in Cycles /\ runs[reviews[i].cycle] # NoRun
      BY <1>4, <2>1 DEF TypeOK, Reviews, CycleInv
    <3> QED
      BY <1>2, <2>1, <3>1
  <2>2. CASE Asked(i, inputs, cycle)
    BY <1>2, <2>2 DEF Asked
  <2>3. reviews'[i] = reviews[i] \/ Asked(i, inputs, cycle)
    BY CycleReviews
  <2> QED
    BY <2>1, <2>2, <2>3
<1>5. ASSUME NEW x \in decisions PROVE runs'[x.cycle] # NoRun
  BY <1>2 DEF TypeOK, Answers, CycleInv
<1>6. ASSUME NEW c \in Cycles, runs'[c] # NoRun PROVE runs'[c].mode = mode'
  <2>1. CASE c = cycle
    BY <1>1, <1>2, <2>1
  <2>2. CASE c # cycle
    <3>1. runs[c] # NoRun /\ runs'[c] = runs[c]
      BY <1>2, <1>6, <2>2
    <3>2. runs[c].mode = mode /\ runs[c].mode \in Sources
      BY <3>1 DEF CycleInv, TypeOK, Runs
    <3> QED
      BY <1>1, <3>1, <3>2 DEF Sources
  <2> QED
    BY <2>1, <2>2
<1> QED
  BY <1>1, <1>3, <1>4, <1>5, <1>6 DEF CycleInv

LEMMA CycleGapInv ==
  ASSUME TypeOK, CurrentInv, CycleInv, GapInv, NEW p, NEW m \in Sources, NEW inputs, NEW cycle,
         NEW day \in Days, Given(inputs), RunCycle(p, m, inputs, cycle, day)
  PROVE  GapInv'
<1>1. cycle \in Cycles /\ cycle >= NextCycle
  BY CycleRest
<1>2. /\ runs'[cycle] # NoRun /\ runs'[cycle].gap = cycle - NextCycle
      /\ \A c \in Cycles : c # cycle => runs'[c] = runs[c]
  <2>1. ResultOf(m, inputs, cycle, day) # NoRun /\ ResultOf(m, inputs, cycle, day).gap = cycle - NextCycle
    BY <1>1, ResultType DEF ResultOf
  <2> QED
    BY <2>1, RunSaved
<1>3. NextCycle \in Nat /\ cycle \in Nat /\ cycle - (cycle - NextCycle) = NextCycle
  BY <1>1, NextIsNew, Constants
<1>4. \A c \in Cycles : runs[c] # NoRun => c < NextCycle
  BY NextIsNew
<1> SUFFICES ASSUME NEW c \in Cycles PROVE GapAt(c)'
  BY DEF GapInv
<1>5. CASE c = cycle
  <2>1. \A e \in Cycles : e < c /\ e >= NextCycle => runs'[e] = NoRun
    BY <1>2, <1>3, <1>4, <1>5, Constants
  <2>2. NextCycle = 1 \/ (NextCycle - 1 \in Cycles /\ runs'[NextCycle - 1] # NoRun)
    <3>1. CASE NextCycle - 1 \in Cycles /\ runs[NextCycle - 1] # NoRun
      BY <1>1, <1>2, <1>3, <3>1
    <3>2. CASE \E i \in Items, d \in Days : history[i][d] # NoRow /\ NextCycle - 1 = history[i][d].cycle
      <4>1. NextCycle - 1 \in Cycles /\ runs[NextCycle - 1] # NoRun
        BY <3>2 DEF TypeOK, Rows, CycleInv
      <4> QED
        BY <1>1, <1>2, <1>3, <4>1
    <3> QED
      BY <3>1, <3>2, NextIsNew
  <2>3. c - runs'[c].gap = NextCycle
    BY <1>2, <1>3, <1>5
  <2> QED
    BY <2>1, <2>2, <2>3 DEF GapAt
<1>6. CASE c # cycle
  <2> SUFFICES ASSUME runs[c] # NoRun PROVE GapAt(c)'
    BY <1>2, <1>6 DEF GapAt
  <2>1. GapAt(c) /\ runs'[c] = runs[c] /\ c < cycle
    <3>1. GapAt(c) /\ runs'[c] = runs[c]
      BY <1>2, <1>6 DEF GapInv
    <3>2. c < NextCycle /\ c \in Nat
      BY <1>4, Constants
    <3> QED
      BY <1>1, <1>3, <3>1, <3>2
  <2>2. \A e \in Cycles : e < c => runs'[e] = runs[e]
    BY <1>2, <1>3, <2>1, Constants
  <2>3. \A e \in Cycles : runs[e] # NoRun => runs'[e] # NoRun
    BY <1>2
  <2> QED
    BY <2>1, <2>2, <2>3 DEF GapAt
<1> QED
  BY <1>5, <1>6

LEMMA CycleReviewInv ==
  ASSUME TypeOK, CurrentInv, ReviewInv, NEW p, NEW m \in Sources, NEW inputs, NEW cycle,
         NEW day \in Days, Given(inputs), RunCycle(p, m, inputs, cycle, day)
  PROVE  ReviewInv'
<1>1. cycle \in Cycles /\ cycle >= NextCycle /\ decisions' = decisions /\ retired' = retired
  BY CycleRest
<1>2. /\ runs'[cycle].rows = RowsOf(inputs, cycle)
      /\ \A c \in Cycles : c # cycle => runs'[c] = runs[c]
  BY RunSaved
<1> SUFFICES ASSUME NEW i \in Items, reviews'[i] # NoReview PROVE Unanswered(i)'
  BY DEF ReviewInv
<1>3. CASE reviews'[i] = reviews[i]
  <2>1. Unanswered(i) /\ reviews[i] # NoReview
    BY <1>3 DEF ReviewInv
  <2>2. Unmoved(i, inputs, cycle)
    <3>1. ~Moved(i, inputs, cycle)
      BY <2>1, NewFact DEF Moved
    <3>2. Unmoved(i, inputs, cycle) \/ Moved(i, inputs, cycle)
      BY CycleRows
    <3> QED
      BY <3>1, <3>2
  <2>3. ASSUME NEW c \in Cycles, c > reviews[i].cycle, NEW f \in runs'[c].rows PROVE f.item # i
    BY <1>2, <2>1, <2>2, <2>3 DEF Unmoved, Unanswered
  <2> QED
    BY <1>1, <1>3, <2>1, <2>2, <2>3 DEF Unanswered, ReviewOf, Unmoved
<1>4. CASE Asked(i, inputs, cycle) /\ Unmoved(i, inputs, cycle)
  <2>1. PICK obs \in inputs :
          /\ obs.item = i /\ obs \in Facts /\ Disposition(obs) \in Held
          /\ reviews'[i] = [cycle |-> cycle, reason |-> Disposition(obs), value |-> obs.value,
                            ts |-> obs.ts, def |-> obs.def]
    BY <1>4 DEF Asked
  <2>2. /\ retired[i] = NoItem /\ ~Rejected(i, Candidate(obs))
        /\ \/ obs.def # current[i].row.def
           \/ obs.ts <= current[i].ts /\ history[i][obs.ts].value # obs.value
           \/ obs.ts <= current[i].ts /\ history[i][obs.ts] = NoRow
    BY <2>1, HeldFact
  <2>3. /\ reviews'[i].cycle = cycle /\ reviews'[i].value = obs.value
        /\ reviews'[i].ts = obs.ts /\ reviews'[i].def = obs.def
    BY <2>1
  <2>4. \A x \in decisions : x.item = i /\ x.action = "reject" => x.candidate # Candidate(obs)
    BY <2>2 DEF Rejected
  <2>5. ReviewOf(i)' = Candidate(obs)
    BY <2>3 DEF ReviewOf, Candidate
  <2>6. ASSUME NEW c \in Cycles, c > cycle PROVE runs'[c].rows = {}
    <3>1. runs[c] = NoRun
      BY <1>1, <2>6, NextIsNew, Constants
    <3> QED
      BY <1>2, <2>6, <3>1, Constants DEF NoRun
  <2> QED
    BY <1>1, <1>4, <2>2, <2>3, <2>4, <2>5, <2>6 DEF Unanswered, Unmoved
<1>5. reviews'[i] = reviews[i] \/ (Asked(i, inputs, cycle) /\ Unmoved(i, inputs, cycle))
  BY CycleReviews
<1> QED
  BY <1>3, <1>4, <1>5

LEMMA CycleRetiredInv ==
  ASSUME TypeOK, CurrentInv, RetiredInv, NEW p, NEW m, NEW inputs, NEW cycle, NEW day,
         Given(inputs), RunCycle(p, m, inputs, cycle, day)
  PROVE  RetiredInv'
<1>1. decisions' = decisions /\ retired' = retired
  BY CycleRest
<1>2. /\ runs'[cycle].rows = RowsOf(inputs, cycle)
      /\ \A c \in Cycles : c # cycle => runs'[c] = runs[c]
  BY RunSaved
<1>3. \A f \in RowsOf(inputs, cycle) : retired[f.item] = NoItem
  <2> SUFFICES ASSUME NEW obs \in FreshOf(inputs) PROVE retired[Entry(obs, cycle).item] = NoItem
    BY DEF RowsOf
  <2>1. obs \in Facts /\ Disposition(obs) = "new"
    BY DEF FreshOf, Given
  <2> QED
    BY <2>1, NewFact DEF Entry
<1> SUFFICES ASSUME NEW x \in decisions, x.replacement # NoItem
             PROVE  /\ retired[x.item] # NoItem
                    /\ \A c \in Cycles : c > x.cycle => \A f \in runs'[c].rows : f.item # x.item
  BY <1>1 DEF RetiredInv
<1> QED
  BY <1>2, <1>3 DEF RetiredInv

\* What a cycle froze with a flagged item ends in what it flagged.
LEMMA ResultFlagged ==
  ASSUME TypeOK, CurrentInv, NEW m, NEW inputs, NEW cycle \in Cycles, NEW day, Given(inputs)
  PROVE  Flagged(cycle, ResultOf(m, inputs, cycle, day), ResultOf(m, inputs, cycle, day).frozen)
<1> DEFINE R == ResultOf(m, inputs, cycle, day)
<1>1. /\ R.rows = RowsOf(inputs, cycle)
      /\ R.surfaced = {obs.item : obs \in FlaggedOf(inputs, cycle)}
      /\ R.frozen = UNION {Series(obs.item) \cup {PointOf(obs, cycle)} : obs \in FlaggedOf(inputs, cycle)}
  BY DEF ResultOf
<1> HIDE DEF R
<1> SUFFICES ASSUME NEW f \in R.rows, f.item \in R.surfaced
             PROVE  LET mine == {x \in R.frozen : x.item = f.item} IN
                    \E x \in mine : /\ x.cycle = cycle /\ x.ts = f.ts /\ x.value = f.row.value
                                    /\ \A y \in mine : y.ts <= x.ts
  BY DEF Flagged, R
<1>2. PICK obs \in FreshOf(inputs) : f = Entry(obs, cycle)
  BY <1>1 DEF RowsOf
<1>3. obs \in FlaggedOf(inputs, cycle) /\ obs \in Facts /\ Disposition(obs) = "new"
  BY <1>1, <1>2 DEF FlaggedOf, FreshOf, Given, Entry
<1>4. /\ f.item = obs.item /\ f.ts = obs.ts /\ f.row.value = obs.value /\ obs.ts \in Days
      /\ \A d \in Days : history[obs.item][d] # NoRow => d < obs.ts
  BY <1>2, <1>3, NewFact, RowOfType DEF Entry
<1>5. PointOf(obs, cycle) \in R.frozen
  BY <1>1, <1>3
<1>6. ASSUME NEW y \in R.frozen, y.item = obs.item PROVE y.ts <= obs.ts
  <2>1. PICK o \in FlaggedOf(inputs, cycle) : y \in Series(o.item) \cup {PointOf(o, cycle)}
    BY <1>1
  <2>2. o.item = y.item
    BY <2>1 DEF Series, PointOf
  <2>3. o = obs
    BY <1>3, <1>6, <2>2 DEF FlaggedOf, FreshOf, Given
  <2>4. y = PointOf(obs, cycle) \/ \E d \in Dates(history[obs.item]) : y.ts = d
    BY <2>1, <2>3 DEF Series
  <2> QED
    BY <1>4, <2>4, Constants DEF PointOf, Dates
<1> DEFINE x == PointOf(obs, cycle)
<1>7. x.cycle = cycle /\ x.ts = obs.ts /\ x.value = obs.value /\ x.item = obs.item
  BY DEF PointOf
<1> HIDE DEF x
<1> QED
  BY <1>4, <1>5, <1>6, <1>7 DEF x

LEMMA CycleFrozenInv ==
  ASSUME TypeOK, CurrentInv, FrozenInv, NEW p \in Procs, NEW m \in Sources, NEW inputs, NEW cycle,
         NEW day \in Days, Given(inputs), RunCycle(p, m, inputs, cycle, day)
  PROVE  FrozenInv'
<1>1. cycle \in Cycles
  BY CycleRest
<1>2. /\ runs'[cycle] = ResultOf(m, inputs, cycle, day)
      /\ \A c \in Cycles : c # cycle => runs'[c] = runs[c]
  BY RunSaved
<1>3. Flagged(cycle, ResultOf(m, inputs, cycle, day), ResultOf(m, inputs, cycle, day).frozen)
  BY <1>1, ResultFlagged
<1>4. ASSUME NEW c \in Cycles, runs'[c] # NoRun PROVE Flagged(c, runs'[c], runs'[c].frozen)
  BY <1>2, <1>3, <1>4 DEF FrozenInv
<1>5. proc' = [proc EXCEPT ![p] = HandedOn(p, m, inputs, cycle, day)]
  BY CycleHands
<1>6. /\ HandedOn(p, m, inputs, cycle, day).at \in {"idle", "committed"}
      /\ HandedOn(p, m, inputs, cycle, day).at = "committed" =>
           /\ HandedOn(p, m, inputs, cycle, day).cycle = cycle
           /\ HandedOn(p, m, inputs, cycle, day).run = ResultOf(m, inputs, cycle, day)
  BY DEF HandedOn, Idle
<1>7. ASSUME NEW q \in Procs
      PROVE  /\ proc'[q].at = "committed" => Flagged(proc'[q].cycle, proc'[q].run, proc'[q].run.frozen)
             /\ proc'[q].at = "triage" => Flagged(proc'[q].cycle, proc'[q].run, proc'[q].series)
  <2>1. CASE q = p
    BY <1>3, <1>5, <1>6, <2>1 DEF TypeOK
  <2>2. CASE q # p
    BY <1>5, <2>2 DEF TypeOK, FrozenInv
  <2> QED
    BY <2>1, <2>2
<1> QED
  BY <1>4, <1>7 DEF FrozenInv, Flagged

-----------------------------------------------------------------------------
(* A decision keeps the invariants.                                        *)

\* What a decision about an item's review writes besides its effect.
Closes(i, x) ==
  /\ reviews[i] # NoReview /\ x.item = i /\ x.cycle = reviews[i].cycle /\ x.candidate = ReviewOf(i)
  /\ decisions' = decisions \cup {x} /\ reviews' = [reviews EXCEPT ![i] = NoReview]
  /\ UNCHANGED <<mode, runs, today, proc>>

LEMMA ReviewFacts ==
  ASSUME TypeOK, NEW i \in Items, reviews[i] # NoReview
  PROVE  /\ reviews[i] \in Reviews /\ ReviewOf(i) \in Offers /\ reviews[i].cycle \in Cycles
         /\ reviews[i].ts \in Days /\ reviews[i].value \in Int /\ reviews[i].def \in Defs
         /\ ReviewOf(i).ts = reviews[i].ts /\ ReviewOf(i).value = reviews[i].value
         /\ ReviewOf(i).def = reviews[i].def
BY DEF TypeOK, Reviews, Offers, ReviewOf

LEMMA DecisionType ==
  ASSUME TypeOK, NEW i \in Items, reviews[i] # NoReview, NEW action \in {"approve", "reject"},
         NEW k \in Items \cup {NoItem}
  PROVE  /\ Decision(i, action, k) \in Answers
         /\ Decision(i, action, k).item = i /\ Decision(i, action, k).cycle = reviews[i].cycle
         /\ Decision(i, action, k).candidate = ReviewOf(i)
         /\ Decision(i, action, k).action = action /\ Decision(i, action, k).replacement = k
BY ReviewFacts DEF Decision, Answers

\* The parts that no decision disturbs but by closing its review.
LEMMA ClosesRest ==
  ASSUME TypeOK, GapInv, FrozenInv, NEW i \in Items, NEW x \in Answers, Closes(i, x)
  PROVE  /\ reviews' \in [Items -> Reviews \cup {NoReview}] /\ decisions' \subseteq Answers
         /\ reviews'[i] = NoReview /\ \A j \in Items : j # i => reviews'[j] = reviews[j]
         /\ GapInv' /\ FrozenInv'
<1>1. reviews'[i] = NoReview /\ \A j \in Items : j # i => reviews'[j] = reviews[j]
  BY DEF Closes, TypeOK
<1>2. GapInv'
  BY DEF Closes, GapInv, GapAt
<1>3. FrozenInv'
  BY DEF Closes, FrozenInv, Flagged
<1> QED
  BY <1>1, <1>2, <1>3 DEF Closes, TypeOK

\* Decisions about other series leave the account of a series alone.
LEMMA SettledElse ==
  ASSUME NEW x, decisions' = decisions \cup {x}, NEW j, NEW d,
         x.action # "approve" \/ Decided(x) # j \/ x.candidate.ts # d
  PROVE  Settled(j, d)' = Settled(j, d)
BY DEF Settled, Decided

\* Waiting reviews of other items wait on.
LEMMA ClosesReviewInv ==
  ASSUME TypeOK, ReviewInv, NEW i \in Items, NEW x \in Answers, Closes(i, x),
         \A j \in Items : j # i /\ reviews[j] # NoReview =>
            history'[j] = history[j] /\ current'[j] = current[j] /\ retired'[j] = retired[j]
  PROVE  ReviewInv'
<1> SUFFICES ASSUME NEW j \in Items, reviews'[j] # NoReview PROVE Unanswered(j)'
  BY DEF ReviewInv
<1>1. j # i /\ reviews'[j] = reviews[j]
  BY DEF Closes, TypeOK
<1>2. Unanswered(j) /\ history'[j] = history[j] /\ current'[j] = current[j] /\ retired'[j] = retired[j]
  BY <1>1 DEF ReviewInv
<1>3. decisions' = decisions \cup {x} /\ x.item # j /\ runs' = runs
  BY <1>1 DEF Closes
<1>4. ReviewOf(j)' = ReviewOf(j)
  BY <1>1 DEF ReviewOf
<1> QED
  BY <1>1, <1>2, <1>3, <1>4 DEF Unanswered

LEMMA ClosesRetiredInv ==
  ASSUME TypeOK, ReviewInv, RetiredInv, NEW i \in Items, NEW x \in Answers, Closes(i, x),
         \A j \in Items : retired[j] # NoItem => retired'[j] # NoItem,
         x.replacement # NoItem => retired'[i] # NoItem
  PROVE  RetiredInv'
<1> SUFFICES ASSUME NEW y \in decisions', y.replacement # NoItem
             PROVE  /\ retired'[y.item] # NoItem
                    /\ \A c \in Cycles : c > y.cycle => \A f \in runs'[c].rows : f.item # y.item
  BY DEF RetiredInv
<1>1. runs' = runs /\ decisions' = decisions \cup {x}
  BY DEF Closes
<1>2. CASE y \in decisions
  BY <1>1, <1>2 DEF RetiredInv, TypeOK, Answers
<1>3. CASE y = x
  <2>1. Unanswered(i) /\ x.item = i /\ x.cycle = reviews[i].cycle
    BY DEF Closes, ReviewInv
  <2> QED
    BY <1>1, <1>3, <2>1 DEF Unanswered
<1> QED
  BY <1>1, <1>2, <1>3

\* What a rejection keeps.
LEMMA RejectStep ==
  ASSUME IInv, NEW i \in Items, Reject(i)
  PROVE  IInv'
<1> DEFINE x == Decision(i, "reject", NoItem)
<1>1. /\ TypeOK /\ CurrentInv /\ HistoryInv /\ CycleInv /\ GapInv
      /\ ReviewInv /\ RetiredInv /\ FrozenInv
  BY DEF IInv
<1>2. reviews[i] # NoReview
  BY DEF Reject
<1>3. /\ x \in Answers /\ x.item = i /\ x.cycle = reviews[i].cycle /\ x.candidate = ReviewOf(i)
      /\ x.action = "reject" /\ x.replacement = NoItem
  BY <1>1, <1>2, DecisionType
<1>4. Closes(i, x) /\ UNCHANGED <<history, current, retired>>
  BY <1>2, <1>3 DEF Reject, Close, Closes
<1> HIDE DEF x
<1>5. /\ reviews' \in [Items -> Reviews \cup {NoReview}] /\ decisions' \subseteq Answers
      /\ reviews'[i] = NoReview /\ \A j \in Items : j # i => reviews'[j] = reviews[j]
      /\ GapInv' /\ FrozenInv' /\ decisions' = decisions \cup {x} /\ UNCHANGED <<mode, runs, today, proc>>
  BY <1>1, <1>3, <1>4, ClosesRest DEF Closes
<1>6. TypeOK'
  BY <1>1, <1>4, <1>5 DEF TypeOK
<1>7. CurrentInv'
  BY <1>1, <1>4 DEF CurrentInv, CurrentIs
<1>8. HistoryInv'
  <2>1. ASSUME NEW j \in Items, NEW d \in Days, history'[j][d] # NoRow PROVE RowAccounted(j, d)'
    <3>1. Settled(j, d)' = Settled(j, d)
      BY <1>3, <1>5, SettledElse
    <3>2. RowAccounted(j, d)
      BY <1>1, <1>4, <2>1 DEF HistoryInv
    <3> QED
      BY <1>4, <1>5, <3>1, <3>2 DEF RowAccounted
  <2>2. ASSUME NEW y \in decisions' PROVE DecidedStands(y)'
    <3>1. CASE y \in decisions
      <4>1. DecidedStands(y) /\ Decided(y) \in Items
        BY <1>1, <3>1 DEF HistoryInv, TypeOK, Answers, Decided
      <4> QED
        BY <1>4, <1>5, <4>1 DEF DecidedStands, Decided
    <3>2. CASE y = x
      BY <1>3, <3>2 DEF DecidedStands
    <3> QED
      BY <1>5, <2>2, <3>1, <3>2
  <2> QED
    BY <2>1, <2>2 DEF HistoryInv
<1>9. CycleInv'
  <2>1. \A j \in Items : reviews'[j] # NoReview => runs[reviews'[j].cycle] # NoRun
    BY <1>1, <1>5 DEF CycleInv
  <2>2. \A y \in decisions' : runs[y.cycle] # NoRun
    BY <1>1, <1>2, <1>3, <1>5 DEF CycleInv
  <2> QED
    BY <1>1, <1>4, <1>5, <2>1, <2>2 DEF CycleInv
<1>10. ReviewInv'
  BY <1>1, <1>3, <1>4, ClosesReviewInv
<1>11. RetiredInv'
  BY <1>1, <1>3, <1>4, ClosesRetiredInv
<1> QED
  BY <1>5, <1>6, <1>7, <1>8, <1>9, <1>10, <1>11 DEF IInv

\* A corrected series has the corrected value at its date and the old values
\* elsewhere, and every row follows from the one before it.
Corrected(i, t, row, revision) == Recalculate([history[i] EXCEPT ![t] = row], t, revision)
Restates(rows, i, t, row) ==
  /\ rows \in [Days -> Rows \cup {NoRow}]
  /\ rows[t] # NoRow /\ rows[t].value = row.value /\ rows[t].def = row.def
  /\ rows[t].cycle = row.cycle
  /\ \A e \in Days : e # t =>
       /\ rows[e] = NoRow <=> history[i][e] = NoRow
       /\ rows[e] # NoRow => /\ rows[e].value = history[i][e].value
                             /\ rows[e].def = history[i][e].def
                             /\ rows[e].cycle = history[i][e].cycle
  /\ \A e \in Days : rows[e] # NoRow =>
       rows[e].status = Classify(Before(rows, e), rows[e].value, rows[e].def, FALSE)
LEMMA Restated ==
  ASSUME TypeOK, NEW i \in Items, NEW t \in Days, NEW row, row # NoRow, row.cycle \in Cycles,
         row.value \in Int, row.def \in Defs, NEW revision \in Cycles
  PROVE  Restates(Corrected(i, t, row, revision), i, t, row)
<1> DEFINE G == [history[i] EXCEPT ![t] = row]
           rows == Corrected(i, t, row, revision)
<1>1. G[t] = row /\ \A e \in Days : e # t => G[e] = history[i][e]
  BY DEF TypeOK
<1>2. \A e \in Days : G[e] # NoRow => G[e].cycle \in Cycles /\ G[e].value \in Int /\ G[e].def \in Defs
  <2> SUFFICES ASSUME NEW e \in Days, G[e] # NoRow
               PROVE  G[e].cycle \in Cycles /\ G[e].value \in Int /\ G[e].def \in Defs
    OBVIOUS
  <2>1. CASE e = t
    BY <1>1, <2>1
  <2>2. CASE e # t
    <3>1. history[i][e] \in Rows
      BY <1>1, <2>2 DEF TypeOK
    <3> QED
      BY <1>1, <2>2, <3>1 DEF Rows
  <2> QED
    BY <2>1, <2>2
<1>11. rows = Recalculate(G, t, revision)
  BY DEF Corrected
<1> HIDE DEF G, rows
<1>3. /\ rows = [e \in Days |-> rows[e]]
      /\ \A e \in Days : rows[e] = IF G[e] = NoRow THEN NoRow
           ELSE Calculate(G[e].cycle, G[e].value, G[e].def, Before(G, e), FALSE, revision)
  BY <1>11 DEF Recalculate
<1>4. ASSUME NEW e \in Days, G[e] # NoRow
      PROVE  /\ rows[e] \in Rows /\ rows[e] # NoRow /\ rows[e].value = G[e].value
             /\ rows[e].def = G[e].def /\ rows[e].cycle = G[e].cycle
             /\ rows[e].status = Classify(Before(G, e), G[e].value, G[e].def, FALSE)
  <2>1. rows[e] = Calculate(G[e].cycle, G[e].value, G[e].def, Before(G, e), FALSE, revision)
    BY <1>3, <1>4
  <2>2. rows[e] \in Rows /\ rows[e] # NoRow
    BY <1>2, <1>4, <2>1, CalculateType, Constants
  <2>3. /\ rows[e].cycle = G[e].cycle /\ rows[e].value = G[e].value /\ rows[e].def = G[e].def
        /\ rows[e].status = Classify(Before(G, e), G[e].value, G[e].def, FALSE)
    <3> DEFINE b == Before(G, e)
               g == G[e]
    <3>1. rows[e] = Calculate(g.cycle, g.value, g.def, b, FALSE, revision)
      BY <2>1
    <3> HIDE DEF b, g
    <3>2. /\ rows[e].cycle = g.cycle /\ rows[e].value = g.value /\ rows[e].def = g.def
          /\ rows[e].status = Classify(b, g.value, g.def, FALSE)
      BY <3>1 DEF Calculate
    <3> QED
      BY <3>2 DEF b, g
  <2> QED
    BY <2>2, <2>3
<1>5. ASSUME NEW e \in Days, G[e] = NoRow PROVE rows[e] = NoRow
  BY <1>3, <1>5
<1>6. \A e \in Days : (G[e] = NoRow <=> rows[e] = NoRow)
                      /\ (G[e] # NoRow => G[e].value = rows[e].value /\ G[e].def = rows[e].def)
  BY <1>4, <1>5
<1>7. ASSUME NEW e \in Days, rows[e] # NoRow
      PROVE  rows[e].status = Classify(Before(rows, e), rows[e].value, rows[e].def, FALSE)
  <2>1. G[e] # NoRow
    BY <1>5, <1>7
  <2>2. Classify(Before(G, e), G[e].value, G[e].def, FALSE)
          = Classify(Before(rows, e), G[e].value, G[e].def, FALSE)
    <3>1. /\ Before(G, e) = NoRow <=> Before(rows, e) = NoRow
          /\ Before(G, e).value = Before(rows, e).value /\ Before(G, e).def = Before(rows, e).def
      BY <1>6, SameBefore
    <3> QED
      BY <3>1 DEF Classify, Margin
  <2> QED
    BY <1>4, <2>1, <2>2
<1>8. rows \in [Days -> Rows \cup {NoRow}]
  BY <1>3, <1>4, <1>5
<1>9. rows[t] # NoRow /\ rows[t].value = row.value /\ rows[t].def = row.def /\ rows[t].cycle = row.cycle
  BY <1>1, <1>4
<1>10. \A e \in Days : e # t =>
         /\ rows[e] = NoRow <=> history[i][e] = NoRow
         /\ rows[e] # NoRow => /\ rows[e].value = history[i][e].value
                               /\ rows[e].def = history[i][e].def
                               /\ rows[e].cycle = history[i][e].cycle
  BY <1>1, <1>4, <1>5
<1> QED
  BY <1>7, <1>8, <1>9, <1>10 DEF rows, Restates

\* What an approval leaves: the decided value stands and every row is accounted.
LEMMA CorrectionEffect ==
  ASSUME IInv, NEW i \in Items, ApproveCorrection(i)
  PROVE  LET x == Decision(i, "approve", NoItem) t == reviews[i].ts IN
    /\ x \in Answers /\ Closes(i, x) /\ UNCHANGED retired
    /\ t \in Days /\ x.candidate.ts = t /\ x.action = "approve" /\ x.replacement = NoItem
    /\ history'[i] \in [Days -> Rows \cup {NoRow}]
    /\ history' = [history EXCEPT ![i] = history'[i]]
    /\ current' = [current EXCEPT ![i] = [ts |-> Max(Dates(history'[i])),
                                         row |-> history'[i][Max(Dates(history'[i]))]]]
    /\ history'[i][t] # NoRow /\ history'[i][t].value = x.candidate.value
    /\ history'[i][t].def = x.candidate.def
    /\ history'[i][t].cycle = x.cycle \/ (history[i][t] # NoRow /\ history'[i][t].cycle = history[i][t].cycle)
    /\ \A e \in Days : e # t =>
         /\ history'[i][e] = NoRow <=> history[i][e] = NoRow
         /\ history'[i][e] # NoRow => /\ history'[i][e].value = history[i][e].value
                                      /\ history'[i][e].def = history[i][e].def
                                      /\ history'[i][e].cycle = history[i][e].cycle
    /\ \A e \in Days : history'[i][e] # NoRow =>
         history'[i][e].status =
           Classify(Before(history'[i], e), history'[i][e].value, history'[i][e].def, FALSE)
<1> DEFINE x == Decision(i, "approve", NoItem)
           r == reviews[i]
           row == [NoRow EXCEPT !.value = r.value, !.def = r.def,
                     !.cycle = IF history[i][r.ts] = NoRow THEN r.cycle ELSE history[i][r.ts].cycle]
           rows == Recalculate([history[i] EXCEPT ![r.ts] = row], r.ts, r.cycle)
<1>1. TypeOK /\ r # NoReview
  BY DEF IInv, ApproveCorrection, Approvable
<1>2. /\ r.ts \in Days /\ r.value \in Int /\ r.def \in Defs /\ r.cycle \in Cycles
      /\ ReviewOf(i).ts = r.ts /\ ReviewOf(i).value = r.value /\ ReviewOf(i).def = r.def
  BY <1>1, ReviewFacts
<1>3. /\ x \in Answers /\ x.item = i /\ x.cycle = reviews[i].cycle /\ x.candidate = ReviewOf(i)
      /\ x.action = "approve" /\ x.replacement = NoItem
  BY <1>1, DecisionType
<1>4. Closes(i, x) /\ UNCHANGED retired
  BY <1>1, <1>3 DEF ApproveCorrection, Close, Closes
<1>5. /\ history' = [history EXCEPT ![i] = rows]
      /\ current' = [current EXCEPT ![i] = [ts |-> Max(Dates(rows)), row |-> rows[Max(Dates(rows))]]]
  BY DEF ApproveCorrection
<1>6. history[i][r.ts] # NoRow => history[i][r.ts].cycle \in Cycles
  BY <1>1, <1>2 DEF TypeOK, Rows
<1>7. /\ row.cycle = IF history[i][r.ts] = NoRow THEN r.cycle ELSE history[i][r.ts].cycle
      /\ row.value = r.value /\ row.def = r.def /\ row.cycle \in Cycles /\ row # NoRow
  <2>1. row.cycle \in Cycles /\ row.value = r.value /\ row.def = r.def
    BY <1>2, <1>6 DEF NoRow
  <2> HIDE DEF row
  <2>2. row # NoRow
    BY <2>1, Absent, Constants
  <2> QED
    BY <2>1, <2>2 DEF row, NoRow
<1> HIDE DEF row, x
<1>8. Restates(rows, i, r.ts, row)
  <2>1. Restates(Corrected(i, r.ts, row, r.cycle), i, r.ts, row)
    <3> HIDE DEF r
    <3> QED
      BY <1>1, <1>2, <1>7, Restated
  <2> QED
    BY <2>1 DEF Corrected
<1> HIDE DEF rows
<1>9. history'[i] = rows
  BY <1>1, <1>5 DEF TypeOK
<1> QED
  BY <1>2, <1>3, <1>4, <1>5, <1>7, <1>8, <1>9 DEF x, Restates

LEMMA CorrectionStep ==
  ASSUME IInv, NEW i \in Items, ApproveCorrection(i)
  PROVE  IInv'
<1> DEFINE x == Decision(i, "approve", NoItem)
           t == reviews[i].ts
           H == history'[i]
<1>1. /\ TypeOK /\ CurrentInv /\ HistoryInv /\ CycleInv /\ GapInv
      /\ ReviewInv /\ RetiredInv /\ FrozenInv
  BY DEF IInv
<1>2. /\ x \in Answers /\ Closes(i, x) /\ UNCHANGED retired
      /\ t \in Days /\ x.candidate.ts = t /\ x.action = "approve" /\ x.replacement = NoItem
      /\ H \in [Days -> Rows \cup {NoRow}]
      /\ history' = [history EXCEPT ![i] = H]
      /\ current' = [current EXCEPT ![i] = [ts |-> Max(Dates(H)), row |-> H[Max(Dates(H))]]]
      /\ H[t] # NoRow /\ H[t].value = x.candidate.value /\ H[t].def = x.candidate.def
      /\ H[t].cycle = x.cycle \/ (history[i][t] # NoRow /\ H[t].cycle = history[i][t].cycle)
      /\ \A e \in Days : e # t =>
           /\ H[e] = NoRow <=> history[i][e] = NoRow
           /\ H[e] # NoRow => /\ H[e].value = history[i][e].value
                              /\ H[e].def = history[i][e].def
                              /\ H[e].cycle = history[i][e].cycle
      /\ \A e \in Days : H[e] # NoRow =>
           H[e].status = Classify(Before(H, e), H[e].value, H[e].def, FALSE)
  BY CorrectionEffect
<1>3. reviews[i] # NoReview /\ x.item = i /\ x.cycle = reviews[i].cycle
  BY <1>2 DEF Closes
<1>4. Decided(x) = i
  BY <1>2, <1>3 DEF Decided
<1>5. history'[i] = H /\ \A j \in Items : j # i => history'[j] = history[j] /\ current'[j] = current[j]
  BY <1>1, <1>2 DEF TypeOK
<1> HIDE DEF x, H
<1>6. /\ reviews' \in [Items -> Reviews \cup {NoReview}] /\ decisions' \subseteq Answers
      /\ reviews'[i] = NoReview /\ \A j \in Items : j # i => reviews'[j] = reviews[j]
      /\ GapInv' /\ FrozenInv' /\ decisions' = decisions \cup {x} /\ UNCHANGED <<mode, runs, today, proc>>
  BY <1>1, <1>2, ClosesRest DEF Closes
<1>7. Dates(H) \in SUBSET Days /\ Dates(H) # {}
  BY <1>2 DEF Dates
<1>8. Max(Dates(H)) \in Days /\ H[Max(Dates(H))] \in Rows
  <2>1. Max(Dates(H)) \in Dates(H) /\ Max(Dates(H)) \in Days
    BY <1>7, LatestDay
  <2> QED
    BY <1>2, <2>1 DEF Dates
<1>9. TypeOK'
  <2>1. history' \in [Items -> [Days -> Rows \cup {NoRow}]]
    BY <1>1, <1>2 DEF TypeOK
  <2>2. current' \in [Items -> Currents \cup {NoCurrent}]
    BY <1>1, <1>2, <1>8 DEF TypeOK, Currents
  <2> QED
    BY <1>1, <1>2, <1>6, <2>1, <2>2 DEF TypeOK
<1>10. CurrentInv'
  <2> SUFFICES ASSUME NEW j \in Items PROVE CurrentIs(j)'
    BY DEF CurrentInv
  <2>1. CASE j = i
    <3>1. current'[i] = [ts |-> Max(Dates(H)), row |-> H[Max(Dates(H))]]
      BY <1>1, <1>2 DEF TypeOK
    <3> QED
      BY <1>5, <1>7, <2>1, <3>1 DEF CurrentIs
  <2>2. CASE j # i
    BY <1>1, <1>5, <2>2 DEF CurrentInv, CurrentIs
  <2> QED
    BY <2>1, <2>2
<1>11. HistoryInv'
  <2>1. ASSUME NEW j \in Items, NEW d \in Days, history'[j][d] # NoRow PROVE RowAccounted(j, d)'
    <3>1. CASE j = i /\ d = t
      <4>1. x \in Settled(i, d)'
        BY <1>2, <1>3, <1>6, <3>1 DEF Settled
      <4>2. ASSUME NEW y \in Settled(i, d)' PROVE y.cycle <= x.cycle
        <5>1. CASE y = x
          BY <1>2, <5>1, Constants DEF Answers
        <5>2. CASE y # x
          <6>1. y \in decisions /\ y.action = "approve" /\ Decided(y) = i
            BY <1>6, <4>2, <5>2 DEF Settled, Decided
          <6> QED
            BY <1>1, <1>3, <6>1 DEF HistoryInv, DecidedStands
        <5> QED
          BY <5>1, <5>2
      <4>3. H[d].status = Classify(Before(H, d), H[d].value, H[d].def, FALSE)
            /\ H[d].value = x.candidate.value /\ H[d].def = x.candidate.def
        BY <1>2, <3>1
      <4>4. history'[j] = H /\ Settled(j, d)' = Settled(i, d)'
        BY <1>5, <3>1
      <4> QED
        BY <4>1, <4>2, <4>3, <4>4 DEF RowAccounted
    <3>2. CASE ~(j = i /\ d = t)
      <4>1. Settled(j, d)' = Settled(j, d)
        BY <1>2, <1>4, <1>6, <3>2, SettledElse
      <4>2. CASE j = i
        <5>1. H[d] # NoRow /\ history[i][d] # NoRow /\ H[d].value = history[i][d].value
              /\ H[d].def = history[i][d].def /\ H[d].cycle = history[i][d].cycle
          BY <1>2, <1>5, <2>1, <3>2, <4>2
        <5>2. RowAccounted(i, d)
          BY <1>1, <5>1 DEF HistoryInv
        <5>3. H[d].status = Classify(Before(H, d), H[d].value, H[d].def, FALSE)
          BY <1>2, <5>1
        <5> QED
          BY <1>5, <1>6, <4>1, <4>2, <5>1, <5>2, <5>3 DEF RowAccounted
      <4>3. CASE j # i
        <5>1. RowAccounted(j, d) /\ history'[j] = history[j]
          BY <1>1, <1>5, <2>1, <4>3 DEF HistoryInv
        <5> QED
          BY <1>6, <4>1, <5>1 DEF RowAccounted
      <4> QED
        BY <4>2, <4>3
    <3> QED
      BY <3>1, <3>2
  <2>2. ASSUME NEW y \in decisions' PROVE DecidedStands(y)'
    <3>1. CASE y \in decisions
      <4>1. DecidedStands(y) /\ Decided(y) \in Items /\ y.candidate.ts \in Days
        BY <1>1, <3>1 DEF HistoryInv, TypeOK, Answers, Offers, Decided
      <4>2. \A d \in Days : history[Decided(y)][d] # NoRow => history'[Decided(y)][d] # NoRow
        BY <1>2, <1>5, <4>1
      <4>3. reviews'[Decided(y)] # NoReview => reviews'[Decided(y)] = reviews[Decided(y)]
        BY <1>6, <4>1
      <4> QED
        BY <4>1, <4>2, <4>3 DEF DecidedStands, Decided
    <3>2. CASE y = x
      BY <1>2, <1>4, <1>5, <1>6, <3>2 DEF DecidedStands, Decided
    <3> QED
      BY <1>6, <2>2, <3>1, <3>2
  <2> QED
    BY <2>1, <2>2 DEF HistoryInv
<1>12. CycleInv'
  <2>1. \A j \in Items : reviews'[j] # NoReview => runs[reviews'[j].cycle] # NoRun
    BY <1>1, <1>6 DEF CycleInv
  <2>2. \A y \in decisions' : runs[y.cycle] # NoRun
    BY <1>1, <1>3, <1>6 DEF CycleInv
  <2>3. ASSUME NEW j \in Items, NEW d \in Days, history'[j][d] # NoRow
        PROVE  runs[history'[j][d].cycle] # NoRun
    <3>1. CASE j # i
      BY <1>1, <1>5, <2>3, <3>1 DEF CycleInv
    <3>2. CASE j = i
      <4>1. H[d].cycle = x.cycle \/ (history[i][d] # NoRow /\ H[d].cycle = history[i][d].cycle)
        BY <1>2, <1>5, <2>3, <3>2
      <4> QED
        BY <1>1, <1>3, <1>5, <3>2, <4>1 DEF CycleInv
    <3> QED
      BY <3>1, <3>2
  <2> QED
    BY <1>1, <1>6, <2>1, <2>2, <2>3 DEF CycleInv
<1>13. ReviewInv'
  BY <1>1, <1>2, <1>5, ClosesReviewInv
<1>14. RetiredInv'
  BY <1>1, <1>2, ClosesRetiredInv
<1> QED
  BY <1>6, <1>9, <1>10, <1>11, <1>12, <1>13, <1>14 DEF IInv


\* Decision x on item i: the new series k starts at t with one row.
Restarts(i, k, x, t, row) ==
  /\ Closes(i, x) /\ k # i /\ x.replacement = k /\ x.action = "approve" /\ x.candidate.ts = t
  /\ reviews[k] = NoReview /\ retired[k] = NoItem /\ \A d \in Days : history[k][d] = NoRow
  /\ row # NoRow /\ history' = [history EXCEPT ![k][t] = row]
  /\ current' = [current EXCEPT ![k] = [ts |-> t, row |-> row]]
  /\ row.value = x.candidate.value /\ row.def = x.candidate.def /\ row.cycle = x.cycle
  /\ row.status = Classify(NoRow, row.value, row.def, FALSE)
  /\ retired' = [retired EXCEPT ![i] = k]

\* A replacement starts a series of its own with one row.
LEMMA DefinitionEffect ==
  ASSUME IInv, NEW i \in Items, NEW k \in Items, ApproveDefinition(i, k)
  PROVE  \E x \in Answers, t \in Days, row \in Rows : Restarts(i, k, x, t, row)
<1> DEFINE x == Decision(i, "approve", k)
           r == reviews[i]
           row == Calculate(r.cycle, r.value, r.def, NoRow, FALSE, r.cycle)
<1>1. TypeOK /\ r # NoReview /\ k # i
  BY DEF IInv, ApproveDefinition, Approvable
<1>2. /\ r.ts \in Days /\ r.value \in Int /\ r.def \in Defs /\ r.cycle \in Cycles
      /\ ReviewOf(i).ts = r.ts /\ ReviewOf(i).value = r.value /\ ReviewOf(i).def = r.def
  BY <1>1, ReviewFacts
<1>3. /\ x \in Answers /\ x.item = i /\ x.cycle = reviews[i].cycle /\ x.candidate = ReviewOf(i)
      /\ x.action = "approve" /\ x.replacement = k
  BY <1>1, DecisionType
<1>4. Closes(i, x)
  BY <1>1, <1>3 DEF ApproveDefinition, Close, Closes
<1>5. row \in Rows /\ row # NoRow
  BY <1>2, Constants, CalculateType
<1>6. row.value = r.value /\ row.def = r.def /\ row.cycle = r.cycle
      /\ row.status = Classify(NoRow, row.value, row.def, FALSE)
  BY DEF Calculate
<1>7. /\ history' = [history EXCEPT ![k][r.ts] = row]
      /\ current' = [current EXCEPT ![k] = [ts |-> r.ts, row |-> row]]
      /\ retired' = [retired EXCEPT ![i] = k]
  BY DEF ApproveDefinition
<1>8. reviews[k] = NoReview /\ retired[k] = NoItem /\ \A d \in Days : history[k][d] = NoRow
  BY DEF ApproveDefinition, Unused, Dates
<1> HIDE DEF row, x
<1>9. Restarts(i, k, x, r.ts, row)
  BY <1>1, <1>2, <1>3, <1>4, <1>5, <1>6, <1>7, <1>8 DEF Restarts
<1> QED
  BY <1>2, <1>3, <1>5, <1>9

LEMMA DefinitionStep ==
  ASSUME IInv, NEW i \in Items, NEW k \in Items, ApproveDefinition(i, k)
  PROVE  IInv'
<1>1. /\ TypeOK /\ CurrentInv /\ HistoryInv /\ CycleInv /\ GapInv
      /\ ReviewInv /\ RetiredInv /\ FrozenInv
  BY DEF IInv
<1>2. PICK x \in Answers, t \in Days, row \in Rows : Restarts(i, k, x, t, row)
  BY DefinitionEffect
<1>3. /\ Closes(i, x) /\ k # i /\ x.replacement = k /\ x.action = "approve" /\ x.candidate.ts = t
      /\ reviews[k] = NoReview /\ retired[k] = NoItem /\ \A d \in Days : history[k][d] = NoRow
      /\ retired' = [retired EXCEPT ![i] = k]
  BY <1>2 DEF Restarts
<1>4. /\ row # NoRow /\ history' = [history EXCEPT ![k][t] = row]
      /\ current' = [current EXCEPT ![k] = [ts |-> t, row |-> row]]
      /\ row.value = x.candidate.value /\ row.def = x.candidate.def /\ row.cycle = x.cycle
      /\ row.status = Classify(NoRow, row.value, row.def, FALSE)
  BY <1>2 DEF Restarts
<1>5. reviews[i] # NoReview /\ x.item = i /\ x.cycle = reviews[i].cycle /\ Decided(x) = k
  BY <1>3, Constants DEF Closes, Decided
<1>6. /\ history'[k][t] = row /\ \A d \in Days : d # t => history'[k][d] = NoRow
      /\ current'[k] = [ts |-> t, row |-> row]
      /\ \A j \in Items : j # k => history'[j] = history[j] /\ current'[j] = current[j]
      /\ retired'[i] = k /\ \A j \in Items : j # i => retired'[j] = retired[j]
  BY <1>1, <1>3, <1>4 DEF TypeOK
<1>7. /\ reviews' \in [Items -> Reviews \cup {NoReview}] /\ decisions' \subseteq Answers
      /\ reviews'[i] = NoReview /\ \A j \in Items : j # i => reviews'[j] = reviews[j]
      /\ GapInv' /\ FrozenInv' /\ decisions' = decisions \cup {x} /\ UNCHANGED <<mode, runs, today, proc>>
  BY <1>1, <1>3, ClosesRest DEF Closes
<1>8. TypeOK'
  <2>1. history' \in [Items -> [Days -> Rows \cup {NoRow}]]
    BY <1>1, <1>4 DEF TypeOK
  <2>2. current' \in [Items -> Currents \cup {NoCurrent}]
    BY <1>1, <1>4 DEF TypeOK, Currents
  <2> QED
    BY <1>1, <1>3, <1>7, <2>1, <2>2 DEF TypeOK
<1>9. Before(history'[k], t) = NoRow
  <2>1. Earlier(history'[k], t) = {}
    BY <1>6, Constants DEF Earlier
  <2> QED
    BY <2>1 DEF Before
<1>10. CurrentInv'
  <2> SUFFICES ASSUME NEW j \in Items PROVE CurrentIs(j)'
    BY DEF CurrentInv
  <2>1. CASE j = k
    <3>1. Dates(history'[k]) = {t}
      BY <1>4, <1>6 DEF Dates
    <3>2. Max(Dates(history'[k])) = t
      BY <3>1, LatestIs, Constants
    <3> QED
      BY <1>6, <2>1, <3>1, <3>2 DEF CurrentIs
  <2>2. CASE j # k
    BY <1>1, <1>6, <2>2 DEF CurrentInv, CurrentIs
  <2> QED
    BY <2>1, <2>2
<1>11. HistoryInv'
  <2>1. ASSUME NEW j \in Items, NEW d \in Days, history'[j][d] # NoRow PROVE RowAccounted(j, d)'
    <3>1. CASE j = k
      <4>1. d = t
        BY <1>6, <2>1, <3>1
      <4>2. Settled(k, t)' = {x}
        <5>1. x \in Settled(k, t)'
          BY <1>3, <1>5, <1>7 DEF Settled, Decided
        <5>2. ASSUME NEW y \in Settled(k, t)' PROVE y = x
          <6> SUFFICES ASSUME y # x PROVE FALSE
            OBVIOUS
          <6>1. y \in decisions /\ y.action = "approve" /\ Decided(y) = k /\ y.candidate.ts = t
            BY <1>7, <5>2 DEF Settled, Decided
          <6> QED
            BY <1>1, <1>3, <6>1 DEF HistoryInv, DecidedStands
        <5> QED
          BY <5>1, <5>2
      <4>3. x.cycle <= x.cycle
        BY <1>3, Constants DEF Answers
      <4>4. /\ history'[j][d] = row /\ Before(history'[j], d) = NoRow /\ Settled(j, d)' = {x}
        BY <1>6, <1>9, <3>1, <4>1, <4>2
      <4>5. \A y \in {x} : y.cycle <= x.cycle
        BY <4>3
      <4> QED
        BY <1>4, <4>4, <4>5 DEF RowAccounted
    <3>2. CASE j # k
      <4>1. Settled(j, d)' = Settled(j, d)
        BY <1>5, <1>7, <3>2, SettledElse
      <4>2. RowAccounted(j, d) /\ history'[j] = history[j]
        BY <1>1, <1>6, <2>1, <3>2 DEF HistoryInv
      <4> QED
        BY <1>7, <4>1, <4>2 DEF RowAccounted
    <3> QED
      BY <3>1, <3>2
  <2>2. ASSUME NEW y \in decisions' PROVE DecidedStands(y)'
    <3>1. CASE y \in decisions
      <4>1. DecidedStands(y) /\ Decided(y) \in Items /\ y.candidate.ts \in Days
        BY <1>1, <3>1 DEF HistoryInv, TypeOK, Answers, Offers, Decided
      <4>2. y.action = "approve" => Decided(y) # k
        BY <1>3, <4>1 DEF DecidedStands
      <4>3. y.action = "approve" => history'[Decided(y)] = history[Decided(y)]
        BY <1>6, <4>1, <4>2
      <4>4. reviews'[Decided(y)] # NoReview => reviews'[Decided(y)] = reviews[Decided(y)]
        BY <1>7, <4>1
      <4> QED
        BY <4>1, <4>3, <4>4 DEF DecidedStands, Decided
    <3>2. CASE y = x
      <4>1. history'[k][t] # NoRow /\ reviews'[k] = NoReview
        BY <1>3, <1>4, <1>6, <1>7
      <4> QED
        BY <1>3, <1>5, <3>2, <4>1 DEF DecidedStands, Decided
    <3> QED
      BY <1>7, <2>2, <3>1, <3>2
  <2> QED
    BY <2>1, <2>2 DEF HistoryInv
<1>12. CycleInv'
  <2>1. \A j \in Items : reviews'[j] # NoReview => runs[reviews'[j].cycle] # NoRun
    BY <1>1, <1>7 DEF CycleInv
  <2>2. \A y \in decisions' : runs[y.cycle] # NoRun
    BY <1>1, <1>5, <1>7 DEF CycleInv
  <2>3. ASSUME NEW j \in Items, NEW d \in Days, history'[j][d] # NoRow
        PROVE  runs[history'[j][d].cycle] # NoRun
    <3>1. CASE j # k
      BY <1>1, <1>6, <2>3, <3>1 DEF CycleInv
    <3>2. CASE j = k
      BY <1>1, <1>4, <1>5, <1>6, <2>3, <3>2 DEF CycleInv
    <3> QED
      BY <3>1, <3>2
  <2> QED
    BY <1>1, <1>7, <2>1, <2>2, <2>3 DEF CycleInv
<1>13. ReviewInv'
  BY <1>1, <1>3, <1>6, ClosesReviewInv
<1>14. RetiredInv'
  BY <1>1, <1>3, <1>6, ClosesRetiredInv, Constants
<1> QED
  BY <1>7, <1>8, <1>10, <1>11, <1>12, <1>13, <1>14 DEF IInv

-----------------------------------------------------------------------------
(* The invariant and what follows from it.                                 *)

Cycled(p) == LiveCycle(p) \/ FixtureCycle(p)
Quiet(p)  == Fetch(p) \/ Abandon(p) \/ Triage(p) \/ RetryTriage(p)

LEMMA CycleStep ==
  ASSUME IInv, NEW p \in Procs, Cycled(p)
  PROVE  IInv'
<1>1. /\ TypeOK /\ CurrentInv /\ HistoryInv /\ CycleInv /\ GapInv
      /\ ReviewInv /\ RetiredInv /\ FrozenInv
  BY DEF IInv
<1>2. ASSUME NEW m \in Sources, NEW inputs, NEW cycle, NEW day \in Days, Given(inputs),
             RunCycle(p, m, inputs, cycle, day)
      PROVE  IInv'
  <2>1. TypeOK'
    BY <1>1, <1>2, CycleType
  <2>2. CurrentInv'
    BY <1>1, <1>2, CycleCurrentInv
  <2>3. HistoryInv'
    BY <1>1, <1>2, CycleHistoryInv
  <2>4. CycleInv'
    BY <1>1, <1>2, CycleCycleInv
  <2>5. GapInv'
    BY <1>1, <1>2, CycleGapInv
  <2>6. ReviewInv'
    BY <1>1, <1>2, CycleReviewInv
  <2>7. RetiredInv'
    BY <1>1, <1>2, CycleRetiredInv
  <2>8. FrozenInv'
    BY <1>1, <1>2, CycleFrozenInv
  <2> QED
    BY <2>1, <2>2, <2>3, <2>4, <2>5, <2>6, <2>7, <2>8 DEF IInv
<1>3. CASE LiveCycle(p)
  <2>1. PICK w \in Profiles, s \in Snapshots, cycle \in Cycles :
          RunCycle(p, "yfinance", Watched(w, s, proc[p].day), cycle, proc[p].day)
    BY <1>3 DEF LiveCycle
  <2>2. PICK day \in Days : day = proc[p].day
    BY <1>1, <1>3 DEF LiveCycle, TypeOK
  <2>3. RunCycle(p, "yfinance", Watched(w, s, day), cycle, day)
    BY <2>1, <2>2
  <2>4. Given(Watched(w, s, day)) /\ "yfinance" \in Sources
    BY WatchedGiven DEF Sources
  <2> QED
    BY <1>2, <2>3, <2>4
<1>4. CASE FixtureCycle(p)
  <2>1. PICK w \in Profiles, s \in Snapshots, cycle \in Cycles \cap Days :
          RunCycle(p, "bundled_fixtures", Watched(w, s, cycle), cycle, cycle)
    BY <1>4 DEF FixtureCycle
  <2>2. Given(Watched(w, s, cycle)) /\ "bundled_fixtures" \in Sources /\ cycle \in Days
    BY WatchedGiven DEF Sources
  <2> QED
    BY <1>2, <2>1, <2>2
<1> QED
  BY <1>3, <1>4 DEF Cycled

\* What leaves the database alone only has to agree with what it read.
LEMMA QuietStep ==
  ASSUME IInv, UNCHANGED db, TypeOK', FrozenInv'
  PROVE  IInv'
<1>1. /\ CurrentInv /\ HistoryInv /\ CycleInv /\ GapInv /\ ReviewInv /\ RetiredInv
      /\ UNCHANGED <<mode, history, current, reviews, decisions, retired, runs>>
  BY DEF IInv, db
<1>2. CurrentInv' /\ GapInv'
  BY <1>1 DEF CurrentInv, CurrentIs, GapInv, GapAt
<1>3. HistoryInv'
  <2>1. ASSUME NEW i \in Items, NEW d \in Days, history'[i][d] # NoRow PROVE RowAccounted(i, d)'
    <3>1. Settled(i, d)' = Settled(i, d)
      BY <1>1 DEF Settled
    <3>2. RowAccounted(i, d)
      BY <1>1, <2>1 DEF HistoryInv
    <3> QED
      BY <1>1, <3>1, <3>2 DEF RowAccounted
  <2>2. ASSUME NEW x \in decisions' PROVE DecidedStands(x)'
    <3>1. DecidedStands(x)
      BY <1>1, <2>2 DEF HistoryInv
    <3> QED
      BY <1>1, <3>1 DEF DecidedStands, Decided
  <2> QED
    BY <2>1, <2>2 DEF HistoryInv
<1>4. CycleInv' /\ RetiredInv'
  BY <1>1 DEF CycleInv, RetiredInv
<1>5. ReviewInv'
  BY <1>1 DEF ReviewInv, Unanswered, ReviewOf
<1> QED
  BY <1>2, <1>3, <1>4, <1>5 DEF IInv

LEMMA ReadStep ==
  ASSUME IInv, NEW p \in Procs, Quiet(p)
  PROVE  IInv'
<1>1. TypeOK /\ FrozenInv
  BY DEF IInv
<1>2. PICK x \in Readers :
        /\ proc' = [proc EXCEPT ![p] = x] /\ UNCHANGED <<db, today>>
        /\ x.at = "fetched" => x.day \in Days
        /\ x.at # "committed" /\ x.at = "triage" => Flagged(x.cycle, x.run, x.series)
        /\ x.at # "committed"
  <2>1. CASE Fetch(p)
    <3> DEFINE x == [Idle EXCEPT !.at = "fetched", !.day = today]
    <3>1. x \in Readers /\ x.at = "fetched" /\ x.day \in Days
      BY <1>1 DEF TypeOK, Idle, Readers
    <3>2. proc' = [proc EXCEPT ![p] = x] /\ UNCHANGED <<db, today>>
      BY <2>1 DEF Fetch
    <3> HIDE DEF x
    <3> QED
      BY <3>1, <3>2
  <2>2. CASE Abandon(p)
    BY <2>2, IdleType DEF Abandon, Idle
  <2>3. CASE Triage(p)
    <3> DEFINE x == [proc[p] EXCEPT !.at = "triage", !.series = Snapshot(proc[p].run)]
    <3>1. proc[p] \in Readers /\ proc[p].at = "committed"
          /\ Flagged(proc[p].cycle, proc[p].run, proc[p].run.frozen)
      BY <1>1, <2>3 DEF Triage, TypeOK, FrozenInv
    <3>2. proc[p].run.frozen \subseteq Points
      BY <3>1 DEF Readers, Runs, NoRun
    <3>3. x \in Readers /\ x.at = "triage" /\ x.cycle = proc[p].cycle /\ x.run = proc[p].run
          /\ x.series = proc[p].run.frozen
      BY <3>1, <3>2 DEF Readers, Snapshot
    <3>4. proc' = [proc EXCEPT ![p] = x] /\ UNCHANGED <<db, today>>
      BY <1>1, <2>3 DEF Triage, TypeOK
    <3> HIDE DEF x
    <3> QED
      BY <3>1, <3>3, <3>4
  <2>4. CASE RetryTriage(p)
    <3>1. PICK c \in Cycles :
            /\ runs[c].surfaced # {}
            /\ proc' = [proc EXCEPT ![p] = [Idle EXCEPT !.at = "triage", !.cycle = c,
                                            !.run = runs[c], !.series = Snapshot(runs[c])]]
      BY <2>4 DEF RetryTriage
    <3> DEFINE x == [Idle EXCEPT !.at = "triage", !.cycle = c, !.run = runs[c],
                                 !.series = Snapshot(runs[c])]
    <3>2. runs[c] \in Runs /\ runs[c] # NoRun /\ Flagged(c, runs[c], runs[c].frozen)
      BY <1>1, <3>1 DEF TypeOK, FrozenInv, NoRun
    <3>3. x \in Readers /\ x.at = "triage" /\ x.cycle = c /\ x.run = runs[c]
          /\ x.series = runs[c].frozen
      BY <3>2, IdleType DEF Idle, Readers, Snapshot, Runs
    <3>4. proc' = [proc EXCEPT ![p] = x] /\ UNCHANGED <<db, today>>
      BY <2>4, <3>1 DEF RetryTriage
    <3> HIDE DEF x
    <3> QED
      BY <3>2, <3>3, <3>4
  <2> QED
    BY <2>1, <2>2, <2>3, <2>4 DEF Quiet
<1>3. UNCHANGED <<mode, history, current, reviews, decisions, retired, runs, today>>
  BY <1>2 DEF db
<1>4. TypeOK'
  BY <1>1, <1>2, <1>3 DEF TypeOK
<1>5. FrozenInv'
  <2>1. ASSUME NEW q \in Procs
        PROVE  /\ proc'[q].at = "committed" => Flagged(proc'[q].cycle, proc'[q].run, proc'[q].run.frozen)
               /\ proc'[q].at = "triage" => Flagged(proc'[q].cycle, proc'[q].run, proc'[q].series)
    <3>1. CASE q = p
      BY <1>1, <1>2, <3>1 DEF TypeOK
    <3>2. CASE q # p
      BY <1>1, <1>2, <3>2 DEF TypeOK, FrozenInv
    <3> QED
      BY <3>1, <3>2
  <2> QED
    BY <1>1, <1>3, <2>1 DEF FrozenInv, Flagged
<1> QED
  BY <1>2, <1>4, <1>5, QuietStep

LEMMA IInvInit == Init => IInv
<1> SUFFICES ASSUME Init PROVE IInv
  OBVIOUS
<1>1. 1 \in Days
  BY MonitorAssumption DEF Days
<1>2. TypeOK
  BY <1>1, IdleType DEF Init, TypeOK, Idle
<1>3. CurrentInv
  BY DEF Init, CurrentInv, CurrentIs, Dates
<1>4. HistoryInv /\ CycleInv /\ GapInv /\ ReviewInv /\ RetiredInv
  BY DEF Init, HistoryInv, CycleInv, GapInv, GapAt, ReviewInv, RetiredInv
<1>5. FrozenInv
  BY DEF Init, FrozenInv, Idle
<1> QED
  BY <1>2, <1>3, <1>4, <1>5 DEF IInv

LEMMA IInvNext == IInv /\ [Next]_vars => IInv'
<1> SUFFICES ASSUME IInv, [Next]_vars PROVE IInv'
  OBVIOUS
<1>1. ASSUME NEW p \in Procs, Cycle(p) PROVE IInv'
  BY <1>1, CycleStep, ReadStep DEF Cycle, Cycled, Quiet
<1>2. ASSUME NEW i \in Items, Review(i) PROVE IInv'
  BY <1>2, RejectStep, CorrectionStep, DefinitionStep DEF Review
<1>3. CASE Tick
  <2>1. UNCHANGED <<mode, history, current, reviews, decisions, retired, runs, proc>> /\ today' \in Days
    BY <1>3, Constants, MonitorAssumption DEF Tick, db, IInv, TypeOK, Days
  <2>2. TypeOK' /\ FrozenInv' /\ UNCHANGED db
    BY <2>1 DEF IInv, TypeOK, FrozenInv, Flagged, db
  <2> QED
    BY <2>2, QuietStep
<1>4. CASE UNCHANGED vars
  <2>1. UNCHANGED <<mode, history, current, reviews, decisions, retired, runs, proc, today>>
    BY <1>4 DEF vars, db
  <2>2. TypeOK' /\ FrozenInv' /\ UNCHANGED db
    BY <2>1 DEF IInv, TypeOK, FrozenInv, Flagged, db
  <2> QED
    BY <2>2, QuietStep
<1> QED
  BY <1>1, <1>2, <1>3, <1>4 DEF Next

\* What the database, the waiting reviews and every command may rely on,
\* whatever else runs between the openings of the store (scheduler/cycle.py).
THEOREM IInvariant == Spec => []IInv
BY IInvInit, IInvNext, PTL DEF Spec

\* Every value of the effective history is accounted for by the cycle that
\* saved it or the last decision about it, and classified after the one before
\* it (state/store.py, state/classify.py).
THEOREM HistoryIsAccounted == Spec => []HistoryAccounted
<1>1. IInv => HistoryAccounted
  <2> SUFFICES ASSUME IInv PROVE HistoryAccounted
    OBVIOUS
  <2>1. \A i \in Items : \A d \in Dates(history[i]) : RowAccounted(i, d)
    BY DEF IInv, HistoryInv, Dates
  <2>2. \A i \in Items : CurrentIs(i)
    BY DEF IInv, CurrentInv
  <2>3. \A c \in Cycles : runs[c] # NoRun => runs[c].mode = mode /\ GapAt(c)
    BY DEF IInv, CycleInv, GapInv
  <2> QED
    BY <2>1, <2>2, <2>3 DEF HistoryAccounted, CurrentIs, GapAt
<1> QED
  BY <1>1, IInvariant, PTL

\* A waiting review is a question that nobody answered, and a retired series
\* gets no row from a later cycle (monitoring/recovery.py).
THEOREM DecisionsAreRespected == Spec => []DecisionsRespected
<1>1. IInv => DecisionsRespected
  BY DEF IInv, ReviewInv, Unanswered, RetiredInv, DecisionsRespected
<1> QED
  BY <1>1, IInvariant, PTL

\* Triage reads what its cycle flagged, whatever was corrected since
\* (HistorySnapshot.from_cycle).
THEOREM TriageReadsItsCycle == Spec => []TriageOnOwnEvidence
<1>1. IInv => TriageOnOwnEvidence
  BY DEF IInv, FrozenInv, Flagged, TriageOnOwnEvidence
<1> QED
  BY <1>1, IInvariant, PTL


\* Once retired, a series is out of reach of every cycle and every decision,
\* also of a cycle that fetched before and of a watchlist that still names it
\* (monitoring/live_data.py, recovery.py).
RetiredStands ==
  \A i \in Items : retired[i] # NoItem =>
    /\ retired'[i] = retired[i] /\ history'[i] = history[i] /\ current'[i] = current[i]
    /\ reviews'[i] = reviews[i] /\ reviews[i] = NoReview

LEMMA CycleRetiredStands ==
  ASSUME IInv, NEW p, NEW m, NEW inputs, NEW cycle, NEW day, Given(inputs),
         RunCycle(p, m, inputs, cycle, day), NEW i \in Items, retired[i] # NoItem
  PROVE  history'[i] = history[i] /\ current'[i] = current[i] /\ reviews'[i] = reviews[i]
<1>1. TypeOK /\ CurrentInv
  BY DEF IInv
<1>2. ~Written(RowsOf(inputs, cycle), i)
  <2> SUFFICES ASSUME NEW obs \in FreshOf(inputs), Entry(obs, cycle).item = i PROVE FALSE
    BY DEF Written, RowsOf
  <2>1. obs \in Facts /\ Disposition(obs) = "new" /\ obs.item = i
    BY DEF FreshOf, Given, Entry
  <2> QED
    BY <1>1, <2>1, NewFact
<1>3. ~Written(HeldOf(inputs), i)
  <2> SUFFICES ASSUME NEW obs \in HeldOf(inputs), obs.item = i PROVE FALSE
    BY DEF Written
  <2>1. obs \in Facts /\ Disposition(obs) \in Held
    BY DEF HeldOf, Given
  <2> QED
    BY <1>1, <2>1, HeldFact
<1> QED
  BY <1>2, <1>3, CycleHistory, CycleCurrent, CycleHeld

THEOREM RetiredSeriesStand == Spec => [][RetiredStands]_vars
<1>1. ASSUME IInv, [Next]_vars PROVE RetiredStands
  <2> SUFFICES ASSUME NEW i \in Items, retired[i] # NoItem
               PROVE  /\ retired'[i] = retired[i] /\ history'[i] = history[i]
                      /\ current'[i] = current[i] /\ reviews'[i] = reviews[i]
    BY <1>1 DEF RetiredStands, IInv, ReviewInv, Unanswered
  <2>1. TypeOK /\ reviews[i] = NoReview
    BY <1>1 DEF IInv, ReviewInv, Unanswered
  <2>2. ASSUME NEW p \in Procs, LiveCycle(p) \/ FixtureCycle(p)
        PROVE  /\ history'[i] = history[i] /\ current'[i] = current[i] /\ reviews'[i] = reviews[i]
               /\ UNCHANGED retired
    <3>1. PICK m, inputs, cycle, day : Given(inputs) /\ RunCycle(p, m, inputs, cycle, day)
      <4>1. CASE LiveCycle(p)
        <5>1. proc[p].day \in Days
          BY <2>1, <4>1 DEF LiveCycle, TypeOK
        <5> QED
          BY <4>1, <5>1, WatchedGiven DEF LiveCycle
      <4>2. CASE FixtureCycle(p)
        BY <4>2, WatchedGiven DEF FixtureCycle
      <4> QED
        BY <2>2, <4>1, <4>2
    <3> QED
      BY <1>1, <3>1, CycleRetiredStands, CycleRest
  <2>3. ASSUME NEW p \in Procs, Quiet(p) PROVE UNCHANGED <<history, current, reviews, retired>>
    BY <2>3 DEF Quiet, Fetch, Abandon, Triage, RetryTriage, db
  <2>4. ASSUME NEW j \in Items, Reject(j) \/ ApproveCorrection(j)
        PROVE  /\ j # i /\ UNCHANGED retired
               /\ history'[i] = history[i] /\ current'[i] = current[i] /\ reviews'[i] = reviews[i]
    BY <2>1, <2>4 DEF Reject, ApproveCorrection, Approvable, Close, TypeOK
  <2>5. ASSUME NEW j \in Items, NEW k \in Items, ApproveDefinition(j, k)
        PROVE  /\ retired'[i] = retired[i]
               /\ history'[i] = history[i] /\ current'[i] = current[i] /\ reviews'[i] = reviews[i]
    <3>1. j # i /\ k # i
      BY <2>1, <2>5 DEF ApproveDefinition, Approvable, Unused
    <3> QED
      BY <2>1, <2>5, <3>1 DEF ApproveDefinition, Close, TypeOK
  <2>6. CASE Tick \/ UNCHANGED vars
    BY <2>6 DEF Tick, vars, db
  <2> QED
    BY <1>1, <2>2, <2>3, <2>4, <2>5, <2>6 DEF Next, Cycle, Review, Quiet
<1>2. IInv /\ [Next]_vars => [RetiredStands]_vars
  BY <1>1
<1> QED
  BY <1>2, IInvariant, PTL DEF Spec

=============================================================================
