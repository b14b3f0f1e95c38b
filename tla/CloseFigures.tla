---------------------------- MODULE CloseFigures ----------------------------
(***************************************************************************)
(* The figures of an Agent 4 close (agent4/close.py, hierarchy.py,         *)
(* materiality.py, history.py, persistence.py, reforecast.py,              *)
(* commentary.py): from a budget panel and an actuals panel to the signed  *)
(* roll-up of the accounts, their review priorities, forecasts and         *)
(* claims.  Amounts are integer cents; the 64-bit range, text and layout   *)
(* are left out, and of a probability only its side of one half is kept.   *)
(***************************************************************************)
EXTENDS LineVariance, TLC

CONSTANTS Nodes, Root,  \* the account tree
          Parent, Sign, \* of every node but the root: sign 1 adds, -1 subtracts
          Measure,      \* root_measure
          NPeriods,     \* bound: reporting periods, numbered
          PerYear,      \* periods of a year
          MinObs,       \* _MIN_OBS: 6
          ZLines        \* classify_variance's z_flag in tenths: 35 + 10 ln(leaves)

\* _validate_tree: every node but the root has a sign and one parent, and no
\* group of nodes hangs below itself alone.
ValidTree ==
  /\ Root \in Nodes /\ IsFiniteSet(Nodes)
  /\ Parent \in [Nodes \ {Root} -> Nodes] /\ Sign \in [Nodes \ {Root} -> {1, -1}]
  /\ \A S \in SUBSET (Nodes \ {Root}) : S # {} => \E n \in S : Parent[n] \notin S

ASSUME TreeAssumption ==
  /\ ValidTree /\ Measure \in {"profit", "revenue", "cost"}
  /\ NPeriods \in Nat \ {0} /\ PerYear \in Nat \ {0} /\ NPeriods % PerYear = 0
  /\ MinObs \in Nat \ {0} /\ ZLines \in Nat

Periods == 1..NPeriods
Children(n) == {c \in Nodes \ {Root} : Parent[c] = n}
Leaves == {n \in Nodes : Children(n) = {}}
Keys   == Leaves \X Periods                       \* observations of a panel
Annual(close) == {p \in Periods : (p - 1) \div PerYear = (close - 1) \div PerYear}

SignOf(x) == IF x > 0 THEN 1 ELSE IF x < 0 THEN -1 ELSE 0
\* f itself, evaluated once.
Whole(f) == CHOOSE g \in {f} : g = f
\* Twice the median of a series, whole when the median is not.
Median2(series) ==
  LET s == Whole(series)
      n == Cardinality(DOMAIN s)
      Kth(k) == CHOOSE v \in {s[i] : i \in DOMAIN s} :
                  /\ Cardinality({i \in DOMAIN s : s[i] < v}) < k
                  /\ k <= Cardinality({i \in DOMAIN s : s[i] <= v})
  IN  Kth((n + 1) \div 2) + Kth(n \div 2 + 1)


-----------------------------------------------------------------------------
(* Panels and the roll-up.                                                 *)

\* _totals: every node's amount from those of the leaves.
Totals(panel, period) ==
  LET total[n \in Nodes] ==
        IF n \in Leaves THEN panel[<<n, period>>]
        ELSE SumOver(Children(n), LAMBDA c : Sign[c] * total[c])
  IN  Whole(total)

\* sign_toward_profit, handed down the tree.
Toward == LET toward[n \in Nodes] ==
                IF n = Root THEN (IF Measure = "cost" THEN -1 ELSE 1)
                ELSE toward[Parent[n]] * Sign[n]
          IN  toward

\* Prior periods that a close compares with, and those it sets aside.
Candidates(actual, close) == {k[2] : k \in {x \in DOMAIN actual : x[2] < close}}
History(budget, actual, close) ==
  {p \in Candidates(actual, close) :
     \A l \in Leaves : <<l, p>> \in DOMAIN actual /\ <<l, p>> \in DOMAIN budget}
Gaps(history, close) == \E p \in history : p + 1 \notin history \cup {close}

-----------------------------------------------------------------------------
(* Diagnostics.                                                            *)

\* anomaly_significance_check of the value at "last", z in tenths.
Break(series, last, z) ==
  LET prior == Whole([p \in DOMAIN series \ {last} |-> series[p]])
      n     == Cardinality(DOMAIN prior)
      mid   == Median2(prior)
      far   == Abs(2 * series[last] - mid)
      mad   == Median2([p \in DOMAIN prior |-> Abs(2 * prior[p] - mid)])
      total == SumOver(DOMAIN prior, LAMBDA p : prior[p])
      spread == n * SumOver(DOMAIN prior, LAMBDA p : prior[p] * prior[p]) - total * total
      beyond == IF mad > 0 THEN 13490 * far > 1000 * z * mad
                ELSE IF spread = 0 THEN far > 0
                ELSE 25 * n * n * far * far > z * z * spread
  IN  IF n < MinObs THEN "unknown" ELSE IF beyond THEN "yes" ELSE "no"

\* Is an account's current variance a break from its own?  Asked once with a
\* line for the number of accounts, once with the plain one.
Significance(series, close, gaps) == IF gaps THEN "unknown" ELSE Break(series, close, ZLines)
Shifted(series, close) == Break(series, close, 35) = "yes"

\* classify_persistence.
Persistence(series, close, gaps) ==
  LET n     == Cardinality(DOMAIN series)
      Latest(k) == {p \in DOMAIN series : Cardinality({q \in DOMAIN series : q >= p}) <= k}
      usual == Median2([q \in DOMAIN series |-> Abs(series[q])])
      Held(p) == /\ SignOf(series[p]) = SignOf(series[close]) /\ series[close] # 0
                 /\ 20 * Abs(series[p]) >= 3 * Max({2 * Abs(series[close]), usual})
      run   == Max({k \in 0..n : \A p \in Latest(k) : Held(p)})
      recent == Latest(Min({6, n}))
      same  == {p \in recent : SignOf(series[p]) = SignOf(series[close])}
  IN  CASE gaps -> "UNKNOWN"
        [] ~gaps /\ n < MinObs + 1 -> "INSUFFICIENT_HISTORY"
        [] OTHER ->
           IF run >= 3 /\ 10 * Cardinality(same) >= 6 * Cardinality(recent) THEN "STRUCTURAL"
           ELSE IF Shifted(series, close) /\ run = 2 THEN "AMBIGUOUS" ELSE "ONE_OFF"

\* _is_material: a floor of 0.5 % of the base, or a tenth of the own budget
\* above 0.05 % of it.
MaterialityBase(budget) ==
  Max({Abs(budget[c]) : c \in IF Children(Root) = {} THEN {Root} ELSE Children(Root)})
Material(variance, own, base) ==
  \/ Abs(variance) >= Max({1, (5 * base) \div 1000})
  \/ own # 0 /\ 10 * Abs(variance) >= Abs(own) /\ Abs(variance) >= Max({1, (5 * base) \div 10000})

Quadrant(material, significant) ==
  IF significant = "unknown" THEN IF material THEN "MATERIAL_SIG_NC" ELSE "IMMATERIAL_SIG_NC"
  ELSE IF material THEN IF significant = "yes" THEN "TOP_PRIORITY" ELSE "EXPECTED_VOLATILITY"
  ELSE IF significant = "yes" THEN "EARLY_WARNING" ELSE "NOISE"

-----------------------------------------------------------------------------
(* Forecasts.                                                              *)

\* _project, with phasing and without a trend.
Projected(ytd, full, toDate) == Round(full * ytd, toDate)

\* _calculate, as a close calls it: where the year lands, and on which side of
\* the target the probability leans, if there is one.
Forecast(ytd, phasing, elapsed, series, toward, persistence) ==
  LET full   == SumOver(DOMAIN phasing, LAMBDA p : phasing[p])
      toDate == SumOver(elapsed, LAMBDA p : phasing[p])
      closed == elapsed = DOMAIN phasing
      oneOff == persistence = "ONE_OFF"
      held   == toDate = 0 /\ ~closed /\ ~oneOff
      landing == IF closed THEN ytd ELSE IF held THEN 0
                 ELSE IF oneOff THEN ytd + full - toDate ELSE Projected(ytd, full, toDate)
      flat   == \A p, q \in DOMAIN series : series[p] = series[q]
      side   == IF toward * (landing - full) >= 0 THEN "yes" ELSE "no"
      hit    == IF closed THEN side
                ELSE IF held \/ flat \/ Cardinality(DOMAIN series) < MinObs THEN "unavailable"
                ELSE IF landing = full THEN "even" ELSE side
  IN  [landing |-> landing, target |-> full, ytd |-> ytd, closed |-> closed, held |-> held,
       hit |-> hit]
\* reforecast: what of it is published, and as what.
Publishable(forecast, persistence) ==
  LET silent == persistence \in {"UNKNOWN", "INSUFFICIENT_HISTORY"}
      As(status, hit) ==
        [landing |-> forecast.landing, target |-> forecast.target, ytd |-> forecast.ytd,
         published |-> status, hit |-> hit]
  IN  CASE forecast.held -> As("held_invalid_inputs", "unavailable")
        [] forecast.closed -> As("deterministic", forecast.hit)
        [] OTHER -> IF silent \/ forecast.hit = "unavailable" THEN As("point_only", "unavailable")
                    ELSE As("model_estimate", forecast.hit)

-----------------------------------------------------------------------------
(* The report of a close.                                                  *)

\* rollup and the closing loop over its nodes.
Accounts(budget, actual, close) ==
  LET history == History(budget, actual, close)
      gaps    == Gaps(history, close)
      elapsed == {p \in Annual(close) : p <= close}
      planned == Whole([p \in history \cup Annual(close) |-> Totals(budget, p)])
      booked  == Whole([p \in history \cup elapsed |-> Totals(actual, p)])
      base    == MaterialityBase(planned[close])
      rolled[n \in Nodes] ==
        IF n \in Leaves THEN Spending(budget[<<n, close>>], actual[<<n, close>>])
        ELSE SumOver(Children(n), LAMBDA c : Sign[c] * rolled[c])
      \* an account's variances, by period, the current one last
      Series(n) == Whole([p \in history \cup {close} |-> booked[p][n] - planned[p][n]])
      Account(n, series, significant, persistence) ==
        [budget |-> planned[close][n], actual |-> booked[close][n], variance |-> rolled[n],
         impact |-> Toward[n] * rolled[n], favourable |-> Toward[n] * rolled[n] >= 0,
         quadrant |-> Quadrant(Material(rolled[n], planned[close][n], base), significant),
         persistence |-> persistence,
         forecast |-> Publishable(Forecast(SumOver(elapsed, LAMBDA p : booked[p][n]),
                                           [p \in Annual(close) |-> planned[p][n]],
                                           elapsed, series, Toward[n], persistence),
                                  persistence)]
  IN  [n \in Nodes |->
         LET series == Series(n)
         IN  Account(n, series, Significance(series, close, gaps),
                     Persistence(series, close, gaps))]

\* validate_result: the identities of every account, checked before a pack is
\* written and again before a saved one is shown.
Reconciles(accounts) ==
  \A n \in Nodes :
    LET account == accounts[n]
        Below(amount) == SumOver(Children(n), LAMBDA c : Sign[c] * accounts[c][amount])
    IN  /\ account.variance = account.actual - account.budget
        /\ account.impact = Toward[n] * account.variance
        /\ account.favourable = (account.impact >= 0)
        /\ n \in Leaves \/ /\ account.budget = Below("budget")
                           /\ account.actual = Below("actual")

Review == {"TOP_PRIORITY", "EARLY_WARNING", "MATERIAL_SIG_NC"}   \* shown for review
\* _claims: every account gets the same accounting, classification,
\* persistence and forecast sentences; a cause is only asked for, of these.
Claims(accounts) == {n \in Nodes : accounts[n].quadrant \in {"TOP_PRIORITY", "EARLY_WARNING"}}

BoardPack(budget, actual, close) ==
  LET accounts == Accounts(budget, actual, close)
  IN  [accounts |-> accounts, claims |-> Claims(accounts)]
=============================================================================
