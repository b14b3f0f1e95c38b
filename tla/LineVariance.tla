---------------------------- MODULE LineVariance ----------------------------
(***************************************************************************)
(* The drivers of one line's variance (agent4/decomposition.py): spending  *)
(* of an amount, price and volume of a quantity, and mix of a basket of    *)
(* products.  Each effect is rounded to cents by itself, so what the       *)
(* drivers leave over is a residual, which must stay within a tolerance.   *)
(* Factors and volumes are naturals: they are decimals of at most twelve   *)
(* places, so there is a Unit in which they, and their products, are       *)
(* whole.  The 64-bit range, names and context are left out.               *)
(***************************************************************************)
EXTENDS Integers, FiniteSets, FiniteSetsExt

CONSTANT Unit   \* how much of a factor times a volume is one cent

ASSUME UnitAssumption == Unit \in Nat \ {0}

Abs(x) == IF x < 0 THEN -x ELSE x
SumOver(S, f(_)) == MapThenSumSet(f, S)
\* round(Fraction(a, b)): half to even.
Round(a, b) ==
  LET n == IF b < 0 THEN -a ELSE a
      d == Abs(b)
      q == n \div d
      r == 2 * (n % d)
  IN  IF r < d \/ (r = d /\ q % 2 = 0) THEN q ELSE q + 1
\* money: an exact value, once rounded.
Money(x) == Round(x, Unit)

LineTypes   == {"revenue", "variable_cost", "fixed_cost"}
Conventions == {"sequential", "symmetric"}
\* normalize_line: both sides are an amount, or both a factor and a volume,
\* which a fixed cost has not.
AmountSides == [amount : Int]
Quantities  == [factor : Nat, volume : Nat]
WellFormed(line) ==
  /\ line.type \in LineTypes
  /\ \/ line.budget \in AmountSides /\ line.actual \in AmountSides
     \/ line.type # "fixed_cost" /\ line.budget \in Quantities /\ line.actual \in Quantities

Favourable(type, variance) ==
  variance = 0 \/ IF type = "revenue" THEN variance > 0 ELSE variance < 0

-----------------------------------------------------------------------------
(* One line.                                                               *)

Spending(budget, actual) == actual - budget
\* _decompose_amount_line: nothing is known of it but the amounts.
AmountLine(line) ==
  LET total == Spending(line.budget.amount, line.actual.amount)
  IN  [refused |-> FALSE, total |-> total, favourable |-> Favourable(line.type, total),
       drivers |-> [spending |-> total], residual |-> 0]

Extended(side) == Money(side.factor * side.volume)
Variance(budget, actual) == Extended(actual) - Extended(budget)
\* What both changes together are worth.
Joint(budget, actual) == Money((actual.factor - budget.factor) * (actual.volume - budget.volume))
\* Sequential: volume at the budget's factor, the factor at the actual volume.
\* Symmetric: each at the budget's other, and half of the joint term.
Drivers(budget, actual, convention) ==
  LET moved == actual.factor - budget.factor
      volume == Money((actual.volume - budget.volume) * budget.factor)
      half == Joint(budget, actual) \div 2
  IN  IF convention = "sequential"
      THEN [factor |-> Money(moved * actual.volume), volume |-> volume]
      ELSE [factor |-> Money(moved * budget.volume) + half,
            volume |-> volume + Joint(budget, actual) - half]
Residual(budget, actual, convention) ==
  LET drivers == Drivers(budget, actual, convention)
  IN  Variance(budget, actual) - (drivers.factor + drivers.volume)
Tolerance == 2   \* rounding_tolerance_cents of a line

\* _decompose_pv: the split, or a refusal when too much is left over.  The
\* joint term is pointed out when it is a twentieth of what moved.
Split(line, convention) ==
  LET drivers == Drivers(line.budget, line.actual, convention)
      total == Variance(line.budget, line.actual)
      residual == Residual(line.budget, line.actual, convention)
      joint == Joint(line.budget, line.actual)
      moved == Abs(drivers.factor) + Abs(drivers.volume)
  IN  IF Abs(residual) > Tolerance THEN [refused |-> TRUE]
      ELSE [refused |-> FALSE, total |-> total, favourable |-> Favourable(line.type, total),
            drivers |-> drivers, residual |-> residual,
            surfaced |-> /\ convention = "sequential" /\ joint # 0
                         /\ 20 * Abs(joint) >= Max({1, moved})]

Decompose(line, convention) ==
  IF "amount" \in DOMAIN line.budget THEN AmountLine(line) ELSE Split(line, convention)

-----------------------------------------------------------------------------
(* A basket of products, by name.                                          *)

Volume(basket, side) == SumOver(DOMAIN basket, LAMBDA x : basket[x][side].volume)
\* One product's share: at the budget's mix the volume of the whole basket
\* changes it by "volume", the shift of the mix by "mix".
Effects(product, planned, sold) ==
  LET budget == product.budget
      actual == product.actual
  IN  [factor |-> Money((actual.factor - budget.factor) * actual.volume),
       volume |-> Round((sold - planned) * budget.volume * budget.factor, Unit * planned),
       mix |-> Round((actual.volume * planned - sold * budget.volume) * budget.factor,
                     Unit * planned)]
ProductResidual(product, planned, sold) ==
  LET effects == Effects(product, planned, sold)
  IN  Variance(product.budget, product.actual) - (effects.factor + effects.volume + effects.mix)
ProductTolerance == 3   \* of a basket, for each product

\* decompose_multiproduct, of the sequential convention only.
Basket(type, basket) ==
  LET planned == Volume(basket, "budget")
      sold == Volume(basket, "actual")
      Total(driver) == SumOver(DOMAIN basket, LAMBDA x : Effects(basket[x], planned, sold)[driver])
      total == SumOver(DOMAIN basket, LAMBDA x : Variance(basket[x].budget, basket[x].actual))
      residual == total - (Total("factor") + Total("volume") + Total("mix"))
  IN  IF \/ type = "fixed_cost" \/ DOMAIN basket = {} \/ planned = 0
         \/ Abs(residual) > ProductTolerance * Cardinality(DOMAIN basket)
      THEN [refused |-> TRUE]
      ELSE [refused |-> FALSE, total |-> total, favourable |-> Favourable(type, total),
            drivers |-> [driver \in {"factor", "volume", "mix"} |-> Total(driver)],
            residual |-> residual]
=============================================================================
