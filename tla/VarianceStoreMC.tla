--------------------------- MODULE VarianceStoreMC ---------------------------
(* VarianceStore on a small instance: quarters of two years, a result of   *)
(* sales less costs, costs being wages less rebates.  The original close   *)
(* of r1 comes in variants whose histories the diagnostics tell apart; two *)
(* corrections compete, a later close follows, another entity reports the  *)
(* same accounts, and some requests collide on a label or a run ID.        *)
EXTENDS VarianceStore

TestNodes == {"profit", "sales", "costs", "wages", "rebates"}
TestParent == [n \in TestNodes \ {"profit"} |-> IF n \in {"sales", "costs"} THEN "profit" ELSE "costs"]
TestSign == [n \in TestNodes \ {"profit"} |-> IF n = "sales" \/ n = "wages" THEN 1 ELSE -1]

TestLeaves == {"sales", "wages", "rebates"}
Plan == [sales |-> 1000, wages |-> 600, rebates |-> 20]
Budget(label) == [version |-> label, rows |-> [k \in TestLeaves \X (1..6) |-> Plan[k[1]]]]
\* Sales above plan, by period: a held shift, a second high period, and one
\* that is as planned.
Above(shape) ==
  CASE shape = "shift" -> <<-2, 4, 50, 55, 52, 60>>
    [] shape = "again" -> <<-2, -4, -1, 60, 55, 3>>
    [] shape = "calm"  -> <<2, 4, 1, 3, 2, 1>>
Delta(label, shape, keys) ==
  [version |-> label,
   rows |-> [k \in keys |-> Plan[k[1]] + IF k[1] = "sales" THEN Above(shape)[k[2]] ELSE k[2] % 2]]
Through(p) == TestLeaves \X (1..p)
Close(run, entity, close, supersedes, budget, actuals) ==
  [run |-> run, entity |-> entity, close |-> close, supersedes |-> supersedes,
   budget |-> budget, actuals |-> actuals]
TestRequests ==
  [shift |-> Close("r1", "X", 5, "none", Budget("b"), Delta("a1", "shift", Through(5))),
   fix   |-> Close("r2", "X", 5, "r1", Budget("b"), Delta("a2", "again", {<<"sales", 4>>, <<"sales", 5>>})),
   rival |-> Close("r3", "X", 5, "r1", Budget("b2"), Delta("a3", "calm", {<<"sales", 5>>})),
   later |-> Close("r3", "X", 6, "none", Budget("b"), Delta("a4", "shift", TestLeaves \X {6})),
   other |-> Close("r4", "Y", 5, "none", Budget("by"),
                   Delta("ay", "calm", Through(5) \ {<<"wages", 3>>}))]
Symmetric == Permutations(Threads)

\* The drivers of a line and of a basket of two, over small factors and
\* volumes: none is refused for its residual, and a whole tolerance is used.
Sides(top) == [factor : 0..top, volume : 0..top]
ASSUME LinesTie ==
  \A budget, actual \in Sides(4), convention \in Conventions :
    LET split == Decompose([type |-> "revenue", budget |-> budget, actual |-> actual], convention)
    IN  ~split.refused /\ split.total = split.drivers.factor + split.drivers.volume + split.residual
ASSUME ToleranceUsed ==
  \E budget, actual \in Sides(4), convention \in Conventions :
    Abs(Residual(budget, actual, convention)) = Tolerance
ASSUME BasketsTie ==
  \A basket \in [{"one", "two"} -> [budget : Sides(1), actual : Sides(2)]] :
    Basket("revenue", basket).refused = (Volume(basket, "budget") = 0)
=============================================================================
