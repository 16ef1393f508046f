------------------------------ MODULE MCCosts -------------------------------
(* Costs on a small instance; Expenses keep their ids, budgets their scopes. *)
EXTENDS Costs, TLC

CONSTANTS e1, e2, s1, X, Y, d1, d2, b1, b2, b3, u1, r1, r2

MCShapes ==
  {[bearer |-> X, delegation |-> d1, frequency |-> "ONE_TIME", dateIncurred |-> 2, dateStart |-> None, dateEnd |-> None],
   [bearer |-> Y, delegation |-> d2, frequency |-> "QUARTERLY", dateIncurred |-> 2, dateStart |-> 1, dateEnd |-> None]}

MCSplits == {[t \in {} |-> 0], [t \in {Y} |-> 50]}

MCGenerated ==
  [k \in Kinds |->
     [bearer |-> X, delegation |-> d1, frequency |-> IF k = "link" THEN "MONTHLY" ELSE "ONE_TIME",
      dateIncurred |-> 2, dateStart |-> IF k = "link" THEN 2 ELSE None, dateEnd |-> None]]

\* Of a delegation, of a cost centre, and of the whole tenant.
MCDrafts ==
  [b \in Budgets |->
     [delegation |-> IF b = b1 THEN d1 ELSE None, centre |-> IF b = b2 THEN Y ELSE None,
      startDate |-> 0, endDate |-> IF b = b2 THEN 3 ELSE 5, alertThresholdPct |-> 80]]

MCExisting == [b \in Budgets |-> IF b = b1 THEN [amount |-> 4, parent |-> None] ELSE
                                 IF b = b2 THEN [amount |-> 2, parent |-> None] ELSE None]

MCManages == [u \in Users |-> Budgets]

MCAmount == {-4, 0, 4}

MCReportDates == 0..7

\* Ids and requests are interchangeable.
MCSymmetry == Permutations(Ids) \cup Permutations(Calls)
=============================================================================
