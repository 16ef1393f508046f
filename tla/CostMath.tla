------------------------------ MODULE CostMath ------------------------------
(***************************************************************************)
(* The arithmetic of costs (budgets/budgets.service.ts and the monthly     *)
(* report of expenses/expenses.service.ts): what one expense weighs in a   *)
(* budget, and which expenses a budget counts.                             *)
(*                                                                         *)
(* A date is a number of half months, so that two dates of one month can   *)
(* still differ; money is in twelfths of a unit, so that a yearly and a    *)
(* quarterly price have exact monthly shares. The filters on the site and  *)
(* on the type of an expense have the shape of the one on its delegation   *)
(* and are left out.                                                       *)
(***************************************************************************)
EXTENDS Integers, FiniteSets, FiniteSetsExt

CONSTANTS None,   \* a null column
          Keep    \* a field that a request leaves out

Month(d) == d \div 2

\* An expense: totalAmount, bearer, delegation, frequency, dateIncurred,
\* dateStart, dateEnd, and allocations as [target -> [percentage, amount]].
\* A budget: delegation, centre (billingEntityId), startDate, endDate, amount,
\* alertThresholdPct, parent.

(* frequencyFactor, in twelfths. *)
Factor(frequency) ==
  CASE frequency = "MONTHLY"   -> 12
    [] frequency = "QUARTERLY" -> 4
    [] frequency = "YEARLY"    -> 1
    [] OTHER                   -> 0

\* Mutant: the month of the start does not count.
MonthsBetweenShort(start, end) == Max({1, Month(end) - Month(start)})

(* monthsBetween *)
MonthsBetween(start, end) == Max({1, Month(end) - Month(start) + 1})

(* monthsForRecurring: a missing date is that of the window. *)
MonthsForRecurring(x, start, end) ==
  LET from == IF x.dateStart # None /\ x.dateStart > start THEN x.dateStart ELSE start
      to   == IF x.dateEnd # None /\ x.dateEnd < end THEN x.dateEnd ELSE end
  IN IF from > to THEN 0 ELSE MonthsBetween(from, to)

(* How many twelfths of its amount an expense weighs in a window. *)
Weight(x, start, end) ==
  IF x.frequency = "ONE_TIME" THEN 12
  ELSE Factor(x.frequency) * MonthsForRecurring(x, start, end)

Targets(x) == DOMAIN x.allocations
PercentOut(x) == SumFunction([t \in Targets(x) |-> x.allocations[t].percentage])

\* Mutant: the bearer keeps what it passes on.
ContributionGross(x, c) ==
  (IF x.bearer = c THEN x.totalAmount ELSE 0) + (IF c \in Targets(x) THEN x.allocations[c].amount ELSE 0)

(* expenseContributionForCdc: the net part the bearer keeps, and what a
   target received. *)
Contribution(x, c) ==
  LET kept     == IF x.bearer = c THEN (x.totalAmount * Max({0, 100 - PercentOut(x)})) \div 100 ELSE 0
      received == IF c \in Targets(x) THEN x.allocations[c].amount ELSE 0
  IN kept + received

Touches(x, c) == x.bearer = c \/ c \in Targets(x)
InWindow(x, b) == b.startDate <= x.dateIncurred /\ x.dateIncurred <= b.endDate

(* What a budget has spent among the expenses of ids: computeCdcSpent for the
   budget of a cost centre, which ignores the delegation, and
   computeDelegationSpent otherwise; their Sync forms are the same on rows
   fetched before. *)
Spent(b, rows, ids) ==
  LET share(x)   == IF b.centre # None THEN Contribution(x, b.centre) ELSE x.totalAmount
      counts(x)  == IF b.centre # None THEN Touches(x, b.centre) ELSE b.delegation \in {None, x.delegation}
      counted    == {i \in ids : InWindow(rows[i], b) /\ counts(rows[i])}
  IN SumFunction([i \in counted |-> share(rows[i]) * Weight(rows[i], b.startDate, b.endDate)])

(* progressPct of getStatus: Math.round of the share spent. *)
Progress(b, spent) == IF b.amount > 0 THEN (200 * spent + 12 * b.amount) \div (24 * b.amount) ELSE 0
ThresholdReached(b, spent) == Progress(b, spent) >= b.alertThresholdPct

\* Mutant: the cost centres an expense is passed on to are forgotten.
CandidatesOfBearer(x, budgets, ids) ==
  {b \in ids : /\ InWindow(x, budgets[b])
              /\ IF budgets[b].centre = None THEN budgets[b].delegation \in {None, x.delegation}
                 ELSE budgets[b].centre = x.bearer}

(* The budgets an expense may push over, read by checkThresholdsForExpense:
   those of its delegation, and those of the cost centres it touches. *)
Candidates(x, budgets, ids) ==
  {b \in ids :
     /\ InWindow(x, budgets[b])
     /\ IF budgets[b].centre = None
        THEN budgets[b].delegation \in {None, x.delegation}
        ELSE Touches(x, budgets[b].centre)}

\* Mutant: a tenant-wide budget adds no expense of its own.
PrefetchedByScope(candidates, budgets, rows, ids) ==
  {i \in ids : \E b \in candidates :
     /\ InWindow(rows[i], budgets[b])
     /\ rows[i].delegation = budgets[b].delegation \/ Touches(rows[i], budgets[b].centre)}

(* The one query that fetches the expenses of all candidates. *)
Prefetched(candidates, budgets, rows, ids) ==
  LET centres == {budgets[b].centre : b \in candidates} \ {None}
      plain   == {b \in candidates : budgets[b].centre = None}
      global  == \E b \in plain : budgets[b].delegation = None
      own     == {budgets[b].delegation : b \in plain} \ {None}
  IN {i \in ids :
        \* between the first startDate and the last endDate
        /\ \E b \in candidates : budgets[b].startDate <= rows[i].dateIncurred
        /\ \E b \in candidates : rows[i].dateIncurred <= budgets[b].endDate
        /\ \/ global
           \/ rows[i].delegation \in own
           \/ \E c \in centres : Touches(rows[i], c)}

(* reportByMonth: what an expense adds to the months of a period, the sum of
   one row of the SQL query per month it is active in. *)
ReportedByMonth(x, from, to) ==
  IF x.dateIncurred < from \/ x.dateIncurred > to THEN 0
  ELSE IF x.frequency = "ONE_TIME" THEN 12 * x.totalAmount
  ELSE LET first == IF x.dateStart = None THEN Month(x.dateIncurred) ELSE Month(x.dateStart)
           months == {m \in Month(from)..Month(to) :
                        first <= m /\ (x.dateEnd # None => m <= Month(x.dateEnd))}
       IN Cardinality(months) * Factor(x.frequency) * x.totalAmount
=============================================================================
