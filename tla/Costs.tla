------------------------------- MODULE Costs --------------------------------
(***************************************************************************)
(* Expenses and budgets together: a change of an expense sets off a check  *)
(* of the budgets it may push over (checkThresholdsForExpense), which runs *)
(* beside later requests and leaves rows in the inboxes of the managers.   *)
(* One day is modelled: the day after, a budget may be announced again.    *)
(***************************************************************************)
EXTENDS Expenses, BudgetTree

CONSTANTS Users,        \* users that may be told of a budget
          Manages,      \* [Users -> set of budgets]: managers of its delegation, and administrators
          MaxLost,      \* bound: checks that fail
          MaxRequests,  \* bound: requests of both kinds in a behaviour
          ReportDates   \* bound: the dates of ReportAgrees

ASSUME DatesAssumption == ReportDates \subseteq Int /\ None \notin ReportDates
ASSUME LostAssumption == MaxLost \in Nat

VARIABLES running,      \* checks begun: [about, rows, phase, todo, at], todo the pairs to tell
          inbox,        \* [Budgets \X Users -> rows of type BUDGET_THRESHOLD today]
          lost,         \* checks that failed
          unannounced,  \* history: budgets that crossed by a change that sets off no check
          met           \* history: budgets announced by two checks at once

checkVars == <<running, inbox, lost>>
vars == <<expenseVars, budgetVars, checkVars, unannounced, met>>

SpentNow(b) == Spent(budget[b], expense, Rows)
Reached == {b \in Live : ThresholdReached(budget[b], SpentNow(b))}

Init ==
  /\ ExpenseInit /\ BudgetInit
  /\ running = {}
  /\ inbox = [bu \in Budgets \X Users |-> 0]
  /\ lost = 0
  /\ unannounced = Reached /\ met = {}

\* Budgets that are written while a check goes on with the row it read before.
Outdated == {b \in Budgets : /\ budget'[b] # budget[b]
                             /\ \E k \in running : k.phase = "read" /\ b \in DOMAIN k.rows}

\* Budgets that a step sets off no check of: all of them where it changes no
\* expense or none it has checked, and those that a credit leaves.
Credit(row) == row.totalAmount < 0 \/ \E t \in Targets(row) : row.allocations[t].amount < 0
Missed ==
  {b \in Budgets : \A x \in Ids :
     expense'[x] # expense[x] /\ expense'[x] \in pending' =>
       x \in Rows /\ Credit(expense[x]) /\ b \notin Candidates(expense'[x], budget, Live)}

\* A budget that crosses by a step without a check of it, or is over when it is
\* written under one, is unannounced until it is under its threshold again.
Account ==
  unannounced' = (unannounced \cap Reached') \cup (Missed \cap (Reached' \ Reached))
                   \cup (Reached' \cap Outdated)

ExpenseStep == /\ ExpenseNext
               /\ ops' + bops <= MaxRequests
               /\ running' = IF crashes' = crashes THEN running ELSE {}   \* a restart loses the checks
               /\ bcall' = IF crashes' = crashes THEN bcall ELSE [r \in BudgetCalls |-> None]
               /\ UNCHANGED <<budget, bops, loosened, inbox, lost, met>>
               /\ Account
BudgetStep == /\ BudgetNext
              /\ ops + bops' <= MaxRequests
              /\ UNCHANGED <<expenseVars, checkVars, met>>
              /\ Account

(* checkThresholdsForExpense: reads the candidate budgets. *)
BeginCheck(k) ==
  LET cands == Candidates(k, budget, Live) IN
  /\ k \in pending
  /\ pending' = pending \ {k}
  /\ running' = IF cands = {} THEN running
                ELSE running \cup {[about |-> k, rows |-> [b \in cands |-> budget[b]], phase |-> "read", todo |-> {}, at |-> None]}
  /\ UNCHANGED <<expense, source, call, ops, crashes, repriced, origin, orphaned, retouched,
                 budgetVars, inbox, lost, unannounced, met>>

(* One query for the expenses of all candidates; then those over their
   threshold, on the rows read before, are announced. *)
ReadExpenses(k) ==
  LET found == Prefetched(DOMAIN k.rows, k.rows, expense, Rows)
      over  == {b \in DOMAIN k.rows : ThresholdReached(k.rows[b], Spent(k.rows[b], expense, found))}
      todo  == {bu \in over \X Users : bu[1] \in Manages[bu[2]]}
  IN
  /\ k \in running /\ k.phase = "read"
  /\ running' = (running \ {k}) \cup (IF todo = {} THEN {} ELSE {[k EXCEPT !.phase = "tell", !.todo = todo]})
  /\ met' = met \cup {bu[1] : bu \in todo \cap UNION {j.todo : j \in running}}
  /\ UNCHANGED <<expenseVars, budgetVars, inbox, lost, unannounced>>

\* Mutant: a row of today is not looked for.
LookAway(k, bu) ==
  /\ k \in running /\ k.phase = "tell" /\ k.at = None
  /\ bu \in k.todo
  /\ running' = (running \ {k}) \cup {[k EXCEPT !.at = bu]}
  /\ UNCHANGED <<expenseVars, budgetVars, inbox, lost, unannounced, met>>

(* notifyThresholdCrossed: looks for a row of today, and goes on to the next
   recipient if there is one. *)
Look(k, bu) ==
  /\ k \in running /\ k.phase = "tell" /\ k.at = None
  /\ bu \in k.todo
  /\ running' = (running \ {k}) \cup
       (IF inbox[bu] = 0 THEN {[k EXCEPT !.at = bu]}
        ELSE IF k.todo = {bu} THEN {} ELSE {[k EXCEPT !.todo = @ \ {bu}]})
  /\ UNCHANGED <<expenseVars, budgetVars, inbox, lost, unannounced, met>>

(* ... and adds one otherwise. *)
Tell(k) ==
  /\ k \in running /\ k.phase = "tell" /\ k.at # None
  /\ inbox' = [inbox EXCEPT ![k.at] = @ + 1]
  /\ running' = (running \ {k}) \cup
       (IF k.todo = {k.at} THEN {} ELSE {[k EXCEPT !.at = None, !.todo = @ \ {k.at}]})
  /\ UNCHANGED <<expenseVars, budgetVars, lost, unannounced, met>>

(* A query of a check fails: before the loop over the budgets the check ends,
   in it the rest of that budget's recipients are passed over. *)
LoseCheck(k) ==
  /\ k \in running
  /\ lost < MaxLost
  /\ lost' = lost + 1
  /\ \/ /\ k.phase = "read"
        /\ running' = running \ {k}
     \/ \E bu \in IF k.at = None THEN k.todo ELSE {k.at} :
          LET rest == {o \in k.todo : o[1] # bu[1]} IN
          running' = (running \ {k}) \cup (IF rest = {} THEN {} ELSE {[k EXCEPT !.at = None, !.todo = rest]})
  /\ UNCHANGED <<expenseVars, budgetVars, inbox, unannounced, met>>

Next ==
  \/ ExpenseStep
  \/ BudgetStep
  \/ \E k \in pending : BeginCheck(k)
  \/ \E k \in running : ReadExpenses(k) \/ Tell(k) \/ LoseCheck(k)
  \/ \E k \in running : \E bu \in k.todo : Look(k, bu)

Spec == Init /\ [][Next]_vars
-----------------------------------------------------------------------------
TypeOK ==
  /\ ExpenseTypeOK /\ BudgetTypeOK
  /\ \A k \in running : k.todo \subseteq Budgets \X Users /\ k.phase \in {"read", "tell"}
  /\ inbox \in [Budgets \X Users -> Nat]
  /\ lost \in 0..MaxLost
  /\ unannounced \subseteq Budgets /\ met \subseteq Budgets

(* expenses.service.ts:30-34, "after a mutation on an expense, re-evaluate
   every budget it matches": once no check is left, a budget at its threshold
   has been announced to those who manage it, except one that crossed by a
   change that sets off no check, or by one whose check was lost or went by a
   row of the budget that was written meanwhile. *)
CrossingAnnounced ==
  (pending = {} /\ running = {} /\ lost = 0 /\ crashes = 0) =>
    \A b \in Reached \ unannounced, u \in Users : b \in Manages[u] => inbox[b, u] > 0

(* budgets.service.ts:682-684, "a single notification row per user per budget
   per day": a second row appears only when two checks of the budget met. *)
OneRowADay == \A bu \in Budgets \X Users : inbox[bu] > 1 => bu[1] \in met

(* budgets.service.ts:509-513: the expenses fetched at once for all candidates
   give each of them what its own queries (getStatus) would. *)
BatchAgrees ==
  \A cands \in (SUBSET Live) \ {{}} :
    LET found == Prefetched(cands, budget, expense, Rows) IN
    \A b \in cands : Spent(budget[b], expense, found) = SpentNow(b)

(* expenses.service.ts:578, "same logic as BudgetsService.getStatus": over
   whole months the chart adds up to what a budget of that period counts, for
   every expense whose recurrence has a start. It speaks of all expenses, not of
   the rows, so one look at the start of a behaviour is enough. *)
ReportAgrees == ops + bops = 0 =>
  \A frequency \in {"ONE_TIME", "MONTHLY", "QUARTERLY", "YEARLY"}, incurred \in ReportDates,
     start \in ReportDates, end \in ReportDates \cup {None}, from \in ReportDates, to \in ReportDates :
    LET x == [totalAmount |-> 2, frequency |-> frequency, dateIncurred |-> incurred,
              dateStart |-> start, dateEnd |-> end]
    IN from % 2 = 0 /\ to % 2 = 1 /\ from <= incurred /\ incurred <= to /\ (end # None => start <= end)
         => ReportedByMonth(x, from, to) = x.totalAmount * Weight(x, from, to)
=============================================================================
