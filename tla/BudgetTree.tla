----------------------------- MODULE BudgetTree -----------------------------
(***************************************************************************)
(* The rows of budgets/budgets.service.ts and their hierarchy: a parent is *)
(* an envelope that its sub-budgets share. A request checks the hierarchy, *)
(* then writes; other requests run between the two.                        *)
(***************************************************************************)
EXTENDS CostMath

CONSTANTS Budgets,      \* ids a budget may get
          Drafts,       \* [Budgets -> fields an update leaves alone here]
          Amounts,      \* amounts a request may ask for
          Existing,     \* [Budgets -> None or [amount, parent]]: the rows at first
          BudgetCalls,  \* requests that may be open at once
          MaxDepth,     \* steps of the cycle check (6 in the code)
          MaxBudgetOps  \* bound: requests in a behaviour

VARIABLES budget,       \* [Budgets -> row, or None]
          bcall,        \* [BudgetCalls -> an open request, or None]
          bops,         \* requests begun
          loosened      \* history: exceeded or circular at first, lowered, or written on a stale check

budgetVars == <<budget, bcall, bops, loosened>>

Live == {b \in Budgets : budget[b] # None}
Children(p) == {b \in Live : budget[b].parent = p}
\* Budgets that are all below one another.
Circles == {S \in (SUBSET Live) \ {{}} : \A b \in S : budget[b].parent \in S}
TotalOf(S) == SumFunction([b \in S |-> budget[b].amount])
ChildrenTotal(p) == TotalOf(Children(p))

Row(b, amount, parent) ==
  [delegation |-> Drafts[b].delegation, centre |-> Drafts[b].centre,
   startDate |-> Drafts[b].startDate, endDate |-> Drafts[b].endDate,
   alertThresholdPct |-> Drafts[b].alertThresholdPct,
   amount |-> amount, parent |-> parent]

\* The rows and the open requests that the constants allow.
AnyAmount == Amounts \cup {Existing[b].amount : b \in {e \in Budgets : Existing[e] # None}}
BudgetRow == {Row(b, amount, parent) : b \in Budgets, amount \in AnyAmount, parent \in Budgets \cup {None}}
OpenBudgetCall ==
  [op : {"create"}, id : Budgets, amount : Amounts, parent : Budgets \cup {None}, stale : BOOLEAN]
    \cup [op : {"update"}, id : Budgets, amount : Amounts \cup {Keep},
          parent : Budgets \cup {None, Keep}, stale : BOOLEAN]

ASSUME BudgetNullAssumption == None # Keep /\ None \notin BudgetRow \cup OpenBudgetCall \cup Budgets
ASSUME BudgetMoneyAssumption == IsFiniteSet(Budgets) /\ AnyAmount \subseteq Nat
ASSUME DraftAssumption ==
  \A b \in Budgets : {Drafts[b].startDate, Drafts[b].endDate, Drafts[b].alertThresholdPct} \subseteq Int
ASSUME BudgetBoundAssumption == MaxBudgetOps \in Nat /\ MaxDepth \in Nat
ASSUME ExistingAssumption ==
  \A b \in Budgets : Existing[b] # None =>
    Existing[b].parent \in {None} \cup {e \in Budgets : Existing[e] # None}

BudgetInit ==
  /\ budget = [b \in Budgets |-> IF Existing[b] = None THEN None
                                 ELSE Row(b, Existing[b].amount, Existing[b].parent)]
  /\ bcall = [r \in BudgetCalls |-> None]
  /\ bops = 0
  /\ loosened = {b \in Live : ChildrenTotal(b) > budget[b].amount} \cup UNION Circles

(* The cursor of the cycle check: the parent p, then one level up at a time. *)
ParentOf(b) == IF b = None THEN None ELSE budget[b].parent
Cursor(p) == LET up[n \in 0..MaxDepth] == IF n = 0 THEN p ELSE ParentOf(up[n - 1]) IN up

\* The budgets it visits.
Above(p) == Range(Cursor(p))

\* Mutant: the siblings are not summed.
HierarchyValidAlone(self, amount, parent) ==
  parent # None => /\ parent # self /\ budget[parent] # None
                   /\ self \notin Above(parent)
                   /\ amount <= budget[parent].amount

\* Mutant: only the parent itself is compared.
HierarchyValidShallow(self, amount, parent) ==
  parent # None =>
    /\ parent # self /\ budget[parent] # None
    /\ TotalOf(Children(parent) \ {self}) + amount <= budget[parent].amount

(* validateHierarchy *)
HierarchyValid(self, amount, parent) ==
  parent # None =>
    /\ parent # self
    /\ budget[parent] # None
    /\ self \notin Above(parent)
    /\ budget[parent].startDate <= Drafts[self].startDate
    /\ Drafts[self].endDate <= budget[parent].endDate
    /\ TotalOf(Children(parent) \ {self}) + amount <= budget[parent].amount

Begin(r, call) ==
  /\ bcall[r] = None
  /\ bops < MaxBudgetOps
  /\ bops' = bops + 1
  /\ bcall' = [bcall EXCEPT ![r] = call]
  /\ UNCHANGED <<budget, loosened>>

(* create: the check of a new budget. *)
CheckCreate(r, b, amount, parent) ==
  /\ budget[b] = None
  /\ \A q \in BudgetCalls : bcall[q] # None => bcall[q].id # b
  /\ HierarchyValid(b, amount, parent)
  /\ Begin(r, [op |-> "create", id |-> b, amount |-> amount, parent |-> parent, stale |-> FALSE])

(* update: the fields left out are those of the row read here. *)
CheckUpdate(r, b, amount, parent) ==
  /\ b \in Live
  /\ <<amount, parent>> # <<Keep, Keep>>
  /\ HierarchyValid(b, IF amount = Keep THEN budget[b].amount ELSE amount,
                       IF parent = Keep THEN budget[b].parent ELSE parent)
  /\ Begin(r, [op |-> "update", id |-> b, amount |-> amount, parent |-> parent, stale |-> FALSE])

\* The rows become new; the request r ends and the checks of the others are stale.
Store(r, new) ==
  /\ budget' = new
  /\ bcall' = [q \in BudgetCalls |->
                 IF q = r \/ bcall[q] = None THEN None ELSE [bcall[q] EXCEPT !.stale = TRUE]]
  /\ UNCHANGED bops

Refuse(r) ==
  /\ bcall' = [bcall EXCEPT ![r] = None]
  /\ UNCHANGED <<budget, bops, loosened>>

(* The write of a create; the foreign key refuses a parent that is gone. *)
WriteCreate(r) ==
  LET c == bcall[r] IN
  /\ c # None /\ c.op = "create"
  /\ IF c.parent # None /\ budget[c.parent] = None THEN Refuse(r)
     ELSE /\ Store(r, [budget EXCEPT ![c.id] = Row(c.id, c.amount, c.parent)])
          /\ loosened' = IF c.stale THEN loosened \cup ({c.parent} \ {None}) ELSE loosened

(* The write of an update: only the fields given. Nothing looks at the
   sub-budgets of the row when its amount is lowered. *)
WriteUpdate(r) ==
  LET c      == bcall[r]
      row    == budget[c.id]
      amount == IF c.amount = Keep THEN row.amount ELSE c.amount
      parent == IF c.parent = Keep THEN row.parent ELSE c.parent
  IN
  /\ c # None /\ c.op = "update"
  /\ IF row = None \/ (c.parent \notin {Keep, None} /\ budget[c.parent] = None) THEN Refuse(r)
     ELSE /\ Store(r, [budget EXCEPT ![c.id].amount = amount, ![c.id].parent = parent])
          /\ loosened' = loosened
               \cup (IF amount < row.amount /\ Children(c.id) # {} THEN {c.id} ELSE {})
               \cup (IF c.stale THEN {c.id, parent} \ {None} ELSE {})

(* remove: refused while there are sub-budgets, by the count and by the
   foreign key. *)
RemoveBudget(b) ==
  /\ b \in Live
  /\ Children(b) = {}
  /\ bops < MaxBudgetOps
  /\ budget' = [budget EXCEPT ![b] = None]
  /\ bops' = bops + 1
  /\ loosened' = loosened \ {b}
  /\ bcall' = [q \in BudgetCalls |-> IF bcall[q] = None THEN None ELSE [bcall[q] EXCEPT !.stale = TRUE]]

BudgetNext ==
  \/ \E r \in BudgetCalls, b \in Budgets, a \in Amounts, p \in Budgets \cup {None} : CheckCreate(r, b, a, p)
  \/ \E r \in BudgetCalls, b \in Budgets, a \in Amounts \cup {Keep}, p \in Budgets \cup {None, Keep} :
       CheckUpdate(r, b, a, p)
  \/ \E r \in BudgetCalls : WriteCreate(r) \/ WriteUpdate(r)
  \/ \E b \in Budgets : RemoveBudget(b)
-----------------------------------------------------------------------------
BudgetTypeOK ==
  /\ budget \in [Budgets -> BudgetRow \cup {None}]
  /\ bcall \in [BudgetCalls -> OpenBudgetCall \cup {None}]
  /\ \A b \in Live : budget[b].parent # None => budget[b].parent \in Live
  /\ bops \in 0..MaxBudgetOps
  /\ loosened \subseteq Budgets

(* budgets.service.ts:798, "the parent is the capped envelope": sub-budgets
   exceed their parent only where the parent itself was lowered, which nothing
   checks, or where a request wrote on a check made before another write. *)
EnvelopeExplained == \A p \in Live : ChildrenTotal(p) > budget[p].amount => p \in loosened

(* budgets.service.ts:796, "no self-parent, no cycle", and :813, "depth max 6":
   budgets that are all below one another, unless they are more than the check
   looks up, exist only where a request wrote on a stale check. *)
CycleExplained ==
  \A S \in Circles : Cardinality(S) <= MaxDepth + 1 => S \cap loosened # {}

=============================================================================
