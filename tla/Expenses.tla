------------------------------ MODULE Expenses ------------------------------
(***************************************************************************)
(* The rows of expenses/expenses.service.ts, their allocations, and the    *)
(* tasks and connectivity links an expense may be generated from           *)
(* (connectivity/connectivity.service.ts, tasks/tasks.controller.ts).      *)
(* Every handler reads, awaits, and writes; requests interleave between.   *)
(***************************************************************************)
EXTENDS CostMath

CONSTANTS Ids,           \* ids an expense may get
          Shapes,        \* the fields of an expense other than money: a set of records
          Splits,        \* allocations a request may ask for: [centres -> percentage]
          Amount,        \* amounts and prices a request may name, 0 included
          Sources,       \* tasks, links and assets an expense may be made from
          Kinds,         \* the kinds of source there are, of "task", "link" and "asset"
          Generated,     \* [Kinds -> a shape]: the fields of an expense made from a source
          Calls,         \* requests that may be open at once
          Gone,          \* a row that was removed: its id is not used again
          MaxOps,        \* bound: requests in a behaviour
          MaxCrashes     \* bound: restarts of the process in a behaviour

VARIABLES expense,       \* [Ids -> row, or None, or Gone]
          source,        \* [Sources -> [kind, price, expense]]
          call,          \* [Calls -> an open request, or None]
          pending,       \* threshold checks set off and not begun
          ops, crashes,
          repriced,      \* history: expenses whose total was set apart from their allocations
          origin,        \* history: [Ids -> the source the expense was made from, or None]
          orphaned,      \* history: sources whose expense was made twice or never linked
          retouched      \* history: links whose price and expense were set by different requests

expenseVars == <<expense, source, call, pending, ops, crashes, repriced, origin, orphaned, retouched>>

Rows == {x \in Ids : expense[x] \notin {None, Gone}}

\* Allocations of a split of an amount: create and update store both.
Allocate(split, amount) ==
  [t \in DOMAIN split |-> [percentage |-> split[t], amount |-> (amount * split[t]) \div 100]]

Compose(shape, amount, allocations) ==
  [totalAmount |-> amount, allocations |-> allocations, bearer |-> shape.bearer,
   delegation |-> shape.delegation, frequency |-> shape.frequency,
   dateIncurred |-> shape.dateIncurred, dateStart |-> shape.dateStart, dateEnd |-> shape.dateEnd]

NoSplit == [t \in {} |-> 0]

\* The rows of expenses and the open requests that the constants allow.
AnyShape == Shapes \cup {Generated[k] : k \in Kinds}
AnySplit == Splits \cup {NoSplit}
Centres == (UNION {DOMAIN split : split \in Splits}) \cup {shape.bearer : shape \in AnyShape}
ExpenseRow == {Compose(shape, amount, Allocate(split, part)) :
                 shape \in AnyShape, amount \in Amount, part \in Amount, split \in AnySplit}
OpenCall ==
  [op : {"update"}, id : Ids, amount : Amount \cup {Keep}, split : Splits \cup {Keep}, seen : Amount]
    \cup [op : {"make"}, source : Sources, price : Amount]
    \cup [op : {"bind"}, source : Sources, id : Ids]
    \cup [op : {"resync"}, source : Sources, id : Ids, price : Amount]
    \cup [op : {"price", "sync"}, source : Sources, price : Amount, id : Ids \cup {None}]

ASSUME NullAssumption == None # Gone /\ {None, Gone} \cap (ExpenseRow \cup OpenCall \cup Ids \cup Sources) = {}
\* Money is in units small enough for every share of it to be whole.
ASSUME MoneyAssumption ==
  /\ Amount \subseteq Int
  /\ \A split \in Splits : \A t \in DOMAIN split :
       split[t] \in Nat /\ \A amount \in Amount : (amount * split[t]) % 100 = 0
ASSUME CentresAssumption == IsFiniteSet(Centres) /\ IsFiniteSet(Ids)
ASSUME ShapeAssumption ==
  \A shape \in AnyShape : /\ shape.dateIncurred \in Int
                          /\ {shape.dateStart, shape.dateEnd} \subseteq Int \cup {None}
ASSUME BoundAssumption == MaxOps \in Nat /\ MaxCrashes \in Nat

SplitValid(split) == SumFunction(split) <= 100

\* At first a source may have the expense that was made from it.
MadeFrom(s) == {x \in Ids : origin[x] = s}

ExpenseInit ==
  /\ origin \in [Ids -> Sources \cup {None}]
  /\ \A s \in Sources : Cardinality(MadeFrom(s)) <= 1
  /\ source \in [Sources -> [kind : Kinds, price : Amount, expense : Ids \cup {None}]]
  /\ \A s \in Sources :
       /\ {source[s].expense} \ {None} = IF source[s].kind = "asset" THEN {} ELSE MadeFrom(s)
       /\ MadeFrom(s) # {} => source[s].price > 0
  /\ expense = [x \in Ids |->
       IF origin[x] = None THEN None
       ELSE Compose(Generated[source[origin[x]].kind], source[origin[x]].price, NoSplit)]
  /\ call = [r \in Calls |-> None]
  /\ pending = {}
  /\ ops = 0 /\ crashes = 0
  /\ repriced = {} /\ orphaned = {} /\ retouched = {}

\* A request that is done in one step, and one that stays open.
Once == /\ ops < MaxOps
        /\ ops' = ops + 1
Open(r, c) == /\ call[r] = None
              /\ Once
              /\ call' = [call EXCEPT ![r] = c]
Close(r) == call' = [call EXCEPT ![r] = None]

Busy(s) == {r \in Calls : call[r] # None /\ call[r].op \in {"make", "bind", "price", "sync", "resync"} /\ call[r].source = s}

\* History helpers: the sources whose price an expense should follow, and s
\* when another request than r is at work on it.
Linked(x) == {s \in Sources : source[s].expense = x} \cup ({origin[x]} \ {None})
Overlap(s, r) == IF Busy(s) = {r} THEN {} ELSE {s}

(* create: one nested write of the row and its allocations, then the check
   of thresholds is set off. *)
Create(x, shape, amount, split) ==
  /\ expense[x] = None
  /\ SplitValid(split)
  /\ Once
  /\ expense' = [expense EXCEPT ![x] = Compose(shape, amount, Allocate(split, amount))]
  /\ pending' = pending \cup {expense'[x]}
  /\ UNCHANGED <<source, call, crashes, repriced, origin, orphaned, retouched>>

(* update: reads the row, whose total is used below. *)
ReadUpdate(r, x, amount, split) ==
  /\ x \in Rows
  /\ <<amount, split>> # <<Keep, Keep>>
  /\ split # Keep => SplitValid(split)
  /\ Open(r, [op |-> "update", id |-> x, amount |-> amount, split |-> split,
              seen |-> expense[x].totalAmount])
  /\ UNCHANGED <<expense, source, pending, crashes, repriced, origin, orphaned, retouched>>

(* The total the amounts of new allocations are computed from:
   dto.totalAmount || expense.totalAmount, so that 0 counts as absent. *)
SplitBase(c) == IF c.amount \in {Keep, 0} THEN c.seen ELSE c.amount

\* The row after the write of an update.
Updated(c, row) ==
  LET total == IF c.amount = Keep THEN row.totalAmount ELSE c.amount
      split == IF c.split = Keep THEN row.allocations ELSE Allocate(c.split, SplitBase(c))
  IN [row EXCEPT !.totalAmount = total, !.allocations = split]

(* The write of an update, and the check of thresholds it sets off. *)
StoreUpdate(r) ==
  LET c   == call[r]
      row == expense[c.id]
  IN
  /\ c # None /\ c.op = "update"
  /\ Close(r)
  /\ IF row = Gone THEN UNCHANGED <<expense, pending, repriced, retouched>>
     ELSE LET new == Updated(c, row) IN
          /\ expense' = [expense EXCEPT ![c.id] = new]
          /\ pending' = pending \cup {new}
          /\ repriced' = IF c.split # Keep /\ SplitBase(c) = new.totalAmount THEN repriced \ {c.id}
                         ELSE IF c.split # Keep \/ new.totalAmount # row.totalAmount THEN repriced \cup {c.id}
                         ELSE repriced
          /\ retouched' = IF c.amount = Keep THEN retouched ELSE retouched \cup Linked(c.id)
  /\ UNCHANGED <<source, ops, crashes, origin, orphaned>>

(* remove: the allocations go with the row (Cascade), a task or a link loses
   its reference (SetNull). No threshold check follows. *)
Remove(x) ==
  /\ x \in Rows
  /\ Once
  /\ expense' = [expense EXCEPT ![x] = Gone]
  /\ source' = [s \in Sources |-> IF source[s].expense = x THEN [source[s] EXCEPT !.expense = None] ELSE source[s]]
  /\ repriced' = repriced \ {x}
  /\ UNCHANGED <<call, pending, crashes, origin, orphaned, retouched>>

\* Mutant: a source that has an expense is not refused.
ReadMakeAgain(r, s) ==
  /\ source[s].price > 0
  /\ Open(r, [op |-> "make", source |-> s, price |-> source[s].price])
  /\ UNCHANGED <<expense, source, pending, crashes, repriced, origin, orphaned, retouched>>

(* createFromTask, generateExpense, createFromAsset: the read, which refuses a
   task or a link that already has an expense, and a source without a price. *)
ReadMake(r, s) ==
  /\ source[s].kind # "asset" => source[s].expense = None
  /\ source[s].price > 0
  /\ Open(r, [op |-> "make", source |-> s, price |-> source[s].price])
  /\ UNCHANGED <<expense, source, pending, crashes, repriced, origin, orphaned, retouched>>

(* The expense is created, without a check of thresholds; that of a task or a
   link is bound to it by a second write. *)
Make(r, x) ==
  LET c == call[r] IN
  /\ c # None /\ c.op = "make"
  /\ expense[x] = None
  /\ expense' = [expense EXCEPT ![x] = Compose(Generated[source[c.source].kind], c.price, NoSplit)]
  /\ origin' = [origin EXCEPT ![x] = c.source]
  /\ call' = [call EXCEPT ![r] = IF source[c.source].kind = "asset" THEN None
                                 ELSE [op |-> "bind", source |-> c.source, id |-> x]]
  /\ orphaned' = orphaned \cup Overlap(c.source, r)
  /\ UNCHANGED <<source, pending, ops, crashes, repriced, retouched>>

(* The second write; the foreign key refuses an expense that is gone. *)
Bind(r) ==
  LET c == call[r] IN
  /\ c # None /\ c.op = "bind"
  /\ source' = IF c.id \in Rows THEN [source EXCEPT ![c.source].expense = c.id] ELSE source
  /\ retouched' = retouched \cup Overlap(c.source, r)
  /\ orphaned' = orphaned \cup Overlap(c.source, r)
  /\ Close(r)
  /\ UNCHANGED <<expense, pending, ops, crashes, repriced, origin>>

(* resyncExpense: the price is read from the source, and the expense is that
   of the task or link, or one that the request names for an asset. *)
ReadResync(r, s, x) ==
  /\ x \in Rows
  /\ source[s].kind # "asset" => source[s].expense = x
  /\ source[s].price > 0
  /\ Open(r, [op |-> "resync", source |-> s, id |-> x, price |-> source[s].price])
  /\ UNCHANGED <<expense, source, pending, crashes, repriced, origin, orphaned, retouched>>

\* Sets the total alone, the allocations stay.
SetTotal(x, amount) ==
  /\ expense' = [expense EXCEPT ![x].totalAmount = amount]
  /\ repriced' = IF amount = expense[x].totalAmount THEN repriced ELSE repriced \cup {x}

(* The total is replaced, without its allocations and without a check. *)
Resync(r) ==
  LET c == call[r] IN
  /\ c # None /\ c.op = "resync"
  /\ IF c.id \in Rows
     THEN /\ SetTotal(c.id, c.price)
          /\ retouched' = retouched \cup {s \in Linked(c.id) : source[s].price # c.price}
                                    \cup Overlap(c.source, r)
     ELSE UNCHANGED <<expense, repriced, retouched>>
  /\ Close(r)
  /\ UNCHANGED <<source, pending, ops, crashes, origin, orphaned>>

(* The cost of a task or the price of an asset changes: the expense stays. *)
SetCost(s, price) ==
  /\ source[s].kind # "link"
  /\ price # source[s].price
  /\ Once
  /\ source' = [source EXCEPT ![s].price = price]
  /\ UNCHANGED <<expense, call, pending, crashes, repriced, origin, orphaned, retouched>>

(* connectivity update: reads the link, whose expense is used below. *)
ReadLink(r, s, price) ==
  /\ source[s].kind = "link"
  /\ Open(r, [op |-> "price", source |-> s, price |-> price, id |-> source[s].expense])
  /\ UNCHANGED <<expense, source, pending, crashes, repriced, origin, orphaned, retouched>>

\* Mutant: the expense does not follow.
PriceLinkAlone(r) ==
  LET c == call[r] IN
  /\ c # None /\ c.op = "price"
  /\ source' = [source EXCEPT ![c.source].price = c.price]
  /\ Close(r)
  /\ retouched' = retouched \cup Overlap(c.source, r)
  /\ UNCHANGED <<expense, pending, ops, crashes, repriced, origin, orphaned>>

(* The link is written; the expense read with it follows, if there was one. *)
PriceLink(r) ==
  LET c == call[r] IN
  /\ c # None /\ c.op = "price"
  /\ source' = [source EXCEPT ![c.source].price = c.price]
  /\ call' = [call EXCEPT ![r] = IF c.id = None THEN None ELSE [c EXCEPT !.op = "sync"]]
  /\ retouched' = retouched \cup Overlap(c.source, r)
  /\ UNCHANGED <<expense, pending, ops, crashes, repriced, origin, orphaned>>

(* The linked expense follows the price; a failure is swallowed. *)
SyncLink(r) ==
  LET c == call[r] IN
  /\ c # None /\ c.op = "sync"
  /\ IF c.id \in Rows THEN SetTotal(c.id, c.price) ELSE UNCHANGED <<expense, repriced>>
  /\ retouched' = retouched \cup Overlap(c.source, r)
  /\ Close(r)
  /\ UNCHANGED <<source, pending, ops, crashes, origin, orphaned>>

(* The process restarts: open requests end where they are, checks are lost. *)
Crash ==
  /\ crashes < MaxCrashes
  /\ pending # {} \/ \E r \in Calls : call[r] # None
  /\ crashes' = crashes + 1
  /\ call' = [r \in Calls |-> None]
  /\ pending' = {}
  /\ orphaned' = orphaned \cup {call[r].source : r \in {q \in Calls : call[q] # None /\ call[q].op = "bind"}}
  /\ retouched' = retouched \cup {call[r].source : r \in {q \in Calls : call[q] # None /\ call[q].op = "sync"}}
  /\ UNCHANGED <<expense, source, ops, repriced, origin>>

ExpenseNext ==
  \/ \E x \in Ids, shape \in Shapes, a \in Amount, split \in Splits : Create(x, shape, a, split)
  \/ \E r \in Calls, x \in Ids, a \in Amount \cup {Keep}, split \in Splits \cup {Keep} : ReadUpdate(r, x, a, split)
  \/ \E r \in Calls : StoreUpdate(r) \/ Bind(r) \/ Resync(r) \/ PriceLink(r) \/ SyncLink(r)
  \/ \E x \in Ids : Remove(x)
  \/ \E r \in Calls, s \in Sources : ReadMake(r, s)
  \/ \E r \in Calls, x \in Ids : Make(r, x)
  \/ \E r \in Calls, s \in Sources, x \in Ids : ReadResync(r, s, x)
  \/ \E s \in Sources, a \in Amount : SetCost(s, a)
  \/ \E r \in Calls, s \in Sources, a \in Amount : ReadLink(r, s, a)
  \/ Crash
-----------------------------------------------------------------------------
ExpenseTypeOK ==
  /\ expense \in [Ids -> ExpenseRow \cup {None, Gone}]
  /\ source \in [Sources -> [kind : Kinds, price : Amount, expense : Ids \cup {None}]]
  /\ call \in [Calls -> OpenCall \cup {None}]
  /\ ops \in 0..MaxOps /\ crashes \in 0..MaxCrashes
  /\ repriced \subseteq Ids /\ origin \in [Ids -> Sources \cup {None}]
  /\ orphaned \subseteq Sources /\ retouched \subseteq Sources

(* budgets.service.ts:191-199: what an expense weighs in the budgets of all
   cost centres together is its total, so that no euro counts twice or is
   lost, as long as its total was not set apart from its allocations. *)
MoneyConserved ==
  \A x \in Rows \ repriced :
    SumFunction([c \in Centres |-> Contribution(expense[x], c)]) = expense[x].totalAmount

(* schema.prisma, Expense.tasks, "enforced 1:1 at the service layer": a task
   or a link has at most one expense made from it, unless two requests made
   one at once or the process stopped before it was bound. *)
OneExpensePerSource ==
  \A s \in Sources : source[s].kind # "asset" /\ s \notin orphaned =>
    Cardinality(MadeFrom(s) \cap Rows) <= 1

(* connectivity.service.ts:183: the expense of a link costs what the link
   costs, unless somebody set it by hand or two requests met on the link. *)
LinkPriceMirrored ==
  \A s \in Sources :
    source[s].kind = "link" /\ source[s].expense # None /\ Busy(s) = {} /\ s \notin retouched =>
      expense[source[s].expense].totalAmount = source[s].price
=============================================================================
