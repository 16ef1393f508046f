CONSTANTS
  None = None
  Keep = Keep
  Gone = Gone
  e1 = e1 e2 = e2 s1 = s1
  X = X Y = Y d1 = d1 d2 = d2
  b1 = b1 b2 = b2 b3 = b3 u1 = u1
  r1 = r1 r2 = r2
  Ids = {e1, e2}
  Shapes <- MCShapes
  Splits <- MCSplits
  Amount <- MCAmount
  Sources = {s1}
  Kinds = {"task", "link", "asset"}
  Generated <- MCGenerated
  Calls = {r1, r2}
  MaxOps = 3
  MaxCrashes = 1
  Budgets = {b1, b2, b3}
  Drafts <- MCDrafts
  Amounts = {2, 4}
  Existing <- MCExisting
  BudgetCalls = {r1, r2}
  MaxDepth = 6
  MaxBudgetOps = 2
  Users = {u1}
  Manages <- MCManages
  MaxLost = 1
  MaxRequests = 2
  ReportDates <- MCReportDates
SYMMETRY MCSymmetry
SPECIFICATION Spec
INVARIANTS EnvelopeExplained CycleExplained MoneyConserved OneExpensePerSource LinkPriceMirrored CrossingAnnounced OneRowADay BatchAgrees ReportAgrees
CHECK_DEADLOCK FALSE
