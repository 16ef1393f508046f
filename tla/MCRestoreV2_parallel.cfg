SPECIFICATION RestoreSpec
CONSTANTS
  n1 = n1  n2 = n2  type = type  contact = contact  site = site  rack = rack  f1 = f1
  NoRow = NoRow
  Runs = {n1, n2}
  Loops = 2
  Rows <- MCRows
  PhaseOf <- MCPhaseOf
  Parent <- MCParent
  Snapshotted <- MCSites
  Files = {f1}
  MaxRestoreFaults = 0
  MaxCrashes = 0
CHECK_DEADLOCK FALSE
INVARIANTS AppliedIsComplete
