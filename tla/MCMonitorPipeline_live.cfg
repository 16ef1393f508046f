SPECIFICATION Spec
CONSTANTS
  c1 = c1  c2 = c2  t1 = t1  l1 = l1  l2 = l2  j1 = j1  j2 = j2  j3 = j3
  NoCheck = NoCheck  NoJob = NoJob
  Checks = {c1, c2}
  Ticks = {t1}
  Loops = {l1}
  Jobs = {j1, j2}
  ProbeAttempts = 2
  Batch = 500
  Punctual = TRUE
  MaxFlips = 0
  MaxRunNow = 0
  MaxSwitches = 0
  MaxFaults = 1
  MaxRedis = 1
  MaxCrashes = 1
CHECK_DEADLOCK FALSE
PROPERTIES ProbedForever
