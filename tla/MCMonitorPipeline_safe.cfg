SPECIFICATION Safety
CONSTANTS
  c1 = c1  c2 = c2  t1 = t1  l1 = l1  l2 = l2  j1 = j1  j2 = j2  j3 = j3
  NoCheck = NoCheck  NoJob = NoJob
  Checks = {c1}
  Ticks = {t1}
  Loops = {l1}
  Jobs = {j1, j2}
  ProbeAttempts = 2
  Batch = 500
  Punctual = FALSE
  MaxFlips = 2
  MaxRunNow = 1
  MaxSwitches = 1
  MaxFaults = 1
  MaxRedis = 0
  MaxCrashes = 1
CHECK_DEADLOCK FALSE
 
PROPERTIES  OnlyOrphansDropped
