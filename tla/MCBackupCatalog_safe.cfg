CONSTANTS
  None = None
  s1 = s1 q1 = q1 api = api worker = worker
  MaxBackups = 2
  Processes = {api, worker}
  Worker = worker
  Sites = {s1}
  Calls = {q1}
  TicksPerDay = 1
  Retention = 1
  Take = 1
  MaxTime = 2
  MaxFaults = 1
SPECIFICATION Spec
INVARIANTS ListedIsRestorable NothingForgotten
PROPERTIES OldIsRemoved
CHECK_DEADLOCK FALSE
