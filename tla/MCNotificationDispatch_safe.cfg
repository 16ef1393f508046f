SPECIFICATION Spec
CONSTANTS
  e1 = e1  e2 = e2  api = api  worker = worker
  NoEvent = NoEvent
  Events = {e1}
  Scoped = {e1}
  Consumers = {api}
  Kinds <- MCKinds
  DefaultKinds <- MCKinds
  Configs <- MCConfigs
  Attempts = 2
  MaxSaves = 2
  MaxFaults = 1
  MaxUnlogged = 1
  MaxRedis = 1
  MaxCrashes = 2
CHECK_DEADLOCK FALSE
  
PROPERTIES SentAsConfigured Settles
