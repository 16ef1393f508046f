SPECIFICATION Spec
CONSTANTS
  s1 = s1  s2 = s2  w1 = w1  w2 = w2
  Sites = {s1}
  Workers = {w1, w2}
  NoSite = NoSite
  Attempts = 2
  KeepFailed = 50
  MaxStalled = 1
  MaxChanges = 2
  MaxDbFaults = 1
  MaxRedisFaults = 1
  MaxCrashes = 1
CHECK_DEADLOCK FALSE
INVARIANTS Serialized
 
