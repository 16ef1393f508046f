SPECIFICATION Spec
CONSTANTS
  h1 = h1  p1 = p1  p2 = p2  k1 = k1  k2 = k2  k3 = k3
  r1 = r1  r2 = r2  r3 = r3  api = api  worker = worker
  NoKey = NoKey  NoRow = NoRow  NoOwner = NoOwner
  Hosts = {h1}
  Plans = {p1, p2}
  Keys = {k1, k2}
  Requests = {r1, r2}
  Cleaners = {api, worker}
  Ungraced = {}
  MaxFaults = 2
CHECK_DEADLOCK FALSE
INVARIANTS RowHasFile
PROPERTIES OrphansCollected
