CONSTANTS
  None = None
  Gone = Gone
  a1 = a1 a2 = a2 k1 = k1 k2 = k2 s1 = s1 s2 = s2 c1 = c1 c2 = c2
  r1 = r1 r2 = r2 ip1 = ip1 ip2 = ip2 ip3 = ip3
  Assets = {a1, a2}
  Racks = {k1, k2}
  Sites = {s1, s2}
  Checks = {c1, c2}
  Hosts = {ip1, ip2, ip3}
  Blocked = {ip3}
  Calls = {r1, r2}
  MaxOps = 3
  MaxFaults = 1
  Slots <- MCSlots
  AssetRows <- MCAssetRows
  AssetPatches <- MCAssetPatches
  RackPatches <- MCRackPatches
  CheckPatches <- MCCheckPatches
  Owner <- MCOwner
  Tenants0 <- MCTenants0
SYMMETRY MCSymmetry
SPECIFICATION Spec
INVARIANTS PlacementSound OfferIsFree HistoryReplays  QuietWhenOut TargetFollows
CHECK_DEADLOCK FALSE
