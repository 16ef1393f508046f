---------------------------- MODULE MCInventory ----------------------------
(* Inventory on a small instance.                                          *)
EXTENDS Inventory, TLC

CONSTANTS a1, a2, k1, k2, s1, s2, c1, c2, r1, r2, ip1, ip2, ip3

Base(s) == [site |-> s, rack |-> None, pos |-> None, height |-> None, status |-> "IN_SERVICE", ip |-> ip1]
MCAssetRows == {Base(s1), [Base(s1) EXCEPT !.rack = k1, !.pos = 1, !.height = 1]}

\* A site in service and a closed one with one asset, or one site with two assets, and a rack.
MCTenants0 ==
  {[site |-> s1 :> "ACTIVE" @@ s2 :> "CLOSED", rack |-> k1 :> [site |-> s1, size |-> 3] @@ k2 :> None,
    asset |-> a1 :> Base(s1) @@ a2 :> None],
   [site |-> s1 :> "ACTIVE" @@ s2 :> None, rack |-> k1 :> [site |-> s1, size |-> 3] @@ k2 :> None,
    asset |-> a1 :> Base(s1) @@ a2 :> Base(s1)]}

MCSlots == {<<1, 3>>, <<2, 1>>}
MCAssetPatches ==
  {[status |-> "OUT_OF_SERVICE"], [status |-> "RETIRED", ip |-> ip2, rack |-> None], [site |-> s2],
   [rack |-> k1, pos |-> 2, height |-> 1, status |-> "IN_SERVICE", ip |-> ip3]}
MCRackPatches == {[size |-> 2], [site |-> s2]}
MCCheckPatches == {[enabled |-> TRUE], [target |-> ip2]}
MCOwner == [c \in Checks |-> IF c = c1 THEN a1 ELSE s1]
MCSymmetry == Permutations(Calls)
=============================================================================
