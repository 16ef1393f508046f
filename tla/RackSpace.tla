----------------------------- MODULE RackSpace -----------------------------
(***************************************************************************)
(* The units of a rack (racks/racks.service.ts): what a piece of equipment *)
(* of height h with its lowest unit p occupies, and the tests the code     *)
(* makes of it.                                                            *)
(***************************************************************************)
EXTENDS Integers

LastU(p, h) == p + h - 1
Units(p, h) == p .. LastU(p, h)

(* mountEquipment, findAvailableSpaces: p to its end against q to its end. *)
MeetsAtEnds(p, h, q, k) ==
  \/ p >= q /\ p <= LastU(q, k)
  \/ LastU(p, h) >= q /\ LastU(p, h) <= LastU(q, k)

Meets(p, h, q, k) ==
  \/ p >= q /\ p <= LastU(q, k)
  \/ LastU(p, h) >= q /\ LastU(p, h) <= LastU(q, k)
  \/ p <= q /\ LastU(p, h) >= LastU(q, k)

(* mountEquipment: the checks of position and height. *)
FitsRack(p, h, size) == p >= 1 /\ p <= size /\ h >= 1 /\ LastU(p, h) <= size

(* findAvailableSpaces: the lowest units of the places for height h. *)
AvailableBelowTop(taken, size, h) ==
  {p \in 1 .. size : LastU(p, h) < size /\ \A t \in taken : ~Meets(p, h, t[1], t[2])}

AvailableSpaces(taken, size, h) ==
  {p \in 1 .. size : LastU(p, h) <= size /\ \A t \in taken : ~Meets(p, h, t[1], t[2])}

\* What it should offer: the units are in the rack and nothing else has one of them.
FreeSpaces(taken, size, h) ==
  {p \in 1 .. size : /\ Units(p, h) \subseteq 1 .. size
                     /\ \A t \in taken : Units(p, h) \cap Units(t[1], t[2]) = {}}
=============================================================================
