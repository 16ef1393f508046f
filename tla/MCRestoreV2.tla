---------------------------- MODULE MCRestoreV2 ----------------------------
(* An archive with a contact type, a contact of that type, a site and a rack
   on it; two restore jobs. *)
EXTENDS RestoreV2

CONSTANTS n1, n2, type, contact, site, rack, f1

MCRows     == {type, contact, site, rack}
MCPhaseOf  == [r \in MCRows |-> IF r \in {type, contact} THEN 1 ELSE IF r = site THEN 2 ELSE 3]
MCParent   == [r \in MCRows |-> CASE r = contact -> type [] r = rack -> site [] OTHER -> NoRow]
MCSites    == {site}
=============================================================================
