--------------------------- MODULE MCSiteHealth ---------------------------
(* A site with two links, two SD-WAN firewalls and four checks. *)
EXTENDS SiteHealth

(* One link is monitored twice and each firewall once. *)
MixedOwner == [c \in Checks |-> CASE c = "c1" -> "l1" [] c = "c2" -> "l1" [] c = "c3" -> "f1" [] c = "c4" -> "f2"]
=============================================================================
