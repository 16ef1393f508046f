----------------------------- MODULE SiteHealth -----------------------------
(***************************************************************************)
(* The monitor checks of one site as they change while the site is being   *)
(* watched, and the site health the aggregation engine computes from them. *)
(* One action per way a check row changes: a persisted probe result, an    *)
(* operator switching the check on or off, an operator editing severity.   *)
(***************************************************************************)
EXTENDS HealthAggregation

VARIABLE checks    \* MonitorCheck rows: [Checks -> CheckRow]

siteVars == <<checks>>

(* Every row of the site stays a MonitorCheck row. *)
SiteTypeOK == checks \in [Checks -> CheckRow]

NewCheck(s) == [enabled |-> TRUE, lastStatus |-> "UNKNOWN", severity |-> s]

SiteInit == checks \in [Checks -> {NewCheck(s) : s \in Severity}]

(* The probes answer UP or DOWN; UNKNOWN is the status before the first one. *)
ProbeResult == {"UP", "DOWN"}

(* persistResult: check.update({ lastStatus }). Only an enabled check is
   probed. *)
Probe(c) == \E s \in ProbeResult :
  /\ checks[c].enabled
  /\ checks' = [checks EXCEPT ![c].lastStatus = s]

(* MonitorsService.update with { enabled } or { severity } in the DTO. *)
SetEnabled(c) == \E b \in BOOLEAN :
  checks' = [checks EXCEPT ![c].enabled = b]

SetSeverity(c) == \E s \in Severity :
  checks' = [checks EXCEPT ![c].severity = s]

SiteNext == \E c \in Checks : Probe(c) \/ SetEnabled(c) \/ SetSeverity(c)

SiteSpec == SiteInit /\ [][SiteNext]_siteVars

-----------------------------------------------------------------------------
(* The verdict in terms of the checks alone: no component, no per-entity
   status, no "worst severity". *)

Down(rows, c) == rows[c].enabled /\ rows[c].lastStatus = "DOWN"
Up(rows, c)   == rows[c].enabled /\ rows[c].lastStatus = "UP"

SomeDown(rows, e) == \E c \in Checks : Owner[c] = e /\ Down(rows, c)
AllWell(rows, e)  == ~SomeDown(rows, e) /\ \E c \in Checks : Owner[c] = e /\ Up(rows, c)

DownAt(rows, s) == \E c \in Checks : Owner[c] \notin Firewalls /\ Down(rows, c) /\ rows[c].severity = s

LinksLost(rows)     == Links # {} /\ \A l \in Links : SomeDown(rows, l)
FirewallDown(rows)  == SdwanEnabled /\ \E f \in Firewalls : SomeDown(rows, f)
FirewallUp(rows)    == SdwanEnabled /\ \E f \in Firewalls : AllWell(rows, f)
SomethingUp(rows) ==
  \/ \E e \in Links \cup (Assets \ Firewalls) : AllWell(rows, e)
  \/ \E c \in Checks : Owner[c] = SiteItself /\ Up(rows, c)
  \/ FirewallUp(rows)

CheckLevelOverall(rows) ==
  IF LinksLost(rows) \/ DownAt(rows, "CRITICAL") \/ (FirewallDown(rows) /\ ~FirewallUp(rows))
    THEN "CRITICAL"
  ELSE IF DownAt(rows, "WARNING") \/ FirewallDown(rows)
    THEN "WARNING"
  ELSE IF SomethingUp(rows) THEN "HEALTHY"
  ELSE "UNKNOWN"

(* Folding checks into entities and entities into the site loses nothing:
   the verdict of recomputeSite is the one read off the checks directly. *)
AggregationMatchesChecks == Overall(checks) = CheckLevelOverall(checks)

-----------------------------------------------------------------------------
Gravity(h) == CASE h = "CRITICAL" -> 2 [] h = "WARNING" -> 1 [] OTHER -> 0

OnlyStatusOf(c, from, to) ==
  /\ checks[c].enabled /\ checks[c].lastStatus = from
  /\ checks' = [checks EXCEPT ![c].lastStatus = to]

(* A check that goes down never makes the site look better, and a check that
   comes back never makes it look worse, whatever the other checks, the SD-WAN
   group and the severities are. *)
DownNeverImproves ==
  [][\A c \in Checks :
       /\ OnlyStatusOf(c, "UP", "DOWN") => Gravity(Overall(checks')) >= Gravity(Overall(checks))
       /\ OnlyStatusOf(c, "DOWN", "UP") => Gravity(Overall(checks')) <= Gravity(Overall(checks))]_siteVars

=============================================================================
