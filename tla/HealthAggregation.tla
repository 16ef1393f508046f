------------------------- MODULE HealthAggregation -------------------------
(***************************************************************************)
(* The health aggregation engine of one site:                              *)
(*   backend/src/modules/monitoring/health-aggregation.service.ts.         *)
(* recomputeSite reads the site's monitor checks, builds one component per *)
(* link, asset, SD-WAN group and site-level check, and folds the components*)
(* into Site.healthStatus.  The module is pure: operators over the checks  *)
(* of the site, given as a function from check to record.                  *)
(*                                                                         *)
(* Names and free-text details of a component are left out; its type,      *)
(* status and impact are all computeOverall looks at.                      *)
(***************************************************************************)
EXTENDS FiniteSets, Integers

CONSTANTS
  Links,          \* ConnectivityLinks of the site
  Assets,         \* Assets of the site
  Firewalls,      \* assets attached to the site's SdwanConfig
  SdwanEnabled,   \* SdwanConfig.enabled
  Checks,         \* MonitorChecks whose effective site is this site
  Owner           \* [Checks -> Links \cup Assets \cup {SiteItself}]

SiteItself == "site"

ASSUME SiteShape ==
  /\ IsFiniteSet(Links) /\ IsFiniteSet(Assets) /\ IsFiniteSet(Checks)
  /\ Links \cap Assets = {} /\ SiteItself \notin Links \cup Assets
  /\ Firewalls \subseteq Assets
  /\ SdwanEnabled \in BOOLEAN
  /\ Owner \in [Checks -> Links \cup Assets \cup {SiteItself}]

MonitorStatus == {"UP", "DOWN", "UNKNOWN"}
Severity      == {"CRITICAL", "WARNING", "INFO"}
HealthStatus  == {"HEALTHY", "WARNING", "CRITICAL", "UNKNOWN"}

CheckRow == [enabled : BOOLEAN, lastStatus : MonitorStatus, severity : Severity]

SeverityRank(s) == CASE s = "CRITICAL" -> 3 [] s = "WARNING" -> 2 [] s = "INFO" -> 1

(* The enabled checks of one entity: the `where: { enabled: true }` of each
   relation of the recomputeSite query. *)
EnabledOf(rows, e) == {c \in Checks : Owner[c] = e /\ rows[c].enabled}

MonitorStatusToTriplet(s) == CASE s = "UP" -> "up" [] s = "DOWN" -> "down" [] OTHER -> "unknown"

(* Mutant: one UP check hides the DOWN ones. *)
AggregateStatusUpFirst(rows, cs) ==
  LET triplets == {MonitorStatusToTriplet(rows[c].lastStatus) : c \in cs}
  IN  IF "up" \in triplets THEN "up"
      ELSE IF "down" \in triplets THEN "down"
      ELSE "unknown"

(* Any DOWN is down, else any UP is up, else unknown (no check: unknown). *)
AggregateStatus(rows, cs) ==
  LET triplets == {MonitorStatusToTriplet(rows[c].lastStatus) : c \in cs}
  IN  IF "down" \in triplets THEN "down"
      ELSE IF "up" \in triplets THEN "up"
      ELSE "unknown"

(* Mutant: the mildest severity wins. *)
MildestSeverityWhenDown(rows, cs) ==
  LET down == {rows[c].severity : c \in {d \in cs : rows[d].lastStatus = "DOWN"}}
  IN  CHOOSE s \in down : \A t \in down : SeverityRank(t) >= SeverityRank(s)

(* The worst severity among the DOWN checks of an entity that is down. *)
WorstSeverityWhenDown(rows, cs) ==
  LET down == {rows[c].severity : c \in {d \in cs : rows[d].lastStatus = "DOWN"}}
  IN  CHOOSE s \in down : \A t \in down : SeverityRank(t) <= SeverityRank(s)

SeverityToImpact(s) == CASE s = "CRITICAL" -> "critical" [] s = "WARNING" -> "warning" [] s = "INFO" -> "info"

Impact(rows, cs) ==
  IF AggregateStatus(rows, cs) # "down" THEN "none"
  ELSE SeverityToImpact(WorstSeverityWhenDown(rows, cs))

EntityComponent(type, rows, e) ==
  [type |-> type, id |-> e,
   status |-> AggregateStatus(rows, EnabledOf(rows, e)),
   impact |-> Impact(rows, EnabledOf(rows, e))]

LinkComponents(rows) == {EntityComponent("link", rows, l) : l \in Links}

(* SD-WAN: the monitored firewalls of an enabled config make one component;
   the severity of their checks is not consulted. *)
MonitoredFirewalls(rows) == {f \in Firewalls : AggregateStatus(rows, EnabledOf(rows, f)) # "unknown"}
UpFirewalls(rows)        == {f \in Firewalls : AggregateStatus(rows, EnabledOf(rows, f)) = "up"}

SdwanComponents(rows) ==
  IF ~SdwanEnabled \/ MonitoredFirewalls(rows) = {} THEN {}
  ELSE LET up == UpFirewalls(rows)
           verdict == IF up = MonitoredFirewalls(rows) THEN <<"up", "none">>
                      ELSE IF up = {} THEN <<"down", "critical">>
                      ELSE <<"degraded", "warning">>
       IN  {[type |-> "sdwan", id |-> "sdwan", status |-> verdict[1], impact |-> verdict[2]]}

(* Assets other than the SD-WAN firewalls, when they have an enabled check.
   The firewalls are skipped whether or not the SD-WAN config is enabled. *)
AssetComponents(rows) ==
  {EntityComponent("asset", rows, a) : a \in {b \in Assets \ Firewalls : EnabledOf(rows, b) # {}}}

SiteCheckComponent(rows, c) ==
  [type |-> "site-monitor", id |-> c,
   status |-> MonitorStatusToTriplet(rows[c].lastStatus),
   impact |-> Impact(rows, {c})]

SiteMonitorComponents(rows) == {SiteCheckComponent(rows, c) : c \in EnabledOf(rows, SiteItself)}

Components(rows) ==
  LinkComponents(rows) \cup SdwanComponents(rows) \cup AssetComponents(rows)
    \cup SiteMonitorComponents(rows)

(* computeOverall: the early returns of the code, in their order. *)
ComputeOverall(comps) ==
  LET links == {c \in comps : c.type = "link"}
  IN  IF \A c \in comps : c.status = "unknown" THEN "UNKNOWN"
      ELSE IF links # {} /\ \A l \in links : l.status = "down" THEN "CRITICAL"
      ELSE IF \E c \in comps : c.impact = "critical" THEN "CRITICAL"
      ELSE IF \E c \in comps : c.impact = "warning" \/ c.status = "degraded" THEN "WARNING"
      ELSE IF \E c \in comps : c.status = "up" THEN "HEALTHY"
      ELSE "UNKNOWN"

Overall(rows) == ComputeOverall(Components(rows))
=============================================================================
