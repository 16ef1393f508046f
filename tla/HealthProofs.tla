---------------------------- MODULE HealthProofs ----------------------------
(***************************************************************************)
(* SiteHealth: for every topology (links, assets, firewalls, SD-WAN on or  *)
(* off, checks and their owners) the verdict of recomputeSite is the one   *)
(* read off the checks, and a check going down never improves it.          *)
(* HealthRecompute: for any number of sites, job loops, attempts, retained *)
(* failures and faults, recomputes of one site never overlap, and every    *)
(* step of the pipeline is a step of HealthView.                           *)
(***************************************************************************)
EXTENDS SiteHealth, HealthRecompute, TLAPS, FiniteSetTheorems

(* An entity is down exactly when one of its enabled checks is DOWN. *)
LEMMA EntityDown ==
  ASSUME NEW rows \in [Checks -> CheckRow], NEW e
  PROVE  (AggregateStatus(rows, EnabledOf(rows, e)) = "down") <=> SomeDown(rows, e)
BY DEF AggregateStatus, EnabledOf, SomeDown, Down, MonitorStatusToTriplet, CheckRow, MonitorStatus

(* An entity is up exactly when none of its checks is DOWN and one is UP. *)
LEMMA EntityUp ==
  ASSUME NEW rows \in [Checks -> CheckRow], NEW e
  PROVE  (AggregateStatus(rows, EnabledOf(rows, e)) = "up") <=> AllWell(rows, e)
BY DEF AggregateStatus, EnabledOf, SomeDown, AllWell, Down, Up, MonitorStatusToTriplet, CheckRow, MonitorStatus

(* An aggregate has one of three values. *)
LEMMA EntityStatus ==
  ASSUME NEW rows, NEW cs
  PROVE  AggregateStatus(rows, cs) \in {"up", "down", "unknown"}
BY DEF AggregateStatus

(* The values of SEVERITY_RANK. *)
LEMMA Ranks ==
  /\ SeverityRank("CRITICAL") = 3 /\ SeverityRank("WARNING") = 2 /\ SeverityRank("INFO") = 1
BY DEF SeverityRank

(* worstSeverityWhenDown returns a severity of a DOWN check that no other
   DOWN check exceeds. *)
LEMMA WorstSeverity ==
  ASSUME NEW rows \in [Checks -> CheckRow], NEW cs \in SUBSET Checks,
         \E c \in cs : rows[c].lastStatus = "DOWN"
  PROVE  LET down == {rows[c].severity : c \in {d \in cs : rows[d].lastStatus = "DOWN"}}
             w    == WorstSeverityWhenDown(rows, cs)
         IN  /\ w \in down
             /\ \A t \in down : SeverityRank(t) <= SeverityRank(w)
<1> DEFINE down == {rows[c].severity : c \in {d \in cs : rows[d].lastStatus = "DOWN"}}
<1>1. down \subseteq Severity /\ down # {}
  BY DEF CheckRow
<1> HIDE DEF down
<1>2. \E s \in down : \A t \in down : SeverityRank(t) <= SeverityRank(s)
  <2>1. CASE "CRITICAL" \in down
    BY <1>1, <2>1, Ranks DEF Severity
  <2>2. CASE "CRITICAL" \notin down /\ "WARNING" \in down
    BY <1>1, <2>2, Ranks DEF Severity
  <2>3. CASE "CRITICAL" \notin down /\ "WARNING" \notin down
    <3>1. down = {"INFO"}
      BY <1>1, <2>3 DEF Severity
    <3> QED BY <3>1, Ranks
  <2> QED BY <2>1, <2>2, <2>3
<1>3. LET w == CHOOSE s \in down : \A t \in down : SeverityRank(t) <= SeverityRank(s)
      IN  w \in down /\ \A t \in down : SeverityRank(t) <= SeverityRank(w)
  BY <1>2
<1>4. WorstSeverityWhenDown(rows, cs) = CHOOSE s \in down : \A t \in down : SeverityRank(t) <= SeverityRank(s)
  BY DEF WorstSeverityWhenDown, down
<1> QED BY <1>3, <1>4 DEF down

HasDown(rows, cs, s) == \E c \in cs : rows[c].lastStatus = "DOWN" /\ rows[c].severity = s

(* The impact of a group of enabled checks, in terms of the checks. *)
LEMMA GroupImpact ==
  ASSUME NEW rows \in [Checks -> CheckRow], NEW cs \in SUBSET Checks
  PROVE  /\ (Impact(rows, cs) = "critical") <=> HasDown(rows, cs, "CRITICAL")
         /\ (Impact(rows, cs) = "warning") <=>
              (HasDown(rows, cs, "WARNING") /\ ~HasDown(rows, cs, "CRITICAL"))
<1>1. (AggregateStatus(rows, cs) = "down") <=> \E c \in cs : rows[c].lastStatus = "DOWN"
  BY DEF AggregateStatus, MonitorStatusToTriplet, CheckRow, MonitorStatus
<1>2. CASE ~\E c \in cs : rows[c].lastStatus = "DOWN"
  BY <1>1, <1>2 DEF Impact, HasDown
<1>3. CASE \E c \in cs : rows[c].lastStatus = "DOWN"
  <2> DEFINE w == WorstSeverityWhenDown(rows, cs)
             down == {rows[c].severity : c \in {d \in cs : rows[d].lastStatus = "DOWN"}}
  <2>1. w \in down /\ \A t \in down : SeverityRank(t) <= SeverityRank(w)
    BY <1>3, WorstSeverity
  <2>2. Impact(rows, cs) = SeverityToImpact(w)
    BY <1>1, <1>3 DEF Impact
  <2>3. \A s \in Severity : s \in down <=> HasDown(rows, cs, s)
    BY DEF HasDown
  <2>4. down \subseteq Severity
    BY DEF CheckRow
  <2> HIDE DEF w, down
  <2>5. (w = "CRITICAL") <=> ("CRITICAL" \in down)
    BY <2>1, <2>4, Ranks DEF Severity
  <2>6. (w = "WARNING") <=> ("WARNING" \in down /\ "CRITICAL" \notin down)
    BY <2>1, <2>4, Ranks DEF Severity
  <2>7. w \in Severity
    BY <2>1, <2>4
  <2>8. (SeverityToImpact(w) = "critical") <=> (w = "CRITICAL")
    BY <2>7 DEF SeverityToImpact, Severity
  <2>9. (SeverityToImpact(w) = "warning") <=> (w = "WARNING")
    BY <2>7 DEF SeverityToImpact, Severity
  <2> QED BY <2>2, <2>3, <2>5, <2>6, <2>8, <2>9 DEF Severity
<1> QED BY <1>2, <1>3

(* The shape of every component, by the list it comes from. *)
LEMMA ComponentShape ==
  ASSUME NEW rows \in [Checks -> CheckRow]
  PROVE  /\ \A c \in LinkComponents(rows) : c.type = "link"
         /\ \A c \in AssetComponents(rows) : c.type = "asset"
         /\ \A c \in SdwanComponents(rows) : c.type = "sdwan"
         /\ \A c \in SiteMonitorComponents(rows) : c.type = "site-monitor"
         /\ {c \in Components(rows) : c.type = "link"} = LinkComponents(rows)
<1>1. \A c \in LinkComponents(rows) : c.type = "link"
  BY DEF LinkComponents, EntityComponent
<1>2. \A c \in AssetComponents(rows) : c.type = "asset"
  BY DEF AssetComponents, EntityComponent
<1>3. \A c \in SdwanComponents(rows) : c.type = "sdwan"
  BY DEF SdwanComponents
<1>4. \A c \in SiteMonitorComponents(rows) : c.type = "site-monitor"
  <2>1. \A d : SiteCheckComponent(rows, d).type = "site-monitor"
    BY DEF SiteCheckComponent
  <2> QED BY <2>1 DEF SiteMonitorComponents
<1>5. {c \in Components(rows) : c.type = "link"} = LinkComponents(rows)
  BY <1>1, <1>2, <1>3, <1>4 DEF Components
<1> QED BY <1>1, <1>2, <1>3, <1>4, <1>5

(* The SD-WAN component in terms of the firewalls' checks. *)
LEMMA SdwanShape ==
  ASSUME NEW rows \in [Checks -> CheckRow]
  PROVE  /\ (\E c \in SdwanComponents(rows) : c.impact = "critical") <=> (FirewallDown(rows) /\ ~FirewallUp(rows))
         /\ (\E c \in SdwanComponents(rows) : c.impact = "warning" \/ c.status = "degraded")
              <=> (FirewallDown(rows) /\ FirewallUp(rows))
         /\ (\E c \in SdwanComponents(rows) : c.status = "up") <=> (FirewallUp(rows) /\ ~FirewallDown(rows))
         /\ (\A c \in SdwanComponents(rows) : c.status = "unknown") <=> ~(FirewallUp(rows) \/ FirewallDown(rows))
<1> DEFINE M == MonitoredFirewalls(rows)
           U == UpFirewalls(rows)
<1>1. U = {f \in Firewalls : AllWell(rows, f)}
  BY EntityUp DEF UpFirewalls
<1>2. M = {f \in Firewalls : AllWell(rows, f) \/ SomeDown(rows, f)}
  BY EntityUp, EntityDown, EntityStatus DEF MonitoredFirewalls
<1>3. \A f : ~(AllWell(rows, f) /\ SomeDown(rows, f))
  BY DEF AllWell
<1>4. SdwanEnabled => ((M # {} /\ U # M) <=> FirewallDown(rows))
  BY <1>1, <1>2, <1>3 DEF FirewallDown
<1>5. SdwanEnabled => (U # {} <=> FirewallUp(rows))
  BY <1>1 DEF FirewallUp
<1>6. U \subseteq M
  BY <1>1, <1>2
<1>7. ~SdwanEnabled => ~FirewallDown(rows) /\ ~FirewallUp(rows)
  BY DEF FirewallDown, FirewallUp
<1>8. CASE ~SdwanEnabled \/ M = {}
  <2>1. SdwanComponents(rows) = {}
    BY <1>8 DEF SdwanComponents
  <2> QED BY <2>1, <1>8, <1>4, <1>5, <1>6, <1>7
<1>9. CASE SdwanEnabled /\ M # {} /\ U = M
  <2>1. SdwanComponents(rows) = {[type |-> "sdwan", id |-> "sdwan", status |-> "up", impact |-> "none"]}
    BY <1>9 DEF SdwanComponents
  <2> HIDE DEF M, U
  <2> QED BY <2>1, <1>9, <1>4, <1>5
<1>10. CASE SdwanEnabled /\ M # {} /\ U # M /\ U = {}
  <2>1. SdwanComponents(rows) = {[type |-> "sdwan", id |-> "sdwan", status |-> "down", impact |-> "critical"]}
    BY <1>10 DEF SdwanComponents
  <2> HIDE DEF M, U
  <2> QED BY <2>1, <1>10, <1>4, <1>5
<1>11. CASE SdwanEnabled /\ M # {} /\ U # M /\ U # {}
  <2>1. SdwanComponents(rows) = {[type |-> "sdwan", id |-> "sdwan", status |-> "degraded", impact |-> "warning"]}
    BY <1>11 DEF SdwanComponents
  <2> HIDE DEF M, U
  <2> QED BY <2>1, <1>11, <1>4, <1>5
<1> QED BY <1>8, <1>9, <1>10, <1>11

Entities == Links \cup (Assets \ Firewalls)

(* The checks counted outside the SD-WAN group belong to a link, a plain
   asset or the site itself. *)
LEMMA CountedOwners ==
  ASSUME SiteShape
  PROVE  /\ \A c \in Checks : Owner[c] \notin Firewalls <=> Owner[c] \in Entities \cup {SiteItself}
         /\ SiteItself \notin Entities
BY DEF SiteShape, Entities, SiteItself

(* A list of components carries an impact exactly when a check of its
   entities is DOWN with that severity and none with a worse one. *)
LEMMA EntityImpact ==
  ASSUME NEW rows \in [Checks -> CheckRow], NEW e
  PROVE  LET i == Impact(rows, EnabledOf(rows, e)) IN
         /\ (i = "critical") <=>
              \E c \in Checks : Owner[c] = e /\ Down(rows, c) /\ rows[c].severity = "CRITICAL"
         /\ (i = "warning") <=>
              /\ \E c \in Checks : Owner[c] = e /\ Down(rows, c) /\ rows[c].severity = "WARNING"
              /\ ~\E c \in Checks : Owner[c] = e /\ Down(rows, c) /\ rows[c].severity = "CRITICAL"
<1>1. EnabledOf(rows, e) \in SUBSET Checks
  BY DEF EnabledOf
<1>2. \A s : HasDown(rows, EnabledOf(rows, e), s) <=>
        \E c \in Checks : Owner[c] = e /\ Down(rows, c) /\ rows[c].severity = s
  BY DEF HasDown, EnabledOf, Down
<1> QED BY <1>1, <1>2, GroupImpact

(* A site-level check makes a component of its own. *)
LEMMA SiteCheckShape ==
  ASSUME NEW rows \in [Checks -> CheckRow], NEW c \in EnabledOf(rows, SiteItself)
  PROVE  LET comp == SiteCheckComponent(rows, c) IN
         /\ (comp.impact = "critical") <=> (Down(rows, c) /\ rows[c].severity = "CRITICAL")
         /\ (comp.impact = "warning") <=> (Down(rows, c) /\ rows[c].severity = "WARNING")
         /\ (comp.status = "up") <=> Up(rows, c)
         /\ (comp.status = "unknown") <=> ~(Up(rows, c) \/ Down(rows, c))
         /\ comp.status # "degraded"
<1>1. c \in Checks /\ rows[c].enabled /\ {c} \in SUBSET Checks /\ Owner[c] = SiteItself
  BY DEF EnabledOf
<1>2. \A s : HasDown(rows, {c}, s) <=> (Down(rows, c) /\ rows[c].severity = s)
  BY <1>1 DEF HasDown, Down
<1>3. /\ (Impact(rows, {c}) = "critical") <=> (Down(rows, c) /\ rows[c].severity = "CRITICAL")
      /\ (Impact(rows, {c}) = "warning") <=> (Down(rows, c) /\ rows[c].severity = "WARNING")
  BY <1>1, <1>2, GroupImpact
<1>4. SiteCheckComponent(rows, c).impact = Impact(rows, {c})
  BY DEF SiteCheckComponent
<1>5. SiteCheckComponent(rows, c).status = MonitorStatusToTriplet(rows[c].lastStatus)
  BY DEF SiteCheckComponent
<1>6. rows[c].lastStatus \in MonitorStatus
  BY <1>1 DEF CheckRow
<1> QED BY <1>1, <1>3, <1>4, <1>5, <1>6 DEF Up, Down, MonitorStatusToTriplet, MonitorStatus

(* The four questions computeOverall asks of the components, answered from
   the checks. *)
LEMMA Verdict ==
  ASSUME SiteShape, NEW rows \in [Checks -> CheckRow]
  PROVE  LET C == Components(rows) IN
         /\ (\E c \in C : c.impact = "critical")
              <=> (DownAt(rows, "CRITICAL") \/ (FirewallDown(rows) /\ ~FirewallUp(rows)))
         /\ ~DownAt(rows, "CRITICAL") =>
              ((\E c \in C : c.impact = "warning" \/ c.status = "degraded")
                 <=> (DownAt(rows, "WARNING") \/ (FirewallDown(rows) /\ FirewallUp(rows))))
         /\ (\E c \in C : c.status = "up") <=>
              \/ \E e \in Entities : AllWell(rows, e)
              \/ \E c \in Checks : Owner[c] = SiteItself /\ Up(rows, c)
              \/ FirewallUp(rows) /\ ~FirewallDown(rows)
         /\ (\A c \in C : c.status = "unknown") =>
              /\ ~DownAt(rows, "CRITICAL") /\ ~DownAt(rows, "WARNING")
              /\ ~FirewallDown(rows) /\ ~FirewallUp(rows)
              /\ \A l \in Links : ~SomeDown(rows, l)
<1> DEFINE C == Components(rows)
           S == SdwanComponents(rows)
           Counted == {e \in Entities : e \in Links \/ EnabledOf(rows, e) # {}}
           SC == EnabledOf(rows, SiteItself)
<1>1. /\ \A c \in LinkComponents(rows) \cup AssetComponents(rows) : \E e \in Counted :
            /\ c.status = AggregateStatus(rows, EnabledOf(rows, e))
            /\ c.impact = Impact(rows, EnabledOf(rows, e))
      /\ \A e \in Counted : \E c \in LinkComponents(rows) \cup AssetComponents(rows) :
            /\ c.status = AggregateStatus(rows, EnabledOf(rows, e))
            /\ c.impact = Impact(rows, EnabledOf(rows, e))
  <2>1. \A type, e : /\ EntityComponent(type, rows, e).status = AggregateStatus(rows, EnabledOf(rows, e))
                     /\ EntityComponent(type, rows, e).impact = Impact(rows, EnabledOf(rows, e))
    BY DEF EntityComponent
  <2>2. Counted = Links \cup {b \in Assets \ Firewalls : EnabledOf(rows, b) # {}}
    BY SiteShape DEF Entities, SiteShape
  <2> QED BY <2>1, <2>2 DEF LinkComponents, AssetComponents
<1>2. \A c \in C : \/ c \in LinkComponents(rows) \cup AssetComponents(rows)
                  \/ c \in S
                  \/ \E d \in SC : c = SiteCheckComponent(rows, d)
  BY DEF Components, SiteMonitorComponents
<1>3. /\ LinkComponents(rows) \cup AssetComponents(rows) \subseteq C
      /\ S \subseteq C
      /\ \A d \in SC : SiteCheckComponent(rows, d) \in C
  BY DEF Components, SiteMonitorComponents
<1>4. \A e \in Entities \ Counted : ~SomeDown(rows, e) /\ ~AllWell(rows, e)
  BY DEF EnabledOf, SomeDown, AllWell, Up, Down
<1>5. \A d \in Checks : (Owner[d] = SiteItself /\ (Up(rows, d) \/ Down(rows, d))) => d \in SC
  BY DEF EnabledOf, Up, Down
<1>6. \A d \in SC : d \in Checks /\ Owner[d] = SiteItself
  BY DEF EnabledOf
<1> HIDE DEF C, S, SC, Counted
<1>7. \A s : DownAt(rows, s) <=>
        \/ \E e \in Entities : \E c \in Checks : Owner[c] = e /\ Down(rows, c) /\ rows[c].severity = s
        \/ \E c \in Checks : Owner[c] = SiteItself /\ Down(rows, c) /\ rows[c].severity = s
  BY CountedOwners DEF DownAt
<1>8. \A s : \A e \in Entities :
        (\E c \in Checks : Owner[c] = e /\ Down(rows, c) /\ rows[c].severity = s) => e \in Counted
  BY <1>4 DEF SomeDown
<1>9. (\E c \in C : c.impact = "critical")
         <=> (DownAt(rows, "CRITICAL") \/ (FirewallDown(rows) /\ ~FirewallUp(rows)))
  <2>1. (\E c \in LinkComponents(rows) \cup AssetComponents(rows) : c.impact = "critical")
          <=> \E e \in Counted : Impact(rows, EnabledOf(rows, e)) = "critical"
    BY <1>1
  <2>2. (\E e \in Counted : Impact(rows, EnabledOf(rows, e)) = "critical") <=>
          \E e \in Entities : \E c \in Checks : Owner[c] = e /\ Down(rows, c) /\ rows[c].severity = "CRITICAL"
    BY EntityImpact, <1>8 DEF Counted
  <2>3. (\E d \in SC : SiteCheckComponent(rows, d).impact = "critical") <=>
          \E c \in Checks : Owner[c] = SiteItself /\ Down(rows, c) /\ rows[c].severity = "CRITICAL"
    BY SiteCheckShape, <1>5, <1>6 DEF SC
  <2> QED BY <2>1, <2>2, <2>3, <1>2, <1>3, <1>7, SdwanShape DEF S
<1>10. ASSUME ~DownAt(rows, "CRITICAL")
       PROVE  (\E c \in C : c.impact = "warning" \/ c.status = "degraded")
                <=> (DownAt(rows, "WARNING") \/ (FirewallDown(rows) /\ FirewallUp(rows)))
  <2>1. (\E c \in LinkComponents(rows) \cup AssetComponents(rows) : c.impact = "warning" \/ c.status = "degraded")
          <=> \E e \in Counted : Impact(rows, EnabledOf(rows, e)) = "warning"
    BY <1>1, EntityStatus
  <2>2. (\E e \in Counted : Impact(rows, EnabledOf(rows, e)) = "warning") <=>
          \E e \in Entities : \E c \in Checks : Owner[c] = e /\ Down(rows, c) /\ rows[c].severity = "WARNING"
    BY EntityImpact, <1>7, <1>8, <1>10 DEF Counted
  <2>3. (\E d \in SC : SiteCheckComponent(rows, d).impact = "warning" \/ SiteCheckComponent(rows, d).status = "degraded") <=>
          \E c \in Checks : Owner[c] = SiteItself /\ Down(rows, c) /\ rows[c].severity = "WARNING"
    BY SiteCheckShape, <1>5, <1>6 DEF SC
  <2> QED BY <2>1, <2>2, <2>3, <1>2, <1>3, <1>7, SdwanShape DEF S
<1>11. (\E c \in C : c.status = "up") <=>
              \/ \E e \in Entities : AllWell(rows, e)
              \/ \E c \in Checks : Owner[c] = SiteItself /\ Up(rows, c)
              \/ FirewallUp(rows) /\ ~FirewallDown(rows)
  <2>1. (\E c \in LinkComponents(rows) \cup AssetComponents(rows) : c.status = "up")
          <=> \E e \in Counted : AggregateStatus(rows, EnabledOf(rows, e)) = "up"
    BY <1>1
  <2>2. (\E e \in Counted : AggregateStatus(rows, EnabledOf(rows, e)) = "up") <=> \E e \in Entities : AllWell(rows, e)
    BY EntityUp, <1>4 DEF Counted
  <2>3. (\E d \in SC : SiteCheckComponent(rows, d).status = "up") <=>
          \E c \in Checks : Owner[c] = SiteItself /\ Up(rows, c)
    BY SiteCheckShape, <1>5, <1>6 DEF SC
  <2> QED BY <2>1, <2>2, <2>3, <1>2, <1>3, SdwanShape DEF S
<1>12. ASSUME \A c \in C : c.status = "unknown"
       PROVE  /\ ~DownAt(rows, "CRITICAL") /\ ~DownAt(rows, "WARNING")
              /\ ~FirewallDown(rows) /\ ~FirewallUp(rows)
              /\ \A l \in Links : ~SomeDown(rows, l)
  <2>1. ~FirewallDown(rows) /\ ~FirewallUp(rows)
    BY <1>12, <1>3, SdwanShape DEF S
  <2>2. \A e \in Counted : AggregateStatus(rows, EnabledOf(rows, e)) = "unknown"
    BY <1>12, <1>3, <1>1
  <2>3. \A e \in Entities : ~SomeDown(rows, e)
    BY <2>2, <1>4, EntityDown
  <2>4. \A d \in SC : ~Down(rows, d)
    BY <1>12, <1>3, SiteCheckShape DEF SC
  <2>5. Links \subseteq Entities
    BY DEF Entities
  <2>6. \A s : ~DownAt(rows, s)
    BY <2>3, <2>4, <1>5, <1>7 DEF SomeDown
  <2> QED BY <2>1, <2>3, <2>5, <2>6
<1> QED BY <1>9, <1>10, <1>11, <1>12 DEF C

(* For every topology and every content of the check rows, the verdict of
   recomputeSite is the one read off the checks. *)
THEOREM OverallIsCheckLevel ==
  ASSUME SiteShape, NEW rows \in [Checks -> CheckRow]
  PROVE  Overall(rows) = CheckLevelOverall(rows)
<1> DEFINE C == Components(rows)
<1>1. (\E l \in LinkComponents(rows) : TRUE) <=> Links # {}
  BY DEF LinkComponents
<1>2. (\A l \in LinkComponents(rows) : l.status = "down") <=> \A l \in Links : SomeDown(rows, l)
  <2>1. \A l : EntityComponent("link", rows, l).status = AggregateStatus(rows, EnabledOf(rows, l))
    BY DEF EntityComponent
  <2> QED BY <2>1, EntityDown DEF LinkComponents
<1>3. {c \in C : c.type = "link"} = LinkComponents(rows)
  BY ComponentShape
<1>4. LinksLost(rows) <=> (LinkComponents(rows) # {} /\ \A l \in LinkComponents(rows) : l.status = "down")
  BY <1>1, <1>2 DEF LinksLost
<1>5. LinksLost(rows) => \E l \in Links : SomeDown(rows, l)
  BY DEF LinksLost
<1>6. SomethingUp(rows) <=>
        \/ \E e \in Entities : AllWell(rows, e)
        \/ \E c \in Checks : Owner[c] = SiteItself /\ Up(rows, c)
        \/ FirewallUp(rows)
  BY DEF SomethingUp, Entities
<1>7. (\A c \in C : c.status = "unknown") => ~\E c \in C : c.status = "up"
  OBVIOUS
<1> HIDE DEF C
<1>8. CASE \A c \in C : c.status = "unknown"
  <2>1. Overall(rows) = "UNKNOWN"
    BY <1>8 DEF Overall, ComputeOverall, C
  <2>2. ~SomethingUp(rows) /\ ~LinksLost(rows)
    BY <1>8, <1>5, <1>6, <1>7, Verdict DEF C
  <2> QED BY <2>1, <2>2, <1>8, Verdict DEF CheckLevelOverall, C
<1>9. CASE ~\A c \in C : c.status = "unknown"
  BY <1>9, <1>3, <1>4, <1>6, Verdict DEF Overall, ComputeOverall, CheckLevelOverall, C
<1> QED BY <1>8, <1>9

(* The check rows stay check rows. *)
THEOREM SiteTypeCorrect == SiteSpec => []SiteTypeOK
<1>1. SiteInit => SiteTypeOK
  <2>1. \A s \in Severity : NewCheck(s) \in CheckRow
    BY DEF NewCheck, CheckRow, MonitorStatus
  <2> QED BY <2>1 DEF SiteInit, SiteTypeOK
<1>2. SiteTypeOK /\ [SiteNext]_siteVars => SiteTypeOK'
  <2> SUFFICES ASSUME SiteTypeOK, SiteNext PROVE SiteTypeOK'
    BY DEF SiteTypeOK, siteVars
  <2>1. PICK c \in Checks : Probe(c) \/ SetEnabled(c) \/ SetSeverity(c)
    BY DEF SiteNext
  <2>2. checks[c] \in CheckRow
    BY DEF SiteTypeOK
  <2>3. CASE Probe(c)
    BY <2>2, <2>3 DEF Probe, ProbeResult, SiteTypeOK, CheckRow, MonitorStatus
  <2>4. CASE SetEnabled(c)
    BY <2>2, <2>4 DEF SetEnabled, SiteTypeOK, CheckRow
  <2>5. CASE SetSeverity(c)
    BY <2>2, <2>5 DEF SetSeverity, SiteTypeOK, CheckRow
  <2> QED BY <2>1, <2>3, <2>4, <2>5
<1> QED BY <1>1, <1>2, PTL DEF SiteSpec

(* In every reachable state of the checks, aggregation loses nothing. *)
THEOREM AggregationCorrect == SiteSpec => []AggregationMatchesChecks
<1>1. SiteTypeOK => AggregationMatchesChecks
  BY SiteShape, OverallIsCheckLevel DEF SiteTypeOK, AggregationMatchesChecks
<1> QED BY <1>1, SiteTypeCorrect, PTL

(* Two contents of the rows that differ in one check, UP in the first and
   DOWN in the second: the second verdict is at least as grave. *)
LEMMA OneMoreDown ==
  ASSUME SiteShape, NEW up \in [Checks -> CheckRow], NEW down \in [Checks -> CheckRow], NEW c \in Checks,
         up[c].enabled, up[c].lastStatus = "UP",
         down = [up EXCEPT ![c].lastStatus = "DOWN"]
  PROVE  Gravity(Overall(down)) >= Gravity(Overall(up))
<1>1. \A d \in Checks : /\ Down(up, d) => Down(down, d)
                        /\ Up(down, d) => Up(up, d)
                        /\ down[d].severity = up[d].severity
  BY DEF Down, Up, CheckRow
<1>2. \A e : /\ SomeDown(up, e) => SomeDown(down, e)
             /\ AllWell(down, e) => AllWell(up, e)
  BY <1>1 DEF SomeDown, AllWell
<1>3. \A s : DownAt(up, s) => DownAt(down, s)
  BY <1>1 DEF DownAt
<1>4. /\ LinksLost(up) => LinksLost(down)
      /\ FirewallDown(up) => FirewallDown(down)
      /\ FirewallUp(down) => FirewallUp(up)
  BY <1>2 DEF LinksLost, FirewallDown, FirewallUp
<1>5. Gravity("CRITICAL") = 2 /\ Gravity("WARNING") = 1 /\ Gravity("HEALTHY") = 0 /\ Gravity("UNKNOWN") = 0
  BY DEF Gravity
<1>6. /\ CheckLevelOverall(up) = "CRITICAL" => CheckLevelOverall(down) = "CRITICAL"
      /\ CheckLevelOverall(up) = "WARNING" => CheckLevelOverall(down) \in {"CRITICAL", "WARNING"}
      /\ CheckLevelOverall(up) \in HealthStatus
      /\ CheckLevelOverall(down) \in HealthStatus
  BY <1>3, <1>4 DEF CheckLevelOverall, HealthStatus
<1>7. Gravity(CheckLevelOverall(down)) >= Gravity(CheckLevelOverall(up))
  BY <1>5, <1>6 DEF HealthStatus
<1> QED BY <1>7, OverallIsCheckLevel

(* A check going down never improves the verdict and a check coming back
   never worsens it, for every topology. *)
THEOREM DownIsMonotone == SiteSpec => DownNeverImproves
<1> DEFINE Step == \A c \in Checks :
       /\ OnlyStatusOf(c, "UP", "DOWN") => Gravity(Overall(checks')) >= Gravity(Overall(checks))
       /\ OnlyStatusOf(c, "DOWN", "UP") => Gravity(Overall(checks')) <= Gravity(Overall(checks))
<1>1. SiteTypeOK /\ SiteTypeOK' => Step
  <2> SUFFICES ASSUME SiteTypeOK, SiteTypeOK', NEW c \in Checks
               PROVE  /\ OnlyStatusOf(c, "UP", "DOWN") => Gravity(Overall(checks')) >= Gravity(Overall(checks))
                      /\ OnlyStatusOf(c, "DOWN", "UP") => Gravity(Overall(checks')) <= Gravity(Overall(checks))
    OBVIOUS
  <2>1. ASSUME OnlyStatusOf(c, "UP", "DOWN")
        PROVE  Gravity(Overall(checks')) >= Gravity(Overall(checks))
    <3>1. checks \in [Checks -> CheckRow] /\ checks' \in [Checks -> CheckRow]
      BY DEF SiteTypeOK
    <3> QED BY <2>1, <3>1, SiteShape, OneMoreDown DEF OnlyStatusOf
  <2>2. ASSUME OnlyStatusOf(c, "DOWN", "UP")
        PROVE  Gravity(Overall(checks)) >= Gravity(Overall(checks'))
    <3>1. checks \in [Checks -> CheckRow] /\ checks' \in [Checks -> CheckRow]
      BY DEF SiteTypeOK
    <3>2. checks'[c].enabled /\ checks'[c].lastStatus = "UP"
      BY <2>2, <3>1 DEF OnlyStatusOf, CheckRow
    <3>3. checks = [checks' EXCEPT ![c].lastStatus = "DOWN"]
      BY <2>2, <3>1 DEF OnlyStatusOf, CheckRow
    <3> QED BY <3>1, <3>2, <3>3, SiteShape, OneMoreDown
  <2>3. \A h : Gravity(h) \in Int
    BY DEF Gravity
  <2> QED BY <2>1, <2>2, <2>3
<1>2. SiteTypeOK /\ SiteTypeOK' => [Step]_siteVars
  BY <1>1
<1> HIDE DEF Step
<1>3. SiteSpec => [][Step]_siteVars
  BY <1>2, SiteTypeCorrect, PTL
<1> QED BY <1>3 DEF Step, DownNeverImproves

-----------------------------------------------------------------------------
Busy(w) == worker[w].site # NoSite

(* The retained failed jobs are exactly listed, each site once. *)
JobsKept ==
  /\ job \in [Sites -> Job] /\ failed \in Seq(Sites)
  /\ \A i \in 1 .. Len(failed) : job[failed[i]].state = "failed"
  /\ \A i, k \in 1 .. Len(failed) : failed[i] = failed[k] => i = k

(* A busy loop holds the active job of its site, alone. *)
Loops ==
  /\ worker \in [Workers -> Loop]
  /\ \A w \in Workers : Busy(w) <=> worker[w].phase # "idle"
  /\ \A w \in Workers : Busy(w) => job[worker[w].site].state = "active"
  /\ \A v, w \in Workers : Busy(v) /\ worker[v].site = worker[w].site => v = w

(* What a loop read is between what is shown and what is true. *)
Versions ==
  /\ truth \in [Sites -> Nat] /\ shown \in [Sites -> Nat]
  /\ \A s \in Sites : shown[s] <= truth[s]
  /\ \A w \in Workers : worker[w].phase = "write" =>
       shown[worker[w].site] <= worker[w].seen /\ worker[w].seen <= truth[worker[w].site]

Others ==
  /\ exists \subseteq Sites /\ owed \subseteq Sites
  /\ cron \in [running : BOOLEAN, todo : SUBSET Sites]
  /\ faults \in [db : Nat, redis : Nat, crash : Nat]

(* The invariant, in parts so that each action names what it disturbs. *)
IInv == JobsKept /\ Loops /\ Versions /\ Others

(* Retaining a failed job keeps the list of failed jobs exact, and touches
   no job that has not failed. *)
LEMMA RetainKeeps ==
  ASSUME JobsKept, NEW s \in Sites, job[s].state # "failed", NEW j \in Job, Retain(s, j)
  PROVE  /\ JobsKept'
         /\ \A t \in Sites : t # s /\ job[t].state # "failed" => job'[t] = job[t]
<1> DEFINE full == Len(failed) = KeepFailed
           kept == IF full THEN Tail(failed) ELSE failed
<1>1. KeepFailed \in Nat \ {0}
  BY Parameters
<1>2. full => failed # <<>>
  BY <1>1 DEF JobsKept
<1>3. kept \in Seq(Sites)
  BY <1>2 DEF JobsKept
<1>4. \A i \in 1 .. Len(kept) : /\ kept[i] \in Sites
                                /\ kept[i] # s
                                /\ full => kept[i] # Head(failed)
                                /\ job[kept[i]].state = "failed"
  BY <1>2 DEF JobsKept
<1>5. \A i, k \in 1 .. Len(kept) : kept[i] = kept[k] => i = k
  BY <1>2 DEF JobsKept
<1>6. full => Head(failed) \in Sites /\ job[Head(failed)].state = "failed"
  BY <1>2 DEF JobsKept
<1> HIDE DEF kept
<1>7. failed' = Append(kept, s)
  BY DEF Retain, kept
<1>8. job' = [t \in Sites |-> IF t = s THEN [j EXCEPT !.state = "failed"]
                              ELSE IF full /\ t = Head(failed) THEN NoJob
                              ELSE job[t]]
  BY DEF Retain
<1>9. NoJob \in Job /\ [j EXCEPT !.state = "failed"] \in Job /\ [j EXCEPT !.state = "failed"].state = "failed"
  BY DEF NoJob, Job
<1> HIDE DEF full
<1>10. job' \in [Sites -> Job]
  BY <1>8, <1>9 DEF JobsKept
<1>11. failed' \in Seq(Sites) /\ Len(failed') = Len(kept) + 1
  BY <1>3, <1>7
<1>12. \A i \in 1 .. Len(failed') : failed'[i] = IF i = Len(kept) + 1 THEN s ELSE kept[i]
  BY <1>3, <1>7, <1>11
<1>13. \A i \in 1 .. Len(failed') : job'[failed'[i]].state = "failed"
  <2> TAKE i \in 1 .. Len(failed')
  <2>1. CASE i = Len(kept) + 1
    BY <2>1, <1>8, <1>9, <1>12
  <2>2. CASE i # Len(kept) + 1
    <3>1. i \in 1 .. Len(kept)
      BY <2>2, <1>3, <1>11
    <3> QED BY <2>2, <3>1, <1>4, <1>8, <1>12
  <2> QED BY <2>1, <2>2
<1>14. \A i, k \in 1 .. Len(failed') : failed'[i] = failed'[k] => i = k
  BY <1>3, <1>4, <1>5, <1>11, <1>12
<1>15. \A t \in Sites : t # s /\ job[t].state # "failed" => job'[t] = job[t]
  BY <1>6, <1>8
<1> QED BY <1>10, <1>11, <1>13, <1>14, <1>15 DEF JobsKept

(* A handler that throws delays, retains or frees jobs, and touches no other
   site's job that has not failed. *)
LEMMA ThrowKeeps ==
  ASSUME JobsKept, NEW s \in Sites, job[s].state = "active", Throw(s)
  PROVE  /\ JobsKept'
         /\ \A t \in Sites : t # s /\ job[t].state # "failed" => job'[t] = job[t]
<1> DEFINE j == [job[s] EXCEPT !.attempts = @ + 1]
<1>1. j \in Job /\ [j EXCEPT !.state = "delayed"] \in Job
  <2>1. job[s] \in Job
    BY DEF JobsKept
  <2>2. j \in Job
    BY <2>1 DEF Job
  <2> HIDE DEF j
  <2> QED BY <2>2 DEF Job
<1>2. CASE j.attempts < Attempts
  <2>1. job' = [job EXCEPT ![s] = [j EXCEPT !.state = "delayed"]] /\ failed' = failed
    BY <1>2 DEF Throw
  <2>2. \A i \in 1 .. Len(failed) : failed[i] # s /\ failed[i] \in Sites
    BY DEF JobsKept
  <2> HIDE DEF j
  <2> QED BY <1>1, <2>1, <2>2 DEF JobsKept
<1>3. CASE ~(j.attempts < Attempts)
  <2>1. Retain(s, j)
    BY <1>3 DEF Throw
  <2> HIDE DEF j
  <2> QED BY <1>1, <2>1, RetainKeeps
<1> QED BY <1>2, <1>3

(* Changing one job that is not failed to another state that is not failed
   keeps the list of failed jobs exact. *)
LEMMA SetJobKeeps ==
  ASSUME JobsKept, NEW s \in Sites, job[s].state # "failed", NEW j \in Job,
         job' = [job EXCEPT ![s] = j], UNCHANGED failed
  PROVE  JobsKept' /\ \A t \in Sites : t # s => job'[t] = job[t]
<1>1. \A i \in 1 .. Len(failed) : failed[i] # s /\ failed[i] \in Sites
  BY DEF JobsKept
<1> QED BY <1>1 DEF JobsKept

(* enqueueRecompute touches no job that exists. *)
LEMMA EnqueueKeeps ==
  ASSUME JobsKept, NEW s \in Sites, EnqueueRecompute(s), UNCHANGED failed
  PROVE  JobsKept' /\ \A t \in Sites : job[t].state # "none" => job'[t] = job[t]
<1>1. CASE job' = job
  BY <1>1 DEF JobsKept
<1>2. CASE job[s].state = "none" /\ job' = [job EXCEPT ![s] = [NoJob EXCEPT !.state = "delayed"]]
  <2>1. [NoJob EXCEPT !.state = "delayed"] \in Job
    BY DEF NoJob, Job
  <2> QED BY <1>2, <2>1, SetJobKeeps
<1> QED BY <1>1, <1>2 DEF EnqueueRecompute, Add

(* Which site a busy loop is on. *)
LEMMA BusySite ==
  ASSUME Loops, NEW w \in Workers, worker[w].phase # "idle"
  PROVE  /\ worker[w].site \in Sites
         /\ job[worker[w].site].state = "active"
         /\ worker[w].seen \in Nat
         /\ \A v \in Workers : v # w => worker[v].site # worker[w].site
BY DEF Loops, Busy, Loop

(* A loop that throws becomes idle and leaves the other loops their jobs. *)
LEMMA FailKeeps ==
  ASSUME JobsKept, Loops, NEW w \in Workers, worker[w].phase # "idle", Fail(w)
  PROVE  /\ JobsKept' /\ Loops'
         /\ \A v \in Workers : worker'[v].phase = "write" => worker'[v] = worker[v]
<1> DEFINE s == worker[w].site
<1>1. s \in Sites /\ job[s].state = "active" /\ \A v \in Workers : v # w => worker[v].site # s
  BY BusySite
<1>2. Throw(s) /\ worker' = [worker EXCEPT ![w] = Idle]
  BY DEF Fail
<1>3. /\ JobsKept'
      /\ \A t \in Sites : t # s /\ job[t].state # "failed" => job'[t] = job[t]
  BY <1>1, <1>2, ThrowKeeps
<1>4. Idle \in Loop /\ Idle.site = NoSite /\ Idle.phase = "idle"
  BY DEF Idle, Loop
<1> HIDE DEF s
<1>5. worker' \in [Workers -> Loop] /\ \A v \in Workers : worker'[v] = IF v = w THEN Idle ELSE worker[v]
  BY <1>2, <1>4 DEF Loops
<1>6. \A v \in Workers : v # w /\ Busy(v) => worker[v].site \in Sites /\ worker[v].site # s /\ job'[worker[v].site].state = "active"
  BY <1>1, <1>3 DEF Loops, Loop, Busy
<1>7. Loops'
  BY <1>4, <1>5, <1>6 DEF Loops, Busy
<1> QED BY <1>3, <1>4, <1>5, <1>7

(* A step that leaves the loops and the versions alone keeps their parts if
   the active jobs stay as they are. *)
LEMMA QueueStep ==
  ASSUME Loops, Versions, UNCHANGED <<worker, truth, shown>>,
         \A t \in Sites : (\E w \in Workers : worker[w].site = t) => job'[t].state = job[t].state
  PROVE  Loops' /\ Versions'
<1>1. \A w \in Workers : Busy(w) => worker[w].site \in Sites
  BY DEF Loops, Busy, Loop
<1> QED BY <1>1 DEF Loops, Versions, Busy

LEMMA FaultType ==
  ASSUME faults \in [db : Nat, redis : Nat, crash : Nat], NEW k \in {"db", "redis", "crash"}, NEW b, Fault(k, b)
  PROVE  faults' \in [db : Nat, redis : Nat, crash : Nat]
BY DEF Fault

(* The probe result: only the version of the checks moves, upwards. *)
LEMMA TransitionKeeps == ASSUME IInv, NEW s \in Sites, Transition(s) PROVE IInv'
<1> USE DEF IInv
<1>1. JobsKept' /\ Loops'
  BY DEF Transition, JobsKept, Loops, Busy
<1>2. Versions'
  <2>1. \A w \in Workers : worker[w].phase = "write" => worker[w].site \in Sites /\ worker[w].seen \in Nat
    BY BusySite
  <2> QED BY <2>1 DEF Transition, Versions
<1>3. Others'
  BY DEF Transition, Others
<1> QED BY <1>1, <1>2, <1>3

(* The steps of the queue and of its producers. *)
LEMMA QueueKeeps ==
  ASSUME IInv, NEW s \in Sites, ProbeEnqueue(s) \/ CronStep(s) \/ Promote(s) \/ Stalled(s) \/ RemoveSite(s)
  PROVE  IInv'
<1> USE DEF IInv
<1>0. \A w \in Workers : worker[w].site \in Sites => job[worker[w].site].state = "active"
  BY Parameters DEF Loops, Busy
<1>1. CASE ProbeEnqueue(s)
  <2>1. EnqueueRecompute(s) /\ UNCHANGED failed
    BY <1>1 DEF ProbeEnqueue
  <2>2. JobsKept' /\ \A t \in Sites : job[t].state # "none" => job'[t] = job[t]
    BY <2>1, EnqueueKeeps
  <2>3. Loops' /\ Versions'
    BY <1>0, <1>1, <2>2, QueueStep DEF ProbeEnqueue
  <2>4. Others'
    BY <1>1, <2>1, FaultType DEF ProbeEnqueue, EnqueueRecompute, Others
  <2> QED BY <2>2, <2>3, <2>4
<1>2. CASE CronStep(s)
  <2>1. EnqueueRecompute(s) /\ UNCHANGED failed
    BY <1>2 DEF CronStep
  <2>2. JobsKept' /\ \A t \in Sites : job[t].state # "none" => job'[t] = job[t]
    BY <2>1, EnqueueKeeps
  <2>3. Loops' /\ Versions'
    BY <1>0, <1>2, <2>2, QueueStep DEF CronStep
  <2>4. faults' \in [db : Nat, redis : Nat, crash : Nat]
    BY <2>1, FaultType DEF EnqueueRecompute, Others
  <2>5. cron' \in [running : BOOLEAN, todo : SUBSET Sites]
    BY <1>2 DEF CronStep, Others
  <2>6. Others'
    BY <1>2, <2>4, <2>5 DEF CronStep, Others
  <2> QED BY <2>2, <2>3, <2>6
<1>3. CASE Promote(s)
  <2> DEFINE j == [job[s] EXCEPT !.state = "waiting"]
  <2>1. job[s] \in Job /\ job[s].state = "delayed"
    BY <1>3 DEF Promote, JobsKept
  <2>2. j \in Job /\ job' = [job EXCEPT ![s] = j] /\ UNCHANGED failed
    BY <1>3, <2>1 DEF Promote, Job
  <2> HIDE DEF j
  <2>3. JobsKept' /\ \A t \in Sites : t # s => job'[t] = job[t]
    BY <2>1, <2>2, SetJobKeeps
  <2>4. Loops' /\ Versions'
    BY <1>0, <1>3, <2>1, <2>3, QueueStep DEF Promote
  <2>5. Others'
    BY <1>3 DEF Promote, Others
  <2> QED BY <2>3, <2>4, <2>5
<1>4. CASE Stalled(s)
  <2> DEFINE j == [job[s] EXCEPT !.stalled = @ + 1]
             k == [j EXCEPT !.state = "waiting"]
  <2>1. job[s] \in Job /\ job[s].state = "active" /\ \A w \in Workers : worker[w].site # s
    BY <1>4 DEF Stalled, JobsKept
  <2>2. j \in Job
    BY <2>1 DEF Job
  <2>3. (Retain(s, j)) \/ (job' = [job EXCEPT ![s] = k] /\ UNCHANGED failed)
    BY <1>4 DEF Stalled
  <2> HIDE DEF j
  <2>4. k \in Job
    BY <2>2 DEF Job
  <2> HIDE DEF k
  <2>5. JobsKept' /\ \A t \in Sites : t # s /\ job[t].state # "failed" => job'[t] = job[t]
    BY <2>1, <2>2, <2>3, <2>4, RetainKeeps, SetJobKeeps
  <2>6. Loops' /\ Versions'
    BY <1>0, <1>4, <2>1, <2>5, QueueStep DEF Stalled
  <2>7. Others'
    BY <1>4 DEF Stalled, Others
  <2> QED BY <2>5, <2>6, <2>7
<1>5. CASE RemoveSite(s)
  BY <1>5 DEF RemoveSite, JobsKept, Loops, Versions, Others, Busy
<1> QED BY <1>1, <1>2, <1>3, <1>4, <1>5

(* The steps of a job loop. *)
LEMMA LoopKeeps ==
  ASSUME IInv, NEW w \in Workers,
         Read(w) \/ Write(w) \/ Complete(w) \/ WorkerCrash(w) \/ \E s \in Sites : Take(w, s)
  PROVE  IInv'
<1> USE DEF IInv
<1> DEFINE site == worker[w].site
<1>0. worker[w] \in Loop
  BY DEF Loops
<1>1. CASE Read(w)
  <2>0. worker[w].phase # "idle"
    BY <1>1 DEF Read
  <2>1. site \in Sites
    BY <2>0, BusySite
  <2>2. CASE Fail(w)
    <3>1. JobsKept' /\ Loops' /\ \A v \in Workers : worker'[v].phase = "write" => worker'[v] = worker[v]
      BY <2>0, <2>2, FailKeeps
    <3>2. Versions'
      BY <1>1, <3>1 DEF Read, Versions
    <3>3. Others'
      BY <1>1, FaultType DEF Read, Others
    <3> QED BY <3>1, <3>2, <3>3
  <2>3. CASE /\ worker' = [worker EXCEPT ![w].phase = "write", ![w].seen = truth[worker[w].site]]
             /\ UNCHANGED <<job, failed, faults>>
    <3>1. \A v \in Workers : v # w => worker'[v] = worker[v]
      BY <2>3 DEF Loops
    <3>2. worker'[w].site = site /\ worker'[w].phase = "write" /\ worker'[w].seen = truth[site]
      BY <2>3, <1>0 DEF Loops, Loop
    <3>3. worker' \in [Workers -> Loop]
      BY <2>1, <2>3, <1>0 DEF Loops, Loop, Versions
    <3>4. JobsKept' /\ Loops'
      BY <2>0, <2>3, <3>1, <3>2, <3>3 DEF JobsKept, Loops, Busy
    <3>5. Versions'
      BY <1>1, <2>1, <3>1, <3>2 DEF Read, Versions
    <3>6. Others'
      BY <1>1, <2>3 DEF Read, Others
    <3> QED BY <3>4, <3>5, <3>6
  <2> QED BY <1>1, <2>2, <2>3 DEF Read
<1>2. CASE Write(w)
  <2>0. worker[w].phase = "write"
    BY <1>2 DEF Write
  <2>1. /\ site \in Sites /\ worker[w].seen \in Nat
        /\ \A v \in Workers : v # w => worker[v].site # site
    BY <2>0, BusySite
  <2>2. CASE Fail(w) /\ UNCHANGED shown
    <3>1. JobsKept' /\ Loops' /\ \A v \in Workers : worker'[v].phase = "write" => worker'[v] = worker[v]
      BY <2>0, <2>2, FailKeeps
    <3>2. Versions'
      BY <1>2, <2>2, <3>1 DEF Write, Versions
    <3>3. Others'
      BY <1>2, FaultType DEF Write, Others
    <3> QED BY <3>1, <3>2, <3>3
  <2>3. CASE /\ shown' = [shown EXCEPT ![site] = worker[w].seen]
             /\ worker' = [worker EXCEPT ![w].phase = "complete"]
             /\ UNCHANGED <<job, failed, faults>>
    <3>1. \A v \in Workers : v # w => worker'[v] = worker[v]
      BY <2>3 DEF Loops
    <3>2. worker'[w].site = site /\ worker'[w].phase = "complete"
      BY <2>3, <1>0 DEF Loops, Loop
    <3>3. worker' \in [Workers -> Loop]
      BY <2>1, <2>3, <1>0 DEF Loops, Loop
    <3>4. JobsKept' /\ Loops'
      BY <2>0, <2>3, <3>1, <3>2, <3>3 DEF JobsKept, Loops, Busy
    <3>5. truth' = truth
      BY <1>2 DEF Write
    <3>6. shown' \in [Sites -> Nat] /\ \A s \in Sites : shown'[s] <= truth[s]
      BY <2>0, <2>1, <2>3 DEF Versions
    <3>7. \A v \in Workers : worker'[v].phase = "write" => worker[v] = worker'[v] /\ worker[v].site # site
      BY <3>1, <3>2, <2>1
    <3>8. \A v \in Workers : worker'[v].phase = "write" => shown'[worker'[v].site] = shown[worker[v].site]
      <4> TAKE v \in Workers
      <4> HAVE worker'[v].phase = "write"
      <4>1. worker[v].site \in Sites
        BY <3>7, BusySite
      <4> QED BY <3>7, <4>1, <2>3 DEF Versions
    <3>9. Versions'
      BY <3>5, <3>6, <3>7, <3>8 DEF Versions
    <3>10. Others'
      BY <1>2, <2>3 DEF Write, Others
    <3> QED BY <3>4, <3>9, <3>10
  <2> QED BY <1>2, <2>2, <2>3 DEF Write
<1>3. Idle \in Loop /\ Idle.site = NoSite /\ Idle.phase = "idle"
  BY DEF Idle, Loop
<1>4. CASE Complete(w)
  <2>0. worker[w].phase # "idle"
    BY <1>4 DEF Complete
  <2>1. site \in Sites /\ job[site].state = "active" /\ \A v \in Workers : v # w => worker[v].site # site
    BY <2>0, BusySite
  <2>2. NoJob \in Job /\ job' = [job EXCEPT ![site] = NoJob] /\ UNCHANGED failed
    BY <1>4 DEF Complete, NoJob, Job
  <2>3. JobsKept' /\ \A t \in Sites : t # site => job'[t] = job[t]
    BY <2>1, <2>2, SetJobKeeps
  <2>4. \A v \in Workers : worker'[v] = IF v = w THEN Idle ELSE worker[v]
    BY <1>4 DEF Complete, Loops
  <2>5. worker' \in [Workers -> Loop]
    BY <1>3, <1>4 DEF Complete, Loops
  <2>6. \A v \in Workers : v # w /\ Busy(v) => worker[v].site \in Sites /\ worker[v].site # site
    BY <2>1 DEF Loops, Loop, Busy
  <2>7. Loops'
    BY <1>3, <2>3, <2>4, <2>5, <2>6 DEF Loops, Busy
  <2>8. Versions' /\ Others'
    BY <1>3, <1>4, <2>4 DEF Complete, Versions, Others
  <2> QED BY <2>3, <2>7, <2>8
<1>5. CASE WorkerCrash(w)
  <2>1. \A v \in Workers : worker'[v] = IF v = w THEN Idle ELSE worker[v]
    BY <1>5 DEF WorkerCrash, Loops
  <2>2. worker' \in [Workers -> Loop]
    BY <1>3, <1>5 DEF WorkerCrash, Loops
  <2>3. Loops'
    BY <1>3, <1>5, <2>1, <2>2 DEF WorkerCrash, Loops, Busy
  <2>4. JobsKept' /\ Versions'
    BY <1>3, <1>5, <2>1 DEF WorkerCrash, JobsKept, Versions
  <2>5. Others'
    BY <1>5, FaultType DEF WorkerCrash, Others
  <2> QED BY <2>3, <2>4, <2>5
<1>6. ASSUME NEW s \in Sites, Take(w, s) PROVE IInv'
  <2> DEFINE j == [job[s] EXCEPT !.state = "active"]
             new == [site |-> s, phase |-> "read", seen |-> 0]
  <2>1. job[s] \in Job /\ job[s].state = "waiting" /\ worker[w] = Idle
    BY <1>6 DEF Take, JobsKept
  <2>2. j \in Job /\ j.state = "active" /\ job' = [job EXCEPT ![s] = j] /\ UNCHANGED failed
    BY <1>6, <2>1 DEF Take, Job
  <2>3. new \in Loop /\ new.site = s /\ new.phase = "read" /\ s # NoSite
    BY Parameters DEF Loop
  <2>4. \A v \in Workers : Busy(v) => worker[v].site # s
    BY <2>1 DEF Loops
  <2> HIDE DEF j
  <2>5. JobsKept' /\ \A t \in Sites : t # s => job'[t] = job[t]
    BY <2>1, <2>2, SetJobKeeps
  <2>6. worker' = [worker EXCEPT ![w] = new]
    BY <1>6 DEF Take
  <2> HIDE DEF new
  <2>7. worker' \in [Workers -> Loop] /\ \A v \in Workers : worker'[v] = IF v = w THEN new ELSE worker[v]
    BY <2>3, <2>6 DEF Loops
  <2>8. \A v \in Workers : Busy(v) => worker[v].site \in Sites
    BY DEF Loops, Loop, Busy
  <2>9. job'[s].state = "active"
    BY <2>2 DEF JobsKept
  <2>10. \A v \in Workers : worker[v].site = s => v = w
    BY <2>4, <2>3, <2>1 DEF Busy
  <2>11. Loops'
    <3>1. \A v \in Workers : Busy(v)' <=> worker'[v].phase # "idle"
      BY <2>3, <2>7 DEF Loops, Busy
    <3>2. \A v \in Workers : Busy(v)' => job'[worker'[v].site].state = "active"
      BY <2>3, <2>4, <2>5, <2>7, <2>8, <2>9 DEF Loops, Busy
    <3>3. \A u, v \in Workers : Busy(u)' /\ worker'[u].site = worker'[v].site => u = v
      BY <2>3, <2>7, <2>10 DEF Loops, Busy
    <3> QED BY <2>7, <3>1, <3>2, <3>3 DEF Loops
  <2>12. Versions' /\ Others'
    BY <1>6, <2>3, <2>7 DEF Take, Versions, Others
  <2> QED BY <2>5, <2>11, <2>12
<1> QED BY <1>1, <1>2, <1>4, <1>5, <1>6

LEMMA Inductive == ASSUME IInv, [Next]_vars PROVE IInv'
<1>1. CASE UNCHANGED vars
  BY <1>1 DEF vars, IInv, JobsKept, Loops, Versions, Others, Busy
<1>2. CASE CronTick \/ CronEnd \/ ApiCrash
  <2>1. UNCHANGED <<exists, truth, shown, owed, job, failed, worker>>
    BY <1>2 DEF CronTick, CronEnd, ApiCrash
  <2>2. JobsKept' /\ Loops' /\ Versions'
    BY <2>1 DEF IInv, JobsKept, Loops, Versions, Busy
  <2>3. faults' \in [db : Nat, redis : Nat, crash : Nat]
    BY <1>2, FaultType DEF CronTick, CronEnd, ApiCrash, IInv, Others
  <2>4. cron' \in [running : BOOLEAN, todo : SUBSET Sites]
    <3>1. CronOff \in [running : BOOLEAN, todo : SUBSET Sites]
      BY DEF CronOff
    <3>2. [running |-> TRUE, todo |-> exists] \in [running : BOOLEAN, todo : SUBSET Sites]
      BY DEF IInv, Others
    <3>3. \/ UNCHANGED cron
          \/ cron' = CronOff
          \/ cron' = [running |-> TRUE, todo |-> exists]
      BY <1>2 DEF CronTick, CronEnd, ApiCrash
    <3> QED BY <3>1, <3>2, <3>3 DEF IInv, Others
  <2> QED BY <2>1, <2>2, <2>3, <2>4 DEF IInv, Others
<1>3. ASSUME NEW s \in Sites, Transition(s) PROVE IInv'
  BY <1>3, TransitionKeeps
<1>4. ASSUME NEW s \in Sites, ProbeEnqueue(s) \/ CronStep(s) \/ Promote(s) \/ Stalled(s) \/ RemoveSite(s) PROVE IInv'
  BY <1>4, QueueKeeps
<1>5. ASSUME NEW w \in Workers,
             Read(w) \/ Write(w) \/ Complete(w) \/ WorkerCrash(w) \/ \E s \in Sites : Take(w, s)
      PROVE  IInv'
  BY <1>5, LoopKeeps
<1> QED BY <1>1, <1>2, <1>3, <1>4, <1>5 DEF Next

THEOREM Invariance == Safety => []IInv
<1>1. Init => IInv
  <2> SUFFICES ASSUME Init PROVE IInv
    OBVIOUS
  <2>1. JobsKept
    BY DEF Init, JobsKept, NoJob, Job
  <2>2. Loops
    BY DEF Init, Loops, Loop, Idle, Busy
  <2>3. Versions
    BY DEF Init, Versions, Idle
  <2>4. Others
    BY DEF Init, Others, CronOff
  <2> QED BY <2>1, <2>2, <2>3, <2>4 DEF IInv
<1>2. IInv /\ [Next]_vars => IInv'
  BY Inductive
<1> QED BY <1>1, <1>2, PTL DEF Safety

(* Type correctness of the pipeline. *)
THEOREM TypeCorrect == Safety => []TypeOK
<1>1. IInv => TypeOK
  BY DEF IInv, JobsKept, Loops, Versions, Others, TypeOK
<1> QED BY <1>1, Invariance, PTL

(* No two recomputes of one site overlap, for any number of job loops. *)
THEOREM SerializedAlways == Safety => []Serialized
<1>1. IInv => Serialized
  <2> SUFFICES ASSUME IInv, NEW s \in Sites
               PROVE  Cardinality(Holder(s)) <= 1 /\ (Holder(s) # {} => job[s].state = "active")
    BY DEF Serialized
  <2>1. \A v, w \in Holder(s) : v = w
    BY Parameters DEF IInv, Loops, Busy, Holder
  <2>2. Holder(s) = {} \/ \E w : Holder(s) = {w}
    BY <2>1
  <2>3. Cardinality(Holder(s)) <= 1
    <3>1. CASE Holder(s) = {}
      BY <3>1, FS_EmptySet
    <3>2. CASE Holder(s) # {}
      <4>1. PICK w : Holder(s) = {w}
        BY <2>2, <3>2
      <4>2. Cardinality({w}) = 1
        BY FS_Singleton
      <4> QED BY <4>1, <4>2
    <3> QED BY <3>1, <3>2
  <2>4. Holder(s) # {} => job[s].state = "active"
    BY Parameters DEF IInv, Loops, Busy, Holder
  <2> QED BY <2>3, <2>4
<1> QED BY <1>1, Invariance, PTL

(* Every step of the pipeline is a step of HealthView, or changes nothing a
   reader of the site sees: the stored health never goes back to an older
   version of the checks and never runs ahead of them. *)
THEOREM ImplementsView == Safety => View!Safety
<1>1. Init => View!Init
  BY DEF Init, View!Init
<1>2. IInv /\ [Next]_vars => [View!Next]_View!vars
  <2> SUFFICES ASSUME IInv, Next, UNCHANGED View!vars \/ ~UNCHANGED View!vars
               PROVE  View!Next \/ UNCHANGED View!vars
    BY DEF vars, View!vars
  <2>1. ASSUME NEW s \in Sites, Transition(s) PROVE View!Next
    BY <2>1 DEF Transition, View!Next, View!Change
  <2>2. ASSUME NEW s \in Sites, RemoveSite(s) PROVE View!Next
    BY <2>2 DEF RemoveSite, View!Next, View!Delete
  <2>3. ASSUME NEW s \in Sites, ProbeEnqueue(s) \/ CronStep(s) \/ Promote(s) \/ Stalled(s)
        PROVE  UNCHANGED View!vars
    BY <2>3 DEF ProbeEnqueue, CronStep, Promote, Stalled, View!vars
  <2>4. ASSUME NEW w \in Workers, Read(w) \/ Complete(w) \/ WorkerCrash(w) \/ \E s \in Sites : Take(w, s)
        PROVE  UNCHANGED View!vars
    BY <2>4 DEF Read, Complete, WorkerCrash, Take, View!vars
  <2>5. ASSUME NEW w \in Workers, Write(w) PROVE View!Next \/ UNCHANGED View!vars
    <3> DEFINE s == worker[w].site
    <3>1. worker[w].phase = "write"
      BY <2>5 DEF Write
    <3>2. s \in Sites /\ worker[w].seen \in Nat
      BY <3>1, BusySite DEF IInv
    <3>3. worker[w].seen \in shown[s] .. truth[s]
      BY <3>1, <3>2 DEF IInv, Versions
    <3>4. UNCHANGED <<exists, truth>>
      BY <2>5 DEF Write
    <3>5. CASE s \in exists /\ shown' = [shown EXCEPT ![s] = worker[w].seen]
      BY <3>2, <3>3, <3>4, <3>5 DEF View!Next, View!Publish
    <3>6. CASE UNCHANGED shown
      BY <3>4, <3>6 DEF View!vars
    <3> QED BY <2>5, <3>5, <3>6 DEF Write
  <2>6. ASSUME CronTick \/ CronEnd \/ ApiCrash PROVE UNCHANGED View!vars
    BY <2>6 DEF CronTick, CronEnd, ApiCrash, View!vars
  <2> QED BY <2>1, <2>2, <2>3, <2>4, <2>5, <2>6 DEF Next
<1> QED BY <1>1, <1>2, Invariance, PTL DEF Safety, View!Safety
=============================================================================
