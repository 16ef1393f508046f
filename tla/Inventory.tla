----------------------------- MODULE Inventory -----------------------------
(***************************************************************************)
(* Placement, and what follows from it for the monitor checks              *)
(* (monitoring/monitor-reactions.service.ts): an asset or a site that      *)
(* leaves service has its checks disabled and a banner on its page until   *)
(* somebody enables or keeps them; a new address moves the targets.  The   *)
(* steps of a request run one after the other, and others between.         *)
(***************************************************************************)
EXTENDS Placement

CONSTANTS Checks,
          Owner,           \* [Checks -> asset or site a check watches]
          CheckPatches,    \* updates of a check: functions from enabled, target
          Tenants0,        \* what there is at first: [site, rack, asset]
          Blocked          \* addresses that validateHost refuses

Entities == Assets \cup Sites
CheckRow == [enabled : BOOLEAN, target : Opt(Hosts)]

ASSUME OwnerAssumption == Owner \in [Checks -> Entities]
ASSUME TenantsAssumption ==
  /\ Tenants0 \subseteq [site : [Sites -> SiteStatus \cup {None}], rack : [Racks -> RackRow \cup {None}],
                         asset : [Assets -> AssetRow \cup {None}]]
  /\ \A t \in Tenants0 : \A a \in Assets : t.asset[a] # None =>
       /\ t.asset[a].site # None => t.site[t.asset[a].site] # None
       /\ t.asset[a].rack # None => t.rack[t.asset[a].rack] # None
ASSUME EntitiesAssumption == Assets \cap Sites = {} /\ {None, Gone} \cap (Entities \cup CheckRow) = {}
ASSUME BlockedAssumption == Blocked \subseteq Hosts
ASSUME CheckPatchesAssumption == \A p \in CheckPatches, row \in CheckRow : Patched(row, p) \in CheckRow

VARIABLES check,           \* [Checks -> [enabled, target] or Gone]
          shown,           \* [Entities -> the latest disabling is after the latest acknowledgement]
          muted,           \* history: [Checks -> whose reaction disabled it and owes a banner, or None]
          excused,         \* history: checks that may run although their owner is out of service
          follows          \* history: checks whose target is the address of their asset

checkVars == <<check, shown, muted, excused, follows>>
vars == <<placeVars, checkVars>>

Of(a) == {c \in Checks : check[c] # Gone /\ Owner[c] = a}
OnAsset(c) == Owner[c] \in Assets
OwnerLive(c) == IF OnAsset(c) THEN Live(asset, Owner[c]) ELSE Live(site, Owner[c])
\* checksWhereForEntity: its own, and of a site those of the assets there.
Attached(e) == Of(e) \cup {c \in Checks : check[c] # Gone /\ OnAsset(c) /\ asset[Owner[c]].site = e}
Enabled(c) == check[c].enabled
Switch(S, on) == check' = [c \in Checks |-> IF c \in S THEN [check[c] EXCEPT !.enabled = on] ELSE check[c]]

OutOfService(row) == row.status \notin ActiveAsset
SiteOut(s) == s # None /\ site[s] \notin ActiveSite
Out(c) == IF OnAsset(c) THEN OutOfService(asset[Owner[c]]) \/ SiteOut(asset[Owner[c]].site) ELSE SiteOut(Owner[c])

(* getAutoDisabledStatus *)
Banner(e) == shown[e] /\ \E c \in Attached(e) : ~Enabled(c)

Init ==
  /\ \E t \in Tenants0 : site = t.site /\ rack = t.rack /\ asset = t.asset
  /\ told = [a \in Assets |-> IF Live(asset, a) THEN Where(asset[a]) ELSE Nowhere]
  /\ call = [r \in Calls |-> None]
  /\ ops = 0 /\ faults = 0
  /\ loose = {a \in Assets : Live(asset, a) /\ asset[a].rack # None}
  /\ unlogged = {}
  /\ check = [c \in Checks |-> IF ~OwnerLive(c) THEN Gone
                               ELSE [enabled |-> ~Out(c), target |-> IF OnAsset(c) THEN asset[Owner[c]].ip ELSE None]]
  /\ shown = [e \in Entities |-> FALSE]
  /\ muted = [c \in Checks |-> None]
  /\ excused = {}
  /\ follows = {c \in Checks : check[c] # Gone /\ OnAsset(c)}

(* After a write of the rows: the checks of what is removed go with it, the
   banner of a site says nothing of an asset that left it, and the checks of S
   and of assets that come to a closed site are left as they are. *)
Settle(S) ==
  LET gone(c) == ~OwnerLive(c)'
      away(c) == OnAsset(c) /\ muted[c] \in Sites /\ asset'[Owner[c]].site # muted[c]
      came(c) == /\ OnAsset(c) /\ check[c] # Gone /\ ~gone(c)
                 /\ asset'[Owner[c]].site # asset[Owner[c]].site /\ SiteOut(asset'[Owner[c]].site)
  IN
  /\ check' = [c \in Checks |-> IF gone(c) THEN Gone ELSE check[c]]
  /\ muted' = [c \in Checks |-> IF gone(c) \/ away(c) THEN None ELSE muted[c]]
  /\ excused' = excused \cup S \cup {c \in Checks : came(c)}
  /\ UNCHANGED shown

\* Requests that leave status and address alone.
Place ==
  /\ \/ \E r \in Calls :
          \/ LogCreated(r) \/ Track(r) \/ WriteMount(r) \/ WriteUnmount(r) \/ WriteRemove(r)
          \/ \E a \in Assets : RemoveAsset(a) \/ \E p \in AssetPatches : ReadUpdate(r, a, p)
          \/ \E x \in Racks \cup Sites : CheckRemove(r, x)
          \/ \E k \in Racks, a \in Assets : CheckUnmount(r, k, a) \/ \E s \in Slots : CheckMount(r, k, a, s[1], s[2])
          \/ \E a \in Assets, row \in AssetRows : CreateAsset(r, a, row)
     \/ \E k \in Racks, p \in RackPatches :
          UpdateRack(k, p) \/ \E s \in Sites : "size" \in DOMAIN p /\ CreateRack(k, s, p.size)
  /\ UNCHANGED follows
  /\ Settle({})

(* The write of an update.  One over a status or an address other than the one
   read first sets off nothing for what it replaces. *)
Update(r) ==
  LET c == call[r]
      over(f) == Live(asset, c.of) /\ f \in DOMAIN c.patch /\ asset[c.of][f] # c.was[f]
      late == over("status") /\ Leaves(asset[c.of].status, c.patch.status, ActiveAsset) /\ OutOfService(c.was)
  IN
  /\ WriteUpdate(r)
  /\ follows' = IF over("ip") THEN follows \ Of(c.of) ELSE follows
  /\ Settle(IF late THEN Of(c.of) ELSE {})

Batch(ids, p) ==
  /\ BatchUpdate(ids, p)
  /\ UNCHANGED follows
  /\ Settle(UNION {Of(a) : a \in {b \in ids : "status" \in DOMAIN p /\ Leaves(asset[b].status, p.status, ActiveAsset)}})

(* update of a site: the status read, then written. *)
ReadSite(r, s, to) ==
  /\ Live(site, s)
  /\ Open(r, [op |-> "site", of |-> s, was |-> site[s], says |-> to, on |-> {s}, clean |-> TRUE])
  /\ UNCHANGED <<site, rack, asset, told, faults, loose, unlogged, checkVars>>

WriteSite(r) ==
  LET c == call[r] s == c.of IN
  /\ c # None /\ c.op = "site"
  /\ IF Live(site, s)
     THEN /\ site' = [site EXCEPT ![s] = c.says]
          /\ call' = [call EXCEPT ![r] = IF Leaves(c.was, c.says, ActiveSite) THEN [c EXCEPT !.op = "react"] ELSE None]
          /\ excused' = IF Leaves(site[s], c.says, ActiveSite) /\ c.was \notin ActiveSite
                        THEN excused \cup Attached(s) ELSE excused
     ELSE call' = [call EXCEPT ![r] = None] /\ UNCHANGED <<site, excused>>
  /\ UNCHANGED <<rack, asset, told, ops, faults, loose, unlogged, check, shown, muted, follows>>
-----------------------------------------------------------------------------
\* The checks that a reaction of e disables.
StopsOwn(e) == {x \in Of(e) : Enabled(x)}

Stops(e) == {x \in Attached(e) : Enabled(x)}

(* onAssetStatusChange, onSiteStatusChange: one bulk update; an acknowledgement
   under way for the entity now comes too early. *)
React(r) ==
  LET c == call[r] S == Stops(c.of) IN
  /\ c # None /\ c.op = "react"
  /\ Switch(S, FALSE)
  /\ muted' = [x \in Checks |-> IF x \in S THEN c.of ELSE muted[x]]
  /\ excused' = excused \ Attached(c.of)
  /\ call' = [x \in Calls |->
                IF x = r THEN IF S = {} THEN Later(c) ELSE [c EXCEPT !.op = "audit"]
                ELSE IF call[x] # None /\ call[x].op = "ack" /\ call[x].of = c.of THEN [call[x] EXCEPT !.clean = FALSE]
                ELSE call[x]]
  /\ UNCHANGED <<site, rack, asset, told, ops, faults, loose, unlogged, shown, follows>>

\* The row MONITOR_AUTO_DISABLED.
Audit(r) ==
  LET c == call[r] IN
  /\ c # None /\ c.op = "audit"
  /\ shown' = [shown EXCEPT ![c.of] = TRUE]
  /\ call' = [call EXCEPT ![r] = Later(c)]
  /\ UNCHANGED <<site, rack, asset, told, ops, faults, loose, unlogged, check, muted, excused, follows>>

\* The address the targets had.
AddressNow(c) == asset[c.of].ip

AddressBefore(c) == c.was.ip

(* autoSyncTarget: the targets equal to the old address follow it. *)
Sync(r) ==
  LET c == call[r]
      from == AddressBefore(c)
      to == c.now.ip
      sent == from # None /\ to \notin Blocked \cup {None}
  IN
  /\ c # None /\ c.op = "sync"
  /\ check' = [x \in Checks |-> IF sent /\ x \in Of(c.of) /\ check[x].target = from
                                THEN [check[x] EXCEPT !.target = to] ELSE check[x]]
  /\ follows' = IF sent /\ c.clean THEN follows ELSE follows \ Of(c.of)
  /\ call' = [call EXCEPT ![r] = None]
  /\ UNCHANGED <<site, rack, asset, told, ops, faults, loose, unlogged, shown, muted, excused>>

(* update of a check by hand *)
UpdateCheck(x, p) ==
  /\ check[x] # Gone
  /\ "target" \in DOMAIN p => p.target \notin Blocked
  /\ Request
  /\ check' = [check EXCEPT ![x] = Patched(@, p)]
  /\ IF "enabled" \in DOMAIN p
     THEN /\ muted' = [muted EXCEPT ![x] = None]
          /\ excused' = IF p.enabled /\ Out(x) THEN excused \cup {x} ELSE excused
     ELSE UNCHANGED <<muted, excused>>
  /\ follows' = IF "target" \in DOMAIN p /\ OnAsset(x)
                THEN IF p.target = asset[Owner[x]].ip THEN follows \cup {x} ELSE follows \ {x}
                ELSE follows
  /\ UNCHANGED <<site, rack, asset, told, call, faults, loose, unlogged, shown>>

\* The checks that bulkEnable enables.
StartsOwn(e) == {x \in Of(e) : ~Enabled(x)}

Starts(e) == {x \in Attached(e) : ~Enabled(x)}

(* bulkEnable: everything disabled is enabled, then the banner acknowledged. *)
BulkEnable(r, e) ==
  LET S == Starts(e) IN
  /\ Open(r, [op |-> "ack", of |-> e, on |-> {}, clean |-> TRUE])
  /\ Switch(S, TRUE)
  /\ muted' = [x \in Checks |-> IF x \in S THEN None ELSE muted[x]]
  /\ excused' = excused \cup {x \in S : Out(x)}
  /\ UNCHANGED <<site, rack, asset, told, faults, loose, unlogged, shown, follows>>

Unmute(e) == muted' = [x \in Checks |-> IF muted[x] = e THEN None ELSE muted[x]]

\* An acknowledgement after another reaction hides the banner of that one too.
Ack(r) ==
  LET c == call[r] IN
  /\ c # None /\ c.op = "ack"
  /\ shown' = [shown EXCEPT ![c.of] = FALSE]
  /\ IF c.clean THEN UNCHANGED muted ELSE Unmute(c.of)
  /\ call' = [call EXCEPT ![r] = None]
  /\ UNCHANGED <<site, rack, asset, told, ops, faults, loose, unlogged, check, excused, follows>>

(* ackBanner: keep them disabled. *)
AckBanner(e) ==
  /\ Request
  /\ shown' = [shown EXCEPT ![e] = FALSE]
  /\ Unmute(e)
  /\ UNCHANGED <<site, rack, asset, told, call, faults, loose, unlogged, check, excused, follows>>
-----------------------------------------------------------------------------
After == {"track", "react", "audit", "sync"}
WillReact(c) == c.op = "react" \/ (c.op = "track" /\ Leaves(c.was.status, c.says, ActiveAsset))
WillSync(c) == c.op \in After /\ Renames(c)

\* The movements and banners that requests or steps leave undone.
Undone(lost) ==
  /\ unlogged' = unlogged \cup {c.of : c \in {d \in lost : d.op \in {"created", "track"}}}
  /\ muted' = [x \in Checks |-> IF \E c \in lost : c.op = "audit" /\ c.of = muted[x] THEN None ELSE muted[x]]

(* A step after the write throws: it is caught and the next one follows. *)
Fail(r) ==
  LET c == call[r] IN
  /\ faults < MaxFaults
  /\ c # None /\ c.op \in After \cup {"created", "ack"}
  /\ call' = [call EXCEPT ![r] = IF c.op \in After THEN Later(c) ELSE None]
  /\ Undone({c})
  /\ excused' = IF c.op = "react" THEN excused \cup Attached(c.of) ELSE excused
  /\ follows' = IF c.op = "sync" THEN follows \ Of(c.of) ELSE follows
  /\ faults' = faults + 1
  /\ UNCHANGED <<site, rack, asset, told, ops, loose, check, shown>>

(* The API restarts: open requests end where they are. *)
Crash ==
  LET lost == {call[r] : r \in {x \in Calls : call[x] # None}} IN
  /\ faults < MaxFaults
  /\ lost # {}
  /\ call' = [r \in Calls |-> None]
  /\ Undone(lost)
  /\ excused' = excused \cup UNION {Attached(c.of) : c \in {d \in lost : WillReact(d)}}
  /\ follows' = follows \ UNION {Of(c.of) : c \in {d \in lost : WillSync(d)}}
  /\ faults' = faults + 1
  /\ UNCHANGED <<site, rack, asset, told, ops, loose, check, shown>>

Next ==
  \/ Place
  \/ \E r \in Calls : Update(r) \/ WriteSite(r) \/ React(r) \/ Audit(r) \/ Sync(r) \/ Ack(r) \/ Fail(r)
  \/ \E r \in Calls, s \in Sites, to \in SiteStatus : ReadSite(r, s, to)
  \/ \E r \in Calls, e \in Entities : BulkEnable(r, e)
  \/ \E e \in Entities : AckBanner(e)
  \/ \E ids \in SUBSET Assets, p \in AssetPatches : Batch(ids, p)
  \/ \E x \in Checks, p \in CheckPatches : UpdateCheck(x, p)
  \/ Crash

Spec == Init /\ [][Next]_vars
-----------------------------------------------------------------------------
TypeOK ==
  /\ PlaceTypeOK
  /\ shown \in [Entities -> BOOLEAN]
  /\ muted \in [Checks -> Opt(Entities)]
  /\ check \in [Checks -> CheckRow \cup {Gone}]

(* monitor-reactions.service.ts:147-153: a check that a reaction disabled is
   disabled still and its entity shows the banner, until somebody enables it,
   keeps it or changes it, the asset leaves the site, or the acknowledgement of
   an enabling that began before hides it. *)
DisabledIsTold ==
  \A c \in Checks : muted[c] # None =>
    /\ c \in Attached(muted[c]) /\ ~Enabled(c)
    /\ \/ Banner(muted[c])
       \/ \E r \in Calls : call[r] # None /\ call[r].op = "audit" /\ call[r].of = muted[c]

(* monitor-reactions.service.ts:65, :103: the checks of what is out of service
   are disabled, unless one was enabled by hand, batchUpdate or a move brought
   it there, a reaction failed, or two updates met on the status. *)
QuietWhenOut ==
  \A c \in Checks \ excused : check[c] # Gone /\ Out(c) /\ Enabled(c) =>
    \E r \in Calls : call[r] # None /\ WillReact(call[r]) /\ c \in Attached(call[r].of)

(* monitor-reactions.service.ts:246: a target that is the address of its asset
   goes on being it, unless the address is refused or removed, the
   synchronization failed, or two updates met on it. *)
TargetFollows ==
  \A c \in follows : check[c] # Gone /\ check[c].target # asset[Owner[c]].ip =>
    \E r \in Calls : call[r] # None /\ WillSync(call[r]) /\ call[r].of = Owner[c]
=============================================================================
