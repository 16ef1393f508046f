----------------------------- MODULE Placement -----------------------------
(***************************************************************************)
(* Where the assets are: rows of Asset, Rack and Site and the movements of *)
(* an asset (assets/assets.service.ts, racks/racks.service.ts,             *)
(* sites/sites.service.ts).  Mounting through a rack checks, then writes,  *)
(* and no constraint of the database backs the check; an update of an      *)
(* asset may set the same columns without one.  Updates log what they      *)
(* moved from the row they read first.                                     *)
(***************************************************************************)
EXTENDS RackSpace, FiniteSets

CONSTANTS Sites, Racks, Assets,
          Hosts,           \* addresses of assets
          Slots,           \* pairs <<position, height>> that requests give
          AssetRows,       \* rows that CreateAsset gives
          AssetPatches,    \* updates: functions from some fields of a row
          RackPatches,     \* updates of a rack
          None, Gone,      \* no value; the id of a row that was removed
          Calls,           \* requests that may be open at once
          MaxOps,          \* bound: requests in a behaviour
          MaxFaults        \* bound: restarts and failing steps in a behaviour

VARIABLES site,            \* [Sites -> status, None or Gone]
          rack,            \* [Racks -> [site, size], None or Gone]
          asset,           \* [Assets -> row, None or Gone]
          told,            \* [Assets -> what the AssetMovement rows add up to]
          call,            \* [Calls -> an open request, or None]
          ops, faults,
          loose,           \* history: assets placed without a check, or on a stale one
          unlogged         \* history: assets with a change no movement tells of, see HistoryReplays

placeVars == <<site, rack, asset, told, call, ops, faults, loose, unlogged>>

AssetStatus == {"IN_SERVICE", "OUT_OF_SERVICE", "RETIRED"}
SiteStatus == {"PREPARATION", "ACTIVE", "CLOSED"}
Opt(S) == S \cup {None}
Positions == {s[1] : s \in Slots}
Heights == {s[2] : s \in Slots}
AssetRow == [site : Opt(Sites), rack : Opt(Racks), pos : Opt(Positions), height : Opt(Heights),
             status : AssetStatus, ip : Opt(Hosts)]
RackRow == [site : Sites, size : Nat]

Things == Assets \cup Racks \cup Sites
OpenCalls ==
  [op : {"update"}, of : Assets, patch : AssetPatches, was : AssetRow, on : SUBSET Things, clean : BOOLEAN]
    \cup [op : {"created"}, of : Assets, now : AssetRow, on : SUBSET Things, clean : BOOLEAN]
    \cup [op : {"track", "react", "audit", "sync"}, of : Assets, was : AssetRow, now : AssetRow,
          says : Opt(AssetStatus), host : BOOLEAN, on : SUBSET Things, clean : BOOLEAN]
    \cup [op : {"mount"}, of : Assets, rack : Racks, pos : Positions, height : Heights, on : SUBSET Things, clean : BOOLEAN]
    \cup [op : {"unmount", "remove", "ack"}, of : Things, on : SUBSET Things, clean : BOOLEAN]
    \cup [op : {"site", "react", "audit"}, of : Sites, was : SiteStatus, says : SiteStatus,
          on : SUBSET Things, clean : BOOLEAN]

\* An update writes the fields it names.
Patched(row, p) == [f \in DOMAIN row |-> IF f \in DOMAIN p THEN p[f] ELSE row[f]]

ASSUME RowsAssumption == AssetRows \subseteq AssetRow
ASSUME SlotsAssumption == \A s \in Slots : s[1] \in Nat \ {0} /\ s[2] \in Nat \ {0}
ASSUME PatchesAssumption ==
  /\ \A p \in AssetPatches, row \in AssetRow : Patched(row, p) \in AssetRow
  /\ \A p \in RackPatches : /\ "site" \in DOMAIN p => p.site \in Sites
                            /\ "size" \in DOMAIN p => p.size \in Nat
ASSUME NoneAssumption == None # Gone /\ {None, Gone} \cap (Sites \cup Racks \cup Calls \cup Nat \cup AssetStatus \cup SiteStatus \cup RackRow \cup AssetRow \cup OpenCalls) = {}

Live(table, x) == table[x] \notin {None, Gone}
\* The foreign keys of a row hold.
Linked(row) == /\ row.site # None => Live(site, row.site)
               /\ row.rack # None => Live(rack, row.rack)

Mounted(k) == {a \in Assets : Live(asset, a) /\ asset[a].rack = k}
Placed(a) == asset[a].pos # None /\ asset[a].height # None
Where(row) == [site |-> row.site, rack |-> row.rack, pos |-> row.pos, status |-> row.status]
Nowhere == [site |-> None, rack |-> None, pos |-> None, status |-> None]   \* no movement

Request == ops < MaxOps /\ ops' = ops + 1
Open(r, c) == call[r] = None /\ Request /\ call' = [call EXCEPT ![r] = c]

\* r goes on as c; open requests that rely on something in S are on a stale read.
Touch(r, c, S) ==
  call' = [x \in Calls |->
             IF x = r THEN c
             ELSE IF call[x] # None /\ call[x].on \cap S # {} THEN [call[x] EXCEPT !.clean = FALSE]
             ELSE call[x]]
\* What a write of asset a touches, with the racks it leaves and enters.
Around(a, k) == {a, asset[a].rack, k}

(* create of an asset, with its site and rack unchecked but for the foreign
   keys, and then the movement CREATED. *)
CreateAsset(r, a, row) ==
  /\ asset[a] = None
  /\ Linked(row)
  /\ call[r] = None /\ Request
  /\ asset' = [asset EXCEPT ![a] = row]
  /\ loose' = IF row.rack = None THEN loose ELSE loose \cup {a}
  /\ Touch(r, [op |-> "created", of |-> a, now |-> row, on |-> {a}, clean |-> TRUE], {row.rack})
  /\ UNCHANGED <<site, rack, told, faults, unlogged>>

LogCreated(r) ==
  LET c == call[r] IN
  /\ c # None /\ c.op = "created"
  /\ told' = [told EXCEPT ![c.of] = Where(c.now)]
  /\ unlogged' = IF c.clean THEN unlogged ELSE unlogged \cup {c.of}
  /\ call' = [call EXCEPT ![r] = None]
  /\ UNCHANGED <<site, rack, asset, ops, faults, loose>>

(* update of an asset: the row read first, which the rest compares with. *)
ReadUpdate(r, a, p) ==
  /\ Live(asset, a)
  /\ Open(r, [op |-> "update", of |-> a, patch |-> p, was |-> asset[a], on |-> {a}, clean |-> TRUE])
  /\ UNCHANGED <<site, rack, asset, told, faults, loose, unlogged>>

\* What is left to do after the write, the movements first.
Says(c) == IF "status" \in DOMAIN c.patch THEN c.patch.status ELSE None
Written(c, row) ==
  [op |-> "track", of |-> c.of, was |-> c.was, now |-> row, says |-> Says(c),
   host |-> "ip" \in DOMAIN c.patch, on |-> c.on, clean |-> c.clean]

WriteUpdate(r) ==
  LET c == call[r] a == c.of row == Patched(asset[a], c.patch) IN
  /\ c # None /\ c.op = "update"
  /\ IF Live(asset, a) /\ Linked(row)
     THEN /\ asset' = [asset EXCEPT ![a] = row]
          /\ loose' = IF row.rack = None THEN loose \ {a}
                      ELSE IF DOMAIN c.patch \cap {"site", "rack", "pos", "height"} # {} THEN loose \cup {a} ELSE loose
          /\ Touch(r, Written(c, row), Around(a, row.rack))
     ELSE call' = [call EXCEPT ![r] = None] /\ UNCHANGED <<asset, loose>>
  /\ UNCHANGED <<site, rack, told, ops, faults, unlogged>>

(* trackMovements: the movements between the row read and the row written. *)
RackMoveBetween(was, now) ==
  CASE was.rack = None /\ now.rack # None -> {"RACK_MOUNT"}
    [] was.rack # None /\ now.rack = None -> {"RACK_UNMOUNT"}
    [] was.rack # None /\ now.rack # None /\ was.rack # now.rack -> {"RACK_CHANGE"}
    [] OTHER -> {}

RackMove(was, now) ==
  CASE was.rack = None /\ now.rack # None -> {"RACK_MOUNT"}
    [] was.rack # None /\ now.rack = None -> {"RACK_UNMOUNT"}
    [] was.rack # None /\ now.rack # None /\ was.rack # now.rack -> {"RACK_CHANGE"}
    [] was.rack # None /\ was.rack = now.rack /\ was.pos # now.pos -> {"RACK_MOVE"}
    [] OTHER -> {}

Movements(was, now) ==
  (IF was.site # now.site THEN {"SITE_CHANGE"} ELSE {})
    \cup RackMove(was, now) \cup (IF was.status # now.status THEN {"STATUS_CHANGE"} ELSE {})

\* What a reader of the movements holds for the place of the asset.
Replay(t, moves, now) ==
  [site |-> IF "SITE_CHANGE" \in moves THEN now.site ELSE t.site,
   rack |-> IF moves \cap {"RACK_MOUNT", "RACK_CHANGE", "RACK_MOVE"} # {} THEN now.rack
            ELSE IF "RACK_UNMOUNT" \in moves THEN None ELSE t.rack,
   pos |-> IF moves \cap {"RACK_MOUNT", "RACK_CHANGE", "RACK_MOVE"} # {} THEN now.pos
           ELSE IF "RACK_UNMOUNT" \in moves THEN None ELSE t.pos,
   status |-> IF "STATUS_CHANGE" \in moves THEN now.status ELSE t.status]

\* The steps of an update after its write; see Inventory.
ActiveAsset == {"IN_SERVICE"}
ActiveSite == {"ACTIVE", "PREPARATION"}
Leaves(was, says, active) == says \notin {None, was} /\ was \in active /\ says \notin active
Renames(c) == c.of \in Assets /\ c.host /\ c.was.ip # c.now.ip
Later(c) ==
  IF c.op = "track" /\ Leaves(c.was.status, c.says, ActiveAsset) THEN [c EXCEPT !.op = "react"]
  ELSE IF c.op # "sync" /\ Renames(c) THEN [c EXCEPT !.op = "sync"]
  ELSE None

Track(r) ==
  LET c == call[r] IN
  /\ c # None /\ c.op = "track"
  /\ told' = IF Live(asset, c.of) THEN [told EXCEPT ![c.of] = Replay(@, Movements(c.was, c.now), c.now)] ELSE told
  /\ unlogged' = IF c.clean THEN unlogged ELSE unlogged \cup {c.of}
  /\ call' = [call EXCEPT ![r] = Later(c)]
  /\ UNCHANGED <<site, rack, asset, ops, faults, loose>>

(* batchUpdate: the status or the site of several assets, without movements. *)
BatchUpdate(ids, p) ==
  /\ Request
  /\ ids # {} /\ \A a \in ids : Live(asset, a)
  /\ DOMAIN p # {} /\ DOMAIN p \subseteq {"status", "site"}
  /\ "site" \in DOMAIN p => p.site # None /\ Live(site, p.site)
  /\ asset' = [a \in Assets |-> IF a \in ids THEN Patched(asset[a], p) ELSE asset[a]]
  /\ loose' = loose \cup {a \in ids : "site" \in DOMAIN p /\ asset[a].rack # None}
  /\ unlogged' = unlogged \cup ids
  /\ Touch(None, None, UNION {Around(a, None) : a \in ids})
  /\ UNCHANGED <<site, rack, told, faults>>

RemoveAsset(a) ==
  /\ Live(asset, a)
  /\ Request
  /\ asset' = [asset EXCEPT ![a] = Gone]
  /\ Touch(None, None, Around(a, None))
  /\ UNCHANGED <<site, rack, told, faults, loose, unlogged>>
-----------------------------------------------------------------------------
(* mountEquipment: the checks on the rack, the asset and the units. *)
CheckMount(r, k, a, p, h) ==
  /\ Live(rack, k)
  /\ Live(asset, a) /\ asset[a].site = rack[k].site
  /\ asset[a].status # "RETIRED"
  /\ asset[a].rack \in {None, k}
  /\ FitsRack(p, h, rack[k].size)
  /\ \A b \in Mounted(k) \ {a} : Placed(b) => ~Meets(p, h, asset[b].pos, asset[b].height)
  /\ Open(r, [op |-> "mount", of |-> a, rack |-> k, pos |-> p, height |-> h, on |-> {a, k}, clean |-> TRUE])
  /\ UNCHANGED <<site, rack, asset, told, faults, loose, unlogged>>

WriteMount(r) ==
  LET c == call[r] IN
  /\ c # None /\ c.op = "mount"
  /\ IF Live(asset, c.of) /\ Live(rack, c.rack)
     THEN /\ asset' = [asset EXCEPT ![c.of] = [@ EXCEPT !.rack = c.rack, !.pos = c.pos, !.height = c.height]]
          /\ loose' = IF c.clean THEN loose \ {c.of} ELSE loose \cup {c.of}
          /\ unlogged' = unlogged \cup {c.of}
          /\ Touch(r, None, Around(c.of, c.rack))
     ELSE call' = [call EXCEPT ![r] = None] /\ UNCHANGED <<asset, loose, unlogged>>
  /\ UNCHANGED <<site, rack, told, ops, faults>>

(* unmountEquipment: it must be in this rack when looked at; the write clears
   whatever rack it is in by then. *)
CheckUnmount(r, k, a) ==
  /\ Live(rack, k) /\ a \in Mounted(k)
  /\ Open(r, [op |-> "unmount", of |-> a, on |-> {a}, clean |-> TRUE])
  /\ UNCHANGED <<site, rack, asset, told, faults, loose, unlogged>>

WriteUnmount(r) ==
  LET c == call[r] IN
  /\ c # None /\ c.op = "unmount"
  /\ IF Live(asset, c.of)
     THEN /\ asset' = [asset EXCEPT ![c.of] = [@ EXCEPT !.rack = None, !.pos = None, !.height = None]]
          /\ loose' = loose \ {c.of}
          /\ unlogged' = unlogged \cup {c.of}
          /\ Touch(r, None, Around(c.of, None))
     ELSE call' = [call EXCEPT ![r] = None] /\ UNCHANGED <<asset, loose, unlogged>>
  /\ UNCHANGED <<site, rack, told, ops, faults>>

(* create and update of a rack; an update does not look at what is mounted. *)
CreateRack(k, s, size) ==
  /\ rack[k] = None
  /\ Live(site, s)
  /\ Request
  /\ rack' = [rack EXCEPT ![k] = [site |-> s, size |-> size]]
  /\ UNCHANGED <<site, asset, told, call, faults, loose, unlogged>>

UpdateRack(k, p) ==
  /\ Live(rack, k)
  /\ "site" \in DOMAIN p => Live(site, p.site)
  /\ Request
  /\ rack' = [rack EXCEPT ![k] = Patched(@, p)]
  /\ loose' = loose \cup Mounted(k)
  /\ Touch(None, None, {k})
  /\ UNCHANGED <<site, asset, told, faults, unlogged>>

\* The foreign keys of a row on what is removed are set to null, the position stays.
CutOff(row, x, racks) ==
  [row EXCEPT !.site = IF @ = x THEN None ELSE @, !.rack = IF @ \in racks THEN None ELSE @]

(* remove of a rack or a site: refused while something is in it; what comes in
   after the check is cut off by the foreign keys, the racks of a site go with it. *)
CheckRemove(r, x) ==
  /\ x \in Racks => Live(rack, x) /\ Mounted(x) = {}
  /\ x \in Sites => /\ Live(site, x)
                    /\ ~\E a \in Assets : Live(asset, a) /\ asset[a].site = x
                    /\ ~\E k \in Racks : Live(rack, k) /\ rack[k].site = x
  /\ Open(r, [op |-> "remove", of |-> x, on |-> {}, clean |-> TRUE])
  /\ UNCHANGED <<site, rack, asset, told, faults, loose, unlogged>>

WriteRemove(r) ==
  LET c == call[r]
      racks == {k \in Racks : Live(rack, k) /\ (k = c.of \/ rack[k].site = c.of)}
      cut == {a \in Assets : Live(asset, a) /\ (asset[a].site = c.of \/ asset[a].rack \in racks)}
  IN
  /\ c # None /\ c.op = "remove"
  /\ site' = [s \in Sites |-> IF s = c.of THEN Gone ELSE site[s]]
  /\ rack' = [k \in Racks |-> IF k \in racks THEN Gone ELSE rack[k]]
  /\ asset' = [a \in Assets |-> IF a \in cut THEN CutOff(asset[a], c.of, racks) ELSE asset[a]]
  /\ loose' = loose \cup cut
  /\ unlogged' = unlogged \cup cut
  /\ Touch(r, None, cut \cup racks)
  /\ UNCHANGED <<told, ops, faults>>
-----------------------------------------------------------------------------
PlaceTypeOK ==
  /\ site \in [Sites -> SiteStatus \cup {None, Gone}]
  /\ rack \in [Racks -> RackRow \cup {None, Gone}]
  /\ asset \in [Assets -> AssetRow \cup {None, Gone}]
  /\ call \in [Calls -> OpenCalls \cup {None}]
  /\ loose \subseteq Assets
  /\ \A a \in Assets : Live(asset, a) => Linked(asset[a])

(* racks.service.ts:363-398: what was mounted through the checks of
   mountEquipment, on rows that were still so when it was written, lies inside
   its rack, at the site of the rack, and shares no unit with another such.
   What update, batchUpdate and create place is outside the claim, and so is
   what a later update of the rack shrinks or moves. *)
PlacementSound ==
  \A a \in Assets \ loose : Live(asset, a) /\ asset[a].rack # None =>
    LET k == asset[a].rack IN
    /\ asset[a].site = rack[k].site
    /\ Units(asset[a].pos, asset[a].height) \subseteq 1 .. rack[k].size
    /\ \A b \in Mounted(k) \ (loose \cup {a}) :
         Units(asset[a].pos, asset[a].height) \cap Units(asset[b].pos, asset[b].height) = {}

(* racks.service.ts:478: the places offered for a height are those whose units
   are all inside the rack and free of every mounted asset with a place. *)
OfferIsFree ==
  \A k \in Racks : Live(rack, k) =>
    LET taken == {<<asset[b].pos, asset[b].height>> : b \in {b \in Mounted(k) : Placed(b)}} IN
    \A h \in Heights : AvailableSpaces(taken, rack[k].size, h) = FreeSpaces(taken, rack[k].size, h)

\* A request that is to write a movement of a.
Untold(a) == \E r \in Calls : call[r] # None /\ call[r].of = a /\ call[r].op \in {"created", "track"}

(* assets.service.ts:553, "Detect and log all location/status changes": the
   movements of an asset add up to where it is, but for mounting, unmounting,
   batch updates, removals of its rack or site and updates that met. *)
HistoryReplays ==
  \A a \in Assets \ unlogged : Live(asset, a) /\ ~Untold(a) =>
    /\ told[a].site = asset[a].site
    /\ told[a].status = asset[a].status
    /\ told[a].rack = asset[a].rack
    /\ asset[a].rack # None => told[a].pos = asset[a].pos
=============================================================================
