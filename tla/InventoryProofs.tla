--------------------------- MODULE InventoryProofs ---------------------------
(***************************************************************************)
(* What holds of the rows of assets and racks for every tenant: their      *)
(* types and foreign keys, the places that mountEquipment gives, and the   *)
(* places that findAvailableSpaces offers; then, from what every open      *)
(* request knows of the rows and still owes, that the movements of an      *)
(* asset add up to its place, that the target of a check follows the       *)
(* address, and that checks of what is out of service are disabled.        *)
(***************************************************************************)
EXTENDS Inventory, TLAPS

(* The three comparisons say that the two have a unit in common. *)
LEMMA MeetsIsOverlap ==
  ASSUME NEW p \in Int, NEW h \in Nat \ {0}, NEW q \in Int, NEW k \in Nat \ {0}
  PROVE  Meets(p, h, q, k) <=> Units(p, h) \cap Units(q, k) # {}
<1>1. ASSUME Meets(p, h, q, k) PROVE Units(p, h) \cap Units(q, k) # {}
  <2>1. CASE p >= q /\ p <= LastU(q, k)
    <3>1. p \in Units(p, h) /\ p \in Units(q, k)
      BY <2>1 DEF Units, LastU
    <3> QED BY <3>1
  <2>2. CASE LastU(p, h) >= q /\ LastU(p, h) <= LastU(q, k)
    <3>1. LastU(p, h) \in Units(p, h) /\ LastU(p, h) \in Units(q, k)
      BY <2>2 DEF Units, LastU
    <3> QED BY <3>1
  <2>3. CASE p <= q /\ LastU(p, h) >= LastU(q, k)
    <3>1. q \in Units(p, h) /\ q \in Units(q, k)
      BY <2>3 DEF Units, LastU
    <3> QED BY <3>1
  <2> QED BY <1>1, <2>1, <2>2, <2>3 DEF Meets
<1>2. ASSUME NEW u \in Units(p, h) \cap Units(q, k) PROVE Meets(p, h, q, k)
  BY DEF Units, LastU, Meets
<1> QED BY <1>1, <1>2

(* A place lies in the rack iff all its units do. *)
LEMMA FitsIsInside ==
  ASSUME NEW p \in Int, NEW h \in Nat \ {0}, NEW size \in Nat
  PROVE  FitsRack(p, h, size) <=> Units(p, h) \subseteq 1 .. size
<1>1. ASSUME Units(p, h) \subseteq 1 .. size PROVE FitsRack(p, h, size)
  <2>1. p \in Units(p, h) /\ LastU(p, h) \in Units(p, h)
    BY DEF Units, LastU
  <2>2. p \in 1 .. size /\ LastU(p, h) \in 1 .. size
    BY <1>1, <2>1
  <2> QED BY <2>2 DEF FitsRack, LastU
<1> QED BY <1>1 DEF FitsRack, Units, LastU

(* What AvailableSpaces offers, for any mounted equipment. *)
LEMMA OfferLemma ==
  ASSUME NEW taken \in SUBSET ((Nat \ {0}) \X (Nat \ {0})), NEW size \in Nat, NEW h \in Nat \ {0}
  PROVE  AvailableSpaces(taken, size, h) = FreeSpaces(taken, size, h)
<1>1. ASSUME NEW p \in 1 .. size
      PROVE  LastU(p, h) <= size <=> Units(p, h) \subseteq 1 .. size
  BY FitsIsInside DEF FitsRack
<1>2. ASSUME NEW p \in 1 .. size, NEW t \in taken
      PROVE  ~Meets(p, h, t[1], t[2]) <=> Units(p, h) \cap Units(t[1], t[2]) = {}
  <2>1. t[1] \in Nat \ {0} /\ t[2] \in Nat \ {0}
    OBVIOUS
  <2> QED BY <2>1, MeetsIsOverlap
<1> QED BY <1>1, <1>2 DEF AvailableSpaces, FreeSpaces
-----------------------------------------------------------------------------
OpenType == call \in [Calls -> OpenCalls \cup {None}]

(* A request that turned out to be on a stale read is one still. *)
LEMMA StaleCall ==
  ASSUME NEW c \in OpenCalls
  PROVE  /\ [c EXCEPT !.clean = FALSE] \in OpenCalls
         /\ [c EXCEPT !.clean = FALSE].clean = FALSE
BY DEF OpenCalls

(* Touch keeps the requests of their type. *)
LEMMA TouchType ==
  ASSUME OpenType, NEW r, NEW c \in OpenCalls \cup {None}, NEW S, Touch(r, c, S)
  PROVE  OpenType'
<1>1. ASSUME NEW x \in Calls
      PROVE  (IF x = r THEN c
              ELSE IF call[x] # None /\ call[x].on \cap S # {} THEN [call[x] EXCEPT !.clean = FALSE]
              ELSE call[x]) \in OpenCalls \cup {None}
  <2>1. call[x] \in OpenCalls \cup {None}
    BY DEF OpenType
  <2> QED BY <2>1, StaleCall
<1> QED BY <1>1 DEF OpenType, Touch

(* After Touch a clean request other than r is as it was, and relies on nothing touched. *)
LEMMA TouchClean ==
  ASSUME OpenType, NEW r, NEW c, NEW S, Touch(r, c, S),
         NEW x \in Calls, x # r, call'[x] # None, call'[x].clean
  PROVE  call'[x] = call[x] /\ call[x].on \cap S = {}
<1>1. call[x] \in OpenCalls \cup {None}
  BY DEF OpenType
<1>2. call'[x] = IF call[x] # None /\ call[x].on \cap S # {} THEN [call[x] EXCEPT !.clean = FALSE] ELSE call[x]
  BY DEF Touch
<1> QED BY <1>1, <1>2, StaleCall
-----------------------------------------------------------------------------
(* What the checks of mountEquipment saw, while nothing touched it. *)
Stands(c) ==
  /\ c.on = {c.of, c.rack}
  /\ Live(rack, c.rack)
  /\ Live(asset, c.of) /\ asset[c.of].site = rack[c.rack].site
  /\ FitsRack(c.pos, c.height, rack[c.rack].size)
  /\ \A b \in Mounted(c.rack) \ {c.of} :
       Placed(b) => Units(c.pos, c.height) \cap Units(asset[b].pos, asset[b].height) = {}
CleanMount(c) == c # None /\ c.op = "mount" /\ c.clean
MountsStand == \A r \in Calls : CleanMount(call[r]) => Stands(call[r])
\* A place that a check gave has a position and a height.
FirmHasPlace == \A a \in Assets \ loose : Live(asset, a) /\ asset[a].rack # None => Placed(a)

PlaceInv == PlaceTypeOK /\ PlacementSound /\ FirmHasPlace /\ MountsStand

(* The checks of an open mount still stand when its rack, its asset and what
   the rack holds are the same, or less. *)
LEMMA StandsKept ==
  ASSUME NEW c, Stands(c), rack'[c.rack] = rack[c.rack], asset'[c.of] = asset[c.of],
         \A b \in Assets : b \in Mounted(c.rack)' =>
           b \in Mounted(c.rack) /\ asset'[b].pos = asset[b].pos /\ asset'[b].height = asset[b].height
  PROVE  Stands(c)'
<1>1. ASSUME NEW b \in Mounted(c.rack)' \ {c.of}, Placed(b)'
      PROVE  Units(c.pos, c.height) \cap Units(asset'[b].pos, asset'[b].height) = {}
  <2>1. b \in Assets
    BY DEF Mounted
  <2>2. b \in Mounted(c.rack) \ {c.of} /\ Placed(b)
    BY <1>1, <2>1 DEF Placed
  <2> QED BY <2>1, <2>2 DEF Stands
<1> QED BY <1>1 DEF Stands, Live

(* What is placed on a check stays sound when its row and its rack stay. *)
LEMMA SoundKept ==
  ASSUME PlacementSound, FirmHasPlace,
         \A a \in Assets \ loose' : Live(asset, a)' /\ asset'[a].rack # None =>
           /\ a \notin loose /\ Live(asset, a)
           /\ asset'[a].rack = asset[a].rack /\ asset'[a].site = asset[a].site
           /\ asset'[a].pos = asset[a].pos /\ asset'[a].height = asset[a].height
           /\ rack'[asset[a].rack] = rack[asset[a].rack]
  PROVE  PlacementSound' /\ FirmHasPlace'
<1> DEFINE In(b, k) == Live(asset, b)' /\ asset'[b].rack = k
<1>1. ASSUME NEW a \in Assets \ loose', Live(asset, a)', asset'[a].rack # None
      PROVE  /\ asset'[a].site = rack'[asset'[a].rack].site
             /\ Units(asset'[a].pos, asset'[a].height) \subseteq 1 .. rack'[asset'[a].rack].size
             /\ Placed(a)'
  BY <1>1 DEF PlacementSound, FirmHasPlace, Placed
<1>2. ASSUME NEW a \in Assets \ loose', Live(asset, a)', asset'[a].rack # None,
             NEW b \in Assets \ (loose' \cup {a}), In(b, asset'[a].rack)
      PROVE  Units(asset'[a].pos, asset'[a].height) \cap Units(asset'[b].pos, asset'[b].height) = {}
  <2>1. b \in Mounted(asset[a].rack) \ (loose \cup {a})
    BY <1>2 DEF Mounted
  <2>2. Units(asset[a].pos, asset[a].height) \cap Units(asset[b].pos, asset[b].height) = {}
    BY <1>2, <2>1 DEF PlacementSound
  <2> QED BY <1>2, <2>2
<1>3. PlacementSound'
  BY <1>1, <1>2 DEF PlacementSound, Mounted
<1> QED BY <1>1, <1>3 DEF FirmHasPlace

(* A step that leaves the rows of racks and assets and opens no mount. *)
LEMMA RowsStay ==
  ASSUME PlaceInv, UNCHANGED <<rack, asset, loose>>, PlaceTypeOK',
         \A x \in Calls : CleanMount(call'[x]) => call'[x] = call[x]
  PROVE  PlaceInv'
<1>1. PlacementSound' /\ FirmHasPlace'
  BY SoundKept DEF PlaceInv, Live
<1>2. ASSUME NEW x \in Calls, CleanMount(call'[x]) PROVE Stands(call[x])'
  BY <1>2, StandsKept DEF PlaceInv, MountsStand, Mounted, Live
<1>3. MountsStand'
  <2>1. ASSUME NEW x \in Calls, CleanMount(call'[x]) PROVE Stands(call[x])' /\ call'[x] = call[x]
    BY <1>2, <2>1
  <2> QED BY <2>1 DEF MountsStand, Stands, Mounted
<1> QED BY <1>1, <1>3 DEF PlaceInv

(* A write of rows that touches what it changes leaves the other mounts standing. *)
LEMMA WriteKeepsMounts ==
  ASSUME PlaceInv, NEW r, NEW c, ~CleanMount(c), NEW S, Touch(r, c, S),
         \A k \in Racks \ S : Live(rack, k) => rack'[k] = rack[k],
         \A a \in Assets \ S : Live(asset, a) => asset'[a] = asset[a],
         \A b \in Assets, k \in Racks \ S : Live(asset, b)' /\ asset'[b].rack = k =>
           /\ Live(asset, b) /\ asset[b].rack = k
           /\ asset'[b].pos = asset[b].pos /\ asset'[b].height = asset[b].height
  PROVE  MountsStand'
<1>1. ASSUME NEW x \in Calls, CleanMount(call'[x]) PROVE Stands(call[x])' /\ call'[x] = call[x]
  <2>1. x # r
    BY <1>1 DEF Touch
  <2>2. call'[x] = call[x] /\ call[x].on \cap S = {}
    BY <1>1, <2>1, TouchClean DEF CleanMount, PlaceInv, PlaceTypeOK, OpenType
  <2>3. Stands(call[x])
    BY <1>1, <2>2 DEF PlaceInv, MountsStand
  <2>4. call[x] \in OpenCalls
    BY <1>1, <2>2 DEF PlaceInv, PlaceTypeOK, CleanMount
  <2>5. call[x].of \in Assets /\ call[x].rack \in Racks
    BY <1>1, <2>2, <2>4 DEF OpenCalls, CleanMount
  <2>6. call[x].of \notin S /\ call[x].rack \notin S
    BY <2>2, <2>3 DEF Stands
  <2>7. rack'[call[x].rack] = rack[call[x].rack] /\ asset'[call[x].of] = asset[call[x].of]
    BY <2>3, <2>5, <2>6 DEF Stands
  <2>8. ASSUME NEW b \in Assets, b \in Mounted(call[x].rack)'
        PROVE  b \in Mounted(call[x].rack) /\ asset'[b].pos = asset[b].pos /\ asset'[b].height = asset[b].height
    BY <2>2, <2>5, <2>6, <2>8, <1>1 DEF Mounted
  <2> HIDE DEF CleanMount
  <2> QED BY <2>2, <2>3, <2>7, <2>8, StandsKept
<1> QED BY <1>1 DEF MountsStand, Stands, Mounted
-----------------------------------------------------------------------------
(* The next step of a request after its write. *)
LEMMA LaterType ==
  ASSUME NEW c \in OpenCalls, c.op \in After
  PROVE  Later(c) \in OpenCalls \cup {None} /\ ~CleanMount(Later(c))
<1>1. CASE c.of \in Assets
  <2>1. c \in [op : {"track", "react", "audit", "sync"}, of : Assets, was : AssetRow, now : AssetRow,
               says : Opt(AssetStatus), host : BOOLEAN, on : SUBSET Things, clean : BOOLEAN]
    BY <1>1, EntitiesAssumption DEF OpenCalls, After
  <2>2. [c EXCEPT !.op = "react"] \in OpenCalls /\ [c EXCEPT !.op = "sync"] \in OpenCalls
    BY <2>1 DEF OpenCalls
  <2>3. [c EXCEPT !.op = "react"].op = "react" /\ [c EXCEPT !.op = "sync"].op = "sync"
    BY <2>1
  <2> QED BY <2>2, <2>3 DEF Later, CleanMount
<1>2. CASE c.of \notin Assets
  <2>1. c.op # "track"
    BY <1>2 DEF OpenCalls, After
  <2> QED BY <1>2, <2>1 DEF Later, Renames, CleanMount
<1> QED BY <1>1, <1>2

\* The types of the rows, apart from the requests.
RowsOK ==
  /\ site \in [Sites -> SiteStatus \cup {None, Gone}]
  /\ rack \in [Racks -> RackRow \cup {None, Gone}]
  /\ asset \in [Assets -> AssetRow \cup {None, Gone}]
  /\ loose \subseteq Assets
  /\ \A a \in Assets : Live(asset, a) => Linked(asset[a])

(* Creation of an asset. *)
LEMMA CreateAssetStep ==
  ASSUME PlaceInv, NEW r \in Calls, NEW a \in Assets, NEW row \in AssetRows, CreateAsset(r, a, row)
  PROVE  PlaceInv'
<1> DEFINE c == [op |-> "created", of |-> a, now |-> row, on |-> {a}, clean |-> TRUE]
<1>1. row \in AssetRow
  BY RowsAssumption
<1>2. c \in OpenCalls /\ ~CleanMount(c)
  BY <1>1 DEF OpenCalls, Things, CleanMount
<1>3. Touch(r, c, {row.rack})
  BY DEF CreateAsset
<1> HIDE DEF c
<1>4. OpenType'
  BY <1>2, <1>3, TouchType DEF PlaceInv, PlaceTypeOK, OpenType
<1>5. RowsOK'
  BY <1>1 DEF PlaceInv, PlaceTypeOK, RowsOK, CreateAsset, Linked, Live
<1>6. MountsStand'
  BY <1>2, <1>3, WriteKeepsMounts DEF PlaceInv, PlaceTypeOK, CreateAsset, Live
<1>7. PlacementSound' /\ FirmHasPlace'
  BY SoundKept DEF PlaceInv, PlaceTypeOK, CreateAsset, Live
<1> QED BY <1>4, <1>5, <1>6, <1>7 DEF PlaceInv, PlaceTypeOK, RowsOK, OpenType

(* The write of an update. *)
LEMMA WriteUpdateStep ==
  ASSUME PlaceInv, NEW r \in Calls, WriteUpdate(r)
  PROVE  PlaceInv'
<1> DEFINE c == call[r]
           a == c.of
           row == Patched(asset[a], c.patch)
<1>1. c \in OpenCalls /\ c.op = "update"
  BY DEF PlaceInv, PlaceTypeOK, WriteUpdate
<1>2. c.of \in Assets /\ c.patch \in AssetPatches /\ c.was \in AssetRow /\ c.on \in SUBSET Things /\ c.clean \in BOOLEAN
  BY <1>1 DEF OpenCalls
<1>3. CASE Live(asset, a) /\ Linked(row)
  <2>1. asset[a] \in AssetRow
    BY <1>2, <1>3 DEF PlaceInv, PlaceTypeOK, Live
  <2>2. row \in AssetRow
    BY <1>2, <2>1, PatchesAssumption
  <2>3. Says(c) \in Opt(AssetStatus)
    <3>1. "status" \in DOMAIN c.patch => row.status = c.patch.status
      BY <2>1 DEF Patched, AssetRow
    <3> QED BY <2>2, <3>1 DEF Says, Opt, AssetRow
  <2>4. Written(c, row) \in OpenCalls /\ ~CleanMount(Written(c, row))
    BY <1>2, <2>2, <2>3 DEF Written, OpenCalls, CleanMount
  <2>5. /\ asset' = [asset EXCEPT ![a] = row]
        /\ loose' = IF row.rack = None THEN loose \ {a}
                    ELSE IF DOMAIN c.patch \cap {"site", "rack", "pos", "height"} # {} THEN loose \cup {a} ELSE loose
        /\ Touch(r, Written(c, row), Around(a, row.rack))
        /\ UNCHANGED <<site, rack>>
    BY <1>3 DEF WriteUpdate
  <2>6. DOMAIN c.patch \cap {"site", "rack", "pos", "height"} = {} =>
          row.site = asset[a].site /\ row.rack = asset[a].rack /\ row.pos = asset[a].pos /\ row.height = asset[a].height
    BY <2>1 DEF Patched, AssetRow
  <2> HIDE DEF c, row
  <2>7. OpenType'
    BY <2>4, <2>5, TouchType DEF PlaceInv, PlaceTypeOK, OpenType
  <2>8. RowsOK'
    BY <1>2, <1>3, <2>2, <2>5 DEF PlaceInv, PlaceTypeOK, RowsOK, Linked, Live
  <2>9. MountsStand'
    BY <1>2, <2>4, <2>5, WriteKeepsMounts DEF PlaceInv, PlaceTypeOK, Live, Around
  <2>10. PlacementSound' /\ FirmHasPlace'
    BY <1>2, <1>3, <2>5, <2>6, SoundKept DEF PlaceInv, PlaceTypeOK, Live
  <2> QED BY <2>7, <2>8, <2>9, <2>10 DEF PlaceInv, PlaceTypeOK, RowsOK, OpenType
<1>4. CASE ~(Live(asset, a) /\ Linked(row))
  <2>1. call' = [call EXCEPT ![r] = None] /\ UNCHANGED <<site, rack, asset, loose>>
    BY <1>4 DEF WriteUpdate
  <2>2. PlaceTypeOK'
    BY <2>1 DEF PlaceInv, PlaceTypeOK, Linked, Live
  <2> QED BY <2>1, <2>2, RowsStay DEF PlaceInv, PlaceTypeOK, CleanMount
<1> QED BY <1>3, <1>4

(* A step that changes one request and no row. *)
LEMMA CallStep ==
  ASSUME PlaceInv, UNCHANGED <<site, rack, asset, loose>>, NEW r \in Calls,
         NEW c \in OpenCalls \cup {None}, ~CleanMount(c), call' = [call EXCEPT ![r] = c]
  PROVE  PlaceInv'
<1>1. PlaceTypeOK'
  BY DEF PlaceInv, PlaceTypeOK, Linked, Live
<1>2. \A x \in Calls : CleanMount(call'[x]) => call'[x] = call[x]
  BY DEF PlaceInv, PlaceTypeOK
<1> QED BY <1>1, <1>2, RowsStay

(* A step that changes no request and no row. *)
LEMMA IdleStep ==
  ASSUME PlaceInv, UNCHANGED <<site, rack, asset, loose, call>>
  PROVE  PlaceInv'
BY RowsStay DEF PlaceInv, PlaceTypeOK, Linked, Live

(* A batch update. *)
LEMMA BatchStep ==
  ASSUME PlaceInv, NEW ids \in SUBSET Assets, NEW p \in AssetPatches, BatchUpdate(ids, p)
  PROVE  PlaceInv'
<1>1. ASSUME NEW a \in ids
      PROVE  /\ Live(asset, a) /\ asset[a] \in AssetRow /\ asset'[a] \in AssetRow
             /\ asset'[a].rack = asset[a].rack /\ asset'[a].pos = asset[a].pos /\ asset'[a].height = asset[a].height
             /\ "site" \notin DOMAIN p => asset'[a].site = asset[a].site
             /\ "site" \in DOMAIN p => asset'[a].site = p.site
  <2>1. Live(asset, a) /\ asset[a] \in AssetRow /\ asset'[a] = Patched(asset[a], p)
    BY DEF BatchUpdate, PlaceInv, PlaceTypeOK, Live
  <2>2. asset'[a] \in AssetRow
    BY <2>1, PatchesAssumption
  <2>3. DOMAIN p \subseteq {"status", "site"}
    BY DEF BatchUpdate
  <2> QED BY <2>1, <2>2, <2>3 DEF Patched, AssetRow
<1>2. \A a \in Assets \ ids : asset'[a] = asset[a]
  BY DEF BatchUpdate
<1>3. Touch(None, None, UNION {Around(a, None) : a \in ids}) /\ ids \subseteq UNION {Around(a, None) : a \in ids}
  BY DEF BatchUpdate, Around
<1>4. OpenType'
  BY <1>3, TouchType DEF PlaceInv, PlaceTypeOK, OpenType
<1>5. RowsOK'
  <2>1. asset' \in [Assets -> AssetRow \cup {None, Gone}]
    BY <1>1, <1>2 DEF BatchUpdate, PlaceInv, PlaceTypeOK
  <2>2. ASSUME NEW a \in Assets, Live(asset, a)' PROVE Linked(asset[a])'
    <3>1. CASE a \in ids
      BY <3>1, <1>1 DEF BatchUpdate, PlaceInv, PlaceTypeOK, Linked, Live
    <3>2. CASE a \notin ids
      BY <2>2, <3>2, <1>2 DEF BatchUpdate, PlaceInv, PlaceTypeOK, Linked, Live
    <3> QED BY <3>1, <3>2
  <2> QED BY <2>1, <2>2 DEF BatchUpdate, PlaceInv, PlaceTypeOK, RowsOK, Live
<1>6. MountsStand'
  <2>1. \A b \in Assets, k \in Racks : Live(asset, b)' /\ asset'[b].rack = k =>
          /\ Live(asset, b) /\ asset[b].rack = k
          /\ asset'[b].pos = asset[b].pos /\ asset'[b].height = asset[b].height
    BY <1>1, <1>2 DEF Live
  <2>2. ~CleanMount(None) /\ UNCHANGED rack
    BY DEF CleanMount, BatchUpdate
  <2> QED BY <1>2, <1>3, <2>1, <2>2, WriteKeepsMounts
<1>7. PlacementSound' /\ FirmHasPlace'
  <2>1. UNCHANGED rack /\ loose' = loose \cup {a \in ids : "site" \in DOMAIN p /\ asset[a].rack # None}
    BY DEF BatchUpdate
  <2>2. ASSUME NEW a \in Assets \ loose', Live(asset, a)', asset'[a].rack # None
        PROVE  /\ a \notin loose /\ Live(asset, a)
               /\ asset'[a].rack = asset[a].rack /\ asset'[a].site = asset[a].site
               /\ asset'[a].pos = asset[a].pos /\ asset'[a].height = asset[a].height
               /\ rack'[asset[a].rack] = rack[asset[a].rack]
    BY <2>1, <2>2, <1>1, <1>2 DEF Live
  <2> QED BY <2>2, SoundKept DEF PlaceInv
<1> QED BY <1>4, <1>5, <1>6, <1>7 DEF PlaceInv, PlaceTypeOK, RowsOK, OpenType

(* Removal of an asset. *)
LEMMA RemoveAssetStep ==
  ASSUME PlaceInv, NEW a \in Assets, RemoveAsset(a)
  PROVE  PlaceInv'
<1>1. /\ asset' = [asset EXCEPT ![a] = Gone]
      /\ Touch(None, None, Around(a, None))
      /\ UNCHANGED <<site, rack, loose>>
      /\ ~CleanMount(None)
  BY DEF RemoveAsset, CleanMount
<1>2. OpenType'
  BY <1>1, TouchType DEF PlaceInv, PlaceTypeOK, OpenType
<1>3. RowsOK'
  BY <1>1 DEF PlaceInv, PlaceTypeOK, RowsOK, Linked, Live
<1>4. MountsStand'
  BY <1>1, WriteKeepsMounts DEF PlaceInv, PlaceTypeOK, Around, Live
<1>5. PlacementSound' /\ FirmHasPlace'
  BY <1>1, SoundKept DEF PlaceInv, PlaceTypeOK, Live
<1> QED BY <1>2, <1>3, <1>4, <1>5 DEF PlaceInv, PlaceTypeOK, RowsOK, OpenType

(* The checks of a mount. *)
LEMMA CheckMountStep ==
  ASSUME PlaceInv, NEW r \in Calls, NEW k \in Racks, NEW a \in Assets, NEW s \in Slots, CheckMount(r, k, a, s[1], s[2])
  PROVE  PlaceInv'
<1> DEFINE c == [op |-> "mount", of |-> a, rack |-> k, pos |-> s[1], height |-> s[2], on |-> {a, k}, clean |-> TRUE]
<1>1. c \in OpenCalls
  BY DEF OpenCalls, Things, Positions, Heights
<1>2. c.of = a /\ c.rack = k /\ c.pos = s[1] /\ c.height = s[2] /\ c.on = {a, k}
  OBVIOUS
<1>3. call' = [call EXCEPT ![r] = c] /\ UNCHANGED <<site, rack, asset, loose>>
  BY DEF CheckMount, Open
<1>4. Stands(c)
  <2>1. ASSUME NEW b \in Mounted(k) \ {a}, Placed(b)
        PROVE  Units(s[1], s[2]) \cap Units(asset[b].pos, asset[b].height) = {}
    <3>1. asset[b] \in AssetRow /\ asset[b].pos # None /\ asset[b].height # None
      BY <2>1 DEF Mounted, Placed, Live, PlaceInv, PlaceTypeOK
    <3>2. asset[b].pos \in Nat \ {0} /\ asset[b].height \in Nat \ {0}
      BY <3>1, SlotsAssumption DEF AssetRow, Opt, Positions, Heights
    <3>3. s[1] \in Nat \ {0} /\ s[2] \in Nat \ {0}
      BY SlotsAssumption
    <3>4. ~Meets(s[1], s[2], asset[b].pos, asset[b].height)
      BY <2>1 DEF CheckMount
    <3> QED BY <3>2, <3>3, <3>4, MeetsIsOverlap
  <2> QED BY <1>2, <2>1 DEF Stands, CheckMount
<1> HIDE DEF c
<1>5. PlaceTypeOK'
  BY <1>1, <1>3 DEF PlaceInv, PlaceTypeOK, Linked, Live
<1>6. PlacementSound' /\ FirmHasPlace'
  BY <1>3, SoundKept DEF PlaceInv, Live
<1>7. ASSUME NEW x \in Calls, CleanMount(call'[x]) PROVE Stands(call'[x])
  BY <1>3, <1>4, <1>7 DEF PlaceInv, PlaceTypeOK, MountsStand
<1>8. MountsStand'
  BY <1>3, <1>7 DEF MountsStand, Stands, Mounted, Placed, Live
<1> QED BY <1>5, <1>6, <1>8 DEF PlaceInv

(* The write of a mount: on checks that still stand, or else loose. *)
LEMMA WriteMountStep ==
  ASSUME PlaceInv, NEW r \in Calls, WriteMount(r)
  PROVE  PlaceInv'
<1> DEFINE c == call[r]
           a == c.of
           k == c.rack
<1>1. c \in OpenCalls /\ c.op = "mount" /\ ~CleanMount(None)
  BY DEF PlaceInv, PlaceTypeOK, WriteMount, CleanMount
<1>2. a \in Assets /\ k \in Racks /\ c.pos \in Positions /\ c.height \in Heights /\ c.clean \in BOOLEAN
  BY <1>1 DEF OpenCalls
<1>3. CASE ~(Live(asset, a) /\ Live(rack, k))
  <2>1. call' = [call EXCEPT ![r] = None] /\ UNCHANGED <<site, rack, asset, loose>>
    BY <1>3 DEF WriteMount
  <2> QED BY <1>1, <2>1, CallStep
<1>4. CASE Live(asset, a) /\ Live(rack, k)
  <2>1. asset[a] \in AssetRow
    BY <1>2, <1>4 DEF PlaceInv, PlaceTypeOK, Live
  <2> DEFINE row == [asset[a] EXCEPT !.rack = k, !.pos = c.pos, !.height = c.height]
  <2>2. row \in AssetRow
    BY <1>2, <2>1 DEF AssetRow, Opt
  <2>3. row.site = asset[a].site /\ row.rack = k /\ row.pos = c.pos /\ row.height = c.height
    BY <2>1 DEF AssetRow
  <2>4. /\ asset' = [asset EXCEPT ![a] = row]
        /\ loose' = IF c.clean THEN loose \ {a} ELSE loose \cup {a}
        /\ Touch(r, None, Around(a, k))
        /\ UNCHANGED <<site, rack>>
    BY <1>4 DEF WriteMount
  <2>5. CleanMount(c) <=> c.clean
    BY <1>1 DEF CleanMount, WriteMount
  <2>6. c.clean => Stands(c)
    BY <2>5 DEF PlaceInv, MountsStand
  <2>7. c.pos \in Nat \ {0} /\ c.height \in Nat \ {0} /\ None \notin Nat
    BY <1>2, SlotsAssumption, NoneAssumption DEF Positions, Heights
  <2> HIDE DEF c, row
  <2>8. OpenType'
    BY <2>4, TouchType DEF PlaceInv, PlaceTypeOK, OpenType
  <2>9. RowsOK'
    BY <1>2, <1>4, <2>2, <2>3, <2>4 DEF PlaceInv, PlaceTypeOK, RowsOK, Linked, Live
  <2>10. MountsStand'
    BY <1>1, <1>2, <2>3, <2>4, WriteKeepsMounts DEF PlaceInv, PlaceTypeOK, Live, Around
  <2>11. asset'[a] = row /\ \A b \in Assets \ {a} : asset'[b] = asset[b]
    BY <1>2, <2>4 DEF PlaceInv, PlaceTypeOK
  <2>12. CASE ~c.clean
    <3>1. PlacementSound' /\ FirmHasPlace'
      BY <2>4, <2>11, <2>12, SoundKept DEF PlaceInv, Live
    <3> QED BY <2>8, <2>9, <2>10, <3>1 DEF PlaceInv, PlaceTypeOK, RowsOK, OpenType
  <2>13. CASE c.clean
    <3>1. asset[a].site = rack[k].site /\ FitsRack(c.pos, c.height, rack[k].size)
      BY <2>6, <2>13 DEF Stands
    <3>2. Units(c.pos, c.height) \subseteq 1 .. rack[k].size
      <4>1. rack[k].size \in Nat
        BY <1>2, <1>4 DEF PlaceInv, PlaceTypeOK, RackRow, Live
      <4> QED BY <2>7, <3>1, <4>1, FitsIsInside
    <3>3. ASSUME NEW b \in Assets \ (loose' \cup {a}), Live(asset, b), asset[b].rack # None
          PROVE  /\ asset[b].site = rack[asset[b].rack].site
                 /\ Units(asset[b].pos, asset[b].height) \subseteq 1 .. rack[asset[b].rack].size
                 /\ Placed(b)
                 /\ \A d \in Assets \ (loose' \cup {a, b}) : Live(asset, d) /\ asset[d].rack = asset[b].rack =>
                      Units(asset[b].pos, asset[b].height) \cap Units(asset[d].pos, asset[d].height) = {}
      <4>1. b \in Assets \ loose /\ \A d \in Assets \ (loose' \cup {a, b}) : d \notin loose
        BY <2>4, <3>3
      <4> QED BY <3>3, <4>1 DEF PlaceInv, PlacementSound, FirmHasPlace, Mounted
    <3>4. ASSUME NEW b \in Assets \ (loose' \cup {a}), Live(asset, b), asset[b].rack = k
          PROVE  Units(c.pos, c.height) \cap Units(asset[b].pos, asset[b].height) = {}
      <4>1. Placed(b)
        BY <1>4, <3>3, <3>4, <1>2, NoneAssumption
      <4> QED BY <2>6, <2>13, <3>4, <4>1 DEF Stands, Mounted
    <3>5. ASSUME NEW b \in Assets \ loose', Live(asset, b)', asset'[b].rack # None
          PROVE  /\ asset'[b].site = rack'[asset'[b].rack].site
                 /\ Units(asset'[b].pos, asset'[b].height) \subseteq 1 .. rack'[asset'[b].rack].size
                 /\ Placed(b)'
                 /\ \A d \in Assets \ (loose' \cup {b}) : Live(asset, d)' /\ asset'[d].rack = asset'[b].rack =>
                      Units(asset'[b].pos, asset'[b].height) \cap Units(asset'[d].pos, asset'[d].height) = {}
      <4>1. CASE b = a
        BY <1>2, <2>3, <2>4, <2>7, <2>11, <3>1, <3>2, <3>4, <4>1 DEF Live, Placed
      <4>2. CASE b # a
        <5>1. Live(asset, b) /\ asset'[b] = asset[b] /\ UNCHANGED rack /\ b \in Assets \ (loose' \cup {a}) /\ asset[b].rack # None
          BY <2>4, <2>11, <3>5, <4>2 DEF Live
        <5>2. Placed(b)'
          BY <3>3, <5>1 DEF Placed
        <5>3. ASSUME NEW d \in Assets \ (loose' \cup {b}), Live(asset, d)', asset'[d].rack = asset[b].rack
              PROVE  Units(asset[b].pos, asset[b].height) \cap Units(asset'[d].pos, asset'[d].height) = {}
          <6>1. CASE d = a
            BY <2>3, <2>11, <3>4, <5>1, <5>3, <6>1
          <6>2. CASE d # a
            BY <2>11, <3>3, <5>1, <5>3, <6>2 DEF Live
          <6> QED BY <6>1, <6>2
        <5> QED BY <3>3, <5>1, <5>2, <5>3
      <4> QED BY <4>1, <4>2
    <3>6. PlacementSound' /\ FirmHasPlace'
      BY <3>5 DEF PlacementSound, FirmHasPlace, Mounted
    <3> QED BY <2>8, <2>9, <2>10, <3>6 DEF PlaceInv, PlaceTypeOK, RowsOK, OpenType
  <2> QED BY <1>2, <2>12, <2>13
<1> QED BY <1>3, <1>4

(* The write of an unmount. *)
LEMMA WriteUnmountStep ==
  ASSUME PlaceInv, NEW r \in Calls, WriteUnmount(r)
  PROVE  PlaceInv'
<1> DEFINE c == call[r]
           a == c.of
           row == [asset[a] EXCEPT !.rack = None, !.pos = None, !.height = None]
<1>1. ~CleanMount(None)
  BY DEF CleanMount
<1>2. CASE ~Live(asset, a)
  BY <1>1, <1>2, CallStep DEF WriteUnmount
<1>3. CASE Live(asset, a)
  <2>1. /\ asset' = [asset EXCEPT ![a] = row]
        /\ loose' = loose \ {a}
        /\ Touch(r, None, Around(a, None))
        /\ UNCHANGED <<site, rack>>
    BY <1>3 DEF WriteUnmount
  <2>2. a \in Assets => asset[a] \in AssetRow
    BY <1>3 DEF PlaceInv, PlaceTypeOK, Live
  <2>3. a \in Assets => row \in AssetRow /\ row.rack = None /\ row.site = asset[a].site
    BY <2>2 DEF AssetRow, Opt
  <2> HIDE DEF row
  <2>4. OpenType'
    BY <2>1, TouchType DEF PlaceInv, PlaceTypeOK, OpenType
  <2>5. RowsOK'
    BY <1>3, <2>1, <2>3 DEF PlaceInv, PlaceTypeOK, RowsOK, Linked, Live
  <2>6. MountsStand'
    <3>1. None \notin Racks
      BY NoneAssumption
    <3> QED BY <1>1, <2>1, <2>3, <3>1, WriteKeepsMounts DEF PlaceInv, PlaceTypeOK, Around, Live
  <2>7. PlacementSound' /\ FirmHasPlace'
    BY <2>1, <2>3, SoundKept DEF PlaceInv, PlaceTypeOK, Live
  <2> QED BY <2>4, <2>5, <2>6, <2>7 DEF PlaceInv, PlaceTypeOK, RowsOK, OpenType
<1> QED BY <1>2, <1>3

(* Creation of a rack. *)
LEMMA CreateRackStep ==
  ASSUME PlaceInv, NEW k \in Racks, NEW s \in Sites, NEW size \in Nat, CreateRack(k, s, size)
  PROVE  PlaceInv'
<1>1. /\ rack' = [rack EXCEPT ![k] = [site |-> s, size |-> size]]
      /\ rack[k] = None
      /\ UNCHANGED <<site, asset, call, loose>>
  BY DEF CreateRack
<1>2. PlaceTypeOK'
  BY <1>1, NoneAssumption DEF PlaceInv, PlaceTypeOK, RackRow, Linked, Live
<1>3. PlacementSound' /\ FirmHasPlace'
  BY <1>1, SoundKept DEF PlaceInv, PlaceTypeOK, Linked, Live
<1>4. MountsStand'
  <2>1. ASSUME NEW x \in Calls, CleanMount(call[x]) PROVE Stands(call[x])'
    <3>1. Stands(call[x]) /\ call[x].rack # k
      BY <1>1, <2>1 DEF PlaceInv, MountsStand, Stands, Live
    <3>2. rack'[call[x].rack] = rack[call[x].rack]
      BY <1>1, <3>1 DEF PlaceInv, PlaceTypeOK, Stands, Live
    <3> QED BY <1>1, <3>1, <3>2, StandsKept DEF Mounted, Live
  <2> QED BY <1>1, <2>1 DEF MountsStand, Stands, Mounted, CleanMount
<1> QED BY <1>2, <1>3, <1>4 DEF PlaceInv

(* An update of a rack. *)
LEMMA UpdateRackStep ==
  ASSUME PlaceInv, NEW k \in Racks, NEW p \in RackPatches, UpdateRack(k, p)
  PROVE  PlaceInv'
<1> DEFINE row == Patched(rack[k], p)
<1>1. /\ rack' = [rack EXCEPT ![k] = row]
      /\ Live(rack, k)
      /\ loose' = loose \cup Mounted(k)
      /\ Touch(None, None, {k})
      /\ UNCHANGED <<site, asset>>
      /\ ~CleanMount(None)
  BY DEF UpdateRack, CleanMount
<1>2. row \in RackRow
  <2>1. rack[k] \in RackRow
    BY <1>1 DEF PlaceInv, PlaceTypeOK, Live
  <2> QED BY <2>1, PatchesAssumption DEF Patched, RackRow
<1> HIDE DEF row
<1>3. OpenType'
  BY <1>1, TouchType DEF PlaceInv, PlaceTypeOK, OpenType
<1>4. RowsOK'
  BY <1>1, <1>2, NoneAssumption DEF PlaceInv, PlaceTypeOK, RowsOK, Linked, Live, Mounted
<1>5. MountsStand'
  BY <1>1, WriteKeepsMounts DEF PlaceInv, PlaceTypeOK, Live
<1>6. PlacementSound' /\ FirmHasPlace'
  BY <1>1, SoundKept DEF PlaceInv, PlaceTypeOK, Live, Mounted
<1> QED BY <1>3, <1>4, <1>5, <1>6 DEF PlaceInv, PlaceTypeOK, RowsOK, OpenType

(* The removal of a rack or a site. *)
LEMMA WriteRemoveStep ==
  ASSUME PlaceInv, NEW r \in Calls, WriteRemove(r)
  PROVE  PlaceInv'
<1> DEFINE c == call[r]
           x == c.of
           racks == {k \in Racks : Live(rack, k) /\ (k = x \/ rack[k].site = x)}
           cut == {a \in Assets : Live(asset, a) /\ (asset[a].site = x \/ asset[a].rack \in racks)}
<1>1. /\ site' = [s \in Sites |-> IF s = x THEN Gone ELSE site[s]]
      /\ rack' = [k \in Racks |-> IF k \in racks THEN Gone ELSE rack[k]]
      /\ asset' = [a \in Assets |-> IF a \in cut THEN CutOff(asset[a], x, racks) ELSE asset[a]]
      /\ loose' = loose \cup cut
      /\ Touch(r, None, cut \cup racks)
      /\ ~CleanMount(None)
  BY DEF WriteRemove, CleanMount
<1>2. ASSUME NEW a \in cut
      PROVE  /\ Live(asset, a) /\ asset'[a] \in AssetRow
             /\ asset'[a].rack = IF asset[a].rack \in racks THEN None ELSE asset[a].rack
             /\ asset'[a].site = IF asset[a].site = x THEN None ELSE asset[a].site
             /\ asset'[a].pos = asset[a].pos /\ asset'[a].height = asset[a].height
  <2>1. Live(asset, a) /\ asset[a] \in AssetRow /\ asset'[a] = CutOff(asset[a], x, racks)
    BY <1>1 DEF PlaceInv, PlaceTypeOK, Live
  <2> HIDE DEF racks, cut, c
  <2> QED BY <2>1 DEF CutOff, AssetRow, Opt
<1>3. \A a \in Assets \ cut : asset'[a] = asset[a]
  BY <1>1
<1>4. \A k \in Racks \ racks : rack'[k] = rack[k]
  BY <1>1
<1>5. OpenType'
  BY <1>1, TouchType DEF PlaceInv, PlaceTypeOK, OpenType
<1>6. RowsOK'
  <2>1. asset' \in [Assets -> AssetRow \cup {None, Gone}]
    BY <1>1, <1>2, <1>3 DEF PlaceInv, PlaceTypeOK
  <2>2. /\ site' \in [Sites -> SiteStatus \cup {None, Gone}]
        /\ rack' \in [Racks -> RackRow \cup {None, Gone}]
        /\ loose' \subseteq Assets
    BY <1>1 DEF PlaceInv, PlaceTypeOK
  <2>3. ASSUME NEW a \in Assets, Live(asset, a)' PROVE Linked(asset[a])'
    <3>1. Live(asset, a)
      BY <2>3, <1>2, <1>3 DEF Live
    <3>2. Linked(asset[a]) /\ asset[a] \in AssetRow
      BY <3>1 DEF PlaceInv, PlaceTypeOK, Live
    <3>3. asset'[a].site # None => asset'[a].site = asset[a].site /\ asset[a].site # x
      BY <1>2, <1>3, <3>1
    <3>4. asset'[a].rack # None => asset'[a].rack = asset[a].rack /\ asset[a].rack \notin racks
      BY <1>2, <1>3, <3>1
    <3>5. asset'[a].site # None => Live(site, asset[a].site)'
      BY <1>1, <3>2, <3>3 DEF Linked, Live, AssetRow, Opt
    <3>6. asset'[a].rack # None => Live(rack, asset[a].rack)'
      <4>1. asset'[a].rack # None => asset[a].rack \in Racks \ racks /\ Live(rack, asset[a].rack)
        BY <3>2, <3>4 DEF Linked, AssetRow, Opt
      <4> QED BY <1>4, <3>4, <4>1 DEF Live
    <3> QED BY <3>5, <3>6 DEF Linked
  <2> QED BY <2>1, <2>2, <2>3 DEF RowsOK
<1>7. MountsStand'
  <2>1. \A b \in Assets, k \in Racks \ (cut \cup racks) : Live(asset, b)' /\ asset'[b].rack = k =>
          /\ Live(asset, b) /\ asset[b].rack = k
          /\ asset'[b].pos = asset[b].pos /\ asset'[b].height = asset[b].height
    BY <1>2, <1>3, NoneAssumption DEF Live
  <2>2. \A k \in Racks \ (cut \cup racks) : rack'[k] = rack[k]
    BY <1>4
  <2>3. \A a \in Assets \ (cut \cup racks) : asset'[a] = asset[a]
    BY <1>3
  <2> HIDE DEF cut, racks
  <2> QED BY <1>1, <2>1, <2>2, <2>3, WriteKeepsMounts
<1>8. PlacementSound' /\ FirmHasPlace'
  <2>1. ASSUME NEW a \in Assets \ loose', Live(asset, a)', asset'[a].rack # None
        PROVE  /\ a \notin loose /\ Live(asset, a)
               /\ asset'[a].rack = asset[a].rack /\ asset'[a].site = asset[a].site
               /\ asset'[a].pos = asset[a].pos /\ asset'[a].height = asset[a].height
               /\ rack'[asset[a].rack] = rack[asset[a].rack]
    <3>1. a \notin loose /\ a \notin cut /\ asset'[a] = asset[a] /\ Live(asset, a)
      BY <1>1, <1>3, <2>1 DEF Live
    <3>2. asset[a].rack \in Racks \ racks
      BY <2>1, <3>1 DEF PlaceInv, PlaceTypeOK, Live, AssetRow, Opt
    <3> QED BY <1>4, <3>1, <3>2
  <2> QED BY <2>1, SoundKept DEF PlaceInv
<1> QED BY <1>5, <1>6, <1>7, <1>8 DEF PlaceInv, PlaceTypeOK, RowsOK, OpenType
-----------------------------------------------------------------------------
(* A step that moves one site, and one request. *)
LEMMA WriteSiteStep ==
  ASSUME PlaceInv, NEW r \in Calls, WriteSite(r)
  PROVE  PlaceInv'
<1> DEFINE c == call[r]
<1>1. c \in [op : {"site"}, of : Sites, was : SiteStatus, says : SiteStatus, on : SUBSET Things, clean : BOOLEAN]
  BY DEF PlaceInv, PlaceTypeOK, WriteSite, OpenCalls
<1>2. [c EXCEPT !.op = "react"] \in OpenCalls /\ [c EXCEPT !.op = "react"].op = "react"
  BY <1>1 DEF OpenCalls
<1>3. \E d \in OpenCalls \cup {None} : ~CleanMount(d) /\ call' = [call EXCEPT ![r] = d]
  BY <1>2 DEF WriteSite, CleanMount
<1>4. UNCHANGED <<rack, asset, loose>>
  BY DEF WriteSite
<1>5. c.of \in Sites /\ c.says \in SiteStatus
  BY <1>1
<1>6. site' \in [Sites -> SiteStatus \cup {None, Gone}] /\ \A s \in Sites : Live(site, s) => Live(site, s)'
  BY <1>5, NoneAssumption DEF WriteSite, PlaceInv, PlaceTypeOK, Live
<1>7. PlaceTypeOK'
  BY <1>3, <1>4, <1>6 DEF PlaceInv, PlaceTypeOK, Linked, Live, AssetRow, Opt
<1>8. \A x \in Calls : CleanMount(call'[x]) => call'[x] = call[x]
  BY <1>3 DEF PlaceInv, PlaceTypeOK
<1> QED BY <1>4, <1>7, <1>8, RowsStay

(* The bulk update of a reaction, which makes acknowledgements late. *)
LEMMA ReactStep ==
  ASSUME PlaceInv, NEW r \in Calls, React(r)
  PROVE  PlaceInv'
<1> DEFINE c == call[r]
<1>1. c \in OpenCalls /\ c.op = "react" /\ UNCHANGED <<site, rack, asset, loose>>
  BY DEF React, PlaceInv, PlaceTypeOK
<1>2. [c EXCEPT !.op = "audit"] \in OpenCalls /\ [c EXCEPT !.op = "audit"].op = "audit"
  BY <1>1 DEF OpenCalls
<1>3. Later(c) \in OpenCalls \cup {None} /\ ~CleanMount(Later(c))
  BY <1>1, LaterType DEF After
<1>4. PICK d \in OpenCalls \cup {None} : /\ ~CleanMount(d)
        /\ call' = [x \in Calls |->
             IF x = r THEN d
             ELSE IF call[x] # None /\ call[x].op = "ack" /\ call[x].of = c.of THEN [call[x] EXCEPT !.clean = FALSE]
             ELSE call[x]]
  <2>1. CASE Stops(c.of) = {}
    BY <1>3, <2>1 DEF React
  <2>2. CASE Stops(c.of) # {}
    BY <1>2, <2>2 DEF React, CleanMount
  <2> QED BY <2>1, <2>2
<1>5. ASSUME NEW x \in Calls PROVE call'[x] \in OpenCalls \cup {None} /\ (CleanMount(call'[x]) => call'[x] = call[x])
  <2>1. call[x] \in OpenCalls \cup {None}
    BY DEF PlaceInv, PlaceTypeOK
  <2>2. CASE x = r
    BY <1>4, <2>2
  <2>3. CASE x # r /\ call[x] # None /\ call[x].op = "ack" /\ call[x].of = c.of
    <3>1. call'[x] = [call[x] EXCEPT !.clean = FALSE] /\ call'[x] \in OpenCalls /\ call'[x].clean = FALSE
      BY <1>4, <2>1, <2>3, StaleCall
    <3> QED BY <3>1 DEF CleanMount
  <2>4. CASE x # r /\ ~(call[x] # None /\ call[x].op = "ack" /\ call[x].of = c.of)
    BY <1>4, <2>1, <2>4
  <2> QED BY <2>2, <2>3, <2>4
<1>6. call' \in [Calls -> OpenCalls \cup {None}]
  BY <1>4, <1>5
<1>7. PlaceTypeOK'
  BY <1>1, <1>6 DEF PlaceInv, PlaceTypeOK, Linked, Live
<1> QED BY <1>1, <1>5, <1>7, RowsStay

(* The requests that start, go on or end without a row of racks and assets. *)
LEMMA OtherSteps ==
  ASSUME PlaceInv, NEW r \in Calls,
         \/ LogCreated(r) \/ Track(r) \/ Audit(r) \/ Sync(r) \/ Ack(r) \/ Fail(r)
         \/ \E a \in Assets, p \in AssetPatches : ReadUpdate(r, a, p)
         \/ \E x \in Racks \cup Sites : CheckRemove(r, x)
         \/ \E k \in Racks, a \in Assets : CheckUnmount(r, k, a)
         \/ \E s \in Sites, to \in SiteStatus : ReadSite(r, s, to)
         \/ \E e \in Entities : BulkEnable(r, e)
  PROVE  PlaceInv'
<1> DEFINE c == call[r]
<1> SUFFICES /\ UNCHANGED <<site, rack, asset, loose>>
             /\ \E d \in OpenCalls \cup {None} : ~CleanMount(d) /\ call' = [call EXCEPT ![r] = d]
  BY CallStep
<1>1. ~CleanMount(None)
  BY DEF CleanMount
<1>2. ASSUME c # None, c.op \in After PROVE Later(c) \in OpenCalls \cup {None} /\ ~CleanMount(Later(c))
  BY <1>2, LaterType DEF PlaceInv, PlaceTypeOK
<1> HIDE DEF c
<1>3. CASE LogCreated(r) \/ Sync(r) \/ Ack(r)
  BY <1>1, <1>3 DEF LogCreated, Sync, Ack
<1>4. CASE Track(r) \/ Audit(r) \/ Fail(r)
  BY <1>1, <1>2, <1>4 DEF Track, Audit, Fail, After, c
<1>5. ASSUME NEW a \in Assets, NEW p \in AssetPatches, ReadUpdate(r, a, p)
      PROVE  /\ UNCHANGED <<site, rack, asset, loose>>
             /\ \E d \in OpenCalls \cup {None} : ~CleanMount(d) /\ call' = [call EXCEPT ![r] = d]
  <2> DEFINE d == [op |-> "update", of |-> a, patch |-> p, was |-> asset[a], on |-> {a}, clean |-> TRUE]
  <2>1. asset[a] \in AssetRow
    BY <1>5 DEF ReadUpdate, PlaceInv, PlaceTypeOK, Live
  <2>2. d \in OpenCalls /\ d.op = "update"
    BY <2>1 DEF OpenCalls, Things
  <2> QED BY <1>5, <2>2 DEF ReadUpdate, Open, CleanMount
<1>6. ASSUME NEW x \in Racks \cup Sites, CheckRemove(r, x)
      PROVE  /\ UNCHANGED <<site, rack, asset, loose>>
             /\ \E d \in OpenCalls \cup {None} : ~CleanMount(d) /\ call' = [call EXCEPT ![r] = d]
  <2> DEFINE d == [op |-> "remove", of |-> x, on |-> {}, clean |-> TRUE]
  <2>1. d \in OpenCalls /\ d.op = "remove"
    BY DEF OpenCalls, Things
  <2> QED BY <1>6, <2>1 DEF CheckRemove, Open, CleanMount
<1>7. ASSUME NEW k \in Racks, NEW a \in Assets, CheckUnmount(r, k, a)
      PROVE  /\ UNCHANGED <<site, rack, asset, loose>>
             /\ \E d \in OpenCalls \cup {None} : ~CleanMount(d) /\ call' = [call EXCEPT ![r] = d]
  <2> DEFINE d == [op |-> "unmount", of |-> a, on |-> {a}, clean |-> TRUE]
  <2>1. d \in OpenCalls /\ d.op = "unmount"
    BY DEF OpenCalls, Things
  <2> QED BY <1>7, <2>1 DEF CheckUnmount, Open, CleanMount
<1>8. ASSUME NEW s \in Sites, NEW to \in SiteStatus, ReadSite(r, s, to)
      PROVE  /\ UNCHANGED <<site, rack, asset, loose>>
             /\ \E d \in OpenCalls \cup {None} : ~CleanMount(d) /\ call' = [call EXCEPT ![r] = d]
  <2> DEFINE d == [op |-> "site", of |-> s, was |-> site[s], says |-> to, on |-> {s}, clean |-> TRUE]
  <2>1. site[s] \in SiteStatus
    BY <1>8 DEF ReadSite, PlaceInv, PlaceTypeOK, Live
  <2>2. d \in OpenCalls /\ d.op = "site"
    BY <2>1 DEF OpenCalls, Things
  <2> QED BY <1>8, <2>2 DEF ReadSite, Open, CleanMount
<1>9. ASSUME NEW e \in Entities, BulkEnable(r, e)
      PROVE  /\ UNCHANGED <<site, rack, asset, loose>>
             /\ \E d \in OpenCalls \cup {None} : ~CleanMount(d) /\ call' = [call EXCEPT ![r] = d]
  <2> DEFINE d == [op |-> "ack", of |-> e, on |-> {}, clean |-> TRUE]
  <2>1. d \in OpenCalls /\ d.op = "ack"
    BY DEF OpenCalls, Things, Entities
  <2> QED BY <1>9, <2>1 DEF BulkEnable, Open, CleanMount
<1> QED BY <1>3, <1>4, <1>5, <1>6, <1>7, <1>8, <1>9

(* A restart. *)
LEMMA CrashStep ==
  ASSUME PlaceInv, Crash
  PROVE  PlaceInv'
<1>1. call' = [r \in Calls |-> None] /\ UNCHANGED <<site, rack, asset, loose>>
  BY DEF Crash
<1>2. PlaceTypeOK'
  BY <1>1 DEF PlaceInv, PlaceTypeOK, Linked, Live
<1> QED BY <1>1, <1>2, RowsStay DEF CleanMount
-----------------------------------------------------------------------------
(* At first no place is claimed: what is mounted is loose. *)
LEMMA InitPlace == Init => PlaceInv
<1> SUFFICES ASSUME Init PROVE PlaceInv
  OBVIOUS
<1>1. /\ site \in [Sites -> SiteStatus \cup {None}] /\ rack \in [Racks -> RackRow \cup {None}]
      /\ asset \in [Assets -> AssetRow \cup {None}]
  BY TenantsAssumption DEF Init
<1>2. \A a \in Assets : Live(asset, a) => Linked(asset[a])
  <2>1. PICK t \in Tenants0 : site = t.site /\ rack = t.rack /\ asset = t.asset
    BY DEF Init
  <2>2. ASSUME NEW a \in Assets, Live(asset, a) PROVE Linked(asset[a])
    <3>1. asset[a] \in AssetRow
      BY <1>1, <2>2 DEF Live
    <3>2. /\ asset[a].site # None => site[asset[a].site] # None /\ asset[a].site \in Sites
          /\ asset[a].rack # None => rack[asset[a].rack] # None /\ asset[a].rack \in Racks
      BY <2>1, <2>2, <3>1, TenantsAssumption DEF Live, AssetRow, Opt
    <3> QED BY <1>1, <3>2, NoneAssumption DEF Linked, Live
  <2> QED BY <2>2
<1>3. PlaceTypeOK
  BY <1>1, <1>2 DEF Init, PlaceTypeOK
<1> QED BY <1>3 DEF Init, PlaceInv, PlacementSound, FirmHasPlace, MountsStand, CleanMount

(* Every step keeps the invariant of the rows. *)
LEMMA NextPlace == PlaceInv /\ [Next]_vars => PlaceInv'
<1> SUFFICES ASSUME PlaceInv, [Next]_vars PROVE PlaceInv'
  OBVIOUS
<1>1. CASE UNCHANGED vars
  BY <1>1, IdleStep DEF vars, placeVars
<1>2. CASE Place
  <2>1. ASSUME NEW k \in Racks, NEW p \in RackPatches, NEW s \in Sites, "size" \in DOMAIN p, CreateRack(k, s, p.size)
        PROVE  PlaceInv'
    BY <2>1, CreateRackStep, PatchesAssumption
  <2> QED BY <1>2, <2>1, OtherSteps, WriteMountStep, WriteUnmountStep, WriteRemoveStep, RemoveAssetStep,
             CheckMountStep, CreateAssetStep, UpdateRackStep DEF Place
<1>3. CASE \E r \in Calls : Update(r) \/ WriteSite(r) \/ React(r) \/ Audit(r) \/ Sync(r) \/ Ack(r) \/ Fail(r)
  BY <1>3, WriteUpdateStep, WriteSiteStep, ReactStep, OtherSteps DEF Update
<1>4. CASE \/ \E r \in Calls, s \in Sites, to \in SiteStatus : ReadSite(r, s, to)
           \/ \E r \in Calls, e \in Entities : BulkEnable(r, e)
  BY <1>4, OtherSteps
<1>5. CASE \E e \in Entities : AckBanner(e)
  BY <1>5, IdleStep DEF AckBanner
<1>6. CASE \E ids \in SUBSET Assets, p \in AssetPatches : Batch(ids, p)
  BY <1>6, BatchStep DEF Batch
<1>7. CASE \E x \in Checks, p \in CheckPatches : UpdateCheck(x, p)
  BY <1>7, IdleStep DEF UpdateCheck
<1>8. CASE Crash
  BY <1>8, CrashStep
<1> QED BY <1>1, <1>2, <1>3, <1>4, <1>5, <1>6, <1>7, <1>8 DEF Next

(* The rows of sites, racks and assets and the open requests stay of their type. *)
THEOREM PlaceTypeHolds == Spec => []PlaceTypeOK
<1>1. PlaceInv => PlaceTypeOK
  BY DEF PlaceInv
<1> QED BY <1>1, InitPlace, NextPlace, PTL DEF Spec

(* racks.service.ts:363-398: the check of mountEquipment is enough for what is
   mounted through it on rows that stay as it read them, whatever else runs. *)
THEOREM PlacementSoundHolds == Spec => []PlacementSound
<1>1. PlaceInv => PlacementSound
  BY DEF PlaceInv
<1> QED BY <1>1, InitPlace, NextPlace, PTL DEF Spec

(* racks.service.ts:478: what is offered is free, of any rack in any state. *)
THEOREM OfferIsFreeHolds == Spec => []OfferIsFree
<1>1. PlaceTypeOK => OfferIsFree
  <2> SUFFICES ASSUME PlaceTypeOK, NEW k \in Racks, Live(rack, k), NEW h \in Heights
               PROVE  LET taken == {<<asset[b].pos, asset[b].height>> : b \in {b \in Mounted(k) : Placed(b)}} IN
                      AvailableSpaces(taken, rack[k].size, h) = FreeSpaces(taken, rack[k].size, h)
    BY DEF OfferIsFree
  <2> DEFINE taken == {<<asset[b].pos, asset[b].height>> : b \in {b \in Mounted(k) : Placed(b)}}
  <2>1. ASSUME NEW b \in Mounted(k), Placed(b)
        PROVE  asset[b].pos \in Nat \ {0} /\ asset[b].height \in Nat \ {0}
    <3>1. asset[b] \in AssetRow
      BY DEF Mounted, Live, PlaceTypeOK
    <3> QED BY <2>1, <3>1, SlotsAssumption DEF Placed, AssetRow, Opt, Positions, Heights
  <2>2. taken \in SUBSET ((Nat \ {0}) \X (Nat \ {0}))
    BY <2>1
  <2>3. rack[k].size \in Nat /\ h \in Nat \ {0}
    BY SlotsAssumption DEF PlaceTypeOK, Live, RackRow, Heights
  <2> HIDE DEF taken
  <2>4. AvailableSpaces(taken, rack[k].size, h) = FreeSpaces(taken, rack[k].size, h)
    BY ONLY <2>2, <2>3, OfferLemma
  <2> QED BY <2>4 DEF taken
<1> QED BY <1>1, PlaceTypeHolds, PTL
-----------------------------------------------------------------------------
CheckTypeOK ==
  /\ shown \in [Entities -> BOOLEAN]
  /\ muted \in [Checks -> Opt(Entities)]
  /\ check \in [Checks -> CheckRow \cup {Gone}]

(* Switching checks on or off keeps their type, if they exist. *)
LEMMA SwitchType ==
  ASSUME CheckTypeOK, NEW S \in SUBSET {c \in Checks : check[c] # Gone}, NEW on \in BOOLEAN, Switch(S, on)
  PROVE  /\ check' \in [Checks -> CheckRow \cup {Gone}]
         /\ \A c \in Checks : check'[c] # Gone <=> check[c] # Gone
         /\ \A c \in S : check'[c].enabled = on
         /\ \A c \in Checks \ S : check'[c] = check[c]
<1>1. ASSUME NEW c \in S
      PROVE  check'[c] = [check[c] EXCEPT !.enabled = on] /\ check[c] \in CheckRow
  BY DEF Switch, CheckTypeOK
<1>2. ASSUME NEW c \in S
      PROVE  check'[c] \in CheckRow /\ check'[c].enabled = on
  BY <1>1 DEF CheckRow
<1>3. ASSUME NEW c \in Checks \ S PROVE check'[c] = check[c]
  BY DEF Switch
<1>4. Gone \notin CheckRow
  BY EntitiesAssumption
<1> QED BY <1>1, <1>2, <1>3, <1>4 DEF Switch, CheckTypeOK

(* The target that a synchronization writes is an address. *)
LEMMA SyncHost ==
  ASSUME PlaceTypeOK, NEW r \in Calls, Sync(r)
  PROVE  call[r].now.ip \in Opt(Hosts)
<1>1. call[r] \in OpenCalls /\ call[r].op = "sync"
  BY DEF Sync, PlaceTypeOK
<1>2. call[r].now \in AssetRow
  BY <1>1 DEF OpenCalls
<1> QED BY <1>2 DEF AssetRow

(* So the checks keep their type. *)
LEMMA SyncType ==
  ASSUME PlaceTypeOK, CheckTypeOK, NEW r \in Calls, Sync(r)
  PROVE  check' \in [Checks -> CheckRow \cup {Gone}]
<1>1. call[r].now.ip \in Opt(Hosts)
  BY SyncHost
<1>2. ASSUME NEW x \in Checks
      PROVE  check'[x] \in CheckRow \cup {Gone}
  <2>1. check[x] \in CheckRow \cup {Gone}
    BY DEF CheckTypeOK
  <2>2. check'[x] = check[x] \/ (check[x] # Gone /\ check'[x] = [check[x] EXCEPT !.target = call[r].now.ip])
    BY DEF Sync, Of
  <2> QED BY <1>1, <2>1, <2>2 DEF CheckRow
<1> QED BY <1>2 DEF Sync

(* Every step keeps the type of the checks and banners. *)
LEMMA NextCheckType == PlaceInv /\ CheckTypeOK /\ [Next]_vars => CheckTypeOK'
<1> SUFFICES ASSUME PlaceInv, CheckTypeOK, [Next]_vars PROVE CheckTypeOK'
  OBVIOUS
<1>1. CASE UNCHANGED checkVars
  BY <1>1 DEF checkVars, CheckTypeOK
<1>2. ASSUME NEW S, Settle(S) PROVE CheckTypeOK'
  BY <1>2 DEF Settle, CheckTypeOK, Opt
<1>3. ASSUME NEW r \in Calls, React(r) PROVE CheckTypeOK'
  <2>1. call[r].of \in Entities
    BY <1>3 DEF React, PlaceInv, PlaceTypeOK, OpenCalls, Entities
  <2>2. Stops(call[r].of) \in SUBSET {c \in Checks : check[c] # Gone}
    BY DEF Stops, Attached, Of
  <2> QED BY <1>3, <2>1, <2>2, SwitchType DEF React, CheckTypeOK, Opt
<1>4. ASSUME NEW r \in Calls, NEW e \in Entities, BulkEnable(r, e) PROVE CheckTypeOK'
  <2>1. Starts(e) \in SUBSET {c \in Checks : check[c] # Gone}
    BY DEF Starts, Attached, Of
  <2> QED BY <1>4, <2>1, SwitchType DEF BulkEnable, CheckTypeOK, Opt
<1>5. ASSUME NEW r \in Calls, Audit(r) \/ Ack(r) PROVE CheckTypeOK'
  BY <1>5 DEF Audit, Ack, Unmute, CheckTypeOK, Opt
<1>6. ASSUME NEW e \in Entities, AckBanner(e) PROVE CheckTypeOK'
  BY <1>6 DEF AckBanner, Unmute, CheckTypeOK, Opt
<1>7. ASSUME NEW r \in Calls, Sync(r) PROVE CheckTypeOK'
  BY <1>7, SyncType DEF Sync, CheckTypeOK, PlaceInv
<1>8. ASSUME NEW x \in Checks, NEW p \in CheckPatches, UpdateCheck(x, p) PROVE CheckTypeOK'
  <2>1. Patched(check[x], p) \in CheckRow
    BY <1>8, CheckPatchesAssumption DEF UpdateCheck, CheckTypeOK
  <2> QED BY <1>8, <2>1 DEF UpdateCheck, CheckTypeOK, Opt
<1>9. CASE Crash \/ \E r \in Calls : Fail(r)
  BY <1>9 DEF Crash, Fail, Undone, CheckTypeOK, Opt
<1>10. CASE \E r \in Calls : WriteSite(r) \/ \E s \in Sites, to \in SiteStatus : ReadSite(r, s, to)
  BY <1>10 DEF WriteSite, ReadSite, checkVars, CheckTypeOK
<1>11. CASE Place \/ (\E r \in Calls : Update(r)) \/ \E ids \in SUBSET Assets, p \in AssetPatches : Batch(ids, p)
  BY <1>2, <1>11 DEF Place, Update, Batch
<1> QED BY <1>1, <1>3, <1>4, <1>5, <1>6, <1>7, <1>8, <1>9, <1>10, <1>11 DEF Next, vars, checkVars

(* At first every check there is watches an address or none. *)
LEMMA InitCheckType == Init => CheckTypeOK
<1> SUFFICES ASSUME Init PROVE CheckTypeOK
  OBVIOUS
<1>1. PlaceTypeOK
  BY InitPlace DEF PlaceInv
<1>2. ASSUME NEW c \in Checks, OnAsset(c), Live(asset, Owner[c]) PROVE asset[Owner[c]].ip \in Opt(Hosts)
  BY <1>1, <1>2 DEF PlaceTypeOK, OnAsset, Live, AssetRow
<1> QED BY <1>2 DEF Init, CheckTypeOK, CheckRow, Opt, OwnerLive

(* The types of everything, foreign keys included. *)
THEOREM TypeHolds == Spec => []TypeOK
<1>1. PlaceInv /\ CheckTypeOK => TypeOK
  BY DEF PlaceInv, CheckTypeOK, TypeOK
<1> QED BY <1>1, InitPlace, InitCheckType, NextPlace, NextCheckType, PTL DEF Spec
-----------------------------------------------------------------------------
Auditing(c) == c # None /\ c.op = "audit"
CleanAck(c) == c # None /\ c.op = "ack" /\ c.clean
AttachedTo(c, e) == Owner[c] = e \/ (OnAsset(c) /\ asset[Owner[c]].site = e)
OwnersLive == \A c \in Checks : check[c] # Gone => OwnerLive(c)

\* What a muted check is owed, and what a clean acknowledgement does not hide.
Owed == \A c \in Checks : muted[c] # None =>
          /\ check[c] # Gone /\ AttachedTo(c, muted[c]) /\ ~check[c].enabled
          /\ shown[muted[c]] \/ \E r \in Calls : Auditing(call[r]) /\ call[r].of = muted[c]
AckHidesNone == \A r \in Calls : CleanAck(call[r]) => \A c \in Checks : muted[c] # None => muted[c] # call[r].of
ToldInv == PlaceInv /\ CheckTypeOK /\ OwnersLive /\ Owed /\ AckHidesNone

\* Audits under way go on, and no acknowledgement begins.
CallsKeep == \A x \in Calls :
  /\ Auditing(call[x]) => Auditing(call'[x]) /\ call'[x].of = call[x].of
  /\ CleanAck(call'[x]) => CleanAck(call[x]) /\ call'[x].of = call[x].of

(* A stale request is of the same kind and of the same entity. *)
LEMMA StaleSame ==
  ASSUME NEW c \in OpenCalls
  PROVE  LET d == [c EXCEPT !.clean = FALSE] IN d.op = c.op /\ d.of = c.of /\ d.clean = FALSE
BY DEF OpenCalls

(* Touch leaves the audits and begins no acknowledgement. *)
LEMMA TouchKeeps ==
  ASSUME OpenType, NEW r, NEW c, NEW S, Touch(r, c, S), r \in Calls => ~Auditing(call[r]), ~CleanAck(c)
  PROVE  CallsKeep
<1>1. ASSUME NEW x \in Calls
      PROVE  /\ Auditing(call[x]) => Auditing(call'[x]) /\ call'[x].of = call[x].of
             /\ CleanAck(call'[x]) => CleanAck(call[x]) /\ call'[x].of = call[x].of
  <2>1. call[x] \in OpenCalls \cup {None} /\ None \notin OpenCalls
    BY NoneAssumption DEF OpenType
  <2>2. CASE x = r
    BY <2>2 DEF Touch, Auditing
  <2>3. CASE x # r /\ call[x] # None /\ call[x].on \cap S # {}
    <3>1. call'[x] = [call[x] EXCEPT !.clean = FALSE] /\ call[x] \in OpenCalls /\ call'[x] \in OpenCalls
      BY <2>1, <2>3, StaleCall DEF Touch
    <3>2. call'[x].op = call[x].op /\ call'[x].of = call[x].of /\ call'[x].clean = FALSE
      BY <3>1, StaleSame
    <3> QED BY <2>1, <3>1, <3>2 DEF Auditing, CleanAck
  <2>4. CASE x # r /\ ~(call[x] # None /\ call[x].on \cap S # {})
    BY <2>4 DEF Touch
  <2> QED BY <2>2, <2>3, <2>4
<1> QED BY <1>1 DEF CallsKeep

(* So does a step of one request that is neither. *)
LEMMA CallKeeps ==
  ASSUME OpenType, NEW r \in Calls, NEW d, call' = [call EXCEPT ![r] = d], ~Auditing(call[r]), ~CleanAck(d)
  PROVE  CallsKeep
BY DEF OpenType, CallsKeep

(* Nothing is owed that was not, and what is owed still is. *)
LEMMA OwedKept ==
  ASSUME Owed, AckHidesNone, CallsKeep,
         \A c \in Checks : muted'[c] # None =>
           /\ muted'[c] = muted[c]
           /\ check'[c] # Gone /\ AttachedTo(c, muted[c])' /\ ~check'[c].enabled
           /\ shown[muted[c]] => shown'[muted[c]]
  PROVE  Owed' /\ AckHidesNone'
<1>1. ASSUME NEW c \in Checks, muted'[c] # None
      PROVE  /\ check'[c] # Gone /\ AttachedTo(c, muted[c])' /\ ~check'[c].enabled /\ muted'[c] = muted[c]
             /\ shown'[muted'[c]] \/ \E r \in Calls : Auditing(call'[r]) /\ call'[r].of = muted'[c]
  BY <1>1 DEF Owed, CallsKeep
<1>2. AckHidesNone'
  <2>1. ASSUME NEW r \in Calls, CleanAck(call'[r]), NEW c \in Checks, muted'[c] # None PROVE muted'[c] # call'[r].of
    <3>1. CleanAck(call[r]) /\ call'[r].of = call[r].of
      BY <2>1 DEF CallsKeep
    <3> QED BY <2>1, <3>1 DEF AckHidesNone
  <2> QED BY <2>1 DEF AckHidesNone, CleanAck
<1> QED BY <1>1, <1>2 DEF Owed, Auditing, AttachedTo

(* A write of rows, with what it does to the checks of what is removed or moves. *)
LEMMA SettleStep ==
  ASSUME ToldInv, PlaceTypeOK', CallsKeep, NEW S, Settle(S)
  PROVE  Owed' /\ AckHidesNone' /\ OwnersLive'
<1>1. ASSUME NEW c \in Checks, muted'[c] # None
      PROVE  /\ muted'[c] = muted[c]
             /\ check'[c] # Gone /\ AttachedTo(c, muted[c])' /\ ~check'[c].enabled
             /\ shown[muted[c]] => shown'[muted[c]]
  <2>1. muted'[c] = muted[c] /\ check'[c] = check[c] /\ shown' = shown
    BY <1>1 DEF Settle, ToldInv, CheckTypeOK
  <2>2. check[c] # Gone /\ AttachedTo(c, muted[c]) /\ ~check[c].enabled
    BY <1>1, <2>1 DEF ToldInv, Owed
  <2>3. CASE OnAsset(c) /\ muted[c] \in Sites
    <3>1. asset'[Owner[c]].site = muted[c]
      BY <1>1, <2>1, <2>3 DEF Settle, ToldInv, CheckTypeOK
    <3> QED BY <2>1, <2>2, <2>3, <3>1 DEF AttachedTo, OnAsset
  <2>4. CASE ~(OnAsset(c) /\ muted[c] \in Sites)
    <3>1. OnAsset(c) => asset[Owner[c]] \in AssetRow \cup {None, Gone}
      BY DEF ToldInv, PlaceInv, PlaceTypeOK, OnAsset
    <3>2. muted[c] \in Entities
      BY <1>1, <2>1 DEF ToldInv, CheckTypeOK, Opt
    <3>3. CASE Owner[c] = muted[c]
      BY <2>1, <2>2, <3>3 DEF AttachedTo
    <3>4. CASE OnAsset(c) /\ asset[Owner[c]].site = muted[c]
      <4>1. Live(asset, Owner[c])
        BY <2>2, <3>4 DEF ToldInv, OwnersLive, OwnerLive
      <4> QED BY <2>4, <3>1, <3>2, <3>4, <4>1, <1>1, <2>1, EntitiesAssumption DEF Live, AssetRow, Opt, Entities
    <3> QED BY <2>2, <3>3, <3>4 DEF AttachedTo
  <2> QED BY <2>1, <2>2, <2>3, <2>4
<1>2. OwnersLive'
  BY DEF Settle, OwnersLive
<1> QED BY <1>1, <1>2, OwedKept DEF ToldInv

\* What a step that leaves the assets does with what is owed.
StillOwed == \A c \in Checks : muted'[c] # None =>
  /\ muted'[c] = muted[c]
  /\ check'[c] # Gone /\ ~check'[c].enabled
  /\ shown[muted[c]] => shown'[muted[c]]

(* While the assets stay where they are, it is still owed. *)
LEMMA AssetsStay ==
  ASSUME ToldInv, CallsKeep, UNCHANGED asset, StillOwed
  PROVE  Owed' /\ AckHidesNone'
<1>1. ASSUME NEW c \in Checks, muted'[c] # None
      PROVE  /\ muted'[c] = muted[c]
             /\ check'[c] # Gone /\ AttachedTo(c, muted[c])' /\ ~check'[c].enabled
             /\ shown[muted[c]] => shown'[muted[c]]
  BY <1>1 DEF StillOwed, ToldInv, Owed, AttachedTo, OnAsset
<1> QED BY <1>1, OwedKept DEF ToldInv

(* The owners of the checks are where they were. *)
LEMMA OwnersStay ==
  ASSUME OwnersLive, UNCHANGED <<site, asset>>, \A c \in Checks : check'[c] # Gone => check[c] # Gone
  PROVE  OwnersLive'
BY DEF OwnersLive, OwnerLive, OnAsset, Live

(* What goes on after a write is no acknowledgement. *)
LEMMA LaterNoAck ==
  ASSUME NEW c \in OpenCalls, c.op \in After
  PROVE  Later(c) \in OpenCalls \cup {None} /\ ~CleanAck(Later(c))
<1>1. Later(c) \in OpenCalls \cup {None}
  BY LaterType
<1>2. c.op = "track" => [c EXCEPT !.op = "react"].op = "react"
  BY DEF OpenCalls
<1>3. [c EXCEPT !.op = "sync"].op = "sync"
  BY DEF OpenCalls
<1>4. Later(c) = None \/ Later(c).op \in {"react", "sync"}
  BY <1>2, <1>3 DEF Later
<1> QED BY <1>1, <1>4 DEF CleanAck

(* The requests about rows end no audit and begin no acknowledgement. *)
LEMMA PlaceCalls ==
  ASSUME OpenType, Place
  PROVE  CallsKeep
<1>1. None \notin Calls /\ ~CleanAck(None)
  BY NoneAssumption DEF CleanAck
<1>2. ASSUME NEW r \in Calls, LogCreated(r) PROVE CallsKeep
  BY <1>1, <1>2, CallKeeps DEF LogCreated, Auditing
<1>3. ASSUME NEW r \in Calls, Track(r) PROVE CallsKeep
  <2>1. call[r] \in OpenCalls /\ call[r].op \in After /\ ~Auditing(call[r])
    BY <1>3 DEF Track, OpenType, After, Auditing
  <2>2. ~CleanAck(Later(call[r]))
    BY <2>1, LaterNoAck
  <2> QED BY <1>3, <2>1, <2>2, CallKeeps DEF Track
<1>4. ASSUME NEW r \in Calls, WriteMount(r) \/ WriteUnmount(r) \/ WriteRemove(r) PROVE CallsKeep
  <2>1. ~Auditing(call[r])
    BY <1>4 DEF WriteMount, WriteUnmount, WriteRemove, Auditing
  <2>2. (\E S : Touch(r, None, S)) \/ call' = [call EXCEPT ![r] = None]
    BY <1>4 DEF WriteMount, WriteUnmount, WriteRemove
  <2> QED BY <1>1, <2>1, <2>2, TouchKeeps, CallKeeps
<1>5. ASSUME NEW S, Touch(None, None, S) PROVE CallsKeep
  BY <1>1, <1>5, TouchKeeps
<1>6. ASSUME NEW r \in Calls, NEW d, Open(r, d), d.op # "ack" PROVE CallsKeep
  BY <1>6, CallKeeps DEF Open, Auditing, CleanAck
<1>7. ASSUME NEW r \in Calls, NEW a \in Assets, NEW row \in AssetRows, CreateAsset(r, a, row) PROVE CallsKeep
  BY <1>7, TouchKeeps DEF CreateAsset, Auditing, CleanAck
<1>8. ASSUME NEW r \in Calls, NEW a \in Assets, NEW p \in AssetPatches, ReadUpdate(r, a, p) PROVE CallsKeep
  BY <1>6, <1>8 DEF ReadUpdate
<1>9. ASSUME NEW r \in Calls, NEW x, CheckRemove(r, x) PROVE CallsKeep
  BY <1>6, <1>9 DEF CheckRemove
<1>10. ASSUME NEW r \in Calls, NEW k \in Racks, NEW a \in Assets, CheckUnmount(r, k, a) PROVE CallsKeep
  BY <1>6, <1>10 DEF CheckUnmount
<1>11. ASSUME NEW r \in Calls, NEW k \in Racks, NEW a \in Assets, NEW s \in Slots, CheckMount(r, k, a, s[1], s[2])
       PROVE  CallsKeep
  BY <1>6, <1>11 DEF CheckMount
<1>12. ASSUME NEW k \in Racks, NEW p \in RackPatches, UpdateRack(k, p) PROVE CallsKeep
  BY <1>5, <1>12 DEF UpdateRack
<1>13. ASSUME NEW k \in Racks, NEW s \in Sites, NEW n, CreateRack(k, s, n) PROVE CallsKeep
  BY <1>13 DEF CreateRack, CallsKeep, Auditing, CleanAck
<1>14. ASSUME NEW a \in Assets, RemoveAsset(a) PROVE CallsKeep
  BY <1>5, <1>14 DEF RemoveAsset
<1> QED BY <1>2, <1>3, <1>4, <1>7, <1>8, <1>9, <1>10, <1>11, <1>12, <1>13, <1>14 DEF Place

(* Nor do an update of an asset and one of several. *)
LEMMA UpdateCalls ==
  ASSUME OpenType, (\E r \in Calls : Update(r)) \/ \E ids \in SUBSET Assets, p \in AssetPatches : Batch(ids, p)
  PROVE  CallsKeep
<1>1. None \notin Calls /\ ~CleanAck(None)
  BY NoneAssumption DEF CleanAck
<1>2. ASSUME NEW r \in Calls, Update(r) PROVE CallsKeep
  <2>1. ~Auditing(call[r]) /\ ~CleanAck(Written(call[r], Patched(asset[call[r].of], call[r].patch)))
    BY <1>2 DEF Update, WriteUpdate, Auditing, CleanAck, Written
  <2>2. \/ \E S : Touch(r, Written(call[r], Patched(asset[call[r].of], call[r].patch)), S)
        \/ call' = [call EXCEPT ![r] = None]
    BY <1>2 DEF Update, WriteUpdate
  <2> QED BY <1>1, <2>1, <2>2, TouchKeeps, CallKeeps
<1>3. ASSUME NEW ids \in SUBSET Assets, NEW p \in AssetPatches, Batch(ids, p) PROVE CallsKeep
  BY <1>1, <1>3, TouchKeeps DEF Batch, BatchUpdate
<1> QED BY <1>2, <1>3
-----------------------------------------------------------------------------
Told == Owed /\ AckHidesNone /\ OwnersLive

(* The status of a site is read or written: the assets stay where they are. *)
LEMMA SiteTold ==
  ASSUME ToldInv, NEW r \in Calls, WriteSite(r) \/ \E s \in Sites, to \in SiteStatus : ReadSite(r, s, to)
  PROVE  Told'
<1>1. StillOwed /\ UNCHANGED asset
  BY DEF WriteSite, ReadSite, checkVars, StillOwed, ToldInv, Owed
<1>2. CASE \E s \in Sites, to \in SiteStatus : ReadSite(r, s, to)
  <2>1. CallsKeep
    BY <1>2, CallKeeps DEF ReadSite, Open, Auditing, CleanAck, ToldInv, PlaceInv, PlaceTypeOK, OpenType
  <2>2. OwnersLive'
    BY <1>2, OwnersStay DEF ReadSite, checkVars, ToldInv
  <2> QED BY <1>1, <2>1, <2>2, AssetsStay DEF Told
<1>3. CASE WriteSite(r)
  <2>1. call[r] \in OpenCalls /\ call[r].op = "site"
    BY <1>3 DEF WriteSite, ToldInv, PlaceInv, PlaceTypeOK
  <2>2. call[r].says \in SiteStatus /\ call[r].of \in Sites
    BY <2>1 DEF OpenCalls
  <2>3. [call[r] EXCEPT !.op = "react"].op = "react"
    BY <2>1 DEF OpenCalls
  <2>4. CallsKeep
    BY <1>3, <2>1, <2>3, CallKeeps DEF WriteSite, Auditing, CleanAck, ToldInv, PlaceInv, PlaceTypeOK, OpenType
  <2>5. \A s \in Sites : Live(site, s) => Live(site', s)
    BY <1>3, <2>2, NoneAssumption DEF WriteSite, Live, ToldInv, PlaceInv, PlaceTypeOK
  <2>6. OwnersLive'
    BY <1>3, <2>5, OwnerAssumption DEF WriteSite, ToldInv, OwnersLive, OwnerLive, OnAsset, Live, Entities
  <2> QED BY <1>1, <2>4, <2>6, AssetsStay DEF Told
<1> QED BY <1>2, <1>3

(* A reaction disables checks and owes their banner: its own audit is next. *)
LEMMA ReactTold ==
  ASSUME ToldInv, NEW r \in Calls, React(r)
  PROVE  Told'
<1> DEFINE c == call[r]  e == c.of  S == Stops(e)
<1>1. c \in OpenCalls /\ c.op = "react" /\ UNCHANGED <<site, asset, shown>>
  BY DEF React, ToldInv, PlaceInv, PlaceTypeOK
<1>2. S \in SUBSET {x \in Checks : check[x] # Gone} /\ \A x \in S : AttachedTo(x, e)
  BY DEF Stops, Attached, Of, AttachedTo
<1>3. /\ \A x \in Checks : check'[x] # Gone <=> check[x] # Gone
      /\ \A x \in S : check'[x].enabled = FALSE
      /\ \A x \in Checks \ S : check'[x] = check[x]
  BY <1>2, SwitchType DEF React, ToldInv
<1>4. S # {} => Auditing(call'[r]) /\ call'[r].of = e
  <2>1. [c EXCEPT !.op = "audit"].op = "audit" /\ [c EXCEPT !.op = "audit"].of = c.of /\ [c EXCEPT !.op = "audit"] # None
    <3>1. [c EXCEPT !.op = "audit"] \in OpenCalls
      BY <1>1 DEF OpenCalls
    <3> QED BY <1>1, <3>1, NoneAssumption DEF OpenCalls
  <2> QED BY <2>1 DEF React, Auditing, ToldInv, PlaceInv, PlaceTypeOK
<1>5. ~CleanAck(call'[r])
  <2>1. [c EXCEPT !.op = "audit"].op = "audit"
    BY <1>1 DEF OpenCalls
  <2>2. ~CleanAck(Later(c))
    BY <1>1, LaterNoAck DEF After
  <2> QED BY <2>1, <2>2 DEF React, CleanAck, ToldInv, PlaceInv, PlaceTypeOK
<1>6. ASSUME NEW y \in Calls, y # r
      PROVE  /\ Auditing(call[y]) => call'[y] = call[y]
             /\ CleanAck(call'[y]) => call'[y] = call[y] /\ call[y].of # e
  <2>1. call[y] \in OpenCalls \cup {None} /\ None \notin OpenCalls
    BY NoneAssumption DEF ToldInv, PlaceInv, PlaceTypeOK
  <2>2. CASE call[y] # None /\ call[y].op = "ack" /\ call[y].of = e
    <3>1. call'[y] = [call[y] EXCEPT !.clean = FALSE] /\ call[y] \in OpenCalls
      BY <1>6, <2>1, <2>2 DEF React
    <3>2. call'[y].clean = FALSE
      BY <3>1, StaleSame
    <3> QED BY <2>2, <3>2 DEF Auditing, CleanAck
  <2>3. CASE ~(call[y] # None /\ call[y].op = "ack" /\ call[y].of = e)
    <3>1. call'[y] = call[y]
      BY <1>6, <2>3 DEF React
    <3> QED BY <2>3, <3>1 DEF CleanAck
  <2> QED BY <2>2, <2>3
<1>7. ASSUME NEW x \in Checks, muted'[x] # None
      PROVE  /\ check'[x] # Gone /\ AttachedTo(x, muted[x])' /\ ~check'[x].enabled
             /\ shown'[muted'[x]] \/ \E y \in Calls : Auditing(call'[y]) /\ call'[y].of = muted'[x]
  <2>1. CASE x \in S
    <3>1. muted'[x] = e
      BY <2>1 DEF React
    <3> HIDE DEF S, e, c
    <3> QED BY <1>1, <1>2, <1>3, <1>4, <2>1, <3>1 DEF AttachedTo, OnAsset
  <2>2. CASE x \notin S
    <3>1. muted'[x] = muted[x] /\ check'[x] = check[x]
      BY <1>3, <2>2 DEF React
    <3>2. /\ check[x] # Gone /\ AttachedTo(x, muted[x]) /\ ~check[x].enabled
          /\ shown[muted[x]] \/ \E y \in Calls : Auditing(call[y]) /\ call[y].of = muted[x]
      BY <1>7, <3>1 DEF ToldInv, Owed
    <3>3. ~Auditing(call[r])
      BY <1>1 DEF Auditing
    <3> HIDE DEF S, e, c
    <3>4. (\E y \in Calls : Auditing(call[y]) /\ call[y].of = muted[x])
            => \E y \in Calls : Auditing(call'[y]) /\ call'[y].of = muted'[x]
      BY <1>6, <3>1, <3>3
    <3>5. AttachedTo(x, muted[x])'
      BY <1>1, <3>1, <3>2 DEF AttachedTo, OnAsset
    <3> QED BY <1>1, <3>1, <3>2, <3>4, <3>5
  <2> QED BY <2>1, <2>2
<1>8. ASSUME NEW y \in Calls, CleanAck(call'[y]), NEW x \in Checks, muted'[x] # None
      PROVE  muted'[x] # call'[y].of
  <2>1. y # r
    BY <1>5, <1>8
  <2>2. call'[y] = call[y] /\ call[y].of # e
    BY <1>6, <1>8, <2>1
  <2>3. muted'[x] = e \/ muted'[x] = muted[x]
    BY DEF React
  <2> HIDE DEF S, e, c
  <2> QED BY <1>8, <2>2, <2>3 DEF ToldInv, AckHidesNone
<1>9. OwnersLive'
  BY <1>1, <1>3, OwnersStay DEF ToldInv
<1> HIDE DEF S, e, c
<1>10. Owed'
  BY <1>7 DEF Owed, Auditing, AttachedTo, OnAsset
<1>11. AckHidesNone'
  BY <1>8 DEF AckHidesNone, CleanAck
<1> QED BY <1>9, <1>10, <1>11 DEF Told

(* An acknowledgement: nothing its entity is left owing stays muted. *)
LEMMA HideTold ==
  ASSUME ToldInv, CallsKeep, NEW e \in Entities,
         UNCHANGED <<site, asset, check>>, shown' = [shown EXCEPT ![e] = FALSE],
         Unmute(e) \/ (UNCHANGED muted /\ \A x \in Checks : muted[x] # e)
  PROVE  Told'
<1>1. ASSUME NEW x \in Checks, muted'[x] # None
      PROVE  muted'[x] = muted[x] /\ muted[x] # e
  BY <1>1 DEF Unmute
<1>2. StillOwed
  BY <1>1 DEF StillOwed, ToldInv, Owed, CheckTypeOK, Opt
<1>3. OwnersLive'
  BY OwnersStay DEF ToldInv
<1> QED BY <1>2, <1>3, AssetsStay DEF Told

(* An acknowledgement hides the banner of its entity, and no banner that is owed. *)
LEMMA AckTold ==
  ASSUME ToldInv, NEW r \in Calls, Ack(r)
  PROVE  Told'
<1>1. call[r] \in OpenCalls /\ call[r].op = "ack"
  BY DEF Ack, ToldInv, PlaceInv, PlaceTypeOK
<1>2. CallsKeep
  BY <1>1, CallKeeps DEF Ack, Auditing, CleanAck, ToldInv, PlaceInv, PlaceTypeOK, OpenType
<1>3. CASE call[r].of \in Entities
  <2>1. call[r].clean => \A x \in Checks : muted[x] # call[r].of
    <3>1. ASSUME call[r].clean, NEW x \in Checks PROVE muted[x] # call[r].of
      <4>1. CleanAck(call[r])
        BY <1>1, <3>1 DEF Ack, CleanAck
      <4>2. call[r].of # None
        BY <1>3, EntitiesAssumption
      <4> QED BY <4>1, <4>2 DEF ToldInv, AckHidesNone
    <3> QED BY <3>1
  <2> QED BY <1>2, <1>3, <2>1, HideTold DEF Ack
<1>4. CASE call[r].of \notin Entities
  <2>1. shown' = shown
    BY <1>4 DEF Ack, ToldInv, CheckTypeOK
  <2>2. \A x \in Checks : muted'[x] # None => muted'[x] = muted[x]
    BY DEF Ack, Unmute
  <2>3. StillOwed
    BY <2>1, <2>2 DEF Ack, StillOwed, ToldInv, Owed
  <2>4. OwnersLive'
    BY OwnersStay DEF Ack, ToldInv
  <2> QED BY <1>2, <2>3, <2>4, AssetsStay DEF Ack, Told
<1> QED BY <1>3, <1>4

(* Keeping the checks disabled settles what their entity owes. *)
LEMMA AckBannerTold ==
  ASSUME ToldInv, NEW e \in Entities, AckBanner(e)
  PROVE  Told'
BY HideTold DEF AckBanner, CallsKeep, Auditing, CleanAck

(* The row of the audit shows the banner of what its reaction disabled. *)
LEMMA AuditTold ==
  ASSUME ToldInv, NEW r \in Calls, Audit(r)
  PROVE  Told'
<1> DEFINE e == call[r].of
<1>1. call[r] \in OpenCalls /\ call[r].op = "audit"
  BY DEF Audit, ToldInv, PlaceInv, PlaceTypeOK
<1>2. e \in Entities
  BY <1>1 DEF OpenCalls, Entities
<1>3. ~CleanAck(call'[r])
  BY <1>1, LaterNoAck DEF Audit, After, ToldInv, PlaceInv, PlaceTypeOK
<1>4. \A y \in Calls \ {r} : call'[y] = call[y]
  BY DEF Audit
<1>5. ASSUME NEW x \in Checks, muted'[x] # None
      PROVE  /\ check'[x] # Gone /\ AttachedTo(x, muted[x])' /\ ~check'[x].enabled
             /\ shown'[muted'[x]] \/ \E y \in Calls : Auditing(call'[y]) /\ call'[y].of = muted'[x]
  <2>1. UNCHANGED <<muted, check, asset>>
    BY DEF Audit
  <2>2. /\ check[x] # Gone /\ AttachedTo(x, muted[x]) /\ ~check[x].enabled
        /\ shown[muted[x]] \/ \E y \in Calls : Auditing(call[y]) /\ call[y].of = muted[x]
    BY <1>5, <2>1 DEF ToldInv, Owed
  <2>3. muted[x] \in Entities
    BY <1>5, <2>1 DEF ToldInv, CheckTypeOK, Opt
  <2>4. shown'[e] = TRUE /\ \A f \in Entities : shown[f] => shown'[f]
    BY <1>2 DEF Audit, ToldInv, CheckTypeOK
  <2>5. shown'[muted'[x]] \/ \E y \in Calls : Auditing(call'[y]) /\ call'[y].of = muted'[x]
    BY <1>4, <2>1, <2>2, <2>3, <2>4
  <2> QED BY <2>1, <2>2, <2>5 DEF AttachedTo, OnAsset
<1>6. AckHidesNone'
  <2>1. ASSUME NEW y \in Calls, CleanAck(call'[y]), NEW x \in Checks, muted'[x] # None
        PROVE  muted'[x] # call'[y].of
    BY <1>3, <1>4, <2>1 DEF Audit, ToldInv, AckHidesNone
  <2> QED BY <2>1 DEF AckHidesNone, CleanAck
<1>7. OwnersLive'
  BY OwnersStay DEF Audit, ToldInv
<1> QED BY <1>5, <1>6, <1>7 DEF Told, Owed, Auditing, AttachedTo, OnAsset

(* An enabling frees all that its entity owes, so its acknowledgement hides none. *)
LEMMA BulkEnableTold ==
  ASSUME ToldInv, NEW r \in Calls, NEW e \in Entities, BulkEnable(r, e)
  PROVE  Told'
<1> DEFINE S == Starts(e)
<1>1. S \in SUBSET {c \in Checks : check[c] # Gone}
  BY DEF Starts, Attached, Of
<1>2. /\ \A x \in Checks : check'[x] # Gone <=> check[x] # Gone
      /\ \A x \in Checks \ S : check'[x] = check[x]
  BY <1>1, SwitchType DEF BulkEnable, ToldInv
<1>3. ASSUME NEW x \in Checks, muted'[x] # None
      PROVE  muted'[x] = muted[x] /\ muted[x] # e /\ x \notin S
  <2>1. muted'[x] = muted[x] /\ x \notin S
    BY <1>3 DEF BulkEnable
  <2>2. muted[x] = e => x \in S
    BY <1>3, <2>1 DEF ToldInv, Owed, Starts, Attached, Of, AttachedTo, Enabled
  <2> QED BY <2>1, <2>2
<1>4. /\ call[r] = None /\ \A y \in Calls \ {r} : call'[y] = call[y]
      /\ r \in Calls => call'[r] = [op |-> "ack", of |-> e, on |-> {}, clean |-> TRUE]
  BY DEF BulkEnable, Open, ToldInv, PlaceInv, PlaceTypeOK
<1>5. ASSUME NEW x \in Checks, muted'[x] # None
      PROVE  /\ check'[x] # Gone /\ AttachedTo(x, muted[x])' /\ ~check'[x].enabled
             /\ shown'[muted'[x]] \/ \E y \in Calls : Auditing(call'[y]) /\ call'[y].of = muted'[x]
  <2>1. muted'[x] = muted[x] /\ check'[x] = check[x] /\ UNCHANGED <<asset, shown>>
    BY <1>2, <1>3, <1>5 DEF BulkEnable
  <2>2. /\ check[x] # Gone /\ AttachedTo(x, muted[x]) /\ ~check[x].enabled
        /\ shown[muted[x]] \/ \E y \in Calls : Auditing(call[y]) /\ call[y].of = muted[x]
    BY <1>5, <2>1 DEF ToldInv, Owed
  <2>3. (\E y \in Calls : Auditing(call[y]) /\ call[y].of = muted[x])
          => \E y \in Calls : Auditing(call'[y]) /\ call'[y].of = muted'[x]
    BY <1>4, <2>1 DEF Auditing
  <2> QED BY <2>1, <2>2, <2>3 DEF AttachedTo, OnAsset
<1>6. AckHidesNone'
  <2>1. ASSUME NEW y \in Calls, CleanAck(call'[y]), NEW x \in Checks, muted'[x] # None
        PROVE  muted'[x] # call'[y].of
    <3>1. CASE y = r
      BY <1>3, <1>4, <2>1, <3>1
    <3>2. CASE y # r
      BY <1>3, <1>4, <2>1, <3>2 DEF ToldInv, AckHidesNone
    <3> QED BY <3>1, <3>2
  <2> QED BY <2>1 DEF AckHidesNone, CleanAck
<1>7. OwnersLive'
  BY <1>2, OwnersStay DEF BulkEnable, ToldInv
<1> QED BY <1>5, <1>6, <1>7 DEF Told, Owed, Auditing, AttachedTo, OnAsset

(* The other changes of checks: by hand, and of targets. *)
LEMMA CheckTold ==
  ASSUME ToldInv, (\E r \in Calls : Sync(r)) \/ \E x \in Checks, p \in CheckPatches : UpdateCheck(x, p)
  PROVE  Told'
<1>1. Gone \notin CheckRow
  BY EntitiesAssumption
<1>2. CASE \E r \in Calls : Sync(r)
  <2>1. PICK r \in Calls : Sync(r)
    BY <1>2
  <2>2. CallsKeep
    BY <2>1, CallKeeps DEF Sync, Auditing, CleanAck, ToldInv, PlaceInv, PlaceTypeOK, OpenType
  <2>3. ASSUME NEW x \in Checks
        PROVE  /\ check[x] # Gone <=> check'[x] # Gone
               /\ check[x] # Gone => check'[x].enabled = check[x].enabled
    <3>1. check[x] \in CheckRow \cup {Gone}
      BY DEF ToldInv, CheckTypeOK
    <3>2. check'[x] = check[x] \/ (check[x] # Gone /\ check'[x] = [check[x] EXCEPT !.target = call[r].now.ip])
      BY <2>1 DEF Sync, Of
    <3>3. call[r].now.ip \in Opt(Hosts)
      BY <2>1, SyncHost DEF ToldInv, PlaceInv
    <3>4. check[x] # Gone => LET row == [check[x] EXCEPT !.target = call[r].now.ip] IN
                             row \in CheckRow /\ row.enabled = check[x].enabled
      BY <3>1, <3>3 DEF CheckRow
    <3> QED BY <1>1, <3>2, <3>4
  <2>4. StillOwed
    BY <2>1, <2>3 DEF Sync, StillOwed, ToldInv, Owed
  <2>5. OwnersLive'
    BY <2>1, <2>3, OwnersStay DEF Sync, ToldInv
  <2> QED BY <2>1, <2>2, <2>4, <2>5, AssetsStay DEF Sync, Told
<1>3. ASSUME NEW x \in Checks, NEW p \in CheckPatches, UpdateCheck(x, p)
      PROVE  Told'
  <2>1. check[x] \in CheckRow
    BY <1>3 DEF UpdateCheck, ToldInv, CheckTypeOK
  <2>2. check'[x] = Patched(check[x], p) /\ check'[x] \in CheckRow /\ \A y \in Checks \ {x} : check'[y] = check[y]
    BY <1>3, <2>1, CheckPatchesAssumption DEF UpdateCheck, ToldInv, CheckTypeOK
  <2>3. "enabled" \notin DOMAIN p => check'[x].enabled = check[x].enabled
    <3>1. "enabled" \in DOMAIN check[x]
      BY <2>1 DEF CheckRow
    <3> QED BY <2>2, <3>1 DEF Patched
  <2>4. \A y \in Checks : check'[y] # Gone <=> check[y] # Gone
    BY <1>1, <2>1, <2>2
  <2>5. ASSUME NEW y \in Checks, muted'[y] # None
        PROVE  muted'[y] = muted[y] /\ (y = x => "enabled" \notin DOMAIN p)
    BY <1>3, <2>5 DEF UpdateCheck, ToldInv, CheckTypeOK
  <2>6. CallsKeep /\ UNCHANGED <<site, asset, shown>>
    BY <1>3 DEF UpdateCheck, CallsKeep
  <2>7. StillOwed
    BY <2>2, <2>3, <2>4, <2>5, <2>6 DEF StillOwed, ToldInv, Owed
  <2>8. OwnersLive'
    BY <2>4, <2>6, OwnersStay DEF ToldInv
  <2> QED BY <2>6, <2>7, <2>8, AssetsStay DEF Told
<1> QED BY <1>2, <1>3

(* A step that throws: a lost audit leaves nothing muted by its entity. *)
LEMMA FailTold ==
  ASSUME ToldInv, NEW r \in Calls, Fail(r)
  PROVE  Told'
<1>1. call[r] \in OpenCalls /\ UNCHANGED <<site, asset, check, shown>>
  BY DEF Fail, ToldInv, PlaceInv, PlaceTypeOK
<1>2. ~CleanAck(call'[r])
  <2>1. CASE call[r].op \in After
    <3>1. call'[r] = Later(call[r])
      BY <2>1 DEF Fail, ToldInv, PlaceInv, PlaceTypeOK
    <3> QED BY <1>1, <2>1, <3>1, LaterNoAck
  <2>2. CASE call[r].op \notin After
    BY <2>2 DEF Fail, CleanAck, ToldInv, PlaceInv, PlaceTypeOK
  <2> QED BY <2>1, <2>2
<1>3. \A y \in Calls \ {r} : call'[y] = call[y]
  BY DEF Fail
<1>4. ASSUME NEW x \in Checks, muted'[x] # None
      PROVE  muted'[x] = muted[x] /\ ~(call[r].op = "audit" /\ call[r].of = muted[x])
  BY <1>4 DEF Fail, Undone
<1>5. ASSUME NEW x \in Checks, muted'[x] # None
      PROVE  /\ check'[x] # Gone /\ AttachedTo(x, muted[x])' /\ ~check'[x].enabled
             /\ shown'[muted'[x]] \/ \E y \in Calls : Auditing(call'[y]) /\ call'[y].of = muted'[x]
  <2>1. /\ check[x] # Gone /\ AttachedTo(x, muted[x]) /\ ~check[x].enabled
        /\ shown[muted[x]] \/ \E y \in Calls : Auditing(call[y]) /\ call[y].of = muted[x]
    BY <1>4, <1>5 DEF ToldInv, Owed
  <2>2. (\E y \in Calls : Auditing(call[y]) /\ call[y].of = muted[x])
          => \E y \in Calls : Auditing(call'[y]) /\ call'[y].of = muted'[x]
    BY <1>3, <1>4, <1>5 DEF Auditing
  <2> QED BY <1>1, <1>4, <1>5, <2>1, <2>2 DEF AttachedTo, OnAsset
<1>6. ASSUME NEW y \in Calls, CleanAck(call'[y]), NEW x \in Checks, muted'[x] # None
      PROVE  muted'[x] # call'[y].of
  BY <1>2, <1>3, <1>4, <1>6 DEF ToldInv, AckHidesNone
<1>7. OwnersLive'
  BY <1>1, OwnersStay DEF ToldInv
<1>8. Owed' /\ AckHidesNone'
  BY <1>5, <1>6 DEF Owed, AckHidesNone, CleanAck, Auditing, AttachedTo, OnAsset
<1> QED BY <1>7, <1>8 DEF Told

(* A restart loses every audit under way. *)
LEMMA CrashTold ==
  ASSUME ToldInv, Crash
  PROVE  Told'
<1>1. UNCHANGED <<site, asset, check, shown>> /\ \A y \in Calls : call'[y] = None
  BY DEF Crash
<1>2. ASSUME NEW x \in Checks, muted'[x] # None
      PROVE  muted'[x] = muted[x] /\ shown[muted[x]]
  <2>1. muted'[x] = muted[x] /\ ~\E c \in {call[r] : r \in {y \in Calls : call[y] # None}} : c.op = "audit" /\ c.of = muted[x]
    BY <1>2 DEF Crash, Undone
  <2>2. ~\E y \in Calls : Auditing(call[y]) /\ call[y].of = muted[x]
    BY <2>1 DEF Auditing
  <2> QED BY <1>2, <2>1, <2>2 DEF ToldInv, Owed
<1>3. Owed'
  BY <1>1, <1>2 DEF ToldInv, Owed, AttachedTo, OnAsset, Auditing
<1>4. AckHidesNone'
  BY <1>1 DEF AckHidesNone, CleanAck
<1>5. OwnersLive'
  BY <1>1, OwnersStay DEF ToldInv
<1> QED BY <1>3, <1>4, <1>5 DEF Told

(* Every step keeps what the banners owe. *)
LEMMA NextTold == ToldInv /\ [Next]_vars => ToldInv'
<1> SUFFICES ASSUME ToldInv, [Next]_vars PROVE ToldInv'
  OBVIOUS
<1>1. PlaceInv' /\ CheckTypeOK'
  BY NextPlace, NextCheckType DEF ToldInv
<1> SUFFICES Told'
  BY <1>1 DEF Told, ToldInv
<1>2. PlaceTypeOK' /\ OpenType
  BY <1>1 DEF ToldInv, PlaceInv, PlaceTypeOK, OpenType
<1>3. CASE UNCHANGED vars
  <2>1. CallsKeep /\ StillOwed /\ UNCHANGED asset
    BY <1>3 DEF vars, placeVars, checkVars, CallsKeep, StillOwed, ToldInv, Owed
  <2>2. OwnersLive'
    BY <1>3, OwnersStay DEF vars, placeVars, checkVars, ToldInv
  <2> QED BY <2>1, <2>2, AssetsStay DEF Told
<1>4. CASE Place
  <2>1. CallsKeep /\ Settle({})
    BY <1>2, <1>4, PlaceCalls DEF Place
  <2> QED BY <1>2, <2>1, SettleStep DEF Told
<1>5. CASE (\E r \in Calls : Update(r)) \/ \E ids \in SUBSET Assets, p \in AssetPatches : Batch(ids, p)
  <2>1. CallsKeep /\ \E S : Settle(S)
    BY <1>2, <1>5, UpdateCalls DEF Update, Batch
  <2> QED BY <1>2, <2>1, SettleStep DEF Told
<1>6. CASE \/ \E r \in Calls : WriteSite(r) \/ React(r) \/ Audit(r) \/ Ack(r) \/ Fail(r)
           \/ \E r \in Calls, s \in Sites, to \in SiteStatus : ReadSite(r, s, to)
  BY <1>6, SiteTold, ReactTold, AuditTold, AckTold, FailTold
<1>7. CASE \E r \in Calls, e \in Entities : BulkEnable(r, e)
  BY <1>7, BulkEnableTold
<1>8. CASE \E e \in Entities : AckBanner(e)
  BY <1>8, AckBannerTold
<1>9. CASE (\E r \in Calls : Sync(r)) \/ \E x \in Checks, p \in CheckPatches : UpdateCheck(x, p)
  BY <1>9, CheckTold
<1>10. CASE Crash
  BY <1>10, CrashTold
<1> QED BY <1>3, <1>4, <1>5, <1>6, <1>7, <1>8, <1>9, <1>10 DEF Next

(* monitor-reactions.service.ts:147-153: what a reaction disabled is disabled
   still, and the banner of its entity says so or its audit row is about to. *)
THEOREM DisabledIsToldHolds == Spec => []DisabledIsTold
<1>1. Init => ToldInv
  <2> SUFFICES ASSUME Init PROVE ToldInv
    OBVIOUS
  <2>1. PlaceInv /\ CheckTypeOK
    BY InitPlace, InitCheckType
  <2>2. Owed /\ AckHidesNone /\ OwnersLive
    BY DEF Init, Owed, AckHidesNone, OwnersLive, CleanAck
  <2> QED BY <2>1, <2>2 DEF ToldInv
<1>2. ToldInv => DisabledIsTold
  <2> SUFFICES ASSUME ToldInv, NEW c \in Checks, muted[c] # None
               PROVE  /\ c \in Attached(muted[c]) /\ ~Enabled(c)
                      /\ \/ Banner(muted[c])
                         \/ \E r \in Calls : call[r] # None /\ call[r].op = "audit" /\ call[r].of = muted[c]
    BY DEF DisabledIsTold
  <2>1. c \in Attached(muted[c]) /\ ~Enabled(c)
    BY DEF ToldInv, Owed, AttachedTo, Attached, Of, Enabled
  <2> QED BY <2>1 DEF ToldInv, Owed, Banner, Auditing
<1> QED BY <1>1, <1>2, NextTold, PTL DEF Spec

-----------------------------------------------------------------------------
\* Requests that have read or written the row of an asset, and those that wrote it.
Wrote == After \cup {"created"}
Reading(c) == c # None /\ c.op \in Wrote \cup {"update"} /\ c.of \in Assets
\* A request that nothing touched since has the row as it is.
Backed(c, rows) ==
  Reading(c) => c.of \in c.on /\ (c.clean => rows[c.of] = IF c.op = "update" THEN c.was ELSE c.now)
Latest(c) == c # None /\ c.op \in Wrote /\ c.of \in Assets /\ c.clean
TraceInv ==
  /\ \A r \in Calls : Backed(call[r], asset)
  /\ \A r, q \in Calls : Latest(call[r]) /\ Latest(call[q]) /\ call[r].of = call[q].of => r = q

Stale(c) == [c EXCEPT !.clean = FALSE]
OthersGo(r) == \A x \in Calls \ {r} : call'[x] = call[x] \/ (call[x] # None /\ call'[x] = Stale(call[x]))

(* A request on a stale read does what it did. *)
LEMMA StaleFields ==
  ASSUME NEW c \in OpenCalls
  PROVE  LET d == Stale(c) IN
         /\ d \in OpenCalls /\ d # None /\ d.op = c.op /\ d.of = c.of /\ d.on = c.on /\ ~d.clean
         /\ c.op \in After => d.was = c.was /\ (c.of \in Assets => d.now = c.now)
         /\ WillReact(d) <=> WillReact(c)
         /\ WillSync(d) <=> WillSync(c)
<1> DEFINE d == Stale(c)
<1>1. d \in OpenCalls /\ d.op = c.op /\ d.of = c.of /\ d.on = c.on /\ ~d.clean
  BY DEF OpenCalls, Stale
<1>2. d # None
  BY <1>1, NoneAssumption
<1>3. c.op \in After => d.was = c.was
  BY DEF OpenCalls, Stale, After
<1>4. c.op \in After /\ c.of \in Assets => d.now = c.now /\ d.says = c.says /\ d.host = c.host
  BY EntitiesAssumption DEF OpenCalls, Stale, After
<1>5. c.op = "track" => d.says = c.says /\ c.of \in Assets
  BY DEF OpenCalls, Stale
<1> HIDE DEF d
<1>6. WillReact(d) <=> WillReact(c)
  BY <1>1, <1>3, <1>5 DEF WillReact, After
<1>7. WillSync(d) <=> WillSync(c)
  BY <1>1, <1>3, <1>4 DEF WillSync, Renames
<1> QED BY <1>1, <1>2, <1>3, <1>4, <1>6, <1>7 DEF d

(* Touch leaves the other requests, or makes them stale. *)
LEMMA TouchOthers ==
  ASSUME NEW r, NEW c, NEW S, Touch(r, c, S)
  PROVE  OthersGo(r) /\ (r \in Calls => call'[r] = c)
BY DEF Touch, OthersGo, Stale

(* What goes on of a request after a step of it. *)
Onward(c, d) ==
  d # None => /\ d.op \in After /\ d.of = c.of /\ d.on = c.on /\ d.clean = c.clean
              /\ d.was = c.was /\ (c.of \in Assets => d.now = c.now)
              /\ WillReact(d) => WillReact(c)
              /\ WillSync(d) => WillSync(c)

(* An update goes on as another of its steps, and its synchronization with it. *)
LEMMA OpGoes ==
  ASSUME NEW c \in OpenCalls, c.op \in After, NEW op \in {"react", "audit", "sync"}, op = "react" => WillReact(c)
  PROVE  LET d == [c EXCEPT !.op = op] IN
         /\ d.op = op /\ Onward(c, d)
         /\ WillSync(c) => WillSync(d)
<1> DEFINE d == [c EXCEPT !.op = op]
<1>1. d.op = op /\ d.of = c.of /\ d.on = c.on /\ d.clean = c.clean /\ d.was = c.was
  BY DEF OpenCalls, After
<1>2. c.of \in Assets => d.now = c.now /\ d.host = c.host
  BY EntitiesAssumption DEF OpenCalls, After
<1> HIDE DEF d
<1>3. WillReact(d) => WillReact(c)
  BY <1>1 DEF WillReact
<1>4. WillSync(d) <=> WillSync(c)
  BY <1>1, <1>2 DEF WillSync, Renames, After
<1> QED BY <1>1, <1>2, <1>3, <1>4 DEF d, Onward, After

(* The next step after the write keeps what is still to be done. *)
LEMMA LaterGoes ==
  ASSUME NEW c \in OpenCalls, c.op \in After
  PROVE  /\ Onward(c, Later(c))
         /\ c.op = "track" /\ WillReact(c) => Later(c) # None /\ WillReact(Later(c))
         /\ c.op # "sync" /\ WillSync(c) => Later(c) # None /\ WillSync(Later(c))
<1>1. None \notin OpenCalls
  BY NoneAssumption
<1>2. CASE c.op = "track" /\ Leaves(c.was.status, c.says, ActiveAsset)
  <2>1. Later(c) = [c EXCEPT !.op = "react"] /\ WillReact(c)
    BY <1>2 DEF Later, WillReact
  <2>2. Later(c) # None
    <3>1. c.of \in Assets
      BY <1>2 DEF OpenCalls
    <3>2. [c EXCEPT !.op = "react"] \in OpenCalls
      BY <1>2 DEF OpenCalls
    <3> QED BY <1>1, <2>1, <3>2
  <2> QED BY <1>2, <2>1, <2>2, OpGoes DEF WillReact
<1>3. CASE ~(c.op = "track" /\ Leaves(c.was.status, c.says, ActiveAsset)) /\ c.op # "sync" /\ Renames(c)
  <2>1. Later(c) = [c EXCEPT !.op = "sync"] /\ ~(c.op = "track" /\ WillReact(c))
    BY <1>3 DEF Later, WillReact
  <2>2. Later(c) # None
    <3>1. c.of \in Assets
      BY <1>3 DEF Renames
    <3>2. [c EXCEPT !.op = "sync"] \in OpenCalls
      BY <3>1, EntitiesAssumption DEF OpenCalls, After
    <3> QED BY <1>1, <2>1, <3>2
  <2> QED BY <2>1, <2>2, OpGoes
<1>4. CASE ~(c.op = "track" /\ Leaves(c.was.status, c.says, ActiveAsset)) /\ ~(c.op # "sync" /\ Renames(c))
  <2>1. Later(c) = None
    BY <1>4 DEF Later
  <2> QED BY <1>4, <2>1 DEF Onward, WillReact, WillSync
<1> QED BY <1>2, <1>3, <1>4

(* What reads are of rows that stay. *)
LEMMA TraceOthers ==
  ASSUME OpenType, TraceInv, NEW r, OthersGo(r),
         \A x \in Calls \ {r} : Reading(call[x]) /\ call[x].clean /\ call'[x] = call[x] => asset'[call[x].of] = asset[call[x].of],
         r \in Calls => Backed(call'[r], asset'),
         r \in Calls => \A x \in Calls \ {r} : Latest(call'[r]) /\ Latest(call[x]) /\ call'[x] = call[x] => call[x].of # call'[r].of
  PROVE  TraceInv'
<1>1. ASSUME NEW x \in Calls \ {r}, call'[x] # call[x]
      PROVE  Backed(call'[x], asset') /\ ~Latest(call'[x])
  <2>1. call[x] \in OpenCalls /\ call'[x] = Stale(call[x])
    BY <1>1 DEF OthersGo, OpenType
  <2>2. call'[x].op = call[x].op /\ call'[x].of = call[x].of /\ call'[x].on = call[x].on /\ ~call'[x].clean /\ call[x] # None
    BY <2>1, StaleFields, NoneAssumption
  <2>3. Backed(call[x], asset)
    BY DEF TraceInv
  <2> QED BY <2>2, <2>3 DEF Backed, Reading, Latest
<1>2. ASSUME NEW x \in Calls \ {r}, call'[x] = call[x]
      PROVE  Backed(call'[x], asset')
  BY <1>2 DEF TraceInv, Backed
<1>3. \A x \in Calls : Backed(call'[x], asset')
  BY <1>1, <1>2
<1>4. ASSUME NEW x \in Calls, NEW q \in Calls, Latest(call'[x]), Latest(call'[q]), call'[x].of = call'[q].of
      PROVE  x = q
  <2>1. CASE x = r \/ q = r
    BY <1>1, <1>4, <2>1
  <2>2. CASE x # r /\ q # r
    BY <1>1, <1>4, <2>2 DEF TraceInv
  <2> QED BY <2>1, <2>2
<1>5. TraceInv' <=> /\ \A x \in Calls : Backed(call'[x], asset')
                   /\ \A x, q \in Calls : Latest(call'[x]) /\ Latest(call'[q]) /\ call'[x].of = call'[q].of => x = q
  BY DEF TraceInv, Backed, Reading, Latest
<1> QED BY <1>3, <1>4, <1>5

(* A write that touches what it changes. *)
LEMMA TraceWrite ==
  ASSUME PlaceTypeOK, TraceInv, NEW r, NEW c, NEW S, Touch(r, c, S),
         \A a \in Assets \ S : Live(asset, a) => asset'[a] = asset[a],
         Backed(c, asset'), Latest(c) => c.of \in S \/ asset[c.of] = None
  PROVE  TraceInv'
<1>1. OpenType /\ OthersGo(r) /\ (r \in Calls => call'[r] = c)
  BY TouchOthers DEF PlaceTypeOK, OpenType
<1>2. ASSUME NEW x \in Calls \ {r}, Reading(call[x]), call[x].clean, call'[x] = call[x]
      PROVE  call[x].of \notin S /\ Live(asset, call[x].of)
  <2>1. call[x].on \cap S = {}
    BY <1>1, <1>2, TouchClean DEF Reading
  <2>2. Backed(call[x], asset)
    BY DEF TraceInv
  <2>3. call[x] \in OpenCalls
    BY <1>1, <1>2 DEF OpenType, Reading
  <2>4. (IF call[x].op = "update" THEN call[x].was ELSE call[x].now) \in AssetRow
    BY <1>2, <2>3, EntitiesAssumption DEF OpenCalls, Reading, Wrote, After
  <2> QED BY <1>2, <2>1, <2>2, <2>4, NoneAssumption DEF Backed, Live, Reading
<1>3. \A x \in Calls \ {r} : Reading(call[x]) /\ call[x].clean /\ call'[x] = call[x] => asset'[call[x].of] = asset[call[x].of]
  BY <1>2 DEF Reading
<1>4. r \in Calls => \A x \in Calls \ {r} : Latest(call'[r]) /\ Latest(call[x]) /\ call'[x] = call[x] => call[x].of # call'[r].of
  BY <1>1, <1>2 DEF Latest, Reading, Live
<1> QED BY <1>1, <1>3, <1>4, TraceOthers

(* A step of a request that writes no row of an asset. *)
LEMMA TraceCall ==
  ASSUME OpenType, TraceInv, NEW r \in Calls, OthersGo(r), UNCHANGED asset, Backed(call'[r], asset),
         Latest(call'[r]) => Latest(call[r]) /\ call'[r].of = call[r].of
  PROVE  TraceInv'
<1>1. \A x \in Calls \ {r} : Reading(call[x]) /\ call[x].clean /\ call'[x] = call[x] => asset'[call[x].of] = asset[call[x].of]
  OBVIOUS
<1>2. \A x \in Calls \ {r} : Latest(call'[r]) /\ Latest(call[x]) /\ call'[x] = call[x] => call[x].of # call'[r].of
  BY DEF TraceInv
<1> QED BY <1>1, <1>2, TraceOthers

(* One that goes on with it. *)
LEMMA TraceOn ==
  ASSUME OpenType, TraceInv, NEW r \in Calls, OthersGo(r), UNCHANGED asset,
         call[r] # None, call[r].op \in After, Onward(call[r], call'[r])
  PROVE  TraceInv'
<1>1. Backed(call[r], asset)
  BY DEF TraceInv
<1>2. Backed(call'[r], asset)
  BY <1>1 DEF Backed, Reading, Onward, Wrote, After
<1>3. Latest(call'[r]) => Latest(call[r]) /\ call'[r].of = call[r].of
  BY DEF Latest, Onward, Wrote
<1> QED BY <1>2, <1>3, TraceCall

(* The end of a request. *)
LEMMA TraceEnd ==
  ASSUME OpenType, TraceInv, NEW r \in Calls, OthersGo(r), UNCHANGED asset, call'[r] = None
  PROVE  TraceInv'
BY TraceCall DEF Backed, Reading, Latest

(* A write that ends its request, or belongs to none. *)
LEMMA TraceDone ==
  ASSUME PlaceTypeOK, TraceInv, NEW r, NEW S, Touch(r, None, S),
         \A a \in Assets \ S : Live(asset, a) => asset'[a] = asset[a]
  PROVE  TraceInv'
BY TraceWrite DEF Backed, Reading, Latest

(* A step of one request. *)
LEMMA OneGoes ==
  ASSUME OpenType, NEW r \in Calls, NEW d, call' = [call EXCEPT ![r] = d]
  PROVE  OthersGo(r) /\ call'[r] = d
BY DEF OpenType, OthersGo

(* The opening of a request other than the write of an asset. *)
LEMMA TraceOpen ==
  ASSUME OpenType, TraceInv, NEW r \in Calls, NEW d, Open(r, d), UNCHANGED asset,
         d.op \notin Wrote, d.op = "update" => d.of \in d.on /\ d.was = asset[d.of]
  PROVE  TraceInv'
<1>1. OthersGo(r) /\ call'[r] = d
  BY OneGoes DEF Open
<1> QED BY <1>1, TraceCall DEF Backed, Reading, Latest

(* The write of an update: its request, unless stale, has the row that it wrote. *)
LEMMA TraceUpdate ==
  ASSUME PlaceTypeOK, TraceInv, NEW r \in Calls, WriteUpdate(r)
  PROVE  TraceInv'
<1> DEFINE c == call[r]
           row == Patched(asset[c.of], c.patch)
<1>1. c \in OpenCalls /\ c.op = "update"
  BY DEF PlaceTypeOK, WriteUpdate
<1>2. c.of \in Assets /\ Reading(c)
  BY <1>1, NoneAssumption DEF OpenCalls, Reading
<1>3. CASE Live(asset, c.of) /\ Linked(row)
  <2>1. asset' = [asset EXCEPT ![c.of] = row] /\ Touch(r, Written(c, row), Around(c.of, row.rack))
    BY <1>3 DEF WriteUpdate
  <2>2. Backed(c, asset)
    BY DEF TraceInv
  <2>3. Written(c, row).of = c.of /\ Written(c, row).on = c.on /\ Written(c, row).now = row /\ Written(c, row).op = "track"
    BY DEF Written
  <2> HIDE DEF c, row
  <2>4. Backed(Written(c, row), asset')
    BY <1>2, <2>1, <2>2, <2>3 DEF Backed, Reading, PlaceTypeOK
  <2>5. \A a \in Assets \ Around(c.of, row.rack) : asset'[a] = asset[a]
    BY <2>1 DEF Around, PlaceTypeOK
  <2>6. Written(c, row).of \in Around(c.of, row.rack)
    BY <2>3 DEF Around
  <2> QED BY <2>1, <2>4, <2>5, <2>6, TraceWrite
<1>4. CASE ~(Live(asset, c.of) /\ Linked(row))
  <2>1. call' = [call EXCEPT ![r] = None] /\ UNCHANGED asset
    BY <1>4 DEF WriteUpdate
  <2> QED BY <2>1, OneGoes, TraceEnd DEF PlaceTypeOK, OpenType
<1> QED BY <1>3, <1>4

(* So does a creation. *)
LEMMA TraceCreate ==
  ASSUME PlaceTypeOK, TraceInv, NEW r \in Calls, NEW a \in Assets, NEW row \in AssetRows, CreateAsset(r, a, row)
  PROVE  TraceInv'
<1> DEFINE c == [op |-> "created", of |-> a, now |-> row, on |-> {a}, clean |-> TRUE]
<1>1. Touch(r, c, {row.rack}) /\ asset' = [asset EXCEPT ![a] = row] /\ asset[a] = None
  BY DEF CreateAsset
<1>2. Backed(c, asset')
  BY <1>1 DEF Backed, PlaceTypeOK
<1>3. c.of = a
  OBVIOUS
<1>4. \A b \in Assets : Live(asset, b) => asset'[b] = asset[b]
  BY <1>1 DEF PlaceTypeOK, Live
<1> HIDE DEF c
<1> QED BY <1>1, <1>2, <1>3, <1>4, TraceWrite

(* The writes of rows that a movement does not tell of. *)
LEMMA TraceRows ==
  ASSUME PlaceTypeOK, TraceInv,
         \/ \E r \in Calls : WriteMount(r) \/ WriteUnmount(r) \/ WriteRemove(r)
         \/ \E a \in Assets : RemoveAsset(a)
         \/ \E k \in Racks, p \in RackPatches : UpdateRack(k, p)
         \/ \E ids \in SUBSET Assets, p \in AssetPatches : BatchUpdate(ids, p)
  PROVE  TraceInv'
<1>1. ASSUME NEW r \in Calls, WriteMount(r) \/ WriteUnmount(r) PROVE TraceInv'
  <2>1. CASE UNCHANGED asset /\ call' = [call EXCEPT ![r] = None]
    BY <2>1, OneGoes, TraceEnd DEF PlaceTypeOK, OpenType
  <2>2. CASE ~(UNCHANGED asset /\ call' = [call EXCEPT ![r] = None])
    <3>1. PICK row, k : asset' = [asset EXCEPT ![call[r].of] = row] /\ Touch(r, None, Around(call[r].of, k))
      BY <1>1, <2>2 DEF WriteMount, WriteUnmount
    <3>2. \A a \in Assets \ Around(call[r].of, k) : asset'[a] = asset[a]
      BY <3>1 DEF Around, PlaceTypeOK
    <3> QED BY <3>1, <3>2, TraceDone
  <2> QED BY <2>1, <2>2
<1>2. ASSUME NEW r \in Calls, WriteRemove(r) PROVE TraceInv'
  <2> DEFINE racks == {k \in Racks : Live(rack, k) /\ (k = call[r].of \/ rack[k].site = call[r].of)}
             cut == {a \in Assets : Live(asset, a) /\ (asset[a].site = call[r].of \/ asset[a].rack \in racks)}
  <2>1. Touch(r, None, cut \cup racks)
    BY <1>2 DEF WriteRemove
  <2>2. \A a \in Assets \ cut : asset'[a] = asset[a]
    BY <1>2 DEF WriteRemove
  <2> HIDE DEF cut, racks
  <2> QED BY <2>1, <2>2, TraceDone
<1>3. ASSUME NEW a \in Assets, RemoveAsset(a) PROVE TraceInv'
  <2>1. Touch(None, None, Around(a, None)) /\ \A b \in Assets \ Around(a, None) : asset'[b] = asset[b]
    BY <1>3 DEF RemoveAsset, Around, PlaceTypeOK
  <2> QED BY <2>1, TraceDone
<1>4. ASSUME NEW k \in Racks, NEW p \in RackPatches, UpdateRack(k, p) PROVE TraceInv'
  BY <1>4, TraceDone DEF UpdateRack
<1>5. ASSUME NEW ids \in SUBSET Assets, NEW p \in AssetPatches, BatchUpdate(ids, p) PROVE TraceInv'
  <2>1. Touch(None, None, UNION {Around(a, None) : a \in ids})
    BY <1>5 DEF BatchUpdate
  <2>2. \A b \in Assets \ UNION {Around(a, None) : a \in ids} : asset'[b] = asset[b]
    BY <1>5 DEF BatchUpdate, Around
  <2> QED BY <2>1, <2>2, TraceDone
<1> QED BY <1>1, <1>2, <1>3, <1>4, <1>5

(* What a request does after the write of an asset, or on rows of others. *)
LEMMA TraceLeaf ==
  ASSUME PlaceTypeOK, TraceInv, NEW r \in Calls,
         \/ LogCreated(r) \/ Track(r) \/ Audit(r) \/ Sync(r) \/ Ack(r) \/ Fail(r) \/ WriteSite(r) \/ React(r)
  PROVE  TraceInv'
<1> DEFINE c == call[r]
<1>1. OpenType /\ UNCHANGED asset /\ c \in OpenCalls
  BY DEF PlaceTypeOK, OpenType, LogCreated, Track, Audit, Sync, Ack, Fail, WriteSite, React
<1> HIDE DEF c
<1>2. CASE call' = [call EXCEPT ![r] = None]
  BY <1>1, <1>2, OneGoes, TraceEnd
<1>3. CASE call' = [call EXCEPT ![r] = Later(c)] /\ c.op \in After
  <2>1. OthersGo(r) /\ call'[r] = Later(c)
    BY <1>1, <1>3, OneGoes
  <2>2. Onward(c, Later(c)) /\ c # None
    BY <1>1, <1>3, LaterGoes, NoneAssumption
  <2> QED BY <1>1, <1>3, <2>1, <2>2, TraceOn DEF c
<1>4. CASE React(r)
  <2>1. c.op = "react" /\ OthersGo(r)
    BY <1>4 DEF React, OthersGo, Stale, c
  <2>2. call'[r] = Later(c) \/ call'[r] = [c EXCEPT !.op = "audit"]
    BY <1>4 DEF React, c
  <2>3. Onward(c, call'[r]) /\ c # None
    BY <1>1, <2>1, <2>2, LaterGoes, OpGoes, NoneAssumption DEF After
  <2> QED BY <1>1, <2>1, <2>3, TraceOn DEF c, After
<1>5. CASE WriteSite(r)
  <2>1. c.op = "site"
    BY <1>5 DEF WriteSite, c
  <2>2. c.of \in Sites /\ [c EXCEPT !.op = "react"].of = c.of
    BY <1>1, <2>1 DEF OpenCalls
  <2>3. call' = [call EXCEPT ![r] = None] \/ call' = [call EXCEPT ![r] = [c EXCEPT !.op = "react"]]
    BY <1>5 DEF WriteSite, c
  <2>4. ASSUME call' = [call EXCEPT ![r] = [c EXCEPT !.op = "react"]] PROVE TraceInv'
    <3>1. OthersGo(r) /\ call'[r] = [c EXCEPT !.op = "react"]
      BY <1>1, <2>4, OneGoes
    <3>2. call'[r].of \notin Assets
      BY <2>2, <3>1, EntitiesAssumption
    <3> QED BY <1>1, <3>1, <3>2, TraceCall DEF Backed, Reading, Latest
  <2> QED BY <1>2, <2>3, <2>4
<1> QED BY <1>2, <1>3, <1>4, <1>5 DEF LogCreated, Track, Audit, Sync, Ack, Fail, After, c

(* Every step keeps what the requests know of the rows. *)
LEMMA NextTrace == PlaceTypeOK /\ TraceInv /\ [Next]_vars => TraceInv'
<1> SUFFICES ASSUME PlaceTypeOK, TraceInv, [Next]_vars PROVE TraceInv'
  OBVIOUS
<1>1. OpenType
  BY DEF PlaceTypeOK, OpenType
<1>2. CASE UNCHANGED <<call, asset>>
  BY <1>2 DEF TraceInv, Backed, Reading, Latest
<1>3. ASSUME NEW r \in Calls,
             \/ \E a \in Assets, p \in AssetPatches : ReadUpdate(r, a, p)
             \/ \E x \in Racks \cup Sites : CheckRemove(r, x)
             \/ \E k \in Racks, a \in Assets : CheckUnmount(r, k, a) \/ \E s \in Slots : CheckMount(r, k, a, s[1], s[2])
             \/ \E s \in Sites, to \in SiteStatus : ReadSite(r, s, to)
             \/ \E e \in Entities : BulkEnable(r, e)
      PROVE  TraceInv'
  <2>1. ASSUME NEW a \in Assets, NEW p \in AssetPatches, ReadUpdate(r, a, p) PROVE TraceInv'
    BY <1>1, <2>1, TraceOpen DEF ReadUpdate, Wrote, After
  <2>2. ASSUME NEW d, Open(r, d), UNCHANGED asset, d.op \in {"remove", "unmount", "mount", "site", "ack"} PROVE TraceInv'
    BY <1>1, <2>2, TraceOpen DEF Wrote, After
  <2>3. ASSUME NEW x \in Racks \cup Sites, CheckRemove(r, x) PROVE TraceInv'
    BY <2>2, <2>3 DEF CheckRemove
  <2>4. ASSUME NEW k \in Racks, NEW a \in Assets, CheckUnmount(r, k, a) PROVE TraceInv'
    BY <2>2, <2>4 DEF CheckUnmount
  <2>5. ASSUME NEW k \in Racks, NEW a \in Assets, NEW s \in Slots, CheckMount(r, k, a, s[1], s[2]) PROVE TraceInv'
    BY <2>2, <2>5 DEF CheckMount
  <2>6. ASSUME NEW s \in Sites, NEW to \in SiteStatus, ReadSite(r, s, to) PROVE TraceInv'
    BY <2>2, <2>6 DEF ReadSite
  <2>7. ASSUME NEW e \in Entities, BulkEnable(r, e) PROVE TraceInv'
    BY <2>2, <2>7 DEF BulkEnable
  <2> QED BY <1>3, <2>1, <2>3, <2>4, <2>5, <2>6, <2>7
<1>4. CASE Place
  <2>1. ASSUME NEW k \in Racks, NEW s \in Sites, NEW n, CreateRack(k, s, n) PROVE UNCHANGED <<call, asset>>
    BY <2>1 DEF CreateRack
  <2> QED BY <1>2, <1>3, <1>4, <2>1, TraceLeaf, TraceRows, TraceCreate DEF Place
<1>5. CASE \E r \in Calls : Update(r) \/ WriteSite(r) \/ React(r) \/ Audit(r) \/ Sync(r) \/ Ack(r) \/ Fail(r)
  BY <1>5, TraceUpdate, TraceLeaf DEF Update
<1>6. CASE \E ids \in SUBSET Assets, p \in AssetPatches : Batch(ids, p)
  BY <1>6, TraceRows DEF Batch
<1>7. CASE Crash
  <2>1. UNCHANGED asset /\ \A r \in Calls : call'[r] = None
    BY <1>7 DEF Crash
  <2> QED BY <2>1 DEF TraceInv, Backed, Reading, Latest
<1>8. CASE (\E e \in Entities : AckBanner(e)) \/ \E x \in Checks, p \in CheckPatches : UpdateCheck(x, p)
  BY <1>2, <1>8 DEF AckBanner, UpdateCheck
<1> QED BY <1>2, <1>3, <1>4, <1>5, <1>6, <1>7, <1>8 DEF Next, vars, placeVars
-----------------------------------------------------------------------------
\* The place that the movements add up to, against the place there is.
Agrees(t, row) ==
  /\ t.site = row.site /\ t.status = row.status /\ t.rack = row.rack
  /\ row.rack # None => t.pos = row.pos
Logs(c, a) == c # None /\ c.op \in {"created", "track"} /\ c.of = a
\* A movement of a that is still to be written starts from what is told, or is on a stale read.
Accounted(a) ==
  \/ \E r \in Calls : Logs(call[r], a) /\ (call[r].clean /\ call[r].op = "track" => Agrees(told[a], call[r].was))
  \/ (\A r \in Calls : ~Logs(call[r], a)) /\ Agrees(told[a], asset[a])
HistInv ==
  /\ DOMAIN told = Assets
  /\ \A a \in Assets \ unlogged : Live(asset, a) => Accounted(a)

\* Nothing of what is to be written of a is lost, and nothing comes.
LogsStay(a) == \A x \in Calls :
  /\ Logs(call[x], a) => Logs(call'[x], a) /\ (call'[x].clean => call'[x] = call[x])
  /\ Logs(call'[x], a) => Logs(call[x], a)

(* An asset whose place, movements and requests stay. *)
LEMMA AccountKept ==
  ASSUME HistInv, NEW a \in Assets \ unlogged, Live(asset, a),
         LogsStay(a), told'[a] = told[a], asset'[a] = asset[a]
  PROVE  Accounted(a)'
<1>1. Accounted(a)
  BY DEF HistInv
<1>2. CASE \E r \in Calls : Logs(call[r], a) /\ (call[r].clean /\ call[r].op = "track" => Agrees(told[a], call[r].was))
  <2>1. PICK r \in Calls : Logs(call[r], a) /\ (call[r].clean /\ call[r].op = "track" => Agrees(told[a], call[r].was))
    BY <1>2
  <2>2. Logs(call'[r], a) /\ (call'[r].clean /\ call'[r].op = "track" => Agrees(told'[a], call'[r].was))
    BY <2>1 DEF LogsStay
  <2> QED BY <2>2 DEF Accounted, Logs, Agrees
<1>3. CASE (\A r \in Calls : ~Logs(call[r], a)) /\ Agrees(told[a], asset[a])
  <2>1. (\A r \in Calls : ~Logs(call'[r], a)) /\ Agrees(told'[a], asset'[a])
    BY <1>3 DEF LogsStay
  <2> QED BY <2>1 DEF Accounted, Logs, Agrees
<1> QED BY <1>1, <1>2, <1>3 DEF Accounted

(* The requests other than r, which is about none or another. *)
LEMMA OthersLog ==
  ASSUME OpenType, NEW r, OthersGo(r), NEW a, r \in Calls => ~Logs(call[r], a) /\ ~Logs(call'[r], a)
  PROVE  LogsStay(a)
<1>1. ASSUME NEW x \in Calls
      PROVE  /\ Logs(call[x], a) => Logs(call'[x], a) /\ (call'[x].clean => call'[x] = call[x])
             /\ Logs(call'[x], a) => Logs(call[x], a)
  <2>1. CASE x = r
    BY <2>1
  <2>2. CASE x # r /\ call'[x] = call[x]
    BY <2>2
  <2>3. CASE x # r /\ call'[x] # call[x]
    <3>1. call[x] \in OpenCalls /\ call'[x] = Stale(call[x])
      BY <2>3 DEF OthersGo, OpenType
    <3> QED BY <3>1, StaleFields, NoneAssumption DEF Logs
  <2> QED BY <2>1, <2>2, <2>3
<1> QED BY <1>1 DEF LogsStay

(* A step that tells of nothing, and writes a row only if no movement is to tell of it. *)
LEMMA HistSilent ==
  ASSUME OpenType, HistInv, NEW r, OthersGo(r), UNCHANGED told,
         r \in Calls => \A a \in Assets \ unlogged' : ~Logs(call[r], a) /\ ~Logs(call'[r], a),
         \A a \in Assets \ unlogged' : Live(asset, a)' => a \notin unlogged /\ asset'[a] = asset[a]
  PROVE  HistInv'
<1>1. ASSUME NEW a \in Assets \ unlogged', Live(asset, a)' PROVE Accounted(a)'
  <2>1. a \in Assets \ unlogged /\ Live(asset, a) /\ asset'[a] = asset[a] /\ told'[a] = told[a]
    BY <1>1 DEF Live
  <2>2. LogsStay(a)
    BY OthersLog
  <2> QED BY <2>1, <2>2, AccountKept
<1> QED BY <1>1 DEF HistInv

(* What the movements between two rows make of the first gives the second. *)
LEMMA ReplayAgrees ==
  ASSUME NEW t, NEW was \in AssetRow, NEW now \in AssetRow, Agrees(t, was)
  PROVE  Agrees(Replay(t, Movements(was, now), now), now)
<1> DEFINE M == Movements(was, now)
           R == Replay(t, M, now)
<1>1. "SITE_CHANGE" \in M <=> was.site # now.site
  BY DEF Movements, RackMove
<1>2. "STATUS_CHANGE" \in M <=> was.status # now.status
  BY DEF Movements, RackMove
<1>3. M \cap {"RACK_MOUNT", "RACK_CHANGE", "RACK_MOVE"} # {}
        <=> now.rack # None /\ (was.rack # now.rack \/ was.pos # now.pos)
  BY DEF Movements, RackMove
<1>4. "RACK_UNMOUNT" \in M <=> was.rack # None /\ now.rack = None
  BY DEF Movements, RackMove
<1> HIDE DEF M
<1>5. R.site = now.site /\ R.status = now.status
  BY <1>1, <1>2 DEF Replay, Agrees
<1>6. R.rack = now.rack /\ (now.rack # None => R.pos = now.pos)
  BY <1>3, <1>4 DEF Replay, Agrees
<1> QED BY <1>5, <1>6 DEF Agrees, M

(* The movements of an update, or of a creation, that nothing has overtaken. *)
LEMMA HistTell ==
  ASSUME PlaceTypeOK, TraceInv, HistInv, NEW r \in Calls, LogCreated(r) \/ Track(r)
  PROVE  HistInv'
<1>1. OpenType /\ call[r] \in OpenCalls /\ call[r] # None /\ call[r].op \in {"created", "track"} /\ UNCHANGED asset
  BY DEF PlaceTypeOK, OpenType, LogCreated, Track
<1>2. PICK a \in Assets, c \in OpenCalls : c = call[r] /\ a = call[r].of
  BY <1>1 DEF OpenCalls
<1>3. PICK new : new = IF c.op = "created" THEN Where(c.now) ELSE Replay(told[a], Movements(c.was, c.now), c.now)
  OBVIOUS
<1>4. c.now \in AssetRow /\ (c.op = "track" => c.was \in AssetRow) /\ c.clean \in BOOLEAN
  BY <1>1, <1>2 DEF OpenCalls
<1>5. OthersGo(r) /\ ~Logs(call'[r], a) /\ \A b \in Assets \ {a} : ~Logs(call[r], b) /\ ~Logs(call'[r], b)
  <2>1. CASE call' = [call EXCEPT ![r] = None]
    BY <1>1, <1>2, <2>1, OneGoes DEF Logs
  <2>2. CASE call' = [call EXCEPT ![r] = Later(c)] /\ c.op = "track"
    <3>1. Onward(c, Later(c)) /\ OthersGo(r) /\ call'[r] = Later(c)
      BY <1>1, <1>2, <2>2, OneGoes, LaterGoes DEF After
    <3>2. Later(c) # None => Later(c).op # "track" /\ Later(c).op # "created"
      <4>1. [c EXCEPT !.op = "react"].op = "react" /\ [c EXCEPT !.op = "sync"].op = "sync"
        BY <1>1, OpGoes, <2>2 DEF OpenCalls
      <4> QED BY <4>1 DEF Later
    <3> QED BY <1>2, <3>1, <3>2 DEF Logs, Onward
  <2> QED BY <1>2, <2>1, <2>2 DEF LogCreated, Track
<1>6. DOMAIN told = Assets
  BY DEF HistInv
<1>7. /\ Live(asset, a) => told'[a] = new
      /\ \A b \in Assets \ {a} : told'[b] = told[b]
      /\ DOMAIN told' = Assets
      /\ unlogged' = IF c.clean THEN unlogged ELSE unlogged \cup {a}
  BY <1>2, <1>3, <1>6 DEF LogCreated, Track
<1>8. c.clean => asset[a] = c.now /\ Latest(c)
  BY <1>1, <1>2 DEF TraceInv, Backed, Reading, Latest, Wrote, After
<1>9. ASSUME NEW b \in Assets \ unlogged', Live(asset, b)', b # a PROVE Accounted(b)'
  <2>1. b \in Assets \ unlogged /\ Live(asset, b) /\ told'[b] = told[b] /\ asset'[b] = asset[b]
    BY <1>1, <1>7, <1>9 DEF Live
  <2>2. LogsStay(b)
    BY <1>1, <1>5, <1>9, OthersLog
  <2> QED BY <2>1, <2>2, AccountKept
<1>10. ASSUME a \notin unlogged', Live(asset, a)' PROVE Accounted(a)'
  <2>1. c.clean /\ a \notin unlogged /\ Live(asset, a) /\ told'[a] = new
    BY <1>1, <1>4, <1>7, <1>10 DEF Live
  <2>2. ASSUME NEW q \in Calls \ {r}, Logs(call'[q], a) PROVE ~call'[q].clean
    <3>1. CASE call'[q] = call[q]
      BY <1>1, <1>2, <1>8, <2>1, <2>2, <3>1 DEF TraceInv, Latest, Logs, Wrote, After
    <3>2. CASE call'[q] # call[q]
      <4>1. call[q] \in OpenCalls /\ call'[q] = Stale(call[q])
        BY <1>1, <1>5, <3>2 DEF OthersGo, OpenType
      <4> QED BY <4>1, StaleFields
    <3> QED BY <3>1, <3>2
  <2>3. CASE \E q \in Calls : Logs(call'[q], a)
    <3>1. PICK q \in Calls \ {r} : Logs(call'[q], a)
      BY <1>5, <2>3
    <3> QED BY <2>2, <3>1 DEF Accounted, Logs, Agrees
  <2>4. CASE \A q \in Calls : ~Logs(call'[q], a)
    <3>1. \A q \in Calls \ {r} : ~Logs(call[q], a)
      <4>1. ASSUME NEW q \in Calls \ {r}, Logs(call[q], a) PROVE FALSE
        <5>1. call[q] \in OpenCalls /\ call'[q] # call[q] /\ call'[q] = Stale(call[q])
          BY <1>1, <1>5, <2>4, <4>1 DEF OthersGo, OpenType, Logs
        <5> QED BY <2>4, <4>1, <5>1, StaleFields DEF Logs
      <4> QED BY <4>1
    <3>2. c.op = "track" => Agrees(told[a], c.was)
      <4>1. Accounted(a) /\ Logs(call[r], a)
        BY <1>1, <1>2, <2>1 DEF HistInv, Logs
      <4> QED BY <1>2, <2>1, <3>1, <4>1 DEF Accounted
    <3>3. Agrees(new, c.now)
      <4>1. CASE c.op = "track"
        BY <1>3, <1>4, <3>2, <4>1, ReplayAgrees
      <4>2. CASE c.op = "created"
        BY <1>3, <4>2 DEF Where, Agrees
      <4> QED BY <1>1, <1>2, <4>1, <4>2
    <3>4. Agrees(told'[a], asset'[a])
      BY <1>1, <1>8, <2>1, <3>3
    <3> QED BY <2>4, <3>4 DEF Accounted, Logs, Agrees
  <2> QED BY <2>3, <2>4
<1> QED BY <1>7, <1>9, <1>10 DEF HistInv

(* What an update goes on as after its write. *)
LEMMA WrittenType ==
  ASSUME PlaceTypeOK, NEW r \in Calls, WriteUpdate(r), Live(asset, call[r].of)
  PROVE  LET row == Patched(asset[call[r].of], call[r].patch) IN
         /\ row \in AssetRow
         /\ Written(call[r], row) \in OpenCalls /\ Written(call[r], row) # None
<1> DEFINE c == call[r]
           a == c.of
           row == Patched(asset[a], c.patch)
<1>1. c \in OpenCalls /\ c.op = "update"
  BY DEF PlaceTypeOK, WriteUpdate
<1>2. c.of \in Assets /\ c.patch \in AssetPatches /\ c.was \in AssetRow /\ c.on \in SUBSET Things /\ c.clean \in BOOLEAN
  BY <1>1 DEF OpenCalls
<1>3. asset[a] \in AssetRow
  BY <1>2 DEF PlaceTypeOK, Live
<1>4. row \in AssetRow
  BY <1>2, <1>3, PatchesAssumption
<1>5. Says(c) \in Opt(AssetStatus)
  <2>1. "status" \in DOMAIN c.patch => row.status = c.patch.status
    BY <1>3 DEF Patched, AssetRow
  <2> QED BY <1>4, <2>1 DEF Says, Opt, AssetRow
<1>6. Written(c, row) \in OpenCalls
  BY <1>2, <1>4, <1>5 DEF Written, OpenCalls
<1> QED BY <1>4, <1>6, NoneAssumption

(* The write of an update goes on from the row it read, unless that is stale. *)
LEMMA HistUpdate ==
  ASSUME PlaceTypeOK, TraceInv, HistInv, NEW r \in Calls, WriteUpdate(r)
  PROVE  HistInv'
<1>1. OpenType /\ call[r] \in OpenCalls /\ call[r].op = "update" /\ call[r] # None
  BY DEF PlaceTypeOK, OpenType, WriteUpdate
<1>2. PICK a \in Assets, c \in OpenCalls : c = call[r] /\ a = call[r].of
  BY <1>1 DEF OpenCalls
<1>3. UNCHANGED <<told, unlogged>> /\ \A b \in Assets : ~Logs(call[r], b)
  BY <1>1 DEF WriteUpdate, Logs
<1>4. CASE Live(asset, a) /\ Linked(Patched(asset[a], c.patch))
  <2>1. PICK row, d, S : row = Patched(asset[a], c.patch) /\ d = Written(c, row) /\ S = Around(a, row.rack)
    OBVIOUS
  <2>2. asset' = [asset EXCEPT ![a] = row] /\ Touch(r, d, S)
    BY <1>2, <1>4, <2>1 DEF WriteUpdate
  <2>3. d.op = "track" /\ d.of = a /\ d.was = c.was /\ d.clean = c.clean /\ a \in S
    BY <1>2, <2>1 DEF Written, Around
  <2>4. d # None
    BY <1>2, <1>4, <2>1, WrittenType
  <2>5. OthersGo(r) /\ call'[r] = d
    BY <2>2, TouchOthers
  <2>6. ASSUME NEW b \in Assets \ unlogged', Live(asset, b)', b # a PROVE Accounted(b)'
    <3>1. Live(asset, b) /\ asset'[b] = asset[b] /\ told'[b] = told[b] /\ b \notin unlogged
      BY <1>3, <2>2, <2>6 DEF Live, PlaceTypeOK
    <3>2. ~Logs(call[r], b) /\ ~Logs(call'[r], b)
      BY <1>3, <2>3, <2>5, <2>6 DEF Logs
    <3> QED BY <1>1, <2>5, <3>1, <3>2, OthersLog, AccountKept
  <2>7. ASSUME a \notin unlogged PROVE Accounted(a)'
    <3>1. CASE \E q \in Calls : Logs(call[q], a)
      <4>1. PICK q \in Calls : Logs(call[q], a)
        BY <3>1
      <4>2. q # r /\ call[q] \in OpenCalls /\ Reading(call[q])
        BY <1>1, <1>3, <4>1 DEF Logs, OpenType, Reading, Wrote, After
      <4>3. a \in call[q].on
        BY <4>1, <4>2 DEF TraceInv, Backed, Logs
      <4>4. call'[q] = Stale(call[q])
        BY <2>2, <2>3, <4>1, <4>2, <4>3 DEF Touch, Logs, Stale
      <4>5. Logs(call'[q], a) /\ ~call'[q].clean
        BY <4>1, <4>2, <4>4, StaleFields DEF Logs
      <4> QED BY <4>5 DEF Accounted, Logs, Agrees
    <3>2. CASE \A q \in Calls : ~Logs(call[q], a)
      <4>1. Agrees(told[a], asset[a])
        BY <1>4, <2>7, <3>2 DEF HistInv, Accounted
      <4>2. c.clean => asset[a] = c.was
        BY <1>1, <1>2 DEF TraceInv, Backed, Reading
      <4>3. Logs(call'[r], a) /\ (call'[r].clean => Agrees(told'[a], call'[r].was))
        BY <1>3, <2>3, <2>4, <2>5, <4>1, <4>2 DEF Logs
      <4> QED BY <4>3 DEF Accounted, Logs, Agrees
    <3> QED BY <3>1, <3>2
  <2> QED BY <1>3, <2>6, <2>7 DEF HistInv
<1>5. CASE ~(Live(asset, a) /\ Linked(Patched(asset[a], c.patch)))
  <2>1. call' = [call EXCEPT ![r] = None] /\ UNCHANGED asset
    BY <1>2, <1>5 DEF WriteUpdate
  <2>2. OthersGo(r) /\ \A b \in Assets : ~Logs(call'[r], b)
    BY <1>1, <2>1, OneGoes DEF Logs
  <2> QED BY <1>1, <1>3, <2>1, <2>2, HistSilent
<1> QED BY <1>4, <1>5

(* A creation owes the movement that tells of it. *)
LEMMA HistCreate ==
  ASSUME PlaceTypeOK, HistInv, NEW r \in Calls, NEW a \in Assets, NEW row \in AssetRows, CreateAsset(r, a, row)
  PROVE  HistInv'
<1>1. PICK c : c = [op |-> "created", of |-> a, now |-> row, on |-> {a}, clean |-> TRUE]
  OBVIOUS
<1>2. c \in OpenCalls /\ c # None
  <2>1. row \in AssetRow
    BY RowsAssumption
  <2>2. c \in OpenCalls
    BY <1>1, <2>1 DEF OpenCalls, Things
  <2> QED BY <2>2, NoneAssumption
<1>3. Touch(r, c, {row.rack}) /\ call[r] = None /\ asset' = [asset EXCEPT ![a] = row] /\ UNCHANGED <<told, unlogged>>
  BY <1>1 DEF CreateAsset
<1>4. OpenType /\ OthersGo(r) /\ call'[r] = c
  BY <1>3, TouchOthers DEF PlaceTypeOK, OpenType
<1>5. ASSUME NEW b \in Assets \ unlogged', Live(asset, b)', b # a PROVE Accounted(b)'
  <2>1. Live(asset, b) /\ asset'[b] = asset[b] /\ told'[b] = told[b] /\ b \notin unlogged
    BY <1>3, <1>5 DEF Live, PlaceTypeOK
  <2>2. ~Logs(call[r], b) /\ ~Logs(call'[r], b)
    BY <1>1, <1>3, <1>4, <1>5 DEF Logs
  <2> QED BY <1>4, <2>1, <2>2, OthersLog, AccountKept
<1>6. Logs(call'[r], a) /\ call'[r].op = "created"
  BY <1>1, <1>2, <1>4 DEF Logs
<1>7. Accounted(a)'
  BY <1>6 DEF Accounted, Logs, Agrees
<1> QED BY <1>3, <1>5, <1>7 DEF HistInv

(* The writes of rows that no movement tells of. *)
LEMMA HistRows ==
  ASSUME PlaceTypeOK, HistInv,
         \/ \E r \in Calls : WriteMount(r) \/ WriteUnmount(r) \/ WriteRemove(r)
         \/ \E a \in Assets : RemoveAsset(a)
         \/ \E k \in Racks, p \in RackPatches : UpdateRack(k, p)
         \/ \E ids \in SUBSET Assets, p \in AssetPatches : BatchUpdate(ids, p)
  PROVE  HistInv'
<1>1. OpenType /\ None \notin Calls
  BY NoneAssumption DEF PlaceTypeOK, OpenType
<1>2. ASSUME NEW r \in Calls, WriteMount(r) \/ WriteUnmount(r) PROVE HistInv'
  <2>1. call[r].op \in {"mount", "unmount"} /\ UNCHANGED told
    BY <1>2 DEF WriteMount, WriteUnmount
  <2>2. OthersGo(r) /\ call'[r] = None
    <3>1. (\E S : Touch(r, None, S)) \/ call' = [call EXCEPT ![r] = None]
      BY <1>2 DEF WriteMount, WriteUnmount
    <3> QED BY <1>1, <3>1, TouchOthers, OneGoes
  <2>3. \A a \in Assets \ unlogged' : a \notin unlogged /\ asset'[a] = asset[a]
    BY <1>2 DEF WriteMount, WriteUnmount, PlaceTypeOK
  <2> QED BY <1>1, <2>1, <2>2, <2>3, HistSilent DEF Logs
<1>3. ASSUME NEW r \in Calls, WriteRemove(r) PROVE HistInv'
  <2>1. call[r].op = "remove" /\ UNCHANGED told
    BY <1>3 DEF WriteRemove
  <2>2. OthersGo(r) /\ call'[r] = None
    <3>1. \E S : Touch(r, None, S)
      BY <1>3 DEF WriteRemove
    <3> QED BY <3>1, TouchOthers
  <2>3. \A a \in Assets \ unlogged' : a \notin unlogged /\ asset'[a] = asset[a]
    BY <1>3 DEF WriteRemove
  <2> QED BY <1>1, <2>1, <2>2, <2>3, HistSilent DEF Logs
<1>4. ASSUME NEW a \in Assets, RemoveAsset(a) PROVE HistInv'
  <2>1. OthersGo(None) /\ UNCHANGED <<told, unlogged>> /\ asset' = [asset EXCEPT ![a] = Gone]
    BY <1>4, TouchOthers DEF RemoveAsset
  <2>2. \A b \in Assets : Live(asset, b)' => asset'[b] = asset[b]
    BY <2>1 DEF Live, PlaceTypeOK
  <2> QED BY <1>1, <2>1, <2>2, HistSilent
<1>5. ASSUME NEW k \in Racks, NEW p \in RackPatches, UpdateRack(k, p) PROVE HistInv'
  <2>1. OthersGo(None) /\ UNCHANGED <<told, unlogged, asset>>
    BY <1>5, TouchOthers DEF UpdateRack
  <2> QED BY <1>1, <2>1, HistSilent
<1>6. ASSUME NEW ids \in SUBSET Assets, NEW p \in AssetPatches, BatchUpdate(ids, p) PROVE HistInv'
  <2>1. OthersGo(None) /\ UNCHANGED told
    BY <1>6, TouchOthers DEF BatchUpdate
  <2>2. \A a \in Assets \ unlogged' : a \notin unlogged /\ asset'[a] = asset[a]
    BY <1>6 DEF BatchUpdate
  <2> QED BY <1>1, <2>1, <2>2, HistSilent
<1> QED BY <1>2, <1>3, <1>4, <1>5, <1>6

(* What a request does after its movements, or without any. *)
LEMMA HistLeaf ==
  ASSUME PlaceTypeOK, HistInv, NEW r \in Calls,
         Audit(r) \/ Sync(r) \/ Ack(r) \/ Fail(r) \/ WriteSite(r) \/ React(r)
  PROVE  HistInv'
<1>1. PICK c \in OpenCalls : c = call[r] /\ c # None
  BY NoneAssumption DEF PlaceTypeOK, Audit, Sync, Ack, Fail, WriteSite, React
<1>2. OpenType /\ UNCHANGED <<asset, told>>
  BY DEF PlaceTypeOK, OpenType, Audit, Sync, Ack, Fail, WriteSite, React
<1>3. c.op \in {"created", "track"} => unlogged' = unlogged \cup {c.of}
  BY <1>1 DEF Audit, Sync, Ack, Fail, Undone, WriteSite, React
<1>4. c.op \notin {"created", "track"} => unlogged' = unlogged
  BY <1>1 DEF Audit, Sync, Ack, Fail, Undone, WriteSite, React
<1>5. OthersGo(r)
  BY <1>2, OneGoes DEF Audit, Sync, Ack, Fail, WriteSite, React, OthersGo, Stale
<1>6. call'[r] # None => call'[r].op \notin {"created", "track"}
  <2>1. [c EXCEPT !.op = "react"].op = "react" /\ [c EXCEPT !.op = "sync"].op = "sync" /\ [c EXCEPT !.op = "audit"].op = "audit"
    BY DEF OpenCalls
  <2>2. Later(c) # None => Later(c).op \in {"react", "sync"}
    BY <2>1 DEF Later
  <2>3. call'[r] \in {None, Later(c), [c EXCEPT !.op = "react"], [c EXCEPT !.op = "audit"]}
    BY <1>1 DEF PlaceTypeOK, Audit, Sync, Ack, Fail, WriteSite, React
  <2> QED BY <2>1, <2>2, <2>3
<1>7. \A a \in Assets \ unlogged' : ~Logs(call[r], a) /\ ~Logs(call'[r], a)
  BY <1>1, <1>3, <1>6 DEF Logs
<1> QED BY <1>2, <1>3, <1>4, <1>5, <1>7, HistSilent

(* Every step keeps the account of the movements. *)
LEMMA NextHist == PlaceTypeOK /\ TraceInv /\ HistInv /\ [Next]_vars => HistInv'
<1> SUFFICES ASSUME PlaceTypeOK, TraceInv, HistInv, [Next]_vars PROVE HistInv'
  OBVIOUS
<1>1. OpenType
  BY DEF PlaceTypeOK, OpenType
<1>2. CASE UNCHANGED <<call, asset, told, unlogged>>
  BY <1>2 DEF HistInv, Accounted, Logs, Agrees, Live
<1>3. ASSUME NEW r \in Calls, NEW d, Open(r, d), UNCHANGED <<asset, told, unlogged>>, d.op \notin {"created", "track"}
      PROVE  HistInv'
  <2>1. OthersGo(r) /\ call'[r] = d /\ call[r] = None
    BY <1>1, <1>3, OneGoes DEF Open
  <2>2. \A a \in Assets : ~Logs(call[r], a) /\ ~Logs(call'[r], a)
    BY <1>3, <2>1 DEF Logs
  <2> QED BY <1>1, <1>3, <2>1, <2>2, HistSilent
<1>4. ASSUME NEW r \in Calls,
             \/ \E a \in Assets, p \in AssetPatches : ReadUpdate(r, a, p)
             \/ \E x \in Racks \cup Sites : CheckRemove(r, x)
             \/ \E k \in Racks, a \in Assets : CheckUnmount(r, k, a) \/ \E s \in Slots : CheckMount(r, k, a, s[1], s[2])
             \/ \E s \in Sites, to \in SiteStatus : ReadSite(r, s, to)
             \/ \E e \in Entities : BulkEnable(r, e)
      PROVE  HistInv'
  <2>1. ASSUME NEW a \in Assets, NEW p \in AssetPatches, ReadUpdate(r, a, p) PROVE HistInv'
    BY <1>3, <2>1 DEF ReadUpdate
  <2>2. ASSUME NEW x \in Racks \cup Sites, CheckRemove(r, x) PROVE HistInv'
    BY <1>3, <2>2 DEF CheckRemove
  <2>3. ASSUME NEW k \in Racks, NEW a \in Assets, CheckUnmount(r, k, a) PROVE HistInv'
    BY <1>3, <2>3 DEF CheckUnmount
  <2>4. ASSUME NEW k \in Racks, NEW a \in Assets, NEW s \in Slots, CheckMount(r, k, a, s[1], s[2]) PROVE HistInv'
    BY <1>3, <2>4 DEF CheckMount
  <2>5. ASSUME NEW s \in Sites, NEW to \in SiteStatus, ReadSite(r, s, to) PROVE HistInv'
    BY <1>3, <2>5 DEF ReadSite
  <2>6. ASSUME NEW e \in Entities, BulkEnable(r, e) PROVE HistInv'
    BY <1>3, <2>6 DEF BulkEnable
  <2> QED BY <1>4, <2>1, <2>2, <2>3, <2>4, <2>5, <2>6
<1>5. CASE Place
  <2>1. ASSUME NEW k \in Racks, NEW s \in Sites, NEW n, CreateRack(k, s, n) PROVE UNCHANGED <<call, asset, told, unlogged>>
    BY <2>1 DEF CreateRack
  <2> QED BY <1>2, <1>4, <1>5, <2>1, HistTell, HistRows, HistCreate DEF Place
<1>6. CASE \E r \in Calls : Update(r) \/ WriteSite(r) \/ React(r) \/ Audit(r) \/ Sync(r) \/ Ack(r) \/ Fail(r)
  BY <1>6, HistUpdate, HistLeaf DEF Update
<1>7. CASE \E ids \in SUBSET Assets, p \in AssetPatches : Batch(ids, p)
  BY <1>7, HistRows DEF Batch
<1>8. CASE Crash
  <2>1. UNCHANGED <<asset, told>> /\ \A r \in Calls : call'[r] = None
    BY <1>8 DEF Crash
  <2>2. ASSUME NEW a \in Assets \ unlogged' PROVE a \notin unlogged /\ \A r \in Calls : ~Logs(call[r], a)
    BY <1>8, <2>2 DEF Crash, Undone, Logs
  <2>3. ASSUME NEW a \in Assets \ unlogged', Live(asset, a)' PROVE Accounted(a)'
    <3>1. Live(asset, a) /\ Agrees(told[a], asset[a])
      BY <2>1, <2>2, <2>3 DEF Live, HistInv, Accounted
    <3>2. Agrees(told'[a], asset'[a]) /\ \A r \in Calls : ~Logs(call'[r], a)
      BY <2>1, <3>1 DEF Logs
    <3> QED BY <3>2 DEF Accounted, Logs, Agrees
  <2> QED BY <2>1, <2>3 DEF HistInv
<1>9. CASE (\E e \in Entities : AckBanner(e)) \/ \E x \in Checks, p \in CheckPatches : UpdateCheck(x, p)
  BY <1>2, <1>9 DEF AckBanner, UpdateCheck
<1> QED BY <1>2, <1>4, <1>5, <1>6, <1>7, <1>8, <1>9 DEF Next, vars, placeVars

(* assets.service.ts:553: the movements of an asset add up to where it is. *)
THEOREM HistoryReplaysHolds == Spec => []HistoryReplays
<1>1. Init => PlaceInv /\ TraceInv /\ HistInv
  <2> SUFFICES ASSUME Init PROVE TraceInv /\ HistInv
    BY InitPlace
  <2>1. TraceInv
    BY DEF Init, TraceInv, Backed, Reading, Latest
  <2>2. ASSUME NEW a \in Assets, Live(asset, a) PROVE Accounted(a)
    <3>1. told[a] = Where(asset[a]) /\ \A r \in Calls : ~Logs(call[r], a)
      BY <2>2 DEF Init, Logs
    <3> QED BY <3>1 DEF Accounted, Where, Agrees
  <2>3. DOMAIN told = Assets
    BY DEF Init
  <2> QED BY <2>1, <2>2, <2>3 DEF HistInv
<1>2. PlaceInv /\ TraceInv /\ HistInv => HistoryReplays
  <2> SUFFICES ASSUME HistInv, NEW a \in Assets \ unlogged, Live(asset, a), ~Untold(a)
               PROVE  /\ told[a].site = asset[a].site
                      /\ told[a].status = asset[a].status
                      /\ told[a].rack = asset[a].rack
                      /\ asset[a].rack # None => told[a].pos = asset[a].pos
    BY DEF HistoryReplays
  <2> QED BY DEF HistInv, Accounted, Logs, Untold, Agrees
<1>3. PlaceInv /\ TraceInv /\ HistInv /\ [Next]_vars => PlaceInv' /\ TraceInv' /\ HistInv'
  BY NextPlace, NextTrace, NextHist DEF PlaceInv
<1> QED BY <1>1, <1>2, <1>3, PTL DEF Spec

-----------------------------------------------------------------------------
Syncs(c, a) == c # None /\ WillSync(c) /\ c.of = a
Reacts(c, e) == c # None /\ WillReact(c) /\ c.of = e
\* A synchronization of a that c is to make is still to be made by d, and no other.
SyncOn(c, d, a) ==
  /\ Syncs(c, a) => Syncs(d, a) /\ (d.clean => c.clean /\ d.was = c.was /\ d.now = c.now)
  /\ Syncs(d, a) => Syncs(c, a)
\* So is a reaction.
ReactOn(c, d) == \A e : Reacts(c, e) => Reacts(d, e)
SyncsStay(a) == \A x \in Calls : SyncOn(call[x], call'[x], a)
ReactsStay == \A x \in Calls : ReactOn(call[x], call'[x])
Idle(c) == c = None \/ c.op \notin After

(* A request before its write, or none, owes neither a synchronization nor a reaction. *)
LEMMA IdleOn ==
  ASSUME NEW c, NEW d, NEW a, Idle(c)
  PROVE  ReactOn(c, d) /\ (Idle(d) => SyncOn(c, d, a))
BY DEF ReactOn, SyncOn, Syncs, Reacts, WillSync, WillReact, Idle, After

(* What a request owes does not depend on whether it is stale. *)
LEMMA StaleOn ==
  ASSUME NEW c \in OpenCalls, NEW a
  PROVE  SyncOn(c, Stale(c), a) /\ ReactOn(c, Stale(c))
BY StaleFields, NoneAssumption DEF SyncOn, ReactOn, Syncs, Reacts

(* The step after the movements takes on what an update still owes. *)
LEMMA LaterOn ==
  ASSUME NEW c \in OpenCalls, c.op \in After, NEW a
  PROVE  /\ c.op # "sync" => SyncOn(c, Later(c), a)
         /\ c.op # "react" => ReactOn(c, Later(c))
<1>1. c # None
  BY NoneAssumption
<1>2. /\ Onward(c, Later(c))
      /\ c.op = "track" /\ WillReact(c) => Later(c) # None /\ WillReact(Later(c))
      /\ c.op # "sync" /\ WillSync(c) => Later(c) # None /\ WillSync(Later(c))
  BY LaterGoes
<1>3. WillSync(c) => c.of \in Assets
  BY DEF WillSync, Renames
<1>4. ASSUME c.op # "sync" PROVE SyncOn(c, Later(c), a)
  BY <1>1, <1>2, <1>3, <1>4 DEF SyncOn, Syncs, Onward
<1>5. WillReact(c) => c.op \in {"react", "track"}
  BY DEF WillReact
<1>6. ASSUME c.op # "react" PROVE ReactOn(c, Later(c))
  BY <1>1, <1>2, <1>5, <1>6 DEF ReactOn, Reacts, Onward
<1> QED BY <1>4, <1>6

(* So does the step after the reaction. *)
LEMMA AuditOn ==
  ASSUME NEW c \in OpenCalls, c.op = "react", NEW a
  PROVE  SyncOn(c, [c EXCEPT !.op = "audit"], a)
<1> DEFINE d == [c EXCEPT !.op = "audit"]
<1>1. Onward(c, d) /\ (WillSync(c) => WillSync(d))
  BY OpGoes DEF After
<1>2. d \in OpenCalls /\ c # None /\ d # None
  <2>1. d \in OpenCalls
    BY DEF OpenCalls
  <2> QED BY <2>1, NoneAssumption
<1>3. WillSync(c) => c.of \in Assets
  BY DEF WillSync, Renames
<1> HIDE DEF d
<1>4. SyncOn(c, d, a)
  BY <1>1, <1>2, <1>3 DEF SyncOn, Syncs, Onward
<1> QED BY <1>4 DEF d

(* A step that keeps what its own request owes to a target keeps what all owe. *)
LEMMA OthersSync ==
  ASSUME OpenType, NEW r, OthersGo(r), NEW a, r \in Calls => SyncOn(call[r], call'[r], a)
  PROVE  SyncsStay(a)
<1>1. ASSUME NEW x \in Calls PROVE SyncOn(call[x], call'[x], a)
  <2>1. CASE x = r
    BY <2>1
  <2>2. CASE x # r /\ call'[x] = call[x]
    BY <2>2 DEF SyncOn
  <2>3. CASE x # r /\ call'[x] # call[x]
    <3>1. call[x] \in OpenCalls /\ call'[x] = Stale(call[x])
      BY <2>3 DEF OthersGo, OpenType
    <3> QED BY <3>1, StaleOn
  <2> QED BY <2>1, <2>2, <2>3
<1> QED BY <1>1 DEF SyncsStay

(* The same for the reactions. *)
LEMMA OthersReact ==
  ASSUME OpenType, NEW r, OthersGo(r), r \in Calls => ReactOn(call[r], call'[r])
  PROVE  ReactsStay
<1>1. ASSUME NEW x \in Calls PROVE ReactOn(call[x], call'[x])
  <2>1. CASE x = r
    BY <2>1
  <2>2. CASE x # r /\ call'[x] = call[x]
    BY <2>2 DEF ReactOn
  <2>3. CASE x # r /\ call'[x] # call[x]
    <3>1. call[x] \in OpenCalls /\ call'[x] = Stale(call[x])
      BY <2>3 DEF OthersGo, OpenType
    <3> QED BY <3>1, StaleOn
  <2> QED BY <2>1, <2>2, <2>3
<1> QED BY <1>1 DEF ReactsStay

WorkStays == ReactsStay /\ \A a : SyncsStay(a)

(* A step of an idle request that leaves it idle keeps all that is owed. *)
LEMMA OthersWork ==
  ASSUME OpenType, NEW r, OthersGo(r), r \in Calls => Idle(call[r]) /\ Idle(call'[r])
  PROVE  WorkStays
<1>1. ReactsStay
  BY OthersReact, IdleOn
<1>2. ASSUME NEW a PROVE SyncsStay(a)
  BY OthersSync, IdleOn
<1> QED BY <1>1, <1>2 DEF WorkStays

(* The same when no other request changes at all. *)
LEMMA OneWorks ==
  ASSUME OpenType, NEW r \in Calls, Idle(call[r]), NEW d, Idle(d), call' = [call EXCEPT ![r] = d]
  PROVE  WorkStays
<1>1. OthersGo(r) /\ call'[r] = d
  BY OneGoes
<1> QED BY <1>1, OthersWork

(* A step that leaves the requests alone keeps it too. *)
LEMMA NoneWorks ==
  ASSUME UNCHANGED call
  PROVE  WorkStays
BY DEF WorkStays, ReactsStay, SyncsStay, ReactOn, SyncOn

(* So does a write by an idle request, whatever it makes stale. *)
LEMMA TouchWorks ==
  ASSUME OpenType, NEW r, r \in Calls => Idle(call[r]), NEW d, Idle(d), NEW S, Touch(r, d, S)
  PROVE  WorkStays
BY TouchOthers, OthersWork

(* The requests about rows leave the reactions and synchronizations to be made. *)
LEMMA PlaceWorks ==
  ASSUME OpenType, Place
  PROVE  WorkStays
<1>1. None \notin Calls /\ Idle(None)
  BY NoneAssumption DEF Idle
<1>2. ASSUME NEW r \in Calls, LogCreated(r) PROVE WorkStays
  BY <1>1, <1>2, OneWorks DEF LogCreated, Idle, After
<1>3. ASSUME NEW r \in Calls, Track(r) PROVE WorkStays
  <2>1. call[r] \in OpenCalls /\ call[r].op = "track" /\ call' = [call EXCEPT ![r] = Later(call[r])]
    BY <1>3 DEF Track, OpenType
  <2>2. OthersGo(r) /\ call'[r] = Later(call[r])
    BY <2>1, OneGoes
  <2>3. ReactsStay
    BY <2>1, <2>2, LaterOn, OthersReact DEF After
  <2>4. ASSUME NEW a PROVE SyncsStay(a)
    BY <2>1, <2>2, LaterOn, OthersSync DEF After
  <2> QED BY <2>3, <2>4 DEF WorkStays
<1>4. ASSUME NEW r \in Calls, WriteMount(r) \/ WriteUnmount(r) \/ WriteRemove(r) PROVE WorkStays
  <2>1. Idle(call[r])
    BY <1>4 DEF WriteMount, WriteUnmount, WriteRemove, Idle, After
  <2>2. (\E S : Touch(r, None, S)) \/ call' = [call EXCEPT ![r] = None]
    BY <1>4 DEF WriteMount, WriteUnmount, WriteRemove
  <2> QED BY <1>1, <2>1, <2>2, TouchWorks, OneWorks
<1>5. ASSUME NEW S, Touch(None, None, S) PROVE WorkStays
  BY <1>1, <1>5, TouchWorks
<1>6. ASSUME NEW r \in Calls, NEW d, Open(r, d), d.op \notin After PROVE WorkStays
  BY <1>6, OneWorks DEF Open, Idle
<1>7. ASSUME NEW r \in Calls, NEW a \in Assets, NEW row \in AssetRows, CreateAsset(r, a, row) PROVE WorkStays
  BY <1>7, TouchWorks DEF CreateAsset, Idle, After
<1>8. ASSUME NEW r \in Calls, NEW a \in Assets, NEW p \in AssetPatches, ReadUpdate(r, a, p) PROVE WorkStays
  BY <1>6, <1>8 DEF ReadUpdate, After
<1>9. ASSUME NEW r \in Calls, NEW x, CheckRemove(r, x) PROVE WorkStays
  BY <1>6, <1>9 DEF CheckRemove, After
<1>10. ASSUME NEW r \in Calls, NEW k \in Racks, NEW a \in Assets, CheckUnmount(r, k, a) PROVE WorkStays
  BY <1>6, <1>10 DEF CheckUnmount, After
<1>11. ASSUME NEW r \in Calls, NEW k \in Racks, NEW a \in Assets, NEW s \in Slots, CheckMount(r, k, a, s[1], s[2])
       PROVE  WorkStays
  BY <1>6, <1>11 DEF CheckMount, After
<1>12. ASSUME NEW k \in Racks, NEW p \in RackPatches, UpdateRack(k, p) PROVE WorkStays
  BY <1>5, <1>12 DEF UpdateRack
<1>13. ASSUME NEW k \in Racks, NEW s \in Sites, NEW n, CreateRack(k, s, n) PROVE WorkStays
  BY <1>13, NoneWorks DEF CreateRack
<1>14. ASSUME NEW a \in Assets, RemoveAsset(a) PROVE WorkStays
  BY <1>5, <1>14 DEF RemoveAsset
<1> QED BY <1>2, <1>3, <1>4, <1>7, <1>8, <1>9, <1>10, <1>11, <1>12, <1>13, <1>14 DEF Place

(* They leave the status and the address of an asset, and its site or take it from one. *)
LEMMA PlaceRows ==
  ASSUME PlaceTypeOK, Place, NEW a \in Assets, Live(asset, a), Live(asset, a)'
  PROVE  asset'[a].status = asset[a].status /\ asset'[a].ip = asset[a].ip
<1>1. asset[a] \in AssetRow
  BY DEF PlaceTypeOK, Live
<1>2. CASE asset'[a] = asset[a]
  BY <1>2
<1>3. ASSUME NEW r \in Calls, WriteMount(r), asset'[a] # asset[a] PROVE asset'[a].status = asset[a].status /\ asset'[a].ip = asset[a].ip
  <2>1. asset'[a] = [asset[a] EXCEPT !.rack = call[r].rack, !.pos = call[r].pos, !.height = call[r].height]
    BY <1>3 DEF WriteMount, PlaceTypeOK
  <2> QED BY <1>1, <2>1 DEF AssetRow
<1>4. ASSUME NEW r \in Calls, WriteUnmount(r), asset'[a] # asset[a] PROVE asset'[a].status = asset[a].status /\ asset'[a].ip = asset[a].ip
  <2>1. asset'[a] = [asset[a] EXCEPT !.rack = None, !.pos = None, !.height = None]
    BY <1>4 DEF WriteUnmount, PlaceTypeOK
  <2> QED BY <1>1, <2>1 DEF AssetRow
<1>5. ASSUME NEW r \in Calls, WriteRemove(r), asset'[a] # asset[a] PROVE asset'[a].status = asset[a].status /\ asset'[a].ip = asset[a].ip
  <2>1. \E x, racks : asset'[a] = CutOff(asset[a], x, racks)
    BY <1>5 DEF WriteRemove
  <2> QED BY <1>1, <2>1 DEF AssetRow, CutOff
<1>6. ASSUME NEW b \in Assets, NEW row, asset' = [asset EXCEPT ![b] = row], asset[b] = None \/ row = Gone
      PROVE  asset'[a] = asset[a]
  BY <1>6 DEF Live, PlaceTypeOK
<1>7. ASSUME NEW r \in Calls, LogCreated(r) \/ Track(r) PROVE asset'[a] = asset[a]
  BY <1>7 DEF LogCreated, Track
<1>8. ASSUME NEW b \in Assets, RemoveAsset(b) \/ \E r \in Calls : \E row \in AssetRows : CreateAsset(r, b, row) PROVE asset'[a] = asset[a]
  BY <1>6, <1>8 DEF RemoveAsset, CreateAsset
<1>9. ASSUME NEW r \in Calls,
             \/ \E b \in Assets, p \in AssetPatches : ReadUpdate(r, b, p)
             \/ \E x \in Racks \cup Sites : CheckRemove(r, x)
             \/ \E k \in Racks, b \in Assets : CheckUnmount(r, k, b) \/ \E s \in Slots : CheckMount(r, k, b, s[1], s[2])
      PROVE  asset'[a] = asset[a]
  BY <1>9 DEF ReadUpdate, CheckRemove, CheckUnmount, CheckMount
<1>10. ASSUME NEW k \in Racks, NEW p \in RackPatches,
              UpdateRack(k, p) \/ \E s \in Sites : CreateRack(k, s, p.size)
       PROVE  asset'[a] = asset[a]
  BY <1>10 DEF UpdateRack, CreateRack
<1> QED BY <1>3, <1>4, <1>5, <1>7, <1>8, <1>9, <1>10 DEF Place

-----------------------------------------------------------------------------
\* The target is the address, or a synchronization that is still to be made
\* takes it there, unless it is on a stale read.
Chased(x) ==
  \/ \E r \in Calls : /\ Syncs(call[r], Owner[x])
                      /\ call[r].clean => check[x].target \in {call[r].was.ip, call[r].now.ip}
  \/ (\A r \in Calls : ~Syncs(call[r], Owner[x])) /\ check[x].target = asset[Owner[x]].ip
ChaseInv ==
  /\ follows \subseteq {x \in Checks : OnAsset(x)}
  /\ \A x \in follows : check[x] # Gone => Chased(x)

(* A check whose target, address and synchronizations stay. *)
LEMMA ChaseKept ==
  ASSUME ChaseInv, NEW x \in follows, check[x] # Gone, SyncsStay(Owner[x]),
         check'[x].target = check[x].target, asset'[Owner[x]].ip = asset[Owner[x]].ip
  PROVE  Chased(x)'
<1>1. Chased(x)
  BY DEF ChaseInv
<1>2. CASE \E r \in Calls : /\ Syncs(call[r], Owner[x])
                            /\ call[r].clean => check[x].target \in {call[r].was.ip, call[r].now.ip}
  <2>1. PICK r \in Calls : /\ Syncs(call[r], Owner[x])
                           /\ call[r].clean => check[x].target \in {call[r].was.ip, call[r].now.ip}
    BY <1>2
  <2>2. Syncs(call'[r], Owner[x]) /\ (call'[r].clean => check'[x].target \in {call'[r].was.ip, call'[r].now.ip})
    BY <2>1 DEF SyncsStay, SyncOn
  <2> QED BY <2>2 DEF Chased, Syncs, WillSync, Renames
<1>3. CASE (\A r \in Calls : ~Syncs(call[r], Owner[x])) /\ check[x].target = asset[Owner[x]].ip
  <2>1. (\A r \in Calls : ~Syncs(call'[r], Owner[x])) /\ check'[x].target = asset'[Owner[x]].ip
    BY <1>3 DEF SyncsStay, SyncOn
  <2> QED BY <2>1 DEF Chased, Syncs, WillSync, Renames
<1> QED BY <1>1, <1>2, <1>3 DEF Chased

(* A step that changes no target of what follows, and no address of theirs. *)
LEMMA ChaseSilent ==
  ASSUME ChaseInv, \A a : SyncsStay(a), follows' \subseteq follows,
         \A x \in follows' : check'[x] # Gone =>
           check[x] # Gone /\ check'[x].target = check[x].target /\ asset'[Owner[x]].ip = asset[Owner[x]].ip
  PROVE  ChaseInv'
<1>1. ASSUME NEW x \in follows', check'[x] # Gone PROVE Chased(x)'
  <2>1. x \in follows /\ check[x] # Gone /\ check'[x].target = check[x].target /\ asset'[Owner[x]].ip = asset[Owner[x]].ip
    BY <1>1
  <2> QED BY <2>1, ChaseKept
<1> QED BY <1>1 DEF ChaseInv, OnAsset

(* After a write of rows a check that is left is as it was, and its owner is live. *)
LEMMA SettleKeeps ==
  ASSUME CheckTypeOK, OwnersLive, NEW S, Settle(S), NEW x \in Checks, check'[x] # Gone
  PROVE  /\ check'[x] = check[x]
         /\ OnAsset(x) => Live(asset, Owner[x]) /\ Live(asset, Owner[x])' /\ Owner[x] \in Assets
         /\ ~OnAsset(x) => Live(site, Owner[x]) /\ Live(site, Owner[x])' /\ Owner[x] \in Sites
<1>1. OwnerLive(x)' /\ check'[x] = check[x]
  BY DEF Settle, CheckTypeOK
<1>2. OwnerLive(x)
  BY <1>1 DEF OwnersLive
<1> QED BY <1>1, <1>2, OwnerAssumption DEF OwnerLive, OnAsset, Entities

(* Switching checks leaves their targets. *)
LEMMA SwitchTarget ==
  ASSUME CheckTypeOK, NEW S \in SUBSET {c \in Checks : check[c] # Gone}, NEW on \in BOOLEAN, Switch(S, on), NEW x \in Checks
  PROVE  /\ check'[x] # Gone <=> check[x] # Gone
         /\ check[x] # Gone => check'[x].target = check[x].target
<1>1. check'[x] # Gone <=> check[x] # Gone
  BY SwitchType
<1>2. ASSUME check[x] # Gone PROVE check'[x].target = check[x].target
  <2>1. check[x] \in CheckRow
    BY <1>2 DEF CheckTypeOK
  <2>2. check'[x] = check[x] \/ check'[x] = [check[x] EXCEPT !.enabled = on]
    BY DEF Switch
  <2> QED BY <2>1, <2>2 DEF CheckRow
<1> QED BY <1>1, <1>2

(* An update: the synchronization it is to make starts from the address it read. *)
LEMMA ChaseUpdate ==
  ASSUME PlaceTypeOK, CheckTypeOK, OwnersLive, TraceInv, ChaseInv, NEW r \in Calls, Update(r)
  PROVE  ChaseInv'
<1>1. OpenType /\ call[r] \in OpenCalls /\ call[r].op = "update" /\ call[r] # None
  BY DEF PlaceTypeOK, OpenType, Update, WriteUpdate
<1>2. PICK a \in Assets, c \in OpenCalls : c = call[r] /\ a = call[r].of
  BY <1>1 DEF OpenCalls
<1>3. WriteUpdate(r) /\ \E S : Settle(S)
  BY DEF Update
<1>4. follows' = IF Live(asset, a) /\ "ip" \in DOMAIN c.patch /\ asset[a].ip # c.was.ip THEN follows \ Of(a) ELSE follows
  BY <1>2 DEF Update
<1>5. Idle(c) /\ Idle(None)
  BY <1>1, <1>2 DEF Idle, After
<1>6. CASE Live(asset, a) /\ Linked(Patched(asset[a], c.patch))
  <2>1. PICK row, d, S : row = Patched(asset[a], c.patch) /\ d = Written(c, row) /\ S = Around(a, row.rack)
    OBVIOUS
  <2>2. asset' = [asset EXCEPT ![a] = row] /\ Touch(r, d, S)
    BY <1>2, <1>3, <1>6, <2>1 DEF WriteUpdate
  <2>3. /\ d.op = "track" /\ d.of = a /\ d.was = c.was /\ d.now = row /\ d.clean = c.clean /\ a \in S
        /\ d.host = ("ip" \in DOMAIN c.patch)
    BY <1>2, <2>1 DEF Written, Around
  <2>4. d # None /\ asset[a] \in AssetRow
    BY <1>2, <1>3, <1>6, <2>1, WrittenType DEF PlaceTypeOK, Live
  <2>5. OthersGo(r) /\ call'[r] = d
    BY <2>2, TouchOthers
  <2>6. Syncs(d, a) <=> "ip" \in DOMAIN c.patch /\ c.was.ip # row.ip
    BY <2>3, <2>4 DEF Syncs, WillSync, Renames, After
  <2>7. "ip" \notin DOMAIN c.patch => row.ip = asset[a].ip
    BY <2>1, <2>4 DEF Patched, AssetRow
  <2>8. ASSUME NEW x \in follows', check'[x] # Gone, Owner[x] # a PROVE Chased(x)'
    <3>1. x \in follows /\ x \in Checks /\ OnAsset(x)
      BY <1>4, <2>8 DEF ChaseInv
    <3>2. check'[x] = check[x] /\ Owner[x] \in Assets
      BY <1>3, <2>8, <3>1, SettleKeeps
    <3>3. SyncOn(call[r], call'[r], Owner[x])
      BY <1>2, <1>5, <2>3, <2>5, <2>8 DEF SyncOn, Syncs, WillSync, Idle
    <3>4. SyncsStay(Owner[x])
      BY <1>1, <2>5, <3>3, OthersSync
    <3>5. asset'[Owner[x]] = asset[Owner[x]]
      BY <2>2, <2>8, <3>2 DEF PlaceTypeOK
    <3> QED BY <2>8, <3>1, <3>2, <3>4, <3>5, ChaseKept
  <2>9. ASSUME NEW x \in follows', check'[x] # Gone, Owner[x] = a PROVE Chased(x)'
    <3>1. x \in follows /\ x \in Checks /\ OnAsset(x)
      BY <1>4, <2>9 DEF ChaseInv
    <3>2. check'[x] = check[x] /\ check[x] # Gone
      BY <1>3, <2>9, <3>1, SettleKeeps
    <3>3. "ip" \in DOMAIN c.patch => asset[a].ip = c.was.ip
      <4>1. x \in Of(a)
        BY <2>9, <3>1, <3>2 DEF Of
      <4> QED BY <1>4, <1>6, <4>1, <2>9
    <3>4. CASE \E q \in Calls : Syncs(call[q], a)
      <4>1. PICK q \in Calls : Syncs(call[q], a)
        BY <3>4
      <4>2. q # r /\ call[q] \in OpenCalls /\ Reading(call[q])
        BY <1>1, <1>2, <1>5, <4>1 DEF Syncs, OpenType, Reading, Wrote, After, WillSync, Idle
      <4>3. a \in call[q].on
        BY <4>1, <4>2 DEF TraceInv, Backed, Syncs
      <4>4. call'[q] = Stale(call[q])
        BY <2>2, <2>3, <4>1, <4>2, <4>3 DEF Touch, Syncs, Stale
      <4>5. Syncs(call'[q], a) /\ ~call'[q].clean
        BY <4>1, <4>2, <4>4, StaleFields DEF Syncs
      <4> QED BY <2>9, <4>5 DEF Chased, Syncs, WillSync, Renames
    <3>5. CASE \A q \in Calls : ~Syncs(call[q], a)
      <4>1. check[x].target = asset[a].ip
        BY <2>9, <3>1, <3>2, <3>5 DEF ChaseInv, Chased
      <4>2. CASE Syncs(d, a)
        <5>1. check'[x].target = call'[r].was.ip /\ Syncs(call'[r], a)
          BY <2>3, <2>5, <2>6, <3>2, <3>3, <4>1, <4>2
        <5> QED BY <2>9, <5>1 DEF Chased, Syncs, WillSync, Renames
      <4>3. CASE ~Syncs(d, a)
        <5>1. asset'[a].ip = asset[a].ip
          BY <2>2, <2>6, <2>7, <3>3, <4>3 DEF PlaceTypeOK
        <5>2. SyncOn(call[r], call'[r], a)
          BY <2>5, <3>5, <4>3 DEF SyncOn
        <5>3. SyncsStay(a)
          BY <1>1, <2>5, <5>2, OthersSync
        <5> QED BY <2>9, <3>1, <3>2, <5>1, <5>3, ChaseKept
      <4> QED BY <4>2, <4>3
    <3> QED BY <3>4, <3>5
  <2>10. follows' \subseteq follows
    BY <1>4
  <2> QED BY <2>8, <2>9, <2>10 DEF ChaseInv, OnAsset
<1>7. CASE ~(Live(asset, a) /\ Linked(Patched(asset[a], c.patch)))
  <2>1. call' = [call EXCEPT ![r] = None] /\ UNCHANGED asset
    BY <1>2, <1>3, <1>7 DEF WriteUpdate
  <2>2. WorkStays
    BY <1>1, <1>2, <1>5, <2>1, OneWorks
  <2>3. \A x \in follows' : check'[x] # Gone => check'[x] = check[x]
    BY <1>3, <1>4, SettleKeeps DEF ChaseInv
  <2> QED BY <1>4, <2>1, <2>2, <2>3, ChaseSilent DEF WorkStays
<1> QED BY <1>6, <1>7

(* The synchronization takes the targets from the old address to the new. *)
LEMMA ChaseSync ==
  ASSUME PlaceTypeOK, CheckTypeOK, TraceInv, ChaseInv, NEW r \in Calls, Sync(r)
  PROVE  ChaseInv'
<1>1. OpenType /\ call[r] \in OpenCalls /\ call[r].op = "sync" /\ call[r] # None /\ UNCHANGED asset
  BY DEF PlaceTypeOK, OpenType, Sync
<1>2. PICK a \in Assets, c \in OpenCalls : c = call[r] /\ a = call[r].of
  BY <1>1 DEF OpenCalls
<1>3. PICK sent : sent = (c.was.ip # None /\ c.now.ip \notin Blocked \cup {None})
  OBVIOUS
<1>4. follows' = IF sent /\ c.clean THEN follows ELSE follows \ Of(a)
  BY <1>2, <1>3 DEF Sync, AddressBefore
<1>5. check' = [x \in Checks |-> IF sent /\ x \in Of(a) /\ check[x].target = c.was.ip
                                 THEN [check[x] EXCEPT !.target = c.now.ip] ELSE check[x]]
  BY <1>2, <1>3 DEF Sync, AddressBefore
<1>6. OthersGo(r) /\ call'[r] = None
  BY <1>1, OneGoes DEF Sync
<1>7. ASSUME NEW x \in follows', check'[x] # Gone PROVE Chased(x)'
  <2>1. x \in follows /\ x \in Checks /\ OnAsset(x) /\ check[x] \in CheckRow \cup {Gone}
    BY <1>4, <1>7 DEF ChaseInv, CheckTypeOK
  <2>2. CASE Owner[x] # a
    <3>1. check'[x] = check[x]
      BY <1>5, <2>1, <2>2 DEF Of
    <3>2. SyncOn(call[r], call'[r], Owner[x])
      BY <1>2, <1>6, <2>2 DEF SyncOn, Syncs
    <3>3. SyncsStay(Owner[x])
      BY <1>1, <1>6, <3>2, OthersSync
    <3> QED BY <1>1, <1>7, <2>1, <3>1, <3>3, ChaseKept
  <2>3. CASE Owner[x] = a
    <3>1. check[x] # Gone
      BY <1>5, <1>7, <2>1, <2>3 DEF Of
    <3>2. x \in Of(a) /\ check[x] \in CheckRow
      BY <2>1, <2>3, <3>1 DEF Of
    <3>3. sent /\ c.clean
      BY <1>4, <1>7, <3>2
    <3>4. check'[x].target = IF check[x].target = c.was.ip THEN c.now.ip ELSE check[x].target
      BY <1>5, <2>1, <3>2, <3>3 DEF CheckRow
    <3>5. asset[a] = c.now /\ Latest(c)
      BY <1>1, <1>2, <3>3 DEF TraceInv, Backed, Reading, Latest, Wrote, After
    <3>6. ASSUME NEW q \in Calls \ {r}, Syncs(call'[q], a) PROVE ~call'[q].clean
      <4>1. CASE call'[q] = call[q]
        BY <1>1, <1>2, <3>5, <3>6, <4>1 DEF TraceInv, Latest, Syncs, Wrote, WillSync
      <4>2. CASE call'[q] # call[q]
        <5>1. call[q] \in OpenCalls /\ call'[q] = Stale(call[q])
          BY <1>1, <1>6, <4>2 DEF OthersGo, OpenType
        <5> QED BY <5>1, StaleFields
      <4> QED BY <4>1, <4>2
    <3>7. ~Syncs(call'[r], a)
      BY <1>6 DEF Syncs
    <3>8. CASE \E q \in Calls : Syncs(call'[q], a)
      <4>1. PICK q \in Calls \ {r} : Syncs(call'[q], a)
        BY <3>7, <3>8
      <4> QED BY <2>3, <3>6, <4>1 DEF Chased, Syncs, WillSync, Renames
    <3>9. CASE \A q \in Calls : ~Syncs(call'[q], a)
      <4>1. \A q \in Calls \ {r} : ~Syncs(call[q], a)
        <5>1. ASSUME NEW q \in Calls \ {r}, Syncs(call[q], a) PROVE FALSE
          <6>1. call[q] \in OpenCalls /\ call'[q] # call[q] /\ call'[q] = Stale(call[q])
            BY <1>1, <1>6, <3>9, <5>1 DEF OthersGo, OpenType, Syncs
          <6>2. Syncs(call'[q], a)
            BY <5>1, <6>1, StaleFields DEF Syncs
          <6> QED BY <3>9, <6>2
        <5> QED BY <5>1
      <4>2. check[x].target \in {c.was.ip, c.now.ip}
        <5>1. Chased(x)
          BY <2>1, <3>1 DEF ChaseInv
        <5> QED BY <1>2, <2>3, <3>3, <3>5, <4>1, <5>1 DEF Chased
      <4>3. check'[x].target = asset'[a].ip
        BY <1>1, <3>4, <3>5, <4>2
      <4> QED BY <2>3, <3>9, <4>3 DEF Chased, Syncs, WillSync, Renames
    <3> QED BY <3>8, <3>9
  <2> QED BY <2>2, <2>3
<1> QED BY <1>4, <1>7 DEF ChaseInv, OnAsset

(* An update of a check by hand follows from then on what it is set to. *)
LEMMA ChaseHand ==
  ASSUME PlaceTypeOK, CheckTypeOK, TraceInv, ChaseInv, NEW y \in Checks, NEW p \in CheckPatches, UpdateCheck(y, p)
  PROVE  ChaseInv'
<1>1. UNCHANGED <<call, asset>> /\ check' = [check EXCEPT ![y] = Patched(check[y], p)] /\ check[y] # Gone
  BY DEF UpdateCheck
<1>2. check[y] \in CheckRow
  BY <1>1 DEF CheckTypeOK
<1>3. follows' = IF "target" \in DOMAIN p /\ OnAsset(y)
                 THEN IF p.target = asset[Owner[y]].ip THEN follows \cup {y} ELSE follows \ {y}
                 ELSE follows
  BY DEF UpdateCheck
<1>4. \A a : SyncsStay(a)
  BY <1>1, NoneWorks DEF WorkStays
<1>5. ASSUME NEW x \in follows', check'[x] # Gone PROVE OnAsset(x) /\ x \in Checks /\ Chased(x)'
  <2>1. CASE x = y /\ "target" \in DOMAIN p /\ OnAsset(y)
    <3>1. check'[x].target = asset[Owner[x]].ip
      BY <1>1, <1>2, <1>3, <1>5, <2>1 DEF CheckTypeOK, Patched, CheckRow
    <3>2. ASSUME NEW q \in Calls, Syncs(call[q], Owner[x]), call[q].clean PROVE call[q].now.ip = asset[Owner[x]].ip
      BY <2>1, <3>2 DEF TraceInv, Backed, Reading, Syncs, WillSync, Wrote, After, OnAsset
    <3>3. CASE \E q \in Calls : Syncs(call[q], Owner[x])
      <4>1. PICK q \in Calls : Syncs(call'[q], Owner[x]) /\ (call'[q].clean => check'[x].target = call'[q].now.ip)
        BY <1>1, <3>1, <3>2, <3>3
      <4> QED BY <2>1, <4>1 DEF Chased, Syncs, WillSync, Renames
    <3>4. CASE \A q \in Calls : ~Syncs(call[q], Owner[x])
      <4>1. (\A q \in Calls : ~Syncs(call'[q], Owner[x])) /\ check'[x].target = asset'[Owner[x]].ip
        BY <1>1, <3>1, <3>4
      <4> QED BY <2>1, <4>1 DEF Chased, Syncs, WillSync, Renames
    <3> QED BY <3>3, <3>4
  <2>2. CASE ~(x = y /\ "target" \in DOMAIN p /\ OnAsset(y))
    <3>1. x \in follows /\ x \in Checks /\ OnAsset(x)
      BY <1>3, <1>5, <2>2 DEF ChaseInv
    <3>2. check[x] # Gone /\ check'[x].target = check[x].target
      <4>1. CASE x = y
        <5>1. "target" \notin DOMAIN p
          BY <2>2, <3>1, <4>1
        <5> QED BY <1>1, <1>2, <4>1, <5>1 DEF CheckTypeOK, Patched, CheckRow
      <4>2. CASE x # y
        BY <1>1, <1>5, <3>1, <4>2 DEF CheckTypeOK
      <4> QED BY <4>1, <4>2
    <3> QED BY <1>1, <1>4, <3>1, <3>2, ChaseKept
  <2> QED BY <2>1, <2>2
<1>6. follows' \subseteq {x \in Checks : OnAsset(x)}
  BY <1>3 DEF ChaseInv
<1> QED BY <1>5, <1>6 DEF ChaseInv, OnAsset

(* The other steps of a request after its write. *)
LEMMA ChaseLeaf ==
  ASSUME PlaceTypeOK, CheckTypeOK, ChaseInv, NEW r \in Calls,
         Audit(r) \/ Ack(r) \/ Fail(r) \/ WriteSite(r) \/ React(r)
  PROVE  ChaseInv'
<1>1. PICK c \in OpenCalls : c = call[r] /\ c # None
  BY NoneAssumption DEF PlaceTypeOK, Audit, Ack, Fail, WriteSite, React
<1>2. OpenType /\ UNCHANGED asset
  BY DEF PlaceTypeOK, OpenType, Audit, Ack, Fail, WriteSite, React
<1>3. OthersGo(r)
  BY <1>2, OneGoes DEF Audit, Ack, Fail, WriteSite, React, OthersGo, Stale
<1>4. ASSUME NEW x \in Checks PROVE /\ check'[x] # Gone <=> check[x] # Gone
                                    /\ check[x] # Gone => check'[x].target = check[x].target
  <2>1. CASE UNCHANGED check
    BY <2>1
  <2>2. CASE React(r)
    <3>1. Stops(c.of) \in SUBSET {y \in Checks : check[y] # Gone} /\ Switch(Stops(c.of), FALSE)
      BY <1>1, <2>2 DEF React, Stops, Attached, Of
    <3> QED BY <3>1, SwitchTarget
  <2> QED BY <2>1, <2>2 DEF Audit, Ack, Fail, WriteSite
<1>5. CASE ~(Fail(r) /\ c.op = "sync")
  <2>1. follows' = follows
    BY <1>1, <1>5 DEF Audit, Ack, Fail, WriteSite, React
  <2>2. ASSUME NEW a PROVE SyncOn(call[r], call'[r], a)
    <3>1. CASE call'[r] = Later(c) /\ c.op \in After \ {"sync"}
      BY <1>1, <3>1, LaterOn
    <3>2. CASE React(r)
      <4>1. c.op = "react" /\ call'[r] \in {Later(c), [c EXCEPT !.op = "audit"]}
        BY <1>1, <3>2 DEF React
      <4> QED BY <1>1, <4>1, AuditOn, LaterOn DEF After
    <3>3. CASE WriteSite(r)
      <4>1. c.op = "site" /\ call'[r] \in {None, [c EXCEPT !.op = "react"]}
        BY <1>1, <3>3 DEF WriteSite, PlaceTypeOK
      <4>2. c.of \in Sites /\ [c EXCEPT !.op = "react"].of = c.of
        BY <4>1 DEF OpenCalls
      <4>3. c.of \notin Assets
        BY <4>2, EntitiesAssumption
      <4> QED BY <1>1, <4>1, <4>2, <4>3 DEF SyncOn, Syncs, WillSync, Renames
    <3>4. CASE Idle(c) /\ call'[r] = None
      BY <1>1, <3>4, IdleOn DEF Idle
    <3> QED BY <1>1, <1>5, <3>1, <3>2, <3>3, <3>4 DEF PlaceTypeOK, Audit, Ack, Fail, After, Idle
  <2>3. \A a : SyncsStay(a)
    BY <1>2, <1>3, <2>2, OthersSync
  <2>4. \A x \in follows' : x \in Checks
    BY <2>1 DEF ChaseInv
  <2> QED BY <1>2, <1>4, <2>1, <2>3, <2>4, ChaseSilent
<1>6. CASE Fail(r) /\ c.op = "sync"
  <2>1. follows' = follows \ Of(c.of)
    BY <1>1, <1>6 DEF Fail
  <2>2. call'[r] = None
    <3>1. Later(c) = None
      BY <1>6 DEF Later
    <3> QED BY <1>1, <1>6, <3>1 DEF Fail, After, PlaceTypeOK
  <2>3. ASSUME NEW x \in follows', check'[x] # Gone PROVE Chased(x)'
    <3>1. x \in follows /\ x \in Checks /\ check[x] # Gone /\ check'[x].target = check[x].target
      BY <1>4, <2>1, <2>3 DEF ChaseInv
    <3>2. Owner[x] # c.of
      BY <2>1, <2>3, <3>1 DEF Of
    <3>3. SyncOn(call[r], call'[r], Owner[x])
      BY <1>1, <2>2, <3>2 DEF SyncOn, Syncs
    <3>4. SyncsStay(Owner[x])
      BY <1>2, <1>3, <3>3, OthersSync
    <3> QED BY <1>2, <3>1, <3>4, ChaseKept
  <2> QED BY <2>1, <2>3 DEF ChaseInv, OnAsset
<1> QED BY <1>5, <1>6

(* Every step keeps the targets on their way to the addresses. *)
LEMMA NextChase ==
  PlaceTypeOK /\ CheckTypeOK /\ OwnersLive /\ TraceInv /\ ChaseInv /\ [Next]_vars => ChaseInv'
<1> SUFFICES ASSUME PlaceTypeOK, CheckTypeOK, OwnersLive, TraceInv, ChaseInv, [Next]_vars PROVE ChaseInv'
  OBVIOUS
<1>1. OpenType
  BY DEF PlaceTypeOK, OpenType
<1>2. ASSUME UNCHANGED <<asset, check, follows>>, WorkStays PROVE ChaseInv'
  BY <1>2, ChaseSilent DEF WorkStays
<1>3. CASE UNCHANGED vars
  BY <1>2, <1>3, NoneWorks DEF vars, placeVars, checkVars
<1>4. CASE Place
  <2>1. WorkStays /\ UNCHANGED follows /\ Settle({})
    BY <1>1, <1>4, PlaceWorks DEF Place
  <2>2. ASSUME NEW x \in follows', check'[x] # Gone
        PROVE  check[x] # Gone /\ check'[x].target = check[x].target /\ asset'[Owner[x]].ip = asset[Owner[x]].ip
    <3>1. x \in Checks /\ OnAsset(x)
      BY <2>1, <2>2 DEF ChaseInv
    <3>2. check'[x] = check[x] /\ Live(asset, Owner[x]) /\ Live(asset, Owner[x])' /\ Owner[x] \in Assets
      BY <2>1, <2>2, <3>1, SettleKeeps
    <3> QED BY <1>4, <2>2, <3>2, PlaceRows
  <2> QED BY <2>1, <2>2, ChaseSilent DEF WorkStays
<1>5. ASSUME NEW ids \in SUBSET Assets, NEW p \in AssetPatches, Batch(ids, p) PROVE ChaseInv'
  <2>1. WorkStays
    BY <1>1, <1>5, TouchWorks, NoneAssumption DEF Batch, BatchUpdate, Idle
  <2>2. UNCHANGED follows /\ \E S : Settle(S)
    BY <1>5 DEF Batch
  <2>3. ASSUME NEW a \in Assets, Live(asset, a) PROVE asset'[a].ip = asset[a].ip
    <3>1. asset[a] \in AssetRow /\ (asset'[a] = asset[a] \/ asset'[a] = Patched(asset[a], p)) /\ "ip" \notin DOMAIN p
      BY <1>5, <2>3 DEF Batch, BatchUpdate, PlaceTypeOK, Live
    <3> QED BY <3>1 DEF Patched, AssetRow
  <2>4. ASSUME NEW x \in follows', check'[x] # Gone
        PROVE  check[x] # Gone /\ check'[x].target = check[x].target /\ asset'[Owner[x]].ip = asset[Owner[x]].ip
    <3>1. x \in Checks /\ OnAsset(x)
      BY <2>2, <2>4 DEF ChaseInv
    <3>2. check'[x] = check[x] /\ Live(asset, Owner[x]) /\ Owner[x] \in Assets
      BY <2>2, <2>4, <3>1, SettleKeeps
    <3> QED BY <2>3, <2>4, <3>2
  <2> QED BY <2>1, <2>2, <2>4, ChaseSilent DEF WorkStays
<1>6. ASSUME NEW r \in Calls, NEW e \in Entities, BulkEnable(r, e) PROVE ChaseInv'
  <2>1. Starts(e) \in SUBSET {c \in Checks : check[c] # Gone} /\ Switch(Starts(e), TRUE) /\ UNCHANGED <<asset, follows>>
    BY <1>6 DEF BulkEnable, Starts, Attached, Of
  <2>2. WorkStays
    BY <1>1, <1>6, OneWorks DEF BulkEnable, Open, Idle, After
  <2>3. ASSUME NEW x \in follows', check'[x] # Gone PROVE check[x] # Gone /\ check'[x].target = check[x].target
    <3>1. x \in Checks
      BY <2>1, <2>3 DEF ChaseInv
    <3> QED BY <2>1, <2>3, <3>1, SwitchTarget
  <2> QED BY <2>1, <2>2, <2>3, ChaseSilent DEF WorkStays
<1>7. CASE \E r \in Calls : WriteSite(r) \/ React(r) \/ Audit(r) \/ Ack(r) \/ Fail(r)
  BY <1>7, ChaseLeaf
<1>8. ASSUME NEW r \in Calls, NEW s \in Sites, NEW to \in SiteStatus, ReadSite(r, s, to) PROVE ChaseInv'
  <2>1. WorkStays
    BY <1>1, <1>8, OneWorks DEF ReadSite, Open, Idle, After
  <2> QED BY <1>2, <1>8, <2>1 DEF ReadSite, checkVars
<1>9. CASE \E e \in Entities : AckBanner(e)
  BY <1>2, <1>9, NoneWorks DEF AckBanner
<1>10. CASE Crash
  <2>1. UNCHANGED <<asset, check>> /\ follows' \subseteq follows /\ \A r \in Calls : call'[r] = None
    BY <1>10 DEF Crash
  <2>2. ASSUME NEW x \in follows', check'[x] # Gone PROVE Chased(x)'
    <3>1. x \in follows /\ x \in Checks /\ check[x] # Gone /\ Chased(x)
      BY <2>1, <2>2 DEF ChaseInv
    <3>2. ASSUME NEW r \in Calls, Syncs(call[r], Owner[x]) PROVE FALSE
      <4>1. x \in Of(call[r].of)
        BY <3>1, <3>2 DEF Of, Syncs
      <4> QED BY <1>10, <2>2, <3>2, <4>1 DEF Crash, Syncs
    <3>3. (\A r \in Calls : ~Syncs(call'[r], Owner[x])) /\ check'[x].target = asset'[Owner[x]].ip
      BY <2>1, <3>1, <3>2 DEF Chased, Syncs
    <3> QED BY <3>3 DEF Chased, Syncs, WillSync, Renames
  <2> QED BY <2>1, <2>2 DEF ChaseInv, OnAsset
<1> QED BY <1>3, <1>4, <1>5, <1>6, <1>7, <1>8, <1>9, <1>10, ChaseUpdate, ChaseSync, ChaseHand DEF Next

(* monitor-reactions.service.ts:246: a target that is the address of its asset
   goes on being it, or a synchronization is on its way. *)
THEOREM TargetFollowsHolds == Spec => []TargetFollows
<1> DEFINE Inv == ToldInv /\ TraceInv /\ ChaseInv
<1>1. Init => Inv
  <2> SUFFICES ASSUME Init PROVE Inv
    OBVIOUS
  <2>1. PlaceInv /\ CheckTypeOK
    BY InitPlace, InitCheckType
  <2>2. Owed /\ AckHidesNone /\ OwnersLive
    BY DEF Init, Owed, AckHidesNone, OwnersLive, CleanAck
  <2>3. TraceInv
    BY DEF Init, TraceInv, Backed, Reading, Latest
  <2>4. ASSUME NEW x \in follows PROVE x \in Checks /\ OnAsset(x) /\ check[x].target = asset[Owner[x]].ip
    BY <2>4 DEF Init
  <2>5. \A r \in Calls : call[r] = None
    BY DEF Init
  <2> QED BY <2>1, <2>2, <2>3, <2>4, <2>5 DEF ToldInv, ChaseInv, Chased, Syncs
<1>2. Inv => TargetFollows
  <2> SUFFICES ASSUME ChaseInv, NEW c \in follows, check[c] # Gone, check[c].target # asset[Owner[c]].ip
               PROVE  \E r \in Calls : call[r] # None /\ WillSync(call[r]) /\ call[r].of = Owner[c]
    BY DEF TargetFollows
  <2> QED BY DEF ChaseInv, Chased, Syncs
<1>3. Inv /\ [Next]_vars => Inv'
  BY NextTold, NextTrace, NextChase DEF ToldInv, PlaceInv
<1> QED BY <1>1, <1>2, <1>3, PTL DEF Spec

-----------------------------------------------------------------------------
Covered(e) == \E r \in Calls : Reacts(call[r], e)
\* Every cause for which a check should be disabled has a reaction that is still to be made.
QuietOf(x) ==
  /\ OnAsset(x) /\ OutOfService(asset[Owner[x]]) => Covered(Owner[x])
  /\ OnAsset(x) /\ SiteOut(asset[Owner[x]].site) => Covered(asset[Owner[x]].site)
  /\ ~OnAsset(x) /\ SiteOut(Owner[x]) => Covered(Owner[x])
QuietInv == \A x \in Checks \ excused : check[x] # Gone /\ Enabled(x) => QuietOf(x)

(* A cause that has a reaction to come keeps one. *)
LEMMA CoverStays ==
  ASSUME ReactsStay, NEW e, Covered(e)
  PROVE  \E r \in Calls : Reacts(call'[r], e)
BY DEF ReactsStay, ReactOn, Covered

(* While the rows stay, a step has only to leave the causes a reaction. *)
LEMMA QuietKept ==
  ASSUME UNCHANGED <<site, asset>>, NEW x \in Checks, QuietOf(x),
         \A e : Covered(e) /\ x \in Attached(e) => \E r \in Calls : Reacts(call'[r], e),
         check[x] # Gone
  PROVE  QuietOf(x)'
<1>1. x \in Attached(Owner[x]) /\ (OnAsset(x) => x \in Attached(asset[Owner[x]].site))
  BY DEF Attached, Of
<1>2. OnAsset(x) /\ OutOfService(asset[Owner[x]]) => \E r \in Calls : Reacts(call'[r], Owner[x])
  BY <1>1 DEF QuietOf
<1>3. OnAsset(x) /\ SiteOut(asset[Owner[x]].site) => \E r \in Calls : Reacts(call'[r], asset'[Owner[x]].site)
  BY <1>1 DEF QuietOf
<1>4. ~OnAsset(x) /\ SiteOut(Owner[x]) => \E r \in Calls : Reacts(call'[r], Owner[x])
  BY <1>1 DEF QuietOf
<1> QED BY <1>2, <1>3, <1>4 DEF QuietOf, Covered, Reacts, WillReact, OutOfService, SiteOut, OnAsset

(* Such a step, when it enables nothing and excuses no less. *)
LEMMA QuietSilent ==
  ASSUME QuietInv, ReactsStay, UNCHANGED <<site, asset>>,
         \A x \in Checks \ excused' : check'[x] # Gone /\ check'[x].enabled =>
           x \notin excused /\ check[x] # Gone /\ check[x].enabled
  PROVE  QuietInv'
<1>1. ASSUME NEW x \in Checks \ excused', check'[x] # Gone, check'[x].enabled PROVE QuietOf(x)'
  <2>1. QuietOf(x) /\ check[x] # Gone
    BY <1>1 DEF QuietInv, Enabled
  <2> QED BY <2>1, QuietKept, CoverStays
<1> QED BY <1>1 DEF QuietInv, Enabled

(* A write of rows: what leaves service has a reaction to come, or is excused. *)
LEMMA QuietSettle ==
  ASSUME PlaceTypeOK', CheckTypeOK, OwnersLive, QuietInv, NEW S, Settle(S),
         \A e : Covered(e) => \E r \in Calls : Reacts(call'[r], e),
         \A s \in Sites : Live(site, s)' => site'[s] = site[s],
         \A x \in Checks \ (S \cup excused) : OnAsset(x) /\ check[x] # Gone /\ check'[x] = check[x]
            /\ Live(asset, Owner[x]) /\ Live(asset, Owner[x])' /\ OutOfService(asset'[Owner[x]]) =>
              OutOfService(asset[Owner[x]]) \/ \E r \in Calls : Reacts(call'[r], Owner[x])
  PROVE  QuietInv'
<1>1. ASSUME NEW x \in Checks \ excused', check'[x] # Gone, check'[x].enabled PROVE QuietOf(x)'
  <2>1. check'[x] = check[x] /\ x \notin S /\ x \notin excused /\ OwnerLive(x)'
    BY <1>1, SettleKeeps DEF Settle, CheckTypeOK
  <2>2. QuietOf(x)
    BY <1>1, <2>1 DEF QuietInv, Enabled
  <2>3. CASE OnAsset(x)
    <3>1. Live(asset, Owner[x]) /\ Live(asset, Owner[x])' /\ Owner[x] \in Assets
      BY <1>1, <2>3, SettleKeeps
    <3>2. asset'[Owner[x]] \in AssetRow
      BY <3>1 DEF PlaceTypeOK, Live
    <3>3. asset'[Owner[x]].site # None => site'[asset'[Owner[x]].site] = site[asset'[Owner[x]].site]
      <4>1. Linked(asset[Owner[x]])'
        BY <3>1 DEF PlaceTypeOK
      <4> QED BY <3>2, <4>1 DEF AssetRow, Opt, Linked, Live
    <3>4. asset'[Owner[x]].site # asset[Owner[x]].site => ~SiteOut(asset'[Owner[x]].site)
      BY <1>1, <2>1, <2>3 DEF Settle
    <3>5. OutOfService(asset'[Owner[x]]) => \E r \in Calls : Reacts(call'[r], Owner[x])
      BY <1>1, <2>1, <2>2, <2>3, <3>1 DEF QuietOf
    <3>6. (asset'[Owner[x]].site # None /\ site'[asset'[Owner[x]].site] \notin ActiveSite)
            => \E r \in Calls : Reacts(call'[r], asset'[Owner[x]].site)
      BY <2>2, <2>3, <3>3, <3>4 DEF QuietOf, SiteOut
    <3> QED BY <2>3, <3>5, <3>6 DEF QuietOf, Covered, Reacts, WillReact, OutOfService, SiteOut, OnAsset
  <2>4. CASE ~OnAsset(x)
    <3>1. Live(site, Owner[x])' /\ Owner[x] \in Sites
      BY <1>1, <2>4, SettleKeeps
    <3>2. site'[Owner[x]] = site[Owner[x]]
      BY <3>1
    <3>3. SiteOut(Owner[x])' => \E r \in Calls : Reacts(call'[r], Owner[x])
      BY <2>2, <2>4, <3>2 DEF QuietOf, SiteOut
    <3> QED BY <2>4, <3>3 DEF QuietOf, Covered, Reacts, WillReact, SiteOut, OnAsset
  <2> QED BY <2>3, <2>4
<1> QED BY <1>1 DEF QuietInv, Enabled

(* Requests that leave status and address alone. *)
LEMMA QuietPlace ==
  ASSUME PlaceTypeOK, PlaceTypeOK', CheckTypeOK, OwnersLive, QuietInv, Place
  PROVE  QuietInv'
<1>1. Settle({}) /\ ReactsStay
  BY PlaceWorks DEF Place, PlaceTypeOK, OpenType, WorkStays
<1>2. ASSUME NEW s \in Sites, Live(site, s)' PROVE site'[s] = site[s]
  <2>1. CASE UNCHANGED site
    BY <2>1
  <2>2. CASE \E r \in Calls : WriteRemove(r)
    <3>1. PICK r \in Calls : WriteRemove(r)
      BY <2>2
    <3>2. site' = [t \in Sites |-> IF t = call[r].of THEN Gone ELSE site[t]]
      BY <3>1 DEF WriteRemove
    <3> QED BY <1>2, <3>2 DEF Live
  <2>3. ASSUME NEW r \in Calls, LogCreated(r) \/ Track(r) \/ WriteMount(r) \/ WriteUnmount(r) PROVE UNCHANGED site
    BY <2>3 DEF LogCreated, Track, WriteMount, WriteUnmount
  <2>4. ASSUME NEW a \in Assets, RemoveAsset(a) \/ \E r \in Calls : \E row \in AssetRows : CreateAsset(r, a, row)
        PROVE  UNCHANGED site
    BY <2>4 DEF RemoveAsset, CreateAsset
  <2>5. ASSUME NEW r \in Calls,
               \/ \E a \in Assets, p \in AssetPatches : ReadUpdate(r, a, p)
               \/ \E x \in Racks \cup Sites : CheckRemove(r, x)
               \/ \E k \in Racks, a \in Assets : CheckUnmount(r, k, a) \/ \E s1 \in Slots : CheckMount(r, k, a, s1[1], s1[2])
        PROVE  UNCHANGED site
    BY <2>5 DEF ReadUpdate, CheckRemove, CheckUnmount, CheckMount
  <2>6. ASSUME NEW k \in Racks, NEW p \in RackPatches, UpdateRack(k, p) \/ \E s1 \in Sites : CreateRack(k, s1, p.size)
        PROVE  UNCHANGED site
    BY <2>6 DEF UpdateRack, CreateRack
  <2> QED BY <2>1, <2>2, <2>3, <2>4, <2>5, <2>6 DEF Place
<1>3. ASSUME NEW x \in Checks, OnAsset(x), Live(asset, Owner[x]), Live(asset, Owner[x])', OutOfService(asset'[Owner[x]])
      PROVE  OutOfService(asset[Owner[x]])
  BY <1>3, PlaceRows DEF OutOfService, OnAsset
<1> QED BY <1>1, <1>2, <1>3, CoverStays, QuietSettle

(* The write of an update that takes an asset out of service. *)
LEMMA QuietUpdate ==
  ASSUME PlaceTypeOK, PlaceTypeOK', CheckTypeOK, OwnersLive, QuietInv, NEW r \in Calls, Update(r)
  PROVE  QuietInv'
<1>1. OpenType /\ call[r] \in OpenCalls /\ call[r].op = "update" /\ call[r] # None
  BY DEF PlaceTypeOK, OpenType, Update, WriteUpdate
<1>2. PICK a \in Assets, c \in OpenCalls : c = call[r] /\ a = call[r].of
  BY <1>1 DEF OpenCalls
<1>3. PICK late : /\ late = (Live(asset, a) /\ "status" \in DOMAIN c.patch /\ asset[a].status # c.was.status
                             /\ Leaves(asset[a].status, c.patch.status, ActiveAsset) /\ OutOfService(c.was))
                  /\ Settle(IF late THEN Of(a) ELSE {})
  BY <1>2 DEF Update
<1>4. Idle(call[r]) /\ UNCHANGED site
  BY <1>1 DEF Idle, After, Update, WriteUpdate
<1>5. OthersGo(r) /\ ReactsStay
  <2>1. OthersGo(r)
    BY <1>1, TouchOthers, OneGoes DEF Update, WriteUpdate
  <2> QED BY <1>1, <1>4, <2>1, IdleOn, OthersReact
<1>6. ASSUME NEW x \in Checks \ ((IF late THEN Of(a) ELSE {}) \cup excused), OnAsset(x), check[x] # Gone,
             Live(asset, Owner[x]), Live(asset, Owner[x])', OutOfService(asset'[Owner[x]]), ~OutOfService(asset[Owner[x]])
      PROVE  \E q \in Calls : Reacts(call'[q], Owner[x])
  <2>1. asset'[Owner[x]] # asset[Owner[x]]
    BY <1>6
  <2>2. PICK row, d : row = Patched(asset[a], c.patch) /\ d = Written(c, row)
    OBVIOUS
  <2>3. Owner[x] = a /\ Live(asset, a) /\ asset'[a] = row /\ call'[r] = d /\ d # None
    <3>1. Live(asset, a) /\ Linked(row) /\ asset' = [asset EXCEPT ![a] = row] /\ Touch(r, d, Around(a, row.rack))
      BY <1>2, <2>1, <2>2 DEF Update, WriteUpdate
    <3>2. WriteUpdate(r)
      BY DEF Update
    <3> QED BY <1>2, <2>1, <2>2, <3>1, <3>2, WrittenType, TouchOthers DEF PlaceTypeOK, OnAsset
  <2>4. asset[a] \in AssetRow /\ asset[a].status \in ActiveAsset /\ row.status \notin ActiveAsset
    BY <1>6, <2>3 DEF PlaceTypeOK, Live, OutOfService
  <2>5. "status" \in DOMAIN c.patch /\ row.status = c.patch.status
    BY <2>2, <2>4 DEF Patched, AssetRow
  <2>6. row.status # None
    <3>1. row \in AssetRow
      BY <1>2, <2>2, <2>3, WrittenType DEF Update
    <3> QED BY <3>1, NoneAssumption DEF AssetRow
  <2>7. ~late
    BY <1>6, <2>3 DEF Of
  <2>8. c.was.status \in ActiveAsset
    BY <1>3, <2>3, <2>4, <2>5, <2>6, <2>7 DEF Leaves, OutOfService
  <2>9. d.op = "track" /\ d.of = a /\ d.was = c.was /\ d.says = c.patch.status
    BY <1>2, <2>2, <2>5 DEF Written, Says
  <2>10. WillReact(d)
    BY <2>4, <2>5, <2>6, <2>8, <2>9 DEF WillReact, Leaves
  <2> QED BY <2>3, <2>9, <2>10 DEF Reacts
<1> QED BY <1>3, <1>4, <1>5, <1>6, CoverStays, QuietSettle

(* A batch update excuses what it takes out of service. *)
LEMMA QuietBatch ==
  ASSUME PlaceTypeOK, PlaceTypeOK', CheckTypeOK, OwnersLive, QuietInv,
         NEW ids \in SUBSET Assets, NEW p \in AssetPatches, Batch(ids, p)
  PROVE  QuietInv'
<1>1. PICK S : Settle(S) /\ S = UNION {Of(a) : a \in {b \in ids : "status" \in DOMAIN p /\ Leaves(asset[b].status, p.status, ActiveAsset)}}
  BY DEF Batch
<1>2. ReactsStay /\ UNCHANGED site
  BY TouchWorks, NoneAssumption DEF Batch, BatchUpdate, Idle, PlaceTypeOK, OpenType, WorkStays
<1>3. ASSUME NEW x \in Checks \ S, OnAsset(x), check[x] # Gone,
             Live(asset, Owner[x]), Live(asset, Owner[x])', OutOfService(asset'[Owner[x]])
      PROVE  OutOfService(asset[Owner[x]])
  <2> SUFFICES ASSUME ~OutOfService(asset[Owner[x]]) PROVE FALSE
    OBVIOUS
  <2>1. PICK a \in Assets : a = Owner[x]
    BY <1>3 DEF OnAsset
  <2>2. a \in ids /\ asset'[a] = Patched(asset[a], p) /\ asset[a] \in AssetRow
    BY <1>3, <2>1 DEF Batch, BatchUpdate, PlaceTypeOK, Live, OutOfService
  <2>3. Patched(asset[a], p).status \notin ActiveAsset /\ asset[a].status \in ActiveAsset
    BY <1>3, <2>1, <2>2 DEF OutOfService
  <2>4. "status" \in DOMAIN p /\ p.status = Patched(asset[a], p).status
    BY <2>2, <2>3 DEF Patched, AssetRow
  <2>5. p.status # None
    BY <2>2, <2>4, PatchesAssumption, NoneAssumption DEF AssetRow
  <2>6. Leaves(asset[a].status, p.status, ActiveAsset)
    BY <2>3, <2>4, <2>5 DEF Leaves
  <2>7. x \in Of(a)
    BY <1>3, <2>1 DEF Of
  <2> QED BY <1>1, <1>3, <2>2, <2>4, <2>6, <2>7
<1> QED BY <1>1, <1>2, <1>3, CoverStays, QuietSettle

(* A change of a site, and its reaction to come. *)
LEMMA QuietSite ==
  ASSUME PlaceTypeOK, OwnersLive, QuietInv, NEW r \in Calls, WriteSite(r)
  PROVE  QuietInv'
<1>1. PICK c \in OpenCalls : c = call[r] /\ c.op = "site" /\ c # None
  BY NoneAssumption DEF PlaceTypeOK, WriteSite
<1>2. PICK s \in Sites : s = c.of
  BY <1>1 DEF OpenCalls
<1>3. c.was \in SiteStatus /\ c.says \in SiteStatus /\ None \notin SiteStatus
  BY <1>1, NoneAssumption DEF OpenCalls
<1>4. OpenType /\ UNCHANGED <<asset, check>>
  BY DEF PlaceTypeOK, OpenType, WriteSite
<1>5. CASE ~Live(site, s)
  <2>1. call' = [call EXCEPT ![r] = None] /\ UNCHANGED <<site, excused>>
    BY <1>1, <1>2, <1>5 DEF WriteSite
  <2>2. ReactsStay
    BY <1>1, <1>4, <2>1, OneWorks DEF Idle, After, WorkStays
  <2> QED BY <1>4, <2>1, <2>2, QuietSilent
<1>6. CASE Live(site, s)
  <2>1. PICK d : d = IF Leaves(c.was, c.says, ActiveSite) THEN [c EXCEPT !.op = "react"] ELSE None
    OBVIOUS
  <2>2. /\ site' = [site EXCEPT ![s] = c.says] /\ call' = [call EXCEPT ![r] = d]
        /\ excused' = IF Leaves(site[s], c.says, ActiveSite) /\ c.was \notin ActiveSite
                      THEN excused \cup Attached(s) ELSE excused
    BY <1>1, <1>2, <1>6, <2>1 DEF WriteSite
  <2>3. OthersGo(r) /\ call'[r] = d
    BY <1>4, <2>2, OneGoes
  <2>4. ReactsStay
    BY <1>1, <1>4, <2>3, IdleOn, OthersReact DEF Idle, After
  <2>5. Leaves(c.was, c.says, ActiveSite) => Reacts(call'[r], s)
    <3>1. [c EXCEPT !.op = "react"] \in OpenCalls /\ [c EXCEPT !.op = "react"].op = "react" /\ [c EXCEPT !.op = "react"].of = s
      BY <1>1, <1>2 DEF OpenCalls
    <3>2. [c EXCEPT !.op = "react"] # None
      BY <3>1, NoneAssumption
    <3> QED BY <2>1, <2>3, <3>1, <3>2 DEF Reacts, WillReact
  <2>6. ASSUME NEW x \in Checks \ excused', check'[x] # Gone, check'[x].enabled PROVE QuietOf(x)'
    <3>1. x \notin excused /\ check[x] # Gone /\ QuietOf(x)
      BY <1>4, <2>2, <2>6 DEF QuietInv, Enabled
    <3>2. ASSUME NEW e \in Sites, SiteOut(e) => Covered(e), site'[e] \notin ActiveSite, x \in Attached(e)
          PROVE  \E q \in Calls : Reacts(call'[q], e)
      <4>1. CASE SiteOut(e)
        BY <2>4, <3>2, <4>1, CoverStays
      <4>2. CASE ~SiteOut(e)
        <5>1. site[e] \in ActiveSite /\ e = s /\ c.says \notin ActiveSite
          BY <2>2, <3>2, <4>2, NoneAssumption DEF SiteOut, PlaceTypeOK
        <5>2. Leaves(site[s], c.says, ActiveSite)
          BY <1>3, <5>1 DEF Leaves
        <5>3. c.was \in ActiveSite
          BY <2>2, <2>6, <3>2, <5>1, <5>2
        <5> QED BY <1>3, <2>5, <5>1, <5>3 DEF Leaves
      <4> QED BY <4>1, <4>2
    <3>3. CASE OnAsset(x)
      <4>1. OutOfService(asset[Owner[x]]) => \E q \in Calls : Reacts(call'[q], Owner[x])
        BY <2>4, <3>1, <3>3, CoverStays DEF QuietOf
      <4>2. SiteOut(asset[Owner[x]].site) => Covered(asset[Owner[x]].site)
        BY <3>1, <3>3 DEF QuietOf
      <4>3. x \in Attached(asset[Owner[x]].site)
        BY <3>1, <3>3 DEF Attached
      <4>4. asset[Owner[x]].site # None /\ site'[asset[Owner[x]].site] \notin ActiveSite
              => \E q \in Calls : Reacts(call'[q], asset[Owner[x]].site)
        <5>1. asset[Owner[x]].site \in Opt(Sites)
          BY <3>1, <3>3 DEF OwnersLive, OwnerLive, OnAsset, PlaceTypeOK, Live, AssetRow
        <5> QED BY <3>2, <4>2, <4>3, <5>1 DEF Opt
      <4> QED BY <1>4, <3>3, <4>1, <4>4 DEF QuietOf, Covered, Reacts, WillReact, OutOfService, SiteOut, OnAsset
    <3>4. CASE ~OnAsset(x)
      <4>1. Owner[x] \in Sites /\ x \in Attached(Owner[x])
        BY <3>1, <3>4, OwnerAssumption DEF OnAsset, Entities, Attached, Of
      <4>2. site'[Owner[x]] \notin ActiveSite => \E q \in Calls : Reacts(call'[q], Owner[x])
        BY <3>1, <3>2, <3>4, <4>1, EntitiesAssumption DEF QuietOf
      <4> QED BY <3>4, <4>2 DEF QuietOf, Covered, Reacts, WillReact, SiteOut, OnAsset
    <3> QED BY <3>3, <3>4
  <2> QED BY <2>6 DEF QuietInv, Enabled
<1> QED BY <1>5, <1>6

(* The bulk update of a reaction: none of its checks is enabled after it. *)
LEMMA QuietReact ==
  ASSUME PlaceTypeOK, CheckTypeOK, QuietInv, NEW r \in Calls, React(r)
  PROVE  QuietInv'
<1>1. PICK c \in OpenCalls : c = call[r]
  BY DEF PlaceTypeOK, React
<1>2. PICK e : e = c.of
  OBVIOUS
<1>3. OpenType /\ UNCHANGED <<site, asset>> /\ excused' = excused \ Attached(e) /\ OthersGo(r)
  BY <1>1, <1>2 DEF PlaceTypeOK, OpenType, React, OthersGo, Stale
<1>4. Stops(e) \in SUBSET {x \in Checks : check[x] # Gone} /\ Switch(Stops(e), FALSE)
  BY <1>1, <1>2 DEF React, Stops, Attached, Of
<1>5. /\ \A x \in Stops(e) : ~check'[x].enabled
      /\ \A x \in Checks \ Stops(e) : check'[x] = check[x]
  BY <1>4, SwitchType
<1>6. ASSUME NEW x \in Checks \ excused', check'[x] # Gone, check'[x].enabled PROVE QuietOf(x)'
  <2>1. x \notin Stops(e) /\ check'[x] = check[x]
    BY <1>5, <1>6
  <2>2. x \notin Attached(e)
    BY <1>6, <2>1 DEF Stops, Enabled
  <2>3. QuietOf(x)
    BY <1>3, <1>6, <2>1, <2>2 DEF QuietInv, Enabled
  <2>4. ASSUME NEW f, Covered(f), x \in Attached(f) PROVE \E q \in Calls : Reacts(call'[q], f)
    <3>1. PICK q \in Calls : Reacts(call[q], f)
      BY <2>4 DEF Covered
    <3>2. q # r
      BY <1>1, <1>2, <2>2, <2>4, <3>1 DEF Reacts
    <3>3. ReactOn(call[q], call'[q])
      <4>1. CASE call'[q] = call[q]
        BY <4>1 DEF ReactOn
      <4>2. CASE call'[q] # call[q]
        BY <1>3, <3>2, <4>2, StaleOn DEF OthersGo, OpenType
      <4> QED BY <4>1, <4>2
    <3> QED BY <3>1, <3>3 DEF ReactOn
  <2> QED BY <1>3, <1>6, <2>1, <2>3, <2>4, QuietKept
<1> QED BY <1>6 DEF QuietInv, Enabled

(* Checks switched on, by hand or in bulk: those that should be off are excused. *)
LEMMA QuietHand ==
  ASSUME PlaceTypeOK, CheckTypeOK, QuietInv,
         \/ \E y \in Checks, p \in CheckPatches : UpdateCheck(y, p)
         \/ \E r \in Calls, e \in Entities : BulkEnable(r, e)
  PROVE  QuietInv'
<1>1. ReactsStay /\ UNCHANGED <<site, asset>>
  BY OneWorks, NoneWorks DEF UpdateCheck, BulkEnable, Open, Idle, After, WorkStays, PlaceTypeOK, OpenType
<1>2. ASSUME NEW x \in Checks, ~Out(x) PROVE QuietOf(x)
  BY <1>2 DEF Out, QuietOf
<1>3. ASSUME NEW x \in Checks \ excused', check'[x] # Gone, check'[x].enabled
      PROVE  check[x] # Gone /\ QuietOf(x)
  <2>1. ASSUME NEW y \in Checks, NEW p \in CheckPatches, UpdateCheck(y, p) PROVE check[x] # Gone /\ QuietOf(x)
    <3>1. check' = [check EXCEPT ![y] = Patched(check[y], p)] /\ check[y] \in CheckRow /\ check[y] # Gone
      BY <2>1 DEF UpdateCheck, CheckTypeOK
    <3>2. excused \subseteq excused'
      BY <2>1 DEF UpdateCheck
    <3>3. CASE x = y /\ "enabled" \in DOMAIN p
      <4>1. p.enabled
        BY <1>3, <3>1, <3>3 DEF CheckTypeOK, Patched, CheckRow
      <4>2. ~Out(x)
        BY <1>3, <2>1, <3>3, <4>1 DEF UpdateCheck
      <4> QED BY <1>2, <3>1, <3>3, <4>2
    <3>4. CASE x = y /\ "enabled" \notin DOMAIN p
      <4>1. check[x].enabled
        BY <1>3, <3>1, <3>4 DEF CheckTypeOK, Patched, CheckRow
      <4> QED BY <1>3, <3>1, <3>2, <3>4, <4>1 DEF QuietInv, Enabled
    <3>5. CASE x # y
      BY <1>3, <3>1, <3>2, <3>5 DEF QuietInv, Enabled, CheckTypeOK
    <3> QED BY <3>3, <3>4, <3>5
  <2>2. ASSUME NEW r \in Calls, NEW e \in Entities, BulkEnable(r, e) PROVE check[x] # Gone /\ QuietOf(x)
    <3>1. Starts(e) \in SUBSET {y \in Checks : check[y] # Gone} /\ Switch(Starts(e), TRUE)
      BY <2>2 DEF BulkEnable, Starts, Attached, Of
    <3>2. excused' = excused \cup {y \in Starts(e) : Out(y)}
      BY <2>2 DEF BulkEnable
    <3>3. CASE x \in Starts(e)
      BY <1>2, <1>3, <3>1, <3>2, <3>3
    <3>4. CASE x \notin Starts(e)
      <4>1. check'[x] = check[x]
        BY <3>1, <3>4, SwitchType
      <4> QED BY <1>3, <3>2, <4>1 DEF QuietInv, Enabled
    <3> QED BY <3>3, <3>4
  <2> QED BY <2>1, <2>2
<1>4. ASSUME NEW x \in Checks \ excused', check'[x] # Gone, check'[x].enabled PROVE QuietOf(x)'
  BY <1>1, <1>3, <1>4, QuietKept, CoverStays
<1> QED BY <1>4 DEF QuietInv, Enabled

(* A step that throws, and a restart: the checks of a reaction that is lost are excused. *)
LEMMA QuietLost ==
  ASSUME PlaceTypeOK, QuietInv, Crash \/ \E r \in Calls : Fail(r)
  PROVE  QuietInv'
<1>1. UNCHANGED <<site, asset, check>> /\ excused \subseteq excused'
  BY DEF Crash, Fail
<1>2. CASE Crash
  <2>1. ASSUME NEW x \in Checks \ excused', check'[x] # Gone, check'[x].enabled PROVE QuietOf(x)'
    <3>1. QuietOf(x) /\ check[x] # Gone
      BY <1>1, <2>1 DEF QuietInv, Enabled
    <3>2. ASSUME NEW f, Covered(f), x \in Attached(f) PROVE FALSE
      BY <1>2, <2>1, <3>2 DEF Crash, Covered, Reacts
    <3> QED BY <1>1, <3>1, <3>2, QuietKept
  <2> QED BY <2>1 DEF QuietInv, Enabled
<1>3. ASSUME NEW r \in Calls, Fail(r) PROVE QuietInv'
  <2>1. PICK c \in OpenCalls : c = call[r] /\ c # None
    BY <1>3, NoneAssumption DEF PlaceTypeOK, Fail
  <2>2. OpenType /\ OthersGo(r)
    BY <1>3, OneGoes DEF PlaceTypeOK, OpenType, Fail
  <2>3. CASE c.op # "react"
    <3>1. ReactOn(c, call'[r])
      <4>1. CASE c.op \in After
        <5>1. call'[r] = Later(c)
          BY <1>3, <2>1, <4>1 DEF Fail, PlaceTypeOK
        <5> QED BY <2>3, <4>1, <5>1, LaterOn
      <4>2. CASE c.op \notin After
        BY <4>2, IdleOn DEF Idle
      <4> QED BY <4>1, <4>2
    <3>2. ReactsStay
      BY <2>1, <2>2, <3>1, OthersReact
    <3> QED BY <1>1, <3>2, QuietSilent
  <2>4. CASE c.op = "react"
    <3>1. excused' = excused \cup Attached(c.of)
      BY <1>3, <2>1, <2>4 DEF Fail
    <3>2. ASSUME NEW x \in Checks \ excused', check'[x] # Gone, check'[x].enabled PROVE QuietOf(x)'
      <4>1. QuietOf(x) /\ check[x] # Gone
        BY <1>1, <3>2 DEF QuietInv, Enabled
      <4>2. ASSUME NEW f, Covered(f), x \in Attached(f) PROVE \E q \in Calls : Reacts(call'[q], f)
        <5>1. PICK q \in Calls : Reacts(call[q], f)
          BY <4>2 DEF Covered
        <5>2. q # r
          BY <2>1, <3>1, <3>2, <4>2, <5>1 DEF Reacts
        <5>3. ReactOn(call[q], call'[q])
          <6>1. CASE call'[q] = call[q]
            BY <6>1 DEF ReactOn
          <6>2. CASE call'[q] # call[q]
            BY <2>2, <5>2, <6>2, StaleOn DEF OthersGo, OpenType
          <6> QED BY <6>1, <6>2
        <5> QED BY <5>1, <5>3 DEF ReactOn
      <4> QED BY <1>1, <4>1, <4>2, QuietKept
    <3> QED BY <3>2 DEF QuietInv, Enabled
  <2> QED BY <2>3, <2>4
<1> QED BY <1>2, <1>3

(* The steps that leave rows, checks and reactions. *)
LEMMA QuietRest ==
  ASSUME PlaceTypeOK, CheckTypeOK, QuietInv,
         \/ UNCHANGED vars
         \/ \E r \in Calls : Audit(r) \/ Sync(r) \/ Ack(r)
         \/ \E r \in Calls, s \in Sites, to \in SiteStatus : ReadSite(r, s, to)
         \/ \E e \in Entities : AckBanner(e)
  PROVE  QuietInv'
<1>1. OpenType
  BY DEF PlaceTypeOK, OpenType
<1>2. CASE UNCHANGED <<call, site, asset, check, excused>>
  BY <1>2, NoneWorks, QuietSilent DEF WorkStays
<1>3. ASSUME NEW r \in Calls, Audit(r) PROVE QuietInv'
  <2>1. call[r] \in OpenCalls /\ call[r].op = "audit" /\ OthersGo(r) /\ call'[r] = Later(call[r])
    BY <1>1, <1>3, OneGoes DEF Audit, OpenType
  <2>2. ReactsStay
    BY <1>1, <2>1, LaterOn, OthersReact DEF After
  <2> QED BY <1>3, <2>2, QuietSilent DEF Audit
<1>4. ASSUME NEW r \in Calls, Ack(r) PROVE QuietInv'
  <2>1. ReactsStay
    BY <1>1, <1>4, OneWorks DEF Ack, Idle, After, WorkStays
  <2> QED BY <1>4, <2>1, QuietSilent DEF Ack
<1>5. ASSUME NEW r \in Calls, NEW s \in Sites, NEW to \in SiteStatus, ReadSite(r, s, to) PROVE QuietInv'
  <2>1. ReactsStay
    BY <1>1, <1>5, OneWorks DEF ReadSite, Open, Idle, After, WorkStays
  <2> QED BY <1>5, <2>1, QuietSilent DEF ReadSite, checkVars
<1>6. ASSUME NEW r \in Calls, Sync(r) PROVE QuietInv'
  <2>1. OthersGo(r) /\ call'[r] = None /\ call[r].op = "sync"
    BY <1>1, <1>6, OneGoes DEF Sync
  <2>2. ReactsStay
    BY <1>1, <2>1, OthersReact DEF ReactOn, Reacts, WillReact
  <2>3. ASSUME NEW x \in Checks
        PROVE  /\ check[x] # Gone <=> check'[x] # Gone
               /\ check[x] # Gone => check'[x].enabled = check[x].enabled
    <3>1. check[x] \in CheckRow \cup {Gone}
      BY DEF CheckTypeOK
    <3>2. check'[x] = check[x] \/ (check[x] # Gone /\ check'[x] = [check[x] EXCEPT !.target = call[r].now.ip])
      BY <1>6 DEF Sync, Of
    <3>3. call[r].now.ip \in Opt(Hosts)
      BY <1>6, SyncHost
    <3>4. check[x] # Gone => LET row == [check[x] EXCEPT !.target = call[r].now.ip] IN
                             row \in CheckRow /\ row.enabled = check[x].enabled
      BY <3>1, <3>3 DEF CheckRow
    <3> QED BY <3>2, <3>4, EntitiesAssumption
  <2> QED BY <1>6, <2>2, <2>3, QuietSilent DEF Sync
<1> QED BY <1>2, <1>3, <1>4, <1>5, <1>6 DEF AckBanner, vars, placeVars, checkVars

(* monitor-reactions.service.ts:65, :103: the checks of what is out of service
   are disabled, or a reaction that will disable them is on its way. *)
THEOREM QuietWhenOutHolds == Spec => []QuietWhenOut
<1> DEFINE Inv == ToldInv /\ QuietInv
<1>1. Init => Inv
  <2> SUFFICES ASSUME Init PROVE Inv
    OBVIOUS
  <2>1. PlaceInv /\ CheckTypeOK
    BY InitPlace, InitCheckType
  <2>2. Owed /\ AckHidesNone /\ OwnersLive
    BY DEF Init, Owed, AckHidesNone, OwnersLive, CleanAck
  <2>3. \A x \in Checks : check[x] # Gone /\ Enabled(x) => ~Out(x)
    BY DEF Init, Enabled
  <2>4. QuietInv
    BY <2>3 DEF QuietInv, QuietOf, Out
  <2> QED BY <2>1, <2>2, <2>4 DEF ToldInv
<1>2. Inv => QuietWhenOut
  <2> SUFFICES ASSUME QuietInv, NEW c \in Checks \ excused, check[c] # Gone, Out(c), Enabled(c)
               PROVE  \E r \in Calls : call[r] # None /\ WillReact(call[r]) /\ c \in Attached(call[r].of)
    BY DEF QuietWhenOut
  <2>1. QuietOf(c)
    BY DEF QuietInv
  <2>2. c \in Attached(Owner[c]) /\ (OnAsset(c) => c \in Attached(asset[Owner[c]].site))
    BY DEF Attached, Of
  <2> QED BY <2>1, <2>2 DEF QuietOf, Out, Covered, Reacts
<1>3. Inv /\ [Next]_vars => Inv'
  <2> SUFFICES ASSUME Inv, [Next]_vars PROVE QuietInv'
    BY NextTold
  <2>1. PlaceTypeOK /\ PlaceTypeOK' /\ CheckTypeOK /\ OwnersLive /\ QuietInv
    BY NextPlace DEF ToldInv, PlaceInv
  <2> QED BY <2>1, QuietPlace, QuietUpdate, QuietBatch, QuietSite, QuietReact, QuietHand, QuietLost, QuietRest DEF Next
<1> QED BY <1>1, <1>2, <1>3, PTL DEF Spec
=============================================================================
