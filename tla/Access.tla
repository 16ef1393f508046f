------------------------------- MODULE Access -------------------------------
(***************************************************************************)
(* The effective permission of a user on a site                            *)
(* (common/services/permission.service.ts): requests that resolve it, read *)
(* by read, while rights, overrides                                        *)
(* (access-overrides/access-overrides.service.ts) and the delegation of a  *)
(* site change.                                                            *)
(***************************************************************************)
EXTENDS Membership

CONSTANTS Sites,
          Resources,     \* "*" and the resources of a site
          Askers,        \* requests that resolve a permission
          Editors,       \* updates of overrides that may be open at once
          Changes,       \* [effect, permission]: the fields an update gives, "keep" for none
          Overrides0     \* what the overrides may be at first

VARIABLES home,          \* [Sites -> Delegations]: the delegation of a site
          override,      \* [Keys -> None or [effect, permission, expired]]
          edit,          \* [Editors -> an open update of an override, or None]
          ask,           \* [Askers -> a request for a permission, or None]
          bare           \* history: overrides written on a check from before another write, or with an explicit null

accessVars == <<home, override, edit, ask, bare>>
vars == <<memberVars, accessVars>>

Keys == Users \X Sites \X Resources
Override == [effect : {"ALLOW", "DENY"}, permission : {"READ", "WRITE", None}, expired : BOOLEAN]
Fields == [effect : {"keep", "ALLOW", "DENY"}, permission : {"keep", "READ", "WRITE", None}]
Edit == [key : Keys, effect : {"keep", "ALLOW", "DENY"}, permission : {"keep", "READ", "WRITE", None},
         read : Override, lost : BOOLEAN]

ASSUME WholeSite == "*" \in Resources
ASSUME ChangesAssumption == Changes \subseteq Fields
ASSUME OverridesAssumption ==
  \A rows \in Overrides0 :
    /\ rows \in [Keys -> Override \cup {None}]
    /\ \A k \in Keys : rows[k] # None /\ rows[k].effect = "ALLOW" => rows[k].permission # None
ASSUME SentinelAssumption == None \notin Override \cup Edit \cup {"READ", "WRITE", "NOTHING", "keep"}

-----------------------------------------------------------------------------
(* What a user may do, by the six steps of resolve on one state of the rows. *)

Applies(o) == o # None /\ ~o.expired
\* What an override says: a permission, "NOTHING", or None when it says nothing.
Says(o) == IF ~Applies(o) THEN None
           ELSE IF o.effect = "DENY" THEN "NOTHING" ELSE o.permission
FromRight(right) == IF right = None THEN "NOTHING" ELSE IF right = "READ" THEN "READ" ELSE "WRITE"

\* Steps 1 to 4 on the overrides of a user and site: that of the resource, then that of the site.
ByOverrides(rows, resource) ==
  IF Says(rows[resource]) # None THEN Says(rows[resource]) ELSE Says(rows["*"])

OverridesOf(u, s) == [r \in Resources |-> override[u, s, r]]

InForce(u, s, resource) ==
  IF u \in super THEN "WRITE"
  ELSE LET said == ByOverrides(OverridesOf(u, s), resource) IN
       IF said # None THEN said ELSE FromRight(Right(u, home[s]))

InForceAll == [k \in Keys |-> InForce(k[1], k[2], k[3])]

(* resolveAllSites on one state of the rows: sites of the user's delegations,
   then the overrides of whole sites add, remove or change. *)
SiteListKeepsDenied(u) ==
  LET base == [s \in {s \in Sites : Right(u, home[s]) # None} |-> FromRight(Right(u, home[s]))]
      add  == {s \in Sites : Says(override[u, s, "*"]) \in {"READ", "WRITE"}}
  IN IF u \in super THEN [s \in Sites |-> "WRITE"]
     ELSE [s \in DOMAIN base \cup add |-> IF s \in add THEN override[u, s, "*"].permission ELSE base[s]]

SiteList(u) ==
  LET base == [s \in {s \in Sites : Right(u, home[s]) # None} |-> FromRight(Right(u, home[s]))]
      deny == {s \in Sites : Says(override[u, s, "*"]) = "NOTHING"}
      add  == {s \in Sites : Says(override[u, s, "*"]) \in {"READ", "WRITE"}}
  IN IF u \in super THEN [s \in Sites |-> "WRITE"]
     ELSE [s \in (DOMAIN base \cup add) \ deny |-> IF s \in add THEN override[u, s, "*"].permission ELSE base[s]]

-----------------------------------------------------------------------------
Init ==
  /\ MemberInit
  /\ home \in [Sites -> delegation]
  /\ override \in Overrides0
  /\ edit = [e \in Editors |-> None]
  /\ ask = [a \in Askers |-> None]
  /\ bare = {}

\* A request notes what was in force while it ran, and how often what it reads changed.
Note ==
  ask' = [a \in Askers |->
    LET q == ask[a] IN
    IF q = None \/ q.answer # None THEN q
    ELSE IF crashes' # crashes THEN None
    ELSE LET overs == \E r \in Resources : override'[q.user, q.site, r] # override[q.user, q.site, r]
             basis == \/ home'[q.site] # home[q.site]
                      \/ member' # member
                      \/ (q.user \in super') # (q.user \in super)
         IN [q EXCEPT !.seen = @ \cup {InForceAll'[q.user, q.site, q.resource]},
                      !.moved = IF q.user \in gone' \ gone THEN 2 ELSE IF (overs \/ basis) /\ @ < 2 THEN @ + 1 ELSE @,
                      !.rehomed = @ \/ home'[q.site] # home[q.site]]]

\* The overrides of a user go with him, and open requests with the process.
MemberStep == /\ MemberNext({home[s] : s \in Sites})
              /\ override' = [k \in Keys |-> IF k[1] \in gone' THEN None ELSE override[k]]
              /\ edit' = IF crashes' = crashes THEN edit ELSE [e \in Editors |-> None]
              /\ UNCHANGED <<home, bare>>
              /\ Note

Change == /\ ops < MaxOps
          /\ ops' = ops + 1
          /\ UNCHANGED <<super, delegation, gone, member, call, crashes, spoiled, hollow>>

(* sites update: the site moves to another delegation. *)
MoveSite(s, d) ==
  /\ d \in delegation \ {home[s]}
  /\ Change
  /\ home' = [home EXCEPT ![s] = d]
  /\ UNCHANGED <<override, edit, bare>>
  /\ Note

\* The updates of a row that was removed or has run out meanwhile.
Touch(k, lost) ==
  edit' = [e \in Editors |->
    IF edit[e] = None \/ edit[e].key # k THEN edit[e]
    ELSE IF lost THEN [edit[e] EXCEPT !.lost = TRUE] ELSE [edit[e] EXCEPT !.read.expired = TRUE]]

(* create: one row for a user, site and resource; a denial has no permission. *)
CreateOverride(u, s, r, effect, permission) ==
  /\ override[u, s, r] = None /\ u \notin gone
  /\ (effect = "ALLOW") = (permission # None)
  /\ Change
  /\ override' = [override EXCEPT ![<<u, s, r>>] = [effect |-> effect, permission |-> permission, expired |-> FALSE]]
  /\ bare' = bare \ {<<u, s, r>>}
  /\ UNCHANGED <<home, edit>>
  /\ Note

(* remove *)
RemoveOverride(u, s, r) ==
  /\ override[u, s, r] # None
  /\ Change
  /\ override' = [override EXCEPT ![<<u, s, r>>] = None]
  /\ Touch(<<u, s, r>>, TRUE)
  /\ UNCHANGED <<home, bare>>
  /\ Note

(* update: the check is made on the row read before. *)
CheckEditAlone(e, u, s, r, c) ==
  LET row == override[u, s, r] IN
  /\ edit[e] = None /\ row # None
  /\ c.effect = "ALLOW" => c.permission # None
  /\ Change
  /\ edit' = [edit EXCEPT ![e] = [key |-> <<u, s, r>>, effect |-> c.effect, permission |-> c.permission, read |-> row, lost |-> FALSE]]
  /\ UNCHANGED <<home, override, bare>>
  /\ Note

CheckEdit(e, u, s, r, c) ==
  LET row == override[u, s, r] IN
  /\ edit[e] = None /\ row # None
  /\ (IF c.effect = "keep" THEN row.effect ELSE c.effect) = "ALLOW" =>
       c.permission \in {"READ", "WRITE"} \/ row.permission # None
  /\ Change
  /\ edit' = [edit EXCEPT ![e] = [key |-> <<u, s, r>>, effect |-> c.effect, permission |-> c.permission, read |-> row, lost |-> FALSE]]
  /\ UNCHANGED <<home, override, bare>>
  /\ Note

\* The fields a request gives; a denial clears the permission only when the
\* request names one too.
Edited(row, c) ==
  [row EXCEPT !.effect = IF c.effect = "keep" THEN @ ELSE c.effect,
              !.permission = IF c.permission = "keep" THEN @ ELSE IF c.effect = "DENY" THEN None ELSE c.permission]

WriteEdit(e) ==
  LET c == edit[e] IN
  /\ c # None
  /\ edit' = [edit EXCEPT ![e] = None]
  /\ IF c.lost \/ override[c.key] = None THEN UNCHANGED <<override, bare>>
     ELSE /\ override' = [override EXCEPT ![c.key] = Edited(@, c)]
          /\ bare' = IF c.permission = None \/ override[c.key] # c.read THEN bare \cup {c.key} ELSE bare
  /\ UNCHANGED <<memberVars, home>>
  /\ Note

(* The moment expiresAt of an override comes. *)
Expire(u, s, r) ==
  /\ Applies(override[u, s, r])
  /\ Change
  /\ override' = [override EXCEPT ![<<u, s, r>>].expired = TRUE]
  /\ Touch(<<u, s, r>>, FALSE)
  /\ UNCHANGED <<home, bare>>
  /\ Note
-----------------------------------------------------------------------------
Advance(a, q) == ask' = [ask EXCEPT ![a] = q]
Answer(a, permission) ==
  LET q == ask[a] IN
  Advance(a, [kind |-> q.kind, phase |-> "done", answer |-> permission, seen |-> q.seen, moved |-> q.moved, rehomed |-> q.rehomed])

(* resolve, resolveAllSites: a request starts. Of the list, the entry of one
   site is followed. *)
Start(a, kind, u, s, r) ==
  /\ ask[a] = None
  /\ kind = "list" => r = "*"
  /\ Advance(a, [kind |-> kind, user |-> u, site |-> s, resource |-> r, phase |-> "user", todo |-> {}, found |-> None,
                 answer |-> None, seen |-> {InForce(u, s, r)}, moved |-> 0, rehomed |-> FALSE])
  /\ UNCHANGED <<memberVars, home, override, edit, bare>>

(* Step 0: a super administrator may do everything, an unknown user nothing. *)
ReadUser(a) ==
  LET q == ask[a] IN
  /\ q # None /\ q.phase = "user"
  /\ IF q.user \in gone THEN Answer(a, "NOTHING")
     ELSE IF q.user \in super THEN Answer(a, "WRITE")
     ELSE Advance(a, [q EXCEPT !.phase = IF q.kind = "list" THEN "rights" ELSE "overrides"])
  /\ UNCHANGED <<memberVars, home, override, edit, bare>>

(* Steps 1 to 4: the overrides that have not expired. *)
ReadOverrides(a) ==
  LET q    == ask[a]
      said == ByOverrides(OverridesOf(q.user, q.site), q.resource)
  IN
  /\ q # None /\ q.phase = "overrides"
  /\ IF q.kind = "list" THEN Answer(a, IF said # None THEN said ELSE FromRight(q.found))
     ELSE IF said # None THEN Answer(a, said)
     ELSE Advance(a, [q EXCEPT !.phase = "site"])
  /\ UNCHANGED <<memberVars, home, override, edit, bare>>

(* Step 5: the delegation of the site, then the user's row in it. *)
ReadSite(a) ==
  LET q == ask[a] IN
  /\ q # None /\ q.phase = "site"
  /\ Advance(a, [q EXCEPT !.phase = "member", !.todo = {home[q.site]}])
  /\ UNCHANGED <<memberVars, home, override, edit, bare>>

ReadMemberAsWriter(a, d) ==
  LET q == ask[a] IN
  /\ q # None /\ q.phase = "member" /\ d \in q.todo
  /\ Answer(a, IF member[q.user, d] = None THEN "NOTHING" ELSE "WRITE")
  /\ UNCHANGED <<memberVars, home, override, edit, bare>>

ReadMember(a, d) ==
  LET q == ask[a] IN
  /\ q # None /\ q.phase = "member" /\ d \in q.todo
  /\ Answer(a, FromRight(Right(q.user, d)))
  /\ UNCHANGED <<memberVars, home, override, edit, bare>>

(* The list: the user's rows, then for each the sites of its delegation. *)
ReadRights(a) ==
  LET q == ask[a] IN
  /\ q # None /\ q.phase = "rights"
  /\ Advance(a, [q EXCEPT !.phase = "sites",
                          !.todo = {<<d, Right(q.user, d)>> : d \in {d \in Delegations : member[q.user, d] # None}}])
  /\ UNCHANGED <<memberVars, home, override, edit, bare>>

ReadSites(a) ==
  LET q == ask[a] IN
  /\ q # None /\ q.phase = "sites"
  /\ IF q.todo = {} THEN Advance(a, [q EXCEPT !.phase = "overrides"])
     ELSE \E dr \in q.todo :
            Advance(a, [q EXCEPT !.todo = @ \ {dr}, !.found = IF home[q.site] = dr[1] THEN dr[2] ELSE @])
  /\ UNCHANGED <<memberVars, home, override, edit, bare>>

Next ==
  \/ MemberStep
  \/ \E s \in Sites, d \in Delegations : MoveSite(s, d)
  \/ \E u \in Users, s \in Sites, r \in Resources :
       \/ \E e \in {"ALLOW", "DENY"}, p \in {"READ", "WRITE", None} : CreateOverride(u, s, r, e, p)
       \/ \E e \in Editors, c \in Changes : CheckEdit(e, u, s, r, c)
       \/ RemoveOverride(u, s, r) \/ Expire(u, s, r)
  \/ \E e \in Editors : WriteEdit(e)
  \/ \E a \in Askers, k \in {"resolve", "list"}, u \in Users, s \in Sites, r \in Resources : Start(a, k, u, s, r)
  \/ \E a \in Askers : ReadUser(a) \/ ReadOverrides(a) \/ ReadSite(a) \/ ReadRights(a) \/ ReadSites(a)
  \/ \E a \in Askers, d \in Delegations : ReadMember(a, d)

Spec == Init /\ [][Next]_vars
-----------------------------------------------------------------------------
OverrideTypeOK ==
  /\ override \in [Keys -> Override \cup {None}]
  /\ edit \in [Editors -> Edit \cup {None}]

TypeOK ==
  /\ MemberTypeOK /\ OverrideTypeOK
  /\ home \in [Sites -> Delegations]
  /\ \A a \in Askers : ask[a] # None => ask[a].answer \in {"READ", "WRITE", "NOTHING", None}

(* permission.service.ts:42, "single source of truth": although the rows are
   read one after the other, an answer was in force at some moment of the
   request when what it reads changed once at most (the removal of a user takes
   his rights and his overrides, two changes). Of a list this does not
   hold for a site that changed its delegation. *)
AnswerWasInForce ==
  \A a \in Askers :
    LET q == ask[a] IN
    q # None /\ q.answer # None /\ q.moved < 2 /\ (q.kind = "list" => ~q.rehomed) => q.answer \in q.seen

(* permission.service.ts:248-255: the sites a user can read, from the list,
   are those where resolve gives something on the whole site, and the same. *)
ListAgrees ==
  \A u \in Users, s \in Sites :
    InForce(u, s, "*") = IF s \in DOMAIN SiteList(u) THEN SiteList(u)[s] ELSE "NOTHING"

(* schema.prisma:1221, "obligatoire si ALLOW": an ALLOW row has a permission,
   unless an update was written on a check from before another write, or sent
   an explicit null; resolve passes over such a row. *)
AllowHasPermission ==
  \A k \in DOMAIN override : override[k] # None /\ override[k].effect = "ALLOW" /\ k \notin bare =>
    override[k].permission # None
=============================================================================
