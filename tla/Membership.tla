----------------------------- MODULE Membership -----------------------------
(***************************************************************************)
(* Who may do what in which delegation: super administrators and the       *)
(* removal of users (users/users.service.ts), the rows of UserDelegation   *)
(* (user-delegations/user-delegations.service.ts, the SSO login of         *)
(* auth/auth.service.ts) and the delegations themselves                    *)
(* (organization/organization.service.ts). A request checks, then writes,  *)
(* and some write in several steps; others run between.                    *)
(***************************************************************************)
EXTENDS Naturals, FiniteSets

CONSTANTS Users, Delegations,
          Given,         \* rights that requests and groups give
          Rows0,         \* what a row of others than super administrators may be at first: [right, by] or None
          None,          \* no row
          Calls,         \* requests that may be open at once
          MaxScope,      \* bound: delegations the groups of a user map to
          MaxOps,        \* bound: requests in a behaviour
          MaxCrashes     \* bound: restarts in a behaviour

Rights == {"READ", "WRITE", "MANAGE"}
Rows == [right : Rights, by : {"hand", "sso"}]
OpenCalls ==
  [op : {"add", "setRole"}, user : Users, at : Delegations, right : Rights]
    \cup [op : {"remove"}, user : Users, at : Delegations, right : {None}]
    \cup [op : {"toggle"}, by : Users, user : Users, promote : BOOLEAN]
    \cup [op : {"removeUser", "read"}, user : Users]
    \cup [op : {"sync"}, user : Users, todo : SUBSET Delegations, had : SUBSET Delegations, done : SUBSET Delegations]
    \cup [op : {"created"}, at : Delegations]
    \cup [op : {"assign"}, at : Delegations, users : SUBSET Users]
    \cup [op : {"sso"}, user : Users, scopes : UNION {[S -> Rights] : S \in SUBSET Delegations}]

ASSUME GivenAssumption == Given \subseteq Rights
ASSUME RowsAssumption == Rows0 \subseteq Rows \cup {None}
ASSUME NoneAssumption == None \notin Rows \cup OpenCalls
ASSUME IdsAssumption == Users \cap Delegations = {}   \* ids of two tables

VARIABLES super,         \* set of super administrators
          delegation,    \* set of delegations that exist
          gone,          \* users and delegations that were removed: an id is not used again
          member,        \* [Users \X Delegations -> None or [right, by]]: rows of UserDelegation
          call,          \* [Calls -> an open request, or None]
          ops, crashes,
          spoiled,       \* history: pairs a late or failed step left behind, see SuperAdminManagesAll
          hollow         \* history: the last super administrator may be gone, see SomeSuperAdmin

memberVars == <<super, delegation, gone, member, call, ops, crashes, spoiled, hollow>>

Right(u, d) == IF member[u, d] = None THEN None ELSE member[u, d].right
Row(right, by) == [right |-> right, by |-> by]

MemberInit ==
  /\ super \in (SUBSET Users) \ {{}}
  /\ delegation \in (SUBSET Delegations) \ {{}}
  /\ \E rows \in [Users \X Delegations -> Rows0] :
       member = [p \in Users \X Delegations |->
                   IF p[2] \notin delegation THEN None ELSE IF p[1] \in super THEN Row("MANAGE", "hand") ELSE rows[p]]
  /\ call = [r \in Calls |-> None]
  /\ gone = {}
  /\ ops = 0 /\ crashes = 0
  /\ spoiled = {} /\ hollow = FALSE

Open(r, c) == /\ call[r] = None
              /\ ops < MaxOps
              /\ ops' = ops + 1
              /\ call' = [call EXCEPT ![r] = c]
Step(r, c) == call' = [call EXCEPT ![r] = c]
Close(r) == Step(r, None)

(* authorizeManagement *)
Authorized(q, d) == q \in super \/ Right(q, d) = "MANAGE"

(* addUserToDelegation: the checks. *)
CheckAdd(r, q, u, d, right) ==
  /\ Authorized(q, d)
  /\ d \in delegation /\ u \notin gone
  /\ member[u, d] = None
  /\ Open(r, [op |-> "add", user |-> u, at |-> d, right |-> right])
  /\ UNCHANGED <<super, delegation, gone, member, crashes, spoiled, hollow>>

(* removeUserFromDelegation, setRole: the checks on a super administrator, on
   oneself, on the requester and on the row. *)
CheckChange(r, op, q, u, d, right) ==
  /\ u \notin super
  /\ u # q
  /\ Authorized(q, d)
  /\ member[u, d] # None
  /\ Open(r, [op |-> op, user |-> u, at |-> d, right |-> right])
  /\ UNCHANGED <<super, delegation, gone, member, crashes, spoiled, hollow>>

\* The pair is spoiled when the user is a super administrator by now.
Late(u, d) == IF u \in super THEN {<<u, d>>} ELSE {}

(* The writes; the unique index refuses a second row, the foreign keys one of
   a user or delegation that is gone, and an update or delete without a row throws. *)
WriteAdd(r) ==
  LET c == call[r] IN
  /\ c # None /\ c.op = "add"
  /\ Close(r)
  /\ IF c.at \in delegation /\ c.user \notin gone /\ member[c.user, c.at] = None
     THEN /\ member' = [member EXCEPT ![<<c.user, c.at>>] = Row(c.right, "hand")]
          /\ spoiled' = spoiled \cup (IF c.right = "MANAGE" THEN {} ELSE Late(c.user, c.at))
     ELSE UNCHANGED <<member, spoiled>>
  /\ UNCHANGED <<super, delegation, gone, ops, crashes, hollow>>

WriteChange(r) ==
  LET c == call[r] IN
  /\ c # None /\ c.op \in {"remove", "setRole"}
  /\ Close(r)
  /\ IF member[c.user, c.at] # None
     THEN /\ member' = [member EXCEPT ![<<c.user, c.at>>] =
                          IF c.op = "remove" THEN None ELSE [@ EXCEPT !.right = c.right]]
          /\ spoiled' = spoiled \cup Late(c.user, c.at)
     ELSE UNCHANGED <<member, spoiled>>
  /\ UNCHANGED <<super, delegation, gone, ops, crashes, hollow>>

(* toggleSuperAdmin: the checks, the flag, and on a promotion the sync. *)
CheckToggleOneself(r, q, u, promote) ==
  /\ q \in super
  /\ promote = (u \notin super) /\ u \notin gone
  /\ Open(r, [op |-> "toggle", by |-> q, user |-> u, promote |-> promote])
  /\ UNCHANGED <<super, delegation, gone, member, crashes, spoiled, hollow>>

CheckToggle(r, q, u, promote) ==
  /\ q \in super
  /\ promote \/ q # u
  /\ promote = (u \notin super) /\ u \notin gone
  /\ Open(r, [op |-> "toggle", by |-> q, user |-> u, promote |-> promote])
  /\ UNCHANGED <<super, delegation, gone, member, crashes, spoiled, hollow>>

WriteFlag(r) ==
  LET c == call[r] IN
  /\ c # None /\ c.op = "toggle"
  /\ IF c.user \in gone THEN Close(r) /\ UNCHANGED <<super, hollow>>
     ELSE /\ super' = IF c.promote THEN super \cup {c.user} ELSE super \ {c.user}
          /\ hollow' = (hollow \/ (~c.promote /\ c.by \notin super))
          /\ IF c.promote THEN Step(r, [op |-> "read", user |-> c.user]) ELSE Close(r)
  /\ UNCHANGED <<delegation, gone, member, ops, crashes, spoiled>>

(* users remove: not a super administrator nor oneself; a manager, one of his
   delegation. The rows go with the user. *)
CheckRemoveUser(r, q, u) ==
  /\ u \notin super \cup gone
  /\ u # q
  /\ q \notin super => \E d \in delegation : Right(q, d) = "MANAGE" /\ member[u, d] # None
  /\ Open(r, [op |-> "removeUser", user |-> u])
  /\ UNCHANGED <<super, delegation, gone, member, crashes, spoiled, hollow>>

WriteRemoveUser(r) ==
  LET c == call[r] IN
  /\ c # None /\ c.op = "removeUser"
  /\ Close(r)
  /\ gone' = gone \cup {c.user}
  /\ super' = super \ {c.user}
  /\ member' = [p \in Users \X Delegations |-> IF p[1] = c.user THEN None ELSE member[p]]
  /\ hollow' = (hollow \/ c.user \in super)
  /\ UNCHANGED <<delegation, ops, crashes, spoiled>>

(* syncSuperAdminDelegations: the delegations and the rows there are. *)
ReadSync(r) ==
  LET c == call[r] IN
  /\ c # None /\ c.op = "read"
  /\ IF delegation = {} THEN Close(r)
     ELSE Step(r, [op |-> "sync", user |-> c.user, todo |-> delegation,
                   had |-> {d \in delegation : member[c.user, d] # None},
                   done |-> {d \in delegation : Right(c.user, d) = "MANAGE"}])
  /\ UNCHANGED <<super, delegation, gone, member, ops, crashes, spoiled, hollow>>

(* One delegation of the loop: a row is created or raised. A row created in
   between, or one that is gone, throws and ends the loop. *)
SyncOneWithoutRaise(r, d) ==
  LET c    == call[r]
      fits == (member[c.user, d] # None) = (d \in c.had) /\ d \in delegation /\ c.user \notin gone
      rest == c.todo \ {d}
  IN
  /\ c # None /\ c.op = "sync" /\ d \in c.todo
  /\ IF d \in c.had \/ fits
     THEN /\ member' = IF d \in c.had THEN member ELSE [member EXCEPT ![<<c.user, d>>] = Row("MANAGE", "hand")]
          /\ IF rest = {} THEN Close(r) ELSE Step(r, [c EXCEPT !.todo = rest])
          /\ UNCHANGED spoiled
     ELSE /\ Close(r)
          /\ spoiled' = spoiled \cup ({c.user} \X (c.todo \ c.done))
          /\ UNCHANGED member
  /\ UNCHANGED <<super, delegation, gone, ops, crashes, hollow>>

SyncOne(r, d) ==
  LET c    == call[r]
      fits == (member[c.user, d] # None) = (d \in c.had) /\ d \in delegation /\ c.user \notin gone
      rest == c.todo \ {d}
  IN
  /\ c # None /\ c.op = "sync" /\ d \in c.todo
  /\ IF d \in c.done \/ fits
     THEN /\ member' = IF d \in c.done THEN member
                       ELSE [member EXCEPT ![<<c.user, d>>] =
                               IF @ = None THEN Row("MANAGE", "hand") ELSE [@ EXCEPT !.right = "MANAGE"]]
          /\ IF rest = {} THEN Close(r) ELSE Step(r, [c EXCEPT !.todo = rest])
          /\ UNCHANGED spoiled
     ELSE /\ Close(r)
          /\ spoiled' = spoiled \cup ({c.user} \X (c.todo \ c.done))
          /\ UNCHANGED member
  /\ UNCHANGED <<super, delegation, gone, ops, crashes, hollow>>

(* createDelegation: the row, then the super administrators there are, then
   their rows, skipping those that exist. A user or the delegation that is
   gone by then fails them all. *)
CreateDelegation(r, d) ==
  /\ d \notin delegation \cup gone
  /\ Open(r, [op |-> "created", at |-> d])
  /\ delegation' = delegation \cup {d}
  /\ UNCHANGED <<super, gone, member, crashes, spoiled, hollow>>

ReadSupers(r) ==
  LET c == call[r] IN
  /\ c # None /\ c.op = "created"
  /\ IF super = {} THEN Close(r) ELSE Step(r, [op |-> "assign", at |-> c.at, users |-> super])
  /\ UNCHANGED <<super, delegation, gone, member, ops, crashes, spoiled, hollow>>

AssignSupers(r) ==
  LET c    == call[r]
      lost == c.at \notin delegation \/ c.users \cap gone # {}
  IN
  /\ c # None /\ c.op = "assign"
  /\ Close(r)
  /\ member' = IF lost THEN member
               ELSE [p \in Users \X Delegations |->
                       IF p[1] \in c.users /\ p[2] = c.at /\ member[p] = None THEN Row("MANAGE", "hand") ELSE member[p]]
  /\ spoiled' = IF lost THEN spoiled \cup (c.users \X {c.at}) ELSE spoiled
  /\ UNCHANGED <<super, delegation, gone, ops, crashes, hollow>>

(* removeDelegation: refused while sites are assigned to it; its rows go with
   it. *)
RemoveDelegation(d, sited) ==
  /\ d \in delegation \ sited
  /\ ops < MaxOps
  /\ ops' = ops + 1
  /\ delegation' = delegation \ {d}
  /\ gone' = gone \cup {d}
  /\ member' = [p \in Users \X Delegations |-> IF p[2] = d THEN None ELSE member[p]]
  /\ UNCHANGED <<super, call, crashes, spoiled, hollow>>

(* syncSsoDelegations: the rows of earlier logins go, and those of the groups
   come, skipping rows that exist. An error is swallowed. *)
StartSso(r, u, scopes) ==
  /\ u \notin gone
  /\ Open(r, [op |-> "sso", user |-> u, scopes |-> scopes])
  /\ member' = [p \in Users \X Delegations |->
                  IF p[1] = u /\ member[p] # None /\ member[p].by = "sso" THEN None ELSE member[p]]
  /\ spoiled' = spoiled \cup {p \in super \X Delegations : member'[p] # member[p]}
  /\ UNCHANGED <<super, delegation, gone, crashes, hollow>>

FinishSso(r) ==
  LET c == call[r] IN
  /\ c # None /\ c.op = "sso"
  /\ Close(r)
  /\ LET new == [p \in Users \X Delegations |->
                   IF p[1] = c.user /\ p[2] \in DOMAIN c.scopes /\ member[p] = None
                   THEN Row(c.scopes[p[2]], "sso") ELSE member[p]]
     IN /\ member' = IF DOMAIN c.scopes \subseteq delegation /\ c.user \notin gone THEN new ELSE member
        /\ spoiled' = spoiled \cup {p \in super \X Delegations : member'[p] # member[p]}
  /\ UNCHANGED <<super, delegation, gone, ops, crashes, hollow>>

(* The process restarts and what a sync had left is left. Without an open
   request nothing is. *)
Crash ==
  /\ \E r \in Calls : call[r] # None
  /\ crashes < MaxCrashes
  /\ crashes' = crashes + 1
  /\ call' = [r \in Calls |-> None]
  /\ spoiled' = spoiled \cup UNION
       {LET c == call[r] IN
        IF c = None THEN {}
        ELSE IF c.op = "read" THEN {c.user} \X Delegations
        ELSE IF c.op = "sync" THEN {c.user} \X (c.todo \ c.done)
        ELSE IF c.op \in {"created", "assign"} THEN Users \X {c.at}
        ELSE {} : r \in Calls}
  /\ UNCHANGED <<super, delegation, gone, member, ops, hollow>>

\* What the groups of an identity provider may map a user to.
Scopes == UNION {[S -> Given] : S \in {S \in SUBSET delegation : Cardinality(S) \in 1..MaxScope}}

MemberNext(sited) ==
  \/ \E r \in Calls, q \in Users, u \in Users, d \in Delegations, right \in Given : CheckAdd(r, q, u, d, right)
  \/ \E r \in Calls, q \in Users, u \in Users, d \in Delegations :
       \/ CheckChange(r, "remove", q, u, d, None)
       \/ \E right \in Given : CheckChange(r, "setRole", q, u, d, right)
  \/ \E r \in Calls, q \in Users, u \in Users :
       CheckRemoveUser(r, q, u) \/ \E p \in BOOLEAN : CheckToggle(r, q, u, p)
  \/ \E r \in Calls : \/ WriteAdd(r) \/ WriteRemoveUser(r) \/ WriteChange(r) \/ WriteFlag(r) \/ ReadSync(r)
                      \/ ReadSupers(r) \/ AssignSupers(r) \/ FinishSso(r)
  \/ \E r \in Calls, d \in Delegations : SyncOne(r, d) \/ CreateDelegation(r, d)
  \/ \E d \in Delegations : RemoveDelegation(d, sited)
  \/ \E r \in Calls, u \in Users, s \in Scopes : StartSso(r, u, s)
  \/ Crash
-----------------------------------------------------------------------------
MemberTypeOK ==
  /\ super \subseteq Users /\ delegation \subseteq Delegations
  /\ gone \subseteq Users \cup Delegations
  /\ member \in [Users \X Delegations -> Rows \cup {None}]
  /\ \A p \in Users \X Delegations : p[2] \notin delegation => member[p] = None
  /\ call \in [Calls -> OpenCalls \cup {None}]
  /\ spoiled \subseteq Users \X Delegations
  /\ hollow \in BOOLEAN

(* users.service.ts:396 and :277, "cannot demote yourself", no super
   administrator is removed: so one is always left, unless a requester was
   demoted himself between his check and the demotion of another, or a user
   was promoted between the check and his removal. *)
SomeSuperAdmin == super # {} \/ hollow

(* users.service.ts:440, "ensure a super admin has ADMIN role on ALL
   delegations": once the requests are done it holds, whatever promotions and
   new delegations cross, unless a sync was cut short, or a row was changed on
   a check from before the promotion or by a login. *)
SuperAdminManagesAll ==
  (\A r \in Calls : call[r] = None) =>
    \A u \in super, d \in delegation : Right(u, d) # "MANAGE" => <<u, d>> \in spoiled
=============================================================================
