---------------------------- MODULE AccessProofs ----------------------------
(***************************************************************************)
(* Proofs about Membership, for every run of Access: the type of its       *)
(* state, SomeSuperAdmin and SuperAdminManagesAll; then about Access:      *)
(* AllowHasPermission, ListAgrees and AnswerWasInForce.                    *)
(*                                                                         *)
(* Behind SomeSuperAdmin is that a demotion under way is never of its own  *)
(* requester. Behind SuperAdminManagesAll is what makes the code's two     *)
(* uncoordinated loops complete: a delegation a super administrator does   *)
(* not manage is one that some open request will still come to (Covers).   *)
(* Behind AnswerWasInForce is what an open request may still answer, from  *)
(* what it has read, were the rows to stay (Answers): one change of what   *)
(* it reads leaves that to be what was in force before or is since.        *)
(***************************************************************************)
EXTENDS Access, TLAPS

\* The request c will still give the user u, whose row in d this is, the right MANAGE there.
Covers(c, u, d, row) ==
  /\ c # None
  /\ \/ c.op = "read" /\ c.user = u
     \/ c.op = "sync" /\ c.user = u /\ d \in c.todo \ c.done
     \/ c.op = "created" /\ c.at = d /\ row = None
     \/ c.op = "assign" /\ c.at = d /\ u \in c.users /\ row = None

Demotes(c) == c # None /\ c.op = "toggle" /\ ~c.promote
NoSelfDemotion == \A r \in Calls : Demotes(call[r]) => call[r].by # call[r].user

Lacks(u, d) == u \in super /\ d \in delegation /\ Right(u, d) # "MANAGE"
Covered == \A u \in Users, d \in Delegations :
  Lacks(u, d) => <<u, d>> \in spoiled \/ \E r \in Calls : Covers(call[r], u, d, member[u, d])

MInv == MemberTypeOK /\ SomeSuperAdmin /\ NoSelfDemotion /\ Covered

memberRest == <<super, delegation, gone, member, call, spoiled, hollow>>
-----------------------------------------------------------------------------
\* The initial rows are of the type the code writes.
LEMMA RowsType == \A right \in Rights, by \in {"hand", "sso"} : Row(right, by) \in Rows
  BY DEF Row, Rows

\* A row is never taken for a missing one, nor an open request for a closed one.
LEMMA NotNone == (\A x \in Rows : x # None) /\ (\A c \in OpenCalls : c # None)
  BY NoneAssumption

\* All of the invariant holds at first.
LEMMA InitMInv == MemberInit => MInv
<1> SUFFICES ASSUME MemberInit PROVE MInv
  OBVIOUS
<1>1. MemberTypeOK
  <2>1. PICK rows \in [Users \X Delegations -> Rows0] :
          member = [p \in Users \X Delegations |->
                      IF p[2] \notin delegation THEN None ELSE IF p[1] \in super THEN Row("MANAGE", "hand") ELSE rows[p]]
    BY DEF MemberInit
  <2>2. Row("MANAGE", "hand") \in Rows
    BY RowsType DEF Rights
  <2>3. member \in [Users \X Delegations -> Rows \cup {None}]
    BY <2>1, <2>2, RowsAssumption
  <2>4. \A p \in Users \X Delegations : p[2] \notin delegation => member[p] = None
    BY <2>1
  <2>5. call \in [Calls -> OpenCalls \cup {None}]
    BY DEF MemberInit
  <2> QED
    BY <2>3, <2>4, <2>5 DEF MemberInit, MemberTypeOK
<1>2. SomeSuperAdmin
  <2>1. super \notin {{}}
    BY DEF MemberInit
  <2> QED
    BY <2>1 DEF SomeSuperAdmin
<1>3. NoSelfDemotion
  BY DEF MemberInit, NoSelfDemotion, Demotes
<1>4. Covered
  <2> SUFFICES ASSUME NEW u \in Users, NEW d \in Delegations, Lacks(u, d) PROVE FALSE
    BY DEF Covered
  <2> DEFINE p == <<u, d>>
  <2>0. p \in Users \X Delegations /\ p[1] \in super /\ p[2] \in delegation
    BY DEF Lacks
  <2>1. member[p] = Row("MANAGE", "hand")
    <3>1. PICK rows \in [Users \X Delegations -> Rows0] :
            member = [x \in Users \X Delegations |->
                        IF x[2] \notin delegation THEN None ELSE IF x[1] \in super THEN Row("MANAGE", "hand") ELSE rows[x]]
      BY DEF MemberInit
    <3> HIDE DEF p
    <3> QED
      BY <2>0, <3>1
  <2>2. member[p] # None
    <3>1. Row("MANAGE", "hand") \in Rows
      BY RowsType DEF Rights
    <3> QED
      BY <2>1, <3>1, NotNone
  <2>3. Right(u, d) = member[p].right
    BY <2>2 DEF Right
  <2>4. member[p].right = "MANAGE"
    BY <2>1 DEF Row
  <2> QED
    BY <2>3, <2>4 DEF Lacks
<1> QED
  BY <1>1, <1>2, <1>3, <1>4 DEF MInv
-----------------------------------------------------------------------------
\* One request moves: what it covered, it still covers or has given, or is noted as spoiled; the others go on.
LEMMA KeepCovered ==
  ASSUME NEW r \in Calls, NEW c, Covered, call \in [Calls -> OpenCalls \cup {None}],
         call' = [call EXCEPT ![r] = c], spoiled \subseteq spoiled',
         \A u \in Users, d \in Delegations : Lacks(u, d)' =>
            \/ <<u, d>> \in spoiled'
            \/ Covers(c, u, d, member'[u, d])
            \/ /\ Lacks(u, d) /\ member'[u, d] = member[u, d]
               /\ ~Covers(call[r], u, d, member[u, d])
  PROVE  Covered'
<1> SUFFICES ASSUME NEW u \in Users, NEW d \in Delegations, Lacks(u, d)', <<u, d>> \notin spoiled'
             PROVE  \E x \in Calls : Covers(call'[x], u, d, member'[u, d])
  BY DEF Covered
<1>1. CASE Covers(c, u, d, member'[u, d])
  BY <1>1
<1>2. CASE Lacks(u, d) /\ member'[u, d] = member[u, d] /\ ~Covers(call[r], u, d, member[u, d])
  <2>1. PICK x \in Calls : Covers(call[x], u, d, member[u, d])
    BY <1>2 DEF Covered
  <2>2. x # r
    BY <1>2, <2>1
  <2>3. call'[x] = call[x]
    BY <2>2
  <2> QED
    BY <1>2, <2>1, <2>3
<1> QED
  BY <1>1, <1>2

\* The same for the whole invariant: what is left to show of an action of one request.
LEMMA StepKeeps ==
  ASSUME MInv, NEW r \in Calls, NEW c \in OpenCalls \cup {None}, Demotes(c) => c.by # c.user,
         call' = [call EXCEPT ![r] = c], spoiled \subseteq spoiled',
         super' \subseteq Users, delegation' \subseteq Delegations, gone' \subseteq Users \cup Delegations,
         member' \in [Users \X Delegations -> Rows \cup {None}],
         \A p \in Users \X Delegations : p[2] \notin delegation' => member'[p] = None,
         spoiled' \subseteq Users \X Delegations, hollow' \in BOOLEAN, SomeSuperAdmin',
         \A u \in Users, d \in Delegations : Lacks(u, d)' =>
            \/ <<u, d>> \in spoiled'
            \/ Covers(c, u, d, member'[u, d])
            \/ /\ Lacks(u, d) /\ member'[u, d] = member[u, d]
               /\ ~Covers(call[r], u, d, member[u, d])
  PROVE  MInv'
<1>1. MemberTypeOK'
  BY DEF MInv, MemberTypeOK
<1>2. NoSelfDemotion'
  BY DEF MInv, MemberTypeOK, NoSelfDemotion
<1>3. Covered'
  BY KeepCovered DEF MInv, MemberTypeOK
<1> QED
  BY <1>1, <1>2, <1>3 DEF MInv

\* A request that only starts: it covers nothing it has to.
LEMMA OpenKeeps ==
  ASSUME MInv, NEW r \in Calls, NEW c \in OpenCalls, Demotes(c) => c.by # c.user, Open(r, c),
         UNCHANGED <<super, delegation, gone, member, spoiled, hollow>>
  PROVE  MInv'
<1>1. \A u \in Users, d \in Delegations : Lacks(u, d)' => Lacks(u, d)
  BY DEF Lacks, Right
<1>2. \A u \in Users, d \in Delegations : ~Covers(call[r], u, d, member[u, d])
  BY DEF Open, Covers
<1> QED
  BY <1>1, <1>2, StepKeeps DEF MInv, MemberTypeOK, SomeSuperAdmin, Open

\* A request that covers nothing ends, and a row it writes is the right MANAGE, or of no super administrator, or noted.
LEMMA WriteKeeps ==
  ASSUME MInv, NEW r \in Calls, Close(r), UNCHANGED <<super, delegation, gone, hollow>>,
         \A u \in Users, d \in Delegations : ~Covers(call[r], u, d, member[u, d]),
         NEW u0 \in Users, NEW d0 \in delegation, NEW row \in Rows \cup {None},
         member' = [member EXCEPT ![<<u0, d0>>] = row],
         spoiled \subseteq spoiled', spoiled' \subseteq Users \X Delegations,
         u0 \in super => row \in [right : {"MANAGE"}, by : {"hand", "sso"}] \/ <<u0, d0>> \in spoiled'
  PROVE  MInv'
<1>1. member' \in [Users \X Delegations -> Rows \cup {None}]
  BY DEF MInv, MemberTypeOK
<1>2. \A p \in Users \X Delegations : p[2] \notin delegation' => member'[p] = None
  <2> SUFFICES ASSUME NEW p \in Users \X Delegations, p[2] \notin delegation' PROVE member'[p] = None
    OBVIOUS
  <2>1. p # <<u0, d0>>
    <3>1. SUFFICES ASSUME p = <<u0, d0>> PROVE FALSE
      OBVIOUS
    <3>2. p[2] = d0 /\ d0 \in delegation'
      BY <3>1
    <3> QED
      BY <3>2
  <2> QED
    BY <2>1 DEF MInv, MemberTypeOK
<1>3. ASSUME NEW u \in Users, NEW d \in Delegations, Lacks(u, d)', <<u, d>> \notin spoiled'
      PROVE  Lacks(u, d) /\ member'[u, d] = member[u, d]
  <2>1. CASE <<u, d>> = <<u0, d0>>
    <3>1. row \in [right : {"MANAGE"}, by : {"hand", "sso"}]
      BY <1>3, <2>1 DEF Lacks
    <3>2. row \in Rows /\ row.right = "MANAGE"
      BY <3>1 DEF Rows, Rights
    <3>3. member'[u, d] = row
      BY <2>1, <1>1 DEF MInv, MemberTypeOK
    <3>4. row # None
      BY <3>2, NotNone
    <3> QED
      BY <1>3, <3>2, <3>3, <3>4 DEF Lacks, Right
  <2>2. CASE <<u, d>> # <<u0, d0>>
    <3>1. member'[u, d] = member[u, d]
      BY <2>2, <1>1 DEF MInv, MemberTypeOK
    <3> QED
      BY <1>3, <3>1 DEF Lacks, Right
  <2> QED
    BY <2>1, <2>2
<1>4. Demotes(None) => None.by # None.user
  BY DEF Demotes
<1>5. call' = [call EXCEPT ![r] = None]
  BY DEF Close, Step
<1>6. SomeSuperAdmin' /\ super' \subseteq Users /\ delegation' \subseteq Delegations /\ gone' \subseteq Users \cup Delegations /\ hollow' \in BOOLEAN
  BY DEF MInv, MemberTypeOK, SomeSuperAdmin
<1>7. \A u \in Users, d \in Delegations : Lacks(u, d)' =>
         \/ <<u, d>> \in spoiled'
         \/ Covers(None, u, d, member'[u, d])
         \/ /\ Lacks(u, d) /\ member'[u, d] = member[u, d]
            /\ ~Covers(call[r], u, d, member[u, d])
  BY <1>3
<1>8. None \in OpenCalls \cup {None}
  OBVIOUS
<1>9. MInv /\ spoiled \subseteq spoiled' /\ spoiled' \subseteq Users \X Delegations /\ r \in Calls
  OBVIOUS
<1> QED
  BY ONLY <1>1, <1>2, <1>4, <1>5, <1>6, <1>7, <1>8, <1>9, StepKeeps

\* A request that covers nothing ends and leaves all as it was.
LEMMA CloseKeeps ==
  ASSUME MInv, NEW r \in Calls, Close(r), UNCHANGED <<super, delegation, gone, member, spoiled, hollow>>,
         \A u \in Users, d \in Delegations : Lacks(u, d) => ~Covers(call[r], u, d, member[u, d])
  PROVE  MInv'
<1>1. \A u \in Users, d \in Delegations : Lacks(u, d)' =>
         /\ Lacks(u, d) /\ member'[u, d] = member[u, d]
         /\ ~Covers(call[r], u, d, member[u, d])
  BY DEF Lacks, Right
<1>2. Demotes(None) => None.by # None.user
  BY DEF Demotes
<1> QED
  BY <1>1, <1>2, StepKeeps DEF MInv, MemberTypeOK, SomeSuperAdmin, Close, Step
-----------------------------------------------------------------------------
(* One lemma for each action. *)

\* Checks of an addition.
LEMMA CheckAddKeeps ==
  ASSUME MInv, NEW r \in Calls, NEW q \in Users, NEW u \in Users, NEW d \in Delegations, NEW right \in Given, CheckAdd(r, q, u, d, right)
  PROVE  MInv'
<1> DEFINE c == [op |-> "add", user |-> u, at |-> d, right |-> right]
<1>1. c \in OpenCalls
  BY GivenAssumption DEF OpenCalls
<1>2. ~Demotes(c)
  BY DEF Demotes
<1>3. Open(r, c) /\ UNCHANGED <<super, delegation, gone, member, spoiled, hollow>>
  BY DEF CheckAdd
<1> HIDE DEF c
<1> QED
  BY <1>1, <1>2, <1>3, OpenKeeps

\* Checks of the removal of a row.
LEMMA CheckRemoveKeeps ==
  ASSUME MInv, NEW r \in Calls, NEW q \in Users, NEW u \in Users, NEW d \in Delegations, CheckChange(r, "remove", q, u, d, None)
  PROVE  MInv'
<1> DEFINE c == [op |-> "remove", user |-> u, at |-> d, right |-> None]
<1>1. c \in OpenCalls
  BY DEF OpenCalls
<1>2. ~Demotes(c)
  BY DEF Demotes
<1>3. Open(r, c) /\ UNCHANGED <<super, delegation, gone, member, spoiled, hollow>>
  BY DEF CheckChange
<1> HIDE DEF c
<1> QED
  BY <1>1, <1>2, <1>3, OpenKeeps

\* Checks of a change of a right.
LEMMA CheckSetRoleKeeps ==
  ASSUME MInv, NEW r \in Calls, NEW q \in Users, NEW u \in Users, NEW d \in Delegations, NEW right \in Given, CheckChange(r, "setRole", q, u, d, right)
  PROVE  MInv'
<1> DEFINE c == [op |-> "setRole", user |-> u, at |-> d, right |-> right]
<1>1. c \in OpenCalls
  BY GivenAssumption DEF OpenCalls
<1>2. ~Demotes(c)
  BY DEF Demotes
<1>3. Open(r, c) /\ UNCHANGED <<super, delegation, gone, member, spoiled, hollow>>
  BY DEF CheckChange
<1> HIDE DEF c
<1> QED
  BY <1>1, <1>2, <1>3, OpenKeeps

\* Checks of the removal of a user.
LEMMA CheckRemoveUserKeeps ==
  ASSUME MInv, NEW r \in Calls, NEW q \in Users, NEW u \in Users, CheckRemoveUser(r, q, u)
  PROVE  MInv'
<1> DEFINE c == [op |-> "removeUser", user |-> u]
<1>1. c \in OpenCalls
  BY DEF OpenCalls
<1>2. ~Demotes(c)
  BY DEF Demotes
<1>3. Open(r, c) /\ UNCHANGED <<super, delegation, gone, member, spoiled, hollow>>
  BY DEF CheckRemoveUser
<1> HIDE DEF c
<1> QED
  BY <1>1, <1>2, <1>3, OpenKeeps

\* Checks of a promotion or demotion.
LEMMA CheckToggleKeeps ==
  ASSUME MInv, NEW r \in Calls, NEW q \in Users, NEW u \in Users, NEW promote \in BOOLEAN, CheckToggle(r, q, u, promote)
  PROVE  MInv'
<1> DEFINE c == [op |-> "toggle", by |-> q, user |-> u, promote |-> promote]
<1>1. c \in OpenCalls
  BY DEF OpenCalls
<1>2. Demotes(c) => c.by # c.user
  BY DEF CheckToggle, Demotes
<1>3. Open(r, c) /\ UNCHANGED <<super, delegation, gone, member, spoiled, hollow>>
  BY DEF CheckToggle
<1> HIDE DEF c
<1> QED
  BY <1>1, <1>2, <1>3, OpenKeeps

\* What the fields of an open request range over.
LEMMA CallType ==
  ASSUME MInv, NEW r \in Calls, call[r] # None
  PROVE  /\ call[r] \in OpenCalls
         /\ call[r].op \in {"add", "setRole", "remove"} => call[r].user \in Users /\ call[r].at \in Delegations
         /\ call[r].op \in {"add", "setRole"} => call[r].right \in Rights
         /\ call[r].op \in {"removeUser", "read", "sync", "sso", "toggle"} => call[r].user \in Users
         /\ call[r].op = "toggle" => call[r].by \in Users /\ call[r].promote \in BOOLEAN
         /\ call[r].op = "sync" => call[r].todo \subseteq Delegations /\ call[r].had \subseteq Delegations /\ call[r].done \subseteq Delegations
         /\ call[r].op \in {"created", "assign"} => call[r].at \in Delegations
         /\ call[r].op = "assign" => call[r].users \subseteq Users
<1>1. call[r] \in OpenCalls
  BY DEF MInv, MemberTypeOK
<1> QED
  BY <1>1 DEF OpenCalls

\* Adding a row, changing one, removing one.
LEMMA RowWritesKeep ==
  ASSUME MInv, NEW r \in Calls, WriteAdd(r) \/ WriteChange(r)
  PROVE  MInv'
<1> DEFINE c == call[r]
<1>1. c \in OpenCalls /\ c.user \in Users /\ c.at \in Delegations /\ c.op \in {"add", "setRole", "remove"}
  BY CallType DEF WriteAdd, WriteChange
<1>2. Close(r) /\ UNCHANGED <<super, delegation, gone, hollow>>
  BY DEF WriteAdd, WriteChange
<1>3. \A u \in Users, d \in Delegations : ~Covers(call[r], u, d, member[u, d])
  BY <1>1 DEF Covers
<1>4. CASE WriteAdd(r)
  <2>1. CASE c.at \in delegation /\ c.user \notin gone /\ member[c.user, c.at] = None
    <3>1. c.right \in Rights
      BY <1>4, CallType DEF WriteAdd
    <3>2. Row(c.right, "hand") \in Rows \cup {None}
      BY <3>1, RowsType
    <3>3. member' = [member EXCEPT ![<<c.user, c.at>>] = Row(c.right, "hand")]
      BY <1>4, <2>1 DEF WriteAdd
    <3>4. spoiled' = spoiled \cup (IF c.right = "MANAGE" THEN {} ELSE Late(c.user, c.at))
      BY <1>4, <2>1 DEF WriteAdd
    <3>5. spoiled \subseteq spoiled' /\ spoiled' \subseteq Users \X Delegations
      BY <1>1, <3>4 DEF Late, MInv, MemberTypeOK
    <3>6. c.user \in super => Row(c.right, "hand") \in [right : {"MANAGE"}, by : {"hand", "sso"}] \/ <<c.user, c.at>> \in spoiled'
      BY <3>4 DEF Late, Row
    <3> HIDE DEF c
    <3> QED
      BY <1>1, <1>2, <1>3, <2>1, <3>2, <3>3, <3>5, <3>6, WriteKeeps
  <2>2. CASE ~(c.at \in delegation /\ c.user \notin gone /\ member[c.user, c.at] = None)
    <3>1. UNCHANGED <<member, spoiled>>
      BY <1>4, <2>2 DEF WriteAdd
    <3> QED
      BY <1>2, <1>3, <3>1, CloseKeeps
  <2> QED
    BY <2>1, <2>2
<1>5. CASE WriteChange(r)
  <2>1. CASE member[c.user, c.at] # None
    <3> DEFINE old == member[<<c.user, c.at>>]
               row == IF c.op = "remove" THEN None ELSE [old EXCEPT !.right = c.right]
    <3>1. <<c.user, c.at>> \in Users \X Delegations /\ c.at \in delegation
      BY <1>1, <2>1 DEF MInv, MemberTypeOK
    <3>2. old \in Rows
      BY <2>1, <3>1 DEF MInv, MemberTypeOK
    <3>3. c.op # "remove" => c.right \in Rights
      BY <1>1, <1>5, CallType DEF WriteChange
    <3>4. row \in Rows \cup {None}
      BY <3>2, <3>3 DEF Rows
    <3>5. member' = [member EXCEPT ![<<c.user, c.at>>] = row]
      BY <1>5, <2>1, <3>1 DEF WriteChange, MInv, MemberTypeOK
    <3>6. spoiled' = spoiled \cup Late(c.user, c.at)
      BY <1>5, <2>1 DEF WriteChange
    <3>7. spoiled \subseteq spoiled' /\ spoiled' \subseteq Users \X Delegations
      BY <1>1, <3>6 DEF Late, MInv, MemberTypeOK
    <3>8. c.user \in super => <<c.user, c.at>> \in spoiled'
      BY <3>6 DEF Late
    <3> HIDE DEF row, old, c
    <3> QED
      BY <1>1, <1>2, <1>3, <3>1, <3>4, <3>5, <3>7, <3>8, WriteKeeps
  <2>2. CASE member[c.user, c.at] = None
    <3>1. UNCHANGED <<member, spoiled>>
      BY <1>5, <2>2 DEF WriteChange
    <3> QED
      BY <1>2, <1>3, <3>1, CloseKeeps
  <2> QED
    BY <2>1, <2>2
<1> QED
  BY <1>4, <1>5

\* The removal of a user.
LEMMA RemoveUserKeeps ==
  ASSUME MInv, NEW r \in Calls, WriteRemoveUser(r)
  PROVE  MInv'
<1> DEFINE c == call[r]
<1>1. c.user \in Users /\ c.op = "removeUser"
  BY CallType DEF WriteRemoveUser
<1>2. call' = [call EXCEPT ![r] = None] /\ UNCHANGED <<delegation, spoiled>>
  BY DEF WriteRemoveUser, Close, Step
<1>3. gone' = gone \cup {c.user} /\ super' = super \ {c.user} /\ hollow' = (hollow \/ c.user \in super)
  BY DEF WriteRemoveUser
<1>4. member' = [p \in Users \X Delegations |-> IF p[1] = c.user THEN None ELSE member[p]]
  BY DEF WriteRemoveUser
<1>5. member' \in [Users \X Delegations -> Rows \cup {None}]
  BY <1>4 DEF MInv, MemberTypeOK
<1>6. \A p \in Users \X Delegations : p[2] \notin delegation' => member'[p] = None
  BY <1>2, <1>4 DEF MInv, MemberTypeOK
<1>7. super' \subseteq Users /\ gone' \subseteq Users \cup Delegations /\ hollow' \in BOOLEAN /\ SomeSuperAdmin'
  BY <1>1, <1>3 DEF MInv, MemberTypeOK, SomeSuperAdmin
<1>8. \A u \in Users, d \in Delegations : Lacks(u, d)' =>
         /\ Lacks(u, d) /\ member'[u, d] = member[u, d]
         /\ ~Covers(call[r], u, d, member[u, d])
  <2> SUFFICES ASSUME NEW u \in Users, NEW d \in Delegations, Lacks(u, d)'
               PROVE  /\ Lacks(u, d) /\ member'[u, d] = member[u, d]
                      /\ ~Covers(call[r], u, d, member[u, d])
    OBVIOUS
  <2>1. u \in super /\ u # c.user /\ d \in delegation
    BY <1>2, <1>3 DEF Lacks
  <2>2. member'[<<u, d>>] = member[<<u, d>>]
    BY <1>4, <2>1
  <2> QED
    BY <1>1, <2>1, <2>2 DEF Lacks, Right, Covers
<1>9. ~Demotes(None) /\ delegation' \subseteq Delegations /\ spoiled' \subseteq Users \X Delegations /\ spoiled \subseteq spoiled'
  BY <1>2 DEF Demotes, MInv, MemberTypeOK
<1> HIDE DEF c
<1> QED
  BY <1>2, <1>5, <1>6, <1>7, <1>8, <1>9, StepKeeps

\* The flag of a super administrator.
LEMMA FlagKeeps ==
  ASSUME MInv, NEW r \in Calls, WriteFlag(r)
  PROVE  MInv'
<1> DEFINE c == call[r]
<1>1. c # None /\ c.user \in Users /\ c.by \in Users /\ c.op = "toggle" /\ c.promote \in BOOLEAN
  BY CallType DEF WriteFlag
<1>2. UNCHANGED <<delegation, gone, member, spoiled>>
  BY DEF WriteFlag
<1>3. \A u \in Users, d \in Delegations : ~Covers(call[r], u, d, member[u, d])
  BY <1>1 DEF Covers
<1>4. CASE c.user \in gone
  <2>1. Close(r) /\ UNCHANGED <<super, hollow>>
    BY <1>4 DEF WriteFlag
  <2> QED
    BY <1>2, <1>3, <2>1, CloseKeeps
<1>5. CASE c.user \notin gone /\ c.promote
  <2> DEFINE n == [op |-> "read", user |-> c.user]
  <2>1. super' = super \cup {c.user} /\ hollow' = hollow /\ call' = [call EXCEPT ![r] = n]
    BY <1>5 DEF WriteFlag, Step, MInv, MemberTypeOK
  <2>2. n \in OpenCalls \cup {None} /\ ~Demotes(n) /\ n # None
    <3>1. n \in OpenCalls
      BY <1>1 DEF OpenCalls
    <3> QED
      BY <3>1, NotNone DEF Demotes
  <2>3. \A u \in Users, d \in Delegations : Lacks(u, d)' =>
           \/ Covers(n, u, d, member'[u, d])
           \/ /\ Lacks(u, d) /\ member'[u, d] = member[u, d]
              /\ ~Covers(call[r], u, d, member[u, d])
    BY <1>2, <1>3, <2>1, <2>2 DEF Lacks, Right, Covers
  <2>4. super' \subseteq Users /\ SomeSuperAdmin' /\ hollow' \in BOOLEAN
    BY <1>1, <2>1 DEF SomeSuperAdmin, MInv, MemberTypeOK
  <2> HIDE DEF c, n
  <2> QED
    BY <1>2, <2>1, <2>2, <2>3, <2>4, StepKeeps DEF MInv, MemberTypeOK
<1>6. CASE c.user \notin gone /\ ~c.promote
  <2>1. super' = super \ {c.user} /\ hollow' = (hollow \/ c.by \notin super) /\ call' = [call EXCEPT ![r] = None]
    BY <1>6 DEF WriteFlag, Close, Step
  <2>2. c.by # c.user
    BY <1>1, <1>6 DEF MInv, NoSelfDemotion, Demotes
  <2>3. SomeSuperAdmin' /\ super' \subseteq Users /\ hollow' \in BOOLEAN
    BY <2>1, <2>2 DEF MInv, MemberTypeOK, SomeSuperAdmin
  <2>4. \A u \in Users, d \in Delegations : Lacks(u, d)' =>
           /\ Lacks(u, d) /\ member'[u, d] = member[u, d]
           /\ ~Covers(call[r], u, d, member[u, d])
    BY <1>2, <1>3, <2>1 DEF Lacks, Right
  <2>5. ~Demotes(None)
    BY DEF Demotes
  <2> HIDE DEF c
  <2> QED
    BY <1>2, <2>1, <2>3, <2>4, <2>5, StepKeeps DEF MInv, MemberTypeOK
<1> QED
  BY <1>1, <1>4, <1>5, <1>6

\* The sync of a new super administrator: the read.
LEMMA ReadSyncKeeps ==
  ASSUME MInv, NEW r \in Calls, ReadSync(r)
  PROVE  MInv'
<1> DEFINE c == call[r]
           n == [op |-> "sync", user |-> c.user, todo |-> delegation,
                 had |-> {d \in delegation : member[c.user, d] # None},
                 done |-> {d \in delegation : Right(c.user, d) = "MANAGE"}]
<1>1. c # None /\ c.user \in Users /\ c.op = "read"
  BY CallType DEF ReadSync
<1>2. UNCHANGED <<super, delegation, gone, member, spoiled, hollow>>
  BY DEF ReadSync
<1>3. CASE delegation = {}
  <2>1. Close(r)
    BY <1>3 DEF ReadSync
  <2>2. \A u \in Users, d \in Delegations : Lacks(u, d) => ~Covers(call[r], u, d, member[u, d])
    BY <1>3 DEF Lacks
  <2> QED
    BY <1>2, <2>1, <2>2, CloseKeeps
<1>4. CASE delegation # {}
  <2>1. call' = [call EXCEPT ![r] = n]
    BY <1>4 DEF ReadSync, Step
  <2>2. n \in OpenCalls \cup {None} /\ ~Demotes(n) /\ n # None
    <3>1. n \in OpenCalls
      BY <1>1 DEF OpenCalls, MInv, MemberTypeOK
    <3> QED
      BY <3>1, NotNone DEF Demotes
  <2>3. \A u \in Users, d \in Delegations : Lacks(u, d)' =>
           \/ Covers(n, u, d, member'[u, d])
           \/ /\ Lacks(u, d) /\ member'[u, d] = member[u, d]
              /\ ~Covers(call[r], u, d, member[u, d])
    <3> SUFFICES ASSUME NEW u \in Users, NEW d \in Delegations, Lacks(u, d)'
                 PROVE  \/ Covers(n, u, d, member'[u, d])
                        \/ /\ Lacks(u, d) /\ member'[u, d] = member[u, d]
                           /\ ~Covers(call[r], u, d, member[u, d])
      OBVIOUS
    <3>1. Lacks(u, d) /\ member'[u, d] = member[u, d]
      BY <1>2 DEF Lacks, Right
    <3>2. CASE u = c.user
      <4>1. d \in n.todo \ n.done
        BY <3>1, <3>2 DEF Lacks
      <4>2. n.op = "sync" /\ n.user = u
        BY <3>2
      <4> QED
        BY <2>2, <4>1, <4>2 DEF Covers
    <3>3. CASE u # c.user
      BY <1>1, <3>1, <3>3 DEF Covers
    <3> QED
      BY <3>2, <3>3
  <2> HIDE DEF c, n
  <2> QED
    BY <1>2, <2>1, <2>2, <2>3, StepKeeps DEF MInv, MemberTypeOK, SomeSuperAdmin
<1> QED
  BY <1>3, <1>4

\* The sync of a new super administrator: one delegation.
LEMMA SyncOneKeeps ==
  ASSUME MInv, NEW r \in Calls, NEW d0 \in Delegations, SyncOne(r, d0)
  PROVE  MInv'
<1> DEFINE c    == call[r]
           rest == c.todo \ {d0}
           fits == (member[c.user, d0] # None) = (d0 \in c.had) /\ d0 \in delegation /\ c.user \notin gone
           old  == member[<<c.user, d0>>]
           row  == IF d0 \in c.done THEN old
                   ELSE IF old = None THEN Row("MANAGE", "hand") ELSE [old EXCEPT !.right = "MANAGE"]
           n    == IF rest = {} THEN None ELSE [c EXCEPT !.todo = rest]
<1>1. /\ c # None /\ c \in OpenCalls /\ c.user \in Users /\ c.op = "sync"
      /\ c.todo \subseteq Delegations /\ c.had \subseteq Delegations /\ c.done \subseteq Delegations
  BY CallType DEF SyncOne
<1>2. UNCHANGED <<super, delegation, gone, hollow>>
  BY DEF SyncOne
<1>3. CASE d0 \in c.done \/ fits
  <2>1. call' = [call EXCEPT ![r] = n] /\ spoiled' = spoiled
    BY <1>3 DEF SyncOne, Close, Step
  <2>2. old \in Rows \cup {None} /\ <<c.user, d0>> \in Users \X Delegations
    BY <1>1 DEF MInv, MemberTypeOK
  <2>3. member' = [member EXCEPT ![<<c.user, d0>>] = row]
    BY <1>3, <2>2 DEF SyncOne, MInv, MemberTypeOK
  <2>4. row \in Rows \cup {None} /\ (d0 \notin c.done => row \in Rows /\ row.right = "MANAGE")
    <3>1. Row("MANAGE", "hand") \in Rows /\ Row("MANAGE", "hand").right = "MANAGE"
      BY RowsType DEF Row, Rights
    <3>2. old # None => [old EXCEPT !.right = "MANAGE"] \in Rows /\ [old EXCEPT !.right = "MANAGE"].right = "MANAGE"
      BY <2>2 DEF Rows, Rights
    <3> QED
      BY <2>2, <3>1, <3>2
  <2>5. n \in OpenCalls \cup {None} /\ ~Demotes(n)
    <3>1. c \in [op : {"sync"}, user : Users, todo : SUBSET Delegations, had : SUBSET Delegations, done : SUBSET Delegations]
      BY <1>1 DEF OpenCalls
    <3>2. [c EXCEPT !.todo = rest] \in OpenCalls /\ [c EXCEPT !.todo = rest].op = "sync"
      BY <1>1, <3>1 DEF OpenCalls
    <3> QED
      BY <3>2 DEF Demotes
  <2>6. member' \in [Users \X Delegations -> Rows \cup {None}]
    BY <2>3, <2>4 DEF MInv, MemberTypeOK
  <2>7. \A p \in Users \X Delegations : p[2] \notin delegation' => member'[p] = None
    <3> SUFFICES ASSUME NEW p \in Users \X Delegations, p[2] \notin delegation' PROVE member'[p] = None
      OBVIOUS
    <3>1. member[p] = None
      BY <1>2 DEF MInv, MemberTypeOK
    <3>2. CASE p = <<c.user, d0>>
      <4>1. d0 \notin delegation
        BY <1>2, <3>2
      <4>2. d0 \in c.done
        BY <1>3, <4>1
      <4>3. member'[p] = old
        BY <2>2, <2>3, <2>6, <3>2, <4>2 DEF MInv, MemberTypeOK
      <4> QED
        BY <3>1, <3>2, <4>3
    <3>3. CASE p # <<c.user, d0>>
      BY <2>3, <3>1, <3>3 DEF MInv, MemberTypeOK
    <3> QED
      BY <3>2, <3>3
  <2>8. ASSUME NEW u \in Users, NEW d \in Delegations, Lacks(u, d)', ~Covers(n, u, d, member'[u, d])
        PROVE  /\ Lacks(u, d) /\ member'[u, d] = member[u, d]
               /\ ~Covers(call[r], u, d, member[u, d])
    <3>1. u \in super /\ d \in delegation /\ Right(u, d)' # "MANAGE"
      BY <1>2, <2>8 DEF Lacks
    <3>2. CASE <<u, d>> = <<c.user, d0>>
      <4>1. member'[<<u, d>>] = row
        BY <2>2, <2>3, <3>2 DEF MInv, MemberTypeOK
      <4>2. d0 \in c.done
        <5>1. SUFFICES ASSUME d0 \notin c.done PROVE FALSE
          OBVIOUS
        <5>2. row # None /\ row.right = "MANAGE"
          BY <2>4, <5>1, NotNone
        <5> QED
          BY <3>1, <4>1, <5>2 DEF Right
      <4>3. row = old /\ old = member[<<u, d>>]
        BY <3>2, <4>2
      <4> HIDE DEF row, old
      <4> QED
        BY <1>1, <3>1, <3>2, <4>1, <4>2, <4>3 DEF Lacks, Right, Covers
    <3>3. CASE <<u, d>> # <<c.user, d0>>
      <4>1. member'[<<u, d>>] = member[<<u, d>>]
        BY <2>3, <3>3 DEF MInv, MemberTypeOK
      <4>2. ~Covers(call[r], u, d, member[u, d])
        <5>1. SUFFICES ASSUME c.user = u, d \in c.todo \ c.done PROVE FALSE
          BY <1>1 DEF Covers
        <5>2. d # d0 /\ d \in rest
          BY <3>3, <5>1
        <5>3. n = [c EXCEPT !.todo = rest]
          BY <5>2
        <5>4. n.op = "sync" /\ n.user = u /\ n.todo = rest /\ n.done = c.done
          <6>1. c \in [op : {"sync"}, user : Users, todo : SUBSET Delegations, had : SUBSET Delegations, done : SUBSET Delegations]
            BY <1>1 DEF OpenCalls
          <6> QED
            BY <5>1, <5>3, <6>1
        <5>5. n # None
          <6>1. [c EXCEPT !.todo = rest] \in OpenCalls
            <7>1. c \in [op : {"sync"}, user : Users, todo : SUBSET Delegations, had : SUBSET Delegations, done : SUBSET Delegations]
              BY <1>1 DEF OpenCalls
            <7> QED
              BY <1>1, <7>1 DEF OpenCalls
          <6> QED
            BY <5>3, <6>1, NotNone
        <5> HIDE DEF n
        <5> QED
          BY <2>8, <5>1, <5>2, <5>4, <5>5 DEF Covers
      <4> QED
        BY <3>1, <4>1, <4>2 DEF Lacks, Right
    <3> QED
      BY <3>2, <3>3
  <2> HIDE DEF c, n, row, old, fits, rest
  <2> QED
    BY <1>2, <2>1, <2>5, <2>6, <2>7, <2>8, StepKeeps DEF MInv, MemberTypeOK, SomeSuperAdmin
<1>4. CASE ~(d0 \in c.done \/ fits)
  <2>1. call' = [call EXCEPT ![r] = None] /\ spoiled' = spoiled \cup ({c.user} \X (c.todo \ c.done)) /\ UNCHANGED member
    BY <1>4 DEF SyncOne, Close, Step
  <2>2. spoiled \subseteq spoiled' /\ spoiled' \subseteq Users \X Delegations
    BY <1>1, <2>1 DEF MInv, MemberTypeOK
  <2>3. \A u \in Users, d \in Delegations : Lacks(u, d)' =>
           \/ <<u, d>> \in spoiled'
           \/ /\ Lacks(u, d) /\ member'[u, d] = member[u, d]
              /\ ~Covers(call[r], u, d, member[u, d])
    BY <1>1, <1>2, <2>1 DEF Lacks, Right, Covers
  <2>4. ~Demotes(None)
    BY DEF Demotes
  <2> HIDE DEF c, fits
  <2> QED
    BY <1>2, <2>1, <2>2, <2>3, <2>4, StepKeeps DEF MInv, MemberTypeOK, SomeSuperAdmin
<1> QED
  BY <1>3, <1>4

\* A new delegation: its row, and the super administrators that are read after it.
LEMMA CreateKeeps ==
  ASSUME MInv, NEW r \in Calls, NEW d0 \in Delegations, CreateDelegation(r, d0)
  PROVE  MInv'
<1> DEFINE n == [op |-> "created", at |-> d0]
<1>1. /\ d0 \notin delegation /\ delegation' = delegation \cup {d0}
      /\ call[r] = None /\ call' = [call EXCEPT ![r] = n]
      /\ UNCHANGED <<super, gone, member, spoiled, hollow>>
  BY DEF CreateDelegation, Open
<1>2. n \in OpenCalls \cup {None} /\ ~Demotes(n) /\ n # None
  <2>1. n \in OpenCalls
    BY DEF OpenCalls
  <2> QED
    BY <2>1, NotNone DEF Demotes
<1>3. delegation' \subseteq Delegations
  BY <1>1 DEF MInv, MemberTypeOK
<1>4. \A u \in Users, d \in Delegations : Lacks(u, d)' =>
         \/ Covers(n, u, d, member'[u, d])
         \/ /\ Lacks(u, d) /\ member'[u, d] = member[u, d]
            /\ ~Covers(call[r], u, d, member[u, d])
  <2> SUFFICES ASSUME NEW u \in Users, NEW d \in Delegations, Lacks(u, d)'
               PROVE  \/ Covers(n, u, d, member'[u, d])
                      \/ /\ Lacks(u, d) /\ member'[u, d] = member[u, d]
                         /\ ~Covers(call[r], u, d, member[u, d])
    OBVIOUS
  <2>1. CASE d = d0
    <3>1. <<u, d>> \in Users \X Delegations /\ <<u, d>>[2] \notin delegation
      BY <1>1, <2>1
    <3>2. member[<<u, d>>] = None
      BY <3>1 DEF MInv, MemberTypeOK
    <3> QED
      BY <1>1, <1>2, <2>1, <3>2 DEF Covers
  <2>2. CASE d # d0
    BY <1>1, <2>2 DEF Lacks, Right, Covers
  <2> QED
    BY <2>1, <2>2
<1> HIDE DEF n
<1> QED
  BY <1>1, <1>2, <1>3, <1>4, StepKeeps DEF MInv, MemberTypeOK, SomeSuperAdmin

\* A new delegation: the super administrators there are.
LEMMA ReadSupersKeeps ==
  ASSUME MInv, NEW r \in Calls, ReadSupers(r)
  PROVE  MInv'
<1> DEFINE c == call[r]
           n == [op |-> "assign", at |-> c.at, users |-> super]
<1>1. c # None /\ c.at \in Delegations /\ c.op = "created"
  BY CallType DEF ReadSupers
<1>2. UNCHANGED <<super, delegation, gone, member, spoiled, hollow>>
  BY DEF ReadSupers
<1>3. CASE super = {}
  <2>1. Close(r)
    BY <1>3 DEF ReadSupers
  <2>2. \A u \in Users, d \in Delegations : Lacks(u, d) => ~Covers(call[r], u, d, member[u, d])
    BY <1>3 DEF Lacks
  <2> QED
    BY <1>2, <2>1, <2>2, CloseKeeps
<1>4. CASE super # {}
  <2>1. call' = [call EXCEPT ![r] = n]
    BY <1>4 DEF ReadSupers, Step
  <2>2. n \in OpenCalls \cup {None} /\ ~Demotes(n) /\ n # None
    <3>1. n \in OpenCalls
      BY <1>1 DEF OpenCalls, MInv, MemberTypeOK
    <3> QED
      BY <3>1, NotNone DEF Demotes
  <2>3. \A u \in Users, d \in Delegations : Lacks(u, d)' =>
           \/ Covers(n, u, d, member'[u, d])
           \/ /\ Lacks(u, d) /\ member'[u, d] = member[u, d]
              /\ ~Covers(call[r], u, d, member[u, d])
    <3> SUFFICES ASSUME NEW u \in Users, NEW d \in Delegations, Lacks(u, d)'
                 PROVE  \/ Covers(n, u, d, member'[u, d])
                        \/ /\ Lacks(u, d) /\ member'[u, d] = member[u, d]
                           /\ ~Covers(call[r], u, d, member[u, d])
      OBVIOUS
    <3>1. Lacks(u, d) /\ member'[u, d] = member[u, d] /\ u \in super
      BY <1>2 DEF Lacks, Right
    <3>2. CASE d = c.at /\ member[u, d] = None
      <4>1. n.op = "assign" /\ n.at = d /\ u \in n.users
        BY <3>1, <3>2
      <4> QED
        BY <2>2, <3>1, <3>2, <4>1 DEF Covers
    <3>3. CASE ~(d = c.at /\ member[u, d] = None)
      BY <1>1, <3>1, <3>3 DEF Covers
    <3> QED
      BY <3>2, <3>3
  <2> HIDE DEF c, n
  <2> QED
    BY <1>2, <2>1, <2>2, <2>3, StepKeeps DEF MInv, MemberTypeOK, SomeSuperAdmin
<1> QED
  BY <1>3, <1>4

\* A new delegation: the rows of the super administrators.
LEMMA AssignKeeps ==
  ASSUME MInv, NEW r \in Calls, AssignSupers(r)
  PROVE  MInv'
<1> DEFINE c    == call[r]
           lost == c.at \notin delegation \/ c.users \cap gone # {}
<1>1. c # None /\ c.at \in Delegations /\ c.op = "assign" /\ c.users \subseteq Users
  BY CallType DEF AssignSupers
<1>2. UNCHANGED <<super, delegation, gone, hollow>> /\ call' = [call EXCEPT ![r] = None]
  BY DEF AssignSupers, Close, Step
<1>3. ~Demotes(None)
  BY DEF Demotes
<1>4. CASE lost
  <2>1. member' = member /\ spoiled' = spoiled \cup (c.users \X {c.at})
    BY <1>4 DEF AssignSupers
  <2>2. spoiled \subseteq spoiled' /\ spoiled' \subseteq Users \X Delegations
    BY <1>1, <2>1 DEF MInv, MemberTypeOK
  <2>3. \A u \in Users, d \in Delegations : Lacks(u, d)' =>
           \/ <<u, d>> \in spoiled'
           \/ /\ Lacks(u, d) /\ member'[u, d] = member[u, d]
              /\ ~Covers(call[r], u, d, member[u, d])
    BY <1>1, <1>2, <2>1 DEF Lacks, Right, Covers
  <2> HIDE DEF c, lost
  <2> QED
    BY <1>2, <1>3, <2>1, <2>2, <2>3, StepKeeps DEF MInv, MemberTypeOK, SomeSuperAdmin
<1>5. CASE ~lost
  <2> DEFINE R == Row("MANAGE", "hand")
  <2>1. member' = [p \in Users \X Delegations |->
                     IF p[1] \in c.users /\ p[2] = c.at /\ member[p] = None THEN R ELSE member[p]]
    BY <1>5 DEF AssignSupers
  <2>2. spoiled' = spoiled /\ c.at \in delegation
    BY <1>5 DEF AssignSupers
  <2>3. R \in Rows /\ R # None /\ R.right = "MANAGE"
    <3>1. R \in Rows /\ R.right = "MANAGE"
      BY RowsType DEF Row, Rights
    <3> QED
      BY <3>1, NotNone
  <2> HIDE DEF R
  <2>4. member' \in [Users \X Delegations -> Rows \cup {None}]
    BY <2>1, <2>3 DEF MInv, MemberTypeOK
  <2>5. \A p \in Users \X Delegations : p[2] \notin delegation' => member'[p] = None
    BY <1>2, <2>1, <2>2 DEF MInv, MemberTypeOK
  <2>6. \A u \in Users, d \in Delegations : Lacks(u, d)' =>
           /\ Lacks(u, d) /\ member'[u, d] = member[u, d]
           /\ ~Covers(call[r], u, d, member[u, d])
    <3> SUFFICES ASSUME NEW u \in Users, NEW d \in Delegations, Lacks(u, d)'
                 PROVE  /\ Lacks(u, d) /\ member'[u, d] = member[u, d]
                        /\ ~Covers(call[r], u, d, member[u, d])
      OBVIOUS
    <3>1. u \in super /\ d \in delegation /\ Right(u, d)' # "MANAGE"
      BY <1>2 DEF Lacks
    <3>2. CASE u \in c.users /\ d = c.at /\ member[<<u, d>>] = None
      <4>1. member'[<<u, d>>] = R
        BY <2>1, <3>2
      <4> QED
        BY <2>3, <3>1, <4>1 DEF Right
    <3>3. CASE ~(u \in c.users /\ d = c.at /\ member[<<u, d>>] = None)
      <4>1. member'[<<u, d>>] = member[<<u, d>>]
        BY <2>1, <3>3
      <4> QED
        BY <1>1, <3>1, <3>3, <4>1 DEF Lacks, Right, Covers
    <3> QED
      BY <3>2, <3>3
  <2> HIDE DEF c, lost
  <2> QED
    BY <1>2, <1>3, <2>2, <2>4, <2>5, <2>6, StepKeeps DEF MInv, MemberTypeOK, SomeSuperAdmin
<1> QED
  BY <1>4, <1>5

\* The removal of a delegation.
LEMMA RemoveDelegationKeeps ==
  ASSUME MInv, NEW d0 \in Delegations, NEW sited, RemoveDelegation(d0, sited)
  PROVE  MInv'
<1>1. /\ delegation' = delegation \ {d0} /\ gone' = gone \cup {d0}
      /\ member' = [p \in Users \X Delegations |-> IF p[2] = d0 THEN None ELSE member[p]]
      /\ UNCHANGED <<super, call, spoiled, hollow>>
  BY DEF RemoveDelegation
<1>2. MemberTypeOK'
  <2>1. member' \in [Users \X Delegations -> Rows \cup {None}]
    BY <1>1 DEF MInv, MemberTypeOK
  <2>2. \A p \in Users \X Delegations : p[2] \notin delegation' => member'[p] = None
    BY <1>1 DEF MInv, MemberTypeOK
  <2> QED
    BY <1>1, <2>1, <2>2 DEF MInv, MemberTypeOK
<1>3. SomeSuperAdmin' /\ NoSelfDemotion'
  BY <1>1 DEF MInv, SomeSuperAdmin, NoSelfDemotion
<1>4. Covered'
  <2> SUFFICES ASSUME NEW u \in Users, NEW d \in Delegations, Lacks(u, d)'
               PROVE  <<u, d>> \in spoiled' \/ \E r \in Calls : Covers(call'[r], u, d, member'[u, d])
    BY DEF Covered
  <2>1. u \in super /\ d \in delegation /\ d # d0
    BY <1>1 DEF Lacks
  <2>2. member'[<<u, d>>] = member[<<u, d>>]
    BY <1>1, <2>1
  <2>3. Lacks(u, d)
    BY <2>1, <2>2 DEF Lacks, Right
  <2> QED
    BY <1>1, <2>2, <2>3 DEF MInv, Covered
<1> QED
  BY <1>2, <1>3, <1>4 DEF MInv

\* A login: what it takes from a super administrator, or gives him, is noted.
LEMMA SsoKeeps ==
  ASSUME MInv, NEW r \in Calls, NEW c \in OpenCalls \cup {None}, ~Demotes(c), call' = [call EXCEPT ![r] = c],
         \A u \in Users, d \in Delegations : ~Covers(call[r], u, d, member[u, d]),
         UNCHANGED <<super, delegation, gone, hollow>>,
         member' \in [Users \X Delegations -> Rows \cup {None}],
         \A p \in Users \X Delegations : p[2] \notin delegation => member'[p] = None,
         spoiled' = spoiled \cup {p \in super \X Delegations : member'[p] # member[p]}
  PROVE  MInv'
<1>1. \A u \in Users, d \in Delegations : Lacks(u, d)' =>
         \/ <<u, d>> \in spoiled'
         \/ /\ Lacks(u, d) /\ member'[u, d] = member[u, d]
            /\ ~Covers(call[r], u, d, member[u, d])
  <2> SUFFICES ASSUME NEW u \in Users, NEW d \in Delegations, Lacks(u, d)', <<u, d>> \notin spoiled'
               PROVE  Lacks(u, d) /\ member'[u, d] = member[u, d]
    OBVIOUS
  <2>1. u \in super /\ d \in delegation
    BY DEF Lacks
  <2>2. <<u, d>> \in super \X Delegations
    BY <2>1
  <2>3. member'[<<u, d>>] = member[<<u, d>>]
    BY <2>2
  <2> QED
    BY <2>1, <2>3 DEF Lacks, Right
<1>2. spoiled \subseteq spoiled' /\ spoiled' \subseteq Users \X Delegations
  BY DEF MInv, MemberTypeOK
<1>3. /\ super' \subseteq Users /\ delegation' \subseteq Delegations /\ gone' \subseteq Users \cup Delegations
      /\ hollow' \in BOOLEAN /\ SomeSuperAdmin'
  BY DEF MInv, MemberTypeOK, SomeSuperAdmin
<1>4. \A p \in Users \X Delegations : p[2] \notin delegation' => member'[p] = None
  OBVIOUS
<1>5. /\ MInv /\ r \in Calls /\ c \in OpenCalls \cup {None} /\ ~Demotes(c) /\ call' = [call EXCEPT ![r] = c]
      /\ member' \in [Users \X Delegations -> Rows \cup {None}]
  OBVIOUS
<1> QED
  BY ONLY <1>1, <1>2, <1>3, <1>4, <1>5, StepKeeps

\* The first half of a login.
LEMMA StartSsoKeeps ==
  ASSUME MInv, NEW r \in Calls, NEW u0 \in Users, NEW scopes \in Scopes, StartSso(r, u0, scopes)
  PROVE  MInv'
<1> DEFINE n == [op |-> "sso", user |-> u0, scopes |-> scopes]
<1>1. scopes \in UNION {[S -> Rights] : S \in SUBSET Delegations}
  BY GivenAssumption DEF Scopes, MInv, MemberTypeOK
<1>2. n \in OpenCalls \cup {None} /\ ~Demotes(n)
  BY <1>1 DEF OpenCalls, Demotes
<1>3. call[r] = None /\ call' = [call EXCEPT ![r] = n] /\ UNCHANGED <<super, delegation, gone, hollow>>
  BY DEF StartSso, Open
<1>4. member' = [p \in Users \X Delegations |->
                   IF p[1] = u0 /\ member[p] # None /\ member[p].by = "sso" THEN None ELSE member[p]]
  BY DEF StartSso
<1>5. member' \in [Users \X Delegations -> Rows \cup {None}]
  BY <1>4 DEF MInv, MemberTypeOK
<1>6. \A p \in Users \X Delegations : p[2] \notin delegation => member'[p] = None
  BY <1>4 DEF MInv, MemberTypeOK
<1>7. spoiled' = spoiled \cup {p \in super \X Delegations : member'[p] # member[p]}
  BY DEF StartSso
<1>8. \A u \in Users, d \in Delegations : ~Covers(call[r], u, d, member[u, d])
  BY <1>3 DEF Covers
<1> HIDE DEF n
<1> QED
  BY <1>2, <1>3, <1>5, <1>6, <1>7, <1>8, SsoKeeps

\* The second half of a login.
LEMMA FinishSsoKeeps ==
  ASSUME MInv, NEW r \in Calls, FinishSso(r)
  PROVE  MInv'
<1> DEFINE c   == call[r]
           new == [p \in Users \X Delegations |->
                     IF p[1] = c.user /\ p[2] \in DOMAIN c.scopes /\ member[p] = None
                     THEN Row(c.scopes[p[2]], "sso") ELSE member[p]]
<1>1. c # None /\ c \in OpenCalls /\ c.op = "sso"
  BY CallType DEF FinishSso
<1>2. c.scopes \in UNION {[S -> Rights] : S \in SUBSET Delegations}
  BY <1>1 DEF OpenCalls
<1>3. PICK S \in SUBSET Delegations : c.scopes \in [S -> Rights]
  BY <1>2
<1>4. call' = [call EXCEPT ![r] = None] /\ UNCHANGED <<super, delegation, gone, hollow>>
  BY DEF FinishSso, Close, Step
<1>5. member' = IF DOMAIN c.scopes \subseteq delegation /\ c.user \notin gone THEN new ELSE member
  BY DEF FinishSso
<1>6. new \in [Users \X Delegations -> Rows \cup {None}]
  <2> SUFFICES ASSUME NEW p \in Users \X Delegations
               PROVE  (IF p[1] = c.user /\ p[2] \in DOMAIN c.scopes /\ member[p] = None
                       THEN Row(c.scopes[p[2]], "sso") ELSE member[p]) \in Rows \cup {None}
    OBVIOUS
  <2>1. p[2] \in DOMAIN c.scopes => c.scopes[p[2]] \in Rights
    BY <1>3
  <2>2. p[2] \in DOMAIN c.scopes => Row(c.scopes[p[2]], "sso") \in Rows
    BY <2>1, RowsType
  <2>3. member[p] \in Rows \cup {None}
    BY DEF MInv, MemberTypeOK
  <2> QED
    BY <2>2, <2>3
<1>7. member' \in [Users \X Delegations -> Rows \cup {None}]
  BY <1>5, <1>6 DEF MInv, MemberTypeOK
<1>8. \A p \in Users \X Delegations : p[2] \notin delegation => member'[p] = None
  <2> SUFFICES ASSUME NEW p \in Users \X Delegations, p[2] \notin delegation PROVE member'[p] = None
    OBVIOUS
  <2>1. member[p] = None
    BY DEF MInv, MemberTypeOK
  <2>2. DOMAIN c.scopes \subseteq delegation => new[p] = None
    BY <2>1
  <2> QED
    BY <1>5, <2>1, <2>2
<1>9. spoiled' = spoiled \cup {p \in super \X Delegations : member'[p] # member[p]}
  BY DEF FinishSso
<1>10. \A u \in Users, d \in Delegations : ~Covers(call[r], u, d, member[u, d])
  BY <1>1 DEF Covers
<1>11. ~Demotes(None) /\ None \in OpenCalls \cup {None}
  BY DEF Demotes
<1> HIDE DEF c, new
<1> QED
  BY <1>4, <1>7, <1>8, <1>9, <1>10, <1>11, SsoKeeps

\* A restart ends every request, and what they covered is noted.
LEMMA CrashKeeps ==
  ASSUME MInv, Crash
  PROVE  MInv'
<1> DEFINE left(c) == IF c = None THEN {}
                      ELSE IF c.op = "read" THEN {c.user} \X Delegations
                      ELSE IF c.op = "sync" THEN {c.user} \X (c.todo \ c.done)
                      ELSE IF c.op \in {"created", "assign"} THEN Users \X {c.at}
                      ELSE {}
<1>1. UNCHANGED <<super, delegation, gone, member, hollow>> /\ call' = [r \in Calls |-> None]
  BY DEF Crash
<1>2. spoiled' = spoiled \cup UNION {left(call[r]) : r \in Calls}
  BY DEF Crash
<1>3. \A r \in Calls : left(call[r]) \subseteq Users \X Delegations
  <2> SUFFICES ASSUME NEW r \in Calls, call[r] # None PROVE left(call[r]) \subseteq Users \X Delegations
    OBVIOUS
  <2> QED
    BY CallType
<1>4. \A r \in Calls, u \in Users, d \in Delegations : Covers(call[r], u, d, member[u, d]) => <<u, d>> \in left(call[r])
  BY DEF Covers
<1> HIDE DEF left
<1>5. spoiled \subseteq spoiled' /\ spoiled' \subseteq Users \X Delegations
  BY <1>2, <1>3 DEF MInv, MemberTypeOK
<1>6. MemberTypeOK'
  BY <1>1, <1>5 DEF MInv, MemberTypeOK
<1>7. SomeSuperAdmin' /\ NoSelfDemotion'
  BY <1>1 DEF MInv, SomeSuperAdmin, NoSelfDemotion, Demotes
<1>8. Covered'
  <2> SUFFICES ASSUME NEW u \in Users, NEW d \in Delegations, Lacks(u, d)' PROVE <<u, d>> \in spoiled'
    BY DEF Covered
  <2>1. Lacks(u, d)
    BY <1>1 DEF Lacks, Right
  <2>2. CASE <<u, d>> \in spoiled
    BY <1>5, <2>2
  <2>3. CASE \E r \in Calls : Covers(call[r], u, d, member[u, d])
    BY <1>2, <1>4, <2>3
  <2> QED
    BY <2>1, <2>2, <2>3 DEF MInv, Covered
<1> QED
  BY <1>6, <1>7, <1>8 DEF MInv
-----------------------------------------------------------------------------
\* Every step of Membership.
LEMMA MemberNextKeeps ==
  ASSUME MInv, NEW sited, MemberNext(sited)
  PROVE  MInv'
<1>1. CASE \E r \in Calls, q \in Users, u \in Users, d \in Delegations, right \in Given : CheckAdd(r, q, u, d, right)
  BY <1>1, CheckAddKeeps
<1>2. CASE \E r \in Calls, q \in Users, u \in Users, d \in Delegations : CheckChange(r, "remove", q, u, d, None)
  BY <1>2, CheckRemoveKeeps
<1>3. CASE \E r \in Calls, q \in Users, u \in Users, d \in Delegations, right \in Given : CheckChange(r, "setRole", q, u, d, right)
  BY <1>3, CheckSetRoleKeeps
<1>4. CASE \E r \in Calls, q \in Users, u \in Users : CheckRemoveUser(r, q, u)
  BY <1>4, CheckRemoveUserKeeps
<1>5. CASE \E r \in Calls, q \in Users, u \in Users, p \in BOOLEAN : CheckToggle(r, q, u, p)
  BY <1>5, CheckToggleKeeps
<1>6. CASE \E r \in Calls : WriteAdd(r) \/ WriteChange(r)
  BY <1>6, RowWritesKeep
<1>7. CASE \E r \in Calls : WriteRemoveUser(r)
  BY <1>7, RemoveUserKeeps
<1>8. CASE \E r \in Calls : WriteFlag(r)
  BY <1>8, FlagKeeps
<1>9. CASE \E r \in Calls : ReadSync(r)
  BY <1>9, ReadSyncKeeps
<1>10. CASE \E r \in Calls : ReadSupers(r)
  BY <1>10, ReadSupersKeeps
<1>11. CASE \E r \in Calls : AssignSupers(r)
  BY <1>11, AssignKeeps
<1>12. CASE \E r \in Calls : FinishSso(r)
  BY <1>12, FinishSsoKeeps
<1>13. CASE \E r \in Calls, d \in Delegations : SyncOne(r, d)
  BY <1>13, SyncOneKeeps
<1>14. CASE \E r \in Calls, d \in Delegations : CreateDelegation(r, d)
  BY <1>14, CreateKeeps
<1>15. CASE \E d \in Delegations : RemoveDelegation(d, sited)
  BY <1>15, RemoveDelegationKeeps
<1>16. CASE \E r \in Calls, u \in Users, x \in Scopes : StartSso(r, u, x)
  BY <1>16, StartSsoKeeps
<1>17. CASE Crash
  BY <1>17, CrashKeeps
<1> QED
  BY <1>1, <1>2, <1>3, <1>4, <1>5, <1>6, <1>7, <1>8, <1>9, <1>10, <1>11, <1>12, <1>13, <1>14, <1>15, <1>16, <1>17
  DEF MemberNext

\* A step that touches none of it.
LEMMA RestKeeps ==
  ASSUME MInv, UNCHANGED memberRest
  PROVE  MInv'
<1>1. MemberTypeOK' /\ SomeSuperAdmin' /\ NoSelfDemotion'
  BY DEF memberRest, MInv, MemberTypeOK, SomeSuperAdmin, NoSelfDemotion, Demotes
<1>2. Covered'
  BY DEF memberRest, MInv, Covered, Lacks, Right
<1> QED
  BY <1>1, <1>2 DEF MInv

\* Every step of Access is one of Membership or touches none of it.
LEMMA NextIsMember == [Next]_vars => (\E sited : MemberNext(sited)) \/ UNCHANGED memberRest
<1> SUFFICES ASSUME [Next]_vars PROVE (\E sited : MemberNext(sited)) \/ UNCHANGED memberRest
  OBVIOUS
<1>1. CASE MemberStep
  BY <1>1 DEF MemberStep
<1>2. ASSUME NEW s \in Sites, NEW d \in Delegations, MoveSite(s, d) PROVE UNCHANGED memberRest
  BY <1>2 DEF MoveSite, Change, memberRest
<1>3. ASSUME NEW u \in Users, NEW s \in Sites, NEW r \in Resources, NEW e, NEW p,
             CreateOverride(u, s, r, e, p) \/ RemoveOverride(u, s, r) \/ Expire(u, s, r)
      PROVE  UNCHANGED memberRest
  BY <1>3 DEF CreateOverride, RemoveOverride, Expire, Change, memberRest
<1>4. ASSUME NEW u \in Users, NEW s \in Sites, NEW r \in Resources, NEW e \in Editors, NEW c, CheckEdit(e, u, s, r, c)
      PROVE  UNCHANGED memberRest
  BY <1>4 DEF CheckEdit, Change, memberRest
<1>5. ASSUME NEW e \in Editors, WriteEdit(e) PROVE UNCHANGED memberRest
  BY <1>5 DEF WriteEdit, memberVars, memberRest
<1>6. ASSUME NEW a \in Askers, NEW k, NEW u, NEW s, NEW r, Start(a, k, u, s, r) PROVE UNCHANGED memberRest
  BY <1>6 DEF Start, memberVars, memberRest
<1>7. ASSUME NEW a \in Askers, NEW d,
             ReadUser(a) \/ ReadOverrides(a) \/ ReadSite(a) \/ ReadRights(a) \/ ReadSites(a) \/ ReadMember(a, d)
      PROVE  UNCHANGED memberRest
  BY <1>7 DEF ReadUser, ReadOverrides, ReadSite, ReadRights, ReadSites, ReadMember, memberVars, memberRest
<1>8. CASE UNCHANGED vars
  BY <1>8 DEF vars, memberVars, memberRest
<1> QED
  BY <1>1, <1>2, <1>3, <1>4, <1>5, <1>6, <1>7, <1>8 DEF Next

\* The invariant holds of every run.
THEOREM MInvHolds == Spec => []MInv
<1>1. Init => MInv
  BY InitMInv DEF Init
<1>2. MInv /\ [Next]_vars => MInv'
  BY NextIsMember, MemberNextKeeps, RestKeeps
<1> QED
  BY <1>1, <1>2, PTL DEF Spec

\* The rows, requests and flags stay of their type; a row is of a delegation that exists.
THEOREM MemberTypeHolds == Spec => []MemberTypeOK
<1>1. MInv => MemberTypeOK
  BY DEF MInv
<1> QED
  BY <1>1, MInvHolds, PTL

\* users.service.ts:396 and :277: a super administrator is left, unless the history names one of the two races.
THEOREM SomeSuperAdminHolds == Spec => []SomeSuperAdmin
<1>1. MInv => SomeSuperAdmin
  BY DEF MInv
<1> QED
  BY <1>1, MInvHolds, PTL

\* users.service.ts:440: when no request is open, a super administrator manages every delegation, but for the pairs named as spoiled.
THEOREM SuperAdminManagesAllHolds == Spec => []SuperAdminManagesAll
<1>1. MInv => SuperAdminManagesAll
  <2> SUFFICES ASSUME MInv, \A r \in Calls : call[r] = None, NEW u \in super, NEW d \in delegation, Right(u, d) # "MANAGE"
               PROVE  <<u, d>> \in spoiled
    BY DEF SuperAdminManagesAll
  <2>1. u \in Users /\ d \in Delegations /\ Lacks(u, d)
    BY DEF Lacks, MInv, MemberTypeOK
  <2>2. \A r \in Calls : ~Covers(call[r], u, d, member[u, d])
    BY DEF Covers
  <2> QED
    BY <2>1, <2>2 DEF MInv, Covered
<1> QED
  BY <1>1, MInvHolds, PTL
-----------------------------------------------------------------------------
(* Overrides. *)

\* What the update of an override was checked on leaves an ALLOW its permission.
Sound(c) ==
  (IF c.effect = "keep" THEN c.read.effect ELSE c.effect) = "ALLOW" =>
     c.permission \in {"READ", "WRITE"} \/ c.read.permission # None
EditsChecked == \A e \in Editors : edit[e] # None => Sound(edit[e])
OInv == OverrideTypeOK /\ EditsChecked /\ AllowHasPermission

\* An override is written by its own action only; the others leave it, or remove it with its user.
LEMMA OverrideLeft ==
  ASSUME OInv,
         override' \in [Keys -> Override \cup {None}], edit' \in [Editors -> Edit \cup {None}],
         \A k \in Keys : override'[k] = None \/ (override'[k] = override[k] /\ (k \in bare => k \in bare')),
         \A e \in Editors : edit'[e] = None \/ edit'[e] = edit[e]
  PROVE  OInv'
<1>1. OverrideTypeOK'
  BY DEF OverrideTypeOK
<1>2. EditsChecked'
  BY DEF EditsChecked, OInv
<1>3. AllowHasPermission'
  BY DEF AllowHasPermission, OInv, OverrideTypeOK
<1> QED
  BY <1>1, <1>2, <1>3 DEF OInv

\* Creating, removing or running out keeps it.
LEMMA OverrideMoveKeeps ==
  ASSUME OInv, NEW u \in Users, NEW s \in Sites, NEW r \in Resources,
         \/ \E e \in {"ALLOW", "DENY"}, p \in {"READ", "WRITE", None} : CreateOverride(u, s, r, e, p)
         \/ RemoveOverride(u, s, r) \/ Expire(u, s, r)
  PROVE  OInv'
<1> DEFINE k == <<u, s, r>>
<1>0. k \in Keys
  BY DEF Keys
<1>1. ASSUME NEW e \in {"ALLOW", "DENY"}, NEW p \in {"READ", "WRITE", None}, CreateOverride(u, s, r, e, p) PROVE OInv'
  <2>1. [effect |-> e, permission |-> p, expired |-> FALSE] \in Override
    BY DEF Override
  <2>2. override' = [override EXCEPT ![k] = [effect |-> e, permission |-> p, expired |-> FALSE]]
        /\ UNCHANGED edit /\ bare' = bare \ {k} /\ ((e = "ALLOW") = (p # None))
    BY <1>1 DEF CreateOverride
  <2>3. OverrideTypeOK'
    BY <2>1, <2>2 DEF OverrideTypeOK, OInv
  <2>4. EditsChecked'
    BY <2>2 DEF EditsChecked, OInv
  <2>5. AllowHasPermission'
    <3>1. override'[k] = [effect |-> e, permission |-> p, expired |-> FALSE]
      BY <1>0, <2>2 DEF OInv, OverrideTypeOK
    <3>2. override'[k].effect = e /\ override'[k].permission = p
      BY <3>1
    <3>3. \A j \in Keys : j # k => override'[j] = override[j] /\ (j \in bare => j \in bare')
      BY <2>2 DEF OInv, OverrideTypeOK
    <3>4. \A j \in Keys : override'[j] # None /\ override'[j].effect = "ALLOW" /\ j \notin bare' => override'[j].permission # None
      BY <2>2, <3>2, <3>3 DEF AllowHasPermission, OInv, OverrideTypeOK
    <3> QED
      BY <3>4, <2>3 DEF AllowHasPermission, OverrideTypeOK
  <2> QED
    BY <2>3, <2>4, <2>5 DEF OInv
<1>2. CASE RemoveOverride(u, s, r)
  <2>1. override' = [override EXCEPT ![k] = None] /\ UNCHANGED bare /\ Touch(k, TRUE)
    BY <1>2 DEF RemoveOverride
  <2>2. ASSUME NEW e \in Editors
        PROVE  edit'[e] \in Edit \cup {None} /\ (edit'[e] # None => Sound(edit'[e]))
    <3>1. edit'[e] = edit[e] \/ (edit[e] # None /\ edit'[e] = [edit[e] EXCEPT !.lost = TRUE])
      BY <2>1 DEF Touch
    <3>2. edit[e] # None => edit[e] \in Edit /\ Sound(edit[e])
      BY DEF OInv, OverrideTypeOK, EditsChecked
    <3> QED
      BY <3>1, <3>2 DEF Edit, Sound, OInv, OverrideTypeOK
  <2>3. edit' \in [Editors -> Edit \cup {None}] /\ EditsChecked'
    BY <2>1, <2>2 DEF Touch, EditsChecked
  <2>4. OverrideTypeOK' /\ AllowHasPermission'
    BY <2>1, <2>3 DEF OverrideTypeOK, OInv, AllowHasPermission
  <2> QED
    BY <2>3, <2>4 DEF OInv
<1>3. CASE Expire(u, s, r)
  <2>1. override' = [override EXCEPT ![k].expired = TRUE] /\ UNCHANGED bare /\ Touch(k, FALSE) /\ override[k] # None
    BY <1>3 DEF Expire, Applies
  <2>2. ASSUME NEW e \in Editors
        PROVE  edit'[e] \in Edit \cup {None} /\ (edit'[e] # None => Sound(edit'[e]))
    <3>1. edit'[e] = edit[e] \/ (edit[e] # None /\ edit'[e] = [edit[e] EXCEPT !.read.expired = TRUE])
      BY <2>1 DEF Touch
    <3>2. edit[e] # None => edit[e] \in Edit /\ Sound(edit[e])
      BY DEF OInv, OverrideTypeOK, EditsChecked
    <3>3. ASSUME NEW c \in Edit, Sound(c)
          PROVE  [c EXCEPT !.read.expired = TRUE] \in Edit /\ Sound([c EXCEPT !.read.expired = TRUE])
      <4>1. c.read \in Override /\ [c.read EXCEPT !.expired = TRUE] \in Override
            /\ [c.read EXCEPT !.expired = TRUE].effect = c.read.effect
            /\ [c.read EXCEPT !.expired = TRUE].permission = c.read.permission
        BY <3>3 DEF Edit, Override
      <4> DEFINE next == [c EXCEPT !.read.expired = TRUE]
      <4>2. next \in Edit /\ next.effect = c.effect /\ next.permission = c.permission
            /\ next.read = [c.read EXCEPT !.expired = TRUE]
        BY <3>3, <4>1 DEF Edit
      <4> QED
        BY <3>3, <4>1, <4>2 DEF Sound
    <3> QED
      BY <3>1, <3>2, <3>3 DEF OInv, OverrideTypeOK
  <2>3. edit' \in [Editors -> Edit \cup {None}] /\ EditsChecked'
    BY <2>1, <2>2 DEF Touch, EditsChecked
  <2>4. /\ override[k] \in Override /\ [override[k] EXCEPT !.expired = TRUE] \in Override
        /\ [override[k] EXCEPT !.expired = TRUE].effect = override[k].effect
        /\ [override[k] EXCEPT !.expired = TRUE].permission = override[k].permission
    BY <1>0, <2>1 DEF OInv, OverrideTypeOK, Override
  <2>5. override' = [override EXCEPT ![k] = [override[k] EXCEPT !.expired = TRUE]]
    BY <1>0, <2>1 DEF OInv, OverrideTypeOK
  <2>6. OverrideTypeOK'
    BY <2>3, <2>4, <2>5 DEF OverrideTypeOK, OInv
  <2>7. AllowHasPermission'
    BY <1>0, <2>1, <2>4, <2>5, <2>6 DEF OverrideTypeOK, OInv, AllowHasPermission
  <2> QED
    BY <2>3, <2>6, <2>7 DEF OInv
<1> QED
  BY <1>1, <1>2, <1>3

\* An update that begins has checked what it read.
LEMMA CheckEditKeeps ==
  ASSUME OInv, NEW e \in Editors, NEW u \in Users, NEW s \in Sites, NEW r \in Resources, NEW c \in Changes,
         CheckEdit(e, u, s, r, c)
  PROVE  OInv'
<1> DEFINE row == override[u, s, r]
           new == [key |-> <<u, s, r>>, effect |-> c.effect, permission |-> c.permission, read |-> row, lost |-> FALSE]
<1>1. row # None /\ edit' = [edit EXCEPT ![e] = new] /\ UNCHANGED <<override, bare>>
      /\ ((IF c.effect = "keep" THEN row.effect ELSE c.effect) = "ALLOW" =>
            c.permission \in {"READ", "WRITE"} \/ row.permission # None)
  BY DEF CheckEdit
<1>2. <<u, s, r>> \in Keys /\ row \in Override /\ c \in Fields
  BY <1>1, ChangesAssumption DEF Keys, OInv, OverrideTypeOK
<1>3. new \in Edit
  BY <1>2 DEF Edit, Fields
<1>4. Sound(new)
  BY <1>1 DEF Sound
<1> HIDE DEF new
<1>5. OverrideTypeOK' /\ EditsChecked' /\ AllowHasPermission'
  BY <1>1, <1>3, <1>4 DEF OInv, OverrideTypeOK, EditsChecked, AllowHasPermission
<1> QED
  BY <1>5 DEF OInv

\* An update that is written on the row it was checked on leaves an ALLOW its permission.
LEMMA WriteEditKeeps ==
  ASSUME OInv, NEW e \in Editors, WriteEdit(e)
  PROVE  OInv'
<1> DEFINE c == edit[e]
<1>1. c \in Edit /\ Sound(c) /\ edit' = [edit EXCEPT ![e] = None]
  BY DEF WriteEdit, OInv, OverrideTypeOK, EditsChecked
<1>2. CASE UNCHANGED <<override, bare>>
  BY <1>1, <1>2, OverrideLeft DEF OInv, OverrideTypeOK
<1>3. CASE /\ override[c.key] # None /\ override' = [override EXCEPT ![c.key] = Edited(override[c.key], c)]
           /\ bare' = IF c.permission = None \/ override[c.key] # c.read THEN bare \cup {c.key} ELSE bare
  <2>1. c.key \in Keys /\ override[c.key] \in Override
    BY <1>1, <1>3 DEF Edit, OInv, OverrideTypeOK
  <2> DEFINE row == override[c.key]
             new == Edited(row, c)
  <2>2. /\ new \in Override
        /\ new.effect = IF c.effect = "keep" THEN row.effect ELSE c.effect
        /\ new.permission = IF c.permission = "keep" THEN row.permission ELSE IF c.effect = "DENY" THEN None ELSE c.permission
    BY <1>1, <2>1 DEF Edited, Edit, Override
  <2>3. new.effect = "ALLOW" /\ c.key \notin bare' => new.permission # None
    BY <1>1, <1>3, <2>2, SentinelAssumption DEF Sound, Edit
  <2> HIDE DEF new
  <2>4. override' = [override EXCEPT ![c.key] = new] /\ bare \subseteq bare'
    BY <1>3 DEF new
  <2>5. OverrideTypeOK'
    BY <1>1, <2>1, <2>2, <2>4 DEF OInv, OverrideTypeOK
  <2>6. EditsChecked'
    BY <1>1 DEF OInv, OverrideTypeOK, EditsChecked
  <2>7. AllowHasPermission'
    BY <2>1, <2>3, <2>4, <2>5 DEF OInv, OverrideTypeOK, AllowHasPermission
  <2> QED
    BY <2>5, <2>6, <2>7 DEF OInv
<1> QED
  BY <1>2, <1>3 DEF WriteEdit

\* Every step keeps it.
LEMMA OInvStep == OInv /\ [Next]_vars => OInv'
<1> SUFFICES ASSUME OInv, [Next]_vars PROVE OInv'
  OBVIOUS
<1>1. ASSUME UNCHANGED <<override, edit, bare>> PROVE OInv'
  BY <1>1 DEF OInv, OverrideTypeOK, EditsChecked, AllowHasPermission
<1>2. CASE MemberStep
  <2>1. /\ override' = [k \in Keys |-> IF k[1] \in gone' THEN None ELSE override[k]]
        /\ UNCHANGED edit \/ edit' = [e \in Editors |-> None]
        /\ UNCHANGED bare
    BY <1>2 DEF MemberStep
  <2> QED
    BY <2>1, OverrideLeft DEF OInv, OverrideTypeOK
<1>3. ASSUME NEW e \in Editors, WriteEdit(e) PROVE OInv'
  BY <1>3, WriteEditKeeps
<1>4. ASSUME NEW s \in Sites, NEW d \in Delegations, MoveSite(s, d) PROVE OInv'
  BY <1>4, <1>1 DEF MoveSite
<1>5. ASSUME NEW a \in Askers, NEW k, NEW u, NEW s, NEW r, Start(a, k, u, s, r) PROVE OInv'
  BY <1>5, <1>1 DEF Start
<1>6. ASSUME NEW a \in Askers, NEW d,
             ReadUser(a) \/ ReadOverrides(a) \/ ReadSite(a) \/ ReadRights(a) \/ ReadSites(a) \/ ReadMember(a, d)
      PROVE  OInv'
  BY <1>6, <1>1 DEF ReadUser, ReadOverrides, ReadSite, ReadRights, ReadSites, ReadMember
<1>7. CASE UNCHANGED vars
  BY <1>7, <1>1 DEF vars, accessVars
<1> QED
  BY <1>2, <1>3, <1>4, <1>5, <1>6, <1>7, OverrideMoveKeeps, CheckEditKeeps DEF Next

\* It holds of every run.
LEMMA OInvHolds == Spec => []OInv
<1>1. Init => OInv
  <2> SUFFICES ASSUME Init PROVE OInv
    OBVIOUS
  <2>1. OverrideTypeOK /\ EditsChecked
    BY OverridesAssumption DEF Init, OverrideTypeOK, EditsChecked
  <2>2. AllowHasPermission
    BY OverridesAssumption DEF Init, AllowHasPermission
  <2> QED
    BY <2>1, <2>2 DEF OInv
<1> QED
  BY <1>1, OInvStep, PTL DEF Spec

\* schema.prisma:1221: an ALLOW row keeps a permission through every update that is written on the row it was checked on.
THEOREM AllowHasPermissionHolds == Spec => []AllowHasPermission
<1>1. OInv => AllowHasPermission
  BY DEF OInv
<1> QED
  BY <1>1, OInvHolds, PTL

\* permission.service.ts:248: the list of sites and the question about one of them give one answer, for any rights and overrides.
THEOREM ListAgreesHolds == Spec => []ListAgrees
<1>1. OInv => ListAgrees
  <2> SUFFICES ASSUME OInv, NEW u \in Users, NEW s \in Sites
               PROVE  InForce(u, s, "*") = IF s \in DOMAIN SiteList(u) THEN SiteList(u)[s] ELSE "NOTHING"
    BY DEF ListAgrees
  <2> DEFINE said == Says(override[u, s, "*"])
             right == FromRight(Right(u, home[s]))
  <2>1. CASE u \in super
    BY <2>1 DEF InForce, SiteList
  <2>2. CASE u \notin super
    <3>1. InForce(u, s, "*") = IF said # None THEN said ELSE right
      BY <2>2, WholeSite DEF InForce, ByOverrides, OverridesOf
    <3>2. said \in {None, "NOTHING", "READ", "WRITE"}
          /\ (said \in {"READ", "WRITE"} => override[u, s, "*"].permission = said)
      <4>1. <<u, s, "*">> \in Keys
        BY WholeSite DEF Keys
      <4>2. override[u, s, "*"] \in Override \cup {None}
        BY <4>1 DEF OInv, OverrideTypeOK
      <4> QED
        BY <4>2, SentinelAssumption DEF Says, Applies, Override
    <3>3. s \in DOMAIN SiteList(u) <=> (Right(u, home[s]) # None \/ said \in {"READ", "WRITE"}) /\ said # "NOTHING"
      BY <2>2 DEF SiteList
    <3>4. s \in DOMAIN SiteList(u) =>
            SiteList(u)[s] = IF said \in {"READ", "WRITE"} THEN override[u, s, "*"].permission ELSE right
      BY <2>2, SentinelAssumption DEF SiteList
    <3>5. Right(u, home[s]) = None => right = "NOTHING"
      BY DEF FromRight
    <3> QED
      BY <3>1, <3>2, <3>3, <3>4, <3>5, SentinelAssumption
  <2> QED
    BY <2>1, <2>2
<1> QED
  BY <1>1, OInvHolds, PTL

-----------------------------------------------------------------------------
(* Answers. *)

\* Of a user who is gone there is neither flag, row nor override.
GoneMembers == \A u \in Users \cap gone : u \notin super /\ \A d \in Delegations : member[u, d] = None
GoneOverrides == \A k \in Keys : k[1] \in gone => override[k] = None
GoneInv == MemberTypeOK /\ home \in [Sites -> Delegations] /\ GoneMembers /\ GoneOverrides

SuperSame(u) == u \in super' <=> u \in super
OverSame(u, s) == \A r \in Resources : override'[u, s, r] = override[u, s, r]
HomeSame(s) == home'[s] = home[s]
MemberSame == member' = member
\* Of what is read for a user and a site one thing changes at most.
OneMove(u, s) == /\ OverSame(u, s) \/ (MemberSame /\ HomeSame(s) /\ SuperSame(u))
                 /\ MemberSame \/ (HomeSame(s) /\ SuperSame(u))
                 /\ HomeSame(s) \/ SuperSame(u)

(* A write of rows gives none to a user who is gone. *)
LEMMA GoneRows ==
  ASSUME GoneMembers, super' \subseteq super, gone' \cap Users = gone \cap Users,
         member' \in [Users \X Delegations -> Rows \cup {None}],
         \A u \in Users, d \in Delegations : u \in gone /\ member[u, d] = None => member'[u, d] = None
  PROVE  GoneMembers'
BY DEF GoneMembers

(* The steps that write rows of members. *)
LEMMA GoneWrites ==
  ASSUME MemberTypeOK, MemberTypeOK', GoneMembers,
         \/ \E r \in Calls : WriteAdd(r) \/ WriteChange(r) \/ AssignSupers(r) \/ FinishSso(r)
         \/ \E r \in Calls, d \in Delegations : SyncOne(r, d)
         \/ \E r \in Calls, u \in Users, s \in Scopes : StartSso(r, u, s)
  PROVE  GoneMembers' /\ UNCHANGED <<super, gone>>
<1>1. UNCHANGED <<super, gone>>
  BY DEF WriteAdd, WriteChange, AssignSupers, FinishSso, SyncOne, StartSso
<1>2. member' \in [Users \X Delegations -> Rows \cup {None}]
  BY DEF MemberTypeOK
<1>3. ASSUME NEW u \in Users, NEW d \in Delegations, u \in gone, member[u, d] = None PROVE member'[u, d] = None
  <2>0. <<u, d>> \in Users \X Delegations /\ member \in [Users \X Delegations -> Rows \cup {None}]
    BY DEF MemberTypeOK
  <2>1. ASSUME NEW r \in Calls, WriteAdd(r) PROVE member'[u, d] = None
    <3>1. member' = member \/ (call[r].user \notin gone /\ member' = [member EXCEPT ![<<call[r].user, call[r].at>>] = Row(call[r].right, "hand")])
      BY <2>1 DEF WriteAdd
    <3> QED BY <1>3, <2>0, <3>1
  <2>2. ASSUME NEW r \in Calls, WriteChange(r) PROVE member'[u, d] = None
    <3>1. \/ member' = member
          \/ \E row : /\ member[call[r].user, call[r].at] # None
                      /\ member' = [member EXCEPT ![<<call[r].user, call[r].at>>] = row]
      BY <2>2 DEF WriteChange
    <3> QED BY <1>3, <2>0, <3>1
  <2>3. ASSUME NEW r \in Calls, AssignSupers(r) PROVE member'[u, d] = None
    <3>1. \/ member' = member
          \/ /\ u \notin call[r].users
             /\ member' = [p \in Users \X Delegations |->
                             IF p[1] \in call[r].users /\ p[2] = call[r].at /\ member[p] = None THEN Row("MANAGE", "hand") ELSE member[p]]
      BY <1>3, <2>3 DEF AssignSupers
    <3> QED BY <1>3, <2>0, <3>1
  <2>4. ASSUME NEW r \in Calls, FinishSso(r) PROVE member'[u, d] = None
    <3>1. \/ member' = member
          \/ /\ u # call[r].user
             /\ member' = [p \in Users \X Delegations |->
                   IF p[1] = call[r].user /\ p[2] \in DOMAIN call[r].scopes /\ member[p] = None
                   THEN Row(call[r].scopes[p[2]], "sso") ELSE member[p]]
      BY <1>3, <2>4 DEF FinishSso
    <3> QED BY <1>3, <2>0, <3>1
  <2>5. ASSUME NEW r \in Calls, NEW e \in Delegations, SyncOne(r, e) PROVE member'[u, d] = None
    <3>1. \/ member' = member
          \/ /\ (member[call[r].user, e] # None) \/ call[r].user \notin gone
             /\ \E row : member' = [member EXCEPT ![<<call[r].user, e>>] = row]
      BY <2>5 DEF SyncOne
    <3> QED BY <1>3, <2>0, <3>1
  <2>6. ASSUME NEW r \in Calls, NEW v \in Users, NEW s \in Scopes, StartSso(r, v, s) PROVE member'[u, d] = None
    <3>1. member' = [p \in Users \X Delegations |-> IF p[1] = v /\ member[p] # None /\ member[p].by = "sso" THEN None ELSE member[p]]
      BY <2>6 DEF StartSso
    <3> QED BY <1>3, <2>0, <3>1
  <2> QED BY <2>1, <2>2, <2>3, <2>4, <2>5, <2>6
<1> QED BY <1>1, <1>2, <1>3, GoneRows

(* Every step of the members gives none to a user who is gone, and writes not
   both the flag of a user and rows, unless it removes him. *)
LEMMA GoneNext ==
  ASSUME MemberTypeOK, MemberTypeOK', GoneMembers, NEW sited, MemberNext(sited)
  PROVE  /\ GoneMembers'
         /\ \A u \in Users : u \in gone' \ gone \/ SuperSame(u) \/ MemberSame
<1> DEFINE Claim == GoneMembers' /\ \A u \in Users : u \in gone' \ gone \/ SuperSame(u) \/ MemberSame
<1>1. ASSUME UNCHANGED <<super, gone, member>> PROVE Claim
  BY <1>1 DEF GoneMembers, SuperSame
<1>2. ASSUME NEW r \in Calls, WriteFlag(r) PROVE Claim
  <2>1. MemberSame /\ UNCHANGED gone
    BY <1>2 DEF WriteFlag, MemberSame
  <2>2. super' \subseteq super \cup {call[r].user} /\ (call[r].user \in gone => super' = super)
    BY <1>2 DEF WriteFlag
  <2> QED BY <2>1, <2>2 DEF GoneMembers, MemberSame
<1>3. ASSUME NEW r \in Calls, WriteRemoveUser(r) PROVE Claim
  <2>1. /\ gone' = gone \cup {call[r].user} /\ super' = super \ {call[r].user}
        /\ member' = [p \in Users \X Delegations |-> IF p[1] = call[r].user THEN None ELSE member[p]]
    BY <1>3 DEF WriteRemoveUser
  <2> QED BY <2>1 DEF GoneMembers, SuperSame, MemberTypeOK
<1>4. ASSUME NEW d \in Delegations, RemoveDelegation(d, sited) PROVE Claim
  <2>1. /\ gone' = gone \cup {d} /\ super' = super
        /\ member' = [p \in Users \X Delegations |-> IF p[2] = d THEN None ELSE member[p]]
    BY <1>4 DEF RemoveDelegation
  <2> QED BY <2>1, IdsAssumption DEF GoneMembers, SuperSame, MemberTypeOK
<1>5. ASSUME NEW r \in Calls,
             \/ WriteAdd(r) \/ WriteChange(r) \/ AssignSupers(r) \/ FinishSso(r)
             \/ \E d \in Delegations : SyncOne(r, d)
             \/ \E u \in Users, s \in Scopes : StartSso(r, u, s)
      PROVE  Claim
  BY <1>5, GoneWrites DEF SuperSame
<1>6. ASSUME NEW r \in Calls, ReadSync(r) \/ ReadSupers(r) \/ \E d \in Delegations : CreateDelegation(r, d) PROVE Claim
  BY <1>1, <1>6 DEF ReadSync, ReadSupers, CreateDelegation
<1>7. ASSUME NEW r \in Calls, NEW q \in Users, NEW u \in Users, NEW d \in Delegations,
             \/ \E right \in Given : CheckAdd(r, q, u, d, right) \/ CheckChange(r, "setRole", q, u, d, right)
             \/ CheckChange(r, "remove", q, u, d, None)
      PROVE  Claim
  BY <1>1, <1>7 DEF CheckAdd, CheckChange
<1>8. ASSUME NEW r \in Calls, NEW q \in Users, NEW u \in Users, CheckRemoveUser(r, q, u) \/ \E p \in BOOLEAN : CheckToggle(r, q, u, p)
      PROVE  Claim
  BY <1>1, <1>8 DEF CheckRemoveUser, CheckToggle
<1>9. ASSUME Crash PROVE Claim
  BY <1>1, <1>9 DEF Crash
<1> SUFFICES Claim
  OBVIOUS
<1> HIDE DEF Claim
<1>10. CASE \E r \in Calls : \/ WriteAdd(r) \/ WriteRemoveUser(r) \/ WriteChange(r) \/ WriteFlag(r) \/ ReadSync(r)
                               \/ ReadSupers(r) \/ AssignSupers(r) \/ FinishSso(r)
  BY <1>2, <1>3, <1>5, <1>6, <1>10
<1>11. CASE \E r \in Calls, d \in Delegations : SyncOne(r, d) \/ CreateDelegation(r, d)
  BY <1>5, <1>6, <1>11
<1>12. CASE \E r \in Calls, u \in Users, s \in Scopes : StartSso(r, u, s)
  BY <1>5, <1>12
<1>13. CASE \E r \in Calls, q \in Users, u \in Users, d \in Delegations, right \in Given : CheckAdd(r, q, u, d, right)
  BY <1>7, <1>13
<1>14. CASE \E r \in Calls, q \in Users, u \in Users, d \in Delegations :
              \/ CheckChange(r, "remove", q, u, d, None)
              \/ \E right \in Given : CheckChange(r, "setRole", q, u, d, right)
  BY <1>7, <1>14
<1>15. CASE \E r \in Calls, q \in Users, u \in Users :
              CheckRemoveUser(r, q, u) \/ \E p \in BOOLEAN : CheckToggle(r, q, u, p)
  BY <1>8, <1>15
<1>16. CASE \E d \in Delegations : RemoveDelegation(d, sited)
  BY <1>4, <1>16
<1> QED BY <1>9, <1>10, <1>11, <1>12, <1>13, <1>14, <1>15, <1>16 DEF MemberNext

\* A step of a request changes nothing that requests read.
Asking == /\ UNCHANGED <<super, gone, home, member, override>>
          /\ \/ UNCHANGED ask
             \/ \E a \in Askers, k \in {"resolve", "list"}, u \in Users, s \in Sites, r \in Resources : Start(a, k, u, s, r)
             \/ \E a \in Askers : ReadUser(a) \/ ReadOverrides(a) \/ ReadSite(a) \/ ReadRights(a) \/ ReadSites(a)
             \/ \E a \in Askers, d \in Delegations : ReadMember(a, d)

(* Every step leaves the rows alone, or is noted by the open requests and changes
   one thing at most of what is read for a user and a site. *)
LEMMA NextMoves ==
  ASSUME GoneInv, MemberTypeOK', OverrideTypeOK, [Next]_vars
  PROVE  /\ GoneInv'
         /\ \/ Asking
            \/ Note /\ \A u \in Users, s \in Sites : u \in gone' \ gone \/ OneMove(u, s)
<1> DEFINE Noted == Note /\ \A u \in Users, s \in Sites : u \in gone' \ gone \/ OneMove(u, s)
           Claim == GoneInv' /\ (Asking \/ Noted)
<1>1. ASSUME Asking PROVE Claim
  BY <1>1 DEF Asking, GoneInv, GoneMembers, GoneOverrides
<1>2. ASSUME MemberStep PROVE Claim
  <2>1. PICK sited : MemberNext(sited)
    BY <1>2 DEF MemberStep
  <2>2. GoneMembers' /\ \A u \in Users : u \in gone' \ gone \/ SuperSame(u) \/ MemberSame
    BY <2>1, GoneNext DEF GoneInv
  <2>3. override' = [k \in Keys |-> IF k[1] \in gone' THEN None ELSE override[k]] /\ UNCHANGED home /\ Note
    BY <1>2 DEF MemberStep
  <2>4. GoneOverrides'
    BY <2>3 DEF GoneOverrides
  <2>5. ASSUME NEW u \in Users, NEW s \in Sites, u \notin gone' \ gone PROVE OneMove(u, s)
    <3>1. ASSUME NEW r \in Resources PROVE override'[u, s, r] = override[u, s, r]
      <4>1. <<u, s, r>> \in Keys /\ (u \in gone => override[<<u, s, r>>] = None)
        BY DEF Keys, GoneInv, GoneOverrides
      <4> QED BY <2>3, <2>5, <4>1
    <3> QED BY <2>2, <2>3, <2>5, <3>1 DEF OneMove, OverSame, HomeSame
  <2> QED BY <2>2, <2>3, <2>4, <2>5 DEF GoneInv
<1>3. ASSUME UNCHANGED <<super, gone, member>>, Note, UNCHANGED home \/ UNCHANGED override, home' \in [Sites -> Delegations],
             UNCHANGED override \/ \A k \in Keys : k[1] \in gone /\ override[k] = None => override'[k] = None
      PROVE  Claim
  <2>1. GoneInv'
    BY <1>3 DEF GoneInv, GoneMembers, GoneOverrides
  <2>2. \A u \in Users, s \in Sites : OneMove(u, s)
    BY <1>3 DEF OneMove, SuperSame, OverSame, HomeSame, MemberSame
  <2> QED BY <1>3, <2>1, <2>2
<1> SUFFICES Claim
  OBVIOUS
<1> HIDE DEF Claim
<1>4. ASSUME NEW s \in Sites, NEW d \in Delegations, MoveSite(s, d) PROVE Claim
  BY <1>3, <1>4 DEF MoveSite, Change, GoneInv
<1>5. ASSUME NEW u \in Users, NEW s \in Sites, NEW r \in Resources, NEW e \in {"ALLOW", "DENY"}, NEW p \in {"READ", "WRITE", None},
             CreateOverride(u, s, r, e, p)
      PROVE  Claim
  <2>1. u \notin gone /\ <<u, s, r>> \in Keys
    BY <1>5 DEF CreateOverride, Keys
  <2>2. \E row : override' = [override EXCEPT ![<<u, s, r>>] = row]
    BY <1>5 DEF CreateOverride
  <2>3. \A k \in Keys : k[1] \in gone /\ override[k] = None => override'[k] = None
    BY <2>1, <2>2 DEF OverrideTypeOK
  <2> QED BY <1>3, <1>5, <2>3 DEF CreateOverride, Change, GoneInv
<1>6. ASSUME NEW u \in Users, NEW s \in Sites, NEW r \in Resources, RemoveOverride(u, s, r) \/ Expire(u, s, r) PROVE Claim
  <2>1. <<u, s, r>> \in Keys
    BY DEF Keys
  <2>2. \E row : override' = [override EXCEPT ![<<u, s, r>>] = row] /\ override[<<u, s, r>>] # None
    BY <1>6 DEF RemoveOverride, Expire, Applies
  <2>3. \A k \in Keys : k[1] \in gone /\ override[k] = None => override'[k] = None
    BY <2>1, <2>2 DEF OverrideTypeOK
  <2>4. UNCHANGED <<super, gone, member, home>> /\ Note
    BY <1>6 DEF RemoveOverride, Expire, Change
  <2> QED BY <1>3, <2>3, <2>4 DEF GoneInv
<1>7. ASSUME NEW e \in Editors, NEW u \in Users, NEW s \in Sites, NEW r \in Resources, NEW c \in Changes, CheckEdit(e, u, s, r, c) PROVE Claim
  BY <1>3, <1>7 DEF CheckEdit, Change, GoneInv
<1>8. ASSUME NEW e \in Editors, WriteEdit(e) PROVE Claim
  <2>1. UNCHANGED <<super, gone, member, home>> /\ Note
    BY <1>8 DEF WriteEdit, memberVars
  <2>2. \A k \in Keys : k[1] \in gone /\ override[k] = None => override'[k] = None
    <3>1. \/ UNCHANGED override
          \/ \E row : override[edit[e].key] # None /\ override' = [override EXCEPT ![edit[e].key] = row]
      BY <1>8 DEF WriteEdit
    <3> QED BY <3>1 DEF OverrideTypeOK
  <2> QED BY <1>3, <2>1, <2>2 DEF GoneInv
<1>9. CASE UNCHANGED vars
  BY <1>1, <1>9 DEF Asking, vars, memberVars, accessVars
<1>10. CASE \E s \in Sites, d \in Delegations : MoveSite(s, d)
  BY <1>4, <1>10
<1>11. CASE \E u \in Users, s \in Sites, r \in Resources :
       \/ \E e \in {"ALLOW", "DENY"}, p \in {"READ", "WRITE", None} : CreateOverride(u, s, r, e, p)
       \/ \E e \in Editors, c \in Changes : CheckEdit(e, u, s, r, c)
       \/ RemoveOverride(u, s, r) \/ Expire(u, s, r)
  BY <1>5, <1>6, <1>7, <1>11
<1>12. CASE \E a \in Askers : ReadUser(a) \/ ReadOverrides(a) \/ ReadSite(a) \/ ReadRights(a) \/ ReadSites(a)
  <2>1. Asking
    BY <1>12 DEF Asking, ReadUser, ReadOverrides, ReadSite, ReadRights, ReadSites, memberVars
  <2> QED BY <1>1, <2>1
<1>13. CASE \E a \in Askers, d \in Delegations : ReadMember(a, d)
  BY <1>1, <1>13 DEF Asking, ReadMember, memberVars
<1>14. CASE \E a \in Askers, k \in {"resolve", "list"}, u \in Users, s \in Sites, r \in Resources : Start(a, k, u, s, r)
  BY <1>1, <1>14 DEF Asking, Start, memberVars
<1> QED BY <1>2, <1>8, <1>9, <1>10, <1>11, <1>12, <1>13, <1>14 DEF Next

-----------------------------------------------------------------------------
\* The requests that have no answer yet.
Todos == SUBSET (Delegations \cup (Delegations \X (Rights \cup {None})))
OpenAsk == [kind : {"resolve", "list"}, user : Users, site : Sites, resource : Resources,
            phase : {"user", "overrides", "site", "member", "rights", "sites"},
            todo : Todos, found : Rights \cup {None}, answer : {None},
            seen : SUBSET {"READ", "WRITE", "NOTHING"}, moved : 0 .. 2, rehomed : BOOLEAN]
Past(q) == q.phase \in {"site", "member"}
InList(q) == q.phase = "sites" \/ (q.kind = "list" /\ q.phase = "overrides")
Said(q) == ByOverrides(OverridesOf(q.user, q.site), q.resource)
Now(q) == InForce(q.user, q.site, q.resource)
\* The rights that a request may still go by, and the answers it may give, were the rows to stay.
Coming(q) ==
  IF q.phase = "member" THEN {Right(q.user, d) : d \in q.todo}
  ELSE IF InList(q) THEN IF \E dr \in q.todo : dr[1] = home[q.site] THEN {dr[2] : dr \in {x \in q.todo : x[1] = home[q.site]}}
                         ELSE {q.found}
  ELSE {Right(q.user, home[q.site])}
Answers(q) ==
  IF q.phase = "user" /\ q.user \in super THEN {"WRITE"}
  ELSE IF ~Past(q) /\ Said(q) # None THEN {Said(q)}
  ELSE {FromRight(x) : x \in Coming(q)}
\* What a request has read is what there is.
Fresh(q) ==
  /\ q.phase # "user" => q.user \notin super
  /\ Past(q) => Said(q) = None
  /\ q.phase = "member" => q.todo \subseteq {home[q.site]}
  /\ InList(q) => Coming(q) \subseteq {Right(q.user, home[q.site])}
Fits(q) ==
  /\ q.phase \in {"rights", "sites"} => q.kind = "list"
  /\ Past(q) => q.kind = "resolve"
  /\ q.phase \in {"user", "rights"} => q.found = None /\ q.todo = {}
  /\ q.phase = "overrides" => q.todo = {}
  /\ q.phase = "sites" => q.todo \subseteq Delegations \X (Rights \cup {None})
Rehomed(q) == q.kind = "list" /\ q.rehomed
\* While a request has none, what it may answer was in force since it started,
\* unless what it reads changed twice.
Pending(q) ==
  /\ q \in OpenAsk /\ Fits(q) /\ Now(q) \in q.seen
  /\ q.moved = 0 => Fresh(q)
  /\ q.moved = 1 /\ ~Rehomed(q) => Answers(q) \subseteq q.seen
Verdicts == {"READ", "WRITE", "NOTHING"}
Answered(q) == q.answer # None /\ q.answer \in Verdicts /\ q.phase = "done" /\ (q.moved < 2 /\ ~Rehomed(q) => q.answer \in q.seen)
AskOK(q) == q = None \/ Answered(q) \/ Pending(q)

(* Overrides that stay say what they did. *)
LEMMA SaidSame ==
  ASSUME NEW q, OverSame(q.user, q.site)
  PROVE  Said(q)' = Said(q)
<1>1. OverridesOf(q.user, q.site)' = OverridesOf(q.user, q.site)
  BY DEF OverSame, OverridesOf
<1> QED BY <1>1 DEF Said, ByOverrides, Says, Applies

(* Nor what a request may answer. *)
LEMMA AllSame ==
  ASSUME NEW q, OverSame(q.user, q.site), HomeSame(q.site), MemberSame, SuperSame(q.user)
  PROVE  Now(q)' = Now(q) /\ Answers(q)' = Answers(q) /\ (Fresh(q) => Fresh(q)')
<1>1. Said(q)' = Said(q)
  BY SaidSame
<1>2. \A d : Right(q.user, d)' = Right(q.user, d)
  BY DEF Right, MemberSame
<1>3. home'[q.site] = home[q.site]
  BY DEF HomeSame
<1>4. Coming(q)' = Coming(q)
  BY <1>2, <1>3 DEF Coming, InList
<1>5. Right(q.user, home[q.site])' = Right(q.user, home[q.site])
  BY <1>3 DEF Right, MemberSame
<1>6. Now(q)' = Now(q)
  BY <1>1, <1>5 DEF Now, InForce, Said, SuperSame
<1>7. Answers(q)' = Answers(q)
  BY <1>1, <1>4 DEF Answers, SuperSame, Past
<1>8. Fresh(q) => Fresh(q)'
  BY <1>1, <1>3, <1>4, <1>5 DEF Fresh, SuperSame, Past, InList
<1> QED BY <1>6, <1>7, <1>8

(* A request whose reads are of what there is answers what is in force. *)
LEMMA FreshAnswers ==
  ASSUME NEW q, Fresh(q)
  PROVE  Answers(q) \subseteq {Now(q)}
<1>1. Coming(q) \subseteq {Right(q.user, home[q.site])}
  BY DEF Fresh, Coming, InList
<1>2. Now(q) = IF q.user \in super THEN "WRITE" ELSE IF Said(q) # None THEN Said(q) ELSE FromRight(Right(q.user, home[q.site]))
  BY DEF Now, InForce, Said
<1> QED BY <1>1, <1>2 DEF Answers, Fresh

(* One change under such a request: it answers what was or what is in force. *)
LEMMA OneMoveAnswers ==
  ASSUME NEW q, Fresh(q), OneMove(q.user, q.site), InList(q) => HomeSame(q.site)
  PROVE  Answers(q)' \subseteq {Now(q), Now(q)'}
<1> DEFINE right == Right(q.user, home[q.site])
<1>1. Now(q) = IF q.user \in super THEN "WRITE" ELSE IF Said(q) # None THEN Said(q) ELSE FromRight(right)
  BY DEF Now, InForce, Said
<1>2. Now(q)' = IF q.user \in super' THEN "WRITE" ELSE IF Said(q)' # None THEN Said(q)' ELSE FromRight(right')
  BY DEF Now, InForce, Said, FromRight
<1>3. Answers(q)' = IF q.phase = "user" /\ q.user \in super' THEN {"WRITE"}
                    ELSE IF ~Past(q) /\ Said(q)' # None THEN {Said(q)'}
                    ELSE {FromRight(x) : x \in Coming(q)'}
  BY DEF Answers, Past, FromRight
<1>4. MemberSame /\ HomeSame(q.site) => right' = right
  BY DEF Right, MemberSame, HomeSame
<1>5. ~InList(q) /\ q.phase # "member" => Coming(q)' = {right'}
  BY DEF Coming, InList
<1>6. InList(q) => Coming(q)' \subseteq {right}
  <2>1. InList(q) => Coming(q)' = Coming(q)
    BY DEF Coming, InList, HomeSame
  <2> QED BY <2>1 DEF Fresh
<1>7. q.phase = "member" /\ HomeSame(q.site) => Coming(q)' \subseteq {right'}
  BY DEF Coming, Fresh, HomeSame
<1>8. q.phase = "member" /\ MemberSame => Coming(q)' \subseteq {right}
  BY DEF Coming, Fresh, MemberSame, Right
<1>9. q.phase # "user" => q.user \notin super
  BY DEF Fresh
<1>10. Past(q) => Said(q) = None
  BY DEF Fresh
<1> HIDE DEF right
<1>11. CASE ~OverSame(q.user, q.site)
  <2>1. right' = right /\ MemberSame /\ (q.user \in super' <=> q.user \in super)
    BY <1>4, <1>11 DEF OneMove, SuperSame
  <2> QED BY <1>1, <1>2, <1>3, <1>5, <1>6, <1>8, <1>9, <1>10, <2>1 DEF Past
<1>12. CASE OverSame(q.user, q.site)
  <2>1. Said(q)' = Said(q)
    BY <1>12, SaidSame
  <2>2. CASE SuperSame(q.user)
    <3>1. q.user \in super' <=> q.user \in super
      BY <2>2 DEF SuperSame
    <3>2. HomeSame(q.site) \/ MemberSame
      BY DEF OneMove
    <3> QED BY <1>1, <1>2, <1>3, <1>5, <1>6, <1>7, <1>8, <1>9, <1>10, <2>1, <3>1, <3>2 DEF Past
  <2>3. CASE ~SuperSame(q.user)
    <3>1. right' = right /\ MemberSame
      BY <1>4, <2>3 DEF OneMove
    <3> QED BY <1>1, <1>2, <1>3, <1>5, <1>6, <1>8, <1>9, <1>10, <2>1, <3>1 DEF Past
  <2> QED BY <2>2, <2>3
<1> QED BY <1>11, <1>12

(* What overrides say is one of the three answers, or nothing. *)
LEMMA SaidType ==
  ASSUME NEW rows \in [Resources -> Override \cup {None}], NEW r \in Resources
  PROVE  ByOverrides(rows, r) \in {None, "READ", "WRITE", "NOTHING"}
<1>1. ASSUME NEW k \in Resources PROVE Says(rows[k]) \in {None, "READ", "WRITE", "NOTHING"}
  BY DEF Says, Applies, Override
<1> QED BY <1>1, WholeSite DEF ByOverrides

(* What a request does is that of another with the same reads. *)
LEMMA SameReads ==
  ASSUME NEW q, NEW p, p.kind = q.kind, p.user = q.user, p.site = q.site, p.resource = q.resource,
         p.phase = q.phase, p.todo = q.todo, p.found = q.found
  PROVE  /\ Now(p)' = Now(q)' /\ Answers(p)' = Answers(q)' /\ (Fresh(q)' => Fresh(p)') /\ (Fits(q) => Fits(p)')
<1>1. Said(p)' = Said(q)' /\ Now(p)' = Now(q)'
  BY DEF Said, Now
<1>2. Coming(p)' = Coming(q)'
  BY DEF Coming, InList
<1> QED BY <1>1, <1>2 DEF Answers, Fresh, Fits, Past, InList

(* A change of the rows that is noted. *)
LEMMA NoteKeeps ==
  ASSUME OverrideTypeOK', Note, NEW a \in Askers, NEW q, q = ask[a], NEW p, p = ask'[a], AskOK(q),
         \A u \in Users, s \in Sites : u \in gone' \ gone \/ OneMove(u, s)
  PROVE  AskOK(p)'
<1>1. CASE q = None \/ Answered(q)
  <2>1. p = q
    BY <1>1 DEF Note, Answered
  <2> QED BY <1>1, <2>1 DEF AskOK, Answered, Rehomed
<1>2. CASE Pending(q) /\ q # None /\ crashes' = crashes
  <2>1. q \in OpenAsk /\ q.answer = None /\ q.user \in Users /\ q.site \in Sites /\ q.resource \in Resources
    BY <1>2 DEF Pending, OpenAsk
  <2>2. /\ q.kind \in {"resolve", "list"} /\ q.seen \in SUBSET {"READ", "WRITE", "NOTHING"}
        /\ q.moved \in 0 .. 2 /\ q.rehomed \in BOOLEAN
    BY <2>1 DEF OpenAsk
  <2>3. InForceAll'[q.user, q.site, q.resource] = Now(q)'
    <3>1. <<q.user, q.site, q.resource>> \in Keys
      BY <2>1 DEF Keys
    <3>2. InForceAll' = [k \in Keys |-> InForce(k[1], k[2], k[3])']
      BY DEF InForceAll
    <3> QED BY <3>1, <3>2 DEF Now
  <2>4. Now(q)' \in {"READ", "WRITE", "NOTHING"}
    <3>1. OverridesOf(q.user, q.site)' \in [Resources -> Override \cup {None}]
      BY <2>1 DEF OverridesOf, OverrideTypeOK, Keys
    <3>2. Said(q)' \in {None, "READ", "WRITE", "NOTHING"}
      BY <2>1, <3>1, SaidType DEF Said
    <3> QED BY <3>2 DEF Now, InForce, Said, FromRight
  <2>5. PICK now : now = Now(q)'
    OBVIOUS
  <2>6. PICK still \in BOOLEAN : still = (OverSame(q.user, q.site) /\ HomeSame(q.site) /\ MemberSame /\ SuperSame(q.user))
    OBVIOUS
  <2>7. PICK moved : moved = IF q.user \in gone' \ gone THEN 2 ELSE IF ~still /\ q.moved < 2 THEN q.moved + 1 ELSE q.moved
    OBVIOUS
  <2>8. PICK rehomed \in BOOLEAN : rehomed = (q.rehomed \/ ~HomeSame(q.site))
    OBVIOUS
  <2>0. PICK seen : seen = q.seen \cup {now}
    OBVIOUS
  <2>9. p = [q EXCEPT !.seen = seen, !.moved = moved, !.rehomed = rehomed]
    <3>1. SuperSame(q.user) <=> ~((q.user \in super') # (q.user \in super))
      BY DEF SuperSame
    <3>2. still <=> ~((\E r \in Resources : override'[q.user, q.site, r] # override[q.user, q.site, r])
                      \/ home'[q.site] # home[q.site] \/ member' # member
                      \/ (q.user \in super') # (q.user \in super))
      BY <2>6, <3>1 DEF OverSame, HomeSame, MemberSame
    <3> QED BY <1>2, <2>0, <2>1, <2>2, <2>3, <2>5, <2>7, <2>8, <3>2 DEF Note, HomeSame
  <2>10. moved \in 0 .. 2 /\ rehomed \in BOOLEAN /\ seen \in SUBSET {"READ", "WRITE", "NOTHING"}
    BY <2>0, <2>2, <2>4, <2>5, <2>7, <2>8
  <2>11. /\ p \in OpenAsk /\ p.seen = seen /\ p.moved = moved /\ p.rehomed = rehomed
         /\ p.kind = q.kind /\ p.user = q.user /\ p.site = q.site /\ p.resource = q.resource
         /\ p.phase = q.phase /\ p.todo = q.todo /\ p.found = q.found
    BY <2>1, <2>9, <2>10 DEF OpenAsk
  <2>12. Now(p)' = Now(q)' /\ Answers(p)' = Answers(q)' /\ (Fresh(q)' => Fresh(p)') /\ (Fits(q) => Fits(p)')
    BY <2>11, SameReads
  <2>13. ASSUME moved = 0 PROVE Fresh(p)'
    <3>1. q.moved = 0 /\ still
      BY <2>2, <2>7, <2>13
    <3>2. Fresh(q)
      BY <1>2, <3>1 DEF Pending
    <3> QED BY <2>6, <2>12, <3>1, <3>2, AllSame
  <2>14. ASSUME moved = 1, ~Rehomed(p) PROVE Answers(p)' \subseteq p.seen
    <3>1. q.user \notin gone' \ gone /\ ((q.moved = 1 /\ still) \/ q.moved = 0)
      BY <2>2, <2>7, <2>14
    <3>2. q.kind = "list" => HomeSame(q.site) /\ ~q.rehomed
      BY <2>8, <2>11, <2>14 DEF Rehomed
    <3>3. CASE q.moved = 1 /\ still
      <4>1. Answers(q)' = Answers(q)
        BY <2>6, <3>3, AllSame
      <4> QED BY <1>2, <2>0, <2>11, <2>12, <3>2, <3>3, <4>1 DEF Pending, Rehomed
    <3>4. CASE q.moved = 0
      <4>1. Fresh(q) /\ Now(q) \in q.seen
        BY <1>2, <3>4 DEF Pending
      <4>2. InList(q) => HomeSame(q.site)
        BY <1>2, <3>2 DEF InList, Pending, Fits
      <4>3. Answers(q)' \subseteq {Now(q), Now(q)'}
        BY <2>1, <3>1, <4>1, <4>2, OneMoveAnswers
      <4> QED BY <2>0, <2>5, <2>11, <2>12, <4>1, <4>3
    <3> QED BY <3>1, <3>3, <3>4
  <2> QED BY <1>2, <2>0, <2>5, <2>11, <2>12, <2>13, <2>14 DEF AskOK, Pending, Rehomed
<1>3. CASE Pending(q) /\ q # None /\ crashes' # crashes
  <2>1. p = None
    BY <1>3 DEF Note, Pending, OpenAsk
  <2> QED BY <2>1 DEF AskOK
<1> QED BY <1>1, <1>2, <1>3 DEF AskOK

(* Rows that stay leave what a request may answer. *)
LEMMA AskRows ==
  ASSUME UNCHANGED <<super, home, member, override>>, NEW q, AskOK(q)
  PROVE  AskOK(q)'
<1>1. OverSame(q.user, q.site) /\ HomeSame(q.site) /\ MemberSame /\ SuperSame(q.user)
  BY DEF OverSame, HomeSame, MemberSame, SuperSame
<1>2. Now(q)' = Now(q) /\ Answers(q)' = Answers(q) /\ (Fresh(q) => Fresh(q)')
  BY <1>1, AllSame
<1>3. (Fits(q) => Fits(q)') /\ (Answered(q) => Answered(q)')
  BY DEF Fits, Answered, Past, Rehomed
<1> QED BY <1>2, <1>3 DEF AskOK, Pending, Rehomed

(* What a request may answer was in force while it ran. *)
LEMMA AnswersSeen ==
  ASSUME NEW q, Pending(q), q.moved < 2, ~Rehomed(q)
  PROVE  Answers(q) \subseteq q.seen
<1>1. q.moved \in 0 .. 2
  BY DEF Pending, OpenAsk
<1>2. CASE q.moved = 0
  BY <1>2, FreshAnswers DEF Pending
<1> QED BY <1>1, <1>2 DEF Pending

(* An answer among those. *)
LEMMA AnswerKeeps ==
  ASSUME NEW q, Pending(q), NEW x \in Answers(q), x \in Verdicts, NEW p,
         p = [kind |-> q.kind, phase |-> "done", answer |-> x, seen |-> q.seen, moved |-> q.moved, rehomed |-> q.rehomed]
  PROVE  AskOK(p)
BY AnswersSeen, SentinelAssumption DEF AskOK, Answered, Rehomed, Verdicts

(* A read that leaves no other answers than there were. *)
LEMMA ReadKeeps ==
  ASSUME NEW q, Pending(q), NEW p \in OpenAsk, Fits(p), Fresh(q) => Fresh(p),
         p.kind = q.kind, p.user = q.user, p.site = q.site, p.resource = q.resource,
         p.seen = q.seen, p.moved = q.moved, p.rehomed = q.rehomed, Answers(p) \subseteq Answers(q)
  PROVE  AskOK(p)
BY DEF AskOK, Pending, Rehomed, Now

(* The answers of a request once it is past what it has read. *)
LEMMA AnswersOf ==
  ASSUME NEW q
  PROVE  /\ q.phase = "user" => Answers(q) = {Now(q)}
         /\ q.phase \in {"overrides", "rights", "sites"} =>
              Answers(q) = IF Said(q) # None THEN {Said(q)} ELSE {FromRight(x) : x \in Coming(q)}
         /\ q.phase \in {"site", "member"} => Answers(q) = {FromRight(x) : x \in Coming(q)}
BY DEF Answers, Past, Now, InForce, Said, Coming, InList


\* A request that reads has not answered yet.
LEMMA ReadPending ==
  ASSUME NEW q, q # None, AskOK(q), q.phase # "done"
  PROVE  Pending(q) /\ q \in OpenAsk /\ q.answer = None /\ q.user \in Users /\ q.site \in Sites /\ q.resource \in Resources
BY DEF AskOK, Answered, Pending, OpenAsk

\* Nothing is in force for a user who is gone.
LEMMA GoneNothing ==
  ASSUME GoneInv, NEW u \in Users \cap gone, NEW s \in Sites, NEW r \in Resources
  PROVE  InForce(u, s, r) = "NOTHING"
<1>1. ASSUME NEW k \in Resources PROVE override[u, s, k] = None
  <2>1. <<u, s, k>> \in Keys
    BY DEF Keys
  <2> QED BY <2>1 DEF GoneInv, GoneOverrides
<1>2. ByOverrides(OverridesOf(u, s), r) = None
  BY <1>1, WholeSite DEF ByOverrides, OverridesOf, Says, Applies
<1>3. home[s] \in Delegations
  BY DEF GoneInv
<1>4. Right(u, home[s]) = None /\ u \notin super
  BY <1>3 DEF GoneInv, GoneMembers, Right
<1> QED BY <1>2, <1>4 DEF InForce, FromRight

(* Step 0. *)
LEMMA ReadUserKeeps ==
  ASSUME GoneInv, NEW a \in DOMAIN ask, NEW q, q = ask[a], AskOK(q), ReadUser(a), NEW p, p = ask'[a]
  PROVE  AskOK(p)
<1>1. q # None /\ q.phase = "user"
  BY DEF ReadUser
<1>2. Pending(q) /\ q \in OpenAsk /\ q.user \in Users /\ q.site \in Sites /\ q.resource \in Resources
  BY <1>1, ReadPending
<1>3. Answers(q) = {Now(q)} /\ Fits(q)
  BY <1>1, <1>2, AnswersOf DEF Pending
<1>4. CASE q.user \in gone
  <2>1. Now(q) = "NOTHING"
    BY <1>2, <1>4, GoneNothing DEF Now
  <2>2. p = [kind |-> q.kind, phase |-> "done", answer |-> "NOTHING", seen |-> q.seen, moved |-> q.moved, rehomed |-> q.rehomed]
    BY <1>4 DEF ReadUser, Answer, Advance
  <2> QED BY <1>2, <1>3, <2>1, <2>2, AnswerKeeps DEF Verdicts
<1>5. CASE q.user \notin gone /\ q.user \in super
  <2>1. Now(q) = "WRITE"
    BY <1>5 DEF Now, InForce
  <2>2. p = [kind |-> q.kind, phase |-> "done", answer |-> "WRITE", seen |-> q.seen, moved |-> q.moved, rehomed |-> q.rehomed]
    BY <1>5 DEF ReadUser, Answer, Advance
  <2> QED BY <1>2, <1>3, <2>1, <2>2, AnswerKeeps DEF Verdicts
<1>6. CASE q.user \notin gone /\ q.user \notin super
  <2>1. p = [q EXCEPT !.phase = IF q.kind = "list" THEN "rights" ELSE "overrides"]
    BY <1>6 DEF ReadUser, Advance
  <2>2. /\ p \in OpenAsk /\ p.phase = IF q.kind = "list" THEN "rights" ELSE "overrides"
        /\ p.kind = q.kind /\ p.user = q.user /\ p.site = q.site /\ p.resource = q.resource
        /\ p.seen = q.seen /\ p.moved = q.moved /\ p.rehomed = q.rehomed /\ p.todo = q.todo /\ p.found = q.found
    BY <1>2, <2>1 DEF OpenAsk
  <2>3. ~InList(p) /\ ~Past(p) /\ p.phase # "member"
    BY <2>2 DEF InList, Past
  <2>4. Fits(p) /\ Fresh(p)
    BY <1>1, <1>3, <1>6, <2>2, <2>3 DEF Fits, Fresh
  <2>5. Answers(p) = Answers(q)
    <3>1. Coming(p) = {Right(q.user, home[q.site])} /\ Said(p) = Said(q)
      BY <2>2, <2>3 DEF Coming, Said
    <3>2. Answers(p) = IF Said(p) # None THEN {Said(p)} ELSE {FromRight(x) : x \in Coming(p)}
      BY <2>2, AnswersOf
    <3> QED BY <1>3, <1>6, <3>1, <3>2 DEF Now, InForce, Said
  <2> QED BY <1>2, <2>2, <2>4, <2>5, ReadKeeps
<1> QED BY <1>4, <1>5, <1>6

(* Steps 1 to 4, and the last of the list. *)
LEMMA ReadOverridesKeeps ==
  ASSUME GoneInv, OverrideTypeOK, NEW a \in DOMAIN ask, NEW q, q = ask[a], AskOK(q), ReadOverrides(a), NEW p, p = ask'[a]
  PROVE  AskOK(p)
<1>1. q # None /\ q.phase = "overrides"
  BY DEF ReadOverrides
<1>2. Pending(q) /\ q \in OpenAsk /\ Fits(q)
  BY <1>1, ReadPending DEF Pending
<1>3. Answers(q) = IF Said(q) # None THEN {Said(q)} ELSE {FromRight(x) : x \in Coming(q)}
  BY <1>1, AnswersOf
<1>4. ASSUME NEW x \in Answers(q), x \in Verdicts,
             p = [kind |-> q.kind, phase |-> "done", answer |-> x, seen |-> q.seen, moved |-> q.moved, rehomed |-> q.rehomed]
      PROVE  AskOK(p)
  BY <1>2, <1>4, AnswerKeeps
<1>5. CASE Said(q) # None
  <2>1. p = [kind |-> q.kind, phase |-> "done", answer |-> Said(q), seen |-> q.seen, moved |-> q.moved, rehomed |-> q.rehomed]
    BY <1>5 DEF ReadOverrides, Answer, Advance, Said
  <2>2. q.user \in Users /\ q.site \in Sites /\ q.resource \in Resources
    BY <1>2 DEF OpenAsk
  <2>3. OverridesOf(q.user, q.site) \in [Resources -> Override \cup {None}]
    BY <2>2 DEF OverridesOf, OverrideTypeOK, Keys
  <2>4. Said(q) \in Verdicts
    BY <1>5, <2>2, <2>3, SaidType DEF Said, Verdicts
  <2> QED BY <1>3, <1>4, <1>5, <2>1, <2>4
<1>6. CASE Said(q) = None /\ q.kind = "list"
  <2>1. p = [kind |-> q.kind, phase |-> "done", answer |-> FromRight(q.found), seen |-> q.seen, moved |-> q.moved, rehomed |-> q.rehomed]
    BY <1>6 DEF ReadOverrides, Answer, Advance, Said
  <2>2. Coming(q) = {q.found}
    BY <1>1, <1>2, <1>6 DEF Coming, InList, Fits
  <2>3. FromRight(q.found) \in Verdicts
    BY DEF FromRight, Verdicts
  <2> QED BY <1>3, <1>4, <1>6, <2>1, <2>2, <2>3
<1>7. CASE Said(q) = None /\ q.kind # "list"
  <2>1. p = [q EXCEPT !.phase = "site"]
    BY <1>7 DEF ReadOverrides, Advance, Said
  <2>2. /\ p \in OpenAsk /\ p.phase = "site"
        /\ p.kind = q.kind /\ p.user = q.user /\ p.site = q.site /\ p.resource = q.resource
        /\ p.seen = q.seen /\ p.moved = q.moved /\ p.rehomed = q.rehomed /\ p.todo = q.todo /\ p.found = q.found
    BY <1>2, <2>1 DEF OpenAsk
  <2>3. ~InList(p) /\ ~InList(q) /\ Past(p) /\ p.phase # "member"
    BY <1>1, <1>7, <2>2 DEF InList, Past
  <2>4. Fits(p) /\ Said(p) = Said(q)
    BY <1>1, <1>2, <1>7, <2>2, <2>3 DEF Fits, Said, OpenAsk
  <2>5. Fresh(q) => Fresh(p)
    BY <1>1, <1>7, <2>2, <2>3, <2>4 DEF Fresh
  <2>6. Answers(p) = Answers(q)
    <3>1. Coming(p) = Coming(q)
      BY <1>1, <2>2, <2>3 DEF Coming
    <3>2. Answers(p) = {FromRight(x) : x \in Coming(p)}
      BY <2>2, AnswersOf
    <3> QED BY <1>3, <1>7, <3>1, <3>2
  <2> QED BY <1>2, <2>2, <2>4, <2>5, <2>6, ReadKeeps
<1> QED BY <1>5, <1>6, <1>7

(* Step 5. *)
LEMMA ReadSiteKeeps ==
  ASSUME GoneInv, NEW a \in DOMAIN ask, NEW q, q = ask[a], AskOK(q), ReadSite(a), NEW p, p = ask'[a]
  PROVE  AskOK(p)
<1>1. q # None /\ q.phase = "site"
  BY DEF ReadSite
<1>2. Pending(q) /\ q \in OpenAsk /\ Fits(q) /\ q.site \in Sites
  BY <1>1, ReadPending DEF Pending
<1>3. p = [q EXCEPT !.phase = "member", !.todo = {home[q.site]}]
  BY DEF ReadSite, Advance
<1>4. {home[q.site]} \in Todos
  BY <1>2 DEF GoneInv, Todos
<1>5. /\ p \in OpenAsk /\ p.phase = "member"
      /\ p.kind = q.kind /\ p.user = q.user /\ p.site = q.site /\ p.resource = q.resource
      /\ p.seen = q.seen /\ p.moved = q.moved /\ p.rehomed = q.rehomed /\ p.todo = {home[q.site]} /\ p.found = q.found
  BY <1>2, <1>3, <1>4 DEF OpenAsk
<1>6. Fits(p) /\ Said(p) = Said(q) /\ ~InList(p)
  BY <1>1, <1>2, <1>5 DEF Fits, Said, Past, InList
<1>7. Fresh(q) => Fresh(p)
  BY <1>1, <1>5, <1>6 DEF Fresh, Past
<1>8. Answers(p) = Answers(q)
  <2>1. Coming(p) = Coming(q)
    BY <1>1, <1>5 DEF Coming, InList
  <2>2. Answers(p) = {FromRight(x) : x \in Coming(p)}
    BY <1>5, AnswersOf
  <2>3. Answers(q) = {FromRight(x) : x \in Coming(q)}
    BY <1>1, AnswersOf
  <2> QED BY <2>1, <2>2, <2>3
<1> QED BY <1>2, <1>5, <1>6, <1>7, <1>8, ReadKeeps

(* The row of the user in that delegation. *)
LEMMA ReadMemberKeeps ==
  ASSUME GoneInv, NEW a \in DOMAIN ask, NEW q, q = ask[a], AskOK(q), NEW d, ReadMember(a, d), NEW p, p = ask'[a]
  PROVE  AskOK(p)
<1>1. q # None /\ q.phase = "member" /\ d \in q.todo
  BY DEF ReadMember
<1>2. Pending(q)
  BY <1>1, ReadPending
<1>3. p = [kind |-> q.kind, phase |-> "done", answer |-> FromRight(Right(q.user, d)), seen |-> q.seen, moved |-> q.moved, rehomed |-> q.rehomed]
  BY DEF ReadMember, Answer, Advance
<1>4. FromRight(Right(q.user, d)) \in Answers(q)
  BY <1>1, AnswersOf DEF Coming
<1>5. FromRight(Right(q.user, d)) \in Verdicts
  BY DEF FromRight, Verdicts
<1> QED BY <1>2, <1>3, <1>4, <1>5, AnswerKeeps

(* The list: the rows of the user. *)
LEMMA ReadRightsKeeps ==
  ASSUME GoneInv, NEW a \in DOMAIN ask, NEW q, q = ask[a], AskOK(q), ReadRights(a), NEW p, p = ask'[a]
  PROVE  AskOK(p)
<1>1. q # None /\ q.phase = "rights"
  BY DEF ReadRights
<1>2. Pending(q) /\ q \in OpenAsk /\ Fits(q) /\ q.site \in Sites /\ q.user \in Users
  BY <1>1, ReadPending DEF Pending
<1>3. PICK rows : rows = {<<d, Right(q.user, d)>> : d \in {d \in Delegations : member[q.user, d] # None}}
  OBVIOUS
<1>0. \A x : x \in rows <=> \E d \in Delegations : member[q.user, d] # None /\ x = <<d, Right(q.user, d)>>
  BY <1>3
<1>12. ASSUME NEW x \in rows PROVE \E d \in Delegations : /\ member[q.user, d] # None /\ x = <<d, Right(q.user, d)>>
                                                         /\ x[1] = d /\ x[2] = Right(q.user, d)
  <2>1. PICK d \in Delegations : member[q.user, d] # None /\ x = <<d, Right(q.user, d)>>
    BY <1>0, <1>12
  <2>2. x[1] = d /\ x[2] = Right(q.user, d)
    BY <2>1
  <2> QED BY <2>1, <2>2
<1>4. p = [q EXCEPT !.phase = "sites", !.todo = rows]
  BY <1>3 DEF ReadRights, Advance
<1>5. rows \subseteq Delegations \X (Rights \cup {None})
  <2>1. ASSUME NEW d \in Delegations PROVE Right(q.user, d) \in Rights \cup {None}
    <3>1. <<q.user, d>> \in Users \X Delegations
      BY <1>2
    <3>2. member[<<q.user, d>>] \in Rows \cup {None}
      BY <3>1 DEF GoneInv, MemberTypeOK
    <3> QED BY <3>2 DEF Right, Rows
  <2>2. ASSUME NEW x \in rows PROVE x \in Delegations \X (Rights \cup {None})
    <3>1. PICK d \in Delegations : x = <<d, Right(q.user, d)>>
      BY <1>12
    <3> QED BY <2>1, <3>1
  <2> QED BY <2>2
<1>11. rows \in Todos
  BY <1>5 DEF Todos
<1>6. /\ p \in OpenAsk /\ p.phase = "sites"
      /\ p.kind = q.kind /\ p.user = q.user /\ p.site = q.site /\ p.resource = q.resource
      /\ p.seen = q.seen /\ p.moved = q.moved /\ p.rehomed = q.rehomed /\ p.todo = rows /\ p.found = q.found
  BY <1>2, <1>4, <1>11 DEF OpenAsk
<1>7. Fits(p) /\ Said(p) = Said(q) /\ InList(p) /\ q.found = None
  BY <1>1, <1>2, <1>5, <1>6 DEF Fits, Said, Past, InList
<1>8. Coming(p) = {Right(q.user, home[q.site])}
  <2>1. home[q.site] \in Delegations
    BY <1>2 DEF GoneInv
  <2>2. CASE member[q.user, home[q.site]] = None
    <3>1. ~\E dr \in p.todo : dr[1] = home[q.site]
      BY <1>12, <1>6, <2>2
    <3> QED BY <1>6, <1>7, <2>2, <3>1 DEF Coming, Right
  <2>3. CASE member[q.user, home[q.site]] # None
    <3>1. <<home[q.site], Right(q.user, home[q.site])>> \in p.todo
      BY <1>0, <1>6, <2>1, <2>3
    <3>2. \A x \in p.todo : x[1] = home[q.site] => x[2] = Right(q.user, home[q.site])
      BY <1>12, <1>6
    <3>3. Coming(p) = {x[2] : x \in {x \in p.todo : x[1] = home[q.site]}}
      BY <1>6, <1>7, <3>1 DEF Coming
    <3> QED BY <3>1, <3>2, <3>3
  <2> QED BY <2>2, <2>3
<1>9. Fresh(q) => Fresh(p)
  BY <1>1, <1>6, <1>7, <1>8 DEF Fresh, Past
<1>10. Answers(p) = Answers(q)
  <2>1. Coming(q) = {Right(q.user, home[q.site])}
    BY <1>1 DEF Coming, InList
  <2> QED BY <1>1, <1>6, <1>7, <1>8, <2>1, AnswersOf
<1> QED BY <1>2, <1>6, <1>7, <1>9, <1>10, ReadKeeps

(* The list: the sites of one row after the other. *)
LEMMA ReadSitesKeeps ==
  ASSUME GoneInv, NEW a \in DOMAIN ask, NEW q, q = ask[a], AskOK(q), ReadSites(a), NEW p, p = ask'[a]
  PROVE  AskOK(p)
<1>1. q # None /\ q.phase = "sites"
  BY DEF ReadSites
<1>2. Pending(q) /\ q \in OpenAsk /\ Fits(q) /\ q.kind = "list"
  BY <1>1, ReadPending DEF Pending, Fits
<1>3. CASE q.todo = {}
  <2>1. p = [q EXCEPT !.phase = "overrides"]
    BY <1>3 DEF ReadSites, Advance
  <2>2. /\ p \in OpenAsk /\ p.phase = "overrides"
        /\ p.kind = q.kind /\ p.user = q.user /\ p.site = q.site /\ p.resource = q.resource
        /\ p.seen = q.seen /\ p.moved = q.moved /\ p.rehomed = q.rehomed /\ p.todo = q.todo /\ p.found = q.found
    BY <1>2, <2>1 DEF OpenAsk
  <2>3. Fits(p) /\ Said(p) = Said(q) /\ InList(p) /\ InList(q)
    BY <1>1, <1>2, <1>3, <2>2 DEF Fits, Said, Past, InList
  <2>4. Coming(p) = Coming(q)
    BY <1>1, <2>2, <2>3 DEF Coming
  <2>5. Fresh(q) => Fresh(p)
    BY <1>1, <2>2, <2>3, <2>4 DEF Fresh, Past
  <2>6. Answers(p) = Answers(q)
    BY <1>1, <2>2, <2>3, <2>4, AnswersOf
  <2> QED BY <1>2, <2>2, <2>3, <2>5, <2>6, ReadKeeps
<1>4. CASE q.todo # {}
  <2>1. PICK dr \in q.todo : p = [q EXCEPT !.todo = q.todo \ {dr}, !.found = IF home[q.site] = dr[1] THEN dr[2] ELSE q.found]
    BY <1>4 DEF ReadSites, Advance
  <2>2. PICK found : found = IF home[q.site] = dr[1] THEN dr[2] ELSE q.found
    OBVIOUS
  <2>3. PICK todo : todo = q.todo \ {dr}
    OBVIOUS
  <2>4. q.todo \subseteq Delegations \X (Rights \cup {None}) /\ found \in Rights \cup {None}
    BY <1>1, <1>2, <2>2 DEF Fits, OpenAsk
  <2>0. todo \in Todos
    BY <2>3, <2>4 DEF Todos
  <2>5. /\ p \in OpenAsk /\ p.phase = "sites"
        /\ p.kind = q.kind /\ p.user = q.user /\ p.site = q.site /\ p.resource = q.resource
        /\ p.seen = q.seen /\ p.moved = q.moved /\ p.rehomed = q.rehomed /\ p.todo = todo /\ p.found = found
    BY <1>1, <1>2, <2>0, <2>1, <2>2, <2>3, <2>4 DEF OpenAsk
  <2>6. Fits(p) /\ Said(p) = Said(q) /\ InList(p) /\ InList(q)
    BY <1>1, <1>2, <2>3, <2>4, <2>5 DEF Fits, Said, Past, InList
  <2>7. Coming(p) \subseteq Coming(q)
    BY <1>1, <2>2, <2>3, <2>5, <2>6 DEF Coming
  <2>8. Fresh(q) => Fresh(p)
    BY <1>1, <2>5, <2>6, <2>7 DEF Fresh, Past
  <2>9. Answers(p) \subseteq Answers(q)
    BY <1>1, <2>5, <2>6, <2>7, AnswersOf
  <2> QED BY <1>2, <2>5, <2>6, <2>8, <2>9, ReadKeeps
<1> QED BY <1>3, <1>4

(* A request that starts. *)
LEMMA StartKeeps ==
  ASSUME OverrideTypeOK, NEW a \in DOMAIN ask, NEW k \in {"resolve", "list"}, NEW u \in Users, NEW s \in Sites, NEW r \in Resources,
         Start(a, k, u, s, r), NEW p, p = ask'[a]
  PROVE  AskOK(p)
<1>1. PICK now : now = InForce(u, s, r)
  OBVIOUS
<1>2. now \in {"READ", "WRITE", "NOTHING"}
  <2>1. OverridesOf(u, s) \in [Resources -> Override \cup {None}]
    BY DEF OverridesOf, OverrideTypeOK, Keys
  <2> QED BY <1>1, <2>1, SaidType DEF InForce, FromRight
<1>3. p = [kind |-> k, user |-> u, site |-> s, resource |-> r, phase |-> "user", todo |-> {}, found |-> None,
           answer |-> None, seen |-> {now}, moved |-> 0, rehomed |-> FALSE]
  BY <1>1 DEF Start, Advance
<1>4. {} \in Todos /\ {now} \in SUBSET {"READ", "WRITE", "NOTHING"}
  BY <1>2 DEF Todos
<1>5. p \in OpenAsk /\ p.phase = "user" /\ p.found = None /\ p.todo = {} /\ p.moved = 0 /\ p.seen = {now}
      /\ p.user = u /\ p.site = s /\ p.resource = r
  BY <1>3, <1>4 DEF OpenAsk
<1>6. Fits(p) /\ Fresh(p)
  BY <1>5 DEF Fits, Fresh, Past, InList
<1> QED BY <1>1, <1>5, <1>6 DEF AskOK, Pending, Now

Asks == DOMAIN ask = Askers /\ \A a \in Askers : AskOK(ask[a])

(* The steps of the requests. *)
LEMMA AskingKeeps ==
  ASSUME GoneInv, OverrideTypeOK, Asks, Asking
  PROVE  Asks'
<1>1. DOMAIN ask' = Askers
  BY DEF Asks, Asking, Start, ReadUser, ReadOverrides, ReadSite, ReadRights, ReadSites, ReadMember, Answer, Advance
<1>2. ASSUME NEW a \in Askers, NEW p, p = ask'[a] PROVE AskOK(p)
  <2>1. PICK q : q = ask[a]
    OBVIOUS
  <2>2. AskOK(q) /\ a \in DOMAIN ask
    BY <2>1 DEF Asks
  <2>3. CASE p = q
    BY <2>2, <2>3
  <2>4. CASE p # q
    <3>1. ASSUME NEW b \in Askers, NEW c, ask' = [ask EXCEPT ![b] = c] PROVE b = a
      BY <1>2, <2>1, <2>2, <2>4, <3>1
    <3>2. ASSUME NEW b \in Askers, NEW k \in {"resolve", "list"}, NEW u \in Users, NEW s \in Sites, NEW r \in Resources, Start(b, k, u, s, r)
          PROVE  AskOK(p)
      <4>1. b = a
        BY <3>1, <3>2 DEF Start, Advance
      <4> QED BY <1>2, <2>2, <3>2, <4>1, StartKeeps
    <3>3. ASSUME NEW b \in Askers, ReadUser(b) \/ ReadOverrides(b) \/ ReadSite(b) \/ ReadRights(b) \/ ReadSites(b) PROVE AskOK(p)
      <4>1. b = a
        BY <3>1, <3>3 DEF ReadUser, ReadOverrides, ReadSite, ReadRights, ReadSites, Answer, Advance
      <4> QED BY <1>2, <2>1, <2>2, <3>3, <4>1, ReadUserKeeps, ReadOverridesKeeps, ReadSiteKeeps, ReadRightsKeeps, ReadSitesKeeps
    <3>4. ASSUME NEW b \in Askers, NEW d \in Delegations, ReadMember(b, d) PROVE AskOK(p)
      <4>1. b = a
        BY <3>1, <3>4 DEF ReadMember, Answer, Advance
      <4> QED BY <1>2, <2>1, <2>2, <3>4, <4>1, ReadMemberKeeps
    <3>5. ask' # ask
      BY <1>2, <2>1, <2>4
    <3> QED BY <3>2, <3>3, <3>4, <3>5 DEF Asking
  <2> QED BY <2>3, <2>4
<1>3. ASSUME NEW a \in Askers, NEW p, p = ask'[a] PROVE AskOK(p)'
  BY <1>2, <1>3, AskRows DEF Asking
<1> QED BY <1>1, <1>3 DEF Asks

(* Every step leaves a request only answers that are in force while it runs. *)
LEMMA NextAsks ==
  ASSUME GoneInv, OverrideTypeOK, OverrideTypeOK', MemberTypeOK', Asks, [Next]_vars
  PROVE  GoneInv' /\ Asks'
<1>1. GoneInv'
  BY NextMoves
<1>2. CASE Asking
  BY <1>1, <1>2, AskingKeeps
<1>3. CASE Note /\ \A u \in Users, s \in Sites : u \in gone' \ gone \/ OneMove(u, s)
  <2>1. DOMAIN ask' = Askers
    BY <1>3 DEF Note
  <2>2. ASSUME NEW a \in Askers, NEW q, q = ask[a], NEW p, p = ask'[a] PROVE AskOK(p)'
    <3>1. AskOK(q)
      BY <2>2 DEF Asks
    <3> QED BY <1>3, <2>2, <3>1, NoteKeeps
  <2> QED BY <1>1, <2>1, <2>2 DEF Asks
<1> QED BY <1>2, <1>3, NextMoves

(* Every request under way is one that can be, and what it may answer is noted. *)
THEOREM AsksHold == Spec => [](GoneInv /\ Asks)
<1>1. Init => GoneInv /\ Asks
  <2> SUFFICES ASSUME Init PROVE GoneInv /\ Asks
    OBVIOUS
  <2>1. MemberTypeOK
    BY InitMInv DEF Init, MInv
  <2>2. gone = {} /\ home \in [Sites -> Delegations]
    BY <2>1 DEF Init, MemberInit, MemberTypeOK
  <2>3. GoneInv
    BY <2>1, <2>2 DEF GoneInv, GoneMembers, GoneOverrides
  <2>4. Asks
    BY DEF Init, Asks, AskOK
  <2> QED BY <2>3, <2>4
<1>2. ASSUME MInv, MInv', OInv, OInv', GoneInv, Asks, [Next]_vars PROVE GoneInv' /\ Asks'
  BY <1>2, NextAsks DEF MInv, OInv
<1>3. ASSUME [](MInv /\ OInv) PROVE Spec => [](GoneInv /\ Asks)
  BY <1>1, <1>2, <1>3, PTL DEF Spec
<1> QED BY <1>3, MInvHolds, OInvHolds, PTL

(* permission.service.ts:42: although it reads the rows one after the other, a
   request answers what was in force at some moment while it ran, when what it
   reads changed once at most. *)
THEOREM AnswerWasInForceHolds == Spec => []AnswerWasInForce
<1>1. Asks => AnswerWasInForce
  <2> SUFFICES ASSUME Asks, NEW a \in Askers, NEW q, q = ask[a], q # None, q.answer # None, q.moved < 2, q.kind = "list" => ~q.rehomed
               PROVE  q.answer \in q.seen
    BY DEF AnswerWasInForce
  <2>1. AskOK(q) /\ ~Pending(q)
    BY DEF Asks, Pending, OpenAsk
  <2> QED BY <2>1 DEF AskOK, Answered, Rehomed
<1> QED BY <1>1, AsksHold, PTL

(* The rows, the edits and the requests stay of their type, and a request
   answers nothing but one of the three verdicts. *)
THEOREM AccessTypes == Spec => []TypeOK
<1>1. MInv /\ OInv /\ GoneInv /\ Asks => TypeOK
  <2> SUFFICES ASSUME MInv, OInv, GoneInv, Asks, NEW a \in Askers, NEW q, q = ask[a], q # None
               PROVE  q.answer \in {"READ", "WRITE", "NOTHING", None}
    BY DEF TypeOK, OInv, GoneInv
  <2>1. Answered(q) \/ Pending(q)
    BY DEF Asks, AskOK
  <2> QED BY <2>1 DEF Answered, Pending, OpenAsk, Verdicts
<1> QED BY <1>1, MInvHolds, OInvHolds, AsksHold, PTL
=============================================================================
