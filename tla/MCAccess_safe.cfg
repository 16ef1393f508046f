CONSTANTS
  None = None
  u1 = u1 u2 = u2 d1 = d1 d2 = d2 s1 = s1
  r1 = r1 r2 = r2 a1 = a1 e1 = e1 e2 = e2
  Users = {u1, u2}
  Delegations = {d1, d2}
  Sites = {s1}
  Resources = {"*", "tasks"}
  Askers = {a1}
  Calls = {r1, r2}
  MaxScope = 1
  MaxOps = 2
  MaxCrashes = 1
  Changes <- MCChanges
  Overrides0 <- MCOverrides0
  Editors = {e1, e2}
  Rows0 <- MCRows0
  Given = {"READ", "MANAGE"}
SYMMETRY MCSymmetry
SPECIFICATION Spec
INVARIANTS SomeSuperAdmin SuperAdminManagesAll AnswerWasInForce ListAgrees AllowHasPermission
CHECK_DEADLOCK FALSE
