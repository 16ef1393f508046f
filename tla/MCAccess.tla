------------------------------ MODULE MCAccess ------------------------------
(* Access on a small instance; users, delegations and requests are alike.  *)
EXTENDS Access, TLC

CONSTANTS u1, u2, d1, d2, s1, r1, r2, a1, e1, e2

\* No row, or one from a login; those of super administrators are given by Init.
MCRows0 == {None, [right |-> "READ", by |-> "sso"]}

\* No override, or one on the whole site for everybody.
MCOverrides0 ==
  {[k \in Users \X Sites \X Resources |->
      IF all /\ k[3] = "*" THEN [effect |-> "ALLOW", permission |-> "READ", expired |-> FALSE] ELSE None] : all \in BOOLEAN}

\* Allow with the permission there is; deny, naming a permission or not; an explicit null.
MCChanges == {[effect |-> "ALLOW", permission |-> "keep"], [effect |-> "DENY", permission |-> "READ"],
              [effect |-> "keep", permission |-> None]}

MCSymmetry == Permutations(Users) \cup Permutations(Delegations) \cup Permutations(Calls) \cup Permutations(Editors)
=============================================================================
