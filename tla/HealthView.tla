----------------------------- MODULE HealthView -----------------------------
(***************************************************************************)
(* What the health pipeline promises a reader of a site.  The checks of a  *)
(* site pass through versions 0, 1, 2, ...; shown[s] is the version the    *)
(* stored Site.healthStatus was computed from.  The stored health never    *)
(* goes back to an older version of the checks, never runs ahead of them,  *)
(* and reaches the last version unless the site is deleted first.          *)
(***************************************************************************)
EXTENDS Integers

CONSTANT Sites

VARIABLES exists, truth, shown

vars == <<exists, truth, shown>>

Init ==
  /\ exists = Sites
  /\ truth = [s \in Sites |-> 0]
  /\ shown = [s \in Sites |-> 0]

Change(s) ==
  /\ s \in exists
  /\ truth' = [truth EXCEPT ![s] = @ + 1]
  /\ UNCHANGED <<exists, shown>>

Publish(s) ==
  /\ s \in exists
  /\ \E v \in shown[s] .. truth[s] : shown' = [shown EXCEPT ![s] = v]
  /\ UNCHANGED <<exists, truth>>

CatchUp(s) == Publish(s) /\ shown'[s] = truth[s]

Delete(s) ==
  /\ s \in exists
  /\ exists' = exists \ {s}
  /\ UNCHANGED <<truth, shown>>

Next == \E s \in Sites : Change(s) \/ Publish(s) \/ Delete(s)

Safety == Init /\ [][Next]_vars

Spec == Safety /\ \A s \in Sites : WF_vars(CatchUp(s))
=============================================================================
