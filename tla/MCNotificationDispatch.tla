----------------------- MODULE MCNotificationDispatch -----------------------
(* Two channels, one or two events, the job loops of the API and the worker.
   The forms: nothing, both channels on, one off and one without address, a
   rule that names one channel, a rule switched off. *)
EXTENDS NotificationDispatch

CONSTANTS e1, e2, api, worker

MCKinds == {"EMAIL", "TEAMS"}
Form(email, teams, rule) == [channels |-> [k \in MCKinds |-> IF k = "EMAIL" THEN email ELSE teams],
                             rule |-> rule]
NoRule == [state |-> "absent", channels |-> {}]
MCConfigs ==
  { Form("absent", "absent", NoRule),
    Form("on", "unset", NoRule),
    Form("off", "on", [state |-> "on", channels |-> {"TEAMS"}]),
    Form("on", "on", [state |-> "off", channels |-> {}]) }
=============================================================================
