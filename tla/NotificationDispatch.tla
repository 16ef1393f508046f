------------------------ MODULE NotificationDispatch ------------------------
(***************************************************************************)
(* Notifications: an emitter queues one Bull job for each event; a job     *)
(* loop of the API or of the worker resolves the rule and the channels in  *)
(* force, sends on all the channels at once, logs every answer, and throws *)
(* to be retried while a channel failed and attempts are left.             *)
(*   notification.service.ts, notification.processor.ts,                   *)
(*   notification-settings.service.ts                                      *)
(*                                                                         *)
(* The model follows the events of one type in one tenant.  A channel row  *)
(* is absent, off, on, or unset (on, without recipients or webhook).  An   *)
(* error answer can come from a message the remote side has accepted.      *)
(***************************************************************************)
EXTENDS Integers, FiniteSets

CONSTANTS
  Events,         \* queueDispatch calls
  Scoped,         \* the events whose context names a site or a delegation
  Consumers,      \* the job loops of the queue: API and worker
  Kinds,          \* NotificationChannelKind
  DefaultKinds,   \* defaultChannels of the event type
  Configs,        \* what a settings form can hold
  Attempts,       \* attempts: 3
  NoEvent,
  MaxSaves,       \* bound: settings saved or deleted
  MaxFaults,      \* bound: failed reads and sends
  MaxUnlogged,    \* bound: log rows the database refuses
  MaxRedis,       \* bound: rejected queue.add calls
  MaxCrashes      \* bound: restarts of a process

Scopes   == {"global", "delegation"}
Tables   == {"channels", "rule"}
Answers  == {"ok", "ko"}
Rule     == [state : {"absent", "off", "on"}, channels : SUBSET Kinds]
Settings == [channels : [Kinds -> {"absent", "off", "unset", "on"}], rule : Rule]
Empty    == [channels |-> [k \in Kinds |-> "absent"], rule |-> [state |-> "absent", channels |-> {}]]

ASSUME Parameters ==
  /\ Scoped \subseteq Events /\ NoEvent \notin Events
  /\ DefaultKinds \subseteq Kinds /\ Empty \in Configs /\ Configs \subseteq Settings
  /\ Attempts \in Nat \ {0}
  /\ {MaxSaves, MaxFaults, MaxUnlogged, MaxRedis, MaxCrashes} \subseteq Nat

VARIABLES
  settings,    \* NotificationChannel and NotificationRule rows of each scope
  deleting,    \* tables a deleteSettings request has still to clear
  job,         \* Bull jobs: [state, made, stalled]; the attempts made so far
  consumer,    \* a job loop in the handler
  inForce,     \* the settings there have been since the attempt of a loop began
  delivered,   \* messages the remote side got, per event and channel
  log,         \* NotificationLog rows of each event and channel
  outcome,     \* what the last attempt of a job targeted, and what failed
  used         \* how much of each bound is used

vars == <<settings, deleting, job, consumer, inForce, delivered, log, outcome, used>>

Bounds == {"saves", "faults", "unlogged", "redis", "crash"}

Job      == [state : {"none", "lost", "waiting", "active", "delayed", "completed", "failed"},
             made : Nat, stalled : BOOLEAN]
Consumer == [event : Events \cup {NoEvent}, phase : {"idle", "resolve", "read", "send"},
             scoped : BOOLEAN, toRead : SUBSET (Scopes \X Tables), seen : [Scopes -> Settings],
             pending : SUBSET Kinds, answered : [Kinds -> Answers \cup {"none"}], failed : SUBSET Kinds]

Idle == [event |-> NoEvent, phase |-> "idle", scoped |-> FALSE, toRead |-> {},
         seen |-> [s \in Scopes |-> Empty], pending |-> {},
         answered |-> [k \in Kinds |-> "none"], failed |-> {}]

NoLog     == [a \in Answers |-> 0]
NoOutcome == [target |-> {}, failed |-> {}]

(* Every variable holds a state the database, Redis or a process can be in. *)
TypeOK ==
  /\ settings \in [Scopes -> Settings] /\ deleting \in [Scopes -> SUBSET Tables]
  /\ job \in [Events -> Job] /\ \A e \in Events : job[e].made <= Attempts
  /\ consumer \in [Consumers -> Consumer]
  /\ inForce \in [Consumers -> SUBSET [Scopes -> Settings]]
  /\ delivered \in [Events -> [Kinds -> Nat]]
  /\ log \in [Events -> [Kinds -> [Answers -> Nat]]]
  /\ outcome \in [Events -> [target : SUBSET Kinds, failed : SUBSET Kinds]]
  /\ used \in [Bounds -> Nat]

Init ==
  /\ settings = [s \in Scopes |-> Empty]
  /\ deleting = [s \in Scopes |-> {}]
  /\ job = [e \in Events |-> [state |-> "none", made |-> 0, stalled |-> FALSE]]
  /\ consumer = [w \in Consumers |-> Idle]
  /\ inForce = [w \in Consumers |-> {}]
  /\ delivered = [e \in Events |-> [k \in Kinds |-> 0]]
  /\ log = [e \in Events |-> [k \in Kinds |-> NoLog]]
  /\ outcome = [e \in Events |-> NoOutcome]
  /\ used = [kind \in Bounds |-> 0]

Use(kind, bound) ==
  /\ used[kind] < bound
  /\ used' = [used EXCEPT ![kind] = @ + 1]

-----------------------------------------------------------------------------
(* Settings. *)

Change(new) ==
  /\ settings' = new
  /\ inForce' = [w \in Consumers |-> IF consumer[w] = Idle THEN {} ELSE inForce[w] \cup {new}]

(* saveSettings: one transaction replaces what the scope holds. *)
Save(s, config) ==
  /\ settings[s] # config
  /\ Use("saves", MaxSaves)
  /\ Change([settings EXCEPT ![s] = config])
  /\ UNCHANGED <<deleting, job, consumer, delivered, log, outcome>>

(* deleteSettings: two deleteMany in parallel. *)
Delete(s) ==
  /\ deleting[s] = {} /\ settings[s] # Empty
  /\ Use("saves", MaxSaves)
  /\ deleting' = [deleting EXCEPT ![s] = Tables]
  /\ UNCHANGED <<settings, job, consumer, inForce, delivered, log, outcome>>

DeleteTable(s, t) ==
  /\ t \in deleting[s]
  /\ deleting' = [deleting EXCEPT ![s] = @ \ {t}]
  /\ Change([settings EXCEPT ![s][t] = Empty[t]])
  /\ UNCHANGED <<job, consumer, delivered, log, outcome, used>>

(* Mutant: the first row that is on is used, the global one too when the
   delegation has switched the channel off. *)
ChannelForAnyScope(seen, scoped, k) ==
  IF scoped /\ seen["delegation"].channels[k] = "on"
    THEN "on"
    ELSE seen["global"].channels[k]

(* resolveSettings: the row of the delegation, else the global one, else the
   default of the event type. *)
ChannelFor(seen, scoped, k) ==
  IF scoped /\ seen["delegation"].channels[k] # "absent"
    THEN seen["delegation"].channels[k]
    ELSE seen["global"].channels[k]

RuleFor(seen, scoped) ==
  IF scoped /\ seen["delegation"].rule.state # "absent" THEN seen["delegation"].rule
  ELSE IF seen["global"].rule.state # "absent" THEN seen["global"].rule
  ELSE [state |-> "on", channels |-> DefaultKinds]

(* The channels an attempt sends on. *)
Targets(seen, scoped) ==
  LET rule == RuleFor(seen, scoped) IN
  IF rule.state # "on" THEN {}
  ELSE {k \in rule.channels : ChannelFor(seen, scoped, k) \in {"unset", "on"}}

-----------------------------------------------------------------------------
(* The queue. *)

(* queueDispatch: a rejected add is logged and swallowed. *)
Emit(e) ==
  /\ job[e].state = "none"
  /\ \/ job' = [job EXCEPT ![e].state = "waiting"] /\ UNCHANGED used
     \/ job' = [job EXCEPT ![e].state = "lost"] /\ Use("redis", MaxRedis)
  /\ UNCHANGED <<settings, deleting, consumer, inForce, delivered, log, outcome>>

Promote(e) ==
  /\ job[e].state = "delayed"
  /\ job' = [job EXCEPT ![e].state = "waiting"]
  /\ UNCHANGED <<settings, deleting, consumer, inForce, delivered, log, outcome, used>>

Take(w, e) ==
  /\ consumer[w] = Idle /\ job[e].state = "waiting"
  /\ job' = [job EXCEPT ![e].state = "active"]
  /\ consumer' = [consumer EXCEPT ![w] = [Idle EXCEPT !.event = e, !.phase = "resolve"]]
  /\ inForce' = [inForce EXCEPT ![w] = {settings}]
  /\ UNCHANGED <<settings, deleting, delivered, log, outcome, used>>

Leave(w) ==
  /\ consumer' = [consumer EXCEPT ![w] = Idle]
  /\ inForce' = [inForce EXCEPT ![w] = {}]

Complete(w) ==
  /\ job' = [job EXCEPT ![consumer[w].event].state = "completed"]
  /\ Leave(w)

(* The handler threw: backoff while attempts are left, else failed. *)
Throw(w) ==
  LET e == consumer[w].event
      n == job[e].made + 1 IN
  /\ job' = [job EXCEPT ![e].made = n, ![e].state = IF n < Attempts THEN "delayed" ELSE "failed"]
  /\ Leave(w)

-----------------------------------------------------------------------------
(* dispatch. *)

(* resolveDelegationFromContext; the site may have been deleted. *)
Resolve(w) ==
  /\ consumer[w].phase = "resolve"
  /\ \/ /\ \E scoped \in BOOLEAN :
             /\ scoped => consumer[w].event \in Scoped
             /\ consumer' = [consumer EXCEPT ![w] = [consumer[w] EXCEPT !.phase = "read",
                  !.scoped = scoped,
                  !.toRead = IF scoped THEN Scopes \X Tables ELSE {"global"} \X Tables]]
        /\ UNCHANGED <<job, inForce, used>>
     \/ Use("faults", MaxFaults) /\ Throw(w)
  /\ UNCHANGED <<settings, deleting, delivered, log, outcome>>

(* One of the parallel findMany of resolveSettings. *)
Read(w, s, t) ==
  /\ <<s, t>> \in consumer[w].toRead
  /\ \/ /\ LET c == consumer[w]
           IN  consumer' = [consumer EXCEPT ![w] =
                 [c EXCEPT !.toRead = @ \ {<<s, t>>}, !.seen[s][t] = settings[s][t]]]
        /\ UNCHANGED <<job, inForce, used>>
     \/ Use("faults", MaxFaults) /\ Throw(w)
  /\ UNCHANGED <<settings, deleting, delivered, log, outcome>>

(* Promise.all over rule.channels: every send is under way. *)
FanOut(w) ==
  /\ consumer[w].phase = "read" /\ consumer[w].toRead = {}
  /\ LET targets == Targets(consumer[w].seen, consumer[w].scoped) IN
     /\ consumer' = [consumer EXCEPT ![w].phase = "send", ![w].pending = targets]
     /\ outcome' = [outcome EXCEPT ![consumer[w].event] = [target |-> targets, failed |-> {}]]
  /\ UNCHANGED <<settings, deleting, job, inForce, delivered, log, used>>

(* A channel answers; the remote side gets the message. *)
Answered(w, k, a) ==
  LET c == consumer[w]
  IN  consumer' = [consumer EXCEPT ![w] = [c EXCEPT !.pending = @ \ {k}, !.answered[k] = a]]

Deliver(w, k) == delivered' = [delivered EXCEPT ![consumer[w].event][k] = @ + 1]

HasAddress(w, k) == ChannelFor(consumer[w].seen, consumer[w].scoped, k) = "on"

(* Mutant: a send that fails is tried again inside the attempt. *)
AnswerRetriesInline(w, k) ==
  /\ k \in consumer[w].pending
  /\ \/ HasAddress(w, k) /\ Answered(w, k, "ok") /\ Deliver(w, k) /\ UNCHANGED used
     \/ Use("faults", MaxFaults) /\ Deliver(w, k) /\ UNCHANGED consumer
     \/ Answered(w, k, "ko") /\ UNCHANGED <<delivered, used>>
  /\ UNCHANGED <<settings, deleting, job, inForce, log, outcome>>

(* channel.send on one channel: success; an error before or after the remote
   side took the message; an error for want of an address. *)
Answer(w, k) ==
  /\ k \in consumer[w].pending
  /\ \/ HasAddress(w, k) /\ Answered(w, k, "ok") /\ Deliver(w, k) /\ UNCHANGED used
     \/ /\ HasAddress(w, k) /\ Answered(w, k, "ko") /\ Use("faults", MaxFaults)
        /\ Deliver(w, k) \/ UNCHANGED delivered
     \/ ~HasAddress(w, k) /\ Answered(w, k, "ko") /\ UNCHANGED <<delivered, used>>
  /\ UNCHANGED <<settings, deleting, job, inForce, log, outcome>>

(* Mutant: only successes are logged. *)
LogOnlySuccess(w, k) ==
  /\ consumer[w].answered[k] # "none"
  /\ LET ok == consumer[w].answered[k] = "ok" IN
     /\ consumer' = [consumer EXCEPT ![w].answered[k] = "none",
                       ![w].failed = IF ok THEN @ ELSE @ \cup {k}]
     /\ \/ ok /\ log' = [log EXCEPT ![consumer[w].event][k]["ok"] = @ + 1] /\ UNCHANGED used
        \/ ~ok /\ UNCHANGED <<log, used>>
        \/ Use("unlogged", MaxUnlogged) /\ UNCHANGED log
  /\ UNCHANGED <<settings, deleting, job, inForce, delivered, outcome>>

(* logResult swallows an error of the database. *)
Log(w, k) ==
  /\ consumer[w].answered[k] # "none"
  /\ LET a == consumer[w].answered[k] IN
     /\ consumer' = [consumer EXCEPT ![w].answered[k] = "none",
                       ![w].failed = IF a = "ok" THEN @ ELSE @ \cup {k}]
     /\ \/ log' = [log EXCEPT ![consumer[w].event][k][a] = @ + 1] /\ UNCHANGED used
        \/ Use("unlogged", MaxUnlogged) /\ UNCHANGED log
  /\ UNCHANGED <<settings, deleting, job, inForce, delivered, outcome>>

Answering(w) == consumer[w].pending # {} \/ \E k \in Kinds : consumer[w].answered[k] # "none"

(* The end of dispatch: throw to be retried, or return. *)
Finish(w) ==
  /\ consumer[w].phase = "send" /\ ~Answering(w)
  /\ outcome' = [outcome EXCEPT ![consumer[w].event].failed = consumer[w].failed]
  /\ IF consumer[w].failed # {} /\ job[consumer[w].event].made < Attempts - 1
       THEN Throw(w) ELSE Complete(w)
  /\ UNCHANGED <<settings, deleting, delivered, log, used>>

(* Mutant: no one looks for stalled jobs. *)
StalledStaysActive(b) == b

(* Bull puts a stalled job back once (maxStalledCount: 1), then fails it. *)
Stalled(b) == IF b.stalled THEN [b EXCEPT !.state = "failed"]
              ELSE [b EXCEPT !.state = "waiting", !.stalled = TRUE]

(* The process dies in the handler: the job it held has stalled. *)
Crash(w) ==
  /\ consumer[w] # Idle
  /\ Use("crash", MaxCrashes)
  /\ job' = [job EXCEPT ![consumer[w].event] = Stalled(@)]
  /\ Leave(w)
  /\ UNCHANGED <<settings, deleting, delivered, log, outcome>>

-----------------------------------------------------------------------------
Dispatch(w) ==
  \/ Resolve(w) \/ FanOut(w) \/ Finish(w)
  \/ \E s \in Scopes, t \in Tables : Read(w, s, t)
  \/ \E k \in Kinds : Answer(w, k) \/ Log(w, k)

Next ==
  \/ \E s \in Scopes : Delete(s) \/ \E c \in Configs : Save(s, c)
  \/ \E s \in Scopes, t \in Tables : DeleteTable(s, t)
  \/ \E e \in Events : Emit(e) \/ Promote(e)
  \/ \E w \in Consumers : Dispatch(w) \/ Crash(w)
  \/ \E w \in Consumers, e \in Events : Take(w, e)

Safety == Init /\ [][Next]_vars

(* Bull's timers fire, its waiting list is first in first out, and a handler
   goes on: every send has a timeout.  Emitters, forms and faults are free. *)
Fairness ==
  /\ \A w \in Consumers : WF_vars(Dispatch(w))
  /\ \A e \in Events : WF_vars(Promote(e)) /\ SF_vars(\E w \in Consumers : Take(w, e))

Spec == Safety /\ Fairness

-----------------------------------------------------------------------------
(* The attempts a job b has had: those that threw, one that stalled, and the
   one that runs, completed, or stalled last. *)
AttemptsOf(b) ==
  b.made + (IF b.stalled THEN 1 ELSE 0)
         + (IF b.state \in {"active", "completed"} \/ (b.state = "failed" /\ b.made < Attempts) THEN 1 ELSE 0)

(* notification.processor.ts:82-124: a channel gets the message at most once
   for each attempt there was.  Duplicates never come from within one. *)
DuplicatesExplained == \A e \in Events, k \in Kinds : delivered[e][k] <= AttemptsOf(job[e])

(* ADR-020, "source de verite unique de qui a envoye quoi quand": a logged
   success was delivered, and a delivered message is logged, or about to be,
   unless the process died or the database refused the row. *)
LogTruthful ==
  \A e \in Events, k \in Kinds :
    LET inHand == Cardinality({w \in Consumers : consumer[w].event = e /\ consumer[w].answered[k] # "none"})
    IN  /\ log[e][k]["ok"] <= delivered[e][k]
        /\ delivered[e][k] <= log[e][k]["ok"] + log[e][k]["ko"] + inHand + used["unlogged"] + used["crash"]

(* notification.processor.ts:116-126: a job completes only when every channel
   its last attempt targeted has the message or is reported as failed. *)
NothingDroppedUnseen ==
  \A e \in Events : job[e].state = "completed" =>
    \A k \in outcome[e].target : delivered[e][k] > 0 \/ k \in outcome[e].failed

(* The row that counts is the delegation's, or the global one when the
   delegation has none. *)
Governs(s, has(_), scoped) == has(s) /\ (IF s = "global" THEN ~(scoped /\ has("delegation")) ELSE scoped)

ChannelInForce(v, scoped, k) ==
  LET has(s) == v[s].channels[k] # "absent"
  IN  \E s \in Scopes : Governs(s, has, scoped) /\ v[s].channels[k] = "on"

RuleInForce(v, scoped, k) ==
  LET has(s) == v[s].rule.state # "absent"
  IN  \/ \E s \in Scopes : Governs(s, has, scoped) /\ v[s].rule.state = "on" /\ k \in v[s].rule.channels
      \/ ~has("global") /\ ~(scoped /\ has("delegation")) /\ k \in DefaultKinds

(* resolveSettings and ADR-020 (delegation, then global, then defaults): a
   message goes only to a channel that was on, and under a rule that named it,
   at some moment of the attempt, though the four reads are not one snapshot
   (settings saved once meanwhile; the two tables can be of different ages). *)
SentAsConfigured ==
  [][\A w \in Consumers, e \in Events, k \in Kinds :
       consumer[w].event = e /\ delivered'[e][k] > delivered[e][k] /\ Cardinality(inForce[w]) <= 2 =>
         /\ \E v \in inForce[w] : ChannelInForce(v, consumer[w].scoped, k)
         /\ \E v \in inForce[w] : RuleInForce(v, consumer[w].scoped, k)]_vars

(* notification.service.ts:45-58: an event that got into the queue is settled:
   completed or failed, through errors, retries and restarts. *)
Settles ==
  \A e \in Events : job[e].state = "waiting" ~> job[e].state \in {"completed", "failed"}

=============================================================================
