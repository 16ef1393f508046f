-------------------------- MODULE MonitorPipeline --------------------------
(***************************************************************************)
(* Monitoring: a 30-second scheduler picks the due checks and queues probe *)
(* jobs on the Bull queue monitor-check; the job loops of the worker read  *)
(* the check, probe its target, persist the result, and alert on a change. *)
(* Operators create, switch, run and delete checks meanwhile.              *)
(*   monitor.scheduler.ts, monitor.processor.ts, monitors.service.ts,      *)
(*   orphan-sweep.service.ts                                               *)
(*                                                                         *)
(* Time is abstracted: due[c] says nextCheckAt is null or in the past, and *)
(* becomes true again when the interval of the check elapses.  reality[c]  *)
(* is what a probe of the target finds.  history[c] is the MonitorResult   *)
(* rows of a check with repeats collapsed.  Heartbeat jobs touch a file    *)
(* and are left out; they explain why a worker runs two job loops: Bull    *)
(* adds one for each named processor.                                      *)
(***************************************************************************)
EXTENDS Integers, Sequences, FiniteSets

CONSTANTS
  Checks,
  Ticks,          \* scheduler ticks that can be running at the same time
  Loops,          \* job loops of the worker process
  Jobs,           \* bound: slots for jobs in Redis
  ProbeAttempts,  \* attempts: 3 of a scheduled probe
  Batch,          \* SCHEDULER_BATCH: 500
  Punctual,       \* assume a check's interval outlasts its jobs
  NoCheck, NoJob,
  MaxFlips,       \* bound: changes of the targets
  MaxRunNow,      \* bound: manual runs
  MaxSwitches,    \* bound: checks switched on or off
  MaxFaults,      \* bound: transient probe errors and database errors
  MaxRedis,       \* bound: rejected queue.add calls
  MaxCrashes      \* bound: worker restarts

ASSUME Parameters ==
  /\ NoCheck \notin Checks /\ NoJob \notin Jobs
  /\ {ProbeAttempts, Batch} \subseteq Nat \ {0}
  /\ Punctual \in BOOLEAN
  /\ {MaxFlips, MaxRunNow, MaxSwitches, MaxFaults, MaxRedis, MaxCrashes} \subseteq Nat

VARIABLES
  row,        \* MonitorCheck rows: [life, enabled, lastStatus]
  due,        \* nextCheckAt is null or past
  history,    \* MonitorResult rows of a check, repeats collapsed, oldest first
  job,        \* Bull jobs: [check, state, made, max]
  tick,       \* a scheduler tick: [phase, picked]
  loop,       \* a job loop: [job, phase, prev, result]
  alerts,     \* MONITOR_UP / MONITOR_DOWN events queued, per check, oldest first
  reality,    \* what the target answers
  sweep,      \* the boot sweep: [phase, seen, orphans]
  used        \* how much of each bound is used

vars == <<row, due, history, job, tick, loop, alerts, reality, sweep, used>>

Status == {"UP", "DOWN"}

Row     == [life : {"new", "present", "deleted"}, enabled : BOOLEAN, lastStatus : Status \cup {"UNKNOWN"}]
Job     == [check : Checks \cup {NoCheck}, state : {"free", "waiting", "delayed", "active"},
            made : Nat, max : Nat, stalled : BOOLEAN]
Tick    == [phase : {"idle", "advance", "enqueue"}, picked : SUBSET Checks]
Loop    == [job : Jobs \cup {NoJob}, phase : {"idle", "read", "probe", "persist", "alert"},
            prev : Status \cup {"UNKNOWN"}, result : Status]
Sweep   == [phase : {"list", "compare", "remove", "done"}, seen : SUBSET (Jobs \X Checks),
            orphans : SUBSET (Jobs \X Checks)]

Bounds  == {"flips", "runs", "switches", "faults", "redis", "crash"}

Free    == [check |-> NoCheck, state |-> "free", made |-> 0, max |-> 0, stalled |-> FALSE]
IdleTick == [phase |-> "idle", picked |-> {}]
IdleLoop == [job |-> NoJob, phase |-> "idle", prev |-> "UNKNOWN", result |-> "UP"]
IdleSweep == [phase |-> "done", seen |-> {}, orphans |-> {}]

(* Every variable holds a state the database, Redis or a process can be in. *)
TypeOK ==
  /\ row \in [Checks -> Row] /\ due \in [Checks -> BOOLEAN]
  /\ history \in [Checks -> Seq(Status)] /\ alerts \in [Checks -> Seq(Status)]
  /\ job \in [Jobs -> Job] /\ tick \in [Ticks -> Tick] /\ loop \in [Loops -> Loop]
  /\ reality \in [Checks -> Status] /\ sweep \in Sweep
  /\ used \in [Bounds -> Nat]

Init ==
  /\ row = [c \in Checks |-> [life |-> "new", enabled |-> FALSE, lastStatus |-> "UNKNOWN"]]
  /\ due = [c \in Checks |-> FALSE]
  /\ history = [c \in Checks |-> <<>>]
  /\ alerts = [c \in Checks |-> <<>>]
  /\ job = [j \in Jobs |-> Free]
  /\ tick = [t \in Ticks |-> IdleTick]
  /\ loop = [l \in Loops |-> IdleLoop]
  /\ reality = [c \in Checks |-> "UP"]
  /\ sweep = IdleSweep
  /\ used = [kind \in Bounds |-> 0]

Use(kind, bound) ==
  /\ used[kind] < bound
  /\ used' = [used EXCEPT ![kind] = @ + 1]

Present(c) == row[c].life = "present"
Live(c)    == Present(c) /\ row[c].enabled

-----------------------------------------------------------------------------
(* The scheduler. *)

(* findMany: at most Batch enabled due checks, in no order. *)
TickRead(t) ==
  /\ tick[t] = IdleTick
  /\ \E picked \in SUBSET {c \in Checks : Live(c) /\ due[c]} :
       /\ picked # {} /\ Cardinality(picked) <= Batch
       /\ \/ picked = {c \in Checks : Live(c) /\ due[c]}
          \/ Cardinality(picked) = Batch
       /\ tick' = [tick EXCEPT ![t] = [phase |-> "advance", picked |-> picked]]
  /\ UNCHANGED <<row, due, history, job, loop, alerts, reality, sweep, used>>

(* Mutant: an overlap guard is set by the tick and not reset when the
   transaction throws. *)
TickAdvanceGuarded(t) ==
  /\ tick[t].phase = "advance"
  /\ \A c \in tick[t].picked : Present(c)
  /\ due' = [c \in Checks |-> IF c \in tick[t].picked THEN FALSE ELSE due[c]]
  /\ tick' = [tick EXCEPT ![t].phase = "enqueue"]
  /\ UNCHANGED <<row, history, job, loop, alerts, reality, sweep, used>>

(* $transaction of the updates of nextCheckAt: all of them, or none when one
   of the rows was deleted meanwhile or the database fails; then the tick
   throws and nothing is queued. *)
TickAdvance(t) ==
  /\ tick[t].phase = "advance"
  /\ LET picked == tick[t].picked IN
     \/ /\ \A c \in picked : Present(c)
        /\ due' = [c \in Checks |-> IF c \in picked THEN FALSE ELSE due[c]]
        /\ tick' = [tick EXCEPT ![t].phase = "enqueue"]
        /\ UNCHANGED used
     \/ /\ \E c \in picked : ~Present(c)
        /\ tick' = [tick EXCEPT ![t] = IdleTick]
        /\ UNCHANGED <<due, used>>
     \/ /\ Use("faults", MaxFaults)
        /\ tick' = [tick EXCEPT ![t] = IdleTick]
        /\ UNCHANGED due
  /\ UNCHANGED <<row, history, job, loop, alerts, reality, sweep>>

FreeJobs == {j \in Jobs : job[j].state = "free"}

AddJob(c, max) ==
  \E j \in FreeJobs :
    /\ j = CHOOSE k \in FreeJobs : TRUE
    /\ job' = [job EXCEPT ![j] = [Free EXCEPT !.check = c, !.state = "waiting", !.max = max]]

(* queue.add of one probe; a rejected add is logged and forgotten. *)
TickEnqueue(t, c) ==
  /\ tick[t].phase = "enqueue" /\ c \in tick[t].picked
  /\ LET rest == tick[t].picked \ {c}
     IN  tick' = [tick EXCEPT ![t] = IF rest = {} THEN IdleTick ELSE [phase |-> "enqueue", picked |-> rest]]
  /\ \/ AddJob(c, ProbeAttempts) /\ UNCHANGED used
     \/ Use("redis", MaxRedis) /\ UNCHANGED job
  /\ UNCHANGED <<row, due, history, loop, alerts, reality, sweep>>

(* intervalSec seconds passed since the advance. *)
Elapse(c) ==
  /\ Present(c) /\ ~due[c]
  /\ Punctual => /\ \A j \in Jobs : job[j].check # c
                 /\ \A t \in Ticks : c \notin tick[t].picked
  /\ due' = [due EXCEPT ![c] = TRUE]
  /\ UNCHANGED <<row, history, job, tick, loop, alerts, reality, sweep, used>>

-----------------------------------------------------------------------------
(* handleProbe on loop l, one phase per await. *)

Promote(j) ==
  /\ job[j].state = "delayed"
  /\ job' = [job EXCEPT ![j].state = "waiting"]
  /\ UNCHANGED <<row, due, history, tick, loop, alerts, reality, sweep, used>>

Take(l, j) ==
  /\ loop[l] = IdleLoop /\ job[j].state = "waiting"
  /\ job' = [job EXCEPT ![j].state = "active"]
  /\ loop' = [loop EXCEPT ![l] = [IdleLoop EXCEPT !.job = j, !.phase = "read"]]
  /\ UNCHANGED <<row, due, history, tick, alerts, reality, sweep, used>>

CheckOf(l) == job[loop[l].job].check

(* The handler returned: removeOnComplete. *)
Complete(l) ==
  /\ job' = [job EXCEPT ![loop[l].job] = Free]
  /\ loop' = [loop EXCEPT ![l] = IdleLoop]

AfterThrow(b) == IF b.made + 1 < b.max THEN [b EXCEPT !.made = @ + 1, !.state = "delayed"] ELSE Free

(* The handler threw: backoff while attempts are left, else the job fails for
   good (its retained hash has an id of its own and blocks nothing). *)
Throw(l) ==
  /\ job' = [job EXCEPT ![loop[l].job] = AfterThrow(job[loop[l].job])]
  /\ loop' = [loop EXCEPT ![l] = IdleLoop]

(* The row as the handler sees it from here on; missing or disabled: drop. *)
Read(l) ==
  /\ loop[l].phase = "read"
  /\ \/ /\ Live(CheckOf(l))
        /\ loop' = [loop EXCEPT ![l].phase = "probe", ![l].prev = row[CheckOf(l)].lastStatus]
        /\ UNCHANGED job
     \/ ~Live(CheckOf(l)) /\ Complete(l)
  /\ UNCHANGED <<row, due, history, tick, alerts, reality, sweep, used>>

(* The result of a network error on the last attempt. *)
LastError == "DOWN"

(* dispatchProbe: what the target answers, or a transient network error,
   which is retried while attempts are left. *)
Probe(l) ==
  /\ loop[l].phase = "probe"
  /\ \/ /\ loop' = [loop EXCEPT ![l].phase = "persist", ![l].result = reality[CheckOf(l)]]
        /\ UNCHANGED <<job, used>>
     \/ /\ Use("faults", MaxFaults)
        /\ LET j == job[loop[l].job] IN
           IF j.max - j.made - 1 > 0
             THEN Throw(l)
             ELSE loop' = [loop EXCEPT ![l].phase = "persist", ![l].result = LastError] /\ UNCHANGED job
  /\ UNCHANGED <<row, due, history, tick, alerts, reality, sweep>>

(* Mutant: the first result of a check is a transition too. *)
TransitionCountsFirst(prev, result) == prev # result

(* No transition, or first probe ever: nothing to alert on. *)
Transition(prev, result) == prev # result /\ prev # "UNKNOWN"

(* The $transaction of the result row and lastStatus; it throws when the
   check was deleted since it was read. *)
Persist(l) ==
  /\ loop[l].phase = "persist"
  /\ LET c == CheckOf(l)
         r == loop[l].result IN
     \/ /\ Present(c)
        /\ history' = [history EXCEPT ![c] = IF @ # <<>> /\ @[Len(@)] = r THEN @ ELSE Append(@, r)]
        /\ row' = [row EXCEPT ![c].lastStatus = r]
        /\ IF Transition(loop[l].prev, r)
             THEN loop' = [loop EXCEPT ![l].phase = "alert"] /\ UNCHANGED job
             ELSE Complete(l)
        /\ UNCHANGED used
     \/ /\ ~Present(c)
        /\ Throw(l)
        /\ UNCHANGED <<row, history, used>>
     \/ /\ Use("faults", MaxFaults)
        /\ Throw(l)
        /\ UNCHANGED <<row, history>>
  /\ UNCHANGED <<due, tick, alerts, reality, sweep>>

(* queueDispatch and enqueueRecompute, fire and forget; a rejected add of the
   dispatch is swallowed.  The recompute is in HealthRecompute. *)
Alert(l) ==
  /\ loop[l].phase = "alert"
  /\ \/ alerts' = [alerts EXCEPT ![CheckOf(l)] = Append(@, loop[l].result)] /\ UNCHANGED used
     \/ Use("redis", MaxRedis) /\ UNCHANGED alerts
  /\ Complete(l)
  /\ UNCHANGED <<row, due, history, tick, reality, sweep>>

-----------------------------------------------------------------------------
(* Operators and the outside world. *)

(* MonitorsService.create: first probe at the next scheduler tick. *)
Create(c) ==
  /\ row[c].life = "new"
  /\ \E b \in BOOLEAN : row' = [row EXCEPT ![c].life = "present", ![c].enabled = b]
  /\ due' = [due EXCEPT ![c] = TRUE]
  /\ UNCHANGED <<history, job, tick, loop, alerts, reality, sweep, used>>

(* MonitorsService.runNow: no look at enabled, a single attempt. *)
RunNow(c) ==
  /\ Present(c)
  /\ Use("runs", MaxRunNow)
  /\ AddJob(c, 1)
  /\ UNCHANGED <<row, due, history, tick, loop, alerts, reality, sweep>>

(* MonitorsService.update with { enabled }: nextCheckAt is left alone. *)
SetEnabled(c) ==
  /\ Present(c)
  /\ Use("switches", MaxSwitches)
  /\ row' = [row EXCEPT ![c].enabled = ~@]
  /\ UNCHANGED <<due, history, job, tick, loop, alerts, reality, sweep>>

(* MonitorsService.remove: the results go with the check. *)
Remove(c) ==
  /\ Present(c)
  /\ row' = [row EXCEPT ![c].life = "deleted"]
  /\ history' = [history EXCEPT ![c] = <<>>]
  /\ UNCHANGED <<due, job, tick, loop, alerts, reality, sweep, used>>

Flip(c) ==
  /\ Use("flips", MaxFlips)
  /\ reality' = [reality EXCEPT ![c] = IF @ = "UP" THEN "DOWN" ELSE "UP"]
  /\ UNCHANGED <<row, due, history, job, tick, loop, alerts, sweep>>

-----------------------------------------------------------------------------
(* Bull puts a stalled job back once (maxStalledCount: 1), then fails it. *)
Stalled(b) ==
  IF b.state # "active" THEN b
  ELSE IF b.stalled THEN Free
  ELSE [b EXCEPT !.state = "waiting", !.stalled = TRUE]

(* The worker restarts: ticks and loops are gone, the jobs they held have
   stalled, and onModuleInit starts the orphan sweep. *)
Restart ==
  /\ Use("crash", MaxCrashes)
  /\ tick' = [t \in Ticks |-> IdleTick]
  /\ loop' = [l \in Loops |-> IdleLoop]
  /\ job' = [j \in Jobs |-> Stalled(job[j])]
  /\ sweep' = [IdleSweep EXCEPT !.phase = "list"]
  /\ UNCHANGED <<row, due, history, alerts, reality>>

(* OrphanSweepService.sweep: list the jobs, ask the database which of their
   checks exist, remove the others' jobs one by one. *)
SweepList ==
  /\ sweep.phase = "list"
  /\ sweep' = [sweep EXCEPT !.phase = "compare", 
                 !.seen = {<<j, job[j].check>> : j \in {k \in Jobs : job[k].state # "free"}}]
  /\ UNCHANGED <<row, due, history, job, tick, loop, alerts, reality, used>>

(* Mutant: the sweep takes disabled checks for deleted ones. *)
SweepComparesEnabled ==
  /\ sweep.phase = "compare"
  /\ sweep' = [sweep EXCEPT !.phase = "remove", !.orphans = {o \in sweep.seen : ~Live(o[2])}]
  /\ UNCHANGED <<row, due, history, job, tick, loop, alerts, reality, used>>

SweepCompare ==
  /\ sweep.phase = "compare"
  /\ sweep' = [sweep EXCEPT !.phase = "remove",
                 !.orphans = {o \in sweep.seen : ~Present(o[2])}]
  /\ UNCHANGED <<row, due, history, job, tick, loop, alerts, reality, used>>

(* job.remove throws on an active job, whose lock the loop holds, and finds
   nothing when the job is gone (its slot may hold another job since). *)
SweepRemove(j, c) ==
  /\ sweep.phase = "remove" /\ <<j, c>> \in sweep.orphans
  /\ sweep' = [sweep EXCEPT !.orphans = @ \ {<<j, c>>}]
  /\ job' = IF job[j].state = "active" \/ job[j].check # c THEN job ELSE [job EXCEPT ![j] = Free]
  /\ UNCHANGED <<row, due, history, tick, loop, alerts, reality, used>>

SweepEnd ==
  /\ sweep.phase = "remove" /\ sweep.orphans = {}
  /\ sweep' = IdleSweep
  /\ UNCHANGED <<row, due, history, job, tick, loop, alerts, reality, used>>

-----------------------------------------------------------------------------
Scheduler(t) == TickRead(t) \/ TickAdvance(t) \/ \E c \in Checks : TickEnqueue(t, c)

Handler(l) == Read(l) \/ Probe(l) \/ Persist(l) \/ Alert(l)

Sweeper == SweepList \/ SweepCompare \/ SweepEnd \/ \E j \in Jobs, c \in Checks : SweepRemove(j, c)

Next ==
  \/ \E t \in Ticks : Scheduler(t)
  \/ \E l \in Loops : Handler(l)
  \/ \E l \in Loops, j \in Jobs : Take(l, j)
  \/ \E j \in Jobs : Promote(j)
  \/ \E c \in Checks : Elapse(c) \/ Create(c) \/ RunNow(c) \/ SetEnabled(c) \/ Remove(c) \/ Flip(c)
  \/ Restart \/ Sweeper

Safety == Init /\ [][Next]_vars

(* The scheduler ticks, time passes, Bull's timers fire, its waiting list is
   first in first out, and a handler that can go on does.  Operators, targets
   and faults are free. *)
Fairness ==
  /\ \A t \in Ticks : WF_vars(Scheduler(t))
  /\ \A l \in Loops : WF_vars(Handler(l))
  /\ \A j \in Jobs : WF_vars(Promote(j)) /\ SF_vars(\E l \in Loops : Take(l, j))
  /\ \A c \in Checks : WF_vars(Elapse(c))
  /\ WF_vars(Sweeper)

Spec == Safety /\ Fairness

-----------------------------------------------------------------------------
(* monitor.processor.ts:191-229: a handler goes on to alert exactly when its
   own write changed a known status of the check: no transition is announced
   twice and none is missed, though the status it compares with was read
   before the probe. *)
AlertIffChange ==
  [][\A l \in Loops :
       loop[l].phase = "persist" /\ loop'[l] # loop[l] =>
         LET c == CheckOf(l)
         IN  (loop'[l].phase = "alert") <=>
                (row[c].lastStatus # "UNKNOWN" /\ row'[c].lastStatus # row[c].lastStatus)]_vars

(* The alerts of a check are its status changes, in order: all of them while
   Redis and the worker do not fail, and never more than them. *)
AlertsFollowHistory ==
  \A c \in Checks : Present(c) =>
    LET changes == IF history[c] = <<>> THEN <<>> ELSE Tail(history[c])
        pending == Cardinality({l \in Loops : loop[l].phase = "alert" /\ CheckOf(l) = c})
    IN  /\ Len(alerts[c]) + pending <= Len(changes)
        /\ used["redis"] = 0 /\ used["crash"] = 0 =>
             Len(alerts[c]) + pending = Len(changes) /\ alerts[c] = SubSeq(changes, 1, Len(alerts[c]))

(* orphan-sweep.service.ts: only a job whose check was deleted is dropped
   before it ran, whatever is created, deleted and queued during the sweep. *)
OnlyOrphansDropped ==
  [][\A j \in Jobs :
       job[j].state \in {"waiting", "delayed"} /\ job'[j].state = "free" => ~Present(job[j].check)]_vars

(* monitor.scheduler.ts:74-77: at most one probe cycle is lost: a check that
   stays enabled is probed again and again, through rejected enqueues, rows
   deleted under a tick, failed transactions, retries and restarts. *)
ProbedForever ==
  \A c \in Checks : []<>(~Live(c) \/ \E l \in Loops : loop[l].phase = "persist" /\ CheckOf(l) = c)
=============================================================================
