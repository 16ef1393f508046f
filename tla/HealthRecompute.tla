-------------------------- MODULE HealthRecompute --------------------------
(***************************************************************************)
(* The per-site recompute pipeline: probe transitions and a 5-minute cron  *)
(* enqueue a job whose jobId is the site on the Bull queue health-recompute;*)
(* a worker reads the checks of the site, aggregates, and writes           *)
(* Site.healthStatus.                                                      *)
(*   health-aggregation.service.ts (enqueueRecompute, recomputeSite),      *)
(*   health-recompute.processor.ts, health-sync.scheduler.ts               *)
(*                                                                         *)
(* The content of the checks is abstracted to a version number per site    *)
(* (truth), the stored verdict to the version it was computed from (shown);*)
(* HealthAggregation says what the verdict is.  Bull and Redis are modelled*)
(* from the options the code passes: jobId, attempts, removeOnComplete,    *)
(* removeOnFail, and the defaults it leaves (a stalled job is retried      *)
(* MaxStalled times).                                                      *)
(***************************************************************************)
EXTENDS Integers, Sequences, FiniteSets

CONSTANTS
  Sites,
  Workers,        \* job loops taking from the queue, one job at a time each
  Attempts,       \* attempts: 2
  KeepFailed,     \* removeOnFail: 50
  MaxStalled,     \* Bull's default maxStalledCount: 1
  NoSite,
  MaxChanges,     \* bound: status transitions per site
  MaxDbFaults,    \* bound: failed reads or writes of the database
  MaxRedisFaults, \* bound: rejected queue.add calls
  MaxCrashes      \* bound: worker or API process crashes

ASSUME Parameters ==
  /\ NoSite \notin Sites
  /\ {Attempts, KeepFailed} \subseteq Nat \ {0} /\ MaxStalled \in Nat
  /\ {MaxChanges, MaxDbFaults, MaxRedisFaults, MaxCrashes} \subseteq Nat

VARIABLES
  exists,    \* sites with a row in the database
  truth,     \* version of the check rows of a site
  shown,     \* version Site.healthStatus was computed from
  owed,      \* sites with a committed transition and the enqueue still to run
  job,       \* the Bull job whose id is the site
  failed,    \* sites of the failed jobs Bull retains, oldest first
  worker,    \* the job a loop is in, and how far
  cron,      \* refreshAllSites: isRunning and the sites still to enqueue
  faults     \* how many of each fault happened

vars == <<exists, truth, shown, owed, job, failed, worker, cron, faults>>

NoJob   == [state |-> "none", attempts |-> 0, stalled |-> 0]
Idle    == [site |-> NoSite, phase |-> "idle", seen |-> 0]
CronOff == [running |-> FALSE, todo |-> {}]

Job  == [state : {"none", "delayed", "waiting", "active", "failed"}, attempts : Nat, stalled : Nat]
Loop == [site : Sites \cup {NoSite}, phase : {"idle", "read", "write", "complete"}, seen : Nat]

(* The state of every variable is one the code and Bull can produce. *)
TypeOK ==
  /\ exists \subseteq Sites
  /\ truth \in [Sites -> Nat] /\ shown \in [Sites -> Nat]
  /\ owed \subseteq Sites
  /\ job \in [Sites -> Job]
  /\ failed \in Seq(Sites)
  /\ worker \in [Workers -> Loop]
  /\ cron \in [running : BOOLEAN, todo : SUBSET Sites]
  /\ faults \in [db : Nat, redis : Nat, crash : Nat]

Init ==
  /\ exists = Sites
  /\ truth = [s \in Sites |-> 0]
  /\ shown = [s \in Sites |-> 0]
  /\ owed = {}
  /\ job = [s \in Sites |-> NoJob]
  /\ failed = <<>>
  /\ worker = [w \in Workers |-> Idle]
  /\ cron = CronOff
  /\ faults = [db |-> 0, redis |-> 0, crash |-> 0]

Fault(kind, bound) ==
  /\ faults[kind] < bound
  /\ faults' = [faults EXCEPT ![kind] = @ + 1]

-----------------------------------------------------------------------------
(* Bull. *)

(* Mutant: no jobId, so an add while the site's job is active schedules a
   second one. *)
AddWithoutJobId(s) == job' = [job EXCEPT ![s] = [NoJob EXCEPT !.state = "delayed"]]

(* queue.add with a jobId: a no-op while a job of that id exists in any
   state, the retained failed one included. *)
Add(s) ==
  job' = IF job[s].state = "none" THEN [job EXCEPT ![s] = [NoJob EXCEPT !.state = "delayed"]] ELSE job

(* A job that failed for good is kept among the last KeepFailed ones. *)
Retain(s, j) ==
  LET full == Len(failed) = KeepFailed
  IN  /\ failed' = Append(IF full THEN Tail(failed) ELSE failed, s)
      /\ job' = [t \in Sites |-> IF t = s THEN [j EXCEPT !.state = "failed"]
                                 ELSE IF full /\ t = Head(failed) THEN NoJob
                                 ELSE job[t]]

(* The handler threw: retry after the backoff, or give up. *)
Throw(s) ==
  LET j == [job[s] EXCEPT !.attempts = @ + 1]
  IN  IF j.attempts < Attempts
        THEN job' = [job EXCEPT ![s] = [j EXCEPT !.state = "delayed"]] /\ failed' = failed
        ELSE Retain(s, j)

(* The delay (300 ms, or the backoff) elapsed. *)
Promote(s) ==
  /\ job[s].state = "delayed"
  /\ job' = [job EXCEPT ![s].state = "waiting"]
  /\ UNCHANGED <<exists, truth, shown, owed, failed, worker, cron, faults>>

(* An active job whose holder died is put back, MaxStalled times. *)
Stalled(s) ==
  /\ job[s].state = "active"
  /\ \A w \in Workers : worker[w].site # s
  /\ LET j == [job[s] EXCEPT !.stalled = @ + 1]
     IN  IF j.stalled > MaxStalled
           THEN Retain(s, j)
           ELSE job' = [job EXCEPT ![s] = [j EXCEPT !.state = "waiting"]] /\ failed' = failed
  /\ UNCHANGED <<exists, truth, shown, owed, worker, cron, faults>>

-----------------------------------------------------------------------------
(* enqueueRecompute: the add may be rejected, and the error is swallowed. *)
EnqueueRecompute(s) ==
  \/ Add(s) /\ UNCHANGED faults
  \/ Fault("redis", MaxRedisFaults) /\ UNCHANGED job

(* A probe result with a status change was committed (persistResult); the
   enqueue that follows is fire and forget. *)
Transition(s) ==
  /\ s \in exists /\ truth[s] < MaxChanges
  /\ truth' = [truth EXCEPT ![s] = @ + 1]
  /\ owed' = owed \cup {s}
  /\ UNCHANGED <<exists, shown, job, failed, worker, cron, faults>>

ProbeEnqueue(s) ==
  /\ s \in owed
  /\ owed' = owed \ {s}
  /\ EnqueueRecompute(s)
  /\ UNCHANGED <<exists, truth, shown, failed, worker, cron>>

(* refreshAllSites: skipped while running; the list of sites may fail to load. *)
CronTick ==
  /\ ~cron.running
  /\ \/ cron' = [running |-> TRUE, todo |-> exists] /\ UNCHANGED faults
     \/ Fault("db", MaxDbFaults) /\ UNCHANGED cron
  /\ UNCHANGED <<exists, truth, shown, owed, job, failed, worker>>

CronStep(s) ==
  /\ s \in cron.todo
  /\ cron' = [cron EXCEPT !.todo = @ \ {s}]
  /\ EnqueueRecompute(s)
  /\ UNCHANGED <<exists, truth, shown, owed, failed, worker>>

(* The finally block. *)
CronEnd ==
  /\ cron.running /\ cron.todo = {}
  /\ cron' = CronOff
  /\ UNCHANGED <<exists, truth, shown, owed, job, failed, worker, faults>>

-----------------------------------------------------------------------------
(* HealthRecomputeProcessor.handle on loop w, one phase per await. *)

Take(w, s) ==
  /\ worker[w] = Idle /\ job[s].state = "waiting"
  /\ job' = [job EXCEPT ![s].state = "active"]
  /\ worker' = [worker EXCEPT ![w] = [site |-> s, phase |-> "read", seen |-> 0]]
  /\ UNCHANGED <<exists, truth, shown, owed, failed, cron, faults>>

Fail(w) ==
  /\ Throw(worker[w].site)
  /\ worker' = [worker EXCEPT ![w] = Idle]

(* site.findUnique with every check: throws when the site is gone. *)
Read(w) ==
  /\ worker[w].phase = "read"
  /\ \/ /\ worker[w].site \in exists
        /\ worker' = [worker EXCEPT ![w].phase = "write", ![w].seen = truth[worker[w].site]]
        /\ UNCHANGED <<job, failed, faults>>
     \/ worker[w].site \notin exists /\ Fail(w) /\ UNCHANGED faults
     \/ Fault("db", MaxDbFaults) /\ Fail(w)
  /\ UNCHANGED <<exists, truth, shown, owed, cron>>

(* The $transaction of site.update and siteHealthSnapshot.upsert: site.update
   throws when the site is gone. *)
Write(w) ==
  /\ worker[w].phase = "write"
  /\ LET s == worker[w].site IN
     \/ /\ s \in exists
        /\ shown' = [shown EXCEPT ![s] = worker[w].seen]
        /\ worker' = [worker EXCEPT ![w].phase = "complete"]
        /\ UNCHANGED <<job, failed, faults>>
     \/ s \notin exists /\ Fail(w) /\ UNCHANGED <<shown, faults>>
     \/ Fault("db", MaxDbFaults) /\ Fail(w) /\ UNCHANGED shown
  /\ UNCHANGED <<exists, truth, owed, cron>>

(* Mutant: without removeOnComplete the job hash stays. *)
CompleteKeepsJob(w) ==
  /\ worker[w].phase = "complete"
  /\ job' = [job EXCEPT ![worker[w].site].state = "completed"]
  /\ worker' = [worker EXCEPT ![w] = Idle]
  /\ UNCHANGED <<exists, truth, shown, owed, failed, cron, faults>>

(* removeOnComplete: the jobId is free again. *)
Complete(w) ==
  /\ worker[w].phase = "complete"
  /\ job' = [job EXCEPT ![worker[w].site] = NoJob]
  /\ worker' = [worker EXCEPT ![w] = Idle]
  /\ UNCHANGED <<exists, truth, shown, owed, failed, cron, faults>>

-----------------------------------------------------------------------------
(* A worker process dies: the job loops in it, and the enqueues it still
   owed, are gone.  The job hashes stay in Redis. *)
WorkerCrash(w) ==
  /\ Fault("crash", MaxCrashes)
  /\ worker' = [worker EXCEPT ![w] = Idle]
  /\ owed' = {}
  /\ UNCHANGED <<exists, truth, shown, job, failed, cron>>

(* The API process dies: the cron starts afresh. *)
ApiCrash ==
  /\ Fault("crash", MaxCrashes)
  /\ cron' = CronOff
  /\ UNCHANGED <<exists, truth, shown, owed, job, failed, worker>>

RemoveSite(s) ==
  /\ s \in exists
  /\ exists' = exists \ {s}
  /\ UNCHANGED <<truth, shown, owed, job, failed, worker, cron, faults>>

Next ==
  \/ \E s \in Sites : \/ Transition(s) \/ ProbeEnqueue(s) \/ CronStep(s)
                      \/ Promote(s) \/ Stalled(s) \/ RemoveSite(s)
  \/ \E w \in Workers : \/ Read(w) \/ Write(w) \/ Complete(w) \/ WorkerCrash(w)
                        \/ \E s \in Sites : Take(w, s)
  \/ CronTick \/ CronEnd \/ ApiCrash

Safety == Init /\ [][Next]_vars

(* The timers of Bull and of the cron fire, and a process that has something
   to do goes on; nothing makes probes, faults or crashes happen.  A loop may
   always find another site waiting, so taking a given job needs more. *)
Fairness ==
  /\ WF_vars(CronTick) /\ WF_vars(CronEnd)
  /\ \A s \in Sites : WF_vars(ProbeEnqueue(s)) /\ WF_vars(CronStep(s)) /\ WF_vars(Promote(s)) /\ WF_vars(Stalled(s))
  /\ \A w \in Workers : WF_vars(Read(w)) /\ WF_vars(Write(w)) /\ WF_vars(Complete(w))
  /\ \A s \in Sites : SF_vars(\E w \in Workers : Take(w, s))

Spec == Safety /\ Fairness

-----------------------------------------------------------------------------
Holder(s) == {w \in Workers : worker[w].site = s}

(* health-recompute.processor.ts:19-23: no two recomputes of one site
   overlap, however probes, crons, retries, crashes and stalled jobs
   interleave; so a stale verdict never overwrites a fresh one. *)
Serialized ==
  \A s \in Sites : Cardinality(Holder(s)) <= 1 /\ (Holder(s) # {} => job[s].state = "active")

(* What a reader of Site.healthStatus is promised. *)
View == INSTANCE HealthView WITH Sites <- Sites, exists <- exists, truth <- truth, shown <- shown

(* The stored health never goes back, and catches up with the checks. *)
Implements == View!Spec

=============================================================================
