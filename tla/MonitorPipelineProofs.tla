----------------------- MODULE MonitorPipelineProofs -----------------------
(***************************************************************************)
(* Proofs about the monitoring pipeline, for every set of checks, ticks,   *)
(* loops and jobs and every bound.                                         *)
(***************************************************************************)
EXTENDS MonitorPipeline, FiniteSetTheorems, SequenceTheorems, TLAPS

(* A loop that handles a job holds it: the job is active until the handler
   ends, so neither the sweep, nor an add, nor another loop touches it. *)
LoopsHoldJobs ==
  \A l \in Loops : loop[l].phase # "idle" => loop[l].job \in Jobs /\ job[loop[l].job].state = "active"
OneHolder ==
  \A l, m \in Loops : l # m /\ loop[l].phase # "idle" /\ loop[m].phase # "idle" => loop[l].job # loop[m].job

(* What ticks, jobs and the sweep name are checks that exist or existed. *)
JobsKnown    == \A j \in Jobs : job[j].state # "free" => job[j].check \in Checks /\ row[job[j].check].life # "new"
PickedKnown  == \A t \in Ticks : \A c \in tick[t].picked : row[c].life # "new"
SeenKnown    == \A o \in sweep.seen : row[o[2]].life # "new"
OrphansKnown == \A o \in sweep.orphans : row[o[2]].life = "deleted"

Inv == TypeOK /\ LoopsHoldJobs /\ OneHolder /\ JobsKnown /\ PickedKnown /\ SeenKnown /\ OrphansKnown

(* The records and the bounds have the shape TypeOK names. *)
LEMMA Shapes ==
  /\ Free \in Job /\ IdleTick \in Tick /\ IdleLoop \in Loop /\ IdleSweep \in Sweep
  /\ ProbeAttempts \in Nat
BY Parameters, SMT DEF Free, IdleTick, IdleLoop, IdleSweep, Job, Tick, Loop, Sweep, Status

(* A job that is retried or stalled is a job. *)
LEMMA JobFields ==
  ASSUME NEW b \in Job
  PROVE  /\ b.made \in Nat /\ b.max \in Nat
         /\ [b EXCEPT !.made = @ + 1, !.state = "delayed"] \in Job
         /\ \A s \in {"waiting", "active"} : [b EXCEPT !.state = s] \in Job
         /\ [b EXCEPT !.state = "waiting", !.stalled = TRUE] \in Job
<1>1. b.made \in Nat /\ b.max \in Nat
  BY DEF Job
<1>2. [b EXCEPT !.made = @ + 1, !.state = "delayed"] \in Job
  <2>1. b.made + 1 \in Nat
    BY <1>1
  <2>2. \A n \in Nat : [b EXCEPT !.made = n, !.state = "delayed"] \in Job
    BY DEF Job
  <2> QED BY <2>1, <2>2
<1> QED BY <1>1, <1>2 DEF Job

(* The records a tick and a loop become are ticks and loops. *)
LEMMA ProcessFields ==
  /\ \A k \in Tick : [k EXCEPT !.phase = "enqueue"] \in Tick
  /\ \A k \in Loop, s \in Status \cup {"UNKNOWN"} : [k EXCEPT !.phase = "probe", !.prev = s] \in Loop
  /\ \A k \in Loop, s \in Status : [k EXCEPT !.phase = "persist", !.result = s] \in Loop
  /\ \A k \in Loop : [k EXCEPT !.phase = "alert"] \in Loop
  /\ \A j \in Jobs : [IdleLoop EXCEPT !.job = j, !.phase = "read"] \in Loop
BY DEF Tick, Loop, IdleLoop, Status

(* A bound that is used up counts naturals. *)
LEMMA UseType ==
  ASSUME TypeOK, NEW k \in Bounds, NEW b, Use(k, b)
  PROVE  used' \in [Bounds -> Nat]
BY DEF TypeOK, Use

(* The row that queue.add writes. *)
LEMMA AddJobType ==
  ASSUME TypeOK, NEW c \in Checks, NEW n \in Nat, AddJob(c, n)
  PROVE  job' \in [Jobs -> Job]
<1> DEFINE new == [Free EXCEPT !.check = c, !.state = "waiting", !.max = n]
<1>1. new \in Job
  BY DEF Free, Job
<1>2. PICK j \in FreeJobs : job' = [job EXCEPT ![j] = new]
  BY DEF AddJob
<1> HIDE DEF new
<1> QED BY <1>1, <1>2 DEF TypeOK, FreeJobs

(* Completing and throwing keep jobs and loops typed. *)
LEMMA EndType ==
  ASSUME TypeOK, LoopsHoldJobs, NEW l \in Loops, loop[l].phase # "idle", Complete(l) \/ Throw(l)
  PROVE  job' \in [Jobs -> Job] /\ loop' \in [Loops -> Loop]
<1> DEFINE j == loop[l].job
<1>1. j \in Jobs /\ job[j] \in Job
  BY DEF LoopsHoldJobs, TypeOK
<1>3. CASE Complete(l)
  BY <1>1, <1>3, Shapes DEF Complete, TypeOK
<1>4. CASE Throw(l)
  <2>1. AfterThrow(job[j]) \in Job
    BY <1>1, JobFields, Shapes DEF AfterThrow
  <2> QED BY <1>1, <1>4, <2>1, Shapes DEF Throw, TypeOK
<1> QED BY <1>3, <1>4

(* A stalled job is still a job. *)
LEMMA StalledType ==
  ASSUME NEW b \in Job
  PROVE  Stalled(b) \in Job
BY JobFields, Shapes DEF Stalled

(* The steps of the scheduler and of Bull keep TypeOK. *)
LEMMA TypeScheduler ==
  ASSUME TypeOK, NEW t \in Ticks, Scheduler(t)
  PROVE  TypeOK'
<1>1. CASE TickRead(t)
  <2>1. PICK picked \in SUBSET Checks : tick' = [tick EXCEPT ![t] = [phase |-> "advance", picked |-> picked]]
    BY <1>1 DEF TickRead
  <2>2. tick' \in [Ticks -> Tick]
    BY <2>1 DEF TypeOK, Tick
  <2> QED BY <1>1, <2>2 DEF TickRead, TypeOK
<1>2. CASE TickAdvance(t)
  <2>1. due' \in [Checks -> BOOLEAN]
    BY <1>2 DEF TickAdvance, TypeOK
  <2>2. tick' \in [Ticks -> Tick]
    <3> DEFINE next == [tick[t] EXCEPT !.phase = "enqueue"]
    <3>1. next \in Tick
      BY ProcessFields DEF TypeOK
    <3>2. tick' = [tick EXCEPT ![t] = next] \/ tick' = [tick EXCEPT ![t] = IdleTick]
      BY <1>2 DEF TickAdvance, TypeOK
    <3> HIDE DEF next
    <3> QED BY <3>1, <3>2, Shapes DEF TypeOK
  <2>3. used' \in [Bounds -> Nat]
    BY <1>2, UseType DEF Bounds, TickAdvance, TypeOK
  <2> QED BY <1>2, <2>1, <2>2, <2>3 DEF TickAdvance, TypeOK
<1>3. ASSUME NEW c \in Checks, TickEnqueue(t, c)
      PROVE  TypeOK'
  <2>1. tick' \in [Ticks -> Tick]
    <3> DEFINE rest == tick[t].picked \ {c}
               next == IF rest = {} THEN IdleTick ELSE [phase |-> "enqueue", picked |-> rest]
    <3>1. rest \in SUBSET Checks
      BY DEF TypeOK, Tick
    <3>2. next \in Tick
      BY <3>1, Shapes DEF Tick
    <3>3. tick' = [tick EXCEPT ![t] = next]
      BY <1>3 DEF TickEnqueue
    <3> HIDE DEF next
    <3> QED BY <3>2, <3>3 DEF TypeOK
  <2>2. job' \in [Jobs -> Job]
    BY <1>3, AddJobType, Shapes DEF TickEnqueue, TypeOK
  <2>3. used' \in [Bounds -> Nat]
    BY <1>3, UseType DEF Bounds, TickEnqueue, TypeOK
  <2> QED BY <1>3, <2>1, <2>2, <2>3 DEF TickEnqueue, TypeOK
<1> QED BY <1>1, <1>2, <1>3 DEF Scheduler

(* The steps of a handler keep TypeOK. *)
LEMMA TypeHandler ==
  ASSUME TypeOK, LoopsHoldJobs, JobsKnown, NEW l \in Loops, Handler(l)
  PROVE  TypeOK'
<1>1. CheckOf(l) \in Checks /\ loop[l] \in Loop
  BY DEF Handler, Read, Probe, Persist, Alert, CheckOf, LoopsHoldJobs, JobsKnown, TypeOK, Complete
<1>2. CASE Read(l)
  <2>1. CASE Complete(l)
    BY <1>2, <2>1, EndType DEF Read, TypeOK
  <2>2. CASE ~Complete(l)
    <3> DEFINE s == row[CheckOf(l)].lastStatus
               next == [loop[l] EXCEPT !.phase = "probe", !.prev = s]
    <3>2. s \in Status \cup {"UNKNOWN"}
      BY <1>1 DEF TypeOK, Row
    <3>3. next \in Loop
      BY <1>1, <3>2, ProcessFields
    <3>4. loop' = [loop EXCEPT ![l] = next]
      BY <1>2, <2>2 DEF Read, TypeOK
    <3> HIDE DEF next
    <3>1. loop' \in [Loops -> Loop]
      BY <3>3, <3>4 DEF TypeOK
    <3> QED BY <1>2, <2>2, <3>1 DEF Read, TypeOK
  <2> QED BY <2>1, <2>2
<1>3. CASE Probe(l)
  <2>1. used' \in [Bounds -> Nat]
    BY <1>3, UseType DEF Bounds, Probe, TypeOK
  <2>2. job' \in [Jobs -> Job] /\ loop' \in [Loops -> Loop]
    <3>1. CASE Throw(l)
      BY <1>3, <3>1, EndType DEF Probe
    <3>2. CASE ~Throw(l)
      <4>1. PICK s \in Status : loop' = [loop EXCEPT ![l] = [loop[l] EXCEPT !.phase = "persist", !.result = s]]
        BY <1>1, <1>3, <3>2 DEF Probe, TypeOK, LastError, Status
      <4>2. [loop[l] EXCEPT !.phase = "persist", !.result = s] \in Loop
        BY <1>1, ProcessFields
      <4>3. job' = job
        BY <1>3, <3>2 DEF Probe
      <4> QED BY <4>1, <4>2, <4>3 DEF TypeOK
    <3> QED BY <3>1, <3>2
  <2> QED BY <1>3, <2>1, <2>2 DEF Probe, TypeOK
<1>4. CASE Persist(l)
  <2> DEFINE c == CheckOf(l)
             r == loop[l].result
  <2>1. used' \in [Bounds -> Nat]
    BY <1>4, UseType DEF Bounds, Persist, TypeOK
  <2>2. job' \in [Jobs -> Job] /\ loop' \in [Loops -> Loop]
    <3>1. CASE Throw(l) \/ Complete(l)
      BY <1>4, <3>1, EndType DEF Persist
    <3>2. CASE ~Throw(l) /\ ~Complete(l)
      <4> DEFINE next == [loop[l] EXCEPT !.phase = "alert"]
      <4>1. loop' = [loop EXCEPT ![l] = next] /\ job' = job
        BY <1>4, <3>2 DEF Persist, TypeOK
      <4>2. next \in Loop
        BY <1>1, ProcessFields
      <4> HIDE DEF next
      <4> QED BY <4>1, <4>2 DEF TypeOK
    <3> QED BY <3>1, <3>2
  <2>3. r \in Status
    BY <1>1 DEF Loop
  <2>4. row' \in [Checks -> Row]
    <3>1. [row[c] EXCEPT !.lastStatus = r] \in Row
      BY <1>1, <2>3 DEF TypeOK, Row
    <3>2. row' = row \/ row' = [row EXCEPT ![c] = [row[c] EXCEPT !.lastStatus = r]]
      BY <1>1, <1>4 DEF Persist, TypeOK
    <3> QED BY <1>1, <3>1, <3>2 DEF TypeOK
  <2>5. history' \in [Checks -> Seq(Status)]
    <3>1. history[c] \in Seq(Status) /\ Append(history[c], r) \in Seq(Status)
      BY <1>1, <2>3 DEF TypeOK
    <3>2. \/ history' = history
          \/ history' = [history EXCEPT ![c] = Append(history[c], r)]
          \/ history' = [history EXCEPT ![c] = history[c]]
      BY <1>1, <1>4 DEF Persist, TypeOK
    <3> QED BY <1>1, <3>1, <3>2 DEF TypeOK
  <2> QED BY <1>4, <2>1, <2>2, <2>4, <2>5 DEF Persist, TypeOK
<1>5. CASE Alert(l)
  <2>1. job' \in [Jobs -> Job] /\ loop' \in [Loops -> Loop]
    BY <1>5, EndType DEF Alert
  <2>2. alerts' \in [Checks -> Seq(Status)]
    <3>1. Append(alerts[CheckOf(l)], loop[l].result) \in Seq(Status)
      BY <1>1 DEF TypeOK, Loop
    <3> QED BY <1>1, <1>5, <3>1 DEF Alert, TypeOK
  <2>3. used' \in [Bounds -> Nat]
    BY <1>5, UseType DEF Bounds, Alert, TypeOK
  <2> QED BY <1>5, <2>1, <2>2, <2>3 DEF Alert, TypeOK
<1> QED BY <1>2, <1>3, <1>4, <1>5 DEF Handler

(* The rows that Create, SetEnabled, Remove and Persist write. *)
LEMMA RowFields ==
  ASSUME NEW r \in Row
  PROVE  /\ r.lastStatus \in Status \cup {"UNKNOWN"} /\ r.enabled \in BOOLEAN
         /\ \A b \in BOOLEAN : [r EXCEPT !.life = "present", !.enabled = b] \in Row
         /\ [r EXCEPT !.enabled = ~@] \in Row
         /\ [r EXCEPT !.life = "deleted"] \in Row
BY DEF Row

(* The steps of operators, of the outside world and of Bull keep TypeOK. *)
LEMMA TypeOthers ==
  ASSUME TypeOK,
         \/ \E c \in Checks : Elapse(c) \/ Create(c) \/ RunNow(c) \/ SetEnabled(c) \/ Remove(c) \/ Flip(c)
         \/ \E l \in Loops, j \in Jobs : Take(l, j)
         \/ \E j \in Jobs : Promote(j)
         \/ Restart
  PROVE  TypeOK'
<1> USE DEF TypeOK
<1>1. ASSUME NEW c \in Checks, Elapse(c)
      PROVE  TypeOK'
  BY <1>1 DEF Elapse
<1>2. ASSUME NEW c \in Checks, Create(c)
      PROVE  TypeOK'
  <2>1. PICK b \in BOOLEAN : row' = [row EXCEPT ![c] = [row[c] EXCEPT !.life = "present", !.enabled = b]]
    BY <1>2 DEF Create
  <2>2. row' \in [Checks -> Row]
    BY <2>1, RowFields
  <2> QED BY <1>2, <2>2 DEF Create
<1>3. ASSUME NEW c \in Checks, RunNow(c)
      PROVE  TypeOK'
  BY <1>3, UseType, AddJobType DEF RunNow, Bounds
<1>4. ASSUME NEW c \in Checks, SetEnabled(c)
      PROVE  TypeOK'
  <2>1. row' = [row EXCEPT ![c] = [row[c] EXCEPT !.enabled = ~@]]
    BY <1>4 DEF SetEnabled
  <2>2. row' \in [Checks -> Row]
    BY <2>1, RowFields
  <2> QED BY <1>4, <2>2, UseType DEF SetEnabled, Bounds
<1>5. ASSUME NEW c \in Checks, Remove(c)
      PROVE  TypeOK'
  <2>1. row' = [row EXCEPT ![c] = [row[c] EXCEPT !.life = "deleted"]]
    BY <1>5 DEF Remove
  <2>2. row' \in [Checks -> Row]
    BY <2>1, RowFields
  <2>3. history' \in [Checks -> Seq(Status)]
    BY <1>5 DEF Remove
  <2> QED BY <1>5, <2>2, <2>3 DEF Remove
<1>6. ASSUME NEW c \in Checks, Flip(c)
      PROVE  TypeOK'
  BY <1>6, UseType DEF Flip, Bounds, Status
<1>7. ASSUME NEW l \in Loops, NEW j \in Jobs, Take(l, j)
      PROVE  TypeOK'
  <2>1. job' = [job EXCEPT ![j] = [job[j] EXCEPT !.state = "active"]]
    BY <1>7 DEF Take
  <2>2. job' \in [Jobs -> Job]
    BY <2>1, JobFields
  <2>3. loop' \in [Loops -> Loop]
    BY <1>7, ProcessFields DEF Take
  <2> QED BY <1>7, <2>2, <2>3 DEF Take
<1>8. ASSUME NEW j \in Jobs, Promote(j)
      PROVE  TypeOK'
  <2>1. job' = [job EXCEPT ![j] = [job[j] EXCEPT !.state = "waiting"]]
    BY <1>8 DEF Promote
  <2>2. job' \in [Jobs -> Job]
    BY <2>1, JobFields
  <2> QED BY <1>8, <2>2 DEF Promote
<1>9. CASE Restart
  <2>1. job' \in [Jobs -> Job]
    BY <1>9, StalledType DEF Restart
  <2>2. sweep' \in Sweep
    BY <1>9 DEF Restart, IdleSweep, Sweep
  <2> QED BY <1>9, <2>1, <2>2, Shapes, UseType DEF Restart, Bounds
<1> QED BY <1>1, <1>2, <1>3, <1>4, <1>5, <1>6, <1>7, <1>8, <1>9

(* The steps of the sweep keep TypeOK. *)
LEMMA TypeSweeper ==
  ASSUME TypeOK, JobsKnown, Sweeper
  PROVE  TypeOK'
<1>1. sweep' \in Sweep
  <2>1. CASE SweepList
    <3> DEFINE seen == {<<j, job[j].check>> : j \in {k \in Jobs : job[k].state # "free"}}
    <3>1. seen \in SUBSET (Jobs \X Checks)
      BY DEF JobsKnown
    <3>2. sweep' = [sweep EXCEPT !.phase = "compare", !.seen = seen]
      BY <2>1 DEF SweepList
    <3> HIDE DEF seen
    <3> QED BY <3>1, <3>2 DEF TypeOK, Sweep
  <2>2. CASE SweepCompare
    <3> DEFINE orphans == {o \in sweep.seen : ~Present(o[2])}
    <3>1. orphans \in SUBSET (Jobs \X Checks)
      BY DEF TypeOK, Sweep
    <3>2. sweep' = [sweep EXCEPT !.phase = "remove", !.orphans = orphans]
      BY <2>2 DEF SweepCompare
    <3> HIDE DEF orphans
    <3> QED BY <3>1, <3>2 DEF TypeOK, Sweep
  <2>3. CASE SweepEnd
    BY <2>3, Shapes DEF SweepEnd
  <2>4. ASSUME NEW j \in Jobs, NEW c \in Checks, SweepRemove(j, c)
        PROVE  sweep' \in Sweep
    BY <2>4 DEF SweepRemove, TypeOK, Sweep
  <2> QED BY <2>1, <2>2, <2>3, <2>4 DEF Sweeper
<1>2. job' \in [Jobs -> Job]
  BY Shapes DEF Sweeper, SweepList, SweepCompare, SweepEnd, SweepRemove, TypeOK
<1> QED BY <1>1, <1>2 DEF Sweeper, SweepList, SweepCompare, SweepEnd, SweepRemove, TypeOK

-----------------------------------------------------------------------------
(* A check that existed exists or was deleted, for good. *)
LEMMA LifeGoesOn ==
  ASSUME Inv, Next
  PROVE  \A c \in Checks : /\ row[c].life # "new" => row'[c].life # "new"
                           /\ row[c].life = "deleted" => row'[c].life = "deleted"
<1>1. ASSUME NEW l \in Loops, Handler(l)
      PROVE  \A c \in Checks : row'[c].life = row[c].life
  <2>1. CASE row' = row
    BY <2>1
  <2>2. CASE row' # row
    <3>1. row' = [row EXCEPT ![CheckOf(l)] = [row[CheckOf(l)] EXCEPT !.lastStatus = loop[l].result]]
      BY <1>1, <2>2 DEF Handler, Read, Probe, Persist, Alert
    <3> QED BY <3>1 DEF Inv, TypeOK, Row
  <2> QED BY <2>1, <2>2
<1>2. ASSUME NEW d \in Checks, Create(d) \/ SetEnabled(d) \/ Remove(d)
      PROVE  \A c \in Checks : /\ row[c].life # "new" => row'[c].life # "new"
                               /\ row[c].life = "deleted" => row'[c].life = "deleted"
  <2>1. row[d] \in Row
    BY DEF Inv, TypeOK
  <2>2. CASE Create(d)
    <3>1. PICK b \in BOOLEAN : row' = [row EXCEPT ![d] = [row[d] EXCEPT !.life = "present", !.enabled = b]]
      BY <2>2 DEF Create
    <3> QED BY <2>1, <2>2, <3>1 DEF Create, Inv, TypeOK, Row
  <2>3. CASE SetEnabled(d)
    <3>1. row' = [row EXCEPT ![d] = [row[d] EXCEPT !.enabled = ~@]]
      BY <2>3 DEF SetEnabled
    <3> QED BY <2>1, <3>1 DEF Inv, TypeOK, Row
  <2>4. CASE Remove(d)
    <3>1. row' = [row EXCEPT ![d] = [row[d] EXCEPT !.life = "deleted"]]
      BY <2>4 DEF Remove
    <3> QED BY <2>1, <3>1 DEF Inv, TypeOK, Row
  <2> QED BY <1>2, <2>2, <2>3, <2>4
<1>3. CASE row' = row
  BY <1>3
<1> QED BY <1>1, <1>2, <1>3 DEF Next, Scheduler, TickRead, TickAdvance, TickEnqueue, Take, Promote,
           Elapse, RunNow, Flip, Restart, Sweeper, SweepList, SweepCompare, SweepEnd, SweepRemove

(* A handler goes on with the job it holds, and other loops with theirs. *)
LEMMA HandlerStep ==
  ASSUME Inv, NEW l \in Loops, Handler(l)
  PROVE  /\ loop[l].phase # "idle"
         /\ \A m \in Loops \ {l} : loop'[m] = loop[m]
         /\ \A j \in Jobs \ {loop[l].job} : job'[j] = job[j]
         /\ \/ loop'[l] = IdleLoop
            \/ loop'[l].phase # "idle" /\ loop'[l].job = loop[l].job /\ job' = job
         /\ \/ job'[loop[l].job] = Free
            \/ job'[loop[l].job].check = job[loop[l].job].check
<1> DEFINE j == loop[l].job
<1>1. loop[l].phase # "idle"
  BY DEF Handler, Read, Probe, Persist, Alert
<1>2. j \in Jobs /\ job[j] \in Job /\ loop[l] \in Loop
  BY <1>1 DEF Inv, TypeOK, LoopsHoldJobs
<1>3. CASE Complete(l)
  BY <1>1, <1>2, <1>3 DEF Complete, Inv, TypeOK
<1>4. CASE Throw(l)
  <2>1. AfterThrow(job[j]) = Free \/ AfterThrow(job[j]).check = job[j].check
    BY <1>2 DEF AfterThrow, Job
  <2> QED BY <1>1, <1>2, <1>4, <2>1 DEF Throw, Inv, TypeOK
<1>5. CASE ~Complete(l) /\ ~Throw(l)
  <2>1. job' = job
    BY <1>5 DEF Handler, Read, Probe, Persist, Alert
  <2>2. PICK k : loop' = [loop EXCEPT ![l] = k] /\ k.job = j /\ k.phase # "idle"
    BY <1>2, <1>5 DEF Handler, Read, Probe, Persist, Alert, Inv, TypeOK, Loop
  <2> QED BY <1>1, <1>2, <2>1, <2>2 DEF Inv, TypeOK
<1> QED BY <1>3, <1>4, <1>5

(* Loops keep hold of the jobs they handle. *)
LEMMA HoldStep ==
  ASSUME Inv, Next
  PROVE  LoopsHoldJobs' /\ OneHolder'
<1> USE DEF LoopsHoldJobs, OneHolder
<1>1. ASSUME NEW l \in Loops, Handler(l)
      PROVE  LoopsHoldJobs' /\ OneHolder'
  BY <1>1, HandlerStep DEF IdleLoop, Inv
<1>2. ASSUME NEW l \in Loops, NEW j \in Jobs, Take(l, j)
      PROVE  LoopsHoldJobs' /\ OneHolder'
  <2>1. loop' = [loop EXCEPT ![l] = [IdleLoop EXCEPT !.job = j, !.phase = "read"]]
    BY <1>2 DEF Take
  <2>2. loop'[l].job = j /\ \A m \in Loops \ {l} : loop'[m] = loop[m]
    BY <2>1 DEF IdleLoop, Inv, TypeOK
  <2>3. job[j].state = "waiting" /\ job'[j].state = "active" /\ \A k \in Jobs \ {j} : job'[k] = job[k]
    BY <1>2 DEF Take, Inv, TypeOK, Job
  <2> QED BY <2>2, <2>3 DEF Inv
<1>3. CASE Restart
  BY <1>3 DEF Restart, IdleLoop
<1>4. CASE loop' = loop /\ \A j \in Jobs : job[j].state = "active" => job'[j].state = "active"
  BY <1>4 DEF Inv
<1>5. ASSUME NEW c \in Checks, NEW n \in Nat, AddJob(c, n)
      PROVE  \A j \in Jobs : job[j].state = "active" => job'[j].state = "active"
  BY <1>5 DEF AddJob, FreeJobs, Inv, TypeOK
<1>6. ASSUME NEW t \in Ticks, Scheduler(t)
      PROVE  LoopsHoldJobs' /\ OneHolder'
  BY <1>4, <1>5, <1>6, Shapes DEF Scheduler, TickRead, TickAdvance, TickEnqueue
<1>7. CASE \E j \in Jobs : Promote(j)
  <2>1. \A j \in Jobs : job[j].state = "active" => job'[j].state = "active"
    BY <1>7 DEF Promote, Inv, TypeOK, Job
  <2> QED BY <1>4, <1>7, <2>1 DEF Promote
<1>8. CASE \E c \in Checks : Elapse(c) \/ Create(c) \/ RunNow(c) \/ SetEnabled(c) \/ Remove(c) \/ Flip(c)
  BY <1>4, <1>5, <1>8 DEF Elapse, Create, RunNow, SetEnabled, Remove, Flip
<1>9. CASE Sweeper
  <2>1. \A j \in Jobs : job[j].state = "active" => job'[j].state = "active"
    BY <1>9 DEF Sweeper, SweepList, SweepCompare, SweepEnd, SweepRemove, Inv, TypeOK
  <2> QED BY <1>4, <1>9, <2>1 DEF Sweeper, SweepList, SweepCompare, SweepEnd, SweepRemove
<1> QED BY <1>1, <1>2, <1>3, <1>6, <1>7, <1>8, <1>9 DEF Next

(* Jobs, ticks and the sweep keep naming checks that exist or existed. *)
LEMMA KnownStep ==
  ASSUME Inv, Next
  PROVE  JobsKnown' /\ PickedKnown' /\ SeenKnown' /\ OrphansKnown'
<1> USE LifeGoesOn
<1>1. JobsKnown'
  <2>1. CASE \A j \in Jobs : job'[j].state # "free" => job[j].state # "free" /\ job'[j].check = job[j].check
    BY <2>1 DEF JobsKnown, Inv
  <2>2. ASSUME NEW c \in Checks, NEW n \in Nat, AddJob(c, n), row[c].life # "new"
        PROVE  JobsKnown'
    <3> DEFINE new == [Free EXCEPT !.check = c, !.state = "waiting", !.max = n]
    <3>1. PICK j \in FreeJobs : job' = [job EXCEPT ![j] = new]
      BY <2>2 DEF AddJob
    <3>2. new.check = c
      BY DEF Free
    <3> HIDE DEF new
    <3> QED BY <2>2, <3>1, <3>2 DEF JobsKnown, Inv, TypeOK, FreeJobs
  <2>3. ASSUME NEW t \in Ticks, Scheduler(t)
        PROVE  JobsKnown'
    <3>1. CASE job' = job
      BY <2>1, <3>1
    <3>2. CASE job' # job
      <4>1. PICK c \in tick[t].picked : c \in Checks /\ AddJob(c, ProbeAttempts)
        BY <2>3, <3>2 DEF Scheduler, TickRead, TickAdvance, TickEnqueue
      <4> QED BY <2>2, <4>1, Shapes DEF PickedKnown, Inv
    <3> QED BY <3>1, <3>2
  <2>4. ASSUME NEW l \in Loops, Handler(l)
        PROVE  JobsKnown'
    BY <2>1, <2>4, HandlerStep DEF Free, Inv, LoopsHoldJobs
  <2>5. ASSUME NEW l \in Loops, NEW j \in Jobs, Take(l, j)
        PROVE  JobsKnown'
    <3>1. job' = [job EXCEPT ![j] = [job[j] EXCEPT !.state = "active"]] /\ job[j].state # "free"
      BY <2>5 DEF Take
    <3>2. \A k \in Jobs : job'[k].check = job[k].check
      BY <3>1 DEF Inv, TypeOK, Job
    <3>3. \A k \in Jobs : job'[k].state # "free" => job[k].state # "free"
      BY <3>1 DEF Inv, TypeOK, Job
    <3> QED BY <2>1, <3>2, <3>3
  <2>6. ASSUME NEW c \in Checks, Elapse(c) \/ Create(c) \/ RunNow(c) \/ SetEnabled(c) \/ Remove(c) \/ Flip(c)
        PROVE  JobsKnown'
    BY <2>1, <2>2, <2>6 DEF Elapse, Create, RunNow, SetEnabled, Remove, Flip, Present
  <2>7. CASE Restart
    <3>1. ASSUME NEW b \in Job
          PROVE  Stalled(b) = Free \/ (b.state # "free" /\ Stalled(b).check = b.check) \/ Stalled(b) = b
      BY <3>1 DEF Stalled, Job
    <3>2. \A j \in Jobs : job'[j] = Stalled(job[j]) /\ job[j] \in Job
      BY <2>7 DEF Restart, Inv, TypeOK
    <3> QED BY <2>1, <3>1, <3>2 DEF Free
  <2>8. CASE Sweeper
    <3>1. ASSUME NEW k \in Jobs, NEW c \in Checks, SweepRemove(k, c)
          PROVE  \A j \in Jobs : job'[j] = job[j] \/ job'[j] = Free
      BY <3>1 DEF SweepRemove, Inv, TypeOK
    <3>2. \A j \in Jobs : job'[j] = job[j] \/ job'[j] = Free
      BY <2>8, <3>1 DEF Sweeper, SweepList, SweepCompare, SweepEnd
    <3> QED BY <2>1, <3>2 DEF Free
  <2>9. ASSUME NEW j \in Jobs, Promote(j)
        PROVE  JobsKnown'
    <3>1. job' = [job EXCEPT ![j] = [job[j] EXCEPT !.state = "waiting"]] /\ job[j].state # "free"
      BY <2>9 DEF Promote
    <3>2. \A k \in Jobs : job'[k].check = job[k].check
      BY <3>1 DEF Inv, TypeOK, Job
    <3>3. \A k \in Jobs : job'[k].state # "free" => job[k].state # "free"
      BY <3>1 DEF Inv, TypeOK, Job
    <3> QED BY <2>1, <3>2, <3>3
  <2> QED BY <2>3, <2>4, <2>5, <2>6, <2>7, <2>8, <2>9 DEF Next
<1>2. PickedKnown'
  <2>1. ASSUME NEW t \in Ticks, TickRead(t)
        PROVE  PickedKnown'
    <3>1. PICK picked \in SUBSET {c \in Checks : Live(c) /\ due[c]} :
            tick' = [tick EXCEPT ![t] = [phase |-> "advance", picked |-> picked]]
      BY <2>1 DEF TickRead
    <3>2. \A c \in picked : row[c].life # "new" /\ c \in Checks
      BY DEF Live, Present
    <3> QED BY <3>1, <3>2 DEF PickedKnown, Inv, TypeOK, Tick
  <2>2. CASE \A t \in Ticks : tick'[t].picked \subseteq tick[t].picked
    BY <2>2 DEF PickedKnown, Inv, TypeOK, Tick
  <2>3. ASSUME NEW t \in Ticks, TickAdvance(t) \/ \E c \in Checks : TickEnqueue(t, c)
        PROVE  PickedKnown'
    <3>1. PICK k : tick' = [tick EXCEPT ![t] = k] /\ k.picked \subseteq tick[t].picked
      BY <2>3 DEF TickAdvance, TickEnqueue, IdleTick, Inv, TypeOK, Tick
    <3> QED BY <2>2, <3>1 DEF Inv, TypeOK
  <2>4. CASE Restart
    BY <2>2, <2>4 DEF Restart, IdleTick
  <2>5. CASE tick' = tick
    BY <2>2, <2>5
  <2> QED BY <2>1, <2>3, <2>4, <2>5 DEF Next, Scheduler, Handler, Read, Probe, Persist, Alert, Take, Promote,
             Elapse, Create, RunNow, SetEnabled, Remove, Flip, Sweeper, SweepList, SweepCompare, SweepEnd, SweepRemove
<1>3. SeenKnown' /\ OrphansKnown'
  <2> USE DEF SeenKnown, OrphansKnown, IdleSweep
  <2>0. sweep \in Sweep
    BY DEF Inv, TypeOK
  <2>1. CASE SweepList
    <3>1. sweep'.seen = {<<j, job[j].check>> : j \in {k \in Jobs : job[k].state # "free"}} /\ sweep'.orphans = sweep.orphans
      BY <2>0, <2>1 DEF SweepList, Sweep
    <3>2. \A o \in sweep'.seen : o[2] \in Checks /\ row[o[2]].life # "new"
      BY <3>1 DEF JobsKnown, Inv
    <3> QED BY <2>0, <2>1, <3>1, <3>2 DEF SweepList, Sweep, Inv
  <2>2. CASE SweepCompare
    <3>1. sweep'.orphans = {o \in sweep.seen : ~Present(o[2])} /\ sweep'.seen = sweep.seen
      BY <2>0, <2>2 DEF SweepCompare, Sweep
    <3>2. \A o \in sweep'.orphans : row[o[2]].life = "deleted"
      BY <2>0, <3>1 DEF Present, Inv, TypeOK, Row, Sweep
    <3> QED BY <2>0, <2>2, <3>1, <3>2 DEF SweepCompare, Sweep, Inv
  <2>3. CASE sweep'.seen \subseteq sweep.seen /\ sweep'.orphans \subseteq sweep.orphans
    BY <2>0, <2>3 DEF Sweep, Inv
  <2>4. CASE Restart \/ SweepEnd
    BY <2>4 DEF Restart, SweepEnd
  <2>5. ASSUME NEW j \in Jobs, NEW c \in Checks, SweepRemove(j, c)
        PROVE  sweep'.seen \subseteq sweep.seen /\ sweep'.orphans \subseteq sweep.orphans
    BY <2>0, <2>5 DEF SweepRemove, Sweep
  <2>6. CASE sweep' = sweep
    BY <2>3, <2>6
  <2> QED BY <2>1, <2>2, <2>3, <2>4, <2>5, <2>6 DEF Next, Scheduler, TickRead, TickAdvance, TickEnqueue, Handler, Read,
             Probe, Persist, Alert, Take, Promote, Elapse, Create, RunNow, SetEnabled, Remove, Flip, Sweeper
<1> QED BY <1>1, <1>2, <1>3

-----------------------------------------------------------------------------
(* The invariant holds at the start and every step keeps it. *)
LEMMA InitInv == Init => Inv
<1> SUFFICES ASSUME Init PROVE Inv
  OBVIOUS
<1>1. \A c \in Checks : [life |-> "new", enabled |-> FALSE, lastStatus |-> "UNKNOWN"] \in Row
  BY DEF Row
<1>2. TypeOK
  BY <1>1, Shapes DEF Init, TypeOK, Status, Bounds
<1> QED BY <1>2 DEF Init, Inv, LoopsHoldJobs, OneHolder, JobsKnown, PickedKnown, SeenKnown, OrphansKnown,
           Free, IdleTick, IdleLoop, IdleSweep

(* The invariant is kept by every step. *)
LEMMA Step == Inv /\ [Next]_vars => Inv'
<1> SUFFICES ASSUME Inv, [Next]_vars PROVE Inv'
  OBVIOUS
<1>1. CASE Next
  <2>1. TypeOK'
    <3>1. TypeOK /\ LoopsHoldJobs /\ JobsKnown
      BY DEF Inv
    <3> QED BY <1>1, <3>1, TypeScheduler, TypeHandler, TypeOthers, TypeSweeper DEF Next
  <2> QED BY <1>1, <2>1, HoldStep, KnownStep DEF Inv
<1>2. CASE UNCHANGED vars
  BY <1>2 DEF vars, Inv, TypeOK, LoopsHoldJobs, OneHolder, JobsKnown, PickedKnown, SeenKnown, OrphansKnown
<1> QED BY <1>1, <1>2

(* Inv is an invariant of the pipeline. *)
THEOREM Invariance == Safety => []Inv
<1> QED BY InitInv, Step, PTL DEF Safety

(* Every variable keeps its type. *)
THEOREM TypeCorrect == Safety => []TypeOK
<1>1. Inv => TypeOK
  BY DEF Inv
<1> QED BY <1>1, Invariance, PTL

(* Only a job whose check was deleted is dropped before it ran. *)
THEOREM SweepSpares == Safety => OnlyOrphansDropped
<1> DEFINE A == \A j \in Jobs :
                  job[j].state \in {"waiting", "delayed"} /\ job'[j].state = "free" => ~Present(job[j].check)
<1>1. Inv /\ [Next]_vars => A
  <2> SUFFICES ASSUME Inv, [Next]_vars, NEW j \in Jobs,
                      job[j].state \in {"waiting", "delayed"}, job'[j].state = "free", Present(job[j].check)
               PROVE  FALSE
    OBVIOUS
  <2>0. job[j] \in Job /\ job[j].state \notin {"free", "active"}
    BY DEF Inv, TypeOK
  <2>1. job'[j] # job[j]
    BY <2>0
  <2>2. ASSUME NEW c \in Checks, NEW n \in Nat, AddJob(c, n)
        PROVE  FALSE
    BY <2>0, <2>1, <2>2 DEF AddJob, FreeJobs, Inv, TypeOK
  <2>3. ASSUME NEW t \in Ticks, Scheduler(t)
        PROVE  FALSE
    BY <2>1, <2>2, <2>3, Shapes DEF Scheduler, TickRead, TickAdvance, TickEnqueue
  <2>4. ASSUME NEW l \in Loops, Handler(l)
        PROVE  FALSE
    BY <2>0, <2>1, <2>4, HandlerStep DEF Inv, LoopsHoldJobs
  <2>5. ASSUME NEW k \in Jobs, Promote(k) \/ \E l \in Loops : Take(l, k)
        PROVE  FALSE
    <3>1. PICK s \in {"waiting", "active"} : job' = [job EXCEPT ![k] = [job[k] EXCEPT !.state = s]]
      BY <2>5 DEF Promote, Take
    <3> QED BY <2>0, <2>1, <3>1 DEF Inv, TypeOK, Job
  <2>6. ASSUME NEW c \in Checks, Elapse(c) \/ Create(c) \/ RunNow(c) \/ SetEnabled(c) \/ Remove(c) \/ Flip(c)
        PROVE  FALSE
    BY <2>1, <2>2, <2>6 DEF Elapse, Create, RunNow, SetEnabled, Remove, Flip
  <2>7. CASE Restart
    BY <2>0, <2>1, <2>7 DEF Restart, Stalled, Inv, TypeOK
  <2>8. ASSUME NEW k \in Jobs, NEW c \in Checks, SweepRemove(k, c)
        PROVE  FALSE
    <3>1. k = j /\ c = job[j].check
      BY <2>0, <2>1, <2>8 DEF SweepRemove, Inv, TypeOK
    <3>2. row[c].life = "deleted"
      BY <2>8 DEF SweepRemove, Inv, OrphansKnown
    <3> QED BY <3>1, <3>2 DEF Present
  <2>9. CASE UNCHANGED job
    BY <2>1, <2>9
  <2> QED BY <2>3, <2>4, <2>5, <2>6, <2>7, <2>8, <2>9 DEF Next, vars, Sweeper, SweepList, SweepCompare, SweepEnd
<1> QED BY <1>1, Invariance, PTL DEF Safety, OnlyOrphansDropped

-----------------------------------------------------------------------------
(* With a single job loop the status a handler compares with is still the
   status of the row when it writes. *)
PrevIsCurrent ==
  \A l \in Loops : loop[l].phase \in {"probe", "persist"} => loop[l].prev = row[CheckOf(l)].lastStatus

(* Only a handler writes lastStatus, and only when it persists. *)
LEMMA StatusWriter ==
  ASSUME Inv, Next
  PROVE  \/ \A c \in Checks : row'[c].lastStatus = row[c].lastStatus
         \/ \E l \in Loops : Persist(l) /\ loop'[l].phase \in {"idle", "alert"}
<1>1. ASSUME NEW l \in Loops, Handler(l)
      PROVE  row' = row \/ (Persist(l) /\ loop'[l].phase \in {"idle", "alert"})
  <2>1. CASE Persist(l)
    <3>1. CASE row' = row
      BY <3>1
    <3>2. CASE row' # row
      <4>1. Complete(l) \/ loop' = [loop EXCEPT ![l].phase = "alert"]
        BY <2>1, <3>2 DEF Persist
      <4>2. loop'[l].phase \in {"idle", "alert"}
        BY <4>1 DEF Complete, IdleLoop, Inv, TypeOK, Loop
      <4> QED BY <2>1, <4>2
    <3> QED BY <3>1, <3>2
  <2>2. CASE ~Persist(l)
    BY <1>1, <2>2 DEF Handler, Read, Probe, Alert
  <2> QED BY <2>1, <2>2
<1>2. ASSUME NEW d \in Checks, Create(d) \/ SetEnabled(d) \/ Remove(d)
      PROVE  \A c \in Checks : row'[c].lastStatus = row[c].lastStatus
  <2>1. row[d] \in Row
    BY DEF Inv, TypeOK
  <2>2. CASE Create(d)
    <3>1. PICK b \in BOOLEAN : row' = [row EXCEPT ![d] = [row[d] EXCEPT !.life = "present", !.enabled = b]]
      BY <2>2 DEF Create
    <3> QED BY <2>1, <3>1 DEF Inv, TypeOK, Row
  <2>3. CASE SetEnabled(d)
    <3>1. row' = [row EXCEPT ![d] = [row[d] EXCEPT !.enabled = ~@]]
      BY <2>3 DEF SetEnabled
    <3> QED BY <2>1, <3>1 DEF Inv, TypeOK, Row
  <2>4. CASE Remove(d)
    <3>1. row' = [row EXCEPT ![d] = [row[d] EXCEPT !.life = "deleted"]]
      BY <2>4 DEF Remove
    <3> QED BY <2>1, <3>1 DEF Inv, TypeOK, Row
  <2> QED BY <1>2, <2>2, <2>3, <2>4
<1>3. CASE row' = row
  BY <1>3
<1> QED BY <1>1, <1>2, <1>3 DEF Next, Scheduler, TickRead, TickAdvance, TickEnqueue, Take, Promote,
           Elapse, RunNow, Flip, Restart, Sweeper, SweepList, SweepCompare, SweepEnd, SweepRemove

(* One loop at a time handles probes. *)
OneLoop == \A l, m \in Loops : l = m

(* A loop that handles a job keeps it while it rests. *)
LEMMA HeldJob ==
  ASSUME OneLoop, Inv, Next, NEW l \in Loops, ~Handler(l), loop'[l] = loop[l], loop[l].phase # "idle"
  PROVE  job'[loop[l].job].check = job[loop[l].job].check
<1> DEFINE j == loop[l].job
<1>0. j \in Jobs /\ job[j].state = "active"
  BY DEF Inv, LoopsHoldJobs
<1>1. CASE \E t \in Ticks : Scheduler(t)
  BY <1>0, <1>1 DEF Scheduler, TickRead, TickAdvance, TickEnqueue, AddJob, FreeJobs, Inv, TypeOK
<1>2. ASSUME NEW k \in Jobs, Promote(k) \/ \E m \in Loops : Take(m, k)
      PROVE  job'[j].check = job[j].check
  <2>1. PICK s \in {"waiting", "active"} : job' = [job EXCEPT ![k] = [job[k] EXCEPT !.state = s]]
    BY <1>2 DEF Promote, Take
  <2> QED BY <1>0, <2>1 DEF Inv, TypeOK, Job
<1>3. CASE \E c \in Checks : Elapse(c) \/ Create(c) \/ RunNow(c) \/ SetEnabled(c) \/ Remove(c) \/ Flip(c)
  BY <1>0, <1>3 DEF Elapse, Create, RunNow, SetEnabled, Remove, Flip, AddJob, FreeJobs, Inv, TypeOK
<1>4. CASE Restart
  BY <1>4 DEF Restart, IdleLoop
<1>5. ASSUME NEW k \in Jobs, NEW c \in Checks, SweepRemove(k, c)
      PROVE  job'[j].check = job[j].check
  BY <1>0, <1>5 DEF SweepRemove, Inv, TypeOK
<1>6. CASE SweepList \/ SweepCompare \/ SweepEnd
  BY <1>6 DEF SweepList, SweepCompare, SweepEnd
<1> QED BY <1>1, <1>2, <1>3, <1>4, <1>5, <1>6 DEF Next, OneLoop, Sweeper

(* With one loop, nothing writes the row between a handler's read and its
   write. *)
LEMMA PrevStep ==
  ASSUME OneLoop, Inv, Inv', PrevIsCurrent, Next
  PROVE  PrevIsCurrent'
<1> SUFFICES ASSUME NEW l \in Loops, loop'[l].phase \in {"probe", "persist"}
             PROVE  loop'[l].prev = row'[job'[loop'[l].job].check].lastStatus
  BY DEF PrevIsCurrent, CheckOf
<1>0. loop[l] \in Loop
  BY DEF Inv, TypeOK
<1>1. loop'[l].phase # "idle" /\ loop'[l].job \in Jobs /\ job'[loop'[l].job].check \in Checks
  BY DEF Inv, LoopsHoldJobs, JobsKnown
<1>2. \A c \in Checks : row'[c].lastStatus = row[c].lastStatus
  BY StatusWriter DEF OneLoop
<1>3. CASE Handler(l)
  <2>1. loop'[l].phase # "idle" /\ loop'[l].job = loop[l].job /\ job' = job
    BY <1>1, <1>3, HandlerStep DEF IdleLoop
  <2>5. ~Complete(l) /\ ~Throw(l)
    BY <1>1 DEF Complete, Throw, IdleLoop, Inv, TypeOK
  <2>2. CASE Read(l)
    <3>1. loop' = [loop EXCEPT ![l] = [loop[l] EXCEPT !.phase = "probe", !.prev = row[CheckOf(l)].lastStatus]]
      BY <2>2, <2>5 DEF Read
    <3>2. loop'[l].prev = row[CheckOf(l)].lastStatus
      BY <1>0, <3>1 DEF Inv, TypeOK, Loop
    <3> QED BY <1>1, <1>2, <2>1, <3>2 DEF CheckOf
  <2>3. CASE Probe(l)
    <3>1. PICK r : loop' = [loop EXCEPT ![l] = [loop[l] EXCEPT !.phase = "persist", !.result = r]]
      BY <2>3, <2>5 DEF Probe
    <3>2. loop'[l].prev = loop[l].prev /\ loop[l].phase = "probe"
      BY <1>0, <2>3, <3>1 DEF Probe, Inv, TypeOK, Loop
    <3> QED BY <1>1, <1>2, <2>1, <3>2 DEF CheckOf, PrevIsCurrent
  <2>4. CASE Persist(l) \/ Alert(l)
    <3>1. Complete(l) \/ Throw(l) \/ loop' = [loop EXCEPT ![l] = [loop[l] EXCEPT !.phase = "alert"]]
      BY <2>4 DEF Persist, Alert
    <3>2. loop'[l].phase \in {"idle", "alert"}
      BY <1>0, <3>1 DEF Complete, Throw, IdleLoop, Inv, TypeOK, Loop
    <3> QED BY <3>2
  <2> QED BY <1>3, <2>2, <2>3, <2>4 DEF Handler
<1>4. CASE ~Handler(l)
  <2>1. CASE loop'[l] = loop[l]
    <3>1. loop[l].job \in Jobs /\ job[loop[l].job].state = "active"
      BY <1>1, <2>1 DEF Inv, LoopsHoldJobs
    <3>2. job'[loop[l].job].check = job[loop[l].job].check
      BY <1>1, <1>4, <2>1, HeldJob
    <3> QED BY <1>1, <1>2, <2>1, <3>1, <3>2 DEF PrevIsCurrent, CheckOf
  <2>2. CASE loop'[l] # loop[l]
    <3>1. CASE Restart
      BY <1>1, <3>1 DEF Restart, IdleLoop
    <3>2. ASSUME NEW j \in Jobs, Take(l, j)
          PROVE  FALSE
      <4>1. loop' = [loop EXCEPT ![l] = [IdleLoop EXCEPT !.job = j, !.phase = "read"]]
        BY <3>2 DEF Take
      <4> QED BY <4>1 DEF IdleLoop, Inv, TypeOK
    <3> QED BY <1>4, <2>2, <3>1, <3>2 DEF Next, OneLoop, Scheduler, TickRead, TickAdvance, TickEnqueue, Promote,
               Elapse, Create, RunNow, SetEnabled, Remove, Flip, Sweeper, SweepList, SweepCompare, SweepEnd, SweepRemove
  <2> QED BY <2>1, <2>2
<1> QED BY <1>3, <1>4

(* With one loop, a handler goes on to alert exactly when its write changed
   a known status: no transition is missed or announced twice. *)
THEOREM TransitionsAnnounced == OneLoop => (Safety => AlertIffChange)
<1> SUFFICES ASSUME OneLoop PROVE Safety => AlertIffChange
  OBVIOUS
<1> DEFINE A == \A l \in Loops :
                  loop[l].phase = "persist" /\ loop'[l] # loop[l] =>
                    LET c == CheckOf(l)
                    IN  (loop'[l].phase = "alert") <=>
                          (row[c].lastStatus # "UNKNOWN" /\ row'[c].lastStatus # row[c].lastStatus)
<1>1. Init => PrevIsCurrent
  BY DEF Init, PrevIsCurrent, IdleLoop
<1>2. Inv /\ Inv' /\ PrevIsCurrent /\ [Next]_vars => PrevIsCurrent'
  <2>1. Inv /\ PrevIsCurrent /\ UNCHANGED vars => PrevIsCurrent'
    BY DEF PrevIsCurrent, CheckOf, vars
  <2> QED BY <2>1, PrevStep
<1>3. Inv /\ Inv' /\ PrevIsCurrent /\ [Next]_vars => A
  <2> SUFFICES ASSUME Inv, Inv', PrevIsCurrent, [Next]_vars,
                      NEW l \in Loops, loop[l].phase = "persist", loop'[l] # loop[l]
               PROVE  (loop'[l].phase = "alert") <=>
                        (row[CheckOf(l)].lastStatus # "UNKNOWN" /\ row'[CheckOf(l)].lastStatus # row[CheckOf(l)].lastStatus)
    OBVIOUS
  <2> DEFINE c == CheckOf(l)
             r == loop[l].result
  <2>1. c \in Checks /\ loop[l] \in Loop /\ loop[l].prev = row[c].lastStatus /\ row[c] \in Row
    BY DEF CheckOf, Inv, LoopsHoldJobs, JobsKnown, TypeOK, PrevIsCurrent
  <2>2. CASE Restart
    BY <2>2 DEF Restart, IdleLoop
  <2>3. CASE Persist(l)
    <3>1. CASE row' = [row EXCEPT ![c].lastStatus = r]
      <4>1. row'[c].lastStatus = r
        BY <2>1, <3>1 DEF Inv, TypeOK, Row
      <4>2. CASE Transition(loop[l].prev, r)
        <5>1. row' # row
          BY <2>1, <4>1, <4>2 DEF Transition
        <5>2. loop' = [loop EXCEPT ![l] = [loop[l] EXCEPT !.phase = "alert"]]
          BY <2>3, <4>2, <5>1 DEF Persist
        <5>3. loop'[l].phase = "alert"
          BY <2>1, <5>2 DEF Inv, TypeOK, Loop
        <5> QED BY <2>1, <4>1, <4>2, <5>3 DEF Transition
      <4>3. CASE ~Transition(loop[l].prev, r)
        <5>1. loop'[l] = IdleLoop
          BY <2>3, <4>3 DEF Persist, Complete, Throw, Inv, TypeOK
        <5> QED BY <2>1, <4>1, <4>3, <5>1 DEF Transition, IdleLoop
      <4> QED BY <4>2, <4>3
    <3>2. CASE Throw(l) /\ row' = row
      BY <3>2 DEF Throw, IdleLoop, Inv, TypeOK
    <3> QED BY <2>3, <3>1, <3>2 DEF Persist
  <2>4. CASE ~Restart /\ ~Persist(l)
    <3>1. \A m \in Loops : m = l
      BY DEF OneLoop
    <3>2. ~Handler(l) /\ \A j \in Jobs : ~Take(l, j)
      <4>1. loop[l] # IdleLoop
        BY DEF IdleLoop
      <4>2. \A j \in Jobs : ~Take(l, j)
        BY <4>1 DEF Take
      <4>3. ~Read(l) /\ ~Probe(l) /\ ~Alert(l)
        BY DEF Read, Probe, Alert
      <4> QED BY <2>4, <4>2, <4>3 DEF Handler
    <3> QED BY <2>4, <3>1, <3>2 DEF Next, vars, Scheduler, TickRead, TickAdvance, TickEnqueue, Promote,
               Elapse, Create, RunNow, SetEnabled, Remove, Flip, Sweeper, SweepList, SweepCompare, SweepEnd, SweepRemove
  <2> QED BY <2>2, <2>3, <2>4
<1> QED BY <1>1, <1>2, <1>3, Invariance, PTL DEF Safety, AlertIffChange

-----------------------------------------------------------------------------
\* The last row of a history is the status of the check.
LastOK(h, status) == (h = <<>> => status = "UNKNOWN") /\ (h # <<>> => status = h[Len(h)])
\* The alerts a of a history h, when one more is to come if b.
Announced(h, a, b, clean) ==
  /\ h = <<>> => a = <<>> /\ ~b
  /\ h # <<>> => Len(a) + (IF b THEN 1 ELSE 0) + 1 <= Len(h)
  /\ clean => /\ h # <<>> => Len(a) + (IF b THEN 1 ELSE 0) + 1 = Len(h)
              /\ \A i \in 1 .. Len(a) : a[i] = h[i + 1]

\* The alerts a are the first of the changes, n more are to come.
FirstOf(a, n, changes, clean) ==
  /\ Len(a) + n <= Len(changes)
  /\ clean => Len(a) + n = Len(changes) /\ a = SubSeq(changes, 1, Len(a))

(* That is what AlertsFollowHistory says. *)
LEMMA AnnouncedIsPrefix ==
  ASSUME NEW h \in Seq(Status), NEW a \in Seq(Status), NEW b \in BOOLEAN, NEW clean \in BOOLEAN, Announced(h, a, b, clean),
         NEW n, n = IF b THEN 1 ELSE 0, NEW changes, changes = IF h = <<>> THEN <<>> ELSE Tail(h)
  PROVE  FirstOf(a, n, changes, clean)
<1>1. CASE h = <<>>
  <2>1. a = <<>> /\ n = 0 /\ changes = <<>>
    BY <1>1 DEF Announced
  <2>2. Len(a) = 0 /\ Len(changes) = 0 /\ n = 0
    BY <2>1
  <2>3. SubSeq(changes, 1, Len(a)) = <<>>
    BY <2>2, SubSeqEmpty
  <2>4. Len(a) + n <= Len(changes) /\ Len(a) + n = Len(changes)
    BY <2>2
  <2>5. a = SubSeq(changes, 1, Len(a))
    BY <2>1, <2>3
  <2> QED BY <2>4, <2>5 DEF FirstOf
<1>2. CASE h # <<>>
  <2>0. changes = Tail(h)
    BY <1>2
  <2>1. changes \in Seq(Status) /\ Len(changes) = Len(h) - 1 /\ \A i \in 1 .. Len(changes) : changes[i] = h[i + 1]
    BY <1>2, <2>0, HeadTailProperties
  <2>2. PICK la \in Nat, lh \in Nat : la = Len(a) /\ lh = Len(h)
    BY LenProperties
  <2>3. la + n + 1 <= lh /\ (clean => la + n + 1 = lh) /\ n \in {0, 1}
    BY <1>2, <2>2 DEF Announced
  <2>4. la + n <= Len(changes) /\ (clean => la + n = Len(changes)) /\ la <= Len(changes)
    BY <2>1, <2>2, <2>3
  <2>5. ASSUME clean PROVE a = SubSeq(changes, 1, Len(a))
    <3>1. \A i \in 1 .. la : i \in 1 .. Len(changes) /\ changes[i] \in Status /\ a[i] = changes[i]
      <4>1. \A i \in 1 .. la : i \in 1 .. Len(changes) /\ a[i] = h[i + 1]
        BY <2>1, <2>2, <2>4, <2>5 DEF Announced
      <4> QED BY <2>1, <4>1
    <3>2. /\ SubSeq(changes, 1, la) \in Seq(Status)
          /\ Len(SubSeq(changes, 1, la)) = la
          /\ \A i \in 1 .. la : SubSeq(changes, 1, la)[i] = changes[i]
      <4>1. /\ SubSeq(changes, 1, la) \in Seq(Status)
            /\ Len(SubSeq(changes, 1, la)) = IF 1 <= la THEN la - 1 + 1 ELSE 0
            /\ \A i \in 1 .. la - 1 + 1 : SubSeq(changes, 1, la)[i] = changes[1 + i - 1]
        BY <3>1, SubSeqProperties
      <4>2. la - 1 + 1 = la /\ (~(1 <= la) => la = 0) /\ \A i \in 1 .. la : 1 + i - 1 = i
        OBVIOUS
      <4> QED BY <4>1, <4>2
    <3>3. Len(a) = Len(SubSeq(changes, 1, la)) /\ \A i \in 1 .. Len(a) : a[i] = SubSeq(changes, 1, la)[i]
      BY <2>2, <3>1, <3>2
    <3>4. a = SubSeq(changes, 1, la)
      BY <3>2, <3>3, SeqEqual
    <3> QED BY <2>2, <3>4
  <2> QED BY <2>2, <2>4, <2>5 DEF FirstOf
<1> HIDE DEF Announced
<1> QED BY <1>1, <1>2

(* A new result of a known status: an alert is to come. *)
LEMMA AnnounceChange ==
  ASSUME NEW h \in Seq(Status), NEW a \in Seq(Status), NEW clean \in BOOLEAN, h # <<>>, Announced(h, a, FALSE, clean), NEW r \in Status
  PROVE  Announced(Append(h, r), a, TRUE, clean) /\ LastOK(Append(h, r), r)
BY DEF Announced, LastOK

(* The first result of all. *)
LEMMA AnnounceFirst ==
  ASSUME NEW a \in Seq(Status), NEW clean \in BOOLEAN, Announced(<<>>, a, FALSE, clean), NEW r \in Status
  PROVE  Announced(Append(<<>>, r), a, FALSE, clean) /\ LastOK(Append(<<>>, r), r)
BY DEF Announced, LastOK

(* The alert that was to come. *)
LEMMA AnnounceAlert ==
  ASSUME NEW h \in Seq(Status), NEW a \in Seq(Status), NEW clean \in BOOLEAN, Announced(h, a, TRUE, clean),
         NEW r \in Status, r = h[Len(h)]
  PROVE  Announced(h, Append(a, r), FALSE, clean)
<1>1. h # <<>> /\ Len(h) \in Nat /\ Len(a) \in Nat
  BY DEF Announced
<1>2. Append(a, r) # <<>> /\ Len(Append(a, r)) = Len(a) + 1
  OBVIOUS
<1>3. clean => \A i \in 1 .. Len(a) + 1 : Append(a, r)[i] = h[i + 1]
  BY <1>1 DEF Announced
<1> QED BY <1>1, <1>2, <1>3 DEF Announced

(* An alert that is lost, and less that is claimed. *)
LEMMA AnnounceLess ==
  ASSUME NEW h \in Seq(Status), NEW a \in Seq(Status), NEW b \in BOOLEAN, NEW clean \in BOOLEAN, Announced(h, a, b, clean)
  PROVE  Announced(h, a, FALSE, FALSE) /\ \A less \in BOOLEAN : (less => clean) => Announced(h, a, b, less)
<1>1. Len(h) \in Nat /\ Len(a) \in Nat
  OBVIOUS
<1> QED BY <1>1 DEF Announced
-----------------------------------------------------------------------------
Clean == used["redis"] = 0 /\ used["crash"] = 0
\* A loop is to announce the last change of c.
Alerts(l, c) == loop[l].phase = "alert" /\ CheckOf(l) = c
Alerting(c) == \E l \in Loops : Alerts(l, c)
AlertOK(c) ==
  /\ LastOK(history[c], row[c].lastStatus)
  /\ Announced(history[c], alerts[c], Alerting(c), Clean)
  /\ \A l \in Loops : Alerts(l, c) => history[c] # <<>> /\ loop[l].result = history[c][Len(history[c])]
AlertInv ==
  \A c \in Checks : /\ row[c].life = "new" => history[c] = <<>> /\ alerts[c] = <<>> /\ row[c].lastStatus = "UNKNOWN"
                    /\ Present(c) => AlertOK(c)

(* What is used is not given back. *)
LEMMA UseClean ==
  ASSUME Inv, NEW k \in Bounds, NEW b, Use(k, b)
  PROVE  (Clean' => Clean) /\ (k \in {"redis", "crash"} => ~Clean')
<1>1. used' = [used EXCEPT ![k] = used[k] + 1] /\ used \in [Bounds -> Nat]
  BY DEF Use, Inv, TypeOK
<1>2. \A x \in Bounds : used[x] \in Nat /\ used'[x] = IF x = k THEN used[x] + 1 ELSE used[x]
  BY <1>1
<1>3. "redis" \in Bounds /\ "crash" \in Bounds
  BY DEF Bounds
<1> QED BY <1>2, <1>3 DEF Clean

(* A check whose results, alerts and handler stay. *)
LEMMA AlertKept ==
  ASSUME Inv, Inv', NEW c \in Checks, AlertOK(c), Clean' => Clean, history'[c] = history[c], alerts'[c] = alerts[c],
         row'[c].lastStatus = row[c].lastStatus, \A l \in Loops : Alerts(l, c)' <=> Alerts(l, c),
         \A l \in Loops : Alerts(l, c) => loop'[l].result = loop[l].result
  PROVE  AlertOK(c)'
<1>1. PICK h, a : h = history[c] /\ a = alerts[c]
  OBVIOUS
<1>2. h \in Seq(Status) /\ a \in Seq(Status)
  BY <1>1 DEF Inv, TypeOK
<1>3. PICK b \in BOOLEAN : b <=> Alerting(c)
  OBVIOUS
<1>4. Alerting(c)' <=> b
  BY <1>3 DEF Alerting
<1>5. PICK clean \in BOOLEAN, less \in BOOLEAN : (clean <=> Clean) /\ (less <=> Clean')
  OBVIOUS
<1>6. Announced(h, a, b, clean)
  BY <1>1, <1>3, <1>5 DEF AlertOK, Announced
<1>7. Announced(h, a, b, less)
  BY <1>2, <1>5, <1>6, AnnounceLess
<1>8. Announced(history[c], alerts[c], Alerting(c), Clean)'
  BY <1>1, <1>4, <1>5, <1>7 DEF Announced
<1> QED BY <1>8 DEF AlertOK, LastOK

(* Between the steps of handlers and restarts the alerts to come stay. *)
LEMMA AlertsStay ==
  ASSUME OneLoop, Inv, Next, \A l \in Loops : ~Handler(l), ~Restart, NEW l \in Loops, NEW c
  PROVE  (Alerts(l, c)' <=> Alerts(l, c)) /\ (Alerts(l, c) => loop'[l].result = loop[l].result)
<1>1. CASE \E j \in Jobs : Take(l, j)
  <2>1. loop[l].phase = "idle" /\ loop'[l].phase = "read"
    BY <1>1 DEF Take, IdleLoop, Inv, TypeOK
  <2> QED BY <2>1 DEF Alerts
<1>2. CASE ~\E j \in Jobs : Take(l, j)
  <2>1. loop' = loop
    BY <1>2 DEF Next, OneLoop, Scheduler, TickRead, TickAdvance, TickEnqueue, Promote, Elapse, Create, RunNow,
       SetEnabled, Remove, Flip, Sweeper, SweepList, SweepCompare, SweepEnd, SweepRemove
  <2>2. CASE loop[l].phase = "idle"
    BY <2>1, <2>2 DEF Alerts
  <2>3. CASE loop[l].phase # "idle"
    <3>1. job'[loop[l].job].check = job[loop[l].job].check
      BY <2>1, <2>3, HeldJob
    <3> QED BY <2>1, <3>1 DEF Alerts, CheckOf
  <2> QED BY <2>2, <2>3
<1> QED BY <1>1, <1>2

(* What a handler works on exists or existed. *)
LEMMA HandledCheck ==
  ASSUME Inv, NEW l \in Loops, loop[l].phase # "idle"
  PROVE  /\ loop[l] \in Loop /\ loop[l].job \in Jobs /\ job[loop[l].job] \in Job
         /\ CheckOf(l) \in Checks /\ row[CheckOf(l)] \in Row /\ row[CheckOf(l)].life # "new"
<1>1. loop[l] \in Loop /\ loop[l].job \in Jobs /\ job[loop[l].job].state = "active"
  BY DEF Inv, TypeOK, LoopsHoldJobs
<1>2. CheckOf(l) \in Checks /\ row[CheckOf(l)].life # "new"
  BY <1>1 DEF Inv, JobsKnown, CheckOf
<1> QED BY <1>1, <1>2 DEF Inv, TypeOK

(* The result a handler writes is announced, or is no change. *)
LEMMA AlertPersist ==
  ASSUME OneLoop, Inv, Inv', PrevIsCurrent, AlertInv, NEW l \in Loops, Persist(l), NEW c \in Checks, Present(c)
  PROVE  AlertOK(c)'
<1> DEFINE d == CheckOf(l)
           r == loop[l].result
<1>1. /\ loop[l].phase = "persist" /\ loop[l] \in Loop /\ loop[l].job \in Jobs /\ r \in Status
      /\ d \in Checks /\ row[d] \in Row /\ loop[l].prev = row[d].lastStatus
  BY HandledCheck DEF Persist, Loop, PrevIsCurrent
<1>2. AlertOK(c) /\ alerts' = alerts
  BY DEF AlertInv, Persist
<1>3. \A m \in Loops : m = l
  BY DEF OneLoop
<1>4. \A e : ~Alerts(l, e)
  BY <1>1 DEF Alerts
<1>5. Clean' => Clean
  <2>1. CASE used' = used
    BY <2>1 DEF Clean
  <2>2. CASE Use("faults", MaxFaults)
    BY <2>2, UseClean DEF Bounds
  <2> QED BY <2>1, <2>2 DEF Persist
<1>6. \A e : Alerts(l, e)' => e = d /\ loop' = [loop EXCEPT ![l].phase = "alert"] /\ job' = job
  <2> SUFFICES ASSUME NEW e, Alerts(l, e)'
               PROVE  e = d /\ loop' = [loop EXCEPT ![l].phase = "alert"] /\ job' = job
    OBVIOUS
  <2>1. ~Complete(l) /\ ~Throw(l)
    BY DEF Alerts, Complete, Throw, IdleLoop, Inv, TypeOK
  <2>2. loop' = [loop EXCEPT ![l].phase = "alert"] /\ job' = job
    BY <2>1 DEF Persist
  <2>3. loop'[l].job = loop[l].job
    BY <1>1, <2>2 DEF Inv, TypeOK, Loop
  <2> QED BY <2>2, <2>3 DEF Alerts, CheckOf
<1>7. CASE c # d
  <2>1. history'[c] = history[c] /\ row'[c].lastStatus = row[c].lastStatus
    BY <1>1, <1>7 DEF Persist, Inv, TypeOK
  <2>2. \A m \in Loops : ~Alerts(m, c) /\ ~Alerts(m, c)'
    BY <1>3, <1>4, <1>6, <1>7
  <2> QED BY <1>2, <1>5, <2>1, <2>2, AlertKept
<1>8. CASE c = d /\ history' = history /\ row' = row /\ Throw(l)
  <2>1. loop'[l].phase = "idle"
    BY <1>8 DEF Throw, IdleLoop, Inv, TypeOK
  <2>2. \A m \in Loops : ~Alerts(m, c) /\ ~Alerts(m, c)'
    BY <1>3, <1>4, <2>1 DEF Alerts
  <2> QED BY <1>2, <1>5, <1>8, <2>2, AlertKept
<1>9. ASSUME c = d,
             history' = [history EXCEPT ![c] = IF @ # <<>> /\ @[Len(@)] = r THEN @ ELSE Append(@, r)],
             row' = [row EXCEPT ![c].lastStatus = r],
             IF Transition(loop[l].prev, r) THEN loop' = [loop EXCEPT ![l].phase = "alert"] /\ job' = job ELSE Complete(l)
      PROVE  AlertOK(c)'
  <2> PICK h, a, h2, s : h = history[c] /\ a = alerts[c] /\ h2 = history'[c] /\ s = row[c].lastStatus
    OBVIOUS
  <2>1. h \in Seq(Status) /\ a \in Seq(Status)
    BY DEF Inv, TypeOK
  <2>2. h2 = (IF h # <<>> /\ h[Len(h)] = r THEN h ELSE Append(h, r)) /\ row'[c].lastStatus = r /\ alerts'[c] = a
    BY <1>1, <1>2, <1>9 DEF Inv, TypeOK, Row
  <2>3. LastOK(h, s)
    BY <1>2 DEF AlertOK
  <2>4. PICK clean \in BOOLEAN, less \in BOOLEAN : (clean <=> Clean) /\ (less <=> Clean')
    OBVIOUS
  <2>5. Announced(h, a, FALSE, less)
    <3>1. ~Alerting(c)
      BY <1>3, <1>4 DEF Alerting
    <3>2. Announced(h, a, FALSE, clean)
      BY <1>2, <2>4, <3>1 DEF AlertOK, Announced
    <3> QED BY <1>5, <2>1, <2>4, <3>2, AnnounceLess
  <2>6. \E b \in BOOLEAN : /\ LastOK(h2, r) /\ Announced(h2, a, b, less)
                           /\ b <=> Transition(s, r)
                           /\ b => h2 # <<>> /\ r = h2[Len(h2)]
    <3>1. CASE h = <<>>
      <4>1. ~Transition(s, r) /\ h2 = Append(<<>>, r)
        BY <2>2, <2>3, <3>1 DEF LastOK, Transition
      <4>2. Announced(h2, a, FALSE, less) /\ LastOK(h2, r)
        BY <1>1, <2>1, <2>5, <3>1, <4>1, AnnounceFirst
      <4> QED BY <4>1, <4>2
    <3>2. CASE h # <<>> /\ h[Len(h)] = r
      <4>1. ~Transition(s, r) /\ h2 = h
        BY <2>2, <2>3, <3>2 DEF LastOK, Transition
      <4>2. LastOK(h, r)
        BY <3>2 DEF LastOK
      <4> QED BY <2>5, <4>1, <4>2
    <3>3. CASE h # <<>> /\ h[Len(h)] # r
      <4>1. s \in Status
        BY <2>1, <2>3, <3>3 DEF LastOK
      <4>2. Transition(s, r) /\ h2 = Append(h, r)
        BY <2>2, <2>3, <3>3, <4>1 DEF LastOK, Transition, Status
      <4>3. Announced(h2, a, TRUE, less) /\ LastOK(h2, r)
        BY <1>1, <2>1, <2>5, <3>3, <4>2, AnnounceChange
      <4>4. h2 # <<>> /\ r = h2[Len(h2)]
        BY <1>1, <2>1, <4>2
      <4> QED BY <4>2, <4>3, <4>4
    <3> QED BY <3>1, <3>2, <3>3
  <2>7. PICK b \in BOOLEAN : /\ LastOK(h2, r) /\ Announced(h2, a, b, less)
                             /\ b <=> Transition(s, r)
                             /\ b => h2 # <<>> /\ r = h2[Len(h2)]
    BY <2>6
  <2>8. (Alerts(l, c)' <=> b) /\ (b => loop'[l].result = r)
    <3>1. loop[l].prev = s
      BY <1>1, <1>9
    <3>2. CASE b
      <4>1. loop' = [loop EXCEPT ![l] = [loop[l] EXCEPT !.phase = "alert"]] /\ job' = job
        BY <1>9, <2>7, <3>1, <3>2
      <4>2. loop'[l].phase = "alert" /\ loop'[l].result = r /\ loop'[l].job = loop[l].job
        BY <1>1, <4>1 DEF Inv, TypeOK, Loop
      <4> QED BY <1>9, <3>2, <4>1, <4>2 DEF Alerts, CheckOf
    <3>3. CASE ~b
      <4>1. loop'[l].phase = "idle"
        BY <1>1, <1>9, <2>7, <3>1, <3>3 DEF Complete, IdleLoop, Inv, TypeOK
      <4> QED BY <3>3, <4>1 DEF Alerts
    <3> QED BY <3>2, <3>3
  <2>9. Alerting(c)' <=> b
    BY <1>3, <2>8 DEF Alerting
  <2>10. LastOK(history[c], row[c].lastStatus)'
    BY <2>2, <2>7 DEF LastOK
  <2>11. Announced(history[c], alerts[c], Alerting(c), Clean)'
    BY <2>2, <2>4, <2>7, <2>9 DEF Announced
  <2>12. \A m \in Loops : Alerts(m, c)' => history'[c] # <<>> /\ loop'[m].result = history'[c][Len(history'[c])]
    BY <1>3, <2>7, <2>8
  <2> QED BY <2>10, <2>11, <2>12 DEF AlertOK
<1>10. CASE c = d
  <2>1. \/ /\ history' = [history EXCEPT ![c] = IF @ # <<>> /\ @[Len(@)] = r THEN @ ELSE Append(@, r)]
           /\ row' = [row EXCEPT ![c].lastStatus = r]
           /\ IF Transition(loop[l].prev, r) THEN loop' = [loop EXCEPT ![l].phase = "alert"] /\ job' = job ELSE Complete(l)
        \/ history' = history /\ row' = row /\ Throw(l)
    BY <1>10 DEF Persist
  <2> QED BY <1>8, <1>9, <1>10, <2>1
<1> QED BY <1>7, <1>10

(* An alert that is queued, or lost with Redis. *)
LEMMA AlertAlert ==
  ASSUME OneLoop, Inv, Inv', AlertInv, NEW l \in Loops, Alert(l), NEW c \in Checks, Present(c)
  PROVE  AlertOK(c)'
<1> DEFINE d == CheckOf(l)
<1>1. /\ loop[l].phase = "alert" /\ loop[l] \in Loop /\ loop[l].job \in Jobs
      /\ d \in Checks /\ loop[l].result \in Status
  BY HandledCheck DEF Alert, Loop
<1>2. AlertOK(c) /\ history' = history /\ row' = row
  BY DEF AlertInv, Alert
<1>3. \A m \in Loops : m = l
  BY DEF OneLoop
<1>4. loop'[l].phase = "idle"
  BY DEF Alert, Complete, IdleLoop, Inv, TypeOK
<1>5. \A m \in Loops : \A e : ~Alerts(m, e)'
  BY <1>3, <1>4 DEF Alerts
<1>6. Clean' => Clean
  <2>1. CASE used' = used
    BY <2>1 DEF Clean
  <2>2. CASE Use("redis", MaxRedis)
    BY <2>2, UseClean DEF Bounds
  <2> QED BY <2>1, <2>2 DEF Alert
<1>7. CASE c # d
  <2>1. alerts'[c] = alerts[c] /\ \A m \in Loops : ~Alerts(m, c)
    BY <1>1, <1>3, <1>7 DEF Alert, Inv, TypeOK, Alerts
  <2> QED BY <1>2, <1>5, <1>6, <2>1, AlertKept
<1>8. CASE c = d
  <2>1. Alerts(l, c)
    BY <1>1, <1>8 DEF Alerts
  <2> PICK h, a, a2, r : h = history[c] /\ a = alerts[c] /\ a2 = alerts'[c] /\ r = loop[l].result
    OBVIOUS
  <2>2. h \in Seq(Status) /\ a \in Seq(Status)
    BY DEF Inv, TypeOK
  <2>3. PICK clean \in BOOLEAN, less \in BOOLEAN : (clean <=> Clean) /\ (less <=> Clean')
    OBVIOUS
  <2>4. Alerting(c) /\ ~Alerting(c)'
    BY <1>5, <2>1 DEF Alerting
  <2>5. Announced(h, a, TRUE, clean) /\ r = h[Len(h)]
    BY <1>2, <2>1, <2>3, <2>4 DEF AlertOK, Announced
  <2>6. Announced(h, a2, FALSE, less)
    <3>1. CASE a2 = Append(a, r)
      <4>1. Announced(h, Append(a, r), FALSE, clean) /\ r \in Status
        BY <1>1, <2>2, <2>5, AnnounceAlert
      <4>2. a2 \in Seq(Status)
        BY <2>2, <3>1, <4>1
      <4>3. Announced(h, a2, FALSE, clean)
        BY <3>1, <4>1, Zenon
      <4> QED BY <1>6, <2>2, <2>3, <4>2, <4>3, AnnounceLess
    <3>2. CASE a2 = a /\ Use("redis", MaxRedis)
      <4>1. ~less
        BY <2>3, <3>2, UseClean DEF Bounds
      <4>2. Announced(h, a, FALSE, FALSE)
        BY <2>2, <2>5, AnnounceLess
      <4> QED BY <3>2, <4>1, <4>2
    <3> QED BY <1>1, <1>8, <3>1, <3>2 DEF Alert, Inv, TypeOK
  <2>7. LastOK(history[c], row[c].lastStatus)'
    BY <1>2 DEF AlertOK, LastOK
  <2>8. Announced(history[c], alerts[c], Alerting(c), Clean)'
    BY <1>2, <2>3, <2>4, <2>6 DEF Announced
  <2> QED BY <1>5, <2>7, <2>8 DEF AlertOK
<1> QED BY <1>7, <1>8

(* A restart loses the alert of the handler it kills. *)
LEMMA AlertRestart ==
  ASSUME Inv, AlertInv, Restart, NEW c \in Checks, Present(c)
  PROVE  AlertOK(c)'
<1>1. AlertOK(c) /\ history' = history /\ row' = row /\ alerts' = alerts
  BY DEF AlertInv, Restart
<1>2. \A l \in Loops : ~Alerts(l, c)'
  BY DEF Alerts, Restart, IdleLoop
<1>3. ~Clean'
  BY UseClean DEF Restart, Bounds
<1> PICK h, a : h = history[c] /\ a = alerts[c]
  OBVIOUS
<1>4. h \in Seq(Status) /\ a \in Seq(Status)
  BY DEF Inv, TypeOK
<1>5. PICK b \in BOOLEAN, clean \in BOOLEAN : (b <=> Alerting(c)) /\ (clean <=> Clean)
  OBVIOUS
<1>6. Announced(h, a, b, clean)
  BY <1>1, <1>5 DEF AlertOK, Announced
<1>7. Announced(h, a, FALSE, FALSE)
  BY <1>4, <1>6, AnnounceLess
<1>8. Announced(history[c], alerts[c], Alerting(c), Clean)'
  BY <1>1, <1>2, <1>3, <1>7 DEF Announced, Alerting
<1> QED BY <1>1, <1>2, <1>8 DEF AlertOK, LastOK

(* The other steps write no result and queue no alert. *)
LEMMA AlertOthers ==
  ASSUME OneLoop, Inv, Inv', AlertInv, Next, ~Restart, \A l \in Loops : ~Handler(l), NEW c \in Checks, Present(c)'
  PROVE  AlertOK(c)'
<1>1. \A l \in Loops : (Alerts(l, c)' <=> Alerts(l, c)) /\ (Alerts(l, c) => loop'[l].result = loop[l].result)
  BY AlertsStay
<1>2. alerts' = alerts
  BY DEF Next, Scheduler, TickRead, TickAdvance, TickEnqueue, Take, Promote, Elapse, Create, RunNow,
     SetEnabled, Remove, Flip, Sweeper, SweepList, SweepCompare, SweepEnd, SweepRemove
<1>3. Clean' => Clean
  <2>1. CASE used' = used
    BY <2>1 DEF Clean
  <2>2. CASE \E k \in Bounds : \E b : Use(k, b)
    BY <2>2, UseClean
  <2> QED BY <2>1, <2>2 DEF Bounds, Next, Scheduler, TickRead, TickAdvance, TickEnqueue, Take, Promote, Elapse, Create, RunNow,
     SetEnabled, Remove, Flip, Sweeper, SweepList, SweepCompare, SweepEnd, SweepRemove
<1>4. row[c] \in Row
  BY DEF Inv, TypeOK
<1>5. row'[c].lastStatus = row[c].lastStatus
  BY StatusWriter DEF Handler
<1>6. history'[c] = history[c]
  <2>1. ASSUME NEW d \in Checks, Remove(d)
        PROVE  c # d /\ history'[c] = history[c]
    <3>1. row' = [row EXCEPT ![d] = [row[d] EXCEPT !.life = "deleted"]]
      BY <2>1 DEF Remove
    <3>2. c # d
      BY <1>4, <3>1 DEF Present, Inv, TypeOK, Row
    <3> QED BY <2>1, <3>2 DEF Remove, Inv, TypeOK
  <2>2. CASE history' = history
    BY <2>2
  <2> QED BY <2>1, <2>2 DEF Next, Scheduler, TickRead, TickAdvance, TickEnqueue, Take, Promote, Elapse, Create, RunNow,
     SetEnabled, Flip, Sweeper, SweepList, SweepCompare, SweepEnd, SweepRemove
<1>7. CASE Present(c)
  <2>1. AlertOK(c)
    BY <1>7 DEF AlertInv
  <2> QED BY <1>1, <1>2, <1>3, <1>5, <1>6, <2>1, AlertKept
<1>8. CASE ~Present(c)
  <2>1. row[c].life = "new"
    BY <1>4, <1>8, LifeGoesOn DEF Present, Row
  <2>2. history[c] = <<>> /\ alerts[c] = <<>> /\ row[c].lastStatus = "UNKNOWN"
    BY <2>1 DEF AlertInv
  <2>3. \A l \in Loops : ~Alerts(l, c)
    BY <2>1, HandledCheck DEF Alerts
  <2>4. AlertOK(c)
    BY <2>2, <2>3 DEF AlertOK, LastOK, Announced, Alerting
  <2> QED BY <1>1, <1>2, <1>3, <1>5, <1>6, <2>4, AlertKept
<1> QED BY <1>7, <1>8

(* Every step keeps what is known of the alerts. *)
LEMMA AlertStep ==
  ASSUME OneLoop, Inv, Inv', PrevIsCurrent, AlertInv, Next
  PROVE  AlertInv'
<1> SUFFICES ASSUME NEW c \in Checks
             PROVE  /\ (row[c].life = "new")' => (history[c] = <<>> /\ alerts[c] = <<>> /\ row[c].lastStatus = "UNKNOWN")'
                    /\ Present(c)' => AlertOK(c)'
  BY DEF AlertInv
<1>1. ASSUME NEW l \in Loops, Handler(l)
      PROVE  \A d \in Checks : row'[d].life = row[d].life
  <2>1. CASE row' = row
    BY <2>1
  <2>2. CASE row' # row
    <3>1. row' = [row EXCEPT ![CheckOf(l)] = [row[CheckOf(l)] EXCEPT !.lastStatus = loop[l].result]]
      BY <1>1, <2>2 DEF Handler, Read, Probe, Persist, Alert
    <3> QED BY <3>1 DEF Inv, TypeOK, Row
  <2> QED BY <2>1, <2>2
<1>2. Present(c)' => AlertOK(c)'
  <2> SUFFICES ASSUME Present(c)' PROVE AlertOK(c)'
    OBVIOUS
  <2>1. ASSUME NEW l \in Loops, Handler(l)
        PROVE  AlertOK(c)'
    <3>1. Present(c)
      BY <1>1, <2>1 DEF Present
    <3>2. CASE Read(l) \/ Probe(l)
      <4>1. history' = history /\ alerts' = alerts /\ row' = row /\ AlertOK(c)
        BY <3>1, <3>2 DEF Read, Probe, AlertInv
      <4>2. Clean' => Clean
        <5>1. CASE used' = used
          BY <5>1 DEF Clean
        <5>2. CASE Use("faults", MaxFaults)
          BY <5>2, UseClean DEF Bounds
        <5> QED BY <3>2, <5>1, <5>2 DEF Read, Probe
      <4>3. ~Alerts(l, c) /\ loop[l] \in Loop
        BY <3>2 DEF Read, Probe, Alerts, Inv, TypeOK
      <4>4. loop'[l].phase # "alert"
        <5>1. CASE Complete(l) \/ Throw(l)
          BY <5>1 DEF Complete, Throw, IdleLoop, Inv, TypeOK
        <5>2. CASE ~(Complete(l) \/ Throw(l))
          BY <3>2, <4>3, <5>2 DEF Read, Probe, Inv, TypeOK, Loop
        <5> QED BY <5>1, <5>2
      <4>5. \A m \in Loops : ~Alerts(m, c) /\ ~Alerts(m, c)'
        BY <4>3, <4>4 DEF Alerts, OneLoop
      <4> QED BY <4>1, <4>2, <4>5, AlertKept
    <3> QED BY <2>1, <3>1, <3>2, AlertPersist, AlertAlert DEF Handler
  <2>2. CASE Restart
    <3>1. Present(c)
      BY <2>2 DEF Present, Restart
    <3> QED BY <2>2, <3>1, AlertRestart
  <2> QED BY <2>1, <2>2, AlertOthers
<1>3. ASSUME row'[c].life = "new"
      PROVE  history'[c] = <<>> /\ alerts'[c] = <<>> /\ row'[c].lastStatus = "UNKNOWN"
  <2>1. row[c].life = "new"
    BY <1>3, LifeGoesOn
  <2>2. history[c] = <<>> /\ alerts[c] = <<>> /\ row[c].lastStatus = "UNKNOWN"
    BY <2>1 DEF AlertInv
  <2>3. ASSUME NEW l \in Loops, Handler(l)
        PROVE  CheckOf(l) # c /\ CheckOf(l) \in Checks
    BY <2>1, <2>3, HandlerStep, HandledCheck
  <2>4. history'[c] = history[c]
    <3>1. ASSUME NEW l \in Loops, Handler(l)
          PROVE  history'[c] = history[c]
      BY <2>3, <3>1 DEF Handler, Read, Probe, Persist, Alert, Inv, TypeOK
    <3>2. ASSUME NEW d \in Checks, Remove(d)
          PROVE  history'[c] = history[c]
      BY <2>1, <3>2 DEF Remove, Present, Inv, TypeOK
    <3>3. CASE history' = history
      BY <3>3
    <3> QED BY <3>1, <3>2, <3>3 DEF Next, Scheduler, TickRead, TickAdvance, TickEnqueue, Take, Promote, Elapse, Create,
               RunNow, SetEnabled, Flip, Restart, Sweeper, SweepList, SweepCompare, SweepEnd, SweepRemove
  <2>5. alerts'[c] = alerts[c]
    <3>1. ASSUME NEW l \in Loops, Handler(l)
          PROVE  alerts'[c] = alerts[c]
      BY <2>3, <3>1 DEF Handler, Read, Probe, Persist, Alert, Inv, TypeOK
    <3>2. CASE alerts' = alerts
      BY <3>2
    <3> QED BY <3>1, <3>2 DEF Next, Scheduler, TickRead, TickAdvance, TickEnqueue, Take, Promote, Elapse, Create,
               RunNow, SetEnabled, Remove, Flip, Restart, Sweeper, SweepList, SweepCompare, SweepEnd, SweepRemove
  <2>6. row'[c].lastStatus = row[c].lastStatus
    <3>1. CASE \A d \in Checks : row'[d].lastStatus = row[d].lastStatus
      BY <3>1
    <3>2. ASSUME NEW l \in Loops, Persist(l)
          PROVE  row'[c] = row[c]
      BY <2>3, <3>2 DEF Handler, Persist, Inv, TypeOK
    <3> QED BY <3>1, <3>2, StatusWriter
  <2> QED BY <2>2, <2>4, <2>5, <2>6
<1> QED BY <1>2, <1>3

(* The alerts of a check are its status changes, in order: all of them while
   Redis and the worker do not fail, and never more than them. *)
THEOREM AlertsFollowHistoryHolds == OneLoop => (Safety => []AlertsFollowHistory)
<1> SUFFICES ASSUME OneLoop PROVE Safety => []AlertsFollowHistory
  OBVIOUS
<1>1. Init => PrevIsCurrent /\ AlertInv
  <2> SUFFICES ASSUME Init PROVE PrevIsCurrent /\ AlertInv
    OBVIOUS
  <2>1. PrevIsCurrent
    BY DEF Init, PrevIsCurrent, IdleLoop
  <2>2. AlertInv
    BY DEF Init, AlertInv, Present
  <2> QED BY <2>1, <2>2
<1>2. Inv /\ Inv' /\ PrevIsCurrent /\ AlertInv /\ [Next]_vars => PrevIsCurrent' /\ AlertInv'
  <2>1. ASSUME PrevIsCurrent, AlertInv, UNCHANGED vars PROVE PrevIsCurrent' /\ AlertInv'
    <3>1. UNCHANGED <<row, history, job, loop, alerts, used>>
      BY <2>1 DEF vars
    <3>2. PrevIsCurrent'
      BY <2>1, <3>1 DEF PrevIsCurrent, CheckOf
    <3>3. \A l \in Loops, c \in Checks : Alerts(l, c)' <=> Alerts(l, c)
      BY <3>1 DEF Alerts, CheckOf
    <3>4. \A c \in Checks : Alerting(c)' <=> Alerting(c)
      BY <3>3 DEF Alerting
    <3>5. Clean' <=> Clean
      BY <3>1 DEF Clean
    <3>6. ASSUME NEW c \in Checks, AlertOK(c) PROVE AlertOK(c)'
      <4>1. LastOK(history[c], row[c].lastStatus)'
        BY <3>1, <3>6 DEF AlertOK, LastOK
      <4>2. Announced(history[c], alerts[c], Alerting(c), Clean)'
        BY <3>1, <3>4, <3>5, <3>6 DEF AlertOK, Announced
      <4> QED BY <3>1, <3>3, <3>6, <4>1, <4>2 DEF AlertOK
    <3> QED BY <2>1, <3>1, <3>2, <3>6 DEF AlertInv, Present
  <2> QED BY <2>1, PrevStep, AlertStep
<1>3. Inv /\ AlertInv => AlertsFollowHistory
  <2> SUFFICES ASSUME Inv, AlertInv, NEW c \in Checks, Present(c)
               PROVE  LET changes == IF history[c] = <<>> THEN <<>> ELSE Tail(history[c])
                          pending == Cardinality({l \in Loops : loop[l].phase = "alert" /\ CheckOf(l) = c})
                      IN  /\ Len(alerts[c]) + pending <= Len(changes)
                          /\ used["redis"] = 0 /\ used["crash"] = 0 =>
                               Len(alerts[c]) + pending = Len(changes) /\ alerts[c] = SubSeq(changes, 1, Len(alerts[c]))
    BY DEF AlertsFollowHistory
  <2> DEFINE P == {l \in Loops : loop[l].phase = "alert" /\ CheckOf(l) = c}
  <2>1. PICK b \in BOOLEAN, clean \in BOOLEAN : (b <=> Alerting(c)) /\ (clean <=> Clean)
    OBVIOUS
  <2>2. history[c] \in Seq(Status) /\ alerts[c] \in Seq(Status) /\ Announced(history[c], alerts[c], b, clean)
    BY <2>1 DEF Inv, TypeOK, AlertInv, AlertOK, Announced
  <2>3. Cardinality(P) = IF b THEN 1 ELSE 0
    <3>1. CASE b
      <4>1. PICK l \in Loops : P = {l}
        BY <2>1, <3>1 DEF Alerting, Alerts, OneLoop
      <4> QED BY <3>1, <4>1, FS_Singleton
    <3>2. CASE ~b
      <4>1. P = {}
        BY <2>1, <3>2 DEF Alerting, Alerts
      <4> QED BY <3>2, <4>1, FS_EmptySet
    <3> QED BY <3>1, <3>2
  <2> PICK n, changes : n = Cardinality(P) /\ changes = IF history[c] = <<>> THEN <<>> ELSE Tail(history[c])
    OBVIOUS
  <2>4. /\ Len(alerts[c]) + n <= Len(changes)
        /\ clean => Len(alerts[c]) + n = Len(changes) /\ alerts[c] = SubSeq(changes, 1, Len(alerts[c]))
    <3> PICK h, a : h = history[c] /\ a = alerts[c]
      OBVIOUS
    <3>1. h \in Seq(Status) /\ a \in Seq(Status) /\ Announced(h, a, b, clean)
      BY <2>2
    <3>2. n = (IF b THEN 1 ELSE 0) /\ changes = IF h = <<>> THEN <<>> ELSE Tail(h)
      BY <2>3
    <3>3. FirstOf(a, n, changes, clean)
      BY <3>1, <3>2, AnnouncedIsPrefix
    <3> QED BY <3>3 DEF FirstOf
  <2> QED BY <2>1, <2>4 DEF Clean
<1> QED BY <1>1, <1>2, <1>3, Invariance, PTL DEF Safety
=============================================================================
