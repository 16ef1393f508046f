--------------------- MODULE NotificationDispatchProofs ---------------------
(***************************************************************************)
(* Proofs about the dispatch of notifications, for any number of events,   *)
(* job loops, channels, forms, attempts, faults and restarts.              *)
(***************************************************************************)
EXTENDS NotificationDispatch, FiniteSetTheorems, TLAPS

(* A job in hand is active, and in one pair of hands. *)
Holding ==
  /\ \A w \in Consumers : consumer[w] # Idle => consumer[w].event \in Events
  /\ \A w \in Consumers : consumer[w].event \in Events => job[consumer[w].event].state = "active"
  /\ \A w, v \in Consumers :
       consumer[w].event \in Events /\ consumer[w].event = consumer[v].event => w = v

(* Messages are under way only while the handler sends. *)
OnlyWhileSending ==
  \A w \in Consumers, k \in Kinds :
    k \in consumer[w].pending \/ consumer[w].answered[k] # "none" => consumer[w].phase = "send"

(* A job that is not settled has attempts left. *)
AttemptsLeft ==
  \A e \in Events :
    job[e].state \in {"none", "waiting", "active", "delayed", "completed"} => job[e].made < Attempts

(* What an attempt has still to send, it has not sent. *)
NotYetSent ==
  \A w \in Consumers, k \in Kinds :
    /\ consumer[w].event \in Events
    /\ consumer[w].phase \in {"resolve", "read"} \/ k \in consumer[w].pending
    => LET e == consumer[w].event
       IN  delivered[e][k] <= job[e].made + (IF job[e].stalled THEN 1 ELSE 0)

(* A targeted channel is in hand, has the message, or counts as failed. *)
Accounted ==
  \A w \in Consumers, k \in Kinds :
    consumer[w].phase = "send" /\ consumer[w].event \in Events /\ k \in outcome[consumer[w].event].target =>
      \/ k \in consumer[w].pending \/ consumer[w].answered[k] = "ko" \/ k \in consumer[w].failed
      \/ delivered[consumer[w].event][k] > 0

Inv ==
  /\ TypeOK /\ Holding /\ OnlyWhileSending /\ AttemptsLeft /\ NotYetSent /\ Accounted
  /\ DuplicatesExplained /\ NothingDroppedUnseen

-----------------------------------------------------------------------------
(* Types. *)

(* The settings an absent scope reads as. *)
LEMMA EmptyType == Empty \in Settings
BY Parameters

(* The record a job becomes. *)
LEMMA JobRecords ==
  ASSUME NEW b \in Job
  PROVE  /\ \A x \in {"lost", "waiting", "active", "delayed", "completed", "failed"} :
              [b EXCEPT !.state = x] \in Job
         /\ \A x \in {"delayed", "failed"} : [b EXCEPT !.made = b.made + 1, !.state = x] \in Job
         /\ Stalled(b) \in Job /\ Stalled(b).made = b.made
<1>1. b = [state |-> b.state, made |-> b.made, stalled |-> b.stalled]
  BY DEF Job
<1>2. b.made \in Nat /\ b.made + 1 \in Nat
  BY DEF Job
<1>3. \A x \in {"lost", "waiting", "active", "delayed", "completed", "failed"} :
        [b EXCEPT !.state = x] \in Job
  BY DEF Job
<1>4. \A x \in {"delayed", "failed"} : [b EXCEPT !.made = b.made + 1, !.state = x] \in Job
  BY <1>2 DEF Job
<1>5. Stalled(b) \in Job
  BY DEF Job, Stalled
<1>6. Stalled(b).made = b.made
  BY DEF Job, Stalled
<1> QED BY <1>3, <1>4, <1>5, <1>6

(* A job that changes its state. *)
LEMMA StateType ==
  ASSUME TypeOK, NEW e \in Events, NEW x \in {"lost", "waiting", "active", "delayed", "completed", "failed"},
         job' = [job EXCEPT ![e] = [job[e] EXCEPT !.state = x]]
  PROVE  job' \in [Events -> Job] /\ \A d \in Events : job'[d].made <= Attempts
<1> DEFINE b == [job[e] EXCEPT !.state = x]
<1>1. job[e] \in Job /\ job[e].made <= Attempts
  BY DEF TypeOK
<1>2. b \in Job /\ b.made = job[e].made
  BY <1>1 DEF Job
<1>3. job' = [job EXCEPT ![e] = b]
  OBVIOUS
<1> HIDE DEF b
<1> QED BY <1>1, <1>2, <1>3 DEF TypeOK

(* The records a job loop becomes. *)
LEMMA ConsumerRecords ==
  /\ Idle \in Consumer
  /\ \A e \in Events : [Idle EXCEPT !.event = e, !.phase = "resolve"] \in Consumer
<1>1. Idle \in Consumer
  BY EmptyType DEF Idle, Consumer
<1> QED BY <1>1 DEF Consumer

(* The records a handler makes of its own. *)
LEMMA HandlerRecords ==
  ASSUME NEW c \in Consumer
  PROVE  /\ \A b \in BOOLEAN, t \in SUBSET (Scopes \X Tables) :
              [c EXCEPT !.phase = "read", !.scoped = b, !.toRead = t] \in Consumer
         /\ \A t \in SUBSET (Scopes \X Tables), v \in [Scopes -> Settings] :
              [c EXCEPT !.toRead = t, !.seen = v] \in Consumer
         /\ \A t \in SUBSET Kinds : [c EXCEPT !.phase = "send", !.pending = t] \in Consumer
         /\ \A t \in SUBSET Kinds, a \in [Kinds -> Answers \cup {"none"}] :
              /\ [c EXCEPT !.pending = t, !.answered = a] \in Consumer
              /\ [c EXCEPT !.answered = a, !.failed = t] \in Consumer
<1>1. \A b \in BOOLEAN, t \in SUBSET (Scopes \X Tables) :
        [c EXCEPT !.phase = "read", !.scoped = b, !.toRead = t] \in Consumer
  BY DEF Consumer
<1>2. \A t \in SUBSET (Scopes \X Tables), v \in [Scopes -> Settings] :
        [c EXCEPT !.toRead = t, !.seen = v] \in Consumer
  BY DEF Consumer
<1>3. \A t \in SUBSET Kinds : [c EXCEPT !.phase = "send", !.pending = t] \in Consumer
  BY DEF Consumer
<1>4. ASSUME NEW t \in SUBSET Kinds, NEW a \in [Kinds -> Answers \cup {"none"}]
      PROVE  [c EXCEPT !.pending = t, !.answered = a] \in Consumer
  BY <1>4 DEF Consumer
<1>5. ASSUME NEW t \in SUBSET Kinds, NEW a \in [Kinds -> Answers \cup {"none"}]
      PROVE  [c EXCEPT !.answered = a, !.failed = t] \in Consumer
  BY <1>5 DEF Consumer
<1> QED BY <1>1, <1>2, <1>3, <1>4, <1>5

(* Settings whose one table comes from other settings. *)
LEMMA TableType ==
  ASSUME NEW v \in Settings, NEW x \in Settings, NEW t \in Tables
  PROVE  [v EXCEPT ![t] = x[t]] \in Settings
<1>1. CASE t = "channels"
  BY <1>1 DEF Settings
<1>2. CASE t = "rule"
  BY <1>2 DEF Settings
<1> QED BY <1>1, <1>2 DEF Tables

(* A budget that is used is still a number. *)
LEMMA UseType ==
  ASSUME NEW kind \in Bounds, NEW bound, used \in [Bounds -> Nat], Use(kind, bound)
  PROVE  used' \in [Bounds -> Nat]
BY DEF Use

(* What Throw makes of its job. *)
LEMMA ThrowEffect ==
  ASSUME TypeOK, NEW w \in Consumers, consumer[w].event \in Events, Throw(w)
  PROVE  \E b \in Job :
           LET a == job[consumer[w].event] IN
           /\ job' = [job EXCEPT ![consumer[w].event] = b]
           /\ b.made = a.made + 1 /\ b.stalled = a.stalled
           /\ b.state = (IF a.made + 1 < Attempts THEN "delayed" ELSE "failed")
<1> DEFINE e == consumer[w].event
           x == IF job[e].made + 1 < Attempts THEN "delayed" ELSE "failed"
           b == [job[e] EXCEPT !.made = job[e].made + 1, !.state = x]
<1>1. job[e] \in Job
  BY DEF TypeOK
<1>2. b \in Job
  BY <1>1, JobRecords
<1>3. job' = [job EXCEPT ![e] = b]
  BY DEF Throw, TypeOK
<1>4. b.made = job[e].made + 1 /\ b.stalled = job[e].stalled /\ b.state = x
  BY <1>1 DEF Job
<1> HIDE DEF b
<1> QED BY <1>2, <1>3, <1>4

(* A handler that ends leaves a job and an idle loop. *)
LEMMA EndType ==
  ASSUME TypeOK, NEW w \in Consumers, consumer[w].event \in Events,
         Complete(w) \/ (job[consumer[w].event].made < Attempts /\ Throw(w))
  PROVE  /\ job' \in [Events -> Job] /\ \A d \in Events : job'[d].made <= Attempts
         /\ consumer' \in [Consumers -> Consumer]
         /\ inForce' \in [Consumers -> SUBSET [Scopes -> Settings]]
<1> DEFINE e == consumer[w].event
<1>1. job[e] \in Job /\ job[e].made <= Attempts /\ Attempts \in Nat
  BY Parameters DEF TypeOK
<1>2. Leave(w)
  BY DEF Complete, Throw
<1>3. PICK b \in Job : b.made <= Attempts /\ job' = [job EXCEPT ![e] = b]
  <2>1. CASE Complete(w)
    <3> DEFINE b == [job[e] EXCEPT !.state = "completed"]
    <3>1. b \in Job /\ b.made = job[e].made
      BY <1>1 DEF Job
    <3>2. job' = [job EXCEPT ![e] = b]
      BY <2>1 DEF Complete, TypeOK
    <3> QED BY <1>1, <3>1, <3>2
  <2>2. CASE job[e].made < Attempts /\ Throw(w)
    <3>1. PICK b \in Job : job' = [job EXCEPT ![e] = b] /\ b.made = job[e].made + 1
      BY <2>2, ThrowEffect
    <3>2. job[e].made \in Nat
      BY <1>1 DEF Job
    <3>3. b.made <= Attempts
      BY <1>1, <2>2, <3>1, <3>2
    <3> QED BY <3>1, <3>3
  <2> QED BY <2>1, <2>2
<1>4. job' \in [Events -> Job] /\ \A d \in Events : job'[d].made <= Attempts
  BY <1>3 DEF TypeOK
<1> QED BY <1>2, <1>4, ConsumerRecords DEF Leave, TypeOK

(* Settings that change leave typed settings. *)
LEMMA ChangeType ==
  ASSUME TypeOK, NEW new \in [Scopes -> Settings], Change(new)
  PROVE  /\ settings' \in [Scopes -> Settings]
         /\ inForce' \in [Consumers -> SUBSET [Scopes -> Settings]]
BY DEF Change, TypeOK

(* The steps of the forms and of the queue keep TypeOK. *)
LEMMA TypeOutside ==
  ASSUME TypeOK,
         \/ \E s \in Scopes : Delete(s) \/ \E c \in Configs : Save(s, c)
         \/ \E s \in Scopes, t \in Tables : DeleteTable(s, t)
         \/ \E e \in Events : Emit(e) \/ Promote(e)
         \/ \E w \in Consumers, e \in Events : Take(w, e)
  PROVE  TypeOK'
<1>1. ASSUME NEW s \in Scopes, Delete(s) PROVE TypeOK'
  <2>1. used' \in [Bounds -> Nat]
    BY <1>1, UseType DEF Delete, Bounds, TypeOK
  <2>2. deleting' \in [Scopes -> SUBSET Tables]
    BY <1>1 DEF Delete, TypeOK
  <2> QED BY <1>1, <2>1, <2>2 DEF Delete, TypeOK
<1>2. ASSUME NEW s \in Scopes, NEW c \in Configs, Save(s, c) PROVE TypeOK'
  <2>1. used' \in [Bounds -> Nat]
    BY <1>2, UseType DEF Save, Bounds, TypeOK
  <2>2. [settings EXCEPT ![s] = c] \in [Scopes -> Settings]
    BY Parameters DEF TypeOK
  <2>3. Change([settings EXCEPT ![s] = c])
    BY <1>2 DEF Save
  <2>4. settings' \in [Scopes -> Settings] /\ inForce' \in [Consumers -> SUBSET [Scopes -> Settings]]
    BY <2>2, <2>3, ChangeType
  <2> QED BY <1>2, <2>1, <2>4 DEF Save, TypeOK
<1>3. ASSUME NEW s \in Scopes, NEW t \in Tables, DeleteTable(s, t) PROVE TypeOK'
  <2> DEFINE cleared == [settings[s] EXCEPT ![t] = Empty[t]]
  <2>1. cleared \in Settings
    BY EmptyType, TableType DEF TypeOK
  <2>2. Change([settings EXCEPT ![s] = cleared])
    BY <1>3 DEF DeleteTable, TypeOK
  <2> HIDE DEF cleared
  <2>3. [settings EXCEPT ![s] = cleared] \in [Scopes -> Settings]
    BY <2>1 DEF TypeOK
  <2>4. settings' \in [Scopes -> Settings] /\ inForce' \in [Consumers -> SUBSET [Scopes -> Settings]]
    BY <2>2, <2>3, ChangeType
  <2>5. deleting' \in [Scopes -> SUBSET Tables]
    BY <1>3 DEF DeleteTable, TypeOK
  <2> QED BY <1>3, <2>4, <2>5 DEF DeleteTable, TypeOK
<1>4. ASSUME NEW e \in Events, Emit(e) \/ Promote(e) PROVE TypeOK'
  <2>1. used' \in [Bounds -> Nat]
    BY <1>4, UseType DEF Emit, Promote, Bounds, TypeOK
  <2>2. PICK x \in {"lost", "waiting"} : job' = [job EXCEPT ![e].state = x]
    BY <1>4 DEF Emit, Promote
  <2>3. job' = [job EXCEPT ![e] = [job[e] EXCEPT !.state = x]]
    BY <2>2 DEF TypeOK
  <2>4. job' \in [Events -> Job] /\ \A d \in Events : job'[d].made <= Attempts
    BY <2>3, StateType
  <2> QED BY <1>4, <2>1, <2>4 DEF Emit, Promote, TypeOK
<1>5. ASSUME NEW w \in Consumers, NEW e \in Events, Take(w, e) PROVE TypeOK'
  <2>1. job' = [job EXCEPT ![e] = [job[e] EXCEPT !.state = "active"]]
    BY <1>5 DEF Take, TypeOK
  <2>2. job' \in [Events -> Job] /\ \A d \in Events : job'[d].made <= Attempts
    BY <2>1, StateType
  <2>3. consumer' \in [Consumers -> Consumer]
    BY <1>5, ConsumerRecords DEF Take, TypeOK
  <2> QED BY <1>5, <2>2, <2>3 DEF Take, TypeOK
<1> QED BY <1>1, <1>2, <1>3, <1>4, <1>5

(* The answers of a fan-out stay answers. *)
LEMMA AnsweredType ==
  ASSUME NEW c \in Consumer, NEW k \in Kinds, NEW a \in Answers \cup {"none"}
  PROVE  [c.answered EXCEPT ![k] = a] \in [Kinds -> Answers \cup {"none"}]
BY DEF Consumer

(* A channel answers a, and the remote side gets n messages. *)
AnswerStep(w, k, a, n) ==
  LET c == consumer[w] IN
  /\ consumer' = [consumer EXCEPT ![w] =
        [c EXCEPT !.pending = c.pending \ {k}, !.answered = [c.answered EXCEPT ![k] = a]]]
  /\ a = "ok" => n = 1
  /\ delivered' = [delivered EXCEPT ![c.event] =
        [delivered[c.event] EXCEPT ![k] = delivered[c.event][k] + n]]

(* Answer is such a step. *)
LEMMA AnswerEffect ==
  ASSUME TypeOK, NEW w \in Consumers, NEW k \in Kinds, consumer[w].event \in Events, Answer(w, k)
  PROVE  \E a \in Answers, n \in {0, 1} : AnswerStep(w, k, a, n)
<1> DEFINE e == consumer[w].event
<1>1. ASSUME NEW a \in Answers, Answered(w, k, a)
      PROVE  consumer' = [consumer EXCEPT ![w] =
               [consumer[w] EXCEPT !.pending = consumer[w].pending \ {k},
                                   !.answered = [consumer[w].answered EXCEPT ![k] = a]]]
  BY <1>1 DEF Answered, TypeOK, Consumer
<1>2. Deliver(w, k) =>
        delivered' = [delivered EXCEPT ![e] = [delivered[e] EXCEPT ![k] = delivered[e][k] + 1]]
  BY DEF Deliver, TypeOK
<1>3. UNCHANGED delivered =>
        delivered' = [delivered EXCEPT ![e] = [delivered[e] EXCEPT ![k] = delivered[e][k] + 0]]
  <2>1. delivered[e] \in [Kinds -> Nat] /\ delivered[e][k] \in Nat
    BY DEF TypeOK
  <2>2. delivered[e][k] + 0 = delivered[e][k]
    BY <2>1
  <2>3. [delivered[e] EXCEPT ![k] = delivered[e][k]] = delivered[e]
    BY <2>1
  <2>4. [delivered EXCEPT ![e] = delivered[e]] = delivered
    BY DEF TypeOK
  <2> QED BY <2>2, <2>3, <2>4
<1>4. \/ Answered(w, k, "ok") /\ Deliver(w, k)
      \/ Answered(w, k, "ko") /\ (Deliver(w, k) \/ UNCHANGED delivered)
  BY DEF Answer
<1> QED BY <1>1, <1>2, <1>3, <1>4 DEF AnswerStep, Answers

(* What Log makes of its loop. *)
LEMMA LogEffect ==
  ASSUME TypeOK, NEW w \in Consumers, NEW k \in Kinds, Log(w, k)
  PROVE  consumer' = [consumer EXCEPT ![w] =
           [consumer[w] EXCEPT !.answered = [consumer[w].answered EXCEPT ![k] = "none"],
              !.failed = consumer[w].failed \cup (IF consumer[w].answered[k] = "ok" THEN {} ELSE {k})]]
BY DEF Log, TypeOK, Consumer

(* A loop that takes a step of the handler has a job with attempts left. *)
LEMMA Busy ==
  ASSUME TypeOK, Holding, AttemptsLeft, NEW w \in Consumers, Dispatch(w) \/ Crash(w)
  PROVE  /\ consumer[w] # Idle
         /\ consumer[w].event \in Events /\ consumer[w] \in Consumer
         /\ job[consumer[w].event].state = "active" /\ job[consumer[w].event].made < Attempts
<1>1. consumer[w] # Idle
  <2>1. \/ Crash(w)
        \/ consumer[w].phase # "idle" \/ consumer[w].toRead # {} \/ consumer[w].pending # {}
        \/ \E k \in Kinds : consumer[w].answered[k] # "none"
    BY DEF Dispatch, Resolve, FanOut, Finish, Read, Answer, Log
  <2> QED BY <2>1 DEF Crash, Idle
<1> QED BY <1>1 DEF Holding, AttemptsLeft, TypeOK

(* A step of the handler either ends the attempt or keeps the job. *)
LEMMA EndOrGoOn ==
  ASSUME NEW w \in Consumers, Dispatch(w)
  PROVE  Complete(w) \/ Throw(w) \/ UNCHANGED <<job, inForce>>
BY DEF Dispatch, Resolve, FanOut, Finish, Read, Answer, Log

(* What Read makes of its loop. *)
LEMMA ReadEffect ==
  ASSUME TypeOK, NEW w \in Consumers, NEW s \in Scopes, NEW t \in Tables,
         Read(w, s, t), ~Throw(w)
  PROVE  \E q \in SUBSET (Scopes \X Tables), v \in [Scopes -> Settings] :
           consumer' = [consumer EXCEPT ![w] = [consumer[w] EXCEPT !.toRead = q, !.seen = v]]
<1> DEFINE c == consumer[w]
           q == c.toRead \ {<<s, t>>}
           read == [c.seen[s] EXCEPT ![t] = settings[s][t]]
           v == [c.seen EXCEPT ![s] = read]
<1>1. c \in Consumer /\ c.seen \in [Scopes -> Settings] /\ q \in SUBSET (Scopes \X Tables)
  BY DEF TypeOK, Consumer
<1>2. read \in Settings
  BY <1>1, TableType DEF TypeOK
<1>3. v \in [Scopes -> Settings]
  <2> HIDE DEF read, c
  <2> QED BY <1>1, <1>2
<1>4. consumer' = [consumer EXCEPT ![w] = [c EXCEPT !.toRead = q, !.seen = v]]
  BY <1>1 DEF Read, Consumer
<1> QED BY <1>1, <1>3, <1>4

(* The steps of a handler that goes on keep the type of its loop. *)
LEMMA GoOnType ==
  ASSUME TypeOK, Holding, AttemptsLeft, NEW w \in Consumers, Dispatch(w), ~Complete(w), ~Throw(w)
  PROVE  consumer' \in [Consumers -> Consumer]
<1> DEFINE c == consumer[w]
<1>1. c \in Consumer /\ c.event \in Events /\ consumer \in [Consumers -> Consumer]
  BY Busy DEF TypeOK
<1>2. SUFFICES \E d \in Consumer : consumer' = [consumer EXCEPT ![w] = d]
  BY <1>1
<1>3. CASE Resolve(w)
  <2>1. PICK b \in BOOLEAN :
          consumer' = [consumer EXCEPT ![w] = [c EXCEPT !.phase = "read", !.scoped = b,
            !.toRead = IF b THEN Scopes \X Tables ELSE {"global"} \X Tables]]
    BY <1>3 DEF Resolve
  <2>2. (IF b THEN Scopes \X Tables ELSE {"global"} \X Tables) \in SUBSET (Scopes \X Tables)
    BY DEF Scopes
  <2> QED BY <1>1, <2>1, <2>2, HandlerRecords
<1>4. ASSUME NEW s \in Scopes, NEW t \in Tables, Read(w, s, t)
      PROVE  \E d \in Consumer : consumer' = [consumer EXCEPT ![w] = d]
  BY <1>1, <1>4, ReadEffect, HandlerRecords
<1>5. CASE FanOut(w)
  <2> DEFINE targets == Targets(c.seen, c.scoped)
  <2>1. targets \in SUBSET Kinds
    <3>1. \A v \in [Scopes -> Settings], b \in BOOLEAN : RuleFor(v, b).channels \in SUBSET Kinds
      BY Parameters DEF RuleFor, Settings, Rule, Scopes
    <3>2. c.seen \in [Scopes -> Settings] /\ c.scoped \in BOOLEAN
      BY <1>1 DEF Consumer
    <3> QED BY <3>1, <3>2 DEF Targets
  <2>2. consumer' = [consumer EXCEPT ![w] = [c EXCEPT !.phase = "send", !.pending = targets]]
    BY <1>1, <1>5 DEF FanOut
  <2> HIDE DEF targets
  <2> QED BY <1>1, <2>1, <2>2, HandlerRecords
<1>6. ASSUME NEW k \in Kinds, Answer(w, k)
      PROVE  \E d \in Consumer : consumer' = [consumer EXCEPT ![w] = d]
  <2>0. PICK a \in Answers, n \in {0, 1} : AnswerStep(w, k, a, n)
    BY <1>1, <1>6, AnswerEffect
  <2>1. consumer' = [consumer EXCEPT ![w] =
          [c EXCEPT !.pending = c.pending \ {k}, !.answered = [c.answered EXCEPT ![k] = a]]]
    BY <2>0 DEF AnswerStep
  <2>2. c.pending \ {k} \in SUBSET Kinds
    BY <1>1 DEF Consumer
  <2>3. [c.answered EXCEPT ![k] = a] \in [Kinds -> Answers \cup {"none"}]
    BY <1>1, AnsweredType
  <2> QED BY <1>1, <2>1, <2>2, <2>3, HandlerRecords
<1>7. ASSUME NEW k \in Kinds, Log(w, k)
      PROVE  \E d \in Consumer : consumer' = [consumer EXCEPT ![w] = d]
  <2> DEFINE f == c.failed \cup (IF c.answered[k] = "ok" THEN {} ELSE {k})
             a == [c.answered EXCEPT ![k] = "none"]
  <2>1. consumer' = [consumer EXCEPT ![w] = [c EXCEPT !.answered = a, !.failed = f]]
    BY <1>7, LogEffect
  <2>2. f \in SUBSET Kinds
    BY <1>1 DEF Consumer
  <2>3. a \in [Kinds -> Answers \cup {"none"}]
    BY <1>1, AnsweredType
  <2> HIDE DEF f, a
  <2> QED BY <1>1, <2>1, <2>2, <2>3, HandlerRecords
<1>8. CASE Finish(w)
  BY <1>8 DEF Finish
<1> QED BY <1>3, <1>4, <1>5, <1>6, <1>7, <1>8 DEF Dispatch

(* The steps of a handler keep the types of what they write. *)
LEMMA WrittenType ==
  ASSUME TypeOK, Holding, AttemptsLeft, NEW w \in Consumers, Dispatch(w)
  PROVE  /\ delivered' \in [Events -> [Kinds -> Nat]]
         /\ log' \in [Events -> [Kinds -> [Answers -> Nat]]]
         /\ outcome' \in [Events -> [target : SUBSET Kinds, failed : SUBSET Kinds]]
         /\ used' \in [Bounds -> Nat] /\ UNCHANGED <<settings, deleting>>
<1> DEFINE c == consumer[w]
           e == c.event
<1>1. c \in Consumer /\ e \in Events
  BY Busy
<1>2. CASE Resolve(w) \/ \E s \in Scopes, t \in Tables : Read(w, s, t)
  <2>1. used' \in [Bounds -> Nat]
    BY <1>2, UseType DEF Resolve, Read, Bounds, TypeOK
  <2> QED BY <1>2, <2>1 DEF Resolve, Read, TypeOK
<1>3. CASE FanOut(w)
  <2> DEFINE targets == Targets(c.seen, c.scoped)
             next == [target |-> targets, failed |-> {}]
  <2>1. \A v \in [Scopes -> Settings], b \in BOOLEAN : RuleFor(v, b).channels \in SUBSET Kinds
    BY Parameters DEF RuleFor, Settings, Rule, Scopes
  <2>2. c.seen \in [Scopes -> Settings] /\ c.scoped \in BOOLEAN
    BY <1>1 DEF Consumer
  <2>3. targets \in SUBSET Kinds
    BY <2>1, <2>2 DEF Targets
  <2>4. outcome' = [outcome EXCEPT ![e] = next]
    BY <1>3 DEF FanOut
  <2> HIDE DEF targets
  <2>5. next \in [target : SUBSET Kinds, failed : SUBSET Kinds]
    BY <2>3
  <2> HIDE DEF next
  <2>6. outcome' \in [Events -> [target : SUBSET Kinds, failed : SUBSET Kinds]]
    BY <2>4, <2>5 DEF TypeOK
  <2> QED BY <1>3, <2>6 DEF FanOut, TypeOK
<1>4. ASSUME NEW k \in Kinds, Answer(w, k)
      PROVE  /\ delivered' \in [Events -> [Kinds -> Nat]]
             /\ used' \in [Bounds -> Nat] /\ UNCHANGED <<settings, deleting, log, outcome>>
  <2>1. used' \in [Bounds -> Nat]
    BY <1>4, UseType DEF Answer, Bounds, TypeOK
  <2>2. PICK a \in Answers, n \in {0, 1} : AnswerStep(w, k, a, n)
    BY <1>1, <1>4, AnswerEffect
  <2>3. delivered[e][k] + n \in Nat
    BY <1>1 DEF TypeOK
  <2>4. delivered' \in [Events -> [Kinds -> Nat]]
    BY <1>1, <2>2, <2>3 DEF AnswerStep, TypeOK
  <2> QED BY <1>4, <2>1, <2>4 DEF Answer
<1>5. ASSUME NEW k \in Kinds, Log(w, k)
      PROVE  /\ log' \in [Events -> [Kinds -> [Answers -> Nat]]]
             /\ used' \in [Bounds -> Nat] /\ UNCHANGED <<settings, deleting, delivered, outcome>>
  <2>1. used' \in [Bounds -> Nat]
    BY <1>5, UseType DEF Log, Bounds, TypeOK
  <2> DEFINE a == c.answered[k]
             next == [log[e] EXCEPT ![k] = [log[e][k] EXCEPT ![a] = log[e][k][a] + 1]]
  <2>2. a \in Answers
    BY <1>1, <1>5 DEF Log, Consumer
  <2>3. next \in [Kinds -> [Answers -> Nat]]
    BY <1>1, <2>2 DEF TypeOK
  <2>5. log' = log \/ log' = [log EXCEPT ![e] = next]
    BY <1>1, <1>5, <2>2 DEF Log, TypeOK
  <2> HIDE DEF next
  <2>4. log' \in [Events -> [Kinds -> [Answers -> Nat]]]
    BY <2>3, <2>5 DEF TypeOK
  <2> QED BY <1>5, <2>1, <2>4 DEF Log
<1>6. CASE Finish(w)
  <2> DEFINE f == c.failed
             next == [outcome[e] EXCEPT !.failed = f]
  <2>0. f \in SUBSET Kinds /\ outcome[e] \in [target : SUBSET Kinds, failed : SUBSET Kinds]
    BY <1>1 DEF TypeOK, Consumer
  <2>2. outcome' = [outcome EXCEPT ![e] = next]
    BY <1>1, <1>6 DEF Finish, TypeOK
  <2> HIDE DEF f
  <2>1. next \in [target : SUBSET Kinds, failed : SUBSET Kinds]
    BY <2>0
  <2> HIDE DEF next
  <2>3. outcome' \in [Events -> [target : SUBSET Kinds, failed : SUBSET Kinds]]
    BY <2>1, <2>2 DEF TypeOK
  <2> QED BY <1>6, <2>3 DEF Finish, TypeOK
<1> QED BY <1>2, <1>3, <1>4, <1>5, <1>6 DEF Dispatch, TypeOK

(* A loop that dies leaves a typed state. *)
LEMMA CrashType ==
  ASSUME TypeOK, Holding, AttemptsLeft, NEW w \in Consumers, Crash(w)
  PROVE  TypeOK'
<1> DEFINE e == consumer[w].event
           b == Stalled(job[e])
<1>1. e \in Events /\ job[e] \in Job /\ job[e].made <= Attempts
  BY Busy DEF TypeOK
<1>2. b \in Job /\ b.made <= Attempts
  BY <1>1, JobRecords
<1>3. job' = [job EXCEPT ![e] = b] /\ Leave(w)
  BY <1>1 DEF Crash, TypeOK
<1>4. used' \in [Bounds -> Nat]
  BY UseType DEF Crash, Bounds, TypeOK
<1> HIDE DEF b, e
<1>5. job' \in [Events -> Job] /\ \A d \in Events : job'[d].made <= Attempts
  BY <1>1, <1>2, <1>3 DEF TypeOK
<1>6. consumer' \in [Consumers -> Consumer] /\ inForce' \in [Consumers -> SUBSET [Scopes -> Settings]]
  BY <1>3, ConsumerRecords DEF Leave, TypeOK
<1> QED BY <1>4, <1>5, <1>6 DEF Crash, TypeOK

(* Every step keeps TypeOK. *)
LEMMA TypeKept ==
  ASSUME TypeOK, Holding, AttemptsLeft, [Next]_vars
  PROVE  TypeOK'
<1>1. ASSUME NEW w \in Consumers, Dispatch(w)
      PROVE  TypeOK'
  <2>1. consumer[w].event \in Events /\ job[consumer[w].event].made < Attempts
    BY <1>1, Busy
  <2>2. CASE Complete(w) \/ Throw(w)
    BY <1>1, <2>1, <2>2, EndType, WrittenType DEF TypeOK
  <2>3. CASE ~Complete(w) /\ ~Throw(w)
    <3>1. UNCHANGED <<job, inForce>>
      BY <1>1, <2>3, EndOrGoOn
    <3>2. consumer' \in [Consumers -> Consumer]
      BY <1>1, <2>3, GoOnType
    <3> QED BY <1>1, <3>1, <3>2, WrittenType DEF TypeOK
  <2> QED BY <2>2, <2>3
<1>2. CASE UNCHANGED vars
  BY <1>2 DEF vars, TypeOK
<1> QED BY <1>1, <1>2, TypeOutside, CrashType DEF Next

-----------------------------------------------------------------------------
(* The invariant. *)

(* Taking a job: the new holder is the only one, and has sent nothing. *)
LEMMA InvTake ==
  ASSUME Inv, NEW w \in Consumers, NEW e \in Events, Take(w, e), TypeOK'
  PROVE  Inv'
<1> USE DEF Inv
<1> DEFINE next == [Idle EXCEPT !.event = e, !.phase = "resolve"]
<1>1. /\ next.event = e /\ next.phase = "resolve" /\ next.pending = {} /\ next # Idle
      /\ \A k \in Kinds : next.answered[k] = "none"
  BY Parameters DEF Idle
<1>2. consumer' = [consumer EXCEPT ![w] = next]
  BY DEF Take
<1>3. job' = [job EXCEPT ![e] = [job[e] EXCEPT !.state = "active"]] /\ job[e].state = "waiting"
      /\ UNCHANGED <<delivered, outcome>>
  BY DEF Take, TypeOK
<1>4. /\ \A d \in Events : /\ job'[d].made = job[d].made /\ job'[d].stalled = job[d].stalled
                           /\ d # e => job'[d] = job[d]
      /\ job'[e].state = "active"
  BY <1>3 DEF TypeOK, Job
<1>5. \A v \in Consumers : v # w => consumer'[v] = consumer[v] /\ consumer[v].event # e
  BY <1>2, <1>3 DEF Holding, TypeOK
<1>6. consumer'[w] = next
  BY <1>2 DEF TypeOK
<1> HIDE DEF next
<1>7. Holding'
  BY <1>1, <1>4, <1>5, <1>6 DEF Holding
<1>8. OnlyWhileSending'
  BY <1>1, <1>5, <1>6 DEF OnlyWhileSending
<1>9. AttemptsLeft'
  BY <1>3, <1>4 DEF AttemptsLeft
<1>10. \A k \in Kinds : delivered[e][k] <= job[e].made + (IF job[e].stalled THEN 1 ELSE 0)
  <2>1. /\ job[e].made \in Nat /\ job[e].stalled \in BOOLEAN
        /\ \A k \in Kinds : delivered[e][k] \in Nat
    BY DEF TypeOK, Job
  <2> QED BY <1>3, <2>1 DEF DuplicatesExplained, AttemptsOf
<1>11. NotYetSent'
  BY <1>1, <1>3, <1>4, <1>5, <1>6, <1>10 DEF NotYetSent
<1>12. Accounted'
  BY <1>1, <1>3, <1>5, <1>6 DEF Accounted
<1>13. DuplicatesExplained'
  BY <1>3, <1>4 DEF DuplicatesExplained, AttemptsOf, TypeOK, Job
<1>14. NothingDroppedUnseen'
  BY <1>3, <1>4 DEF NothingDroppedUnseen
<1> QED BY <1>7, <1>8, <1>9, <1>11, <1>12, <1>13, <1>14

(* Emitting and promoting touch a job nobody holds. *)
LEMMA InvQueue ==
  ASSUME Inv, NEW e \in Events, Emit(e) \/ Promote(e), TypeOK'
  PROVE  Inv'
<1> USE DEF Inv
<1>1. PICK x \in {"lost", "waiting"} : job' = [job EXCEPT ![e] = [job[e] EXCEPT !.state = x]]
  BY DEF Emit, Promote, TypeOK
<1>2. job[e].state \in {"none", "delayed"} /\ UNCHANGED <<delivered, outcome, consumer>>
  BY DEF Emit, Promote
<1>3. /\ \A d \in Events : /\ job'[d].made = job[d].made /\ job'[d].stalled = job[d].stalled
                           /\ d # e => job'[d] = job[d]
      /\ job'[e].state = x
  BY <1>1 DEF TypeOK, Job
<1>4. Holding' /\ OnlyWhileSending' /\ AttemptsLeft'
  BY <1>2, <1>3 DEF Holding, OnlyWhileSending, AttemptsLeft
<1>5. NotYetSent' /\ Accounted'
  BY <1>2, <1>3 DEF NotYetSent, Accounted
<1>6. DuplicatesExplained'
  BY <1>2, <1>3 DEF DuplicatesExplained, AttemptsOf
<1>7. NothingDroppedUnseen'
  BY <1>2, <1>3 DEF NothingDroppedUnseen
<1> QED BY <1>4, <1>5, <1>6, <1>7

(* Settings are not part of the invariant. *)
LEMMA InvSettings ==
  ASSUME Inv, UNCHANGED <<job, consumer, delivered, outcome>>, TypeOK'
  PROVE  Inv'
BY DEF Inv, Holding, OnlyWhileSending, AttemptsLeft, NotYetSent, Accounted,
       DuplicatesExplained, NothingDroppedUnseen

(* A loop that leaves its job as b. *)
LEMMA InvLeave ==
  ASSUME Inv, TypeOK', NEW w \in Consumers, consumer[w].event \in Events, Leave(w),
         NEW b \in Job, job' = [job EXCEPT ![consumer[w].event] = b], UNCHANGED delivered,
         b.state # "active", b.state # "failed" => b.made < Attempts,
         \A k \in Kinds : delivered[consumer[w].event][k] <= AttemptsOf(b),
         \A d \in Events : d # consumer[w].event => outcome'[d] = outcome[d],
         b.state = "completed" =>
           \A k \in outcome'[consumer[w].event].target :
             delivered[consumer[w].event][k] > 0 \/ k \in outcome'[consumer[w].event].failed
  PROVE  Inv'
<1> USE DEF Inv
<1> DEFINE e == consumer[w].event
<1>1. job'[e] = b /\ \A d \in Events : d # e => job'[d] = job[d]
  BY DEF TypeOK
<1>2. consumer'[w] = Idle /\ \A v \in Consumers : v # w => consumer'[v] = consumer[v] /\ consumer[v].event # e
  BY DEF Leave, Holding, TypeOK
<1>3. Idle.event \notin Events /\ Idle.pending = {} /\ \A k \in Kinds : Idle.answered[k] = "none"
  BY Parameters DEF Idle
<1>4. Holding' /\ OnlyWhileSending' /\ AttemptsLeft'
  BY <1>1, <1>2, <1>3 DEF Holding, OnlyWhileSending, AttemptsLeft
<1>5. NotYetSent' /\ Accounted'
  BY <1>1, <1>2, <1>3 DEF NotYetSent, Accounted
<1>6. DuplicatesExplained'
  BY <1>1 DEF DuplicatesExplained
<1>7. NothingDroppedUnseen'
  BY <1>1 DEF NothingDroppedUnseen
<1> QED BY <1>4, <1>5, <1>6, <1>7

(* An attempt that ends, by returning or by a throw. *)
LEMMA InvEnd ==
  ASSUME Inv, TypeOK', NEW w \in Consumers, Dispatch(w), Complete(w) \/ Throw(w)
  PROVE  Inv'
<1> USE DEF Inv
<1> DEFINE c == consumer[w]
           e == c.event
<1>1. /\ c # Idle /\ e \in Events /\ job[e] \in Job /\ Attempts \in Nat
      /\ job[e].state = "active" /\ job[e].made < Attempts /\ Leave(w)
  BY Busy, Parameters DEF TypeOK, Complete, Throw
<1>2. job[e].made \in Nat /\ job[e].stalled \in BOOLEAN /\ \A k \in Kinds : delivered[e][k] <= AttemptsOf(job[e])
  BY <1>1 DEF DuplicatesExplained, Job
<1>3. \A k \in Kinds : delivered[e][k] \in Nat
  BY <1>1 DEF TypeOK
<1>4. CASE Complete(w)
  <2> DEFINE b == [job[e] EXCEPT !.state = "completed"]
  <2>1. job' = [job EXCEPT ![e] = b]
    BY <1>4 DEF Complete, TypeOK
  <2>2. b \in Job /\ b.state = "completed" /\ b.made = job[e].made /\ b.stalled = job[e].stalled
    BY <1>1 DEF Job
  <2> HIDE DEF b
  <2>3. job'[e].state = "completed"
    BY <1>1, <2>1, <2>2 DEF TypeOK
  <2>4. ~Throw(w) /\ job' # job
    <3>1. Throw(w) => job'[e].state \in {"delayed", "failed"}
      BY <1>1, ThrowEffect DEF TypeOK
    <3> QED BY <1>1, <2>3, <3>1
  <2>5. Finish(w)
    BY <2>4 DEF Dispatch, Resolve, Read, FanOut, Answer, Log
  <2>6. AttemptsOf(b) = AttemptsOf(job[e])
    BY <1>1, <2>2 DEF AttemptsOf
  <2>7. UNCHANGED delivered /\ \A d \in Events : d # e => outcome'[d] = outcome[d]
    BY <2>5 DEF Finish, TypeOK
  <2>8. outcome'[e].target = outcome[e].target /\ outcome'[e].failed = c.failed /\ outcome[e].target \subseteq Kinds
    BY <1>1, <2>5 DEF Finish, TypeOK
  <2>9. \A k \in outcome[e].target : delivered[e][k] > 0 \/ k \in c.failed
    BY <1>1, <2>5, <2>8 DEF Accounted, Finish, Answering
  <2> QED BY <1>1, <1>2, <2>1, <2>2, <2>6, <2>7, <2>8, <2>9, InvLeave
<1>5. CASE Throw(w)
  <2> DEFINE x == IF job[e].made + 1 < Attempts THEN "delayed" ELSE "failed"
  <2>0. PICK b \in Job :
          /\ job' = [job EXCEPT ![e] = b]
          /\ b.made = job[e].made + 1 /\ b.stalled = job[e].stalled /\ b.state = x
    BY <1>1, <1>5, ThrowEffect
  <2>1. job' = [job EXCEPT ![e] = b]
    BY <2>0
  <2>2. b.state = x /\ b.made = job[e].made + 1 /\ b.stalled = job[e].stalled
    BY <2>0
  <2>3. job' # job
    BY <1>1, <2>1, <2>2 DEF TypeOK
  <2>4. UNCHANGED delivered /\ \A d \in Events : d # e => outcome'[d] = outcome[d]
    BY <2>3 DEF Dispatch, Resolve, Read, FanOut, Answer, Log, Finish, TypeOK
  <2>5. AttemptsOf(b) = AttemptsOf(job[e])
    BY <1>1, <1>2, <2>2 DEF AttemptsOf
  <2>6. b.state \notin {"active", "completed"} /\ (b.state # "failed" => b.made < Attempts)
    BY <2>2
  <2> QED BY <1>1, <1>2, <2>1, <2>2, <2>4, <2>5, <2>6, InvLeave
<1> QED BY <1>4, <1>5

(* A loop that dies: a stalled job gets one more attempt, once. *)
LEMMA InvCrash ==
  ASSUME Inv, TypeOK', NEW w \in Consumers, Crash(w)
  PROVE  Inv'
<1> USE DEF Inv
<1> DEFINE e == consumer[w].event
           b == Stalled(job[e])
<1>1. /\ e \in Events /\ job[e] \in Job /\ Attempts \in Nat
      /\ job[e].state = "active" /\ job[e].made < Attempts /\ Leave(w)
  BY Busy, Parameters DEF TypeOK, Crash
<1>2. job[e].made \in Nat /\ job[e].stalled \in BOOLEAN /\ \A k \in Kinds : delivered[e][k] <= AttemptsOf(job[e])
  BY <1>1 DEF DuplicatesExplained, Job
<1>3. b \in Job /\ b.made = job[e].made
  BY <1>1, JobRecords
<1>4. b.state = (IF job[e].stalled THEN "failed" ELSE "waiting") /\ b.stalled = TRUE
  BY <1>1, <1>2 DEF Stalled, Job
<1>5. job' = [job EXCEPT ![e] = b] /\ UNCHANGED <<delivered, outcome>>
  BY <1>1 DEF Crash, TypeOK
<1> HIDE DEF b
<1>6. AttemptsOf(b) = AttemptsOf(job[e])
  BY <1>1, <1>2, <1>3, <1>4 DEF AttemptsOf
<1>7. b.state \notin {"active", "completed"} /\ b.made < Attempts
  BY <1>1, <1>3, <1>4
<1> QED BY <1>1, <1>2, <1>3, <1>5, <1>6, <1>7, InvLeave

(* A step that keeps the job and gives the loop the record d. *)
LEMMA InvGoOn ==
  ASSUME Inv, TypeOK', NEW w \in Consumers, consumer[w].event \in Events, UNCHANGED job,
         NEW d, consumer' = [consumer EXCEPT ![w] = d], d # Idle, d.event = consumer[w].event,
         \A k \in Kinds : k \in d.pending \/ d.answered[k] # "none" => d.phase = "send",
         \A f \in Events, k \in Kinds :
           f # consumer[w].event => delivered'[f][k] = delivered[f][k] /\ outcome'[f] = outcome[f],
         \A k \in Kinds : delivered'[consumer[w].event][k] <= AttemptsOf(job[consumer[w].event]),
         \A k \in Kinds : d.phase \in {"resolve", "read"} \/ k \in d.pending =>
           delivered'[consumer[w].event][k] = delivered[consumer[w].event][k]
           /\ (consumer[w].phase \in {"resolve", "read"} \/ k \in consumer[w].pending),
         \A k \in Kinds : d.phase = "send" /\ k \in outcome'[consumer[w].event].target =>
           \/ k \in d.pending \/ d.answered[k] = "ko" \/ k \in d.failed
           \/ delivered'[consumer[w].event][k] > 0
  PROVE  Inv'
<1> USE DEF Inv
<1> DEFINE e == consumer[w].event
<1>1. consumer'[w] = d /\ \A v \in Consumers : v # w => consumer'[v] = consumer[v] /\ consumer[v].event # e
  BY DEF Holding, TypeOK
<1>2. job[e].state = "active"
  BY DEF Holding
<1>3. Holding'
  BY <1>1 DEF Holding
<1>4. OnlyWhileSending' /\ AttemptsLeft'
  BY <1>1 DEF OnlyWhileSending, AttemptsLeft
<1>5. NotYetSent'
  <2>1. \A v \in Consumers, k \in Kinds : v # w /\ consumer[v].event \in Events =>
          delivered'[consumer[v].event][k] = delivered[consumer[v].event][k]
    BY <1>1
  <2> QED BY <1>1, <2>1 DEF NotYetSent
<1>6. Accounted'
  BY <1>1 DEF Accounted
<1>7. DuplicatesExplained'
  BY DEF DuplicatesExplained
<1>8. NothingDroppedUnseen'
  <2>1. \A f \in Events, k \in Kinds : job[f].state = "completed" =>
          delivered'[f][k] = delivered[f][k] /\ outcome'[f] = outcome[f]
    BY <1>2
  <2>2. \A f \in Events : outcome[f].target \subseteq Kinds /\ outcome'[f].target \subseteq Kinds
    BY DEF TypeOK
  <2>3. ASSUME NEW f \in Events, job'[f].state = "completed", NEW k \in outcome'[f].target
        PROVE  delivered'[f][k] > 0 \/ k \in outcome'[f].failed
    <3>1. k \in Kinds
      BY <2>2, <2>3
    <3>2. outcome'[f] = outcome[f] /\ delivered'[f][k] = delivered[f][k]
      BY <2>1, <2>3, <3>1
    <3> QED BY <2>3, <3>2 DEF NothingDroppedUnseen
  <2> QED BY <2>3 DEF NothingDroppedUnseen
<1> QED BY <1>3, <1>4, <1>5, <1>6, <1>7, <1>8

(* An active job has had one attempt more than those that ended. *)
LEMMA ActiveAttempts ==
  ASSUME NEW b \in Job, b.state = "active"
  PROVE  AttemptsOf(b) = b.made + (IF b.stalled THEN 1 ELSE 0) + 1
<1>1. b.made \in Nat
  BY DEF Job
<1> QED BY <1>1 DEF AttemptsOf

(* An attempt that goes on. *)
LEMMA InvDispatch ==
  ASSUME Inv, TypeOK', NEW w \in Consumers, Dispatch(w), ~Complete(w), ~Throw(w)
  PROVE  Inv'
<1> USE DEF Inv
<1> DEFINE c == consumer[w]
           e == c.event
<1>0. consumer \in [Consumers -> Consumer]
  BY DEF TypeOK
<1>1. c # Idle /\ e \in Events /\ c \in Consumer
  BY Busy
<1>2. UNCHANGED job /\ job[e].state = "active"
  BY Busy, EndOrGoOn
<1>3. \A k \in Kinds : delivered[e][k] <= AttemptsOf(job[e])
  BY <1>1 DEF DuplicatesExplained
<1>4. \A k \in Kinds : k \in c.pending \/ c.answered[k] # "none" => c.phase = "send"
  BY DEF OnlyWhileSending
<1>5. CASE Resolve(w)
  <2>1. PICK b \in BOOLEAN :
          consumer' = [consumer EXCEPT ![w] = [c EXCEPT !.phase = "read", !.scoped = b,
            !.toRead = IF b THEN Scopes \X Tables ELSE {"global"} \X Tables]]
    BY <1>5 DEF Resolve
  <2> DEFINE d == [c EXCEPT !.phase = "read", !.scoped = b,
                     !.toRead = IF b THEN Scopes \X Tables ELSE {"global"} \X Tables]
  <2>2. d.phase = "read" /\ d.event = e /\ d.pending = c.pending /\ d.answered = c.answered
    BY <1>1 DEF Consumer
  <2>3. c.phase = "resolve" /\ UNCHANGED <<delivered, outcome>>
    BY <1>5 DEF Resolve
  <2>4. d # Idle
    BY <2>2 DEF Idle
  <2>5. consumer' = [consumer EXCEPT ![w] = d]
    BY <2>1
  <2> HIDE DEF d
  <2>6. \A k \in Kinds : k \in d.pending \/ d.answered[k] # "none" => d.phase = "send"
    BY <1>4, <2>2, <2>3
  <2> QED BY <1>1, <1>2, <1>3, <2>2, <2>3, <2>4, <2>5, <2>6, InvGoOn
<1>6. ASSUME NEW s \in Scopes, NEW t \in Tables, Read(w, s, t)
      PROVE  Inv'
  <2>1. PICK q \in SUBSET (Scopes \X Tables), v \in [Scopes -> Settings] :
          consumer' = [consumer EXCEPT ![w] = [c EXCEPT !.toRead = q, !.seen = v]]
    BY <1>6, ReadEffect
  <2> DEFINE d == [c EXCEPT !.toRead = q, !.seen = v]
  <2>2. /\ d.phase = c.phase /\ d.event = e /\ d.pending = c.pending
        /\ d.answered = c.answered /\ d.failed = c.failed
    BY <1>1 DEF Consumer
  <2>3. UNCHANGED <<delivered, outcome>>
    BY <1>6 DEF Read
  <2>4. d # Idle
    BY <1>1, <2>2, Parameters DEF Idle
  <2>5. consumer' = [consumer EXCEPT ![w] = d]
    BY <2>1
  <2> HIDE DEF d
  <2>6. \A k \in Kinds : c.phase = "send" /\ k \in outcome[e].target =>
          k \in c.pending \/ c.answered[k] = "ko" \/ k \in c.failed \/ delivered[e][k] > 0
    BY <1>1 DEF Accounted
  <2>7. \A k \in Kinds : k \in d.pending \/ d.answered[k] # "none" => d.phase = "send"
    BY <1>4, <2>2
  <2>8. \A k \in Kinds : d.phase = "send" /\ k \in outcome'[e].target =>
          k \in d.pending \/ d.answered[k] = "ko" \/ k \in d.failed \/ delivered'[e][k] > 0
    BY <2>2, <2>3, <2>6
  <2> QED BY <1>1, <1>2, <1>3, <2>2, <2>3, <2>4, <2>5, <2>7, <2>8, InvGoOn
<1>7. CASE FanOut(w)
  <2> DEFINE targets == Targets(c.seen, c.scoped)
             d == [c EXCEPT !.phase = "send", !.pending = targets]
  <2>1. consumer' = [consumer EXCEPT ![w] = d]
    BY <1>0, <1>1, <1>7 DEF FanOut
  <2>2. c.phase = "read" /\ UNCHANGED delivered
        /\ outcome' = [outcome EXCEPT ![e] = [target |-> targets, failed |-> {}]]
    BY <1>7 DEF FanOut
  <2>3. d.phase = "send" /\ d.event = e /\ d.pending = targets
    BY <1>1 DEF Consumer
  <2> HIDE DEF targets
  <2>4. outcome'[e].target = targets /\ \A f \in Events : f # e => outcome'[f] = outcome[f]
    BY <1>1, <2>2 DEF TypeOK
  <2>5. d # Idle
    BY <2>3 DEF Idle
  <2> HIDE DEF d
  <2> QED BY <1>1, <1>2, <1>3, <2>1, <2>2, <2>3, <2>4, <2>5, InvGoOn
<1>8. ASSUME NEW k \in Kinds, Answer(w, k)
      PROVE  Inv'
  <2>1. PICK a \in Answers, n \in {0, 1} : AnswerStep(w, k, a, n)
    BY <1>1, <1>8, AnswerEffect
  <2> DEFINE d == [c EXCEPT !.pending = c.pending \ {k}, !.answered = [c.answered EXCEPT ![k] = a]]
  <2>2. consumer' = [consumer EXCEPT ![w] = d] /\ UNCHANGED outcome /\ k \in c.pending /\ (a = "ok" => n = 1)
    BY <1>8, <2>1 DEF AnswerStep, Answer
  <2>3. /\ delivered'[e][k] = delivered[e][k] + n
        /\ \A j \in Kinds : j # k => delivered'[e][j] = delivered[e][j]
        /\ \A f \in Events, j \in Kinds : f # e => delivered'[f][j] = delivered[f][j]
    BY <1>1, <2>1 DEF AnswerStep, TypeOK
  <2>4. /\ d.phase = c.phase /\ d.event = e /\ d.pending = c.pending \ {k} /\ d.failed = c.failed
        /\ d.answered[k] = a /\ \A j \in Kinds : j # k => d.answered[j] = c.answered[j]
    BY <1>1 DEF Consumer
  <2>5. d # Idle
    BY <1>1, <2>4, Parameters DEF Idle
  <2> HIDE DEF d
  <2>6. delivered'[e][k] <= AttemptsOf(job[e])
    <3>1. delivered[e][k] <= job[e].made + (IF job[e].stalled THEN 1 ELSE 0)
      BY <1>1, <2>2 DEF NotYetSent
    <3>2. delivered[e][k] \in Nat /\ job[e].made \in Nat
      BY <1>1 DEF TypeOK, Job
    <3>3. n <= 1 /\ n \in Nat
      BY <2>1
    <3>4. AttemptsOf(job[e]) = job[e].made + (IF job[e].stalled THEN 1 ELSE 0) + 1
      BY <1>1, <1>2, ActiveAttempts DEF TypeOK
    <3> DEFINE m == job[e].made + (IF job[e].stalled THEN 1 ELSE 0)
    <3>5. m \in Nat
      BY <3>2
    <3> HIDE DEF m
    <3> QED BY <2>3, <3>1, <3>2, <3>3, <3>4, <3>5
  <2>7. \A j \in Kinds : c.phase = "send" /\ j \in outcome[e].target =>
          j \in c.pending \/ c.answered[j] = "ko" \/ j \in c.failed \/ delivered[e][j] > 0
    BY <1>1 DEF Accounted
  <2>8. a = "ok" => delivered'[e][k] > 0
    <3>1. delivered[e][k] \in Nat
      BY <1>1 DEF TypeOK
    <3> QED BY <2>2, <2>3, <3>1
  <2>9. \A j \in Kinds : d.phase = "send" /\ j \in outcome'[e].target =>
          j \in d.pending \/ d.answered[j] = "ko" \/ j \in d.failed \/ delivered'[e][j] > 0
    BY <2>2, <2>3, <2>4, <2>7, <2>8 DEF Answers
  <2>10. c.phase = "send"
    BY <1>4, <2>2
  <2>11. \A j \in Kinds : delivered'[e][j] <= AttemptsOf(job[e])
    BY <1>3, <2>3, <2>6
  <2>12. \A j \in Kinds : d.phase \in {"resolve", "read"} \/ j \in d.pending =>
           delivered'[e][j] = delivered[e][j] /\ j \in c.pending
    BY <2>3, <2>4, <2>10
  <2>13. \A f \in Events, j \in Kinds : f # e => delivered'[f][j] = delivered[f][j] /\ outcome'[f] = outcome[f]
    BY <2>2, <2>3
  <2>14. \A j \in Kinds : j \in d.pending \/ d.answered[j] # "none" => d.phase = "send"
    BY <2>4, <2>10
  <2>15. d.event = e
    BY <2>4
  <2>16. \A j \in Kinds : d.phase \in {"resolve", "read"} \/ j \in d.pending =>
           delivered'[e][j] = delivered[e][j] /\ (c.phase \in {"resolve", "read"} \/ j \in c.pending)
    BY <2>12
  <2> QED BY <1>1, <1>2, <2>2, <2>5, <2>9, <2>11, <2>13, <2>14, <2>15, <2>16, InvGoOn
<1>9. ASSUME NEW k \in Kinds, Log(w, k)
      PROVE  Inv'
  <2> DEFINE d == [c EXCEPT !.answered = [c.answered EXCEPT ![k] = "none"],
                     !.failed = c.failed \cup (IF c.answered[k] = "ok" THEN {} ELSE {k})]
  <2>1. consumer' = [consumer EXCEPT ![w] = d]
    BY <1>9, LogEffect
  <2>2. UNCHANGED <<delivered, outcome>> /\ c.answered[k] # "none"
    BY <1>9 DEF Log
  <2>3. /\ d.phase = c.phase /\ d.event = e /\ d.pending = c.pending
        /\ \A j \in Kinds : j # k => d.answered[j] = c.answered[j]
        /\ d.answered[k] = "none"
        /\ d.failed = c.failed \cup (IF c.answered[k] = "ok" THEN {} ELSE {k})
    BY <1>1 DEF Consumer
  <2>4. d # Idle
    BY <1>1, <2>3, Parameters DEF Idle
  <2> HIDE DEF d
  <2>5. \A j \in Kinds : c.phase = "send" /\ j \in outcome[e].target =>
          j \in c.pending \/ c.answered[j] = "ko" \/ j \in c.failed \/ delivered[e][j] > 0
    BY <1>1 DEF Accounted
  <2>6. \A j \in Kinds : d.phase = "send" /\ j \in outcome'[e].target =>
          j \in d.pending \/ d.answered[j] = "ko" \/ j \in d.failed \/ delivered'[e][j] > 0
    BY <2>2, <2>3, <2>5
  <2>7. c.phase = "send"
    BY <1>4, <2>2
  <2> QED BY <1>1, <1>2, <1>3, <2>1, <2>2, <2>3, <2>4, <2>6, <2>7, InvGoOn
<1>10. ~Finish(w)
  BY DEF Finish
<1> QED BY <1>5, <1>6, <1>7, <1>8, <1>9, <1>10 DEF Dispatch

-----------------------------------------------------------------------------
(* Theorems. *)

(* The invariant holds initially. *)
LEMMA InvInit == Init => Inv
<1> SUFFICES ASSUME Init PROVE Inv
  OBVIOUS
<1>1. TypeOK
  <2>1. 0 <= Attempts /\ 0 \in Nat
    BY Parameters
  <2>2. settings \in [Scopes -> Settings] /\ deleting \in [Scopes -> SUBSET Tables]
    BY EmptyType DEF Init
  <2>3. job \in [Events -> Job] /\ \A e \in Events : job[e].made <= Attempts
    BY <2>1 DEF Init, Job
  <2>4. consumer \in [Consumers -> Consumer] /\ inForce \in [Consumers -> SUBSET [Scopes -> Settings]]
    BY ConsumerRecords DEF Init
  <2>5. delivered \in [Events -> [Kinds -> Nat]] /\ log \in [Events -> [Kinds -> [Answers -> Nat]]]
    BY <2>1 DEF Init, NoLog
  <2>6. outcome \in [Events -> [target : SUBSET Kinds, failed : SUBSET Kinds]] /\ used \in [Bounds -> Nat]
    BY <2>1 DEF Init, NoOutcome
  <2> QED BY <2>2, <2>3, <2>4, <2>5, <2>6 DEF TypeOK
<1>2. \A w \in Consumers : consumer[w] = Idle
  BY DEF Init
<1>3. Idle.event \notin Events /\ Idle.phase = "idle" /\ Idle.pending = {} /\ \A k \in Kinds : Idle.answered[k] = "none"
  BY Parameters DEF Idle
<1>4. Holding /\ OnlyWhileSending /\ NotYetSent /\ Accounted
  BY <1>2, <1>3 DEF Holding, OnlyWhileSending, NotYetSent, Accounted
<1>5. \A e \in Events : job[e].state = "none" /\ job[e].made = 0 /\ job[e].stalled = FALSE
  BY DEF Init
<1>6. AttemptsLeft /\ NothingDroppedUnseen
  BY <1>5, Parameters DEF AttemptsLeft, NothingDroppedUnseen
<1>7. DuplicatesExplained
  <2>1. \A e \in Events : AttemptsOf(job[e]) = 0
    BY <1>5 DEF AttemptsOf
  <2>2. \A e \in Events, k \in Kinds : delivered[e][k] = 0
    BY DEF Init
  <2> QED BY <2>1, <2>2 DEF DuplicatesExplained
<1> QED BY <1>1, <1>4, <1>6, <1>7 DEF Inv

(* Every step keeps the invariant. *)
LEMMA InvKept == Inv /\ [Next]_vars => Inv'
<1> SUFFICES ASSUME Inv, [Next]_vars PROVE Inv'
  OBVIOUS
<1>1. TypeOK'
  BY TypeKept DEF Inv
<1>2. ASSUME NEW s \in Scopes, Delete(s) \/ (\E c \in Configs : Save(s, c)) \/ (\E t \in Tables : DeleteTable(s, t))
      PROVE  Inv'
  BY <1>1, <1>2, InvSettings DEF Delete, Save, DeleteTable
<1>3. ASSUME NEW w \in Consumers, Dispatch(w)
      PROVE  Inv'
  BY <1>1, <1>3, InvEnd, InvDispatch
<1>4. CASE UNCHANGED vars
  BY <1>1, <1>4, InvSettings DEF vars
<1> QED BY <1>1, <1>2, <1>3, <1>4, InvQueue, InvTake, InvCrash DEF Next

(* The invariant holds in every state. *)
THEOREM Invariant == Safety => []Inv
BY InvInit, InvKept, PTL DEF Safety

(* Every variable keeps its type. *)
THEOREM TypeCorrect == Safety => []TypeOK
<1>1. Inv => TypeOK
  BY DEF Inv
<1> QED BY <1>1, Invariant, PTL

(* Whatever the errors, retries, stalls and restarts, a channel gets a message
   at most once for each attempt of its job. *)
THEOREM NoUnexplainedDuplicate == Safety => []DuplicatesExplained
<1>1. Inv => DuplicatesExplained
  BY DEF Inv
<1> QED BY <1>1, Invariant, PTL

(* So a channel gets a message at most Attempts + 1 times. *)
THEOREM AtMostOneMore ==
  Safety => [](\A e \in Events, k \in Kinds : delivered[e][k] <= Attempts + 1)
<1>1. Inv => \A e \in Events, k \in Kinds : delivered[e][k] <= Attempts + 1
  <2> SUFFICES ASSUME Inv, NEW e \in Events, NEW k \in Kinds
               PROVE  delivered[e][k] <= Attempts + 1
    OBVIOUS
  <2>1. /\ job[e].made \in Nat /\ job[e].made <= Attempts /\ Attempts \in Nat
        /\ job[e].stalled \in BOOLEAN /\ delivered[e][k] \in Nat
    BY Parameters DEF Inv, TypeOK, Job
  <2>2. job[e].state \in {"active", "completed"} => job[e].made < Attempts
    BY DEF Inv, AttemptsLeft
  <2>3. AttemptsOf(job[e]) <= Attempts + 1
    BY <2>1, <2>2 DEF AttemptsOf
  <2>4. delivered[e][k] <= AttemptsOf(job[e])
    BY DEF Inv, DuplicatesExplained
  <2>5. AttemptsOf(job[e]) \in Nat
    BY <2>1 DEF AttemptsOf
  <2> QED BY <2>1, <2>3, <2>4, <2>5
<1> QED BY <1>1, Invariant, PTL

(* A completed job has no channel that was targeted, got nothing and is not
   among the failed ones. *)
THEOREM NothingLost == Safety => []NothingDroppedUnseen
<1>1. Inv => NothingDroppedUnseen
  BY DEF Inv
<1> QED BY <1>1, Invariant, PTL
-----------------------------------------------------------------------------
(* The log. *)

Rows(e, k) == log[e][k]["ok"] + log[e][k]["ko"]
Missing == used["unlogged"] + used["crash"]

(* A channel of e has an answer in hand that no row tells yet. *)
InHand(e, k) == \E w \in Consumers : consumer[w].event = e /\ consumer[w].answered[k] # "none"

(* A row of a success has its message, and one more has it while it is written. *)
NotOverlogged(e, k) ==
  /\ log[e][k]["ok"] <= delivered[e][k]
  /\ log[e][k]["ok"] < delivered[e][k]
     \/ \A w \in Consumers : consumer[w].event = e => consumer[w].answered[k] # "ok"

(* A message has its row, is about to get it, or counts as missing. *)
NotUnderlogged(e, k) ==
  /\ delivered[e][k] <= Rows(e, k) + Missing + 1
  /\ delivered[e][k] <= Rows(e, k) + Missing \/ InHand(e, k)

(* Reads come before sends, and a channel answers once. *)
InOrder ==
  \A w \in Consumers :
    /\ consumer[w].toRead # {} => consumer[w].phase = "read"
    /\ \A k \in consumer[w].pending : consumer[w].answered[k] = "none"

LogInv == InOrder /\ \A e \in Events, k \in Kinds : NotOverlogged(e, k) /\ NotUnderlogged(e, k)

(* What is counted is a number. *)
LEMMA CountsType ==
  ASSUME TypeOK, NEW e \in Events, NEW k \in Kinds
  PROVE  /\ delivered[e][k] \in Nat /\ log[e][k]["ok"] \in Nat /\ Rows(e, k) \in Nat /\ Missing \in Nat
         /\ used["unlogged"] \in Nat /\ used["crash"] \in Nat
<1>1. log[e][k]["ok"] \in Nat /\ log[e][k]["ko"] \in Nat /\ delivered[e][k] \in Nat
  BY DEF TypeOK, Answers
<1>2. used["unlogged"] \in Nat /\ used["crash"] \in Nat
  BY DEF TypeOK, Bounds
<1> QED BY <1>1, <1>2 DEF Rows, Missing

(* Budgets only grow. *)
LEMMA UseGrows ==
  ASSUME used \in [Bounds -> Nat], NEW kind \in Bounds, NEW bound, Use(kind, bound)
  PROVE  /\ \A b \in Bounds : used[b] <= used'[b] /\ used[b] \in Nat /\ used'[b] \in Nat
         /\ used'[kind] = used[kind] + 1 /\ \A b \in Bounds : b # kind => used'[b] = used[b]
BY DEF Use

(* A pair of event and channel that a step leaves alone. *)
LEMMA PairKept ==
  ASSUME TypeOK, TypeOK', NEW e \in Events, NEW k \in Kinds, NotOverlogged(e, k), NotUnderlogged(e, k),
         delivered'[e][k] = delivered[e][k], log'[e][k] = log[e][k],
         used["unlogged"] <= used'["unlogged"], used["crash"] <= used'["crash"],
         \A w \in Consumers :
           (consumer[w].event = e /\ consumer[w].answered[k] # "none")
             \/ (consumer'[w].event = e /\ consumer'[w].answered[k] # "none")
           => consumer'[w].event = consumer[w].event /\ consumer'[w].answered[k] = consumer[w].answered[k]
  PROVE  NotOverlogged(e, k)' /\ NotUnderlogged(e, k)'
<1>1. NotOverlogged(e, k)'
  BY DEF NotOverlogged
<1>2. Rows(e, k)' = Rows(e, k) /\ Missing <= Missing'
  <2>1. used["unlogged"] \in Nat /\ used["crash"] \in Nat /\ used'["unlogged"] \in Nat /\ used'["crash"] \in Nat
    BY DEF TypeOK, Bounds
  <2>2. used["unlogged"] + used["crash"] <= used'["unlogged"] + used'["crash"]
    BY <2>1
  <2> QED BY <2>2 DEF Rows, Missing
<1>3. delivered[e][k] \in Nat /\ Rows(e, k) \in Nat /\ Missing \in Nat /\ Missing' \in Nat
  BY CountsType DEF TypeOK, Bounds, Missing
<1>4. InHand(e, k) => InHand(e, k)'
  BY DEF InHand
<1>5. NotUnderlogged(e, k)'
  BY <1>2, <1>3, <1>4 DEF NotUnderlogged
<1> QED BY <1>1, <1>5

(* An attempt ends with nothing in hand, unless its process dies. *)
LEMMA EmptyHanded ==
  ASSUME Inv, LogInv, NEW w \in Consumers, Dispatch(w), Complete(w) \/ Throw(w)
  PROVE  /\ \A k \in Kinds : consumer[w].answered[k] = "none"
         /\ UNCHANGED <<delivered, log>>
<1>1. ASSUME UNCHANGED job PROVE FALSE
  <2>1. consumer[w].event \in Events /\ job[consumer[w].event].state = "active"
    BY Busy DEF Inv
  <2>2. Throw(w) => job'[consumer[w].event].state \in {"delayed", "failed"}
    BY <2>1, ThrowEffect DEF Inv, TypeOK
  <2>3. Complete(w) => job'[consumer[w].event].state = "completed"
    BY <2>1 DEF Complete, Inv, TypeOK, Job
  <2> QED BY <1>1, <2>1, <2>2, <2>3
<1>2. CASE Resolve(w)
  BY <1>2 DEF Resolve, Inv, OnlyWhileSending
<1>3. ASSUME NEW s \in Scopes, NEW t \in Tables, Read(w, s, t)
      PROVE  (\A k \in Kinds : consumer[w].answered[k] = "none") /\ UNCHANGED <<delivered, log>>
  <2>1. consumer[w].phase = "read"
    BY <1>3 DEF Read, LogInv, InOrder
  <2> QED BY <1>3, <2>1 DEF Read, Inv, OnlyWhileSending
<1>4. CASE Finish(w)
  BY <1>4 DEF Finish, Answering
<1> QED BY <1>1, <1>2, <1>3, <1>4 DEF Dispatch, FanOut, Answer, Log

(* A loop lets go of its event: nothing else is in hand. *)
LEMMA LogLeave ==
  ASSUME Inv, TypeOK', LogInv, NEW w \in Consumers, consumer[w].event \in Events, Leave(w),
         UNCHANGED <<delivered, log>>,
         used["unlogged"] <= used'["unlogged"],
         \/ used["crash"] <= used'["crash"] /\ \A k \in Kinds : consumer[w].answered[k] = "none"
         \/ used'["crash"] = used["crash"] + 1
  PROVE  LogInv'
<1> USE DEF Inv
<1>1. consumer'[w] = Idle /\ \A v \in Consumers : v # w => consumer'[v] = consumer[v]
  BY DEF Leave, TypeOK
<1>2. Idle.event \notin Events /\ Idle.toRead = {} /\ Idle.pending = {} /\ \A k \in Kinds : Idle.answered[k] = "none"
  BY Parameters DEF Idle
<1>3. InOrder'
  BY <1>1, <1>2 DEF LogInv, InOrder
<1>4. used["crash"] <= used'["crash"] /\ used["crash"] \in Nat /\ used["unlogged"] \in Nat /\ used'["unlogged"] \in Nat
  BY DEF TypeOK, Bounds
<1>5. ASSUME NEW e \in Events, NEW k \in Kinds
      PROVE  NotOverlogged(e, k)' /\ NotUnderlogged(e, k)'
  <2>0. NotOverlogged(e, k) /\ NotUnderlogged(e, k)
    BY DEF LogInv
  <2>1. CASE e # consumer[w].event \/ consumer[w].answered[k] = "none"
    BY <1>1, <1>2, <1>4, <2>0, <2>1, PairKept
  <2>2. CASE e = consumer[w].event /\ used'["crash"] = used["crash"] + 1
    <3>1. \A v \in Consumers : consumer'[v].event # e
      BY <1>1, <1>2, <2>2 DEF Holding
    <3>2. NotOverlogged(e, k)'
      BY <2>0, <3>1 DEF NotOverlogged
    <3>3. Rows(e, k)' = Rows(e, k) /\ Missing' >= Missing + 1
      BY <1>4, <2>2 DEF Rows, Missing
    <3>4. delivered'[e][k] <= Rows(e, k)' + Missing'
      <4>1. delivered[e][k] \in Nat /\ Rows(e, k) \in Nat /\ Missing \in Nat /\ Missing' \in Nat
        BY <1>4, <2>2, CountsType DEF Missing
      <4>2. delivered[e][k] <= Rows(e, k) + Missing + 1
        BY <2>0 DEF NotUnderlogged
      <4> QED BY <3>3, <4>1, <4>2
    <3>5. delivered'[e][k] \in Nat /\ Rows(e, k)' \in Nat /\ Missing' \in Nat
      BY <1>4, <2>2, <3>3, CountsType DEF Missing
    <3> QED BY <3>2, <3>4, <3>5 DEF NotUnderlogged
  <2> QED BY <2>1, <2>2
<1> QED BY <1>3, <1>5 DEF LogInv

(* A step of the handler that ends the attempt. *)
LEMMA LogEnd ==
  ASSUME Inv, TypeOK', LogInv, NEW w \in Consumers, Dispatch(w), Complete(w) \/ Throw(w)
  PROVE  LogInv'
<1>1. (\A k \in Kinds : consumer[w].answered[k] = "none") /\ UNCHANGED <<delivered, log>>
  BY EmptyHanded
<1>2. Leave(w) /\ consumer[w].event \in Events
  BY Busy DEF Complete, Throw, Inv
<1>3. used["unlogged"] <= used'["unlogged"] /\ used["crash"] <= used'["crash"]
  <2>1. ~FanOut(w) \/ UNCHANGED used
    BY DEF FanOut
  <2>2. ASSUME NEW k \in Kinds, Answer(w, k) \/ Log(w, k) PROVE FALSE
    <3>1. UNCHANGED job
      BY <2>2 DEF Answer, Log
    <3>2. consumer[w].event \in Events /\ job[consumer[w].event].state = "active"
      BY Busy DEF Inv
    <3>3. Throw(w) => job'[consumer[w].event].state \in {"delayed", "failed"}
      BY <3>2, ThrowEffect DEF Inv, TypeOK
    <3>4. Complete(w) => job'[consumer[w].event].state = "completed"
      BY <3>2 DEF Complete, Inv, TypeOK, Job
    <3> QED BY <3>1, <3>2, <3>3, <3>4
  <2>3. UNCHANGED used \/ Use("faults", MaxFaults)
    BY <2>1, <2>2 DEF Dispatch, Resolve, Read, Finish
  <2>4. Use("faults", MaxFaults) => used["unlogged"] <= used'["unlogged"] /\ used["crash"] <= used'["crash"]
    BY UseGrows DEF Inv, TypeOK, Bounds
  <2>5. used["unlogged"] \in Nat /\ used["crash"] \in Nat
    BY DEF Inv, TypeOK, Bounds
  <2> QED BY <2>3, <2>4, <2>5
<1> QED BY <1>1, <1>2, <1>3, LogLeave

(* What a loop has in hand on the other channels is left alone. *)
KeepsOtherAnswers(w, k) == \A j \in Kinds : j # k => consumer'[w].answered[j] = consumer[w].answered[j]

(* A loop that goes on with its event e as the record d, and touches what concerns kind k only. *)
LEMMA LogGoOn ==
  ASSUME Inv, TypeOK', LogInv, NEW w \in Consumers, NEW e \in Events, NEW k \in Kinds, e = consumer[w].event,
         NEW d, consumer' = [consumer EXCEPT ![w] = d], d.event = e,
         d.toRead # {} => d.phase = "read", \A j \in d.pending : d.answered[j] = "none",
         used["unlogged"] <= used'["unlogged"], used["crash"] <= used'["crash"],
         \A f \in Events, j \in Kinds : f # e \/ j # k => delivered'[f][j] = delivered[f][j] /\ log'[f][j] = log[f][j],
         KeepsOtherAnswers(w, k),
         NotOverlogged(e, k)', NotUnderlogged(e, k)'
  PROVE  LogInv'
<1> USE DEF Inv
<1>1. consumer'[w] = d /\ \A v \in Consumers : v # w => consumer'[v] = consumer[v]
  BY DEF TypeOK
<1>2. InOrder'
  BY <1>1 DEF LogInv, InOrder
<1>3. ASSUME NEW f \in Events, NEW j \in Kinds PROVE NotOverlogged(f, j)' /\ NotUnderlogged(f, j)'
  <2> USE DEF KeepsOtherAnswers
  <2>1. CASE f # e \/ j # k
    <3>1. NotOverlogged(f, j) /\ NotUnderlogged(f, j)
      BY DEF LogInv
    <3>2. delivered'[f][j] = delivered[f][j] /\ log'[f][j] = log[f][j]
      BY <2>1
    <3>3. \A v \in Consumers :
            (consumer[v].event = f /\ consumer[v].answered[j] # "none")
              \/ (consumer'[v].event = f /\ consumer'[v].answered[j] # "none")
            => consumer'[v].event = consumer[v].event /\ consumer'[v].answered[j] = consumer[v].answered[j]
      BY <1>1, <2>1
    <3> QED BY <3>1, <3>2, <3>3, PairKept
  <2> QED BY <2>1
<1> QED BY <1>2, <1>3 DEF LogInv

(* A loop that goes on without sending or logging. *)
LEMMA LogReads ==
  ASSUME Inv, TypeOK', LogInv, NEW w \in Consumers, consumer[w].event \in Events,
         NEW d, consumer' = [consumer EXCEPT ![w] = d], d.event = consumer[w].event,
         d.toRead # {} => d.phase = "read", \A k \in d.pending : d.answered[k] = "none",
         d.answered = consumer[w].answered, UNCHANGED <<delivered, log, used>>
  PROVE  LogInv'
<1> USE DEF Inv
<1>1. consumer'[w] = d /\ \A v \in Consumers : v # w => consumer'[v] = consumer[v]
  BY DEF TypeOK
<1>2. InOrder'
  BY <1>1 DEF LogInv, InOrder
<1>3. used["unlogged"] <= used'["unlogged"] /\ used["crash"] <= used'["crash"]
  BY DEF TypeOK, Bounds
<1>4. ASSUME NEW e \in Events, NEW k \in Kinds PROVE NotOverlogged(e, k)' /\ NotUnderlogged(e, k)'
  <2>1. NotOverlogged(e, k) /\ NotUnderlogged(e, k)
    BY DEF LogInv
  <2> QED BY <1>1, <1>3, <2>1, PairKept
<1> QED BY <1>2, <1>4 DEF LogInv

(* A step of the handler that goes on. *)
LEMMA LogDispatch ==
  ASSUME Inv, TypeOK', LogInv, NEW w \in Consumers, Dispatch(w), ~Complete(w), ~Throw(w),
         NEW e \in Events, e = consumer[w].event
  PROVE  LogInv'
<1> USE DEF Inv
<1> DEFINE c == consumer[w]
<1>0. /\ consumer \in [Consumers -> Consumer] /\ used \in [Bounds -> Nat]
      /\ used["unlogged"] \in Nat /\ used["crash"] \in Nat
  BY DEF TypeOK, Bounds
<1>1. e \in Events /\ c \in Consumer /\ c.event = e
  BY Busy
<1>2. /\ c.toRead # {} => c.phase = "read"
      /\ \A k \in c.pending : c.answered[k] = "none"
      /\ \A k \in Kinds : c.phase # "send" => c.answered[k] = "none" /\ k \notin c.pending
  BY DEF LogInv, InOrder, OnlyWhileSending
<1>3. c.pending \subseteq Kinds
  BY <1>1 DEF Consumer
<1>4. CASE Resolve(w)
  <2>1. PICK b \in BOOLEAN :
          consumer' = [consumer EXCEPT ![w] = [c EXCEPT !.phase = "read", !.scoped = b,
            !.toRead = IF b THEN Scopes \X Tables ELSE {"global"} \X Tables]]
    BY <1>4 DEF Resolve
  <2> DEFINE d == [c EXCEPT !.phase = "read", !.scoped = b,
                     !.toRead = IF b THEN Scopes \X Tables ELSE {"global"} \X Tables]
  <2>2. d.phase = "read" /\ d.event = e /\ d.pending = c.pending /\ d.answered = c.answered
    BY <1>1 DEF Consumer
  <2>3. UNCHANGED <<delivered, log, used>>
    BY <1>4 DEF Resolve
  <2>4. consumer' = [consumer EXCEPT ![w] = d]
    BY <2>1
  <2> HIDE DEF d
  <2> QED BY <1>1, <1>2, <2>2, <2>3, <2>4, LogReads
<1>5. ASSUME NEW s \in Scopes, NEW t \in Tables, Read(w, s, t)
      PROVE  LogInv'
  <2>1. PICK q \in SUBSET (Scopes \X Tables), v \in [Scopes -> Settings] :
          consumer' = [consumer EXCEPT ![w] = [c EXCEPT !.toRead = q, !.seen = v]]
    BY <1>5, ReadEffect
  <2> DEFINE d == [c EXCEPT !.toRead = q, !.seen = v]
  <2>2. d.phase = c.phase /\ d.event = e /\ d.pending = c.pending /\ d.answered = c.answered
    BY <1>1 DEF Consumer
  <2>3. UNCHANGED <<delivered, log, used>> /\ c.phase = "read"
    BY <1>2, <1>5 DEF Read
  <2>4. consumer' = [consumer EXCEPT ![w] = d]
    BY <2>1
  <2> HIDE DEF d
  <2> QED BY <1>1, <1>2, <2>2, <2>3, <2>4, LogReads
<1>6. CASE FanOut(w)
  <2> DEFINE targets == Targets(c.seen, c.scoped)
             d == [c EXCEPT !.phase = "send", !.pending = targets]
  <2>1. consumer' = [consumer EXCEPT ![w] = d]
    BY <1>0, <1>1, <1>6 DEF FanOut
  <2>2. c.phase = "read" /\ c.toRead = {} /\ UNCHANGED <<delivered, log, used>>
    BY <1>6 DEF FanOut
  <2>3. d.event = e /\ d.pending = targets /\ d.answered = c.answered /\ d.toRead = {}
    BY <1>1, <2>2 DEF Consumer
  <2>4. targets \subseteq Kinds
    <3>1. consumer'[w] \in Consumer /\ consumer'[w].pending = targets
      BY <1>0, <2>1, <2>3 DEF TypeOK
    <3> QED BY <3>1 DEF Consumer
  <2> HIDE DEF targets, d
  <2>5. \A k \in d.pending : d.answered[k] = "none"
    BY <1>2, <2>2, <2>3, <2>4
  <2> QED BY <1>1, <2>1, <2>2, <2>3, <2>5, LogReads
<1>7. ASSUME NEW k \in Kinds, Answer(w, k)
      PROVE  LogInv'
  <2>1. PICK a \in Answers, n \in {0, 1} : AnswerStep(w, k, a, n)
    BY <1>1, <1>7, AnswerEffect
  <2> DEFINE d == [c EXCEPT !.pending = c.pending \ {k}, !.answered = [c.answered EXCEPT ![k] = a]]
  <2>2. consumer' = [consumer EXCEPT ![w] = d] /\ UNCHANGED log /\ k \in c.pending /\ (a = "ok" => n = 1)
    BY <1>7, <2>1 DEF AnswerStep, Answer
  <2>3. /\ delivered'[e][k] = delivered[e][k] + n
        /\ \A j \in Kinds : j # k => delivered'[e][j] = delivered[e][j]
        /\ \A f \in Events, j \in Kinds : f # e => delivered'[f][j] = delivered[f][j]
    BY <1>1, <2>1 DEF AnswerStep, TypeOK
  <2>4. /\ d.phase = c.phase /\ d.event = e /\ d.pending = c.pending \ {k} /\ d.toRead = c.toRead
        /\ d.answered[k] = a /\ \A j \in Kinds : j # k => d.answered[j] = c.answered[j]
    BY <1>1 DEF Consumer
  <2>5. consumer'[w] = d /\ \A v \in Consumers : v # w => consumer'[v] = consumer[v] /\ consumer[v].event # e
    BY <1>0, <1>1, <2>2 DEF Holding
  <2> HIDE DEF d
  <2>6. used["unlogged"] = used'["unlogged"] /\ used["crash"] = used'["crash"]
    BY <1>0, <1>7, UseGrows DEF Answer, Bounds
  <2>7. NotOverlogged(e, k) /\ NotUnderlogged(e, k)
    BY <1>1 DEF LogInv
  <2>8. /\ delivered[e][k] \in Nat /\ Rows(e, k) \in Nat /\ Missing \in Nat /\ log[e][k]["ok"] \in Nat
        /\ Rows(e, k)' = Rows(e, k) /\ Missing' = Missing /\ n \in Nat /\ n <= 1
    BY <1>1, <2>1, <2>2, <2>6, CountsType DEF Rows, Missing
  <2>9. NotOverlogged(e, k)'
    <3>1. log[e][k]["ok"] <= delivered[e][k]
      BY <2>7 DEF NotOverlogged
    <3>2. log[e][k]["ok"] <= delivered'[e][k]
      BY <2>3, <2>8, <3>1
    <3>3. CASE a = "ok"
      <4>1. log[e][k]["ok"] < delivered'[e][k]
        BY <2>2, <2>3, <2>8, <3>1, <3>3
      <4> QED BY <2>2, <3>2, <4>1 DEF NotOverlogged
    <3>4. CASE a # "ok"
      <4>1. \A v \in Consumers : consumer'[v].event = e => consumer'[v].answered[k] # "ok"
        BY <2>4, <2>5, <3>4
      <4> QED BY <2>2, <3>2, <4>1 DEF NotOverlogged
    <3> QED BY <3>3, <3>4
  <2>10. NotUnderlogged(e, k)'
    <3>1. ~InHand(e, k)
      BY <1>2, <2>2, <2>5 DEF InHand
    <3>2. delivered[e][k] <= Rows(e, k) + Missing
      BY <2>7, <3>1 DEF NotUnderlogged
    <3>3. delivered'[e][k] <= Rows(e, k)' + Missing' + 1
      BY <2>3, <2>8, <3>2
    <3>4. InHand(e, k)'
      BY <2>4, <2>5 DEF InHand, Answers
    <3> QED BY <3>3, <3>4 DEF NotUnderlogged
  <2>11. \A f \in Events, j \in Kinds : f # e \/ j # k => delivered'[f][j] = delivered[f][j] /\ log'[f][j] = log[f][j]
    BY <2>2, <2>3
  <2>12. \A j \in d.pending : d.answered[j] = "none"
    BY <1>2, <1>3, <2>4
  <2>13. d.toRead # {} => d.phase = "read"
    BY <1>2, <2>4
  <2>14. used["unlogged"] <= used'["unlogged"] /\ used["crash"] <= used'["crash"]
    BY <1>0, <2>6
  <2>15. d.event = e /\ consumer' = [consumer EXCEPT ![w] = d] /\ KeepsOtherAnswers(w, k)
    BY <2>2, <2>4, <2>5 DEF KeepsOtherAnswers
  <2> QED BY <1>1, <2>9, <2>10, <2>11, <2>12, <2>13, <2>14, <2>15, LogGoOn
<1>8. ASSUME NEW k \in Kinds, Log(w, k)
      PROVE  LogInv'
  <2> DEFINE d == [c EXCEPT !.answered = [c.answered EXCEPT ![k] = "none"],
                     !.failed = c.failed \cup (IF c.answered[k] = "ok" THEN {} ELSE {k})]
             a == c.answered[k]
  <2>1. consumer' = [consumer EXCEPT ![w] = d] /\ UNCHANGED delivered /\ a # "none"
    BY <1>8, LogEffect DEF Log
  <2>2. a \in Answers
    BY <1>1, <2>1 DEF Consumer
  <2>3. /\ d.phase = c.phase /\ d.event = e /\ d.pending = c.pending /\ d.toRead = c.toRead
        /\ d.answered[k] = "none" /\ \A j \in Kinds : j # k => d.answered[j] = c.answered[j]
    BY <1>1 DEF Consumer
  <2>4. consumer'[w] = d /\ \A v \in Consumers : v # w => consumer'[v] = consumer[v] /\ consumer[v].event # e
    BY <1>0, <1>1, <2>1 DEF Holding
  <2> HIDE DEF d
  <2>5. NotOverlogged(e, k) /\ NotUnderlogged(e, k)
    BY <1>1 DEF LogInv
  <2>6. /\ delivered[e][k] \in Nat /\ Rows(e, k) \in Nat /\ Missing \in Nat
        /\ log[e][k]["ok"] \in Nat /\ log[e][k]["ko"] \in Nat
    BY <1>1, CountsType DEF TypeOK, Answers
  <2>7. \A v \in Consumers : consumer'[v].event = e => consumer'[v].answered[k] # "ok"
    BY <2>3, <2>4
  <2>8. /\ \A f \in Events, j \in Kinds : f # e \/ j # k => log'[f][j] = log[f][j]
        /\ used["unlogged"] <= used'["unlogged"] /\ used["crash"] = used'["crash"]
        /\ log'[e][k]["ok"] <= delivered[e][k]
        /\ Rows(e, k)' + Missing' = Rows(e, k) + Missing + 1
    <3>1. CASE log' = [log EXCEPT ![e][k][a] = @ + 1] /\ UNCHANGED used
      <4>1. /\ \A f \in Events, j \in Kinds : f # e \/ j # k => log'[f][j] = log[f][j]
            /\ log'[e][k][a] = log[e][k][a] + 1
            /\ \A b \in Answers : b # a => log'[e][k][b] = log[e][k][b]
        BY <1>1, <2>2, <3>1 DEF TypeOK
      <4>2. Rows(e, k)' = Rows(e, k) + 1
        BY <2>2, <2>6, <4>1 DEF Rows, Answers
      <4>3. log'[e][k]["ok"] <= delivered[e][k]
        <5>1. CASE a = "ok"
          <6>1. log[e][k]["ok"] < delivered[e][k]
            BY <2>5, <5>1 DEF NotOverlogged
          <6> QED BY <2>6, <4>1, <5>1, <6>1
        <5>2. CASE a # "ok"
          BY <2>5, <4>1, <5>2 DEF NotOverlogged, Answers
        <5> QED BY <5>1, <5>2
      <4>4. Missing' = Missing
        BY <3>1 DEF Missing
      <4>5. used["unlogged"] <= used'["unlogged"] /\ used["crash"] = used'["crash"]
        BY <1>0, <3>1
      <4>6. Rows(e, k)' + Missing' = Rows(e, k) + Missing + 1
        <5> DEFINE r == Rows(e, k)
                   m == Missing
        <5>1. r \in Nat /\ m \in Nat
          BY <2>6
        <5>2. (Rows(e, k)' = r + 1) /\ (Missing' = m)
          BY <4>2, <4>4
        <5> HIDE DEF r, m
        <5>3. Rows(e, k)' + Missing' = r + m + 1
          BY <5>1, <5>2
        <5> QED BY <5>3 DEF r, m
      <4> QED BY <4>1, <4>3, <4>5, <4>6
    <3>2. CASE Use("unlogged", MaxUnlogged) /\ UNCHANGED log
      <4>1. used'["unlogged"] = used["unlogged"] + 1 /\ used'["crash"] = used["crash"]
        BY <1>0, <3>2, UseGrows DEF Bounds
      <4>2. Missing' = Missing + 1
        BY <1>0, <4>1 DEF Missing
      <4>3. Rows(e, k)' = Rows(e, k)
        BY <3>2 DEF Rows
      <4>4. log'[e][k]["ok"] <= delivered[e][k]
        BY <2>5, <3>2 DEF NotOverlogged
      <4> QED BY <1>0, <2>6, <3>2, <4>1, <4>2, <4>3, <4>4
    <3> QED BY <1>8, <3>1, <3>2 DEF Log
  <2>9. NotOverlogged(e, k)'
    BY <2>1, <2>7, <2>8 DEF NotOverlogged
  <2>10. NotUnderlogged(e, k)'
    <3>1. delivered[e][k] <= Rows(e, k)' + Missing'
      BY <2>5, <2>8 DEF NotUnderlogged
    <3>2. Rows(e, k)' + Missing' \in Nat
      BY <2>6, <2>8
    <3>3. delivered[e][k] <= Rows(e, k)' + Missing' + 1
      <4> DEFINE m == Rows(e, k)' + Missing'
      <4>1. m \in Nat /\ delivered[e][k] <= m
        BY <3>1, <3>2
      <4> HIDE DEF m
      <4>2. delivered[e][k] <= m + 1
        BY <2>6, <4>1
      <4> QED BY <4>2 DEF m
    <3> QED BY <2>1, <3>1, <3>3 DEF NotUnderlogged
  <2>11. \A f \in Events, j \in Kinds : f # e \/ j # k => delivered'[f][j] = delivered[f][j] /\ log'[f][j] = log[f][j]
    BY <2>1, <2>8
  <2>12. \A j \in d.pending : d.answered[j] = "none"
    BY <1>2, <1>3, <2>3
  <2>13. d.toRead # {} => d.phase = "read"
    BY <1>2, <2>3
  <2>14. used["unlogged"] <= used'["unlogged"] /\ used["crash"] <= used'["crash"]
    BY <1>0, <2>8
  <2>15. d.event = e /\ consumer' = [consumer EXCEPT ![w] = d] /\ KeepsOtherAnswers(w, k)
    BY <2>1, <2>3, <2>4 DEF KeepsOtherAnswers
  <2> QED BY <1>1, <2>9, <2>10, <2>11, <2>12, <2>13, <2>14, <2>15, LogGoOn
<1>9. ~Finish(w)
  BY DEF Finish
<1> QED BY <1>4, <1>5, <1>6, <1>7, <1>8, <1>9 DEF Dispatch

(* A step that touches no loop, no message and no row. *)
LEMMA LogOutside ==
  ASSUME Inv, TypeOK', LogInv, UNCHANGED <<delivered, log>>,
         used["unlogged"] <= used'["unlogged"], used["crash"] <= used'["crash"],
         \A w \in Consumers :
           consumer'[w] = consumer[w]
           \/ /\ consumer'[w].toRead = {} /\ consumer'[w].pending = {}
              /\ \A k \in Kinds : consumer[w].answered[k] = "none" /\ consumer'[w].answered[k] = "none"
  PROVE  LogInv'
<1>1. InOrder'
  BY DEF LogInv, InOrder
<1>2. ASSUME NEW e \in Events, NEW k \in Kinds PROVE NotOverlogged(e, k)' /\ NotUnderlogged(e, k)'
  <2>1. NotOverlogged(e, k) /\ NotUnderlogged(e, k)
    BY DEF LogInv
  <2> QED BY <2>1, PairKept DEF Inv
<1> QED BY <1>1, <1>2 DEF LogInv

(* Every step keeps the log in step with the messages. *)
LEMMA LogKept == Inv /\ TypeOK' /\ LogInv /\ [Next]_vars => LogInv'
<1> SUFFICES ASSUME Inv, TypeOK', LogInv, [Next]_vars PROVE LogInv'
  OBVIOUS
<1>0. used \in [Bounds -> Nat] /\ used["unlogged"] \in Nat /\ used["crash"] \in Nat
  BY DEF Inv, TypeOK, Bounds
<1>1. ASSUME NEW kind \in {"saves", "redis"}, NEW bound, Use(kind, bound)
      PROVE  used["unlogged"] <= used'["unlogged"] /\ used["crash"] <= used'["crash"]
  BY <1>0, <1>1, UseGrows DEF Bounds
<1>2. ASSUME NEW s \in Scopes, Delete(s) \/ (\E c \in Configs : Save(s, c)) \/ (\E t \in Tables : DeleteTable(s, t))
      PROVE  LogInv'
  <2>1. UNCHANGED <<consumer, delivered, log>>
    BY <1>2 DEF Delete, Save, DeleteTable
  <2>2. used["unlogged"] <= used'["unlogged"] /\ used["crash"] <= used'["crash"]
    <3>1. UNCHANGED used \/ Use("saves", MaxSaves)
      BY <1>2 DEF Delete, Save, DeleteTable
    <3> QED BY <1>0, <1>1, <3>1
  <2> QED BY <2>1, <2>2, LogOutside
<1>3. ASSUME NEW e \in Events, Emit(e) \/ Promote(e) PROVE LogInv'
  BY <1>0, <1>1, <1>3, LogOutside DEF Emit, Promote
<1>4. ASSUME NEW w \in Consumers, NEW e \in Events, Take(w, e) PROVE LogInv'
  <2> DEFINE next == [Idle EXCEPT !.event = e, !.phase = "resolve"]
  <2>1. next.toRead = {} /\ next.pending = {} /\ \A k \in Kinds : next.answered[k] = "none" /\ Idle.answered[k] = "none"
    BY DEF Idle
  <2>2. consumer' = [consumer EXCEPT ![w] = next] /\ consumer[w] = Idle /\ UNCHANGED <<delivered, log, used>>
    BY <1>4 DEF Take
  <2>3. \A v \in Consumers : consumer'[v] = IF v = w THEN next ELSE consumer[v]
    BY <2>2 DEF Inv, TypeOK
  <2> HIDE DEF next
  <2> QED BY <1>0, <2>1, <2>2, <2>3, LogOutside
<1>5. ASSUME NEW w \in Consumers, Dispatch(w) PROVE LogInv'
  BY <1>5, LogEnd, LogDispatch, Busy DEF Inv
<1>6. ASSUME NEW w \in Consumers, Crash(w) PROVE LogInv'
  <2>1. used'["unlogged"] = used["unlogged"] /\ used'["crash"] = used["crash"] + 1
    BY <1>0, <1>6, UseGrows DEF Crash, Bounds
  <2>2. consumer[w].event \in Events /\ Leave(w) /\ UNCHANGED <<delivered, log>>
    BY <1>6, Busy DEF Crash, Inv
  <2> QED BY <1>0, <2>1, <2>2, LogLeave
<1>7. CASE UNCHANGED vars
  BY <1>0, <1>7, LogOutside DEF vars
<1> QED BY <1>2, <1>3, <1>4, <1>5, <1>6, <1>7 DEF Next

(* It says that the log is truthful, since one loop at most has an event in hand. *)
LEMMA LogInvTruthful == Inv /\ LogInv => LogTruthful
<1> SUFFICES ASSUME Inv, LogInv, NEW e \in Events, NEW k \in Kinds
             PROVE  LET inHand == Cardinality({w \in Consumers : consumer[w].event = e /\ consumer[w].answered[k] # "none"})
                    IN  /\ log[e][k]["ok"] <= delivered[e][k]
                        /\ delivered[e][k] <= log[e][k]["ok"] + log[e][k]["ko"] + inHand + used["unlogged"] + used["crash"]
  BY DEF LogTruthful
<1> DEFINE holders == {w \in Consumers : consumer[w].event = e /\ consumer[w].answered[k] # "none"}
<1>1. NotOverlogged(e, k) /\ NotUnderlogged(e, k)
  BY DEF LogInv
<1>2. CASE InHand(e, k)
  <2>1. PICK w \in Consumers : consumer[w].event = e /\ consumer[w].answered[k] # "none"
    BY <1>2 DEF InHand
  <2>2. holders = {w}
    BY <2>1 DEF Inv, Holding
  <2>3. Cardinality(holders) = 1
    BY <2>2, FS_Singleton
  <2>4. delivered[e][k] <= Rows(e, k) + Missing + 1
    BY <1>1 DEF NotUnderlogged
  <2> HIDE DEF holders
  <2>5. delivered[e][k] <= log[e][k]["ok"] + log[e][k]["ko"] + Cardinality(holders) + used["unlogged"] + used["crash"]
    BY <2>3, <2>4 DEF Rows, Missing, Inv, TypeOK, Answers, Bounds
  <2> QED BY <1>1, <2>5 DEF NotOverlogged, holders
<1>3. CASE ~InHand(e, k)
  <2>1. holders = {}
    BY <1>3 DEF InHand
  <2>2. Cardinality(holders) = 0
    BY <2>1, FS_EmptySet
  <2>3. delivered[e][k] <= Rows(e, k) + Missing
    BY <1>1, <1>3 DEF NotUnderlogged
  <2> HIDE DEF holders
  <2>4. delivered[e][k] <= log[e][k]["ok"] + log[e][k]["ko"] + Cardinality(holders) + used["unlogged"] + used["crash"]
    BY <2>2, <2>3 DEF Rows, Missing, Inv, TypeOK, Answers, Bounds
  <2> QED BY <1>1, <2>4 DEF NotOverlogged, holders
<1> QED BY <1>2, <1>3

(* ADR-020: a logged success was delivered; a delivered message is logged, about to
   be, or missing because of a death or a refused row (notification.processor.ts). *)
THEOREM LogTruthfulHolds == Safety => []LogTruthful
<1>1. Init => LogInv
  <2> SUFFICES ASSUME Init PROVE LogInv
    OBVIOUS
  <2>1. InOrder
    BY DEF Init, InOrder, Idle
  <2>2. ASSUME NEW e \in Events, NEW k \in Kinds
        PROVE  delivered[e][k] = 0 /\ log[e][k]["ok"] = 0 /\ Rows(e, k) = 0 /\ Missing = 0
    BY DEF Init, NoLog, Rows, Missing, Answers, Bounds
  <2>3. \A w \in Consumers, k \in Kinds : consumer[w].answered[k] = "none"
    BY DEF Init, Idle
  <2>4. \A e \in Events, k \in Kinds : NotOverlogged(e, k) /\ NotUnderlogged(e, k)
    BY <2>2, <2>3 DEF NotOverlogged, NotUnderlogged
  <2> QED BY <2>1, <2>4 DEF LogInv
<1>2. Inv => TypeOK
  BY DEF Inv
<1> QED BY <1>1, <1>2, Invariant, LogKept, LogInvTruthful, PTL DEF Safety

-----------------------------------------------------------------------------
(* The settings under which a message is sent. *)

\* Two of the settings there have been, if they are the only two, share a scope.
OneChange(F) ==
  IsFiniteSet(F) /\ (Cardinality(F) <= 2 => \A u, v \in F : \E s \in Scopes : u[s] = v[s])

\* What a handler has read was there at some moment of the attempt.
SeenIn(c, F) ==
  \A s \in Scopes, t \in Tables :
    c.phase \in {"read", "send"} /\ <<s, t>> \notin c.toRead /\ (s = "global" \/ c.scoped)
      => \E v \in F : v[s][t] = c.seen[s][t]

\* It sends where what it has read says.
Aimed(c) == c.phase = "send" => c.toRead = {} /\ c.pending \subseteq Targets(c.seen, c.scoped)

Known(c, F) == settings \in F /\ OneChange(F) /\ SeenIn(c, F) /\ Aimed(c)
SeenInv == \A w \in Consumers : consumer[w] # Idle => Known(consumer[w], inForce[w])

(* Settings of which one scope is replaced. *)
LEMMA OneMoreChange ==
  ASSUME NEW F, OneChange(F), NEW old \in F, NEW new, NEW s \in Scopes, new[s] = old[s]
  PROVE  OneChange(F \cup {new})
<1>0. IsFiniteSet(F) /\ Cardinality(F) \in Nat
  BY FS_CardinalityType DEF OneChange
<1>1. CASE new \in F
  <2>1. F \cup {new} = F
    BY <1>1
  <2> QED BY <2>1
<1>2. CASE new \notin F
  <2>1. IsFiniteSet(F \cup {new}) /\ Cardinality(F \cup {new}) = Cardinality(F) + 1
    BY <1>0, <1>2, FS_AddElement
  <2>2. ASSUME Cardinality(F \cup {new}) <= 2, NEW u \in F \cup {new}, NEW v \in F \cup {new}
        PROVE  \E x \in Scopes : u[x] = v[x]
    <3>1. Cardinality(F) <= 1
      BY <1>0, <2>1, <2>2
    <3>2. F \ {old} = {}
      <4>1. IsFiniteSet(F \ {old}) /\ Cardinality(F \ {old}) = Cardinality(F) - 1
        BY <1>0, FS_RemoveElement
      <4>2. Cardinality(F \ {old}) \in Nat
        BY <4>1, FS_CardinalityType
      <4>3. Cardinality(F \ {old}) = 0
        BY <1>0, <3>1, <4>1, <4>2
      <4> QED BY <4>1, <4>3, FS_EmptySet
    <3>3. u \in {old, new} /\ v \in {old, new}
      BY <3>2
    <3> QED BY <3>3
  <2> QED BY <2>1, <2>2 DEF OneChange
<1> QED BY <1>1, <1>2

(* What a handler has read was in force together, when only two settings were. *)
LEMMA InForceTogether ==
  ASSUME NEW F, OneChange(F), Cardinality(F) <= 2, NEW c, c.phase = "send", c.toRead = {}, SeenIn(c, F),
         c.scoped \in BOOLEAN, NEW t \in Tables
  PROVE  \E v \in F : v["global"][t] = c.seen["global"][t]
                      /\ (c.scoped => v["delegation"][t] = c.seen["delegation"][t])
<1>1. PICK g \in F : g["global"][t] = c.seen["global"][t]
  BY DEF SeenIn, Scopes
<1>2. CASE ~c.scoped
  BY <1>1, <1>2
<1>3. CASE c.scoped
  <2>1. PICK d \in F : d["delegation"][t] = c.seen["delegation"][t]
    BY <1>3 DEF SeenIn, Scopes
  <2>2. PICK s \in Scopes : g[s] = d[s]
    BY DEF OneChange
  <2>3. CASE s = "global"
    BY <1>1, <2>1, <2>2, <2>3
  <2>4. CASE s = "delegation"
    BY <1>1, <2>1, <2>2, <2>4
  <2> QED BY <2>3, <2>4 DEF Scopes
<1> QED BY <1>2, <1>3

(* A channel that is on by what was read is on in the settings whose rows were read. *)
LEMMA ChannelRead ==
  ASSUME NEW seen, NEW scoped \in BOOLEAN, NEW k \in Kinds, ChannelFor(seen, scoped, k) = "on", NEW v,
         v["global"]["channels"] = seen["global"]["channels"],
         scoped => v["delegation"]["channels"] = seen["delegation"]["channels"]
  PROVE  ChannelInForce(v, scoped, k)
  BY DEF ChannelFor, ChannelInForce, Governs, Scopes

(* The same for the rule, and for the default where neither scope has one. *)
LEMMA RuleRead ==
  ASSUME NEW seen, NEW scoped \in BOOLEAN, NEW k \in Targets(seen, scoped), NEW v,
         v["global"]["rule"] = seen["global"]["rule"],
         scoped => v["delegation"]["rule"] = seen["delegation"]["rule"]
  PROVE  RuleInForce(v, scoped, k)
  BY DEF Targets, RuleFor, RuleInForce, Governs, Scopes

(* A loop that becomes idle, and the others as they were. *)
LEMMA SeenLeave ==
  ASSUME Inv, SeenInv, NEW w \in Consumers, Leave(w), UNCHANGED settings
  PROVE  SeenInv'
<1>1. ASSUME NEW v \in Consumers
      PROVE  consumer'[v] = Idle \/ (consumer'[v] = consumer[v] /\ inForce'[v] = inForce[v])
  BY DEF Leave, Inv, TypeOK
<1>2. ASSUME NEW v \in Consumers, consumer'[v] # Idle PROVE Known(consumer[v], inForce[v])'
  <2> PICK c, F : c = consumer[v] /\ F = inForce[v]
    OBVIOUS
  <2>1. consumer'[v] = c /\ inForce'[v] = F /\ Known(c, F)
    BY <1>1, <1>2 DEF SeenInv
  <2> QED BY <2>1 DEF Known
<1> QED BY <1>2 DEF SeenInv

(* A loop that goes on with the record d. *)
LEMMA SeenGoOn ==
  ASSUME Inv, SeenInv, NEW w \in Consumers, consumer[w] # Idle, NEW d, consumer' = [consumer EXCEPT ![w] = d],
         SeenIn(d, inForce[w]), Aimed(d), UNCHANGED <<settings, inForce>>
  PROVE  SeenInv'
<1>1. ASSUME NEW v \in Consumers, consumer'[v] # Idle PROVE Known(consumer[v], inForce[v])'
  <2> PICK c, F : c = consumer'[v] /\ F = inForce[v]
    OBVIOUS
  <2>1. consumer'[v] = IF v = w THEN d ELSE consumer[v]
    BY DEF Inv, TypeOK
  <2>2. Known(c, F)
    <3>1. consumer[v] # Idle
      BY <1>1, <2>1
    <3>2. Known(consumer[v], inForce[v])
      BY <3>1 DEF SeenInv
    <3> QED BY <2>1, <3>2 DEF Known
  <2> QED BY <2>2 DEF Known
<1> QED BY <1>1 DEF SeenInv

(* Settings that change in one scope. *)
LEMMA SeenChange ==
  ASSUME Inv, SeenInv, NEW new, Change(new), NEW s \in Scopes, new[s] = settings[s], UNCHANGED consumer
  PROVE  SeenInv'
<1>1. ASSUME NEW w \in Consumers, consumer'[w] # Idle PROVE Known(consumer[w], inForce[w])'
  <2> PICK c, F : c = consumer[w] /\ F = inForce[w]
    OBVIOUS
  <2>1. Known(c, F) /\ consumer'[w] = c /\ inForce'[w] = F \cup {new} /\ settings' = new
    BY <1>1 DEF SeenInv, Change
  <2>2. OneChange(F \cup {new})
    BY <2>1, OneMoreChange DEF Known
  <2>3. SeenIn(c, F \cup {new})
    BY <2>1 DEF Known, SeenIn
  <2> QED BY <2>1, <2>2, <2>3 DEF Known
<1> QED BY <1>1 DEF SeenInv

\* The record c of a loop, with table t of scope s read into it.
Sees(c, d, s, t) ==
  /\ d.phase = c.phase /\ d.scoped = c.scoped
  /\ d.toRead = c.toRead \ {<<s, t>>} /\ d.pending = c.pending
  /\ d.seen[s][t] = settings[s][t]
  /\ \A x \in Scopes, y \in Tables : <<x, y>> # <<s, t>> => d.seen[x][y] = c.seen[x][y]

(* A read adds the row that is in force to what the handler has seen. *)
LEMMA ReadSees ==
  ASSUME TypeOK, NEW w \in Consumers, NEW s \in Scopes, NEW t \in Tables, Read(w, s, t), ~Throw(w)
  PROVE  \E d : consumer' = [consumer EXCEPT ![w] = d] /\ Sees(consumer[w], d, s, t)
<1> DEFINE c == consumer[w]
           q == c.toRead \ {<<s, t>>}
           read == [c.seen[s] EXCEPT ![t] = settings[s][t]]
           v == [c.seen EXCEPT ![s] = read]
           d == [c EXCEPT !.toRead = q, !.seen = v]
<1>1. c \in Consumer /\ c.seen \in [Scopes -> Settings]
  BY DEF TypeOK, Consumer
<1>2. consumer' = [consumer EXCEPT ![w] = d]
  BY <1>1 DEF Read, Consumer
<1>3. read[t] = settings[s][t] /\ \A y \in Tables : y # t => read[y] = c.seen[s][y]
  <2>1. c.seen[s] \in [Tables -> {c.seen[s]["channels"], c.seen[s]["rule"]}]
    BY <1>1 DEF Settings, Tables
  <2> QED BY <2>1
<1>4. v[s] = read /\ \A x \in Scopes : x # s => v[x] = c.seen[x]
  <2> HIDE DEF read, c
  <2> QED BY <1>1
<1>5. d.phase = c.phase /\ d.scoped = c.scoped /\ d.toRead = q /\ d.pending = c.pending /\ d.seen = v
  <2> HIDE DEF q, v
  <2> QED BY <1>1 DEF Consumer
<1>6. \A x \in Scopes, y \in Tables : <<x, y>> # <<s, t>> => v[x][y] = c.seen[x][y]
  <2> HIDE DEF v, read, c
  <2> QED BY <1>3, <1>4
<1>7. d.seen[s][t] = settings[s][t] /\ \A x \in Scopes, y \in Tables : <<x, y>> # <<s, t>> => d.seen[x][y] = c.seen[x][y]
  <2> HIDE DEF d, v, read, c
  <2> QED BY <1>3, <1>4, <1>5, <1>6
<1>8. d.phase = c.phase /\ d.scoped = c.scoped /\ d.toRead = c.toRead \ {<<s, t>>} /\ d.pending = c.pending
  <2> HIDE DEF d
  <2> QED BY <1>5
<1>9. Sees(c, d, s, t)
  <2> HIDE DEF d
  <2> QED BY <1>7, <1>8 DEF Sees
<1> HIDE DEF d
<1> QED BY <1>2, <1>9

(* The steps of a handler. *)
LEMMA SeenDispatch ==
  ASSUME Inv, SeenInv, NEW w \in Consumers, Dispatch(w)
  PROVE  SeenInv'
<1> DEFINE c == consumer[w]
           F == inForce[w]
<1>0. /\ TypeOK /\ c # Idle /\ c \in Consumer /\ Known(c, F) /\ UNCHANGED settings
  <2>1. TypeOK /\ c # Idle /\ c \in Consumer
    BY Busy DEF Inv
  <2>2. UNCHANGED settings
    BY DEF Dispatch, Resolve, FanOut, Finish, Read, Answer, Log
  <2> QED BY <2>1, <2>2 DEF SeenInv
<1>1. CASE Complete(w) \/ Throw(w)
  BY <1>0, <1>1, SeenLeave DEF Complete, Throw
<1>2. CASE ~Complete(w) /\ ~Throw(w)
  <2>0. UNCHANGED inForce
    BY <1>2, EndOrGoOn
  <2>1. CASE Resolve(w)
    <3>1. PICK b \in BOOLEAN :
            consumer' = [consumer EXCEPT ![w] = [c EXCEPT !.phase = "read", !.scoped = b,
              !.toRead = IF b THEN Scopes \X Tables ELSE {"global"} \X Tables]]
      BY <1>2, <2>1 DEF Resolve
    <3> DEFINE d == [c EXCEPT !.phase = "read", !.scoped = b,
                       !.toRead = IF b THEN Scopes \X Tables ELSE {"global"} \X Tables]
    <3>2. d.phase = "read" /\ d.scoped = b /\ d.toRead = IF b THEN Scopes \X Tables ELSE {"global"} \X Tables
      BY <1>0 DEF Consumer
    <3>3. consumer' = [consumer EXCEPT ![w] = d]
      BY <3>1
    <3> HIDE DEF d
    <3>4. SeenIn(d, F) /\ Aimed(d)
      BY <3>2 DEF SeenIn, Aimed
    <3> QED BY <1>0, <2>0, <3>3, <3>4, SeenGoOn
  <2>2. ASSUME NEW s \in Scopes, NEW t \in Tables, Read(w, s, t) PROVE SeenInv'
    <3>1. PICK d : consumer' = [consumer EXCEPT ![w] = d] /\ Sees(c, d, s, t)
      BY <1>0, <1>2, <2>2, ReadSees
    <3>2. SeenIn(d, F)
      BY <1>0, <3>1 DEF Known, SeenIn, Sees
    <3>3. Aimed(d)
      <4>1. <<s, t>> \in c.toRead
        BY <2>2 DEF Read
      <4> QED BY <1>0, <3>1, <4>1 DEF Known, Aimed, Sees
    <3> QED BY <1>0, <2>0, <3>1, <3>2, <3>3, SeenGoOn
  <2>3. CASE FanOut(w)
    <3> DEFINE targets == Targets(c.seen, c.scoped)
               d == [c EXCEPT !.phase = "send", !.pending = targets]
    <3>1. consumer' = [consumer EXCEPT ![w] = d] /\ c.phase = "read" /\ c.toRead = {}
      BY <1>0, <2>3 DEF FanOut, TypeOK
    <3>2. d.phase = "send" /\ d.scoped = c.scoped /\ d.toRead = c.toRead /\ d.seen = c.seen /\ d.pending = targets
      <4> HIDE DEF targets
      <4> QED BY <1>0 DEF Consumer
    <3>3. Aimed(d)
      <4> HIDE DEF d
      <4> QED BY <3>1, <3>2 DEF Aimed
    <3> HIDE DEF d, targets
    <3>4. SeenIn(d, F)
      BY <1>0, <3>1, <3>2 DEF Known, SeenIn
    <3> QED BY <1>0, <2>0, <3>1, <3>3, <3>4, SeenGoOn
  <2>4. ASSUME NEW k \in Kinds, Answer(w, k) \/ Log(w, k) PROVE SeenInv'
    <3>1. PICK d : /\ consumer' = [consumer EXCEPT ![w] = d]
                   /\ d.phase = c.phase /\ d.scoped = c.scoped /\ d.toRead = c.toRead /\ d.seen = c.seen
                   /\ d.pending \subseteq c.pending
      <4>1. CASE Answer(w, k)
        <5>1. c.event \in Events
          BY Busy DEF Inv
        <5>2. PICK a \in Answers, n \in {0, 1} : AnswerStep(w, k, a, n)
          BY <1>0, <4>1, <5>1, AnswerEffect
        <5> DEFINE d == [c EXCEPT !.pending = c.pending \ {k}, !.answered = [c.answered EXCEPT ![k] = a]]
        <5>3. consumer' = [consumer EXCEPT ![w] = d]
          BY <5>2 DEF AnswerStep
        <5>4. /\ d.phase = c.phase /\ d.scoped = c.scoped /\ d.toRead = c.toRead /\ d.seen = c.seen
              /\ d.pending \subseteq c.pending
          BY <1>0 DEF Consumer
        <5> QED BY <5>3, <5>4
      <4>2. CASE Log(w, k)
        <5> DEFINE d == [c EXCEPT !.answered = [c.answered EXCEPT ![k] = "none"],
                           !.failed = c.failed \cup (IF c.answered[k] = "ok" THEN {} ELSE {k})]
        <5>3. consumer' = [consumer EXCEPT ![w] = d]
          BY <1>0, <4>2, LogEffect
        <5>4. /\ d.phase = c.phase /\ d.scoped = c.scoped /\ d.toRead = c.toRead /\ d.seen = c.seen
              /\ d.pending \subseteq c.pending
          BY <1>0 DEF Consumer
        <5> QED BY <5>3, <5>4
      <4> QED BY <2>4, <4>1, <4>2
    <3>2. SeenIn(d, F) /\ Aimed(d)
      BY <1>0, <3>1 DEF Known, SeenIn, Aimed
    <3> QED BY <1>0, <2>0, <3>1, <3>2, SeenGoOn
  <2>5. ~Finish(w)
    BY <1>2 DEF Finish
  <2> QED BY <2>1, <2>2, <2>3, <2>4, <2>5 DEF Dispatch
<1> QED BY <1>1, <1>2

(* Every step keeps it. *)
LEMMA SeenKept == ASSUME Inv, SeenInv, [Next]_vars PROVE SeenInv'
<1>0. TypeOK
  BY DEF Inv
<1>1. CASE UNCHANGED <<settings, consumer, inForce>>
  BY <1>1 DEF SeenInv, Known
<1>2. ASSUME NEW s \in Scopes, NEW new, Change([settings EXCEPT ![s] = new]), UNCHANGED consumer PROVE SeenInv'
  <2> PICK all : all = [settings EXCEPT ![s] = new]
    OBVIOUS
  <2>1. \E x \in Scopes : all[x] = settings[x]
    BY <1>0 DEF TypeOK, Scopes
  <2> QED BY <1>2, <2>1, SeenChange
<1>3. ASSUME NEW s \in Scopes, NEW t \in Tables, DeleteTable(s, t) PROVE SeenInv'
  <2> PICK row : row = [settings[s] EXCEPT ![t] = Empty[t]]
    OBVIOUS
  <2>1. Change([settings EXCEPT ![s] = row]) /\ UNCHANGED consumer
    BY <1>0, <1>3 DEF DeleteTable, TypeOK
  <2> QED BY <1>2, <2>1
<1>4. ASSUME NEW s \in Scopes, Delete(s) \/ \E c \in Configs : Save(s, c) PROVE SeenInv'
  BY <1>1, <1>2, <1>4 DEF Delete, Save
<1>5. ASSUME NEW e \in Events, Emit(e) \/ Promote(e) PROVE SeenInv'
  BY <1>1, <1>5 DEF Emit, Promote
<1>6. ASSUME NEW w \in Consumers, NEW e \in Events, Take(w, e) PROVE SeenInv'
  <2> PICK d : d = [Idle EXCEPT !.event = e, !.phase = "resolve"]
    OBVIOUS
  <2>1. d.phase = "resolve"
    BY DEF Idle
  <2>2. ASSUME NEW v \in Consumers, consumer'[v] # Idle PROVE Known(consumer[v], inForce[v])'
    <3>1. CASE v = w
      <4>1. consumer'[v] = d /\ inForce'[v] = {settings} /\ settings' = settings
        BY <1>0, <1>6, <3>1 DEF Take, TypeOK
      <4>2. OneChange({settings})
        BY FS_Singleton DEF OneChange, Scopes
      <4>3. SeenIn(d, {settings}) /\ Aimed(d)
        BY <2>1 DEF SeenIn, Aimed
      <4> QED BY <4>1, <4>2, <4>3 DEF Known
    <3>2. CASE v # w
      <4>1. consumer'[v] = consumer[v] /\ inForce'[v] = inForce[v] /\ settings' = settings
        BY <1>0, <1>6, <3>2 DEF Take, TypeOK
      <4>2. Known(consumer[v], inForce[v])
        BY <2>2, <4>1 DEF SeenInv
      <4> QED BY <4>1, <4>2 DEF Known
    <3> QED BY <3>1, <3>2
  <2> QED BY <2>2 DEF SeenInv
<1>7. ASSUME NEW w \in Consumers, Dispatch(w) PROVE SeenInv'
  BY <1>7, SeenDispatch
<1>8. ASSUME NEW w \in Consumers, Crash(w) PROVE SeenInv'
  BY <1>8, SeenLeave DEF Crash
<1>9. CASE UNCHANGED vars
  BY <1>1, <1>9 DEF vars
<1> QED BY <1>3, <1>4, <1>5, <1>6, <1>7, <1>8, <1>9 DEF Next

(* A message goes out under what the attempt has read. *)
LEMMA SentUnderSeen ==
  ASSUME Inv, SeenInv, [Next]_vars, NEW w \in Consumers, NEW e \in Events, NEW k \in Kinds,
         consumer[w].event = e, delivered'[e][k] > delivered[e][k], Cardinality(inForce[w]) <= 2
  PROVE  /\ \E v \in inForce[w] : ChannelInForce(v, consumer[w].scoped, k)
         /\ \E v \in inForce[w] : RuleInForce(v, consumer[w].scoped, k)
<1>0. TypeOK /\ delivered[e][k] \in Nat
  BY DEF Inv, TypeOK
<1>1. delivered' # delivered
  BY <1>0
<1>2. PICK x \in Consumers, j \in Kinds : Answer(x, j)
  BY <1>1 DEF Next, vars, Delete, Save, DeleteTable, Emit, Promote, Take, Crash, Dispatch, Resolve, FanOut, Finish, Read, Log
<1>3. Dispatch(x)
  BY <1>2 DEF Dispatch
<1>4. consumer[x].event \in Events /\ consumer[x] # Idle
  BY <1>3, Busy DEF Inv
<1>5. HasAddress(x, j) /\ j \in consumer[x].pending /\ Deliver(x, j)
  BY <1>1, <1>2 DEF Answer
<1>6. consumer[x].event = e /\ j = k
  <2> PICK f : f = consumer[x].event
    OBVIOUS
  <2>1. delivered' = [delivered EXCEPT ![f][j] = delivered[f][j] + 1]
    BY <1>5 DEF Deliver
  <2>2. f # e \/ j # k => delivered'[e][k] = delivered[e][k]
    BY <1>0, <1>4, <2>1 DEF TypeOK
  <2> QED BY <1>0, <2>2
<1>7. x = w
  BY <1>6 DEF Inv, Holding
<1> PICK c, F : c = consumer[w] /\ F = inForce[w]
  OBVIOUS
<1>8. Known(c, F) /\ c \in Consumer /\ ChannelFor(c.seen, c.scoped, k) = "on" /\ k \in c.pending
  BY <1>0, <1>4, <1>5, <1>6, <1>7 DEF SeenInv, HasAddress, TypeOK
<1>9. c.phase = "send"
  BY <1>5, <1>6, <1>7 DEF Inv, OnlyWhileSending
<1>10. /\ OneChange(F) /\ Cardinality(F) <= 2 /\ c.toRead = {} /\ SeenIn(c, F) /\ c.scoped \in BOOLEAN
       /\ k \in Targets(c.seen, c.scoped)
  BY <1>8, <1>9 DEF Known, Aimed, Consumer
<1>11. \A t \in Tables : \E v \in F : v["global"][t] = c.seen["global"][t]
                                   /\ (c.scoped => v["delegation"][t] = c.seen["delegation"][t])
  BY <1>9, <1>10, InForceTogether
<1>12. \E v \in F : ChannelInForce(v, c.scoped, k)
  <2>1. PICK v \in F : v["global"]["channels"] = c.seen["global"]["channels"]
                       /\ (c.scoped => v["delegation"]["channels"] = c.seen["delegation"]["channels"])
    BY <1>11 DEF Tables
  <2>2. ChannelInForce(v, c.scoped, k)
    BY <1>8, <1>10, <2>1, ChannelRead
  <2> QED BY <2>2
<1>13. \E v \in F : RuleInForce(v, c.scoped, k)
  <2>1. PICK v \in F : v["global"]["rule"] = c.seen["global"]["rule"]
                       /\ (c.scoped => v["delegation"]["rule"] = c.seen["delegation"]["rule"])
    BY <1>11 DEF Tables
  <2>2. RuleInForce(v, c.scoped, k)
    BY <1>10, <2>1, RuleRead
  <2> QED BY <2>2
<1> QED BY <1>12, <1>13

(* ADR-020: a message goes only to a channel that was on, under a rule that named
   it, in settings there were during the attempt (notification-settings.service.ts). *)
THEOREM SentAsConfiguredHolds == Safety => SentAsConfigured
<1> DEFINE A == \A w \in Consumers, e \in Events, k \in Kinds :
       consumer[w].event = e /\ delivered'[e][k] > delivered[e][k] /\ Cardinality(inForce[w]) <= 2 =>
         /\ \E v \in inForce[w] : ChannelInForce(v, consumer[w].scoped, k)
         /\ \E v \in inForce[w] : RuleInForce(v, consumer[w].scoped, k)
<1>1. Init => SeenInv
  BY DEF Init, SeenInv
<1>2. Inv /\ SeenInv /\ [Next]_vars => SeenInv'
  BY SeenKept
<1>3. Inv /\ SeenInv /\ [Next]_vars => A
  BY SentUnderSeen
<1> QED BY <1>1, <1>2, <1>3, Invariant, PTL DEF Safety, SentAsConfigured
=============================================================================
