------------------------------ MODULE RestoreV2 ------------------------------
(***************************************************************************)
(* Restoring a full backup: the jobs restore-full of the queue backup-jobs *)
(* apply an archive to the database in five transactions, skipping rows    *)
(* whose natural key is live.  A dry run goes the same way and is to       *)
(* report the difference; that it is one is an instance flag of            *)
(* BackupService, shared by the job loops of the worker.                   *)
(*   backup.service.ts (restoreFullBackupV2, applyDataFilesToDb,           *)
(*   upsertByNaturalKey), backup.processor.ts, backup.queue.ts             *)
(*                                                                         *)
(* All runs restore the same archive: Rows with the phase that writes them *)
(* and the row their foreign key needs, and health snapshots of the sites  *)
(* among them.  Restores into another delegation, archives of format 1 and *)
(* GPS coordinates are left out.                                           *)
(***************************************************************************)
EXTENDS Integers, FiniteSets

CONSTANTS
  Runs,         \* restore jobs
  Loops,        \* job loops of the worker: jobs running at the same time
  Rows,         \* rows of the archive
  PhaseOf,      \* the phase, 1 to 4, that writes a row
  Parent,       \* the row a row refers to, or NoRow
  NoRow,
  Snapshotted,  \* the sites among Rows that have a health snapshot
  Files,        \* objects of the archive
  MaxRestoreFaults,  \* bound: failed transactions and uploads
  MaxCrashes    \* bound: worker restarts

ASSUME Archive ==
  /\ NoRow \notin Rows /\ Loops \in Nat \ {0}
  /\ PhaseOf \in [Rows -> 1..4] /\ Parent \in [Rows -> Rows \cup {NoRow}]
  /\ Snapshotted \subseteq Rows
  /\ MaxRestoreFaults \in Nat /\ MaxCrashes \in Nat

(* A foreign key is looked up among the ids of the rows written before. *)
ASSUME ParentsFirst == \A r \in Rows : Parent[r] # NoRow => PhaseOf[Parent[r]] <= PhaseOf[r]

VARIABLES
  live,      \* how many live rows have the natural key of an archived row
  snapshot,  \* the health snapshot of a site: "none", "live", "archived"
  imports,   \* the delegation IMPORT exists
  stored,    \* objects of the archive that were put back
  flag,      \* _dryRunMode
  run,       \* the restore jobs
  used       \* how much of the bounds is used

restoreVars == <<live, snapshot, imports, stored, flag, run, used>>

Tx  == [rows : SUBSET Rows, snaps : SUBSET Rows, imports : BOOLEAN]
Run == [state : {"new", "queued", "applying", "uploading", "done"}, dry : BOOLEAN, intact : BOOLEAN,
        stalled : BOOLEAN, phase : 1..5, todo : SUBSET Rows, tx : Tx,
        id : [Rows -> {"none", "real", "placeholder"}], created : SUBSET Rows, skipped : SUBSET Rows,
        files : SUBSET Files, outcome : {"none", "applied", "report", "refused", "failed"}]

NoTx == [rows |-> {}, snaps |-> {}, imports |-> FALSE]
NewRun ==
  [state |-> "new", dry |-> FALSE, intact |-> TRUE, stalled |-> FALSE, phase |-> 1, todo |-> {}, tx |-> NoTx,
   id |-> [r \in Rows |-> "none"], created |-> {}, skipped |-> {}, files |-> {}, outcome |-> "none"]

(* Every variable holds a state of the database or of the worker. *)
RestoreTypeOK ==
  /\ live \in [Rows -> Nat] /\ snapshot \in [Snapshotted -> {"none", "live", "archived"}]
  /\ imports \in BOOLEAN /\ stored \subseteq Files /\ flag \in BOOLEAN
  /\ run \in [Runs -> Run]
  /\ used \in [faults : 0..MaxRestoreFaults, crashes : 0..MaxCrashes]

(* The archive is restored over what is left of the tenant: rows are there
   with the rows they refer to. *)
RestoreInit ==
  /\ live \in [Rows -> {0, 1}]
  /\ \A r \in Rows : live[r] = 1 /\ Parent[r] # NoRow => live[Parent[r]] = 1
  /\ snapshot \in [Snapshotted -> {"none", "live"}]
  /\ \A s \in Snapshotted : live[s] = 0 => snapshot[s] = "none"
  /\ imports \in BOOLEAN /\ stored = {}
  /\ flag = FALSE
  /\ run = [n \in Runs |-> NewRun]
  /\ used = [faults |-> 0, crashes |-> 0]

RestoreFault ==
  /\ used.faults < MaxRestoreFaults
  /\ used' = [used EXCEPT !.faults = @ + 1]

Restoring == {n \in Runs : run[n].state \in {"applying", "uploading"}}

RowsOf(p) == {r \in Rows : PhaseOf[r] = p}

-----------------------------------------------------------------------------
(* POST backup/full/restore; the archive may be damaged. *)
RequestRestore(n) ==
  /\ run[n].state = "new"
  /\ \E dry, intact \in BOOLEAN :
       run' = [run EXCEPT ![n].state = "queued", ![n].dry = dry, ![n].intact = intact]
  /\ UNCHANGED <<live, snapshot, imports, stored, flag, used>>

(* A loop takes the job: the archive is checked, a real run of a damaged one
   refused, and applyDataFilesToDb entered, which sets the flag. *)
Begin(n) ==
  /\ run[n].state = "queued" /\ Cardinality(Restoring) < Loops
  /\ IF run[n].intact \/ run[n].dry
       THEN /\ run' = [run EXCEPT ![n].state = "applying", ![n].todo = RowsOf(1)]
            /\ flag' = run[n].dry
       ELSE /\ run' = [run EXCEPT ![n].state = "done", ![n].outcome = "refused"]
            /\ UNCHANGED flag
  /\ UNCHANGED <<live, snapshot, imports, stored, used>>

(* The finally block, and how the job ends. *)
End(n, outcome) ==
  /\ run' = [run EXCEPT ![n].state = "done", ![n].outcome = outcome, ![n].tx = NoTx]
  /\ flag' = FALSE

(* Mutant: a lookup that sees the rows of its own transaction only. *)
OwnRowsExist(n, r) == r \in run[n].tx.rows

(* findFirst by natural key. *)
Exists(n, r) == live[r] > 0 \/ r \in run[n].tx.rows

(* Mutant: the flag is not looked at. *)
NoPlaceholders == FALSE

(* What decides between a placeholder and a create. *)
PlaceholderMode == flag

(* upsertByNaturalKey of one row: skip it, stand in a placeholder, or create
   it, which throws when its foreign key is a placeholder. *)
Upsert(n, r) ==
  LET parentOK == Parent[r] # NoRow => run[n].id[Parent[r]] = "real" IN
  /\ run[n].state = "applying" /\ run[n].phase < 5 /\ r \in run[n].todo
  /\ Parent[r] \notin run[n].todo
  /\ \/ /\ Exists(n, r) /\ parentOK
        /\ run' = [run EXCEPT ![n].todo = @ \ {r}, ![n].id[r] = "real", ![n].skipped = @ \cup {r}]
        /\ UNCHANGED flag
     \/ /\ ~(Exists(n, r) /\ parentOK) /\ PlaceholderMode
        /\ run' = [run EXCEPT ![n].todo = @ \ {r}, ![n].id[r] = "placeholder", ![n].created = @ \cup {r}]
        /\ UNCHANGED flag
     \/ /\ ~Exists(n, r) /\ parentOK /\ ~PlaceholderMode
        /\ run' = [run EXCEPT ![n].todo = @ \ {r}, ![n].id[r] = "real", ![n].created = @ \cup {r},
                              ![n].tx.rows = @ \cup {r}]
        /\ UNCHANGED flag
     \/ ~parentOK /\ ~PlaceholderMode /\ End(n, "failed")
  /\ UNCHANGED <<live, snapshot, imports, stored, used>>

(* siteHealthSnapshot.upsert in phase 5, dry run or not. *)
UpsertSnapshot(n, s) ==
  /\ run[n].state = "applying" /\ run[n].phase = 5 /\ s \in run[n].todo
  /\ \/ /\ run[n].id[s] = "real"
        /\ run' = [run EXCEPT ![n].todo = @ \ {s}, ![n].tx.snaps = @ \cup {s}]
        /\ UNCHANGED flag
     \/ run[n].id[s] = "placeholder" /\ End(n, "failed")
  /\ UNCHANGED <<live, snapshot, imports, stored, used>>

(* What a transaction starts with: phase 2 with getOrCreateDefaultDelegation,
   dry run or not. *)
TxOf(p) == [NoTx EXCEPT !.imports = p = 2 /\ ~imports]

(* The snapshots of the archive are written by phase 5. *)
TodoOf(p) == IF p = 5 THEN Snapshotted ELSE RowsOf(p)

LastPhase == 5

(* The transaction of a phase commits and the next begins; after the last a
   real run uploads and a dry run reports. *)
Commit(n) ==
  LET tx == run[n].tx
      p  == run[n].phase IN
  /\ run[n].state = "applying" /\ run[n].todo = {}
  /\ live' = [r \in Rows |-> IF r \in tx.rows THEN live[r] + 1 ELSE live[r]]
  /\ snapshot' = [s \in Snapshotted |-> IF s \in tx.snaps THEN "archived" ELSE snapshot[s]]
  /\ imports' = (imports \/ tx.imports)
  /\ \/ /\ p < LastPhase
        /\ run' = [run EXCEPT ![n].phase = p + 1, ![n].tx = TxOf(p + 1), ![n].todo = TodoOf(p + 1)]
        /\ UNCHANGED flag
     \/ /\ p = LastPhase /\ ~run[n].dry
        /\ run' = [run EXCEPT ![n].state = "uploading", ![n].tx = NoTx, ![n].files = Files]
        /\ UNCHANGED flag
     \/ p = LastPhase /\ run[n].dry /\ End(n, "report")
  /\ UNCHANGED <<stored, used>>

(* Mutant: a failed phase is logged and the next one goes on. *)
RollbackContinues(n) ==
  /\ run[n].state = "applying" /\ run[n].phase < 5
  /\ RestoreFault
  /\ run' = [run EXCEPT ![n].phase = @ + 1, ![n].tx = NoTx, ![n].todo = TodoOf(run[n].phase + 1)]
  /\ UNCHANGED <<live, snapshot, imports, stored, flag>>

(* The transaction fails (60 s, a database error): it is rolled back, the
   phases before it stay, and the restore throws. *)
Rollback(n) ==
  /\ run[n].state = "applying"
  /\ RestoreFault
  /\ End(n, "failed")
  /\ UNCHANGED <<live, snapshot, imports, stored>>

(* fPutObject of one object; an error is logged only. *)
PutObject(n, f) ==
  /\ run[n].state = "uploading" /\ f \in run[n].files
  /\ run' = [run EXCEPT ![n].files = @ \ {f}]
  /\ \/ stored' = stored \cup {f} /\ UNCHANGED used
     \/ RestoreFault /\ UNCHANGED stored
  /\ UNCHANGED <<live, snapshot, imports, flag>>

Finish(n) ==
  /\ run[n].state = "uploading" /\ run[n].files = {}
  /\ End(n, "applied")
  /\ UNCHANGED <<live, snapshot, imports, stored, used>>

(* The worker restarts: open transactions are rolled back and Bull runs a
   stalled job once more. *)
RestoreCrash ==
  /\ used.crashes < MaxCrashes
  /\ used' = [used EXCEPT !.crashes = @ + 1]
  /\ run' = [n \in Runs |->
       IF n \notin Restoring THEN run[n]
       ELSE IF run[n].stalled THEN [run[n] EXCEPT !.state = "done", !.outcome = "failed", !.tx = NoTx]
       ELSE [NewRun EXCEPT !.state = "queued", !.dry = run[n].dry, !.intact = run[n].intact, !.stalled = TRUE]]
  /\ flag' = FALSE
  /\ UNCHANGED <<live, snapshot, imports, stored>>

RestoreNext ==
  \/ \E n \in Runs : \/ RequestRestore(n) \/ Begin(n) \/ Commit(n) \/ Rollback(n) \/ Finish(n)
                     \/ \E r \in Rows : Upsert(n, r)
                     \/ \E s \in Snapshotted : UpsertSnapshot(n, s)
                     \/ \E f \in Files : PutObject(n, f)
  \/ RestoreCrash

RestoreSpec == RestoreInit /\ [][RestoreNext]_restoreVars

-----------------------------------------------------------------------------
(* backup.service.ts:2326-2328, "the caller re-runs the whole restore,
   idempotence makes that safe": no natural key is ever live twice, whatever
   failed or crashed between the phases and was run again. *)
NoDuplicates == \A r \in Rows : live[r] <= 1

(* A restore that says it was applied left every row of the archive live, and
   every object unless an upload failed. *)
AppliedIsComplete ==
  \A n \in Runs : run[n].outcome = "applied" =>
    /\ \A r \in Rows : live[r] > 0
    /\ used.faults = 0 => stored = Files

(* backup.service.ts:3709-3716: the report of a dry run is what a real run
   would create and skip now. *)
ReportIsDifference ==
  [][\A n \in Runs : run[n].outcome = "none" /\ run'[n].outcome = "report" =>
       /\ run'[n].created = {r \in Rows : live[r] = 0}
       /\ run'[n].skipped = {r \in Rows : live[r] > 0}]_restoreVars

=============================================================================
