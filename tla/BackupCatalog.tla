--------------------------- MODULE BackupCatalog ---------------------------
(***************************************************************************)
(* The catalog of backups: the archives of the bucket xch-backups, the     *)
(* sidecars that hold the key data of the encrypted ones, and the rows of  *)
(* AuditLog that list them.  Backups are made by requests, by jobs of the  *)
(* queue backup-jobs and by the 02:00 cron, which runs in the API and in   *)
(* the worker and ends with a cleanup; a user deletes one by its row.      *)
(*                                                                         *)
(* Bucket and database share no transaction: every `await` between two of  *)
(* their calls is a step of its own, where anybody may step in.  What an   *)
(* archive holds is the backup it was made by.  Reading the catalog        *)
(* changes nothing and is left out.                                        *)
(***************************************************************************)
EXTENDS Integers, FiniteSets, FiniteSetsExt

CONSTANTS
  MaxBackups,   \* bound: backups made; a stalled job run again is another one
  Processes,    \* the API and the worker
  Worker,       \* the process that takes the jobs of the queue
  Sites,        \* codes of the sites
  Calls,        \* requests to delete a backup
  TicksPerDay,  \* a tick is the second of a full backup's name
  Retention,    \* seven days, in ticks
  Take,         \* rows a cleanup reads: 20
  None,
  MaxTime, MaxFaults   \* bounds: the clock; calls that fail and processes that die

ASSUME CatalogShape ==
  /\ Worker \in Processes /\ None \notin Nat
  /\ Sites \cap {"full", "v2"} = {}
  /\ {MaxBackups, MaxTime, MaxFaults} \subseteq Nat
  /\ {Take, TicksPerDay} \subseteq Nat \ {0} /\ Retention \in Nat /\ Retention >= TicksPerDay

\* Numbered as they are made.
Backups == 1..MaxBackups

VARIABLES
  now,      \* the clock
  backup,   \* [Backups -> how far it is, None before it starts]
  archive,  \* [Names -> the backup whose archive is stored there, or None]
  sidecar,  \* [Names -> the backup whose sidecar is stored there, or None]
  row,      \* [Backups -> time of its AuditLog row, None without one]
  call,     \* [Calls -> a deletion under way, or None]
  cron,     \* [Processes -> rows its cron has listed and not yet come to]
  asked,    \* history: listed backups a user asked to delete
  forgot,   \* history: backups of which a failure or a death left an object behind
  faults

vars == <<now, backup, archive, sidecar, row, call, cron, asked, forgot, faults>>
bucket == <<archive, sidecar>>

\* full-backup-<second>.zip, full-backup-v2-<second>.zip and site-<code>-<day>.zip
NameOf(kind, time) == <<kind, IF kind \in Sites THEN time \div TicksPerDay ELSE time>>
Kinds == Sites \cup {"full", "v2"}
Names == Kinds \X (0..MaxTime)

Making == [at : {"export", "sidecar", "log", "ended"}, name : Names, encrypted : BOOLEAN,
           by : Processes \cup {None}, cron : BOOLEAN, stored : BOOLEAN]
Deletion == [of : Backups, at : {"archive", "sidecar", "row"}]

ASSUME NoneIsNoRecord == None \notin Making

\* Every variable keeps its shape.
TypeOK ==
  /\ now \in 0..MaxTime
  /\ backup \in [Backups -> Making \cup {None}]
  /\ archive \in [Names -> Backups \cup {None}] /\ sidecar \in [Names -> Backups \cup {None}]
  /\ row \in [Backups -> (0..MaxTime) \cup {None}]
  /\ call \in [Calls -> Deletion \cup {None}]
  /\ cron \in [Processes -> SUBSET Backups]
  /\ asked \in SUBSET Backups /\ forgot \in SUBSET Backups
  /\ faults \in 0..MaxFaults

Init ==
  /\ now = 0
  /\ backup = [b \in Backups |-> None]
  /\ archive = [n \in Names |-> None] /\ sidecar = [n \in Names |-> None]
  /\ row = [b \in Backups |-> None]
  /\ call = [q \in Calls |-> None]
  /\ cron = [p \in Processes |-> {}]
  /\ asked = {} /\ forgot = {} /\ faults = 0

Tick == now < MaxTime /\ now' = now + 1
        /\ UNCHANGED <<backup, archive, sidecar, row, call, cron, asked, forgot, faults>>

Fault == faults < MaxFaults /\ faults' = faults + 1

(***************************************************************************)
(* Making a backup.                                                        *)
(***************************************************************************)
Started(b) == backup[b] # None
At(b, where) == Started(b) /\ backup[b].at = where
Running(b) == Started(b) /\ backup[b].at # "ended"
Name(b) == backup[b].name
Ended(made) == [made EXCEPT !.at = "ended", !.by = None, !.cron = FALSE]
Goes(b, where) ==
  backup' = [backup EXCEPT ![b] = IF where = "ended" THEN Ended(@) ELSE [@ EXCEPT !.at = where]]

\* The name is taken from the clock before the data is read.
Start(b, p, kind, encrypted, byCron) ==
  /\ ~Started(b) /\ \A c \in 1..(b - 1) : Started(c)
  /\ backup' = [backup EXCEPT ![b] = [at |-> "export", name |-> NameOf(kind, now),
                                      encrypted |-> encrypted, by |-> p, cron |-> byCron, stored |-> FALSE]]

\* A request makes a v1 or a site backup in the API, a job a site or a v2 one in the worker.
Request(b, p, kind, encrypted) ==
  /\ kind = "v2" => p = Worker
  /\ encrypted => kind = "v2"
  /\ kind = "full" => p # Worker
  /\ Start(b, p, kind, encrypted, FALSE)
  /\ UNCHANGED <<now, bucket, row, call, cron, asked, forgot, faults>>

\* The archive is put whole; the sidecar of an encrypted one comes after it.
Upload(b) ==
  /\ At(b, "export")
  /\ archive' = [archive EXCEPT ![Name(b)] = b]
  /\ backup' = [backup EXCEPT ![b].stored = TRUE,
                              ![b].at = IF backup[b].encrypted THEN "sidecar" ELSE "log"]
  /\ UNCHANGED <<now, sidecar, row, call, cron, asked, forgot, faults>>

\* A site backup is listed even when it could not be stored.
AfterFailure(b) == IF Name(b)[1] \in Sites THEN "log" ELSE "ended"

ExportFails(b) ==
  /\ At(b, "export") /\ Fault
  /\ Goes(b, "ended")
  /\ UNCHANGED <<now, bucket, row, call, cron, asked, forgot>>

\* The upload throws; the object may be there all the same.
UploadFails(b, written) ==
  /\ At(b, "export") /\ Fault
  /\ archive' = IF written THEN [archive EXCEPT ![Name(b)] = b] ELSE archive
  /\ forgot' = IF written /\ AfterFailure(b) = "ended" THEN forgot \cup {b} ELSE forgot
  /\ Goes(b, AfterFailure(b))
  /\ UNCHANGED <<now, sidecar, row, call, cron, asked>>

UploadSidecar(b) ==
  /\ At(b, "sidecar")
  /\ sidecar' = [sidecar EXCEPT ![Name(b)] = b]
  /\ Goes(b, "log")
  /\ UNCHANGED <<now, archive, row, call, cron, asked, forgot, faults>>

UploadSidecarFails(b) ==
  /\ At(b, "sidecar") /\ Fault
  /\ forgot' = forgot \cup {b}
  /\ Goes(b, "ended")
  /\ UNCHANGED <<now, bucket, row, call, cron, asked>>

Log(b) ==
  /\ At(b, "log")
  /\ row' = [row EXCEPT ![b] = now]
  /\ Goes(b, "ended")
  /\ UNCHANGED <<now, bucket, call, cron, asked, forgot, faults>>

\* logBackupAction swallows the error: a backup without a row.
LogFails(b) ==
  /\ At(b, "log") /\ Fault
  /\ forgot' = forgot \cup {b}
  /\ Goes(b, "ended")
  /\ UNCHANGED <<now, bucket, row, call, cron, asked>>

(***************************************************************************)
(* Deleting one: its archive, its sidecar, its row.  Each error is         *)
(* swallowed and the next step taken.                                      *)
(***************************************************************************)
Delete(q, b) ==
  /\ call[q] = None /\ row[b] # None
  /\ call' = [call EXCEPT ![q] = [of |-> b, at |-> "archive"]]
  /\ asked' = asked \cup {b}
  /\ UNCHANGED <<now, backup, bucket, row, cron, forgot, faults>>

Deleting(q, where) == call[q] # None /\ call[q].at = where
Target(q) == Name(call[q].of)

DeleteArchive(q) ==
  /\ Deleting(q, "archive")
  /\ \/ archive' = [archive EXCEPT ![Target(q)] = None] /\ UNCHANGED <<forgot, faults>>
     \/ /\ Fault /\ UNCHANGED archive
        /\ forgot' = forgot \cup ({archive[Target(q)]} \ {None})
  /\ call' = [call EXCEPT ![q].at = "sidecar"]
  /\ UNCHANGED <<now, backup, sidecar, row, cron, asked>>

DeleteSidecar(q) ==
  /\ Deleting(q, "sidecar")
  /\ \/ sidecar' = [sidecar EXCEPT ![Target(q)] = None] /\ UNCHANGED <<forgot, faults>>
     \/ /\ Fault /\ UNCHANGED sidecar
        /\ forgot' = forgot \cup ({sidecar[Target(q)]} \ {None})
  /\ call' = [call EXCEPT ![q].at = "row"]
  /\ UNCHANGED <<now, backup, archive, row, cron, asked>>

DeleteRow(q) ==
  /\ Deleting(q, "row")
  /\ \/ row' = [row EXCEPT ![call[q].of] = None] /\ asked' = asked \ {call[q].of} /\ UNCHANGED faults
     \/ Fault /\ UNCHANGED <<row, asked>>
  /\ call' = [call EXCEPT ![q] = None]
  /\ UNCHANGED <<now, backup, bucket, cron, forgot>>

(***************************************************************************)
(* The cron: a v1 backup of each ACTIVE tenant in turn, then the cleanup.  *)
(* When it fires and how many tenants there are is left open; a tenant     *)
(* whose export fails is passed over.                                      *)
(***************************************************************************)
TenantDone(p) == cron[p] = {} /\ ~\E b \in Backups : Running(b) /\ backup[b].by = p /\ backup[b].cron

CronBackup(p, b) ==
  /\ TenantDone(p)
  /\ Start(b, p, "full", FALSE, TRUE)
  /\ UNCHANGED <<now, bucket, row, call, cron, asked, forgot, faults>>

PastRetention(b) == row[b] # None /\ row[b] + Retention < now

\* A cutoff that takes the rows of its own second too.
OldRowsInclusive == {b \in Backups : row[b] # None /\ row[b] + Retention <= now}

OldRows == {b \in Backups : PastRetention(b)}

\* cleanupOldBackups: findMany with take and no order: which rows it returns is the database's choice.
CronList(p) ==
  /\ TenantDone(p)
  /\ \/ /\ \E old \in SUBSET OldRows :
             /\ Cardinality(old) = Min({Take, Cardinality(OldRows)})
             /\ cron' = [cron EXCEPT ![p] = old]
        /\ UNCHANGED faults
     \/ Fault /\ UNCHANGED cron
  /\ UNCHANGED <<now, backup, bucket, row, call, asked, forgot>>

\* A cleanup that removes the row with the archive.
CronRemoveWithRow(p) ==
  /\ \E b \in cron[p] :
       /\ archive' = [archive EXCEPT ![Name(b)] = None]
       /\ row' = [row EXCEPT ![b] = None]
       /\ cron' = [cron EXCEPT ![p] = @ \ {b}]
  /\ UNCHANGED <<now, backup, sidecar, call, asked, forgot, faults>>

\* A cleanup that lists and removes nothing but sidecars.
CronRemoveSidecar(p) ==
  /\ \E b \in cron[p] :
       /\ sidecar' = [sidecar EXCEPT ![Name(b)] = None]
       /\ cron' = [cron EXCEPT ![p] = @ \ {b}]
  /\ UNCHANGED <<now, backup, archive, row, call, asked, forgot, faults>>

\* The archive goes; the sidecar and the row stay.
CronRemove(p) ==
  /\ \E b \in cron[p] :
       /\ \/ archive' = [archive EXCEPT ![Name(b)] = None] /\ UNCHANGED faults
          \/ Fault /\ UNCHANGED archive
       /\ cron' = [cron EXCEPT ![p] = @ \ {b}]
  /\ UNCHANGED <<now, backup, sidecar, row, call, asked, forgot>>

\* A process dies with its backups, its cron and, the API, its requests, when it has any.
Crash(p) ==
  /\ Fault
  /\ LET dead == {b \in Backups : Running(b) /\ backup[b].by = p}
     IN  /\ dead # {} \/ cron[p] # {} \/ (p # Worker /\ \E q \in Calls : call[q] # None)
         /\ backup' = [b \in Backups |-> IF b \in dead THEN Ended(backup[b]) ELSE backup[b]]
         /\ forgot' = forgot \cup {b \in dead : b \in {archive[Name(b)], sidecar[Name(b)]}}
  /\ cron' = [cron EXCEPT ![p] = {}]
  /\ call' = IF p = Worker THEN call ELSE [q \in Calls |-> None]
  /\ UNCHANGED <<now, bucket, row, asked>>

BackupStep(b) == Upload(b) \/ ExportFails(b) \/ UploadFails(b, TRUE) \/ UploadFails(b, FALSE)
                 \/ UploadSidecar(b) \/ UploadSidecarFails(b) \/ Log(b) \/ LogFails(b)
CallStep(q) == DeleteArchive(q) \/ DeleteSidecar(q) \/ DeleteRow(q)
CronStep(p) == CronList(p) \/ CronRemove(p)

Next ==
  \/ Tick
  \/ \E b \in Backups : BackupStep(b)
  \/ \E b \in Backups, p \in Processes, kind \in Kinds, encrypted \in BOOLEAN : Request(b, p, kind, encrypted)
  \/ \E q \in Calls : CallStep(q)
  \/ \E q \in Calls, b \in Backups : Delete(q, b)
  \/ \E p \in Processes : CronStep(p) \/ Crash(p)
  \/ \E p \in Processes, b \in Backups : CronBackup(p, b)

\* Nest fires the cron every day, and a process goes on with what it has begun, in
\* whatever order; nobody has to ask for anything.
ProcessStep(p) == CronStep(p) \/ \E b \in Backups : Started(b) /\ backup[b].by = p /\ BackupStep(b)
Fairness == \A p \in Processes : WF_vars(ProcessStep(p))

Spec == Init /\ [][Next]_vars /\ Fairness

(***************************************************************************)
(* Properties.                                                             *)
(***************************************************************************)

\* Names are a second or a day: two backups may meet in one.
Alone(b) == \A c \in Backups \ {b} : Started(c) => Name(c) # Name(b)

\* What the list offers: a backup nobody asked to delete, within retention, that was stored.
Kept(b) == row[b] # None /\ b \notin asked /\ ~PastRetention(b) /\ backup[b].stored /\ Alone(b)

\* A listed backup can be restored: its archive is stored under its name, with its own
\* sidecar when it is encrypted and with none when it is not, whatever other backups,
\* deletions, cleanups and deaths go on (uploadTmpToBackupBucket before logBackupAction,
\* the cutoff of cleanupOldBackups).
ListedIsRestorable ==
  \A b \in Backups : Kept(b) =>
    /\ archive[Name(b)] = b
    /\ sidecar[Name(b)] = IF backup[b].encrypted THEN b ELSE None

\* What is stored is being made, or its backup is listed so that somebody can delete it, or
\* it was left by a call that failed or a process that died: nothing else cleans xch-backups
\* (the row goes last in deleteBackup; cleanupOldBackups keeps it).
NothingForgotten ==
  \A n \in Names, b \in Backups :
    archive[n] = b \/ sidecar[n] = b => Running(b) \/ b \in forgot \/ row[b] # None

\* An archive past its retention goes, as long as the old rows are no more than one cleanup
\* reads; with more of them cleanupOldBackups may read the same ones for ever.
OldIsRemoved ==
  \A b \in Backups :
    PastRetention(b) ~> (row[b] = None \/ archive[Name(b)] = None \/ Cardinality(OldRows) > Take)
=============================================================================
