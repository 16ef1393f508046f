----------------------------- MODULE BackupProofs -----------------------------
(***************************************************************************)
(* BackupCatalog: what is listed can be restored and what is stored is     *)
(* listed, for any number of backups, deletions and failures.              *)
(* RestoreV2: while one restore runs at a time, it can be repeated, leaves *)
(* nothing out and is announced truly, for any archive.                    *)
(***************************************************************************)
EXTENDS BackupCatalog, RestoreV2, FiniteSetTheorems, TLAPS

\* A stored object is that of a backup of this name which has come so far.
Owned ==
  \A n \in Names, b \in Backups :
    /\ archive[n] = b => Started(b) /\ ~At(b, "export") /\ Name(b) = n
    /\ sidecar[n] = b => (At(b, "log") \/ At(b, "ended")) /\ backup[b].encrypted /\ Name(b) = n

\* Only format 2 is encrypted, so the failure of its upload ends it; stored means uploaded.
Shaped ==
  \A b \in Backups : Started(b) =>
    /\ backup[b].encrypted => Name(b)[1] = "v2"
    /\ backup[b].stored => ~At(b, "export")
    /\ At(b, "sidecar") => backup[b].encrypted

\* A row is written last.
Logged == \A b \in Backups : row[b] # None => At(b, "ended")

\* A deletion is of a backup that was listed, and leaves behind what it could not remove.
Deletions ==
  \A q \in Calls : call[q] # None =>
    LET b == call[q].of IN
    /\ At(b, "ended")
    /\ b \in asked \/ row[b] = None
    /\ call[q].at # "archive" => archive[Name(b)] # b \/ b \in forgot
    /\ call[q].at = "row" => sidecar[Name(b)] # b \/ b \in forgot

\* A cleanup has listed old rows, and rows do not grow younger.
Cleanups ==
  \A p \in Processes : \A b \in cron[p] : At(b, "ended") /\ (row[b] = None \/ PastRetention(b))

\* From its upload on a backup of a name of its own is complete.
Complete(b) ==
  /\ archive[Name(b)] = b
  /\ sidecar[Name(b)] = IF backup[b].encrypted /\ ~At(b, "sidecar") THEN b ELSE None

Restorable ==
  \A b \in Backups :
    /\ Started(b) /\ backup[b].stored /\ Alone(b)
    /\ At(b, "sidecar") \/ At(b, "log") \/ (row[b] # None /\ b \notin asked /\ ~PastRetention(b))
    => Complete(b)

IInv == TypeOK /\ Owned /\ Shaped /\ Logged /\ Deletions /\ Cleanups /\ NothingForgotten /\ Restorable
-----------------------------------------------------------------------------
(* Types. *)

\* A quotient is no larger than the dividend: a day is no later than its seconds.
LEMMA DayInRange ==
  ASSUME NEW t \in Nat, NEW d \in Nat \ {0}
  PROVE  t \div d \in 0..t
BY SMT

\* The names of backups that begin now are names.
LEMMA NameInNames ==
  ASSUME NEW kind \in Kinds, now \in 0..MaxTime
  PROVE  NameOf(kind, now) \in Names
<1>1. now \in Nat /\ MaxTime \in Nat /\ TicksPerDay \in Nat \ {0} BY CatalogShape
<1>2. now \div TicksPerDay \in 0..now BY <1>1, DayInRange
<1>3. now \div TicksPerDay \in 0..MaxTime BY <1>1, <1>2
<1> QED BY <1>3 DEF NameOf, Names

\* A backup that has begun is one, and stays one when it goes on or ends.
LEMMA MakingKept ==
  ASSUME TypeOK, NEW b \in Backups, Started(b)
  PROVE  /\ backup[b] \in Making /\ Name(b) \in Names
         /\ Ended(backup[b]) \in Making
         /\ \A where \in {"export", "sidecar", "log", "ended"} :
              [backup[b] EXCEPT !.at = where] \in Making /\ [backup[b] EXCEPT !.stored = TRUE, !.at = where] \in Making
BY DEF TypeOK, Started, Making, Name, Ended

\* What is put in a field is found there.
LEMMA FieldPut ==
  ASSUME NEW made \in Making, NEW where
  PROVE  /\ [made EXCEPT !.at = where].at = where
         /\ [made EXCEPT !.stored = TRUE, !.at = where].at = where
         /\ [made EXCEPT !.stored = TRUE, !.at = where].stored = TRUE
         /\ Ended(made).at = "ended"
BY DEF Making, Ended

\* A backup becomes another record.
LEMMA Becomes ==
  ASSUME TypeOK, NEW b \in Backups, NEW made \in Making, backup' = [backup EXCEPT ![b] = made]
  PROVE  backup' \in [Backups -> Making \cup {None}] /\ backup'[b] = made /\ Started(b)'
BY NoneIsNoRecord DEF TypeOK, Started

\* The step that it takes.
LEMMA GoesType ==
  ASSUME TypeOK, NEW b \in Backups, Started(b),
         NEW where \in {"export", "sidecar", "log", "ended"}, Goes(b, where)
  PROVE  backup' \in [Backups -> Making \cup {None}] /\ At(b, where)'
<1>1. CASE where = "ended"
  <2>1. backup' = [backup EXCEPT ![b] = Ended(backup[b])] /\ Ended(backup[b]) \in Making BY <1>1, MakingKept DEF Goes
  <2>2. Ended(backup[b]).at = where BY <1>1, MakingKept, FieldPut
  <2> QED BY <2>1, <2>2, Becomes DEF At
<1>2. CASE where # "ended"
  <2>1. backup' = [backup EXCEPT ![b] = [backup[b] EXCEPT !.at = where]] /\ [backup[b] EXCEPT !.at = where] \in Making
    BY <1>2, MakingKept DEF Goes
  <2>2. [backup[b] EXCEPT !.at = where].at = where BY MakingKept, FieldPut
  <2> QED BY <2>1, <2>2, Becomes DEF At
<1> QED BY <1>1, <1>2

\* What an upload makes of it.
LEMMA UploadGoes ==
  ASSUME TypeOK, NEW b \in Backups, Upload(b)
  PROVE  /\ backup'[b].stored /\ Started(b)'
         /\ backup'[b].at = IF backup[b].encrypted THEN "sidecar" ELSE "log"
<1> DEFINE where == IF backup[b].encrypted THEN "sidecar" ELSE "log"
<1>1. Started(b) BY DEF Upload, At
<1>2. backup' = [backup EXCEPT ![b] = [backup[b] EXCEPT !.stored = TRUE, !.at = where]]
  BY DEF Upload, TypeOK
<1>3. [backup[b] EXCEPT !.stored = TRUE, !.at = where] \in Making
  BY <1>1, MakingKept
<1>4. /\ [backup[b] EXCEPT !.stored = TRUE, !.at = where].at = where
      /\ [backup[b] EXCEPT !.stored = TRUE, !.at = where].stored = TRUE
  BY <1>1, MakingKept, FieldPut
<1> QED BY <1>2, <1>3, <1>4, Becomes

\* What a deletion is of, and the name it removes.
LEMMA DeletionKept ==
  ASSUME TypeOK, NEW q \in Calls, call[q] # None
  PROVE  /\ call[q] \in Deletion /\ call[q].of \in Backups
         /\ \A where \in {"archive", "sidecar", "row"} : [call[q] EXCEPT !.at = where] \in Deletion
BY DEF TypeOK, Deletion

\* No action leaves the types; a deletion under way is of a backup that has a name.
LEMMA TypeStep ==
  ASSUME TypeOK, Deletions, [Next]_vars
  PROVE  TypeOK'
<1> USE CatalogShape DEF bucket
<1>1. CASE Tick BY <1>1 DEF Tick, TypeOK
<1>2. ASSUME NEW b \in Backups, BackupStep(b) PROVE TypeOK'
  <2>1. CASE Upload(b)
    <3>1. Started(b) BY <2>1 DEF Upload, At
    <3>2. backup' \in [Backups -> Making \cup {None}]
      <4>1. \E where \in {"sidecar", "log"} : backup' = [backup EXCEPT ![b] = [backup[b] EXCEPT !.stored = TRUE, !.at = where]]
        BY <2>1 DEF Upload, TypeOK
      <4> QED BY <4>1, <3>1, MakingKept DEF TypeOK
    <3>3. archive' \in [Names -> Backups \cup {None}] BY <2>1, <3>1, MakingKept DEF Upload, TypeOK
    <3> QED BY <2>1, <3>2, <3>3 DEF Upload, TypeOK
  <2>2. CASE ExportFails(b)
    <3>1. backup' \in [Backups -> Making \cup {None}] BY <2>2, GoesType DEF ExportFails, At
    <3> QED BY <2>2, <3>1 DEF ExportFails, TypeOK, Fault
  <2>3. ASSUME NEW written \in BOOLEAN, UploadFails(b, written) PROVE TypeOK'
    <3>1. Started(b) /\ Name(b) \in Names BY <2>3, MakingKept DEF UploadFails, At
    <3>2. backup' \in [Backups -> Making \cup {None}] BY <2>3, <3>1, GoesType DEF UploadFails, AfterFailure
    <3>3. archive' \in [Names -> Backups \cup {None}] /\ forgot' \in SUBSET Backups
      BY <2>3, <3>1 DEF UploadFails, TypeOK
    <3> QED BY <2>3, <3>2, <3>3 DEF UploadFails, TypeOK, Fault
  <2>4. CASE UploadSidecar(b)
    <3>1. Started(b) /\ Name(b) \in Names BY <2>4, MakingKept DEF UploadSidecar, At
    <3>2. backup' \in [Backups -> Making \cup {None}] BY <2>4, <3>1, GoesType DEF UploadSidecar
    <3>3. sidecar' \in [Names -> Backups \cup {None}] BY <2>4, <3>1 DEF UploadSidecar, TypeOK
    <3> QED BY <2>4, <3>2, <3>3 DEF UploadSidecar, TypeOK
  <2>5. CASE UploadSidecarFails(b)
    <3>1. backup' \in [Backups -> Making \cup {None}] BY <2>5, GoesType DEF UploadSidecarFails, At
    <3> QED BY <2>5, <3>1 DEF UploadSidecarFails, TypeOK, Fault
  <2>6. CASE Log(b)
    <3>1. backup' \in [Backups -> Making \cup {None}] BY <2>6, GoesType DEF Log, At
    <3> QED BY <2>6, <3>1 DEF Log, TypeOK
  <2>7. CASE LogFails(b)
    <3>1. backup' \in [Backups -> Making \cup {None}] BY <2>7, GoesType DEF LogFails, At
    <3> QED BY <2>7, <3>1 DEF LogFails, TypeOK, Fault
  <2> QED BY <1>2, <2>1, <2>2, <2>3, <2>4, <2>5, <2>6, <2>7 DEF BackupStep
<1>3. ASSUME NEW b \in Backups, NEW p \in Processes, NEW kind \in Kinds, NEW encrypted \in BOOLEAN,
             Request(b, p, kind, encrypted)
      PROVE  TypeOK'
  <2>1. NameOf(kind, now) \in Names BY NameInNames DEF TypeOK
  <2> QED BY <1>3, <2>1 DEF Request, Start, Making, TypeOK
<1>4. ASSUME NEW q \in Calls, CallStep(q) PROVE TypeOK'
  <2>1. call[q] # None BY <1>4 DEF CallStep, DeleteArchive, DeleteSidecar, DeleteRow, Deleting
  <2>2. call' \in [Calls -> Deletion \cup {None}]
    <3>1. \/ call' = [call EXCEPT ![q] = None]
          \/ \E where \in {"sidecar", "row"} : call' = [call EXCEPT ![q] = [call[q] EXCEPT !.at = where]]
      BY <1>4 DEF CallStep, DeleteArchive, DeleteSidecar, DeleteRow, TypeOK
    <3> QED BY <3>1, <2>1, DeletionKept DEF TypeOK
  <2>3. /\ archive' \in [Names -> Backups \cup {None}] /\ sidecar' \in [Names -> Backups \cup {None}]
        /\ row' \in [Backups -> (0..MaxTime) \cup {None}]
    BY <1>4 DEF CallStep, DeleteArchive, DeleteSidecar, DeleteRow, TypeOK
  <2>4. asked' \in SUBSET Backups /\ faults' \in 0..MaxFaults
    BY <1>4 DEF CallStep, DeleteArchive, DeleteSidecar, DeleteRow, Fault, TypeOK
  <2>5. forgot' \in SUBSET Backups
    <3>1. \/ UNCHANGED forgot
          \/ \E n \in {Target(q)} : forgot' = forgot \cup ({archive[n]} \ {None}) \/ forgot' = forgot \cup ({sidecar[n]} \ {None})
      BY <1>4 DEF CallStep, DeleteArchive, DeleteSidecar, DeleteRow
    <3>2. Target(q) \in Names
      BY <2>1, DeletionKept, MakingKept DEF Deletions, At, Target
    <3> QED BY <3>1, <3>2 DEF TypeOK
  <2>6. now' = now /\ UNCHANGED <<backup, cron>> BY <1>4 DEF CallStep, DeleteArchive, DeleteSidecar, DeleteRow
  <2> QED BY <2>2, <2>3, <2>4, <2>5, <2>6 DEF TypeOK
<1>5. ASSUME NEW q \in Calls, NEW b \in Backups, Delete(q, b) PROVE TypeOK'
  BY <1>5 DEF Delete, Deletion, TypeOK
<1>6. ASSUME NEW p \in Processes, CronList(p) PROVE TypeOK'
  <2>1. cron' \in [Processes -> SUBSET Backups]
    <3>1. UNCHANGED cron \/ \E old \in SUBSET OldRows : cron' = [cron EXCEPT ![p] = old] BY <1>6 DEF CronList
    <3>2. OldRows \subseteq Backups BY DEF OldRows
    <3> QED BY <3>1, <3>2 DEF TypeOK
  <2>2. faults' \in 0..MaxFaults BY <1>6 DEF CronList, Fault, TypeOK
  <2>3. UNCHANGED <<now, backup, bucket, row, call, asked, forgot>> BY <1>6 DEF CronList
  <2> QED BY <2>1, <2>2, <2>3 DEF TypeOK
<1>7. ASSUME NEW p \in Processes, CronRemove(p) PROVE TypeOK'
  BY <1>7 DEF CronRemove, Fault, Name, TypeOK
<1>8. ASSUME NEW p \in Processes, Crash(p) PROVE TypeOK'
  <2>1. backup' \in [Backups -> Making \cup {None}]
    <3>1. \E dead \in SUBSET {b \in Backups : Started(b)} :
            backup' = [b \in Backups |-> IF b \in dead THEN Ended(backup[b]) ELSE backup[b]]
      BY <1>8 DEF Crash, Running
    <3>2. \A b \in Backups : Started(b) => Ended(backup[b]) \in Making BY MakingKept
    <3> QED BY <3>1, <3>2 DEF TypeOK
  <2>2. forgot' \in SUBSET Backups BY <1>8 DEF Crash, TypeOK
  <2>3. call' \in [Calls -> Deletion \cup {None}] BY <1>8 DEF Crash, TypeOK
  <2>4. cron' \in [Processes -> SUBSET Backups] /\ faults' \in 0..MaxFaults BY <1>8 DEF Crash, Fault, TypeOK
  <2>5. UNCHANGED <<now, bucket, row, asked>> BY <1>8 DEF Crash
  <2> QED BY <2>1, <2>2, <2>3, <2>4, <2>5 DEF TypeOK
<1>9. ASSUME NEW p \in Processes, NEW b \in Backups, CronBackup(p, b) PROVE TypeOK'
  <2>1. NameOf("full", now) \in Names BY NameInNames DEF Kinds, TypeOK
  <2> QED BY <1>9, <2>1 DEF CronBackup, Start, Making, TypeOK
<1>10. CASE UNCHANGED vars BY <1>10 DEF vars, TypeOK
<1> QED BY <1>1, <1>2, <1>3, <1>4, <1>5, <1>6, <1>7, <1>8, <1>9, <1>10 DEF Next, CronStep
-----------------------------------------------------------------------------
(* What a step does to a backup. *)

\* A backup keeps its name and kind, and one that has ended stays as it is.
Continued(b) ==
  /\ Started(b)' /\ Name(b)' = Name(b)
  /\ backup'[b].encrypted = backup[b].encrypted
  /\ At(b, "ended") => backup'[b] = backup[b]
  /\ ~At(b, "export") => backup'[b].at # "export" /\ backup'[b].stored = backup[b].stored
  /\ At(b, "log") => backup'[b].at \in {"log", "ended"}
  /\ At(b, "sidecar") => backup'[b].at \in {"sidecar", "ended"} \/ UploadSidecar(b)
  /\ backup'[b].stored => backup[b].stored \/ Upload(b)
  /\ backup'[b].at = "sidecar" => At(b, "sidecar") \/ Upload(b)

\* No step does anything else to a backup.
LEMMA BackupContinued ==
  ASSUME TypeOK, [Next]_vars, NEW b \in Backups, Started(b)
  PROVE  Continued(b)
<1> USE DEF Continued, Started, Name, At
<1>0. backup[b] \in Making /\ None \notin Making BY MakingKept, NoneIsNoRecord
<1>1. ASSUME backup' = backup PROVE Continued(b) BY <1>1, <1>0 DEF Making
<1>2. ASSUME NEW c \in Backups, BackupStep(c) PROVE Continued(b)
  <2>1. CASE c # b
    <3>1. backup'[b] = backup[b]
      BY <1>2, <2>1 DEF TypeOK, BackupStep, Upload, ExportFails, UploadFails, UploadSidecar, UploadSidecarFails, Log, LogFails, Goes
    <3> QED BY <3>1, <1>0 DEF Making
  <2>2. CASE c = b
    <3>1. CASE Upload(b) BY <3>1, <1>0, <2>2 DEF Upload, Making, TypeOK
    <3>2. ASSUME NEW where \in {"log", "ended"}, Goes(b, where), ~At(b, "ended"),
                 At(b, "sidecar") => where = "ended" \/ UploadSidecar(b)
          PROVE  Continued(b)
      BY <3>2, <1>0 DEF Goes, Ended, Making, TypeOK
    <3> QED BY <3>1, <3>2, <1>2, <2>2
         DEF BackupStep, ExportFails, UploadFails, AfterFailure, UploadSidecar, UploadSidecarFails, Log, LogFails
  <2> QED BY <2>1, <2>2
<1>3. ASSUME NEW c \in Backups, NEW p \in Processes, NEW kind, NEW encrypted, NEW byCron, Start(c, p, kind, encrypted, byCron)
      PROVE  Continued(b)
  <2>1. c # b /\ backup'[b] = backup[b] BY <1>3 DEF Start, TypeOK
  <2> QED BY <2>1, <1>0 DEF Making
<1>4. ASSUME NEW p \in Processes, Crash(p) PROVE Continued(b)
  BY <1>4, <1>0 DEF Crash, Running, Ended, Making
<1> QED BY <1>1, <1>2, <1>3, <1>4
     DEF Next, Tick, CallStep, DeleteArchive, DeleteSidecar, DeleteRow, Delete, CronStep, CronList, CronRemove, CronBackup, Request, vars

\* A sentinel is no backup.
LEMMA NoneIsNoBackup == None \notin Backups
BY CatalogShape DEF Backups

\* An archive was there before, or its backup has just put it.
LEMMA ArchiveSource ==
  ASSUME TypeOK, [Next]_vars, NEW n \in Names, NEW b \in Backups, archive'[n] = b
  PROVE  archive[n] = b \/ (Name(b) = n /\ (Upload(b) \/ UploadFails(b, TRUE)))
<1> USE NoneIsNoBackup
<1>1. CASE UNCHANGED archive BY <1>1
<1>2. ASSUME NEW c \in Backups, BackupStep(c)
      PROVE  UNCHANGED archive \/ (archive' = [archive EXCEPT ![Name(c)] = c] /\ (Upload(c) \/ UploadFails(c, TRUE)))
  <2>1. ASSUME NEW written \in {FALSE}, UploadFails(c, written) PROVE UNCHANGED archive
    BY <2>1 DEF UploadFails
  <2> QED BY <1>2, <2>1 DEF BackupStep, Upload, UploadFails, ExportFails, UploadSidecar, UploadSidecarFails, Log, LogFails, bucket
<1>3. ASSUME NEW c \in Backups, archive' = [archive EXCEPT ![Name(c)] = c], Upload(c) \/ UploadFails(c, TRUE)
      PROVE  archive[n] = b \/ (Name(b) = n /\ (Upload(b) \/ UploadFails(b, TRUE)))
  <2>1. CASE Name(c) = n BY <1>3, <2>1 DEF TypeOK
  <2>2. CASE Name(c) # n BY <1>3, <2>2 DEF TypeOK
  <2> QED BY <2>1, <2>2
<1>4. ASSUME NEW m, archive' = [archive EXCEPT ![m] = None] PROVE archive[n] = b
  BY <1>4 DEF TypeOK
<1>5. ASSUME NEW q \in Calls, CallStep(q) PROVE UNCHANGED archive \/ \E m : archive' = [archive EXCEPT ![m] = None]
  BY <1>5 DEF CallStep, DeleteArchive, DeleteSidecar, DeleteRow, bucket
<1>6. ASSUME NEW p \in Processes, CronRemove(p) PROVE UNCHANGED archive \/ \E m : archive' = [archive EXCEPT ![m] = None]
  BY <1>6 DEF CronRemove
<1> QED BY <1>1, <1>2, <1>3, <1>4, <1>5, <1>6
     DEF Next, Tick, Delete, CronStep, CronList, CronBackup, Crash, Request, vars, bucket

\* So was a sidecar.
LEMMA SidecarSource ==
  ASSUME TypeOK, [Next]_vars, NEW n \in Names, NEW b \in Backups, sidecar'[n] = b
  PROVE  sidecar[n] = b \/ (Name(b) = n /\ UploadSidecar(b))
<1> USE NoneIsNoBackup
<1>1. CASE UNCHANGED sidecar BY <1>1
<1>2. ASSUME NEW c \in Backups, BackupStep(c)
      PROVE  UNCHANGED sidecar \/ (sidecar' = [sidecar EXCEPT ![Name(c)] = c] /\ UploadSidecar(c))
  BY <1>2 DEF BackupStep, Upload, UploadFails, ExportFails, UploadSidecar, UploadSidecarFails, Log, LogFails, bucket
<1>3. ASSUME NEW c \in Backups, sidecar' = [sidecar EXCEPT ![Name(c)] = c], UploadSidecar(c)
      PROVE  sidecar[n] = b \/ (Name(b) = n /\ UploadSidecar(b))
  <2>1. CASE Name(c) = n BY <1>3, <2>1 DEF TypeOK
  <2>2. CASE Name(c) # n BY <1>3, <2>2 DEF TypeOK
  <2> QED BY <2>1, <2>2
<1>4. ASSUME NEW m, sidecar' = [sidecar EXCEPT ![m] = None] PROVE sidecar[n] = b
  BY <1>4 DEF TypeOK
<1>5. ASSUME NEW q \in Calls, CallStep(q) PROVE UNCHANGED sidecar \/ \E m : sidecar' = [sidecar EXCEPT ![m] = None]
  BY <1>5 DEF CallStep, DeleteArchive, DeleteSidecar, DeleteRow, bucket
<1> QED BY <1>1, <1>2, <1>3, <1>4, <1>5
     DEF Next, Tick, Delete, CronStep, CronList, CronRemove, CronBackup, Crash, Request, vars, bucket

\* Objects keep their owners.
LEMMA OwnedStep ==
  ASSUME TypeOK, Owned, Shaped, [Next]_vars
  PROVE  Owned'
<1> SUFFICES ASSUME NEW n \in Names, NEW b \in Backups
             PROVE  /\ archive'[n] = b => Started(b)' /\ ~At(b, "export")' /\ Name(b)' = n
                    /\ sidecar'[n] = b => (At(b, "log")' \/ At(b, "ended")') /\ backup'[b].encrypted /\ Name(b)' = n
    BY DEF Owned
<1>1. ASSUME archive'[n] = b PROVE Started(b)' /\ ~At(b, "export")' /\ Name(b)' = n
  <2>1. CASE archive[n] = b BY <2>1, BackupContinued DEF Owned, Continued, At, Started
  <2>2. CASE Name(b) = n /\ (Upload(b) \/ UploadFails(b, TRUE))
    <3>1. At(b, "export") /\ Continued(b) BY <2>2, BackupContinued DEF Upload, UploadFails, At
    <3>2. ~At(b, "export")'
      <4>1. CASE Upload(b) BY <4>1, UploadGoes DEF At
      <4>2. CASE UploadFails(b, TRUE)
        <5>1. AfterFailure(b) \in {"log", "ended"} /\ Goes(b, AfterFailure(b)) BY <4>2 DEF UploadFails, AfterFailure
        <5> QED BY <5>1, <3>1, GoesType DEF At
      <4> QED BY <2>2, <4>1, <4>2
    <3> QED BY <2>2, <3>1, <3>2 DEF Continued
  <2> QED BY <1>1, <2>1, <2>2, ArchiveSource
<1>2. ASSUME sidecar'[n] = b
      PROVE  (At(b, "log")' \/ At(b, "ended")') /\ backup'[b].encrypted /\ Name(b)' = n
  <2>1. CASE sidecar[n] = b
    <3>1. Continued(b) BY <2>1, BackupContinued DEF Owned, At
    <3>2. (At(b, "log")' \/ At(b, "ended")') 
      BY <2>1, <3>1, NoneIsNoRecord DEF Owned, Continued, At, Started
    <3> QED BY <2>1, <3>1, <3>2 DEF Owned, Continued
  <2>2. CASE Name(b) = n /\ UploadSidecar(b)
    <3>1. At(b, "sidecar") /\ Continued(b) BY <2>2, BackupContinued DEF UploadSidecar, At
    <3>2. At(b, "log")' BY <2>2, <3>1, GoesType DEF UploadSidecar, At
    <3>3. backup[b].encrypted BY <3>1 DEF Shaped, At
    <3> QED BY <2>2, <3>1, <3>2, <3>3 DEF Continued
  <2> QED BY <1>2, <2>1, <2>2, SidecarSource
<1> QED BY <1>1, <1>2

\* A backup begins with nothing stored, encrypted only in format 2.
LEMMA Begun ==
  ASSUME TypeOK, [Next]_vars, NEW b \in Backups, ~Started(b), Started(b)'
  PROVE  At(b, "export")' /\ ~backup'[b].stored /\ (backup'[b].encrypted => Name(b)'[1] = "v2")
<1> USE DEF Started, At, Name
<1>1. ASSUME NEW c \in Backups, BackupStep(c) PROVE FALSE
  <2>1. Started(c) BY <1>1 DEF BackupStep, Upload, ExportFails, UploadFails, UploadSidecar, UploadSidecarFails, Log, LogFails
  <2>2. c # b /\ backup'[b] = backup[b]
    BY <1>1, <2>1 DEF TypeOK, BackupStep, Upload, ExportFails, UploadFails, UploadSidecar, UploadSidecarFails, Log, LogFails, Goes
  <2> QED BY <2>2
<1>2. ASSUME NEW p \in Processes, Crash(p) PROVE FALSE BY <1>2 DEF Crash, Running
<1>3. ASSUME NEW c \in Backups, NEW p \in Processes, NEW kind, NEW encrypted, NEW byCron,
             Start(c, p, kind, encrypted, byCron), encrypted => kind = "v2"
      PROVE  At(b, "export")' /\ ~backup'[b].stored /\ (backup'[b].encrypted => Name(b)'[1] = "v2")
  <2>1. backup'[b] = [at |-> "export", name |-> NameOf(kind, now), encrypted |-> encrypted,
                      by |-> p, cron |-> byCron, stored |-> FALSE]
    BY <1>3 DEF Start, TypeOK
  <2> QED BY <2>1, <1>3 DEF NameOf
<1> QED BY <1>1, <1>2, <1>3
     DEF Next, Tick, CallStep, DeleteArchive, DeleteSidecar, DeleteRow, Delete, CronStep, CronList, CronRemove, CronBackup, Request, vars

\* Format and progress keep in step.
LEMMA ShapedStep ==
  ASSUME TypeOK, Shaped, [Next]_vars
  PROVE  Shaped'
<1> SUFFICES ASSUME NEW b \in Backups, Started(b)'
             PROVE  /\ backup'[b].encrypted => Name(b)'[1] = "v2"
                    /\ backup'[b].stored => ~At(b, "export")'
                    /\ At(b, "sidecar")' => backup'[b].encrypted
    BY DEF Shaped
<1>1. CASE ~Started(b) BY <1>1, Begun DEF At
<1>2. CASE Started(b)
  <2>1. Continued(b) BY <1>2, BackupContinued
  <2>2. ASSUME Upload(b) PROVE backup'[b].at # "export" /\ (backup'[b].at = "sidecar" => backup[b].encrypted)
    BY <2>2, UploadGoes
  <2> QED BY <1>2, <2>1, <2>2 DEF Shaped, Continued, At
<1> QED BY <1>1, <1>2
-----------------------------------------------------------------------------
(* What a step does to the rows, the requests and the bucket. *)

\* A row is written by Log.
LEMMA RowSource ==
  ASSUME TypeOK, [Next]_vars, NEW b \in Backups, row'[b] # None
  PROVE  row'[b] = row[b] \/ (Log(b) /\ row'[b] = now)
<1>1. CASE UNCHANGED row BY <1>1
<1>2. ASSUME NEW c \in Backups, BackupStep(c) PROVE UNCHANGED row \/ (Log(c) /\ row' = [row EXCEPT ![c] = now])
  BY <1>2 DEF BackupStep, Upload, UploadFails, ExportFails, UploadSidecar, UploadSidecarFails, Log, LogFails
<1>3. ASSUME NEW c \in Backups, Log(c), row' = [row EXCEPT ![c] = now] PROVE row'[b] = row[b] \/ (Log(b) /\ row'[b] = now)
  BY <1>3 DEF TypeOK
<1>4. ASSUME NEW q \in Calls, CallStep(q) PROVE UNCHANGED row \/ row' = [row EXCEPT ![call[q].of] = None]
  BY <1>4 DEF CallStep, DeleteArchive, DeleteSidecar, DeleteRow
<1>5. ASSUME NEW c, row' = [row EXCEPT ![c] = None] PROVE row'[b] = row[b]
  BY <1>5 DEF TypeOK
<1> QED BY <1>1, <1>2, <1>3, <1>4, <1>5
     DEF Next, Tick, Delete, CronStep, CronList, CronRemove, CronBackup, Crash, Request, vars

\* It goes when a deletion has come to it.
LEMMA RowGone ==
  ASSUME TypeOK, [Next]_vars, NEW b \in Backups, row[b] # None, row'[b] = None
  PROVE  \E q \in Calls : Deleting(q, "row") /\ call[q].of = b /\ UNCHANGED bucket
<1>0. now # None BY CatalogShape DEF TypeOK
<1>1. ~UNCHANGED row OBVIOUS
<1>2. ASSUME NEW c \in Backups, BackupStep(c) PROVE FALSE
  <2>1. Log(c) /\ row' = [row EXCEPT ![c] = now]
    BY <1>1, <1>2 DEF BackupStep, Upload, UploadFails, ExportFails, UploadSidecar, UploadSidecarFails, Log, LogFails
  <2> QED BY <2>1, <1>0 DEF TypeOK
<1>3. ASSUME NEW q \in Calls, CallStep(q) PROVE Deleting(q, "row") /\ call[q].of = b /\ UNCHANGED bucket
  <2>1. Deleting(q, "row") /\ row' = [row EXCEPT ![call[q].of] = None] /\ UNCHANGED bucket
    BY <1>1, <1>3 DEF CallStep, DeleteArchive, DeleteSidecar, DeleteRow
  <2>2. call[q].of = b BY <2>1 DEF TypeOK
  <2> QED BY <2>1, <2>2
<1> QED BY <1>1, <1>2, <1>3
     DEF Next, Tick, Delete, CronStep, CronList, CronRemove, CronBackup, Crash, Request, vars

\* A request is forgotten with the row; what was left behind and the time never.
LEMMA HistoryKept ==
  ASSUME TypeOK, [Next]_vars
  PROVE  /\ \A b \in Backups : b \in asked /\ b \notin asked' => row'[b] = None
         /\ forgot \subseteq forgot'
         /\ now' \in Nat /\ now \in Nat /\ now <= now'
<1>1. \A b \in Backups : b \in asked /\ b \notin asked' => row'[b] = None
  <2>1. ASSUME NEW q \in Calls, CallStep(q) PROVE UNCHANGED asked \/ (asked' = asked \ {call[q].of} /\ row' = [row EXCEPT ![call[q].of] = None])
    BY <2>1 DEF CallStep, DeleteArchive, DeleteSidecar, DeleteRow
  <2>2. ASSUME NEW c, asked' = asked \ {c}, row' = [row EXCEPT ![c] = None]
        PROVE  \A b \in Backups : b \in asked /\ b \notin asked' => row'[b] = None
    BY <2>2 DEF TypeOK
  <2>3. ASSUME NEW b \in Backups, BackupStep(b) PROVE UNCHANGED asked
    BY <2>3 DEF BackupStep, Upload, UploadFails, ExportFails, UploadSidecar, UploadSidecarFails, Log, LogFails
  <2> QED BY <2>1, <2>2, <2>3
       DEF Next, Tick, Delete, CronStep, CronList, CronRemove, CronBackup, Crash, Request, vars
<1>2. forgot \subseteq forgot'
  <2>1. ASSUME NEW b \in Backups, BackupStep(b) PROVE forgot \subseteq forgot'
    BY <2>1 DEF BackupStep, Upload, UploadFails, ExportFails, UploadSidecar, UploadSidecarFails, Log, LogFails
  <2>2. ASSUME NEW q \in Calls, CallStep(q) PROVE forgot \subseteq forgot'
    BY <2>2 DEF CallStep, DeleteArchive, DeleteSidecar, DeleteRow
  <2> QED BY <2>1, <2>2
       DEF Next, Tick, Delete, CronStep, CronList, CronRemove, CronBackup, Crash, Request, vars
<1>3. now' = now \/ (now' = now + 1 /\ now < MaxTime)
  <2>1. ASSUME NEW b \in Backups, BackupStep(b) PROVE UNCHANGED now
    BY <2>1 DEF BackupStep, Upload, UploadFails, ExportFails, UploadSidecar, UploadSidecarFails, Log, LogFails
  <2>2. ASSUME NEW q \in Calls, CallStep(q) PROVE UNCHANGED now
    BY <2>2 DEF CallStep, DeleteArchive, DeleteSidecar, DeleteRow
  <2> QED BY <2>1, <2>2
       DEF Next, Tick, Delete, CronStep, CronList, CronRemove, CronBackup, Crash, Request, vars
<1>4. now \in Nat BY CatalogShape DEF TypeOK
<1> QED BY <1>1, <1>2, <1>3, <1>4

\* A name loses its archive to another backup of this name, to a deletion or to a cleanup.
LEMMA ArchiveGone ==
  ASSUME TypeOK, [Next]_vars, NEW n \in Names, archive'[n] # archive[n]
  PROVE  \/ \E c \in Backups : Name(c) = n /\ (Upload(c) \/ UploadFails(c, TRUE))
         \/ \E q \in Calls : Deleting(q, "archive") /\ Target(q) = n
         \/ \E p \in Processes : \E c \in cron[p] : Name(c) = n
<1>1. ~UNCHANGED archive OBVIOUS
<1>2. ASSUME NEW c \in Backups, BackupStep(c) PROVE Name(c) = n /\ (Upload(c) \/ UploadFails(c, TRUE))
  <2>1. ASSUME NEW written \in {FALSE}, UploadFails(c, written) PROVE UNCHANGED archive
    BY <2>1 DEF UploadFails
  <2>2. archive' = [archive EXCEPT ![Name(c)] = c] /\ (Upload(c) \/ UploadFails(c, TRUE))
    BY <1>1, <1>2, <2>1 DEF BackupStep, Upload, UploadFails, ExportFails, UploadSidecar, UploadSidecarFails, Log, LogFails, bucket
  <2> QED BY <2>2 DEF TypeOK
<1>3. ASSUME NEW q \in Calls, CallStep(q) PROVE Deleting(q, "archive") /\ Target(q) = n
  <2>1. Deleting(q, "archive") /\ archive' = [archive EXCEPT ![Target(q)] = None]
    BY <1>1, <1>3 DEF CallStep, DeleteArchive, DeleteSidecar, DeleteRow, bucket
  <2> QED BY <2>1 DEF TypeOK
<1>4. ASSUME NEW p \in Processes, CronRemove(p) PROVE \E c \in cron[p] : Name(c) = n
  <2>1. PICK c \in cron[p] : archive' = [archive EXCEPT ![Name(c)] = None]
    BY <1>1, <1>4 DEF CronRemove
  <2> QED BY <2>1 DEF TypeOK
<1> QED BY <1>1, <1>2, <1>3, <1>4
     DEF Next, Tick, Delete, CronStep, CronList, CronBackup, Crash, Request, vars, bucket

\* And its sidecar to another backup or to a deletion.
LEMMA SidecarGone ==
  ASSUME TypeOK, [Next]_vars, NEW n \in Names, sidecar'[n] # sidecar[n]
  PROVE  \/ \E c \in Backups : Name(c) = n /\ UploadSidecar(c)
         \/ \E q \in Calls : Deleting(q, "sidecar") /\ Target(q) = n
<1>1. ~UNCHANGED sidecar OBVIOUS
<1>2. ASSUME NEW c \in Backups, BackupStep(c) PROVE Name(c) = n /\ UploadSidecar(c)
  <2>1. sidecar' = [sidecar EXCEPT ![Name(c)] = c] /\ UploadSidecar(c)
    BY <1>1, <1>2 DEF BackupStep, Upload, UploadFails, ExportFails, UploadSidecar, UploadSidecarFails, Log, LogFails, bucket
  <2> QED BY <2>1 DEF TypeOK
<1>3. ASSUME NEW q \in Calls, CallStep(q) PROVE Deleting(q, "sidecar") /\ Target(q) = n
  <2>1. Deleting(q, "sidecar") /\ sidecar' = [sidecar EXCEPT ![Target(q)] = None]
    BY <1>1, <1>3 DEF CallStep, DeleteArchive, DeleteSidecar, DeleteRow, bucket
  <2> QED BY <2>1 DEF TypeOK
<1> QED BY <1>1, <1>2, <1>3
     DEF Next, Tick, Delete, CronStep, CronList, CronRemove, CronBackup, Crash, Request, vars, bucket

\* A backup that has ended puts nothing in the bucket and writes no row.
LEMMA EndedIsQuiet ==
  ASSUME TypeOK, [Next]_vars, NEW b \in Backups, At(b, "ended")
  PROVE  /\ At(b, "ended")' /\ Name(b)' = Name(b)
         /\ row'[b] # None => row'[b] = row[b]
         /\ \A n \in Names : archive'[n] = b => archive[n] = b
         /\ \A n \in Names : sidecar'[n] = b => sidecar[n] = b
<1>1. Continued(b) BY BackupContinued DEF At
<1>2. At(b, "ended")' /\ Name(b)' = Name(b) BY <1>1 DEF Continued, At, Started
<1>3. ~Upload(b) /\ ~UploadFails(b, TRUE) /\ ~UploadSidecar(b) /\ ~Log(b) BY DEF Upload, UploadFails, UploadSidecar, Log, At
<1> QED BY <1>2, <1>3, RowSource, ArchiveSource, SidecarSource

\* A row past its retention stays so until it goes.
LEMMA PastKept ==
  ASSUME TypeOK, [Next]_vars, NEW b \in Backups, At(b, "ended"), row[b] = None \/ PastRetention(b)
  PROVE  row'[b] = None \/ PastRetention(b)'
<1>1. ASSUME row'[b] # None PROVE PastRetention(b)'
  <2>1. row'[b] = row[b] /\ row[b] # None BY <1>1, EndedIsQuiet
  <2>2. row[b] \in Nat /\ Retention \in Nat BY <2>1, CatalogShape DEF TypeOK
  <2>3. row[b] + Retention < now BY <2>1 DEF PastRetention
  <2>4. now' \in Nat /\ now \in Nat /\ now <= now' BY HistoryKept
  <2>5. row[b] + Retention < now' BY <2>2, <2>3, <2>4
  <2> QED BY <2>1, <2>5, <1>1 DEF PastRetention
<1> QED BY <1>1
-----------------------------------------------------------------------------
(* The invariant, part by part. *)

\* Rows are written last.
LEMMA LoggedStep ==
  ASSUME TypeOK, Logged, [Next]_vars
  PROVE  Logged'
<1> SUFFICES ASSUME NEW b \in Backups, row'[b] # None PROVE At(b, "ended")' BY DEF Logged
<1>1. CASE row'[b] = row[b] BY <1>1, EndedIsQuiet DEF Logged
<1>2. CASE Log(b) BY <1>2, GoesType DEF Log, At
<1> QED BY <1>1, <1>2, RowSource

\* A cleanup goes on with rows past their retention.
LEMMA CleanupsStep ==
  ASSUME TypeOK, Logged, Cleanups, [Next]_vars
  PROVE  Cleanups'
<1> SUFFICES ASSUME NEW p \in Processes, NEW b \in cron'[p]
             PROVE  At(b, "ended")' /\ (row'[b] = None \/ PastRetention(b)')
    BY DEF Cleanups
<1>1. b \in cron[p] \/ b \in OldRows
  <2>1. ASSUME NEW r \in Processes, CronList(r) PROVE b \in cron[p] \/ b \in OldRows BY <2>1 DEF CronList, TypeOK
  <2>2. ASSUME NEW r \in Processes, CronRemove(r) PROVE b \in cron[p] BY <2>2 DEF CronRemove, TypeOK
  <2>3. ASSUME NEW r \in Processes, Crash(r) PROVE b \in cron[p] BY <2>3 DEF Crash, TypeOK
  <2>4. ASSUME NEW c \in Backups, BackupStep(c) PROVE UNCHANGED cron
    BY <2>4 DEF BackupStep, Upload, UploadFails, ExportFails, UploadSidecar, UploadSidecarFails, Log, LogFails
  <2>5. ASSUME NEW q \in Calls, CallStep(q) PROVE UNCHANGED cron
    BY <2>5 DEF CallStep, DeleteArchive, DeleteSidecar, DeleteRow
  <2> QED BY <2>1, <2>2, <2>3, <2>4, <2>5 DEF Next, Tick, Delete, CronStep, CronBackup, Request, vars
<1>2. b \in Backups BY <1>1 DEF TypeOK, OldRows
<1>3. At(b, "ended") /\ (row[b] = None \/ PastRetention(b))
  BY <1>1, <1>2 DEF Cleanups, OldRows, PastRetention, Logged
<1> QED BY <1>2, <1>3, EndedIsQuiet, PastKept

\* A deletion goes on, or begins, or takes its next step.
LEMMA CallSource ==
  ASSUME TypeOK, [Next]_vars, NEW q \in Calls, call'[q] # None
  PROVE  \/ call'[q] = call[q]
         \/ \E b \in Backups : Delete(q, b) /\ call'[q] = [of |-> b, at |-> "archive"]
         \/ DeleteArchive(q) /\ call'[q].of = call[q].of /\ call'[q].at = "sidecar"
         \/ DeleteSidecar(q) /\ call'[q].of = call[q].of /\ call'[q].at = "row"
<1>1. CASE UNCHANGED call BY <1>1
<1>2. ASSUME NEW r \in Calls, NEW b \in Backups, Delete(r, b)
      PROVE  call'[q] = call[q] \/ (Delete(q, b) /\ call'[q] = [of |-> b, at |-> "archive"])
  BY <1>2 DEF Delete, TypeOK
<1>3. ASSUME NEW r \in Calls, CallStep(r), r # q PROVE call'[q] = call[q]
  BY <1>3 DEF CallStep, DeleteArchive, DeleteSidecar, DeleteRow, TypeOK
<1>4. ASSUME CallStep(q)
      PROVE  \/ DeleteArchive(q) /\ call'[q].of = call[q].of /\ call'[q].at = "sidecar"
             \/ DeleteSidecar(q) /\ call'[q].of = call[q].of /\ call'[q].at = "row"
  <2>1. call[q] # None BY <1>4 DEF CallStep, DeleteArchive, DeleteSidecar, DeleteRow, Deleting
  <2>2. call[q] \in Deletion BY <2>1, DeletionKept
  <2>3. ~DeleteRow(q) BY DEF DeleteRow, TypeOK
  <2>4. ASSUME NEW where, call' = [call EXCEPT ![q].at = where]
        PROVE  call'[q].of = call[q].of /\ call'[q].at = where
    BY <2>2, <2>4 DEF Deletion, TypeOK
  <2>5. CASE DeleteArchive(q) BY <2>5, <2>4 DEF DeleteArchive
  <2>6. CASE DeleteSidecar(q) BY <2>6, <2>4 DEF DeleteSidecar
  <2> QED BY <1>4, <2>3, <2>5, <2>6 DEF CallStep
<1>5. ASSUME NEW p \in Processes, Crash(p) PROVE call'[q] = call[q] BY <1>5 DEF Crash, TypeOK
<1>6. ASSUME NEW b \in Backups, BackupStep(b) PROVE UNCHANGED call
  BY <1>6 DEF BackupStep, Upload, UploadFails, ExportFails, UploadSidecar, UploadSidecarFails, Log, LogFails
<1> QED BY <1>1, <1>2, <1>3, <1>4, <1>5, <1>6
     DEF Next, Tick, CronStep, CronList, CronRemove, CronBackup, Request, vars

\* A deletion removes in order, and what it cannot remove is left behind.
LEMMA DeletionsStep ==
  ASSUME TypeOK, Logged, Deletions, [Next]_vars
  PROVE  Deletions'
<1> DEFINE Fits(q, b) ==
      /\ At(b, "ended")
      /\ b \in asked \/ row[b] = None
      /\ call[q].at # "archive" => archive[Name(b)] # b \/ b \in forgot
      /\ call[q].at = "row" => sidecar[Name(b)] # b \/ b \in forgot
<1> SUFFICES ASSUME NEW q \in Calls, call'[q] # None PROVE Fits(q, call[q].of)'
    BY DEF Deletions
<1>0. \A b \in Backups : At(b, "ended") => Started(b) BY DEF At
<1>1. ASSUME call'[q] = call[q] PROVE Fits(q, call[q].of)'
  <2>0. PICK b \in Backups : b = call[q].of BY <1>1, DeletionKept
  <2>1. Fits(q, b) BY <1>1, <2>0 DEF Deletions
  <2>2. Name(b) \in Names BY <2>1, <1>0, MakingKept
  <2>3. At(b, "ended")' /\ Name(b)' = Name(b)
        /\ (row'[b] # None => row'[b] = row[b])
        /\ (archive'[Name(b)] = b => archive[Name(b)] = b)
        /\ (sidecar'[Name(b)] = b => sidecar[Name(b)] = b)
    BY <2>1, <2>2, EndedIsQuiet
  <2>4. (b \in asked /\ b \notin asked' => row'[b] = None) /\ forgot \subseteq forgot' BY <2>1, HistoryKept
  <2>5. call'[q].of = b /\ call'[q].at = call[q].at BY <1>1, <2>0
  <2>6. Fits(q, b)'
    <3>1. b \in asked' \/ row'[b] = None BY <2>1, <2>3, <2>4
    <3>2. call[q].at # "archive" => archive'[Name(b)] # b \/ b \in forgot' BY <2>1, <2>3, <2>4
    <3>3. call[q].at = "row" => sidecar'[Name(b)] # b \/ b \in forgot' BY <2>1, <2>3, <2>4
    <3> QED BY <2>3, <2>5, <3>1, <3>2, <3>3
  <2> QED BY <2>5, <2>6
<1>2. ASSUME NEW b \in Backups, Delete(q, b), call'[q] = [of |-> b, at |-> "archive"] PROVE Fits(q, call[q].of)'
  <2>1. At(b, "ended") /\ b \in asked' BY <1>2 DEF Delete, Logged
  <2>2. At(b, "ended")' BY <2>1, EndedIsQuiet
  <2> QED BY <1>2, <2>1, <2>2
<1>3. ASSUME NEW b \in Backups, b = call[q].of, call'[q].of = b, Fits(q, b), b = call[q].of,
             \/ DeleteArchive(q) /\ call'[q].at = "sidecar"
             \/ DeleteSidecar(q) /\ call'[q].at = "row"
      PROVE  Fits(q, call[q].of)'
  <2>1. At(b, "ended")' /\ Name(b)' = Name(b) BY <1>3, EndedIsQuiet
  <2>2. UNCHANGED <<row, asked>> BY <1>3 DEF DeleteArchive, DeleteSidecar
  <2>3. Name(b) \in Names /\ Target(q) = Name(b) BY <1>0, <1>3, MakingKept DEF Target
  <2>4. CASE DeleteArchive(q) /\ call'[q].at = "sidecar"
    <3>1. archive'[Name(b)] # b \/ b \in forgot'
      BY <2>3, <2>4, NoneIsNoBackup DEF DeleteArchive, TypeOK
    <3> QED BY <1>3, <2>1, <2>2, <2>4, <3>1
  <2>5. CASE DeleteSidecar(q) /\ call'[q].at = "row"
    <3>1. sidecar'[Name(b)] # b \/ b \in forgot'
      BY <2>3, <2>5, NoneIsNoBackup DEF DeleteSidecar, TypeOK
    <3>2. call[q].at # "archive" /\ UNCHANGED archive BY <2>5 DEF DeleteSidecar, Deleting
    <3>3. archive'[Name(b)] # b \/ b \in forgot' BY <1>3, <3>2, HistoryKept
    <3> QED BY <1>3, <2>1, <2>2, <2>5, <3>1, <3>3
  <2> QED BY <1>3, <2>4, <2>5
<1>4. ASSUME DeleteArchive(q) \/ DeleteSidecar(q)
      PROVE  call[q].of \in Backups /\ Fits(q, call[q].of)
  BY <1>4, DeletionKept DEF DeleteArchive, DeleteSidecar, Deleting, Deletions
<1> QED BY <1>1, <1>2, <1>3, <1>4, CallSource

\* What is stored is being made, listed or left behind.
LEMMA NothingForgottenStep ==
  ASSUME TypeOK, Owned, Logged, Deletions, NothingForgotten, [Next]_vars
  PROVE  NothingForgotten'
<1> SUFFICES ASSUME NEW n \in Names, NEW b \in Backups, archive'[n] = b \/ sidecar'[n] = b
             PROVE  Running(b)' \/ b \in forgot' \/ row'[b] # None
    BY DEF NothingForgotten
<1>0. \A where : At(b, where) => Started(b) /\ Continued(b) BY BackupContinued DEF At
<1>1. CASE archive[n] = b \/ sidecar[n] = b
  <2>0. Started(b) /\ ~At(b, "export") /\ Name(b) = n BY <1>1 DEF Owned, At
  <2>1. CASE b \in forgot BY <2>1, HistoryKept
  <2>2. CASE row[b] # None
    <3>1. ASSUME row'[b] = None PROVE b \in forgot'
      <4>1. PICK q \in Calls : Deleting(q, "row") /\ call[q].of = b /\ UNCHANGED bucket
        BY <2>2, <3>1, RowGone
      <4>2. (archive[n] # b \/ b \in forgot) /\ (sidecar[n] # b \/ b \in forgot)
        BY <4>1, <2>0 DEF Deleting, Deletions
      <4> QED BY <4>2, <1>1, HistoryKept
    <3> QED BY <3>1
  <2>3. CASE Running(b)
    <3>1. ASSUME ~Running(b)' PROVE b \in forgot' \/ row'[b] # None
      <4>1. backup'[b] # backup[b] BY <2>3, <3>1 DEF Running, Started
      <4>2. ASSUME NEW c \in Backups, BackupStep(c) PROVE b \in forgot' \/ row'[b] # None
        <5>1. c = b
          BY <4>1, <4>2 DEF TypeOK, BackupStep, Upload, ExportFails, UploadFails, UploadSidecar, UploadSidecarFails, Log, LogFails, Goes
        <5>2. ~UploadSidecar(b)
          <6>1. ASSUME UploadSidecar(b) PROVE At(b, "log")' BY <6>1, GoesType DEF UploadSidecar, At
          <6> QED BY <6>1, <3>1 DEF Running, At
        <5>3. CASE Log(b)
          <6>1. row'[b] = now /\ now # None BY <5>3, CatalogShape DEF Log, TypeOK
          <6> QED BY <6>1
        <5> QED BY <4>2, <5>1, <5>2, <5>3, <2>0
             DEF BackupStep, Upload, ExportFails, UploadFails, UploadSidecarFails, LogFails
      <4>3. ASSUME NEW p \in Processes, Crash(p) PROVE b \in forgot'
        <5>1. Running(b) /\ backup[b].by = p BY <4>1, <4>3 DEF Crash, TypeOK
        <5>2. b \in {archive[Name(b)], sidecar[Name(b)]} BY <1>1, <2>0
        <5> QED BY <4>3, <5>1, <5>2 DEF Crash
      <4>4. ASSUME NEW c \in Backups, NEW p \in Processes, NEW kind, NEW encrypted, NEW byCron,
                   Start(c, p, kind, encrypted, byCron)
            PROVE  FALSE
        BY <4>1, <4>4, <2>0 DEF Start, TypeOK
      <4> QED BY <4>1, <4>2, <4>3, <4>4
           DEF Next, Tick, CallStep, DeleteArchive, DeleteSidecar, DeleteRow, Delete, CronStep, CronList, CronRemove, CronBackup, Request, vars
    <3> QED BY <3>1
  <2> QED BY <1>1, <2>1, <2>2, <2>3 DEF NothingForgotten
<1>2. CASE Upload(b)
  <2>1. Running(b)' BY <1>2, UploadGoes DEF Running
  <2> QED BY <2>1
<1>3. CASE UploadFails(b, TRUE)
  <2>1. CASE AfterFailure(b) = "ended" BY <1>3, <2>1 DEF UploadFails
  <2>2. CASE AfterFailure(b) = "log"
    <3>1. At(b, "log")' BY <1>3, <2>2, <1>0, GoesType DEF UploadFails
    <3> QED BY <3>1 DEF At, Running
  <2> QED BY <2>1, <2>2 DEF AfterFailure
<1>4. CASE UploadSidecar(b)
  <2>1. At(b, "log")' BY <1>4, <1>0, GoesType DEF UploadSidecar
  <2> QED BY <2>1 DEF At, Running
<1> QED BY <1>1, <1>2, <1>3, <1>4, ArchiveSource, SidecarSource

\* While a backup of a name of its own is offered, only its own progress touches its objects.
LEMMA RestorableStep ==
  ASSUME TypeOK, Owned, Shaped, Logged, Deletions, Cleanups, Restorable, [Next]_vars
  PROVE  Restorable'
<1> DEFINE Offered(b) == row[b] # None /\ b \notin asked /\ ~PastRetention(b)
<1> SUFFICES ASSUME NEW b \in Backups, Started(b)', backup'[b].stored, Alone(b)',
                    At(b, "sidecar")' \/ At(b, "log")' \/ Offered(b)'
             PROVE  Complete(b)'
    BY DEF Restorable
<1> USE NoneIsNoBackup
<1>1. Started(b) BY Begun
<1>2. Continued(b) /\ Name(b) \in Names BY <1>1, BackupContinued, MakingKept
<1>3. ASSUME NEW c \in Backups, Started(c), Name(c) = Name(b) PROVE c = b
  <2>1. Continued(c) BY <1>3, BackupContinued
  <2> QED BY <1>2, <1>3, <2>1 DEF Continued, Alone
<1>4. Alone(b) BY <1>3 DEF Alone
<1>5. CASE Upload(b)
  <2>1. archive'[Name(b)] = b /\ UNCHANGED sidecar BY <1>2, <1>5 DEF Upload, TypeOK
  <2>2. sidecar[Name(b)] = None
    <3>1. sidecar[Name(b)] # b BY <1>2, <1>5 DEF Owned, Upload, At
    <3>2. ASSUME NEW c \in Backups, sidecar[Name(b)] = c PROVE FALSE
      <4>1. Started(c) /\ Name(c) = Name(b) BY <1>2, <3>2 DEF Owned, At
      <4> QED BY <4>1, <3>1, <3>2, <1>3
    <3> QED BY <1>2, <3>2 DEF TypeOK
  <2>3. backup'[b].encrypted => At(b, "sidecar")'
    BY <1>2, <1>5, UploadGoes DEF Continued, At
  <2> QED BY <1>2, <2>1, <2>2, <2>3 DEF Complete, Continued
<1>6. CASE ~Upload(b)
  <2>1. backup[b].stored /\ ~At(b, "export") BY <1>1, <1>2, <1>6 DEF Continued, Shaped
  <2>2. At(b, "sidecar") \/ At(b, "log") \/ (At(b, "ended") /\ Offered(b))
    <3>1. CASE Offered(b)'
      <4>1. CASE row'[b] = row[b]
        <5>1. now' \in Nat /\ now \in Nat /\ now <= now' BY HistoryKept
        <5>2. row[b] # None /\ row[b] \in Nat /\ Retention \in Nat BY <3>1, <4>1, CatalogShape DEF TypeOK
        <5>3. ~PastRetention(b) BY <3>1, <4>1, <5>1, <5>2 DEF PastRetention
        <5>4. b \notin asked BY <3>1, HistoryKept
        <5> QED BY <5>2, <5>3, <5>4 DEF Logged
      <4>2. CASE Log(b) BY <4>2 DEF Log
      <4> QED BY <3>1, <4>1, <4>2, RowSource
    <3>2. CASE At(b, "sidecar")' \/ At(b, "log")'
      <4>1. ~At(b, "ended") BY <3>2, <1>2 DEF Continued, At
      <4>2. backup[b] \in Making BY <1>1, MakingKept
      <4> QED BY <4>1, <4>2, <1>1, <2>1 DEF At, Making
    <3> QED BY <3>1, <3>2
  <2>3. Complete(b) BY <1>1, <1>4, <2>1, <2>2 DEF Restorable
  <2>4. ASSUME NEW q \in Calls, call[q] # None, Target(q) = Name(b) PROVE FALSE
    <3>1. call[q].of \in Backups /\ At(call[q].of, "ended") /\ (call[q].of \in asked \/ row[call[q].of] = None)
      BY <2>4, DeletionKept DEF Deletions
    <3>2. call[q].of = b BY <3>1, <2>4, <1>3 DEF Target, At
    <3> QED BY <3>1, <3>2, <2>2 DEF At
  <2>5. ASSUME NEW p \in Processes, NEW c \in cron[p], Name(c) = Name(b) PROVE FALSE
    <3>1. c \in Backups /\ At(c, "ended") /\ (row[c] = None \/ PastRetention(c))
      BY <2>5 DEF Cleanups, TypeOK
    <3>2. c = b BY <3>1, <2>5, <1>3 DEF At
    <3> QED BY <3>1, <3>2, <2>2 DEF At
  <2>6. archive'[Name(b)] = b
    <3>1. archive[Name(b)] = b BY <2>3 DEF Complete
    <3>2. ASSUME NEW c \in Backups, Name(c) = Name(b), Upload(c) \/ UploadFails(c, TRUE) PROVE FALSE
      <4>1. At(c, "export") BY <3>2 DEF Upload, UploadFails
      <4>2. c = b BY <4>1, <3>2, <1>3 DEF At
      <4> QED BY <4>1, <4>2, <2>1
    <3> QED BY <1>2, <2>4, <2>5, <3>1, <3>2, ArchiveGone DEF Deleting
  <2>7. sidecar'[Name(b)] = IF backup[b].encrypted /\ ~At(b, "sidecar")' THEN b ELSE None
    <3>1. sidecar[Name(b)] = IF backup[b].encrypted /\ ~At(b, "sidecar") THEN b ELSE None BY <2>3 DEF Complete
    <3>2. CASE UploadSidecar(b)
      <4>1. backup[b].encrypted BY <1>1, <3>2 DEF UploadSidecar, Shaped
      <4>2. sidecar'[Name(b)] = b BY <1>2, <3>2 DEF UploadSidecar, TypeOK
      <4>3. At(b, "log")' BY <1>1, <3>2, GoesType DEF UploadSidecar
      <4> QED BY <4>1, <4>2, <4>3 DEF At
    <3>3. CASE ~UploadSidecar(b)
      <4>1. ASSUME NEW c \in Backups, Name(c) = Name(b), UploadSidecar(c) PROVE FALSE
        <5>1. c = b BY <4>1, <1>3 DEF UploadSidecar, At
        <5> QED BY <4>1, <5>1, <3>3
      <4>2. sidecar'[Name(b)] = sidecar[Name(b)]
        BY <1>2, <2>4, <4>1, SidecarGone DEF Deleting
      <4>3. At(b, "sidecar") => At(b, "sidecar")'
        <5>1. ASSUME At(b, "sidecar"), ~At(b, "sidecar")' PROVE FALSE
          <6>1. At(b, "ended")' BY <1>2, <3>3, <5>1 DEF Continued, At
          <6>2. row'[b] # None BY <6>1 DEF At
          <6>3. row[b] = None /\ ~Log(b) BY <5>1 DEF Logged, Log, At
          <6> QED BY <6>2, <6>3, RowSource
        <5> QED BY <5>1
      <4>4. At(b, "sidecar")' => At(b, "sidecar") BY <1>2, <1>6 DEF Continued, At
      <4> QED BY <3>1, <4>2, <4>3, <4>4
    <3> QED BY <3>2, <3>3
  <2> QED BY <1>2, <2>6, <2>7 DEF Complete, Continued
<1> QED BY <1>5, <1>6
-----------------------------------------------------------------------------
(* The theorems. *)

\* The strengthened invariant holds in the first state.
LEMMA InitIInv == Init => IInv
<1> SUFFICES ASSUME Init PROVE IInv OBVIOUS
<1> USE NoneIsNoBackup
<1>1. TypeOK BY CatalogShape DEF Init, TypeOK
<1>2. \A b \in Backups : ~Started(b) BY DEF Init, Started
<1>3. Owned /\ NothingForgotten BY DEF Init, Owned, NothingForgotten
<1>4. Shaped /\ Restorable BY <1>2 DEF Shaped, Restorable
<1>5. Logged /\ Deletions /\ Cleanups BY DEF Init, Logged, Deletions, Cleanups
<1> QED BY <1>1, <1>3, <1>4, <1>5 DEF IInv

\* Every step keeps it.
LEMMA StepIInv == IInv /\ [Next]_vars => IInv'
BY TypeStep, OwnedStep, ShapedStep, LoggedStep, DeletionsStep, CleanupsStep, NothingForgottenStep, RestorableStep DEF IInv

\* It says that what the list offers can be restored.
LEMMA IInvListed == IInv => ListedIsRestorable
<1> SUFFICES ASSUME IInv, NEW b \in Backups, Kept(b)
             PROVE  /\ archive[Name(b)] = b
                    /\ sidecar[Name(b)] = IF backup[b].encrypted THEN b ELSE None
    BY DEF ListedIsRestorable
<1>1. At(b, "ended") BY DEF IInv, Kept, Logged
<1>2. Complete(b) BY <1>1 DEF IInv, Kept, Restorable, At
<1> QED BY <1>1, <1>2 DEF Complete, At

\* It is invariant.
LEMMA Invariance == Spec => []IInv
BY InitIInv, StepIInv, PTL DEF Spec

\* Type correctness of the catalog of backups.
THEOREM CatalogTypes == Spec => []TypeOK
<1>1. IInv => TypeOK BY DEF IInv
<1> QED BY <1>1, Invariance, PTL

\* What the list offers can be restored, whatever other backups, deletions, cleanups,
\* failures and deaths went on (backup.service.ts, backup.controller.ts).
THEOREM ListedIsRestorableHolds == Spec => []ListedIsRestorable
BY IInvListed, Invariance, PTL

\* Nothing stays in the bucket without a row, but for what a failure or a death left there.
THEOREM NothingForgottenHolds == Spec => []NothingForgotten
<1>1. IInv => NothingForgotten BY DEF IInv
<1> QED BY <1>1, Invariance, PTL

-----------------------------------------------------------------------------
(* What a job becomes is a job. *)
LEMMA NewJobs ==
  /\ NoTx \in Tx /\ NewRun \in Run
  /\ \A p \in 1 .. 5 : TxOf(p) \in Tx /\ TodoOf(p) \in SUBSET Rows
  /\ RowsOf(1) \in SUBSET Rows
<1>1. NoTx \in Tx
  BY DEF NoTx, Tx
<1>2. [r \in Rows |-> "none"] \in [Rows -> {"none", "real", "placeholder"}]
  OBVIOUS
<1>3. NewRun \in Run
  <2> PICK id : id = [r \in Rows |-> "none"]
    OBVIOUS
  <2>1. id \in [Rows -> {"none", "real", "placeholder"}]
    BY <1>2
  <2>2. NewRun = [state |-> "new", dry |-> FALSE, intact |-> TRUE, stalled |-> FALSE, phase |-> 1, todo |-> {}, tx |-> NoTx,
                  id |-> id, created |-> {}, skipped |-> {}, files |-> {}, outcome |-> "none"]
    BY DEF NewRun
  <2> QED BY <1>1, <2>1, <2>2 DEF Run
<1>4. ASSUME NEW p \in 1 .. 5 PROVE TxOf(p) \in Tx
  <2> PICK b \in BOOLEAN : b <=> (p = 2 /\ ~imports)
    OBVIOUS
  <2>1. TxOf(p) = [NoTx EXCEPT !.imports = b]
    BY DEF TxOf
  <2> QED BY <1>1, <2>1 DEF Tx
<1>5. ASSUME NEW p \in 1 .. 5 PROVE TodoOf(p) \in SUBSET Rows
  BY Archive DEF TodoOf, RowsOf
<1> QED BY <1>1, <1>3, <1>4, <1>5 DEF RowsOf

\* Fields of a job.
Ids == [Rows -> {"none", "real", "placeholder"}]

\* A job that has skipped a row, stood in for it or created it.
SkipRow(k, r) == [k EXCEPT !.todo = @ \ {r}, !.id[r] = "real", !.skipped = @ \cup {r}]
StandIn(k, r) == [k EXCEPT !.todo = @ \ {r}, !.id[r] = "placeholder", !.created = @ \cup {r}]
CreateRow(k, r) == [k EXCEPT !.todo = @ \ {r}, !.id[r] = "real", !.created = @ \cup {r}, !.tx.rows = @ \cup {r}]

(* A row that is skipped, stood in for or created. *)
LEMMA RowPut ==
  ASSUME NEW k \in Run, NEW r \in Rows
  PROVE  /\ SkipRow(k, r) \in Run
         /\ StandIn(k, r) \in Run
         /\ CreateRow(k, r) \in Run
<1> PICK todo, real, placeholder, created, skipped, tx :
           /\ todo = k.todo \ {r} /\ created = k.created \cup {r} /\ skipped = k.skipped \cup {r}
           /\ real = [k.id EXCEPT ![r] = "real"] /\ placeholder = [k.id EXCEPT ![r] = "placeholder"]
           /\ tx = [k.tx EXCEPT !.rows = @ \cup {r}]
  OBVIOUS
<1>1. k.tx \in Tx /\ k.id \in Ids
  BY DEF Run, Ids
<1>2. tx \in Tx
  BY <1>1 DEF Tx
<1>3. real \in Ids /\ placeholder \in Ids
  BY <1>1 DEF Ids
<1>4. todo \in SUBSET Rows /\ created \in SUBSET Rows /\ skipped \in SUBSET Rows
  BY DEF Run
<1>5. [k EXCEPT !.todo = todo, !.id = real, !.skipped = skipped] \in Run
  BY <1>3, <1>4 DEF Run, Ids
<1>6. [k EXCEPT !.todo = todo, !.id = placeholder, !.created = created] \in Run
  BY <1>3, <1>4 DEF Run, Ids
<1>7. [k EXCEPT !.todo = todo, !.id = real, !.created = created, !.tx = tx] \in Run
  BY <1>2, <1>3, <1>4 DEF Run, Ids
<1> QED BY <1>5, <1>6, <1>7 DEF SkipRow, StandIn, CreateRow

\* A job in its next phase, that has committed the last one, or that has ended.
NextPhase(k, p, tx, todo) == [k EXCEPT !.phase = p, !.tx = tx, !.todo = todo]
Uploading(k) == [k EXCEPT !.state = "uploading", !.tx = NoTx, !.files = Files]
JobEnded(k, o) == [k EXCEPT !.state = "done", !.outcome = o, !.tx = NoTx]

(* A job that goes on, ends, uploads or is run again. *)
LEMMA JobPut ==
  ASSUME NEW k \in Run
  PROVE  /\ \A dry, intact \in BOOLEAN : [k EXCEPT !.state = "queued", !.dry = dry, !.intact = intact] \in Run
         /\ \A todo \in SUBSET Rows : [k EXCEPT !.state = "applying", !.todo = todo] \in Run
         /\ [k EXCEPT !.state = "done", !.outcome = "refused"] \in Run
         /\ \A o \in {"applied", "report", "failed"} : JobEnded(k, o) \in Run
         /\ \A p \in 1 .. 5, todo \in SUBSET Rows, tx \in Tx : NextPhase(k, p, tx, todo) \in Run
         /\ \A todo \in SUBSET Rows, tx \in Tx : [k EXCEPT !.todo = todo, !.tx = tx] \in Run
         /\ Uploading(k) \in Run
         /\ \A files \in SUBSET Files : [k EXCEPT !.files = files] \in Run
<1> PICK none \in Tx : none = NoTx
  BY NewJobs
<1> QED BY DEF Run, NextPhase, Uploading, JobEnded

(* A bound that is used is in its range. *)
LEMMA FaultUsed ==
  ASSUME RestoreTypeOK, RestoreFault
  PROVE  used' \in [faults : 0 .. MaxRestoreFaults, crashes : 0 .. MaxCrashes] /\ used'.faults = used.faults + 1
<1>1. used.faults \in 0 .. MaxRestoreFaults /\ MaxRestoreFaults \in Nat
  BY Archive DEF RestoreTypeOK
<1>2. used.faults + 1 \in 0 .. MaxRestoreFaults
  BY <1>1 DEF RestoreFault
<1> QED BY <1>2 DEF RestoreTypeOK, RestoreFault


(* Each row of a phase is skipped, stood in for, or created, or the job ends. *)
LEMMA UpsertGoes ==
  ASSUME RestoreTypeOK, NEW n \in Runs, NEW r \in Rows, Upsert(n, r)
  PROVE  \E k \in Run :
           /\ run' = [run EXCEPT ![n] = k]
           /\ \/ /\ flag' = flag /\ Exists(n, r) /\ (Parent[r] # NoRow => run[n].id[Parent[r]] = "real")
                 /\ k = SkipRow(run[n], r)
              \/ /\ flag' = flag /\ ~(Exists(n, r) /\ (Parent[r] # NoRow => run[n].id[Parent[r]] = "real")) /\ flag
                 /\ k = StandIn(run[n], r)
              \/ /\ flag' = flag /\ ~Exists(n, r) /\ ~flag /\ (Parent[r] # NoRow => run[n].id[Parent[r]] = "real")
                 /\ k = CreateRow(run[n], r)
              \/ k = JobEnded(run[n], "failed")
<1>0. run[n] \in Run /\ run \in [Runs -> Run]
  BY DEF RestoreTypeOK
<1> DEFINE parentOK == Parent[r] # NoRow => run[n].id[Parent[r]] = "real"
           k1 == SkipRow(run[n], r)
           k2 == StandIn(run[n], r)
           k3 == CreateRow(run[n], r)
           k4 == JobEnded(run[n], "failed")
<1>1. k1 \in Run /\ k2 \in Run /\ k3 \in Run /\ k4 \in Run
  BY <1>0, RowPut, JobPut
<1>2. \/ run' = [run EXCEPT ![n] = k1] /\ flag' = flag /\ Exists(n, r) /\ parentOK
      \/ run' = [run EXCEPT ![n] = k2] /\ flag' = flag /\ ~(Exists(n, r) /\ parentOK) /\ flag
      \/ run' = [run EXCEPT ![n] = k3] /\ flag' = flag /\ ~Exists(n, r) /\ ~flag /\ parentOK
      \/ run' = [run EXCEPT ![n] = k4]
  BY <1>0 DEF Upsert, PlaceholderMode, End, JobEnded, SkipRow, StandIn, CreateRow
<1> QED BY <1>1, <1>2

(* How the other steps of a job change it. *)
LEMMA JobGoes ==
  ASSUME RestoreTypeOK, NEW n \in Runs
  PROVE  /\ RequestRestore(n) =>
              \E dry, intact \in BOOLEAN :
                run' = [run EXCEPT ![n] = [run[n] EXCEPT !.state = "queued", !.dry = dry, !.intact = intact]]
         /\ Begin(n) =>
              \/ run' = [run EXCEPT ![n] = [run[n] EXCEPT !.state = "applying", !.todo = RowsOf(1)]] /\ flag' = run[n].dry
              \/ run' = [run EXCEPT ![n] = [run[n] EXCEPT !.state = "done", !.outcome = "refused"]] /\ flag' = flag
         /\ \A s \in Snapshotted : UpsertSnapshot(n, s) =>
              \/ /\ flag' = flag
                 /\ \E tx \in Tx : /\ tx.rows = run[n].tx.rows
                                   /\ run' = [run EXCEPT ![n] = [run[n] EXCEPT !.todo = @ \ {s}, !.tx = tx]]
              \/ run' = [run EXCEPT ![n] = JobEnded(run[n], "failed")]
         /\ Rollback(n) => run' = [run EXCEPT ![n] = JobEnded(run[n], "failed")]
         /\ \A f \in Files : PutObject(n, f) => run' = [run EXCEPT ![n] = [run[n] EXCEPT !.files = @ \ {f}]]
         /\ Finish(n) => run' = [run EXCEPT ![n] = JobEnded(run[n], "applied")]
<1>0. run[n] \in Run /\ run \in [Runs -> Run] /\ run[n].tx \in Tx /\ run[n].phase \in 1 .. 5
  BY DEF RestoreTypeOK, Run
<1>1. ASSUME RequestRestore(n)
      PROVE  \E dry, intact \in BOOLEAN :
               run' = [run EXCEPT ![n] = [run[n] EXCEPT !.state = "queued", !.dry = dry, !.intact = intact]]
  <2>1. PICK dry \in BOOLEAN, intact \in BOOLEAN : run' = [run EXCEPT ![n].state = "queued", ![n].dry = dry, ![n].intact = intact]
    BY <1>1 DEF RequestRestore
  <2>2. run' = [run EXCEPT ![n] = [run[n] EXCEPT !.state = "queued", !.dry = dry, !.intact = intact]]
    BY <1>0, <2>1
  <2> QED BY <2>2
<1>2. ASSUME Begin(n)
      PROVE  \/ run' = [run EXCEPT ![n] = [run[n] EXCEPT !.state = "applying", !.todo = RowsOf(1)]] /\ flag' = run[n].dry
             \/ run' = [run EXCEPT ![n] = [run[n] EXCEPT !.state = "done", !.outcome = "refused"]] /\ flag' = flag
  BY <1>0, <1>2 DEF Begin
<1>3. ASSUME NEW s \in Snapshotted, UpsertSnapshot(n, s)
      PROVE  \/ /\ flag' = flag
                /\ \E tx \in Tx : /\ tx.rows = run[n].tx.rows
                                  /\ run' = [run EXCEPT ![n] = [run[n] EXCEPT !.todo = @ \ {s}, !.tx = tx]]
             \/ run' = [run EXCEPT ![n] = JobEnded(run[n], "failed")]
  <2> DEFINE tx == [run[n].tx EXCEPT !.snaps = @ \cup {s}]
  <2>1. tx \in Tx /\ tx.rows = run[n].tx.rows
    BY <1>0, Archive DEF Tx
  <2>2. \/ flag' = flag /\ run' = [run EXCEPT ![n] = [run[n] EXCEPT !.todo = @ \ {s}, !.tx = tx]]
        \/ run' = [run EXCEPT ![n] = JobEnded(run[n], "failed")]
    <3>1. CASE run' = [run EXCEPT ![n].todo = @ \ {s}, ![n].tx.snaps = @ \cup {s}] /\ flag' = flag
      <4>1. run' = [run EXCEPT ![n] = [run[n] EXCEPT !.todo = @ \ {s}, !.tx = tx]]
        BY <1>0, <3>1
      <4> QED BY <3>1, <4>1
    <3>2. CASE End(n, "failed")
      <4>1. run' = [run EXCEPT ![n] = JobEnded(run[n], "failed")]
        BY <1>0, <3>2 DEF End, JobEnded
      <4> QED BY <4>1
    <3> QED BY <1>3, <3>1, <3>2 DEF UpsertSnapshot
  <2> HIDE DEF tx
  <2> QED BY <2>1, <2>2
<1>5. Rollback(n) => run' = [run EXCEPT ![n] = JobEnded(run[n], "failed")]
  BY <1>0 DEF Rollback, End, JobEnded
<1>6. \A f \in Files : PutObject(n, f) => run' = [run EXCEPT ![n] = [run[n] EXCEPT !.files = @ \ {f}]]
  BY <1>0 DEF PutObject
<1>7. Finish(n) => run' = [run EXCEPT ![n] = JobEnded(run[n], "applied")]
  BY <1>0 DEF Finish, End, JobEnded
<1> QED BY <1>1, <1>2, <1>3, <1>5, <1>6, <1>7

(* A phase commits and the next begins, or it was the last. *)
LEMMA CommitGoes ==
  ASSUME RestoreTypeOK, NEW n \in Runs, Commit(n)
  PROVE  \/ /\ flag' = flag /\ run[n].phase < 5
            /\ \E tx \in Tx : 
                 /\ tx.rows = {}
                 /\ run' = [run EXCEPT ![n] = NextPhase(run[n], run[n].phase + 1, tx, TodoOf(run[n].phase + 1))]
         \/ /\ flag' = flag /\ run[n].phase = 5 /\ ~run[n].dry
            /\ run' = [run EXCEPT ![n] = Uploading(run[n])]
         \/ /\ run[n].phase = 5 /\ run[n].dry
            /\ run' = [run EXCEPT ![n] = JobEnded(run[n], "report")]
<1>0. run[n] \in Run /\ run \in [Runs -> Run] /\ run[n].phase \in 1 .. 5
  BY DEF RestoreTypeOK, Run
<1> PICK p, tx, todo : p = run[n].phase /\ tx = TxOf(p + 1) /\ todo = TodoOf(p + 1)
  OBVIOUS
<1>1. p < 5 => tx \in Tx /\ tx.rows = {}
  BY <1>0, NewJobs DEF TxOf, NoTx
<1>2. \/ flag' = flag /\ p < 5 /\ run' = [run EXCEPT ![n] = NextPhase(run[n], p + 1, tx, todo)]
      \/ /\ flag' = flag /\ p = 5 /\ ~run[n].dry
         /\ run' = [run EXCEPT ![n] = Uploading(run[n])]
      \/ /\ p = 5 /\ run[n].dry
         /\ run' = [run EXCEPT ![n] = JobEnded(run[n], "report")]
  BY <1>0 DEF Commit, End, LastPhase, NextPhase, Uploading, JobEnded
<1> QED BY <1>1, <1>2

(* What a step leaves alone. *)
LEMMA Frames ==
  ASSUME NEW n \in Runs
  PROVE  /\ RequestRestore(n) => UNCHANGED <<live, snapshot, imports, stored, flag, used>>
         /\ Begin(n) => UNCHANGED <<live, snapshot, imports, stored, used>>
         /\ Commit(n) => UNCHANGED <<stored, used>>
         /\ Rollback(n) => UNCHANGED <<live, snapshot, imports, stored>> /\ RestoreFault /\ flag' = FALSE
         /\ Finish(n) => UNCHANGED <<live, snapshot, imports, stored, used>> /\ flag' = FALSE
         /\ \A r \in Rows : Upsert(n, r) => UNCHANGED <<live, snapshot, imports, stored, used>>
         /\ \A s \in Snapshotted : UpsertSnapshot(n, s) => UNCHANGED <<live, snapshot, imports, stored, used>>
         /\ \A f \in Files : PutObject(n, f) => /\ UNCHANGED <<live, snapshot, imports, flag>>
                                               /\ \/ stored' = stored \cup {f} /\ used' = used
                                                  \/ stored' = stored /\ RestoreFault
<1>1. RequestRestore(n) => UNCHANGED <<live, snapshot, imports, stored, flag, used>>
  BY DEF RequestRestore
<1>2. Begin(n) => UNCHANGED <<live, snapshot, imports, stored, used>>
  BY DEF Begin
<1>3. Commit(n) => UNCHANGED <<stored, used>>
  BY DEF Commit
<1>4. Rollback(n) => UNCHANGED <<live, snapshot, imports, stored>> /\ RestoreFault /\ flag' = FALSE
  BY DEF Rollback, End
<1>5. Finish(n) => UNCHANGED <<live, snapshot, imports, stored, used>> /\ flag' = FALSE
  BY DEF Finish, End
<1>6. \A r \in Rows : Upsert(n, r) => UNCHANGED <<live, snapshot, imports, stored, used>>
  BY DEF Upsert
<1>7. \A s \in Snapshotted : UpsertSnapshot(n, s) => UNCHANGED <<live, snapshot, imports, stored, used>>
  BY DEF UpsertSnapshot
<1>8. \A f \in Files : PutObject(n, f) => /\ UNCHANGED <<live, snapshot, imports, flag>>
                                         /\ \/ stored' = stored \cup {f} /\ used' = used
                                            \/ stored' = stored /\ RestoreFault
  BY DEF PutObject
<1> QED BY <1>1, <1>2, <1>3, <1>4, <1>5, <1>6, <1>7, <1>8

\* A job nobody has begun has done nothing.
Fresh(k) ==
  k.state \in {"new", "queued"} => /\ k.phase = 1 /\ k.tx.rows = {} /\ k.created = {} /\ k.skipped = {}
                                   /\ \A r \in Rows : k.id[r] = "none"

(* A stalled job is run again from the start, once. *)
LEMMA RunAgain ==
  ASSUME RestoreTypeOK, RestoreCrash, NEW n \in Runs
  PROVE  /\ run'[n] \in Run
         /\ run'[n].state \notin {"applying", "uploading"}
         /\ run'[n] = run[n] \/ run'[n].outcome \in {"none", "failed"}
         /\ Fresh(run[n]) => Fresh(run'[n])
<1>0. run[n] \in Run /\ NewRun \in Run
  BY NewJobs DEF RestoreTypeOK
<1>1. run'[n] = IF n \notin Restoring THEN run[n]
                ELSE IF run[n].stalled THEN JobEnded(run[n], "failed")
                ELSE [NewRun EXCEPT !.state = "queued", !.dry = run[n].dry, !.intact = run[n].intact, !.stalled = TRUE]
  BY DEF RestoreCrash, JobEnded
<1>2. CASE n \notin Restoring
  BY <1>0, <1>1, <1>2 DEF Restoring
<1>3. CASE n \in Restoring /\ run[n].stalled
  <2>1. run'[n] = JobEnded(run[n], "failed")
    BY <1>1, <1>3
  <2>2. run'[n] \in Run
    BY <1>0, <2>1, JobPut
  <2>3. run'[n].state = "done" /\ run'[n].outcome = "failed"
    BY <1>0, <2>1 DEF Run, JobEnded
  <2> QED BY <2>2, <2>3 DEF Fresh
<1>4. CASE n \in Restoring /\ ~run[n].stalled
  <2> PICK k \in Run, dry \in BOOLEAN, intact \in BOOLEAN : k = NewRun /\ dry = run[n].dry /\ intact = run[n].intact
    BY <1>0 DEF Run
  <2>1. run'[n] = [k EXCEPT !.state = "queued", !.dry = dry, !.intact = intact, !.stalled = TRUE]
    BY <1>1, <1>4
  <2>2. run'[n] \in Run /\ run'[n].state = "queued" /\ run'[n].outcome = k.outcome
    BY <2>1 DEF Run
  <2>3. /\ k.outcome = "none" /\ k.phase = 1 /\ k.tx.rows = {} /\ k.created = {} /\ k.skipped = {}
        /\ \A r \in Rows : k.id[r] = "none"
    BY DEF NewRun, NoTx
  <2>4. /\ run'[n].phase = k.phase /\ run'[n].tx = k.tx /\ run'[n].created = k.created /\ run'[n].skipped = k.skipped
        /\ run'[n].id = k.id
    BY <2>1 DEF Run
  <2> QED BY <2>2, <2>3, <2>4 DEF Fresh
<1> QED BY <1>2, <1>3, <1>4

(* Every step keeps the types. *)
LEMMA RestoreTypeStep == ASSUME RestoreTypeOK, RestoreNext PROVE RestoreTypeOK'
<1>1. run' \in [Runs -> Run]
  <2>0. run \in [Runs -> Run]
    BY DEF RestoreTypeOK
  <2>1. ASSUME NEW n \in Runs, NEW k \in Run, run' = [run EXCEPT ![n] = k]
        PROVE  run' \in [Runs -> Run]
    BY <2>0, <2>1
  <2>2. ASSUME NEW n \in Runs, NEW r \in Rows, Upsert(n, r)
        PROVE  run' \in [Runs -> Run]
    BY <2>1, <2>2, UpsertGoes
  <2>3. ASSUME NEW n \in Runs, \/ RequestRestore(n) \/ Begin(n) \/ Commit(n) \/ Rollback(n) \/ Finish(n)
                               \/ \E s \in Snapshotted : UpsertSnapshot(n, s)
                               \/ \E f \in Files : PutObject(n, f)
        PROVE  run' \in [Runs -> Run]
    <3>0. run[n] \in Run /\ run[n].phase \in 1 .. 5 /\ run[n].todo \in SUBSET Rows /\ run[n].files \in SUBSET Files
      BY <2>0 DEF Run
    <3> DEFINE k == run'[n]
    <3>1. CASE RequestRestore(n)
      BY <2>1, <3>0, <3>1, JobGoes, JobPut
    <3>2. CASE Begin(n)
      BY <2>1, <3>0, <3>2, JobGoes, JobPut, NewJobs
    <3>3. CASE Commit(n)
      <4>1. run[n].phase < 5 => run[n].phase + 1 \in 1 .. 5 /\ TodoOf(run[n].phase + 1) \in SUBSET Rows
        BY <3>0, NewJobs
      <4>2. CASE run[n].phase < 5
        <5>1. PICK tx \in Tx : run' = [run EXCEPT ![n] = NextPhase(run[n], run[n].phase + 1, tx, TodoOf(run[n].phase + 1))]
          BY <3>0, <3>3, <4>2, CommitGoes
        <5> PICK p \in 1 .. 5, todo \in SUBSET Rows : p = run[n].phase + 1 /\ todo = TodoOf(run[n].phase + 1)
          BY <4>1, <4>2
        <5>2. NextPhase(run[n], p, tx, todo) \in Run
          BY <3>0, JobPut
        <5> QED BY <2>1, <5>1, <5>2
      <4>3. CASE run[n].phase = 5
        <5>1. \/ run' = [run EXCEPT ![n] = Uploading(run[n])]
              \/ run' = [run EXCEPT ![n] = JobEnded(run[n], "report")]
          BY <3>0, <3>3, <4>3, CommitGoes
        <5>2. /\ Uploading(run[n]) \in Run
              /\ JobEnded(run[n], "report") \in Run
          BY <3>0, JobPut
        <5> QED BY <2>1, <5>1, <5>2
      <4> QED BY <3>0, <4>2, <4>3
    <3>4. CASE Rollback(n) \/ Finish(n)
      BY <2>1, <3>0, <3>4, JobGoes, JobPut
    <3>5. ASSUME NEW s \in Snapshotted, UpsertSnapshot(n, s)
          PROVE  run' \in [Runs -> Run]
      <4>1. run[n].todo \ {s} \in SUBSET Rows
        BY <3>0
      <4> QED BY <2>1, <3>0, <3>5, <4>1, JobGoes, JobPut
    <3>6. ASSUME NEW f \in Files, PutObject(n, f)
          PROVE  run' \in [Runs -> Run]
      <4>1. run[n].files \ {f} \in SUBSET Files
        BY <3>0
      <4> QED BY <2>1, <3>0, <3>6, <4>1, JobGoes, JobPut
    <3> QED BY <2>3, <3>1, <3>2, <3>3, <3>4, <3>5, <3>6
  <2>4. CASE RestoreCrash
    <3>1. \A n \in Runs : run'[n] \in Run
      BY <2>4, RunAgain
    <3>2. DOMAIN run' = Runs /\ run' = [n \in Runs |-> run'[n]]
      BY <2>4 DEF RestoreCrash
    <3> QED BY <3>1, <3>2
  <2> QED BY <2>2, <2>3, <2>4 DEF RestoreNext
<1>2. live' \in [Rows -> Nat] /\ snapshot' \in [Snapshotted -> {"none", "live", "archived"}] /\ imports' \in BOOLEAN
  <2>1. ASSUME NEW n \in Runs, Commit(n)
        PROVE  live' \in [Rows -> Nat] /\ snapshot' \in [Snapshotted -> {"none", "live", "archived"}] /\ imports' \in BOOLEAN
    <3>1. run[n] \in Run /\ run[n].tx \in Tx /\ run[n].tx.imports \in BOOLEAN
      BY DEF RestoreTypeOK, Run, Tx
    <3>2. live' \in [Rows -> Nat]
      BY <2>1 DEF Commit, RestoreTypeOK
    <3>3. snapshot' \in [Snapshotted -> {"none", "live", "archived"}]
      BY <2>1 DEF Commit, RestoreTypeOK
    <3>4. imports' \in BOOLEAN
      BY <2>1, <3>1 DEF Commit, RestoreTypeOK
    <3> QED BY <3>2, <3>3, <3>4
  <2>2. CASE UNCHANGED <<live, snapshot, imports>>
    BY <2>2 DEF RestoreTypeOK
  <2>3. CASE ~\E n \in Runs : Commit(n)
    <3>1. UNCHANGED <<live, snapshot, imports>>
      BY <2>3, Frames DEF RestoreNext, RestoreCrash
    <3> QED BY <2>2, <3>1
  <2> QED BY <2>1, <2>3
<1>3. stored' \in SUBSET Files
  <2>1. stored' = stored \/ \E f \in Files : stored' = stored \cup {f}
    BY Frames DEF RestoreNext, RestoreCrash
  <2> QED BY <2>1 DEF RestoreTypeOK
<1>4. flag' \in BOOLEAN
  <2>1. ASSUME NEW n \in Runs, Begin(n)
        PROVE  flag' \in BOOLEAN
    BY <2>1 DEF Begin, RestoreTypeOK, Run
  <2>2. CASE ~\E n \in Runs : Begin(n)
    <3>1. flag' = flag \/ flag' = FALSE
      <4>1. ASSUME NEW n \in Runs, Commit(n)
            PROVE  flag' = flag \/ flag' = FALSE
        BY <4>1 DEF Commit, End
      <4>2. ASSUME NEW n \in Runs, NEW r \in Rows, Upsert(n, r)
            PROVE  flag' = flag \/ flag' = FALSE
        BY <4>2 DEF Upsert, End
      <4>3. ASSUME NEW n \in Runs, NEW s \in Snapshotted, UpsertSnapshot(n, s)
            PROVE  flag' = flag \/ flag' = FALSE
        BY <4>3 DEF UpsertSnapshot, End
      <4> QED BY <2>2, <4>1, <4>2, <4>3, Frames DEF RestoreNext, RestoreCrash
    <3> QED BY <3>1 DEF RestoreTypeOK
  <2> QED BY <2>1, <2>2
<1>5. used' \in [faults : 0 .. MaxRestoreFaults, crashes : 0 .. MaxCrashes]
  <2>1. CASE RestoreCrash
    <3>1. used.crashes \in 0 .. MaxCrashes /\ MaxCrashes \in Nat
      BY Archive DEF RestoreTypeOK
    <3>2. used.crashes + 1 \in 0 .. MaxCrashes
      <4>1. used.crashes < MaxCrashes
        BY <2>1 DEF RestoreCrash
      <4> QED BY <3>1, <4>1
    <3> QED BY <2>1, <3>2 DEF RestoreCrash, RestoreTypeOK
  <2>2. CASE RestoreFault
    BY <2>2, FaultUsed
  <2>3. CASE used' = used
    BY <2>3 DEF RestoreTypeOK
  <2>4. RestoreCrash \/ RestoreFault \/ used' = used
    BY Frames DEF RestoreNext
  <2> QED BY <2>1, <2>2, <2>3, <2>4
<1> QED BY <1>1, <1>2, <1>3, <1>4, <1>5 DEF RestoreTypeOK

-----------------------------------------------------------------------------
Applying(n) == run[n].state = "applying"
\* The rows a job has come to.
Done(n) == {r \in Rows : PhaseOf[r] < run[n].phase \/ (PhaseOf[r] = run[n].phase /\ r \notin run[n].todo)}

\* What a dry run has come to is skipped when it is live and reported as created
\* when it is not; nothing waits for a commit.
DryReports(n) ==
  /\ run[n].tx.rows = {}
  /\ run[n].created = {r \in Done(n) : live[r] = 0}
  /\ run[n].skipped = {r \in Done(n) : live[r] > 0}
  /\ \A r \in Done(n) : run[n].id[r] = "real" <=> live[r] > 0

\* What a real run has come to is there or waits for the commit, and what waits
\* is not there yet.
RealWrites(n) ==
  /\ \A r \in Done(n) : Exists(n, r)
  /\ \A r \in Rows : run[n].id[r] = "real" => Exists(n, r)
  /\ \A r \in run[n].tx.rows : live[r] = 0 /\ (Parent[r] # NoRow => Exists(n, Parent[r]))

\* The flag is the one of the job that applies its rows.
JobInv(n) ==
  Applying(n) => /\ flag = run[n].dry
                 /\ run[n].todo \subseteq TodoOf(run[n].phase)
                 /\ IF run[n].dry THEN DryReports(n) ELSE RealWrites(n)

\* A restore that has applied its rows left all of them.
AllThere(n) ==
  run[n].state = "uploading" \/ run[n].outcome = "applied" =>
    /\ \A r \in Rows : live[r] > 0
    /\ used.faults = 0 /\ run[n].state = "uploading" => Files \ run[n].files \subseteq stored
    /\ used.faults = 0 /\ run[n].outcome = "applied" => stored = Files

\* A row is there once, and with the row it refers to.
RowsThere == \A r \in Rows : live[r] <= 1 /\ (live[r] > 0 /\ Parent[r] # NoRow => live[Parent[r]] > 0)

OneAtATime == \A n, m \in Restoring : n = m

RInv ==
  /\ RestoreTypeOK /\ OneAtATime /\ RowsThere
  /\ \A n \in Runs : Fresh(run[n]) /\ JobInv(n) /\ AllThere(n)

(* A job is begun when no other is under way. *)
LEMMA BegunAlone ==
  ASSUME Loops = 1, OneAtATime, Cardinality(Restoring) < Loops
  PROVE  Restoring = {}
<1> SUFFICES ASSUME NEW n \in Restoring PROVE FALSE
  OBVIOUS
<1>1. Restoring = {n}
  BY DEF OneAtATime
<1>2. Cardinality({n}) = 1
  BY FS_Singleton
<1>3. Cardinality(Restoring) = 1
  BY <1>1, <1>2
<1> QED BY <1>3

(* The row that is looked up next, and the one it refers to. *)
LEMMA NextRow ==
  ASSUME RInv, NEW n \in Runs, NEW r \in Rows, Upsert(n, r)
  PROVE  /\ r \notin Done(n) /\ PhaseOf[r] = run[n].phase
         /\ Parent[r] # NoRow => Parent[r] \in Done(n)
<1>1. Applying(n) /\ run[n].phase \in 1 .. 4 /\ r \in run[n].todo /\ Parent[r] \notin run[n].todo
  BY DEF Upsert, Applying, RInv, RestoreTypeOK, Run
<1>2. PhaseOf[r] = run[n].phase
  BY <1>1 DEF RInv, JobInv, TodoOf, RowsOf
<1>3. PhaseOf \in [Rows -> 1 .. 4] /\ (Parent[r] # NoRow => Parent[r] \in Rows /\ PhaseOf[Parent[r]] <= PhaseOf[r])
  BY Archive, ParentsFirst
<1> QED BY <1>1, <1>2, <1>3 DEF Done

\* The job goes on with its rows.
GoesOn(k2, k, r, kind) ==
  /\ k2.state = k.state /\ k2.dry = k.dry /\ k2.phase = k.phase /\ k2.outcome = k.outcome
  /\ k2.todo = k.todo \ {r} /\ k2.id = [k.id EXCEPT ![r] = kind]

(* What a row that is put changes in its job. *)
LEMMA RowPutFields ==
  ASSUME NEW k \in Run, NEW r \in Rows, NEW k2
  PROVE  /\ k2 = SkipRow(k, r) =>
              GoesOn(k2, k, r, "real") /\ k2.skipped = k.skipped \cup {r} /\ k2.created = k.created /\ k2.tx = k.tx
         /\ k2 = StandIn(k, r) =>
              GoesOn(k2, k, r, "placeholder") /\ k2.skipped = k.skipped /\ k2.created = k.created \cup {r} /\ k2.tx = k.tx
         /\ k2 = CreateRow(k, r) => GoesOn(k2, k, r, "real") /\ k2.tx.rows = k.tx.rows \cup {r}
<1> PICK todo, real, placeholder, created, skipped, rows, tx :
           /\ todo = k.todo \ {r} /\ created = k.created \cup {r} /\ skipped = k.skipped \cup {r}
           /\ real = [k.id EXCEPT ![r] = "real"] /\ placeholder = [k.id EXCEPT ![r] = "placeholder"]
           /\ rows = k.tx.rows \cup {r} /\ tx = [k.tx EXCEPT !.rows = rows]
  OBVIOUS
<1>1. ASSUME k2 = SkipRow(k, r)
      PROVE  GoesOn(k2, k, r, "real") /\ k2.skipped = skipped /\ k2.created = k.created /\ k2.tx = k.tx
  <2>1. k2 = [k EXCEPT !.todo = todo, !.id = real, !.skipped = skipped]
    BY <1>1 DEF SkipRow
  <2> QED BY <2>1 DEF Run, GoesOn
<1>2. ASSUME k2 = StandIn(k, r)
      PROVE  GoesOn(k2, k, r, "placeholder") /\ k2.skipped = k.skipped /\ k2.created = created /\ k2.tx = k.tx
  <2>1. k2 = [k EXCEPT !.todo = todo, !.id = placeholder, !.created = created]
    BY <1>2 DEF StandIn
  <2> QED BY <2>1 DEF Run, GoesOn
<1>3. ASSUME k2 = CreateRow(k, r)
      PROVE  GoesOn(k2, k, r, "real") /\ k2.tx.rows = rows
  <2>1. k2 = [k EXCEPT !.todo = todo, !.id = real, !.created = created, !.tx = tx]
    BY <1>3 DEF CreateRow
  <2>2. GoesOn(k2, k, r, "real") /\ k2.tx = tx
    BY <2>1 DEF Run, GoesOn
  <2>3. tx.rows = rows
    BY DEF Run, Tx
  <2> QED BY <2>2, <2>3
<1> QED BY <1>1, <1>2, <1>3

(* A row is skipped, stood in for or created. *)
LEMMA UpsertJob ==
  ASSUME RInv, RestoreTypeOK', NEW n \in Runs, NEW r \in Rows, Upsert(n, r)
  PROVE  JobInv(n)' /\ AllThere(n)' /\ Fresh(run'[n]) /\ Restoring' \subseteq Restoring
<1> PICK k \in Run :
           /\ run' = [run EXCEPT ![n] = k]
           /\ \/ /\ flag' = flag /\ Exists(n, r) /\ (Parent[r] # NoRow => run[n].id[Parent[r]] = "real")
                 /\ k = SkipRow(run[n], r)
              \/ /\ flag' = flag /\ ~(Exists(n, r) /\ (Parent[r] # NoRow => run[n].id[Parent[r]] = "real")) /\ flag
                 /\ k = StandIn(run[n], r)
              \/ /\ flag' = flag /\ ~Exists(n, r) /\ ~flag /\ (Parent[r] # NoRow => run[n].id[Parent[r]] = "real")
                 /\ k = CreateRow(run[n], r)
              \/ k = JobEnded(run[n], "failed")
  BY UpsertGoes DEF RInv
<1>0. /\ run[n] \in Run /\ run \in [Runs -> Run] /\ Applying(n) /\ r \in run[n].todo
      /\ live \in [Rows -> Nat] /\ live' = live /\ used' = used /\ stored' = stored
      /\ JobInv(n) /\ AllThere(n) /\ RowsThere
  BY Frames DEF RInv, RestoreTypeOK, Upsert, Applying
<1>1. run'[n] = k /\ \A m \in Runs \ {n} : run'[m] = run[m]
  BY <1>0
<1>2. ASSUME k.state = "done", k.outcome = "failed"
      PROVE  JobInv(n)' /\ AllThere(n)' /\ Fresh(run'[n]) /\ Restoring' \subseteq Restoring
  BY <1>1, <1>2 DEF JobInv, Applying, AllThere, Fresh, Restoring
<1>3. CASE k = JobEnded(run[n], "failed")
  <2>1. k.state = "done" /\ k.outcome = "failed"
    BY <1>0, <1>3 DEF JobEnded, Run
  <2> QED BY <1>2, <2>1
<1>4. ASSUME NEW kind \in {"real", "placeholder"},
             GoesOn(k, run[n], r, kind), flag' = flag,
             IF run[n].dry THEN DryReports(n)' ELSE RealWrites(n)'
      PROVE  JobInv(n)' /\ AllThere(n)' /\ Fresh(run'[n]) /\ Restoring' \subseteq Restoring
  <2>1. JobInv(n)'
    BY <1>0, <1>1, <1>4 DEF JobInv, Applying, GoesOn
  <2>2. AllThere(n)'
    BY <1>0, <1>1, <1>4 DEF AllThere, Applying, GoesOn
  <2>3. Fresh(run'[n]) /\ Restoring' \subseteq Restoring
    BY <1>0, <1>1, <1>4 DEF Fresh, Applying, Restoring, GoesOn
  <2> QED BY <2>1, <2>2, <2>3
<1> PICK done : done = Done(n)
  OBVIOUS
<1>5. r \notin done /\ done \subseteq Rows /\ (Parent[r] # NoRow => Parent[r] \in done)
  BY NextRow DEF Done
<1>6. ASSUME NEW kind, GoesOn(k, run[n], r, kind)
      PROVE  Done(n)' = done \cup {r} /\ \A x \in Rows : k.id[x] = IF x = r THEN kind ELSE run[n].id[x]
  <2>1. Done(n)' = done \cup {r}
    BY <1>0, <1>1, <1>6, NextRow DEF Done, GoesOn
  <2>2. \A x \in Rows : k.id[x] = IF x = r THEN kind ELSE run[n].id[x]
    BY <1>0, <1>6 DEF Run, GoesOn
  <2> QED BY <2>1, <2>2
<1>7. CASE flag
  <2>1. run[n].dry /\ DryReports(n)
    BY <1>0, <1>7 DEF JobInv
  <2>2. Exists(n, r) <=> live[r] > 0
    BY <2>1 DEF Exists, DryReports
  <2>3. live[r] > 0 => (Parent[r] # NoRow => run[n].id[Parent[r]] = "real")
    BY <1>0, <1>5, <2>1 DEF DryReports, RowsThere
  <2>4. CASE live[r] > 0
    <3>1. (k = SkipRow(run[n], r) /\ flag' = flag) \/ k = JobEnded(run[n], "failed")
      BY <1>7, <2>2, <2>3, <2>4
    <3>2. CASE k = SkipRow(run[n], r) /\ flag' = flag
      <4>1. GoesOn(k, run[n], r, "real")
        BY <1>0, <3>2, RowPutFields
      <4>2. k.skipped = run[n].skipped \cup {r} /\ k.created = run[n].created /\ k.tx = run[n].tx
        BY <1>0, <3>2, RowPutFields
      <4>3. Done(n)' = done \cup {r}
        BY <1>6, <4>1
      <4>4. \A x \in Rows : k.id[x] = IF x = r THEN "real" ELSE run[n].id[x]
        BY <1>6, <4>1
      <4>5. DryReports(n)'
        BY <1>0, <1>1, <1>5, <2>1, <2>4, <4>2, <4>3, <4>4 DEF DryReports
      <4> QED BY <1>4, <2>1, <3>2, <4>1, <4>5
    <3> QED BY <1>3, <3>1, <3>2
  <2>5. CASE ~(live[r] > 0)
    <3>1. (k = StandIn(run[n], r) /\ flag' = flag) \/ k = JobEnded(run[n], "failed")
      BY <1>7, <2>2, <2>5
    <3>2. CASE k = StandIn(run[n], r) /\ flag' = flag
      <4>1. GoesOn(k, run[n], r, "placeholder")
        BY <1>0, <3>2, RowPutFields
      <4>2. k.skipped = run[n].skipped /\ k.created = run[n].created \cup {r} /\ k.tx = run[n].tx
        BY <1>0, <3>2, RowPutFields
      <4>3. Done(n)' = done \cup {r}
        BY <1>6, <4>1
      <4>4. \A x \in Rows : k.id[x] = IF x = r THEN "placeholder" ELSE run[n].id[x]
        BY <1>6, <4>1
      <4>5. live[r] = 0
        BY <1>0, <2>5
      <4>6. DryReports(n)'
        BY <1>0, <1>1, <1>5, <2>1, <4>2, <4>3, <4>4, <4>5 DEF DryReports
      <4> QED BY <1>4, <2>1, <3>2, <4>1, <4>6
    <3> QED BY <1>3, <3>1, <3>2
  <2> QED BY <2>4, <2>5
<1>8. CASE ~flag
  <2>1. ~run[n].dry /\ RealWrites(n)
    BY <1>0, <1>8 DEF JobInv
  <2>2. CASE /\ flag' = flag /\ Exists(n, r)
             /\ k = SkipRow(run[n], r)
    <3>1. GoesOn(k, run[n], r, "real")
      BY <1>0, <2>2, RowPutFields
    <3>2. k.tx = run[n].tx
      BY <1>0, <2>2, RowPutFields
    <3>3. Done(n)' = done \cup {r}
      BY <1>6, <3>1
    <3>4. \A x \in Rows : k.id[x] = IF x = r THEN "real" ELSE run[n].id[x]
      BY <1>6, <3>1
    <3>5. \A x : Exists(n, x)' <=> Exists(n, x)
      BY <1>0, <1>1, <3>2 DEF Exists
    <3>6. RealWrites(n)'
      BY <1>0, <1>1, <2>1, <2>2, <3>2, <3>3, <3>4, <3>5 DEF RealWrites
    <3> QED BY <1>4, <2>1, <2>2, <3>1, <3>6
  <2>3. CASE /\ flag' = flag /\ ~Exists(n, r) /\ (Parent[r] # NoRow => run[n].id[Parent[r]] = "real")
             /\ k = CreateRow(run[n], r)
    <3>1. GoesOn(k, run[n], r, "real")
      BY <1>0, <2>3, RowPutFields
    <3>2. k.tx.rows = run[n].tx.rows \cup {r}
      BY <1>0, <2>3, RowPutFields
    <3>3. Done(n)' = done \cup {r}
      BY <1>6, <3>1
    <3>4. \A x \in Rows : k.id[x] = IF x = r THEN "real" ELSE run[n].id[x]
      BY <1>6, <3>1
    <3>5. \A x : Exists(n, x)' <=> (Exists(n, x) \/ x = r)
      BY <1>0, <1>1, <3>2 DEF Exists
    <3>6. live[r] = 0 /\ (Parent[r] # NoRow => Exists(n, Parent[r]))
      BY <1>0, <1>5, <2>1, <2>3 DEF RealWrites, Exists
    <3>7. RealWrites(n)'
      BY <1>0, <1>1, <2>1, <3>2, <3>3, <3>4, <3>5, <3>6 DEF RealWrites
    <3> QED BY <1>4, <2>1, <2>3, <3>1, <3>7
  <2> QED BY <1>3, <1>8, <2>2, <2>3
<1> QED BY <1>7, <1>8

(* What the other steps leave of a job. *)
LEMMA EndFields ==
  ASSUME NEW k \in Run, NEW k2
  PROVE  /\ \A o \in {"applied", "report", "failed"} : k2 = JobEnded(k, o) => k2.state = "done" /\ k2.outcome = o
         /\ \A p \in 1 .. 5, todo \in SUBSET Rows, tx \in Tx : k2 = NextPhase(k, p, tx, todo) =>
              /\ k2.state = k.state /\ k2.dry = k.dry /\ k2.phase = p /\ k2.outcome = k.outcome
              /\ k2.todo = todo /\ k2.tx = tx /\ k2.id = k.id /\ k2.created = k.created /\ k2.skipped = k.skipped
         /\ k2 = Uploading(k) => k2.state = "uploading" /\ k2.outcome = k.outcome /\ k2.files = Files
<1>1. ASSUME NEW o, k2 = JobEnded(k, o)
      PROVE  k2.state = "done" /\ k2.outcome = o
  BY <1>1 DEF JobEnded, Run
<1>2. ASSUME NEW p \in 1 .. 5, NEW todo \in SUBSET Rows, NEW tx \in Tx, k2 = NextPhase(k, p, tx, todo)
      PROVE  /\ k2.state = k.state /\ k2.dry = k.dry /\ k2.phase = p /\ k2.outcome = k.outcome
             /\ k2.todo = todo /\ k2.tx = tx /\ k2.id = k.id /\ k2.created = k.created /\ k2.skipped = k.skipped
  BY <1>2 DEF NextPhase, Run
<1>3. ASSUME k2 = Uploading(k)
      PROVE  k2.state = "uploading" /\ k2.outcome = k.outcome /\ k2.files = Files
  BY <1>3 DEF Uploading, Run
<1> QED BY <1>1, <1>2, <1>3

(* A job that has ended without applying is of no more concern. *)
LEMMA EndedJob ==
  ASSUME RInv, NEW n \in Runs, NEW k \in Run, run' = [run EXCEPT ![n] = k],
         k.state = "done", k.outcome \in {"failed", "refused", "report"}
  PROVE  JobInv(n)' /\ AllThere(n)' /\ Fresh(run'[n]) /\ Restoring' \subseteq Restoring
<1>1. run \in [Runs -> Run] /\ run'[n] = k /\ \A m \in Runs \ {n} : run'[m] = run[m]
  BY DEF RInv, RestoreTypeOK
<1> QED BY <1>1 DEF JobInv, Applying, AllThere, Fresh, Restoring

(* A phase is done: the next one starts where it ended. *)
LEMMA PhaseDone ==
  ASSUME RInv, RestoreTypeOK', NEW n \in Runs, run[n].todo = {}, run[n].phase < 5,
         run'[n].phase = run[n].phase + 1, run'[n].todo = TodoOf(run[n].phase + 1)
  PROVE  Done(n)' = Done(n)
<1>1. run[n].phase \in 1 .. 4 /\ PhaseOf \in [Rows -> 1 .. 4]
  BY Archive DEF RInv, RestoreTypeOK, Run
<1> PICK p : p = run[n].phase
  OBVIOUS
<1>2. Done(n) = {r \in Rows : PhaseOf[r] < p + 1}
  BY <1>1 DEF Done
<1>3. Done(n)' = {r \in Rows : PhaseOf[r] < p + 1 \/ (PhaseOf[r] = p + 1 /\ r \notin TodoOf(p + 1))}
  BY <1>1 DEF Done
<1>4. \A r \in Rows : PhaseOf[r] = p + 1 => r \in TodoOf(p + 1)
  BY <1>1 DEF TodoOf, RowsOf
<1> QED BY <1>2, <1>3, <1>4

(* A commit adds each waiting row once, none of them live before. *)
LEMMA CommitRows ==
  ASSUME RInv, NEW n \in Runs, Commit(n)
  PROVE  /\ RowsThere'
         /\ \A r \in Rows : live'[r] > 0 <=> Exists(n, r)
         /\ \A r \in Rows : live'[r] >= live[r]
         /\ run[n].dry => live' = live
<1>1. /\ live \in [Rows -> Nat] /\ Applying(n) /\ RowsThere /\ run[n].todo = {}
      /\ IF run[n].dry THEN DryReports(n) ELSE RealWrites(n)
  BY DEF RInv, RestoreTypeOK, Commit, Applying, JobInv
<1> PICK rows : rows = run[n].tx.rows
  OBVIOUS
<1>2. live' = [r \in Rows |-> IF r \in rows THEN live[r] + 1 ELSE live[r]]
  BY DEF Commit
<1>3. \A r \in rows \cap Rows : live[r] = 0 /\ (Parent[r] # NoRow => live[Parent[r]] > 0 \/ Parent[r] \in rows)
  BY <1>1 DEF DryReports, RealWrites, Exists
<1>4. \A r \in Rows : live'[r] > 0 <=> live[r] > 0 \/ r \in rows
  BY <1>1, <1>2
<1>5. \A r \in Rows : live'[r] >= live[r] /\ live'[r] <= 1
  BY <1>1, <1>2, <1>3 DEF RowsThere
<1>6. \A r \in Rows : Parent[r] # NoRow => Parent[r] \in Rows
  BY Archive
<1>7. RowsThere'
  BY <1>1, <1>3, <1>4, <1>5, <1>6 DEF RowsThere
<1>8. ASSUME run[n].dry PROVE live' = live
  <2>1. rows = {}
    BY <1>1, <1>8 DEF DryReports
  <2> QED BY <1>1, <1>2, <2>1
<1> QED BY <1>4, <1>5, <1>7, <1>8 DEF Exists

(* A phase commits. *)
LEMMA CommitJob ==
  ASSUME RInv, RestoreTypeOK', NEW n \in Runs, Commit(n)
  PROVE  JobInv(n)' /\ AllThere(n)' /\ Fresh(run'[n]) /\ Restoring' \subseteq Restoring
<1>0. /\ run[n] \in Run /\ run \in [Runs -> Run] /\ Applying(n) /\ run[n].todo = {} /\ run[n].phase \in 1 .. 5
      /\ used' = used /\ stored' = stored
      /\ JobInv(n) /\ AllThere(n) /\ RowsThere
  BY Frames DEF RInv, RestoreTypeOK, Commit, Applying, Run
<1>a. ASSUME NEW k, run' = [run EXCEPT ![n] = k]
      PROVE  run'[n] = k /\ \A m \in Runs \ {n} : run'[m] = run[m]
  BY <1>0, <1>a
<1>b. \A r \in Rows : live'[r] > 0 <=> Exists(n, r)
  BY CommitRows
<1>1. ASSUME flag' = flag, run[n].phase < 5, NEW tx \in Tx, tx.rows = {},
             run' = [run EXCEPT ![n] = NextPhase(run[n], run[n].phase + 1, tx, TodoOf(run[n].phase + 1))]
      PROVE  JobInv(n)' /\ AllThere(n)' /\ Fresh(run'[n]) /\ Restoring' \subseteq Restoring
  <2> PICK p, todo, k : p = run[n].phase + 1 /\ todo = TodoOf(p) /\ k = NextPhase(run[n], p, tx, todo)
    OBVIOUS
  <2>1. p \in 1 .. 5
    BY <1>0, <1>1
  <2>1a. todo \in SUBSET Rows
    BY <2>1, NewJobs
  <2>2. /\ k.state = run[n].state /\ k.dry = run[n].dry /\ k.phase = p /\ k.outcome = run[n].outcome
        /\ k.todo = todo /\ k.tx = tx /\ k.id = run[n].id /\ k.created = run[n].created /\ k.skipped = run[n].skipped
    BY <1>0, <2>1, <2>1a, EndFields
  <2>3. run'[n] = k /\ \A m \in Runs \ {n} : run'[m] = run[m]
    BY <1>1, <1>a
  <2>4. Done(n)' = Done(n)
    BY <1>0, <1>1, <2>2, <2>3, PhaseDone
  <2>5. IF run[n].dry THEN DryReports(n)' ELSE RealWrites(n)'
    <3>1. CASE run[n].dry
      <4>1. live' = live /\ DryReports(n)
        BY <1>0, <3>1, CommitRows DEF JobInv
      <4>2. DryReports(n)'
        BY <1>1, <2>2, <2>3, <2>4, <4>1 DEF DryReports
      <4> QED BY <3>1, <4>2
    <3>2. CASE ~run[n].dry
      <4>1. RealWrites(n)
        BY <1>0, <3>2 DEF JobInv
      <4>2. \A r \in Rows : Exists(n, r)' <=> Exists(n, r)
        BY <1>1, <1>b, <2>2, <2>3 DEF Exists
      <4>3. Done(n) \subseteq Rows
        BY DEF Done
      <4>4. RealWrites(n)'
        BY <1>1, <2>2, <2>3, <2>4, <4>1, <4>2, <4>3 DEF RealWrites
      <4> QED BY <3>2, <4>4
    <3> QED BY <3>1, <3>2
  <2>6. JobInv(n)'
    BY <1>0, <1>1, <2>2, <2>3, <2>5 DEF JobInv, Applying
  <2>7. AllThere(n)'
    <3>1. run[n].outcome = "applied" => (used.faults = 0 => stored = Files) /\ (\A r \in Rows : live[r] > 0)
      BY <1>0 DEF AllThere
    <3>2. \A r \in Rows : live[r] > 0 => live'[r] > 0
      BY <1>b DEF Exists
    <3> QED BY <1>0, <2>2, <2>3, <3>1, <3>2 DEF AllThere, Applying
  <2>8. Fresh(run'[n]) /\ Restoring' \subseteq Restoring
    BY <1>0, <2>2, <2>3 DEF Fresh, Applying, Restoring
  <2> QED BY <2>6, <2>7, <2>8
<1>2. ASSUME run[n].phase = 5, ~run[n].dry, run' = [run EXCEPT ![n] = Uploading(run[n])]
      PROVE  JobInv(n)' /\ AllThere(n)' /\ Fresh(run'[n]) /\ Restoring' \subseteq Restoring
  <2>1. run'[n].state = "uploading" /\ run'[n].outcome = run[n].outcome /\ run'[n].files = Files
    BY <1>0, <1>2, <1>a, EndFields
  <2>2. \A m \in Runs \ {n} : run'[m] = run[m]
    BY <1>2, <1>a
  <2>3. \A r \in Rows : r \in Done(n)
    BY <1>0, <1>2, Archive DEF Done
  <2>4. \A r \in Rows : live'[r] > 0
    BY <1>0, <1>2, <1>b, <2>3 DEF JobInv, RealWrites
  <2>5. AllThere(n)'
    BY <1>0, <2>1, <2>4 DEF AllThere
  <2>6. JobInv(n)' /\ Fresh(run'[n]) /\ Restoring' \subseteq Restoring
    BY <1>0, <2>1, <2>2 DEF JobInv, Applying, Fresh, Restoring
  <2> QED BY <2>5, <2>6
<1>3. ASSUME run' = [run EXCEPT ![n] = JobEnded(run[n], "report")]
      PROVE  JobInv(n)' /\ AllThere(n)' /\ Fresh(run'[n]) /\ Restoring' \subseteq Restoring
  <2> PICK k : k = JobEnded(run[n], "report")
    OBVIOUS
  <2>1. k \in Run
    BY <1>0, JobPut
  <2>2. k.state = "done" /\ k.outcome = "report"
    BY <1>0, EndFields
  <2> QED BY <1>3, <2>1, <2>2, EndedJob
<1> QED BY <1>1, <1>2, <1>3, CommitGoes DEF RInv

(* A health snapshot is written, or its site was stood in for. *)
LEMMA UpsertSnapshotJob ==
  ASSUME RInv, RestoreTypeOK', NEW n \in Runs, NEW s \in Snapshotted, UpsertSnapshot(n, s)
  PROVE  JobInv(n)' /\ AllThere(n)' /\ Fresh(run'[n]) /\ Restoring' \subseteq Restoring
<1>0. /\ run[n] \in Run /\ run \in [Runs -> Run] /\ Applying(n) /\ run[n].phase = 5
      /\ PhaseOf \in [Rows -> 1 .. 4] /\ live' = live /\ used' = used /\ stored' = stored
      /\ JobInv(n) /\ AllThere(n)
  BY Frames, Archive DEF RInv, RestoreTypeOK, UpsertSnapshot, Applying
<1>1. CASE run' = [run EXCEPT ![n] = JobEnded(run[n], "failed")]
  <2> PICK k : k = JobEnded(run[n], "failed")
    OBVIOUS
  <2>1. k \in Run
    BY <1>0, JobPut
  <2>2. k.state = "done" /\ k.outcome = "failed"
    BY <1>0, EndFields
  <2> QED BY <1>1, <2>1, <2>2, EndedJob
<1>2. ASSUME flag' = flag, NEW tx \in Tx, tx.rows = run[n].tx.rows,
             run' = [run EXCEPT ![n] = [run[n] EXCEPT !.todo = @ \ {s}, !.tx = tx]]
      PROVE  JobInv(n)' /\ AllThere(n)' /\ Fresh(run'[n]) /\ Restoring' \subseteq Restoring
  <2> PICK todo, k : todo = run[n].todo \ {s} /\ k = [run[n] EXCEPT !.todo = todo, !.tx = tx]
    OBVIOUS
  <2>1. /\ k.state = run[n].state /\ k.dry = run[n].dry /\ k.phase = run[n].phase /\ k.outcome = run[n].outcome
        /\ k.todo = todo /\ k.tx = tx /\ k.id = run[n].id /\ k.created = run[n].created /\ k.skipped = run[n].skipped
    BY <1>0 DEF Run
  <2>2. run'[n] = k /\ \A m \in Runs \ {n} : run'[m] = run[m]
    BY <1>0, <1>2
  <2>3. Done(n) = Rows /\ Done(n)' = Rows
    BY <1>0, <2>1, <2>2 DEF Done
  <2>4. IF run[n].dry THEN DryReports(n)' ELSE RealWrites(n)'
    <3>1. CASE run[n].dry
      <4>1. DryReports(n)
        BY <1>0, <3>1 DEF JobInv
      <4>2. DryReports(n)'
        BY <1>0, <1>2, <2>1, <2>2, <2>3, <4>1 DEF DryReports
      <4> QED BY <3>1, <4>2
    <3>2. CASE ~run[n].dry
      <4>1. RealWrites(n)
        BY <1>0, <3>2 DEF JobInv
      <4>2. \A r : Exists(n, r)' <=> Exists(n, r)
        BY <1>0, <1>2, <2>1, <2>2 DEF Exists
      <4>3. RealWrites(n)'
        BY <1>0, <1>2, <2>1, <2>2, <2>3, <4>1, <4>2 DEF RealWrites
      <4> QED BY <3>2, <4>3
    <3> QED BY <3>1, <3>2
  <2>5. JobInv(n)'
    BY <1>0, <1>2, <2>1, <2>2, <2>4 DEF JobInv, Applying
  <2>6. AllThere(n)'
    BY <1>0, <2>1, <2>2 DEF AllThere, Applying
  <2>7. Fresh(run'[n]) /\ Restoring' \subseteq Restoring
    BY <1>0, <2>1, <2>2 DEF Fresh, Applying, Restoring
  <2> QED BY <2>5, <2>6, <2>7
<1> QED BY <1>1, <1>2, JobGoes DEF RInv

(* A transaction fails, and the job with it. *)
LEMMA RollbackJob ==
  ASSUME RInv, NEW n \in Runs, Rollback(n)
  PROVE  JobInv(n)' /\ AllThere(n)' /\ Fresh(run'[n]) /\ Restoring' \subseteq Restoring
<1>0. run[n] \in Run
  BY DEF RInv, RestoreTypeOK
<1> PICK k : k = JobEnded(run[n], "failed")
  OBVIOUS
<1>1. k \in Run
  BY <1>0, JobPut
<1>2. k.state = "done" /\ k.outcome = "failed"
  BY <1>0, EndFields
<1>3. run' = [run EXCEPT ![n] = k]
  BY JobGoes DEF RInv
<1> QED BY <1>1, <1>2, <1>3, EndedJob

(* An object is put back, or the failure is counted. *)
LEMMA PutObjectJob ==
  ASSUME RInv, RestoreTypeOK', NEW n \in Runs, NEW f \in Files, PutObject(n, f)
  PROVE  JobInv(n)' /\ AllThere(n)' /\ Fresh(run'[n]) /\ Restoring' \subseteq Restoring
<1>0. /\ run[n] \in Run /\ run \in [Runs -> Run] /\ run[n].state = "uploading" /\ live' = live
      /\ AllThere(n)
  BY Frames DEF RInv, RestoreTypeOK, PutObject
<1> PICK files, k : files = run[n].files \ {f} /\ k = [run[n] EXCEPT !.files = files]
  OBVIOUS
<1>1. run'[n] = k /\ \A m \in Runs \ {n} : run'[m] = run[m]
  <2>1. run' = [run EXCEPT ![n] = [run[n] EXCEPT !.files = @ \ {f}]]
    BY JobGoes DEF RInv
  <2> QED BY <1>0, <2>1
<1>2. k.state = "uploading" /\ k.outcome = run[n].outcome /\ k.files = files
  BY <1>0 DEF Run
<1>3. JobInv(n)' /\ Fresh(run'[n]) /\ Restoring' \subseteq Restoring
  BY <1>0, <1>1, <1>2 DEF JobInv, Applying, Fresh, Restoring
<1>4. CASE stored' = stored \cup {f} /\ used' = used
  <2>1. stored \subseteq Files
    BY DEF RInv, RestoreTypeOK
  <2>2. AllThere(n)'
    BY <1>0, <1>1, <1>2, <1>4, <2>1 DEF AllThere
  <2> QED BY <1>3, <2>2
<1>5. CASE RestoreFault
  <2>1. used'.faults # 0
    <3>1. used'.faults = used.faults + 1 /\ used.faults \in Nat
      BY <1>5, FaultUsed DEF RInv, RestoreTypeOK
    <3> QED BY <3>1
  <2>2. AllThere(n)'
    BY <1>0, <1>1, <1>2, <2>1 DEF AllThere
  <2> QED BY <1>3, <2>2
<1> QED BY <1>4, <1>5, Frames

(* The last object was put: the restore was applied. *)
LEMMA FinishJob ==
  ASSUME RInv, NEW n \in Runs, Finish(n)
  PROVE  JobInv(n)' /\ AllThere(n)' /\ Fresh(run'[n]) /\ Restoring' \subseteq Restoring
<1>0. /\ run[n] \in Run /\ run \in [Runs -> Run] /\ run[n].state = "uploading" /\ run[n].files = {}
      /\ live' = live /\ used' = used /\ stored' = stored /\ stored \subseteq Files
      /\ AllThere(n)
  BY Frames DEF RInv, RestoreTypeOK, Finish
<1> PICK k : k = JobEnded(run[n], "applied")
  OBVIOUS
<1>1. k.state = "done" /\ k.outcome = "applied"
  BY <1>0, EndFields
<1>2. run'[n] = k /\ \A m \in Runs \ {n} : run'[m] = run[m]
  BY <1>0, JobGoes DEF RInv
<1>3. AllThere(n)'
  BY <1>0, <1>1, <1>2 DEF AllThere
<1> QED BY <1>1, <1>2, <1>3 DEF JobInv, Applying, Fresh, Restoring

(* A job is requested. *)
LEMMA RequestJob ==
  ASSUME RInv, NEW n \in Runs, RequestRestore(n)
  PROVE  JobInv(n)' /\ AllThere(n)' /\ Fresh(run'[n]) /\ Restoring' \subseteq Restoring
<1>0. /\ run[n] \in Run /\ run \in [Runs -> Run] /\ run[n].state = "new" /\ Fresh(run[n])
      /\ live' = live /\ used' = used /\ stored' = stored /\ AllThere(n)
  BY Frames DEF RInv, RestoreTypeOK, RequestRestore
<1> PICK dry \in BOOLEAN, intact \in BOOLEAN :
           run' = [run EXCEPT ![n] = [run[n] EXCEPT !.state = "queued", !.dry = dry, !.intact = intact]]
  BY JobGoes DEF RInv
<1> PICK k : k = [run[n] EXCEPT !.state = "queued", !.dry = dry, !.intact = intact]
  OBVIOUS
<1>1. run'[n] = k /\ \A m \in Runs \ {n} : run'[m] = run[m]
  BY <1>0
<1>2. /\ k.state = "queued" /\ k.outcome = run[n].outcome /\ k.phase = run[n].phase /\ k.tx = run[n].tx
      /\ k.created = run[n].created /\ k.skipped = run[n].skipped /\ k.id = run[n].id
  BY <1>0 DEF Run
<1>3. Fresh(run'[n])
  BY <1>0, <1>1, <1>2 DEF Fresh
<1>4. AllThere(n)'
  BY <1>0, <1>1, <1>2 DEF AllThere
<1> QED BY <1>1, <1>2, <1>3, <1>4 DEF JobInv, Applying, Restoring

(* A job is begun, alone, or its archive is refused. *)
LEMMA BeginJob ==
  ASSUME Loops = 1, RInv, RestoreTypeOK', NEW n \in Runs, Begin(n)
  PROVE  JobInv(n)' /\ AllThere(n)' /\ Fresh(run'[n]) /\ Restoring = {} /\ Restoring' \subseteq {n}
<1>0. /\ run[n] \in Run /\ run \in [Runs -> Run] /\ run[n].state = "queued" /\ Fresh(run[n])
      /\ PhaseOf \in [Rows -> 1 .. 4]
      /\ live' = live /\ used' = used /\ stored' = stored /\ AllThere(n)
  BY Frames, Archive DEF RInv, RestoreTypeOK, Begin
<1>1. Restoring = {}
  BY BegunAlone DEF RInv, Begin
<1>2. ASSUME run' = [run EXCEPT ![n] = [run[n] EXCEPT !.state = "applying", !.todo = RowsOf(1)]], flag' = run[n].dry
      PROVE  JobInv(n)' /\ AllThere(n)' /\ Fresh(run'[n]) /\ Restoring' \subseteq {n}
  <2> PICK todo, k : todo = RowsOf(1) /\ k = [run[n] EXCEPT !.state = "applying", !.todo = todo]
    OBVIOUS
  <2>1. run'[n] = k /\ \A m \in Runs \ {n} : run'[m] = run[m]
    BY <1>0, <1>2
  <2>2. /\ k.state = "applying" /\ k.outcome = run[n].outcome /\ k.phase = 1 /\ k.tx.rows = {} /\ k.dry = run[n].dry
        /\ k.created = {} /\ k.skipped = {} /\ k.id = run[n].id /\ k.todo = todo
    BY <1>0 DEF Run, Fresh
  <2>3. \A r \in Rows : k.id[r] = "none"
    BY <1>0, <2>2 DEF Fresh
  <2>4. Done(n)' = {}
    BY <1>0, <2>1, <2>2 DEF Done, RowsOf
  <2>5. todo \subseteq TodoOf(1)
    BY DEF TodoOf
  <2>6. DryReports(n)' /\ RealWrites(n)'
    <3>1. DryReports(n)'
      BY <2>1, <2>2, <2>4 DEF DryReports
    <3>2. RealWrites(n)'
      BY <2>1, <2>2, <2>3, <2>4 DEF RealWrites
    <3> QED BY <3>1, <3>2
  <2>7. JobInv(n)'
    BY <1>2, <2>1, <2>2, <2>5, <2>6 DEF JobInv
  <2>8. AllThere(n)'
    BY <1>0, <2>1, <2>2 DEF AllThere
  <2> QED BY <1>1, <2>1, <2>2, <2>7, <2>8 DEF Fresh, Restoring
<1>3. ASSUME run' = [run EXCEPT ![n] = [run[n] EXCEPT !.state = "done", !.outcome = "refused"]]
      PROVE  JobInv(n)' /\ AllThere(n)' /\ Fresh(run'[n]) /\ Restoring' \subseteq {n}
  <2> PICK k : k = [run[n] EXCEPT !.state = "done", !.outcome = "refused"]
    OBVIOUS
  <2>1. k \in Run /\ k.state = "done" /\ k.outcome = "refused"
    BY <1>0 DEF Run
  <2> QED BY <1>1, <1>3, <2>1, EndedJob
<1>4. \/ run' = [run EXCEPT ![n] = [run[n] EXCEPT !.state = "applying", !.todo = RowsOf(1)]] /\ flag' = run[n].dry
      \/ run' = [run EXCEPT ![n] = [run[n] EXCEPT !.state = "done", !.outcome = "refused"]] /\ flag' = flag
  BY JobGoes DEF RInv
<1> QED BY <1>1, <1>2, <1>3, <1>4

(* What a step of one job leaves of another. *)
LEMMA OtherJobs ==
  ASSUME RInv, RestoreTypeOK', NEW m \in Runs, run'[m] = run[m],
         \A r \in Rows : live'[r] >= live[r],
         stored \subseteq stored', used'.faults >= used.faults,
         ~Applying(m) \/ (live' = live /\ flag' = flag)
  PROVE  JobInv(m)' /\ AllThere(m)' /\ Fresh(run'[m])
<1>1. /\ live \in [Rows -> Nat] /\ live' \in [Rows -> Nat] /\ used.faults \in Nat /\ used'.faults \in Nat
      /\ stored \subseteq Files /\ stored' \subseteq Files
      /\ JobInv(m) /\ AllThere(m) /\ Fresh(run[m])
  BY DEF RInv, RestoreTypeOK
<1>2. JobInv(m)'
  <2>1. CASE ~Applying(m)
    BY <2>1 DEF JobInv, Applying
  <2>2. CASE live' = live /\ flag' = flag
    <3>1. Done(m)' = Done(m)
      BY DEF Done
    <3>2. \A r : Exists(m, r)' <=> Exists(m, r)
      BY <2>2 DEF Exists
    <3>3. DryReports(m) => DryReports(m)'
      BY <2>2, <3>1 DEF DryReports
    <3>4. RealWrites(m) => RealWrites(m)'
      BY <2>2, <3>1, <3>2 DEF RealWrites
    <3> QED BY <1>1, <2>2, <3>3, <3>4 DEF JobInv, Applying
  <2> QED BY <2>1, <2>2
<1>3. AllThere(m)'
  <2>1. \A r \in Rows : live[r] > 0 => live'[r] > 0
    BY <1>1
  <2>2. used'.faults = 0 => used.faults = 0
    BY <1>1
  <2> QED BY <1>1, <2>1, <2>2 DEF AllThere
<1> QED BY <1>1, <1>2, <1>3

\* A step of one job.
StepOf(n) ==
  \/ RequestRestore(n) \/ Begin(n) \/ Commit(n) \/ Rollback(n) \/ Finish(n)
  \/ \E r \in Rows : Upsert(n, r)
  \/ \E s \in Snapshotted : UpsertSnapshot(n, s)
  \/ \E f \in Files : PutObject(n, f)

(* A step of a job is about that job only; rows and objects only come. *)
LEMMA StepFrame ==
  ASSUME RInv, RestoreTypeOK', NEW n \in Runs, StepOf(n)
  PROVE  /\ \A m \in Runs \ {n} : run'[m] = run[m]
         /\ \A r \in Rows : live'[r] >= live[r]
         /\ RowsThere'
         /\ stored \subseteq stored' /\ used'.faults >= used.faults
         /\ n \in Restoring \/ Begin(n) \/ (live' = live /\ flag' = flag)
<1>0. /\ run \in [Runs -> Run] /\ run[n] \in Run /\ live \in [Rows -> Nat] /\ used.faults \in Nat /\ RowsThere
  BY DEF RInv, RestoreTypeOK
<1>1. \A m \in Runs \ {n} : run'[m] = run[m]
  <2>1. ASSUME NEW k, run' = [run EXCEPT ![n] = k]
        PROVE  \A m \in Runs \ {n} : run'[m] = run[m]
    BY <1>0, <2>1
  <2>2. ASSUME NEW r \in Rows, Upsert(n, r) PROVE \A m \in Runs \ {n} : run'[m] = run[m]
    BY <2>1, <2>2, UpsertGoes DEF RInv
  <2>3. CASE Commit(n)
    BY <2>1, <2>3, CommitGoes DEF RInv
  <2>4. CASE RequestRestore(n) \/ Begin(n) \/ Rollback(n) \/ Finish(n)
    BY <2>1, <2>4, JobGoes DEF RInv
  <2>5. ASSUME NEW s \in Snapshotted, UpsertSnapshot(n, s) PROVE \A m \in Runs \ {n} : run'[m] = run[m]
    BY <2>1, <2>5, JobGoes DEF RInv
  <2>6. ASSUME NEW f \in Files, PutObject(n, f) PROVE \A m \in Runs \ {n} : run'[m] = run[m]
    BY <2>1, <2>6, JobGoes DEF RInv
  <2> QED BY <2>2, <2>3, <2>4, <2>5, <2>6 DEF StepOf
<1>2. (\A r \in Rows : live'[r] >= live[r]) /\ RowsThere'
  <2>1. CASE Commit(n)
    BY <2>1, CommitRows
  <2>2. CASE live' = live
    BY <1>0, <2>2 DEF RowsThere
  <2>3. Commit(n) \/ live' = live
    BY Frames DEF StepOf
  <2> QED BY <2>1, <2>2, <2>3
<1>3. stored \subseteq stored'
  BY Frames DEF StepOf
<1>4. used'.faults >= used.faults
  <2>1. CASE RestoreFault
    BY <1>0, <2>1, FaultUsed DEF RInv
  <2>2. RestoreFault \/ used' = used
    BY Frames DEF StepOf
  <2> QED BY <1>0, <2>1, <2>2
<1>5. n \in Restoring \/ Begin(n) \/ (live' = live /\ flag' = flag)
  <2>1. CASE RequestRestore(n)
    BY <2>1, Frames
  <2>2. CASE Commit(n) \/ Rollback(n) \/ Finish(n)
    BY <2>2 DEF Commit, Rollback, Finish, Restoring
  <2>3. CASE \E r \in Rows : Upsert(n, r)
    BY <2>3 DEF Upsert, Restoring
  <2>4. CASE \E s \in Snapshotted : UpsertSnapshot(n, s)
    BY <2>4 DEF UpsertSnapshot, Restoring
  <2>5. CASE \E f \in Files : PutObject(n, f)
    BY <2>5 DEF PutObject, Restoring
  <2> QED BY <2>1, <2>2, <2>3, <2>4, <2>5 DEF StepOf
<1> QED BY <1>1, <1>2, <1>3, <1>4, <1>5

(* A step of a job keeps the invariant, when one job runs at a time. *)
LEMMA JobStep == ASSUME Loops = 1, RInv, RestoreTypeOK', NEW n \in Runs, StepOf(n) PROVE RInv'
<1>0. OneAtATime /\ \A m \in Runs : Fresh(run[m]) /\ JobInv(m) /\ AllThere(m)
  BY DEF RInv
<1>1. CASE Begin(n)
  <2>1. JobInv(n)' /\ AllThere(n)' /\ Fresh(run'[n]) /\ Restoring = {} /\ Restoring' \subseteq {n}
    BY <1>1, BeginJob
  <2>2. ASSUME NEW m \in Runs, m # n PROVE JobInv(m)' /\ AllThere(m)' /\ Fresh(run'[m])
    <3>1. ~Applying(m)
      BY <2>1 DEF Applying, Restoring
    <3> QED BY <2>2, <3>1, StepFrame, OtherJobs
  <2>3. OneAtATime'
    BY <2>1 DEF OneAtATime
  <2>4. \A m \in Runs : Fresh(run'[m]) /\ JobInv(m)' /\ AllThere(m)'
    BY <2>1, <2>2
  <2> QED BY <2>3, <2>4, StepFrame DEF RInv
<1>2. CASE ~Begin(n)
  <2>1. JobInv(n)' /\ AllThere(n)' /\ Fresh(run'[n]) /\ Restoring' \subseteq Restoring
    BY <1>2, RequestJob, CommitJob, RollbackJob, FinishJob, UpsertJob, UpsertSnapshotJob, PutObjectJob DEF StepOf
  <2>2. ASSUME NEW m \in Runs, m # n PROVE JobInv(m)' /\ AllThere(m)' /\ Fresh(run'[m])
    <3>1. ~Applying(m) \/ (live' = live /\ flag' = flag)
      <4>1. n \in Restoring => m \notin Restoring
        BY <1>0, <2>2 DEF OneAtATime
      <4> QED BY <1>2, <4>1, StepFrame DEF Applying, Restoring
    <3> QED BY <2>2, <3>1, StepFrame, OtherJobs
  <2>3. OneAtATime'
    BY <1>0, <2>1 DEF OneAtATime
  <2>4. \A m \in Runs : Fresh(run'[m]) /\ JobInv(m)' /\ AllThere(m)'
    BY <2>1, <2>2
  <2> QED BY <2>3, <2>4, StepFrame DEF RInv
<1> QED BY <1>1, <1>2

(* A restart leaves no job under way and no row half written. *)
LEMMA CrashStep == ASSUME RInv, RestoreTypeOK', RestoreCrash PROVE RInv'
<1>0. /\ live' = live /\ stored' = stored /\ RowsThere /\ used.faults = used'.faults
      /\ \A n \in Runs : Fresh(run[n]) /\ JobInv(n) /\ AllThere(n)
  BY DEF RInv, RestoreCrash, RestoreTypeOK
<1>1. Restoring' = {} /\ OneAtATime'
  BY RunAgain DEF RInv, Restoring, OneAtATime
<1>2. RowsThere'
  BY <1>0 DEF RowsThere
<1>3. ASSUME NEW n \in Runs PROVE Fresh(run'[n]) /\ JobInv(n)' /\ AllThere(n)'
  <2>1. run'[n].state \notin {"applying", "uploading"} /\ Fresh(run'[n])
    BY <1>0, RunAgain DEF RInv
  <2>2. JobInv(n)'
    BY <2>1 DEF JobInv, Applying
  <2>3. AllThere(n)'
    <3>1. run'[n].outcome = "applied" => run'[n] = run[n]
      BY RunAgain DEF RInv
    <3> QED BY <1>0, <2>1, <3>1 DEF AllThere
  <2> QED BY <2>1, <2>2, <2>3
<1> QED BY <1>1, <1>2, <1>3 DEF RInv

(* Nothing has run at first, and rows are there with their parents. *)
LEMMA InitRInv == RestoreInit => RInv
<1> SUFFICES ASSUME RestoreInit PROVE RInv
  OBVIOUS
<1>1. RestoreTypeOK
  <2>1. run \in [Runs -> Run]
    BY NewJobs DEF RestoreInit
  <2>2. MaxRestoreFaults \in Nat /\ MaxCrashes \in Nat
    BY Archive
  <2>3. used \in [faults : 0 .. MaxRestoreFaults, crashes : 0 .. MaxCrashes]
    BY <2>2 DEF RestoreInit
  <2>4. live \in [Rows -> Nat]
    BY DEF RestoreInit
  <2>5. snapshot \in [Snapshotted -> {"none", "live", "archived"}]
    BY DEF RestoreInit
  <2>6. imports \in BOOLEAN /\ stored \subseteq Files /\ flag \in BOOLEAN
    BY DEF RestoreInit
  <2> QED BY <2>1, <2>3, <2>4, <2>5, <2>6 DEF RestoreTypeOK
<1>2. RowsThere
  BY Archive DEF RestoreInit, RowsThere
<1>3. ASSUME NEW n \in Runs
      PROVE  /\ run[n].state = "new" /\ run[n].outcome = "none"
             /\ Fresh(run[n]) /\ JobInv(n) /\ AllThere(n)
  <2>1. run[n] = NewRun
    BY DEF RestoreInit
  <2>2. run[n].state = "new" /\ run[n].outcome = "none"
    BY <2>1 DEF NewRun
  <2>3. Fresh(run[n])
    BY <2>1 DEF NewRun, NoTx, Fresh
  <2> QED BY <2>2, <2>3 DEF JobInv, AllThere, Applying
<1>4. Restoring = {} /\ OneAtATime
  BY <1>3 DEF Restoring, OneAtATime
<1> QED BY <1>1, <1>2, <1>3, <1>4 DEF RInv

(* A step that changes nothing keeps it. *)
LEMMA RStutter == ASSUME RInv, UNCHANGED restoreVars PROVE RInv'
<1> USE DEF restoreVars
<1>1. RestoreTypeOK'
  BY DEF RInv, RestoreTypeOK
<1>2. RowsThere' /\ OneAtATime'
  BY DEF RInv, RowsThere, OneAtATime, Restoring
<1>3. ASSUME NEW n \in Runs PROVE Fresh(run'[n]) /\ JobInv(n)' /\ AllThere(n)'
  BY <1>1, OtherJobs DEF RInv, RestoreTypeOK
<1> QED BY <1>1, <1>2, <1>3 DEF RInv

(* Every step keeps the invariant. *)
LEMMA RInvariance == ASSUME Loops = 1, RInv, [RestoreNext]_restoreVars PROVE RInv'
<1>1. CASE RestoreNext
  <2>1. RestoreTypeOK'
    BY <1>1, RestoreTypeStep DEF RInv
  <2>2. RestoreCrash \/ \E n \in Runs : StepOf(n)
    BY <1>1 DEF RestoreNext, StepOf
  <2> QED BY <2>1, <2>2, CrashStep, JobStep
<1> QED BY <1>1, RStutter

(* Every variable of the restores holds a state of the database or of the
   worker, whatever fails and however many loops run. *)
THEOREM RestoreTypes == RestoreSpec => []RestoreTypeOK
<1>1. RestoreInit => RestoreTypeOK
  BY InitRInv DEF RInv
<1>2. RestoreTypeOK /\ [RestoreNext]_restoreVars => RestoreTypeOK'
  <2>1. RestoreTypeOK /\ UNCHANGED restoreVars => RestoreTypeOK'
    BY DEF restoreVars, RestoreTypeOK
  <2> QED BY <2>1, RestoreTypeStep
<1> QED BY <1>1, <1>2, PTL DEF RestoreSpec

(* With one restore at a time no natural key is ever live twice: a row waits
   for a commit only while it is not live, and what a failed phase or a restart
   leaves committed is found and skipped by the next run (backup.service.ts:2326). *)
THEOREM NoDuplicatesHolds == Loops = 1 => (RestoreSpec => []NoDuplicates)
<1> SUFFICES ASSUME Loops = 1 PROVE RestoreSpec => []NoDuplicates
  OBVIOUS
<1>1. RInv => NoDuplicates
  BY DEF RInv, RowsThere, NoDuplicates
<1>2. RInv /\ [RestoreNext]_restoreVars => RInv'
  BY RInvariance
<1> QED BY <1>1, <1>2, InitRInv, PTL DEF RestoreSpec

(* With one restore at a time a job that answers that it was applied left every
   row of the archive live, and every object when no upload failed. *)
THEOREM AppliedIsCompleteHolds == Loops = 1 => (RestoreSpec => []AppliedIsComplete)
<1> SUFFICES ASSUME Loops = 1 PROVE RestoreSpec => []AppliedIsComplete
  OBVIOUS
<1>1. RInv => AppliedIsComplete
  BY DEF RInv, AllThere, AppliedIsComplete
<1>2. RInv /\ [RestoreNext]_restoreVars => RInv'
  BY RInvariance
<1> QED BY <1>1, <1>2, InitRInv, PTL DEF RestoreSpec

\* A job that reports, reports the difference.
Reported ==
  \A n \in Runs : run[n].outcome = "none" /\ run'[n].outcome = "report" =>
    /\ run'[n].created = {r \in Rows : live[r] = 0}
    /\ run'[n].skipped = {r \in Rows : live[r] > 0}

(* Only the last commit of a dry run reports. *)
LEMMA OnlyCommitReports ==
  ASSUME RInv, RestoreNext, NEW n \in Runs, run[n].outcome = "none", run'[n].outcome = "report"
  PROVE  Commit(n) /\ run[n].phase = 5 /\ run[n].dry /\ run'[n] = JobEnded(run[n], "report")
<1>0. run \in [Runs -> Run] /\ run[n] \in Run /\ RestoreTypeOK
  BY DEF RInv, RestoreTypeOK
<1>1. ASSUME RestoreCrash PROVE FALSE
  BY <1>0, <1>1, RunAgain
<1>2. ASSUME NEW m \in Runs, NEW k, run' = [run EXCEPT ![m] = k]
      PROVE  m = n /\ k.outcome = "report"
  BY <1>0, <1>2
<1>3. ASSUME NEW m \in Runs, NEW o \in {"applied", "failed"}, run' = [run EXCEPT ![m] = JobEnded(run[m], o)]
      PROVE  FALSE
  <2>1. m = n /\ JobEnded(run[m], o).outcome = "report"
    BY <1>2, <1>3
  <2> QED BY <1>0, <2>1, EndFields
<1>4. ASSUME NEW m \in Runs, NEW r \in Rows, Upsert(m, r) PROVE FALSE
  <2> PICK k \in Run :
        /\ run' = [run EXCEPT ![m] = k]
        /\ \/ k = SkipRow(run[m], r) \/ k = StandIn(run[m], r) \/ k = CreateRow(run[m], r)
           \/ k = JobEnded(run[m], "failed")
    BY <1>0, <1>4, UpsertGoes
  <2>1. m = n /\ k.outcome = "report"
    BY <1>2
  <2>2. ASSUME NEW kind, GoesOn(k, run[m], r, kind) PROVE FALSE
    BY <2>1, <2>2 DEF GoesOn
  <2>3. k # JobEnded(run[m], "failed")
    BY <1>3
  <2> QED BY <1>0, <2>1, <2>2, <2>3, RowPutFields
<1>5. ASSUME NEW m \in Runs, Rollback(m) \/ Finish(m) PROVE FALSE
  BY <1>0, <1>3, <1>5, JobGoes
<1>6. ASSUME NEW m \in Runs, NEW k, run' = [run EXCEPT ![m] = k], k.outcome # "report" PROVE FALSE
  BY <1>2, <1>6
<1>7. ASSUME NEW m \in Runs, NEW s \in Snapshotted, UpsertSnapshot(m, s) PROVE FALSE
  <2>1. ASSUME NEW tx \in Tx, run' = [run EXCEPT ![m] = [run[m] EXCEPT !.todo = @ \ {s}, !.tx = tx]] PROVE FALSE
    BY <1>0, <1>2, <2>1 DEF Run
  <2> QED BY <1>0, <1>3, <1>7, <2>1, JobGoes
<1>8. ASSUME NEW m \in Runs, RequestRestore(m) PROVE FALSE
  <2>1. PICK dry \in BOOLEAN, intact \in BOOLEAN :
               run' = [run EXCEPT ![m] = [run[m] EXCEPT !.state = "queued", !.dry = dry, !.intact = intact]]
    BY <1>0, <1>8, JobGoes
  <2> QED BY <1>0, <1>2, <2>1 DEF Run
<1>9. ASSUME NEW m \in Runs, Begin(m) PROVE FALSE
  <2>1. \/ run' = [run EXCEPT ![m] = [run[m] EXCEPT !.state = "applying", !.todo = RowsOf(1)]]
        \/ run' = [run EXCEPT ![m] = [run[m] EXCEPT !.state = "done", !.outcome = "refused"]]
    BY <1>0, <1>9, JobGoes
  <2> PICK rows : rows = RowsOf(1)
    OBVIOUS
  <2>2. CASE run' = [run EXCEPT ![m] = [run[m] EXCEPT !.state = "applying", !.todo = rows]]
    BY <1>0, <1>2, <2>2 DEF Run
  <2>3. CASE run' = [run EXCEPT ![m] = [run[m] EXCEPT !.state = "done", !.outcome = "refused"]]
    BY <1>0, <1>2, <2>3 DEF Run
  <2> QED BY <2>1, <2>2, <2>3
<1>10. ASSUME NEW m \in Runs, NEW f \in Files, PutObject(m, f) PROVE FALSE
  <2>1. run' = [run EXCEPT ![m] = [run[m] EXCEPT !.files = @ \ {f}]]
    BY <1>0, <1>10, JobGoes
  <2> QED BY <1>0, <1>2, <2>1 DEF Run
<1>11. PICK m \in Runs : Commit(m)
  BY <1>1, <1>4, <1>5, <1>7, <1>8, <1>9, <1>10 DEF RestoreNext
<1>12. ASSUME NEW tx \in Tx, NEW p, NEW todo, run' = [run EXCEPT ![m] = NextPhase(run[m], p, tx, todo)] PROVE FALSE
  BY <1>0, <1>2, <1>12 DEF Run, NextPhase
<1>13. ASSUME run' = [run EXCEPT ![m] = Uploading(run[m])] PROVE FALSE
  BY <1>0, <1>2, <1>13 DEF Run, Uploading
<1>14. run[m].phase = 5 /\ run[m].dry /\ run' = [run EXCEPT ![m] = JobEnded(run[m], "report")]
  BY <1>0, <1>11, <1>12, <1>13, CommitGoes
<1>15. m = n
  BY <1>2, <1>14
<1> QED BY <1>0, <1>11, <1>14, <1>15

(* It has come to every row, and reports what it came to. *)
LEMMA ReportStep == ASSUME RInv, [RestoreNext]_restoreVars PROVE Reported
<1> SUFFICES ASSUME NEW n \in Runs, run[n].outcome = "none", run'[n].outcome = "report"
             PROVE  /\ run'[n].created = {r \in Rows : live[r] = 0}
                    /\ run'[n].skipped = {r \in Rows : live[r] > 0}
  BY DEF Reported
<1>1. RestoreNext
  BY DEF restoreVars
<1>2. Commit(n) /\ run[n].phase = 5 /\ run[n].dry /\ run'[n] = JobEnded(run[n], "report")
  BY <1>1, OnlyCommitReports
<1>3. run[n] \in Run /\ DryReports(n) /\ run[n].todo = {} /\ PhaseOf \in [Rows -> 1 .. 4]
  BY <1>2, Archive DEF RInv, RestoreTypeOK, JobInv, Applying, Commit
<1>4. Done(n) = Rows
  BY <1>2, <1>3 DEF Done
<1>5. run'[n].created = run[n].created /\ run'[n].skipped = run[n].skipped
  BY <1>2, <1>3 DEF JobEnded, Run
<1> QED BY <1>3, <1>4, <1>5 DEF DryReports

(* With one restore at a time the report of a dry run is exactly what a real
   run would create and skip at that moment (backup.service.ts:3709). *)
THEOREM ReportIsDifferenceHolds == Loops = 1 => (RestoreSpec => ReportIsDifference)
<1> SUFFICES ASSUME Loops = 1 PROVE RestoreSpec => ReportIsDifference
  OBVIOUS
<1>1. RInv /\ [RestoreNext]_restoreVars => RInv' /\ Reported
  BY RInvariance, ReportStep
<1>2. RestoreSpec => [][Reported]_restoreVars
  BY <1>1, InitRInv, PTL DEF RestoreSpec
<1> QED BY <1>2 DEF ReportIsDifference, Reported

=============================================================================
