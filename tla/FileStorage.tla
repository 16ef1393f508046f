---------------------------- MODULE FileStorage ----------------------------
(***************************************************************************)
(* The files of XCH: objects of the MinIO bucket xch-storage, the rows     *)
(* that point at them (Attachment.path, FloorPlan.fileUrl), the requests   *)
(* that add and remove both, and the daily cleanup of orphaned objects,    *)
(* which runs in the API process and in the worker process.                *)
(*                                                                         *)
(* MinIO is not transactional with the database: every request below is a  *)
(* sequence of separate steps, and any other actor can step in between.    *)
(*                                                                         *)
(* An owner is what the folder of an object names: an asset, rack or site  *)
(* for attachments/<tenant>/<type>/<id>/..., a floor plan for              *)
(* floor-plans/plan-<id>-....  A key stands for a whole object name; the   *)
(* timestamp and the random part make each one new.                        *)
(***************************************************************************)
EXTENDS Integers, FiniteSets

CONSTANTS
  Hosts,        \* assets, racks and sites that carry attachments
  Plans,        \* ids of FloorPlan rows, each used for one row at most
  Keys,         \* object names, each used for one upload at most
  Requests,     \* HTTP requests
  Cleaners,     \* processes that run the cleanup
  Ungraced,     \* the cleaners started by hand: grace period 0
  NoKey,        \* no file: fileUrl ''
  NoRow,        \* the plan row does not exist yet
  NoOwner,
  MaxFaults     \* bound: failed calls, abandoned requests and cleanups

ASSUME StorageShape ==
  /\ IsFiniteSet(Keys) /\ IsFiniteSet(Requests)
  /\ Hosts \cap Plans = {} /\ Keys \cap (Hosts \cup Plans) = {} /\ NoOwner \notin Hosts \cup Plans \cup Keys
  /\ Ungraced \subseteq Cleaners
  /\ NoKey \notin Keys /\ NoRow \notin Keys /\ NoKey # NoRow
  /\ MaxFaults \in Nat

VARIABLES
  object,       \* [Keys -> age of the object, "none" when there is none]
  folder,       \* [Keys -> owner named in the object name]
  attachments,  \* keys with an Attachment row
  hosts,        \* hosts whose row exists
  fileUrl,      \* [Plans -> key, NoKey, or NoRow]
  request,      \* [Requests -> where the request is]
  cleaner,      \* [Cleaners -> where the cleanup is]
  discarded,    \* history: keys and owners a user asked to delete
  faults

vars == <<object, folder, attachments, hosts, fileUrl, request, cleaner, discarded, faults>>

Owners == Hosts \cup Plans

Request ==
  [at : {"ready", "put", "row", "unlink", "unlist", "wipe", "drop", "inherit", "done"},
   owner : Owners \cup {NoOwner}, key : Keys \cup {NoKey}, left : SUBSET Keys]
Cleaner ==
  [at : {"idle", "plans", "attachments", "remove"}, old : SUBSET Keys, known : SUBSET Keys]

TypeOK ==
  /\ object \in [Keys -> {"none", "fresh", "old"}]
  /\ folder \in [Keys -> Owners \cup {NoOwner}]
  /\ attachments \subseteq Keys
  /\ hosts \subseteq Hosts
  /\ fileUrl \in [Plans -> Keys \cup {NoKey, NoRow}]
  /\ request \in [Requests -> Request]
  /\ cleaner \in [Cleaners -> Cleaner]
  /\ discarded \subseteq Keys \cup Owners
  /\ faults \in 0..MaxFaults

Ready == [at |-> "ready", owner |-> NoOwner, key |-> NoKey, left |-> {}]
Idle  == [at |-> "idle", old |-> {}, known |-> {}]

Init ==
  /\ object = [k \in Keys |-> "none"] /\ folder = [k \in Keys |-> NoOwner]
  /\ attachments = {} /\ hosts = Hosts /\ fileUrl = [p \in Plans |-> NoRow]
  /\ request = [r \in Requests |-> Ready] /\ cleaner = [c \in Cleaners |-> Idle]
  /\ discarded = {} /\ faults = 0

Stored       == {k \in Keys : object[k] # "none"}
Exists(e)    == e \in hosts \/ (e \in Plans /\ fileUrl[e] # NoRow)
InFolder(e)  == {k \in Stored : folder[k] = e}
Go(r, state) == request' = [request EXCEPT ![r] = state]
Done(r)      == Go(r, [request[r] EXCEPT !.at = "done"])
At(r, place) == request[r].at = place

Fault == faults < MaxFaults /\ faults' = faults + 1

-----------------------------------------------------------------------------
(* Uploads. *)

(* uploadAttachment / uploadFile: findOne, then the upload starts. *)
StartUpload(r) == \E e \in Owners :
  /\ At(r, "ready") /\ Exists(e)
  /\ Go(r, [Ready EXCEPT !.at = "put", !.owner = e])
  /\ UNCHANGED <<object, folder, attachments, hosts, fileUrl, cleaner, discarded, faults>>

(* FloorPlansController.create: the row with an empty fileUrl, then the
   upload. *)
CreatePlan(r) == \E p \in Plans :
  /\ At(r, "ready") /\ fileUrl[p] = NoRow /\ p \notin discarded
  /\ fileUrl' = [fileUrl EXCEPT ![p] = NoKey]
  /\ Go(r, [Ready EXCEPT !.at = "put", !.owner = p])
  /\ UNCHANGED <<object, folder, attachments, hosts, cleaner, discarded, faults>>

(* putObject under a new name in the owner's folder. *)
Put(r) == \E k \in Keys :
  /\ At(r, "put") /\ folder[k] = NoOwner
  /\ object' = [object EXCEPT ![k] = "fresh"]
  /\ folder' = [folder EXCEPT ![k] = request[r].owner]
  /\ Go(r, [request[r] EXCEPT !.at = "row", !.key = k])
  /\ UNCHANGED <<attachments, hosts, fileUrl, cleaner, discarded, faults>>

(* attachment.create: the table has no foreign key to its host. *)
AttachRow(r) ==
  /\ At(r, "row") /\ request[r].owner \in Hosts
  /\ attachments' = attachments \cup {request[r].key}
  /\ Done(r)
  /\ UNCHANGED <<object, folder, hosts, fileUrl, cleaner, discarded, faults>>

(* floorPlan.update({ fileUrl }): throws when the row is gone.  The file it
   replaces stays in the bucket: the old-file branch looks for '/uploads',
   which the URL of a MinIO object does not contain. *)
PlanRow(r) == LET p == request[r].owner IN
  /\ At(r, "row") /\ p \in Plans
  /\ fileUrl' = IF fileUrl[p] = NoRow THEN fileUrl ELSE [fileUrl EXCEPT ![p] = request[r].key]
  /\ Done(r)
  /\ UNCHANGED <<object, folder, attachments, hosts, cleaner, discarded, faults>>

-----------------------------------------------------------------------------
(* A new version of a plan that keeps the image: the source row is read, and
   the new row gets its fileUrl. *)

StartVersion(r) == \E p \in Plans :
  /\ At(r, "ready") /\ fileUrl[p] # NoRow
  /\ Go(r, [Ready EXCEPT !.at = "inherit", !.key = fileUrl[p]])
  /\ UNCHANGED <<object, folder, attachments, hosts, fileUrl, cleaner, discarded, faults>>

CreateNewVersion(r) == \E p \in Plans :
  /\ At(r, "inherit") /\ fileUrl[p] = NoRow /\ p \notin discarded
  /\ fileUrl' = [fileUrl EXCEPT ![p] = request[r].key]
  /\ Done(r)
  /\ UNCHANGED <<object, folder, attachments, hosts, cleaner, discarded, faults>>

-----------------------------------------------------------------------------
(* Deletions: first the object, then the row. *)

DeleteAttachment(r) == \E k \in attachments :
  /\ At(r, "ready")
  /\ Go(r, [Ready EXCEPT !.at = "unlink", !.key = k])
  /\ discarded' = discarded \cup {k}
  /\ UNCHANGED <<object, folder, attachments, hosts, fileUrl, cleaner, faults>>

(* deleteFromMinio swallows an error of removeObject. *)
Unlink(r) ==
  /\ At(r, "unlink")
  /\ \/ object' = [object EXCEPT ![request[r].key] = "none"] /\ UNCHANGED faults
     \/ Fault /\ UNCHANGED object
  /\ Go(r, [request[r] EXCEPT !.at = "drop"])
  /\ UNCHANGED <<folder, attachments, hosts, fileUrl, cleaner, discarded>>

(* remove() of an asset, rack or site, and of a floor plan. *)
Remove(r) == \E e \in Owners :
  /\ At(r, "ready") /\ Exists(e)
  /\ Go(r, [Ready EXCEPT !.at = "unlist", !.owner = e])
  /\ discarded' = discarded \cup {e}
  /\ UNCHANGED <<object, folder, attachments, hosts, fileUrl, cleaner, faults>>

(* deleteByPrefix lists the folder; a failed listing deletes nothing. *)
ListFolder(r) ==
  /\ At(r, "unlist")
  /\ \/ Go(r, [request[r] EXCEPT !.at = "wipe", !.left = InFolder(request[r].owner)]) /\ UNCHANGED faults
     \/ Fault /\ Go(r, [request[r] EXCEPT !.at = "drop"])
  /\ UNCHANGED <<object, folder, attachments, hosts, fileUrl, cleaner, discarded>>

(* One removeObject of the list; an error is logged and the loop goes on. *)
Wipe(r) == \E k \in request[r].left :
  /\ At(r, "wipe")
  /\ \/ object' = [object EXCEPT ![k] = "none"] /\ UNCHANGED faults
     \/ Fault /\ UNCHANGED object
  /\ Go(r, [request[r] EXCEPT !.left = @ \ {k}])
  /\ UNCHANGED <<folder, attachments, hosts, fileUrl, cleaner, discarded>>

(* The row, once the objects are dealt with.  Attachment rows of a removed
   host stay: no cascade reaches them. *)
Drop(r) == LET e == request[r].owner IN
  /\ At(r, "drop") \/ (At(r, "wipe") /\ request[r].left = {})
  /\ attachments' = attachments \ (IF e = NoOwner THEN {request[r].key} ELSE {})
  /\ hosts' = hosts \ {e}
  /\ fileUrl' = [p \in Plans |-> IF p = e THEN NoRow ELSE fileUrl[p]]
  /\ Done(r)
  /\ UNCHANGED <<object, folder, cleaner, discarded, faults>>

(* A rejected upload, a database error, a client gone with the process: the
   rest of the handler does not run. *)
Abandon(r) ==
  /\ request[r].at \notin {"ready", "done"}
  /\ Fault /\ Done(r)
  /\ UNCHANGED <<object, folder, attachments, hosts, fileUrl, cleaner, discarded>>

(* A day passes for an object.  External assumption: a request does not last
   a day, so the object of an upload still to be recorded stays fresh. *)
Age(k) ==
  /\ object[k] = "fresh"
  /\ \A r \in Requests : At(r, "row") => request[r].key # k
  /\ object' = [object EXCEPT ![k] = "old"]
  /\ UNCHANGED <<folder, attachments, hosts, fileUrl, request, cleaner, discarded, faults>>

-----------------------------------------------------------------------------
(* cleanupOrphanedStorage, from the cron of each process or by hand. *)

Clean(c, state) == cleaner' = [cleaner EXCEPT ![c] = state]
CleanerOnly     == UNCHANGED <<folder, attachments, hosts, fileUrl, request, discarded>>

(* Mutant: the grace period is not applied. *)
PastNoGrace(c) == Stored

PastGrace(c) == {k \in Stored : object[k] = "old" \/ c \in Ungraced}

(* The listing carries lastModified: what is past the grace period is fixed
   here. *)
ListBucket(c) ==
  /\ cleaner[c].at = "idle" /\ Stored # {}
  /\ Clean(c, [at |-> "plans", old |-> PastGrace(c), known |-> {}])
  /\ CleanerOnly /\ UNCHANGED <<object, faults>>

ReadPlans(c) ==
  /\ cleaner[c].at = "plans"
  /\ Clean(c, [cleaner[c] EXCEPT !.at = "attachments", !.known = {fileUrl[p] : p \in Plans} \cap Keys])
  /\ CleanerOnly /\ UNCHANGED <<object, faults>>

(* Mutant: the objects in a folder of a host are taken as known. *)
KnownByFolder(c) == cleaner[c].known \cup {k \in Keys : folder[k] \in Hosts}

KnownPaths(c) == cleaner[c].known \cup attachments

ReadAttachments(c) ==
  /\ cleaner[c].at = "attachments"
  /\ Clean(c, [cleaner[c] EXCEPT !.at = "remove", !.known = KnownPaths(c)])
  /\ CleanerOnly /\ UNCHANGED <<object, faults>>

(* One object of the listing that no row names; an error is collected and the
   loop goes on. *)
RemoveOrphan(c) == \E k \in cleaner[c].old \ cleaner[c].known :
  /\ cleaner[c].at = "remove"
  /\ \/ object' = [object EXCEPT ![k] = "none"] /\ UNCHANGED faults
     \/ Fault /\ UNCHANGED object
  /\ Clean(c, [cleaner[c] EXCEPT !.old = @ \ {k}])
  /\ CleanerOnly

EndCleanup(c) ==
  /\ cleaner[c].at = "remove" /\ cleaner[c].old \subseteq cleaner[c].known
  /\ Clean(c, Idle)
  /\ CleanerOnly /\ UNCHANGED <<object, faults>>

(* A failed listing or query, or a restart of the process. *)
AbortCleanup(c) ==
  /\ cleaner[c].at # "idle" /\ Fault /\ Clean(c, Idle)
  /\ CleanerOnly /\ UNCHANGED object

-----------------------------------------------------------------------------
Step(r) ==
  \/ Put(r) \/ AttachRow(r) \/ PlanRow(r) \/ CreateNewVersion(r)
  \/ Unlink(r) \/ ListFolder(r) \/ Wipe(r) \/ Drop(r)
Start(r) == StartUpload(r) \/ CreatePlan(r) \/ StartVersion(r) \/ DeleteAttachment(r) \/ Remove(r)
Cleanup(c) == ListBucket(c) \/ ReadPlans(c) \/ ReadAttachments(c) \/ RemoveOrphan(c) \/ EndCleanup(c)

Next ==
  \/ \E r \in Requests : Start(r) \/ Step(r) \/ Abandon(r)
  \/ \E k \in Keys : Age(k)
  \/ \E c \in Cleaners : Cleanup(c) \/ AbortCleanup(c)

Safety == Init /\ [][Next]_vars

(* Requests are served, days pass, and the cron fires every day. *)
Spec ==
  /\ Safety
  /\ \A r \in Requests : WF_vars(Step(r))
  /\ \A k \in Keys : WF_vars(Age(k))
  /\ \A c \in Cleaners : WF_vars(Cleanup(c))

-----------------------------------------------------------------------------
(* A file somebody uploaded and nobody asked to delete is there as long as
   its row is, whatever the two cleanups, the failed calls and the other
   requests on the same owner do. *)
RowHasFile ==
  /\ \A k \in attachments : {k, folder[k]} \cap discarded = {} => object[k] # "none"
  /\ \A p \in Plans : fileUrl[p] \in Keys /\ folder[fileUrl[p]] = p /\ p \notin discarded
       => object[fileUrl[p]] # "none"

Orphan(k) == object[k] # "none" /\ k \notin attachments /\ \A p \in Plans : fileUrl[p] # k

(* An object without a row, left by a failed insert, a failed removal or a
   replaced plan image, does not stay for ever. *)
OrphansCollected == \A k \in Keys : Orphan(k) ~> ~Orphan(k)

=============================================================================
