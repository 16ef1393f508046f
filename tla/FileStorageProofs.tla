------------------------- MODULE FileStorageProofs -------------------------
(***************************************************************************)
(* Proofs about the file storage, for any number of hosts, plans, objects, *)
(* requests and cleanups: RowHasFile holds as long as every cleanup        *)
(* applies the grace period.                                               *)
(***************************************************************************)
EXTENDS FileStorage, TLAPS

(* An unused name has no object, and no cleanup has listed it. *)
UnusedNames ==
  \A k \in Keys : folder[k] = NoOwner =>
    object[k] = "none" /\ \A c \in Cleaners : k \notin cleaner[c].old

(* Attachments are in the folder of a host, so the keys users delete are. *)
AttachedToHosts == \A k \in Keys : k \in attachments \cup discarded => folder[k] \in Hosts

(* What a request removes was discarded by its user. *)
Deleting ==
  \A r \in Requests :
    /\ At(r, "unlink") => request[r].key \in Keys \cap discarded
    /\ request[r].at \in {"unlink", "unlist", "wipe", "drop"} => request[r].owner \in discarded \cup {NoOwner}
    /\ At(r, "wipe") => \A k \in request[r].left : folder[k] = request[r].owner /\ folder[k] \in discarded

(* An upload waiting for its row has a fresh object, unless it was deleted. *)
Recording ==
  \A r \in Requests :
    /\ request[r].at \in {"put", "row"} => request[r].owner \in Owners
    /\ At(r, "row") =>
         /\ request[r].key \in Keys /\ folder[request[r].key] = request[r].owner
         /\ object[request[r].key] = "fresh" \/ {request[r].key, request[r].owner} \cap discarded # {}

(* A cleanup holds no object that is still fresh. *)
ListedIsOld == \A c \in Cleaners : \A k \in cleaner[c].old : object[k] # "fresh"

(* What a cleanup goes on to remove has no row of its own. *)
ListedIsKnown ==
  \A c \in Cleaners : \A k \in cleaner[c].old :
    /\ cleaner[c].at \in {"attachments", "remove"} /\ folder[k] \in Plans \ discarded
         /\ fileUrl[folder[k]] = k => k \in cleaner[c].known
    /\ cleaner[c].at = "remove" /\ k \in attachments /\ {k, folder[k]} \cap discarded = {}
         => k \in cleaner[c].known

(* No file lies in the folder of a plan that does not exist yet. *)
NewPlansAreEmpty ==
  \A p \in Plans \ discarded : fileUrl[p] = NoRow =>
    /\ \A k \in Keys : folder[k] # p
    /\ \A r \in Requests : At(r, "put") => request[r].owner # p

Inv ==
  /\ TypeOK /\ UnusedNames /\ AttachedToHosts /\ Deleting /\ Recording
  /\ ListedIsOld /\ ListedIsKnown /\ NewPlansAreEmpty /\ RowHasFile

(* The records a request and a cleanup become. *)
LEMMA Records ==
  /\ Ready \in Request /\ Idle \in Cleaner
  /\ \A q \in Request :
       /\ [q EXCEPT !.at = "done"] \in Request
       /\ [q EXCEPT !.at = "drop"] \in Request
       /\ \A k \in Keys : [q EXCEPT !.at = "row", !.key = k] \in Request
       /\ \A s \in SUBSET Keys : [q EXCEPT !.at = "wipe", !.left = s] \in Request
       /\ \A s \in SUBSET Keys : [q EXCEPT !.left = s] \in Request
  /\ \A e \in Owners : \A a \in {"put", "unlist"} : [Ready EXCEPT !.at = a, !.owner = e] \in Request
  /\ \A k \in Keys \cup {NoKey} : \A a \in {"inherit", "unlink"} : [Ready EXCEPT !.at = a, !.key = k] \in Request
  /\ \A q \in Cleaner, s \in SUBSET Keys :
       /\ [q EXCEPT !.at = "attachments", !.known = s] \in Cleaner
       /\ [q EXCEPT !.at = "remove", !.known = s] \in Cleaner
       /\ [q EXCEPT !.old = s] \in Cleaner
BY DEF Ready, Idle, Request, Cleaner

(* A request that ends. *)
LEMMA DoneRecord ==
  ASSUME TypeOK, NEW r \in Requests
  PROVE  /\ [request[r] EXCEPT !.at = "done"] \in Request
         /\ [request[r] EXCEPT !.at = "done"].at = "done"
<1>1. request[r] \in Request
  BY DEF TypeOK
<1>2. [request[r] EXCEPT !.at = "done"] \in Request
  BY <1>1, Records
<1>3. [request[r] EXCEPT !.at = "done"].at = "done"
  BY <1>1 DEF Request
<1> QED BY <1>2, <1>3

(* A request moves, and the other requests stay. *)
LEMMA Moves ==
  ASSUME TypeOK, NEW r \in Requests, NEW q \in Request, Go(r, q)
  PROVE  request' \in [Requests -> Request] /\ request'[r] = q
         /\ \A s \in Requests : s # r => request'[s] = request[s]
BY DEF Go, TypeOK

(* A cleanup moves, and the other cleanups stay. *)
LEMMA Cleans ==
  ASSUME TypeOK, NEW c \in Cleaners, NEW q \in Cleaner, Clean(c, q)
  PROVE  cleaner' \in [Cleaners -> Cleaner] /\ cleaner'[c] = q
         /\ \A s \in Cleaners : s # c => cleaner'[s] = cleaner[s]
BY DEF Clean, TypeOK

(* A fault that happens is counted within the bound. *)
LEMMA FaultType ==
  ASSUME TypeOK, Fault \/ UNCHANGED faults
  PROVE  faults' \in 0..MaxFaults
BY StorageShape, SMT DEF Fault, TypeOK

(* Initially nothing is stored. *)
LEMMA InitInv == Init => Inv
<1> SUFFICES ASSUME Init PROVE Inv
  OBVIOUS
<1>1. TypeOK
  <2>1. faults \in 0..MaxFaults
    BY StorageShape DEF Init
  <2> QED BY <2>1, Records DEF Init, TypeOK
<1>2. UnusedNames /\ ListedIsOld /\ ListedIsKnown
  BY DEF Init, UnusedNames, ListedIsOld, ListedIsKnown, Idle
<1>3. AttachedToHosts /\ Deleting /\ Recording /\ NewPlansAreEmpty
  BY StorageShape DEF Init, AttachedToHosts, Deleting, Recording, NewPlansAreEmpty, At, Ready
<1>4. RowHasFile
  BY StorageShape DEF Init, RowHasFile
<1> QED BY <1>1, <1>2, <1>3, <1>4 DEF Inv

(* An upload starts, for an owner that exists. *)
LEMMA StartUploadInv == ASSUME Inv, NEW r \in Requests, StartUpload(r) PROVE Inv'
<1>1. PICK e \in Owners : Exists(e) /\ Go(r, [Ready EXCEPT !.at = "put", !.owner = e])
  BY DEF StartUpload
<1> DEFINE q == [Ready EXCEPT !.at = "put", !.owner = e]
<1>2. q \in Request /\ q.at = "put" /\ q.owner = e
  BY Records DEF Ready
<1> HIDE DEF q
<1>3. /\ request' \in [Requests -> Request] /\ request'[r] = q
      /\ \A s \in Requests : s # r => request'[s] = request[s]
  BY <1>1, <1>2, Moves DEF Inv, q
<1>4. UNCHANGED <<object, folder, attachments, hosts, fileUrl, cleaner, discarded, faults>>
  BY DEF StartUpload
<1>5. TypeOK'
  BY <1>3, <1>4 DEF Inv, TypeOK
<1>6. Deleting' /\ Recording'
  BY <1>2, <1>3, <1>4 DEF Inv, Deleting, Recording, At
<1>7. NewPlansAreEmpty'
  <2>1. e \in Plans => fileUrl[e] # NoRow
    BY <1>1, StorageShape DEF Exists, Inv, TypeOK
  <2> QED BY <1>2, <1>3, <1>4, <2>1 DEF Inv, NewPlansAreEmpty, At
<1>8. (UnusedNames /\ AttachedToHosts /\ ListedIsOld /\ ListedIsKnown /\ RowHasFile)'
  BY <1>4 DEF Inv, UnusedNames, AttachedToHosts, ListedIsOld, ListedIsKnown, RowHasFile
<1> QED BY <1>5, <1>6, <1>7, <1>8 DEF Inv

(* A plan is created, under an id that no folder names. *)
LEMMA CreatePlanInv == ASSUME Inv, NEW r \in Requests, CreatePlan(r) PROVE Inv'
<1>1. PICK p \in Plans : /\ fileUrl[p] = NoRow /\ p \notin discarded
                         /\ fileUrl' = [fileUrl EXCEPT ![p] = NoKey]
                         /\ Go(r, [Ready EXCEPT !.at = "put", !.owner = p])
  BY DEF CreatePlan
<1> DEFINE q == [Ready EXCEPT !.at = "put", !.owner = p]
<1>2. q \in Request /\ q.at = "put" /\ q.owner = p
  BY Records DEF Ready, Owners
<1> HIDE DEF q
<1>3. /\ request' \in [Requests -> Request] /\ request'[r] = q
      /\ \A s \in Requests : s # r => request'[s] = request[s]
  BY <1>1, <1>2, Moves DEF Inv, q
<1>4. UNCHANGED <<object, folder, attachments, hosts, cleaner, discarded, faults>>
  BY DEF CreatePlan
<1>5. /\ fileUrl' \in [Plans -> Keys \cup {NoKey, NoRow}] /\ fileUrl'[p] = NoKey
      /\ \A o \in Plans : o # p => fileUrl'[o] = fileUrl[o]
  BY <1>1 DEF Inv, TypeOK
<1>6. TypeOK'
  BY <1>3, <1>4, <1>5 DEF Inv, TypeOK
<1>7. Deleting' /\ Recording'
  BY <1>2, <1>3, <1>4 DEF Inv, Deleting, Recording, At, Owners
<1>8. NewPlansAreEmpty'
  BY <1>2, <1>3, <1>4, <1>5, StorageShape DEF Inv, NewPlansAreEmpty, At
<1>9. (UnusedNames /\ AttachedToHosts /\ ListedIsOld)'
  BY <1>4 DEF Inv, UnusedNames, AttachedToHosts, ListedIsOld
<1>10. ListedIsKnown' /\ RowHasFile'
  <2>1. NoKey \notin Keys
    BY StorageShape
  <2>2. \A c \in Cleaners : cleaner[c].old \subseteq Keys
    BY DEF Inv, TypeOK, Cleaner
  <2>3. \A k \in Keys, o \in Plans : fileUrl'[o] = k => fileUrl[o] = k
    BY <1>5, <2>1
  <2>4. ListedIsKnown'
    BY <1>4, <2>2, <2>3 DEF Inv, ListedIsKnown
  <2>5. RowHasFile'
    BY <1>4, <2>3 DEF Inv, RowHasFile
  <2> QED BY <2>4, <2>5
<1> QED BY <1>6, <1>7, <1>8, <1>9, <1>10 DEF Inv

(* An object is written under a new name. *)
LEMMA PutInv == ASSUME Inv, NEW r \in Requests, Put(r) PROVE Inv'
<1>1. PICK k \in Keys : /\ At(r, "put") /\ folder[k] = NoOwner
                        /\ object' = [object EXCEPT ![k] = "fresh"]
                        /\ folder' = [folder EXCEPT ![k] = request[r].owner]
                        /\ Go(r, [request[r] EXCEPT !.at = "row", !.key = k])
  BY DEF Put
<1> DEFINE q == [request[r] EXCEPT !.at = "row", !.key = k]
<1>2. /\ q \in Request /\ q.at = "row" /\ q.key = k /\ q.owner = request[r].owner
      /\ request[r].owner \in Owners
  <2>1. request[r] \in Request
    BY DEF Inv, TypeOK
  <2>2. request[r].owner \in Owners
    BY <1>1 DEF Inv, Recording, At
  <2>3. q \in Request
    BY <2>1, Records
  <2>4. q.at = "row" /\ q.key = k /\ q.owner = request[r].owner
    BY <2>1 DEF Request
  <2> QED BY <2>2, <2>3, <2>4
<1> HIDE DEF q
<1>3. /\ request' \in [Requests -> Request] /\ request'[r] = q
      /\ \A s \in Requests : s # r => request'[s] = request[s]
  BY <1>1, <1>2, Moves DEF Inv, q
<1>4. UNCHANGED <<attachments, hosts, fileUrl, cleaner, discarded, faults>>
  BY DEF Put
<1>5. /\ object' \in [Keys -> {"none", "fresh", "old"}] /\ object'[k] = "fresh"
      /\ folder' \in [Keys -> Owners \cup {NoOwner}] /\ folder'[k] = request[r].owner
      /\ \A j \in Keys : j # k => object'[j] = object[j] /\ folder'[j] = folder[j]
  BY <1>1, <1>2 DEF Inv, TypeOK
<1>6. /\ NoOwner \notin Owners /\ k \notin attachments /\ k \notin discarded
      /\ \A c \in Cleaners : k \notin cleaner[c].old
  BY <1>1, StorageShape DEF Inv, AttachedToHosts, UnusedNames, Owners
<1>7. \A c \in Cleaners : cleaner[c].old \subseteq Keys
  BY DEF Inv, TypeOK, Cleaner
<1>8. TypeOK'
  BY <1>3, <1>4, <1>5 DEF Inv, TypeOK
<1>9. UnusedNames' /\ ListedIsOld'
  BY <1>2, <1>4, <1>5, <1>6, <1>7 DEF Inv, UnusedNames, ListedIsOld
<1>10. AttachedToHosts'
  BY <1>4, <1>5, <1>6 DEF Inv, AttachedToHosts
<1>11. Deleting'
  <2>1. \A s \in Requests : At(s, "wipe") => k \notin request[s].left
    BY <1>1, <1>6, StorageShape DEF Inv, Deleting, TypeOK, Owners, At
  <2> QED BY <1>2, <1>3, <1>4, <1>5, <2>1 DEF Inv, Deleting, At, TypeOK, Request
<1>12. Recording'
  <2>1. \A s \in Requests : At(s, "row") => request[s].key # k
    BY <1>1, <1>6 DEF Inv, Recording, At
  <2> QED BY <1>2, <1>3, <1>4, <1>5, <2>1 DEF Inv, Recording, At
<1>13. ListedIsKnown'
  BY <1>4, <1>5, <1>6, <1>7 DEF Inv, ListedIsKnown
<1>14. NewPlansAreEmpty'
  BY <1>1, <1>2, <1>3, <1>4, <1>5 DEF Inv, NewPlansAreEmpty, At
<1>15. RowHasFile'
  <2>1. attachments \subseteq Keys
    BY DEF Inv, TypeOK
  <2> QED BY <1>4, <1>5, <1>6, <2>1 DEF Inv, RowHasFile
<1> QED BY <1>8, <1>9, <1>10, <1>11, <1>12, <1>13, <1>14, <1>15 DEF Inv

(* An attachment row is written: its object is there, or was deleted with
   its host. *)
LEMMA AttachRowInv == ASSUME Inv, NEW r \in Requests, AttachRow(r) PROVE Inv'
<1> DEFINE q == [request[r] EXCEPT !.at = "done"]
<1>1. q \in Request /\ q.at = "done"
  BY DoneRecord DEF Inv
<1>2. Go(r, q)
  BY DEF AttachRow, Done
<1> HIDE DEF q
<1>3. /\ request' \in [Requests -> Request] /\ request'[r] = q
      /\ \A s \in Requests : s # r => request'[s] = request[s]
  BY <1>1, <1>2, Moves DEF Inv
<1> DEFINE k == request[r].key
<1>4. /\ UNCHANGED <<object, folder, hosts, fileUrl, cleaner, discarded, faults>>
      /\ attachments' = attachments \cup {k} /\ At(r, "row") /\ request[r].owner \in Hosts
  BY DEF AttachRow
<1>5. k \in Keys /\ folder[k] = request[r].owner /\ (object[k] = "fresh" \/ {k, folder[k]} \cap discarded # {})
  BY <1>4 DEF Inv, Recording
<1> HIDE DEF k
<1>6. TypeOK'
  BY <1>3, <1>4, <1>5 DEF Inv, TypeOK
<1>7. AttachedToHosts' /\ UnusedNames' /\ ListedIsOld'
  BY <1>4, <1>5 DEF Inv, AttachedToHosts, UnusedNames, ListedIsOld
<1>8. Deleting' /\ Recording' /\ NewPlansAreEmpty'
  BY <1>1, <1>3, <1>4 DEF Inv, Deleting, Recording, NewPlansAreEmpty, At
<1>9. ListedIsKnown'
  <2>1. \A c \in Cleaners : k \in cleaner[c].old => {k, folder[k]} \cap discarded # {}
    BY <1>5 DEF Inv, ListedIsOld
  <2> QED BY <1>4, <2>1 DEF Inv, ListedIsKnown
<1>10. RowHasFile'
  BY <1>4, <1>5 DEF Inv, RowHasFile
<1> QED BY <1>6, <1>7, <1>8, <1>9, <1>10 DEF Inv

(* The image of a plan is recorded, or the plan is gone. *)
LEMMA PlanRowInv == ASSUME Inv, NEW r \in Requests, PlanRow(r) PROVE Inv'
<1> DEFINE q == [request[r] EXCEPT !.at = "done"]
<1>1. q \in Request /\ q.at = "done"
  BY DoneRecord DEF Inv
<1>2. Go(r, q)
  BY DEF PlanRow, Done
<1> HIDE DEF q
<1>3. /\ request' \in [Requests -> Request] /\ request'[r] = q
      /\ \A s \in Requests : s # r => request'[s] = request[s]
  BY <1>1, <1>2, Moves DEF Inv
<1> DEFINE k == request[r].key
           p == request[r].owner
<1>4. /\ UNCHANGED <<object, folder, hosts, attachments, cleaner, discarded, faults>>
      /\ At(r, "row") /\ p \in Plans
      /\ fileUrl' = IF fileUrl[p] = NoRow THEN fileUrl ELSE [fileUrl EXCEPT ![p] = k]
  BY DEF PlanRow
<1>5. k \in Keys /\ folder[k] = p /\ (object[k] = "fresh" \/ {k, p} \cap discarded # {})
  BY <1>4 DEF Inv, Recording
<1>6. k \notin discarded
  BY <1>4, <1>5, StorageShape DEF Inv, AttachedToHosts
<1> HIDE DEF k, p
<1>7. /\ fileUrl' \in [Plans -> Keys \cup {NoKey, NoRow}]
      /\ \A o \in Plans : fileUrl'[o] = fileUrl[o] \/ (o = p /\ fileUrl'[o] = k /\ fileUrl[o] # NoRow)
  BY <1>4, <1>5 DEF Inv, TypeOK
<1>8. TypeOK'
  BY <1>3, <1>4, <1>7 DEF Inv, TypeOK
<1>9. AttachedToHosts' /\ UnusedNames' /\ ListedIsOld'
  BY <1>4 DEF Inv, AttachedToHosts, UnusedNames, ListedIsOld
<1>10. Deleting' /\ Recording'
  BY <1>1, <1>3, <1>4 DEF Inv, Deleting, Recording, At
<1>11. NewPlansAreEmpty'
  <2>1. NoRow \notin Keys
    BY StorageShape
  <2> QED BY <1>1, <1>3, <1>4, <1>5, <1>7, <2>1 DEF Inv, NewPlansAreEmpty, At
<1>12. ListedIsKnown'
  <2>1. \A c \in Cleaners : k \in cleaner[c].old => p \in discarded
    BY <1>5, <1>6 DEF Inv, ListedIsOld
  <2> QED BY <1>4, <1>5, <1>7, <2>1 DEF Inv, ListedIsKnown
<1>13. RowHasFile'
  BY <1>4, <1>5, <1>6, <1>7 DEF Inv, RowHasFile
<1> QED BY <1>8, <1>9, <1>10, <1>11, <1>12, <1>13 DEF Inv

(* A version is begun: the source row is read. *)
LEMMA StartVersionInv == ASSUME Inv, NEW r \in Requests, StartVersion(r) PROVE Inv'
<1>1. PICK p \in Plans : fileUrl[p] # NoRow /\ Go(r, [Ready EXCEPT !.at = "inherit", !.key = fileUrl[p]])
  BY DEF StartVersion
<1> DEFINE q == [Ready EXCEPT !.at = "inherit", !.key = fileUrl[p]]
<1>2. q \in Request /\ q.at = "inherit"
  <2>1. fileUrl[p] \in Keys \cup {NoKey}
    BY <1>1 DEF Inv, TypeOK
  <2> QED BY <2>1, Records DEF Ready
<1> HIDE DEF q
<1>3. /\ request' \in [Requests -> Request] /\ request'[r] = q
      /\ \A s \in Requests : s # r => request'[s] = request[s]
  BY <1>1, <1>2, Moves DEF Inv, q
<1>4. UNCHANGED <<object, folder, attachments, hosts, fileUrl, cleaner, discarded, faults>>
  BY DEF StartVersion
<1>5. TypeOK'
  BY <1>3, <1>4 DEF Inv, TypeOK
<1>6. Deleting' /\ Recording' /\ NewPlansAreEmpty'
  BY <1>2, <1>3, <1>4 DEF Inv, Deleting, Recording, NewPlansAreEmpty, At
<1>7. (UnusedNames /\ AttachedToHosts /\ ListedIsOld /\ ListedIsKnown /\ RowHasFile)'
  BY <1>4 DEF Inv, UnusedNames, AttachedToHosts, ListedIsOld, ListedIsKnown, RowHasFile
<1> QED BY <1>5, <1>6, <1>7 DEF Inv

(* The new version inherits an image that lies in another folder. *)
LEMMA CreateNewVersionInv == ASSUME Inv, NEW r \in Requests, CreateNewVersion(r) PROVE Inv'
<1> DEFINE q == [request[r] EXCEPT !.at = "done"]
<1>1. q \in Request /\ q.at = "done"
  BY DoneRecord DEF Inv
<1> DEFINE k == request[r].key
<1>2. PICK p \in Plans : fileUrl[p] = NoRow /\ p \notin discarded /\ fileUrl' = [fileUrl EXCEPT ![p] = k]
  BY DEF CreateNewVersion
<1>3. Go(r, q) /\ UNCHANGED <<object, folder, hosts, attachments, cleaner, discarded, faults>>
  BY DEF CreateNewVersion, Done
<1> HIDE DEF q
<1>4. /\ request' \in [Requests -> Request] /\ request'[r] = q
      /\ \A s \in Requests : s # r => request'[s] = request[s]
  BY <1>1, <1>3, Moves DEF Inv
<1>5. k \in Keys \cup {NoKey}
  BY DEF Inv, TypeOK, Request
<1> HIDE DEF k
<1>6. NoRow \notin Keys \cup {NoKey} /\ NoKey \notin Keys
  BY StorageShape
<1>7. /\ fileUrl' \in [Plans -> Keys \cup {NoKey, NoRow}] /\ fileUrl'[p] = k
      /\ \A o \in Plans : o # p => fileUrl'[o] = fileUrl[o]
  BY <1>2, <1>5 DEF Inv, TypeOK
<1>8. \A j \in Keys : folder[j] # p
  BY <1>2 DEF Inv, NewPlansAreEmpty
<1>9. TypeOK'
  BY <1>3, <1>4, <1>7 DEF Inv, TypeOK
<1>10. AttachedToHosts' /\ UnusedNames' /\ ListedIsOld'
  BY <1>3 DEF Inv, AttachedToHosts, UnusedNames, ListedIsOld
<1>11. Deleting' /\ Recording'
  BY <1>1, <1>3, <1>4 DEF Inv, Deleting, Recording, At
<1>12. NewPlansAreEmpty'
  BY <1>1, <1>3, <1>4, <1>5, <1>6, <1>7 DEF Inv, NewPlansAreEmpty, At
<1>13. ListedIsKnown'
  <2>1. \A c \in Cleaners : cleaner[c].old \subseteq Keys
    BY DEF Inv, TypeOK, Cleaner
  <2> QED BY <1>3, <1>7, <1>8, <2>1 DEF Inv, ListedIsKnown
<1>14. RowHasFile'
  BY <1>3, <1>7, <1>8 DEF Inv, RowHasFile
<1> QED BY <1>9, <1>10, <1>11, <1>12, <1>13, <1>14 DEF Inv

(* A deletion is asked for: the key, or the owner, is discarded. *)
LEMMA DiscardInv ==
  ASSUME Inv, NEW r \in Requests, DeleteAttachment(r) \/ Remove(r)
  PROVE  Inv'
<1>1. PICK x \in Keys \cup Owners, q \in Request :
        /\ Go(r, q) /\ discarded' = discarded \cup {x}
        /\ \/ q.at = "unlink" /\ q.key = x /\ x \in attachments
           \/ q.at = "unlist" /\ q.owner = x /\ x \in Owners
        /\ q.owner \in {x, NoOwner}
  <2>1. CASE DeleteAttachment(r)
    <3>1. PICK k \in attachments : /\ Go(r, [Ready EXCEPT !.at = "unlink", !.key = k])
                                   /\ discarded' = discarded \cup {k}
      BY <2>1 DEF DeleteAttachment
    <3>2. k \in Keys
      BY DEF Inv, TypeOK
    <3>3. [Ready EXCEPT !.at = "unlink", !.key = k] \in Request
      BY <3>2, Records
    <3>4. /\ [Ready EXCEPT !.at = "unlink", !.key = k].at = "unlink"
          /\ [Ready EXCEPT !.at = "unlink", !.key = k].key = k
          /\ [Ready EXCEPT !.at = "unlink", !.key = k].owner = NoOwner
      BY DEF Ready
    <3> QED BY <3>1, <3>2, <3>3, <3>4
  <2>2. CASE Remove(r)
    <3>1. PICK e \in Owners : /\ Go(r, [Ready EXCEPT !.at = "unlist", !.owner = e])
                              /\ discarded' = discarded \cup {e}
      BY <2>2 DEF Remove
    <3>3. [Ready EXCEPT !.at = "unlist", !.owner = e] \in Request
      BY <3>1, Records
    <3>4. /\ [Ready EXCEPT !.at = "unlist", !.owner = e].at = "unlist"
          /\ [Ready EXCEPT !.at = "unlist", !.owner = e].owner = e
      BY DEF Ready
    <3> QED BY <3>1, <3>3, <3>4
  <2> QED BY <2>1, <2>2
<1>2. UNCHANGED <<object, folder, attachments, hosts, fileUrl, cleaner, faults>>
  BY DEF DeleteAttachment, Remove
<1>3. /\ request' \in [Requests -> Request] /\ request'[r] = q
      /\ \A s \in Requests : s # r => request'[s] = request[s]
  BY <1>1, Moves DEF Inv
<1>4. TypeOK'
  BY <1>1, <1>2, <1>3 DEF Inv, TypeOK
<1>5. x \in Keys => x \in attachments
  BY <1>1, StorageShape DEF Owners
<1>6. AttachedToHosts'
  BY <1>1, <1>2, <1>5 DEF Inv, AttachedToHosts
<1>7. UnusedNames' /\ ListedIsOld'
  BY <1>2 DEF Inv, UnusedNames, ListedIsOld
<1>8. Deleting'
  BY <1>1, <1>2, <1>3, <1>5 DEF Inv, Deleting, At, TypeOK
<1>9. Recording' /\ NewPlansAreEmpty'
  BY <1>1, <1>2, <1>3 DEF Inv, Recording, NewPlansAreEmpty, At
<1>10. ListedIsKnown' /\ RowHasFile'
  BY <1>1, <1>2 DEF Inv, ListedIsKnown, RowHasFile
<1> QED BY <1>4, <1>6, <1>7, <1>8, <1>9, <1>10 DEF Inv

(* Objects disappear and nothing else does: enough that no row loses one. *)
LEMMA ObjectsGo ==
  ASSUME Inv, UNCHANGED <<folder, attachments, hosts, fileUrl, discarded>>,
         faults' \in 0..MaxFaults,
         object' \in [Keys -> {"none", "fresh", "old"}],
         \A k \in Keys : object'[k] = object[k] \/ object'[k] = "none",
         \A k \in Keys : object'[k] # object[k] =>
           /\ k \in attachments => {k, folder[k]} \cap discarded # {}
           /\ folder[k] \in Plans \ discarded => fileUrl[folder[k]] # k
  PROVE  /\ (TypeOK /\ cleaner' = cleaner /\ request' \in [Requests -> Request]) => TypeOK'
         /\ RowHasFile'
         /\ cleaner' = cleaner => UnusedNames' /\ ListedIsOld' /\ ListedIsKnown'
         /\ AttachedToHosts'
         /\ (request' = request /\ \A k \in Keys : object'[k] # object[k] => object[k] # "fresh") => Recording'
<1>1. RowHasFile'
  BY DEF Inv, RowHasFile, TypeOK
<1>2. cleaner' = cleaner => UnusedNames' /\ ListedIsOld' /\ ListedIsKnown'
  BY DEF Inv, UnusedNames, ListedIsOld, ListedIsKnown, TypeOK, Cleaner
<1>3. (cleaner' = cleaner /\ request' \in [Requests -> Request]) => TypeOK'
  BY DEF Inv, TypeOK
<1>4. AttachedToHosts'
  BY DEF Inv, AttachedToHosts
<1>5. (request' = request /\ \A k \in Keys : object'[k] # object[k] => object[k] # "fresh") => Recording'
  BY DEF Inv, Recording, At
<1> QED BY <1>1, <1>2, <1>3, <1>4, <1>5

(* An attachment's object is removed, or the error is swallowed. *)
LEMMA UnlinkInv == ASSUME Inv, NEW r \in Requests, Unlink(r) PROVE Inv'
<1> DEFINE q == [request[r] EXCEPT !.at = "drop"]
           k == request[r].key
<1>1. request[r] \in Request
  BY DEF Inv, TypeOK
<1>2. q \in Request /\ q.at = "drop" /\ q.owner = request[r].owner /\ q.key = k
  <2>1. q \in Request
    BY <1>1, Records
  <2>2. q.at = "drop" /\ q.owner = request[r].owner /\ q.key = k
    BY <1>1 DEF Request
  <2> QED BY <2>1, <2>2
<1>3. Go(r, q)
  BY DEF Unlink
<1> HIDE DEF q
<1>4. /\ request' \in [Requests -> Request] /\ request'[r] = q
      /\ \A s \in Requests : s # r => request'[s] = request[s]
  BY <1>2, <1>3, Moves DEF Inv
<1>5. k \in Keys /\ k \in discarded /\ folder[k] \in Hosts
  BY DEF Inv, Deleting, Unlink, AttachedToHosts
<1>6. /\ UNCHANGED <<folder, attachments, hosts, fileUrl, cleaner, discarded>>
      /\ object' = [object EXCEPT ![k] = "none"] \/ object' = object
      /\ Fault \/ UNCHANGED faults
  BY DEF Unlink
<1> HIDE DEF k
<1>7. faults' \in 0..MaxFaults
  BY <1>6, FaultType DEF Inv
<1>8. /\ object' \in [Keys -> {"none", "fresh", "old"}]
      /\ \A j \in Keys : object'[j] = object[j] \/ (j = k /\ object'[j] = "none")
  BY <1>6 DEF Inv, TypeOK
<1>9. folder[k] \notin Plans
  BY <1>5, StorageShape
<1>10. /\ TypeOK' /\ RowHasFile' /\ UnusedNames' /\ ListedIsOld' /\ ListedIsKnown' /\ AttachedToHosts'
  BY <1>4, <1>5, <1>6, <1>7, <1>8, <1>9, ObjectsGo DEF Inv
<1>11. Deleting'
  <2>1. request[r].owner \in discarded \cup {NoOwner}
    BY DEF Inv, Deleting, At, Unlink
  <2>2. q.owner \in discarded' \cup {NoOwner} /\ q.at = "drop"
    BY <1>2, <1>6, <2>1
  <2> QED BY <1>4, <1>6, <2>2 DEF Inv, Deleting, At
<1>12. Recording'
  BY <1>2, <1>4, <1>5, <1>6, <1>8 DEF Inv, Recording, At
<1>13. NewPlansAreEmpty'
  BY <1>2, <1>4, <1>6 DEF Inv, NewPlansAreEmpty, At
<1> QED BY <1>10, <1>11, <1>12, <1>13 DEF Inv

(* The folder is listed for removal. *)
LEMMA ListFolderInv == ASSUME Inv, NEW r \in Requests, ListFolder(r) PROVE Inv'
<1>1. request[r] \in Request /\ At(r, "unlist") /\ InFolder(request[r].owner) \in SUBSET Keys
  BY DEF Inv, TypeOK, ListFolder, InFolder, Stored
<1>2. PICK q \in Request :
        /\ Go(r, q) /\ q.owner = request[r].owner
        /\ q.at = "drop" \/ (q.at = "wipe" /\ q.left = InFolder(request[r].owner))
  <2>1. /\ [request[r] EXCEPT !.at = "drop"] \in Request
        /\ [request[r] EXCEPT !.at = "wipe", !.left = InFolder(request[r].owner)] \in Request
    BY <1>1, Records
  <2>2. /\ [request[r] EXCEPT !.at = "drop"].at = "drop"
        /\ [request[r] EXCEPT !.at = "drop"].owner = request[r].owner
        /\ [request[r] EXCEPT !.at = "wipe", !.left = InFolder(request[r].owner)].at = "wipe"
        /\ [request[r] EXCEPT !.at = "wipe", !.left = InFolder(request[r].owner)].left = InFolder(request[r].owner)
        /\ [request[r] EXCEPT !.at = "wipe", !.left = InFolder(request[r].owner)].owner = request[r].owner
    BY <1>1 DEF Request
  <2>3. \/ Go(r, [request[r] EXCEPT !.at = "drop"])
        \/ Go(r, [request[r] EXCEPT !.at = "wipe", !.left = InFolder(request[r].owner)])
    BY DEF ListFolder
  <2> QED BY <2>1, <2>2, <2>3
<1>3. /\ request' \in [Requests -> Request] /\ request'[r] = q
      /\ \A s \in Requests : s # r => request'[s] = request[s]
  BY <1>2, Moves DEF Inv
<1>4. UNCHANGED <<object, folder, attachments, hosts, fileUrl, cleaner, discarded>>
  BY DEF ListFolder
<1>5. faults' \in 0..MaxFaults
  BY FaultType DEF Inv, ListFolder
<1>6. TypeOK'
  BY <1>3, <1>4, <1>5 DEF Inv, TypeOK
<1>7. Deleting'
  <2>1. request[r].owner \in discarded \cup {NoOwner}
    BY <1>1 DEF Inv, Deleting, At
  <2>2. \A k \in InFolder(request[r].owner) : folder[k] = request[r].owner /\ folder[k] \in discarded
    BY <2>1 DEF Inv, UnusedNames, InFolder, Stored
  <2> QED BY <1>2, <1>3, <1>4, <2>1, <2>2 DEF Inv, Deleting, At
<1>8. Recording' /\ NewPlansAreEmpty'
  BY <1>2, <1>3, <1>4 DEF Inv, Recording, NewPlansAreEmpty, At
<1>9. (UnusedNames /\ AttachedToHosts /\ ListedIsOld /\ ListedIsKnown /\ RowHasFile)'
  BY <1>4 DEF Inv, UnusedNames, AttachedToHosts, ListedIsOld, ListedIsKnown, RowHasFile
<1> QED BY <1>6, <1>7, <1>8, <1>9 DEF Inv

(* An object of a discarded folder is removed. *)
LEMMA WipeInv == ASSUME Inv, NEW r \in Requests, Wipe(r) PROVE Inv'
<1>1. PICK k \in request[r].left :
        /\ object' = [object EXCEPT ![k] = "none"] \/ object' = object
        /\ Go(r, [request[r] EXCEPT !.left = request[r].left \ {k}])
  BY DEF Wipe
<1> DEFINE q == [request[r] EXCEPT !.left = request[r].left \ {k}]
<1>2. request[r] \in Request /\ At(r, "wipe")
  BY DEF Inv, TypeOK, Wipe
<1>3. q \in Request /\ q.at = "wipe" /\ q.owner = request[r].owner /\ q.left \subseteq request[r].left
  <2>1. request[r].left \ {k} \in SUBSET Keys
    BY <1>2 DEF Request
  <2>2. q \in Request
    BY <1>2, <2>1, Records
  <2>3. q.at = "wipe" /\ q.owner = request[r].owner /\ q.left \subseteq request[r].left
    BY <1>2 DEF Request, At
  <2> QED BY <2>2, <2>3
<1> HIDE DEF q
<1>4. /\ request' \in [Requests -> Request] /\ request'[r] = q
      /\ \A s \in Requests : s # r => request'[s] = request[s]
  BY <1>1, <1>3, Moves DEF Inv, q
<1>5. k \in Keys /\ folder[k] \in discarded
  BY <1>2 DEF Inv, Deleting, Request
<1>6. /\ UNCHANGED <<folder, attachments, hosts, fileUrl, cleaner, discarded>>
      /\ Fault \/ UNCHANGED faults
  BY DEF Wipe
<1>7. faults' \in 0..MaxFaults
  BY <1>6, FaultType DEF Inv
<1>8. /\ object' \in [Keys -> {"none", "fresh", "old"}]
      /\ \A j \in Keys : object'[j] = object[j] \/ (j = k /\ object'[j] = "none")
  BY <1>1, <1>5 DEF Inv, TypeOK
<1>9. /\ TypeOK' /\ RowHasFile' /\ UnusedNames' /\ ListedIsOld' /\ ListedIsKnown' /\ AttachedToHosts'
  BY <1>4, <1>5, <1>6, <1>7, <1>8, ObjectsGo DEF Inv
<1>10. Deleting'
  BY <1>2, <1>3, <1>4, <1>6 DEF Inv, Deleting, At
<1>11. Recording'
  BY <1>3, <1>4, <1>5, <1>6, <1>8 DEF Inv, Recording, At
<1>12. NewPlansAreEmpty'
  BY <1>3, <1>4, <1>6 DEF Inv, NewPlansAreEmpty, At
<1> QED BY <1>9, <1>10, <1>11, <1>12 DEF Inv

(* The row goes last. *)
LEMMA DropInv == ASSUME Inv, NEW r \in Requests, Drop(r) PROVE Inv'
<1> DEFINE q == [request[r] EXCEPT !.at = "done"]
<1>1. q \in Request /\ q.at = "done"
  BY DoneRecord DEF Inv
<1> DEFINE e == request[r].owner
<1>2. /\ Go(r, q) /\ attachments' \subseteq attachments /\ hosts' \subseteq hosts
      /\ fileUrl' = [p \in Plans |-> IF p = e THEN NoRow ELSE fileUrl[p]]
      /\ UNCHANGED <<object, folder, cleaner, discarded, faults>>
      /\ request[r].at \in {"wipe", "drop"}
  BY DEF Drop, Done, At
<1> HIDE DEF q
<1>3. /\ request' \in [Requests -> Request] /\ request'[r] = q
      /\ \A s \in Requests : s # r => request'[s] = request[s]
  BY <1>1, <1>2, Moves DEF Inv
<1>4. e \in discarded \cup {NoOwner} /\ NoOwner \notin Plans
  BY <1>2, StorageShape DEF Inv, Deleting
<1> HIDE DEF e
<1>5. /\ fileUrl' \in [Plans -> Keys \cup {NoKey, NoRow}]
      /\ \A p \in Plans : fileUrl'[p] = fileUrl[p] \/ (p \in discarded /\ fileUrl'[p] = NoRow)
  BY <1>2, <1>4 DEF Inv, TypeOK
<1>6. TypeOK'
  BY <1>2, <1>3, <1>5 DEF Inv, TypeOK
<1>7. (UnusedNames /\ AttachedToHosts /\ ListedIsOld)'
  BY <1>2 DEF Inv, UnusedNames, AttachedToHosts, ListedIsOld
<1>8. Deleting' /\ Recording' /\ NewPlansAreEmpty'
  BY <1>1, <1>2, <1>3, <1>5 DEF Inv, Deleting, Recording, NewPlansAreEmpty, At
<1>9. ListedIsKnown'
  BY <1>2, <1>5 DEF Inv, ListedIsKnown
<1>10. RowHasFile'
  BY <1>2, <1>5 DEF Inv, RowHasFile
<1> QED BY <1>6, <1>7, <1>8, <1>9, <1>10 DEF Inv

(* A request gives up. *)
LEMMA AbandonInv == ASSUME Inv, NEW r \in Requests, Abandon(r) PROVE Inv'
<1> DEFINE q == [request[r] EXCEPT !.at = "done"]
<1>1. q \in Request /\ q.at = "done"
  BY DoneRecord DEF Inv
<1>2. Go(r, q) /\ UNCHANGED <<object, folder, attachments, hosts, fileUrl, cleaner, discarded>>
  BY DEF Abandon, Done
<1> HIDE DEF q
<1>3. /\ request' \in [Requests -> Request] /\ request'[r] = q
      /\ \A s \in Requests : s # r => request'[s] = request[s]
  BY <1>1, <1>2, Moves DEF Inv
<1>4. faults' \in 0..MaxFaults
  BY FaultType DEF Inv, Abandon
<1>5. TypeOK'
  BY <1>2, <1>3, <1>4 DEF Inv, TypeOK
<1>6. Deleting' /\ Recording' /\ NewPlansAreEmpty'
  BY <1>1, <1>2, <1>3 DEF Inv, Deleting, Recording, NewPlansAreEmpty, At
<1>7. (UnusedNames /\ AttachedToHosts /\ ListedIsOld /\ ListedIsKnown /\ RowHasFile)'
  BY <1>2 DEF Inv, UnusedNames, AttachedToHosts, ListedIsOld, ListedIsKnown, RowHasFile
<1> QED BY <1>5, <1>6, <1>7 DEF Inv

(* An object grows old, unless an upload is about to be recorded. *)
LEMMA AgeInv == ASSUME Inv, NEW k \in Keys, Age(k) PROVE Inv'
<1>1. /\ object[k] = "fresh" /\ object' = [object EXCEPT ![k] = "old"]
      /\ \A r \in Requests : At(r, "row") => request[r].key # k
      /\ UNCHANGED <<folder, attachments, hosts, fileUrl, request, cleaner, discarded, faults>>
  BY DEF Age
<1>2. /\ object' \in [Keys -> {"none", "fresh", "old"}] /\ object'[k] = "old"
      /\ \A j \in Keys : j # k => object'[j] = object[j]
  BY <1>1 DEF Inv, TypeOK
<1>3. TypeOK'
  BY <1>1, <1>2 DEF Inv, TypeOK
<1>4. UnusedNames' /\ ListedIsOld'
  <2>1. \A c \in Cleaners : cleaner[c].old \subseteq Keys
    BY DEF Inv, TypeOK, Cleaner
  <2> QED BY <1>1, <1>2, <2>1 DEF Inv, UnusedNames, ListedIsOld
<1>5. (AttachedToHosts /\ Deleting /\ ListedIsKnown /\ NewPlansAreEmpty)'
  BY <1>1 DEF Inv, AttachedToHosts, Deleting, ListedIsKnown, NewPlansAreEmpty, At
<1>6. Recording'
  BY <1>1, <1>2 DEF Inv, Recording, At
<1>7. RowHasFile'
  <2>1. attachments \subseteq Keys
    BY DEF Inv, TypeOK
  <2> QED BY <1>1, <1>2, <2>1 DEF Inv, RowHasFile
<1> QED BY <1>3, <1>4, <1>5, <1>6, <1>7 DEF Inv

(* The steps of a cleanup that remove nothing: what it lists is old, and it
   learns of every row before it removes. *)
LEMMA ReadingInv ==
  ASSUME Inv, Ungraced = {}, NEW c \in Cleaners,
         ListBucket(c) \/ ReadPlans(c) \/ ReadAttachments(c) \/ EndCleanup(c) \/ AbortCleanup(c)
  PROVE  Inv'
<1>1. PICK q \in Cleaner :
        /\ Clean(c, q)
        /\ \/ q.at = "plans" /\ q.old = PastGrace(c)
           \/ q.at = "attachments" /\ q.old = cleaner[c].old /\ q.known = {fileUrl[p] : p \in Plans} \cap Keys
           \/ /\ q.at = "remove" /\ q.old = cleaner[c].old /\ cleaner[c].at = "attachments"
              /\ q.known = cleaner[c].known \cup attachments
           \/ q.at = "idle" /\ q.old = {}
  <2>1. cleaner[c] \in Cleaner
    BY DEF Inv, TypeOK
  <2>2. CASE ListBucket(c)
    <3> DEFINE q == [at |-> "plans", old |-> PastGrace(c), known |-> {}]
    <3>1. q \in Cleaner
      BY DEF Cleaner, PastGrace, Stored
    <3> QED BY <2>2, <3>1 DEF ListBucket
  <2>3. CASE ReadPlans(c)
    <3> DEFINE known == {fileUrl[p] : p \in Plans} \cap Keys
               q == [cleaner[c] EXCEPT !.at = "attachments", !.known = known]
    <3>1. q \in Cleaner
      BY <2>1, Records
    <3>2. q.at = "attachments" /\ q.old = cleaner[c].old /\ q.known = known
      BY <2>1 DEF Cleaner
    <3> QED BY <2>3, <3>1, <3>2 DEF ReadPlans
  <2>4. CASE ReadAttachments(c)
    <3> DEFINE known == cleaner[c].known \cup attachments
               q == [cleaner[c] EXCEPT !.at = "remove", !.known = known]
    <3>1. q \in Cleaner
      <4>1. known \in SUBSET Keys
        BY <2>1 DEF Inv, TypeOK, Cleaner
      <4> QED BY <2>1, <4>1, Records
    <3>2. q.at = "remove" /\ q.old = cleaner[c].old /\ q.known = known
      BY <2>1 DEF Cleaner
    <3> QED BY <2>4, <3>1, <3>2 DEF ReadAttachments, KnownPaths
  <2>5. CASE EndCleanup(c) \/ AbortCleanup(c)
    BY <2>5, Records DEF EndCleanup, AbortCleanup, Idle
  <2> QED BY <2>2, <2>3, <2>4, <2>5
<1>2. /\ cleaner' \in [Cleaners -> Cleaner] /\ cleaner'[c] = q
      /\ \A d \in Cleaners : d # c => cleaner'[d] = cleaner[d]
  BY <1>1, Cleans DEF Inv
<1>3. /\ UNCHANGED <<object, folder, attachments, hosts, fileUrl, request, discarded>>
      /\ Fault \/ UNCHANGED faults
  BY DEF ListBucket, ReadPlans, ReadAttachments, EndCleanup, AbortCleanup, CleanerOnly
<1>4. faults' \in 0..MaxFaults
  BY <1>3, FaultType DEF Inv
<1>5. TypeOK'
  BY <1>2, <1>3, <1>4 DEF Inv, TypeOK
<1>6. (AttachedToHosts /\ Deleting /\ Recording /\ NewPlansAreEmpty /\ RowHasFile)'
  BY <1>3 DEF Inv, AttachedToHosts, Deleting, Recording, NewPlansAreEmpty, RowHasFile, At
<1>7. \A k \in q.old : k \in cleaner[c].old \/ (k \in Keys /\ object[k] = "old")
  BY <1>1 DEF PastGrace, Stored
<1>8. UnusedNames' /\ ListedIsOld'
  BY <1>2, <1>3, <1>7 DEF Inv, UnusedNames, ListedIsOld
<1>9. ListedIsKnown'
  <2>1. \A k \in cleaner[c].old : k \in Keys
    BY DEF Inv, TypeOK, Cleaner
  <2> QED BY <1>1, <1>2, <1>3, <2>1 DEF Inv, ListedIsKnown
<1> QED BY <1>5, <1>6, <1>8, <1>9 DEF Inv

(* A cleanup removes an object that is old and has no row of its own. *)
LEMMA RemoveOrphanInv == ASSUME Inv, NEW c \in Cleaners, RemoveOrphan(c) PROVE Inv'
<1>1. PICK k \in cleaner[c].old \ cleaner[c].known :
        /\ object' = [object EXCEPT ![k] = "none"] \/ object' = object
        /\ Clean(c, [cleaner[c] EXCEPT !.old = cleaner[c].old \ {k}])
  BY DEF RemoveOrphan
<1> DEFINE q == [cleaner[c] EXCEPT !.old = cleaner[c].old \ {k}]
<1>2. cleaner[c] \in Cleaner /\ cleaner[c].at = "remove"
  BY DEF Inv, TypeOK, RemoveOrphan
<1>3. q \in Cleaner /\ q.at = "remove" /\ q.known = cleaner[c].known /\ q.old \subseteq cleaner[c].old
  <2>1. cleaner[c].old \ {k} \in SUBSET Keys
    BY <1>2 DEF Cleaner
  <2>2. q \in Cleaner
    BY <1>2, <2>1, Records
  <2>3. q.at = "remove" /\ q.known = cleaner[c].known /\ q.old \subseteq cleaner[c].old
    BY <1>2 DEF Cleaner
  <2> QED BY <2>2, <2>3
<1> HIDE DEF q
<1>4. /\ cleaner' \in [Cleaners -> Cleaner] /\ cleaner'[c] = q
      /\ \A d \in Cleaners : d # c => cleaner'[d] = cleaner[d]
  BY <1>1, <1>3, Cleans DEF Inv, q
<1>5. /\ UNCHANGED <<folder, attachments, hosts, fileUrl, request, discarded>>
      /\ Fault \/ UNCHANGED faults
  BY DEF RemoveOrphan, CleanerOnly
<1>6. faults' \in 0..MaxFaults
  BY <1>5, FaultType DEF Inv
<1>7. /\ k \in Keys /\ object[k] # "fresh"
      /\ k \in attachments => {k, folder[k]} \cap discarded # {}
      /\ folder[k] \in Plans \ discarded => fileUrl[folder[k]] # k
  BY <1>1, <1>2 DEF Inv, ListedIsOld, ListedIsKnown, Cleaner
<1>8. /\ object' \in [Keys -> {"none", "fresh", "old"}]
      /\ \A j \in Keys : object'[j] = object[j] \/ (j = k /\ object'[j] = "none")
  BY <1>1, <1>7 DEF Inv, TypeOK
<1>9. RowHasFile' /\ AttachedToHosts' /\ Recording'
  BY <1>5, <1>6, <1>7, <1>8, ObjectsGo DEF Inv
<1>10. TypeOK'
  BY <1>4, <1>5, <1>6, <1>8 DEF Inv, TypeOK
<1>11. Deleting' /\ NewPlansAreEmpty'
  BY <1>5 DEF Inv, Deleting, NewPlansAreEmpty, At
<1>12. \A d \in Cleaners : cleaner'[d].old \subseteq cleaner[d].old /\ cleaner[d].old \subseteq Keys
  BY <1>3, <1>4 DEF Inv, TypeOK, Cleaner
<1>13. UnusedNames' /\ ListedIsOld'
  BY <1>5, <1>8, <1>12 DEF Inv, UnusedNames, ListedIsOld
<1>14. ListedIsKnown'
  BY <1>2, <1>3, <1>4, <1>5, <1>12 DEF Inv, ListedIsKnown
<1> QED BY <1>9, <1>10, <1>11, <1>13, <1>14 DEF Inv

(* Inv is inductive when no cleanup skips the grace period. *)
LEMMA NextInv == ASSUME Inv, Ungraced = {}, [Next]_vars PROVE Inv'
<1>1. ASSUME NEW r \in Requests, Start(r) \/ Step(r) \/ Abandon(r)
      PROVE  Inv'
  BY <1>1, StartUploadInv, CreatePlanInv, StartVersionInv, DiscardInv, PutInv, AttachRowInv, PlanRowInv,
     CreateNewVersionInv, UnlinkInv, ListFolderInv, WipeInv, DropInv, AbandonInv DEF Start, Step
<1>2. ASSUME NEW k \in Keys, Age(k)
      PROVE  Inv'
  BY <1>2, AgeInv
<1>3. ASSUME NEW c \in Cleaners, Cleanup(c) \/ AbortCleanup(c)
      PROVE  Inv'
  BY <1>3, ReadingInv, RemoveOrphanInv DEF Cleanup
<1>4. CASE UNCHANGED vars
  BY <1>4 DEF vars, Inv, TypeOK, UnusedNames, AttachedToHosts, Deleting, Recording, ListedIsOld,
     ListedIsKnown, NewPlansAreEmpty, RowHasFile, At
<1> QED BY <1>1, <1>2, <1>3, <1>4 DEF Next

(* The invariant behind RowHasFile. *)
THEOREM StorageInvariance == ASSUME Ungraced = {} PROVE Safety => []Inv
<1>1. Inv /\ [Next]_vars => Inv'
  BY NextInv
<1> QED BY <1>1, InitInv, PTL DEF Safety

(* With the grace period on, and requests shorter than it, a file somebody
   uploaded and nobody asked to delete is there as long as its row is. *)
THEOREM FilesKept == ASSUME Ungraced = {} PROVE Safety => []RowHasFile
<1>1. Inv => RowHasFile
  BY DEF Inv
<1> QED BY <1>1, StorageInvariance, PTL

(* Type correctness of the storage. *)
THEOREM StorageTypes == ASSUME Ungraced = {} PROVE Safety => []TypeOK
<1>1. Inv => TypeOK
  BY DEF Inv
<1> QED BY <1>1, StorageInvariance, PTL
=============================================================================
