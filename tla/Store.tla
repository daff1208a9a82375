------------------------------- MODULE Store -------------------------------
(***************************************************************************)
(* The durable state of the program: the SQLite database of                *)
(* internal/state, with one action per transaction.  A transaction that    *)
(* returns an error rolls back and is not a step of the model; the guard   *)
(* of the transaction X, the conjunction of the code's checks, is MayX.    *)
(* Guards marked "caller" come from the one place that issues it.          *)
(*                                                                         *)
(* A member of File is a version of a file of a share: its source ID with  *)
(* the path, the size and the checksum it was listed with; the program     *)
(* knows the row of a file by its source ID.  A directory is known by its  *)
(* path.                                                                   *)
(*                                                                         *)
(* A batch is identified with the set of its files.  Timestamps, retry     *)
(* counts and last_error texts are left out; the local path and the        *)
(* provenance of an object are kept as far as the code branches on them.   *)
(***************************************************************************)
EXTENDS Lifecycle, Planner

CONSTANTS Task,       \* task rows that may be created
          FileTask,   \* FileTask[f]: the task of file f
          SourceId,   \* SourceId[f]: the identifier that f has in the share
          Dir,        \* logical directories
          DirTask,    \* DirTask[d]: the task of directory d
          Path,       \* Path[x]: the logical path of the file or directory x
          Size,       \* Size[f]: the size of f in bytes
          MaxFiles,   \* files per staging batch
          PlanBound,  \* byte bounds a planning call may be given
          DriveId,    \* identifiers Drive may assign
          NoId        \* the empty identifier

ASSUME StoreAssumption ==
  /\ FileTask \in [File -> Task]
  /\ DirTask \in [Dir -> Task]
  /\ DOMAIN SourceId = File /\ DOMAIN Path = File \cup Dir
  /\ \A d, e \in Dir : DirTask[d] = DirTask[e] /\ Path[d] = Path[e] => d = e
  /\ Size \in [File -> Nat]
  /\ MaxFiles \in 1 .. 499
  /\ PlanBound \subseteq Nat
  /\ \A f, g \in File : Parent[f] = Parent[g] => FileTask[f] = FileTask[g]

(* Identifiers and the empty identifier are told apart from "no row".      *)
ASSUME IdAssumption == NoId \notin DriveId /\ Absent \notin DriveId /\ NoId # Absent

VARIABLES
  taskStatus,     \* tasks.status
  scanCompleted,  \* tasks.scan_completed
  driveRoot,      \* tasks.drive_root_id
  dirId,          \* directories.drive_id
  status,         \* files.status
  cachePath,      \* files.local_cache_path: none, the .part or the .bin file
  driveId,        \* files.drive_id
  batchStatus,    \* batches.status, by the set of the batch's files
  localOwned,     \* owned_objects row of scope local_cache_file
  batchOwned,     \* owned_objects row of scope baidu_batch_dir
  rootOwned       \* owned_objects row of scope baidu_task_root

taskVars  == <<taskStatus, scanCompleted, driveRoot>>
fileVars  == <<status, cachePath, driveId>>
ownedVars == <<localOwned, batchOwned, rootOwned>>
vars == <<taskVars, dirId, fileVars, batchStatus, ownedVars>>

Batch == (SUBSET File) \ {{}}

(* A provenance row: cleanup_allowed and cleaned_at, in the order the      *)
(* code sets them.                                                         *)
Provenance == {Absent, "REGISTERED", "ALLOWED", "CLEANED"}
Authorized == {"ALLOWED", "CLEANED"}
Rank(row) == CASE row = "REGISTERED" -> 1 [] row = "ALLOWED" -> 2
               [] row = "CLEANED" -> 3 [] OTHER -> 0

(* A retryable failure leaves a file in the status it had: no transaction  *)
(* ever gives a file FAILED_RETRYABLE.                                     *)
TypeOK ==
  /\ taskStatus \in [Task -> TaskStatus \cup {Absent}]
  /\ scanCompleted \in [Task -> BOOLEAN]
  /\ driveRoot \in [Task -> DriveId \cup {NoId}]
  /\ dirId \in [Dir -> DriveId \cup {NoId, Absent}]
  /\ status \in [File -> (FileStatus \ {"FAILED_RETRYABLE"}) \cup {Absent}]
  /\ cachePath \in [File -> {"none", "part", "bin"}]
  /\ driveId \in [File -> DriveId \cup {NoId}]
  /\ batchStatus \in [Batch -> BatchStatus \cup {Absent}]
  /\ localOwned \in [File -> Provenance]
  /\ batchOwned \in [Batch -> Provenance]
  /\ rootOwned \in [Task -> Provenance]

----------------------------------------------------------------------------
(* What the queries of the store return.                                   *)

FilesOf(t) == {f \in File : FileTask[f] = t /\ status[f] # Absent}
DirsOf(t) == {d \in Dir : DirTask[d] = t /\ dirId[d] # Absent}
FilesIn(t, S) == {f \in FilesOf(t) : status[f] \in S}
(* Mutation: the planner's query also returns files it planned before.     *)
DiscoveredOrPlanned(t) == FilesIn(t, {"DISCOVERED", "PLANNED"})
Discovered(t) == FilesIn(t, {"DISCOVERED"})
BatchesOf(t) == {b \in Batch : batchStatus[b] # Absent /\ \A f \in b : FileTask[f] = t}
CleanedBatchesOf(t) ==
  {b \in Batch : batchOwned[b] = "CLEANED" /\ \A f \in b : FileTask[f] = t}

(* ListResumableTasks: only these tasks are ever worked on.                *)
Resumable(t) == taskStatus[t] \in TaskStatus \ {"COMPLETED", "FAILED"}

Stageable == {"PENDING", "STAGING", "FAILED_RETRYABLE"}
StagingBatches(t) == {b \in BatchesOf(t) : batchStatus[b] \in Stageable}

DownloadCandidates(t) == FilesIn(t, {"BAIDU_STAGED", "DOWNLOADING"})
DriveUploadCandidates(t) ==
  FilesIn(t, {"LOCAL_READY", "DRIVE_UPLOADING", "DRIVE_UPLOADED"})
CleanupCandidates(t) ==
  {b \in BatchesOf(t) : b \subseteq FilesIn(t, {"DRIVE_VERIFIED", "CLEANUP_PENDING"})}

(* Mutation: a file is reserved for while it is downloaded.                *)
ReservedInFlight == {"DOWNLOADING"}

(* The bytes the cache watermark counts, over the files of every task.     *)
Reserved == {"DOWNLOADING", "LOCAL_READY", "DRIVE_UPLOADING", "DRIVE_UPLOADED",
             "DRIVE_VERIFIED", "CLEANUP_PENDING"}
ReservedCacheBytes == Bytes({f \in File : status[f] \in Reserved}, Size)

(* PipelineProgress.Complete                                               *)
Complete(t) ==
  /\ \A f \in FilesOf(t) : status[f] = "DONE"
  /\ driveRoot[t] # NoId
  /\ rootOwned[t] \in {Absent, "CLEANED"}

(* The tree phase of the Drive stage has recorded every directory.         *)
TreeReady(t) ==
  /\ driveRoot[t] # NoId
  /\ \A d \in Dir : DirTask[d] = t => dirId[d] # NoId

TaskRootCleanupCandidate(t) ==
  /\ rootOwned[t] \notin {Absent, "CLEANED"}
  /\ \A f \in FilesOf(t) : status[f] = "DONE"
  /\ Cardinality(BatchesOf(t)) = Cardinality(CleanedBatchesOf(t))

----------------------------------------------------------------------------
Init ==
  /\ taskStatus = [t \in Task |-> Absent]
  /\ scanCompleted = [t \in Task |-> FALSE]
  /\ driveRoot = [t \in Task |-> NoId]
  /\ dirId = [d \in Dir |-> Absent]
  /\ status = [f \in File |-> Absent]
  /\ cachePath = [f \in File |-> "none"]
  /\ driveId = [f \in File |-> NoId]
  /\ batchStatus = [b \in Batch |-> Absent]
  /\ localOwned = [f \in File |-> Absent]
  /\ batchOwned = [b \in Batch |-> Absent]
  /\ rootOwned = [t \in Task |-> Absent]

(* ScanRunner.Run creates a task in SCANNING.                              *)
CreateTask(t) ==
  /\ taskStatus[t] = Absent
  /\ taskStatus' = [taskStatus EXCEPT ![t] = "SCANNING"]
  /\ UNCHANGED <<scanCompleted, driveRoot, dirId, fileVars, batchStatus, ownedVars>>

(* Mutation: a known source is looked for by its path only.                *)
AgreesOnPaths(t, D, F) ==
  /\ \A f \in F : \A g \in (FilesOf(t) \cup F) \ {f} : Path[f] # Path[g]
  /\ \A d \in D : \A f \in FilesOf(t) : Path[d] # Path[f]
  /\ \A f \in F : \A d \in DirsOf(t) \cup D : Path[f] # Path[d]
(* A source keeps its path, its size and its checksum, and a path its      *)
(* file; nothing is a file and a directory.                                *)
Agrees(t, D, F) ==
  /\ \A f \in F : \A g \in (FilesOf(t) \cup F) \ {f} :
       SourceId[f] # SourceId[g] /\ Path[f] # Path[g]
  /\ \A d \in D : \A f \in FilesOf(t) : Path[d] # Path[f]
  /\ \A f \in F : \A d \in DirsOf(t) \cup D : Path[f] # Path[d]

(* Mutation: a page may arrive after the scan was recorded as complete.    *)
UpsertLatePage(t, D, F) ==
  /\ Resumable(t)
  /\ \A d \in D : DirTask[d] = t
  /\ \A f \in F : FileTask[f] = t
  /\ Agrees(t, D, F)
  /\ dirId' = [d \in Dir |-> IF d \in D /\ dirId[d] = Absent THEN NoId ELSE dirId[d]]
  /\ status' = [f \in File |->
                  IF f \in F /\ status[f] = Absent THEN "DISCOVERED" ELSE status[f]]
  /\ UNCHANGED <<taskVars, cachePath, driveId, batchStatus, ownedVars>>

(* One page of the manifest: new rows are inserted, rows seen before keep  *)
(* their state.  Caller: only a scan writes the manifest, and Resume       *)
(* refuses to rescan a completed one.                                      *)
MayUpsertManifestPage(t, D, F) ==
  /\ taskStatus[t] = "SCANNING" /\ ~scanCompleted[t]
  /\ \A d \in D : DirTask[d] = t
  /\ \A f \in F : FileTask[f] = t
  /\ Agrees(t, D, F)
UpsertManifestPage(t, D, F) ==
  /\ MayUpsertManifestPage(t, D, F)
  /\ dirId' = [d \in Dir |-> IF d \in D /\ dirId[d] = Absent THEN NoId ELSE dirId[d]]
  /\ status' = [f \in File |->
                  IF f \in F /\ status[f] = Absent THEN "DISCOVERED" ELSE status[f]]
  /\ UNCHANGED <<taskVars, cachePath, driveId, batchStatus, ownedVars>>

MayCompleteTaskScan(t) == taskStatus[t] = "SCANNING" /\ ~scanCompleted[t]
CompleteTaskScan(t) ==
  /\ MayCompleteTaskScan(t)
  /\ scanCompleted' = [scanCompleted EXCEPT ![t] = TRUE]
  /\ taskStatus' = [taskStatus EXCEPT ![t] = "PAUSED"]
  /\ UNCHANGED <<driveRoot, dirId, fileVars, batchStatus, ownedVars>>

(* Mutation: completion looks at the files and the Drive root only.        *)
CompleteWithRootLeft(t, s) ==
  /\ Resumable(t) /\ scanCompleted[t]
  /\ s = "COMPLETED" => driveRoot[t] # NoId /\ \A f \in FilesOf(t) : status[f] = "DONE"
  /\ taskStatus' = [taskStatus EXCEPT ![t] = s]
  /\ UNCHANGED <<scanCompleted, driveRoot, dirId, fileVars, batchStatus, ownedVars>>

(* Callers: a scan sets SCANNING before its manifest is complete; RUNNING, *)
(* COMPLETED and FAILED come from the pipeline, which refuses a partial    *)
(* manifest and tests the progress it has just read.                       *)
MayUpdateTaskStatus(t, s) ==
  /\ Resumable(t)
  /\ s = "SCANNING" => ~scanCompleted[t]
  /\ s \in {"RUNNING", "COMPLETED", "FAILED"} => scanCompleted[t]
  /\ s = "COMPLETED" => Complete(t)
  /\ s = "FAILED" => FilesIn(t, {"FAILED_PERMANENT"}) # {}
UpdateTaskStatus(t, s) ==
  /\ MayUpdateTaskStatus(t, s)
  /\ taskStatus' = [taskStatus EXCEPT ![t] = s]
  /\ UNCHANGED <<scanCompleted, driveRoot, dirId, fileVars, batchStatus, ownedVars>>

----------------------------------------------------------------------------
(* Staging *)

(* Mutation: the provenance rows are not written with the plan.            *)
RegisterLater(row) == row
Register(row) == IF row = Absent THEN "REGISTERED" ELSE row

(* PlanBatchesBounded, and PlanBatches for the bound 0.  Which set P of    *)
(* batches is written is the planner's contract IsPlan.  The task root and *)
(* the batch directories are registered in the same transaction.  Caller:  *)
(* the pipeline stages a task only after its scan.                         *)
MayPlanBatches(t, maxBytes, P) ==
  /\ Resumable(t) /\ scanCompleted[t]
  /\ Discovered(t) # {}
  /\ IsPlan(P, Discovered(t), Size, MaxFiles, maxBytes)
  /\ \A b \in P : batchStatus[b] = Absent
PlanBatches(t, maxBytes, P) ==
  /\ MayPlanBatches(t, maxBytes, P)
  /\ batchStatus' = [b \in Batch |-> IF b \in P THEN "PENDING" ELSE batchStatus[b]]
  /\ status' = [f \in File |-> IF f \in Discovered(t) THEN "PLANNED" ELSE status[f]]
  /\ batchOwned' = [b \in Batch |-> IF b \in P THEN Register(batchOwned[b]) ELSE batchOwned[b]]
  /\ rootOwned' = [rootOwned EXCEPT ![t] = Register(@)]
  /\ UNCHANGED <<taskVars, dirId, cachePath, driveId, localOwned>>

MayStartBatch(t, b) ==
  /\ Resumable(t) /\ b \in BatchesOf(t)
  /\ batchStatus[b] \in Stageable
StartBatch(t, b) ==
  /\ MayStartBatch(t, b)
  /\ batchStatus' = [batchStatus EXCEPT ![b] = "STAGING"]
  /\ status' = [f \in File |-> IF f \in b /\ status[f] \in {"PLANNED", "FAILED_RETRYABLE"}
                               THEN "BAIDU_STAGING" ELSE status[f]]
  /\ UNCHANGED <<taskVars, dirId, cachePath, driveId, ownedVars>>

(* Files a staging confirmation moves; the others of a confirmed set must  *)
(* have consumed theirs, or the whole transaction is refused.              *)
AwaitingConfirmation == {"PLANNED", "BAIDU_STAGING", "FAILED_RETRYABLE"}

(* Mutation: the update does not filter on the status of the file.         *)
RecordStagedUnfiltered(t, b, S) ==
  /\ Resumable(t) /\ b \in BatchesOf(t)
  /\ S # {} /\ S \subseteq b
  /\ status' = [f \in File |-> IF f \in S THEN "BAIDU_STAGED" ELSE status[f]]
  /\ UNCHANGED <<taskVars, dirId, cachePath, driveId, batchStatus, ownedVars>>

MayRecordStagedFiles(t, b, S) ==
  /\ Resumable(t) /\ b \in BatchesOf(t)
  /\ S # {} /\ S \subseteq b
  /\ \A f \in S : status[f] \in AwaitingConfirmation \cup StagingConfirmationAlreadyConsumed
RecordStagedFiles(t, b, S) ==
  /\ MayRecordStagedFiles(t, b, S)
  /\ status' = [f \in File |-> IF f \in S /\ status[f] \in AwaitingConfirmation
                               THEN "BAIDU_STAGED" ELSE status[f]]
  /\ UNCHANGED <<taskVars, dirId, cachePath, driveId, batchStatus, ownedVars>>

MayCompleteBatch(t, b) ==
  /\ Resumable(t) /\ b \in BatchesOf(t)
  /\ \A f \in b : status[f] \in StagingConfirmationAlreadyConsumed
CompleteBatch(t, b) ==
  /\ MayCompleteBatch(t, b)
  /\ batchStatus' = [batchStatus EXCEPT ![b] = "STAGED"]
  /\ UNCHANGED <<taskVars, dirId, fileVars, ownedVars>>

(* Caller: the executor fails only batches that StagingBatches listed.     *)
MayFailBatch(t, b) == Resumable(t) /\ b \in StagingBatches(t)

(* Mutation: the batch row is given the status meant for its files.        *)
FailBatchFileStatus(t, b, permanent) ==
  /\ MayFailBatch(t, b)
  /\ batchStatus' = [batchStatus EXCEPT ![b] =
                       IF permanent THEN "FAILED_PERMANENT" ELSE "BAIDU_STAGING"]
  /\ UNCHANGED <<taskVars, dirId, fileVars, ownedVars>>

FailBatch(t, b, permanent) ==
  /\ MayFailBatch(t, b)
  /\ batchStatus' = [batchStatus EXCEPT ![b] =
                       IF permanent THEN "FAILED_PERMANENT" ELSE "FAILED_RETRYABLE"]
  /\ status' = [f \in File |-> IF permanent /\ f \in b /\ status[f] # "BAIDU_STAGED"
                               THEN "FAILED_PERMANENT" ELSE status[f]]
  /\ UNCHANGED <<taskVars, dirId, cachePath, driveId, ownedVars>>

----------------------------------------------------------------------------
(* Download *)

MayStartDownload(t, f) == Resumable(t) /\ f \in DownloadCandidates(t)
StartDownload(t, f) ==
  /\ MayStartDownload(t, f)
  /\ status' = [status EXCEPT ![f] = "DOWNLOADING"]
  /\ cachePath' = [cachePath EXCEPT ![f] = "part"]
  /\ UNCHANGED <<taskVars, dirId, driveId, batchStatus, ownedVars>>

(* The file's provenance must not have been given to cleanup.              *)
MayMarkLocalReady(t, f) ==
  /\ Resumable(t) /\ f \in FilesIn(t, {"BAIDU_STAGED", "DOWNLOADING", "LOCAL_READY"})
  /\ localOwned[f] \notin Authorized
MarkLocalReady(t, f) ==
  /\ MayMarkLocalReady(t, f)
  /\ status' = [status EXCEPT ![f] = "LOCAL_READY"]
  /\ cachePath' = [cachePath EXCEPT ![f] = "bin"]
  /\ localOwned' = [localOwned EXCEPT ![f] = "REGISTERED"]
  /\ UNCHANGED <<taskVars, dirId, driveId, batchStatus, batchOwned, rootOwned>>

MayRecordDownloadFailure(t, f) == Resumable(t) /\ f \in DownloadCandidates(t)
RecordDownloadFailure(t, f, permanent) ==
  /\ MayRecordDownloadFailure(t, f)
  /\ status' = [status EXCEPT ![f] = IF permanent THEN "FAILED_PERMANENT" ELSE "DOWNLOADING"]
  /\ UNCHANGED <<taskVars, dirId, cachePath, driveId, batchStatus, ownedVars>>

----------------------------------------------------------------------------
(* Google Drive *)

MaySetTaskDriveRoot(t, id) ==
  /\ Resumable(t) /\ scanCompleted[t]
  /\ driveRoot[t] \in {NoId, id}
SetTaskDriveRoot(t, id) ==
  /\ MaySetTaskDriveRoot(t, id)
  /\ driveRoot' = [driveRoot EXCEPT ![t] = id]
  /\ UNCHANGED <<taskStatus, scanCompleted, dirId, fileVars, batchStatus, ownedVars>>

(* Mutation: a directory may be bound to another Drive object.             *)
RebindDirectory(t, d, id) ==
  /\ Resumable(t) /\ DirTask[d] = t /\ driveRoot[t] # NoId
  /\ dirId[d] # Absent
  /\ dirId' = [dirId EXCEPT ![d] = id]
  /\ UNCHANGED <<taskVars, fileVars, batchStatus, ownedVars>>

(* Caller: Ensure records the root before any directory below it.          *)
MayRecordDirectoryDriveID(t, d, id) ==
  /\ Resumable(t) /\ DirTask[d] = t /\ driveRoot[t] # NoId
  /\ dirId[d] \in {NoId, id}
RecordDirectoryDriveID(t, d, id) ==
  /\ MayRecordDirectoryDriveID(t, d, id)
  /\ dirId' = [dirId EXCEPT ![d] = id]
  /\ UNCHANGED <<taskVars, fileVars, batchStatus, ownedVars>>

(* Caller of this and the next two actions: the uploader runs after Ensure *)
(* has returned.                                                           *)
MayStartDriveUpload(t, f) ==
  /\ Resumable(t) /\ TreeReady(t)
  /\ f \in FilesIn(t, {"LOCAL_READY", "DRIVE_UPLOADING"})
StartDriveUpload(t, f) ==
  /\ MayStartDriveUpload(t, f)
  /\ status' = [status EXCEPT ![f] = "DRIVE_UPLOADING"]
  /\ UNCHANGED <<taskVars, dirId, cachePath, driveId, batchStatus, ownedVars>>

(* Mutation: a file may be uploaded while its directories are missing.     *)
RecordUploadedBeforeTree(t, f, id) ==
  /\ Resumable(t) /\ f \in DriveUploadCandidates(t)
  /\ driveId[f] \in {NoId, id}
  /\ status' = [status EXCEPT ![f] = "DRIVE_UPLOADED"]
  /\ driveId' = [driveId EXCEPT ![f] = id]
  /\ UNCHANGED <<taskVars, dirId, cachePath, batchStatus, ownedVars>>

MayRecordDriveUploaded(t, f, id) ==
  /\ Resumable(t) /\ TreeReady(t)
  /\ f \in DriveUploadCandidates(t)
  /\ driveId[f] \in {NoId, id}
  /\ ValidateFileTransition(status[f], "DRIVE_UPLOADED")
RecordDriveUploaded(t, f, id) ==
  /\ MayRecordDriveUploaded(t, f, id)
  /\ status' = [status EXCEPT ![f] = "DRIVE_UPLOADED"]
  /\ driveId' = [driveId EXCEPT ![f] = id]
  /\ UNCHANGED <<taskVars, dirId, cachePath, batchStatus, ownedVars>>

MayMarkDriveVerified(t, f, id) ==
  /\ Resumable(t) /\ TreeReady(t)
  /\ f \in FilesIn(t, {"DRIVE_UPLOADED", "DRIVE_VERIFIED"})
  /\ driveId[f] = id
  /\ ValidateFileTransition(status[f], "DRIVE_VERIFIED")
MarkDriveVerified(t, f, id) ==
  /\ MayMarkDriveVerified(t, f, id)
  /\ status' = [status EXCEPT ![f] = "DRIVE_VERIFIED"]
  /\ UNCHANGED <<taskVars, dirId, cachePath, driveId, batchStatus, ownedVars>>

MayRecordDriveFailure(t, f, permanent) ==
  /\ Resumable(t) /\ f \in DriveUploadCandidates(t)
  /\ permanent => ValidateFileTransition(status[f], "FAILED_PERMANENT")
RecordDriveFailure(t, f, permanent) ==
  /\ MayRecordDriveFailure(t, f, permanent)
  /\ status' = [status EXCEPT ![f] = IF permanent THEN "FAILED_PERMANENT" ELSE @]
  /\ UNCHANGED <<taskVars, dirId, cachePath, driveId, batchStatus, ownedVars>>

----------------------------------------------------------------------------
(* Cleanup *)

(* Mutation: authorizing again forgets that the object was cleaned.        *)
AllowAgain(row) == "ALLOWED"
Allow(row) == IF row = "CLEANED" THEN row ELSE "ALLOWED"

(* Mutation: one verified file opens the gate for its whole batch.         *)
AuthorizeFirstVerified(t, b) ==
  /\ Resumable(t) /\ b \in BatchesOf(t)
  /\ \E f \in b : status[f] \in {"DRIVE_VERIFIED", "CLEANUP_PENDING"}
  /\ batchOwned[b] # Absent
  /\ status' = [f \in File |-> IF f \in b /\ status[f] = "DRIVE_VERIFIED"
                               THEN "CLEANUP_PENDING" ELSE status[f]]
  /\ batchOwned' = [batchOwned EXCEPT ![b] = Allow(@)]
  /\ localOwned' = [f \in File |-> IF f \in b THEN Allow(localOwned[f]) ELSE localOwned[f]]
  /\ UNCHANGED <<taskVars, dirId, cachePath, driveId, batchStatus, rootOwned>>

(* Mutation: the local copies are released before the batch is.            *)
AuthorizeLocalFirst(t, b) ==
  /\ Resumable(t) /\ b \in BatchesOf(t)
  /\ \A f \in b : status[f] \in {"DRIVE_VERIFIED", "CLEANUP_PENDING"}
  /\ localOwned' = [f \in File |-> IF f \in b THEN Allow(localOwned[f]) ELSE localOwned[f]]
  /\ UNCHANGED <<taskVars, dirId, fileVars, batchStatus, batchOwned, rootOwned>>

(* The destructive-action gate: every file of the batch is verified and    *)
(* has a Drive ID, and the permission to delete is committed before any    *)
(* deletion.  A missing local provenance row is backfilled.                *)
MayAuthorizeBatchCleanup(t, b) ==
  /\ Resumable(t) /\ b \in BatchesOf(t)
  /\ \A f \in b : /\ status[f] \in {"DRIVE_VERIFIED", "CLEANUP_PENDING"}
                  /\ driveId[f] # NoId
                  /\ cachePath[f] = "bin"
  /\ batchOwned[b] # Absent
AuthorizeBatchCleanup(t, b) ==
  /\ MayAuthorizeBatchCleanup(t, b)
  /\ status' = [f \in File |-> IF f \in b THEN "CLEANUP_PENDING" ELSE status[f]]
  /\ batchOwned' = [batchOwned EXCEPT ![b] = Allow(@)]
  /\ localOwned' = [f \in File |-> IF f \in b THEN Allow(localOwned[f]) ELSE localOwned[f]]
  /\ UNCHANGED <<taskVars, dirId, cachePath, driveId, batchStatus, rootOwned>>

(* MarkCleanupObjectDone, for each of the three deletable scopes.          *)
MayMarkLocalCacheCleanupDone(t, f) ==
  Resumable(t) /\ f \in FilesOf(t) /\ localOwned[f] \in Authorized
MarkLocalCacheCleanupDone(t, f) ==
  /\ MayMarkLocalCacheCleanupDone(t, f)
  /\ localOwned' = [localOwned EXCEPT ![f] = "CLEANED"]
  /\ UNCHANGED <<taskVars, dirId, fileVars, batchStatus, batchOwned, rootOwned>>

MayMarkBaiduBatchCleanupDone(t, b) ==
  Resumable(t) /\ b \in BatchesOf(t) /\ batchOwned[b] \in Authorized
MarkBaiduBatchCleanupDone(t, b) ==
  /\ MayMarkBaiduBatchCleanupDone(t, b)
  /\ batchOwned' = [batchOwned EXCEPT ![b] = "CLEANED"]
  /\ UNCHANGED <<taskVars, dirId, fileVars, batchStatus, localOwned, rootOwned>>

MayMarkBaiduTaskRootCleanupDone(t) == Resumable(t) /\ rootOwned[t] \in Authorized
MarkBaiduTaskRootCleanupDone(t) ==
  /\ MayMarkBaiduTaskRootCleanupDone(t)
  /\ rootOwned' = [rootOwned EXCEPT ![t] = "CLEANED"]
  /\ UNCHANGED <<taskVars, dirId, fileVars, batchStatus, localOwned, batchOwned>>

(* Mutation: the Baidu directory is not counted among the open objects.    *)
CompleteWithDirectoryLeft(t, b) ==
  /\ Resumable(t) /\ b \in BatchesOf(t)
  /\ \A f \in b : status[f] = "CLEANUP_PENDING" /\ localOwned[f] = "CLEANED"
  /\ status' = [f \in File |-> IF f \in b THEN "DONE" ELSE status[f]]
  /\ UNCHANGED <<taskVars, dirId, cachePath, driveId, batchStatus, ownedVars>>

MayCompleteBatchCleanup(t, b) ==
  /\ Resumable(t) /\ b \in BatchesOf(t)
  /\ \A f \in b : status[f] = "CLEANUP_PENDING" /\ localOwned[f] = "CLEANED"
  /\ batchOwned[b] = "CLEANED"
CompleteBatchCleanup(t, b) ==
  /\ MayCompleteBatchCleanup(t, b)
  /\ status' = [f \in File |-> IF f \in b THEN "DONE" ELSE status[f]]
  /\ UNCHANGED <<taskVars, dirId, cachePath, driveId, batchStatus, ownedVars>>

MayAuthorizeTaskRootCleanup(t) ==
  /\ Resumable(t) /\ scanCompleted[t]
  /\ \A f \in FilesOf(t) : status[f] = "DONE"
  /\ Cardinality(BatchesOf(t)) = Cardinality(CleanedBatchesOf(t))
  /\ rootOwned[t] # Absent
AuthorizeTaskRootCleanup(t) ==
  /\ MayAuthorizeTaskRootCleanup(t)
  /\ rootOwned' = [rootOwned EXCEPT ![t] = Allow(@)]
  /\ UNCHANGED <<taskVars, dirId, fileVars, batchStatus, localOwned, batchOwned>>

----------------------------------------------------------------------------
TaskStep(t) ==
  \/ CreateTask(t)
  \/ \E D \in SUBSET Dir, F \in SUBSET File : UpsertManifestPage(t, D, F)
  \/ CompleteTaskScan(t)
  \/ \E s \in {"SCANNING", "RUNNING", "PAUSED", "BLOCKED", "COMPLETED", "FAILED"} :
       UpdateTaskStatus(t, s)
  \/ \E id \in DriveId : SetTaskDriveRoot(t, id)
  \/ \E d \in Dir, id \in DriveId : RecordDirectoryDriveID(t, d, id)
  \/ AuthorizeTaskRootCleanup(t)
  \/ MarkBaiduTaskRootCleanupDone(t)

BatchStep(t) ==
  \/ \E maxBytes \in PlanBound, P \in SUBSET ((SUBSET Discovered(t)) \ {{}}) :
       PlanBatches(t, maxBytes, P)
  \/ \E b \in Batch :
       \/ StartBatch(t, b)
       \/ \E S \in SUBSET b : RecordStagedFiles(t, b, S)
       \/ CompleteBatch(t, b)
       \/ \E permanent \in BOOLEAN : FailBatch(t, b, permanent)
       \/ AuthorizeBatchCleanup(t, b)
       \/ MarkBaiduBatchCleanupDone(t, b)
       \/ CompleteBatchCleanup(t, b)

FileStep(t) ==
  \E f \in File :
    \/ StartDownload(t, f)
    \/ MarkLocalReady(t, f)
    \/ \E permanent \in BOOLEAN : RecordDownloadFailure(t, f, permanent)
    \/ StartDriveUpload(t, f)
    \/ \E id \in DriveId : RecordDriveUploaded(t, f, id)
    \/ \E id \in DriveId : MarkDriveVerified(t, f, id)
    \/ \E permanent \in BOOLEAN : RecordDriveFailure(t, f, permanent)
    \/ MarkLocalCacheCleanupDone(t, f)

Next == \E t \in Task : TaskStep(t) \/ BatchStep(t) \/ FileStep(t)

Spec == Init /\ [][Next]_vars

----------------------------------------------------------------------------
(* Properties *)

(* The batches of a task partition the files that left DISCOVERED: no file *)
(* is ever staged through two batches, and none is dispatched outside one  *)
(* (PlanBatches and batch_files UNIQUE(task_id, file_id)).                 *)
BatchesPartition ==
  /\ \A b \in Batch : batchStatus[b] # Absent =>
       /\ \A f \in b : status[f] \notin {Absent, "DISCOVERED"}
       /\ \A c \in Batch : batchStatus[c] # Absent /\ b # c => b \cap c = {}
  /\ \A f \in File : status[f] \notin {Absent, "DISCOVERED"} =>
       \E b \in Batch : f \in b /\ batchStatus[b] # Absent

(* No two file rows of a task are versions of one source or lie at one     *)
(* path, and none lies at the path of a directory, over all the pages of   *)
(* all the scans of a share that changes (UpsertManifestPage).             *)
RowsDiffer ==
  /\ \A f, g \in File :
       /\ f # g /\ FileTask[f] = FileTask[g]
       /\ status[f] # Absent /\ status[g] # Absent
       => SourceId[f] # SourceId[g] /\ Path[f] # Path[g]
  /\ \A f \in File, d \in Dir :
       /\ FileTask[f] = DirTask[d]
       /\ status[f] # Absent /\ dirId[d] # Absent
       => Path[f] # Path[d]

(* A batch belongs to one task, whose manifest is complete; its directory  *)
(* and the task root were recorded as owned with it, before anything was   *)
(* written to Baidu; nothing of a task exists on Drive while its manifest  *)
(* is partial; and the rows of a manifest differ (PlanBatches,             *)
(* CompleteTaskScan, UpsertManifestPage).                                  *)
RowsConsistent ==
  /\ RowsDiffer
  /\ \A b \in Batch :
       /\ batchStatus[b] # Absent <=> batchOwned[b] # Absent
       /\ batchStatus[b] # Absent =>
            \A f, g \in b : /\ FileTask[f] = FileTask[g]
                            /\ scanCompleted[FileTask[f]]
                            /\ rootOwned[FileTask[f]] # Absent
  /\ \A t \in Task :
       /\ driveRoot[t] # NoId => scanCompleted[t]
       /\ taskStatus[t] = Absent => FilesOf(t) = {} /\ ~scanCompleted[t]

Verified == {"DRIVE_VERIFIED", "CLEANUP_PENDING", "DONE"}

(* A file offered to Drive is a complete local file; one that passed       *)
(* DRIVE_UPLOADED carries the Drive ID it was uploaded under and lies in a *)
(* task whose every directory exists on Drive (MarkLocalReady,             *)
(* RecordDriveUploaded, MarkDriveVerified).                                *)
UploadEvidence ==
  \A f \in File :
    /\ status[f] \in {"LOCAL_READY", "DRIVE_UPLOADING", "DRIVE_UPLOADED"} \cup Verified =>
         cachePath[f] = "bin"
    /\ status[f] \in {"DRIVE_UPLOADED"} \cup Verified =>
         driveId[f] # NoId /\ TreeReady(FileTask[f])

(* The destructive-action gate holds across batches, files and restarts:   *)
(* once a Baidu batch directory may be deleted, every file in it has a     *)
(* Drive ID, its local copy may go too, and no file of the batch is ahead  *)
(* of its verification any more (AuthorizeBatchCleanup).                   *)
CleanupGate ==
  \A b \in Batch : batchOwned[b] \in Authorized =>
    \A f \in b : /\ driveId[f] # NoId
                 /\ localOwned[f] \in Authorized
                 /\ status[f] \in {"CLEANUP_PENDING", "DONE", "FAILED_PERMANENT"}

(* The local copy of a file may be deleted only together with its batch.   *)
LocalGate ==
  \A f \in File : localOwned[f] \in Authorized =>
    \E b \in Batch : f \in b /\ batchStatus[b] # Absent /\ batchOwned[b] \in Authorized

(* DONE is never claimed while a local copy or the Baidu directory of the  *)
(* file's batch remains unreconciled (CompleteBatchCleanup).               *)
DoneEvidence ==
  \A f \in File : status[f] = "DONE" =>
    /\ localOwned[f] = "CLEANED"
    /\ \A b \in Batch : f \in b /\ batchStatus[b] # Absent => batchOwned[b] = "CLEANED"

(* The task root is given to cleanup after every batch below it, and       *)
(* nothing is planned under it afterwards (AuthorizeTaskRootCleanup).      *)
RootLast ==
  \A t \in Task : rootOwned[t] \in Authorized =>
    /\ Discovered(t) = {}
    /\ scanCompleted[t]
    /\ \A b \in BatchesOf(t) : batchOwned[b] = "CLEANED"

(* A COMPLETED task is one whose every file is DONE with a Drive ID, whose *)
(* staging and local copies are gone, and, when it has files, whose tree   *)
(* exists on Drive: it can be forgotten, and the runtime root removed      *)
(* (pipeline.go:89, main.go armRuntimeCleanupIfSafe).                      *)
CompletedEvidence ==
  \A t \in Task : taskStatus[t] = "COMPLETED" =>
    /\ scanCompleted[t] /\ Complete(t)
    /\ \A f \in FilesOf(t) : driveId[f] # NoId /\ localOwned[f] = "CLEANED"
    /\ \A b \in BatchesOf(t) : batchOwned[b] = "CLEANED"
    /\ FilesOf(t) # {} => TreeReady(t)

(* No transaction moves a file backwards in the pipeline, however the      *)
(* calls of stages, retries and reruns interleave; a failure is final      *)
(* (RecordStagedFiles leaves a consumed confirmation alone).               *)
StatusForward ==
  \A f \in File : status[f] # Absent =>
    status'[f] \in FileStatus /\ Stage[status[f]] <= Stage[status'[f]]
ForwardOnly == [][StatusForward]_vars

(* An object on Drive is never rebound: an ID, once recorded for a task    *)
(* root, a directory or a file, stays (the write-once checks of            *)
(* drive_store.go).                                                        *)
DriveIdsKept ==
  /\ \A t \in Task : driveRoot[t] # NoId => driveRoot'[t] = driveRoot[t]
  /\ \A d \in Dir : dirId[d] \in DriveId => dirId'[d] = dirId[d]
  /\ \A f \in File : driveId[f] # NoId => driveId'[f] = driveId[f]
DriveIdsWriteOnce == [][DriveIdsKept]_vars

(* Permission to delete is never withdrawn and a cleaned object never      *)
(* becomes pending again, so that a repeated cleanup is idempotent.        *)
RanksKept ==
  /\ \A f \in File : Rank(localOwned[f]) <= Rank(localOwned'[f])
  /\ \A b \in Batch : Rank(batchOwned[b]) <= Rank(batchOwned'[b])
  /\ \A t \in Task : Rank(rootOwned[t]) <= Rank(rootOwned'[t])
ProvenanceForward == [][RanksKept]_vars
=============================================================================
