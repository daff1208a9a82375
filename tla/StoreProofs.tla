---------------------------- MODULE StoreProofs ----------------------------
(***************************************************************************)
(* Proofs about the durable state, for every set of tasks, files,          *)
(* directories and Drive identifiers.                                      *)
(***************************************************************************)
EXTENDS Store, TLAPS

(* The transactions that touch one task, with their arguments made         *)
(* explicit: the case split every invariance proof uses.                   *)
LEMMA StepCases ==
  ASSUME NEW t \in Task, TaskStep(t) \/ BatchStep(t) \/ FileStep(t)
  PROVE  \/ CreateTask(t)
         \/ \E D \in SUBSET Dir, F \in SUBSET File : UpsertManifestPage(t, D, F)
         \/ CompleteTaskScan(t)
         \/ \E s \in TaskStatus : UpdateTaskStatus(t, s)
         \/ \E id \in DriveId : SetTaskDriveRoot(t, id)
         \/ \E d \in Dir, id \in DriveId : RecordDirectoryDriveID(t, d, id)
         \/ AuthorizeTaskRootCleanup(t)
         \/ MarkBaiduTaskRootCleanupDone(t)
         \/ \E maxBytes \in PlanBound, P \in SUBSET Batch : PlanBatches(t, maxBytes, P)
         \/ \E b \in Batch : StartBatch(t, b)
         \/ \E b \in Batch, S \in SUBSET File : RecordStagedFiles(t, b, S)
         \/ \E b \in Batch : CompleteBatch(t, b)
         \/ \E b \in Batch, p \in BOOLEAN : FailBatch(t, b, p)
         \/ \E b \in Batch : AuthorizeBatchCleanup(t, b)
         \/ \E b \in Batch : MarkBaiduBatchCleanupDone(t, b)
         \/ \E b \in Batch : CompleteBatchCleanup(t, b)
         \/ \E f \in File : StartDownload(t, f)
         \/ \E f \in File : MarkLocalReady(t, f)
         \/ \E f \in File, p \in BOOLEAN : RecordDownloadFailure(t, f, p)
         \/ \E f \in File : StartDriveUpload(t, f)
         \/ \E f \in File, id \in DriveId : RecordDriveUploaded(t, f, id)
         \/ \E f \in File, id \in DriveId : MarkDriveVerified(t, f, id)
         \/ \E f \in File, p \in BOOLEAN : RecordDriveFailure(t, f, p)
         \/ \E f \in File : MarkLocalCacheCleanupDone(t, f)
  BY DEF TaskStep, BatchStep, FileStep, TaskStatus, Batch, Discovered, FilesIn, FilesOf

(* Batches are the nonempty sets of files. *)
LEMMA BatchFacts == \A b \in Batch : b # {} /\ \A f \in b : f \in File
  <1>1. \A b \in Batch : \A f \in b : f \in File
    BY DEF Batch
  <1>2. ASSUME NEW b \in Batch PROVE b # {}
    <2>1. b \notin {{}}
      BY DEF Batch
    <2>2. QED
      BY <2>1
  <1>3. QED
    BY <1>1, <1>2

(* The type invariant, one step per transaction.                           *)
LEMMA TypeOKInit == Init => TypeOK
  BY DEF Init, TypeOK, Provenance

LEMMA TypeOKStep ==
  ASSUME TypeOK, NEW t \in Task, TaskStep(t) \/ BatchStep(t) \/ FileStep(t)
  PROVE  TypeOK'
  <1> USE DEF TypeOK, taskVars, fileVars, ownedVars
  <1>1. CASE CreateTask(t)
    BY <1>1 DEF CreateTask, TaskStatus
  <1>2. ASSUME NEW D \in SUBSET Dir, NEW F \in SUBSET File, UpsertManifestPage(t, D, F)
        PROVE  TypeOK'
    BY <1>2 DEF UpsertManifestPage, FileStatus
  <1>3. CASE CompleteTaskScan(t)
    BY <1>3 DEF CompleteTaskScan, TaskStatus
  <1>4. ASSUME NEW s \in TaskStatus, UpdateTaskStatus(t, s)
        PROVE  TypeOK'
    BY <1>4 DEF UpdateTaskStatus
  <1>5. ASSUME NEW id \in DriveId, SetTaskDriveRoot(t, id)
        PROVE  TypeOK'
    BY <1>5 DEF SetTaskDriveRoot
  <1>6. ASSUME NEW d \in Dir, NEW id \in DriveId, RecordDirectoryDriveID(t, d, id)
        PROVE  TypeOK'
    BY <1>6 DEF RecordDirectoryDriveID
  <1>7. CASE AuthorizeTaskRootCleanup(t)
    BY <1>7 DEF AuthorizeTaskRootCleanup, Allow, Provenance
  <1>8. CASE MarkBaiduTaskRootCleanupDone(t)
    BY <1>8 DEF MarkBaiduTaskRootCleanupDone, Provenance
  <1>9. ASSUME NEW maxBytes \in PlanBound, NEW P \in SUBSET Batch, PlanBatches(t, maxBytes, P)
        PROVE  TypeOK'
    BY <1>9 DEF PlanBatches, Register, Provenance, FileStatus, BatchStatus
  <1>10. ASSUME NEW b \in Batch, StartBatch(t, b)
         PROVE  TypeOK'
    BY <1>10 DEF StartBatch, FileStatus, BatchStatus
  <1>11. ASSUME NEW b \in Batch, NEW S \in SUBSET File, RecordStagedFiles(t, b, S)
         PROVE  TypeOK'
    BY <1>11 DEF RecordStagedFiles, FileStatus
  <1>12. ASSUME NEW b \in Batch, CompleteBatch(t, b)
         PROVE  TypeOK'
    BY <1>12 DEF CompleteBatch, BatchStatus
  <1>13. ASSUME NEW b \in Batch, NEW p \in BOOLEAN, FailBatch(t, b, p)
         PROVE  TypeOK'
    BY <1>13 DEF FailBatch, FileStatus, BatchStatus
  <1>14. ASSUME NEW b \in Batch, AuthorizeBatchCleanup(t, b)
         PROVE  TypeOK'
    BY <1>14 DEF AuthorizeBatchCleanup, FileStatus, Allow, Provenance
  <1>15. ASSUME NEW b \in Batch, MarkBaiduBatchCleanupDone(t, b)
         PROVE  TypeOK'
    BY <1>15 DEF MarkBaiduBatchCleanupDone, Provenance
  <1>16. ASSUME NEW b \in Batch, CompleteBatchCleanup(t, b)
         PROVE  TypeOK'
    BY <1>16 DEF CompleteBatchCleanup, FileStatus
  <1>17. ASSUME NEW f \in File, StartDownload(t, f)
         PROVE  TypeOK'
    BY <1>17 DEF StartDownload, FileStatus
  <1>18. ASSUME NEW f \in File, MarkLocalReady(t, f)
         PROVE  TypeOK'
    BY <1>18 DEF MarkLocalReady, FileStatus, Provenance
  <1>19. ASSUME NEW f \in File, NEW p \in BOOLEAN, RecordDownloadFailure(t, f, p)
         PROVE  TypeOK'
    BY <1>19 DEF RecordDownloadFailure, FileStatus
  <1>20. ASSUME NEW f \in File, StartDriveUpload(t, f)
         PROVE  TypeOK'
    BY <1>20 DEF StartDriveUpload, FileStatus
  <1>21. ASSUME NEW f \in File, NEW id \in DriveId, RecordDriveUploaded(t, f, id)
         PROVE  TypeOK'
    BY <1>21 DEF RecordDriveUploaded, FileStatus
  <1>22. ASSUME NEW f \in File, NEW id \in DriveId, MarkDriveVerified(t, f, id)
         PROVE  TypeOK'
    BY <1>22 DEF MarkDriveVerified, FileStatus
  <1>23. ASSUME NEW f \in File, NEW p \in BOOLEAN, RecordDriveFailure(t, f, p)
         PROVE  TypeOK'
    BY <1>23 DEF RecordDriveFailure, FileStatus
  <1>24. ASSUME NEW f \in File, MarkLocalCacheCleanupDone(t, f)
         PROVE  TypeOK'
    BY <1>24 DEF MarkLocalCacheCleanupDone, Provenance
  <1>25. QED
    BY StepCases, <1>1, <1>2, <1>3, <1>4, <1>5, <1>6, <1>7, <1>8, <1>9, <1>10, <1>11,
       <1>12, <1>13, <1>14, <1>15, <1>16, <1>17, <1>18, <1>19, <1>20, <1>21, <1>22,
       <1>23, <1>24

(* Every row of the database stays within its column's values, whatever    *)
(* calls the stages, retries and reruns make (all of internal/state).      *)
THEOREM StoreTypeOK == Spec => []TypeOK
  <1>1. ASSUME TypeOK, [Next]_vars
        PROVE  TypeOK'
    <2>1. CASE Next
      BY <1>1, <2>1, TypeOKStep DEF Next
    <2>2. CASE UNCHANGED vars
      BY <1>1, <2>2 DEF TypeOK, vars, taskVars, fileVars, ownedVars
    <2>3. QED
      BY <1>1, <2>1, <2>2
  <1>2. QED
    BY TypeOKInit, <1>1, PTL DEF Spec

----------------------------------------------------------------------------
(* The inductive invariant.  No safety property of Store is inductive by   *)
(* itself: that a batch is cleaned, say, bounds the status of its files    *)
(* only because no file is in two batches.  Each part below is proved from *)
(* the parts it needs, one step per transaction.                           *)
StoreInv ==
  /\ TypeOK
  /\ BatchesPartition
  /\ RowsConsistent
  /\ UploadEvidence
  /\ CleanupGate
  /\ LocalGate
  /\ DoneEvidence
  /\ RootLast
  /\ CompletedEvidence

(* The batches of a task whose files are all DONE have all been cleaned.   *)
LEMMA AllDoneAllCleaned ==
  ASSUME TypeOK, BatchesPartition, DoneEvidence, NEW t \in Task,
         \A f \in FilesOf(t) : status[f] = "DONE"
  PROVE  /\ Discovered(t) = {}
         /\ \A b \in BatchesOf(t) : batchOwned[b] = "CLEANED"
  <1>1. Discovered(t) = {}
    BY DEF Discovered, FilesIn
  <1>2. ASSUME NEW b \in BatchesOf(t)
        PROVE  batchOwned[b] = "CLEANED"
    <2>1. b \in Batch /\ batchStatus[b] # Absent
      BY DEF BatchesOf
    <2>2. PICK f \in b : f \in File
      BY <2>1, BatchFacts
    <2>3. f \in FilesOf(t)
      BY <2>1, <2>2 DEF BatchesOf, BatchesPartition, FilesOf
    <2>4. QED
      BY <2>1, <2>2, <2>3 DEF DoneEvidence
  <1>3. QED
    BY <1>1, <1>2

(* Planning one task leaves the batches and the files of another alone.    *)
LEMMA PlanTouchesOneTask ==
  ASSUME TypeOK, NEW t \in Task, NEW maxBytes, NEW P \in SUBSET Batch,
         PlanBatches(t, maxBytes, P), NEW u \in Task, u # t
  PROVE  /\ BatchesOf(u)' = BatchesOf(u)
         /\ \A b \in BatchesOf(u) : batchOwned'[b] = batchOwned[b]
         /\ \A f \in File : FileTask[f] = u => status'[f] = status[f]
         /\ rootOwned'[u] = rootOwned[u]
  <1>1. \A b \in P : ~ \A f \in b : FileTask[f] = u
    <2>1. UNION P = Discovered(t)
      BY DEF PlanBatches, MayPlanBatches, IsPlan, IsPartition
    <2>2. SUFFICES ASSUME NEW b \in P PROVE \E f \in b : FileTask[f] # u
      OBVIOUS
    <2>3. PICK f \in b : TRUE
      BY BatchFacts
    <2>4. f \in Discovered(t)
      BY <2>1, <2>3
    <2>5. QED
      BY <2>3, <2>4 DEF Discovered, FilesIn, FilesOf
  <1>2. \A b \in Batch \ P : batchStatus'[b] = batchStatus[b] /\ batchOwned'[b] = batchOwned[b]
    BY DEF PlanBatches
  <1>3. QED
    BY <1>1, <1>2 DEF PlanBatches, BatchesOf, Discovered, FilesIn, FilesOf, TypeOK

(* BatchesPartition: the batches partition the dispatched files. Only      *)
(* planning adds a batch, and its files come from DISCOVERED.              *)
LEMMA BatchesPartitionStep ==
  ASSUME TypeOK, BatchesPartition, NEW t \in Task,
         TaskStep(t) \/ BatchStep(t) \/ FileStep(t)
  PROVE  BatchesPartition'
  <1> USE StoreAssumption, BatchFacts DEF TypeOK, Absent, taskVars, fileVars,
     ownedVars, FilesIn, FilesOf, BatchesPartition
  <1>1. ASSUME NEW D \in SUBSET Dir, NEW F \in SUBSET File, UpsertManifestPage(t, D, F)
        PROVE  BatchesPartition'
    BY <1>1 DEF UpsertManifestPage
  <1>2. ASSUME NEW maxBytes \in PlanBound, NEW P \in SUBSET Batch, PlanBatches(t, maxBytes, P)
        PROVE  BatchesPartition'
    BY <1>2 DEF PlanBatches, MayPlanBatches, Resumable, Discovered, IsPlan, IsPartition, Register
  <1>3. ASSUME NEW b \in Batch, StartBatch(t, b)
        PROVE  BatchesPartition'
    BY <1>3 DEF StartBatch, MayStartBatch, Resumable, BatchesOf
  <1>4. ASSUME NEW b \in Batch, NEW S \in SUBSET File, RecordStagedFiles(t, b, S)
        PROVE  BatchesPartition'
    BY <1>4 DEF RecordStagedFiles, Resumable, BatchesOf, AwaitingConfirmation,
       StagingConfirmationAlreadyConsumed
  <1>5. ASSUME NEW b \in Batch, CompleteBatch(t, b)
        PROVE  BatchesPartition'
    BY <1>5 DEF CompleteBatch, MayCompleteBatch, Resumable, BatchesOf
  <1>6. ASSUME NEW b \in Batch, NEW p \in BOOLEAN, FailBatch(t, b, p)
        PROVE  BatchesPartition'
    BY <1>6 DEF FailBatch, MayFailBatch, Resumable, BatchesOf, StagingBatches, Stageable
  <1>7. ASSUME NEW b \in Batch, AuthorizeBatchCleanup(t, b)
        PROVE  BatchesPartition'
    BY <1>7 DEF AuthorizeBatchCleanup, MayAuthorizeBatchCleanup, Resumable, BatchesOf, Allow
  <1>8. ASSUME NEW b \in Batch, CompleteBatchCleanup(t, b)
        PROVE  BatchesPartition'
    BY <1>8 DEF CompleteBatchCleanup, MayCompleteBatchCleanup, Resumable, BatchesOf
  <1>9. ASSUME NEW f \in File, StartDownload(t, f)
        PROVE  BatchesPartition'
    BY <1>9 DEF StartDownload, MayStartDownload, Resumable, DownloadCandidates
  <1>10. ASSUME NEW f \in File, MarkLocalReady(t, f)
         PROVE  BatchesPartition'
    BY <1>10 DEF MarkLocalReady, MayMarkLocalReady, Resumable
  <1>11. ASSUME NEW f \in File, NEW p \in BOOLEAN, RecordDownloadFailure(t, f, p)
         PROVE  BatchesPartition'
    BY <1>11 DEF RecordDownloadFailure, MayRecordDownloadFailure, Resumable, DownloadCandidates
  <1>12. ASSUME NEW f \in File, StartDriveUpload(t, f)
         PROVE  BatchesPartition'
    BY <1>12 DEF StartDriveUpload, MayStartDriveUpload, Resumable
  <1>13. ASSUME NEW f \in File, NEW id \in DriveId, RecordDriveUploaded(t, f, id)
         PROVE  BatchesPartition'
    BY <1>13 DEF RecordDriveUploaded, MayRecordDriveUploaded, Resumable, DriveUploadCandidates
  <1>14. ASSUME NEW f \in File, NEW id \in DriveId, MarkDriveVerified(t, f, id)
         PROVE  BatchesPartition'
    BY <1>14 DEF MarkDriveVerified, MayMarkDriveVerified, Resumable
  <1>15. ASSUME NEW f \in File, NEW p \in BOOLEAN, RecordDriveFailure(t, f, p)
         PROVE  BatchesPartition'
    BY <1>15 DEF RecordDriveFailure, MayRecordDriveFailure, Resumable, DriveUploadCandidates
  <1>16. CASE UNCHANGED <<status, batchStatus>>
    BY <1>16
  <1>17. CASE \/ CreateTask(t)
              \/ CompleteTaskScan(t)
              \/ \E s \in TaskStatus : UpdateTaskStatus(t, s)
              \/ \E id \in DriveId : SetTaskDriveRoot(t, id)
              \/ \E d \in Dir, id \in DriveId : RecordDirectoryDriveID(t, d, id)
              \/ AuthorizeTaskRootCleanup(t)
              \/ MarkBaiduTaskRootCleanupDone(t)
              \/ \E b \in Batch : MarkBaiduBatchCleanupDone(t, b)
              \/ \E f \in File : MarkLocalCacheCleanupDone(t, f)
    BY <1>16, <1>17 DEF CreateTask, CompleteTaskScan, UpdateTaskStatus,
       SetTaskDriveRoot, RecordDirectoryDriveID, AuthorizeTaskRootCleanup,
       MarkBaiduTaskRootCleanupDone, MarkBaiduBatchCleanupDone,
       MarkLocalCacheCleanupDone
  <1> HIDE StoreAssumption, BatchFacts DEF TypeOK, Absent, taskVars, fileVars,
     ownedVars, FilesIn, FilesOf, BatchesPartition
  <1>18. QED
    BY StepCases, <1>1, <1>2, <1>3, <1>4, <1>5, <1>6, <1>7, <1>8, <1>9, <1>10, <1>11,
       <1>12, <1>13, <1>14, <1>15, <1>16, <1>17

(* RowsDiffer: only a page of the manifest adds rows, and Agrees is what it *)
(* is checked for; every other transaction works on rows that are there.   *)
LEMMA PageKeepsRowsDifferent ==
  ASSUME TypeOK, RowsDiffer, NEW t \in Task, NEW D \in SUBSET Dir, NEW F \in SUBSET File,
         UpsertManifestPage(t, D, F)
  PROVE  RowsDiffer'
  <1>1. /\ \A d \in D : DirTask[d] = t
        /\ \A f \in F : FileTask[f] = t
        /\ Agrees(t, D, F)
    BY DEF UpsertManifestPage, MayUpsertManifestPage
  <1>2. /\ \A f \in File : status'[f] # Absent => status[f] # Absent \/ f \in F
        /\ \A d \in Dir : dirId'[d] # Absent => dirId[d] # Absent \/ d \in D
    BY DEF UpsertManifestPage, TypeOK
  <1>3. ASSUME NEW f \in File, NEW g \in File, f # g, FileTask[f] = FileTask[g],
               status'[f] # Absent, status'[g] # Absent
        PROVE  SourceId[f] # SourceId[g] /\ Path[f] # Path[g]
    <2>1. CASE f \in F
      BY <1>1, <1>2, <1>3, <2>1 DEF Agrees, FilesOf
    <2>2. CASE g \in F
      BY <1>1, <1>2, <1>3, <2>2 DEF Agrees, FilesOf
    <2>3. QED
      BY <1>2, <1>3, <2>1, <2>2 DEF RowsDiffer
  <1>4. ASSUME NEW f \in File, NEW d \in Dir, FileTask[f] = DirTask[d],
               status'[f] # Absent, dirId'[d] # Absent
        PROVE  Path[f] # Path[d]
    <2>1. CASE f \in F
      BY <1>1, <1>2, <1>4, <2>1 DEF Agrees, DirsOf
    <2>2. CASE d \in D
      BY <1>1, <1>2, <1>4, <2>1, <2>2 DEF Agrees, FilesOf
    <2>3. QED
      BY <1>2, <1>4, <2>1, <2>2 DEF RowsDiffer
  <1>5. QED
    BY <1>3, <1>4 DEF RowsDiffer

LEMMA RowsDifferStep ==
  ASSUME TypeOK, RowsDiffer, BatchesPartition, NEW t \in Task, TaskStep(t) \/ BatchStep(t) \/ FileStep(t)
  PROVE  RowsDiffer'
  <1> DEFINE Kept == /\ \A f \in File : status'[f] # Absent => status[f] # Absent
                     /\ \A d \in Dir : dirId'[d] # Absent => dirId[d] # Absent
  <1> SUFFICES ASSUME ~\E D \in SUBSET Dir, F \in SUBSET File : UpsertManifestPage(t, D, F)
               PROVE  Kept
    BY PageKeepsRowsDifferent DEF RowsDiffer
  <1> USE DEF TypeOK, Absent, taskVars, fileVars, FilesIn, FilesOf
  <1>1. CASE UNCHANGED <<status, dirId>>
    BY <1>1
  <1>2. ASSUME NEW d \in Dir, NEW id \in DriveId, RecordDirectoryDriveID(t, d, id)
        PROVE  Kept
    BY <1>2, IdAssumption DEF RecordDirectoryDriveID, MayRecordDirectoryDriveID, DirsOf
  <1>3. ASSUME NEW maxBytes \in PlanBound, NEW P \in SUBSET Batch, PlanBatches(t, maxBytes, P)
        PROVE  Kept
    BY <1>3 DEF PlanBatches, Discovered
  <1>4. ASSUME NEW b \in Batch, StartBatch(t, b)
        PROVE  Kept
    BY <1>4 DEF StartBatch
  <1>5. ASSUME NEW b \in Batch, NEW S \in SUBSET File, RecordStagedFiles(t, b, S)
        PROVE  Kept
    BY <1>5 DEF RecordStagedFiles, AwaitingConfirmation
  <1>6. ASSUME NEW b \in Batch, NEW p \in BOOLEAN, FailBatch(t, b, p)
        PROVE  Kept
    BY <1>6 DEF FailBatch, MayFailBatch, StagingBatches, BatchesOf, BatchesPartition
  <1>7. ASSUME NEW b \in Batch, AuthorizeBatchCleanup(t, b)
        PROVE  Kept
    BY <1>7 DEF AuthorizeBatchCleanup, MayAuthorizeBatchCleanup
  <1>8. ASSUME NEW b \in Batch, CompleteBatchCleanup(t, b)
        PROVE  Kept
    BY <1>8 DEF CompleteBatchCleanup, MayCompleteBatchCleanup
  <1>9. ASSUME NEW f \in File, StartDownload(t, f)
        PROVE  Kept
    BY <1>9 DEF StartDownload, MayStartDownload, DownloadCandidates
  <1>10. ASSUME NEW f \in File, MarkLocalReady(t, f)
         PROVE  Kept
    BY <1>10 DEF MarkLocalReady, MayMarkLocalReady
  <1>11. ASSUME NEW f \in File, NEW p \in BOOLEAN, RecordDownloadFailure(t, f, p)
         PROVE  Kept
    BY <1>11 DEF RecordDownloadFailure, MayRecordDownloadFailure, DownloadCandidates
  <1>12. ASSUME NEW f \in File, StartDriveUpload(t, f)
         PROVE  Kept
    BY <1>12 DEF StartDriveUpload, MayStartDriveUpload
  <1>13. ASSUME NEW f \in File, NEW id \in DriveId, RecordDriveUploaded(t, f, id)
         PROVE  Kept
    BY <1>13 DEF RecordDriveUploaded, MayRecordDriveUploaded, DriveUploadCandidates
  <1>14. ASSUME NEW f \in File, NEW id \in DriveId, MarkDriveVerified(t, f, id)
         PROVE  Kept
    BY <1>14 DEF MarkDriveVerified, MayMarkDriveVerified
  <1>15. ASSUME NEW f \in File, NEW p \in BOOLEAN, RecordDriveFailure(t, f, p)
         PROVE  Kept
    BY <1>15 DEF RecordDriveFailure, MayRecordDriveFailure, DriveUploadCandidates
  <1>16. CASE \/ CreateTask(t)
              \/ CompleteTaskScan(t)
              \/ \E s \in TaskStatus : UpdateTaskStatus(t, s)
              \/ \E id \in DriveId : SetTaskDriveRoot(t, id)
              \/ AuthorizeTaskRootCleanup(t)
              \/ MarkBaiduTaskRootCleanupDone(t)
              \/ \E b \in Batch : CompleteBatch(t, b)
              \/ \E b \in Batch : MarkBaiduBatchCleanupDone(t, b)
              \/ \E f \in File : MarkLocalCacheCleanupDone(t, f)
    BY <1>1, <1>16 DEF CreateTask, CompleteTaskScan, UpdateTaskStatus, SetTaskDriveRoot,
       AuthorizeTaskRootCleanup, MarkBaiduTaskRootCleanupDone, CompleteBatch,
       MarkBaiduBatchCleanupDone, MarkLocalCacheCleanupDone
  <1> HIDE DEF TypeOK, Absent, taskVars, fileVars, FilesIn, FilesOf, Kept
  <1>17. QED
    BY StepCases, <1>2, <1>3, <1>4, <1>5, <1>6, <1>7, <1>8, <1>9, <1>10, <1>11, <1>12,
       <1>13, <1>14, <1>15, <1>16

(* RowsConsistent: the rows of batches, provenance, scans and tasks agree. *)
LEMMA RowsConsistentStep ==
  ASSUME TypeOK, RowsConsistent, BatchesPartition, NEW t \in Task,
         TaskStep(t) \/ BatchStep(t) \/ FileStep(t)
  PROVE  RowsConsistent'
  <1>0. RowsDiffer'
    BY RowsDifferStep DEF RowsConsistent
  <1> USE <1>0, StoreAssumption, BatchFacts DEF TypeOK, Absent, taskVars, fileVars,
     ownedVars, FilesIn, FilesOf, RowsConsistent, BatchesPartition
  <1>1. CASE CreateTask(t)
    BY <1>1 DEF CreateTask
  <1>2. ASSUME NEW D \in SUBSET Dir, NEW F \in SUBSET File, UpsertManifestPage(t, D, F)
        PROVE  RowsConsistent'
    BY <1>2 DEF UpsertManifestPage, MayUpsertManifestPage
  <1>3. CASE CompleteTaskScan(t)
    BY <1>3 DEF CompleteTaskScan
  <1>4. ASSUME NEW s \in TaskStatus, UpdateTaskStatus(t, s)
        PROVE  RowsConsistent'
    BY <1>4 DEF UpdateTaskStatus, Resumable, Complete, TaskStatus
  <1>5. ASSUME NEW id \in DriveId, SetTaskDriveRoot(t, id)
        PROVE  RowsConsistent'
    BY <1>5 DEF SetTaskDriveRoot, MaySetTaskDriveRoot, Resumable
  <1>6. CASE AuthorizeTaskRootCleanup(t)
    BY <1>6 DEF AuthorizeTaskRootCleanup, Resumable, Allow
  <1>7. CASE MarkBaiduTaskRootCleanupDone(t)
    BY <1>7 DEF MarkBaiduTaskRootCleanupDone, Resumable
  <1>8. ASSUME NEW maxBytes \in PlanBound, NEW P \in SUBSET Batch, PlanBatches(t, maxBytes, P)
        PROVE  RowsConsistent'
    BY <1>8 DEF PlanBatches, MayPlanBatches, Resumable, Discovered, IsPlan, IsPartition, Register
  <1>9. ASSUME NEW b \in Batch, StartBatch(t, b)
        PROVE  RowsConsistent'
    BY <1>9 DEF StartBatch, MayStartBatch, Resumable, BatchesOf
  <1>10. ASSUME NEW b \in Batch, NEW S \in SUBSET File, RecordStagedFiles(t, b, S)
         PROVE  RowsConsistent'
    BY <1>10 DEF RecordStagedFiles, Resumable, BatchesOf, AwaitingConfirmation,
       StagingConfirmationAlreadyConsumed
  <1>11. ASSUME NEW b \in Batch, CompleteBatch(t, b)
         PROVE  RowsConsistent'
    BY <1>11 DEF CompleteBatch, MayCompleteBatch, Resumable, BatchesOf
  <1>12. ASSUME NEW b \in Batch, NEW p \in BOOLEAN, FailBatch(t, b, p)
         PROVE  RowsConsistent'
    BY <1>12 DEF FailBatch, MayFailBatch, Resumable, BatchesOf, StagingBatches, Stageable
  <1>13. ASSUME NEW b \in Batch, AuthorizeBatchCleanup(t, b)
         PROVE  RowsConsistent'
    BY <1>13 DEF AuthorizeBatchCleanup, MayAuthorizeBatchCleanup, Resumable, BatchesOf, Allow
  <1>14. ASSUME NEW b \in Batch, MarkBaiduBatchCleanupDone(t, b)
         PROVE  RowsConsistent'
    BY <1>14 DEF MarkBaiduBatchCleanupDone, MayMarkBaiduBatchCleanupDone, Resumable, BatchesOf
  <1>15. ASSUME NEW b \in Batch, CompleteBatchCleanup(t, b)
         PROVE  RowsConsistent'
    BY <1>15 DEF CompleteBatchCleanup, MayCompleteBatchCleanup, Resumable, BatchesOf
  <1>16. ASSUME NEW f \in File, StartDownload(t, f)
         PROVE  RowsConsistent'
    BY <1>16 DEF StartDownload, MayStartDownload, Resumable, DownloadCandidates
  <1>17. ASSUME NEW f \in File, MarkLocalReady(t, f)
         PROVE  RowsConsistent'
    BY <1>17 DEF MarkLocalReady, MayMarkLocalReady, Resumable
  <1>18. ASSUME NEW f \in File, NEW p \in BOOLEAN, RecordDownloadFailure(t, f, p)
         PROVE  RowsConsistent'
    BY <1>18 DEF RecordDownloadFailure, MayRecordDownloadFailure, Resumable, DownloadCandidates
  <1>19. ASSUME NEW f \in File, StartDriveUpload(t, f)
         PROVE  RowsConsistent'
    BY <1>19 DEF StartDriveUpload, MayStartDriveUpload, Resumable
  <1>20. ASSUME NEW f \in File, NEW id \in DriveId, RecordDriveUploaded(t, f, id)
         PROVE  RowsConsistent'
    BY <1>20 DEF RecordDriveUploaded, MayRecordDriveUploaded, Resumable, DriveUploadCandidates
  <1>21. ASSUME NEW f \in File, NEW id \in DriveId, MarkDriveVerified(t, f, id)
         PROVE  RowsConsistent'
    BY <1>21 DEF MarkDriveVerified, MayMarkDriveVerified, Resumable
  <1>22. ASSUME NEW f \in File, NEW p \in BOOLEAN, RecordDriveFailure(t, f, p)
         PROVE  RowsConsistent'
    BY <1>22 DEF RecordDriveFailure, MayRecordDriveFailure, Resumable, DriveUploadCandidates
  <1>23. CASE UNCHANGED <<batchStatus, batchOwned, scanCompleted, rootOwned, driveRoot, taskStatus, status>>
    BY <1>23
  <1>24. CASE \/ \E d \in Dir, id \in DriveId : RecordDirectoryDriveID(t, d, id)
              \/ \E f \in File : MarkLocalCacheCleanupDone(t, f)
    BY <1>23, <1>24 DEF RecordDirectoryDriveID, MarkLocalCacheCleanupDone
  <1> HIDE <1>0, StoreAssumption, BatchFacts DEF TypeOK, Absent, taskVars, fileVars,
     ownedVars, FilesIn, FilesOf, RowsConsistent, BatchesPartition
  <1>25. QED
    BY StepCases, <1>1, <1>2, <1>3, <1>4, <1>5, <1>6, <1>7, <1>8, <1>9, <1>10, <1>11,
       <1>12, <1>13, <1>14, <1>15, <1>16, <1>17, <1>18, <1>19, <1>20, <1>21, <1>22,
       <1>23, <1>24

(* UploadEvidence: what is on Drive came from a complete local file.       *)
LEMMA UploadEvidenceStep ==
  ASSUME TypeOK, UploadEvidence, RowsConsistent, NEW t \in Task,
         TaskStep(t) \/ BatchStep(t) \/ FileStep(t)
  PROVE  UploadEvidence'
  <1> USE StoreAssumption, BatchFacts DEF TypeOK, Absent, taskVars, fileVars,
     ownedVars, FilesIn, FilesOf, UploadEvidence, RowsConsistent, TreeReady, Verified
  <1>1. ASSUME NEW D \in SUBSET Dir, NEW F \in SUBSET File, UpsertManifestPage(t, D, F)
        PROVE  UploadEvidence'
    BY <1>1 DEF UpsertManifestPage, MayUpsertManifestPage
  <1>2. ASSUME NEW id \in DriveId, SetTaskDriveRoot(t, id)
        PROVE  UploadEvidence'
    BY <1>2 DEF SetTaskDriveRoot, MaySetTaskDriveRoot, Resumable
  <1>3. ASSUME NEW d \in Dir, NEW id \in DriveId, RecordDirectoryDriveID(t, d, id)
        PROVE  UploadEvidence'
    BY <1>3 DEF RecordDirectoryDriveID, MayRecordDirectoryDriveID, Resumable
  <1>4. ASSUME NEW maxBytes \in PlanBound, NEW P \in SUBSET Batch, PlanBatches(t, maxBytes, P)
        PROVE  UploadEvidence'
    BY <1>4 DEF PlanBatches, Resumable, Discovered, IsPlan, IsPartition, Register
  <1>5. ASSUME NEW b \in Batch, StartBatch(t, b)
        PROVE  UploadEvidence'
    BY <1>5 DEF StartBatch, Resumable, BatchesOf
  <1>6. ASSUME NEW b \in Batch, NEW S \in SUBSET File, RecordStagedFiles(t, b, S)
        PROVE  UploadEvidence'
    BY <1>6 DEF RecordStagedFiles, Resumable, BatchesOf, AwaitingConfirmation,
       StagingConfirmationAlreadyConsumed
  <1>7. ASSUME NEW b \in Batch, NEW p \in BOOLEAN, FailBatch(t, b, p)
        PROVE  UploadEvidence'
    BY <1>7 DEF FailBatch, Resumable, BatchesOf, StagingBatches, Stageable
  <1>8. ASSUME NEW b \in Batch, AuthorizeBatchCleanup(t, b)
        PROVE  UploadEvidence'
    BY <1>8 DEF AuthorizeBatchCleanup, MayAuthorizeBatchCleanup, Resumable, BatchesOf, Allow
  <1>9. ASSUME NEW b \in Batch, CompleteBatchCleanup(t, b)
        PROVE  UploadEvidence'
    BY <1>9 DEF CompleteBatchCleanup, MayCompleteBatchCleanup, Resumable, BatchesOf
  <1>10. ASSUME NEW f \in File, StartDownload(t, f)
         PROVE  UploadEvidence'
    BY <1>10 DEF StartDownload, Resumable, DownloadCandidates
  <1>11. ASSUME NEW f \in File, MarkLocalReady(t, f)
         PROVE  UploadEvidence'
    BY <1>11 DEF MarkLocalReady, Resumable
  <1>12. ASSUME NEW f \in File, NEW p \in BOOLEAN, RecordDownloadFailure(t, f, p)
         PROVE  UploadEvidence'
    BY <1>12 DEF RecordDownloadFailure, Resumable, DownloadCandidates
  <1>13. ASSUME NEW f \in File, StartDriveUpload(t, f)
         PROVE  UploadEvidence'
    BY <1>13 DEF StartDriveUpload, MayStartDriveUpload, Resumable
  <1>14. ASSUME NEW f \in File, NEW id \in DriveId, RecordDriveUploaded(t, f, id)
         PROVE  UploadEvidence'
    BY <1>14, IdAssumption DEF RecordDriveUploaded, MayRecordDriveUploaded, Resumable,
                               DriveUploadCandidates
  <1>15. ASSUME NEW f \in File, NEW id \in DriveId, MarkDriveVerified(t, f, id)
         PROVE  UploadEvidence'
    BY <1>15 DEF MarkDriveVerified, MayMarkDriveVerified, Resumable
  <1>16. ASSUME NEW f \in File, NEW p \in BOOLEAN, RecordDriveFailure(t, f, p)
         PROVE  UploadEvidence'
    BY <1>16 DEF RecordDriveFailure, Resumable, DriveUploadCandidates
  <1>17. CASE UNCHANGED <<status, cachePath, driveId, driveRoot, dirId>>
    BY <1>17
  <1>18. CASE \/ CreateTask(t)
              \/ CompleteTaskScan(t)
              \/ \E s \in TaskStatus : UpdateTaskStatus(t, s)
              \/ AuthorizeTaskRootCleanup(t)
              \/ MarkBaiduTaskRootCleanupDone(t)
              \/ \E b \in Batch : CompleteBatch(t, b)
              \/ \E b \in Batch : MarkBaiduBatchCleanupDone(t, b)
              \/ \E f \in File : MarkLocalCacheCleanupDone(t, f)
    BY <1>17, <1>18 DEF CreateTask, CompleteTaskScan, UpdateTaskStatus,
       AuthorizeTaskRootCleanup, MarkBaiduTaskRootCleanupDone, CompleteBatch,
       MarkBaiduBatchCleanupDone, MarkLocalCacheCleanupDone
  <1> HIDE StoreAssumption, BatchFacts DEF TypeOK, Absent, taskVars, fileVars,
     ownedVars, FilesIn, FilesOf, UploadEvidence, RowsConsistent, TreeReady, Verified
  <1>19. QED
    BY StepCases, <1>1, <1>2, <1>3, <1>4, <1>5, <1>6, <1>7, <1>8, <1>9, <1>10, <1>11,
       <1>12, <1>13, <1>14, <1>15, <1>16, <1>17, <1>18

(* CleanupGate: a deletable directory holds only files that are on Drive.  *)
(* Needs the partition, so that a file is in no second batch, and          *)
(* LocalGate, so that a file offered to MarkLocalReady is in no authorized *)
(* one.                                                                    *)
LEMMA CleanupGateStep ==
  ASSUME TypeOK, CleanupGate, BatchesPartition, RowsConsistent, LocalGate, NEW t \in
     Task,
         TaskStep(t) \/ BatchStep(t) \/ FileStep(t)
  PROVE  CleanupGate'
  <1> USE StoreAssumption, BatchFacts DEF TypeOK, Absent, taskVars, fileVars,
     ownedVars, FilesIn, FilesOf, CleanupGate, BatchesPartition, RowsConsistent,
     LocalGate, Authorized
  <1>1. ASSUME NEW D \in SUBSET Dir, NEW F \in SUBSET File, UpsertManifestPage(t, D, F)
        PROVE  CleanupGate'
    BY <1>1 DEF UpsertManifestPage
  <1>2. ASSUME NEW maxBytes \in PlanBound, NEW P \in SUBSET Batch, PlanBatches(t, maxBytes, P)
        PROVE  CleanupGate'
    BY <1>2 DEF PlanBatches, Resumable, Discovered, IsPlan, IsPartition, Register
  <1>3. ASSUME NEW b \in Batch, StartBatch(t, b)
        PROVE  CleanupGate'
    BY <1>3 DEF StartBatch, Resumable, BatchesOf
  <1>4. ASSUME NEW b \in Batch, NEW S \in SUBSET File, RecordStagedFiles(t, b, S)
        PROVE  CleanupGate'
    BY <1>4 DEF RecordStagedFiles, Resumable, BatchesOf, AwaitingConfirmation,
       StagingConfirmationAlreadyConsumed
  <1>5. ASSUME NEW b \in Batch, NEW p \in BOOLEAN, FailBatch(t, b, p)
        PROVE  CleanupGate'
    BY <1>5 DEF FailBatch, Resumable, BatchesOf, StagingBatches, Stageable
  <1>6. ASSUME NEW b \in Batch, AuthorizeBatchCleanup(t, b)
        PROVE  CleanupGate'
    BY <1>6 DEF AuthorizeBatchCleanup, MayAuthorizeBatchCleanup, Resumable, BatchesOf, Allow
  <1>7. ASSUME NEW b \in Batch, MarkBaiduBatchCleanupDone(t, b)
        PROVE  CleanupGate'
    BY <1>7 DEF MarkBaiduBatchCleanupDone, MayMarkBaiduBatchCleanupDone, Resumable, BatchesOf
  <1>8. ASSUME NEW b \in Batch, CompleteBatchCleanup(t, b)
        PROVE  CleanupGate'
    BY <1>8 DEF CompleteBatchCleanup, Resumable, BatchesOf
  <1>9. ASSUME NEW f \in File, StartDownload(t, f)
        PROVE  CleanupGate'
    BY <1>9 DEF StartDownload, MayStartDownload, Resumable, DownloadCandidates
  <1>10. ASSUME NEW f \in File, MarkLocalReady(t, f)
         PROVE  CleanupGate'
    BY <1>10 DEF MarkLocalReady, MayMarkLocalReady, Resumable
  <1>11. ASSUME NEW f \in File, NEW p \in BOOLEAN, RecordDownloadFailure(t, f, p)
         PROVE  CleanupGate'
    BY <1>11 DEF RecordDownloadFailure, MayRecordDownloadFailure, Resumable, DownloadCandidates
  <1>12. ASSUME NEW f \in File, StartDriveUpload(t, f)
         PROVE  CleanupGate'
    BY <1>12 DEF StartDriveUpload, MayStartDriveUpload, Resumable
  <1>13. ASSUME NEW f \in File, NEW id \in DriveId, RecordDriveUploaded(t, f, id)
         PROVE  CleanupGate'
    BY <1>13 DEF RecordDriveUploaded, MayRecordDriveUploaded, Resumable, DriveUploadCandidates
  <1>14. ASSUME NEW f \in File, NEW id \in DriveId, MarkDriveVerified(t, f, id)
         PROVE  CleanupGate'
    BY <1>14 DEF MarkDriveVerified, MayMarkDriveVerified, Resumable
  <1>15. ASSUME NEW f \in File, NEW p \in BOOLEAN, RecordDriveFailure(t, f, p)
         PROVE  CleanupGate'
    BY <1>15 DEF RecordDriveFailure, Resumable, DriveUploadCandidates
  <1>16. ASSUME NEW f \in File, MarkLocalCacheCleanupDone(t, f)
         PROVE  CleanupGate'
    BY <1>16 DEF MarkLocalCacheCleanupDone, Resumable
  <1>17. CASE UNCHANGED <<batchOwned, driveId, localOwned, status>>
    BY <1>17
  <1>18. CASE \/ CreateTask(t)
              \/ CompleteTaskScan(t)
              \/ \E s \in TaskStatus : UpdateTaskStatus(t, s)
              \/ \E id \in DriveId : SetTaskDriveRoot(t, id)
              \/ \E d \in Dir, id \in DriveId : RecordDirectoryDriveID(t, d, id)
              \/ AuthorizeTaskRootCleanup(t)
              \/ MarkBaiduTaskRootCleanupDone(t)
              \/ \E b \in Batch : CompleteBatch(t, b)
    BY <1>17, <1>18 DEF CreateTask, CompleteTaskScan, UpdateTaskStatus,
       SetTaskDriveRoot, RecordDirectoryDriveID, AuthorizeTaskRootCleanup,
       MarkBaiduTaskRootCleanupDone, CompleteBatch
  <1> HIDE StoreAssumption, BatchFacts DEF TypeOK, Absent, taskVars, fileVars,
     ownedVars, FilesIn, FilesOf, CleanupGate, BatchesPartition, RowsConsistent,
     LocalGate, Authorized
  <1>19. QED
    BY StepCases, <1>1, <1>2, <1>3, <1>4, <1>5, <1>6, <1>7, <1>8, <1>9, <1>10, <1>11,
       <1>12, <1>13, <1>14, <1>15, <1>16, <1>17, <1>18

(* LocalGate: a deletable local copy belongs to an authorized batch.       *)
LEMMA LocalGateStep ==
  ASSUME TypeOK, LocalGate, RowsConsistent, NEW t \in Task,
         TaskStep(t) \/ BatchStep(t) \/ FileStep(t)
  PROVE  LocalGate'
  <1> USE StoreAssumption, BatchFacts DEF TypeOK, Absent, taskVars, fileVars,
     ownedVars, FilesIn, FilesOf, LocalGate, RowsConsistent, Authorized
  <1>1. ASSUME NEW maxBytes \in PlanBound, NEW P \in SUBSET Batch, PlanBatches(t, maxBytes, P)
        PROVE  LocalGate'
    BY <1>1 DEF PlanBatches, Resumable, Discovered, IsPlan, IsPartition, Register
  <1>2. ASSUME NEW b \in Batch, StartBatch(t, b)
        PROVE  LocalGate'
    BY <1>2 DEF StartBatch, Resumable, BatchesOf
  <1>3. ASSUME NEW b \in Batch, CompleteBatch(t, b)
        PROVE  LocalGate'
    BY <1>3 DEF CompleteBatch, Resumable, BatchesOf
  <1>4. ASSUME NEW b \in Batch, NEW p \in BOOLEAN, FailBatch(t, b, p)
        PROVE  LocalGate'
    BY <1>4 DEF FailBatch, Resumable, BatchesOf, StagingBatches, Stageable
  <1>5. ASSUME NEW b \in Batch, AuthorizeBatchCleanup(t, b)
        PROVE  LocalGate'
    BY <1>5 DEF AuthorizeBatchCleanup, MayAuthorizeBatchCleanup, Resumable, BatchesOf, Allow
  <1>6. ASSUME NEW b \in Batch, MarkBaiduBatchCleanupDone(t, b)
        PROVE  LocalGate'
    BY <1>6 DEF MarkBaiduBatchCleanupDone, Resumable, BatchesOf
  <1>7. ASSUME NEW f \in File, MarkLocalReady(t, f)
        PROVE  LocalGate'
    BY <1>7 DEF MarkLocalReady, Resumable
  <1>8. ASSUME NEW f \in File, MarkLocalCacheCleanupDone(t, f)
        PROVE  LocalGate'
    BY <1>8 DEF MarkLocalCacheCleanupDone, MayMarkLocalCacheCleanupDone, Resumable
  <1>9. CASE UNCHANGED <<localOwned, batchStatus, batchOwned>>
    BY <1>9
  <1>10. CASE \/ CreateTask(t)
              \/ \E D \in SUBSET Dir, F \in SUBSET File : UpsertManifestPage(t, D, F)
              \/ CompleteTaskScan(t)
              \/ \E s \in TaskStatus : UpdateTaskStatus(t, s)
              \/ \E id \in DriveId : SetTaskDriveRoot(t, id)
              \/ \E d \in Dir, id \in DriveId : RecordDirectoryDriveID(t, d, id)
              \/ AuthorizeTaskRootCleanup(t)
              \/ MarkBaiduTaskRootCleanupDone(t)
              \/ \E b \in Batch, S \in SUBSET File : RecordStagedFiles(t, b, S)
              \/ \E b \in Batch : CompleteBatchCleanup(t, b)
              \/ \E f \in File : StartDownload(t, f)
              \/ \E f \in File, p \in BOOLEAN : RecordDownloadFailure(t, f, p)
              \/ \E f \in File : StartDriveUpload(t, f)
              \/ \E f \in File, id \in DriveId : RecordDriveUploaded(t, f, id)
              \/ \E f \in File, id \in DriveId : MarkDriveVerified(t, f, id)
              \/ \E f \in File, p \in BOOLEAN : RecordDriveFailure(t, f, p)
    BY <1>9, <1>10 DEF CreateTask, UpsertManifestPage, CompleteTaskScan,
       UpdateTaskStatus, SetTaskDriveRoot, RecordDirectoryDriveID,
       AuthorizeTaskRootCleanup, MarkBaiduTaskRootCleanupDone, RecordStagedFiles,
       CompleteBatchCleanup, StartDownload, RecordDownloadFailure, StartDriveUpload,
       RecordDriveUploaded, MarkDriveVerified, RecordDriveFailure
  <1> HIDE StoreAssumption, BatchFacts DEF TypeOK, Absent, taskVars, fileVars,
     ownedVars, FilesIn, FilesOf, LocalGate, RowsConsistent, Authorized
  <1>11. QED
    BY StepCases, <1>1, <1>2, <1>3, <1>4, <1>5, <1>6, <1>7, <1>8, <1>9, <1>10

(* DoneEvidence: a DONE file left nothing behind. The partition gives the  *)
(* one batch whose completion made it DONE.                                *)
LEMMA DoneEvidenceStep ==
  ASSUME TypeOK, DoneEvidence, BatchesPartition, NEW t \in Task,
         TaskStep(t) \/ BatchStep(t) \/ FileStep(t)
  PROVE  DoneEvidence'
  <1> USE StoreAssumption, BatchFacts DEF TypeOK, Absent, taskVars, fileVars,
     ownedVars, FilesIn, FilesOf, DoneEvidence, BatchesPartition
  <1>1. ASSUME NEW D \in SUBSET Dir, NEW F \in SUBSET File, UpsertManifestPage(t, D, F)
        PROVE  DoneEvidence'
    BY <1>1 DEF UpsertManifestPage
  <1>2. ASSUME NEW maxBytes \in PlanBound, NEW P \in SUBSET Batch, PlanBatches(t, maxBytes, P)
        PROVE  DoneEvidence'
    BY <1>2 DEF PlanBatches, MayPlanBatches, Resumable, Discovered, IsPlan, IsPartition, Register
  <1>3. ASSUME NEW b \in Batch, StartBatch(t, b)
        PROVE  DoneEvidence'
    BY <1>3 DEF StartBatch, MayStartBatch, Resumable, BatchesOf
  <1>4. ASSUME NEW b \in Batch, NEW S \in SUBSET File, RecordStagedFiles(t, b, S)
        PROVE  DoneEvidence'
    BY <1>4 DEF RecordStagedFiles, Resumable, BatchesOf, AwaitingConfirmation,
       StagingConfirmationAlreadyConsumed
  <1>5. ASSUME NEW b \in Batch, CompleteBatch(t, b)
        PROVE  DoneEvidence'
    BY <1>5 DEF CompleteBatch, MayCompleteBatch, Resumable, BatchesOf
  <1>6. ASSUME NEW b \in Batch, NEW p \in BOOLEAN, FailBatch(t, b, p)
        PROVE  DoneEvidence'
    BY <1>6 DEF FailBatch, MayFailBatch, Resumable, BatchesOf, StagingBatches, Stageable
  <1>7. ASSUME NEW b \in Batch, AuthorizeBatchCleanup(t, b)
        PROVE  DoneEvidence'
    BY <1>7 DEF AuthorizeBatchCleanup, Resumable, BatchesOf, Allow
  <1>8. ASSUME NEW b \in Batch, MarkBaiduBatchCleanupDone(t, b)
        PROVE  DoneEvidence'
    BY <1>8 DEF MarkBaiduBatchCleanupDone, Resumable, BatchesOf
  <1>9. ASSUME NEW b \in Batch, CompleteBatchCleanup(t, b)
        PROVE  DoneEvidence'
    BY <1>9 DEF CompleteBatchCleanup, MayCompleteBatchCleanup, Resumable, BatchesOf
  <1>10. ASSUME NEW f \in File, StartDownload(t, f)
         PROVE  DoneEvidence'
    BY <1>10 DEF StartDownload, Resumable, DownloadCandidates
  <1>11. ASSUME NEW f \in File, MarkLocalReady(t, f)
         PROVE  DoneEvidence'
    BY <1>11 DEF MarkLocalReady, Resumable
  <1>12. ASSUME NEW f \in File, NEW p \in BOOLEAN, RecordDownloadFailure(t, f, p)
         PROVE  DoneEvidence'
    BY <1>12 DEF RecordDownloadFailure, Resumable, DownloadCandidates
  <1>13. ASSUME NEW f \in File, StartDriveUpload(t, f)
         PROVE  DoneEvidence'
    BY <1>13 DEF StartDriveUpload, Resumable
  <1>14. ASSUME NEW f \in File, NEW id \in DriveId, RecordDriveUploaded(t, f, id)
         PROVE  DoneEvidence'
    BY <1>14 DEF RecordDriveUploaded, Resumable, DriveUploadCandidates
  <1>15. ASSUME NEW f \in File, NEW id \in DriveId, MarkDriveVerified(t, f, id)
         PROVE  DoneEvidence'
    BY <1>15 DEF MarkDriveVerified, Resumable
  <1>16. ASSUME NEW f \in File, NEW p \in BOOLEAN, RecordDriveFailure(t, f, p)
         PROVE  DoneEvidence'
    BY <1>16 DEF RecordDriveFailure, Resumable, DriveUploadCandidates
  <1>17. ASSUME NEW f \in File, MarkLocalCacheCleanupDone(t, f)
         PROVE  DoneEvidence'
    BY <1>17 DEF MarkLocalCacheCleanupDone, Resumable
  <1>18. CASE UNCHANGED <<status, localOwned, batchStatus, batchOwned>>
    BY <1>18
  <1>19. CASE \/ CreateTask(t)
              \/ CompleteTaskScan(t)
              \/ \E s \in TaskStatus : UpdateTaskStatus(t, s)
              \/ \E id \in DriveId : SetTaskDriveRoot(t, id)
              \/ \E d \in Dir, id \in DriveId : RecordDirectoryDriveID(t, d, id)
              \/ AuthorizeTaskRootCleanup(t)
              \/ MarkBaiduTaskRootCleanupDone(t)
    BY <1>18, <1>19 DEF CreateTask, CompleteTaskScan, UpdateTaskStatus,
       SetTaskDriveRoot, RecordDirectoryDriveID, AuthorizeTaskRootCleanup,
       MarkBaiduTaskRootCleanupDone
  <1> HIDE StoreAssumption, BatchFacts DEF TypeOK, Absent, taskVars, fileVars,
     ownedVars, FilesIn, FilesOf, DoneEvidence, BatchesPartition
  <1>20. QED
    BY StepCases, <1>1, <1>2, <1>3, <1>4, <1>5, <1>6, <1>7, <1>8, <1>9, <1>10, <1>11,
       <1>12, <1>13, <1>14, <1>15, <1>16, <1>17, <1>18, <1>19

(* Planning: a task whose root may be deleted has nothing to plan, so the  *)
(* root is another task's.                                                 *)
LEMMA RootLastPlan ==
  ASSUME TypeOK, RootLast, NEW t \in Task, NEW maxBytes, NEW P \in SUBSET Batch,
         PlanBatches(t, maxBytes, P)
  PROVE  RootLast'
  <1> SUFFICES ASSUME NEW u \in Task, rootOwned'[u] \in Authorized
               PROVE  /\ Discovered(u)' = {} /\ scanCompleted'[u]
                      /\ \A b \in BatchesOf(u)' : batchOwned'[b] = "CLEANED"
    BY DEF RootLast
  <1>1. u # t
    BY DEF PlanBatches, MayPlanBatches, RootLast, Register, Authorized, TypeOK, Absent
  <1>2. Discovered(u)' = Discovered(u)
    BY <1>1, PlanTouchesOneTask DEF Discovered, FilesIn, FilesOf
  <1>3. rootOwned[u] \in Authorized
    BY <1>1, PlanTouchesOneTask
  <1>4. scanCompleted' = scanCompleted
    BY DEF PlanBatches, taskVars
  <1>5. ASSUME NEW b \in BatchesOf(u)' PROVE batchOwned'[b] = "CLEANED"
    <2>1. b \in BatchesOf(u) /\ batchOwned'[b] = batchOwned[b]
      BY <1>1, PlanTouchesOneTask
    <2>2. QED
      BY <2>1, <1>3 DEF RootLast
  <1>6. QED
    BY <1>2, <1>3, <1>4, <1>5 DEF RootLast

(* Authorizing the root requires every file to be DONE, hence every batch  *)
(* to be cleaned.                                                          *)
LEMMA RootAuthorizedLast ==
  ASSUME TypeOK, RootLast, BatchesPartition, DoneEvidence, NEW t \in Task,
         AuthorizeTaskRootCleanup(t)
  PROVE  RootLast'
  <1>1. UNCHANGED <<scanCompleted, status, batchStatus, batchOwned>>
    BY DEF AuthorizeTaskRootCleanup, taskVars, fileVars
  <1>2. ASSUME NEW u \in Task
        PROVE  Discovered(u)' = Discovered(u) /\ BatchesOf(u)' = BatchesOf(u)
    BY <1>1 DEF Discovered, FilesIn, FilesOf, BatchesOf
  <1>3. ASSUME NEW u \in Task, u # t
        PROVE  rootOwned'[u] = rootOwned[u]
    BY <1>3 DEF AuthorizeTaskRootCleanup, TypeOK
  <1>4. /\ Discovered(t) = {} /\ scanCompleted[t]
        /\ \A b \in BatchesOf(t) : batchOwned[b] = "CLEANED"
    BY AllDoneAllCleaned DEF AuthorizeTaskRootCleanup, MayAuthorizeTaskRootCleanup
  <1>5. QED
    BY <1>1, <1>2, <1>3, <1>4 DEF RootLast


(* RootLast: the task root is deletable only below nothing.                *)
LEMMA RootLastStep ==
  ASSUME TypeOK, RootLast, BatchesPartition, RowsConsistent, DoneEvidence, NEW t \in
     Task,
         TaskStep(t) \/ BatchStep(t) \/ FileStep(t)
  PROVE  RootLast'
  <1> USE StoreAssumption, BatchFacts DEF TypeOK, Absent, taskVars, fileVars,
     ownedVars, FilesIn, FilesOf, RootLast, BatchesPartition, RowsConsistent,
     DoneEvidence, Authorized, BatchesOf, Discovered
  <1>1. ASSUME NEW D \in SUBSET Dir, NEW F \in SUBSET File, UpsertManifestPage(t, D, F)
        PROVE  RootLast'
    BY <1>1 DEF UpsertManifestPage, MayUpsertManifestPage
  <1>2. CASE CompleteTaskScan(t)
    BY <1>2 DEF CompleteTaskScan
  <1>3. CASE AuthorizeTaskRootCleanup(t)
    <2> HIDE DEF TypeOK, Absent, taskVars, fileVars, ownedVars, FilesIn, FilesOf,
       RootLast, BatchesPartition, RowsConsistent, DoneEvidence, Authorized,
       BatchesOf, Discovered
    <2>1. QED
      BY <1>3, RootAuthorizedLast
  <1>4. CASE MarkBaiduTaskRootCleanupDone(t)
    BY <1>4 DEF MarkBaiduTaskRootCleanupDone, MayMarkBaiduTaskRootCleanupDone, Resumable
  <1>5. ASSUME NEW maxBytes \in PlanBound, NEW P \in SUBSET Batch, PlanBatches(t, maxBytes, P)
        PROVE  RootLast'
    <2> HIDE DEF TypeOK, Absent, taskVars, fileVars, ownedVars, FilesIn, FilesOf,
       RootLast, BatchesPartition, RowsConsistent, DoneEvidence, Authorized,
       BatchesOf, Discovered
    <2>1. QED
      BY <1>5, RootLastPlan
  <1>6. ASSUME NEW b \in Batch, StartBatch(t, b)
        PROVE  RootLast'
    BY <1>6 DEF StartBatch, MayStartBatch, Resumable
  <1>7. ASSUME NEW b \in Batch, NEW S \in SUBSET File, RecordStagedFiles(t, b, S)
        PROVE  RootLast'
    BY <1>7 DEF RecordStagedFiles, Resumable, AwaitingConfirmation,
       StagingConfirmationAlreadyConsumed
  <1>8. ASSUME NEW b \in Batch, CompleteBatch(t, b)
        PROVE  RootLast'
    BY <1>8 DEF CompleteBatch, MayCompleteBatch, Resumable
  <1>9. ASSUME NEW b \in Batch, NEW p \in BOOLEAN, FailBatch(t, b, p)
        PROVE  RootLast'
    BY <1>9 DEF FailBatch, MayFailBatch, Resumable, StagingBatches, Stageable
  <1>10. ASSUME NEW b \in Batch, AuthorizeBatchCleanup(t, b)
         PROVE  RootLast'
    BY <1>10 DEF AuthorizeBatchCleanup, Resumable, Allow
  <1>11. ASSUME NEW b \in Batch, MarkBaiduBatchCleanupDone(t, b)
         PROVE  RootLast'
    BY <1>11 DEF MarkBaiduBatchCleanupDone, Resumable
  <1>12. ASSUME NEW b \in Batch, CompleteBatchCleanup(t, b)
         PROVE  RootLast'
    BY <1>12 DEF CompleteBatchCleanup, Resumable
  <1>13. ASSUME NEW f \in File, StartDownload(t, f)
         PROVE  RootLast'
    BY <1>13 DEF StartDownload, Resumable, DownloadCandidates
  <1>14. ASSUME NEW f \in File, MarkLocalReady(t, f)
         PROVE  RootLast'
    BY <1>14 DEF MarkLocalReady, Resumable
  <1>15. ASSUME NEW f \in File, NEW p \in BOOLEAN, RecordDownloadFailure(t, f, p)
         PROVE  RootLast'
    BY <1>15 DEF RecordDownloadFailure, Resumable, DownloadCandidates
  <1>16. ASSUME NEW f \in File, StartDriveUpload(t, f)
         PROVE  RootLast'
    BY <1>16 DEF StartDriveUpload, Resumable
  <1>17. ASSUME NEW f \in File, NEW id \in DriveId, RecordDriveUploaded(t, f, id)
         PROVE  RootLast'
    BY <1>17 DEF RecordDriveUploaded, Resumable, DriveUploadCandidates
  <1>18. ASSUME NEW f \in File, NEW id \in DriveId, MarkDriveVerified(t, f, id)
         PROVE  RootLast'
    BY <1>18 DEF MarkDriveVerified, Resumable
  <1>19. ASSUME NEW f \in File, NEW p \in BOOLEAN, RecordDriveFailure(t, f, p)
         PROVE  RootLast'
    BY <1>19 DEF RecordDriveFailure, Resumable, DriveUploadCandidates
  <1>20. CASE UNCHANGED <<rootOwned, status, scanCompleted, batchStatus, batchOwned>>
    BY <1>20
  <1>21. CASE \/ CreateTask(t)
              \/ \E s \in TaskStatus : UpdateTaskStatus(t, s)
              \/ \E id \in DriveId : SetTaskDriveRoot(t, id)
              \/ \E d \in Dir, id \in DriveId : RecordDirectoryDriveID(t, d, id)
              \/ \E f \in File : MarkLocalCacheCleanupDone(t, f)
    BY <1>20, <1>21 DEF CreateTask, UpdateTaskStatus, SetTaskDriveRoot,
       RecordDirectoryDriveID, MarkLocalCacheCleanupDone
  <1> HIDE StoreAssumption, BatchFacts DEF TypeOK, Absent, taskVars, fileVars,
     ownedVars, FilesIn, FilesOf, RootLast, BatchesPartition, RowsConsistent,
     DoneEvidence, Authorized, BatchesOf, Discovered
  <1>22. QED
    BY StepCases, <1>1, <1>2, <1>3, <1>4, <1>5, <1>6, <1>7, <1>8, <1>9, <1>10, <1>11,
       <1>12, <1>13, <1>14, <1>15, <1>16, <1>17, <1>18, <1>19, <1>20, <1>21

(* Planning a task leaves a COMPLETED one alone.                           *)
LEMMA CompletedPlan ==
  ASSUME TypeOK, CompletedEvidence, NEW t \in Task, NEW maxBytes, NEW P \in SUBSET Batch,
         PlanBatches(t, maxBytes, P)
  PROVE  CompletedEvidence'
  <1> SUFFICES ASSUME NEW u \in Task, taskStatus'[u] = "COMPLETED"
               PROVE  /\ scanCompleted'[u] /\ Complete(u)'
                      /\ \A f \in FilesOf(u)' : driveId'[f] # NoId /\ localOwned'[f] = "CLEANED"
                      /\ \A b \in BatchesOf(u)' : batchOwned'[b] = "CLEANED"
                      /\ FilesOf(u)' # {} => TreeReady(u)'
    BY DEF CompletedEvidence
  <1>1. UNCHANGED <<taskStatus, scanCompleted, driveRoot, dirId, driveId, localOwned>>
    BY DEF PlanBatches, taskVars
  <1>2. taskStatus[u] = "COMPLETED" /\ u # t
    BY <1>1 DEF PlanBatches, MayPlanBatches, Resumable
  <1>3. FilesOf(u)' = FilesOf(u)
    BY <1>2, PlanTouchesOneTask DEF FilesOf
  <1>4. \A f \in FilesOf(u) : status'[f] = status[f]
    BY <1>2, PlanTouchesOneTask DEF FilesOf
  <1>6. Complete(u)' /\ (TreeReady(u) => TreeReady(u)')
    BY <1>1, <1>2, <1>3, <1>4, PlanTouchesOneTask DEF CompletedEvidence, Complete, TreeReady
  <1> QED BY <1>1, <1>2, <1>3, <1>4, <1>6, PlanTouchesOneTask DEF CompletedEvidence

(* COMPLETED is only claimed when every file is DONE.                      *)
LEMMA CompletedUpdate ==
  ASSUME TypeOK, CompletedEvidence, BatchesPartition, UploadEvidence, DoneEvidence,
         NEW t \in Task, NEW s \in TaskStatus, UpdateTaskStatus(t, s)
  PROVE  CompletedEvidence'
  <1> DEFINE Evidence(u) ==
        /\ scanCompleted[u] /\ Complete(u)
        /\ \A f \in FilesOf(u) : driveId[f] # NoId /\ localOwned[f] = "CLEANED"
        /\ \A b \in BatchesOf(u) : batchOwned[b] = "CLEANED"
        /\ FilesOf(u) # {} => TreeReady(u)
  <1>1. ASSUME NEW u \in Task
        PROVE  Evidence(u)' = Evidence(u)
    BY DEF UpdateTaskStatus, fileVars, ownedVars, FilesOf, BatchesOf, Complete, TreeReady
  <1>2. ASSUME NEW u \in Task, u # t
        PROVE  taskStatus'[u] = taskStatus[u]
    BY <1>2 DEF UpdateTaskStatus, TypeOK
  <1>3. taskStatus'[t] = "COMPLETED" => Evidence(t)
    <2>1. SUFFICES ASSUME taskStatus'[t] = "COMPLETED"
                   PROVE  Evidence(t)
      OBVIOUS
    <2>2. s = "COMPLETED"
      BY <2>1 DEF UpdateTaskStatus, TypeOK
    <2>3. scanCompleted[t] /\ Complete(t)
      BY <2>2 DEF UpdateTaskStatus, MayUpdateTaskStatus
    <2>4. \A f \in FilesOf(t) : f \in File /\ FileTask[f] = t /\ status[f] = "DONE"
      BY <2>3 DEF Complete, FilesOf
    <2>5. \A b \in BatchesOf(t) : batchOwned[b] = "CLEANED"
      BY <2>4, AllDoneAllCleaned
    <2>6. \A f \in FilesOf(t) : /\ driveId[f] # NoId /\ TreeReady(t)
                               /\ localOwned[f] = "CLEANED"
      BY <2>4 DEF UploadEvidence, DoneEvidence, Verified
    <2>7. QED
      BY <2>3, <2>5, <2>6
  <1>4. QED
    BY <1>1, <1>2, <1>3 DEF CompletedEvidence

(* A transaction on the files and batches of one task leaves a COMPLETED   *)
(* one alone: it is not that task.                                         *)
LEMMA CompletedElsewhere ==
  ASSUME TypeOK, CompletedEvidence, NEW t \in Task, Resumable(t),
         UNCHANGED <<taskVars, dirId, driveId, ownedVars>>,
         \A f \in File : FileTask[f] # t => status'[f] = status[f],
         \A b \in Batch : batchStatus'[b] = Absent <=> batchStatus[b] = Absent
  PROVE  CompletedEvidence'
  <1> USE DEF taskVars, ownedVars
  <1>1. ASSUME NEW u \in Task, taskStatus[u] = "COMPLETED"
        PROVE  /\ FilesOf(u)' = FilesOf(u)
               /\ \A f \in FilesOf(u) : status'[f] = status[f]
    <2>1. u # t
      BY <1>1 DEF Resumable
    <2>2. QED
      BY <2>1 DEF FilesOf
  <1>2. \A u \in Task : BatchesOf(u)' = BatchesOf(u)
    BY DEF BatchesOf
  <1>3. \A u \in Task : TreeReady(u)' = TreeReady(u)
    BY DEF TreeReady
  <1>4. \A u \in Task : taskStatus[u] = "COMPLETED" => Complete(u)'
    BY <1>1 DEF CompletedEvidence, Complete
  <1>5. QED
    BY <1>1, <1>2, <1>3, <1>4 DEF CompletedEvidence


(* CompletedEvidence: a COMPLETED task owns nothing any more.              *)
LEMMA CompletedEvidenceStep ==
  ASSUME TypeOK, CompletedEvidence, BatchesPartition, RowsConsistent, UploadEvidence,
     DoneEvidence, NEW t \in Task,
         TaskStep(t) \/ BatchStep(t) \/ FileStep(t)
  PROVE  CompletedEvidence'
  <1> USE StoreAssumption, BatchFacts DEF TypeOK, Absent, taskVars, fileVars,
     ownedVars, FilesIn, FilesOf, CompletedEvidence, BatchesPartition, RowsConsistent,
     UploadEvidence, DoneEvidence, BatchesOf, Complete, TreeReady, Verified
  <1>1. CASE CreateTask(t)
    BY <1>1 DEF CreateTask
  <1>2. ASSUME NEW D \in SUBSET Dir, NEW F \in SUBSET File, UpsertManifestPage(t, D, F)
        PROVE  CompletedEvidence'
    BY <1>2 DEF UpsertManifestPage, MayUpsertManifestPage
  <1>3. CASE CompleteTaskScan(t)
    BY <1>3 DEF CompleteTaskScan
  <1>4. ASSUME NEW s \in TaskStatus, UpdateTaskStatus(t, s)
        PROVE  CompletedEvidence'
    <2> HIDE DEF TypeOK, Absent, taskVars, fileVars, ownedVars, FilesIn, FilesOf,
       CompletedEvidence, BatchesPartition, RowsConsistent, UploadEvidence,
       DoneEvidence, BatchesOf, Complete, TreeReady, Verified
    <2>1. QED
      BY <1>4, CompletedUpdate
  <1>5. ASSUME NEW id \in DriveId, SetTaskDriveRoot(t, id)
        PROVE  CompletedEvidence'
    BY <1>5 DEF SetTaskDriveRoot, MaySetTaskDriveRoot, Resumable
  <1>6. ASSUME NEW d \in Dir, NEW id \in DriveId, RecordDirectoryDriveID(t, d, id)
        PROVE  CompletedEvidence'
    BY <1>6 DEF RecordDirectoryDriveID, MayRecordDirectoryDriveID, Resumable
  <1>7. CASE AuthorizeTaskRootCleanup(t)
    BY <1>7 DEF AuthorizeTaskRootCleanup, MayAuthorizeTaskRootCleanup, Resumable, Allow
  <1>8. CASE MarkBaiduTaskRootCleanupDone(t)
    BY <1>8 DEF MarkBaiduTaskRootCleanupDone, Resumable
  <1>9. ASSUME NEW maxBytes \in PlanBound, NEW P \in SUBSET Batch, PlanBatches(t, maxBytes, P)
        PROVE  CompletedEvidence'
    <2> HIDE DEF TypeOK, Absent, taskVars, fileVars, ownedVars, FilesIn, FilesOf,
       CompletedEvidence, BatchesPartition, RowsConsistent, UploadEvidence,
       DoneEvidence, BatchesOf, Complete, TreeReady, Verified
    <2>1. QED
      BY <1>9, CompletedPlan
  <1>10. ASSUME NEW b \in Batch, StartBatch(t, b)
         PROVE  CompletedEvidence'
    <2> HIDE DEF TypeOK, Absent, taskVars, fileVars, ownedVars, FilesIn, FilesOf,
       CompletedEvidence, BatchesPartition, RowsConsistent, UploadEvidence,
       DoneEvidence, BatchesOf, Complete, TreeReady, Verified
    <2>1. /\ Resumable(t) /\ UNCHANGED <<taskVars, dirId, driveId, ownedVars>>
          /\ \A g \in File : FileTask[g] # t => status'[g] = status[g]
          /\ \A c \in Batch : batchStatus'[c] = Absent <=> batchStatus[c] = Absent
      BY <1>10 DEF StartBatch, MayStartBatch, BatchesOf, FilesIn, FilesOf, TypeOK, fileVars, Absent
    <2>2. QED
      BY <2>1, CompletedElsewhere
  <1>11. ASSUME NEW b \in Batch, NEW S \in SUBSET File, RecordStagedFiles(t, b, S)
         PROVE  CompletedEvidence'
    <2> HIDE DEF TypeOK, Absent, taskVars, fileVars, ownedVars, FilesIn, FilesOf,
       CompletedEvidence, BatchesPartition, RowsConsistent, UploadEvidence,
       DoneEvidence, BatchesOf, Complete, TreeReady, Verified
    <2>1. /\ Resumable(t) /\ UNCHANGED <<taskVars, dirId, driveId, ownedVars>>
          /\ \A g \in File : FileTask[g] # t => status'[g] = status[g]
          /\ \A c \in Batch : batchStatus'[c] = Absent <=> batchStatus[c] = Absent
      BY <1>11 DEF RecordStagedFiles, MayRecordStagedFiles, BatchesOf, FilesIn, FilesOf, TypeOK,
                   fileVars, Absent
    <2>2. QED
      BY <2>1, CompletedElsewhere
  <1>12. ASSUME NEW b \in Batch, CompleteBatch(t, b)
         PROVE  CompletedEvidence'
    BY <1>12 DEF CompleteBatch, MayCompleteBatch, Resumable
  <1>13. ASSUME NEW b \in Batch, NEW p \in BOOLEAN, FailBatch(t, b, p)
         PROVE  CompletedEvidence'
    <2> HIDE DEF TypeOK, Absent, taskVars, fileVars, ownedVars, FilesIn, FilesOf,
       CompletedEvidence, BatchesPartition, RowsConsistent, UploadEvidence,
       DoneEvidence, BatchesOf, Complete, TreeReady, Verified
    <2>1. /\ Resumable(t) /\ UNCHANGED <<taskVars, dirId, driveId, ownedVars>>
          /\ \A g \in File : FileTask[g] # t => status'[g] = status[g]
          /\ \A c \in Batch : batchStatus'[c] = Absent <=> batchStatus[c] = Absent
      BY <1>13 DEF FailBatch, MayFailBatch, StagingBatches, BatchesOf, FilesIn, FilesOf, TypeOK,
                   fileVars, Absent
    <2>2. QED
      BY <2>1, CompletedElsewhere
  <1>14. ASSUME NEW b \in Batch, AuthorizeBatchCleanup(t, b)
         PROVE  CompletedEvidence'
    BY <1>14, SMTT(60) DEF AuthorizeBatchCleanup, MayAuthorizeBatchCleanup, Resumable, Allow
  <1>15. ASSUME NEW b \in Batch, MarkBaiduBatchCleanupDone(t, b)
         PROVE  CompletedEvidence'
    BY <1>15 DEF MarkBaiduBatchCleanupDone, Resumable
  <1>16. ASSUME NEW b \in Batch, CompleteBatchCleanup(t, b)
         PROVE  CompletedEvidence'
    <2> HIDE DEF TypeOK, Absent, taskVars, fileVars, ownedVars, FilesIn, FilesOf,
       CompletedEvidence, BatchesPartition, RowsConsistent, UploadEvidence,
       DoneEvidence, BatchesOf, Complete, TreeReady, Verified
    <2>1. /\ Resumable(t) /\ UNCHANGED <<taskVars, dirId, driveId, ownedVars>>
          /\ \A g \in File : FileTask[g] # t => status'[g] = status[g]
          /\ \A c \in Batch : batchStatus'[c] = Absent <=> batchStatus[c] = Absent
      BY <1>16 DEF CompleteBatchCleanup, MayCompleteBatchCleanup, BatchesOf, FilesIn, FilesOf,
                   TypeOK, fileVars, Absent
    <2>2. QED
      BY <2>1, CompletedElsewhere
  <1>17. ASSUME NEW f \in File, StartDownload(t, f)
         PROVE  CompletedEvidence'
    <2> HIDE DEF TypeOK, Absent, taskVars, fileVars, ownedVars, FilesIn, FilesOf,
       CompletedEvidence, BatchesPartition, RowsConsistent, UploadEvidence,
       DoneEvidence, BatchesOf, Complete, TreeReady, Verified
    <2>1. /\ Resumable(t) /\ UNCHANGED <<taskVars, dirId, driveId, ownedVars>>
          /\ \A g \in File : FileTask[g] # t => status'[g] = status[g]
          /\ \A c \in Batch : batchStatus'[c] = Absent <=> batchStatus[c] = Absent
      BY <1>17 DEF StartDownload, MayStartDownload, DownloadCandidates, FilesIn, FilesOf, TypeOK,
                   fileVars, Absent
    <2>2. QED
      BY <2>1, CompletedElsewhere
  <1>18. ASSUME NEW f \in File, MarkLocalReady(t, f)
         PROVE  CompletedEvidence'
    BY <1>18 DEF MarkLocalReady, MayMarkLocalReady, Resumable
  <1>19. ASSUME NEW f \in File, NEW p \in BOOLEAN, RecordDownloadFailure(t, f, p)
         PROVE  CompletedEvidence'
    <2> HIDE DEF TypeOK, Absent, taskVars, fileVars, ownedVars, FilesIn, FilesOf,
       CompletedEvidence, BatchesPartition, RowsConsistent, UploadEvidence,
       DoneEvidence, BatchesOf, Complete, TreeReady, Verified
    <2>1. /\ Resumable(t) /\ UNCHANGED <<taskVars, dirId, driveId, ownedVars>>
          /\ \A g \in File : FileTask[g] # t => status'[g] = status[g]
          /\ \A c \in Batch : batchStatus'[c] = Absent <=> batchStatus[c] = Absent
      BY <1>19 DEF RecordDownloadFailure, MayRecordDownloadFailure, DownloadCandidates, FilesIn,
                   FilesOf, TypeOK, fileVars, Absent
    <2>2. QED
      BY <2>1, CompletedElsewhere
  <1>20. ASSUME NEW f \in File, StartDriveUpload(t, f)
         PROVE  CompletedEvidence'
    <2> HIDE DEF TypeOK, Absent, taskVars, fileVars, ownedVars, FilesIn, FilesOf,
       CompletedEvidence, BatchesPartition, RowsConsistent, UploadEvidence,
       DoneEvidence, BatchesOf, Complete, TreeReady, Verified
    <2>1. /\ Resumable(t) /\ UNCHANGED <<taskVars, dirId, driveId, ownedVars>>
          /\ \A g \in File : FileTask[g] # t => status'[g] = status[g]
          /\ \A c \in Batch : batchStatus'[c] = Absent <=> batchStatus[c] = Absent
      BY <1>20 DEF StartDriveUpload, MayStartDriveUpload, FilesIn, FilesOf, TypeOK, fileVars, Absent
    <2>2. QED
      BY <2>1, CompletedElsewhere
  <1>21. ASSUME NEW f \in File, NEW id \in DriveId, RecordDriveUploaded(t, f, id)
         PROVE  CompletedEvidence'
    BY <1>21 DEF RecordDriveUploaded, MayRecordDriveUploaded, Resumable, DriveUploadCandidates
  <1>22. ASSUME NEW f \in File, NEW id \in DriveId, MarkDriveVerified(t, f, id)
         PROVE  CompletedEvidence'
    <2> HIDE DEF TypeOK, Absent, taskVars, fileVars, ownedVars, FilesIn, FilesOf,
       CompletedEvidence, BatchesPartition, RowsConsistent, UploadEvidence,
       DoneEvidence, BatchesOf, Complete, TreeReady, Verified
    <2>1. /\ Resumable(t) /\ UNCHANGED <<taskVars, dirId, driveId, ownedVars>>
          /\ \A g \in File : FileTask[g] # t => status'[g] = status[g]
          /\ \A c \in Batch : batchStatus'[c] = Absent <=> batchStatus[c] = Absent
      BY <1>22 DEF MarkDriveVerified, MayMarkDriveVerified, FilesIn, FilesOf, TypeOK, fileVars,
                   Absent
    <2>2. QED
      BY <2>1, CompletedElsewhere
  <1>23. ASSUME NEW f \in File, NEW p \in BOOLEAN, RecordDriveFailure(t, f, p)
         PROVE  CompletedEvidence'
    <2> HIDE DEF TypeOK, Absent, taskVars, fileVars, ownedVars, FilesIn, FilesOf,
       CompletedEvidence, BatchesPartition, RowsConsistent, UploadEvidence,
       DoneEvidence, BatchesOf, Complete, TreeReady, Verified
    <2>1. /\ Resumable(t) /\ UNCHANGED <<taskVars, dirId, driveId, ownedVars>>
          /\ \A g \in File : FileTask[g] # t => status'[g] = status[g]
          /\ \A c \in Batch : batchStatus'[c] = Absent <=> batchStatus[c] = Absent
      BY <1>23 DEF RecordDriveFailure, MayRecordDriveFailure, DriveUploadCandidates, FilesIn,
                   FilesOf, TypeOK, fileVars, Absent
    <2>2. QED
      BY <2>1, CompletedElsewhere
  <1>24. ASSUME NEW f \in File, MarkLocalCacheCleanupDone(t, f)
         PROVE  CompletedEvidence'
    BY <1>24 DEF MarkLocalCacheCleanupDone, Resumable
  <1> HIDE StoreAssumption, BatchFacts DEF TypeOK, Absent, taskVars, fileVars,
     ownedVars, FilesIn, FilesOf, CompletedEvidence, BatchesPartition, RowsConsistent,
     UploadEvidence, DoneEvidence, BatchesOf, Complete, TreeReady, Verified
  <1>25. QED
    BY StepCases, <1>1, <1>2, <1>3, <1>4, <1>5, <1>6, <1>7, <1>8, <1>9, <1>10, <1>11,
       <1>12, <1>13, <1>14, <1>15, <1>16, <1>17, <1>18, <1>19, <1>20, <1>21, <1>22,
       <1>23, <1>24

(* Nothing exists initially.                                               *)
LEMMA StoreInvInit == Init => StoreInv
  <1> SUFFICES ASSUME Init PROVE StoreInv
    OBVIOUS
  <1>1. /\ \A f \in File : /\ status[f] = Absent /\ localOwned[f] = Absent
                           /\ driveId[f] = NoId
        /\ \A b \in Batch : batchStatus[b] = Absent /\ batchOwned[b] = Absent
        /\ \A t \in Task : /\ taskStatus[t] = Absent /\ ~scanCompleted[t]
                           /\ driveRoot[t] = NoId /\ rootOwned[t] = Absent
    BY DEF Init
  <1> USE <1>1 DEF Absent
  <1>2. BatchesPartition /\ DoneEvidence
    BY DEF BatchesPartition, DoneEvidence
  <1>3. RowsConsistent
    BY DEF RowsConsistent, RowsDiffer, FilesOf
  <1>4. UploadEvidence
    BY DEF UploadEvidence, Verified
  <1>5. CleanupGate /\ LocalGate /\ RootLast
    BY DEF CleanupGate, LocalGate, RootLast, Authorized
  <1>6. CompletedEvidence
    BY DEF CompletedEvidence
  <1>7. QED
    BY TypeOKInit, <1>2, <1>3, <1>4, <1>5, <1>6 DEF StoreInv

LEMMA StoreInvStep == StoreInv /\ [Next]_vars => StoreInv'
  <1> SUFFICES ASSUME StoreInv, [Next]_vars PROVE StoreInv'
    OBVIOUS
  <1> USE DEF StoreInv
  <1>1. ASSUME NEW t \in Task, TaskStep(t) \/ BatchStep(t) \/ FileStep(t)
        PROVE  StoreInv'
    BY <1>1, TypeOKStep, BatchesPartitionStep, RowsConsistentStep, UploadEvidenceStep,
       CleanupGateStep, LocalGateStep, DoneEvidenceStep, RootLastStep, CompletedEvidenceStep
  <1>2. CASE UNCHANGED vars
    <2> USE <1>2 DEF vars, taskVars, fileVars, ownedVars
    <2>1. TypeOK' /\ BatchesPartition' /\ CleanupGate' /\ LocalGate' /\ DoneEvidence'
      BY DEF TypeOK, BatchesPartition, CleanupGate, LocalGate, DoneEvidence
    <2>2. RowsConsistent' /\ UploadEvidence'
      BY DEF RowsConsistent, RowsDiffer, UploadEvidence, FilesOf, TreeReady
    <2>3. RootLast'
      BY DEF RootLast, Discovered, BatchesOf, FilesIn, FilesOf
    <2>4. CompletedEvidence'
      BY DEF CompletedEvidence, Complete, BatchesOf, FilesOf, TreeReady
    <2>5. QED
      BY <2>1, <2>2, <2>3, <2>4
  <1>3. QED
    BY <1>1, <1>2 DEF Next

(* The inductive invariant holds of every behaviour of the store.          *)
THEOREM StoreInvariant == Spec => []StoreInv
  BY StoreInvInit, StoreInvStep, PTL DEF Spec

(* For every task, the batches partition the dispatched files              *)
(* (PlanBatches).                                                          *)
THEOREM NoFileInTwoBatches == Spec => []BatchesPartition
  <1>1. StoreInv => BatchesPartition
    BY DEF StoreInv
  <1>2. QED
    BY StoreInvariant, <1>1, PTL

(* A batch and its directory are registered together, its files are of one *)
(* task whose share was read, and a task has rows only while it exists     *)
(* (PlanBatches, UpsertManifestPage).                                      *)
THEOREM RowsStayConsistent == Spec => []RowsConsistent
  <1>1. StoreInv => RowsConsistent
    BY DEF StoreInv
  <1>2. QED
    BY StoreInvariant, <1>1, PTL

(* A file that is recorded as uploaded has its cache path, its Drive ID    *)
(* and the folders above it (RecordDriveUploaded).                         *)
THEOREM UploadsHaveEvidence == Spec => []UploadEvidence
  <1>1. StoreInv => UploadEvidence
    BY DEF StoreInv
  <1>2. QED
    BY StoreInvariant, <1>1, PTL

(* The local copy of a file may be deleted only after the directory of its *)
(* batch may be (AuthorizeBatchCleanup).                                   *)
THEOREM LocalDeletionGate == Spec => []LocalGate
  <1>1. StoreInv => LocalGate
    BY DEF StoreInv
  <1>2. QED
    BY StoreInvariant, <1>1, PTL

(* A Baidu batch directory is deletable only when every file of it has a   *)
(* Drive ID and is past verification (AuthorizeBatchCleanup).              *)
THEOREM DeletionGate == Spec => []CleanupGate
  <1>1. StoreInv => CleanupGate
    BY DEF StoreInv
  <1>2. QED
    BY StoreInvariant, <1>1, PTL

(* A DONE file left no local copy and no Baidu batch directory behind      *)
(* (CompleteBatchCleanup).                                                 *)
THEOREM DoneMeansClean == Spec => []DoneEvidence
  <1>1. StoreInv => DoneEvidence
    BY DEF StoreInv
  <1>2. QED
    BY StoreInvariant, <1>1, PTL

(* The task root is deletable only after every batch below it is cleaned,  *)
(* and nothing is planned under it again (AuthorizeTaskRootCleanup).       *)
THEOREM RootDeletedLast == Spec => []RootLast
  <1>1. StoreInv => RootLast
    BY DEF StoreInv
  <1>2. QED
    BY StoreInvariant, <1>1, PTL

(* A COMPLETED task has every file on Drive and owns nothing on Baidu or   *)
(* on the local disk (Pipeline.Run).                                       *)
THEOREM CompletedMeansMoved == Spec => []CompletedEvidence
  <1>1. StoreInv => CompletedEvidence
    BY DEF StoreInv
  <1>2. QED
    BY StoreInvariant, <1>1, PTL

----------------------------------------------------------------------------
(* Action properties, from the type invariant alone. *)

(* No transaction moves a file backwards.                                  *)
LEMMA StatusForwardStep ==
  ASSUME TypeOK, NEW t \in Task, TaskStep(t) \/ BatchStep(t) \/ FileStep(t)
  PROVE  StatusForward
  <1> USE DEF Stage, FileStatus, TypeOK, Absent, fileVars, FilesIn, FilesOf, StatusForward
  <1>1. ASSUME NEW D \in SUBSET Dir, NEW F \in SUBSET File, UpsertManifestPage(t, D, F)
        PROVE  StatusForward
    BY <1>1 DEF UpsertManifestPage
  <1>2. ASSUME NEW maxBytes \in PlanBound, NEW P \in SUBSET Batch, PlanBatches(t, maxBytes, P)
        PROVE  StatusForward
    BY <1>2 DEF PlanBatches, Discovered, IsPlan, IsPartition, Register
  <1>3. ASSUME NEW b \in Batch, StartBatch(t, b)
        PROVE  StatusForward
    <2>1. ASSUME NEW f \in File
          PROVE  \/ status'[f] = status[f]
                 \/ status[f] \in {"PLANNED", "FAILED_RETRYABLE"} /\ status'[f] = "BAIDU_STAGING"
      BY <1>3 DEF StartBatch
    <2>2. QED
      BY <2>1
  <1>4. ASSUME NEW b \in Batch, NEW S \in SUBSET File, RecordStagedFiles(t, b, S)
        PROVE  StatusForward
    <2>1. ASSUME NEW f \in File
          PROVE  \/ status'[f] = status[f]
                 \/ status[f] \in AwaitingConfirmation /\ status'[f] = "BAIDU_STAGED"
      BY <1>4 DEF RecordStagedFiles
    <2>2. QED
      BY <2>1 DEF AwaitingConfirmation
  <1>5. ASSUME NEW b \in Batch, NEW p \in BOOLEAN, FailBatch(t, b, p)
        PROVE  StatusForward
    BY <1>5 DEF FailBatch, BatchesOf, StagingBatches, Stageable
  <1>6. ASSUME NEW b \in Batch, AuthorizeBatchCleanup(t, b)
        PROVE  StatusForward
    BY <1>6 DEF AuthorizeBatchCleanup, MayAuthorizeBatchCleanup, BatchesOf, Allow
  <1>7. ASSUME NEW b \in Batch, CompleteBatchCleanup(t, b)
        PROVE  StatusForward
    BY <1>7 DEF CompleteBatchCleanup, MayCompleteBatchCleanup, BatchesOf
  <1>8. ASSUME NEW f \in File, StartDownload(t, f)
        PROVE  StatusForward
    BY <1>8 DEF StartDownload, MayStartDownload, DownloadCandidates
  <1>9. ASSUME NEW f \in File, MarkLocalReady(t, f)
        PROVE  StatusForward
    BY <1>9 DEF MarkLocalReady, MayMarkLocalReady
  <1>10. ASSUME NEW f \in File, NEW p \in BOOLEAN, RecordDownloadFailure(t, f, p)
         PROVE  StatusForward
    BY <1>10 DEF RecordDownloadFailure, MayRecordDownloadFailure, DownloadCandidates
  <1>11. ASSUME NEW f \in File, StartDriveUpload(t, f)
         PROVE  StatusForward
    BY <1>11 DEF StartDriveUpload, MayStartDriveUpload
  <1>12. ASSUME NEW f \in File, NEW id \in DriveId, RecordDriveUploaded(t, f, id)
         PROVE  StatusForward
    BY <1>12 DEF RecordDriveUploaded, MayRecordDriveUploaded, DriveUploadCandidates
  <1>13. ASSUME NEW f \in File, NEW id \in DriveId, MarkDriveVerified(t, f, id)
         PROVE  StatusForward
    BY <1>13 DEF MarkDriveVerified, MayMarkDriveVerified
  <1>14. ASSUME NEW f \in File, NEW p \in BOOLEAN, RecordDriveFailure(t, f, p)
         PROVE  StatusForward
    BY <1>14 DEF RecordDriveFailure, DriveUploadCandidates
  <1>15. CASE UNCHANGED <<status>>
    BY <1>15
  <1>16. CASE \/ CreateTask(t)
              \/ CompleteTaskScan(t)
              \/ \E s \in TaskStatus : UpdateTaskStatus(t, s)
              \/ \E id \in DriveId : SetTaskDriveRoot(t, id)
              \/ \E d \in Dir, id \in DriveId : RecordDirectoryDriveID(t, d, id)
              \/ AuthorizeTaskRootCleanup(t)
              \/ MarkBaiduTaskRootCleanupDone(t)
              \/ \E b \in Batch : CompleteBatch(t, b)
              \/ \E b \in Batch : MarkBaiduBatchCleanupDone(t, b)
              \/ \E f \in File : MarkLocalCacheCleanupDone(t, f)
    BY <1>15, <1>16 DEF CreateTask, CompleteTaskScan, UpdateTaskStatus,
       SetTaskDriveRoot, RecordDirectoryDriveID, AuthorizeTaskRootCleanup,
       MarkBaiduTaskRootCleanupDone, CompleteBatch, MarkBaiduBatchCleanupDone,
       MarkLocalCacheCleanupDone
  <1> HIDE DEF TypeOK, Absent, fileVars, FilesIn, FilesOf, StatusForward
  <1>17. QED
    BY StepCases, <1>1, <1>2, <1>3, <1>4, <1>5, <1>6, <1>7, <1>8, <1>9, <1>10, <1>11,
       <1>12, <1>13, <1>14, <1>15, <1>16

(* In every behaviour a file only moves forward through the pipeline (the  *)
(* WHERE clauses and checks of internal/state).                            *)
THEOREM FilesMoveForward == Spec => ForwardOnly
  <1>1. ASSUME TypeOK, [Next]_vars
        PROVE  [StatusForward]_vars
    BY <1>1, StatusForwardStep DEF Next
  <1>2. QED
    BY StoreTypeOK, <1>1, PTL DEF Spec, ForwardOnly

(* No transaction rebinds a Drive ID.                                      *)
LEMMA DriveIdsKeptStep ==
  ASSUME TypeOK, NEW t \in Task, TaskStep(t) \/ BatchStep(t) \/ FileStep(t)
  PROVE  DriveIdsKept
  <1> USE IdAssumption DEF TypeOK, taskVars, fileVars, DriveIdsKept
  <1>1. ASSUME NEW D \in SUBSET Dir, NEW F \in SUBSET File, UpsertManifestPage(t, D, F)
        PROVE  DriveIdsKept
    BY <1>1 DEF UpsertManifestPage
  <1>2. ASSUME NEW id \in DriveId, SetTaskDriveRoot(t, id)
        PROVE  DriveIdsKept
    BY <1>2 DEF SetTaskDriveRoot, MaySetTaskDriveRoot
  <1>3. ASSUME NEW d \in Dir, NEW id \in DriveId, RecordDirectoryDriveID(t, d, id)
        PROVE  DriveIdsKept
    BY <1>3 DEF RecordDirectoryDriveID, MayRecordDirectoryDriveID
  <1>4. ASSUME NEW f \in File, NEW id \in DriveId, RecordDriveUploaded(t, f, id)
        PROVE  DriveIdsKept
    BY <1>4 DEF RecordDriveUploaded, MayRecordDriveUploaded, DriveUploadCandidates
  <1>5. CASE UNCHANGED <<driveRoot, dirId, driveId>>
    BY <1>5
  <1>6. CASE \/ CreateTask(t)
             \/ CompleteTaskScan(t)
             \/ \E s \in TaskStatus : UpdateTaskStatus(t, s)
             \/ AuthorizeTaskRootCleanup(t)
             \/ MarkBaiduTaskRootCleanupDone(t)
             \/ \E maxBytes \in PlanBound, P \in SUBSET Batch : PlanBatches(t, maxBytes, P)
             \/ \E b \in Batch : StartBatch(t, b)
             \/ \E b \in Batch, S \in SUBSET File : RecordStagedFiles(t, b, S)
             \/ \E b \in Batch : CompleteBatch(t, b)
             \/ \E b \in Batch, p \in BOOLEAN : FailBatch(t, b, p)
             \/ \E b \in Batch : AuthorizeBatchCleanup(t, b)
             \/ \E b \in Batch : MarkBaiduBatchCleanupDone(t, b)
             \/ \E b \in Batch : CompleteBatchCleanup(t, b)
             \/ \E f \in File : StartDownload(t, f)
             \/ \E f \in File : MarkLocalReady(t, f)
             \/ \E f \in File, p \in BOOLEAN : RecordDownloadFailure(t, f, p)
             \/ \E f \in File : StartDriveUpload(t, f)
             \/ \E f \in File, id \in DriveId : MarkDriveVerified(t, f, id)
             \/ \E f \in File, p \in BOOLEAN : RecordDriveFailure(t, f, p)
             \/ \E f \in File : MarkLocalCacheCleanupDone(t, f)
    BY <1>5, <1>6 DEF CreateTask, CompleteTaskScan, UpdateTaskStatus,
       AuthorizeTaskRootCleanup, MarkBaiduTaskRootCleanupDone, PlanBatches,
       StartBatch, RecordStagedFiles, CompleteBatch, FailBatch, AuthorizeBatchCleanup,
       MarkBaiduBatchCleanupDone, CompleteBatchCleanup, StartDownload, MarkLocalReady,
       RecordDownloadFailure, StartDriveUpload, MarkDriveVerified, RecordDriveFailure,
       MarkLocalCacheCleanupDone
  <1> HIDE DEF TypeOK, taskVars, fileVars, DriveIdsKept
  <1>7. QED
    BY StepCases, <1>1, <1>2, <1>3, <1>4, <1>5, <1>6

(* In every behaviour a recorded Drive ID stays (drive_store.go).          *)
THEOREM DriveIdsStay == Spec => DriveIdsWriteOnce
  <1>1. ASSUME TypeOK, [Next]_vars
        PROVE  [DriveIdsKept]_vars
    BY <1>1, DriveIdsKeptStep DEF Next
  <1>2. QED
    BY StoreTypeOK, <1>1, PTL DEF Spec, DriveIdsWriteOnce

(* Registering an object again does not take its row back.                *)
LEMMA RegisterKeepsRank ==
  \A row \in Provenance : Register(row) \in Provenance /\ Rank(row) <= Rank(Register(row))
  BY DEF Provenance, Register, Rank, Absent

(* No transaction takes a provenance row back.                             *)
LEMMA RanksKeptStep ==
  ASSUME TypeOK, NEW t \in Task, TaskStep(t) \/ BatchStep(t) \/ FileStep(t)
  PROVE  RanksKept
  <1> USE DEF TypeOK, Rank, Provenance, Authorized, ownedVars, RanksKept
  <1>1. CASE AuthorizeTaskRootCleanup(t)
    BY <1>1 DEF AuthorizeTaskRootCleanup, Allow
  <1>2. CASE MarkBaiduTaskRootCleanupDone(t)
    BY <1>2 DEF MarkBaiduTaskRootCleanupDone
  <1>3. ASSUME NEW maxBytes \in PlanBound, NEW P \in SUBSET Batch, PlanBatches(t, maxBytes, P)
        PROVE  RanksKept
    <2>1. UNCHANGED localOwned
      BY <1>3 DEF PlanBatches
    <2>2. \A c \in Batch : Rank(batchOwned[c]) <= Rank(batchOwned'[c])
      BY <1>3, RegisterKeepsRank DEF PlanBatches
    <2>3. \A u \in Task : Rank(rootOwned[u]) <= Rank(rootOwned'[u])
      BY <1>3, RegisterKeepsRank DEF PlanBatches
    <2>4. QED
      BY <2>1, <2>2, <2>3
  <1>4. ASSUME NEW b \in Batch, AuthorizeBatchCleanup(t, b)
        PROVE  RanksKept
    BY <1>4 DEF AuthorizeBatchCleanup, Allow
  <1>5. ASSUME NEW b \in Batch, MarkBaiduBatchCleanupDone(t, b)
        PROVE  RanksKept
    BY <1>5 DEF MarkBaiduBatchCleanupDone, BatchesOf
  <1>6. ASSUME NEW f \in File, MarkLocalReady(t, f)
        PROVE  RanksKept
    BY <1>6 DEF MarkLocalReady, MayMarkLocalReady
  <1>7. ASSUME NEW f \in File, MarkLocalCacheCleanupDone(t, f)
        PROVE  RanksKept
    BY <1>7 DEF MarkLocalCacheCleanupDone
  <1>8. CASE UNCHANGED <<localOwned, batchOwned, rootOwned>>
    BY <1>8
  <1>9. CASE \/ CreateTask(t)
             \/ \E D \in SUBSET Dir, F \in SUBSET File : UpsertManifestPage(t, D, F)
             \/ CompleteTaskScan(t)
             \/ \E s \in TaskStatus : UpdateTaskStatus(t, s)
             \/ \E id \in DriveId : SetTaskDriveRoot(t, id)
             \/ \E d \in Dir, id \in DriveId : RecordDirectoryDriveID(t, d, id)
             \/ \E b \in Batch : StartBatch(t, b)
             \/ \E b \in Batch, S \in SUBSET File : RecordStagedFiles(t, b, S)
             \/ \E b \in Batch : CompleteBatch(t, b)
             \/ \E b \in Batch, p \in BOOLEAN : FailBatch(t, b, p)
             \/ \E b \in Batch : CompleteBatchCleanup(t, b)
             \/ \E f \in File : StartDownload(t, f)
             \/ \E f \in File, p \in BOOLEAN : RecordDownloadFailure(t, f, p)
             \/ \E f \in File : StartDriveUpload(t, f)
             \/ \E f \in File, id \in DriveId : RecordDriveUploaded(t, f, id)
             \/ \E f \in File, id \in DriveId : MarkDriveVerified(t, f, id)
             \/ \E f \in File, p \in BOOLEAN : RecordDriveFailure(t, f, p)
    BY <1>8, <1>9 DEF CreateTask, UpsertManifestPage, CompleteTaskScan,
       UpdateTaskStatus, SetTaskDriveRoot, RecordDirectoryDriveID, StartBatch,
       RecordStagedFiles, CompleteBatch, FailBatch, CompleteBatchCleanup,
       StartDownload, RecordDownloadFailure, StartDriveUpload, RecordDriveUploaded,
       MarkDriveVerified, RecordDriveFailure
  <1> HIDE DEF TypeOK, Rank, Provenance, Authorized, ownedVars, RanksKept
  <1>10. QED
    BY StepCases, <1>1, <1>2, <1>3, <1>4, <1>5, <1>6, <1>7, <1>8, <1>9

(* In every behaviour the permission to delete and the record of a         *)
(* deletion stay (cleanup_store.go).                                       *)
THEOREM ProvenanceStays == Spec => ProvenanceForward
  <1>1. ASSUME TypeOK, [Next]_vars
        PROVE  [RanksKept]_vars
    BY <1>1, RanksKeptStep DEF Next
  <1>2. QED
    BY StoreTypeOK, <1>1, PTL DEF Spec, ProvenanceForward

=============================================================================
