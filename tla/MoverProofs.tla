---------------------------- MODULE MoverProofs ----------------------------
(***************************************************************************)
(* Proofs about the running program, for every set of tasks, files and     *)
(* directories, every watermark and any number of faults: it implements    *)
(* the store, and what the database says of bytes is true of the bytes.    *)
(***************************************************************************)
EXTENDS Mover, StoreProofs

(* Statuses that claim bytes on the local disk, and in the staging area.   *)
OnLocal == {"LOCAL_READY", "DRIVE_UPLOADING", "DRIVE_UPLOADED", "DRIVE_VERIFIED"}
OnBaidu == {"BAIDU_STAGED", "DOWNLOADING"}

(* Lines at which a batch is being cleaned, and a file downloaded.         *)
CleanupLines == {"cleanup.local", "cleanup.mark", "cleanup.dir", "cleanup.delete",
                 "cleanup.record"}
DownloadLines == {"download.file", "download.fetch", "download.rename", "download.ready"}

(* What the process has in hand at each line, and what it relies on there: *)
(* bytes are deleted only while the deletion is authorized, and a file is  *)
(* recorded as ready only while its verified bytes are on disk.            *)
InHand ==
  /\ pc # "idle" => task \in Task
  /\ pc \in CleanupLines => batch \in Batch /\ batchOwned[batch] \in Authorized
  /\ pc = "cleanup.mark" => file \in File
  /\ pc \in DownloadLines => file \in DownloadCandidates(task)
  /\ pc = "download.ready" => file \in bin
  /\ pc = "stage.plan" => Available > 0

DriveTypeOK ==
  /\ rootObj \in [Task -> DriveId \cup {NoId}]
  /\ dirObj \in [Dir -> DriveId \cup {NoId}]
  /\ objects \in [File -> SUBSET DriveId]

MoverInv == InHand /\ DriveTypeOK /\ EvidenceIsReal

----------------------------------------------------------------------------
(* A transaction is quiet when it claims no bytes that were not claimed    *)
(* before and withdraws no permission.                                     *)
Quiet ==
  /\ \A f \in File : /\ status'[f] \in OnLocal => status[f] \in OnLocal
                     /\ status'[f] \in OnBaidu => status[f] \in OnBaidu
  /\ driveId' = driveId
  /\ \A b \in Batch : batchOwned[b] \in Authorized => batchOwned'[b] \in Authorized

QuietStep == Next /\ Quiet

(* Every transaction is one of the store; most are quiet.                  *)
LEMMA TaskSteps ==
  ASSUME TypeOK, NEW t \in Task
  PROVE  /\ CreateTask(t) => QuietStep
         /\ \A D \in SUBSET Dir, F \in SUBSET File : UpsertManifestPage(t, D, F) => QuietStep
         /\ CompleteTaskScan(t) => QuietStep
         /\ \A s \in {"SCANNING", "RUNNING", "PAUSED", "BLOCKED", "COMPLETED", "FAILED"} :
              UpdateTaskStatus(t, s) => QuietStep
         /\ \A id \in DriveId : SetTaskDriveRoot(t, id) => QuietStep
         /\ \A d \in Dir, id \in DriveId : RecordDirectoryDriveID(t, d, id) => QuietStep
         /\ AuthorizeTaskRootCleanup(t) => QuietStep
         /\ MarkBaiduTaskRootCleanupDone(t) => QuietStep
  <1> USE DEF QuietStep, Next, TaskStep, Quiet, TypeOK, fileVars, ownedVars
  <1>1. CreateTask(t) => QuietStep
    BY DEF CreateTask
  <1>2. ASSUME NEW D \in SUBSET Dir, NEW F \in SUBSET File, UpsertManifestPage(t, D, F)
        PROVE  QuietStep
    <2>1. Next
      BY <1>2
    <2>2. Quiet
      BY <1>2 DEF UpsertManifestPage, OnLocal, OnBaidu
    <2>3. QED
      BY <2>1, <2>2
  <1>3. CompleteTaskScan(t) => QuietStep
    BY DEF CompleteTaskScan
  <1>4. ASSUME NEW s \in {"SCANNING", "RUNNING", "PAUSED", "BLOCKED", "COMPLETED", "FAILED"},
               UpdateTaskStatus(t, s)
        PROVE  QuietStep
    BY <1>4 DEF UpdateTaskStatus
  <1>5. ASSUME NEW id \in DriveId, SetTaskDriveRoot(t, id)
        PROVE  QuietStep
    BY <1>5 DEF SetTaskDriveRoot
  <1>6. ASSUME NEW d \in Dir, NEW id \in DriveId, RecordDirectoryDriveID(t, d, id)
        PROVE  QuietStep
    BY <1>6 DEF RecordDirectoryDriveID
  <1>7. AuthorizeTaskRootCleanup(t) => QuietStep
    BY DEF AuthorizeTaskRootCleanup
  <1>8. MarkBaiduTaskRootCleanupDone(t) => QuietStep
    BY DEF MarkBaiduTaskRootCleanupDone
  <1> QED
    BY <1>1, <1>2, <1>3, <1>4, <1>5, <1>6, <1>7, <1>8

LEMMA BatchSteps ==
  ASSUME TypeOK, NEW t \in Task
  PROVE  /\ \A maxBytes \in PlanBound : \A P \in SUBSET ((SUBSET Discovered(t)) \ {{}}) :
              PlanBatches(t, maxBytes, P) => QuietStep
         /\ \A b : StartBatch(t, b) => QuietStep
         /\ \A b : \A S \in SUBSET b : RecordStagedFiles(t, b, S) => Next
         /\ \A b : CompleteBatch(t, b) => QuietStep
         /\ \A b : \A permanent \in BOOLEAN : FailBatch(t, b, permanent) => QuietStep
         /\ \A b : AuthorizeBatchCleanup(t, b) => QuietStep
         /\ \A b : MarkBaiduBatchCleanupDone(t, b) => QuietStep
         /\ \A b : CompleteBatchCleanup(t, b) => QuietStep
  <1>0. /\ \A f \in File : status[f] \in FileStatus \cup {Absent}
        /\ \A b \in Batch : batchOwned[b] \in Provenance
        /\ DOMAIN status = File /\ DOMAIN batchOwned = Batch
    BY DEF TypeOK
  <1>1. ASSUME NEW maxBytes \in PlanBound, NEW P \in SUBSET ((SUBSET Discovered(t)) \ {{}}),
               PlanBatches(t, maxBytes, P)
        PROVE  QuietStep
    <2>1. BatchStep(t)
      BY <1>1 DEF BatchStep
    <2>2. \A f \in File : status'[f] \in {status[f], "PLANNED"}
      BY <1>1 DEF PlanBatches
    <2>3. \A b \in Batch : batchOwned[b] \in Authorized => batchOwned'[b] = batchOwned[b]
      BY <1>1 DEF PlanBatches, Register, Authorized, Absent
    <2>4. driveId' = driveId
      BY <1>1 DEF PlanBatches
    <2>5. QED
      BY <2>1, <2>2, <2>3, <2>4 DEF QuietStep, Next, Quiet, OnLocal, OnBaidu
  <1>2. ASSUME NEW b, StartBatch(t, b)
        PROVE  QuietStep
    <2>1. b \in Batch
      BY <1>2 DEF StartBatch, MayStartBatch, BatchesOf
    <2>2. \A f \in File : status'[f] \in {status[f], "BAIDU_STAGING"}
      BY <1>2 DEF StartBatch
    <2>3. UNCHANGED <<driveId, batchOwned>>
      BY <1>2 DEF StartBatch, ownedVars
    <2>4. BatchStep(t)
      BY <1>2, <2>1 DEF BatchStep
    <2>5. QED
      BY <2>2, <2>3, <2>4 DEF QuietStep, Next, Quiet, OnLocal, OnBaidu
  <1>3. ASSUME NEW b, NEW S \in SUBSET b, RecordStagedFiles(t, b, S)
        PROVE  Next
    BY <1>3 DEF RecordStagedFiles, MayRecordStagedFiles, BatchesOf, BatchStep, Next
  <1>4. ASSUME NEW b, CompleteBatch(t, b)
        PROVE  QuietStep
    <2>1. BatchStep(t)
      BY <1>4 DEF CompleteBatch, MayCompleteBatch, BatchesOf, BatchStep
    <2>2. Quiet
      BY <1>4 DEF CompleteBatch, Quiet, fileVars, ownedVars
    <2>3. QED
      BY <2>1, <2>2 DEF QuietStep, Next
  <1>5. ASSUME NEW b, NEW permanent \in BOOLEAN, FailBatch(t, b, permanent)
        PROVE  QuietStep
    <2>1. BatchStep(t)
      BY <1>5 DEF FailBatch, MayFailBatch, StagingBatches, BatchesOf, BatchStep
    <2>2. \A f \in File : status'[f] \in {status[f], "FAILED_PERMANENT"}
      BY <1>5 DEF FailBatch
    <2>3. UNCHANGED <<driveId, batchOwned>>
      BY <1>5 DEF FailBatch, ownedVars
    <2>4. QED
      BY <2>1, <2>2, <2>3 DEF QuietStep, Next, Quiet, OnLocal, OnBaidu
  <1>6. ASSUME NEW b, AuthorizeBatchCleanup(t, b)
        PROVE  QuietStep
    <2>1. b \in Batch
      BY <1>6 DEF AuthorizeBatchCleanup, MayAuthorizeBatchCleanup, BatchesOf
    <2>2. BatchStep(t)
      BY <1>6, <2>1 DEF BatchStep
    <2>3. \A f \in File : status'[f] \in {status[f], "CLEANUP_PENDING"}
      BY <1>6 DEF AuthorizeBatchCleanup
    <2>4. \A c \in Batch : batchOwned[c] \in Authorized => batchOwned'[c] \in Authorized
      BY <1>6, <1>0 DEF AuthorizeBatchCleanup, Allow, Authorized
    <2>5. driveId' = driveId
      BY <1>6 DEF AuthorizeBatchCleanup
    <2>6. QED
      BY <2>2, <2>3, <2>4, <2>5 DEF QuietStep, Next, Quiet, OnLocal, OnBaidu
  <1>7. ASSUME NEW b, MarkBaiduBatchCleanupDone(t, b)
        PROVE  QuietStep
    <2>1. BatchStep(t)
      BY <1>7 DEF MarkBaiduBatchCleanupDone, MayMarkBaiduBatchCleanupDone, BatchesOf, BatchStep
    <2>2. \A c \in Batch : batchOwned[c] \in Authorized => batchOwned'[c] \in Authorized
      BY <1>7, <1>0 DEF MarkBaiduBatchCleanupDone, Authorized
    <2>3. UNCHANGED <<status, driveId>>
      BY <1>7 DEF MarkBaiduBatchCleanupDone, fileVars
    <2>4. QED
      BY <2>1, <2>2, <2>3 DEF QuietStep, Next, Quiet
  <1>8. ASSUME NEW b, CompleteBatchCleanup(t, b)
        PROVE  QuietStep
    <2>1. BatchStep(t)
      BY <1>8 DEF CompleteBatchCleanup, MayCompleteBatchCleanup, BatchesOf, BatchStep
    <2>2. \A f \in File : status'[f] \in {status[f], "DONE"}
      BY <1>8 DEF CompleteBatchCleanup
    <2>3. UNCHANGED <<driveId, batchOwned>>
      BY <1>8 DEF CompleteBatchCleanup, ownedVars
    <2>4. QED
      BY <2>1, <2>2, <2>3 DEF QuietStep, Next, Quiet, OnLocal, OnBaidu
  <1> QED
    BY <1>1, <1>2, <1>3, <1>4, <1>5, <1>6, <1>7, <1>8

LEMMA FileSteps ==
  ASSUME TypeOK, NEW t \in Task
  PROVE  /\ \A f : StartDownload(t, f) => QuietStep
         /\ \A f : MarkLocalReady(t, f) => Next
         /\ \A f : \A permanent \in BOOLEAN : RecordDownloadFailure(t, f, permanent) => QuietStep
         /\ \A f : StartDriveUpload(t, f) => QuietStep
         /\ \A f : \A id \in DriveId : RecordDriveUploaded(t, f, id) => Next
         /\ \A f : \A id \in DriveId : MarkDriveVerified(t, f, id) => QuietStep
         /\ \A f : \A permanent \in BOOLEAN : RecordDriveFailure(t, f, permanent) => QuietStep
         /\ \A f : MarkLocalCacheCleanupDone(t, f) => QuietStep
  <1> USE DEF FilesIn, FilesOf, DownloadCandidates, DriveUploadCandidates
  <1>0. DOMAIN status = File
    BY DEF TypeOK
  <1>1. ASSUME NEW f, StartDownload(t, f)
        PROVE  QuietStep
    <2>1. f \in File /\ status[f] \in OnBaidu
      BY <1>1 DEF StartDownload, MayStartDownload, OnBaidu
    <2>2. \A g \in File : g = f \/ status'[g] = status[g]
      BY <1>1, <1>0 DEF StartDownload
    <2>3. status'[f] = "DOWNLOADING" /\ UNCHANGED <<driveId, batchOwned>>
      BY <1>1, <1>0, <2>1 DEF StartDownload, ownedVars
    <2>4. QED
      BY <1>1, <2>1, <2>2, <2>3 DEF QuietStep, Quiet, Next, FileStep, OnLocal
  <1>2. ASSUME NEW f, MarkLocalReady(t, f)
        PROVE  Next
    BY <1>2 DEF MarkLocalReady, MayMarkLocalReady, Next, FileStep
  <1>3. ASSUME NEW f, NEW permanent \in BOOLEAN, RecordDownloadFailure(t, f, permanent)
        PROVE  QuietStep
    <2>1. f \in File /\ status[f] \in OnBaidu
      BY <1>3 DEF RecordDownloadFailure, MayRecordDownloadFailure, OnBaidu
    <2>2. \A g \in File : g = f \/ status'[g] = status[g]
      BY <1>3, <1>0 DEF RecordDownloadFailure
    <2>3. status'[f] \notin OnLocal /\ UNCHANGED <<driveId, batchOwned>>
      BY <1>3, <1>0, <2>1 DEF RecordDownloadFailure, ownedVars, OnLocal
    <2>4. QED
      BY <1>3, <2>1, <2>2, <2>3 DEF QuietStep, Quiet, Next, FileStep
  <1>4. ASSUME NEW f, StartDriveUpload(t, f)
        PROVE  QuietStep
    <2>1. f \in File /\ status[f] \in OnLocal
      BY <1>4 DEF StartDriveUpload, MayStartDriveUpload, OnLocal
    <2>2. \A g \in File : g = f \/ status'[g] = status[g]
      BY <1>4, <1>0 DEF StartDriveUpload
    <2>3. status'[f] = "DRIVE_UPLOADING" /\ UNCHANGED <<driveId, batchOwned>>
      BY <1>4, <1>0, <2>1 DEF StartDriveUpload, ownedVars
    <2>4. QED
      BY <1>4, <2>1, <2>2, <2>3 DEF QuietStep, Quiet, Next, FileStep, OnBaidu
  <1>5. ASSUME NEW f, NEW id \in DriveId, RecordDriveUploaded(t, f, id)
        PROVE  Next
    BY <1>5 DEF RecordDriveUploaded, MayRecordDriveUploaded, Next, FileStep
  <1>6. ASSUME NEW f, NEW id \in DriveId, MarkDriveVerified(t, f, id)
        PROVE  QuietStep
    <2>1. f \in File /\ status[f] \in OnLocal
      BY <1>6 DEF MarkDriveVerified, MayMarkDriveVerified, OnLocal
    <2>2. \A g \in File : g = f \/ status'[g] = status[g]
      BY <1>6, <1>0 DEF MarkDriveVerified
    <2>3. status'[f] = "DRIVE_VERIFIED" /\ UNCHANGED <<driveId, batchOwned>>
      BY <1>6, <1>0, <2>1 DEF MarkDriveVerified, ownedVars
    <2>4. QED
      BY <1>6, <2>1, <2>2, <2>3 DEF QuietStep, Quiet, Next, FileStep, OnBaidu
  <1>7. ASSUME NEW f, NEW permanent \in BOOLEAN, RecordDriveFailure(t, f, permanent)
        PROVE  QuietStep
    <2>1. f \in File
      BY <1>7 DEF RecordDriveFailure, MayRecordDriveFailure
    <2>2. \A g \in File : status'[g] \in {status[g], "FAILED_PERMANENT"}
      BY <1>7, <1>0 DEF RecordDriveFailure
    <2>3. UNCHANGED <<driveId, batchOwned>>
      BY <1>7 DEF RecordDriveFailure, ownedVars
    <2>4. QED
      BY <1>7, <2>1, <2>2, <2>3 DEF QuietStep, Quiet, Next, FileStep, OnBaidu, OnLocal
  <1>8. ASSUME NEW f, MarkLocalCacheCleanupDone(t, f)
        PROVE  QuietStep
    <2>1. f \in File /\ UNCHANGED <<status, driveId, batchOwned>>
      BY <1>8 DEF MarkLocalCacheCleanupDone, MayMarkLocalCacheCleanupDone, fileVars
    <2>2. QED
      BY <1>8, <2>1 DEF QuietStep, Quiet, Next, FileStep
  <1> QED
    BY <1>1, <1>2, <1>3, <1>4, <1>5, <1>6, <1>7, <1>8

----------------------------------------------------------------------------
(* Lines at which nothing but the task has to be known.                    *)
PlainLine(line) ==
  /\ line \notin CleanupLines \cup DownloadLines
  /\ line # "stage.plan"

(* The steps that take no bytes away.                                      *)
Kept ==
  /\ bin \subseteq bin' /\ copies \subseteq copies'
  /\ \A f \in File : objects[f] \subseteq objects'[f]
  /\ DriveTypeOK'

LEMMA WorldKept == ASSUME DriveTypeOK, UNCHANGED world PROVE Kept
  BY DEF Kept, DriveTypeOK, world, baidu, local, drive

LEMMA EvidenceKept ==
  ASSUME EvidenceIsReal, QuietStep \/ UNCHANGED vars, Kept
  PROVE  EvidenceIsReal'
  <1>1. Quiet
    BY DEF QuietStep, Quiet, vars, fileVars, ownedVars
  <1>2. QED
    BY <1>1 DEF EvidenceIsReal, Kept, Quiet, OnLocal, OnBaidu

(* The shape of most steps: nothing is taken away, nothing is claimed, and *)
(* the next line is a plain one.                                           *)
LEMMA PlainStep ==
  ASSUME MoverInv, QuietStep \/ UNCHANGED vars, Kept,
         PlainLine(pc'), pc' # "idle" => task' \in Task
  PROVE  [Next]_vars /\ MoverInv'
  <1>1. InHand'
    BY DEF InHand, PlainLine, CleanupLines, DownloadLines
  <1>2. EvidenceIsReal'
    BY EvidenceKept DEF MoverInv
  <1>3. QED
    BY <1>1, <1>2 DEF MoverInv, Kept, QuietStep

(* An identifier Drive assigns is one of its identifiers.                  *)
LEMMA NewIdType == Fresh # {} => NewId \in DriveId
  BY DEF NewId, Fresh

----------------------------------------------------------------------------
(* One lemma for each group of steps.                                      *)
LEMMA ScanStep ==
  ASSUME StoreInv, MoverInv, Scan
  PROVE  [Next]_vars /\ MoverInv'
  <1> USE DEF Scan, Tx, Branch, CallFails, Goto, Fault
  <1>1. pc = "scan" /\ pc' \in {"scan", "pass", "stop"} /\ UNCHANGED <<context, world>>
    OBVIOUS
  <1>2. task \in Task /\ TypeOK /\ DriveTypeOK
    BY <1>1 DEF MoverInv, InHand, StoreInv
  <1>3. QuietStep \/ UNCHANGED vars
    <2>1. ASSUME NEW p \in PagesOf(task), UpsertManifestPage(task, p.dirs, p.files)
          PROVE  QuietStep
      BY <1>2, <2>1, TaskSteps, MoverAssumption DEF PagesOf
    <2>2. CompleteTaskScan(task) => QuietStep
      BY <1>2, TaskSteps
    <2>3. QED
      BY <2>1, <2>2
  <1>4. PlainLine(pc') /\ task' = task /\ Kept
    BY <1>1, <1>2, WorldKept DEF PlainLine, CleanupLines, DownloadLines, context
  <1>5. QED
    BY <1>2, <1>3, <1>4, PlainStep

LEMMA FinishStep ==
  ASSUME StoreInv, MoverInv, NEW line, line # "idle", Finish(line)
  PROVE  [Next]_vars /\ MoverInv'
  <1>1. task \in Task /\ TypeOK /\ DriveTypeOK
    BY DEF Finish, MoverInv, InHand, StoreInv
  <1>2. pc' = "idle" /\ UNCHANGED world
    BY DEF Finish, Exit
  <1>3. QuietStep
    BY <1>1, TaskSteps DEF Finish, Exit
  <1>4. PlainLine(pc') /\ Kept
    BY <1>1, <1>2, WorldKept DEF PlainLine, CleanupLines, DownloadLines
  <1>5. QED
    BY <1>2, <1>3, <1>4, PlainStep

LEMMA PassStep ==
  ASSUME StoreInv, MoverInv, BeginPass \/ EndPass
  PROVE  [Next]_vars /\ MoverInv'
  <1>1. CASE Finish("pass") \/ Finish("end")
    BY <1>1, FinishStep
  <1>2. CASE ~ (Finish("pass") \/ Finish("end"))
    <2>1. /\ pc # "idle" /\ pc' \in {"cleanup", "pass", "stop"}
          /\ UNCHANGED <<vars, task, world>>
      BY <1>2 DEF BeginPass, EndPass, Goto, Branch, context
    <2>2. task \in Task /\ DriveTypeOK
      BY <2>1 DEF MoverInv, InHand
    <2>3. PlainLine(pc') /\ Kept
      BY <2>1, <2>2, WorldKept DEF PlainLine, CleanupLines, DownloadLines
    <2>4. QED
      BY <2>1, <2>2, <2>3, PlainStep
  <1>3. QED
    BY <1>1, <1>2

(* From the authorization of a batch its cleanup may go on.                *)
LEMMA CleanupStep ==
  ASSUME StoreInv, MoverInv, Cleanup
  PROVE  [Next]_vars /\ MoverInv'
  <1>1. task \in Task /\ TypeOK /\ DriveTypeOK
    BY DEF Cleanup, Tx, Branch, Goto, Finish, MoverInv, InHand, StoreInv
  <1>2. CASE /\ Goto("cleanup.next", "cleanup.local")
             /\ \E b \in CleanupCandidates(task) :
                  /\ IsFirst(b, CleanupCandidates(task), BatchRank)
                  /\ AuthorizeBatchCleanup(task, b) /\ batch' = b
             /\ UNCHANGED <<task, file, before, capped, world, faults>>
    <2>1. PICK b \in CleanupCandidates(task) : AuthorizeBatchCleanup(task, b) /\ batch' = b
      BY <1>2
    <2>2. b \in Batch /\ batchOwned'[b] \in Authorized
      BY <2>1, <1>1 DEF AuthorizeBatchCleanup, MayAuthorizeBatchCleanup, BatchesOf, Allow,
                        Authorized, TypeOK
    <2>3. QuietStep /\ Kept
      BY <1>1, <1>2, <2>1, BatchSteps, WorldKept
    <2>4. pc' = "cleanup.local" /\ task' \in Task
      BY <1>1, <1>2 DEF Goto
    <2>5. InHand'
      BY <2>1, <2>2, <2>4 DEF InHand, CleanupLines, DownloadLines
    <2>6. QED
      BY <2>3, <2>5, EvidenceKept DEF MoverInv, Kept, QuietStep
  <1>3. CASE Finish("cleanup.end")
    BY <1>3, FinishStep
  <1>4. CASE \/ Branch("cleanup", "drive", ~HasCleanupWork(task) \/ NoCleanup(task))
             \/ Tx("cleanup", "cleanup.next",
                   HasCleanupWork(task) /\ ~NoCleanup(task) /\ UpdateTaskStatus(task, "RUNNING"))
             \/ Tx("cleanup.next", "cleanup.root", /\ CleanupCandidates(task) = {}
                                                  /\ TaskRootCleanupCandidate(task)
                                                  /\ AuthorizeTaskRootCleanup(task))
             \/ Tx("cleanup.next", "cleanup.end",
                   NoCleanup(task) /\ UpdateTaskStatus(task, "PAUSED"))
             \/ Branch("cleanup.end", "drive", ~Complete(task))
    <2>1. /\ pc' \in {"drive", "cleanup.next", "cleanup.root", "cleanup.end"}
          /\ UNCHANGED <<context, world>>
      BY <1>4 DEF Tx, Branch, Goto
    <2>2. QuietStep \/ UNCHANGED vars
      BY <1>1, <1>4, TaskSteps DEF Tx, Branch
    <2>3. PlainLine(pc') /\ Kept /\ task' = task
      BY <1>1, <2>1, WorldKept DEF PlainLine, CleanupLines, DownloadLines, context
    <2>4. QED
      BY <1>1, <2>2, <2>3, PlainStep
  <1>5. QED
    BY <1>2, <1>3, <1>4 DEF Cleanup

(* No file of a batch whose deletion is authorized claims bytes on the     *)
(* local disk or on Baidu any more.                                        *)
LEMMA NothingClaimed ==
  ASSUME StoreInv, NEW b \in Batch, batchOwned[b] \in Authorized
  PROVE  \A f \in b : status[f] \notin OnLocal \cup OnBaidu
  BY DEF StoreInv, CleanupGate, OnLocal, OnBaidu

LEMMA CleanupLocalStep ==
  ASSUME StoreInv, MoverInv, CleanupLocal
  PROVE  [Next]_vars /\ MoverInv'
  <1>1. /\ task \in Task /\ TypeOK /\ DriveTypeOK /\ EvidenceIsReal
        /\ batch \in Batch /\ batchOwned[batch] \in Authorized
    BY DEF CleanupLocal, Tx, Branch, Goto, MoverInv, InHand, CleanupLines, StoreInv
  <1>2. ASSUME NEW f \in batch, Goto("cleanup.local", "cleanup.mark"),
               bin' = bin \ {f}, file' = f,
               UNCHANGED <<vars, task, batch, before, capped, baidu, part, drive, faults>>
        PROVE  [Next]_vars /\ MoverInv'
    <2>1. f \in File /\ status[f] \notin OnLocal
      BY <1>1, NothingClaimed, BatchFacts
    <2>2. EvidenceIsReal'
      BY <1>1, <1>2, <2>1 DEF EvidenceIsReal, OnLocal, vars, fileVars, baidu, drive
    <2>3. DriveTypeOK'
      BY <1>1, <1>2 DEF DriveTypeOK, drive
    <2>4. InHand'
      BY <1>1, <1>2, <2>1 DEF InHand, Goto, CleanupLines, DownloadLines, vars, ownedVars
    <2>5. QED
      BY <1>2, <2>2, <2>3, <2>4 DEF MoverInv
  <1>3. CASE \/ Tx("cleanup.mark", "cleanup.local", MarkLocalCacheCleanupDone(task, file))
             \/ Branch("cleanup.local", "cleanup.dir",
                       \A f \in batch : localOwned[f] = "CLEANED")
    <2>1. pc' \in {"cleanup.local", "cleanup.dir"} /\ UNCHANGED <<context, world>>
      BY <1>3 DEF Tx, Branch, Goto
    <2>2. QuietStep \/ UNCHANGED vars
      BY <1>1, <1>3, FileSteps DEF Tx, Branch
    <2>3. batchOwned'[batch] \in Authorized
      BY <1>1, <2>2 DEF QuietStep, Quiet, vars, ownedVars
    <2>4. InHand'
      BY <1>1, <2>1, <2>3 DEF InHand, context, CleanupLines, DownloadLines
    <2>5. Kept
      BY <1>1, <2>1, WorldKept
    <2>6. QED
      BY <1>1, <2>2, <2>4, <2>5, EvidenceKept DEF MoverInv, Kept, QuietStep
  <1>4. QED
    BY <1>2, <1>3 DEF CleanupLocal

LEMMA DeleteDirectoryStep ==
  ASSUME StoreInv, MoverInv, NEW to \in {"stop", "cleanup.next", "cleanup.record"},
         DeleteDirectory(to)
  PROVE  [Next]_vars /\ MoverInv'
  <1>1. /\ task \in Task /\ TypeOK /\ DriveTypeOK /\ EvidenceIsReal
        /\ batch \in Batch /\ batchOwned[batch] \in Authorized
    BY DEF DeleteDirectory, MoverInv, InHand, CleanupLines, StoreInv
  <1>2. /\ pc' = to /\ copies' = copies \ batch
        /\ UNCHANGED <<vars, context, local, drive>>
    BY DEF DeleteDirectory
  <1>3. \A f \in batch : status[f] \notin OnBaidu
    BY <1>1, NothingClaimed
  <1>4. EvidenceIsReal'
    BY <1>1, <1>2, <1>3 DEF EvidenceIsReal, OnBaidu, vars, fileVars, local, drive
  <1>5. DriveTypeOK'
    BY <1>1, <1>2 DEF DriveTypeOK, drive
  <1>6. InHand'
    BY <1>1, <1>2 DEF InHand, CleanupLines, DownloadLines, context, vars, ownedVars
  <1>7. QED
    BY <1>2, <1>4, <1>5, <1>6 DEF MoverInv

LEMMA CleanupDirectoryStep ==
  ASSUME StoreInv, MoverInv, CleanupDirectory
  PROVE  [Next]_vars /\ MoverInv'
  <1>1. CASE \/ DeleteDirectory("cleanup.record")
             \/ \E to \in {"stop", "cleanup.next"} : DeleteDirectory(to)
    BY <1>1, DeleteDirectoryStep
  <1>2. CASE ~ (\/ DeleteDirectory("cleanup.record")
                \/ \E to \in {"stop", "cleanup.next"} : DeleteDirectory(to))
    <2>1. /\ pc \in {"cleanup.dir", "cleanup.record", "cleanup.complete", "cleanup.next",
                     "cleanup.local", "cleanup.delete"}
          /\ \/ pc' \in {"cleanup.complete", "cleanup.next", "stop"}
             \/ pc = "cleanup.dir" /\ pc' \in {"cleanup.record", "cleanup.delete"}
          /\ UNCHANGED <<context, world>>
      BY <1>2 DEF CleanupDirectory, Tx, Branch, Goto, CallFails
    <2>2. task \in Task /\ TypeOK /\ DriveTypeOK /\ task' = task
      BY <2>1 DEF MoverInv, InHand, StoreInv, context
    <2>3. QuietStep \/ UNCHANGED vars
      BY <1>2, <2>2, BatchSteps DEF CleanupDirectory, Tx, Branch, CallFails
    <2>4. Kept
      BY <2>1, <2>2, WorldKept
    <2>5. CASE pc' \in {"cleanup.complete", "cleanup.next", "stop"}
      <3>1. PlainLine(pc')
        BY <2>5 DEF PlainLine, CleanupLines, DownloadLines
      <3>2. QED
        BY <2>2, <2>3, <2>4, <3>1, PlainStep
    <2>6. CASE pc = "cleanup.dir" /\ pc' \in {"cleanup.record", "cleanup.delete"}
      <3>1. batch \in Batch /\ batchOwned[batch] \in Authorized /\ batch' = batch
        BY <2>1, <2>6 DEF MoverInv, InHand, CleanupLines, context
      <3>2. batchOwned'[batch] \in Authorized
        BY <2>3, <3>1 DEF QuietStep, Quiet, vars, ownedVars
      <3>3. InHand'
        BY <2>2, <2>6, <3>1, <3>2 DEF InHand, CleanupLines, DownloadLines
      <3>4. QED
        BY <2>3, <2>4, <3>3, EvidenceKept DEF MoverInv, Kept, QuietStep
    <2>7. QED
      BY <2>1, <2>5, <2>6
  <1>3. QED
    BY <1>1, <1>2

LEMMA CleanupRootStep ==
  ASSUME StoreInv, MoverInv, CleanupRoot
  PROVE  [Next]_vars /\ MoverInv'
  <1>1. /\ pc # "idle"
        /\ pc' \in {"cleanup.rootrecord", "cleanup.rootdelete", "stop", "cleanup.next",
                    "cleanup.rootend", "cleanup.end"}
        /\ UNCHANGED <<context, copies, local, drive>>
    BY DEF CleanupRoot, Branch, Tx, Goto, DeleteRoot, CallFails, world, baidu
  <1>2. task \in Task /\ TypeOK /\ DriveTypeOK /\ task' = task
    BY <1>1 DEF MoverInv, InHand, StoreInv, context
  <1>3. QuietStep \/ UNCHANGED vars
    BY <1>2, TaskSteps DEF CleanupRoot, Branch, Tx, DeleteRoot, CallFails
  <1>4. Kept
    BY <1>1, <1>2 DEF Kept, DriveTypeOK, local, drive
  <1>5. PlainLine(pc')
    BY <1>1 DEF PlainLine, CleanupLines, DownloadLines
  <1>6. QED
    BY <1>2, <1>3, <1>4, <1>5, PlainStep

LEMMA EnsureStep ==
  ASSUME StoreInv, MoverInv, Ensure
  PROVE  [Next]_vars /\ MoverInv'
  <1>1. /\ pc \in {"drive.root", "drive.dirs"}
        /\ pc' \in {"drive.root", "drive.dirs", "drive.next", "stop"}
        /\ UNCHANGED <<context, baidu, local, objects>>
    BY DEF Ensure, Branch, Tx, Goto, MakeRoot, MakeDirectory, CallFails, world, drive
  <1>2. task \in Task /\ TypeOK /\ DriveTypeOK /\ task' = task
    BY <1>1 DEF MoverInv, InHand, StoreInv, context
  <1>3. QuietStep \/ UNCHANGED vars
    <2>1. rootObj[task] # NoId /\ SetTaskDriveRoot(task, rootObj[task]) => QuietStep
      BY <1>2, TaskSteps DEF DriveTypeOK
    <2>2. ASSUME NEW d \in DirsLeft(task), dirObj[d] # NoId,
                 RecordDirectoryDriveID(task, d, dirObj[d])
          PROVE  QuietStep
      BY <1>2, <2>2, TaskSteps DEF DriveTypeOK, DirsLeft
    <2>3. QED
      BY <2>1, <2>2 DEF Ensure, Branch, Tx, MakeRoot, MakeDirectory, CallFails
  <1>4. DriveTypeOK'
    <2>1. CASE \E to \in {"drive.root", "stop"} : MakeRoot(to)
      BY <1>2, <2>1, NewIdType DEF MakeRoot, DriveTypeOK
    <2>2. CASE \E d \in Dir, to \in {"drive.dirs", "stop"} : MakeDirectory(d, to)
      BY <1>2, <2>2, NewIdType DEF MakeDirectory, DriveTypeOK
    <2>3. CASE UNCHANGED world
      BY <1>2, <2>3 DEF DriveTypeOK, world, drive
    <2>4. QED
      BY <2>1, <2>2, <2>3 DEF Ensure, Branch, Tx, CallFails
  <1>5. Kept
    BY <1>1, <1>4 DEF Kept, baidu, local
  <1>6. PlainLine(pc')
    BY <1>1 DEF PlainLine, CleanupLines, DownloadLines
  <1>7. QED
    BY <1>2, <1>3, <1>5, <1>6, PlainStep

LEMMA DriveStep ==
  ASSUME StoreInv, MoverInv, Drive \/ Reconcile
  PROVE  [Next]_vars /\ MoverInv'
  <1>1. /\ pc # "idle"
        /\ pc' \in {"drive.root", "download", "drive.file", "stop", "drive.record",
                    "drive.copy"}
        /\ UNCHANGED <<task, world>>
    BY DEF Drive, Reconcile, Branch, Tx, Goto, context
  <1>2. task \in Task /\ TypeOK /\ DriveTypeOK
    BY <1>1 DEF MoverInv, InHand, StoreInv
  <1>3. QuietStep \/ UNCHANGED vars
    BY <1>2, TaskSteps, FileSteps DEF Drive, Reconcile, Branch, Tx
  <1>4. PlainLine(pc') /\ Kept
    BY <1>1, <1>2, WorldKept DEF PlainLine, CleanupLines, DownloadLines
  <1>5. QED
    BY <1>1, <1>2, <1>3, <1>4, PlainStep

(* An upload only adds to what Drive holds.                                *)
LEMMA CommitKeeps ==
  ASSUME DriveTypeOK, NEW f, Commit(f), UNCHANGED <<bin, copies, rootObj, dirObj>>
  PROVE  Kept
  <1>1. NewId \in DriveId
    BY NewIdType DEF Commit
  <1>2. \A g \in File : objects'[g] \in {objects[g], objects[g] \cup {NewId}}
    BY DEF Commit, DriveTypeOK
  <1>3. DOMAIN objects' = File /\ objects' = [g \in File |-> objects'[g]]
    BY DEF Commit, DriveTypeOK
  <1>4. objects' \in [File -> SUBSET DriveId]
    BY <1>1, <1>2, <1>3 DEF DriveTypeOK
  <1>5. QED
    BY <1>2, <1>4 DEF Kept, DriveTypeOK

LEMMA CopyToStep ==
  ASSUME StoreInv, MoverInv, CopyTo
  PROVE  [Next]_vars /\ MoverInv'
  <1>1. /\ pc = "drive.copy" /\ pc' = "drive.reconcile"
        /\ UNCHANGED <<vars, context, baidu, local, rootObj, dirObj>>
    BY DEF CopyTo, Goto
  <1>2. task \in Task /\ DriveTypeOK /\ task' = task
    BY <1>1 DEF MoverInv, InHand, context
  <1>3. Kept
    <2>1. CASE Commit(file)
      BY <1>1, <1>2, <2>1, CommitKeeps DEF baidu, local
    <2>2. CASE UNCHANGED objects
      BY <1>1, <1>2, <2>2 DEF Kept, DriveTypeOK, baidu, local
    <2>3. QED
      BY <2>1, <2>2 DEF CopyTo
  <1>4. PlainLine(pc')
    BY <1>1 DEF PlainLine, CleanupLines, DownloadLines
  <1>5. QED
    BY <1>1, <1>2, <1>3, <1>4, PlainStep

LEMMA LateCommitStep ==
  ASSUME StoreInv, MoverInv, LateCommit
  PROVE  [Next]_vars /\ MoverInv'
  <1>1. PICK f \in late : /\ Commit(f)
                          /\ UNCHANGED <<vars, pc, context, baidu, local, rootObj, dirObj>>
    BY DEF LateCommit
  <1>2. Kept
    BY <1>1, CommitKeeps DEF MoverInv, baidu, local
  <1>3. InHand'
    BY <1>1 DEF MoverInv, InHand, context, local, vars, fileVars, ownedVars,
                DownloadCandidates, FilesIn, FilesOf, Available, ReservedCacheBytes
  <1>4. EvidenceIsReal'
    BY <1>1, <1>2, EvidenceKept DEF MoverInv
  <1>5. QED
    BY <1>1, <1>2, <1>3, <1>4 DEF MoverInv, Kept

(* The ID that is recorded is one Drive shows.                             *)
LEMMA RecordStep ==
  ASSUME StoreInv, MoverInv, NEW id \in objects[file],
         Tx("drive.record", "drive.verify", RecordDriveUploaded(task, file, id))
  PROVE  [Next]_vars /\ MoverInv'
  <1>1. /\ pc = "drive.record" /\ pc' = "drive.verify" /\ UNCHANGED <<context, world>>
        /\ RecordDriveUploaded(task, file, id)
    BY DEF Tx, Goto
  <1>2. task \in Task /\ TypeOK /\ DriveTypeOK /\ EvidenceIsReal /\ task' = task
    BY <1>1 DEF MoverInv, InHand, StoreInv, context
  <1>3. file \in File /\ status[file] \in OnLocal
    BY <1>1 DEF RecordDriveUploaded, MayRecordDriveUploaded, DriveUploadCandidates, FilesIn,
                FilesOf, OnLocal
  <1>4. id \in DriveId /\ id # NoId
    BY <1>2, <1>3, IdAssumption DEF DriveTypeOK
  <1>5. Next
    BY <1>1, <1>2, <1>4, FileSteps
  <1>6. Kept
    BY <1>1, <1>2, WorldKept
  <1>7. /\ \A f \in File : f # file => status'[f] = status[f] /\ driveId'[f] = driveId[f]
        /\ status'[file] = "DRIVE_UPLOADED" /\ driveId'[file] = id
    BY <1>1, <1>2, <1>3 DEF RecordDriveUploaded, TypeOK
  <1>8. EvidenceIsReal'
    BY <1>2, <1>3, <1>6, <1>7 DEF EvidenceIsReal, Kept, OnLocal
  <1>9. InHand'
    BY <1>1, <1>2 DEF InHand, CleanupLines, DownloadLines
  <1>10. QED
    BY <1>5, <1>6, <1>8, <1>9 DEF MoverInv, Kept

LEMMA VerifyStep ==
  ASSUME StoreInv, MoverInv, Verify
  PROVE  [Next]_vars /\ MoverInv'
  <1>1. CASE Tx("drive.record", "drive.verify",
                \E id \in objects[file] : RecordDriveUploaded(task, file, id))
    <2>1. PICK id \in objects[file] :
               Tx("drive.record", "drive.verify", RecordDriveUploaded(task, file, id))
      BY <1>1 DEF Tx
    <2>2. QED
      BY <2>1, RecordStep
  <1>2. CASE \/ Tx("drive.verify", "drive.next",
                   Evidence(file) /\ MarkDriveVerified(task, file, driveId[file]))
             \/ Tx("drive.verify", "stop", ~Evidence(file) /\ RecordDriveFailure(task, file, TRUE))
             \/ CallFails({"drive.file", "drive.reconcile", "drive.verify"}, {"stop"})
             \/ /\ pc \in {"drive.file", "drive.reconcile", "drive.verify"} /\ pc' = "stop" /\ Fault
                /\ RecordDriveFailure(task, file, TRUE)
                /\ UNCHANGED <<context, world>>
    <2>1. /\ pc # "idle" /\ pc' \in {"drive.next", "stop"} /\ UNCHANGED <<context, world>>
      BY <1>2 DEF Tx, Goto, CallFails
    <2>2. task \in Task /\ TypeOK /\ DriveTypeOK /\ task' = task
      BY <2>1 DEF MoverInv, InHand, StoreInv, context
    <2>3. QuietStep \/ UNCHANGED vars
      <3>1. ASSUME Evidence(file), MarkDriveVerified(task, file, driveId[file])
            PROVE  QuietStep
        <4>1. file \in File
          BY <3>1 DEF MarkDriveVerified, MayMarkDriveVerified, FilesIn, FilesOf
        <4>2. driveId[file] \in DriveId
          BY <2>2, <3>1, <4>1 DEF Evidence, DriveTypeOK
        <4>3. QED
          BY <2>2, <3>1, <4>2, FileSteps
      <3>2. RecordDriveFailure(task, file, TRUE) => QuietStep
        BY <2>2, FileSteps
      <3>3. QED
        BY <1>2, <3>1, <3>2 DEF Tx, CallFails
    <2>4. PlainLine(pc') /\ Kept
      BY <2>1, <2>2, WorldKept DEF PlainLine, CleanupLines, DownloadLines
    <2>5. QED
      BY <2>2, <2>3, <2>4, PlainStep
  <1>3. QED
    BY <1>1, <1>2 DEF Verify

(* A download keeps its candidate until the file is recorded.              *)
LEMMA DownloadStep ==
  ASSUME StoreInv, MoverInv, Download
  PROVE  [Next]_vars /\ MoverInv'
  <1>1. /\ pc \in {"download", "download.next", "download.file"} /\ UNCHANGED <<task, world>>
    BY DEF Download, Tx, Branch, Goto, context
  <1>2. task \in Task /\ TypeOK /\ DriveTypeOK /\ Kept
    BY <1>1, WorldKept DEF MoverInv, InHand, StoreInv
  <1>3. QuietStep \/ UNCHANGED vars
    BY <1>2, TaskSteps, FileSteps DEF Download, Tx, Branch
  <1>4. CASE pc' \in {"download.next", "stage"}
    BY <1>1, <1>2, <1>3, <1>4, PlainStep DEF PlainLine, CleanupLines, DownloadLines
  <1>5. CASE pc' \notin {"download.next", "stage"}
    <2>1. /\ pc' \in DownloadLines
          /\ pc' = "download.ready" => file' \in bin
      BY <1>5 DEF Download, Tx, Branch, Goto, DownloadLines, context
    <2>2. file' \in DownloadCandidates(task)'
      <3>1. CASE UNCHANGED vars /\ pc = "download.next"
        BY <1>5, <3>1 DEF Download, Tx, Branch, Goto, NextDownload, IsFirst, vars, fileVars,
                          DownloadCandidates, FilesIn, FilesOf
      <3>2. CASE UNCHANGED vars /\ pc = "download.file"
        <4>1. file \in DownloadCandidates(task) /\ file' = file
          BY <1>5, <3>2 DEF Download, Tx, Branch, Goto, context, MoverInv, InHand,
                            DownloadLines
        <4>2. QED
          BY <1>1, <3>2, <4>1 DEF vars, fileVars, DownloadCandidates, FilesIn, FilesOf
      <3>3. CASE ~ UNCHANGED vars
        <4>1. StartDownload(task, file) /\ file' = file
          BY <1>5, <3>3 DEF Download, Tx, Branch, Goto, context
        <4>2. QED
          BY <1>1, <1>2, <4>1 DEF StartDownload, MayStartDownload, DownloadCandidates, FilesIn,
                                  FilesOf, TypeOK, Absent
      <3>4. QED
        BY <1>5, <3>1, <3>2, <3>3 DEF Download, Tx, Branch, Goto
    <2>3. task' = task /\ bin' = bin
      BY <1>1 DEF world, local
    <2>4. InHand'
      BY <1>2, <2>1, <2>2, <2>3 DEF InHand, CleanupLines, DownloadLines
    <2>5. QED
      BY <1>2, <1>3, <2>4, EvidenceKept DEF MoverInv, Kept, QuietStep
  <1>6. QED
    BY <1>4, <1>5

LEMMA FetchStep ==
  ASSUME StoreInv, MoverInv, Fetch
  PROVE  [Next]_vars /\ MoverInv'
  <1>1. /\ pc = "download.fetch" /\ UNCHANGED <<context, baidu, bin, drive>>
        /\ pc' \in {"download.rename", "download.fetch", "stop", "download.next"}
    BY DEF Fetch, Goto
  <1>2. /\ task \in Task /\ TypeOK /\ DriveTypeOK /\ task' = task /\ file' = file
        /\ file \in DownloadCandidates(task)
    BY <1>1 DEF MoverInv, InHand, StoreInv, context, DownloadLines
  <1>3. Kept
    BY <1>1, <1>2 DEF Kept, DriveTypeOK, baidu, drive
  <1>4. QuietStep \/ UNCHANGED vars
    BY <1>2, FileSteps DEF Fetch
  <1>5. CASE pc' \in {"stop", "download.next"}
    BY <1>2, <1>3, <1>4, <1>5, PlainStep DEF PlainLine, CleanupLines, DownloadLines
  <1>6. CASE pc' \in {"download.rename", "download.fetch"}
    <2>1. UNCHANGED vars
      BY <1>6 DEF Fetch, Goto
    <2>2. file' \in DownloadCandidates(task)'
      BY <1>2, <2>1 DEF vars, fileVars, DownloadCandidates, FilesIn, FilesOf
    <2>3. InHand'
      BY <1>2, <1>6, <2>2 DEF InHand, CleanupLines, DownloadLines
    <2>4. QED
      BY <1>3, <1>4, <2>3, EvidenceKept DEF MoverInv, Kept, QuietStep
  <1>7. QED
    BY <1>1, <1>5, <1>6

(* The file is recorded as ready after it has its name.                    *)
LEMMA LocalReadyStep ==
  ASSUME StoreInv, MoverInv, LocalReady
  PROVE  [Next]_vars /\ MoverInv'
  <1>1. /\ pc \in {"download.rename", "download.ready"}
        /\ UNCHANGED <<context, baidu, drive>>
    BY DEF LocalReady, Tx, Goto, world
  <1>2. /\ task \in Task /\ TypeOK /\ DriveTypeOK /\ EvidenceIsReal
        /\ task' = task /\ file' = file
        /\ file \in DownloadCandidates(task) /\ file \in File
    BY <1>1 DEF MoverInv, InHand, StoreInv, context, DownloadLines, DownloadCandidates,
                FilesIn, FilesOf
  <1>3. CASE /\ Goto("download.rename", "download.ready")
             /\ bin' = bin \cup {file} /\ SetPart(file, "none")
             /\ UNCHANGED <<vars, context, baidu, drive, faults>>
    <2>1. Kept
      BY <1>2, <1>3 DEF Kept, DriveTypeOK, baidu, drive
    <2>2. file' \in DownloadCandidates(task)'
      BY <1>2, <1>3 DEF vars, fileVars, DownloadCandidates, FilesIn, FilesOf
    <2>3. InHand'
      BY <1>2, <1>3, <2>2 DEF Goto, InHand, CleanupLines, DownloadLines
    <2>4. QED
      BY <1>3, <2>1, <2>3, EvidenceKept DEF MoverInv, Kept
  <1>4. CASE Tx("download.ready", "download.next", MarkLocalReady(task, file))
    <2>1. /\ pc = "download.ready" /\ pc' = "download.next" /\ UNCHANGED world
          /\ MarkLocalReady(task, file)
      BY <1>4 DEF Tx, Goto
    <2>2. Next /\ Kept /\ file \in bin
      BY <1>2, <2>1, FileSteps, WorldKept DEF MoverInv, InHand
    <2>3. /\ \A f \in File : f # file => status'[f] = status[f]
          /\ status'[file] = "LOCAL_READY" /\ driveId' = driveId
      BY <1>2, <2>1 DEF MarkLocalReady, TypeOK
    <2>4. EvidenceIsReal'
      BY <1>2, <2>2, <2>3 DEF EvidenceIsReal, Kept
    <2>5. InHand'
      BY <1>2, <2>1 DEF InHand, CleanupLines, DownloadLines
    <2>6. QED
      BY <2>2, <2>4, <2>5 DEF MoverInv, Kept
  <1>5. QED
    BY <1>3, <1>4 DEF LocalReady

(* A finished file is thrown away only while nothing is claimed of it.     *)
LEMMA CacheFailsStep ==
  ASSUME StoreInv, MoverInv, CacheFails
  PROVE  [Next]_vars /\ MoverInv'
  <1>1. /\ pc \in {"download.file", "download.rename"}
        /\ UNCHANGED <<context, baidu, part, drive>>
    BY DEF CacheFails, Goto, world, local
  <1>2. /\ task \in Task /\ TypeOK /\ DriveTypeOK /\ EvidenceIsReal
        /\ task' = task /\ file' = file /\ file \in DownloadCandidates(task)
    BY <1>1 DEF MoverInv, InHand, StoreInv, context, DownloadLines
  <1>3. CASE /\ Goto("download.file", "download.file") /\ file \in bin /\ bin' = bin \ {file}
             /\ Fault /\ UNCHANGED <<vars, context, baidu, part, drive>>
    <2>1. status[file] \notin OnLocal
      BY <1>2 DEF DownloadCandidates, FilesIn, FilesOf, OnLocal
    <2>2. EvidenceIsReal'
      BY <1>2, <1>3, <2>1 DEF EvidenceIsReal, OnLocal, vars, fileVars, baidu, drive
    <2>3. DriveTypeOK'
      BY <1>2, <1>3 DEF DriveTypeOK, drive
    <2>4. file' \in DownloadCandidates(task)'
      BY <1>2, <1>3 DEF vars, fileVars, DownloadCandidates, FilesIn, FilesOf
    <2>5. InHand'
      BY <1>2, <1>3, <2>4 DEF Goto, InHand, CleanupLines, DownloadLines
    <2>6. QED
      BY <1>3, <2>2, <2>3, <2>5 DEF MoverInv
  <1>4. CASE /\ pc \in {"download.file", "download.rename"} /\ pc' = "stop" /\ Fault
             /\ RecordDownloadFailure(task, file, FALSE)
             /\ UNCHANGED <<context, world>>
    <2>1. QuietStep /\ Kept
      BY <1>2, <1>4, FileSteps, WorldKept
    <2>2. PlainLine(pc')
      BY <1>4 DEF PlainLine, CleanupLines, DownloadLines
    <2>3. QED
      BY <1>2, <2>1, <2>2, PlainStep
  <1>5. QED
    BY <1>3, <1>4 DEF CacheFails

(* What the watermark leaves is a bound a planning call may be given.      *)
LEMMA AvailableBound == Available > 0 => Available \in PlanBound
  <1>1. {f \in File : status[f] \in Reserved} \in SUBSET File
    OBVIOUS
  <1>2. QED
    BY <1>1, MoverAssumption DEF Available, ReservedCacheBytes

LEMMA StageRunStep ==
  ASSUME StoreInv, MoverInv, StageRun
  PROVE  [Next]_vars /\ MoverInv'
  <1>1. /\ pc # "idle" /\ UNCHANGED <<task, world>>
        /\ \/ pc' = "stage.plan" /\ Available > 0 /\ UNCHANGED vars
           \/ pc' \in {"end", "stage.check", "stop", "stage.start", "stage.mkdir"}
    BY DEF StageRun, Tx, Branch, Goto, context
  <1>2. task \in Task /\ TypeOK /\ DriveTypeOK /\ Kept
    BY <1>1, WorldKept DEF MoverInv, InHand, StoreInv
  <1>3. QuietStep \/ UNCHANGED vars
    <2>1. ASSUME pc = "stage.plan",
                 NEW P \in SUBSET ((SUBSET Discovered(task)) \ {{}}),
                 PlanBatches(task, Available, P)
          PROVE  QuietStep
      BY <1>2, <2>1, BatchSteps, AvailableBound DEF MoverInv, InHand
    <2>2. \A b : StartBatch(task, b) => QuietStep
      BY <1>2, BatchSteps
    <2>3. UpdateTaskStatus(task, "RUNNING") => QuietStep
      BY <1>2, TaskSteps
    <2>4. QED
      BY <2>1, <2>2, <2>3 DEF StageRun, Tx, Branch, Goto
  <1>4. CASE pc' = "stage.plan" /\ Available > 0 /\ UNCHANGED vars
    <2>1. Available' > 0
      BY <1>4 DEF Available, ReservedCacheBytes, vars, fileVars
    <2>2. InHand'
      BY <1>1, <1>2, <1>4, <2>1 DEF InHand, CleanupLines, DownloadLines
    <2>3. QED
      BY <1>2, <1>4, <2>2, EvidenceKept DEF MoverInv, Kept
  <1>5. CASE pc' \in {"end", "stage.check", "stop", "stage.start", "stage.mkdir"}
    BY <1>1, <1>2, <1>3, <1>5, PlainStep DEF PlainLine, CleanupLines, DownloadLines
  <1>6. QED
    BY <1>1, <1>4, <1>5

(* A staging confirmation names only files the listing showed.             *)
LEMMA ConfirmStep ==
  ASSUME StoreInv, MoverInv, pc' \notin CleanupLines \cup DownloadLines,
         pc' # "stage.plan", pc # "idle", UNCHANGED <<context, world>>,
         RecordStagedFiles(task, batch, batch \cap copies)
  PROVE  [Next]_vars /\ MoverInv'
  <1>1. task \in Task /\ TypeOK /\ DriveTypeOK /\ EvidenceIsReal /\ task' = task
    BY DEF MoverInv, InHand, StoreInv, context
  <1>2. Next /\ Kept
    BY <1>1, BatchSteps, WorldKept
  <1>3. /\ \A f \in File : \/ status'[f] = status[f]
                           \/ f \in copies /\ status'[f] = "BAIDU_STAGED"
        /\ driveId' = driveId
    BY DEF RecordStagedFiles
  <1>4. EvidenceIsReal'
    BY <1>1, <1>2, <1>3 DEF EvidenceIsReal, Kept
  <1>5. InHand'
    BY <1>1 DEF InHand, CleanupLines, DownloadLines
  <1>6. QED
    BY <1>2, <1>4, <1>5 DEF MoverInv, Kept

LEMMA StageBatchStep ==
  ASSUME StoreInv, MoverInv, StageBatch
  PROVE  [Next]_vars /\ MoverInv'
  <1>1. /\ pc # "idle" /\ UNCHANGED <<context, local, drive>>
        /\ pc' \in {"stage.list", "stage.fail", "stage.transfer", "stage.complete",
                    "stage.broken", "stage.failed", "stage.end", "end", "stop",
                    "stage.start"}
        /\ copies \subseteq copies'
    BY DEF StageBatch, MakeStaging, Confirm, Transfer, Tx, Branch, Goto, CallFails, world, baidu
  <1>2. task \in Task /\ TypeOK /\ DriveTypeOK /\ task' = task
    BY <1>1 DEF MoverInv, InHand, StoreInv, context
  <1>3. Kept
    BY <1>1, <1>2 DEF Kept, DriveTypeOK, local, drive
  <1>4. PlainLine(pc')
    BY <1>1 DEF PlainLine, CleanupLines, DownloadLines
  <1>5. CASE RecordStagedFiles(task, batch, batch \cap copies) /\ UNCHANGED world
    BY <1>1, <1>4, <1>5, ConfirmStep DEF PlainLine
  <1>6. CASE ~ (RecordStagedFiles(task, batch, batch \cap copies) /\ UNCHANGED world)
    <2>1. QuietStep \/ UNCHANGED vars
      BY <1>2, <1>6, TaskSteps, BatchSteps
         DEF StageBatch, MakeStaging, Confirm, Transfer, Tx, Branch, CallFails
    <2>2. QED
      BY <1>2, <1>3, <1>4, <2>1, PlainStep
  <1>7. QED
    BY <1>5, <1>6

(* Nothing is in hand after a stop or a crash.                             *)
LEMMA EndStep ==
  ASSUME StoreInv, MoverInv, Stop \/ Crash
  PROVE  [Next]_vars /\ MoverInv'
  <1>1. pc # "idle" /\ pc' = "idle" /\ UNCHANGED world
    BY DEF Stop, Exit, Crash
  <1>2. task \in Task /\ TypeOK /\ DriveTypeOK
    BY <1>1 DEF MoverInv, InHand, StoreInv
  <1>3. QuietStep \/ UNCHANGED vars
    BY <1>2, TaskSteps DEF Stop, Exit, Crash
  <1>4. PlainLine(pc') /\ Kept
    BY <1>1, <1>2, WorldKept DEF PlainLine, CleanupLines, DownloadLines
  <1>5. QED
    BY <1>1, <1>3, <1>4, PlainStep

LEMMA LaunchStep ==
  ASSUME StoreInv, MoverInv, NEW t \in Task, StartNew(t) \/ Launch(t)
  PROVE  [Next]_vars /\ MoverInv'
  <1>1. pc' \in {"scan", "pass"} /\ task' = t /\ UNCHANGED world
    BY DEF StartNew, Launch, ResumeScan, ResumePipeline, Goto
  <1>2. TypeOK /\ DriveTypeOK
    BY DEF MoverInv, StoreInv
  <1>3. QuietStep \/ UNCHANGED vars
    BY <1>2, TaskSteps DEF StartNew, Launch, ResumeScan, ResumePipeline
  <1>4. PlainLine(pc') /\ Kept
    BY <1>1, <1>2, WorldKept DEF PlainLine, CleanupLines, DownloadLines
  <1>5. QED
    BY <1>1, <1>3, <1>4, PlainStep

----------------------------------------------------------------------------
LEMMA MoverInvInit == MoverInit => StoreInv /\ MoverInv
  <1> SUFFICES ASSUME MoverInit PROVE StoreInv /\ MoverInv
    OBVIOUS
  <1>1. StoreInv
    BY StoreInvInit DEF MoverInit
  <1>2. InHand
    BY DEF MoverInit, InHand, CleanupLines, DownloadLines
  <1>3. DriveTypeOK
    BY DEF MoverInit, DriveTypeOK
  <1>4. EvidenceIsReal
    BY DEF MoverInit, Init, EvidenceIsReal, Absent
  <1>5. QED
    BY <1>1, <1>2, <1>3, <1>4 DEF MoverInv

LEMMA MoverInvStep ==
  ASSUME StoreInv, MoverInv, [MoverNext]_moverVars
  PROVE  [Next]_vars /\ StoreInv' /\ MoverInv'
  <1>1. CASE Run
    BY <1>1, ScanStep, PassStep, CleanupStep, CleanupLocalStep, CleanupDirectoryStep,
       CleanupRootStep, EnsureStep, DriveStep, CopyToStep, VerifyStep, DownloadStep,
       FetchStep, LocalReadyStep, CacheFailsStep, StageRunStep, StageBatchStep, EndStep,
       StoreInvStep
       DEF Run
  <1>2. CASE Crash
    BY <1>2, EndStep, StoreInvStep
  <1>3. CASE LateCommit
    BY <1>3, LateCommitStep, StoreInvStep
  <1>4. ASSUME NEW t \in Task, StartNew(t) \/ Launch(t)
        PROVE  [Next]_vars /\ StoreInv' /\ MoverInv'
    BY <1>4, LaunchStep, StoreInvStep
  <1>5. CASE UNCHANGED moverVars
    <2>1. UNCHANGED <<vars, pc, context, world>>
      BY <1>5 DEF moverVars
    <2>2. StoreInv'
      BY <2>1, StoreInvStep
    <2>3. InHand'
      BY <2>1 DEF MoverInv, InHand, context, world, local, vars, fileVars, ownedVars,
                  DownloadCandidates, FilesIn, FilesOf, Available, ReservedCacheBytes
    <2>4. Kept
      BY <2>1, WorldKept DEF MoverInv
    <2>5. EvidenceIsReal'
      BY <2>1, <2>4, EvidenceKept DEF MoverInv
    <2>6. QED
      BY <2>1, <2>2, <2>3, <2>4, <2>5 DEF MoverInv, Kept
  <1>6. QED
    BY <1>1, <1>2, <1>3, <1>4, <1>5 DEF MoverNext

(* The inductive invariant of the running program.                         *)
THEOREM MoverInvariant == MoverSpec => [](StoreInv /\ MoverInv)
  <1>1. StoreInv /\ MoverInv /\ [MoverNext]_moverVars => (StoreInv /\ MoverInv)'
    BY MoverInvStep
  <1>2. QED
    BY MoverInvInit, <1>1, PTL DEF MoverSpec

(* The running program implements the store: whatever the process does     *)
(* and wherever it dies, its database changes only by transactions whose   *)
(* checks hold, so that every theorem about Store holds of the program     *)
(* (internal/app over internal/state).                                     *)
THEOREM MoverImplementsStore == MoverSpec => Spec
  <1>1. MoverInit => Init
    BY DEF MoverInit
  <1>2. StoreInv /\ MoverInv /\ [MoverNext]_moverVars => [Next]_vars
    BY MoverInvStep
  <1>3. QED
    BY MoverInvariant, <1>1, <1>2, PTL DEF MoverSpec, Spec

(* What the database says of bytes is true of the bytes, after any number  *)
(* of crashes and errors: files ready for Drive are on disk, uploaded ones *)
(* on Drive under their recorded ID, staged ones on Baidu (the order of    *)
(* effects and transactions in internal/download, drivecopy, staging and   *)
(* cleanup).                                                               *)
THEOREM EvidenceStaysReal == MoverSpec => []EvidenceIsReal
  <1>1. MoverInv => EvidenceIsReal
    BY DEF MoverInv
  <1>2. QED
    BY MoverInvariant, <1>1, PTL

=============================================================================
