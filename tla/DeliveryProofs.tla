--------------------------- MODULE DeliveryProofs ---------------------------
(***************************************************************************)
(* Proofs about the running program, for every share, watermark and number *)
(* of faults: it keeps the promise of Delivery, what it has in custody is  *)
(* given up only when Drive holds a verified copy; what it reserves, and   *)
(* what it keeps on the local disk, stays below the watermark; a task that *)
(* it reports as completed has left nothing behind; the store refuses none *)
(* of its transactions; and what was cleaned returns by restaging only.    *)
(***************************************************************************)
EXTENDS MoverProofs, PlannerProofs

(* The four sets of the abstract specification.                            *)
Held    == copies \cup OnDisk
Placed  == {f \in File : objects[f] # {}}
Checked == {f \in File : status[f] \in Verified \/ localOwned[f] \in Authorized}
Moved   == {f \in File : CleanedBatch(f) /\ localOwned[f] = "CLEANED"}

(* What the process has in hand has its type.                              *)
ContextOK ==
  /\ pc \in Line
  /\ task \in Task \cup {Absent} /\ (task = Absent <=> pc = "idle")
  /\ batch \in Batch \cup {{}} /\ file \in File \cup {Absent} /\ capped \in BOOLEAN
  /\ faults \in 0 .. MaxFaults

(* A staging directory is one of a planned batch and below the root of its *)
(* task, and a copy is in one.                                             *)
StagingOK ==
  /\ dirs \subseteq Batch /\ copies \subseteq UNION dirs
  /\ \A b \in dirs : batchStatus[b] # Absent /\ \A f \in b : FileTask[f] \in roots

(* A file that is finished, or that may be deleted, has no .part file; one *)
(* that was deleted has no .bin file either.                               *)
CacheOK ==
  /\ part \in [File -> {"none", "some", "all"}] /\ bin \subseteq File
  /\ \A f \in File : /\ f \in bin \/ localOwned[f] \in Authorized => part[f] = "none"
                     /\ localOwned[f] = "CLEANED" => f \notin bin

(* An upload that may still commit is one of a file in custody, or of one  *)
(* that Drive holds already.                                               *)
LateOK == late \subseteq File /\ \A f \in late : objects[f] # {} \/ f \in Held

(* A file is to be cleaned only with its permission, and the directory of  *)
(* a batch is deleted after all local copies.                              *)
RowsOK ==
  /\ \A f \in File : status[f] = "CLEANUP_PENDING" => localOwned[f] \in Authorized
  /\ \A b \in Batch : batchOwned[b] = "CLEANED" => \A f \in b : localOwned[f] = "CLEANED"

Custody == StagingOK /\ CacheOK /\ LateOK /\ RowsOK

(* What each line relies on beyond InHand.                                 *)
Hand ==
  /\ pc = "cleanup.mark" => file \notin bin
  /\ pc \in {"cleanup.dir", "cleanup.delete", "cleanup.record"} =>
       \A f \in batch : localOwned[f] = "CLEANED"
  /\ pc = "cleanup.record" => batch \cap copies = {}
  /\ pc = "cleanup.rootdelete" => DirectoriesOf(task) = {}
  /\ pc \in {"drive.copy", "drive.reconcile"} => file \in bin
  /\ pc = "download.fetch" => file \notin bin
  /\ pc = "stage.mkdir" => batch \in BatchesOf(task)
  /\ pc \in {"stage.list", "stage.transfer", "stage.broken"} => batch \in dirs

DeliveryInv == StoreInv /\ MoverInv /\ ContextOK /\ Custody /\ Hand
----------------------------------------------------------------------------
(* A transaction is tame when it verifies nothing, withdraws no            *)
(* verification and cleans nothing.                                        *)
Tame ==
  /\ \A f \in File : /\ status'[f] \in Verified <=> status[f] \in Verified
                     /\ status'[f] = "CLEANUP_PENDING" => status[f] = "CLEANUP_PENDING"
                     /\ localOwned'[f] \in Authorized <=> localOwned[f] \in Authorized
                     /\ localOwned'[f] = "CLEANED" <=> localOwned[f] = "CLEANED"
  /\ \A b \in Batch : batchOwned'[b] = "CLEANED" <=> batchOwned[b] = "CLEANED"

LEMMA TameTask ==
  ASSUME TypeOK, NEW t \in Task
  PROVE  /\ CreateTask(t) => Tame
         /\ \A D, F : UpsertManifestPage(t, D, F) => Tame
         /\ CompleteTaskScan(t) => Tame
         /\ \A s : UpdateTaskStatus(t, s) => Tame
         /\ \A id : SetTaskDriveRoot(t, id) => Tame
         /\ \A d, id : RecordDirectoryDriveID(t, d, id) => Tame
         /\ AuthorizeTaskRootCleanup(t) => Tame
         /\ MarkBaiduTaskRootCleanupDone(t) => Tame
  <1> USE DEF Tame, fileVars, ownedVars
  <1>1. CreateTask(t) => Tame
    BY DEF CreateTask
  <1>2. ASSUME NEW D, NEW F, UpsertManifestPage(t, D, F) PROVE Tame
    <2>1. \A f \in File : status'[f] \in {status[f], "DISCOVERED"}
      BY <1>2 DEF UpsertManifestPage
    <2>2. \A f \in File : status'[f] # status[f] => status[f] = Absent
      BY <1>2 DEF UpsertManifestPage
    <2>3. UNCHANGED ownedVars
      BY <1>2 DEF UpsertManifestPage
    <2>4. QED
      BY <2>1, <2>2, <2>3 DEF Verified, Absent
  <1>3. CompleteTaskScan(t) => Tame
    BY DEF CompleteTaskScan
  <1>4. ASSUME NEW s, UpdateTaskStatus(t, s) PROVE Tame
    BY <1>4 DEF UpdateTaskStatus
  <1>5. ASSUME NEW id, SetTaskDriveRoot(t, id) PROVE Tame
    BY <1>5 DEF SetTaskDriveRoot
  <1>6. ASSUME NEW d, NEW id, RecordDirectoryDriveID(t, d, id) PROVE Tame
    BY <1>6 DEF RecordDirectoryDriveID
  <1>7. AuthorizeTaskRootCleanup(t) => Tame
    BY DEF AuthorizeTaskRootCleanup
  <1>8. MarkBaiduTaskRootCleanupDone(t) => Tame
    BY DEF MarkBaiduTaskRootCleanupDone
  <1> QED
    BY <1>1, <1>2, <1>3, <1>4, <1>5, <1>6, <1>7, <1>8

LEMMA TameBatch ==
  ASSUME TypeOK, NEW t \in Task
  PROVE  /\ \A maxBytes, P : PlanBatches(t, maxBytes, P) => Tame
         /\ \A b : StartBatch(t, b) => Tame
         /\ \A b, S : RecordStagedFiles(t, b, S) => Tame
         /\ \A b : CompleteBatch(t, b) => Tame
         /\ \A b : FailBatch(t, b, FALSE) => Tame
         /\ \A b : CompleteBatchCleanup(t, b) => Tame
  <1>1. ASSUME NEW maxBytes, NEW P, PlanBatches(t, maxBytes, P) PROVE Tame
    <2>1. \A f \in File : status'[f] = status[f] \/ (status[f] = "DISCOVERED" /\ status'[f] = "PLANNED")
      BY <1>1 DEF PlanBatches, Discovered, FilesIn, FilesOf
    <2>2. \A b \in Batch : batchOwned'[b] = batchOwned[b] \/ (batchOwned[b] = Absent /\ batchOwned'[b] = "REGISTERED")
      BY <1>1 DEF PlanBatches, Register
    <2>3. localOwned' = localOwned
      BY <1>1 DEF PlanBatches
    <2>4. QED
      BY <2>1, <2>2, <2>3 DEF Tame, Verified, Absent
  <1>2. ASSUME NEW b, StartBatch(t, b) PROVE Tame
    <2>1. \A f \in File : status'[f] = status[f] \/
             (status[f] \in {"PLANNED", "FAILED_RETRYABLE"} /\ status'[f] = "BAIDU_STAGING")
      BY <1>2 DEF StartBatch
    <2>2. UNCHANGED ownedVars
      BY <1>2 DEF StartBatch
    <2>3. QED
      BY <2>1, <2>2 DEF Tame, Verified, ownedVars
  <1>3. ASSUME NEW b, NEW S, RecordStagedFiles(t, b, S) PROVE Tame
    <2>1. \A f \in File : status'[f] = status[f] \/
             (status[f] \in AwaitingConfirmation /\ status'[f] = "BAIDU_STAGED")
      BY <1>3 DEF RecordStagedFiles
    <2>2. UNCHANGED ownedVars
      BY <1>3 DEF RecordStagedFiles
    <2>3. QED
      BY <2>1, <2>2 DEF Tame, Verified, AwaitingConfirmation, ownedVars
  <1>4. ASSUME NEW b, CompleteBatch(t, b) PROVE Tame
    BY <1>4 DEF CompleteBatch, Tame, fileVars, ownedVars
  <1>5. ASSUME NEW b, FailBatch(t, b, FALSE) PROVE Tame
    <2>1. \A f \in File : status'[f] = status[f]
      BY <1>5 DEF FailBatch
    <2>2. UNCHANGED ownedVars
      BY <1>5 DEF FailBatch
    <2>3. QED
      BY <2>1, <2>2 DEF Tame, ownedVars
  <1>6. ASSUME NEW b, CompleteBatchCleanup(t, b) PROVE Tame
    <2>1. \A f \in File : status'[f] = status[f] \/
             (status[f] = "CLEANUP_PENDING" /\ status'[f] = "DONE")
      BY <1>6 DEF CompleteBatchCleanup, MayCompleteBatchCleanup
    <2>2. UNCHANGED ownedVars
      BY <1>6 DEF CompleteBatchCleanup
    <2>3. QED
      BY <2>1, <2>2 DEF Tame, Verified, ownedVars
  <1> QED
    BY <1>1, <1>2, <1>3, <1>4, <1>5, <1>6

LEMMA TameFile ==
  ASSUME TypeOK, NEW t \in Task
  PROVE  /\ \A f : StartDownload(t, f) => Tame
         /\ \A f : MarkLocalReady(t, f) => Tame
         /\ \A f, permanent : RecordDownloadFailure(t, f, permanent) => Tame
         /\ \A f : StartDriveUpload(t, f) => Tame
         /\ \A f, id : RecordDriveUploaded(t, f, id) => Tame
         /\ \A f, permanent : RecordDriveFailure(t, f, permanent) => Tame
  <1> USE DEF FilesIn, FilesOf, DownloadCandidates, DriveUploadCandidates
  <1>0. DOMAIN status = File /\ DOMAIN localOwned = File
    BY DEF TypeOK
  <1>1. ASSUME NEW f, StartDownload(t, f) PROVE Tame
    <2>1. \A g \in File : status'[g] = status[g] \/
             (status[g] \in {"BAIDU_STAGED", "DOWNLOADING"} /\ status'[g] = "DOWNLOADING")
      BY <1>0, <1>1 DEF StartDownload, MayStartDownload
    <2>2. UNCHANGED ownedVars
      BY <1>1 DEF StartDownload
    <2>3. QED
      BY <2>1, <2>2 DEF Tame, Verified, ownedVars
  <1>2. ASSUME NEW f, MarkLocalReady(t, f) PROVE Tame
    <2>1. \A g \in File : status'[g] = status[g] \/
             (status[g] \in {"BAIDU_STAGED", "DOWNLOADING", "LOCAL_READY"} /\ status'[g] = "LOCAL_READY")
      BY <1>0, <1>2 DEF MarkLocalReady, MayMarkLocalReady
    <2>2. \A g \in File : localOwned'[g] = localOwned[g] \/
             (localOwned[g] \notin Authorized /\ localOwned'[g] = "REGISTERED")
      BY <1>0, <1>2 DEF MarkLocalReady, MayMarkLocalReady
    <2>3. UNCHANGED batchOwned
      BY <1>2 DEF MarkLocalReady
    <2>4. QED
      BY <2>1, <2>2, <2>3 DEF Tame, Verified, Authorized
  <1>3. ASSUME NEW f, NEW permanent, RecordDownloadFailure(t, f, permanent) PROVE Tame
    <2>1. \A g \in File : status'[g] = status[g] \/
             /\ status[g] \in {"BAIDU_STAGED", "DOWNLOADING"}
             /\ status'[g] \in {"DOWNLOADING", "FAILED_PERMANENT"}
      BY <1>0, <1>3 DEF RecordDownloadFailure, MayRecordDownloadFailure
    <2>2. UNCHANGED ownedVars
      BY <1>3 DEF RecordDownloadFailure
    <2>3. QED
      BY <2>1, <2>2 DEF Tame, Verified, ownedVars
  <1>4. ASSUME NEW f, StartDriveUpload(t, f) PROVE Tame
    <2>1. \A g \in File : status'[g] = status[g] \/
             (status[g] \in {"LOCAL_READY", "DRIVE_UPLOADING"} /\ status'[g] = "DRIVE_UPLOADING")
      BY <1>0, <1>4 DEF StartDriveUpload, MayStartDriveUpload
    <2>2. UNCHANGED ownedVars
      BY <1>4 DEF StartDriveUpload
    <2>3. QED
      BY <2>1, <2>2 DEF Tame, Verified, ownedVars
  <1>5. ASSUME NEW f, NEW id, RecordDriveUploaded(t, f, id) PROVE Tame
    <2>1. \A g \in File : status'[g] = status[g] \/
             /\ status[g] \in {"LOCAL_READY", "DRIVE_UPLOADING", "DRIVE_UPLOADED"}
             /\ status'[g] = "DRIVE_UPLOADED"
      BY <1>0, <1>5 DEF RecordDriveUploaded, MayRecordDriveUploaded
    <2>2. UNCHANGED ownedVars
      BY <1>5 DEF RecordDriveUploaded
    <2>3. QED
      BY <2>1, <2>2 DEF Tame, Verified, ownedVars
  <1>6. ASSUME NEW f, NEW permanent, RecordDriveFailure(t, f, permanent) PROVE Tame
    <2>1. \A g \in File : status'[g] = status[g] \/
             /\ status[g] \in {"LOCAL_READY", "DRIVE_UPLOADING", "DRIVE_UPLOADED"}
             /\ status'[g] = "FAILED_PERMANENT"
      BY <1>0, <1>6 DEF RecordDriveFailure, MayRecordDriveFailure
    <2>2. UNCHANGED ownedVars
      BY <1>6 DEF RecordDriveFailure
    <2>3. QED
      BY <2>1, <2>2 DEF Tame, Verified, ownedVars
  <1> QED
    BY <1>1, <1>2, <1>3, <1>4, <1>5, <1>6

----------------------------------------------------------------------------
(* What the rows say.                                                      *)
LEMMA RowsStay ==
  ASSUME StoreInv, StoreInv', [Next]_vars
  PROVE  /\ \A b \in Batch : batchStatus[b] # Absent => batchStatus'[b] # Absent
         /\ \A b \in Batch : batchOwned[b] \in Authorized => batchOwned'[b] \in Authorized
         /\ \A f \in File : localOwned[f] = "CLEANED" => localOwned'[f] = "CLEANED"
  <1>1. CASE UNCHANGED vars
    BY <1>1 DEF vars, ownedVars
  <1>2. CASE Next
    <2>1. RanksKept
      BY <1>2, RanksKeptStep DEF Next, StoreInv
    <2>2. /\ \A b \in Batch : batchOwned[b] \in Provenance /\ batchOwned'[b] \in Provenance
          /\ \A f \in File : localOwned[f] \in Provenance /\ localOwned'[f] \in Provenance
      BY DEF StoreInv, TypeOK
    <2>3. \A b \in Batch : /\ batchOwned[b] # Absent => batchOwned'[b] # Absent
                           /\ batchOwned[b] \in Authorized => batchOwned'[b] \in Authorized
      BY <2>1, <2>2 DEF RanksKept, Rank, Provenance, Absent, Authorized
    <2>4. \A f \in File : localOwned[f] = "CLEANED" => localOwned'[f] = "CLEANED"
      BY <2>1, <2>2 DEF RanksKept, Rank, Provenance, Absent
    <2>5. \A b \in Batch : /\ batchStatus[b] # Absent <=> batchOwned[b] # Absent
                           /\ batchStatus'[b] # Absent <=> batchOwned'[b] # Absent
      BY DEF StoreInv, RowsConsistent
    <2>6. QED
      BY <2>3, <2>4, <2>5
  <1>3. QED
    BY <1>1, <1>2

(* A file that counts as verified has an object on Drive.                  *)
LEMMA CheckedIsPlaced ==
  ASSUME StoreInv, EvidenceIsReal
  PROVE  Checked \subseteq Placed
  <1>1. ASSUME NEW f \in File, status[f] \in Verified PROVE driveId[f] # NoId
    BY <1>1 DEF StoreInv, UploadEvidence
  <1>2. ASSUME NEW f \in File, localOwned[f] \in Authorized PROVE driveId[f] # NoId
    <2>1. PICK b \in Batch : f \in b /\ batchOwned[b] \in Authorized
      BY <1>2 DEF StoreInv, LocalGate
    <2>2. QED
      BY <2>1 DEF StoreInv, CleanupGate
  <1>3. QED
    BY <1>1, <1>2 DEF Checked, Placed, EvidenceIsReal

(* The files of a batch that may be deleted count as verified; a file that *)
(* is staged or downloaded may not be deleted.                             *)
LEMMA AuthorizedIsChecked ==
  ASSUME StoreInv, NEW b \in Batch, batchOwned[b] \in Authorized
  PROVE  b \subseteq Checked
  BY BatchFacts DEF StoreInv, CleanupGate, Checked

LEMMA CandidateIsFree ==
  ASSUME StoreInv, NEW f \in DownloadCandidates(task)
  PROVE  f \in File /\ localOwned[f] \notin Authorized /\ status[f] \in OnBaidu
  <1>1. f \in File /\ status[f] \in OnBaidu
    BY DEF DownloadCandidates, FilesIn, FilesOf, OnBaidu
  <1>2. ASSUME localOwned[f] \in Authorized PROVE FALSE
    <2>1. PICK b \in Batch : f \in b /\ batchOwned[b] \in Authorized
      BY <1>1, <1>2 DEF StoreInv, LocalGate
    <2>2. QED
      BY <1>1, <2>1, NothingClaimed
  <1>3. QED
    BY <1>1, <1>2

(* A batch that was planned is the only one its files are in.              *)
LEMMA BatchOfCopy ==
  ASSUME StoreInv, StagingOK, NEW b \in Batch, batchStatus[b] # Absent, b \notin dirs
  PROVE  b \cap copies = {}
  BY DEF StoreInv, BatchesPartition, StagingOK

----------------------------------------------------------------------------
(* How the parts of the invariant survive.                                 *)
LEMMA RowsTame ==
  ASSUME RowsOK, Tame \/ UNCHANGED vars
  PROVE  RowsOK' /\ UNCHANGED <<Checked, Moved>>
  <1>1. Tame
    BY DEF Tame, vars, fileVars, ownedVars
  <1>2. RowsOK'
    BY <1>1, BatchFacts DEF RowsOK, Tame
  <1>3. Checked' = Checked
    BY <1>1 DEF Checked, Tame
  <1>4. Moved' = Moved
    BY <1>1 DEF Moved, Tame, CleanedBatch
  <1>5. QED
    BY <1>2, <1>3, <1>4

LEMMA StagingKept ==
  ASSUME StoreInv, StoreInv', [Next]_vars, StagingOK,
         UNCHANGED <<dirs, copies>>, roots \subseteq roots'
  PROVE  StagingOK'
  BY RowsStay DEF StagingOK

LEMMA CacheTame ==
  ASSUME CacheOK, UNCHANGED <<part, bin>>, Tame \/ UNCHANGED vars
  PROVE  CacheOK' /\ OnDisk' = OnDisk
  BY DEF CacheOK, OnDisk, Tame, vars, ownedVars

(* Custody is given up only for files that Drive holds, so that a late     *)
(* upload is still one of a file in custody or on Drive.                   *)
LEMMA LateKept ==
  ASSUME StoreInv, EvidenceIsReal, LateOK, late' = late,
         \A f \in File : objects[f] \subseteq objects'[f],
         Held \ Held' \subseteq Checked
  PROVE  LateOK'
  BY CheckedIsPlaced DEF LateOK, Placed

(* The steps of the abstract specification.                                *)
PromiseStep ==
  \/ UNCHANGED <<Held, Placed, Checked, Moved>>
  \/ \E S \in SUBSET File :
       \/ Held' = Held \cup S /\ UNCHANGED <<Placed, Checked, Moved>>
       \/ Held' = Held \ S /\ S \subseteq Checked /\ UNCHANGED <<Placed, Checked, Moved>>
       \/ Checked' = Checked \ S /\ S \subseteq Held \ Moved /\ UNCHANGED <<Held, Placed, Moved>>
       \/ Moved' = Moved \cup S /\ S \subseteq Checked \ Held /\ UNCHANGED <<Held, Placed, Checked>>
  \/ \E f \in File :
       \/ f \in Held /\ Placed' = Placed \cup {f} /\ UNCHANGED <<Held, Checked, Moved>>
       \/ f \in Placed \cap Held /\ Checked' = Checked \cup {f} /\ UNCHANGED <<Held, Placed, Moved>>

LEMMA PromiseStepIsNext ==
  PromiseStep => [Promise!DeliveryNext]_(Promise!dvars)
  <1> USE DEF Held, Placed, Checked, Moved
  <1>1. UNCHANGED <<Held, Placed, Checked, Moved>> => UNCHANGED Promise!dvars
    BY DEF Promise!dvars
  <1>2. ASSUME NEW S \in SUBSET File,
               \/ Held' = Held \cup S /\ UNCHANGED <<Placed, Checked, Moved>>
               \/ Held' = Held \ S /\ S \subseteq Checked /\ UNCHANGED <<Placed, Checked, Moved>>
               \/ Checked' = Checked \ S /\ S \subseteq Held \ Moved /\ UNCHANGED <<Held, Placed, Moved>>
               \/ Moved' = Moved \cup S /\ S \subseteq Checked \ Held /\ UNCHANGED <<Held, Placed, Checked>>
        PROVE  Promise!DeliveryNext
    <2>1. Promise!Take(S) \/ Promise!Release(S) \/ Promise!Abandon(S) \/ Promise!Finish(S)
      BY <1>2 DEF Promise!Take, Promise!Release, Promise!Abandon, Promise!Finish
    <2>2. QED
      BY <2>1 DEF Promise!DeliveryNext
  <1>3. ASSUME NEW f \in File,
               \/ f \in Held /\ Placed' = Placed \cup {f} /\ UNCHANGED <<Held, Checked, Moved>>
               \/ /\ f \in Placed \cap Held /\ Checked' = Checked \cup {f}
                  /\ UNCHANGED <<Held, Placed, Moved>>
        PROVE  Promise!DeliveryNext
    <2>1. Promise!Deliver(f) \/ Promise!Confirm(f)
      BY <1>3 DEF Promise!Deliver, Promise!Confirm
    <2>2. QED
      BY <2>1 DEF Promise!DeliveryNext
  <1>4. QED
    BY <1>1, <1>2, <1>3 DEF PromiseStep

----------------------------------------------------------------------------
(* The steps that move no bytes and verify nothing.                        *)
Before == StoreInv /\ MoverInv /\ Custody /\ Hand
After  == StoreInv' /\ MoverInv' /\ [Next]_vars

Still == UNCHANGED <<dirs, copies, part, bin, objects, late>> /\ roots \subseteq roots'

LEMMA CalmStep ==
  ASSUME Before, After, Tame \/ UNCHANGED vars, Still
  PROVE  Custody' /\ PromiseStep
  <1>1. RowsOK' /\ UNCHANGED <<Checked, Moved>>
    BY RowsTame DEF Before, Custody
  <1>2. StagingOK'
    BY StagingKept DEF Before, After, Custody, Still
  <1>3. CacheOK' /\ OnDisk' = OnDisk
    BY CacheTame DEF Before, Custody, Still
  <1>4. UNCHANGED <<Held, Placed>>
    BY <1>3 DEF Held, Placed, Still
  <1>5. LateOK'
    BY <1>4, LateKept DEF Before, MoverInv, Custody, Still
  <1>6. QED
    BY <1>1, <1>2, <1>3, <1>4, <1>5 DEF Custody, PromiseStep

LEMMA StillWorld == UNCHANGED world => Still
  BY DEF Still, world, baidu, local, drive

LEMMA ScanAndPass ==
  ASSUME StoreInv, MoverInv, Scan \/ BeginPass \/ EndPass \/ Stop
  PROVE  (Tame \/ UNCHANGED vars) /\ Still
  <1>1. task \in Task /\ TypeOK
    BY DEF Scan, BeginPass, EndPass, Stop, Tx, CallFails, Branch, Goto, Finish,
           MoverInv, InHand, StoreInv
  <1>2. CASE Scan
    BY <1>1, <1>2, TameTask, StillWorld DEF Scan, Tx, Branch, CallFails
  <1>3. CASE BeginPass \/ EndPass \/ Stop
    BY <1>1, <1>3, TameTask, StillWorld DEF BeginPass, EndPass, Finish, Stop, Branch, Exit
  <1>4. QED
    BY <1>2, <1>3

LEMMA DriveCalls ==
  ASSUME StoreInv, MoverInv, Ensure \/ Drive \/ Reconcile
  PROVE  (Tame \/ UNCHANGED vars) /\ Still
  <1>1. task \in Task /\ TypeOK
    BY DEF Ensure, Drive, Reconcile, MakeRoot, MakeDirectory, Tx, CallFails, Branch, Goto,
           MoverInv, InHand, StoreInv
  <1>2. CASE Ensure
    <2>1. Tame \/ UNCHANGED vars
      BY <1>1, <1>2, TameTask DEF Ensure, Tx, Branch, CallFails, MakeRoot, MakeDirectory
    <2>2. Still
      BY <1>2, StillWorld DEF Ensure, Tx, Branch, CallFails, MakeRoot, MakeDirectory, Still,
                              baidu, local
    <2>3. QED
      BY <2>1, <2>2
  <1>3. CASE Drive \/ Reconcile
    BY <1>1, <1>3, TameTask, TameFile, StillWorld DEF Drive, Reconcile, Tx, Branch
  <1>4. QED
    BY <1>2, <1>3

LEMMA DownloadAndPlan ==
  ASSUME StoreInv, MoverInv, Download \/ StageRun
  PROVE  (Tame \/ UNCHANGED vars) /\ Still
  <1>1. task \in Task /\ TypeOK
    BY DEF Download, StageRun, Tx, Branch, Goto, MoverInv, InHand, StoreInv
  <1>2. CASE Download
    BY <1>1, <1>2, TameTask, TameFile, StillWorld DEF Download, Tx, Branch
  <1>3. CASE StageRun
    BY <1>1, <1>3, TameTask, TameBatch, StillWorld DEF StageRun, Tx, Branch
  <1>4. QED
    BY <1>2, <1>3

LEMMA LaunchAndCrash ==
  ASSUME StoreInv, MoverInv, Crash \/ \E t \in Task : StartNew(t) \/ Launch(t)
  PROVE  (Tame \/ UNCHANGED vars) /\ Still
  <1>1. TypeOK
    BY DEF StoreInv
  <1>2. CASE Crash
    BY <1>2, StillWorld DEF Crash
  <1>3. ASSUME NEW t \in Task, StartNew(t) \/ Launch(t)
        PROVE  (Tame \/ UNCHANGED vars) /\ Still
    BY <1>1, <1>3, TameTask, StillWorld DEF StartNew, Launch, ResumeScan, ResumePipeline
  <1>4. QED
    BY <1>2, <1>3

LEMMA QuietCustody ==
  ASSUME Before, After,
         \/ Scan \/ BeginPass \/ EndPass \/ Stop \/ Ensure \/ Drive \/ Reconcile
         \/ Download \/ StageRun \/ Crash \/ \E t \in Task : StartNew(t) \/ Launch(t)
  PROVE  Custody' /\ PromiseStep
  BY ScanAndPass, DriveCalls, DownloadAndPlan, LaunchAndCrash, CalmStep DEF Before

----------------------------------------------------------------------------
(* The cleanup.  The permission is given for files that are verified.      *)
LEMMA AuthorizeCustody ==
  ASSUME Before, After, NEW b, AuthorizeBatchCleanup(task, b), UNCHANGED world
  PROVE  Custody' /\ PromiseStep
  <1>0. TypeOK /\ b \in Batch /\ DOMAIN batchOwned = Batch /\ Still
    BY StillWorld DEF Before, StoreInv, TypeOK, AuthorizeBatchCleanup, MayAuthorizeBatchCleanup,
                      BatchesOf
  <1>1. /\ \A f \in b : /\ status[f] \in {"DRIVE_VERIFIED", "CLEANUP_PENDING"}
                        /\ f \in File /\ status'[f] = "CLEANUP_PENDING"
                        /\ localOwned'[f] = Allow(localOwned[f])
        /\ \A f \in File \ b : status'[f] = status[f] /\ localOwned'[f] = localOwned[f]
        /\ \A c \in Batch : batchOwned'[c] \in {batchOwned[c], Allow(batchOwned[c])}
    BY <1>0, BatchFacts DEF AuthorizeBatchCleanup, MayAuthorizeBatchCleanup
  <1>2. \A row : /\ Allow(row) \in Authorized
                 /\ Allow(row) = "CLEANED" <=> row = "CLEANED"
    BY DEF Allow, Authorized
  <1>3. Checked' = Checked
    BY <1>1, <1>2 DEF Checked, Verified
  <1>4. Moved' = Moved
    BY <1>1, <1>2 DEF Moved, CleanedBatch
  <1>5. RowsOK'
    BY <1>1, <1>2, BatchFacts DEF Before, Custody, RowsOK
  <1>6. \A f \in b : part[f] = "none"
    BY <1>1 DEF Before, Custody, RowsOK, CacheOK, MoverInv, EvidenceIsReal
  <1>7. CacheOK'
    BY <1>0, <1>1, <1>2, <1>6 DEF Before, Custody, CacheOK, Still
  <1>8. UNCHANGED <<Held, Placed>>
    BY <1>0 DEF Held, Placed, OnDisk, Still
  <1>9. StagingOK' /\ LateOK'
    BY <1>0, <1>8, StagingKept, LateKept DEF Before, After, Custody, MoverInv, Still
  <1>10. QED
    BY <1>3, <1>4, <1>5, <1>7, <1>8, <1>9 DEF Custody, PromiseStep

LEMMA CleanupCustody ==
  ASSUME Before, After, Cleanup
  PROVE  Custody' /\ PromiseStep
  <1>1. task \in Task /\ TypeOK
    BY DEF Cleanup, Tx, Branch, Goto, Finish, Before, MoverInv, InHand, StoreInv
  <1>2. UNCHANGED world /\ ((\E b : AuthorizeBatchCleanup(task, b)) \/ Tame \/ UNCHANGED vars)
    BY <1>1, TameTask DEF Cleanup, Finish, Exit, Tx, Branch
  <1>3. QED
    BY <1>2, AuthorizeCustody, CalmStep, StillWorld

(* A local copy is deleted while its batch may be.                         *)
LEMMA CleanupLocalCustody ==
  ASSUME Before, After, CleanupLocal
  PROVE  Custody' /\ PromiseStep
  <1>1. task \in Task /\ TypeOK /\ batch \in Batch /\ batchOwned[batch] \in Authorized
    BY DEF CleanupLocal, Tx, Branch, Goto, Before, MoverInv, InHand, CleanupLines, StoreInv
  <1>2. ASSUME NEW f \in batch, bin' = bin \ {f}, UNCHANGED <<vars, baidu, part, drive>>
        PROVE  Custody' /\ PromiseStep
    <2>1. f \in File /\ localOwned[f] \in Authorized /\ part[f] = "none" /\ f \in Checked
      BY <1>1, BatchFacts, AuthorizedIsChecked
         DEF Before, StoreInv, CleanupGate, Custody, CacheOK
    <2>2. OnDisk' = OnDisk \ {f}
      BY <1>2, <2>1 DEF OnDisk
    <2>3. Held' = Held \ ({f} \ copies)
      BY <1>2, <2>2 DEF Held, baidu
    <2>4. RowsOK' /\ UNCHANGED <<Placed, Checked, Moved>>
      BY <1>2, RowsTame DEF Before, Custody, Placed, drive
    <2>5. StagingOK' /\ LateOK'
      BY <1>2, <2>1, <2>3, StagingKept, LateKept DEF Before, After, Custody, MoverInv, baidu, drive
    <2>6. CacheOK'
      BY <1>2 DEF Before, Custody, CacheOK, vars, ownedVars
    <2>7. {f} \ copies \in SUBSET File /\ {f} \ copies \subseteq Checked
      BY <2>1
    <2>8. QED
      BY <2>3, <2>4, <2>5, <2>6, <2>7 DEF Custody, PromiseStep
  <1>3. CASE pc = "cleanup.mark" /\ MarkLocalCacheCleanupDone(task, file) /\ UNCHANGED world
    <2>1. /\ file \in File /\ localOwned[file] \in Authorized /\ file \notin bin
          /\ part[file] = "none" /\ Still
      BY <1>3, StillWorld DEF MarkLocalCacheCleanupDone, MayMarkLocalCacheCleanupDone, FilesOf,
                              Before, Hand, Custody, CacheOK
    <2>2. /\ \A f \in File \ {file} : localOwned'[f] = localOwned[f]
          /\ localOwned'[file] = "CLEANED" /\ UNCHANGED <<status, batchOwned>>
      BY <1>1, <1>3, <2>1 DEF MarkLocalCacheCleanupDone, TypeOK, fileVars
    <2>3. Checked' = Checked
      BY <2>1, <2>2 DEF Checked, Authorized
    <2>4. Moved' = Moved
      BY <2>1, <2>2 DEF Moved, CleanedBatch, Before, Custody, RowsOK
    <2>5. RowsOK'
      BY <2>1, <2>2, BatchFacts DEF Before, Custody, RowsOK, Authorized
    <2>6. CacheOK'
      BY <2>1, <2>2 DEF Before, Custody, CacheOK, Still
    <2>7. UNCHANGED <<Held, Placed>>
      BY <2>1 DEF Held, Placed, OnDisk, Still
    <2>8. StagingOK' /\ LateOK'
      BY <2>1, <2>7, StagingKept, LateKept DEF Before, After, Custody, MoverInv, Still
    <2>9. QED
      BY <2>3, <2>4, <2>5, <2>6, <2>7, <2>8 DEF Custody, PromiseStep
  <1>4. CASE UNCHANGED <<vars, world>>
    BY <1>4, CalmStep, StillWorld
  <1>5. QED
    BY <1>2, <1>3, <1>4 DEF CleanupLocal, Tx, Branch, Goto

(* The directory of a batch is deleted while it may be, and recorded as    *)
(* deleted when nothing of the batch is left anywhere.                     *)
LEMMA CleanupDirectoryCustody ==
  ASSUME Before, After, CleanupDirectory
  PROVE  Custody' /\ PromiseStep
  <1>1. task \in Task /\ TypeOK
    BY DEF CleanupDirectory, DeleteDirectory, Tx, Branch, CallFails, Goto, Before, MoverInv,
           InHand, StoreInv
  <1>2. ASSUME NEW to, DeleteDirectory(to)
        PROVE  Custody' /\ PromiseStep
    <2>1. /\ batch \in Batch /\ batchOwned[batch] \in Authorized
          /\ dirs' = dirs \ {batch} /\ copies' = copies \ batch
          /\ UNCHANGED <<vars, roots, local, drive>>
      BY <1>2 DEF DeleteDirectory, Before, MoverInv, InHand, CleanupLines
    <2>2. batch \subseteq Checked /\ batch \subseteq File
      BY <2>1, AuthorizedIsChecked, BatchFacts DEF Before
    <2>3. OnDisk' = OnDisk
      BY <2>1 DEF OnDisk, local
    <2>4. Held' = Held \ (batch \ OnDisk)
      BY <2>1, <2>3 DEF Held
    <2>5. RowsOK' /\ UNCHANGED <<Placed, Checked, Moved>>
      BY <2>1, RowsTame DEF Before, Custody, Placed, drive
    <2>6. CacheOK'
      BY <2>1, CacheTame DEF Before, Custody, local
    <2>7. LateOK'
      BY <2>1, <2>2, <2>4, LateKept DEF Before, Custody, MoverInv, drive
    <2>8. StagingOK'
      <3>1. dirs' \subseteq Batch /\ copies' \subseteq UNION dirs'
        BY <2>1 DEF Before, Custody, StagingOK
      <3>2. \A b \in dirs' : batchStatus'[b] # Absent /\ \A f \in b : FileTask[f] \in roots'
        BY <2>1 DEF Before, Custody, StagingOK, vars
      <3>3. QED
        BY <3>1, <3>2 DEF StagingOK
    <2>9. batch \ OnDisk \in SUBSET File /\ batch \ OnDisk \subseteq Checked
      BY <2>2
    <2>10. QED
      BY <2>4, <2>5, <2>6, <2>7, <2>8, <2>9 DEF Custody, PromiseStep
  <1>3. CASE pc = "cleanup.record" /\ MarkBaiduBatchCleanupDone(task, batch) /\ UNCHANGED world
    <2>1. /\ batch \in Batch /\ batchOwned[batch] \in Authorized /\ batch \subseteq File /\ Still
      BY <1>3, StillWorld, BatchFacts
         DEF MarkBaiduBatchCleanupDone, Before, MoverInv, InHand, CleanupLines
    <2>2. /\ \A b \in Batch \ {batch} : batchOwned'[b] = batchOwned[b]
          /\ batchOwned'[batch] = "CLEANED" /\ UNCHANGED <<status, localOwned>>
      BY <1>1, <1>3, <2>1 DEF MarkBaiduBatchCleanupDone, TypeOK, fileVars
    <2>3. \A f \in batch : localOwned[f] = "CLEANED" /\ f \notin copies
      BY <1>3 DEF Before, Hand
    <2>4. batch \cap Held = {}
      BY <2>1, <2>3 DEF Held, OnDisk, Before, Custody, CacheOK, Authorized
    <2>5. batch \subseteq Checked
      BY <2>1, AuthorizedIsChecked DEF Before
    <2>6. Checked' = Checked
      BY <2>2 DEF Checked
    <2>7. Moved' = Moved \cup batch
      BY <2>1, <2>2, <2>3 DEF Moved, CleanedBatch
    <2>8. RowsOK'
      BY <2>1, <2>2, <2>3 DEF Before, Custody, RowsOK
    <2>9. CacheOK'
      BY <2>1, <2>2 DEF Before, Custody, CacheOK, Still
    <2>10. UNCHANGED <<Held, Placed>>
      BY <2>1 DEF Held, Placed, OnDisk, Still
    <2>11. StagingOK' /\ LateOK'
      BY <2>1, <2>10, StagingKept, LateKept DEF Before, After, Custody, MoverInv, Still
    <2>12. batch \in SUBSET File /\ batch \subseteq Checked \ Held
      BY <2>1, <2>4, <2>5
    <2>13. QED
      BY <2>6, <2>7, <2>8, <2>9, <2>10, <2>11, <2>12 DEF Custody, PromiseStep
  <1>4. CASE UNCHANGED world /\ (UNCHANGED vars \/ CompleteBatchCleanup(task, batch))
    BY <1>1, <1>4, TameBatch, CalmStep, StillWorld
  <1>5. QED
    BY <1>2, <1>3, <1>4 DEF CleanupDirectory, Tx, Branch, CallFails, Goto

(* The root of a task is deleted when it is empty.                         *)
LEMMA CleanupRootCustody ==
  ASSUME Before, After, CleanupRoot
  PROVE  Custody' /\ PromiseStep
  <1>1. task \in Task /\ TypeOK
    BY DEF CleanupRoot, DeleteRoot, Tx, Branch, CallFails, Goto, Before, MoverInv, InHand,
           StoreInv
  <1>2. ASSUME NEW to, DeleteRoot(to)
        PROVE  Custody' /\ PromiseStep
    <2>1. /\ roots' = roots \ {task} /\ DirectoriesOf(task) = {}
          /\ UNCHANGED <<vars, dirs, copies, local, drive>>
      BY <1>2 DEF DeleteRoot, Before, Hand
    <2>2. RowsOK' /\ UNCHANGED <<Placed, Checked, Moved>>
      BY <2>1, RowsTame DEF Before, Custody, Placed, drive
    <2>3. CacheOK' /\ OnDisk' = OnDisk
      BY <2>1, CacheTame DEF Before, Custody, local
    <2>4. Held' = Held
      BY <2>1, <2>3 DEF Held
    <2>5. LateOK'
      BY <2>1, <2>4, LateKept DEF Before, Custody, MoverInv, drive
    <2>6. ASSUME NEW b \in dirs, NEW f \in b PROVE FileTask[f] # task
      <3>1. b \in Batch /\ batchStatus[b] # Absent
        BY DEF Before, Custody, StagingOK
      <3>2. \A g \in b : FileTask[g] = FileTask[f]
        BY <3>1 DEF Before, StoreInv, RowsConsistent
      <3>3. QED
        BY <2>1, <3>2 DEF DirectoriesOf
    <2>7. StagingOK'
      BY <2>1, <2>6 DEF Before, Custody, StagingOK, vars
    <2>8. QED
      BY <2>2, <2>3, <2>4, <2>5, <2>7 DEF Custody, PromiseStep
  <1>3. CASE UNCHANGED world /\ (UNCHANGED vars \/ Tame)
    BY <1>3, CalmStep, StillWorld
  <1>4. \/ UNCHANGED world /\ (UNCHANGED vars \/ Tame)
        \/ \E to : DeleteRoot(to)
    BY <1>1, TameTask DEF CleanupRoot, Tx, Branch, CallFails
  <1>5. QED
    BY <1>2, <1>3, <1>4

----------------------------------------------------------------------------
(* The uploads.  Verification records what Drive was seen to hold while    *)
(* the local copy is still there.                                          *)
LEMMA VerifyCustody ==
  ASSUME Before, After, Verify
  PROVE  Custody' /\ PromiseStep
  <1>1. task \in Task /\ TypeOK
    BY DEF Verify, Tx, CallFails, Goto, Before, MoverInv, InHand, StoreInv
  <1>2. CASE Evidence(file) /\ MarkDriveVerified(task, file, driveId[file]) /\ UNCHANGED world
    <2>1. file \in File /\ driveId[file] # NoId /\ file \in bin /\ Still
      BY <1>2, StillWorld
         DEF MarkDriveVerified, MayMarkDriveVerified, FilesIn, FilesOf, Evidence, Before, StoreInv,
             UploadEvidence, Verified
    <2>2. file \in Placed \cap Held
      BY <1>2, <2>1 DEF Placed, Held, OnDisk, Evidence
    <2>3. /\ \A f \in File \ {file} : status'[f] = status[f]
          /\ status'[file] = "DRIVE_VERIFIED" /\ UNCHANGED ownedVars
      BY <1>1, <1>2, <2>1 DEF MarkDriveVerified, TypeOK
    <2>4. Checked' = Checked \cup {file}
      BY <2>1, <2>3 DEF Checked, Verified, ownedVars
    <2>5. Moved' = Moved
      BY <2>3 DEF Moved, CleanedBatch, ownedVars
    <2>6. RowsOK'
      BY <2>3 DEF Before, Custody, RowsOK, ownedVars
    <2>7. CacheOK'
      BY <2>1, <2>3 DEF Before, Custody, CacheOK, Still, ownedVars
    <2>8. UNCHANGED <<Held, Placed>>
      BY <2>1 DEF Held, Placed, OnDisk, Still
    <2>9. StagingOK' /\ LateOK'
      BY <2>1, <2>8, StagingKept, LateKept DEF Before, After, Custody, MoverInv, Still
    <2>10. QED
      BY <2>1, <2>2, <2>4, <2>5, <2>6, <2>7, <2>8, <2>9 DEF Custody, PromiseStep
  <1>3. CASE UNCHANGED world /\ (UNCHANGED vars \/ Tame)
    BY <1>3, CalmStep, StillWorld
  <1>4. QED
    BY <1>1, <1>2, <1>3, TameFile DEF Verify, Tx, CallFails

(* An object appears on Drive only for a file in custody, or beside one    *)
(* that is there already.                                                  *)
LEMMA CommitPlaces ==
  ASSUME DriveTypeOK, NEW f \in File, Commit(f)
  PROVE  /\ Placed' = Placed \cup {f}
         /\ \A g \in File : objects[g] \subseteq objects'[g]
  <1>1. \A g \in File \ {f} : objects'[g] = objects[g]
    BY DEF DriveTypeOK, Commit
  <1>2. objects'[f] = objects[f] \cup {NewId}
    BY DEF DriveTypeOK, Commit
  <1>3. QED
    BY <1>1, <1>2 DEF Placed

LEMMA PlaceStep ==
  ASSUME Before, After, NEW f \in File, f \in Held \/ f \in Placed,
         UNCHANGED <<vars, baidu, local>>,
         \/ Commit(f) /\ late' \subseteq late
         \/ UNCHANGED objects /\ late' \subseteq late \cup {f}
  PROVE  Custody' /\ PromiseStep
  <1>1. RowsOK' /\ UNCHANGED <<Checked, Moved>>
    BY RowsTame DEF Before, Custody
  <1>2. CacheOK' /\ OnDisk' = OnDisk
    BY CacheTame DEF Before, Custody, local
  <1>3. Held' = Held
    BY <1>2 DEF Held, baidu
  <1>4. StagingOK'
    BY StagingKept DEF Before, After, Custody, baidu
  <1>5. CASE Commit(f) /\ late' \subseteq late
    <2>1. Placed' = Placed \cup {f}
      BY <1>5, CommitPlaces DEF Before, MoverInv
    <2>2. LateOK'
      BY <1>3, <1>5, <2>1 DEF LateOK, Before, Custody, Placed
    <2>3. QED
      BY <1>1, <1>2, <1>3, <1>4, <2>1, <2>2 DEF Custody, PromiseStep
  <1>6. CASE UNCHANGED objects /\ late' \subseteq late \cup {f}
    <2>1. Placed' = Placed
      BY <1>6 DEF Placed
    <2>2. LateOK'
      BY <1>3, <1>6 DEF LateOK, Before, Custody, Placed
    <2>3. QED
      BY <1>1, <1>2, <1>3, <1>4, <2>1, <2>2 DEF Custody, PromiseStep
  <1>7. QED
    BY <1>5, <1>6

LEMMA UploadCustody ==
  ASSUME Before, After, CopyTo \/ LateCommit
  PROVE  Custody' /\ PromiseStep
  <1>1. CASE CopyTo
    <2>1. file \in File /\ file \in Held
      BY <1>1 DEF CopyTo, Goto, Before, Hand, Custody, CacheOK, Held, OnDisk
    <2>2. QED
      BY <1>1, <2>1, PlaceStep DEF CopyTo
  <1>2. CASE LateCommit
    <2>1. PICK f \in late : /\ Commit(f) /\ late' = late \ {f}
                            /\ UNCHANGED <<vars, baidu, local>>
      BY <1>2 DEF LateCommit
    <2>2. f \in File /\ (f \in Held \/ f \in Placed)
      BY DEF Before, Custody, LateOK, Placed
    <2>3. QED
      BY <2>1, <2>2, PlaceStep
  <1>3. QED
    BY <1>1, <1>2

----------------------------------------------------------------------------
(* The downloads.  Everything that is written to the cache, or thrown away *)
(* there, still has its copy on Baidu.                                     *)
LEMMA CachePlain ==
  ASSUME Before, After, NEW f \in File,
         f \in copies, localOwned[f] \notin Authorized,
         UNCHANGED <<baidu, drive>>, Tame \/ UNCHANGED vars,
         \A g \in File \ {f} : (g \in bin' <=> g \in bin) /\ part'[g] = part[g],
         part' \in [File -> {"none", "some", "all"}], bin' \subseteq File,
         f \in bin' => part'[f] = "none"
  PROVE  Custody' /\ PromiseStep
  <1>1. RowsOK' /\ UNCHANGED <<Checked, Moved>>
    BY RowsTame DEF Before, Custody
  <1>2. \A g \in File : /\ localOwned'[g] \in Authorized <=> localOwned[g] \in Authorized
                        /\ localOwned'[g] = "CLEANED" <=> localOwned[g] = "CLEANED"
    BY DEF Tame, vars, ownedVars
  <1>3. CacheOK'
    BY <1>2 DEF Before, Custody, CacheOK, Authorized
  <1>4. Held' = Held
    BY DEF Held, OnDisk, baidu
  <1>5. Placed' = Placed
    BY DEF Placed, drive
  <1>6. StagingOK' /\ LateOK'
    BY <1>4, StagingKept, LateKept DEF Before, After, Custody, MoverInv, baidu, drive
  <1>7. QED
    BY <1>1, <1>3, <1>4, <1>5, <1>6 DEF Custody, PromiseStep

LEMMA CacheCustody ==
  ASSUME Before, After, Fetch \/ LocalReady \/ CacheFails
  PROVE  Custody' /\ PromiseStep
  <1>1. task \in Task /\ TypeOK
    BY DEF Fetch, LocalReady, CacheFails, Tx, Goto, Before, MoverInv, InHand, StoreInv
  <1>2. file \in File /\ file \in copies /\ localOwned[file] \notin Authorized
    <2>1. file \in DownloadCandidates(task)
      BY DEF Fetch, LocalReady, CacheFails, Tx, Goto, Before, MoverInv, InHand, DownloadLines
    <2>2. QED
      BY <2>1, CandidateIsFree DEF Before, MoverInv, EvidenceIsReal, OnBaidu
  <1>3. part \in [File -> {"none", "some", "all"}] /\ bin \subseteq File
    BY DEF Before, Custody, CacheOK
  <1>4. CASE Fetch
    <2>1. file \notin bin
      BY <1>4 DEF Fetch, Goto, Before, Hand
    <2>2. \E s \in {"none", "some", "all"} : SetPart(file, s)
      BY <1>4 DEF Fetch
    <2>3. bin' = bin /\ UNCHANGED <<baidu, drive>>
      BY <1>4 DEF Fetch
    <2>4. UNCHANGED vars \/ \E permanent : RecordDownloadFailure(task, file, permanent)
      BY <1>4 DEF Fetch
    <2>5. Tame \/ UNCHANGED vars
      BY <1>1, <2>4, TameFile
    <2>6. /\ part' \in [File -> {"none", "some", "all"}]
          /\ \A g \in File \ {file} : part'[g] = part[g]
      BY <1>2, <1>3, <2>2 DEF SetPart
    <2>7. QED
      BY <1>2, <1>3, <2>1, <2>3, <2>5, <2>6, CachePlain
  <1>5. CASE LocalReady
    <2>1. CASE bin' = bin \cup {file} /\ SetPart(file, "none") /\ UNCHANGED <<vars, baidu, drive>>
      <3>1. /\ part' \in [File -> {"none", "some", "all"}] /\ part'[file] = "none"
            /\ \A g \in File \ {file} : part'[g] = part[g]
        BY <1>2, <1>3, <2>1 DEF SetPart
      <3>2. /\ bin' \subseteq File
            /\ \A g \in File \ {file} : g \in bin' <=> g \in bin
        BY <1>2, <1>3, <2>1
      <3>3. QED
        BY <1>2, <2>1, <3>1, <3>2, CachePlain
    <2>2. CASE MarkLocalReady(task, file) /\ UNCHANGED world
      BY <1>1, <2>2, TameFile, CalmStep, StillWorld
    <2>3. QED
      BY <1>5, <2>1, <2>2 DEF LocalReady, Tx
  <1>6. CASE CacheFails
    <2>1. CASE bin' = bin \ {file} /\ file \in bin /\ UNCHANGED <<vars, baidu, part, drive>>
      <3>1. /\ bin' \subseteq File /\ file \notin bin' /\ part' = part
            /\ \A g \in File \ {file} : g \in bin' <=> g \in bin
        BY <1>2, <1>3, <2>1
      <3>2. QED
        BY <1>2, <1>3, <2>1, <3>1, CachePlain
    <2>2. CASE RecordDownloadFailure(task, file, FALSE) /\ UNCHANGED world
      BY <1>1, <2>2, TameFile, CalmStep, StillWorld
    <2>3. QED
      BY <1>6, <2>1, <2>2 DEF CacheFails
  <1>7. QED
    BY <1>4, <1>5, <1>6

----------------------------------------------------------------------------
(* The staging.  Copies are made in the directory of their batch.          *)
LEMMA StagingGrows ==
  ASSUME Before, After, batch \in Batch,
         UNCHANGED <<vars, local, drive>>, roots \subseteq roots', StagingOK',
         \E S \in SUBSET batch : copies' = copies \cup S
  PROVE  Custody' /\ PromiseStep
  <1>1. PICK S \in SUBSET File : copies' = copies \cup S
    BY BatchFacts
  <1>2. RowsOK' /\ UNCHANGED <<Placed, Checked, Moved>>
    BY RowsTame DEF Before, Custody, Placed, drive
  <1>3. CacheOK' /\ OnDisk' = OnDisk
    BY CacheTame DEF Before, Custody, local
  <1>4. Held' = Held \cup S
    BY <1>1, <1>3 DEF Held
  <1>5. LateOK'
    BY <1>4, LateKept DEF Before, Custody, MoverInv, drive
  <1>6. QED
    BY <1>2, <1>3, <1>4, <1>5 DEF Custody, PromiseStep

LEMMA MakeStagingCustody ==
  ASSUME Before, After, NEW to, NEW made \in {{}, {batch}}, MakeStaging(to, made)
  PROVE  Custody' /\ PromiseStep
  <1>1. /\ batch \in BatchesOf(task)
        /\ roots' = roots \cup {task} /\ dirs' = dirs \cup made /\ copies' = copies
        /\ UNCHANGED <<vars, local, drive>>
    BY DEF MakeStaging, Before, Hand
  <1>2. /\ batch \in Batch /\ batchStatus[batch] # Absent
        /\ \A f \in batch : FileTask[f] = task
    BY <1>1, BatchFacts DEF BatchesOf, FilesOf
  <1>3. StagingOK'
    <2>1. dirs' \subseteq Batch /\ copies' \subseteq UNION dirs'
      BY <1>1, <1>2 DEF Before, Custody, StagingOK
    <2>2. \A b \in dirs' : b \in dirs \/ b = batch
      BY <1>1
    <2>3. \A b \in dirs' : batchStatus'[b] # Absent /\ \A f \in b : FileTask[f] \in roots'
      BY <1>1, <1>2, <2>2 DEF Before, Custody, StagingOK, vars
    <2>4. QED
      BY <2>1, <2>3 DEF StagingOK
  <1>4. copies' = copies \cup {} /\ {} \in SUBSET batch
    BY <1>1
  <1>5. QED
    BY <1>1, <1>2, <1>3, <1>4, StagingGrows

LEMMA TransferCustody ==
  ASSUME Before, After, NEW to, NEW S \in SUBSET Missing, Transfer(to, S)
  PROVE  Custody' /\ PromiseStep
  <1>1. /\ batch \in dirs /\ copies' = copies \cup S
        /\ UNCHANGED <<vars, roots, dirs, local, drive>>
    BY DEF Transfer, Before, Hand
  <1>2. batch \in Batch /\ S \in SUBSET batch
    BY <1>1 DEF Before, Custody, StagingOK, Missing
  <1>3. StagingOK'
    BY <1>1, <1>2 DEF Before, Custody, StagingOK, vars
  <1>4. QED
    BY <1>1, <1>2, <1>3, StagingGrows

(* A batch that fails for good takes back the verification of its files;   *)
(* their local copies are still there.                                     *)
LEMMA FailBatchCustody ==
  ASSUME Before, After, FailBatch(task, batch, TRUE), UNCHANGED world
  PROVE  Custody' /\ PromiseStep
  <1> DEFINE S == {f \in File : status[f] \in Verified /\ status'[f] \notin Verified
                                /\ localOwned[f] \notin Authorized}
  <1>1. /\ \A f \in File : status'[f] \in {status[f], "FAILED_PERMANENT"}
        /\ UNCHANGED ownedVars /\ Still
    BY StillWorld DEF FailBatch, Before, StoreInv, TypeOK
  <1>2. Checked' = Checked \ S
    BY <1>1 DEF Checked, Verified, ownedVars
  <1>3. \A f \in S : status[f] = "DRIVE_VERIFIED"
    BY DEF Before, Custody, RowsOK, StoreInv, DoneEvidence, Verified, Authorized
  <1>4. S \subseteq Held
    BY <1>3 DEF Held, OnDisk, Before, MoverInv, EvidenceIsReal
  <1>5. S \cap Moved = {}
    BY DEF Moved, Authorized
  <1>6. Moved' = Moved
    BY <1>1 DEF Moved, CleanedBatch, ownedVars
  <1>7. RowsOK'
    BY <1>1 DEF Before, Custody, RowsOK, ownedVars
  <1>8. CacheOK'
    BY <1>1 DEF Before, Custody, CacheOK, Still, ownedVars
  <1>9. UNCHANGED <<Held, Placed>>
    BY <1>1 DEF Held, Placed, OnDisk, Still
  <1>10. StagingOK' /\ LateOK'
    BY <1>1, <1>9, StagingKept, LateKept DEF Before, After, Custody, MoverInv, Still
  <1>11. S \in SUBSET File
    OBVIOUS
  <1>12. QED
    BY <1>2, <1>4, <1>5, <1>6, <1>7, <1>8, <1>9, <1>10, <1>11 DEF Custody, PromiseStep

LEMMA StageBatchCustody ==
  ASSUME Before, After, StageBatch
  PROVE  Custody' /\ PromiseStep
  <1>1. task \in Task /\ TypeOK
    BY DEF StageBatch, MakeStaging, Confirm, Transfer, Tx, Branch, CallFails, Goto, Before,
           MoverInv, InHand, StoreInv
  <1>2. \/ UNCHANGED world /\ (Tame \/ UNCHANGED vars)
        \/ UNCHANGED world /\ FailBatch(task, batch, TRUE)
        \/ \E to : \E made \in {{}, {batch}} : MakeStaging(to, made)
        \/ \E to : \E S \in SUBSET Missing : Transfer(to, S)
    BY <1>1, TameBatch, TameTask DEF StageBatch, Confirm, Tx, Branch, CallFails
  <1>3. QED
    BY <1>2, FailBatchCustody, MakeStagingCustody, TransferCustody, CalmStep, StillWorld

----------------------------------------------------------------------------
(* What the process has in hand keeps its type.                            *)
Onward ==
  /\ pc # "idle" /\ pc' \in Line \ {"idle"} /\ task' = task
  /\ batch' \in Batch \cup {{}} /\ file' \in File \cup {Absent} /\ capped' \in BOOLEAN
  /\ NoFault \/ Fault
Home ==
  /\ pc' = "idle" /\ task' = Absent /\ batch' = {} /\ file' = Absent /\ capped' = FALSE
  /\ NoFault \/ Fault

LEMMA ContextMoves ==
  ASSUME ContextOK, Onward \/ Home
  PROVE  ContextOK'
  <1>1. faults' \in 0 .. MaxFaults
    BY MoverAssumption DEF ContextOK, Onward, Home, NoFault, Fault
  <1>2. CASE Onward
    BY <1>1, <1>2 DEF ContextOK, Onward
  <1>3. CASE Home
    <2>1. pc' \in Line
      BY <1>3 DEF Home, Line
    <2>2. QED
      BY <1>1, <1>3, <2>1 DEF ContextOK, Home
  <1>4. QED
    BY <1>2, <1>3

LEMMA PassContext ==
  ASSUME ContextOK, Scan \/ BeginPass \/ EndPass \/ Stop \/ Crash
  PROVE  Onward \/ Home
  BY DEF Scan, BeginPass, EndPass, Stop, Crash, Finish, Exit, Tx, Branch, CallFails, Goto,
         Onward, Home, ContextOK, Line, context, NoFault

LEMMA CleanupContext ==
  ASSUME ContextOK, Cleanup \/ CleanupLocal \/ CleanupDirectory \/ CleanupRoot
  PROVE  Onward \/ Home
  <1> USE DEF Finish, Exit, Tx, Branch, CallFails, Goto, Onward, Home, ContextOK, Line, context,
              NoFault
  <1>1. CASE Cleanup
    BY <1>1 DEF Cleanup, CleanupCandidates, BatchesOf
  <1>2. CASE CleanupLocal
    BY <1>2, BatchFacts DEF CleanupLocal
  <1>3. CASE CleanupDirectory
    BY <1>3 DEF CleanupDirectory, DeleteDirectory
  <1>4. CASE CleanupRoot
    BY <1>4 DEF CleanupRoot, DeleteRoot
  <1>5. QED
    BY <1>1, <1>2, <1>3, <1>4

LEMMA DriveContext ==
  ASSUME ContextOK, Ensure \/ Drive \/ CopyTo \/ Reconcile \/ Verify
  PROVE  Onward \/ Home
  <1> USE DEF Tx, Branch, CallFails, Goto, Onward, ContextOK, Line, context, NoFault
  <1>1. CASE Ensure
    BY <1>1 DEF Ensure, MakeRoot, MakeDirectory
  <1>2. CASE Drive
    BY <1>2 DEF Drive
  <1>3. CASE CopyTo
    BY <1>3 DEF CopyTo
  <1>4. CASE Reconcile
    BY <1>4 DEF Reconcile
  <1>5. CASE Verify
    BY <1>5 DEF Verify
  <1>6. QED
    BY <1>1, <1>2, <1>3, <1>4, <1>5

LEMMA DownloadContext ==
  ASSUME ContextOK, Download \/ Fetch \/ LocalReady \/ CacheFails
  PROVE  Onward \/ Home
  <1> USE DEF Tx, Branch, Goto, Onward, ContextOK, Line, context, NoFault
  <1>1. CASE Download
    BY <1>1 DEF Download
  <1>2. CASE Fetch
    BY <1>2 DEF Fetch
  <1>3. CASE LocalReady
    BY <1>3 DEF LocalReady
  <1>4. CASE CacheFails
    BY <1>4 DEF CacheFails
  <1>5. QED
    BY <1>1, <1>2, <1>3, <1>4

LEMMA StageContext ==
  ASSUME ContextOK, StageRun \/ StageBatch
  PROVE  Onward \/ Home
  <1> USE DEF Tx, Branch, CallFails, Goto, Onward, ContextOK, Line, context, NoFault
  <1>1. CASE StageRun
    BY <1>1 DEF StageRun
  <1>2. CASE StageBatch
    BY <1>2 DEF StageBatch, MakeStaging, Confirm, Transfer
  <1>3. QED
    BY <1>1, <1>2

LEMMA ContextStep ==
  ASSUME ContextOK, [MoverNext]_moverVars
  PROVE  ContextOK'
  <1>1. CASE Run \/ Crash
    BY <1>1, ContextMoves, PassContext, CleanupContext, DriveContext, DownloadContext,
       StageContext DEF Run
  <1>2. CASE LateCommit \/ UNCHANGED moverVars
    BY <1>2 DEF LateCommit, moverVars, context, ContextOK
  <1>3. ASSUME NEW t \in Task, StartNew(t) \/ Launch(t)
        PROVE  ContextOK'
    <2>1. /\ task' = t /\ t # Absent /\ pc' \in {"scan", "pass"}
          /\ UNCHANGED <<batch, file, capped, faults>>
      BY <1>3, MoverAssumption DEF StartNew, Launch, ResumeScan, ResumePipeline, Goto
    <2>2. pc' \in Line /\ pc' # "idle"
      BY <2>1 DEF Line
    <2>3. QED
      BY <2>1, <2>2 DEF ContextOK
  <1>4. QED
    BY <1>1, <1>2, <1>3 DEF MoverNext

----------------------------------------------------------------------------
(* What each line relies on is there when the line is reached.             *)
HandLines == {"cleanup.mark", "cleanup.dir", "cleanup.delete", "cleanup.record",
              "cleanup.rootdelete", "drive.copy", "drive.reconcile", "download.fetch",
              "stage.mkdir", "stage.list", "stage.transfer", "stage.broken"}

LEMMA OtherLines == pc' \notin HandLines => Hand'
  BY DEF HandLines, Hand

LEMMA QuietHand ==
  ASSUME \/ Scan \/ BeginPass \/ EndPass \/ Stop \/ Crash \/ Cleanup
         \/ Ensure \/ Verify \/ LocalReady \/ CacheFails
         \/ \E t \in Task : StartNew(t) \/ Launch(t)
  PROVE  Hand'
  <1> USE DEF HandLines, Tx, Branch, CallFails, Goto, Finish, Exit
  <1>1. CASE Scan \/ BeginPass \/ EndPass \/ Stop \/ Crash \/ Cleanup
    BY <1>1, OtherLines DEF Scan, BeginPass, EndPass, Stop, Crash, Cleanup
  <1>2. CASE Ensure \/ Verify \/ LocalReady \/ CacheFails
    BY <1>2, OtherLines DEF Ensure, MakeRoot, MakeDirectory, Verify, LocalReady, CacheFails
  <1>3. CASE \E t \in Task : StartNew(t) \/ Launch(t)
    BY <1>3, OtherLines DEF StartNew, Launch, ResumeScan, ResumePipeline
  <1>4. QED
    BY <1>1, <1>2, <1>3

(* A line that is left as it was keeps what it relies on.                  *)
LEMMA SameLine ==
  ASSUME Hand, UNCHANGED <<vars, pc, context, baidu, local>>
  PROVE  Hand'
  BY DEF Hand, vars, ownedVars, context, baidu, local, DirectoriesOf, BatchesOf

LEMMA CleanupLocalHand ==
  ASSUME Before, CleanupLocal
  PROVE  Hand'
  <1>1. CASE Goto("cleanup.local", "cleanup.mark") /\ file' \notin bin'
    BY <1>1 DEF Goto, Hand
  <1>2. CASE /\ Goto("cleanup.local", "cleanup.dir") /\ \A f \in batch : localOwned[f] = "CLEANED"
             /\ UNCHANGED <<vars, context>>
    BY <1>2 DEF Goto, Hand, vars, ownedVars, context
  <1>3. CASE Goto("cleanup.mark", "cleanup.local")
    BY <1>3, OtherLines DEF Goto, HandLines
  <1>4. QED
    BY <1>1, <1>2, <1>3 DEF CleanupLocal, Tx, Branch

LEMMA CleanupDirectoryHand ==
  ASSUME Before, CleanupDirectory
  PROVE  Hand'
  <1>1. ASSUME pc \in {"cleanup.dir", "cleanup.delete"}, UNCHANGED <<vars, context>>
        PROVE  \A f \in batch' : localOwned'[f] = "CLEANED"
    BY <1>1 DEF Before, Hand, vars, ownedVars, context
  <1>2. CASE Branch("cleanup.dir", "cleanup.record", batchOwned[batch] # "CLEANED" /\ batch \notin dirs)
    <2>1. batch \in Batch /\ batchStatus[batch] # Absent
      BY <1>2 DEF Branch, Goto, Before, MoverInv, InHand, CleanupLines, StoreInv, RowsConsistent,
                  Authorized, Absent
    <2>2. batch \cap copies = {}
      BY <1>2, <2>1, BatchOfCopy DEF Branch, Before, Custody
    <2>3. QED
      BY <1>1, <1>2, <2>2 DEF Branch, Goto, Hand, context, world, baidu
  <1>3. CASE Branch("cleanup.dir", "cleanup.delete", batchOwned[batch] # "CLEANED" /\ batch \in dirs)
    BY <1>1, <1>3 DEF Branch, Goto, Hand
  <1>4. CASE DeleteDirectory("cleanup.record")
    BY <1>1, <1>4 DEF DeleteDirectory, Hand, context
  <1>5. CASE pc' \in {"cleanup.complete", "cleanup.next", "stop"}
    BY <1>5, OtherLines DEF HandLines
  <1>6. QED
    BY <1>2, <1>3, <1>4, <1>5
       DEF CleanupDirectory, DeleteDirectory, Tx, Branch, CallFails, Goto

LEMMA CleanupRootHand ==
  ASSUME CleanupRoot
  PROVE  Hand'
  <1>1. CASE Branch("cleanup.root", "cleanup.rootdelete", task \in roots /\ DirectoriesOf(task) = {})
    BY <1>1 DEF Branch, Goto, Hand, DirectoriesOf, context, world, baidu
  <1>2. CASE pc' \in {"cleanup.rootrecord", "cleanup.next", "cleanup.rootend", "cleanup.end", "stop"}
    BY <1>2, OtherLines DEF HandLines
  <1>3. QED
    BY <1>1, <1>2 DEF CleanupRoot, DeleteRoot, Tx, Branch, CallFails, Goto

LEMMA DriveHand ==
  ASSUME Before, Drive \/ CopyTo \/ Reconcile
  PROVE  Hand'
  <1>1. CASE pc' \in {"drive.copy", "drive.reconcile"}
    <2>1. file \in bin /\ UNCHANGED <<file, bin>>
      BY <1>1 DEF Drive, CopyTo, Reconcile, Tx, Branch, Goto, Refused, Before, Hand, context,
                  world, local
    <2>2. QED
      BY <1>1, <2>1 DEF Hand
  <1>2. CASE pc' \notin {"drive.copy", "drive.reconcile"}
    BY <1>2, OtherLines DEF Drive, CopyTo, Reconcile, Tx, Branch, Goto, HandLines
  <1>3. QED
    BY <1>1, <1>2

LEMMA DownloadHand ==
  ASSUME Before, Download \/ Fetch
  PROVE  Hand'
  <1>1. CASE pc' = "download.fetch"
    <2>1. file \notin bin /\ UNCHANGED <<file, bin>>
      BY <1>1 DEF Download, Fetch, Tx, Branch, Goto, Before, Hand, context, world, local
    <2>2. QED
      BY <1>1, <2>1 DEF Hand
  <1>2. CASE pc' # "download.fetch"
    BY <1>2, OtherLines DEF Download, Fetch, Tx, Branch, Goto, HandLines
  <1>3. QED
    BY <1>1, <1>2

LEMMA StageHand ==
  ASSUME Before, After, StageRun \/ StageBatch
  PROVE  Hand'
  <1>1. CASE Tx("stage.start", "stage.mkdir", StartBatch(task, batch))
    <2>1. batch \in BatchesOf(task)'
      BY <1>1, RowsStay DEF Tx, StartBatch, MayStartBatch, Before, After, BatchesOf, context
    <2>2. UNCHANGED <<task, batch>>
      BY <1>1 DEF Tx, context
    <2>3. QED
      BY <1>1, <2>1, <2>2 DEF Tx, Goto, Hand, BatchesOf
  <1>2. CASE pc' \in {"stage.list", "stage.transfer", "stage.broken"} /\ StageBatch
    <2>1. batch \in dirs' /\ batch' = batch
      BY <1>2 DEF StageBatch, MakeStaging, Confirm, Transfer, Tx, Branch, CallFails, Goto,
                  Before, Hand, context, world, baidu
    <2>2. QED
      BY <1>2, <2>1 DEF Hand
  <1>3. CASE pc' \notin HandLines
    BY <1>3, OtherLines
  <1>4. CASE StageRun
    BY <1>1, <1>3, <1>4 DEF StageRun, Tx, Branch, Goto, HandLines
  <1>5. CASE StageBatch
    BY <1>2, <1>3, <1>5
       DEF StageBatch, MakeStaging, Confirm, Transfer, Tx, Branch, CallFails, Goto, HandLines
  <1>6. QED
    BY <1>4, <1>5

----------------------------------------------------------------------------
LEMMA DeliveryInvInit == MoverInit => DeliveryInv /\ Promise!DeliveryInit
  <1> SUFFICES ASSUME MoverInit PROVE DeliveryInv /\ Promise!DeliveryInit
    OBVIOUS
  <1>1. ContextOK
    <2>1. MaxFaults \in Nat
      BY MoverAssumption
    <2>2. pc = "idle" /\ pc \in Line
      BY DEF MoverInit, Line
    <2>3. task = Absent /\ batch = {} /\ file = Absent /\ capped = FALSE /\ faults = 0
      BY DEF MoverInit
    <2>4. faults \in 0 .. MaxFaults
      BY <2>1, <2>3
    <2>5. batch \in Batch \cup {{}}
      BY <2>3
    <2>6. capped \in BOOLEAN
      BY <2>3
    <2>7. task \in Task \cup {Absent} /\ file \in File \cup {Absent}
      BY <2>3
    <2>8. QED
      BY <2>2, <2>3, <2>4, <2>5, <2>6, <2>7 DEF ContextOK
  <1>2. Custody
    <2>1. /\ \A f \in File : status[f] = Absent /\ localOwned[f] = Absent
          /\ \A b \in Batch : batchOwned[b] = Absent
      BY DEF MoverInit, Init
    <2>2. RowsOK
      BY <2>1 DEF RowsOK, Absent
    <2>3. CacheOK
      BY <2>1 DEF MoverInit, CacheOK, Authorized, Absent
    <2>4. StagingOK /\ LateOK
      BY DEF MoverInit, StagingOK, LateOK
    <2>5. QED
      BY <2>2, <2>3, <2>4 DEF Custody
  <1>3. Hand
    BY DEF MoverInit, Hand
  <1>4. Promise!DeliveryInit
    BY DEF MoverInit, Init, Promise!DeliveryInit, OnDisk, CleanedBatch, Verified, Authorized,
           Absent
  <1>5. QED
    BY <1>1, <1>2, <1>3, <1>4, MoverInvInit DEF DeliveryInv

LEMMA DeliveryInvStep ==
  ASSUME DeliveryInv, [MoverNext]_moverVars
  PROVE  DeliveryInv' /\ PromiseStep
  <1>1. Before /\ After
    BY MoverInvStep DEF DeliveryInv, Before, After
  <1>2. ContextOK'
    BY ContextStep DEF DeliveryInv
  <1>3. CASE Run
    <2>1. Custody' /\ PromiseStep
      BY <1>1, <1>3, QuietCustody, CleanupCustody, CleanupLocalCustody,
         CleanupDirectoryCustody, CleanupRootCustody, VerifyCustody, UploadCustody,
         CacheCustody, StageBatchCustody DEF Run
    <2>2. Hand'
      BY <1>1, <1>3, QuietHand, CleanupLocalHand, CleanupDirectoryHand, CleanupRootHand,
         DriveHand, DownloadHand, StageHand DEF Run
    <2>3. QED
      BY <1>1, <1>2, <2>1, <2>2 DEF DeliveryInv, After
  <1>4. CASE Crash \/ \E t \in Task : StartNew(t) \/ Launch(t)
    BY <1>1, <1>2, <1>4, QuietCustody, QuietHand DEF DeliveryInv, After
  <1>5. CASE LateCommit
    <2>1. Hand'
      BY <1>1, <1>5, SameLine DEF LateCommit, Before
    <2>2. QED
      BY <1>1, <1>2, <1>5, <2>1, UploadCustody DEF DeliveryInv, After
  <1>6. CASE UNCHANGED moverVars
    <2>1. UNCHANGED <<vars, pc, context, baidu, local>> /\ Still
      BY <1>6, StillWorld DEF moverVars, world
    <2>2. Hand'
      BY <1>1, <2>1, SameLine DEF Before
    <2>3. Custody' /\ PromiseStep
      BY <1>1, <2>1, CalmStep
    <2>4. QED
      BY <1>1, <1>2, <2>2, <2>3 DEF DeliveryInv, After
  <1>7. QED
    BY <1>3, <1>4, <1>5, <1>6 DEF MoverNext

(* The inductive invariant of custody: what lies in the three places, what *)
(* is on its way to Drive and what the process has in hand fit the rows,   *)
(* at every line, crash and error (internal/app and its engines).          *)
THEOREM DeliveryInvariant == MoverSpec => []DeliveryInv
  <1>1. DeliveryInv /\ [MoverNext]_moverVars => DeliveryInv'
    BY DeliveryInvStep
  <1>2. QED
    BY DeliveryInvInit, <1>1, PTL DEF MoverSpec

(* The running program keeps its promise: bytes in the tool's custody, on  *)
(* Baidu or in the cache, are given up only for files whose Drive copy was *)
(* verified, a file is reported moved only when nothing of it is left, and *)
(* nothing is placed on Drive but what was in custody, also by an upload   *)
(* that commits after its error (docs/DESIGN_DECISIONS.md:205-211, D19).   *)
THEOREM PromiseIsKept == MoverSpec => KeepsPromise
  <1>1. MoverInit => Promise!DeliveryInit
    BY DeliveryInvInit
  <1>2. DeliveryInv /\ [MoverNext]_moverVars => [Promise!DeliveryNext]_(Promise!dvars)
    BY DeliveryInvStep, PromiseStepIsNext
  <1>3. QED
    BY DeliveryInvariant, <1>1, <1>2, PTL DEF MoverSpec, KeepsPromise, Promise!DeliverySpec

(* Everything the program keeps, in memory and in the three places, has    *)
(* its type: a staging directory is always below the root of its task and  *)
(* a copy in a directory, whatever was deleted or made in between.         *)
THEOREM MoverTypes == MoverSpec => []MoverTypeOK
  <1>1. DeliveryInv => MoverTypeOK
    BY DEF DeliveryInv, ContextOK, Custody, StagingOK, CacheOK, LateOK, MoverInv, DriveTypeOK,
           MoverTypeOK
  <1>2. QED
    BY DeliveryInvariant, <1>1, PTL

----------------------------------------------------------------------------
(* The cache watermark.  The files whose bytes are reserved, and what a    *)
(* step may not do outside the downloads: reserve for another file.        *)
ReservedFiles == {f \in File : status[f] \in Reserved}
Ebb == \A f \in File : status'[f] \in Reserved => status[f] \in Reserved

(* A step that gives no file up for good.                                  *)
Unfailing ==
  \A f \in File : status'[f] = "FAILED_PERMANENT" => status[f] = "FAILED_PERMANENT"
Mild == Ebb /\ Unfailing

LEMMA MildTask ==
  ASSUME TypeOK, NEW t \in Task
  PROVE  /\ CreateTask(t) => Mild
         /\ \A D, F : UpsertManifestPage(t, D, F) => Mild
         /\ CompleteTaskScan(t) => Mild
         /\ \A s : UpdateTaskStatus(t, s) => Mild
         /\ \A id : SetTaskDriveRoot(t, id) => Mild
         /\ \A d, id : RecordDirectoryDriveID(t, d, id) => Mild
         /\ AuthorizeTaskRootCleanup(t) => Mild
         /\ MarkBaiduTaskRootCleanupDone(t) => Mild
  <1> USE DEF Mild, Ebb, Unfailing, fileVars
  <1>1. CreateTask(t) => Mild
    BY DEF CreateTask
  <1>2. ASSUME NEW D, NEW F, UpsertManifestPage(t, D, F) PROVE Mild
    <2>1. \A f \in File : status'[f] \in {status[f], "DISCOVERED"}
      BY <1>2 DEF UpsertManifestPage
    <2>2. QED
      BY <2>1 DEF Reserved
  <1>3. CompleteTaskScan(t) => Mild
    BY DEF CompleteTaskScan
  <1>4. ASSUME NEW s, UpdateTaskStatus(t, s) PROVE Mild
    BY <1>4 DEF UpdateTaskStatus
  <1>5. ASSUME NEW id, SetTaskDriveRoot(t, id) PROVE Mild
    BY <1>5 DEF SetTaskDriveRoot
  <1>6. ASSUME NEW d, NEW id, RecordDirectoryDriveID(t, d, id) PROVE Mild
    BY <1>6 DEF RecordDirectoryDriveID
  <1>7. AuthorizeTaskRootCleanup(t) => Mild
    BY DEF AuthorizeTaskRootCleanup
  <1>8. MarkBaiduTaskRootCleanupDone(t) => Mild
    BY DEF MarkBaiduTaskRootCleanupDone
  <1> QED
    BY <1>1, <1>2, <1>3, <1>4, <1>5, <1>6, <1>7, <1>8

LEMMA MildBatch ==
  ASSUME TypeOK, NEW t \in Task
  PROVE  /\ \A maxBytes, P : PlanBatches(t, maxBytes, P) => Mild
         /\ \A b : StartBatch(t, b) => Mild
         /\ \A b, S : RecordStagedFiles(t, b, S) => Mild
         /\ \A b : CompleteBatch(t, b) => Mild
         /\ \A b : FailBatch(t, b, FALSE) => Mild
         /\ \A b : FailBatch(t, b, TRUE) => Ebb
         /\ \A b : AuthorizeBatchCleanup(t, b) => Mild
         /\ \A b : MarkBaiduBatchCleanupDone(t, b) => Mild
         /\ \A b : CompleteBatchCleanup(t, b) => Mild
  <1> USE DEF Mild, Ebb, Unfailing, Reserved, fileVars
  <1>1. ASSUME NEW maxBytes, NEW P, PlanBatches(t, maxBytes, P) PROVE Mild
    <2>1. \A f \in File : status'[f] \in {status[f], "PLANNED"}
      BY <1>1 DEF PlanBatches
    <2>2. QED
      BY <2>1
  <1>2. ASSUME NEW b, StartBatch(t, b) PROVE Mild
    <2>1. \A f \in File : status'[f] \in {status[f], "BAIDU_STAGING"}
      BY <1>2 DEF StartBatch
    <2>2. QED
      BY <2>1
  <1>3. ASSUME NEW b, NEW S, RecordStagedFiles(t, b, S) PROVE Mild
    <2>1. \A f \in File : status'[f] \in {status[f], "BAIDU_STAGED"}
      BY <1>3 DEF RecordStagedFiles
    <2>2. QED
      BY <2>1
  <1>4. ASSUME NEW b, CompleteBatch(t, b) PROVE Mild
    BY <1>4 DEF CompleteBatch
  <1>5. ASSUME NEW b, FailBatch(t, b, FALSE) PROVE Mild
    <2>1. \A f \in File : status'[f] = status[f]
      BY <1>5 DEF FailBatch
    <2>2. QED
      BY <2>1
  <1>6. ASSUME NEW b, FailBatch(t, b, TRUE) PROVE Ebb
    <2>1. \A f \in File : status'[f] \in {status[f], "FAILED_PERMANENT"}
      BY <1>6 DEF FailBatch
    <2>2. QED
      BY <2>1
  <1>7. ASSUME NEW b, AuthorizeBatchCleanup(t, b) PROVE Mild
    <2>1. \A f \in File : \/ status'[f] = status[f]
                          \/ /\ status[f] \in {"DRIVE_VERIFIED", "CLEANUP_PENDING"}
                             /\ status'[f] = "CLEANUP_PENDING"
      BY <1>7 DEF AuthorizeBatchCleanup, MayAuthorizeBatchCleanup
    <2>2. QED
      BY <2>1
  <1>8. ASSUME NEW b, MarkBaiduBatchCleanupDone(t, b) PROVE Mild
    BY <1>8 DEF MarkBaiduBatchCleanupDone
  <1>9. ASSUME NEW b, CompleteBatchCleanup(t, b) PROVE Mild
    <2>1. \A f \in File : status'[f] \in {status[f], "DONE"}
      BY <1>9 DEF CompleteBatchCleanup
    <2>2. QED
      BY <2>1
  <1> QED
    BY <1>1, <1>2, <1>3, <1>4, <1>5, <1>6, <1>7, <1>8, <1>9

LEMMA MildFile ==
  ASSUME TypeOK, NEW t \in Task
  PROVE  /\ \A f : StartDriveUpload(t, f) => Mild
         /\ \A f, id : RecordDriveUploaded(t, f, id) => Mild
         /\ \A f, id : MarkDriveVerified(t, f, id) => Mild
         /\ \A f, permanent : RecordDriveFailure(t, f, permanent) => Ebb
         /\ \A f : MarkLocalCacheCleanupDone(t, f) => Mild
  <1> USE DEF Mild, Ebb, Unfailing, Reserved, FilesIn, FilesOf, DriveUploadCandidates, fileVars
  <1>0. DOMAIN status = File
    BY DEF TypeOK
  <1>1. ASSUME NEW f, StartDriveUpload(t, f) PROVE Mild
    <2>1. \A g \in File : status'[g] = status[g] \/
             (status[g] \in {"LOCAL_READY", "DRIVE_UPLOADING"} /\ status'[g] = "DRIVE_UPLOADING")
      BY <1>0, <1>1 DEF StartDriveUpload, MayStartDriveUpload
    <2>2. QED
      BY <2>1
  <1>2. ASSUME NEW f, NEW id, RecordDriveUploaded(t, f, id) PROVE Mild
    <2>1. \A g \in File : status'[g] = status[g] \/
             /\ status[g] \in {"LOCAL_READY", "DRIVE_UPLOADING", "DRIVE_UPLOADED"}
             /\ status'[g] = "DRIVE_UPLOADED"
      BY <1>0, <1>2 DEF RecordDriveUploaded, MayRecordDriveUploaded
    <2>2. QED
      BY <2>1
  <1>3. ASSUME NEW f, NEW id, MarkDriveVerified(t, f, id) PROVE Mild
    <2>1. \A g \in File : status'[g] = status[g] \/
             (status[g] \in {"DRIVE_UPLOADED", "DRIVE_VERIFIED"} /\ status'[g] = "DRIVE_VERIFIED")
      BY <1>0, <1>3 DEF MarkDriveVerified, MayMarkDriveVerified
    <2>2. QED
      BY <2>1
  <1>4. ASSUME NEW f, NEW permanent, RecordDriveFailure(t, f, permanent) PROVE Ebb
    <2>1. \A g \in File : status'[g] \in {status[g], "FAILED_PERMANENT"}
      BY <1>0, <1>4 DEF RecordDriveFailure
    <2>2. QED
      BY <2>1
  <1>5. ASSUME NEW f, MarkLocalCacheCleanupDone(t, f) PROVE Mild
    BY <1>5 DEF MarkLocalCacheCleanupDone
  <1> QED
    BY <1>1, <1>2, <1>3, <1>4, <1>5

(* Where the process is when nothing of its task is in work; everywhere    *)
(* else no file of the task has failed for good: a run that records such a *)
(* failure stops, and the next one ends the task.                          *)
Rest == {"idle", "stop", "pass"}
Frozen == pc \notin Rest => ~HasFailed(task)

Hale ==
  \/ pc' \in Rest
  \/ pc \notin Rest /\ task' = task /\ (Unfailing \/ UNCHANGED vars)
  \/ pc = "pass" /\ UNCHANGED <<vars, task>> /\ ~HasFailed(task)

(* A step outside the downloads.                                           *)
Receding ==
  /\ Ebb \/ UNCHANGED vars
  /\ OnDisk' \subseteq OnDisk
  /\ pc' \notin DownloadLines
  /\ Hale

LEMMA SameDisk ==
  /\ UNCHANGED world => OnDisk' = OnDisk
  /\ UNCHANGED local => OnDisk' = OnDisk
  BY DEF OnDisk, world, local

LEMMA PassRecedes ==
  ASSUME StoreInv, MoverInv, Scan \/ BeginPass \/ EndPass \/ Stop \/ Crash
  PROVE  Receding
  <1>1. pc # "idle" /\ UNCHANGED world
    BY DEF Scan, BeginPass, EndPass, Stop, Crash, Tx, CallFails, Branch, Goto, Finish, Exit
  <1>2. task \in Task /\ TypeOK
    BY <1>1 DEF MoverInv, InHand, StoreInv
  <1>3. Mild \/ UNCHANGED vars
    BY <1>2, MildTask
       DEF Scan, BeginPass, EndPass, Stop, Crash, Tx, CallFails, Branch, Finish, Exit
  <1>4. pc' \notin DownloadLines
    BY DEF Scan, BeginPass, EndPass, Stop, Crash, Tx, CallFails, Branch, Goto, Finish, Exit,
           DownloadLines
  <1>5. Hale
    <2>1. CASE Scan
      BY <1>3, <2>1 DEF Scan, Tx, Branch, CallFails, Goto, Hale, Mild, Rest, context
    <2>2. CASE BeginPass
      BY <2>2 DEF BeginPass, Finish, Exit, Goto, Hale, Rest, Over
    <2>3. CASE EndPass \/ Stop \/ Crash
      BY <2>3 DEF EndPass, Stop, Crash, Finish, Exit, Branch, Goto, Hale, Rest
    <2> QED
      BY <2>1, <2>2, <2>3
  <1> QED
    BY <1>1, <1>3, <1>4, <1>5, SameDisk DEF Receding, Mild

LEMMA CleanupRecedes ==
  ASSUME StoreInv, MoverInv, Cleanup \/ CleanupLocal \/ CleanupDirectory \/ CleanupRoot
  PROVE  Receding
  <1> USE DEF Tx, CallFails, Branch, Goto, Finish, Exit, DeleteDirectory, DeleteRoot
  <1>1. /\ pc \notin Rest
        /\ pc' \notin DownloadLines
        /\ pc' \in Rest \/ task' = task
    <2>1. CASE Cleanup
      BY <2>1 DEF Cleanup, DownloadLines, Rest, context
    <2>2. CASE CleanupLocal
      BY <2>2 DEF CleanupLocal, DownloadLines, Rest, context
    <2>3. CASE CleanupDirectory
      BY <2>3 DEF CleanupDirectory, DownloadLines, Rest, context
    <2>4. CASE CleanupRoot
      BY <2>4 DEF CleanupRoot, DownloadLines, Rest, context
    <2> QED
      BY <2>1, <2>2, <2>3, <2>4
  <1>2. task \in Task /\ TypeOK
    BY <1>1 DEF MoverInv, InHand, StoreInv, Rest
  <1>3. Mild \/ UNCHANGED vars
    <2>1. CASE Cleanup
      BY <1>2, <2>1, MildTask, MildBatch DEF Cleanup
    <2>2. CASE CleanupLocal
      BY <1>2, <2>2, MildFile DEF CleanupLocal
    <2>3. CASE CleanupDirectory
      BY <1>2, <2>3, MildBatch DEF CleanupDirectory
    <2>4. CASE CleanupRoot
      BY <1>2, <2>4, MildTask DEF CleanupRoot
    <2> QED
      BY <2>1, <2>2, <2>3, <2>4
  <1>4. OnDisk' \subseteq OnDisk
    <2>1. CASE Cleanup
      BY <2>1, SameDisk DEF Cleanup
    <2>2. CASE CleanupLocal
      <3>1. UNCHANGED world \/ (bin' \subseteq bin /\ part' = part)
        BY <2>2 DEF CleanupLocal
      <3> QED
        BY <3>1, SameDisk DEF OnDisk
    <2>3. CASE CleanupDirectory
      BY <2>3, SameDisk DEF CleanupDirectory
    <2>4. CASE CleanupRoot
      BY <2>4, SameDisk DEF CleanupRoot
    <2> QED
      BY <2>1, <2>2, <2>3, <2>4
  <1> QED
    BY <1>1, <1>3, <1>4 DEF Receding, Mild, Hale

LEMMA DriveRecedes ==
  ASSUME StoreInv, MoverInv, Ensure \/ Drive \/ CopyTo \/ Reconcile \/ Verify
  PROVE  Receding
  <1> USE DEF Tx, CallFails, Branch, Goto, MakeRoot, MakeDirectory
  <1>1. /\ pc \notin Rest
        /\ pc' \notin DownloadLines
        /\ task' = task
        /\ UNCHANGED local
    <2>1. CASE Ensure
      BY <2>1 DEF Ensure, DownloadLines, Rest, context, world
    <2>2. CASE Drive
      BY <2>2 DEF Drive, DownloadLines, Rest, context, world
    <2>3. CASE CopyTo
      BY <2>3 DEF CopyTo, DownloadLines, Rest, context, world
    <2>4. CASE Reconcile
      BY <2>4 DEF Reconcile, DownloadLines, Rest, context, world
    <2>5. CASE Verify
      BY <2>5 DEF Verify, DownloadLines, Rest, context, world
    <2> QED
      BY <2>1, <2>2, <2>3, <2>4, <2>5
  <1>2. task \in Task /\ TypeOK
    BY <1>1 DEF MoverInv, InHand, StoreInv, Rest
  <1>3. /\ Ebb \/ UNCHANGED vars
        /\ pc' = "stop" \/ Unfailing \/ UNCHANGED vars
    <2>1. CASE Ensure
      BY <1>2, <2>1, MildTask DEF Ensure, Mild
    <2>2. CASE Drive
      BY <1>2, <2>2, MildTask, MildFile DEF Drive, Mild
    <2>3. CASE CopyTo
      BY <2>3 DEF CopyTo
    <2>4. CASE Reconcile
      BY <1>2, <2>4, MildFile DEF Reconcile
    <2>5. CASE Verify
      BY <1>2, <2>5, MildFile DEF Verify, Mild
    <2> QED
      BY <2>1, <2>2, <2>3, <2>4, <2>5
  <1>4. Hale
    BY <1>1, <1>3 DEF Hale, Rest
  <1> QED
    BY <1>1, <1>3, <1>4, SameDisk DEF Receding

LEMMA StageRecedes ==
  ASSUME StoreInv, MoverInv, StageRun \/ StageBatch
  PROVE  Receding
  <1> USE DEF Tx, CallFails, Branch, Goto, MakeStaging, Confirm, Transfer
  <1>1. /\ pc \notin Rest
        /\ pc' \notin DownloadLines
        /\ task' = task
        /\ UNCHANGED local
    <2>1. CASE StageRun
      BY <2>1 DEF StageRun, DownloadLines, Rest, context, world
    <2>2. CASE StageBatch
      BY <2>2 DEF StageBatch, DownloadLines, Rest, context, world
    <2> QED
      BY <2>1, <2>2
  <1>2. task \in Task /\ TypeOK
    BY <1>1 DEF MoverInv, InHand, StoreInv, Rest
  <1>3. /\ Ebb \/ UNCHANGED vars
        /\ pc' = "stop" \/ Unfailing \/ UNCHANGED vars
    <2>1. CASE StageRun
      BY <1>2, <2>1, MildTask, MildBatch DEF StageRun, Mild
    <2>2. CASE StageBatch
      BY <1>2, <2>2, MildTask, MildBatch DEF StageBatch, Mild
    <2> QED
      BY <2>1, <2>2
  <1>4. Hale
    BY <1>1, <1>3 DEF Hale, Rest
  <1> QED
    BY <1>1, <1>3, <1>4, SameDisk DEF Receding

----------------------------------------------------------------------------
(* The downloads.  What is on disk belongs to a file that is reserved for  *)
(* or has failed; a file in hand that is not reserved for yet still fits.  *)
Lasting == Reserved \cup {"FAILED_PERMANENT"}
Admitted == pc \in DownloadLines /\ status[file] = "BAIDU_STAGED" => Fits(file)
Occupied ==
  /\ \A f \in OnDisk : status[f] \in Lasting
  /\ pc = "download.fetch" => status[file] = "DOWNLOADING"
  /\ pc = "download.rename" => file \in OnDisk

WatermarkInv == DeliveryInv /\ ReservationHolds /\ Admitted /\ Occupied /\ Frozen

(* A step of the downloads touches the row and the bytes of the file in    *)
(* hand only, and bytes are added only by the stream.                      *)
Filling ==
  /\ pc \in DownloadLines => file \in DownloadCandidates(task)
  /\ \/ Ebb \/ UNCHANGED vars
     \/ pc \in DownloadLines /\ \A g \in File \ {file} : status'[g] = status[g]
  /\ \/ OnDisk' \subseteq OnDisk
     \/ pc = "download.fetch" /\ OnDisk' \subseteq OnDisk \cup {file}
  /\ Hale

LEMMA DownloadFills ==
  ASSUME StoreInv, MoverInv, Occupied, Download \/ Fetch \/ LocalReady \/ CacheFails
  PROVE  Filling
  <1> USE DEF Tx, Goto, Branch
  <1>1. pc \notin Rest /\ task' = task
    <2>1. CASE Download
      BY <2>1 DEF Download, Rest, context
    <2>2. CASE Fetch \/ LocalReady \/ CacheFails
      BY <2>2 DEF Fetch, LocalReady, CacheFails, Rest, context
    <2> QED
      BY <2>1, <2>2
  <1>2. task \in Task /\ TypeOK /\ DOMAIN status = File
    BY <1>1 DEF MoverInv, InHand, StoreInv, Rest, TypeOK
  <1>3. pc \in DownloadLines => file \in DownloadCandidates(task) /\ file \in File
    BY DEF MoverInv, InHand, DownloadCandidates, FilesIn, FilesOf
  <1>4. /\ StartDownload(task, file) \/ MarkLocalReady(task, file) =>
             /\ \A g \in File \ {file} : status'[g] = status[g]
             /\ Unfailing
        /\ \A permanent : RecordDownloadFailure(task, file, permanent) =>
             /\ \A g \in File \ {file} : status'[g] = status[g]
             /\ permanent = FALSE => Unfailing
    BY <1>2 DEF StartDownload, MarkLocalReady, RecordDownloadFailure, Unfailing
  <1>5. \/ Mild \/ UNCHANGED vars
        \/ /\ pc \in DownloadLines /\ \A g \in File \ {file} : status'[g] = status[g]
           /\ Unfailing \/ pc' = "stop"
    <2>1. CASE Download
      BY <1>2, <1>4, <2>1, MildTask DEF Download, DownloadLines
    <2>2. CASE Fetch
      BY <1>4, <2>2 DEF Fetch, DownloadLines
    <2>3. CASE LocalReady \/ CacheFails
      BY <1>4, <2>3 DEF LocalReady, CacheFails, DownloadLines
    <2> QED
      BY <2>1, <2>2, <2>3
  <1>6. \/ OnDisk' \subseteq OnDisk
        \/ pc = "download.fetch" /\ OnDisk' \subseteq OnDisk \cup {file}
    <2>1. CASE Download
      BY <2>1, SameDisk DEF Download
    <2>2. CASE Fetch
      <3>1. pc = "download.fetch" /\ bin' = bin /\ \E s : SetPart(file, s)
        BY <2>2 DEF Fetch
      <3>2. \A g \in File \ {file} : part'[g] = part[g]
        BY <3>1 DEF SetPart
      <3> QED
        BY <3>1, <3>2 DEF OnDisk
    <2>3. CASE LocalReady
      <3>1. CASE Goto("download.rename", "download.ready") /\ bin' = bin \cup {file}
                 /\ SetPart(file, "none")
        <4>1. file \in OnDisk
          BY <3>1 DEF Occupied
        <4>2. \A g \in File \ {file} : part'[g] = part[g]
          BY <3>1 DEF SetPart
        <4> QED
          BY <3>1, <4>1, <4>2 DEF OnDisk
      <3>2. CASE UNCHANGED world
        BY <3>2, SameDisk
      <3> QED
        BY <2>3, <3>1, <3>2 DEF LocalReady
    <2>4. CASE CacheFails
      <3>1. UNCHANGED world \/ (bin' \subseteq bin /\ part' = part)
        BY <2>4 DEF CacheFails
      <3> QED
        BY <3>1, SameDisk DEF OnDisk
    <2> QED
      BY <2>1, <2>2, <2>3, <2>4
  <1>7. Hale
    BY <1>1, <1>5 DEF Hale, Mild, Rest
  <1> QED
    BY <1>3, <1>5, <1>6, <1>7 DEF Filling, Mild

(* Where a download line is reached, and with what.                        *)
LEMMA DownloadArrives ==
  ASSUME StoreInv, MoverInv, CacheOK, Occupied,
         Download \/ Fetch \/ LocalReady \/ CacheFails, pc' \in DownloadLines
  PROVE  /\ \/ file' \in File /\ status'[file'] = "DOWNLOADING"
            \/ UNCHANGED vars /\ ~Waits(file')
            \/ UNCHANGED <<vars, file>> /\ pc \in DownloadLines
         /\ pc' = "download.fetch" => status'[file'] = "DOWNLOADING"
         /\ pc' = "download.rename" => file' \in OnDisk'
  <1> USE DEF Tx, Goto, Branch, DownloadLines
  <1>1. TypeOK
    BY DEF StoreInv
  <1>2. CASE Download
    <2>1. CASE pc = "download.next"
      BY <1>2, <2>1 DEF Download
    <2>2. CASE pc = "download.file" /\ pc' = "download.fetch"
      <3>1. StartDownload(task, file) /\ file' = file
        BY <1>2, <2>2 DEF Download, context
      <3>2. file' \in File /\ status'[file'] = "DOWNLOADING"
        BY <1>1, <3>1 DEF StartDownload, MayStartDownload, DownloadCandidates, FilesIn, FilesOf,
                          TypeOK
      <3> QED
        BY <2>2, <3>2
    <2>3. CASE pc = "download.file" /\ pc' # "download.fetch"
      <3>1. /\ UNCHANGED <<vars, context, world>>
            /\ pc' \in {"download.ready", "download.rename"}
            /\ pc' = "download.rename" => part[file] = "all"
        BY <1>2, <2>3 DEF Download
      <3>2. file \in File
        BY <2>3 DEF MoverInv, InHand, DownloadCandidates, FilesIn, FilesOf
      <3>3. file' = file /\ part' = part
        BY <3>1 DEF context, world, local
      <3> QED
        BY <2>3, <3>1, <3>2, <3>3 DEF OnDisk
    <2> QED
      BY <1>2, <2>1, <2>2, <2>3 DEF Download
  <1>3. CASE Fetch
    <2>1. /\ pc = "download.fetch" /\ UNCHANGED <<vars, file>>
          /\ pc' = "download.rename" => SetPart(file, "all")
          /\ pc' \in {"download.rename", "download.fetch"}
      BY <1>3 DEF Fetch, context
    <2>2. file \in File /\ status[file] = "DOWNLOADING"
      BY <2>1 DEF MoverInv, InHand, DownloadCandidates, FilesIn, FilesOf, Occupied
    <2>3. status'[file'] = "DOWNLOADING"
      BY <2>1, <2>2 DEF vars, fileVars
    <2>4. pc' = "download.rename" => file' \in OnDisk'
      <3>1. ASSUME pc' = "download.rename" PROVE part'[file] # "none"
        BY <2>1, <2>2, <3>1 DEF SetPart, CacheOK
      <3> QED
        BY <2>1, <2>2, <3>1 DEF OnDisk
    <2> QED
      BY <2>1, <2>2, <2>3, <2>4
  <1>4. CASE LocalReady \/ CacheFails
    <2>1. /\ UNCHANGED <<vars, file>> /\ pc \in DownloadLines
          /\ pc' \in {"download.ready", "download.file"}
      BY <1>4 DEF LocalReady, CacheFails, context
    <2> QED
      BY <2>1
  <1> QED
    BY <1>2, <1>3, <1>4

----------------------------------------------------------------------------
(* The steps of the program, as far as the watermark is concerned.         *)
LEMMA WatermarkCases ==
  ASSUME WatermarkInv, [MoverNext]_moverVars
  PROVE  \/ Receding
         \/ Filling /\ (Download \/ Fetch \/ LocalReady \/ CacheFails)
         \/ UNCHANGED <<vars, pc, file, task, local>>
         \/ /\ UNCHANGED <<status, local>> /\ pc' \in {"scan", "pass"} /\ task' \in Task
            /\ pc' = "scan" => ~scanCompleted'[task']
  <1>0. StoreInv /\ MoverInv /\ Occupied
    BY DEF WatermarkInv, DeliveryInv
  <1>1. CASE Run \/ Crash
    BY <1>0, <1>1, PassRecedes, CleanupRecedes, DriveRecedes, StageRecedes, DownloadFills DEF Run
  <1>2. CASE LateCommit \/ UNCHANGED moverVars
    BY <1>2 DEF LateCommit, moverVars, context, world
  <1>3. ASSUME NEW t \in Task, StartNew(t) \/ Launch(t)
        PROVE  /\ UNCHANGED <<status, local>> /\ pc' \in {"scan", "pass"} /\ task' \in Task
               /\ pc' = "scan" => ~scanCompleted'[task']
    <2>1. /\ UNCHANGED <<status, local>> /\ pc' \in {"scan", "pass"} /\ task' = t
      BY <1>3 DEF StartNew, Launch, ResumeScan, ResumePipeline, Goto, CreateTask,
                  UpdateTaskStatus, vars, fileVars, world
    <2>2. ASSUME pc' = "scan" PROVE ~scanCompleted[t] /\ scanCompleted' = scanCompleted
      <3>1. CASE StartNew(t)
        BY <1>0, <3>1 DEF StartNew, CreateTask, StoreInv, RowsConsistent
      <3>2. CASE ResumeScan(t)
        BY <3>2 DEF ResumeScan, UpdateTaskStatus
      <3>3. CASE ResumePipeline(t)
        BY <2>2, <3>3 DEF ResumePipeline, Goto
      <3> QED
        BY <1>3, <3>1, <3>2, <3>3 DEF Launch
    <2> QED
      BY <2>1, <2>2
  <1> QED
    BY <1>1, <1>2, <1>3 DEF MoverNext

(* A step that leads elsewhere leaves no failed file behind; a task with a *)
(* file that failed was scanned to the end, and is not scanned again.      *)
LEMMA FrozenStep ==
  ASSUME WatermarkInv, DeliveryInv', [MoverNext]_moverVars
  PROVE  Frozen'
  <1>0. StoreInv' /\ Frozen
    BY DEF WatermarkInv, DeliveryInv
  <1>1. CASE Hale
    <2>1. CASE pc' \in Rest
      BY <2>1 DEF Frozen
    <2>2. CASE pc \notin Rest /\ task' = task /\ (Unfailing \/ UNCHANGED vars)
      <3>1. \A f \in File : status'[f] = "FAILED_PERMANENT" => status[f] = "FAILED_PERMANENT"
        BY <2>2 DEF Unfailing, vars, fileVars
      <3> QED
        BY <1>0, <2>2, <3>1 DEF Frozen, HasFailed, FilesIn, FilesOf, Absent
    <2>3. CASE pc = "pass" /\ UNCHANGED <<vars, task>> /\ ~HasFailed(task)
      BY <2>3 DEF Frozen, HasFailed, FilesIn, FilesOf, vars, fileVars
    <2> QED
      BY <1>1, <2>1, <2>2, <2>3 DEF Hale
  <1>2. CASE UNCHANGED <<vars, pc, file, task, local>>
    BY <1>0, <1>2 DEF Frozen, HasFailed, FilesIn, FilesOf, vars, fileVars
  <1>3. CASE /\ pc' \in {"scan", "pass"} /\ task' \in Task
             /\ pc' = "scan" => ~scanCompleted'[task']
    <2>1. ASSUME NEW t \in Task, ~scanCompleted'[t] PROVE ~HasFailed(t)'
      <3>1. ASSUME NEW f \in File, FileTask[f] = t, status'[f] = "FAILED_PERMANENT"
            PROVE  FALSE
        <4>1. PICK b \in Batch : f \in b /\ batchStatus'[b] # Absent
          BY <1>0, <3>1 DEF StoreInv, BatchesPartition, Absent
        <4> QED
          BY <1>0, <2>1, <3>1, <4>1 DEF StoreInv, RowsConsistent
      <3> QED
        BY <3>1 DEF HasFailed, FilesIn, FilesOf
    <2>2. pc' \notin Rest => ~scanCompleted'[task']
      BY <1>3 DEF Rest
    <2>3. PICK t \in Task : t = task'
      BY <1>3
    <2>4. HasFailed(t)' <=> HasFailed(task)'
      BY <2>3 DEF HasFailed, FilesIn, FilesOf
    <2> QED
      BY <2>1, <2>2, <2>3, <2>4 DEF Frozen
  <1> QED
    BY <1>1, <1>2, <1>3, WatermarkCases DEF Receding, Filling

(* A line of the downloads is reached with a file that is reserved for, or *)
(* that fits.                                                              *)
LEMMA AdmittedStep ==
  ASSUME WatermarkInv, [MoverNext]_moverVars
  PROVE  Admitted'
  <1>0. /\ Admitted /\ StoreInv /\ MoverInv /\ CacheOK /\ Occupied
    BY DEF WatermarkInv, DeliveryInv, Custody
  <1>1. CASE pc' \notin DownloadLines
    BY <1>1 DEF Admitted
  <1>2. CASE UNCHANGED <<vars, file>> /\ pc \in DownloadLines
    BY <1>0, <1>2 DEF Admitted, Fits, ReservedCacheBytes, vars, fileVars
  <1>3. CASE status'[file'] = "DOWNLOADING"
    BY <1>3 DEF Admitted
  <1>4. CASE UNCHANGED vars /\ ~Waits(file')
    BY <1>4 DEF Admitted, Waits, Fits, ReservedCacheBytes, vars, fileVars
  <1>5. CASE pc' \in DownloadLines /\ (Download \/ Fetch \/ LocalReady \/ CacheFails)
    BY <1>0, <1>2, <1>3, <1>4, <1>5, DownloadArrives
  <1>6. CASE UNCHANGED <<vars, pc, file, task, local>>
    BY <1>1, <1>2, <1>6
  <1> QED
    BY <1>1, <1>5, <1>6, WatermarkCases DEF Receding, DownloadLines

(* Bytes stay on disk only under a row that accounts for them.             *)
LEMMA OccupiedStep ==
  ASSUME WatermarkInv, DeliveryInv', [Next]_vars, [MoverNext]_moverVars
  PROVE  Occupied'
  <1>0. /\ StoreInv /\ MoverInv /\ CacheOK /\ Occupied /\ TypeOK /\ TypeOK'
        /\ StoreInv' /\ CacheOK'
    BY DEF WatermarkInv, DeliveryInv, Custody, StoreInv
  <1>1. \A f \in File : status[f] \in Lasting => status'[f] \in Lasting \cup {"DONE"}
    <2>1. CASE UNCHANGED vars
      BY <2>1 DEF vars, fileVars
    <2>2. CASE Next
      <3>1. StatusForward
        BY <1>0, <2>2, StatusForwardStep DEF Next
      <3>2. ASSUME NEW f \in File, status[f] \in Lasting
            PROVE  status'[f] \in Lasting \cup {"DONE"}
        <4>1. /\ status'[f] \in FileStatus \ {"FAILED_RETRYABLE"}
              /\ Stage[status[f]] <= Stage[status'[f]]
          BY <1>0, <3>1, <3>2 DEF StatusForward, Lasting, Reserved, Absent, TypeOK
        <4>2. 5 <= Stage[status[f]]
          BY <3>2 DEF Lasting, Reserved, Stage, FileStatus
        <4>3. Stage[status[f]] \in Nat /\ Stage[status'[f]] \in Nat
          BY <3>2, <4>1 DEF Lasting, Reserved, Stage, FileStatus
        <4>4. 5 <= Stage[status'[f]]
          BY <4>1, <4>2, <4>3
        <4> QED
          BY <4>1, <4>4 DEF Lasting, Reserved, Stage, FileStatus
      <3> QED
        BY <3>2
    <2> QED
      BY <2>1, <2>2
  <1>2. \A f \in OnDisk' : status'[f] # "DONE"
    BY <1>0 DEF StoreInv, DoneEvidence, CacheOK, OnDisk, Authorized
  <1>3. OnDisk' \subseteq OnDisk \/ (pc = "download.fetch" /\ OnDisk' \subseteq OnDisk \cup {file})
    <2>1. UNCHANGED local => OnDisk' \subseteq OnDisk
      BY SameDisk
    <2> QED
      BY <2>1, WatermarkCases DEF Receding, Filling
  <1>4. \A f \in OnDisk' : status[f] \in Lasting
    BY <1>0, <1>3 DEF Occupied, Lasting, Reserved
  <1>5. \A f \in OnDisk' : status'[f] \in Lasting
    BY <1>1, <1>2, <1>4 DEF OnDisk
  <1>6. /\ pc' = "download.fetch" => status'[file'] = "DOWNLOADING"
        /\ pc' = "download.rename" => file' \in OnDisk'
    <2>1. CASE pc' \notin DownloadLines
      BY <2>1 DEF DownloadLines
    <2>2. CASE pc' \in DownloadLines /\ (Download \/ Fetch \/ LocalReady \/ CacheFails)
      BY <1>0, <2>2, DownloadArrives
    <2>3. CASE UNCHANGED <<vars, pc, file, task, local>>
      BY <1>0, <2>3 DEF Occupied, OnDisk, local, vars, fileVars
    <2> QED
      BY <2>1, <2>2, <2>3, WatermarkCases DEF Receding, DownloadLines
  <1> QED
    BY <1>5, <1>6 DEF Occupied

(* Sums of sizes over sets of files.                                       *)
LEMMA SizesOf ==
  /\ \A S \in SUBSET File : Bytes(S, Size) \in Nat
  /\ \A S, T \in SUBSET File : S \subseteq T => Bytes(S, Size) <= Bytes(T, Size)
  /\ \A S \in SUBSET File : \A f \in File \ S :
       Bytes(S \cup {f}, Size) = Bytes(S, Size) + Size[f]
  <1>1. IsFiniteSet(File) /\ \A f \in File : Size[f] \in Nat
    BY PlannerAssumption, StoreAssumption
  <1>2. \A S \in SUBSET File : IsFiniteSet(S) /\ \A f \in S : Size[f] \in Nat
    BY <1>1, FS_Subset
  <1>3. \A S \in SUBSET File : Bytes(S, Size) \in Nat
    BY <1>2, BytesType
  <1>4. \A S, T \in SUBSET File : S \subseteq T => Bytes(S, Size) <= Bytes(T, Size)
    BY <1>2, BytesSubset
  <1>5. \A S \in SUBSET File : \A f \in File \ S :
          Bytes(S \cup {f}, Size) = Bytes(S, Size) + Size[f]
    BY <1>1, <1>2, BytesAdd
  <1> QED
    BY <1>3, <1>4, <1>5

(* A download reserves for a file that still fits, every other step for    *)
(* none that was not reserved for.                                         *)
LEMMA ReservationStep ==
  ASSUME WatermarkInv, [MoverNext]_moverVars
  PROVE  ReservationHolds'
  <1>0. /\ Bytes(ReservedFiles, Size) <= MaxCache /\ MaxCache \in Nat
        /\ ReservedFiles \in SUBSET File /\ ReservedFiles' \in SUBSET File
    BY MoverAssumption DEF WatermarkInv, ReservationHolds, ReservedCacheBytes, ReservedFiles
  <1>1. ReservationHolds' <=> Bytes(ReservedFiles', Size) <= MaxCache
    BY DEF ReservationHolds, ReservedCacheBytes, ReservedFiles
  <1>2. /\ Bytes(ReservedFiles, Size) \in Nat
        /\ Bytes(ReservedFiles', Size) \in Nat
    BY <1>0, SizesOf
  <1>3. CASE ReservedFiles' \subseteq ReservedFiles
    <2>1. Bytes(ReservedFiles', Size) <= Bytes(ReservedFiles, Size)
      BY <1>0, <1>3, SizesOf
    <2> QED
      BY <1>0, <1>1, <1>2, <2>1
  <1>4. CASE Ebb \/ UNCHANGED status
    BY <1>3, <1>4 DEF Ebb, ReservedFiles
  <1>5. CASE /\ pc \in DownloadLines /\ file \in DownloadCandidates(task)
             /\ \A g \in File \ {file} : status'[g] = status[g]
    <2>1. file \in File /\ status[file] \in {"BAIDU_STAGED", "DOWNLOADING"}
      BY <1>5 DEF DownloadCandidates, FilesIn, FilesOf
    <2>2. CASE status[file] = "DOWNLOADING"
      BY <1>3, <1>5, <2>1, <2>2 DEF ReservedFiles, Reserved
    <2>3. CASE status[file] = "BAIDU_STAGED"
      <3>1. file \in File \ ReservedFiles
        BY <2>1, <2>3 DEF ReservedFiles, Reserved
      <3>2. Bytes(ReservedFiles, Size) + Size[file] <= MaxCache
        BY <1>5, <2>3 DEF WatermarkInv, Admitted, Fits, ReservedCacheBytes, ReservedFiles
      <3>3. PICK S : S = ReservedFiles \cup {file}
        OBVIOUS
      <3>4. S \in SUBSET File /\ Bytes(S, Size) <= MaxCache /\ Bytes(S, Size) \in Nat
        BY <1>0, <3>1, <3>2, <3>3, SizesOf
      <3>5. ReservedFiles' \subseteq S
        BY <1>5, <3>3 DEF ReservedFiles
      <3>6. Bytes(ReservedFiles', Size) <= Bytes(S, Size)
        BY <1>0, <3>4, <3>5, SizesOf
      <3> QED
        BY <1>0, <1>1, <1>2, <3>4, <3>6
    <2> QED
      BY <2>1, <2>2, <2>3
  <1> QED
    BY <1>4, <1>5, WatermarkCases DEF Receding, Filling, vars, fileVars

LEMMA WatermarkInvInit == MoverInit => WatermarkInv
  <1> SUFFICES ASSUME MoverInit PROVE WatermarkInv
    OBVIOUS
  <1>1. OnDisk = {} /\ pc = "idle" /\ \A f \in File : status[f] = Absent
    BY DEF MoverInit, Init, OnDisk
  <1>2. ReservationHolds
    <2>1. {f \in File : status[f] \in Reserved} = {}
      BY <1>1 DEF Reserved, Absent
    <2>2. ReservedCacheBytes = 0
      BY <2>1, BytesEmpty DEF ReservedCacheBytes
    <2> QED
      BY <2>2, MoverAssumption DEF ReservationHolds
  <1>3. Admitted /\ Occupied /\ Frozen
    BY <1>1 DEF Admitted, Occupied, Frozen, DownloadLines, Rest
  <1> QED
    BY <1>2, <1>3, DeliveryInvInit DEF WatermarkInv

LEMMA WatermarkInvStep ==
  ASSUME WatermarkInv, [MoverNext]_moverVars
  PROVE  WatermarkInv'
  <1>1. DeliveryInv' /\ [Next]_vars
    BY DeliveryInvStep, MoverInvStep DEF WatermarkInv, DeliveryInv
  <1>2. ReservationHolds' /\ Admitted' /\ Occupied' /\ Frozen'
    BY <1>1, ReservationStep, AdmittedStep, OccupiedStep, FrozenStep
  <1> QED
    BY <1>1, <1>2 DEF WatermarkInv

(* The inductive invariant of the watermark: what is reserved fits, what   *)
(* is in hand fits before it is reserved for, and what is on disk is       *)
(* accounted for.                                                          *)
THEOREM WatermarkInvariant == MoverSpec => []WatermarkInv
  <1>1. WatermarkInv /\ [MoverNext]_moverVars => WatermarkInv'
    BY WatermarkInvStep
  <1> QED
    BY WatermarkInvInit, <1>1, PTL DEF MoverSpec

(* The watermark bounds what all tasks together reserve, for any number of *)
(* tasks that are run, interrupted and resumed in any order, and any fault *)
(* (download/runner.go counts the reserved bytes of every task before it   *)
(* admits a file, state/download_store.go ReservedCacheBytes).             *)
THEOREM ReservationStays == MoverSpec => []ReservationHolds
  <1>1. WatermarkInv => ReservationHolds
    BY DEF WatermarkInv
  <1> QED
    BY WatermarkInvariant, <1>1, PTL

(* However many tasks there are, what they reserve and what they keep in   *)
(* the local cache stay below the watermark together: what exceeds it are  *)
(* bytes of files that failed for good and were left behind.               *)
THEOREM WatermarkStays == MoverSpec => []WatermarkHolds
  <1>1. ASSUME WatermarkInv PROVE WatermarkHolds
    <2>1. Live = ReservedFiles
      BY <1>1 DEF WatermarkInv, Occupied, Lasting, Live, ReservedFiles, OnDisk
    <2> QED
      BY <1>1, <2>1
         DEF WatermarkInv, WatermarkHolds, ReservationHolds, ReservedCacheBytes, ReservedFiles
  <1> QED
    BY WatermarkInvariant, <1>1, PTL

(* With one task no byte is added to the cache once a file has failed.     *)
LEMMA CacheStep ==
  ASSUME \A t, u \in Task : t = u, WatermarkInv, CacheFits, [MoverNext]_moverVars
  PROVE  CacheFits'
  <1>0. /\ Bytes(OnDisk, Size) <= MaxCache /\ MaxCache \in Nat
        /\ OnDisk \in SUBSET File /\ OnDisk' \in SUBSET File
        /\ Bytes(OnDisk, Size) \in Nat /\ Bytes(OnDisk', Size) \in Nat
    <2>1. OnDisk \in SUBSET File /\ OnDisk' \in SUBSET File
      BY DEF OnDisk
    <2> QED
      BY <2>1, SizesOf, MoverAssumption DEF CacheFits
  <1>1. CASE OnDisk' \subseteq OnDisk
    <2>1. Bytes(OnDisk', Size) <= Bytes(OnDisk, Size)
      BY <1>0, <1>1, SizesOf
    <2> QED
      BY <1>0, <2>1 DEF CacheFits
  <1>2. CASE pc = "download.fetch" /\ OnDisk' \subseteq OnDisk \cup {file}
    <2>1. task \in Task /\ ~HasFailed(task)
      BY <1>2 DEF WatermarkInv, DeliveryInv, MoverInv, InHand, Frozen, Rest
    <2>2. \A f \in File : status[f] # "FAILED_PERMANENT"
      <3>1. ASSUME NEW f \in File, status[f] = "FAILED_PERMANENT" PROVE FALSE
        <4>1. FileTask[f] = task
          BY <2>1, StoreAssumption
        <4> QED
          BY <2>1, <3>1, <4>1 DEF HasFailed, FilesIn, FilesOf, Absent
      <3> QED
        BY <3>1
    <2>3. OnDisk \subseteq ReservedFiles
      BY <2>2 DEF WatermarkInv, Occupied, Lasting, ReservedFiles, OnDisk
    <2>4. file \in ReservedFiles
      <3>1. file \in DownloadCandidates(task)
        BY <1>2 DEF WatermarkInv, DeliveryInv, MoverInv, InHand, DownloadLines
      <3>2. file \in File
        BY <3>1 DEF DownloadCandidates, FilesIn, FilesOf
      <3> QED
        BY <1>2, <3>2 DEF WatermarkInv, Occupied, ReservedFiles, Reserved
    <2>5. OnDisk' \subseteq ReservedFiles /\ ReservedFiles \in SUBSET File
      BY <1>2, <2>3, <2>4 DEF ReservedFiles
    <2>6. Bytes(OnDisk', Size) <= Bytes(ReservedFiles, Size) /\ Bytes(ReservedFiles, Size) \in Nat
      BY <1>0, <2>5, SizesOf
    <2>7. Bytes(ReservedFiles, Size) <= MaxCache
      BY DEF WatermarkInv, ReservationHolds, ReservedCacheBytes, ReservedFiles
    <2>8. Bytes(OnDisk', Size) <= MaxCache
      BY <1>0, <2>6, <2>7
    <2> QED
      BY <2>8 DEF CacheFits
  <1>3. \/ OnDisk' \subseteq OnDisk
        \/ pc = "download.fetch" /\ OnDisk' \subseteq OnDisk \cup {file}
    <2>1. UNCHANGED local => OnDisk' \subseteq OnDisk
      BY SameDisk
    <2> QED
      BY <2>1, WatermarkCases DEF Receding, Filling
  <1> QED
    BY <1>1, <1>2, <1>3

(* A program that moves one share keeps the whole cache below the          *)
(* watermark, also the partial files of a stream that broke and what a     *)
(* failed file left: a run that records a final failure downloads nothing  *)
(* more, and the next one ends the task (download/runner.go, pipeline.go). *)
THEOREM CacheStaysBelow ==
  ASSUME \A t, u \in Task : t = u
  PROVE  MoverSpec => []CacheFits
  <1>1. MoverInit => CacheFits
    <2>1. ASSUME MoverInit PROVE OnDisk = {}
      BY <2>1 DEF MoverInit, OnDisk
    <2> QED
      BY <2>1, BytesEmpty, MoverAssumption DEF CacheFits
  <1>2. WatermarkInv /\ CacheFits /\ [MoverNext]_moverVars => CacheFits'
    BY CacheStep
  <1> QED
    BY WatermarkInvariant, <1>1, <1>2, PTL DEF MoverSpec

----------------------------------------------------------------------------
(* What a completed task leaves.  A finished file stays finished, except   *)
(* that a batch given up for good takes all of its files with it.          *)
DoneStays == \A f \in File : status[f] = "DONE" => status'[f] = "DONE"

LEMMA DoneOrFailed ==
  ASSUME TypeOK, [Next]_vars
  PROVE  \A f \in File : status[f] = "DONE" => status'[f] \in {"DONE", "FAILED_PERMANENT"}
  <1>1. CASE Next
    <2>1. StatusForward /\ TypeOK'
      BY <1>1, StatusForwardStep, TypeOKStep DEF Next
    <2>2. ASSUME NEW f \in File, status[f] = "DONE"
          PROVE  status'[f] \in {"DONE", "FAILED_PERMANENT"}
      <3>1. PICK s : s = status'[f]
        OBVIOUS
      <3>2. s \in FileStatus \ {"FAILED_RETRYABLE"} /\ Stage["DONE"] <= Stage[s]
        BY <2>1, <2>2, <3>1 DEF StatusForward, TypeOK, Absent, FileStatus
      <3>3. s \in {"DONE", "FAILED_PERMANENT"}
        BY <3>2 DEF Stage, FileStatus
      <3> QED
        BY <3>1, <3>3
    <2> QED
      BY <2>2
  <1>2. CASE UNCHANGED vars
    BY <1>2 DEF vars, fileVars
  <1> QED
    BY <1>1, <1>2

LEMMA DoneKept ==
  ASSUME TypeOK, [Next]_vars, Tame \/ Unfailing \/ UNCHANGED vars
  PROVE  DoneStays
  BY DoneOrFailed DEF Tame, Unfailing, DoneStays, Verified, vars, fileVars

LEMMA DoneStaysStep ==
  ASSUME StoreInv, MoverInv, [Next]_vars, [MoverNext]_moverVars
  PROVE  DoneStays \/ (pc = "stage.failed" /\ FailBatch(task, batch, TRUE))
  <1>0. TypeOK
    BY DEF StoreInv
  <1>1. CASE \/ Scan \/ BeginPass \/ EndPass \/ Stop \/ Ensure \/ Drive \/ Reconcile
             \/ Download \/ StageRun \/ Crash \/ \E t \in Task : StartNew(t) \/ Launch(t)
    BY <1>0, <1>1, ScanAndPass, DriveCalls, DownloadAndPlan, LaunchAndCrash, DoneKept
  <1>2. CASE Cleanup \/ CleanupLocal \/ CleanupDirectory \/ CleanupRoot
    <2>1. task \in Task
      BY <1>2 DEF Cleanup, CleanupLocal, CleanupDirectory, CleanupRoot, Tx, CallFails, Branch,
                  Goto, Finish, DeleteDirectory, DeleteRoot, MoverInv, InHand
    <2>2. Mild \/ UNCHANGED vars
      BY <1>0, <1>2, <2>1, MildTask, MildBatch, MildFile
         DEF Cleanup, CleanupLocal, CleanupDirectory, CleanupRoot, Tx, CallFails, Branch,
             Finish, Exit, DeleteDirectory, DeleteRoot
    <2> QED
      BY <1>0, <2>2, DoneKept DEF Mild
  <1>3. CASE Verify
    <2>1. task \in Task
      BY <1>3 DEF Verify, Tx, CallFails, Goto, MoverInv, InHand
    <2>2. Tame \/ Mild \/ UNCHANGED vars
      BY <1>0, <1>3, <2>1, TameFile, MildFile DEF Verify, Tx, CallFails
    <2> QED
      BY <1>0, <2>2, DoneKept DEF Mild
  <1>4. CASE CopyTo \/ LateCommit \/ UNCHANGED moverVars
    BY <1>0, <1>4, DoneKept DEF CopyTo, LateCommit, moverVars
  <1>5. CASE Fetch \/ LocalReady \/ CacheFails
    <2>1. task \in Task
      BY <1>5 DEF Fetch, LocalReady, CacheFails, Tx, Goto, MoverInv, InHand
    <2>2. Tame \/ UNCHANGED vars
      BY <1>0, <1>5, <2>1, TameFile DEF Fetch, LocalReady, CacheFails, Tx
    <2> QED
      BY <1>0, <2>2, DoneKept
  <1>6. CASE StageBatch
    <2>1. task \in Task
      BY <1>6 DEF StageBatch, MakeStaging, Confirm, Transfer, Tx, Branch, CallFails, Goto,
                  MoverInv, InHand
    <2>2. \/ Tame \/ UNCHANGED vars
          \/ pc = "stage.failed" /\ FailBatch(task, batch, TRUE)
      BY <1>0, <1>6, <2>1, TameTask, TameBatch
         DEF StageBatch, MakeStaging, Confirm, Transfer, Tx, Branch, CallFails, Goto
    <2> QED
      BY <1>0, <2>2, DoneKept
  <1> QED
    BY <1>1, <1>2, <1>3, <1>4, <1>5, <1>6 DEF MoverNext, Run

(* The row of a task root.  It is released once every file of the task is  *)
(* done, and no file is added to the task after that.                      *)
Released(t) == rootOwned[t] \in Authorized => \A f \in FilesOf(t) : status[f] = "DONE"

LEMMA RootRow ==
  ASSUME TypeOK, NEW t \in Task, TaskStep(t) \/ BatchStep(t) \/ FileStep(t)
  PROVE  \A u \in Task :
           \/ rootOwned'[u] = rootOwned[u]
           \/ rootOwned[u] = Absent /\ rootOwned'[u] = "REGISTERED"
           \/ rootOwned[u] \in Authorized /\ rootOwned'[u] \in Authorized
           \/ /\ \A f \in FilesOf(u) : status[f] = "DONE"
              /\ UNCHANGED status /\ rootOwned'[u] = "ALLOWED"
  <1> USE DEF ownedVars
  <1>0. DOMAIN rootOwned = Task
    BY DEF TypeOK
  <1>1. CASE rootOwned' = rootOwned
    BY <1>1
  <1>2. CASE \E maxBytes \in PlanBound, P \in SUBSET Batch : PlanBatches(t, maxBytes, P)
    BY <1>0, <1>2 DEF PlanBatches, Register
  <1>3. CASE AuthorizeTaskRootCleanup(t)
    BY <1>0, <1>3 DEF AuthorizeTaskRootCleanup, MayAuthorizeTaskRootCleanup, Allow, Authorized,
                      fileVars
  <1>4. CASE MarkBaiduTaskRootCleanupDone(t)
    BY <1>0, <1>4 DEF MarkBaiduTaskRootCleanupDone, MayMarkBaiduTaskRootCleanupDone, Authorized
  <1>5. CASE \/ CreateTask(t) \/ CompleteTaskScan(t)
             \/ \E s \in TaskStatus : UpdateTaskStatus(t, s)
             \/ \E D \in SUBSET Dir, F \in SUBSET File : UpsertManifestPage(t, D, F)
             \/ \E id \in DriveId : SetTaskDriveRoot(t, id)
             \/ \E d \in Dir, id \in DriveId : RecordDirectoryDriveID(t, d, id)
    BY <1>1, <1>5 DEF CreateTask, CompleteTaskScan, UpdateTaskStatus, UpsertManifestPage,
                      SetTaskDriveRoot, RecordDirectoryDriveID
  <1>6. CASE \/ \E b \in Batch : StartBatch(t, b)
             \/ \E b \in Batch, S \in SUBSET File : RecordStagedFiles(t, b, S)
             \/ \E b \in Batch : CompleteBatch(t, b)
             \/ \E b \in Batch, p \in BOOLEAN : FailBatch(t, b, p)
             \/ \E b \in Batch : AuthorizeBatchCleanup(t, b)
             \/ \E b \in Batch : MarkBaiduBatchCleanupDone(t, b)
             \/ \E b \in Batch : CompleteBatchCleanup(t, b)
    BY <1>1, <1>6 DEF StartBatch, RecordStagedFiles, CompleteBatch, FailBatch,
                      AuthorizeBatchCleanup, MarkBaiduBatchCleanupDone, CompleteBatchCleanup
  <1>7. CASE \/ \E f \in File : StartDownload(t, f)
             \/ \E f \in File : MarkLocalReady(t, f)
             \/ \E f \in File, p \in BOOLEAN : RecordDownloadFailure(t, f, p)
             \/ \E f \in File : StartDriveUpload(t, f)
             \/ \E f \in File, id \in DriveId : RecordDriveUploaded(t, f, id)
             \/ \E f \in File, id \in DriveId : MarkDriveVerified(t, f, id)
             \/ \E f \in File, p \in BOOLEAN : RecordDriveFailure(t, f, p)
             \/ \E f \in File : MarkLocalCacheCleanupDone(t, f)
    BY <1>1, <1>7 DEF StartDownload, MarkLocalReady, RecordDownloadFailure, StartDriveUpload,
                      RecordDriveUploaded, MarkDriveVerified, RecordDriveFailure,
                      MarkLocalCacheCleanupDone
  <1> QED
    BY StepCases, <1>2, <1>3, <1>4, <1>5, <1>6, <1>7

LEMMA NewFiles ==
  ASSUME StoreInv, NEW t \in Task, TaskStep(t) \/ BatchStep(t) \/ FileStep(t)
  PROVE  \A f \in File : status[f] = Absent => status'[f] \in {Absent, "DISCOVERED"}
  <1> USE DEF fileVars, FilesIn, FilesOf
  <1>0. TypeOK /\ DOMAIN status = File
    BY DEF StoreInv, TypeOK
  <1>1. \A b \in BatchesOf(t) : \A f \in b : f \in File /\ status[f] # Absent
    BY BatchFacts DEF StoreInv, BatchesPartition, BatchesOf
  <1>2. CASE \E D \in SUBSET Dir, F \in SUBSET File : UpsertManifestPage(t, D, F)
    BY <1>2 DEF UpsertManifestPage
  <1>3. CASE \E maxBytes \in PlanBound, P \in SUBSET Batch : PlanBatches(t, maxBytes, P)
    BY <1>3 DEF PlanBatches, Discovered, Absent
  <1>4. CASE \/ CreateTask(t) \/ CompleteTaskScan(t)
             \/ \E s \in TaskStatus : UpdateTaskStatus(t, s)
             \/ \E id \in DriveId : SetTaskDriveRoot(t, id)
             \/ \E d \in Dir, id \in DriveId : RecordDirectoryDriveID(t, d, id)
             \/ AuthorizeTaskRootCleanup(t)
             \/ MarkBaiduTaskRootCleanupDone(t)
             \/ \E b \in Batch : CompleteBatch(t, b)
             \/ \E b \in Batch : MarkBaiduBatchCleanupDone(t, b)
             \/ \E f \in File : MarkLocalCacheCleanupDone(t, f)
    BY <1>4 DEF CreateTask, CompleteTaskScan, UpdateTaskStatus, SetTaskDriveRoot,
                RecordDirectoryDriveID, AuthorizeTaskRootCleanup, MarkBaiduTaskRootCleanupDone,
                CompleteBatch, MarkBaiduBatchCleanupDone, MarkLocalCacheCleanupDone
  <1>5. CASE \/ \E b \in Batch : StartBatch(t, b)
             \/ \E b \in Batch, S \in SUBSET File : RecordStagedFiles(t, b, S)
             \/ \E b \in Batch, p \in BOOLEAN : FailBatch(t, b, p)
             \/ \E b \in Batch : AuthorizeBatchCleanup(t, b)
             \/ \E b \in Batch : CompleteBatchCleanup(t, b)
    BY <1>1, <1>5 DEF StartBatch, MayStartBatch, RecordStagedFiles, MayRecordStagedFiles, FailBatch,
                      MayFailBatch, StagingBatches, AuthorizeBatchCleanup, MayAuthorizeBatchCleanup,
                      CompleteBatchCleanup, MayCompleteBatchCleanup
  <1>6. CASE \/ \E f \in File : StartDownload(t, f)
             \/ \E f \in File : MarkLocalReady(t, f)
             \/ \E f \in File, p \in BOOLEAN : RecordDownloadFailure(t, f, p)
             \/ \E f \in File : StartDriveUpload(t, f)
             \/ \E f \in File, id \in DriveId : RecordDriveUploaded(t, f, id)
             \/ \E f \in File, id \in DriveId : MarkDriveVerified(t, f, id)
             \/ \E f \in File, p \in BOOLEAN : RecordDriveFailure(t, f, p)
    BY <1>0, <1>6 DEF StartDownload, MayStartDownload, MarkLocalReady, MayMarkLocalReady,
                      RecordDownloadFailure, MayRecordDownloadFailure, StartDriveUpload,
                      MayStartDriveUpload, RecordDriveUploaded, MayRecordDriveUploaded,
                      MarkDriveVerified, MayMarkDriveVerified, RecordDriveFailure,
                      MayRecordDriveFailure, DownloadCandidates, DriveUploadCandidates
  <1> QED
    BY StepCases, <1>2, <1>3, <1>4, <1>5, <1>6

(* Nothing below the batch that is given up can undo the release.          *)
LEMMA ReleasedStep ==
  ASSUME StoreInv, StoreInv', [Next]_vars, DoneStays, NEW u \in Task, Released(u)
  PROVE  Released(u)'
  <1>1. CASE UNCHANGED vars
    BY <1>1 DEF Released, FilesOf, vars, fileVars, ownedVars
  <1>2. ASSUME NEW t \in Task, TaskStep(t) \/ BatchStep(t) \/ FileStep(t)
        PROVE  Released(u)'
    <2>1. SUFFICES ASSUME rootOwned'[u] \in Authorized,
                          NEW f \in File, FileTask[f] = u, status'[f] # Absent
                   PROVE  status'[f] = "DONE"
      BY DEF Released, FilesOf
    <2>2. \A g \in FilesOf(u) : status[g] = "DONE"
      BY <1>2, <2>1, RootRow DEF Released, StoreInv, Authorized, Absent
    <2>3. CASE status[f] # Absent
      BY <2>1, <2>2, <2>3 DEF FilesOf, DoneStays
    <2>4. CASE status[f] = Absent
      <3>1. status'[f] = "DISCOVERED"
        BY <1>2, <2>1, <2>4, NewFiles
      <3>2. Discovered(u)' = {}
        BY <2>1 DEF StoreInv, RootLast
      <3> QED
        BY <2>1, <3>1, <3>2 DEF Discovered, FilesIn, FilesOf
    <2> QED
      BY <2>3, <2>4
  <1> QED
    BY <1>1, <1>2 DEF Next

----------------------------------------------------------------------------
(* The staging root of a task.  It is made for a planned batch while some  *)
(* file of the task is not done, so never again once it was released.      *)
StageLines == {"stage.plan", "stage.check", "stage.start", "stage.mkdir", "stage.list",
               "stage.transfer", "stage.broken", "stage.complete", "stage.fail",
               "stage.failed"}

Unfinished == pc \in StageLines => \E f \in FilesOf(task) : status[f] # "DONE"
RootsOwned == \A t \in Task : t \in roots => rootOwned[t] \notin {Absent, "CLEANED"}
RootGone   == pc = "cleanup.rootrecord" => task \notin roots

TidyInv ==
  WatermarkInv /\ Unfinished /\ RootsOwned /\ RootGone /\ \A t \in Task : Released(t)

(* A root is recorded as cleaned at one line only.                         *)
RootKept == \A t \in Task : rootOwned'[t] = "CLEANED" => rootOwned[t] = "CLEANED"

LEMMA RootKeptOps ==
  ASSUME TypeOK, NEW t \in Task
  PROVE  /\ UNCHANGED ownedVars => RootKept
         /\ \A maxBytes, P : PlanBatches(t, maxBytes, P) => RootKept
         /\ AuthorizeTaskRootCleanup(t) => RootKept
         /\ \A b : AuthorizeBatchCleanup(t, b) => RootKept
         /\ \A b : MarkBaiduBatchCleanupDone(t, b) => RootKept
         /\ \A f : MarkLocalCacheCleanupDone(t, f) => RootKept
         /\ \A f : MarkLocalReady(t, f) => RootKept
  <1> USE DEF RootKept, ownedVars
  <1>0. DOMAIN rootOwned = Task
    BY DEF TypeOK
  <1>1. ASSUME NEW maxBytes, NEW P, PlanBatches(t, maxBytes, P) PROVE RootKept
    BY <1>0, <1>1 DEF PlanBatches, Register
  <1>2. ASSUME AuthorizeTaskRootCleanup(t) PROVE RootKept
    BY <1>0, <1>2 DEF AuthorizeTaskRootCleanup, Allow
  <1>3. /\ \A b : AuthorizeBatchCleanup(t, b) => RootKept
        /\ \A b : MarkBaiduBatchCleanupDone(t, b) => RootKept
        /\ \A f : MarkLocalCacheCleanupDone(t, f) => RootKept
        /\ \A f : MarkLocalReady(t, f) => RootKept
    BY DEF AuthorizeBatchCleanup, MarkBaiduBatchCleanupDone, MarkLocalCacheCleanupDone,
           MarkLocalReady
  <1> QED
    BY <1>1, <1>2, <1>3

LEMMA RootKeptStep ==
  ASSUME StoreInv, MoverInv, [MoverNext]_moverVars
  PROVE  \/ RootKept
         \/ /\ pc = "cleanup.rootrecord" /\ MarkBaiduTaskRootCleanupDone(task)
            /\ roots' = roots
  <1> USE DEF Tx, Branch, CallFails, Finish, Exit
  <1>0. TypeOK
    BY DEF StoreInv
  <1>1. UNCHANGED ownedVars => RootKept
    BY DEF RootKept, ownedVars
  <1>2. UNCHANGED vars => UNCHANGED ownedVars
    BY DEF vars
  <1>3. CASE Scan \/ BeginPass \/ EndPass \/ Stop \/ Crash \/ LateCommit \/ UNCHANGED moverVars
    BY <1>1, <1>2, <1>3
       DEF Scan, BeginPass, EndPass, Stop, Crash, LateCommit, moverVars, UpdateTaskStatus,
           UpsertManifestPage, CompleteTaskScan
  <1>4. CASE Ensure \/ Drive \/ CopyTo \/ Reconcile \/ Verify
    BY <1>1, <1>2, <1>4
       DEF Ensure, Drive, CopyTo, Reconcile, Verify, MakeRoot, MakeDirectory, UpdateTaskStatus,
           SetTaskDriveRoot, RecordDirectoryDriveID, StartDriveUpload, RecordDriveUploaded,
           MarkDriveVerified, RecordDriveFailure
  <1>5. CASE Download \/ Fetch \/ CacheFails \/ StageBatch
    BY <1>1, <1>2, <1>5
       DEF Download, Fetch, CacheFails, StageBatch, MakeStaging, Confirm, Transfer,
           UpdateTaskStatus, StartDownload, RecordDownloadFailure, RecordStagedFiles,
           CompleteBatch, FailBatch
  <1>6. CASE StageRun \/ LocalReady
    <2>1. task \in Task
      BY <1>6 DEF StageRun, LocalReady, Goto, MoverInv, InHand
    <2> QED
      BY <1>0, <1>1, <1>2, <1>6, <2>1, RootKeptOps
         DEF StageRun, LocalReady, UpdateTaskStatus, StartBatch
  <1>7. CASE Cleanup \/ CleanupLocal \/ CleanupDirectory
    <2>1. task \in Task
      BY <1>7 DEF Cleanup, CleanupLocal, CleanupDirectory, Goto, DeleteDirectory, MoverInv, InHand
    <2> QED
      BY <1>0, <1>1, <1>2, <1>7, <2>1, RootKeptOps
         DEF Cleanup, CleanupLocal, CleanupDirectory, DeleteDirectory, UpdateTaskStatus,
             CompleteBatchCleanup
  <1>8. CASE CleanupRoot
    BY <1>1, <1>2, <1>8
       DEF CleanupRoot, DeleteRoot, UpdateTaskStatus, Goto, world, baidu
  <1>9. CASE \E t \in Task : StartNew(t) \/ Launch(t)
    BY <1>1, <1>2, <1>9
       DEF StartNew, Launch, ResumeScan, ResumePipeline, CreateTask, UpdateTaskStatus
  <1> QED
    BY <1>3, <1>4, <1>5, <1>6, <1>7, <1>8, <1>9 DEF MoverNext, Run

(* A root is made at one line only, and for the task of the batch in hand. *)
LEMMA RootsMade ==
  ASSUME [MoverNext]_moverVars
  PROVE  \/ roots' \subseteq roots
         \/ pc = "stage.mkdir" /\ roots' = roots \cup {task} /\ UNCHANGED vars
  <1> USE DEF Tx, Branch, CallFails, Finish, Exit, world, baidu
  <1>1. CASE Scan \/ BeginPass \/ EndPass \/ Stop \/ Crash \/ LateCommit \/ UNCHANGED moverVars
    BY <1>1 DEF Scan, BeginPass, EndPass, Stop, Crash, LateCommit, moverVars
  <1>2. CASE Ensure \/ Drive \/ CopyTo \/ Reconcile \/ Verify
    BY <1>2 DEF Ensure, Drive, CopyTo, Reconcile, Verify, MakeRoot, MakeDirectory
  <1>3. CASE Download \/ Fetch \/ CacheFails \/ LocalReady \/ StageRun
    BY <1>3 DEF Download, Fetch, CacheFails, LocalReady, StageRun
  <1>4. CASE StageBatch
    BY <1>4 DEF StageBatch, MakeStaging, Confirm, Transfer
  <1>5. CASE Cleanup \/ CleanupLocal \/ CleanupDirectory \/ CleanupRoot
    BY <1>5 DEF Cleanup, CleanupLocal, CleanupDirectory, CleanupRoot, DeleteDirectory, DeleteRoot
  <1>6. CASE \E t \in Task : StartNew(t) \/ Launch(t)
    BY <1>6 DEF StartNew, Launch, ResumeScan, ResumePipeline
  <1> QED
    BY <1>1, <1>2, <1>3, <1>4, <1>5, <1>6 DEF MoverNext, Run

(* A step of the staging finishes no file.                                 *)
Staged == {"PLANNED", "BAIDU_STAGING", "BAIDU_STAGED", "FAILED_PERMANENT"}
FinishesNone == \A f \in File : status'[f] = status[f] \/ status'[f] \in Staged

LEMMA StagingFinishesNone ==
  ASSUME StageRun \/ StageBatch
  PROVE  FinishesNone
  <1> USE DEF Tx, Branch, CallFails, FinishesNone, Staged
  <1>1. UNCHANGED vars => FinishesNone
    BY DEF vars, fileVars
  <1>2. \A t, s : UpdateTaskStatus(t, s) => FinishesNone
    BY DEF UpdateTaskStatus, fileVars
  <1>3. \A t, maxBytes, P : PlanBatches(t, maxBytes, P) => FinishesNone
    BY DEF PlanBatches
  <1>4. \A t, b : StartBatch(t, b) => FinishesNone
    BY DEF StartBatch
  <1>5. \A t, b, S : RecordStagedFiles(t, b, S) => FinishesNone
    BY DEF RecordStagedFiles
  <1>6. \A t, b : CompleteBatch(t, b) => FinishesNone
    BY DEF CompleteBatch, fileVars
  <1>7. \A t, b, permanent : FailBatch(t, b, permanent) => FinishesNone
    BY DEF FailBatch
  <1>8. CASE StageRun
    BY <1>1, <1>2, <1>3, <1>4, <1>8 DEF StageRun
  <1>9. CASE StageBatch
    BY <1>1, <1>2, <1>5, <1>6, <1>7, <1>9 DEF StageBatch, MakeStaging, Confirm, Transfer
  <1> QED
    BY <1>8, <1>9

LEMMA StageLinesReached ==
  ASSUME [MoverNext]_moverVars, pc' \in StageLines
  PROVE  \/ UNCHANGED <<vars, pc, task>> /\ pc \in StageLines
         \/ UNCHANGED <<vars, task>> /\ HasStageWork(task)
         \/ (StageRun \/ StageBatch) /\ pc \in StageLines /\ task' = task
  <1> USE DEF Tx, Branch, CallFails, Goto, Finish, Exit, StageLines, context
  <1>1. CASE LateCommit \/ UNCHANGED moverVars
    BY <1>1 DEF LateCommit, moverVars
  <1>2. CASE StageRun
    BY <1>2 DEF StageRun
  <1>3. CASE StageBatch
    BY <1>3 DEF StageBatch, MakeStaging, Confirm, Transfer
  <1>4. ~(Scan \/ BeginPass \/ EndPass \/ Stop \/ Crash)
    BY DEF Scan, BeginPass, EndPass, Stop, Crash
  <1>5. ~(Ensure \/ Drive \/ CopyTo \/ Reconcile \/ Verify)
    BY DEF Ensure, Drive, CopyTo, Reconcile, Verify, MakeRoot, MakeDirectory
  <1>6. ~(Download \/ Fetch \/ CacheFails \/ LocalReady)
    BY DEF Download, Fetch, CacheFails, LocalReady
  <1>7. ~(Cleanup \/ CleanupLocal \/ CleanupDirectory \/ CleanupRoot)
    BY DEF Cleanup, CleanupLocal, CleanupDirectory, CleanupRoot, DeleteDirectory, DeleteRoot
  <1>8. ~\E t \in Task : StartNew(t) \/ Launch(t)
    BY DEF StartNew, Launch, ResumeScan, ResumePipeline
  <1> QED
    BY <1>1, <1>2, <1>3, <1>4, <1>5, <1>6, <1>7, <1>8 DEF MoverNext, Run

LEMMA UnfinishedStep ==
  ASSUME Unfinished, [MoverNext]_moverVars
  PROVE  Unfinished'
  <1> SUFFICES ASSUME pc' \in StageLines PROVE \E f \in FilesOf(task)' : status'[f] # "DONE"
    BY DEF Unfinished
  <1>1. CASE UNCHANGED <<vars, pc, task>> /\ pc \in StageLines
    BY <1>1 DEF Unfinished, FilesOf, vars, fileVars
  <1>2. CASE UNCHANGED <<vars, task>> /\ HasStageWork(task)
    BY <1>2 DEF HasStageWork, FilesIn, FilesOf, vars, fileVars
  <1>3. CASE (StageRun \/ StageBatch) /\ pc \in StageLines /\ task' = task
    <2>1. PICK f \in FilesOf(task) : status[f] # "DONE"
      BY <1>3 DEF Unfinished
    <2>2. status'[f] # "DONE" /\ status'[f] # Absent
      BY <1>3, <2>1, StagingFinishesNone DEF FinishesNone, Staged, FilesOf, Absent
    <2>3. f \in FilesOf(task)'
      BY <1>3, <2>1, <2>2 DEF FilesOf
    <2> QED
      BY <2>2, <2>3
  <1> QED
    BY <1>1, <1>2, <1>3, StageLinesReached

LEMMA RootGoneStep ==
  ASSUME RootGone, [MoverNext]_moverVars
  PROVE  RootGone'
  <1> SUFFICES ASSUME pc' = "cleanup.rootrecord" PROVE task' \notin roots'
    BY DEF RootGone
  <1> USE DEF Tx, Branch, CallFails, Goto, Finish, Exit, context, world, baidu
  <1>1. CASE LateCommit \/ UNCHANGED moverVars
    BY <1>1 DEF LateCommit, moverVars, RootGone
  <1>2. CASE CleanupRoot
    BY <1>2 DEF CleanupRoot, DeleteRoot
  <1>3. ~(Scan \/ BeginPass \/ EndPass \/ Stop \/ Crash)
    BY DEF Scan, BeginPass, EndPass, Stop, Crash
  <1>4. ~(Ensure \/ Drive \/ CopyTo \/ Reconcile \/ Verify)
    BY DEF Ensure, Drive, CopyTo, Reconcile, Verify, MakeRoot, MakeDirectory
  <1>5. ~(Download \/ Fetch \/ CacheFails \/ LocalReady)
    BY DEF Download, Fetch, CacheFails, LocalReady
  <1>6. ~(Cleanup \/ CleanupLocal \/ CleanupDirectory)
    BY DEF Cleanup, CleanupLocal, CleanupDirectory, DeleteDirectory
  <1>7. ~(StageRun \/ StageBatch)
    BY DEF StageRun, StageBatch, MakeStaging, Confirm, Transfer
  <1>8. ~\E t \in Task : StartNew(t) \/ Launch(t)
    BY DEF StartNew, Launch, ResumeScan, ResumePipeline
  <1> QED
    BY <1>1, <1>2, <1>3, <1>4, <1>5, <1>6, <1>7, <1>8 DEF MoverNext, Run

(* A batch given up for good is one of a task whose root is not released.  *)
LEMMA ReleasedKept ==
  ASSUME TidyInv, StoreInv', [Next]_vars, [MoverNext]_moverVars, NEW u \in Task
  PROVE  Released(u)'
  <1>0. StoreInv /\ MoverInv /\ Released(u) /\ Unfinished
    BY DEF TidyInv, WatermarkInv, DeliveryInv
  <1>1. CASE DoneStays
    BY <1>0, <1>1, ReleasedStep
  <1>2. CASE pc = "stage.failed" /\ FailBatch(task, batch, TRUE)
    <2>1. task \in Task /\ TypeOK
      BY <1>0, <1>2 DEF MoverInv, InHand, StoreInv
    <2>2. rootOwned[task] \notin Authorized
      BY <1>2, <2>1 DEF TidyInv, Unfinished, Released, StageLines
    <2>3. UNCHANGED rootOwned
      BY <1>2 DEF FailBatch, ownedVars
    <2>4. CASE u = task
      BY <2>2, <2>3, <2>4 DEF Released
    <2>5. CASE u # task
      <3>1. ASSUME NEW f \in File, FileTask[f] = u PROVE status'[f] = status[f]
        BY <1>2, <2>5, <3>1 DEF FailBatch, MayFailBatch, StagingBatches, BatchesOf
      <3> QED
        BY <1>0, <2>3, <3>1 DEF Released, FilesOf
    <2> QED
      BY <2>4, <2>5
  <1> QED
    BY <1>0, <1>1, <1>2, DoneStaysStep

LEMMA RootsOwnedStep ==
  ASSUME TidyInv, [Next]_vars, [MoverNext]_moverVars
  PROVE  RootsOwned'
  <1>0. StoreInv /\ MoverInv /\ TypeOK
    BY DEF TidyInv, WatermarkInv, DeliveryInv, StoreInv
  <1> SUFFICES ASSUME NEW t \in Task, t \in roots'
               PROVE  rootOwned'[t] \notin {Absent, "CLEANED"}
    BY DEF RootsOwned
  <1>1. rootOwned[t] # Absent => rootOwned'[t] # Absent
    <2>1. CASE UNCHANGED vars
      BY <2>1 DEF vars, ownedVars
    <2>2. ASSUME NEW u \in Task, TaskStep(u) \/ BatchStep(u) \/ FileStep(u)
          PROVE  rootOwned[t] # Absent => rootOwned'[t] # Absent
      BY <1>0, <2>2, RootRow DEF Authorized, Absent
    <2> QED
      BY <2>1, <2>2 DEF Next
  <1>2. CASE t \in roots
    <2>1. rootOwned[t] \notin {Absent, "CLEANED"}
      BY <1>2 DEF TidyInv, RootsOwned
    <2>2. CASE RootKept
      BY <1>1, <2>1, <2>2 DEF RootKept
    <2>3. CASE pc = "cleanup.rootrecord" /\ MarkBaiduTaskRootCleanupDone(task)
      <3>1. t # task
        BY <1>2, <2>3 DEF TidyInv, RootGone
      <3>2. rootOwned'[t] = rootOwned[t]
        BY <1>0, <2>3, <3>1 DEF MarkBaiduTaskRootCleanupDone, TypeOK
      <3> QED
        BY <2>1, <3>2
    <2> QED
      BY <1>0, <2>2, <2>3, RootKeptStep
  <1>3. CASE t \notin roots
    <2>1. pc = "stage.mkdir" /\ t = task /\ UNCHANGED vars
      BY <1>3, RootsMade
    <2>2. batch \in BatchesOf(t) /\ batch \in Batch
      BY <2>1 DEF TidyInv, WatermarkInv, DeliveryInv, Hand, BatchesOf
    <2>3. PICK f \in batch : FileTask[f] = t
      BY <2>2, BatchFacts DEF BatchesOf
    <2>4. rootOwned[t] # Absent
      BY <1>0, <2>2, <2>3 DEF StoreInv, RowsConsistent, BatchesOf
    <2>5. rootOwned[t] \notin Authorized
      BY <2>1 DEF TidyInv, Unfinished, Released, StageLines
    <2> QED
      BY <2>1, <2>4, <2>5 DEF vars, ownedVars, Authorized
  <1> QED
    BY <1>2, <1>3

LEMMA TidyInvInit == MoverInit => TidyInv
  <1> SUFFICES ASSUME MoverInit PROVE TidyInv
    OBVIOUS
  <1>1. pc = "idle" /\ roots = {} /\ \A t \in Task : rootOwned[t] = Absent
    BY DEF MoverInit, Init
  <1>2. Unfinished /\ RootsOwned /\ RootGone /\ \A t \in Task : Released(t)
    BY <1>1 DEF Unfinished, RootsOwned, RootGone, Released, StageLines, Authorized, Absent
  <1> QED
    BY <1>2, WatermarkInvInit DEF TidyInv

LEMMA TidyInvStep ==
  ASSUME TidyInv, [MoverNext]_moverVars
  PROVE  TidyInv'
  <1>1. WatermarkInv' /\ StoreInv' /\ [Next]_vars
    BY WatermarkInvStep, MoverInvStep DEF TidyInv, WatermarkInv, DeliveryInv
  <1>2. Unfinished' /\ RootGone'
    BY UnfinishedStep, RootGoneStep DEF TidyInv
  <1>3. RootsOwned' /\ \A t \in Task : Released(t)'
    BY <1>1, RootsOwnedStep, ReleasedKept
  <1> QED
    BY <1>1, <1>2, <1>3 DEF TidyInv

(* The inductive invariant of what is left behind: a root exists only      *)
(* between its plan and the record of its deletion, it is released only    *)
(* when every file is done, and the staging, the one stage that makes it,  *)
(* is entered only while some file is not.                                 *)
THEOREM TidyInvariant == MoverSpec => []TidyInv
  <1>1. TidyInv /\ [MoverNext]_moverVars => TidyInv'
    BY TidyInvStep
  <1> QED
    BY TidyInvInit, <1>1, PTL DEF MoverSpec

(* A task is reported as completed only when its staging root, every copy  *)
(* in it and every byte in the cache are gone, for any workload, watermark *)
(* and number of crashes and failed calls (PipelineProgress.Complete of    *)
(* state/pipeline_store.go, and state/cleanup_root.go).                    *)
THEOREM CompletionIsTidy == MoverSpec => []NothingLeftBehind
  <1>1. ASSUME TidyInv PROVE NothingLeftBehind
    <2>0. StoreInv /\ StagingOK /\ Occupied
      BY <1>1 DEF TidyInv, WatermarkInv, DeliveryInv, Custody
    <2> SUFFICES ASSUME NEW t \in Task, taskStatus[t] = "COMPLETED"
                 PROVE  /\ t \notin roots
                        /\ \A f \in File : FileTask[f] = t => f \notin copies \cup OnDisk
      BY DEF NothingLeftBehind
    <2>1. Complete(t)
      BY <2>0 DEF StoreInv, CompletedEvidence
    <2>2. t \notin roots
      BY <1>1, <2>1 DEF Complete, TidyInv, RootsOwned
    <2>3. ASSUME NEW f \in File, FileTask[f] = t PROVE f \notin copies
      BY <2>0, <2>2, <2>3 DEF StagingOK
    <2>4. ASSUME NEW f \in File, FileTask[f] = t PROVE f \notin OnDisk
      BY <2>0, <2>1, <2>4 DEF Occupied, Lasting, Reserved, Complete, FilesOf, Absent
    <2> QED
      BY <2>2, <2>3, <2>4
  <1> QED
    BY TidyInvariant, <1>1, PTL


----------------------------------------------------------------------------
(* What the checks of the store ask for, at the lines that lead to them.   *)
CleaningLines == CleanupLines \cup {"cleanup.complete"}
RootLines     == {"cleanup.root", "cleanup.rootdelete", "cleanup.rootrecord"}
OfferedLines  == {"drive.file", "drive.copy", "drive.reconcile", "drive.record"}
UploadLines   == OfferedLines \cup {"drive.next", "drive.verify"}
BatchLines    == {"stage.start", "stage.mkdir", "stage.list", "stage.transfer", "stage.broken",
                  "stage.complete", "stage.fail", "stage.failed"}

TaskStanding ==
  /\ pc # "idle" => Resumable(task)
  /\ pc = "scan" => taskStatus[task] = "SCANNING" /\ ~scanCompleted[task]
  /\ pc \notin {"idle", "stop", "scan"} => scanCompleted[task]

CleanupStanding ==
  /\ pc \in CleaningLines =>
       batch \in BatchesOf(task) /\ \A f \in batch : status[f] = "CLEANUP_PENDING"
  /\ pc = "cleanup.mark" => file \in batch
  /\ pc = "cleanup.record" => batch \notin dirs
  /\ pc = "cleanup.complete" => batchOwned[batch] = "CLEANED"
  /\ pc \in RootLines => rootOwned[task] \in Authorized

DriveStanding ==
  /\ \A t \in Task : driveRoot[t] # NoId => rootObj[t] = driveRoot[t]
  /\ pc = "drive.dirs" => driveRoot[task] # NoId
  /\ pc \in UploadLines => TreeReady(task)
  /\ pc \in OfferedLines => file \in DriveUploadCandidates(task)
  /\ pc = "drive.record" => objects[file] # {}
  /\ pc = "drive.verify" => file \in FilesIn(task, {"DRIVE_UPLOADED"})

StageStanding ==
  /\ pc \in BatchLines => batch \in StagingBatches(task)
  /\ pc = "stage.complete" => \A f \in batch : status[f] \in StagingConfirmationAlreadyConsumed

Standing == TaskStanding /\ CleanupStanding /\ DriveStanding /\ StageStanding

(* A step between the scan and the end of the run: the manifest stays      *)
(* complete, and the task is one that can be resumed.                      *)
Underway ==
  /\ pc \notin {"idle", "stop", "scan"} /\ pc' \notin {"idle", "scan"} /\ task' = task
  /\ \/ UNCHANGED <<taskStatus, scanCompleted>>
     \/ \E s \in {"RUNNING", "PAUSED"} : UpdateTaskStatus(task, s)

LEMMA StagesUnderway ==
  /\ BeginPass \/ EndPass => Underway \/ pc' = "idle"
  /\ Cleanup \/ CleanupLocal \/ CleanupDirectory \/ CleanupRoot => Underway \/ pc' = "idle"
  /\ Ensure \/ Drive \/ CopyTo \/ Reconcile \/ Verify => Underway
  /\ Download \/ Fetch \/ LocalReady \/ CacheFails => Underway
  /\ StageRun \/ StageBatch => Underway
  <1> USE DEF Tx, Branch, CallFails, Goto, Finish, Exit, Underway, context, vars, taskVars
  <1>1. BeginPass \/ EndPass => Underway \/ pc' = "idle"
    BY DEF BeginPass, EndPass
  <1>2. Cleanup \/ CleanupLocal => Underway \/ pc' = "idle"
    BY DEF Cleanup, CleanupLocal, AuthorizeBatchCleanup, AuthorizeTaskRootCleanup,
           MarkLocalCacheCleanupDone
  <1>3. CleanupDirectory \/ CleanupRoot => Underway \/ pc' = "idle"
    BY DEF CleanupDirectory, CleanupRoot, DeleteDirectory, DeleteRoot,
           MarkBaiduBatchCleanupDone, CompleteBatchCleanup, MarkBaiduTaskRootCleanupDone
  <1>4. Ensure => Underway
    BY DEF Ensure, MakeRoot, MakeDirectory, SetTaskDriveRoot, RecordDirectoryDriveID
  <1>5. Drive \/ CopyTo \/ Reconcile \/ Verify => Underway
    BY DEF Drive, CopyTo, Reconcile, Verify, StartDriveUpload, RecordDriveFailure,
           RecordDriveUploaded, MarkDriveVerified
  <1>6. Download \/ Fetch \/ LocalReady \/ CacheFails => Underway
    BY DEF Download, Fetch, LocalReady, CacheFails, StartDownload, RecordDownloadFailure,
           MarkLocalReady
  <1>7. StageRun \/ StageBatch => Underway
    BY DEF StageRun, StageBatch, MakeStaging, Confirm, Transfer, PlanBatches, StartBatch,
           RecordStagedFiles, CompleteBatch, FailBatch
  <1> QED
    BY <1>1, <1>2, <1>3, <1>4, <1>5, <1>6, <1>7

LEMMA TaskStandingStep ==
  ASSUME StoreInv, ContextOK, TaskStanding, [MoverNext]_moverVars
  PROVE  TaskStanding'
  <1>0. TypeOK
    BY DEF StoreInv
  <1>1. CASE Underway
    <2>1. task \in Task /\ task' = task /\ Resumable(task) /\ scanCompleted[task]
      BY <1>1 DEF Underway, TaskStanding, ContextOK
    <2>2. Resumable(task)' /\ scanCompleted'[task]
      BY <1>0, <1>1, <2>1 DEF Underway, UpdateTaskStatus, Resumable, TypeOK, TaskStatus
    <2> QED
      BY <1>1, <2>1, <2>2 DEF Underway, TaskStanding, Resumable
  <1>2. CASE pc' = "idle"
    BY <1>2 DEF TaskStanding
  <1>3. CASE Scan \/ Stop \/ Crash
    <2>1. CASE pc = "scan" /\ task' = task /\ pc' \in {"scan", "stop"}
               /\ UNCHANGED <<taskStatus, scanCompleted>>
      BY <2>1 DEF TaskStanding, Resumable
    <2>2. CASE pc = "scan" /\ task' = task /\ pc' = "pass" /\ CompleteTaskScan(task)
      <3>1. task \in Task
        BY <2>2 DEF ContextOK
      <3> QED
        BY <1>0, <2>2, <3>1 DEF TaskStanding, Resumable, CompleteTaskScan, TypeOK, TaskStatus
    <2> QED
      BY <1>2, <1>3, <2>1, <2>2
         DEF Scan, Stop, Crash, Exit, Tx, Branch, CallFails, Goto, context, vars, taskVars,
             UpsertManifestPage
  <1>4. CASE LateCommit \/ UNCHANGED moverVars
    BY <1>4 DEF LateCommit, moverVars, context, vars, taskVars, TaskStanding, Resumable
  <1>5. ASSUME NEW t \in Task, StartNew(t) \/ Launch(t) PROVE TaskStanding'
    <2>1. task' = t
      BY <1>5 DEF StartNew, Launch, ResumeScan, ResumePipeline
    <2>2. CASE pc' = "scan" /\ taskStatus'[t] = "SCANNING" /\ ~scanCompleted'[t]
      BY <2>1, <2>2 DEF TaskStanding, Resumable, TaskStatus
    <2>3. CASE pc' = "pass" /\ Resumable(t) /\ scanCompleted[t] /\ UNCHANGED vars
      BY <2>1, <2>3 DEF TaskStanding, Resumable, vars, taskVars
    <2>4. CASE StartNew(t)
      <3>1. taskStatus[t] = Absent => ~scanCompleted[t]
        BY DEF StoreInv, RowsConsistent
      <3> QED
        BY <1>0, <2>2, <2>4, <3>1 DEF StartNew, CreateTask, Goto, TypeOK
    <2>5. CASE Launch(t)
      BY <1>0, <2>2, <2>3, <2>5
         DEF Launch, ResumeScan, ResumePipeline, UpdateTaskStatus, Goto, TypeOK
    <2> QED
      BY <1>5, <2>4, <2>5
  <1> QED
    BY <1>1, <1>2, <1>3, <1>4, <1>5, StagesUnderway DEF MoverNext, Run

LEMMA CleanupStandingStep ==
  ASSUME TypeOK, ContextOK, CleanupStanding, [MoverNext]_moverVars
  PROVE  CleanupStanding'
  <1> USE DEF Tx, Branch, CallFails, Goto, Finish, Exit
  <1>1. CASE LateCommit \/ UNCHANGED moverVars
    BY <1>1 DEF LateCommit, moverVars, context, world, baidu, vars, fileVars, ownedVars,
                CleanupStanding, BatchesOf
  <1>2. CASE pc' \notin CleaningLines \cup RootLines
    BY <1>2 DEF CleanupStanding, CleaningLines, CleanupLines, RootLines
  <1>3. ASSUME pc \in CleaningLines, UNCHANGED <<status, batchStatus, task, batch>>
        PROVE  batch' \in BatchesOf(task)' /\ \A f \in batch' : status'[f] = "CLEANUP_PENDING"
    BY <1>3 DEF CleanupStanding, BatchesOf
  <1>4. CASE Cleanup
    <2>1. CASE /\ Goto("cleanup.next", "cleanup.local") /\ task' = task
               /\ AuthorizeBatchCleanup(task, batch')
      <3>1. PICK b : b = batch'
        OBVIOUS
      <3>2. b \in BatchesOf(task) /\ b \in Batch /\ UNCHANGED batchStatus
        BY <2>1, <3>1 DEF AuthorizeBatchCleanup, MayAuthorizeBatchCleanup, BatchesOf
      <3>3. \A f \in b : status'[f] = "CLEANUP_PENDING"
        BY <2>1, <3>1, <3>2, BatchFacts DEF AuthorizeBatchCleanup
      <3>4. batch' \in BatchesOf(task)'
        BY <2>1, <3>1, <3>2 DEF BatchesOf
      <3> QED
        BY <2>1, <3>1, <3>3, <3>4 DEF CleanupStanding, RootLines
    <2>2. CASE pc' = "cleanup.root" /\ task' = task /\ AuthorizeTaskRootCleanup(task)
      <3>1. task \in Task
        BY <1>4, <2>2 DEF Cleanup, ContextOK
      <3>2. rootOwned'[task] \in Authorized
        BY <2>2, <3>1 DEF AuthorizeTaskRootCleanup, Allow, Authorized, TypeOK
      <3> QED
        BY <2>2, <3>2 DEF CleanupStanding, CleaningLines, CleanupLines
    <2> QED
      BY <1>2, <1>4, <2>1, <2>2 DEF Cleanup, CleaningLines, CleanupLines, RootLines, context
  <1>5. CASE CleanupLocal
    <2>1. pc \in CleaningLines /\ UNCHANGED <<status, batchStatus, task, batch>>
      BY <1>5 DEF CleanupLocal, CleaningLines, CleanupLines, MarkLocalCacheCleanupDone, fileVars,
                  context, vars
    <2>2. pc' = "cleanup.mark" => file' \in batch'
      BY <1>5 DEF CleanupLocal
    <2>3. pc' \in {"cleanup.mark", "cleanup.local", "cleanup.dir"}
      BY <1>5 DEF CleanupLocal
    <2> QED
      BY <1>3, <2>1, <2>2, <2>3 DEF CleanupStanding, RootLines
  <1>6. CASE CleanupDirectory
    <2>1. CASE pc' \in {"cleanup.record", "cleanup.delete", "cleanup.complete"}
      <3>1. pc \in CleaningLines /\ UNCHANGED <<status, batchStatus, task, batch>>
        BY <1>6, <2>1 DEF CleanupDirectory, DeleteDirectory, CleaningLines, CleanupLines,
                          MarkBaiduBatchCleanupDone, fileVars, context, vars
      <3>2. pc' = "cleanup.record" => batch' \notin dirs'
        BY <1>6 DEF CleanupDirectory, DeleteDirectory, context, world, baidu
      <3>3. pc' = "cleanup.complete" => batchOwned'[batch'] = "CLEANED"
        <4>1. CASE MarkBaiduBatchCleanupDone(task, batch) /\ batch' = batch
          BY <4>1 DEF MarkBaiduBatchCleanupDone, MayMarkBaiduBatchCleanupDone, BatchesOf, TypeOK
        <4> QED
          BY <1>6, <2>1, <4>1 DEF CleanupDirectory, DeleteDirectory, context, vars, ownedVars
      <3> QED
        BY <1>3, <2>1, <3>1, <3>2, <3>3 DEF CleanupStanding, RootLines
    <2> QED
      BY <1>2, <1>6, <2>1
         DEF CleanupDirectory, DeleteDirectory, CleaningLines, CleanupLines, RootLines
  <1>7. CASE CleanupRoot
    <2>1. CASE pc \in RootLines /\ pc' \in RootLines /\ UNCHANGED <<vars, context>>
      BY <2>1 DEF CleanupStanding, RootLines, CleaningLines, CleanupLines, context, vars, ownedVars
    <2> QED
      BY <1>2, <1>7, <2>1
         DEF CleanupRoot, DeleteRoot, CleaningLines, CleanupLines, RootLines
  <1>8. CASE \/ Scan \/ BeginPass \/ EndPass \/ Stop \/ Crash
             \/ \E t \in Task : StartNew(t) \/ Launch(t)
    BY <1>2, <1>8 DEF Scan, BeginPass, EndPass, Stop, Crash, StartNew, Launch, ResumeScan,
                      ResumePipeline, CleaningLines, CleanupLines, RootLines
  <1>9. CASE Ensure \/ Drive \/ CopyTo \/ Reconcile \/ Verify
    BY <1>2, <1>9 DEF Ensure, Drive, CopyTo, Reconcile, Verify, MakeRoot, MakeDirectory,
                      CleaningLines, CleanupLines, RootLines
  <1>10. CASE Download \/ Fetch \/ LocalReady \/ CacheFails
    BY <1>2, <1>10 DEF Download, Fetch, LocalReady, CacheFails, CleaningLines, CleanupLines,
                       RootLines
  <1>11. CASE StageRun \/ StageBatch
    BY <1>2, <1>11 DEF StageRun, StageBatch, MakeStaging, Confirm, Transfer, CleaningLines,
                       CleanupLines, RootLines
  <1> QED
    BY <1>1, <1>4, <1>5, <1>6, <1>7, <1>8, <1>9, <1>10, <1>11 DEF MoverNext, Run

(* The folder of a task: it is made, and recorded, by Ensure only.         *)
LEMMA FolderStep ==
  ASSUME [MoverNext]_moverVars
  PROVE  \/ UNCHANGED <<driveRoot, rootObj>>
         \/ /\ driveRoot[task] = NoId /\ UNCHANGED driveRoot
            /\ \E id : rootObj' = [rootObj EXCEPT ![task] = id]
         \/ SetTaskDriveRoot(task, rootObj[task]) /\ UNCHANGED rootObj
  <1> USE DEF Tx, Branch, CallFails, Finish, Exit, world, drive, vars, taskVars
  <1>1. CASE \/ Scan \/ BeginPass \/ EndPass \/ Stop \/ Crash \/ LateCommit
             \/ UNCHANGED moverVars
    BY <1>1 DEF Scan, BeginPass, EndPass, Stop, Crash, LateCommit, moverVars, UpdateTaskStatus,
                UpsertManifestPage, CompleteTaskScan
  <1>2. CASE Ensure
    BY <1>2 DEF Ensure, MakeRoot, MakeDirectory, RecordDirectoryDriveID
  <1>3. CASE Drive \/ CopyTo \/ Reconcile \/ Verify
    BY <1>3 DEF Drive, CopyTo, Reconcile, Verify, UpdateTaskStatus, StartDriveUpload,
                RecordDriveUploaded, MarkDriveVerified, RecordDriveFailure
  <1>4. CASE Download \/ Fetch \/ LocalReady \/ CacheFails
    BY <1>4 DEF Download, Fetch, LocalReady, CacheFails, UpdateTaskStatus, StartDownload,
                RecordDownloadFailure, MarkLocalReady
  <1>5. CASE StageRun \/ StageBatch
    BY <1>5 DEF StageRun, StageBatch, MakeStaging, Confirm, Transfer, UpdateTaskStatus,
                PlanBatches, StartBatch, RecordStagedFiles, CompleteBatch, FailBatch
  <1>6. CASE Cleanup \/ CleanupLocal
    BY <1>6 DEF Cleanup, CleanupLocal, UpdateTaskStatus, AuthorizeBatchCleanup,
                AuthorizeTaskRootCleanup, MarkLocalCacheCleanupDone
  <1>7. CASE CleanupDirectory \/ CleanupRoot
    BY <1>7 DEF CleanupDirectory, CleanupRoot, DeleteDirectory, DeleteRoot, UpdateTaskStatus,
                MarkBaiduBatchCleanupDone, CompleteBatchCleanup, MarkBaiduTaskRootCleanupDone
  <1>8. CASE \E t \in Task : StartNew(t) \/ Launch(t)
    BY <1>8 DEF StartNew, Launch, ResumeScan, ResumePipeline, CreateTask, UpdateTaskStatus
  <1> QED
    BY <1>1, <1>2, <1>3, <1>4, <1>5, <1>6, <1>7, <1>8 DEF MoverNext, Run

LEMMA FolderKept ==
  ASSUME TypeOK, DriveTypeOK, [MoverNext]_moverVars, NEW t \in Task,
         driveRoot[t] # NoId => rootObj[t] = driveRoot[t]
  PROVE  driveRoot'[t] # NoId => rootObj'[t] = driveRoot'[t]
  <1>1. CASE UNCHANGED <<driveRoot, rootObj>>
    BY <1>1
  <1>2. ASSUME NEW id, rootObj' = [rootObj EXCEPT ![task] = id], driveRoot[task] = NoId,
               UNCHANGED driveRoot
        PROVE  driveRoot'[t] # NoId => rootObj'[t] = driveRoot'[t]
    BY <1>2 DEF DriveTypeOK
  <1>3. CASE SetTaskDriveRoot(task, rootObj[task]) /\ UNCHANGED rootObj
    BY <1>3 DEF SetTaskDriveRoot, TypeOK
  <1> QED
    BY <1>1, <1>2, <1>3, FolderStep

LEMMA DriveStandingStep ==
  ASSUME TypeOK, MoverInv, DriveStanding, [MoverNext]_moverVars
  PROVE  DriveStanding'
  <1> USE DEF Tx, Branch, CallFails, Goto, Finish, Exit
  <1>0. \A t \in Task : driveRoot'[t] # NoId => rootObj'[t] = driveRoot'[t]
    BY FolderKept DEF DriveStanding, MoverInv
  <1>1. CASE UNCHANGED moverVars
    BY <1>1 DEF moverVars, context, world, drive, vars, taskVars, fileVars, DriveStanding, TreeReady,
                DriveUploadCandidates, FilesIn, FilesOf
  <1>2. CASE pc' \notin UploadLines \cup {"drive.dirs"}
    BY <1>0, <1>2 DEF DriveStanding, UploadLines, OfferedLines
  <1>3. CASE LateCommit
    <2>1. UNCHANGED <<vars, pc, task, file>>
      BY <1>3 DEF LateCommit, context
    <2>2. \A f \in File : objects[f] # {} => objects'[f] # {}
      BY <1>3 DEF LateCommit, Commit, MoverInv, DriveTypeOK
    <2>3. pc = "drive.record" => file \in File
      BY DEF DriveStanding, OfferedLines, DriveUploadCandidates, FilesIn, FilesOf
    <2> QED
      BY <1>0, <2>1, <2>2, <2>3
         DEF vars, taskVars, fileVars, DriveStanding, TreeReady, DriveUploadCandidates, FilesIn,
             FilesOf
  <1>4. CASE Ensure
    <2>1. CASE pc' = "drive.dirs"
      <3>1. task' = task /\ task \in Task
        BY <1>4, <2>1 DEF Ensure, MakeRoot, MakeDirectory, context, MoverInv, InHand
      <3>2. driveRoot'[task] # NoId
        <4>1. CASE SetTaskDriveRoot(task, rootObj[task]) /\ rootObj[task] # NoId
          BY <3>1, <4>1 DEF SetTaskDriveRoot, TypeOK
        <4> QED
          BY <1>4, <2>1, <4>1
             DEF Ensure, MakeRoot, MakeDirectory, RecordDirectoryDriveID, DriveStanding, vars,
                 taskVars
      <3> QED
        BY <1>0, <2>1, <3>1, <3>2 DEF DriveStanding, UploadLines, OfferedLines
    <2>2. CASE Branch("drive.dirs", "drive.next", DirsLeft(task) = {})
      BY <1>0, <2>2 DEF DriveStanding, UploadLines, OfferedLines, DirsLeft, TreeReady, vars,
                        taskVars, context
    <2> QED
      BY <1>2, <1>4, <2>1, <2>2 DEF Ensure, MakeRoot, MakeDirectory, UploadLines, OfferedLines
  <1>5. ASSUME pc \in UploadLines, UNCHANGED <<driveRoot, dirId, task>>
        PROVE  TreeReady(task)'
    BY <1>5 DEF DriveStanding, TreeReady
  <1>6. ASSUME pc \in OfferedLines, UNCHANGED <<status, task, file>>
        PROVE  file' \in DriveUploadCandidates(task)'
    BY <1>6 DEF DriveStanding, DriveUploadCandidates, FilesIn, FilesOf
  <1>7. CASE Drive
    <2>1. CASE pc' \in UploadLines
      <3>1. TreeReady(task)' /\ pc' \in OfferedLines
        BY <1>5, <1>7, <2>1
           DEF Drive, UploadLines, OfferedLines, vars, taskVars, context, StartDriveUpload
      <3>2. file' \in DriveUploadCandidates(task)'
        <4>1. CASE StartDriveUpload(task, file) /\ UNCHANGED <<task, file>>
          BY <4>1 DEF StartDriveUpload, MayStartDriveUpload, DriveUploadCandidates, FilesIn,
                      FilesOf, TypeOK, Absent
        <4>2. CASE IsFirst(file', DriveUploadCandidates(task), PathRank) /\ UNCHANGED <<vars, task>>
          BY <4>2 DEF IsFirst, DriveUploadCandidates, FilesIn, FilesOf, vars, fileVars
        <4> QED
          BY <1>6, <1>7, <2>1, <4>1, <4>2
             DEF Drive, UploadLines, OfferedLines, vars, fileVars, context
      <3>3. pc' = "drive.record" => objects'[file'] # {}
        BY <1>7 DEF Drive, context, world, drive
      <3> QED
        BY <1>0, <2>1, <3>1, <3>2, <3>3 DEF DriveStanding, UploadLines, OfferedLines
    <2> QED
      BY <1>2, <1>7, <2>1 DEF Drive
  <1>8. CASE CopyTo
    <2>1. pc \in OfferedLines /\ pc' = "drive.reconcile" /\ UNCHANGED <<vars, task, file>>
      BY <1>8 DEF CopyTo, OfferedLines, context
    <2> QED
      BY <1>0, <1>5, <1>6, <2>1 DEF DriveStanding, UploadLines, OfferedLines, vars, taskVars,
                                    fileVars
  <1>9. CASE Reconcile
    <2>1. CASE pc' \in {"drive.record", "drive.copy"}
      <3>1. pc \in OfferedLines /\ UNCHANGED <<vars, task, file>>
        BY <1>9, <2>1 DEF Reconcile, OfferedLines, context
      <3>2. pc' = "drive.record" => objects'[file'] # {}
        <4>1. Cardinality({}) = 0
          BY ONLY FS_EmptySet
        <4> QED
          BY <1>9, <4>1 DEF Reconcile, context, world, drive
      <3> QED
        BY <1>0, <1>5, <1>6, <2>1, <3>1, <3>2
           DEF DriveStanding, UploadLines, OfferedLines, vars, taskVars, fileVars
    <2> QED
      BY <1>2, <1>9, <2>1 DEF Reconcile, UploadLines, OfferedLines
  <1>10. CASE Verify
    <2>1. CASE pc' = "drive.verify"
      <3>1. /\ pc = "drive.record" /\ UNCHANGED <<task, file>>
            /\ \E id \in objects[file] : RecordDriveUploaded(task, file, id)
        BY <1>10, <2>1 DEF Verify, context
      <3>2. TreeReady(task)'
        BY <1>5, <3>1 DEF UploadLines, OfferedLines, RecordDriveUploaded, taskVars
      <3>3. file' \in FilesIn(task, {"DRIVE_UPLOADED"})'
        BY <3>1 DEF RecordDriveUploaded, MayRecordDriveUploaded, DriveUploadCandidates, FilesIn,
                    FilesOf, TypeOK, Absent
      <3> QED
        BY <1>0, <2>1, <3>2, <3>3 DEF DriveStanding, UploadLines, OfferedLines
    <2>2. CASE pc' = "drive.next"
      <3>1. /\ pc = "drive.verify" /\ UNCHANGED <<task, file>>
            /\ MarkDriveVerified(task, file, driveId[file])
        BY <1>10, <2>2 DEF Verify, context
      <3>2. TreeReady(task)'
        BY <1>5, <3>1 DEF UploadLines, OfferedLines, MarkDriveVerified, taskVars
      <3> QED
        BY <1>0, <2>2, <3>2 DEF DriveStanding, UploadLines, OfferedLines
    <2> QED
      BY <1>2, <1>10, <2>1, <2>2 DEF Verify, UploadLines, OfferedLines
  <1>11. CASE \/ Scan \/ BeginPass \/ EndPass \/ Stop \/ Crash
              \/ \E t \in Task : StartNew(t) \/ Launch(t)
    BY <1>2, <1>11 DEF Scan, BeginPass, EndPass, Stop, Crash, StartNew, Launch, ResumeScan,
                       ResumePipeline, UploadLines, OfferedLines
  <1>12. CASE Cleanup \/ CleanupLocal \/ CleanupDirectory \/ CleanupRoot
    BY <1>2, <1>12 DEF Cleanup, CleanupLocal, CleanupDirectory, CleanupRoot, DeleteDirectory,
                       DeleteRoot, UploadLines, OfferedLines
  <1>13. CASE Download \/ Fetch \/ LocalReady \/ CacheFails
    BY <1>2, <1>13 DEF Download, Fetch, LocalReady, CacheFails, UploadLines, OfferedLines
  <1>14. CASE StageRun \/ StageBatch
    BY <1>2, <1>14 DEF StageRun, StageBatch, MakeStaging, Confirm, Transfer, UploadLines,
                       OfferedLines
  <1> QED
    BY <1>1, <1>3, <1>4, <1>7, <1>8, <1>9, <1>10, <1>11, <1>12, <1>13, <1>14 DEF MoverNext, Run

LEMMA StageStandingStep ==
  ASSUME TypeOK, StageStanding, [MoverNext]_moverVars
  PROVE  StageStanding'
  <1> USE DEF Tx, Branch, CallFails, Goto, Finish, Exit
  <1>1. CASE LateCommit \/ UNCHANGED moverVars
    BY <1>1 DEF LateCommit, moverVars, context, vars, fileVars, StageStanding, StagingBatches,
                BatchesOf
  <1>2. CASE pc' \notin BatchLines
    BY <1>2 DEF StageStanding, BatchLines
  <1>3. ASSUME pc \in BatchLines, UNCHANGED <<batchStatus, task, batch>>
        PROVE  batch' \in StagingBatches(task)'
    BY <1>3 DEF StageStanding, StagingBatches, BatchesOf
  <1>4. CASE StageRun
    <2>1. CASE /\ pc' = "stage.start" /\ task' = task /\ NextBatch(task, batch')
               /\ UpdateTaskStatus(task, "RUNNING")
      BY <2>1 DEF NextBatch, IsFirst, UpdateTaskStatus, StageStanding, StagingBatches, BatchesOf
    <2>2. CASE pc' = "stage.mkdir" /\ UNCHANGED <<task, batch>> /\ StartBatch(task, batch)
      <3>1. batch \in BatchesOf(task) /\ batch \in Batch
        BY <2>2 DEF StartBatch, MayStartBatch, BatchesOf
      <3>2. batch' \in StagingBatches(task)'
        BY <2>2, <3>1 DEF StartBatch, StagingBatches, BatchesOf, Stageable, TypeOK, Absent
      <3> QED
        BY <2>2, <3>2 DEF StageStanding
    <2> QED
      BY <1>2, <1>4, <2>1, <2>2 DEF StageRun, BatchLines, context
  <1>5. CASE StageBatch
    <2>1. CASE pc' \in BatchLines
      <3>1. batch' \in StagingBatches(task)'
        <4>1. CASE FailBatch(task, batch, FALSE) /\ UNCHANGED <<task, batch>>
          BY <4>1 DEF FailBatch, MayFailBatch, StagingBatches, BatchesOf, Stageable, TypeOK, Absent
        <4> QED
          BY <1>3, <1>5, <2>1, <4>1
             DEF StageBatch, MakeStaging, Confirm, Transfer, RecordStagedFiles, BatchLines,
                 context, vars
      <3>2. ASSUME pc' = "stage.complete"
            PROVE  \A f \in batch' : status'[f] \in StagingConfirmationAlreadyConsumed
        <4>1. /\ pc \in BatchLines /\ batch' = batch /\ batch \cap copies = batch
              /\ RecordStagedFiles(task, batch, batch \cap copies) \/ batch = {}
          BY <1>5, <3>2
             DEF StageBatch, MakeStaging, Confirm, Transfer, Missing, BatchLines, context
        <4>2. \A f \in batch : f \in File
          BY <4>1, BatchFacts DEF StageStanding, StagingBatches, BatchesOf
        <4> QED
          BY <4>1, <4>2 DEF RecordStagedFiles, MayRecordStagedFiles,
                            StagingConfirmationAlreadyConsumed
      <3> QED
        BY <3>1, <3>2 DEF StageStanding
    <2> QED
      BY <1>2, <2>1
  <1>6. CASE \/ Scan \/ BeginPass \/ EndPass \/ Stop \/ Crash
             \/ \E t \in Task : StartNew(t) \/ Launch(t)
    BY <1>2, <1>6 DEF Scan, BeginPass, EndPass, Stop, Crash, StartNew, Launch, ResumeScan,
                      ResumePipeline, BatchLines
  <1>7. CASE Ensure \/ Drive \/ CopyTo \/ Reconcile \/ Verify
    BY <1>2, <1>7 DEF Ensure, Drive, CopyTo, Reconcile, Verify, MakeRoot, MakeDirectory,
                      BatchLines
  <1>8. CASE Download \/ Fetch \/ LocalReady \/ CacheFails
    BY <1>2, <1>8 DEF Download, Fetch, LocalReady, CacheFails, BatchLines
  <1>9. CASE Cleanup \/ CleanupLocal \/ CleanupDirectory \/ CleanupRoot
    BY <1>2, <1>9 DEF Cleanup, CleanupLocal, CleanupDirectory, CleanupRoot, DeleteDirectory,
                      DeleteRoot, BatchLines
  <1> QED
    BY <1>1, <1>4, <1>5, <1>6, <1>7, <1>8, <1>9 DEF MoverNext, Run

StandingInv == TidyInv /\ Standing

LEMMA StandingInvInit == MoverInit => StandingInv
  <1> SUFFICES ASSUME MoverInit PROVE StandingInv
    OBVIOUS
  <1>1. pc = "idle" /\ \A t \in Task : driveRoot[t] = NoId
    BY DEF MoverInit, Init
  <1>2. Standing
    BY <1>1 DEF Standing, TaskStanding, CleanupStanding, DriveStanding, StageStanding,
                CleaningLines, CleanupLines, RootLines, UploadLines, OfferedLines, BatchLines
  <1> QED
    BY <1>2, TidyInvInit DEF StandingInv

LEMMA StandingInvStep ==
  ASSUME StandingInv, [MoverNext]_moverVars
  PROVE  StandingInv'
  <1>1. TidyInv /\ StoreInv /\ TypeOK /\ MoverInv /\ ContextOK
    BY DEF StandingInv, TidyInv, WatermarkInv, DeliveryInv, StoreInv
  <1>2. TidyInv'
    BY <1>1, TidyInvStep
  <1>3. Standing'
    BY <1>1, TaskStandingStep, CleanupStandingStep, DriveStandingStep, StageStandingStep
       DEF StandingInv, Standing
  <1> QED
    BY <1>2, <1>3 DEF StandingInv

(* The inductive invariant of the program's tests: what a stage has tested *)
(* on the way to a line still holds there, because the steps in between    *)
(* keep it and a run that died starts from its first line.                 *)
THEOREM StandingInvariant == MoverSpec => []StandingInv
  <1>1. StandingInv /\ [MoverNext]_moverVars => StandingInv'
    BY StandingInvStep
  <1> QED
    BY StandingInvInit, <1>1, PTL DEF MoverSpec

----------------------------------------------------------------------------
(* The checks of the store, line by line.                                  *)
LEMMA TaskChecks ==
  ASSUME StandingInv
  PROVE  /\ pc # "idle" => \A s \in {"PAUSED", "BLOCKED"} : MayUpdateTaskStatus(task, s)
         /\ pc \in {"cleanup", "drive", "download", "stage.check"} =>
              MayUpdateTaskStatus(task, "RUNNING")
         /\ pc \in {"pass", "end", "cleanup.end"} =>
              /\ HasFailed(task) => MayUpdateTaskStatus(task, "FAILED")
              /\ Complete(task) => MayUpdateTaskStatus(task, "COMPLETED")
         /\ pc = "scan" =>
              /\ MayCompleteTaskScan(task)
              /\ \A p \in PagesOf(task) :
                   Agrees(task, p.dirs, p.files) => MayUpsertManifestPage(task, p.dirs, p.files)
  <1>1. TaskStanding
    BY DEF StandingInv, Standing
  <1>2. ASSUME NEW p \in PagesOf(task)
        PROVE  /\ \A d \in p.dirs : DirTask[d] = task
               /\ \A f \in p.files : FileTask[f] = task
    BY <1>2, MoverAssumption DEF PagesOf
  <1> QED
    BY <1>1, <1>2 DEF TaskStanding, MayUpdateTaskStatus, MayUpsertManifestPage,
                      MayCompleteTaskScan, HasFailed

LEMMA CleanupChecks ==
  ASSUME StandingInv
  PROVE  /\ pc = "cleanup.next" =>
              /\ \A b \in CleanupCandidates(task) : MayAuthorizeBatchCleanup(task, b)
              /\ TaskRootCleanupCandidate(task) => MayAuthorizeTaskRootCleanup(task)
         /\ pc = "cleanup.mark" => MayMarkLocalCacheCleanupDone(task, file)
         /\ pc = "cleanup.record" => MayMarkBaiduBatchCleanupDone(task, batch)
         /\ pc = "cleanup.complete" => MayCompleteBatchCleanup(task, batch)
         /\ pc = "cleanup.rootrecord" => MayMarkBaiduTaskRootCleanupDone(task)
  <1>1. /\ StoreInv /\ InHand /\ RowsOK
        /\ TaskStanding /\ CleanupStanding
    BY DEF StandingInv, Standing, TidyInv, WatermarkInv, DeliveryInv, MoverInv, Custody
  <1>2. pc \in CleaningLines \cup RootLines \cup {"cleanup.next"} =>
          Resumable(task) /\ scanCompleted[task]
    BY <1>1 DEF TaskStanding, CleaningLines, CleanupLines, RootLines
  <1>3. ASSUME NEW b \in CleanupCandidates(task), pc = "cleanup.next"
        PROVE  MayAuthorizeBatchCleanup(task, b)
    <2>1. b \in BatchesOf(task) /\ b \in Batch /\ batchOwned[b] # Absent
      BY <1>1, <1>3 DEF CleanupCandidates, BatchesOf, StoreInv, RowsConsistent
    <2>2. \A f \in b : f \in File /\ status[f] \in {"DRIVE_VERIFIED", "CLEANUP_PENDING"}
      BY <1>3 DEF CleanupCandidates, FilesIn, FilesOf
    <2>3. \A f \in b : driveId[f] # NoId /\ cachePath[f] = "bin"
      BY <1>1, <2>2 DEF StoreInv, UploadEvidence, Verified
    <2> QED
      BY <1>2, <1>3, <2>1, <2>2, <2>3 DEF MayAuthorizeBatchCleanup
  <1>4. pc = "cleanup.next" =>
          (TaskRootCleanupCandidate(task) => MayAuthorizeTaskRootCleanup(task))
    BY <1>2 DEF TaskRootCleanupCandidate, MayAuthorizeTaskRootCleanup
  <1>5. pc \in CleaningLines => batch \in BatchesOf(task) /\ batch \in Batch
    BY <1>1 DEF CleanupStanding, BatchesOf
  <1>6. ASSUME pc = "cleanup.mark" PROVE MayMarkLocalCacheCleanupDone(task, file)
    <2>1. pc \in CleanupLines /\ pc \in CleaningLines
      BY <1>6 DEF CleaningLines, CleanupLines
    <2>2. file \in batch /\ file \in File /\ FileTask[file] = task
      BY <1>1, <1>5, <1>6, <2>1, BatchFacts DEF CleanupStanding, BatchesOf
    <2>3. status[file] # Absent
      BY <1>1, <2>1, <2>2 DEF CleanupStanding, Absent
    <2>4. localOwned[file] \in Authorized
      BY <1>1, <2>1, <2>2 DEF InHand, StoreInv, CleanupGate
    <2> QED
      BY <1>2, <2>1, <2>2, <2>3, <2>4 DEF MayMarkLocalCacheCleanupDone, FilesOf
  <1>7. pc = "cleanup.record" => MayMarkBaiduBatchCleanupDone(task, batch)
    BY <1>1, <1>2, <1>5 DEF MayMarkBaiduBatchCleanupDone, InHand, CleaningLines, CleanupLines
  <1>8. pc = "cleanup.complete" => MayCompleteBatchCleanup(task, batch)
    BY <1>1, <1>2, <1>5 DEF MayCompleteBatchCleanup, CleanupStanding, CleaningLines, RowsOK
  <1>9. pc = "cleanup.rootrecord" => MayMarkBaiduTaskRootCleanupDone(task)
    BY <1>1, <1>2 DEF MayMarkBaiduTaskRootCleanupDone, CleanupStanding, RootLines
  <1> QED
    BY <1>3, <1>4, <1>6, <1>7, <1>8, <1>9

LEMMA DriveChecks ==
  ASSUME StandingInv
  PROVE  /\ pc = "drive.root" /\ rootObj[task] # NoId => MaySetTaskDriveRoot(task, rootObj[task])
         /\ pc = "drive.dirs" =>
              \A d \in DirsLeft(task) :
                dirObj[d] # NoId => MayRecordDirectoryDriveID(task, d, dirObj[d])
         /\ pc = "drive.file" /\ ~Refused(file) /\ objects[file] = {} =>
              MayStartDriveUpload(task, file)
         /\ pc \in {"drive.file", "drive.reconcile", "drive.verify"} =>
              MayRecordDriveFailure(task, file, TRUE)
         /\ pc = "drive.record" =>
              \E id \in objects[file] : MayRecordDriveUploaded(task, file, id)
         /\ pc = "drive.verify" /\ Evidence(file) =>
              MayMarkDriveVerified(task, file, driveId[file])
  <1>1. /\ StoreInv /\ InHand /\ EvidenceIsReal
        /\ TaskStanding /\ DriveStanding
    BY DEF StandingInv, Standing, TidyInv, WatermarkInv, DeliveryInv, MoverInv
  <1>2. pc \in UploadLines \cup {"drive.root", "drive.dirs"} =>
          Resumable(task) /\ scanCompleted[task] /\ task \in Task
    BY <1>1 DEF TaskStanding, UploadLines, OfferedLines, InHand
  <1>3. pc \in OfferedLines =>
          /\ file \in File /\ FileTask[file] = task
          /\ status[file] \in {"LOCAL_READY", "DRIVE_UPLOADING", "DRIVE_UPLOADED"}
    BY <1>1 DEF DriveStanding, DriveUploadCandidates, FilesIn, FilesOf
  <1>4. pc = "drive.verify" =>
          file \in File /\ FileTask[file] = task /\ status[file] = "DRIVE_UPLOADED"
    BY <1>1 DEF DriveStanding, FilesIn, FilesOf
  <1>5. pc = "drive.root" /\ rootObj[task] # NoId => MaySetTaskDriveRoot(task, rootObj[task])
    BY <1>1, <1>2 DEF MaySetTaskDriveRoot, DriveStanding
  <1>6. pc = "drive.dirs" =>
          \A d \in DirsLeft(task) : MayRecordDirectoryDriveID(task, d, dirObj[d])
    BY <1>1, <1>2 DEF MayRecordDirectoryDriveID, DirsLeft, DriveStanding
  <1>7. ASSUME pc = "drive.file", objects[file] = {} PROVE MayStartDriveUpload(task, file)
    <2>1. pc \in OfferedLines /\ pc \in UploadLines
      BY <1>7 DEF OfferedLines, UploadLines
    <2>2. status[file] # "DRIVE_UPLOADED"
      BY <1>1, <1>3, <1>7, <2>1 DEF StoreInv, UploadEvidence, EvidenceIsReal
    <2> QED
      BY <1>1, <1>2, <1>3, <2>1, <2>2
         DEF MayStartDriveUpload, DriveStanding, FilesIn, FilesOf, Absent
  <1>8. pc \in {"drive.file", "drive.reconcile", "drive.verify"} =>
          MayRecordDriveFailure(task, file, TRUE)
    <2>1. \A s \in {"LOCAL_READY", "DRIVE_UPLOADING", "DRIVE_UPLOADED"} :
            ValidateFileTransition(s, "FAILED_PERMANENT")
      BY DEF ValidateFileTransition, allowedFileTransitions, FileStatus, Failure
    <2> SUFFICES ASSUME pc \in {"drive.file", "drive.reconcile", "drive.verify"}
                 PROVE  MayRecordDriveFailure(task, file, TRUE)
      OBVIOUS
    <2>2. /\ Resumable(task) /\ file \in File /\ FileTask[file] = task
          /\ status[file] \in {"LOCAL_READY", "DRIVE_UPLOADING", "DRIVE_UPLOADED"}
      BY <1>2, <1>3, <1>4 DEF UploadLines, OfferedLines
    <2>3. file \in DriveUploadCandidates(task)
      BY <2>2 DEF DriveUploadCandidates, FilesIn, FilesOf, Absent
    <2> QED
      BY <2>1, <2>2, <2>3 DEF MayRecordDriveFailure
  <1>9. ASSUME pc = "drive.record"
        PROVE  \E id \in objects[file] : MayRecordDriveUploaded(task, file, id)
    <2>1. pc \in OfferedLines /\ pc \in UploadLines
      BY <1>9 DEF OfferedLines, UploadLines
    <2>2. PICK id \in objects[file] : driveId[file] \in {NoId, id}
      BY <1>1, <1>3, <1>9, <2>1 DEF DriveStanding, EvidenceIsReal
    <2>3. ValidateFileTransition(status[file], "DRIVE_UPLOADED")
      BY <1>3, <2>1 DEF ValidateFileTransition, allowedFileTransitions, FileStatus
    <2> QED
      BY <1>1, <1>2, <2>1, <2>2, <2>3 DEF MayRecordDriveUploaded, DriveStanding
  <1>10. pc = "drive.verify" => MayMarkDriveVerified(task, file, driveId[file])
    BY <1>1, <1>2, <1>4
       DEF MayMarkDriveVerified, DriveStanding, UploadLines, FilesIn, FilesOf, Absent,
           ValidateFileTransition, allowedFileTransitions, FileStatus
  <1> QED
    BY <1>5, <1>6, <1>7, <1>8, <1>9, <1>10

LEMMA DownloadChecks ==
  ASSUME StandingInv
  PROVE  /\ pc = "download.file" => MayStartDownload(task, file)
         /\ pc \in {"download.file", "download.fetch", "download.rename"} =>
              MayRecordDownloadFailure(task, file)
         /\ pc = "download.ready" => MayMarkLocalReady(task, file)
  <1>1. StoreInv /\ InHand /\ TaskStanding
    BY DEF StandingInv, Standing, TidyInv, WatermarkInv, DeliveryInv, MoverInv
  <1>2. pc \in DownloadLines => Resumable(task) /\ file \in DownloadCandidates(task)
    BY <1>1 DEF TaskStanding, InHand, DownloadLines
  <1>3. pc \in DownloadLines =>
          /\ file \in FilesIn(task, {"BAIDU_STAGED", "DOWNLOADING", "LOCAL_READY"})
          /\ localOwned[file] \notin Authorized
    BY <1>1, <1>2, CandidateIsFree DEF DownloadCandidates, FilesIn, FilesOf
  <1> QED
    BY <1>2, <1>3
       DEF DownloadLines, MayStartDownload, MayRecordDownloadFailure, MayMarkLocalReady

LEMMA StageChecks ==
  ASSUME StandingInv
  PROVE  /\ pc = "stage.plan" =>
              \A P \in SUBSET ((SUBSET Discovered(task)) \ {{}}) :
                /\ Discovered(task) # {}
                /\ IsPlan(P, Discovered(task), Size, MaxFiles, Available)
                => MayPlanBatches(task, Available, P)
         /\ pc = "stage.start" => MayStartBatch(task, batch)
         /\ pc \in {"stage.list", "stage.broken"} /\ batch \cap copies # {} =>
              MayRecordStagedFiles(task, batch, batch \cap copies)
         /\ pc = "stage.complete" => MayCompleteBatch(task, batch)
         /\ pc \in {"stage.fail", "stage.failed"} => MayFailBatch(task, batch)
  <1>1. StoreInv /\ TypeOK /\ TaskStanding /\ StageStanding /\ Frozen
    BY DEF StandingInv, Standing, TidyInv, WatermarkInv, DeliveryInv, StoreInv
  <1>2. pc \in BatchLines \cup {"stage.plan"} => Resumable(task) /\ scanCompleted[task]
    BY <1>1 DEF TaskStanding, BatchLines
  <1>3. pc \in BatchLines =>
          /\ batch \in StagingBatches(task) /\ batch \in BatchesOf(task)
          /\ batchStatus[batch] \in Stageable
    BY <1>1 DEF StageStanding, StagingBatches
  <1>4. ASSUME NEW P \in SUBSET ((SUBSET Discovered(task)) \ {{}}), NEW b \in P
        PROVE  batchStatus[b] = Absent
    <2>1. b \in SUBSET Discovered(task) /\ b # {}
      BY <1>4
    <2>2. b \in Batch /\ \A f \in b : status[f] = "DISCOVERED"
      BY <2>1 DEF Batch, Discovered, FilesIn, FilesOf
    <2> QED
      BY <1>1, <2>1, <2>2 DEF StoreInv, BatchesPartition
  <1>5. ASSUME pc \in {"stage.list", "stage.broken"}, NEW f \in batch
        PROVE  status[f] \in AwaitingConfirmation \cup StagingConfirmationAlreadyConsumed
    <2>1. batch \in Batch /\ batchStatus[batch] # Absent /\ FileTask[f] = task /\ f \in File
      BY <1>3, <1>5, BatchFacts DEF BatchLines, BatchesOf
    <2>2. status[f] \notin {Absent, "DISCOVERED"} /\ status[f] \in FileStatus \cup {Absent}
      BY <1>1, <2>1 DEF StoreInv, BatchesPartition, TypeOK
    <2>3. status[f] # "FAILED_PERMANENT"
      BY <1>1, <1>5, <2>1, <2>2 DEF Frozen, Rest, HasFailed, FilesIn, FilesOf
    <2> QED
      BY <2>2, <2>3 DEF FileStatus, AwaitingConfirmation, StagingConfirmationAlreadyConsumed
  <1>6. pc = "stage.plan" =>
          \A P \in SUBSET ((SUBSET Discovered(task)) \ {{}}) :
            /\ Discovered(task) # {}
            /\ IsPlan(P, Discovered(task), Size, MaxFiles, Available)
            => MayPlanBatches(task, Available, P)
    BY <1>2, <1>4 DEF MayPlanBatches
  <1>7. pc \in {"stage.list", "stage.broken"} /\ batch \cap copies # {} =>
          MayRecordStagedFiles(task, batch, batch \cap copies)
    BY <1>2, <1>3, <1>5 DEF MayRecordStagedFiles, BatchLines
  <1>8. pc = "stage.complete" => MayCompleteBatch(task, batch)
    BY <1>1, <1>2, <1>3 DEF MayCompleteBatch, StageStanding, BatchLines
  <1> QED
    BY <1>2, <1>3, <1>6, <1>7, <1>8 DEF MayStartBatch, MayFailBatch, BatchLines

(* No transaction is ever refused by the store: at every line that issues  *)
(* one, all of its checks hold, for any workload, watermark and number of  *)
(* crashes and failed calls.  What the stages test, on data they read      *)
(* before, implies what the store tests again (cleanup_store.go:285 and    *)
(* the other refusals of internal/state never fire).                       *)
THEOREM ChecksHold == MoverSpec => []NeverRefused
  <1>1. StandingInv => NeverRefused
    BY TaskChecks, CleanupChecks, DriveChecks, DownloadChecks, StageChecks DEF NeverRefused
  <1> QED
    BY StandingInvariant, <1>1, PTL

----------------------------------------------------------------------------
(* What was cleaned.  A staging directory is made at one line only, and    *)
(* its row records at one line only that it was deleted.                   *)
LEMMA DirsMade ==
  ASSUME [MoverNext]_moverVars
  PROVE  \/ dirs' \subseteq dirs
         \/ pc = "stage.mkdir" /\ dirs' \subseteq dirs \cup {batch}
  <1> USE DEF Tx, Branch, CallFails, Finish, Exit, world, baidu
  <1>1. CASE Scan \/ BeginPass \/ EndPass \/ Stop \/ Crash \/ LateCommit \/ UNCHANGED moverVars
    BY <1>1 DEF Scan, BeginPass, EndPass, Stop, Crash, LateCommit, moverVars
  <1>2. CASE Ensure \/ Drive \/ CopyTo \/ Reconcile \/ Verify
    BY <1>2 DEF Ensure, Drive, CopyTo, Reconcile, Verify, MakeRoot, MakeDirectory
  <1>3. CASE Download \/ Fetch \/ CacheFails \/ LocalReady \/ StageRun
    BY <1>3 DEF Download, Fetch, CacheFails, LocalReady, StageRun
  <1>4. CASE StageBatch
    BY <1>4 DEF StageBatch, MakeStaging, Confirm, Transfer
  <1>5. CASE Cleanup \/ CleanupLocal \/ CleanupDirectory \/ CleanupRoot
    BY <1>5 DEF Cleanup, CleanupLocal, CleanupDirectory, CleanupRoot, DeleteDirectory, DeleteRoot
  <1>6. CASE \E t \in Task : StartNew(t) \/ Launch(t)
    BY <1>6 DEF StartNew, Launch, ResumeScan, ResumePipeline
  <1> QED
    BY <1>1, <1>2, <1>3, <1>4, <1>5, <1>6 DEF MoverNext, Run

DirectoryRowsKept == \A b \in Batch : batchOwned'[b] = "CLEANED" => batchOwned[b] = "CLEANED"

LEMMA DirectoryRowsStep ==
  ASSUME StoreInv, MoverInv, [MoverNext]_moverVars
  PROVE  \/ DirectoryRowsKept
         \/ pc = "cleanup.record" /\ MarkBaiduBatchCleanupDone(task, batch) /\ UNCHANGED dirs
  <1> USE DEF Tx, Branch, CallFails, Finish, Exit
  <1>0. TypeOK
    BY DEF StoreInv
  <1>1. Tame \/ UNCHANGED vars \/ UNCHANGED batchOwned => DirectoryRowsKept
    BY DEF Tame, DirectoryRowsKept, vars, ownedVars
  <1>2. CASE \/ Scan \/ BeginPass \/ EndPass \/ Stop \/ Ensure \/ Drive \/ Reconcile
             \/ Download \/ StageRun \/ Crash \/ \E t \in Task : StartNew(t) \/ Launch(t)
    BY <1>1, <1>2, ScanAndPass, DriveCalls, DownloadAndPlan, LaunchAndCrash
  <1>3. CASE CopyTo \/ LateCommit \/ UNCHANGED moverVars
    BY <1>1, <1>3 DEF CopyTo, LateCommit, moverVars
  <1>4. CASE Verify \/ Fetch \/ LocalReady \/ CacheFails
    BY <1>1, <1>4
       DEF Verify, Fetch, LocalReady, CacheFails, RecordDriveUploaded, MarkDriveVerified,
           RecordDriveFailure, RecordDownloadFailure, MarkLocalReady, ownedVars
  <1>5. CASE StageBatch
    BY <1>1, <1>5
       DEF StageBatch, MakeStaging, Confirm, Transfer, UpdateTaskStatus, RecordStagedFiles,
           CompleteBatch, FailBatch, ownedVars
  <1>6. CASE Cleanup
    <2>1. \A b : AuthorizeBatchCleanup(task, b) => DirectoryRowsKept
      BY <1>0 DEF AuthorizeBatchCleanup, Allow, DirectoryRowsKept, TypeOK
    <2> QED
      BY <1>1, <1>6, <2>1 DEF Cleanup, UpdateTaskStatus, AuthorizeTaskRootCleanup, ownedVars
  <1>7. CASE CleanupLocal \/ CleanupRoot
    BY <1>1, <1>7
       DEF CleanupLocal, CleanupRoot, DeleteRoot, UpdateTaskStatus, MarkLocalCacheCleanupDone,
           MarkBaiduTaskRootCleanupDone, ownedVars
  <1>8. CASE CleanupDirectory
    BY <1>1, <1>8
       DEF CleanupDirectory, DeleteDirectory, Goto, CompleteBatchCleanup, ownedVars, world, baidu
  <1> QED
    BY <1>2, <1>3, <1>4, <1>5, <1>6, <1>7, <1>8 DEF MoverNext, Run

(* What was recorded as cleaned stays gone, for any workload, watermark    *)
(* and number of crashes and failed calls, but for one exception: a batch  *)
(* that was never recorded as STAGED is staged again although its          *)
(* directory was cleaned.  Local copies and task roots have no exception   *)
(* (cleanup/runner.go deletes before it records; staging/executor.go is    *)
(* the one that makes directories).                                        *)
THEOREM CleanedStaysGone == MoverSpec => OnlyRestagingReturns
  <1>1. ASSUME StandingInv, [MoverNext]_moverVars, NEW b \in Batch, Returned(b)', ~Returned(b)
        PROVE  pc = "stage.mkdir" /\ b = batch /\ batchStatus[b] # "STAGED"
    <2>1. StoreInv /\ TypeOK /\ MoverInv /\ CleanupStanding /\ StageStanding
      BY <1>1 DEF StandingInv, Standing, TidyInv, WatermarkInv, DeliveryInv, StoreInv
    <2>2. batchOwned'[b] = "CLEANED" /\ b \in dirs'
      BY <1>1 DEF Returned
    <2>3. CASE batchOwned[b] = "CLEANED"
      <3>1. pc = "stage.mkdir" /\ b = batch
        BY <1>1, <2>2, <2>3, DirsMade DEF Returned
      <3>2. batchStatus[batch] \in Stageable
        BY <2>1, <3>1 DEF StageStanding, BatchLines, StagingBatches
      <3> QED
        BY <3>1, <3>2 DEF Stageable
    <2>4. CASE batchOwned[b] # "CLEANED"
      <3>1. /\ pc = "cleanup.record" /\ MarkBaiduBatchCleanupDone(task, batch)
            /\ UNCHANGED dirs
        BY <1>1, <2>1, <2>2, <2>4, DirectoryRowsStep DEF DirectoryRowsKept
      <3>2. b = batch
        BY <2>1, <2>2, <2>4, <3>1 DEF MarkBaiduBatchCleanupDone, TypeOK
      <3> QED
        BY <2>1, <2>2, <3>1, <3>2 DEF CleanupStanding
    <2> QED
      BY <2>3, <2>4
  <1>2. StandingInv /\ StandingInv' /\ [MoverNext]_moverVars =>
          [/\ \A b \in Batch : Returned(b)' =>
                \/ Returned(b)
                \/ pc = "stage.mkdir" /\ b = batch /\ batchStatus[b] # "STAGED"
           /\ \A f \in File : localOwned'[f] = "CLEANED" => f \notin bin' /\ part'[f] = "none"
           /\ \A t \in Task : rootOwned'[t] = "CLEANED" => t \notin roots']_moverVars
    <2> SUFFICES ASSUME StandingInv, StandingInv', [MoverNext]_moverVars
                 PROVE  /\ \A b \in Batch : Returned(b)' =>
                             \/ Returned(b)
                             \/ pc = "stage.mkdir" /\ b = batch /\ batchStatus[b] # "STAGED"
                        /\ \A f \in File :
                             localOwned'[f] = "CLEANED" => f \notin bin' /\ part'[f] = "none"
                        /\ \A t \in Task : rootOwned'[t] = "CLEANED" => t \notin roots'
      OBVIOUS
    <2>1. /\ \A f \in File : localOwned'[f] = "CLEANED" => f \notin bin' /\ part'[f] = "none"
          /\ \A t \in Task : rootOwned'[t] = "CLEANED" => t \notin roots'
      BY DEF StandingInv, TidyInv, RootsOwned, WatermarkInv, DeliveryInv, Custody, CacheOK,
             Authorized
    <2> QED
      BY <1>1, <2>1
  <1> QED
    BY StandingInvariant, <1>2, PTL DEF MoverSpec, OnlyRestagingReturns
=============================================================================
