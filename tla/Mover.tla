------------------------------- MODULE Mover -------------------------------
(***************************************************************************)
(* The running program: the pipeline of internal/app and the engines it    *)
(* calls, over the durable state of Store and over the three places that   *)
(* hold bytes: the Baidu staging area, the local cache and Google Drive.   *)
(*                                                                         *)
(* There is one process (the instance lock), so its control state is a     *)
(* program counter.  Every step is one transaction of Store or one         *)
(* external effect, because the process may die between any two of them.   *)
(* A fault is a crash or an external call that reports an error, whether   *)
(* or not its effect took place; MaxFaults bounds them.  The process is    *)
(* started again by the user.                                              *)
(*                                                                         *)
(* The classification of errors is a nondeterministic choice; retries      *)
(* inside one external call and re-authentication are a repeated call.     *)
(***************************************************************************)
EXTENDS Store

CONSTANTS Page,       \* pages of the share listing: records of dirs and files
          PathRank,   \* position of a file in ORDER BY logical_path
          BatchRank,  \* position of a batch in ORDER BY batch_id, a hash
          MaxCache,   \* the cache watermark, in bytes
          MaxFaults   \* bound on crashes and failed external calls

ASSUME MoverAssumption ==
  /\ \A p \in Page : /\ p.task \in Task /\ p.dirs \subseteq Dir /\ p.files \subseteq File
                     /\ \A d \in p.dirs : DirTask[d] = p.task
                     /\ \A f \in p.files : FileTask[f] = p.task
  /\ PathRank \in [File -> Nat]
  /\ BatchRank \in [Batch -> Nat]
  /\ Absent \notin Task
  /\ MaxCache \in Nat \ {0}
  /\ \A S \in SUBSET File : MaxCache - Bytes(S, Size) > 0 =>
                              MaxCache - Bytes(S, Size) \in PlanBound
  /\ MaxFaults \in Nat

VARIABLES
  pc,       \* where the process is; "idle" when it does not run
  task,     \* the task it works on
  batch,    \* the batch in hand
  file,     \* the file in hand
  before,   \* the progress read at the start of the pass
  capped,   \* downloadPausedByWatermark
  \* Baidu
  roots,    \* tasks whose staging root exists
  dirs,     \* batches whose staging directory exists
  copies,   \* files with a copy in the directory of their batch
  \* local cache
  part,     \* the .part file: none, some or all of the bytes
  bin,      \* files with a .bin file, which only verified bytes become
  \* Google Drive
  rootObj,  \* the folder of a task
  dirObj,   \* the folder of a directory
  objects,  \* the objects under the name of a file
  late,     \* files with an upload that may still commit after its error
  faults    \* faults so far

context  == <<task, batch, file, before, capped>>
baidu    == <<roots, dirs, copies>>
local    == <<part, bin>>
drive    == <<rootObj, dirObj, objects, late>>
world    == <<baidu, local, drive>>
moverVars == <<vars, pc, context, world, faults>>

MoverInit ==
  /\ Init
  /\ pc = "idle" /\ task = Absent /\ batch = {} /\ file = Absent
  /\ before = <<>> /\ capped = FALSE
  /\ roots = {} /\ dirs = {} /\ copies = {}
  /\ part = [f \in File |-> "none"] /\ bin = {}
  /\ rootObj = [t \in Task |-> NoId] /\ dirObj = [d \in Dir |-> NoId]
  /\ objects = [f \in File |-> {}] /\ late = {}
  /\ faults = 0

----------------------------------------------------------------------------
(* Shapes of steps *)

Goto(from, to) == pc = from /\ pc' = to
IsFirst(x, S, rank) == x \in S /\ \A y \in S : rank[x] <= rank[y]
Fault == faults < MaxFaults /\ faults' = faults + 1
NoFault == UNCHANGED faults

(* One transaction, then the next line. *)
Tx(from, to, transaction) ==
  Goto(from, to) /\ transaction /\ UNCHANGED <<context, world, faults>>

(* A test that changes nothing but the line. *)
Branch(from, to, test) ==
  Goto(from, to) /\ test /\ UNCHANGED <<vars, context, world, faults>>

(* The end of a run of the process, whatever it recorded. *)
Exit(transaction) ==
  /\ transaction
  /\ pc' = "idle" /\ task' = Absent /\ batch' = {} /\ file' = Absent
  /\ before' = <<>> /\ capped' = FALSE
  /\ UNCHANGED <<world, faults>>

(* An external call fails without an effect: the stage gives up, or opens  *)
(* a new session and runs its engine again.                                *)
CallFails(lines, outcomes) ==
  /\ pc \in lines /\ pc' \in outcomes /\ Fault
  /\ UNCHANGED <<vars, context, world>>

(* Every runner and the pipeline record a failed stage the same way.       *)
Stop ==
  /\ pc = "stop"
  /\ \E s \in {"PAUSED", "BLOCKED"} : Exit(UpdateTaskStatus(task, s))

Crash ==
  /\ pc # "idle" /\ Fault
  /\ pc' = "idle" /\ task' = Absent /\ batch' = {} /\ file' = Absent
  /\ before' = <<>> /\ capped' = FALSE
  /\ UNCHANGED <<vars, world>>

----------------------------------------------------------------------------
(* Starting and scanning *)

Recorded(p) == /\ \A d \in p.dirs : dirId[d] # Absent
               /\ \A f \in p.files : status[f] # Absent
(* The answers there may be.  While the owner changes the share they are   *)
(* more than one walk gets: an entry is then on several pages, with other  *)
(* names or sizes.                                                         *)
PagesOf(t) == {p \in Page : p.task = t}
(* Every directory and every source of the share has a row.                *)
Walked(t) ==
  \A p \in PagesOf(t) :
    /\ p.dirs \subseteq DirsOf(t)
    /\ \A f \in p.files : \E g \in FilesOf(t) : SourceId[g] = SourceId[f]

(* main: a new share link, or a resumable task of the database.            *)
StartNew(t) ==
  /\ Goto("idle", "scan") /\ CreateTask(t) /\ task' = t
  /\ UNCHANGED <<batch, file, before, capped, world, faults>>
ResumeScan(t) ==
  /\ Goto("idle", "scan") /\ Resumable(t) /\ ~scanCompleted[t]
  /\ UpdateTaskStatus(t, "SCANNING") /\ task' = t
  /\ UNCHANGED <<batch, file, before, capped, world, faults>>
ResumePipeline(t) ==
  /\ Goto("idle", "pass") /\ Resumable(t) /\ scanCompleted[t] /\ task' = t
  /\ UNCHANGED <<vars, batch, file, before, capped, world, faults>>

(* A page is recorded, or refused as a whole, which ends the scan.         *)
Scan ==
  \/ Tx("scan", "scan", \E p \in PagesOf(task) :
           ~Recorded(p) /\ UpsertManifestPage(task, p.dirs, p.files))
  \/ Branch("scan", "stop", \E p \in PagesOf(task) : ~MayUpsertManifestPage(task, p.dirs, p.files))
  \/ Tx("scan", "pass", Walked(task) /\ CompleteTaskScan(task))
  \/ CallFails({"scan"}, {"stop"})

----------------------------------------------------------------------------
(* The pipeline *)

Count(t, s) == Cardinality(FilesIn(t, {s}))
PipelineProgress(t) ==
  [counts   |-> [s \in FileStatus |-> Count(t, s)],
   reserved |-> ReservedCacheBytes,
   root     |-> driveRoot[t] # NoId,
   owned    |-> rootOwned[t] # Absent,
   cleaned  |-> rootOwned[t] = "CLEANED"]

HasCleanupWork(t) ==
  \/ FilesIn(t, {"DRIVE_VERIFIED", "CLEANUP_PENDING"}) # {}
  \/ /\ \A f \in FilesOf(t) : status[f] = "DONE"
     /\ rootOwned[t] \notin {Absent, "CLEANED"}
HasDriveWork(t) == DriveUploadCandidates(t) # {}
HasDownloadWork(t) == DownloadCandidates(t) # {}
HasStageWork(t) == FilesIn(t, {"DISCOVERED", "PLANNED", "BAIDU_STAGING"}) # {}
HasFailed(t) == FilesIn(t, {"FAILED_PERMANENT"}) # {}
Available == MaxCache - ReservedCacheBytes

(* Mutation: completion does not wait for the Baidu task root.             *)
FinishFilesOnly(line) ==
  /\ pc = line /\ driveRoot[task] # NoId /\ \A f \in FilesOf(task) : status[f] = "DONE"
  /\ Exit(/\ taskStatus' = [taskStatus EXCEPT ![task] = "COMPLETED"]
          /\ UNCHANGED <<scanCompleted, driveRoot, dirId, fileVars, batchStatus, ownedVars>>)

Finish(line) ==
  /\ pc = line
  /\ IF HasFailed(task) THEN Exit(UpdateTaskStatus(task, "FAILED"))
     ELSE Complete(task) /\ Exit(UpdateTaskStatus(task, "COMPLETED"))
Over(t) == HasFailed(t) \/ Complete(t)

BeginPass ==
  \/ Finish("pass")
  \/ /\ Goto("pass", "cleanup") /\ ~Over(task)
     /\ before' = PipelineProgress(task) /\ capped' = FALSE
     /\ UNCHANGED <<vars, task, batch, file, world, faults>>

(* A pass that changed nothing ends the run; any other is followed by the  *)
(* next pass.                                                              *)
EndPass ==
  \/ Finish("end")
  \/ Branch("end", "pass", ~Over(task) /\ PipelineProgress(task) # before)
  \/ Branch("end", "stop", ~Over(task) /\ PipelineProgress(task) = before)

----------------------------------------------------------------------------
(* The cleanup stage *)

NoCleanup(t) == CleanupCandidates(t) = {} /\ ~TaskRootCleanupCandidate(t)

Cleanup ==
  \/ Branch("cleanup", "drive", ~HasCleanupWork(task) \/ NoCleanup(task))
  \/ Tx("cleanup", "cleanup.next",
        HasCleanupWork(task) /\ ~NoCleanup(task) /\ UpdateTaskStatus(task, "RUNNING"))
  \/ /\ Goto("cleanup.next", "cleanup.local")
     /\ \E b \in CleanupCandidates(task) :
          /\ IsFirst(b, CleanupCandidates(task), BatchRank)
          /\ AuthorizeBatchCleanup(task, b) /\ batch' = b
     /\ UNCHANGED <<task, file, before, capped, world, faults>>
  \/ Tx("cleanup.next", "cleanup.root", /\ CleanupCandidates(task) = {}
                                       /\ TaskRootCleanupCandidate(task)
                                       /\ AuthorizeTaskRootCleanup(task))
  \/ Tx("cleanup.next", "cleanup.end", NoCleanup(task) /\ UpdateTaskStatus(task, "PAUSED"))
  \/ pc = "cleanup.end" /\ Complete(task) /\ Finish("cleanup.end")
  \/ Branch("cleanup.end", "drive", ~Complete(task))

(* cleanupBatch: the local copies first, each removed and then recorded.   *)
CleanupLocal ==
  \/ \E f \in batch :
       /\ Goto("cleanup.local", "cleanup.mark") /\ localOwned[f] # "CLEANED"
       /\ bin' = bin \ {f} /\ file' = f
       /\ UNCHANGED <<vars, task, batch, before, capped, baidu, part, drive, faults>>
  \/ Tx("cleanup.mark", "cleanup.local", MarkLocalCacheCleanupDone(task, file))
  \/ Branch("cleanup.local", "cleanup.dir", \A f \in batch : localOwned[f] = "CLEANED")

(* Mutation: the deletion is accepted, and not waited for.                 *)
DeleteAccepted(to) ==
  /\ pc = "cleanup.delete" /\ pc' = to
  /\ UNCHANGED <<vars, context, baidu, local, drive>>

(* Then the directory on Baidu: looked at, deleted, recorded.  An error    *)
(* may hide a deletion that took place; a directory that is not there any  *)
(* more is recorded without one.                                           *)
DeleteDirectory(to) ==
  /\ pc = "cleanup.delete" /\ pc' = to
  /\ dirs' = dirs \ {batch} /\ copies' = copies \ batch
  /\ UNCHANGED <<vars, context, roots, local, drive>>

(* Mutation: a directory that is missing is an error.                      *)
CleanupMustFind ==
  \/ Branch("cleanup.dir", "cleanup.complete", batchOwned[batch] = "CLEANED")
  \/ Branch("cleanup.dir", "stop", batchOwned[batch] # "CLEANED" /\ batch \notin dirs)
  \/ Branch("cleanup.dir", "cleanup.delete", batchOwned[batch] # "CLEANED" /\ batch \in dirs)
  \/ DeleteDirectory("cleanup.record") /\ NoFault
  \/ \E to \in {"stop", "cleanup.next"} : DeleteDirectory(to) /\ Fault
  \/ Tx("cleanup.record", "cleanup.complete", MarkBaiduBatchCleanupDone(task, batch))
  \/ Tx("cleanup.complete", "cleanup.next", CompleteBatchCleanup(task, batch))

CleanupDirectory ==
  \/ Branch("cleanup.dir", "cleanup.complete", batchOwned[batch] = "CLEANED")
  \/ Branch("cleanup.dir", "cleanup.record", batchOwned[batch] # "CLEANED" /\ batch \notin dirs)
  \/ Branch("cleanup.dir", "cleanup.delete", batchOwned[batch] # "CLEANED" /\ batch \in dirs)
  \/ DeleteDirectory("cleanup.record") /\ NoFault
  \/ \E to \in {"stop", "cleanup.next"} : DeleteDirectory(to) /\ Fault
  \/ Tx("cleanup.record", "cleanup.complete", MarkBaiduBatchCleanupDone(task, batch))
  \/ Tx("cleanup.complete", "cleanup.next", CompleteBatchCleanup(task, batch))
  \/ CallFails({"cleanup.next", "cleanup.local", "cleanup.dir", "cleanup.delete"},
               {"stop", "cleanup.next"})

(* The task root is deleted only when it is empty.                         *)
DirectoriesOf(t) == {b \in dirs : \A f \in b : FileTask[f] = t}
DeleteRoot(to) ==
  /\ pc = "cleanup.rootdelete" /\ pc' = to /\ roots' = roots \ {task}
  /\ UNCHANGED <<vars, context, dirs, copies, local, drive>>

CleanupRoot ==
  \/ Branch("cleanup.root", "cleanup.rootrecord", task \notin roots)
  \/ Branch("cleanup.root", "cleanup.rootdelete", task \in roots /\ DirectoriesOf(task) = {})
  \/ Branch("cleanup.root", "stop", task \in roots /\ DirectoriesOf(task) # {})
  \/ DeleteRoot("cleanup.rootrecord") /\ NoFault
  \/ \E to \in {"stop", "cleanup.next"} : DeleteRoot(to) /\ Fault
  \/ Tx("cleanup.rootrecord", "cleanup.rootend", MarkBaiduTaskRootCleanupDone(task))
  \/ Tx("cleanup.rootend", "cleanup.end", UpdateTaskStatus(task, "PAUSED"))
  \/ CallFails({"cleanup.root", "cleanup.rootdelete"}, {"stop", "cleanup.next"})

----------------------------------------------------------------------------
(* The Drive stage *)

Fresh == DriveId \ ({rootObj[t] : t \in Task} \cup {dirObj[d] : d \in Dir}
                    \cup UNION {objects[f] : f \in File})
NewId == CHOOSE id \in Fresh : TRUE
DirsLeft(t) == {d \in Dir : DirTask[d] = t /\ dirId[d] = NoId}

(* Ensure: the root folder, then every directory; what exists already is   *)
(* adopted, what does not is made, and then its ID is recorded.            *)
MakeRoot(to) ==
  /\ pc = "drive.root" /\ pc' = to
  /\ driveRoot[task] = NoId /\ rootObj[task] = NoId /\ Fresh # {}
  /\ rootObj' = [rootObj EXCEPT ![task] = NewId]
  /\ UNCHANGED <<vars, context, baidu, local, dirObj, objects, late>>
MakeDirectory(d, to) ==
  /\ pc = "drive.dirs" /\ pc' = to
  /\ d \in DirsLeft(task) /\ dirObj[d] = NoId /\ Fresh # {}
  /\ dirObj' = [dirObj EXCEPT ![d] = NewId]
  /\ UNCHANGED <<vars, context, baidu, local, rootObj, objects, late>>

Ensure ==
  \/ Branch("drive.root", "drive.dirs", driveRoot[task] # NoId)
  \/ MakeRoot("drive.root") /\ NoFault
  \/ MakeRoot("stop") /\ Fault
  \/ Tx("drive.root", "drive.dirs",
        rootObj[task] # NoId /\ SetTaskDriveRoot(task, rootObj[task]))
  \/ \E d \in Dir : \/ MakeDirectory(d, "drive.dirs") /\ NoFault
                    \/ MakeDirectory(d, "stop") /\ Fault
  \/ Tx("drive.dirs", "drive.dirs", \E d \in DirsLeft(task) :
           dirObj[d] # NoId /\ RecordDirectoryDriveID(task, d, dirObj[d]))
  \/ Branch("drive.dirs", "drive.next", DirsLeft(task) = {})
  \/ CallFails({"drive.root", "drive.dirs"}, {"stop"})

(* uploadOne, up to the copy: the local file must be there, and what Drive *)
(* already holds under the name is adopted or refused.                     *)
Refused(f) ==
  \/ f \notin bin
  \/ Cardinality(objects[f]) > 1
  \/ objects[f] # {} /\ driveId[f] \notin objects[f] \cup {NoId}
  \/ objects[f] = {} /\ driveId[f] # NoId

DriveStageDue(t) == HasDriveWork(t) \/ (FilesOf(t) = {} /\ driveRoot[t] = NoId)

Drive ==
  \/ Tx("drive", "drive.root", DriveStageDue(task) /\ UpdateTaskStatus(task, "RUNNING"))
  \/ Branch("drive", "download", ~DriveStageDue(task))
  \/ /\ Goto("drive.next", "drive.file")
     /\ \E f \in File : IsFirst(f, DriveUploadCandidates(task), PathRank) /\ file' = f
     /\ UNCHANGED <<vars, task, batch, before, capped, world, faults>>
  \/ Tx("drive.next", "download",
        DriveUploadCandidates(task) = {} /\ UpdateTaskStatus(task, "PAUSED"))
  \/ Tx("drive.file", "stop", Refused(file) /\ RecordDriveFailure(task, file, TRUE))
  \/ Branch("drive.file", "drive.record", ~Refused(file) /\ objects[file] # {})
  \/ Tx("drive.file", "drive.copy",
        ~Refused(file) /\ objects[file] = {} /\ StartDriveUpload(task, file))

(* copyto: done, done but reported as failed, not done, or not done yet.   *)
(* Whatever it reports, Drive is listed next.                              *)
Commit(f) == Fresh # {} /\ objects' = [objects EXCEPT ![f] = @ \cup {NewId}]
CopyTo ==
  /\ Goto("drive.copy", "drive.reconcile")
  /\ \/ Commit(file) /\ UNCHANGED late /\ (NoFault \/ Fault)
     \/ objects[file] # {} /\ UNCHANGED <<objects, late>> /\ NoFault
     \/ UNCHANGED <<objects, late>> /\ Fault
     \/ UNCHANGED objects /\ late' = late \cup {file} /\ Fault
  /\ UNCHANGED <<vars, context, baidu, local, rootObj, dirObj>>
LateCommit ==
  \E f \in late :
    /\ Commit(f) /\ late' = late \ {f}
    /\ UNCHANGED <<vars, pc, context, baidu, local, rootObj, dirObj, faults>>

(* The write is replayed only while Drive shows no object of that name.    *)
Reconcile ==
  \/ Tx("drive.reconcile", "stop",
        Cardinality(objects[file]) > 1 /\ RecordDriveFailure(task, file, TRUE))
  \/ Branch("drive.reconcile", "drive.record", Cardinality(objects[file]) = 1)
  \/ Branch("drive.reconcile", "drive.copy", objects[file] = {})
  \/ Branch("drive.reconcile", "stop", objects[file] = {})

(* The evidence is recorded, and then looked at once more.  Bytes that     *)
(* cannot be read, or that differ, on either side end the file.            *)
Evidence(f) == f \in bin /\ objects[f] = {driveId[f]}
Verify ==
  \/ Tx("drive.record", "drive.verify",
        \E id \in objects[file] : RecordDriveUploaded(task, file, id))
  \/ Tx("drive.verify", "drive.next",
        Evidence(file) /\ MarkDriveVerified(task, file, driveId[file]))
  \/ Tx("drive.verify", "stop", ~Evidence(file) /\ RecordDriveFailure(task, file, TRUE))
  \/ CallFails({"drive.file", "drive.reconcile", "drive.verify"}, {"stop"})
  \/ /\ pc \in {"drive.file", "drive.reconcile", "drive.verify"} /\ pc' = "stop" /\ Fault
     /\ RecordDriveFailure(task, file, TRUE)
     /\ UNCHANGED <<context, world>>

----------------------------------------------------------------------------
(* The download stage *)

Fits(f) == ReservedCacheBytes + Size[f] <= MaxCache
SetPart(f, s) == part' = [part EXCEPT ![f] = s]

(* The first candidate by path is downloaded, or holds up all the others   *)
(* while the watermark leaves no room for it.  (A file larger than the     *)
(* watermark is never staged, see StageRun.)                               *)
NextDownload(t, f) == IsFirst(f, DownloadCandidates(t), PathRank)

(* Mutation: what staging admitted is downloaded without another look.     *)
NeverWaits(f) == FALSE
Waits(f) == status[f] = "BAIDU_STAGED" /\ ~Fits(f)

Download ==
  \/ Tx("download", "download.next", HasDownloadWork(task) /\ UpdateTaskStatus(task, "RUNNING"))
  \/ Branch("download", "stage", ~HasDownloadWork(task))
  \/ Tx("download.next", "stage",
        DownloadCandidates(task) = {} /\ UpdateTaskStatus(task, "PAUSED"))
  \/ /\ Goto("download.next", "stage")
     /\ \E f \in File : NextDownload(task, f) /\ Waits(f)
     /\ UpdateTaskStatus(task, "PAUSED") /\ capped' = TRUE
     /\ UNCHANGED <<task, batch, file, before, world, faults>>
  \/ /\ Goto("download.next", "download.file")
     /\ \E f \in File : NextDownload(task, f) /\ ~Waits(f) /\ file' = f
     /\ UNCHANGED <<vars, task, batch, before, capped, world, faults>>
  \/ Branch("download.file", "download.ready", file \in bin)
  \/ Branch("download.file", "download.rename", file \notin bin /\ part[file] = "all")
  \/ Tx("download.file", "download.fetch",
        file \notin bin /\ part[file] # "all" /\ StartDownload(task, file))

(* The stream resumes the .part file.  A broken stream leaves some bytes;  *)
(* bytes that fail verification are discarded, and the next attempt starts *)
(* anew, or the file is given up.  Nothing can be read that is not there.  *)
Fetch ==
  \/ /\ Goto("download.fetch", "download.rename") /\ file \in copies /\ SetPart(file, "all")
     /\ UNCHANGED <<vars, context, baidu, bin, drive, faults>>
  \/ /\ Goto("download.fetch", "download.fetch") /\ SetPart(file, "some") /\ file \in copies
     /\ Fault /\ UNCHANGED <<vars, context, baidu, bin, drive>>
  \/ \E permanent \in BOOLEAN, to \in {"stop", "download.next"}, left \in {"none", "some"} :
       /\ permanent => to = "stop"
       /\ Goto("download.fetch", to) /\ RecordDownloadFailure(task, file, permanent)
       /\ SetPart(file, left)
       /\ \/ Fault
          \/ file \notin copies /\ ~permanent /\ to = "stop" /\ NoFault
       /\ UNCHANGED <<context, baidu, bin, drive>>

(* Mutation: the file is recorded as ready before it is renamed.           *)
ReadyBeforeRename ==
  \/ Tx("download.rename", "download.ready", MarkLocalReady(task, file))
  \/ /\ Goto("download.ready", "download.next")
     /\ bin' = bin \cup {file} /\ SetPart(file, "none")
     /\ UNCHANGED <<vars, context, baidu, drive, faults>>

(* Verified bytes become the .bin file, and only then is it recorded.      *)
LocalReady ==
  \/ /\ Goto("download.rename", "download.ready")
     /\ bin' = bin \cup {file} /\ SetPart(file, "none")
     /\ UNCHANGED <<vars, context, baidu, drive, faults>>
  \/ Tx("download.ready", "download.next", MarkLocalReady(task, file))

(* The local disk fails: a finished file that cannot be verified is thrown  *)
(* away, anything else ends the attempt and keeps what was downloaded.     *)
CacheFails ==
  \/ /\ Goto("download.file", "download.file") /\ file \in bin /\ bin' = bin \ {file} /\ Fault
     /\ UNCHANGED <<vars, context, baidu, part, drive>>
  \/ /\ pc \in {"download.file", "download.rename"} /\ pc' = "stop" /\ Fault
     /\ RecordDownloadFailure(task, file, FALSE)
     /\ UNCHANGED <<context, world>>

----------------------------------------------------------------------------
(* The staging stage *)

(* The byte bound of the plan is what the watermark leaves.  One batch is  *)
(* staged per pass, the first by ID; when that one no longer fits it is    *)
(* deferred, and so is the whole run.                                      *)
NextBatch(t, b) == IsFirst(b, StagingBatches(t), BatchRank)

StageRun ==
  \/ Branch("stage", "stage.plan", ~capped /\ Available > 0 /\ HasStageWork(task))
  \/ Branch("stage", "end", capped \/ Available <= 0 \/ ~HasStageWork(task))
  \/ Tx("stage.plan", "stage.check",
        \E P \in SUBSET ((SUBSET Discovered(task)) \ {{}}) : PlanBatches(task, Available, P))
  \/ Branch("stage.plan", "stage.check", Discovered(task) = {})
  \/ Branch("stage.check", "stop",
            \E b \in Batch : NextBatch(task, b) /\ Bytes(b, Size) > Available)
  \/ /\ Goto("stage.check", "stage.start") /\ UpdateTaskStatus(task, "RUNNING")
     /\ \E b \in Batch : NextBatch(task, b) /\ Bytes(b, Size) <= Available /\ batch' = b
     /\ UNCHANGED <<task, file, before, capped, world, faults>>
  \/ Tx("stage.start", "stage.mkdir", StartBatch(task, batch))

(* Mutation: a staging directory is always started from empty.             *)
StagingFromEmpty(to, made) ==
  /\ pc = "stage.mkdir" /\ pc' = to
  /\ roots' = roots \cup {task} /\ dirs' = dirs \cup made /\ copies' = copies \ batch
  /\ UNCHANGED <<vars, context, local, drive>>

(* Mutation: the directory of the batch is made without its ancestors.     *)
StagingWithoutRoot(to, made) ==
  /\ pc = "stage.mkdir" /\ pc' = to
  /\ dirs' = dirs \cup made
  /\ UNCHANGED <<vars, context, roots, copies, local, drive>>

(* EnsureStagingDirectory: the ancestors, then the directory of the batch. *)
MakeStaging(to, made) ==
  /\ pc = "stage.mkdir" /\ pc' = to
  /\ roots' = roots \cup {task} /\ dirs' = dirs \cup made
  /\ UNCHANGED <<vars, context, copies, local, drive>>

Missing == batch \ copies
(* A listing confirms the copies it shows; what is missing is transferred, *)
(* and the directory is listed again whatever the transfer reports.  After *)
(* a failed transfer the batch is retried, or given up as one that may be  *)
(* retried or, for a conflict, as one that may not; a listing that shows   *)
(* what is not of the batch is such a conflict.                            *)
Confirm(from, to, test) ==
  \/ Branch(from, to, test /\ batch \cap copies = {})
  \/ Tx(from, to, test /\ RecordStagedFiles(task, batch, batch \cap copies))
Transfer(to, done) ==
  /\ pc = "stage.transfer" /\ pc' = to /\ copies' = copies \cup done
  /\ UNCHANGED <<vars, context, roots, dirs, local, drive>>

StageBatch ==
  \/ MakeStaging("stage.list", {batch}) /\ NoFault
  \/ \E made \in {{}, {batch}} : MakeStaging("stage.fail", made) /\ Fault
  \/ Confirm("stage.list", "stage.transfer", Missing # {})
  \/ Confirm("stage.list", "stage.complete", Missing = {})
  \/ Transfer("stage.list", Missing) /\ NoFault
  \/ \E S \in SUBSET Missing : Transfer("stage.broken", S) /\ Fault
  \/ Confirm("stage.broken", "stage.list", Missing = {})
  \/ \E to \in {"stage.transfer", "stage.fail", "stage.failed"} :
       Confirm("stage.broken", to, Missing # {})
  \/ Tx("stage.complete", "stage.end", CompleteBatch(task, batch))
  \/ Tx("stage.end", "end", UpdateTaskStatus(task, "PAUSED"))
  \/ \E to \in {"stop", "stage.start"} :
       Tx("stage.fail", to, FailBatch(task, batch, FALSE))
  \/ Tx("stage.failed", "stop", FailBatch(task, batch, TRUE))
  \/ CallFails({"stage.mkdir"}, {"stage.fail"})
  \/ CallFails({"stage.list"}, {"stage.fail", "stage.failed"})
  \/ CallFails({"stage.start", "download.next"}, {"stop"})

----------------------------------------------------------------------------
Run == \/ Scan \/ BeginPass \/ Cleanup \/ CleanupLocal \/ CleanupDirectory \/ CleanupRoot
       \/ Ensure \/ Drive \/ CopyTo \/ Reconcile \/ Verify
       \/ Download \/ Fetch \/ LocalReady \/ CacheFails
       \/ StageRun \/ StageBatch \/ EndPass \/ Stop

Launch(t) == ResumeScan(t) \/ ResumePipeline(t)

MoverNext == \/ Run \/ Crash \/ LateCommit
             \/ \E t \in Task : StartNew(t) \/ Launch(t)

MoverSpec == MoverInit /\ [][MoverNext]_moverVars

(* A process that is started runs on, and the user starts it again for     *)
(* every task as long as that can be resumed.                              *)
FairMover ==
  /\ MoverSpec
  /\ WF_moverVars(Run)
  /\ \A t \in Task : SF_moverVars(Launch(t))

----------------------------------------------------------------------------
(* Properties *)

Line == {"idle", "stop", "scan", "pass", "end",
         "cleanup", "cleanup.next", "cleanup.local", "cleanup.mark", "cleanup.dir",
         "cleanup.delete", "cleanup.record", "cleanup.complete", "cleanup.root",
         "cleanup.rootdelete", "cleanup.rootrecord", "cleanup.rootend", "cleanup.end",
         "drive", "drive.root", "drive.dirs", "drive.next", "drive.file", "drive.copy",
         "drive.reconcile", "drive.record", "drive.verify",
         "download", "download.next", "download.file", "download.fetch",
         "download.rename", "download.ready",
         "stage", "stage.plan", "stage.check", "stage.start", "stage.mkdir", "stage.list",
         "stage.transfer", "stage.broken", "stage.complete", "stage.end", "stage.fail",
         "stage.failed"}

(* A copy on Baidu lies in a staging directory, a staging directory below  *)
(* the root of its task.                                                   *)
MoverTypeOK ==
  /\ pc \in Line
  /\ task \in Task \cup {Absent} /\ (task = Absent <=> pc = "idle")
  /\ batch \in Batch \cup {{}} /\ file \in File \cup {Absent} /\ capped \in BOOLEAN
  /\ dirs \subseteq Batch /\ copies \subseteq UNION dirs
  /\ \A b \in dirs : \A f \in b : FileTask[f] \in roots
  /\ part \in [File -> {"none", "some", "all"}] /\ bin \subseteq File
  /\ rootObj \in [Task -> DriveId \cup {NoId}] /\ dirObj \in [Dir -> DriveId \cup {NoId}]
  /\ objects \in [File -> SUBSET DriveId] /\ late \subseteq File
  /\ faults \in 0 .. MaxFaults

(* No transaction but one is ever refused where the program issues it:     *)
(* whatever was tested on the way to its line, and however often the       *)
(* process died or a call failed before, the checks of the store hold      *)
(* there.  The exception is a page of the manifest, which the store        *)
(* refuses when it does not agree with the pages recorded before, that is  *)
(* when the share has changed, and for no other reason.                    *)
NeverRefused ==
  /\ pc # "idle" => \A s \in {"PAUSED", "BLOCKED"} : MayUpdateTaskStatus(task, s)
  /\ pc \in {"cleanup", "drive", "download", "stage.check"} => MayUpdateTaskStatus(task, "RUNNING")
  /\ pc \in {"pass", "end", "cleanup.end"} =>
       /\ HasFailed(task) => MayUpdateTaskStatus(task, "FAILED")
       /\ Complete(task) => MayUpdateTaskStatus(task, "COMPLETED")
  /\ pc = "scan" =>
       /\ MayCompleteTaskScan(task)
       /\ \A p \in PagesOf(task) :
            Agrees(task, p.dirs, p.files) => MayUpsertManifestPage(task, p.dirs, p.files)
  /\ pc = "cleanup.next" =>
       /\ \A b \in CleanupCandidates(task) : MayAuthorizeBatchCleanup(task, b)
       /\ TaskRootCleanupCandidate(task) => MayAuthorizeTaskRootCleanup(task)
  /\ pc = "cleanup.mark" => MayMarkLocalCacheCleanupDone(task, file)
  /\ pc = "cleanup.record" => MayMarkBaiduBatchCleanupDone(task, batch)
  /\ pc = "cleanup.complete" => MayCompleteBatchCleanup(task, batch)
  /\ pc = "cleanup.rootrecord" => MayMarkBaiduTaskRootCleanupDone(task)
  /\ pc = "drive.root" /\ rootObj[task] # NoId => MaySetTaskDriveRoot(task, rootObj[task])
  /\ pc = "drive.dirs" =>
       \A d \in DirsLeft(task) :
         dirObj[d] # NoId => MayRecordDirectoryDriveID(task, d, dirObj[d])
  /\ pc = "drive.file" /\ ~Refused(file) /\ objects[file] = {} => MayStartDriveUpload(task, file)
  /\ pc \in {"drive.file", "drive.reconcile", "drive.verify"} =>
       MayRecordDriveFailure(task, file, TRUE)
  /\ pc = "drive.record" => \E id \in objects[file] : MayRecordDriveUploaded(task, file, id)
  /\ pc = "drive.verify" /\ Evidence(file) => MayMarkDriveVerified(task, file, driveId[file])
  /\ pc = "download.file" => MayStartDownload(task, file)
  /\ pc \in {"download.file", "download.fetch", "download.rename"} =>
       MayRecordDownloadFailure(task, file)
  /\ pc = "download.ready" => MayMarkLocalReady(task, file)
  /\ pc = "stage.plan" =>
       \A P \in SUBSET ((SUBSET Discovered(task)) \ {{}}) :
         (Discovered(task) # {} /\ IsPlan(P, Discovered(task), Size, MaxFiles, Available))
           => MayPlanBatches(task, Available, P)
  /\ pc = "stage.start" => MayStartBatch(task, batch)
  /\ pc \in {"stage.list", "stage.broken"} /\ batch \cap copies # {} =>
       MayRecordStagedFiles(task, batch, batch \cap copies)
  /\ pc = "stage.complete" => MayCompleteBatch(task, batch)
  /\ pc \in {"stage.fail", "stage.failed"} => MayFailBatch(task, batch)

(* What the database says of bytes is true of the bytes, after every crash *)
(* and error: a file ready for Drive is on disk, a verified one is on      *)
(* Drive under its recorded ID, and a confirmed staging copy is there      *)
(* until its directory may be deleted.                                     *)
EvidenceIsReal ==
  \A f \in File :
    /\ status[f] \in {"LOCAL_READY", "DRIVE_UPLOADING", "DRIVE_UPLOADED", "DRIVE_VERIFIED"} =>
         f \in bin
    /\ driveId[f] # NoId => driveId[f] \in objects[f]
    /\ status[f] \in {"BAIDU_STAGED", "DOWNLOADING"} => f \in copies

(* What was recorded as cleaned is gone, and stays gone.                   *)
CleanedIsGone ==
  /\ \A b \in Batch : batchOwned[b] = "CLEANED" => b \notin dirs
  /\ \A f \in File : localOwned[f] = "CLEANED" => f \notin bin /\ part[f] = "none"
  /\ \A t \in Task : rootOwned[t] = "CLEANED" => t \notin roots

(* Nothing that was recorded as cleaned comes back, with one exception:    *)
(* the directory of a batch that was confirmed file by file but never      *)
(* recorded as STAGED, when it is staged again.  A record is written only  *)
(* over what is gone.                                                      *)
Returned(b) == batchOwned[b] = "CLEANED" /\ b \in dirs
OnlyRestagingReturns ==
  [][/\ \A b \in Batch : Returned(b)' =>
           \/ Returned(b)
           \/ pc = "stage.mkdir" /\ b = batch /\ batchStatus[b] # "STAGED"
     /\ \A f \in File : localOwned'[f] = "CLEANED" => f \notin bin' /\ part'[f] = "none"
     /\ \A t \in Task : rootOwned'[t] = "CLEANED" => t \notin roots']_moverVars

(* What the local cache holds.                                             *)
OnDisk == {f \in File : f \in bin \/ part[f] # "none"}
CacheFits == Bytes(OnDisk, Size) <= MaxCache

(* The watermark bounds what all tasks together reserve.  With what is     *)
(* reserved it bounds what they keep: only bytes of files that failed for  *)
(* good, which nothing reserves any more, come on top of it.               *)
ReservationHolds == ReservedCacheBytes <= MaxCache
Live == {f \in File : \/ status[f] \in Reserved
                      \/ f \in OnDisk /\ status[f] # "FAILED_PERMANENT"}
WatermarkHolds == Bytes(Live, Size) <= MaxCache

(* While no process runs, resuming some unfinished task leads on.          *)
CanAdvance(t) ==
  /\ Resumable(t)
  /\ \/ ~scanCompleted[t] \/ Over(t)
     \/ HasCleanupWork(t) /\ ~NoCleanup(t)
     \/ DriveStageDue(t)
     \/ \E f \in File : NextDownload(t, f) /\ ~Waits(f)
     \/ HasStageWork(t)
NoMutualWait == pc = "idle" /\ (\E t \in Task : Resumable(t)) => \E t \in Task : CanAdvance(t)

(* A completed task has its whole tree on Drive.                           *)
CompletedHasTree == \A t \in Task : taskStatus[t] = "COMPLETED" => TreeReady(t)

(* A completed task has left nothing behind: not the staging root that a   *)
(* retry of a batch would make again, no copy in it, nothing in the cache. *)
NothingLeftBehind ==
  \A t \in Task : taskStatus[t] = "COMPLETED" =>
    /\ t \notin roots
    /\ \A f \in File : FileTask[f] = t => f \notin copies \cup OnDisk

(* Once faults stop, every task is brought to its end by resuming it.      *)
Converges ==
  \A t \in Task : taskStatus[t] # Absent ~> taskStatus[t] \in {"COMPLETED", "FAILED"}

(* The program keeps the promise of Delivery: custody is given up only for *)
(* files whose Drive copy was verified.                                    *)
CleanedBatch(f) == \E b \in Batch : f \in b /\ batchOwned[b] = "CLEANED"
Promise == INSTANCE Delivery WITH
  held     <- copies \cup OnDisk,
  onDrive  <- {f \in File : objects[f] # {}},
  verified <- {f \in File : status[f] \in Verified \/ localOwned[f] \in Authorized},
  done     <- {f \in File : CleanedBatch(f) /\ localOwned[f] = "CLEANED"}
KeepsPromise == Promise!DeliverySpec
=============================================================================
