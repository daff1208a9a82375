----------------------------- MODULE Lifecycle -----------------------------
(***************************************************************************)
(* The status vocabulary of the durable state (internal/state/model.go):   *)
(* the statuses of tasks, files and staging batches, and the table of file *)
(* transitions the package declares legal.  "ABSENT" stands for a row that *)
(* does not exist yet.                                                     *)
(***************************************************************************)

Absent == "ABSENT"

TaskStatus == {"NEW", "AUTH_REQUIRED", "SCANNING", "RUNNING", "PAUSED",
               "BLOCKED", "COMPLETED", "FAILED"}

FileStatus == {"DISCOVERED", "PLANNED", "BAIDU_STAGING", "BAIDU_STAGED",
               "DOWNLOADING", "LOCAL_READY", "DRIVE_UPLOADING",
               "DRIVE_UPLOADED", "DRIVE_VERIFIED", "CLEANUP_PENDING", "DONE",
               "FAILED_RETRYABLE", "FAILED_PERMANENT"}

BatchStatus == {"PENDING", "STAGING", "STAGED", "FAILED_RETRYABLE",
                "FAILED_PERMANENT"}

(* The order in which a file moves through the pipeline. *)
Stage == [s \in FileStatus |->
           CASE s = "DISCOVERED"      -> 1  [] s = "PLANNED"         -> 2
             [] s = "BAIDU_STAGING"   -> 3  [] s = "BAIDU_STAGED"    -> 4
             [] s = "DOWNLOADING"     -> 5  [] s = "LOCAL_READY"     -> 6
             [] s = "DRIVE_UPLOADING" -> 7  [] s = "DRIVE_UPLOADED"  -> 8
             [] s = "DRIVE_VERIFIED"  -> 9  [] s = "CLEANUP_PENDING" -> 10
             [] s = "DONE"            -> 11 [] OTHER                 -> 12]

Failure == {"FAILED_RETRYABLE", "FAILED_PERMANENT"}

(* The table of legal file transitions. *)
allowedFileTransitions ==
  [s \in FileStatus |->
     CASE s = "DISCOVERED"      -> {"PLANNED", "FAILED_PERMANENT"}
       [] s = "PLANNED"         -> {"BAIDU_STAGING"} \cup Failure
       [] s = "BAIDU_STAGING"   -> {"BAIDU_STAGED"} \cup Failure
       [] s = "BAIDU_STAGED"    -> {"DOWNLOADING"} \cup Failure
       [] s = "DOWNLOADING"     -> {"LOCAL_READY"} \cup Failure
       [] s = "LOCAL_READY"     -> {"DRIVE_UPLOADING", "DRIVE_UPLOADED"} \cup Failure
       [] s = "DRIVE_UPLOADING" -> {"DRIVE_UPLOADED"} \cup Failure
       [] s = "DRIVE_UPLOADED"  -> {"DRIVE_VERIFIED"} \cup Failure
       [] s = "DRIVE_VERIFIED"  -> {"CLEANUP_PENDING", "DONE"}
       [] s = "CLEANUP_PENDING" -> {"DONE", "FAILED_RETRYABLE"}
       [] s = "FAILED_RETRYABLE" -> FileStatus \ {"DISCOVERED", "DONE", "FAILED_RETRYABLE"}
       [] OTHER                 -> {}]

(* A transition to the same status is always legal. *)
ValidateFileTransition(from, to) ==
  from = to \/ to \in allowedFileTransitions[from]

(* Mutation: a file that is being downloaded has no confirmation left.     *)
OnlyStaged == {"BAIDU_STAGED"}

(* Statuses from which the transaction that confirms a staged file has     *)
(* nothing left to do: the confirmation was consumed earlier.              *)
StagingConfirmationAlreadyConsumed ==
  {"BAIDU_STAGED", "DOWNLOADING", "LOCAL_READY", "DRIVE_UPLOADING",
   "DRIVE_UPLOADED", "DRIVE_VERIFIED", "CLEANUP_PENDING", "DONE"}
=============================================================================
