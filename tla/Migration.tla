----------------------------- MODULE Migration -----------------------------
(***************************************************************************)
(* How state.Open brings a database to the schema of this program: all     *)
(* migrations that are missing, in one transaction, statement by           *)
(* statement.  The process may die at each of them, and is started again.  *)
(*                                                                         *)
(* Migration 6 repairs what an earlier program did to files for which the  *)
(* provider had sent something that is no MD5: they could never match, and *)
(* failed for good.                                                        *)
(***************************************************************************)
EXTENDS Naturals, FiniteSets

CONSTANTS MTask, MFile, MOwner, \* rows of tasks and files, the task of a file
          MaxUpgrades           \* bound on how often the database is opened

ASSUME MigrationAssumption == MOwner \in [MFile -> MTask] /\ MaxUpgrades \in Nat

Newest == 6   \* schemaVersion
Version == 0 .. Newest + 1

VARIABLES
  mline,     \* the statement that comes next
  mdb,       \* the database as it is on disk
  mtx,       \* the database as the transaction sees it
  mbefore,   \* history: the database as it was in the beginning
  mupgrades  \* how often it was opened

migrationVars == <<mline, mdb, mtx, mbefore, mupgrades>>

TaskStatus == {"PAUSED", "BLOCKED", "FAILED", "COMPLETED"}
FileRow == [status : {"waiting", "ready", "failed"},
            path   : BOOLEAN,                      \* baidu_staging_path # ''
            cause  : {"none", "mismatch", "other"}, \* last_error
            md5    : {"none", "valid", "invalid"}]
Database == [version : Version, applied : SUBSET (1 .. Newest + 1),
             task : [MTask -> TaskStatus], scanned : [MTask -> BOOLEAN], file : [MFile -> FileRow]]

Empty == [version |-> 0, applied |-> {}, task |-> [t \in MTask |-> "PAUSED"],
          scanned |-> [t \in MTask |-> FALSE],
          file |-> [f \in MFile |-> [status |-> "waiting", path |-> FALSE, cause |-> "none", md5 |-> "none"]]]

(* Rows the earlier programs can have left.                                *)
Plausible(row) ==
  /\ row.status = "ready" => row.path /\ row.cause = "none" /\ row.md5 # "invalid"
  /\ row.status = "waiting" => row.cause # "other"
  /\ row.status = "failed" => row.cause # "none"
  /\ row.cause = "mismatch" => row.path /\ row.md5 # "none"

(* A new file has no tables; the first schema knew only the scan; since    *)
(* version 6 the scanner keeps no value that is not an MD5.                *)
Left(db) ==
  /\ db.version = 0 => db = Empty
  /\ db.version = 1 => \A f \in MFile : db.file[f].status = "waiting" /\ ~db.file[f].path
  /\ \A t \in MTask : db.version < 5 => ~db.scanned[t]
  /\ \A f \in MFile :
       /\ db.version >= 6 => db.file[f].md5 # "invalid"
       /\ db.file[f].status # "ready" => db.task[MOwner[f]] # "COMPLETED"

MigrationStart(line, db) ==
  /\ mline = line /\ mdb = db /\ mtx = db /\ mbefore = db /\ mupgrades = 0
MigrationOff  == MigrationStart("off", Empty)
MigrationInit ==
  \E version \in Version, task \in [MTask -> TaskStatus], scanned \in [MTask -> BOOLEAN],
     file \in [MFile -> {row \in FileRow : Plausible(row)}] :
    LET db == [version |-> version, applied |-> 1 .. version, task |-> task,
               scanned |-> scanned, file |-> file]
    IN Left(db) /\ MigrationStart("closed", db)

----------------------------------------------------------------------------
(* The transaction *)

(* invalidMD5 in the WHERE clauses of migration 6.                         *)
Invalid(row) == row.md5 = "invalid"
(* Mutation: any file that failed after it was staged is taken up again.   *)
FailedLate(row) == row.status = "failed" /\ row.path
Recoverable(row) ==
  row.status = "failed" /\ row.path /\ row.cause = "mismatch" /\ Invalid(row)

Begin ==
  /\ mline = "closed" /\ mupgrades < MaxUpgrades /\ mupgrades' = mupgrades + 1
  /\ mline' = IF mdb.version >= Newest THEN "closed" ELSE "apply"
  /\ mtx' = mdb
  /\ UNCHANGED <<mdb, mbefore>>

Step(from, to) == mline = from /\ mline' = to /\ UNCHANGED <<mupgrades, mbefore>>
(* Mutation: the statement is not one of the transaction.                  *)
WriteThrough(db) == mtx' = db /\ mdb' = db
Write(db) == mtx' = db /\ UNCHANGED mdb

(* Migrations 1 to 5: tables and columns; the column of 5 says that no     *)
(* share was read completely.                                              *)
ApplySchema ==
  /\ mtx.version < Newest - 1 /\ Step("apply", "version")
  /\ Write([mtx EXCEPT !.applied = @ \cup {mtx.version + 1}])
RecordMigration ==
  /\ Step("version", "apply") /\ Write([mtx EXCEPT !.version = @ + 1])

RecoverTasks ==
  /\ mtx.version = Newest - 1 /\ Step("apply", "files")
  /\ Write([mtx EXCEPT !.task = [t \in MTask |->
       IF /\ mtx.task[t] = "BLOCKED"
          /\ \E f \in MFile : MOwner[f] = t /\ Recoverable(mtx.file[f])
         THEN "PAUSED" ELSE mtx.task[t]]])

RecoverFiles ==
  /\ Step("files", "hashes")
  /\ Write([mtx EXCEPT !.file = [f \in MFile |->
       IF Recoverable(mtx.file[f])
         THEN [mtx.file[f] EXCEPT !.status = "waiting", !.md5 = "none", !.cause = "none"]
         ELSE mtx.file[f]]])
ClearHashes ==
  /\ Step("hashes", "version")
  /\ Write([mtx EXCEPT !.applied = @ \cup {Newest},
            !.file = [f \in MFile |-> IF Invalid(mtx.file[f])
                        THEN [mtx.file[f] EXCEPT !.md5 = "none"] ELSE mtx.file[f]]])

Commit ==
  /\ mtx.version = Newest /\ Step("apply", "closed")
  /\ mdb' = mtx /\ UNCHANGED mtx

(* The process dies, or a statement fails: the transaction is rolled back. *)
RollBack ==
  /\ mline \notin {"off", "closed"} /\ mline' = "closed"
  /\ mtx' = mdb
  /\ UNCHANGED <<mdb, mbefore, mupgrades>>

MigrationNext == \/ Begin \/ ApplySchema \/ RecordMigration \/ RecoverTasks \/ RecoverFiles
                 \/ ClearHashes \/ Commit \/ RollBack
MigrationSpec == MigrationInit /\ [][MigrationNext]_migrationVars

----------------------------------------------------------------------------
(* Properties *)

(* The variables have their types.                                         *)
MigrationTypeOK ==
  /\ mline \in {"off", "closed", "apply", "files", "hashes", "version"}
  /\ mdb \in Database /\ mtx \in Database /\ mbefore \in Database
  /\ mupgrades \in 0 .. MaxUpgrades

(* Wherever the process dies, the database is one of a schema that some    *)
(* program wrote: its version names the migrations it has had, and one of  *)
(* a newer program is not touched.                                         *)
OneSchema ==
  /\ mdb.applied = 1 .. mdb.version
  /\ mdb.version \in {mbefore.version, Newest}
  /\ mbefore.version >= Newest => mdb = mbefore

(* A file that failed only because of what is no MD5 is downloaded again,  *)
(* and its task can be resumed if it was blocked by that; all other        *)
(* failures stay, and no value is left that no download can match.         *)
NarrowRecovery ==
  mdb.version # mbefore.version =>
    \A f \in MFile :
      LET old == mbefore.file[f]
          new == mdb.file[f]
      IN /\ new.md5 = IF old.md5 = "invalid" THEN "none" ELSE old.md5
         /\ IF /\ old.status = "failed" /\ old.cause = "mismatch" /\ old.md5 = "invalid"
              THEN new.status = "waiting" /\ mdb.task[MOwner[f]] # "BLOCKED"
              ELSE new.status = old.status /\ new.cause = old.cause
=============================================================================
