----------------------------- MODULE MCEngines -----------------------------
(***************************************************************************)
(* The engines that Mover takes as one step or a few, each alone: the      *)
(* staging of one batch, the download of one file, the scan of one share,  *)
(* the migration of one database.  They share nothing while they run, so   *)
(* one of them is chosen in the beginning and the others are off.          *)
(***************************************************************************)
EXTENDS TransferEngine, DownloadEngine, ShareScan, Migration, TLC

CONSTANTS root, folder, s1, s2, s3,   \* the share
          oneTask, m1, m2             \* the database

(* Two pages in the root, and a folder on the first or the second of them. *)
EnginesShares == {(root :> entries) @@ (folder :> <<s3>>) :
                  entries \in {<<s1, folder, s2>>, <<s1, s2, folder>>}}
EnginesOwner == (m1 :> oneTask) @@ (m2 :> oneTask)

EnginesInit ==
  \/ TransferInit /\ DownloadOff /\ ScanOff /\ MigrationOff
     /\ Cardinality(trefused \cup tdiffer) <= 1
  \/ TransferOff /\ DownloadInit /\ ScanOff /\ MigrationOff
  \/ TransferOff /\ DownloadOff /\ ScanInit /\ MigrationOff
  \/ TransferOff /\ DownloadOff /\ ScanOff /\ MigrationInit
     /\ mdb.version \in {0, 1, 5, 6, 7}

EnginesNext ==
  \/ TransferNext /\ UNCHANGED <<downloadVars, scanVars, migrationVars>>
  \/ DownloadNext /\ UNCHANGED <<transferVars, scanVars, migrationVars>>
  \/ ScanNext /\ UNCHANGED <<transferVars, downloadVars, migrationVars>>
  \/ MigrationNext /\ UNCHANGED <<transferVars, downloadVars, scanVars>>

(* The variables of all engines have their types.                          *)
EnginesTypeOK == TransferTypeOK /\ DownloadTypeOK /\ ScanTypeOK /\ MigrationTypeOK

enginesVars == <<transferVars, downloadVars, scanVars, migrationVars>>

FairEngines ==
  /\ EnginesInit /\ [][EnginesNext]_enginesVars
  /\ WF_transferVars(Execute) /\ WF_downloadVars(DownloadStep) /\ WF_scanVars(ScanStep)
=============================================================================
