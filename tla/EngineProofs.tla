---------------------------- MODULE EngineProofs ----------------------------
(***************************************************************************)
(* Proofs about the download of a file, the migration of a database and    *)
(* the scan of a share, and about the engines together: for every length   *)
(* of a file, every set of tasks, every share, and every number of         *)
(* attempts, runs, interruptions and changes.                              *)
(***************************************************************************)
EXTENDS MCEngines, TransferProofs

----------------------------------------------------------------------------
(* The download of a file *)

Loop == {"size", "open", "verify"}

(* What is known at each line: the attempts that are left, what has been   *)
(* verified, and that a wrong size or content is the server's doing.       *)
AtLine ==
  /\ dline \in {"bin", "part", "begin"} => dattempt = 0
  /\ dline \in Loop => dattempt < MaxOpens
  /\ dline = "verify" => dlies # {} \/ (dpart.len = Size /\ dpart.good)
  /\ dline = "rename" => Verified(dpart)
  /\ dline = "record" => Verified(dbin)
  /\ dstatus \in {"ready", "failed"} => dline = "rest"
  /\ dstatus = "ready" => Verified(dbin)

DownloadInv == DownloadTypeOK /\ HonestPrefix /\ PermanentNeedsALie /\ AtLine

(* An absent file is no wrong one.                                         *)
LEMMA NoFileIsGood == None \in Contents /\ None.good /\ None.len = Absent
BY DownloadAssumption DEF None, Contents, Lengths, Absent

(* The types are kept: a number of attempts is counted only below the      *)
(* bound, and a received length lies in the modelled range.                *)
LEMMA TypeStep == DownloadInv /\ DownloadNext => DownloadTypeOK'
<1> SUFFICES ASSUME DownloadInv, DownloadNext PROVE DownloadTypeOK'
  OBVIOUS
<1> USE DownloadAssumption, NoFileIsGood
<1>0. DownloadTypeOK /\ AtLine
  BY DEF DownloadInv
<1>1. ASSUME NEW e \in LastError, Retry(e), dattempt < MaxOpens
      PROVE  dline' \in DownloadLine /\ dattempt' \in 0 .. MaxOpens /\ dlast' \in LastError
             /\ dstatus' \in {"staged", "downloading", "ready", "failed"}
  BY <1>0, <1>1 DEF Retry, FailWith, Goto, DownloadTypeOK, DownloadLine
<1>2. TakeUp => DownloadTypeOK'
  BY <1>0 DEF TakeUp, Goto, KeepFiles, files, DownloadTypeOK, DownloadLine, LastError
<1>3. CheckBin => DownloadTypeOK'
  BY <1>0 DEF CheckBin, Goto, KeepFiles, KeepRun, KeepRow, files, DownloadTypeOK, DownloadLine
<1>4. CheckPart => DownloadTypeOK'
  BY <1>0 DEF CheckPart, Goto, KeepFiles, KeepRun, KeepRow, files, DownloadTypeOK, DownloadLine
<1>5. StartDownload => DownloadTypeOK'
  BY <1>0 DEF StartDownload, Goto, KeepFiles, KeepRun, files, DownloadTypeOK, DownloadLine
<1>6. SizePart => DownloadTypeOK'
  BY <1>0 DEF SizePart, Goto, KeepFiles, KeepRun, KeepRow, files, DownloadTypeOK, DownloadLine
<1>7. RangeRefused => DownloadTypeOK'
  BY <1>0 DEF RangeRefused, FailWith, Goto, KeepFiles, KeepRun, files, DownloadTypeOK, DownloadLine
<1>8. Stops => DownloadTypeOK'
  BY <1>0 DEF Stops, FailWith, Goto, KeepFiles, KeepRun, files, DownloadTypeOK, DownloadLine
<1>9. OpenFails => DownloadTypeOK'
  BY <1>0, <1>1 DEF OpenFails, AtLine, Loop, KeepFiles, files, DownloadTypeOK, LastError
<1>10. WrongTotal => DownloadTypeOK'
  BY <1>0, <1>1 DEF WrongTotal, AtLine, Loop, KeepFiles, files, DownloadTypeOK, LastError, Lie
<1>11. ASSUME Receive PROVE DownloadTypeOK'
  <2>1. PICK len \in Offset .. Size + 1, good \in BOOLEAN :
          /\ dpart' = [len |-> len, good |-> (Offset = 0 \/ dpart.good) /\ good]
          /\ \/ Goto("verify") /\ UNCHANGED <<dattempt, dlast, dstatus>>
                /\ dlies' = dlies \cup (IF good THEN {} ELSE {"byte"})
                                  \cup (IF len = Size THEN {} ELSE {"end"})
             \/ Retry("network") /\ dlies' = dlies \cup (IF good THEN {} ELSE {"byte"})
    BY <1>11 DEF Receive
  <2>2. dpart \in Contents /\ Offset \in 0 .. Size + 1
    BY <1>0 DEF DownloadTypeOK, Contents, Lengths, Absent, Offset
  <2>3. ((Offset = 0 \/ dpart.good) /\ good) \in BOOLEAN
    OBVIOUS
  <2>4. dpart' \in Contents
    BY <2>1, <2>2, <2>3 DEF Contents, Lengths, Absent
  <2>5. dlies' \subseteq Lie
    BY <1>0, <2>1 DEF DownloadTypeOK, Lie
  <2>6. dattempt < MaxOpens
    BY <1>0, <1>11 DEF Receive, AtLine, Loop
  <2> QED
    BY <1>0, <1>1, <1>11, <2>1, <2>4, <2>5, <2>6 DEF Receive, Goto, DownloadTypeOK, DownloadLine, LastError
<1>12. VerifyPart => DownloadTypeOK'
  BY <1>0, <1>1 DEF VerifyPart, AtLine, Loop, Goto, KeepFiles, KeepRun, files, DownloadTypeOK,
     DownloadLine, LastError
<1>13. RenamePart => DownloadTypeOK'
  BY <1>0 DEF RenamePart, Goto, KeepRun, KeepRow, DownloadTypeOK, DownloadLine
<1>14. MarkLocalReady => DownloadTypeOK'
  BY <1>0 DEF MarkLocalReady, Goto, KeepFiles, KeepRun, files, DownloadTypeOK, DownloadLine
<1>15. DownloadCrash => DownloadTypeOK'
  BY <1>0 DEF DownloadCrash, Goto, KeepFiles, KeepRun, KeepRow, files, DownloadTypeOK, DownloadLine
<1> QED
  BY <1>2, <1>3, <1>4, <1>5, <1>6, <1>7, <1>8, <1>9, <1>10, <1>11, <1>12, <1>13, <1>14, <1>15
  DEF DownloadNext, DownloadStep

(* From a server that sends the right bytes nothing wrong is ever on disk: *)
(* bytes are appended to a prefix, or to an empty file.                    *)
LEMMA HonestStep == DownloadInv /\ DownloadNext => HonestPrefix'
<1> SUFFICES ASSUME DownloadInv, DownloadNext, "byte" \notin dlies'
             PROVE  dpart'.good /\ dbin'.good
  BY DEF HonestPrefix
<1> USE NoFileIsGood
<1>1. dlies \subseteq dlies'
  BY DEF DownloadNext, DownloadStep, TakeUp, CheckBin, CheckPart, StartDownload, SizePart,
     RangeRefused, Stops, OpenFails, WrongTotal, Receive, VerifyPart, RenamePart, MarkLocalReady,
     DownloadCrash, KeepRow
<1>2. dpart.good /\ dbin.good
  BY <1>1 DEF DownloadInv, HonestPrefix
<1>3. ASSUME Receive PROVE dpart'.good /\ dbin'.good
  <2>1. PICK len \in Offset .. Size + 1, good \in BOOLEAN :
          /\ dpart' = [len |-> len, good |-> (Offset = 0 \/ dpart.good) /\ good]
          /\ \/ dlies' = dlies \cup (IF good THEN {} ELSE {"byte"})
                                \cup (IF len = Size THEN {} ELSE {"end"})
             \/ dlies' = dlies \cup (IF good THEN {} ELSE {"byte"})
    BY <1>3 DEF Receive
  <2>2. good
    BY <2>1
  <2> QED
    BY <1>2, <1>3, <2>1, <2>2 DEF Receive
<1> QED
  BY <1>2, <1>3 DEF DownloadNext, DownloadStep, TakeUp, CheckBin, CheckPart, StartDownload, SizePart,
     RangeRefused, Stops, OpenFails, WrongTotal, VerifyPart, RenamePart, MarkLocalReady,
     DownloadCrash, KeepFiles, files

(* A file fails for good after a mismatch, and a mismatch is a wrong total *)
(* or what the server sent since, or before, this process was started.     *)
LEMMA LieStep == DownloadInv /\ DownloadNext => PermanentNeedsALie'
<1> SUFFICES ASSUME DownloadInv, DownloadNext, dstatus' = "failed"
             PROVE  dlies' # {}
  BY DEF PermanentNeedsALie
<1>1. dlies \subseteq dlies'
  BY DEF DownloadNext, DownloadStep, TakeUp, CheckBin, CheckPart, StartDownload, SizePart,
     RangeRefused, Stops, OpenFails, WrongTotal, Receive, VerifyPart, RenamePart, MarkLocalReady,
     DownloadCrash, KeepRow
<1>2. CASE dstatus = "failed"
  BY <1>1, <1>2 DEF DownloadInv, PermanentNeedsALie
<1>3. CASE dstatus # "failed"
  <2>1. WrongTotal \/ VerifyPart
    BY <1>3 DEF DownloadNext, DownloadStep, TakeUp, CheckBin, CheckPart, StartDownload, SizePart,
       RangeRefused, Stops, OpenFails, Receive, RenamePart, MarkLocalReady, DownloadCrash, KeepRow,
       Retry, FailWith, Deterministic
  <2>2. CASE WrongTotal
    BY <2>2 DEF WrongTotal
  <2>3. CASE VerifyPart
    <3>1. ~Verified(dpart) /\ dline = "verify"
      BY <1>3, <2>3 DEF VerifyPart, Retry, FailWith, Deterministic
    <3>2. dlies # {}
      BY <3>1 DEF DownloadInv, AtLine, Verified
    <3> QED
      BY <1>1, <3>2
  <2> QED
    BY <2>1, <2>2, <2>3
<1> QED
  BY <1>2, <1>3

(* What a line relies on is what the line before it has established.       *)
LEMMA LineStep == DownloadInv /\ DownloadNext => AtLine'
<1> SUFFICES ASSUME DownloadInv, DownloadNext PROVE AtLine'
  OBVIOUS
<1> USE DownloadAssumption DEF Loop
<1>0. DownloadTypeOK /\ AtLine /\ HonestPrefix
  BY DEF DownloadInv
<1>1. dattempt \in 0 .. MaxOpens /\ dattempt \in Int /\ MaxOpens \in Int /\ 0 < MaxOpens
  BY <1>0 DEF DownloadTypeOK
<1>2. ASSUME NEW e, Retry(e), dline \in Loop, UNCHANGED <<dbin, dhash>>
      PROVE  AtLine'
  BY <1>0, <1>1, <1>2 DEF Retry, FailWith, Goto, AtLine, Verified, Deterministic
<1>3. TakeUp => AtLine'
  BY <1>0, <1>1 DEF TakeUp, Goto, AtLine
<1>4. CheckBin => AtLine'
  BY <1>0, <1>1 DEF CheckBin, Goto, KeepFiles, KeepRun, KeepRow, files, AtLine, Verified
<1>5. CheckPart => AtLine'
  BY <1>0, <1>1 DEF CheckPart, Goto, KeepFiles, KeepRun, KeepRow, files, AtLine, Verified
<1>6. StartDownload => AtLine'
  BY <1>0, <1>1 DEF StartDownload, Goto, KeepFiles, KeepRun, files, AtLine, Verified
<1>7. SizePart => AtLine'
  BY <1>0, <1>1 DEF SizePart, Goto, KeepFiles, KeepRun, KeepRow, files, AtLine, Verified
<1>8. RangeRefused => AtLine'
  BY <1>0, <1>1 DEF RangeRefused, FailWith, Goto, KeepFiles, KeepRun, files, AtLine, Verified
<1>9. Stops => AtLine'
  BY <1>0, <1>1 DEF Stops, FailWith, Goto, KeepFiles, KeepRun, files, AtLine, Verified
<1>10. OpenFails => AtLine'
  BY <1>2 DEF OpenFails, KeepFiles, files
<1>11. WrongTotal => AtLine'
  BY <1>2 DEF WrongTotal, KeepFiles, files
<1>12. ASSUME Receive PROVE AtLine'
  <2>1. PICK len \in Offset .. Size + 1, good \in BOOLEAN :
          /\ dpart' = [len |-> len, good |-> (Offset = 0 \/ dpart.good) /\ good]
          /\ \/ Goto("verify") /\ UNCHANGED <<dattempt, dlast, dstatus>>
                /\ dlies' = dlies \cup (IF good THEN {} ELSE {"byte"})
                                  \cup (IF len = Size THEN {} ELSE {"end"})
             \/ Retry("network") /\ dlies' = dlies \cup (IF good THEN {} ELSE {"byte"})
    BY <1>12 DEF Receive
  <2>2. CASE Retry("network")
    BY <1>2, <1>12, <2>2 DEF Receive
  <2>3. CASE /\ Goto("verify") /\ UNCHANGED <<dattempt, dlast, dstatus>>
             /\ dlies' = dlies \cup (IF good THEN {} ELSE {"byte"})
                               \cup (IF len = Size THEN {} ELSE {"end"})
    <3>1. dlies' # {} \/ (dpart'.len = Size /\ dpart'.good)
      <4>1. SUFFICES ASSUME dlies' = {} PROVE len = Size /\ good /\ dpart.good
        BY <2>1
      <4>2. len = Size /\ good /\ "byte" \notin dlies
        BY <2>3, <4>1
      <4> QED
        BY <1>0, <4>2 DEF HonestPrefix
    <3> QED
      BY <1>0, <1>12, <2>3, <3>1 DEF Receive, Goto, AtLine
  <2> QED
    BY <2>1, <2>2, <2>3
<1>13. VerifyPart => AtLine'
  <2>1. ASSUME VerifyPart, Verified(dpart), Goto("rename"), KeepFiles, KeepRun, UNCHANGED dstatus
        PROVE  AtLine'
    BY <1>0, <2>1 DEF VerifyPart, Goto, KeepFiles, KeepRun, files, AtLine, Verified
  <2>2. ASSUME VerifyPart, NEW e, Retry(e), UNCHANGED dbin PROVE AtLine'
    BY <1>2, <2>2 DEF VerifyPart
  <2> QED
    BY <2>1, <2>2 DEF VerifyPart
<1>14. RenamePart => AtLine'
  BY <1>0 DEF RenamePart, Goto, KeepRun, KeepRow, AtLine, Verified
<1>15. MarkLocalReady => AtLine'
  BY <1>0 DEF MarkLocalReady, Goto, KeepFiles, KeepRun, files, AtLine, Verified
<1>16. DownloadCrash => AtLine'
  BY <1>0 DEF DownloadCrash, Goto, KeepFiles, KeepRun, KeepRow, files, AtLine, Verified
<1> QED
  BY <1>3, <1>4, <1>5, <1>6, <1>7, <1>8, <1>9, <1>10, <1>11, <1>12, <1>13, <1>14, <1>15, <1>16
  DEF DownloadNext, DownloadStep

(* A download begins without files.                                        *)
LEMMA DownloadBegins == DownloadInit \/ DownloadOff => DownloadInv
<1> SUFFICES ASSUME DownloadInit \/ DownloadOff PROVE DownloadInv
  OBVIOUS
<1>1. /\ dline \in {"rest", "off"} /\ dpart = None /\ dbin = None /\ dattempt = 0 /\ dlast = "none"
      /\ dstatus = "staged" /\ ddownloads = 0 /\ dlies = {} /\ dhash \in BOOLEAN
  BY DEF DownloadInit, DownloadOff
<1>2. 0 \in 0 .. MaxOpens /\ 0 \in 0 .. MaxDownloads
  BY DownloadAssumption
<1>3. DownloadTypeOK
  BY <1>1, <1>2, NoFileIsGood DEF DownloadTypeOK, DownloadLine, LastError
<1>4. HonestPrefix /\ PermanentNeedsALie /\ AtLine
  BY <1>1, NoFileIsGood DEF HonestPrefix, PermanentNeedsALie, AtLine, Loop
<1> QED
  BY <1>3, <1>4 DEF DownloadInv

(* Every step of a download keeps the invariant.                           *)
LEMMA DownloadInvStep == DownloadInv /\ [DownloadNext]_downloadVars => DownloadInv'
<1> SUFFICES ASSUME DownloadInv, [DownloadNext]_downloadVars PROVE DownloadInv'
  OBVIOUS
<1>1. CASE DownloadNext
  BY <1>1, TypeStep, HonestStep, LieStep, LineStep DEF DownloadInv
<1>2. CASE UNCHANGED downloadVars
  BY <1>2 DEF downloadVars, downloadRun, files, DownloadInv, DownloadTypeOK, HonestPrefix,
     PermanentNeedsALie, AtLine, Verified
<1> QED
  BY <1>1, <1>2

(* The inductive invariant of a download: the types, the honesty of what   *)
(* is on disk, and what each line of downloadOne relies on.                *)
THEOREM DownloadInvariant == DownloadSpec => []DownloadInv
<1>1. DownloadInit => DownloadInv
  BY DownloadBegins
<1>2. DownloadInv /\ [DownloadNext]_downloadVars => DownloadInv'
  BY DownloadInvStep
<1> QED
  BY <1>1, <1>2, PTL DEF DownloadSpec

(* MarkLocalReady is a true claim about the bytes of the .bin file, for    *)
(* every length and after every crash (downloadOne, lines 149 to 251).     *)
THEOREM ReadyMeansVerified == DownloadSpec => []ReadyBytes
<1>1. DownloadInv => ReadyBytes
  BY DEF DownloadInv, AtLine, HonestPrefix, ReadyBytes, Verified
<1> QED
  BY <1>1, DownloadInvariant, PTL

(* No number of resumed, refused and broken ranges spoils a partial file   *)
(* (downloadOne, copyStream).                                              *)
THEOREM ResumingNeverDamages == DownloadSpec => []HonestPrefix
<1>1. DownloadInv => HonestPrefix
  BY DEF DownloadInv
<1> QED
  BY <1>1, DownloadInvariant, PTL

(* FAILED_PERMANENT is recorded only when the server misbehaved            *)
(* (isDeterministicVerificationError).                                     *)
THEOREM FailureNeedsALie == DownloadSpec => []PermanentNeedsALie
<1>1. DownloadInv => PermanentNeedsALie
  BY DEF DownloadInv
<1> QED
  BY <1>1, DownloadInvariant, PTL

----------------------------------------------------------------------------
(* The migration of a database *)

(* What migration 6 makes of the tasks, and of the files in two steps.     *)
TasksAfter(db) ==
  [t \in MTask |->
     IF /\ db.task[t] = "BLOCKED"
        /\ \E f \in MFile : MOwner[f] = t /\ Recoverable(db.file[f])
       THEN "PAUSED" ELSE db.task[t]]
Recovered(db) ==
  [f \in MFile |->
     IF Recoverable(db.file[f])
       THEN [db.file[f] EXCEPT !.status = "waiting", !.md5 = "none", !.cause = "none"]
       ELSE db.file[f]]
Cleared(file) ==
  [f \in MFile |-> IF Invalid(file[f]) THEN [file[f] EXCEPT !.md5 = "none"] ELSE file[f]]

Repaired(db) == db.task = TasksAfter(mbefore) /\ db.file = Cleared(Recovered(mbefore))
Untouched(db) == db.task = mbefore.task /\ db.file = mbefore.file

(* How far the transaction is at each of its lines.                        *)
Between ==
  /\ mline = "apply" =>
       /\ mtx.applied = 1 .. mtx.version
       /\ IF mtx.version = Newest THEN Repaired(mtx) ELSE mtx.version < Newest /\ Untouched(mtx)
  /\ mline = "version" =>
       /\ mtx.applied = 1 .. mtx.version + 1 /\ mtx.version < Newest
       /\ IF mtx.version = Newest - 1 THEN Repaired(mtx) ELSE Untouched(mtx)
  /\ mline \in {"files", "hashes"} =>
       /\ mtx.applied = 1 .. mtx.version /\ mtx.version = Newest - 1
       /\ mtx.task = TasksAfter(mbefore)
  /\ mline = "files" => mtx.file = mbefore.file
  /\ mline = "hashes" => mtx.file = Recovered(mbefore)

(* The database on disk is the old one until the commit, and then the      *)
(* repaired one; the old one held what an earlier program can have left.   *)
Settled ==
  /\ mbefore.applied = 1 .. mbefore.version
  /\ \A f \in MFile : Plausible(mbefore.file[f])
  /\ mline \notin {"off", "closed"} => mdb = mbefore /\ mbefore.version < Newest
  /\ mdb = mbefore
     \/ (mbefore.version < Newest /\ mdb.version = Newest /\ mdb.applied = 1 .. Newest /\ Repaired(mdb))

MigrationInv == MigrationTypeOK /\ Between /\ Settled

(* Each statement keeps the rows of tasks and files within their types.    *)
LEMMA RowTypes ==
  ASSUME NEW db \in Database
  PROVE  /\ db.version \in Version /\ db.applied \in SUBSET (1 .. Newest + 1)
         /\ db.task \in [MTask -> TaskStatus] /\ db.file \in [MFile -> FileRow]
         /\ db = [version |-> db.version, applied |-> db.applied, task |-> db.task,
                  scanned |-> db.scanned, file |-> db.file]
         /\ TasksAfter(db) \in [MTask -> TaskStatus]
         /\ Recovered(db) \in [MFile -> FileRow]
         /\ Cleared(db.file) \in [MFile -> FileRow]
<1>1. db.version \in Version /\ db.task \in [MTask -> TaskStatus] /\ db.file \in [MFile -> FileRow]
      /\ db.applied \in SUBSET (1 .. Newest + 1)
      /\ db = [version |-> db.version, applied |-> db.applied, task |-> db.task,
               scanned |-> db.scanned, file |-> db.file]
  BY DEF Database
<1>2. TasksAfter(db) \in [MTask -> TaskStatus]
  BY <1>1 DEF TasksAfter, TaskStatus
<1>3. \A row \in FileRow : [row EXCEPT !.status = "waiting", !.md5 = "none", !.cause = "none"] \in FileRow
                           /\ [row EXCEPT !.md5 = "none"] \in FileRow
  BY DEF FileRow
<1>4. Recovered(db) \in [MFile -> FileRow]
  BY <1>1, <1>3 DEF Recovered
<1>5. Cleared(db.file) \in [MFile -> FileRow]
  BY <1>1, <1>3 DEF Cleared
<1> QED
  BY <1>1, <1>2, <1>4, <1>5

(* The statements of the transaction and its two ends keep the invariant.  *)
LEMMA MigrationStep == MigrationInv /\ MigrationNext => MigrationInv'
<1> SUFFICES ASSUME MigrationInv, MigrationNext PROVE MigrationInv'
  OBVIOUS
<1> USE DEF Newest
<1>0. MigrationTypeOK /\ Between /\ Settled
  BY DEF MigrationInv
<1>1. mdb \in Database /\ mtx \in Database /\ mbefore \in Database
  BY <1>0 DEF MigrationTypeOK
<1>2. mtx.version \in 0 .. 7 /\ mbefore.version \in 0 .. 7
  BY <1>1, RowTypes DEF Version
<1>3. ASSUME Begin PROVE MigrationInv'
  <2>1. mtx' = mdb /\ UNCHANGED <<mdb, mbefore>> /\ mline = "closed"
        /\ mline' = IF mdb.version >= Newest THEN "closed" ELSE "apply"
    BY <1>3 DEF Begin
  <2>2. MigrationTypeOK'
    BY <1>0, <1>3, MigrationAssumption DEF Begin, MigrationTypeOK
  <2>3. mdb.version < Newest => mdb = mbefore
    BY <1>0, <1>2 DEF Settled
  <2>4. mdb.version \in 0 .. 7
    BY <1>1, RowTypes DEF Version
  <2>5. Between'
    BY <1>0, <2>1, <2>3, <2>4 DEF Settled, Between, Untouched
  <2>6. Settled'
    BY <1>0, <2>1, <2>3, <2>4 DEF Settled, Repaired
  <2> QED
    BY <2>2, <2>5, <2>6 DEF MigrationInv
<1>4. ASSUME ApplySchema PROVE MigrationInv'
  <2>1. /\ mline = "apply" /\ mline' = "version" /\ UNCHANGED <<mupgrades, mbefore, mdb>>
        /\ mtx.version < Newest - 1
        /\ mtx' = [mtx EXCEPT !.applied = @ \cup {mtx.version + 1}]
    BY <1>4 DEF ApplySchema, Step, Write
  <2>2. /\ mtx'.version = mtx.version /\ mtx'.task = mtx.task /\ mtx'.file = mtx.file
        /\ mtx'.applied = mtx.applied \cup {mtx.version + 1}
        /\ mtx' \in Database
    BY <1>1, <1>2, <2>1 DEF Database
  <2>3. mtx'.applied = 1 .. mtx'.version + 1
    BY <1>0, <1>2, <2>1, <2>2 DEF Between
  <2> QED
    BY <1>0, <1>2, <2>1, <2>2, <2>3 DEF MigrationInv, MigrationTypeOK, Between, Settled, Untouched, Repaired
<1>5. ASSUME RecordMigration PROVE MigrationInv'
  <2>1. /\ mline = "version" /\ mline' = "apply" /\ UNCHANGED <<mupgrades, mbefore, mdb>>
        /\ mtx' = [mtx EXCEPT !.version = @ + 1]
    BY <1>5 DEF RecordMigration, Step, Write
  <2>2. mtx.version < Newest
    BY <1>0, <2>1 DEF Between
  <2>3. /\ mtx'.version = mtx.version + 1 /\ mtx'.task = mtx.task /\ mtx'.file = mtx.file
        /\ mtx'.applied = mtx.applied
        /\ mtx' \in Database
    BY <1>1, <1>2, <2>1, <2>2 DEF Database, Version
  <2> QED
    BY <1>0, <1>2, <2>1, <2>2, <2>3 DEF MigrationInv, MigrationTypeOK, Between, Settled, Untouched, Repaired
<1>6. ASSUME RecoverTasks PROVE MigrationInv'
  <2>1. /\ mline = "apply" /\ mline' = "files" /\ UNCHANGED <<mupgrades, mbefore, mdb>>
        /\ mtx.version = Newest - 1
        /\ mtx' = [mtx EXCEPT !.task = TasksAfter(mtx)]
    BY <1>6 DEF RecoverTasks, Step, Write, TasksAfter
  <2>2. TasksAfter(mtx) = TasksAfter(mbefore)
    BY <1>0, <2>1 DEF Between, Untouched, TasksAfter
  <2>3. /\ mtx'.version = mtx.version /\ mtx'.task = TasksAfter(mbefore) /\ mtx'.file = mtx.file
        /\ mtx'.applied = mtx.applied
        /\ mtx' \in Database
    BY <1>1, <2>1, <2>2, RowTypes DEF Database
  <2>4. mtx.version # Newest /\ mtx.applied = 1 .. mtx.version /\ mtx.file = mbefore.file
    BY <1>0, <2>1 DEF Between, Untouched
  <2>5. Between'
    BY <2>1, <2>3, <2>4 DEF Between
  <2> QED
    BY <1>0, <2>1, <2>3, <2>5 DEF MigrationInv, MigrationTypeOK, Settled, Repaired
<1>7. ASSUME RecoverFiles PROVE MigrationInv'
  <2>1. /\ mline = "files" /\ mline' = "hashes" /\ UNCHANGED <<mupgrades, mbefore, mdb>>
        /\ mtx' = [mtx EXCEPT !.file = Recovered(mtx)]
    BY <1>7 DEF RecoverFiles, Step, Write, Recovered
  <2>2. Recovered(mtx) = Recovered(mbefore)
    BY <1>0, <2>1 DEF Between, Recovered
  <2>3. /\ mtx'.version = mtx.version /\ mtx'.task = mtx.task /\ mtx'.file = Recovered(mbefore)
        /\ mtx'.applied = mtx.applied
        /\ mtx' \in Database
    BY <1>1, <2>1, <2>2, RowTypes DEF Database
  <2> QED
    BY <1>0, <2>1, <2>3 DEF MigrationInv, MigrationTypeOK, Between, Settled, Repaired
<1>8. ASSUME ClearHashes PROVE MigrationInv'
  <2>1. /\ mline = "hashes" /\ mline' = "version" /\ UNCHANGED <<mupgrades, mbefore, mdb>>
        /\ mtx' = [mtx EXCEPT !.applied = @ \cup {Newest}, !.file = Cleared(mtx.file)]
    BY <1>8 DEF ClearHashes, Step, Write, Cleared
  <2>0. Cleared(mtx.file) \in [MFile -> FileRow] /\ mtx.file = Recovered(mbefore)
        /\ mtx.applied \cup {Newest} \in SUBSET (1 .. Newest + 1)
    BY <1>0, <1>1, <2>1, RowTypes DEF Between
  <2>2. /\ mtx'.version = mtx.version /\ mtx'.task = mtx.task
        /\ mtx'.file = Cleared(Recovered(mbefore))
        /\ mtx'.applied = mtx.applied \cup {Newest}
        /\ mtx' \in Database
    <3> DEFINE file == Cleared(mtx.file)
    <3>1. file \in [MFile -> FileRow] /\ file = Cleared(Recovered(mbefore))
      BY <2>0
    <3> HIDE DEF file
    <3> QED
      BY <1>1, <2>0, <2>1, <3>1 DEF Database
  <2>3. mtx'.applied = 1 .. mtx'.version + 1
    BY <1>0, <2>1, <2>2 DEF Between
  <2> QED
    BY <1>0, <2>1, <2>2, <2>3 DEF MigrationInv, MigrationTypeOK, Between, Settled, Repaired
<1>9. ASSUME Commit PROVE MigrationInv'
  <2>1. /\ mline = "apply" /\ mline' = "closed" /\ UNCHANGED <<mupgrades, mbefore, mtx>>
        /\ mtx.version = Newest /\ mdb' = mtx
    BY <1>9 DEF Commit, Step
  <2> QED
    BY <1>0, <2>1 DEF MigrationInv, MigrationTypeOK, Between, Settled, Repaired
<1>10. ASSUME RollBack PROVE MigrationInv'
  BY <1>0, <1>10 DEF RollBack, MigrationInv, MigrationTypeOK, Between, Settled, Repaired
<1> QED
  BY <1>3, <1>4, <1>5, <1>6, <1>7, <1>8, <1>9, <1>10 DEF MigrationNext

(* An upgrade begins with what an earlier program left.                    *)
LEMMA MigrationBegins == MigrationInit => MigrationInv
<1> SUFFICES ASSUME MigrationInit PROVE MigrationInv
  OBVIOUS
<1>1. PICK version \in Version, task \in [MTask -> TaskStatus], scanned \in [MTask -> BOOLEAN],
           file \in [MFile -> {row \in FileRow : Plausible(row)}] :
        MigrationStart("closed", [version |-> version, applied |-> 1 .. version, task |-> task,
                                  scanned |-> scanned, file |-> file])
  BY DEF MigrationInit
<1> DEFINE db == [version |-> version, applied |-> 1 .. version, task |-> task,
                  scanned |-> scanned, file |-> file]
<1>2. db \in Database
  BY DEF Database, Version, Newest
<1>3. mdb = db /\ mtx = db /\ mbefore = db /\ mline = "closed" /\ mupgrades = 0
  BY <1>1 DEF MigrationStart
<1>4. db.applied = 1 .. db.version /\ \A f \in MFile : Plausible(db.file[f])
  OBVIOUS
<1> HIDE DEF db
<1> QED
  BY <1>2, <1>3, <1>4, MigrationAssumption DEF MigrationInv, MigrationTypeOK, Between, Settled

(* Every step of an upgrade keeps the invariant.                           *)
LEMMA MigrationInvStep == MigrationInv /\ [MigrationNext]_migrationVars => MigrationInv'
<1> SUFFICES ASSUME MigrationInv, [MigrationNext]_migrationVars PROVE MigrationInv'
  OBVIOUS
<1>1. CASE MigrationNext
  BY <1>1, MigrationStep
<1>2. CASE UNCHANGED migrationVars
  BY <1>2 DEF migrationVars, MigrationInv, MigrationTypeOK, Between, Settled, Repaired, Untouched
<1> QED
  BY <1>1, <1>2

(* The inductive invariant of an upgrade: what is on disk, and how far the *)
(* transaction has come at each line.                                      *)
THEOREM MigrationInvariant == MigrationSpec => []MigrationInv
<1>1. MigrationInit => MigrationInv
  BY MigrationBegins
<1>2. MigrationInv /\ [MigrationNext]_migrationVars => MigrationInv'
  BY MigrationInvStep
<1> QED
  BY <1>1, <1>2, PTL DEF MigrationSpec

(* Wherever migrate is interrupted, the version of the database names the  *)
(* migrations it has had.                                                  *)
THEOREM AllOrNothing == MigrationSpec => []OneSchema
<1>1. MigrationInv => OneSchema
  <2> SUFFICES ASSUME MigrationInv PROVE OneSchema
    OBVIOUS
  <2>1. Settled /\ mbefore.version \in 0 .. 7
    BY RowTypes DEF MigrationInv, MigrationTypeOK, Version, Newest
  <2>2. CASE mdb = mbefore
    BY <2>1, <2>2 DEF Settled, OneSchema
  <2>3. CASE mbefore.version < Newest /\ mdb.version = Newest /\ mdb.applied = 1 .. Newest
    <3>1. mdb.applied = 1 .. mdb.version /\ mdb.version \in {mbefore.version, Newest}
      BY <2>3
    <3>2. ~(mbefore.version >= Newest)
      BY <2>1, <2>3 DEF Newest
    <3> QED
      BY <3>1, <3>2 DEF OneSchema
  <2> QED
    BY <2>1, <2>2, <2>3 DEF Settled
<1> QED
  BY <1>1, MigrationInvariant, PTL

(* Migration 6 takes up the files that failed for an invalid MD5, unblocks *)
(* their tasks, and no others.                                             *)
THEOREM RepairIsNarrow == MigrationSpec => []NarrowRecovery
<1>1. MigrationInv => NarrowRecovery
  <2> SUFFICES ASSUME MigrationInv, mdb.version # mbefore.version, NEW f \in MFile
               PROVE  LET old == mbefore.file[f]
                          new == mdb.file[f]
                      IN /\ new.md5 = IF old.md5 = "invalid" THEN "none" ELSE old.md5
                         /\ IF /\ old.status = "failed" /\ old.cause = "mismatch" /\ old.md5 = "invalid"
                              THEN new.status = "waiting" /\ mdb.task[MOwner[f]] # "BLOCKED"
                              ELSE new.status = old.status /\ new.cause = old.cause
    BY DEF NarrowRecovery
  <2>1. Repaired(mdb) /\ Plausible(mbefore.file[f])
    BY DEF MigrationInv, Settled
  <2>2. mbefore \in Database
    BY DEF MigrationInv, MigrationTypeOK
  <2>3. mbefore.file[f] \in FileRow /\ MOwner[f] \in MTask /\ mbefore.task \in [MTask -> TaskStatus]
    BY <2>2, RowTypes, MigrationAssumption
  <2> DEFINE old == mbefore.file[f]
             row == Recovered(mbefore)[f]
  <2>4. row = IF Recoverable(old)
                THEN [old EXCEPT !.status = "waiting", !.md5 = "none", !.cause = "none"] ELSE old
    BY DEF Recovered
  <2>5. mdb.file[f] = IF Invalid(row) THEN [row EXCEPT !.md5 = "none"] ELSE row
    BY <2>1 DEF Repaired, Cleared
  <2>6. Recoverable(old) => mdb.task[MOwner[f]] # "BLOCKED"
    BY <2>1, <2>3 DEF Repaired, TasksAfter
  <2>7. Recoverable(old) <=> old.status = "failed" /\ old.cause = "mismatch" /\ old.md5 = "invalid"
    BY <2>1 DEF Recoverable, Invalid, Plausible
  <2> QED
    BY <2>3, <2>4, <2>5, <2>6, <2>7 DEF FileRow, Invalid
<1> QED
  BY <1>1, MigrationInvariant, PTL

----------------------------------------------------------------------------
(* The scan of a share *)

(* An entry of a directory is still to be listed: in a directory that is   *)
(* queued, or on a page of the first one that comes later.  When every     *)
(* answer is the first page, all entries of the first directory are.       *)
StillListed(d, i) ==
  /\ squeue # <<>>
  /\ \/ \E k \in 2 .. Len(squeue) : squeue[k] = d
     \/ squeue[1] = d /\ (sstalls \/ i > (spage - 1) * PageSize)
Met(e) == IF e \in Folder THEN e \in squeued ELSE \E row \in sfiles : row[1] = e

(* As long as nothing was taken out or moved and no page was short, what   *)
(* has been in the share all along was met in this walk or is still to be  *)
(* listed.                                                                 *)
WalkCovers ==
  sline \in {"list", "complete"} /\ sgaps = {} =>
    /\ Root \in squeued /\ squeued \subseteq {Root} \cup sdirs
    /\ sstayed \subseteq Shared /\ EntriesOf(Root) \cap Folder \subseteq sstayed
    /\ \A d \in squeued : \A i \in DOMAIN sshare[d] :
         sshare[d][i] \in sstayed => Met(sshare[d][i]) \/ StillListed(d, i)
    /\ sline = "complete" => squeue = <<>>

ScanInv == ScanTypeOK /\ WalkCovers /\ (scompleted => sline = "idle") /\ OnlyGapsHide

(* What is put into a sequence moves the entries behind it by one place.   *)
LEMMA Inserted ==
  ASSUME NEW S, NEW s \in Seq(S), NEW e \in S, NEW i \in 1 .. Len(s) + 1
  PROVE  /\ Put(s, i, e) \in Seq(S) /\ Len(Put(s, i, e)) = Len(s) + 1
         /\ \A j \in 1 .. Len(s) + 1 :
              Put(s, i, e)[j] = IF j < i THEN s[j] ELSE IF j = i THEN e ELSE s[j - 1]
<1>0. Len(s) \in Nat /\ i \in Int /\ \A j \in 1 .. Len(s) : s[j] \in S
  BY LenProperties, ElementOfSeq
<1> DEFINE a == SubSeq(s, 1, i - 1)
           b == SubSeq(s, i, Len(s))
<1>1. /\ a \in Seq(S) /\ Len(a) = i - 1 /\ \A j \in 1 .. i - 1 : a[j] = s[j]
      /\ b \in Seq(S) /\ Len(b) = Len(s) - i + 1 /\ \A j \in 1 .. Len(s) - i + 1 : b[j] = s[i + j - 1]
  <2>1. \A j \in 1 .. i - 1 : s[j] \in S
    BY <1>0
  <2>2. \A j \in i .. Len(s) : s[j] \in S
    BY <1>0
  <2>3. /\ a \in Seq(S) /\ Len(a) = (IF 1 <= i - 1 THEN (i - 1) - 1 + 1 ELSE 0)
        /\ \A j \in 1 .. (i - 1) - 1 + 1 : a[j] = s[1 + j - 1]
    BY <1>0, <2>1, SubSeqProperties
  <2>4. /\ b \in Seq(S) /\ Len(b) = (IF i <= Len(s) THEN Len(s) - i + 1 ELSE 0)
        /\ \A j \in 1 .. Len(s) - i + 1 : b[j] = s[i + j - 1]
    BY <1>0, <2>2, SubSeqProperties
  <2> HIDE DEF a, b
  <2>5. Len(a) = i - 1 /\ \A j \in 1 .. i - 1 : a[j] = s[j]
    BY <1>0, <2>3
  <2>6. Len(b) = Len(s) - i + 1
    BY <1>0, <2>4
  <2> QED
    BY <2>3, <2>4, <2>5, <2>6
<1> DEFINE u == <<e>>
           c == a \o u
<1>2. u \in Seq(S) /\ Len(u) = 1 /\ u[1] = e
  OBVIOUS
<1> HIDE DEF a, b, u, c
<1>3. /\ c \in Seq(S) /\ Len(c) = Len(a) + Len(u)
      /\ \A j \in 1 .. Len(a) + Len(u) : c[j] = IF j <= Len(a) THEN a[j] ELSE u[j - Len(a)]
  BY <1>1, <1>2, ConcatProperties DEF c
<1>4. Put(s, i, e) = c \o b
  BY DEF Put, a, b, c, u
<1>5. /\ c \in Seq(S) /\ Len(c) = i /\ \A j \in 1 .. i : c[j] = IF j < i THEN s[j] ELSE e
  <2>1. Len(c) = i
    BY <1>0, <1>1, <1>2, <1>3
  <2>2. \A j \in 1 .. i : j < i => j \in 1 .. i - 1 /\ j \in 1 .. Len(a) + Len(u) /\ j <= Len(a)
    BY <1>0, <1>1, <1>2
  <2>3. i \in 1 .. Len(a) + Len(u) /\ ~(i <= Len(a)) /\ i - Len(a) = 1
    BY <1>0, <1>1, <1>2
  <2>4. \A j \in 1 .. i : j < i \/ j = i
    BY <1>0
  <2> QED
    BY <1>1, <1>2, <1>3, <2>1, <2>2, <2>3, <2>4
<1>6. /\ c \o b \in Seq(S) /\ Len(c \o b) = Len(c) + Len(b)
      /\ \A j \in 1 .. Len(c) + Len(b) : (c \o b)[j] = IF j <= Len(c) THEN c[j] ELSE b[j - Len(c)]
  BY <1>1, <1>5, ConcatProperties
<1>7. \A j \in 1 .. Len(s) + 1 : (c \o b)[j] = IF j < i THEN s[j] ELSE IF j = i THEN e ELSE s[j - 1]
  <2> SUFFICES ASSUME NEW j \in 1 .. Len(s) + 1
               PROVE  (c \o b)[j] = IF j < i THEN s[j] ELSE IF j = i THEN e ELSE s[j - 1]
    OBVIOUS
  <2>1. CASE j <= i
    BY <1>0, <1>1, <1>5, <1>6, <2>1
  <2>2. CASE ~(j <= i)
    <3>1. j - i \in 1 .. Len(s) - i + 1 /\ i + (j - i) - 1 = j - 1
      BY <1>0, <2>2
    <3>2. b[j - i] = s[j - 1]
      BY <1>1, <3>1
    <3> QED
      BY <1>0, <1>1, <1>5, <1>6, <2>2, <3>2
  <2> QED
    BY <2>1, <2>2
<1>8. Len(c \o b) = Len(s) + 1
  BY <1>0, <1>1, <1>5, <1>6
<1> QED
  BY <1>4, <1>6, <1>7, <1>8

(* What is left when an entry is taken out is a sequence, shorter by one.  *)
LEMMA Removed ==
  ASSUME NEW S, NEW s \in Seq(S), NEW i \in 1 .. Len(s)
  PROVE  Without(s, i) \in Seq(S) /\ Len(Without(s, i)) + 1 = Len(s)
<1>0. Len(s) \in Nat /\ \A j \in 1 .. Len(s) : s[j] \in S
  BY LenProperties, ElementOfSeq
<1> DEFINE a == SubSeq(s, 1, i - 1)
           b == SubSeq(s, i + 1, Len(s))
<1>1. a \in Seq(S) /\ Len(a) = i - 1
  <2>1. \A j \in 1 .. i - 1 : s[j] \in S
    BY <1>0
  <2>2. a \in Seq(S) /\ Len(a) = (IF 1 <= i - 1 THEN (i - 1) - 1 + 1 ELSE 0)
    BY <1>0, <2>1, SubSeqProperties
  <2> HIDE DEF a
  <2> QED
    BY <1>0, <2>2
<1>2. b \in Seq(S) /\ Len(b) = Len(s) - i
  <2>1. \A j \in i + 1 .. Len(s) : s[j] \in S
    BY <1>0
  <2>2. b \in Seq(S) /\ Len(b) = (IF i + 1 <= Len(s) THEN Len(s) - (i + 1) + 1 ELSE 0)
    BY <1>0, <2>1, SubSeqProperties
  <2> HIDE DEF b
  <2> QED
    BY <1>0, <2>2
<1>3. Without(s, i) = a \o b
  BY DEF Without
<1> HIDE DEF a, b
<1>4. a \o b \in Seq(S) /\ Len(a \o b) = Len(a) + Len(b)
  BY <1>1, <1>2, ConcatProperties
<1> QED
  BY <1>0, <1>1, <1>2, <1>3, <1>4

Entry == FileId \cup Folder

LEMMA LeastOf ==
  ASSUME NEW m \in Nat, NEW n \in Nat
  PROVE  /\ Least(m, n) \in Nat /\ Least(m, n) <= m /\ Least(m, n) <= n
         /\ Least(m, n) \in {m, n}
BY DEF Least

(* The entries of the page that was answered are those at its places, and  *)
(* a page that is not full shows the end of the listing, when the answer   *)
(* leaves nothing out.                                                     *)
LEMMA PageOf ==
  ASSUME ScanTypeOK, squeue # <<>>
  PROVE  /\ Current \in Dir /\ Current = squeue[1]
         /\ PageItems \in Seq(Entry)
         /\ scut = 0 =>
            IF sstalls
              THEN /\ \A i \in DOMAIN sshare[Current] : i <= PageSize => sshare[Current][i] \in Items
                   /\ LastPage => Len(sshare[Current]) < PageSize
              ELSE /\ \A i \in DOMAIN sshare[Current] :
                        (spage - 1) * PageSize < i /\ i <= (spage - 1) * PageSize + PageSize
                          => sshare[Current][i] \in Items
                   /\ LastPage => Len(sshare[Current]) < (spage - 1) * PageSize + PageSize
<1>1. Current \in Dir /\ Current = squeue[1]
  BY HeadTailProperties DEF Current, ScanTypeOK
<1> DEFINE s == sshare[Current]
           page == IF sstalls THEN 1 ELSE spage
           before == (page - 1) * PageSize
           last == Least(page * PageSize, Len(s))
<1>2. s \in Seq(Entry) /\ Len(s) \in Nat /\ DOMAIN s = 1 .. Len(s) /\ \A i \in 1 .. Len(s) : s[i] \in Entry
  <2>1. s \in Seq(Entry)
    BY <1>1 DEF ScanTypeOK, Entry
  <2> HIDE DEF s
  <2> QED
    BY <2>1, LenProperties, ElementOfSeq
<1>3. page \in Nat /\ page >= 1 /\ PageSize \in Nat /\ PageSize >= 1
  BY ScanAssumption DEF ScanTypeOK
<1>4. before \in Nat /\ last = Least(before + PageSize, Len(s))
  <2> HIDE DEF page, s
  <2>1. page - 1 \in Nat
    BY <1>3
  <2>2. page * PageSize = before + PageSize
    BY <1>3, <2>1
  <2> QED
    BY <1>3, <2>1, <2>2
<1>5. PageItems = SubSeq(s, before + 1, last - scut)
  BY DEF PageItems
<1> HIDE DEF s, page
<1> HIDE DEF before, last
<1>6. last \in Nat /\ last <= Len(s) /\ last <= before + PageSize
      /\ (last = Len(s) \/ last = before + PageSize)
  <2>1. before + PageSize \in Nat
    BY <1>3, <1>4
  <2> QED
    BY <1>2, <1>4, <2>1, LeastOf
<1>7. /\ PageItems \in Seq(Entry)
      /\ scut = 0 =>
           /\ Len(PageItems) = IF before + 1 <= last THEN last - (before + 1) + 1 ELSE 0
           /\ \A i \in 1 .. last - (before + 1) + 1 : PageItems[i] = s[before + 1 + i - 1]
  <2>1. last - scut \in Int /\ last - scut <= last /\ (scut = 0 => last - scut = last)
    BY <1>3, <1>6 DEF ScanTypeOK
  <2> DEFINE end == last - scut
  <2>2. PageItems = SubSeq(s, before + 1, end) /\ end \in Int /\ end <= last /\ (scut = 0 => end = last)
    BY <1>5, <2>1
  <2> HIDE DEF end
  <2>3. \A i \in before + 1 .. end : i \in 1 .. Len(s)
    BY <1>2, <1>4, <1>6, <2>2
  <2>4. \A i \in before + 1 .. end : s[i] \in Entry
    BY <1>2, <2>3
  <2>5. /\ PageItems \in Seq(Entry)
        /\ Len(PageItems) = IF before + 1 <= end THEN end - (before + 1) + 1 ELSE 0
        /\ \A i \in 1 .. end - (before + 1) + 1 : PageItems[i] = s[before + 1 + i - 1]
    BY <1>4, <2>2, <2>4, SubSeqProperties
  <2> QED
    BY <2>2, <2>5
<1>8. DOMAIN PageItems = 1 .. Len(PageItems)
  BY <1>7, LenProperties
<1> SUFFICES ASSUME scut = 0
             PROVE  IF sstalls
                      THEN /\ \A i \in DOMAIN sshare[Current] :
                                i <= PageSize => sshare[Current][i] \in Items
                           /\ LastPage => Len(sshare[Current]) < PageSize
                      ELSE /\ \A i \in DOMAIN sshare[Current] :
                                (spage - 1) * PageSize < i /\ i <= (spage - 1) * PageSize + PageSize
                                  => sshare[Current][i] \in Items
                           /\ LastPage => Len(sshare[Current]) < (spage - 1) * PageSize + PageSize
  BY <1>1, <1>7
<1>9. ASSUME NEW i \in DOMAIN s, before < i, i <= before + PageSize PROVE s[i] \in Items
  <2>1. i <= last
    BY <1>2, <1>3, <1>4, <1>6, <1>9
  <2>2. i - before \in 1 .. last - (before + 1) + 1 /\ before + 1 + (i - before) - 1 = i
        /\ i - before \in 1 .. Len(PageItems)
    <3>1. i \in Nat /\ before \in Nat /\ last \in Nat /\ before < i /\ i <= last
      BY <1>2, <1>4, <1>6, <1>9, <2>1
    <3>2. Len(PageItems) = last - (before + 1) + 1
      BY <1>7, <3>1
    <3> QED
      BY <3>1, <3>2
  <2>3. PageItems[i - before] = s[i]
    BY <1>7, <2>2
  <2> QED
    BY <1>8, <2>2, <2>3 DEF Items
<1>10. LastPage => Len(s) < before + PageSize
  BY <1>2, <1>3, <1>4, <1>6, <1>7 DEF LastPage
<1>11. CASE sstalls
  <2>1. before = 0
    <3>1. page - 1 = 0
      BY <1>11 DEF page
    <3> QED
      BY <1>3, <3>1 DEF before
  <2>2. \A i \in DOMAIN s : i <= PageSize => s[i] \in Items
    BY <1>2, <1>3, <1>9, <2>1
  <2>3. LastPage => Len(s) < PageSize
    BY <1>3, <1>10, <2>1
  <2> QED
    BY <1>11, <2>2, <2>3 DEF s
<1>12. CASE ~sstalls
  <2>1. before = (spage - 1) * PageSize
    BY <1>12 DEF before, page
  <2> QED
    BY <1>9, <1>10, <1>12, <2>1 DEF s
<1> QED
  BY <1>11, <1>12

(* Every folder of the page is queued, and nothing else.                   *)
LEMMA FoldersOfPage ==
  ASSUME ScanTypeOK, squeue # <<>>
  PROVE  /\ FoldersInOrder \in Seq(Folder)
         /\ \A d \in NewFolders : \E k \in 1 .. Len(FoldersInOrder) : FoldersInOrder[k] = d
<1> DEFINE P == FolderPlaces
           n == Cardinality(P)
<1>1. PageItems \in Seq(Entry) /\ DOMAIN PageItems = 1 .. Len(PageItems) /\ Len(PageItems) \in Nat
  BY PageOf, LenProperties
<1>2. P \subseteq Nat /\ IsFiniteSet(P) /\ n \in Nat
  <2>1. P \in SUBSET (1 .. Len(PageItems)) /\ IsFiniteSet(1 .. Len(PageItems))
    BY <1>1, FS_Interval DEF FolderPlaces
  <2>2. IsFiniteSet(P)
    BY <2>1, FS_Subset
  <2> QED
    BY <1>1, <2>1, <2>2, FS_CardinalityType
<1> HIDE DEF P
<1>3. /\ \A i \in P : Rank(P, i) \in Nat /\ Rank(P, i) + 1 <= n
      /\ \A i, j \in P : Rank(P, i) = Rank(P, j) => i = j
  BY <1>2, RankBound, RanksDiffer
<1>4. \A k \in 1 .. n : \E i \in P : Cardinality({j \in P : j < i}) = k - 1
  <2> SUFFICES ASSUME NEW k \in 1 .. n PROVE \E i \in P : Cardinality({j \in P : j < i}) = k - 1
    OBVIOUS
  <2>1. k - 1 \in Nat /\ k - 1 < n
    BY <1>2
  <2> QED
    BY <1>2, <2>1, RanksAreAll DEF Rank
<1> DEFINE place(k) == CHOOSE i \in P : Cardinality({j \in P : j < i}) = k - 1
<1>5. \A k \in 1 .. n : place(k) \in P /\ Rank(P, place(k)) = k - 1
  BY <1>4 DEF Rank
<1>6. FoldersInOrder = [k \in 1 .. n |-> PageItems[place(k)]]
  BY DEF FoldersInOrder, P
<1> HIDE DEF place, n
<1>7. \A i \in P : PageItems[i] \in Folder
  BY DEF P, FolderPlaces
<1>8. FoldersInOrder \in Seq(Folder) /\ Len(FoldersInOrder) = n
  <2>1. FoldersInOrder \in [1 .. n -> Folder]
    BY <1>5, <1>6, <1>7
  <2> QED
    BY <1>2, <2>1
<1>9. ASSUME NEW d \in NewFolders PROVE \E k \in 1 .. n : FoldersInOrder[k] = d
  <2>1. PICK i \in P : PageItems[i] = d
    BY DEF NewFolders, Items, P, FolderPlaces
  <2> DEFINE k == Rank(P, i) + 1
  <2>2. k \in 1 .. n /\ k - 1 = Rank(P, i)
    BY <1>2, <1>3
  <2>3. place(k) = i
    BY <1>3, <1>5, <2>2
  <2> QED
    BY <1>6, <2>1, <2>2, <2>3
<1> QED
  BY <1>8, <1>9

(* What listing a page does to the queue: the folders of the page come to  *)
(* its end, and the directory leaves it with its last page.                *)
LEMMA Queued ==
  ASSUME ScanTypeOK, ListPage
  PROVE  /\ squeue' \in Seq(Dir) /\ Len(squeue') \in Nat
         /\ LastPage =>
              /\ \A k \in 2 .. Len(squeue) : \E j \in 1 .. Len(squeue') : squeue'[j] = squeue[k]
              /\ \A d \in NewFolders : \E j \in 1 .. Len(squeue') : squeue'[j] = d
         /\ ~LastPage =>
              /\ squeue'[1] = squeue[1]
              /\ \A k \in 2 .. Len(squeue) : \E j \in 2 .. Len(squeue') : squeue'[j] = squeue[k]
              /\ \A d \in NewFolders : \E j \in 2 .. Len(squeue') : squeue'[j] = d
<1>0. squeue \in Seq(Dir) /\ squeue # <<>> /\ Len(squeue) \in Nat /\ Len(squeue) >= 1
  BY EmptySeq, LenProperties DEF ScanTypeOK, ListPage
<1> DEFINE new == FoldersInOrder
<1>1. /\ new \in Seq(Dir) /\ Len(new) \in Nat
      /\ \A d \in NewFolders : \E k \in 1 .. Len(new) : new[k] = d
  <2>1. /\ new \in Seq(Folder) /\ \A d \in NewFolders : \E k \in 1 .. Len(new) : new[k] = d
    BY <1>0, FoldersOfPage
  <2>2. new \in Seq(Dir)
    <3> HIDE DEF new
    <3> QED
      BY <2>1, SeqMonotonic DEF Dir
  <2> QED
    BY <2>1, <2>2, LenProperties
<1>2. squeue' = IF LastPage THEN Tail(squeue) \o new ELSE squeue \o new
  BY DEF ListPage
<1> HIDE DEF new
<1>3. CASE LastPage
  <2> DEFINE t == Tail(squeue)
  <2>1. t \in Seq(Dir) /\ Len(t) = Len(squeue) - 1 /\ \A i \in 1 .. Len(t) : t[i] = squeue[i + 1]
    BY <1>0, HeadTailProperties
  <2>2. squeue' = t \o new
    BY <1>2, <1>3
  <2> HIDE DEF t
  <2>3. /\ squeue' \in Seq(Dir) /\ Len(squeue') = Len(t) + Len(new)
        /\ \A i \in 1 .. Len(t) + Len(new) :
             squeue'[i] = IF i <= Len(t) THEN t[i] ELSE new[i - Len(t)]
    BY <1>1, <2>1, <2>2, ConcatProperties
  <2>4. ASSUME NEW k \in 2 .. Len(squeue) PROVE \E j \in 1 .. Len(squeue') : squeue'[j] = squeue[k]
    <3>1. k - 1 \in 1 .. Len(t) /\ k - 1 + 1 = k /\ k - 1 \in 1 .. Len(t) + Len(new) /\ k - 1 <= Len(t)
      BY <1>0, <1>1, <2>1
    <3>2. squeue'[k - 1] = t[k - 1]
      BY <2>3, <3>1
    <3>3. t[k - 1] = squeue[k]
      BY <2>1, <3>1
    <3> QED
      BY <2>3, <3>1, <3>2, <3>3
  <2>5. ASSUME NEW d \in NewFolders PROVE \E j \in 1 .. Len(squeue') : squeue'[j] = d
    <3>1. PICK k \in 1 .. Len(new) : new[k] = d
      BY <1>1
    <3>2. /\ Len(t) + k \in 1 .. Len(t) + Len(new) /\ ~(Len(t) + k <= Len(t))
          /\ Len(t) + k - Len(t) = k
      BY <1>0, <1>1, <2>1
    <3>3. squeue'[Len(t) + k] = d
      BY <2>3, <3>1, <3>2
    <3> QED
      BY <2>3, <3>2, <3>3
  <2> QED
    BY <1>3, <2>3, <2>4, <2>5, LenProperties
<1>4. CASE ~LastPage
  <2>1. squeue' = squeue \o new
    BY <1>2, <1>4
  <2>2. /\ squeue' \in Seq(Dir) /\ Len(squeue') = Len(squeue) + Len(new)
        /\ \A i \in 1 .. Len(squeue) + Len(new) :
             squeue'[i] = IF i <= Len(squeue) THEN squeue[i] ELSE new[i - Len(squeue)]
    BY <1>0, <1>1, <2>1, ConcatProperties
  <2>3. squeue'[1] = squeue[1]
    <3>1. 1 \in 1 .. Len(squeue) + Len(new) /\ 1 <= Len(squeue)
      BY <1>0, <1>1
    <3> QED
      BY <2>2, <3>1
  <2>4. ASSUME NEW k \in 2 .. Len(squeue) PROVE \E j \in 2 .. Len(squeue') : squeue'[j] = squeue[k]
    <3>1. k \in 1 .. Len(squeue) + Len(new) /\ k <= Len(squeue) /\ k \in 2 .. Len(squeue')
      BY <1>0, <1>1, <2>2
    <3> QED
      BY <2>2, <3>1
  <2>5. ASSUME NEW d \in NewFolders PROVE \E j \in 2 .. Len(squeue') : squeue'[j] = d
    <3>1. PICK k \in 1 .. Len(new) : new[k] = d
      BY <1>1
    <3>2. /\ Len(squeue) + k \in 1 .. Len(squeue) + Len(new) /\ ~(Len(squeue) + k <= Len(squeue))
          /\ Len(squeue) + k - Len(squeue) = k /\ Len(squeue) + k \in 2 .. Len(squeue')
      BY <1>0, <1>1, <2>2
    <3>3. squeue'[Len(squeue) + k] = d
      BY <2>2, <3>1, <3>2
    <3> QED
      BY <3>2, <3>3
  <2> QED
    BY <1>4, <2>2, <2>3, <2>4, <2>5, LenProperties
<1> QED
  BY <1>3, <1>4

(* Listing a page keeps the types.                                         *)
LEMMA ListPageTypes == ScanTypeOK /\ ListPage => ScanTypeOK'
<1> SUFFICES ASSUME ScanTypeOK, ListPage PROVE ScanTypeOK'
  OBVIOUS
<1>0. squeue # <<>> /\ Current \in Dir
  BY PageOf DEF ListPage
<1>1. squeue' \in Seq(Dir)
  BY Queued
<1>2. spage' \in 1 .. MaxPages + 1
  BY ScanAssumption DEF ListPage, PageRefused, ScanTypeOK
<1>3. squeued' \subseteq Dir /\ sdirs' \subseteq Folder
  BY DEF ListPage, NewFolders, ScanTypeOK, Dir
<1>4. sfiles' \subseteq FileId \X Dir \X FileId
  <2>1. \A f \in Items \cap FileId : Row(f) \in FileId \X Dir \X FileId
    BY <1>0 DEF Row, ScanTypeOK
  <2> QED
    BY <2>1 DEF ListPage, PageRows, ScanTypeOK
<1>5. scut' \in 0 .. PageSize /\ sgaps' \subseteq Gap
  BY ScanAssumption DEF ListPage, ScanTypeOK, Gap
<1> QED
  BY <1>1, <1>2, <1>3, <1>4, <1>5 DEF ListPage, ScanTypeOK, listing, access

(* Listing a page keeps that nothing is lost: an entry of the page is met, *)
(* and one of a later page is still to be listed.                          *)
LEMMA ListPageCovers == ScanInv /\ ListPage => WalkCovers'
<1> SUFFICES ASSUME ScanInv, ListPage PROVE WalkCovers'
  OBVIOUS
<1>0. /\ ScanTypeOK /\ WalkCovers /\ sline = "list" /\ sline' = "list" /\ squeue # <<>>
      /\ UNCHANGED <<sshare, sstalls, sstayed>>
      /\ sgaps' = (IF scut = 0 THEN sgaps ELSE sgaps \cup {"short"})
      /\ squeued' = squeued \cup NewFolders /\ sdirs' = sdirs \cup NewFolders
      /\ sfiles' = sfiles \cup PageRows
  BY DEF ScanInv, ListPage, listing
<1> SUFFICES ASSUME sgaps' = {} PROVE WalkCovers'
  BY DEF WalkCovers
<1>a. sgaps = {} /\ scut = 0
  BY <1>0
<1>1. /\ Root \in squeued /\ squeued \subseteq {Root} \cup sdirs
      /\ sstayed \subseteq Shared /\ EntriesOf(Root) \cap Folder \subseteq sstayed
      /\ \A d \in squeued : \A i \in DOMAIN sshare[d] :
           sshare[d][i] \in sstayed => Met(sshare[d][i]) \/ StillListed(d, i)
  BY <1>0, <1>a DEF WalkCovers
<1>2. /\ Shared' = Shared /\ EntriesOf(Root)' = EntriesOf(Root)
  BY <1>0 DEF Shared, EntriesOf
<1>3. ASSUME NEW e, Met(e) PROVE Met(e)'
  BY <1>0, <1>3 DEF Met
<1>4. ASSUME NEW e \in Items \cap Entry PROVE Met(e)'
  <2>1. CASE e \in Folder
    BY <1>0, <2>1 DEF Met, NewFolders
  <2>2. CASE e \notin Folder
    <3>1. Row(e) \in PageRows /\ Row(e)[1] = e
      BY <1>4, <2>2 DEF PageRows, Row, Entry
    <3> QED
      BY <1>0, <2>2, <3>1 DEF Met
  <2> QED
    BY <2>1, <2>2
<1>5. /\ squeue' \in Seq(Dir) /\ Len(squeue') \in Nat /\ squeue \in Seq(Dir) /\ Len(squeue) \in Nat
      /\ \A j \in 1 .. Len(squeue') : squeue' # <<>>
  <2>1. squeue' \in Seq(Dir) /\ Len(squeue') \in Nat /\ squeue \in Seq(Dir)
    BY <1>0, Queued DEF ScanTypeOK
  <2> QED
    BY <2>1, EmptySeq, LenProperties
<1>6. ASSUME NEW d \in squeued', NEW i \in DOMAIN sshare[d], NEW e \in sstayed, e = sshare[d][i]
      PROVE  Met(e)' \/ StillListed(d, i)'
  <2>0. d \in Dir /\ DOMAIN sshare[d] = 1 .. Len(sshare[d]) /\ Len(sshare[d]) \in Nat
        /\ e \in Entry
    <3>1. d \in Dir
      BY <1>0, <1>6 DEF ScanTypeOK, NewFolders, Dir
    <3>2. sshare[d] \in Seq(Entry)
      BY <1>0, <3>1 DEF ScanTypeOK, Entry
    <3> QED
      BY <1>6, <3>1, <3>2, LenProperties, ElementOfSeq
  <2>1. CASE LastPage
    <3>0. spage' = 1
      BY <2>1 DEF ListPage
    <3>1. ASSUME NEW j \in 1 .. Len(squeue'), squeue'[j] = d PROVE StillListed(d, i)'
      <4>1. squeue' # <<>>
        BY <1>5
      <4>2. CASE j = 1
        <5>1. (spage' - 1) * PageSize = 0
          BY <3>0, ScanAssumption
        <5>2. i > (spage' - 1) * PageSize
          BY <2>0, <5>1
        <5> QED
          BY <3>1, <4>1, <4>2, <5>2 DEF StillListed
      <4>3. CASE j # 1
        <5>1. j \in 2 .. Len(squeue')
          BY <1>5, <4>3
        <5> QED
          BY <3>1, <4>1, <5>1 DEF StillListed
      <4> QED
        BY <4>2, <4>3
    <3>2. CASE d \in NewFolders
      BY <1>0, <2>1, <3>1, <3>2, Queued
    <3>3. CASE d \in squeued /\ StillListed(d, i) /\ \E k \in 2 .. Len(squeue) : squeue[k] = d
      BY <1>0, <2>1, <3>1, <3>3, Queued
    <3>4. CASE d \in squeued /\ StillListed(d, i) /\ squeue[1] = d /\ (sstalls \/ i > (spage - 1) * PageSize)
      <4>1. d = Current
        BY <1>0, <3>4, PageOf
      <4>2. CASE sstalls
        <5>1. Len(sshare[d]) < PageSize /\ \A k \in DOMAIN sshare[d] : k <= PageSize => sshare[d][k] \in Items
          BY <1>0, <1>a, <2>1, <4>1, <4>2, PageOf
        <5>2. i <= PageSize
          BY <2>0, <5>1, ScanAssumption
        <5> QED
          BY <1>4, <1>6, <2>0, <5>1, <5>2
      <4>3. CASE ~sstalls
        <5>1. /\ Len(sshare[d]) < (spage - 1) * PageSize + PageSize
              /\ \A k \in DOMAIN sshare[d] :
                   (spage - 1) * PageSize < k /\ k <= (spage - 1) * PageSize + PageSize
                     => sshare[d][k] \in Items
          BY <1>0, <1>a, <2>1, <4>1, <4>3, PageOf
        <5> DEFINE before == (spage - 1) * PageSize
        <5>2. before \in Nat
          <6>1. spage - 1 \in Nat
            BY <1>0, ScanAssumption DEF ScanTypeOK
          <6> QED
            BY <6>1, ScanAssumption
        <5>3. before < i
          BY <2>0, <3>4, <4>3, <5>2
        <5>4. Len(sshare[d]) < before + PageSize
          BY <5>1
        <5> HIDE DEF before
        <5>5. i <= before + PageSize
          BY <2>0, <5>2, <5>4, ScanAssumption
        <5>6. e \in Items
          BY <1>6, <5>1, <5>3, <5>5 DEF before
        <5> QED
          BY <1>4, <2>0, <5>6
      <4> QED
        BY <4>2, <4>3
    <3>5. CASE d \in squeued /\ Met(e)
      BY <1>3, <3>5
    <3> QED
      BY <1>0, <1>1, <1>6, <3>2, <3>3, <3>4, <3>5 DEF StillListed
  <2>2. CASE ~LastPage
    <3>0. spage' = spage + 1
      BY <2>2 DEF ListPage
    <3>1. ASSUME NEW j \in 2 .. Len(squeue'), squeue'[j] = d PROVE StillListed(d, i)'
      <4>1. squeue' # <<>>
        BY <1>5
      <4> QED
        BY <3>1, <4>1 DEF StillListed
    <3>2. CASE d \in NewFolders
      BY <1>0, <2>2, <3>1, <3>2, Queued
    <3>3. CASE d \in squeued /\ StillListed(d, i) /\ \E k \in 2 .. Len(squeue) : squeue[k] = d
      BY <1>0, <2>2, <3>1, <3>3, Queued
    <3>4. CASE d \in squeued /\ StillListed(d, i) /\ squeue[1] = d /\ (sstalls \/ i > (spage - 1) * PageSize)
      <4>0. squeue'[1] = d /\ squeue' # <<>>
        <5>1. squeue'[1] = squeue[1]
          BY <1>0, <2>2, Queued
        <5>2. squeue' = squeue \o FoldersInOrder
          BY <2>2 DEF ListPage
        <5>3. FoldersInOrder \in Seq(Dir)
          BY <1>0, FoldersOfPage, SeqMonotonic DEF Dir
        <5>4. squeue' # <<>>
          BY <1>0, <1>5, <5>2, <5>3, ConcatEqualIffEmpty
        <5> QED
          BY <3>4, <5>1, <5>4
      <4>1. d = Current
        BY <1>0, <3>4, PageOf
      <4>2. CASE sstalls
        BY <1>0, <4>0, <4>2 DEF StillListed
      <4>3. CASE ~sstalls
        <5>1. \A k \in DOMAIN sshare[d] :
                (spage - 1) * PageSize < k /\ k <= (spage - 1) * PageSize + PageSize
                  => sshare[d][k] \in Items
          BY <1>0, <1>a, <4>1, <4>3, PageOf
        <5> DEFINE before == (spage - 1) * PageSize
        <5>2. before \in Nat /\ (spage' - 1) * PageSize = before + PageSize
          <6>1. spage - 1 \in Nat /\ spage' - 1 = (spage - 1) + 1 /\ PageSize \in Nat
            BY <1>0, <3>0, ScanAssumption DEF ScanTypeOK
          <6> QED
            BY <6>1
        <5>3. before < i
          BY <2>0, <3>4, <4>3, <5>2
        <5>4. i <= before + PageSize => e \in Items
          BY <1>6, <5>1, <5>3
        <5> HIDE DEF before
        <5>5. CASE i <= before + PageSize
          BY <1>4, <2>0, <5>4, <5>5
        <5>6. CASE ~(i <= before + PageSize)
          <6>1. i > (spage' - 1) * PageSize
            <7>1. i > before + PageSize
              BY <2>0, <5>2, <5>6, ScanAssumption
            <7> QED
              BY <5>2, <7>1
          <6> QED
            BY <4>0, <6>1 DEF StillListed
        <5> QED
          BY <5>5, <5>6
      <4> QED
        BY <4>2, <4>3
    <3>5. CASE d \in squeued /\ Met(e)
      BY <1>3, <3>5
    <3> QED
      BY <1>0, <1>1, <1>6, <3>2, <3>3, <3>4, <3>5 DEF StillListed
  <2> QED
    BY <2>1, <2>2
<1>7. ASSUME NEW d \in squeued', NEW i \in DOMAIN sshare[d], sshare[d][i] \in sstayed
      PROVE  Met(sshare[d][i])' \/ StillListed(d, i)'
  <2>1. PICK e \in sstayed : e = sshare[d][i]
    BY <1>7
  <2>2. Met(e)' \/ StillListed(d, i)'
    BY <1>6, <2>1
  <2> QED
    BY <1>0, <2>1, <2>2 DEF Met
<1>8. Root \in squeued' /\ squeued' \subseteq {Root} \cup sdirs'
  BY <1>0, <1>1
<1>9. \A d \in squeued' : \A i \in DOMAIN sshare'[d] :
        sshare'[d][i] \in sstayed' => Met(sshare[d][i])' \/ StillListed(d, i)'
  BY <1>0, <1>7
<1> QED
  BY <1>0, <1>1, <1>2, <1>8, <1>9 DEF WalkCovers

(* The steps of the runner around a walk keep the types.                   *)
LEMMA RunnerTypes ==
  ASSUME ScanTypeOK,
         \/ BeginScan \/ AccessSharePage \/ VerifyKnown \/ AskCode \/ RenewSession \/ PasswordRequired
         \/ ScanFails \/ RefusePage \/ WalkDone \/ CompleteTaskScan
  PROVE  ScanTypeOK'
<1> USE ScanAssumption DEF GoTo, KeepOutside, KeepWalk, listing, share, walk, manifest, access,
    observed, ScanTypeOK, ScanLine
<1>1. ASSUME BeginWalk, UNCHANGED <<share, manifest>>
      PROVE  /\ squeue' \in Seq(Dir) /\ spage' \in 1 .. MaxPages + 1 /\ squeued' \subseteq Dir
             /\ sgaps' \subseteq Gap /\ sstayed' \subseteq FileId \cup Folder /\ sline' = "list"
  <2>1. Root \in Dir /\ squeue' = <<Root>> /\ 1 \in 1 .. MaxPages + 1
    BY <1>1 DEF BeginWalk, Dir
  <2>2. squeue' \in Seq(Dir)
    BY <2>1
  <2>3. \A d \in Dir : EntriesOf(d) \subseteq FileId \cup Folder
    <3> SUFFICES ASSUME NEW d \in Dir, NEW i \in DOMAIN sshare[d] PROVE sshare[d][i] \in FileId \cup Folder
      BY DEF EntriesOf
    <3>1. PICK s : s = sshare[d]
      OBVIOUS
    <3>2. s \in Seq(FileId \cup Folder) /\ i \in DOMAIN s
      BY <3>1
    <3>3. s[i] \in FileId \cup Folder
      BY ONLY <3>2, ElementOfSeq, LenProperties
    <3> QED
      BY <3>1, <3>3
  <2>4. sstayed' \subseteq FileId \cup Folder
    BY <1>1, <2>3 DEF BeginWalk, Shared, Dir
  <2> QED
    BY <1>1, <2>1, <2>2, <2>4 DEF BeginWalk
<1>2. CASE BeginScan
  BY <1>2 DEF BeginScan
<1>3. CASE AccessSharePage
  <2>1. sasked' = 0 /\ UNCHANGED <<share, manifest, scode, sretries, slines, sscans>>
    BY <1>3 DEF AccessSharePage
  <2>2. BeginWalk \/ (sline' \in {"code", "again"} /\ UNCHANGED <<walk, observed>>)
    BY <1>3 DEF AccessSharePage
  <2> QED
    BY <1>1, <2>1, <2>2
<1>4. CASE VerifyKnown
  <2>1. UNCHANGED <<share, manifest, sretries, slines, sscans>>
    BY <1>4 DEF VerifyKnown
  <2>2. \/ BeginWalk /\ UNCHANGED <<sasked, scode>>
        \/ sline' = "ask" /\ sasked' \in 0 .. MaxAsks /\ scode' \in BOOLEAN /\ UNCHANGED <<walk, observed>>
    <3>1. 1 \in 0 .. MaxAsks /\ FALSE \in BOOLEAN
      OBVIOUS
    <3>2. \/ BeginWalk /\ UNCHANGED <<sasked, scode>>
          \/ sline' = "ask" /\ sasked' = 1 /\ scode' = FALSE /\ UNCHANGED <<walk, observed>>
      BY <1>4 DEF VerifyKnown
    <3> QED
      BY <3>1, <3>2
  <2> QED
    BY <1>1, <2>1, <2>2
<1>5. CASE AskCode
  <2>1. UNCHANGED <<share, manifest, sretries, sscans>> /\ slines' \in 0 .. MaxLines
    BY <1>5 DEF AskCode
  <2>2. \/ BeginWalk /\ scode' = TRUE /\ UNCHANGED sasked
        \/ sline' = "ask" /\ sasked' \in 0 .. MaxAsks /\ UNCHANGED <<scode, walk, observed>>
    BY <1>5 DEF AskCode
  <2> QED
    BY <1>1, <2>1, <2>2
<1>6. CASE RenewSession
  BY <1>6 DEF RenewSession
<1>7. CASE PasswordRequired
  BY <1>7 DEF PasswordRequired
<1>8. CASE ScanFails
  BY <1>8 DEF ScanFails
<1>9. CASE RefusePage
  <2>1. 0 \in 0 .. PageSize
    OBVIOUS
  <2> QED
    BY <1>9, <2>1 DEF RefusePage
<1>10. CASE WalkDone
  BY <1>10 DEF WalkDone
<1>11. CASE CompleteTaskScan
  BY <1>11 DEF CompleteTaskScan
<1> QED
  BY <1>2, <1>3, <1>4, <1>5, <1>6, <1>7, <1>8, <1>9, <1>10, <1>11

(* A change of the share keeps the types: a listing stays a sequence.      *)
LEMMA OwnerTypes ==
  ASSUME ScanTypeOK, Outside
  PROVE  ScanTypeOK'
<1> USE ScanAssumption DEF walk, manifest, access, observed
<1>0. Change => /\ schanges' \in 0 .. MaxChanges
                /\ UNCHANGED <<sstalls, sline, walk, manifest, access>>
  BY DEF Change, ScanTypeOK
<1>a. \A d \in Dir : /\ sshare[d] \in Seq(FileId \cup Folder)
                     /\ DOMAIN sshare[d] = 1 .. Len(sshare[d])
  BY LenProperties DEF ScanTypeOK
<1>b. ASSUME NEW d \in Dir, NEW i \in DOMAIN sshare[d], Move(d, i)
      PROVE  /\ sshare' \in [Dir -> Seq(FileId \cup Folder)]
             /\ sgaps' \subseteq Gap /\ UNCHANGED sstayed
  <2>1. PICK j \in DOMAIN sshare[d] \ {i} :
          /\ sshare' = [sshare EXCEPT ![d] = Put(Without(@, i), j, @[i])]
          /\ sgaps' = sgaps \cup {"moved"} /\ UNCHANGED sstayed
    BY <1>b DEF Move
  <2> DEFINE s == sshare[d]
             w == Without(s, i)
  <2>2. s \in Seq(FileId \cup Folder) /\ i \in 1 .. Len(s) /\ j \in 1 .. Len(s)
    BY <1>a, <1>b, <2>1
  <2>3. sshare' = [sshare EXCEPT ![d] = Put(w, j, s[i])]
    BY <2>1
  <2> HIDE DEF s
  <2>4. w \in Seq(FileId \cup Folder) /\ Len(w) + 1 = Len(s) /\ s[i] \in FileId \cup Folder
    BY <2>2, Removed, ElementOfSeq
  <2> HIDE DEF w
  <2>5. Put(w, j, s[i]) \in Seq(FileId \cup Folder)
    <3>1. j \in 1 .. Len(w) + 1
      BY <2>2, <2>4
    <3> QED
      BY <2>4, <3>1, Inserted
  <2> QED
    BY <2>1, <2>3, <2>5 DEF ScanTypeOK, Gap
<1>1. CASE RemoveEntry
  <2>1. PICK d \in Dir : \E i \in DOMAIN sshare[d] :
          /\ Change /\ sshare' = [sshare EXCEPT ![d] = Without(@, i)]
          /\ sstayed' = sstayed \cap Shared' /\ sgaps' = sgaps \cup {"removed"}
          /\ UNCHANGED <<snames, scut>>
    BY <1>1 DEF RemoveEntry
  <2>2. PICK i \in DOMAIN sshare[d] :
          /\ Change /\ sshare' = [sshare EXCEPT ![d] = Without(@, i)]
          /\ sstayed' = sstayed \cap Shared' /\ sgaps' = sgaps \cup {"removed"}
          /\ UNCHANGED <<snames, scut>>
    BY <2>1
  <2>3. Without(sshare[d], i) \in Seq(FileId \cup Folder)
    BY <1>a, <2>2, Removed
  <2>4. sshare' \in [Dir -> Seq(FileId \cup Folder)]
    BY <2>2, <2>3 DEF ScanTypeOK
  <2> QED
    BY <1>0, <2>2, <2>4 DEF ScanTypeOK, Gap
<1>2. CASE AddFile
  <2>1. PICK d \in Dir, f \in FileId : \E i \in 1 .. Len(sshare[d]) + 1 :
          /\ Change /\ sshare' = [sshare EXCEPT ![d] = Put(@, i, f)]
          /\ UNCHANGED <<snames, scut, observed>>
    BY <1>2 DEF AddFile
  <2>2. PICK i \in 1 .. Len(sshare[d]) + 1 :
          /\ Change /\ sshare' = [sshare EXCEPT ![d] = Put(@, i, f)]
          /\ UNCHANGED <<snames, scut, observed>>
    BY <2>1
  <2>3. Put(sshare[d], i, f) \in Seq(FileId \cup Folder)
    BY <1>a, <2>2, Inserted
  <2>4. sshare' \in [Dir -> Seq(FileId \cup Folder)]
    BY <2>2, <2>3 DEF ScanTypeOK
  <2> QED
    BY <1>0, <2>2, <2>4 DEF ScanTypeOK
<1>3. CASE Reorder
  <2>1. PICK d \in Dir : \E i \in DOMAIN sshare[d] :
          Change /\ Move(d, i) /\ UNCHANGED <<snames, scut>>
    BY <1>3 DEF Reorder
  <2>2. PICK i \in DOMAIN sshare[d] : Change /\ Move(d, i) /\ UNCHANGED <<snames, scut>>
    BY <2>1
  <2>3. sshare' \in [Dir -> Seq(FileId \cup Folder)] /\ sgaps' \subseteq Gap /\ UNCHANGED sstayed
    BY <1>b, <2>2
  <2> QED
    BY <1>0, <2>2, <2>3 DEF ScanTypeOK
<1>4. CASE Rename
  <2>1. PICK d \in Dir, name \in FileId : \E i \in DOMAIN sshare[d] :
          /\ Change /\ snames' = [snames EXCEPT ![sshare[d][i]] = name] /\ UNCHANGED scut
          /\ Move(d, i) \/ UNCHANGED <<sshare, observed>>
    BY <1>4 DEF Rename
  <2>2. PICK i \in DOMAIN sshare[d] :
          /\ Change /\ snames' = [snames EXCEPT ![sshare[d][i]] = name] /\ UNCHANGED scut
          /\ Move(d, i) \/ UNCHANGED <<sshare, observed>>
    BY <2>1
  <2>3. /\ sshare' \in [Dir -> Seq(FileId \cup Folder)]
        /\ sgaps' \subseteq Gap /\ UNCHANGED sstayed
    BY <1>b, <2>2 DEF ScanTypeOK
  <2> QED
    BY <1>0, <2>2, <2>3 DEF ScanTypeOK
<1>5. CASE ShortenPage
  <2>1. scut' \in 0 .. PageSize
    BY <1>5 DEF ShortenPage
  <2> QED
    BY <1>0, <1>5, <2>1 DEF ShortenPage, ScanTypeOK
<1> QED
  BY <1>1, <1>2, <1>3, <1>4, <1>5 DEF Outside

(* A walk begins with nothing met and everything still to be listed.       *)
LEMMA BeginCovers ==
  ASSUME ScanTypeOK, BeginWalk, UNCHANGED <<share, manifest>>
  PROVE  WalkCovers'
<1>0. /\ sline' = "list" /\ squeue' = <<Root>> /\ spage' = 1 /\ squeued' = {Root} /\ sstayed' = Shared
      /\ UNCHANGED <<sshare, sdirs>>
  BY DEF BeginWalk, GoTo, share, listing, manifest
<1>1. Shared' = Shared /\ EntriesOf(Root)' = EntriesOf(Root)
  BY <1>0 DEF Shared, EntriesOf
<1>2. EntriesOf(Root) \cap Folder \subseteq Shared
  BY DEF Shared
<1>3. ASSUME NEW i \in DOMAIN sshare[Root] PROVE StillListed(Root, i)'
  <2>1. sshare[Root] \in Seq(Entry)
    BY DEF ScanTypeOK, Entry, Dir
  <2>2. i \in Nat /\ i > 0
    BY <1>3, <2>1, LenProperties
  <2>3. (spage' - 1) * PageSize = 0
    BY <1>0, ScanAssumption
  <2>4. squeue' # <<>> /\ squeue'[1] = Root
    BY <1>0
  <2> QED
    BY <2>2, <2>3, <2>4 DEF StillListed
<1> QED
  BY <1>0, <1>1, <1>2, <1>3 DEF WalkCovers

(* A new file moves the entries behind it to later places, never to        *)
(* earlier ones, and is not of those that have always been there.          *)
LEMMA AddCovers == ScanInv /\ AddFile => WalkCovers'
<1> SUFFICES ASSUME ScanInv, AddFile PROVE WalkCovers'
  OBVIOUS
<1>a. UNCHANGED <<sline, sgaps>>
  BY DEF AddFile, Change, observed
<1> SUFFICES ASSUME sline \in {"list", "complete"}, sgaps = {} PROVE WalkCovers'
  BY <1>a DEF WalkCovers
<1>0. PICK d \in Dir, f \in FileId : \E i \in 1 .. Len(sshare[d]) + 1 :
        /\ f \notin UNION {EntriesOf(e) : e \in Dir}
        /\ Change /\ sshare' = [sshare EXCEPT ![d] = Put(@, i, f)] /\ UNCHANGED observed
  BY DEF AddFile
<1>1. PICK p \in 1 .. Len(sshare[d]) + 1 :
        /\ f \notin UNION {EntriesOf(e) : e \in Dir}
        /\ Change /\ sshare' = [sshare EXCEPT ![d] = Put(@, p, f)] /\ UNCHANGED observed
  BY <1>0
<1>2. /\ ScanTypeOK /\ UNCHANGED <<squeue, spage, squeued, sfiles, sdirs, sstalls, sline, sstayed>>
      /\ Root \in squeued /\ squeued \subseteq {Root} \cup sdirs
      /\ sstayed \subseteq Shared /\ EntriesOf(Root) \cap Folder \subseteq sstayed
      /\ \A c \in squeued : \A i \in DOMAIN sshare[c] :
           sshare[c][i] \in sstayed => Met(sshare[c][i]) \/ StillListed(c, i)
      /\ sline = "complete" => squeue = <<>>
  BY <1>1 DEF ScanInv, WalkCovers, Change, observed, walk, manifest
<1>3. \A c \in Dir : /\ sshare[c] \in Seq(Entry) /\ Len(sshare[c]) \in Nat
                     /\ DOMAIN sshare[c] = 1 .. Len(sshare[c])
  <2>1. \A c \in Dir : sshare[c] \in Seq(Entry)
    BY <1>2 DEF ScanTypeOK, Entry
  <2> QED
    BY <2>1, LenProperties
<1> DEFINE new == Put(sshare[d], p, f)
<1>4. /\ sshare' = [sshare EXCEPT ![d] = new] /\ sshare'[d] = new
      /\ \A c \in Dir : c # d => sshare'[c] = sshare[c]
  BY <1>1, <1>2 DEF ScanTypeOK
<1>5. /\ new \in Seq(Entry) /\ Len(new) = Len(sshare[d]) + 1
      /\ \A j \in 1 .. Len(sshare[d]) + 1 :
           new[j] = IF j < p THEN sshare[d][j] ELSE IF j = p THEN f ELSE sshare[d][j - 1]
  <2>1. sshare[d] \in Seq(Entry) /\ f \in Entry
    BY <1>3 DEF Entry
  <2> QED
    BY <2>1, Inserted
<1>6. DOMAIN new = 1 .. Len(sshare[d]) + 1
  BY <1>5, LenProperties
<1> HIDE DEF new
<1>7. f \notin sstayed /\ f \notin Folder
  <2>1. f \notin Shared
    BY <1>1 DEF Shared, Dir
  <2>2. f \notin Folder
    BY ScanAssumption DEF Dir
  <2> QED
    BY <1>2, <2>1, <2>2
<1>8. ASSUME NEW c \in Dir PROVE EntriesOf(c)' = EntriesOf(c) \cup (IF c = d THEN {f} ELSE {})
  <2>1. CASE c # d
    BY <1>4, <1>8, <2>1 DEF EntriesOf
  <2>2. CASE c = d
    <3>1. EntriesOf(c)' = {new[j] : j \in 1 .. Len(sshare[d]) + 1}
      BY <1>4, <1>6, <2>2 DEF EntriesOf
    <3>2. EntriesOf(c) = {sshare[d][j] : j \in 1 .. Len(sshare[d])}
      BY <1>3, <2>2 DEF EntriesOf
    <3>3. \A j \in 1 .. Len(sshare[d]) + 1 : new[j] \in EntriesOf(c) \cup {f}
      <4> SUFFICES ASSUME NEW j \in 1 .. Len(sshare[d]) + 1 PROVE new[j] \in EntriesOf(c) \cup {f}
        OBVIOUS
      <4>1. CASE j < p
        <5>1. j \in 1 .. Len(sshare[d]) /\ new[j] = sshare[d][j]
          BY <1>3, <1>5, <4>1
        <5> QED
          BY <3>2, <5>1
      <4>2. CASE j = p
        BY <1>5, <4>2
      <4>3. CASE j > p
        <5>1. j - 1 \in 1 .. Len(sshare[d]) /\ new[j] = sshare[d][j - 1]
          BY <1>3, <1>5, <4>3
        <5> QED
          BY <3>2, <5>1
      <4> QED
        BY <1>3, <4>1, <4>2, <4>3
    <3>4. \A j \in 1 .. Len(sshare[d]) : \E k \in 1 .. Len(sshare[d]) + 1 : new[k] = sshare[d][j]
      <4> SUFFICES ASSUME NEW j \in 1 .. Len(sshare[d])
                   PROVE  \E k \in 1 .. Len(sshare[d]) + 1 : new[k] = sshare[d][j]
        OBVIOUS
      <4>1. CASE j < p
        <5>1. j \in 1 .. Len(sshare[d]) + 1 /\ new[j] = sshare[d][j]
          BY <1>3, <1>5, <4>1
        <5> QED
          BY <5>1
      <4>2. CASE ~(j < p)
        <5>1. j + 1 \in 1 .. Len(sshare[d]) + 1 /\ ~(j + 1 < p) /\ j + 1 # p /\ j + 1 - 1 = j
          BY <1>3, <4>2
        <5>2. new[j + 1] = sshare[d][j]
          BY <1>5, <5>1
        <5> QED
          BY <5>1, <5>2
      <4> QED
        BY <4>1, <4>2
    <3>5. f \in EntriesOf(c)'
      <4>1. new[p] = f
        BY <1>5
      <4> QED
        BY <3>1, <4>1
    <3>6. EntriesOf(c)' \subseteq EntriesOf(c) \cup {f}
      BY <3>1, <3>3
    <3>7. EntriesOf(c) \subseteq EntriesOf(c)'
      <4> SUFFICES ASSUME NEW j \in 1 .. Len(sshare[d]) PROVE sshare[d][j] \in EntriesOf(c)'
        BY <3>2
      <4>1. PICK k \in 1 .. Len(sshare[d]) + 1 : new[k] = sshare[d][j]
        BY <3>4
      <4> QED
        BY <3>1, <4>1
    <3> QED
      BY <2>2, <3>5, <3>6, <3>7
  <2> QED
    BY <2>1, <2>2
<1>9. EntriesOf(Root)' \cap Folder = EntriesOf(Root) \cap Folder
  BY <1>7, <1>8 DEF Dir
<1>10. Shared \subseteq Shared'
  <2>1. \A c \in {Root} \cup (EntriesOf(Root) \cap Folder) : c \in Dir /\ EntriesOf(c) \subseteq EntriesOf(c)'
    BY <1>8 DEF Dir
  <2> QED
    BY <1>9, <2>1 DEF Shared
<1>11. ASSUME NEW e, Met(e) PROVE Met(e)'
  BY <1>2, <1>11 DEF Met
<1>12. ASSUME NEW c, NEW i \in Nat, NEW j \in Nat, i <= j, StillListed(c, i) PROVE StillListed(c, j)'
  <2>1. spage \in Nat /\ spage >= 1 /\ PageSize \in Nat
    BY <1>2, ScanAssumption DEF ScanTypeOK
  <2> DEFINE before == (spage - 1) * PageSize
  <2>2. before \in Nat
    <3>1. spage - 1 \in Nat
      BY <2>1
    <3> QED
      BY <2>1, <3>1
  <2>3. i > before => j > before
    <3> HIDE DEF before
    <3> QED
      BY <1>12, <2>2
  <2> QED
    BY <1>2, <1>12, <2>3 DEF StillListed
<1>13. ASSUME NEW c \in squeued, NEW j \in DOMAIN sshare'[c], NEW e \in sstayed, e = sshare'[c][j]
       PROVE  Met(e)' \/ StillListed(c, j)'
  <2>0. c \in Dir
    BY <1>2 DEF ScanTypeOK
  <2>1. PICK i \in DOMAIN sshare[c] : e = sshare[c][i] /\ i \in Nat /\ j \in Nat /\ i <= j
    <3>1. CASE c # d
      <4>1. j \in DOMAIN sshare[c] /\ e = sshare[c][j] /\ j \in Nat
        BY <1>3, <1>4, <1>13, <2>0, <3>1
      <4> QED
        BY <4>1
    <3>2. CASE c = d
      <4>0. j \in 1 .. Len(sshare[d]) + 1 /\ e = new[j] /\ e # f
        BY <1>4, <1>6, <1>7, <1>13, <3>2
      <4>1. CASE j < p
        <5>1. j \in 1 .. Len(sshare[d]) /\ new[j] = sshare[d][j]
          BY <1>3, <1>5, <4>0, <4>1
        <5> QED
          BY <1>3, <3>2, <4>0, <5>1
      <4>2. CASE j = p
        BY <1>5, <4>0, <4>2
      <4>3. CASE j > p
        <5>1. j - 1 \in 1 .. Len(sshare[d]) /\ new[j] = sshare[d][j - 1] /\ j - 1 <= j
          BY <1>3, <1>5, <4>0, <4>3
        <5> QED
          BY <1>3, <3>2, <4>0, <5>1
      <4> QED
        BY <1>3, <4>0, <4>1, <4>2, <4>3
    <3> QED
      BY <3>1, <3>2
  <2>2. Met(e) \/ StillListed(c, i)
    BY <1>2, <1>13, <2>1
  <2> QED
    BY <1>11, <1>12, <2>1, <2>2
<1>14. ASSUME NEW c \in squeued, NEW j \in DOMAIN sshare'[c], sshare'[c][j] \in sstayed
       PROVE  Met(sshare[c][j])' \/ StillListed(c, j)'
  <2>1. PICK e \in sstayed : e = sshare'[c][j]
    BY <1>14
  <2>2. Met(e)' \/ StillListed(c, j)'
    BY <1>13, <2>1
  <2> QED
    BY <2>1, <2>2 DEF Met
<1> QED
  BY <1>2, <1>9, <1>10, <1>14 DEF WalkCovers

(* When no directory is left to be listed, everything was met.             *)
LEMMA NothingHidden ==
  ASSUME ScanInv, sline = "complete", sgaps = {}
  PROVE  /\ \A f \in sstayed \cap FileId : \E row \in sfiles : row[1] = f
         /\ sstayed \cap Folder \subseteq sdirs
<1>1. /\ Root \in squeued /\ squeued \subseteq {Root} \cup sdirs
      /\ sstayed \subseteq Shared /\ EntriesOf(Root) \cap Folder \subseteq sstayed
      /\ \A d \in squeued : \A i \in DOMAIN sshare[d] :
           sshare[d][i] \in sstayed => Met(sshare[d][i]) \/ StillListed(d, i)
      /\ squeue = <<>>
  BY DEF ScanInv, WalkCovers
<1>2. ASSUME NEW d \in squeued, NEW e \in EntriesOf(d) \cap sstayed PROVE Met(e)
  <2>1. PICK i \in DOMAIN sshare[d] : e = sshare[d][i]
    BY DEF EntriesOf
  <2>2. Met(sshare[d][i]) \/ StillListed(d, i)
    BY <1>1, <1>2, <2>1
  <2> QED
    BY <1>1, <2>1, <2>2 DEF StillListed
<1>3. EntriesOf(Root) \cap Folder \subseteq squeued
  <2>1. \A e \in EntriesOf(Root) \cap Folder : Met(e)
    BY <1>1, <1>2
  <2> QED
    BY <2>1 DEF Met
<1>4. \A e \in sstayed : Met(e)
  <2> SUFFICES ASSUME NEW e \in sstayed PROVE Met(e)
    OBVIOUS
  <2>1. PICK d \in {Root} \cup (EntriesOf(Root) \cap Folder) : e \in EntriesOf(d)
    BY <1>1 DEF Shared
  <2> QED
    BY <1>1, <1>2, <1>3, <2>1
<1>5. Root \notin Folder /\ \A f \in FileId : f \notin Folder
  BY ScanAssumption DEF Dir
<1> QED
  BY <1>1, <1>4, <1>5 DEF Met

(* Every step of the runner, the walk and the owner keeps the invariant.   *)
LEMMA ScanInvStep == ScanInv /\ [ScanNext]_scanVars => ScanInv'
<1> SUFFICES ASSUME ScanInv, [ScanNext]_scanVars PROVE ScanInv'
  OBVIOUS
<1> USE DEF GoTo, KeepOutside, KeepWalk, share, listing, walk, manifest, access, observed
<1>0. ScanTypeOK /\ WalkCovers /\ (scompleted => sline = "idle") /\ OnlyGapsHide
  BY DEF ScanInv
<1>1. ASSUME BeginWalk, sline \notin {"idle"}, UNCHANGED <<share, manifest>>
      PROVE  WalkCovers' /\ (scompleted => sline = "idle")' /\ OnlyGapsHide'
  BY <1>0, <1>1, BeginCovers DEF OnlyGapsHide
<1>2. ASSUME sline' \notin {"list", "complete"}, ~scompleted'
      PROVE  WalkCovers' /\ (scompleted => sline = "idle")' /\ OnlyGapsHide'
  BY <1>2 DEF WalkCovers, OnlyGapsHide
<1>3. CASE BeginScan
  <2>1. sline' = "access" /\ ~scompleted' /\ UNCHANGED <<share, manifest>>
    BY <1>3 DEF BeginScan
  <2> QED
    BY <1>0, <1>2, <1>3, <2>1, RunnerTypes DEF ScanInv
<1>4. CASE AccessSharePage \/ VerifyKnown \/ AskCode
  <2>1. sline # "idle" /\ UNCHANGED <<share, manifest>>
        /\ (BeginWalk \/ sline' \in {"code", "again", "ask"})
    BY <1>4 DEF AccessSharePage, VerifyKnown, AskCode
  <2>2. ~scompleted /\ ~scompleted'
    BY <1>0, <2>1
  <2>3. ScanTypeOK'
    BY <1>0, <1>4, RunnerTypes
  <2>4. WalkCovers' /\ (scompleted => sline = "idle")' /\ OnlyGapsHide'
    <3>1. CASE BeginWalk
      BY <1>1, <2>1, <3>1
    <3>2. CASE sline' \in {"code", "again", "ask"}
      BY <1>2, <2>1, <2>2, <3>2
    <3> QED
      BY <2>1, <3>1, <3>2
  <2> QED
    BY <2>3, <2>4 DEF ScanInv
<1>5. CASE RenewSession \/ PasswordRequired \/ ScanFails \/ RefusePage
  <2>1. sline # "idle" /\ sline' \in {"again", "ask", "idle"} /\ UNCHANGED manifest
    BY <1>5 DEF RenewSession, PasswordRequired, ScanFails, RefusePage
  <2>2. ~scompleted'
    BY <1>0, <2>1
  <2> QED
    BY <1>0, <1>2, <1>5, <2>1, <2>2, RunnerTypes DEF ScanInv
<1>6. CASE WalkDone
  <2>1. sline = "list" /\ squeue = <<>> /\ sline' = "complete"
        /\ UNCHANGED <<share, manifest, walk, observed>>
    BY <1>6 DEF WalkDone
  <2>2. ScanTypeOK'
    BY <1>0, <1>6, RunnerTypes
  <2>3. WalkCovers'
    <3>1. Shared' = Shared /\ EntriesOf(Root)' = EntriesOf(Root)
      BY <2>1 DEF Shared, EntriesOf
    <3> QED
      BY <1>0, <2>1, <3>1 DEF WalkCovers, Met, StillListed
  <2> QED
    BY <1>0, <2>1, <2>2, <2>3 DEF ScanInv, OnlyGapsHide
<1>7. CASE CompleteTaskScan
  <2>1. sline = "complete" /\ sline' = "idle" /\ UNCHANGED <<sfiles, sdirs, sstayed, sgaps>>
    BY <1>7 DEF CompleteTaskScan
  <2>2. ScanTypeOK'
    BY <1>0, <1>7, RunnerTypes
  <2>3. OnlyGapsHide'
    BY <2>1, NothingHidden DEF OnlyGapsHide
  <2> QED
    BY <2>1, <2>2, <2>3 DEF ScanInv, WalkCovers
<1>8. CASE ListPage
  <2>1. sline = "list" /\ UNCHANGED <<sline, scompleted>>
    BY <1>8 DEF ListPage
  <2> QED
    BY <1>0, <1>8, <2>1, ListPageTypes, ListPageCovers DEF ScanInv, OnlyGapsHide
<1>9. CASE Outside
  <2>1. ~scompleted /\ UNCHANGED <<sline, walk, manifest, sstalls>>
    BY <1>9 DEF Outside, RemoveEntry, AddFile, Reorder, Rename, ShortenPage, Change
  <2>2. ScanTypeOK'
    BY <1>0, <1>9, OwnerTypes
  <2>3. WalkCovers'
    <3>1. ASSUME UNCHANGED <<sshare, observed>> PROVE WalkCovers'
      <4>1. Shared' = Shared /\ EntriesOf(Root)' = EntriesOf(Root)
        BY <3>1 DEF Shared, EntriesOf
      <4> QED
        BY <1>0, <2>1, <3>1, <4>1 DEF WalkCovers, Met, StillListed
    <3>2. CASE sgaps' # {}
      BY <3>2 DEF WalkCovers
    <3>3. CASE AddFile
      BY <3>3, AddCovers
    <3>4. RemoveEntry \/ Reorder => sgaps' # {}
      BY DEF RemoveEntry, Reorder, Move
    <3>5. Rename \/ ShortenPage => sgaps' # {} \/ UNCHANGED <<sshare, observed>>
      BY DEF Rename, ShortenPage, Move
    <3> QED
      BY <1>9, <3>1, <3>2, <3>3, <3>4, <3>5 DEF Outside
  <2> QED
    BY <1>0, <2>1, <2>2, <2>3 DEF ScanInv, OnlyGapsHide
<1>10. CASE UNCHANGED scanVars
  <2>1. UNCHANGED <<share, sline, walk, manifest, access, observed>>
    BY <1>10 DEF scanVars
  <2>2. Shared' = Shared /\ EntriesOf(Root)' = EntriesOf(Root)
    BY <2>1 DEF Shared, EntriesOf
  <2>3. ScanTypeOK' /\ (scompleted => sline = "idle")' /\ OnlyGapsHide'
    BY <1>0, <2>1 DEF ScanTypeOK, OnlyGapsHide
  <2>4. WalkCovers'
    BY <1>0, <2>1, <2>2 DEF WalkCovers, Met, StillListed
  <2> QED
    BY <2>3, <2>4 DEF ScanInv
<1> QED
  BY <1>3, <1>4, <1>5, <1>6, <1>7, <1>8, <1>9, <1>10 DEF ScanNext, ScanStep

LEMMA ScanBegins ==
  ASSUME NEW line \in {"off", "idle"}, ScanStart(line), scode \in BOOLEAN, sstalls \in BOOLEAN
  PROVE  ScanInv
<1> USE ScanAssumption
<1>1. squeue \in Seq(Dir) /\ spage \in 1 .. MaxPages + 1 /\ squeued \subseteq Dir
  BY EmptySeq DEF ScanStart, NoWalk
<1>2. sshare \in [Dir -> Seq(FileId \cup Folder)] /\ snames \in [FileId -> FileId]
  BY DEF ScanStart
<1>3. /\ 0 \in 0 .. MaxChanges /\ 0 \in 0 .. MaxAsks /\ MaxLines \in 0 .. MaxLines
      /\ 0 \in 0 .. MaxAuthRetries /\ 0 \in 0 .. MaxScans /\ 0 \in 0 .. PageSize
  OBVIOUS
<1>4. ScanTypeOK
  <2>1. /\ sline \in ScanLine /\ sfiles \subseteq FileId \X Dir \X FileId /\ sdirs \subseteq Folder
        /\ scompleted \in BOOLEAN /\ sgaps \subseteq Gap /\ scut \in 0 .. PageSize /\ sstayed \subseteq FileId \cup Folder
    BY <1>3 DEF ScanStart, ScanLine
  <2>2. schanges = 0 /\ sasked = 0 /\ slines = MaxLines /\ sretries = 0 /\ sscans = 0
    BY DEF ScanStart
  <2> QED
    BY <1>1, <1>2, <1>3, <2>1, <2>2 DEF ScanTypeOK
<1>5. WalkCovers /\ OnlyGapsHide /\ (scompleted => sline = "idle")
  BY DEF ScanStart, WalkCovers, OnlyGapsHide
<1> QED
  BY <1>4, <1>5 DEF ScanInv

(* The inductive invariant of a scan: as long as the listing keeps its     *)
(* order and the pages are full, what was there all along was met in this  *)
(* walk or is still to be listed.                                          *)
THEOREM ScanInvariant == ScanSpec => []ScanInv
<1>1. ScanInit => ScanInv
  BY ScanBegins DEF ScanInit
<1> QED
  BY <1>1, ScanInvStep, PTL DEF ScanSpec

(* A scan recorded as complete has the whole share in the manifest, for    *)
(* every share and page size, whatever was added and renamed meanwhile     *)
(* and however often the scan was begun anew (Scan, UpsertManifestPage,    *)
(* CompleteTaskScan), unless during its walk an entry was taken out or     *)
(* changed its place in the listing, or an answer was short.               *)
THEOREM CompleteScansAreWhole == ScanSpec => []OnlyGapsHide
<1>1. ScanInv => OnlyGapsHide
  BY DEF ScanInv
<1> QED
  BY <1>1, ScanInvariant, PTL

----------------------------------------------------------------------------
(* The engines together *)

EnginesInv == TransferInv /\ DownloadInv /\ ScanInv /\ MigrationInv

(* An engine that is off satisfies its invariant.                          *)
LEMMA EnginesOff ==
  /\ TransferOff => TransferInv
  /\ DownloadOff => DownloadInv
  /\ ScanOff => ScanInv
  /\ MigrationOff => MigrationInv
<1>1. ASSUME TransferOff PROVE TransferInv
  <2>1. twork = <<>> /\ Len(twork) = 0 /\ twork \in Seq(SUBSET File)
    BY <1>1, EmptySeq DEF TransferOff
  <2>2. BatchLength \in File /\ 0 \in 0 .. MaxAttempts - 1 /\ 0 \in 0 .. MaxStagings
    BY TransferAssumption DEF File
  <2>3. TransferTypeOK
    BY <1>1, <2>1, <2>2 DEF TransferOff, TransferTypeOK, TransferLine, Verdict, Answer
  <2>4. WorkAtLine /\ Forgotten /\ NeverMoved /\ Fresh /\ BlameIsReal
    BY <1>1, <2>1 DEF TransferOff, WorkAtLine, Forgotten, Covered, NeverMoved, Fresh, BlameIsReal
  <2> QED
    BY <2>3, <2>4 DEF TransferInv
<1>2. DownloadOff => DownloadInv
  BY DownloadBegins
<1>3. ScanOff => ScanInv
  BY ScanBegins DEF ScanOff
<1>4. ASSUME MigrationOff PROVE MigrationInv
  <2>1. Empty \in Database /\ Empty.version = 0 /\ Empty.applied = 1 .. Empty.version
        /\ \A f \in MFile : Plausible(Empty.file[f])
    BY DEF Empty, Database, Version, Newest, TaskStatus, FileRow, Plausible
  <2>2. mdb = Empty /\ mtx = Empty /\ mbefore = Empty /\ mline = "off" /\ mupgrades = 0
    BY <1>4 DEF MigrationOff, MigrationStart
  <2>3. 0 \in 0 .. MaxUpgrades
    BY MigrationAssumption
  <2>4. MigrationTypeOK
    BY <2>1, <2>2, <2>3 DEF MigrationTypeOK
  <2>5. Between /\ Settled
    BY <2>1, <2>2 DEF Between, Settled
  <2> QED
    BY <2>4, <2>5 DEF MigrationInv
<1> QED
  BY <1>1, <1>2, <1>3, <1>4

(* One engine takes a step and the others keep still.                      *)
LEMMA EnginesStep == EnginesInv /\ [EnginesNext]_enginesVars => EnginesInv'
<1> SUFFICES ASSUME EnginesInv, [EnginesNext]_enginesVars PROVE EnginesInv'
  OBVIOUS
<1>1. [TransferNext]_transferVars /\ [DownloadNext]_downloadVars
      /\ [ScanNext]_scanVars /\ [MigrationNext]_migrationVars
  BY DEF EnginesNext, enginesVars
<1>2. TransferInv' /\ ScanInv'
  BY <1>1, TransferStep, ScanInvStep DEF EnginesInv
<1>3. DownloadInv'
  BY <1>1, DownloadInvStep DEF EnginesInv
<1>4. MigrationInv'
  BY <1>1, MigrationInvStep DEF EnginesInv
<1> QED
  BY <1>2, <1>3, <1>4 DEF EnginesInv

(* The engines side by side: the invariant of each of them, while it runs  *)
(* and while it is off.                                                    *)
THEOREM EnginesInvariant == FairEngines => []EnginesInv
<1>1. EnginesInit => EnginesInv
  BY TransferBegins, DownloadBegins, ScanBegins, MigrationBegins, EnginesOff
     DEF EnginesInit, EnginesInv, ScanInit
<1> QED
  BY <1>1, EnginesStep, PTL DEF FairEngines

(* Every variable of every engine keeps its type: no attempt, page, code   *)
(* or version is counted beyond the limits the code sets (maxDownload-     *)
(* Attempts, maxPages, the loops of Scan and of the scan runner).          *)
THEOREM EnginesTypes == FairEngines => []EnginesTypeOK
<1>1. EnginesInv => EnginesTypeOK
  BY DEF EnginesInv, EnginesTypeOK, TransferInv, DownloadInv, ScanInv, MigrationInv
<1> QED
  BY <1>1, EnginesInvariant, PTL
=============================================================================
