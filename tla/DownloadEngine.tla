--------------------------- MODULE DownloadEngine ---------------------------
(***************************************************************************)
(* How one file is downloaded: downloadOne of the download engine, over    *)
(* OpenDownload of the client.  The .part and .bin files are a length and  *)
(* whether the bytes are a prefix of the file; the server may honour a     *)
(* range or not, announce another total, break off, and send wrong bytes.  *)
(* The process may die at any line, and the file is tried again.           *)
(***************************************************************************)
EXTENDS Integers

CONSTANTS Size,          \* length of the file
          MaxOpens,      \* attempts of one run (3 in the code)
          MaxDownloads   \* bound on how often the file is tried

ASSUME DownloadAssumption ==
  /\ Size \in Nat /\ MaxOpens \in Nat \ {0} /\ MaxDownloads \in Nat

VARIABLES
  dline,       \* the line of downloadOne
  dpart, dbin, \* the two files
  dattempt,    \* the loop variable
  dlast,       \* lastErr
  dstatus,     \* files.status
  dhash,       \* the manifest has the MD5
  ddownloads,  \* runs so far
  dlies        \* history: what the server did wrong

files        == <<dpart, dbin>>
downloadRun  == <<dline, dattempt, dlast>>
downloadVars == <<downloadRun, files, dstatus, dhash, ddownloads, dlies>>

Absent == -1
Lengths == Absent .. Size + 1   \* longer files are alike
Contents == [len : Lengths, good : BOOLEAN]
None == [len |-> Absent, good |-> TRUE]

(* partSize: a file that is not there has no bytes.                        *)
Offset == IF dpart.len = Absent THEN 0 ELSE dpart.len

DownloadLine == {"off", "rest", "bin", "part", "begin", "size", "open", "verify", "rename", "record"}
LastError == {"none", "network", "mismatch"}   \* "network": any error that may pass
Lie == {"byte", "end", "total"}   \* a wrong byte, an early or late end, another total

DownloadOff ==
  /\ dline = "off" /\ dpart = None /\ dbin = None /\ dattempt = 0 /\ dlast = "none"
  /\ dstatus = "staged" /\ dhash = FALSE /\ ddownloads = 0 /\ dlies = {}
DownloadInit ==
  /\ dline = "rest" /\ dpart = None /\ dbin = None /\ dattempt = 0 /\ dlast = "none"
  /\ dstatus = "staged" /\ dhash \in BOOLEAN /\ ddownloads = 0 /\ dlies = {}

----------------------------------------------------------------------------
(* The pieces *)

Goto(line) == dline' = line
KeepFiles == UNCHANGED files
KeepRun == UNCHANGED <<dattempt, dlast>>
KeepRow == UNCHANGED <<dstatus, dhash, ddownloads, dlies>>

(* Mutation: the MD5 is not compared.                                      *)
SizeVerified(file) == file.len = Size
(* verifyExisting of a file that is there: the size, the MD5 if known.     *)
Verified(file) == file.len = Size /\ (dhash => file.good)

(* RecordDownloadFailure, with what the loop left in lastErr.              *)
FailWith(permanent) ==
  /\ Goto("rest")
  /\ dstatus' = IF permanent THEN "failed" ELSE "downloading"

----------------------------------------------------------------------------
(* What an earlier run left *)

(* The engine takes the file up; StartDownload comes only later.           *)
TakeUp ==
  /\ dline = "rest" /\ dstatus \in {"staged", "downloading"} /\ ddownloads < MaxDownloads
  /\ Goto("bin") /\ ddownloads' = ddownloads + 1
  /\ dattempt' = 0 /\ dlast' = "none"
  /\ KeepFiles /\ UNCHANGED <<dstatus, dhash, dlies>>

(* A file that is not the one expected is thrown away, and so is one that  *)
(* cannot be read.                                                         *)
CheckBin ==
  /\ dline = "bin"
  /\ \/ dbin.len # Absent /\ Verified(dbin) /\ Goto("record") /\ KeepFiles
     \/ dbin.len # Absent /\ Goto("part") /\ dbin' = None /\ UNCHANGED dpart
     \/ dbin.len = Absent /\ Goto("part") /\ KeepFiles
  /\ KeepRun /\ KeepRow

CheckPart ==
  /\ dline = "part"
  /\ \/ Offset < Size /\ Goto("begin") /\ KeepFiles
     \/ dpart.len = Size /\ Verified(dpart) /\ Goto("rename") /\ KeepFiles
     \/ Offset >= Size /\ Goto("begin") /\ dpart' = None /\ UNCHANGED dbin
  /\ KeepRun /\ KeepRow

StartDownload ==
  /\ dline = "begin" /\ Goto("size") /\ dstatus' = "downloading"
  /\ KeepFiles /\ KeepRun /\ UNCHANGED <<dhash, ddownloads, dlies>>

----------------------------------------------------------------------------
(* The loop *)

(* Mutation: a file that ran out of attempts fails for good.               *)
AnyError(error) == error # "none"
(* isDeterministicVerificationError.                                       *)
Deterministic(error) == error = "mismatch"

(* An attempt failed: the next one, or the error that the last one left.   *)
(* Whether the file fails for good depends on the last one only.           *)
Retry(error) ==
  /\ dlast' = error
  /\ dattempt' = dattempt + 1
  /\ IF dattempt + 1 < MaxOpens
       THEN Goto("size") /\ UNCHANGED dstatus
       ELSE FailWith(Deterministic(error))

(* The offset of the next call is the length of the partial file.          *)
SizePart ==
  /\ dline = "size" /\ Goto("open")
  /\ KeepFiles /\ KeepRun /\ KeepRow

(* Mutation: the partial file stays.                                       *)
RangeRefusedKept ==
  /\ dline = "open"
  /\ \/ Offset = 0 /\ FailWith(FALSE)
     \/ Offset > 0 /\ Goto("size") /\ UNCHANGED dstatus
  /\ KeepFiles /\ KeepRun /\ UNCHANGED <<dhash, ddownloads, dlies>>
(* Mutation: an answer with the whole file is taken for the rest of it.    *)
RangeIgnored ==
  /\ dline = "open"
  /\ \/ Offset = 0 /\ FailWith(FALSE) /\ KeepFiles
     \/ /\ Offset > 0 /\ Offset + Size <= Size + 1 /\ Goto("verify")
        /\ dpart' = [len |-> Offset + Size, good |-> FALSE] /\ UNCHANGED <<dbin, dstatus>>
     \/ Offset > 1 /\ Goto("verify") /\ dpart' = [len |-> Size + 1, good |-> FALSE]
        /\ UNCHANGED <<dbin, dstatus>>
  /\ KeepRun /\ UNCHANGED <<dhash, ddownloads, dlies>>
(* ErrRangeNotHonored, ErrRangeNotSatisfiable: once more from zero, and    *)
(* the attempt is not counted.                                             *)
RangeRefused ==
  /\ dline = "open"
  /\ \/ Offset = 0 /\ FailWith(FALSE) /\ KeepFiles
     \/ Offset > 0 /\ Goto("size") /\ dpart' = None /\ UNCHANGED <<dbin, dstatus>>
  /\ KeepRun /\ UNCHANGED <<dhash, ddownloads, dlies>>

(* The session, the quota, a file operation, the user: no further attempt. *)
Stops ==
  /\ dline \notin {"off", "rest"} /\ FailWith(FALSE)
  /\ KeepFiles /\ KeepRun /\ UNCHANGED <<dhash, ddownloads, dlies>>
OpenFails ==
  /\ dline = "open" /\ Retry("network")
  /\ KeepFiles /\ UNCHANGED <<dhash, ddownloads, dlies>>

(* copyStream: the announced total is wrong.  A range that begins where    *)
(* the file ends can only belong to a longer one.                          *)
WrongTotal ==
  /\ dline = "open" /\ Retry("mismatch")
  /\ dlies' = dlies \cup {"total"}
  /\ KeepFiles /\ UNCHANGED <<dhash, ddownloads>>

(* copyStream: the file is cut at the offset, bytes are appended, and the  *)
(* body ends, or breaks off with an error.                                 *)
Receive ==
  /\ dline = "open" /\ (Offset < Size \/ Offset = 0)
  /\ \E len \in Offset .. Size + 1, good \in BOOLEAN :
       /\ len = Offset => good
       /\ len > Size => ~good
       /\ dpart' = [len |-> len, good |-> (Offset = 0 \/ dpart.good) /\ good]
       /\ \/ Goto("verify") /\ UNCHANGED <<dattempt, dlast, dstatus>>
             /\ dlies' = dlies \cup (IF good THEN {} ELSE {"byte"})
                               \cup (IF len = Size THEN {} ELSE {"end"})
          \/ Retry("network")
             /\ dlies' = dlies \cup (IF good THEN {} ELSE {"byte"})
  /\ UNCHANGED <<dbin, dhash, ddownloads>>

(* The file is thrown away when it cannot be read, too: that error is the  *)
(* one that counts then, and no reason to fail for good.                   *)
VerifyPart ==
  /\ dline = "verify"
  /\ \/ /\ Verified(dpart) /\ Goto("rename") /\ KeepFiles
        /\ KeepRun /\ UNCHANGED dstatus
     \/ /\ ~Verified(dpart) /\ dpart' = None /\ UNCHANGED dbin
        /\ Retry("mismatch")
     \/ dpart' = None /\ UNCHANGED dbin /\ Retry("network")
  /\ UNCHANGED <<dhash, ddownloads, dlies>>

RenamePart ==
  /\ dline = "rename" /\ Goto("record")
  /\ dbin' = dpart /\ dpart' = None
  /\ KeepRun /\ KeepRow

MarkLocalReady ==
  /\ dline = "record" /\ Goto("rest") /\ dstatus' = "ready"
  /\ KeepFiles /\ KeepRun /\ UNCHANGED <<dhash, ddownloads, dlies>>

(* The process dies.                                                       *)
DownloadCrash ==
  /\ dline \notin {"off", "rest"} /\ Goto("rest")
  /\ KeepFiles /\ KeepRun /\ KeepRow

DownloadStep == \/ TakeUp \/ CheckBin \/ CheckPart \/ StartDownload \/ SizePart \/ RangeRefused
                \/ Stops \/ OpenFails \/ WrongTotal \/ Receive \/ VerifyPart \/ RenamePart \/ MarkLocalReady
DownloadNext == DownloadStep \/ DownloadCrash
DownloadSpec == DownloadInit /\ [][DownloadNext]_downloadVars
FairDownload == DownloadSpec /\ WF_downloadVars(DownloadStep)

----------------------------------------------------------------------------
(* Properties *)

(* The variables have their types.                                         *)
DownloadTypeOK ==
  /\ dline \in DownloadLine /\ dpart \in Contents /\ dbin \in Contents
  /\ dattempt \in 0 .. MaxOpens /\ dlast \in LastError
  /\ dstatus \in {"staged", "downloading", "ready", "failed"} /\ dhash \in BOOLEAN
  /\ ddownloads \in 0 .. MaxDownloads /\ dlies \subseteq Lie

(* LOCAL_READY is a claim about the bytes of the .bin file, across crashes *)
(* between the verification, the rename and the record: it has the size,   *)
(* and where the manifest has an MD5 it has the content; where it has none *)
(* only a server that sent wrong bytes can make it wrong.                  *)
ReadyBytes ==
  dstatus = "ready" => dbin.len = Size /\ (dhash \/ "byte" \notin dlies => dbin.good)

(* Resuming never damages: from a server that sends the right bytes, a     *)
(* .part file is a prefix of the file after any number of runs, ranges     *)
(* that were refused and answers that broke off.                           *)
HonestPrefix == "byte" \notin dlies => dpart.good /\ dbin.good

(* A refused range is not counted as an attempt, and still the loop ends:  *)
(* each call of OpenDownload uses up an attempt or the partial file.       *)
DownloadEnds == <>[](dline \in {"off", "rest"})

(* A file fails for good only when the server misbehaved, never from a     *)
(* network that fails or a process that dies.                              *)
PermanentNeedsALie == dstatus = "failed" => dlies # {}
=============================================================================
