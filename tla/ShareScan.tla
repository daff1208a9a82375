----------------------------- MODULE ShareScan -----------------------------
(***************************************************************************)
(* How a share becomes a manifest: Scan of the client, page by page and    *)
(* directory by directory, UpsertManifestPage, and the loops of the scan   *)
(* runner over login and extraction code.  Meanwhile the owner of the      *)
(* share changes it, sessions expire, and the process may die; the scan is *)
(* then begun again, over the manifest that is already there.              *)
(*                                                                         *)
(* The share is a root and folders in it.  A listing is a sequence of      *)
(* entries, which are files and folders.  The requests ask for no order:   *)
(* an entry may move in the listing, with a new name or without, and an    *)
(* answer may hold fewer entries than there are.  A file keeps its         *)
(* identifier when it is renamed; names are those that the files have in   *)
(* the beginning.  A row of the manifest is a file, a directory, a name.   *)
(***************************************************************************)
EXTENDS Naturals, Sequences, FiniteSets

CONSTANTS Root, Folder, \* the directories: the root, those in it
          FileId,       \* files, and their first names
          Shares,       \* the shares there may be: a listing per directory
          PageSize,     \* entries of a full page
          MaxPages,     \* pages of one directory
          MaxAsks,      \* extraction codes that may be tried in a row
          MaxAuthRetries, \* new logins of one scan
          MaxChanges,   \* bound on changes of the share and short answers
          MaxScans,     \* bound on how often the scan is begun
          MaxLines      \* lines the user types before the input ends

Dir == {Root} \cup Folder

ASSUME ScanAssumption ==
  /\ Root \notin Folder /\ Dir \cap FileId = {}
  /\ Shares \subseteq [Dir -> Seq(FileId \cup Folder)]
  /\ PageSize \in Nat \ {0} /\ MaxPages \in Nat /\ MaxAsks \in Nat \ {0} /\ MaxAuthRetries \in Nat
  /\ MaxChanges \in Nat /\ MaxScans \in Nat /\ MaxLines \in Nat

VARIABLES
  sshare, snames, schanges, \* the share: listings, names of files, changes
  sstalls,          \* the provider answers every page with the first
  scut,             \* entries that its next answer leaves out
  sline,            \* the line of the runner
  squeue, spage,    \* directories to list; the page of the first one
  sseen, squeued,   \* pages of this directory so far; directories ever queued
  sfiles, sdirs,    \* the manifest: rows of files, folders
  scompleted,       \* tasks.scan_completed
  scode, sasked,    \* the extraction code is known; codes tried in a row
  sretries, slines, sscans, \* authRetries, lines not yet typed, scans begun
  sstayed, sgaps    \* history of this walk: what has always been in the
                    \* share; what may have hidden some of it

listing  == <<sshare, snames, schanges, sstalls>>
share    == <<listing, scut>>
walk     == <<squeue, spage, sseen, squeued>>
manifest == <<sfiles, sdirs, scompleted>>
access   == <<scode, sasked, sretries, slines, sscans>>
observed == <<sstayed, sgaps>>
scanVars == <<share, sline, walk, manifest, access, observed>>

Gap == {"removed", "moved", "short"}
ScanLine == {"off", "idle", "access", "again", "code", "ask", "list", "complete"}

EntriesOf(d) == {sshare[d][i] : i \in DOMAIN sshare[d]}
Shared == UNION {EntriesOf(d) : d \in {Root} \cup (EntriesOf(Root) \cap Folder)}

NoWalk == squeue = <<>> /\ spage = 1 /\ sseen = {} /\ squeued = {}
ScanStart(line) ==
  /\ sline = line /\ sshare \in Shares /\ snames = [f \in FileId |-> f] /\ schanges = 0
  /\ NoWalk /\ sfiles = {} /\ sdirs = {} /\ scompleted = FALSE
  /\ sasked = 0 /\ sretries = 0 /\ slines = MaxLines /\ sscans = 0
  /\ scut = 0 /\ sstayed = {} /\ sgaps = {}
ScanOff  == ScanStart("off") /\ sshare = (CHOOSE s \in Shares : TRUE) /\ scode = FALSE /\ sstalls = FALSE
ScanInit == ScanStart("idle") /\ scode \in BOOLEAN /\ sstalls \in BOOLEAN

----------------------------------------------------------------------------
(* The runner: login, share page, extraction code *)

GoTo(line) == sline' = line
KeepOutside == UNCHANGED <<share, manifest>>

(* Scan begins at the root, whatever an earlier walk has seen.             *)
BeginWalk ==
  /\ GoTo("list")
  /\ squeue' = <<Root>> /\ spage' = 1 /\ sseen' = {} /\ squeued' = {Root}
  /\ sstayed' = Shared /\ sgaps' = {}
KeepWalk == UNCHANGED <<walk, observed>>

(* Run or Resume.  Without cookies, or with ones that the share page does  *)
(* not accept, the user logs in; the share context is read afterwards.     *)
BeginScan ==
  /\ sline = "idle" /\ ~scompleted /\ sscans < MaxScans
  /\ GoTo("access") /\ sscans' = sscans + 1 /\ sretries' = 0
  /\ KeepOutside /\ KeepWalk /\ UNCHANGED <<scode, sasked, slines>>

AccessSharePage ==
  /\ sline \in {"access", "again"}
  /\ \/ IF scode THEN GoTo("code") /\ KeepWalk ELSE BeginWalk
     \/ sline = "access" /\ GoTo("again") /\ KeepWalk
  /\ sasked' = 0
  /\ KeepOutside /\ UNCHANGED <<scode, sretries, slines, sscans>>

(* VerifyPassword with the code that is known: right, or wrong.  After a   *)
(* login in the middle of a scan a wrong code is an error.                 *)
VerifyKnown ==
  /\ sline = "code"
  /\ \/ BeginWalk /\ UNCHANGED <<sasked, scode>>
     \/ /\ sretries = 0 /\ GoTo("ask") /\ sasked' = 1 /\ scode' = FALSE /\ KeepWalk
  /\ KeepOutside /\ UNCHANGED <<sretries, slines, sscans>>

(* One round of the loop: a line that is empty, wrong or right.            *)
AskCode ==
  /\ sline = "ask" /\ sasked < MaxAsks /\ slines > 0
  /\ slines' = slines - 1
  /\ \/ GoTo("ask") /\ sasked' = sasked + 1 /\ UNCHANGED scode /\ KeepWalk
     \/ BeginWalk /\ scode' = TRUE /\ UNCHANGED sasked
  /\ KeepOutside /\ UNCHANGED <<sretries, sscans>>

(* Mutation: the retries are not counted.                                  *)
RenewForever ==
  /\ sline = "list" /\ GoTo("again")
  /\ KeepOutside /\ KeepWalk /\ UNCHANGED <<sretries, scode, sasked, slines, sscans>>
(* The session ended during the scan: one new login, a new share context.  *)
RenewSession ==
  /\ sline = "list" /\ sretries < MaxAuthRetries
  /\ sretries' = sretries + 1 /\ GoTo("again")
  /\ KeepOutside /\ KeepWalk /\ UNCHANGED <<scode, sasked, slines, sscans>>

PasswordRequired ==
  /\ sline = "list" /\ GoTo("ask") /\ sasked' = 0
  /\ KeepOutside /\ KeepWalk /\ UNCHANGED <<scode, sretries, slines, sscans>>

(* Any other error, the end of the input, too many codes, a crash.         *)
ScanFails ==
  /\ sline \notin {"off", "idle"} /\ GoTo("idle")
  /\ KeepOutside /\ KeepWalk /\ UNCHANGED access

----------------------------------------------------------------------------
(* Scan and UpsertManifestPage *)

Current == Head(squeue)
Least(m, n) == IF m < n THEN m ELSE n
PageItems ==
  LET page == IF sstalls THEN 1 ELSE spage
      last == Least(page * PageSize, Len(sshare[Current]))
  IN SubSeq(sshare[Current], (page - 1) * PageSize + 1, last - scut)
Items == {PageItems[i] : i \in DOMAIN PageItems}
Row(f) == <<f, Current, snames[f]>>
PageRows == {Row(f) : f \in Items \cap FileId}
NewFolders == Items \cap Folder
Fingerprint == {<<e, IF e \in FileId THEN snames[e] ELSE e>> : e \in Items}

(* A file keeps its place, and a place its file.                           *)
Rebinds(row) ==
  \E old \in sfiles : old # row /\ (old[1] = row[1] \/ (old[2] = row[2] /\ old[3] = row[3]))

(* Mutation: a full page may be the last one.                              *)
LastPageEarly == Len(PageItems) <= PageSize
(* A page that is not full is the last one, whatever comes after it.       *)
LastPage == Len(PageItems) < PageSize

PageRefused ==
  \/ spage > MaxPages
  \/ Fingerprint \in sseen
  \/ NewFolders \cap squeued # {}
  \/ \E row \in PageRows : Rebinds(row)

(* The folders of the page, in its order.                                  *)
FolderPlaces == {i \in DOMAIN PageItems : PageItems[i] \in Folder}
FoldersInOrder ==
  [k \in 1 .. Cardinality(FolderPlaces) |->
     PageItems[CHOOSE i \in FolderPlaces : Cardinality({j \in FolderPlaces : j < i}) = k - 1]]

ListPage ==
  /\ sline = "list" /\ squeue # <<>> /\ ~PageRefused
  /\ sfiles' = sfiles \cup PageRows /\ sdirs' = sdirs \cup NewFolders
  /\ squeued' = squeued \cup NewFolders
  /\ IF LastPage
       THEN squeue' = Tail(squeue) \o FoldersInOrder /\ spage' = 1 /\ sseen' = {}
       ELSE squeue' = squeue \o FoldersInOrder /\ spage' = spage + 1
            /\ sseen' = sseen \cup {Fingerprint}
  /\ scut' = 0 /\ sgaps' = IF scut = 0 THEN sgaps ELSE sgaps \cup {"short"}
  /\ UNCHANGED <<listing, sline, scompleted, access, sstayed>>

RefusePage ==
  /\ sline = "list" /\ squeue # <<>> /\ PageRefused /\ GoTo("idle")
  /\ scut' = 0 /\ KeepWalk /\ UNCHANGED <<listing, manifest, access>>

WalkDone ==
  /\ sline = "list" /\ squeue = <<>> /\ GoTo("complete")
  /\ KeepOutside /\ KeepWalk /\ UNCHANGED access

CompleteTaskScan ==
  /\ sline = "complete" /\ GoTo("idle") /\ scompleted' = TRUE
  /\ KeepWalk /\ UNCHANGED <<share, sfiles, sdirs, access>>

----------------------------------------------------------------------------
(* The owner of the share, and the provider *)

Without(s, i) == SubSeq(s, 1, i - 1) \o SubSeq(s, i + 1, Len(s))
Put(s, i, e) == SubSeq(s, 1, i - 1) \o <<e>> \o SubSeq(s, i, Len(s))

Change ==
  /\ sline # "off" /\ ~scompleted /\ schanges < MaxChanges /\ schanges' = schanges + 1
  /\ UNCHANGED <<sstalls, sline, walk, manifest, access>>

RemoveEntry ==
  \E d \in Dir : \E i \in DOMAIN sshare[d] :
    /\ Change /\ sshare' = [sshare EXCEPT ![d] = Without(@, i)]
    /\ sstayed' = sstayed \cap Shared' /\ sgaps' = sgaps \cup {"removed"}
    /\ UNCHANGED <<snames, scut>>
AddFile ==
  \E d \in Dir, f \in FileId : \E i \in 1 .. Len(sshare[d]) + 1 :
    /\ f \notin UNION {EntriesOf(e) : e \in Dir}
    /\ \A g \in EntriesOf(d) \cap FileId : snames[g] # snames[f]
    /\ Change /\ sshare' = [sshare EXCEPT ![d] = Put(@, i, f)]
    /\ UNCHANGED <<snames, scut, observed>>

(* An entry comes to another place of the listing of its directory.        *)
Move(d, i) ==
  \E j \in DOMAIN sshare[d] \ {i} :
    /\ sshare' = [sshare EXCEPT ![d] = Put(Without(@, i), j, @[i])]
    /\ sgaps' = sgaps \cup {"moved"} /\ UNCHANGED sstayed
Reorder ==
  \E d \in Dir : \E i \in DOMAIN sshare[d] :
    Change /\ Move(d, i) /\ UNCHANGED <<snames, scut>>
(* A file that has a new name may be listed at another place.              *)
Rename ==
  \E d \in Dir, name \in FileId : \E i \in DOMAIN sshare[d] :
    /\ sshare[d][i] \in FileId
    /\ \A g \in EntriesOf(d) \cap FileId : snames[g] # name
    /\ Change /\ snames' = [snames EXCEPT ![sshare[d][i]] = name] /\ UNCHANGED scut
    /\ Move(d, i) \/ UNCHANGED <<sshare, observed>>

(* The next answer lacks entries at its end.                               *)
ShortenPage ==
  /\ sline = "list" /\ Change /\ scut' \in 1 .. PageSize
  /\ UNCHANGED <<sshare, snames, observed>>

ScanStep == \/ BeginScan \/ AccessSharePage \/ VerifyKnown \/ AskCode \/ RenewSession
            \/ PasswordRequired \/ ScanFails \/ ListPage \/ RefusePage \/ WalkDone
            \/ CompleteTaskScan
Outside == RemoveEntry \/ AddFile \/ Reorder \/ Rename \/ ShortenPage
ScanNext == ScanStep \/ Outside
ScanSpec == ScanInit /\ [][ScanNext]_scanVars
FairScan == ScanSpec /\ WF_scanVars(ScanStep)

----------------------------------------------------------------------------
(* Properties *)

(* The variables have their types.                                         *)
ScanTypeOK ==
  /\ sline \in ScanLine
  /\ sshare \in [Dir -> Seq(FileId \cup Folder)] /\ snames \in [FileId -> FileId]
  /\ squeue \in Seq(Dir) /\ spage \in 1 .. MaxPages + 1 /\ squeued \subseteq Dir
  /\ sfiles \subseteq FileId \X Dir \X FileId /\ sdirs \subseteq Folder
  /\ scompleted \in BOOLEAN /\ scode \in BOOLEAN /\ sgaps \subseteq Gap /\ scut \in 0 .. PageSize
  /\ schanges \in 0 .. MaxChanges /\ sstalls \in BOOLEAN /\ sasked \in 0 .. MaxAsks /\ slines \in 0 .. MaxLines
  /\ sretries \in 0 .. MaxAuthRetries /\ sscans \in 0 .. MaxScans
  /\ sstayed \subseteq FileId \cup Folder

(* "The full share manifest was observed": when the scan is recorded as    *)
(* complete, everything that was in the share all along is in the          *)
(* manifest, whatever was added or renamed meanwhile, however often the    *)
(* scan was begun again.  What can hide an entry is that the listing moved *)
(* under the walk, since something was taken out of it or changed its      *)
(* place, or that a page before the last was short, which ends its         *)
(* directory: the program notices none of the three.                       *)
OnlyGapsHide ==
  scompleted /\ sgaps = {} =>
    /\ \A f \in sstayed \cap FileId : \E row \in sfiles : row[1] = f
    /\ sstayed \cap Folder \subseteq sdirs

(* The loops over sessions, codes, directories and pages end, whatever the *)
(* provider answers, when the user has typed all lines.                    *)
ScanEnds == <>[](sline \in {"off", "idle"})
=============================================================================
