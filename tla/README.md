# BaiduDriveMover in TLA+

BaiduDriveMover moves the content of a Baidu share link to Google Drive. It
copies the files of the share, batch by batch, into a staging area it owns on
Baidu, downloads them into a bounded local cache, uploads them with rclone,
verifies what Drive holds, and only then deletes its own copies. Everything it
knows is in one SQLite database, so that it can be stopped at any point and
resumed.

This directory holds a model of that program: TLA+ modules, the TLC
configurations that check them, and proofs checked by TLAPS. The hard part of
the program is not any single function but the order of steps: two stores that
cannot take part in a transaction (Baidu, Drive), a local disk, a database, and
a process that may die between any two of them.

## The system

| Component | Source | State it keeps | Operations |
|---|---|---|---|
| durable store | `internal/state` | rows of tasks, directories, files, batches, batch_files, owned_objects | one transaction per function |
| batch planner | `state/staging_bounded.go`, `staging_store.go` | none | `PlanBatches`, `PlanBatchesBounded` |
| pipeline runner | `app/pipeline.go` | the progress read at the start of a pass | passes of cleanup, Drive, download, stage |
| scan runner, scanner | `app/scan.go`, `baidu/scanner.go` | queue of directories to list | list a page, write a page, complete the scan |
| stage runner, executor | `app/stage.go`, `staging/stager.go` | none | plan, start, make a directory, reconcile, transfer, complete, fail |
| download runner, engine | `app/download.go`, `download/engine.go` | `.part` and `.bin` files | admit, resume, verify, rename, record |
| Drive runner, tree, uploader | `app/drive.go`, `drive/` | objects on Drive | ensure root and directories, copy, reconcile, record, verify again |
| cleanup runner, engine | `app/cleanup.go`, `cleanup/engine.go` | none | authorise, delete, record, complete, delete the task root |
| schema migrations | `state/store.go` | `schema_migrations`, the shape of the tables | all missing migrations in one transaction |
| Baidu client | `baidu/*_api.go`, `client.go`, `retry.go` | session | external calls with bounded retries of reads |
| rclone helper | `drive/rclone` | helper binary, configuration | provision, authorise, run |
| runtime layout | `runtime/` | `./temp/`, the instance lock | path checks, file operations |
| process lifetime (main) | `cmd/baidu-drive-mover`, `runtime/lock*.go` | the lock, open files, whether the removal is armed | take the lock, open log and database, choose a task, run, close in reverse order, remove `./temp/` when nothing is left |

How they interact. `main` holds the instance lock, so one process works at a
time. It creates or chooses a task and calls the scan runner until the manifest
is complete, then the pipeline. Each pass of the pipeline reads the progress of
the task from the database, calls the stages that have work in the order
cleanup, Drive, download, stage, and reads the progress again; a pass that
changed nothing ends the run. A stage calls its engine, which alternates between
external calls (Baidu, rclone, files) and single transactions. Nothing is passed
from one stage to another except through the database. The cache watermark is
the only thing that tasks share: every reserved byte of every task counts.

What is hard: a crash between an external effect and its record; a call that
reports an error and took effect all the same, or takes effect later; evidence
read before a call and used after it; a batch whose files are at different
stages; several tasks sharing the cache; a check that is made under the lock and used
after its release; a share that its owner changes between two pages; a loop
whose budget is reset by progress; and everything that must happen in an order,
above all that nothing is deleted before it is verified.

What makes each component correct:

- planner: every discovered file lands in exactly one batch, batches respect
  both limits, do not mix directories, and none is closed before it is full;
- store: statuses move forward only, identifiers and provenance are never taken
  back, a directory is released for deletion only with all of its files
  verified, DONE and COMPLETED are claimed only with the evidence for them;
- engines: what the database says of bytes is true of the bytes, at every
  instant and so after every crash; no transaction is refused where the engine
  issues it, but for a page of a share that has changed;
- pipeline: a run ends; a task that is resumed often enough ends; the watermark
  is kept;
- staging executor: splitting a batch forgets no file, a good file is not
  blamed, the retry budget is finite although progress resets it;
- download engine: a resumed `.part` file is never spoiled, a ready file has the
  right bytes, a file fails for good only for a cause;
- scanner: a manifest recorded as complete has everything that the answers of the
  provider did not hide, and the scan ends
  whatever the provider answers;
- migrations: all or nothing, and the repair in migration 6 touches nothing else;
- process lifetime: one process works at a time, and no unfinished task is lost
  when `./temp/` is removed.

## The modules

| Module | Models | Notes |
|---|---|---|
| `Lifecycle` | `state/model.go` | statuses, the transition table, which statuses have consumed a staging confirmation |
| `Planner` | both planners | as recursive functions over sets of files; `IsPlan` is the declarative definition |
| `PlannerProofs`, `PlanningProofs` | | the theorems about `Planner`, and about its use in `MCPlanner` |
| `Store` | `internal/state` | one action per transaction; `Spec` is the protocol the callers follow |
| `StoreProofs` | | the theorems about `Store` |
| `Delivery` | | abstract specification: custody, delivery, release |
| `Mover` | `app`, `staging`, `download`, `drive`, `cleanup` | the process as a program counter over `Store` and the outside world; implements `Store!Spec` and `Delivery` |
| `MoverProofs` | | the theorems about `Mover` |
| `DeliveryProofs` | | the proofs that `Mover` implements `Delivery`, keeps the watermark, leaves nothing behind and is refused no transaction but a page of a share that changed, and that what was cleaned returns by restaging only |
| `ProcessLifecycle` | `cmd/baidu-drive-mover/main.go`, `runtime/` | several processes around one `./temp/`, with the lock and the removal |
| `TransferEngine` | `staging/stager.go`, `baidu/own_copy_api.go` | the staging of one batch: reconcile, transfer, split, judge |
| `DownloadEngine` | `download/engine.go`, `baidu/download_api.go` | the download of one file: offsets, ranges, attempts, verification |
| `ShareScan` | `baidu/scanner.go`, `app/scan.go`, `state/task_store.go` | the scan of one share, with login and extraction code |
| `Migration` | `state/store.go` | the migrations of one database |
| `ProcessProofs`, `TransferProofs`, `EngineProofs` | | the theorems about them; `EngineProofs` has those about the download, the scan and the migrations, and about the four engines side by side |
| `MCPlanner`, `MCStore`, `MCMover` | | instances for TLC |
| `MCEngines` | | an instance of the four engines, each alone |

`Mover` takes a whole run of an engine as one step or a few. The engine modules
look inside those steps. They are not composed with `Mover`, because an engine
shares nothing with another one while it runs: what it leaves behind (which
files arrived, what the `.part` and `.bin` files hold, whether the scan is
complete, which verdict is recorded) is what `Mover` lets happen in any of the
ways an engine can end.

### Store

A variable stands for a column: `status` for `files.status`, `driveId` for
`files.drive_id`, `dirId` for `directories.drive_id`, `batchStatus` for
`batches.status`, and so on. A batch is identified with the set of its files,
because the batch ID is a hash of them. A provenance row (`owned_objects`) is
reduced to what the code branches on: absent, registered, `cleanup_allowed`,
`cleaned_at` set. A transaction that returns an error rolls back and is not a
step, so a guard is the conjunction of the checks of the function. The guard of
transaction `X` is a definition of its own, `MayX`, which is what `NeverRefused`
is about.

The owner of a share may change it between the pages of a scan and between scans.
A member of `File` is therefore a version of a file: an identifier in the share
(`SourceId`) with the path, the size and the checksum it was listed with (`Path`;
two versions that differ in their size or checksum are two members with the same
identifier). `Agrees` has the checks with which `UpsertManifestPage` refuses a
page: a directory where a file is, a file where a directory is, an identifier
that comes back with another path, size or checksum, and a second file at one
path, which the table itself refuses. What they are for is `RowsDiffer`, a part
of `RowsConsistent`.

Some guards are marked "caller" and come from the only place that calls the function, such
as that the pipeline tests `Complete()` before it writes COMPLETED; `Mover`
shows that the callers do keep them, because it is checked and proved to
implement `Store!Spec`.

Left out: timestamps, `retry_count`, `last_error`, `extraction_code`, and the
transactions that write nothing else; and of the manifest that a checksum that
was missing is filled in when a later page has it.

### Mover

The process is a program counter `pc` with the task, the batch and the file in
hand. A line of the model is a step of the code between two points at which the
process may die: one transaction (`Tx`), one external effect, or a test
(`Branch`). The world outside is: staging roots, directories and copies on Baidu
(`roots`, `dirs`, `copies`); `.part` and `.bin` files (`part`, `bin`); folders
and objects on Drive (`rootObj`, `dirObj`, `objects`), with uploads that may
still commit after their error (`late`).

Faults are counted by `faults` and bounded by `MaxFaults`. A fault is

- a crash at any line: the program counter and what is in hand are lost, nothing
  else is;
- an external call that reports an error and has had no effect, part of its
  effect, all of it, or, for `copyto`, will have it later. Deletions and
  directories are done or not done; a transfer may have moved any subset; a
  download may have left part of its bytes.

How an error is classified (session lost, quota, network, conflict) only decides
what happens next, and the model takes every continuation the code has: the run
stops, or the engine runs once more with a new session, or the file or the batch
is failed for good. A transaction does not fail, other than by a crash. Nobody
else writes to the staging area or to the tool's folders on Drive (with the
`drive.file` scope the tool sees only what it made).

A scan records the answers of the share (`Page`) one by one, or is refused one
and stops. Where the owner changes the share, `Page` has more answers than one
walk gets, with different versions of a file among them; a scan is complete when
every directory and every identifier of the share has a row (`Walked`). How
entries escape a scan altogether is the subject of `ShareScan`.

### ProcessLifecycle

A process is a program counter over the lines of `run` in `main.go`: ensure the
layout, open the lock file, lock it, open the log, open the store (created and
migrated when missing), choose a task or a diagnostic mode, work, arm the
removal if no task is unfinished, and then the deferred calls in reverse order:
close the database, the log, the lock, and last remove the tree if it is still
armed. `RemoveRuntimeRoot` lists the directory and removes the names it saw one
by one, whatever has that name by then. An entry of `./temp/` is its name and how
often it was created, so that an open file and the file that now has its name
can be different ones; the lock is on the file. `OpenFilesPinned` says that an
open file cannot be deleted, as on Windows, the only system the product is made
for (`README.md:38` of the repository). Everything `Mover` does at the line `run`
is reduced to a task that is created, has verified bytes in the cache, completes.

### TransferEngine

The recursion of `transferSubset` and `transferSplit` is a list of chunks
(`twork`): a split puts the parts in front of the rest, a return takes the first
one away, an error drops the list. A call may move any part of what it is asked
for and answer with success, a limit, a conflict, an error that stops the run or
any other error; one that is answered with an error of its own may be carried
out later (`tlate`), also after the batch is staged again.

### DownloadEngine

A file is a length and whether its bytes are a prefix of the right content. The
server may refuse a range, announce another total, break off, end early or send
more, and send wrong bytes; `dlies` remembers which of these it did. The process
may die at every line, and the file is tried again from what is on disk. A file
that cannot be read back is thrown away or tried again as after a broken
connection; it is not a mismatch.

### ShareScan

A walk lists page after page of the first directory in the queue. The provider
may answer every page with the first (`sstalls`) and may leave out entries at the
end of an answer (`ShortenPage`). It promises no order, since the request asks for
none (`baidu/scanner.go:280-293`): an entry may change its place at any time
(`Reorder`), also because it has a new name (`Rename`). The owner of the share may
remove, add or rename an entry between any two steps. Login, a session that
expires in the middle, and the extraction code are the loops of the runner: the
user types at most `MaxLines` lines, and then the input ends.

### Migration

A transaction is a copy (`mtx`) of the database on disk (`mdb`) that replaces it
at `Commit`; a crash at any statement throws the copy away. Databases of every
earlier version, and of a newer program, are initial states (`Plausible`, `Left`).

### Delivery

The promise seen from outside: files in custody, files on Drive, files with a
verified Drive copy, files reported done. Custody is given up only for verified
files, a file is done only when nothing of it is in custody, and what is on
Drive stays. `Mover` maps custody to the copies on Baidu and the local files;
verified to the status of a file or the permission to delete it; done to the
cleaned provenance of its local copy and of its batch.

## What the runs check

| Run | Instance | Distinct states | Question |
|---|---|---|---|
| `planner` | 5 files in 2 directories, sizes 0..2, counts 1..3, byte limits 0..5 | 143 000 | is the result of the planning loop the plan the definition describes |
| `store` | 1 task, 2 files, one of which may be listed with the name of the other, 1 directory, 2 Drive identifiers, byte limits 0 and 1 | 223 000 | the evidence rules under every order of legal calls |
| `mover` | 1 task, 3 files, one of which may be renamed while it is scanned, batches of at most 2, watermark 2, 3 faults | 157 000 | evidence, refinement of `Store` and of `Delivery`, the watermark, nothing left behind by a completed task, no transaction refused but a page that disagrees with those before it, nothing cleaned returns but by restaging |
| `mover_one` | 1 task, 2 files in 1 batch, a share that does not change, watermark 3, 3 faults, fairness | 39 000 | every task ends |
| `two_tasks` | 2 tasks, 3 files, watermark 2, 2 faults | 607 000 | the shared watermark: what both tasks reserve and keep in the cache |
| `process` | 2 processes, 3 starts, 2 tasks, a crash at every line | 264 000 | the lock, the armed removal, what can lose a task |
| `engines` | a batch of 3 files staged twice with 2 attempts; a file of length 2 tried 3 times with 3 attempts; a share of 3 files on 2 pages and in a folder, 1 change, 2 scans; a database of 1 task and 2 files opened twice | 227 000 | each engine alone: nothing forgotten, spoiled, blamed or hidden, and it ends |
| `removal_race`, `restage`, `partial`, `empty_task`, `mutual_wait` | see below | | disagreements with the documentation |

Bounds, and why they are enough. All files have size 1 in the runs of `Mover`;
what matters there is whether a batch fits in what the watermark leaves, and
with a watermark of 2 over three files and batches of two every comparison has
both outcomes. Two files in one batch are the smallest batch whose files can be
at different stages, which is what the deletion gate is about; the third file
makes a second batch that competes for the watermark. Three faults are one for
each of the places where evidence is gained, kept and given up, for example a
lost answer of `copyto`, a crash before the record of it, and a crash in the
cleanup that follows. The renamed file of `mover` is a second version of the third
one (`f4` in `MCMover`): a scan that died may find either, and the page is refused
when the row is that of the other. In `store` the second version of `f2` has also
the path of `f1`, so that it clashes with both. The identifiers of Drive are
symmetric in `store`: no operator tells one from another, and all properties of
that run are invariants or properties of steps. Eight Drive identifiers are more than three faults can use
up. `MaxBatches` of a cleanup pass (8) and `MaxPasses` (100000) are never
reached by such instances and are not in the model.

In `process` the second process can overtake the first at every line, and the
third start sees what both have left. In `engines` three files are the smallest
batch that is split into parts of different sizes and split again; two attempts
tell apart a budget that is reset from one that is not; length 2 has a proper
prefix, a range that begins in the middle and one that begins at the end; the
share has two pages in its root, so that one removal, one change of place or one
short page is enough to hide an entry; and the versions 0, 1, 5, 6 and 7 of the
database are the empty one, the first, the one before the repair, this one, and
a newer one. `MaxStagings`, `MaxDownloads`, `MaxScans`, `MaxUpgrades`,
`MaxLaunches`, `MaxChanges` and `MaxLines` bound how often the user or the
environment acts and are not limits of the code; `MaxAttempts`, `MaxOpens`,
`MaxPages`, `MaxAsks` and `MaxAuthRetries` are limits of the code, made small. At
most one file of the batch is one that Baidu refuses or that differs.

`CHECK_DEADLOCK` is off in every configuration: a process with no unfinished
task has nothing left to do, a store whose task has ended has no legal call, and
an engine that has ended has no further step.

`mover_one` is separate from `mover` because `Converges` does not hold where the
watermark is tight: that is what `partial` shows. With room for all files of the
task no batch is deferred, and it holds. It would not hold either of a share in
which a recorded file was renamed before its scan was complete: every later scan is
refused the page, for as long as the file has its new name.

### Fairness

`FairMover` assumes weak fairness of `Run`, the steps of a running process
(including those in which an external call succeeds, fails within the fault
bound, or is tested): a started process runs on until it ends. It assumes strong
fairness of `Launch(t)` for every task: the user resumes a task again and again
as long as it can be resumed. Strong, because the task can be resumed only while
no process runs, and a process that is resumed for another task disables it. No
fairness is assumed of crashes, of late commits or of the creation of tasks. The
code justifies this much and no more: it has no timer and no retry beyond the
bounded ones, and every end of a run tells the user to start it again.
Weak fairness of `Run` is not empty: a line at which no step is possible would
end the behaviour there, and `Converges` would be violated. `NeverRefused` says
why that is so of every line with a transaction: the checks of the transaction
hold.

The engines have weak fairness of their own steps (`Execute`, `DownloadStep`,
`ScanStep`): an engine that was started runs on until it ends or the process
dies. None is assumed of late arrivals, of crashes or of changes of the share.
The first step of each (staging a batch again, trying a file again, beginning a
scan) is bounded, so the properties `TransferEnds`, `DownloadEnds` and `ScanEnds`
say that the loops inside end. The scan waits for the user at two places; with
`MaxLines` the input ends, and `bufio` then reports it.

## Disagreements with the documentation

Each is a `violation` run: TLC finds the behaviour.

- `restage` (`state/staging_store.go:159`). The last file of a batch is
  confirmed, the process dies before the batch is STAGED, and the batch is then
  deferred by the watermark, or further faults end the runs before they stage.
  Its files are downloaded, uploaded, verified and cleaned while the batch row
  says STAGING. The next staging pass starts it again and makes its directory a
  second time. `docs/V06_FULL_PIPELINE.md:84` calls
  `cleaned_at != ''` "the durable evidence that the registered object was
  reconciled as removed"; here the object is back. The task root is then refused
  as not empty (`cleanup/engine.go:208`), in this and in every later run.
- `partial` (`app/stage.go:112`). A batch larger than half of the watermark
  is staged in part, and that part is downloaded and reserved. The rest can never
  be staged, since the whole of the batch is compared with what is left, and the
  first part can never be cleaned, since cleanup takes whole batches.
  `docs/V07_HARDENING.md:131`: "once injected failures stop, the migration
  converges".
- `empty_task` (`state/pipeline_store.go:30`). A share of directories only; the
  process dies after the Drive root was recorded. `Complete()` does not look at
  the directories, so the next run reports COMPLETED without them.
  `docs/ARCHITECTURE.md:240`: a completed task requires "every required logical
  directory to exist at the destination".
- `mutual_wait` (`state/download_store.go:142`). A file of task 2 fails for good
  while another one of it is LOCAL_READY. The task becomes FAILED and is never
  resumed, but the reservation stays. Task 1 has one file of its batch on Drive
  and the other one waiting for the cache; it can neither download nor clean.
  `docs/V07_HARDENING.md:131` again.
- `removal_race` (`cmd/baidu-drive-mover/main.go:71`). The deferred call that removes
  `./temp/` is the first to be deferred and so the last to run, after the lock was
  released. A process that takes the lock at this moment can create a task, or
  resume one, and download files, and the first process then removes
  `./temp/cache/` and, once the second one has ended, the database.
  `docs/DESIGN_DECISIONS.md:293` calls "the absence of every other non-completed
  task" the deletion boundary that keeps "another task's state", and
  `state/task_store.go:52` allows the removal only then; both are true at the
  check, and no longer when it is used. The run `process` shows that this is the
  only way (`OnlyTheRaceLoses`).

Two more places a reader should know. `FailBatch` with a permanent error sets
every file of the batch but the staged ones to FAILED_PERMANENT, without asking the
table in `state/model.go`, which allows no status after DONE
(`state/staging_store.go:379`). So the batch of `restage`, when it is staged again
after its files are DONE and meets a conflict, makes them count as failed although
they are on Drive; `ForwardOnly` exempts failures for this reason. And the bytes of
a file that failed for good are no longer reserved but still on disk, so that with
several tasks the cache can grow past its watermark; `CacheFits` is therefore
checked, and proved, for one task. For any number of them `WatermarkHolds` says that these bytes are all
that can exceed it.

From the engines:

- whether a file fails for good is decided by the last attempt alone: two
  attempts that fail in the network and one mismatch in the end are enough
  (`download/engine.go:268`), where `docs/V04_DOWNLOADER.md:75` speaks of a
  repeated mismatch;
- a transfer that is carried out after its answer was lost counts as a conflict
  of the next call, and what is then left of that call, a file with which nothing
  is wrong, is blamed, and the batch fails for good. `BlameIsReal` has to exempt
  it;
- a manifest can be recorded as complete (`state/task_store.go:64`) that lacks a
  file that was in the share all along, for one of three reasons: something was
  removed between two pages, which moves what follows to earlier places; an entry
  changed its place in the listing, which has no promised order; or a page before
  the last was short, since any page that is not full ends its directory
  (`baidu/scanner.go:270`). `docs/V07_HARDENING.md:78` asks that the scanner "never
  rely solely on `len(page) < pageSize` for termination"; the fingerprints and the
  bound on pages that it names guard against walks that do not end, and not
  against one that ends early. `OnlyGapsHide` says that nothing else hides an
  entry. A file that is renamed in the share after its page was written makes
  every later scan of the task refuse the page, since a file keeps its place;
- migration 6 brings back a file that failed because of a value that is no MD5,
  and a BLOCKED task with it, but a task that is FAILED stays so and its file
  waits for ever;
- where an open file can be deleted (`OpenFilesPinned = FALSE`, any system but
  Windows) and three processes are started, the lock no longer excludes: the
  second one holds the lock of a file that the first one removes, and the third
  one creates a new file.

## What is proved

`StoreProofs` proves, for every set of tasks, files, directories and identifiers
and every size, each safety property that the run `store` checks:

- `StoreTypeOK`: the type invariant;
- `StoreInvariant`: the conjunction `StoreInv` of the type invariant and all
  eight invariants; it is inductive as it stands. Its parts need each other.
  `DeletionGate` (`CleanupGate`) needs `BatchesPartition`, so that a file belongs
  to no second batch with another fate, and `LocalGate` and `DoneEvidence` for
  the files that are already done; `RootLast` needs that all done files have
  their batches cleaned (lemma `AllDoneAllCleaned`), and that no file is planned
  later, which is why `scanCompleted` is part of it; `CompletedEvidence` needs
  both, and `UploadEvidence` for the tree;
- `NoFileInTwoBatches`, `RowsStayConsistent` (with it that the rows of a manifest
  differ, whatever the share does between its pages: lemma `RowsDifferStep`), `UploadsHaveEvidence`,
  `LocalDeletionGate`, `DeletionGate`, `DoneMeansClean`, `RootDeletedLast`,
  `CompletedMeansMoved`: the invariants, one by one;
- `FilesMoveForward`, `DriveIdsStay`, `ProvenanceStays`: the action properties.

The argument is one case split over the transactions (`StepCases`), then for
each conjunct one lemma with a step per transaction. The proofs use the
assumptions `StoreAssumption` and `IdAssumption`, which TLC evaluates on the
instances, and of the planner only that a plan partitions what is discovered and
mixes no directories (`IsPlan`), never how it is computed.

`MoverProofs` proves about the running program, for every set of tasks, files and
directories, every workload and watermark and any number of faults:

- `MoverInvariant`: `StoreInv /\ MoverInv`. `EvidenceIsReal` is not inductive:
  whether a deletion is harmless depends on what the process believed when it
  began it. `MoverInv` adds to it the types of what Drive holds (`DriveTypeOK`)
  and what the process has in hand at each line (`InHand`): a batch whose
  deletion is authorised at every line of its cleanup, a file that is still to
  be downloaded at every line of a download, its verified bytes at the line that
  records them, room in the cache at the line that plans;
- `MoverImplementsStore`: every step is a transaction of `Store` whose checks
  hold, or leaves the database alone. So every theorem of `StoreProofs` holds of
  the program;
- `EvidenceStaysReal`: `EvidenceIsReal`.

Most steps take no bytes away and claim none that were not claimed before
(`QuietStep`, `Kept`), and lemma `PlainStep` settles them at once. What is left
are the steps that matter: the deletions, which are harmless because
`CleanupGate` says that no file of an authorised batch claims its bytes any more
(`NothingClaimed`), and the three records of evidence (`ConfirmStep`,
`LocalReadyStep`, `RecordStep`), each of which names what the step before it saw.
Besides the assumptions above the proof uses `MoverAssumption`, of which only
this matters: what the watermark leaves is a bound the planner may be given.

`DeliveryProofs` proves, from the same assumptions and one more, that the mark of
an absent task is no task, what the tool promises its user:

- `PromiseIsKept`: `KeepsPromise`, that is, `MoverSpec` implements `Delivery`. Bytes
  in custody are given up only for files whose copy on Drive was verified, a file
  is reported moved only when nothing of it is left, and nothing comes to Drive
  that was not in custody;
- `DeliveryInvariant`: `DeliveryInv`, from which it follows;
- `MoverTypes`: `MoverTypeOK`.

The permission to delete does not carry the argument alone: a deletion is one
step, the record of it another, and what happens to the bytes in between has to
be known. `DeliveryInv` adds to the invariant of `MoverProofs` where bytes may
lie (`StagingOK`: copies only in directories of planned batches, below the root
of their task; `CacheOK`: a file that is finished or may be deleted has no
`.part` file), that an upload which may still commit is one of a file in custody
or on Drive already (`LateOK`), that the directory of a batch is recorded as
deleted after its local copies (`RowsOK`), and what each line relies on (`Hand`:
the local copy is gone at the line that records it as gone, nothing of the batch
is in its directory at the line that records the deletion of that, the root is
deleted only without directories in it, the file is in the cache at the line
that uploads it). Each step of the program is then one of the six steps of
`Delivery` or a stutter (`PromiseStep`). Most transactions verify nothing, withdraw no
verification and clean nothing (`Tame`), and lemma `CalmStep` settles them; the
others have a lemma each: the deletions and their records, the verification, the
writes to Drive, the writes to the cache and to the staging area, and a batch
that fails for good, which takes back the verification of files that are still
in the cache (`FailBatchCustody`).

Three more invariants of the program are proved there, each on top of the ones
before:

- `WatermarkInvariant`: `WatermarkInv`. `ReservationHolds` is not inductive,
  because admission is one step and the reservation another. `WatermarkInv` adds
  that a file in hand that is not yet reserved for still fits (`Admitted`), that
  what is on disk belongs to a file that is reserved for or failed for good
  (`Occupied`), and that no process works on a task with a file that failed for
  good (`Frozen`). A step of the program either reserves for nothing new and adds no
  byte (`Receding`) or is a step of the downloads about the file in hand
  (`Filling`). From it: `ReservationStays`, `WatermarkStays` (`WatermarkHolds`)
  and, under the hypothesis that there is one task, `CacheStaysBelow`
  (`CacheFits`): with two tasks it is false, as said above;
- `TidyInvariant`: `TidyInv`. A task is COMPLETED only after its root was deleted
  on Baidu and recorded so, but a batch that is staged once more makes that root
  again, and nobody would delete it twice. `TidyInv` says why this does not happen
  to a released root: it is released only when all files of the task are DONE
  (`Released`), DONE is left only for a batch that fails for good, which needs a
  file that is not DONE, and at every line of the staging executor that makes a
  directory some file of the task is still to be moved (`Unfinished`). From it:
  `CompletionIsTidy` (`NothingLeftBehind`);
- `StandingInvariant`: `StandingInv`. Between the test that leads to a line and
  the transaction that is issued there lie external calls and other
  transactions; `Standing` says what of the test still holds at the line. It has
  one part per stage: the task in hand can be resumed, and its manifest is
  complete once the scan is over (`TaskStanding`); the batch in hand has still the
  rows its cleanup found, and its directory is gone where that is recorded
  (`CleanupStanding`); the folders are recorded where files are uploaded, and the
  row of the file in hand still offers it (`DriveStanding`); the batch in hand is
  one that the executor stages, and all of it is confirmed where it is completed
  (`StageStanding`). From it: `ChecksHold` (`NeverRefused`), so that this program
  takes one error path of the store only, whatever crashed or failed before: a page
  of the manifest is refused, and only when it does not agree with the rows of the
  pages before it; and
  `CleanedStaysGone` (`OnlyRestagingReturns`): what is recorded as cleaned is gone
  when the record is made, and of all that can write to Baidu or the cache later
  only `EnsureStagingDirectory` brings a cleaned object back, for a batch that is
  not recorded as STAGED. The exception is real: `restage` reaches it.

`PlannerProofs` proves that both planning loops compute the plan that the
declarative definition describes, and that there is only one:

- `PlanIsUnique`: two partitions into batches that satisfy `IsPlan` are equal;
- `BoundedPlanIsPlan`, `ChunkedPlanIsPlan`: what `PlanBatchesBounded` and
  `PlanBatches` compute is such a plan, for any files, directories, sizes and
  bounds;
- `AmplePlansAgree`: where the byte bound cannot bind, both compute the same, so
  the batches, and with them their content-derived identifiers, are the same.

They assume only `PlannerAssumption`: finitely many files, ranks that differ, and
that the files of a directory are next to each other in the order of the query.
The functions are recursive over sets, and induction over data is not available
to the prover. Instead each lemma takes a smallest counterexample: a set of files
that is least among those for which the claim fails (`MinimalSubset`) or a least
number (`LeastNat`), and unfolds the recursion once. `PlanningProofs` carries the
results to the runs: `PlannerMeetsReference` (`PlannerIsPlan`) and
`PlannersAlwaysAgree` (`PlannersAgree`).

The proof modules above concern the system as a whole and the planner; the others
prove, of each engine, every invariant and action property that the runs check of
it.

`ProcessProofs`, for any number of processes, tasks and starts: `LockIsExclusive`,
`ArmingHolds`, `LossNeedsTheRace` and `LifeTypes`, under `OpenFilesPinned`. The
invariant `LifeInv` says what the pinning is for: a file that a process has open
is the one that has its name now (so two locks on one name are two locks on one
file); what a process that removes the tree still has on its list, it may
remove, because whoever holds the lock took it after that one released it, which
is what `raced` records; and while the lock is held only its holder writes the
database, so that what armed the removal stays true.

`TransferProofs`, for any length of the batch and any number of attempts and
stagings: `SplittingForgetsNothing` and `BlameNeedsACause`. `TransferInv` says that
the chunks cover what is missing, and that, as long as nothing came late, they
are disjoint and hold only what is not there yet, so that a conflict of a chunk
of one file has its cause in that file. The lemma `SplitCovers` is about the
split of any chunk into parts of any size: every file is in one part, and the
parts are disjoint. `BudgetIsFinite` proves `BudgetShrinks`: a chunk of n files is
worth 2n - 1 retry budgets, and every call that is followed by another one uses
up some of what the chunks are worth together and leaves some. It needs that no
chunk is empty (`BudgetInv`), because an empty one would be worth less than
nothing, and this is where the sizes of the parts matter: a chunk of more than
one file is split into at least two parts and none is empty (`SplitParts`), since
the ranks of n files are all of 0, ..., n - 1 (`RanksAreAll`). A staging of n
files therefore makes at most `MaxAttempts * (2n - 1)` calls.

`EngineProofs`, for files of any length and any number of attempts and runs:
`ReadyMeansVerified`, `ResumingNeverDamages` and `FailureNeedsALie`.
`DownloadInv` says what has been verified at each line between the check and the
record, and that a mismatch in hand has a lie behind it.

For any rows and any number of openings of the database: `AllOrNothing` and
`RepairIsNarrow`. `MigrationInv` gives the database that each statement leaves
(`Between`) in terms of the one in the beginning, and that what is on disk is the
one in the beginning or the migrated one (`Settled`); every `Begin` and every
crash goes back to one of the two.

For any share, pages of any size and any number of changes of its owner:
`CompleteScansAreWhole` (`OnlyGapsHide`). `ScanInv` relates the pages that were
read to the listing as it is now: as long as nothing was removed or moved and no
page was short, every entry that has been there since the walk began is in the
manifest already or still listed behind what was read of its directory
(`WalkCovers`). A new entry moves the others to later places, never to earlier
ones; only a removal or a change of place brings one to a page that was read, and
only a short page lets the walk pass over one.

`EnginesInvariant` and `EnginesTypes` (`EnginesTypeOK`) are about the four engines
side by side, as the run `engines` has them: a step of one leaves the invariants
of the others alone.

The assumptions are those of the modules, `LifecycleAssumption`,
`TransferAssumption`, `DownloadAssumption`, `ScanAssumption`, `MigrationAssumption`
and `PlanningAssumption`: types of the constants, a batch that is not empty, at
least one attempt, at least one question for the extraction code.

Only model-checked: liveness (`Converges`, `TransferEnds`, `DownloadEnds`,
`ScanEnds`), which is out of the reach of the prover. Every invariant and every
action property of a passing run is proved. `CleanedIsGone` and the other properties of the `violation` runs are no
theorems: the runs refute them; what remains true of the first is `OnlyRestagingReturns`. The types of the
processes (`LifeTypes`) are proved and not checked by a run of their own.

## What is not modelled

- the text of links, pages, cookies, log lines and messages, and with it the
  checks of the text of paths and the parsing of the share page;
- HTTP requests and the bounded retries of reads below the calls that the models
  have (`baidu/client.go`, `retry.go`): they change no state but the number of
  requests, and what is left after them is one of the answers the models let
  happen. The choice between a transfer and a copy of one's own files, which have
  the same effects and the same classes of answers;
- the content of files beyond right and wrong;
- objects of others in the staging area or on Drive; the checks for symlinks and
  for paths that leave `./temp/`, which are about the file system of the moment and
  not about the order of steps;
- the browser login, and the provisioning and authorisation of rclone: they drive
  external programs, and their result is a cookie string or a working remote;
- the `lsjson` and `copyto` calls of rclone below the effect they have on Drive.
  The bound on replays of an upload is the bound on faults in `Mover`;
- timestamps, retry counters, the text of errors; `MaxBatches` and `MaxPasses`.

## Plan

Done: `Lifecycle`, `Planner`, `Store`, `Delivery`, `Mover` with its refinements,
`ProcessLifecycle`, `TransferEngine`, `DownloadEngine`, `ShareScan` and `Migration`,
and proofs of all safety and action properties that the passing runs check.

Next, in this order:

1. `DriveUpload`: replays and late commits with the bound on attempts, inside the
   lines `drive.copy` and `drive.reconcile` of `Mover`;
2. the reads of the client with bounded retries and their deadlines, if they come
   to change what the engines see.
