-------------------------- MODULE ProcessLifecycle --------------------------
(***************************************************************************)
(* What main does around the work: the runtime tree ./temp/, the instance  *)
(* lock, the database, the check for unfinished tasks, and the deferred    *)
(* calls that close everything, in the opposite order, and may remove the  *)
(* tree when the lock has been released.                                   *)
(*                                                                         *)
(* Several processes are started in one folder, and each may die at any    *)
(* line.  An entry of the tree is a name and the number of times it was    *)
(* created, so that an open file and the file that now has its name can be *)
(* different.  Mover is what one process does at the line "run"; here that *)
(* is a task that is created, gets verified bytes in the cache, completes. *)
(***************************************************************************)
EXTENDS Naturals, Sequences, FiniteSets

CONSTANTS Process,         \* processes started in the folder
          Job,             \* tasks
          NoJob,           \* no task
          OpenFilesPinned, \* an open file cannot be deleted (Windows)
          MaxLaunches      \* bound on the number of starts

ASSUME LifecycleAssumption ==
  /\ NoJob \notin Job
  /\ OpenFilesPinned \in BOOLEAN
  /\ MaxLaunches \in Nat

VARIABLES
  pc,        \* the line of each process
  fd,        \* its open files: the creation number, 0 when closed
  job,       \* the task it works on
  armed,     \* removeRuntimeOnReturn
  todo,      \* what ReadDir returned and is not yet removed
  temp,      \* the directory ./temp/ exists
  present,   \* the entries in it
  made,      \* how often each entry was created
  rows,      \* the rows of every state.db ever created
  cached,    \* tasks whose verified bytes are in ./temp/cache/
  launches,  \* starts so far
  unfinished, raced   \* history: tasks not completed; a lock taken too early

process == <<pc, fd, job, armed, todo>>
tree    == <<temp, present, made, rows, cached>>
history == <<unfinished, raced>>
lifeVars == <<process, tree, launches, history>>

Entry == {"cache", "instance.lock", "logs", "state.db"}
OpenEntry == Entry \ {"cache"}   \* the entries a process keeps open
Progress == {"none", "open", "ready", "completed"}
NewDatabase == [t \in Job |-> "none"]

(* os.ReadDir sorts by name.                                               *)
Position == [n \in Entry |-> CASE n = "cache" -> 1 [] n = "instance.lock" -> 2
                               [] n = "logs" -> 3 [] OTHER -> 4]

Line == {"idle", "ensure", "open", "lock", "log", "db", "choose", "run", "arm",
         "close.db", "close.log", "unlock", "list", "remove", "rmdir"}
Holding  == {"log", "db", "choose", "run", "arm", "close.db", "close.log", "unlock"}
Removing == {"list", "remove", "rmdir"}

LifeInit ==
  /\ pc = [p \in Process |-> "idle"]
  /\ fd = [p \in Process |-> [n \in OpenEntry |-> 0]]
  /\ job = [p \in Process |-> NoJob]
  /\ armed = [p \in Process |-> FALSE]
  /\ todo = [p \in Process |-> {}]
  /\ temp = FALSE /\ present = {} /\ made = [n \in Entry |-> 0]
  /\ rows = <<>> /\ cached = {} /\ launches = 0
  /\ unfinished = {} /\ raced = FALSE

----------------------------------------------------------------------------
(* The pieces *)

Move(p, from, to) == pc[p] = from /\ pc' = [pc EXCEPT ![p] = to]
KeepProcess == UNCHANGED <<fd, job, armed, todo>>

(* The process ends: the system closes its files and frees its lock.       *)
End(p) ==
  /\ pc' = [pc EXCEPT ![p] = "idle"]
  /\ fd' = [fd EXCEPT ![p] = [n \in OpenEntry |-> 0]]
  /\ job' = [job EXCEPT ![p] = NoJob]
  /\ armed' = [armed EXCEPT ![p] = FALSE]
  /\ todo' = [todo EXCEPT ![p] = {}]

(* O_CREATE and MkdirAll: an entry that exists is kept.                    *)
Create(S) ==
  /\ present' = present \cup S
  /\ made' = [n \in Entry |-> IF n \in S \ present THEN made[n] + 1 ELSE made[n]]

(* Mutation: an error of the lock call is not looked at.                   *)
LockIgnored(p) == TRUE
(* The lock is one of the file, whatever name the file now has.            *)
LockFree(p) ==
  \A q \in Process \ {p} :
    pc[q] \in Holding => fd[q]["instance.lock"] # fd[p]["instance.lock"]

(* Mutation: the lock file is opened so that others may delete it.         *)
PinnedButLock(n) ==
  /\ OpenFilesPinned
  /\ n \in {"logs", "state.db"}
  /\ \E q \in Process : fd[q][n] = made[n]
Pinned(n) ==
  /\ OpenFilesPinned
  /\ n \in OpenEntry
  /\ \E q \in Process : fd[q][n] = made[n]

Db(p) == fd[p]["state.db"]
ProgressOf(p, t) == rows[Db(p)][t]

(* Mutation: only the task of this run is looked at.                       *)
OwnJobUnfinished(p) == job[p] \in Job /\ ProgressOf(p, job[p]) # "completed"
HasNonCompletedTasks(p) ==
  \E t \in Job : ProgressOf(p, t) \notin {"none", "completed"}

----------------------------------------------------------------------------
(* The start *)

Launch(p) ==
  /\ Move(p, "idle", "ensure") /\ launches < MaxLaunches
  /\ launches' = launches + 1
  /\ KeepProcess /\ UNCHANGED <<tree, history>>

Ensure(p) ==
  /\ Move(p, "ensure", "open")
  /\ temp' = TRUE /\ Create({"cache", "logs"})
  /\ KeepProcess /\ UNCHANGED <<rows, cached, launches, history>>

(* OpenTempFile: the directory must exist, a missing file is created.      *)
OpenFile(p, n, from, to) ==
  /\ Move(p, from, to) /\ temp /\ Create({n})
  /\ fd' = [fd EXCEPT ![p] = [@ EXCEPT ![n] = made'[n]]]
  /\ UNCHANGED <<job, armed, todo, temp, cached, launches>>

OpenLockFile(p) == OpenFile(p, "instance.lock", "open", "lock") /\ UNCHANGED <<rows, history>>

(* flock or LockFileEx, without waiting.                                   *)
TryLock(p) ==
  /\ Move(p, "lock", "log") /\ LockFree(p)
  /\ raced' = (raced \/ \E q \in Process : pc[q] \in Removing)
  /\ KeepProcess /\ UNCHANGED <<tree, launches, unfinished>>

OpenLog(p) == OpenFile(p, "logs", "log", "db") /\ "logs" \in present /\ UNCHANGED <<rows, history>>

(* state.Open: a missing database is created and migrated.                 *)
OpenStore(p) ==
  /\ OpenFile(p, "state.db", "db", "choose")
  /\ rows' = IF "state.db" \in present THEN rows ELSE Append(rows, NewDatabase)
  /\ UNCHANGED history

(* Nothing is armed yet, so a failed start closes what is open and ends.   *)
StartFails(p) ==
  /\ \/ pc[p] \in {"open", "db"} /\ ~temp
     \/ pc[p] = "lock" /\ ~LockFree(p)
     \/ pc[p] = "log" /\ "logs" \notin present
  /\ End(p) /\ UNCHANGED <<tree, launches, history>>

----------------------------------------------------------------------------
(* The work: a new task or an unfinished one, or a diagnostic mode *)

SetProgress(p, t, s) == rows' = [rows EXCEPT ![Db(p)] = [@ EXCEPT ![t] = s]]

NewTask(p, t) ==
  /\ Move(p, "choose", "run") /\ ProgressOf(p, t) = "none" /\ t \notin unfinished
  /\ SetProgress(p, t, "open")
  /\ job' = [job EXCEPT ![p] = t] /\ unfinished' = unfinished \cup {t}
  /\ UNCHANGED <<fd, armed, todo, temp, present, made, cached, launches, raced>>
Resume(p, t) ==
  /\ Move(p, "choose", "run") /\ ProgressOf(p, t) \in {"open", "ready"}
  /\ job' = [job EXCEPT ![p] = t]
  /\ UNCHANGED <<fd, armed, todo, tree, launches, history>>
(* Mutation: a diagnostic run removes the tree it may have created.        *)
DiagnoseAndRemove(p) ==
  /\ Move(p, "choose", "close.db") /\ armed' = [armed EXCEPT ![p] = TRUE]
  /\ UNCHANGED <<fd, job, todo, tree, launches, history>>
(* -check, and -list, end with the check for unfinished tasks.             *)
Diagnose(p) ==
  /\ Move(p, "choose", "arm") /\ KeepProcess /\ UNCHANGED <<tree, launches, history>>

(* The download engine makes its directory and records verified bytes.     *)
Download(p) ==
  /\ pc[p] = "run" /\ ProgressOf(p, job[p]) = "open"
  /\ temp' = TRUE /\ Create({"cache"})
  /\ SetProgress(p, job[p], "ready") /\ cached' = cached \cup {job[p]}
  /\ UNCHANGED <<process, launches, history>>
(* The pipeline cleaned up and wrote COMPLETED.                            *)
CompleteTask(p) ==
  /\ Move(p, "run", "arm") /\ ProgressOf(p, job[p]) = "ready" /\ job[p] \in cached
  /\ SetProgress(p, job[p], "completed") /\ cached' = cached \ {job[p]}
  /\ unfinished' = unfinished \ {job[p]}
  /\ KeepProcess /\ UNCHANGED <<temp, present, made, launches, raced>>
(* An interruption, an error, or -scan-only: the removal is not armed.     *)
Pause(p) ==
  /\ pc[p] \in {"choose", "run", "arm"} /\ pc' = [pc EXCEPT ![p] = "close.db"]
  /\ KeepProcess /\ UNCHANGED <<tree, launches, history>>

ArmRuntimeCleanupIfSafe(p) ==
  /\ Move(p, "arm", "close.db")
  /\ armed' = [armed EXCEPT ![p] = ~HasNonCompletedTasks(p)]
  /\ UNCHANGED <<fd, job, todo, tree, launches, history>>

----------------------------------------------------------------------------
(* The deferred calls *)

(* An error of a Close keeps the tree.                                     *)
Close(p, n, from, to) ==
  /\ Move(p, from, to)
  /\ fd' = [fd EXCEPT ![p] = [@ EXCEPT ![n] = 0]]
  /\ \/ UNCHANGED armed
     \/ armed' = [armed EXCEPT ![p] = FALSE]
  /\ UNCHANGED <<job, todo, tree, launches, history>>
CloseAll(p) ==
  \/ Close(p, "state.db", "close.db", "close.log")
  \/ Close(p, "logs", "close.log", "unlock")
  \/ Close(p, "instance.lock", "unlock", "list")

(* RemoveRuntimeRoot.                                                      *)
ListRoot(p) ==
  /\ Move(p, "list", "remove") /\ armed[p] /\ temp
  /\ todo' = [todo EXCEPT ![p] = present]
  /\ UNCHANGED <<fd, job, armed, tree, launches, history>>
SkipRemoval(p) ==
  /\ pc[p] = "list" /\ (~armed[p] \/ ~temp)
  /\ End(p) /\ UNCHANGED <<tree, launches, history>>

FirstOf(S) == CHOOSE n \in S : \A m \in S : Position[n] <= Position[m]

(* SafeRemoveAll of one name of the list, whatever has that name now.      *)
RemoveChild(p) ==
  LET n == FirstOf(todo[p]) IN
  /\ pc[p] = "remove" /\ todo[p] # {} /\ ~Pinned(n)
  /\ present' = present \ {n}
  /\ cached' = IF n = "cache" THEN {} ELSE cached
  /\ todo' = [todo EXCEPT ![p] = @ \ {n}]
  /\ UNCHANGED <<pc, fd, job, armed, temp, made, rows, launches, history>>
ChildrenRemoved(p) ==
  /\ Move(p, "remove", "rmdir") /\ todo[p] = {}
  /\ KeepProcess /\ UNCHANGED <<tree, launches, history>>
RemovalFails(p) ==
  /\ \/ pc[p] = "remove" /\ todo[p] # {} /\ Pinned(FirstOf(todo[p]))
     \/ pc[p] = "rmdir" /\ present # {}
  /\ End(p) /\ UNCHANGED <<tree, launches, history>>
RemoveRoot(p) ==
  /\ pc[p] = "rmdir" /\ present = {}
  /\ temp' = FALSE
  /\ End(p) /\ UNCHANGED <<present, made, rows, cached, launches, history>>

(* The process is killed, or the machine stops.                            *)
Crash(p) ==
  /\ pc[p] # "idle"
  /\ End(p) /\ UNCHANGED <<tree, launches, history>>

----------------------------------------------------------------------------

Start(p) == Launch(p) \/ Ensure(p) \/ OpenLockFile(p) \/ TryLock(p) \/ OpenLog(p)
            \/ OpenStore(p) \/ StartFails(p)
Work(p) == \/ \E t \in Job : NewTask(p, t) \/ Resume(p, t)
           \/ Diagnose(p) \/ Download(p) \/ CompleteTask(p) \/ Pause(p)
           \/ ArmRuntimeCleanupIfSafe(p)
Finish(p) == CloseAll(p) \/ ListRoot(p) \/ SkipRemoval(p) \/ RemoveChild(p)
             \/ ChildrenRemoved(p) \/ RemovalFails(p) \/ RemoveRoot(p)
LifeNext == \E p \in Process : Start(p) \/ Work(p) \/ Finish(p) \/ Crash(p)
LifeSpec == LifeInit /\ [][LifeNext]_lifeVars

----------------------------------------------------------------------------
(* Properties *)

(* The variables have their types.                                         *)
LifeTypeOK ==
  /\ pc \in [Process -> Line]
  /\ fd \in [Process -> [OpenEntry -> Nat]]
  /\ job \in [Process -> Job \cup {NoJob}]
  /\ armed \in [Process -> BOOLEAN]
  /\ todo \in [Process -> SUBSET Entry]
  /\ temp \in BOOLEAN /\ present \subseteq Entry /\ made \in [Entry -> Nat]
  /\ rows \in Seq([Job -> Progress]) /\ Len(rows) = made["state.db"]
  /\ cached \subseteq Job /\ launches \in 0 .. MaxLaunches
  /\ unfinished \subseteq Job /\ raced \in BOOLEAN

(* InstanceLock: no two processes are between the lock and its release,    *)
(* although a third one may be deleting the file the lock is on.           *)
InstancesExclude ==
  \A p, q \in Process : pc[p] \in Holding /\ pc[q] \in Holding => p = q

(* armRuntimeCleanupIfSafe is a check made long before it is used: as long *)
(* as the lock is held, what it found is still so.                         *)
ArmedIsCurrent ==
  \A p \in Process : pc[p] \in Holding /\ armed[p] =>
    \A t \in Job : rows[made["state.db"]][t] \in {"none", "completed"}

(* An unfinished task can be resumed: it is in the database that the next  *)
(* process will open, and the bytes recorded there are in the cache.       *)
UnfinishedKept ==
  \A t \in unfinished :
    /\ "state.db" \in present
    /\ rows[made["state.db"]][t] \in {"open", "ready"}
    /\ rows[made["state.db"]][t] = "ready" => t \in cached

(* The one way to lose an unfinished task is a process that takes the lock *)
(* while another, which released it, removes the tree.                     *)
OnlyTheRaceLoses == raced \/ UnfinishedKept
=============================================================================
