--------------------------- MODULE ProcessProofs ---------------------------
(***************************************************************************)
(* Proofs about ProcessLifecycle, for any number of processes and tasks.   *)
(*                                                                         *)
(* The lock is one of a file, and the file is in the tree that a process   *)
(* removes when it ends.  It excludes other processes for the reason that  *)
(* an open file keeps its name on the system the program is built for:     *)
(* what a process has open is the file that now has that name.             *)
(***************************************************************************)
EXTENDS ProcessLifecycle, SequenceTheorems, TLAPS

(* What a process has open is in the tree, under its own name.             *)
OpenIsCurrent ==
  \A p \in Process, n \in OpenEntry :
    fd[p][n] # 0 => n \in present /\ fd[p][n] = made[n]

(* Which files are open at which lines.                                    *)
OpenAtLine ==
  /\ \A n \in present : made[n] # 0
  /\ \A p \in Process :
       /\ pc[p] \in Holding \cup {"lock"} => fd[p]["instance.lock"] # 0
       /\ pc[p] \in {"choose", "run", "arm", "close.db"} => fd[p]["state.db"] # 0
       /\ pc[p] = "run" => job[p] \in Job

FilesInv == LifeTypeOK /\ OpenIsCurrent /\ OpenAtLine

(* The removal is armed after the work, and only an armed one deletes.     *)
ArmedLate ==
  \A p \in Process :
    /\ armed[p] => pc[p] \in {"close.db", "close.log", "unlock"} \cup Removing
    /\ pc[p] \in {"remove", "rmdir"} => armed[p]

(* As long as nobody took the lock during a removal, nobody works while a  *)
(* tree is removed, and nothing is unfinished then.                        *)
RemovalAlone ==
  ~raced => \A p \in Process : pc[p] \in Removing =>
              /\ \A q \in Process : pc[q] \notin Holding
              /\ armed[p] => unfinished = {}

LifeInv ==
  /\ FilesInv
  /\ InstancesExclude
  /\ ArmedLate
  /\ ArmedIsCurrent
  /\ RemovalAlone
  /\ OnlyTheRaceLoses

----------------------------------------------------------------------------
(* Types *)

(* Types of the pieces.                                                    *)
LEMMA EndTypes ==
  ASSUME LifeTypeOK, NEW p \in Process, End(p)
  PROVE  /\ pc' \in [Process -> Line]
         /\ fd' \in [Process -> [OpenEntry -> Nat]]
         /\ job' \in [Process -> Job \cup {NoJob}]
         /\ armed' \in [Process -> BOOLEAN]
         /\ todo' \in [Process -> SUBSET Entry]
BY DEF LifeTypeOK, End, Line

LEMMA CreateTypes ==
  ASSUME LifeTypeOK, NEW S \in SUBSET Entry, Create(S)
  PROVE  present' \in SUBSET Entry /\ made' \in [Entry -> Nat]
BY DEF LifeTypeOK, Create

LEMMA OpenTypes ==
  ASSUME LifeTypeOK, NEW p \in Process, NEW n \in OpenEntry, NEW from, NEW to \in Line,
         OpenFile(p, n, from, to)
  PROVE  /\ pc' \in [Process -> Line]
         /\ fd' \in [Process -> [OpenEntry -> Nat]]
         /\ present' \in SUBSET Entry /\ made' \in [Entry -> Nat]
         /\ UNCHANGED <<job, armed, todo, temp, cached, launches>>
         /\ made' = [m \in Entry |-> IF m \in {n} \ present THEN made[m] + 1 ELSE made[m]]
<1>1. n \in Entry
  BY DEF OpenEntry
<1>2. present' \in SUBSET Entry /\ made' \in [Entry -> Nat]
  BY <1>1, CreateTypes DEF OpenFile
<1>3. fd' = [fd EXCEPT ![p] = [@ EXCEPT ![n] = made'[n]]] /\ made'[n] \in Nat
  BY <1>1, <1>2 DEF OpenFile
<1>4. fd' \in [Process -> [OpenEntry -> Nat]]
  BY <1>3 DEF LifeTypeOK
<1> QED
  BY <1>2, <1>4 DEF OpenFile, Move, Create, LifeTypeOK

LEMMA ProgressTypes ==
  ASSUME LifeTypeOK, NEW p \in Process, NEW t \in Job, NEW s \in Progress, SetProgress(p, t, s)
  PROVE  rows' \in Seq([Job -> Progress]) /\ Len(rows') = Len(rows)
<1>1. rows \in Seq([Job -> Progress])
  BY DEF LifeTypeOK
<1>2. rows' = [rows EXCEPT ![Db(p)] = [rows[Db(p)] EXCEPT ![t] = s]]
  BY DEF SetProgress
<1>3. CASE Db(p) \in 1 .. Len(rows)
  <2>1. rows[Db(p)] \in [Job -> Progress]
    BY <1>1, <1>3
  <2>2. [rows[Db(p)] EXCEPT ![t] = s] \in [Job -> Progress]
    BY <2>1
  <2> QED
    BY <1>1, <1>2, <1>3, <2>2, ExceptSeq
<1>4. CASE Db(p) \notin 1 .. Len(rows)
  <2>1. rows' = rows
    BY <1>1, <1>2, <1>4
  <2> QED
    BY <1>1, <2>1
<1> QED
  BY <1>3, <1>4

(* Every action keeps the types; in this section the goal of each step of  *)
(* a proof is the type invariant, or what it says of the variables that    *)
(* the action assigns.                                                     *)
LEMMA LifeTypeStep == LifeTypeOK /\ OpenAtLine /\ LifeNext => LifeTypeOK'
<1> SUFFICES ASSUME LifeTypeOK, OpenAtLine, LifeNext PROVE LifeTypeOK'
  OBVIOUS
<1> USE DEF Move, KeepProcess, process, tree, history
<1>1. ASSUME NEW p \in Process, Launch(p) PROVE LifeTypeOK'
  BY <1>1, LifecycleAssumption DEF Launch, LifeTypeOK, Line
<1>2. ASSUME NEW p \in Process, Ensure(p) PROVE LifeTypeOK'
  <2>1. {"cache", "logs"} \in SUBSET Entry /\ Create({"cache", "logs"})
    BY <1>2 DEF Ensure, Entry
  <2>2. present' \in SUBSET Entry /\ made' \in [Entry -> Nat]
    BY <2>1, CreateTypes
  <2>3. made'["state.db"] = made["state.db"]
    BY <2>1 DEF Create, Entry
  <2> QED
    BY <1>2, <2>2, <2>3 DEF Ensure, LifeTypeOK, Line
<1>3. ASSUME NEW p \in Process, OpenLockFile(p) PROVE LifeTypeOK'
  <2>1. OpenFile(p, "instance.lock", "open", "lock") /\ UNCHANGED <<rows, history>>
    BY <1>3 DEF OpenLockFile
  <2>2. "instance.lock" \in OpenEntry /\ "lock" \in Line
    BY DEF OpenEntry, Entry, Line
  <2>3. made'["state.db"] = made["state.db"]
    BY <2>1, <2>2, OpenTypes DEF Entry
  <2> QED
    BY <2>1, <2>2, <2>3, OpenTypes DEF LifeTypeOK
<1>4. ASSUME NEW p \in Process, TryLock(p) PROVE LifeTypeOK'
  BY <1>4 DEF TryLock, LifeTypeOK, Line
<1>5. ASSUME NEW p \in Process, OpenLog(p) PROVE LifeTypeOK'
  <2>1. OpenFile(p, "logs", "log", "db") /\ UNCHANGED <<rows, history>>
    BY <1>5 DEF OpenLog
  <2>2. "logs" \in OpenEntry /\ "db" \in Line
    BY DEF OpenEntry, Entry, Line
  <2>3. made'["state.db"] = made["state.db"]
    BY <2>1, <2>2, OpenTypes DEF Entry
  <2> QED
    BY <2>1, <2>2, <2>3, OpenTypes DEF LifeTypeOK
<1>6. ASSUME NEW p \in Process, OpenStore(p) PROVE LifeTypeOK'
  <2>1. /\ OpenFile(p, "state.db", "db", "choose") /\ UNCHANGED history
        /\ rows' = IF "state.db" \in present THEN rows ELSE Append(rows, NewDatabase)
    BY <1>6 DEF OpenStore
  <2>2. "state.db" \in OpenEntry /\ "choose" \in Line /\ "state.db" \in Entry
    BY DEF OpenEntry, Entry, Line
  <2>3. made'["state.db"] = IF "state.db" \in present THEN made["state.db"] ELSE made["state.db"] + 1
    BY <2>1, <2>2, OpenTypes
  <2>4. NewDatabase \in [Job -> Progress]
    BY DEF NewDatabase, Progress
  <2>5. rows' \in Seq([Job -> Progress]) /\ Len(rows') = made'["state.db"]
    BY <2>1, <2>3, <2>4, AppendProperties DEF LifeTypeOK
  <2> QED
    BY <2>1, <2>2, <2>5, OpenTypes DEF LifeTypeOK
<1>7. ASSUME NEW p \in Process, StartFails(p) PROVE LifeTypeOK'
  BY <1>7, EndTypes DEF StartFails, LifeTypeOK
<1>8. ASSUME NEW p \in Process, NEW t \in Job, NewTask(p, t) PROVE LifeTypeOK'
  <2>1. rows' \in Seq([Job -> Progress]) /\ Len(rows') = Len(rows)
    BY <1>8, ProgressTypes DEF NewTask, Progress
  <2> QED
    BY <1>8, <2>1 DEF NewTask, LifeTypeOK, Line
<1>9. ASSUME NEW p \in Process, NEW t \in Job, Resume(p, t) PROVE LifeTypeOK'
  BY <1>9 DEF Resume, LifeTypeOK, Line
<1>10. ASSUME NEW p \in Process, Diagnose(p) PROVE LifeTypeOK'
  BY <1>10 DEF Diagnose, LifeTypeOK, Line
<1>11. ASSUME NEW p \in Process, Download(p) \/ CompleteTask(p) PROVE LifeTypeOK'
  <2>1. pc[p] = "run" /\ job[p] \in Job
    BY <1>11 DEF Download, CompleteTask, OpenAtLine
  <2>2. rows' \in Seq([Job -> Progress]) /\ Len(rows') = Len(rows)
    BY <1>11, <2>1, ProgressTypes DEF Download, CompleteTask, Progress
  <2>3. CASE Download(p)
    <3>1. {"cache"} \in SUBSET Entry /\ Create({"cache"})
      BY <2>3 DEF Download, Entry
    <3>2. present' \in SUBSET Entry /\ made' \in [Entry -> Nat]
      BY <3>1, CreateTypes
    <3>3. made'["state.db"] = made["state.db"]
      BY <3>1 DEF Create, Entry
    <3> QED
      BY <2>1, <2>2, <2>3, <3>2, <3>3 DEF Download, LifeTypeOK
  <2>4. CASE CompleteTask(p)
    BY <2>1, <2>2, <2>4 DEF CompleteTask, LifeTypeOK, Line
  <2> QED
    BY <1>11, <2>3, <2>4
<1>12. ASSUME NEW p \in Process, Pause(p) PROVE LifeTypeOK'
  BY <1>12 DEF Pause, LifeTypeOK, Line
<1>13. ASSUME NEW p \in Process, ArmRuntimeCleanupIfSafe(p) PROVE LifeTypeOK'
  <2>1. HasNonCompletedTasks(p) \in BOOLEAN
    BY DEF HasNonCompletedTasks
  <2> QED
    BY <1>13, <2>1 DEF ArmRuntimeCleanupIfSafe, LifeTypeOK, Line
<1>14. ASSUME NEW p \in Process, CloseAll(p) PROVE LifeTypeOK'
  <2>1. PICK n \in OpenEntry, to \in Line :
          /\ pc' = [pc EXCEPT ![p] = to] /\ fd' = [fd EXCEPT ![p] = [@ EXCEPT ![n] = 0]]
          /\ armed' = armed \/ armed' = [armed EXCEPT ![p] = FALSE]
          /\ UNCHANGED <<job, todo, tree, launches, history>>
    BY <1>14 DEF CloseAll, Close, Line, OpenEntry, Entry
  <2>2. fd' \in [Process -> [OpenEntry -> Nat]]
    BY <2>1 DEF LifeTypeOK
  <2> QED
    BY <2>1, <2>2 DEF LifeTypeOK
<1>15. ASSUME NEW p \in Process, ListRoot(p) PROVE LifeTypeOK'
  BY <1>15 DEF ListRoot, LifeTypeOK, Line
<1>16. ASSUME NEW p \in Process, SkipRemoval(p) PROVE LifeTypeOK'
  BY <1>16, EndTypes DEF SkipRemoval, LifeTypeOK
<1>17. ASSUME NEW p \in Process, RemoveChild(p) PROVE LifeTypeOK'
  <2> DEFINE n == FirstOf(todo[p])
  <2>1. /\ present' = present \ {n} /\ todo' = [todo EXCEPT ![p] = @ \ {n}]
        /\ cached' = {} \/ cached' = cached
        /\ UNCHANGED <<pc, fd, job, armed, temp, made, rows, launches, history>>
    BY <1>17 DEF RemoveChild
  <2> HIDE DEF n
  <2> QED
    BY <2>1 DEF LifeTypeOK
<1>18. ASSUME NEW p \in Process, ChildrenRemoved(p) PROVE LifeTypeOK'
  BY <1>18 DEF ChildrenRemoved, LifeTypeOK, Line
<1>19. ASSUME NEW p \in Process, RemovalFails(p) PROVE LifeTypeOK'
  BY <1>19, EndTypes DEF RemovalFails, LifeTypeOK
<1>20. ASSUME NEW p \in Process, RemoveRoot(p) PROVE LifeTypeOK'
  BY <1>20, EndTypes DEF RemoveRoot, LifeTypeOK
<1>21. ASSUME NEW p \in Process, Crash(p) PROVE LifeTypeOK'
  BY <1>21, EndTypes DEF Crash, LifeTypeOK
<1> QED
  BY <1>1, <1>2, <1>3, <1>4, <1>5, <1>6, <1>7, <1>8, <1>9, <1>10, <1>11, <1>12, <1>13, <1>14,
     <1>15, <1>16, <1>17, <1>18, <1>19, <1>20, <1>21 DEF LifeNext, Start, Work, Finish

----------------------------------------------------------------------------
(* Open files *)

(* Creating entries keeps every open file the one that has its name.       *)
LEMMA CreateKeepsOpen ==
  ASSUME FilesInv, NEW S \in SUBSET Entry, Create(S)
  PROVE  /\ \A n \in present' : made'[n] # 0
         /\ \A n \in S : n \in present'
         /\ \A q \in Process, n \in OpenEntry :
              fd[q][n] # 0 => n \in present' /\ fd[q][n] = made'[n]
<1>1. /\ present' = present \cup S
      /\ made' = [n \in Entry |-> IF n \in S \ present THEN made[n] + 1 ELSE made[n]]
      /\ made \in [Entry -> Nat] /\ present \subseteq Entry
  BY DEF Create, FilesInv, LifeTypeOK
<1>2. \A n \in present' : made'[n] # 0
  BY <1>1 DEF FilesInv, OpenAtLine
<1>3. \A q \in Process, n \in OpenEntry : fd[q][n] # 0 => n \in present /\ fd[q][n] = made[n]
  BY DEF FilesInv, OpenIsCurrent
<1>4. OpenEntry \subseteq Entry
  BY DEF OpenEntry
<1> QED
  BY <1>1, <1>2, <1>3, <1>4

(* Opening, or creating, one of the three files.                           *)
LEMMA OpenKeepsOpen ==
  ASSUME FilesInv, NEW p \in Process, NEW n \in OpenEntry, NEW from, NEW to,
         OpenFile(p, n, from, to)
  PROVE  OpenIsCurrent' /\ (\A m \in present' : made'[m] # 0) /\ fd'[p][n] # 0
         /\ \A q \in Process, m \in OpenEntry : fd[q][m] # 0 => fd'[q][m] # 0
<1>1. n \in Entry /\ {n} \in SUBSET Entry /\ Create({n})
  BY DEF OpenFile, OpenEntry
<1>2. fd \in [Process -> [OpenEntry -> Nat]] /\ fd' = [fd EXCEPT ![p] = [fd[p] EXCEPT ![n] = made'[n]]]
  BY DEF OpenFile, FilesInv, LifeTypeOK
<1>3. n \in present' /\ made'[n] # 0 /\ \A m \in present' : made'[m] # 0
  BY <1>1, CreateKeepsOpen
<1>4. \A q \in Process, m \in OpenEntry :
        fd'[q][m] = IF q = p /\ m = n THEN made'[n] ELSE fd[q][m]
  BY <1>2
<1>5. \A q \in Process, m \in OpenEntry : fd[q][m] # 0 => m \in present' /\ fd[q][m] = made'[m]
  BY <1>1, CreateKeepsOpen
<1> QED
  BY <1>3, <1>4, <1>5 DEF OpenIsCurrent

(* Every action keeps what the open files are, if they cannot be deleted.  *)
LEMMA FilesStep ==
  ASSUME OpenFilesPinned, FilesInv, LifeNext
  PROVE  FilesInv'
<1> USE DEF Move, KeepProcess, process, tree, history
<1> DEFINE Good == OpenIsCurrent' /\ OpenAtLine'
<1>0. LifeTypeOK /\ OpenIsCurrent /\ OpenAtLine
  BY DEF FilesInv
<1>1. ASSUME NEW p \in Process, UNCHANGED <<fd, present, made>>,
             NEW to, pc' = [pc EXCEPT ![p] = to],
             to \in Holding \cup {"lock"} => pc[p] \in Holding \cup {"lock"},
             to \in {"choose", "run", "arm", "close.db"} => pc[p] \in {"choose", "run", "arm", "close.db"},
             to = "run" => job'[p] \in Job,
             \A q \in Process \ {p} : job'[q] = job[q]
      PROVE  Good
  <2>1. OpenIsCurrent'
    BY <1>0, <1>1 DEF OpenIsCurrent
  <2>2. \A q \in Process : pc'[q] = IF q = p THEN to ELSE pc[q]
    BY <1>0, <1>1 DEF LifeTypeOK
  <2> QED
    BY <1>0, <1>1, <2>1, <2>2 DEF OpenAtLine
<1>2. ASSUME NEW p \in Process, End(p), UNCHANGED <<present, made>> PROVE Good
  <2>1. \A q \in Process : pc'[q] = IF q = p THEN "idle" ELSE pc[q]
    BY <1>0, <1>2 DEF End, LifeTypeOK
  <2>2. \A q \in Process : fd'[q] = IF q = p THEN [n \in OpenEntry |-> 0] ELSE fd[q]
    BY <1>0, <1>2 DEF End, LifeTypeOK
  <2>3. \A q \in Process \ {p} : job'[q] = job[q]
    BY <1>0, <1>2 DEF End, LifeTypeOK
  <2>4. OpenIsCurrent'
    BY <1>0, <1>2, <2>2 DEF OpenIsCurrent
  <2>5. OpenAtLine'
    BY <1>0, <1>2, <2>1, <2>2, <2>3 DEF OpenAtLine, Holding
  <2> QED
    BY <2>4, <2>5
<1>3. ASSUME NEW p \in Process, NEW S \in SUBSET Entry, Create(S), UNCHANGED <<fd, job>>,
             NEW to, pc' = [pc EXCEPT ![p] = to], to \in {"open", pc[p]}
      PROVE  Good
  <2>1. \A q \in Process : pc'[q] = IF q = p THEN to ELSE pc[q]
    BY <1>0, <1>3 DEF LifeTypeOK
  <2>2. /\ \A n \in present' : made'[n] # 0
        /\ \A q \in Process, n \in OpenEntry :
              fd[q][n] # 0 => n \in present' /\ fd[q][n] = made'[n]
    BY <1>3, CreateKeepsOpen
  <2> QED
    BY <1>0, <1>3, <2>1, <2>2 DEF OpenIsCurrent, OpenAtLine, Holding
<1>4. ASSUME NEW p \in Process, NEW n \in OpenEntry, NEW from, NEW to, OpenFile(p, n, from, to),
             <<n, from, to>> \in {<<"instance.lock", "open", "lock">>, <<"logs", "log", "db">>,
                                  <<"state.db", "db", "choose">>}
      PROVE  Good
  <2>1. \A q \in Process : pc'[q] = IF q = p THEN to ELSE pc[q]
    BY <1>0, <1>4 DEF OpenFile, LifeTypeOK
  <2>2. /\ OpenIsCurrent' /\ (\A m \in present' : made'[m] # 0) /\ fd'[p][n] # 0
        /\ \A q \in Process, m \in OpenEntry : fd[q][m] # 0 => fd'[q][m] # 0
    BY <1>4, OpenKeepsOpen
  <2>3. pc[p] = from /\ UNCHANGED job
    BY <1>4 DEF OpenFile
  <2>4. "instance.lock" \in OpenEntry /\ "state.db" \in OpenEntry
    BY DEF OpenEntry, Entry
  <2>5. \A q \in Process : pc'[q] \in Holding \cup {"lock"} => fd'[q]["instance.lock"] # 0
    BY <1>0, <1>4, <2>1, <2>2, <2>3, <2>4 DEF OpenAtLine, Holding
  <2>6. \A q \in Process :
          pc'[q] \in {"choose", "run", "arm", "close.db"} => fd'[q]["state.db"] # 0
    BY <1>0, <1>4, <2>1, <2>2, <2>3, <2>4 DEF OpenAtLine
  <2>7. \A q \in Process : pc'[q] = "run" => job'[q] \in Job
    BY <1>0, <1>4, <2>1, <2>3 DEF OpenAtLine
  <2> QED
    BY <2>2, <2>5, <2>6, <2>7 DEF OpenAtLine
<1>5. ASSUME NEW p \in Process, CloseAll(p) PROVE Good
  <2>1. PICK n \in OpenEntry, from \in Line, to \in Line :
          /\ <<n, from, to>> \in {<<"state.db", "close.db", "close.log">>,
                                  <<"logs", "close.log", "unlock">>,
                                  <<"instance.lock", "unlock", "list">>}
          /\ pc[p] = from /\ pc' = [pc EXCEPT ![p] = to]
          /\ fd' = [fd EXCEPT ![p] = [fd[p] EXCEPT ![n] = 0]]
          /\ UNCHANGED <<job, present, made>>
    BY <1>5 DEF CloseAll, Close, Line, OpenEntry, Entry
  <2>2. \A q \in Process : pc'[q] = IF q = p THEN to ELSE pc[q]
    BY <1>0, <2>1 DEF LifeTypeOK
  <2>3. \A q \in Process, m \in OpenEntry : fd'[q][m] = IF q = p /\ m = n THEN 0 ELSE fd[q][m]
    BY <1>0, <2>1 DEF LifeTypeOK
  <2>4. OpenIsCurrent'
    BY <1>0, <2>1, <2>3 DEF OpenIsCurrent
  <2>5. "instance.lock" \in OpenEntry /\ "state.db" \in OpenEntry
    BY DEF OpenEntry, Entry
  <2>6. \A q \in Process : pc'[q] \in Holding \cup {"lock"} => fd'[q]["instance.lock"] # 0
    BY <1>0, <2>1, <2>2, <2>3, <2>5 DEF OpenAtLine, Holding
  <2>7. \A q \in Process :
          pc'[q] \in {"choose", "run", "arm", "close.db"} => fd'[q]["state.db"] # 0
    BY <1>0, <2>1, <2>2, <2>3, <2>5 DEF OpenAtLine
  <2> QED
    BY <1>0, <2>1, <2>2, <2>4, <2>6, <2>7 DEF OpenAtLine
<1>6. ASSUME NEW p \in Process, RemoveChild(p) PROVE Good
  <2>1. PICK n : present' = present \ {n} /\ ~Pinned(n) /\ UNCHANGED <<pc, fd, job, made>>
    BY <1>6 DEF RemoveChild
  <2>2. \A q \in Process : n \in OpenEntry => fd[q][n] # made[n]
    BY <2>1 DEF Pinned
  <2> QED
    BY <1>0, <2>1, <2>2 DEF OpenIsCurrent, OpenAtLine
<1>7. ASSUME NEW p \in Process, Start(p) PROVE Good
  <2>1. CASE Launch(p) \/ TryLock(p)
    <3>1. PICK to \in {"ensure", "log"} :
            pc' = [pc EXCEPT ![p] = to] /\ (to = "log" => pc[p] = "lock")
      BY <2>1 DEF Launch, TryLock
    <3> QED
      BY <2>1, <3>1, <1>1 DEF Launch, TryLock, Holding
  <2>2. CASE Ensure(p)
    BY <2>2, <1>3 DEF Ensure, Entry
  <2>3. CASE OpenLockFile(p) \/ OpenLog(p) \/ OpenStore(p)
    BY <2>3, <1>4 DEF OpenLockFile, OpenLog, OpenStore, OpenEntry, Entry
  <2>4. CASE StartFails(p)
    BY <2>4, <1>2 DEF StartFails
  <2> QED
    BY <1>7, <2>1, <2>2, <2>3, <2>4 DEF Start
<1>8. ASSUME NEW p \in Process, Work(p) PROVE Good
  <2>1. CASE \E t \in Job : NewTask(p, t) \/ Resume(p, t)
    <3>1. job'[p] \in Job /\ (\A q \in Process \ {p} : job'[q] = job[q])
          /\ pc[p] = "choose" /\ pc' = [pc EXCEPT ![p] = "run"] /\ UNCHANGED <<fd, present, made>>
      BY <1>0, <2>1 DEF NewTask, Resume, LifeTypeOK
    <3> QED
      BY <3>1, <1>1 DEF Holding
  <2>2. CASE Diagnose(p) \/ CompleteTask(p) \/ Pause(p) \/ ArmRuntimeCleanupIfSafe(p)
    <3>1. PICK to \in {"arm", "close.db"} :
            /\ pc' = [pc EXCEPT ![p] = to] /\ pc[p] \in {"choose", "run", "arm"}
            /\ UNCHANGED <<fd, job, present, made>>
      BY <2>2 DEF Diagnose, CompleteTask, Pause, ArmRuntimeCleanupIfSafe
    <3> QED
      BY <3>1, <1>1 DEF Holding
  <2>3. CASE Download(p)
    <3>1. pc' = [pc EXCEPT ![p] = pc[p]]
      BY <1>0, <2>3 DEF Download, LifeTypeOK
    <3> QED
      BY <2>3, <3>1, <1>3 DEF Download, Entry
  <2> QED
    BY <1>8, <2>1, <2>2, <2>3 DEF Work
<1>9. ASSUME NEW p \in Process, Finish(p) \/ Crash(p) PROVE Good
  <2>1. CASE ListRoot(p) \/ ChildrenRemoved(p)
    <3>1. PICK to \in {"remove", "rmdir"} : pc' = [pc EXCEPT ![p] = to]
      BY <2>1 DEF ListRoot, ChildrenRemoved
    <3> QED
      BY <2>1, <3>1, <1>1 DEF ListRoot, ChildrenRemoved, Holding
  <2>2. CASE SkipRemoval(p) \/ RemovalFails(p) \/ RemoveRoot(p) \/ Crash(p)
    BY <2>2, <1>2 DEF SkipRemoval, RemovalFails, RemoveRoot, Crash
  <2> QED
    BY <1>5, <1>6, <1>9, <2>1, <2>2 DEF Finish
<1>10. LifeTypeOK'
  BY <1>0, LifeTypeStep
<1> QED
  BY <1>7, <1>8, <1>9, <1>10 DEF LifeNext, FilesInv

----------------------------------------------------------------------------
(* The lock *)

(* What one process does to the lines and to the shared state.             *)
LEMMA OwnStep ==
  ASSUME LifeTypeOK, NEW p \in Process, Start(p) \/ Work(p) \/ Finish(p) \/ Crash(p)
  PROVE  /\ \A q \in Process \ {p} : pc'[q] = pc[q] /\ armed'[q] = armed[q]
         /\ pc'[p] \in Holding => pc[p] \in Holding \/ TryLock(p)
         /\ pc'[p] \in Removing => pc[p] \in Removing \/ CloseAll(p)
         /\ pc[p] \notin Holding =>
              UNCHANGED <<rows, unfinished>> /\ made'["state.db"] = made["state.db"]
         /\ raced => raced'
<1> USE DEF Move, KeepProcess, process, tree, history
<1>0. OpenEntry \subseteq Entry /\ Entry = {"cache", "instance.lock", "logs", "state.db"}
  BY DEF OpenEntry, Entry
<1>1. CASE Launch(p) \/ TryLock(p) \/ ListRoot(p) \/ ChildrenRemoved(p) \/ RemoveChild(p)
  BY <1>1 DEF Launch, TryLock, ListRoot, ChildrenRemoved, RemoveChild, LifeTypeOK, Holding, Removing
<1>2. CASE StartFails(p) \/ SkipRemoval(p) \/ RemovalFails(p) \/ RemoveRoot(p) \/ Crash(p)
  BY <1>2 DEF StartFails, SkipRemoval, RemovalFails, RemoveRoot, Crash, End, LifeTypeOK, Holding,
     Removing
<1>3. CASE Ensure(p) \/ OpenLockFile(p)
  BY <1>0, <1>3 DEF Ensure, OpenLockFile, OpenFile, Create, LifeTypeOK, Holding, Removing
<1>4. CASE OpenLog(p) \/ OpenStore(p)
  BY <1>4 DEF OpenLog, OpenStore, OpenFile, LifeTypeOK, Holding, Removing
<1>5. CASE Work(p)
  <2>1. CASE Diagnose(p) \/ Download(p) \/ CompleteTask(p) \/ Pause(p) \/ ArmRuntimeCleanupIfSafe(p)
    BY <2>1 DEF Diagnose, Download, CompleteTask, Pause, ArmRuntimeCleanupIfSafe, LifeTypeOK, Holding,
       Removing
  <2>2. CASE \E t \in Job : NewTask(p, t) \/ Resume(p, t)
    BY <2>2 DEF NewTask, Resume, LifeTypeOK, Holding, Removing
  <2> QED
    BY <1>5, <2>1, <2>2 DEF Work
<1>6. CASE CloseAll(p)
  BY <1>6 DEF CloseAll, Close, LifeTypeOK, Holding, Removing
<1> QED
  BY <1>1, <1>2, <1>3, <1>4, <1>5, <1>6 DEF Start, Finish

(* Whoever has the lock has locked the file that a new process opens.      *)
LEMMA LockExcludes ==
  ASSUME FilesInv, NEW p \in Process, TryLock(p)
  PROVE  \A q \in Process \ {p} : pc[q] \notin Holding
<1>1. "instance.lock" \in OpenEntry
  BY DEF OpenEntry, Entry
<1>2. pc[p] = "lock" /\ LockFree(p)
  BY DEF TryLock, Move
<1>3. fd[p]["instance.lock"] = made["instance.lock"]
  BY <1>1, <1>2 DEF FilesInv, OpenIsCurrent, OpenAtLine
<1>4. \A q \in Process : pc[q] \in Holding => fd[q]["instance.lock"] = made["instance.lock"]
  BY <1>1 DEF FilesInv, OpenIsCurrent, OpenAtLine
<1> QED
  BY <1>2, <1>3, <1>4 DEF LockFree

LEMMA ExcludeStep ==
  ASSUME FilesInv, InstancesExclude, NEW p \in Process, Start(p) \/ Work(p) \/ Finish(p) \/ Crash(p)
  PROVE  InstancesExclude'
<1>0. LifeTypeOK
  BY DEF FilesInv
<1>1. CASE TryLock(p)
  BY <1>0, <1>1, LockExcludes, OwnStep DEF InstancesExclude
<1>2. CASE ~TryLock(p)
  BY <1>0, <1>2, OwnStep DEF InstancesExclude
<1> QED
  BY <1>1, <1>2

----------------------------------------------------------------------------
(* The check for unfinished tasks, and the removal *)

LEMMA ArmedLateStep ==
  ASSUME LifeTypeOK, ArmedLate, NEW p \in Process, Start(p) \/ Work(p) \/ Finish(p) \/ Crash(p)
  PROVE  ArmedLate'
<1> USE DEF Move, KeepProcess, process, tree, history
<1>1. ASSUME armed'[p] => pc'[p] \in {"close.db", "close.log", "unlock"} \cup Removing,
             pc'[p] \in {"remove", "rmdir"} => armed'[p]
      PROVE  ArmedLate'
  BY <1>1, OwnStep DEF ArmedLate
<1>2. CASE Start(p) \/ Crash(p)
  BY <1>1, <1>2 DEF Start, Crash, Launch, Ensure, OpenLockFile, TryLock, OpenLog, OpenStore, StartFails,
     OpenFile, End, LifeTypeOK, ArmedLate, Removing
<1>3. CASE Work(p)
  <2>1. CASE Diagnose(p) \/ Download(p) \/ CompleteTask(p) \/ Pause(p) \/ ArmRuntimeCleanupIfSafe(p)
    BY <1>1, <2>1 DEF Diagnose, Download, CompleteTask, Pause, ArmRuntimeCleanupIfSafe, LifeTypeOK,
       ArmedLate, Removing
  <2>2. CASE \E t \in Job : NewTask(p, t) \/ Resume(p, t)
    BY <1>1, <2>2 DEF NewTask, Resume, LifeTypeOK, ArmedLate, Removing
  <2> QED
    BY <1>3, <2>1, <2>2 DEF Work
<1>4. CASE CloseAll(p)
  BY <1>1, <1>4 DEF CloseAll, Close, LifeTypeOK, ArmedLate, Removing
<1>5. CASE Finish(p) /\ ~CloseAll(p)
  BY <1>1, <1>5 DEF Finish, ListRoot, SkipRemoval, RemoveChild, ChildrenRemoved, RemovalFails, RemoveRoot,
     End, LifeTypeOK, ArmedLate, Removing
<1> QED
  BY <1>2, <1>3, <1>4, <1>5

LEMMA ArmedCurrentStep ==
  ASSUME FilesInv, InstancesExclude, ArmedLate, ArmedIsCurrent,
         NEW p \in Process, Start(p) \/ Work(p) \/ Finish(p) \/ Crash(p)
  PROVE  ArmedIsCurrent'
<1> USE DEF Move, KeepProcess, process, tree, history
<1> DEFINE Nothing(database, n) == \A t \in Job : database[n][t] \in {"none", "completed"}
<1>0. LifeTypeOK
  BY DEF FilesInv
<1> SUFFICES ASSUME NEW q \in Process, pc'[q] \in Holding, armed'[q]
             PROVE  Nothing(rows', made'["state.db"])
  BY DEF ArmedIsCurrent
<1>1. CASE q # p
  <2>1. pc[q] \in Holding /\ armed[q]
    BY <1>0, <1>1, OwnStep
  <2>2. pc[p] \notin Holding
    BY <1>1, <2>1 DEF InstancesExclude
  <2>3. rows' = rows /\ made'["state.db"] = made["state.db"]
    BY <1>0, <2>2, OwnStep
  <2> QED
    BY <2>1, <2>3 DEF ArmedIsCurrent
<1>2. CASE q = p
  <2>1. ArmedLate'
    BY <1>0, ArmedLateStep
  <2>2. pc'[p] \in {"close.db", "close.log", "unlock"}
    BY <1>2, <2>1 DEF ArmedLate, Holding, Removing
  <2>3. CASE CloseAll(p)
    <3>1. pc[p] \in Holding /\ armed[p] /\ UNCHANGED <<rows, made>>
      BY <1>0, <1>2, <2>3 DEF CloseAll, Close, LifeTypeOK, Holding
    <3> QED
      BY <3>1 DEF ArmedIsCurrent
  <2>4. CASE Pause(p)
    BY <1>0, <1>2, <2>4 DEF Pause, ArmedLate, LifeTypeOK, Removing
  <2>5. CASE ArmRuntimeCleanupIfSafe(p)
    <3>1. pc[p] = "arm" /\ ~HasNonCompletedTasks(p) /\ UNCHANGED <<rows, made>>
      BY <1>0, <1>2, <2>5 DEF ArmRuntimeCleanupIfSafe, LifeTypeOK
    <3>2. "state.db" \in OpenEntry
      BY DEF OpenEntry, Entry
    <3>3. Db(p) = made["state.db"]
      BY <3>1, <3>2 DEF Db, FilesInv, OpenAtLine, OpenIsCurrent
    <3> QED
      BY <3>1, <3>3 DEF HasNonCompletedTasks, ProgressOf
  <2>6. CloseAll(p) \/ Pause(p) \/ ArmRuntimeCleanupIfSafe(p)
    <3>1. CASE Start(p) \/ Crash(p)
      BY <1>0, <2>2, <3>1 DEF Start, Crash, Launch, Ensure, OpenLockFile, TryLock, OpenLog, OpenStore,
         StartFails, OpenFile, End, LifeTypeOK
    <3>2. CASE Work(p)
      BY <1>0, <2>2, <3>2 DEF Work, NewTask, Resume, Diagnose, Download, CompleteTask, LifeTypeOK
    <3>3. CASE Finish(p)
      BY <1>0, <2>2, <3>3 DEF Finish, ListRoot, SkipRemoval, RemoveChild, ChildrenRemoved, RemovalFails,
         RemoveRoot, End, LifeTypeOK
    <3> QED
      BY <3>1, <3>2, <3>3
  <2> QED
    BY <2>3, <2>4, <2>5, <2>6
<1> QED
  BY <1>1, <1>2

(* A process that deletes the tree is alone, or the lock was taken since.  *)
LEMMA RemovalAloneStep ==
  ASSUME LifeInv, NEW p \in Process, Start(p) \/ Work(p) \/ Finish(p) \/ Crash(p)
  PROVE  RemovalAlone'
<1> USE DEF Move, KeepProcess, process, tree, history
<1>0. FilesInv /\ LifeTypeOK /\ InstancesExclude /\ ArmedLate /\ ArmedIsCurrent /\ RemovalAlone
      /\ OnlyTheRaceLoses /\ ArmedLate' /\ InstancesExclude'
  BY ArmedLateStep, ExcludeStep DEF LifeInv, FilesInv
<1> SUFFICES ASSUME ~raced', NEW q \in Process, pc'[q] \in Removing
             PROVE  /\ \A r \in Process : pc'[r] \notin Holding
                    /\ armed'[q] => unfinished' = {}
  BY DEF RemovalAlone
<1>1. ~raced
  BY <1>0, OwnStep
<1>2. CASE pc[q] \in Removing
  <2>1. \A r \in Process : pc[r] \notin Holding
    BY <1>0, <1>1, <1>2 DEF RemovalAlone
  <2>2. ~TryLock(p)
    BY <1>2 DEF TryLock
  <2>3. \A r \in Process : pc'[r] \notin Holding
    BY <1>0, <2>1, <2>2, OwnStep
  <2>4. unfinished' = unfinished
    BY <1>0, <2>1, OwnStep
  <2>5. armed'[q] => armed[q]
    <3>1. CASE q = p
      <4>1. Finish(p) \/ Crash(p)
        BY <1>2, <3>1 DEF Start, Work, Launch, Ensure, OpenLockFile, TryLock, OpenLog, OpenStore,
           StartFails, OpenFile, NewTask, Resume, Diagnose, Download, CompleteTask, Pause,
           ArmRuntimeCleanupIfSafe, Removing
      <4> QED
        BY <1>0, <1>2, <3>1, <4>1 DEF Finish, Crash, CloseAll, Close, ListRoot, SkipRemoval, RemoveChild,
           ChildrenRemoved, RemovalFails, RemoveRoot, End, LifeTypeOK, Removing
    <3> QED
      BY <1>0, <3>1, OwnStep
  <2> QED
    BY <1>0, <1>1, <1>2, <2>3, <2>4, <2>5 DEF RemovalAlone
<1>3. CASE pc[q] \notin Removing
  <2>1. q = p /\ CloseAll(p)
    BY <1>0, <1>3, OwnStep
  <2>2. /\ pc[p] = "unlock" /\ pc' = [pc EXCEPT ![p] = "list"] /\ UNCHANGED unfinished
        /\ armed'[p] => armed[p]
    BY <1>0, <2>1 DEF CloseAll, Close, LifeTypeOK, Removing
  <2>3. \A r \in Process : pc'[r] \notin Holding
    BY <1>0, <2>2 DEF InstancesExclude, Holding, LifeTypeOK
  <2>4. armed[p] => \A t \in Job : rows[made["state.db"]][t] \in {"none", "completed"}
    BY <1>0, <2>2 DEF ArmedIsCurrent, Holding
  <2>5. \A t \in unfinished : t \in Job /\ rows[made["state.db"]][t] \in {"open", "ready"}
    BY <1>0, <1>1 DEF OnlyTheRaceLoses, UnfinishedKept, LifeTypeOK
  <2>6. armed[p] => unfinished = {}
    BY <2>4, <2>5
  <2> QED
    BY <2>1, <2>2, <2>3, <2>6
<1> QED
  BY <1>2, <1>3

(* What a task is after a step, when nobody raced.                         *)
LEMMA UnfinishedStep ==
  ASSUME OpenFilesPinned, LifeInv, NEW p \in Process, Start(p) \/ Work(p) \/ Finish(p) \/ Crash(p)
  PROVE  OnlyTheRaceLoses'
<1> USE DEF Move, KeepProcess, process, tree, history
<1>0. FilesInv /\ LifeTypeOK /\ ArmedLate /\ RemovalAlone /\ OnlyTheRaceLoses /\ OpenAtLine
  BY DEF LifeInv, FilesInv
<1> SUFFICES ASSUME ~raced' PROVE UnfinishedKept'
  BY DEF OnlyTheRaceLoses
<1>1. ~raced /\ UnfinishedKept
  BY <1>0, OwnStep DEF OnlyTheRaceLoses
<1>2. /\ "state.db" \in Entry /\ "state.db" \in OpenEntry /\ made["state.db"] = Len(rows)
      /\ rows \in Seq([Job -> Progress]) /\ made \in [Entry -> Nat] /\ unfinished \subseteq Job
  BY <1>0 DEF LifeTypeOK, OpenEntry, Entry
<1>3. pc[p] \in {"choose", "run", "arm", "close.db"} =>
        Db(p) = made["state.db"] /\ "state.db" \in present /\ Db(p) \in 1 .. Len(rows)
        /\ rows[Db(p)] \in [Job -> Progress]
  BY <1>0, <1>2 DEF Db, FilesInv, OpenAtLine, OpenIsCurrent
<1>4. CASE UNCHANGED <<rows, cached, unfinished, present, made>>
  BY <1>1, <1>4 DEF UnfinishedKept
<1>5. CASE Ensure(p) \/ OpenLockFile(p) \/ OpenLog(p)
  <2>1. /\ present \subseteq present' /\ made'["state.db"] = made["state.db"]
        /\ UNCHANGED <<rows, cached, unfinished>>
    BY <1>2, <1>5 DEF Ensure, OpenLockFile, OpenLog, OpenFile, Create
  <2> QED
    BY <1>1, <2>1 DEF UnfinishedKept
<1>6. CASE OpenStore(p)
  <2>1. CASE "state.db" \in present
    <3>1. present \subseteq present' /\ made'["state.db"] = made["state.db"]
          /\ UNCHANGED <<rows, cached, unfinished>>
      BY <1>2, <1>6, <2>1 DEF OpenStore, OpenFile, Create
    <3> QED
      BY <1>1, <3>1 DEF UnfinishedKept
  <2>2. CASE "state.db" \notin present
    BY <1>1, <1>6, <2>2 DEF OpenStore, OpenFile, UnfinishedKept
  <2> QED
    BY <2>1, <2>2
<1>7. ASSUME NEW t \in Job, NEW s \in Progress, SetProgress(p, t, s), pc[p] \in {"choose", "run"}
      PROVE  \A u \in Job : rows'[made["state.db"]][u] = IF u = t THEN s ELSE rows[made["state.db"]][u]
  <2>1. rows' = [rows EXCEPT ![Db(p)] = [rows[Db(p)] EXCEPT ![t] = s]]
    BY <1>7 DEF SetProgress
  <2>2. rows'[Db(p)] = [rows[Db(p)] EXCEPT ![t] = s]
    BY <1>2, <1>3, <1>7, <2>1
  <2> QED
    BY <1>3, <1>7, <2>2
<1>8. ASSUME NEW t \in Job, NewTask(p, t) PROVE UnfinishedKept'
  <2>1. \A u \in Job : rows'[made["state.db"]][u] = IF u = t THEN "open" ELSE rows[made["state.db"]][u]
    BY <1>7, <1>8 DEF NewTask, Progress
  <2>2. unfinished' = unfinished \cup {t} /\ UNCHANGED <<present, made, cached>> /\ pc[p] = "choose"
    BY <1>8 DEF NewTask
  <2> QED
    BY <1>1, <1>2, <1>3, <2>1, <2>2 DEF UnfinishedKept
<1>9. CASE Download(p)
  <2>0. pc[p] = "run" /\ job[p] \in Job
    BY <1>0, <1>9 DEF Download, OpenAtLine
  <2>1. \A u \in Job : rows'[made["state.db"]][u]
                         = IF u = job[p] THEN "ready" ELSE rows[made["state.db"]][u]
    BY <1>7, <1>9, <2>0 DEF Download, Progress
  <2>2. /\ unfinished' = unfinished /\ made'["state.db"] = made["state.db"]
        /\ present \subseteq present' /\ cached' = cached \cup {job[p]}
    BY <1>2, <1>9 DEF Download, Create
  <2> QED
    BY <1>1, <1>2, <2>1, <2>2 DEF UnfinishedKept
<1>10. CASE CompleteTask(p)
  <2>0. pc[p] = "run" /\ job[p] \in Job
    BY <1>0, <1>10 DEF CompleteTask, OpenAtLine
  <2>1. \A u \in Job : rows'[made["state.db"]][u]
                         = IF u = job[p] THEN "completed" ELSE rows[made["state.db"]][u]
    BY <1>7, <1>10, <2>0 DEF CompleteTask, Progress
  <2>2. unfinished' = unfinished \ {job[p]} /\ UNCHANGED <<present, made>> /\ cached' = cached \ {job[p]}
    BY <1>10 DEF CompleteTask
  <2> QED
    BY <1>1, <1>2, <2>1, <2>2 DEF UnfinishedKept
<1>11. CASE RemoveChild(p)
  <2>1. pc[p] \in Removing /\ armed[p] /\ unfinished' = unfinished
    BY <1>0, <1>11 DEF RemoveChild, ArmedLate, Removing
  <2>2. unfinished = {}
    BY <1>0, <1>1, <2>1 DEF RemovalAlone
  <2> QED
    BY <2>1, <2>2 DEF UnfinishedKept
<1>12. CASE Start(p) \/ Crash(p)
  <2>1. CASE Launch(p) \/ TryLock(p) \/ StartFails(p) \/ Crash(p)
    BY <1>4, <2>1 DEF Launch, TryLock, StartFails, Crash
  <2> QED
    BY <1>5, <1>6, <1>12, <2>1 DEF Start
<1>13. CASE Work(p)
  <2>1. CASE Diagnose(p) \/ Pause(p) \/ ArmRuntimeCleanupIfSafe(p) \/ \E t \in Job : Resume(p, t)
    BY <1>4, <2>1 DEF Diagnose, Pause, ArmRuntimeCleanupIfSafe, Resume
  <2> QED
    BY <1>8, <1>9, <1>10, <1>13, <2>1 DEF Work
<1>14. CASE Finish(p)
  <2>1. CASE CloseAll(p) \/ ListRoot(p) \/ SkipRemoval(p) \/ ChildrenRemoved(p) \/ RemovalFails(p)
             \/ RemoveRoot(p)
    BY <1>4, <2>1 DEF CloseAll, Close, ListRoot, SkipRemoval, ChildrenRemoved, RemovalFails, RemoveRoot
  <2> QED
    BY <1>11, <1>14, <2>1 DEF Finish
<1> QED
  BY <1>12, <1>13, <1>14

----------------------------------------------------------------------------
(* The theorems *)

LEMMA LifeStep == OpenFilesPinned /\ LifeInv /\ [LifeNext]_lifeVars => LifeInv'
<1> SUFFICES ASSUME OpenFilesPinned, LifeInv, [LifeNext]_lifeVars PROVE LifeInv'
  OBVIOUS
<1>1. CASE LifeNext
  <2>1. PICK p \in Process : Start(p) \/ Work(p) \/ Finish(p) \/ Crash(p)
    BY <1>1 DEF LifeNext
  <2>2. FilesInv'
    BY <1>1, FilesStep DEF LifeInv
  <2>3. InstancesExclude' /\ ArmedLate' /\ ArmedIsCurrent'
    BY <2>1, ExcludeStep, ArmedLateStep, ArmedCurrentStep DEF LifeInv, FilesInv
  <2>4. RemovalAlone' /\ OnlyTheRaceLoses'
    BY <2>1, RemovalAloneStep, UnfinishedStep
  <2> QED
    BY <2>2, <2>3, <2>4 DEF LifeInv
<1>2. CASE UNCHANGED lifeVars
  BY <1>2 DEF lifeVars, process, tree, history, LifeInv, FilesInv, LifeTypeOK, OpenIsCurrent, OpenAtLine,
     InstancesExclude, ArmedLate, ArmedIsCurrent, RemovalAlone, OnlyTheRaceLoses, UnfinishedKept
<1> QED
  BY <1>1, <1>2

(* On a system on which an open file cannot be deleted, every process      *)
(* keeps the invariant, whatever crashes.                                  *)
THEOREM LifeInvariant == OpenFilesPinned => (LifeSpec => []LifeInv)
<1> SUFFICES ASSUME OpenFilesPinned PROVE LifeSpec => []LifeInv
  OBVIOUS
<1>1. LifeInit => LifeInv
  <2> SUFFICES ASSUME LifeInit PROVE LifeInv
    OBVIOUS
  <2>1. LifeTypeOK
    <3>1. rows \in Seq([Job -> Progress]) /\ Len(rows) = 0
      BY EmptySeq DEF LifeInit
    <3>2. made \in [Entry -> Nat] /\ made["state.db"] = 0 /\ launches \in 0 .. MaxLaunches
      BY LifecycleAssumption DEF LifeInit, Entry
    <3>3. fd \in [Process -> [OpenEntry -> Nat]] /\ pc \in [Process -> Line]
      BY DEF LifeInit, Line
    <3>4. todo \in [Process -> SUBSET Entry] /\ present \subseteq Entry
      BY DEF LifeInit
    <3> QED
      BY <3>1, <3>2, <3>3, <3>4 DEF LifeInit, LifeTypeOK
  <2>2. OpenIsCurrent /\ OpenAtLine
    BY DEF LifeInit, OpenIsCurrent, OpenAtLine, Holding
  <2>3. InstancesExclude /\ ArmedLate /\ ArmedIsCurrent /\ RemovalAlone /\ OnlyTheRaceLoses
    BY DEF LifeInit, InstancesExclude, ArmedLate, ArmedIsCurrent, RemovalAlone, OnlyTheRaceLoses,
       UnfinishedKept, Holding, Removing
  <2> QED
    BY <2>1, <2>2, <2>3 DEF LifeInv, FilesInv
<1>2. LifeInv /\ [LifeNext]_lifeVars => LifeInv'
  BY LifeStep
<1> QED
  BY <1>1, <1>2, PTL DEF LifeSpec

(* The instance lock excludes, although the file it is on is in the tree   *)
(* that processes delete (instance_lock.go).                               *)
THEOREM LockIsExclusive == OpenFilesPinned => (LifeSpec => []InstancesExclude)
<1>1. LifeInv => InstancesExclude
  BY DEF LifeInv
<1> QED
  BY <1>1, LifeInvariant, PTL

(* As long as the lock is held, an armed removal deletes no unfinished     *)
(* task (armRuntimeCleanupIfSafe in main.go).                              *)
THEOREM ArmingHolds == OpenFilesPinned => (LifeSpec => []ArmedIsCurrent)
<1>1. LifeInv => ArmedIsCurrent
  BY DEF LifeInv
<1> QED
  BY <1>1, LifeInvariant, PTL

(* An unfinished task is lost only if a process takes the lock while       *)
(* another one removes the tree (main.go).                                 *)
THEOREM LossNeedsTheRace == OpenFilesPinned => (LifeSpec => []OnlyTheRaceLoses)
<1>1. LifeInv => OnlyTheRaceLoses
  BY DEF LifeInv
<1> QED
  BY <1>1, LifeInvariant, PTL

(* Every variable keeps its type.                                          *)
THEOREM LifeTypes == OpenFilesPinned => (LifeSpec => []LifeTypeOK)
<1>1. LifeInv => LifeTypeOK
  BY DEF LifeInv, FilesInv
<1> QED
  BY <1>1, LifeInvariant, PTL
=============================================================================
