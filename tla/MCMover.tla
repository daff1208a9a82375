------------------------------ MODULE MCMover ------------------------------
(***************************************************************************)
(* Instances of Mover for TLC: one task whose files, all of one directory, *)
(* the planner puts into one batch or into two; and two tasks that share   *)
(* three files or four.                                                    *)
(***************************************************************************)
EXTENDS Mover

CONSTANTS t1, t2, f1, f2, f3, f4, d1

OneTask == {t1}
TwoTasks == {t1, t2}
OneDir == {d1}
MCDirTask == [d \in Dir |-> t1]

TwoFiles == {f1, f2}
ThreeFiles == {f1, f2, f3}
FourFiles == {f1, f2, f3, f4}
MCFileTask == [f \in File |-> IF t2 \in Task /\ f \in {f3, f4} THEN t2 ELSE t1]
MCParent == [f \in File |-> MCFileTask[f]]
MCSourceId == [f \in File |-> f]
MCPath == [x \in File \cup Dir |-> x]
MCRank == [f \in File |-> CASE f = f1 -> 1 [] f = f2 -> 2 [] f = f3 -> 3 [] OTHER -> 4]
MCSize == [f \in File |-> 1]
MCPlanBound == 0 .. 6

(* The batch of the first files has the smaller ID.                        *)
MCBatchRank == [b \in Batch |-> IF f1 \in b THEN 1 ELSE 2]

(* The listing of a share: the root directory, and then the only one in it.*)
MCPage == {[task |-> t, dirs |-> {d \in Dir : DirTask[d] = t}, files |-> {}] : t \in Task}
          \cup {[task |-> t, dirs |-> {}, files |-> {f \in File : FileTask[f] = t}] : t \in Task}

(* A share whose third file may be renamed between two scans: f4 is what   *)
(* the listing shows then.                                                 *)
RenamedSourceId == [f \in File |-> IF f = f4 THEN f3 ELSE f]
RenamedPage == {[task |-> t1, dirs |-> Dir, files |-> {}]}
               \cup {[task |-> t1, dirs |-> {}, files |-> {f1, f2, f}] : f \in {f3, f4}}
=============================================================================
