------------------------------ MODULE MCStore ------------------------------
(***************************************************************************)
(* Instances of Store for TLC: one task with two files of one directory,   *)
(* which a planning call puts into one batch or, under a byte bound, into  *)
(* two.  The second one may be listed under a new name, that of the first  *)
(* file: f3.                                                               *)
(***************************************************************************)
EXTENDS Store, TLC

CONSTANTS t1, f1, f2, f3, d1

MCTask == {t1}
MCFile == {f1, f2, f3}
MCSourceId == [f \in MCFile |-> IF f = f3 THEN f2 ELSE f]
MCFileTask == [f \in MCFile |-> t1]
MCDir == {d1}
MCDirTask == [d \in MCDir |-> t1]
MCPath == [x \in MCFile \cup MCDir |-> IF x = f3 THEN f1 ELSE x]
MCParent == [f \in MCFile |-> d1]
MCPlanRank == [f \in MCFile |-> CASE f = f1 -> 1 [] f = f2 -> 2 [] OTHER -> 3]
MCSize == [f \in MCFile |-> 1]
MCPlanBound == {0, 1}

(* No operator prefers an identifier of the drive.                         *)
DriveIdSymmetry == Permutations(DriveId)
=============================================================================
