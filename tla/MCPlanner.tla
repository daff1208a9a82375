----------------------------- MODULE MCPlanner -----------------------------
(***************************************************************************)
(* Checks the batch planner against its reference definition on every     *)
(* choice of discovered files, sizes and bounds over five files in two     *)
(* directories.                                                            *)
(***************************************************************************)
EXTENDS Planner

CONSTANTS MaxSize,   \* largest file size enumerated
          MaxCount,  \* largest batch size enumerated
          MaxBound   \* largest byte bound enumerated

ASSUME PlanningAssumption ==
  MaxSize \in Nat /\ MaxCount \in Nat /\ MaxBound \in Nat

VARIABLES size, discovered, request, planned
mcVars == <<size, discovered, request, planned>>

(* Five files: 1..3 lie in one directory, 4 and 5 in another. *)
MCFile == 1 .. 5
MCParent == [f \in MCFile |-> IF f <= 3 THEN "/a" ELSE "/b"]
MCPlanRank == [f \in MCFile |-> f]

NoRequest == [maxFiles |-> 0, maxBytes |-> 0]

Init ==
  /\ size \in [File -> 0 .. MaxSize]
  /\ discovered \in (SUBSET File) \ {{}}
  /\ request = NoRequest
  /\ planned = {}

(* One planning call with an enumerated pair of bounds. *)
Plan ==
  /\ request = NoRequest
  /\ \E maxFiles \in 1 .. MaxCount, maxBytes \in 0 .. MaxBound :
       /\ request' = [maxFiles |-> maxFiles, maxBytes |-> maxBytes]
       /\ planned' = BoundedPlan(discovered, size, maxFiles, maxBytes)
  /\ UNCHANGED <<size, discovered>>

Spec == Init /\ [][Plan]_mcVars

(* The planner computes a plan in the sense of the reference        *)
(* definition: every discovered file is in exactly one batch, batches mix  *)
(* no parents and respect both bounds, and no batch was closed early       *)
(* (PlanBatchesBounded's loop over parentFiles).                           *)
PlannerIsPlan ==
  request # NoRequest =>
    IsPlan(planned, discovered, size, request.maxFiles, request.maxBytes)

(* Where the byte bound cannot bind, the two planners agree, so a task     *)
(* planned with an ample cache gets the batches, and with them the         *)
(* content-derived batch IDs, that PlanBatches would give it               *)
(* (staging_bounded.go:15 delegates to staging_store.go:23).               *)
PlannersAgree ==
  request # NoRequest /\ request.maxBytes > Bytes(discovered, size) =>
    planned = ChunkedPlan(discovered, request.maxFiles)
=============================================================================
