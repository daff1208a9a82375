--------------------------- MODULE PlanningProofs --------------------------
(***************************************************************************)
(* The planning calls of MCPlanner meet the reference definition, for      *)
(* every finite set of files in any directories, whatever the largest      *)
(* size, batch size and byte bound enumerated.                             *)
(***************************************************************************)
EXTENDS MCPlanner, PlannerProofs

(* A planning call with any arguments the callers pass. *)
LEMMA EveryPlan ==
  ASSUME NEW sz \in [File -> Nat], NEW D, D \subseteq File,
         NEW m \in Nat, m > 0, NEW maxBytes \in Nat
  PROVE  IsPlan(BoundedPlan(D, sz, m, maxBytes), D, sz, m, maxBytes)
  <1>1. CASE maxBytes > 0
    BY <1>1, BoundedPlanIsPlan
  <1>2. CASE maxBytes = 0
    <2>1. BoundedPlan(D, sz, m, maxBytes) = ChunkedPlan(D, m)
      BY <1>2 DEF BoundedPlan
    <2> QED  BY <1>2, <2>1, ChunkedPlanIsPlan
  <1> QED  BY <1>1, <1>2

PlanningInv ==
  /\ size \in [File -> Nat]
  /\ discovered \subseteq File
  /\ request # NoRequest =>
       /\ request.maxFiles \in Nat \ {0}
       /\ request.maxBytes \in Nat
       /\ planned = BoundedPlan(discovered, size, request.maxFiles,
                                request.maxBytes)

LEMMA PlanningStep == PlanningInv /\ [Plan]_mcVars => PlanningInv'
  <1> SUFFICES ASSUME PlanningInv, [Plan]_mcVars
               PROVE  PlanningInv'
    OBVIOUS
  <1>1. CASE Plan
    <2>1. PICK m \in 1 .. MaxCount, n \in 0 .. MaxBound :
            /\ request' = [maxFiles |-> m, maxBytes |-> n]
            /\ planned' = BoundedPlan(discovered, size, m, n)
      BY <1>1 DEF Plan
    <2>2. m \in Nat \ {0} /\ n \in Nat
      BY PlanningAssumption
    <2> QED  BY <1>1, <2>1, <2>2 DEF Plan, PlanningInv
  <1>2. CASE UNCHANGED mcVars
    BY <1>2 DEF PlanningInv, mcVars
  <1> QED  BY <1>1, <1>2

THEOREM PlanningInvHolds == Spec => []PlanningInv
  <1>1. Init => PlanningInv
    BY PlanningAssumption DEF Init, PlanningInv
  <1> QED  BY <1>1, PlanningStep, PTL DEF Spec

(* Every plan the planner computes is a plan in the sense of the reference *)
(* definition, for any files, sizes and bounds (PlanBatchesBounded's loop  *)
(* over parentFiles, and the chunks of PlanBatches when there is no byte   *)
(* bound).                                                                 *)
THEOREM PlannerMeetsReference == Spec => []PlannerIsPlan
  <1>1. PlanningInv => PlannerIsPlan
    <2> SUFFICES ASSUME PlanningInv, request # NoRequest
                 PROVE  IsPlan(planned, discovered, size, request.maxFiles,
                               request.maxBytes)
      BY DEF PlannerIsPlan
    <2>1. request.maxFiles \in Nat /\ request.maxFiles > 0
      BY DEF PlanningInv
    <2> QED  BY <2>1, EveryPlan DEF PlanningInv
  <1> QED  BY <1>1, PlanningInvHolds, PTL

(* With a byte bound that cannot bind, the bounded planner's batches, and  *)
(* so the batch IDs derived from them, are those of PlanBatches.           *)
THEOREM PlannersAlwaysAgree == Spec => []PlannersAgree
  <1>1. PlanningInv => PlannersAgree
    <2> SUFFICES ASSUME PlanningInv, request # NoRequest,
                        request.maxBytes > Bytes(discovered, size)
                 PROVE  planned = ChunkedPlan(discovered, request.maxFiles)
      BY DEF PlannersAgree
    <2>1. request.maxFiles \in Nat /\ request.maxFiles > 0
      BY DEF PlanningInv
    <2> QED  BY <2>1, AmplePlansAgree DEF PlanningInv
  <1> QED  BY <1>1, PlanningInvHolds, PTL
=============================================================================
