------------------------------ MODULE Planner ------------------------------
(***************************************************************************)
(* Batch planning (internal/state/staging_store.go PlanBatches and         *)
(* internal/state/staging_bounded.go PlanBatchesBounded).  The planner     *)
(* takes the discovered files of a task in the order                       *)
(* (parent_path, logical_path), and cuts the run of every parent greedily  *)
(* into batches of at most maxFiles files and, when maxBytes is positive,  *)
(* at most maxBytes bytes; a file larger than that is alone in its batch.  *)
(* A batch is identified with the set of its files: its ID is a hash of    *)
(* its contents.                                                           *)
(***************************************************************************)
EXTENDS Naturals, FiniteSets, Sequences, FiniteSetsExt

CONSTANTS File,      \* source files
          Parent,    \* Parent[f]: the logical parent directory of f
          PlanRank   \* position of f in ORDER BY parent_path, logical_path

ASSUME PlannerAssumption ==
  /\ IsFiniteSet(File)
  /\ PlanRank \in [File -> Nat]
  /\ \A f, g \in File : PlanRank[f] = PlanRank[g] => f = g
  /\ \A f, g, h \in File :
       /\ PlanRank[f] < PlanRank[g]
       /\ PlanRank[g] < PlanRank[h]
       /\ Parent[f] = Parent[h]
       => Parent[g] = Parent[f]

Bytes(S, size) == MapThenSumSet(LAMBDA f : size[f], S)

(* PlanBatches: the files of every parent, in rank order, cut into chunks  *)
(* of maxFiles.                                                            *)
ChunkedPlan(D, maxFiles) ==
  LET place(f) == Cardinality({g \in D : /\ Parent[g] = Parent[f]
                                         /\ PlanRank[g] < PlanRank[f]})
  IN  {{g \in D : /\ Parent[g] = Parent[f]
                  /\ place(g) \div maxFiles = place(f) \div maxFiles} : f \in D}

(* Mutation: the size of the next file is not counted before it joins.     *)
JoinsBeforeCounting(batch, f, size, maxFiles, maxBytes) ==
  /\ \A g \in batch : Parent[g] = Parent[f]
  /\ Cardinality(batch) < maxFiles
  /\ Bytes(batch, size) < maxBytes

(* Mutation: the open batch takes one file too many.                       *)
JoinsOneMore(batch, f, size, maxFiles, maxBytes) ==
  /\ \A g \in batch : Parent[g] = Parent[f]
  /\ Cardinality(batch) <= maxFiles
  /\ Bytes(batch, size) + size[f] <= maxBytes

(* The inner loop of PlanBatchesBounded: the open batch takes the next     *)
(* file of its parent unless it is full by count, has reached the byte     *)
(* bound, or would exceed it.                                              *)
Joins(batch, f, size, maxFiles, maxBytes) ==
  /\ \A g \in batch : Parent[g] = Parent[f]
  /\ Cardinality(batch) < maxFiles
  /\ Bytes(batch, size) < maxBytes
  /\ Bytes(batch, size) + size[f] <= maxBytes

(* PlanBatchesBounded: the files of D enter one by one in rank order, the  *)
(* open batch last; without a positive byte bound it is PlanBatches.       *)
BoundedPlan(D, size, maxFiles, maxBytes) ==
  LET nth(n) == CHOOSE f \in D :
                  Cardinality({g \in D : PlanRank[g] <= PlanRank[f]}) = n
      plan[n \in 0 .. Cardinality(D)] ==
        IF n = 0 THEN <<>>
        ELSE LET sofar == plan[n - 1]
                 k     == Len(sofar)
                 f     == nth(n)
             IN  IF k > 0 /\ Joins(sofar[k], f, size, maxFiles, maxBytes)
                 THEN [sofar EXCEPT ![k] = @ \cup {f}]
                 ELSE Append(sofar, {f})
      batches == plan[Cardinality(D)]
  IN  IF maxBytes <= 0 THEN ChunkedPlan(D, maxFiles)
                       ELSE {batches[i] : i \in DOMAIN batches}

----------------------------------------------------------------------------
(* Reference definition: what a plan must be, without saying how it is     *)
(* computed.                                                               *)

IsPartition(P, D) ==
  /\ UNION P = D
  /\ {} \notin P
  /\ \A b, c \in P : b # c => b \cap c = {}

Latest(b) == CHOOSE f \in b : \A g \in b : PlanRank[g] <= PlanRank[f]

(* A full batch takes no further file, not even an empty one. *)
Full(b, size, maxFiles, maxBytes) ==
  \/ Cardinality(b) >= maxFiles
  \/ maxBytes > 0 /\ Bytes(b, size) >= maxBytes

(* A well-formed batch holds one parent, is contiguous among the files of  *)
(* that plan, respects both bounds, and was not full before its last file. *)
WellFormedBatch(b, D, size, maxFiles, maxBytes) ==
  /\ \A f, g \in b : Parent[f] = Parent[g]
  /\ \A f, h \in b, g \in D :
       PlanRank[f] < PlanRank[g] /\ PlanRank[g] < PlanRank[h] => g \in b
  /\ Cardinality(b) <= maxFiles
  /\ maxBytes > 0 /\ Cardinality(b) > 1 => Bytes(b, size) <= maxBytes
  /\ Cardinality(b) > 1 => ~Full(b \ {Latest(b)}, size, maxFiles, maxBytes)

(* A batch is maximal: the next file of its parent did not fit. *)
MaximalBatch(b, D, size, maxFiles, maxBytes) ==
  LET later == {g \in D : /\ PlanRank[g] > PlanRank[Latest(b)]
                          /\ Parent[g] = Parent[Latest(b)]}
  IN  \A next \in later :
        (\A g \in later : PlanRank[next] <= PlanRank[g]) =>
          \/ Full(b, size, maxFiles, maxBytes)
          \/ maxBytes > 0 /\ Bytes(b, size) + size[next] > maxBytes

IsPlan(P, D, size, maxFiles, maxBytes) ==
  /\ IsPartition(P, D)
  /\ \A b \in P : /\ WellFormedBatch(b, D, size, maxFiles, maxBytes)
                  /\ MaximalBatch(b, D, size, maxFiles, maxBytes)
=============================================================================
