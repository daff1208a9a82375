--------------------------- MODULE TransferEngine ---------------------------
(***************************************************************************)
(* How one batch is staged: stageBatch, transferSubset and transferSplit   *)
(* of the staging executor, against a provider that moves any part of what *)
(* it is asked for, answers in every way the client can tell apart, and    *)
(* may carry out a call whose answer was lost much later.                  *)
(*                                                                         *)
(* Mover takes this as one step: some files arrive, and the pass goes on   *)
(* or ends.  The recursion of the code is a list of chunks still to be     *)
(* transferred.  A call into transferSplit puts the parts in front of it,  *)
(* a return takes the first one away, an error drops the list.             *)
(***************************************************************************)
EXTENDS Naturals, Sequences, FiniteSets

CONSTANTS BatchLength,  \* files of the batch, known by their position
          MaxAttempts,  \* calls without progress before giving up
          MaxStagings   \* bound on how often the batch is staged

ASSUME TransferAssumption ==
  /\ BatchLength \in Nat \ {0}
  /\ MaxAttempts \in Nat \ {0}
  /\ MaxStagings \in Nat

File == 1 .. BatchLength

VARIABLES
  tline,     \* the line of the executor
  tcopies,   \* files in the staging directory
  tlate,     \* files that calls with a lost answer will still bring
  twork,     \* chunks to be transferred
  tattempt,  \* the loop variable of transferSubset
  tanswer,   \* what the last call answered
  tblamed,   \* files a permanent error named
  tstagings, \* stagings so far
  trefused, tdiffer, tlimit,  \* the provider: files it does not move, files
                              \* that differ from the manifest, its limit
  tcame      \* history: a late file arrived

engine   == <<tline, twork, tattempt, tanswer, tblamed, tstagings>>
provider == <<trefused, tdiffer, tlimit>>
transferVars == <<engine, tcopies, tlate, provider, tcame>>

Answer == {"ok", "limit", "stop", "conflict", "error"}
Verdict == {"staged", "retryable", "permanent"}
TransferLine == {"off", "start", "first", "call", "judge", "second"} \cup Verdict
Running == {"start", "first", "call", "judge", "second"}

TransferOff ==
  /\ tline = "off" /\ tcopies = {} /\ tlate = {} /\ twork = <<>> /\ tattempt = 0
  /\ tanswer = "ok" /\ tblamed = {} /\ tstagings = 0
  /\ trefused = {} /\ tdiffer = {} /\ tlimit = BatchLength /\ tcame = FALSE
TransferInit ==
  /\ tline = "retryable" /\ tcopies = {} /\ tlate = {} /\ twork = <<>> /\ tattempt = 0
  /\ tanswer = "ok" /\ tblamed = {} /\ tstagings = 0 /\ tcame = FALSE
  /\ trefused \in SUBSET File /\ tdiffer \in SUBSET File /\ tlimit \in File

----------------------------------------------------------------------------
(* The pieces *)

To(line) == tline' = line
KeepWorld == tanswer' = "ok" /\ UNCHANGED <<tstagings, tcopies, tlate, provider, tcame>>
GiveUp == twork' = <<>> /\ tattempt' = 0
Ends(verdict, blamed) == To(verdict) /\ tblamed' = blamed

(* reconcile: the files of S that are not in the directory.                *)
Missing(S) == S \ tcopies
Damaged == tcopies \cap tdiffer

(* transferSplit: consecutive parts, the last one with what remains.       *)
Rank(S, f) == Cardinality({g \in S : g < f})
ChunkSize(S, limit) ==
  IF limit = 0 \/ limit >= Cardinality(S) THEN (Cardinality(S) + 1) \div 2 ELSE limit
(* Mutation: the number of parts is rounded down.                          *)
SplitDown(S, size) ==
  [i \in 1 .. Cardinality(S) \div size |-> {f \in S : Rank(S, f) \div size = i - 1}]
Split(S, size) ==
  [i \in 1 .. (Cardinality(S) + size - 1) \div size |->
     {f \in S : Rank(S, f) \div size = i - 1}]

Chunk == Head(twork)

----------------------------------------------------------------------------
(* stageBatch *)

(* StartBatch; a batch that is not permanently failed is staged again.     *)
StartBatch ==
  /\ tline = "retryable" /\ tstagings < MaxStagings
  /\ To("start") /\ tstagings' = tstagings + 1
  /\ UNCHANGED <<twork, tattempt, tanswer, tblamed, tcopies, tlate, provider, tcame>>

EnsureDirectory ==
  /\ tline = "start"
  /\ To("first") \/ To("retryable")
  /\ UNCHANGED <<twork, tattempt, tanswer, tblamed, tstagings, tcopies, tlate, provider, tcame>>

(* reconcile is not answered.                                              *)
ListFails ==
  /\ tline \in {"first", "judge", "second"}
  /\ To("retryable") /\ GiveUp /\ KeepWorld /\ UNCHANGED tblamed

(* reconcile finds an object that is not the file of the manifest.         *)
ListConflicts ==
  /\ tline \in {"first", "judge", "second"} /\ Damaged # {}
  /\ Ends("permanent", Damaged) /\ GiveUp /\ KeepWorld

FirstReconcile ==
  /\ tline = "first" /\ Damaged = {}
  /\ \/ Missing(File) = {} /\ To("second") /\ UNCHANGED twork
     \/ Missing(File) # {} /\ To("call") /\ twork' = <<Missing(File)>>
  /\ tattempt' = 0
  /\ UNCHANGED <<tanswer, tblamed, tstagings, tcopies, tlate, provider, tcame>>

SecondReconcile ==
  /\ tline = "second" /\ Damaged = {}
  /\ IF tcopies = File THEN To("staged") ELSE To("retryable")
  /\ UNCHANGED <<twork, tattempt, tanswer, tblamed, tstagings, tcopies, tlate, provider, tcame>>

----------------------------------------------------------------------------
(* transferSubset *)

(* TransferFiles.  Only a call that is answered with an error of its own   *)
(* may be carried out later; a refusal for the limit has no effect.        *)
TransferFiles ==
  /\ tline = "call" /\ To("judge")
  /\ \E moved \in SUBSET (Chunk \ (tcopies \cup trefused)) :
       /\ tcopies' = tcopies \cup moved
       /\ \/ /\ tanswer' = "limit" /\ moved = {} /\ Cardinality(Chunk) > tlimit
             /\ UNCHANGED tlate
          \/ /\ tanswer' = "conflict" /\ Chunk \cap (tcopies \cup trefused) # {}
             /\ UNCHANGED tlate
          \/ tanswer' = "ok" /\ UNCHANGED tlate
          \/ tanswer' = "stop" /\ UNCHANGED tlate
          \/ /\ tanswer' = "error"
             /\ \E later \in SUBSET (Chunk \ (tcopies' \cup trefused)) : tlate' = tlate \cup later
  /\ UNCHANGED <<twork, tattempt, tblamed, tstagings, provider, tcame>>

Judging == tline = "judge" /\ Damaged = {}

ChunkDone ==
  /\ Judging /\ Missing(Chunk) = {}
  /\ twork' = Tail(twork) /\ tattempt' = 0
  /\ IF Tail(twork) = <<>> THEN To("second") ELSE To("call")
  /\ KeepWorld /\ UNCHANGED tblamed

SplitChunk(limit) ==
  /\ twork' = Split(Missing(Chunk), ChunkSize(Missing(Chunk), limit)) \o Tail(twork)
  /\ tattempt' = 0 /\ To("call")
  /\ KeepWorld /\ UNCHANGED tblamed

LimitReached ==
  /\ Judging /\ Missing(Chunk) # {} /\ tanswer = "limit"
  /\ \/ Cardinality(Missing(Chunk)) > 1 /\ SplitChunk(tlimit)
     \/ /\ Cardinality(Missing(Chunk)) = 1
        /\ Ends("permanent", Missing(Chunk)) /\ GiveUp /\ KeepWorld

Stopped ==
  /\ Judging /\ Missing(Chunk) # {} /\ tanswer = "stop"
  /\ To("retryable") /\ GiveUp /\ KeepWorld /\ UNCHANGED tblamed

(* Mutation: a conflict is not narrowed down to one file.                  *)
ConflictsAtOnce ==
  /\ Judging /\ Missing(Chunk) # {} /\ tanswer = "conflict"
  /\ Ends("permanent", Missing(Chunk)) /\ GiveUp /\ KeepWorld
Conflicts ==
  /\ Judging /\ Missing(Chunk) # {} /\ tanswer = "conflict"
  /\ \/ Cardinality(Missing(Chunk)) > 1 /\ SplitChunk(0)
     \/ /\ Cardinality(Missing(Chunk)) = 1
        /\ Ends("permanent", Missing(Chunk)) /\ GiveUp /\ KeepWorld

(* Mutation: a call that moved nothing counts as progress.                 *)
AlwaysProgress == Missing(Chunk) \subseteq Chunk
MadeProgress == Cardinality(Missing(Chunk)) < Cardinality(Chunk)

(* Progress resets the retry budget for the smaller remainder.             *)
MakeProgress ==
  /\ Judging /\ Missing(Chunk) # {} /\ tanswer \in {"ok", "error"} /\ MadeProgress
  /\ twork' = <<Missing(Chunk)>> \o Tail(twork) /\ tattempt' = 0 /\ To("call")
  /\ KeepWorld /\ UNCHANGED tblamed

(* Mutation: one attempt more.                                             *)
LastAttemptLate == tattempt + 1 > MaxAttempts
LastAttempt == tattempt + 1 >= MaxAttempts

NoProgress ==
  /\ Judging /\ Missing(Chunk) # {} /\ tanswer \in {"ok", "error"} /\ ~MadeProgress
  /\ IF LastAttempt
       THEN To("retryable") /\ GiveUp
       ELSE To("call") /\ tattempt' = tattempt + 1 /\ UNCHANGED twork
  /\ KeepWorld /\ UNCHANGED tblamed

----------------------------------------------------------------------------
(* The provider, and the end of the process *)

ArriveLate ==
  /\ \E f \in tlate \ tcopies : tcopies' = tcopies \cup {f} /\ tlate' = tlate \ {f}
  /\ tcame' = TRUE
  /\ UNCHANGED <<engine, provider>>

TransferCrash ==
  /\ tline \in Running
  /\ To("retryable") /\ GiveUp /\ KeepWorld /\ UNCHANGED tblamed

Judge == ChunkDone \/ LimitReached \/ Stopped \/ Conflicts \/ MakeProgress \/ NoProgress
Execute == \/ StartBatch \/ EnsureDirectory \/ ListFails \/ ListConflicts \/ FirstReconcile
           \/ SecondReconcile \/ TransferFiles \/ Judge
TransferNext == Execute \/ ArriveLate \/ TransferCrash
TransferSpec == TransferInit /\ [][TransferNext]_transferVars
FairTransfer == TransferSpec /\ WF_transferVars(Execute)

----------------------------------------------------------------------------
(* Properties *)

(* The variables have their types.                                         *)
TransferTypeOK ==
  /\ tline \in TransferLine /\ tcopies \subseteq File /\ tlate \subseteq File
  /\ twork \in Seq(SUBSET File) /\ tattempt \in 0 .. MaxAttempts - 1
  /\ tanswer \in Answer /\ tblamed \subseteq File /\ tstagings \in 0 .. MaxStagings
  /\ trefused \subseteq File /\ tdiffer \subseteq File /\ tlimit \in File
  /\ tcame \in BOOLEAN

(* transferSubset and transferSplit forget no file, however often chunks   *)
(* are split and shrink: what is not in the directory is in a chunk, and   *)
(* so the error "still has files missing" of stageBatch is never returned. *)
NothingForgotten ==
  /\ tline \in {"call", "judge", "second"} =>
       File \ tcopies \subseteq UNION {twork[i] : i \in 1 .. Len(twork)}
  /\ tline = "second" => twork = <<>>

(* A permanent error condemns every file of the batch.  It is returned     *)
(* only because of a file that Baidu does not move or that differs from    *)
(* the manifest, unless a call was carried out after its answer was lost:  *)
(* what it brings counts as a conflict of the next call, and what is left  *)
(* of that call, a file with which nothing is wrong, is blamed.            *)
BlameIsReal ==
  tline = "permanent" => tcame \/ tblamed \subseteq trefused \cup tdiffer

(* The retry budget that progress resets is bounded all the same: every    *)
(* call uses up part of what is left of it, and some is left whenever one  *)
(* more call is made.  A chunk of n files is worth 2n - 1 full budgets,    *)
(* the chunks it can be split into and itself.                             *)
Load(work) == Cardinality({w \in (1 .. Len(work)) \X File : w[2] \in work[w[1]]})
CallsLeft == MaxAttempts * (2 * Load(twork) - Len(twork)) - tattempt
BudgetShrinks ==
  [][tline = "judge" /\ tline' = "call" => CallsLeft' \in 1 .. CallsLeft - 1]_transferVars

(* A batch that is staged again and again comes to an end: it is staged,   *)
(* it fails for good, or nobody starts it any more.                        *)
TransferEnds == <>[](tline \in Verdict \cup {"off"})
=============================================================================
