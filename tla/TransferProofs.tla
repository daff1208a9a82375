--------------------------- MODULE TransferProofs ---------------------------
(***************************************************************************)
(* Proofs about TransferEngine, for a batch of any length, any limit of    *)
(* the provider and any number of attempts.                                *)
(***************************************************************************)
EXTENDS TransferEngine, SequenceTheorems, FiniteSetTheorems, TLAPS

(* The chunks to be transferred: there are some while the engine calls and *)
(* judges, and none at any other line.                                     *)
WorkAtLine == tline \in {"call", "judge"} <=> twork # <<>>

(* Every file that is not in the directory is in a chunk.                  *)
Covered ==
  tline \in {"call", "judge"} =>
    \A f \in File \ tcopies : \E i \in 1 .. Len(twork) : f \in twork[i]
Forgotten == Covered /\ (tline = "second" => tcopies = File)

(* What Baidu does not move never arrives.                                 *)
NeverMoved == (tcopies \cup tlate) \cap trefused = {}

(* Unless a late file arrived, the chunks are disjoint, and what is in     *)
(* them was missing when the last call was made.                           *)
Fresh ==
  ~tcame =>
    /\ \A i, j \in 1 .. Len(twork) : i # j => twork[i] \cap twork[j] = {}
    /\ \A i \in 1 .. Len(twork) : tline = "call" \/ i # 1 => twork[i] \cap tcopies = {}
    /\ tline = "judge" /\ tanswer = "limit" =>
         twork[1] \cap tcopies = {} /\ Cardinality(twork[1]) > tlimit
    /\ tline = "judge" /\ tanswer = "conflict" => twork[1] \cap trefused # {}

TransferInv ==
  TransferTypeOK /\ WorkAtLine /\ Forgotten /\ NeverMoved /\ Fresh /\ BlameIsReal

----------------------------------------------------------------------------
(* Splitting a chunk *)

(* A quotient is the largest number of whole parts.                        *)
LEMMA Quotient ==
  ASSUME NEW a \in Nat, NEW size \in Nat \ {0}
  PROVE  /\ a \div size \in Nat
         /\ (a \div size) * size <= a
         /\ \A m \in Nat : m * size <= a => m <= a \div size
<1>1. a \div size \in Nat /\ (a \div size) * size <= a /\ a < (a \div size) * size + size
  <2>1. a = size * (a \div size) + (a % size) /\ a % size \in 0 .. size - 1
    OBVIOUS
  <2>2. a \div size \in Int /\ size * (a \div size) = (a \div size) * size
    OBVIOUS
  <2>3. (a \div size) * size <= a /\ a < (a \div size) * size + size
    BY <2>1, <2>2
  <2>4. a \div size >= 0
    OBVIOUS
  <2> QED
    BY <2>2, <2>3, <2>4
<1>2. ASSUME NEW m \in Nat, m * size <= a, ~(m <= a \div size) PROVE FALSE
  <2> DEFINE q == a \div size
  <2>1. q \in Nat /\ q + 1 <= m
    BY <1>1, <1>2
  <2>2. PICK d \in Nat : m = q + 1 + d
    <3>1. m - (q + 1) \in Nat /\ m = q + 1 + (m - (q + 1))
      BY <2>1
    <3> QED
      BY <3>1
  <2>3. m * size = q * size + size + d * size /\ d * size \in Nat
    BY <2>1, <2>2
  <2> QED
    BY <1>1, <1>2, <2>1, <2>3
<1> QED
  BY <1>1, <1>2

(* The rank of a file in a chunk is less than the length of the chunk.     *)
LEMMA RankBound ==
  ASSUME NEW S, IsFiniteSet(S), S \subseteq Nat, NEW f \in S
  PROVE  Rank(S, f) \in Nat /\ Rank(S, f) + 1 <= Cardinality(S)
<1> DEFINE Below == {g \in S : g < f}
<1>1. Below \in SUBSET S /\ Below # S
  <2>1. f \notin Below
    BY DEF Below
  <2> QED
    BY <2>1
<1>2. IsFiniteSet(Below) /\ Cardinality(Below) <= Cardinality(S) /\ Cardinality(Below) # Cardinality(S)
  BY <1>1, FS_Subset
<1>3. Cardinality(Below) \in Nat /\ Cardinality(S) \in Nat
  BY <1>2, FS_CardinalityType
<1> QED
  BY <1>2, <1>3 DEF Rank

(* transferSplit gives every file of the chunk to exactly one part.        *)
LEMMA SplitCovers ==
  ASSUME NEW S, IsFiniteSet(S), S \subseteq Nat, NEW size \in Nat \ {0}
  PROVE  /\ Split(S, size) \in Seq(SUBSET S)
         /\ \A f \in S : \E i \in 1 .. Len(Split(S, size)) : f \in Split(S, size)[i]
         /\ \A i, j \in 1 .. Len(Split(S, size)) :
              i # j => Split(S, size)[i] \cap Split(S, size)[j] = {}
<1> DEFINE parts == (Cardinality(S) + size - 1) \div size
           part(i) == {f \in S : Rank(S, f) \div size = i - 1}
<1>1. Cardinality(S) \in Nat /\ Cardinality(S) + size - 1 \in Nat
  BY FS_CardinalityType
<1>2. parts \in Nat
  BY <1>1, Quotient
<1>3. Split(S, size) = [i \in 1 .. parts |-> part(i)]
  BY DEF Split
<1>4. Split(S, size) \in Seq(SUBSET S) /\ Len(Split(S, size)) = parts
  <2> HIDE DEF parts
  <2>1. [i \in 1 .. parts |-> part(i)] \in [1 .. parts -> SUBSET S]
    OBVIOUS
  <2>2. [i \in 1 .. parts |-> part(i)] \in Seq(SUBSET S)
    BY <1>2, <2>1
  <2> QED
    BY <1>2, <1>3, <2>2
<1>5. ASSUME NEW f \in S PROVE \E i \in 1 .. parts : f \in part(i)
  <2> DEFINE r == Rank(S, f)
             m == r \div size
  <2>1. r \in Nat /\ r + 1 <= Cardinality(S)
    BY RankBound
  <2>2. m \in Nat /\ m * size <= r
    BY <2>1, Quotient
  <2> HIDE DEF m, r
  <2>3. (m + 1) * size <= Cardinality(S) + size - 1
    <3>1. (m + 1) * size = m * size + size /\ m * size \in Nat
      BY <2>2
    <3> QED
      BY <1>1, <2>1, <2>2, <3>1
  <2>4. m + 1 <= parts
    <3>1. \A k \in Nat : k * size <= Cardinality(S) + size - 1 => k <= parts
      BY <1>1, Quotient
    <3>2. m + 1 \in Nat
      BY <2>2
    <3> QED
      BY <2>3, <3>1, <3>2
  <2>5. m + 1 \in 1 .. parts
    BY <1>2, <2>2, <2>4
  <2>6. f \in part(m + 1)
    BY <2>2 DEF m, r
  <2> QED
    BY <2>5, <2>6
<1>6. ASSUME NEW i \in 1 .. parts, NEW j \in 1 .. parts, i # j PROVE part(i) \cap part(j) = {}
  BY <1>2, <1>6
<1> HIDE DEF parts
<1>7. \A i \in 1 .. parts : Split(S, size)[i] = part(i)
  BY <1>3
<1> QED
  BY <1>4, <1>5, <1>6, <1>7

LEMMA FilesFinite == ASSUME NEW S \in SUBSET File PROVE IsFiniteSet(S) /\ S \subseteq Nat
<1>1. BatchLength \in Int /\ 1 \in Int
  BY TransferAssumption
<1>2. IsFiniteSet(1 .. BatchLength)
  BY <1>1, FS_Interval
<1>3. IsFiniteSet(S)
  BY <1>2, FS_Subset DEF File
<1> QED
  BY <1>3 DEF File

(* What ChunkSize returns is a length of a part.                           *)
LEMMA ChunkSizeType ==
  ASSUME NEW S \in SUBSET File, Cardinality(S) > 1, NEW limit \in Nat
  PROVE  ChunkSize(S, limit) \in Nat \ {0}
<1>1. IsFiniteSet(S)
  BY FilesFinite
<1>2. Cardinality(S) \in Nat
  BY <1>1, FS_CardinalityType
<1>3. Cardinality(S) + 1 \in Nat /\ (Cardinality(S) + 1) \div 2 \in Nat \ {0}
  BY <1>2
<1> QED
  BY <1>2, <1>3 DEF ChunkSize

(* The chunks after the first one is replaced by those of r.               *)
LEMMA Replace ==
  ASSUME NEW s \in Seq(SUBSET File), s # <<>>, NEW r \in Seq(SUBSET File)
  PROVE  /\ r \o Tail(s) \in Seq(SUBSET File)
         /\ Len(r \o Tail(s)) = Len(r) + Len(s) - 1
         /\ \A i \in 1 .. Len(r) : (r \o Tail(s))[i] = r[i]
         /\ \A i \in Len(r) + 1 .. Len(r) + Len(s) - 1 : (r \o Tail(s))[i] = s[i - Len(r) + 1]
         /\ \A i \in 1 .. Len(s) - 1 : (r \o Tail(s))[Len(r) + i] = s[i + 1]
<1>1. Tail(s) \in Seq(SUBSET File) /\ Len(Tail(s)) = Len(s) - 1 /\ Len(s) \in Nat /\ Len(s) >= 1
      /\ \A i \in 1 .. Len(Tail(s)) : Tail(s)[i] = s[i + 1]
  BY HeadTailProperties, EmptySeq, LenProperties
<1>2. Len(r) \in Nat
  BY LenProperties
<1>3. /\ r \o Tail(s) \in Seq(SUBSET File)
      /\ Len(r \o Tail(s)) = Len(r) + Len(Tail(s))
      /\ \A i \in 1 .. Len(r) + Len(Tail(s)) :
           (r \o Tail(s))[i] = IF i <= Len(r) THEN r[i] ELSE Tail(s)[i - Len(r)]
  BY <1>1, ConcatProperties
<1>4. \A i \in 1 .. Len(r) : (r \o Tail(s))[i] = r[i]
  BY <1>1, <1>2, <1>3
<1>5. ASSUME NEW i \in Len(r) + 1 .. Len(r) + Len(s) - 1
      PROVE  (r \o Tail(s))[i] = s[i - Len(r) + 1]
  <2>1. i \in 1 .. Len(r) + Len(Tail(s)) /\ ~(i <= Len(r)) /\ i - Len(r) \in 1 .. Len(Tail(s))
    BY <1>1, <1>2
  <2> QED
    BY <1>1, <1>3, <2>1
<1>6. ASSUME NEW i \in 1 .. Len(s) - 1
      PROVE  (r \o Tail(s))[Len(r) + i] = s[i + 1]
  <2>1. Len(r) + i \in Len(r) + 1 .. Len(r) + Len(s) - 1 /\ Len(r) + i - Len(r) + 1 = i + 1
    BY <1>1, <1>2
  <2> QED
    BY <1>5, <2>1
<1> QED
  BY <1>1, <1>3, <1>4, <1>5, <1>6

----------------------------------------------------------------------------
(* The steps of transferSubset *)

(* A chunk is replaced by disjoint parts of what is missing of it.         *)
LEMMA ReplaceChunk ==
  ASSUME TransferInv, tline = "judge", NEW r \in Seq(SUBSET File), twork' = r \o Tail(twork),
         \A f \in Missing(Chunk) : \E i \in 1 .. Len(r) : f \in r[i],
         \A i \in 1 .. Len(r) : r[i] \subseteq Missing(Chunk),
         \A i, j \in 1 .. Len(r) : i # j => r[i] \cap r[j] = {},
         UNCHANGED <<tcopies, tcame>>
  PROVE  /\ twork' \in Seq(SUBSET File)
         /\ \A f \in File \ tcopies' : \E i \in 1 .. Len(twork') : f \in twork'[i]
         /\ ~tcame' => \A i, j \in 1 .. Len(twork') : i # j => twork'[i] \cap twork'[j] = {}
         /\ ~tcame' => \A i \in 1 .. Len(twork') : twork'[i] \cap tcopies' = {}
<1>0. twork \in Seq(SUBSET File) /\ twork # <<>> /\ Len(twork) \in Nat /\ Len(twork) >= 1
      /\ Chunk = twork[1] /\ Len(r) \in Nat
  <2>1. twork \in Seq(SUBSET File) /\ twork # <<>>
    BY DEF TransferInv, TransferTypeOK, WorkAtLine
  <2> QED
    BY <2>1, HeadTailProperties, EmptySeq, LenProperties DEF Chunk
<1>1. /\ twork' \in Seq(SUBSET File) /\ Len(twork') = Len(r) + Len(twork) - 1
      /\ \A i \in 1 .. Len(r) : twork'[i] = r[i]
      /\ \A i \in Len(r) + 1 .. Len(r) + Len(twork) - 1 : twork'[i] = twork[i - Len(r) + 1]
      /\ \A i \in 1 .. Len(twork) - 1 : twork'[Len(r) + i] = twork[i + 1]
  BY <1>0, Replace
<1>2. ASSUME NEW f \in File \ tcopies PROVE \E i \in 1 .. Len(twork') : f \in twork'[i]
  <2>1. PICK k \in 1 .. Len(twork) : f \in twork[k]
    BY DEF TransferInv, Forgotten, Covered
  <2>2. CASE k = 1
    <3>1. f \in Missing(Chunk)
      BY <1>0, <2>1, <2>2 DEF Missing
    <3>2. PICK i \in 1 .. Len(r) : f \in r[i]
      BY <3>1
    <3>3. i \in 1 .. Len(twork') /\ f \in twork'[i]
      BY <1>0, <1>1, <3>2
    <3> QED
      BY <3>3
  <2>3. CASE k # 1
    <3> DEFINE i == k - 1
    <3>1. i \in 1 .. Len(twork) - 1 /\ i + 1 = k
      BY <1>0, <2>3
    <3>2. Len(r) + i \in 1 .. Len(twork') /\ twork'[Len(r) + i] = twork[k]
      BY <1>0, <1>1, <3>1
    <3> QED
      BY <2>1, <3>2
  <2> QED
    BY <2>2, <2>3
<1>3. ASSUME ~tcame
      PROVE  /\ \A i, j \in 1 .. Len(twork') : i # j => twork'[i] \cap twork'[j] = {}
             /\ \A i \in 1 .. Len(twork') : twork'[i] \cap tcopies = {}
  <2>1. /\ \A i, j \in 1 .. Len(twork) : i # j => twork[i] \cap twork[j] = {}
        /\ \A i \in 1 .. Len(twork) : i # 1 => twork[i] \cap tcopies = {}
    BY <1>3 DEF TransferInv, Fresh
  <2>2. \A i \in 1 .. Len(twork') :
          \/ i <= Len(r) /\ i \in 1 .. Len(r)
          \/ /\ ~(i <= Len(r)) /\ i \in Len(r) + 1 .. Len(r) + Len(twork) - 1
             /\ i - Len(r) + 1 \in 1 .. Len(twork) /\ i - Len(r) + 1 # 1
    BY <1>0, <1>1
  <2>3. \A i \in 1 .. Len(twork') : twork'[i] \cap tcopies = {}
    <3> SUFFICES ASSUME NEW i \in 1 .. Len(twork') PROVE twork'[i] \cap tcopies = {}
      OBVIOUS
    <3>1. CASE i \in 1 .. Len(r)
      BY <1>1, <3>1 DEF Missing
    <3>2. CASE i \notin 1 .. Len(r)
      BY <1>1, <2>1, <2>2, <3>2
    <3> QED
      BY <3>1, <3>2
  <2>4. ASSUME NEW i \in 1 .. Len(twork'), NEW j \in 1 .. Len(twork'), i < j
        PROVE  twork'[i] \cap twork'[j] = {}
    <3>1. CASE j <= Len(r)
      <4>1. i \in 1 .. Len(r) /\ j \in 1 .. Len(r) /\ i # j
        BY <1>0, <2>4, <3>1
      <4> QED
        BY <1>1, <4>1
    <3>2. CASE i <= Len(r) /\ ~(j <= Len(r))
      <4>1. i \in 1 .. Len(r) /\ twork'[i] \subseteq twork[1]
        BY <1>0, <1>1, <2>2, <3>2 DEF Missing
      <4>2. PICK k \in 1 .. Len(twork) : k # 1 /\ twork'[j] = twork[k]
        BY <1>1, <2>2, <3>2
      <4>3. twork[1] \cap twork[k] = {}
        BY <1>0, <2>1, <4>2
      <4> QED
        BY <4>1, <4>2, <4>3
    <3>3. CASE ~(i <= Len(r))
      <4>1. ~(j <= Len(r))
        BY <1>0, <1>1, <2>4, <3>3
      <4>2. /\ i - Len(r) + 1 \in 1 .. Len(twork) /\ j - Len(r) + 1 \in 1 .. Len(twork)
            /\ i - Len(r) + 1 # j - Len(r) + 1
            /\ twork'[i] = twork[i - Len(r) + 1] /\ twork'[j] = twork[j - Len(r) + 1]
        BY <1>0, <1>1, <2>2, <2>4, <3>3, <4>1
      <4> QED
        BY <2>1, <4>2
    <3> QED
      BY <3>1, <3>2, <3>3
  <2>5. ASSUME NEW i \in 1 .. Len(twork'), NEW j \in 1 .. Len(twork'), i # j
        PROVE  twork'[i] \cap twork'[j] = {}
    <3>1. i < j \/ j < i
      BY <1>0, <1>1, <2>5
    <3> QED
      BY <2>4, <3>1
  <2> QED
    BY <2>3, <2>5
<1> QED
  BY <1>1, <1>2, <1>3

(* What a step into the next call has to show.                             *)
LEMMA NextCall ==
  ASSUME TransferInv, tline = "judge", NEW r \in Seq(SUBSET File), twork' = r \o Tail(twork),
         \A f \in Missing(Chunk) : \E i \in 1 .. Len(r) : f \in r[i],
         \A i \in 1 .. Len(r) : r[i] \subseteq Missing(Chunk),
         \A i, j \in 1 .. Len(r) : i # j => r[i] \cap r[j] = {},
         tattempt' = 0, KeepWorld, UNCHANGED tblamed,
         tline' = IF twork' = <<>> THEN "second" ELSE "call"
  PROVE  TransferInv'
<1> USE DEF KeepWorld, provider
<1>1. /\ twork' \in Seq(SUBSET File)
      /\ \A f \in File \ tcopies' : \E i \in 1 .. Len(twork') : f \in twork'[i]
      /\ ~tcame' => \A i, j \in 1 .. Len(twork') : i # j => twork'[i] \cap twork'[j] = {}
      /\ ~tcame' => \A i \in 1 .. Len(twork') : twork'[i] \cap tcopies' = {}
  BY ReplaceChunk
<1>2. TransferTypeOK'
  BY <1>1, TransferAssumption DEF TransferInv, TransferTypeOK, TransferLine, Running, Answer
<1>3. WorkAtLine'
  BY DEF WorkAtLine
<1>4. twork' = <<>> => tcopies' = File
  <2> SUFFICES ASSUME twork' = <<>> PROVE tcopies' = File
    OBVIOUS
  <2>1. Len(twork') = 0
    BY EmptySeq
  <2>2. File \ tcopies' = {}
    BY <1>1, <2>1
  <2> QED
    BY <1>2, <2>2 DEF TransferTypeOK
<1>5. Forgotten' /\ NeverMoved' /\ Fresh' /\ BlameIsReal'
  BY <1>1, <1>4 DEF TransferInv, Forgotten, Covered, NeverMoved, Fresh, BlameIsReal
<1> QED
  BY <1>2, <1>3, <1>5 DEF TransferInv

(* The end of a staging.                                                   *)
LEMMA StagingEnds ==
  ASSUME TransferInv, GiveUp, KeepWorld, tline' \in {"retryable", "permanent"},
         tblamed' \in SUBSET File,
         tline' = "permanent" => tcame \/ tblamed' \subseteq trefused \cup tdiffer
  PROVE  TransferInv'
<1> USE DEF KeepWorld, provider, GiveUp
<1>1. TransferTypeOK'
  BY EmptySeq, TransferAssumption DEF TransferInv, TransferTypeOK, TransferLine, Verdict, Answer
<1>2. Len(twork') = 0
  BY EmptySeq
<1>3. WorkAtLine' /\ Forgotten' /\ NeverMoved' /\ Fresh' /\ BlameIsReal'
  BY <1>2 DEF TransferInv, WorkAtLine, Forgotten, Covered, NeverMoved, Fresh, BlameIsReal
<1> QED
  BY <1>1, <1>3 DEF TransferInv

(* A chunk is split into parts of any positive length.                     *)
LEMMA SplitStep ==
  ASSUME TransferInv, tline = "judge", Cardinality(Missing(Chunk)) > 1, NEW limit \in Nat,
         SplitChunk(limit)
  PROVE  TransferInv'
<1> DEFINE S == Missing(Chunk)
           r == Split(S, ChunkSize(S, limit))
<1>1. twork \in Seq(SUBSET File) /\ twork # <<>>
  BY DEF TransferInv, TransferTypeOK, WorkAtLine
<1>2. S \in SUBSET File
  BY <1>1, HeadTailProperties DEF Chunk, Missing
<1>3. IsFiniteSet(S) /\ S \subseteq Nat
  BY <1>2, FilesFinite
<1>4. ChunkSize(S, limit) \in Nat \ {0}
  BY <1>2, ChunkSizeType
<1>5. /\ r \in Seq(SUBSET S)
      /\ \A f \in S : \E i \in 1 .. Len(r) : f \in r[i]
      /\ \A i, j \in 1 .. Len(r) : i # j => r[i] \cap r[j] = {}
  BY <1>3, <1>4, SplitCovers
<1>6. r \in Seq(SUBSET File) /\ \A i \in 1 .. Len(r) : r[i] \subseteq S
  <2> HIDE DEF r, S
  <2> QED
    BY <1>2, <1>5
<1>7. twork' = r \o Tail(twork) /\ tattempt' = 0 /\ KeepWorld /\ UNCHANGED tblamed /\ tline' = "call"
  BY DEF SplitChunk, To
<1>8. twork' # <<>>
  <2>1. S # {}
    BY <1>3, FS_EmptySet
  <2>2. Len(r) >= 1 /\ Len(r) \in Nat
    <3> HIDE DEF r, S
    <3> QED
      BY <1>5, <2>1
  <2>3. Len(twork') = Len(r) + Len(twork) - 1 /\ Len(twork) \in Nat /\ Len(twork) >= 1
    <3> HIDE DEF r, S
    <3>1. Len(r \o Tail(twork)) = Len(r) + Len(twork) - 1
      BY <1>1, <1>6, Replace
    <3> QED
      BY <1>1, <1>7, <3>1, EmptySeq
  <2>4. Len(twork') # 0
    BY <2>2, <2>3
  <2> QED
    BY <2>4, EmptySeq
<1> HIDE DEF r
<1> QED
  BY <1>5, <1>6, <1>7, <1>8, NextCall

----------------------------------------------------------------------------
(* Every step *)

(* The lines of stageBatch that call nobody.                               *)
LEMMA QuietLines ==
  ASSUME TransferInv, tline \notin {"call", "judge"},
         tline' \in {"start", "first", "second", "staged", "retryable"},
         tline' = "second" => tcopies = File,
         UNCHANGED <<twork, tanswer, tblamed, tcopies, tlate, provider, tcame>>,
         tattempt' \in {0, tattempt}, tstagings' \in 0 .. MaxStagings
  PROVE  TransferInv'
<1> USE DEF provider
<1>1. TransferTypeOK'
  BY TransferAssumption DEF TransferInv, TransferTypeOK, TransferLine, Running, Verdict
<1>2. twork = <<>> /\ Len(twork) = 0
  BY EmptySeq DEF TransferInv, WorkAtLine
<1>3. WorkAtLine' /\ Forgotten' /\ NeverMoved' /\ Fresh' /\ BlameIsReal'
  BY <1>2 DEF TransferInv, WorkAtLine, Forgotten, Covered, NeverMoved, Fresh, BlameIsReal
<1> QED
  BY <1>1, <1>3 DEF TransferInv

LEMMA FirstCall ==
  ASSUME TransferInv, FirstReconcile
  PROVE  TransferInv'
<1>1. CASE Missing(File) = {}
  <2>1. tcopies = File
    BY <1>1 DEF Missing, TransferInv, TransferTypeOK
  <2> QED
    BY <1>1, <2>1, QuietLines DEF FirstReconcile, To, TransferInv, TransferTypeOK
<1>2. CASE Missing(File) # {}
  <2> USE DEF provider
  <2>1. /\ tline' = "call" /\ twork' = <<Missing(File)>> /\ tattempt' = 0
        /\ UNCHANGED <<tanswer, tblamed, tstagings, tcopies, tlate, provider, tcame>>
    BY <1>2 DEF FirstReconcile, To
  <2>2. twork' \in Seq(SUBSET File) /\ Len(twork') = 1 /\ twork'[1] = File \ tcopies /\ twork' # <<>>
    BY <2>1 DEF Missing
  <2>3. TransferTypeOK'
    BY <2>1, <2>2, TransferAssumption DEF TransferInv, TransferTypeOK, TransferLine, Running
  <2>4. WorkAtLine' /\ Forgotten' /\ NeverMoved' /\ Fresh' /\ BlameIsReal'
    BY <2>1, <2>2 DEF TransferInv, WorkAtLine, Forgotten, Covered, NeverMoved, Fresh, BlameIsReal
  <2> QED
    BY <2>3, <2>4 DEF TransferInv
<1> QED
  BY <1>1, <1>2

LEMMA CallStep ==
  ASSUME TransferInv, TransferFiles
  PROVE  TransferInv'
<1> USE DEF provider
<1>1. PICK moved \in SUBSET (Chunk \ (tcopies \cup trefused)) :
       /\ tcopies' = tcopies \cup moved
       /\ \/ /\ tanswer' = "limit" /\ moved = {} /\ Cardinality(Chunk) > tlimit
             /\ UNCHANGED tlate
          \/ /\ tanswer' = "conflict" /\ Chunk \cap (tcopies \cup trefused) # {}
             /\ UNCHANGED tlate
          \/ tanswer' = "ok" /\ UNCHANGED tlate
          \/ tanswer' = "stop" /\ UNCHANGED tlate
          \/ /\ tanswer' = "error"
             /\ \E later \in SUBSET (Chunk \ (tcopies' \cup trefused)) : tlate' = tlate \cup later
  BY DEF TransferFiles
<1>2. /\ tline = "call" /\ tline' = "judge"
      /\ UNCHANGED <<twork, tattempt, tblamed, tstagings, provider, tcame>>
  BY DEF TransferFiles, To
<1>3. /\ twork \in Seq(SUBSET File) /\ twork # <<>> /\ Chunk = twork[1] /\ Chunk \subseteq File
      /\ 1 \in 1 .. Len(twork)
  <2>1. twork \in Seq(SUBSET File) /\ twork # <<>>
    BY <1>2 DEF TransferInv, TransferTypeOK, WorkAtLine
  <2> QED
    BY <2>1, HeadTailProperties, EmptySeq, LenProperties DEF Chunk
<1>4. TransferTypeOK'
  <2>1. tcopies' \subseteq File /\ tlate' \subseteq File
    BY <1>1, <1>3 DEF TransferInv, TransferTypeOK
  <2> QED
    BY <1>1, <1>2, <2>1 DEF TransferInv, TransferTypeOK, TransferLine, Running, Answer
<1>5. WorkAtLine' /\ Forgotten' /\ BlameIsReal'
  BY <1>1, <1>2 DEF TransferInv, WorkAtLine, Forgotten, Covered, BlameIsReal
<1>6. NeverMoved'
  BY <1>1, <1>2 DEF TransferInv, NeverMoved
<1>7. ASSUME ~tcame
      PROVE  /\ \A i, j \in 1 .. Len(twork) : i # j => twork[i] \cap twork[j] = {}
             /\ \A i \in 1 .. Len(twork) : i # 1 => twork[i] \cap tcopies' = {}
             /\ tanswer' = "limit" => twork[1] \cap tcopies' = {} /\ Cardinality(twork[1]) > tlimit
             /\ tanswer' = "conflict" => twork[1] \cap trefused # {}
  <2>1. /\ \A i, j \in 1 .. Len(twork) : i # j => twork[i] \cap twork[j] = {}
        /\ \A i \in 1 .. Len(twork) : twork[i] \cap tcopies = {}
    BY <1>2, <1>7 DEF TransferInv, Fresh
  <2>2. \A i \in 1 .. Len(twork) : i # 1 => twork[i] \cap tcopies' = {}
    BY <1>1, <1>3, <2>1
  <2> QED
    BY <1>1, <1>3, <2>1, <2>2
<1>8. Fresh'
  BY <1>2, <1>7 DEF Fresh
<1> QED
  BY <1>4, <1>5, <1>6, <1>8 DEF TransferInv

LEMMA JudgeStep ==
  ASSUME TransferInv, Judging, Judge
  PROVE  TransferInv'
<1>0. tline = "judge" /\ Missing(Chunk) \in SUBSET Chunk
  BY DEF Judging, Missing
<1>1. /\ twork \in Seq(SUBSET File) /\ twork # <<>> /\ Chunk = twork[1] /\ Chunk \in SUBSET File
      /\ 1 \in 1 .. Len(twork)
  <2>1. twork \in Seq(SUBSET File) /\ twork # <<>>
    BY <1>0 DEF TransferInv, TransferTypeOK, WorkAtLine
  <2> QED
    BY <2>1, HeadTailProperties, EmptySeq, LenProperties DEF Chunk
<1>2. /\ Missing(Chunk) \in SUBSET File /\ IsFiniteSet(Chunk) /\ IsFiniteSet(Missing(Chunk))
      /\ Cardinality(Chunk) \in Nat /\ Cardinality(Missing(Chunk)) \in Nat
  BY <1>0, <1>1, FilesFinite, FS_CardinalityType
<1>3. CASE ChunkDone
  <2>1. /\ twork' = <<>> \o Tail(twork) /\ tattempt' = 0 /\ KeepWorld /\ UNCHANGED tblamed
        /\ Missing(Chunk) = {} /\ tline' = IF twork' = <<>> THEN "second" ELSE "call"
    BY <1>1, <1>3, HeadTailProperties, ConcatEmptySeq DEF ChunkDone, To
  <2>2. <<>> \in Seq(SUBSET File) /\ Len(<<>>) = 0
    BY EmptySeq
  <2>3. 1 .. Len(<<>>) = {}
    BY <2>2
  <2> HIDE DEF Missing
  <2> QED
    BY <1>0, <2>1, <2>2, <2>3, NextCall
<1>4. CASE LimitReached
  <2>1. CASE Cardinality(Missing(Chunk)) > 1 /\ SplitChunk(tlimit)
    <3>1. tlimit \in Nat
      BY DEF TransferInv, TransferTypeOK, File
    <3> QED
      BY <1>0, <2>1, <3>1, SplitStep
  <2>2. CASE Cardinality(Missing(Chunk)) = 1 /\ Ends("permanent", Missing(Chunk)) /\ GiveUp /\ KeepWorld
    <3>1. ASSUME ~tcame PROVE FALSE
      <4>1. Chunk \cap tcopies = {} /\ Cardinality(Chunk) > tlimit
        BY <1>0, <1>1, <1>4, <3>1 DEF TransferInv, Fresh, LimitReached
      <4>2. Missing(Chunk) = Chunk
        BY <4>1 DEF Missing
      <4>3. tlimit \in Nat /\ tlimit >= 1
        BY TransferAssumption DEF TransferInv, TransferTypeOK, File
      <4> QED
        BY <1>2, <2>2, <4>1, <4>2, <4>3
    <3> QED
      BY <1>2, <2>2, <3>1, StagingEnds DEF Ends, To
  <2> QED
    BY <1>4, <2>1, <2>2 DEF LimitReached
<1>5. CASE Stopped
  BY <1>5, StagingEnds DEF Stopped, To, TransferInv, TransferTypeOK
<1>6. CASE Conflicts
  <2>1. CASE Cardinality(Missing(Chunk)) > 1 /\ SplitChunk(0)
    BY <1>0, <2>1, SplitStep
  <2>2. CASE Cardinality(Missing(Chunk)) = 1 /\ Ends("permanent", Missing(Chunk)) /\ GiveUp /\ KeepWorld
    <3>1. ASSUME ~tcame PROVE Missing(Chunk) \subseteq trefused
      <4>1. PICK g \in Chunk : g \in trefused
        BY <1>0, <1>1, <1>6, <3>1 DEF TransferInv, Fresh, Conflicts
      <4>2. g \in Missing(Chunk)
        BY <4>1 DEF Missing, TransferInv, NeverMoved
      <4>3. PICK f : Missing(Chunk) = {f}
        BY <1>2, <2>2, FS_Singleton
      <4> QED
        BY <4>1, <4>2, <4>3
    <3> QED
      BY <1>2, <2>2, <3>1, StagingEnds DEF Ends, To
  <2> QED
    BY <1>6, <2>1, <2>2 DEF Conflicts
<1>7. CASE MakeProgress
  <2> DEFINE r == <<Missing(Chunk)>>
  <2>1. r \in Seq(SUBSET File) /\ Len(r) = 1 /\ r[1] = Missing(Chunk)
    BY <1>2
  <2>2. /\ twork' = r \o Tail(twork) /\ tattempt' = 0 /\ KeepWorld /\ UNCHANGED tblamed /\ tline' = "call"
    BY <1>7 DEF MakeProgress, To
  <2> HIDE DEF r
  <2>3. twork' # <<>>
    <3>1. Len(r \o Tail(twork)) = Len(r) + Len(twork) - 1
      BY <1>1, <2>1, Replace
    <3>2. Len(twork) \in Nat /\ Len(twork) >= 1
      BY <1>1, LenProperties
    <3>3. Len(twork') # 0
      BY <2>1, <2>2, <3>1, <3>2
    <3> QED
      BY <3>3, EmptySeq
  <2>4. /\ \A f \in Missing(Chunk) : \E i \in 1 .. Len(r) : f \in r[i]
        /\ \A i \in 1 .. Len(r) : r[i] \subseteq Missing(Chunk)
        /\ \A i, j \in 1 .. Len(r) : i # j => r[i] \cap r[j] = {}
    BY <2>1
  <2> QED
    BY <1>0, <2>1, <2>2, <2>3, <2>4, NextCall
<1>8. CASE NoProgress
  <2>1. CASE LastAttempt
    BY <1>8, <2>1, StagingEnds DEF NoProgress, To, TransferInv, TransferTypeOK
  <2>2. CASE ~LastAttempt
    <3> USE DEF KeepWorld, provider
    <3>1. /\ tline' = "call" /\ tattempt' = tattempt + 1 /\ UNCHANGED <<twork, tblamed>> /\ KeepWorld
          /\ ~MadeProgress
      BY <1>8, <2>2 DEF NoProgress, To
    <3>2. tattempt' \in 0 .. MaxAttempts - 1
      BY <2>2, <3>1, TransferAssumption DEF LastAttempt, TransferInv, TransferTypeOK
    <3>3. Missing(Chunk) = Chunk
      <4>1. Cardinality(Missing(Chunk)) <= Cardinality(Chunk)
            /\ (Cardinality(Missing(Chunk)) = Cardinality(Chunk) => Chunk = Missing(Chunk))
        BY <1>0, <1>2, FS_Subset
      <4>2. ~(Cardinality(Missing(Chunk)) < Cardinality(Chunk))
        BY <3>1 DEF MadeProgress
      <4> QED
        BY <1>2, <4>1, <4>2
    <3>4. TransferTypeOK'
      BY <3>1, <3>2 DEF TransferInv, TransferTypeOK, TransferLine, Running, Answer
    <3>5. WorkAtLine' /\ Forgotten' /\ NeverMoved' /\ BlameIsReal'
      BY <1>0, <3>1 DEF TransferInv, WorkAtLine, Forgotten, Covered, NeverMoved, BlameIsReal
    <3>6. Fresh'
      <4>1. twork[1] \cap tcopies = {}
        BY <1>1, <3>3 DEF Missing
      <4> QED
        BY <1>0, <3>1, <4>1 DEF TransferInv, Fresh
    <3> QED
      BY <3>4, <3>5, <3>6 DEF TransferInv
  <2> QED
    BY <2>1, <2>2
<1> QED
  BY <1>3, <1>4, <1>5, <1>6, <1>7, <1>8 DEF Judge

LEMMA LateStep ==
  ASSUME TransferInv, ArriveLate
  PROVE  TransferInv'
<1> USE DEF engine, provider
<1>1. PICK f \in tlate \ tcopies : tcopies' = tcopies \cup {f} /\ tlate' = tlate \ {f}
  BY DEF ArriveLate
<1>2. tcame' = TRUE /\ UNCHANGED <<engine, provider>>
  BY DEF ArriveLate
<1>3. TransferTypeOK'
  BY <1>1, <1>2 DEF TransferInv, TransferTypeOK
<1>4. WorkAtLine' /\ NeverMoved' /\ Fresh' /\ BlameIsReal'
  BY <1>1, <1>2 DEF TransferInv, WorkAtLine, NeverMoved, Fresh, BlameIsReal
<1>5. Forgotten'
  BY <1>1, <1>2 DEF TransferInv, TransferTypeOK, Forgotten, Covered
<1> QED
  BY <1>3, <1>4, <1>5 DEF TransferInv

LEMMA TransferStep == TransferInv /\ [TransferNext]_transferVars => TransferInv'
<1> SUFFICES ASSUME TransferInv, [TransferNext]_transferVars PROVE TransferInv'
  OBVIOUS
<1>0. tblamed \in SUBSET File /\ tstagings \in 0 .. MaxStagings /\ MaxStagings \in Nat
  BY TransferAssumption DEF TransferInv, TransferTypeOK
<1>1. CASE StartBatch
  BY <1>0, <1>1, QuietLines DEF StartBatch, To
<1>2. CASE EnsureDirectory
  BY <1>0, <1>2, QuietLines DEF EnsureDirectory, To
<1>3. CASE SecondReconcile
  BY <1>0, <1>3, QuietLines DEF SecondReconcile, To
<1>4. CASE ListFails \/ TransferCrash
  BY <1>0, <1>4, StagingEnds DEF ListFails, TransferCrash, To
<1>5. CASE ListConflicts
  <2>1. Damaged \in SUBSET File /\ Damaged \subseteq tdiffer
    BY DEF Damaged, TransferInv, TransferTypeOK
  <2> QED
    BY <1>5, <2>1, StagingEnds DEF ListConflicts, Ends, To
<1>6. CASE Judge
  <2>1. Judging
    BY <1>6 DEF Judge, ChunkDone, LimitReached, Stopped, Conflicts, MakeProgress, NoProgress
  <2> QED
    BY <1>6, <2>1, JudgeStep
<1>7. CASE UNCHANGED transferVars
  BY <1>7 DEF transferVars, engine, provider, TransferInv, TransferTypeOK, WorkAtLine, Forgotten, Covered,
     NeverMoved, Fresh, BlameIsReal
<1> QED
  BY <1>1, <1>2, <1>3, <1>4, <1>5, <1>6, <1>7, FirstCall, CallStep, LateStep
     DEF TransferNext, Execute

----------------------------------------------------------------------------
(* The theorems *)

(* The first staging begins with an empty directory and no chunk.          *)
LEMMA TransferBegins == TransferInit => TransferInv
<1> SUFFICES ASSUME TransferInit PROVE TransferInv
  OBVIOUS
<1>1. twork = <<>> /\ Len(twork) = 0 /\ twork \in Seq(SUBSET File)
  BY EmptySeq DEF TransferInit
<1>2. TransferTypeOK
  <2>1. 0 \in 0 .. MaxAttempts - 1 /\ 0 \in 0 .. MaxStagings
    BY TransferAssumption
  <2>2. tattempt = 0 /\ tstagings = 0 /\ tlimit \in File
    BY DEF TransferInit
  <2>3. tline \in TransferLine /\ tanswer \in Answer /\ tcame \in BOOLEAN
    BY DEF TransferInit, TransferLine, Verdict, Answer
  <2>4. /\ tcopies \subseteq File /\ tlate \subseteq File /\ tblamed \subseteq File
        /\ trefused \subseteq File /\ tdiffer \subseteq File
    BY DEF TransferInit
  <2> QED
    BY <1>1, <2>1, <2>2, <2>3, <2>4 DEF TransferTypeOK
<1>3. WorkAtLine /\ Forgotten /\ NeverMoved /\ Fresh /\ BlameIsReal
  BY <1>1 DEF TransferInit, WorkAtLine, Forgotten, Covered, NeverMoved, Fresh, BlameIsReal
<1> QED
  BY <1>2, <1>3 DEF TransferInv

(* The inductive invariant of a staging: every missing file is in a chunk, *)
(* and as long as no call came late the chunks are disjoint and new.       *)
THEOREM TransferInvariant == TransferSpec => []TransferInv
<1>1. TransferInit => TransferInv
  BY TransferBegins
<1>2. TransferInv /\ [TransferNext]_transferVars => TransferInv'
  BY TransferStep
<1> QED
  BY <1>1, <1>2, PTL DEF TransferSpec

(* However chunks are split and shrink, what is not yet in the directory   *)
(* is in one of them (transferSubset, transferSplit).                      *)
THEOREM SplittingForgetsNothing == TransferSpec => []NothingForgotten
<1>1. TransferInv => NothingForgotten
  BY DEF TransferInv, WorkAtLine, Forgotten, Covered, NothingForgotten
<1> QED
  BY <1>1, TransferInvariant, PTL

(* A batch fails for good only because of a file that Baidu refuses or     *)
(* that differs, or after a call was carried out late (transferSubset).    *)
THEOREM BlameNeedsACause == TransferSpec => []BlameIsReal
<1>1. TransferInv => BlameIsReal
  BY DEF TransferInv
<1> QED
  BY <1>1, TransferInvariant, PTL

----------------------------------------------------------------------------
(* The retry budget *)

(* Two numbers of a set have different ranks.                              *)
LEMMA RanksDiffer ==
  ASSUME NEW S, IsFiniteSet(S), S \subseteq Nat, NEW f \in S, NEW g \in S, Rank(S, f) = Rank(S, g)
  PROVE  f = g
<1>1. ASSUME NEW x \in S, NEW y \in S, x < y PROVE Rank(S, x) < Rank(S, y)
  <2>1. PICK B : B = {h \in S : h < y}
    OBVIOUS
  <2>2. B \in SUBSET S /\ x \in B
    BY <1>1, <2>1
  <2>3. IsFiniteSet(B) /\ B \subseteq Nat
    BY <2>2, FS_Subset
  <2>4. Rank(B, x) + 1 <= Cardinality(B) /\ Rank(B, x) \in Nat /\ Cardinality(B) \in Nat
    BY <2>2, <2>3, RankBound, FS_CardinalityType
  <2>5. {h \in B : h < x} = {h \in S : h < x}
    <3>1. \A h \in S : h < x => h < y
      BY <1>1
    <3> QED
      BY <2>1, <3>1
  <2>6. Rank(B, x) = Rank(S, x) /\ Rank(S, y) = Cardinality(B)
    BY <2>1, <2>5 DEF Rank
  <2> QED
    BY <2>4, <2>6
<1>2. f = g \/ f < g \/ g < f
  OBVIOUS
<1>3. Rank(S, f) \in Nat
  BY RankBound
<1> QED
  BY <1>1, <1>2, <1>3

(* The ranks in a set of n numbers are 0, ..., n - 1.                      *)
LEMMA RanksAreAll ==
  ASSUME NEW S, IsFiniteSet(S), S \subseteq Nat, NEW k \in Nat, k < Cardinality(S)
  PROVE  \E f \in S : Rank(S, f) = k
<1> DEFINE n == Cardinality(S)
           r == [f \in S |-> Rank(S, f) + 1]
<1>1. n \in Nat
  BY FS_CardinalityType
<1>2. \A f \in S : Rank(S, f) \in Nat /\ Rank(S, f) + 1 <= n
  BY RankBound
<1>3. \A f, g \in S : Rank(S, f) = Rank(S, g) => f = g
  BY RanksDiffer
<1>4. r \in Injection(S, 1 .. n)
  <2>1. r \in [S -> 1 .. n]
    BY <1>1, <1>2
  <2>2. \A f, g \in S : r[f] = r[g] => f = g
    BY <1>2, <1>3
  <2> QED
    BY <2>1, <2>2 DEF Injection, IsInjective
<1>5. r \in Surjection(S, 1 .. n)
  <2>1. IsFiniteSet(1 .. n) /\ Cardinality(1 .. n) = n
    BY <1>1, FS_Interval
  <2> QED
    BY <1>4, <2>1, FS_Injection
<1>6. k + 1 \in 1 .. n
  BY <1>1
<1>7. \A f \in S : r[f] = Rank(S, f) + 1
  OBVIOUS
<1> HIDE DEF r
<1>8. PICK f \in S : r[f] = k + 1
  BY <1>5, <1>6 DEF Surjection
<1>9. Rank(S, f) = k
  BY <1>2, <1>7, <1>8
<1> QED
  BY <1>9

(* A chunk of more than one file is split into at least two parts, and     *)
(* none of them is empty, so every call asks for something.                *)
LEMMA SplitParts ==
  ASSUME NEW S, IsFiniteSet(S), S \subseteq Nat, NEW size \in Nat \ {0}, size < Cardinality(S)
  PROVE  /\ Len(Split(S, size)) >= 2
         /\ \A i \in 1 .. Len(Split(S, size)) : Split(S, size)[i] # {}
<1> DEFINE n == Cardinality(S)
           parts == (n + size - 1) \div size
<1>1. n \in Nat /\ n + size - 1 \in Nat
  BY FS_CardinalityType
<1>2. /\ parts \in Nat /\ parts * size <= n + size - 1
      /\ \A m \in Nat : m * size <= n + size - 1 => m <= parts
  BY <1>1, Quotient
<1>3. Split(S, size) = [i \in 1 .. parts |-> {f \in S : Rank(S, f) \div size = i - 1}]
  BY DEF Split
<1> HIDE DEF parts
<1>4. Split(S, size) \in Seq(SUBSET S) /\ Len(Split(S, size)) = parts
  <2>1. [i \in 1 .. parts |-> {f \in S : Rank(S, f) \div size = i - 1}] \in [1 .. parts -> SUBSET S]
    OBVIOUS
  <2> QED
    BY <1>2, <1>3, <2>1
<1>5. parts >= 2
  <2>1. 2 * size <= n + size - 1
    BY <1>1
  <2> QED
    BY <1>2, <2>1
<1>6. ASSUME NEW i \in 1 .. parts PROVE \E f \in S : Rank(S, f) \div size = i - 1
  <2>1. PICK x \in Nat : x = i - 1 /\ x + 1 <= parts
    BY <1>2
  <2>2. x * size \in Nat /\ x * size < n
    <3>1. PICK d \in Nat : parts = x + 1 + d
      <4>1. parts - (x + 1) \in Nat /\ parts = x + 1 + (parts - (x + 1))
        BY <1>2, <2>1
      <4> QED
        BY <4>1
    <3>2. /\ parts * size = x * size + size + d * size
          /\ d * size \in Nat /\ x * size \in Nat
      BY <3>1
    <3> QED
      BY <1>1, <1>2, <3>2
  <2>3. PICK f \in S : Rank(S, f) = x * size
    BY <2>2, RanksAreAll
  <2>4. (x * size) \div size = x
    <3>1. PICK q : q = (x * size) \div size
      OBVIOUS
    <3>2. q \in Nat /\ q * size <= x * size /\ x <= q
      <4>1. x * size <= x * size
        BY <2>2
      <4> QED
        BY <2>2, <3>1, <4>1, Quotient
    <3>3. ASSUME q # x PROVE FALSE
      <4>1. PICK d \in Nat : q = x + 1 + d
        <5>1. q - (x + 1) \in Nat /\ q = x + 1 + (q - (x + 1))
          BY <3>2, <3>3
        <5> QED
          BY <5>1
      <4>2. q * size = x * size + size + d * size /\ d * size \in Nat
        BY <4>1
      <4> QED
        BY <2>2, <3>2, <4>2
    <3> QED
      BY <3>1, <3>3
  <2> QED
    BY <2>1, <2>3, <2>4
<1>7. \A i \in 1 .. parts : Split(S, size)[i] = {f \in S : Rank(S, f) \div size = i - 1}
  BY <1>3
<1> QED
  BY <1>4, <1>5, <1>6, <1>7

(* The parts are shorter than the chunk.                                   *)
LEMMA ChunkSizeBelow ==
  ASSUME NEW S \in SUBSET File, Cardinality(S) > 1, NEW limit \in Nat
  PROVE  ChunkSize(S, limit) < Cardinality(S)
<1>1. Cardinality(S) \in Nat
  BY FilesFinite, FS_CardinalityType
<1>2. (Cardinality(S) + 1) \div 2 < Cardinality(S)
  BY <1>1
<1> QED
  BY <1>1, <1>2 DEF ChunkSize

(* The files in the chunks, each with the place of its chunk.              *)
Places(work) == {w \in (1 .. Len(work)) \X File : w[2] \in work[w[1]]}

LEMMA PlacesFinite ==
  ASSUME NEW s \in Seq(SUBSET File)
  PROVE  IsFiniteSet(Places(s)) /\ Load(s) = Cardinality(Places(s)) /\ Load(s) \in Nat
<1>1. IsFiniteSet(1 .. Len(s)) /\ IsFiniteSet(File)
  BY FS_Interval, FilesFinite, LenProperties
<1>2. IsFiniteSet((1 .. Len(s)) \X File)
  BY <1>1, FS_Product
<1>3. IsFiniteSet(Places(s))
  BY <1>2, FS_Subset DEF Places
<1> QED
  BY <1>3, FS_CardinalityType DEF Load, Places

(* Disjoint chunks hold no more files than there are.                      *)
LEMMA LoadOfParts ==
  ASSUME NEW S \in SUBSET File, NEW r \in Seq(SUBSET S),
         \A i, j \in 1 .. Len(r) : i # j => r[i] \cap r[j] = {}
  PROVE  Load(r) <= Cardinality(S)
<1>1. r \in Seq(SUBSET File) /\ IsFiniteSet(S)
  BY FilesFinite
<1>2. PICK p : p = [w \in Places(r) |-> w[2]]
  OBVIOUS
<1>3. p \in Injection(Places(r), S)
  <2>1. \A w \in Places(r) : w[2] \in S
    BY DEF Places
  <2>2. ASSUME NEW v \in Places(r), NEW w \in Places(r), v[2] = w[2] PROVE v = w
    <3>1. /\ v[1] \in 1 .. Len(r) /\ w[1] \in 1 .. Len(r) /\ v[2] \in r[v[1]] \cap r[w[1]]
          /\ v = <<v[1], v[2]>> /\ w = <<w[1], w[2]>>
      BY <2>2 DEF Places
    <3> QED
      BY <2>2, <3>1
  <2> QED
    BY <1>2, <2>1, <2>2 DEF Injection, IsInjective
<1> QED
  BY <1>1, <1>3, FS_Injection, PlacesFinite

(* Chunks that are not empty hold at least one file each.                  *)
LEMMA LoadAtLeast ==
  ASSUME NEW s \in Seq(SUBSET File), \A i \in 1 .. Len(s) : s[i] # {}
  PROVE  Len(s) <= Load(s)
<1>1. PICK p : p = [i \in 1 .. Len(s) |-> <<i, CHOOSE f : f \in s[i]>>]
  OBVIOUS
<1>2. \A i \in 1 .. Len(s) : p[i] \in Places(s) /\ p[i][1] = i
  <2> SUFFICES ASSUME NEW i \in 1 .. Len(s) PROVE p[i] \in Places(s) /\ p[i][1] = i
    OBVIOUS
  <2>1. PICK f : f = CHOOSE g : g \in s[i]
    OBVIOUS
  <2>2. f \in s[i] /\ p[i] = <<i, f>>
    BY <1>1, <2>1
  <2>3. f \in File
    BY <2>2
  <2> QED
    BY <2>2, <2>3 DEF Places
<1>3. p \in Injection(1 .. Len(s), Places(s))
  <2>1. p \in [1 .. Len(s) -> Places(s)]
    BY <1>1, <1>2
  <2> QED
    BY <1>2, <2>1 DEF Injection, IsInjective
<1>4. Len(s) \in Nat /\ Cardinality(1 .. Len(s)) = Len(s)
  <2>1. Len(s) \in Nat
    BY LenProperties
  <2> QED
    BY <2>1, FS_Interval
<1> QED
  BY <1>3, <1>4, FS_Injection, PlacesFinite

(* What the chunks hold after the first of them was replaced.              *)
LEMMA LoadReplaced ==
  ASSUME NEW s \in Seq(SUBSET File), s # <<>>, NEW r \in Seq(SUBSET File)
  PROVE  Load(r \o Tail(s)) = Load(r) + Load(s) - Cardinality(s[1])
<1>1. PICK w : w = r \o Tail(s)
  OBVIOUS
<1>2. /\ w \in Seq(SUBSET File)
      /\ Len(w) = Len(r) + Len(s) - 1
      /\ \A i \in 1 .. Len(r) : w[i] = r[i]
      /\ \A i \in Len(r) + 1 .. Len(r) + Len(s) - 1 : w[i] = s[i - Len(r) + 1]
      /\ \A i \in 1 .. Len(s) - 1 : w[Len(r) + i] = s[i + 1]
  BY <1>1, Replace
<1>3. Len(r) \in Nat /\ Len(s) \in Nat /\ Len(s) >= 1
  BY EmptySeq, LenProperties
<1>4. PICK F : F = {e \in Places(s) : e[1] = 1}
  OBVIOUS
<1>5. PICK G : G = {e \in Places(w) : e[1] > Len(r)}
  OBVIOUS
<1>6. /\ IsFiniteSet(Places(s)) /\ IsFiniteSet(Places(r)) /\ IsFiniteSet(Places(w))
      /\ Load(s) = Cardinality(Places(s)) /\ Load(r) = Cardinality(Places(r))
      /\ Load(w) = Cardinality(Places(w))
      /\ Load(s) \in Nat /\ Load(r) \in Nat /\ Load(w) \in Nat
  BY <1>2, PlacesFinite
<1>7. IsFiniteSet(F) /\ IsFiniteSet(G) /\ IsFiniteSet(Places(s) \ F)
  BY <1>4, <1>5, <1>6, FS_Subset
<1>8. Cardinality(s[1]) = Cardinality(F)
  <2>1. PICK p : p = [e \in F |-> e[2]]
    OBVIOUS
  <2>2. \A e \in F : e[2] \in s[1] /\ e = <<1, e[2]>>
    BY <1>4 DEF Places
  <2>3. \A f \in s[1] : <<1, f>> \in F
    BY <1>3, <1>4 DEF Places
  <2>4. p \in Injection(F, s[1])
    BY <2>1, <2>2 DEF Injection, IsInjective
  <2>5. p \in Surjection(F, s[1])
    <3>1. \A f \in s[1] : p[<<1, f>>] = f
      BY <2>1, <2>3
    <3> QED
      BY <2>1, <2>2, <2>3, <3>1 DEF Surjection
  <2>6. ExistsBijection(F, s[1])
    BY <2>4, <2>5 DEF ExistsBijection, Bijection
  <2> QED
    BY <1>7, <2>6, FS_Bijection
<1>9. Cardinality(G) = Cardinality(Places(s) \ F)
  <2> DEFINE R == Places(s) \ F
  <2>1. PICK p : p = [e \in R |-> <<Len(r) + e[1] - 1, e[2]>>]
    OBVIOUS
  <2>2. ASSUME NEW e \in R
        PROVE  /\ e[1] \in 2 .. Len(s) /\ e = <<e[1], e[2]>>
               /\ <<Len(r) + e[1] - 1, e[2]>> \in G
    <3>1. /\ e[1] \in 1 .. Len(s) /\ e[1] # 1 /\ e[2] \in File /\ e[2] \in s[e[1]]
          /\ e = <<e[1], e[2]>>
      BY <1>4 DEF Places
    <3>2. PICK i : i = Len(r) + e[1] - 1
      OBVIOUS
    <3>3. i \in 1 .. Len(w) /\ i > Len(r) /\ i \in Len(r) + 1 .. Len(r) + Len(s) - 1
          /\ i - Len(r) + 1 = e[1]
      BY <1>2, <1>3, <3>1, <3>2
    <3>4. w[i] = s[e[1]]
      BY <1>2, <3>3
    <3>5. <<i, e[2]>> \in G
      BY <1>5, <3>1, <3>3, <3>4 DEF Places
    <3> QED
      BY <1>3, <3>1, <3>2, <3>5
  <2>3. ASSUME NEW e \in G
        PROVE  \E d \in R : e = <<Len(r) + d[1] - 1, d[2]>>
    <3>1. /\ e[1] \in 1 .. Len(w) /\ e[1] > Len(r) /\ e[2] \in File /\ e[2] \in w[e[1]]
          /\ e = <<e[1], e[2]>>
      BY <1>5 DEF Places
    <3>2. PICK j : j = e[1] - Len(r) + 1
      OBVIOUS
    <3>3. /\ j \in 1 .. Len(s) /\ j # 1 /\ Len(r) + j - 1 = e[1]
          /\ e[1] \in Len(r) + 1 .. Len(r) + Len(s) - 1
      BY <1>2, <1>3, <3>1, <3>2
    <3>4. w[e[1]] = s[j]
      BY <1>2, <3>2, <3>3
    <3>5. <<j, e[2]>> \in R
      BY <1>4, <3>1, <3>3, <3>4 DEF Places
    <3> QED
      BY <3>1, <3>3, <3>5
  <2> HIDE DEF R
  <2>4. p \in Injection(R, G)
    <3>1. p \in [R -> G]
      BY <2>1, <2>2
    <3>2. ASSUME NEW d \in R, NEW e \in R, p[d] = p[e] PROVE d = e
      <4>1. Len(r) + d[1] - 1 = Len(r) + e[1] - 1 /\ d[2] = e[2]
        BY <2>1, <3>2
      <4>2. d[1] \in 2 .. Len(s) /\ e[1] \in 2 .. Len(s)
        BY <2>2
      <4>3. d[1] = e[1]
        BY <1>3, <4>1, <4>2
      <4> QED
        BY <2>2, <4>1, <4>3
    <3> QED
      BY <3>1, <3>2 DEF Injection, IsInjective
  <2>5. p \in Surjection(R, G)
    <3>1. \A e \in G : \E d \in R : p[d] = e
      BY <2>1, <2>3
    <3> QED
      BY <2>4, <3>1 DEF Injection, Surjection
  <2>6. ExistsBijection(R, G)
    BY <2>4, <2>5 DEF ExistsBijection, Bijection
  <2> QED
    BY <1>7, <2>6, FS_Bijection DEF R
<1>10. Places(w) = Places(r) \cup G /\ Places(r) \cap G = {}
  <2>1. \A e \in Places(w) : e[1] \in 1 .. Len(r) \/ e[1] > Len(r)
    BY <1>3 DEF Places
  <2>2. 1 .. Len(r) \subseteq 1 .. Len(w)
    BY <1>2, <1>3
  <2>3. \A e \in Places(r) : e \in Places(w) /\ ~(e[1] > Len(r))
    BY <1>2, <1>3, <2>2 DEF Places
  <2>4. \A e \in Places(w) : e[1] \in 1 .. Len(r) => e \in Places(r)
    BY <1>2 DEF Places
  <2> QED
    BY <1>5, <2>1, <2>3, <2>4
<1>11. Cardinality(Places(w)) = Cardinality(Places(r)) + Cardinality(G)
  <2>1. Cardinality({}) = 0
    BY FS_EmptySet
  <2>2. Cardinality(Places(r)) \in Nat /\ Cardinality(G) \in Nat
    BY <1>6, <1>7, FS_CardinalityType
  <2>3. Cardinality(Places(r) \cup G)
          = Cardinality(Places(r)) + Cardinality(G) - Cardinality(Places(r) \cap G)
    BY ONLY <1>6, <1>7, FS_Union
  <2>4. Cardinality(Places(r) \cap G) = 0
    BY <1>10, <2>1, Zenon
  <2>5. Cardinality(Places(w)) = Cardinality(Places(r) \cup G)
    BY <1>10, Zenon
  <2> QED
    BY <2>2, <2>3, <2>4, <2>5
<1>12. Cardinality(Places(s) \ F) = Cardinality(Places(s)) - Cardinality(F)
  <2>1. Places(s) \cap F = F
    BY <1>4
  <2>2. Cardinality(Places(s) \ F) = Cardinality(Places(s)) - Cardinality(Places(s) \cap F)
    BY ONLY <1>6, FS_Difference
  <2> QED
    BY <2>1, <2>2
<1>13. Cardinality(F) \in Nat
  BY <1>7, FS_CardinalityType
<1> QED
  BY <1>1, <1>6, <1>8, <1>9, <1>11, <1>12, <1>13

(* Every chunk asks for something, and as long as there is a chunk some of *)
(* the budget is left.                                                     *)
NoEmptyChunk == \A i \in 1 .. Len(twork) : twork[i] # {}
BudgetInv == TransferInv /\ NoEmptyChunk

LEMMA BudgetLeft ==
  ASSUME NEW s \in Seq(SUBSET File), \A i \in 1 .. Len(s) : s[i] # {},
         NEW a \in 0 .. MaxAttempts - 1
  PROVE  /\ MaxAttempts * (2 * Load(s) - Len(s)) - a \in Int
         /\ s # <<>> => MaxAttempts * (2 * Load(s) - Len(s)) - a >= 1
<1>1. MaxAttempts \in Nat \ {0} /\ (s # <<>> => Len(s) # 0)
  BY TransferAssumption, EmptySeq
<1>2. Load(s) \in Nat /\ Len(s) <= Load(s) /\ Len(s) \in Nat
  BY PlacesFinite, LoadAtLeast, LenProperties
<1>3. PICK x \in Nat : x = 2 * Load(s) - Len(s)
  <2>1. 2 * Load(s) - Len(s) \in Nat
    BY <1>2
  <2> QED
    BY <2>1
<1>4. MaxAttempts * x \in Nat /\ MaxAttempts * x - a \in Int
  BY <1>1
<1>5. ASSUME Len(s) # 0 PROVE MaxAttempts * x - a >= 1
  <2>1. x >= 1
    BY <1>2, <1>3, <1>5
  <2>2. PICK d \in Nat : x = d + 1
    <3>1. x - 1 \in Nat /\ x = (x - 1) + 1
      BY <2>1
    <3> QED
      BY <3>1
  <2>3. MaxAttempts * x = MaxAttempts * d + MaxAttempts /\ MaxAttempts * d \in Nat
    BY <1>1, <2>2
  <2> QED
    BY <1>1, <2>3
<1> QED
  BY <1>1, <1>3, <1>4, <1>5

(* A chunk is replaced by others: they hold fewer files, or they are more  *)
(* than one and hold no more files.                                        *)
LEMMA BudgetReplaced ==
  ASSUME BudgetInv, tline = "judge", NEW r \in Seq(SUBSET File), twork' = r \o Tail(twork),
         tattempt' = 0,
         \/ Load(r) < Cardinality(Chunk)
         \/ Load(r) <= Cardinality(Chunk) /\ Len(r) >= 2
  PROVE  CallsLeft' < CallsLeft
<1>1. /\ twork \in Seq(SUBSET File) /\ twork # <<>> /\ Chunk = twork[1] /\ Chunk \in SUBSET File
      /\ tattempt \in 0 .. MaxAttempts - 1 /\ MaxAttempts \in Nat \ {0}
  <2>1. twork \in Seq(SUBSET File) /\ twork # <<>> /\ tattempt \in 0 .. MaxAttempts - 1
    BY DEF BudgetInv, TransferInv, TransferTypeOK, WorkAtLine
  <2> QED
    BY <2>1, TransferAssumption, HeadTailProperties DEF Chunk
<1>2. PICK c \in Nat : c = Cardinality(Chunk)
  BY <1>1, FilesFinite, FS_CardinalityType
<1>3. PICK w : w = r \o Tail(twork)
  OBVIOUS
<1>4. /\ w \in Seq(SUBSET File) /\ Len(w) = Len(r) + Len(twork) - 1
      /\ Load(w) = Load(r) + Load(twork) - c
  BY <1>1, <1>2, <1>3, Replace, LoadReplaced
<1>5. Load(w) \in Nat /\ Load(r) \in Nat /\ Load(twork) \in Nat /\ Len(r) \in Nat /\ Len(twork) \in Nat
  BY <1>1, <1>4, PlacesFinite, LenProperties
<1>6. PICK k \in Nat, l \in Nat : k = Len(r) /\ l = Load(r)
  BY <1>5
<1>7. PICK m \in Nat, n \in Nat : m = Len(twork) /\ n = Load(twork)
  BY <1>5
<1>8. PICK x \in Int, y \in Int : x = 2 * n - m /\ y = 2 * (l + n - c) - (k + m - 1)
  <2>1. 2 * n - m \in Int /\ 2 * (l + n - c) - (k + m - 1) \in Int
    OBVIOUS
  <2> QED
    BY <2>1
<1>9. y + 1 <= x
  <2>1. l < c \/ (l <= c /\ k >= 2)
    BY <1>2, <1>6
  <2> QED
    BY ONLY <1>8, <2>1, c \in Nat, k \in Nat, l \in Nat, m \in Nat, n \in Nat
<1>10. PICK d \in Nat : x = y + 1 + d
  <2>1. x - y - 1 \in Nat /\ x = y + 1 + (x - y - 1)
    BY <1>9
  <2> QED
    BY <2>1
<1>11. /\ MaxAttempts * x = MaxAttempts * y + MaxAttempts + MaxAttempts * d
       /\ MaxAttempts * d \in Nat /\ MaxAttempts * y \in Int
  BY <1>1, <1>10
<1>12. CallsLeft = MaxAttempts * x - tattempt
  BY <1>7, <1>8 DEF CallsLeft
<1>13. CallsLeft' = MaxAttempts * y - 0
  <2>1. twork' = w /\ tattempt' = 0
    BY <1>3
  <2>2. CallsLeft' = MaxAttempts * (2 * Load(w) - Len(w)) - 0
    BY <2>1 DEF CallsLeft
  <2>3. Load(w) = l + n - c /\ Len(w) = k + m - 1
    BY <1>4, <1>6, <1>7
  <2> QED
    BY <1>8, <2>2, <2>3
<1>14. PICK a \in Nat : a = tattempt /\ a < MaxAttempts
  BY <1>1
<1>15. MaxAttempts * y - 0 < MaxAttempts * x - a
  BY ONLY <1>1, <1>11, <1>14, a \in Nat, d \in Nat
<1> QED
  BY <1>12, <1>13, <1>14, <1>15

LEMMA NoEmptyAfter ==
  ASSUME BudgetInv, tline = "judge", NEW r \in Seq(SUBSET File), twork' = r \o Tail(twork),
         \A i \in 1 .. Len(r) : r[i] # {}
  PROVE  NoEmptyChunk'
<1>1. twork \in Seq(SUBSET File) /\ twork # <<>>
  BY DEF BudgetInv, TransferInv, TransferTypeOK, WorkAtLine
<1>2. PICK w : w = r \o Tail(twork)
  OBVIOUS
<1>3. /\ Len(w) = Len(r) + Len(twork) - 1
      /\ \A i \in 1 .. Len(r) : w[i] = r[i]
      /\ \A i \in Len(r) + 1 .. Len(r) + Len(twork) - 1 : w[i] = twork[i - Len(r) + 1]
  BY <1>1, <1>2, Replace
<1>4. Len(r) \in Nat /\ Len(twork) \in Nat
  BY <1>1, LenProperties
<1>5. ASSUME NEW i \in 1 .. Len(w) PROVE w[i] # {}
  <2>1. CASE i \in 1 .. Len(r)
    BY <1>3, <2>1
  <2>2. CASE i \notin 1 .. Len(r)
    <3>1. i \in Len(r) + 1 .. Len(r) + Len(twork) - 1 /\ i - Len(r) + 1 \in 1 .. Len(twork)
      BY <1>3, <1>4, <2>2
    <3> QED
      BY <1>3, <3>1 DEF BudgetInv, NoEmptyChunk
  <2> QED
    BY <2>1, <2>2
<1> QED
  BY <1>2, <1>5 DEF NoEmptyChunk

(* A call that is followed by another one: what the step does to the list  *)
(* of chunks, or to the attempts.                                          *)
LEMMA JudgeSpends ==
  ASSUME BudgetInv, Judging, Judge
  PROVE  NoEmptyChunk' /\ (tline' = "call" => CallsLeft' < CallsLeft)
<1>0. tline = "judge" /\ Missing(Chunk) \in SUBSET Chunk
  BY DEF Judging, Missing
<1>1. /\ twork \in Seq(SUBSET File) /\ twork # <<>> /\ Chunk = twork[1] /\ Chunk \in SUBSET File
      /\ Chunk # {}
  <2>1. twork \in Seq(SUBSET File) /\ twork # <<>>
    BY <1>0 DEF BudgetInv, TransferInv, TransferTypeOK, WorkAtLine
  <2>2. 1 \in 1 .. Len(twork) /\ Chunk = twork[1] /\ Chunk \in SUBSET File
    BY <2>1, HeadTailProperties, EmptySeq, LenProperties DEF Chunk
  <2> QED
    BY <2>1, <2>2 DEF BudgetInv, NoEmptyChunk
<1>2. /\ Missing(Chunk) \in SUBSET File /\ IsFiniteSet(Chunk) /\ IsFiniteSet(Missing(Chunk))
      /\ Cardinality(Chunk) \in Nat /\ Cardinality(Missing(Chunk)) \in Nat
      /\ Cardinality(Missing(Chunk)) <= Cardinality(Chunk)
      /\ Cardinality(Chunk) >= 1
  <2>1. /\ Missing(Chunk) \in SUBSET File /\ IsFiniteSet(Chunk) /\ IsFiniteSet(Missing(Chunk))
        /\ Cardinality(Chunk) \in Nat /\ Cardinality(Missing(Chunk)) \in Nat
    BY <1>0, <1>1, FilesFinite, FS_CardinalityType
  <2>2. Cardinality(Missing(Chunk)) <= Cardinality(Chunk)
    BY <1>0, <2>1, FS_Subset
  <2>3. Cardinality(Chunk) # 0
    BY <1>1, <2>1, FS_EmptySet
  <2> QED
    BY <2>1, <2>2, <2>3
<1>3. CASE GiveUp /\ tline' # "call"
  <2>1. Len(twork') = 0
    BY <1>3, EmptySeq DEF GiveUp
  <2> QED
    BY <1>3, <2>1 DEF NoEmptyChunk
<1>4. CASE ChunkDone
  <2>1. twork' = <<>> \o Tail(twork) /\ tattempt' = 0
    BY <1>1, <1>4, HeadTailProperties, ConcatEmptySeq DEF ChunkDone
  <2>2. <<>> \in Seq(SUBSET {}) /\ <<>> \in Seq(SUBSET File) /\ Len(<<>>) = 0 /\ 1 .. Len(<<>>) = {}
    BY EmptySeq
  <2>3. Load(<<>>) <= 0
    <3>1. {} \in SUBSET File /\ Cardinality({}) = 0
      BY FS_EmptySet
    <3> QED
      BY <2>2, <3>1, LoadOfParts
  <2>4. Load(<<>>) < Cardinality(Chunk)
    <3>1. Load(<<>>) \in Nat
      BY <2>2, PlacesFinite
    <3> QED
      BY <1>2, <2>3, <3>1
  <2> QED
    BY <1>0, <2>1, <2>2, <2>4, BudgetReplaced, NoEmptyAfter
<1>5. ASSUME NEW limit \in Nat, Cardinality(Missing(Chunk)) > 1, SplitChunk(limit)
      PROVE  NoEmptyChunk' /\ CallsLeft' < CallsLeft
  <2>1. PICK S : S = Missing(Chunk)
    OBVIOUS
  <2>2. /\ S \in SUBSET File /\ IsFiniteSet(S) /\ S \subseteq Nat /\ Cardinality(S) > 1
        /\ Cardinality(S) <= Cardinality(Chunk) /\ Cardinality(S) \in Nat
    BY <1>2, <1>5, <2>1, FilesFinite
  <2>3. PICK size : size = ChunkSize(S, limit)
    OBVIOUS
  <2>4. size \in Nat \ {0} /\ size < Cardinality(S)
    BY <1>5, <2>2, <2>3, ChunkSizeType, ChunkSizeBelow
  <2>5. PICK r : r = Split(S, size)
    OBVIOUS
  <2>6. twork' = r \o Tail(twork) /\ tattempt' = 0
    BY <1>5, <2>1, <2>3, <2>5 DEF SplitChunk
  <2>7. /\ r \in Seq(SUBSET S)
        /\ \A i, j \in 1 .. Len(r) : i # j => r[i] \cap r[j] = {}
        /\ Len(r) >= 2 /\ \A i \in 1 .. Len(r) : r[i] # {}
    BY <2>2, <2>4, <2>5, SplitCovers, SplitParts
  <2>8. r \in Seq(SUBSET File)
    BY <2>2, <2>7
  <2>9. Load(r) <= Cardinality(S) /\ Load(r) \in Nat
    BY <2>2, <2>7, <2>8, LoadOfParts, PlacesFinite
  <2>10. Load(r) <= Cardinality(Chunk)
    BY <1>2, <2>2, <2>9
  <2> QED
    BY <1>0, <2>6, <2>7, <2>8, <2>10, BudgetReplaced, NoEmptyAfter
<1>6. CASE LimitReached
  <2>1. tlimit \in Nat
    BY DEF BudgetInv, TransferInv, TransferTypeOK, File
  <2> QED
    BY <1>3, <1>5, <1>6, <2>1 DEF LimitReached, Ends, To
<1>7. CASE Conflicts
  BY <1>3, <1>5, <1>7 DEF Conflicts, Ends, To
<1>8. CASE Stopped
  BY <1>3, <1>8 DEF Stopped, To
<1>9. CASE MakeProgress
  <2>1. PICK S : S = Missing(Chunk)
    OBVIOUS
  <2>2. S \in SUBSET File /\ S # {} /\ Cardinality(S) < Cardinality(Chunk) /\ Cardinality(S) \in Nat
    BY <1>2, <1>9, <2>1 DEF MakeProgress, MadeProgress
  <2>3. PICK r : r = <<S>>
    OBVIOUS
  <2>4. /\ r \in Seq(SUBSET S) /\ r \in Seq(SUBSET File) /\ Len(r) = 1 /\ r[1] = S
    BY <2>2, <2>3
  <2>5. twork' = r \o Tail(twork) /\ tattempt' = 0
    BY <1>9, <2>1, <2>3 DEF MakeProgress
  <2>6. Load(r) <= Cardinality(S) /\ Load(r) \in Nat
    <3>1. \A i, j \in 1 .. Len(r) : i # j => r[i] \cap r[j] = {}
      BY <2>4
    <3> QED
      BY <2>2, <2>4, <3>1, LoadOfParts, PlacesFinite
  <2>7. Load(r) < Cardinality(Chunk)
    BY <1>2, <2>2, <2>6
  <2>8. \A i \in 1 .. Len(r) : r[i] # {}
    BY <2>2, <2>4
  <2> QED
    BY <1>0, <2>4, <2>5, <2>7, <2>8, BudgetReplaced, NoEmptyAfter
<1>10. CASE NoProgress
  <2>1. CASE LastAttempt
    BY <1>3, <1>10, <2>1 DEF NoProgress, To
  <2>2. CASE ~LastAttempt
    <3>1. tattempt' = tattempt + 1 /\ twork' = twork
      BY <1>10, <2>2 DEF NoProgress
    <3>2. NoEmptyChunk'
      BY <3>1 DEF BudgetInv, NoEmptyChunk
    <3>3. PICK b : b = MaxAttempts * (2 * Load(twork) - Len(twork))
      OBVIOUS
    <3>4. CallsLeft = b - tattempt /\ CallsLeft' = b - (tattempt + 1)
      BY <3>1, <3>3 DEF CallsLeft
    <3>5. b \in Int /\ tattempt \in Int
      <4>1. Load(twork) \in Nat /\ Len(twork) \in Nat /\ MaxAttempts \in Nat
        BY <1>1, PlacesFinite, LenProperties, TransferAssumption
      <4>2. tattempt \in Int
        BY DEF BudgetInv, TransferInv, TransferTypeOK
      <4> QED
        BY <3>3, <4>1, <4>2
    <3> QED
      BY <3>2, <3>4, <3>5
  <2> QED
    BY <2>1, <2>2
<1> QED
  BY <1>4, <1>6, <1>7, <1>8, <1>9, <1>10 DEF Judge

LEMMA BudgetStep ==
  ASSUME BudgetInv, [TransferNext]_transferVars
  PROVE  /\ BudgetInv'
         /\ tline = "judge" /\ tline' = "call" => CallsLeft' \in 1 .. CallsLeft - 1
<1>1. TransferInv'
  BY TransferStep DEF BudgetInv
<1>2. NoEmptyChunk' /\ (tline = "judge" /\ tline' = "call" => CallsLeft' < CallsLeft)
  <2>1. CASE Judge
    <3>1. Judging
      BY <2>1 DEF Judge, ChunkDone, LimitReached, Stopped, Conflicts, MakeProgress, NoProgress
    <3> QED
      BY <2>1, <3>1, JudgeSpends
  <2>2. CASE ListFails \/ ListConflicts \/ TransferCrash
    <3>1. Len(twork') = 0 /\ tline' # "call"
      BY <2>2, EmptySeq DEF ListFails, ListConflicts, TransferCrash, GiveUp, To, Ends
    <3> QED
      BY <3>1 DEF NoEmptyChunk
  <2>3. CASE FirstReconcile
    <3>1. tline # "judge"
      BY <2>3 DEF FirstReconcile
    <3>2. CASE Missing(File) = {}
      BY <2>3, <3>1, <3>2 DEF FirstReconcile, BudgetInv, NoEmptyChunk
    <3>3. CASE Missing(File) # {}
      <4>1. twork' = <<Missing(File)>>
        BY <2>3, <3>3 DEF FirstReconcile
      <4>2. Len(twork') = 1 /\ twork'[1] # {}
        BY <3>3, <4>1
      <4> QED
        BY <3>1, <4>2 DEF NoEmptyChunk
    <3> QED
      BY <3>2, <3>3
  <2>4. CASE UNCHANGED twork /\ ~(tline = "judge" /\ tline' = "call")
    BY <2>4 DEF BudgetInv, NoEmptyChunk
  <2> QED
    BY <2>1, <2>2, <2>3, <2>4
       DEF TransferNext, Execute, StartBatch, EnsureDirectory, SecondReconcile, TransferFiles,
           ArriveLate, engine, transferVars, To
<1>3. BudgetInv'
  BY <1>1, <1>2 DEF BudgetInv
<1>4. CallsLeft \in Int
  <2>1. /\ twork \in Seq(SUBSET File) /\ tattempt \in 0 .. MaxAttempts - 1
        /\ \A i \in 1 .. Len(twork) : twork[i] # {}
    BY DEF BudgetInv, NoEmptyChunk, TransferInv, TransferTypeOK
  <2> QED
    BY <2>1, BudgetLeft DEF CallsLeft
<1>5. CallsLeft' \in Int /\ (tline' = "call" => CallsLeft' >= 1)
  <2>1. PICK w, a : w = twork' /\ a = tattempt'
    OBVIOUS
  <2>2. /\ w \in Seq(SUBSET File) /\ a \in 0 .. MaxAttempts - 1
        /\ \A i \in 1 .. Len(w) : w[i] # {}
        /\ tline' = "call" => w # <<>>
    BY <1>3, <2>1 DEF BudgetInv, NoEmptyChunk, TransferInv, TransferTypeOK, WorkAtLine
  <2>3. /\ MaxAttempts * (2 * Load(w) - Len(w)) - a \in Int
        /\ w # <<>> => MaxAttempts * (2 * Load(w) - Len(w)) - a >= 1
    BY <2>2, BudgetLeft
  <2>4. CallsLeft' = MaxAttempts * (2 * Load(w) - Len(w)) - a
    BY <2>1 DEF CallsLeft
  <2> QED
    BY <2>2, <2>3, <2>4
<1>6. ASSUME tline = "judge" /\ tline' = "call" PROVE CallsLeft' \in 1 .. CallsLeft - 1
  BY <1>2, <1>4, <1>5, <1>6
<1> QED
  BY <1>3, <1>6

(* Every call of a staging uses up part of a budget of which something is  *)
(* left whenever a call is made: however often progress resets the retry   *)
(* budget of a chunk (transferSubset) and a limit or a conflict splits one *)
(* (transferSplit), a staging makes fewer calls than MaxAttempts times     *)
(* twice the length of its batch.                                          *)
THEOREM BudgetIsFinite == TransferSpec => BudgetShrinks
<1>1. TransferInit => BudgetInv
  <2> SUFFICES ASSUME TransferInit PROVE BudgetInv
    OBVIOUS
  <2>1. Len(twork) = 0
    BY EmptySeq DEF TransferInit
  <2> QED
    BY <2>1, TransferBegins DEF BudgetInv, NoEmptyChunk
<1>2. BudgetInv /\ [TransferNext]_transferVars => BudgetInv'
  BY BudgetStep
<1>3. BudgetInv /\ [TransferNext]_transferVars
        => [tline = "judge" /\ tline' = "call" => CallsLeft' \in 1 .. CallsLeft - 1]_transferVars
  BY BudgetStep
<1> QED
  BY <1>1, <1>2, <1>3, PTL DEF TransferSpec, BudgetShrinks
=============================================================================
