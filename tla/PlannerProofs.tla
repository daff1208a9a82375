--------------------------- MODULE PlannerProofs ---------------------------
(***************************************************************************)
(* Proofs about the batch planner, for every finite set of files, every    *)
(* assignment of parents and sizes and every pair of bounds.               *)
(***************************************************************************)
EXTENDS Planner, FiniteSetTheorems, TLAPS

(* Every nonempty family of subsets of a finite set has a minimal member. *)
LEMMA MinimalSubset ==
  ASSUME NEW S, IsFiniteSet(S), NEW T \in SUBSET (SUBSET S), T # {}
  PROVE  \E x \in T : \A y \in T : y \subseteq x => y = x
  <1>1. IsWellFoundedOn(StrictSubsetOrdering(S), SUBSET S)
    BY FS_StrictSubsetOrderingWellFounded, FS_FiniteSubsetsOfFinite
  <1>2. \E x \in T : \A y \in T : ~ (<<y, x>> \in StrictSubsetOrdering(S))
    BY <1>1, WFMin
  <1> QED  BY <1>2 DEF StrictSubsetOrdering

(* Every nonempty set of naturals has a least element. *)
LEMMA LeastNat ==
  ASSUME NEW T, T \subseteq Nat, T # {}
  PROVE  \E m \in T : \A n \in T : m <= n
  <1>1. PICK k \in T : TRUE
    OBVIOUS
  <1>2. PICK L : L = {0 .. m : m \in {n \in T : n <= k}}
    OBVIOUS
  <1>3. PICK I : I = 0 .. k /\ IsFiniteSet(I)
    BY <1>1, FS_Interval
  <1>4. PICK x \in L : \A y \in L : y \subseteq x => y = x
    <2>1. IsFiniteSet(I) /\ L \in SUBSET (SUBSET I) /\ L # {}
      BY <1>1, <1>2, <1>3
    <2> QED  BY ONLY <2>1, MinimalSubset
  <1>5. PICK m \in T : m <= k /\ x = 0 .. m
    BY <1>2, <1>4
  <1>6. ASSUME NEW n \in T, n < m
        PROVE  FALSE
    <2>1. 0 .. n \in L /\ 0 .. n \subseteq x /\ m \in x /\ m \notin 0 .. n
      BY <1>1, <1>2, <1>5, <1>6
    <2> QED  BY <2>1, <1>4
  <1> QED  BY <1>5, <1>6

----------------------------------------------------------------------------
(* Sums of sizes.                                                          *)

Pick(s) == CHOOSE f \in s : TRUE

Sums(g, size, R) ==
  g = [s \in SUBSET R |-> IF s = {} THEN 0
                          ELSE size[Pick(s)] + g[s \ {Pick(s)}]]

LEMMA BytesUnfold ==
  \A S, size : Bytes(S, size) = (CHOOSE g : Sums(g, size, S))[S]
  BY DEF Bytes, MapThenSumSet, MapThenFoldSet, Sums, Pick

(* Two solutions of the equation that defines the sum agree wherever both  *)
(* are defined.                                                            *)
LEMMA SumsAgree ==
  ASSUME NEW size, NEW A, IsFiniteSet(A), NEW B, A \subseteq B,
         NEW g, Sums(g, size, A), NEW h, Sums(h, size, B)
  PROVE  \A s \in SUBSET A : g[s] = h[s]
  <1>1. PICK T : T = {s \in SUBSET A : g[s] # h[s]}
    OBVIOUS
  <1>2. ASSUME NEW x \in T, \A y \in T : y \subseteq x => y = x
        PROVE  FALSE
    <2>1. x \in SUBSET A /\ x \in SUBSET B /\ g[x] # h[x]
      BY <1>1, <1>2
    <2>2. /\ g[x] = IF x = {} THEN 0 ELSE size[Pick(x)] + g[x \ {Pick(x)}]
          /\ h[x] = IF x = {} THEN 0 ELSE size[Pick(x)] + h[x \ {Pick(x)}]
      BY <2>1, Zenon DEF Sums
    <2>3. x # {} /\ Pick(x) \in x
      BY <2>1, <2>2 DEF Pick
    <2>4. x \ {Pick(x)} \in T
      BY <1>1, <2>1, <2>2, <2>3
    <2> QED  BY <1>2, <2>3, <2>4
  <1>3. T = {}
    <2>1. T \in SUBSET (SUBSET A)
      BY <1>1
    <2> QED  BY <1>2, <2>1, MinimalSubset
  <1> QED  BY <1>1, <1>3

(* The sum is defined on every finite set. *)
LEMMA SumsExist ==
  ASSUME NEW size, NEW R, IsFiniteSet(R)
  PROVE  \E g : Sums(g, size, R)
  <1>1. PICK T : T = {s \in SUBSET R : ~ \E g : Sums(g, size, s)}
    OBVIOUS
  <1>2. ASSUME NEW x \in T, \A y \in T : y \subseteq x => y = x
        PROVE  FALSE
    <2> DEFINE G(s) == CHOOSE g : Sums(g, size, s)
               H == [s \in SUBSET x |->
                       IF s = {} THEN 0
                       ELSE size[Pick(s)] + G(s \ {Pick(s)})[s \ {Pick(s)}]]
    <2>1. x \in SUBSET R /\ ~ \E g : Sums(g, size, x)
      BY <1>1, <1>2
    <2>2. \A s \in SUBSET x : s # x => Sums(G(s), size, s)
      BY <1>1, <1>2, <2>1
    <2> HIDE DEF G
    <2>3. ASSUME NEW s \in SUBSET x, s # {}
          PROVE  H[s \ {Pick(s)}] = G(s \ {Pick(s)})[s \ {Pick(s)}]
      <3>1. PICK r : r = s \ {Pick(s)}
        OBVIOUS
      <3>2. r \in SUBSET x /\ r # x /\ IsFiniteSet(r)
        BY <2>1, <2>3, <3>1, FS_Subset DEF Pick
      <3>3. Sums(G(r), size, r)
        BY <2>2, <3>2
      <3>4. r \in SUBSET r
        OBVIOUS
      <3>5. G(r)[r] = IF r = {} THEN 0
                      ELSE size[Pick(r)] + G(r)[r \ {Pick(r)}]
        BY <3>3, <3>4, Zenon DEF Sums
      <3>6. H[r] = IF r = {} THEN 0
                   ELSE size[Pick(r)] + G(r \ {Pick(r)})[r \ {Pick(r)}]
        BY <3>2
      <3>7. ASSUME r # {}
            PROVE  G(r \ {Pick(r)})[r \ {Pick(r)}] = G(r)[r \ {Pick(r)}]
        <4>1. PICK q : q = r \ {Pick(r)}
          OBVIOUS
        <4>2. q \in SUBSET x /\ q # x /\ q \subseteq r /\ IsFiniteSet(q)
          BY <3>2, <3>7, <4>1, FS_Subset DEF Pick
        <4>3. Sums(G(q), size, q)
          BY <2>2, <4>2
        <4>4. \A u \in SUBSET q : G(q)[u] = G(r)[u]
          BY <4>2, <4>3, <3>3, SumsAgree
        <4> QED  BY <4>1, <4>4
      <3> QED  BY <3>1, <3>5, <3>6, <3>7
    <2>4. Sums(H, size, x)
      <3>1. H = [s \in SUBSET x |-> IF s = {} THEN 0
                                    ELSE size[Pick(s)] + H[s \ {Pick(s)}]]
        BY <2>3
      <3> HIDE DEF H
      <3> QED  BY <3>1 DEF Sums
    <2> HIDE DEF H
    <2> QED  BY <2>1, <2>4
  <1>3. T = {}
    <2>1. T \in SUBSET (SUBSET R)
      BY <1>1
    <2> QED  BY <1>2, <2>1, MinimalSubset
  <1>4. R \notin T
    BY <1>3
  <1>5. R \in SUBSET R
    OBVIOUS
  <1> QED  BY <1>1, <1>4, <1>5

(* What the sum computes: nothing for no file, and one file more for one   *)
(* more file, whichever is taken out first.                                *)
LEMMA BytesStep ==
  ASSUME NEW size, NEW S, IsFiniteSet(S)
  PROVE  Bytes(S, size) = IF S = {} THEN 0
                          ELSE size[Pick(S)] + Bytes(S \ {Pick(S)}, size)
  <1> DEFINE G(s) == CHOOSE g : Sums(g, size, s)
  <1>1. \A s : Bytes(s, size) = G(s)[s]
    BY BytesUnfold
  <1>2. \A s : IsFiniteSet(s) => Sums(G(s), size, s)
    BY SumsExist
  <1> HIDE DEF G
  <1>3. S \in SUBSET S
    OBVIOUS
  <1>4. G(S)[S] = IF S = {} THEN 0
                  ELSE size[Pick(S)] + G(S)[S \ {Pick(S)}]
    BY <1>2, <1>3, Zenon DEF Sums
  <1>5. ASSUME S # {}
        PROVE  G(S)[S \ {Pick(S)}] = G(S \ {Pick(S)})[S \ {Pick(S)}]
    <2>1. PICK q : q = S \ {Pick(S)}
      OBVIOUS
    <2>2. q \subseteq S /\ IsFiniteSet(q) /\ q \in SUBSET q
      BY <2>1, FS_Subset
    <2>3. \A u \in SUBSET q : G(q)[u] = G(S)[u]
      BY <2>2, <1>2, SumsAgree
    <2> QED  BY <2>1, <2>2, <2>3
  <1> QED  BY <1>1, <1>4, <1>5

LEMMA BytesType ==
  ASSUME NEW size, NEW S, IsFiniteSet(S), \A f \in S : size[f] \in Nat
  PROVE  Bytes(S, size) \in Nat
  <1>1. PICK T : T = {s \in SUBSET S : Bytes(s, size) \notin Nat}
    OBVIOUS
  <1>2. ASSUME NEW x \in T, \A y \in T : y \subseteq x => y = x
        PROVE  FALSE
    <2>1. x \in SUBSET S /\ IsFiniteSet(x) /\ Bytes(x, size) \notin Nat
      BY <1>1, <1>2, FS_Subset
    <2>2. x # {} /\ Bytes(x, size) = size[Pick(x)] + Bytes(x \ {Pick(x)}, size)
      BY <2>1, BytesStep
    <2>3. Pick(x) \in x /\ size[Pick(x)] \in Nat
      BY <2>1, <2>2 DEF Pick
    <2>4. x \ {Pick(x)} \in T
      BY <1>1, <2>1, <2>2, <2>3
    <2> QED  BY <1>2, <2>3, <2>4
  <1>3. T = {}
    <2>1. T \in SUBSET (SUBSET S)
      BY <1>1
    <2> QED  BY <1>2, <2>1, MinimalSubset
  <1> QED  BY <1>1, <1>3

LEMMA BytesRemove ==
  ASSUME NEW size, NEW S, IsFiniteSet(S), \A f \in S : size[f] \in Nat,
         NEW e \in S
  PROVE  Bytes(S, size) = size[e] + Bytes(S \ {e}, size)
  <1>1. PICK T : T = {s \in SUBSET S : \E f \in s :
                        Bytes(s, size) # size[f] + Bytes(s \ {f}, size)}
    OBVIOUS
  <1>2. ASSUME NEW x \in T, \A y \in T : y \subseteq x => y = x
        PROVE  FALSE
    <2>1. x \in SUBSET S /\ IsFiniteSet(x)
      BY <1>1, <1>2, FS_Subset
    <2>2. PICK f \in x : Bytes(x, size) # size[f] + Bytes(x \ {f}, size)
      BY <1>1, <1>2
    <2>3. PICK p : p = Pick(x)
      OBVIOUS
    <2>4. p \in x /\ Bytes(x, size) = size[p] + Bytes(x \ {p}, size)
      BY <2>1, <2>3, BytesStep DEF Pick
    <2>5. p # f /\ x \ {p} \notin T /\ x \ {f} \notin T
      BY <1>2, <2>2, <2>4
    <2>6. Bytes(x \ {p}, size) = size[f] + Bytes((x \ {p}) \ {f}, size)
      BY <1>1, <2>1, <2>2, <2>5
    <2>7. Bytes(x \ {f}, size) = size[p] + Bytes((x \ {f}) \ {p}, size)
      BY <1>1, <2>1, <2>4, <2>5
    <2>8. PICK w : w = (x \ {p}) \ {f}
      OBVIOUS
    <2>9. w = (x \ {f}) \ {p} /\ IsFiniteSet(w) /\ \A g \in w : size[g] \in Nat
      BY <2>1, <2>8, FS_Subset
    <2>10. Bytes(w, size) \in Nat /\ size[p] \in Nat /\ size[f] \in Nat
      BY <2>1, <2>2, <2>4, <2>9, BytesType
    <2>11. /\ Bytes(x \ {p}, size) = size[f] + Bytes(w, size)
           /\ Bytes(x \ {f}, size) = size[p] + Bytes(w, size)
      BY ONLY <2>6, <2>7, <2>8, <2>9, Zenon
    <2> QED  BY <2>2, <2>4, <2>10, <2>11
  <1>3. T = {}
    <2>1. T \in SUBSET (SUBSET S)
      BY <1>1
    <2> QED  BY <1>2, <2>1, MinimalSubset
  <1>4. S \in SUBSET S /\ S \notin T
    BY <1>3
  <1> QED  BY <1>1, <1>4

LEMMA BytesEmpty == \A size : Bytes({}, size) = 0
  BY BytesStep, FS_EmptySet

(* The sum of disjoint sets, and so of a part and of the rest.             *)
LEMMA BytesUnion ==
  ASSUME NEW size, NEW A, IsFiniteSet(A), \A f \in A : size[f] \in Nat,
         NEW B, IsFiniteSet(B), \A f \in B : size[f] \in Nat,
         A \cap B = {}
  PROVE  Bytes(A \cup B, size) = Bytes(A, size) + Bytes(B, size)
  <1>1. PICK T : T = {s \in SUBSET B :
                        Bytes(A \cup s, size) # Bytes(A, size) + Bytes(s, size)}
    OBVIOUS
  <1>2. ASSUME NEW x \in T, \A y \in T : y \subseteq x => y = x
        PROVE  FALSE
    <2>1. /\ x \in SUBSET B /\ IsFiniteSet(x)
          /\ Bytes(A \cup x, size) # Bytes(A, size) + Bytes(x, size)
      BY <1>1, <1>2, FS_Subset
    <2>2. x # {}
      <3>1. A \cup {} = A
        OBVIOUS
      <3>2. Bytes(A, size) \in Nat
        BY BytesType
      <3>3. ASSUME x = {} PROVE FALSE
        <4>1. Bytes(A \cup x, size) = Bytes(A, size)
          BY <3>1, <3>3
        <4>2. Bytes(x, size) = 0
          BY <3>3, BytesEmpty
        <4> QED  BY <2>1, <3>2, <4>1, <4>2
      <3> QED  BY <3>3
    <2>3. PICK p \in x : TRUE
      BY <2>2
    <2>4. PICK y : y = x \ {p}
      OBVIOUS
    <2>5. y \in SUBSET B /\ y \notin T /\ IsFiniteSet(y)
      BY <1>2, <2>1, <2>3, <2>4, FS_Subset
    <2>6. Bytes(A \cup y, size) = Bytes(A, size) + Bytes(y, size)
      BY <1>1, <2>5
    <2>7. PICK u : u = A \cup x
      OBVIOUS
    <2>8. IsFiniteSet(u) /\ (\A f \in u : size[f] \in Nat) /\ p \in u
      BY <2>1, <2>3, <2>7, FS_Union
    <2>9. u \ {p} = A \cup y
      BY <2>1, <2>3, <2>4, <2>7
    <2>10. Bytes(u, size) = size[p] + Bytes(A \cup y, size)
      BY <2>8, <2>9, BytesRemove
    <2>11. Bytes(x, size) = size[p] + Bytes(y, size)
      BY <2>1, <2>3, <2>4, BytesRemove
    <2>12. Bytes(A, size) \in Nat /\ Bytes(y, size) \in Nat /\ size[p] \in Nat
      BY <2>1, <2>3, <2>5, BytesType
    <2> QED  BY <2>1, <2>6, <2>7, <2>10, <2>11, <2>12
  <1>3. T = {}
    <2>1. T \in SUBSET (SUBSET B)
      BY <1>1
    <2> QED  BY <1>2, <2>1, MinimalSubset
  <1>4. B \in SUBSET B /\ B \notin T
    BY <1>3
  <1> QED  BY <1>1, <1>4

LEMMA BytesSingleton ==
  ASSUME NEW size, NEW f, size[f] \in Nat
  PROVE  Bytes({f}, size) = size[f]
  <1>1. IsFiniteSet({f}) /\ {f} \ {f} = {}
    BY FS_Singleton
  <1>2. PICK S : S = {f}
    OBVIOUS
  <1>3. Bytes(S, size) = size[f] + Bytes(S \ {f}, size)
    BY <1>1, <1>2, BytesRemove
  <1> QED  BY <1>1, <1>2, <1>3, BytesEmpty

LEMMA BytesAdd ==
  ASSUME NEW size, NEW S, IsFiniteSet(S), \A g \in S : size[g] \in Nat,
         NEW f, f \notin S, size[f] \in Nat
  PROVE  Bytes(S \cup {f}, size) = Bytes(S, size) + size[f]
  <1>1. PICK R : R = {f}
    OBVIOUS
  <1>2. IsFiniteSet(R) /\ (\A g \in R : size[g] \in Nat) /\ S \cap R = {}
    BY <1>1, FS_Singleton
  <1>3. Bytes(S \cup R, size) = Bytes(S, size) + Bytes(R, size)
    BY <1>2, BytesUnion
  <1> QED  BY <1>1, <1>3, BytesSingleton

LEMMA BytesSubset ==
  ASSUME NEW size, NEW S, IsFiniteSet(S), \A g \in S : size[g] \in Nat,
         NEW A, A \subseteq S
  PROVE  Bytes(A, size) <= Bytes(S, size)
  <1>1. PICK R : R = S \ A
    OBVIOUS
  <1>2. /\ IsFiniteSet(A) /\ IsFiniteSet(R) /\ A \cap R = {} /\ A \cup R = S
        /\ \A g \in A : size[g] \in Nat
        /\ \A g \in R : size[g] \in Nat
    BY <1>1, FS_Subset
  <1>3. Bytes(A \cup R, size) = Bytes(A, size) + Bytes(R, size)
    BY <1>2, BytesUnion
  <1>4. Bytes(A, size) \in Nat /\ Bytes(R, size) \in Nat
    BY <1>2, BytesType
  <1>5. Bytes(S, size) = Bytes(A, size) + Bytes(R, size)
    BY <1>2, <1>3, Zenon
  <1> QED  BY <1>4, <1>5

----------------------------------------------------------------------------
(* The order in which files are planned.                                   *)

LEMMA FirstFile ==
  ASSUME NEW S, S \subseteq File, S # {}
  PROVE  \E f \in S : \A g \in S : PlanRank[f] <= PlanRank[g]
  <1>1. PICK T : T = {PlanRank[f] : f \in S}
    OBVIOUS
  <1>2. T \subseteq Nat /\ T # {}
    BY <1>1, PlannerAssumption
  <1>3. \E m \in T : \A n \in T : m <= n
    BY ONLY <1>2, LeastNat
  <1> QED  BY <1>1, <1>3

LEMMA LatestFile ==
  ASSUME NEW S, S \subseteq File, S # {}
  PROVE  Latest(S) \in S /\ \A g \in S : PlanRank[g] <= PlanRank[Latest(S)]
  <1>1. PICK T : T = {{g \in S : PlanRank[f] <= PlanRank[g]} : f \in S}
    OBVIOUS
  <1>2. PICK x \in T : \A y \in T : y \subseteq x => y = x
    <2>1. T \in SUBSET (SUBSET S) /\ T # {}
      BY <1>1
    <2>2. IsFiniteSet(S)
      BY PlannerAssumption, FS_Subset
    <2> QED  BY ONLY <2>1, <2>2, MinimalSubset
  <1>3. PICK f \in S : x = {g \in S : PlanRank[f] <= PlanRank[g]}
    BY <1>1, <1>2
  <1>4. ASSUME NEW h \in S, ~(PlanRank[h] <= PlanRank[f])
        PROVE  FALSE
    <2>1. PICK y : y = {g \in S : PlanRank[h] <= PlanRank[g]}
      OBVIOUS
    <2>2. PlanRank[f] \in Nat /\ PlanRank[h] \in Nat
      BY <1>3, <1>4, PlannerAssumption
    <2>3. PlanRank[f] < PlanRank[h]
      BY <1>4, <2>2
    <2>4. y \in T /\ y \subseteq x /\ f \in x /\ f \notin y
      BY <1>1, <1>3, <2>1, <2>2, <2>3, PlannerAssumption
    <2> QED  BY <1>2, <2>4
  <1>5. \E g \in S : \A h \in S : PlanRank[h] <= PlanRank[g]
    BY <1>4
  <1> QED  BY <1>5 DEF Latest

LEMMA RankFacts ==
  /\ IsFiniteSet(File)
  /\ \A f \in File : PlanRank[f] \in Nat
  /\ \A f, g \in File : PlanRank[f] = PlanRank[g] => f = g
  BY PlannerAssumption

----------------------------------------------------------------------------
(* The reference definition determines the plan.                           *)

(* A set with more files is full if a part of it is. *)
LEMMA FullGrows ==
  ASSUME NEW size \in [File -> Nat], NEW maxFiles \in Nat, NEW maxBytes \in Nat,
         NEW c, c \subseteq File, NEW b, b \subseteq c,
         Full(b, size, maxFiles, maxBytes)
  PROVE  Full(c, size, maxFiles, maxBytes)
  <1>1. IsFiniteSet(c) /\ IsFiniteSet(b) /\ Cardinality(b) <= Cardinality(c)
    BY RankFacts, FS_Subset
  <1>2. Cardinality(b) \in Nat /\ Cardinality(c) \in Nat
    BY <1>1, FS_CardinalityType
  <1>3. (\A f \in c : size[f] \in Nat) /\ (\A f \in b : size[f] \in Nat)
    OBVIOUS
  <1>4. Bytes(b, size) <= Bytes(c, size)
    BY <1>1, <1>3, BytesSubset
  <1>5. Bytes(b, size) \in Nat /\ Bytes(c, size) \in Nat
    BY <1>1, <1>3, BytesType
  <1> QED  BY <1>1, <1>2, <1>4, <1>5 DEF Full

(* Two batches of two plans that begin with the same file are equal: the   *)
(* shorter one would not be maximal, or the longer one not well-formed.    *)
LEMMA BatchesFromSameFile ==
  ASSUME NEW size \in [File -> Nat], NEW maxFiles \in Nat, NEW maxBytes \in Nat,
         NEW D, D \subseteq File,
         NEW b, b \subseteq D, NEW c, c \subseteq D,
         WellFormedBatch(b, D, size, maxFiles, maxBytes),
         MaximalBatch(b, D, size, maxFiles, maxBytes),
         WellFormedBatch(c, D, size, maxFiles, maxBytes),
         NEW f \in b, f \in c,
         \A g \in b : PlanRank[f] <= PlanRank[g],
         \A g \in c : PlanRank[f] <= PlanRank[g],
         NEW y \in c, y \notin b
  PROVE  FALSE
  <1> DEFINE L == Latest(b)
             later == {g \in D : /\ PlanRank[g] > PlanRank[L]
                                 /\ Parent[g] = Parent[L]}
             M == Latest(c)
  <1>1. L \in b /\ \A g \in b : PlanRank[g] <= PlanRank[L]
    BY LatestFile
  <1>2. M \in c /\ \A g \in c : PlanRank[g] <= PlanRank[M]
    BY LatestFile
  <1> HIDE DEF L, M
  <1>3. L \in File /\ M \in File /\ y \in File /\ f \in File
    BY <1>1, <1>2
  <1>4. PlanRank[y] > PlanRank[L]
    <2>1. \A h, k \in b, g \in D :
            PlanRank[h] < PlanRank[g] /\ PlanRank[g] < PlanRank[k] => g \in b
      BY DEF WellFormedBatch
    <2>2. y # f /\ y # L /\ PlanRank[f] <= PlanRank[y]
      BY <1>1
    <2> QED  BY <1>1, <1>3, <2>1, <2>2, RankFacts
  <1>5. L \in c
    <2>1. \A h, k \in c, g \in D :
            PlanRank[h] < PlanRank[g] /\ PlanRank[g] < PlanRank[k] => g \in c
      BY DEF WellFormedBatch
    <2>2. L = f \/ PlanRank[f] < PlanRank[L]
      BY <1>1, <1>3, RankFacts
    <2> QED  BY <1>1, <1>3, <1>4, <2>1, <2>2
  <1>6. y \in later
    <2>1. Parent[y] = Parent[L]
      BY <1>5 DEF WellFormedBatch
    <2> QED  BY <1>4, <2>1
  <1>7. PICK next \in later : \A g \in later : PlanRank[next] <= PlanRank[g]
    <2>1. later \subseteq File /\ later # {}
      BY <1>6
    <2> HIDE DEF later
    <2> QED  BY <2>1, FirstFile
  <1>8. next \in D /\ next \in File /\ PlanRank[next] > PlanRank[L] /\ next \notin b
    BY <1>1, <1>3, <1>7, RankFacts
  <1>9. next \in c
    <2>1. PlanRank[next] <= PlanRank[y]
      BY <1>6, <1>7
    <2>2. next = y \/ PlanRank[next] < PlanRank[y]
      BY <1>3, <1>8, <2>1, RankFacts
    <2> QED  BY <1>5, <1>8, <2>2 DEF WellFormedBatch
  <1>10. b \subseteq c \ {M}
    <2>1. \A h, k \in c, g \in D :
            PlanRank[h] < PlanRank[g] /\ PlanRank[g] < PlanRank[k] => g \in c
      BY DEF WellFormedBatch
    <2>2. ASSUME NEW g \in b
          PROVE  g \in c /\ g # M
      <3>1. g \in File /\ PlanRank[f] <= PlanRank[g] /\ PlanRank[g] <= PlanRank[L]
        BY <1>1
      <3>2. PlanRank[g] < PlanRank[next] /\ PlanRank[next] <= PlanRank[M]
        BY <1>2, <1>3, <1>8, <1>9, <3>1, RankFacts
      <3>3. g = f \/ PlanRank[f] < PlanRank[g]
        BY <1>3, <3>1, RankFacts
      <3> QED  BY <1>3, <1>8, <1>9, <2>1, <3>1, <3>2, <3>3, RankFacts
    <2> QED  BY <2>2
  <1>11. Cardinality(c) > 1
    <2>1. IsFiniteSet(c)
      BY RankFacts, FS_Subset
    <2>2. {f, y} \subseteq c /\ f # y
      OBVIOUS
    <2>3. Cardinality({f, y}) = 2
      <3>1. IsFiniteSet({f}) /\ Cardinality({f}) = 1 /\ {f} \cup {y} = {f, y}
        BY FS_Singleton
      <3>2. Cardinality({f} \cup {y}) = 1 + 1
        BY <2>2, <3>1, FS_AddElement
      <3> QED  BY <3>1, <3>2
    <2>4. PICK w : w = {f, y}
      OBVIOUS
    <2>5. Cardinality(w) <= Cardinality(c)
      BY <2>1, <2>2, <2>4, FS_Subset
    <2>6. Cardinality(c) \in Nat
      BY <2>1, FS_CardinalityType
    <2> QED  BY <2>3, <2>4, <2>5, <2>6
  <1>12. CASE Full(b, size, maxFiles, maxBytes)
    <2>1. ~Full(c \ {M}, size, maxFiles, maxBytes)
      BY <1>11 DEF WellFormedBatch, M
    <2>2. PICK w : w = c \ {M}
      OBVIOUS
    <2>3. w \subseteq File /\ b \subseteq w
      BY <1>10, <2>2
    <2> QED  BY <1>12, <2>1, <2>2, <2>3, FullGrows
  <1>13. CASE maxBytes > 0 /\ Bytes(b, size) + size[next] > maxBytes
    <2>1. Bytes(c, size) <= maxBytes
      BY <1>11, <1>13 DEF WellFormedBatch
    <2>2. IsFiniteSet(b) /\ IsFiniteSet(c)
      BY RankFacts, FS_Subset
    <2>3. PICK w : w = b \cup {next}
      OBVIOUS
    <2>4. Bytes(w, size) = Bytes(b, size) + size[next]
      <3>1. (\A g \in b : size[g] \in Nat) /\ size[next] \in Nat
        BY <1>8
      <3> QED  BY <1>8, <2>2, <2>3, <3>1, BytesAdd
    <2>5. w \subseteq c
      BY <1>9, <1>10, <2>3
    <2>6. Bytes(w, size) <= Bytes(c, size)
      BY <2>2, <2>5, BytesSubset
    <2>7. Bytes(b, size) \in Nat /\ Bytes(c, size) \in Nat /\ size[next] \in Nat
      BY <1>8, <2>2, BytesType
    <2> QED  BY <1>13, <2>1, <2>4, <2>6, <2>7
  <1>14. \/ Full(b, size, maxFiles, maxBytes)
         \/ maxBytes > 0 /\ Bytes(b, size) + size[next] > maxBytes
    BY <1>7 DEF MaximalBatch, L
  <1> QED  BY <1>12, <1>13, <1>14

(* The first file of a batch that the two plans put elsewhere. *)
LEMMA SameBatch ==
  ASSUME NEW size \in [File -> Nat], NEW maxFiles \in Nat, NEW maxBytes \in Nat,
         NEW D, D \subseteq File,
         NEW P, IsPlan(P, D, size, maxFiles, maxBytes),
         NEW Q, IsPlan(Q, D, size, maxFiles, maxBytes),
         NEW b \in P, NEW c \in Q, b \cap c # {}
  PROVE  b = c
  <1> DEFINE Bad == {f \in D : \E x \in P, y \in Q : f \in x /\ f \in y /\ x # y}
  <1>1. /\ IsPartition(P, D) /\ IsPartition(Q, D)
        /\ \A x \in P : /\ WellFormedBatch(x, D, size, maxFiles, maxBytes)
                        /\ MaximalBatch(x, D, size, maxFiles, maxBytes)
        /\ \A x \in Q : /\ WellFormedBatch(x, D, size, maxFiles, maxBytes)
                        /\ MaximalBatch(x, D, size, maxFiles, maxBytes)
    BY DEF IsPlan
  <1>2. ASSUME NEW f \in Bad, \A g \in Bad : PlanRank[f] <= PlanRank[g]
        PROVE  FALSE
    <2>1. PICK x \in P, y \in Q : f \in x /\ f \in y /\ x # y
      OBVIOUS
    <2>2. x \subseteq D /\ y \subseteq D
      BY <1>1 DEF IsPartition
    <2>3. ASSUME NEW g \in x
          PROVE  PlanRank[f] <= PlanRank[g]
      <3>1. PICK z \in Q : g \in z
        BY <1>1, <2>2 DEF IsPartition
      <3>2. CASE z = x
        BY <1>1, <2>1, <3>2 DEF IsPartition
      <3>3. CASE z # x
        BY <1>2, <2>2, <3>1, <3>3
      <3> QED  BY <3>2, <3>3
    <2>4. ASSUME NEW g \in y
          PROVE  PlanRank[f] <= PlanRank[g]
      <3>1. PICK z \in P : g \in z
        BY <1>1, <2>2 DEF IsPartition
      <3>2. CASE z = y
        BY <1>1, <2>1, <3>2 DEF IsPartition
      <3>3. CASE z # y
        BY <1>2, <2>2, <3>1, <3>3
      <3> QED  BY <3>2, <3>3
    <2>5. ASSUME NEW g \in y, g \notin x
          PROVE  FALSE
      BY <1>1, <2>1, <2>2, <2>3, <2>4, <2>5, BatchesFromSameFile
    <2>6. ASSUME NEW g \in x, g \notin y
          PROVE  FALSE
      BY <1>1, <2>1, <2>2, <2>3, <2>4, <2>6, BatchesFromSameFile
    <2> QED  BY <2>1, <2>5, <2>6
  <1>3. Bad = {}
    <2>1. Bad \subseteq File
      OBVIOUS
    <2> HIDE DEF Bad
    <2> QED  BY <1>2, <2>1, FirstFile
  <1> QED  BY <1>1, <1>3 DEF IsPartition

(* The reference definition determines the plan: two plans of the same     *)
(* files under the same bounds are the same set of batches.  So the IDs    *)
(* that staging_store.go derives from the contents of a batch depend on    *)
(* nothing but the files and the bounds.                                   *)
THEOREM PlanIsUnique ==
  ASSUME NEW size \in [File -> Nat], NEW maxFiles \in Nat, NEW maxBytes \in Nat,
         NEW D, D \subseteq File,
         NEW P, IsPlan(P, D, size, maxFiles, maxBytes),
         NEW Q, IsPlan(Q, D, size, maxFiles, maxBytes)
  PROVE  P = Q
  <1>1. IsPartition(P, D) /\ IsPartition(Q, D)
    BY DEF IsPlan
  <1>2. ASSUME NEW b \in P
        PROVE  b \in Q
    <2>1. PICK f \in b : f \in D
      <3>1. b # {} /\ b \subseteq D
        BY <1>1 DEF IsPartition
      <3> QED  BY <3>1
    <2>2. PICK c \in Q : f \in c
      BY <1>1, <2>1 DEF IsPartition
    <2>3. b \cap c # {}
      BY <2>1, <2>2
    <2> QED  BY <2>2, <2>3, SameBatch
  <1>3. ASSUME NEW c \in Q
        PROVE  c \in P
    <2>1. PICK f \in c : f \in D
      <3>1. c # {} /\ c \subseteq D
        BY <1>1 DEF IsPartition
      <3> QED  BY <3>1
    <2>2. PICK b \in P : f \in b
      BY <1>1, <2>1 DEF IsPartition
    <2>3. b \cap c # {}
      BY <2>1, <2>2
    <2> QED  BY <2>2, <2>3, SameBatch
  <1> QED  BY <1>2, <1>3

----------------------------------------------------------------------------
(* The loop of PlanBatchesBounded.                                         *)

Place(D, f) == Cardinality({g \in D : PlanRank[g] <= PlanRank[f]})
Nth(D, n) == CHOOSE f \in D : Place(D, f) = n

Enter(s, f, size, maxFiles, maxBytes) ==
  IF Len(s) > 0 /\ Joins(s[Len(s)], f, size, maxFiles, maxBytes)
  THEN [s EXCEPT ![Len(s)] = @ \cup {f}]
  ELSE Append(s, {f})

Loop(g, N, D, size, maxFiles, maxBytes) ==
  g = [n \in 0 .. N |->
         IF n = 0 THEN <<>>
         ELSE Enter(g[n - 1], Nth(D, n), size, maxFiles, maxBytes)]

LoopEnd(D, size, maxFiles, maxBytes) ==
  (CHOOSE g : Loop(g, Cardinality(D), D, size, maxFiles, maxBytes))[Cardinality(D)]

Batches(s) == {s[i] : i \in DOMAIN s}

LEMMA BoundedUnfold ==
  ASSUME NEW D, NEW size, NEW maxFiles, NEW maxBytes \in Nat, maxBytes > 0
  PROVE  BoundedPlan(D, size, maxFiles, maxBytes)
           = Batches(LoopEnd(D, size, maxFiles, maxBytes))
  <1>1. ~(maxBytes <= 0)
    OBVIOUS
  <1> QED
    BY <1>1, Zenon DEF BoundedPlan, Batches, LoopEnd, Loop, Enter, Nth, Place

(* The loop runs: its defining equation has a solution. *)
LEMMA LoopExists ==
  ASSUME NEW D, NEW size, NEW maxFiles, NEW maxBytes, NEW N \in Nat
  PROVE  \E g : Loop(g, N, D, size, maxFiles, maxBytes)
  <1> DEFINE Run(g, m) == Loop(g, m, D, size, maxFiles, maxBytes)
  <1>1. PICK T : T = {m \in Nat : ~ \E g : Run(g, m)}
    OBVIOUS
  <1>2. ASSUME NEW m \in T, \A n \in T : m <= n
        PROVE  FALSE
    <2>1. m \in Nat /\ ~ \E g : Run(g, m)
      BY <1>1, <1>2
    <2>2. m # 0
      <3>1. ASSUME NEW H, H = [n \in 0 .. 0 |-> <<>>]
            PROVE  Run(H, 0)
        <4>1. \A n \in 0 .. 0 : n = 0
          OBVIOUS
        <4>2. [n \in 0 .. 0 |-> <<>>] =
              [n \in 0 .. 0 |-> IF n = 0 THEN <<>> ELSE
                 Enter(H[n - 1], Nth(D, n), size, maxFiles, maxBytes)]
          BY <4>1, Zenon
        <4> QED  BY <3>1, <4>2, Zenon DEF Loop
      <3> HIDE DEF Run
      <3> QED  BY <2>1, <3>1
    <2>3. m - 1 \in Nat /\ m - 1 \notin T
      BY <1>2, <2>1, <2>2
    <2>4. PICK g : Run(g, m - 1)
      BY <1>1, <2>3
    <2>5. PICK H : H = [n \in 0 .. m |-> IF n = 0 THEN <<>> ELSE
                          Enter(g[n - 1], Nth(D, n), size, maxFiles, maxBytes)]
      OBVIOUS
    <2>6. ASSUME NEW n \in 0 .. (m - 1)
          PROVE  H[n] = g[n]
      <3>1. g[n] = IF n = 0 THEN <<>> ELSE
                     Enter(g[n - 1], Nth(D, n), size, maxFiles, maxBytes)
        BY <2>4, Zenon DEF Loop
      <3>2. n \in 0 .. m
        BY <2>1
      <3>3. H[n] = IF n = 0 THEN <<>> ELSE
                     Enter(g[n - 1], Nth(D, n), size, maxFiles, maxBytes)
        BY <2>5, <3>2, Zenon
      <3> QED  BY ONLY <3>1, <3>3
    <2>7. \A n \in 0 .. m : n # 0 => n - 1 \in 0 .. (m - 1)
      BY <2>1
    <2>8. H = [n \in 0 .. m |-> IF n = 0 THEN <<>> ELSE
                 Enter(H[n - 1], Nth(D, n), size, maxFiles, maxBytes)]
      BY <2>5, <2>6, <2>7, Zenon
    <2> QED  BY <2>1, <2>8, Zenon DEF Loop
  <1>3. T = {}
    <2>1. T \subseteq Nat
      BY <1>1
    <2> QED  BY <1>2, <2>1, LeastNat
  <1> QED  BY <1>1, <1>3

LEMMA PlaceOrder ==
  ASSUME NEW D, D \subseteq File, NEW f \in D
  PROVE  /\ Place(D, f) \in 1 .. Cardinality(D)
         /\ \A g \in D : PlanRank[f] < PlanRank[g] => Place(D, f) < Place(D, g)
  <1> DEFINE U(h) == {g \in D : PlanRank[g] <= PlanRank[h]}
  <1>1. IsFiniteSet(D) /\ \A h \in D : IsFiniteSet(U(h))
    BY RankFacts, FS_Subset
  <1>2. Cardinality(D) \in Nat /\ \A h \in D : Cardinality(U(h)) \in Nat
    BY <1>1, FS_CardinalityType
  <1>3. ASSUME NEW g \in D, PlanRank[f] < PlanRank[g]
        PROVE  Cardinality(U(f)) < Cardinality(U(g))
    <2>1. U(f) \subseteq U(g) /\ g \in U(g) /\ g \notin U(f)
      BY <1>3, RankFacts
    <2>2. Cardinality(U(f)) <= Cardinality(U(g)) /\ Cardinality(U(f)) # Cardinality(U(g))
      <3> HIDE DEF U
      <3> QED  BY <1>1, <2>1, FS_Subset
    <2> QED  BY <1>2, <2>2
  <1>4. Cardinality(U(f)) <= Cardinality(D)
    <2>1. U(f) \in SUBSET D
      OBVIOUS
    <2> HIDE DEF U
    <2> QED  BY <1>1, <2>1, FS_Subset
  <1>5. Cardinality(U(f)) # 0
    <2>1. f \in U(f)
      BY RankFacts
    <2> HIDE DEF U
    <2> QED  BY <1>1, <2>1, FS_EmptySet
  <1> QED  BY <1>2, <1>3, <1>4, <1>5 DEF Place

(* ORDER BY gives every position exactly one file. *)
LEMMA NthFile ==
  ASSUME NEW D, D \subseteq File, NEW n \in 1 .. Cardinality(D)
  PROVE  Nth(D, n) \in D /\ Place(D, Nth(D, n)) = n
  <1>1. IsFiniteSet(D) /\ Cardinality(D) \in Nat
    BY RankFacts, FS_Subset, FS_CardinalityType
  <1>2. PICK I : I = 1 .. Cardinality(D) /\ IsFiniteSet(I) /\ Cardinality(I) = Cardinality(D)
    <2>1. 1 \in Int /\ Cardinality(D) \in Int
      BY <1>1
    <2>2. /\ IsFiniteSet(1 .. Cardinality(D))
          /\ Cardinality(1 .. Cardinality(D))
               = IF 1 > Cardinality(D) THEN 0 ELSE Cardinality(D) - 1 + 1
      BY ONLY <2>1, FS_Interval
    <2>3. Cardinality(1 .. Cardinality(D)) = Cardinality(D)
      BY <1>1, <2>2
    <2> QED  BY <2>2, <2>3
  <1>3. PICK p : p = [f \in D |-> Place(D, f)]
    OBVIOUS
  <1>4. p \in Injection(D, I)
    <2>1. p \in [D -> I]
      BY <1>2, <1>3, PlaceOrder
    <2>2. ASSUME NEW f \in D, NEW g \in D, f # g
          PROVE  p[f] # p[g]
      <3>1. PlanRank[f] < PlanRank[g] \/ PlanRank[g] < PlanRank[f]
        BY <2>2, RankFacts
      <3>2. Place(D, f) < Place(D, g) \/ Place(D, g) < Place(D, f)
        BY <3>1, PlaceOrder
      <3>3. Place(D, f) \in Nat /\ Place(D, g) \in Nat
        BY <1>1, PlaceOrder
      <3> QED  BY <1>3, <3>2, <3>3
    <2> QED  BY <2>1, <2>2 DEF Injection, IsInjective
  <1>5. p \in Surjection(D, I)
    BY <1>1, <1>2, <1>4, FS_Injection
  <1>6. \E f \in D : p[f] = n
    BY <1>2, <1>5 DEF Surjection
  <1>7. \E f \in D : Place(D, f) = n
    BY <1>3, <1>6
  <1> QED  BY <1>7 DEF Nth

First(D, n) == {f \in D : Place(D, f) <= n}

LEMMA FirstStep ==
  ASSUME NEW D, D \subseteq File, NEW n \in 1 .. Cardinality(D)
  PROVE  /\ First(D, n) = First(D, n - 1) \cup {Nth(D, n)}
         /\ Nth(D, n) \in D
         /\ \A g \in First(D, n - 1) : PlanRank[g] < PlanRank[Nth(D, n)]
  <1>1. PICK f : f = Nth(D, n) /\ f \in D /\ Place(D, f) = n
    BY NthFile
  <1>2. Cardinality(D) \in Nat /\ \A g \in D : Place(D, g) \in Nat
    <2>1. IsFiniteSet(D) /\ Cardinality(D) \in Nat
      BY RankFacts, FS_Subset, FS_CardinalityType
    <2> QED  BY <2>1, PlaceOrder
  <1>3. ASSUME NEW g \in D, g # f
        PROVE  /\ PlanRank[g] < PlanRank[f] => Place(D, g) <= n - 1
               /\ ~(PlanRank[g] < PlanRank[f]) => ~(Place(D, g) <= n)
    <2>1. PlanRank[g] \in Nat /\ PlanRank[f] \in Nat /\ PlanRank[g] # PlanRank[f]
      BY <1>1, <1>3, RankFacts
    <2>2. PlanRank[g] < PlanRank[f] => Place(D, g) < Place(D, f)
      BY <1>1, PlaceOrder
    <2>3. PlanRank[f] < PlanRank[g] => Place(D, f) < Place(D, g)
      BY <1>1, PlaceOrder
    <2> QED  BY <1>1, <1>2, <2>1, <2>2, <2>3
  <1>4. ~(Place(D, f) <= n - 1)
    BY <1>1
  <1>5. \A g \in D : Place(D, g) <= n - 1 => Place(D, g) <= n
    BY <1>2
  <1>6. \A g \in First(D, n - 1) : PlanRank[g] < PlanRank[f]
    BY <1>3, <1>4, <1>5 DEF First
  <1>7. First(D, n) = First(D, n - 1) \cup {f}
    BY <1>1, <1>3, <1>5 DEF First
  <1> QED  BY <1>1, <1>6, <1>7

(* What the loop keeps when the files of E, the first files of D, have     *)
(* entered: the batches of s are theirs in rank order, and a closed batch, *)
(* one with a later batch behind it, had to refuse that batch's first file.*)
GoodBatch(b, size, maxFiles, maxBytes) ==
  /\ b # {}
  /\ \A f, g \in b : Parent[f] = Parent[g]
  /\ Cardinality(b) <= maxFiles
  /\ Cardinality(b) > 1 => /\ Bytes(b, size) <= maxBytes
                           /\ ~Full(b \ {Latest(b)}, size, maxFiles, maxBytes)

LoopInv(s, E, size, maxFiles, maxBytes) ==
  /\ s \in Seq(SUBSET E)
  /\ \A f \in E : \E i \in 1 .. Len(s) : f \in s[i]
  /\ \A i \in 1 .. Len(s) : GoodBatch(s[i], size, maxFiles, maxBytes)
  /\ \A i, j \in 1 .. Len(s) : i < j =>
       \A f \in s[i], g \in s[j] : PlanRank[f] < PlanRank[g]
  /\ \A i \in 1 .. Len(s) - 1 : \A f \in s[i + 1] :
       (\A g \in s[i + 1] : PlanRank[f] <= PlanRank[g])
         => ~Joins(s[i], f, size, maxFiles, maxBytes)

LEMMA OneFileBatch ==
  ASSUME NEW size, NEW maxFiles \in Nat, maxFiles > 0, NEW maxBytes, NEW f
  PROVE  GoodBatch({f}, size, maxFiles, maxBytes)
  <1>1. Cardinality({f}) = 1
    BY FS_Singleton
  <1> QED  BY <1>1 DEF GoodBatch

(* The open batch takes the next file. *)
LEMMA JoinedBatch ==
  ASSUME NEW size \in [File -> Nat], NEW maxFiles \in Nat, NEW maxBytes \in Nat,
         NEW b, b \subseteq File, GoodBatch(b, size, maxFiles, maxBytes),
         NEW f \in File, \A g \in b : PlanRank[g] < PlanRank[f],
         Joins(b, f, size, maxFiles, maxBytes)
  PROVE  GoodBatch(b \cup {f}, size, maxFiles, maxBytes)
  <1>1. PICK c : c = b \cup {f}
    OBVIOUS
  <1>2. f \notin b /\ IsFiniteSet(b) /\ Cardinality(b) \in Nat
    BY RankFacts, FS_Subset, FS_CardinalityType
  <1>3. Cardinality(c) = Cardinality(b) + 1
    BY <1>1, <1>2, FS_AddElement
  <1>4. Bytes(c, size) = Bytes(b, size) + size[f]
    <2>1. (\A g \in b : size[g] \in Nat) /\ size[f] \in Nat
      OBVIOUS
    <2> QED  BY <1>1, <1>2, <2>1, BytesAdd
  <1>5. Latest(c) = f
    <2>1. c \subseteq File /\ c # {} /\ f \in c
      BY <1>1
    <2>2. Latest(c) \in c /\ PlanRank[f] <= PlanRank[Latest(c)]
      BY <2>1, LatestFile
    <2> QED  BY <1>1, <2>1, <2>2, RankFacts
  <1>6. c \ {Latest(c)} = b
    BY <1>1, <1>2, <1>5
  <1>7. ~Full(b, size, maxFiles, maxBytes)
    <2>1. Bytes(b, size) \in Nat
      BY <1>2, BytesType
    <2> QED  BY <1>2, <2>1 DEF Full, Joins
  <1>8. Cardinality(c) <= maxFiles /\ Bytes(c, size) <= maxBytes
    BY <1>2, <1>3, <1>4 DEF Joins
  <1>9. \A g, h \in c : Parent[g] = Parent[h]
    BY <1>1 DEF Joins, GoodBatch
  <1>10. c # {}
    BY <1>1
  <1>11. GoodBatch(c, size, maxFiles, maxBytes)
    BY <1>6, <1>7, <1>8, <1>9, <1>10 DEF GoodBatch
  <1> QED  BY <1>1, <1>11

(* One more file enters. *)
LEMMA EnterKeeps ==
  ASSUME NEW size \in [File -> Nat], NEW maxFiles \in Nat, maxFiles > 0,
         NEW maxBytes \in Nat,
         NEW E, E \subseteq File, NEW s, LoopInv(s, E, size, maxFiles, maxBytes),
         NEW f \in File, \A g \in E : PlanRank[g] < PlanRank[f]
  PROVE  LoopInv(Enter(s, f, size, maxFiles, maxBytes), E \cup {f},
                 size, maxFiles, maxBytes)
  <1> DEFINE k == Len(s)
             e == Enter(s, f, size, maxFiles, maxBytes)
  <1>1. /\ s \in Seq(SUBSET E) /\ k \in Nat
        /\ \A i \in 1 .. k : s[i] \subseteq E /\ s[i] # {}
    <2>1. s \in Seq(SUBSET E)
      BY DEF LoopInv
    <2>2. k \in Nat /\ \A i \in 1 .. k : s[i] \in SUBSET E
      BY <2>1
    <2>3. \A i \in 1 .. k : s[i] # {}
      BY DEF LoopInv, GoodBatch
    <2> QED  BY <2>1, <2>2, <2>3
  <1>2. CASE k > 0 /\ Joins(s[k], f, size, maxFiles, maxBytes)
    <2>1. e = [s EXCEPT ![k] = s[k] \cup {f}]
      BY <1>2 DEF Enter
    <2>2. k \in 1 .. k
      BY <1>1, <1>2
    <2>3. /\ e \in Seq(SUBSET (E \cup {f})) /\ Len(e) = k
          /\ \A i \in 1 .. k : e[i] = IF i = k THEN s[k] \cup {f} ELSE s[i]
      BY <1>1, <2>1, <2>2
    <2> HIDE DEF e, k
    <2>4. \A g \in E \cup {f} : \E i \in 1 .. k : g \in e[i]
      BY <2>2, <2>3 DEF LoopInv, k
    <2>5. GoodBatch(s[k] \cup {f}, size, maxFiles, maxBytes)
      <3>1. GoodBatch(s[k], size, maxFiles, maxBytes)
        BY <2>2 DEF LoopInv, k
      <3>2. s[k] \subseteq File /\ \A g \in s[k] : PlanRank[g] < PlanRank[f]
        BY <1>1, <2>2
      <3> QED  BY <1>2, <3>1, <3>2, JoinedBatch
    <2>6. \A i \in 1 .. k : GoodBatch(e[i], size, maxFiles, maxBytes)
      BY <2>3, <2>5 DEF LoopInv, k
    <2>7. ASSUME NEW i \in 1 .. k, NEW j \in 1 .. k, i < j,
                 NEW g \in e[i], NEW h \in e[j]
          PROVE  PlanRank[g] < PlanRank[h]
      <3>1. i # k /\ g \in s[i] /\ g \in E
        BY <1>1, <2>3, <2>7
      <3>2. h \in s[j] \/ h = f
        BY <2>3
      <3> QED  BY <2>7, <3>1, <3>2 DEF LoopInv, k
    <2>8. ASSUME NEW i \in 1 .. k - 1, NEW h \in e[i + 1],
                 \A g \in e[i + 1] : PlanRank[h] <= PlanRank[g]
          PROVE  ~Joins(e[i], h, size, maxFiles, maxBytes)
      <3>1. i \in 1 .. k /\ i + 1 \in 1 .. k /\ i # k /\ e[i] = s[i]
        BY <1>1, <2>3
      <3>2. s[i + 1] \subseteq e[i + 1] /\ s[i + 1] # {} /\ s[i + 1] \subseteq E
        BY <1>1, <2>3, <3>1
      <3>3. h \in s[i + 1]
        <4>1. h \in s[i + 1] \/ h = f
          BY <2>3, <3>1
        <4>2. PICK g \in s[i + 1] : TRUE
          BY <3>2
        <4>3. PlanRank[h] <= PlanRank[g] /\ PlanRank[g] < PlanRank[f] /\ g \in File
          BY <2>8, <3>2, <4>2
        <4> QED  BY <4>1, <4>3, RankFacts
      <3>4. \A g \in s[i + 1] : PlanRank[h] <= PlanRank[g]
        BY <2>8, <3>2
      <3> QED  BY <3>1, <3>3, <3>4 DEF LoopInv, k
    <2>9. LoopInv(e, E \cup {f}, size, maxFiles, maxBytes)
      BY <2>3, <2>4, <2>6, <2>7, <2>8 DEF LoopInv
    <2> QED  BY <2>9 DEF e
  <1>3. CASE ~(k > 0 /\ Joins(s[k], f, size, maxFiles, maxBytes))
    <2>1. e = Append(s, {f})
      BY <1>3 DEF Enter
    <2>2. /\ e \in Seq(SUBSET (E \cup {f})) /\ Len(e) = k + 1
          /\ \A i \in 1 .. k : e[i] = s[i]
          /\ e[k + 1] = {f}
      BY <1>1, <2>1
    <2> HIDE DEF e, k
    <2>3. \A i \in 1 .. k + 1 : i = k + 1 \/ i \in 1 .. k
      BY <1>1
    <2>4. \A g \in E \cup {f} : \E i \in 1 .. k + 1 : g \in e[i]
      <3>1. ASSUME NEW g \in E
            PROVE  \E i \in 1 .. k + 1 : g \in e[i]
        <4>1. PICK i \in 1 .. k : g \in s[i]
          BY DEF LoopInv, k
        <4>2. i \in 1 .. k + 1 /\ g \in e[i]
          BY <1>1, <2>2, <4>1
        <4> QED  BY <4>2
      <3>2. k + 1 \in 1 .. k + 1 /\ f \in e[k + 1]
        BY <1>1, <2>2
      <3> QED  BY <3>1, <3>2
    <2>5. \A i \in 1 .. k + 1 : GoodBatch(e[i], size, maxFiles, maxBytes)
      <3>1. GoodBatch({f}, size, maxFiles, maxBytes)
        BY OneFileBatch
      <3>2. \A i \in 1 .. k : GoodBatch(e[i], size, maxFiles, maxBytes)
        BY <2>2 DEF LoopInv, k
      <3> QED  BY <2>2, <2>3, <3>1, <3>2
    <2>6. ASSUME NEW i \in 1 .. k + 1, NEW j \in 1 .. k + 1, i < j,
                 NEW g \in e[i], NEW h \in e[j]
          PROVE  PlanRank[g] < PlanRank[h]
      <3>1. i \in 1 .. k /\ g \in s[i] /\ g \in E
        BY <1>1, <2>2, <2>6
      <3>2. CASE j = k + 1
        BY <2>2, <3>1, <3>2
      <3>3. CASE j \in 1 .. k
        BY <2>2, <2>6, <3>1, <3>3 DEF LoopInv, k
      <3> QED  BY <2>3, <3>2, <3>3
    <2>7. ASSUME NEW i \in 1 .. (k + 1) - 1, NEW h \in e[i + 1],
                 \A g \in e[i + 1] : PlanRank[h] <= PlanRank[g]
          PROVE  ~Joins(e[i], h, size, maxFiles, maxBytes)
      <3>1. i \in 1 .. k /\ e[i] = s[i]
        BY <1>1, <2>2
      <3>2. CASE i = k
        <4>1. h = f
          BY <2>2, <3>2
        <4> QED  BY <1>1, <1>3, <3>1, <3>2, <4>1
      <3>3. CASE i # k
        <4>1. i \in 1 .. k - 1 /\ i + 1 \in 1 .. k
          BY <1>1, <3>1, <3>3
        <4>2. e[i + 1] = s[i + 1]
          BY <2>2, <4>1
        <4> QED  BY <2>7, <3>1, <4>1, <4>2 DEF LoopInv, k
      <3> QED  BY <3>2, <3>3
    <2>8. LoopInv(e, E \cup {f}, size, maxFiles, maxBytes)
      BY <2>2, <2>4, <2>5, <2>6, <2>7 DEF LoopInv
    <2> QED  BY <2>8 DEF e
  <1> QED  BY <1>2, <1>3

LEMMA LoopKeeps ==
  ASSUME NEW size \in [File -> Nat], NEW maxFiles \in Nat, maxFiles > 0,
         NEW maxBytes \in Nat, NEW D, D \subseteq File,
         NEW g, Loop(g, Cardinality(D), D, size, maxFiles, maxBytes)
  PROVE  LoopInv(g[Cardinality(D)], D, size, maxFiles, maxBytes)
  <1> DEFINE N == Cardinality(D)
             Holds(n) == LoopInv(g[n], First(D, n), size, maxFiles, maxBytes)
  <1>1. N \in Nat /\ \A f \in D : Place(D, f) \in 1 .. N
    <2>1. IsFiniteSet(D)
      BY RankFacts, FS_Subset
    <2> QED  BY <2>1, PlaceOrder, FS_CardinalityType
  <1> HIDE DEF N
  <1>2. First(D, 0) = {} /\ First(D, N) = D
    BY <1>1 DEF First
  <1>3. PICK T : T = {n \in 0 .. N : ~Holds(n)}
    OBVIOUS
  <1>4. ASSUME NEW n \in T, \A m \in T : n <= m
        PROVE  FALSE
    <2>1. n \in 0 .. N /\ ~Holds(n) /\ n \in Nat /\ n <= N
      BY <1>1, <1>3, <1>4
    <2>2. g[n] = IF n = 0 THEN <<>>
                 ELSE Enter(g[n - 1], Nth(D, n), size, maxFiles, maxBytes)
      BY <2>1, Zenon DEF Loop, N
    <2>3. n # 0
      <3>1. LoopInv(<<>>, {}, size, maxFiles, maxBytes)
        BY DEF LoopInv
      <3> QED  BY <1>2, <2>1, <2>2, <3>1
    <2>4. n \in 1 .. N /\ n - 1 \in 0 .. N /\ ~(n <= n - 1)
      BY <1>1, <2>1, <2>3
    <2>5. Holds(n - 1)
      BY <1>3, <1>4, <2>4
    <2>6. /\ First(D, n) = First(D, n - 1) \cup {Nth(D, n)}
          /\ Nth(D, n) \in D
          /\ \A h \in First(D, n - 1) : PlanRank[h] < PlanRank[Nth(D, n)]
      BY <2>4, FirstStep DEF N
    <2>7. First(D, n - 1) \subseteq File
      BY DEF First
    <2> QED  BY <2>1, <2>2, <2>3, <2>5, <2>6, <2>7, EnterKeeps
  <1>5. T = {}
    <2>1. T \subseteq Nat
      BY <1>1, <1>3
    <2> QED  BY ONLY <1>4, <2>1, LeastNat
  <1>6. N \in 0 .. N
    BY <1>1
  <1>7. Holds(N)
    BY <1>3, <1>5, <1>6
  <1> QED  BY <1>2, <1>7 DEF N

(* What the loop keeps makes a plan once every file has entered. *)
LEMMA LoopInvIsPlan ==
  ASSUME NEW size \in [File -> Nat], NEW maxFiles \in Nat, maxFiles > 0,
         NEW maxBytes \in Nat, maxBytes > 0, NEW D, D \subseteq File,
         NEW s, LoopInv(s, D, size, maxFiles, maxBytes)
  PROVE  IsPlan(Batches(s), D, size, maxFiles, maxBytes)
  <1> DEFINE k == Len(s)
             P == Batches(s)
  <1>1. /\ k \in Nat /\ DOMAIN s = 1 .. k
        /\ \A i \in 1 .. k : s[i] \subseteq D /\ s[i] \in P
        /\ \A b \in P : \E i \in 1 .. k : b = s[i]
    <2>1. s \in Seq(SUBSET D)
      BY DEF LoopInv
    <2>2. k \in Nat /\ DOMAIN s = 1 .. k /\ \A i \in 1 .. k : s[i] \in SUBSET D
      BY <2>1
    <2> QED  BY <2>2 DEF Batches
  <1>2. /\ \A f \in D : \E i \in 1 .. k : f \in s[i]
        /\ \A i \in 1 .. k : GoodBatch(s[i], size, maxFiles, maxBytes)
        /\ \A i, j \in 1 .. k : i < j =>
             \A f \in s[i], g \in s[j] : PlanRank[f] < PlanRank[g]
        /\ \A i \in 1 .. k - 1 : \A f \in s[i + 1] :
             (\A g \in s[i + 1] : PlanRank[f] <= PlanRank[g])
               => ~Joins(s[i], f, size, maxFiles, maxBytes)
    BY DEF LoopInv
  <1> HIDE DEF k, P
  <1>3. IsPartition(P, D)
    <2>1. {} \notin P
      BY <1>1, <1>2 DEF GoodBatch
    <2>2. UNION P = D
      BY <1>1, <1>2
    <2>3. ASSUME NEW i \in 1 .. k, NEW j \in 1 .. k, i # j
          PROVE  s[i] \cap s[j] = {}
      <3>1. i < j \/ j < i
        BY <1>1, <2>3
      <3>2. ASSUME NEW f \in s[i], f \in s[j]
            PROVE  FALSE
        <4>1. f \in File /\ PlanRank[f] < PlanRank[f]
          BY <1>1, <1>2, <3>1, <3>2
        <4> QED  BY <4>1, RankFacts
      <3> QED  BY <3>2
    <2>4. \A b, c \in P : b # c => b \cap c = {}
      BY <1>1, <2>3
    <2> QED  BY <2>1, <2>2, <2>4 DEF IsPartition
  <1>4. ASSUME NEW i \in 1 .. k
        PROVE  WellFormedBatch(s[i], D, size, maxFiles, maxBytes)
    <2>1. ASSUME NEW f \in s[i], NEW h \in s[i], NEW g \in D,
                 PlanRank[f] < PlanRank[g], PlanRank[g] < PlanRank[h]
          PROVE  g \in s[i]
      <3>1. PICK j \in 1 .. k : g \in s[j]
        BY <1>2
      <3>2. f \in File /\ g \in File /\ h \in File
        BY <1>1
      <3>3. ~(j < i)
        <4>1. ASSUME j < i PROVE PlanRank[g] < PlanRank[f]
          BY <1>2, <3>1, <4>1
        <4> QED  BY <2>1, <3>2, <4>1, RankFacts
      <3>4. ~(i < j)
        <4>1. ASSUME i < j PROVE PlanRank[h] < PlanRank[g]
          BY <1>2, <3>1, <4>1
        <4> QED  BY <2>1, <3>2, <4>1, RankFacts
      <3> QED  BY <1>1, <3>1, <3>3, <3>4
    <2> QED  BY <1>2, <2>1 DEF WellFormedBatch, GoodBatch
  <1>5. ASSUME NEW i \in 1 .. k
        PROVE  MaximalBatch(s[i], D, size, maxFiles, maxBytes)
    <2> DEFINE L == Latest(s[i])
               later == {g \in D : /\ PlanRank[g] > PlanRank[L]
                                   /\ Parent[g] = Parent[L]}
    <2>1. L \in s[i] /\ L \in File /\ \A g \in s[i] : PlanRank[g] <= PlanRank[L]
      <3>1. s[i] \subseteq File /\ s[i] # {}
        BY <1>1, <1>2 DEF GoodBatch
      <3> QED  BY <3>1, LatestFile
    <2> HIDE DEF L
    <2>2. SUFFICES ASSUME NEW next \in later,
                          \A g \in later : PlanRank[next] <= PlanRank[g]
                   PROVE  \/ Full(s[i], size, maxFiles, maxBytes)
                          \/ Bytes(s[i], size) + size[next] > maxBytes
      BY DEF MaximalBatch, L
    <2>3. PICK j \in 1 .. k : next \in s[j]
      BY <1>2
    <2>4. next \in File /\ PlanRank[next] > PlanRank[L] /\ Parent[next] = Parent[L]
      OBVIOUS
    <2>5. i < j
      <3>1. j # i
        BY <2>1, <2>3, <2>4, RankFacts
      <3>2. ASSUME j < i PROVE PlanRank[next] < PlanRank[L]
        BY <1>2, <2>1, <2>3, <3>2
      <3> QED  BY <1>1, <2>1, <2>4, <3>1, <3>2, RankFacts
    <2>6. i \in 1 .. k - 1 /\ i + 1 \in 1 .. k /\ i < i + 1
      BY <1>1, <2>5
    <2>7. PICK h \in s[i + 1] : \A g \in s[i + 1] : PlanRank[h] <= PlanRank[g]
      <3>1. s[i + 1] \subseteq File /\ s[i + 1] # {}
        BY <1>1, <1>2, <2>6 DEF GoodBatch
      <3> QED  BY <3>1, FirstFile
    <2>8. h \in D /\ h \in File /\ PlanRank[h] > PlanRank[L]
      <3>1. h \in D
        BY <1>1, <2>6
      <3>2. PlanRank[L] < PlanRank[h]
        BY <1>2, <2>1, <2>6
      <3> QED  BY <2>1, <3>1, <3>2, RankFacts
    <2>9. PlanRank[h] <= PlanRank[next]
      <3>1. CASE j = i + 1
        BY <2>3, <2>7, <3>1
      <3>2. CASE j # i + 1
        <4>1. i + 1 < j
          BY <1>1, <2>5, <3>2
        <4>2. PlanRank[h] < PlanRank[next]
          BY <1>2, <2>3, <2>6, <4>1
        <4> QED  BY <2>4, <2>8, <4>2, RankFacts
      <3> QED  BY <3>1, <3>2
    <2>10. Parent[h] = Parent[L]
      <3>1. h = next \/ PlanRank[h] < PlanRank[next]
        BY <2>4, <2>8, <2>9, RankFacts
      <3>2. PlanRank[L] < PlanRank[h]
        BY <2>1, <2>8, RankFacts
      <3> QED  BY <2>1, <2>4, <2>8, <3>1, <3>2, PlannerAssumption
    <2>11. h = next
      <3>1. h \in later
        BY <2>8, <2>10
      <3>2. PlanRank[next] <= PlanRank[h]
        BY <2>2, <3>1
      <3> QED  BY <2>4, <2>8, <2>9, <3>2, RankFacts
    <2>12. ~Joins(s[i], next, size, maxFiles, maxBytes)
      BY <1>2, <2>6, <2>7, <2>11
    <2>13. \A g \in s[i] : Parent[g] = Parent[next]
      BY <1>2, <2>1, <2>4 DEF GoodBatch
    <2>14. IsFiniteSet(s[i]) /\ Cardinality(s[i]) \in Nat /\ Bytes(s[i], size) \in Nat
      <3>1. s[i] \subseteq File
        BY <1>1
      <3>2. IsFiniteSet(s[i])
        BY <3>1, RankFacts, FS_Subset
      <3>3. \A g \in s[i] : size[g] \in Nat
        BY <3>1
      <3> QED  BY <3>2, <3>3, BytesType, FS_CardinalityType
    <2> QED  BY <2>4, <2>12, <2>13, <2>14 DEF Joins, Full
  <1>6. IsPlan(P, D, size, maxFiles, maxBytes)
    BY <1>1, <1>3, <1>4, <1>5 DEF IsPlan
  <1> QED  BY <1>6 DEF P

(* PlanBatchesBounded's loop over parentFiles computes a plan: for every   *)
(* set of files, every size and every positive pair of bounds, each file   *)
(* is in exactly one batch, a batch is a contiguous run of one directory   *)
(* within both bounds unless it is a single file, and none was closed      *)
(* while the next file of its directory still fitted.                      *)
THEOREM BoundedPlanIsPlan ==
  ASSUME NEW size \in [File -> Nat], NEW maxFiles \in Nat, maxFiles > 0,
         NEW maxBytes \in Nat, maxBytes > 0, NEW D, D \subseteq File
  PROVE  IsPlan(BoundedPlan(D, size, maxFiles, maxBytes), D,
                size, maxFiles, maxBytes)
  <1> DEFINE N == Cardinality(D)
             g == CHOOSE h : Loop(h, N, D, size, maxFiles, maxBytes)
  <1>1. N \in Nat
    BY RankFacts, FS_Subset, FS_CardinalityType
  <1>2. Loop(g, N, D, size, maxFiles, maxBytes)
    BY <1>1, LoopExists
  <1>3. LoopEnd(D, size, maxFiles, maxBytes) = g[N]
    BY DEF LoopEnd
  <1> HIDE DEF g
  <1>4. LoopInv(g[N], D, size, maxFiles, maxBytes)
    BY <1>2, LoopKeeps
  <1> QED  BY <1>3, <1>4, BoundedUnfold, LoopInvIsPlan

----------------------------------------------------------------------------
(* The chunks of PlanBatches.                                              *)

LEMMA TimesStep ==
  ASSUME NEW m \in Nat, NEW p \in Nat, NEW q \in Nat, p < q
  PROVE  m * p \in Nat /\ m * q \in Nat /\ m * p + m <= m * q
  <1>1. PICK d \in Nat : q = p + 1 + d
    <2>1. q - p - 1 \in Nat /\ q = p + 1 + (q - p - 1)
      OBVIOUS
    <2> QED  BY <2>1
  <1>2. m * d \in Nat /\ m * p \in Nat /\ m * (p + 1 + d) = m * p + m + m * d
    OBVIOUS
  <1> QED  BY <1>1, <1>2

LEMMA DivFacts ==
  ASSUME NEW a \in Nat, NEW m \in Nat, m > 0
  PROVE  /\ a \div m \in Nat
         /\ m * (a \div m) \in Nat
         /\ m * (a \div m) <= a
         /\ a < m * (a \div m) + m
  OBVIOUS

LEMMA DivIs ==
  ASSUME NEW a \in Nat, NEW m \in Nat, m > 0, NEW q \in Nat,
         m * q <= a, a < m * q + m
  PROVE  a \div m = q
  <1>1. PICK p : p = a \div m /\ p \in Nat /\ m * p \in Nat
                 /\ m * p <= a /\ a < m * p + m
    BY DivFacts
  <1>2. m * q \in Nat
    OBVIOUS
  <1>3. p < q => m * p + m <= m * q
    BY <1>1, TimesStep
  <1>4. q < p => m * q + m <= m * p
    BY <1>1, TimesStep
  <1>5. ~(p < q) /\ ~(q < p)
    BY <1>1, <1>2, <1>3, <1>4
  <1> QED  BY <1>1, <1>5

(* The index of a file among the files of its directory. *)
At(D, f) == Cardinality({g \in D : /\ Parent[g] = Parent[f]
                                   /\ PlanRank[g] < PlanRank[f]})

ChunkOf(D, m, f) == {g \in D : /\ Parent[g] = Parent[f]
                               /\ At(D, g) \div m = At(D, f) \div m}

LEMMA ChunkedUnfold ==
  \A D, m : ChunkedPlan(D, m) = {ChunkOf(D, m, f) : f \in D}
  BY DEF ChunkedPlan, ChunkOf, At

LEMMA AtOrder ==
  ASSUME NEW D, D \subseteq File, NEW f \in D
  PROVE  /\ At(D, f) \in Nat
         /\ \A g \in D : Parent[g] = Parent[f] /\ PlanRank[f] < PlanRank[g]
                           => At(D, f) < At(D, g)
  <1> DEFINE U(h) == {g \in D : Parent[g] = Parent[h] /\ PlanRank[g] < PlanRank[h]}
  <1>1. \A h \in D : IsFiniteSet(U(h))
    BY RankFacts, FS_Subset
  <1>2. \A h \in D : Cardinality(U(h)) \in Nat
    BY <1>1, FS_CardinalityType
  <1>3. ASSUME NEW g \in D, Parent[g] = Parent[f], PlanRank[f] < PlanRank[g]
        PROVE  Cardinality(U(f)) < Cardinality(U(g))
    <2>1. U(f) \subseteq U(g) /\ f \in U(g) /\ f \notin U(f)
      BY <1>3, RankFacts
    <2>2. Cardinality(U(f)) <= Cardinality(U(g)) /\ Cardinality(U(f)) # Cardinality(U(g))
      <3> HIDE DEF U
      <3> QED  BY <1>1, <2>1, FS_Subset
    <2> QED  BY <1>2, <2>2
  <1> QED  BY <1>2, <1>3 DEF At

(* Up to a file, the files of its directory take every index there is. *)
LEMMA AtSurjects ==
  ASSUME NEW D, D \subseteq File, NEW f \in D, NEW n \in 0 .. At(D, f)
  PROVE  \E g \in D : /\ Parent[g] = Parent[f]
                      /\ PlanRank[g] <= PlanRank[f]
                      /\ At(D, g) = n
  <1>1. At(D, f) \in Nat
    BY AtOrder
  <1>2. PICK I : /\ I = 0 .. At(D, f)
                 /\ IsFiniteSet(I)
                 /\ Cardinality(I) = At(D, f) + 1
    <2>1. 0 \in Int /\ At(D, f) \in Int
      BY <1>1
    <2>2. /\ IsFiniteSet(0 .. At(D, f))
          /\ Cardinality(0 .. At(D, f))
               = IF 0 > At(D, f) THEN 0 ELSE At(D, f) - 0 + 1
      BY ONLY <2>1, FS_Interval
    <2>3. Cardinality(0 .. At(D, f)) = At(D, f) + 1
      BY <1>1, <2>2
    <2> QED  BY <2>2, <2>3
  <1>3. PICK U : U = {g \in D : Parent[g] = Parent[f] /\ PlanRank[g] < PlanRank[f]}
    OBVIOUS
  <1>4. IsFiniteSet(U) /\ Cardinality(U) = At(D, f) /\ f \notin U
    BY <1>3, RankFacts, FS_Subset DEF At
  <1>5. PICK V : V = U \cup {f}
    OBVIOUS
  <1>6. IsFiniteSet(V) /\ Cardinality(V) = At(D, f) + 1
    BY <1>4, <1>5, FS_AddElement
  <1>7. \A g \in V : g \in D /\ Parent[g] = Parent[f] /\ PlanRank[g] <= PlanRank[f]
    BY <1>3, <1>5, RankFacts
  <1>8. PICK p : p = [g \in V |-> At(D, g)]
    OBVIOUS
  <1>9. p \in Injection(V, I)
    <2>1. ASSUME NEW g \in V
          PROVE  At(D, g) \in I
      <3>1. g = f \/ PlanRank[g] < PlanRank[f]
        BY <1>3, <1>5
      <3>2. At(D, g) \in Nat /\ (g = f \/ At(D, g) < At(D, f))
        BY <1>7, <3>1, AtOrder
      <3> QED  BY <1>1, <1>2, <3>2
    <2>2. ASSUME NEW g \in V, NEW h \in V, g # h
          PROVE  p[g] # p[h]
      <3>1. /\ g \in D /\ h \in D /\ Parent[g] = Parent[h]
            /\ PlanRank[g] < PlanRank[h] \/ PlanRank[h] < PlanRank[g]
        BY <1>7, <2>2, RankFacts
      <3>2. At(D, g) < At(D, h) \/ At(D, h) < At(D, g)
        BY <3>1, AtOrder
      <3>3. At(D, g) \in Nat /\ At(D, h) \in Nat
        BY <3>1, AtOrder
      <3> QED  BY <1>8, <3>2, <3>3
    <2> QED  BY <1>8, <2>1, <2>2 DEF Injection, IsInjective
  <1>10. p \in Surjection(V, I)
    BY <1>2, <1>6, <1>9, FS_Injection
  <1>11. \E g \in V : p[g] = n
    BY <1>2, <1>10 DEF Surjection
  <1> QED  BY <1>7, <1>8, <1>11

(* A chunk has at most m files, and m if it reaches the last index of its  *)
(* range.                                                                  *)
LEMMA ChunkCard ==
  ASSUME NEW D, D \subseteq File, NEW m \in Nat, m > 0, NEW f \in D
  PROVE  /\ Cardinality(ChunkOf(D, m, f)) \in Nat
         /\ Cardinality(ChunkOf(D, m, f)) <= m
         /\ \A h \in ChunkOf(D, m, f) :
              At(D, h) = m * (At(D, f) \div m) + m - 1
                => Cardinality(ChunkOf(D, m, f)) = m
  <1>1. PICK q : q = At(D, f) \div m /\ q \in Nat /\ m * q \in Nat
    BY AtOrder, DivFacts
  <1>2. PICK c : c = ChunkOf(D, m, f)
    OBVIOUS
  <1>3. /\ c \subseteq D /\ IsFiniteSet(c)
        /\ \A g \in D : g \in c <=> Parent[g] = Parent[f] /\ At(D, g) \div m = q
    BY <1>1, <1>2, RankFacts, FS_Subset DEF ChunkOf
  <1>4. PICK r : r = m * q /\ r \in Nat
    BY <1>1
  <1>5. PICK I : /\ I = r .. r + m - 1
                 /\ IsFiniteSet(I)
                 /\ Cardinality(I) = m
    <2>1. r \in Int /\ r + m - 1 \in Int
      BY <1>4
    <2>2. /\ IsFiniteSet(r .. r + m - 1)
          /\ Cardinality(r .. r + m - 1)
               = IF r > r + m - 1 THEN 0 ELSE (r + m - 1) - r + 1
      BY ONLY <2>1, FS_Interval
    <2>3. Cardinality(r .. r + m - 1) = m
      BY <1>4, <2>2
    <2> QED  BY <2>2, <2>3
  <1>6. PICK p : p = [g \in c |-> At(D, g)]
    OBVIOUS
  <1>7. p \in Injection(c, I)
    <2>1. ASSUME NEW g \in c
          PROVE  At(D, g) \in I
      <3>1. At(D, g) \in Nat /\ At(D, g) \div m = q
        BY <1>3, AtOrder
      <3>2. m * q <= At(D, g) /\ At(D, g) < m * q + m
        BY <3>1, DivFacts
      <3> QED  BY <1>4, <1>5, <3>1, <3>2
    <2>2. ASSUME NEW g \in c, NEW h \in c, g # h
          PROVE  p[g] # p[h]
      <3>1. /\ g \in D /\ h \in D /\ Parent[g] = Parent[h]
            /\ PlanRank[g] < PlanRank[h] \/ PlanRank[h] < PlanRank[g]
        BY <1>3, <2>2, RankFacts
      <3>2. At(D, g) < At(D, h) \/ At(D, h) < At(D, g)
        BY <3>1, AtOrder
      <3>3. At(D, g) \in Nat /\ At(D, h) \in Nat
        BY <3>1, AtOrder
      <3> QED  BY <1>6, <3>2, <3>3
    <2> QED  BY <1>6, <2>1, <2>2 DEF Injection, IsInjective
  <1>8. Cardinality(c) \in Nat /\ Cardinality(c) <= m
    BY <1>3, <1>5, <1>7, FS_Injection, FS_CardinalityType
  <1>9. ASSUME NEW h \in c, At(D, h) = r + m - 1
        PROVE  Cardinality(c) = m
    <2>1. ASSUME NEW n \in I
          PROVE  \E g \in c : p[g] = n
      <3>1. n \in Nat /\ n \in 0 .. At(D, h) /\ m * q <= n /\ n < m * q + m
        BY <1>4, <1>5, <1>9
      <3>2. PICK g \in D : Parent[g] = Parent[h] /\ At(D, g) = n
        BY <1>3, <3>1, AtSurjects
      <3>3. n \div m = q
        BY <1>1, <3>1, DivIs
      <3>4. g \in c
        BY <1>3, <3>2, <3>3
      <3> QED  BY <1>6, <3>2, <3>4
    <2>2. p \in Surjection(c, I)
      BY <1>7, <2>1 DEF Injection, Surjection
    <2> QED  BY <1>5, <1>7, <2>2, FS_Injection
  <1> QED  BY <1>1, <1>2, <1>4, <1>8, <1>9

LEMMA ChunkWellFormed ==
  ASSUME NEW size, NEW D, D \subseteq File, NEW m \in Nat, m > 0, NEW f \in D
  PROVE  WellFormedBatch(ChunkOf(D, m, f), D, size, m, 0)
  <1>1. PICK c : c = ChunkOf(D, m, f)
    OBVIOUS
  <1>2. PICK q : q = At(D, f) \div m /\ q \in Nat /\ m * q \in Nat
    BY AtOrder, DivFacts
  <1>3. /\ c \subseteq D /\ c # {}
        /\ \A g \in D : g \in c <=> Parent[g] = Parent[f] /\ At(D, g) \div m = q
    BY <1>1, <1>2 DEF ChunkOf
  <1>4. \A g, h \in c : Parent[g] = Parent[h]
    BY <1>3
  <1>5. ASSUME NEW g \in c, NEW k \in c, NEW h \in D,
               PlanRank[g] < PlanRank[h], PlanRank[h] < PlanRank[k]
        PROVE  h \in c
    <2>1. g \in D /\ k \in D /\ Parent[g] = Parent[k] /\ Parent[g] = Parent[f]
      BY <1>3
    <2>2. Parent[h] = Parent[g]
      BY <1>5, <2>1, PlannerAssumption
    <2>3. At(D, g) < At(D, h) /\ At(D, h) < At(D, k)
      BY <1>5, <2>1, <2>2, AtOrder
    <2>4. At(D, g) \in Nat /\ At(D, h) \in Nat /\ At(D, k) \in Nat
      BY <2>1, AtOrder
    <2>5. At(D, g) \div m = q /\ At(D, k) \div m = q
      BY <1>3
    <2>6. m * q <= At(D, g) /\ At(D, k) < m * q + m
      BY <2>4, <2>5, DivFacts
    <2>7. At(D, h) \div m = q
      BY <1>2, <2>3, <2>4, <2>6, DivIs
    <2> QED  BY <1>3, <2>1, <2>2, <2>7
  <1>6. Cardinality(c) \in Nat /\ Cardinality(c) <= m
    BY <1>1, ChunkCard
  <1>7. ~Full(c \ {Latest(c)}, size, m, 0)
    <2>1. Latest(c) \in c
      <3>1. c \subseteq File
        BY <1>3
      <3> QED  BY <1>3, <3>1, LatestFile
    <2>2. IsFiniteSet(c)
      BY <1>3, RankFacts, FS_Subset
    <2>3. Cardinality(c \ {Latest(c)}) = Cardinality(c) - 1
      BY <2>1, <2>2, FS_RemoveElement
    <2>4. Cardinality(c \ {Latest(c)}) < m
      BY <1>6, <2>3
    <2>5. PICK x : x = Cardinality(c \ {Latest(c)}) /\ x \in Int /\ x < m
      BY <1>6, <2>3, <2>4
    <2> QED  BY <2>5 DEF Full
  <1>8. WellFormedBatch(c, D, size, m, 0)
    BY <1>4, <1>5, <1>6, <1>7 DEF WellFormedBatch
  <1> QED  BY <1>1, <1>8

LEMMA ChunkMaximal ==
  ASSUME NEW size, NEW D, D \subseteq File, NEW m \in Nat, m > 0, NEW f \in D
  PROVE  MaximalBatch(ChunkOf(D, m, f), D, size, m, 0)
  <1>1. PICK c : c = ChunkOf(D, m, f)
    OBVIOUS
  <1>2. PICK q : q = At(D, f) \div m /\ q \in Nat /\ m * q \in Nat
    BY AtOrder, DivFacts
  <1>3. /\ c \subseteq D /\ c # {}
        /\ \A g \in D : g \in c <=> Parent[g] = Parent[f] /\ At(D, g) \div m = q
    BY <1>1, <1>2 DEF ChunkOf
  <1> DEFINE L == Latest(c)
             later == {g \in D : /\ PlanRank[g] > PlanRank[L]
                                 /\ Parent[g] = Parent[L]}
  <1>4. L \in c /\ L \in D /\ L \in File /\ \A g \in c : PlanRank[g] <= PlanRank[L]
    <2>1. c \subseteq File
      BY <1>3
    <2> QED  BY <1>3, <2>1, LatestFile
  <1> HIDE DEF L
  <1>5. ASSUME NEW next \in later,
               \A g \in later : PlanRank[next] <= PlanRank[g]
        PROVE  Cardinality(c) = m
    <2>1. /\ next \in D /\ next \in File /\ Parent[next] = Parent[L]
          /\ PlanRank[L] < PlanRank[next]
      BY <1>4, RankFacts
    <2>2. At(D, L) \in Nat /\ At(D, next) \in Nat /\ At(D, L) < At(D, next)
      BY <1>4, <2>1, AtOrder
    <2>3. At(D, L) \div m = q /\ Parent[L] = Parent[f]
      BY <1>3, <1>4
    <2>4. m * q <= At(D, L) /\ At(D, L) < m * q + m
      BY <2>2, <2>3, DivFacts
    <2>5. next \notin c
      BY <1>4, <2>1, RankFacts
    <2>6. At(D, next) \div m # q
      BY <1>3, <2>1, <2>3, <2>5
    <2>7. m * q + m <= At(D, next)
      <3>1. ASSUME At(D, next) < m * q + m PROVE FALSE
        BY <1>2, <2>2, <2>4, <2>6, <3>1, DivIs
      <3> QED  BY <1>2, <2>2, <3>1
    <2>8. At(D, L) = m * q + m - 1
      <3>1. ASSUME At(D, L) < m * q + m - 1 PROVE FALSE
        <4>1. PICK n : n = At(D, L) + 1
          OBVIOUS
        <4>2. n \in 0 .. At(D, next) /\ n \in Nat /\ m * q <= n /\ n < m * q + m
          BY <1>2, <2>2, <2>4, <3>1, <4>1
        <4>3. PICK g \in D : /\ Parent[g] = Parent[next]
                             /\ PlanRank[g] <= PlanRank[next]
                             /\ At(D, g) = n
          BY <2>1, <4>2, AtSurjects
        <4>4. n \div m = q
          BY <1>2, <4>2, DivIs
        <4>5. g \in c
          BY <1>3, <2>1, <2>3, <4>3, <4>4
        <4>6. g = L \/ PlanRank[g] < PlanRank[L]
          BY <1>3, <1>4, <4>5, RankFacts
        <4>7. g = L \/ At(D, g) < At(D, L)
          BY <1>4, <2>1, <4>3, <4>6, AtOrder
        <4> QED  BY <2>2, <4>1, <4>3, <4>7
      <3> QED  BY <1>2, <2>2, <2>4, <3>1
    <2> QED  BY <1>1, <1>2, <1>4, <2>8, ChunkCard
  <1>6. MaximalBatch(c, D, size, m, 0)
    BY <1>5 DEF MaximalBatch, Full, L
  <1> QED  BY <1>1, <1>6

(* PlanBatches: chunks of each directory are a plan without a byte bound,  *)
(* for every set of files and every batch size.                            *)
THEOREM ChunkedPlanIsPlan ==
  ASSUME NEW size, NEW D, D \subseteq File, NEW m \in Nat, m > 0
  PROVE  IsPlan(ChunkedPlan(D, m), D, size, m, 0)
  <1>1. PICK P : P = ChunkedPlan(D, m)
    OBVIOUS
  <1>2. P = {ChunkOf(D, m, f) : f \in D}
    BY <1>1, ChunkedUnfold
  <1>3. IsPartition(P, D)
    <2>1. \A f \in D : f \in ChunkOf(D, m, f) /\ ChunkOf(D, m, f) \subseteq D
      BY DEF ChunkOf
    <2>2. \A f, g \in D : ChunkOf(D, m, f) \cap ChunkOf(D, m, g) # {}
                            => ChunkOf(D, m, f) = ChunkOf(D, m, g)
      BY DEF ChunkOf
    <2>3. UNION P = D
      BY <1>2, <2>1
    <2>4. {} \notin P
      BY <1>2, <2>1
    <2>5. \A b, c \in P : b # c => b \cap c = {}
      BY <1>2, <2>2
    <2> QED  BY <2>3, <2>4, <2>5 DEF IsPartition
  <1>4. \A b \in P : \E f \in D : b = ChunkOf(D, m, f)
    BY <1>2
  <1>5. IsPlan(P, D, size, m, 0)
    BY <1>3, <1>4, ChunkWellFormed, ChunkMaximal DEF IsPlan
  <1> QED  BY <1>1, <1>5

(* A byte bound above all the files together changes nothing. *)
LEMMA AmpleBound ==
  ASSUME NEW size \in [File -> Nat], NEW D, D \subseteq File, NEW m \in Nat,
         NEW maxBytes \in Nat, maxBytes > Bytes(D, size),
         NEW P, IsPlan(P, D, size, m, 0)
  PROVE  IsPlan(P, D, size, m, maxBytes)
  <1>1. IsPartition(P, D)
    BY DEF IsPlan
  <1>2. IsFiniteSet(D) /\ (\A g \in D : size[g] \in Nat) /\ Bytes(D, size) \in Nat
    <2>1. IsFiniteSet(D) /\ \A g \in D : size[g] \in Nat
      BY RankFacts, FS_Subset
    <2> QED  BY <2>1, BytesType
  <1>3. ASSUME NEW b, b \subseteq D
        PROVE  Bytes(b, size) \in Nat /\ Bytes(b, size) < maxBytes
    <2>1. IsFiniteSet(b) /\ \A g \in b : size[g] \in Nat
      BY <1>2, <1>3, FS_Subset
    <2>2. Bytes(b, size) \in Nat /\ Bytes(b, size) <= Bytes(D, size)
      BY <1>2, <1>3, <2>1, BytesType, BytesSubset
    <2> QED  BY <1>2, <2>2
  <1>4. ASSUME NEW b, b \subseteq D
        PROVE  Full(b, size, m, maxBytes) <=> Full(b, size, m, 0)
    BY <1>3, <1>4 DEF Full
  <1>5. ASSUME NEW b \in P
        PROVE  /\ WellFormedBatch(b, D, size, m, maxBytes)
               /\ MaximalBatch(b, D, size, m, maxBytes)
    <2>1. b \subseteq D /\ b \ {Latest(b)} \subseteq D
      BY <1>1 DEF IsPartition
    <2>2. Bytes(b, size) <= maxBytes
      BY <1>3, <2>1
    <2>3. WellFormedBatch(b, D, size, m, 0) /\ MaximalBatch(b, D, size, m, 0)
      BY DEF IsPlan
    <2>4. WellFormedBatch(b, D, size, m, maxBytes)
      BY <1>4, <2>1, <2>2, <2>3 DEF WellFormedBatch
    <2>5. MaximalBatch(b, D, size, m, maxBytes)
      BY <1>4, <2>1, <2>3 DEF MaximalBatch
    <2> QED  BY <2>4, <2>5
  <1> QED  BY <1>1, <1>5 DEF IsPlan

(* Where the byte bound cannot bind, PlanBatchesBounded and PlanBatches    *)
(* give the same batches, and so the same content-derived batch IDs.       *)
THEOREM AmplePlansAgree ==
  ASSUME NEW size \in [File -> Nat], NEW D, D \subseteq File,
         NEW m \in Nat, m > 0, NEW maxBytes \in Nat, maxBytes > Bytes(D, size)
  PROVE  BoundedPlan(D, size, m, maxBytes) = ChunkedPlan(D, m)
  <1>1. maxBytes > 0
    <2>1. IsFiniteSet(D) /\ \A g \in D : size[g] \in Nat
      BY RankFacts, FS_Subset
    <2>2. Bytes(D, size) \in Nat
      BY <2>1, BytesType
    <2> QED  BY <2>2
  <1>2. IsPlan(BoundedPlan(D, size, m, maxBytes), D, size, m, maxBytes)
    BY <1>1, BoundedPlanIsPlan
  <1>3. IsPlan(ChunkedPlan(D, m), D, size, m, maxBytes)
    BY ChunkedPlanIsPlan, AmpleBound
  <1> QED  BY <1>2, <1>3, PlanIsUnique
=============================================================================
