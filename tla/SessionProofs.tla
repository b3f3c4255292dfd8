---------------------------- MODULE SessionProofs ----------------------------
(***************************************************************************)
(* The theorems about Session.tla, by induction over the calls: SInv holds *)
(* initially and every call keeps it.  The first part is about the value   *)
(* banks: the copies that a compaction makes lie side by side from the     *)
(* beginning of the other bank, each with the bytes of its source, and     *)
(* every outcome -- done, given up after any chunk, or with a manifest     *)
(* write that failed -- leaves all reachable values readable.              *)
(***************************************************************************)
EXTENDS SessionInvariant, SequenceTheorems, FiniteSetTheorems, TLAPS

-----------------------------------------------------------------------------
(* Counting.                                                               *)

\* The chunks of a value are its half chunks, rounded up to pairs.
LEMMA ChunksBounds ==
    ASSUME NEW n \in Nat
    PROVE  /\ Chunks(n) \in Nat
           /\ n <= 2 * Chunks(n) /\ 2 * Chunks(n) <= n + 1
           /\ n > 0 => Chunks(n) > 0
BY DEF Chunks

\* There are c numbers below c.
LEMMA NumbersBelow ==
    ASSUME NEW c \in Nat
    PROVE  IsFiniteSet(0 .. (c - 1)) /\ Cardinality(0 .. (c - 1)) = c
<1>1. PICK d : d = c - 1
  OBVIOUS
<1>2. d \in Int /\ (IF 0 > d THEN 0 ELSE d - 0 + 1) = c
  BY <1>1
<1>3. 0 \in Int
  OBVIOUS
<1>4. IsFiniteSet(0 .. d) /\ Cardinality(0 .. d) = IF 0 > d THEN 0 ELSE d - 0 + 1
  BY <1>2, <1>3, FS_Interval
<1> QED
  BY <1>1, <1>2, <1>4

\* The values of a function on a finite set are a finite set.
LEMMA ImageFinite ==
    ASSUME NEW S, IsFiniteSet(S), NEW f, f = [s \in S |-> f[s]]
    PROVE  IsFiniteSet({f[s] : s \in S})
<1>1. f \in Surjection(S, {f[s] : s \in S})
  BY DEF Surjection
<1> QED
  BY <1>1, FS_Surjection

\* A set of records that name the chunks of S is finite when S is.
ChunkSet(S) == UNION {{x} \X (0 .. (Chunks(x.ref.size) - 1)) : x \in S}

\* A chunk of a source is a pair of the source and a place in its value.
LEMMA ChunkSetMember ==
    ASSUME NEW S, NEW p
    PROVE  p \in ChunkSet(S) <=>
              \E x \in S : \E i \in 0 .. (Chunks(x.ref.size) - 1) : p = <<x, i>>
BY DEF ChunkSet

\* Finitely many sources of finite sizes have finitely many chunks.
LEMMA ChunkSetFinite ==
    ASSUME NEW S, IsFiniteSet(S), \A x \in S : x.ref.size \in Nat
    PROVE  IsFiniteSet(ChunkSet(S)) /\ ChunksOf(S) = Cardinality(ChunkSet(S))
           /\ ChunksOf(S) \in Nat
<1> DEFINE f == [x \in S |-> {x} \X (0 .. (Chunks(x.ref.size) - 1))]
<1>1. IsFiniteSet({f[x] : x \in S})
  <2>1. f = [x \in S |-> f[x]]
    OBVIOUS
  <2> HIDE DEF f
  <2> QED
    BY <2>1, ImageFinite
<1>2. {f[x] : x \in S} = {{x} \X (0 .. (Chunks(x.ref.size) - 1)) : x \in S}
  OBVIOUS
<1>3. ASSUME NEW x \in S
      PROVE  IsFiniteSet({x} \X (0 .. (Chunks(x.ref.size) - 1)))
  <2>1. Chunks(x.ref.size) \in Nat
    <3>1. PICK n : n = x.ref.size
      OBVIOUS
    <3>2. n \in Nat
      BY <3>1
    <3> QED
      BY <3>1, <3>2, ChunksBounds
  <2>2. IsFiniteSet(0 .. (Chunks(x.ref.size) - 1))
    BY <2>1, NumbersBelow
  <2>3. IsFiniteSet({x})
    BY FS_Singleton
  <2> QED
    BY <2>2, <2>3, FS_Product
<1>4. \A T \in {f[x] : x \in S} : IsFiniteSet(T)
  BY <1>2, <1>3
<1>5. IsFiniteSet(UNION {f[x] : x \in S})
  <2> HIDE DEF f
  <2> QED
    BY <1>1, <1>4, FS_UNION
<1>6. IsFiniteSet(ChunkSet(S))
  BY <1>2, <1>5 DEF ChunkSet
<1>7. ChunksOf(S) = Cardinality(ChunkSet(S))
  BY DEF ChunksOf, ChunkSet
<1> QED
  BY <1>6, <1>7, FS_CardinalityType

\* One value has the chunks it needs.
LEMMA ChunksOfOne ==
    ASSUME NEW x, x.ref.size \in Nat
    PROVE  ChunksOf({x}) = Chunks(x.ref.size)
<1> DEFINE I == 0 .. (Chunks(x.ref.size) - 1)
<1>1. Chunks(x.ref.size) \in Nat
  BY ChunksBounds
<1>2. IsFiniteSet(I) /\ Cardinality(I) = Chunks(x.ref.size)
  BY <1>1, NumbersBelow
<1>3. IsFiniteSet({x}) /\ Cardinality({x}) = 1
  BY FS_Singleton
<1>4. Cardinality({x} \X I) = Cardinality({x}) * Cardinality(I)
  BY <1>2, <1>3, FS_Product
<1>5. UNION {{y} \X (0 .. (Chunks(y.ref.size) - 1)) : y \in {x}} = {x} \X I
  OBVIOUS
<1>6. ChunksOf({x}) = Cardinality({x} \X I)
  BY <1>5 DEF ChunksOf
<1> HIDE DEF I
<1>7. PICK c : c = Chunks(x.ref.size)
  OBVIOUS
<1>8. 1 * c = c
  BY <1>1, <1>7
<1> QED
  BY <1>2, <1>3, <1>4, <1>6, <1>7, <1>8

\* Chunks of disjoint sets add up, and a larger set has no fewer.
LEMMA ChunksOfUnion ==
    ASSUME NEW S, NEW T, IsFiniteSet(S), IsFiniteSet(T), S \cap T = {},
           \A x \in S \cup T : x.ref.size \in Nat
    PROVE  ChunksOf(S \cup T) = ChunksOf(S) + ChunksOf(T)
<1>1. IsFiniteSet(S \cup T)
  BY FS_Union
<1>2. /\ IsFiniteSet(ChunkSet(S)) /\ IsFiniteSet(ChunkSet(T))
      /\ ChunksOf(S) = Cardinality(ChunkSet(S)) /\ ChunksOf(T) = Cardinality(ChunkSet(T))
      /\ ChunksOf(S \cup T) = Cardinality(ChunkSet(S \cup T))
      /\ ChunksOf(S) \in Nat /\ ChunksOf(T) \in Nat
  BY <1>1, ChunkSetFinite
<1>3. ChunkSet(S \cup T) = ChunkSet(S) \cup ChunkSet(T)
  BY DEF ChunkSet
<1>4. ChunkSet(S) \cap ChunkSet(T) = {}
  <2>1. ASSUME NEW p \in ChunkSet(S), p \in ChunkSet(T) PROVE FALSE
    <3>1. PICK x \in S : \E i \in 0 .. (Chunks(x.ref.size) - 1) : p = <<x, i>>
      BY ChunkSetMember
    <3>2. PICK y \in T : \E i \in 0 .. (Chunks(y.ref.size) - 1) : p = <<y, i>>
      BY <2>1, ChunkSetMember
    <3>3. x = y
      BY <3>1, <3>2
    <3> QED
      BY <3>3
  <2> QED
    BY <2>1
<1>5. Cardinality(ChunkSet(S) \cap ChunkSet(T)) = 0
  BY <1>4, FS_EmptySet
<1>6. Cardinality(ChunkSet(S) \cup ChunkSet(T)) =
        Cardinality(ChunkSet(S)) + Cardinality(ChunkSet(T))
          - Cardinality(ChunkSet(S) \cap ChunkSet(T))
  BY <1>2, FS_Union
<1>7. PICK a, b : a = ChunksOf(S) /\ b = ChunksOf(T)
  OBVIOUS
<1>8. a \in Nat /\ b \in Nat
  BY <1>2, <1>7
<1>9. ChunksOf(S \cup T) = a + b - 0
  BY <1>2, <1>3, <1>5, <1>6, <1>7
<1>10. a + b - 0 = a + b
  BY <1>8
<1> QED
  BY <1>7, <1>9, <1>10

\* Fewer sources have no more chunks.
LEMMA ChunksOfSubset ==
    ASSUME NEW S, NEW T, IsFiniteSet(T), S \subseteq T, \A x \in T : x.ref.size \in Nat
    PROVE  ChunksOf(S) <= ChunksOf(T)
<1>1. IsFiniteSet(S)
  BY FS_Subset
<1>2. IsFiniteSet(ChunkSet(T)) /\ ChunksOf(T) = Cardinality(ChunkSet(T))
      /\ ChunksOf(S) = Cardinality(ChunkSet(S))
  BY <1>1, ChunkSetFinite
<1>3. ChunkSet(S) \in SUBSET ChunkSet(T)
  BY DEF ChunkSet
<1> QED
  BY <1>2, <1>3, FS_Subset

-----------------------------------------------------------------------------
(* The values that a compaction copies, and where it puts them.            *)

ValueTypes == bank \in Banks /\ stored \in [Keys -> Value] /\ txn \in TxnSlot

\* What the kind of a value says about it.
LEMMA ValueKinds ==
    ASSUME NEW v \in StagedValue
    PROVE  /\ External(v) <=> v \in Reference
           /\ InArena(v) <=> v \in StagedInline
           /\ External(v) => v \in Value /\ v # Unstaged /\ v # Absent /\ ~InArena(v)
           /\ InArena(v) => v # Unstaged /\ v # Absent
           /\ Absent \in StagedValue /\ ~External(Absent) /\ ~InArena(Absent)
           /\ Inline \in StagedValue /\ ~External(Inline) /\ ~InArena(Inline)
           /\ Unstaged \in StagedValue /\ ~External(Unstaged) /\ ~InArena(Unstaged)
           /\ Absent # Unstaged /\ Inline # Unstaged
BY DEF StagedValue, Value, Reference, StagedInline, Absent, Inline, Unstaged, External, InArena

\* The fields of a value reference; a referenced value has at least one chunk.
LEMMA ReferenceFields ==
    ASSUME NEW r \in Reference
    PROVE  /\ r.kind = "external" /\ r.bank \in Two /\ r.gen \in Nat /\ r.first \in Nat
           /\ r.size \in Sizes /\ r.size \in Nat /\ r.size > 0 /\ r.id \in Nat
           /\ Chunks(r.size) \in Nat /\ Chunks(r.size) > 0
           /\ r = [kind |-> "external", bank |-> r.bank, gen |-> r.gen,
                   first |-> r.first, size |-> r.size, id |-> r.id]
<1>1. /\ r.kind = "external" /\ r.bank \in Two /\ r.gen \in Nat /\ r.first \in Nat
      /\ r.size \in Sizes /\ r.id \in Nat
      /\ r = [kind |-> "external", bank |-> r.bank, gen |-> r.gen,
              first |-> r.first, size |-> r.size, id |-> r.id]
  BY DEF Reference
<1>2. r.size \in Nat /\ r.size > 0
  BY <1>1, SizesAssumption
<1> QED
  BY <1>1, <1>2, ChunksBounds

\* A source is named by its rank and key.
LEMMA SourceShape ==
    ASSUME ValueTypes, NEW x \in Sources
    PROVE  /\ x = [rank |-> x.rank, key |-> x.key, ref |-> x.ref]
           /\ x.rank \in {0, 1} /\ x.key \in Keys /\ x.key \in Nat
           /\ x.ref \in Reference
           /\ x.rank = 0 => x.ref = stored[x.key]
           /\ x.rank = 1 => x.ref = txn.muts[x.key]
<1>1. CASE x \in {[rank |-> 0, key |-> k, ref |-> stored[k]] :
                    k \in {j \in Keys : External(stored[j])}}
  <2>1. PICK k \in Keys : External(stored[k]) /\ x = [rank |-> 0, key |-> k, ref |-> stored[k]]
    BY <1>1
  <2>2. stored[k] \in StagedValue
    BY DEF ValueTypes, StagedValue
  <2>3. stored[k] \in Reference
    BY <2>1, <2>2, ValueKinds
  <2> QED
    BY <2>1, <2>3, KeysAssumption
<1>2. CASE x \in {[rank |-> 1, key |-> k, ref |-> txn.muts[k]] :
                    k \in {j \in Keys : txn.active /\ External(txn.muts[j])}}
  <2>1. PICK k \in Keys : External(txn.muts[k]) /\ x = [rank |-> 1, key |-> k, ref |-> txn.muts[k]]
    BY <1>2
  <2>2. txn.muts[k] \in StagedValue
    BY DEF ValueTypes, StagedValue, TxnSlot
  <2>3. txn.muts[k] \in Reference
    BY <2>1, <2>2, ValueKinds
  <2> QED
    BY <2>1, <2>3, KeysAssumption
<1> QED
  BY <1>1, <1>2 DEF Sources

\* A source is determined by its rank and key.
LEMMA SourceUnique ==
    ASSUME ValueTypes, NEW x \in Sources, NEW y \in Sources, x.rank = y.rank, x.key = y.key
    PROVE  x = y
BY SourceShape

\* Finitely many values are copied.
LEMMA SourcesFinite ==
    ASSUME ValueTypes
    PROVE  /\ IsFiniteSet(Sources)
           /\ \A x \in Sources : x.ref.size \in Nat
<1> DEFINE K == {j \in Keys : External(stored[j])}
           L == {j \in Keys : txn.active /\ External(txn.muts[j])}
           f == [k \in K |-> [rank |-> 0, key |-> k, ref |-> stored[k]]]
           g == [k \in L |-> [rank |-> 1, key |-> k, ref |-> txn.muts[k]]]
<1>1. IsFiniteSet(K) /\ IsFiniteSet(L)
  <2>1. K \in SUBSET Keys /\ L \in SUBSET Keys
    OBVIOUS
  <2> HIDE DEF K, L
  <2> QED
    BY <2>1, KeysAssumption, FS_Subset
<1>2. f = [k \in K |-> f[k]] /\ g = [k \in L |-> g[k]]
  OBVIOUS
<1>3. Sources = {f[k] : k \in K} \cup {g[k] : k \in L}
  <2>1. {f[k] : k \in K} = {[rank |-> 0, key |-> k, ref |-> stored[k]] : k \in K}
    OBVIOUS
  <2>2. {g[k] : k \in L} = {[rank |-> 1, key |-> k, ref |-> txn.muts[k]] : k \in L}
    OBVIOUS
  <2> QED
    BY <2>1, <2>2 DEF Sources
<1>4. IsFiniteSet({f[k] : k \in K}) /\ IsFiniteSet({g[k] : k \in L})
  <2> HIDE DEF f, g, K, L
  <2> QED
    BY <1>1, <1>2, ImageFinite
<1>5. IsFiniteSet(Sources)
  <2> HIDE DEF f, g, K, L
  <2> QED
    BY <1>3, <1>4, FS_Union
<1>6. \A x \in Sources : x.ref.size \in Nat
  BY SourceShape, ReferenceFields
<1> QED
  BY <1>5, <1>6

\* The first chunk of a copy.
FirstChunk(x) == ChunksOf(CopiedBefore(x))

\* Copying is ordered by rank and key.
LEMMA CopyOrder ==
    ASSUME ValueTypes, NEW x \in Sources
    PROVE  /\ x \notin CopiedBefore(x) /\ CopiedBefore(x) \subseteq Sources
           /\ \A y \in CopiedBefore(x) : CopiedBefore(y) \subseteq CopiedBefore(x)
           /\ \A y \in Sources : y = x \/ y \in CopiedBefore(x) \/ x \in CopiedBefore(y)
<1>1. \A y \in Sources : y.rank \in {0, 1} /\ y.key \in Nat
  BY SourceShape
<1>2. \A y \in Sources : y \in CopiedBefore(x) <=>
         y.rank < x.rank \/ (y.rank = x.rank /\ y.key < x.key)
  BY DEF CopiedBefore
<1>3. x \notin CopiedBefore(x) /\ CopiedBefore(x) \subseteq Sources
  BY <1>1, <1>2 DEF CopiedBefore
<1>4. ASSUME NEW y \in CopiedBefore(x), NEW z \in CopiedBefore(y)
      PROVE  z \in CopiedBefore(x)
  <2>1. /\ y \in Sources /\ z \in Sources
        /\ y.rank < x.rank \/ (y.rank = x.rank /\ y.key < x.key)
        /\ z.rank < y.rank \/ (z.rank = y.rank /\ z.key < y.key)
    BY DEF CopiedBefore
  <2>2. z.rank < x.rank \/ (z.rank = x.rank /\ z.key < x.key)
    BY <1>1, <2>1
  <2> QED
    BY <1>2, <2>1, <2>2
<1>5. ASSUME NEW y \in Sources
      PROVE  y = x \/ y \in CopiedBefore(x) \/ x \in CopiedBefore(y)
  <2>1. \/ y.rank < x.rank \/ (y.rank = x.rank /\ y.key < x.key)
        \/ x.rank < y.rank \/ (x.rank = y.rank /\ x.key < y.key)
        \/ x.rank = y.rank /\ x.key = y.key
    BY <1>1
  <2>2. CASE x.rank = y.rank /\ x.key = y.key
    BY <2>2, SourceUnique
  <2> QED
    BY <2>1, <2>2 DEF CopiedBefore
<1> QED
  BY <1>3, <1>4, <1>5

\* Copies lie behind one another and within the chunks counted for them all.
LEMMA CopyPlaces ==
    ASSUME ValueTypes
    PROVE  /\ ChunksOf(Sources) \in Nat
           /\ \A x \in Sources :
                 /\ FirstChunk(x) \in Nat
                 /\ FirstChunk(x) + Chunks(x.ref.size) <= ChunksOf(Sources)
           /\ \A x \in Sources : \A y \in CopiedBefore(x) :
                 FirstChunk(y) + Chunks(y.ref.size) <= FirstChunk(x)
<1>1. IsFiniteSet(Sources) /\ \A x \in Sources : x.ref.size \in Nat
  BY SourcesFinite
<1>2. ChunksOf(Sources) \in Nat
  BY <1>1, ChunkSetFinite
<1>3. ASSUME NEW S \in SUBSET Sources
      PROVE  IsFiniteSet(S) /\ (\A x \in S : x.ref.size \in Nat) /\ ChunksOf(S) \in Nat
  <2>1. IsFiniteSet(S)
    BY <1>1, FS_Subset
  <2>2. \A x \in S : x.ref.size \in Nat
    BY <1>1
  <2> QED
    BY <2>1, <2>2, ChunkSetFinite
<1>4. ASSUME NEW x \in Sources
      PROVE  /\ FirstChunk(x) \in Nat
             /\ FirstChunk(x) + Chunks(x.ref.size) = ChunksOf(CopiedBefore(x) \cup {x})
  <2>1. CopiedBefore(x) \in SUBSET Sources /\ x \notin CopiedBefore(x)
    BY CopyOrder
  <2>2. IsFiniteSet(CopiedBefore(x)) /\ FirstChunk(x) \in Nat
    BY <1>3, <2>1 DEF FirstChunk
  <2>3. IsFiniteSet({x}) /\ CopiedBefore(x) \cap {x} = {}
    BY <2>1, FS_Singleton
  <2>4. \A y \in CopiedBefore(x) \cup {x} : y.ref.size \in Nat
    BY <1>1, <2>1
  <2>5. ChunksOf(CopiedBefore(x) \cup {x}) = ChunksOf(CopiedBefore(x)) + ChunksOf({x})
    BY <2>2, <2>3, <2>4, ChunksOfUnion
  <2>6. ChunksOf({x}) = Chunks(x.ref.size)
    BY <1>1, ChunksOfOne
  <2> QED
    BY <2>2, <2>5, <2>6 DEF FirstChunk
<1>5. ASSUME NEW x \in Sources
      PROVE  FirstChunk(x) + Chunks(x.ref.size) <= ChunksOf(Sources)
  <2>1. CopiedBefore(x) \cup {x} \subseteq Sources
    BY CopyOrder
  <2>2. ChunksOf(CopiedBefore(x) \cup {x}) <= ChunksOf(Sources)
    BY <1>1, <2>1, ChunksOfSubset
  <2> QED
    BY <1>4, <2>2
<1>6. ASSUME NEW x \in Sources, NEW y \in CopiedBefore(x)
      PROVE  FirstChunk(y) + Chunks(y.ref.size) <= FirstChunk(x)
  <2>1. CopiedBefore(x) \in SUBSET Sources /\ y \in Sources
    BY CopyOrder
  <2>2. CopiedBefore(y) \cup {y} \subseteq CopiedBefore(x)
    BY CopyOrder
  <2>3. ChunksOf(CopiedBefore(y) \cup {y}) <= ChunksOf(CopiedBefore(x))
    BY <1>3, <2>1, <2>2, ChunksOfSubset
  <2> QED
    BY <1>4, <2>1, <2>3 DEF FirstChunk
<1> QED
  BY <1>2, <1>4, <1>5, <1>6

\* A chunk belongs to one copy at most.
LEMMA CopiesDisjoint ==
    ASSUME ValueTypes, NEW x \in Sources, NEW y \in Sources, NEW o \in Nat,
           FirstChunk(x) <= o, o < FirstChunk(x) + Chunks(x.ref.size),
           FirstChunk(y) <= o, o < FirstChunk(y) + Chunks(y.ref.size)
    PROVE  x = y
<1>1. /\ FirstChunk(x) \in Nat /\ FirstChunk(y) \in Nat
      /\ Chunks(x.ref.size) \in Nat /\ Chunks(y.ref.size) \in Nat
  BY CopyPlaces, SourceShape, ReferenceFields
<1>2. y = x \/ y \in CopiedBefore(x) \/ x \in CopiedBefore(y)
  BY CopyOrder
<1>3. /\ y \in CopiedBefore(x) => FirstChunk(y) + Chunks(y.ref.size) <= FirstChunk(x)
      /\ x \in CopiedBefore(y) => FirstChunk(x) + Chunks(x.ref.size) <= FirstChunk(y)
  BY CopyPlaces
<1>4. ~(FirstChunk(y) + Chunks(y.ref.size) <= FirstChunk(x))
      /\ ~(FirstChunk(x) + Chunks(x.ref.size) <= FirstChunk(y))
  BY <1>1
<1> QED
  BY <1>2, <1>3, <1>4

\* No chunk is left out: counting the chunks one by one leaves no gap,
\* because they are as many as the numbers below their count.
LEMMA CopiesCover ==
    ASSUME ValueTypes, NEW o \in Nat, o < ChunksOf(Sources)
    PROVE  \E x \in Sources : FirstChunk(x) <= o /\ o < FirstChunk(x) + Chunks(x.ref.size)
<1> DEFINE C == ChunkSet(Sources)
           N == ChunksOf(Sources)
           f == [p \in C |-> FirstChunk(p[1]) + p[2]]
<1>1. IsFiniteSet(C) /\ N = Cardinality(C) /\ N \in Nat
  BY SourcesFinite, ChunkSetFinite
<1>2. IsFiniteSet(0 .. (N - 1)) /\ Cardinality(0 .. (N - 1)) = N
  BY <1>1, NumbersBelow
<1>3. ASSUME NEW p \in C
      PROVE  /\ p = <<p[1], p[2]>> /\ p[1] \in Sources
             /\ p[2] \in 0 .. (Chunks(p[1].ref.size) - 1)
  <2>1. PICK x \in Sources : \E i \in 0 .. (Chunks(x.ref.size) - 1) : p = <<x, i>>
    BY ChunkSetMember
  <2> QED
    BY <2>1
<1>4. ASSUME NEW x \in Sources, NEW i \in 0 .. (Chunks(x.ref.size) - 1)
      PROVE  /\ FirstChunk(x) + i \in 0 .. (N - 1) /\ i \in Nat
             /\ FirstChunk(x) <= FirstChunk(x) + i
             /\ FirstChunk(x) + i < FirstChunk(x) + Chunks(x.ref.size)
  <2>1. /\ FirstChunk(x) \in Nat /\ Chunks(x.ref.size) \in Nat
        /\ FirstChunk(x) + Chunks(x.ref.size) <= N
    BY CopyPlaces, SourceShape, ReferenceFields
  <2> HIDE DEF N
  <2> QED
    BY <1>1, <2>1
<1>5. f \in [C -> 0 .. (N - 1)]
  BY <1>3, <1>4
<1>6. ASSUME NEW p \in C, NEW q \in C, f[p] = f[q]
      PROVE  p = q
  <2>1. PICK x, i, y, j : x = p[1] /\ i = p[2] /\ y = q[1] /\ j = q[2]
    OBVIOUS
  <2>2. /\ p = <<x, i>> /\ q = <<y, j>>
        /\ x \in Sources /\ y \in Sources
        /\ i \in 0 .. (Chunks(x.ref.size) - 1) /\ j \in 0 .. (Chunks(y.ref.size) - 1)
    BY <1>3, <2>1
  <2>3. FirstChunk(x) + i = FirstChunk(y) + j
    BY <1>6, <2>1
  <2>4. PICK m : m = FirstChunk(x) + i
    OBVIOUS
  <2>5. /\ m \in Nat /\ i \in Nat /\ j \in Nat
        /\ FirstChunk(x) <= m /\ m < FirstChunk(x) + Chunks(x.ref.size)
    <3>1. m \in 0 .. (N - 1)
      BY <1>4, <2>2, <2>4
    <3> QED
      BY <1>4, <2>2, <2>4, <3>1
  <2>6. FirstChunk(y) <= m /\ m < FirstChunk(y) + Chunks(y.ref.size)
    BY <1>4, <2>2, <2>3, <2>4
  <2>7. x = y
    BY <2>2, <2>5, <2>6, CopiesDisjoint
  <2>8. FirstChunk(x) \in Nat
    BY <2>2, CopyPlaces
  <2>9. i = j
    BY <2>3, <2>5, <2>7, <2>8
  <2> QED
    BY <2>2, <2>7, <2>9
<1>7. f \in Injection(C, 0 .. (N - 1))
  <2> HIDE DEF C, N, f
  <2> QED
    BY <1>5, <1>6 DEF Injection, IsInjective
<1>8. f \in Surjection(C, 0 .. (N - 1))
  <2> HIDE DEF C, N, f
  <2> QED
    BY <1>1, <1>2, <1>7, FS_Injection
<1>9. PICK p \in C : f[p] = o
  <2>1. o \in 0 .. (N - 1)
    BY <1>1
  <2> HIDE DEF C, N, f
  <2> QED
    BY <1>8, <2>1 DEF Surjection
<1>10. FirstChunk(p[1]) + p[2] = o
  BY <1>9
<1> QED
  BY <1>3, <1>4, <1>10

\* The copy of a reference keeps what it is a copy of.
LEMMA MovedShape ==
    ASSUME ValueTypes, NEW x \in Sources
    PROVE  /\ Moved(x) \in Reference
           /\ Moved(x).bank = Destination /\ Moved(x).gen = bank.gen[Destination] + 1
           /\ Moved(x).first = FirstChunk(x)
           /\ Moved(x).size = x.ref.size /\ Moved(x).id = x.ref.id
<1>1. x.ref \in Reference
  BY SourceShape
<1>2. Destination \in Two /\ bank.gen[Destination] + 1 \in Nat
  BY DEF ValueTypes, Banks, Destination, Two
<1>3. FirstChunk(x) \in Nat
  BY CopyPlaces
<1> QED
  BY <1>1, <1>2, <1>3 DEF Moved, FirstChunk, Reference

\* What is written at offset o of the other bank: the chunk of the source
\* whose place it is.
LEMMA CopyAtSource ==
    ASSUME ValueTypes, NEW x \in Sources, NEW o \in Nat,
           FirstChunk(x) <= o, o < FirstChunk(x) + Chunks(x.ref.size)
    PROVE  /\ CopyAt(o) = ChunkOf(Moved(x), o - FirstChunk(x))
           /\ CopyAt(o) \in Chunk
<1> DEFINE P(y) == Moved(y).first <= o /\ o < Moved(y).first + Chunks(y.ref.size)
<1>1. \A y \in Sources : Moved(y).first = FirstChunk(y)
  BY MovedShape
<1>2. x \in Sources /\ P(x)
  BY <1>1
<1>3. PICK z : z = CHOOSE y \in Sources : P(y)
  OBVIOUS
<1>4. z \in Sources /\ P(z)
  BY <1>2, <1>3
<1>5. z = x
  BY <1>1, <1>4, CopiesDisjoint
<1>6. CopyAt(o) = ChunkOf(Moved(x), o - Moved(x).first)
  BY <1>3, <1>5 DEF CopyAt
<1>7. Moved(x) \in Reference /\ FirstChunk(x) \in Nat
  BY MovedShape, CopyPlaces
<1>8. o - FirstChunk(x) \in Nat
  BY <1>7
<1> QED
  BY <1>1, <1>6, <1>7, <1>8, ReferenceFields DEF ChunkOf, Chunk

-----------------------------------------------------------------------------
(* The outcomes of a compaction.                                           *)

\* One bank is active, and a compaction copies into the other.
LEMMA TwoBanks ==
    ASSUME ValueTypes
    PROVE  /\ bank.active \in Two /\ Destination \in Two /\ Destination # bank.active
           /\ \A b \in Two : b = bank.active \/ b = Destination
BY DEF ValueTypes, Banks, Destination, Two

\* Copying touches the other bank only, and nothing of it is durable yet.
LEMMA CopiedBank ==
    ASSUME ValueTypes, NEW n \in Nat, n <= ChunksOf(Sources), n <= BankChunks
    PROVE  /\ Copied(n) \in Banks
           /\ Copied(n).active = bank.active /\ Copied(n).gen = bank.gen
           /\ Copied(n).tail = bank.tail /\ Copied(n).dirty = bank.dirty
           /\ Copied(n).chunk[bank.active] = bank.chunk[bank.active]
           /\ \A o \in Offsets : o < n => Copied(n).chunk[Destination][o] = CopyAt(o)
           /\ \A b, o : <<b, o>> \in Copied(n).unsynced =>
                 <<b, o>> \in bank.unsynced \/ b = Destination
<1>1. ASSUME NEW o \in Offsets, o < n PROVE CopyAt(o) \in Chunk
  <2>1. o \in Nat /\ o < ChunksOf(Sources)
    <3>1. ChunksOf(Sources) \in Nat /\ o \in Nat
      BY CopyPlaces DEF Offsets
    <3> QED
      BY <1>1, <3>1
  <2> QED
    BY <2>1, CopiesCover, CopyAtSource
<1> DEFINE f == [o \in Offsets |-> IF o < n THEN CopyAt(o) ELSE bank.chunk[Destination][o]]
           u == {Destination} \X (0 .. (n - 1))
<1>2. f \in [Offsets -> Chunk]
  BY <1>1, TwoBanks DEF ValueTypes, Banks
<1>3. u \in SUBSET (Two \X Offsets)
  <2>1. 0 .. (n - 1) \subseteq Offsets
    BY BoundsAssumption DEF Offsets
  <2> QED
    BY <2>1, TwoBanks
<1>4. Copied(n) = [bank EXCEPT !.chunk[Destination] = f, !.unsynced = @ \cup u]
  BY DEF Copied, ValueTypes, Banks
<1>5. \A o \in Offsets : o < n => f[o] = CopyAt(o)
  OBVIOUS
<1>6. \A b, o : <<b, o>> \in u => b = Destination
  OBVIOUS
<1> HIDE DEF f, u
<1>7. /\ Copied(n) \in Banks
      /\ Copied(n).active = bank.active /\ Copied(n).gen = bank.gen
      /\ Copied(n).tail = bank.tail /\ Copied(n).dirty = bank.dirty
      /\ Copied(n).chunk = [bank.chunk EXCEPT ![Destination] = f]
      /\ Copied(n).unsynced = bank.unsynced \cup u
  <2>1. bank \in Banks /\ Destination \in Two
    BY TwoBanks DEF ValueTypes
  <2>2. PICK b, d, c : b = bank /\ d = Destination /\ c = Copied(n)
    OBVIOUS
  <2>3. b \in Banks /\ d \in Two /\ c = [b EXCEPT !.chunk[d] = f, !.unsynced = @ \cup u]
    BY <1>4, <2>1, <2>2
  <2>4. /\ c \in Banks
        /\ c.active = b.active /\ c.gen = b.gen /\ c.tail = b.tail /\ c.dirty = b.dirty
        /\ c.chunk = [b.chunk EXCEPT ![d] = f]
        /\ c.unsynced = b.unsynced \cup u
    BY ONLY <1>2, <1>3, <2>3 DEF Banks
  <2> QED
    BY <2>2, <2>4
<1>8. Copied(n).chunk[bank.active] = bank.chunk[bank.active] /\ Copied(n).chunk[Destination] = f
  BY <1>7, TwoBanks DEF ValueTypes, Banks
<1> QED
  BY <1>5, <1>6, <1>7, <1>8

\* The switch makes the copies durable and the bank they lie in active.
LEMMA SwitchedBank ==
    ASSUME ValueTypes, NEW n \in Nat, n <= ChunksOf(Sources), n <= BankChunks,
           bank.gen[Destination] < MaxBankGeneration
    PROVE  /\ Switched(n) \in Banks
           /\ Switched(n).active = Destination
           /\ Switched(n).gen[Destination] = bank.gen[Destination] + 1
           /\ Switched(n).tail[Destination] = n
           /\ Switched(n).chunk = Copied(n).chunk
           /\ Switched(n).unsynced = {}
<1>1. PICK c : c = Copied(n)
  OBVIOUS
<1>2. c \in Banks /\ c.gen = bank.gen
  BY <1>1, CopiedBank
<1>3. PICK d : d = Destination
  OBVIOUS
<1>4. d \in Two
  BY <1>3, TwoBanks
<1>5. c.gen[d] + 1 \in 1 .. MaxBankGeneration /\ n \in 0 .. BankChunks
  <2>1. c.gen[d] \in 1 .. MaxBankGeneration
    BY <1>2, <1>4 DEF Banks
  <2> QED
    BY <1>2, <1>3, <2>1, BoundsAssumption
<1>6. PICK s : s = Synced(c)
  OBVIOUS
<1>7. s \in Banks /\ s.gen = c.gen /\ s.chunk = c.chunk /\ s.unsynced = {} /\ s.tail = c.tail
  BY <1>2, <1>6 DEF Synced, Banks
<1>8. Switched(n) = [s EXCEPT !.active = d, !.gen[d] = @ + 1, !.tail[d] = n]
  BY <1>1, <1>3, <1>6 DEF Switched
<1>9. PICK g : g = c.gen[d] + 1
  OBVIOUS
<1>10. s.gen[d] + 1 = g /\ g \in 1 .. MaxBankGeneration
  BY <1>5, <1>7, <1>9
<1>11. Switched(n) = [s EXCEPT !.active = d, !.gen[d] = g, !.tail[d] = n]
  BY <1>8, <1>10
<1>12. /\ Switched(n) \in Banks /\ Switched(n).active = d
       /\ Switched(n).gen[d] = g /\ Switched(n).tail[d] = n
       /\ Switched(n).chunk = s.chunk /\ Switched(n).unsynced = s.unsynced
  <2>1. PICK w : w = Switched(n)
    OBVIOUS
  <2>2. /\ s \in Banks /\ d \in Two /\ g \in 1 .. MaxBankGeneration /\ n \in 0 .. BankChunks
        /\ w = [s EXCEPT !.active = d, !.gen[d] = g, !.tail[d] = n]
    BY <1>4, <1>5, <1>7, <1>10, <1>11, <2>1
  <2>3. /\ w \in Banks /\ w.active = d
        /\ w.gen[d] = g /\ w.tail[d] = n
        /\ w.chunk = s.chunk /\ w.unsynced = s.unsynced
    BY ONLY <2>2 DEF Banks
  <2> QED
    BY <2>1, <2>3
<1> QED
  BY <1>1, <1>2, <1>3, <1>7, <1>9, <1>12

\* What the calls that may compact rely on, whatever the outcome c.
GoodOutcome(c) ==
    /\ c.ok \in BOOLEAN /\ c.faulted \in BOOLEAN /\ c.copied \in BOOLEAN
    /\ c.bank \in Banks
    /\ c.stored \in [Keys -> Value]
    /\ c.muts \in [Keys -> StagedValue]
    /\ \A k \in Keys : /\ ~External(txn.muts[k]) => c.muts[k] = txn.muts[k]
                       /\ External(txn.muts[k]) => External(c.muts[k])
    /\ StoredIn(c.bank, c.stored)
    /\ StagedIn(c.bank, c.muts, appending)
    /\ ReadersIn(c.bank, readers)

ValuesReachable ==
    /\ ValueTypes /\ readers \in [ReaderSlots -> ReaderSlot]
    /\ StoredIn(bank, stored) /\ StagedIn(bank, txn.muts, appending) /\ ReadersIn(bank, readers)
    /\ ~txn.active => \A k \in Keys : txn.muts[k] = Unstaged

\* What the transaction has staged, and what is committed, are values.
LEMMA MutsType ==
    ASSUME ValueTypes
    PROVE  /\ txn.muts \in [Keys -> StagedValue]
           /\ \A k \in Keys : txn.muts[k] \in StagedValue
           /\ \A k \in Keys : stored[k] \in Value /\ stored[k] \in StagedValue
BY DEF ValueTypes, TxnSlot, StagedValue

\* A compaction that is given up leaves the values where they are.
LEMMA FailedCopy ==
    ASSUME ValuesReachable, ~Pinned(Destination), NEW n \in Nat, n <= ChunksOf(Sources),
           n <= BankChunks
    PROVE  /\ StoredIn(Copied(n), stored) /\ StagedIn(Copied(n), txn.muts, appending)
           /\ ReadersIn(Copied(n), readers)
<1>1. /\ ValueTypes /\ StoredIn(bank, stored) /\ StagedIn(bank, txn.muts, appending)
      /\ ReadersIn(bank, readers)
      /\ readers \in [ReaderSlots -> ReaderSlot]
  BY DEF ValuesReachable
<1>2. PICK c : c = Copied(n)
  OBVIOUS
<1>3. /\ c.active = bank.active /\ c.gen = bank.gen /\ c.tail = bank.tail /\ c.dirty = bank.dirty
      /\ c.chunk[bank.active] = bank.chunk[bank.active]
      /\ \A b, o : <<b, o>> \in c.unsynced => <<b, o>> \in bank.unsynced \/ b = Destination
  BY <1>1, <1>2, CopiedBank
<1>4. Destination # bank.active
  BY <1>1, TwoBanks
<1>5. ASSUME NEW r, SettledIn(bank, r)
      PROVE  SettledIn(c, r) /\ (SyncedIn(bank, r) => SyncedIn(c, r))
  BY <1>3, <1>4, <1>5 DEF SettledIn, SyncedIn, ReadsIn
<1>6. StoredIn(c, stored)
  BY <1>1, <1>5 DEF StoredIn
<1>7. StagedIn(c, txn.muts, appending)
  BY <1>1, <1>3, <1>5 DEF StagedIn
<1>8. ASSUME NEW i \in ReaderSlots, External(readers[i].value)
      PROVE  /\ readers[i].used /\ ReadsIn(c, readers[i].value)
             /\ readers[i].value.bank = c.active =>
                  readers[i].value.first + Chunks(readers[i].value.size) <= c.tail[c.active]
  <2>1. PICK v : v = readers[i].value
    OBVIOUS
  <2>2. readers[i].used /\ ReadsIn(bank, v)
        /\ (v.bank = bank.active => v.first + Chunks(v.size) <= bank.tail[bank.active])
    BY <1>1, <1>8, <2>1 DEF ReadersIn
  <2>3. v.bank # Destination
    BY <1>8, <2>1, <2>2 DEF Pinned
  <2>4. v \in Reference
    <3>1. v \in StagedValue
      BY <1>1, <2>1 DEF ReaderSlot, StagedValue
    <3> QED
      BY <1>8, <2>1, <3>1, ValueKinds
  <2>5. v.bank = bank.active
    BY <1>1, <2>3, <2>4, TwoBanks, ReferenceFields
  <2>6. ReadsIn(c, v)
    BY <1>3, <2>2, <2>5 DEF ReadsIn
  <2> QED
    BY <1>3, <2>1, <2>2, <2>6
<1>9. ReadersIn(c, readers)
  BY <1>8 DEF ReadersIn
<1> QED
  BY <1>2, <1>6, <1>7, <1>9

\* A copy can be read in the bank that the manifest switches to.
LEMMA CopySettled ==
    ASSUME ValueTypes, NEW x \in Sources, ChunksOf(Sources) <= BankChunks,
           bank.gen[Destination] < MaxBankGeneration
    PROVE  /\ SettledIn(Switched(ChunksOf(Sources)), Moved(x))
           /\ SyncedIn(Switched(ChunksOf(Sources)), Moved(x))
<1>1. PICK n : n = ChunksOf(Sources)
  OBVIOUS
<1>2. n \in Nat /\ n <= BankChunks /\ n <= ChunksOf(Sources)
  BY <1>1, CopyPlaces
<1>3. PICK s : s = Switched(n)
  OBVIOUS
<1>4. /\ s.active = Destination /\ s.gen[Destination] = bank.gen[Destination] + 1
      /\ s.tail[Destination] = n /\ s.unsynced = {}
      /\ s.chunk = Copied(n).chunk
  BY <1>2, <1>3, SwitchedBank
<1>5. \A o \in Offsets : o < n => s.chunk[Destination][o] = CopyAt(o)
  BY <1>2, <1>4, CopiedBank
<1>6. PICK m : m = Moved(x)
  OBVIOUS
<1>7. /\ m.bank = Destination /\ m.gen = bank.gen[Destination] + 1
      /\ m.first = FirstChunk(x) /\ m.size = x.ref.size
  BY <1>6, MovedShape
<1>8. PICK c : c = Chunks(x.ref.size)
  OBVIOUS
<1>9. c \in Nat /\ FirstChunk(x) \in Nat /\ FirstChunk(x) + c <= n
  BY <1>1, <1>8, CopyPlaces, SourceShape, ReferenceFields
<1>10. ASSUME NEW i \in 0 .. (c - 1)
       PROVE  m.first + i < BankChunks /\ s.chunk[m.bank][m.first + i] = ChunkOf(m, i)
  <2>1. PICK o : o = FirstChunk(x) + i
    OBVIOUS
  <2>2. /\ o \in Nat /\ o < n /\ o < BankChunks /\ o - FirstChunk(x) = i
        /\ FirstChunk(x) <= o /\ o < FirstChunk(x) + c
    BY <1>2, <1>9, <2>1, BoundsAssumption
  <2>3. o \in Offsets
    BY <2>2, BoundsAssumption DEF Offsets
  <2>4. CopyAt(o) = ChunkOf(Moved(x), o - FirstChunk(x))
    BY <1>8, <2>2, CopyAtSource
  <2>5. s.chunk[Destination][o] = ChunkOf(m, i)
    BY <1>5, <1>6, <2>2, <2>3, <2>4
  <2> QED
    BY <1>7, <2>1, <2>2, <2>5
<1>11. ReadsIn(s, m)
  BY <1>7, <1>8, <1>10 DEF ReadsIn
<1>12. SyncedIn(s, m)
  BY <1>4 DEF SyncedIn
<1>13. SettledIn(s, m)
  BY <1>4, <1>7, <1>8, <1>9, <1>11 DEF SettledIn
<1> QED
  BY <1>1, <1>3, <1>6, <1>12, <1>13

\* The bank a compaction fills and the references into it, once it is done.
LEMMA DoneOutcome ==
    ASSUME ValuesReachable, CompactionAllowed, CompactionCopies
    PROVE  GoodOutcome(CompactionDone)
<1>1. ValueTypes /\ ReadersIn(bank, readers) /\ readers \in [ReaderSlots -> ReaderSlot]
  BY DEF ValuesReachable
<1>2. PICK n : n = ChunksOf(Sources)
  OBVIOUS
<1>3. n \in Nat /\ n <= BankChunks /\ n <= ChunksOf(Sources)
      /\ bank.gen[Destination] < MaxBankGeneration /\ ~Pinned(Destination)
  BY <1>1, <1>2, CopyPlaces DEF CompactionCopies, CompactionAllowed
<1>4. PICK s : s = Switched(n)
  OBVIOUS
<1>5. s \in Banks /\ s.active = Destination /\ s.chunk = Copied(n).chunk
  BY <1>1, <1>3, <1>4, SwitchedBank
<1>6. ASSUME NEW x \in Sources
      PROVE  /\ SettledIn(s, Moved(x)) /\ SyncedIn(s, Moved(x))
             /\ Moved(x) \in Reference
  BY <1>1, <1>2, <1>3, <1>4, CopySettled, MovedShape
<1>7. ASSUME NEW r \in Reference PROVE r \in Value /\ r \in StagedValue /\ External(r)
  BY ReferenceFields DEF Value, StagedValue, External
<1>8. ASSUME NEW k \in Keys
      PROVE  /\ MovedStored[k] \in Value
             /\ External(MovedStored[k]) => SettledIn(s, MovedStored[k]) /\ SyncedIn(s, MovedStored[k])
  <2>1. CASE External(stored[k])
    <3>1. PICK x : x = [rank |-> 0, key |-> k, ref |-> stored[k]]
      OBVIOUS
    <3>2. x \in Sources
      BY <2>1, <3>1 DEF Sources
    <3>3. MovedStored[k] = Moved(x)
      BY <2>1, <3>1 DEF MovedStored, MovedValue
    <3> QED
      BY <1>6, <1>7, <3>2, <3>3
  <2>2. CASE ~External(stored[k])
    <3>1. MovedStored[k] = stored[k]
      BY <2>2 DEF MovedStored, MovedValue
    <3> QED
      BY <1>1, <2>2, <3>1, MutsType
  <2> QED
    BY <2>1, <2>2
<1>9. ASSUME NEW k \in Keys
      PROVE  /\ MovedStaged[k] \in StagedValue
             /\ External(MovedStaged[k]) => SettledIn(s, MovedStaged[k]) /\ SyncedIn(s, MovedStaged[k])
             /\ ~External(txn.muts[k]) => MovedStaged[k] = txn.muts[k]
             /\ External(txn.muts[k]) => External(MovedStaged[k])
  <2>1. CASE External(txn.muts[k])
    <3>1. PICK x : x = [rank |-> 1, key |-> k, ref |-> txn.muts[k]]
      OBVIOUS
    <3>2. txn.active
      BY <1>1, <2>1, MutsType, ValueKinds DEF ValuesReachable
    <3>3. x \in Sources
      BY <2>1, <3>1, <3>2 DEF Sources
    <3>4. MovedStaged[k] = Moved(x)
      BY <2>1, <3>1, <3>2 DEF MovedStaged, MovedValue
    <3> QED
      BY <1>6, <1>7, <2>1, <3>3, <3>4
  <2>2. CASE ~External(txn.muts[k])
    <3>1. MovedStaged[k] = txn.muts[k]
      BY <2>2 DEF MovedStaged, MovedValue
    <3> QED
      BY <1>1, <2>2, <3>1, MutsType
  <2> QED
    BY <2>1, <2>2
<1>10. MovedStored \in [Keys -> Value] /\ MovedStaged \in [Keys -> StagedValue]
  <2>1. DOMAIN MovedStored = Keys /\ MovedStored = [k \in Keys |-> MovedStored[k]]
    BY DEF MovedStored
  <2>2. DOMAIN MovedStaged = Keys /\ MovedStaged = [k \in Keys |-> MovedStaged[k]]
    BY DEF MovedStaged
  <2> QED
    BY <1>8, <1>9, <2>1, <2>2
<1>11. StoredIn(s, MovedStored) /\ StagedIn(s, MovedStaged, appending)
  BY <1>8, <1>9 DEF StoredIn, StagedIn
<1>12. ASSUME NEW i \in ReaderSlots, External(readers[i].value)
       PROVE  /\ readers[i].used /\ ReadsIn(s, readers[i].value)
              /\ readers[i].value.bank # s.active
  <2>1. ReadersIn(Copied(n), readers)
    BY <1>3, FailedCopy
  <2>2. readers[i].used /\ ReadsIn(Copied(n), readers[i].value)
    BY <1>12, <2>1 DEF ReadersIn
  <2>3. readers[i].value.bank # Destination
    BY <1>3, <1>12, <2>2 DEF Pinned
  <2>4. ReadsIn(s, readers[i].value)
    BY <1>5, <2>2 DEF ReadsIn
  <2> QED
    BY <1>5, <2>2, <2>3, <2>4
<1>13. ReadersIn(s, readers)
  BY <1>12 DEF ReadersIn
<1>14. PICK c : c = CompactionDone
  OBVIOUS
<1>15. /\ c.ok = TRUE /\ c.faulted = FALSE /\ c.bank = s /\ c.stored = MovedStored
       /\ c.muts = MovedStaged /\ c.copied = (Sources # {})
  BY <1>2, <1>4, <1>14 DEF CompactionDone
<1>16. GoodOutcome(c)
  BY <1>5, <1>9, <1>10, <1>11, <1>13, <1>15 DEF GoodOutcome
<1> QED
  BY <1>14, <1>16

\* A compaction that is given up is a good outcome.
LEMMA FailedOutcome ==
    ASSUME ValuesReachable, CompactionAllowed, NEW n \in Nat,
           n <= ChunksOf(Sources), n <= BankChunks
    PROVE  GoodOutcome(CompactionFails(n))
<1>1. ValueTypes /\ ~Pinned(Destination)
  BY DEF ValuesReachable, CompactionAllowed
<1>2. /\ StoredIn(Copied(n), stored) /\ StagedIn(Copied(n), txn.muts, appending)
      /\ ReadersIn(Copied(n), readers)
      /\ Copied(n) \in Banks
  BY <1>1, FailedCopy, CopiedBank
<1>3. PICK c : c = CompactionFails(n)
  OBVIOUS
<1>4. /\ c.ok = FALSE /\ c.faulted = FALSE /\ c.bank = Copied(n) /\ c.stored = stored
      /\ c.muts = txn.muts /\ c.copied \in BOOLEAN
  BY <1>3 DEF CompactionFails, NotCompacted
<1>5. txn.muts \in [Keys -> StagedValue] /\ stored \in [Keys -> Value]
  BY <1>1, MutsType DEF ValueTypes
<1>6. GoodOutcome(c)
  BY <1>2, <1>4, <1>5 DEF GoodOutcome
<1> QED
  BY <1>3, <1>6

\* A call that does not compact, or is refused to, is a good outcome.
LEMMA UntouchedOutcome ==
    ASSUME ValuesReachable
    PROVE  GoodOutcome(NotCompacted)
<1>1. PICK c : c = NotCompacted
  OBVIOUS
<1>2. /\ c.ok = TRUE /\ c.faulted = FALSE /\ c.bank = bank /\ c.stored = stored
      /\ c.muts = txn.muts /\ c.copied = FALSE
  BY <1>1 DEF NotCompacted
<1>3. txn.muts \in [Keys -> StagedValue] /\ stored \in [Keys -> Value] /\ bank \in Banks
  BY MutsType DEF ValueTypes, ValuesReachable
<1>4. GoodOutcome(c)
  BY <1>2, <1>3 DEF GoodOutcome, ValuesReachable
<1> QED
  BY <1>1, <1>4

\* Only the flags differ.
LEMMA OutcomeFlags ==
    ASSUME NEW c, GoodOutcome(c), NEW d, d.bank = c.bank, d.stored = c.stored,
           d.muts = c.muts, d.copied = c.copied, d.ok \in BOOLEAN, d.faulted \in BOOLEAN
    PROVE  GoodOutcome(d)
BY DEF GoodOutcome

(* Whatever a compaction comes to -- refused, given up after any chunk,    *)
(* done, or with a manifest write of either outcome -- the committed and   *)
(* the staged values lie in the active bank with their bytes, and no open  *)
(* reader loses what it reads (compact_tables_unsafe()).                   *)
THEOREM CompactionKeepsValues ==
    ASSUME ValuesReachable, NEW c \in {NotCompacted} \cup CompactionOutcomes
    PROVE  GoodOutcome(c)
<1>1. CASE c = NotCompacted
  BY <1>1, UntouchedOutcome
<1>2. CASE ~CompactionAllowed /\ c \in CompactionOutcomes
  <2>1. c = [NotCompacted EXCEPT !.ok = FALSE]
    BY <1>2 DEF CompactionOutcomes
  <2>2. /\ c.bank = NotCompacted.bank /\ c.stored = NotCompacted.stored
        /\ c.muts = NotCompacted.muts /\ c.copied = NotCompacted.copied
        /\ c.ok \in BOOLEAN /\ c.faulted \in BOOLEAN
    BY <2>1 DEF NotCompacted
  <2> QED
    BY <2>2, UntouchedOutcome, OutcomeFlags
<1>3. CASE CompactionAllowed /\ c \in CompactionOutcomes
  <2>1. ChunksOf(Sources) \in Nat
    BY CopyPlaces DEF ValuesReachable
  <2>2. \/ \E m \in 0 .. ChunksOf(Sources) : m <= BankChunks /\ c = CompactionFails(m)
        \/ /\ CompactionCopies
           /\ \/ c = CompactionDone
              \/ c = [CompactionDone EXCEPT !.ok = FALSE, !.faulted = TRUE]
              \/ c = [CompactionFails(ChunksOf(Sources)) EXCEPT !.faulted = TRUE]
    BY <1>3 DEF CompactionOutcomes
  <2>3. CASE \E m \in 0 .. ChunksOf(Sources) : m <= BankChunks /\ c = CompactionFails(m)
    BY <1>3, <2>1, <2>3, FailedOutcome
  <2>4. CASE CompactionCopies /\ c = CompactionDone
    BY <1>3, <2>4, DoneOutcome
  <2>5. CASE CompactionCopies /\ c = [CompactionDone EXCEPT !.ok = FALSE, !.faulted = TRUE]
    <3>1. /\ c.bank = CompactionDone.bank /\ c.stored = CompactionDone.stored
          /\ c.muts = CompactionDone.muts /\ c.copied = CompactionDone.copied
          /\ c.ok \in BOOLEAN /\ c.faulted \in BOOLEAN
      BY <2>5 DEF CompactionDone
    <3> QED
      BY <1>3, <2>5, <3>1, DoneOutcome, OutcomeFlags
  <2>6. CASE CompactionCopies /\ c = [CompactionFails(ChunksOf(Sources)) EXCEPT !.faulted = TRUE]
    <3>1. PICK n : n = ChunksOf(Sources)
      OBVIOUS
    <3>2. n \in Nat /\ n <= ChunksOf(Sources) /\ n <= BankChunks
      BY <2>1, <2>6, <3>1 DEF CompactionCopies
    <3>3. GoodOutcome(CompactionFails(n))
      BY <1>3, <3>2, FailedOutcome
    <3>4. /\ c.bank = CompactionFails(n).bank /\ c.stored = CompactionFails(n).stored
          /\ c.muts = CompactionFails(n).muts /\ c.copied = CompactionFails(n).copied
          /\ c.ok \in BOOLEAN /\ c.faulted \in BOOLEAN
      BY <2>6, <3>1 DEF CompactionFails, NotCompacted
    <3> QED
      BY <3>3, <3>4, OutcomeFlags
  <2> QED
    BY <2>2, <2>3, <2>4, <2>5, <2>6
<1> QED
  BY <1>1, <1>2, <1>3

-----------------------------------------------------------------------------
(* The staging arena.                                                      *)

\* Appending to a sequence.
LEMMA ExtendSequence ==
    ASSUME NEW S, NEW s \in Seq(S), NEW u \in Seq(S)
    PROVE  /\ s \o u \in Seq(S) /\ Len(s \o u) = Len(s) + Len(u)
           /\ \A i \in 1 .. Len(s) : (s \o u)[i] = s[i]
           /\ \A i \in 1 .. Len(u) : (s \o u)[Len(s) + i] = u[i]
OBVIOUS

\* Cutting n elements behind the first a out of a sequence.
Cut(s, a, n) == SubSeq(s, 1, a) \o SubSeq(s, a + n + 1, Len(s))

\* What is before the cut stays, and what is behind it moves down by n.
LEMMA CutSequence ==
    ASSUME NEW S, NEW s \in Seq(S), NEW a \in Nat, NEW n \in Nat, a + n <= Len(s)
    PROVE  /\ Cut(s, a, n) \in Seq(S) /\ Len(Cut(s, a, n)) = Len(s) - n
           /\ \A i \in 1 .. a : Cut(s, a, n)[i] = s[i]
           /\ \A i \in (a + 1) .. (Len(s) - n) : Cut(s, a, n)[i] = s[i + n]
<1>1. PICK u, v, l : u = SubSeq(s, 1, a) /\ v = SubSeq(s, a + n + 1, Len(s)) /\ l = Len(s)
  OBVIOUS
<1>2. l \in Nat /\ a + n <= l
  BY <1>1
<1>3. u \in Seq(S) /\ Len(u) = a /\ \A i \in 1 .. a : u[i] = s[i]
  BY <1>1, <1>2
<1>4. v \in Seq(S) /\ Len(v) = l - a - n /\ \A i \in 1 .. (l - a - n) : v[i] = s[a + n + i]
  BY <1>1, <1>2
<1>5. PICK r : r = u \o v
  OBVIOUS
<1>6. r \in Seq(S) /\ Len(r) = l - n
  <2>1. u \in Seq(S) /\ v \in Seq(S)
    BY <1>3, <1>4
  <2>2. r \in Seq(S) /\ Len(r) = Len(u) + Len(v)
    BY <1>5, <2>1, ExtendSequence
  <2> QED
    BY <1>2, <1>3, <1>4, <2>2
<1>7. \A i \in 1 .. a : r[i] = u[i]
  BY <1>2, <1>3, <1>4, <1>5
<1>8. ASSUME NEW i \in (a + 1) .. (l - n) PROVE r[i] = v[i - a]
  <2>1. PICK m : m = i - a
    OBVIOUS
  <2>2. m \in 1 .. Len(v) /\ a + m = i
    BY <1>2, <1>4, <2>1
  <2>3. u \in Seq(S) /\ v \in Seq(S)
    BY <1>3, <1>4
  <2>4. r[Len(u) + m] = v[m]
    BY <1>5, <2>2, <2>3, ExtendSequence, SMTT(30)
  <2> QED
    BY <1>3, <2>1, <2>2, <2>4
<1>9. ASSUME NEW i \in (a + 1) .. (l - n) PROVE r[i] = s[i + n]
  <2>1. i - a \in 1 .. (l - a - n) /\ a + n + (i - a) = i + n
    BY <1>2
  <2>2. v[i - a] = s[a + n + (i - a)]
    BY <1>4, <2>1
  <2> QED
    BY <1>8, <2>1, <2>2
<1> QED
  BY <1>1, <1>3, <1>5, <1>6, <1>7, <1>9 DEF Cut

ArenaByte == Keys \X InlineSizes \X Nat

\* Where a value staged inline lies.
LEMMA StagedInlineFields ==
    ASSUME NEW m \in StagedValue, InArena(m)
    PROVE  /\ m.at \in Nat /\ m.size \in InlineSizes /\ m.size \in Nat /\ m.kind = "staged"
           /\ m \in StagedInline
<1>1. m \in StagedInline
  BY ValueKinds
<1>2. m.at \in Nat /\ m.size \in InlineSizes /\ m.kind = "staged"
  BY <1>1 DEF StagedInline
<1>3. m.size \in Nat
  <2>1. m.size \in 0 .. StagingSize
    BY <1>2, SizesAssumption
  <2> QED
    BY <2>1, BoundsAssumption
<1> QED
  BY <1>1, <1>2, <1>3

\* The staged values and the arena of a transaction slot.
LEMMA TxnFields ==
    ASSUME NEW t \in TxnSlot
    PROVE  /\ t.muts \in [Keys -> StagedValue] /\ t.arena \in Seq(ArenaByte)
           /\ Len(t.arena) \in Nat
           /\ \A k \in Keys : t.muts[k] \in StagedValue
BY DEF TxnSlot, ArenaByte, StagedValue

\* Values with bytes of their own do not overlap: one lies behind the other.
LEMMA StagedApart ==
    ASSUME NEW t \in TxnSlot, \A l \in Keys : HasBytes(t, l),
           NEW j \in Keys, NEW k \in Keys, j # k, InArena(t.muts[j]), InArena(t.muts[k]),
           t.muts[j].size > 0, t.muts[k].size > 0
    PROVE  /\ t.muts[j].at > t.muts[k].at => t.muts[j].at >= t.muts[k].at + t.muts[k].size
           /\ ~(t.muts[j].at > t.muts[k].at) => t.muts[j].at + t.muts[j].size <= t.muts[k].at
<1>1. PICK a, m, b, n : /\ a = t.muts[j].at /\ m = t.muts[j].size
                        /\ b = t.muts[k].at /\ n = t.muts[k].size
  OBVIOUS
<1>2. a \in Nat /\ m \in Nat /\ b \in Nat /\ n \in Nat /\ m > 0 /\ n > 0
  BY <1>1, TxnFields, StagedInlineFields
<1>3. /\ \A i \in 1 .. m : t.arena[a + i] = <<j, m, i>>
      /\ \A i \in 1 .. n : t.arena[b + i] = <<k, n, i>>
  BY <1>1 DEF HasBytes
<1>4. ASSUME NEW p \in Nat, a < p, p <= a + m, b < p, p <= b + n PROVE FALSE
  <2>1. p - a \in 1 .. m /\ p - b \in 1 .. n /\ a + (p - a) = p /\ b + (p - b) = p
    BY <1>2, <1>4
  <2>2. t.arena[p] = <<j, m, p - a>> /\ t.arena[p] = <<k, n, p - b>>
    BY <1>3, <2>1
  <2> QED
    BY <2>2
<1>5. /\ a > b => a >= b + n
      /\ ~(a > b) => a + m <= b
  <2>1. CASE a > b
    <3>1. ~(a + 1 <= b + n)
      BY <1>2, <1>4, <2>1
    <3> QED
      BY <1>2, <2>1, <3>1
  <2>2. CASE ~(a > b)
    <3>1. ~(b + 1 <= a + m)
      BY <1>2, <1>4, <2>2
    <3> QED
      BY <1>2, <2>2, <3>1
  <2> QED
    BY <2>1, <2>2
<1> QED
  BY <1>1, <1>5

SameOwner(t, q) ==
    q.gen = t.gen /\ q.active = t.active /\ q.slot = t.slot /\ q.hgen = t.hgen

\* What giving up the bytes of k leaves: the bytes of all others.
Removed(t, q, k) ==
    /\ q \in TxnSlot /\ SameOwner(t, q)
    /\ Len(q.arena) = Len(t.arena) - StagedBytes(t.muts[k])
    /\ \A j \in Keys : /\ j # k => HasBytes(q, j)
                       /\ ~InArena(t.muts[j]) => q.muts[j] = t.muts[j]
                       /\ InArena(t.muts[j]) => InArena(q.muts[j])

\* The tail of the arena moves over the bytes of k, and every offset behind
\* them moves along.
LEMMA CutArena ==
    ASSUME NEW t \in TxnSlot, \A l \in Keys : HasBytes(t, l), NEW k \in Keys,
           InArena(t.muts[k]), t.muts[k].size > 0
    PROVE  Removed(t, WithoutBytes(t, k), k)
<1>1. PICK q, a, n, l : /\ q = WithoutBytes(t, k) /\ l = Len(t.arena)
                        /\ a = t.muts[k].at /\ n = t.muts[k].size
  OBVIOUS
<1>2. a \in Nat /\ n \in Nat /\ n > 0 /\ l \in Nat
  BY <1>1, TxnFields, StagedInlineFields
<1>3. a + n <= l
  BY <1>1 DEF HasBytes
<1> DEFINE r == SubSeq(t.arena, 1, t.muts[k].at)
                  \o SubSeq(t.arena, t.muts[k].at + t.muts[k].size + 1, Len(t.arena))
           Behind(j) == j # k /\ InArena(t.muts[j]) /\ t.muts[j].size > 0
                          /\ t.muts[j].at > t.muts[k].at
           mu == [j \in Keys |-> IF Behind(j) THEN Shifted(t.muts[j], t.muts[k].size)
                                ELSE t.muts[j]]
<1>4. q = [t EXCEPT !.arena = r, !.muts = mu]
  BY <1>1 DEF WithoutBytes
<1>5. /\ r \in Seq(ArenaByte) /\ Len(r) = l - n
      /\ \A i \in 1 .. a : r[i] = t.arena[i]
      /\ \A i \in (a + 1) .. (l - n) : r[i] = t.arena[i + n]
  <2>1. t.arena \in Seq(ArenaByte)
    BY TxnFields
  <2>2. r = Cut(t.arena, a, n)
    BY <1>1 DEF Cut
  <2>3. PICK s : s = t.arena
    OBVIOUS
  <2>4. s \in Seq(ArenaByte) /\ a + n <= Len(s) /\ l = Len(s)
    BY <1>1, <1>3, <2>1, <2>3
  <2>5. a \in Nat /\ n \in Nat
    BY <1>2
  <2>6. /\ Cut(s, a, n) \in Seq(ArenaByte) /\ Len(Cut(s, a, n)) = Len(s) - n
        /\ \A i \in 1 .. a : Cut(s, a, n)[i] = s[i]
        /\ \A i \in (a + 1) .. (Len(s) - n) : Cut(s, a, n)[i] = s[i + n]
    BY ONLY <2>4, <2>5, CutSequence, Zenon
  <2> HIDE DEF r
  <2> QED
    BY <2>2, <2>3, <2>4, <2>6
<1> HIDE DEF r
<1>6. ASSUME NEW j \in Keys, Behind(j)
      PROVE  /\ mu[j] \in StagedInline
             /\ mu[j].at = t.muts[j].at - n /\ mu[j].size = t.muts[j].size
             /\ t.muts[j].at >= a + n /\ t.muts[j].at \in Nat /\ t.muts[j].size \in Nat
  <2>1. t.muts[j] \in StagedInline /\ t.muts[j].at \in Nat /\ t.muts[j].size \in Nat
    BY <1>6, TxnFields, StagedInlineFields
  <2>2. t.muts[j].at >= a + n
    BY <1>1, <1>6, StagedApart
  <2>3. t.muts[j].at - n \in Nat
    BY <1>2, <2>1, <2>2
  <2>4. mu[j] = [t.muts[j] EXCEPT !.at = @ - n]
    BY <1>1, <1>6 DEF Shifted
  <2>5. PICK v, w : v = t.muts[j] /\ w = mu[j]
    OBVIOUS
  <2>6. v \in StagedInline /\ v.at - n \in Nat /\ w = [v EXCEPT !.at = v.at - n]
    BY <2>1, <2>3, <2>4, <2>5
  <2>7. w \in StagedInline /\ w.at = v.at - n /\ w.size = v.size
    BY ONLY <2>6 DEF StagedInline
  <2> QED
    BY <2>1, <2>2, <2>5, <2>7
<1>7. ASSUME NEW j \in Keys, ~Behind(j) PROVE mu[j] = t.muts[j]
  BY <1>7
<1>8. mu \in [Keys -> StagedValue]
  <2>1. \A j \in Keys : mu[j] \in StagedValue
    BY <1>6, <1>7, TxnFields DEF StagedValue
  <2>2. mu = [j \in Keys |-> mu[j]]
    OBVIOUS
  <2> HIDE DEF mu
  <2> QED
    BY <2>1, <2>2
<1> HIDE DEF mu
<1>9. /\ q \in TxnSlot /\ SameOwner(t, q) /\ q.arena = r /\ q.muts = mu
  <2>1. mu \in [Keys -> Value \cup StagedInline \cup {Unstaged}]
    BY <1>8 DEF StagedValue
  <2>2. r \in Seq(Keys \X InlineSizes \X Nat)
    BY <1>5 DEF ArenaByte
  <2> QED
    BY ONLY t \in TxnSlot, <1>4, <2>1, <2>2 DEF TxnSlot, SameOwner
<1>10. ASSUME NEW j \in Keys
       PROVE  /\ ~InArena(t.muts[j]) => q.muts[j] = t.muts[j]
              /\ InArena(t.muts[j]) => InArena(q.muts[j])
  <2>1. CASE Behind(j)
    <3>1. mu[j] \in StagedInline
      BY <1>6, <2>1
    <3>2. InArena(mu[j])
      BY <3>1 DEF StagedInline, InArena
    <3> QED
      BY <1>9, <2>1, <3>2
  <2>2. CASE ~Behind(j)
    BY <1>7, <1>9, <2>2
  <2> QED
    BY <2>1, <2>2
<1>11. ASSUME NEW j \in Keys, j # k, InArena(q.muts[j]), q.muts[j].size > 0
       PROVE  /\ q.muts[j].at + q.muts[j].size <= Len(q.arena)
              /\ \A i \in 1 .. q.muts[j].size :
                    q.arena[q.muts[j].at + i] = <<j, q.muts[j].size, i>>
  <2>1. InArena(t.muts[j])
    BY <1>10, <1>11
  <2>2. PICK b, m : b = t.muts[j].at /\ m = t.muts[j].size
    OBVIOUS
  <2>3. b \in Nat /\ m \in Nat
    BY <2>1, <2>2, TxnFields, StagedInlineFields
  <2>4. q.muts[j].size = m
    <3>1. CASE Behind(j)
      BY <1>6, <1>9, <2>2, <3>1
    <3>2. CASE ~Behind(j)
      BY <1>7, <1>9, <2>2, <3>2
    <3> QED
      BY <3>1, <3>2
  <2>5. m > 0 /\ b + m <= l /\ \A i \in 1 .. m : t.arena[b + i] = <<j, m, i>>
    BY <1>1, <1>11, <2>1, <2>2, <2>4 DEF HasBytes
  <2>6. CASE Behind(j)
    <3>1. q.muts[j].at = b - n /\ b >= a + n
      BY <1>6, <1>9, <2>2, <2>6
    <3>2. ASSUME NEW i \in 1 .. m PROVE r[(b - n) + i] = <<j, m, i>>
      <4>1. (b - n) + i \in (a + 1) .. (l - n) /\ ((b - n) + i) + n = b + i
        BY <1>2, <1>3, <2>3, <2>5, <3>1
      <4>2. r[(b - n) + i] = t.arena[b + i]
        BY <1>5, <4>1
      <4> QED
        BY <2>5, <4>2
    <3>3. (b - n) + m <= l - n
      BY <1>2, <2>3, <2>5
    <3> QED
      BY <1>5, <1>9, <2>4, <3>1, <3>2, <3>3
  <2>7. CASE ~Behind(j)
    <3>1. q.muts[j].at = b /\ b + m <= a
      <4>1. ~(t.muts[j].at > t.muts[k].at)
        BY <1>11, <2>1, <2>2, <2>5, <2>7
      <4> QED
        BY <1>1, <1>7, <1>9, <1>11, <2>1, <2>2, <2>5, <2>7, <4>1, StagedApart
    <3>2. ASSUME NEW i \in 1 .. m PROVE r[b + i] = <<j, m, i>>
      <4>1. b + i \in 1 .. a
        BY <1>2, <2>3, <3>1
      <4> QED
        BY <1>5, <2>5, <4>1
    <3>3. b + m <= l - n
      BY <1>2, <1>3, <2>3, <3>1
    <3> QED
      BY <1>5, <1>9, <2>4, <3>1, <3>2, <3>3
  <2> QED
    BY <2>6, <2>7
<1>12. Len(q.arena) = Len(t.arena) - StagedBytes(t.muts[k])
  BY <1>1, <1>5, <1>9 DEF StagedBytes
<1>13. \A j \in Keys : j # k => HasBytes(q, j)
  BY <1>11 DEF HasBytes
<1> QED
  BY <1>1, <1>9, <1>10, <1>12, <1>13 DEF Removed

\* stage_value_unsafe() first gives up the bytes that k had, if any.
LEMMA ReplacingRemoves ==
    ASSUME NEW t \in TxnSlot, \A l \in Keys : HasBytes(t, l), NEW k \in Keys
    PROVE  Removed(t, Replacing(t, k), k)
<1>1. CASE StagedBytes(t.muts[k]) > 0
  <2>1. InArena(t.muts[k]) /\ t.muts[k].size > 0
    BY <1>1 DEF StagedBytes
  <2>2. Replacing(t, k) = WithoutBytes(t, k)
    BY <1>1 DEF Replacing
  <2> QED
    BY <2>1, <2>2, CutArena
<1>2. CASE ~(StagedBytes(t.muts[k]) > 0)
  <2>1. Replacing(t, k) = t
    BY <1>2 DEF Replacing
  <2>2. StagedBytes(t.muts[k]) = 0
    BY <1>2, TxnFields, StagedInlineFields DEF StagedBytes
  <2>3. Len(t.arena) - 0 = Len(t.arena)
    BY TxnFields
  <2> QED
    BY <2>1, <2>2, <2>3 DEF Removed, SameOwner
<1> QED
  BY <1>1, <1>2

\* What stage_value_unsafe() leaves of the other mutations, and of the bytes
\* of all of them.
Restaged(t, q, k) ==
    /\ q \in TxnSlot /\ SameOwner(t, q)
    /\ \A j \in Keys : /\ HasBytes(q, j)
                       /\ j # k /\ ~InArena(t.muts[j]) => q.muts[j] = t.muts[j]
                       /\ j # k /\ InArena(t.muts[j]) => InArena(q.muts[j])

\* A tombstone or a reference takes the place of what was staged for k.
LEMMA StageWithout ==
    ASSUME NEW t \in TxnSlot, \A l \in Keys : HasBytes(t, l), NEW k \in Keys,
           NEW m \in StagedValue, ~InArena(m)
    PROVE  /\ Restaged(t, StagedWithout(t, k, m), k)
           /\ StagedWithout(t, k, m).muts[k] = m
           /\ Len(StagedWithout(t, k, m).arena) <= Len(t.arena)
<1>1. PICK r, q : r = Replacing(t, k) /\ q = StagedWithout(t, k, m)
  OBVIOUS
<1>2. Removed(t, r, k)
  BY <1>1, ReplacingRemoves
<1>3. r \in TxnSlot /\ q = [r EXCEPT !.muts[k] = m]
  BY <1>1, <1>2 DEF StagedWithout, Removed
<1>4. /\ q \in TxnSlot /\ SameOwner(r, q) /\ q.arena = r.arena
      /\ q.muts[k] = m /\ \A j \in Keys : j # k => q.muts[j] = r.muts[j]
  BY ONLY <1>3, m \in StagedValue, k \in Keys DEF TxnSlot, SameOwner, StagedValue
<1>5. ASSUME NEW j \in Keys PROVE HasBytes(q, j)
  <2>1. CASE j = k
    BY <1>4, <2>1 DEF HasBytes
  <2>2. CASE j # k
    <3>1. HasBytes(r, j)
      BY <1>2, <2>2 DEF Removed
    <3>2. q.muts[j] = r.muts[j] /\ q.arena = r.arena
      BY <1>4, <2>2
    <3> QED
      BY <3>1, <3>2 DEF HasBytes
  <2> QED
    BY <2>1, <2>2
<1>6. Len(q.arena) <= Len(t.arena)
  <2>1. StagedBytes(t.muts[k]) \in Nat /\ Len(t.arena) \in Nat
    BY TxnFields, StagedInlineFields DEF StagedBytes
  <2> QED
    BY <1>2, <1>4, <2>1 DEF Removed
<1>7. SameOwner(t, q)
  BY <1>2, <1>4 DEF Removed, SameOwner
<1>8. \A j \in Keys : /\ j # k /\ ~InArena(t.muts[j]) => q.muts[j] = t.muts[j]
                      /\ j # k /\ InArena(t.muts[j]) => InArena(q.muts[j])
  BY <1>2, <1>4 DEF Removed
<1> QED
  BY <1>1, <1>4, <1>5, <1>6, <1>7, <1>8 DEF Restaged

\* The bytes of a value staged inline go to the end of the arena.
LEMMA StageWithin ==
    ASSUME NEW t \in TxnSlot, \A l \in Keys : HasBytes(t, l), NEW k \in Keys,
           NEW n \in InlineSizes
    PROVE  /\ Restaged(t, StagedWithin(t, k, n), k)
           /\ InArena(StagedWithin(t, k, n).muts[k])
           /\ Len(StagedWithin(t, k, n).arena)
                = Len(t.arena) - StagedBytes(t.muts[k]) + n
<1>1. PICK r, q : r = Replacing(t, k) /\ q = StagedWithin(t, k, n)
  OBVIOUS
<1>2. Removed(t, r, k)
  BY <1>1, ReplacingRemoves
<1>3. r \in TxnSlot
  BY <1>2 DEF Removed
<1>4. n \in Nat
  <2>1. n \in 0 .. StagingSize
    BY SizesAssumption
  <2> QED
    BY <2>1, BoundsAssumption
<1>5. PICK l, m, u, e : /\ l = Len(r.arena) /\ m = [kind |-> "staged", at |-> l, size |-> n]
                        /\ u = BytesOf(k, n) /\ e = r.arena \o u
  OBVIOUS
<1>6. r.arena \in Seq(ArenaByte) /\ l \in Nat
  BY <1>3, <1>5, TxnFields
<1>7. /\ u \in Seq(ArenaByte) /\ Len(u) = n
      /\ \A i \in 1 .. n : u[i] = <<k, n, i>>
  <2>1. u = [i \in 1 .. n |-> <<k, n, i>>]
    BY <1>5 DEF BytesOf
  <2>2. \A i \in 1 .. n : <<k, n, i>> \in ArenaByte
    BY <1>4 DEF ArenaByte
  <2> QED
    BY <1>4, <2>1, <2>2
<1>8. /\ e \in Seq(ArenaByte) /\ Len(e) = l + n
      /\ \A i \in 1 .. l : e[i] = r.arena[i]
      /\ \A i \in 1 .. n : e[l + i] = <<k, n, i>>
  <2>1. PICK s : s = r.arena
    OBVIOUS
  <2>2. s \in Seq(ArenaByte) /\ u \in Seq(ArenaByte)
    BY <1>6, <1>7, <2>1
  <2>3. /\ s \o u \in Seq(ArenaByte) /\ Len(s \o u) = Len(s) + Len(u)
        /\ \A i \in 1 .. Len(s) : (s \o u)[i] = s[i]
        /\ \A i \in 1 .. Len(u) : (s \o u)[Len(s) + i] = u[i]
    BY ONLY <2>2, ExtendSequence
  <2> QED
    BY <1>5, <1>7, <2>1, <2>3
<1>9. m \in StagedInline /\ m.at = l /\ m.size = n /\ InArena(m)
  BY <1>5, <1>6 DEF StagedInline, InArena
<1>10. q = [r EXCEPT !.muts[k] = m, !.arena = e]
  BY <1>1, <1>5 DEF StagedWithin
<1>11. /\ q \in TxnSlot /\ SameOwner(r, q) /\ q.arena = e
       /\ q.muts[k] = m /\ \A j \in Keys : j # k => q.muts[j] = r.muts[j]
  <2>1. e \in Seq(Keys \X InlineSizes \X Nat)
    BY <1>8 DEF ArenaByte
  <2> QED
    BY ONLY <1>3, <1>9, <1>10, <2>1, k \in Keys DEF TxnSlot, SameOwner
<1>12. ASSUME NEW j \in Keys PROVE HasBytes(q, j)
  <2>1. CASE j = k
    BY <1>8, <1>9, <1>11, <2>1 DEF HasBytes
  <2>2. CASE j # k
    <3>1. q.muts[j] = r.muts[j] /\ HasBytes(r, j)
      BY <1>2, <1>11, <2>2 DEF Removed
    <3>2. SUFFICES ASSUME InArena(r.muts[j]), r.muts[j].size > 0
                   PROVE  /\ r.muts[j].at + r.muts[j].size <= Len(e)
                          /\ \A i \in 1 .. r.muts[j].size :
                                e[r.muts[j].at + i] = <<j, r.muts[j].size, i>>
      BY <1>11, <3>1 DEF HasBytes
    <3>3. PICK a, b : a = r.muts[j].at /\ b = r.muts[j].size
      OBVIOUS
    <3>4. a \in Nat /\ b \in Nat
      BY <1>3, <3>2, <3>3, TxnFields, StagedInlineFields
    <3>5. a + b <= l /\ \A i \in 1 .. b : r.arena[a + i] = <<j, b, i>>
      BY <1>5, <3>1, <3>2, <3>3 DEF HasBytes
    <3>6. \A i \in 1 .. b : a + i \in 1 .. l
      BY <1>6, <3>4, <3>5
    <3>7. a + b <= l + n
      BY <1>4, <1>6, <3>4, <3>5
    <3> QED
      BY <1>8, <3>3, <3>5, <3>6, <3>7
  <2> QED
    BY <2>1, <2>2
<1>13. Len(q.arena) = Len(t.arena) - StagedBytes(t.muts[k]) + n
  BY <1>2, <1>5, <1>8, <1>11 DEF Removed
<1>14. SameOwner(t, q)
  BY <1>2, <1>11 DEF Removed, SameOwner
<1>15. \A j \in Keys : /\ j # k /\ ~InArena(t.muts[j]) => q.muts[j] = t.muts[j]
                       /\ j # k /\ InArena(t.muts[j]) => InArena(q.muts[j])
  BY <1>2, <1>11 DEF Removed
<1> QED
  BY <1>1, <1>9, <1>11, <1>12, <1>13, <1>14, <1>15 DEF Restaged

-----------------------------------------------------------------------------
(* Generations and slots.                                                  *)

\* The generation handed out is new, and so will be the next.
LEMMA GenerationTaken ==
    ASSUME SlotTypes, CounterInv, TakeGeneration
    PROVE  /\ hcounter \in 1 .. MaxHandleGeneration
           /\ hcounter' \in 0 .. MaxHandleGeneration
           /\ seen' \in [h : Nat, t : Nat] /\ seen'.t = seen.t
           /\ hcounter' # 0 => seen'.h < hcounter'
<1>1. /\ hcounter \in 0 .. MaxHandleGeneration /\ hcounter # 0 /\ seen \in [h : Nat, t : Nat]
      /\ seen.h < hcounter
      /\ hcounter' = NextGeneration(hcounter)
      /\ seen' = [seen EXCEPT !.h = Raised(seen.h, hcounter)]
  BY DEF SlotTypes, CounterInv, TakeGeneration
<1>2. Raised(seen.h, hcounter) = hcounter
  BY <1>1 DEF Raised
<1>3. seen'.h = hcounter /\ seen'.t = seen.t /\ seen' \in [h : Nat, t : Nat]
  BY <1>1, <1>2
<1>4. hcounter' \in 0 .. MaxHandleGeneration /\ (hcounter' # 0 => hcounter' = hcounter + 1)
  BY <1>1, BoundsAssumption DEF NextGeneration
<1> QED
  BY <1>1, <1>3, <1>4

\* The same for the transaction's generation.
LEMMA TransactionTaken ==
    ASSUME SlotTypes, CounterInv, tcounter # 0, tcounter' = NextGeneration(tcounter),
           seen' = [seen EXCEPT !.t = Raised(seen.t, tcounter)]
    PROVE  /\ tcounter \in 1 .. MaxHandleGeneration
           /\ tcounter' \in 0 .. MaxHandleGeneration
           /\ seen' \in [h : Nat, t : Nat] /\ seen'.h = seen.h
           /\ tcounter' # 0 => seen'.t < tcounter'
<1>1. /\ tcounter \in 0 .. MaxHandleGeneration /\ seen \in [h : Nat, t : Nat]
      /\ seen.t < tcounter
  BY DEF SlotTypes, CounterInv
<1>2. Raised(seen.t, tcounter) = tcounter
  BY <1>1 DEF Raised
<1>3. seen'.t = tcounter /\ seen'.h = seen.h /\ seen' \in [h : Nat, t : Nat]
  BY <1>1, <1>2
<1>4. tcounter' \in 0 .. MaxHandleGeneration /\ (tcounter' # 0 => tcounter' = tcounter + 1)
  BY <1>1, BoundsAssumption DEF NextGeneration
<1> QED
  BY <1>1, <1>3, <1>4

\* The parts of the invariant in terms of the next state's variables.
LEMMA ValueStep ==
    ASSUME bank' \in Banks, stored' \in [Keys -> Value], StoredIn(bank', stored'),
           StagedIn(bank', txn'.muts, appending'), ReadersIn(bank', readers'),
           WriterIn(bank', writer')
    PROVE  ValueInv'
BY DEF ValueInv

\* A step that leaves values, readers and writer alone keeps the parts about them.
LEMMA ValueFrame ==
    ASSUME ValueInv, UNCHANGED <<bank, stored, txn, readers, writer, appending>>
    PROVE  ValueInv'
BY DEF ValueInv

\* A step that leaves the transaction alone keeps its arena.
LEMMA ArenaFrame ==
    ASSUME ArenaInv, UNCHANGED txn
    PROVE  ArenaInv'
BY DEF ArenaInv, HasBytes

\* Handles and the transaction agree when neither changes hands.
LEMMA OwnerFrame ==
    ASSUME OwnerInv, UNCHANGED handles, SameOwner(txn, txn')
    PROVE  OwnerInv'
BY DEF OwnerInv, TransactionOwned, HandleOf, SameOwner

\* A slot that is opened was not in use.
LEMMA OpenStep ==
    ASSUME SInv, NEW rw \in BOOLEAN, open(rw)
    PROVE  SInv'
<1>1. /\ SlotTypes /\ CounterInv /\ OwnerInv /\ TransactionInv /\ DownInv /\ ArenaInv
      /\ ValueInv
  BY DEF SInv, TokenInv
<1>2. /\ TakeGeneration
      /\ UNCHANGED <<up, faulted, tcounter, txn, writer, readers, bank, stored, appending>>
  BY DEF open
<1>3. PICK i \in FirstFree(handles) :
        handles' = [handles EXCEPT ![i] =
                      [gen |-> hcounter, used |-> TRUE, txn |-> FALSE, rw |-> rw]]
  BY DEF open
<1>4. i \in HandleSlots /\ ~handles[i].used /\ handles \in [HandleSlots -> HandleSlot]
  BY <1>1, <1>3 DEF FirstFree, SlotTypes
<1>5. /\ hcounter \in 1 .. MaxHandleGeneration
      /\ hcounter' \in 0 .. MaxHandleGeneration
      /\ seen' \in [h : Nat, t : Nat] /\ seen'.t = seen.t
      /\ hcounter' # 0 => seen'.h < hcounter'
  BY <1>1, <1>2, GenerationTaken
<1>6. handles' \in [HandleSlots -> HandleSlot]
  <2>1. [gen |-> hcounter, used |-> TRUE, txn |-> FALSE, rw |-> rw] \in HandleSlot
    BY <1>5 DEF HandleSlot
  <2> QED
    BY <1>3, <1>4, <2>1
<1>7. SlotTypes' /\ CounterInv'
  BY <1>1, <1>2, <1>5, <1>6 DEF SlotTypes, CounterInv
<1>8. OwnerInv'
  <2>1. handles'[i].txn = FALSE /\ \A j \in HandleSlots : j # i => handles'[j] = handles[j]
    BY <1>3, <1>4
  <2>2. txn.active => txn.slot # i
    BY <1>1, <1>4 DEF OwnerInv, HandleOf
  <2> QED
    BY <1>1, <1>2, <2>1, <2>2 DEF OwnerInv, TransactionOwned, HandleOf
<1>9. TransactionInv' /\ DownInv'
  BY <1>1, <1>2 DEF TransactionInv, DownInv
<1> QED
  BY <1>1, <1>2, <1>7, <1>8, <1>9, ArenaFrame, ValueFrame DEF SInv, TokenInv

\* A handle that is closed has no transaction.
LEMMA CloseHandleStep ==
    ASSUME SInv, NEW i \in HandleSlots, NEW g \in Generations, close_handle(i, g)
    PROVE  SInv'
<1>1. /\ SlotTypes /\ CounterInv /\ OwnerInv /\ TransactionInv /\ DownInv /\ ArenaInv
      /\ ValueInv
  BY DEF SInv, TokenInv
<1>2. /\ UNCHANGED <<up, faulted, hcounter, tcounter, txn, writer, readers, bank, stored,
                     appending, seen>>
      /\ ~handles[i].txn
      /\ handles' = [handles EXCEPT ![i] = Cleared(handles[i], FreeHandle)]
  BY DEF close_handle
<1>3. PICK f : f = Cleared(handles[i], FreeHandle)
  OBVIOUS
<1>4. f \in HandleSlot /\ ~f.txn /\ handles \in [HandleSlots -> HandleSlot]
  <2>1. handles \in [HandleSlots -> HandleSlot]
    BY <1>1 DEF SlotTypes
  <2>2. handles[i].gen \in 0 .. MaxHandleGeneration
    BY <2>1 DEF HandleSlot
  <2> QED
    BY <1>3, <2>1, <2>2 DEF Cleared, FreeHandle, HandleSlot
<1>5. handles' = [handles EXCEPT ![i] = f]
  BY <1>2, <1>3
<1>6. /\ handles' \in [HandleSlots -> HandleSlot] /\ ~handles'[i].txn
      /\ \A j \in HandleSlots : j # i => handles'[j] = handles[j]
  BY <1>4, <1>5
<1>7. SlotTypes' /\ CounterInv'
  BY <1>1, <1>2, <1>6 DEF SlotTypes, CounterInv
<1>8. OwnerInv'
  <2>1. txn.active => txn.slot # i
    BY <1>1, <1>2 DEF OwnerInv, TransactionOwned
  <2> QED
    BY <1>1, <1>2, <1>6, <2>1 DEF OwnerInv, TransactionOwned, HandleOf
<1>9. TransactionInv' /\ DownInv'
  BY <1>1, <1>2 DEF TransactionInv, DownInv
<1> QED
  BY <1>1, <1>2, <1>7, <1>8, <1>9, ArenaFrame, ValueFrame DEF SInv, TokenInv

-----------------------------------------------------------------------------
(* Beginning and ending a transaction.                                     *)

\* Nothing is staged by t.
Blank(t) == t \in TxnSlot /\ (\A k \in Keys : t.muts[k] = Unstaged) /\ t.arena = <<>>

\* The transaction slot after initialization.
LEMMA NoTxnBlank == Blank(NoTxn)
<1>1. [k \in Keys |-> Unstaged] \in [Keys -> Value \cup StagedInline \cup {Unstaged}]
  OBVIOUS
<1>2. <<>> \in Seq(Keys \X InlineSizes \X Nat)
  OBVIOUS
<1>3. 0 \in 0 .. MaxHandleGeneration
  BY BoundsAssumption
<1> QED
  BY <1>1, <1>2, <1>3 DEF Blank, NoTxn, TxnSlot

Begun(g, i, h) == [NoTxn EXCEPT !.gen = g, !.active = TRUE, !.slot = i, !.hgen = h]

\* begin() stages nothing.
LEMMA BegunBlank ==
    ASSUME NEW g \in 0 .. MaxHandleGeneration, NEW i \in HandleSlots,
           NEW h \in 0 .. MaxHandleGeneration
    PROVE  /\ Blank(Begun(g, i, h)) /\ Begun(g, i, h).active
           /\ Begun(g, i, h).slot = i /\ Begun(g, i, h).hgen = h
<1> DEFINE t == Begun(g, i, h)
<1>1. Blank(NoTxn)
  BY NoTxnBlank
<1>2. PICK n : n = NoTxn
  OBVIOUS
<1>3. /\ n \in TxnSlot /\ (\A k \in Keys : n.muts[k] = Unstaged) /\ n.arena = <<>>
      /\ t = [n EXCEPT !.gen = g, !.active = TRUE, !.slot = i, !.hgen = h]
  BY <1>1, <1>2 DEF Blank, Begun
<1> HIDE DEF t
<1>4. /\ t \in TxnSlot /\ t.muts = n.muts /\ t.arena = n.arena
      /\ t.gen = g /\ t.active /\ t.slot = i /\ t.hgen = h
  BY ONLY <1>3, g \in 0 .. MaxHandleGeneration, h \in 0 .. MaxHandleGeneration,
     i \in HandleSlots DEF TxnSlot
<1> QED
  BY <1>3, <1>4 DEF Blank, t

\* clear_transaction_unsafe() leaves nothing staged.
LEMMA ClearedBlank ==
    ASSUME NEW s \in TxnSlot
    PROVE  Blank(Cleared(s, NoTxn)) /\ ~Cleared(s, NoTxn).active
<1>1. PICK n, t, g : n = NoTxn /\ t = Cleared(s, NoTxn) /\ g = s.gen
  OBVIOUS
<1>2. Blank(n) /\ ~n.active
  BY <1>1, NoTxnBlank DEF NoTxn
<1>3. /\ n \in TxnSlot /\ (\A k \in Keys : n.muts[k] = Unstaged) /\ n.arena = <<>>
      /\ t = [n EXCEPT !.gen = g] /\ g \in 0 .. MaxHandleGeneration
  BY <1>1, <1>2 DEF Blank, Cleared, TxnSlot
<1>4. t \in TxnSlot /\ t.muts = n.muts /\ t.arena = n.arena /\ t.active = n.active
  BY ONLY <1>3 DEF TxnSlot
<1> QED
  BY <1>1, <1>2, <1>3, <1>4 DEF Blank

\* What a blank transaction keeps, it keeps trivially.
LEMMA BlankKeeps ==
    ASSUME NEW t, Blank(t), NEW b, NEW logging
    PROVE  /\ StagedIn(b, t.muts, logging)
           /\ Len(t.arena) <= StagingSize /\ \A k \in Keys : HasBytes(t, k)
<1>1. ~External(Unstaged) /\ ~InArena(Unstaged)
  BY DEF External, InArena, Unstaged
<1>2. Len(<<>>) = 0
  OBVIOUS
<1> QED
  BY <1>1, <1>2, BoundsAssumption DEF Blank, StagedIn, HasBytes

\* begin() keeps the invariant: the handle it marks was not busy.
LEMMA BeginStep ==
    ASSUME SInv, NEW i \in HandleSlots, NEW g \in Generations, begin(i, g)
    PROVE  SInv'
<1>1. /\ SlotTypes /\ CounterInv /\ OwnerInv /\ TransactionInv /\ DownInv /\ ArenaInv
      /\ ValueInv
  BY DEF SInv, TokenInv
<1>2. /\ up /\ HandleOf(i, g) /\ ~txn.active /\ ~handles[i].txn
      /\ tcounter # 0 /\ tcounter' = NextGeneration(tcounter)
      /\ seen' = [seen EXCEPT !.t = Raised(seen.t, tcounter)]
      /\ txn' = [NoTxn EXCEPT !.gen = tcounter, !.active = TRUE, !.slot = i, !.hgen = g]
      /\ handles' = [handles EXCEPT ![i].txn = TRUE]
      /\ UNCHANGED <<up, faulted, hcounter, writer, readers, bank, stored, appending>>
  BY DEF begin, Ready
<1>3. /\ tcounter \in 1 .. MaxHandleGeneration
      /\ tcounter' \in 0 .. MaxHandleGeneration
      /\ seen' \in [h : Nat, t : Nat] /\ seen'.h = seen.h
      /\ tcounter' # 0 => seen'.t < tcounter'
  BY <1>1, <1>2, TransactionTaken
<1>4. Blank(txn') /\ txn'.active /\ txn'.slot = i /\ txn'.hgen = g
  <2>1. tcounter \in 0 .. MaxHandleGeneration /\ g \in 0 .. MaxHandleGeneration
    BY <1>3, BoundsAssumption DEF Generations
  <2>2. txn' = Begun(tcounter, i, g)
    BY <1>2 DEF Begun
  <2> QED
    BY <2>1, <2>2, BegunBlank
<1>5. /\ handles' \in [HandleSlots -> HandleSlot]
      /\ handles'[i].txn = TRUE /\ handles'[i].used = handles[i].used
      /\ handles'[i].gen = handles[i].gen
      /\ \A j \in HandleSlots : j # i => handles'[j] = handles[j]
  <2>1. handles \in [HandleSlots -> HandleSlot]
    BY <1>1 DEF SlotTypes
  <2> QED
    BY ONLY <1>2, <2>1, i \in HandleSlots DEF HandleSlot
<1>6. SlotTypes' /\ CounterInv'
  BY <1>1, <1>2, <1>3, <1>4, <1>5 DEF SlotTypes, CounterInv, Blank
<1>7. OwnerInv'
  <2>1. HandleOf(i, g)'
    BY <1>2, <1>5 DEF HandleOf
  <2>2. \A j \in HandleSlots : ~handles[j].txn
    BY <1>1, <1>2 DEF OwnerInv, TransactionOwned
  <2> QED
    BY <1>4, <1>5, <2>1, <2>2 DEF OwnerInv, TransactionOwned
<1>8. TransactionInv' /\ DownInv'
  BY <1>1, <1>2, <1>4 DEF TransactionInv, DownInv
<1>9. ArenaInv' /\ StagedIn(bank', txn'.muts, appending')
  BY <1>4, BlankKeeps DEF ArenaInv
<1>10. ValueInv'
  BY <1>1, <1>2, <1>9, ValueStep DEF ValueInv
<1> QED
  BY <1>6, <1>7, <1>8, <1>9, <1>10 DEF SInv, TokenInv

\* The handle of a transaction that ends is released.
LEMMA TransactionCleared ==
    ASSUME SlotTypes, OwnerInv, ClearTransaction
    PROVE  /\ Blank(txn') /\ ~txn'.active
           /\ handles' \in [HandleSlots -> HandleSlot]
           /\ OwnerInv'
<1>1. Blank(txn') /\ ~txn'.active
  BY ClearedBlank DEF SlotTypes, ClearTransaction
<1>2. handles \in [HandleSlots -> HandleSlot]
  BY DEF SlotTypes
<1>3. CASE txn.active
  <2>1. txn.slot \in HandleSlots /\ HandleOf(txn.slot, txn.hgen)
    BY <1>3 DEF OwnerInv
  <2>2. PICK i : i = txn.slot
    OBVIOUS
  <2>3. handles' = [handles EXCEPT ![i].txn = FALSE] /\ i \in HandleSlots
    BY <1>3, <2>1, <2>2 DEF ClearTransaction
  <2>4. /\ handles' \in [HandleSlots -> HandleSlot] /\ ~handles'[i].txn
        /\ \A j \in HandleSlots : j # i => handles'[j] = handles[j]
    BY ONLY <1>2, <2>3 DEF HandleSlot
  <2>5. \A j \in HandleSlots : j # i => ~handles[j].txn
    BY <2>2 DEF OwnerInv, TransactionOwned
  <2> QED
    BY <1>1, <2>4, <2>5 DEF OwnerInv, TransactionOwned
<1>4. CASE ~txn.active
  <2>1. handles' = handles
    BY <1>4 DEF ClearTransaction
  <2>2. \A j \in HandleSlots : ~handles[j].txn
    BY <1>4 DEF OwnerInv, TransactionOwned
  <2> QED
    BY <1>1, <1>2, <2>1, <2>2 DEF OwnerInv, TransactionOwned
<1> QED
  BY <1>1, <1>3, <1>4

\* abort() keeps the invariant: the transaction's writer has ended.
LEMMA AbortStep ==
    ASSUME SInv, NEW g \in Generations, abort(g)
    PROVE  SInv'
<1>1. /\ SlotTypes /\ CounterInv /\ OwnerInv /\ TransactionInv /\ DownInv /\ ArenaInv
      /\ ValueInv
  BY DEF SInv, TokenInv
<1>2. /\ Ready /\ TransactionOf(g) /\ ~WriterOfTransaction(g) /\ ClearTransaction
      /\ UNCHANGED <<up, faulted, hcounter, tcounter, writer, readers, bank, stored,
                     appending, seen>>
  BY DEF abort
<1>3. ~writer.active /\ ~appending
  BY <1>1, <1>2 DEF TransactionInv, TransactionOf, WriterOfTransaction, Ready
<1>4. Blank(txn') /\ ~txn'.active /\ handles' \in [HandleSlots -> HandleSlot] /\ OwnerInv'
  BY <1>1, <1>2, TransactionCleared
<1>5. SlotTypes' /\ CounterInv'
  BY <1>1, <1>2, <1>4 DEF SlotTypes, CounterInv, Blank
<1>6. TransactionInv' /\ DownInv'
  BY <1>1, <1>2, <1>3, <1>4 DEF TransactionInv, DownInv, Blank
<1>7. ArenaInv' /\ StagedIn(bank', txn'.muts, appending')
  BY <1>4, BlankKeeps DEF ArenaInv
<1>8. ValueInv'
  BY <1>1, <1>2, <1>7, ValueStep DEF ValueInv
<1> QED
  BY <1>4, <1>5, <1>6, <1>7, <1>8 DEF SInv, TokenInv

-----------------------------------------------------------------------------
(* Calls within a transaction.                                             *)

\* What such a call may change without touching the tokens: the staged
\* values, the writer, and what a compaction decides.
Within ==
    /\ txn.active /\ up /\ SameOwner(txn, txn')
    /\ txn' \in TxnSlot /\ Len(txn'.arena) <= StagingSize
    /\ \A k \in Keys : HasBytes(txn', k)
    /\ UNCHANGED <<up, handles, tcounter, readers>>
    /\ faulted' \in BOOLEAN /\ appending' \in BOOLEAN
    /\ appending' => ~writer'.active
    /\ writer' \in WriterSlot
    /\ writer'.active => writer'.txn = txn.gen /\ writer'.key \in Keys

\* A call within a transaction keeps the parts about tokens.
LEMMA TokensKept ==
    ASSUME TokenInv, Within, hcounter' \in 0 .. MaxHandleGeneration,
           seen' \in [h : Nat, t : Nat], CounterInv'
    PROVE  TokenInv'
<1>1. SlotTypes /\ OwnerInv /\ TransactionInv /\ DownInv
  BY DEF TokenInv
<1>2. SlotTypes'
  BY <1>1 DEF SlotTypes, Within
<1>3. OwnerInv'
  BY <1>1, OwnerFrame DEF Within
<1>4. TransactionInv'
  BY <1>1 DEF TransactionInv, Within, SameOwner
<1>5. DownInv'
  BY <1>1 DEF DownInv, Within
<1>6. ArenaInv'
  BY DEF ArenaInv, Within, HasBytes
<1> QED
  BY <1>2, <1>3, <1>4, <1>5, <1>6 DEF TokenInv

\* A call that hands out no generation keeps the counters.
LEMMA CountersFrame ==
    ASSUME TokenInv, UNCHANGED <<hcounter, tcounter, seen>>
    PROVE  /\ hcounter' \in 0 .. MaxHandleGeneration
           /\ seen' \in [h : Nat, t : Nat] /\ CounterInv'
BY DEF TokenInv, SlotTypes, CounterInv

\* A value staged by reference is one that was there before, or the new one.
LEMMA RestagedValues ==
    ASSUME NEW t \in TxnSlot, NEW q, NEW k \in Keys, Restaged(t, q, k), NEW b, NEW logging,
           StagedIn(b, t.muts, logging),
           External(q.muts[k]) => /\ SettledIn(b, q.muts[k])
                                  /\ SyncedIn(b, q.muts[k]) \/ (b.dirty # {} /\ ~logging)
    PROVE  StagedIn(b, q.muts, logging)
<1>1. ASSUME NEW j \in Keys, External(q.muts[j])
      PROVE  /\ SettledIn(b, q.muts[j])
             /\ SyncedIn(b, q.muts[j]) \/ (b.dirty # {} /\ ~logging)
  <2>1. CASE j = k
    BY <1>1, <2>1
  <2>2. CASE j # k
    <3>1. q.muts[j] \in StagedValue
      BY TxnFields DEF Restaged
    <3>2. ~InArena(q.muts[j])
      BY <1>1, <3>1, ValueKinds
    <3>3. q.muts[j] = t.muts[j]
      BY <2>2, <3>2 DEF Restaged
    <3> QED
      BY <1>1, <3>3 DEF StagedIn
  <2> QED
    BY <2>1, <2>2
<1> QED
  BY <1>1 DEF StagedIn

\* Staging anything but a reference keeps the invariant.
LEMMA StagingStep ==
    ASSUME SInv, Ready, NEW g, TransactionOf(g), NEW k \in Keys, Restaged(txn, txn', k),
           ~External(txn'.muts[k]), Len(txn'.arena) <= StagingSize,
           UNCHANGED <<up, faulted, handles, hcounter, tcounter, writer, readers, bank, stored,
                       appending, seen>>
    PROVE  SInv'
<1>1. TokenInv /\ ValueInv /\ SlotTypes /\ TransactionInv
  BY DEF SInv, TokenInv
<1>2. Within
  BY <1>1 DEF Within, Restaged, SlotTypes, TransactionInv, TransactionOf, Ready
<1>3. TokenInv'
  BY <1>1, <1>2, TokensKept, CountersFrame
<1>4. StagedIn(bank, txn'.muts, appending)
  BY <1>1, RestagedValues DEF ValueInv, SlotTypes
<1>5. ValueInv'
  BY <1>1, <1>4, ValueStep DEF ValueInv
<1> QED
  BY <1>3, <1>5 DEF SInv

\* set() of a value stored inline keeps the invariant.
LEMMA SetInlineStep ==
    ASSUME SInv, NEW g \in Generations, set_inline(g)
    PROVE  SInv'
<1>1. PICK k \in Keys, n \in InlineSizes : StagingFits(k, n) /\ txn' = StagedWithin(txn, k, n)
  BY DEF set_inline
<1>2. txn \in TxnSlot /\ \A l \in Keys : HasBytes(txn, l)
  BY DEF SInv, TokenInv, SlotTypes, ArenaInv
<1>3. /\ Restaged(txn, txn', k) /\ InArena(txn'.muts[k])
      /\ Len(txn'.arena) = Len(txn.arena) - StagedBytes(txn.muts[k]) + n
  BY <1>1, <1>2, StageWithin
<1>4. Len(txn'.arena) <= StagingSize
  BY <1>1, <1>3 DEF StagingFits
<1>5. ~External(txn'.muts[k])
  BY <1>3, TxnFields, ValueKinds DEF Restaged
<1> QED
  BY <1>3, <1>4, <1>5, StagingStep DEF set_inline

\* erase_key() keeps the invariant.
LEMMA EraseKeyStep ==
    ASSUME SInv, NEW g \in Generations, erase_key(g)
    PROVE  SInv'
<1>1. PICK k \in Keys : txn' = StagedWithout(txn, k, Absent)
  BY DEF erase_key
<1>2. /\ txn \in TxnSlot /\ \A l \in Keys : HasBytes(txn, l)
      /\ Len(txn.arena) <= StagingSize
  BY DEF SInv, TokenInv, SlotTypes, ArenaInv
<1>3. Absent \in StagedValue /\ ~InArena(Absent) /\ ~External(Absent)
  BY DEF Absent, StagedValue, Value, InArena, External
<1>4. /\ Restaged(txn, txn', k) /\ txn'.muts[k] = Absent
      /\ Len(txn'.arena) <= Len(txn.arena)
  BY <1>1, <1>2, <1>3, StageWithout
<1>5. Len(txn'.arena) <= StagingSize
  BY <1>2, <1>4, TxnFields, BoundsAssumption DEF Restaged
<1> QED
  BY <1>3, <1>4, <1>5, StagingStep DEF erase_key

\* A cleared writer slot.
LEMMA ClearedWriter ==
    ASSUME NEW w \in WriterSlot
    PROVE  LET c == Cleared(w, NoWriter)
           IN  /\ c \in WriterSlot /\ ~c.active
               /\ \A b : WriterIn(b, c)
<1>1. PICK n, c : n = NoWriter /\ c = Cleared(w, NoWriter)
  OBVIOUS
<1>2. /\ n \in WriterSlot /\ ~n.active /\ n.size = 0 /\ n.written = 0 /\ n.held = 0
  BY <1>1, BoundsAssumption DEF NoWriter, WriterSlot, Two
<1>3. w.gen \in 0 .. MaxHandleGeneration /\ c = [n EXCEPT !.gen = w.gen]
  BY <1>1 DEF Cleared, WriterSlot
<1>4. c \in WriterSlot /\ ~c.active /\ c.size = 0 /\ c.written = 0 /\ c.held = 0
  BY <1>2, <1>3 DEF WriterSlot
<1> QED
  BY <1>1, <1>4 DEF WriterIn

\* A writer that is given up leaves nothing that is referred to.
LEMMA WriterEndsStep ==
    ASSUME SInv, Ready, writer.active, writer' = Cleared(writer, NoWriter),
           UNCHANGED <<up, faulted, handles, hcounter, tcounter, txn, readers, bank, stored,
                       appending, seen>>
    PROVE  SInv'
<1>1. TokenInv /\ ValueInv /\ SlotTypes /\ TransactionInv /\ ArenaInv
  BY DEF SInv, TokenInv
<1>2. writer' \in WriterSlot /\ ~writer'.active /\ WriterIn(bank, writer')
  BY <1>1, ClearedWriter DEF SlotTypes
<1>3. Within
  BY <1>1, <1>2 DEF Within, SlotTypes, TransactionInv, ArenaInv, SameOwner, Ready
<1>4. TokenInv'
  BY <1>1, <1>3, TokensKept, CountersFrame
<1>5. ValueInv'
  BY <1>1, <1>2, ValueStep DEF ValueInv
<1> QED
  BY <1>4, <1>5 DEF SInv

\* A failed append keeps the invariant: the transaction stays open.
LEMMA AppendFailsStep ==
    ASSUME SInv, append_fails
    PROVE  SInv'
<1>1. TokenInv /\ ValueInv /\ SlotTypes /\ TransactionInv /\ ArenaInv
  BY DEF SInv, TokenInv
<1>2. /\ appending /\ appending' = FALSE
      /\ UNCHANGED <<up, faulted, handles, hcounter, tcounter, txn, writer, readers, bank,
                     stored, seen>>
  BY DEF append_fails
<1>3. Within
  BY <1>1, <1>2 DEF Within, SlotTypes, TransactionInv, ArenaInv, SameOwner
<1>4. TokenInv'
  BY <1>1, <1>2, <1>3, TokensKept, CountersFrame
<1>5. StagedIn(bank, txn.muts, appending')
  BY <1>1, <1>2 DEF ValueInv, StagedIn
<1>6. ValueInv'
  BY <1>1, <1>2, <1>5, ValueStep DEF ValueInv
<1> QED
  BY <1>4, <1>6 DEF SInv

-----------------------------------------------------------------------------
(* The end of commit(), readers, and restarts.                             *)

\* sync_storage_unsafe() changes nothing but what is volatile.
LEMMA SyncedBank ==
    ASSUME NEW b \in Banks
    PROVE  /\ Synced(b) \in Banks /\ Synced(b).active = b.active /\ Synced(b).gen = b.gen
           /\ Synced(b).tail = b.tail /\ Synced(b).chunk = b.chunk
           /\ Synced(b).unsynced = {} /\ Synced(b).dirty = b.dirty
BY DEF Synced, Banks

\* The values survive a change of the banks that leaves their chunks alone.
LEMMA SettledFrame ==
    ASSUME NEW b, NEW c, c.active = b.active, c.gen = b.gen, c.tail = b.tail, c.chunk = b.chunk,
           NEW r, SettledIn(b, r)
    PROVE  SettledIn(c, r)
BY DEF SettledIn, ReadsIn

\* So do the values that readers hold ...
LEMMA ReadersFrame ==
    ASSUME NEW b, NEW c, c.active = b.active, c.tail = b.tail, c.chunk = b.chunk,
           NEW s, ReadersIn(b, s)
    PROVE  ReadersIn(c, s)
BY DEF ReadersIn, ReadsIn

\* ... and the value being written.
LEMMA WriterFrame ==
    ASSUME NEW b, NEW c, c.active = b.active, c.gen = b.gen, c.tail = b.tail, c.chunk = b.chunk,
           NEW w, WriterIn(b, w)
    PROVE  WriterIn(c, w)
BY DEF WriterIn, WritesIn

\* A durable append keeps the invariant: staged values become committed.
LEMMA AppendSyncedStep ==
    ASSUME SInv, append_synced
    PROVE  SInv'
<1>1. /\ SlotTypes /\ CounterInv /\ OwnerInv /\ TransactionInv /\ DownInv /\ ArenaInv
      /\ ValueInv
  BY DEF SInv, TokenInv
<1>2. /\ appending /\ appending' = FALSE /\ stored' = Merged(stored, txn.muts)
      /\ bank' = Synced(bank) /\ faulted' \in BOOLEAN /\ ClearTransaction
      /\ UNCHANGED <<up, hcounter, tcounter, writer, readers, seen>>
  BY DEF append_synced
<1>3. Blank(txn') /\ ~txn'.active /\ handles' \in [HandleSlots -> HandleSlot] /\ OwnerInv'
  BY <1>1, <1>2, TransactionCleared
<1>4. SlotTypes' /\ CounterInv'
  BY <1>1, <1>2, <1>3 DEF SlotTypes, CounterInv, Blank
<1>5. ~writer.active /\ up
  BY <1>1, <1>2 DEF TransactionInv
<1>6. TransactionInv' /\ DownInv'
  BY <1>1, <1>2, <1>3, <1>5 DEF TransactionInv, DownInv, Blank
<1>7. ArenaInv' /\ StagedIn(bank', txn'.muts, appending')
  BY <1>3, BlankKeeps DEF ArenaInv
<1>8. /\ bank \in Banks /\ stored \in [Keys -> Value] /\ StoredIn(bank, stored)
      /\ StagedIn(bank, txn.muts, appending) /\ ReadersIn(bank, readers)
      /\ WriterIn(bank, writer) /\ txn \in TxnSlot
  BY <1>1 DEF ValueInv, SlotTypes
<1>9. /\ bank' \in Banks /\ bank'.active = bank.active /\ bank'.gen = bank.gen
      /\ bank'.tail = bank.tail /\ bank'.chunk = bank.chunk /\ bank'.unsynced = {}
  BY <1>2, <1>8, SyncedBank
<1>10. ASSUME NEW k \in Keys
       PROVE  /\ stored'[k] \in Value
              /\ External(stored'[k]) => SettledIn(bank', stored'[k]) /\ SyncedIn(bank', stored'[k])
  <2>1. \A r : SyncedIn(bank', r)
    BY <1>9 DEF SyncedIn
  <2>2. txn.muts[k] \in StagedValue
    BY <1>8, TxnFields
  <2>3. CASE txn.muts[k] = Unstaged
    <3>1. stored'[k] = stored[k]
      BY <1>2, <2>3 DEF Merged
    <3> QED
      BY <1>8, <1>9, <2>1, <3>1, SettledFrame DEF StoredIn
  <2>4. CASE txn.muts[k] # Unstaged /\ InArena(txn.muts[k])
    <3>1. stored'[k] = Inline
      BY <1>2, <2>4 DEF Merged, Committed
    <3>2. Inline \in Value /\ ~External(Inline)
      BY DEF Inline, Value, External
    <3> QED
      BY <3>1, <3>2
  <2>5. CASE txn.muts[k] # Unstaged /\ ~InArena(txn.muts[k])
    <3>1. stored'[k] = txn.muts[k]
      BY <1>2, <2>5 DEF Merged, Committed
    <3>2. txn.muts[k] \in Value
      BY <2>2, <2>5, ValueKinds DEF StagedValue
    <3>3. External(txn.muts[k]) => SettledIn(bank', txn.muts[k])
      BY <1>8, <1>9, SettledFrame DEF StagedIn
    <3> QED
      BY <2>1, <3>1, <3>2, <3>3
  <2> QED
    BY <2>3, <2>4, <2>5
<1>11. stored' \in [Keys -> Value] /\ StoredIn(bank', stored')
  <2>1. stored' = [k \in Keys |-> stored'[k]]
    BY <1>2 DEF Merged
  <2>2. stored' \in [Keys -> Value]
    BY <1>10, <2>1
  <2> QED
    BY <1>10, <2>2 DEF StoredIn
<1>12. ReadersIn(bank', readers') /\ WriterIn(bank', writer')
  BY <1>2, <1>8, <1>9, ReadersFrame, WriterFrame
<1>13. ValueInv'
  BY <1>7, <1>9, <1>11, <1>12, ValueStep
<1> QED
  BY <1>3, <1>4, <1>6, <1>7, <1>13 DEF SInv, TokenInv

\* open_value() keeps the invariant: a committed value reads back.
LEMMA OpenValueStep ==
    ASSUME SInv, NEW i \in HandleSlots, NEW g \in Generations, open_value(i, g)
    PROVE  SInv'
<1>1. /\ SlotTypes /\ CounterInv /\ OwnerInv /\ TransactionInv /\ DownInv /\ ArenaInv
      /\ ValueInv
  BY DEF SInv, TokenInv
<1>2. /\ Ready /\ TakeGeneration
      /\ UNCHANGED <<up, faulted, handles, tcounter, txn, writer, bank, stored, appending>>
  BY DEF open_value
<1>3. PICK k \in Keys, r \in FirstFree(readers) :
        readers' = [readers EXCEPT ![r] = [gen |-> hcounter, used |-> TRUE, value |-> stored[k]]]
  BY DEF open_value
<1>4. r \in ReaderSlots /\ readers \in [ReaderSlots -> ReaderSlot]
  BY <1>1, <1>3 DEF FirstFree, SlotTypes
<1>5. /\ hcounter \in 1 .. MaxHandleGeneration
      /\ hcounter' \in 0 .. MaxHandleGeneration
      /\ seen' \in [h : Nat, t : Nat] /\ seen'.t = seen.t
      /\ hcounter' # 0 => seen'.h < hcounter'
  BY <1>1, <1>2, GenerationTaken
<1>6. PICK s : s = [gen |-> hcounter, used |-> TRUE, value |-> stored[k]]
  OBVIOUS
<1>7. s \in ReaderSlot /\ s.used /\ s.value = stored[k]
  BY <1>1, <1>5, <1>6 DEF ReaderSlot, ValueInv
<1>8. /\ readers' \in [ReaderSlots -> ReaderSlot] /\ readers'[r] = s
      /\ \A j \in ReaderSlots : j # r => readers'[j] = readers[j]
  BY <1>3, <1>4, <1>6, <1>7
<1>9. SlotTypes' /\ CounterInv'
  BY <1>1, <1>2, <1>5, <1>8 DEF SlotTypes, CounterInv
<1>10. OwnerInv' /\ TransactionInv' /\ DownInv' /\ ArenaInv'
  BY <1>1, <1>2, OwnerFrame, ArenaFrame DEF SameOwner, TransactionInv, DownInv, Ready
<1>11. ReadersIn(bank, readers')
  <2>1. ASSUME External(stored[k])
        PROVE  /\ ReadsIn(bank, stored[k])
               /\ stored[k].first + Chunks(stored[k].size) <= bank.tail[bank.active]
    BY <1>1, <2>1 DEF ValueInv, StoredIn, SettledIn
  <2>2. ReadersIn(bank, readers)
    BY <1>1 DEF ValueInv
  <2> QED
    BY <1>7, <1>8, <2>1, <2>2 DEF ReadersIn
<1>12. ValueInv'
  BY <1>1, <1>2, <1>11, ValueStep DEF ValueInv
<1> QED
  BY <1>9, <1>10, <1>12 DEF SInv, TokenInv

\* Closing a reader keeps the invariant.
LEMMA CloseReaderStep ==
    ASSUME SInv, NEW i \in ReaderSlots, NEW g \in Generations, close_reader(i, g)
    PROVE  SInv'
<1>1. /\ SlotTypes /\ CounterInv /\ OwnerInv /\ TransactionInv /\ DownInv /\ ArenaInv
      /\ ValueInv
  BY DEF SInv, TokenInv
<1>2. /\ Ready /\ readers' = [readers EXCEPT ![i] = Cleared(readers[i], FreeReader)]
      /\ UNCHANGED <<up, faulted, handles, hcounter, tcounter, txn, writer, bank, stored,
                     appending, seen>>
  BY DEF close_reader
<1>3. PICK s : s = Cleared(readers[i], FreeReader)
  OBVIOUS
<1>4. readers \in [ReaderSlots -> ReaderSlot] /\ s \in ReaderSlot /\ s.value = Absent
  <2>1. readers \in [ReaderSlots -> ReaderSlot]
    BY <1>1 DEF SlotTypes
  <2>2. readers[i].gen \in 0 .. MaxHandleGeneration
    BY <2>1 DEF ReaderSlot
  <2> QED
    BY <1>3, <2>1, <2>2 DEF Cleared, FreeReader, ReaderSlot, Value
<1>5. /\ readers' \in [ReaderSlots -> ReaderSlot] /\ readers'[i] = s
      /\ \A j \in ReaderSlots : j # i => readers'[j] = readers[j]
  BY <1>2, <1>3, <1>4
<1>6. SlotTypes' /\ CounterInv'
  BY <1>1, <1>2, <1>5 DEF SlotTypes, CounterInv
<1>7. OwnerInv' /\ TransactionInv' /\ DownInv' /\ ArenaInv'
  BY <1>1, <1>2, OwnerFrame, ArenaFrame DEF SameOwner, TransactionInv, DownInv, Ready
<1>8. ReadersIn(bank, readers')
  <2>1. ~External(Absent)
    BY DEF Absent, External
  <2> QED
    BY <1>1, <1>4, <1>5, <2>1 DEF ValueInv, ReadersIn
<1>9. ValueInv'
  BY <1>1, <1>2, <1>8, ValueStep DEF ValueInv
<1> QED
  BY <1>6, <1>7, <1>9 DEF SInv, TokenInv

\* The slots that nobody uses.
LEMMA FreeSlots ==
    /\ FreeHandle \in HandleSlot /\ ~FreeHandle.txn
    /\ FreeReader \in ReaderSlot /\ FreeReader.value = Absent
    /\ NoWriter \in WriterSlot /\ ~NoWriter.active /\ \A b : WriterIn(b, NoWriter)
    /\ ~NoTxn.active /\ ~External(Absent)
<1>1. FreeHandle \in HandleSlot /\ ~FreeHandle.txn
  BY BoundsAssumption DEF FreeHandle, HandleSlot
<1>2. FreeReader \in ReaderSlot /\ FreeReader.value = Absent
  BY BoundsAssumption DEF FreeReader, ReaderSlot, Value
<1>3. NoWriter \in WriterSlot /\ ~NoWriter.active /\ \A b : WriterIn(b, NoWriter)
  BY BoundsAssumption DEF NoWriter, WriterSlot, WriterIn, Two
<1> QED
  BY <1>1, <1>2, <1>3 DEF NoTxn, Absent, External

\* The slots that deinit() and the first init() leave.
LEMMA ResetSlotsTokens ==
    ASSUME handles' = [i \in HandleSlots |-> FreeHandle], txn' = NoTxn, writer' = NoWriter,
           readers' = [i \in ReaderSlots |-> FreeReader],
           up' \in BOOLEAN, faulted' \in BOOLEAN, appending' = FALSE,
           hcounter' \in 0 .. MaxHandleGeneration, tcounter' \in 0 .. MaxHandleGeneration,
           seen' \in [h : Nat, t : Nat], CounterInv'
    PROVE  /\ TokenInv' /\ \A b : ReadersIn(b, readers') /\ WriterIn(b, writer')
           /\ \A b : StagedIn(b, txn'.muts, appending')
<1>1. Blank(txn') /\ ~txn'.active /\ ~writer'.active
  BY NoTxnBlank, FreeSlots
<1>2. /\ handles' \in [HandleSlots -> HandleSlot] /\ \A i \in HandleSlots : ~handles'[i].txn
      /\ readers' \in [ReaderSlots -> ReaderSlot]
      /\ \A i \in ReaderSlots : readers'[i].value = Absent
  BY FreeSlots
<1>3. SlotTypes'
  BY <1>1, <1>2, FreeSlots DEF SlotTypes, Blank
<1>4. OwnerInv'
  BY <1>1, <1>2 DEF OwnerInv, TransactionOwned
<1>5. TransactionInv' /\ DownInv'
  BY <1>1, <1>2 DEF TransactionInv, DownInv, Blank
<1>6. ArenaInv'
  BY <1>1, BlankKeeps DEF ArenaInv
<1>7. \A b : ReadersIn(b, readers') /\ WriterIn(b, writer')
  BY <1>2, FreeSlots DEF ReadersIn
<1>8. \A b : StagedIn(b, txn'.muts, appending')
  BY <1>1, BlankKeeps
<1> QED
  BY <1>3, <1>4, <1>5, <1>6, <1>7, <1>8 DEF TokenInv

\* deinit(), forced or not, keeps the invariant.
LEMMA DeinitStep ==
    ASSUME SInv, NEW force \in BOOLEAN, deinit(force)
    PROVE  SInv'
<1>1. SlotTypes /\ CounterInv /\ ValueInv
  BY DEF SInv, TokenInv
<1>2. /\ ~appending /\ up' = FALSE /\ faulted' = FALSE /\ ResetSlots
      /\ bank' = [bank EXCEPT !.dirty = {}]
      /\ UNCHANGED <<hcounter, tcounter, stored, appending, seen>>
  BY DEF deinit
<1>3. CounterInv' /\ hcounter' \in 0 .. MaxHandleGeneration /\ tcounter' \in 0 .. MaxHandleGeneration
      /\ seen' \in [h : Nat, t : Nat] /\ appending' = FALSE
  BY <1>1, <1>2 DEF CounterInv, SlotTypes
<1>4. /\ TokenInv' /\ ReadersIn(bank', readers') /\ WriterIn(bank', writer')
      /\ StagedIn(bank', txn'.muts, appending')
  BY <1>2, <1>3, ResetSlotsTokens DEF ResetSlots
<1>5. /\ bank' \in Banks /\ bank'.active = bank.active /\ bank'.gen = bank.gen
      /\ bank'.tail = bank.tail /\ bank'.chunk = bank.chunk /\ bank'.unsynced = bank.unsynced
  BY <1>1, <1>2 DEF ValueInv, Banks
<1>6. StoredIn(bank', stored')
  <2>1. StoredIn(bank, stored)
    BY <1>1 DEF ValueInv
  <2>2. \A r : SettledIn(bank, r) => SettledIn(bank', r)
    BY <1>5, SettledFrame
  <2>3. \A r : SyncedIn(bank, r) => SyncedIn(bank', r)
    BY <1>5 DEF SyncedIn
  <2> QED
    BY <1>2, <2>1, <2>2, <2>3 DEF StoredIn
<1>7. ValueInv'
  BY <1>1, <1>2, <1>4, <1>5, <1>6, ValueStep DEF ValueInv
<1> QED
  BY <1>4, <1>7 DEF SInv

\* The tail that a restart recovers lies behind every committed value.
LEMMA InitStep ==
    ASSUME SInv, init
    PROVE  SInv'
<1>1. /\ SlotTypes /\ CounterInv /\ OwnerInv /\ TransactionInv /\ DownInv /\ ArenaInv
      /\ ValueInv
  BY DEF SInv, TokenInv
<1>2. /\ ~up /\ up' = TRUE
      /\ UNCHANGED <<faulted, handles, hcounter, tcounter, txn, writer, readers, stored,
                     appending, seen>>
  BY DEF init
<1>3. PICK t \in 0 .. bank.tail[bank.active] :
        /\ \A k \in Keys : External(stored[k]) => stored[k].first + Chunks(stored[k].size) <= t
        /\ bank' = [bank EXCEPT !.tail[bank.active] = t]
  BY DEF init
<1>4. /\ ~txn.active /\ ~writer.active /\ ~appending
      /\ \A i \in ReaderSlots : readers[i].value = Absent
      /\ \A k \in Keys : txn.muts[k] = Unstaged
  BY <1>1, <1>2 DEF DownInv, TransactionInv
<1>5. SlotTypes' /\ CounterInv'
  BY <1>1, <1>2 DEF SlotTypes, CounterInv
<1>6. OwnerInv' /\ ArenaInv'
  BY <1>1, <1>2, OwnerFrame, ArenaFrame DEF SameOwner
<1>7. TransactionInv' /\ DownInv'
  BY <1>1, <1>2, <1>4 DEF TransactionInv, DownInv
<1>8. bank \in Banks /\ StoredIn(bank, stored) /\ stored \in [Keys -> Value]
  BY <1>1 DEF ValueInv
<1>9. PICK a : a = bank.active
  OBVIOUS
<1>10. a \in Two /\ bank.tail[a] \in 0 .. BankChunks
  BY <1>8, <1>9 DEF Banks
<1>11. t \in 0 .. BankChunks
  BY <1>3, <1>9, <1>10, BoundsAssumption
<1>12. /\ bank' \in Banks /\ bank'.active = a /\ bank'.gen = bank.gen /\ bank'.tail[a] = t
       /\ bank'.chunk = bank.chunk /\ bank'.unsynced = bank.unsynced
  <2>1. bank' = [bank EXCEPT !.tail[a] = t]
    BY <1>3, <1>9
  <2> QED
    BY ONLY <1>8, <1>9, <1>10, <1>11, <2>1 DEF Banks
<1>13. StoredIn(bank', stored)
  <2>1. SUFFICES ASSUME NEW k \in Keys, External(stored[k])
                 PROVE  SettledIn(bank', stored[k]) /\ SyncedIn(bank', stored[k])
    BY DEF StoredIn
  <2>2. SettledIn(bank, stored[k]) /\ SyncedIn(bank, stored[k])
    BY <1>8, <2>1 DEF StoredIn
  <2>3. SyncedIn(bank', stored[k])
    BY <1>12, <2>2 DEF SyncedIn
  <2>4. stored[k].first + Chunks(stored[k].size) <= t
    BY <1>3, <2>1
  <2> QED
    BY <1>9, <1>12, <2>2, <2>3, <2>4 DEF SettledIn, ReadsIn
<1>14. ~External(Absent) /\ ~External(Unstaged)
  BY DEF External, Absent, Unstaged
<1>15. StagedIn(bank', txn.muts, appending) /\ ReadersIn(bank', readers)
  BY <1>4, <1>14 DEF StagedIn, ReadersIn
<1>16. WriterIn(bank', writer)
  BY <1>1, <1>4 DEF WriterIn, ValueInv
<1>17. ValueInv'
  BY <1>2, <1>8, <1>12, <1>13, <1>15, <1>16, ValueStep
<1> QED
  BY <1>5, <1>6, <1>7, <1>17 DEF SInv, TokenInv

-----------------------------------------------------------------------------
(* Writing behind the tail.                                                *)

\* Bank c is bank b with other chunks behind the tail of the active bank,
\* some of them perhaps reserved.
Beyond(b, c) ==
    /\ c.active = b.active /\ c.gen = b.gen
    /\ b.tail[b.active] <= c.tail[b.active]
    /\ b.dirty # {} => c.dirty # {}
    /\ \A a \in Two, o \in Offsets :
          a # b.active \/ o < b.tail[b.active] =>
              /\ c.chunk[a][o] = b.chunk[a][o]
              /\ <<a, o>> \in c.unsynced => <<a, o>> \in b.unsynced

\* The chunks of a value below the tail, or in the other bank.
LEMMA BeyondReads ==
    ASSUME NEW b \in Banks, NEW c, Beyond(b, c), NEW r \in Reference, ReadsIn(b, r),
           r.bank = b.active => r.first + Chunks(r.size) <= b.tail[b.active]
    PROVE  ReadsIn(c, r) /\ (SyncedIn(b, r) => SyncedIn(c, r))
<1>1. PICK a, f, n, t : /\ a = r.bank /\ f = r.first /\ n = Chunks(r.size)
                        /\ t = b.tail[b.active]
  OBVIOUS
<1>2. a \in Two /\ f \in Nat /\ n \in Nat /\ t \in Nat
  BY <1>1, ReferenceFields, BoundsAssumption DEF Banks
<1>3. ASSUME NEW i \in 0 .. (n - 1)
      PROVE  /\ f + i \in Offsets
             /\ c.chunk[a][f + i] = b.chunk[a][f + i]
             /\ <<a, f + i>> \in c.unsynced => <<a, f + i>> \in b.unsynced
  <2>1. f + i < BankChunks
    BY <1>1, <1>3 DEF ReadsIn
  <2>2. f + i \in Offsets
    BY <1>2, <1>3, <2>1, BoundsAssumption DEF Offsets
  <2>3. a # b.active \/ f + i < t
    BY <1>1, <1>2, <1>3
  <2> QED
    BY <1>1, <1>2, <2>2, <2>3 DEF Beyond
<1>4. ReadsIn(c, r)
  BY <1>1, <1>3 DEF ReadsIn
<1>5. SyncedIn(b, r) => SyncedIn(c, r)
  BY <1>1, <1>3 DEF SyncedIn
<1> QED
  BY <1>4, <1>5

\* A settled value stays settled.
LEMMA BeyondSettled ==
    ASSUME NEW b \in Banks, NEW c \in Banks, Beyond(b, c), NEW r \in Reference, SettledIn(b, r)
    PROVE  SettledIn(c, r) /\ (SyncedIn(b, r) => SyncedIn(c, r))
<1>1. ReadsIn(c, r) /\ (SyncedIn(b, r) => SyncedIn(c, r))
  BY BeyondReads DEF SettledIn
<1>2. r.first + Chunks(r.size) <= c.tail[c.active]
  <2>1. PICK x, t, u : x = r.first + Chunks(r.size) /\ t = b.tail[b.active] /\ u = c.tail[c.active]
    OBVIOUS
  <2>2. t \in Nat /\ u \in Nat /\ x \in Nat
    BY <2>1, ReferenceFields, BoundsAssumption DEF Banks
  <2>3. x <= t /\ t <= u
    BY <2>1 DEF SettledIn, Beyond
  <2> QED
    BY <2>1, <2>2, <2>3
<1> QED
  BY <1>1, <1>2 DEF SettledIn, Beyond

\* Whatever is written behind the tail disturbs no value in use.
LEMMA BeyondValues ==
    ASSUME NEW b \in Banks, NEW c \in Banks, Beyond(b, c)
    PROVE  /\ \A v \in [Keys -> Value] : StoredIn(b, v) => StoredIn(c, v)
           /\ \A m \in [Keys -> StagedValue], l \in BOOLEAN : StagedIn(b, m, l) => StagedIn(c, m, l)
           /\ \A s \in [ReaderSlots -> ReaderSlot] : ReadersIn(b, s) => ReadersIn(c, s)
<1>1. \A v \in StagedValue : External(v) => v \in Reference
  BY ValueKinds
<1>2. ASSUME NEW v \in [Keys -> Value], StoredIn(b, v)
      PROVE  StoredIn(c, v)
  <2>1. \A k \in Keys : External(v[k]) => v[k] \in Reference
    BY <1>1 DEF StagedValue
  <2> QED
    BY <1>2, <2>1, BeyondSettled DEF StoredIn
<1>3. ASSUME NEW m \in [Keys -> StagedValue], NEW l \in BOOLEAN, StagedIn(b, m, l)
      PROVE  StagedIn(c, m, l)
  <2>1. \A k \in Keys : External(m[k]) => m[k] \in Reference
    BY <1>1
  <2>2. b.dirty # {} => c.dirty # {}
    BY DEF Beyond
  <2> QED
    BY <1>3, <2>1, <2>2, BeyondSettled DEF StagedIn
<1>4. ASSUME NEW s \in [ReaderSlots -> ReaderSlot], ReadersIn(b, s)
      PROVE  ReadersIn(c, s)
  <2>1. SUFFICES ASSUME NEW i \in ReaderSlots, External(s[i].value)
                 PROVE  /\ s[i].used /\ ReadsIn(c, s[i].value)
                        /\ s[i].value.bank = c.active =>
                             s[i].value.first + Chunks(s[i].value.size) <= c.tail[c.active]
    BY DEF ReadersIn
  <2>2. PICK r : r = s[i].value
    OBVIOUS
  <2>3. r \in Reference
    BY <1>1, <2>1, <2>2 DEF ReaderSlot, StagedValue
  <2>4. /\ s[i].used /\ ReadsIn(b, r)
        /\ r.bank = b.active => r.first + Chunks(r.size) <= b.tail[b.active]
    BY <1>4, <2>1, <2>2 DEF ReadersIn
  <2>5. ReadsIn(c, r)
    BY <2>3, <2>4, BeyondReads
  <2>6. r.bank = b.active => r.first + Chunks(r.size) <= c.tail[b.active]
    <3>1. PICK x, t, u : x = r.first + Chunks(r.size) /\ t = b.tail[b.active] /\ u = c.tail[b.active]
      OBVIOUS
    <3>2. t \in Nat /\ u \in Nat /\ x \in Nat
      BY <2>3, <3>1, ReferenceFields, BoundsAssumption DEF Banks
    <3>3. t <= u
      BY <3>1 DEF Beyond
    <3> QED
      BY <2>4, <3>1, <3>2, <3>3
  <2> QED
    BY <2>2, <2>4, <2>5, <2>6 DEF Beyond
<1> QED
  BY <1>2, <1>3, <1>4

-----------------------------------------------------------------------------
(* The value writer.                                                       *)

\* A writer of a large value, with its bank.
Writes(p) ==
    p \in [w : WriterSlot, b : Banks] /\ p.w.active /\ p.w.size # 0 /\ WritesIn(p.b, p.w)

\* Writer v is writer w further on.
SameWriter(w, v) ==
    v.active = w.active /\ v.gen = w.gen /\ v.txn = w.txn /\ v.key = w.key /\ v.size = w.size

\* The fields of the writer; a chunk holds two halves.
LEMMA WriterFields ==
    ASSUME NEW w \in WriterSlot
    PROVE  /\ w.gen \in Nat /\ w.written \in Nat /\ w.held \in 0 .. 2 /\ w.next \in Nat
           /\ w.first \in Nat /\ w.bgen \in Nat /\ w.bank \in Two /\ w.size \in Nat
           /\ w.next <= BankChunks /\ w.first <= BankChunks
           /\ w.size # 0 => w.size \in Sizes
           /\ Chunks(w.size) \in Nat /\ 2 * Chunks(w.size) >= w.size
           /\ 2 * Chunks(w.size) <= w.size + 1
<1>1. /\ w.gen \in 0 .. MaxHandleGeneration /\ w.written \in Nat /\ w.held \in 0 .. 2
      /\ w.next \in 0 .. BankChunks /\ w.first \in 0 .. BankChunks /\ w.bgen \in Nat
      /\ w.bank \in Two /\ w.size \in Sizes \cup {0}
  BY DEF WriterSlot
<1>2. w.size \in Nat
  <2>1. w.size \in Sizes => w.size \in Nat
    BY SizesAssumption
  <2> QED
    BY <1>1, <2>1
<1>3. Chunks(w.size) \in Nat /\ 2 * Chunks(w.size) >= w.size /\ 2 * Chunks(w.size) <= w.size + 1
  BY <1>2 DEF Chunks
<1> QED
  BY <1>1, <1>2, <1>3, BoundsAssumption

\* The chunk that an intact buffer becomes.
LEMMA OwnChunk ==
    ASSUME NEW r \in Chunk
    PROVE  [r EXCEPT !.id = r.id] = r
BY DEF Chunk

\* flush_value_writer_chunk_unsafe(): the chunk goes behind the tail and
\* continues the value.
LEMMA FlushKeeps ==
    ASSUME NEW p, Writes(p), FlushDue(p.w)
    PROVE  /\ Writes(FlushChunk(p)) /\ SameWriter(p.w, FlushChunk(p).w)
           /\ Beyond(p.b, FlushChunk(p).b)
           /\ FlushChunk(p).w.held = 0 /\ FlushChunk(p).w.written = p.w.written
<1>1. PICK w, b, v, c : w = p.w /\ b = p.b /\ v = FlushChunk(p).w /\ c = FlushChunk(p).b
  OBVIOUS
<1>2. w \in WriterSlot /\ b \in Banks /\ w.active /\ w.size # 0 /\ WritesIn(b, w) /\ FlushDue(w)
  BY <1>1 DEF Writes
<1>3. PICK a, n, f, l : a = w.bank /\ n = w.next /\ f = w.first /\ l = n - f
  OBVIOUS
<1>4. /\ a \in Two /\ n \in Nat /\ f \in Nat /\ w.size \in Nat /\ w.written \in Nat
      /\ w.held \in 0 .. 2 /\ Chunks(w.size) \in Nat /\ 2 * Chunks(w.size) >= w.size
      /\ 2 * Chunks(w.size) <= w.size + 1 /\ w.size \in Sizes /\ w.bgen \in Nat /\ w.gen \in Nat
  BY <1>2, <1>3, WriterFields
<1>5. /\ a = b.active /\ w.bgen = b.gen[b.active] /\ f = b.tail[b.active] /\ f <= n
      /\ f + Chunks(w.size) <= BankChunks /\ w.intact /\ w.written <= w.size
      /\ \A i \in 0 .. (n - f - 1) : b.chunk[a][f + i] = ChunkOf(WrittenRef(w), i)
      /\ \/ w.written = 2 * (n - f) + w.held
         \/ /\ w.held = 0 /\ w.written = w.size /\ w.written + 1 = 2 * (n - f)
  BY <1>2, <1>3 DEF WritesIn
<1>6. w.held # 0 /\ (w.held = 2 \/ w.written = w.size)
  BY <1>2 DEF FlushDue, Expected
<1>7. w.written = 2 * l + w.held /\ l \in Nat /\ n = f + l
  BY <1>3, <1>4, <1>5, <1>6
<1>8. n < BankChunks /\ n \in Offsets /\ n + 1 \in 0 .. BankChunks
  <2>1. 2 * l + 1 <= 2 * Chunks(w.size)
    BY <1>4, <1>5, <1>6, <1>7
  <2>2. l + 1 <= Chunks(w.size)
    BY <1>4, <1>7, <2>1
  <2>3. n + 1 <= BankChunks
    BY <1>4, <1>5, <1>7, <2>2, BoundsAssumption
  <2> QED
    BY <1>4, <2>3, BoundsAssumption DEF Offsets
<1>9. v = [w EXCEPT !.next = n + 1, !.held = 0, !.intact = TRUE]
  BY <1>1, <1>3 DEF FlushChunk
<1>10. /\ v \in WriterSlot /\ v.active /\ v.size = w.size /\ SameWriter(w, v) /\ v.bank = a
       /\ v.bgen = w.bgen /\ v.first = f /\ v.next = n + 1 /\ v.held = 0 /\ v.intact
       /\ v.written = w.written
  <2>1. v \in WriterSlot
    <3>1. 0 \in 0 .. 2 /\ TRUE \in BOOLEAN
      OBVIOUS
    <3>2. w \in WriterSlot /\ n + 1 \in 0 .. BankChunks
      BY <1>2, <1>8
    <3> QED
      BY ONLY <1>9, <3>1, <3>2 DEF WriterSlot
  <2>2. /\ v.active = w.active /\ v.gen = w.gen /\ v.txn = w.txn /\ v.key = w.key
        /\ v.size = w.size /\ v.bank = w.bank /\ v.bgen = w.bgen /\ v.first = w.first
        /\ v.next = n + 1 /\ v.held = 0 /\ v.intact = TRUE /\ v.written = w.written
    BY ONLY <1>2, <1>9 DEF WriterSlot
  <2> QED
    BY <1>2, <1>3, <2>1, <2>2 DEF SameWriter
<1>11. PICK x : x = ChunkOf(WrittenRef(w), l)
  OBVIOUS
<1>12. x \in Chunk /\ x.id = w.gen
  BY <1>4, <1>7, <1>11, <1>3 DEF Chunk, ChunkOf, WrittenRef
<1>13. c = [b EXCEPT !.chunk[a][n] = x, !.unsynced = b.unsynced \cup {<<a, n>>}]
  <2>1. [x EXCEPT !.id = IF w.intact THEN w.gen ELSE Junk] = x
    <3>1. (IF w.intact THEN w.gen ELSE Junk) = x.id
      BY <1>5, <1>12
    <3> QED
      BY <1>12, <3>1, OwnChunk
  <2>2. c = [b EXCEPT !.chunk[a][n] = [x EXCEPT !.id = IF w.intact THEN w.gen ELSE Junk],
                      !.unsynced = b.unsynced \cup {<<a, n>>}]
    BY <1>1, <1>3, <1>11 DEF FlushChunk
  <2> QED
    BY <2>1, <2>2
<1>14. /\ c \in Banks /\ c.active = b.active /\ c.gen = b.gen /\ c.tail = b.tail
       /\ c.dirty = b.dirty /\ c.unsynced = b.unsynced \cup {<<a, n>>}
       /\ c.chunk[a][n] = x
       /\ \A d \in Two, o \in Offsets : d # a \/ o # n => c.chunk[d][o] = b.chunk[d][o]
  <2>1. PICK t, u : /\ t = [b.chunk EXCEPT ![a][n] = x] /\ u = b.unsynced \cup {<<a, n>>}
    OBVIOUS
  <2>2. b.chunk \in [Two -> [Offsets -> Chunk]] /\ b.unsynced \in SUBSET (Two \X Offsets)
    BY <1>2 DEF Banks
  <2>3. u \in SUBSET (Two \X Offsets)
    BY <1>4, <1>8, <2>1, <2>2
  <2>4. /\ t \in [Two -> [Offsets -> Chunk]] /\ t[a][n] = x
        /\ \A d \in Two, o \in Offsets : d # a \/ o # n => t[d][o] = b.chunk[d][o]
    BY ONLY <1>4, <1>8, <1>12, <2>1, <2>2
  <2>5. c = [b EXCEPT !.chunk = t, !.unsynced = u]
    BY <1>13, <2>1
  <2>6. /\ c \in Banks /\ c.active = b.active /\ c.gen = b.gen /\ c.tail = b.tail
        /\ c.dirty = b.dirty /\ c.unsynced = u /\ c.chunk = t
    BY ONLY <1>2, <2>3, <2>4, <2>5 DEF Banks
  <2> QED
    BY <2>1, <2>4, <2>6
<1>15. Beyond(b, c)
  <2>1. b.tail[b.active] <= c.tail[b.active]
    BY <1>4, <1>5, <1>14
  <2>2. ASSUME NEW d \in Two, NEW o \in Offsets, d # b.active \/ o < b.tail[b.active]
        PROVE  c.chunk[d][o] = b.chunk[d][o] /\ (<<d, o>> \in c.unsynced => <<d, o>> \in b.unsynced)
    <3>1. d # a \/ o # n
      BY <1>4, <1>5, <2>2, BoundsAssumption DEF Offsets
    <3> QED
      BY <1>14, <3>1
  <2> QED
    BY <1>14, <2>1, <2>2 DEF Beyond
<1>16. WritesIn(c, v)
  <2>1. WrittenRef(v) = WrittenRef(w)
    BY <1>3, <1>10 DEF WrittenRef, SameWriter
  <2>2. ASSUME NEW i \in 0 .. (n + 1 - f - 1)
        PROVE  c.chunk[a][f + i] = ChunkOf(WrittenRef(w), i)
    <3>1. CASE i = l
      BY <1>4, <1>7, <1>11, <1>14, <3>1
    <3>2. CASE i # l
      <4>1. i \in 0 .. (n - f - 1) /\ f + i # n /\ f + i \in Offsets
        BY <1>4, <1>7, <1>8, <2>2, <3>2, BoundsAssumption DEF Offsets
      <4> QED
        BY <1>4, <1>5, <1>14, <4>1
    <3> QED
      BY <3>1, <3>2
  <2>3. \/ v.written = 2 * (n + 1 - f)
        \/ v.written = v.size /\ v.written + 1 = 2 * (n + 1 - f)
    <3>1. CASE w.held = 2
      BY <1>4, <1>7, <1>10, <3>1
    <3>2. CASE w.held = 1
      BY <1>4, <1>6, <1>7, <1>10, <3>2
    <3> QED
      BY <1>4, <1>6, <3>1, <3>2
  <2>4. f <= n + 1 /\ v.written <= v.size /\ v.written \in Nat
    BY <1>4, <1>5, <1>10
  <2>5. v.written = 2 * (n + 1 - f) => v.written = 2 * (v.next - v.first) + v.held
    BY <1>4, <1>10
  <2>6. v.next = n + 1 /\ v.first = f /\ v.bank = a /\ v.held = 0
    BY <1>10
  <2>7. n \in Nat /\ f \in Nat /\ v.written \in Nat
    BY <1>4, <2>4
  <2> QED
    <3>1. /\ v.bank = c.active /\ v.bgen = c.gen[c.active] /\ v.first = c.tail[c.active]
          /\ v.first <= v.next /\ v.first + Chunks(v.size) <= BankChunks /\ v.intact
      BY <1>5, <1>10, <1>14, <2>4
    <3>2. \A i \in 0 .. (v.next - v.first - 1) : c.chunk[v.bank][v.first + i] = ChunkOf(WrittenRef(v), i)
      BY ONLY <2>1, <2>2, <2>6, <2>7
    <3>3. \/ v.written = 2 * (v.next - v.first) + v.held
          \/ v.held = 0 /\ v.written = v.size /\ v.written + 1 = 2 * (v.next - v.first)
      BY ONLY <2>3, <2>5, <2>6, <2>7
    <3> QED
      BY <2>4, <3>1, <3>2, <3>3 DEF WritesIn
<1>17. FlushChunk(p) = [w |-> v, b |-> c]
  BY <1>1 DEF FlushChunk
<1>18. FlushChunk(p) \in [w : WriterSlot, b : Banks]
  BY <1>10, <1>14, <1>17
<1> QED
  BY <1>1, <1>10, <1>15, <1>16, <1>18 DEF Writes

\* The pair after half a chunk was copied into the buffer.
LEMMA BufferedParts ==
    ASSUME NEW p \in [w : WriterSlot, b : Banks], p.w.held < 2
    PROVE  /\ Buffered(p) \in [w : WriterSlot, b : Banks] /\ Buffered(p).b = p.b
           /\ SameWriter(p.w, Buffered(p).w)
           /\ Buffered(p).w.written = p.w.written + 1
           /\ Buffered(p).w.held = IF p.w.size = 0 THEN 0 ELSE p.w.held + 1
           /\ Buffered(p).w.next = p.w.next /\ Buffered(p).w.first = p.w.first
           /\ Buffered(p).w.bank = p.w.bank /\ Buffered(p).w.bgen = p.w.bgen
           /\ Buffered(p).w.intact = p.w.intact
<1>1. PICK w, q, n, h : /\ w = p.w /\ q = Buffered(p) /\ n = w.written + 1
                        /\ h = IF w.size = 0 THEN 0 ELSE w.held + 1
  OBVIOUS
<1>2. w \in WriterSlot /\ n \in Nat /\ h \in 0 .. 2
  BY <1>1, WriterFields
<1>3. q = [p EXCEPT !.w.written = n, !.w.held = h]
  BY <1>1 DEF Buffered
<1>4. PICK v : v = [w EXCEPT !.written = n, !.held = h]
  OBVIOUS
<1>5. q.w = v /\ q.b = p.b
  BY <1>1, <1>3, <1>4
<1>6. v \in WriterSlot
  BY ONLY <1>2, <1>4 DEF WriterSlot
<1>7. /\ v.active = w.active /\ v.gen = w.gen /\ v.txn = w.txn /\ v.key = w.key
      /\ v.size = w.size /\ v.bank = w.bank /\ v.bgen = w.bgen /\ v.first = w.first
      /\ v.next = w.next /\ v.held = h /\ v.intact = w.intact /\ v.written = n
  BY ONLY <1>2, <1>4 DEF WriterSlot
<1>8. q \in [w : WriterSlot, b : Banks]
  BY <1>1, <1>3, <1>4, <1>5, <1>6
<1> QED
  BY <1>1, <1>5, <1>7, <1>8 DEF SameWriter

\* Half a chunk more in the buffer.
LEMMA BufferKeeps ==
    ASSUME NEW p, Writes(p), ~FlushDue(p.w), p.w.written < p.w.size
    PROVE  Writes(Buffered(p))
<1>1. PICK w, b, v : w = p.w /\ b = p.b /\ v = Buffered(p).w
  OBVIOUS
<1>2. /\ p \in [w : WriterSlot, b : Banks] /\ w \in WriterSlot /\ b \in Banks /\ w.active
      /\ w.size # 0 /\ WritesIn(b, w) /\ ~FlushDue(w) /\ w.written < w.size
  BY <1>1 DEF Writes
<1>3. /\ w.next \in Nat /\ w.first \in Nat /\ w.size \in Nat /\ w.written \in Nat
      /\ w.held \in 0 .. 2
  BY <1>2, WriterFields
<1>4. w.held # 2 /\ w.held < 2
  BY <1>2, <1>3 DEF FlushDue
<1>5. /\ Buffered(p) \in [w : WriterSlot, b : Banks] /\ Buffered(p).b = b
      /\ SameWriter(w, v) /\ v.written = w.written + 1 /\ v.held = w.held + 1
      /\ v.next = w.next /\ v.first = w.first /\ v.bank = w.bank /\ v.bgen = w.bgen
      /\ v.intact = w.intact
  BY <1>1, <1>2, <1>4, BufferedParts
<1>6. v.size = w.size /\ v.active = w.active /\ v.gen = w.gen
  BY <1>5 DEF SameWriter
<1>7. WrittenRef(v) = WrittenRef(w)
  BY <1>5, <1>6 DEF WrittenRef
<1>8. v.written = 2 * (v.next - v.first) + v.held /\ v.written <= v.size
  <2>1. \/ w.written = 2 * (w.next - w.first) + w.held
        \/ w.held = 0 /\ w.written = w.size
    BY <1>2 DEF WritesIn
  <2>2. w.written = 2 * (w.next - w.first) + w.held
    BY <1>2, <1>3, <2>1
  <2> QED
    BY <1>2, <1>3, <1>5, <1>6, <2>2
<1>9. WritesIn(b, v)
  <2>1. /\ v.bank = b.active /\ v.bgen = b.gen[b.active] /\ v.first = b.tail[b.active]
        /\ v.first <= v.next /\ v.first + Chunks(v.size) <= BankChunks /\ v.intact
    BY <1>2, <1>5, <1>6 DEF WritesIn
  <2>2. \A i \in 0 .. (v.next - v.first - 1) : b.chunk[v.bank][v.first + i] = ChunkOf(WrittenRef(v), i)
    BY <1>2, <1>5, <1>7 DEF WritesIn
  <2> QED
    BY <1>8, <2>1, <2>2 DEF WritesIn
<1> QED
  BY <1>1, <1>2, <1>5, <1>6, <1>9 DEF Writes

\* write_value_unsafe() of a large value, whichever write fails.
LEMMA WriteKeeps ==
    ASSUME NEW p, Writes(p), p.w.written < p.w.size, NEW q \in WriteOutcomes(p)
    PROVE  Writes(q) /\ SameWriter(p.w, q.w) /\ Beyond(p.b, q.b)
<1>1. PICK r : r = IF FlushDue(p.w) THEN FlushChunk(p) ELSE p
  OBVIOUS
<1>2. Beyond(p.b, p.b)
  <2>1. p.b.tail[p.b.active] \in Nat
    BY BoundsAssumption DEF Writes, Banks
  <2> QED
    BY <2>1 DEF Beyond
<1>3. /\ Writes(r) /\ SameWriter(p.w, r.w) /\ Beyond(p.b, r.b) /\ ~FlushDue(r.w)
      /\ r.w.written < r.w.size
  <2>1. CASE FlushDue(p.w)
    <3>1. /\ Writes(r) /\ SameWriter(p.w, r.w) /\ Beyond(p.b, r.b) /\ r.w.held = 0
          /\ r.w.written = p.w.written
      BY <1>1, <2>1, FlushKeeps
    <3> QED
      BY <3>1 DEF FlushDue, SameWriter
  <2>2. CASE ~FlushDue(p.w)
    BY <1>1, <1>2, <2>2 DEF SameWriter
  <2> QED
    BY <2>1, <2>2
<1>4. PICK s : s = Buffered(r)
  OBVIOUS
<1>5. Writes(s) /\ SameWriter(r.w, s.w) /\ s.b = r.b
  <2>1. r \in [w : WriterSlot, b : Banks] /\ r.w.size # 0 /\ r.w.held # 2
    BY <1>3 DEF Writes, FlushDue
  <2>2. r.w.held < 2
    BY <2>1, WriterFields
  <2> QED
    BY <1>3, <1>4, <2>1, <2>2, BufferKeeps, BufferedParts
<1>6. q = s \/ (FlushDue(s.w) /\ q = FlushChunk(s))
  BY <1>1, <1>4 DEF WriteOutcomes
<1>7. CASE q = s
  BY <1>3, <1>5, <1>7 DEF SameWriter
<1>8. CASE FlushDue(s.w) /\ q = FlushChunk(s)
  <2>1. Writes(q) /\ SameWriter(s.w, q.w) /\ Beyond(r.b, q.b)
    BY <1>5, <1>8, FlushKeeps
  <2>2. SameWriter(p.w, q.w)
    BY <1>3, <1>5, <2>1 DEF SameWriter
  <2>3. Beyond(p.b, q.b)
    <3>1. PICK b, c, d : b = p.b /\ c = r.b /\ d = q.b
      OBVIOUS
    <3>2. b \in Banks /\ c \in Banks /\ d \in Banks
      BY <1>3, <2>1, <3>1 DEF Writes
    <3>3. PICK t, u, v : t = b.tail[b.active] /\ u = c.tail[b.active] /\ v = d.tail[b.active]
      OBVIOUS
    <3>4. t \in Nat /\ u \in Nat /\ v \in Nat
      BY <3>2, <3>3, BoundsAssumption DEF Banks
    <3>5. Beyond(b, c) /\ Beyond(c, d)
      BY <1>3, <2>1, <3>1
    <3>6. t <= u /\ u <= v /\ c.active = b.active /\ d.active = b.active
      BY <3>3, <3>5 DEF Beyond
    <3>7. \A o \in Offsets : o < t => o < u
      BY <3>4, <3>6, BoundsAssumption DEF Offsets
    <3>8. b.dirty # {} => d.dirty # {}
      BY <3>5 DEF Beyond
    <3>9. d.gen = b.gen /\ t <= v
      BY <3>4, <3>5, <3>6 DEF Beyond
    <3>10. ASSUME NEW a \in Two, NEW o \in Offsets, a # b.active \/ o < t
           PROVE  /\ d.chunk[a][o] = b.chunk[a][o]
                  /\ <<a, o>> \in d.unsynced => <<a, o>> \in b.unsynced
      <4>1. a # c.active \/ o < c.tail[c.active]
        BY <3>3, <3>6, <3>7, <3>10
      <4>2. /\ c.chunk[a][o] = b.chunk[a][o]
            /\ <<a, o>> \in c.unsynced => <<a, o>> \in b.unsynced
        BY <3>3, <3>5, <3>10 DEF Beyond
      <4>3. /\ d.chunk[a][o] = c.chunk[a][o]
            /\ <<a, o>> \in d.unsynced => <<a, o>> \in c.unsynced
        BY <3>5, <4>1 DEF Beyond
      <4> QED
        BY <4>2, <4>3
    <3> QED
      BY <3>1, <3>3, <3>6, <3>8, <3>9, <3>10 DEF Beyond
  <2> QED
    BY <2>1, <2>2, <2>3
<1> QED
  BY <1>6, <1>7, <1>8

\* write_value() keeps the invariant, and the writer's identity.
LEMMA WriteValueStep ==
    ASSUME SInv, NEW g \in Generations, write_value(g)
    PROVE  SInv' /\ SameWriter(writer, writer')
<1>1. TokenInv /\ ValueInv /\ SlotTypes /\ TransactionInv /\ ArenaInv
  BY DEF SInv, TokenInv
<1>2. /\ Ready /\ writer.active /\ writer.written < Expected(writer)
      /\ UNCHANGED <<up, faulted, handles, hcounter, tcounter, txn, readers, stored, appending,
                     seen>>
  BY DEF write_value, WriterOf
<1>3. PICK p : p = [w |-> writer, b |-> bank]
  OBVIOUS
<1>4. PICK q \in WriteOutcomes(p) : writer' = q.w /\ bank' = q.b
  BY <1>3 DEF write_value
<1>5. /\ bank \in Banks /\ writer \in WriterSlot /\ WriterIn(bank, writer)
      /\ stored \in [Keys -> Value] /\ StoredIn(bank, stored)
      /\ StagedIn(bank, txn.muts, appending) /\ ReadersIn(bank, readers)
      /\ txn.muts \in [Keys -> StagedValue] /\ readers \in [ReaderSlots -> ReaderSlot]
      /\ appending \in BOOLEAN
  BY <1>1, TxnFields DEF ValueInv, SlotTypes
<1>6. p \in [w : WriterSlot, b : Banks] /\ p.w = writer /\ p.b = bank
  BY <1>3, <1>5
<1>7. /\ writer' \in WriterSlot /\ SameWriter(writer, writer') /\ WriterIn(bank', writer')
      /\ bank' \in Banks
      /\ StoredIn(bank', stored) /\ StagedIn(bank', txn.muts, appending)
      /\ ReadersIn(bank', readers)
  <2>1. CASE writer.size = 0
    <3>1. writer.written = 0 /\ writer.held = 0 /\ writer.held < 2
      <4>1. writer.written < 1 /\ writer.written \in Nat /\ writer.held = 0
        BY <1>2, <1>5, <2>1, WriterFields DEF Expected, WriterIn
      <4> QED
        BY <4>1
    <3>2. q = Buffered(p)
      BY <1>4, <1>6, <2>1, BufferedParts, <3>1 DEF WriteOutcomes, FlushDue, SameWriter
    <3>3. /\ writer' \in WriterSlot /\ SameWriter(writer, writer') /\ bank' = bank
          /\ writer'.written = 1 /\ writer'.held = 0
      BY <1>4, <1>6, <2>1, <3>1, <3>2, BufferedParts
    <3>4. writer'.size = 0 /\ writer'.active
      BY <1>2, <2>1, <3>3 DEF SameWriter
    <3>5. WriterIn(bank', writer')
      BY <3>3, <3>4 DEF WriterIn
    <3> QED
      BY <1>5, <3>3, <3>5
  <2>2. CASE writer.size # 0
    <3>1. Writes(p) /\ p.w.written < p.w.size
      BY <1>2, <1>5, <1>6, <2>2 DEF Writes, WriterIn, Expected
    <3>2. Writes(q) /\ SameWriter(writer, writer') /\ Beyond(bank, bank')
      BY <1>4, <1>6, <3>1, WriteKeeps
    <3>3. writer' \in WriterSlot /\ bank' \in Banks /\ WriterIn(bank', writer')
      BY <1>4, <3>2 DEF Writes, WriterIn
    <3> QED
      BY <1>5, <3>2, <3>3, BeyondValues
  <2> QED
    BY <2>1, <2>2
<1>8. Within
  BY <1>1, <1>2, <1>7 DEF Within, SlotTypes, TransactionInv, ArenaInv, SameOwner, SameWriter, Ready
<1>9. TokenInv'
  BY <1>1, <1>2, <1>8, TokensKept, CountersFrame
<1>10. ValueInv'
  BY <1>2, <1>5, <1>7, ValueStep
<1> QED
  BY <1>7, <1>9, <1>10 DEF SInv

\* The value that a finished writer wrote.
LEMMA WrittenReads ==
    ASSUME NEW b \in Banks, NEW w \in WriterSlot, w.size # 0, WritesIn(b, w),
           w.written = w.size, w.held = 0
    PROVE  /\ WrittenRef(w) \in Reference /\ ReadsIn(b, WrittenRef(w))
           /\ w.first + Chunks(w.size) = w.next
<1>1. PICK r, n, f, l : r = WrittenRef(w) /\ n = w.next /\ f = w.first /\ l = n - f
  OBVIOUS
<1>2. /\ n \in Nat /\ f \in Nat /\ w.size \in Nat /\ Chunks(w.size) \in Nat
      /\ 2 * Chunks(w.size) >= w.size /\ 2 * Chunks(w.size) <= w.size + 1 /\ w.size \in Sizes
      /\ w.bgen \in Nat /\ w.gen \in Nat /\ w.bank \in Two
  BY <1>1, WriterFields
<1>3. r \in Reference /\ r.bank = w.bank /\ r.first = f /\ r.size = w.size
  BY <1>1, <1>2 DEF WrittenRef, Reference
<1>4. f <= n /\ l \in Nat /\ (w.size = 2 * l \/ w.size + 1 = 2 * l)
  BY <1>1, <1>2 DEF WritesIn
<1>5. Chunks(w.size) = l
  BY <1>2, <1>4
<1>6. f + Chunks(w.size) = n
  BY <1>1, <1>2, <1>5
<1>7. ReadsIn(b, r)
  <2>1. ASSUME NEW i \in 0 .. (Chunks(r.size) - 1)
        PROVE  r.first + i < BankChunks /\ b.chunk[r.bank][r.first + i] = ChunkOf(r, i)
    <3>1. i \in 0 .. (n - f - 1)
      BY <1>1, <1>3, <1>5, <2>1
    <3>2. b.chunk[w.bank][f + i] = ChunkOf(r, i)
      BY <1>1, <3>1 DEF WritesIn
    <3>3. f + i < BankChunks
      <4>1. f + Chunks(w.size) <= BankChunks
        BY <1>1 DEF WritesIn
      <4> QED
        BY <1>2, <1>3, <2>1, <4>1, BoundsAssumption
    <3> QED
      BY <1>3, <3>2, <3>3
  <2> QED
    BY <2>1 DEF ReadsIn
<1> QED
  BY <1>1, <1>3, <1>6, <1>7

\* The chunks that become reserved.
LEMMA ReservedBank ==
    ASSUME NEW b \in Banks, NEW t \in 0 .. BankChunks, b.tail[b.active] <= t
    PROVE  LET c == Reserved(b, b.active, t)
           IN  /\ c \in Banks /\ Beyond(b, c) /\ c.active = b.active /\ c.gen = b.gen
               /\ c.tail[b.active] = t /\ c.chunk = b.chunk /\ c.dirty # {}
<1>1. PICK c, a, d : c = Reserved(b, b.active, t) /\ a = b.active /\ d = b.dirty \cup {b.active}
  OBVIOUS
<1>2. a \in Two /\ d \in SUBSET Two /\ d # {}
  BY <1>1 DEF Banks
<1>3. c = [b EXCEPT !.tail[a] = t, !.dirty = d]
  BY <1>1 DEF Reserved
<1>4. /\ c \in Banks /\ c.active = b.active /\ c.gen = b.gen /\ c.tail[a] = t
      /\ c.chunk = b.chunk /\ c.dirty = d /\ c.unsynced = b.unsynced
  <2>1. PICK u : u = [b.tail EXCEPT ![a] = t]
    OBVIOUS
  <2>2. u \in [Two -> 0 .. BankChunks] /\ u[a] = t
    <3>1. b.tail \in [Two -> 0 .. BankChunks]
      BY DEF Banks
    <3> QED
      BY <1>2, <2>1, <3>1
  <2>3. c = [b EXCEPT !.tail = u, !.dirty = d]
    BY <1>3, <2>1
  <2>4. /\ c \in Banks /\ c.active = b.active /\ c.gen = b.gen /\ c.tail = u
        /\ c.chunk = b.chunk /\ c.dirty = d /\ c.unsynced = b.unsynced
    BY ONLY b \in Banks, <1>2, <2>2, <2>3 DEF Banks
  <2> QED
    BY <2>2, <2>4
<1>5. Beyond(b, c)
  BY <1>1, <1>2, <1>4 DEF Beyond
<1> QED
  BY <1>1, <1>2, <1>4, <1>5

\* Staging a new value at k under the banks b, from the staged values t.
LEMMA StagedReference ==
    ASSUME NEW t \in TxnSlot, \A l \in Keys : HasBytes(t, l), NEW k \in Keys, NEW r \in Reference,
           NEW b \in Banks, StagedIn(b, t.muts, FALSE), SettledIn(b, r), b.dirty # {}
    PROVE  LET q == StagedWithout(t, k, r)
           IN  /\ q \in TxnSlot /\ SameOwner(t, q) /\ Len(q.arena) <= Len(t.arena)
               /\ \A j \in Keys : HasBytes(q, j)
               /\ StagedIn(b, q.muts, FALSE)
<1>1. PICK q : q = StagedWithout(t, k, r)
  OBVIOUS
<1>2. r \in StagedValue /\ ~InArena(r)
  <2>1. r \in StagedValue
    BY DEF StagedValue, Value
  <2> QED
    BY <2>1, ValueKinds
<1>3. Restaged(t, q, k) /\ q.muts[k] = r /\ Len(q.arena) <= Len(t.arena)
  BY <1>1, <1>2, StageWithout
<1>4. StagedIn(b, q.muts, FALSE)
  BY <1>3, RestagedValues
<1> QED
  BY <1>1, <1>3, <1>4 DEF Restaged

\* finish_value_write() keeps the invariant: what it reserves and stages was
\* written completely.
LEMMA FinishStep ==
    ASSUME SInv, NEW g \in Generations, finish_value_write(g)
    PROVE  SInv'
<1>1. TokenInv /\ ValueInv /\ SlotTypes /\ TransactionInv /\ ArenaInv
  BY DEF SInv, TokenInv
<1>2. /\ Ready /\ writer.active /\ writer.written = Expected(writer) /\ writer.held = 0
      /\ writer' = Cleared(writer, NoWriter)
      /\ UNCHANGED <<up, faulted, handles, hcounter, tcounter, readers, stored, appending, seen>>
  BY DEF finish_value_write, WriterOf
<1>3. /\ bank \in Banks /\ writer \in WriterSlot /\ WriterIn(bank, writer)
      /\ stored \in [Keys -> Value] /\ StoredIn(bank, stored)
      /\ StagedIn(bank, txn.muts, appending) /\ ReadersIn(bank, readers)
      /\ txn.muts \in [Keys -> StagedValue] /\ readers \in [ReaderSlots -> ReaderSlot]
      /\ txn \in TxnSlot /\ (\A k \in Keys : HasBytes(txn, k))
      /\ Len(txn.arena) <= StagingSize /\ Len(txn.arena) \in Nat
      /\ appending = FALSE /\ writer.key \in Keys /\ txn.active
  BY <1>1, <1>2, TxnFields DEF ValueInv, SlotTypes, ArenaInv, TransactionInv, Ready
<1>4. writer' \in WriterSlot /\ ~writer'.active /\ \A b : WriterIn(b, writer')
  BY <1>2, <1>3, ClearedWriter
<1> DEFINE Kept == /\ txn' \in TxnSlot /\ SameOwner(txn, txn') /\ Len(txn'.arena) <= StagingSize
                   /\ \A j \in Keys : HasBytes(txn', j)
                   /\ bank' \in Banks /\ StoredIn(bank', stored) /\ ReadersIn(bank', readers)
                   /\ StagedIn(bank', txn'.muts, FALSE)
<1>5. ASSUME UNCHANGED <<txn, bank>> PROVE Kept
  <2>1. Kept
    BY <1>3, <1>5 DEF SameOwner
  <2> QED
    BY <2>1
<1>6. ASSUME writer.size = 0 /\ bank' = bank,
             \E n \in InlineSizes :
                StagingFits(writer.key, n) /\ txn' = StagedWithin(txn, writer.key, n)
      PROVE  Kept
  <2>1. PICK k : k = writer.key
    OBVIOUS
  <2>2. PICK n \in InlineSizes : StagingFits(k, n) /\ txn' = StagedWithin(txn, k, n)
    BY <1>6, <2>1
  <2>3. k \in Keys
    BY <1>3, <2>1
  <2>4. /\ Restaged(txn, txn', k) /\ InArena(txn'.muts[k])
        /\ Len(txn'.arena) = Len(txn.arena) - StagedBytes(txn.muts[k]) + n
    BY <1>3, <2>2, <2>3, StageWithin
  <2>5. Len(txn'.arena) <= StagingSize
    BY <2>2, <2>4 DEF StagingFits
  <2>6. ~External(txn'.muts[k])
    BY <2>3, <2>4, TxnFields, ValueKinds DEF Restaged
  <2>7. StagedIn(bank, txn'.muts, FALSE)
    BY <1>3, <2>3, <2>4, <2>6, RestagedValues
  <2>8. Kept
    BY <1>3, <1>6, <2>4, <2>5, <2>7 DEF Restaged
  <2> QED
    BY <2>8
<1>7. ASSUME writer.size # 0,
             txn' = StagedWithout(txn, writer.key, WrittenRef(writer)),
             bank' = Reserved(bank, writer.bank, writer.next)
      PROVE  Kept
  <2>1. PICK r : r = WrittenRef(writer)
    OBVIOUS
  <2>2. WritesIn(bank, writer) /\ writer.written = writer.size
    BY <1>2, <1>3, <1>7 DEF WriterIn, Expected
  <2>3. r \in Reference /\ ReadsIn(bank, r) /\ writer.first + Chunks(writer.size) = writer.next
    BY <1>2, <1>3, <1>7, <2>1, <2>2, WrittenReads
  <2>4. /\ r.bank = bank.active /\ r.gen = bank.gen[bank.active] /\ writer.bank = bank.active
        /\ r.first + Chunks(r.size) = writer.next /\ bank.tail[bank.active] <= writer.next
        /\ writer.next \in 0 .. BankChunks
    BY <1>3, <2>1, <2>2, <2>3 DEF WritesIn, WrittenRef, WriterSlot
  <2>5. /\ bank' \in Banks /\ Beyond(bank, bank') /\ bank'.active = bank.active
        /\ bank'.gen = bank.gen /\ bank'.tail[bank.active] = writer.next
        /\ bank'.chunk = bank.chunk /\ bank'.dirty # {}
    BY <1>3, <1>7, <2>4, ReservedBank
  <2>6. SettledIn(bank', r)
    <3>1. ReadsIn(bank', r)
      BY <2>3, <2>5 DEF ReadsIn
    <3>2. r.first + Chunks(r.size) <= bank'.tail[bank'.active]
      BY <2>4, <2>5, BoundsAssumption
    <3> QED
      BY <2>4, <2>5, <3>1, <3>2 DEF SettledIn
  <2>7. StoredIn(bank', stored) /\ StagedIn(bank', txn.muts, FALSE) /\ ReadersIn(bank', readers)
    BY <1>3, <2>5, BeyondValues
  <2>8. /\ txn' \in TxnSlot /\ SameOwner(txn, txn') /\ Len(txn'.arena) <= Len(txn.arena)
        /\ \A j \in Keys : HasBytes(txn', j)
        /\ StagedIn(bank', txn'.muts, FALSE)
    BY <1>3, <1>7, <2>1, <2>3, <2>5, <2>6, <2>7, StagedReference
  <2>9. Len(txn'.arena) <= StagingSize
    BY <1>3, <2>8, TxnFields, BoundsAssumption
  <2>10. Kept
    BY <2>5, <2>7, <2>8, <2>9
  <2> QED
    BY <2>10
<1>8. Kept
  <2> HIDE DEF Kept
  <2>1. \/ UNCHANGED <<txn, bank>>
        \/ /\ writer.size = 0 /\ bank' = bank
           /\ \E n \in InlineSizes : StagingFits(writer.key, n) /\ txn' = StagedWithin(txn, writer.key, n)
        \/ /\ writer.size # 0
           /\ txn' = StagedWithout(txn, writer.key, WrittenRef(writer))
           /\ bank' = Reserved(bank, writer.bank, writer.next)
    <3>1. PICK n \in (IF writer.size = 0 THEN InlineSizes ELSE {0}) :
            IF /\ TransactionOf(writer.txn)
               /\ StagingFits(writer.key, n)
               /\ writer.size # 0 => MatchesActiveBank(WrittenRef(writer), BankChunks)
            THEN IF writer.size = 0
                 THEN txn' = StagedWithin(txn, writer.key, n) /\ UNCHANGED bank
                 ELSE /\ txn' = StagedWithout(txn, writer.key, WrittenRef(writer))
                      /\ bank' = Reserved(bank, writer.bank, writer.next)
            ELSE UNCHANGED <<txn, bank>>
      BY DEF finish_value_write
    <3>2. CASE writer.size = 0
      <4>1. n \in InlineSizes
        BY <3>1, <3>2
      <4> QED
        BY <3>1, <3>2, <4>1
    <3>3. CASE writer.size # 0
      BY <3>1, <3>3
    <3> QED
      BY <3>2, <3>3
  <2> QED
    BY <1>5, <1>6, <1>7, <2>1
<1>9. Within
  BY <1>2, <1>3, <1>4, <1>8, <1>1 DEF Within, SlotTypes, Ready
<1>10. TokenInv'
  BY <1>1, <1>2, <1>9, TokensKept, CountersFrame
<1>11. ValueInv'
  BY <1>2, <1>3, <1>4, <1>8, ValueStep
<1> QED
  BY <1>10, <1>11 DEF SInv

-----------------------------------------------------------------------------
(* Calls that may compact.                                                 *)

\* Every compaction that a call may start has a good outcome.
LEMMA OutcomeGood ==
    ASSUME SInv, NEW c \in {NotCompacted} \cup CompactionOutcomes
    PROVE  GoodOutcome(c)
<1>1. ValuesReachable
  BY DEF SInv, TokenInv, SlotTypes, TransactionInv, ValueInv, ValuesReachable, ValueTypes
<1> QED
  BY <1>1, CompactionKeepsValues

\* The transaction with the references that a compaction left it.
WithMuts(c) == [txn EXCEPT !.muts = c.muts]

\* The references move, what is staged inline stays.
LEMMA OutcomeTransaction ==
    ASSUME SInv, NEW c, GoodOutcome(c)
    PROVE  /\ WithMuts(c) \in TxnSlot /\ SameOwner(txn, WithMuts(c))
           /\ WithMuts(c).arena = txn.arena /\ WithMuts(c).muts = c.muts
           /\ Len(WithMuts(c).arena) <= StagingSize
           /\ \A k \in Keys : HasBytes(WithMuts(c), k)
<1>1. PICK t, m : t = WithMuts(c) /\ m = c.muts
  OBVIOUS
<1>2. txn \in TxnSlot /\ m \in [Keys -> Value \cup StagedInline \cup {Unstaged}]
  BY <1>1 DEF SInv, TokenInv, SlotTypes, GoodOutcome, StagedValue
<1>3. t = [txn EXCEPT !.muts = m]
  BY <1>1 DEF WithMuts
<1>4. t \in TxnSlot /\ SameOwner(txn, t) /\ t.arena = txn.arena /\ t.muts = m
  BY ONLY <1>2, <1>3 DEF TxnSlot, SameOwner
<1>5. ASSUME NEW k \in Keys PROVE HasBytes(t, k)
  <2>1. m[k] \in StagedValue /\ txn.muts[k] \in StagedValue
    BY <1>2, TxnFields DEF StagedValue
  <2>2. /\ ~External(txn.muts[k]) => m[k] = txn.muts[k]
        /\ External(txn.muts[k]) => External(m[k])
    BY <1>1 DEF GoodOutcome
  <2>3. InArena(m[k]) => m[k] = txn.muts[k]
    BY <2>1, <2>2, ValueKinds
  <2>4. HasBytes(txn, k)
    BY DEF SInv, TokenInv, ArenaInv
  <2> QED
    BY <1>4, <2>3, <2>4 DEF HasBytes
<1> QED
  BY <1>1, <1>4, <1>5 DEF SInv, TokenInv, ArenaInv

\* The buffer of a writer that is not active holds nothing to spoil.
LEMMA ScribbledWriter ==
    ASSUME SInv, ~writer.active, NEW c, GoodOutcome(c)
    PROVE  /\ Scribbled(c) \in WriterSlot /\ ~Scribbled(c).active
           /\ \A b : WriterIn(b, Scribbled(c))
<1>1. PICK w, x : w = Scribbled(c) /\ x = (writer.intact /\ ~(writer.active /\ c.copied))
  OBVIOUS
<1>2. writer \in WriterSlot /\ writer.intact \in BOOLEAN
  BY DEF SInv, TokenInv, SlotTypes, WriterSlot
<1>3. x \in BOOLEAN
  BY <1>1
<1>4. w = [writer EXCEPT !.intact = x]
  BY <1>1 DEF Scribbled
<1>5. /\ w \in WriterSlot /\ w.active = writer.active /\ w.size = writer.size
      /\ w.written = writer.written /\ w.held = writer.held
  BY ONLY <1>2, <1>3, <1>4 DEF WriterSlot
<1>6. writer.size = 0 /\ writer.written <= 1 /\ writer.held = 0
  BY DEF SInv, ValueInv, WriterIn
<1> QED
  BY <1>1, <1>5, <1>6 DEF WriterIn

\* A writer begins at the tail of the active bank.
LEMMA NewWriterStarts ==
    ASSUME NEW g \in 0 .. MaxHandleGeneration, NEW k \in Keys, NEW n \in Sizes \cup {0},
           NEW b \in Banks, n = 0 \/ Room(b, n), hcounter \in 0 .. MaxHandleGeneration
    PROVE  /\ NewWriter(g, k, n, b) \in WriterSlot /\ NewWriter(g, k, n, b).active
           /\ NewWriter(g, k, n, b).txn = g /\ NewWriter(g, k, n, b).key = k
           /\ NewWriter(g, k, n, b).gen = hcounter
           /\ WriterIn(b, NewWriter(g, k, n, b))
<1>1. PICK w, v, x, a, e :
        /\ w = NewWriter(g, k, n, b) /\ v = NoWriter
        /\ x = IF n = 0 THEN 0 ELSE b.tail[b.active]
        /\ a = IF n = 0 THEN 0 ELSE b.active
        /\ e = IF n = 0 THEN 0 ELSE b.gen[b.active]
  OBVIOUS
<1>2. x \in 0 .. BankChunks /\ a \in Two /\ e \in Nat
  <2>1. /\ b.active \in Two /\ b.tail[b.active] \in 0 .. BankChunks
        /\ b.gen[b.active] \in 1 .. MaxBankGeneration
    BY DEF Banks
  <2>2. b.gen[b.active] \in Nat
    BY <2>1, BoundsAssumption
  <2> QED
    BY <1>1, <2>1, <2>2, BoundsAssumption DEF Two
<1>3. v \in WriterSlot /\ v.written = 0 /\ v.held = 0 /\ v.intact = TRUE
  BY <1>1, FreeSlots DEF NoWriter
<1>4. w = [v EXCEPT !.gen = hcounter, !.active = TRUE, !.txn = g, !.key = k, !.size = n,
                    !.next = x, !.bank = a, !.bgen = e, !.first = x]
  BY <1>1 DEF NewWriter
<1>5. k \in Keys \cup {0} /\ TRUE \in BOOLEAN
  OBVIOUS
<1>6. w \in WriterSlot
  BY ONLY <1>2, <1>3, <1>4, <1>5, g \in 0 .. MaxHandleGeneration,
     hcounter \in 0 .. MaxHandleGeneration, n \in Sizes \cup {0} DEF WriterSlot
<1>7. /\ w.active = TRUE /\ w.txn = g /\ w.key = k /\ w.gen = hcounter /\ w.size = n
      /\ w.next = x /\ w.bank = a /\ w.bgen = e /\ w.first = x
      /\ w.written = 0 /\ w.held = 0 /\ w.intact = TRUE
  BY ONLY <1>3, <1>4 DEF WriterSlot
<1>8. n # 0 => WritesIn(b, w)
  <2>1. SUFFICES ASSUME n # 0 PROVE WritesIn(b, w)
    OBVIOUS
  <2>2. n \in Nat /\ x \in Nat
    BY <1>2, <1>6, <1>7, WriterFields
  <2>3. w.first + Chunks(w.size) <= BankChunks
    BY <1>1, <1>7, <2>1 DEF Room
  <2>4. w.written = 2 * (w.next - w.first) + w.held /\ w.written <= w.size
    BY <1>7, <2>2
  <2>5. 0 .. (w.next - w.first - 1) = {}
    BY <1>7, <2>2
  <2>6. w.bank = b.active /\ w.bgen = b.gen[b.active] /\ w.first = b.tail[b.active]
    BY <1>1, <1>7, <2>1
  <2>7. w.first <= w.next /\ w.intact
    BY <1>7, <2>2
  <2> QED
    BY <2>3, <2>4, <2>5, <2>6, <2>7 DEF WritesIn
<1>9. WriterIn(b, w)
  BY <1>7, <1>8 DEF WriterIn
<1> QED
  BY <1>1, <1>6, <1>7, <1>9

\* begin_value_write() keeps the invariant, whether it compacts or fails.
LEMMA BeginValueWriteStep ==
    ASSUME SInv, NEW g \in Generations, begin_value_write(g)
    PROVE  SInv'
<1>1. TokenInv /\ ValueInv /\ SlotTypes /\ CounterInv /\ TransactionInv /\ ArenaInv
  BY DEF SInv, TokenInv
<1>2. /\ Ready /\ TransactionOf(g) /\ ~writer.active
      /\ UNCHANGED <<up, handles, tcounter, readers, appending>>
  BY DEF begin_value_write
<1> DEFINE Begins(n, c) ==
        /\ bank' = c.bank /\ faulted' = c.faulted /\ stored' = c.stored
        /\ txn' = [txn EXCEPT !.muts = c.muts]
        /\ IF c.ok /\ (n = 0 \/ Room(c.bank, n))
           THEN TakeGeneration /\ \E k \in Keys : writer' = NewWriter(g, k, n, c.bank)
           ELSE UNCHANGED <<hcounter, seen>> /\ writer' = Scribbled(c)
<1>3a. PICK n \in Sizes \cup {0} : \E c \in BeforeWriting(n) : Begins(n, c)
  BY DEF begin_value_write
<1>3. PICK c \in BeforeWriting(n) : Begins(n, c)
  BY <1>3a
<1>4. c \in {NotCompacted} \cup CompactionOutcomes
  BY <1>3 DEF BeforeWriting
<1>5. GoodOutcome(c)
  BY <1>4, OutcomeGood
<1>6. txn' = WithMuts(c)
  BY <1>3 DEF WithMuts
<1>7. /\ txn' \in TxnSlot /\ SameOwner(txn, txn') /\ txn'.muts = c.muts
      /\ Len(txn'.arena) <= StagingSize /\ \A k \in Keys : HasBytes(txn', k)
  BY <1>5, <1>6, OutcomeTransaction
<1>8. /\ writer' \in WriterSlot /\ WriterIn(bank', writer')
      /\ writer'.active => writer'.txn = txn.gen /\ writer'.key \in Keys
      /\ hcounter' \in 0 .. MaxHandleGeneration /\ seen' \in [h : Nat, t : Nat] /\ CounterInv'
  <2>1. CASE c.ok /\ (n = 0 \/ Room(c.bank, n))
    <3>1. TakeGeneration
      BY <1>3, <2>1
    <3>2. PICK k \in Keys : writer' = NewWriter(g, k, n, c.bank)
      BY <1>3, <2>1
    <3>3. /\ hcounter \in 1 .. MaxHandleGeneration
          /\ hcounter' \in 0 .. MaxHandleGeneration
          /\ seen' \in [h : Nat, t : Nat] /\ seen'.t = seen.t
          /\ hcounter' # 0 => seen'.h < hcounter'
      BY <1>1, <3>1, GenerationTaken
    <3>4. g \in 0 .. MaxHandleGeneration /\ c.bank \in Banks /\ hcounter \in 0 .. MaxHandleGeneration
      BY <1>1, <1>5, BoundsAssumption DEF Generations, GoodOutcome, SlotTypes
    <3>5. /\ writer' \in WriterSlot /\ writer'.txn = g /\ writer'.key = k
          /\ WriterIn(c.bank, writer')
      BY <2>1, <3>2, <3>4, NewWriterStarts
    <3>6. txn.gen = g
      BY <1>2 DEF TransactionOf
    <3>7. CounterInv'
      BY <1>1, <1>2, <3>3 DEF CounterInv
    <3> QED
      BY <1>3, <3>3, <3>5, <3>6, <3>7
  <2>2. CASE ~(c.ok /\ (n = 0 \/ Room(c.bank, n)))
    <3>1. UNCHANGED <<hcounter, seen>> /\ writer' = Scribbled(c)
      BY <1>3, <2>2
    <3>2. writer' \in WriterSlot /\ ~writer'.active /\ \A b : WriterIn(b, writer')
      BY <1>2, <1>5, <3>1, ScribbledWriter
    <3> QED
      BY <1>1, <1>2, <3>1, <3>2, CountersFrame
  <2> QED
    BY <2>1, <2>2
<1>9. txn.active /\ up /\ appending = FALSE
  BY <1>1, <1>2 DEF TransactionOf, Ready, SlotTypes
<1>10. faulted' \in BOOLEAN
  BY <1>3, <1>5 DEF GoodOutcome
<1>11. Within
  BY <1>2, <1>7, <1>8, <1>9, <1>10 DEF Within
<1>12. TokenInv'
  BY <1>1, <1>8, <1>11, TokensKept
<1>13. ValueInv'
  BY <1>2, <1>3, <1>5, <1>7, <1>8, ValueStep DEF GoodOutcome
<1> QED
  BY <1>12, <1>13 DEF SInv

\* What set() has written of a large value when it gives up or is done lies
\* behind the tail.
LEMMA LaidBank ==
    ASSUME NEW b \in Banks, NEW r \in Reference, r.bank = b.active, r.gen = b.gen[b.active],
           r.first = b.tail[b.active], r.first + Chunks(r.size) <= BankChunks,
           NEW m \in 0 .. Chunks(r.size)
    PROVE  LET c == Laid(b, r, m)
           IN  /\ c \in Banks /\ Beyond(b, c) /\ c.active = b.active /\ c.gen = b.gen
               /\ c.tail = b.tail
               /\ m = Chunks(r.size) => ReadsIn(c, r)
<1>1. PICK c, a, f, h, u : /\ c = Laid(b, r, m) /\ a = b.active /\ f = r.first
                           /\ h = [o \in Offsets |-> IF f <= o /\ o < f + m
                                     THEN ChunkOf(r, o - f) ELSE b.chunk[a][o]]
                           /\ u = b.unsynced \cup ({a} \X (f .. (f + m - 1)))
  OBVIOUS
<1>2. /\ a \in Two /\ f \in Nat /\ r.gen \in Nat /\ r.id \in Nat /\ Chunks(r.size) \in Nat
      /\ m \in Nat /\ m <= Chunks(r.size) /\ f + m <= BankChunks
  BY <1>1, ReferenceFields, BoundsAssumption DEF Banks
<1>3. /\ b.chunk \in [Two -> [Offsets -> Chunk]] /\ b.unsynced \in SUBSET (Two \X Offsets)
  BY DEF Banks
<1>4. h \in [Offsets -> Chunk]
  <2>1. ASSUME NEW o \in Offsets PROVE h[o] \in Chunk
    <3>1. CASE f <= o /\ o < f + m
      <4>1. o - f \in Nat /\ h[o] = ChunkOf(r, o - f)
        BY <1>1, <1>2, <3>1, BoundsAssumption, SMTT(30) DEF Offsets
      <4> QED
        BY <1>1, <1>2, <4>1 DEF ChunkOf, Chunk
    <3>2. CASE ~(f <= o /\ o < f + m)
      BY <1>1, <1>2, <1>3, <3>2
    <3> QED
      BY <3>1, <3>2
  <2>2. h = [o \in Offsets |-> h[o]]
    BY <1>1
  <2> QED
    BY <2>1, <2>2
<1>5. u \in SUBSET (Two \X Offsets)
  <2>1. f .. (f + m - 1) \subseteq Offsets
    BY <1>2, BoundsAssumption DEF Offsets
  <2> QED
    BY <1>1, <1>2, <1>3, <2>1
<1>6. PICK t : t = [b.chunk EXCEPT ![a] = h]
  OBVIOUS
<1>7. /\ t \in [Two -> [Offsets -> Chunk]] /\ t[a] = h
      /\ \A d \in Two : d # a => t[d] = b.chunk[d]
  BY <1>2, <1>3, <1>4, <1>6
<1>8. c = [b EXCEPT !.chunk = t, !.unsynced = u]
  BY <1>1, <1>6 DEF Laid
<1>9. /\ c \in Banks /\ c.active = b.active /\ c.gen = b.gen /\ c.tail = b.tail
      /\ c.chunk = t /\ c.unsynced = u /\ c.dirty = b.dirty
  BY ONLY b \in Banks, <1>5, <1>7, <1>8 DEF Banks
<1>10. Beyond(b, c)
  <2>1. b.tail[b.active] <= c.tail[b.active]
    BY <1>1, <1>2, <1>9
  <2>2. ASSUME NEW d \in Two, NEW o \in Offsets, d # a \/ o < f
        PROVE  c.chunk[d][o] = b.chunk[d][o] /\ (<<d, o>> \in c.unsynced => <<d, o>> \in b.unsynced)
    <3>1. <<d, o>> \notin {a} \X (f .. (f + m - 1))
      BY <1>2, <2>2, BoundsAssumption DEF Offsets
    <3>2. c.chunk[d][o] = b.chunk[d][o]
      <4>1. CASE d # a
        BY <1>7, <1>9, <4>1
      <4>2. CASE d = a /\ o < f
        <5>1. ~(f <= o)
          BY <1>2, <4>2, BoundsAssumption DEF Offsets
        <5> QED
          BY <1>1, <1>7, <1>9, <4>2, <5>1
      <4> QED
        BY <2>2, <4>1, <4>2
    <3> QED
      BY <1>1, <1>9, <3>1, <3>2
  <2> QED
    BY <1>1, <1>9, <2>1, <2>2 DEF Beyond
<1>11. ASSUME m = Chunks(r.size) PROVE ReadsIn(c, r)
  <2>1. ASSUME NEW i \in 0 .. (Chunks(r.size) - 1)
        PROVE  r.first + i < BankChunks /\ c.chunk[r.bank][r.first + i] = ChunkOf(r, i)
    <3>1. /\ f + i < BankChunks /\ f + i \in Offsets /\ f <= f + i /\ f + i < f + m
          /\ (f + i) - f = i
      BY <1>2, <1>11, <2>1, BoundsAssumption DEF Offsets
    <3>2. h[f + i] = ChunkOf(r, (f + i) - f)
      BY <1>1, <3>1
    <3> QED
      BY <1>1, <1>7, <1>9, <3>1, <3>2
  <2> QED
    BY <2>1 DEF ReadsIn
<1> QED
  BY <1>1, <1>9, <1>10, <1>11

\* set() of a large value keeps the invariant, wherever it fails.
LEMMA SetLargeStep ==
    ASSUME SInv, NEW g \in Generations, set_large(g)
    PROVE  SInv'
<1>1. TokenInv /\ ValueInv /\ SlotTypes /\ CounterInv /\ TransactionInv /\ ArenaInv
  BY DEF SInv, TokenInv
<1>2. /\ Ready /\ TransactionOf(g) /\ ~writer.active
      /\ UNCHANGED <<up, handles, tcounter, readers, appending>>
  BY DEF set_large
<1> DEFINE ref(k, n, c) == WrittenRef(NewWriter(g, k, n, c.bank))
           Written(k, n, c) ==
             /\ TakeGeneration
             /\ writer' = [NoWriter EXCEPT !.gen = hcounter]
             /\ \/ /\ txn' = StagedWithout(WithMuts(c), k, ref(k, n, c))
                   /\ bank' = Reserved(Laid(c.bank, ref(k, n, c), Chunks(n)), ref(k, n, c).bank,
                                       ref(k, n, c).first + Chunks(n))
                \/ /\ \E m \in 0 .. Chunks(n) : bank' = Laid(c.bank, ref(k, n, c), m)
                   /\ txn' = WithMuts(c)
           Sets(k, n, c) ==
             /\ faulted' = c.faulted /\ stored' = c.stored
             /\ IF c.ok /\ Room(c.bank, n)
                THEN Written(k, n, c)
                ELSE /\ UNCHANGED <<hcounter, seen>> /\ writer' = Scribbled(c)
                     /\ bank' = c.bank /\ txn' = WithMuts(c)
<1>3. PICK k \in Keys, n \in Sizes : \E c \in BeforeWriting(n) : Sets(k, n, c)
  BY SMTT(30) DEF set_large, WithMuts
<1>4. PICK c \in BeforeWriting(n) : Sets(k, n, c)
  BY <1>3
<1>5. GoodOutcome(c)
  <2>1. c \in {NotCompacted} \cup CompactionOutcomes
    BY <1>4 DEF BeforeWriting
  <2> QED
    BY <2>1, OutcomeGood
<1>6. PICK t : t = WithMuts(c)
  OBVIOUS
<1>7. /\ t \in TxnSlot /\ SameOwner(txn, t) /\ t.muts = c.muts
      /\ Len(t.arena) <= StagingSize /\ \A l \in Keys : HasBytes(t, l)
  BY <1>5, <1>6, OutcomeTransaction
<1>8. txn.active /\ up /\ appending = FALSE
  BY <1>1, <1>2 DEF TransactionOf, Ready, SlotTypes
<1>9. /\ c.bank \in Banks /\ c.stored \in [Keys -> Value] /\ StoredIn(c.bank, c.stored)
      /\ t.muts \in [Keys -> StagedValue]
      /\ StagedIn(c.bank, t.muts, FALSE) /\ ReadersIn(c.bank, readers)
      /\ readers \in [ReaderSlots -> ReaderSlot] /\ c.faulted \in BOOLEAN
  BY <1>1, <1>5, <1>7, <1>8 DEF GoodOutcome, SlotTypes
<1> DEFINE Kept == /\ txn' \in TxnSlot /\ SameOwner(txn, txn') /\ Len(txn'.arena) <= StagingSize
                   /\ \A j \in Keys : HasBytes(txn', j)
                   /\ bank' \in Banks /\ StoredIn(bank', c.stored) /\ ReadersIn(bank', readers)
                   /\ StagedIn(bank', txn'.muts, FALSE)
                   /\ writer' \in WriterSlot /\ ~writer'.active /\ WriterIn(bank', writer')
                   /\ hcounter' \in 0 .. MaxHandleGeneration /\ seen' \in [h : Nat, t : Nat]
                   /\ CounterInv'
<1>10. ASSUME c.ok /\ Room(c.bank, n), Written(k, n, c) PROVE Kept
  <2>1. /\ hcounter \in 1 .. MaxHandleGeneration
        /\ hcounter' \in 0 .. MaxHandleGeneration
        /\ seen' \in [h : Nat, t : Nat] /\ seen'.t = seen.t
        /\ hcounter' # 0 => seen'.h < hcounter'
    BY <1>1, <1>10, GenerationTaken
  <2>2. CounterInv'
    BY <1>1, <1>2, <2>1 DEF CounterInv
  <2>3. writer' \in WriterSlot /\ ~writer'.active /\ \A b : WriterIn(b, writer')
    <3>1. PICK v : v = NoWriter
      OBVIOUS
    <3>2. /\ v \in WriterSlot /\ ~v.active /\ v.size = 0 /\ v.written = 0 /\ v.held = 0
      BY <3>1, FreeSlots DEF NoWriter
    <3>3. writer' = [v EXCEPT !.gen = hcounter] /\ hcounter \in 0 .. MaxHandleGeneration
      BY <1>1, <1>10, <3>1 DEF SlotTypes
    <3>4. /\ writer' \in WriterSlot /\ writer'.active = v.active /\ writer'.size = v.size
          /\ writer'.written = v.written /\ writer'.held = v.held
      BY ONLY <3>2, <3>3 DEF WriterSlot
    <3> QED
      BY <3>2, <3>4 DEF WriterIn
  <2>4. PICK r, w : w = NewWriter(g, k, n, c.bank) /\ r = WrittenRef(w)
    OBVIOUS
  <2>5. /\ w \in WriterSlot /\ w.active /\ WriterIn(c.bank, w)
    <3>1. g \in 0 .. MaxHandleGeneration /\ hcounter \in 0 .. MaxHandleGeneration
          /\ n \in Sizes \cup {0}
      BY <1>1, BoundsAssumption DEF Generations, SlotTypes
    <3> QED
      BY <1>9, <1>10, <2>4, <3>1, NewWriterStarts
  <2>6. n \in Nat /\ n # 0
    BY SizesAssumption
  <2>7. w.size = n /\ WritesIn(c.bank, w)
    <3>1. w.size = n
      BY <2>4 DEF NewWriter, NoWriter
    <3> QED
      BY <2>5, <2>6, <3>1 DEF WriterIn
  <2>8. /\ r \in Reference /\ r.size = n /\ r.bank = c.bank.active
        /\ r.gen = c.bank.gen[c.bank.active] /\ r.first = c.bank.tail[c.bank.active]
        /\ r.first + Chunks(r.size) <= BankChunks
    <3>1. w.bank \in Two /\ w.bgen \in Nat /\ w.first \in Nat /\ w.gen \in Nat
      BY <2>5, WriterFields
    <3>2. r \in Reference /\ r.size = n /\ r.bank = w.bank /\ r.gen = w.bgen /\ r.first = w.first
      BY <2>4, <2>7, <3>1 DEF WrittenRef, Reference
    <3> QED
      BY <2>7, <3>2 DEF WritesIn
  <2>9. ASSUME NEW m \in 0 .. Chunks(n)
        PROVE  LET d == Laid(c.bank, r, m)
               IN  /\ d \in Banks /\ d.active = c.bank.active /\ d.gen = c.bank.gen
                   /\ d.tail = c.bank.tail
                   /\ m = Chunks(r.size) => ReadsIn(d, r)
                   /\ StoredIn(d, c.stored) /\ StagedIn(d, t.muts, FALSE) /\ ReadersIn(d, readers)
    <3>1. PICK d : d = Laid(c.bank, r, m)
      OBVIOUS
    <3>2. /\ d \in Banks /\ Beyond(c.bank, d) /\ d.active = c.bank.active /\ d.gen = c.bank.gen
          /\ d.tail = c.bank.tail
          /\ m = Chunks(r.size) => ReadsIn(d, r)
      BY <1>9, <2>8, <3>1, LaidBank
    <3>3. StoredIn(d, c.stored) /\ StagedIn(d, t.muts, FALSE) /\ ReadersIn(d, readers)
      BY <1>9, <3>2, BeyondValues
    <3> QED
      BY <3>1, <3>2, <3>3
  <2>10. CASE /\ txn' = StagedWithout(t, k, r)
              /\ bank' = Reserved(Laid(c.bank, r, Chunks(n)), r.bank, r.first + Chunks(n))
    <3>1. PICK d, e : d = Laid(c.bank, r, Chunks(n)) /\ e = r.first + Chunks(n)
      OBVIOUS
    <3>2. Chunks(n) \in Nat /\ Chunks(n) \in 0 .. Chunks(n) /\ r.first \in Nat
      BY <2>8, ReferenceFields
    <3>3. /\ d \in Banks /\ d.active = c.bank.active /\ d.gen = c.bank.gen
          /\ d.tail = c.bank.tail /\ ReadsIn(d, r)
          /\ StoredIn(d, c.stored) /\ StagedIn(d, t.muts, FALSE) /\ ReadersIn(d, readers)
      BY <2>8, <2>9, <3>1, <3>2
    <3>4. e \in 0 .. BankChunks /\ d.tail[d.active] <= e /\ r.bank = d.active
      BY <2>8, <3>1, <3>2, <3>3, BoundsAssumption
    <3>5. bank' = Reserved(d, d.active, e)
      BY <2>10, <3>1, <3>4
    <3>6. /\ bank' \in Banks /\ Beyond(d, bank') /\ bank'.active = d.active
          /\ bank'.gen = d.gen /\ bank'.tail[d.active] = e
          /\ bank'.chunk = d.chunk /\ bank'.dirty # {}
      BY <3>3, <3>4, <3>5, ReservedBank
    <3>7. StoredIn(bank', c.stored) /\ StagedIn(bank', t.muts, FALSE) /\ ReadersIn(bank', readers)
      BY <1>9, <3>3, <3>6, BeyondValues
    <3>8. SettledIn(bank', r)
      <4>1. ReadsIn(bank', r)
        BY <3>3, <3>6 DEF ReadsIn
      <4>2. r.first + Chunks(r.size) <= bank'.tail[bank'.active]
        BY <2>8, <3>1, <3>2, <3>6
      <4> QED
        BY <2>8, <3>3, <3>6, <4>1, <4>2 DEF SettledIn
    <3>9. /\ txn' \in TxnSlot /\ SameOwner(t, txn') /\ Len(txn'.arena) <= Len(t.arena)
          /\ \A j \in Keys : HasBytes(txn', j)
          /\ StagedIn(bank', txn'.muts, FALSE)
      BY <1>7, <2>8, <2>10, <3>6, <3>7, <3>8, StagedReference
    <3>10. Len(txn'.arena) <= StagingSize
      BY <1>7, <3>9, TxnFields, BoundsAssumption
    <3>11. SameOwner(txn, txn')
      BY <1>7, <3>9 DEF SameOwner
    <3> QED
      BY <2>1, <2>2, <2>3, <3>6, <3>7, <3>9, <3>10, <3>11
  <2>11. CASE /\ \E m \in 0 .. Chunks(n) : bank' = Laid(c.bank, r, m)
              /\ txn' = t
    <3>1. PICK m \in 0 .. Chunks(n) : bank' = Laid(c.bank, r, m)
      BY <2>11
    <3>2. /\ bank' \in Banks /\ StoredIn(bank', c.stored) /\ StagedIn(bank', t.muts, FALSE)
          /\ ReadersIn(bank', readers)
      BY <2>9, <3>1
    <3> QED
      BY <1>7, <2>1, <2>2, <2>3, <2>11, <3>2
  <2> QED
    BY <1>6, <1>10, <2>4, <2>10, <2>11
<1>11. ASSUME UNCHANGED <<hcounter, seen>>, writer' = Scribbled(c), bank' = c.bank, txn' = WithMuts(c)
       PROVE  Kept
  <2>1. writer' \in WriterSlot /\ ~writer'.active /\ \A b : WriterIn(b, writer')
    BY <1>2, <1>5, <1>11, ScribbledWriter
  <2>2. /\ hcounter' \in 0 .. MaxHandleGeneration /\ seen' \in [h : Nat, t : Nat] /\ CounterInv'
    BY <1>1, <1>2, <1>11, CountersFrame
  <2> QED
    BY <1>6, <1>7, <1>9, <1>11, <2>1, <2>2
<1>12. Kept /\ faulted' = c.faulted /\ stored' = c.stored
  <2> HIDE DEF Kept, Written
  <2> QED
    BY <1>4, <1>10, <1>11
<1>13. Within
  BY <1>2, <1>8, <1>9, <1>12 DEF Within
<1>14. TokenInv'
  BY <1>1, <1>12, <1>13, TokensKept
<1>15. ValueInv'
  BY <1>2, <1>8, <1>9, <1>12, ValueStep
<1> QED
  BY <1>14, <1>15 DEF SInv

\* The banks that commit() synchronizes before it logs references to them.
LEMMA DirtySynced ==
    ASSUME NEW b \in Banks, NEW m, StagedIn(b, m, FALSE)
    PROVE  LET c == SyncDirtyBanks(b)
           IN  /\ c \in Banks /\ c.active = b.active /\ c.gen = b.gen /\ c.tail = b.tail
               /\ c.chunk = b.chunk /\ StagedIn(c, m, TRUE)
               /\ \A r : SyncedIn(b, r) => SyncedIn(c, r)
<1>1. CASE b.dirty = {}
  <2>1. SyncDirtyBanks(b) = b
    BY <1>1 DEF SyncDirtyBanks
  <2> QED
    BY <1>1, <2>1 DEF StagedIn
<1>2. CASE b.dirty # {}
  <2>1. PICK c, s : c = SyncDirtyBanks(b) /\ s = Synced(b)
    OBVIOUS
  <2>2. c = [s EXCEPT !.dirty = {}]
    BY <1>2, <2>1 DEF SyncDirtyBanks
  <2>3. /\ s \in Banks /\ s.active = b.active /\ s.gen = b.gen /\ s.tail = b.tail
        /\ s.chunk = b.chunk /\ s.unsynced = {}
    BY <2>1, SyncedBank
  <2>4. /\ c \in Banks /\ c.active = s.active /\ c.gen = s.gen /\ c.tail = s.tail
        /\ c.chunk = s.chunk /\ c.unsynced = s.unsynced
    BY ONLY <2>2, <2>3 DEF Banks
  <2>5. \A r : SyncedIn(c, r)
    BY <2>3, <2>4 DEF SyncedIn
  <2>6. \A r : SettledIn(b, r) => SettledIn(c, r)
    BY <2>3, <2>4, SettledFrame
  <2>7. StagedIn(c, m, TRUE)
    BY <2>5, <2>6 DEF StagedIn
  <2> QED
    BY <2>1, <2>3, <2>4, <2>5, <2>7
<1> QED
  BY <1>1, <1>2

\* commit() keeps the invariant up to the point where its frames are written.
LEMMA CommitStep ==
    ASSUME SInv, NEW g \in Generations, commit(g)
    PROVE  SInv'
<1>1. /\ SlotTypes /\ CounterInv /\ OwnerInv /\ TransactionInv /\ DownInv /\ ArenaInv
      /\ ValueInv /\ TokenInv
  BY DEF SInv, TokenInv
<1>2. /\ Ready /\ TransactionOf(g) /\ ~WriterOfTransaction(g)
      /\ UNCHANGED <<up, hcounter, tcounter, readers, seen>>
  BY DEF commit
<1>3. ~writer.active /\ appending = FALSE /\ txn.active /\ up
  BY <1>1, <1>2 DEF TransactionInv, TransactionOf, WriterOfTransaction, Ready, SlotTypes
<1>4. CASE \A k \in Keys : txn.muts[k] = Unstaged
  <2>1. ClearTransaction /\ UNCHANGED <<bank, faulted, stored, writer, appending>>
    BY <1>4 DEF commit
  <2>2. Blank(txn') /\ ~txn'.active /\ handles' \in [HandleSlots -> HandleSlot] /\ OwnerInv'
    BY <1>1, <2>1, TransactionCleared
  <2>3. SlotTypes' /\ CounterInv'
    BY <1>1, <1>2, <2>1, <2>2 DEF SlotTypes, CounterInv, Blank
  <2>4. TransactionInv' /\ DownInv'
    BY <1>1, <1>2, <1>3, <2>1, <2>2 DEF TransactionInv, DownInv, Blank
  <2>5. ArenaInv' /\ StagedIn(bank', txn'.muts, appending')
    BY <2>2, BlankKeeps DEF ArenaInv
  <2>6. ValueInv'
    BY <1>1, <1>2, <2>1, <2>5, ValueStep DEF ValueInv
  <2> QED
    BY <2>2, <2>3, <2>4, <2>5, <2>6 DEF SInv, TokenInv
<1>5. CASE ~(\A k \in Keys : txn.muts[k] = Unstaged)
  <2>1. PICK c \in {NotCompacted} \cup CompactionOutcomes :
           /\ txn' = [txn EXCEPT !.muts = c.muts]
           /\ stored' = c.stored
           /\ faulted' = c.faulted
           /\ writer' = Scribbled(c)
           /\ \/ bank' = c.bank /\ UNCHANGED appending
              \/ c.ok /\ bank' = SyncDirtyBanks(c.bank) /\ appending' = TRUE
           /\ UNCHANGED handles
    BY <1>5 DEF commit
  <2>2. GoodOutcome(c) /\ txn' = WithMuts(c)
    BY <2>1, OutcomeGood DEF WithMuts
  <2>3. /\ txn' \in TxnSlot /\ SameOwner(txn, txn') /\ txn'.muts = c.muts
        /\ Len(txn'.arena) <= StagingSize /\ \A k \in Keys : HasBytes(txn', k)
    BY <2>2, OutcomeTransaction
  <2>4. writer' \in WriterSlot /\ ~writer'.active /\ \A b : WriterIn(b, writer')
    BY <1>3, <2>1, <2>2, ScribbledWriter
  <2>5. /\ c.bank \in Banks /\ stored' \in [Keys -> Value] /\ StoredIn(c.bank, stored')
        /\ StagedIn(c.bank, txn'.muts, FALSE) /\ ReadersIn(c.bank, readers)
        /\ faulted' \in BOOLEAN
    BY <1>3, <2>1, <2>2, <2>3 DEF GoodOutcome
  <2>6. /\ appending' \in BOOLEAN /\ bank' \in Banks /\ StoredIn(bank', stored')
        /\ StagedIn(bank', txn'.muts, appending') /\ ReadersIn(bank', readers)
    <3>1. CASE bank' = c.bank /\ UNCHANGED appending
      BY <1>3, <2>5, <3>1
    <3>2. CASE bank' = SyncDirtyBanks(c.bank) /\ appending' = TRUE
      <4>1. /\ bank' \in Banks /\ bank'.active = c.bank.active /\ bank'.gen = c.bank.gen
            /\ bank'.tail = c.bank.tail /\ bank'.chunk = c.bank.chunk
            /\ StagedIn(bank', txn'.muts, TRUE)
            /\ \A r : SyncedIn(c.bank, r) => SyncedIn(bank', r)
        BY <2>5, <3>2, DirtySynced
      <4>2. \A r : SettledIn(c.bank, r) => SettledIn(bank', r)
        BY <4>1, SettledFrame
      <4>3. StoredIn(bank', stored')
        BY <2>5, <4>1, <4>2 DEF StoredIn
      <4>4. ReadersIn(bank', readers)
        BY <2>5, <4>1, ReadersFrame
      <4> QED
        BY <3>2, <4>1, <4>3, <4>4
    <3> QED
      BY <2>1, <3>1, <3>2
  <2>7. Within
    BY <1>2, <1>3, <2>1, <2>3, <2>4, <2>5, <2>6 DEF Within
  <2>8. TokenInv'
    BY <1>1, <1>2, <2>7, TokensKept, CountersFrame
  <2>9. ValueInv'
    BY <1>2, <2>4, <2>5, <2>6, ValueStep
  <2> QED
    BY <2>8, <2>9 DEF SInv
<1> QED
  BY <1>4, <1>5

-----------------------------------------------------------------------------
(* The invariant.                                                          *)

\* A database that was just initialized.
LEMMA InitialSInv == Init => SInv
<1> SUFFICES ASSUME Init PROVE SInv
  OBVIOUS
<1>1. /\ up = TRUE /\ faulted = FALSE /\ handles = [i \in HandleSlots |-> FreeHandle]
      /\ hcounter = 1 /\ tcounter = FirstTransaction /\ txn = NoTxn /\ writer = NoWriter
      /\ readers = [i \in ReaderSlots |-> FreeReader]
      /\ stored = [k \in Keys |-> Absent] /\ appending = FALSE
      /\ seen = [h |-> 0, t |-> FirstTransaction - 1]
  BY DEF Init
<1>2. Blank(txn) /\ ~txn.active /\ ~writer.active
  BY <1>1, NoTxnBlank, FreeSlots
<1>3. /\ handles \in [HandleSlots -> HandleSlot] /\ \A i \in HandleSlots : ~handles[i].txn
      /\ readers \in [ReaderSlots -> ReaderSlot]
      /\ \A i \in ReaderSlots : readers[i].value = Absent
  BY <1>1, FreeSlots
<1>4. /\ hcounter \in 0 .. MaxHandleGeneration /\ tcounter \in 0 .. MaxHandleGeneration
      /\ seen \in [h : Nat, t : Nat] /\ CounterInv
  BY <1>1, BoundsAssumption DEF CounterInv
<1>5. SlotTypes
  BY <1>1, <1>2, <1>3, <1>4, FreeSlots DEF SlotTypes, Blank
<1>6. OwnerInv
  BY <1>2, <1>3 DEF OwnerInv, TransactionOwned
<1>7. TransactionInv /\ DownInv
  BY <1>1, <1>2 DEF TransactionInv, DownInv, Blank
<1>8. ArenaInv /\ StagedIn(bank, txn.muts, appending)
  BY <1>2, BlankKeeps DEF ArenaInv
<1>9. bank \in Banks
  <2>1. 1 \in 1 .. MaxBankGeneration /\ 0 \in 0 .. BankChunks /\ NoChunk \in Chunk /\ 0 \in Two
    BY BoundsAssumption DEF NoChunk, Chunk, Two
  <2>2. PICK e, t, h : /\ e = [b \in Two |-> 1] /\ t = [b \in Two |-> 0]
                       /\ h = [b \in Two |-> [o \in Offsets |-> NoChunk]]
    OBVIOUS
  <2>3. /\ e \in [Two -> 1 .. MaxBankGeneration] /\ t \in [Two -> 0 .. BankChunks]
        /\ h \in [Two -> [Offsets -> Chunk]]
    BY <2>1, <2>2
  <2>4. bank = [active |-> 0, gen |-> e, tail |-> t, chunk |-> h, unsynced |-> {}, dirty |-> {}]
    BY <2>2 DEF Init
  <2> QED
    BY ONLY <2>1, <2>3, <2>4 DEF Banks
<1>10. stored \in [Keys -> Value] /\ StoredIn(bank, stored) /\ ReadersIn(bank, readers)
  BY <1>1, <1>3, FreeSlots DEF StoredIn, ReadersIn, Value
<1>11. WriterIn(bank, writer)
  BY <1>1, FreeSlots
<1> QED
  BY <1>4, <1>5, <1>6, <1>7, <1>8, <1>9, <1>10, <1>11 DEF SInv, TokenInv, ValueInv

\* A refused call changes nothing.
LEMMA SInvStutter ==
    ASSUME SInv, UNCHANGED vars
    PROVE  SInv'
<1>1. TokenInv'
  BY DEF vars, SInv, TokenInv, SlotTypes, CounterInv, OwnerInv, TransactionOwned, HandleOf,
         TransactionInv, DownInv, ArenaInv, HasBytes
<1>2. ValueInv'
  BY ValueFrame DEF vars, SInv
<1> QED
  BY <1>1, <1>2 DEF SInv

\* Every call keeps the invariant.
LEMMA SInvStep ==
    ASSUME SInv, [Next]_vars
    PROVE  SInv'
<1>1. CASE \E rw \in BOOLEAN : open(rw)
  BY <1>1, OpenStep
<1>2. CASE \E i \in HandleSlots, g \in Generations : close_handle(i, g)
  BY <1>2, CloseHandleStep
<1>3. CASE \E i \in HandleSlots, g \in Generations : begin(i, g)
  BY <1>3, BeginStep
<1>4. CASE \E g \in Generations : set_inline(g)
  BY <1>4, SetInlineStep
<1>5. CASE \E g \in Generations : erase_key(g)
  BY <1>5, EraseKeyStep
<1>6. CASE \E g \in Generations : set_large(g)
  BY <1>6, SetLargeStep
<1>7. CASE set_large_refused
  BY <1>7, WriterEndsStep DEF set_large_refused
<1>8. CASE \E g \in Generations : begin_value_write(g)
  BY <1>8, BeginValueWriteStep
<1>9. CASE \E g \in Generations : write_value(g)
  BY <1>9, WriteValueStep
<1>10. CASE \E g \in Generations : finish_value_write(g)
  BY <1>10, FinishStep
<1>11. CASE \E g \in Generations : abort_value_write(g)
  BY <1>11, WriterEndsStep DEF abort_value_write, WriterOf
<1>12. CASE \E g \in Generations : commit(g)
  BY <1>12, CommitStep
<1>13. CASE append_synced
  BY <1>13, AppendSyncedStep
<1>14. CASE append_fails
  BY <1>14, AppendFailsStep
<1>15. CASE \E g \in Generations : abort(g)
  BY <1>15, AbortStep
<1>16. CASE \E i \in HandleSlots, g \in Generations : open_value(i, g)
  BY <1>16, OpenValueStep
<1>17. CASE \E i \in ReaderSlots, g \in Generations : close_reader(i, g)
  BY <1>17, CloseReaderStep
<1>18. CASE \E force \in BOOLEAN : deinit(force)
  BY <1>18, DeinitStep
<1>19. CASE init
  BY <1>19, InitStep
<1>20. CASE UNCHANGED vars
  BY <1>20, SInvStutter
<1> QED
  BY <1>1, <1>2, <1>3, <1>4, <1>5, <1>6, <1>7, <1>8, <1>9, <1>10, <1>11, <1>12, <1>13, <1>14,
     <1>15, <1>16, <1>17, <1>18, <1>19, <1>20 DEF Next

(* The inductive invariant of the sessions and value banks holds in every  *)
(* state, whatever calls of on9kvdb.hpp are made in whatever order.        *)
THEOREM SessionInductive == Spec => []SInv
<1>1. Init => SInv
  BY InitialSInv
<1>2. SInv /\ [Next]_vars => SInv'
  BY SInvStep
<1> QED
  BY <1>1, <1>2, PTL DEF Spec

-----------------------------------------------------------------------------
(* What the invariant says of the sessions.                                *)

(* Slots, counters and banks keep their types: generations stay within     *)
(* max_handle_generation, no tail and no writer passes the end of a bank,  *)
(* and no sequence of set() and erase() overruns the staging arena.        *)
THEOREM SessionTypes == Spec => []TypeOK
<1>1. SInv => TypeOK
  <2> SUFFICES ASSUME SInv PROVE TypeOK
    OBVIOUS
  <2>1. SlotTypes /\ ArenaInv /\ ValueInv
    BY DEF SInv, TokenInv
  <2>2. writer \in WriterSlot /\ WriterIn(bank, writer) /\ bank \in Banks
    BY <2>1 DEF SlotTypes, ValueInv
  <2>3. /\ writer.gen \in 0 .. MaxHandleGeneration /\ writer.held \in 0 .. 2
        /\ writer.next <= BankChunks
    BY <2>2, WriterFields DEF WriterSlot
  <2>4. writer.written <= Expected(writer)
    BY <2>2 DEF WriterIn, WritesIn, Expected
  <2>5. /\ bank.active \in Two /\ bank.gen \in [Two -> 1 .. MaxBankGeneration]
        /\ bank.tail \in [Two -> 0 .. BankChunks] /\ bank.chunk \in [Two -> [Offsets -> Chunk]]
        /\ bank.unsynced \subseteq Two \X Offsets /\ bank.dirty \subseteq Two
    BY <2>2 DEF Banks
  <2> QED
    BY <2>1, <2>3, <2>4, <2>5 DEF TypeOK, SlotTypes, ArenaInv, ValueInv
<1> QED
  BY <1>1, SessionInductive, PTL

(* The transaction's handle is marked busy and no other handle is, after   *)
(* any calls: no handle is left that close() refuses for good.             *)
THEOREM HandlesOwned == Spec => []TransactionOwned
<1>1. SInv => TransactionOwned
  BY DEF SInv, TokenInv, OwnerInv
<1> QED
  BY <1>1, SessionInductive, PTL

(* A value writer that is active belongs to the transaction that is active *)
(* and continues at the tail of the active bank: commit(), abort() and the *)
(* compaction never leave one behind.                                      *)
THEOREM WriterFollows == Spec => []WriterFollowsTransaction
<1>1. SInv => WriterFollowsTransaction
  <2> SUFFICES ASSUME SInv, writer.active
               PROVE  /\ TransactionOf(writer.txn)
                      /\ writer.size # 0 =>
                            /\ writer.bank = bank.active
                            /\ writer.bgen = bank.gen[bank.active]
                            /\ writer.first = bank.tail[bank.active]
    BY DEF WriterFollowsTransaction
  <2>1. OwnerInv /\ TransactionInv /\ WriterIn(bank, writer)
    BY DEF SInv, TokenInv, ValueInv
  <2>2. txn.active /\ txn.gen = writer.txn
    BY <2>1 DEF TransactionInv
  <2>3. TransactionOf(writer.txn)
    BY <2>1, <2>2 DEF OwnerInv, TransactionOwned, TransactionOf
  <2> QED
    BY <2>1, <2>3 DEF WriterIn, WritesIn
<1> QED
  BY <1>1, SessionInductive, PTL

(* Every external value that is committed, staged or held by a reader      *)
(* reads back with its own bytes, for any number of keys, readers and      *)
(* chunks and any order of writes, aborts and compactions.                 *)
THEOREM ValuesReadBack == Spec => []ReachableValuesReadBack
<1>1. SInv => ReachableValuesReadBack
  <2> SUFFICES ASSUME SInv PROVE ReachableValuesReadBack
    OBVIOUS
  <2>1. \A r : ReadsIn(bank, r) => ReadsBack(r)
    BY DEF ReadsIn, ReadsBack
  <2>2. StoredIn(bank, stored) /\ StagedIn(bank, txn.muts, appending) /\ ReadersIn(bank, readers)
    BY DEF SInv, ValueInv
  <2>3. \A k \in Keys : External(stored[k]) => ReadsIn(bank, stored[k])
    BY <2>2 DEF StoredIn, SettledIn
  <2>4. \A k \in Keys : External(txn.muts[k]) => ReadsIn(bank, txn.muts[k])
    BY <2>2 DEF StagedIn, SettledIn
  <2>5. \A i \in ReaderSlots : External(readers[i].value) => ReadsIn(bank, readers[i].value)
    BY <2>2 DEF ReadersIn
  <2> QED
    BY <2>1, <2>3, <2>4, <2>5 DEF ReachableValuesReadBack
<1> QED
  BY <1>1, SessionInductive, PTL

(* A reference that commit() may log lies in the reserved part of the      *)
(* active bank, where recovery accepts it.                                 *)
THEOREM StagedReferencesActive == Spec => []StagedInActiveBank
<1>1. SInv => StagedInActiveBank
  BY DEF SInv, ValueInv, StagedIn, SettledIn, StagedInActiveBank, MatchesActiveBank
<1> QED
  BY <1>1, SessionInductive, PTL

(* Committed references, and those that frames of the WAL are being        *)
(* written for, never lead to chunks that are not synchronized yet.        *)
THEOREM LoggedDurable == Spec => []LoggedValuesDurable
<1>1. SInv => LoggedValuesDurable
  <2> SUFFICES ASSUME SInv PROVE LoggedValuesDurable
    OBVIOUS
  <2>1. \A r : SyncedIn(bank, r) => Durable(r)
    BY DEF SyncedIn, Durable
  <2>2. StoredIn(bank, stored) /\ StagedIn(bank, txn.muts, appending)
    BY DEF SInv, ValueInv
  <2>3. \A k \in Keys : External(stored[k]) => SyncedIn(bank, stored[k])
    BY <2>2 DEF StoredIn
  <2>4. appending => \A k \in Keys : External(txn.muts[k]) => SyncedIn(bank, txn.muts[k])
    BY <2>2 DEF StagedIn
  <2> QED
    BY <2>1, <2>3, <2>4 DEF LoggedValuesDurable
<1> QED
  BY <1>1, SessionInductive, PTL

\* The bytes of a value at their place in a sequence are the value's bytes.
LEMMA BytesAtPlace ==
    ASSUME NEW s \in Seq(ArenaByte), NEW k \in Keys, NEW a \in Nat, NEW n \in InlineSizes, n \in Nat,
           n > 0 => a + n <= Len(s) /\ \A i \in 1 .. n : s[a + i] = <<k, n, i>>
    PROVE  SubSeq(s, a + 1, a + n) = BytesOf(k, n)
<1>1. \A i \in (a + 1) .. (a + n) : s[i] \in ArenaByte
  BY ElementOfSeq
<1>2. a + 1 \in Int /\ a + n \in Int
  OBVIOUS
<1>3. PICK x, y, l, h : /\ x = SubSeq(s, l, h) /\ y = BytesOf(k, n)
                        /\ l = a + 1 /\ h = a + n
  OBVIOUS
<1>4. /\ x \in Seq(ArenaByte) /\ Len(x) = IF l <= h THEN h - l + 1 ELSE 0
      /\ \A i \in 1 .. (h - l + 1) : x[i] = s[l + i - 1]
  BY <1>1, <1>2, <1>3, SubSeqProperties
<1>5. Len(x) = n
  BY <1>3, <1>4
<1>6. ASSUME NEW i \in 1 .. n PROVE x[i] = <<k, n, i>>
  <2>1. i \in 1 .. (h - l + 1) /\ l + i - 1 = a + i /\ n > 0
    BY <1>3
  <2> QED
    BY <1>4, <2>1
<1>7. y \in Seq(ArenaByte) /\ Len(y) = n /\ \A i \in 1 .. n : y[i] = <<k, n, i>>
  <2>1. y = [i \in 1 .. n |-> <<k, n, i>>]
    BY <1>3 DEF BytesOf
  <2>2. \A i \in 1 .. n : <<k, n, i>> \in ArenaByte
    BY DEF ArenaByte
  <2> QED
    BY <2>1, <2>2
<1>8. x = y
  BY <1>4, <1>5, <1>6, <1>7, SeqEqual
<1> QED
  BY <1>3, <1>8

(* A value staged inline keeps its own bytes through every replacement of  *)
(* its neighbours, for any sizes and any number of keys.                   *)
THEOREM StagedIntact == Spec => []StagedValuesIntact
<1>1. SInv => StagedValuesIntact
  <2> SUFFICES ASSUME SInv, NEW k \in Keys, InArena(txn.muts[k])
               PROVE  SubSeq(txn.arena, txn.muts[k].at + 1, txn.muts[k].at + txn.muts[k].size)
                        = BytesOf(k, txn.muts[k].size)
    BY DEF StagedValuesIntact
  <2>1. PICK s, a, n : s = txn.arena /\ a = txn.muts[k].at /\ n = txn.muts[k].size
    OBVIOUS
  <2>2. txn \in TxnSlot /\ HasBytes(txn, k)
    BY DEF SInv, TokenInv, SlotTypes, ArenaInv
  <2>3. s \in Seq(ArenaByte) /\ a \in Nat /\ n \in InlineSizes /\ n \in Nat
    BY <2>1, <2>2, TxnFields, StagedInlineFields
  <2>4. n > 0 => a + n <= Len(s) /\ \A i \in 1 .. n : s[a + i] = <<k, n, i>>
    BY <2>1, <2>2 DEF HasBytes
  <2>5. SubSeq(s, a + 1, a + n) = BytesOf(k, n)
    BY <2>3, <2>4, BytesAtPlace
  <2> QED
    BY <2>1, <2>5
<1> QED
  BY <1>1, SessionInductive, PTL

-----------------------------------------------------------------------------
(* Tokens that went stale.                                                 *)

\* A slot in use after a step was in use before with the same generation, or
\* its generation is a new one.
FreshSlots(slots, now) ==
    \A i \in DOMAIN slots :
        now[i].used => (slots[i].used /\ now[i].gen = slots[i].gen) \/ now[i].gen > seen.h

FreshWriter ==
    writer'.active => (writer.active /\ writer'.gen = writer.gen) \/ writer'.gen > seen.h

FreshTransaction ==
    txn'.active => (txn.active /\ txn'.gen = txn.gen) \/ txn'.gen > seen.t

Fresh == FreshSlots(handles, handles') /\ FreshSlots(readers, readers') /\ FreshWriter
         /\ FreshTransaction

\* What does not change hands out no generation.
LEMMA FreshFrame ==
    /\ UNCHANGED handles => FreshSlots(handles, handles')
    /\ UNCHANGED readers => FreshSlots(readers, readers')
    /\ UNCHANGED writer => FreshWriter
    /\ UNCHANGED txn => FreshTransaction
BY DEF FreshSlots, FreshWriter, FreshTransaction

\* A record with the fields of a transaction.
HasFields(t) ==
    t \in [gen : {t.gen}, active : {t.active}, slot : {t.slot}, hgen : {t.hgen},
           muts : {t.muts}, arena : {t.arena}]

\* Staging leaves the transaction's generation alone.
LEMMA StagedOwner ==
    ASSUME NEW t, HasFields(t), NEW k, NEW m, NEW n
    PROVE  /\ StagedWithout(t, k, m).gen = t.gen /\ StagedWithout(t, k, m).active = t.active
           /\ StagedWithin(t, k, n).gen = t.gen /\ StagedWithin(t, k, n).active = t.active
<1>1. PICK r : r = Replacing(t, k)
  OBVIOUS
<1>2. r.gen = t.gen /\ r.active = t.active
  BY <1>1 DEF Replacing, WithoutBytes, HasFields
<1>3. StagedWithout(t, k, m).gen = r.gen /\ StagedWithout(t, k, m).active = r.active
  BY <1>1 DEF StagedWithout
<1>4. StagedWithin(t, k, n).gen = r.gen /\ StagedWithin(t, k, n).active = r.active
  BY <1>1 DEF StagedWithin
<1> QED
  BY <1>2, <1>3, <1>4

\* A cleared slot accepts no token.
LEMMA FreshCleared ==
    /\ \A s \in TxnSlot : ~Cleared(s, NoTxn).active
    /\ \A w \in WriterSlot : ~Cleared(w, NoWriter).active
<1>1. \A s \in TxnSlot : ~Cleared(s, NoTxn).active
  BY ClearedBlank
<1>2. \A w \in WriterSlot : ~Cleared(w, NoWriter).active
  BY ClearedWriter
<1> QED
  BY <1>1, <1>2

\* A cleared transaction's handle keeps its generation.
LEMMA FreshHandles ==
    ASSUME SlotTypes, OwnerInv, ClearTransaction
    PROVE  FreshSlots(handles, handles') /\ FreshTransaction
<1>1. FreshTransaction
  BY FreshCleared DEF ClearTransaction, SlotTypes, FreshTransaction
<1>2. handles \in [HandleSlots -> HandleSlot]
  BY DEF SlotTypes
<1>3. CASE txn.active
  <2>1. PICK i \in HandleSlots : i = txn.slot
    BY <1>3 DEF OwnerInv
  <2>2. handles' = [handles EXCEPT ![i].txn = FALSE]
    BY <1>3, <2>1 DEF ClearTransaction, OwnerInv
  <2>3. \A j \in HandleSlots : handles'[j].used = handles[j].used /\ handles'[j].gen = handles[j].gen
    BY ONLY <1>2, <2>1, <2>2 DEF HandleSlot
  <2> QED
    BY <1>1, <1>2, <2>3 DEF FreshSlots
<1>4. CASE ~txn.active
  BY <1>1, <1>4, FreshFrame DEF ClearTransaction
<1> QED
  BY <1>3, <1>4

\* Every call hands out new generations or none.
LEMMA FreshStep ==
    ASSUME SInv, Next
    PROVE  Fresh
<1>1. /\ SlotTypes /\ CounterInv /\ OwnerInv
      /\ txn \in TxnSlot /\ writer \in WriterSlot
      /\ handles \in [HandleSlots -> HandleSlot] /\ readers \in [ReaderSlots -> ReaderSlot]
      /\ hcounter \in Nat /\ tcounter \in Nat /\ seen.h \in Nat /\ seen.t \in Nat
  BY BoundsAssumption DEF SInv, TokenInv, SlotTypes
<1>2. /\ TakeGeneration => hcounter > seen.h
      /\ tcounter # 0 => tcounter > seen.t
  BY <1>1 DEF TakeGeneration, CounterInv
<1>3. ASSUME NEW rw, open(rw) PROVE Fresh
  <2>1. TakeGeneration /\ UNCHANGED <<txn, writer, readers>>
    BY <1>3 DEF open
  <2>2. PICK i \in FirstFree(handles) :
          handles' = [handles EXCEPT ![i] =
                        [gen |-> hcounter, used |-> TRUE, txn |-> FALSE, rw |-> rw]]
    BY <1>3 DEF open
  <2>3. i \in HandleSlots
    BY <1>1, <2>2 DEF FirstFree
  <2>4. FreshSlots(handles, handles')
    BY <1>1, <1>2, <2>1, <2>2, <2>3 DEF FreshSlots
  <2> QED
    BY <2>1, <2>4, FreshFrame DEF Fresh
<1>4. ASSUME NEW i \in HandleSlots, NEW g, close_handle(i, g) PROVE Fresh
  <2>1. /\ UNCHANGED <<txn, writer, readers>>
        /\ handles' = [handles EXCEPT ![i] = Cleared(handles[i], FreeHandle)]
    BY <1>4 DEF close_handle
  <2>2. ~Cleared(handles[i], FreeHandle).used
    BY DEF Cleared, FreeHandle
  <2>3. FreshSlots(handles, handles')
    BY <1>1, <2>1, <2>2 DEF FreshSlots
  <2> QED
    BY <2>1, <2>3, FreshFrame DEF Fresh
<1>5. ASSUME NEW i \in HandleSlots, NEW g, begin(i, g) PROVE Fresh
  <2>1. /\ UNCHANGED <<writer, readers>> /\ tcounter # 0
        /\ txn' = Begun(tcounter, i, g)
        /\ handles' = [handles EXCEPT ![i].txn = TRUE]
    BY <1>5 DEF begin, Begun
  <2>2. txn'.gen = tcounter
    BY <2>1 DEF Begun, NoTxn
  <2>3. \A j \in HandleSlots : handles'[j].used = handles[j].used /\ handles'[j].gen = handles[j].gen
    BY ONLY <1>1, <2>1, i \in HandleSlots DEF HandleSlot
  <2>4. FreshSlots(handles, handles') /\ FreshTransaction
    BY <1>1, <1>2, <2>1, <2>2, <2>3 DEF FreshSlots, FreshTransaction
  <2> QED
    BY <2>1, <2>4, FreshFrame DEF Fresh
<1>6. HasFields(txn)
  BY <1>1 DEF HasFields, TxnSlot
<1>7. ASSUME NEW g, set_inline(g) \/ erase_key(g) PROVE Fresh
  <2>1. UNCHANGED <<handles, writer, readers>>
    BY <1>7 DEF set_inline, erase_key
  <2>2. \/ \E k \in Keys, n \in InlineSizes : txn' = StagedWithin(txn, k, n)
        \/ \E k \in Keys : txn' = StagedWithout(txn, k, Absent)
    BY <1>7 DEF set_inline, erase_key
  <2>3. FreshTransaction
    BY <1>6, <2>2, StagedOwner DEF FreshTransaction
  <2> QED
    BY <2>1, <2>3, FreshFrame DEF Fresh
<1>8. \A c : /\ HasFields(WithMuts(c))
             /\ WithMuts(c).gen = txn.gen /\ WithMuts(c).active = txn.active
  BY <1>6 DEF WithMuts, HasFields
<1>9. ASSUME NEW c, writer' = Scribbled(c) PROVE FreshWriter
  <2>1. writer'.gen = writer.gen /\ writer'.active = writer.active
    BY <1>1, <1>9 DEF Scribbled, WriterSlot
  <2> QED
    BY <2>1 DEF FreshWriter
<1>10. ASSUME NEW g, set_large(g) PROVE Fresh
  <2>1. UNCHANGED <<handles, readers>>
    BY <1>10 DEF set_large
  <2>2. \E c : \/ writer' = Scribbled(c)
               \/ TakeGeneration /\ writer' = [NoWriter EXCEPT !.gen = hcounter]
    BY <1>10 DEF set_large
  <2>3. FreshWriter
    <3>1. ~[NoWriter EXCEPT !.gen = hcounter].active
      BY DEF NoWriter
    <3> QED
      BY <1>9, <2>2, <3>1 DEF FreshWriter
  <2>4. \E c, k, r : txn' = WithMuts(c) \/ txn' = StagedWithout(WithMuts(c), k, r)
    <3> DEFINE ref(k, n, c) == WrittenRef(NewWriter(g, k, n, c.bank))
               Staged(k, n, c) == txn' = StagedWithout(WithMuts(c), k, ref(k, n, c))
    <3>1. \E k \in Keys, n \in Sizes : \E c \in BeforeWriting(n) :
             Staged(k, n, c) \/ txn' = WithMuts(c)
      <4>1. \E k \in Keys, n \in Sizes : \E c \in BeforeWriting(n) :
               IF c.ok /\ Room(c.bank, n)
               THEN Staged(k, n, c) \/ txn' = WithMuts(c)
               ELSE txn' = WithMuts(c)
        BY <1>10, ZenonT(40) DEF set_large, WithMuts
      <4> QED
        BY <4>1
    <3> QED
      BY <3>1
  <2>5. FreshTransaction
    <3>1. PICK c, k, r : txn' = WithMuts(c) \/ txn' = StagedWithout(WithMuts(c), k, r)
      BY <2>4
    <3>2. PICK t : t = WithMuts(c)
      OBVIOUS
    <3>3. HasFields(t) /\ t.gen = txn.gen /\ t.active = txn.active
      BY <1>8, <3>2
    <3> QED
      BY <3>1, <3>2, <3>3, StagedOwner DEF FreshTransaction
  <2> QED
    BY <2>1, <2>3, <2>5, FreshFrame DEF Fresh
<1>11. ASSUME NEW g, set_large_refused \/ abort_value_write(g) PROVE Fresh
  <2>1. UNCHANGED <<handles, readers, txn>> /\ writer' = Cleared(writer, NoWriter)
    BY <1>11 DEF set_large_refused, abort_value_write
  <2> QED
    BY <1>1, <2>1, FreshFrame, FreshCleared DEF Fresh, FreshWriter
<1>12. ASSUME NEW g, begin_value_write(g) PROVE Fresh
  <2>1. UNCHANGED <<handles, readers>>
    BY <1>12 DEF begin_value_write
  <2>2. \E c : /\ txn' = WithMuts(c)
               /\ \/ writer' = Scribbled(c)
                  \/ TakeGeneration /\ \E k, n : writer' = NewWriter(g, k, n, c.bank)
    BY <1>12 DEF begin_value_write, WithMuts
  <2>3. PICK c : /\ txn' = WithMuts(c)
                 /\ \/ writer' = Scribbled(c)
                    \/ TakeGeneration /\ \E k, n : writer' = NewWriter(g, k, n, c.bank)
    BY <2>2
  <2>4. FreshTransaction
    BY <1>8, <2>3 DEF FreshTransaction
  <2>5. \A k, n : NewWriter(g, k, n, c.bank).gen = hcounter
    BY DEF NewWriter, NoWriter
  <2>6. FreshWriter
    BY <1>2, <1>9, <2>3, <2>5 DEF FreshWriter
  <2> QED
    BY <2>1, <2>4, <2>6, FreshFrame DEF Fresh
<1>13. ASSUME NEW g \in Generations, write_value(g) PROVE Fresh
  <2>1. UNCHANGED <<handles, readers, txn>> /\ writer.active
    BY <1>13 DEF write_value, WriterOf
  <2>2. SameWriter(writer, writer')
    BY <1>13, WriteValueStep
  <2> QED
    BY <2>1, <2>2, FreshFrame DEF Fresh, FreshWriter, SameWriter
<1>14. ASSUME NEW g, finish_value_write(g) PROVE Fresh
  <2>1. UNCHANGED <<handles, readers>> /\ writer' = Cleared(writer, NoWriter)
    BY <1>14 DEF finish_value_write
  <2>2. \/ UNCHANGED txn
        \/ \E k, n : txn' = StagedWithin(txn, k, n)
        \/ \E k, r : txn' = StagedWithout(txn, k, r)
    BY <1>14 DEF finish_value_write
  <2>3. FreshTransaction
    BY <1>6, <2>2, StagedOwner DEF FreshTransaction
  <2> QED
    BY <1>1, <2>1, <2>3, FreshFrame, FreshCleared DEF Fresh, FreshWriter
<1>15. ASSUME NEW g, commit(g) PROVE Fresh
  <2>1. UNCHANGED readers
    BY <1>15 DEF commit
  <2>2. CASE ClearTransaction /\ UNCHANGED writer
    BY <1>1, <2>1, <2>2, FreshFrame, FreshHandles DEF Fresh
  <2>3. CASE \E c : txn' = WithMuts(c) /\ writer' = Scribbled(c) /\ UNCHANGED handles
    <3>1. FreshTransaction /\ FreshWriter
      BY <1>8, <1>9, <2>3 DEF FreshTransaction
    <3> QED
      BY <2>1, <2>3, <3>1, FreshFrame DEF Fresh
  <2>4. \/ ClearTransaction /\ UNCHANGED writer
        \/ \E c : txn' = WithMuts(c) /\ writer' = Scribbled(c) /\ UNCHANGED handles
    BY <1>15 DEF commit, WithMuts
  <2> QED
    BY <2>2, <2>3, <2>4
<1>16. ASSUME NEW g, append_synced \/ abort(g) PROVE Fresh
  <2>1. ClearTransaction /\ UNCHANGED <<writer, readers>>
    BY <1>16 DEF append_synced, abort
  <2> QED
    BY <1>1, <2>1, FreshFrame, FreshHandles DEF Fresh
<1>17. ASSUME append_fails \/ init PROVE Fresh
  <2>1. UNCHANGED <<handles, readers, writer, txn>>
    BY <1>17 DEF append_fails, init
  <2> QED
    BY <2>1, FreshFrame DEF Fresh
<1>18. ASSUME NEW i, NEW g, open_value(i, g) PROVE Fresh
  <2>1. TakeGeneration /\ UNCHANGED <<txn, writer, handles>>
    BY <1>18 DEF open_value
  <2>2. PICK k \in Keys, r \in FirstFree(readers) :
          readers' = [readers EXCEPT ![r] = [gen |-> hcounter, used |-> TRUE, value |-> stored[k]]]
    BY <1>18 DEF open_value
  <2>3. r \in ReaderSlots
    BY <1>1, <2>2 DEF FirstFree
  <2>4. FreshSlots(readers, readers')
    BY <1>1, <1>2, <2>1, <2>2, <2>3 DEF FreshSlots
  <2> QED
    BY <2>1, <2>4, FreshFrame DEF Fresh
<1>19. ASSUME NEW i \in ReaderSlots, NEW g, close_reader(i, g) PROVE Fresh
  <2>1. /\ UNCHANGED <<txn, writer, handles>>
        /\ readers' = [readers EXCEPT ![i] = Cleared(readers[i], FreeReader)]
    BY <1>19 DEF close_reader
  <2>2. ~Cleared(readers[i], FreeReader).used
    BY DEF Cleared, FreeReader
  <2>3. FreshSlots(readers, readers')
    BY <1>1, <2>1, <2>2 DEF FreshSlots
  <2> QED
    BY <2>1, <2>3, FreshFrame DEF Fresh
<1>20. ASSUME NEW force, deinit(force) PROVE Fresh
  <2>1. ResetSlots
    BY <1>20 DEF deinit
  <2>2. FreshSlots(handles, handles') /\ FreshSlots(readers, readers')
    BY <1>1, <2>1 DEF ResetSlots, FreshSlots, FreeHandle, FreeReader
  <2>3. FreshWriter /\ FreshTransaction
    BY <2>1, FreeSlots DEF ResetSlots, FreshWriter, FreshTransaction
  <2> QED
    BY <2>2, <2>3 DEF Fresh
<1> QED
  <2> HIDE DEF Fresh
  <2> QED
    BY <1>3, <1>4, <1>5, <1>7, <1>10, <1>11, <1>12, <1>13, <1>14, <1>15, <1>16, <1>17, <1>18,
       <1>19, <1>20 DEF Next

(* A token that a call refuses is refused for good: handles, readers and   *)
(* writers share one counter and the transaction has its own, and neither  *)
(* ever hands out a generation twice, across deinit() and init() and up to *)
(* exhaustion.                                                             *)
THEOREM StaleTokens == Spec => StaleStaysStale
<1>1. ASSUME SInv, [Next]_vars
      PROVE  [\A g \in 1 .. seen.h : ~AcceptsHandleToken(g) => ~AcceptsHandleToken(g)'
               ]_<<handles, readers, writer>>
  <2>1. CASE UNCHANGED vars
    BY <2>1 DEF vars
  <2>2. CASE Next
    <3>1. Fresh
      BY <1>1, <2>2, FreshStep
    <3>2. SUFFICES ASSUME NEW g \in 1 .. seen.h, ~AcceptsHandleToken(g)
                   PROVE  ~AcceptsHandleToken(g)'
      OBVIOUS
    <3>3. /\ handles \in [HandleSlots -> HandleSlot] /\ readers \in [ReaderSlots -> ReaderSlot]
          /\ seen.h \in Nat
      BY <1>1 DEF SInv, TokenInv, SlotTypes
    <3>4. g \in Nat /\ ~(g > seen.h)
      BY <3>2, <3>3
    <3>5. \A i \in HandleSlots : ~(handles'[i].used /\ handles'[i].gen = g)
      BY <3>1, <3>2, <3>3, <3>4 DEF Fresh, FreshSlots, AcceptsHandleToken, HandleOf
    <3>6. \A i \in ReaderSlots : ~(readers'[i].used /\ readers'[i].gen = g)
      BY <3>1, <3>2, <3>3, <3>4 DEF Fresh, FreshSlots, AcceptsHandleToken, ReaderOf
    <3>7. ~(writer'.active /\ writer'.gen = g)
      BY <3>1, <3>2, <3>4 DEF Fresh, FreshWriter, AcceptsHandleToken, WriterOf
    <3> QED
      BY <3>5, <3>6, <3>7 DEF AcceptsHandleToken, HandleOf, ReaderOf, WriterOf
  <2> QED
    BY <1>1, <2>1, <2>2
<1>2. ASSUME SInv, [Next]_vars
      PROVE  [\A g \in 1 .. seen.t : ~TransactionOf(g) => ~TransactionOf(g)']_<<handles, txn>>
  <2>1. CASE UNCHANGED vars
    BY <2>1 DEF vars
  <2>2. CASE Next
    <3>1. FreshTransaction
      BY <1>2, <2>2, FreshStep DEF Fresh
    <3>2. SUFFICES ASSUME NEW g \in 1 .. seen.t, ~TransactionOf(g)
                   PROVE  ~TransactionOf(g)'
      OBVIOUS
    <3>3. seen.t \in Nat /\ OwnerInv
      BY <1>2 DEF SInv, TokenInv, SlotTypes
    <3>4. g \in Nat /\ ~(g > seen.t)
      BY <3>2, <3>3
    <3>5. ~(txn.active /\ txn.gen = g)
      BY <3>2, <3>3 DEF TransactionOf, OwnerInv, TransactionOwned
    <3>6. ~(txn'.active /\ txn'.gen = g)
      BY <3>1, <3>4, <3>5 DEF FreshTransaction
    <3> QED
      BY <3>6 DEF TransactionOf
  <2> QED
    BY <1>2, <2>1, <2>2
<1> QED
  BY <1>1, <1>2, SessionInductive, PTL DEF Spec, StaleStaysStale
==============================================================================
