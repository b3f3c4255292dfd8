------------------------------ MODULE LsmProofs ------------------------------
(***************************************************************************)
(* For every hash function and all limits: what preflight accepts fits     *)
(* into the memtable, whatever maintenance and restarts come between, and  *)
(* a lookup in memtable and tables shows of every key the newest version   *)
(* the log and the tables hold.                                            *)
(***************************************************************************)
EXTENDS LsmInvariant, StructureProofs

-----------------------------------------------------------------------------
(* One record more                                                         *)

\* The records after an insertion are the new one and records from before.
LEMMA InsertedContent ==
    ASSUME NEW m, Sound(m), NEW slot \in NamespaceSlots, NEW v \in Version,
           HasBucket(m, slot, v.key), NEW w, w = Inserted(m, slot, v), NEW x \in Occupied(w)
    PROVE  \/ RecordAt(w, x) = NewCell(slot, v)
           \/ \E y \in Occupied(m) : RecordAt(w, x) = RecordAt(m, y)
<1>1. PICK b, o, n : b = Find(m, slot, v.key) /\ o = HoleAt(m, b) /\ n = HoleSize(m, b)
  OBVIOUS
<1>2. b \in BucketIndex /\ w = InsertedAt(m, b, slot, v)
  BY <1>1, BucketFor DEF HasBucket, Inserted
<1>3. Occupied(w) = Occupied(m) \cup {b} /\ RecordAt(w, b) = NewCell(slot, v)
  BY <1>1, <1>2, InsertedRecords
<1>4. \A y \in Occupied(m) \ {b} : RecordAt(w, y) = RecordAt(m, y)
  BY <1>1, <1>2, InsertedRecords
<1> QED
  BY <1>3, <1>4

\* Without a bucket the count goes beyond the buckets.
LEMMA FullOverflows ==
    ASSUME NEW m, Sound(m), NEW slot \in NamespaceSlots, NEW v \in Version,
           ~HasBucket(m, slot, v.key)
    PROVE  Inserted(m, slot, v).count = Buckets + 1
<1>1. v.key \in Keys /\ NoBucket \notin BucketIndex
  BY BucketsAssumption DEF Version, NoBucket, BucketIndex
<1>2. Find(m, slot, v.key) = NoBucket
  BY DEF HasBucket
<1>3. Occupied(m) = BucketIndex
  BY <1>1, <1>2, FindType DEF Matches, Occupied
<1>4. Cardinality(BucketIndex) = Buckets
  BY FS_Interval, BucketsAssumption DEF BucketIndex
<1>5. m.count = Buckets
  BY <1>3, <1>4 DEF Sound, Indexed
<1>6. Inserted(m, slot, v).count = m.count + 1
  BY <1>1, <1>2, <1>3 DEF Inserted, InsertedAt
<1> QED
  BY <1>5, <1>6

\* A memtable never has more records than buckets.
LEMMA CountWithin ==
    ASSUME NEW m, Sound(m)
    PROVE  m.count \in 0 .. Buckets /\ m.count = Cardinality(Occupied(m)) /\ IsFiniteSet(Occupied(m))
<1>1. 0 \in Int /\ Buckets - 1 \in Int /\ Buckets \in Nat \ {0}
  BY BucketsAssumption
<1>2. IsFiniteSet(BucketIndex) /\ Cardinality(BucketIndex) = Buckets
  BY <1>1, FS_Interval DEF BucketIndex
<1>3. Occupied(m) \in SUBSET BucketIndex
  BY DEF Occupied
<1>4. IsFiniteSet(Occupied(m)) /\ Cardinality(Occupied(m)) <= Buckets
  BY <1>2, <1>3, FS_Subset
<1>5. Cardinality(Occupied(m)) \in Nat
  BY <1>4, FS_CardinalityType
<1> QED
  BY <1>1, <1>4, <1>5 DEF Sound, Indexed

-----------------------------------------------------------------------------
(* Two memtables                                                           *)

\* Every name in e is in m, and what m has besides lies where e needs no room.
Within(e, m) ==
    /\ \A s \in NamespaceSlots, k \in Keys :
          LookupMemtable(e, s, k) # NoVersion => LookupMemtable(m, s, k) # NoVersion
    /\ Len(e.data) <= Len(m.data)
    /\ \A b \in Occupied(m) :
          LookupMemtable(e, RecordAt(m, b).slot, RecordAt(m, b).v.key) = NoVersion =>
              m.index[b].off + m.index[b].size <= Len(m.data) - Len(e.data)

\* The empty memtable is within any other.
LEMMA WithinEmpty ==
    ASSUME NEW m, Sound(m)
    PROVE  Within(EmptyMemtable, m)
<1>1. \A s \in NamespaceSlots, k \in Keys : LookupMemtable(EmptyMemtable, s, k) = NoVersion
  BY EmptySound
<1>2. Len(EmptyMemtable.data) = 0 /\ Len(m.data) \in Nat
  BY SoundTypes DEF EmptyMemtable
<1>3. \A b \in Occupied(m) : m.index[b].off + m.index[b].size <= Len(m.data)
  BY DEF Sound, Tiled
<1> QED
  BY <1>1, <1>2, <1>3 DEF Within

\* It has no more records, and fewer if a name is missing.
LEMMA WithinCount ==
    ASSUME NEW e, Sound(e), NEW m, Sound(m), Within(e, m)
    PROVE  /\ e.count <= m.count
           /\ \A s \in NamespaceSlots, k \in Keys :
                 LookupMemtable(e, s, k) = NoVersion /\ LookupMemtable(m, s, k) # NoVersion =>
                     e.count < m.count
<1> DEFINE at(b) == Find(m, RecordAt(e, b).slot, RecordAt(e, b).v.key)
           f == [b \in Occupied(e) |-> at(b)]
<1>1. ASSUME NEW b \in Occupied(e)
      PROVE  /\ RecordAt(e, b).slot \in NamespaceSlots /\ RecordAt(e, b).v.key \in Keys
             /\ Find(e, RecordAt(e, b).slot, RecordAt(e, b).v.key) = b
             /\ LookupMemtable(e, RecordAt(e, b).slot, RecordAt(e, b).v.key) # NoVersion
             /\ Matches(m, at(b), RecordAt(e, b).slot, RecordAt(e, b).v.key)
  <2>1. /\ RecordAt(e, b) \in [slot : NamespaceSlots, v : Version]
        /\ RecordAt(e, b).v.key \in Keys
        /\ Matches(e, b, RecordAt(e, b).slot, RecordAt(e, b).v.key)
    BY RecordOf
  <2>2. RecordAt(e, b).slot \in NamespaceSlots /\ RecordAt(e, b).v \in Version
    BY <2>1
  <2>3. Find(e, RecordAt(e, b).slot, RecordAt(e, b).v.key) = b
    BY <2>1, <2>2, MatchFound
  <2>4. LookupMemtable(e, RecordAt(e, b).slot, RecordAt(e, b).v.key) = RecordAt(e, b).v
    BY <2>1, <2>2, LookupIs
  <2>5. RecordAt(e, b).v # NoVersion
    BY <2>2 DEF Version, NoVersion
  <2>6. LookupMemtable(m, RecordAt(e, b).slot, RecordAt(e, b).v.key) # NoVersion
    BY <2>1, <2>2, <2>4, <2>5 DEF Within
  <2>7. Matches(m, at(b), RecordAt(e, b).slot, RecordAt(e, b).v.key)
    BY <2>1, <2>2, <2>6, LookupIs
  <2> QED
    BY <2>1, <2>2, <2>3, <2>4, <2>5, <2>7
<1>2. f \in Injection(Occupied(e), Occupied(m))
  <2>1. f \in [Occupied(e) -> Occupied(m)]
    BY <1>1 DEF Matches
  <2>2. ASSUME NEW b \in Occupied(e), NEW c \in Occupied(e), f[b] = f[c] PROVE b = c
    <3>1. at(b) = at(c)
      BY <2>2
    <3>2. /\ RecordAt(e, b).slot = RecordAt(e, c).slot
          /\ RecordAt(e, b).v.key = RecordAt(e, c).v.key
      BY <1>1, <3>1 DEF Matches
    <3> QED
      BY <1>1, <3>2
  <2> QED
    BY <2>1, <2>2, Zenon DEF Injection, IsInjective
<1>3. /\ e.count = Cardinality(Occupied(e)) /\ m.count = Cardinality(Occupied(m))
      /\ e.count \in Nat /\ m.count \in Nat
      /\ IsFiniteSet(Occupied(m))
  BY CountWithin
<1> HIDE DEF f
<1>4. /\ Cardinality(Occupied(e)) <= Cardinality(Occupied(m))
      /\ Cardinality(Occupied(e)) = Cardinality(Occupied(m)) <=>
            f \in Surjection(Occupied(e), Occupied(m))
  BY <1>2, <1>3, FS_Injection
<1>5. ASSUME NEW s \in NamespaceSlots, NEW k \in Keys,
             LookupMemtable(e, s, k) = NoVersion, LookupMemtable(m, s, k) # NoVersion
      PROVE  f \notin Surjection(Occupied(e), Occupied(m))
  <2>1. Matches(m, Find(m, s, k), s, k)
    BY <1>5, LookupIs
  <2>2. ASSUME NEW b \in Occupied(e), f[b] = Find(m, s, k) PROVE FALSE
    <3>1. Matches(m, Find(m, s, k), RecordAt(e, b).slot, RecordAt(e, b).v.key)
      BY <1>1, <2>2 DEF f
    <3>2. s = RecordAt(e, b).slot /\ k = RecordAt(e, b).v.key
      BY <2>1, <3>1 DEF Matches
    <3> QED
      BY <1>1, <1>5, <3>2
  <2>3. Find(m, s, k) \in Occupied(m)
    BY <2>1 DEF Matches
  <2> QED
    BY <2>2, <2>3 DEF Surjection
<1> QED
  BY <1>3, <1>4, <1>5

\* A version whose name is not in e, inserted into both.
LEMMA WithinInserted ==
    ASSUME NEW e, Sound(e), NEW m, Sound(m), Within(e, m),
           NEW slot \in NamespaceSlots, NEW v \in Version,
           HasBucket(e, slot, v.key), HasBucket(m, slot, v.key),
           LookupMemtable(e, slot, v.key) = NoVersion
    PROVE  Within(Inserted(e, slot, v), Inserted(m, slot, v))
<1>1. PICK b, o, n, l, z, y, w, u :
          /\ b = Find(m, slot, v.key) /\ o = HoleAt(m, b) /\ n = HoleSize(m, b)
          /\ l = Len(m.data) /\ z = RecordSize(v) /\ y = Len(e.data)
          /\ w = Inserted(m, slot, v) /\ u = Inserted(e, slot, v)
  OBVIOUS
<1>2. /\ v.key \in Keys /\ b \in BucketIndex /\ w = InsertedAt(m, b, slot, v)
      /\ b \in Occupied(m) => Matches(m, b, slot, v.key)
  BY <1>1, BucketFor DEF HasBucket, Inserted
<1>3. v # NoVersion
  BY DEF Version, NoVersion
<1>4. /\ \A s \in NamespaceSlots, k \in Keys :
            LookupMemtable(u, s, k) =
               IF s = slot /\ k = v.key THEN v ELSE LookupMemtable(e, s, k)
      /\ \A s \in NamespaceSlots, k \in Keys :
            LookupMemtable(w, s, k) =
               IF s = slot /\ k = v.key THEN v ELSE LookupMemtable(m, s, k)
  BY <1>1, InsertedLookup
<1>5. \A s \in NamespaceSlots, k \in Keys :
         LookupMemtable(u, s, k) # NoVersion => LookupMemtable(w, s, k) # NoVersion
  BY <1>3, <1>4 DEF Within
<1>6. Len(u.data) = y + z /\ y \in Nat
  <2>1. Len(u.data) = Len(e.data) - 0 + RecordSize(v)
    BY <1>1, InsertedUses
  <2>2. Len(e.data) \in Nat /\ RecordSize(v) \in Nat
    BY SoundTypes, NewCellsAre
  <2> QED
    BY <1>1, <2>1, <2>2
<1>7. /\ Len(w.data) = l - n + z
      /\ o \in Nat /\ n \in Nat /\ l \in Nat /\ z \in Nat \ {0} /\ o + n <= l
  BY <1>1, <1>2, InsertedData, SMTT(30)
<1>8. /\ Occupied(w) = Occupied(m) \cup {b} /\ RecordAt(w, b) = NewCell(slot, v)
      /\ \A x \in Occupied(m) \ {b} : RecordAt(w, x) = RecordAt(m, x)
  <2>1. Occupied(w) = Occupied(m) \cup {b} /\ RecordAt(w, b) = NewCell(slot, v)
    BY <1>1, <1>2, InsertedRecords
  <2>2. \A x \in Occupied(m) \ {b} : RecordAt(w, x) = RecordAt(m, x)
    BY <1>1, <1>2, InsertedRecords
  <2> QED
    BY <2>1, <2>2
<1>9. y <= l
  BY <1>1 DEF Within
<1>10. IF b \in Occupied(m) THEN o + n <= l - y ELSE n = 0
  <2>1. CASE b \in Occupied(m)
    <3>1. RecordAt(m, b).slot = slot /\ RecordAt(m, b).v.key = v.key
      BY <1>2, <2>1 DEF Matches
    <3>2. m.index[b].off + m.index[b].size <= l - y
      BY <1>1, <2>1, <3>1 DEF Within
    <3> QED
      BY <1>1, <2>1, <3>2 DEF HoleAt, HoleSize
  <2>2. CASE b \notin Occupied(m)
    BY <1>1, <2>2 DEF HoleSize
  <2> QED
    BY <2>1, <2>2
<1>11. Len(u.data) <= Len(w.data)
  BY <1>6, <1>7, <1>9, <1>10
<1>12. ASSUME NEW x \in Occupied(w),
              LookupMemtable(u, RecordAt(w, x).slot, RecordAt(w, x).v.key) = NoVersion
       PROVE  w.index[x].off + w.index[x].size <= Len(w.data) - Len(u.data)
  <2>1. x # b
    <3>1. RecordAt(w, b).slot = slot /\ RecordAt(w, b).v.key = v.key
      BY <1>8 DEF NewCell
    <3> QED
      BY <1>2, <1>3, <1>4, <1>12, <3>1
  <2>2. x \in Occupied(m) /\ RecordAt(w, x) = RecordAt(m, x)
    BY <1>8, <2>1
  <2>3. PICK f, k, g : f = m.index[x].off /\ k = m.index[x].size /\ g = w.index[x].off
    OBVIOUS
  <2>4. /\ f \in Nat /\ k \in Nat \ {0} /\ g \in Nat
        /\ w.index[x].size = k
    BY <1>1, <1>2, <2>1, <2>2, <2>3, InsertedPlaces
  <2>5. /\ f > o => f >= o + n /\ g = f - n
        /\ ~(f > o) => f + k <= o /\ g = f
    BY <1>1, <1>2, <2>1, <2>2, <2>3, InsertedPlaces
  <2>6. RecordAt(m, x).slot \in NamespaceSlots /\ RecordAt(m, x).v.key \in Keys
    BY <2>2, RecordOf
  <2>7. LookupMemtable(e, RecordAt(m, x).slot, RecordAt(m, x).v.key) = NoVersion
    BY <1>3, <1>4, <1>12, <2>2, <2>6
  <2>8. f + k <= l - y
    BY <1>1, <2>2, <2>3, <2>7 DEF Within
  <2>9. g + k <= (l - n + z) - (y + z)
    <3>1. CASE f > o
      BY <1>6, <1>7, <2>4, <2>5, <2>8, <3>1
    <3>2. CASE ~(f > o)
      BY <1>6, <1>7, <1>10, <2>4, <2>5, <2>8, <3>2
    <3> QED
      BY <3>1, <3>2
  <2> QED
    BY <1>6, <1>7, <2>3, <2>4, <2>9
<1>13. Within(u, w)
  BY <1>5, <1>11, <1>12 DEF Within
<1> QED
  BY <1>1, <1>13

-----------------------------------------------------------------------------
(* Transactions                                                            *)

\* What a transaction consists of.
LEMMA TransactionIs ==
    ASSUME NEW muts \in Transactions
    PROVE  /\ Len(muts) \in Nat \ {0} /\ DOMAIN muts = 1 .. Len(muts)
           /\ \A i \in 1 .. Len(muts) :
                 /\ muts[i].key \in Keys /\ muts[i].del \in BOOLEAN /\ muts[i].size \in Nat
                 /\ NamespaceOf[muts[i].key] = NamespaceOf[muts[1].key]
           /\ \A i, j \in 1 .. Len(muts) : i < j => muts[i].key < muts[j].key
<1>1. PICK n \in 1 .. MaxMutations : muts \in [1 .. n -> Mutation]
  BY DEF Transactions
<1>2. n \in Nat \ {0} /\ Len(muts) = n /\ DOMAIN muts = 1 .. n
  BY <1>1, LsmAssumption
<1>3. ASSUME NEW x \in Mutation
      PROVE  x.key \in Keys /\ x.del \in BOOLEAN /\ x.size \in Nat
  <2> DEFINE M(k) == [key : {k}, del : {FALSE}, size : Sizes[k]] \cup [key : {k}, del : {TRUE}, size : {0}]
  <2>0. x \in UNION {M(k) : k \in Keys}
    BY DEF Mutation
  <2> HIDE DEF M
  <2>5. PICK k \in Keys : x \in M(k)
    BY <2>0
  <2>1. \/ x \in [key : {k}, del : {FALSE}, size : Sizes[k]]
        \/ x \in [key : {k}, del : {TRUE}, size : {0}]
    BY <2>5 DEF M
  <2>2. Sizes[k] \in SUBSET Nat
    BY LsmAssumption
  <2>3. CASE x \in [key : {k}, del : {FALSE}, size : Sizes[k]]
    BY <2>2, <2>3
  <2>4. CASE x \in [key : {k}, del : {TRUE}, size : {0}]
    <3>1. x.key \in {k} /\ x.size \in {0}
      BY <2>4
    <3>2. x.del \in {TRUE}
      BY <2>4, Zenon
    <3>3. x.del \in BOOLEAN
      BY <3>2, Zenon
    <3> QED
      BY <3>1, <3>3
  <2> QED
    BY <2>1, <2>3, <2>4
<1>4. /\ \A i, j \in DOMAIN muts : i < j => muts[i].key < muts[j].key
      /\ \A i \in DOMAIN muts : NamespaceOf[muts[i].key] = NamespaceOf[muts[1].key]
  BY DEF Transactions
<1> QED
  BY <1>1, <1>2, <1>3, <1>4

\* The version that a mutation makes.
LEMMA VersionFromIs ==
    ASSUME NEW muts \in Transactions, NEW i \in 1 .. Len(muts), NEW seq \in Nat \ {0}
    PROVE  /\ VersionFrom(muts[i], seq) \in Version
           /\ VersionFrom(muts[i], seq).key = muts[i].key
           /\ VersionFrom(muts[i], seq).seq = seq
           /\ RecordSize(VersionFrom(muts[i], 0)) = RecordSize(VersionFrom(muts[i], seq))
           /\ muts[i].key \in Keys
<1>1. muts[i].key \in Keys /\ muts[i].del \in BOOLEAN /\ muts[i].size \in Nat
  BY TransactionIs
<1> QED
  BY <1>1 DEF VersionFrom, Version, RecordSize, External

\* The first mutations, one after the other.
LEMMA WithTurn ==
    ASSUME NEW m, NEW slot, NEW muts, NEW seq, NEW n \in Nat
    PROVE  /\ With(m, slot, muts, seq, 0) = m
           /\ With(m, slot, muts, seq, n + 1) =
                 Inserted(With(m, slot, muts, seq, n), slot, VersionFrom(muts[n + 1], seq))
<1> DEFINE c == Insertions(slot, muts, seq)
<1>1. /\ Inserting!Iterated(c, m, 0) = m
      /\ Inserting!Iterated(c, m, n + 1) = InsertTurn(c, Inserting!Iterated(c, m, n), n + 1)
  BY Inserting!IteratedTurns
<1>2. c.slot = slot /\ c.muts = muts /\ c.seq = seq
  BY DEF Insertions
<1> QED
  BY <1>1, <1>2 DEF With, InsertTurn

LEMMA WithTurnAt ==
    ASSUME NEW m, NEW slot, NEW muts, NEW seq, NEW n \in Nat \ {0}
    PROVE  With(m, slot, muts, seq, n) =
              Inserted(With(m, slot, muts, seq, n - 1), slot, VersionFrom(muts[n], seq))
<1>1. PICK k \in Nat : k = n - 1
  OBVIOUS
<1>2. n = k + 1
  BY <1>1
<1>3. With(m, slot, muts, seq, k + 1) =
         Inserted(With(m, slot, muts, seq, k), slot, VersionFrom(muts[k + 1], seq))
  BY WithTurn
<1> QED
  BY <1>1, <1>2, <1>3

SoundUpTo(m, s) == Sound(m) /\ \A b \in Occupied(m) : RecordAt(m, b).v.seq < s

\* A mutation for which there is room keeps the memtable sound.
LEMMA WithRoom ==
    ASSUME NEW m, NEW s \in Nat, SoundUpTo(m, s), NEW slot \in NamespaceSlots,
           NEW muts \in Transactions, NEW seq \in Nat \ {0}, seq < s,
           NEW i \in 1 .. Len(muts), NEW v, v = VersionFrom(muts[i], seq),
           Inserted(m, slot, v).count <= Buckets
    PROVE  /\ HasBucket(m, slot, v.key) /\ SoundUpTo(Inserted(m, slot, v), s)
<1>1. v \in Version /\ v.seq = seq
  BY VersionFromIs
<1>2. HasBucket(m, slot, v.key)
  <2> SUFFICES ASSUME ~HasBucket(m, slot, v.key) PROVE FALSE
    OBVIOUS
  <2>1. Inserted(m, slot, v).count = Buckets + 1
    BY <1>1, FullOverflows DEF SoundUpTo
  <2> QED
    BY <2>1, BucketsAssumption
<1>3. Sound(Inserted(m, slot, v))
  BY <1>1, <1>2, InsertedSound DEF SoundUpTo
<1>4. ASSUME NEW x \in Occupied(Inserted(m, slot, v))
      PROVE  RecordAt(Inserted(m, slot, v), x).v.seq < s
  <2>1. \/ RecordAt(Inserted(m, slot, v), x) = NewCell(slot, v)
        \/ \E y \in Occupied(m) : RecordAt(Inserted(m, slot, v), x) = RecordAt(m, y)
    BY <1>1, <1>2, InsertedContent DEF SoundUpTo
  <2>2. NewCell(slot, v).v = v
    BY DEF NewCell
  <2> QED
    BY <1>1, <2>1, <2>2 DEF SoundUpTo
<1> QED
  BY <1>2, <1>3, <1>4 DEF SoundUpTo

\* A transaction that fits keeps the memtable sound.
LEMMA FitsSound ==
    ASSUME NEW m, NEW s \in Nat, SoundUpTo(m, s), NEW slot \in NamespaceSlots,
           NEW muts \in Transactions, NEW seq \in Nat \ {0}, seq < s,
           FitsFrom(m, slot, muts, seq)
    PROVE  /\ \A n \in 0 .. Len(muts) : SoundUpTo(With(m, slot, muts, seq, n), s)
           /\ \A n \in 1 .. Len(muts) :
                 HasBucket(With(m, slot, muts, seq, n - 1), slot, muts[n].key)
<1> DEFINE W(n) == With(m, slot, muts, seq, n)
           L == Len(muts)
<1>1. L \in Nat \ {0}
  BY TransactionIs
<1>2. W(0) = m
  BY WithTurn
<1>3. ASSUME NEW n \in 1 .. L, SoundUpTo(W(n - 1), s)
      PROVE  HasBucket(W(n - 1), slot, muts[n].key) /\ SoundUpTo(W(n), s)
  <2>1. n \in Nat \ {0} /\ n - 1 \in Nat /\ (n - 1) + 1 = n /\ n \in 0 .. L
    BY <1>1
  <2>2. PICK v : v = VersionFrom(muts[n], seq)
    OBVIOUS
  <2>3. W(n) = Inserted(W(n - 1), slot, v)
    BY <2>1, <2>2, WithTurnAt
  <2>4. W(n).count <= Buckets
    BY <2>1 DEF FitsFrom
  <2> HIDE DEF W
  <2>5. HasBucket(W(n - 1), slot, v.key) /\ SoundUpTo(Inserted(W(n - 1), slot, v), s)
    BY <1>3, <2>2, <2>3, <2>4, WithRoom
  <2>6. v.key = muts[n].key
    BY <2>2 DEF VersionFrom
  <2> QED
    BY <2>3, <2>5, <2>6
<1> HIDE DEF W
<1>4. \A n \in 0 .. L : SoundUpTo(W(n), s)
  <2> DEFINE S == {k \in 0 .. L : SoundUpTo(W(k), s)}
  <2>1. 0 \in S /\ \A n \in 1 .. L : n - 1 \in S => n \in S
    BY <1>1, <1>2, <1>3
  <2>2. \A n \in 0 .. L : n \in S
    <3> HIDE DEF S
    <3> QED
      BY <1>1, <2>1, EveryTurn
  <2> QED
    BY <2>2
<1>5. \A n \in 1 .. L : HasBucket(W(n - 1), slot, muts[n].key)
  <2> TAKE n \in 1 .. L
  <2>1. n - 1 \in 0 .. L
    BY <1>1
  <2> QED
    BY <1>3, <1>4, <2>1
<1> QED
  BY <1>4, <1>5 DEF W

\* What fits into a memtable fits into an empty one.
LEMMA FitsEmpty ==
    ASSUME NEW m, NEW s \in Nat, SoundUpTo(m, s), NEW slot \in NamespaceSlots,
           NEW muts \in Transactions, NEW seq \in Nat \ {0}, seq < s,
           FitsFrom(m, slot, muts, seq)
    PROVE  FitsFrom(EmptyMemtable, slot, muts, seq)
<1> DEFINE W(n) == With(m, slot, muts, seq, n)
           E(n) == With(EmptyMemtable, slot, muts, seq, n)
           L == Len(muts)
           Good(n) == /\ Sound(E(n)) /\ Within(E(n), W(n))
                      /\ \A j \in n + 1 .. L : LookupMemtable(E(n), slot, muts[j].key) = NoVersion
<1>1. L \in Nat \ {0} /\ \A i, j \in 1 .. L : i < j => muts[i].key < muts[j].key
  BY TransactionIs
<1>2. \A i \in 1 .. L : muts[i].key \in Keys
  BY TransactionIs
<1>3. \A n \in 0 .. L : Sound(W(n))
  BY FitsSound DEF SoundUpTo
<1>4. Good(0)
  <2>1. E(0) = EmptyMemtable /\ W(0) = m
    BY WithTurn
  <2>2. Sound(E(0)) /\ Within(E(0), W(0))
    BY <2>1, EmptySound, WithinEmpty DEF SoundUpTo
  <2>3. \A j \in 1 .. L : LookupMemtable(E(0), slot, muts[j].key) = NoVersion
    BY <1>2, <2>1, EmptySound
  <2> QED
    BY <2>2, <2>3
<1>5. ASSUME NEW n \in 1 .. L, Good(n - 1) PROVE Good(n)
  <2>1. n - 1 \in Nat /\ (n - 1) + 1 = n /\ n \in 0 .. L /\ n - 1 \in 0 .. L
    BY <1>1
  <2>2. PICK v, e, w : v = VersionFrom(muts[n], seq) /\ e = E(n - 1) /\ w = W(n - 1)
    OBVIOUS
  <2>3. v \in Version /\ v.key = muts[n].key /\ muts[n].key \in Keys
    BY <2>2, VersionFromIs
  <2>4. W(n) = Inserted(w, slot, v) /\ E(n) = Inserted(e, slot, v)
    BY <2>1, <2>2, WithTurn
  <2>5. HasBucket(w, slot, v.key)
    BY <2>2, <2>3, FitsSound
  <2>6. W(n).count <= Buckets
    BY <2>1 DEF FitsFrom
  <2>7. Sound(w)
    BY <1>3, <2>1, <2>2
  <2> HIDE DEF W, E
  <2>8. /\ Sound(e) /\ Within(e, w)
        /\ \A j \in n .. L : LookupMemtable(e, slot, muts[j].key) = NoVersion
    BY <1>5, <2>1, <2>2
  <2>9. LookupMemtable(e, slot, v.key) = NoVersion
    BY <1>1, <2>3, <2>8
  <2>10. e.count \in 0 .. Buckets /\ w.count \in 0 .. Buckets
    BY <2>7, <2>8, CountWithin
  <2>11. e.count < Buckets
    <3>1. CASE LookupMemtable(w, slot, v.key) # NoVersion
      <4>1. e.count < w.count
        BY <2>3, <2>7, <2>8, <2>9, <3>1, WithinCount
      <4> QED
        BY <2>10, <4>1, BucketsAssumption
    <3>2. CASE LookupMemtable(w, slot, v.key) = NoVersion
      <4>1. e.count <= w.count
        BY <2>7, <2>8, WithinCount
      <4>2. Inserted(w, slot, v).count = w.count + 1
        BY <2>3, <2>5, <2>7, <3>2, InsertedUses
      <4> QED
        BY <2>4, <2>6, <2>10, <4>1, <4>2, BucketsAssumption
    <3> QED
      BY <3>1, <3>2
  <2>12. HasBucket(e, slot, v.key)
    BY <2>3, <2>8, <2>11, BucketIsCounted
  <2>13. Sound(E(n))
    BY <2>3, <2>4, <2>8, <2>12, InsertedSound
  <2>14. Within(E(n), W(n))
    BY <2>3, <2>4, <2>5, <2>7, <2>8, <2>9, <2>12, WithinInserted
  <2>15. ASSUME NEW j \in n + 1 .. L
         PROVE  LookupMemtable(E(n), slot, muts[j].key) = NoVersion
    <3>1. j \in n .. L /\ n < j /\ j \in 1 .. L
      BY <1>1
    <3>2. muts[j].key # muts[n].key
      <4>1. muts[n].key < muts[j].key
        BY <1>1, <3>1
      <4>2. muts[n].key \in Nat /\ muts[j].key \in Nat
        BY <1>2, <3>1, KeysAssumption
      <4> QED
        BY <4>1, <4>2
    <3>3. LookupMemtable(e, slot, muts[j].key) = NoVersion
      BY <2>8, <3>1
    <3>4. LookupMemtable(Inserted(e, slot, v), slot, muts[j].key) =
             LookupMemtable(e, slot, muts[j].key)
      BY <1>2, <2>3, <2>8, <2>12, <3>1, <3>2, InsertedLookup
    <3> QED
      BY <2>4, <3>3, <3>4
  <2> QED
    BY <2>13, <2>14, <2>15
<1>6. ASSUME NEW n \in 0 .. L PROVE Good(n)
  <2> HIDE DEF Good
  <2> DEFINE S == {k \in 0 .. L : Good(k)}
  <2>1. 0 \in S /\ \A k \in 1 .. L : k - 1 \in S => k \in S
    BY <1>1, <1>4, <1>5
  <2>2. \A k \in 0 .. L : k \in S
    <3> HIDE DEF S
    <3> QED
      BY <1>1, <2>1, EveryTurn
  <2> QED
    BY <2>2
<1>7. ASSUME NEW n \in 0 .. L
      PROVE  E(n).count <= Buckets /\ Len(E(n).data) <= DataSize
  <2>1. PICK e, w : e = E(n) /\ w = W(n)
    OBVIOUS
  <2>2. Sound(e) /\ Sound(w) /\ Within(e, w)
    BY <1>3, <1>6, <2>1
  <2>3. w.count <= Buckets /\ Len(w.data) <= DataSize
    BY <2>1 DEF FitsFrom
  <2>4. e.count \in 0 .. Buckets
    BY <2>2, CountWithin
  <2>5. Len(e.data) <= Len(w.data) /\ Len(e.data) \in Nat /\ Len(w.data) \in Nat
    BY <2>2, SoundTypes DEF Within
  <2> QED
    BY <2>1, <2>3, <2>4, <2>5, BucketsAssumption
<1> QED
  BY <1>7 DEF FitsFrom

-----------------------------------------------------------------------------
(* Preflight                                                               *)

PreflightOf(db, slot, muts) == [db |-> db, slot |-> slot, muts |-> muts]

\* The state of preflight after n mutations.
Claims(db, slot, muts, n) ==
    Preflighting!Iterated(PreflightOf(db, slot, muts), PreflightStart(db, slot), n)

\* A turn of preflight.
LEMMA PreflightStep ==
    ASSUME NEW db, NEW slot, NEW muts, NEW n \in Nat
    PROVE  /\ Claims(db, slot, muts, 0) = PreflightStart(db, slot)
           /\ Claims(db, slot, muts, n + 1) =
                 PreflightMutation(db, slot, Claims(db, slot, muts, n), muts[n + 1])
<1> DEFINE c == PreflightOf(db, slot, muts)
           z == PreflightStart(db, slot)
<1>1. /\ Preflighting!Iterated(c, z, 0) = z
      /\ Preflighting!Iterated(c, z, n + 1) = PreflightTurn(c, Preflighting!Iterated(c, z, n), n + 1)
  BY Preflighting!IteratedTurns
<1>2. c.db = db /\ c.slot = slot /\ c.muts = muts
  BY DEF PreflightOf
<1> HIDE DEF c, z
<1> QED
  BY <1>1, <1>2 DEF Claims, PreflightTurn, c, z

\* What a turn without an error counts.
LEMMA ClaimedIs ==
    ASSUME NEW a, NEW v, NEW r, NEW e, Claimed(a, v, r, e).error = "none"
    PROVE  /\ Claimed(a, v, r, e).bytes =
                 a.bytes - (IF r # NoVersion THEN RecordSize(r) ELSE 0) + RecordSize(v)
           /\ Claimed(a, v, r, e).entries = a.entries + (IF r # NoVersion THEN 0 ELSE 1)
           /\ ~ (RecordSize(v) >
                    DataSize - (a.bytes - (IF r # NoVersion THEN RecordSize(r) ELSE 0)))
BY DEF Claimed

\* Without an error at the end there was none before.
LEMMA PreflightErrors ==
    ASSUME NEW db, NEW slot, NEW muts, Len(muts) \in Nat,
           Claims(db, slot, muts, Len(muts)).error = "none"
    PROVE  \A n \in 0 .. Len(muts) : Claims(db, slot, muts, n).error = "none"
<1> DEFINE A(n) == Claims(db, slot, muts, n)
           L == Len(muts)
           S == {n \in 0 .. L : A(n).error = "none"}
<1>1. L \in S
  OBVIOUS
<1>2. ASSUME NEW n \in 1 .. L, n \in S PROVE n - 1 \in S
  <2>1. n - 1 \in Nat /\ (n - 1) + 1 = n /\ n - 1 \in 0 .. L
    OBVIOUS
  <2>2. A(n) = PreflightMutation(db, slot, A(n - 1), muts[n])
    BY <2>1, PreflightStep
  <2> HIDE DEF A
  <2>3. A(n - 1).error # "none" => A(n) = A(n - 1)
    BY <2>2 DEF PreflightMutation
  <2> QED
    BY <1>2, <2>1, <2>3
<1>3. \A n \in 0 .. L : n \in S
  <2> HIDE DEF S
  <2> QED
    BY <1>1, <1>2, EarlierTurn
<1> QED
  BY <1>3

\* The counts of preflight are those of the memtable that apply makes.
LEMMA PreflightCounts ==
    ASSUME NEW db, NEW slot \in NamespaceSlots, NEW muts \in Transactions,
           NEW seq \in Nat \ {0}, Sound(db.mem), Len(db.mem.data) <= DataSize,
           Claims(db, slot, muts, Len(muts)).error = "none",
           ~ (Claims(db, slot, muts, Len(muts)).entries > Buckets)
    PROVE  FitsFrom(db.mem, slot, muts, seq)
<1> DEFINE A(n) == Claims(db, slot, muts, n)
           W(n) == With(db.mem, slot, muts, seq, n)
           L == Len(muts)
           R(n) == LookupMemtable(db.mem, slot, muts[n].key)
           Same(n) == \A j \in n + 1 .. L : LookupMemtable(W(n), slot, muts[j].key) = R(j)
           Good(n) == /\ Sound(W(n)) /\ Same(n)
                      /\ A(n).entries = W(n).count /\ A(n).bytes = Len(W(n).data)
                      /\ W(n).count <= Buckets /\ Len(W(n).data) <= DataSize
<1>1. /\ L \in Nat \ {0}
      /\ \A i, j \in 1 .. L : i < j => muts[i].key < muts[j].key
      /\ \A i \in 1 .. L : muts[i].key \in Keys
  BY TransactionIs
<1>2. \A n \in 0 .. L : A(n).error = "none"
  <2>1. Len(muts) \in Nat
    BY <1>1
  <2>2. \A n \in 0 .. Len(muts) : Claims(db, slot, muts, n).error = "none"
    BY <2>1, PreflightErrors
  <2> QED
    BY <2>2
<1>3. A(0) = PreflightStart(db, slot) /\ W(0) = db.mem
  <2>1. 0 \in Nat
    OBVIOUS
  <2>2. Claims(db, slot, muts, 0) = PreflightStart(db, slot)
    BY <2>1, PreflightStep
  <2>3. PICK m : m = db.mem
    OBVIOUS
  <2>4. With(m, slot, muts, seq, 0) = m
    BY <2>1, WithTurn
  <2> QED
    BY <2>2, <2>3, <2>4
<1>4. ASSUME NEW n \in 1 .. L
      PROVE  /\ n - 1 \in 0 .. L /\ n \in 0 .. L
             /\ \E e : A(n) = Claimed(A(n - 1), VersionFrom(muts[n], 0), R(n), e)
             /\ W(n) = Inserted(W(n - 1), slot, VersionFrom(muts[n], seq))
  <2>1. n \in Nat \ {0} /\ n - 1 \in Nat /\ (n - 1) + 1 = n /\ n - 1 \in 0 .. L /\ n \in 0 .. L
    BY <1>1
  <2>2. A(n) = PreflightMutation(db, slot, A(n - 1), muts[n])
    BY <2>1, PreflightStep
  <2>3. W(n) = Inserted(W(n - 1), slot, VersionFrom(muts[n], seq))
    BY <2>1, WithTurnAt
  <2>4. A(n - 1).error = "none"
    BY <1>2, <2>1
  <2> HIDE DEF A, W
  <2>5. A(n) = Claimed(A(n - 1), VersionFrom(muts[n], 0), R(n), LookupTables(db.tables, muts[n].key))
    BY <2>2, <2>4 DEF PreflightMutation
  <2> QED
    BY <2>1, <2>3, <2>5
<1> HIDE DEF A, W
<1>5. ASSUME NEW n \in 1 .. L
      PROVE  /\ A(n).bytes = A(n - 1).bytes - (IF R(n) # NoVersion THEN RecordSize(R(n)) ELSE 0)
                                + RecordSize(VersionFrom(muts[n], seq))
             /\ A(n).entries = A(n - 1).entries + (IF R(n) # NoVersion THEN 0 ELSE 1)
             /\ ~ (RecordSize(VersionFrom(muts[n], seq)) >
                     DataSize - (A(n - 1).bytes
                                   - (IF R(n) # NoVersion THEN RecordSize(R(n)) ELSE 0)))
  <2>1. PICK e : A(n) = Claimed(A(n - 1), VersionFrom(muts[n], 0), R(n), e)
    BY <1>4
  <2>2. Claimed(A(n - 1), VersionFrom(muts[n], 0), R(n), e).error = "none"
    BY <1>2, <1>4, <2>1
  <2>3. RecordSize(VersionFrom(muts[n], 0)) = RecordSize(VersionFrom(muts[n], seq))
    BY VersionFromIs
  <2> HIDE DEF R
  <2> QED
    BY <2>1, <2>2, <2>3, ClaimedIs
<1>6. \A n \in 0 .. L : A(n).entries \in Int
  <2> DEFINE S == {n \in 0 .. L : A(n).entries \in Int}
  <2>1. 0 \in S
    <3>1. A(0).entries = db.mem.count /\ db.mem.count \in Nat
      BY <1>3, SoundTypes DEF PreflightStart
    <3> QED
      BY <1>1, <3>1
  <2>2. ASSUME NEW n \in 1 .. L, n - 1 \in S PROVE n \in S
    BY <1>4, <1>5, <2>2
  <2>3. \A n \in 0 .. L : n \in S
    <3> HIDE DEF S
    <3> QED
      BY <1>1, <2>1, <2>2, EveryTurn
  <2> QED
    BY <2>3
<1>7. \A n \in 0 .. L : A(n).entries <= Buckets
  <2> DEFINE S == {n \in 0 .. L : A(n).entries <= Buckets}
  <2>1. L \in S
    <3>1. L \in 0 .. L
      BY <1>1
    <3>2. A(L).entries \in Int /\ ~ (A(L).entries > Buckets)
      BY <1>6, <3>1 DEF A
    <3> QED
      BY <3>1, <3>2, BucketsAssumption
  <2>2. ASSUME NEW n \in 1 .. L, n \in S PROVE n - 1 \in S
    <3>1. /\ A(n).entries \in Int /\ A(n - 1).entries \in Int
          /\ A(n - 1).entries <= A(n).entries
      <4>1. A(n).entries \in Int /\ A(n - 1).entries \in Int
        BY <1>4, <1>6
      <4>2. A(n).entries = A(n - 1).entries \/ A(n).entries = A(n - 1).entries + 1
        BY <1>5, <4>1
      <4> QED
        BY <4>1, <4>2
    <3> QED
      BY <1>4, <2>2, <3>1, BucketsAssumption
  <2>3. \A n \in 0 .. L : n \in S
    <3> HIDE DEF S
    <3> QED
      BY <1>1, <2>1, <2>2, EarlierTurn
  <2> QED
    BY <2>3
<1>8. Good(0)
  <2>1. A(0).entries = db.mem.count /\ A(0).bytes = Len(db.mem.data)
    BY <1>3 DEF PreflightStart
  <2>2. A(0).entries <= Buckets
    BY <1>1, <1>7
  <2>3. Same(0)
    BY <1>3
  <2> QED
    BY <1>3, <2>1, <2>2, <2>3
<1>9. ASSUME NEW n \in 1 .. L, Good(n - 1) PROVE Good(n)
  <2>1. PICK v, w, r, x : v = VersionFrom(muts[n], seq) /\ w = W(n - 1) /\ r = R(n) /\ x = A(n - 1)
    OBVIOUS
  <2>2. v \in Version /\ v.key = muts[n].key /\ muts[n].key \in Keys
    BY <2>1, VersionFromIs
  <2>3. /\ Sound(w) /\ x.entries = w.count /\ x.bytes = Len(w.data)
        /\ w.count <= Buckets /\ Len(w.data) <= DataSize
        /\ \A j \in (n - 1) + 1 .. L : LookupMemtable(w, slot, muts[j].key) = R(j)
    BY <1>9, <2>1
  <2>4. n \in (n - 1) + 1 .. L
    BY <1>1
  <2>5. LookupMemtable(w, slot, v.key) = r
    BY <2>1, <2>2, <2>3, <2>4
  <2>6. A(n).entries <= Buckets /\ A(n).entries \in Int
    BY <1>4, <1>6, <1>7
  <2>7. /\ A(n).bytes = x.bytes - (IF r # NoVersion THEN RecordSize(r) ELSE 0) + RecordSize(v)
        /\ A(n).entries = x.entries + (IF r # NoVersion THEN 0 ELSE 1)
        /\ ~ (RecordSize(v) > DataSize - (x.bytes - (IF r # NoVersion THEN RecordSize(r) ELSE 0)))
    <3> HIDE DEF R
    <3> QED
      BY <1>5, <2>1
  <2>8. w.count \in Nat /\ Len(w.data) \in Nat
    BY <2>3, SoundTypes
  <2>9. w.count < Buckets \/ r # NoVersion
    BY <2>3, <2>6, <2>7, <2>8, BucketsAssumption
  <2>10. HasBucket(w, slot, v.key)
    BY <2>2, <2>3, <2>5, <2>9, BucketIsCounted
  <2>11. W(n) = Inserted(w, slot, v)
    BY <1>4, <2>1
  <2> HIDE DEF R
  <2>12. Sound(W(n))
    BY <2>2, <2>3, <2>10, <2>11, InsertedSound
  <2>13. /\ Len(W(n).data) = Len(w.data) - (IF r # NoVersion THEN RecordSize(r) ELSE 0)
                                + RecordSize(v)
         /\ W(n).count = w.count + (IF r # NoVersion THEN 0 ELSE 1)
    BY <2>2, <2>3, <2>5, <2>10, <2>11, InsertedUses
  <2>14. A(n).entries = W(n).count /\ A(n).bytes = Len(W(n).data) /\ W(n).count <= Buckets
    BY <2>3, <2>6, <2>7, <2>13
  <2>15. Len(W(n).data) <= DataSize
    <3>1. RecordSize(v) \in Nat
      BY <2>2, NewCellsAre
    <3>2. r # NoVersion => RecordSize(r) \in Nat
      <4> SUFFICES ASSUME r # NoVersion PROVE RecordSize(r) \in Nat
        OBVIOUS
      <4>1. r \in Version
        BY <2>2, <2>3, <2>5, LookupIs
      <4> QED
        BY <4>1, NewCellsAre
    <3>3. DataSize \in Nat
      BY BucketsAssumption
    <3>4. PICK q : q = IF r # NoVersion THEN RecordSize(r) ELSE 0
      OBVIOUS
    <3>5. q \in Nat
      BY <3>2, <3>4
    <3>6. ~ (RecordSize(v) > DataSize - (Len(w.data) - q)) /\ Len(W(n).data) = Len(w.data) - q + RecordSize(v)
      BY <2>3, <2>7, <2>13, <3>4
    <3>7. PICK a, b, d : a = Len(w.data) /\ b = RecordSize(v) /\ d = Len(W(n).data)
      OBVIOUS
    <3>8. a \in Nat /\ b \in Nat /\ d = a - q + b /\ ~ (b > DataSize - (a - q))
      BY <2>8, <3>1, <3>6, <3>7
    <3>9. d <= DataSize
      BY <3>3, <3>5, <3>8
    <3> QED
      BY <3>7, <3>9
  <2>16. ASSUME NEW j \in n + 1 .. L PROVE LookupMemtable(W(n), slot, muts[j].key) = R(j)
    <3>1. j \in (n - 1) + 1 .. L /\ n < j /\ j \in 1 .. L
      BY <1>1
    <3>2. muts[j].key # muts[n].key
      <4>1. muts[n].key < muts[j].key
        BY <1>1, <3>1
      <4>2. muts[n].key \in Nat /\ muts[j].key \in Nat
        BY <1>1, <3>1, KeysAssumption
      <4> QED
        BY <4>1, <4>2
    <3>3. LookupMemtable(w, slot, muts[j].key) = R(j)
      BY <2>3, <3>1
    <3>4. muts[j].key \in Keys
      BY <1>1, <3>1
    <3>5. LookupMemtable(Inserted(w, slot, v), slot, muts[j].key) =
             LookupMemtable(w, slot, muts[j].key)
      BY <2>2, <2>3, <2>10, <3>2, <3>4, InsertedLookup
    <3> QED
      BY <2>11, <3>3, <3>5
  <2> QED
    BY <2>12, <2>14, <2>15, <2>16
<1>10. \A n \in 0 .. L : Good(n)
  <2> HIDE DEF Good
  <2> DEFINE S == {k \in 0 .. L : Good(k)}
  <2>1. 0 \in S /\ \A k \in 1 .. L : k - 1 \in S => k \in S
    BY <1>1, <1>8, <1>9
  <2>2. \A k \in 0 .. L : k \in S
    <3> HIDE DEF S
    <3> QED
      BY <1>1, <2>1, EveryTurn
  <2> QED
    BY <2>2
<1> QED
  BY <1>10 DEF FitsFrom, W

\* What preflight accepts has a namespace slot and room in the memtable.
LEMMA PreflightFits ==
    ASSUME NEW db, NEW muts \in Transactions, NEW seq \in Nat \ {0},
           Sound(db.mem), Len(db.mem.data) <= DataSize,
           NEW slot, slot = NamespaceSlot(db.spaces, Namespace(muts)),
           slot \in 0 .. MaxNamespaces, Preflight(db, muts).error = "none"
    PROVE  slot \in NamespaceSlots /\ FitsFrom(db.mem, slot, muts, seq)
<1>1. Len(muts) \in Nat \ {0}
  BY TransactionIs
<1>2. PICK a : a = Claims(db, slot, muts, Len(muts))
  OBVIOUS
<1>3. Preflight(db, muts) = BucketsLeft(a)
  BY <1>2 DEF Preflight, PreflightMutations, Claims, PreflightOf
<1>4. a.error = "none" /\ ~ (a.entries > Buckets)
  BY <1>3 DEF BucketsLeft
<1>5. slot # 0
  <2>1. Claims(db, slot, muts, 0).error = "none"
    BY <1>1, <1>2, <1>4, PreflightErrors
  <2>2. Claims(db, slot, muts, 0) = PreflightStart(db, slot)
    BY PreflightStep
  <2> QED
    BY <2>1, <2>2 DEF PreflightStart
<1>6. slot \in NamespaceSlots
  BY <1>5, BucketsAssumption DEF NamespaceSlots
<1> QED
  BY <1>2, <1>4, <1>6, PreflightCounts

-----------------------------------------------------------------------------
(* Apply                                                                   *)

\* What apply makes of the memtable, the names and the error.
LEMMA AppliedIs ==
    ASSUME NEW db, NEW muts, Len(muts) \in Nat, NEW prev, NEW seq
    PROVE  /\ Applied(db, muts, prev, seq).mem =
                 With(db.mem, NamespaceSlot(db.spaces, Namespace(muts)), muts, seq, Len(muts))
           /\ Applied(db, muts, prev, seq).spaces = WithNamespace(db.spaces, Namespace(muts))
           /\ Applied(db, muts, prev, seq).error = db.error
<1> DEFINE slot == NamespaceSlot(db.spaces, Namespace(muts))
           start == WithSpace(db, Namespace(muts))
           W(n) == With(db.mem, slot, muts, seq, n)
           L == Len(muts)
<1>1. PICK c : c = [slot |-> slot, muts |-> muts, prev |-> prev, seq |-> seq]
  OBVIOUS
<1>2. c.slot = slot /\ c.muts = muts /\ c.prev = prev /\ c.seq = seq
  BY <1>1
<1> DEFINE A(n) == Applying!Iterated(c, start, n)
           Good(n) == /\ A(n).mem = W(n) /\ A(n).spaces = start.spaces
                      /\ A(n).error = start.error
<1>3. start.mem = db.mem /\ start.spaces = WithNamespace(db.spaces, Namespace(muts))
      /\ start.error = db.error
  BY DEF WithSpace
<1>4. Applied(db, muts, prev, seq) = A(L)
  BY <1>1 DEF Applied
<1> HIDE DEF slot, start
<1>5. Good(0)
  <2>1. A(0) = start
    BY Applying!IteratedTurns
  <2>2. W(0) = db.mem
    BY WithTurn
  <2> QED
    BY <1>3, <2>1, <2>2
<1>6. ASSUME NEW n \in 1 .. L, Good(n - 1) PROVE Good(n)
  <2>1. n \in Nat \ {0} /\ n - 1 \in Nat /\ (n - 1) + 1 = n
    OBVIOUS
  <2>2. A(n) = ApplyTurn(c, A(n - 1), n)
    BY <2>1, Applying!IteratedTurns
  <2>3. W(n) = Inserted(W(n - 1), slot, VersionFrom(muts[n], seq))
    BY <2>1, WithTurnAt
  <2> HIDE DEF A, W
  <2>4. /\ A(n).mem = Inserted(A(n - 1).mem, slot, VersionFrom(muts[n], seq))
        /\ A(n).spaces = A(n - 1).spaces /\ A(n).error = A(n - 1).error
    BY <1>2, <2>2 DEF ApplyTurn, ApplyMutation
  <2> QED
    BY <1>6, <2>3, <2>4
<1>7. \A n \in 0 .. L : Good(n)
  <2> HIDE DEF Good
  <2> DEFINE S == {k \in 0 .. L : Good(k)}
  <2>1. 0 \in S /\ \A k \in 1 .. L : k - 1 \in S => k \in S
    BY <1>5, <1>6
  <2>2. \A k \in 0 .. L : k \in S
    <3> HIDE DEF S
    <3> QED
      BY <2>1, EveryTurn
  <2> QED
    BY <2>2
<1>8. L \in 0 .. L
  OBVIOUS
<1> QED
  BY <1>3, <1>4, <1>7, <1>8 DEF slot

\* The first mutations do not depend on the others.
LEMMA WithPrefix ==
    ASSUME NEW m, NEW slot, NEW muts, NEW u, NEW seq, NEW L \in Nat,
           \A i \in 1 .. L : u[i] = muts[i]
    PROVE  With(m, slot, u, seq, L) = With(m, slot, muts, seq, L)
<1> DEFINE V(n) == With(m, slot, u, seq, n)
           W(n) == With(m, slot, muts, seq, n)
           S == {n \in 0 .. L : V(n) = W(n)}
<1>1. 0 \in S
  BY WithTurn
<1>2. ASSUME NEW n \in 1 .. L, n - 1 \in S PROVE n \in S
  <2>1. n \in Nat \ {0} /\ n - 1 \in Nat /\ (n - 1) + 1 = n /\ n \in 0 .. L
    OBVIOUS
  <2>2. V(n) = Inserted(V(n - 1), slot, VersionFrom(u[n], seq))
    BY <2>1, WithTurnAt
  <2>3. W(n) = Inserted(W(n - 1), slot, VersionFrom(muts[n], seq))
    BY <2>1, WithTurnAt
  <2>4. V(n - 1) = W(n - 1)
    BY <1>2
  <2> HIDE DEF V, W
  <2> QED
    BY <2>1, <2>2, <2>3, <2>4
<1>3. \A n \in 0 .. L : n \in S
  <2> HIDE DEF S
  <2> QED
    BY <1>1, <1>2, EveryTurn
<1>4. L \in 0 .. L
  OBVIOUS
<1> QED
  BY <1>3, <1>4

\* Some mutations that fit are all that a shorter transaction needs.
LEMMA AppliedPrefix ==
    ASSUME NEW db, NEW muts \in Transactions, NEW prev, NEW seq, NEW n \in 1 .. Len(muts)
    PROVE  Applied(db, SubSeq(muts, 1, n), prev, seq).mem =
              With(db.mem, NamespaceSlot(db.spaces, Namespace(muts)), muts, seq, n)
<1>1. PICK u : u = SubSeq(muts, 1, n)
  OBVIOUS
<1>2. n \in Nat /\ 1 \in 1 .. n
  BY TransactionIs
<1>3. Len(u) = n /\ \A i \in 1 .. n : u[i] = muts[i]
  <2>1. muts \in Seq(Mutation)
    <3>1. PICK k \in 1 .. MaxMutations : muts \in [1 .. k -> Mutation]
      BY DEF Transactions
    <3>2. k \in Nat
      BY <3>1, LsmAssumption
    <3> QED
      BY <3>1, <3>2
  <2> QED
    BY <1>1, <1>2, <2>1
<1>4. Namespace(u) = Namespace(muts)
  BY <1>2, <1>3 DEF Namespace
<1>5. Applied(db, u, prev, seq).mem =
         With(db.mem, NamespaceSlot(db.spaces, Namespace(muts)), u, seq, n)
  BY <1>2, <1>3, <1>4, AppliedIs
<1>6. With(db.mem, NamespaceSlot(db.spaces, Namespace(muts)), u, seq, n) =
         With(db.mem, NamespaceSlot(db.spaces, Namespace(muts)), muts, seq, n)
  BY <1>2, <1>3, WithPrefix
<1> QED
  BY <1>1, <1>5, <1>6

-----------------------------------------------------------------------------
(* Namespace slots                                                         *)

\* A slot is one of those there are, or none.
LEMMA NamespaceSlotIs ==
    ASSUME NEW sp, SpacesWell(sp), NEW n
    PROVE  /\ NamespaceSlot(sp, n) \in 0 .. MaxNamespaces
           /\ NamespaceSlot(sp, n) # 0 => NamespaceSlot(sp, n) \in NamespaceSlots
<1>1. Len(sp) \in Nat /\ Len(sp) <= MaxNamespaces /\ MaxNamespaces \in Nat \ {0}
      /\ DOMAIN sp = 1 .. Len(sp)
  BY BucketsAssumption DEF SpacesWell
<1>2. CASE Contains(sp, n)
  <2>1. \E i \in DOMAIN sp : sp[i] = n
    BY <1>1, <1>2 DEF Contains
  <2>2. NamespaceSlot(sp, n) \in DOMAIN sp
    BY <1>2, <2>1 DEF NamespaceSlot
  <2> QED
    BY <1>1, <2>2 DEF NamespaceSlots
<1>3. CASE ~Contains(sp, n)
  BY <1>1, <1>3 DEF NamespaceSlot, NamespaceSlots
<1> QED
  BY <1>2, <1>3

\* A name that has a slot is published there.
LEMMA WithNamespaceWell ==
    ASSUME NEW sp, SpacesWell(sp), NEW n \in SpaceNames, NamespaceSlot(sp, n) # 0
    PROVE  SpacesWell(WithNamespace(sp, n))
<1>1. CASE Contains(sp, n)
  BY <1>1 DEF WithNamespace
<1>2. CASE ~Contains(sp, n)
  <2>1. WithNamespace(sp, n) = Append(sp, n) /\ Len(sp) < MaxNamespaces
    BY <1>2 DEF WithNamespace, NamespaceSlot
  <2>2. sp \in Seq(SpaceNames) /\ Len(sp) \in Nat /\ MaxNamespaces \in Nat
    BY BucketsAssumption DEF SpacesWell
  <2>3. Append(sp, n) \in Seq(SpaceNames) /\ Len(Append(sp, n)) = Len(sp) + 1
    BY <2>2
  <2> QED
    BY <2>1, <2>2, <2>3 DEF SpacesWell
<1> QED
  BY <1>1, <1>2

\* The names of keys are names.
LEMMA SpacesOfType ==
    ASSUME NEW K \in SUBSET Keys
    PROVE  SpacesOf(K) \in Seq(SpaceNames)
<1>1. K \in SUBSET Nat /\ IsFiniteSet(K)
  BY KeysAssumption, FS_Subset
<1> DEFINE L == Cardinality(K)
           u == Ascending(K)
           A(n) == Naming!Iterated(u, <<>>, n)
           S == {n \in 0 .. L : A(n) \in Seq(SpaceNames)}
<1>2. L \in Nat /\ \A i \in 1 .. L : u[i] \in K
  BY <1>1, AscendingIs
<1>3. 0 \in S
  <2>1. A(0) = <<>>
    <3> HIDE DEF u
    <3> QED
      BY Naming!IteratedTurns
  <2>2. <<>> \in Seq(SpaceNames) /\ 0 \in 0 .. L
    BY <1>2
  <2> QED
    BY <2>1, <2>2
<1>4. ASSUME NEW n \in 1 .. L, n - 1 \in S PROVE n \in S
  <2>1. n - 1 \in Nat /\ (n - 1) + 1 = n /\ n \in 0 .. L
    BY <1>2
  <2>2. A(n) = WithNamespace(A(n - 1), NamespaceOf[u[n]])
    BY <2>1, Naming!IteratedTurns DEF SpaceTurn
  <2>3. NamespaceOf[u[n]] \in SpaceNames
    BY <1>2 DEF SpaceNames
  <2>4. A(n - 1) \in Seq(SpaceNames)
    BY <1>4
  <2> HIDE DEF A, u
  <2>5. A(n) \in Seq(SpaceNames)
    BY <2>2, <2>3, <2>4 DEF WithNamespace
  <2> QED
    BY <2>1, <2>5
<1>5. \A n \in 0 .. L : n \in S
  <2> HIDE DEF S
  <2> QED
    BY <1>2, <1>3, <1>4, EveryTurn
<1>6. L \in 0 .. L
  BY <1>2
<1> QED
  BY <1>5, <1>6 DEF SpacesOf

-----------------------------------------------------------------------------
(* Flush and compaction                                                    *)

\* The versions in a memtable.
LEMMA MemtableVersionsAre ==
    ASSUME NEW m, NEW s \in Nat, SoundUpTo(m, s)
    PROVE  /\ MemtableVersions(m) \in SUBSET Version /\ IsFiniteSet(MemtableVersions(m))
           /\ \A v \in MemtableVersions(m) : v.seq \in Nat /\ v.seq < s
<1>1. Sound(m)
  BY DEF SoundUpTo
<1>2. \A b \in Occupied(m) : RecordAt(m, b).v \in Version /\ RecordAt(m, b).v.seq < s
  BY <1>1, RecordOf DEF SoundUpTo
<1>3. IsFiniteSet(Occupied(m))
  BY <1>1, CountWithin
<1>4. IsFiniteSet(MemtableVersions(m))
  <2> DEFINE f == [b \in Occupied(m) |-> RecordAt(m, b).v]
  <2>1. f \in Surjection(Occupied(m), MemtableVersions(m))
    BY DEF Surjection, MemtableVersions
  <2> HIDE DEF f
  <2> QED
    BY <1>3, <2>1, FS_Surjection
<1>5. \A v \in Version : v.seq \in Nat
  BY DEF Version
<1> QED
  BY <1>2, <1>4, <1>5 DEF MemtableVersions

\* The greatest sequence of a table that was built from a memtable.
LEMMA FlushedSequence ==
    ASSUME NEW m, NEW s \in Nat, SoundUpTo(m, s),
           NEW t, t = BuildTable(SortedMemtable(m)), t # <<>>
    PROVE  MaxSequence(t) \in Nat /\ MaxSequence(t) < s
<1>1. PICK S : S = MemtableVersions(m)
  OBVIOUS
<1>2. S \in SUBSET Version /\ IsFiniteSet(S) /\ \A v \in S : v.seq \in Nat /\ v.seq < s
  BY <1>1, MemtableVersionsAre
<1>3. SortedMemtable(m) \in Seq(S)
  BY <1>1, <1>2, InKeyOrderIs DEF SortedMemtable
<1>4. TableSet(t) \subseteq S /\ TableSet(t) # {}
  BY <1>2, <1>3, BuildTableType
<1>5. PICK T : T = {v.seq : v \in TableSet(t)}
  OBVIOUS
<1>6. T \in SUBSET Nat /\ T # {} /\ \A x \in T : x < s /\ x \in Nat
  BY <1>2, <1>4, <1>5
<1>7. \A x \in T : x <= s
  BY <1>6
<1>8. Max(T) \in T
  BY <1>6, <1>7, MaxOfNaturals
<1> QED
  BY <1>5, <1>6, <1>8 DEF MaxSequence

\* What a merge without an error says of the sequences.
LEMMA MergedSequence ==
    ASSUME NEW sources, Merge(sources, next).error = "none"
    PROVE  Merge(sources, next).greatest = next - 1
<1>1. PICK m : Merge(sources, next) = MergeEnd(m, next)
  BY DEF Merge
<1>2. m.error = "none" /\ m.greatest = next - 1
  BY <1>1 DEF MergeEnd, Publishable
<1> QED
  BY <1>1, <1>2 DEF MergeEnd

\* A compaction.
LEMMA SelectedIs ==
    ASSUME NEW m, NEW d, d = Selected(Database, m), d.error = "none"
    PROVE  /\ m.error = "none"
           /\ d.mem = EmptyMemtable
           /\ d.disk.ckpt = m.greatest /\ d.older.ckpt = m.greatest
           /\ d.log = After(log, m.greatest)
<1>1. m.error = "none"
  BY DEF Selected, Database
<1> QED
  BY <1>1 DEF Selected, Database

\* A flush.
LEMMA FlushedToIs ==
    ASSUME NEW t, NEW d, d = FlushedTo(Database, t), d.error = "none"
    PROVE  /\ t # <<>>
           /\ d.mem = EmptyMemtable
           /\ d.disk.ckpt = MaxSequence(t) /\ d.older = disk
           /\ d.log = After(log, disk.ckpt)
<1>1. t # <<>>
  BY DEF FlushedTo, Database
<1> QED
  BY <1>1 DEF FlushedTo, Database

\* Whatever maintenance does, the memtable is as before or empty, and only
\* the beginning of the log is given up.
LEMMA MaintenanceIs ==
    ASSUME LsmInv, NEW d, d \in {Flushed(Database), Compacted(Database)}, d.error = "none"
    PROVE  /\ d.mem \in {mem, EmptyMemtable}
           /\ d.disk.ckpt \in Nat /\ d.older.ckpt \in Nat
           /\ d.log = log \/ \E c \in Nat : d.log = After(log, c)
<1>1. next \in Nat \ {0} /\ SoundUpTo(mem, next) /\ disk.ckpt \in Nat /\ older.ckpt \in Nat
  BY DEF LsmInv, MemtableUpTo, SoundUpTo, Sound
<1>2. /\ Database.mem = mem /\ Database.disk = disk /\ Database.older = older
      /\ Database.log = log
  BY DEF Database
<1>3. ASSUME d = Compacted(Database)
      PROVE  /\ d.mem = EmptyMemtable
             /\ d.disk.ckpt \in Nat /\ d.older.ckpt \in Nat
             /\ \E c \in Nat : d.log = After(log, c)
  <2>1. PICK s : Compacted(Database) = Selected(Database, Merge(s, next))
    BY DEF Compacted
  <2>2. PICK m : m = Merge(s, next)
    OBVIOUS
  <2>3. /\ m.error = "none" /\ d.mem = EmptyMemtable
        /\ d.disk.ckpt = m.greatest /\ d.older.ckpt = m.greatest
        /\ d.log = After(log, m.greatest)
    BY <1>3, <2>1, <2>2, SelectedIs
  <2>4. m.greatest \in Nat
    BY <1>1, <2>2, <2>3, MergedSequence
  <2> QED
    BY <2>3, <2>4
<1>4. CASE d = Compacted(Database)
  BY <1>3, <1>4
<1>5. CASE d = Flushed(Database) /\ Database.mem.count = 0
  BY <1>1, <1>2, <1>5 DEF Flushed
<1>6. CASE d = Flushed(Database) /\ d # Compacted(Database) /\ Database.mem.count # 0
  <2>1. PICK t : t = BuildTable(SortedMemtable(mem))
    OBVIOUS
  <2>2. d = FlushedTo(Database, t)
    BY <1>2, <1>6, <2>1 DEF Flushed
  <2>3. /\ t # <<>> /\ d.mem = EmptyMemtable
        /\ d.disk.ckpt = MaxSequence(t) /\ d.older = disk /\ d.log = After(log, disk.ckpt)
    BY <2>2, FlushedToIs
  <2>4. MaxSequence(t) \in Nat
    BY <1>1, <2>1, <2>3, FlushedSequence
  <2> QED
    BY <1>1, <2>3, <2>4
<1> QED
  BY <1>4, <1>5, <1>6

\* The transactions that are not after c.
Dropped(l, c) == Cardinality({i \in DOMAIN l : l[i].seq <= c})

\* The sequence w is l without the first n.
EndFrom(w, l, n) ==
    n \in Nat /\ Len(w) + n = Len(l) /\ \A i \in 1 .. Len(w) : w[i] = l[i + n]

\* The log without its beginning.
LEMMA AfterFrom ==
    ASSUME NEW S, NEW l \in Seq(S), NEW c, NEW w, w = After(l, c)
    PROVE  w \in Seq(S) /\ EndFrom(w, l, Dropped(l, c))
<1> DEFINE D == {i \in DOMAIN l : l[i].seq <= c}
           n == Cardinality(D)
           L == Len(l)
<1>1. L \in Nat /\ DOMAIN l = 1 .. L
  OBVIOUS
<1>2. n \in Nat /\ n <= L
  <2>1. IsFiniteSet(1 .. L) /\ Cardinality(1 .. L) = L
    BY <1>1, FS_Interval
  <2>2. D \in SUBSET (1 .. L)
    BY <1>1
  <2>3. IsFiniteSet(D) /\ Cardinality(D) <= Cardinality(1 .. L)
    BY <2>1, <2>2, FS_Subset
  <2> QED
    BY <2>1, <2>3, FS_CardinalityType
<1> HIDE DEF n
<1>3. After(l, c) = SubSeq(l, n + 1, L)
  BY DEF After, n
<1>4. PICK u : u = SubSeq(l, n + 1, L)
  OBVIOUS
<1>5. /\ u \in Seq(S) /\ Len(u) = IF n + 1 <= L THEN L - (n + 1) + 1 ELSE 0
      /\ \A i \in 1 .. L - (n + 1) + 1 : u[i] = l[(n + 1) + i - 1]
  <2>1. n + 1 \in Int /\ L \in Int /\ \A i \in n + 1 .. L : l[i] \in S
    BY <1>1, <1>2
  <2> QED
    BY <1>4, <2>1, SubSeqProperties
<1>6. Len(u) = L - n
  <2>1. PICK a, b, d : a = n /\ b = L /\ d = Len(u)
    OBVIOUS
  <2>2. a \in Nat /\ b \in Nat /\ a <= b /\ d = IF a + 1 <= b THEN b - (a + 1) + 1 ELSE 0
    BY <1>1, <1>2, <1>5, <2>1
  <2>3. d = b - a
    BY <2>2
  <2> QED
    BY <2>1, <2>3
<1>7. \A i \in 1 .. Len(u) : u[i] = l[i + n]
  <2> TAKE i \in 1 .. Len(u)
  <2>1. i \in 1 .. L - (n + 1) + 1 /\ (n + 1) + i - 1 = i + n
    BY <1>1, <1>2, <1>6
  <2> QED
    BY <1>5, <2>1
<1>8. Len(u) + n = L
  BY <1>1, <1>2, <1>6
<1>9. EndFrom(u, l, n)
  BY <1>2, <1>7, <1>8 DEF EndFrom
<1>10. n = Dropped(l, c)
  BY DEF n, Dropped
<1> QED
  BY <1>3, <1>4, <1>5, <1>9, <1>10

\* The sequence w is the end of l.
EndOf(w, l) == \E n \in Nat : Len(w) + n = Len(l) /\ \A i \in 1 .. Len(w) : w[i] = l[i + n]

LEMMA AfterIs ==
    ASSUME NEW S, NEW l \in Seq(S), NEW c, NEW w, w = After(l, c)
    PROVE  w \in Seq(S) /\ EndOf(w, l)
<1>1. PICK n : n = Dropped(l, c)
  OBVIOUS
<1>2. w \in Seq(S) /\ EndFrom(w, l, n)
  BY <1>1, AfterFrom
<1> QED
  BY <1>2 DEF EndFrom, EndOf

-----------------------------------------------------------------------------
(* Replay                                                                  *)

\* The two ways to say that a memtable is well.
LEMMA UpToIs ==
    ASSUME NEW m, NEW s
    PROVE  MemtableUpTo(m, s) <=> SoundUpTo(m, s) /\ Len(m.data) <= DataSize
BY DEF MemtableUpTo, SoundUpTo, Sound

\* The empty memtable is well.
LEMMA EmptyUpTo ==
    ASSUME NEW s
    PROVE  MemtableUpTo(EmptyMemtable, s)
<1>1. Sound(EmptyMemtable)
  BY EmptySound
<1>2. Occupied(EmptyMemtable) = {}
  BY DEF Occupied, EmptyMemtable, Vacant, BucketIndex
<1>3. Len(EmptyMemtable.data) <= DataSize
  <2>1. Len(<<>>) = 0
    OBVIOUS
  <2> QED
    BY <2>1, BucketsAssumption DEF EmptyMemtable
<1> QED
  BY <1>1, <1>2, <1>3, UpToIs DEF SoundUpTo

\* A transaction that has a slot and room leaves memtable and names well.
LEMMA AppliedUpTo ==
    ASSUME NEW db, NEW s \in Nat, MemtableUpTo(db.mem, s), SpacesWell(db.spaces),
           NEW muts \in Transactions, NEW prev, NEW seq \in Nat \ {0}, seq < s,
           NEW slot, slot = NamespaceSlot(db.spaces, Namespace(muts)), slot # 0,
           FitsFrom(db.mem, slot, muts, seq)
    PROVE  /\ MemtableUpTo(Applied(db, muts, prev, seq).mem, s)
           /\ SpacesWell(Applied(db, muts, prev, seq).spaces)
<1>1. PICK m, sp, w : /\ m = db.mem /\ sp = db.spaces
                      /\ w = With(m, slot, muts, seq, Len(muts))
  OBVIOUS
<1>2. SoundUpTo(m, s) /\ SpacesWell(sp)
  BY <1>1, UpToIs
<1>3. slot \in NamespaceSlots
  BY <1>1, <1>2, NamespaceSlotIs
<1>4. Len(muts) \in Nat /\ Len(muts) \in 0 .. Len(muts)
  <2>1. Len(muts) \in Nat
    BY TransactionIs
  <2> QED
    BY <2>1
<1>5. SoundUpTo(w, s)
  <2>1. FitsFrom(m, slot, muts, seq)
    BY <1>1
  <2>2. \A n \in 0 .. Len(muts) : SoundUpTo(With(m, slot, muts, seq, n), s)
    BY <1>2, <1>3, <2>1, FitsSound
  <2> QED
    BY <1>1, <1>4, <2>2
<1>6. Len(w.data) <= DataSize
  BY <1>1, <1>4 DEF FitsFrom
<1>7. Applied(db, muts, prev, seq).mem = w
  BY <1>1, <1>4, AppliedIs
<1>8. SpacesWell(WithNamespace(sp, Namespace(muts)))
  <2>1. Namespace(muts) \in SpaceNames
    <3>1. muts[1].key \in Keys
      BY TransactionIs
    <3> QED
      BY <3>1 DEF Namespace, SpaceNames
  <2> QED
    BY <1>1, <1>2, <2>1, WithNamespaceWell
<1>9. Applied(db, muts, prev, seq).spaces = WithNamespace(sp, Namespace(muts))
  BY <1>1, <1>4, AppliedIs
<1> QED
  BY <1>5, <1>6, <1>7, <1>8, <1>9, UpToIs

LogRecord == [seq : Nat \ {0}, muts : Transactions]

\* A turn of the replay.
LEMMA ReplayedUpTo ==
    ASSUME NEW r, NEW s \in Nat, MemtableUpTo(r.mem, s), SpacesWell(r.spaces),
           NEW t \in LogRecord, t.seq < s, ReplayTransaction(r, t).error = "none"
    PROVE  /\ r.error = "none"
           /\ MemtableUpTo(ReplayTransaction(r, t).mem, s)
           /\ SpacesWell(ReplayTransaction(r, t).spaces)
<1>1. r.error = "none"
  BY DEF ReplayTransaction
<1>2. PICK p : p = Preflight(r, t.muts)
  OBVIOUS
<1>3. ReplayTransaction(r, t) = Replayed(r, p, t)
  BY <1>1, <1>2 DEF ReplayTransaction
<1>4. p.error = "none"
  BY <1>3 DEF Replayed
<1>5. ReplayTransaction(r, t) = Applied(r, t.muts, p.prev, t.seq)
  BY <1>3, <1>4 DEF Replayed
<1>6. t.muts \in Transactions /\ t.seq \in Nat \ {0}
  BY DEF LogRecord
<1>7. PICK slot : slot = NamespaceSlot(r.spaces, Namespace(t.muts))
  OBVIOUS
<1>8. slot \in 0 .. MaxNamespaces
  BY <1>7, NamespaceSlotIs
<1>9. Sound(r.mem) /\ Len(r.mem.data) <= DataSize
  BY UpToIs DEF SoundUpTo
<1>10. slot \in NamespaceSlots /\ FitsFrom(r.mem, slot, t.muts, t.seq)
  BY <1>2, <1>4, <1>6, <1>7, <1>8, <1>9, PreflightFits
<1>11. slot # 0
  BY <1>10 DEF NamespaceSlots
<1> QED
  BY <1>1, <1>5, <1>6, <1>7, <1>10, <1>11, AppliedUpTo

\* Tables that recovery accepts.
LEMMA RecoverTablesUpTo ==
    ASSUME NEW tables, NEW s, RecoverTables(tables).error = "none"
    PROVE  /\ MemtableUpTo(RecoverTables(tables).mem, s)
           /\ SpacesWell(RecoverTables(tables).spaces)
<1> DEFINE K == {k \in Keys : k \in KeysOf(AllVersions(tables))}
<1>1. PICK sp : sp = SpacesOf(K)
  OBVIOUS
<1>2. sp \in Seq(SpaceNames)
  <2>1. K \in SUBSET Keys
    OBVIOUS
  <2> QED
    BY <1>1, <2>1, SpacesOfType
<1>3. RecoverTables(tables).mem = EmptyMemtable /\ RecoverTables(tables).spaces = sp
  BY <1>1 DEF RecoverTables
<1>4. ~ (Len(sp) > MaxNamespaces)
  BY <1>1 DEF RecoverTables
<1>5. SpacesWell(sp)
  BY <1>2, <1>4, BucketsAssumption DEF SpacesWell
<1> QED
  BY <1>3, <1>5, EmptyUpTo

\* A replay without an error.
LEMMA ReplayUpTo ==
    ASSUME NEW l \in Seq(LogRecord), NEW tables, NEW s \in Nat,
           \A i \in 1 .. Len(l) : l[i].seq < s,
           NEW r, r = Replaying!Iterated(l, RecoverTables(tables), Len(l)), r.error = "none"
    PROVE  MemtableUpTo(r.mem, s) /\ SpacesWell(r.spaces)
<1> DEFINE z == RecoverTables(tables)
           R(n) == Replaying!Iterated(l, z, n)
           L == Len(l)
<1>1. L \in Nat
  OBVIOUS
<1>2. R(0) = z
  BY <1>1, Replaying!IteratedTurns
<1>3. ASSUME NEW n \in 1 .. L PROVE R(n) = ReplayTransaction(R(n - 1), l[n]) /\ l[n] \in LogRecord
  <2>1. n - 1 \in Nat /\ (n - 1) + 1 = n
    OBVIOUS
  <2>2. R(n) = ReplayTurn(l, R(n - 1), n)
    BY <2>1, Replaying!IteratedTurns
  <2> HIDE DEF R
  <2> QED
    BY <2>2 DEF ReplayTurn
<1>4. R(L) = r
  OBVIOUS
<1> HIDE DEF R, z
<1>5. \A n \in 0 .. L : R(n).error = "none"
  <2> DEFINE S == {n \in 0 .. L : R(n).error = "none"}
  <2>1. L \in S
    BY <1>1, <1>4
  <2>2. ASSUME NEW n \in 1 .. L, n \in S PROVE n - 1 \in S
    <3>1. n - 1 \in 0 .. L
      OBVIOUS
    <3>2. R(n - 1).error # "none" => R(n) = R(n - 1)
      BY <1>3 DEF ReplayTransaction
    <3> QED
      BY <2>2, <3>1, <3>2
  <2>3. \A n \in 0 .. L : n \in S
    <3> HIDE DEF S
    <3> QED
      BY <1>1, <2>1, <2>2, EarlierTurn
  <2> QED
    BY <2>3
<1> DEFINE Good(n) == MemtableUpTo(R(n).mem, s) /\ SpacesWell(R(n).spaces)
<1>6. Good(0)
  <2>1. z.error = "none"
    BY <1>1, <1>2, <1>5
  <2> QED
    BY <1>2, <2>1, RecoverTablesUpTo DEF z
<1>7. ASSUME NEW n \in 1 .. L, Good(n - 1) PROVE Good(n)
  <2>1. PICK q, t : q = R(n - 1) /\ t = l[n]
    OBVIOUS
  <2>2. MemtableUpTo(q.mem, s) /\ SpacesWell(q.spaces)
    BY <1>7, <2>1
  <2>3. t \in LogRecord /\ t.seq < s /\ R(n) = ReplayTransaction(q, t)
    BY <1>3, <2>1
  <2>4. ReplayTransaction(q, t).error = "none"
    BY <1>5, <2>3
  <2> QED
    BY <2>2, <2>3, <2>4, ReplayedUpTo
<1>8. \A n \in 0 .. L : Good(n)
  <2> HIDE DEF Good
  <2> DEFINE S == {n \in 0 .. L : Good(n)}
  <2>1. 0 \in S /\ \A n \in 1 .. L : n - 1 \in S => n \in S
    BY <1>1, <1>6, <1>7
  <2>2. \A n \in 0 .. L : n \in S
    <3> HIDE DEF S
    <3> QED
      BY <1>1, <2>1, EveryTurn
  <2> QED
    BY <2>2
<1>9. Good(L)
  BY <1>1, <1>8
<1> QED
  BY <1>4, <1>9

-----------------------------------------------------------------------------
(* The inductive invariant                                                 *)

\* The invariant holds at first.
LEMMA InitInv == Init => LsmInv
<1> SUFFICES ASSUME Init PROVE LsmInv
  OBVIOUS
<1>1. /\ mem = EmptyMemtable /\ spaces = <<>> /\ log = <<>> /\ next = 1 /\ pc = "idle"
      /\ disk.ckpt = 0 /\ older.ckpt = 0
  BY DEF Init
<1>2. SpacesWell(spaces)
  <2>1. <<>> \in Seq(SpaceNames) /\ Len(<<>>) = 0
    OBVIOUS
  <2> QED
    BY <1>1, <2>1, BucketsAssumption DEF SpacesWell
<1>3. MemtableUpTo(mem, next)
  BY <1>1, EmptyUpTo
<1>4. LogWell
  <2>1. <<>> \in Seq([seq : Nat \ {0}, muts : Transactions]) /\ DOMAIN <<>> = {}
    OBVIOUS
  <2> QED
    BY <1>1, <2>1 DEF LogWell
<1>5. TxnWell
  BY <1>1 DEF TxnWell
<1> QED
  BY <1>1, <1>2, <1>3, <1>4, <1>5 DEF LsmInv

\* Preflight of the transaction that commit() goes on with.
LEMMA AcceptInv ==
    ASSUME LsmInv, NEW muts \in Transactions, Accept(muts, Preflight(InRam, muts)),
           pc \in {"idle", "again"}
    PROVE  LsmInv'
<1>1. /\ Preflight(InRam, muts).error = "none"
      /\ pc' = "append" /\ txn'.muts = muts
      /\ UNCHANGED <<mem, spaces, disk, older, log, next>>
  BY DEF Accept
<1>2. InRam.mem = mem /\ InRam.spaces = spaces
  BY DEF InRam
<1>3. PICK slot : slot = NamespaceSlot(spaces, Namespace(muts))
  OBVIOUS
<1>4. Sound(mem) /\ Len(mem.data) <= DataSize /\ SpacesWell(spaces) /\ next \in Nat \ {0}
  BY DEF LsmInv, MemtableUpTo, Sound
<1>5. slot \in 0 .. MaxNamespaces
  BY <1>3, <1>4, NamespaceSlotIs
<1>6. slot \in NamespaceSlots /\ FitsFrom(mem, slot, muts, next)
  BY <1>1, <1>2, <1>3, <1>4, <1>5, PreflightFits
<1>7. slot # 0
  BY <1>6 DEF NamespaceSlots
<1>8. TxnWell'
  <2>1. NamespaceSlot(spaces, Namespace(txn.muts))' = slot
    BY <1>1, <1>3
  <2>2. FitsFrom(mem, NamespaceSlot(spaces, Namespace(txn.muts)), txn.muts, next)'
    BY <1>1, <1>6, <2>1
  <2>3. (txn.muts \in Transactions)'
    BY <1>1
  <2> QED
    BY <1>7, <2>1, <2>2, <2>3 DEF TxnWell
<1>9. LogWell'
  <2>1. LogWell /\ pc # "apply"
    BY DEF LsmInv
  <2> QED
    BY <1>1, <2>1 DEF LogWell
<1>10. SpacesWell(spaces)' /\ MemtableUpTo(mem, next)'
  BY <1>1 DEF LsmInv
<1>11. next' \in Nat \ {0} /\ disk'.ckpt \in Nat /\ older'.ckpt \in Nat
  BY <1>1 DEF LsmInv
<1> QED
  BY <1>1, <1>8, <1>9, <1>10, <1>11 DEF LsmInv

\* A log that loses its beginning stays in order.
LEMMA AfterWell ==
    ASSUME LogWell, pc # "apply", NEW c, NEW l, l = After(log, c)
    PROVE  /\ l \in Seq(LogRecord)
           /\ \A i, j \in DOMAIN l : i < j => l[i].seq < l[j].seq
           /\ \A i \in DOMAIN l : l[i].seq < next
<1>1. /\ log \in Seq(LogRecord)
      /\ \A i, j \in DOMAIN log : i < j => log[i].seq < log[j].seq
      /\ \A i \in DOMAIN log : log[i].seq < next
  BY DEF LogWell, LogRecord
<1>2. l \in Seq(LogRecord)
  BY <1>1, AfterIs
<1>3. PICK n \in Nat : /\ Len(l) + n = Len(log)
                       /\ \A i \in 1 .. Len(l) : l[i] = log[i + n]
  <2>1. EndOf(l, log)
    BY <1>1, AfterIs
  <2> QED
    BY <2>1 DEF EndOf
<1>4. DOMAIN l = 1 .. Len(l) /\ DOMAIN log = 1 .. Len(log) /\ Len(l) \in Nat /\ Len(log) \in Nat
  BY <1>1, <1>2
<1>5. \A i \in DOMAIN l : i + n \in DOMAIN log /\ l[i] = log[i + n] /\ i \in Nat
  BY <1>3, <1>4
<1>6. \A i, j \in DOMAIN l : i < j => i + n < j + n
  BY <1>5
<1> QED
  BY <1>1, <1>2, <1>5, <1>6

\* After maintenance memtable, checkpoints and log are well, and what fitted fits.
LEMMA BecomesInv ==
    ASSUME LsmInv, pc # "apply", NEW d, d \in {Flushed(Database), Compacted(Database)},
           Becomes(d), UNCHANGED <<spaces, next>>, pc' # "apply"
    PROVE  /\ MemtableUpTo(mem, next)' /\ LogWell'
           /\ disk'.ckpt \in Nat /\ older'.ckpt \in Nat
           /\ \A muts \in Transactions, slot \in NamespaceSlots :
                 FitsFrom(mem, slot, muts, next) => FitsFrom(mem', slot, muts, next)
<1>1. /\ d.error = "none" /\ mem' = d.mem /\ disk' = d.disk /\ older' = d.older
      /\ log' = d.log
  BY DEF Becomes
<1>2. /\ d.mem \in {mem, EmptyMemtable}
      /\ d.disk.ckpt \in Nat /\ d.older.ckpt \in Nat
      /\ d.log = log \/ \E c \in Nat : d.log = After(log, c)
  BY <1>1, MaintenanceIs
<1>3. next' = next /\ next \in Nat \ {0} /\ MemtableUpTo(mem, next) /\ LogWell
  BY DEF LsmInv
<1>4. MemtableUpTo(mem, next)'
  <2>1. MemtableUpTo(mem', next)
    <3>1. CASE mem' = mem
      BY <1>3, <3>1
    <3>2. CASE mem' = EmptyMemtable
      BY <3>2, EmptyUpTo
    <3> QED
      BY <1>1, <1>2, <3>1, <3>2
  <2> QED
    BY <1>3, <2>1
<1>5. LogWell'
  <2>1. CASE d.log = log
    <3>1. log' = log
      BY <1>1, <2>1
    <3> QED
      BY <1>3, <3>1 DEF LogWell
  <2>2. CASE \E c \in Nat : d.log = After(log, c)
    <3>1. PICK c \in Nat : d.log = After(log, c)
      BY <2>2
    <3>2. /\ log' \in Seq(LogRecord)
          /\ \A i, j \in DOMAIN log' : i < j => log'[i].seq < log'[j].seq
          /\ \A i \in DOMAIN log' : log'[i].seq < next
      BY <1>1, <1>3, <3>1, AfterWell
    <3> QED
      BY <1>3, <3>2 DEF LogWell, LogRecord
  <2> QED
    BY <1>2, <2>1, <2>2
<1>6. ASSUME NEW muts \in Transactions, NEW slot \in NamespaceSlots,
             FitsFrom(mem, slot, muts, next)
      PROVE  FitsFrom(mem', slot, muts, next)
  <2>1. CASE mem' = mem
    BY <1>6, <2>1
  <2>2. CASE mem' = EmptyMemtable
    <3>1. SoundUpTo(mem, next + 1) /\ next + 1 \in Nat /\ next < next + 1
      <4>1. SoundUpTo(mem, next)
        BY <1>3, UpToIs
      <4>2. \A b \in Occupied(mem) : RecordAt(mem, b).v.seq \in Nat
        <5>1. \A b \in Occupied(mem) : RecordAt(mem, b).v \in Version
          BY <4>1, RecordOf DEF SoundUpTo
        <5> QED
          BY <5>1 DEF Version
      <4> QED
        BY <1>3, <4>1, <4>2 DEF SoundUpTo
    <3>2. FitsFrom(EmptyMemtable, slot, muts, next)
      BY <1>3, <1>6, <3>1, FitsEmpty
    <3> QED
      BY <2>2, <3>2
  <2> QED
    BY <1>1, <1>2, <2>1, <2>2
<1> QED
  BY <1>1, <1>2, <1>4, <1>5, <1>6

\* A flush for room.
LEMMA FlushForRoomInv ==
    ASSUME LsmInv, NEW muts \in Transactions, FlushForRoom(muts)
    PROVE  LsmInv'
<1>1. /\ pc = "idle" /\ Becomes(Flushed(Database)) /\ pc' = "again"
      /\ UNCHANGED <<spaces, next>> /\ txn'.muts = muts
  BY DEF FlushForRoom, NoTransaction
<1>2. MemtableUpTo(mem, next)' /\ LogWell' /\ disk'.ckpt \in Nat /\ older'.ckpt \in Nat
  BY <1>1, BecomesInv
<1>3. TxnWell'
  BY <1>1 DEF TxnWell
<1>4. SpacesWell(spaces)' /\ next' \in Nat \ {0}
  BY <1>1 DEF LsmInv
<1> QED
  BY <1>1, <1>2, <1>3, <1>4 DEF LsmInv

\* Room in the log.
LEMMA MakeRoomInv ==
    ASSUME LsmInv, MakeRoom
    PROVE  LsmInv'
<1>1. /\ pc = "append" /\ Becomes(Maintained) /\ pc' = "rotate"
      /\ UNCHANGED <<spaces, next, txn>>
  BY DEF MakeRoom
<1>2. Maintained \in {Flushed(Database), Compacted(Database)}
  BY DEF Maintained
<1>3. PICK slot : slot = NamespaceSlot(spaces, Namespace(txn.muts))
  OBVIOUS
<1>4. txn.muts \in Transactions /\ slot # 0 /\ FitsFrom(mem, slot, txn.muts, next)
  BY <1>1, <1>3 DEF LsmInv, TxnWell
<1>5. slot \in NamespaceSlots
  BY <1>3, <1>4, NamespaceSlotIs DEF LsmInv
<1>6. MemtableUpTo(mem, next)' /\ LogWell' /\ disk'.ckpt \in Nat /\ older'.ckpt \in Nat
  BY <1>1, <1>2, BecomesInv
<1>7. FitsFrom(mem', slot, txn.muts, next)
  BY <1>1, <1>2, <1>4, <1>5, BecomesInv
<1>8. TxnWell'
  <2>1. NamespaceSlot(spaces, Namespace(txn.muts))' = slot
    BY <1>1, <1>3
  <2>2. FitsFrom(mem, NamespaceSlot(spaces, Namespace(txn.muts)), txn.muts, next)'
    BY <1>1, <1>7, <2>1
  <2>3. (txn.muts \in Transactions)'
    BY <1>1, <1>4
  <2> QED
    BY <1>4, <2>1, <2>2, <2>3 DEF TxnWell
<1>9. SpacesWell(spaces)' /\ next' \in Nat \ {0}
  BY <1>1 DEF LsmInv
<1> QED
  BY <1>1, <1>6, <1>8, <1>9 DEF LsmInv

\* A commit that gives up.
LEMMA RefuseInv ==
    ASSUME LsmInv, Refuse \/ RoomRefused
    PROVE  LsmInv'
<1>1. /\ pc \in {"again", "append"} /\ pc' = "idle"
      /\ UNCHANGED <<mem, spaces, disk, older, log, next>>
  BY DEF Refuse, RoomRefused
<1>2. LogWell'
  BY <1>1 DEF LsmInv, LogWell
<1>3. TxnWell'
  BY <1>1 DEF TxnWell
<1>4. SpacesWell(spaces)' /\ MemtableUpTo(mem, next)'
  BY <1>1 DEF LsmInv
<1> QED
  BY <1>1, <1>2, <1>3, <1>4 DEF LsmInv

\* The switch to the other slot of the log.
LEMMA RotateInv ==
    ASSUME LsmInv, Rotate
    PROVE  LsmInv'
<1>1. /\ pc = "rotate" /\ pc' = "append" /\ older' = disk /\ log' = After(log, disk.ckpt)
      /\ UNCHANGED <<mem, spaces, disk, next, txn>>
  BY DEF Rotate
<1>2. LogWell'
  <2>1. /\ log' \in Seq(LogRecord)
        /\ \A i, j \in DOMAIN log' : i < j => log'[i].seq < log'[j].seq
        /\ \A i \in DOMAIN log' : log'[i].seq < next
    BY <1>1, AfterWell DEF LsmInv
  <2> QED
    BY <1>1, <2>1 DEF LogWell, LogRecord
<1>3. TxnWell'
  <2>1. TxnWell
    BY DEF LsmInv
  <2> QED
    BY <1>1, <2>1 DEF TxnWell
<1>4. SpacesWell(spaces)' /\ MemtableUpTo(mem, next)'
  BY <1>1 DEF LsmInv
<1> QED
  BY <1>1, <1>2, <1>3, <1>4 DEF LsmInv

\* The transaction goes to the log.
LEMMA AppendFramesInv ==
    ASSUME LsmInv, AppendFrames
    PROVE  LsmInv'
<1>1. /\ pc = "append" /\ pc' = "apply"
      /\ log' = Append(log, [seq |-> next, muts |-> txn.muts])
      /\ UNCHANGED <<mem, spaces, disk, older, next, txn>>
  BY DEF AppendFrames
<1>2. next \in Nat \ {0} /\ TxnWell /\ LogWell /\ txn.muts \in Transactions
  BY <1>1 DEF LsmInv, TxnWell
<1>3. LogWell'
  <2>1. PICK l, n, t : l = log /\ n = Len(log) /\ t = [seq |-> next, muts |-> txn.muts]
    OBVIOUS
  <2>2. /\ l \in Seq(LogRecord)
        /\ \A i, j \in DOMAIN l : i < j => l[i].seq < l[j].seq
        /\ \A i \in DOMAIN l : l[i].seq < next
    BY <1>1, <1>2, <2>1 DEF LogWell, LogRecord
  <2>3. t \in LogRecord /\ t.seq = next
    BY <1>2, <2>1 DEF LogRecord
  <2>4. /\ n \in Nat /\ DOMAIN l = 1 .. n /\ log' \in Seq(LogRecord) /\ DOMAIN log' = 1 .. n + 1
        /\ log'[n + 1] = t /\ \A i \in 1 .. n : log'[i] = l[i]
    BY <1>1, <2>1, <2>2, <2>3
  <2>5. \A i \in DOMAIN log' : log'[i].seq <= next
    <3> TAKE i \in DOMAIN log'
    <3>1. CASE i = n + 1
      BY <1>2, <2>3, <2>4, <3>1
    <3>2. CASE i \in 1 .. n
      <4>1. l[i] \in LogRecord /\ l[i].seq < next /\ log'[i] = l[i]
        BY <2>2, <2>4, <3>2
      <4>2. l[i].seq \in Nat
        BY <4>1 DEF LogRecord
      <4> QED
        BY <1>2, <4>1, <4>2
    <3> QED
      BY <2>4, <3>1, <3>2
  <2>6. ASSUME NEW i \in DOMAIN log', NEW j \in DOMAIN log', i < j
        PROVE  log'[i].seq < log'[j].seq
    <3>1. i \in 1 .. n /\ j \in 1 .. n + 1
      BY <2>4, <2>6
    <3>2. CASE j = n + 1
      BY <2>2, <2>3, <2>4, <3>1, <3>2
    <3>3. CASE j \in 1 .. n
      BY <2>2, <2>4, <2>6, <3>1, <3>3
    <3> QED
      BY <2>4, <3>1, <3>2, <3>3
  <2> QED
    BY <1>1, <2>4, <2>5, <2>6 DEF LogWell, LogRecord
<1>4. TxnWell'
  BY <1>1, <1>2 DEF TxnWell
<1>5. SpacesWell(spaces)' /\ MemtableUpTo(mem, next)'
  BY <1>1 DEF LsmInv
<1> QED
  BY <1>1, <1>3, <1>4, <1>5 DEF LsmInv

\* The transaction becomes visible.
LEMMA ApplyInv ==
    ASSUME LsmInv, Apply
    PROVE  LsmInv'
<1>1. /\ pc = "apply" /\ pc' = "idle" /\ next' = next + 1
      /\ mem' = Applied(InRam, txn.muts, txn.prev, next).mem
      /\ spaces' = Applied(InRam, txn.muts, txn.prev, next).spaces
      /\ UNCHANGED <<disk, older, log>>
  BY DEF Apply, Published
<1>2. /\ next \in Nat \ {0} /\ SpacesWell(spaces) /\ MemtableUpTo(mem, next) /\ LogWell
      /\ disk.ckpt \in Nat /\ older.ckpt \in Nat
  BY DEF LsmInv
<1>3. PICK slot : slot = NamespaceSlot(spaces, Namespace(txn.muts))
  OBVIOUS
<1>4. txn.muts \in Transactions /\ slot # 0 /\ FitsFrom(mem, slot, txn.muts, next)
  BY <1>1, <1>3 DEF LsmInv, TxnWell
<1>5. InRam.mem = mem /\ InRam.spaces = spaces
  BY DEF InRam
<1>6. MemtableUpTo(mem, next + 1)
  <2>1. SoundUpTo(mem, next) /\ Len(mem.data) <= DataSize
    BY <1>2, UpToIs
  <2>2. \A b \in Occupied(mem) : RecordAt(mem, b).v.seq \in Nat
    <3>1. \A b \in Occupied(mem) : RecordAt(mem, b).v \in Version
      BY <2>1, RecordOf DEF SoundUpTo
    <3> QED
      BY <3>1 DEF Version
  <2>3. SoundUpTo(mem, next + 1)
    BY <1>2, <2>1, <2>2 DEF SoundUpTo
  <2> QED
    BY <2>1, <2>3, UpToIs
<1>7. MemtableUpTo(mem', next + 1) /\ SpacesWell(spaces')
  <2>1. next + 1 \in Nat /\ next < next + 1
    BY <1>2
  <2> QED
    BY <1>1, <1>2, <1>3, <1>4, <1>5, <1>6, <2>1, AppliedUpTo
<1>8. LogWell'
  <2>1. /\ log \in Seq(LogRecord)
        /\ \A i, j \in DOMAIN log : i < j => log[i].seq < log[j].seq
        /\ \A i \in DOMAIN log : log[i].seq < next \/ log[i].seq <= next
    BY <1>2 DEF LogWell, LogRecord
  <2>2. \A i \in DOMAIN log : log[i].seq \in Nat
    <3>1. \A i \in DOMAIN log : log[i] \in LogRecord
      BY <2>1
    <3> QED
      BY <3>1 DEF LogRecord
  <2>3. \A i \in DOMAIN log : log[i].seq < next + 1
    BY <1>2, <2>1, <2>2
  <2> QED
    BY <1>1, <2>1, <2>3 DEF LogWell, LogRecord
<1>9. TxnWell'
  BY <1>1 DEF TxnWell
<1>10. next' \in Nat \ {0}
  BY <1>1, <1>2
<1>11. MemtableUpTo(mem, next)' /\ SpacesWell(spaces)'
  BY <1>1, <1>7
<1> QED
  BY <1>1, <1>2, <1>8, <1>9, <1>10, <1>11 DEF LsmInv

\* A restart from either copy.
LEMMA RestartInv ==
    ASSUME LsmInv, NEW copy, copy.ckpt \in Nat, Restart(copy)
    PROVE  LsmInv'
<1>1. /\ Recovered(copy).error = "none"
      /\ mem' = Recovered(copy).mem /\ spaces' = Recovered(copy).spaces
      /\ disk' = copy /\ older' \in {older, copy}
      /\ next' = IF log = <<>> THEN copy.ckpt + 1 ELSE Last(log).seq + 1
      /\ pc' = "idle" /\ log' = log
  BY DEF Restart, Published
<1>2. /\ log \in Seq(LogRecord)
      /\ \A i, j \in DOMAIN log : i < j => log[i].seq < log[j].seq
  BY DEF LsmInv, LogWell, LogRecord
<1>3. \A i \in DOMAIN log : log[i] \in LogRecord /\ log[i].seq \in Nat
  <2>1. \A i \in DOMAIN log : log[i] \in LogRecord
    BY <1>2
  <2> QED
    BY <2>1 DEF LogRecord
<1>4. PICK n : n = Len(log)
  OBVIOUS
<1>5. n \in Nat /\ DOMAIN log = 1 .. n
  BY <1>2, <1>4
<1>6. next' \in Nat \ {0} /\ \A i \in DOMAIN log : log[i].seq < next'
  <2>1. CASE n = 0
    <3>1. log = <<>>
      <4>1. PICK l : l = log
        OBVIOUS
      <4>2. l \in Seq(LogRecord) /\ Len(l) = 0
        BY <1>2, <1>4, <2>1, <4>1
      <4>3. l = <<>>
        BY <4>2
      <4> QED
        BY <4>1, <4>3
    <3>2. next' = copy.ckpt + 1
      BY <1>1, <3>1
    <3> QED
      BY <1>5, <2>1, <3>2
  <2>2. CASE n # 0
    <3>1. log # <<>> /\ n \in DOMAIN log
      BY <1>4, <1>5, <2>2
    <3>2. Last(log) = log[n]
      BY <1>4 DEF Last
    <3>3. next' = log[n].seq + 1 /\ log[n].seq \in Nat
      BY <1>1, <1>3, <3>1, <3>2
    <3>4. ASSUME NEW i \in DOMAIN log PROVE log[i].seq <= log[n].seq
      <4>1. log[i].seq \in Nat
        BY <1>3
      <4>2. CASE i = n
        BY <3>3, <4>2
      <4>3. CASE i # n
        <5>1. i < n
          BY <1>5, <4>3
        <5>2. log[i].seq < log[n].seq
          BY <1>2, <3>1, <5>1
        <5> QED
          BY <3>3, <4>1, <5>2
      <4> QED
        BY <4>2, <4>3
    <3> QED
      BY <1>3, <3>3, <3>4
  <2> QED
    BY <2>1, <2>2
<1>7. MemtableUpTo(mem', next') /\ SpacesWell(spaces')
  <2>1. PICK l, r, s : l = After(log, copy.ckpt) /\ r = Recovered(copy) /\ s = next'
    OBVIOUS
  <2>2. r = Replaying!Iterated(l, RecoverTables(copy.tables), Len(l))
    BY <2>1 DEF Recovered
  <2>3. l \in Seq(LogRecord)
    BY <1>2, <2>1, AfterIs
  <2>4. \A i \in 1 .. Len(l) : l[i].seq < s
    <3>1. PICK k \in Nat : /\ Len(l) + k = Len(log)
                           /\ \A i \in 1 .. Len(l) : l[i] = log[i + k]
      <4>1. EndOf(l, log)
        BY <1>2, <2>1, AfterIs
      <4> QED
        BY <4>1 DEF EndOf
    <3>2. Len(l) \in Nat
      BY <2>3
    <3> TAKE i \in 1 .. Len(l)
    <3>3. i + k \in DOMAIN log
      BY <1>4, <1>5, <3>1, <3>2
    <3> QED
      BY <1>6, <2>1, <3>1, <3>3
  <2>5. s \in Nat
    BY <1>6, <2>1
  <2>6. r.error = "none"
    BY <1>1, <2>1

  <2>7. MemtableUpTo(r.mem, s) /\ SpacesWell(r.spaces)
    BY <2>2, <2>3, <2>4, <2>5, <2>6, ReplayUpTo
  <2> QED
    BY <1>1, <2>1, <2>7
<1>8. LogWell'
  BY <1>1, <1>2, <1>6 DEF LogWell, LogRecord
<1>9. TxnWell'
  BY <1>1 DEF TxnWell
<1>10. disk'.ckpt \in Nat /\ older'.ckpt \in Nat
  BY <1>1 DEF LsmInv
<1>11. MemtableUpTo(mem, next)' /\ SpacesWell(spaces)'
  BY <1>7
<1> QED
  BY <1>1, <1>6, <1>8, <1>9, <1>10, <1>11 DEF LsmInv

-----------------------------------------------------------------------------
(* The theorems                                                            *)

\* Every step of commit(), every maintenance and every restart keeps the
\* invariant.
LEMMA StepInv ==
    ASSUME LsmInv, [Next]_vars
    PROVE  LsmInv'
<1>1. ASSUME NEW muts \in Transactions, Commit(muts) PROVE LsmInv'
  <2>1. pc = "idle" /\ Accept(muts, Preflight(InRam, muts))
    BY <1>1 DEF Commit
  <2> QED
    BY <2>1, AcceptInv
<1>2. ASSUME NEW muts \in Transactions, FlushForRoom(muts) PROVE LsmInv'
  BY <1>2, FlushForRoomInv
<1>3. CASE AcceptAfterFlush
  <2>1. pc = "again" /\ Accept(txn.muts, Preflight(InRam, txn.muts))
    BY <1>3 DEF AcceptAfterFlush
  <2>2. txn.muts \in Transactions
    BY <2>1 DEF LsmInv, TxnWell
  <2> QED
    BY <2>1, <2>2, AcceptInv
<1>4. CASE Refuse
  BY <1>4, RefuseInv
<1>5. CASE MakeRoom
  BY <1>5, MakeRoomInv
<1>6. CASE RoomRefused
  BY <1>6, RefuseInv
<1>7. CASE Rotate
  BY <1>7, RotateInv
<1>8. CASE AppendFrames
  BY <1>8, AppendFramesInv
<1>9. CASE Apply
  BY <1>9, ApplyInv
<1>10. CASE Restart(disk)
  <2>1. disk.ckpt \in Nat
    BY DEF LsmInv
  <2> QED
    BY <1>10, <2>1, RestartInv
<1>11. CASE older # disk /\ Restart(older)
  <2>1. older.ckpt \in Nat
    BY DEF LsmInv
  <2> QED
    BY <1>11, <2>1, RestartInv
<1>12. CASE UNCHANGED vars
  <2>1. UNCHANGED <<mem, spaces, disk, older, log, next, pc, txn>>
    BY <1>12 DEF vars
  <2>2. LogWell'
    BY <2>1 DEF LsmInv, LogWell
  <2>3. TxnWell'
    BY <2>1 DEF LsmInv, TxnWell
  <2>4. SpacesWell(spaces)' /\ MemtableUpTo(mem, next)'
    BY <2>1 DEF LsmInv
  <2> QED
    BY <2>1, <2>2, <2>3, <2>4 DEF LsmInv
<1> QED
  BY <1>1, <1>2, <1>3, <1>4, <1>5, <1>6, <1>7, <1>8, <1>9, <1>10, <1>11, <1>12 DEF Next

\* The inductive invariant of the database: the memtable is sound, the log is
\* in order, and the transaction of a commit fits into the memtable from its
\* preflight to its apply.
THEOREM LsmInductive == Spec => []LsmInv
<1>1. Init => LsmInv
  BY InitInv
<1>2. LsmInv /\ [Next]_vars => LsmInv'
  BY StepInv
<1> QED
  BY <1>1, <1>2, PTL DEF Spec

\* What preflight accepted fits: for every hash function, all sizes and
\* limits, apply_transaction_to_memtable_unsafe() finds a namespace slot, a
\* bucket and room for each record, whatever flush or compaction the append
\* needed in between.
THEOREM CommitFits == Spec => []ApplyFits
<1>1. LsmInv => ApplyFits
  <2> SUFFICES ASSUME LsmInv, pc = "apply"
               PROVE  /\ NamespaceSlot(spaces, Namespace(txn.muts)) # 0
                      /\ \A n \in DOMAIN txn.muts :
                            LET m == Applied(InRam, SubSeq(txn.muts, 1, n), txn.prev, next).mem
                            IN  m.count <= Buckets /\ Len(m.data) <= DataSize
    BY DEF ApplyFits
  <2>1. PICK slot : slot = NamespaceSlot(spaces, Namespace(txn.muts))
    OBVIOUS
  <2>2. txn.muts \in Transactions /\ slot # 0 /\ FitsFrom(mem, slot, txn.muts, next)
    BY <2>1 DEF LsmInv, TxnWell
  <2>3. ASSUME NEW n \in DOMAIN txn.muts, NEW m,
               m = Applied(InRam, SubSeq(txn.muts, 1, n), txn.prev, next).mem
        PROVE  m.count <= Buckets /\ Len(m.data) <= DataSize
    <3>1. n \in 1 .. Len(txn.muts) /\ n \in 0 .. Len(txn.muts)
      <4>1. Len(txn.muts) \in Nat /\ DOMAIN txn.muts = 1 .. Len(txn.muts)
        BY <2>2, TransactionIs
      <4> QED
        BY <4>1
    <3>2. InRam.mem = mem /\ InRam.spaces = spaces
      BY DEF InRam
    <3>3. m = With(mem, slot, txn.muts, next, n)
      BY <2>1, <2>2, <2>3, <3>1, <3>2, AppliedPrefix
    <3> QED
      BY <2>2, <3>1, <3>3 DEF FitsFrom
  <2> QED
    BY <2>1, <2>2, <2>3
<1> QED
  BY <1>1, LsmInductive, PTL

\* The memtable of a running database is sound: its records tile the arena and
\* each is found by its probe, after any sequence of inserts, replacements,
\* flushes and replays.
THEOREM MemtableAlwaysSound == Spec => []MemtableSound
<1>1. LsmInv => MemtableSound
  <2> SUFFICES ASSUME LsmInv PROVE MemtableSound
    OBVIOUS
  <2>1. Sound(mem) /\ Len(mem.data) <= DataSize
    BY DEF LsmInv, MemtableUpTo, Sound
  <2>2. mem.index \in [BucketIndex -> Bucket]
    BY <2>1, SoundTypes
  <2> QED
    BY <2>1, <2>2 DEF MemtableSound, Sound
<1> QED
  BY <1>1, LsmInductive, PTL



-----------------------------------------------------------------------------
(* What versions show                                                      *)

\* Versions show of a key the newest of it, unless that is a tombstone.
LEMMA ShownIs ==
    ASSUME NEW S \in SUBSET Version, Consistent(S), NEW b \in Nat, UpTo(S, b), NEW k
    PROVE  /\ \A v \in Live(S) : v.key = k => Shown(S, k) = v
           /\ (\A v \in Live(S) : v.key # k) => Shown(S, k) = NoVersion
<1>1. CASE k \notin KeysOf(S)
  <2>1. \A v \in Live(S) : v.key \in KeysOf(S)
    BY DEF Live, NewestVersions, KeysOf
  <2> QED
    BY <1>1, <2>1 DEF Shown
<1>2. CASE k \in KeysOf(S)
  <2>1. PICK w \in S : w.key = k
    BY <1>2 DEF KeysOf
  <2>2. PICK v \in NewestVersions(S) : v.key = k
    BY <2>1, NewestExists
  <2>3. \A x \in NewestVersions(S) : x.key = k => x = v
    BY <2>2, NewestUnique
  <2>4. (CHOOSE x \in NewestVersions(S) : x.key = k) = v
    BY <2>2, <2>3
  <2>5. Shown(S, k) = Visible(v)
    BY <1>2, <2>4 DEF Shown
  <2>6. v \in Version /\ v.del \in BOOLEAN
    BY DEF NewestVersions, Version
  <2>7. CASE v.del
    <3>1. \A x \in Live(S) : x.key # k
      BY <2>3, <2>7 DEF Live
    <3> QED
      BY <2>5, <2>7, <3>1 DEF Visible
  <2>8. CASE ~v.del
    <3>1. v \in Live(S) /\ \A x \in Live(S) : x.key = k => x = v
      BY <2>2, <2>3, <2>8 DEF Live
    <3>2. Shown(S, k) = v
      BY <2>5, <2>8 DEF Visible
    <3> QED
      BY <2>2, <3>1, <3>2
  <2> QED
    BY <2>6, <2>7, <2>8
<1> QED
  BY <1>1, <1>2

\* Versions with the same live ones show the same.
LEMMA SameShown ==
    ASSUME NEW S \in SUBSET Version, Consistent(S), NEW T \in SUBSET Version, Consistent(T),
           NEW b \in Nat, UpTo(S, b), UpTo(T, b), Live(S) = Live(T), NEW k
    PROVE  Shown(S, k) = Shown(T, k)
<1>1. CASE \E v \in Live(S) : v.key = k
  <2>1. PICK v \in Live(S) : v.key = k
    BY <1>1
  <2> QED
    BY <2>1, ShownIs
<1>2. CASE \A v \in Live(S) : v.key # k
  BY <1>2, ShownIs
<1> QED
  BY <1>1, <1>2

\* Older versions do not show, and neither do tombstones.
LEMMA LiveOfLive ==
    ASSUME NEW S
    PROVE  Live(Live(S)) = Live(S) /\ NewestVersions(NewestVersions(S)) = NewestVersions(S)
BY DEF Live, NewestVersions

\* Of versions that join others the newest are enough.
LEMMA NewestJoin ==
    ASSUME NEW T, NEW W \in SUBSET Version, NEW b \in Nat, UpTo(W, b), T \in SUBSET Version
    PROVE  /\ NewestVersions(T \cup NewestVersions(W)) = NewestVersions(T \cup W)
           /\ Live(T \cup NewestVersions(W)) = Live(T \cup W)
<1>1. NewestVersions(W) \subseteq W
  BY DEF NewestVersions
<1>2. ASSUME NEW v \in NewestVersions(T \cup NewestVersions(W))
      PROVE  v \in NewestVersions(T \cup W)
  <2>1. v \in T \cup W /\ \A w \in T \cup NewestVersions(W) : w.key = v.key => w.seq <= v.seq
    BY <1>1 DEF NewestVersions
  <2>2. ASSUME NEW w \in W, w.key = v.key PROVE w.seq <= v.seq
    <3>1. PICK x \in NewestVersions(W) : x.key = w.key
      BY NewestExists
    <3>2. w.seq <= x.seq
      BY <3>1 DEF NewestVersions
    <3>3. x.seq <= v.seq
      BY <2>1, <2>2, <3>1
    <3>4. x \in Version /\ v \in Version
      BY <1>1, <2>1
    <3>5. w.seq \in Nat /\ x.seq \in Nat /\ v.seq \in Nat
      BY <3>4, VersionIs
    <3> QED
      BY <3>2, <3>3, <3>5
  <2> QED
    BY <2>1, <2>2 DEF NewestVersions
<1>3. ASSUME NEW v \in NewestVersions(T \cup W)
      PROVE  v \in NewestVersions(T \cup NewestVersions(W))
  <2>1. v \in T \cup NewestVersions(W)
    BY DEF NewestVersions
  <2> QED
    BY <1>1, <2>1 DEF NewestVersions
<1>4. NewestVersions(T \cup NewestVersions(W)) = NewestVersions(T \cup W)
  BY <1>2, <1>3
<1> QED
  BY <1>4 DEF Live

\* Versions that are later than all others, one of each key, are the newest.
LEMMA NewestWithLater ==
    ASSUME NEW W \in SUBSET Version, NEW V \in SUBSET Version, NEW s \in Nat,
           \A v \in W : v.seq < s, \A v \in V : v.seq = s
    PROVE  NewestVersions(W \cup V) =
              {v \in NewestVersions(W) : v.key \notin KeysOf(V)} \cup V
<1>1. \A v \in W : v.seq \in Nat
  BY VersionIs
<1>2. ASSUME NEW v \in NewestVersions(W \cup V)
      PROVE  v \in {x \in NewestVersions(W) : x.key \notin KeysOf(V)} \cup V
  <2>1. v \in W \cup V /\ \A w \in W \cup V : w.key = v.key => w.seq <= v.seq
    BY DEF NewestVersions
  <2>2. CASE v \in V
    BY <2>2
  <2>3. CASE v \notin V
    <3>1. v \in NewestVersions(W)
      BY <2>1, <2>3 DEF NewestVersions
    <3>2. ASSUME v.key \in KeysOf(V) PROVE FALSE
      <4>1. PICK w \in V : w.key = v.key
        BY <3>2 DEF KeysOf
      <4>2. s <= v.seq /\ v.seq < s
        BY <2>1, <2>3, <4>1
      <4> QED
        BY <1>1, <2>1, <2>3, <4>2
    <3> QED
      BY <3>1, <3>2
  <2> QED
    BY <2>2, <2>3
<1>3. ASSUME NEW v \in V PROVE v \in NewestVersions(W \cup V)
  <2>1. \A w \in W \cup V : w.seq <= v.seq
    BY <1>1
  <2> QED
    BY <2>1 DEF NewestVersions
<1>4. ASSUME NEW v \in NewestVersions(W), v.key \notin KeysOf(V)
      PROVE  v \in NewestVersions(W \cup V)
  BY <1>4 DEF NewestVersions, KeysOf
<1> QED
  BY <1>2, <1>3, <1>4

-----------------------------------------------------------------------------
(* Names and slots                                                         *)

\* A name keeps its slot when others are added.
LEMMA SlotKept ==
    ASSUME NEW sp, SpacesWell(sp), NEW n, Contains(sp, n), NEW x \in SpaceNames
    PROVE  /\ NamespaceSlot(sp, n) \in NamespaceSlots
           /\ Contains(WithNamespace(sp, x), n)
           /\ NamespaceSlot(WithNamespace(sp, x), n) = NamespaceSlot(sp, n)
<1>1. sp \in Seq(SpaceNames) /\ Len(sp) \in Nat /\ DOMAIN sp = 1 .. Len(sp)
  BY DEF SpacesWell
<1>2. PICK i \in 1 .. Len(sp) : sp[i] = n
  BY <1>1 DEF Contains
<1>3. NamespaceSlot(sp, n) = CHOOSE j \in DOMAIN sp : sp[j] = n
  BY DEF NamespaceSlot
<1>4. NamespaceSlot(sp, n) \in 1 .. Len(sp)
  BY <1>1, <1>2, <1>3
<1>5. NamespaceSlot(sp, n) \in NamespaceSlots
  BY <1>1, <1>4, BucketsAssumption DEF SpacesWell, NamespaceSlots
<1>6. CASE Contains(sp, x)
  BY <1>5, <1>6 DEF WithNamespace
<1>7. CASE ~Contains(sp, x)
  <2>1. PICK u : u = Append(sp, x)
    OBVIOUS
  <2>2. WithNamespace(sp, x) = u
    BY <1>7, <2>1 DEF WithNamespace
  <2>3. /\ Len(u) = Len(sp) + 1 /\ DOMAIN u = 1 .. Len(sp) + 1
        /\ u[Len(sp) + 1] = x /\ \A j \in 1 .. Len(sp) : u[j] = sp[j]
    BY <1>1, <2>1
  <2>4. x # n
    BY <1>2, <1>7, <1>1 DEF Contains
  <2>5. \A j : (j \in DOMAIN u /\ u[j] = n) <=> (j \in DOMAIN sp /\ sp[j] = n)
    <3>1. \A j \in 1 .. Len(sp) + 1 : j \in 1 .. Len(sp) \/ j = Len(sp) + 1
      BY <1>1
    <3>2. \A j \in 1 .. Len(sp) : j \in 1 .. Len(sp) + 1
      BY <1>1
    <3> QED
      BY <1>1, <2>3, <2>4, <3>1, <3>2
  <2>6. (CHOOSE j \in DOMAIN u : u[j] = n) = CHOOSE j \in DOMAIN sp : sp[j] = n
    BY <2>5, Zenon
  <2>7. Contains(u, n)
    <3>1. i \in 1 .. Len(u) /\ u[i] = n
      BY <1>1, <1>2, <2>3
    <3> QED
      BY <3>1 DEF Contains
  <2>8. NamespaceSlot(u, n) = CHOOSE j \in DOMAIN u : u[j] = n
    BY <2>7 DEF NamespaceSlot
  <2> QED
    BY <1>3, <1>5, <2>2, <2>6, <2>7, <2>8
<1> QED
  BY <1>6, <1>7

\* A name that is added gets the slot that was free for it.
LEMMA SlotTaken ==
    ASSUME NEW sp, SpacesWell(sp), NEW x \in SpaceNames, NamespaceSlot(sp, x) # 0
    PROVE  /\ Contains(WithNamespace(sp, x), x)
           /\ NamespaceSlot(WithNamespace(sp, x), x) = NamespaceSlot(sp, x)
<1>1. sp \in Seq(SpaceNames) /\ Len(sp) \in Nat /\ DOMAIN sp = 1 .. Len(sp)
  BY DEF SpacesWell
<1>2. CASE Contains(sp, x)
  BY <1>2, SlotKept
<1>3. CASE ~Contains(sp, x)
  <2>1. NamespaceSlot(sp, x) = Len(sp) + 1
    BY <1>3 DEF NamespaceSlot
  <2>2. PICK u : u = Append(sp, x)
    OBVIOUS
  <2>3. WithNamespace(sp, x) = u
    BY <1>3, <2>2 DEF WithNamespace
  <2>4. /\ Len(u) = Len(sp) + 1 /\ DOMAIN u = 1 .. Len(sp) + 1
        /\ u[Len(sp) + 1] = x /\ \A j \in 1 .. Len(sp) : u[j] = sp[j]
    BY <1>1, <2>2
  <2>5. Contains(u, x)
    <3>1. Len(sp) + 1 \in 1 .. Len(u)
      BY <1>1, <2>4
    <3> QED
      BY <2>4, <3>1 DEF Contains
  <2>6. \A j \in DOMAIN u : u[j] = x => j = Len(sp) + 1
    <3>1. \A j \in 1 .. Len(sp) + 1 : j \in 1 .. Len(sp) \/ j = Len(sp) + 1
      BY <1>1
    <3>2. \A j \in 1 .. Len(sp) : sp[j] # x
      BY <1>3 DEF Contains
    <3> QED
      BY <2>4, <3>1, <3>2
  <2>7. NamespaceSlot(u, x) = CHOOSE j \in DOMAIN u : u[j] = x
    BY <2>5 DEF NamespaceSlot
  <2>8. Len(sp) + 1 \in DOMAIN u
    BY <1>1, <2>4
  <2>9. (CHOOSE j \in DOMAIN u : u[j] = x) = Len(sp) + 1
    BY <2>4, <2>6, <2>8
  <2> QED
    BY <2>1, <2>3, <2>5, <2>7, <2>9
<1> QED
  BY <1>2, <1>3

-----------------------------------------------------------------------------
(* What the memtable has                                                   *)

\* A record that is inserted takes the place of that of its key.
LEMMA InsertedVersions ==
    ASSUME NEW m, Sound(m), NEW sp, SpacesWell(sp), SlotsWell(m, sp),
           NEW v \in Version, Contains(sp, NamespaceOf[v.key]),
           NEW slot, slot = NamespaceSlot(sp, NamespaceOf[v.key]), slot \in NamespaceSlots,
           HasBucket(m, slot, v.key), NEW w, w = Inserted(m, slot, v)
    PROVE  /\ MemtableVersions(w) = {x \in MemtableVersions(m) : x.key # v.key} \cup {v}
           /\ SlotsWell(w, sp)
<1>1. PICK b : b = Find(m, slot, v.key)
  OBVIOUS
<1>2. b # NoBucket /\ w = InsertedAt(m, b, slot, v)
  BY <1>1 DEF HasBucket, Inserted
<1>3. v.key \in Keys /\ b \in BucketIndex /\ (b \in Occupied(m) => Matches(m, b, slot, v.key))
  BY <1>1, <1>2, BucketFor
<1>4. /\ Occupied(w) = Occupied(m) \cup {b}
      /\ \A x \in Occupied(m) \ {b} : RecordAt(w, x) = RecordAt(m, x)
      /\ RecordAt(w, b) = NewCell(slot, v)
  BY <1>2, <1>3, InsertedRecords
<1>5. RecordAt(w, b).v = v /\ RecordAt(w, b).slot = slot
  BY <1>4 DEF NewCell
<1>6. b \in Occupied(m) => RecordAt(m, b).v.key = v.key
  BY <1>3 DEF Matches
<1>7. ASSUME NEW x \in Occupied(m) \ {b} PROVE RecordAt(m, x).v.key # v.key
  <2> SUFFICES ASSUME RecordAt(m, x).v.key = v.key PROVE FALSE
    OBVIOUS
  <2>1. RecordAt(m, x).slot = slot
    BY DEF SlotsWell
  <2>2. Matches(m, x, slot, v.key)
    BY <2>1, RecordOf
  <2>3. x = b
    BY <1>1, <1>3, <2>2, MatchFound
  <2> QED
    BY <2>3
<1>8. MemtableVersions(w) = {x \in MemtableVersions(m) : x.key # v.key} \cup {v}
  <2>1. ASSUME NEW c \in Occupied(w)
        PROVE  RecordAt(w, c).v \in {x \in MemtableVersions(m) : x.key # v.key} \cup {v}
    <3>1. CASE c = b
      BY <1>5, <3>1
    <3>2. CASE c # b
      <4>1. c \in Occupied(m) \ {b}
        BY <1>4, <3>2
      <4>2. RecordAt(w, c).v = RecordAt(m, c).v /\ RecordAt(m, c).v \in MemtableVersions(m)
        BY <1>4, <4>1 DEF MemtableVersions
      <4>3. RecordAt(m, c).v.key # v.key
        BY <1>7, <4>1
      <4> QED
        BY <4>2, <4>3
    <3> QED
      BY <3>1, <3>2
  <2>2. ASSUME NEW x \in MemtableVersions(m), x.key # v.key PROVE x \in MemtableVersions(w)
    <3>1. PICK c \in Occupied(m) : x = RecordAt(m, c).v
      BY DEF MemtableVersions
    <3>2. c # b
      BY <1>6, <2>2, <3>1
    <3>3. c \in Occupied(w) /\ RecordAt(w, c).v = x
      BY <1>4, <3>1, <3>2
    <3> QED
      BY <3>3 DEF MemtableVersions
  <2>3. v \in MemtableVersions(w)
    <3>1. b \in Occupied(w)
      BY <1>4
    <3> QED
      BY <1>5, <3>1 DEF MemtableVersions
  <2>4. \A x \in MemtableVersions(w) :
           x \in {y \in MemtableVersions(m) : y.key # v.key} \cup {v}
    BY <2>1 DEF MemtableVersions
  <2> QED
    BY <2>2, <2>3, <2>4
<1>9. SlotsWell(w, sp)
  <2>1. ASSUME NEW c \in Occupied(w)
        PROVE  /\ Contains(sp, NamespaceOf[RecordAt(w, c).v.key])
               /\ RecordAt(w, c).slot = NamespaceSlot(sp, NamespaceOf[RecordAt(w, c).v.key])
    <3>1. CASE c = b
      BY <1>5, <3>1
    <3>2. CASE c # b
      <4>1. c \in Occupied(m) /\ RecordAt(w, c) = RecordAt(m, c)
        BY <1>4, <3>2
      <4> QED
        BY <4>1 DEF SlotsWell
    <3> QED
      BY <3>1, <3>2
  <2> QED
    BY <2>1 DEF SlotsWell
<1> QED
  BY <1>8, <1>9

\* The versions of the first n mutations.
FirstVersions(muts, seq, n) == {VersionFrom(muts[i], seq) : i \in 1 .. n}

\* What the memtable has after the first mutations of a transaction.
LEMMA WithVersions ==
    ASSUME NEW m, NEW s \in Nat, SoundUpTo(m, s), NEW sp, SpacesWell(sp), SlotsWell(m, sp),
           NEW muts \in Transactions, NEW seq \in Nat \ {0}, seq < s,
           Contains(sp, Namespace(muts)),
           NEW slot, slot = NamespaceSlot(sp, Namespace(muts)), slot \in NamespaceSlots,
           FitsFrom(m, slot, muts, seq), NEW n \in 0 .. Len(muts)
    PROVE  /\ MemtableVersions(With(m, slot, muts, seq, n)) =
                 {x \in MemtableVersions(m) : x.key \notin KeysOf(FirstVersions(muts, seq, n))}
                    \cup FirstVersions(muts, seq, n)
           /\ SlotsWell(With(m, slot, muts, seq, n), sp)
<1> DEFINE W(k) == With(m, slot, muts, seq, k)
           V(k) == FirstVersions(muts, seq, k)
           Good(k) == /\ MemtableVersions(W(k)) =
                            {x \in MemtableVersions(m) : x.key \notin KeysOf(V(k))} \cup V(k)
                      /\ SlotsWell(W(k), sp)
           S == {k \in 0 .. Len(muts) : Good(k)}
<1>1. Len(muts) \in Nat
  BY TransactionIs
<1>2. 0 \in S
  <2>1. W(0) = m
    BY <1>1, WithTurn
  <2>2. V(0) = {} /\ KeysOf({}) = {}
    BY DEF FirstVersions, KeysOf
  <2>3. Good(0)
    BY <2>1, <2>2
  <2> HIDE DEF Good
  <2> QED
    BY <1>1, <2>3
<1>3. ASSUME NEW k \in 1 .. Len(muts), k - 1 \in S PROVE k \in S
  <2>1. PICK v : v = VersionFrom(muts[k], seq)
    OBVIOUS
  <2>2. v \in Version /\ v.key = muts[k].key
    BY <2>1, VersionFromIs
  <2>3. NamespaceOf[v.key] = Namespace(muts)
    BY <2>2, TransactionIs DEF Namespace
  <2>4. k \in Nat \ {0} /\ k - 1 \in 0 .. Len(muts)
    BY <1>1
  <2>5. W(k) = Inserted(W(k - 1), slot, v)
    BY <2>1, <2>4, WithTurnAt
  <2>6. Sound(W(k - 1)) /\ HasBucket(W(k - 1), slot, v.key)
    BY <2>2, <2>4, FitsSound DEF SoundUpTo
  <2>7. Good(k - 1)
    BY <1>3
  <2>8. PICK q, w, A, B : q = W(k - 1) /\ w = W(k) /\ A = V(k - 1) /\ B = V(k)
    OBVIOUS
  <2>9. /\ MemtableVersions(w) = {x \in MemtableVersions(q) : x.key # v.key} \cup {v}
        /\ SlotsWell(w, sp)
    <3>1. SlotsWell(q, sp) /\ Sound(q) /\ HasBucket(q, slot, v.key) /\ w = Inserted(q, slot, v)
      BY <2>5, <2>6, <2>7, <2>8
    <3> QED
      BY <2>2, <2>3, <3>1, InsertedVersions
  <2>10. B = A \cup {v}
    <3>1. 1 .. k = (1 .. k - 1) \cup {k}
      BY <1>1
    <3> QED
      BY <2>1, <2>8, <3>1 DEF FirstVersions
  <2>11. ASSUME NEW x \in A PROVE x.key # v.key
    <3>1. PICK i \in 1 .. k - 1 : x = VersionFrom(muts[i], seq)
      BY <2>8 DEF FirstVersions
    <3>2. i \in 1 .. Len(muts) /\ i < k
      BY <1>1
    <3>3. muts[i].key < muts[k].key
      BY <3>2, TransactionIs
    <3>4. x.key = muts[i].key /\ x.key \in Keys
      BY <3>1, <3>2, VersionFromIs
    <3>5. v.key \in Nat /\ x.key \in Nat
      BY <2>2, <3>4, VersionIs, KeysAssumption
    <3> QED
      BY <2>2, <3>3, <3>4, <3>5
  <2>12. MemtableVersions(q) = {x \in MemtableVersions(m) : x.key \notin KeysOf(A)} \cup A
    BY <2>7, <2>8
  <2>13. \A y : y \in KeysOf(B) <=> (y \in KeysOf(A) \/ y = v.key)
    BY <2>10 DEF KeysOf
  <2>14. MemtableVersions(w) = {x \in MemtableVersions(m) : x.key \notin KeysOf(B)} \cup B
    BY <2>9, <2>10, <2>11, <2>12, <2>13
  <2>15. Good(k)
    BY <2>8, <2>9, <2>14
  <2> HIDE DEF Good
  <2> QED
    BY <2>15
<1>4. \A k \in 0 .. Len(muts) : k \in S
  <2> HIDE DEF S
  <2> QED
    BY <1>1, <1>2, <1>3, EveryTurn
<1>5. n \in S
  BY <1>4
<1> QED
  BY <1>5

\* The versions of a transaction: one of each key, all of its sequence.
LEMMA VersionsInIs ==
    ASSUME NEW muts \in Transactions, NEW seq \in Nat \ {0}
    PROVE  /\ VersionsIn(muts, seq) \in SUBSET Version /\ VersionsIn(muts, seq) # {}
           /\ \A v \in VersionsIn(muts, seq) : v.seq = seq
           /\ \A v, w \in VersionsIn(muts, seq) : v.key = w.key => v = w
           /\ VersionsIn(muts, seq) = FirstVersions(muts, seq, Len(muts))
<1>1. Len(muts) \in Nat \ {0} /\ DOMAIN muts = 1 .. Len(muts)
  BY TransactionIs
<1>2. VersionsIn(muts, seq) = FirstVersions(muts, seq, Len(muts))
  BY <1>1 DEF VersionsIn, FirstVersions
<1>3. \A i \in 1 .. Len(muts) : /\ VersionFrom(muts[i], seq) \in Version
                               /\ VersionFrom(muts[i], seq).seq = seq
                               /\ VersionFrom(muts[i], seq).key = muts[i].key
                               /\ muts[i].key \in Nat
  BY VersionFromIs, KeysAssumption
<1>4. \A i, j \in 1 .. Len(muts) : muts[i].key = muts[j].key => i = j
  <2> SUFFICES ASSUME NEW i \in 1 .. Len(muts), NEW j \in 1 .. Len(muts),
                      muts[i].key = muts[j].key
               PROVE  i = j
    OBVIOUS
  <2>1. ~ (i < j) /\ ~ (j < i)
    <3>1. muts[i].key \in Nat /\ ~ (muts[i].key < muts[i].key)
      BY <1>3
    <3> QED
      BY <3>1, TransactionIs
  <2> QED
    BY <1>1, <2>1
<1>5. ASSUME NEW v \in VersionsIn(muts, seq)
      PROVE  \E i \in 1 .. Len(muts) : v = VersionFrom(muts[i], seq) /\ v.key = muts[i].key
  BY <1>2, <1>3 DEF FirstVersions
<1>6. 1 \in 1 .. Len(muts)
  BY <1>1
<1>7. VersionsIn(muts, seq) # {}
  BY <1>2, <1>6 DEF FirstVersions
<1>8. \A v, w \in VersionsIn(muts, seq) : v.key = w.key => v = w
  BY <1>4, <1>5
<1>9. \A v \in VersionsIn(muts, seq) : v \in Version /\ v.seq = seq
  BY <1>3, <1>5
<1> QED
  BY <1>2, <1>7, <1>8, <1>9

\* A name more does not matter to the records.
LEMMA SlotsKept ==
    ASSUME NEW m, NEW sp, SpacesWell(sp), SlotsWell(m, sp), NEW x \in SpaceNames
    PROVE  SlotsWell(m, WithNamespace(sp, x))
<1>1. ASSUME NEW b \in Occupied(m), NEW n, n = NamespaceOf[RecordAt(m, b).v.key]
      PROVE  /\ Contains(WithNamespace(sp, x), n)
             /\ RecordAt(m, b).slot = NamespaceSlot(WithNamespace(sp, x), n)
  <2>1. Contains(sp, n) /\ RecordAt(m, b).slot = NamespaceSlot(sp, n)
    BY <1>1 DEF SlotsWell
  <2> QED
    BY <2>1, SlotKept
<1> QED
  BY <1>1 DEF SlotsWell

\* A transaction that is applied adds its versions.
LEMMA AppliedVersions ==
    ASSUME NEW db, NEW s \in Nat, MemtableUpTo(db.mem, s), SpacesWell(db.spaces),
           SlotsWell(db.mem, db.spaces),
           NEW muts \in Transactions, NEW prev, NEW seq \in Nat \ {0}, seq < s,
           NEW slot, slot = NamespaceSlot(db.spaces, Namespace(muts)), slot # 0,
           FitsFrom(db.mem, slot, muts, seq),
           NEW W \in SUBSET Version, MemtableVersions(db.mem) = NewestVersions(W),
           \A v \in W : v.seq < seq
    PROVE  /\ SlotsWell(Applied(db, muts, prev, seq).mem, Applied(db, muts, prev, seq).spaces)
           /\ MemtableVersions(Applied(db, muts, prev, seq).mem) =
                 NewestVersions(W \cup VersionsIn(muts, seq))
<1>1. PICK m, sp, u : /\ m = db.mem /\ sp = db.spaces
                      /\ u = WithNamespace(sp, Namespace(muts))
  OBVIOUS
<1>2. SoundUpTo(m, s) /\ SpacesWell(sp) /\ SlotsWell(m, sp) /\ FitsFrom(m, slot, muts, seq)
  BY <1>1, UpToIs
<1>3. Len(muts) \in Nat /\ Len(muts) \in 0 .. Len(muts)
  <2>1. Len(muts) \in Nat
    BY TransactionIs
  <2> QED
    BY <2>1
<1>4. Namespace(muts) \in SpaceNames
  <2>1. muts[1].key \in Keys
    BY TransactionIs
  <2> QED
    BY <2>1 DEF Namespace, SpaceNames
<1>5. slot \in NamespaceSlots
  BY <1>1, <1>2, NamespaceSlotIs
<1>6. /\ SpacesWell(u) /\ Contains(u, Namespace(muts))
      /\ slot = NamespaceSlot(u, Namespace(muts)) /\ SlotsWell(m, u)
  BY <1>1, <1>2, <1>4, WithNamespaceWell, SlotTaken, SlotsKept
<1>7. PICK w : w = With(m, slot, muts, seq, Len(muts))
  OBVIOUS
<1>8. Applied(db, muts, prev, seq).mem = w /\ Applied(db, muts, prev, seq).spaces = u
  BY <1>1, <1>3, <1>7, AppliedIs
<1>9. PICK V : V = VersionsIn(muts, seq)
  OBVIOUS
<1>10. /\ V \in SUBSET Version /\ V = FirstVersions(muts, seq, Len(muts))
       /\ \A v \in V : v.seq = seq
  BY <1>9, VersionsInIs
<1>11. /\ MemtableVersions(w) = {x \in MemtableVersions(m) : x.key \notin KeysOf(V)} \cup V
       /\ SlotsWell(w, u)
  BY <1>2, <1>3, <1>5, <1>6, <1>7, <1>10, WithVersions
<1>12. NewestVersions(W \cup V) = {v \in NewestVersions(W) : v.key \notin KeysOf(V)} \cup V
  BY <1>10, NewestWithLater
<1>13. MemtableVersions(w) = NewestVersions(W \cup V)
  BY <1>1, <1>11, <1>12
<1> QED
  BY <1>8, <1>9, <1>11, <1>13

-----------------------------------------------------------------------------
(* The log                                                                 *)

LogSorted(l) ==
    /\ l \in Seq(LogRecord)
    /\ \A i, j \in DOMAIN l : i < j => l[i].seq < l[j].seq

\* The numbers up to one of them that is among 1 .. n.
LEMMA FirstOnes ==
    ASSUME NEW L \in Nat, NEW D \in SUBSET (1 .. L), \A i \in D, j \in 1 .. L : j <= i => j \in D
    PROVE  D = 1 .. Cardinality(D) /\ Cardinality(D) \in Nat /\ Cardinality(D) <= L
<1>1. CASE D = {}
  BY <1>1, FS_EmptySet
<1>2. CASE D # {}
  <2>1. D \in SUBSET Nat /\ \A i \in D : i <= L /\ i \in 1 .. L
    OBVIOUS
  <2>2. PICK m : m = Max(D)
    OBVIOUS
  <2>3. m \in D /\ \A i \in D : i <= m
    BY <1>2, <2>1, <2>2, MaxOfNaturals
  <2>4. m \in 1 .. L
    BY <2>1, <2>3
  <2>5. D = 1 .. m
    <3>1. ASSUME NEW j \in 1 .. m PROVE j \in D
      <4>1. j \in 1 .. L /\ j <= m
        BY <2>4
      <4> QED
        BY <2>3, <4>1
    <3>2. ASSUME NEW i \in D PROVE i \in 1 .. m
      BY <2>1, <2>3, <2>4
    <3> QED
      BY <3>1, <3>2
  <2>6. Cardinality(1 .. m) = m
    BY <2>4, FS_Interval
  <2> QED
    BY <2>4, <2>5, <2>6
<1> QED
  BY <1>1, <1>2

\* What After() leaves of a log: the transactions that are after.
LEMMA AfterSet ==
    ASSUME NEW l, LogSorted(l), NEW c \in Nat, NEW w, w = After(l, c)
    PROVE  /\ LogSorted(w) /\ ToSet(w) = {r \in ToSet(l) : r.seq > c}
           /\ w # <<>> => l # <<>> /\ Last(w) = Last(l)
<1> DEFINE L == Len(l)
           D == {i \in DOMAIN l : l[i].seq <= c}
           n == Cardinality(D)
<1>1. /\ l \in Seq(LogRecord) /\ L \in Nat /\ DOMAIN l = 1 .. L
      /\ \A i, j \in 1 .. L : i < j => l[i].seq < l[j].seq
      /\ \A i \in 1 .. L : l[i] \in LogRecord /\ l[i].seq \in Nat
  <2>1. l \in Seq(LogRecord)
    BY DEF LogSorted
  <2>2. \A r \in LogRecord : r.seq \in Nat
    BY DEF LogRecord
  <2> QED
    BY <2>1, <2>2 DEF LogSorted
<1>2. D = 1 .. n /\ n \in Nat /\ n <= L
  <2>1. D \in SUBSET (1 .. L)
    BY <1>1
  <2>2. ASSUME NEW i \in D, NEW j \in 1 .. L, j <= i PROVE j \in D
    <3>1. j = i \/ j < i
      BY <1>1, <2>1, <2>2
    <3>2. i \in 1 .. L /\ l[i].seq <= c
      BY <1>1
    <3>3. l[j].seq <= c
      BY <1>1, <3>1, <3>2
    <3> QED
      BY <1>1, <3>3
  <2> HIDE DEF D
  <2> QED
    BY <1>1, <2>1, <2>2, FirstOnes
<1>3. w \in Seq(LogRecord) /\ EndFrom(w, l, n)
  <2>1. n = Dropped(l, c)
    BY DEF Dropped
  <2> QED
    BY <1>1, <2>1, AfterFrom
<1>4. \A i \in 1 .. L : l[i].seq <= c <=> i <= n
  <2>1. \A i \in 1 .. L : l[i].seq <= c <=> i \in D
    BY <1>1
  <2> HIDE DEF D, n
  <2> QED
    BY <1>1, <1>2, <2>1
<1> HIDE DEF D, n, L
<1>5. /\ Len(w) \in Nat /\ DOMAIN w = 1 .. Len(w) /\ Len(w) + n = L
      /\ \A i \in 1 .. Len(w) : w[i] = l[i + n] /\ i + n \in 1 .. L
  <2>1. Len(w) \in Nat /\ DOMAIN w = 1 .. Len(w)
    BY <1>3
  <2>2. Len(w) + n = L /\ \A i \in 1 .. Len(w) : w[i] = l[i + n]
    BY <1>3 DEF EndFrom, L
  <2>3. \A i \in 1 .. Len(w) : i + n \in 1 .. L
    BY <1>1, <1>2, <2>1, <2>2
  <2> QED
    BY <2>1, <2>2, <2>3
<1>6. LogSorted(w)
  <2>1. ASSUME NEW i \in 1 .. Len(w), NEW j \in 1 .. Len(w), i < j PROVE w[i].seq < w[j].seq
    <3>1. PICK a, b : a = i + n /\ b = j + n
      OBVIOUS
    <3>2. a \in 1 .. L /\ b \in 1 .. L /\ a < b /\ w[i] = l[a] /\ w[j] = l[b]
      BY <1>2, <1>5, <2>1, <3>1
    <3> QED
      BY <1>1, <3>2
  <2> QED
    BY <1>3, <1>5, <2>1 DEF LogSorted
<1>7. ToSet(w) = {r \in ToSet(l) : r.seq > c}
  <2>1. ASSUME NEW i \in 1 .. Len(w) PROVE w[i] \in {r \in ToSet(l) : r.seq > c}
    <3>1. PICK a : a = i + n
      OBVIOUS
    <3>2. a \in 1 .. L /\ w[i] = l[a] /\ ~ (a <= n)
      BY <1>2, <1>5, <3>1
    <3>3. l[a].seq > c
      BY <1>1, <1>4, <3>2
    <3>4. l[a] \in ToSet(l)
      BY <1>1, <3>2 DEF ToSet
    <3> QED
      BY <3>2, <3>3, <3>4
  <2>2. ASSUME NEW r \in ToSet(l), r.seq > c PROVE r \in ToSet(w)
    <3>1. PICK a \in 1 .. L : r = l[a]
      BY <1>1 DEF ToSet
    <3>2. ~ (a <= n)
      BY <1>1, <1>4, <2>2, <3>1
    <3>3. PICK i : i = a - n
      OBVIOUS
    <3>4. i \in 1 .. Len(w) /\ i + n = a
      BY <1>1, <1>2, <1>5, <3>2, <3>3
    <3>5. w[i] = r
      BY <1>5, <3>1, <3>4
    <3> QED
      BY <1>5, <3>4, <3>5 DEF ToSet
  <2> QED
    BY <1>5, <2>1, <2>2 DEF ToSet
<1>8. w # <<>> => l # <<>> /\ Last(w) = Last(l)
  <2> SUFFICES ASSUME w # <<>> PROVE l # <<>> /\ Last(w) = Last(l)
    OBVIOUS
  <2>1. Len(w) # 0
    BY <1>3
  <2>2. Len(w) \in 1 .. Len(w) /\ L # 0
    BY <1>2, <1>5, <2>1
  <2>3. w[Len(w)] = l[L]
    BY <1>5, <2>2
  <2>4. Len(l) # 0
    BY <2>2 DEF L
  <2>5. l # <<>>
    BY <2>4
  <2> QED
    BY <2>3, <2>5 DEF Last, L
<1> QED
  BY <1>6, <1>7, <1>8

\* What the transactions of a log write.
LEMMA WrittenIs ==
    ASSUME NEW l, LogSorted(l), NEW v
    PROVE  v \in Written(l) <=> \E r \in ToSet(l) : v \in VersionsIn(r.muts, r.seq)
BY DEF Written, LogSorted, ToSet

\* A transaction of a log.
LEMMA RecordIs ==
    ASSUME NEW l, LogSorted(l), NEW r \in ToSet(l)
    PROVE  /\ r \in LogRecord /\ r.seq \in Nat \ {0} /\ r.muts \in Transactions
           /\ \A q \in ToSet(l) : q.seq = r.seq => q = r
<1>1. l \in Seq(LogRecord) /\ DOMAIN l = 1 .. Len(l) /\ Len(l) \in Nat
  BY DEF LogSorted
<1>2. PICK i \in 1 .. Len(l) : r = l[i]
  BY <1>1 DEF ToSet
<1>3. \A q \in LogRecord : q.seq \in Nat \ {0} /\ q.muts \in Transactions
  BY DEF LogRecord
<1>4. r \in LogRecord
  BY <1>1, <1>2
<1>5. ASSUME NEW q \in ToSet(l), q.seq = r.seq PROVE q = r
  <2>1. PICK j \in 1 .. Len(l) : q = l[j]
    BY <1>1 DEF ToSet
  <2>2. ~(i < j) /\ ~(j < i)
    <3>1. l[i].seq \in Nat /\ l[j].seq = l[i].seq
      BY <1>1, <1>2, <1>3, <1>5, <2>1
    <3>2. i < j => l[i].seq < l[j].seq
      BY <1>1, <1>2, <2>1 DEF LogSorted
    <3>3. j < i => l[j].seq < l[i].seq
      BY <1>1, <1>2, <2>1 DEF LogSorted
    <3> QED
      BY <3>1, <3>2, <3>3
  <2> QED
    BY <1>1, <1>2, <2>1, <2>2
<1> QED
  BY <1>3, <1>4, <1>5

\* What a log writes: versions that differ.
LEMMA WrittenAre ==
    ASSUME NEW l, LogSorted(l)
    PROVE  /\ Written(l) \in SUBSET Version /\ Consistent(Written(l))
           /\ \A v \in Written(l) : \E r \in ToSet(l) : v.seq = r.seq
           /\ \A r \in ToSet(l) : VersionsIn(r.muts, r.seq) \subseteq Written(l)
<1>1. ASSUME NEW v \in Written(l)
      PROVE  v \in Version /\ \E r \in ToSet(l) : v \in VersionsIn(r.muts, r.seq) /\ v.seq = r.seq
  <2>1. PICK r \in ToSet(l) : v \in VersionsIn(r.muts, r.seq)
    BY <1>1, WrittenIs
  <2>2. r.seq \in Nat \ {0} /\ r.muts \in Transactions
    BY RecordIs
  <2> QED
    BY <2>1, <2>2, VersionsInIs
<1>2. ASSUME NEW v \in Written(l), NEW w \in Written(l), v.key = w.key, v.seq = w.seq
      PROVE  v = w
  <2>1. PICK r \in ToSet(l) : v \in VersionsIn(r.muts, r.seq) /\ v.seq = r.seq
    BY <1>1
  <2>2. PICK q \in ToSet(l) : w \in VersionsIn(q.muts, q.seq) /\ w.seq = q.seq
    BY <1>1
  <2>3. q = r
    BY <1>2, <2>1, <2>2, RecordIs
  <2>4. r.seq \in Nat \ {0} /\ r.muts \in Transactions
    BY RecordIs
  <2> QED
    BY <1>2, <2>1, <2>2, <2>3, <2>4, VersionsInIs
<1>3. \A r \in ToSet(l) : VersionsIn(r.muts, r.seq) \subseteq Written(l)
  BY WrittenIs
<1> QED
  BY <1>1, <1>2, <1>3 DEF Consistent

\* The versions after a sequence.
Later(S, c) == {v \in S : v.seq > c}

\* What the log after a checkpoint writes.
LEMMA WrittenAfter ==
    ASSUME NEW l, LogSorted(l), NEW c \in Nat, NEW w, w = After(l, c)
    PROVE  LogSorted(w) /\ Written(w) = Later(Written(l), c)
<1>1. LogSorted(w) /\ ToSet(w) = {r \in ToSet(l) : r.seq > c}
  BY AfterSet
<1>2. ASSUME NEW v \in Written(w) PROVE v \in Later(Written(l), c)
  <2>1. PICK r \in ToSet(w) : v \in VersionsIn(r.muts, r.seq)
    BY <1>1, <1>2, WrittenIs
  <2>2. r \in ToSet(l) /\ r.seq > c
    BY <1>1
  <2>3. v.seq = r.seq
    BY <2>1, <2>2, RecordIs, VersionsInIs
  <2>4. v \in Written(l)
    BY <2>1, <2>2, WrittenIs
  <2> QED
    BY <2>2, <2>3, <2>4 DEF Later
<1>3. ASSUME NEW v \in Later(Written(l), c) PROVE v \in Written(w)
  <2>1. v \in Written(l) /\ v.seq > c
    BY DEF Later
  <2>2. PICK r \in ToSet(l) : v \in VersionsIn(r.muts, r.seq)
    BY <2>1, WrittenIs
  <2>3. v.seq = r.seq
    BY <2>2, RecordIs, VersionsInIs
  <2>4. r \in ToSet(w)
    BY <1>1, <2>1, <2>3
  <2> QED
    BY <1>1, <2>2, <2>4, WrittenIs
<1> QED
  BY <1>1, <1>2, <1>3

\* The last transaction of a log has its greatest sequence.
LEMMA LastIs ==
    ASSUME NEW l, LogSorted(l), l # <<>>
    PROVE  /\ Last(l) \in ToSet(l) /\ Last(l).seq \in Nat \ {0}
           /\ \A r \in ToSet(l) : r.seq <= Last(l).seq
           /\ UpTo(Written(l), Last(l).seq)
           /\ \E v \in Written(l) : v.seq = Last(l).seq
<1>1. l \in Seq(LogRecord) /\ DOMAIN l = 1 .. Len(l) /\ Len(l) \in Nat /\ Len(l) # 0
  BY DEF LogSorted
<1>2. PICK n : n = Len(l)
  OBVIOUS
<1>3. n \in 1 .. Len(l) /\ Last(l) = l[n]
  BY <1>1, <1>2 DEF Last
<1>4. Last(l) \in ToSet(l)
  BY <1>1, <1>3 DEF ToSet
<1>5. Last(l).seq \in Nat \ {0} /\ Last(l).muts \in Transactions
  BY <1>4, RecordIs
<1>6. ASSUME NEW r \in ToSet(l) PROVE r.seq <= Last(l).seq
  <2>1. PICK i \in 1 .. Len(l) : r = l[i]
    BY <1>1 DEF ToSet
  <2>2. i < n => r.seq < Last(l).seq
    BY <1>1, <1>3, <2>1 DEF LogSorted
  <2>3. i = n => r = Last(l)
    BY <1>3, <2>1
  <2>4. r.seq \in Nat /\ (i < n \/ i = n)
    <3>1. r.seq \in Nat
      BY RecordIs
    <3>2. PICK a, b : a = i /\ b = Len(l)
      OBVIOUS
    <3>3. b \in Nat /\ a \in 1 .. b /\ n = b
      BY <1>1, <1>2, <3>2
    <3>4. a < n \/ a = n
      BY <3>3
    <3> QED
      BY <3>1, <3>2, <3>4
  <2> QED
    BY <1>5, <2>2, <2>3, <2>4
<1>7. UpTo(Written(l), Last(l).seq)
  BY <1>6, WrittenAre DEF UpTo
<1>8. \E v \in Written(l) : v.seq = Last(l).seq
  <2>1. PICK v : v \in VersionsIn(Last(l).muts, Last(l).seq)
    BY <1>5, VersionsInIs
  <2>2. v.seq = Last(l).seq
    BY <1>5, <2>1, VersionsInIs
  <2> QED
    BY <1>4, <2>1, <2>2, WrittenAre
<1> QED
  BY <1>4, <1>5, <1>6, <1>7, <1>8

-----------------------------------------------------------------------------
(* Tables and a log after them                                             *)

\* A newest version of a key is what is shown.
LEMMA ShownNewest ==
    ASSUME NEW S \in SUBSET Version, Consistent(S), NEW v \in NewestVersions(S)
    PROVE  Shown(S, v.key) = Visible(v)
<1>1. v.key \in KeysOf(S)
  BY DEF NewestVersions, KeysOf
<1>2. \A x \in NewestVersions(S) : x.key = v.key => x = v
  BY NewestUnique
<1>3. (CHOOSE x \in NewestVersions(S) : x.key = v.key) = v
  BY <1>2
<1> QED
  BY <1>1, <1>3 DEF Shown

\* Tables up to a checkpoint and the versions after it.
Sides(T, c, W) ==
    /\ T \in SUBSET Version /\ Consistent(T) /\ UpTo(T, c)
    /\ W \in SUBSET Version /\ Consistent(W) /\ W = Later(W, c)
    /\ \E b \in Nat : UpTo(W, b)

\* What both sides of a checkpoint hold.
LEMMA BothSides ==
    ASSUME NEW T, NEW c \in Nat, NEW W, Sides(T, c, W)
    PROVE  /\ T \cup W \in SUBSET Version /\ Consistent(T \cup W)
           /\ \E d \in Nat : UpTo(T \cup W, d)
           /\ NewestVersions(W) \subseteq NewestVersions(T \cup W)
           /\ \A v \in NewestVersions(T) :
                 v.key \notin KeysOf(W) => v \in NewestVersions(T \cup W)
<1>0. /\ T \in SUBSET Version /\ Consistent(T) /\ UpTo(T, c)
      /\ W \in SUBSET Version /\ Consistent(W) /\ W = Later(W, c)
  BY DEF Sides
<1> PICK b \in Nat : UpTo(W, b)
  BY DEF Sides
<1>1. \A v \in W : v.seq \in Nat /\ v.seq > c /\ v.seq <= b
  <2>1. \A v \in W : v \in Version /\ v.seq > c
    BY <1>0 DEF Later
  <2> QED
    BY <2>1, VersionIs DEF UpTo
<1>2. \A v \in T : v.seq \in Nat /\ v.seq <= c
  BY <1>0, VersionIs DEF UpTo
<1>3. Consistent(T \cup W)
  <2>1. ASSUME NEW v \in T \cup W, NEW w \in T \cup W, v.key = w.key, v.seq = w.seq
        PROVE  v = w
    <3>1. (v \in T /\ w \in T) \/ (v \in W /\ w \in W)
      BY <1>1, <1>2, <2>1
    <3> QED
      BY <1>0, <2>1, <3>1 DEF Consistent
  <2> QED
    BY <2>1 DEF Consistent
<1>4. \E d \in Nat : UpTo(T \cup W, d)
  <2>1. b + c \in Nat /\ UpTo(T \cup W, b + c)
    BY <1>1, <1>2 DEF UpTo
  <2> QED
    BY <2>1
<1>5. NewestVersions(W) \subseteq NewestVersions(T \cup W)
  BY <1>1, <1>2 DEF NewestVersions
<1>6. \A v \in NewestVersions(T) :
         v.key \notin KeysOf(W) => v \in NewestVersions(T \cup W)
  BY DEF NewestVersions, KeysOf
<1> QED
  BY <1>0, <1>3, <1>4, <1>5, <1>6

\* A transaction that is later than all others hides what it writes.
LEMMA ShownLater ==
    ASSUME NEW S \in SUBSET Version, Consistent(S), NEW s \in Nat, \A v \in S : v.seq < s,
           NEW V \in SUBSET Version, \A v \in V : v.seq = s,
           \A v, w \in V : v.key = w.key => v = w, NEW k
    PROVE  /\ \A v \in V : v.key = k => Shown(S \cup V, k) = Visible(v)
           /\ k \notin KeysOf(V) => Shown(S \cup V, k) = Shown(S, k)
<1>1. NewestVersions(S \cup V) = {v \in NewestVersions(S) : v.key \notin KeysOf(V)} \cup V
  BY NewestWithLater
<1>2. S \cup V \in SUBSET Version /\ Consistent(S \cup V)
  <2>1. \A v \in S : v.seq \in Nat
    BY VersionIs
  <2>2. ASSUME NEW v \in S \cup V, NEW w \in S \cup V, v.key = w.key, v.seq = w.seq
        PROVE  v = w
    <3>1. (v \in S /\ w \in S) \/ (v \in V /\ w \in V)
      BY <2>1, <2>2
    <3> QED
      BY <2>2, <3>1 DEF Consistent
  <2> QED
    BY <2>2 DEF Consistent
<1>3. ASSUME NEW v \in V, v.key = k PROVE Shown(S \cup V, k) = Visible(v)
  BY <1>1, <1>2, <1>3, ShownNewest
<1>4. ASSUME k \notin KeysOf(V) PROVE Shown(S \cup V, k) = Shown(S, k)
  <2>1. KeysOf(S \cup V) = KeysOf(S) \cup KeysOf(V)
    BY DEF KeysOf
  <2>2. CASE k \notin KeysOf(S)
    BY <1>4, <2>1, <2>2 DEF Shown
  <2>3. CASE k \in KeysOf(S)
    <3>1. PICK w \in S : w.key = k
      BY <2>3 DEF KeysOf
    <3>2. UpTo(S, s)
      BY VersionIs DEF UpTo
    <3>3. PICK v \in NewestVersions(S) : v.key = k
      BY <3>1, <3>2, NewestExists
    <3>4. v \in NewestVersions(S \cup V)
      BY <1>1, <1>4, <3>3
    <3> QED
      BY <1>2, <3>3, <3>4, ShownNewest
  <2> QED
    BY <2>2, <2>3
<1> QED
  BY <1>3, <1>4

-----------------------------------------------------------------------------
(* Manifest copies                                                         *)

\* CopyWell for any log and any truth.
CopyOf(copy, l, tr) ==
    /\ TablesWell(copy.tables)
    /\ UpTo(AllVersions(copy.tables), copy.ckpt)
    /\ \A k \in Keys :
          Shown(AllVersions(copy.tables) \cup Written(After(l, copy.ckpt)), k) = Visible(tr[k])

\* What a copy and the log after it hold.
LEMMA CopyHolds ==
    ASSUME NEW l, LogSorted(l), NEW copy, copy.ckpt \in Nat, TablesWell(copy.tables),
           UpTo(AllVersions(copy.tables), copy.ckpt),
           NEW T, T = AllVersions(copy.tables), NEW W, W = Later(Written(l), copy.ckpt)
    PROVE  Sides(T, copy.ckpt, W) /\ Written(After(l, copy.ckpt)) = W
<1>1. T \in SUBSET Version /\ Consistent(T) /\ UpTo(T, copy.ckpt)
  BY BankIs DEF TablesWell
<1>2. Written(l) \in SUBSET Version /\ Consistent(Written(l))
  BY WrittenAre
<1>3. W \in SUBSET Version /\ Consistent(W) /\ W = Later(W, copy.ckpt)
  BY <1>2 DEF Later, Consistent
<1>4. Written(After(l, copy.ckpt)) = W
  BY WrittenAfter
<1>5. \E b \in Nat : UpTo(W, b)
  <2>1. CASE l = <<>>
    <3>1. ToSet(l) = {}
      BY <2>1 DEF ToSet
    <3>2. W = {}
      BY <3>1, WrittenAre DEF Later
    <3> QED
      BY <3>2 DEF UpTo
  <2>2. CASE l # <<>>
    BY <2>2, LastIs DEF UpTo, Later
  <2> QED
    BY <2>1, <2>2
<1> QED
  BY <1>1, <1>3, <1>4, <1>5 DEF Sides

\* A copy stays well when the log before it is released.
LEMMA CopyKept ==
    ASSUME NEW l, LogSorted(l), NEW tr, NEW copy, copy.ckpt \in Nat, CopyOf(copy, l, tr),
           NEW w, w = After(l, copy.ckpt)
    PROVE  /\ LogSorted(w) /\ CopyOf(copy, w, tr)
           /\ Written(After(w, copy.ckpt)) = Written(w)
<1>1. LogSorted(w) /\ Written(w) = Later(Written(l), copy.ckpt)
  BY WrittenAfter
<1>2. Written(After(w, copy.ckpt)) = Later(Written(w), copy.ckpt)
  BY <1>1, WrittenAfter
<1>3. Later(Later(Written(l), copy.ckpt), copy.ckpt) = Later(Written(l), copy.ckpt)
  BY DEF Later
<1> QED
  BY <1>1, <1>2, <1>3 DEF CopyOf

\* The memtable as flush and compaction sort it.
LEMMA SortedIs ==
    ASSUME NEW m, NEW s \in Nat, SoundUpTo(m, s), NEW W \in SUBSET Version, Consistent(W),
           MemtableVersions(m) = NewestVersions(W)
    PROVE  /\ SortedMemtable(m) \in Seq(Version) /\ InOrder(SortedMemtable(m))
           /\ ToSet(SortedMemtable(m)) = NewestVersions(W)
           /\ \A v, w \in NewestVersions(W) : v.key = w.key => v = w
<1>1. \A v, w \in NewestVersions(W) : v.key = w.key => v = w
  BY NewestUnique
<1>2. NewestVersions(W) \in SUBSET Version
  BY DEF NewestVersions
<1> QED
  BY <1>1, <1>2, InKeyOrderSorted DEF SortedMemtable

\* Nothing is left for the memtable.
NothingAfter(l, c) == NewestVersions(Written(After(l, c))) = {}

\* A flush that succeeds.
LEMMA FlushedData ==
    ASSUME NEW l, LogSorted(l), NEW tr, NEW copy, copy.ckpt \in Nat, CopyOf(copy, l, tr),
           Len(copy.tables) # BankSize,
           NEW m, NEW s \in Nat, SoundUpTo(m, s), m.count # 0,
           MemtableVersions(m) = NewestVersions(Written(After(l, copy.ckpt))),
           NEW t, t = BuildTable(SortedMemtable(m)), t # <<>>,
           NEW c, c.tables = Append(copy.tables, t), c.ckpt = MaxSequence(t),
           NEW w, w = After(l, copy.ckpt)
    PROVE  /\ w # <<>> /\ l # <<>> /\ Last(w) = Last(l) /\ c.ckpt = Last(l).seq
           /\ copy.ckpt <= c.ckpt /\ CopyOf(c, w, tr)
           /\ NothingAfter(w, c.ckpt)
<1> DEFINE T == AllVersions(copy.tables)
           W == Later(Written(l), copy.ckpt)
<1>0. TablesWell(copy.tables) /\ UpTo(AllVersions(copy.tables), copy.ckpt)
  BY DEF CopyOf
<1>1. Sides(T, copy.ckpt, W) /\ Written(w) = W /\ LogSorted(w)
  BY <1>0, CopyHolds, WrittenAfter
<1>2. /\ T \in SUBSET Version /\ Consistent(T) /\ UpTo(T, copy.ckpt)
      /\ W \in SUBSET Version /\ Consistent(W) /\ W = Later(W, copy.ckpt)
  BY <1>1 DEF Sides
<1>3. T \cup W \in SUBSET Version /\ Consistent(T \cup W)
  BY <1>1, BothSides
<1>b. PICK b \in Nat : UpTo(W, b)
  BY <1>1 DEF Sides
<1>d. PICK d \in Nat : UpTo(T \cup W, d)
  BY <1>1, BothSides
<1>4. \A k \in Keys : Shown(T \cup W, k) = Visible(tr[k])
  BY <1>1, <1>2, <1>3 DEF CopyOf
<1>5. TablesWell(copy.tables) /\ AllWell(copy.tables)
  BY DEF CopyOf, TablesWell
<1> HIDE DEF T, W
<1>6. /\ SortedMemtable(m) \in Seq(Version) /\ InOrder(SortedMemtable(m))
      /\ ToSet(SortedMemtable(m)) = NewestVersions(W)
  BY <1>1, <1>2, <1>3, SortedIs
<1>7. NewestVersions(W) # {}
  <2>1. m.count = Cardinality(Occupied(m)) /\ IsFiniteSet(Occupied(m))
    BY CountWithin DEF SoundUpTo
  <2>2. Occupied(m) # {}
    BY <2>1, FS_EmptySet
  <2> QED
    BY <1>1, <1>2, <1>3, <2>2 DEF MemtableVersions
<1>8. TableWell(t) /\ TableSet(t) = NewestVersions(W)
  <2>1. SortedMemtable(m) # <<>>
    BY <1>6, <1>7 DEF ToSet
  <2> QED
    BY <1>6, <2>1, BuildTableWell
<1>9. w # <<>> /\ l # <<>> /\ Last(w) = Last(l)
  <2>1. w # <<>>
    <3>1. SUFFICES ASSUME w = <<>> PROVE FALSE
      OBVIOUS
    <3>2. ToSet(w) = {}
      BY <3>1 DEF ToSet
    <3>3. Written(w) = {}
      BY <1>1, <1>2, <1>3, <3>2, WrittenAre
    <3> QED
      BY <1>1, <1>2, <1>3, <1>7, <3>3 DEF NewestVersions
  <2> QED
    BY <2>1, AfterSet
<1>10. PICK x : x = Last(w).seq
  OBVIOUS
<1>11. x \in Nat /\ UpTo(W, x) /\ \E v \in W : v.seq = x
  BY <1>1, <1>2, <1>3, <1>9, <1>10, LastIs
<1>12. c.ckpt = x
  <2>1. PICK v \in W : v.seq = x
    BY <1>11
  <2>2. v \in NewestVersions(W)
    BY <1>11, <2>1 DEF NewestVersions, UpTo
  <2>3. UpTo(NewestVersions(W), x)
    BY <1>11 DEF NewestVersions, UpTo
  <2>4. /\ MaxSequence(t) \in Nat /\ MaxSequence(t) <= x
        /\ UpTo(NewestVersions(W), MaxSequence(t))
    BY <1>8, <1>11, <2>3, MaxSequenceIs
  <2>5. x <= MaxSequence(t)
    BY <2>1, <2>2, <2>4 DEF UpTo
  <2> QED
    BY <1>11, <2>4, <2>5
<1>13. copy.ckpt <= x
  <2>1. PICK v \in W : v.seq = x
    BY <1>11
  <2>2. v.seq > copy.ckpt
    BY <1>1, <1>2, <1>3, <2>1 DEF Later
  <2> QED
    BY <1>11, <2>1, <2>2
<1>14. Later(W, x) = {} /\ Written(After(w, x)) = {}
  <2>1. \A v \in W : v.seq \in Nat /\ v.seq <= x
    BY <1>1, <1>2, <1>3, <1>11, VersionIs DEF UpTo
  <2>2. Later(W, x) = {}
    BY <1>11, <2>1 DEF Later
  <2> QED
    BY <1>1, <1>2, <1>3, <1>11, <2>2, WrittenAfter
<1>15. /\ AllWell(c.tables) /\ Len(c.tables) = Len(copy.tables) + 1
       /\ AllVersions(c.tables) = T \cup NewestVersions(W)
  BY <1>5, <1>8, AppendTable DEF T
<1>16. NewestVersions(W) \subseteq W
  BY DEF NewestVersions
<1>17. TablesWell(c.tables)
  <2>1. Len(c.tables) <= BankSize
    <3>1. Len(copy.tables) \in Nat /\ Len(copy.tables) <= BankSize
      BY <1>5, BankIs DEF TablesWell
    <3>2. BankSize \in Nat
      BY TablesAssumption
    <3> QED
      BY <1>15, <3>1, <3>2
  <2>2. Consistent(T \cup NewestVersions(W))
    BY <1>1, <1>2, <1>3, <1>16 DEF Consistent
  <2> QED
    BY <1>15, <2>1, <2>2 DEF TablesWell
<1>18. UpTo(AllVersions(c.tables), x)
  <2>1. \A v \in T : v.seq \in Nat /\ v.seq <= copy.ckpt
    BY <1>1, <1>2, <1>3, VersionIs DEF UpTo
  <2>2. \A v \in T : v.seq <= x
    BY <1>11, <1>13, <2>1
  <2> QED
    BY <1>11, <1>15, <1>16, <2>2 DEF UpTo
<1>19. \A k \in Keys : Shown(AllVersions(c.tables) \cup Written(After(w, x)), k) = Visible(tr[k])
  <2> TAKE k \in Keys
  <2>1. Live(T \cup NewestVersions(W)) = Live(T \cup W)
    BY <1>1, <1>2, <1>3, <1>b, NewestJoin
  <2>2. T \cup NewestVersions(W) \in SUBSET Version /\ Consistent(T \cup NewestVersions(W))
        /\ UpTo(T \cup NewestVersions(W), d)
    BY <1>1, <1>2, <1>3, <1>d, <1>16 DEF Consistent, UpTo
  <2>3. Shown(T \cup NewestVersions(W), k) = Shown(T \cup W, k)
    BY <1>1, <1>2, <1>3, <1>d, <2>1, <2>2, SameShown
  <2> QED
    BY <1>4, <1>14, <1>15, <2>3
<1>20. CopyOf(c, w, tr)
  BY <1>12, <1>17, <1>18, <1>19 DEF CopyOf
<1>21. NothingAfter(w, c.ckpt)
  BY <1>12, <1>14 DEF NothingAfter, NewestVersions
<1> QED
  BY <1>9, <1>10, <1>12, <1>13, <1>20, <1>21

\* What a compaction merges.
LEMMA SourcesAre ==
    ASSUME NEW m, NEW tables, AllWell(tables), NEW T, T = AllVersions(tables),
           NEW W, SortedMemtable(m) \in Seq(Version),
           ToSet(SortedMemtable(m)) = NewestVersions(W),
           \A v, w \in NewestVersions(W) : v.key = w.key => v = w
    PROVE  /\ SourcesWell(Sources(m, tables))
           /\ SourceSet(Sources(m, tables)) = NewestVersions(W) \cup T
<1>1. /\ Len(tables) \in Nat /\ DOMAIN tables = 1 .. Len(tables)
      /\ \A i \in 1 .. Len(tables) : TableWell(tables[i])
  BY TablesAre
<1>2. PICK n, u : n = Len(tables) /\ u = [i \in DOMAIN tables |-> Entries(tables[i])]
  OBVIOUS
<1>3. /\ n \in Nat /\ u \in Seq(Seq(Version)) /\ Len(u) = n
      /\ \A i \in 1 .. n : u[i] = Entries(tables[i])
  <2>1. u = [i \in 1 .. n |-> Entries(tables[i])]
    BY <1>1, <1>2
  <2>2. \A i \in 1 .. n : Entries(tables[i]) \in Seq(Version)
    BY <1>1, <1>2, EntriesAre
  <2> QED
    BY <1>1, <1>2, <2>1, <2>2
<1>4. PICK s : s = <<SortedMemtable(m)>> \o u
  OBVIOUS
<1>5. s = Sources(m, tables)
  BY <1>2, <1>4 DEF Sources
<1>6. /\ Len(s) = n + 1 /\ DOMAIN s = 1 .. (n + 1) /\ s[1] = SortedMemtable(m)
      /\ \A i \in 1 .. n : s[i + 1] = u[i]
  <2>1. PICK h : h = SortedMemtable(m)
    OBVIOUS
  <2>2. s = <<h>> \o u /\ h \in Seq(Version)
    BY <1>4, <2>1
  <2> QED
    BY <1>3, <2>1, <2>2
<1>7. \A i \in 1 .. n :
         /\ ToSet(s[i + 1]) = TableSet(tables[i]) /\ TableSet(tables[i]) \in SUBSET Version
         /\ \A v, w \in TableSet(tables[i]) : v.key = w.key => v = w
  BY <1>1, <1>2, <1>3, <1>6, EntriesAre, TableIs
<1>8. NewestVersions(W) \in SUBSET Version
  BY DEF ToSet
<1>9. \A j \in 1 .. (n + 1) : j = 1 \/ (\E i \in 1 .. n : j = i + 1)
  <2> TAKE j \in 1 .. (n + 1)
  <2>1. CASE j # 1
    <3>1. j - 1 \in 1 .. n /\ j = (j - 1) + 1
      BY <1>3, <2>1
    <3> QED
      BY <3>1
  <2> QED
    BY <2>1
<1>10. SourcesWell(s)
  <2>1. ASSUME NEW j \in 1 .. (n + 1)
        PROVE  /\ ToSet(s[j]) \in SUBSET Version
               /\ \A v, w \in ToSet(s[j]) : v.key = w.key => v = w
    <3>1. CASE j = 1
      BY <1>6, <1>8, <3>1
    <3>2. CASE \E i \in 1 .. n : j = i + 1
      BY <1>7, <3>2
    <3> QED
      BY <1>9, <3>1, <3>2
  <2> QED
    BY <1>3, <1>6, <2>1 DEF SourcesWell
<1>11. SourceSet(s) = NewestVersions(W) \cup T
  <2>1. ASSUME NEW v \in SourceSet(s) PROVE v \in NewestVersions(W) \cup T
    <3>1. PICK j \in 1 .. (n + 1) : v \in ToSet(s[j])
      BY <1>6 DEF SourceSet
    <3>2. CASE j = 1
      BY <1>6, <3>1, <3>2
    <3>3. CASE \E i \in 1 .. n : j = i + 1
      BY <1>2, <1>7, <3>1, <3>3, TablesAre
    <3> QED
      BY <1>9, <3>2, <3>3
  <2>2. ASSUME NEW v \in NewestVersions(W) PROVE v \in SourceSet(s)
    <3>1. 1 \in 1 .. (n + 1)
      BY <1>3
    <3> QED
      BY <1>6, <2>2, <3>1 DEF SourceSet
  <2>3. ASSUME NEW v \in T PROVE v \in SourceSet(s)
    <3>1. PICK i \in 1 .. n : v \in TableSet(tables[i])
      BY <1>2, <2>3, TablesAre
    <3>2. i + 1 \in 1 .. (n + 1)
      BY <1>3
    <3>3. v \in ToSet(s[i + 1])
      BY <1>7, <3>1
    <3> QED
      BY <1>6, <3>2, <3>3 DEF SourceSet
  <2> QED
    BY <2>1, <2>2, <2>3
<1> QED
  BY <1>5, <1>10, <1>11

\* A compaction that succeeds.
LEMMA MergedData ==
    ASSUME NEW l, LogSorted(l), NEW tr, NEW copy, copy.ckpt \in Nat, CopyOf(copy, l, tr),
           NEW m, NEW s \in Nat, SoundUpTo(m, s),
           MemtableVersions(m) = NewestVersions(Written(After(l, copy.ckpt))),
           NEW after \in Nat, \A r \in ToSet(l) : r.seq < after,
           NEW r, r = Merge(Sources(m, copy.tables), after), r.error = "none",
           NEW c, c.tables = r.tables, c.ckpt = r.greatest,
           NEW w, w = After(l, r.greatest)
    PROVE  /\ w = <<>> /\ c.ckpt = after - 1 /\ c.ckpt \in Nat
           /\ CopyOf(c, w, tr)
           /\ NothingAfter(w, c.ckpt)
<1> DEFINE T == AllVersions(copy.tables)
           W == Later(Written(l), copy.ckpt)
<1>0. TablesWell(copy.tables) /\ UpTo(AllVersions(copy.tables), copy.ckpt)
  BY DEF CopyOf
<1>1. Sides(T, copy.ckpt, W) /\ Written(After(l, copy.ckpt)) = W
  BY <1>0, CopyHolds
<1>2. /\ T \in SUBSET Version /\ Consistent(T) /\ UpTo(T, copy.ckpt)
      /\ W \in SUBSET Version /\ Consistent(W) /\ W = Later(W, copy.ckpt)
  BY <1>1 DEF Sides
<1>3. T \cup W \in SUBSET Version /\ Consistent(T \cup W)
  BY <1>1, BothSides
<1>b. PICK b \in Nat : UpTo(W, b)
  BY <1>1 DEF Sides
<1>d. PICK d \in Nat : UpTo(T \cup W, d)
  BY <1>1, BothSides
<1>4. \A k \in Keys : Shown(T \cup W, k) = Visible(tr[k])
  BY <1>1 DEF CopyOf
<1> HIDE DEF W
<1>6. /\ SortedMemtable(m) \in Seq(Version)
      /\ ToSet(SortedMemtable(m)) = NewestVersions(W)
      /\ \A v, x \in NewestVersions(W) : v.key = x.key => v = x
  BY <1>1, <1>2, SortedIs
<1>7. /\ SourcesWell(Sources(m, copy.tables))
      /\ SourceSet(Sources(m, copy.tables)) = NewestVersions(W) \cup T
  <2>1. AllWell(copy.tables)
    BY <1>0 DEF TablesWell
  <2> QED
    BY <1>6, <2>1, SourcesAre
<1> HIDE DEF T
<1>8. T \cup NewestVersions(W) \subseteq T \cup W
  BY DEF NewestVersions
<1>9. Consistent(NewestVersions(W) \cup T)
  BY <1>3, <1>8 DEF Consistent
<1>10. /\ TablesWell(r.tables)
       /\ AllVersions(r.tables) = Live(T \cup W)
       /\ r.greatest = after - 1 /\ r.greatest \in Nat
       /\ UpTo(AllVersions(r.tables), r.greatest)
  <2>1. Consistent(SourceSet(Sources(m, copy.tables)))
    BY <1>7, <1>9
  <2>2. /\ TablesWell(r.tables)
        /\ AllVersions(r.tables) = Live(SourceSet(Sources(m, copy.tables)))
        /\ r.greatest = after - 1 /\ r.greatest \in Nat
        /\ UpTo(AllVersions(r.tables), r.greatest)
    BY <1>7, <2>1, MergeIs
  <2>3. NewestVersions(W) \cup T = T \cup NewestVersions(W)
    OBVIOUS
  <2>4. Live(T \cup NewestVersions(W)) = Live(T \cup W)
    BY <1>2, <1>b, NewestJoin
  <2> QED
    BY <1>7, <2>2, <2>3, <2>4
<1>11. LogSorted(w) /\ w = <<>>
  <2>1. LogSorted(w) /\ ToSet(w) = {q \in ToSet(l) : q.seq > r.greatest}
    BY <1>10, AfterSet
  <2>2. \A q \in ToSet(l) : q.seq \in Nat /\ q.seq < after
    BY RecordIs
  <2>3. ToSet(w) = {}
    BY <1>10, <2>1, <2>2
  <2>4. SUFFICES ASSUME w # <<>> PROVE FALSE
    BY <2>1
  <2> QED
    BY <2>1, <2>3, <2>4, LastIs
<1>12. Written(After(w, r.greatest)) = {}
  <2>1. ToSet(w) = {}
    BY <1>11 DEF ToSet
  <2>2. Written(w) = {}
    BY <1>11, <2>1, WrittenAre
  <2> QED
    BY <1>10, <1>11, <2>2, WrittenAfter DEF Later
<1>13. \A k \in Keys : Shown(AllVersions(r.tables) \cup {}, k) = Visible(tr[k])
  <2> TAKE k \in Keys
  <2>1. Live(T \cup W) \subseteq T \cup W
    BY DEF Live, NewestVersions
  <2>2. Live(T \cup W) \in SUBSET Version /\ Consistent(Live(T \cup W)) /\ UpTo(Live(T \cup W), d)
    BY <1>3, <1>d, <2>1 DEF Consistent, UpTo
  <2>3. Live(Live(T \cup W)) = Live(T \cup W)
    BY LiveOfLive
  <2>4. Shown(Live(T \cup W), k) = Shown(T \cup W, k)
    BY <1>3, <1>d, <2>2, <2>3, SameShown
  <2>5. AllVersions(r.tables) \cup {} = Live(T \cup W)
    BY <1>10
  <2> QED
    BY <1>4, <2>4, <2>5
<1>14. CopyOf(c, w, tr)
  BY <1>10, <1>12, <1>13 DEF CopyOf
<1>15. NothingAfter(w, c.ckpt)
  BY <1>12 DEF NothingAfter, NewestVersions
<1> QED
  BY <1>10, <1>11, <1>14, <1>15

-----------------------------------------------------------------------------
(* Replay                                                                  *)

\* An empty memtable shows nothing.
LEMMA EmptyVersions ==
    ASSUME NEW sp
    PROVE  MemtableVersions(EmptyMemtable) = {} /\ SlotsWell(EmptyMemtable, sp)
<1>1. Occupied(EmptyMemtable) = {}
  BY DEF Occupied, EmptyMemtable, Vacant
<1> QED
  BY <1>1 DEF MemtableVersions, SlotsWell

\* A turn of the replay takes a transaction into the memtable.
LEMMA ReplayedVersions ==
    ASSUME NEW r, NEW s \in Nat, MemtableUpTo(r.mem, s), SpacesWell(r.spaces),
           SlotsWell(r.mem, r.spaces),
           NEW t \in LogRecord, t.seq < s, ReplayTransaction(r, t).error = "none",
           NEW W \in SUBSET Version, MemtableVersions(r.mem) = NewestVersions(W),
           \A v \in W : v.seq < t.seq
    PROVE  /\ SlotsWell(ReplayTransaction(r, t).mem, ReplayTransaction(r, t).spaces)
           /\ MemtableVersions(ReplayTransaction(r, t).mem) =
                 NewestVersions(W \cup VersionsIn(t.muts, t.seq))
<1>1. r.error = "none"
  BY DEF ReplayTransaction
<1>2. PICK p : p = Preflight(r, t.muts)
  OBVIOUS
<1>3. ReplayTransaction(r, t) = Replayed(r, p, t)
  BY <1>1, <1>2 DEF ReplayTransaction
<1>4. p.error = "none"
  BY <1>3 DEF Replayed
<1>5. ReplayTransaction(r, t) = Applied(r, t.muts, p.prev, t.seq)
  BY <1>3, <1>4 DEF Replayed
<1>6. t.muts \in Transactions /\ t.seq \in Nat \ {0}
  BY DEF LogRecord
<1>7. PICK slot : slot = NamespaceSlot(r.spaces, Namespace(t.muts))
  OBVIOUS
<1>8. slot \in 0 .. MaxNamespaces
  BY <1>7, NamespaceSlotIs
<1>9. Sound(r.mem) /\ Len(r.mem.data) <= DataSize
  BY UpToIs DEF SoundUpTo
<1>10. slot \in NamespaceSlots /\ FitsFrom(r.mem, slot, t.muts, t.seq)
  BY <1>2, <1>4, <1>6, <1>7, <1>8, <1>9, PreflightFits
<1>11. slot # 0
  BY <1>10 DEF NamespaceSlots
<1> QED
  BY <1>5, <1>6, <1>7, <1>10, <1>11, AppliedVersions

\* What the first transactions of a log write.
WrittenFirst(l, n) == UNION {VersionsIn(l[i].muts, l[i].seq) : i \in 1 .. n}

\* One transaction more.
LEMMA WrittenTurn ==
    ASSUME NEW l, LogSorted(l), NEW n \in 1 .. Len(l)
    PROVE  /\ WrittenFirst(l, n - 1) \in SUBSET Version
           /\ \A v \in WrittenFirst(l, n - 1) : v.seq < l[n].seq
           /\ WrittenFirst(l, n) = WrittenFirst(l, n - 1) \cup VersionsIn(l[n].muts, l[n].seq)
<1>1. l \in Seq(LogRecord) /\ Len(l) \in Nat /\ DOMAIN l = 1 .. Len(l)
  BY DEF LogSorted
<1>2. \A i \in 1 .. Len(l) : l[i] \in ToSet(l)
  BY <1>1 DEF ToSet
<1>3. ASSUME NEW v \in WrittenFirst(l, n - 1) PROVE v \in Version /\ v.seq < l[n].seq
  <2>1. PICK i \in 1 .. (n - 1) : v \in VersionsIn(l[i].muts, l[i].seq)
    BY DEF WrittenFirst
  <2>2. i \in 1 .. Len(l) /\ i < n
    BY <1>1
  <2>3. l[i].seq < l[n].seq
    BY <1>1, <2>2 DEF LogSorted
  <2>4. l[i].seq \in Nat \ {0} /\ l[i].muts \in Transactions
    BY <1>2, <2>2, RecordIs
  <2> QED
    BY <2>1, <2>3, <2>4, VersionsInIs
<1>4. \A i : i \in 1 .. n <=> i \in 1 .. (n - 1) \/ i = n
  BY <1>1
<1>5. WrittenFirst(l, n) = WrittenFirst(l, n - 1) \cup VersionsIn(l[n].muts, l[n].seq)
  BY <1>4 DEF WrittenFirst
<1> QED
  BY <1>3, <1>5

\* A replay without an error takes the whole log into the memtable.
LEMMA ReplayVersions ==
    ASSUME NEW l, LogSorted(l), NEW tables, NEW s \in Nat,
           \A i \in 1 .. Len(l) : l[i].seq < s,
           NEW r, r = Replaying!Iterated(l, RecoverTables(tables), Len(l)), r.error = "none"
    PROVE  SlotsWell(r.mem, r.spaces) /\ MemtableVersions(r.mem) = NewestVersions(Written(l))
<1> DEFINE z == RecoverTables(tables)
           R(n) == Replaying!Iterated(l, z, n)
           L == Len(l)
<1>0. l \in Seq(LogRecord) /\ DOMAIN l = 1 .. L
  BY DEF LogSorted
<1>1. L \in Nat
  BY <1>0
<1>2. R(0) = z
  BY <1>1, Replaying!IteratedTurns
<1>3. ASSUME NEW n \in 1 .. L PROVE R(n) = ReplayTransaction(R(n - 1), l[n]) /\ l[n] \in LogRecord
  <2>1. n - 1 \in Nat /\ (n - 1) + 1 = n
    BY <1>1
  <2>2. R(n) = ReplayTurn(l, R(n - 1), n)
    BY <2>1, Replaying!IteratedTurns
  <2> HIDE DEF R
  <2> QED
    BY <1>0, <2>2 DEF ReplayTurn
<1>4. R(L) = r
  OBVIOUS
<1> HIDE DEF R, z
<1>5. \A n \in 0 .. L : R(n).error = "none"
  <2> DEFINE S == {n \in 0 .. L : R(n).error = "none"}
  <2>1. L \in S
    BY <1>1, <1>4
  <2>2. ASSUME NEW n \in 1 .. L, n \in S PROVE n - 1 \in S
    <3>1. n - 1 \in 0 .. L
      BY <1>1
    <3>2. R(n - 1).error # "none" => R(n) = R(n - 1)
      BY <1>3 DEF ReplayTransaction
    <3> QED
      BY <2>2, <3>1, <3>2
  <2>3. \A n \in 0 .. L : n \in S
    <3> HIDE DEF S
    <3> QED
      BY <1>1, <2>1, <2>2, EarlierTurn
  <2> QED
    BY <2>3
<1> DEFINE Good(n) == /\ MemtableUpTo(R(n).mem, s) /\ SpacesWell(R(n).spaces)
                      /\ SlotsWell(R(n).mem, R(n).spaces)
                      /\ MemtableVersions(R(n).mem) = NewestVersions(WrittenFirst(l, n))
<1>6. Good(0)
  <2>1. z.error = "none"
    BY <1>1, <1>2, <1>5
  <2>2. MemtableUpTo(z.mem, s) /\ SpacesWell(z.spaces)
    BY <2>1, RecoverTablesUpTo DEF z
  <2>3. z.mem = EmptyMemtable
    BY DEF z, RecoverTables
  <2>4. NewestVersions(WrittenFirst(l, 0)) = {}
    <3>1. 1 .. 0 = {}
      OBVIOUS
    <3> QED
      BY <3>1 DEF WrittenFirst, NewestVersions
  <2> QED
    BY <1>2, <2>2, <2>3, <2>4, EmptyVersions
<1>7. ASSUME NEW n \in 1 .. L, Good(n - 1) PROVE Good(n)
  <2>1. PICK q, t, W : q = R(n - 1) /\ t = l[n] /\ W = WrittenFirst(l, n - 1)
    OBVIOUS
  <2>2. /\ MemtableUpTo(q.mem, s) /\ SpacesWell(q.spaces) /\ SlotsWell(q.mem, q.spaces)
        /\ MemtableVersions(q.mem) = NewestVersions(W)
    BY <1>7, <2>1
  <2>3. t \in LogRecord /\ t.seq < s /\ R(n) = ReplayTransaction(q, t)
    BY <1>3, <2>1
  <2>4. ReplayTransaction(q, t).error = "none"
    BY <1>5, <2>3
  <2>5. MemtableUpTo(R(n).mem, s) /\ SpacesWell(R(n).spaces)
    BY <2>2, <2>3, <2>4, ReplayedUpTo
  <2>6. /\ W \in SUBSET Version /\ \A v \in W : v.seq < t.seq
        /\ WrittenFirst(l, n) = W \cup VersionsIn(t.muts, t.seq)
    BY <2>1, WrittenTurn
  <2>7. /\ SlotsWell(R(n).mem, R(n).spaces)
        /\ MemtableVersions(R(n).mem) = NewestVersions(W \cup VersionsIn(t.muts, t.seq))
    BY <2>2, <2>3, <2>4, <2>6, ReplayedVersions
  <2> QED
    BY <2>5, <2>6, <2>7
<1>8. \A n \in 0 .. L : Good(n)
  <2> HIDE DEF Good
  <2> DEFINE S == {n \in 0 .. L : Good(n)}
  <2>1. 0 \in S /\ \A n \in 1 .. L : n - 1 \in S => n \in S
    BY <1>1, <1>6, <1>7
  <2>2. \A n \in 0 .. L : n \in S
    <3> HIDE DEF S
    <3> QED
      BY <1>1, <2>1, EveryTurn
  <2> QED
    BY <2>2
<1>9. Good(L)
  BY <1>1, <1>8
<1>10. WrittenFirst(l, L) = Written(l)
  BY <1>0 DEF WrittenFirst, Written
<1> QED
  BY <1>4, <1>9, <1>10

-----------------------------------------------------------------------------
(* The data of a database                                                  *)

\* What the invariants say of the log and of both copies.
LEMMA DataIs ==
    ASSUME LsmInv, DataInv
    PROVE  /\ LogSorted(log) /\ next \in Nat \ {0} /\ disk.ckpt \in Nat /\ older.ckpt \in Nat
           /\ CopyOf(disk, log, truth) /\ CopyOf(older, log, truth)
           /\ SoundUpTo(mem, next) /\ MemtableUpTo(mem, next) /\ SpacesWell(spaces)
           /\ SlotsWell(mem, spaces)
           /\ log # <<>> => Last(log).seq \in Nat \ {0}
           /\ LastSequence \in Nat
<1>1. LogSorted(log)
  BY DEF LsmInv, LogWell, LogSorted, LogRecord
<1>2. CopyOf(disk, log, truth) /\ CopyOf(older, log, truth)
  BY DEF DataInv, CopyWell, CopyOf, UpTo
<1>3. log # <<>> => Last(log).seq \in Nat \ {0}
  BY <1>1, LastIs
<1>4. LastSequence \in Nat
  BY <1>3 DEF LastSequence, LsmInv
<1>5. SoundUpTo(mem, next) /\ MemtableUpTo(mem, next) /\ SpacesWell(spaces)
  BY UpToIs DEF LsmInv
<1> QED
  BY <1>1, <1>2, <1>3, <1>4, <1>5 DEF LsmInv, DataInv

\* A database at first.
LEMMA InitData == Init => DataInv
<1> SUFFICES ASSUME Init PROVE DataInv
  OBVIOUS
<1>1. /\ mem = EmptyMemtable /\ spaces = <<>> /\ disk = [tables |-> <<>>, ckpt |-> 0]
      /\ older = disk /\ log = <<>> /\ next = 1 /\ pc = "idle"
      /\ truth = [k \in Keys |-> NoVersion]
  BY DEF Init
<1>2. LogSorted(log) /\ Written(log) = {}
  <2>1. LogSorted(log)
    BY <1>1 DEF LogSorted
  <2>2. ToSet(log) = {}
    BY <1>1 DEF ToSet
  <2> QED
    BY <2>1, <2>2, WrittenAre
<1>3. Written(After(log, 0)) = {}
  BY <1>2, WrittenAfter DEF Later
<1>4. AllVersions(<<>>) = {} /\ TablesWell(<<>>)
  <2>1. AllVersions(<<>>) = {}
    BY DEF AllVersions
  <2>2. AllWell(<<>>)
    BY DEF AllWell
  <2>3. Len(<<>>) <= BankSize
    BY TablesAssumption
  <2> QED
    BY <2>1, <2>2, <2>3 DEF TablesWell, Consistent
<1>5. CopyWell(disk)
  <2>1. \A k \in Keys : Shown({}, k) = Visible(truth[k])
    BY <1>1 DEF Shown, KeysOf, Visible, NoVersion
  <2> QED
    BY <1>1, <1>3, <1>4, <2>1 DEF CopyWell
<1>6. SlotsWell(mem, spaces)
  BY <1>1, EmptyVersions
<1>7. MemtableVersions(mem) = NewestVersions(Written(After(AppliedLog, disk.ckpt)))
  BY <1>1, <1>3, EmptyVersions DEF AppliedLog, NewestVersions
<1>8. SequencesWell
  BY <1>1 DEF SequencesWell, LastSequence
<1> QED
  BY <1>1, <1>5, <1>6, <1>7, <1>8 DEF DataInv

\* A step that leaves the data alone.
LEMMA KeptData ==
    ASSUME DataInv, pc # "apply", pc' # "apply",
           UNCHANGED <<mem, spaces, disk, older, log, next, truth>>
    PROVE  DataInv'
<1>1. CopyWell(disk)' /\ CopyWell(older)' /\ SlotsWell(mem, spaces)'
  BY DEF DataInv, CopyWell
<1>2. AppliedLog' = AppliedLog /\ LastSequence' = LastSequence
  BY DEF AppliedLog, LastSequence
<1>3. SequencesWell'
  BY <1>2 DEF DataInv, SequencesWell
<1> QED
  BY <1>1, <1>2, <1>3 DEF DataInv

\* The data after a step that ends outside of apply.
LEMMA DataFrom ==
    ASSUME LogSorted(log'), CopyOf(disk', log', truth'), CopyOf(older', log', truth'),
           SlotsWell(mem', spaces'), pc' # "apply",
           MemtableVersions(mem') = NewestVersions(Written(After(log', disk'.ckpt))),
           older'.ckpt <= disk'.ckpt, disk'.ckpt <= LastSequence',
           log' = <<>> => older'.ckpt = disk'.ckpt,
           next' = LastSequence' + 1
    PROVE  DataInv'
<1>1. CopyWell(disk)' /\ CopyWell(older)'
  BY DEF CopyWell, CopyOf, UpTo
<1>2. AppliedLog' = log'
  BY DEF AppliedLog
<1>3. SequencesWell'
  BY DEF SequencesWell
<1> QED
  BY <1>1, <1>2, <1>3 DEF DataInv

\* A compaction.
LEMMA CompactedData ==
    ASSUME LsmInv, DataInv, pc # "apply", NEW d, d = Compacted(Database), Becomes(d),
           UNCHANGED <<spaces, next, truth>>, pc' # "apply"
    PROVE  DataInv'
<1>1. /\ LogSorted(log) /\ next \in Nat \ {0} /\ disk.ckpt \in Nat /\ older.ckpt \in Nat
      /\ CopyOf(disk, log, truth) /\ SoundUpTo(mem, next)
      /\ LastSequence \in Nat
  BY DataIs
<1>2. /\ d.error = "none" /\ mem' = d.mem /\ disk' = d.disk /\ older' = d.older
      /\ log' = d.log
  BY DEF Becomes
<1>3. PICK m : m = Merge(Sources(mem, disk.tables), next)
  OBVIOUS
<1>4. d = Selected(Database, m)
  BY <1>3 DEF Compacted, Database
<1>5. /\ m.error = "none" /\ mem' = EmptyMemtable
      /\ disk'.tables = m.tables /\ disk'.ckpt = m.greatest /\ older' = disk'
      /\ log' = After(log, m.greatest)
  <2>1. m.error = "none"
    BY <1>2, <1>4, SelectedIs
  <2>2. /\ d.mem = EmptyMemtable /\ d.disk = [tables |-> m.tables, ckpt |-> m.greatest]
        /\ d.older = d.disk /\ d.log = After(log, m.greatest)
    <3>1. PICK y : y = [tables |-> m.tables, ckpt |-> m.greatest]
      OBVIOUS
    <3>2. d = [Database EXCEPT !.mem = EmptyMemtable, !.disk = y, !.older = y,
                               !.log = After(@, m.greatest), !.spare = TRUE,
                               !.stats = [@ EXCEPT !.tombs = 0, !.bytes = m.bytes],
                               !.stale = \/ @ /\ txn # NoTransaction
                                         \/ \E i \in DOMAIN txn.prev :
                                               txn.prev[i].state = "tombstone"]
      BY <1>4, <2>1, <3>1 DEF Selected
    <3>3. d.disk = y /\ d.older = y
      BY <3>2 DEF Database
    <3> QED
      BY <1>2, <1>4, <3>1, <3>3, SelectedIs
  <2> QED
    BY <1>2, <2>1, <2>2
<1>6. /\ MemtableVersions(mem) = NewestVersions(Written(After(log, disk.ckpt)))
      /\ next = LastSequence + 1
  BY DEF DataInv, AppliedLog, SequencesWell
<1>7. \A r \in ToSet(log) : r.seq < next
  <2> TAKE r \in ToSet(log)
  <2>1. log # <<>>
    BY DEF ToSet
  <2>2. r.seq <= Last(log).seq /\ Last(log).seq \in Nat /\ LastSequence = Last(log).seq
    BY <1>1, <2>1, LastIs DEF LastSequence
  <2>3. r.seq \in Nat
    BY <1>1, RecordIs
  <2> QED
    BY <1>6, <2>2, <2>3
<1>8. PICK c, w, a, tr : c = disk' /\ w = log' /\ a = next /\ tr = truth
  OBVIOUS
<1>9. /\ w = <<>> /\ c.ckpt = a - 1 /\ c.ckpt \in Nat /\ CopyOf(c, w, tr)
      /\ NothingAfter(w, c.ckpt)
  <2>1. PICK l, q, x : l = log /\ q = disk /\ x = mem
    OBVIOUS
  <2>2. /\ LogSorted(l) /\ q.ckpt \in Nat /\ CopyOf(q, l, tr) /\ a \in Nat /\ SoundUpTo(x, a)
        /\ MemtableVersions(x) = NewestVersions(Written(After(l, q.ckpt)))
        /\ \A r \in ToSet(l) : r.seq < a
        /\ m = Merge(Sources(x, q.tables), a) /\ m.error = "none"
        /\ c.tables = m.tables /\ c.ckpt = m.greatest /\ w = After(l, m.greatest)
    BY <1>1, <1>3, <1>5, <1>6, <1>7, <1>8, <2>1
  <2> QED
    BY <2>2, MergedData
<1>10. LogSorted(log')
  BY <1>8, <1>9 DEF LogSorted
<1>11. LastSequence' = disk'.ckpt
  BY <1>8, <1>9 DEF LastSequence
<1>12. next' = disk'.ckpt + 1
  BY <1>1, <1>8, <1>9
<1>13. /\ CopyOf(disk', log', truth') /\ CopyOf(older', log', truth')
       /\ MemtableVersions(mem') = NewestVersions(Written(After(log', disk'.ckpt)))
       /\ SlotsWell(mem', spaces')
  BY <1>5, <1>8, <1>9, EmptyVersions DEF NothingAfter
<1>14. disk'.ckpt \in Nat
  BY <1>8, <1>9
<1> QED
  BY <1>5, <1>10, <1>11, <1>12, <1>13, <1>14, DataFrom

\* A flush to a table.
LEMMA FlushedToData ==
    ASSUME LsmInv, DataInv, pc # "apply", mem.count # 0, Len(disk.tables) # BankSize,
           NEW d, d = FlushedTo(Database, BuildTable(SortedMemtable(mem))), Becomes(d),
           UNCHANGED <<spaces, next, truth>>, pc' # "apply"
    PROVE  DataInv'
<1>1. /\ LogSorted(log) /\ next \in Nat \ {0} /\ disk.ckpt \in Nat /\ older.ckpt \in Nat
      /\ CopyOf(disk, log, truth) /\ SoundUpTo(mem, next)
      /\ LastSequence \in Nat
  BY DataIs
<1>2. /\ d.error = "none" /\ mem' = d.mem /\ disk' = d.disk /\ older' = d.older
      /\ log' = d.log
  BY DEF Becomes
<1>3. PICK t : t = BuildTable(SortedMemtable(mem))
  OBVIOUS
<1>4. /\ t # <<>> /\ mem' = EmptyMemtable /\ older' = disk /\ log' = After(log, disk.ckpt)
      /\ disk'.tables = Append(disk.tables, t) /\ disk'.ckpt = MaxSequence(t)
  <2>1. t # <<>>
    BY <1>2, <1>3, FlushedToIs
  <2>2. /\ d.mem = EmptyMemtable /\ d.older = disk /\ d.log = After(log, disk.ckpt)
        /\ d.disk = [tables |-> Append(disk.tables, t), ckpt |-> MaxSequence(t)]
    BY <1>3, <2>1 DEF FlushedTo, Database
  <2> QED
    BY <1>2, <2>1, <2>2
<1>5. /\ MemtableVersions(mem) = NewestVersions(Written(After(log, disk.ckpt)))
      /\ next = LastSequence + 1
  BY DEF DataInv, AppliedLog, SequencesWell
<1>6. PICK c, w, tr : c = disk' /\ w = log' /\ tr = truth
  OBVIOUS
<1>7. /\ w # <<>> /\ log # <<>> /\ Last(w) = Last(log) /\ c.ckpt = Last(log).seq
      /\ disk.ckpt <= c.ckpt /\ CopyOf(c, w, tr)
      /\ NothingAfter(w, c.ckpt)
  <2>1. PICK l, q, x, a : l = log /\ q = disk /\ x = mem /\ a = next
    OBVIOUS
  <2>2. /\ LogSorted(l) /\ q.ckpt \in Nat /\ CopyOf(q, l, tr) /\ a \in Nat /\ SoundUpTo(x, a)
        /\ MemtableVersions(x) = NewestVersions(Written(After(l, q.ckpt)))
        /\ x.count # 0 /\ Len(q.tables) # BankSize
        /\ t = BuildTable(SortedMemtable(x)) /\ t # <<>>
        /\ c.tables = Append(q.tables, t) /\ c.ckpt = MaxSequence(t) /\ w = After(l, q.ckpt)
    BY <1>1, <1>3, <1>4, <1>5, <1>6, <2>1
  <2>3. w # <<>> /\ l # <<>> /\ Last(w) = Last(l) /\ c.ckpt = Last(l).seq
    BY <2>2, FlushedData
  <2>4. q.ckpt <= c.ckpt /\ CopyOf(c, w, tr)
    BY <2>2, FlushedData
  <2>5. NothingAfter(w, c.ckpt)
    BY <2>2, FlushedData
  <2> QED
    BY <2>1, <2>3, <2>4, <2>5
<1>8. LogSorted(w) /\ CopyOf(disk, w, tr)
  BY <1>1, <1>4, <1>6, CopyKept
<1>9. LastSequence' = Last(log).seq /\ LastSequence = Last(log).seq
  BY <1>6, <1>7 DEF LastSequence
<1>10. /\ CopyOf(disk', log', truth') /\ CopyOf(older', log', truth') /\ LogSorted(log')
       /\ MemtableVersions(mem') = NewestVersions(Written(After(log', disk'.ckpt)))
       /\ SlotsWell(mem', spaces')
  BY <1>4, <1>6, <1>7, <1>8, EmptyVersions DEF NothingAfter
<1>11. /\ older'.ckpt <= disk'.ckpt /\ disk'.ckpt <= LastSequence' /\ log' # <<>>
       /\ next' = LastSequence' + 1
  BY <1>1, <1>4, <1>5, <1>6, <1>7, <1>9
<1> QED
  BY <1>10, <1>11, DataFrom

\* Maintenance: nothing, a flush or a compaction.
LEMMA BecomesData ==
    ASSUME LsmInv, DataInv, pc # "apply",
           NEW d, d \in {Flushed(Database), Compacted(Database)}, Becomes(d),
           UNCHANGED <<spaces, next, truth>>, pc' # "apply"
    PROVE  DataInv'
<1>1. CASE d = Compacted(Database)
  BY <1>1, CompactedData
<1>2. CASE d = Flushed(Database) /\ d # Compacted(Database)
  <2>1. CASE mem.count = 0
    <3>1. d = Database
      BY <1>2, <2>1 DEF Flushed, Database
    <3>2. UNCHANGED <<mem, disk, older, log>>
      BY <3>1 DEF Becomes, Database
    <3> QED
      BY <3>2, KeptData
  <2>2. CASE mem.count # 0
    <3>1. /\ Len(disk.tables) # BankSize
          /\ d = FlushedTo(Database, BuildTable(SortedMemtable(mem)))
      BY <1>2, <2>2 DEF Flushed, Database
    <3> QED
      BY <2>2, <3>1, FlushedToData
  <2> QED
    BY <2>1, <2>2
<1> QED
  BY <1>1, <1>2

\* The switch to the other slot of the log.
LEMMA RotateData ==
    ASSUME LsmInv, DataInv, Rotate
    PROVE  DataInv'
<1>1. /\ pc = "rotate" /\ pc' = "append" /\ older' = disk /\ log' = After(log, disk.ckpt)
      /\ UNCHANGED <<mem, spaces, disk, next, truth>>
  BY DEF Rotate
<1>2. /\ LogSorted(log) /\ next \in Nat \ {0} /\ disk.ckpt \in Nat
      /\ CopyOf(disk, log, truth) /\ SlotsWell(mem, spaces)
      /\ log # <<>> => Last(log).seq \in Nat \ {0}
  BY DataIs
<1>3. /\ MemtableVersions(mem) = NewestVersions(Written(After(log, disk.ckpt)))
      /\ next = LastSequence + 1 /\ disk.ckpt <= LastSequence
  BY <1>1 DEF DataInv, AppliedLog, SequencesWell
<1>4. /\ LogSorted(log') /\ CopyOf(disk, log', truth)
      /\ Written(After(log', disk.ckpt)) = Written(log')
  <2>1. PICK l, q, w, tr : l = log /\ q = disk /\ w = log' /\ tr = truth
    OBVIOUS
  <2>2. LogSorted(l) /\ q.ckpt \in Nat /\ CopyOf(q, l, tr) /\ w = After(l, q.ckpt)
    BY <1>1, <1>2, <2>1
  <2>3. LogSorted(w) /\ CopyOf(q, w, tr) /\ Written(After(w, q.ckpt)) = Written(w)
    BY <2>2, CopyKept
  <2> QED
    BY <2>1, <2>3
<1>5. LastSequence' = LastSequence
  <2>1. CASE log' = <<>>
    <3>1. LastSequence' = disk.ckpt
      BY <1>1, <2>1 DEF LastSequence
    <3>2. CASE log = <<>>
      BY <3>1, <3>2 DEF LastSequence
    <3>3. CASE log # <<>>
      <4>1. ToSet(log') = {r \in ToSet(log) : r.seq > disk.ckpt}
        BY <1>1, <1>2, AfterSet
      <4>2. ToSet(log') = {}
        BY <2>1 DEF ToSet
      <4>3. Last(log) \in ToSet(log)
        BY <1>2, <3>3, LastIs
      <4>4. ~ (Last(log).seq > disk.ckpt)
        BY <4>1, <4>2, <4>3
      <4>5. LastSequence = Last(log).seq
        BY <3>3 DEF LastSequence
      <4> QED
        BY <1>2, <1>3, <3>1, <3>3, <4>4, <4>5
    <3> QED
      BY <3>2, <3>3
  <2>2. CASE log' # <<>>
    <3>1. log # <<>> /\ Last(log') = Last(log)
      BY <1>1, <1>2, <2>2, AfterSet
    <3> QED
      BY <2>2, <3>1 DEF LastSequence
  <2> QED
    BY <2>1, <2>2
<1>6. Written(After(log, disk.ckpt)) = Written(After(log', disk.ckpt))
  BY <1>1, <1>4
<1>7. /\ CopyOf(disk', log', truth') /\ CopyOf(older', log', truth')
      /\ SlotsWell(mem', spaces')
      /\ MemtableVersions(mem') = NewestVersions(Written(After(log', disk'.ckpt)))
  BY <1>1, <1>2, <1>3, <1>4, <1>6
<1>8. /\ older'.ckpt <= disk'.ckpt /\ disk'.ckpt <= LastSequence'
      /\ log' = <<>> => older'.ckpt = disk'.ckpt
      /\ next' = LastSequence' + 1
  BY <1>1, <1>2, <1>3, <1>5
<1> QED
  BY <1>1, <1>4, <1>7, <1>8, DataFrom

\* A log with one more transaction.
LEMMA AppendedLog ==
    ASSUME NEW l, LogSorted(l), NEW t \in LogRecord, \A r \in ToSet(l) : r.seq < t.seq,
           NEW w, w = Append(l, t)
    PROVE  /\ LogSorted(w) /\ w # <<>> /\ Last(w) = t /\ SubSeq(w, 1, Len(w) - 1) = l
           /\ ToSet(w) = ToSet(l) \cup {t}
<1>1. l \in Seq(LogRecord) /\ Len(l) \in Nat /\ DOMAIN l = 1 .. Len(l)
  BY DEF LogSorted
<1>2. PICK n : n = Len(l)
  OBVIOUS
<1>3. /\ n \in Nat /\ DOMAIN l = 1 .. n /\ w \in Seq(LogRecord) /\ Len(w) = n + 1
      /\ DOMAIN w = 1 .. (n + 1) /\ w[n + 1] = t /\ \A i \in 1 .. n : w[i] = l[i]
  BY <1>1, <1>2
<1>4. \A i \in 1 .. (n + 1) : i \in 1 .. n \/ i = n + 1
  BY <1>3
<1>5. \A i \in 1 .. n : i \in 1 .. (n + 1) /\ n + 1 \in 1 .. (n + 1)
  BY <1>3
<1>6. ToSet(w) = ToSet(l) \cup {t}
  <2>1. ASSUME NEW x \in ToSet(w) PROVE x \in ToSet(l) \cup {t}
    BY <1>3, <1>4 DEF ToSet
  <2>2. ASSUME NEW x \in ToSet(l) PROVE x \in ToSet(w)
    BY <1>3, <1>5 DEF ToSet
  <2>3. t \in ToSet(w)
    <3>1. n + 1 \in 1 .. (n + 1)
      BY <1>3
    <3> QED
      BY <1>3, <3>1 DEF ToSet
  <2> QED
    BY <2>1, <2>2, <2>3
<1>7. LogSorted(w)
  <2>1. ASSUME NEW i \in 1 .. (n + 1), NEW j \in 1 .. (n + 1), i < j
        PROVE  w[i].seq < w[j].seq
    <3>1. i \in 1 .. n
      BY <1>3, <2>1
    <3>2. CASE j \in 1 .. n
      BY <1>3, <2>1, <3>1, <3>2 DEF LogSorted
    <3>3. CASE j = n + 1
      <4>1. l[i] \in ToSet(l)
        BY <1>3, <3>1 DEF ToSet
      <4> QED
        BY <1>3, <3>1, <3>3, <4>1
    <3> QED
      BY <1>4, <3>2, <3>3
  <2> QED
    BY <1>3, <2>1 DEF LogSorted
<1>8. SubSeq(w, 1, Len(w) - 1) = l
  <2>1. PICK u : u = SubSeq(w, 1, n)
    OBVIOUS
  <2>2. n \in 0 .. Len(w) /\ n = Len(w) - 1
    BY <1>3
  <2>3. u \in Seq(LogRecord) /\ Len(u) = n /\ \A i \in 1 .. n : u[i] = w[i]
    BY <1>3, <2>1, <2>2
  <2>4. \A i \in 1 .. n : u[i] = l[i]
    BY <1>3, <2>3
  <2>5. u = l
    BY <1>1, <1>2, <2>3, <2>4
  <2> QED
    BY <2>1, <2>2, <2>5
<1>9. w # <<>> /\ Last(w) = t
  BY <1>3 DEF Last
<1> QED
  BY <1>6, <1>7, <1>8, <1>9

\* What a log with one more transaction writes.
LEMMA AppendedWritten ==
    ASSUME NEW l, LogSorted(l), NEW w, LogSorted(w), NEW t \in LogRecord,
           ToSet(w) = ToSet(l) \cup {t}, NEW c \in Nat, c < t.seq
    PROVE  Written(After(w, c)) = Written(After(l, c)) \cup VersionsIn(t.muts, t.seq)
<1>1. t.seq \in Nat \ {0} /\ t.muts \in Transactions
  BY DEF LogRecord
<1>2. Written(After(w, c)) = Later(Written(w), c) /\ Written(After(l, c)) = Later(Written(l), c)
  BY WrittenAfter
<1>3. \A v \in VersionsIn(t.muts, t.seq) : v.seq > c
  BY <1>1, VersionsInIs
<1>4. \A v : v \in Written(w) <=> v \in Written(l) \/ v \in VersionsIn(t.muts, t.seq)
  <2> TAKE v
  <2>1. v \in Written(w) <=> \E r \in ToSet(w) : v \in VersionsIn(r.muts, r.seq)
    BY WrittenIs
  <2>2. v \in Written(l) <=> \E r \in ToSet(l) : v \in VersionsIn(r.muts, r.seq)
    BY WrittenIs
  <2> QED
    BY <2>1, <2>2
<1> QED
  BY <1>2, <1>3, <1>4 DEF Later

\* The truth after a transaction.
TruthWith(tr, muts, seq) ==
    [k \in Keys |-> IF \E i \in DOMAIN muts : muts[i].key = k
                    THEN VersionFrom(CHOOSE m \in ToSet(muts) : m.key = k, seq)
                    ELSE tr[k]]

\* It is what the transaction writes, and otherwise as before.
LEMMA TruthIs ==
    ASSUME NEW tr, NEW muts \in Transactions, NEW seq \in Nat \ {0}, NEW k \in Keys,
           NEW V, V = VersionsIn(muts, seq)
    PROVE  \/ \E v \in V : v.key = k /\ TruthWith(tr, muts, seq)[k] = v
           \/ k \notin KeysOf(V) /\ TruthWith(tr, muts, seq)[k] = tr[k]
<1>1. DOMAIN muts = 1 .. Len(muts)
  BY TransactionIs
<1>2. CASE \E i \in DOMAIN muts : muts[i].key = k
  <2>1. PICK m : m = CHOOSE x \in ToSet(muts) : x.key = k
    OBVIOUS
  <2>2. m \in ToSet(muts) /\ m.key = k
    BY <1>2, <2>1 DEF ToSet
  <2>3. PICK i \in DOMAIN muts : m = muts[i]
    BY <2>2 DEF ToSet
  <2>4. TruthWith(tr, muts, seq)[k] = VersionFrom(m, seq)
    BY <1>2, <2>1 DEF TruthWith
  <2>5. VersionFrom(m, seq) \in V /\ VersionFrom(m, seq).key = k
    BY <2>2, <2>3 DEF VersionsIn, VersionFrom
  <2> QED
    BY <2>4, <2>5
<1>3. CASE ~ \E i \in DOMAIN muts : muts[i].key = k
  <2>1. TruthWith(tr, muts, seq)[k] = tr[k]
    BY <1>3 DEF TruthWith
  <2>2. k \notin KeysOf(V)
    BY <1>3 DEF KeysOf, VersionsIn, VersionFrom
  <2> QED
    BY <2>1, <2>2
<1> QED
  BY <1>2, <1>3

\* A copy shows the new truth when the log has one more transaction.
LEMMA CopyAppended ==
    ASSUME NEW l, LogSorted(l), NEW tr, NEW copy, copy.ckpt \in Nat, CopyOf(copy, l, tr),
           NEW t \in LogRecord, \A r \in ToSet(l) : r.seq < t.seq, copy.ckpt < t.seq,
           NEW w, w = Append(l, t)
    PROVE  CopyOf(copy, w, TruthWith(tr, t.muts, t.seq))
<1>0. TablesWell(copy.tables) /\ UpTo(AllVersions(copy.tables), copy.ckpt)
  BY DEF CopyOf
<1>1. PICK T, W, V, S : /\ T = AllVersions(copy.tables) /\ W = Later(Written(l), copy.ckpt)
                        /\ V = VersionsIn(t.muts, t.seq) /\ S = T \cup W
  OBVIOUS
<1>2. Sides(T, copy.ckpt, W) /\ Written(After(l, copy.ckpt)) = W
  BY <1>0, <1>1, CopyHolds
<1>3. S \in SUBSET Version /\ Consistent(S)
  BY <1>1, <1>2, BothSides
<1>4. t.seq \in Nat \ {0} /\ t.muts \in Transactions
  BY DEF LogRecord
<1>5. \A v \in S : v.seq < t.seq
  <2>1. ASSUME NEW v \in T PROVE v.seq < t.seq
    <3>1. v \in Version /\ v.seq <= copy.ckpt
      BY <1>0, <1>1, <1>2 DEF UpTo, Sides
    <3>2. v.seq \in Nat
      BY <3>1, VersionIs
    <3> QED
      BY <1>4, <3>1, <3>2
  <2>2. ASSUME NEW v \in W PROVE v.seq < t.seq
    <3>1. v \in Written(l)
      BY <1>1, <2>2 DEF Later
    <3> QED
      BY <3>1, WrittenAre
  <2> QED
    BY <1>1, <2>1, <2>2
<1>6. /\ V \in SUBSET Version /\ \A v \in V : v.seq = t.seq
      /\ \A v, x \in V : v.key = x.key => v = x
  BY <1>1, <1>4, VersionsInIs
<1>7. Written(After(w, copy.ckpt)) = W \cup V
  <2>1. LogSorted(w) /\ ToSet(w) = ToSet(l) \cup {t}
    BY AppendedLog
  <2> QED
    BY <1>1, <1>2, <2>1, AppendedWritten
<1>8. T \cup (W \cup V) = S \cup V
  BY <1>1
<1>9. ASSUME NEW k \in Keys
      PROVE  Shown(S \cup V, k) = Visible(TruthWith(tr, t.muts, t.seq)[k])
  <2>1. Shown(S, k) = Visible(tr[k])
    BY <1>1, <1>2 DEF CopyOf
  <2>2. PICK x : x = TruthWith(tr, t.muts, t.seq)[k]
    OBVIOUS
  <2>3. (\E v \in V : v.key = k /\ x = v) \/ (k \notin KeysOf(V) /\ x = tr[k])
    BY <1>1, <1>4, <2>2, TruthIs
  <2>4. CASE \E v \in V : v.key = k /\ x = v
    <3>1. Shown(S \cup V, k) = Visible(x)
      BY <1>3, <1>4, <1>5, <1>6, <2>4, ShownLater
    <3> QED
      BY <2>2, <3>1
  <2>5. CASE k \notin KeysOf(V) /\ x = tr[k]
    <3>1. Shown(S \cup V, k) = Shown(S, k)
      BY <1>3, <1>4, <1>5, <1>6, <2>5, ShownLater
    <3> QED
      BY <2>1, <2>2, <2>5, <3>1
  <2> QED
    BY <2>3, <2>4, <2>5
<1> QED
  BY <1>0, <1>1, <1>7, <1>8, <1>9 DEF CopyOf

\* The transaction goes to the log.
LEMMA AppendFramesData ==
    ASSUME LsmInv, DataInv, AppendFrames
    PROVE  DataInv'
<1>1. /\ pc = "append" /\ pc' = "apply"
      /\ log' = Append(log, [seq |-> next, muts |-> txn.muts])
      /\ truth' = TruthWith(truth, txn.muts, next)
      /\ UNCHANGED <<mem, spaces, disk, older, next, txn>>
  BY DEF AppendFrames, TruthWith
<1>2. /\ LogSorted(log) /\ next \in Nat \ {0} /\ disk.ckpt \in Nat /\ older.ckpt \in Nat
      /\ CopyOf(disk, log, truth) /\ CopyOf(older, log, truth)
      /\ SlotsWell(mem, spaces) /\ LastSequence \in Nat
  BY DataIs
<1>3. txn.muts \in Transactions
  BY <1>1 DEF LsmInv, TxnWell
<1>4. /\ MemtableVersions(mem) = NewestVersions(Written(After(log, disk.ckpt)))
      /\ next = LastSequence + 1 /\ disk.ckpt <= LastSequence /\ older.ckpt <= disk.ckpt
  BY <1>1 DEF DataInv, AppliedLog, SequencesWell
<1>5. PICK l, t, tr, w : /\ l = log /\ t = [seq |-> next, muts |-> txn.muts]
                         /\ tr = truth /\ w = Append(l, t)
  OBVIOUS
<1>6. t \in LogRecord /\ t.seq = next /\ t.muts = txn.muts
  BY <1>2, <1>3, <1>5 DEF LogRecord
<1>7. LogSorted(l) /\ \A r \in ToSet(l) : r.seq < t.seq
  <2> SUFFICES ASSUME NEW r \in ToSet(log) PROVE r.seq < next
    BY <1>2, <1>5, <1>6
  <2>1. log # <<>>
    BY DEF ToSet
  <2>2. r.seq <= Last(log).seq /\ Last(log).seq \in Nat /\ LastSequence = Last(log).seq
    BY <1>2, <2>1, LastIs DEF LastSequence
  <2>3. r.seq \in Nat
    BY <1>2, RecordIs
  <2> QED
    BY <1>4, <2>2, <2>3
<1>8. disk.ckpt < t.seq /\ older.ckpt < t.seq
  BY <1>2, <1>4, <1>6
<1>9. CopyOf(disk', log', truth') /\ CopyOf(older', log', truth')
  <2>1. PICK x, y : x = disk /\ y = older
    OBVIOUS
  <2>2. CopyOf(x, w, TruthWith(tr, t.muts, t.seq)) /\ CopyOf(y, w, TruthWith(tr, t.muts, t.seq))
    <3>1. /\ CopyOf(x, l, tr) /\ CopyOf(y, l, tr) /\ x.ckpt \in Nat /\ y.ckpt \in Nat
          /\ x.ckpt < t.seq /\ y.ckpt < t.seq
      BY <1>2, <1>5, <1>8, <2>1
    <3> QED
      BY <1>5, <1>6, <1>7, <3>1, CopyAppended
  <2>3. TruthWith(tr, t.muts, t.seq) = truth'
    BY <1>1, <1>5, <1>6
  <2>4. log' = w /\ disk' = x /\ older' = y
    BY <1>1, <1>5, <2>1
  <2> QED
    BY <2>2, <2>3, <2>4
<1>10. w # <<>> /\ Last(w) = t /\ SubSeq(w, 1, Len(w) - 1) = l
  <2>1. w = Append(l, t)
    BY <1>5
  <2>2. t \in LogRecord
    BY <1>6
  <2>3. w # <<>> /\ Last(w) = t
    BY <1>7, <2>1, <2>2, AppendedLog
  <2>4. SubSeq(w, 1, Len(w) - 1) = l
    BY <1>7, <2>1, <2>2, AppendedLog
  <2> QED
    BY <2>3, <2>4
<1>11. log' = w
  BY <1>1, <1>5
<1>12. AppliedLog' = log
  BY <1>1, <1>5, <1>10, <1>11 DEF AppliedLog
<1>13. LastSequence' = next
  BY <1>6, <1>10, <1>11 DEF LastSequence
<1>14. SequencesWell'
  <2>1. /\ older'.ckpt <= disk'.ckpt /\ disk'.ckpt <= LastSequence' /\ log' # <<>>
        /\ next' = LastSequence' /\ disk'.ckpt < next'
    BY <1>1, <1>2, <1>4, <1>10, <1>11, <1>13
  <2>2. Last(log').muts = txn'.muts
    BY <1>1, <1>6, <1>10, <1>11
  <2> QED
    BY <1>1, <2>1, <2>2 DEF SequencesWell
<1>15. CopyWell(disk)' /\ CopyWell(older)'
  BY <1>9 DEF CopyWell, CopyOf, UpTo
<1>16. SlotsWell(mem, spaces)'
  BY <1>1, <1>2
<1>17. (MemtableVersions(mem) = NewestVersions(Written(After(AppliedLog, disk.ckpt))))'
  BY <1>1, <1>4, <1>12
<1> QED
  BY <1>14, <1>15, <1>16, <1>17 DEF DataInv

\* A log has the transactions of another and one more.
HasAlso(l, f, t) == ToSet(l) = ToSet(f) \cup {t}

\* A log without its last transaction.
LEMMA FrontOfLog ==
    ASSUME NEW l, LogSorted(l), l # <<>>, NEW f, f = SubSeq(l, 1, Len(l) - 1),
           NEW t, t = Last(l)
    PROVE  /\ LogSorted(f) /\ t \in LogRecord /\ HasAlso(l, f, t)
           /\ \A r \in ToSet(f) : r.seq < t.seq
<1>1. l \in Seq(LogRecord) /\ Len(l) \in Nat /\ DOMAIN l = 1 .. Len(l) /\ Len(l) # 0
  BY DEF LogSorted
<1>2. PICK n : n = Len(l)
  OBVIOUS
<1>3. n \in Nat \ {0} /\ DOMAIN l = 1 .. n /\ t = l[n] /\ f = SubSeq(l, 1, n - 1)
  BY <1>1, <1>2 DEF Last
<1>4. n - 1 \in Nat /\ n - 1 <= Len(l) /\ n \in 1 .. n
  BY <1>2, <1>3
<1>5. /\ f \in Seq(LogRecord) /\ Len(f) = n - 1 /\ DOMAIN f = 1 .. (n - 1)
      /\ \A i \in 1 .. (n - 1) : f[i] = l[i] /\ i \in 1 .. n /\ i < n
  <2>1. f \in Seq(LogRecord) /\ Len(f) = n - 1 /\ \A i \in 1 .. (n - 1) : f[i] = l[i]
    BY <1>1, <1>2, <1>3, <1>4
  <2>2. \A i \in 1 .. (n - 1) : i \in 1 .. n /\ i < n
    BY <1>3
  <2> QED
    BY <2>1, <2>2
<1>6. t \in LogRecord
  BY <1>1, <1>2, <1>3, <1>4
<1>7. \A i, j \in 1 .. n : i < j => l[i].seq < l[j].seq
  BY <1>3 DEF LogSorted
<1>8. LogSorted(f)
  BY <1>5, <1>7 DEF LogSorted
<1>9. \A r \in ToSet(f) : r.seq < t.seq
  BY <1>3, <1>4, <1>5, <1>7 DEF ToSet
<1>10. HasAlso(l, f, t)
  <2>1. \A i \in 1 .. n : i = n \/ i \in 1 .. (n - 1)
    BY <1>3
  <2>2. ASSUME NEW x \in ToSet(l) PROVE x \in ToSet(f) \cup {t}
    BY <1>3, <1>5, <2>1 DEF ToSet
  <2>3. ASSUME NEW x \in ToSet(f) PROVE x \in ToSet(l)
    BY <1>3, <1>5 DEF ToSet
  <2>4. t \in ToSet(l)
    BY <1>3, <1>4 DEF ToSet
  <2> QED
    BY <2>2, <2>3, <2>4 DEF HasAlso
<1> QED
  BY <1>6, <1>8, <1>9, <1>10

\* The transaction becomes visible.
LEMMA ApplyData ==
    ASSUME LsmInv, DataInv, Apply
    PROVE  DataInv'
<1>1. /\ pc = "apply" /\ pc' = "idle" /\ next' = next + 1
      /\ mem' = Applied(InRam, txn.muts, txn.prev, next).mem
      /\ spaces' = Applied(InRam, txn.muts, txn.prev, next).spaces
      /\ UNCHANGED <<disk, older, log, truth>>
  BY DEF Apply, Published
<1>2. /\ LogSorted(log) /\ next \in Nat \ {0} /\ disk.ckpt \in Nat /\ older.ckpt \in Nat
      /\ CopyOf(disk, log, truth) /\ CopyOf(older, log, truth)
      /\ SlotsWell(mem, spaces) /\ MemtableUpTo(mem, next) /\ SpacesWell(spaces)
  BY DataIs
<1>3. PICK slot, f, t, W : /\ slot = NamespaceSlot(spaces, Namespace(txn.muts))
                           /\ f = SubSeq(log, 1, Len(log) - 1) /\ t = Last(log)
                           /\ W = Written(After(f, disk.ckpt))
  OBVIOUS
<1>4. txn.muts \in Transactions /\ slot # 0 /\ FitsFrom(mem, slot, txn.muts, next)
  BY <1>1, <1>3 DEF LsmInv, TxnWell
<1>5. /\ log # <<>> /\ next = LastSequence /\ disk.ckpt < next /\ t.muts = txn.muts
      /\ older.ckpt <= disk.ckpt /\ disk.ckpt <= LastSequence
      /\ MemtableVersions(mem) = NewestVersions(W)
  BY <1>1, <1>3 DEF DataInv, SequencesWell, AppliedLog
<1>6. t.seq = next
  BY <1>3, <1>5 DEF LastSequence
<1>7. /\ LogSorted(f) /\ t \in LogRecord /\ ToSet(log) = ToSet(f) \cup {t}
      /\ \A r \in ToSet(f) : r.seq < t.seq
  <2>1. PICK l : l = log
    OBVIOUS
  <2>2. LogSorted(l) /\ l # <<>> /\ f = SubSeq(l, 1, Len(l) - 1) /\ t = Last(l)
    BY <1>2, <1>3, <1>5, <2>1
  <2>3. LogSorted(f) /\ t \in LogRecord
    BY <2>2, FrontOfLog
  <2>4. \A r \in ToSet(f) : r.seq < t.seq
    BY <2>2, FrontOfLog
  <2>5. ToSet(l) = ToSet(f) \cup {t}
    <3>1. HasAlso(l, f, t)
      BY <2>2, FrontOfLog
    <3> QED
      BY <3>1 DEF HasAlso
  <2> QED
    BY <2>1, <2>3, <2>4, <2>5
<1>8. W \in SUBSET Version /\ \A v \in W : v.seq < next
  <2>1. W = Later(Written(f), disk.ckpt)
    BY <1>2, <1>3, <1>7, WrittenAfter
  <2>2. Written(f) \in SUBSET Version /\ \A v \in Written(f) : \E r \in ToSet(f) : v.seq = r.seq
    BY <1>7, WrittenAre
  <2> QED
    BY <1>6, <1>7, <2>1, <2>2 DEF Later
<1>9. Written(After(log, disk.ckpt)) = W \cup VersionsIn(txn.muts, next)
  <2>1. PICK l, c : l = log /\ c = disk.ckpt
    OBVIOUS
  <2>2. Written(After(l, c)) = Written(After(f, c)) \cup VersionsIn(t.muts, t.seq)
    <3>1. /\ LogSorted(l) /\ ToSet(l) = ToSet(f) \cup {t} /\ c \in Nat /\ c < t.seq
      BY <1>2, <1>5, <1>6, <1>7, <2>1
    <3> QED
      BY <1>7, <3>1, AppendedWritten
  <2> QED
    BY <1>3, <1>5, <1>6, <2>1, <2>2
<1>10. MemtableUpTo(mem, next + 1) /\ next + 1 \in Nat /\ next < next + 1
  <2>1. SoundUpTo(mem, next) /\ Len(mem.data) <= DataSize
    BY <1>2, UpToIs
  <2>2. \A b \in Occupied(mem) : RecordAt(mem, b).v.seq \in Nat
    <3>1. \A b \in Occupied(mem) : RecordAt(mem, b).v \in Version
      BY <2>1, RecordOf DEF SoundUpTo
    <3> QED
      BY <3>1, VersionIs
  <2>3. SoundUpTo(mem, next + 1)
    BY <1>2, <2>1, <2>2 DEF SoundUpTo
  <2> QED
    BY <1>2, <2>1, <2>3, UpToIs
<1>11. /\ SlotsWell(mem', spaces')
       /\ MemtableVersions(mem') = NewestVersions(W \cup VersionsIn(txn.muts, next))
  <2>1. PICK db, muts, prev, s, m : /\ db = InRam /\ muts = txn.muts /\ prev = txn.prev
                                    /\ s = next /\ m = Applied(db, muts, prev, s)
    OBVIOUS
  <2>2. db.mem = mem /\ db.spaces = spaces
    BY <2>1 DEF InRam
  <2>3. /\ MemtableUpTo(db.mem, s + 1) /\ SpacesWell(db.spaces) /\ SlotsWell(db.mem, db.spaces)
        /\ muts \in Transactions /\ s \in Nat \ {0} /\ s + 1 \in Nat /\ s < s + 1
        /\ slot = NamespaceSlot(db.spaces, Namespace(muts)) /\ slot # 0
        /\ FitsFrom(db.mem, slot, muts, s)
        /\ MemtableVersions(db.mem) = NewestVersions(W) /\ \A v \in W : v.seq < s
    BY <1>2, <1>3, <1>4, <1>5, <1>8, <1>10, <2>1, <2>2
  <2>4. /\ SlotsWell(m.mem, m.spaces)
        /\ MemtableVersions(m.mem) = NewestVersions(W \cup VersionsIn(muts, s))
    BY <1>8, <2>1, <2>3, AppliedVersions
  <2>5. mem' = m.mem /\ spaces' = m.spaces
    BY <1>1, <2>1
  <2> QED
    BY <2>1, <2>4, <2>5
<1>12. LastSequence' = LastSequence
  BY <1>1 DEF LastSequence
<1>13. /\ CopyOf(disk', log', truth') /\ CopyOf(older', log', truth') /\ LogSorted(log')
       /\ MemtableVersions(mem') = NewestVersions(Written(After(log', disk'.ckpt)))
  BY <1>1, <1>2, <1>9, <1>11
<1>14. /\ older'.ckpt <= disk'.ckpt /\ disk'.ckpt <= LastSequence' /\ log' # <<>>
       /\ next' = LastSequence' + 1
  BY <1>1, <1>5, <1>12
<1> QED
  BY <1>1, <1>11, <1>13, <1>14, DataFrom

\* A restart from either copy.
LEMMA RestartData ==
    ASSUME LsmInv, DataInv, NEW copy, copy.ckpt \in Nat, CopyOf(copy, log, truth),
           \/ copy = disk \/ copy = older, Restart(copy)
    PROVE  DataInv'
<1>1. /\ Recovered(copy).error = "none"
      /\ mem' = Recovered(copy).mem /\ spaces' = Recovered(copy).spaces
      /\ disk' = copy /\ older' = IF copy = disk THEN older ELSE copy
      /\ next' = IF log = <<>> THEN copy.ckpt + 1 ELSE Last(log).seq + 1
      /\ pc' = "idle" /\ log' = log /\ truth' = truth
  BY DEF Restart, Published
<1>2. /\ LogSorted(log) /\ disk.ckpt \in Nat /\ older.ckpt \in Nat
      /\ CopyOf(disk, log, truth) /\ CopyOf(older, log, truth)
      /\ log # <<>> => Last(log).seq \in Nat \ {0}
  BY DataIs
<1>3. /\ older.ckpt <= disk.ckpt /\ disk.ckpt <= LastSequence
      /\ log = <<>> => older.ckpt = disk.ckpt
  BY DEF DataInv, SequencesWell
<1>4. PICK l, r, w : l = log /\ r = Recovered(copy) /\ w = After(log, copy.ckpt)
  OBVIOUS
<1>5. LogSorted(w) /\ ToSet(w) = {q \in ToSet(log) : q.seq > copy.ckpt}
  BY <1>2, <1>4, AfterSet
<1>6. \E s \in Nat : \A i \in 1 .. Len(w) : w[i].seq < s
  <2>1. CASE w = <<>>
    <3>1. \A i \in 1 .. Len(w) : FALSE
      BY <2>1
    <3>2. 0 \in Nat
      OBVIOUS
    <3> QED
      BY <3>1, <3>2
  <2>2. CASE w # <<>>
    <3>1. PICK g : g = Last(w).seq
      OBVIOUS
    <3>2. g \in Nat /\ \A q \in ToSet(w) : q.seq \in Nat /\ q.seq <= g
      BY <1>5, <2>2, <3>1, LastIs, RecordIs
    <3>3. \A i \in 1 .. Len(w) : w[i] \in ToSet(w)
      BY <1>5 DEF LogSorted, ToSet
    <3>4. g + 1 \in Nat /\ \A i \in 1 .. Len(w) : w[i].seq < g + 1
      BY <3>2, <3>3
    <3> QED
      BY <3>4
  <2> QED
    BY <2>1, <2>2
<1>7. PICK s \in Nat : \A i \in 1 .. Len(w) : w[i].seq < s
  BY <1>6
<1>8. SlotsWell(r.mem, r.spaces) /\ MemtableVersions(r.mem) = NewestVersions(Written(w))
  <2>1. PICK tables : tables = copy.tables
    OBVIOUS
  <2>2. r = Replaying!Iterated(w, RecoverTables(tables), Len(w))
    BY <1>4, <2>1 DEF Recovered
  <2>3. r.error = "none"
    BY <1>1, <1>4
  <2> QED
    BY <1>5, <1>7, <2>2, <2>3, ReplayVersions
<1>9. /\ CopyOf(disk', log', truth') /\ CopyOf(older', log', truth') /\ LogSorted(log')
      /\ SlotsWell(mem', spaces')
      /\ MemtableVersions(mem') = NewestVersions(Written(After(log', disk'.ckpt)))
  <2>1. older' = older \/ older' = copy
    BY <1>1
  <2>2. CopyOf(older', log', truth')
    BY <1>1, <1>2, <2>1
  <2>3. w = After(log', disk'.ckpt) /\ mem' = r.mem /\ spaces' = r.spaces
    BY <1>1, <1>4
  <2> QED
    BY <1>1, <1>2, <1>8, <2>2, <2>3
<1>10. /\ older'.ckpt <= disk'.ckpt /\ disk'.ckpt <= LastSequence'
       /\ log' = <<>> => older'.ckpt = disk'.ckpt
       /\ next' = LastSequence' + 1
  <2>1. LastSequence' = IF log = <<>> THEN copy.ckpt ELSE Last(log).seq
    BY <1>1 DEF LastSequence
  <2>2. LastSequence = IF log = <<>> THEN disk.ckpt ELSE Last(log).seq
    BY DEF LastSequence
  <2>3. next' = LastSequence' + 1
    BY <1>1, <2>1
  <2>4. CASE copy = disk
    BY <1>1, <1>2, <1>3, <2>1, <2>2, <2>3, <2>4
  <2>5. CASE copy # disk
    <3>1. copy = older /\ older' = older /\ disk' = older
      BY <1>1, <2>5
    <3>2. older.ckpt <= LastSequence'
      BY <1>2, <1>3, <2>1, <2>2, <3>1
    <3> QED
      BY <1>2, <2>3, <3>1, <3>2
  <2> QED
    BY <2>4, <2>5
<1> QED
  BY <1>1, <1>9, <1>10, DataFrom

\* Every step keeps the data.
LEMMA StepData ==
    ASSUME LsmInv, DataInv, [Next]_vars
    PROVE  DataInv'
<1>1. ASSUME NEW muts \in Transactions, Commit(muts) PROVE DataInv'
  BY <1>1, KeptData DEF Commit, Accept
<1>2. ASSUME NEW muts \in Transactions, FlushForRoom(muts) PROVE DataInv'
  <2>1. /\ pc = "idle" /\ Becomes(Flushed(Database)) /\ pc' = "again"
        /\ UNCHANGED <<spaces, next, truth>>
    BY <1>2 DEF FlushForRoom
  <2> QED
    BY <2>1, BecomesData
<1>3. CASE AcceptAfterFlush
  BY <1>3, KeptData DEF AcceptAfterFlush, Accept
<1>4. CASE Refuse \/ RoomRefused
  BY <1>4, KeptData DEF Refuse, RoomRefused
<1>5. CASE MakeRoom
  <2>1. /\ pc = "append" /\ Becomes(Maintained) /\ pc' = "rotate"
        /\ UNCHANGED <<spaces, next, truth>>
    BY <1>5 DEF MakeRoom
  <2>2. Maintained \in {Flushed(Database), Compacted(Database)}
    BY DEF Maintained
  <2> QED
    BY <2>1, <2>2, BecomesData
<1>6. CASE Rotate
  BY <1>6, RotateData
<1>7. CASE AppendFrames
  BY <1>7, AppendFramesData
<1>8. CASE Apply
  BY <1>8, ApplyData
<1>9. CASE Restart(disk) \/ Restart(older)
  BY <1>9, DataIs, RestartData
<1>10. CASE UNCHANGED vars
  <2>1. UNCHANGED <<mem, spaces, disk, older, log, next, pc, txn, truth>>
    BY <1>10 DEF vars
  <2>2. CopyWell(disk)' /\ CopyWell(older)' /\ SlotsWell(mem, spaces)'
    BY <2>1 DEF DataInv, CopyWell
  <2>3. AppliedLog' = AppliedLog /\ LastSequence' = LastSequence
    BY <2>1 DEF AppliedLog, LastSequence
  <2>4. SequencesWell'
    BY <2>1, <2>3 DEF DataInv, SequencesWell
  <2> QED
    BY <2>1, <2>2, <2>3, <2>4 DEF DataInv
<1> QED
  BY <1>1, <1>2, <1>3, <1>4, <1>5, <1>6, <1>7, <1>8, <1>9, <1>10 DEF Next

-----------------------------------------------------------------------------
(* What a lookup finds                                                     *)

\* The record of a key in the memtable is the one its lookup finds.
LEMMA MemtableShows ==
    ASSUME NEW m, Sound(m), NEW sp, SpacesWell(sp), SlotsWell(m, sp), NEW k \in Keys,
           NEW slot, slot = NamespaceSlot(sp, NamespaceOf[k]),
           NEW r, r = LookupMemtable(m, slot, k)
    PROVE  \/ /\ Contains(sp, NamespaceOf[k]) /\ r # NoVersion
              /\ r \in MemtableVersions(m) /\ r.key = k
           \/ /\ ~ (Contains(sp, NamespaceOf[k]) /\ r # NoVersion)
              /\ k \notin KeysOf(MemtableVersions(m))
<1>1. CASE k \in KeysOf(MemtableVersions(m))
  <2>1. PICK b \in Occupied(m) : RecordAt(m, b).v.key = k
    BY <1>1 DEF KeysOf, MemtableVersions
  <2>2. /\ Contains(sp, NamespaceOf[k]) /\ RecordAt(m, b).slot = slot
    BY <2>1 DEF SlotsWell
  <2>3. Matches(m, b, slot, k)
    BY <2>1, <2>2, RecordOf
  <2>4. RecordAt(m, b) \in [slot : NamespaceSlots, v : Version]
    BY RecordOf
  <2>5. slot \in NamespaceSlots /\ RecordAt(m, b).v \in Version
    BY <2>2, <2>4
  <2>6. r = RecordAt(m, b).v
    BY <2>3, <2>5, LookupIs
  <2>7. r # NoVersion
    <3>1. r.seq # 0
      BY <2>5, <2>6, VersionIs
    <3>2. NoVersion.seq = 0
      BY DEF NoVersion
    <3> QED
      BY <3>1, <3>2
  <2>8. r \in MemtableVersions(m)
    BY <2>6 DEF MemtableVersions
  <2> QED
    BY <2>1, <2>2, <2>6, <2>7, <2>8
<1>2. CASE k \notin KeysOf(MemtableVersions(m))
  <2> SUFFICES ASSUME Contains(sp, NamespaceOf[k]), r # NoVersion PROVE FALSE
    BY <1>2
  <2>1. slot \in NamespaceSlots
    <3>1. NamespaceSlot(sp, NamespaceOf[k]) \in NamespaceSlots
      <4>1. NamespaceOf[k] \in SpaceNames
        BY DEF SpaceNames
      <4> QED
        BY <4>1, SlotKept
    <3> QED
      BY <3>1
  <2>2. /\ Matches(m, Find(m, slot, k), slot, k)
        /\ r = RecordAt(m, Find(m, slot, k)).v
    BY <2>1, LookupIs
  <2>3. Find(m, slot, k) \in Occupied(m) /\ RecordAt(m, Find(m, slot, k)).v.key = k
    BY <2>2 DEF Matches
  <2> QED
    BY <1>2, <2>3 DEF KeysOf, MemtableVersions
<1> QED
  BY <1>1, <1>2

\* A lookup in the memtable and in the tables before it shows what was logged.
LEMMA LookupShows ==
    ASSUME NEW m, NEW s \in Nat, SoundUpTo(m, s), NEW sp, SpacesWell(sp), SlotsWell(m, sp),
           NEW l, LogSorted(l), NEW tr, NEW copy, copy.ckpt \in Nat, CopyOf(copy, l, tr),
           MemtableVersions(m) = NewestVersions(Written(After(l, copy.ckpt))),
           NEW db, db.mem = m, db.spaces = sp, db.tables = copy.tables, NEW k \in Keys
    PROVE  Visible(LookupCommitted(db, k)) = Visible(tr[k])
<1>0. TablesWell(copy.tables) /\ UpTo(AllVersions(copy.tables), copy.ckpt)
  BY DEF CopyOf
<1>1. PICK T, W, slot, r, tables :
         /\ T = AllVersions(tables) /\ W = Later(Written(l), copy.ckpt)
         /\ slot = NamespaceSlot(sp, NamespaceOf[k]) /\ r = LookupMemtable(m, slot, k)
         /\ tables = copy.tables
  OBVIOUS
<1>2. Sides(T, copy.ckpt, W) /\ Written(After(l, copy.ckpt)) = W
  BY <1>0, <1>1, CopyHolds
<1>3. T \cup W \in SUBSET Version /\ Consistent(T \cup W)
  BY <1>2, BothSides
<1>4. Shown(T \cup W, k) = Visible(tr[k])
  BY <1>1, <1>2 DEF CopyOf
<1>5. MemtableVersions(m) = NewestVersions(W)
  BY <1>2
<1>6. /\ W \in SUBSET Version
      /\ \E b \in Nat : UpTo(W, b)
  BY <1>2 DEF Sides
<1>7. \/ /\ Contains(sp, NamespaceOf[k]) /\ r # NoVersion
         /\ r \in NewestVersions(W) /\ r.key = k
      \/ /\ ~ (Contains(sp, NamespaceOf[k]) /\ r # NoVersion)
         /\ k \notin KeysOf(NewestVersions(W))
  <2>1. Sound(m)
    BY DEF SoundUpTo
  <2> QED
    BY <1>1, <1>5, <2>1, MemtableShows
<1>8. LookupCommitted(db, k) = IF Contains(sp, NamespaceOf[k]) /\ r # NoVersion
                               THEN r ELSE LookupTables(tables, k)
  BY <1>1 DEF LookupCommitted
<1>9. CASE /\ Contains(sp, NamespaceOf[k]) /\ r # NoVersion
           /\ r \in NewestVersions(W) /\ r.key = k
  <2>1. r \in NewestVersions(T \cup W)
    BY <1>2, <1>9, BothSides
  <2>2. Shown(T \cup W, k) = Visible(r)
    BY <1>3, <1>9, <2>1, ShownNewest
  <2> QED
    BY <1>4, <1>8, <1>9, <2>2
<1>10. CASE /\ ~ (Contains(sp, NamespaceOf[k]) /\ r # NoVersion)
            /\ k \notin KeysOf(NewestVersions(W))
  <2>1. PICK x : x = LookupTables(tables, k)
    OBVIOUS
  <2>2. LookupCommitted(db, k) = x
    BY <1>8, <1>10, <2>1
  <2>3. k \notin KeysOf(W)
    <3> SUFFICES ASSUME k \in KeysOf(W) PROVE FALSE
      OBVIOUS
    <3>1. PICK w \in W : w.key = k
      BY DEF KeysOf
    <3>2. PICK v \in NewestVersions(W) : v.key = w.key
      BY <1>6, NewestExists
    <3> QED
      BY <1>10, <3>1, <3>2 DEF KeysOf
  <2>4. \/ x = NoVersion /\ k \notin KeysOf(T)
        \/ x \in NewestVersions(T) /\ x.key = k
    <3>1. TablesWell(tables) /\ UpTo(AllVersions(tables), copy.ckpt)
      BY <1>0, <1>1
    <3> QED
      BY <1>1, <2>1, <3>1, LookupTablesIs
  <2>5. CASE x = NoVersion /\ k \notin KeysOf(T)
    <3>1. k \notin KeysOf(T \cup W)
      BY <2>3, <2>5 DEF KeysOf
    <3>2. Shown(T \cup W, k) = NoVersion
      BY <3>1 DEF Shown
    <3>3. Visible(x) = NoVersion
      BY <2>5 DEF Visible, NoVersion
    <3> QED
      BY <1>4, <2>2, <3>2, <3>3
  <2>6. CASE x \in NewestVersions(T) /\ x.key = k
    <3>1. x \in NewestVersions(T \cup W)
      BY <1>2, <2>3, <2>6, BothSides
    <3>2. Shown(T \cup W, k) = Visible(x)
      BY <1>3, <2>6, <3>1, ShownNewest
    <3> QED
      BY <1>4, <2>2, <3>2
  <2> QED
    BY <2>4, <2>5, <2>6
<1> QED
  BY <1>7, <1>9, <1>10

\* The inductive invariant of the data: both manifest copies show, with the
\* log after them, what was logged last, and the memtable holds the newest
\* version of each key that the log has after the newest checkpoint.
THEOREM DataInductive == Spec => [](LsmInv /\ DataInv)
<1>1. Init => LsmInv /\ DataInv
  BY InitInv, InitData
<1>2. (LsmInv /\ DataInv) /\ [Next]_vars => (LsmInv /\ DataInv)'
  BY StepInv, StepData
<1> QED
  BY <1>1, <1>2, PTL DEF Spec

\* lookup_committed_unsafe() returns what was committed last: for every hash
\* function and filter, all sizes and limits, and every order of commits,
\* flushes, compactions, slot rotations and restarts.
THEOREM LookupAlwaysExact == Spec => []LookupExact
<1>1. LsmInv /\ DataInv => LookupExact
  <2> SUFFICES ASSUME LsmInv, DataInv, pc # "apply", NEW k \in Keys
               PROVE  Visible(LookupCommitted(InRam, k)) = Visible(truth[k])
    BY DEF LookupExact, ShowsTruth
  <2>1. PICK m, s, sp, l, tr, copy, db : /\ m = mem /\ s = next /\ sp = spaces /\ l = log
                                         /\ tr = truth /\ copy = disk /\ db = InRam
    OBVIOUS
  <2>2. MemtableVersions(m) = NewestVersions(Written(After(l, copy.ckpt)))
    BY <2>1 DEF DataInv, AppliedLog
  <2>3. /\ s \in Nat /\ SoundUpTo(m, s) /\ SpacesWell(sp) /\ SlotsWell(m, sp) /\ LogSorted(l)
        /\ copy.ckpt \in Nat /\ CopyOf(copy, l, tr)
    BY <2>1, DataIs
  <2>4. db.mem = m /\ db.spaces = sp /\ db.tables = copy.tables
    BY <2>1 DEF InRam
  <2>5. Visible(LookupCommitted(db, k)) = Visible(tr[k])
    BY <2>2, <2>3, <2>4, LookupShows
  <2> QED
    BY <2>1, <2>5
<1> QED
  BY <1>1, DataInductive, PTL

==============================================================================
