-------------------------- MODULE StructureProofs --------------------------
(***************************************************************************)
(* What the engine's data structures do, for every hash function, number   *)
(* of buckets, arena and block size, and all versions: the memtable is a   *)
(* map from a namespace slot and a key to a version; a table built from    *)
(* versions holds them and finds them; a lookup over several tables finds  *)
(* the newest; a merge keeps the newest of every key.                      *)
(***************************************************************************)
EXTENDS Memtable, Tables, SequenceTheorems, FiniteSetTheorems,
        WellFoundedInduction, TLAPS

\* A non-empty set of naturals has a least element.
LEMMA LeastNatural ==
    ASSUME NEW T \in SUBSET Nat, T # {}
    PROVE  \E x \in T : \A y \in T : x <= y
<1>1. IsWellFoundedOn(OpToRel(<, Nat), Nat)
  BY NatLessThanWellFounded
<1>2. PICK x \in T : \A y \in T : ~ (<<y, x>> \in OpToRel(<, Nat))
  BY <1>1, WFMin
<1>3. \A y \in T : ~ (y < x)
  BY <1>2 DEF OpToRel
<1> QED
  BY <1>3

\* Min of a non-empty set of naturals is its least element.
LEMMA MinOfNaturals ==
    ASSUME NEW T \in SUBSET Nat, T # {}
    PROVE  Min(T) \in T /\ \A y \in T : Min(T) <= y
<1>1. \E x \in T : \A y \in T : x <= y
  BY LeastNatural
<1> QED
  BY <1>1 DEF Min

-----------------------------------------------------------------------------
(* Probing                                                                 *)

\* A probe stays in the index.
LEMMA ProbeType ==
    ASSUME NEW h \in Nat, NEW p \in Nat
    PROVE  Probe(h, p) \in BucketIndex
BY BucketsAssumption DEF Probe, BucketIndex

\* Division of naturals with remainder.
LEMMA RemainderIs ==
    ASSUME NEW n \in Nat, NEW q \in Int, NEW b \in 0 .. Buckets - 1, n = Buckets * q + b
    PROVE  n % Buckets = b
<1>1. Buckets \in Nat \ {0}
  BY BucketsAssumption
<1> DEFINE d == n \div Buckets
           r == n % Buckets
<1>2. d \in Nat /\ r \in 0 .. Buckets - 1 /\ n = Buckets * d + r
  BY <1>1
<1> HIDE DEF d, r
<1>3. Buckets * (q - d) = Buckets * q - Buckets * d
  BY <1>1, <1>2
<1>4. Buckets * (q - d) = r - b
  BY <1>1, <1>2, <1>3
<1>5. ~ (q - d >= 1)
  <2> SUFFICES ASSUME q - d >= 1 PROVE FALSE
    OBVIOUS
  <2>1. Buckets * (q - d) >= Buckets
    BY <1>1, <1>2
  <2> QED
    BY <2>1, <1>1, <1>2, <1>4
<1>6. ~ (q - d <= -1)
  <2> SUFFICES ASSUME q - d <= -1 PROVE FALSE
    OBVIOUS
  <2>1. Buckets * (q - d) <= -Buckets
    BY <1>1, <1>2
  <2> QED
    BY <2>1, <1>1, <1>2, <1>4
<1>7. q = d
  BY <1>2, <1>5, <1>6
<1> QED
  BY <1>1, <1>2, <1>7 DEF r

\* The probe of any hash comes to every bucket.
LEMMA ProbeReaches ==
    ASSUME NEW h \in Nat, NEW b \in BucketIndex
    PROVE  \E p \in BucketIndex : Probe(h, p) = b
<1>1. Buckets \in Nat \ {0} /\ b \in 0 .. Buckets - 1
  BY BucketsAssumption DEF BucketIndex
<1> DEFINE d == h \div Buckets
           r == h % Buckets
<1>2. d \in Nat /\ r \in 0 .. Buckets - 1 /\ h = Buckets * d + r
  BY <1>1
<1> HIDE DEF d, r
<1>3. CASE r <= b
  <2>1. (h + (b - r)) % Buckets = b
    BY <1>1, <1>2, <1>3, RemainderIs
  <2>2. b - r \in BucketIndex
    BY <1>1, <1>2, <1>3 DEF BucketIndex
  <2>3. Probe(h, b - r) = b
    BY <2>1 DEF Probe
  <2> QED
    BY <2>2, <2>3
<1>4. CASE b < r
  <2>1. Buckets * (d + 1) = Buckets * d + Buckets
    BY <1>1, <1>2
  <2>2. h + (b - r + Buckets) = Buckets * (d + 1) + b
    BY <1>1, <1>2, <2>1
  <2>3. (h + (b - r + Buckets)) % Buckets = b
    BY <1>1, <1>2, <1>4, <2>2, RemainderIs
  <2>4. b - r + Buckets \in BucketIndex
    BY <1>1, <1>2, <1>4 DEF BucketIndex
  <2>5. Probe(h, b - r + Buckets) = b
    BY <2>3 DEF Probe
  <2> QED
    BY <2>4, <2>5
<1> QED
  BY <1>1, <1>2, <1>3, <1>4

-----------------------------------------------------------------------------
(* What a probe finds                                                      *)

Sound(m) == m \in MemtableType /\ Tiled(m) /\ Indexed(m)

\* Where the probe for a name may end.
Stop(m, slot, key, p) ==
    \/ Probe(Hash(slot, key), p) \notin Occupied(m)
    \/ Matches(m, Probe(Hash(slot, key), p), slot, key)

\* The first place at which the probe may end is where it ends.
LEMMA FindIs ==
    ASSUME NEW m, NEW slot \in NamespaceSlots, NEW key \in Keys, NEW p \in BucketIndex,
           Stop(m, slot, key, p), \A q \in BucketIndex : q < p => ~Stop(m, slot, key, q)
    PROVE  Find(m, slot, key) = Probe(Hash(slot, key), p)
<1> DEFINE stops == {q \in BucketIndex : Stop(m, slot, key, q)}
<1>1. stops \in SUBSET Nat /\ p \in stops
  BY BucketsAssumption DEF BucketIndex
<1>2. Min(stops) \in stops /\ \A q \in stops : Min(stops) <= q
  BY <1>1, MinOfNaturals
<1>3. Min(stops) = p
  BY <1>1, <1>2
<1>4. Find(m, slot, key) = IF stops = {} THEN NoBucket
                           ELSE Probe(Hash(slot, key), Min(stops))
  BY DEF Find, Stop
<1> QED
  BY <1>1, <1>3, <1>4

\* Where the probe ends.
LEMMA FindEnds ==
    ASSUME NEW m, NEW slot \in NamespaceSlots, NEW key \in Keys
    PROVE  \/ /\ Find(m, slot, key) = NoBucket
              /\ \A q \in BucketIndex : ~Stop(m, slot, key, q)
           \/ \E p \in BucketIndex :
                 /\ Stop(m, slot, key, p)
                 /\ \A q \in BucketIndex : q < p => ~Stop(m, slot, key, q)
                 /\ Find(m, slot, key) = Probe(Hash(slot, key), p)
<1> DEFINE stops == {q \in BucketIndex : Stop(m, slot, key, q)}
<1>1. Find(m, slot, key) = IF stops = {} THEN NoBucket
                           ELSE Probe(Hash(slot, key), Min(stops))
  BY DEF Find, Stop
<1>2. CASE stops = {}
  BY <1>1, <1>2
<1>3. CASE stops # {}
  <2>1. stops \in SUBSET Nat
    BY BucketsAssumption DEF BucketIndex
  <2>2. Min(stops) \in stops /\ \A q \in stops : Min(stops) <= q
    BY <1>3, <2>1, MinOfNaturals
  <2>3. \A q \in BucketIndex : q < Min(stops) => ~Stop(m, slot, key, q)
    BY <2>1, <2>2 DEF BucketIndex
  <2> QED
    BY <1>1, <1>3, <2>2, <2>3
<1> QED
  BY <1>2, <1>3

\* A bucket of the index, occupied by the name or vacant; NoBucket if all are taken.
LEMMA FindType ==
    ASSUME NEW m, NEW slot \in NamespaceSlots, NEW key \in Keys
    PROVE  LET b == Find(m, slot, key) IN
           \/ b = NoBucket /\ Occupied(m) = BucketIndex
           \/ b \in BucketIndex \ Occupied(m)
           \/ b \in BucketIndex /\ Matches(m, b, slot, key)
<1>0. Hash(slot, key) \in Nat /\ BucketIndex \subseteq Nat
  BY BucketsAssumption, HashAssumption DEF BucketIndex
<1>1. CASE /\ Find(m, slot, key) = NoBucket
           /\ \A q \in BucketIndex : ~Stop(m, slot, key, q)
  <2>1. \A b \in BucketIndex : b \in Occupied(m)
    <3> TAKE b \in BucketIndex
    <3>1. PICK p \in BucketIndex : Probe(Hash(slot, key), p) = b
      BY <1>0, ProbeReaches
    <3> QED
      BY <1>1, <3>1 DEF Stop
  <2> QED
    BY <1>1, <2>1 DEF Occupied
<1>2. CASE \E p \in BucketIndex :
              /\ Stop(m, slot, key, p)
              /\ \A q \in BucketIndex : q < p => ~Stop(m, slot, key, q)
              /\ Find(m, slot, key) = Probe(Hash(slot, key), p)
  BY <1>0, <1>2, ProbeType DEF Stop
<1> QED
  BY <1>1, <1>2, FindEnds

\* The parts of a memtable.
LEMMA SoundTypes ==
    ASSUME NEW m, Sound(m)
    PROVE  /\ m.index \in [BucketIndex -> Bucket]
           /\ m.data \in Seq(Cell) /\ Len(m.data) \in Nat
           /\ m.count \in Nat
           /\ \A b \in BucketIndex : /\ m.index[b] \in Bucket /\ m.index[b].hash \in Nat
                                    /\ m.index[b].off \in Int /\ m.index[b].size \in Nat
<1>1. m \in [index : [BucketIndex -> Bucket], data : Seq(Cell), count : Nat]
  BY DEF Sound, MemtableType
<1>2. /\ m.index \in [BucketIndex -> Bucket]
      /\ m.data \in Seq(Cell)
      /\ m.count \in Nat
  BY <1>1
<1>3. \A b \in BucketIndex : m.index[b] \in Bucket
  BY <1>2
<1> QED
  BY <1>2, <1>3 DEF Bucket

\* What a record of the memtable is.
LEMMA RecordOf ==
    ASSUME NEW m, Sound(m), NEW b \in Occupied(m)
    PROVE  /\ b \in BucketIndex
           /\ m.index[b].hash \in Nat /\ m.index[b].off \in Nat /\ m.index[b].size \in Nat \ {0}
           /\ m.index[b].off + m.index[b].size \in 1 .. Len(m.data)
           /\ m.index[b].off + 1 \in 1 .. Len(m.data)
           /\ RecordAt(m, b) \in [slot : NamespaceSlots, v : Version]
           /\ RecordAt(m, b).v.key \in Keys
           /\ m.index[b].size = RecordSize(RecordAt(m, b).v)
           /\ Matches(m, b, RecordAt(m, b).slot, RecordAt(m, b).v.key)
<1>1. b \in BucketIndex
  BY DEF Occupied
<1>2. m.index[b].hash \in Nat /\ m.index[b].off \in Int /\ m.index[b].off >= 0
  BY <1>1, SoundTypes DEF Sound, Tiled
<1>3. /\ RecordAt(m, b).v \in Version /\ RecordAt(m, b).slot \in NamespaceSlots
      /\ m.index[b].hash = Hash(RecordAt(m, b).slot, RecordAt(m, b).v.key)
  BY DEF Sound, Indexed
<1>4. RecordSize(RecordAt(m, b).v) \in Nat \ {0}
  BY <1>3, SizesAssumption DEF RecordSize, Version
<1>5. Len(m.data) \in Nat /\ m.data \in Seq(Cell)
  BY SoundTypes
<1>6. m.index[b].size = RecordSize(RecordAt(m, b).v)
      /\ m.index[b].off + m.index[b].size <= Len(m.data)
  BY DEF Sound, Tiled
<1>7. m.index[b].off + 1 \in 1 .. Len(m.data)
  <2> DEFINE o == m.index[b].off
             n == m.index[b].size
             l == Len(m.data)
  <2>1. o \in Nat /\ n \in Nat \ {0} /\ l \in Nat /\ o + n <= l
    BY <1>2, <1>4, <1>5, <1>6
  <2> HIDE DEF o, n, l
  <2>2. o + 1 \in 1 .. l
    BY <2>1
  <2> QED
    BY <2>2 DEF o, l
<1>8. RecordAt(m, b) \in [slot : 0 .. MaxNamespaces, v : Version \cup {NoVersion}]
  <2> DEFINE i == m.index[b].off + 1
  <2>1. m.data[i] \in Cell
    BY <1>5, <1>7
  <2> QED
    BY <2>1 DEF RecordAt, Cell
<1>9. RecordAt(m, b) \in [slot : NamespaceSlots, v : Version]
  BY <1>3, <1>8
<1>10. RecordAt(m, b).v.key \in Keys
  BY <1>3 DEF Version
<1>11. Matches(m, b, RecordAt(m, b).slot, RecordAt(m, b).v.key)
  BY <1>3 DEF Matches
<1> QED
  BY <1>1, <1>2, <1>4, <1>5, <1>6, <1>7, <1>9, <1>10, <1>11

\* There is one record of each name, and the probe for the name finds it.
LEMMA MatchFound ==
    ASSUME NEW m, Sound(m), NEW slot \in NamespaceSlots, NEW key \in Keys,
           NEW b, Matches(m, b, slot, key)
    PROVE  Find(m, slot, key) = b
BY DEF Matches, Sound, Indexed

\* lookup_memtable_unsafe() finds the record of the name, if there is one.
LEMMA LookupIs ==
    ASSUME NEW m, Sound(m), NEW slot \in NamespaceSlots, NEW key \in Keys
    PROVE  /\ \A b : Matches(m, b, slot, key) => LookupMemtable(m, slot, key) = RecordAt(m, b).v
           /\ (\A b : ~Matches(m, b, slot, key)) => LookupMemtable(m, slot, key) = NoVersion
           /\ LookupMemtable(m, slot, key) # NoVersion =>
                 /\ Matches(m, Find(m, slot, key), slot, key)
                 /\ LookupMemtable(m, slot, key) = RecordAt(m, Find(m, slot, key)).v
                 /\ LookupMemtable(m, slot, key) \in Version
                 /\ LookupMemtable(m, slot, key).key = key
<1>1. ASSUME NEW b, Matches(m, b, slot, key)
      PROVE  LookupMemtable(m, slot, key) = RecordAt(m, b).v
  BY <1>1, MatchFound DEF Matches, LookupMemtable, VersionIn
<1>0. Occupied(m) \subseteq BucketIndex /\ NoBucket \notin BucketIndex
  BY BucketsAssumption DEF Occupied, NoBucket, BucketIndex
<1>2. Find(m, slot, key) \in Occupied(m) => Matches(m, Find(m, slot, key), slot, key)
  BY <1>0, FindType, Zenon
<1>3. (\A b : ~Matches(m, b, slot, key)) => LookupMemtable(m, slot, key) = NoVersion
  BY <1>2 DEF LookupMemtable, VersionIn
<1>4. LookupMemtable(m, slot, key) # NoVersion =>
         /\ Matches(m, Find(m, slot, key), slot, key)
         /\ LookupMemtable(m, slot, key) = RecordAt(m, Find(m, slot, key)).v
  BY <1>2 DEF LookupMemtable, VersionIn
<1>5. \A b : Matches(m, b, slot, key) =>
         RecordAt(m, b).v \in Version /\ RecordAt(m, b).v.key = key
  BY DEF Matches, Sound, Indexed
<1> QED
  BY <1>1, <1>3, <1>4, <1>5

-----------------------------------------------------------------------------
(* Inserting a version                                                     *)

\* Appending to a sequence.
LEMMA ExtendSequence ==
    ASSUME NEW S, NEW s \in Seq(S), NEW u \in Seq(S)
    PROVE  /\ s \o u \in Seq(S) /\ Len(s \o u) = Len(s) + Len(u)
           /\ \A i \in 1 .. Len(s) : (s \o u)[i] = s[i]
           /\ \A i \in 1 .. Len(u) : (s \o u)[Len(s) + i] = u[i]
OBVIOUS

\* Cutting n elements behind the first a out of a sequence.
Cut(s, a, n) == SubSeq(s, 1, a) \o SubSeq(s, a + n + 1, Len(s))

\* What is before the cut stays, and what is behind it moves down by n.
LEMMA CutSequence ==
    ASSUME NEW S, NEW s \in Seq(S), NEW a \in Nat, NEW n \in Nat, a + n <= Len(s)
    PROVE  /\ Cut(s, a, n) \in Seq(S) /\ Len(Cut(s, a, n)) = Len(s) - n
           /\ \A i \in 1 .. a : Cut(s, a, n)[i] = s[i]
           /\ \A i \in (a + 1) .. (Len(s) - n) : Cut(s, a, n)[i] = s[i + n]
<1>1. PICK u, v, l : u = SubSeq(s, 1, a) /\ v = SubSeq(s, a + n + 1, Len(s)) /\ l = Len(s)
  OBVIOUS
<1>2. l \in Nat /\ a + n <= l
  BY <1>1
<1>3. u \in Seq(S) /\ Len(u) = a /\ \A i \in 1 .. a : u[i] = s[i]
  BY <1>1, <1>2
<1>4. v \in Seq(S) /\ Len(v) = l - a - n /\ \A i \in 1 .. (l - a - n) : v[i] = s[a + n + i]
  BY <1>1, <1>2
<1>5. PICK r : r = u \o v
  OBVIOUS
<1>6. r \in Seq(S) /\ Len(r) = l - n
  <2>1. u \in Seq(S) /\ v \in Seq(S)
    BY <1>3, <1>4
  <2>2. r \in Seq(S) /\ Len(r) = Len(u) + Len(v)
    BY <1>5, <2>1, ExtendSequence
  <2> QED
    BY <1>2, <1>3, <1>4, <2>2
<1>7. \A i \in 1 .. a : r[i] = u[i]
  BY <1>2, <1>3, <1>4, <1>5
<1>8. ASSUME NEW i \in (a + 1) .. (l - n) PROVE r[i] = v[i - a]
  <2>1. PICK m : m = i - a
    OBVIOUS
  <2>2. m \in 1 .. Len(v) /\ a + m = i
    BY <1>2, <1>4, <2>1
  <2>3. u \in Seq(S) /\ v \in Seq(S)
    BY <1>3, <1>4
  <2>4. r[Len(u) + m] = v[m]
    BY <1>5, <2>2, <2>3, ExtendSequence, SMTT(30)
  <2> QED
    BY <1>3, <2>1, <2>2, <2>4
<1>9. ASSUME NEW i \in (a + 1) .. (l - n) PROVE r[i] = s[i + n]
  <2>1. i - a \in 1 .. (l - a - n) /\ a + n + (i - a) = i + n
    BY <1>2
  <2>2. v[i - a] = s[a + n + (i - a)]
    BY <1>4, <2>1
  <2> QED
    BY <1>8, <2>1, <2>2
<1> QED
  BY <1>1, <1>3, <1>5, <1>6, <1>7, <1>9 DEF Cut

\* The stretch of the arena that the record of a bucket leaves; the end of
\* the arena and nothing for a vacant bucket.
HoleAt(m, b)   == IF b \in Occupied(m) THEN m.index[b].off ELSE Len(m.data)
HoleSize(m, b) == IF b \in Occupied(m) THEN m.index[b].size ELSE 0

NewCell(slot, v) == [slot |-> slot, v |-> v]

NewCells(slot, v) ==
    <<[slot |-> slot, v |-> v]>> \o [i \in 1 .. (RecordSize(v) - 1) |-> Body]

\* The cells of a new record.
LEMMA NewCellsAre ==
    ASSUME NEW slot \in NamespaceSlots, NEW v \in Version
    PROVE  /\ NewCells(slot, v) \in Seq(Cell) /\ Len(NewCells(slot, v)) = RecordSize(v)
           /\ NewCells(slot, v)[1] = [slot |-> slot, v |-> v]
           /\ RecordSize(v) \in Nat \ {0}
<1>1. RecordSize(v) \in Nat \ {0}
  BY SizesAssumption DEF RecordSize, Version
<1> DEFINE x == <<[slot |-> slot, v |-> v]>>
           y == [i \in 1 .. (RecordSize(v) - 1) |-> Body]
<1>2. [slot |-> slot, v |-> v] \in Cell /\ Body \in Cell
  BY BucketsAssumption DEF Cell, NamespaceSlots, Body
<1>3. x \in Seq(Cell) /\ Len(x) = 1 /\ x[1] = [slot |-> slot, v |-> v]
  BY <1>2
<1>4. y \in Seq(Cell) /\ Len(y) = RecordSize(v) - 1
  BY <1>1, <1>2
<1> HIDE DEF x, y
<1>5. /\ x \o y \in Seq(Cell) /\ Len(x \o y) = Len(x) + Len(y)
      /\ \A i \in 1 .. Len(x) : (x \o y)[i] = x[i]
  BY <1>3, <1>4, ExtendSequence
<1> QED
  BY <1>1, <1>3, <1>4, <1>5 DEF NewCells, x, y

\* The index after an insertion.
IndexWith(m, b, slot, v) ==
    [x \in BucketIndex |->
        IF x = b THEN [hash |-> Hash(slot, v.key), off |-> Len(m.data) - HoleSize(m, b),
                       size |-> RecordSize(v)]
        ELSE IF m.index[x].off > HoleAt(m, b) THEN Moved(m.index[x], HoleSize(m, b))
        ELSE m.index[x]]

\* The hole lies in the arena.
LEMMA HoleFits ==
    ASSUME NEW m, Sound(m), NEW b \in BucketIndex
    PROVE  /\ HoleAt(m, b) \in Nat /\ HoleSize(m, b) \in Nat /\ Len(m.data) \in Nat
           /\ HoleAt(m, b) + HoleSize(m, b) <= Len(m.data)
<1>1. Len(m.data) \in Nat
  BY SoundTypes
<1>2. CASE b \in Occupied(m)
  <2>1. PICK o, n, l : o = m.index[b].off /\ n = m.index[b].size /\ l = Len(m.data)
    OBVIOUS
  <2>2. o \in Nat /\ n \in Nat /\ l \in Nat /\ o + n \in 1 .. l
    BY <1>1, <1>2, <2>1, RecordOf
  <2>3. o + n <= l
    BY <2>2
  <2> QED
    BY <1>2, <2>1, <2>2, <2>3 DEF HoleAt, HoleSize
<1>3. CASE b \notin Occupied(m)
  BY <1>1, <1>3 DEF HoleAt, HoleSize
<1> QED
  BY <1>2, <1>3

\* No bucket points behind the arena.
LEMMA OffsetsWithin ==
    ASSUME NEW m, Sound(m), NEW x \in BucketIndex
    PROVE  ~ (m.index[x].off > Len(m.data))
<1>1. PICK o, l : o = m.index[x].off /\ l = Len(m.data)
  OBVIOUS
<1>2. o \in Int /\ l \in Nat
  BY <1>1, SoundTypes
<1>3. CASE x \in Occupied(m)
  <2>1. o + 1 \in 1 .. l
    BY <1>1, <1>3, RecordOf
  <2> QED
    BY <1>1, <1>2, <2>1
<1>4. CASE x \notin Occupied(m)
  <2>1. o = -1
    BY <1>1, <1>4 DEF Occupied, NoOffset
  <2> QED
    BY <1>1, <1>2, <2>1
<1> QED
  BY <1>3, <1>4

\* The parts of a memtable with one more record.
LEMMA InsertedShape ==
    ASSUME NEW m, Sound(m), NEW slot \in NamespaceSlots, NEW v \in Version,
           NEW b \in BucketIndex
    PROVE  /\ InsertedAt(m, b, slot, v).index = IndexWith(m, b, slot, v)
           /\ InsertedAt(m, b, slot, v).data =
                 Cut(m.data, HoleAt(m, b), HoleSize(m, b)) \o NewCells(slot, v)
           /\ InsertedAt(m, b, slot, v).count = m.count + (IF b \in Occupied(m) THEN 0 ELSE 1)
<1> DEFINE c == Cut(m.data, HoleAt(m, b), HoleSize(m, b))
           r == IF b \in Occupied(m) THEN Removed(m, b) ELSE m
<1>1. r.data = c
  <2>1. CASE b \in Occupied(m)
    BY <2>1 DEF Removed, Cut, HoleAt, HoleSize
  <2>2. CASE b \notin Occupied(m)
    <3>1. m.data \in Seq(Cell)
      BY SoundTypes
    <3>2. Cut(m.data, Len(m.data), 0) = m.data
      <4>1. SubSeq(m.data, 1, Len(m.data)) = m.data
        BY <3>1, SubSeqFull
      <4>2. SubSeq(m.data, Len(m.data) + 0 + 1, Len(m.data)) = <<>>
        BY <3>1, SubSeqEmpty
      <4> QED
        BY <3>1, <4>1, <4>2, ConcatEmptySeq DEF Cut
    <3> QED
      BY <2>2, <3>2 DEF HoleAt, HoleSize
  <2> QED
    BY <2>1, <2>2
<1>2. Len(c) = Len(m.data) - HoleSize(m, b) /\ c \in Seq(Cell)
  BY SoundTypes, HoleFits, CutSequence
<1> HIDE DEF c, r
<1> DEFINE bucket == [hash |-> Hash(slot, v.key), off |-> Len(r.data), size |-> RecordSize(v)]
<1>3. [r.index EXCEPT ![b] = bucket] = IndexWith(m, b, slot, v)
  <2>1. CASE b \in Occupied(m)
    BY <1>1, <1>2, <2>1 DEF IndexWith, r, Removed, HoleAt, HoleSize
  <2>2. CASE b \notin Occupied(m)
    <3>1. r.index = m.index /\ m.index \in [BucketIndex -> Bucket]
      BY <2>2, SoundTypes DEF r
    <3>2. \A x \in BucketIndex : ~ (m.index[x].off > HoleAt(m, b))
      BY <2>2, OffsetsWithin DEF HoleAt
    <3> QED
      BY <1>1, <1>2, <3>1, <3>2 DEF IndexWith
  <2> QED
    BY <2>1, <2>2
<1>4. c \o (<<[slot |-> slot, v |-> v]>> \o [i \in 1 .. (RecordSize(v) - 1) |-> Body])
         = (c \o <<[slot |-> slot, v |-> v]>>) \o [i \in 1 .. (RecordSize(v) - 1) |-> Body]
  <2> DEFINE x == <<[slot |-> slot, v |-> v]>>
             y == [i \in 1 .. (RecordSize(v) - 1) |-> Body]
  <2>1. RecordSize(v) \in Nat \ {0}
    BY NewCellsAre
  <2>2. [slot |-> slot, v |-> v] \in Cell /\ Body \in Cell
    BY BucketsAssumption DEF Cell, NamespaceSlots, Body
  <2>3. x \in Seq(Cell) /\ y \in Seq(Cell)
    BY <2>1, <2>2
  <2> HIDE DEF x, y
  <2>4. c \o (x \o y) = (c \o x) \o y
    <3>1. c \in Seq(Cell)
      BY <1>2
    <3>2. \A s, t, u \in Seq(Cell) : (s \o t) \o u = s \o (t \o u)
      BY ConcatAssociative
    <3> QED
      BY <2>3, <3>1, <3>2, Zenon
  <2> QED
    BY <2>4 DEF x, y
<1> QED
  BY <1>1, <1>3, <1>4 DEF InsertedAt, NewCells, r, c

\* The other records lie in front of the hole or behind it.
LEMMA HoleApart ==
    ASSUME NEW m, Sound(m), NEW b \in BucketIndex, NEW x \in Occupied(m), x # b,
           NEW o, o = HoleAt(m, b), NEW n, n = HoleSize(m, b),
           NEW f, f = m.index[x].off, NEW k, k = m.index[x].size
    PROVE  /\ o \in Nat /\ n \in Nat /\ f \in Nat /\ k \in Nat \ {0}
           /\ f > o => f >= o + n
           /\ ~(f > o) => f + k <= o
<1>1. o \in Nat /\ n \in Nat /\ f \in Nat /\ k \in Nat \ {0}
  BY HoleFits, RecordOf
<1>2. CASE b \in Occupied(m)
  <2>1. o = m.index[b].off /\ n = m.index[b].size
    BY <1>2 DEF HoleAt, HoleSize
  <2>2. f <= o => x = b \/ f + k <= o
    BY <1>2, <2>1 DEF Sound, Tiled
  <2>3. o <= f => b = x \/ o + n <= f
    BY <1>2, <2>1 DEF Sound, Tiled
  <2> QED
    BY <1>1, <2>2, <2>3
<1>3. CASE b \notin Occupied(m)
  <2>1. PICK l : l = Len(m.data)
    OBVIOUS
  <2>2. o = l /\ l \in Nat
    BY <1>3, <2>1, SoundTypes DEF HoleAt
  <2>3. f + k \in 1 .. l
    BY <2>1, RecordOf
  <2> QED
    BY <1>1, <2>2, <2>3
<1> QED
  BY <1>2, <1>3

\* The arena after an insertion.
LEMMA InsertedData ==
    ASSUME NEW m, Sound(m), NEW slot \in NamespaceSlots, NEW v \in Version,
           NEW b \in BucketIndex, NEW w, w = InsertedAt(m, b, slot, v),
           NEW o, o = HoleAt(m, b), NEW n, n = HoleSize(m, b), NEW l, l = Len(m.data),
           NEW z, z = RecordSize(v)
    PROVE  /\ w.data \in Seq(Cell) /\ Len(w.data) = l - n + z
           /\ o \in Nat /\ n \in Nat /\ l \in Nat /\ z \in Nat \ {0} /\ o + n <= l
           /\ \A i \in 1 .. o : w.data[i] = m.data[i]
           /\ \A i \in (o + 1) .. (l - n) : w.data[i] = m.data[i + n]
           /\ w.data[l - n + 1] = NewCell(slot, v)
<1>1. PICK c, t : c = Cut(m.data, o, n) /\ t = NewCells(slot, v)
  OBVIOUS
<1>2. o \in Nat /\ n \in Nat /\ l \in Nat /\ o + n <= l
  BY HoleFits
<1>3. /\ c \in Seq(Cell) /\ Len(c) = l - n
      /\ \A i \in 1 .. o : c[i] = m.data[i]
      /\ \A i \in (o + 1) .. (l - n) : c[i] = m.data[i + n]
  <2>1. /\ m.data \in Seq(Cell)
        /\ HoleAt(m, b) \in Nat /\ HoleSize(m, b) \in Nat
        /\ HoleAt(m, b) + HoleSize(m, b) <= Len(m.data)
    BY SoundTypes, HoleFits
  <2>2. c = Cut(m.data, HoleAt(m, b), HoleSize(m, b))
    BY <1>1
  <2>3. c \in Seq(Cell) /\ Len(c) = Len(m.data) - HoleSize(m, b)
    <3>1. PICK d, a, k : d = m.data /\ a = HoleAt(m, b) /\ k = HoleSize(m, b)
      OBVIOUS
    <3>2. d \in Seq(Cell) /\ a \in Nat /\ k \in Nat /\ a + k <= Len(d) /\ c = Cut(d, a, k)
      BY <2>1, <2>2, <3>1
    <3>3. Cut(d, a, k) \in Seq(Cell) /\ Len(Cut(d, a, k)) = Len(d) - k
      BY <3>2, CutSequence
    <3> QED
      BY <3>1, <3>2, <3>3
  <2>4. \A i \in 1 .. HoleAt(m, b) : c[i] = m.data[i]
    BY <2>1, <2>2, CutSequence
  <2>5. \A i \in (HoleAt(m, b) + 1) .. (Len(m.data) - HoleSize(m, b)) :
           c[i] = m.data[i + HoleSize(m, b)]
    BY <2>1, <2>2, CutSequence
  <2> QED
    BY <2>3, <2>4, <2>5, Zenon
<1>4. t \in Seq(Cell) /\ Len(t) = z /\ t[1] = NewCell(slot, v) /\ z \in Nat \ {0}
  BY <1>1, NewCellsAre DEF NewCell
<1>5. PICK d : d = w.data
  OBVIOUS
<1>6. d = c \o t
  BY <1>1, <1>5, InsertedShape
<1>7. /\ d \in Seq(Cell) /\ Len(d) = Len(c) + Len(t)
      /\ \A i \in 1 .. Len(c) : d[i] = c[i]
      /\ \A i \in 1 .. Len(t) : d[Len(c) + i] = t[i]
  <2>1. c \in Seq(Cell) /\ t \in Seq(Cell)
    BY <1>3, <1>4
  <2> QED
    BY <1>6, <2>1, ExtendSequence
<1>8. \A i \in 1 .. (l - n) : d[i] = c[i]
  BY <1>3, <1>7
<1>9. \A i \in 1 .. o : d[i] = m.data[i]
  BY <1>2, <1>3, <1>8
<1>10. \A i \in (o + 1) .. (l - n) : d[i] = m.data[i + n]
  BY <1>2, <1>3, <1>8
<1>11. d[l - n + 1] = t[1] /\ Len(d) = l - n + z
  <2>1. Len(c) = l - n /\ Len(t) = z /\ z \in Nat \ {0}
    BY <1>3, <1>4
  <2>2. 1 \in 1 .. Len(t)
    BY <2>1
  <2>3. d[Len(c) + 1] = t[1]
    BY <1>7, <2>2
  <2> QED
    BY <1>7, <2>1, <2>3
<1> QED
  BY <1>2, <1>4, <1>5, <1>7, <1>9, <1>10, <1>11

\* The other records after an insertion, and the new one.
LEMMA InsertedRecords ==
    ASSUME NEW m, Sound(m), NEW slot \in NamespaceSlots, NEW v \in Version,
           NEW b \in BucketIndex, NEW w, w = InsertedAt(m, b, slot, v),
           NEW o, o = HoleAt(m, b), NEW n, n = HoleSize(m, b)
    PROVE  /\ Occupied(w) = Occupied(m) \cup {b}
           /\ \A x \in Occupied(m) \ {b} :
                 /\ RecordAt(w, x) = RecordAt(m, x)
                 /\ w.index[x].hash = m.index[x].hash /\ w.index[x].size = m.index[x].size
                 /\ w.index[x].off = IF m.index[x].off > o THEN m.index[x].off - n
                                     ELSE m.index[x].off
           /\ RecordAt(w, b) = NewCell(slot, v)
           /\ w.index[b].hash = Hash(slot, v.key) /\ w.index[b].size = RecordSize(v)
           /\ w.index[b].off = Len(m.data) - n
           /\ w.index \in [BucketIndex -> Bucket]
<1>1. PICK l, z : l = Len(m.data) /\ z = RecordSize(v)
  OBVIOUS
<1>2. /\ w.data \in Seq(Cell) /\ Len(w.data) = l - n + z
      /\ o \in Nat /\ n \in Nat /\ l \in Nat /\ z \in Nat \ {0} /\ o + n <= l
      /\ \A i \in 1 .. o : w.data[i] = m.data[i]
      /\ \A i \in (o + 1) .. (l - n) : w.data[i] = m.data[i + n]
      /\ w.data[l - n + 1] = NewCell(slot, v)
  <2>1. /\ w.data \in Seq(Cell) /\ Len(w.data) = l - n + z
        /\ o \in Nat /\ n \in Nat /\ l \in Nat /\ z \in Nat \ {0} /\ o + n <= l
    BY <1>1, InsertedData
  <2>2. \A i \in 1 .. o : w.data[i] = m.data[i]
    BY <1>1, InsertedData
  <2>3. \A i \in (o + 1) .. (l - n) : w.data[i] = m.data[i + n]
    BY <1>1, InsertedData, SMTT(30)
  <2>4. w.data[l - n + 1] = NewCell(slot, v)
    BY <1>1, InsertedData
  <2> QED
    BY <2>1, <2>2, <2>3, <2>4
<1>3. w.index = IndexWith(m, b, slot, v)
  BY InsertedShape
<1>4. w.index[b] = [hash |-> Hash(slot, v.key), off |-> l - n, size |-> z]
  BY <1>1, <1>3 DEF IndexWith
<1>5. \A x \in BucketIndex \ {b} :
         w.index[x] = IF m.index[x].off > o THEN Moved(m.index[x], n) ELSE m.index[x]
  BY <1>3 DEF IndexWith
<1>6. ASSUME NEW x \in Occupied(m) \ {b}
      PROVE  /\ RecordAt(w, x) = RecordAt(m, x)
             /\ w.index[x].hash = m.index[x].hash /\ w.index[x].size = m.index[x].size
             /\ w.index[x].off = IF m.index[x].off > o THEN m.index[x].off - n ELSE m.index[x].off
             /\ w.index[x].off \in Nat
  <2>1. PICK f, k : f = m.index[x].off /\ k = m.index[x].size
    OBVIOUS
  <2>2. /\ f \in Nat /\ k \in Nat \ {0}
        /\ f > o => f >= o + n
        /\ ~(f > o) => f + k <= o
    BY <2>1, HoleApart
  <2>3. x \in BucketIndex /\ f + k \in 1 .. l
    BY <1>1, <2>1, RecordOf
  <2>4. CASE f > o
    <3>1. w.index[x] = Moved(m.index[x], n)
      BY <1>5, <2>1, <2>3, <2>4
    <3>2. /\ w.index[x].off = f - n
          /\ w.index[x].hash = m.index[x].hash /\ w.index[x].size = m.index[x].size
      BY <2>1, <3>1 DEF Moved
    <3>3. f - n \in Nat /\ f - n + 1 \in (o + 1) .. (l - n) /\ (f - n + 1) + n = f + 1
      <4>1. o \in Nat /\ n \in Nat /\ l \in Nat
        BY <1>2
      <4> QED
        BY <2>2, <2>3, <2>4, <4>1
    <3>4. w.data[f - n + 1] = m.data[f + 1]
      BY <1>2, <3>3
    <3> QED
      BY <2>1, <2>4, <3>2, <3>3, <3>4 DEF RecordAt
  <2>5. CASE ~(f > o)
    <3>1. w.index[x] = m.index[x]
      BY <1>5, <2>1, <2>3, <2>5
    <3>2. f + 1 \in 1 .. o
      BY <1>2, <2>2, <2>5
    <3>3. w.data[f + 1] = m.data[f + 1]
      BY <1>2, <3>2
    <3> QED
      BY <2>1, <2>2, <2>5, <3>1, <3>3 DEF RecordAt
  <2> QED
    BY <2>4, <2>5
<1>7. ASSUME NEW x \in BucketIndex, x \notin Occupied(m), x # b
      PROVE  w.index[x].off = NoOffset
  <2>1. m.index[x].off = -1
    BY <1>7 DEF Occupied, NoOffset
  <2>2. ~ (m.index[x].off > o)
    BY <1>2, <2>1
  <2> QED
    BY <1>5, <1>7, <2>1, <2>2 DEF NoOffset
<1>8. Occupied(w) = Occupied(m) \cup {b}
  <2>1. w.index[b].off # NoOffset
    BY <1>2, <1>4 DEF NoOffset
  <2>2. \A x \in Occupied(m) : x # b => w.index[x].off # NoOffset
    BY <1>6 DEF NoOffset
  <2> QED
    BY <1>7, <2>1, <2>2 DEF Occupied
<1>9. RecordAt(w, b) = NewCell(slot, v)
  BY <1>2, <1>4 DEF RecordAt
<1>10. w.index \in [BucketIndex -> Bucket]
  <2>1. w.index[b] \in Bucket
    <3>1. v.key \in Keys
      BY DEF Version
    <3>2. Hash(slot, v.key) \in Nat
      BY <3>1, HashAssumption
    <3> QED
      BY <1>2, <1>4, <3>2 DEF Bucket
  <2>2. ASSUME NEW x \in BucketIndex, x # b PROVE w.index[x] \in Bucket
    <3>1. /\ m.index[x] \in Bucket /\ m.index[x].hash \in Nat
          /\ m.index[x].off \in Int /\ m.index[x].size \in Nat
      BY SoundTypes
    <3>2. m.index[x].off - n \in Int
      <4>1. n \in Int
        BY <1>2
      <4> QED
        BY <3>1, <4>1
    <3>3. Moved(m.index[x], n) \in Bucket
      BY <3>1, <3>2 DEF Moved, Bucket
    <3> QED
      BY <1>5, <2>2, <3>1, <3>3
  <2>3. DOMAIN w.index = BucketIndex /\ w.index = [x \in BucketIndex |-> w.index[x]]
    BY <1>3 DEF IndexWith
  <2> QED
    BY <2>1, <2>2, <2>3
<1> QED
  BY <1>1, <1>4, <1>6, <1>8, <1>9, <1>10

\* Where another record is after an insertion, g, when it was at f: in front of
\* the new one.
LEMMA InsertedPlaces ==
    ASSUME NEW m, Sound(m), NEW slot \in NamespaceSlots, NEW v \in Version,
           NEW b \in BucketIndex, NEW w, w = InsertedAt(m, b, slot, v),
           NEW o, o = HoleAt(m, b), NEW n, n = HoleSize(m, b), NEW l, l = Len(m.data),
           NEW x \in Occupied(m), x # b,
           NEW f, f = m.index[x].off, NEW k, k = m.index[x].size, NEW g, g = w.index[x].off
    PROVE  /\ o \in Nat /\ n \in Nat /\ l \in Nat /\ f \in Nat /\ k \in Nat \ {0} /\ g \in Nat
           /\ o + n <= l /\ g + k <= l - n /\ f + k <= l
           /\ f > o => f >= o + n /\ g = f - n
           /\ ~(f > o) => f + k <= o /\ g = f
           /\ w.index[x].size = k
<1>0. PICK a, c, e, h, j, q : a = o /\ c = n /\ e = l /\ h = f /\ j = k /\ q = g
  OBVIOUS
<1>1. a \in Nat /\ c \in Nat /\ e \in Nat /\ a + c <= e
  BY <1>0, HoleFits
<1>2. /\ h \in Nat /\ j \in Nat \ {0}
      /\ h > a => h >= a + c
      /\ ~(h > a) => h + j <= a
  BY <1>0, HoleApart
<1>3. h + j \in 1 .. e
  BY <1>0, RecordOf
<1>4. q = (IF h > a THEN h - c ELSE h) /\ w.index[x].size = j
  BY <1>0, InsertedRecords
<1>5. h + j <= e
  BY <1>1, <1>2, <1>3
<1>6. CASE h > a
  <2>1. h >= a + c /\ q = h - c
    BY <1>2, <1>4, <1>6
  <2>2. q \in Nat /\ q + j <= e - c
    BY <1>1, <1>2, <1>5, <2>1
  <2> QED
    BY <1>0, <1>1, <1>2, <1>4, <1>5, <1>6, <2>1, <2>2
<1>7. CASE ~(h > a)
  <2>1. h + j <= a /\ q = h
    BY <1>2, <1>4, <1>7
  <2>2. q \in Nat /\ q + j <= e - c
    BY <1>1, <1>2, <2>1
  <2> QED
    BY <1>0, <1>1, <1>2, <1>4, <1>5, <1>7, <2>1, <2>2
<1> QED
  BY <1>6, <1>7

LEMMA InsertedTiled ==
    ASSUME NEW m, Sound(m), NEW slot \in NamespaceSlots, NEW v \in Version,
           NEW b \in BucketIndex, NEW w, w = InsertedAt(m, b, slot, v)
    PROVE  Tiled(w)
<1>1. PICK o, n, l, z : /\ o = HoleAt(m, b) /\ n = HoleSize(m, b)
                        /\ l = Len(m.data) /\ z = RecordSize(v)
  OBVIOUS
<1>2. /\ Len(w.data) = l - n + z
      /\ o \in Nat /\ n \in Nat /\ l \in Nat /\ z \in Nat \ {0} /\ o + n <= l
  BY <1>1, InsertedData
<1>3. /\ Occupied(w) = Occupied(m) \cup {b}
      /\ RecordAt(w, b) = NewCell(slot, v)
      /\ w.index[b].size = z /\ w.index[b].off = l - n
      /\ \A x \in Occupied(m) \ {b} : RecordAt(w, x) = RecordAt(m, x)
  <2>1. Occupied(w) = Occupied(m) \cup {b} /\ RecordAt(w, b) = NewCell(slot, v)
    BY <1>1, InsertedRecords
  <2>2. w.index[b].size = z /\ w.index[b].off = l - n
    BY <1>1, InsertedRecords
  <2>3. \A x \in Occupied(m) \ {b} : RecordAt(w, x) = RecordAt(m, x)
    BY <1>1, InsertedRecords
  <2> QED
    BY <2>1, <2>2, <2>3
<1>4. ASSUME NEW x \in Occupied(m), x # b
      PROVE  /\ w.index[x].off \in Nat /\ w.index[x].size \in Nat \ {0}
             /\ w.index[x].off + w.index[x].size <= l - n
  <2>1. PICK f, k, g : f = m.index[x].off /\ k = m.index[x].size /\ g = w.index[x].off
    OBVIOUS
  <2> QED
    BY <1>1, <1>4, <2>1, InsertedPlaces, SMTT(30)
<1>5. ASSUME NEW x \in Occupied(w)
      PROVE  /\ w.index[x].off >= 0
             /\ w.index[x].size = RecordSize(RecordAt(w, x).v)
             /\ w.index[x].off + w.index[x].size <= Len(w.data)
  <2>1. CASE x = b
    <3>1. RecordAt(w, b).v = v
      BY <1>3 DEF NewCell
    <3> QED
      BY <1>1, <1>2, <1>3, <2>1, <3>1, SMTT(30)
  <2>2. CASE x # b
    <3>1. x \in Occupied(m)
      BY <1>3, <2>2
    <3>2. w.index[x].size = m.index[x].size /\ m.index[x].size = RecordSize(RecordAt(m, x).v)
      BY <2>2, <3>1, <1>1, InsertedRecords, RecordOf
    <3>3. RecordAt(w, x) = RecordAt(m, x)
      BY <1>3, <2>2, <3>1
    <3> QED
      BY <1>2, <1>4, <2>2, <3>1, <3>2, <3>3
  <2> QED
    BY <2>1, <2>2
<1>6. ASSUME NEW x \in Occupied(w), NEW y \in Occupied(w), x # y,
             w.index[x].off <= w.index[y].off
      PROVE  w.index[x].off + w.index[x].size <= w.index[y].off
  <2>1. CASE x = b
    <3>1. y \in Occupied(m) /\ y # b
      BY <1>3, <1>6, <2>1
    <3>2. /\ w.index[y].off \in Nat /\ w.index[y].size \in Nat \ {0}
          /\ w.index[y].off + w.index[y].size <= l - n
      BY <1>4, <3>1
    <3> QED
      BY <1>2, <1>3, <1>6, <2>1, <3>2
  <2>2. CASE y = b
    <3>1. x \in Occupied(m) /\ x # b
      BY <1>3, <1>6, <2>2
    <3> QED
      BY <1>3, <1>4, <2>2, <3>1
  <2>3. CASE x # b /\ y # b
    <3>1. x \in Occupied(m) /\ y \in Occupied(m)
      BY <1>3, <2>3
    <3>2. PICK f, k, g, f2, k2, g2 :
             /\ f = m.index[x].off /\ k = m.index[x].size /\ g = w.index[x].off
             /\ f2 = m.index[y].off /\ k2 = m.index[y].size /\ g2 = w.index[y].off
      OBVIOUS
    <3>3. /\ f \in Nat /\ k \in Nat \ {0} /\ g \in Nat
          /\ f > o => f >= o + n /\ g = f - n
          /\ ~(f > o) => f + k <= o /\ g = f
          /\ w.index[x].size = k
      BY <1>1, <2>3, <3>1, <3>2, InsertedPlaces, SMTT(30)
    <3>4. /\ f2 \in Nat /\ k2 \in Nat \ {0} /\ g2 \in Nat
          /\ f2 > o => f2 >= o + n /\ g2 = f2 - n
          /\ ~(f2 > o) => f2 + k2 <= o /\ g2 = f2
      BY <1>1, <2>3, <3>1, <3>2, InsertedPlaces, SMTT(30)
    <3>5. (f <= f2 => f + k <= f2) /\ (f2 <= f => f2 + k2 <= f)
      BY <1>6, <3>1, <3>2 DEF Sound, Tiled
    <3>6. g <= g2
      BY <1>6, <3>2
    <3>7. g + k <= g2
      BY <1>2, <3>3, <3>4, <3>5, <3>6
    <3> QED
      BY <3>2, <3>3, <3>7
  <2> QED
    BY <2>1, <2>2, <2>3
<1>7. ASSUME NEW i \in 1 .. Len(w.data)
      PROVE  \E x \in Occupied(w) :
                w.index[x].off < i /\ i <= w.index[x].off + w.index[x].size
  <2>1. CASE i > l - n
    BY <1>2, <1>3, <2>1
  <2>2. ASSUME ~(i > l - n), NEW j \in 1 .. l, NEW x \in Occupied(m),
               m.index[x].off < j, j <= m.index[x].off + m.index[x].size,
               x # b, j = IF i > o THEN i + n ELSE i
        PROVE  w.index[x].off < i /\ i <= w.index[x].off + w.index[x].size
    <3>1. PICK f, k, g : f = m.index[x].off /\ k = m.index[x].size /\ g = w.index[x].off
      OBVIOUS
    <3>2. /\ f \in Nat /\ k \in Nat \ {0} /\ g \in Nat
          /\ f > o => f >= o + n /\ g = f - n
          /\ ~(f > o) => f + k <= o /\ g = f
          /\ w.index[x].size = k
      <4>1. x \in Occupied(m) /\ x # b
        BY <2>2
      <4>2. /\ f \in Nat /\ k \in Nat \ {0} /\ g \in Nat
            /\ w.index[x].size = k
        BY <1>1, <3>1, <4>1, InsertedPlaces, SMTT(30)
      <4>3. /\ f > o => f >= o + n /\ g = f - n
            /\ ~(f > o) => f + k <= o /\ g = f
        BY <1>1, <3>1, <4>1, InsertedPlaces, SMTT(30)
      <4> QED
        BY <4>2, <4>3
    <3>3. f < j /\ j <= f + k
      BY <2>2, <3>1
    <3>4. g < i /\ i <= g + k
      BY <1>2, <2>2, <3>2, <3>3
    <3> QED
      BY <3>1, <3>2, <3>4
  <2>3. CASE ~(i > l - n)
    <3>1. PICK j : j = IF i > o THEN i + n ELSE i
      OBVIOUS
    <3>2. j \in 1 .. l
      BY <1>2, <2>3, <3>1
    <3>3. PICK x \in Occupied(m) : m.index[x].off < j /\ j <= m.index[x].off + m.index[x].size
      BY <1>1, <3>2 DEF Sound, Tiled
    <3>4. x # b
      <4>1. SUFFICES ASSUME x = b PROVE FALSE
        OBVIOUS
      <4>2. o = m.index[x].off /\ n = m.index[x].size
        BY <1>1, <4>1 DEF HoleAt, HoleSize
      <4>3. o < j /\ j <= o + n
        BY <3>3, <4>2
      <4> QED
        BY <1>2, <3>1, <4>3
    <3> QED
      BY <1>3, <2>2, <2>3, <3>1, <3>2, <3>3, <3>4, Zenon
  <2> QED
    BY <2>1, <2>3
<1> QED
  BY <1>5, <1>6, <1>7 DEF Tiled

\* The bucket that a version goes to is its own or vacant.
LEMMA BucketFor ==
    ASSUME NEW m, NEW slot \in NamespaceSlots, NEW v \in Version,
           NEW b, b = Find(m, slot, v.key), b # NoBucket
    PROVE  /\ v.key \in Keys /\ b \in BucketIndex
           /\ b \in Occupied(m) => Matches(m, b, slot, v.key)
<1>1. v.key \in Keys
  BY DEF Version
<1> QED
  BY <1>1, FindType

\* What matches a name after an insertion.
LEMMA InsertedMatches ==
    ASSUME NEW m, Sound(m), NEW slot \in NamespaceSlots, NEW v \in Version,
           NEW b \in BucketIndex, NEW w, w = InsertedAt(m, b, slot, v),
           NEW s, NEW k, NEW c
    PROVE  Matches(w, c, s, k) <=> \/ c = b /\ s = slot /\ k = v.key
                                   \/ c # b /\ Matches(m, c, s, k)
<1>1. PICK o, n : o = HoleAt(m, b) /\ n = HoleSize(m, b)
  OBVIOUS
<1>2. Occupied(w) = Occupied(m) \cup {b}
  BY <1>1, InsertedRecords
<1>3. RecordAt(w, b) = NewCell(slot, v) /\ w.index[b].hash = Hash(slot, v.key)
  BY <1>1, InsertedRecords
<1>4. \A x \in Occupied(m) \ {b} :
         RecordAt(w, x) = RecordAt(m, x) /\ w.index[x].hash = m.index[x].hash
  BY <1>1, InsertedRecords
<1>5. CASE c = b
  <2>1. RecordAt(w, c).slot = slot /\ RecordAt(w, c).v.key = v.key
    BY <1>3, <1>5 DEF NewCell
  <2> QED
    BY <1>2, <1>3, <1>5, <2>1 DEF Matches
<1>6. CASE c # b
  BY <1>2, <1>4, <1>6 DEF Matches
<1> QED
  BY <1>5, <1>6

\* Every name is still found where it was, and the new one in its bucket.
LEMMA InsertedFind ==
    ASSUME NEW m, Sound(m), NEW slot \in NamespaceSlots, NEW v \in Version,
           NEW b, b = Find(m, slot, v.key), b # NoBucket,
           NEW w, w = InsertedAt(m, b, slot, v),
           NEW s \in NamespaceSlots, NEW k \in Keys, NEW c,
           \/ c = b /\ s = slot /\ k = v.key
           \/ c # b /\ Matches(m, c, s, k)
    PROVE  Find(w, s, k) = c
<1>1. /\ v.key \in Keys /\ b \in BucketIndex
      /\ b \in Occupied(m) => Matches(m, b, slot, v.key)
  BY BucketFor
<1>2. PICK o, n : o = HoleAt(m, b) /\ n = HoleSize(m, b)
  OBVIOUS
<1>3. Occupied(w) = Occupied(m) \cup {b}
  BY <1>1, <1>2, InsertedRecords
<1>4. \A x : Matches(w, x, s, k) <=> \/ x = b /\ s = slot /\ k = v.key
                                     \/ x # b /\ Matches(m, x, s, k)
  BY <1>1, InsertedMatches
<1>5. Find(m, s, k) = c
  BY MatchFound
<1>6. c # NoBucket
  <2>1. c \in BucketIndex
    BY <1>1 DEF Matches, Occupied
  <2> QED
    BY <2>1, BucketsAssumption DEF BucketIndex, NoBucket
<1>7. PICK p \in BucketIndex :
         /\ Stop(m, s, k, p)
         /\ \A q \in BucketIndex : q < p => ~Stop(m, s, k, q)
         /\ Find(m, s, k) = Probe(Hash(s, k), p)
  BY <1>5, <1>6, FindEnds
<1>8. Matches(w, c, s, k)
  BY <1>4
<1>9. Stop(w, s, k, p)
  BY <1>5, <1>7, <1>8 DEF Stop
<1>10. ASSUME NEW q \in BucketIndex, q < p PROVE ~Stop(w, s, k, q)
  <2>1. PICK x : x = Probe(Hash(s, k), q)
    OBVIOUS
  <2>2. x \in Occupied(m) /\ ~Matches(m, x, s, k)
    BY <1>7, <1>10, <2>1 DEF Stop
  <2>3. x \in Occupied(w)
    BY <1>3, <2>2
  <2>4. ~Matches(w, x, s, k)
    BY <1>1, <1>4, <2>2
  <2> QED
    BY <2>1, <2>3, <2>4 DEF Stop
<1>11. Find(w, s, k) = Probe(Hash(s, k), p)
  BY <1>9, <1>10, FindIs
<1> QED
  BY <1>5, <1>7, <1>11

LEMMA InsertedIndexed ==
    ASSUME NEW m, Sound(m), NEW slot \in NamespaceSlots, NEW v \in Version,
           NEW b, b = Find(m, slot, v.key), b # NoBucket,
           NEW w, w = InsertedAt(m, b, slot, v)
    PROVE  Indexed(w)
<1>1. /\ v.key \in Keys /\ b \in BucketIndex
      /\ b \in Occupied(m) => Matches(m, b, slot, v.key)
  BY BucketFor
<1>2. PICK o, n : o = HoleAt(m, b) /\ n = HoleSize(m, b)
  OBVIOUS
<1>3. Occupied(w) = Occupied(m) \cup {b}
  BY <1>1, <1>2, InsertedRecords
<1>4. RecordAt(w, b) = NewCell(slot, v) /\ w.index[b].hash = Hash(slot, v.key)
  BY <1>1, <1>2, InsertedRecords
<1>5. \A x \in Occupied(m) \ {b} :
         RecordAt(w, x) = RecordAt(m, x) /\ w.index[x].hash = m.index[x].hash
  BY <1>1, <1>2, InsertedRecords
<1>6. ASSUME NEW x \in Occupied(w), NEW r, r = RecordAt(w, x)
      PROVE  /\ r.v \in Version /\ r.slot \in NamespaceSlots
             /\ w.index[x].hash = Hash(r.slot, r.v.key)
             /\ Find(w, r.slot, r.v.key) = x
  <2>1. CASE x = b
    <3>1. r.slot = slot /\ r.v = v
      BY <1>4, <1>6, <2>1 DEF NewCell
    <3>2. Find(w, slot, v.key) = b
      BY <1>1, InsertedFind
    <3> QED
      BY <1>4, <2>1, <3>1, <3>2
  <2>2. CASE x # b
    <3>1. x \in Occupied(m) /\ r = RecordAt(m, x) /\ w.index[x].hash = m.index[x].hash
      BY <1>3, <1>5, <1>6, <2>2
    <3>2. r.v \in Version /\ r.slot \in NamespaceSlots /\ m.index[x].hash = Hash(r.slot, r.v.key)
      BY <3>1 DEF Sound, Indexed
    <3>3. r.v.key \in Keys /\ Matches(m, x, r.slot, r.v.key)
      BY <3>1, RecordOf
    <3>4. Find(w, r.slot, r.v.key) = x
      BY <2>2, <3>2, <3>3, InsertedFind
    <3> QED
      BY <3>1, <3>2, <3>4
  <2> QED
    BY <2>1, <2>2
<1>7. w.count = Cardinality(Occupied(w))
  <2>1. w.count = m.count + (IF b \in Occupied(m) THEN 0 ELSE 1)
    BY <1>1, InsertedShape
  <2>2. m.count = Cardinality(Occupied(m))
    BY DEF Sound, Indexed
  <2>3. IsFiniteSet(Occupied(m))
    <3>1. 0 \in Int /\ Buckets - 1 \in Int
      BY BucketsAssumption
    <3>2. IsFiniteSet(BucketIndex)
      BY <3>1, FS_Interval DEF BucketIndex
    <3>3. Occupied(m) \subseteq BucketIndex
      BY DEF Occupied
    <3> QED
      BY <3>2, <3>3, FS_Subset
  <2>4. Cardinality(Occupied(m) \cup {b}) =
           IF b \in Occupied(m) THEN Cardinality(Occupied(m)) ELSE Cardinality(Occupied(m)) + 1
    BY <2>3, FS_AddElement
  <2>5. Cardinality(Occupied(m)) \in Nat
    BY <2>3, FS_CardinalityType
  <2> QED
    BY <1>3, <2>1, <2>2, <2>4, <2>5
<1> QED
  BY <1>6, <1>7 DEF Indexed

-----------------------------------------------------------------------------
(* The memtable as a map                                                   *)

\* An empty memtable is sound and finds nothing.
THEOREM EmptySound ==
    /\ Sound(EmptyMemtable)
    /\ \A slot \in NamespaceSlots, key \in Keys :
          LookupMemtable(EmptyMemtable, slot, key) = NoVersion
<1> DEFINE e == EmptyMemtable
<1>1. e.index = [b \in BucketIndex |-> Vacant] /\ e.data = <<>> /\ e.count = 0
  BY DEF EmptyMemtable
<1>2. Occupied(e) = {}
  BY <1>1 DEF Occupied, Vacant
<1>3. e \in MemtableType
  <2>1. Vacant \in Bucket
    BY DEF Vacant, Bucket, NoOffset
  <2>2. [b \in BucketIndex |-> Vacant] \in [BucketIndex -> Bucket]
    BY <2>1
  <2>3. <<>> \in Seq(Cell) /\ 0 \in Nat
    OBVIOUS
  <2> QED
    BY <2>2, <2>3, Zenon DEF MemtableType, EmptyMemtable
<1>4. Tiled(e)
  BY <1>1, <1>2 DEF Tiled
<1>5. Indexed(e)
  <2>1. Cardinality({}) = 0
    BY FS_EmptySet
  <2> QED
    BY <1>1, <1>2, <2>1 DEF Indexed
<1>6. Sound(e)
  BY <1>3, <1>4, <1>5 DEF Sound
<1>7. ASSUME NEW slot \in NamespaceSlots, NEW key \in Keys
      PROVE  LookupMemtable(e, slot, key) = NoVersion
  BY <1>2 DEF LookupMemtable, VersionIn
<1> QED
  BY <1>6, <1>7

\* The name has a bucket, or the index has a vacant one.
HasBucket(m, slot, key) == Find(m, slot, key) # NoBucket

\* Inserting a version keeps the memtable sound.
THEOREM InsertedSound ==
    ASSUME NEW m, Sound(m), NEW slot \in NamespaceSlots, NEW v \in Version,
           HasBucket(m, slot, v.key)
    PROVE  Sound(Inserted(m, slot, v))
<1>1. PICK b, w : b = Find(m, slot, v.key) /\ w = InsertedAt(m, b, slot, v)
  OBVIOUS
<1>2. b \in BucketIndex /\ b # NoBucket
  BY <1>1, BucketFor DEF HasBucket
<1>3. Tiled(w)
  BY <1>1, <1>2, InsertedTiled
<1>4. Indexed(w)
  BY <1>1, <1>2, InsertedIndexed
<1>5. w \in MemtableType
  <2>1. PICK o, n, l, z : /\ o = HoleAt(m, b) /\ n = HoleSize(m, b)
                          /\ l = Len(m.data) /\ z = RecordSize(v)
    OBVIOUS
  <2>2. w.data \in Seq(Cell)
    BY <1>1, <1>2, <2>1, InsertedData
  <2>3. w.index \in [BucketIndex -> Bucket]
    BY <1>1, <1>2, <2>1, InsertedRecords
  <2>4. w.count \in Nat
    <3>1. w.count = m.count + (IF b \in Occupied(m) THEN 0 ELSE 1)
      BY <1>1, <1>2, InsertedShape
    <3>2. m.count \in Nat
      BY SoundTypes
    <3> QED
      BY <3>1, <3>2
  <2>5. w = [index |-> w.index, data |-> w.data, count |-> w.count]
    BY <1>1 DEF InsertedAt
  <2> QED
    BY <2>2, <2>3, <2>4, <2>5 DEF MemtableType
<1> QED
  BY <1>1, <1>3, <1>4, <1>5 DEF Sound, Inserted

\* The version is what its name is looked up with from now on, and every
\* other name is looked up as before.
THEOREM InsertedLookup ==
    ASSUME NEW m, Sound(m), NEW slot \in NamespaceSlots, NEW v \in Version,
           HasBucket(m, slot, v.key), NEW s \in NamespaceSlots, NEW k \in Keys
    PROVE  LookupMemtable(Inserted(m, slot, v), s, k) =
              IF s = slot /\ k = v.key THEN v ELSE LookupMemtable(m, s, k)
<1>1. PICK b, w : b = Find(m, slot, v.key) /\ w = InsertedAt(m, b, slot, v)
  OBVIOUS
<1>2. /\ v.key \in Keys /\ b \in BucketIndex /\ b # NoBucket
      /\ b \in Occupied(m) => Matches(m, b, slot, v.key)
  BY <1>1, BucketFor DEF HasBucket
<1>3. Sound(w) /\ w = Inserted(m, slot, v)
  BY <1>1, InsertedSound DEF Inserted
<1>4. \A c : Matches(w, c, s, k) <=> \/ c = b /\ s = slot /\ k = v.key
                                     \/ c # b /\ Matches(m, c, s, k)
  BY <1>1, <1>2, InsertedMatches
<1>5. PICK o, n : o = HoleAt(m, b) /\ n = HoleSize(m, b)
  OBVIOUS
<1>6. CASE s = slot /\ k = v.key
  <2>1. RecordAt(w, b) = NewCell(slot, v)
    BY <1>1, <1>2, <1>5, InsertedRecords
  <2>2. RecordAt(w, b).v = v
    BY <2>1 DEF NewCell
  <2>3. Matches(w, b, s, k)
    BY <1>4, <1>6
  <2> QED
    BY <1>3, <1>6, <2>2, <2>3, LookupIs
<1>7. CASE ~(s = slot /\ k = v.key)
  <2>1. ASSUME NEW c, Matches(m, c, s, k)
        PROVE  LookupMemtable(w, s, k) = LookupMemtable(m, s, k)
    <3>1. c # b
      BY <1>2, <1>7, <2>1 DEF Matches
    <3>2. Matches(w, c, s, k)
      BY <1>4, <2>1, <3>1
    <3>3. c \in Occupied(m) \ {b}
      BY <2>1, <3>1 DEF Matches
    <3>4. RecordAt(w, c) = RecordAt(m, c)
      BY <1>1, <1>2, <1>5, <3>3, InsertedRecords
    <3>5. LookupMemtable(m, s, k) = RecordAt(m, c).v
      BY <2>1, LookupIs
    <3>6. LookupMemtable(w, s, k) = RecordAt(w, c).v
      BY <1>3, <3>2, LookupIs
    <3> QED
      BY <3>4, <3>5, <3>6
  <2>2. ASSUME \A c : ~Matches(m, c, s, k)
        PROVE  LookupMemtable(w, s, k) = LookupMemtable(m, s, k)
    <3>1. \A c : ~Matches(w, c, s, k)
      BY <1>4, <1>7, <2>2
    <3>2. LookupMemtable(m, s, k) = NoVersion
      BY <2>2, LookupIs
    <3>3. LookupMemtable(w, s, k) = NoVersion
      BY <1>3, <3>1, LookupIs
    <3> QED
      BY <3>2, <3>3
  <2>3. LookupMemtable(w, s, k) = LookupMemtable(m, s, k)
    BY <2>1, <2>2
  <2> QED
    BY <1>3, <1>7, <2>3
<1> QED
  BY <1>6, <1>7

\* What an insertion takes of the arena and of the index: what preflight counts
\* from the record that the name was looked up with.
THEOREM InsertedUses ==
    ASSUME NEW m, Sound(m), NEW slot \in NamespaceSlots, NEW v \in Version,
           HasBucket(m, slot, v.key), NEW r, r = LookupMemtable(m, slot, v.key)
    PROVE  /\ Len(Inserted(m, slot, v).data) =
                 Len(m.data) - (IF r # NoVersion THEN RecordSize(r) ELSE 0) + RecordSize(v)
           /\ Inserted(m, slot, v).count = m.count + (IF r # NoVersion THEN 0 ELSE 1)
<1>1. PICK b, w : b = Find(m, slot, v.key) /\ w = InsertedAt(m, b, slot, v)
  OBVIOUS
<1>2. /\ v.key \in Keys /\ b \in BucketIndex
      /\ b \in Occupied(m) => Matches(m, b, slot, v.key)
  BY <1>1, BucketFor DEF HasBucket
<1>3. w = Inserted(m, slot, v)
  BY <1>1 DEF Inserted
<1>4. PICK o, n, l, z : /\ o = HoleAt(m, b) /\ n = HoleSize(m, b)
                        /\ l = Len(m.data) /\ z = RecordSize(v)
  OBVIOUS
<1>5. Len(w.data) = l - n + z
  BY <1>1, <1>2, <1>4, InsertedData
<1>6. w.count = m.count + (IF b \in Occupied(m) THEN 0 ELSE 1)
  BY <1>1, <1>2, InsertedShape
<1>7. CASE b \in Occupied(m)
  <2>1. r = RecordAt(m, b).v
    BY <1>2, <1>7, LookupIs
  <2>2. r \in Version /\ n = RecordSize(r)
    BY <1>4, <1>7, <2>1, RecordOf DEF HoleSize
  <2>3. r # NoVersion
    BY <2>2 DEF Version, NoVersion
  <2> QED
    BY <1>3, <1>4, <1>5, <1>6, <1>7, <2>2, <2>3
<1>8. CASE b \notin Occupied(m)
  <2>1. r = NoVersion
    BY <1>1, <1>8 DEF LookupMemtable, VersionIn
  <2>2. n = 0
    BY <1>4, <1>8 DEF HoleSize
  <2> QED
    BY <1>3, <1>4, <1>5, <1>6, <1>8, <2>1, <2>2
<1> QED
  BY <1>7, <1>8

\* A name has a bucket as long as it is in the memtable or the index has a
\* vacant bucket: it is enough to count the records.
THEOREM BucketIsCounted ==
    ASSUME NEW m, Sound(m), NEW slot \in NamespaceSlots, NEW key \in Keys,
           m.count < Buckets \/ LookupMemtable(m, slot, key) # NoVersion
    PROVE  HasBucket(m, slot, key)
<1>1. CASE LookupMemtable(m, slot, key) # NoVersion
  <2>1. Find(m, slot, key) \in BucketIndex
    BY <1>1, LookupIs DEF Matches, Occupied
  <2> QED
    BY <2>1, BucketsAssumption DEF HasBucket, NoBucket, BucketIndex
<1>2. CASE m.count < Buckets
  <2>1. Occupied(m) # BucketIndex
    <3>1. Cardinality(BucketIndex) = Buckets
      BY FS_Interval, BucketsAssumption DEF BucketIndex
    <3>2. m.count = Cardinality(Occupied(m)) /\ m.count \in Nat
      BY SoundTypes DEF Sound, Indexed
    <3> QED
      BY <1>2, <3>1, <3>2, BucketsAssumption
  <2> QED
    BY <2>1, FindType, BucketsAssumption DEF HasBucket, NoBucket, BucketIndex
<1> QED
  BY <1>1, <1>2



-----------------------------------------------------------------------------
(* Loops                                                                   *)

\* What holds before the first turn of a loop, and after a turn if before it,
\* holds after every turn.
LEMMA EveryTurn ==
    ASSUME NEW L \in Nat, NEW S, 0 \in S, \A n \in 1 .. L : n - 1 \in S => n \in S
    PROVE  \A n \in 0 .. L : n \in S
<1> DEFINE T == {k \in 0 .. L : k \notin S}
<1>1. SUFFICES ASSUME T # {} PROVE FALSE
  OBVIOUS
<1>2. T \in SUBSET Nat
  OBVIOUS
<1>3. PICK x \in T : \A y \in T : x <= y
  BY <1>1, <1>2, LeastNatural
<1>4. x \in 1 .. L /\ x - 1 \in 0 .. L /\ ~ (x <= x - 1)
  <2>1. x # 0
    OBVIOUS
  <2>2. x \in 0 .. L
    OBVIOUS
  <2> QED
    BY <2>1, <2>2
<1>5. x - 1 \in S
  BY <1>3, <1>4
<1> QED
  BY <1>4, <1>5

\* What holds after the last turn, and before a turn if after it, always held.
LEMMA EarlierTurn ==
    ASSUME NEW L \in Nat, NEW S, L \in S, \A n \in 1 .. L : n \in S => n - 1 \in S
    PROVE  \A n \in 0 .. L : n \in S
<1> DEFINE R == {k \in 0 .. L : L - k \in S}
<1>1. 0 \in R
  OBVIOUS
<1>2. ASSUME NEW n \in 1 .. L, n - 1 \in R PROVE n \in R
  <2>1. L - (n - 1) \in S /\ L - (n - 1) \in 1 .. L /\ (L - (n - 1)) - 1 = L - n
    BY <1>2
  <2> QED
    BY <2>1
<1>3. \A n \in 0 .. L : n \in R
  <2> HIDE DEF R
  <2> QED
    BY <1>1, <1>2, EveryTurn
<1>4. ASSUME NEW n \in 0 .. L PROVE n \in S
  <2>1. L - n \in 0 .. L /\ L - (L - n) = n
    OBVIOUS
  <2> QED
    BY <1>3, <2>1
<1> QED
  BY <1>4

-----------------------------------------------------------------------------
(* Orders                                                                  *)

Rank(K, k) == Cardinality({l \in K : l <= k})

\* The rank of a number in a finite set is its place.
LEMMA RankIs ==
    ASSUME NEW K \in SUBSET Nat, IsFiniteSet(K)
    PROVE  /\ Cardinality(K) \in Nat
           /\ \A k \in K : Rank(K, k) \in 1 .. Cardinality(K)
           /\ \A k, l \in K : k < l => Rank(K, k) < Rank(K, l)
           /\ \A i \in 1 .. Cardinality(K) : \E k \in K : Rank(K, k) = i
<1> DEFINE n == Cardinality(K)
           f == [k \in K |-> Rank(K, k)]
<1>1. n \in Nat
  BY FS_CardinalityType
<1>2. ASSUME NEW k \in K
      PROVE  /\ IsFiniteSet({l \in K : l <= k})
             /\ Rank(K, k) \in 1 .. n
  <2>1. {l \in K : l <= k} \in SUBSET K
    OBVIOUS
  <2>2. IsFiniteSet({l \in K : l <= k}) /\ Cardinality({l \in K : l <= k}) <= n
    BY <2>1, FS_Subset
  <2>3. Cardinality({l \in K : l <= k}) \in Nat
    BY <2>2, FS_CardinalityType
  <2>4. k \in {l \in K : l <= k}
    OBVIOUS
  <2>5. Cardinality({l \in K : l <= k}) # 0
    BY <2>2, <2>4, FS_EmptySet
  <2> QED
    BY <1>1, <2>2, <2>3, <2>5 DEF Rank
<1>3. ASSUME NEW k \in K, NEW l \in K, k < l
      PROVE  Rank(K, k) < Rank(K, l)
  <2> DEFINE A == {j \in K : j <= k}
             B == {j \in K : j <= l}
  <2>1. A \in SUBSET B /\ l \in B /\ l \notin A
    <3>1. \A j \in K : j \in Nat
      OBVIOUS
    <3>2. k \in Nat /\ l \in Nat
      OBVIOUS
    <3>3. \A j \in K : j <= k => j <= l
      BY <1>3, <3>1, <3>2
    <3>4. l <= l /\ ~ (l <= k)
      BY <1>3, <3>2
    <3> QED
      BY <3>3, <3>4
  <2>2. IsFiniteSet(B) /\ Rank(K, k) = Cardinality(A) /\ Rank(K, l) = Cardinality(B)
    BY <1>2 DEF Rank
  <2>3. Rank(K, k) \in 1 .. n /\ Rank(K, l) \in 1 .. n
    BY <1>2
  <2> HIDE DEF A, B
  <2>4. Cardinality(A) <= Cardinality(B) /\ (Cardinality(B) = Cardinality(A) => B = A)
    BY <2>1, <2>2, FS_Subset
  <2>5. Cardinality(A) # Cardinality(B)
    BY <2>1, <2>4
  <2> HIDE DEF n
  <2> QED
    BY <1>1, <2>2, <2>3, <2>4, <2>5
<1>4. f \in Injection(K, 1 .. n)
  <2>1. f \in [K -> 1 .. n]
    BY <1>2
  <2>2. ASSUME NEW k \in K, NEW l \in K, f[k] = f[l] PROVE k = l
    <3>1. f[k] = Rank(K, k) /\ f[l] = Rank(K, l)
      OBVIOUS
    <3>2. Rank(K, k) = Rank(K, l) /\ Rank(K, k) \in 1 .. n
      BY <1>2, <2>2, <3>1
    <3>3. ~ (k < l) /\ ~ (l < k)
      BY <1>1, <1>3, <3>2
    <3>4. k \in Nat /\ l \in Nat
      OBVIOUS
    <3> QED
      BY <3>3, <3>4
  <2> QED
    BY <2>1, <2>2, Zenon DEF Injection, IsInjective
<1>5. IsFiniteSet(1 .. n) /\ Cardinality(1 .. n) = n
  BY <1>1, FS_Interval
<1>6. f \in Surjection(K, 1 .. n)
  BY <1>4, <1>5, FS_Injection
<1>7. \A i \in 1 .. n : \E k \in K : Rank(K, k) = i
  BY <1>6 DEF Surjection
<1> QED
  BY <1>1, <1>2, <1>3, <1>7

\* The numbers of a finite set, each in its place.
LEMMA AscendingIs ==
    ASSUME NEW K \in SUBSET Nat, IsFiniteSet(K)
    PROVE  /\ Cardinality(K) \in Nat
           /\ Ascending(K) \in Seq(K) /\ Len(Ascending(K)) = Cardinality(K)
           /\ \A i \in 1 .. Cardinality(K) :
                 Ascending(K)[i] \in K /\ Rank(K, Ascending(K)[i]) = i
<1> DEFINE n == Cardinality(K)
<1>1. n \in Nat /\ \A i \in 1 .. n : \E k \in K : Rank(K, k) = i
  BY RankIs
<1>2. Ascending(K) = [i \in 1 .. n |-> CHOOSE k \in K : Rank(K, k) = i]
  BY DEF Ascending, Rank
<1>3. ASSUME NEW i \in 1 .. n
      PROVE  Ascending(K)[i] \in K /\ Rank(K, Ascending(K)[i]) = i
  BY <1>1, <1>2
<1>4. Ascending(K) \in [1 .. n -> K]
  BY <1>2, <1>3
<1> QED
  BY <1>1, <1>3, <1>4

\* Versions in the order of their keys are the versions, one of each key.
LEMMA InKeyOrderIs ==
    ASSUME NEW S \in SUBSET Version, IsFiniteSet(S)
    PROVE  /\ InKeyOrder(S) \in Seq(S)
           /\ Len(InKeyOrder(S)) = Cardinality(KeysOf(S)) /\ Cardinality(KeysOf(S)) \in Nat
           /\ S # {} => Len(InKeyOrder(S)) # 0
<1> DEFINE K == KeysOf(S)
           n == Cardinality(K)
<1>1. K \in SUBSET Keys /\ K \in SUBSET Nat
  BY KeysAssumption DEF KeysOf, Version
<1>2. IsFiniteSet(K)
  BY <1>1, KeysAssumption, FS_Subset
<1>3. n \in Nat /\ \A i \in 1 .. n : Ascending(K)[i] \in K
  BY <1>1, <1>2, AscendingIs
<1>4. ASSUME NEW i \in 1 .. n
      PROVE  (CHOOSE v \in S : v.key = Ascending(K)[i]) \in S
  <2>1. \E v \in S : v.key = Ascending(K)[i]
    BY <1>3 DEF KeysOf
  <2> QED
    BY <2>1
<1>5. InKeyOrder(S) = [i \in 1 .. n |-> CHOOSE v \in S : v.key = Ascending(K)[i]]
  BY DEF InKeyOrder
<1>6. InKeyOrder(S) \in [1 .. n -> S]
  BY <1>4, <1>5
<1>7. S # {} => K # {}
  BY DEF KeysOf
<1>8. S # {} => n # 0
  BY <1>2, <1>7, FS_EmptySet
<1> QED
  BY <1>3, <1>6, <1>8

\* Max of a bounded set of naturals is its greatest element.
LEMMA MaxOfNaturals ==
    ASSUME NEW T \in SUBSET Nat, T # {}, NEW b \in Nat, \A x \in T : x <= b
    PROVE  Max(T) \in T /\ \A y \in T : y <= Max(T)
<1> DEFINE D == {b - x : x \in T}
<1>1. D \in SUBSET Nat /\ D # {}
  <2>1. ASSUME NEW x \in T PROVE b - x \in Nat
    <3>1. x \in Nat /\ x <= b
      OBVIOUS
    <3> QED
      BY <3>1
  <2> QED
    BY <2>1
<1>2. PICK d \in D : \A e \in D : d <= e
  BY <1>1, LeastNatural
<1>3. PICK x \in T : d = b - x
  BY <1>2
<1>4. ASSUME NEW y \in T PROVE x >= y
  <2>1. b - x <= b - y
    BY <1>2, <1>3
  <2>2. x \in Nat /\ y \in Nat
    OBVIOUS
  <2> QED
    BY <2>1, <2>2
<1>5. \E z \in T : \A y \in T : z >= y
  BY <1>4
<1>6. Max(T) \in T /\ \A y \in T : Max(T) >= y
  BY <1>5 DEF Max
<1>7. \A y \in T : y \in Nat
  OBVIOUS
<1> QED
  BY <1>6, <1>7

-----------------------------------------------------------------------------
(* Tables                                                                  *)

Blocks(S) == Seq(Seq(S) \ {<<>>})

Outputs(S) == [blocks : Blocks(S), block : Seq(S), used : Int, full : BOOLEAN]

\* A block that is finished joins the others.
LEMMA FinishBlockType ==
    ASSUME NEW S, NEW out \in Outputs(S)
    PROVE  FinishBlock(out) \in Outputs(S)
<1>1. out.blocks \in Blocks(S) /\ out.block \in Seq(S) /\ out.full \in BOOLEAN
  BY DEF Outputs
<1>2. CASE out.block = <<>>
  BY <1>2 DEF FinishBlock
<1>3. CASE out.block # <<>>
  <2>1. Append(out.blocks, out.block) \in Blocks(S)
    BY <1>1, <1>3 DEF Blocks
  <2>2. <<>> \in Seq(S) /\ 0 \in Int
    OBVIOUS
  <2>3. FinishBlock(out) = [blocks |-> Append(out.blocks, out.block), block |-> <<>>,
                            used |-> 0, full |-> out.full]
    BY <1>3 DEF FinishBlock
  <2> QED
    BY <1>1, <2>1, <2>2, <2>3 DEF Outputs
<1> QED
  BY <1>2, <1>3

\* An entry joins the output, which holds nothing but entries.
LEMMA AppendEntryType ==
    ASSUME NEW S \in SUBSET Version, NEW out \in Outputs(S), NEW v \in S
    PROVE  AppendEntry(out, v) \in Outputs(S)
<1> DEFINE o == IF out.block # <<>> /\ EncodedSize(v) > BlockSize - out.used
                THEN FinishBlock(out) ELSE out
<1>1. o \in Outputs(S)
  BY FinishBlockType
<1>2. EncodedSize(v) \in Int
  BY SizesAssumption DEF EncodedSize, Version
<1>3. AppendEntry(out, v) =
         IF o.block = <<>> /\ Len(o.blocks) >= TableBlocks
         THEN [blocks |-> o.blocks, block |-> o.block, used |-> o.used, full |-> TRUE]
         ELSE [blocks |-> o.blocks, block |-> Append(o.block, v),
               used |-> o.used + EncodedSize(v), full |-> o.full]
  BY DEF AppendEntry
<1> HIDE DEF o
<1>4. /\ o.blocks \in Blocks(S) /\ o.block \in Seq(S) /\ o.full \in BOOLEAN
      /\ o.used \in Int
  BY <1>1 DEF Outputs
<1>5. Append(o.block, v) \in Seq(S) /\ o.used + EncodedSize(v) \in Int
  BY <1>2, <1>4
<1> QED
  BY <1>3, <1>4, <1>5 DEF Outputs

\* Filling blocks with versions gives blocks of versions.
LEMMA FillingType ==
    ASSUME NEW S \in SUBSET Version, NEW s \in Seq(S), NEW n \in 0 .. Len(s)
    PROVE  Filling!Iterated(s, EmptyOutput, n) \in Outputs(S)
<1> DEFINE it(k) == Filling!Iterated(s, EmptyOutput, k)
           T == {k \in 0 .. Len(s) : it(k) \notin Outputs(S)}
<1>1. SUFFICES ASSUME T # {} PROVE FALSE
  OBVIOUS
<1>2. T \in SUBSET Nat
  OBVIOUS
<1>3. PICK x \in T : \A y \in T : x <= y
  BY <1>1, <1>2, LeastNatural
<1>4. CASE x = 0
  <2>1. it(0) = EmptyOutput
    BY Filling!IteratedTurns
  <2>2. EmptyOutput \in Outputs(S)
    <3>1. <<>> \in Seq(S) /\ <<>> \in Blocks(S)
      BY DEF Blocks
    <3> QED
      BY <3>1 DEF EmptyOutput, Outputs
  <2> QED
    BY <1>3, <1>4, <2>1, <2>2
<1>5. CASE x # 0
  <2>1. x - 1 \in Nat /\ x - 1 \notin T /\ x - 1 \in 0 .. Len(s) /\ (x - 1) + 1 = x /\ x \in 1 .. Len(s)
    BY <1>3, <1>5
  <2>2. it(x - 1) \in Outputs(S)
    BY <2>1
  <2>3. it(x) = FillTurn(s, it(x - 1), x)
    BY <2>1, Filling!IteratedTurns
  <2>4. s[x] \in S
    BY <2>1
  <2>5. it(x) \in Outputs(S)
    <3> HIDE DEF it
    <3> QED
      BY <2>2, <2>3, <2>4, AppendEntryType DEF FillTurn
  <2> QED
    BY <1>3, <2>5
<1> QED
  BY <1>4, <1>5

\* The table of versions has only versions, and not none.
LEMMA BuildTableType ==
    ASSUME NEW S \in SUBSET Version, NEW s \in Seq(S)
    PROVE  /\ BuildTable(s) \in Blocks(S)
           /\ TableSet(BuildTable(s)) \subseteq S
           /\ BuildTable(s) # <<>> => TableSet(BuildTable(s)) # {}
<1> DEFINE out == Filling!Iterated(s, EmptyOutput, Len(s))
           t == BuildTable(s)
<1>1. out \in Outputs(S)
  <2>1. Len(s) \in 0 .. Len(s)
    OBVIOUS
  <2> QED
    BY <2>1, FillingType
<1>2. t = IF out.full THEN <<>> ELSE FinishBlock(out).blocks
  BY DEF BuildTable, FinishTable
<1> HIDE DEF out, t
<1>3. t \in Blocks(S)
  <2>1. FinishBlock(out).blocks \in Blocks(S)
    BY <1>1, FinishBlockType DEF Outputs
  <2>2. <<>> \in Blocks(S)
    BY DEF Blocks
  <2> QED
    BY <1>2, <2>1, <2>2
<1>4. \A i \in DOMAIN t : t[i] \in Seq(S) /\ t[i] # <<>>
  BY <1>3 DEF Blocks
<1>5. TableSet(t) \subseteq S
  <2>1. \A i \in DOMAIN t : ToSet(t[i]) \subseteq S
    BY <1>4 DEF ToSet
  <2> QED
    BY <2>1 DEF TableSet
<1>6. ASSUME t # <<>> PROVE TableSet(t) # {}
  <2>1. 1 \in DOMAIN t
    BY <1>3, <1>6 DEF Blocks
  <2>2. 1 \in DOMAIN t[1]
    BY <1>4, <2>1
  <2>3. t[1][1] \in ToSet(t[1])
    BY <2>2 DEF ToSet
  <2> QED
    BY <2>1, <2>3 DEF TableSet
<1> QED
  BY <1>3, <1>5, <1>6 DEF t

-----------------------------------------------------------------------------
(* Versions                                                                *)

SequencesOf(S) == {v.seq : v \in S}

UpTo(S, b) == \A v \in S : v.seq <= b

\* The greatest sequence of versions up to a bound.
LEMMA GreatestIs ==
    ASSUME NEW S \in SUBSET Version, S # {}, NEW b \in Nat, UpTo(S, b),
           NEW x, x = Max(SequencesOf(S))
    PROVE  /\ x \in Nat /\ x <= b
           /\ \E v \in S : v.seq = x
           /\ UpTo(S, x)
<1>1. PICK T : T = {v.seq : v \in S}
  OBVIOUS
<1>2. \A v \in S : v.seq \in Nat
  BY DEF Version
<1>3. T \in SUBSET Nat /\ T # {} /\ \A y \in T : y <= b
  BY <1>1, <1>2 DEF UpTo
<1>4. Max(T) \in T /\ \A y \in T : y <= Max(T)
  BY <1>3, MaxOfNaturals
<1> QED
  BY <1>1, <1>3, <1>4 DEF SequencesOf, UpTo

\* Every key with a version has a newest one.
LEMMA NewestExists ==
    ASSUME NEW S \in SUBSET Version, NEW b \in Nat, UpTo(S, b), NEW w \in S
    PROVE  \E v \in NewestVersions(S) : v.key = w.key
<1>1. PICK T : T = {v \in S : v.key = w.key}
  OBVIOUS
<1>2. T \in SUBSET Version /\ T # {} /\ UpTo(T, b)
  BY <1>1 DEF UpTo
<1>3. PICK x : x = Max(SequencesOf(T))
  OBVIOUS
<1>4. PICK v \in T : v.seq = x
  BY <1>2, <1>3, GreatestIs
<1>5. UpTo(T, x)
  BY <1>2, <1>3, GreatestIs
<1>6. v \in NewestVersions(S) /\ v.key = w.key
  BY <1>1, <1>4, <1>5 DEF NewestVersions, UpTo
<1> QED
  BY <1>6

\* The newest version of a key is one of the newest versions.
LEMMA NewestUnique ==
    ASSUME NEW S \in SUBSET Version, Consistent(S), NEW v \in NewestVersions(S),
           NEW w \in NewestVersions(S), v.key = w.key
    PROVE  v = w
<1>1. v \in S /\ w \in S /\ v.seq <= w.seq /\ w.seq <= v.seq
  BY DEF NewestVersions
<1>2. v.seq \in Nat /\ w.seq \in Nat
  BY <1>1 DEF Version
<1>3. v.seq = w.seq
  BY <1>1, <1>2
<1> QED
  BY <1>1, <1>3 DEF Consistent

\* Versions of different keys in their order are in order, and are all of them.
LEMMA InKeyOrderSorted ==
    ASSUME NEW S \in SUBSET Version, \A v, w \in S : v.key = w.key => v = w
    PROVE  /\ InKeyOrder(S) \in Seq(Version) /\ InOrder(InKeyOrder(S))
           /\ ToSet(InKeyOrder(S)) = S
<1> DEFINE K == KeysOf(S)
           n == Cardinality(K)
           s == InKeyOrder(S)
<1>1. K \in SUBSET Keys /\ K \in SUBSET Nat
  BY KeysAssumption DEF KeysOf, Version
<1>2. IsFiniteSet(K)
  BY <1>1, KeysAssumption, FS_Subset
<1>3. /\ n \in Nat
      /\ \A i \in 1 .. n : Ascending(K)[i] \in K /\ Rank(K, Ascending(K)[i]) = i
  BY <1>1, <1>2, AscendingIs
<1>4. /\ \A k \in K : Rank(K, k) \in 1 .. n
      /\ \A k, l \in K : k < l => Rank(K, k) < Rank(K, l)
  BY <1>1, <1>2, RankIs
<1>5. s = [i \in 1 .. n |-> CHOOSE v \in S : v.key = Ascending(K)[i]]
  BY DEF InKeyOrder
<1> HIDE DEF s, n
<1>6. \A i \in 1 .. n : s[i] \in S /\ s[i].key = Ascending(K)[i]
  <2> TAKE i \in 1 .. n
  <2>1. \E v \in S : v.key = Ascending(K)[i]
    BY <1>3 DEF KeysOf
  <2> QED
    BY <1>5, <2>1
<1>7. s \in Seq(Version) /\ DOMAIN s = 1 .. n
  <2>1. s \in [1 .. n -> Version]
    BY <1>5, <1>6
  <2> QED
    BY <1>3, <2>1
<1> HIDE DEF K
<1>8. \A k, l \in K : Rank(K, k) < Rank(K, l) => k < l
  <2> SUFFICES ASSUME NEW k \in K, NEW l \in K, Rank(K, k) < Rank(K, l) PROVE k < l
    OBVIOUS
  <2>1. Rank(K, k) \in 1 .. n /\ Rank(K, l) \in 1 .. n /\ k \in Nat /\ l \in Nat
    BY <1>1, <1>4
  <2>2. ~ (l < k) /\ k # l
    <3>1. ~ (Rank(K, l) < Rank(K, k))
      BY <1>3, <2>1
    <3>2. Rank(K, k) # Rank(K, l)
      BY <1>3, <2>1
    <3> QED
      BY <1>4, <3>1, <3>2
  <2> QED
    BY <2>1, <2>2
<1>9. InOrder(s)
  <2> SUFFICES ASSUME NEW i \in 1 .. n, NEW j \in 1 .. n, i < j PROVE s[i].key < s[j].key
    BY <1>7 DEF InOrder
  <2>1. /\ Ascending(K)[i] \in K /\ Ascending(K)[j] \in K
        /\ Rank(K, Ascending(K)[i]) = i /\ Rank(K, Ascending(K)[j]) = j
    BY <1>3
  <2>2. Ascending(K)[i] < Ascending(K)[j]
    BY <1>8, <2>1
  <2> QED
    BY <1>6, <2>2
<1>10. ASSUME NEW v \in S PROVE v \in ToSet(s)
  <2>1. v.key \in K
    BY DEF K, KeysOf
  <2>2. PICK i : i = Rank(K, v.key)
    OBVIOUS
  <2>3. i \in 1 .. n
    BY <1>4, <2>1, <2>2
  <2>4. Ascending(K)[i] \in K /\ Rank(K, Ascending(K)[i]) = i
    BY <1>3, <2>3
  <2>5. Ascending(K)[i] = v.key
    <3>1. PICK k, l : k = Ascending(K)[i] /\ l = v.key
      OBVIOUS
    <3>2. k \in K /\ l \in K /\ Rank(K, k) = Rank(K, l) /\ k \in Nat /\ l \in Nat
      BY <1>1, <2>1, <2>2, <2>4, <3>1
    <3>3. Rank(K, k) \in Nat
      BY <1>3, <1>4, <3>2
    <3>4. ~ (k < l) /\ ~ (l < k)
      BY <1>4, <3>2, <3>3
    <3> QED
      BY <3>1, <3>2, <3>4
  <2>6. s[i] \in S /\ s[i].key = v.key
    BY <1>6, <2>3, <2>5
  <2>7. s[i] = v
    BY <2>6
  <2> QED
    BY <1>7, <2>3, <2>7 DEF ToSet
<1>11. \A v \in ToSet(s) : v \in S
  BY <1>6, <1>7 DEF ToSet
<1> QED
  BY <1>7, <1>9, <1>10, <1>11 DEF s

-----------------------------------------------------------------------------
(* Building a table                                                        *)

\* One version more at the end of a block.
LEMMA AppendVersion ==
    ASSUME NEW s \in Seq(Version), InOrder(s), NEW v \in Version,
           \A w \in ToSet(s) : w.key < v.key
    PROVE  /\ Append(s, v) \in Seq(Version) /\ Append(s, v) # <<>>
           /\ InOrder(Append(s, v)) /\ ToSet(Append(s, v)) = ToSet(s) \cup {v}
<1> DEFINE n == Len(s)
           u == Append(s, v)
<1>1. /\ n \in Nat /\ DOMAIN s = 1 .. n /\ u \in Seq(Version)
      /\ DOMAIN u = 1 .. n + 1 /\ u[n + 1] = v /\ \A i \in 1 .. n : u[i] = s[i]
  OBVIOUS
<1> HIDE DEF n, u
<1>2. ASSUME NEW i \in 1 .. n + 1, NEW j \in 1 .. n + 1, i < j PROVE u[i].key < u[j].key
  <2>1. i \in 1 .. n
    BY <1>1, <1>2
  <2>2. u[i] = s[i] /\ s[i] \in ToSet(s)
    BY <1>1, <2>1 DEF ToSet
  <2>3. CASE j = n + 1
    BY <1>1, <2>2, <2>3
  <2>4. CASE j \in 1 .. n
    BY <1>1, <1>2, <2>1, <2>2, <2>4 DEF InOrder
  <2> QED
    BY <1>1, <2>3, <2>4
<1>3. InOrder(u)
  BY <1>1, <1>2 DEF InOrder
<1>4. ToSet(u) = ToSet(s) \cup {v}
  <2>1. ASSUME NEW i \in 1 .. n + 1 PROVE u[i] \in ToSet(s) \cup {v}
    <3>1. CASE i \in 1 .. n
      BY <1>1, <3>1 DEF ToSet
    <3>2. CASE i = n + 1
      BY <1>1, <3>2
    <3> QED
      BY <1>1, <3>1, <3>2
  <2>2. ASSUME NEW i \in 1 .. n PROVE s[i] \in ToSet(u)
    <3>1. i \in 1 .. n + 1
      BY <1>1
    <3> QED
      BY <1>1, <3>1 DEF ToSet
  <2>3. n + 1 \in 1 .. n + 1
    BY <1>1
  <2>4. v \in ToSet(u)
    BY <1>1, <2>3 DEF ToSet
  <2> QED
    BY <1>1, <2>1, <2>2, <2>4 DEF ToSet
<1>5. u # <<>>
  BY <1>1
<1> QED
  BY <1>1, <1>3, <1>4, <1>5 DEF u

\* The versions of a block or table come before those of another.
Before(S, T) == \A v \in S, w \in T : v.key < w.key

\* One block more at the end of a table.
LEMMA AppendBlock ==
    ASSUME NEW t, Ordered(t), NEW s \in Seq(Version), s # <<>>, InOrder(s),
           Before(TableSet(t), ToSet(s))
    PROVE  /\ Ordered(Append(t, s)) /\ TableSet(Append(t, s)) = TableSet(t) \cup ToSet(s)
           /\ Len(Append(t, s)) = Len(t) + 1 /\ Len(t) \in Nat
<1> DEFINE n == Len(t)
           u == Append(t, s)
<1>1. t \in Seq(Seq(Version))
  BY DEF Ordered
<1>2. /\ n \in Nat /\ DOMAIN t = 1 .. n /\ u \in Seq(Seq(Version)) /\ Len(u) = n + 1
      /\ DOMAIN u = 1 .. n + 1 /\ u[n + 1] = s /\ \A i \in 1 .. n : u[i] = t[i]
  BY <1>1
<1> HIDE DEF n, u
<1>3. /\ \A i \in 1 .. n : t[i] # <<>> /\ InOrder(t[i])
      /\ \A i, j \in 1 .. n : i < j => Before(ToSet(t[i]), ToSet(t[j]))
  BY <1>2 DEF Ordered, Before
<1>4. \A i \in 1 .. n : ToSet(t[i]) \subseteq TableSet(t)
  BY <1>2 DEF TableSet
<1>5. \A i \in 1 .. n : Before(ToSet(t[i]), ToSet(s))
  BY <1>4 DEF Before
<1>6. \A i \in 1 .. n + 1 : i \in 1 .. n \/ i = n + 1
  BY <1>2
<1>7. \A i \in 1 .. n + 1 : u[i] # <<>> /\ InOrder(u[i])
  BY <1>2, <1>3, <1>6
<1>8. ASSUME NEW i \in 1 .. n + 1, NEW j \in 1 .. n + 1, i < j
      PROVE  Before(ToSet(u[i]), ToSet(u[j]))
  <2>1. i \in 1 .. n
    BY <1>2, <1>8
  <2>2. CASE j = n + 1
    BY <1>2, <1>5, <2>1, <2>2
  <2>3. CASE j \in 1 .. n
    BY <1>2, <1>3, <1>8, <2>1, <2>3
  <2> QED
    BY <1>6, <2>2, <2>3
<1>9. Ordered(u)
  BY <1>2, <1>7, <1>8 DEF Ordered, Before
<1>10. TableSet(u) = TableSet(t) \cup ToSet(s)
  <2>1. TableSet(u) = UNION {ToSet(u[i]) : i \in 1 .. n + 1}
    BY <1>2 DEF TableSet
  <2>2. TableSet(t) = UNION {ToSet(t[i]) : i \in 1 .. n}
    BY <1>2 DEF TableSet
  <2>3. n + 1 \in 1 .. n + 1 /\ \A i \in 1 .. n : i \in 1 .. n + 1
    BY <1>2
  <2>4. ASSUME NEW x, x \in TableSet(u) PROVE x \in TableSet(t) \cup ToSet(s)
    <3>1. PICK i \in 1 .. n + 1 : x \in ToSet(u[i])
      BY <2>1, <2>4
    <3>2. CASE i = n + 1
      BY <1>2, <3>1, <3>2
    <3>3. CASE i \in 1 .. n
      BY <1>2, <2>2, <3>1, <3>3
    <3> QED
      BY <1>6, <3>2, <3>3
  <2>5. ASSUME NEW x, x \in TableSet(t) PROVE x \in TableSet(u)
    <3>1. PICK i \in 1 .. n : x \in ToSet(t[i])
      BY <2>2, <2>5
    <3> QED
      BY <1>2, <2>1, <2>3, <3>1
  <2>6. \A x \in ToSet(s) : x \in TableSet(u)
    BY <1>2, <2>1, <2>3
  <2> QED
    BY <2>4, <2>5, <2>6
<1> QED
  BY <1>2, <1>9, <1>10 DEF n, u

\* The versions of a table that is being built, and how they lie in it.
OutSet(out) == TableSet(out.blocks) \cup ToSet(out.block)

OutWell(out) ==
    /\ Ordered(out.blocks) /\ Len(out.blocks) <= TableBlocks
    /\ out.block \in Seq(Version) /\ InOrder(out.block)
    /\ out.block # <<>> => Len(out.blocks) < TableBlocks
    /\ Before(TableSet(out.blocks), ToSet(out.block))

\* Nothing is in an empty block or table.
LEMMA EmptyIsWell ==
    /\ ToSet(<<>>) = {} /\ TableSet(<<>>) = {} /\ InOrder(<<>>) /\ Ordered(<<>>)
    /\ <<>> \in Seq(Version) /\ Len(<<>>) = 0
    /\ OutWell(EmptyOutput) /\ OutSet(EmptyOutput) = {}
<1>1. ToSet(<<>>) = {} /\ TableSet(<<>>) = {}
  BY DEF ToSet, TableSet
<1>2. InOrder(<<>>) /\ Ordered(<<>>)
  <2>1. <<>> \in Seq(Seq(Version)) /\ DOMAIN <<>> = {}
    OBVIOUS
  <2> QED
    BY <2>1 DEF InOrder, Ordered
<1>3. <<>> \in Seq(Version) /\ Len(<<>>) = 0
  OBVIOUS
<1>4. EmptyOutput.blocks = <<>> /\ EmptyOutput.block = <<>>
  BY DEF EmptyOutput
<1> QED
  BY <1>1, <1>2, <1>3, <1>4, TablesAssumption DEF OutWell, OutSet, Before

\* A block that is finished joins the others.
LEMMA FinishBlockWell ==
    ASSUME NEW out, OutWell(out), NEW f, f = FinishBlock(out)
    PROVE  /\ OutWell(f) /\ f.block = <<>> /\ f.full = out.full
           /\ TableSet(f.blocks) = OutSet(out) /\ OutSet(f) = OutSet(out)
           /\ out.block # <<>> => f.blocks # <<>>
<1>1. /\ Ordered(out.blocks) /\ Len(out.blocks) <= TableBlocks
      /\ out.block \in Seq(Version) /\ InOrder(out.block)
      /\ out.block # <<>> => Len(out.blocks) < TableBlocks
      /\ Before(TableSet(out.blocks), ToSet(out.block))
  BY DEF OutWell
<1>2. CASE out.block = <<>>
  BY <1>2, EmptyIsWell DEF FinishBlock, OutSet
<1>3. CASE out.block # <<>>
  <2>1. /\ f.blocks = Append(out.blocks, out.block) /\ f.block = <<>> /\ f.full = out.full
    BY <1>3 DEF FinishBlock
  <2>2. /\ Ordered(f.blocks) /\ TableSet(f.blocks) = TableSet(out.blocks) \cup ToSet(out.block)
        /\ Len(f.blocks) = Len(out.blocks) + 1 /\ Len(out.blocks) \in Nat
    BY <1>1, <1>3, <2>1, AppendBlock
  <2>3. Len(f.blocks) <= TableBlocks /\ f.blocks # <<>>
    <3>1. Len(f.blocks) # 0
      BY <2>2
    <3> QED
      BY <1>1, <1>3, <2>2, <3>1, TablesAssumption, EmptyIsWell
  <2>4. Before(TableSet(f.blocks), ToSet(f.block))
    BY <2>1, EmptyIsWell DEF Before
  <2> QED
    BY <2>1, <2>2, <2>3, <2>4, EmptyIsWell DEF OutWell, OutSet
<1> QED
  BY <1>2, <1>3

\* An entry that comes after the others joins them, or finds the table full.
LEMMA AppendEntryWell ==
    ASSUME NEW out, OutWell(out), out.full = FALSE, NEW v \in Version,
           Before(OutSet(out), {v}), NEW o, o = AppendEntry(out, v)
    PROVE  /\ OutWell(o) /\ o.full \in BOOLEAN
           /\ ~o.full => OutSet(o) = OutSet(out) \cup {v} /\ o.block # <<>>
           /\ o.full => OutSet(o) = OutSet(out) /\ o.blocks # <<>>
<1> DEFINE p == IF out.block # <<>> /\ EncodedSize(v) > BlockSize - out.used
                THEN FinishBlock(out) ELSE out
<1>1. OutWell(p) /\ p.full = FALSE /\ OutSet(p) = OutSet(out)
  BY FinishBlockWell
<1>2. o = IF p.block = <<>> /\ Len(p.blocks) >= TableBlocks
          THEN [blocks |-> p.blocks, block |-> p.block, used |-> p.used, full |-> TRUE]
          ELSE [blocks |-> p.blocks, block |-> Append(p.block, v),
                used |-> p.used + EncodedSize(v), full |-> p.full]
  BY DEF AppendEntry
<1> HIDE DEF p
<1>3. /\ Ordered(p.blocks) /\ Len(p.blocks) <= TableBlocks
      /\ p.block \in Seq(Version) /\ InOrder(p.block)
      /\ p.block # <<>> => Len(p.blocks) < TableBlocks
      /\ Before(TableSet(p.blocks), ToSet(p.block))
  BY <1>1 DEF OutWell
<1>4. CASE p.block = <<>> /\ Len(p.blocks) >= TableBlocks
  <2>1. o.blocks = p.blocks /\ o.block = p.block /\ o.full = TRUE
    BY <1>2, <1>4
  <2>2. p.blocks # <<>>
    BY <1>4, TablesAssumption, EmptyIsWell
  <2> QED
    BY <1>1, <1>3, <2>1, <2>2 DEF OutWell, OutSet
<1>5. CASE ~ (p.block = <<>> /\ Len(p.blocks) >= TableBlocks)
  <2>1. o.blocks = p.blocks /\ o.block = Append(p.block, v) /\ o.full = FALSE
    BY <1>1, <1>2, <1>5
  <2>2. Before(OutSet(p), {v})
    BY <1>1
  <2>3. \A w \in ToSet(p.block) : w.key < v.key
    BY <2>2 DEF Before, OutSet
  <2>4. /\ o.block \in Seq(Version) /\ o.block # <<>>
        /\ InOrder(o.block) /\ ToSet(o.block) = ToSet(p.block) \cup {v}
    BY <1>3, <2>1, <2>3, AppendVersion
  <2>5. Len(p.blocks) < TableBlocks
    <3>1. Len(p.blocks) \in Nat
      BY <1>3 DEF Ordered
    <3> QED
      BY <1>3, <1>5, <3>1, TablesAssumption
  <2>6. Before(TableSet(o.blocks), ToSet(o.block))
    BY <1>3, <2>1, <2>2, <2>4 DEF Before, OutSet
  <2>7. OutWell(o)
    BY <1>3, <2>1, <2>4, <2>5, <2>6 DEF OutWell
  <2>8. OutSet(o) = OutSet(p) \cup {v}
    BY <2>1, <2>4 DEF OutSet
  <2> QED
    BY <1>1, <2>1, <2>4, <2>7, <2>8
<1> QED
  BY <1>4, <1>5

\* The first versions of a sequence.
Firsts(s, n) == {s[i] : i \in 1 .. n}

\* A table that is filled with versions in order has those it was given.
LEMMA FillingWell ==
    ASSUME NEW s \in Seq(Version), InOrder(s), NEW n \in 0 .. Len(s),
           NEW out, out = Filling!Iterated(s, EmptyOutput, n)
    PROVE  /\ OutWell(out) /\ out.full \in BOOLEAN
           /\ ~out.full => OutSet(out) = Firsts(s, n) /\ (n # 0 => out.block # <<>>)
<1> DEFINE it(k) == Filling!Iterated(s, EmptyOutput, k)
           Good(o, k) ==
              /\ OutWell(o) /\ o.full \in BOOLEAN
              /\ ~o.full => OutSet(o) = Firsts(s, k) /\ (k # 0 => o.block # <<>>)
           S == {k \in 0 .. Len(s) : Good(it(k), k)}
<1>1. 0 \in S
  <2>1. it(0) = EmptyOutput
    BY Filling!IteratedTurns
  <2>2. Firsts(s, 0) = {}
    BY DEF Firsts
  <2>3. Good(EmptyOutput, 0)
    BY <2>2, EmptyIsWell DEF EmptyOutput
  <2> HIDE DEF it, Good
  <2> QED
    BY <2>1, <2>3
<1>2. ASSUME NEW k \in 1 .. Len(s), k - 1 \in S PROVE k \in S
  <2>1. k - 1 \in Nat /\ (k - 1) + 1 = k /\ s[k] \in Version /\ k \in 0 .. Len(s)
    OBVIOUS
  <2>2. it(k) = FillTurn(s, it(k - 1), k)
    BY <2>1, Filling!IteratedTurns
  <2>3. Good(it(k - 1), k - 1)
    BY <1>2
  <2> HIDE DEF it
  <2>4. CASE it(k - 1).full
    <3>1. it(k) = it(k - 1)
      BY <2>2, <2>4 DEF FillTurn
    <3>2. Good(it(k), k)
      BY <2>3, <2>4, <3>1
    <3> QED
      BY <2>1, <3>2
  <2>5. CASE ~it(k - 1).full
    <3>1. it(k) = AppendEntry(it(k - 1), s[k])
      BY <2>2, <2>5 DEF FillTurn
    <3>2. OutWell(it(k - 1)) /\ it(k - 1).full = FALSE /\ OutSet(it(k - 1)) = Firsts(s, k - 1)
      BY <2>3, <2>5
    <3>3. Before(Firsts(s, k - 1), {s[k]})
      <4>1. \A i \in 1 .. k - 1 : i \in DOMAIN s /\ k \in DOMAIN s /\ i < k
        OBVIOUS
      <4> QED
        BY <4>1 DEF Firsts, Before, InOrder
    <3>4. Before(OutSet(it(k - 1)), {s[k]})
      BY <3>2, <3>3
    <3>5. PICK o : o = it(k)
      OBVIOUS
    <3>6. PICK p : p = it(k - 1)
      OBVIOUS
    <3>7. /\ OutWell(o) /\ o.full \in BOOLEAN
          /\ ~o.full => OutSet(o) = OutSet(p) \cup {s[k]} /\ o.block # <<>>
      BY <2>1, <3>1, <3>2, <3>4, <3>5, <3>6, AppendEntryWell
    <3>8. Firsts(s, k - 1) \cup {s[k]} = Firsts(s, k)
      <4>1. 1 .. k = (1 .. k - 1) \cup {k}
        OBVIOUS
      <4> QED
        BY <4>1 DEF Firsts
    <3>9. Good(it(k), k)
      BY <3>2, <3>5, <3>6, <3>7, <3>8
    <3> QED
      BY <2>1, <3>9
  <2> QED
    BY <2>4, <2>5
<1>3. \A k \in 0 .. Len(s) : k \in S
  <2> HIDE DEF S
  <2>1. Len(s) \in Nat
    OBVIOUS
  <2> QED
    BY <1>1, <1>2, <2>1, EveryTurn
<1>4. n \in S
  BY <1>3
<1> QED
  BY <1>4

\* The table of versions in order has them all, each in its place.
LEMMA BuildTableWell ==
    ASSUME NEW s \in Seq(Version), InOrder(s), s # <<>>, NEW t, t = BuildTable(s), t # <<>>
    PROVE  TableWell(t) /\ TableSet(t) = ToSet(s)
<1>1. Len(s) \in 0 .. Len(s) /\ Len(s) # 0 /\ Firsts(s, Len(s)) = ToSet(s)
  BY DEF Firsts, ToSet
<1>2. PICK out : out = Filling!Iterated(s, EmptyOutput, Len(s))
  OBVIOUS
<1>3. /\ OutWell(out) /\ out.full \in BOOLEAN
      /\ ~out.full => OutSet(out) = Firsts(s, Len(s))
  BY <1>1, <1>2, FillingWell
<1>4. ~out.full /\ t = FinishBlock(out).blocks
  BY <1>2 DEF BuildTable, FinishTable
<1>5. PICK f : f = FinishBlock(out)
  OBVIOUS
<1>6. OutWell(f) /\ TableSet(f.blocks) = OutSet(out)
  BY <1>3, <1>5, FinishBlockWell
<1>7. Ordered(t) /\ Len(t) <= TableBlocks
  BY <1>4, <1>5, <1>6 DEF OutWell
<1>8. Len(t) \in Nat /\ Len(t) # 0
  BY <1>7 DEF Ordered
<1> QED
  BY <1>1, <1>3, <1>4, <1>5, <1>6, <1>7, <1>8, TablesAssumption DEF TableWell

-----------------------------------------------------------------------------
(* Looking up a key                                                        *)

\* Keys and sequences are numbers.
LEMMA VersionIs ==
    \A v \in Version : v.key \in Keys /\ v.key \in Nat /\ v.seq \in Nat /\ v.seq # 0
BY KeysAssumption DEF Version

\* Blocks in a table, and versions in a block, are sorted by key.
LEMMA BlocksAre ==
    ASSUME NEW t, TableWell(t)
    PROVE  /\ Len(t) \in Nat /\ Len(t) # 0 /\ DOMAIN t = 1 .. Len(t)
           /\ \A i \in 1 .. Len(t) :
                 /\ t[i] \in Seq(Version) /\ Len(t[i]) \in Nat /\ Len(t[i]) # 0
                 /\ DOMAIN t[i] = 1 .. Len(t[i])
                 /\ ToSet(t[i]) \subseteq TableSet(t)
                 /\ \A v \in ToSet(t[i]) :
                       /\ v \in Version
                       /\ Head(t[i]).key <= v.key /\ v.key <= Last(t[i]).key
                 /\ \A v, w \in ToSet(t[i]) : v.key = w.key => v = w
                 /\ Head(t[i]) \in ToSet(t[i]) /\ Last(t[i]) \in ToSet(t[i])
           /\ \A i, j \in 1 .. Len(t) : i < j => Before(ToSet(t[i]), ToSet(t[j]))
           /\ \A v \in TableSet(t) : \E i \in 1 .. Len(t) : v \in ToSet(t[i])
<1>1. t \in Seq(Seq(Version)) /\ Len(t) \in Nat /\ Len(t) # 0 /\ DOMAIN t = 1 .. Len(t)
  <2>1. t \in Seq(Seq(Version)) /\ Len(t) \in 1 .. TableBlocks
    BY DEF TableWell, Ordered
  <2> QED
    BY <2>1
<1>2. /\ \A i \in 1 .. Len(t) : t[i] # <<>> /\ InOrder(t[i])
      /\ \A i, j \in 1 .. Len(t) : i < j => Before(ToSet(t[i]), ToSet(t[j]))
  BY <1>1 DEF TableWell, Ordered, Before
<1>3. /\ \A i \in 1 .. Len(t) : ToSet(t[i]) \subseteq TableSet(t)
      /\ \A v \in TableSet(t) : \E i \in 1 .. Len(t) : v \in ToSet(t[i])
  BY <1>1 DEF TableSet
<1>4. ASSUME NEW i \in 1 .. Len(t)
      PROVE  /\ t[i] \in Seq(Version) /\ Len(t[i]) \in Nat /\ Len(t[i]) # 0
             /\ DOMAIN t[i] = 1 .. Len(t[i])
             /\ \A v \in ToSet(t[i]) :
                   /\ v \in Version
                   /\ Head(t[i]).key <= v.key /\ v.key <= Last(t[i]).key
             /\ \A v, w \in ToSet(t[i]) : v.key = w.key => v = w
             /\ Head(t[i]) \in ToSet(t[i]) /\ Last(t[i]) \in ToSet(t[i])
  <2>1. PICK b : b = t[i]
    OBVIOUS
  <2>2. b \in Seq(Version) /\ b # <<>> /\ InOrder(b)
    BY <1>1, <1>2, <2>1
  <2>3. PICK n : n = Len(b)
    OBVIOUS
  <2>4. n \in Nat /\ n # 0 /\ DOMAIN b = 1 .. n
    BY <2>2, <2>3
  <2>5. Head(b) = b[1] /\ Last(b) = b[n] /\ 1 \in 1 .. n /\ n \in 1 .. n
    BY <2>2, <2>3, <2>4 DEF Last
  <2>6. \A j \in 1 .. n : b[j] \in Version /\ b[j].key \in Nat
    BY <2>2, <2>4, VersionIs
  <2>7. \A j, k \in 1 .. n : j < k => b[j].key < b[k].key
    BY <2>2, <2>4 DEF InOrder
  <2>8. ASSUME NEW j \in 1 .. n PROVE b[1].key <= b[j].key /\ b[j].key <= b[n].key
    <3>1. (j = 1 \/ 1 < j) /\ (j = n \/ j < n)
      BY <2>4
    <3> QED
      BY <2>5, <2>6, <2>7, <3>1
  <2>9. ASSUME NEW j \in 1 .. n, NEW k \in 1 .. n, b[j].key = b[k].key PROVE b[j] = b[k]
    <3>1. j = k \/ j < k \/ k < j
      BY <2>4
    <3> QED
      BY <2>6, <2>7, <2>9, <3>1
  <2>10. ToSet(b) = {b[j] : j \in 1 .. n}
    BY <2>4 DEF ToSet
  <2>11. \A v \in ToSet(b) : v \in Version /\ b[1].key <= v.key /\ v.key <= b[n].key
    BY <2>6, <2>8, <2>10
  <2>12. \A v, w \in ToSet(b) : v.key = w.key => v = w
    BY <2>9, <2>10
  <2> QED
    BY <2>1, <2>2, <2>3, <2>4, <2>5, <2>10, <2>11, <2>12
<1> QED
  BY <1>1, <1>2, <1>3, <1>4

\* A table has versions between its least and its greatest key, one of a key.
LEMMA TableIs ==
    ASSUME NEW t, TableWell(t)
    PROVE  /\ TableSet(t) \in SUBSET Version /\ TableSet(t) # {}
           /\ \A v \in TableSet(t) : MinKey(t) <= v.key /\ v.key <= MaxKey(t)
           /\ \A v, w \in TableSet(t) : v.key = w.key => v = w
<1> DEFINE n == Len(t)
<1>1. n \in Nat /\ n # 0 /\ DOMAIN t = 1 .. n /\ 1 \in 1 .. n /\ n \in 1 .. n
  BY BlocksAre
<1>2. Head(t) = t[1] /\ Last(t) = t[n]
  <2>1. t \in Seq(Seq(Version))
    BY DEF TableWell, Ordered
  <2> QED
    BY <1>1, <2>1 DEF Last
<1>3. MinKey(t) = Head(t[1]).key /\ MaxKey(t) = Last(t[n]).key
  BY <1>2 DEF MinKey, MaxKey
<1> HIDE DEF n
<1>4. /\ \A i \in 1 .. n :
            /\ ToSet(t[i]) \subseteq TableSet(t)
            /\ \A v \in ToSet(t[i]) :
                  /\ v \in Version
                  /\ Head(t[i]).key <= v.key /\ v.key <= Last(t[i]).key
            /\ \A v, w \in ToSet(t[i]) : v.key = w.key => v = w
            /\ Head(t[i]) \in ToSet(t[i]) /\ Last(t[i]) \in ToSet(t[i])
      /\ \A i, j \in 1 .. n : i < j => Before(ToSet(t[i]), ToSet(t[j]))
      /\ \A v \in TableSet(t) : \E i \in 1 .. n : v \in ToSet(t[i])
  BY BlocksAre DEF n
<1>5. TableSet(t) \in SUBSET Version /\ TableSet(t) # {}
  BY <1>1, <1>4
<1>6. ASSUME NEW v \in TableSet(t) PROVE MinKey(t) <= v.key /\ v.key <= MaxKey(t)
  <2>1. PICK i \in 1 .. n : v \in ToSet(t[i])
    BY <1>4
  <2>2. PICK a, b : a = Head(t[1]) /\ b = Last(t[n])
    OBVIOUS
  <2>3. a \in ToSet(t[1]) /\ b \in ToSet(t[n])
    BY <1>1, <1>4, <2>2
  <2>4. a \in Version /\ b \in Version /\ v \in Version
    BY <1>1, <1>4, <1>5, <2>3
  <2>5. a.key \in Nat /\ b.key \in Nat /\ v.key \in Nat
    BY <2>4, VersionIs
  <2>6. a.key <= v.key
    <3>1. CASE i = 1
      BY <1>4, <2>1, <2>2, <3>1
    <3>2. CASE 1 < i
      <4>1. a.key < v.key
        BY <1>1, <1>4, <2>1, <2>3, <3>2 DEF Before
      <4> QED
        BY <2>5, <4>1
    <3> QED
      BY <1>1, <3>1, <3>2
  <2>7. v.key <= b.key
    <3>1. CASE i = n
      BY <1>4, <2>1, <2>2, <3>1
    <3>2. CASE i < n
      <4>1. v.key < b.key
        BY <1>1, <1>4, <2>1, <2>3, <3>2 DEF Before
      <4> QED
        BY <2>5, <4>1
    <3> QED
      BY <1>1, <3>1, <3>2
  <2> QED
    BY <1>3, <2>2, <2>6, <2>7
<1>7. ASSUME NEW v \in TableSet(t), NEW w \in TableSet(t), v.key = w.key PROVE v = w
  <2>1. PICK i \in 1 .. n : v \in ToSet(t[i])
    BY <1>4
  <2>2. PICK j \in 1 .. n : w \in ToSet(t[j])
    BY <1>4
  <2>3. v.key \in Nat /\ w.key \in Nat
    BY <1>5, VersionIs
  <2>4. ~ (i < j) /\ ~ (j < i)
    <3>1. i < j => v.key < w.key
      BY <1>4, <2>1, <2>2 DEF Before
    <3>2. j < i => w.key < v.key
      BY <1>4, <2>1, <2>2 DEF Before
    <3> QED
      BY <1>7, <2>3, <3>1, <3>2
  <2>5. i = j
    BY <1>1, <2>4
  <2> QED
    BY <1>4, <1>7, <2>1, <2>2, <2>5
<1> QED
  BY <1>5, <1>6, <1>7

\* lookup_table_unsafe() finds the version of the key, if there is one.
LEMMA LookupTableIs ==
    ASSUME NEW t, TableWell(t), NEW key \in Keys, NEW r, r = LookupTable(t, key)
    PROVE  /\ \A v \in TableSet(t) : v.key = key => r = v
           /\ r = NoVersion \/ (r \in TableSet(t) /\ r.key = key)
<1> DEFINE starts == {i \in DOMAIN t : Head(t[i]).key <= key}
           hits   == {v \in ToSet(t[Max(starts)]) : v.key = key}
<1>1. r = IF starts = {} \/ hits = {} THEN NoVersion ELSE CHOOSE v \in hits : TRUE
  BY DEF LookupTable
<1>2. Len(t) \in Nat /\ DOMAIN t = 1 .. Len(t) /\ key \in Nat
  BY BlocksAre, KeysAssumption
<1>3. /\ \A i \in 1 .. Len(t) :
            /\ ToSet(t[i]) \subseteq TableSet(t)
            /\ \A v \in ToSet(t[i]) : v \in Version /\ Head(t[i]).key <= v.key
            /\ \A v, w \in ToSet(t[i]) : v.key = w.key => v = w
            /\ Head(t[i]) \in ToSet(t[i])
      /\ \A i, j \in 1 .. Len(t) : i < j => Before(ToSet(t[i]), ToSet(t[j]))
      /\ \A v \in TableSet(t) : \E i \in 1 .. Len(t) : v \in ToSet(t[i])
  BY BlocksAre
<1>4. starts # {} => Max(starts) \in starts /\ \A i \in starts : i <= Max(starts)
  <2> SUFFICES ASSUME starts # {}
               PROVE  Max(starts) \in starts /\ \A i \in starts : i <= Max(starts)
    OBVIOUS
  <2>1. starts \in SUBSET Nat /\ \A i \in starts : i <= Len(t)
    BY <1>2
  <2> HIDE DEF starts
  <2> QED
    BY <1>2, <2>1, MaxOfNaturals
<1>5. ASSUME NEW v \in TableSet(t), v.key = key PROVE starts # {} /\ hits = {v}
  <2>1. PICK i \in 1 .. Len(t) : v \in ToSet(t[i])
    BY <1>3
  <2>2. i \in starts
    BY <1>2, <1>3, <1>5, <2>1
  <2>3. PICK m : m = Max(starts)
    OBVIOUS
  <2>4. m \in 1 .. Len(t) /\ Head(t[m]).key <= key /\ i <= m
    BY <1>2, <1>4, <2>2, <2>3
  <2>5. ~ (i < m)
    <3> SUFFICES ASSUME i < m PROVE FALSE
      OBVIOUS
    <3>1. PICK w : w = Head(t[m])
      OBVIOUS
    <3>2. w \in ToSet(t[m]) /\ w \in Version
      BY <1>3, <2>4, <3>1
    <3>3. v.key < w.key
      BY <1>3, <2>1, <2>4, <3>2 DEF Before
    <3>4. w.key \in Nat
      BY <3>2, VersionIs
    <3> QED
      BY <1>2, <1>5, <2>4, <3>1, <3>3, <3>4
  <2>6. m = i
    BY <1>2, <2>4, <2>5
  <2>7. hits = {v}
    <3>1. hits = {w \in ToSet(t[i]) : w.key = key}
      BY <2>3, <2>6
    <3>2. \A w \in ToSet(t[i]) : w.key = key => w = v
      BY <1>3, <1>5, <2>1
    <3> HIDE DEF hits
    <3> QED
      BY <1>5, <2>1, <3>1, <3>2
  <2> QED
    BY <2>2, <2>7
<1>6. ASSUME starts # {} PROVE \A v \in hits : v \in TableSet(t) /\ v.key = key
  BY <1>2, <1>3, <1>4, <1>6
<1> HIDE DEF starts, hits
<1>7. \A v \in TableSet(t) : v.key = key => r = v
  BY <1>1, <1>5
<1>8. r = NoVersion \/ (r \in TableSet(t) /\ r.key = key)
  <2> SUFFICES ASSUME r # NoVersion PROVE r \in TableSet(t) /\ r.key = key
    OBVIOUS
  <2>1. starts # {} /\ hits # {}
    BY <1>1
  <2>2. r \in hits
    BY <1>1, <2>1
  <2> QED
    BY <1>6, <2>1, <2>2
<1> QED
  BY <1>7, <1>8

\* The sequence that table_metadata has is that of the newest version.
LEMMA MaxSequenceIs ==
    ASSUME NEW t, TableWell(t), NEW b \in Nat, UpTo(TableSet(t), b)
    PROVE  /\ MaxSequence(t) \in Nat /\ MaxSequence(t) <= b
           /\ UpTo(TableSet(t), MaxSequence(t))
           /\ \E v \in TableSet(t) : v.seq = MaxSequence(t)
<1>1. TableSet(t) \in SUBSET Version /\ TableSet(t) # {}
  BY TableIs
<1>2. MaxSequence(t) = Max(SequencesOf(TableSet(t)))
  BY DEF MaxSequence, SequencesOf
<1> QED
  BY <1>1, <1>2, GreatestIs

\* Where the versions of tables are.
LEMMA TablesAre ==
    ASSUME NEW tables, AllWell(tables)
    PROVE  /\ Len(tables) \in Nat /\ DOMAIN tables = 1 .. Len(tables)
           /\ \A i \in 1 .. Len(tables) :
                 TableWell(tables[i]) /\ TableSet(tables[i]) \subseteq AllVersions(tables)
           /\ \A v \in AllVersions(tables) : \E i \in 1 .. Len(tables) : v \in TableSet(tables[i])
           /\ AllVersions(tables) \in SUBSET Version
<1>1. /\ Len(tables) \in Nat /\ DOMAIN tables = 1 .. Len(tables)
      /\ \A i \in 1 .. Len(tables) : TableWell(tables[i])
  BY DEF AllWell
<1>2. \A i \in 1 .. Len(tables) : TableSet(tables[i]) \subseteq AllVersions(tables)
  BY <1>1 DEF AllVersions
<1>3. \A v \in AllVersions(tables) : \E i \in 1 .. Len(tables) : v \in TableSet(tables[i])
  BY <1>1 DEF AllVersions
<1>4. \A i \in 1 .. Len(tables) : TableSet(tables[i]) \in SUBSET Version
  BY <1>1, TableIs
<1> QED
  BY <1>1, <1>2, <1>3, <1>4

\* The tables of a bank, and where their versions are.
LEMMA BankIs ==
    ASSUME NEW tables, TablesWell(tables)
    PROVE  /\ Len(tables) \in Nat /\ DOMAIN tables = 1 .. Len(tables)
           /\ \A i \in 1 .. Len(tables) :
                 TableWell(tables[i]) /\ TableSet(tables[i]) \subseteq AllVersions(tables)
           /\ \A v \in AllVersions(tables) : \E i \in 1 .. Len(tables) : v \in TableSet(tables[i])
           /\ AllVersions(tables) \in SUBSET Version
BY TablesAre DEF TablesWell

\* The tables that lookup_tables_unsafe() looks into are those with the key.
LEMMA PlausibleIs ==
    ASSUME NEW tables, TablesWell(tables), NEW key \in Keys
    PROVE  /\ Plausible(tables, key) \subseteq 1 .. Len(tables)
           /\ \A i \in 1 .. Len(tables), v \in AllVersions(tables) :
                 v \in TableSet(tables[i]) /\ v.key = key => i \in Plausible(tables, key)
<1>1. DOMAIN tables = 1 .. Len(tables) /\ \A i \in 1 .. Len(tables) : TableWell(tables[i])
  BY BankIs
<1>2. Plausible(tables, key) \subseteq 1 .. Len(tables)
  BY <1>1 DEF Plausible
<1>3. ASSUME NEW i \in 1 .. Len(tables), NEW v \in TableSet(tables[i]), v.key = key
      PROVE  i \in Plausible(tables, key)
  <2>1. MinKey(tables[i]) <= key /\ key <= MaxKey(tables[i])
    BY <1>1, <1>3, TableIs
  <2>2. MayContain(tables[i], key)
    BY <1>3 DEF MayContain
  <2> QED
    BY <1>1, <2>1, <2>2 DEF Plausible
<1> QED
  BY <1>2, <1>3

\* No version of the key in a table is newer than s.
NoneNewer(t, key, s) == \A v \in TableSet(t) : v.key = key => v.seq <= s

\* After n passes: n tables were examined, or the others do not matter.
Probed(tables, key, r, n) ==
    /\ r.examined \subseteq Plausible(tables, key)
    /\ r.best = NoVersion \/ (r.best \in AllVersions(tables) /\ r.best.key = key)
    /\ \A i \in r.examined : NoneNewer(tables[i], key, r.best.seq)
    /\ \/ Cardinality(r.examined) = n
       \/ \A i \in Plausible(tables, key) : NoneNewer(tables[i], key, r.best.seq)

LEMMA ProbeTurnIs ==
    ASSUME NEW tables, TablesWell(tables), NEW b \in Nat, UpTo(AllVersions(tables), b),
           NEW key \in Keys, NEW n \in Nat, NEW r, Probed(tables, key, r, n),
           NEW q, q = ProbeTurn([tables |-> tables, key |-> key], r, n + 1)
    PROVE  Probed(tables, key, q, n + 1)
<1> DEFINE P == Plausible(tables, key)
           left == P \ r.examined
           greatest == Max({MaxSequence(tables[i]) : i \in left})
           slots == {i \in left : MaxSequence(tables[i]) = greatest}
           slot == Min(slots)
           v == LookupTable(tables[slot], key)
<1>1. q = IF left = {} \/ greatest < r.best.seq THEN r
          ELSE [best     |-> IF v.seq > r.best.seq THEN v ELSE r.best,
                examined |-> r.examined \cup {slot}]
  BY DEF ProbeTurn
<1>2. /\ Len(tables) \in Nat /\ P \subseteq 1 .. Len(tables)
      /\ \A i \in 1 .. Len(tables) :
            TableWell(tables[i]) /\ TableSet(tables[i]) \subseteq AllVersions(tables)
      /\ AllVersions(tables) \in SUBSET Version
  BY BankIs, PlausibleIs
<1>3. \A i \in P : UpTo(TableSet(tables[i]), b)
  BY <1>2 DEF UpTo
<1>4. \A i \in P : /\ MaxSequence(tables[i]) \in Nat /\ MaxSequence(tables[i]) <= b
                  /\ UpTo(TableSet(tables[i]), MaxSequence(tables[i]))
  BY <1>2, <1>3, MaxSequenceIs
<1>5. /\ r.examined \subseteq P
      /\ r.best = NoVersion \/ (r.best \in AllVersions(tables) /\ r.best.key = key)
      /\ \A i \in r.examined : NoneNewer(tables[i], key, r.best.seq)
      /\ \/ Cardinality(r.examined) = n
         \/ \A i \in P : NoneNewer(tables[i], key, r.best.seq)
  BY DEF Probed
<1>6. r.best.seq \in Nat
  BY <1>2, <1>5, VersionIs DEF NoVersion
<1> HIDE DEF P
<1>7. CASE left = {}
  <2>1. q = r /\ r.examined = P
    BY <1>1, <1>5, <1>7
  <2> QED
    BY <1>5, <2>1 DEF Probed, P
<1>8. left # {} => /\ greatest \in Nat /\ slots # {}
                  /\ \A i \in left : MaxSequence(tables[i]) <= greatest
  <2> SUFFICES ASSUME left # {}
               PROVE  /\ greatest \in Nat /\ slots # {}
                      /\ \A i \in left : MaxSequence(tables[i]) <= greatest
    OBVIOUS
  <2>1. PICK T : T = {MaxSequence(tables[i]) : i \in left}
    OBVIOUS
  <2>2. T \in SUBSET Nat /\ T # {} /\ \A x \in T : x <= b
    BY <1>4, <2>1
  <2>3. Max(T) \in T /\ \A y \in T : y <= Max(T)
    BY <2>2, MaxOfNaturals
  <2> QED
    BY <2>1, <2>2, <2>3
<1>9. CASE left # {} /\ greatest < r.best.seq
  <2>1. q = r
    BY <1>1, <1>9
  <2> HIDE DEF greatest
  <2>2. ASSUME NEW i \in P PROVE NoneNewer(tables[i], key, r.best.seq)
    <3>1. CASE i \in r.examined
      BY <1>5, <3>1
    <3>2. CASE i \notin r.examined
      <4>1. MaxSequence(tables[i]) <= greatest /\ greatest \in Nat
        BY <1>8, <1>9, <3>2
      <4>2. MaxSequence(tables[i]) <= r.best.seq /\ MaxSequence(tables[i]) \in Nat
        BY <1>4, <1>6, <1>9, <4>1
      <4>3. ASSUME NEW w \in TableSet(tables[i]) PROVE w.seq <= r.best.seq
        <5>1. w.seq <= MaxSequence(tables[i])
          BY <1>4 DEF UpTo
        <5>2. w.seq \in Nat
          BY <1>2, VersionIs
        <5> QED
          BY <1>6, <4>2, <5>1, <5>2
      <4> QED
        BY <4>3 DEF NoneNewer
    <3> QED
      BY <3>1, <3>2
  <2> QED
    BY <1>5, <2>1, <2>2 DEF Probed, P
<1>10. CASE left # {} /\ ~ (greatest < r.best.seq)
  <2>1. slots # {} /\ slots \in SUBSET Nat
    <3>1. slots # {}
      BY <1>8, <1>10
    <3>2. slots \in SUBSET P
      OBVIOUS
    <3> HIDE DEF slots
    <3> QED
      BY <1>2, <3>1, <3>2
  <2>2. slot \in slots
    <3> HIDE DEF slots
    <3> QED
      BY <2>1, MinOfNaturals
  <2>3. slot \in P /\ slot \notin r.examined
    <3> HIDE DEF slot
    <3> QED
      BY <2>2
  <2> HIDE DEF left, greatest, slots, slot, v
  <2>4. /\ q.best = (IF v.seq > r.best.seq THEN v ELSE r.best)
        /\ q.examined = r.examined \cup {slot}
    BY <1>1, <1>10
  <2>5. /\ \A w \in TableSet(tables[slot]) : w.key = key => v = w
        /\ v = NoVersion \/ (v \in TableSet(tables[slot]) /\ v.key = key)
    <3>1. TableWell(tables[slot])
      BY <1>2, <2>3
    <3>2. v = LookupTable(tables[slot], key)
      BY DEF v
    <3> QED
      BY <3>1, <3>2, LookupTableIs
  <2>6. v.seq \in Nat
    BY <1>2, <2>3, <2>5, VersionIs DEF NoVersion
  <2>7. q.best.seq \in Nat /\ r.best.seq <= q.best.seq /\ v.seq <= q.best.seq
    BY <1>6, <2>4, <2>6
  <2>8. q.best = NoVersion \/ (q.best \in AllVersions(tables) /\ q.best.key = key)
    BY <1>2, <1>5, <2>3, <2>4, <2>5
  <2>9. ASSUME NEW i \in P, NoneNewer(tables[i], key, r.best.seq)
        PROVE  NoneNewer(tables[i], key, q.best.seq)
    <3>1. \A w \in TableSet(tables[i]) : w.seq \in Nat
      BY <1>2, VersionIs
    <3> QED
      BY <1>6, <2>7, <2>9, <3>1 DEF NoneNewer
  <2>10. NoneNewer(tables[slot], key, q.best.seq)
    BY <2>5, <2>7 DEF NoneNewer
  <2>11. q.examined \subseteq P /\ \A i \in q.examined : NoneNewer(tables[i], key, q.best.seq)
    BY <1>5, <2>3, <2>4, <2>9, <2>10
  <2>12. \/ Cardinality(q.examined) = n + 1
         \/ \A i \in P : NoneNewer(tables[i], key, q.best.seq)
    <3>1. CASE Cardinality(r.examined) = n
      <4>1. IsFiniteSet(1 .. Len(tables))
        BY <1>2, FS_Interval
      <4>2. IsFiniteSet(r.examined)
        <5>1. r.examined \in SUBSET (1 .. Len(tables))
          BY <1>2, <1>5
        <5> QED
          BY <4>1, <5>1, FS_Subset
      <4>3. Cardinality(r.examined \cup {slot}) = Cardinality(r.examined) + 1
        BY <2>3, <4>2, FS_AddElement
      <4> QED
        BY <2>4, <3>1, <4>3
    <3>2. CASE \A i \in P : NoneNewer(tables[i], key, r.best.seq)
      BY <2>9, <3>2
    <3> QED
      BY <1>5, <3>1, <3>2
  <2> QED
    BY <2>8, <2>11, <2>12 DEF Probed, P
<1> QED
  BY <1>7, <1>9, <1>10

\* lookup_tables_unsafe() finds the newest version of the key, if there is one.
LEMMA LookupTablesIs ==
    ASSUME NEW tables, TablesWell(tables), NEW b \in Nat, UpTo(AllVersions(tables), b),
           NEW key \in Keys, NEW r, r = LookupTables(tables, key)
    PROVE  \/ r = NoVersion /\ key \notin KeysOf(AllVersions(tables))
           \/ r \in NewestVersions(AllVersions(tables)) /\ r.key = key
<1> DEFINE c == [tables |-> tables, key |-> key]
           start == [best |-> NoVersion, examined |-> {}]
           it(k) == Probing!Iterated(c, start, k)
           L == Len(tables)
           S == {k \in 0 .. L : Probed(tables, key, it(k), k)}
<1>1. /\ L \in Nat /\ AllVersions(tables) \in SUBSET Version
      /\ \A v \in AllVersions(tables) : \E i \in 1 .. L : v \in TableSet(tables[i])
  BY BankIs
<1>2. 0 \in S
  <2>1. it(0) = start
    BY Probing!IteratedTurns
  <2>2. start.examined = {} /\ start.best = NoVersion /\ Cardinality({}) = 0
    BY FS_EmptySet
  <2>3. Probed(tables, key, start, 0)
    BY <2>2 DEF Probed
  <2> HIDE DEF it, start
  <2> QED
    BY <1>1, <2>1, <2>3
<1>3. ASSUME NEW n \in 1 .. L, n - 1 \in S PROVE n \in S
  <2>1. n - 1 \in Nat /\ (n - 1) + 1 = n /\ n \in 0 .. L
    BY <1>1
  <2>2. PICK r0, q : r0 = it(n - 1) /\ q = it(n)
    OBVIOUS
  <2>3. q = ProbeTurn(c, r0, (n - 1) + 1)
    <3>1. it((n - 1) + 1) = ProbeTurn(c, it(n - 1), (n - 1) + 1)
      <4> HIDE DEF c, start
      <4> QED
        BY <2>1, Probing!IteratedTurns
    <3> HIDE DEF it
    <3> QED
      BY <2>1, <2>2, <3>1
  <2>4. Probed(tables, key, r0, n - 1)
    BY <1>3, <2>2
  <2>5. Probed(tables, key, q, (n - 1) + 1)
    BY <2>1, <2>3, <2>4, ProbeTurnIs
  <2>6. Probed(tables, key, it(n), n)
    BY <2>1, <2>2, <2>5
  <2> QED
    BY <2>1, <2>6
<1>4. L \in S
  <2> HIDE DEF S
  <2>1. \A k \in 0 .. L : k \in S
    BY <1>1, <1>2, <1>3, EveryTurn
  <2> QED
    BY <1>1, <2>1
<1>5. PICK q : q = it(L)
  OBVIOUS
<1>6. r = q.best /\ Probed(tables, key, q, L)
  BY <1>4, <1>5 DEF LookupTables
<1>7. Plausible(tables, key) \subseteq 1 .. L
  BY PlausibleIs
<1> HIDE DEF L, it, S
<1>8. ASSUME NEW i \in Plausible(tables, key) PROVE NoneNewer(tables[i], key, r.seq)
  <2>1. CASE Cardinality(q.examined) = L
    <3>1. IsFiniteSet(1 .. L) /\ Cardinality(1 .. L) = L
      BY <1>1, FS_Interval
    <3>2. q.examined \in SUBSET (1 .. L)
      BY <1>6, <1>7 DEF Probed
    <3>3. q.examined = 1 .. L
      BY <2>1, <3>1, <3>2, FS_Subset
    <3> QED
      BY <1>6, <1>7, <3>3 DEF Probed
  <2>2. CASE Cardinality(q.examined) # L
    BY <1>6, <2>2 DEF Probed
  <2> QED
    BY <2>1, <2>2
<1>9. ASSUME NEW v \in AllVersions(tables), v.key = key PROVE v.seq <= r.seq
  <2>1. PICK i \in 1 .. L : v \in TableSet(tables[i])
    BY <1>1
  <2>2. i \in Plausible(tables, key)
    BY <1>9, <2>1, PlausibleIs DEF L
  <2> QED
    BY <1>8, <1>9, <2>1, <2>2 DEF NoneNewer
<1>10. CASE r = NoVersion
  <2>1. r.seq = 0
    BY <1>10 DEF NoVersion
  <2>2. \A v \in AllVersions(tables) : v.seq \in Nat /\ v.seq # 0
    BY <1>1, VersionIs
  <2>3. \A v \in AllVersions(tables) : v.key # key
    BY <1>9, <2>1, <2>2
  <2> QED
    BY <1>10, <2>3 DEF KeysOf
<1>11. CASE r # NoVersion
  <2>1. r \in AllVersions(tables) /\ r.key = key
    BY <1>6, <1>11 DEF Probed
  <2> QED
    BY <1>9, <2>1 DEF NewestVersions
<1> QED
  BY <1>10, <1>11

-----------------------------------------------------------------------------
(* Reading a table                                                         *)

\* A block behind others.
LEMMA JoinVersions ==
    ASSUME NEW s \in Seq(Version), InOrder(s), NEW u \in Seq(Version), InOrder(u),
           Before(ToSet(s), ToSet(u))
    PROVE  /\ s \o u \in Seq(Version) /\ InOrder(s \o u)
           /\ ToSet(s \o u) = ToSet(s) \cup ToSet(u)
<1> DEFINE n == Len(s)
           m == Len(u)
           w == s \o u
<1>1. /\ n \in Nat /\ m \in Nat /\ DOMAIN s = 1 .. n /\ DOMAIN u = 1 .. m
      /\ w \in Seq(Version) /\ DOMAIN w = 1 .. n + m
      /\ \A i \in 1 .. n : w[i] = s[i]
      /\ \A i \in 1 .. m : w[n + i] = u[i]
  BY ExtendSequence
<1> HIDE DEF n, m, w
<1>2. \A i \in 1 .. n + m : i \in 1 .. n \/ (i - n \in 1 .. m /\ n + (i - n) = i)
  BY <1>1
<1>3. \A i \in 1 .. n + m : i - n \in 1 .. m /\ n + (i - n) = i => w[i] = u[i - n]
  <2> SUFFICES ASSUME NEW i \in 1 .. n + m, i - n \in 1 .. m, n + (i - n) = i
               PROVE  w[i] = u[i - n]
    OBVIOUS
  <2>1. PICK k : k = i - n
    OBVIOUS
  <2>2. k \in 1 .. m /\ n + k = i
    BY <2>1
  <2> QED
    BY <1>1, <2>1, <2>2
<1>4. \A i \in 1 .. n : s[i] \in ToSet(s)
  BY <1>1 DEF ToSet
<1>5. \A i \in 1 .. m : u[i] \in ToSet(u)
  BY <1>1 DEF ToSet
<1>6. ASSUME NEW i \in 1 .. n + m, NEW j \in 1 .. n + m, i < j PROVE w[i].key < w[j].key
  <2>1. CASE i \in 1 .. n /\ j \in 1 .. n
    BY <1>1, <1>6, <2>1 DEF InOrder
  <2>2. CASE i \in 1 .. n /\ j - n \in 1 .. m /\ n + (j - n) = j
    BY <1>1, <1>3, <1>4, <1>5, <2>2 DEF Before
  <2>3. CASE i - n \in 1 .. m /\ n + (i - n) = i /\ j - n \in 1 .. m /\ n + (j - n) = j
    <3>1. PICK k, l : k = i - n /\ l = j - n
      OBVIOUS
    <3>2. k \in 1 .. m /\ l \in 1 .. m /\ k < l
      BY <1>1, <1>6, <2>3, <3>1
    <3>3. w[i] = u[k] /\ w[j] = u[l]
      BY <1>3, <2>3, <3>1
    <3> QED
      BY <1>1, <3>2, <3>3 DEF InOrder
  <2>4. ~ (j \in 1 .. n /\ i - n \in 1 .. m)
    BY <1>1, <1>6
  <2> QED
    BY <1>2, <2>1, <2>2, <2>3, <2>4
<1>7. InOrder(w)
  BY <1>1, <1>6 DEF InOrder
<1>8. ToSet(w) = ToSet(s) \cup ToSet(u)
  <2>1. ASSUME NEW i \in 1 .. n + m PROVE w[i] \in ToSet(s) \cup ToSet(u)
    <3>1. CASE i \in 1 .. n
      BY <1>1, <1>4, <3>1
    <3>2. CASE i - n \in 1 .. m /\ n + (i - n) = i
      BY <1>3, <1>5, <3>2
    <3> QED
      BY <1>2, <3>1, <3>2
  <2>2. ASSUME NEW i \in 1 .. n PROVE s[i] \in ToSet(w)
    <3>1. i \in 1 .. n + m
      BY <1>1
    <3> QED
      BY <1>1, <3>1 DEF ToSet
  <2>3. ASSUME NEW i \in 1 .. m PROVE u[i] \in ToSet(w)
    <3>1. n + i \in 1 .. n + m
      BY <1>1
    <3> QED
      BY <1>1, <3>1 DEF ToSet
  <2> QED
    BY <1>1, <2>1, <2>2, <2>3 DEF ToSet
<1> QED
  BY <1>1, <1>7, <1>8 DEF w

\* The entries of a table are its versions in order.
LEMMA EntriesAre ==
    ASSUME NEW t, TableWell(t)
    PROVE  /\ Entries(t) \in Seq(Version) /\ InOrder(Entries(t))
           /\ ToSet(Entries(t)) = TableSet(t)
<1> DEFINE L == Len(t)
           it(k) == Reading!Iterated(t, <<>>, k)
           FirstBlocks(k) == UNION {ToSet(t[i]) : i \in 1 .. k}
           Good(s, k) == s \in Seq(Version) /\ InOrder(s) /\ ToSet(s) = FirstBlocks(k)
           S == {k \in 0 .. L : Good(it(k), k)}
<1>1. /\ L \in Nat /\ DOMAIN t = 1 .. L
      /\ \A i, j \in 1 .. L : i < j => Before(ToSet(t[i]), ToSet(t[j]))
      /\ \A i \in 1 .. L : t[i] \in Seq(Version)
  BY BlocksAre
<1>2. \A i \in 1 .. L : InOrder(t[i])
  BY <1>1 DEF TableWell, Ordered
<1>3. 0 \in S
  <2>1. it(0) = <<>>
    BY Reading!IteratedTurns
  <2>2. FirstBlocks(0) = {}
    OBVIOUS
  <2>3. Good(<<>>, 0)
    BY <2>2, EmptyIsWell
  <2> HIDE DEF it, Good
  <2> QED
    BY <1>1, <2>1, <2>3
<1>4. ASSUME NEW k \in 1 .. L, k - 1 \in S PROVE k \in S
  <2>1. k - 1 \in Nat /\ (k - 1) + 1 = k /\ k \in 0 .. L
    BY <1>1
  <2>2. it(k) = it(k - 1) \o t[k]
    <3>1. it(k) = BlockTurn(t, it(k - 1), k)
      BY <2>1, Reading!IteratedTurns
    <3> HIDE DEF it
    <3> QED
      BY <3>1 DEF BlockTurn
  <2>3. Good(it(k - 1), k - 1)
    BY <1>4
  <2> HIDE DEF it
  <2>4. Before(FirstBlocks(k - 1), ToSet(t[k]))
    <3>1. \A i \in 1 .. k - 1 : i \in 1 .. L /\ i < k
      BY <1>1
    <3> QED
      BY <1>1, <3>1 DEF Before
  <2>5. FirstBlocks(k) = FirstBlocks(k - 1) \cup ToSet(t[k])
    <3>1. 1 .. k = (1 .. k - 1) \cup {k}
      BY <1>1
    <3> QED
      BY <3>1
  <2>6. Good(it(k), k)
    BY <1>1, <1>2, <2>2, <2>3, <2>4, <2>5, JoinVersions
  <2> QED
    BY <2>1, <2>6
<1>5. L \in S
  <2> HIDE DEF S
  <2>1. \A k \in 0 .. L : k \in S
    BY <1>1, <1>3, <1>4, EveryTurn
  <2> QED
    BY <1>1, <2>1
<1>6. Entries(t) = it(L)
  BY DEF Entries
<1>7. FirstBlocks(L) = TableSet(t)
  BY <1>1 DEF TableSet
<1> HIDE DEF it, L
<1> QED
  BY <1>5, <1>6, <1>7

\* The place of a version in a sequence in order is the rank of its key.
LEMMA PlaceIsRank ==
    ASSUME NEW s \in Seq(Version), InOrder(s), NEW i \in 1 .. Len(s)
    PROVE  /\ Rank(KeysOf(ToSet(s)), s[i].key) = i
           /\ Cardinality(KeysOf(ToSet(s))) = Len(s)
<1> DEFINE n == Len(s)
           K == KeysOf(ToSet(s))
<1>1. n \in Nat /\ DOMAIN s = 1 .. n
  OBVIOUS
<1>2. \A j \in 1 .. n : s[j] \in Version /\ s[j].key \in Nat
  BY <1>1, VersionIs
<1>3. \A j, k \in 1 .. n : j < k => s[j].key < s[k].key
  BY <1>1 DEF InOrder
<1> HIDE DEF n
<1>4. K = {s[j].key : j \in 1 .. n}
  BY <1>1 DEF KeysOf, ToSet
<1> HIDE DEF K
<1>5. \A j, k \in 1 .. n : s[j].key = s[k].key => j = k
  <2> SUFFICES ASSUME NEW j \in 1 .. n, NEW k \in 1 .. n, s[j].key = s[k].key PROVE j = k
    OBVIOUS
  <2>1. ~ (j < k) /\ ~ (k < j)
    BY <1>2, <1>3
  <2> QED
    BY <1>1, <2>1
<1>6. ASSUME NEW k \in 0 .. n
      PROVE  Cardinality({s[j].key : j \in 1 .. k}) = k
  <2> DEFINE T == {s[j].key : j \in 1 .. k}
             f == [j \in 1 .. k |-> s[j].key]
  <2>1. k \in Nat /\ \A j \in 1 .. k : j \in 1 .. n
    BY <1>1
  <2>2. f \in Bijection(1 .. k, T)
    <3>1. f \in [1 .. k -> T]
      OBVIOUS
    <3>2. ASSUME NEW j \in 1 .. k, NEW l \in 1 .. k, f[j] = f[l] PROVE j = l
      <4>1. s[j].key = s[l].key
        BY <3>2
      <4> QED
        BY <1>5, <2>1, <4>1
    <3>3. f \in Injection(1 .. k, T)
      BY <3>1, <3>2, Zenon DEF Injection, IsInjective
    <3>4. \A x \in T : \E j \in 1 .. k : f[j] = x
      OBVIOUS
    <3>5. f \in Surjection(1 .. k, T)
      BY <3>1, <3>4, Zenon DEF Surjection
    <3> QED
      BY <3>3, <3>5 DEF Bijection
  <2> HIDE DEF T, f
  <2>3. ExistsBijection(1 .. k, T)
    BY <2>2, Zenon DEF ExistsBijection
  <2>4. Cardinality(T) = k
    BY <2>1, <2>3, FS_CountingElements
  <2> QED
    BY <2>4 DEF T
<1>7. {l \in K : l <= s[i].key} = {s[j].key : j \in 1 .. i}
  <2>1. i \in 1 .. n
    BY DEF n
  <2>2. ASSUME NEW j \in 1 .. n PROVE s[j].key <= s[i].key <=> j <= i
    <3>1. j = i \/ j < i \/ i < j
      BY <1>1, <2>1
    <3>2. s[j].key \in Nat /\ s[i].key \in Nat /\ j \in Nat /\ i \in Nat
      BY <1>1, <1>2, <2>1
    <3>3. j < i => s[j].key < s[i].key
      BY <1>3, <2>1
    <3>4. i < j => s[i].key < s[j].key
      BY <1>3, <2>1
    <3> QED
      BY <3>1, <3>2, <3>3, <3>4
  <2>3. \A j \in 1 .. i : j \in 1 .. n /\ j <= i
    BY <1>1, <2>1
  <2>4. \A j \in 1 .. n : j <= i => j \in 1 .. i
    BY <1>1
  <2> QED
    BY <1>4, <2>2, <2>3, <2>4
<1>8. i \in 0 .. n /\ n \in 0 .. n
  BY <1>1 DEF n
<1> QED
  BY <1>4, <1>6, <1>7, <1>8 DEF Rank, K, n

\* There is one sequence of versions in the order of their keys.
LEMMA OrderIsUnique ==
    ASSUME NEW s \in Seq(Version), InOrder(s)
    PROVE  s = InKeyOrder(ToSet(s))
<1> DEFINE S == ToSet(s)
           K == KeysOf(S)
           u == InKeyOrder(S)
           n == Len(s)
<1>1. n \in Nat /\ DOMAIN s = 1 .. n /\ S = {s[j] : j \in 1 .. n} /\ S \in SUBSET Version
  BY DEF ToSet
<1>2. \A i \in 1 .. n : Rank(K, s[i].key) = i /\ Cardinality(K) = n
  BY PlaceIsRank
<1>3. K \in SUBSET Keys /\ K \in SUBSET Nat
  BY <1>1, KeysAssumption DEF KeysOf, Version
<1>4. IsFiniteSet(K)
  BY <1>3, KeysAssumption, FS_Subset
<1>5. Cardinality(K) = n
  <2>1. CASE n = 0
    <3>1. K = {}
      BY <1>1, <2>1 DEF KeysOf
    <3> QED
      BY <2>1, <3>1, FS_EmptySet
  <2>2. CASE n # 0
    <3>1. 1 \in 1 .. n
      BY <1>1, <2>2
    <3> QED
      BY <1>2, <3>1
  <2> QED
    BY <2>1, <2>2
<1> HIDE DEF n
<1>6. /\ \A i \in 1 .. n : Ascending(K)[i] \in K /\ Rank(K, Ascending(K)[i]) = i
      /\ \A k, l \in K : k < l => Rank(K, k) < Rank(K, l)
      /\ \A k \in K : Rank(K, k) \in 1 .. n
  BY <1>3, <1>4, <1>5, AscendingIs, RankIs
<1>7. u = [i \in 1 .. n |-> CHOOSE v \in S : v.key = Ascending(K)[i]]
  BY <1>5 DEF InKeyOrder
<1>8. \A j, k \in 1 .. n : j < k => s[j].key < s[k].key
  BY <1>1 DEF InOrder
<1>9. \A v \in S : v.key \in K
  BY DEF KeysOf
<1> HIDE DEF S, K, u
<1>10. ASSUME NEW i \in 1 .. n PROVE u[i] = s[i]
  <2>1. s[i] \in S /\ s[i].key \in K /\ s[i].key \in Nat
    BY <1>1, <1>3, <1>9
  <2>2. Ascending(K)[i] = s[i].key
    <3>1. PICK k, l : k = Ascending(K)[i] /\ l = s[i].key
      OBVIOUS
    <3>2. k \in K /\ l \in K /\ Rank(K, k) = Rank(K, l) /\ k \in Nat /\ l \in Nat
      BY <1>2, <1>3, <1>6, <2>1, <3>1
    <3>3. Rank(K, k) \in Nat
      BY <1>1, <1>6, <3>2
    <3>4. ~ (k < l) /\ ~ (l < k)
      BY <1>6, <3>2, <3>3
    <3> QED
      BY <3>1, <3>2, <3>4
  <2>3. ASSUME NEW v \in S, v.key = s[i].key PROVE v = s[i]
    <3>1. PICK j \in 1 .. n : v = s[j]
      BY <1>1
    <3>2. Rank(K, s[j].key) = j /\ Rank(K, s[i].key) = i
      BY <1>2
    <3> QED
      BY <2>3, <3>1, <3>2
  <2>4. u[i] = CHOOSE v \in S : v.key = Ascending(K)[i]
    BY <1>7
  <2> QED
    BY <2>1, <2>2, <2>3, <2>4
<1>11. u = [i \in 1 .. n |-> s[i]]
  BY <1>7, <1>10
<1>12. s = [i \in 1 .. n |-> s[i]]
  BY <1>1
<1> QED
  BY <1>11, <1>12 DEF u, S

-----------------------------------------------------------------------------
(* Merging                                                                 *)

\* Each source has one version of a key.
SourcesWell(sources) ==
    /\ Len(sources) \in Nat /\ DOMAIN sources = 1 .. Len(sources)
    /\ \A i \in 1 .. Len(sources) :
          /\ ToSet(sources[i]) \in SUBSET Version
          /\ \A v, w \in ToSet(sources[i]) : v.key = w.key => v = w

SourceSet(sources) == UNION {ToSet(sources[i]) : i \in DOMAIN sources}

\* The newest of the versions of the key in the first n sources.
Chosen(sources, key, w, n) ==
    /\ w.best = NoVersion \/ (w.best \in SourceSet(sources) /\ w.best.key = key)
    /\ \A i \in 1 .. n : \A v \in ToSet(sources[i]) : v.key = key => v.seq <= w.best.seq

LEMMA WinnerTurnIs ==
    ASSUME NEW sources, SourcesWell(sources), NEW key, NEW n \in 1 .. Len(sources),
           NEW w, Chosen(sources, key, w, n - 1),
           NEW x, x = WinnerTurn([sources |-> sources, key |-> key], w, n)
    PROVE  Chosen(sources, key, x, n)
<1> DEFINE hits == {v \in ToSet(sources[n]) : v.key = key}
           v == CHOOSE y \in hits : TRUE
<1>1. x = IF hits = {} THEN w
          ELSE [best  |-> IF v.seq > w.best.seq THEN v ELSE w.best,
                twice |-> w.twice \/ v.seq = w.best.seq]
  BY DEF WinnerTurn
<1>2. /\ Len(sources) \in Nat /\ DOMAIN sources = 1 .. Len(sources)
      /\ \A i \in 1 .. Len(sources) :
            /\ ToSet(sources[i]) \in SUBSET Version
            /\ \A y, z \in ToSet(sources[i]) : y.key = z.key => y = z
  BY DEF SourcesWell
<1>3. \A i \in 1 .. Len(sources) : ToSet(sources[i]) \subseteq SourceSet(sources)
  BY <1>2 DEF SourceSet
<1>4. /\ w.best = NoVersion \/ (w.best \in SourceSet(sources) /\ w.best.key = key)
      /\ \A i \in 1 .. n - 1 :
            \A y \in ToSet(sources[i]) : y.key = key => y.seq <= w.best.seq
  BY DEF Chosen
<1>5. SourceSet(sources) \in SUBSET Version
  BY <1>2 DEF SourceSet
<1>6. w.best.seq \in Nat
  BY <1>4, <1>5, VersionIs DEF NoVersion
<1>7. \A i \in 1 .. n : i = n \/ i \in 1 .. n - 1
  BY <1>2
<1>8. CASE hits = {}
  <2>1. x = w
    BY <1>1, <1>8
  <2>2. \A y \in ToSet(sources[n]) : y.key # key
    BY <1>8
  <2>3. \A i \in 1 .. n : \A y \in ToSet(sources[i]) : y.key = key => y.seq <= w.best.seq
    BY <1>4, <1>7, <2>2
  <2> QED
    BY <1>4, <2>1, <2>3 DEF Chosen
<1>9. CASE hits # {}
  <2>1. v \in hits
    <3> HIDE DEF hits
    <3> QED
      BY <1>9
  <2>2. v \in ToSet(sources[n]) /\ v.key = key
    <3> HIDE DEF v
    <3> QED
      BY <2>1
  <2>3. x.best = IF v.seq > w.best.seq THEN v ELSE w.best
    <3> HIDE DEF v, hits
    <3> QED
      BY <1>1, <1>9
  <2> HIDE DEF v, hits
  <2>4. v \in SourceSet(sources) /\ v \in Version /\ v.seq \in Nat
    BY <1>2, <1>3, <2>2, VersionIs
  <2>5. /\ x.best = NoVersion \/ (x.best \in SourceSet(sources) /\ x.best.key = key)
        /\ x.best.seq \in Nat /\ w.best.seq <= x.best.seq /\ v.seq <= x.best.seq
    BY <1>4, <1>6, <2>2, <2>3, <2>4
  <2>6. ASSUME NEW i \in 1 .. n, NEW y \in ToSet(sources[i]), y.key = key
        PROVE  y.seq <= x.best.seq
    <3>1. CASE i = n
      <4>1. y = v
        BY <1>2, <2>2, <2>6, <3>1
      <4> QED
        BY <2>5, <4>1
    <3>2. CASE i \in 1 .. n - 1
      <4>1. y.seq <= w.best.seq
        BY <1>4, <2>6, <3>2
      <4>2. i \in 1 .. Len(sources)
        BY <1>2
      <4>3. y.seq \in Nat
        BY <1>2, <4>2, VersionIs
      <4> QED
        BY <1>6, <2>5, <4>1, <4>3
    <3> QED
      BY <1>7, <3>1, <3>2
  <2> QED
    BY <2>5, <2>6 DEF Chosen
<1> QED
  BY <1>8, <1>9

\* The winner of a key is its newest version in the sources.
LEMMA WinnerIs ==
    ASSUME NEW sources, SourcesWell(sources), NEW key,
           NEW r, r = Winner(sources, key).best
    PROVE  \/ r = NoVersion /\ key \notin KeysOf(SourceSet(sources))
           \/ r \in NewestVersions(SourceSet(sources)) /\ r.key = key
<1> DEFINE c == [sources |-> sources, key |-> key]
           start == [best |-> NoVersion, twice |-> FALSE]
           it(k) == Choosing!Iterated(c, start, k)
           L == Len(sources)
           S == {k \in 0 .. L : Chosen(sources, key, it(k), k)}
<1>1. /\ L \in Nat /\ DOMAIN sources = 1 .. L /\ SourceSet(sources) \in SUBSET Version
      /\ \A v \in SourceSet(sources) : \E i \in 1 .. L : v \in ToSet(sources[i])
  BY DEF SourcesWell, SourceSet
<1>2. 0 \in S
  <2>1. it(0) = start
    BY Choosing!IteratedTurns
  <2>2. Chosen(sources, key, start, 0)
    BY DEF Chosen
  <2> HIDE DEF it, start
  <2> QED
    BY <1>1, <2>1, <2>2
<1>3. ASSUME NEW n \in 1 .. L, n - 1 \in S PROVE n \in S
  <2>1. n - 1 \in Nat /\ (n - 1) + 1 = n /\ n \in 0 .. L
    BY <1>1
  <2>2. PICK w, x : w = it(n - 1) /\ x = it(n)
    OBVIOUS
  <2>3. x = WinnerTurn(c, w, n)
    <3>1. it((n - 1) + 1) = WinnerTurn(c, it(n - 1), (n - 1) + 1)
      <4> HIDE DEF c, start
      <4> QED
        BY <2>1, Choosing!IteratedTurns
    <3> HIDE DEF it
    <3> QED
      BY <2>1, <2>2, <3>1
  <2>4. Chosen(sources, key, w, n - 1)
    BY <1>3, <2>2
  <2>5. Chosen(sources, key, x, n)
    BY <2>3, <2>4, WinnerTurnIs
  <2>6. Chosen(sources, key, it(n), n)
    BY <2>2, <2>5
  <2> QED
    BY <2>1, <2>6
<1>4. L \in S
  <2> HIDE DEF S
  <2>1. \A k \in 0 .. L : k \in S
    BY <1>1, <1>2, <1>3, EveryTurn
  <2> QED
    BY <1>1, <2>1
<1>5. PICK w : w = it(L)
  OBVIOUS
<1>6. r = w.best /\ Chosen(sources, key, w, L)
  BY <1>4, <1>5 DEF Winner
<1> HIDE DEF L, it, S
<1>7. ASSUME NEW v \in SourceSet(sources), v.key = key PROVE v.seq <= r.seq
  <2>1. PICK i \in 1 .. L : v \in ToSet(sources[i])
    BY <1>1
  <2> QED
    BY <1>6, <1>7, <2>1 DEF Chosen
<1>8. CASE r = NoVersion
  <2>1. r.seq = 0
    BY <1>8 DEF NoVersion
  <2>2. \A v \in SourceSet(sources) : v.seq \in Nat /\ v.seq # 0
    BY <1>1, VersionIs
  <2>3. \A v \in SourceSet(sources) : v.key # key
    BY <1>7, <2>1, <2>2
  <2> QED
    BY <1>8, <2>3 DEF KeysOf
<1>9. CASE r # NoVersion
  <2>1. r \in SourceSet(sources) /\ r.key = key
    BY <1>6, <1>9 DEF Chosen
  <2> QED
    BY <1>7, <2>1 DEF NewestVersions
<1> QED
  BY <1>8, <1>9

\* One table more in a bank.
LEMMA AppendTable ==
    ASSUME NEW tables, AllWell(tables), NEW t, TableWell(t)
    PROVE  /\ AllWell(Append(tables, t)) /\ Len(Append(tables, t)) = Len(tables) + 1
           /\ AllVersions(Append(tables, t)) = AllVersions(tables) \cup TableSet(t)
<1> DEFINE n == Len(tables)
           u == Append(tables, t)
<1>1. /\ n \in Nat /\ DOMAIN tables = 1 .. n /\ u \in Seq(Seq(Seq(Version)))
      /\ Len(u) = n + 1 /\ DOMAIN u = 1 .. n + 1
      /\ u[n + 1] = t /\ \A i \in 1 .. n : u[i] = tables[i]
  <2>1. tables \in Seq(Seq(Seq(Version))) /\ t \in Seq(Seq(Version))
    BY DEF AllWell, TableWell, Ordered
  <2> QED
    BY <2>1
<1> HIDE DEF n, u
<1>2. \A i \in 1 .. n + 1 : i \in 1 .. n \/ i = n + 1
  BY <1>1
<1>3. \A i \in 1 .. n : TableWell(tables[i])
  BY <1>1 DEF AllWell
<1>4. AllWell(u)
  BY <1>1, <1>2, <1>3 DEF AllWell
<1>5. /\ AllVersions(u) = UNION {TableSet(u[i]) : i \in 1 .. n + 1}
      /\ AllVersions(tables) = UNION {TableSet(tables[i]) : i \in 1 .. n}
  BY <1>1 DEF AllVersions
<1>6. n + 1 \in 1 .. n + 1 /\ \A i \in 1 .. n : i \in 1 .. n + 1
  BY <1>1
<1>7. ASSUME NEW x, x \in AllVersions(u) PROVE x \in AllVersions(tables) \cup TableSet(t)
  <2>1. PICK i \in 1 .. n + 1 : x \in TableSet(u[i])
    BY <1>5, <1>7
  <2>2. CASE i = n + 1
    BY <1>1, <2>1, <2>2
  <2>3. CASE i \in 1 .. n
    BY <1>1, <1>5, <2>1, <2>3
  <2> QED
    BY <1>2, <2>2, <2>3
<1>8. ASSUME NEW x, x \in AllVersions(tables) PROVE x \in AllVersions(u)
  <2>1. PICK i \in 1 .. n : x \in TableSet(tables[i])
    BY <1>5, <1>8
  <2> QED
    BY <1>1, <1>5, <1>6, <2>1
<1>9. \A x \in TableSet(t) : x \in AllVersions(u)
  BY <1>1, <1>5, <1>6
<1>10. AllVersions(u) = AllVersions(tables) \cup TableSet(t)
  BY <1>7, <1>8, <1>9
<1> QED
  BY <1>1, <1>4, <1>10 DEF n, u

\* An output with entries makes a table.
LEMMA FinishTableWell ==
    ASSUME NEW out, OutWell(out), out.block # <<>> \/ out.blocks # <<>>
    PROVE  TableWell(FinishTable(out)) /\ TableSet(FinishTable(out)) = OutSet(out)
<1>1. PICK f : f = FinishBlock(out)
  OBVIOUS
<1>2. /\ OutWell(f) /\ TableSet(f.blocks) = OutSet(out)
      /\ out.block # <<>> => f.blocks # <<>>
  BY <1>1, FinishBlockWell
<1>3. out.block = <<>> => f = out
  BY <1>1 DEF FinishBlock
<1>4. f.blocks # <<>> /\ Ordered(f.blocks) /\ Len(f.blocks) <= TableBlocks
  BY <1>2, <1>3 DEF OutWell
<1>5. Len(f.blocks) \in Nat /\ Len(f.blocks) # 0
  BY <1>4 DEF Ordered
<1>6. FinishTable(out) = f.blocks
  BY <1>1 DEF FinishTable
<1> QED
  BY <1>2, <1>4, <1>5, <1>6, TablesAssumption DEF TableWell

\* An empty output takes an entry.
LEMMA FirstEntry ==
    ASSUME NEW v \in Version
    PROVE  AppendEntry(EmptyOutput, v).full = FALSE
<1>1. EmptyOutput.block = <<>> /\ EmptyOutput.full = FALSE /\ Len(EmptyOutput.blocks) = 0
  BY DEF EmptyOutput
<1>2. ~ (0 >= TableBlocks)
  BY TablesAssumption
<1> QED
  BY <1>1, <1>2 DEF AppendEntry

\* A merge that has come to the versions D.
MergeWell(m, D) ==
    /\ m.error = "none"
    /\ AllWell(m.tables) /\ Len(m.tables) < BankSize
    /\ OutWell(m.out) /\ m.out.full = FALSE
    /\ m.out = EmptyOutput \/ m.out.block # <<>>
    /\ AllVersions(m.tables) \cup OutSet(m.out) = D
    /\ m.bytes \in 0 .. MaxLive /\ m.greatest \in Nat
    /\ UpTo(D, m.greatest)

\* A version that comes after the others joins them.
LEMMA EmittedWell ==
    ASSUME NEW m, NEW D, MergeWell(m, D), NEW v \in Version, Before(D, {v}),
           v.seq <= m.greatest, NEW e, e = Emitted(m, v), e.error = "none"
    PROVE  MergeWell(e, D \cup {v})
<1>1. PICK o : o = AppendEntry(m.out, v)
  OBVIOUS
<1>2. /\ m.error = "none" /\ AllWell(m.tables) /\ Len(m.tables) < BankSize
      /\ OutWell(m.out) /\ m.out.full = FALSE
      /\ AllVersions(m.tables) \cup OutSet(m.out) = D
      /\ m.bytes \in 0 .. MaxLive /\ m.greatest \in Nat
      /\ UpTo(D, m.greatest)
  BY DEF MergeWell
<1>3. Before(OutSet(m.out), {v})
  BY <1>2 DEF Before
<1>4. /\ OutWell(o) /\ o.full \in BOOLEAN
      /\ ~o.full => OutSet(o) = OutSet(m.out) \cup {v} /\ o.block # <<>>
      /\ o.full => OutSet(o) = OutSet(m.out) /\ o.blocks # <<>>
  BY <1>1, <1>2, <1>3, AppendEntryWell
<1>5. UpTo(D \cup {v}, m.greatest)
  BY <1>2 DEF UpTo
<1>6. CASE ~o.full
  <2>1. e = [tables |-> m.tables, out |-> o, bytes |-> m.bytes, greatest |-> m.greatest,
             error |-> "none"]
    BY <1>1, <1>6 DEF Emitted
  <2>2. /\ e.tables = m.tables /\ e.out = o /\ e.bytes = m.bytes
        /\ e.greatest = m.greatest /\ e.error = "none"
    BY <2>1
  <2>3. AllVersions(e.tables) \cup OutSet(e.out) = D \cup {v}
    BY <1>2, <1>4, <1>6, <2>2
  <2>4. o.full = FALSE
    BY <1>4, <1>6
  <2> QED
    BY <1>2, <1>4, <1>5, <1>6, <2>2, <2>3, <2>4 DEF MergeWell
<1>7. CASE o.full
  <2>1. ~ (Len(m.tables) + 1 >= BankSize)
    BY <1>1, <1>7 DEF Emitted, Failed
  <2>2. e = [tables |-> Append(m.tables, FinishTable(o)), out |-> AppendEntry(EmptyOutput, v),
             bytes |-> m.bytes, greatest |-> m.greatest, error |-> "none"]
    BY <1>1, <1>7, <2>1 DEF Emitted
  <2>3. /\ e.tables = Append(m.tables, FinishTable(o)) /\ e.out = AppendEntry(EmptyOutput, v)
        /\ e.bytes = m.bytes /\ e.greatest = m.greatest /\ e.error = "none"
    BY <2>2
  <2>4. TableWell(FinishTable(o)) /\ TableSet(FinishTable(o)) = OutSet(m.out)
    BY <1>4, <1>7, FinishTableWell
  <2>5. /\ AllWell(e.tables) /\ Len(e.tables) = Len(m.tables) + 1
        /\ AllVersions(e.tables) = AllVersions(m.tables) \cup OutSet(m.out)
    BY <1>2, <2>3, <2>4, AppendTable
  <2>6. e.out.full = FALSE
    BY <2>3, FirstEntry
  <2>7. EmptyOutput.full = FALSE /\ OutWell(EmptyOutput) /\ OutSet(EmptyOutput) = {}
    BY EmptyIsWell DEF EmptyOutput
  <2>8. Before(OutSet(EmptyOutput), {v})
    BY <2>7 DEF Before
  <2>9. PICK p : p = e.out
    OBVIOUS
  <2>10. OutWell(p) /\ OutSet(p) = OutSet(EmptyOutput) \cup {v} /\ p.block # <<>>
    BY <2>3, <2>6, <2>7, <2>8, <2>9, AppendEntryWell
  <2>11. AllVersions(e.tables) \cup OutSet(e.out) = D \cup {v}
    BY <1>2, <2>5, <2>7, <2>9, <2>10
  <2>12. Len(e.tables) < BankSize
    <3>1. Len(m.tables) \in Nat
      BY <1>2, TablesAre
    <3> QED
      BY <2>1, <2>5, <3>1, TablesAssumption
  <2> QED
    BY <1>2, <1>5, <2>3, <2>5, <2>6, <2>9, <2>10, <2>11, <2>12 DEF MergeWell
<1> QED
  BY <1>4, <1>6, <1>7

\* The winner of a key joins the output, unless it is a tombstone.
LEMMA JoinedWell ==
    ASSUME NEW m, NEW D, MergeWell(m, D), NEW w, w.best \in Version,
           Before(D, {w.best}), NEW j, j = Joined(m, w), j.error = "none"
    PROVE  MergeWell(j, IF w.best.del THEN D ELSE D \cup {w.best})
<1> DEFINE v == w.best
           size == IF v.del THEN 0 ELSE LogicalSize(v)
           g == Counted(m, v.seq, size)
<1>1. j = IF m.error # "none" THEN m
          ELSE IF w.twice THEN Failed(m, "corrupt")
          ELSE IF v.del THEN g
          ELSE IF LogicalSize(v) > MaxLive - m.bytes THEN Failed(m, "nomem")
          ELSE Emitted(g, v)
  BY DEF Joined
<1>2. g = [tables |-> m.tables, out |-> m.out, bytes |-> m.bytes + size,
           greatest |-> IF v.seq > m.greatest THEN v.seq ELSE m.greatest, error |-> m.error]
  BY DEF Counted
<1> HIDE DEF g, size
<1>3. /\ g.tables = m.tables /\ g.out = m.out /\ g.bytes = m.bytes + size
      /\ g.greatest = (IF v.seq > m.greatest THEN v.seq ELSE m.greatest)
      /\ g.error = m.error
  BY <1>2
<1>4. /\ m.error = "none" /\ AllWell(m.tables) /\ Len(m.tables) < BankSize
      /\ OutWell(m.out) /\ m.out.full = FALSE
      /\ m.out = EmptyOutput \/ m.out.block # <<>>
      /\ AllVersions(m.tables) \cup OutSet(m.out) = D
      /\ m.bytes \in 0 .. MaxLive /\ m.greatest \in Nat
      /\ UpTo(D, m.greatest)
  BY DEF MergeWell
<1>5. m.bytes \in Nat /\ m.bytes <= MaxLive /\ MaxLive \in Nat
  BY <1>4, TablesAssumption
<1>6. v.seq \in Nat /\ v.size \in Nat /\ v.del \in BOOLEAN
  BY DEF Version
<1>7. LogicalSize(v) \in Nat
  BY <1>6, SizesAssumption DEF LogicalSize
<1>8. \A x \in D : x \in Version
  <2>1. AllVersions(m.tables) \in SUBSET Version
    BY <1>4, TablesAre
  <2>2. TableSet(m.out.blocks) \in SUBSET Version
    <3>1. m.out.blocks \in Seq(Seq(Version))
      BY <1>4 DEF OutWell, Ordered
    <3>2. \A i \in DOMAIN m.out.blocks : ToSet(m.out.blocks[i]) \in SUBSET Version
      BY <3>1 DEF ToSet
    <3> QED
      BY <3>2 DEF TableSet
  <2>3. ToSet(m.out.block) \in SUBSET Version
    BY <1>4 DEF OutWell, ToSet
  <2> QED
    BY <1>4, <2>1, <2>2, <2>3 DEF OutSet
<1>9. g.greatest \in Nat /\ v.seq <= g.greatest /\ m.greatest <= g.greatest
  BY <1>3, <1>4, <1>6
<1>10. UpTo(D, g.greatest)
  <2>1. \A x \in D : x.seq \in Nat /\ x.seq <= m.greatest
    BY <1>4, <1>8, VersionIs DEF UpTo
  <2>2. \A x \in D : x.seq <= g.greatest
    BY <1>4, <1>9, <2>1
  <2> QED
    BY <2>2 DEF UpTo
<1>11. ~w.twice
  <2> SUFFICES ASSUME w.twice PROVE FALSE
    OBVIOUS
  <2>1. j = Failed(m, "corrupt")
    BY <1>1, <1>4
  <2> QED
    BY <2>1 DEF Failed
<1>12. CASE v.del
  <2>1. j = g /\ size = 0
    BY <1>1, <1>4, <1>11, <1>12 DEF size
  <2>2. g.bytes \in 0 .. MaxLive
    BY <1>3, <1>5, <2>1
  <2>3. MergeWell(g, D)
    BY <1>3, <1>4, <1>9, <1>10, <2>2 DEF MergeWell
  <2> QED
    BY <1>12, <2>1, <2>3
<1>13. CASE ~v.del
  <2>1. ~ (LogicalSize(v) > MaxLive - m.bytes)
    <3> SUFFICES ASSUME LogicalSize(v) > MaxLive - m.bytes PROVE FALSE
      OBVIOUS
    <3>1. j = Failed(m, "nomem")
      BY <1>1, <1>4, <1>11, <1>13
    <3> QED
      BY <3>1 DEF Failed
  <2>2. j = Emitted(g, v) /\ size = LogicalSize(v)
    BY <1>1, <1>4, <1>11, <1>13, <2>1 DEF size
  <2>3. g.bytes \in 0 .. MaxLive
    BY <1>3, <1>5, <1>7, <2>1, <2>2
  <2>4. MergeWell(g, D)
    BY <1>3, <1>4, <1>9, <1>10, <2>3 DEF MergeWell
  <2>5. MergeWell(j, D \cup {v})
    BY <1>9, <2>2, <2>4, EmittedWell
  <2> QED
    BY <1>13, <2>5
<1> QED
  BY <1>6, <1>12, <1>13

\* The numbers in order come in order, and are all of them.
LEMMA AscendingSorted ==
    ASSUME NEW K \in SUBSET Nat, IsFiniteSet(K)
    PROVE  /\ Len(Ascending(K)) \in Nat
           /\ \A i \in 1 .. Len(Ascending(K)) : Ascending(K)[i] \in K
           /\ \A i, j \in 1 .. Len(Ascending(K)) : i < j => Ascending(K)[i] < Ascending(K)[j]
           /\ \A k \in K : \E i \in 1 .. Len(Ascending(K)) : Ascending(K)[i] = k
<1> DEFINE n == Len(Ascending(K))
           a == Ascending(K)
<1>1. /\ n \in Nat /\ n = Cardinality(K)
      /\ \A i \in 1 .. n : a[i] \in K /\ Rank(K, a[i]) = i
  BY AscendingIs
<1>2. /\ \A k \in K : Rank(K, k) \in 1 .. n
      /\ \A k, l \in K : k < l => Rank(K, k) < Rank(K, l)
  BY <1>1, RankIs
<1>3. \A k \in K : k \in Nat
  OBVIOUS
<1> HIDE DEF n, a
<1>4. ASSUME NEW k \in K, NEW l \in K, Rank(K, k) <= Rank(K, l) PROVE k <= l
  <2>1. ~ (l < k)
    <3>1. Rank(K, k) \in 1 .. n /\ Rank(K, l) \in 1 .. n
      BY <1>2
    <3>2. ~ (Rank(K, l) < Rank(K, k))
      BY <1>1, <1>4, <3>1
    <3> QED
      BY <1>2, <3>2
  <2> QED
    BY <1>3, <2>1
<1>5. ASSUME NEW i \in 1 .. n, NEW j \in 1 .. n, i < j PROVE a[i] < a[j]
  <2>1. PICK k, l : k = a[i] /\ l = a[j]
    OBVIOUS
  <2>2. k \in K /\ l \in K /\ Rank(K, k) = i /\ Rank(K, l) = j
    BY <1>1, <2>1
  <2>3. k <= l
    BY <1>1, <1>4, <1>5, <2>2
  <2>4. k # l
    BY <1>1, <1>5, <2>2
  <2> QED
    BY <1>3, <2>1, <2>2, <2>3, <2>4
<1>6. ASSUME NEW k \in K PROVE \E i \in 1 .. n : a[i] = k
  <2>1. PICK i : i = Rank(K, k)
    OBVIOUS
  <2>2. i \in 1 .. n
    BY <1>2, <2>1
  <2>3. PICK l : l = a[i]
    OBVIOUS
  <2>4. l \in K /\ Rank(K, l) = Rank(K, k)
    BY <1>1, <2>1, <2>2, <2>3
  <2>5. Rank(K, k) \in Nat
    BY <1>1, <2>1, <2>2
  <2>6. l <= k /\ k <= l
    BY <1>4, <2>4, <2>5
  <2>7. l = k
    BY <1>3, <2>4, <2>6
  <2> QED
    BY <2>2, <2>3, <2>7
<1> QED
  BY <1>1, <1>5, <1>6 DEF n, a

\* What a merge keeps.
Live(S) == {v \in NewestVersions(S) : ~v.del}

LiveUpTo(S, keys, n) == {v \in Live(S) : \E i \in 1 .. n : v.key = keys[i]}

\* One key of a merge.
LEMMA MergeTurnWell ==
    ASSUME NEW sources, SourcesWell(sources), Consistent(SourceSet(sources)),
           NEW keys, keys = Ascending(KeysOf(SourceSet(sources))),
           NEW n \in 1 .. Len(keys), NEW m,
           m.error = "none" => MergeWell(m, LiveUpTo(SourceSet(sources), keys, n - 1)),
           NEW j, j = MergeTurn([sources |-> sources, keys |-> keys], m, n), j.error = "none"
    PROVE  MergeWell(j, LiveUpTo(SourceSet(sources), keys, n))
<1> DEFINE SS == SourceSet(sources)
           K == KeysOf(SS)
<1>1. SS \in SUBSET Version
  BY DEF SourcesWell, SourceSet
<1>2. K \in SUBSET Nat /\ IsFiniteSet(K)
  <2>1. K \in SUBSET Keys
    BY <1>1 DEF KeysOf, Version
  <2> QED
    BY <2>1, KeysAssumption, FS_Subset
<1>3. /\ Len(keys) \in Nat /\ \A i \in 1 .. Len(keys) : keys[i] \in K
      /\ \A i, k \in 1 .. Len(keys) : i < k => keys[i] < keys[k]
  BY <1>2, AscendingSorted
<1>4. PICK w : w = Winner(sources, keys[n])
  OBVIOUS
<1>5. PICK v : v = w.best
  OBVIOUS
<1>6. v \in NewestVersions(SS) /\ v.key = keys[n]
  BY <1>3, <1>4, <1>5, WinnerIs
<1>7. v \in Version
  BY <1>1, <1>6 DEF NewestVersions
<1>8. j = Joined(m, w)
  BY <1>4 DEF MergeTurn
<1>9. m.error = "none"
  BY <1>8 DEF Joined
<1> DEFINE D == LiveUpTo(SS, keys, n - 1)
<1>10. MergeWell(m, D)
  BY <1>9
<1>11. Before(D, {v})
  <2>1. ASSUME NEW x \in D PROVE x.key < v.key
    <3>1. PICK i \in 1 .. n - 1 : x.key = keys[i]
      BY DEF LiveUpTo
    <3>2. i \in 1 .. Len(keys) /\ i < n
      BY <1>3
    <3> QED
      BY <1>3, <1>6, <3>1, <3>2
  <2> HIDE DEF D
  <2> QED
    BY <2>1 DEF Before
<1>12. LiveUpTo(SS, keys, n) = IF v.del THEN D ELSE D \cup {v}
  <2>1. \A i \in 1 .. n : i = n \/ i \in 1 .. n - 1
    BY <1>3
  <2>2. n \in 1 .. n /\ \A i \in 1 .. n - 1 : i \in 1 .. n
    BY <1>3
  <2>3. ASSUME NEW x \in Live(SS), x.key = keys[n] PROVE x = v
    <3>1. x \in NewestVersions(SS)
      BY DEF Live
    <3> QED
      BY <1>1, <1>6, <2>3, <3>1, NewestUnique
  <2>4. ~v.del => v \in LiveUpTo(SS, keys, n)
    BY <1>6, <2>2 DEF LiveUpTo, Live
  <2>5. \A x \in Live(SS) : ~x.del
    BY DEF Live
  <2>6. \A x \in D : x \in LiveUpTo(SS, keys, n)
    BY <2>2 DEF LiveUpTo
  <2>7. ASSUME NEW x \in LiveUpTo(SS, keys, n) PROVE x \in D \/ (x = v /\ ~v.del)
    <3>1. x \in Live(SS) /\ \E i \in 1 .. n : x.key = keys[i]
      BY DEF LiveUpTo
    <3>2. PICK i \in 1 .. n : x.key = keys[i]
      BY <3>1
    <3>3. CASE i = n
      BY <2>3, <2>5, <3>1, <3>2, <3>3
    <3>4. CASE i \in 1 .. n - 1
      BY <3>1, <3>2, <3>4 DEF LiveUpTo
    <3> QED
      BY <2>1, <3>3, <3>4
  <2>8. CASE v.del
    BY <2>6, <2>7, <2>8
  <2>9. CASE ~v.del
    BY <2>4, <2>6, <2>7, <2>9
  <2> QED
    BY <2>8, <2>9
<1>13. MergeWell(j, IF v.del THEN D ELSE D \cup {v})
  <2> HIDE DEF D
  <2> QED
    BY <1>5, <1>7, <1>8, <1>10, <1>11, JoinedWell
<1> QED
  BY <1>12, <1>13

\* compact_tables_unsafe() writes well-formed tables with the newest versions,
\* one of each key, that are not tombstones.
LEMMA MergeIs ==
    ASSUME NEW sources, SourcesWell(sources), Consistent(SourceSet(sources)),
           NEW after, NEW r, r = Merge(sources, after), r.error = "none"
    PROVE  /\ TablesWell(r.tables)
           /\ AllVersions(r.tables) = Live(SourceSet(sources))
           /\ r.greatest = after - 1 /\ r.greatest \in Nat
           /\ UpTo(AllVersions(r.tables), r.greatest)
           /\ r.bytes \in 0 .. MaxLive
<1> DEFINE SS == SourceSet(sources)
           keys == Ascending(KeysOf(SS))
           c == [sources |-> sources, keys |-> keys]
           L == Len(keys)
           it(k) == Merging!Iterated(c, MergeStart, k)
           S == {k \in 0 .. L :
                    it(k).error = "none" => MergeWell(it(k), LiveUpTo(SS, keys, k))}
<1>1. SS \in SUBSET Version
  BY DEF SourcesWell, SourceSet
<1>2. KeysOf(SS) \in SUBSET Nat /\ IsFiniteSet(KeysOf(SS))
  <2>1. KeysOf(SS) \in SUBSET Keys
    BY <1>1 DEF KeysOf, Version
  <2> QED
    BY <2>1, KeysAssumption, FS_Subset
<1>3. L \in Nat /\ \A k \in KeysOf(SS) : \E i \in 1 .. L : keys[i] = k
  BY <1>2, AscendingSorted
<1>4. 0 \in S
  <2>1. it(0) = MergeStart
    BY Merging!IteratedTurns
  <2>2. LiveUpTo(SS, keys, 0) = {}
    BY DEF LiveUpTo
  <2>3. AllWell(<<>>) /\ AllVersions(<<>>) = {} /\ Len(<<>>) = 0
    BY DEF AllWell, AllVersions
  <2>4. MergeWell(MergeStart, {})
    <3>1. /\ MergeStart.tables = <<>> /\ MergeStart.out = EmptyOutput /\ MergeStart.bytes = 0
          /\ MergeStart.greatest = 0 /\ MergeStart.error = "none"
      BY DEF MergeStart
    <3>2. EmptyOutput.full = FALSE
      BY DEF EmptyOutput
    <3>3. 0 < BankSize /\ 0 \in 0 .. MaxLive
      BY TablesAssumption
    <3> QED
      BY <2>3, <3>1, <3>2, <3>3, EmptyIsWell DEF MergeWell, UpTo
  <2>5. 0 \in 0 .. L
    BY <1>3
  <2>6. MergeWell(it(0), LiveUpTo(SS, keys, 0))
    BY <2>1, <2>2, <2>4
  <2> HIDE DEF it, keys, L
  <2> QED
    BY <2>5, <2>6
<1>5. ASSUME NEW n \in 1 .. L, n - 1 \in S PROVE n \in S
  <2>1. n - 1 \in Nat /\ (n - 1) + 1 = n /\ n \in 0 .. L
    BY <1>3
  <2>2. PICK m, j : m = it(n - 1) /\ j = it(n)
    OBVIOUS
  <2>3. j = MergeTurn(c, m, n)
    <3>1. it((n - 1) + 1) = MergeTurn(c, it(n - 1), (n - 1) + 1)
      <4> HIDE DEF c
      <4> QED
        BY <2>1, Merging!IteratedTurns
    <3> HIDE DEF it
    <3> QED
      BY <2>1, <2>2, <3>1
  <2>4. m.error = "none" => MergeWell(m, LiveUpTo(SS, keys, n - 1))
    BY <1>5, <2>2
  <2>5. j.error = "none" => MergeWell(j, LiveUpTo(SS, keys, n))
    BY <2>3, <2>4, MergeTurnWell
  <2> HIDE DEF it, keys
  <2> QED
    BY <2>1, <2>2, <2>5
<1>6. L \in S
  <2> HIDE DEF S
  <2>1. \A k \in 0 .. L : k \in S
    BY <1>3, <1>4, <1>5, EveryTurn
  <2> QED
    BY <1>3, <2>1
<1>7. PICK m : m = it(L)
  OBVIOUS
<1>8. r = MergeEnd(m, after)
  <2>1. SourceKeys(sources) = KeysOf(SS)
    BY DEF SourceKeys, KeysOf, SourceSet
  <2> QED
    BY <1>7, <2>1 DEF Merge
<1>9. m.error = "none" => MergeWell(m, LiveUpTo(SS, keys, L))
  BY <1>6, <1>7
<1> HIDE DEF it, L, S
<1>10. LiveUpTo(SS, keys, L) = Live(SS)
  <2>1. \A v \in Live(SS) : v.key \in KeysOf(SS)
    BY DEF Live, NewestVersions, KeysOf
  <2>2. \A v \in Live(SS) : \E i \in 1 .. L : v.key = keys[i]
    BY <1>3, <2>1
  <2> QED
    BY <2>2 DEF LiveUpTo
<1> DEFINE t == IF m.out = EmptyOutput THEN m.tables ELSE Append(m.tables, FinishTable(m.out))
<1>11. r = [tables |-> t, bytes |-> m.bytes, greatest |-> m.greatest,
            error |-> IF m.error = "none" /\ ~Publishable(t, m.greatest, after)
                      THEN "state" ELSE m.error]
  BY <1>8 DEF MergeEnd
<1> HIDE DEF t
<1>12. /\ r.tables = t /\ r.bytes = m.bytes /\ r.greatest = m.greatest
       /\ m.error = "none" /\ Publishable(t, m.greatest, after)
  BY <1>11
<1>13. /\ AllWell(m.tables) /\ Len(m.tables) < BankSize
       /\ OutWell(m.out)
       /\ m.out = EmptyOutput \/ m.out.block # <<>>
       /\ AllVersions(m.tables) \cup OutSet(m.out) = Live(SS)
       /\ m.bytes \in 0 .. MaxLive /\ m.greatest \in Nat
       /\ UpTo(Live(SS), m.greatest)
  BY <1>9, <1>10, <1>12 DEF MergeWell
<1>14. AllWell(t) /\ Len(t) <= BankSize /\ AllVersions(t) = Live(SS)
  <2>1. Len(m.tables) \in Nat
    BY <1>13, TablesAre
  <2>2. CASE m.out = EmptyOutput
    BY <1>13, <2>1, <2>2, EmptyIsWell, TablesAssumption DEF t
  <2>3. CASE m.out # EmptyOutput
    <3>1. TableWell(FinishTable(m.out)) /\ TableSet(FinishTable(m.out)) = OutSet(m.out)
      BY <1>13, <2>3, FinishTableWell
    <3>2. t = Append(m.tables, FinishTable(m.out))
      BY <2>3 DEF t
    <3>3. /\ AllWell(t) /\ Len(t) = Len(m.tables) + 1
          /\ AllVersions(t) = AllVersions(m.tables) \cup OutSet(m.out)
      BY <1>13, <3>1, <3>2, AppendTable
    <3> QED
      BY <1>13, <2>1, <3>3, TablesAssumption
  <2> QED
    BY <2>2, <2>3
<1>15. Consistent(AllVersions(t))
  BY <1>14 DEF Consistent, Live, NewestVersions
<1>16. TablesWell(t)
  BY <1>14, <1>15 DEF TablesWell
<1>17. m.greatest = after - 1
  BY <1>12 DEF Publishable
<1> QED
  BY <1>12, <1>13, <1>14, <1>16, <1>17

=============================================================================
