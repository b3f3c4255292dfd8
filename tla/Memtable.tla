------------------------------ MODULE Memtable ------------------------------
(***************************************************************************)
(* The memtable: an arena of records laid end to end and an open-addressed *)
(* index of buckets over it.  The arena is a sequence of cells of one      *)
(* unit; the first cell of a record stands for its header and content, the *)
(* others are its body.                                                    *)
(***************************************************************************)
EXTENDS Records

CONSTANTS
    Buckets,        \* CONFIG_ON9KVDB_MEMTABLE_ENTRY_COUNT
    DataSize,       \* CONFIG_ON9KVDB_MEMTABLE_DATA_SIZE
    MaxNamespaces,  \* CONFIG_ON9KVDB_MAX_NAMESPACES
    Hash(_, _)      \* hash_key_unsafe() of a namespace slot and a key

NamespaceSlots == 1 .. MaxNamespaces

ASSUME BucketsAssumption ==
    /\ {Buckets, MaxNamespaces} \subseteq Nat \ {0}
    /\ DataSize \in Nat
ASSUME HashAssumption == \A slot \in NamespaceSlots, key \in Keys : Hash(slot, key) \in Nat

BucketIndex == 0 .. (Buckets - 1)
NoOffset    == -1
NoBucket    == Buckets
Vacant      == [hash |-> 0, off |-> NoOffset, size |-> 0]
Body        == [slot |-> 0, v |-> NoVersion]

\* reset_memtable_unsafe()
EmptyMemtable ==
    [index |-> [b \in BucketIndex |-> Vacant], data |-> <<>>, count |-> 0]

Occupied(m) == {b \in BucketIndex : m.index[b].off # NoOffset}

RecordAt(m, b) == m.data[m.index[b].off + 1]

\* find_memtable_bucket_unsafe(): the probe ends at the key or at a vacancy.
Probe(h, p) == (h + p) % Buckets

Matches(m, b, slot, key) ==
    /\ b \in Occupied(m)
    /\ m.index[b].hash = Hash(slot, key)
    /\ RecordAt(m, b).slot = slot
    /\ RecordAt(m, b).v.key = key

Find(m, slot, key) ==
    LET h     == Hash(slot, key)
        stops == {p \in BucketIndex :
                    Probe(h, p) \notin Occupied(m) \/ Matches(m, Probe(h, p), slot, key)}
    IN  IF stops = {} THEN NoBucket ELSE Probe(h, Min(stops))

\* The version in a bucket that the probe ended at.
VersionIn(m, b) == IF b \in Occupied(m) THEN RecordAt(m, b).v ELSE NoVersion

\* lookup_memtable_unsafe()
LookupMemtable(m, slot, key) == VersionIn(m, Find(m, slot, key))

Cleared(bucket)  == [hash |-> bucket.hash, off |-> bucket.off, size |-> 0]
Moved(bucket, n) == [hash |-> bucket.hash, off |-> bucket.off - n, size |-> bucket.size]

\* A faulty variant of Removed: the other buckets keep their offsets.
RemovedWithoutShift(m, b) ==
    LET o == m.index[b].off
        n == m.index[b].size
    IN  [index |-> [m.index EXCEPT ![b] = Cleared(@)],
         data  |-> SubSeq(m.data, 1, o) \o SubSeq(m.data, o + n + 1, Len(m.data)),
         count |-> m.count]

\* remove_memtable_record_unsafe(): the tail of the arena moves down, and
\* with it the buckets of its records.
Removed(m, b) ==
    LET o == m.index[b].off
        n == m.index[b].size
    IN  [index |-> [x \in BucketIndex |->
                       IF x = b THEN Cleared(m.index[x])
                       ELSE IF m.index[x].off > o THEN Moved(m.index[x], n)
                       ELSE m.index[x]],
         data  |-> SubSeq(m.data, 1, o) \o SubSeq(m.data, o + n + 1, Len(m.data)),
         count |-> m.count]

\* One turn of apply_transaction_to_memtable_unsafe(), which has a bucket: the
\* record is added behind the others, after the one it replaces was removed.
InsertedAt(m, b, slot, v) ==
    LET found  == b \in Occupied(m)
        r      == IF found THEN Removed(m, b) ELSE m
        bucket == [hash |-> Hash(slot, v.key), off |-> Len(r.data), size |-> RecordSize(v)]
    IN  [index |-> [r.index EXCEPT ![b] = bucket],
         data  |-> r.data \o <<[slot |-> slot, v |-> v]>>
                          \o [i \in 1 .. (RecordSize(v) - 1) |-> Body],
         count |-> m.count + (IF found THEN 0 ELSE 1)]

Inserted(m, slot, v) == InsertedAt(m, Find(m, slot, v.key), slot, v)

\* The records that flush and compaction collect from the buckets, ...
MemtableVersions(m) == {RecordAt(m, b).v : b \in Occupied(m)}

\* A faulty variant of SortedMemtable: the records in the order of the arena.
UnsortedMemtable(m) ==
    LET offs == Ascending({m.index[b].off : b \in Occupied(m)})
    IN  [i \in 1 .. Len(offs) |-> m.data[offs[i] + 1].v]

\* ... sorted by sort_memtable_offsets_unsafe().
SortedMemtable(m) == InKeyOrder(MemtableVersions(m))

---------------------------------------------------------------------------
(* What the memtable is to its callers                                     *)

Bucket == [hash : Nat, off : Int, size : Nat]
Cell   == [slot : 0 .. MaxNamespaces, v : Version \cup {NoVersion}]

MemtableType == [index : [BucketIndex -> Bucket], data : Seq(Cell), count : Nat]

\* The records lie end to end in the arena, and the buckets know where.
Tiled(m) ==
    /\ \A b \in Occupied(m) :
          /\ m.index[b].off >= 0
          /\ m.index[b].size = RecordSize(RecordAt(m, b).v)
          /\ m.index[b].off + m.index[b].size <= Len(m.data)
    /\ \A b, c \in Occupied(m) :
          m.index[b].off <= m.index[c].off =>
              b = c \/ m.index[b].off + m.index[b].size <= m.index[c].off
    /\ \A i \in 1 .. Len(m.data) : \E b \in Occupied(m) :
          m.index[b].off < i /\ i <= m.index[b].off + m.index[b].size

\* Every record is found under its own name, so there is one for each name.
Indexed(m) ==
    /\ \A b \in Occupied(m) :
          LET r == RecordAt(m, b)
          IN  /\ r.v \in Version /\ r.slot \in NamespaceSlots
              /\ m.index[b].hash = Hash(r.slot, r.v.key)
              /\ Find(m, r.slot, r.v.key) = b
    /\ m.count = Cardinality(Occupied(m))

=============================================================================
