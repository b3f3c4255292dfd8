------------------------------- MODULE Records -------------------------------
(***************************************************************************)
(* Versions of keys and the space they take in the memtable, in a table    *)
(* and in the logical capacity.  Sizes are in units of eight bytes, to     *)
(* which the code rounds each record; the headers include the names.       *)
(***************************************************************************)
EXTENDS Integers, Sequences, FiniteSets, FiniteSetsExt, SequencesExt

CONSTANTS
    Keys,          \* namespace and key together, as integers: they are ordered
    NamespaceOf,   \* the namespace of each key
    InlineSize,    \* CONFIG_ON9KVDB_INLINE_VALUE_SIZE
    MemHeader,     \* sizeof(memtable_record_header) and the key
    EntryHeader,   \* table_entry_header_size, the namespace and the key
    RefSize        \* value_ref_encoded_size

ASSUME KeysAssumption == Keys \subseteq Nat /\ IsFiniteSet(Keys)
ASSUME NamespacesAssumption == DOMAIN NamespaceOf = Keys
ASSUME SizesAssumption ==
    /\ InlineSize \in Nat
    /\ {MemHeader, EntryHeader, RefSize} \subseteq Nat \ {0}

\* A version of a key: a value of some size, or a tombstone, which has size 0.
Version == [key : Keys, seq : Nat \ {0}, del : BOOLEAN, size : Nat]

NoVersion == [key |-> 0, seq |-> 0, del |-> TRUE, size |-> 0]

\* A larger value lies in a value bank; the record holds a value_ref.
External(v) == v.size > InlineSize

\* The record in the memtable, whose header has room for the value_ref.
RecordSize(v) == MemHeader + (IF External(v) THEN 0 ELSE v.size)

\* The entry in a table.
EncodedSize(v) == EntryHeader + (IF External(v) THEN RefSize ELSE v.size)

\* logical_record_size(): what a version takes of max_live_bytes.
LogicalSize(v) == EntryHeader + v.size

\* The newest version of each key among a set of versions.
NewestVersions(S) == {v \in S : \A w \in S : w.key = v.key => w.seq <= v.seq}

KeysOf(S) == {v.key : v \in S}

\* The numbers of a finite set from the least to the greatest.
Ascending(K) ==
    [i \in 1 .. Cardinality(K) |-> CHOOSE k \in K : Cardinality({l \in K : l <= k}) = i]

\* Versions of different keys in the order of their keys.
InKeyOrder(S) ==
    [i \in 1 .. Cardinality(KeysOf(S)) |-> CHOOSE v \in S : v.key = Ascending(KeysOf(S))[i]]

\* Different versions of a key have different sequences.
Consistent(S) == \A v, w \in S : v.key = w.key /\ v.seq = w.seq => v = w

=============================================================================
