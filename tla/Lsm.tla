-------------------------------- MODULE Lsm --------------------------------
(***************************************************************************)
(* Sizes, counters and lookups of a database: memtable, tables and log     *)
(* with their limits, as commit() goes through them.  Engine.tla says what *)
(* a power cut or a failing write leaves on the medium; here every write   *)
(* is durable when its step ends, a cut falls between two steps, and the   *)
(* question is what fits, what is counted and what a lookup finds.         *)
(***************************************************************************)
EXTENDS Memtable, Tables

CONSTANTS
    Sizes,           \* for each key, the sizes of values it is given
    MaxMutations,    \* mutations in a transaction
    WalSize,         \* mutations that the frames of a WAL slot hold
    CounterModulus,  \* stands for 2^64, the width of the counters
    MaxSeq           \* bound on the number of commits

ASSUME LsmAssumption ==
    /\ Sizes \in [Keys -> SUBSET Nat]
    /\ {MaxMutations, WalSize, MaxSeq} \subseteq Nat \ {0}
    /\ MaxMutations <= WalSize
    /\ CounterModulus \in Nat /\ CounterModulus > 2 * MaxLive

VARIABLES
    mem,      \* the memtable
    spaces,   \* names in the namespace slots, which are taken in order
    stats,    \* live_key_count, tombstone_count, logical_state_bytes
    disk,     \* the tables and the checkpoint of the newest manifest copy
    older,    \* those of the other copy
    log,      \* transactions in the WAL that are after the older checkpoint
    used,     \* what is used of the active WAL slot
    spare,    \* no copy refers to the other WAL slot
    next,     \* next_transaction_sequence
    pc,       \* where commit() is
    txn,      \* the transaction that is being committed
    truth,    \* observer: the version of each key that was last logged
    stale     \* observer: a previous tombstone was dropped after preflight

vars == <<mem, spaces, stats, disk, older, log, used, spare, next, pc, txn, truth, stale>>

---------------------------------------------------------------------------
(* Transactions                                                            *)

\* Keys are distinct and of one namespace.  erase_key() takes a key that is
\* there or was set by the same transaction, so any key may get a tombstone.
\* Mutations come in the order of their keys; in the memtable other orders arise.
Mutation ==
    UNION {[key : {k}, del : {FALSE}, size : Sizes[k]] \cup [key : {k}, del : {TRUE}, size : {0}]
             : k \in Keys}

Transactions ==
    {m \in UNION {[1 .. n -> Mutation] : n \in 1 .. MaxMutations} :
        /\ \A i, j \in DOMAIN m : i < j => m[i].key < m[j].key
        /\ \A i \in DOMAIN m : NamespaceOf[m[i].key] = NamespaceOf[m[1].key]}

NoTransaction == [muts |-> <<>>, prev |-> <<>>]

Namespace(muts) == NamespaceOf[muts[1].key]

VersionFrom(m, seq) == [key |-> m.key, seq |-> seq, del |-> m.del, size |-> m.size]

---------------------------------------------------------------------------
(* Memtable transactions                                                   *)

\* ensure_namespace_capacity_unsafe(): the slot, or 0 without a free one, and
\* the names once it is published.
NamespaceSlot(sp, n) ==
    IF Contains(sp, n) THEN CHOOSE i \in DOMAIN sp : sp[i] = n
    ELSE IF Len(sp) < MaxNamespaces THEN Len(sp) + 1 ELSE 0

WithNamespace(sp, n) == IF Contains(sp, n) THEN sp ELSE Append(sp, n)

NoPrevious == [state |-> "none", size |-> 0]

Previous(v) ==
    IF v = NoVersion THEN NoPrevious
    ELSE [state |-> IF v.del THEN "tombstone" ELSE "live", size |-> v.size]

PreviousSize(p) == IF p.state = "none" THEN 0 ELSE EntryHeader + p.size

\* A faulty variant of Claimed: the logical size has no limit.
ClaimedUnlimited(a, v, record, entry) ==
    LET found == record # NoVersion
        bytes == a.bytes - (IF found THEN RecordSize(record) ELSE 0)
    IN  IF RecordSize(v) > DataSize - bytes THEN [a EXCEPT !.error = "nomem"]
        ELSE [a EXCEPT !.prev = Append(@, Previous(IF found THEN record ELSE entry)),
                       !.bytes = bytes + RecordSize(v),
                       !.entries = @ + (IF found THEN 0 ELSE 1)]

\* preflight_memtable_transaction_unsafe(), one turn of its loop, for a key
\* with this record in the memtable or else this entry in a table.  Errors are
\* ESP_ERR_INVALID_STATE and, told apart here, ESP_ERR_NO_MEM for the memtable
\* ("nomem") and for the whole database ("full").
Claimed(a, v, record, entry) ==
    LET found   == record # NoVersion
        p       == Previous(IF found THEN record ELSE entry)
        bytes   == a.bytes - (IF found THEN RecordSize(record) ELSE 0)
        logical == a.logical - PreviousSize(p) + LogicalSize(v)
    IN  [prev    |-> Append(a.prev, p),
         bytes   |-> bytes + RecordSize(v),
         entries |-> a.entries + (IF found THEN 0 ELSE 1),
         logical |-> logical,
         error   |-> IF PreviousSize(p) > a.logical THEN "state"
                     ELSE IF RecordSize(v) > DataSize - bytes THEN "nomem"
                     ELSE IF logical > MaxLive THEN "full" ELSE "none"]

PreflightMutation(db, slot, a, m) ==
    IF a.error # "none" THEN a
    ELSE Claimed(a, VersionFrom(m, 0), LookupMemtable(db.mem, slot, m.key),
                 LookupTables(db.tables, m.key))

PreflightTurn(c, a, i) == PreflightMutation(c.db, c.slot, a, c.muts[i])

Preflighting == INSTANCE Iteration WITH Turn <- PreflightTurn

PreflightStart(db, slot) ==
    [prev |-> <<>>, bytes |-> Len(db.mem.data), entries |-> db.mem.count,
     logical |-> db.stats.bytes, error |-> IF slot = 0 THEN "full" ELSE "none"]

PreflightMutations(db, slot, muts) ==
    Preflighting!Iterated([db |-> db, slot |-> slot, muts |-> muts],
                          PreflightStart(db, slot), Len(muts))

\* A faulty variant of BucketsLeft: the buckets are not counted.
BucketsNotCounted(a) == a

BucketsLeft(a) ==
    [prev  |-> a.prev,
     error |-> IF a.error = "none" /\ a.entries > Buckets THEN "nomem" ELSE a.error]

Preflight(db, muts) ==
    BucketsLeft(PreflightMutations(db, NamespaceSlot(db.spaces, Namespace(muts)), muts))

\* The counters without the version that is replaced, and with the new one.
Less(st, p) ==
    [live  |-> st.live - (IF p.state = "live" THEN 1 ELSE 0),
     tombs |-> st.tombs - (IF p.state = "tombstone" THEN 1 ELSE 0),
     bytes |-> st.bytes - PreviousSize(p)]

Plus(st, v) ==
    [live  |-> (st.live + (IF v.del THEN 0 ELSE 1)) % CounterModulus,
     tombs |-> (st.tombs + (IF v.del THEN 1 ELSE 0)) % CounterModulus,
     bytes |-> (st.bytes + LogicalSize(v)) % CounterModulus]

\* A faulty variant of Replaced: what lies in a table is not subtracted.
ReplacedForgetting(record, p) == IF record # NoVersion THEN Previous(record) ELSE NoPrevious

\* apply_transaction_to_memtable_unsafe(), one turn of its loop: it subtracts
\* the record it finds, or else what preflight had found in the tables.
Replaced(record, p) == IF record # NoVersion THEN Previous(record) ELSE p

ApplyMutation(db, slot, m, p, seq) ==
    LET v == VersionFrom(m, seq)
    IN  [mem    |-> Inserted(db.mem, slot, v),
         spaces |-> db.spaces,
         stats  |-> Plus(Less(db.stats, Replaced(LookupMemtable(db.mem, slot, m.key), p)), v),
         tables |-> db.tables,
         error  |-> db.error]

ApplyTurn(c, db, i) == ApplyMutation(db, c.slot, c.muts[i], c.prev[i], c.seq)

Applying == INSTANCE Iteration WITH Turn <- ApplyTurn

WithSpace(db, n) ==
    [mem |-> db.mem, spaces |-> WithNamespace(db.spaces, n), stats |-> db.stats,
     tables |-> db.tables, error |-> db.error]

\* Publication of the namespace, then the mutations.
Applied(db, muts, prev, seq) ==
    Applying!Iterated(
        [slot |-> NamespaceSlot(db.spaces, Namespace(muts)), muts |-> muts, prev |-> prev,
         seq |-> seq],
        WithSpace(db, Namespace(muts)), Len(muts))

---------------------------------------------------------------------------
(* Flush and compaction                                                    *)

Sources(m, tables) ==
    <<SortedMemtable(m)>> \o [i \in DOMAIN tables |-> Entries(tables[i])]

\* The state in RAM and on the medium that maintenance changes.
Database == [mem |-> mem, stats |-> stats, disk |-> disk, older |-> older, log |-> log,
             spare |-> spare, stale |-> stale, error |-> "none"]

\* The transactions of a log after a checkpoint; they are in order.
After(l, seq) == SubSeq(l, Cardinality({i \in DOMAIN l : l[i].seq <= seq}) + 1, Len(l))

\* compact_tables_unsafe(): both copies select the new bank, and the log
\* before it is released.  Within an append it also makes the preflight stale,
\* if that had found a tombstone which is now gone.
Selected(d, m) ==
    LET copy == [tables |-> m.tables, ckpt |-> m.greatest]
    IN  IF m.error # "none" THEN [d EXCEPT !.error = m.error]
        ELSE [d EXCEPT !.mem = EmptyMemtable, !.disk = copy, !.older = copy,
                       !.log = After(@, m.greatest), !.spare = TRUE,
                       !.stats = [@ EXCEPT !.tombs = 0, !.bytes = m.bytes],
                       !.stale = \/ @ /\ txn # NoTransaction
                                 \/ \E i \in DOMAIN txn.prev : txn.prev[i].state = "tombstone"]

Compacted(d) == Selected(d, Merge(Sources(d.mem, d.disk.tables), next))

\* Faulty variants of FlushedTo: the checkpoint is one too far, or the log
\* before it is given up at once.
FlushedTooFar(d, t) ==
    IF t = <<>> THEN [d EXCEPT !.error = "nomem"]
    ELSE [d EXCEPT !.mem = EmptyMemtable,
                   !.disk = [tables |-> Append(@.tables, t), ckpt |-> MaxSequence(t) + 1],
                   !.older = d.disk]

FlushedReleasing(d, t) ==
    IF t = <<>> THEN [d EXCEPT !.error = "nomem"]
    ELSE [d EXCEPT !.mem = EmptyMemtable,
                   !.disk = [tables |-> Append(@.tables, t), ckpt |-> MaxSequence(t)],
                   !.older = d.disk,
                   !.log = After(@, MaxSequence(t))]

\* flush_memtable_unsafe(): the older copy still has the state before.
FlushedTo(d, t) ==
    IF t = <<>> THEN [d EXCEPT !.error = "nomem"]
    ELSE [d EXCEPT !.mem = EmptyMemtable,
                   !.disk = [tables |-> Append(@.tables, t), ckpt |-> MaxSequence(t)],
                   !.older = d.disk,
                   !.log = After(@, d.disk.ckpt)]

Flushed(d) ==
    IF d.mem.count = 0 THEN d
    ELSE IF Len(d.disk.tables) = BankSize THEN Compacted(d)
    ELSE FlushedTo(d, BuildTable(SortedMemtable(d.mem)))

\* Maintenance succeeds and takes effect.
Becomes(d) ==
    /\ d.error = "none"
    /\ mem' = d.mem /\ stats' = d.stats
    /\ disk' = d.disk /\ older' = d.older
    /\ log' = d.log /\ spare' = d.spare /\ stale' = d.stale

---------------------------------------------------------------------------
(* Recovery                                                                *)

NoStats == [live |-> 0, tombs |-> 0, bytes |-> 0]

CountTurn(versions, s, i) == Plus(s, versions[i])

Counting == INSTANCE Iteration WITH Turn <- CountTurn

\* The counters of the newest versions, in the order of the keys.
Recount(S) ==
    LET v == InKeyOrder(NewestVersions(S))
    IN  Counting!Iterated(v, NoStats, Len(v))

SpaceTurn(keys, sp, i) == WithNamespace(sp, NamespaceOf[keys[i]])

Naming == INSTANCE Iteration WITH Turn <- SpaceTurn

\* The names of keys, in the order of the keys.
SpacesOf(K) == Naming!Iterated(Ascending(K), <<>>, Cardinality(K))

\* Two tables have the same sequence of a key.
Ambiguous(tables) ==
    \E i, j \in DOMAIN tables :
        /\ i < j
        /\ \E v \in TableSet(tables[i]), w \in TableSet(tables[j]) :
              v.key = w.key /\ v.seq = w.seq

\* recover_tables_unsafe(): names and counters from the tables.
RecoverTables(tables) ==
    LET S  == AllVersions(tables)
        sp == SpacesOf({k \in Keys : k \in KeysOf(S)})
    IN  [mem |-> EmptyMemtable, spaces |-> sp, stats |-> Recount(S), tables |-> tables,
         error |-> IF Len(sp) > MaxNamespaces THEN "full"
                   ELSE IF Recount(S).bytes > MaxLive \/ Ambiguous(tables) THEN "corrupt"
                   ELSE "none"]

\* scan_wal_slot(): a transaction after the checkpoint; nothing is flushed.
Replayed(r, p, t) ==
    IF p.error # "none"
    THEN [mem |-> r.mem, spaces |-> r.spaces, stats |-> r.stats, tables |-> r.tables,
          error |-> p.error]
    ELSE Applied(r, t.muts, p.prev, t.seq)

ReplayTransaction(r, t) ==
    IF r.error # "none" THEN r ELSE Replayed(r, Preflight(r, t.muts), t)

ReplayTurn(l, r, i) == ReplayTransaction(r, l[i])

Replaying == INSTANCE Iteration WITH Turn <- ReplayTurn

\* init() on the medium as one manifest copy shows it.
Recovered(copy) ==
    LET l == After(log, copy.ckpt)
    IN  Replaying!Iterated(l, RecoverTables(copy.tables), Len(l))

---------------------------------------------------------------------------
(* commit()                                                                *)

InRam == [mem |-> mem, spaces |-> spaces, stats |-> stats, tables |-> disk.tables,
          error |-> "none"]

Init ==
    /\ mem = EmptyMemtable
    /\ spaces = <<>>
    /\ stats = NoStats
    /\ disk = [tables |-> <<>>, ckpt |-> 0]
    /\ older = disk
    /\ log = <<>>
    /\ used = 0
    /\ spare = TRUE
    /\ next = 1
    /\ pc = "idle"
    /\ txn = NoTransaction
    /\ truth = [k \in Keys |-> NoVersion]
    /\ stale = FALSE

Accept(muts, p) ==
    /\ p.error = "none"
    /\ pc' = "append"
    /\ txn' = [muts |-> muts, prev |-> p.prev]
    /\ UNCHANGED <<mem, spaces, stats, disk, older, log, used, spare, next, truth, stale>>

\* The first preflight.  A refusal changes nothing and is no step.
Commit(muts) ==
    /\ pc = "idle"
    /\ next <= MaxSeq
    /\ Accept(muts, Preflight(InRam, muts))

\* A faulty variant of FlushForRoom: it tries again without the flush.
RetryWithoutFlush(muts) ==
    /\ pc = "idle"
    /\ next <= MaxSeq
    /\ Preflight(InRam, muts).error \in {"nomem", "full"}
    /\ mem.count > 0
    /\ pc' = "again"
    /\ txn' = [NoTransaction EXCEPT !.muts = muts]
    /\ UNCHANGED <<mem, spaces, stats, disk, older, log, used, spare, next, truth, stale>>

\* Without room the memtable is flushed; when that fails commit() returns.
FlushForRoom(muts) ==
    /\ pc = "idle"
    /\ next <= MaxSeq
    /\ Preflight(InRam, muts).error \in {"nomem", "full"}
    /\ mem.count > 0
    /\ Becomes(Flushed(Database))
    /\ pc' = "again"
    /\ txn' = [NoTransaction EXCEPT !.muts = muts]
    /\ UNCHANGED <<spaces, used, next, truth>>

AcceptAfterFlush ==
    /\ pc = "again"
    /\ Accept(txn.muts, Preflight(InRam, txn.muts))

Refuse ==
    /\ pc = "again"
    /\ Preflight(InRam, txn.muts).error # "none"
    /\ pc' = "idle"
    /\ txn' = NoTransaction
    /\ UNCHANGED <<mem, spaces, stats, disk, older, log, used, spare, next, truth, stale>>

\* append_transaction_unsafe() with a full slot: the other slot is released by
\* a compaction, or is free, and then the memtable is flushed.
Maintained == IF spare THEN Flushed(Database) ELSE Compacted(Database)

MakeRoom ==
    /\ pc = "append"
    /\ Len(txn.muts) > WalSize - used
    /\ Becomes(Maintained)
    /\ pc' = "rotate"
    /\ UNCHANGED <<spaces, used, next, txn, truth>>

RoomRefused ==
    /\ pc = "append"
    /\ Len(txn.muts) > WalSize - used
    /\ Maintained.error # "none"
    /\ pc' = "idle"
    /\ txn' = NoTransaction
    /\ UNCHANGED <<mem, spaces, stats, disk, older, log, used, spare, next, truth, stale>>

\* rotate_wal_unsafe() publishes both copies.
Rotate ==
    /\ pc = "rotate"
    /\ older' = disk
    /\ log' = After(log, disk.ckpt)
    /\ used' = 0
    /\ spare' = FALSE
    /\ pc' = "append"
    /\ UNCHANGED <<mem, spaces, stats, disk, next, txn, truth, stale>>

AppendFrames ==
    /\ pc = "append"
    /\ Len(txn.muts) <= WalSize - used
    /\ log' = Append(log, [seq |-> next, muts |-> txn.muts])
    /\ used' = used + Len(txn.muts)
    /\ truth' = [k \in Keys |->
            IF \E i \in DOMAIN txn.muts : txn.muts[i].key = k
            THEN VersionFrom(CHOOSE m \in ToSet(txn.muts) : m.key = k, next)
            ELSE truth[k]]
    /\ pc' = "apply"
    /\ UNCHANGED <<mem, spaces, stats, disk, older, spare, next, txn, stale>>

\* Memtable, namespaces and counters in RAM, unless there was an error.
Published(db) ==
    /\ db.error = "none"
    /\ mem' = db.mem /\ spaces' = db.spaces /\ stats' = db.stats

\* The records are in the log and become visible.
Apply ==
    /\ pc = "apply"
    /\ Published(Applied(InRam, txn.muts, txn.prev, next))
    /\ next' = next + 1
    /\ pc' = "idle"
    /\ txn' = NoTransaction
    /\ UNCHANGED <<disk, older, log, used, spare, truth, stale>>

\* A restart at any point, from the newest copy, or from the other one if
\* the newest was lost.  A copy on its own is written twice before use.
Restart(copy) ==
    /\ Published(Recovered(copy))
    /\ disk' = copy
    /\ older' = IF copy = disk THEN older ELSE copy
    /\ next' = IF log = <<>> THEN copy.ckpt + 1 ELSE Last(log).seq + 1
    /\ pc' = "idle"
    /\ txn' = NoTransaction
    /\ stale' = FALSE
    /\ UNCHANGED <<log, used, spare, truth>>

Next ==
    \/ \E muts \in Transactions : Commit(muts) \/ FlushForRoom(muts)
    \/ AcceptAfterFlush
    \/ Refuse
    \/ MakeRoom
    \/ RoomRefused
    \/ Rotate
    \/ AppendFrames
    \/ Apply
    \/ Restart(disk)
    \/ older # disk /\ Restart(older)

Spec == Init /\ [][Next]_vars

---------------------------------------------------------------------------
(* Properties                                                              *)

\* Tables are sorted and not empty, and the counters have their width.
TypeOK ==
    /\ Len(disk.tables) <= BankSize
    /\ \A i \in DOMAIN disk.tables :
          /\ Len(disk.tables[i]) \in 1 .. TableBlocks
          /\ Entries(disk.tables[i]) \in Seq(Version)
          /\ Entries(disk.tables[i]) = InKeyOrder(TableSet(disk.tables[i]))
    /\ stats \in [{"live", "tombs", "bytes"} -> 0 .. (CounterModulus - 1)]
    /\ pc \in {"idle", "again", "append", "rotate", "apply"}

\* Whatever was inserted and removed: the records lie end to end in the arena,
\* every bucket points at one of its own, and the probe for a record's name,
\* which removals never leave a vacancy in, still comes to it.
MemtableSound ==
    /\ mem.index \in [BucketIndex -> Bucket]
    /\ Len(mem.data) <= DataSize
    /\ Tiled(mem)
    /\ Indexed(mem)

\* lookup_committed_unsafe()
LookupCommitted(db, key) ==
    LET slot == NamespaceSlot(db.spaces, NamespaceOf[key])
        record == LookupMemtable(db.mem, slot, key)
    IN  IF Contains(db.spaces, NamespaceOf[key]) /\ record # NoVersion
        THEN record ELSE LookupTables(db.tables, key)

\* What a reader gets: a tombstone and an unknown key are the same.
Visible(v) == IF v.del THEN NoVersion ELSE v

ShowsTruth(db) == \A k \in Keys : Visible(LookupCommitted(db, k)) = Visible(truth[k])

\* A lookup (hash probe, filter, block search, order of tables) returns for
\* every key exactly what was committed last, however the versions are spread.
LookupExact == pc # "apply" => ShowsTruth(InRam)

\* preflight_memtable_transaction_unsafe() suffices: once the transaction is
\* in the log, apply has a slot, a bucket and room for each record, although the
\* append may have flushed or compacted in between.
ApplyFits ==
    pc = "apply" =>
        /\ NamespaceSlot(spaces, Namespace(txn.muts)) # 0
        /\ \A n \in DOMAIN txn.muts :
              LET m == Applied(InRam, SubSeq(txn.muts, 1, n), txn.prev, next).mem
              IN  m.count <= Buckets /\ Len(m.data) <= DataSize

Stored == MemtableVersions(mem) \cup AllVersions(disk.tables)

\* logical_record_size(): "Using the SSTable record header here keeps commit,
\* recovery, and compaction accounting equal": the counters that commit() keeps
\* are those that counting the newest versions gives.
AccountingExact == stats = Recount(Stored)

\* The same, unless a compaction within the append has dropped a tombstone that
\* the transaction then subtracts again.
AccountingExactUnlessStale == stale \/ AccountingExact

\* The consequence of equal accounting: init() opens whatever commit() accepted.
RestartAccepted == Recovered(disk).error = "none"

SameAsInRam(r) ==
    /\ r.error = "none"
    /\ ShowsTruth(r)
    /\ pc # "apply" => r.stats = stats

\* Recovery from the newest copy is accepted and gives the same keys, names
\* and counters as those that were in RAM.
RestartServesUnlessStale == stale \/ SameAsInRam(Recovered(disk))

\* validate_compaction_capacity(): "Next-fit block packing guarantees ... a
\* simple hard bound": a compaction never lacks room for what commit() accepted.
CompactionFits ==
    stale \/ Merge(Sources(mem, disk.tables), next).error \notin {"nomem", "corrupt"}

ExactOrNoRoom(r) == r.error = "nomem" \/ (r.error = "none" /\ ShowsTruth(r))

\* If the newest copy is lost, replay from the other one, which has to take up
\* what a flush had moved to a table, gives the same, or is refused because
\* the memtable has no room for it and replay does not flush.
FallbackExact == older = disk \/ stale \/ ExactOrNoRoom(Recovered(older))

\* What the newest versions would be with the first n mutations.
StoredWith(muts, n) == Stored \cup {VersionFrom(muts[i], next) : i \in 1 .. n}

\* commit() refuses a transaction, after its flush, only if an empty memtable
\* cannot hold it or the state with it exceeds max_live_bytes or the names.
RefusedOnlyWhenFull ==
    pc = "again" /\ ~stale /\ Preflight(InRam, txn.muts).error # "none" =>
        \/ Len(txn.muts) > Buckets
        \/ MapThenSumSet(LAMBDA i : RecordSize(VersionFrom(txn.muts[i], next)),
                         DOMAIN txn.muts) > DataSize
        \/ NamespaceSlot(spaces, Namespace(txn.muts)) = 0
        \/ \E n \in DOMAIN txn.muts : Recount(StoredWith(txn.muts, n)).bytes > MaxLive

=============================================================================
