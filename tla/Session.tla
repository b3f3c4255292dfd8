------------------------------- MODULE Session -------------------------------
(***************************************************************************)
(* The resources on9kvdb hands to its callers -- handles, the transaction, *)
(* the value writer and value readers -- and the two value banks they lead *)
(* to.  Every call runs under the operation lock, so each one is a single  *)
(* action; what is interleaved is whole calls of different callers, each   *)
(* with the tokens it kept.  Only commit() takes two steps, because of     *)
(* what a power cut finds on the medium while it writes the log.           *)
(*                                                                         *)
(* A token is a slot and a generation.  A refused call changes nothing and *)
(* is a stuttering step: an action is the call on a token that is          *)
(* accepted.  Sizes are counted in half chunks, so that a writer can keep  *)
(* a partly filled chunk between two calls; size 0 stands for a value that *)
(* is stored inline, whose bytes the transaction keeps in its staging      *)
(* arena.  A chunk that is written is volatile until the storage is        *)
(* synchronized.  What the manifest, the WAL and the tables go through *)
(* in a commit or a compaction is the subject of Engine.tla; here they     *)
(* succeed, fail or latch the storage fault.                               *)
(***************************************************************************)
EXTENDS Integers, FiniteSets, Sequences

CONSTANTS
    Keys,          \* keys of the one namespace, integers: they are sorted
    HandleSlots,   \* CONFIG_ON9KVDB_MAX_OPEN_HANDLES slots
    ReaderSlots,   \* CONFIG_ON9KVDB_MAX_VALUE_READERS slots
    MaxMutations,  \* CONFIG_ON9KVDB_MAX_TRANSACTION_MUTATIONS
    InlineSizes,   \* sizes of the inline values, in bytes
    StagingSize,   \* CONFIG_ON9KVDB_TRANSACTION_STAGING_SIZE
    Sizes,         \* sizes of the external values, in half chunks
    BankChunks,    \* chunks a value bank holds
    MaxHandleGeneration,  \* max_handle_generation
    FirstTransaction,     \* the next transaction generation when a run begins
    MaxBankGeneration     \* bound: no compaction beyond this bank generation

ASSUME KeysAssumption == Keys \subseteq Nat /\ IsFiniteSet(Keys)
ASSUME SizesAssumption == Sizes \subseteq Nat \ {0} /\ InlineSizes \subseteq 0 .. StagingSize
ASSUME BoundsAssumption ==
    /\ MaxMutations \in Nat
    /\ StagingSize \in Nat
    /\ BankChunks \in Nat
    /\ MaxHandleGeneration \in Nat \ {0}
    /\ FirstTransaction \in 1 .. MaxHandleGeneration
    /\ MaxBankGeneration \in Nat \ {0}

VARIABLES
    up,        \* initialized
    faulted,   \* storage_faulted
    handles,   \* the handle slots
    hcounter,  \* handle_generation_counter: handles, readers and writers
    tcounter,  \* transaction_generation_counter
    txn,       \* the transaction slot
    writer,    \* the value writer slot and its buffer
    readers,   \* the reader slots
    bank,      \* the value banks: active one, generation, tail and chunks,
               \* those not yet synchronized, and value_bank_dirty_mask
    stored,    \* the committed value of each key
    appending, \* commit() is writing the transaction's frames to the WAL
    seen       \* observation: the greatest generations ever handed out

vars == <<up, faulted, handles, hcounter, tcounter, txn, writer, readers,
          bank, stored, appending, seen>>

Two     == {0, 1}
Offsets == 0 .. (BankChunks - 1)

-----------------------------------------------------------------------------
(* Values and chunks.  A value is named by the generation of the writer    *)
(* that wrote it, which also stands for the checksum of its bytes.         *)

Chunks(size) == (size + 1) \div 2

Absent == [kind |-> "absent"]
Inline == [kind |-> "inline"]

\* A staged value that is stored inline: where its bytes lie in the arena.
StagedInline == [kind : {"staged"}, at : Nat, size : InlineSizes]

Reference == [kind : {"external"}, bank : Two, gen : Nat, first : Nat,
              size : Sizes, id : Nat]
Value     == {Absent, Inline} \cup Reference

External(v) == v.kind = "external"

Unstaged == [kind |-> "unstaged"]

\* A value chunk: its header's bank generation and first chunk offset, its
\* place in the value, and the value whose bytes it carries.
Chunk == [gen : Nat, first : Nat, idx : Nat, id : Nat]
NoChunk == [gen |-> 0, first |-> 0, idx |-> 0, id |-> 0]
Junk  == 0

ChunkOf(r, i) == [gen |-> r.gen, first |-> r.first, idx |-> i, id |-> r.id]

\* What decode_value_chunk(), the header checks and the whole-value checksum
\* establish for a reference.
ReadsBack(r) ==
    \A i \in 0 .. (Chunks(r.size) - 1) :
        /\ r.first + i < BankChunks
        /\ bank.chunk[r.bank][r.first + i] = ChunkOf(r, i)

\* value_ref_matches_bank_unsafe()
MatchesActiveBank(r, tail) ==
    /\ r.bank = bank.active
    /\ r.gen = bank.gen[bank.active]
    /\ r.first + Chunks(r.size) <= tail

-----------------------------------------------------------------------------
(* Slots and tokens.                                                       *)

FreeHandle == [gen |-> 0, used |-> FALSE, txn |-> FALSE, rw |-> FALSE]
NoTxn == [gen |-> 0, active |-> FALSE, slot |-> 0, hgen |-> 0,
          muts |-> [k \in Keys |-> Unstaged], arena |-> <<>>]
FreeReader == [gen |-> 0, used |-> FALSE, value |-> Absent]
NoWriter == [gen |-> 0, active |-> FALSE, txn |-> 0, key |-> 0, size |-> 0,
             written |-> 0, held |-> 0, next |-> 0, intact |-> TRUE,
             bank |-> 0, bgen |-> 0, first |-> 0]

\* A slot that is cleared keeps its generation.
Cleared(slot, blank) == [blank EXCEPT !.gen = slot.gen]

\* Faulty variants of NextGeneration: it does not stop, or starts again.
NextGenerationUnbounded(g) == g + 1
NextGenerationWrapping(g) == IF g = MaxHandleGeneration THEN 1 ELSE g + 1

NextGeneration(g) == IF g = MaxHandleGeneration THEN 0 ELSE g + 1

\* get_handle_slot_unsafe()
HandleOf(i, g) == handles[i].used /\ handles[i].gen = g

\* get_transaction_unsafe()
TransactionOf(g) ==
    /\ txn.active /\ txn.gen = g
    /\ HandleOf(txn.slot, txn.hgen)
    /\ handles[txn.slot].txn

\* get_value_reader_unsafe()
ReaderOf(i, g) == readers[i].used /\ readers[i].gen = g

\* get_value_writer_unsafe()
WriterOf(g) == writer.active /\ writer.gen = g

Generations == 1 .. MaxHandleGeneration

Raised(p, g) == IF g > p THEN g ELSE p

FirstFree(slots) ==
    {i \in DOMAIN slots : ~slots[i].used /\ \A j \in DOMAIN slots : j < i => slots[j].used}

\* acquire_operation_lock()
Ready == up /\ ~faulted /\ ~appending

-----------------------------------------------------------------------------
Init ==
    /\ up = TRUE
    /\ faulted = FALSE
    /\ handles = [i \in HandleSlots |-> FreeHandle]
    /\ hcounter = 1
    /\ tcounter = FirstTransaction
    /\ txn = NoTxn
    /\ writer = NoWriter
    /\ readers = [i \in ReaderSlots |-> FreeReader]
    /\ bank = [active |-> 0,
               gen    |-> [b \in Two |-> 1],
               tail   |-> [b \in Two |-> 0],
               chunk  |-> [b \in Two |-> [o \in Offsets |-> NoChunk]],
               unsynced |-> {}, dirty |-> {}]
    /\ stored = [k \in Keys |-> Absent]
    /\ appending = FALSE
    /\ seen = [h |-> 0, t |-> FirstTransaction - 1]

\* A handle, reader or writer takes the next generation; 0 means that none
\* is left.
TakeGeneration ==
    /\ hcounter # 0
    /\ hcounter' = NextGeneration(hcounter)
    /\ seen' = [seen EXCEPT !.h = Raised(@, hcounter)]

open(rw) ==
    /\ Ready
    /\ \E i \in FirstFree(handles) :
          handles' = [handles EXCEPT ![i] =
                        [gen |-> hcounter, used |-> TRUE, txn |-> FALSE, rw |-> rw]]
    /\ TakeGeneration
    /\ UNCHANGED <<up, faulted, tcounter, txn, writer, readers, bank, stored,
                   appending>>

close_handle(i, g) ==
    /\ Ready
    /\ HandleOf(i, g)
    /\ ~handles[i].txn
    /\ handles' = [handles EXCEPT ![i] = Cleared(@, FreeHandle)]
    /\ UNCHANGED <<up, faulted, hcounter, tcounter, txn, writer, readers, bank,
                   stored, appending, seen>>

begin(i, g) ==
    /\ Ready
    /\ HandleOf(i, g)
    /\ handles[i].rw
    /\ ~txn.active /\ ~handles[i].txn
    /\ tcounter # 0
    /\ tcounter' = NextGeneration(tcounter)
    /\ seen' = [seen EXCEPT !.t = Raised(@, tcounter)]
    /\ txn' = [NoTxn EXCEPT !.gen = tcounter, !.active = TRUE, !.slot = i, !.hgen = g]
    /\ handles' = [handles EXCEPT ![i].txn = TRUE]
    /\ UNCHANGED <<up, faulted, hcounter, writer, readers, bank, stored,
                   appending>>

(* The staging arena: the bytes of the values staged inline, one behind    *)
(* the other.  A byte is the key and size of its value and its place in it. *)

BytesOf(k, n) == [i \in 1 .. n |-> <<k, n, i>>]

InArena(m) == m.kind = "staged"

StagedBytes(m) == IF InArena(m) THEN m.size ELSE 0

\* stage_value_unsafe(): the bytes that are replaced are given up before the
\* limits are checked, and there is one mutation per key.
StagingFits(k, n) ==
    /\ Len(txn.arena) - StagedBytes(txn.muts[k]) + n <= StagingSize
    /\ \/ txn.muts[k] # Unstaged
       \/ Cardinality({j \in Keys : txn.muts[j] # Unstaged}) < MaxMutations

Shifted(m, n) == [m EXCEPT !.at = @ - n]

\* A faulty variant of WithoutBytes: the value right behind is not shifted.
WithoutBytesOffByOne(t, k) ==
    LET m == t.muts[k]
    IN  [t EXCEPT
          !.arena = SubSeq(@, 1, m.at) \o SubSeq(@, m.at + m.size + 1, Len(@)),
          !.muts = [j \in Keys |->
              IF InArena(@[j]) /\ @[j].at > m.at + m.size
              THEN Shifted(@[j], m.size) ELSE @[j]]]

\* The tail of the arena moves over the bytes of k, and with it the offsets.
WithoutBytes(t, k) ==
    LET m == t.muts[k]
    IN  [t EXCEPT
          !.arena = SubSeq(@, 1, m.at) \o SubSeq(@, m.at + m.size + 1, Len(@)),
          !.muts = [j \in Keys |->
              IF j # k /\ InArena(@[j]) /\ @[j].size > 0 /\ @[j].at > m.at
              THEN Shifted(@[j], m.size) ELSE @[j]]]

Replacing(t, k) == IF StagedBytes(t.muts[k]) > 0 THEN WithoutBytes(t, k) ELSE t

StagedWithout(t, k, m) == [Replacing(t, k) EXCEPT !.muts[k] = m]

StagedWithin(t, k, n) ==
    LET r == Replacing(t, k)
    IN  [r EXCEPT !.muts[k] = [kind |-> "staged", at |-> Len(r.arena), size |-> n],
                  !.arena = @ \o BytesOf(k, n)]

\* set() of a value that is stored inline.
set_inline(g) ==
    /\ Ready
    /\ TransactionOf(g)
    /\ \E k \in Keys, n \in InlineSizes :
          /\ StagingFits(k, n)
          /\ txn' = StagedWithin(txn, k, n)
    /\ UNCHANGED <<up, faulted, handles, hcounter, tcounter, writer, readers,
                   bank, stored, appending, seen>>

\* lookup_transaction_unsafe(): the staged mutation, else the committed value.
erase_key(g) ==
    /\ Ready
    /\ TransactionOf(g)
    /\ \E k \in Keys :
          /\ Absent # (IF txn.muts[k] # Unstaged THEN txn.muts[k] ELSE stored[k])
          /\ StagingFits(k, 0)
          /\ txn' = StagedWithout(txn, k, Absent)
    /\ UNCHANGED <<up, faulted, handles, hcounter, tcounter, writer, readers,
                   bank, stored, appending, seen>>

-----------------------------------------------------------------------------
(* compact_tables_unsafe(), as far as value banks are concerned: the       *)
(* values of all keys, then those the transaction has staged, are copied   *)
(* into the other bank from its beginning, and the manifest switches to    *)
(* it.  An outcome says what became of the banks and of the references.    *)

Destination == 1 - bank.active

\* A faulty variant of Pinned: readers do not count.
PinnedNever(b) == b \notin Two

\* value_bank_is_pinned_unsafe()
Pinned(b) ==
    \E i \in ReaderSlots :
        readers[i].used /\ External(readers[i].value) /\ readers[i].value.bank = b

\* value_bank_has_staged_reference_unsafe()
HasStagedReference(b) ==
    txn.active /\ \E k \in Keys : External(txn.muts[k]) /\ txn.muts[k].bank = b

Sources ==
    {[rank |-> 0, key |-> k, ref |-> stored[k]] : k \in {j \in Keys : External(stored[j])}}
    \cup
    {[rank |-> 1, key |-> k, ref |-> txn.muts[k]] :
        k \in {j \in Keys : txn.active /\ External(txn.muts[j])}}

ChunksOf(S) ==
    Cardinality(UNION {{x} \X (0 .. (Chunks(x.ref.size) - 1)) : x \in S})

CopiedBefore(x) ==
    {y \in Sources : y.rank < x.rank \/ (y.rank = x.rank /\ y.key < x.key)}

\* copy_external_value_unsafe()
Moved(x) ==
    [x.ref EXCEPT !.bank = Destination,
                  !.gen = bank.gen[Destination] + 1,
                  !.first = ChunksOf(CopiedBefore(x))]

CopyAt(o) ==
    LET x == CHOOSE y \in Sources :
                /\ Moved(y).first <= o
                /\ o < Moved(y).first + Chunks(y.ref.size)
    IN  ChunkOf(Moved(x), o - Moved(x).first)

\* The banks once n chunks are copied.
Copied(n) ==
    [bank EXCEPT !.chunk[Destination] =
                    [o \in Offsets |-> IF o < n THEN CopyAt(o) ELSE @[o]],
                 !.unsynced = @ \cup ({Destination} \X (0 .. (n - 1)))]

\* sync_storage_unsafe()
Synced(b) == [b EXCEPT !.unsynced = {}]

Switched(n) ==
    [Synced(Copied(n)) EXCEPT !.active = Destination,
                      !.gen[Destination] = @ + 1,
                      !.tail[Destination] = n]

MovedValue(v, rank, k) ==
    IF External(v) THEN Moved([rank |-> rank, key |-> k, ref |-> v]) ELSE v

MovedStored == [k \in Keys |-> MovedValue(stored[k], 0, k)]

\* A faulty variant of MovedStaged: staged values are left where they are.
StagedNotMoved == txn.muts

MovedStaged ==
    [k \in Keys |-> IF txn.active THEN MovedValue(txn.muts[k], 1, k) ELSE txn.muts[k]]

NotCompacted ==
    [ok |-> TRUE, faulted |-> FALSE, bank |-> bank, stored |-> stored,
     muts |-> txn.muts, copied |-> FALSE]

CompactionAllowed ==
    /\ ~Pinned(Destination)
    /\ ~HasStagedReference(Destination)
    /\ bank.gen[Destination] < MaxBankGeneration

\* Every source still verifies, staged ones lie in the active bank, and all
\* of them fit.
CompactionCopies ==
    /\ \A x \in Sources : ReadsBack(x.ref) /\ x.ref.bank # Destination
    /\ \A k \in Keys : txn.active /\ External(txn.muts[k]) =>
          txn.muts[k].bank = bank.active /\ txn.muts[k].gen = bank.gen[bank.active]
    /\ ChunksOf(Sources) <= BankChunks

\* Given up after n chunks; nothing refers to them.
CompactionFails(n) ==
    [NotCompacted EXCEPT !.ok = FALSE, !.bank = Copied(n), !.copied = n > 0]

CompactionDone ==
    [ok |-> TRUE, faulted |-> FALSE, bank |-> Switched(ChunksOf(Sources)),
     stored |-> MovedStored, muts |-> MovedStaged, copied |-> Sources # {}]

\* A manifest write that fails latches the fault: the bank that recovery
\* selects is the old or the new one.
CompactionOutcomes ==
    IF ~CompactionAllowed
    THEN {[NotCompacted EXCEPT !.ok = FALSE]}
    ELSE {CompactionFails(n) : n \in {m \in 0 .. ChunksOf(Sources) : m <= BankChunks}}
         \cup
         IF CompactionCopies
         THEN {CompactionDone,
               [CompactionDone EXCEPT !.ok = FALSE, !.faulted = TRUE],
               [CompactionFails(ChunksOf(Sources)) EXCEPT !.faulted = TRUE]}
         ELSE {}

\* The copies go through the value writer's buffer.
Scribbled(c) == [writer EXCEPT !.intact = @ /\ ~(writer.active /\ c.copied)]

-----------------------------------------------------------------------------
(* The value writer.                                                       *)

Room(b, n) == b.tail[b.active] + Chunks(n) <= BankChunks

\* A large value that does not fit behind the tail makes the call compact.
BeforeWriting(n) ==
    IF n = 0 \/ Room(bank, n) THEN {NotCompacted} ELSE CompactionOutcomes

NewWriter(g, k, n, b) ==
    [NoWriter EXCEPT
        !.gen = hcounter, !.active = TRUE, !.txn = g, !.key = k, !.size = n,
        !.next = IF n = 0 THEN 0 ELSE b.tail[b.active],
        !.bank = IF n = 0 THEN 0 ELSE b.active,
        !.bgen = IF n = 0 THEN 0 ELSE b.gen[b.active],
        !.first = IF n = 0 THEN 0 ELSE b.tail[b.active]]

begin_value_write(g) ==
    /\ Ready
    /\ TransactionOf(g)
    /\ ~writer.active /\ hcounter # 0
    /\ \E n \in Sizes \cup {0} : \E c \in BeforeWriting(n) :
          /\ bank' = c.bank
          /\ faulted' = c.faulted
          /\ stored' = c.stored
          /\ txn' = [txn EXCEPT !.muts = c.muts]
          /\ IF c.ok /\ (n = 0 \/ Room(c.bank, n))
             THEN TakeGeneration /\ \E k \in Keys : writer' = NewWriter(g, k, n, c.bank)
             ELSE UNCHANGED <<hcounter, seen>> /\ writer' = Scribbled(c)
    /\ UNCHANGED <<up, handles, tcounter, readers, appending>>

\* An inline value counts as one half chunk.
Expected(w) == IF w.size = 0 THEN 1 ELSE w.size

WrittenRef(w) ==
    [kind |-> "external", bank |-> w.bank, gen |-> w.bgen, first |-> w.first,
     size |-> w.size, id |-> w.gen]

\* flush_value_writer_chunk_unsafe(): the buffer goes to the bank, its bytes
\* being the writer's own or not.
FlushChunk(p) ==
    [w |-> [p.w EXCEPT !.next = @ + 1, !.held = 0, !.intact = TRUE],
     b |-> [p.b EXCEPT !.chunk[p.w.bank][p.w.next] =
              [ChunkOf(WrittenRef(p.w), p.w.next - p.w.first)
                 EXCEPT !.id = IF p.w.intact THEN p.w.gen ELSE Junk],
                   !.unsynced = @ \cup {<<p.w.bank, p.w.next>>}]]

Buffered(p) ==
    [p EXCEPT !.w.written = @ + 1, !.w.held = IF p.w.size = 0 THEN 0 ELSE @ + 1]

FlushDue(w) == w.size # 0 /\ (w.held = 2 \/ (w.written = Expected(w) /\ w.held # 0))

\* write_value_unsafe() of half a chunk by a writer with its bank: a buffer
\* left full by a write that failed is written first; the one that becomes
\* full or complete is written at once, or that write fails.
WriteOutcomes(p) ==
    LET q == Buffered(IF FlushDue(p.w) THEN FlushChunk(p) ELSE p)
    IN  {q} \cup IF FlushDue(q.w) THEN {FlushChunk(q)} ELSE {}

write_value(g) ==
    /\ Ready
    /\ WriterOf(g)
    /\ writer.written < Expected(writer)
    /\ \E q \in WriteOutcomes([w |-> writer, b |-> bank]) : writer' = q.w /\ bank' = q.b
    /\ UNCHANGED <<up, faulted, handles, hcounter, tcounter, txn, readers,
                   stored, appending, seen>>

Reserved(b, i, tail) == [b EXCEPT !.tail[i] = tail, !.dirty = @ \cup {i}]

\* finish_value_write(): the value is staged and its chunks are reserved, or
\* staging it is refused; the writer ends in any case.  The size an inline
\* value was announced with is chosen here.
finish_value_write(g) ==
    /\ Ready
    /\ WriterOf(g)
    /\ writer.written = Expected(writer) /\ writer.held = 0
    /\ \E n \in IF writer.size = 0 THEN InlineSizes ELSE {0} :
          IF /\ TransactionOf(writer.txn)
             /\ StagingFits(writer.key, n)
             /\ writer.size # 0 => MatchesActiveBank(WrittenRef(writer), BankChunks)
          THEN IF writer.size = 0
               THEN txn' = StagedWithin(txn, writer.key, n) /\ UNCHANGED bank
               ELSE /\ txn' = StagedWithout(txn, writer.key, WrittenRef(writer))
                    /\ bank' = Reserved(bank, writer.bank, writer.next)
          ELSE UNCHANGED <<txn, bank>>
    /\ writer' = Cleared(writer, NoWriter)
    /\ UNCHANGED <<up, faulted, handles, hcounter, tcounter, readers, stored,
                   appending, seen>>

abort_value_write(g) ==
    /\ Ready
    /\ WriterOf(g)
    /\ writer' = Cleared(writer, NoWriter)
    /\ UNCHANGED <<up, faulted, handles, hcounter, tcounter, txn, readers, bank,
                   stored, appending, seen>>

\* The banks once set() has written the first m chunks of r.
Laid(b, r, m) ==
    [b EXCEPT !.chunk[b.active] = [o \in Offsets |->
                    IF r.first <= o /\ o < r.first + m
                    THEN ChunkOf(r, o - r.first) ELSE @[o]],
              !.unsynced = @ \cup ({r.bank} \X (r.first .. (r.first + m - 1)))]

\* set() of a large value is a whole writer's life in one call ...
set_large(g) ==
    /\ Ready
    /\ TransactionOf(g)
    /\ ~writer.active /\ hcounter # 0
    /\ \E k \in Keys, n \in Sizes : \E c \in BeforeWriting(n) :
          /\ faulted' = c.faulted
          /\ stored' = c.stored
          /\ IF c.ok /\ Room(c.bank, n)
             THEN LET ref == WrittenRef(NewWriter(g, k, n, c.bank))
                      compacted == [txn EXCEPT !.muts = c.muts]
                  IN  /\ TakeGeneration
                      /\ writer' = [NoWriter EXCEPT !.gen = hcounter]
                      /\ \/ /\ StagingFits(k, 0)
                            /\ txn' = StagedWithout(compacted, k, ref)
                            /\ bank' = Reserved(Laid(c.bank, ref, Chunks(n)), ref.bank,
                                                ref.first + Chunks(n))
                         \/ /\ \E m \in 0 .. Chunks(n) :
                                  /\ m = Chunks(n) => ~StagingFits(k, 0)
                                  /\ bank' = Laid(c.bank, ref, m)
                            /\ txn' = compacted
             ELSE /\ UNCHANGED <<hcounter, seen>>
                  /\ writer' = Scribbled(c)
                  /\ bank' = c.bank
                  /\ txn' = [txn EXCEPT !.muts = c.muts]
    /\ UNCHANGED <<up, handles, tcounter, readers, appending>>

\* ... and when it fails it clears the writer, its own or not: with a writer
\* active the call is refused, whatever its transaction token.
set_large_refused ==
    /\ Ready
    /\ writer.active
    /\ writer' = Cleared(writer, NoWriter)
    /\ UNCHANGED <<up, faulted, handles, hcounter, tcounter, txn, readers, bank,
                   stored, appending, seen>>

-----------------------------------------------------------------------------
(* The end of a transaction.                                               *)

\* A faulty variant of ClearTransaction: the handle is not released.
ClearTransactionOnly ==
    /\ txn' = Cleared(txn, NoTxn)
    /\ UNCHANGED handles

\* clear_transaction_unsafe()
ClearTransaction ==
    /\ txn' = Cleared(txn, NoTxn)
    /\ handles' = IF txn.active /\ HandleOf(txn.slot, txn.hgen)
                  THEN [handles EXCEPT ![txn.slot].txn = FALSE]
                  ELSE handles

\* A faulty variant of WriterOfTransaction: the writer is not looked at.
NoWriterOfTransaction(g) == g \notin Generations

\* The call's own writer must have ended.
WriterOfTransaction(g) == writer.active /\ writer.txn = g

Committed(m) == IF InArena(m) THEN Inline ELSE m

Merged(values, muts) ==
    [k \in Keys |-> IF muts[k] = Unstaged THEN values[k] ELSE Committed(muts[k])]

\* A faulty variant of SyncDirtyBanks: the chunks are left to the append's sync.
DirtyBanksNotSynced(b) == [b EXCEPT !.dirty = {}]

SyncDirtyBanks(b) == IF b.dirty = {} THEN b ELSE [Synced(b) EXCEPT !.dirty = {}]

\* commit(): the memtable flush or the WAL rotation it needs may compact.
\* The call fails and the transaction stays open, or its frames are written
\* once the value banks are synchronized.
commit(g) ==
    /\ Ready
    /\ TransactionOf(g)
    /\ ~WriterOfTransaction(g)
    /\ IF \A k \in Keys : txn.muts[k] = Unstaged
       THEN ClearTransaction /\ UNCHANGED <<bank, faulted, stored, writer, appending>>
       ELSE \E c \in {NotCompacted} \cup CompactionOutcomes :
               /\ txn' = [txn EXCEPT !.muts = c.muts]
               /\ stored' = c.stored
               /\ faulted' = c.faulted
               /\ writer' = Scribbled(c)
               /\ \/ bank' = c.bank /\ UNCHANGED appending
                  \/ c.ok /\ bank' = SyncDirtyBanks(c.bank) /\ appending' = TRUE
               /\ UNCHANGED handles
    /\ UNCHANGED <<up, hcounter, tcounter, readers, seen>>

\* The transaction is durable; if it cannot be published the fault is latched.
append_synced ==
    /\ appending
    /\ appending' = FALSE
    /\ stored' = Merged(stored, txn.muts)
    /\ bank' = Synced(bank)
    /\ faulted' \in BOOLEAN
    /\ ClearTransaction
    /\ UNCHANGED <<up, hcounter, tcounter, writer, readers, seen>>

\* A frame cannot be written or synchronized: the transaction stays open.
append_fails ==
    /\ appending
    /\ appending' = FALSE
    /\ UNCHANGED <<up, faulted, handles, hcounter, tcounter, txn, writer,
                   readers, bank, stored, seen>>

abort(g) ==
    /\ Ready
    /\ TransactionOf(g)
    /\ ~WriterOfTransaction(g)
    /\ ClearTransaction
    /\ UNCHANGED <<up, faulted, hcounter, tcounter, writer, readers, bank,
                   stored, appending, seen>>

-----------------------------------------------------------------------------
(* Value readers.                                                          *)

open_value(i, g) ==
    /\ Ready
    /\ HandleOf(i, g)
    /\ \E k \in Keys, r \in FirstFree(readers) :
          /\ stored[k] # Absent
          /\ External(stored[k]) => MatchesActiveBank(stored[k], bank.tail[bank.active])
          /\ readers' = [readers EXCEPT ![r] =
                        [gen |-> hcounter, used |-> TRUE, value |-> stored[k]]]
    /\ TakeGeneration
    /\ UNCHANGED <<up, faulted, handles, tcounter, txn, writer, bank, stored,
                   appending>>

close_reader(i, g) ==
    /\ Ready
    /\ ReaderOf(i, g)
    /\ readers' = [readers EXCEPT ![i] = Cleared(@, FreeReader)]
    /\ UNCHANGED <<up, faulted, handles, hcounter, tcounter, txn, writer, bank,
                   stored, appending, seen>>

-----------------------------------------------------------------------------
(* deinit() and the next init().  The generation counters survive both, as *)
(* members of the database object.                                         *)

Busy ==
    \/ txn.active
    \/ \E i \in HandleSlots : handles[i].used
    \/ \E i \in ReaderSlots : readers[i].used
    \/ writer.active

ResetSlots ==
    /\ handles' = [i \in HandleSlots |-> FreeHandle]
    /\ txn' = NoTxn
    /\ writer' = NoWriter
    /\ readers' = [i \in ReaderSlots |-> FreeReader]

deinit(force) ==
    /\ up
    /\ ~appending
    /\ Busy => force
    /\ up' = FALSE
    /\ faulted' = FALSE
    /\ ResetSlots
    /\ bank' = [bank EXCEPT !.dirty = {}]
    /\ UNCHANGED <<hcounter, tcounter, stored, appending, seen>>

\* The recovered tail is the one of the last manifest write, moved behind
\* every value that the WAL refers to.
init ==
    /\ ~up
    /\ up' = TRUE
    /\ \E t \in 0 .. bank.tail[bank.active] :
          /\ \A k \in Keys : External(stored[k]) => stored[k].first + Chunks(stored[k].size) <= t
          /\ bank' = [bank EXCEPT !.tail[bank.active] = t]
    /\ UNCHANGED <<faulted, handles, hcounter, tcounter, txn, writer, readers,
                   stored, appending, seen>>

Next ==
    \/ \E rw \in BOOLEAN : open(rw)
    \/ \E i \in HandleSlots, g \in Generations : close_handle(i, g)
    \/ \E i \in HandleSlots, g \in Generations : begin(i, g)
    \/ \E g \in Generations : set_inline(g)
    \/ \E g \in Generations : erase_key(g)
    \/ \E g \in Generations : set_large(g)
    \/ set_large_refused
    \/ \E g \in Generations : begin_value_write(g)
    \/ \E g \in Generations : write_value(g)
    \/ \E g \in Generations : finish_value_write(g)
    \/ \E g \in Generations : abort_value_write(g)
    \/ \E g \in Generations : commit(g)
    \/ append_synced
    \/ append_fails
    \/ \E g \in Generations : abort(g)
    \/ \E i \in HandleSlots, g \in Generations : open_value(i, g)
    \/ \E i \in ReaderSlots, g \in Generations : close_reader(i, g)
    \/ \E force \in BOOLEAN : deinit(force)
    \/ init

Spec == Init /\ [][Next]_vars

-----------------------------------------------------------------------------
HandleSlot == [gen : 0 .. MaxHandleGeneration, used : BOOLEAN, txn : BOOLEAN, rw : BOOLEAN]
ReaderSlot == [gen : 0 .. MaxHandleGeneration, used : BOOLEAN, value : Value]
TxnSlot    == [gen : 0 .. MaxHandleGeneration, active : BOOLEAN,
               slot : HandleSlots \cup {0}, hgen : 0 .. MaxHandleGeneration,
               muts : [Keys -> Value \cup StagedInline \cup {Unstaged}],
               arena : Seq(Keys \X InlineSizes \X Nat)]

(* The slots, counters and banks have their types: generations stay within *)
(* max_handle_generation, neither the tail of a bank nor the next chunk of *)
(* the writer passes the bank's end, and the staging arena is never        *)
(* overrun.                                                                *)
TypeOK ==
    /\ up \in BOOLEAN /\ faulted \in BOOLEAN
    /\ handles \in [HandleSlots -> HandleSlot]
    /\ readers \in [ReaderSlots -> ReaderSlot]
    /\ txn \in TxnSlot /\ Len(txn.arena) <= StagingSize
    /\ hcounter \in 0 .. MaxHandleGeneration
    /\ tcounter \in 0 .. MaxHandleGeneration
    /\ writer.gen \in 0 .. MaxHandleGeneration
    /\ writer.written <= Expected(writer) /\ writer.held \in 0 .. 2
    /\ writer.next <= BankChunks
    /\ bank.active \in Two
    /\ bank.gen \in [Two -> 1 .. MaxBankGeneration]
    /\ bank.tail \in [Two -> 0 .. BankChunks]
    /\ bank.chunk \in [Two -> [Offsets -> Chunk]]
    /\ bank.unsynced \subseteq Two \X Offsets /\ bank.dirty \subseteq Two
    /\ appending \in BOOLEAN
    /\ stored \in [Keys -> Value]

(* The transaction and its handle agree: the handle slot that an active    *)
(* transaction names is open with that generation and marked busy, and no  *)
(* other handle is marked busy -- such a handle could never be closed.     *)
TransactionOwned ==
    \A i \in HandleSlots :
        handles[i].txn <=>
            txn.active /\ txn.slot = i /\ HandleOf(i, txn.hgen)

(* An active writer belongs to the transaction that is active now, and the *)
(* chunks of a large value continue the tail of the bank the manifest      *)
(* calls active: neither commit, abort nor compaction got in between.      *)
WriterFollowsTransaction ==
    writer.active =>
        /\ TransactionOf(writer.txn)
        /\ writer.size # 0 =>
              /\ writer.bank = bank.active
              /\ writer.bgen = bank.gen[bank.active]
              /\ writer.first = bank.tail[bank.active]

(* Every external value a caller can still reach -- committed, staged by   *)
(* the open transaction, or held by an open reader -- reads back with the  *)
(* bytes that were written, through compactions, aborted writers and       *)
(* recycled banks.                                                         *)
ReachableValuesReadBack ==
    /\ \A k \in Keys : External(stored[k]) => ReadsBack(stored[k])
    /\ \A k \in Keys : External(txn.muts[k]) => ReadsBack(txn.muts[k])
    /\ \A i \in ReaderSlots : External(readers[i].value) => ReadsBack(readers[i].value)

(* What commit() is about to log can be recovered: a staged reference lies *)
(* in the active bank and its generation, below the reserved tail.         *)
StagedInActiveBank ==
    Ready => \A k \in Keys :
        External(txn.muts[k]) => MatchesActiveBank(txn.muts[k], bank.tail[bank.active])

Durable(r) ==
    \A i \in 0 .. (Chunks(r.size) - 1) : <<r.bank, r.first + i>> \notin bank.unsynced

(* A power cut never leaves a reference to chunks that are not on the      *)
(* medium: those of a committed value, and those the frames being written  *)
(* refer to, were synchronized before, whatever compactions and failed     *)
(* attempts came in between.                                               *)
LoggedValuesDurable ==
    /\ \A k \in Keys : External(stored[k]) => Durable(stored[k])
    /\ appending => \A k \in Keys : External(txn.muts[k]) => Durable(txn.muts[k])

(* Every value staged inline still has its own bytes in the arena, however *)
(* often it and its neighbours were replaced by values of other sizes,     *)
(* tombstones or external values: commit() logs and applies those bytes.   *)
StagedValuesIntact ==
    \A k \in Keys : InArena(txn.muts[k]) =>
        LET m == txn.muts[k]
        IN  SubSeq(txn.arena, m.at + 1, m.at + m.size) = BytesOf(k, m.size)

\* Whether some call accepts a token of generation g.
AcceptsHandleToken(g) ==
    \/ \E i \in HandleSlots : HandleOf(i, g)
    \/ \E i \in ReaderSlots : ReaderOf(i, g)
    \/ WriterOf(g)

(* A token that was handed out and is no longer accepted is never accepted *)
(* again: not when its slot is reused, not after deinit() and init(), and  *)
(* not once the generations are exhausted.                                 *)
StaleStaysStale ==
    /\ [][\A g \in 1 .. seen.h : ~AcceptsHandleToken(g) => ~AcceptsHandleToken(g)'
         ]_<<handles, readers, writer>>
    /\ [][\A g \in 1 .. seen.t : ~TransactionOf(g) => ~TransactionOf(g)']_<<handles, txn>>
=============================================================================
