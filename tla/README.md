# A TLA+ model of on9kvdb

on9kvdb is a key/value database for ESP-IDF devices: one exclusive range of
blocks, fixed memory, an LSM layout with a write-ahead log, and a promise that
a power cut never costs an acknowledged commit. This directory models its
state machines, checks them with TLC on small instances and proves the central
safety properties with TLAPS for every size.

All paths below are relative to the repository (`src/` here).

## 1. Inventory of the system

| Part | Source | State it keeps | Operations |
|---|---|---|---|
| Manifest | `on9kvdb_manifest.cpp`, record checks in `on9kvdb_format.cpp` | two alternating copies on the medium, the copy in RAM, `manifest_stabilization_required`, `storage_faulted` | create, load and select, publish a copy, stabilize |
| Write-ahead log | `on9kvdb_wal.cpp` | two slots of 4096-byte frames, `wal_tail`, `next_transaction_sequence` | append, rotate, scan and replay |
| Tables | `on9kvdb_table.cpp` | two banks of table slots | flush the memtable, validate, look up |
| Compaction | `on9kvdb_compaction.cpp` | the bank that is being written | merge everything into the other table bank and the other value bank, swap the manifest |
| Memtable | `on9kvdb_memtable.cpp` | hash index, record arena, namespace slots, the counters of the logical state | preflight, apply, look up |
| Sessions | `on9kvdb_api.cpp` | handle slots, the one transaction, its staged mutations and their arena, generation counters | open, close, begin, set, erase, commit, abort |
| Value banks | `on9kvdb_value.cpp` | two append-only banks of chunks, the one value writer and its buffer | begin, write, finish, abort |
| Value readers | `on9kvdb_value.cpp` | cursor, one-chunk buffer, rolling checksum | open, peek, consume, read, seek, close |
| Lifecycle | `on9kvdb.cpp` | two mutexes, `initialized`, `shutting_down`, runtime memory | init, deinit, acquire, release |
| Codecs, addressing, adapters | `on9kvdb_format.cpp`, `on9kvdb_io*.cpp` | none | encode, decode, block I/O |

How they interact. Every public call takes the lifecycle mutex, then the
operation mutex, and gives the first one back before it works; so calls are
serialised and interleave only as wholes. A commit checks that the memtable has
room (else it flushes), syncs dirty value chunks, appends frames to the log and
syncs, and only then applies the mutations to the memtable. A full log makes the
append rotate to the other slot, which a flush or a compaction must have
released. A flush without a free table slot, a rotation whose other slot is
still referenced, and a value that does not fit into its bank all become a full
compaction. Everything that changes what is reachable is published by writing
the *older* manifest copy with the next generation; where storage is released
(compaction, rotation) the other copy is rewritten as well ("stabilized")
before anything is reused.

What is hard in it:

- a power cut or a failed write between any two of these steps, with two valid
  manifest copies that reach different storage;
- a write that reports an error and has happened, or is torn;
- slots and banks that are reused and still hold what they held before;
- limits that are checked in one place and met in another: preflight before an append
  that may flush or compact, logical bytes against packed blocks, replay without a flush;
- tokens, readers and staged values that outlive the call that made them while
  compaction moves everything underneath;
- the first concurrent `init()`, and a `deinit()` under load.

What makes each part correct:

- **The whole**: to its callers a map that changes by one transaction at a time and
  survives a power cut (`KeyValue.tla`).
- **Engine**: storage that a valid copy reaches is never overwritten; either copy
  alone recovers everything acknowledged; reads see exactly the committed state;
  operations begin only on two equivalent copies.
- **Memtable, tables, merge**: a lookup finds the version committed last; what
  commit accepts fits where it has to go, now, in a merge and after a restart; counters
  kept step by step are those of a recount.
- **Log**: an accepted scan yields exactly the committed transactions, no frame
  of an abandoned or older attempt; a restart accepts the log.
- **Sessions and banks**: stale tokens stay stale; a busy mark always belongs to
  the live transaction; every reachable value reads back; a value is durable before the
  log refers to it; the staging arena holds each value's own bytes.
- **Readers**: the bytes handed out are those of the value; the checksum covers
  what was consumed; no false alarm.
- **Lifecycle**: one task at a time, no use of freed memory, every call returns.

The list of hazards, each with its line, is in `PROJECT.json`.

## 2. Modules

```
KeyValue <~~ (INSTANCE, refinement)
Manifest <-- Engine <-- EngineInvariant <-- EngineProofs
                 ^
                 '-- MCEngine
Records <-- Memtable <-- Lsm <-- MCLsm
       ^--- Tables <-----'  ^--- LsmInvariant <-- LsmProofs
Memtable, Tables <-- StructureProofs <-- LsmProofs   Iteration (INSTANCE in Lsm, Tables)
Session <-- SessionInvariant <-- SessionProofs
Session <-- MCSession
ValueReader <-- ValueReaderProofs     ValueReader <-- MCValueReader
Lifecycle <-- LifecycleProofs         Lifecycle <-- MCLifecycle
Wal <-- WalInvariant <-- WalProofs     Wal <-- MCWal
```

**KeyValue.tla** - the abstract specification: `serving`, `last` (the last
sequence reported durable) and `db`. A transaction whose outcome nobody was told may turn out
to be durable while the database is closed (`Discover`); nothing else may change then.
`Engine.tla` instantiates it as `Promise`: `serving` is `up`, `last` is `acked`, and
`db` is what a lookup in memtable and active tables finds while the database is up, the
acknowledged transactions while it is down. `ImplementsKeyValue == Promise!Spec`.

**Manifest.tla** - constant operators: the record, `Encodable` (what
`encode_manifest_record()` and `decode_manifest_record()` accept), `Slot`,
`LoadAccepts`, `SelectedSlot` and `StabilizationRequired` (the loops of
`load_manifest()`). A table reference is its generation and its greatest
sequence.

**Engine.tla** - the medium (`copy`, `wal`, `tab`, `ents`, `vb`, `ops`), the RAM
state (`ram`, `stab`, `faulted`, `mem`, `next`, `up`) and the call in progress
(`pc`, `back`, `job`, `out`). Calls nest in the code - a commit may flush, which
may compact, which publishes and stabilizes - and `back` is the place to which the
nested part returns. `init()` is `SetupManifest`, `WriteProvisioningCopy`,
`ProvisionAllDataFiles`, `InitialiseFirstWal`, `RecoverWal`, `Serve`; a commit
is `Commit`, `BeginAppend`, `AppendTransaction`, possibly `RotateWal`,
`BeginWalHeader`, `WalHeaderSynced`, and `AppendFrames`. Every overwrite
of a slot or bank has a step of its own (`BeginFlush`, `BeginCompaction`,
`BeginWalHeader`) so that a cut can hit the moment at which the old content is
gone and the new one is not there. `write_manifest_copy()` is `BeginCopy` and
then, by purpose, one of the `...Published` actions or `PublishFails`. A
transaction is one mutation of one key; a value is external, so that its bank
matters. `PowerCut` may leave a manifest write undone, torn or done; a frame
write likewise. `LoseCopy` damages one of two valid copies between two runs.
`acked` observes what was reported durable: by `commit()`, or by an `init()` that
recovered it. Generations of tables and value banks are unbounded naturals;
only the manifest generation has its limit, `MaxGeneration`, because the code
tests how many publications are left.

**Wal.tla** - the frames that `Engine` takes in one step: a transaction is a
payload and a number of frames; `Turn` is one turn of the loop of `scan_wal_slot()`,
`Scan` the recursive function over it, `LaterFrame` is `find_later_wal_frame_unsafe()`. What does
not decode is `Junk`. The payload stands for both the transaction checksum and
the bytes, so a frame of another attempt with other bytes has another checksum.

**Records.tla, Memtable.tla, Tables.tla** - constant operators: the algorithms.
Sizes are in units of eight bytes. `InKeyOrder` is the order that the code sorts into and
`Ascending` the one of the keys: `CHOOSE` at each place, because what a recursive sort computes
cannot be proved. `Memtable` is the bucket array with linear probing
over an arena of records (`Find`, `Removed` with its shift of the tail,
`Inserted`). `Tables` has next-fit packing of entries into blocks (`AppendEntry`),
the cut into tables (`Emitted`), the merge key by key with the newest version and
dropped tombstones (`Merge`), and the lookup: key range, filter, tables by descending
greatest sequence, the last block that does not begin after the key
(`LookupTables`). Hash and filter are constant operators; the instance has
colliding hashes and a key whose filter bits are covered by two others.

**Iteration.tla** - a loop over the numbers 1 to n, with its turn as parameter:
the loops over mutations, records, blocks, tables and keys are instances of it
(`Preflighting`, `Applying`, `Replaying`, `Counting`, `Naming` in `Lsm`; `Reading`, `Filling`,
`Probing`, `Choosing`, `Merging` in `Tables`). A fold of the community modules would
do for TLC; for this one the recursion equation is a lemma (`IteratedTurns`).

**Lsm.tla** - `commit()` over these: `Commit` and `FlushForRoom` with
`AcceptAfterFlush` or `Refuse` (the two preflights), `MakeRoom`, `RoomRefused` and
`Rotate` (a full log), `AppendFrames`, `Apply`; `Restart` at any point from either
manifest copy, with `RecoverTables` and the replay. Counters wrap at
`CounterModulus`. Writes are durable when their step ends and do not fail:
that is Engine's subject. `truth` observes what was logged last for each key;
`stale` observes that a compaction inside the append dropped a tombstone that
preflight had recorded, the situation of finding 4. Every transaction whose keys are in
one namespace is a possible commit. A tombstone of a key that does not exist arises when
a transaction erases what it set itself.

**Session.tla** - slots with generations, the transaction with a mutation per
key and its staging arena byte by byte (a byte knows whose value it belongs to), the
writer with its half-filled chunk, readers with the value they pin, and
the two banks chunk by chunk. A chunk is volatile (`bank.unsynced`) until some
`sync()`; a commit is two steps, so that what the log refers to can be asked while its
frames are being written. A compaction is a set of possible outcomes: refused,
given up after n chunks, done, or ended by a manifest write that failed and
latched the fault (with the old or the new bank as what recovery will find).
Values are named by their writer's generation, which stands for their bytes
and checksum. `seen` observes which generations were handed out.

**ValueReader.tla** - one reader. Units replace bytes; unit j of the value holds
the number j. Each turn of the loops of `consume_value()` and `read_value_into()`
is a step. `failed` observes whether a chunk could not be read since the reader was opened.

**Lifecycle.tla** - tasks and the two mutexes, each named by the task that made
it, so that two concurrent first `init()` calls make two pairs. A step is the
stretch between two points at which another task can interfere.

Definitions named as *faulty variants* in the modules (`...Once`,
`...Reusing...`, and so on) belong to no next-state relation; each is the mutation of
the definition that follows it and is listed in `PROJECT.json` with the property
that notices it.

## 3. Runs

| Run | Bounds | Result |
|---|---|---|
| `engine` | 2 keys, 2 tables per bank, 1 transaction per WAL slot, 3 commits, 13 manifest generations; a failed append may persist | 388 377 states, passes |
| `engine_recovery` | 1 key, 2 transactions per slot, 5 commits, 12 generations | 957 334 states, passes |
| `engine_replay_lost` | as `engine` | violated (finding) |
| `engine_tombstone` | as `engine`, no persisting failed append | violated (finding) |
| `wal` | up to 3 frames, 4 per slot, 3 commits, failing writes | 717 163 states, passes |
| `wal_stale_frames` | up to 3 frames, 4 per slot | violated (finding) |
| `session` | 2 handles, 1 reader, 2 keys, generations up to 3, inline values of 1 and 2 bytes in an arena of 2, external ones of two chunks, the second half full, in banks of 4, 1 compaction per bank | 839 293 states, passes |
| `lsm` | 3 keys in 2 namespaces, 2 buckets, 6 units of memtable, 2 tables of 2 blocks of 3 units, 6 units of logical state, 3 mutations per WAL slot, 4 commits | 168 271 states, passes |
| `lsm_accounting` | as `lsm`, 2 mutations per WAL slot | violated (finding) |
| `lifecycle` | 3 tasks | 14 049 states, passes |
| `reader` | chunks of 2 units, values of 0, 2, 4, 5 units, failing reads | 15 276 states, passes |
| `reader_stale_buffer` | the same | violated (finding) |

Why the bounds are enough. With one transaction per WAL slot every commit after the first rotates,
and with three commits and two table slots every path of
`append_transaction_unsafe()` occurs: rotation after a flush, a flush that
turns into a compaction, a compaction that releases the slot. Two keys
give live and erased keys side by side. Thirteen manifest generations allow
two compactions with their stabilizations and end inside a call, so that the
`generation > UINT64_MAX - 2` returns are taken. `engine_recovery` adds a checkpoint
inside a slot, a replay of several transactions, and slots that are reused more than once;
it leaves out the persisting failed append, for which `EveryCopyRecovers` is finding 2. In `wal` a three-frame
attempt can be followed by one-, two- and three-frame ones, and the slot
reused. In `session` four chunks hold a value and its replacement, or one of each key, but not a
third, so writers compact, and the second compaction wants the bank that the
first one left to a reader. Three generations are shared by handles, the reader and
the writer and are exhausted; transaction generations begin at 2 and are exhausted as
well. The arena of two bytes holds an inline value of each key but none beside one of the larger
size, so replacing the first shifts the second, and growing it may be refused. In `lsm`
two buckets and six units make the memtable full by entries as well as by bytes, a bank
of two tables is full after two flushes, twelve units of blocks for six units of
state is exactly the limit of `validate_compaction_capacity()`, and four commits with
a WAL slot of three mutations reach rotation with a flush and with a compaction,
each from memtables that are empty or not. Key 1 has an inline and an external size,
so that logical, memtable and table sizes differ.

`ImplementsKeyValue` is a refinement: every step of the engine is a step of
`KeyValue` or changes nothing in it. `commit()` maps to `Commit` where the append
is acknowledged; a power cut or `deinit()` to `Close`; a recovery that finds a transaction
with an unknown outcome to `Discover`.

`wal`, `wal_stale_frames`: deadlock is not checked, because a log that the scan
refuses keeps the database down; `lsm`, `lsm_accounting`: for the same reason, after the
last commit within the bound, and because a refused first preflight is no step. In the other runs the system can always go on.
Keys and payloads are symmetric in the engine and the log; no liveness property
is checked under symmetry.

Fairness. `CallsReturn` assumes strong fairness of each task's own steps: a
runnable task is scheduled, and a mutex that is given again and again is
eventually taken by each waiter - FreeRTOS queues waiters by priority and then by
arrival, so this holds for tasks of one priority, each of which finishes the operation
it has begun. Making a call is not fair. `CallsEnd` assumes that the task that
called goes on (weak fairness).

## 4. Findings

Five runs show disagreements between the code and what its documents or comments
say; `PROJECT.json` quotes the lines.

1. `wal_stale_frames`: frames of an interrupted multi-frame append survive behind
   a shorter transaction that takes its sequence; the next scan meets a frame of
   the current generation with an old sequence and refuses the log.
   Any database whose transactions may take more than one frame is exposed. The
   run `wal` shows the limits of it (`RefusedOnlyForLeftovers`): a scan refuses the log
   only if such a frame is there, or a whole transaction that reported an error and
   was repeated after a rotation (finding 2); and what it accepts is right.
2. `engine_replay_lost`: a failed append latches no fault. If its frames did reach
   the medium and a compaction follows, the log names a value bank that is no longer
   active, and recovery refuses it. `engine` shows what survives:
   acknowledged transactions and reads in the running system. In `Wal` the same
   append is refused in another way: its retry does not fit, the log rotates, and the
   first sequence of the new slot is one that the old slot already has.
3. `engine_tombstone`: a compaction whose newest merged transaction is a
   tombstone, with other keys live, builds a record that `encode_manifest_record()`
   refuses, as no table carries the checkpoint's sequence. The compaction fails, and
   so does whatever needs it. The first of the
   observations below is a relative.
4. `lsm_accounting`: preflight finds a tombstone in a table, the append compacts
   and drops it, and apply subtracts it a second time. The tombstone counter wraps, the
   logical size is one record too low, later commits pass the limit, and the next
   `init()`, which counts again, refuses the database. The `lsm` invariants with
   `UnlessStale` show that this is the only way in which the accounting goes wrong within
   the bounds.
5. `reader_stale_buffer`: a failed fill leaves a buffer whose description
   is the old one; a seek back hands out the bytes of the failed read.

Observations without a run of their own:

- When every key was erased, the first compaction succeeds with no table, and the next one
  merges nothing: its greatest sequence 0 is not `next - 1`, and it returns
  `ESP_ERR_INVALID_STATE` (`on9kvdb_compaction.cpp:714`). A value bank that was filled by values
  whose transactions were aborted is then not reclaimed, and large values are refused, until
  another transaction commits. `RefusedOnlyWhenEmpty` (run `engine`, theorem
  `MergeReachesLast`) shows that this is the only state in which that test refuses.
- `set()` of a large value while another caller's writer is open is refused and
  clears that writer (`on9kvdb_api.cpp:348`; action `set_large_refused`).
- Replay does not flush. `FallbackExact` therefore allows that recovery from the older copy
  is refused for lack of memtable room; it never gives a wrong state.
- `validate_compaction_capacity()` sizes a value bank for the smallest external
  value. That is the worst case only while `INLINE_VALUE_SIZE + 1` is at most about half a
  chunk payload; `Kconfig` allows 4096. Compaction has room all the same, because committed and
  staged values lie side by side in one bank and the other has the same size
  (`ReachableValuesReadBack`, `StagedInActiveBank`); a write may be refused before the logical
  limit is reached.
- `CompactionFits` needs `RefSize <= InlineSize + 1` (`EntrySizesAssumption`): an external
  record must not take more of a block than of the logical limit. A `value_ref` has 24
  bytes, and `Kconfig` allows inline sizes from 1.

## 5. Proofs

Checked by TLAPS (SMT, Zenon and PTL), for every value of the constants that the named
assumptions allow: every set of keys and tasks, every bank size, WAL capacity, arena and
chunk size, every number of handles and readers, every bound.

| Module | Theorem | States |
|---|---|---|
| `EngineProofs` | `Inductive` | `Spec => []IInv` |
| | `TypeCorrect`, `StorageSafe`, `ManifestSafe`, `ServesStable` | `TypeOK`, `ReferencedStorageIntact`, `ManifestAlwaysLoads`, `ServesOnTwoCopies` |
| | `DataInductive` | `Spec => []DataInv` |
| | `ReadsCorrect`, `Durable` | `ReadsSeeCommitted`, `AcknowledgedStays` |
| | `MergeReachesLast` | `RefusedOnlyWhenEmpty` |
| | `Implements` | `ImplementsKeyValue`: the engine implements `KeyValue` |
| | `CopiesRecover` | `EveryCopyRecovers`, if `~AppendMayPersist` |
| `WalProofs` | `LogInductive` | `Spec => []WInv` |
| | `LogTypes`, `LogExact`, `LogAccepted` | `TypeOK`, `AcceptedScanExact`, `RefusedOnlyForLeftovers` |
| `StructureProofs` | `InsertedSound`, `InsertedLookup` | the memtable is a map from names to versions |
| | `InsertedUses`, `BucketIsCounted` | what preflight counts is what an insertion takes |
| `LsmProofs` | `LsmInductive` | `Spec => []LsmInv` |
| | `CommitFits`, `MemtableAlwaysSound` | `ApplyFits`, `MemtableSound` |
| | `DataInductive` | `Spec => [](LsmInv /\ DataInv)` |
| | `LookupAlwaysExact` | `LookupExact` |
| `SessionProofs` | `CompactionKeepsValues` | every outcome of a compaction keeps what is in use |
| | `SessionInductive` | `Spec => []SInv` |
| | `SessionTypes`, `HandlesOwned`, `WriterFollows` | `TypeOK`, `TransactionOwned`, `WriterFollowsTransaction` |
| | `ValuesReadBack`, `StagedReferencesActive`, `LoggedDurable` | `ReachableValuesReadBack`, `StagedInActiveBank`, `LoggedValuesDurable` |
| | `StagedIntact`, `StaleTokens` | `StagedValuesIntact`, `StaleStaysStale` |
| `ValueReaderProofs` | `ReaderInductive` | `Spec => []RInv` |
| | `ReaderTypes`, `ChecksumExact`, `DeliveryExact`, `AlarmsGenuine` | `TypeOK`, `ChecksumCoversPrefix`, `ExactUntilFailure`, `NoFalseAlarm` |
| `LifecycleProofs` | `LifecycleTypes`, `MutualExclusion`, `MemorySafe` | `TypeOK`, `Exclusive`, `NoUseAfterFree` |

Assumptions: those named in the models, nothing else. `Manifest`, `Engine`: `BankSize`
and `WalCap` positive, `MaxGeneration >= 4`. `Wal`: a slot holds the longest transaction. `Session`: finitely many keys (named by
numbers), positive external sizes, inline sizes that fit into the arena, at least one
generation of tokens and of banks. `Lsm`: finitely many keys named by numbers, positive headers, at least
one bucket, namespace, mutation and unit of log, a slot of the log with room for the longest
transaction, a block with room for the largest entry, blocks for the logical limit
(`validate_compaction_capacity()`), counters beyond twice that limit; any hash function
to the naturals and any filter. `ValueReader`: a positive chunk size. `Lifecycle`:
`None` is not a task. `CopiesRecover` has the hypothesis `~AppendMayPersist` in its
statement: with it the theorem is what run `engine_recovery` checks, without it the formula
is false (finding 2).

*The engine's storage.* `ReferencedStorageIntact` is not inductive: that a step may
overwrite a slot depends on what the *other* copy still reaches, and that on how far
the publication protocol has come. `EngineInvariant.tla` states `IInv` as a
conjunction:

- `TypeOK`;
- `MediumInv`: the copies on the medium are encodable records in their own slots, at most one generation
  apart and adjacent, and what they reach is intact;
- `FreshInv`: before the first copy exists no value bank has been recycled;
- `RamInv`: the record in RAM is the copy in its slot, and the other slot holds the
  generation before it or nothing, unless a publication failed;
- `StableInv`: without `stab`, both copies reach the same storage, so what `ram`
  does not reach no copy reaches;
- `CallInv`: where a call is, what it must have established (a rotation past
  `rotate` has an unreferenced target, a flush has a free slot and a memtable to write);
- `BoundInv`: sequences on the medium and in RAM stay within the bound of the model;
- `CheckpointInv`: the memtable holds sequences after the checkpoint and before `next`;
- `PublishInv`: the record being published is encodable, adjacent to the copy that stays,
  and everything it reaches is already on the medium.

The proof has a step for each action and a lemma for each conjunct that the action
can disturb. `EngineProofs` has four parts: the types and the arithmetic of slots,
what a publication does to a pair of copies, the actions and the theorems, and the data.

*The engine's data.* `IInv` says that storage is there, not what is in it. `DataInv`,
proved on top of it, does:

- `CopiesHold`, `OutHolds`: the tables that a ready copy reaches, or the one being written
  will reach, hold exactly the live versions up to its checkpoint, its log goes at least to
  `acked`, and unless the tables are empty one of them has the entry of the checkpoint;
- `OlderReaches`: the older copy's log goes as far as the newer one's, because frames
  are appended only when both name the same slot;
- `PendingInv`: at most one transaction on the medium is not acknowledged;
- `MemtableInv`: the memtable holds the newest versions behind the checkpoint.

Lemmas about `Newest` and `Live` (newer entries laid over older ones may have lost what they
themselves shadow, and the older ones their tombstones) carry a flush, a merge and a replay. `ReadsCorrect` follows at once, and `MergeReachesLast`
because the last transaction is in the memtable or, if that is empty, at the checkpoint of the
tables. For the refinement each action is
shown to be a step of `KeyValue` or a stutter under the mapping: the acknowledged append is
`Commit`, `RecoverWal` is `Discover` or a stutter, and flush, compaction, rotation and
publication leave `db` as it is. `CopiesRecover` adds `LogInv`: without
leftovers of failed appends the log behind every copy is complete, ends with the last transaction
there is, and refers only to the active value bank.

*The log.* What a scan yields is no step invariant: it is computed from whatever
cuts and failed writes have left in two slots. `WalInvariant.tla` states `WInv`:

- `HeaderInv`: headers and manifest agree, and each slot begins where the other one and the
  checkpoint end;
- `FrameInv`: no frame is younger than its slot, and each carries the checksum of its own
  transaction;
- `SlotInv`: each slot has a *layout*, an offset for every committed transaction in it and for the
  next one; the frames at these offsets are the transactions' own, and every other frame of the
  current generation, whichever attempt it belongs to, has a sequence of the slot and lies at the
  offset of that sequence plus its own index;
- `CallInv`: how far an append or a recovery has come.

The recursion of `Scan` is well founded: each turn uses a later offset only. Its recursion
equation is proved by looking at the least number of frames for which it would fail. With it the
scan of a laid out slot is followed from its end to its beginning: behind the last committed
transaction it ends, accepts the interrupted transaction or is refused (`LaterFrame` or
a wrong sequence), and each committed transaction in front adds its parts. `LogExact` is what that gives for
both slots one after the other. `LogAccepted` adds that every obstacle is a leftover: if none
is there, each current frame has the frame before it in its transaction before it on the medium, and so the
scan never meets one behind a gap or at another place than its own.

*The memtable.* Linear probing without tombstones in the index is right only if
no removal ever leaves a vacancy in the middle of a probe chain. `Removed` therefore keeps the
bucket, with a size of 0, and `Inserted` fills it again; in between it shifts the tail of the
arena and all offsets behind it. `Tiled` says that the records lie end to end and that the
buckets know where; `Indexed`, that the probe for each record's own name comes to it.
`InsertedSound` proves that both survive, `InsertedLookup` that the effect is the one of a map:
the name written has the new version, every other name what it had. Nothing is assumed of the
hash function. `BucketIsCounted` is why preflight may count instead of probing: as
long as one bucket is vacant every probe ends (the offsets of a probe reach every bucket), so a name
without a record has a place.

*A commit fits.* Preflight looks at the memtable as it is; before apply the append may rotate
the log, which flushes or compacts, which empties the memtable. `ApplyFits` is not inductive: it
speaks of `apply` only. `LsmInvariant.tla` states `LsmInv`: the memtable is sound and holds
sequences below `next`; the log is in the order of its sequences; namespaces fill at most
`MaxNamespaces` slots; and from `append` on, after *each* of the transaction's mutations, entries and
bytes are within their limits (`FitsFrom`). Three arguments carry it. Preflight's loop counts
exactly the memtable that apply will make (its `previous` is what the memtable holds,
`InsertedUses` does the rest), so acceptance gives `FitsFrom`. A transaction that fits
behind other records fits into an emptied memtable: at every turn the smaller memtable is a part
of the larger one, so it has no more entries and no more bytes. And replay inserts transactions only
if their own preflight accepts them, so what `Restart` recovers is sound and below `next`. The
turns are related by induction over the number of the turn, from `IteratedTurns` and the
well-founded order of the naturals.

*Tables and merges.* `StructureProofs` says what each loop of `Tables` does, for all inputs:
`BuildTable` gives blocks in key order that hold exactly the versions put in, or nothing;
in such a table the last block that does not begin after a key is the only one
that can have it; `LookupTables`, which stops when no table that is left can be newer, gives the
newest version in all of them, whatever the filters let through; and a merge that reports no
error gives tables that hold the live newest versions of its sources and nothing else. The
invariant of the merge loop (`MergeWell`) splits the output into finished tables, finished
blocks and the open block, all before the key that comes next.

*Lookups are exact.* `DataInv` relates memtable, tables, log and `truth` through one function:
`Shown(S, k)` is what a set of versions shows of a key - its newest one, unless that is a
tombstone. `CopyWell`: the tables of a manifest copy and the log behind its checkpoint show
`truth`, from the current copy *and* from the older one, because a restart may take either;
the memtable is the newest versions of the log behind the checkpoint; and the sequences of
copies, log and commit are in order (`SequencesWell`). A flush moves the memtable's versions into
a table, so the union is the same (`FlushedData`); a merge leaves out what is superseded and dropped
tombstones, which `Shown` does not see (`SameShown`, `MergedData`) - and because a full compaction takes
*every* table and the memtable, no older version can come back to light. A rotation drops a part of
the log that both copies are beyond. Replay gives the memtable it had (`ReplayedVersions`). `LookupExact`
follows from `ShownNewest`: the newest of the union is in the memtable or, if the key is not there,
what `LookupTables` finds.

*Sessions and value banks.* `SessionInvariant.tla` states `SInv`. `TokenInv` is about
slots: a counter that can still hand out a generation is beyond everything handed out
(`CounterInv`, from which `StaleTokens` follows - the exhausted counter is 0 and hands out
nothing); the one busy mark is the live transaction's; the writer belongs to it; each inline
mutation has its bytes in the arena (`ArenaInv`, with lemmas about cutting a stretch out of a
sequence and shifting the offsets behind it). `ValueInv` is about the banks, as predicates
of a bank state: committed and staged values lie below the reserved tail of the active
bank with their bytes (`SettledIn`), synchronized unless a dirty mark says otherwise; a reader's
value lies there or in the other bank, where its pin keeps compaction away; a
writer goes on behind the tail. Everything a call writes lies behind the tail, so it disturbs no
value in use.

The hard step is compaction (first part of `SessionProofs`): the copies go one after the other into
the other bank, and the place of each is the number of chunks copied before it. That two copies
never share a chunk follows from the order of copying, and that every chunk below the new tail
belongs to a copy from counting: as many different chunks as places. From it
`CompactionKeepsValues` covers the outcomes - refused, given up after any chunk, done, a
failed manifest write with the old or the new bank - and each call that may compact uses that
theorem. That the copies fit is a condition the code tests, and here a guard.

*The reader.* `RInv` adds to the properties what the loop needs between its turns: the
described part of the buffer holds the value's units in place, or junk once a read
failed, never those of another place; what is left of a call lies before the end of the value; what was handed
out ends at the cursor.

*The lifecycle.* `LInv`: the mutexes are installed as a pair and never
replaced; whoever is past a take holds the mutex it took; memory is allocated
whenever `initialized`, or while `init()` is at work.

Only model-checked:

- `CallsReturn` and `CallsEnd`: liveness under fairness is outside what the prover can do;
- of `Lsm` what depends on sums: `TypeOK` (the counters), `AccountingExactUnlessStale`,
  `RestartServesUnlessStale`, `CompactionFits`, `FallbackExact`, `RefusedOnlyWhenFull`. They compare
  counters kept step by step with totals over all versions, and totals with block sizes.

No module uses RECURSIVE operators.

## 6. Not modelled

- Byte layout and CRCs (`on9kvdb_format.cpp`): a record decodes or it does not, and a
  checksum stands for what it covers.
- The volatile cache of a medium below `sync()` is modelled for value chunks
  (`Session`). Frames, tables and WAL headers count as written when the write
  returns, in the order of the writes; manifest copies may be torn. Every table and
  header write in the code is followed by a sync before a manifest refers to it.
- The index cache: it is assumed to hold what the medium holds. Filters and
  metadata of a table are always valid.
- Storage addressing and the I/O adapters: region arithmetic, splitting of requests,
  wrappers around a driver. They keep no state of the database, and the checks they make
  are of their own arguments.
- Runtime arena layout and build configuration, checked once by `init()`; statistics that
  are only reported.
- Errors of a flush or a compaction that are I/O errors are in `Engine`, capacity and
  accounting in `Lsm`: the two are not one model, because their product is beyond TLC.

## 7. Plan

Done: the engine with its invariants, the abstract store and the refinement, modelled and
proved; sessions, staging and value banks with volatile chunks, modelled and proved; the reader,
the lifecycle and the log's frames, modelled and proved; memtable, tables, merge, lookup
and their accounting, model-checked; the memtable as a map, that a commit fits and that a lookup
is exact, proved.

Next, in this order:

1. The total of a set of versions and what one version more adds to it: the step to
   `AccountingExactUnlessStale` and, with the order of the log, to `RestartServesUnlessStale`.
2. `AppendEntry` keeps the packing invariant behind `CompactionFits` (two adjacent blocks
   exceed one block).
