-------------------------------- MODULE Engine --------------------------------
(***************************************************************************)
(* The storage engine of on9kvdb: two alternating manifest copies, two WAL *)
(* slots, two table banks and two value banks, and the operations that     *)
(* write them -- provisioning, recovery, commit, memtable flush, full      *)
(* compaction, WAL rotation and manifest stabilization -- with a power cut *)
(* between any two steps, torn manifest writes and failing writes.         *)
(*                                                                         *)
(* A transaction is one mutation of one key (its multi-frame WAL encoding  *)
(* is the subject of Wal.tla).  Transactions are named by their sequence   *)
(* number; ops[s] says what the durable transaction s did, and a memtable, *)
(* a table or a WAL slot is described by the sequences it holds.  A value  *)
(* is an external one, held by chunks of a value bank: an inline value is  *)
(* the same without the reference.                                         *)
(***************************************************************************)
EXTENDS Manifest, Sequences

CONSTANTS
    Keys,      \* keys of the one namespace
    WalCap,    \* transactions that fit into the record region of a WAL slot
    MaxSeq,    \* bound: commits are not started beyond this sequence
    AppendMayPersist  \* whether frames of a failed append may be on the medium

ASSUME WalCapAssumption == WalCap \in Nat \ {0}
ASSUME MaxSeqAssumption == MaxSeq \in Nat
ASSUME AppendMayPersistAssumption == AppendMayPersist \in BOOLEAN

VARIABLES
    (* on the medium *)
    copy,      \* the two manifest slots
    wal,       \* each WAL slot: header generation, first sequence, last durable one
    tab,       \* generation of the complete table in each table slot, 0 if none
    ents,      \* sequences of the entries in each table slot
    vb,        \* generation of the chunks in each value bank
    ops,       \* the durable transactions, by sequence
    (* in RAM *)
    up,        \* initialized
    ram,       \* manifest
    stab,      \* manifest_stabilization_required
    faulted,   \* storage_faulted
    mem,       \* sequences of the memtable's records
    next,      \* next_transaction_sequence
    (* the call in progress *)
    pc,        \* where it is
    back,      \* where it goes on after a flush, compaction or stabilization
    job,       \* what the manifest copy being written is for
    out,       \* write_manifest_copy()'s record
    (* observation *)
    acked      \* last sequence whose durability was reported to a caller

media == <<copy, wal, tab, ents, vb, ops>>
local == <<up, ram, stab, faulted, mem, next>>
call  == <<pc, back, job, out>>
vars  == <<media, local, call, acked>>

\* A mutation, and the value bank and generation its value_ref names.
Operation == [key : Keys, del : BOOLEAN, bank : Two, vgen : Nat]
WalSlot   == [gen : Nat, first : Nat, last : Nat]
NoWal     == [gen |-> 0, first |-> 0, last |-> 0]

-----------------------------------------------------------------------------
(* The newest version of each key among a set of sequences, and the values *)
(* a reader can see in it.                                                 *)

Newest(S) ==
    {s \in S : \A t \in S : ops[t].key = ops[s].key => t <= s}

Live(S) == {s \in Newest(S) : ~ops[s].del}

TableEntries(m) ==
    UNION {ents[m.bank][i] : i \in ActiveIndexes(m)}

\* lookup_committed_unsafe() over all keys: memtable first, then the tables.
Visible == Live(mem \cup TableEntries(ram))

-----------------------------------------------------------------------------
(* recover_wal(): what a manifest record c leads to on the medium.         *)

OlderWal(c) == 1 - c.wslot

FirstWal(c) == IF c.wgen[OlderWal(c)] # 0 THEN OlderWal(c) ELSE c.wslot

\* validate_table(), load_wal_header(), the value bank of the references.
StorageIntact(c) ==
    /\ \A b \in Two : \A i \in Index :
          c.tabs[b][i].gen # 0 => tab[b][i] = c.tabs[b][i].gen
    /\ \A w \in Two : c.wgen[w] # 0 => wal[w].gen = c.wgen[w]
    /\ vb[c.vbank] = c.vgen[c.vbank]

WalChain(c) ==
    /\ c.wgen[c.wslot] # 0
    /\ wal[FirstWal(c)].first <= c.ckpt + 1
    /\ c.wgen[OlderWal(c)] # 0 =>
          /\ c.wgen[OlderWal(c)] < c.wgen[c.wslot]
          /\ wal[c.wslot].first = wal[OlderWal(c)].last + 1
    /\ c.ckpt <= wal[c.wslot].last

\* A faulty variant of Replayed: the first transaction is taken as checkpointed.
ReplayedLate(c) == (c.ckpt + 2) .. wal[c.wslot].last

\* The sequences replayed into the memtable, ...
Replayed(c) == (c.ckpt + 1) .. wal[c.wslot].last

\* ... whose values must lie in the bank the manifest calls active.
ReplayableValues(c) ==
    \A s \in Replayed(c) :
        ~ops[s].del => ops[s].bank = c.vbank /\ ops[s].vgen = c.vgen[c.vbank]

Recoverable(c) == StorageIntact(c) /\ WalChain(c) /\ ReplayableValues(c)

-----------------------------------------------------------------------------
Init ==
    /\ copy = [s \in Two |-> BlankCopy]
    /\ wal = [w \in Two |-> NoWal]
    /\ tab = [b \in Two |-> [i \in Index |-> 0]]
    /\ ents = [b \in Two |-> [i \in Index |-> {}]]
    /\ vb = [b \in Two |-> 1]
    /\ ops = <<>>
    /\ up = FALSE
    /\ ram = FreshManifest
    /\ stab = FALSE
    /\ faulted = FALSE
    /\ mem = {}
    /\ next = 1
    /\ pc = "down"
    /\ back = "idle"
    /\ job = "stabilize"
    /\ out = FreshManifest
    /\ acked = 0

-----------------------------------------------------------------------------
(* Common endings of a call.                                               *)

\* close_storage_unsafe(), reset_runtime_state_unsafe(): nothing of the RAM
\* state survives deinit(), a failed init() or a power cut.
GoDown ==
    /\ up' = FALSE
    /\ ram' = FreshManifest
    /\ stab' = FALSE
    /\ faulted' = FALSE
    /\ mem' = {}
    /\ next' = 1
    /\ pc' = "down"
    /\ back' = "idle"
    /\ job' = "stabilize"
    /\ out' = FreshManifest

\* The call goes on at p, or returns when p is "idle".
ReturnTo(p) ==
    /\ pc' = p
    /\ UNCHANGED <<local, back, job, out>>

\* An error without a fault latch: an operation returns to its caller, a
\* failed init() closes the storage.
ReturnError ==
    IF up THEN ReturnTo("idle") ELSE GoDown

\* Start of write_manifest_copy(): the record is encoded and its write begins.
BeginCopy(m, j, b) ==
    LET record == [m EXCEPT !.gen = ram.gen + 1]
    IN  IF ram.gen < MaxGeneration /\ Encodable(record)
        THEN /\ out' = record
             /\ job' = j
             /\ back' = b
             /\ pc' = "publish"
             /\ UNCHANGED local
        ELSE ReturnError

\* A call of stabilize_manifest_unsafe(), after which the caller goes on at p.
StabilizeThen(p) ==
    /\ pc' = "stabilize"
    /\ back' = p
    /\ UNCHANGED <<local, job, out>>

-----------------------------------------------------------------------------
(* init(): setup_manifest(), provision_all_data_files(), recover_wal().    *)

\* Blank storage is claimed; anything else must hold an acceptable manifest.
\* A difference in the value-bank tails alone also asks for stabilization.
SetupManifest ==
    /\ pc = "down"
    /\ IF copy = [s \in Two |-> BlankCopy]
       THEN ReturnTo("create")
       ELSE IF ~LoadAccepts(copy)
       THEN GoDown
       ELSE LET selected == copy[SelectedSlot(copy)]
            IN  /\ ram' = selected
                /\ stab' \in {StabilizationRequired(copy), TRUE}
                /\ pc' = IF selected.state = "provisioning" /\ ValidSlots(copy) # Two
                         THEN "create" ELSE "provision"
                /\ UNCHANGED <<up, faulted, mem, next, back, job, out>>
    /\ UNCHANGED <<media, acked>>

\* create_manifest() and open_existing_manifest(): a provisioning copy.
WriteProvisioningCopy ==
    /\ pc = "create"
    /\ BeginCopy(ram, "create", "provision")
    /\ UNCHANGED <<media, acked>>

\* A ready database only checks its identities; a provisioning one clears the
\* table markers, and ensure_wal_header() starts to overwrite WAL slot 0.
ProvisionAllDataFiles ==
    /\ pc = "provision"
    /\ IF ram.state = "ready"
       THEN ReturnTo("recover") /\ UNCHANGED media
       ELSE /\ tab' = [b \in Two |-> [i \in Index |-> 0]]
            /\ ents' = [b \in Two |-> [i \in Index |-> {}]]
            /\ wal' = [wal EXCEPT ![0] = NoWal]
            /\ ReturnTo("firstwal")
            /\ UNCHANGED <<copy, vb, ops>>
    /\ UNCHANGED acked

InitialiseFirstWal ==
    /\ pc = "firstwal"
    /\ wal' = [wal EXCEPT ![0] = [gen |-> 1, first |-> 1, last |-> 0]]
    /\ BeginCopy([ram EXCEPT !.state = "ready", !.wslot = 0,
                             !.wgen = [w \in Two |-> 1 - w], !.ckpt = 0],
                 "ready", "recover")
    /\ UNCHANGED <<copy, tab, ents, vb, ops, acked>>

\* Faulty variants of RecoverWal, none of them part of Next: the next sequence
\* is the last one replayed; it follows the checkpoint instead of the replay.
RecoverWalReusingLast ==
    /\ pc = "recover"
    /\ IF ram.state = "ready" /\ Recoverable(ram)
       THEN /\ mem' = Newest(Replayed(ram))
            /\ next' = wal[ram.wslot].last
            /\ acked' = wal[ram.wslot].last
            /\ pc' = "stabilize"
            /\ back' = "serve"
            /\ UNCHANGED <<up, ram, stab, faulted, job, out>>
       ELSE GoDown /\ UNCHANGED acked
    /\ UNCHANGED media

RecoverWalFromCheckpoint ==
    /\ pc = "recover"
    /\ IF ram.state = "ready" /\ Recoverable(ram)
       THEN /\ mem' = Newest(Replayed(ram))
            /\ next' = ram.ckpt + 1
            /\ acked' = wal[ram.wslot].last
            /\ pc' = "stabilize"
            /\ back' = "serve"
            /\ UNCHANGED <<up, ram, stab, faulted, job, out>>
       ELSE GoDown /\ UNCHANGED acked
    /\ UNCHANGED media

\* What recovery finds it also reports: from here on it may not be lost.
RecoverWal ==
    /\ pc = "recover"
    /\ IF ram.state = "ready" /\ Recoverable(ram)
       THEN /\ mem' = Newest(Replayed(ram))
            /\ next' = wal[ram.wslot].last + 1
            /\ acked' = wal[ram.wslot].last
            /\ pc' = "stabilize"
            /\ back' = "serve"
            /\ UNCHANGED <<up, ram, stab, faulted, job, out>>
       ELSE GoDown /\ UNCHANGED acked
    /\ UNCHANGED media

Serve ==
    /\ pc = "serve"
    /\ up' = TRUE
    /\ pc' = "idle"
    /\ UNCHANGED <<media, ram, stab, faulted, mem, next, back, job, out, acked>>

\* stabilize_manifest_unsafe()
Stabilize ==
    /\ pc = "stabilize"
    /\ IF stab THEN BeginCopy(ram, "stabilize", back) ELSE ReturnTo(back)
    /\ UNCHANGED <<media, acked>>

-----------------------------------------------------------------------------
(* compact_tables_unsafe()                                                 *)

\* The output table bank and the destination value bank are overwritten.  A
\* pinned destination bank makes it fail first, which is a CallFails.
BeginCompaction(b) ==
    IF ram.gen > MaxGeneration - 2
    THEN ReturnError /\ UNCHANGED media
    ELSE /\ tab' = [tab EXCEPT ![1 - ram.bank] = [i \in Index |-> 0]]
         /\ ents' = [ents EXCEPT ![1 - ram.bank] = [i \in Index |-> {}]]
         /\ vb' = [vb EXCEPT ![1 - ram.vbank] = ram.vgen[1 - ram.vbank] + 1]
         /\ pc' = "compact"
         /\ back' = b
         /\ UNCHANGED <<copy, wal, ops, local, job, out>>

\* The ways to cut the merged entries into output tables.
Splits(S) ==
    UNION {{f \in [S -> 1 .. n] : {f[s] : s \in S} = 1 .. n} : n \in 0 .. BankSize}

\* The record that makes the output bank live.  part[i] holds the sequences
\* of output table i; an empty one is not written.
Compacted(part) ==
    [ram EXCEPT
        !.tabs = [b \in Two |->
            IF b = ram.bank THEN NoTables
            ELSE [i \in Index |->
                    IF part[i] = {} THEN Inactive
                    ELSE [gen |-> ram.ntg + i - 1, max |-> Max(part[i])]]],
        !.bank = 1 - ram.bank,
        !.vbank = 1 - ram.vbank,
        !.vgen = [ram.vgen EXCEPT ![1 - ram.vbank] = ram.vgen[1 - ram.vbank] + 1],
        !.ckpt = next - 1,
        !.ntg = ram.ntg + Cardinality({i \in Index : part[i] # {}}),
        !.wgen = [ram.wgen EXCEPT ![1 - ram.wslot] = 0]]

\* Every source is merged, the newest version of each key is kept and
\* tombstones are dropped; the outputs are durable before the manifest swap.
Compact ==
    /\ pc = "compact"
    /\ LET sources == mem \cup TableEntries(ram)
       IN  \E f \in Splits(Live(sources)) :
              LET part == [i \in Index |-> {s \in Live(sources) : f[s] = i}]
                  m    == Compacted(part)
              IN  /\ tab' = [tab EXCEPT ![m.bank] = [i \in Index |-> m.tabs[m.bank][i].gen]]
                  /\ ents' = [ents EXCEPT ![m.bank] = part]
                  /\ IF Max(Newest(sources) \cup {0}) = next - 1
                     THEN BeginCopy(m, "compact", back)
                     ELSE ReturnError
    /\ UNCHANGED <<copy, wal, vb, ops, acked>>

-----------------------------------------------------------------------------
(* flush_memtable_unsafe()                                                 *)

FreeIndexes(m) == {i \in Index : m.tabs[m.bank][i].gen = 0}

\* The first free table slot of the active bank is overwritten; without one
\* the flush becomes a compaction.
BeginFlush(b) ==
    IF FreeIndexes(ram) = {}
    THEN BeginCompaction(b)
    ELSE /\ tab' = [tab EXCEPT ![ram.bank][Min(FreeIndexes(ram))] = 0]
         /\ ents' = [ents EXCEPT ![ram.bank][Min(FreeIndexes(ram))] = {}]
         /\ pc' = "flush"
         /\ back' = b
         /\ UNCHANGED <<copy, wal, vb, ops, local, job, out>>

Flushed ==
    [ram EXCEPT
        !.tabs[ram.bank][Min(FreeIndexes(ram))] = [gen |-> ram.ntg, max |-> Max(mem)],
        !.ckpt = Max(mem),
        !.ntg = ram.ntg + 1]

\* A faulty variant of Flush: tombstones are not written.
FlushWithoutTombstones ==
    /\ pc = "flush"
    /\ tab' = [tab EXCEPT ![ram.bank][Min(FreeIndexes(ram))] = ram.ntg]
    /\ ents' = [ents EXCEPT ![ram.bank][Min(FreeIndexes(ram))] = Live(mem)]
    /\ BeginCopy(Flushed, "flush", back)
    /\ UNCHANGED <<copy, wal, vb, ops, acked>>

Flush ==
    /\ pc = "flush"
    /\ tab' = [tab EXCEPT ![ram.bank][Min(FreeIndexes(ram))] = ram.ntg]
    /\ ents' = [ents EXCEPT ![ram.bank][Min(FreeIndexes(ram))] = mem]
    /\ BeginCopy(Flushed, "flush", back)
    /\ UNCHANGED <<copy, wal, vb, ops, acked>>

-----------------------------------------------------------------------------
(* commit(), append_transaction_unsafe(), rotate_wal_unsafe()              *)

\* The memtable may have to be flushed before it takes the mutations.
Commit ==
    /\ pc = "idle" /\ up /\ ~faulted
    /\ next <= MaxSeq
    /\ \/ ReturnTo("commit") /\ UNCHANGED media
       \/ mem # {} /\ BeginFlush("commit")
    /\ UNCHANGED acked

\* begin_value_write(): a full value bank is compacted first.
BeginValueWrite ==
    /\ pc = "idle" /\ up /\ ~faulted
    /\ BeginCompaction("idle")
    /\ UNCHANGED acked

BeginAppend ==
    /\ pc = "commit"
    /\ StabilizeThen("append")
    /\ UNCHANGED <<media, acked>>

\* A full WAL slot is left by rotation, after the other slot was released by
\* a compaction or the memtable was made durable by a flush.
AppendTransaction ==
    /\ pc = "append"
    /\ IF next - wal[ram.wslot].first < WalCap
       THEN ReturnTo("frames") /\ UNCHANGED media
       ELSE IF ram.wgen[1 - ram.wslot] # 0
       THEN BeginCompaction("rotate")
       ELSE IF mem # {}
       THEN BeginFlush("rotate")
       ELSE ReturnTo("rotate") /\ UNCHANGED media
    /\ UNCHANGED acked

RotateWal ==
    /\ pc = "rotate"
    /\ IF ram.wgen[1 - ram.wslot] # 0 \/ ram.gen > MaxGeneration - 2
       THEN ReturnError
       ELSE StabilizeThen("header")
    /\ UNCHANGED <<media, acked>>

\* ensure_wal_header() overwrites the headers of the target slot, ...
BeginWalHeader ==
    /\ pc = "header"
    /\ wal' = [wal EXCEPT ![1 - ram.wslot] = NoWal]
    /\ ReturnTo("synced")
    /\ UNCHANGED <<copy, tab, ents, vb, ops, acked>>

\* ... and the manifest selects it once they are durable.
WalHeaderSynced ==
    /\ pc = "synced"
    /\ LET target == 1 - ram.wslot
           gen    == ram.wgen[ram.wslot] + 1
       IN  /\ wal' = [wal EXCEPT ![target] =
                        [gen |-> gen, first |-> next, last |-> next - 1]]
           /\ BeginCopy([ram EXCEPT !.wslot = target, !.wgen[target] = gen],
                        "rotate", "frames")
    /\ UNCHANGED <<copy, tab, ents, vb, ops, acked>>

\* The frames of transaction `next` with operation op reach the active slot,
\* over whatever a failed attempt at the same sequence left there.
Persist(op) ==
    /\ ops' = IF next <= Len(ops) THEN [ops EXCEPT ![next] = op] ELSE Append(ops, op)
    /\ wal' = [wal EXCEPT ![ram.wslot].last = next]
    /\ UNCHANGED <<copy, tab, ents, vb>>

\* What the transaction holds when its frames are encoded: a value written to,
\* or relocated into, the active bank, or a tombstone, which erase_key()
\* stages only for a key that exists.
Staged ==
    {op \in [key : Keys, del : BOOLEAN, bank : {ram.vbank}, vgen : {ram.vgen[ram.vbank]}] :
        op.del => \E s \in Visible : ops[s].key = op.key}

AppendFrames ==
    /\ pc = "frames"
    /\ \E op \in Staged :
          /\ Persist(op)
          /\ mem' = {s \in mem : ops[s].key # op.key} \cup {next}
    /\ acked' = next
    /\ next' = next + 1
    /\ pc' = "idle"
    /\ UNCHANGED <<up, ram, stab, faulted, back, job, out>>

-----------------------------------------------------------------------------
(* write_manifest_copy() returning ESP_OK, by what the copy was for.       *)

Published(j) ==
    /\ pc = "publish"
    /\ job = j
    /\ copy' = [copy EXCEPT ![Slot(out.gen)] = out]
    /\ ram' = out
    /\ UNCHANGED <<wal, tab, ents, vb, ops, up, faulted, next, back, job, out, acked>>

\* create_manifest() goes on with generation 2.
ProvisioningCopyPublished ==
    /\ Published("create")
    /\ pc' = IF out.gen = 1 THEN "create" ELSE back
    /\ UNCHANGED <<stab, mem>>

ReadyPublished ==
    /\ Published("ready")
    /\ stab' = TRUE
    /\ pc' = "stabilize"
    /\ UNCHANGED mem

FlushPublished ==
    /\ Published("flush")
    /\ mem' = {}
    /\ pc' = back
    /\ UNCHANGED stab

\* Faulty variants of CompactionPublished and RotationPublished: the other copy
\* is not brought up to date.
CompactionPublishedOnce ==
    /\ Published("compact")
    /\ mem' = {}
    /\ stab' = FALSE
    /\ pc' = back

RotationPublishedOnce ==
    /\ Published("rotate")
    /\ stab' = FALSE
    /\ pc' = back
    /\ UNCHANGED mem

CompactionPublished ==
    /\ Published("compact")
    /\ mem' = {}
    /\ stab' = TRUE
    /\ pc' = "stabilize"

RotationPublished ==
    /\ Published("rotate")
    /\ stab' = TRUE
    /\ pc' = "stabilize"
    /\ UNCHANGED mem

StabilizationPublished ==
    /\ Published("stabilize")
    /\ stab' = FALSE
    /\ pc' = back
    /\ UNCHANGED mem

-----------------------------------------------------------------------------
(* Failures and the end of a run.                                          *)

\* A manifest write that did not complete: not started, torn, or complete.
CopyInterrupted ==
    /\ \E c \in {copy[Slot(out.gen)], TornCopy, out} :
          copy' = [copy EXCEPT ![Slot(out.gen)] = c]
    /\ UNCHANGED <<wal, tab, ents, vb, ops>>

\* write_manifest_copy() returning an error.
PublishFails ==
    /\ pc = "publish"
    /\ CopyInterrupted
    /\ IF up
       THEN /\ faulted' = TRUE
            /\ pc' = "idle"
            /\ UNCHANGED <<up, ram, stab, mem, next, back, job, out>>
       ELSE GoDown
    /\ UNCHANGED acked

\* A failing read, write or sync, a pinned value bank or a capacity limit.
CallFails ==
    /\ pc \in {"create", "provision", "firstwal", "recover", "commit", "append",
               "flush", "compact", "header", "synced"}
    /\ ReturnError
    /\ UNCHANGED <<media, acked>>

\* An append that fails may have reached the medium; no fault is latched.
AppendFails ==
    /\ pc = "frames"
    /\ \/ UNCHANGED media
       \/ AppendMayPersist /\ \E op \in Staged : Persist(op)
    /\ ReturnError
    /\ UNCHANGED acked

Deinit ==
    /\ pc = "idle"
    /\ GoDown
    /\ UNCHANGED <<media, acked>>

PowerCut ==
    /\ pc \notin {"down", "idle"}
    /\ IF pc = "publish"
       THEN CopyInterrupted
       ELSE \/ UNCHANGED media
            \/ pc = "frames" /\ \E op \in Staged : Persist(op)
    /\ GoDown
    /\ UNCHANGED acked

\* The medium loses one of the two redundant copies between two runs.
LoseCopy ==
    /\ pc = "down"
    /\ ValidSlots(copy) = Two
    /\ \E s \in Two : copy' = [copy EXCEPT ![s] = TornCopy]
    /\ UNCHANGED <<wal, tab, ents, vb, ops, local, call, acked>>

-----------------------------------------------------------------------------
InitSteps ==
    \/ SetupManifest \/ WriteProvisioningCopy \/ ProvisionAllDataFiles
    \/ InitialiseFirstWal \/ RecoverWal \/ Serve

CommitSteps ==
    \/ Commit \/ BeginValueWrite \/ BeginAppend \/ AppendTransaction \/ RotateWal \/ BeginWalHeader
    \/ WalHeaderSynced \/ AppendFrames \/ Compact \/ Flush \/ Stabilize

PublishSteps ==
    \/ ProvisioningCopyPublished \/ ReadyPublished \/ FlushPublished
    \/ CompactionPublished \/ RotationPublished \/ StabilizationPublished

FailureSteps ==
    PublishFails \/ CallFails \/ AppendFails \/ Deinit \/ PowerCut \/ LoseCopy

Next == InitSteps \/ CommitSteps \/ PublishSteps \/ FailureSteps

Spec == Init /\ [][Next]_vars

-----------------------------------------------------------------------------
(* Properties                                                              *)

PublishJob == {"create", "ready", "flush", "compact", "rotate", "stabilize"}

Place == {"down", "create", "provision", "firstwal", "recover", "serve",
          "idle", "commit", "append", "rotate", "header", "synced", "frames",
          "flush", "compact", "stabilize", "publish"}

\* The state has the shape the declarations of on9kvdb.hpp give it.
TypeOK ==
    /\ copy \in [Two -> ManifestRecord]
    /\ wal \in [Two -> WalSlot]
    /\ tab \in [Two -> [Index -> Nat]]
    /\ ents \in [Two -> [Index -> SUBSET Nat]]
    /\ vb \in [Two -> Nat]
    /\ ops \in Seq(Operation)
    /\ up \in BOOLEAN
    /\ ram \in ManifestRecord
    /\ stab \in BOOLEAN
    /\ faulted \in BOOLEAN
    /\ mem \in SUBSET Nat
    /\ next \in Nat \ {0}
    /\ pc \in Place
    /\ back \in Place
    /\ job \in PublishJob
    /\ out \in ManifestRecord
    /\ acked \in Nat

\* Storage that a valid manifest copy reaches -- its tables, its WAL slots,
\* its value bank -- is complete and never overwritten, whichever step the
\* power fails in: flush, compaction and rotation reuse only what neither
\* copy can still select.
ReferencedStorageIntact ==
    \A s \in ValidSlots(copy) : StorageIntact(copy[s])

\* load_manifest() never refuses a pair of copies the engine itself wrote,
\* and once a commit was acknowledged one valid copy always remains.
ManifestAlwaysLoads ==
    /\ ValidSlots(copy) # {} => LoadAccepts(copy)
    /\ acked > 0 => ValidSlots(copy) # {}

\* Either valid copy alone, were the other one lost now, recovers exactly the
\* transactions on the medium, acknowledged ones included: its WAL slots
\* chain from its checkpoint, the replayed values lie in its value bank, and
\* tables plus replay give the newest versions.
EveryCopyRecovers ==
    \A s \in ValidSlots(copy) :
        LET c    == copy[s]
            last == wal[c.wslot].last
        IN  IF c.state = "ready"
            THEN /\ WalChain(c)
                 /\ ReplayableValues(c)
                 /\ acked <= last /\ last <= Len(ops)
                 /\ Live(TableEntries(c) \cup Replayed(c)) = Live(1 .. last)
            ELSE acked = 0

\* Between operations a read finds exactly the committed transactions: the
\* memtable, then the active tables, whatever flush or compaction did, failed
\* attempts included.
ReadsSeeCommitted ==
    pc = "idle" => Visible = Live(1 .. next - 1)

\* An operation starts only with two valid copies from which the same storage
\* is reachable, so that no recycling depends on a single copy.
ServesOnTwoCopies ==
    pc = "idle" /\ ~faulted =>
        /\ ValidSlots(copy) = Two
        /\ SameReach(copy[0], copy[1])

\* No step makes an acknowledged transaction unacknowledged, or rewrites one.
AcknowledgedStays ==
    [][ /\ acked <= acked'
        /\ acked <= Len(ops')
        /\ \A s \in 1 .. acked : ops'[s] = ops[s] ]_vars

\* compact_tables_unsafe(): "a newest tombstone can be omitted ... Its
\* sequence still advances the checkpoint below": the swapped manifest of a
\* merge that covers every transaction is one that can be published.
CompactionPublishable ==
    pc = "compact" /\ Max(Newest(mem \cup TableEntries(ram)) \cup {0}) = next - 1 =>
        LET live == Live(mem \cup TableEntries(ram))
        IN  \E f \in Splits(live) :
               Encodable([Compacted([i \in Index |-> {s \in live : f[s] = i}])
                            EXCEPT !.gen = ram.gen + 1])

\* compact_tables_unsafe() refuses a merge that does not reach the transaction
\* before the next one.  That happens to an empty database only: whatever
\* flushes, compactions, failures and recoveries went before, the last
\* transaction is in the memtable or in a table as long as there is any entry, a
\* tombstone included.
RefusedOnlyWhenEmpty ==
    pc = "compact" /\ mem \cup TableEntries(ram) # {} =>
        Max(Newest(mem \cup TableEntries(ram)) \cup {0}) = next - 1

-----------------------------------------------------------------------------
(* The promise of KeyValue.tla, and how the engine's state stands for it.  *)

\* The version of each key among the values a reader can see in S.
VersionsIn(S) ==
    [k \in Keys |->
        IF \E s \in Live(S) : ops[s].key = k
        THEN CHOOSE s \in Live(S) : ops[s].key = k
        ELSE 0]

\* While the database serves, the promised map is what lookups find in the
\* memtable and the active tables; otherwise it is what was acknowledged.
Promise == INSTANCE KeyValue WITH
    serving <- up,
    last    <- acked,
    db      <- VersionsIn(IF up THEN mem \cup TableEntries(ram) ELSE 1 .. acked)

\* The engine implements the key-value store it promises: a read between any
\* two steps finds the map of the acknowledged transactions; flush, compaction,
\* rotation, stabilization and failed calls change nothing; a restart brings
\* back that map, with at most the one transaction whose commit() had not
\* returned on top of it.
ImplementsKeyValue == Promise!Spec

=============================================================================
