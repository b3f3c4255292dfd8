--------------------------- MODULE SessionInvariant ---------------------------
(***************************************************************************)
(* The inductive invariant behind the theorems about Session.tla, written  *)
(* as a conjunction of named parts.  The parts about values are predicates *)
(* of a bank state, so that they can be stated of the outcome of a         *)
(* compaction before a call installs it.                                   *)
(***************************************************************************)
EXTENDS Session

StagedValue == Value \cup StagedInline \cup {Unstaged}

WriterSlot ==
    [gen : 0 .. MaxHandleGeneration, active : BOOLEAN, txn : 0 .. MaxHandleGeneration,
     key : Keys \cup {0}, size : Sizes \cup {0}, written : Nat, held : 0 .. 2,
     next : 0 .. BankChunks, intact : BOOLEAN, bank : Two, bgen : Nat,
     first : 0 .. BankChunks]

Banks ==
    [active : Two, gen : [Two -> 1 .. MaxBankGeneration], tail : [Two -> 0 .. BankChunks],
     chunk : [Two -> [Offsets -> Chunk]], unsynced : SUBSET (Two \X Offsets),
     dirty : SUBSET Two]

\* Types of the slots and counters.
SlotTypes ==
    /\ up \in BOOLEAN /\ faulted \in BOOLEAN /\ appending \in BOOLEAN
    /\ handles \in [HandleSlots -> HandleSlot]
    /\ readers \in [ReaderSlots -> ReaderSlot]
    /\ txn \in TxnSlot
    /\ writer \in WriterSlot
    /\ hcounter \in 0 .. MaxHandleGeneration
    /\ tcounter \in 0 .. MaxHandleGeneration
    /\ seen \in [h : Nat, t : Nat]

\* A generation that can still be handed out was never handed out before.
CounterInv ==
    /\ hcounter # 0 => seen.h < hcounter
    /\ tcounter # 0 => seen.t < tcounter

\* The transaction's handle is open with the generation it was begun with,
\* and it is the one handle marked busy.
OwnerInv ==
    /\ txn.active => txn.slot \in HandleSlots /\ HandleOf(txn.slot, txn.hgen)
    /\ TransactionOwned

\* Without a transaction nothing is staged and nothing is being logged or
\* written.
TransactionInv ==
    /\ ~txn.active => /\ \A k \in Keys : txn.muts[k] = Unstaged
                      /\ txn.arena = <<>>
                      /\ ~appending /\ ~writer.active
    /\ writer.active => txn.gen = writer.txn /\ writer.key \in Keys
    /\ appending => up /\ ~writer.active

\* deinit() leaves no slot in use.
DownInv ==
    ~up => /\ ~txn.active
           /\ \A i \in ReaderSlots : readers[i].value = Absent

\* The value that transaction t staged inline for k has its bytes in the
\* arena.
HasBytes(t, k) ==
    InArena(t.muts[k]) /\ t.muts[k].size > 0 =>
        /\ t.muts[k].at + t.muts[k].size <= Len(t.arena)
        /\ \A i \in 1 .. t.muts[k].size :
              t.arena[t.muts[k].at + i] = <<k, t.muts[k].size, i>>

ArenaInv ==
    /\ Len(txn.arena) <= StagingSize
    /\ \A k \in Keys : HasBytes(txn, k)

\* The parts that do not look at what the banks hold.
TokenInv ==
    SlotTypes /\ CounterInv /\ OwnerInv /\ TransactionInv /\ DownInv /\ ArenaInv

-----------------------------------------------------------------------------
(* The banks.                                                              *)

\* ReadsBack and Durable, for a bank state b.
ReadsIn(b, r) ==
    \A i \in 0 .. (Chunks(r.size) - 1) :
        r.first + i < BankChunks /\ b.chunk[r.bank][r.first + i] = ChunkOf(r, i)

SyncedIn(b, r) ==
    \A i \in 0 .. (Chunks(r.size) - 1) : <<r.bank, r.first + i>> \notin b.unsynced

\* r lies in the reserved part of the active bank, with its bytes.
SettledIn(b, r) ==
    /\ r.bank = b.active
    /\ r.gen = b.gen[b.active]
    /\ r.first + Chunks(r.size) <= b.tail[b.active]
    /\ ReadsIn(b, r)

StoredIn(b, values) ==
    \A k \in Keys : External(values[k]) => SettledIn(b, values[k]) /\ SyncedIn(b, values[k])

\* A staged value may still have to be synchronized; the dirty mask knows
\* until its reference is being logged.
StagedIn(b, muts, logging) ==
    \A k \in Keys : External(muts[k]) =>
        /\ SettledIn(b, muts[k])
        /\ SyncedIn(b, muts[k]) \/ (b.dirty # {} /\ ~logging)

\* What a reader holds lies in the reserved part of the active bank, or in
\* the other bank, which its pin keeps.
ReadersIn(b, slots) ==
    \A i \in ReaderSlots : External(slots[i].value) =>
        /\ slots[i].used
        /\ ReadsIn(b, slots[i].value)
        /\ slots[i].value.bank = b.active =>
              slots[i].value.first + Chunks(slots[i].value.size) <= b.tail[b.active]

\* The writer of a large value w goes on behind the tail of the active bank
\* b; it has written whole chunks, and the rest is in its buffer.
WritesIn(b, w) ==
    /\ w.bank = b.active
    /\ w.bgen = b.gen[b.active]
    /\ w.first = b.tail[b.active]
    /\ w.first <= w.next
    /\ w.first + Chunks(w.size) <= BankChunks
    /\ w.intact
    /\ \A i \in 0 .. (w.next - w.first - 1) :
          b.chunk[w.bank][w.first + i] = ChunkOf(WrittenRef(w), i)
    /\ w.written <= w.size
    /\ \/ w.written = 2 * (w.next - w.first) + w.held
       \/ /\ w.held = 0 /\ w.written = w.size
          /\ w.written + 1 = 2 * (w.next - w.first)

WriterIn(b, w) ==
    /\ w.active /\ w.size # 0 => WritesIn(b, w)
    /\ ~w.active => w.size = 0
    /\ w.size = 0 => w.written <= 1 /\ w.held = 0

ValueInv ==
    /\ bank \in Banks
    /\ stored \in [Keys -> Value]
    /\ StoredIn(bank, stored)
    /\ StagedIn(bank, txn.muts, appending)
    /\ ReadersIn(bank, readers)
    /\ WriterIn(bank, writer)

SInv == TokenInv /\ ValueInv
=============================================================================
