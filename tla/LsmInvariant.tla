---------------------------- MODULE LsmInvariant ----------------------------
(***************************************************************************)
(* The inductive invariants of Lsm that LsmProofs proves: LsmInv makes a   *)
(* commit fit, DataInv makes a lookup exact.                               *)
(***************************************************************************)
EXTENDS Lsm

\* The memtable with the first mutations of a transaction.
InsertTurn(c, m, i) == Inserted(m, c.slot, VersionFrom(c.muts[i], c.seq))

Inserting == INSTANCE Iteration WITH Turn <- InsertTurn

Insertions(slot, muts, seq) == [slot |-> slot, muts |-> muts, seq |-> seq]

With(m, slot, muts, seq, n) == Inserting!Iterated(Insertions(slot, muts, seq), m, n)

\* There is room for every mutation of the transaction, one after the other.
FitsFrom(m, slot, muts, seq) ==
    \A n \in 0 .. Len(muts) :
        /\ With(m, slot, muts, seq, n).count <= Buckets
        /\ Len(With(m, slot, muts, seq, n).data) <= DataSize

SpaceNames == {NamespaceOf[k] : k \in Keys}

SpacesWell(sp) == sp \in Seq(SpaceNames) /\ Len(sp) <= MaxNamespaces

\* A memtable with nothing of the sequence s or later.
MemtableUpTo(m, s) ==
    /\ m \in MemtableType
    /\ Tiled(m) /\ Indexed(m)
    /\ Len(m.data) <= DataSize
    /\ \A b \in Occupied(m) : RecordAt(m, b).v.seq < s

LogWell ==
    /\ log \in Seq([seq : Nat \ {0}, muts : Transactions])
    /\ \A i, j \in DOMAIN log : i < j => log[i].seq < log[j].seq
    /\ \A i \in DOMAIN log : log[i].seq < next \/ (pc = "apply" /\ log[i].seq <= next)

TxnWell ==
    /\ pc # "idle" => txn.muts \in Transactions
    /\ pc \in {"append", "rotate", "apply"} =>
          LET slot == NamespaceSlot(spaces, Namespace(txn.muts))
          IN  slot # 0 /\ FitsFrom(mem, slot, txn.muts, next)

LsmInv ==
    /\ next \in Nat \ {0}
    /\ pc \in {"idle", "again", "append", "rotate", "apply"}
    /\ disk.ckpt \in Nat /\ older.ckpt \in Nat
    /\ SpacesWell(spaces)
    /\ MemtableUpTo(mem, next)
    /\ LogWell
    /\ TxnWell

-----------------------------------------------------------------------------
(* What a lookup finds                                                     *)

\* What S shows of a key.
Shown(S, k) ==
    IF k \in KeysOf(S) THEN Visible(CHOOSE v \in NewestVersions(S) : v.key = k) ELSE NoVersion

\* The versions that the transactions of a log write.
VersionsIn(muts, seq) == {VersionFrom(muts[i], seq) : i \in DOMAIN muts}

Written(l) == UNION {VersionsIn(l[i].muts, l[i].seq) : i \in DOMAIN l}

\* Every record is under the namespace of its key.
SlotsWell(m, sp) ==
    \A b \in Occupied(m) :
        LET n == NamespaceOf[RecordAt(m, b).v.key]
        IN  Contains(sp, n) /\ RecordAt(m, b).slot = NamespaceSlot(sp, n)

\* The part of the log that is in the memtable or in a table.
AppliedLog == IF pc = "apply" THEN SubSeq(log, 1, Len(log) - 1) ELSE log

\* A manifest copy and the log after it show what was logged last.
CopyWell(copy) ==
    /\ TablesWell(copy.tables)
    /\ \A v \in AllVersions(copy.tables) : v.seq <= copy.ckpt
    /\ \A k \in Keys :
          Shown(AllVersions(copy.tables) \cup Written(After(log, copy.ckpt)), k) =
             Visible(truth[k])

\* The sequence that was logged last.
LastSequence == IF log = <<>> THEN disk.ckpt ELSE Last(log).seq

SequencesWell ==
    /\ older.ckpt <= disk.ckpt
    /\ disk.ckpt <= LastSequence
    /\ log = <<>> => older.ckpt = disk.ckpt
    /\ next = IF pc = "apply" THEN LastSequence ELSE LastSequence + 1
    /\ pc = "apply" => log # <<>> /\ disk.ckpt < next /\ Last(log).muts = txn.muts

DataInv ==
    /\ CopyWell(disk) /\ CopyWell(older)
    /\ SlotsWell(mem, spaces)
    /\ MemtableVersions(mem) = NewestVersions(Written(After(AppliedLog, disk.ckpt)))
    /\ SequencesWell

=============================================================================
