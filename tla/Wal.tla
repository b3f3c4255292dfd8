--------------------------------- MODULE Wal ---------------------------------
(***************************************************************************)
(* The write-ahead log of on9kvdb at the level of its 4096-byte frames:    *)
(* append_transaction_unsafe(), which writes a transaction as one or more  *)
(* frames followed by one sync, and scan_wal_slot(), which decides at the  *)
(* next init() which of the frames on the medium are committed             *)
(* transactions.  Engine.tla takes a transaction as one step; here a power *)
(* cut or a failing write may leave any prefix of its frames.              *)
(*                                                                         *)
(* The flush or compaction before a rotation and the manifest publications *)
(* of the rotation itself are one step here: their interruptions are the   *)
(* subject of Engine.tla.  Frames reach the medium in the order they are   *)
(* written; sync() is where they are known to be there.                    *)
(***************************************************************************)
EXTENDS Integers, Sequences, FiniteSetsExt

CONSTANTS
    Payloads,    \* what the frames of a transaction carry
    MaxFrames,   \* frames of the largest transaction
    Frames,      \* frames in the record region of a WAL slot
    MaxSeq,      \* bound: commits are not started beyond this sequence
    AppendsFail  \* whether a write or sync may report an error

ASSUME FramesAssumption == Frames \in Nat /\ MaxFrames \in 1 .. Frames
ASSUME MaxSeqAssumption == MaxSeq \in Nat
ASSUME AppendsFailAssumption == AppendsFail \in BOOLEAN

Two == {0, 1}

VARIABLES
    region,    \* frames of each WAL slot on the medium
    header,    \* header of each WAL slot: generation, first sequence
    man,       \* active_wal_slot, wal_generation, safe_checkpoint_sequence
    pc,        \* "down", "idle" or "write" (an append in progress)
    tail,      \* wal_tail of the active slot, in frames
    next,      \* next_transaction_sequence
    txn,       \* the transaction being appended
    written,   \* its frames written so far
    hist       \* the transactions reported durable, by sequence

vars == <<region, header, man, pc, tail, next, txn, written, hist>>

\* A transaction is its payload and its number of frames; the payload stands
\* for transaction_checksum in every frame header, and for payload_part.
Transaction == [payload : Payloads, count : 1 .. MaxFrames]

NoTransaction == [count |-> 0]

\* What does not decode: erased, or a torn frame.
Junk == [gen |-> 0]

Frame(t, i) ==
    [gen |-> man.wgen[man.active], seq |-> next, index |-> i, count |-> t.count,
     sum |-> t.payload, part |-> t.payload]

-----------------------------------------------------------------------------
(* scan_wal_slot() and recover_wal()                                       *)

Refused == [ok |-> FALSE, next |-> 0, tail |-> 0, got |-> <<>>]

\* find_later_wal_frame_unsafe(): a hole instead of a tail.
LaterFrame(w, from, seq) ==
    \E p \in from .. Frames :
        /\ region[w][p] # Junk
        /\ region[w][p].gen = man.wgen[w]
        /\ region[w][p].seq >= seq

\* A faulty variant of Continues: the checksum and the count are not compared.
ContinuesAnyhow(frame, first, i) ==
    /\ frame # Junk
    /\ frame.gen = first.gen /\ frame.seq = first.seq
    /\ frame.index = i

\* Frame i of the transaction that begins with frame first.
Continues(frame, first, i) ==
    /\ frame # Junk
    /\ frame.gen = first.gen /\ frame.seq = first.seq
    /\ frame.index = i
    /\ frame.count = first.count /\ frame.sum = first.sum

\* One turn of the loop of scan_wal_slot() on slot w, at frame offset o with seq
\* as the expected sequence; scan is what the turns from a later offset yield.
\* got lists the payload parts of every accepted transaction.
Turn(scan, w, o, seq) ==
    LET first == region[w][o + 1]
        bad == {i \in 1 .. first.count : ~Continues(region[w][o + i], first, i - 1)}
        parts == [i \in 1 .. first.count |-> region[w][o + i].part]
        end == [ok |-> TRUE, next |-> seq, tail |-> o, got |-> <<>>]
        EndOfLog(from) == IF LaterFrame(w, from, seq) THEN Refused ELSE end
    IN  IF o = Frames
        THEN end
        ELSE IF first = Junk \/ first.gen # man.wgen[w]
        THEN EndOfLog(o + 2)
        ELSE IF first.seq # seq \/ first.index # 0 \/ first.count > Frames - o
        THEN Refused
        ELSE IF bad # {}
        THEN EndOfLog(o + Min(bad) + 1)
        ELSE [scan[o + first.count][seq + 1] EXCEPT !.got = <<parts>> \o @]

\* The scan of slot w from each offset with each expected sequence.
Scan(w) ==
    LET scan[o \in 0 .. Frames] == [seq \in 1 .. MaxSeq + 2 |-> Turn(scan, w, o, seq)]
    IN  scan

ScanSlot(w, seq) ==
    IF header[w].gen # man.wgen[w] \/ header[w].first # seq
    THEN Refused ELSE Scan(w)[0][seq]

OlderWal == 1 - man.active

FirstWal == IF man.wgen[OlderWal] # 0 THEN OlderWal ELSE man.active

\* first is the sequence of got[1].
Recovery ==
    LET seq == header[FirstWal].first
        one == ScanSlot(FirstWal, seq)
        two == IF FirstWal = man.active THEN one ELSE ScanSlot(man.active, one.next)
        got == IF FirstWal = man.active THEN one.got ELSE one.got \o two.got
    IN  [ok    |-> one.ok /\ two.ok /\ seq <= man.ckpt + 1 /\ man.ckpt < two.next,
         first |-> seq, next |-> two.next, tail |-> two.tail, got |-> got]

-----------------------------------------------------------------------------
Init ==
    /\ region = [w \in Two |-> [p \in 1 .. Frames |-> Junk]]
    /\ header = [w \in Two |-> [gen |-> 1 - w, first |-> 1 - w]]
    /\ man = [active |-> 0, wgen |-> [w \in Two |-> 1 - w], ckpt |-> 0]
    /\ pc = "down"
    /\ tail = 0
    /\ next = 1
    /\ txn = NoTransaction
    /\ written = 0
    /\ hist = <<>>

\* The parts scan_wal_slot() should find for transaction t.
Parts(t) == [i \in 1 .. t.count |-> t.payload]

\* init(): what the log yields is what the database now holds.
Recover ==
    /\ pc = "down"
    /\ Recovery.ok
    /\ pc' = "idle"
    /\ tail' = Recovery.tail
    /\ next' = Recovery.next
    /\ hist' = [s \in 1 .. Recovery.next - 1 |->
                   IF s < Recovery.first THEN hist[s]
                   ELSE Recovery.got[s - Recovery.first + 1]]
    /\ UNCHANGED <<region, header, man, txn, written>>

\* A faulty variant of Rotated: the log goes on one transaction too late.
RotatedLate ==
    LET target == 1 - man.active
        gen    == man.wgen[man.active] + 1
    IN  /\ header' = [header EXCEPT ![target] = [gen |-> gen, first |-> next + 1]]
        /\ man' = [active |-> target,
                   wgen   |-> [man.wgen EXCEPT ![target] = gen],
                   ckpt   |-> next - 1]
        /\ tail' = 0

\* The memtable is made durable -- by a compaction if the other slot is still
\* referenced, which releases it, by a flush otherwise -- and the log goes on
\* in the other slot, whose old frames stay where they are.
Rotated ==
    LET target == 1 - man.active
        gen    == man.wgen[man.active] + 1
    IN  /\ header' = [header EXCEPT ![target] = [gen |-> gen, first |-> next]]
        /\ man' = [active |-> target,
                   wgen   |-> [man.wgen EXCEPT ![target] = gen],
                   ckpt   |-> next - 1]
        /\ tail' = 0

\* A faulty variant of BeginAppend: one frame too many counts as fitting.
BeginAppendOver(t) ==
    /\ pc = "idle"
    /\ next <= MaxSeq
    /\ IF t.count <= Frames - tail + 1 THEN UNCHANGED <<header, man, tail>> ELSE Rotated
    /\ txn' = t
    /\ written' = 0
    /\ pc' = "write"
    /\ UNCHANGED <<region, next, hist>>

\* append_transaction_unsafe() up to its first frame.
BeginAppend(t) ==
    /\ pc = "idle"
    /\ next <= MaxSeq
    /\ IF t.count <= Frames - tail THEN UNCHANGED <<header, man, tail>> ELSE Rotated
    /\ txn' = t
    /\ written' = 0
    /\ pc' = "write"
    /\ UNCHANGED <<region, next, hist>>

Position == tail + written + 1

WriteFrame ==
    /\ pc = "write"
    /\ written < txn.count
    /\ region' = [region EXCEPT ![man.active][Position] = Frame(txn, written)]
    /\ written' = written + 1
    /\ UNCHANGED <<header, man, pc, tail, next, txn, hist>>

\* append_transaction_unsafe() returns.
AppendEnds ==
    /\ pc' = "idle"
    /\ txn' = NoTransaction
    /\ written' = 0

\* sync() succeeds: commit() applies the mutations and reports success.
SyncFrames ==
    /\ pc = "write"
    /\ written = txn.count
    /\ tail' = tail + txn.count
    /\ next' = next + 1
    /\ hist' = Append(hist, Parts(txn))
    /\ AppendEnds
    /\ UNCHANGED <<region, header, man>>

\* The frame being written when the write stops: untouched, or torn.
FrameInFlight ==
    \/ UNCHANGED region
    \/ /\ written < txn.count
       /\ region' = [region EXCEPT ![man.active][Position] = Junk]

\* A write or the sync reports an error; commit() returns it, and neither the
\* tail nor a fault latch remembers the frames that did reach the medium.
AppendFails ==
    /\ AppendsFail
    /\ pc = "write"
    /\ FrameInFlight
    /\ AppendEnds
    /\ UNCHANGED <<header, man, tail, next, hist>>

PowerCut ==
    /\ pc \in {"idle", "write"}
    /\ IF pc = "write" THEN FrameInFlight ELSE UNCHANGED region
    /\ pc' = "down"
    /\ tail' = 0
    /\ next' = 1
    /\ txn' = NoTransaction
    /\ written' = 0
    /\ UNCHANGED <<header, man, hist>>

Next ==
    \/ Recover
    \/ \E t \in Transaction : BeginAppend(t)
    \/ WriteFrame
    \/ SyncFrames
    \/ AppendFails
    \/ PowerCut

Spec == Init /\ [][Next]_vars

-----------------------------------------------------------------------------
(* Properties                                                              *)

\* The log has its type, the sequences in use are within their bound, and an
\* append never leaves the record region of its slot.
TypeOK ==
    /\ DOMAIN region = Two /\ DOMAIN header = Two
    /\ \A w \in Two : DOMAIN region[w] = 1 .. Frames
    /\ man.active \in Two /\ man.ckpt \in 0 .. MaxSeq
    /\ pc \in {"down", "idle", "write"}
    /\ next \in 1 .. MaxSeq + 1
    /\ written \in 0 .. txn.count
    /\ tail + txn.count <= Frames

\* A scan that accepts the log yields every transaction that was reported
\* durable, unchanged, and at most one more: the append that was interrupted,
\* whole.  Frames of an abandoned attempt are never mixed into a transaction,
\* and frames of an older generation are never taken for new ones.
AcceptedScanExact ==
    LET r == Recovery
    IN  r.ok =>
          /\ r.next - 1 \in {Len(hist), Len(hist) + 1}
          /\ \A s \in r.first .. r.next - 1 :
                LET parts == r.got[s - r.first + 1]
                IN  /\ s <= Len(hist) => parts = hist[s]
                    /\ \E t \in Transaction : parts = Parts(t)

\* What an append that did not succeed can leave behind to mislead a scan: a
\* frame that no first frame leads to, because a shorter transaction took the
\* place of the first ones; or a whole transaction at the end of the older slot
\* that was repeated in the newer one.
Leftover(w, p) ==
    LET f == region[w][p]
    IN  /\ f # Junk
        /\ f.gen = man.wgen[w]
        /\ \/ f.index > 0 /\ p <= f.index
           \/ f.index > 0 /\ ~Continues(region[w][p - 1], f, f.index - 1)
           \/ /\ w # man.active
              /\ f.index = f.count - 1
              /\ f.seq >= header[man.active].first

\* Leftover frames are the only reason why a restart refuses the log: from
\* rotations, reused slots, torn frames, and appends of any length cut or
\* failing at any frame, scan_wal_slot() recovers.
RefusedOnlyForLeftovers ==
    Recovery.ok \/ \E w \in Two, p \in 1 .. Frames : Leftover(w, p)

\* A restart at any moment finds a log it accepts: "replays complete CRC-valid
\* WAL commits after the checkpoint".
RestartRecovers == Recovery.ok

=============================================================================
