----------------------------- MODULE WalInvariant -----------------------------
(***************************************************************************)
(* The inductive invariant behind the theorems about Wal.tla.  It says how *)
(* the frames of a WAL slot are laid out: the committed transactions end   *)
(* to end from the beginning, and behind them only what attempts at the    *)
(* next transaction, and at earlier ones that turned out longer than the   *)
(* transaction that was committed, have left.                              *)
(***************************************************************************)
EXTENDS Wal

FrameRecord ==
    [gen : Nat \ {0}, seq : 1 .. MaxSeq, index : Nat, count : 1 .. MaxFrames,
     sum : Payloads, part : Payloads]

\* Frame i of transaction t with sequence s in a slot of generation g.
FrameOf(g, s, t, i) ==
    [gen |-> g, seq |-> s, index |-> i, count |-> t.count, sum |-> t.payload,
     part |-> t.payload]

ShapeInv ==
    /\ region \in [Two -> [1 .. Frames -> FrameRecord \cup {Junk}]]
    /\ header \in [Two -> [gen : Nat, first : 0 .. (MaxSeq + 1)]]
    /\ man \in [active : Two, wgen : [Two -> Nat], ckpt : 0 .. MaxSeq]
    /\ tail \in 0 .. Frames
    /\ next \in 1 .. (MaxSeq + 1)
    /\ written \in Nat
    /\ hist \in Seq({Parts(t) : t \in Transaction}) /\ Len(hist) <= MaxSeq

\* The headers are those the manifest expects, the active slot is the younger
\* one, and it goes on where the checkpoint and the other slot end.
HeaderInv ==
    /\ \A w \in Two : header[w].gen = man.wgen[w]
    /\ man.wgen[OlderWal] < man.wgen[man.active]
    /\ header[man.active].first = man.ckpt + 1
    /\ man.ckpt <= Len(hist)
    /\ man.wgen[OlderWal] # 0 => header[OlderWal].first \in 1 .. header[man.active].first
    /\ man.wgen[OlderWal] = 0 => man.ckpt = 0

\* No frame is younger than its slot, and a frame belongs to its transaction.
FrameInv ==
    \A w \in Two : \A p \in 1 .. Frames :
        /\ region[w][p].gen <= man.wgen[w]
        /\ region[w][p] # Junk =>
              /\ region[w][p].index < region[w][p].count
              /\ region[w][p].sum = region[w][p].part

\* The last transaction committed in slot w.
LastOf(w) == IF w = man.active THEN Len(hist) ELSE header[man.active].first - 1

\* Frames of slot w that a scan looks at.
Current(w, p) == region[w][p] # Junk /\ region[w][p].gen = man.wgen[w]

\* off is the offset of each transaction of slot w, the one after the last
\* included.  All current frames lie where their transaction does.
Layout(w, off) ==
    /\ off[header[w].first] = 0
    /\ \A s \in header[w].first .. LastOf(w) : \E t \in Transaction :
          /\ hist[s] = Parts(t)
          /\ off[s + 1] = off[s] + t.count
          /\ off[s + 1] <= off[LastOf(w) + 1]
          /\ \A i \in 1 .. t.count : region[w][off[s] + i] = FrameOf(man.wgen[w], s, t, i - 1)
    /\ \A p \in 1 .. Frames : Current(w, p) =>
          /\ region[w][p].seq \in header[w].first .. (LastOf(w) + 1)
          /\ p = off[region[w][p].seq] + region[w][p].index + 1
          /\ off[region[w][p].seq] + region[w][p].count <= Frames

Offsets(w) == [header[w].first .. (LastOf(w) + 1) -> 0 .. Frames]

SlotInv ==
    \A w \in Two : man.wgen[w] # 0 =>
        \E off \in Offsets(w) :
            /\ Layout(w, off)
            /\ w = man.active /\ pc # "down" => tail = off[LastOf(w) + 1]

\* The append in progress: the frames written so far are there.
CallInv ==
    /\ pc \in {"down", "idle", "write"}
    /\ pc = "down" => tail = 0 /\ next = 1
    /\ pc # "down" => next = Len(hist) + 1
    /\ pc # "write" => txn = NoTransaction /\ written = 0
    /\ pc = "write" =>
          /\ txn \in Transaction /\ written <= txn.count
          /\ tail + txn.count <= Frames
          /\ next <= MaxSeq
          /\ \A i \in 1 .. written :
                region[man.active][tail + i] = FrameOf(man.wgen[man.active], next, txn, i - 1)

WInv == ShapeInv /\ HeaderInv /\ FrameInv /\ SlotInv /\ CallInv
=============================================================================
