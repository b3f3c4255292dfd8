------------------------------ MODULE WalProofs ------------------------------
(***************************************************************************)
(* Proofs about the write-ahead log, for every frame count, transaction    *)
(* size and number of commits: the layout of WalInvariant.tla is           *)
(* inductive, a scan that accepts the log yields exactly the committed     *)
(* transactions, and only leftover frames make it refuse the log.          *)
(***************************************************************************)
EXTENDS WalInvariant, SequenceTheorems, WellFoundedInduction, TLAPS

USE FramesAssumption, MaxSeqAssumption

\* A non-empty set of naturals has a least element.
LEMMA LeastNatural ==
    ASSUME NEW T \in SUBSET Nat, T # {}
    PROVE  \E x \in T : \A y \in T : x <= y
<1>1. IsWellFoundedOn(OpToRel(<, Nat), Nat)
  BY NatLessThanWellFounded
<1>2. PICK x \in T : \A y \in T : ~ (<<y, x>> \in OpToRel(<, Nat))
  BY <1>1, WFMin
<1>3. \A y \in T : ~ (y < x)
  BY <1>2 DEF OpToRel
<1> QED
  BY <1>3

\* Min of a non-empty set of naturals is its least element.
LEMMA MinOfNaturals ==
    ASSUME NEW T \in SUBSET Nat, T # {}
    PROVE  Min(T) \in T /\ \A y \in T : Min(T) <= y
<1>1. \E x \in T : \A y \in T : x <= y
  BY LeastNatural
<1> QED
  BY <1>1 DEF Min

-----------------------------------------------------------------------------
(* The scan is a function that satisfies its recursive definition.         *)

Sequences1 == 1 .. MaxSeq + 2

\* A frame of a slot: its fields have their types, or it is junk.
LEMMA FrameTypes ==
    ASSUME ShapeInv, NEW w \in Two, NEW p \in 1 .. Frames
    PROVE  /\ region[w][p] = Junk \/ region[w][p] \in FrameRecord
           /\ region[w][p] # Junk =>
                 /\ region[w][p].gen \in Nat /\ region[w][p].gen # 0
                 /\ region[w][p].seq \in 1 .. MaxSeq /\ region[w][p].index \in Nat
                 /\ region[w][p].count \in 1 .. MaxFrames
                 /\ region[w][p].sum \in Payloads /\ region[w][p].part \in Payloads
           /\ Junk \notin FrameRecord
<1>1. region[w][p] \in FrameRecord \cup {Junk}
  BY DEF ShapeInv
<1>2. Junk \notin FrameRecord
  <2>1. Junk.gen = 0
    BY DEF Junk
  <2> QED
    BY <2>1 DEF FrameRecord
<1> QED
  BY <1>1, <1>2 DEF FrameRecord

\* A turn only looks at the turns from later offsets.
LEMMA TurnLater ==
    ASSUME ShapeInv, NEW w \in Two, NEW o \in 0 .. Frames, NEW seq,
           NEW f, NEW g, \A q \in 0 .. Frames : o < q => f[q] = g[q]
    PROVE  Turn(f, w, o, seq) = Turn(g, w, o, seq)
<1>1. CASE o = Frames
  BY <1>1 DEF Turn
<1>2. CASE o # Frames
  <2>1. o + 1 \in 1 .. Frames
    BY <1>2
  <2> DEFINE first == region[w][o + 1]
  <2>2. CASE first = Junk \/ first.gen # man.wgen[w]
    BY <2>2, <1>2 DEF Turn
  <2>3. CASE first # Junk /\ first.count > Frames - o
    BY <2>3, <1>2 DEF Turn
  <2>4. CASE first # Junk /\ ~(first.count > Frames - o)
    <3>1. first.count \in 1 .. MaxFrames
      BY <2>1, <2>4, FrameTypes
    <3>2. o + first.count \in 0 .. Frames /\ o < o + first.count
      BY <2>4, <3>1
    <3>3. f[o + first.count] = g[o + first.count]
      BY <3>2
    <3> QED
      BY <3>3 DEF Turn
  <2> QED
    BY <2>2, <2>3, <2>4
<1> QED
  BY <1>1, <1>2

\* A function that satisfies the equation of Scan from some offset on.
LEMMA ScanExists ==
    ASSUME ShapeInv, NEW w \in Two, NEW k \in 0 .. Frames
    PROVE  \E g : g = [o \in (Frames - k) .. Frames |->
                         [seq \in Sequences1 |-> Turn(g, w, o, seq)]]
<1> DEFINE P(j) == \E g : g = [o \in (Frames - j) .. Frames |->
                                 [seq \in Sequences1 |-> Turn(g, w, o, seq)]]
           T == {j \in 0 .. Frames : ~P(j)}
<1>1. P(0)
  <2> DEFINE g == [o \in (Frames - 0) .. Frames |->
                     [seq \in Sequences1 |-> Turn(<<>>, w, o, seq)]]
  <2>1. ASSUME NEW o \in (Frames - 0) .. Frames, NEW seq \in Sequences1
        PROVE  Turn(<<>>, w, o, seq) = Turn(g, w, o, seq)
    <3>1. o \in 0 .. Frames /\ \A q \in 0 .. Frames : ~(o < q)
      OBVIOUS
    <3> HIDE DEF g
    <3> QED
      BY <3>1, TurnLater
  <2>2. g = [o \in (Frames - 0) .. Frames |-> [seq \in Sequences1 |-> Turn(g, w, o, seq)]]
    BY <2>1
  <2> QED
    BY <2>2
<1>2. ASSUME NEW j \in 0 .. Frames, j # 0, P(j - 1) PROVE P(j)
  <2>1. PICK g : g = [o \in (Frames - (j - 1)) .. Frames |->
                        [seq \in Sequences1 |-> Turn(g, w, o, seq)]]
    BY <1>2
  <2> DEFINE h == [o \in (Frames - j) .. Frames |->
                     [seq \in Sequences1 |-> Turn(g, w, o, seq)]]
  <2>2. ASSUME NEW q \in 0 .. Frames, Frames - j < q PROVE h[q] = g[q]
    <3>1. q \in (Frames - (j - 1)) .. Frames /\ q \in (Frames - j) .. Frames
      BY <2>2
    <3>2. g[q] = [seq \in Sequences1 |-> Turn(g, w, q, seq)]
      BY <2>1, <3>1
    <3> QED
      BY <3>1, <3>2
  <2>3. ASSUME NEW o \in (Frames - j) .. Frames, NEW seq \in Sequences1
        PROVE  Turn(g, w, o, seq) = Turn(h, w, o, seq)
    <3>1. o \in 0 .. Frames /\ \A q \in 0 .. Frames : o < q => Frames - j < q
      OBVIOUS
    <3>2. \A q \in 0 .. Frames : o < q => g[q] = h[q]
      BY <2>2, <3>1
    <3> HIDE DEF h
    <3> QED
      BY <3>1, <3>2, TurnLater
  <2>4. h = [o \in (Frames - j) .. Frames |-> [seq \in Sequences1 |-> Turn(h, w, o, seq)]]
    BY <2>3
  <2> QED
    BY <2>4
<1>3. T = {}
  <2> HIDE DEF P
  <2>1. SUFFICES ASSUME T # {} PROVE FALSE
    OBVIOUS
  <2>2. T \in SUBSET Nat
    OBVIOUS
  <2>3. PICK j \in T : \A y \in T : j <= y
    BY <2>1, <2>2, LeastNatural
  <2>4. j # 0
    BY <1>1, <2>3
  <2>5. j - 1 \notin T /\ j - 1 \in 0 .. Frames
    BY <2>3, <2>4
  <2>6. P(j)
    BY <1>2, <2>3, <2>4, <2>5
  <2> QED
    BY <2>3, <2>6
<1>4. P(k)
  <2> HIDE DEF P
  <2> QED
    BY <1>3
<1> QED
  BY <1>4

\* The loop of scan_wal_slot(), turn by turn.
LEMMA ScanTurn ==
    ASSUME ShapeInv, NEW w \in Two, NEW o \in 0 .. Frames, NEW seq \in 1 .. MaxSeq + 2
    PROVE  Scan(w)[o][seq] = Turn(Scan(w), w, o, seq)
<1> DEFINE E(g) == g = [q \in 0 .. Frames |-> [s \in 1 .. MaxSeq + 2 |-> Turn(g, w, q, s)]]
<1>1. \E g : E(g)
  <2>1. PICK k : k = Frames
    OBVIOUS
  <2>2. k \in 0 .. Frames
    BY <2>1
  <2>3. PICK g : g = [q \in (Frames - k) .. Frames |->
                        [s \in Sequences1 |-> Turn(g, w, q, s)]]
    BY <2>2, ScanExists
  <2>4. (Frames - k) .. Frames = 0 .. Frames
    BY <2>1
  <2>5. E(g)
    BY <2>3, <2>4 DEF Sequences1
  <2> QED
    BY <2>5
<1>2. Scan(w) = CHOOSE g : E(g)
  BY DEF Scan
<1>3. E(Scan(w))
  <2> HIDE DEF E
  <2> QED
    BY <1>1, <1>2
<1>4. PICK g : g = Scan(w)
  OBVIOUS
<1>5. g = [q \in 0 .. Frames |-> [s \in 1 .. MaxSeq + 2 |-> Turn(g, w, q, s)]]
  BY <1>3, <1>4
<1>6. g[o] = [s \in 1 .. MaxSeq + 2 |-> Turn(g, w, o, s)]
  BY <1>5
<1>7. g[o][seq] = Turn(g, w, o, seq)
  BY <1>6
<1> QED
  BY <1>4, <1>7

-----------------------------------------------------------------------------
(* What one turn yields.                                                   *)

\* The end of the log at offset o, with seq as the next sequence.
Ended(o, seq) == [ok |-> TRUE, next |-> seq, tail |-> o, got |-> <<>>]

\* The result n of the turns behind a transaction, with that transaction.
Preceded(n, parts) == [n EXCEPT !.got = <<parts>> \o @]

PartLists == {Parts(t) : t \in Transaction}

ScanResult == [ok : BOOLEAN, next : Nat, tail : Nat, got : Seq(PartLists)]

\* The frames of a transaction that begins at offset o all continue it.
Complete(w, o) ==
    \A i \in 1 .. region[w][o + 1].count : Continues(region[w][o + i], region[w][o + 1], i - 1)

\* The turn meets the beginning of transaction seq.
Begins(w, o, seq) ==
    /\ o < Frames
    /\ Current(w, o + 1)
    /\ region[w][o + 1].seq = seq
    /\ region[w][o + 1].index = 0
    /\ region[w][o + 1].count <= Frames - o

\* What the fields of a scan are with a transaction in front.
LEMMA PrecededFields ==
    ASSUME NEW n \in ScanResult, NEW p \in PartLists, NEW m, m = Preceded(n, p)
    PROVE  /\ m \in ScanResult
           /\ m.ok = n.ok /\ m.next = n.next /\ m.tail = n.tail
           /\ Len(m.got) = Len(n.got) + 1
           /\ m.got[1] = p
           /\ \A k \in 1 .. Len(n.got) : m.got[k + 1] = n.got[k]
<1>1. n.got \in Seq(PartLists)
  BY DEF ScanResult
<1>2. PICK g : g = <<p>> \o n.got
  OBVIOUS
<1>3. /\ g \in Seq(PartLists) /\ Len(g) = Len(n.got) + 1 /\ g[1] = p
      /\ \A k \in 1 .. Len(n.got) : g[k + 1] = n.got[k]
  BY <1>1, <1>2
<1>4. m \in ScanResult /\ m.ok = n.ok /\ m.next = n.next /\ m.tail = n.tail /\ m.got = g
  BY <1>2, <1>3 DEF Preceded, ScanResult
<1> QED
  BY <1>3, <1>4

\* A slot without a frame at the offset, or with one of an older generation.
LEMMA TurnAtEnd ==
    ASSUME ShapeInv, NEW w \in Two, NEW o \in 0 .. Frames, NEW seq \in 1 .. MaxSeq + 2,
           o = Frames \/ ~Current(w, o + 1)
    PROVE  Scan(w)[o][seq] =
              IF o # Frames /\ LaterFrame(w, o + 2, seq) THEN Refused ELSE Ended(o, seq)
<1>1. Scan(w)[o][seq] = Turn(Scan(w), w, o, seq)
  BY ScanTurn
<1> QED
  BY <1>1 DEF Turn, Ended, Current

\* A current frame that does not begin the expected transaction.
LEMMA TurnRefused ==
    ASSUME ShapeInv, NEW w \in Two, NEW o \in 0 .. Frames, NEW seq \in 1 .. MaxSeq + 2,
           o # Frames, Current(w, o + 1), ~Begins(w, o, seq)
    PROVE  Scan(w)[o][seq] = Refused
<1>1. Scan(w)[o][seq] = Turn(Scan(w), w, o, seq)
  BY ScanTurn
<1>2. o < Frames /\ o + 1 \in 1 .. Frames
  OBVIOUS
<1>3. region[w][o + 1].count \in Nat
  BY <1>2, FrameTypes DEF Current
<1>4. \/ region[w][o + 1].seq # seq \/ region[w][o + 1].index # 0
      \/ region[w][o + 1].count > Frames - o
  BY <1>2, <1>3 DEF Begins
<1>5. region[w][o + 1] # Junk /\ region[w][o + 1].gen = man.wgen[w]
  BY DEF Current
<1> QED
  BY <1>1, <1>4, <1>5 DEF Turn

\* A transaction that breaks off.
LEMMA TurnBroken ==
    ASSUME ShapeInv, NEW w \in Two, NEW o \in 0 .. Frames, NEW seq \in 1 .. MaxSeq + 2,
           Begins(w, o, seq), ~Complete(w, o)
    PROVE  \E b \in 1 .. region[w][o + 1].count :
              /\ ~Continues(region[w][o + b], region[w][o + 1], b - 1)
              /\ Scan(w)[o][seq] =
                    IF LaterFrame(w, o + b + 1, seq) THEN Refused ELSE Ended(o, seq)
<1>1. Scan(w)[o][seq] = Turn(Scan(w), w, o, seq)
  BY ScanTurn
<1> DEFINE first == region[w][o + 1]
           bad == {i \in 1 .. first.count : ~Continues(region[w][o + i], first, i - 1)}
<1>2. bad # {} /\ bad \in SUBSET Nat
  BY DEF Complete
<1>3. Min(bad) \in bad
  BY <1>2, MinOfNaturals
<1>4. o # Frames /\ first # Junk /\ first.gen = man.wgen[w] /\ first.seq = seq
      /\ first.index = 0
  BY DEF Begins, Current
<1>5. ~(first.count > Frames - o)
  <2>1. o + 1 \in 1 .. Frames
    BY DEF Begins
  <2>2. first.count \in Nat
    BY <2>1, <1>4, FrameTypes
  <2> QED
    BY <2>2 DEF Begins
<1>6. Scan(w)[o][seq] = IF LaterFrame(w, o + Min(bad) + 1, seq) THEN Refused ELSE Ended(o, seq)
  BY <1>1, <1>2, <1>4, <1>5 DEF Turn, Ended
<1> QED
  BY <1>3, <1>6

\* The frames of a complete transaction are those of one transaction.
LEMMA CompleteFrames ==
    ASSUME ShapeInv, FrameInv, NEW w \in Two, NEW o \in 0 .. Frames, NEW seq,
           Begins(w, o, seq), Complete(w, o)
    PROVE  \E t \in Transaction :
              /\ t.count = region[w][o + 1].count
              /\ \A i \in 1 .. t.count : region[w][o + i] = FrameOf(man.wgen[w], seq, t, i - 1)
<1> DEFINE first == region[w][o + 1]
<1>1. o + 1 \in 1 .. Frames /\ first # Junk /\ first.gen = man.wgen[w] /\ first.seq = seq
  BY DEF Begins, Current
<1>2. first.count \in 1 .. MaxFrames /\ first.sum \in Payloads /\ first.count <= Frames - o
  BY <1>1, FrameTypes DEF Begins
<1>3. PICK t : t = [payload |-> first.sum, count |-> first.count]
  OBVIOUS
<1>4. t \in Transaction /\ t.count = first.count /\ t.payload = first.sum
  BY <1>2, <1>3 DEF Transaction
<1>5. ASSUME NEW i \in 1 .. t.count
      PROVE  region[w][o + i] = FrameOf(man.wgen[w], seq, t, i - 1)
  <2>1. PICK f : f = region[w][o + i]
    OBVIOUS
  <2>2. o + i \in 1 .. Frames /\ i \in 1 .. first.count
    BY <1>2, <1>4
  <2>3. f # Junk /\ f.gen = man.wgen[w] /\ f.seq = seq /\ f.index = i - 1
        /\ f.count = t.count /\ f.sum = t.payload
    BY <1>1, <1>4, <2>1, <2>2 DEF Complete, Continues
  <2>4. f \in FrameRecord /\ f.part = t.payload
    BY <2>1, <2>2, <2>3, FrameTypes DEF FrameInv
  <2>5. f = FrameOf(man.wgen[w], seq, t, i - 1)
    BY <2>3, <2>4 DEF FrameRecord, FrameOf
  <2> QED
    BY <2>1, <2>5
<1> QED
  BY <1>4, <1>5

\* A whole transaction is taken, and the scan goes on behind it.
LEMMA TurnTaken ==
    ASSUME ShapeInv, NEW w \in Two, man.wgen[w] # 0,
           NEW o \in 0 .. Frames, NEW seq \in 1 .. MaxSeq + 2,
           NEW t \in Transaction, o + t.count <= Frames,
           \A i \in 1 .. t.count : region[w][o + i] = FrameOf(man.wgen[w], seq, t, i - 1)
    PROVE  Scan(w)[o][seq] = Preceded(Scan(w)[o + t.count][seq + 1], Parts(t))
<1>1. Scan(w)[o][seq] = Turn(Scan(w), w, o, seq)
  BY ScanTurn
<1> DEFINE first == region[w][o + 1]
           bad == {i \in 1 .. first.count : ~Continues(region[w][o + i], first, i - 1)}
           parts == [i \in 1 .. first.count |-> region[w][o + i].part]
<1>2. t.count \in 1 .. MaxFrames
  BY DEF Transaction
<1>3. first = FrameOf(man.wgen[w], seq, t, 0)
  <2>1. 1 \in 1 .. t.count
    BY <1>2
  <2>2. region[w][o + 1] = FrameOf(man.wgen[w], seq, t, 1 - 1)
    BY <2>1
  <2> QED
    BY <2>2
<1>4. ASSUME NEW g, NEW s, NEW i, g # 0 PROVE FrameOf(g, s, t, i) # Junk
  <2>1. FrameOf(g, s, t, i).gen = g /\ Junk.gen = 0
    BY DEF FrameOf, Junk
  <2> QED
    BY <1>4, <2>1
<1>5. first # Junk /\ first.gen = man.wgen[w] /\ first.seq = seq /\ first.index = 0
      /\ first.count = t.count /\ first.sum = t.payload
  BY <1>3, <1>4 DEF FrameOf
<1>6. ASSUME NEW i \in 1 .. t.count
      PROVE  Continues(region[w][o + i], first, i - 1) /\ region[w][o + i].part = t.payload
  <2>1. PICK f : f = region[w][o + i]
    OBVIOUS
  <2>2. f = FrameOf(man.wgen[w], seq, t, i - 1)
    BY <2>1
  <2>3. f # Junk
    BY <1>4, <2>2
  <2>4. f.gen = man.wgen[w] /\ f.seq = seq /\ f.index = i - 1
        /\ f.count = t.count /\ f.sum = t.payload /\ f.part = t.payload
    BY <2>2 DEF FrameOf
  <2> QED
    BY <1>5, <2>1, <2>3, <2>4 DEF Continues
<1>7. bad = {}
  BY <1>5, <1>6
<1>8. parts = Parts(t)
  BY <1>5, <1>6 DEF Parts
<1>9. o # Frames /\ ~(first.count > Frames - o)
  BY <1>2, <1>5
<1>10. Turn(Scan(w), w, o, seq) = Preceded(Scan(w)[o + first.count][seq + 1], parts)
  BY <1>5, <1>7, <1>9 DEF Turn, Preceded
<1> QED
  BY <1>1, <1>5, <1>8, <1>10

-----------------------------------------------------------------------------
(* What the scan of a slot yields.                                         *)

\* A slot in use: its sequences, and the offsets of its transactions.
LEMMA SlotBounds ==
    ASSUME ShapeInv, HeaderInv, NEW w \in Two, man.wgen[w] # 0
    PROVE  /\ header[w].first \in 1 .. (LastOf(w) + 1)
           /\ LastOf(w) \in 0 .. MaxSeq /\ LastOf(w) <= Len(hist)
           /\ man.wgen[w] \in Nat
<1>1. /\ man.active \in Two /\ man.wgen \in [Two -> Nat] /\ man.ckpt \in 0 .. MaxSeq
      /\ Len(hist) \in Nat /\ Len(hist) <= MaxSeq
      /\ header[man.active].first \in Nat
  BY DEF ShapeInv
<1>2. w = man.active \/ w = OlderWal
  BY <1>1 DEF OlderWal, Two
<1>3. OlderWal # man.active
  BY <1>1 DEF OlderWal, Two
<1>4. CASE w = man.active
  BY <1>1, <1>4 DEF HeaderInv, LastOf
<1>5. CASE w = OlderWal
  BY <1>1, <1>3, <1>5 DEF HeaderInv, LastOf
<1> QED
  BY <1>2, <1>4, <1>5

\* What makes a scan refuse slot w at offset o behind the committed transactions:
\* a later frame where the log should end, a frame that does not begin the next
\* transaction, a broken transaction with a later frame, or a current frame behind
\* the next transaction.
Obstacle(w, o) ==
    LET s     == LastOf(w) + 1
        first == region[w][o + 1]
    IN  /\ o # Frames
        /\ \/ ~Current(w, o + 1) /\ LaterFrame(w, o + 2, s)
           \/ Current(w, o + 1) /\ ~Begins(w, o, s)
           \/ /\ Begins(w, o, s)
              /\ \E b \in 1 .. first.count :
                    ~Continues(region[w][o + b], first, b - 1) /\ LaterFrame(w, o + b + 1, s)
           \/ /\ Begins(w, o, s) /\ Complete(w, o)
              /\ o + first.count < Frames /\ Current(w, o + first.count + 1)

\* Behind the last committed transaction the scan ends, refuses the slot, or
\* takes one more transaction that is there as a whole.
LEMMA ScanBehind ==
    ASSUME ShapeInv, HeaderInv, FrameInv, NEW w \in Two, man.wgen[w] # 0,
           NEW off \in Offsets(w), Layout(w, off),
           NEW e, e = off[LastOf(w) + 1], NEW r, r = Scan(w)[e][LastOf(w) + 1]
    PROVE  \/ r \in ScanResult /\ ~r.ok /\ Obstacle(w, e)
           \/ r = Ended(e, LastOf(w) + 1)
           \/ \E t \in Transaction :
                 /\ e + t.count <= Frames
                 /\ r \in ScanResult /\ r.ok
                 /\ r.next = LastOf(w) + 2 /\ r.tail = e + t.count
                 /\ Len(r.got) = 1 /\ r.got[1] = Parts(t)
                 /\ \A i \in 1 .. t.count :
                       region[w][e + i] = FrameOf(man.wgen[w], LastOf(w) + 1, t, i - 1)
<1> DEFINE L == LastOf(w)
<1>1. L \in 0 .. MaxSeq /\ header[w].first \in 1 .. (L + 1)
  BY SlotBounds
<1>2. e \in 0 .. Frames
  BY <1>1 DEF Offsets
<1>3. L + 1 \in 1 .. MaxSeq + 2 /\ L + 2 \in 1 .. MaxSeq + 2
  BY <1>1
<1>9. Refused \in ScanResult /\ ~Refused.ok
  BY DEF Refused, ScanResult
<1>4. CASE e = Frames \/ ~Current(w, e + 1)
  <2>1. r = IF e # Frames /\ LaterFrame(w, e + 2, L + 1) THEN Refused ELSE Ended(e, L + 1)
    <3> HIDE DEF L
    <3> QED
      BY <1>2, <1>3, <1>4, TurnAtEnd DEF L
  <2> QED
    BY <1>4, <1>9, <2>1 DEF Obstacle
<1>5. CASE e # Frames /\ Current(w, e + 1) /\ ~Begins(w, e, L + 1)
  <2>1. r = Refused
    BY <1>2, <1>3, <1>5, TurnRefused
  <2> QED
    BY <1>5, <1>9, <2>1 DEF Obstacle
<1>6. CASE Begins(w, e, L + 1) /\ ~Complete(w, e)
  <2>1. PICK b \in 1 .. region[w][e + 1].count :
           /\ ~Continues(region[w][e + b], region[w][e + 1], b - 1)
           /\ r = IF LaterFrame(w, e + b + 1, L + 1) THEN Refused ELSE Ended(e, L + 1)
    BY <1>2, <1>3, <1>6, TurnBroken
  <2>2. e # Frames
    BY <1>2, <1>6 DEF Begins
  <2> QED
    BY <1>6, <1>9, <2>1, <2>2 DEF Obstacle
<1>7. CASE Begins(w, e, L + 1) /\ Complete(w, e)
  <2>1. PICK t \in Transaction :
           /\ t.count = region[w][e + 1].count
           /\ \A i \in 1 .. t.count : region[w][e + i] = FrameOf(man.wgen[w], L + 1, t, i - 1)
    BY <1>2, <1>7, CompleteFrames
  <2>2. t.count \in Nat /\ t.count > 0 /\ e + t.count <= Frames
    BY <1>2, <1>7, <2>1 DEF Transaction, Begins
  <2>3. PICK o : o = e + t.count
    OBVIOUS
  <2>4. PICK n : n = Scan(w)[o][L + 2]
    OBVIOUS
  <2>5. o \in 0 .. Frames
    BY <1>2, <2>2, <2>3
  <2>6. r = Preceded(n, Parts(t))
    <3>1. PICK s : s = L + 1
      OBVIOUS
    <3>2. s \in 1 .. MaxSeq + 2 /\ s + 1 = L + 2
      BY <1>1, <3>1
    <3>3. \A i \in 1 .. t.count : region[w][e + i] = FrameOf(man.wgen[w], s, t, i - 1)
      BY <2>1, <3>1
    <3>4. Scan(w)[e][s] = Preceded(Scan(w)[e + t.count][s + 1], Parts(t))
      <4> HIDE DEF L
      <4> QED
        BY <1>2, <2>2, <3>2, <3>3, TurnTaken
    <3> QED
      BY <2>3, <2>4, <3>1, <3>2, <3>4
  <2>7. \A p \in 1 .. Frames : Current(w, p) => region[w][p].seq <= L + 1
    BY <1>1 DEF Layout
  <2>8. CASE o = Frames \/ ~Current(w, o + 1)
    <3>1. ~(o # Frames /\ LaterFrame(w, o + 2, L + 2))
      <4>1. SUFFICES ASSUME o # Frames, LaterFrame(w, o + 2, L + 2) PROVE FALSE
        OBVIOUS
      <4>2. PICK p \in (o + 2) .. Frames : /\ region[w][p] # Junk
                                           /\ region[w][p].gen = man.wgen[w]
                                           /\ region[w][p].seq >= L + 2
        BY <4>1 DEF LaterFrame
      <4>3. p \in 1 .. Frames
        BY <2>5
      <4>4. region[w][p].seq \in Nat
        BY <4>2, <4>3, FrameTypes
      <4> QED
        BY <1>1, <2>7, <4>2, <4>3, <4>4 DEF Current
    <3>2. n = Ended(o, L + 2)
      BY <1>3, <2>4, <2>5, <2>8, <3>1, TurnAtEnd
    <3>3. n.got = <<>> /\ n.ok = TRUE /\ n.next = L + 2 /\ n.tail = o
      BY <3>2 DEF Ended
    <3>4. n \in ScanResult
      BY <1>1, <2>5, <3>2 DEF Ended, ScanResult
    <3>5. PICK p \in PartLists : p = Parts(t)
      BY DEF PartLists
    <3>6. r = Preceded(n, p)
      BY <2>6, <3>5
    <3>7. /\ r \in ScanResult /\ r.ok = n.ok /\ r.next = n.next /\ r.tail = n.tail
          /\ Len(r.got) = Len(n.got) + 1 /\ r.got[1] = p
      BY <3>4, <3>6, PrecededFields
    <3>8. Len(n.got) + 1 = 1
      BY <3>3
    <3> QED
      BY <2>1, <2>2, <2>3, <3>3, <3>5, <3>7, <3>8
  <2>9. CASE o # Frames /\ Current(w, o + 1)
    <3>1. ~Begins(w, o, L + 2)
      <4>1. o + 1 \in 1 .. Frames
        BY <2>5, <2>9
      <4>2. region[w][o + 1].seq \in Nat
        BY <2>9, <4>1, FrameTypes DEF Current
      <4> QED
        BY <1>1, <2>7, <2>9, <4>1, <4>2 DEF Begins
    <3>2. n = Refused
      BY <1>3, <2>4, <2>5, <2>9, <3>1, TurnRefused
    <3>3. r = [ok |-> FALSE, next |-> 0, tail |-> 0, got |-> <<Parts(t)>> \o <<>>]
      BY <2>6, <3>2 DEF Refused, Preceded
    <3>4. <<Parts(t)>> \o <<>> \in Seq(PartLists)
      <4>1. Parts(t) \in PartLists
        BY DEF PartLists
      <4> QED
        BY <4>1
    <3>5. Obstacle(w, e)
      BY <1>2, <1>7, <2>1, <2>2, <2>3, <2>5, <2>9 DEF Obstacle
    <3> QED
      BY <3>3, <3>4, <3>5 DEF ScanResult
  <2> QED
    BY <2>8, <2>9
<1>8. Begins(w, e, L + 1) => e # Frames
  BY <1>2 DEF Begins
<1> QED
  BY <1>4, <1>5, <1>6, <1>7, <1>8

\* From the beginning of a committed transaction the scan goes on to the next.
LEMMA ScanStep ==
    ASSUME ShapeInv, HeaderInv, NEW w \in Two, man.wgen[w] # 0,
           NEW off \in Offsets(w), Layout(w, off),
           NEW s \in header[w].first .. LastOf(w)
    PROVE  /\ Scan(w)[off[s]][s] = Preceded(Scan(w)[off[s + 1]][s + 1], hist[s])
           /\ hist[s] \in PartLists
<1>1. LastOf(w) \in 0 .. MaxSeq /\ header[w].first \in 1 .. (LastOf(w) + 1)
  BY SlotBounds
<1>2. PICK t \in Transaction :
         /\ hist[s] = Parts(t)
         /\ off[s + 1] = off[s] + t.count
         /\ off[s + 1] <= off[LastOf(w) + 1]
         /\ \A i \in 1 .. t.count : region[w][off[s] + i] = FrameOf(man.wgen[w], s, t, i - 1)
  BY DEF Layout
<1>3. off[s] \in 0 .. Frames /\ off[LastOf(w) + 1] \in 0 .. Frames /\ off[s + 1] \in 0 .. Frames
  BY <1>1 DEF Offsets
<1>4. s \in 1 .. MaxSeq + 2 /\ off[s] + t.count <= Frames
  BY <1>1, <1>2, <1>3
<1>5. PICK o : o = off[s]
  OBVIOUS
<1>6. /\ o \in 0 .. Frames /\ o + t.count <= Frames
      /\ \A i \in 1 .. t.count : region[w][o + i] = FrameOf(man.wgen[w], s, t, i - 1)
  BY <1>2, <1>3, <1>4, <1>5
<1>7. Scan(w)[o][s] = Preceded(Scan(w)[o + t.count][s + 1], Parts(t))
  BY <1>4, <1>6, TurnTaken
<1> QED
  BY <1>2, <1>5, <1>7 DEF PartLists

\* What r, a scan from transaction s on, has to do with e, the scan behind the
\* last committed transaction.
ScansAlike(w, s, r, e) ==
    /\ r \in ScanResult
    /\ r.ok = e.ok /\ r.next = e.next /\ r.tail = e.tail
    /\ Len(r.got) = Len(e.got) + (LastOf(w) + 1 - s)
    /\ \A j \in s .. LastOf(w) : r.got[j - s + 1] = hist[j]
    /\ \A k \in 1 .. Len(e.got) : r.got[LastOf(w) + 1 - s + k] = e.got[k]

LEMMA ScansAlikeStep ==
    ASSUME NEW w, NEW s \in Nat, LastOf(w) \in Nat, s <= LastOf(w), NEW n, NEW e \in ScanResult,
           ScansAlike(w, s + 1, n, e), hist[s] \in PartLists,
           NEW r, r = Preceded(n, hist[s])
    PROVE  ScansAlike(w, s, r, e)
<1> DEFINE L == LastOf(w)
<1>1. /\ n \in ScanResult
      /\ n.ok = e.ok /\ n.next = e.next /\ n.tail = e.tail
      /\ Len(n.got) = Len(e.got) + (L + 1 - (s + 1))
      /\ \A j \in (s + 1) .. L : n.got[j - (s + 1) + 1] = hist[j]
      /\ \A k \in 1 .. Len(e.got) : n.got[L + 1 - (s + 1) + k] = e.got[k]
  BY DEF ScansAlike
<1>2. /\ r \in ScanResult
      /\ r.ok = n.ok /\ r.next = n.next /\ r.tail = n.tail
      /\ Len(r.got) = Len(n.got) + 1
      /\ r.got[1] = hist[s]
      /\ \A k \in 1 .. Len(n.got) : r.got[k + 1] = n.got[k]
  <2>1. PICK p \in PartLists : p = hist[s]
    OBVIOUS
  <2>2. n \in ScanResult /\ r = Preceded(n, p)
    BY <1>1, <2>1
  <2>3. r \in ScanResult /\ r.ok = n.ok /\ r.next = n.next /\ r.tail = n.tail
    BY <2>2, PrecededFields
  <2>4. Len(r.got) = Len(n.got) + 1 /\ r.got[1] = p
    BY <2>2, PrecededFields
  <2>5. \A k \in 1 .. Len(n.got) : r.got[k + 1] = n.got[k]
    BY <2>2, PrecededFields
  <2> QED
    BY <2>1, <2>3, <2>4, <2>5
<1>3. PICK a, b, c : a = Len(n.got) /\ b = Len(e.got) /\ c = Len(r.got)
  OBVIOUS
<1>4. a \in Nat /\ b \in Nat
  <2>1. n.got \in Seq(PartLists) /\ e.got \in Seq(PartLists)
    BY <1>1 DEF ScanResult
  <2> QED
    BY <1>3, <2>1
<1>5. PICK m : m = L
  OBVIOUS
<1>6. m \in Nat /\ s <= m
  BY <1>5
<1>7. a = b + (m + 1 - (s + 1)) /\ c = a + 1
  BY <1>1, <1>2, <1>3, <1>5
<1>8. c = b + (m + 1 - s)
  BY <1>4, <1>6, <1>7
<1>9. ASSUME NEW j \in s .. m PROVE r.got[j - s + 1] = hist[j]
  <2>1. CASE j = s
    <3>1. j - s + 1 = 1
      BY <2>1
    <3> QED
      BY <1>2, <2>1, <3>1
  <2>2. CASE j # s
    <3>1. j \in (s + 1) .. m /\ j - s \in 1 .. a /\ j - (s + 1) + 1 = j - s
      BY <1>4, <1>6, <1>7, <2>2
    <3>2. n.got[j - s] = hist[j]
      BY <1>1, <1>5, <3>1
    <3>3. r.got[j - s + 1] = n.got[j - s]
      BY <1>2, <1>3, <3>1
    <3> QED
      BY <3>2, <3>3
  <2> QED
    BY <2>1, <2>2
<1>10. ASSUME NEW k \in 1 .. b PROVE r.got[m + 1 - s + k] = e.got[k]
  <2>1. m - s + k \in 1 .. a /\ m + 1 - (s + 1) + k = m - s + k
        /\ (m - s + k) + 1 = m + 1 - s + k
    BY <1>4, <1>6, <1>7
  <2>2. n.got[m - s + k] = e.got[k]
    BY <1>1, <1>3, <1>5, <2>1
  <2>3. r.got[(m - s + k) + 1] = n.got[m - s + k]
    BY <1>2, <1>3, <2>1
  <2> QED
    BY <2>1, <2>2, <2>3
<1> QED
  BY <1>1, <1>2, <1>3, <1>5, <1>8, <1>9, <1>10 DEF ScansAlike

\* The scan of a slot yields the committed transactions of the slot, and then
\* what it yields behind them.
LEMMA ScanWhole ==
    ASSUME ShapeInv, HeaderInv, FrameInv, NEW w \in Two, man.wgen[w] # 0,
           NEW off \in Offsets(w), Layout(w, off),
           Scan(w)[off[LastOf(w) + 1]][LastOf(w) + 1] \in ScanResult,
           NEW s \in header[w].first .. (LastOf(w) + 1)
    PROVE  ScansAlike(w, s, Scan(w)[off[s]][s], Scan(w)[off[LastOf(w) + 1]][LastOf(w) + 1])
<1> DEFINE L == LastOf(w)
           e == Scan(w)[off[L + 1]][L + 1]
           P(i) == ScansAlike(w, i, Scan(w)[off[i]][i], e)
           T == {d \in 0 .. (L + 1 - header[w].first) : ~P(L + 1 - d)}
<1>1. L \in 0 .. MaxSeq /\ header[w].first \in 1 .. (L + 1)
  BY SlotBounds
<1>2. P(L + 1)
  <2>1. e \in ScanResult /\ Len(e.got) \in Nat
    BY DEF ScanResult
  <2>2. PICK f, m : f = e /\ m = L
    OBVIOUS
  <2>3. \A k \in 1 .. Len(f.got) : m + 1 - (m + 1) + k = k
    BY <1>1, <2>2
  <2>4. (m + 1) .. m = {} /\ Len(f.got) = Len(f.got) + (m + 1 - (m + 1))
    BY <1>1, <2>1, <2>2
  <2>5. ScansAlike(w, m + 1, f, f)
    BY <2>1, <2>2, <2>3, <2>4 DEF ScansAlike
  <2> QED
    BY <2>2, <2>5
<1>3. ASSUME NEW i \in header[w].first .. L, P(i + 1) PROVE P(i)
  <2>1. Scan(w)[off[i]][i] = Preceded(Scan(w)[off[i + 1]][i + 1], hist[i]) /\ hist[i] \in PartLists
    BY ScanStep
  <2>2. i \in Nat /\ LastOf(w) \in Nat /\ i <= LastOf(w)
    BY <1>1
  <2>3. PICK n : n = Scan(w)[off[i + 1]][i + 1]
    OBVIOUS
  <2>4. PICK f : f = e
    OBVIOUS
  <2>5. f \in ScanResult /\ ScansAlike(w, i + 1, n, f)
    BY <1>3, <2>3, <2>4
  <2>6. ScansAlike(w, i, Preceded(n, hist[i]), f)
    BY <2>1, <2>2, <2>5, ScansAlikeStep
  <2> QED
    BY <2>1, <2>3, <2>4, <2>6
<1> HIDE DEF P, L
<1>4. T = {}
  <2>1. SUFFICES ASSUME T # {} PROVE FALSE
    OBVIOUS
  <2>2. T \in SUBSET Nat
    BY <1>1
  <2>3. PICK d \in T : \A y \in T : d <= y
    BY <2>1, <2>2, LeastNatural
  <2>4. d # 0
    BY <1>1, <1>2, <2>3
  <2>5. d - 1 \notin T /\ d - 1 \in 0 .. (L + 1 - header[w].first)
    BY <1>1, <2>3, <2>4
  <2>6. P(L + 1 - (d - 1))
    BY <2>5
  <2>7. PICK i : i = L + 1 - d
    OBVIOUS
  <2>8. i \in header[w].first .. L /\ i + 1 = L + 1 - (d - 1)
    BY <1>1, <2>3, <2>4, <2>7
  <2>9. P(i)
    BY <1>3, <2>6, <2>8
  <2> QED
    BY <2>3, <2>7, <2>9
<1>5. PICK d : d = L + 1 - s
  OBVIOUS
<1>6. d \in 0 .. (L + 1 - header[w].first) /\ L + 1 - d = s
  BY <1>1, <1>5 DEF L
<1>7. P(s)
  BY <1>4, <1>6
<1> QED
  BY <1>7 DEF P, L

\* Behind the committed transactions of slot w lies transaction t as a whole.
Behind(w, off, t) ==
    /\ off[LastOf(w) + 1] + t.count <= Frames
    /\ \A i \in 1 .. t.count : region[w][off[LastOf(w) + 1] + i] =
                                  FrameOf(man.wgen[w], LastOf(w) + 1, t, i - 1)

\* An accepted scan of slot w yields its committed transactions and at most the
\* one behind them; a scan that is not accepted has met an obstacle there.
SlotYields(w, off, r) ==
    /\ r \in ScanResult
    /\ r.ok \/ Obstacle(w, off[LastOf(w) + 1])
    /\ r.ok =>
          /\ Len(r.got) = r.next - header[w].first
          /\ \A s \in header[w].first .. LastOf(w) : r.got[s - header[w].first + 1] = hist[s]
          /\ \/ r.next = LastOf(w) + 1 /\ r.tail = off[LastOf(w) + 1]
             \/ /\ r.next = LastOf(w) + 2
                /\ \E t \in Transaction :
                      /\ Behind(w, off, t)
                      /\ r.tail = off[LastOf(w) + 1] + t.count
                      /\ r.got[LastOf(w) + 2 - header[w].first] = Parts(t)

LEMMA SlotScan ==
    ASSUME ShapeInv, HeaderInv, FrameInv, NEW w \in Two, man.wgen[w] # 0,
           NEW off \in Offsets(w), Layout(w, off)
    PROVE  SlotYields(w, off, Scan(w)[0][header[w].first])
<1>1. PICK L, f, a : L = LastOf(w) /\ f = header[w].first /\ a = off[LastOf(w) + 1]
  OBVIOUS
<1>2. L \in 0 .. MaxSeq /\ f \in 1 .. (L + 1)
  BY <1>1, SlotBounds
<1>3. a \in 0 .. Frames /\ off[f] = 0
  BY <1>1, <1>2 DEF Offsets, Layout
<1>4. PICK e, r : e = Scan(w)[a][L + 1] /\ r = Scan(w)[0][f]
  OBVIOUS
<1>5. \/ e \in ScanResult /\ ~e.ok /\ Obstacle(w, a)
      \/ e = Ended(a, L + 1)
      \/ \E t \in Transaction :
            /\ a + t.count <= Frames
            /\ e \in ScanResult /\ e.ok
            /\ e.next = L + 2 /\ e.tail = a + t.count
            /\ Len(e.got) = 1 /\ e.got[1] = Parts(t)
            /\ \A i \in 1 .. t.count : region[w][a + i] = FrameOf(man.wgen[w], L + 1, t, i - 1)
  BY <1>1, <1>4, ScanBehind
<1>7. Ended(a, L + 1) \in ScanResult
  BY <1>2, <1>3 DEF Ended, ScanResult
<1>8. e \in ScanResult
  BY <1>5, <1>7
<1>9. ScansAlike(w, f, r, e)
  <2>1. Scan(w)[off[LastOf(w) + 1]][LastOf(w) + 1] \in ScanResult
    BY <1>1, <1>4, <1>8
  <2>2. header[w].first \in header[w].first .. (LastOf(w) + 1)
    BY <1>1, <1>2
  <2> QED
    BY <1>1, <1>3, <1>4, <2>1, <2>2, ScanWhole
<1>10. /\ r \in ScanResult
       /\ r.ok = e.ok /\ r.next = e.next /\ r.tail = e.tail
       /\ Len(r.got) = Len(e.got) + (L + 1 - f)
       /\ \A j \in f .. L : r.got[j - f + 1] = hist[j]
       /\ \A k \in 1 .. Len(e.got) : r.got[L + 1 - f + k] = e.got[k]
  BY <1>1, <1>9 DEF ScansAlike
<1>11. CASE ~e.ok
  <2>1. Ended(a, L + 1).ok
    BY DEF Ended
  <2>2. Obstacle(w, a)
    BY <1>5, <1>11, <2>1
  <2> QED
    BY <1>1, <1>4, <1>10, <1>11, <2>2 DEF SlotYields
<1>12. CASE e = Ended(a, L + 1)
  <2>1. e.ok /\ Len(e.got) = 0 /\ e.next = L + 1 /\ e.tail = a
    BY <1>12 DEF Ended
  <2>2. Len(r.got) = r.next - f /\ r.next = L + 1 /\ r.tail = a
    BY <1>2, <1>10, <2>1
  <2> QED
    BY <1>1, <1>4, <1>10, <2>1, <2>2 DEF SlotYields
<1>13. ASSUME NEW t \in Transaction,
              a + t.count <= Frames,
              e.ok, e.next = L + 2, e.tail = a + t.count, Len(e.got) = 1, e.got[1] = Parts(t),
              \A i \in 1 .. t.count : region[w][a + i] = FrameOf(man.wgen[w], L + 1, t, i - 1)
       PROVE  SlotYields(w, off, r)
  <2>1. PICK p : p = Parts(t)
    OBVIOUS
  <2>2. e.next = L + 2 /\ e.tail = a + t.count
    BY <1>13
  <2>3. Len(e.got) = 1 /\ e.got[1] = p
    BY <1>13, <2>1
  <2>4. Len(r.got) = r.next - f /\ r.next = L + 2
    BY <1>2, <1>10, <2>2, <2>3
  <2>5. r.got[L + 1 - f + 1] = Parts(t)
    BY <1>10, <2>1, <2>3
  <2>6. L + 1 - f + 1 = L + 2 - f
    BY <1>2
  <2>7. Behind(w, off, t)
    BY <1>1, <1>13 DEF Behind
  <2>8. \E u \in Transaction :
            /\ Behind(w, off, u)
            /\ r.tail = off[LastOf(w) + 1] + u.count
            /\ r.got[LastOf(w) + 2 - header[w].first] = Parts(u)
    BY <1>1, <1>10, <2>2, <2>5, <2>6, <2>7
  <2> QED
    BY <1>1, <1>4, <1>10, <1>13, <2>4, <2>8 DEF SlotYields
<1> QED
  BY <1>1, <1>4, <1>5, <1>11, <1>12, <1>13

-----------------------------------------------------------------------------
(* What recover_wal() yields.                                              *)

\* An accepted recovery yields the committed transactions that are in the log,
\* and at most the one behind them in the active slot.
RecoveryYields(off) ==
    LET r == Recovery
        n == Len(hist)
    IN  /\ r.first \in 1 .. (man.ckpt + 1)
        /\ \A s \in r.first .. n : r.got[s - r.first + 1] = hist[s]
        /\ \/ r.next = n + 1 /\ r.tail = off[n + 1]
           \/ /\ r.next = n + 2
              /\ \E t \in Transaction :
                    /\ Behind(man.active, off, t)
                    /\ r.tail = off[n + 1] + t.count
                    /\ r.got[n + 2 - r.first] = Parts(t)

LEMMA ActiveFacts ==
    ASSUME ShapeInv, HeaderInv
    PROVE  /\ man.active \in Two /\ OlderWal \in Two /\ OlderWal # man.active
           /\ \A w \in Two : w = man.active \/ w = OlderWal
           /\ man.wgen[man.active] \in Nat /\ man.wgen[man.active] # 0
           /\ man.wgen[OlderWal] \in Nat
           /\ LastOf(man.active) = Len(hist) /\ Len(hist) \in Nat
           /\ LastOf(OlderWal) = man.ckpt /\ man.ckpt \in Nat /\ man.ckpt <= Len(hist)
           /\ header[man.active].first = man.ckpt + 1
<1>1. /\ man.active \in Two /\ man.wgen \in [Two -> Nat] /\ man.ckpt \in Nat
      /\ Len(hist) \in Nat
  BY DEF ShapeInv
<1>2. OlderWal \in Two /\ OlderWal # man.active /\ \A w \in Two : w = man.active \/ w = OlderWal
  BY <1>1 DEF OlderWal, Two
<1>3. man.wgen[OlderWal] \in Nat /\ man.wgen[man.active] \in Nat
  BY <1>1, <1>2
<1>4. man.wgen[man.active] # 0 /\ header[man.active].first = man.ckpt + 1 /\ man.ckpt <= Len(hist)
  BY <1>3 DEF HeaderInv
<1> QED
  BY <1>1, <1>2, <1>3, <1>4 DEF LastOf

\* The two scans of recover_wal(), one after the other.
LEMMA RecoveryScans ==
    ASSUME ShapeInv, HeaderInv, FrameInv,
           NEW off \in Offsets(man.active), Layout(man.active, off),
           NEW old, man.wgen[OlderWal] # 0 => old \in Offsets(OlderWal) /\ Layout(OlderWal, old),
           Recovery.ok
    PROVE  RecoveryYields(off)
<1>1. PICK a, b, n, c : a = man.active /\ b = OlderWal /\ n = Len(hist) /\ c = man.ckpt
  OBVIOUS
<1>2. /\ a \in Two /\ b \in Two /\ a # b /\ man.wgen[a] # 0 /\ n \in Nat /\ c \in Nat /\ c <= n
      /\ LastOf(a) = n /\ LastOf(b) = c /\ header[a].first = c + 1
  BY <1>1, ActiveFacts
<1>3. \A w \in Two : header[w].gen = man.wgen[w]
  BY DEF HeaderInv
<1>4. PICK y : y = Scan(a)[0][c + 1]
  OBVIOUS
<1>5. SlotYields(a, off, y)
  BY <1>1, <1>2, <1>4, SlotScan
<1>6. /\ y \in ScanResult
      /\ y.ok =>
          /\ Len(y.got) = y.next - (c + 1)
          /\ \A s \in (c + 1) .. n : y.got[s - (c + 1) + 1] = hist[s]
          /\ \/ y.next = n + 1 /\ y.tail = off[n + 1]
             \/ /\ y.next = n + 2
                /\ \E t \in Transaction :
                      /\ Behind(a, off, t)
                      /\ y.tail = off[n + 1] + t.count
                      /\ y.got[n + 2 - (c + 1)] = Parts(t)
  BY <1>2, <1>5 DEF SlotYields
<1>7. CASE man.wgen[b] = 0
  <2>1. FirstWal = a
    BY <1>1, <1>7 DEF FirstWal
  <2>2. ScanSlot(a, c + 1) = y
    BY <1>2, <1>3, <1>4 DEF ScanSlot
  <2>3. /\ Recovery.ok = (y.ok /\ y.ok /\ c + 1 <= c + 1 /\ c < y.next)
        /\ Recovery.first = c + 1 /\ Recovery.next = y.next
        /\ Recovery.tail = y.tail /\ Recovery.got = y.got
    BY <1>1, <1>2, <2>1, <2>2 DEF Recovery
  <2>4. y.ok
    BY <2>3
  <2>5. c + 1 \in 1 .. (c + 1)
    BY <1>2
  <2> QED
    BY <1>1, <1>6, <2>3, <2>4, <2>5 DEF RecoveryYields
<1>8. CASE man.wgen[b] # 0
  <2>1. FirstWal = b
    BY <1>1, <1>8 DEF FirstWal
  <2>2. PICK f : f = header[b].first
    OBVIOUS
  <2>3. f \in 1 .. (c + 1)
    BY <1>1, <1>2, <1>8, <2>2 DEF HeaderInv
  <2>4. PICK x : x = Scan(b)[0][f]
    OBVIOUS
  <2>5. SlotYields(b, old, x)
    BY <1>1, <1>2, <1>8, <2>2, <2>4, SlotScan
  <2>6. /\ x \in ScanResult
        /\ x.ok =>
            /\ Len(x.got) = x.next - f
            /\ \A s \in f .. c : x.got[s - f + 1] = hist[s]
    BY <1>2, <2>2, <2>5 DEF SlotYields
  <2>7. ScanSlot(b, f) = x
    BY <1>2, <1>3, <2>2, <2>4 DEF ScanSlot
  <2>8. PICK z : z = ScanSlot(a, x.next)
    OBVIOUS
  <2>9. /\ Recovery.ok = (x.ok /\ z.ok /\ f <= c + 1 /\ c < z.next)
        /\ Recovery.first = f /\ Recovery.next = z.next
        /\ Recovery.tail = z.tail /\ Recovery.got = x.got \o z.got
    BY <1>1, <1>2, <2>1, <2>2, <2>7, <2>8 DEF Recovery
  <2>10. x.ok /\ z.ok
    BY <2>9
  <2>11. ~Refused.ok
    BY DEF Refused
  <2>12. x.next = c + 1
    BY <1>2, <2>8, <2>10, <2>11 DEF ScanSlot
  <2>13. z = y
    BY <1>2, <1>3, <1>4, <2>8, <2>12 DEF ScanSlot
  <2>14. PICK g : g = x.got \o z.got
    OBVIOUS
  <2>15. x.got \in Seq(PartLists) /\ y.got \in Seq(PartLists)
    BY <1>6, <2>6 DEF ScanResult
  <2>16. Len(x.got) = c + 1 - f
    <3>1. Len(x.got) = x.next - f
      BY <2>6, <2>10
    <3>2. PICK l : l = Len(x.got)
      OBVIOUS
    <3>3. l = c + 1 - f
      BY <1>2, <2>3, <2>12, <3>1, <3>2
    <3> QED
      BY <3>2, <3>3
  <2>17. /\ \A k \in 1 .. (c + 1 - f) : g[k] = x.got[k]
         /\ \A k \in 1 .. Len(y.got) : g[c + 1 - f + k] = y.got[k]
    <3>1. PICK u, v : u = x.got /\ v = y.got
      OBVIOUS
    <3>2. u \in Seq(PartLists) /\ v \in Seq(PartLists) /\ g = u \o v
      BY <2>13, <2>14, <2>15, <3>1
    <3>3. /\ \A k \in 1 .. Len(u) : g[k] = u[k]
          /\ \A k \in 1 .. Len(v) : g[Len(u) + k] = v[k]
      BY <3>2
    <3> QED
      BY <2>16, <3>1, <3>3
  <2>18. PICK m : m = Len(y.got)
    OBVIOUS
  <2>19. y.next \in {n + 1, n + 2} /\ m = y.next - (c + 1)
    BY <1>6, <2>10, <2>13, <2>18
  <2>20. ASSUME NEW s \in f .. n PROVE g[s - f + 1] = hist[s]
    <3>1. CASE s <= c
      <4>1. s \in f .. c /\ s - f + 1 \in 1 .. (c + 1 - f)
        BY <1>2, <2>3, <3>1
      <4> QED
        BY <2>6, <2>10, <2>17, <4>1
    <3>2. CASE s > c
      <4>1. PICK k : k = s - (c + 1) + 1
        OBVIOUS
      <4>2. s \in (c + 1) .. n /\ k \in 1 .. m /\ c + 1 - f + k = s - f + 1
        BY <1>2, <2>3, <2>19, <3>2, <4>1
      <4>3. y.got[k] = hist[s]
        BY <1>6, <2>10, <2>13, <4>1, <4>2
      <4>4. g[c + 1 - f + k] = y.got[k]
        BY <2>17, <2>18, <4>2
      <4> QED
        BY <4>2, <4>3, <4>4
    <3> QED
      BY <1>2, <2>3, <3>1, <3>2
  <2>21. ASSUME y.next = n + 2 PROVE g[n + 2 - f] = y.got[n + 2 - (c + 1)]
    <3>1. PICK k : k = n + 2 - (c + 1)
      OBVIOUS
    <3>2. k \in 1 .. m /\ c + 1 - f + k = n + 2 - f
      BY <1>2, <2>3, <2>19, <2>21, <3>1
    <3>3. g[c + 1 - f + k] = y.got[k]
      BY <2>17, <2>18, <3>2
    <3> QED
      BY <3>1, <3>2, <3>3
  <2>22. \/ y.next = n + 1 /\ y.tail = off[n + 1]
         \/ /\ y.next = n + 2
            /\ \E t \in Transaction :
                  /\ Behind(a, off, t)
                  /\ y.tail = off[n + 1] + t.count
                  /\ g[n + 2 - f] = Parts(t)
    BY <1>6, <2>10, <2>13, <2>21
  <2> QED
    BY <1>1, <2>3, <2>9, <2>13, <2>14, <2>20, <2>22 DEF RecoveryYields
<1> QED
  BY <1>7, <1>8

LEMMA AcceptedYields ==
    ASSUME ShapeInv, HeaderInv, FrameInv, SlotInv, Recovery.ok
    PROVE  \E off \in Offsets(man.active) : Layout(man.active, off) /\ RecoveryYields(off)
<1>1. PICK off \in Offsets(man.active) : Layout(man.active, off)
  BY ActiveFacts DEF SlotInv
<1>2. \E old : man.wgen[OlderWal] # 0 => old \in Offsets(OlderWal) /\ Layout(OlderWal, old)
  BY ActiveFacts DEF SlotInv
<1>3. PICK old : man.wgen[OlderWal] # 0 => old \in Offsets(OlderWal) /\ Layout(OlderWal, old)
  BY <1>2
<1>4. RecoveryYields(off)
  BY <1>1, <1>3, RecoveryScans
<1> QED
  BY <1>1, <1>4

\* What is durable has the form of a transaction.
LEMMA HistFacts ==
    ASSUME ShapeInv
    PROVE  /\ hist \in Seq(PartLists) /\ Len(hist) \in 0 .. MaxSeq
           /\ \A s \in 1 .. Len(hist) : hist[s] \in PartLists
<1>1. hist \in Seq(PartLists) /\ Len(hist) <= MaxSeq
  BY DEF ShapeInv, PartLists
<1> QED
  BY <1>1

LEMMA ExactScan ==
    ASSUME ShapeInv, HeaderInv, FrameInv, SlotInv
    PROVE  AcceptedScanExact
<1>1. SUFFICES ASSUME Recovery.ok
      PROVE  /\ Recovery.next - 1 \in {Len(hist), Len(hist) + 1}
             /\ \A s \in Recovery.first .. Recovery.next - 1 :
                   /\ s <= Len(hist) => Recovery.got[s - Recovery.first + 1] = hist[s]
                   /\ \E t \in Transaction : Recovery.got[s - Recovery.first + 1] = Parts(t)
  BY DEF AcceptedScanExact
<1>2. PICK off \in Offsets(man.active) : RecoveryYields(off)
  BY <1>1, AcceptedYields
<1>3. PICK r, n, c : r = Recovery /\ n = Len(hist) /\ c = man.ckpt
  OBVIOUS
<1>4. /\ r.first \in 1 .. (c + 1)
      /\ \A s \in r.first .. n : r.got[s - r.first + 1] = hist[s]
      /\ \/ r.next = n + 1
         \/ /\ r.next = n + 2
            /\ \E t \in Transaction : r.got[n + 2 - r.first] = Parts(t)
  BY <1>2, <1>3 DEF RecoveryYields
<1>5. n \in 0 .. MaxSeq /\ c \in Nat /\ \A s \in 1 .. n : \E t \in Transaction : hist[s] = Parts(t)
  BY <1>3, HistFacts, ActiveFacts DEF PartLists
<1>6. r.next - 1 \in {n, n + 1}
  BY <1>4, <1>5
<1>7. ASSUME NEW s \in r.first .. r.next - 1
      PROVE  /\ s <= n => r.got[s - r.first + 1] = hist[s]
             /\ \E t \in Transaction : r.got[s - r.first + 1] = Parts(t)
  <2>1. CASE s <= n
    <3>1. s \in r.first .. n /\ s \in 1 .. n
      BY <1>4, <1>5, <1>7, <2>1
    <3> QED
      BY <1>4, <1>5, <3>1
  <2>2. CASE s > n
    <3>1. s = n + 1 /\ r.next = n + 2 /\ s - r.first + 1 = n + 2 - r.first
      BY <1>4, <1>5, <1>7, <2>2
    <3>2. ~(s <= n)
      BY <2>2, <3>1, <1>5
    <3>3. \E t \in Transaction : r.got[n + 2 - r.first] = Parts(t)
      BY <1>4, <1>5, <3>1
    <3> QED
      BY <3>1, <3>2, <3>3
  <2> QED
    BY <1>4, <1>5, <1>7, <2>1, <2>2
<1> QED
  BY <1>3, <1>6, <1>7

-----------------------------------------------------------------------------
(* The layout is inductive.                                                *)

LEMMA InitialLog == Init => WInv
<1> SUFFICES ASSUME Init PROVE WInv
  OBVIOUS
<1>1. /\ region = [w \in Two |-> [p \in 1 .. Frames |-> Junk]]
      /\ header = [w \in Two |-> [gen |-> 1 - w, first |-> 1 - w]]
      /\ man = [active |-> 0, wgen |-> [w \in Two |-> 1 - w], ckpt |-> 0]
      /\ pc = "down" /\ tail = 0 /\ next = 1 /\ txn = NoTransaction /\ written = 0 /\ hist = <<>>
  BY DEF Init
<1>2. man.active = 0 /\ man.ckpt = 0 /\ man.wgen[0] = 1 /\ man.wgen[1] = 0 /\ OlderWal = 1
      /\ Len(hist) = 0 /\ header[0].first = 1 /\ header[1].first = 0
      /\ header[0].gen = 1 /\ header[1].gen = 0
  BY <1>1 DEF Two, OlderWal
<1>3. ShapeInv
  <2>1. region \in [Two -> [1 .. Frames -> FrameRecord \cup {Junk}]]
    BY <1>1
  <2>2. \A w \in Two : 1 - w \in Nat /\ 1 - w \in 0 .. (MaxSeq + 1)
    BY DEF Two
  <2>3. header \in [Two -> [gen : Nat, first : 0 .. (MaxSeq + 1)]]
    BY <1>1, <2>2
  <2>4. man \in [active : Two, wgen : [Two -> Nat], ckpt : 0 .. MaxSeq]
    BY <1>1, <2>2 DEF Two
  <2>5. hist \in Seq({Parts(t) : t \in Transaction}) /\ Len(hist) <= MaxSeq
    BY <1>1
  <2> QED
    BY <1>1, <2>1, <2>3, <2>4, <2>5 DEF ShapeInv
<1>4. HeaderInv
  BY <1>2 DEF HeaderInv, Two
<1>5. ASSUME NEW w \in Two, NEW p \in 1 .. Frames
      PROVE  region[w][p] = Junk /\ region[w][p].gen = 0
  BY <1>1 DEF Junk
<1>6. FrameInv
  BY <1>2, <1>5 DEF FrameInv, Two
<1>7. SlotInv
  <2>1. SUFFICES ASSUME NEW w \in Two, man.wgen[w] # 0
                 PROVE  \E off \in Offsets(w) : Layout(w, off)
    BY <1>1 DEF SlotInv
  <2>2. w = 0 /\ LastOf(w) = 0
    BY <1>2, <2>1 DEF Two, LastOf
  <2>3. PICK off : off = [s \in 1 .. 1 |-> 0]
    OBVIOUS
  <2>4. off \in Offsets(w)
    BY <1>2, <2>2, <2>3 DEF Offsets
  <2>5. \A p \in 1 .. Frames : ~Current(w, p)
    BY <1>5 DEF Current
  <2>6. Layout(w, off)
    BY <1>2, <2>2, <2>3, <2>5 DEF Layout
  <2> QED
    BY <2>4, <2>6
<1>8. CallInv
  BY <1>1 DEF CallInv
<1> QED
  BY <1>3, <1>4, <1>6, <1>7, <1>8 DEF WInv

\* A slot a step does not touch keeps its layout.
LEMMA KeptSlot ==
    ASSUME NEW w, NEW off \in Offsets(w), Layout(w, off),
           region'[w] = region[w], header'[w].first = header[w].first,
           man'.wgen[w] = man.wgen[w], LastOf(w)' = LastOf(w),
           \A s \in header[w].first .. LastOf(w) : hist'[s] = hist[s]
    PROVE  off \in Offsets(w)' /\ Layout(w, off)'
<1>1. off \in Offsets(w)'
  BY DEF Offsets
<1>2. \A p \in 1 .. Frames : Current(w, p)' = Current(w, p)
  BY DEF Current
<1>3. ASSUME NEW s \in header'[w].first .. LastOf(w)'
      PROVE  \E t \in Transaction :
                /\ hist'[s] = Parts(t)
                /\ off[s + 1] = off[s] + t.count
                /\ off[s + 1] <= off[LastOf(w)' + 1]
                /\ \A i \in 1 .. t.count :
                      region'[w][off[s] + i] = FrameOf(man'.wgen[w], s, t, i - 1)
  <2>1. s \in header[w].first .. LastOf(w)
    OBVIOUS
  <2>2. PICK t \in Transaction :
           /\ hist[s] = Parts(t)
           /\ off[s + 1] = off[s] + t.count
           /\ off[s + 1] <= off[LastOf(w) + 1]
           /\ \A i \in 1 .. t.count : region[w][off[s] + i] = FrameOf(man.wgen[w], s, t, i - 1)
    BY <2>1 DEF Layout
  <2> QED
    BY <2>1, <2>2
<1>4. \A p \in 1 .. Frames : Current(w, p)' =>
          /\ region'[w][p].seq \in header'[w].first .. (LastOf(w)' + 1)
          /\ p = off[region'[w][p].seq] + region'[w][p].index + 1
          /\ off[region'[w][p].seq] + region'[w][p].count <= Frames
  BY <1>2 DEF Layout
<1>5. off[header'[w].first] = 0
  BY DEF Layout
<1> QED
  BY <1>1, <1>3, <1>4, <1>5 DEF Layout

\* A frame behind the committed transactions may change to a torn one, or to
\* one of an attempt at the next transaction.
LEMMA FrameLayout ==
    ASSUME ShapeInv, HeaderInv, NEW a, a = man.active, NEW off \in Offsets(a), Layout(a, off),
           NEW P \in 1 .. Frames, off[LastOf(a) + 1] < P, NEW f,
           region'[a][P] = f, \A p \in 1 .. Frames : p # P => region'[a][p] = region[a][p],
           f # Junk => /\ f.seq = LastOf(a) + 1
                       /\ P = off[LastOf(a) + 1] + f.index + 1
                       /\ off[LastOf(a) + 1] + f.count <= Frames,
           UNCHANGED <<header, man, hist>>
    PROVE  off \in Offsets(a)' /\ Layout(a, off)'
<1>1. /\ a \in Two /\ LastOf(a) \in Nat /\ header[a].first \in 1 .. (LastOf(a) + 1)
      /\ man.wgen[a] # 0
  BY ActiveFacts, SlotBounds
<1>2. LastOf(a)' = LastOf(a)
  BY DEF LastOf
<1>3. off \in Offsets(a)'
  BY <1>2 DEF Offsets
<1>4. /\ region'[a][P] = f
      /\ \A p \in 1 .. Frames : p # P => region'[a][p] = region[a][p]
  OBVIOUS
<1>5. PICK L, h : L = LastOf(a) /\ h = header[a].first
  OBVIOUS
<1>6. \A s \in h .. (L + 1) : off[s] \in 0 .. Frames
  BY <1>5 DEF Offsets
<1>7. ASSUME NEW s \in h .. L
      PROVE  \E t \in Transaction :
                /\ hist'[s] = Parts(t)
                /\ off[s + 1] = off[s] + t.count
                /\ off[s + 1] <= off[L + 1]
                /\ \A i \in 1 .. t.count :
                      region'[a][off[s] + i] = FrameOf(man'.wgen[a], s, t, i - 1)
  <2>1. PICK t \in Transaction :
           /\ hist[s] = Parts(t)
           /\ off[s + 1] = off[s] + t.count
           /\ off[s + 1] <= off[L + 1]
           /\ \A i \in 1 .. t.count : region[a][off[s] + i] = FrameOf(man.wgen[a], s, t, i - 1)
    BY <1>5, <1>7 DEF Layout
  <2>2. /\ off[s] \in 0 .. Frames /\ off[s + 1] \in 0 .. Frames /\ off[L + 1] \in 0 .. Frames
        /\ t.count \in Nat
    BY <1>1, <1>5, <1>6, <1>7 DEF Transaction
  <2>3. ASSUME NEW i \in 1 .. t.count
        PROVE  region'[a][off[s] + i] = FrameOf(man'.wgen[a], s, t, i - 1)
    <3>1. off[s] + i \in 1 .. Frames /\ off[s] + i # P
      BY <1>5, <2>1, <2>2
    <3> QED
      BY <1>4, <2>1, <3>1
  <2> QED
    BY <2>1, <2>3
<1>8. ASSUME NEW p \in 1 .. Frames, Current(a, p)'
      PROVE  /\ region'[a][p].seq \in h .. (L + 1)
             /\ p = off[region'[a][p].seq] + region'[a][p].index + 1
             /\ off[region'[a][p].seq] + region'[a][p].count <= Frames
  <2>1. CASE p = P
    <3>1. region'[a][p] = f /\ f # Junk
      BY <1>4, <1>8, <2>1 DEF Current
    <3>2. f.seq \in h .. (L + 1)
      BY <1>1, <1>5, <3>1
    <3> QED
      BY <1>5, <2>1, <3>1, <3>2
  <2>2. CASE p # P
    <3>1. region'[a][p] = region[a][p]
      BY <1>4, <2>2
    <3>2. Current(a, p)
      BY <1>8, <3>1 DEF Current
    <3> QED
      BY <1>5, <3>1, <3>2 DEF Layout
  <2> QED
    BY <2>1, <2>2
<1>9. off[h] = 0
  BY <1>5 DEF Layout
<1> QED
  BY <1>2, <1>3, <1>5, <1>7, <1>8, <1>9 DEF Layout

\* The transaction behind the committed ones becomes one of them.
LEMMA CommittedLayout ==
    ASSUME ShapeInv, HeaderInv, NEW a, a = man.active, NEW off \in Offsets(a), Layout(a, off),
           NEW t \in Transaction, Behind(a, off, t),
           hist' = Append(hist, Parts(t)),
           UNCHANGED <<region, header, man>>
    PROVE  \E new \in Offsets(a)' :
              /\ Layout(a, new)'
              /\ new[LastOf(a)' + 1] = off[LastOf(a) + 1] + t.count
              /\ LastOf(a)' = LastOf(a) + 1
<1>1. /\ a \in Two /\ LastOf(a) = Len(hist) /\ LastOf(a) \in Nat
      /\ header[a].first \in 1 .. (LastOf(a) + 1)
      /\ man.wgen[a] # 0
  BY ActiveFacts, SlotBounds
<1>2. /\ hist \in Seq(PartLists) /\ Parts(t) \in PartLists
  BY HistFacts DEF PartLists
<1>3. /\ Len(hist') = Len(hist) + 1 /\ hist'[Len(hist) + 1] = Parts(t)
      /\ \A s \in 1 .. Len(hist) : hist'[s] = hist[s]
  BY <1>2
<1>4. LastOf(a)' = LastOf(a) + 1
  BY <1>1, <1>3 DEF LastOf
<1>5. PICK L, h : L = LastOf(a) /\ h = header[a].first
  OBVIOUS
<1>6. \A s \in h .. (L + 1) : off[s] \in 0 .. Frames
  BY <1>5 DEF Offsets
<1>7. PICK e : e = off[L + 1] + t.count
  OBVIOUS
<1>8. off[L + 1] \in 0 .. Frames /\ t.count \in 1 .. MaxFrames /\ e \in 0 .. Frames
      /\ L \in Nat /\ h \in 1 .. (L + 1)
  BY <1>1, <1>5, <1>6, <1>7 DEF Behind, Transaction
<1>9. PICK new : new = [s \in h .. (L + 2) |-> IF s = L + 2 THEN e ELSE off[s]]
  OBVIOUS
<1>10. new[L + 2] = e /\ \A s \in h .. (L + 1) : new[s] = off[s]
  BY <1>8, <1>9
<1>11. new \in Offsets(a)'
  <2>1. \A s \in h .. (L + 2) : s # L + 2 => s \in h .. (L + 1)
    BY <1>8
  <2>2. new \in [h .. (L + 2) -> 0 .. Frames]
    BY <1>6, <1>8, <1>9, <2>1
  <2>3. LastOf(a)' + 1 = L + 2 /\ header'[a].first = h
    BY <1>4, <1>5, <1>8
  <2> QED
    BY <2>2, <2>3 DEF Offsets
<1>12. ASSUME NEW s \in h .. (L + 1)
       PROVE  \E u \in Transaction :
                 /\ hist'[s] = Parts(u)
                 /\ new[s + 1] = new[s] + u.count
                 /\ new[s + 1] <= new[L + 2]
                 /\ \A i \in 1 .. u.count :
                       region'[a][new[s] + i] = FrameOf(man'.wgen[a], s, u, i - 1)
  <2>1. CASE s = L + 1
    <3>1. hist'[s] = Parts(t) /\ new[s] = off[L + 1] /\ new[s + 1] = e /\ s + 1 = L + 2
      BY <1>1, <1>3, <1>5, <1>8, <1>10, <2>1
    <3>2. \A i \in 1 .. t.count : region'[a][off[L + 1] + i] = FrameOf(man'.wgen[a], s, t, i - 1)
      BY <1>5, <2>1 DEF Behind
    <3>3. /\ hist'[s] = Parts(t) /\ new[s + 1] = new[s] + t.count
          /\ new[s + 1] <= new[L + 2]
      BY <1>7, <1>8, <1>10, <3>1
    <3>4. \A i \in 1 .. t.count : region'[a][new[s] + i] = FrameOf(man'.wgen[a], s, t, i - 1)
      BY <3>1, <3>2
    <3> QED
      BY <3>3, <3>4, Zenon
  <2>2. CASE s # L + 1
    <3>1. s \in h .. L /\ s + 1 \in h .. (L + 1) /\ s \in 1 .. L
      BY <1>8, <1>12, <2>2
    <3>2. PICK u \in Transaction :
             /\ hist[s] = Parts(u)
             /\ off[s + 1] = off[s] + u.count
             /\ off[s + 1] <= off[L + 1]
             /\ \A i \in 1 .. u.count : region[a][off[s] + i] = FrameOf(man.wgen[a], s, u, i - 1)
      BY <1>5, <3>1 DEF Layout
    <3>3. new[s] = off[s] /\ new[s + 1] = off[s + 1] /\ hist'[s] = hist[s]
      BY <1>1, <1>3, <1>5, <1>10, <3>1
    <3>4. off[s + 1] <= e
      <4>1. off[L + 1] <= e /\ off[L + 1] \in Nat /\ e \in Nat
        BY <1>7, <1>8
      <4>2. off[s + 1] \in Nat /\ off[s + 1] <= off[L + 1]
        BY <1>6, <3>1, <3>2
      <4> QED
        BY <4>1, <4>2
    <3> QED
      BY <1>10, <3>2, <3>3, <3>4
  <2> QED
    BY <2>1, <2>2
<1>13. ASSUME NEW p \in 1 .. Frames, Current(a, p)'
       PROVE  /\ region'[a][p].seq \in h .. (L + 2)
              /\ p = new[region'[a][p].seq] + region'[a][p].index + 1
              /\ new[region'[a][p].seq] + region'[a][p].count <= Frames
  <2>1. Current(a, p) /\ region' = region
    BY <1>13 DEF Current
  <2>2. /\ region[a][p].seq \in h .. (L + 1)
        /\ p = off[region[a][p].seq] + region[a][p].index + 1
        /\ off[region[a][p].seq] + region[a][p].count <= Frames
    BY <1>5, <2>1 DEF Layout
  <2>3. region[a][p].seq \in h .. (L + 2) /\ new[region[a][p].seq] = off[region[a][p].seq]
    <3>1. PICK s \in h .. (L + 1) : s = region[a][p].seq
      BY <2>2
    <3>2. s \in h .. (L + 2) /\ new[s] = off[s]
      BY <1>8, <1>10
    <3> QED
      BY <3>1, <3>2
  <2> QED
    BY <2>1, <2>2, <2>3
<1>14. new[h] = 0
  <2>1. off[h] = 0
    BY <1>5 DEF Layout
  <2>2. h \in h .. (L + 1)
    BY <1>8
  <2> QED
    BY <1>10, <2>1, <2>2
<1>15. Layout(a, new)'
  <2>1. LastOf(a)' = L + 1 /\ header'[a].first = h /\ LastOf(a)' + 1 = L + 2
    BY <1>4, <1>5, <1>8
  <2>2. new[header'[a].first] = 0
    BY <1>14, <2>1
  <2>3. \A s \in header'[a].first .. LastOf(a)' : \E u \in Transaction :
           /\ hist'[s] = Parts(u)
           /\ new[s + 1] = new[s] + u.count
           /\ new[s + 1] <= new[LastOf(a)' + 1]
           /\ \A i \in 1 .. u.count : region'[a][new[s] + i] = FrameOf(man'.wgen[a], s, u, i - 1)
    <3>1. header'[a].first .. LastOf(a)' = h .. (L + 1) /\ new[LastOf(a)' + 1] = new[L + 2]
      BY <2>1
    <3> QED
      BY <1>12, <3>1, Zenon
  <2>4. \A p \in 1 .. Frames : Current(a, p)' =>
           /\ region'[a][p].seq \in header'[a].first .. (LastOf(a)' + 1)
           /\ p = new[region'[a][p].seq] + region'[a][p].index + 1
           /\ new[region'[a][p].seq] + region'[a][p].count <= Frames
    BY <1>13, <2>1
  <2> QED
    BY <2>2, <2>3, <2>4 DEF Layout
<1>16. new[LastOf(a)' + 1] = off[LastOf(a) + 1] + t.count
  BY <1>4, <1>5, <1>7, <1>8, <1>10
<1> QED
  BY <1>4, <1>11, <1>15, <1>16

\* A step that leaves the manifest and the older slot alone.
LEMMA SlotsKept ==
    ASSUME ShapeInv, HeaderInv, SlotInv, UNCHANGED <<header, man>>,
           region'[OlderWal] = region[OlderWal],
           \A s \in 1 .. man.ckpt : hist'[s] = hist[s],
           NEW a, a = man.active,
           \E off \in Offsets(a)' :
              Layout(a, off)' /\ (pc' # "down" => tail' = off[LastOf(a)' + 1])
    PROVE  SlotInv'
<1>1. PICK b : b = OlderWal
  OBVIOUS
<1>2. /\ b \in Two /\ a # b /\ LastOf(b) = man.ckpt /\ \A w \in Two : w = a \/ w = b
  BY <1>1, ActiveFacts
<1>3. SUFFICES ASSUME NEW w \in Two, man'.wgen[w] # 0
               PROVE  \E off \in Offsets(w)' :
                         /\ Layout(w, off)'
                         /\ w = man'.active /\ pc' # "down" => tail' = off[LastOf(w)' + 1]
  BY DEF SlotInv
<1>4. CASE w = a
  BY <1>4
<1>5. CASE w = b
  <2>1. PICK off \in Offsets(b) : Layout(b, off)
    BY <1>3, <1>5 DEF SlotInv
  <2>2. LastOf(b)' = LastOf(b)
    BY <1>2 DEF LastOf
  <2>3. header[b].first \in 1 .. (LastOf(b) + 1)
    BY <1>2, <1>3, <1>5, SlotBounds
  <2>4. \A s \in header[b].first .. LastOf(b) : hist'[s] = hist[s]
    BY <1>2, <2>3
  <2>5. off \in Offsets(b)' /\ Layout(b, off)'
    BY <1>1, <2>1, <2>2, <2>4, KeptSlot
  <2>6. w # man'.active
    BY <1>2, <1>5
  <2> QED
    BY <1>5, <2>5, <2>6
<1> QED
  BY <1>2, <1>3, <1>4, <1>5

\* A whole transaction behind the committed ones is within the bound.
LEMMA BehindBound ==
    ASSUME ShapeInv, HeaderInv, NEW a, a = man.active, NEW off \in Offsets(a),
           NEW t \in Transaction, Behind(a, off, t)
    PROVE  LastOf(a) + 1 <= MaxSeq
<1>1. /\ a \in Two /\ LastOf(a) \in Nat /\ man.wgen[a] # 0
      /\ header[a].first \in 1 .. (LastOf(a) + 1)
  BY ActiveFacts, SlotBounds
<1>2. off[LastOf(a) + 1] \in 0 .. Frames
  BY <1>1 DEF Offsets
<1>3. PICK e : e = off[LastOf(a) + 1]
  OBVIOUS
<1>4. t.count \in 1 .. MaxFrames /\ e + t.count <= Frames /\ e \in 0 .. Frames
  BY <1>2, <1>3 DEF Behind, Transaction
<1>5. e + 1 \in 1 .. Frames /\ 1 \in 1 .. t.count
  BY <1>4
<1>6. region[a][e + 1] = FrameOf(man.wgen[a], LastOf(a) + 1, t, 1 - 1)
  BY <1>3, <1>5 DEF Behind
<1>7. PICK f : f = region[a][e + 1]
  OBVIOUS
<1>8. f.gen # 0 /\ f.seq = LastOf(a) + 1
  BY <1>1, <1>6, <1>7 DEF FrameOf
<1>9. f # Junk
  BY <1>8 DEF Junk
<1>10. f.seq \in 1 .. MaxSeq
  BY <1>1, <1>5, <1>7, <1>9, FrameTypes
<1> QED
  BY <1>8, <1>10

\* The history after a recovery that yields g from transaction f to m.
Recovered(m, f, g) == [s \in 1 .. m |-> IF s < f THEN hist[s] ELSE g[s - f + 1]]

\* It is the history before, or one more transaction.
LEMMA RecoveredHistory ==
    ASSUME ShapeInv, NEW f \in Nat \ {0}, NEW g, NEW n, n = Len(hist),
           \A s \in f .. n : g[s - f + 1] = hist[s],
           f <= n + 1
    PROVE  /\ Recovered(n, f, g) = hist
           /\ \A t \in Transaction :
                 g[n + 2 - f] = Parts(t) => Recovered(n + 1, f, g) = Append(hist, Parts(t))
<1>1. hist \in Seq(PartLists) /\ n \in Nat
  BY HistFacts
<1>2. \A s \in 1 .. n : ~(s < f) => s \in f .. n
  BY <1>1
<1>3. \A s \in 1 .. n : (IF s < f THEN hist[s] ELSE g[s - f + 1]) = hist[s]
  BY <1>2
<1>4. hist = [s \in 1 .. n |-> hist[s]]
  BY <1>1
<1>6. Recovered(n, f, g) = hist
  BY <1>3, <1>4 DEF Recovered
<1>7. ASSUME NEW t \in Transaction, g[n + 2 - f] = Parts(t)
      PROVE  Recovered(n + 1, f, g) = Append(hist, Parts(t))
  <2>1. PICK p : p = Parts(t)
    OBVIOUS
  <2>2. p \in PartLists
    BY <2>1 DEF PartLists
  <2>3. PICK h : h = Append(hist, p)
    OBVIOUS
  <2>4. h = [s \in 1 .. (n + 1) |-> h[s]] /\ h[n + 1] = p /\ \A s \in 1 .. n : h[s] = hist[s]
    <3>1. h \in Seq(PartLists) /\ Len(h) = n + 1
      BY <1>1, <2>2, <2>3
    <3>2. h[n + 1] = p /\ \A s \in 1 .. n : h[s] = hist[s]
      BY <1>1, <2>2, <2>3
    <3> QED
      BY <3>1, <3>2
  <2>5. (n + 1) - f + 1 = n + 2 - f /\ ~(n + 1 < f)
    BY <1>1
  <2>6. ASSUME NEW s \in 1 .. (n + 1)
        PROVE  (IF s < f THEN hist[s] ELSE g[s - f + 1]) = h[s]
    <3>1. CASE s = n + 1
      BY <1>7, <2>1, <2>4, <2>5, <3>1
    <3>2. CASE s # n + 1
      <4>1. s \in 1 .. n
        BY <1>1, <3>2
      <4> QED
        BY <1>3, <2>4, <4>1
    <3> QED
      BY <3>1, <3>2
  <2>7. [s \in 1 .. (n + 1) |-> IF s < f THEN hist[s] ELSE g[s - f + 1]] = h
    BY <2>4, <2>6
  <2> QED
    BY <2>1, <2>3, <2>7 DEF Recovered
<1> QED
  BY <1>6, <1>7

LEMMA RecoverKeeps ==
    ASSUME WInv, Recover
    PROVE  WInv'
<1>1. /\ ShapeInv /\ HeaderInv /\ FrameInv /\ SlotInv /\ CallInv
      /\ pc = "down" /\ Recovery.ok
      /\ pc' = "idle" /\ tail' = Recovery.tail /\ next' = Recovery.next
      /\ UNCHANGED <<region, header, man, txn, written>>
  BY DEF WInv, Recover
<1>2. PICK a, n : a = man.active /\ n = Len(hist)
  OBVIOUS
<1>3. PICK off \in Offsets(a) : Layout(a, off) /\ RecoveryYields(off)
  BY <1>1, <1>2, AcceptedYields
<1>4. /\ a \in Two /\ LastOf(a) = n /\ n \in 0 .. MaxSeq /\ man.ckpt \in Nat /\ man.ckpt <= n
      /\ header[a].first \in 1 .. (n + 1)
  BY <1>1, <1>2, ActiveFacts, SlotBounds, HistFacts
<1>5. PICK r : r = Recovery
  OBVIOUS
<1>6. /\ r.first \in 1 .. (man.ckpt + 1)
      /\ \A s \in r.first .. n : r.got[s - r.first + 1] = hist[s]
      /\ \/ r.next = n + 1 /\ r.tail = off[n + 1]
         \/ /\ r.next = n + 2
            /\ \E t \in Transaction :
                  /\ Behind(a, off, t)
                  /\ r.tail = off[n + 1] + t.count
                  /\ r.got[n + 2 - r.first] = Parts(t)
  BY <1>2, <1>3, <1>5 DEF RecoveryYields
<1>7. hist' = Recovered(r.next - 1, r.first, r.got)
  BY <1>5 DEF Recover, Recovered
<1>8. /\ r.first \in Nat \ {0} /\ r.first <= n + 1
  BY <1>4, <1>6
<1>9. PICK f, g : f = r.first /\ g = r.got
  OBVIOUS
<1>10. /\ Recovered(n, f, g) = hist
       /\ \A t \in Transaction :
             g[n + 2 - f] = Parts(t) => Recovered(n + 1, f, g) = Append(hist, Parts(t))
  <2>1. f \in Nat \ {0} /\ f <= n + 1 /\ \A s \in f .. n : g[s - f + 1] = hist[s]
    BY <1>6, <1>8, <1>9
  <2> QED
    BY <1>1, <1>2, <2>1, RecoveredHistory
<1>11. off[n + 1] \in 0 .. Frames
  BY <1>3, <1>4 DEF Offsets
\* Both cases leave a longer history, and a slot that ends at the new tail.
<1>12. /\ hist' \in Seq(PartLists) /\ Len(hist') \in n .. MaxSeq /\ next' = Len(hist') + 1
       /\ \A s \in 1 .. n : hist'[s] = hist[s]
       /\ tail' \in 0 .. Frames
       /\ \E new \in Offsets(a)' : Layout(a, new)' /\ tail' = new[LastOf(a)' + 1]
  <2>1. CASE r.next = n + 1 /\ r.tail = off[n + 1]
    <3>1. hist' = hist
      <4>1. r.next - 1 = n
        BY <1>4, <2>1
      <4> QED
        BY <1>7, <1>9, <1>10, <4>1
    <3>2. LastOf(a)' = LastOf(a)
      BY <1>1, <3>1 DEF LastOf
    <3>3. off \in Offsets(a)' /\ Layout(a, off)'
      BY <1>1, <1>3, <3>1, <3>2, KeptSlot
    <3> QED
      BY <1>1, <1>2, <1>4, <1>5, <1>11, <2>1, <3>1, <3>2, <3>3, HistFacts
  <2>2. ASSUME NEW t \in Transaction, r.next = n + 2, Behind(a, off, t),
               r.tail = off[n + 1] + t.count, r.got[n + 2 - r.first] = Parts(t)
        PROVE  /\ hist' \in Seq(PartLists) /\ Len(hist') \in n .. MaxSeq /\ next' = Len(hist') + 1
               /\ \A s \in 1 .. n : hist'[s] = hist[s]
               /\ tail' \in 0 .. Frames
               /\ \E new \in Offsets(a)' : Layout(a, new)' /\ tail' = new[LastOf(a)' + 1]
    <3>1. hist' = Append(hist, Parts(t))
      <4>1. r.next - 1 = n + 1
        BY <1>4, <2>2
      <4> QED
        BY <1>7, <1>9, <1>10, <2>2, <4>1
    <3>2. PICK new \in Offsets(a)' :
              /\ Layout(a, new)'
              /\ new[LastOf(a)' + 1] = off[LastOf(a) + 1] + t.count
      BY <1>1, <1>2, <1>3, <2>2, <3>1, CommittedLayout
    <3>3. n + 1 <= MaxSeq
      BY <1>1, <1>2, <1>3, <1>4, <2>2, BehindBound
    <3>4. hist \in Seq(PartLists) /\ Parts(t) \in PartLists
      BY <1>1, HistFacts DEF PartLists
    <3>5. /\ hist' \in Seq(PartLists) /\ Len(hist') = n + 1
          /\ \A s \in 1 .. n : hist'[s] = hist[s]
      BY <1>2, <3>1, <3>4
    <3>6. tail' \in 0 .. Frames
      BY <1>1, <1>4, <1>5, <1>11, <2>2 DEF Behind, Transaction
    <3>7. tail' = new[LastOf(a)' + 1]
      BY <1>1, <1>4, <1>5, <2>2, <3>2
    <3> QED
      BY <1>1, <1>4, <1>5, <2>2, <3>2, <3>3, <3>5, <3>6, <3>7
  <2> QED
    BY <1>6, <2>1, <2>2
<1>13. ShapeInv'
  <2>1. hist' \in Seq({Parts(t) : t \in Transaction}) /\ Len(hist') <= MaxSeq
    BY <1>4, <1>12 DEF PartLists
  <2>2. next' \in 1 .. (MaxSeq + 1)
    BY <1>4, <1>12
  <2> QED
    BY <1>1, <1>12, <2>1, <2>2 DEF ShapeInv
<1>14. HeaderInv'
  <2>1. man.ckpt <= Len(hist')
    BY <1>4, <1>12
  <2> QED
    BY <1>1, <2>1 DEF HeaderInv, OlderWal
<1>15. FrameInv'
  BY <1>1 DEF FrameInv
<1>16. SlotInv'
  <2>1. \A s \in 1 .. man.ckpt : hist'[s] = hist[s]
    BY <1>4, <1>12
  <2> QED
    BY <1>1, <1>2, <1>12, <2>1, SlotsKept
<1>17. CallInv'
  BY <1>1, <1>12 DEF CallInv
<1> QED
  BY <1>13, <1>14, <1>15, <1>16, <1>17 DEF WInv

\* The offsets of the active slot, which end at the tail while the log is open.
LEMMA OpenSlot ==
    ASSUME ShapeInv, HeaderInv, SlotInv, pc # "down"
    PROVE  \E off \in Offsets(man.active) :
              Layout(man.active, off) /\ tail = off[LastOf(man.active) + 1]
BY ActiveFacts DEF SlotInv

LEMMA BeginKeeps ==
    ASSUME WInv, NEW t \in Transaction, BeginAppend(t)
    PROVE  WInv'
<1>1. /\ ShapeInv /\ HeaderInv /\ FrameInv /\ SlotInv /\ CallInv
      /\ pc = "idle" /\ next <= MaxSeq
      /\ txn' = t /\ written' = 0 /\ pc' = "write"
      /\ UNCHANGED <<region, next, hist>>
      /\ IF t.count <= Frames - tail THEN UNCHANGED <<header, man, tail>> ELSE Rotated
  BY DEF WInv, BeginAppend
<1>2. PICK a, b, n : a = man.active /\ b = OlderWal /\ n = Len(hist)
  OBVIOUS
<1>3. /\ a \in Two /\ b \in Two /\ a # b /\ \A w \in Two : w = a \/ w = b
      /\ LastOf(a) = n /\ n \in 0 .. MaxSeq /\ man.ckpt \in Nat /\ man.ckpt <= n
      /\ header[a].first = man.ckpt + 1 /\ man.wgen[a] # 0
      /\ man.wgen[a] \in Nat /\ man.wgen[b] \in Nat /\ man.wgen[b] < man.wgen[a]
  BY <1>1, <1>2, ActiveFacts, HistFacts DEF HeaderInv
<1>4. next = n + 1 /\ t.count \in 1 .. MaxFrames /\ tail \in 0 .. Frames
  BY <1>1, <1>2 DEF CallInv, Transaction, ShapeInv
<1>5. PICK off \in Offsets(a) : Layout(a, off) /\ tail = off[LastOf(a) + 1]
  BY <1>1, <1>2, OpenSlot
<1>6. CASE t.count <= Frames - tail
  <2>1. UNCHANGED <<region, header, man, tail, next, hist>>
    BY <1>1, <1>6
  <2>2. ShapeInv'
    BY <1>1, <2>1 DEF ShapeInv
  <2>3. HeaderInv'
    BY <1>1, <2>1 DEF HeaderInv, OlderWal
  <2>4. FrameInv'
    BY <1>1, <2>1 DEF FrameInv
  <2>5. LastOf(a)' = LastOf(a)
    BY <2>1 DEF LastOf
  <2>6. off \in Offsets(a)' /\ Layout(a, off)'
    BY <1>5, <2>1, <2>5, KeptSlot
  <2>7. SlotInv'
    BY <1>1, <1>2, <1>5, <2>1, <2>5, <2>6, SlotsKept
  <2>8. tail + t.count <= Frames
    BY <1>4, <1>6
  <2>9. CallInv'
    BY <1>1, <1>4, <2>1, <2>8 DEF CallInv
  <2> QED
    BY <2>2, <2>3, <2>4, <2>7, <2>9 DEF WInv
<1>7. CASE ~(t.count <= Frames - tail)
  <2>1. PICK g : g = man.wgen[a] + 1
    OBVIOUS
  <2>2. /\ header' = [header EXCEPT ![b] = [gen |-> g, first |-> next]]
        /\ man' = [active |-> b, wgen |-> [man.wgen EXCEPT ![b] = g], ckpt |-> next - 1]
        /\ tail' = 0
    BY <1>1, <1>2, <1>7, <2>1 DEF Rotated, OlderWal
  <2>3. /\ header \in [Two -> [gen : Nat, first : 0 .. (MaxSeq + 1)]]
        /\ man.wgen \in [Two -> Nat]
    BY <1>1 DEF ShapeInv
  <2>4. /\ header'[b] = [gen |-> g, first |-> next] /\ header'[a] = header[a]
        /\ man'.active = b /\ man'.wgen[b] = g /\ man'.wgen[a] = man.wgen[a]
        /\ man'.ckpt = n /\ OlderWal' = a /\ g \in Nat /\ g # 0
    <3>1. header'[b] = [gen |-> g, first |-> next] /\ header'[a] = header[a]
      BY <1>3, <2>2, <2>3
    <3>2. man'.active = b /\ man'.ckpt = next - 1 /\ man'.wgen = [man.wgen EXCEPT ![b] = g]
      BY <2>2
    <3>3. man'.wgen[b] = g /\ man'.wgen[a] = man.wgen[a]
      BY <1>3, <2>3, <3>2
    <3>4. OlderWal' = a
      BY <1>3, <3>2 DEF OlderWal, Two
    <3>5. next - 1 = n /\ g \in Nat /\ g # 0
      BY <1>3, <1>4, <2>1
    <3> QED
      BY <3>1, <3>2, <3>3, <3>4, <3>5
  <2>5. ShapeInv'
    <3>1. [gen |-> g, first |-> next] \in [gen : Nat, first : 0 .. (MaxSeq + 1)]
      BY <1>3, <1>4, <2>4
    <3>2. header' \in [Two -> [gen : Nat, first : 0 .. (MaxSeq + 1)]]
      BY <2>2, <2>3, <3>1
    <3>3. man' \in [active : Two, wgen : [Two -> Nat], ckpt : 0 .. MaxSeq]
      BY <1>3, <1>4, <2>2, <2>3, <2>4
    <3> QED
      BY <1>1, <2>2, <3>2, <3>3 DEF ShapeInv
  <2>6. HeaderInv'
    <3>1. \A w \in Two : header'[w].gen = man'.wgen[w]
      BY <1>1, <1>3, <2>4 DEF HeaderInv
    <3>2. man'.wgen[a] < man'.wgen[b]
      BY <1>3, <2>1, <2>4
    <3>3. header'[b].first = n + 1 /\ header'[a].first \in 1 .. (n + 1)
      BY <1>3, <1>4, <2>4
    <3>4. OlderWal' = a /\ man'.active = b /\ man'.ckpt = n /\ man'.wgen[a] # 0
      BY <1>1, <1>2, <1>3, <2>4
    <3>5. man'.ckpt <= Len(hist)' /\ header'[man'.active].first = man'.ckpt + 1
      BY <1>1, <1>2, <1>3, <2>4, <3>3, <3>4
    <3> QED
      BY <3>1, <3>2, <3>3, <3>4, <3>5 DEF HeaderInv
  <2>7. ASSUME NEW p \in 1 .. Frames
        PROVE  /\ region[a][p].gen \in Nat /\ region[a][p].gen <= man.wgen[a]
               /\ region[b][p].gen \in Nat /\ region[b][p].gen < g
    <3>1. Junk.gen = 0
      BY DEF Junk
    <3>2. \A w \in Two : region[w][p].gen \in Nat
      BY <1>1, <3>1, FrameTypes
    <3>3. \A w \in Two : region[w][p].gen <= man.wgen[w]
      BY <1>1 DEF FrameInv
    <3> QED
      BY <1>3, <2>1, <3>2, <3>3
  <2>8. FrameInv'
    <3>1. \A w \in Two : \A p \in 1 .. Frames : region[w][p].gen <= man'.wgen[w]
      BY <1>3, <2>4, <2>7
    <3> QED
      BY <1>1, <3>1 DEF FrameInv
  <2>9. LastOf(a)' = LastOf(a) /\ LastOf(b)' = n
    <3>1. header'[b].first - 1 = n
      BY <1>3, <1>4, <2>4
    <3> QED
      BY <1>1, <1>2, <1>3, <2>4, <3>1 DEF LastOf
  <2>10. off \in Offsets(a)' /\ Layout(a, off)'
    BY <1>1, <1>5, <2>4, <2>9, KeptSlot
  <2>11. \E new \in Offsets(b)' : Layout(b, new)' /\ new[LastOf(b)' + 1] = 0
    <3>1. PICK new : new = [s \in (n + 1) .. (n + 1) |-> 0]
      OBVIOUS
    <3>2. header'[b].first = n + 1
      BY <1>4, <2>4
    <3>3. new \in Offsets(b)'
      BY <2>9, <3>1, <3>2 DEF Offsets
    <3>4. \A p \in 1 .. Frames : ~Current(b, p)'
      BY <1>1, <2>4, <2>7 DEF Current
    <3>5. header'[b].first .. LastOf(b)' = {} /\ new[n + 1] = 0
      BY <1>3, <2>9, <3>1, <3>2
    <3>6. Layout(b, new)'
      BY <3>2, <3>4, <3>5 DEF Layout
    <3> QED
      BY <2>9, <3>3, <3>5, <3>6
  <2>12. SlotInv'
    <3>1. SUFFICES ASSUME NEW w \in Two, man'.wgen[w] # 0
                   PROVE  \E new \in Offsets(w)' :
                             /\ Layout(w, new)'
                             /\ w = man'.active /\ pc' # "down" => tail' = new[LastOf(w)' + 1]
      BY DEF SlotInv
    <3>2. CASE w = a
      BY <1>3, <2>4, <2>10, <3>2
    <3>3. CASE w = b
      BY <2>2, <2>11, <3>3
    <3> QED
      BY <1>3, <3>2, <3>3
  <2>13. CallInv'
    <3>1. tail' + t.count <= Frames
      BY <1>4, <2>2
    <3> QED
      BY <1>1, <1>4, <1>2, <3>1 DEF CallInv
  <2> QED
    BY <2>5, <2>6, <2>8, <2>12, <2>13 DEF WInv
<1> QED
  BY <1>6, <1>7

\* The frame written next becomes f.
FrameBecomes(f) == region' = [region EXCEPT ![man.active][Position] = f]

\* The frame written next, whole or torn.
LEMMA OneFrame ==
    ASSUME ShapeInv, HeaderInv, FrameInv, SlotInv, CallInv, pc = "write", written < txn.count,
           NEW f, f = Junk \/ f = FrameOf(man.wgen[man.active], next, txn, written),
           FrameBecomes(f),
           UNCHANGED <<header, man, hist>>, NEW a, a = man.active
    PROVE  /\ region' \in [Two -> [1 .. Frames -> FrameRecord \cup {Junk}]]
           /\ FrameInv'
           /\ region'[OlderWal] = region[OlderWal]
           /\ \E off \in Offsets(a)' : Layout(a, off)' /\ tail = off[LastOf(a)' + 1]
           /\ region'[a][tail + written + 1] = f
           /\ \A i \in 1 .. written : region'[a][tail + i] = region[a][tail + i]
<1>1. /\ a \in Two /\ OlderWal \in Two /\ OlderWal # a /\ LastOf(a) = Len(hist)
      /\ Len(hist) \in Nat /\ man.wgen[a] \in Nat /\ man.wgen[a] # 0
  BY ActiveFacts
<1>2. /\ txn \in Transaction /\ next = Len(hist) + 1 /\ next <= MaxSeq
      /\ tail + txn.count <= Frames /\ written \in Nat /\ tail \in 0 .. Frames
  BY DEF CallInv, ShapeInv
<1>3. txn.count \in 1 .. MaxFrames /\ txn.payload \in Payloads
  BY <1>2 DEF Transaction
<1>4. PICK P : P = tail + written + 1
  OBVIOUS
<1>5. P \in 1 .. Frames /\ tail < P
  BY <1>2, <1>3, <1>4
<1>6. region' = [region EXCEPT ![a][P] = f]
  BY <1>4 DEF Position, FrameBecomes
<1>7. region \in [Two -> [1 .. Frames -> FrameRecord \cup {Junk}]]
  BY DEF ShapeInv
<1>8. region' = [region EXCEPT ![a] = [region[a] EXCEPT ![P] = f]]
  BY <1>6
<1>9. region[a] \in [1 .. Frames -> FrameRecord \cup {Junk}]
  BY <1>1, <1>7
<1>10. /\ region'[a] = [region[a] EXCEPT ![P] = f]
       /\ \A w \in Two : w # a => region'[w] = region[w]
  BY <1>1, <1>7, <1>8
<1>11. /\ region'[a][P] = f
       /\ \A p \in 1 .. Frames : p # P => region'[a][p] = region[a][p]
  BY <1>5, <1>9, <1>10
<1>12. f # Junk =>
          /\ f.gen = man.wgen[a] /\ f.seq = LastOf(a) + 1 /\ f.index = written
          /\ f.count = txn.count /\ f.sum = f.part
          /\ f \in FrameRecord
  <2>1. SUFFICES ASSUME f = FrameOf(man.wgen[a], next, txn, written)
                 PROVE  /\ f.gen = man.wgen[a] /\ f.seq = LastOf(a) + 1 /\ f.index = written
                        /\ f.count = txn.count /\ f.sum = f.part
                        /\ f \in FrameRecord
    OBVIOUS
  <2>2. next \in 1 .. MaxSeq /\ next = LastOf(a) + 1
    BY <1>1, <1>2
  <2>3. f = [gen |-> man.wgen[a], seq |-> next, index |-> written, count |-> txn.count,
             sum |-> txn.payload, part |-> txn.payload]
    BY <2>1 DEF FrameOf
  <2>4. f \in FrameRecord
    BY <1>1, <1>2, <1>3, <2>2, <2>3 DEF FrameRecord
  <2> QED
    BY <2>2, <2>3, <2>4
<1>13. region' \in [Two -> [1 .. Frames -> FrameRecord \cup {Junk}]]
  <2>1. f \in FrameRecord \cup {Junk}
    BY <1>12
  <2>2. [region[a] EXCEPT ![P] = f] \in [1 .. Frames -> FrameRecord \cup {Junk}]
    BY <1>9, <2>1
  <2> QED
    BY <1>7, <1>8, <2>2
<1>14. FrameInv'
  <2>1. SUFFICES ASSUME NEW w \in Two, NEW p \in 1 .. Frames
                 PROVE  /\ region'[w][p].gen <= man.wgen[w]
                        /\ region'[w][p] # Junk =>
                              /\ region'[w][p].index < region'[w][p].count
                              /\ region'[w][p].sum = region'[w][p].part
    BY DEF FrameInv
  <2>2. CASE w = a /\ p = P
    <3>1. Junk.gen = 0
      BY DEF Junk
    <3>2. region'[w][p] = f
      BY <1>11, <2>2
    <3>3. f.gen <= man.wgen[w]
      BY <1>1, <1>12, <2>2, <3>1
    <3> QED
      BY <1>12, <3>2, <3>3
  <2>3. CASE ~(w = a /\ p = P)
    <3>1. region'[w][p] = region[w][p]
      BY <1>10, <1>11, <2>3
    <3> QED
      BY <3>1 DEF FrameInv
  <2> QED
    BY <2>2, <2>3
<1>15. PICK off \in Offsets(a) : Layout(a, off) /\ tail = off[LastOf(a) + 1]
  BY OpenSlot
<1>16. off \in Offsets(a)' /\ Layout(a, off)'
  <2>1. off[LastOf(a) + 1] < P
    BY <1>5, <1>15
  <2>2. f # Junk => /\ f.seq = LastOf(a) + 1
                    /\ P = off[LastOf(a) + 1] + f.index + 1
                    /\ off[LastOf(a) + 1] + f.count <= Frames
    BY <1>2, <1>4, <1>12, <1>15
  <2> QED
    BY <1>5, <1>11, <1>15, <2>1, <2>2, FrameLayout
<1>17. LastOf(a)' = LastOf(a)
  BY DEF LastOf
<1>18. \A i \in 1 .. written : tail + i \in 1 .. Frames /\ tail + i # P
  <2>1. tail + written + 1 <= Frames
    BY <1>4, <1>5
  <2> QED
    BY <1>2, <1>4, <2>1
<1> QED
  BY <1>1, <1>4, <1>10, <1>11, <1>13, <1>14, <1>15, <1>16, <1>17, <1>18

LEMMA WriteKeeps ==
    ASSUME WInv, WriteFrame
    PROVE  WInv'
<1>1. /\ ShapeInv /\ HeaderInv /\ FrameInv /\ SlotInv /\ CallInv
      /\ pc = "write" /\ written < txn.count
      /\ region' = [region EXCEPT ![man.active][Position] = Frame(txn, written)]
      /\ written' = written + 1
      /\ UNCHANGED <<header, man, pc, tail, next, txn, hist>>
  BY DEF WInv, WriteFrame
<1>2. PICK a, f : a = man.active /\ f = FrameOf(man.wgen[man.active], next, txn, written)
  OBVIOUS
<1>3. FrameBecomes(f)
  BY <1>1, <1>2 DEF Frame, FrameOf, FrameBecomes
<1>4. /\ region' \in [Two -> [1 .. Frames -> FrameRecord \cup {Junk}]]
      /\ FrameInv'
      /\ region'[OlderWal] = region[OlderWal]
      /\ \E off \in Offsets(a)' : Layout(a, off)' /\ tail = off[LastOf(a)' + 1]
      /\ region'[a][tail + written + 1] = f
      /\ \A i \in 1 .. written : region'[a][tail + i] = region[a][tail + i]
  <2>1. /\ ShapeInv /\ HeaderInv /\ FrameInv /\ SlotInv /\ CallInv
        /\ pc = "write" /\ written < txn.count /\ UNCHANGED <<header, man, hist>>
    BY <1>1
  <2>2. a = man.active /\ (f = Junk \/ f = FrameOf(man.wgen[man.active], next, txn, written))
    BY <1>2
  <2> QED
    BY <1>3, <2>1, <2>2, OneFrame
<1>5. written \in Nat /\ tail \in Nat
  BY <1>1 DEF ShapeInv
<1>6. ShapeInv'
  <2>1. written' \in Nat
    BY <1>1, <1>5
  <2> QED
    BY <1>1, <1>4, <2>1 DEF ShapeInv
<1>7. HeaderInv'
  BY <1>1 DEF HeaderInv, OlderWal
<1>8. SlotInv'
  BY <1>1, <1>2, <1>4, SlotsKept
<1>9. CallInv'
  <2>1. /\ txn \in Transaction /\ tail + txn.count <= Frames
        /\ next <= MaxSeq /\ next = Len(hist) + 1
        /\ \A i \in 1 .. written :
              region[a][tail + i] = FrameOf(man.wgen[a], next, txn, i - 1)
    BY <1>1, <1>2 DEF CallInv
  <2>2. written' <= txn.count
    BY <1>1, <1>5, <2>1 DEF Transaction
  <2>3. ASSUME NEW i \in 1 .. written'
        PROVE  region'[a][tail + i] = FrameOf(man.wgen[a], next, txn, i - 1)
    <3>1. CASE i = written + 1
      <4>1. tail + i = tail + written + 1 /\ i - 1 = written
        BY <1>5, <3>1
      <4> QED
        BY <1>2, <1>4, <4>1
    <3>2. CASE i # written + 1
      <4>1. i \in 1 .. written
        BY <1>1, <1>5, <3>2
      <4> QED
        BY <1>4, <2>1, <4>1
    <3> QED
      BY <3>1, <3>2
  <2> QED
    BY <1>1, <1>2, <2>1, <2>2, <2>3 DEF CallInv
<1> QED
  BY <1>4, <1>6, <1>7, <1>8, <1>9 DEF WInv

LEMMA SyncKeeps ==
    ASSUME WInv, SyncFrames
    PROVE  WInv'
<1>1. /\ ShapeInv /\ HeaderInv /\ FrameInv /\ SlotInv /\ CallInv
      /\ pc = "write" /\ written = txn.count
      /\ tail' = tail + txn.count /\ next' = next + 1
      /\ hist' = Append(hist, Parts(txn))
      /\ pc' = "idle" /\ txn' = NoTransaction /\ written' = 0
      /\ UNCHANGED <<region, header, man>>
  BY DEF WInv, SyncFrames, AppendEnds
<1>2. PICK a, n : a = man.active /\ n = Len(hist)
  OBVIOUS
<1>3. /\ a \in Two /\ LastOf(a) = n /\ n \in 0 .. MaxSeq /\ man.ckpt \in Nat /\ man.ckpt <= n
  BY <1>1, <1>2, ActiveFacts, HistFacts
<1>4. /\ txn \in Transaction /\ next = n + 1 /\ next <= MaxSeq
      /\ tail + txn.count <= Frames /\ tail \in 0 .. Frames
      /\ \A i \in 1 .. txn.count : region[a][tail + i] = FrameOf(man.wgen[a], next, txn, i - 1)
  BY <1>1, <1>2 DEF CallInv, ShapeInv
<1>5. PICK off \in Offsets(a) : Layout(a, off) /\ tail = off[LastOf(a) + 1]
  BY <1>1, <1>2, OpenSlot
<1>6. Behind(a, off, txn)
  BY <1>3, <1>4, <1>5 DEF Behind
<1>7. PICK new \in Offsets(a)' :
         /\ Layout(a, new)'
         /\ new[LastOf(a)' + 1] = off[LastOf(a) + 1] + txn.count
  BY <1>1, <1>2, <1>4, <1>5, <1>6, CommittedLayout
<1>8. hist \in Seq(PartLists) /\ Parts(txn) \in PartLists
  BY <1>1, <1>4, HistFacts DEF PartLists
<1>9. /\ hist' \in Seq(PartLists) /\ Len(hist') = n + 1
      /\ \A s \in 1 .. n : hist'[s] = hist[s]
  BY <1>1, <1>2, <1>8
<1>10. tail' \in 0 .. Frames /\ next' \in 1 .. (MaxSeq + 1) /\ Len(hist') <= MaxSeq
  BY <1>1, <1>3, <1>4, <1>9 DEF Transaction
<1>11. ShapeInv'
  BY <1>1, <1>9, <1>10 DEF ShapeInv, PartLists
<1>12. HeaderInv'
  <2>1. man.ckpt <= Len(hist')
    BY <1>3, <1>9
  <2> QED
    BY <1>1, <2>1 DEF HeaderInv, OlderWal
<1>13. FrameInv'
  BY <1>1 DEF FrameInv
<1>14. SlotInv'
  <2>1. \A s \in 1 .. man.ckpt : hist'[s] = hist[s]
    BY <1>3, <1>9
  <2>2. tail' = new[LastOf(a)' + 1]
    BY <1>1, <1>5, <1>7
  <2> QED
    BY <1>1, <1>2, <1>7, <2>1, <2>2, SlotsKept
<1>15. CallInv'
  <2>1. next' = Len(hist') + 1
    BY <1>1, <1>4, <1>9
  <2> QED
    BY <1>1, <2>1 DEF CallInv
<1> QED
  BY <1>11, <1>12, <1>13, <1>14, <1>15 DEF WInv

\* An append that stops at any frame leaves the layout as it is.
LEMMA StoppedAppend ==
    ASSUME ShapeInv, HeaderInv, FrameInv, SlotInv, CallInv, pc = "write", FrameInFlight,
           UNCHANGED <<header, man, hist>>, NEW a, a = man.active
    PROVE  /\ region' \in [Two -> [1 .. Frames -> FrameRecord \cup {Junk}]]
           /\ FrameInv'
           /\ region'[OlderWal] = region[OlderWal]
           /\ \E off \in Offsets(a)' : Layout(a, off)' /\ tail = off[LastOf(a)' + 1]
<1>1. CASE UNCHANGED region
  <2>1. PICK off \in Offsets(a) : Layout(a, off) /\ tail = off[LastOf(a) + 1]
    BY OpenSlot
  <2>2. LastOf(a)' = LastOf(a)
    BY DEF LastOf
  <2>3. off \in Offsets(a)' /\ Layout(a, off)'
    BY <1>1, <2>1, <2>2, KeptSlot
  <2>4. FrameInv'
    BY <1>1 DEF FrameInv
  <2> QED
    BY <1>1, <2>1, <2>2, <2>3, <2>4 DEF ShapeInv
<1>2. CASE written < txn.count /\ region' = [region EXCEPT ![man.active][Position] = Junk]
  <2>1. PICK f : f = Junk
    OBVIOUS
  <2>2. FrameBecomes(f) /\ written < txn.count
    BY <1>2, <2>1 DEF FrameBecomes
  <2> QED
    BY <2>1, <2>2, OneFrame
<1> QED
  BY <1>1, <1>2 DEF FrameInFlight

LEMMA FailKeeps ==
    ASSUME WInv, AppendFails
    PROVE  WInv'
<1>1. /\ ShapeInv /\ HeaderInv /\ FrameInv /\ SlotInv /\ CallInv
      /\ pc = "write" /\ FrameInFlight
      /\ pc' = "idle" /\ txn' = NoTransaction /\ written' = 0
      /\ UNCHANGED <<header, man, tail, next, hist>>
  BY DEF WInv, AppendFails, AppendEnds
<1>2. PICK a : a = man.active
  OBVIOUS
<1>3. /\ region' \in [Two -> [1 .. Frames -> FrameRecord \cup {Junk}]]
      /\ FrameInv'
      /\ region'[OlderWal] = region[OlderWal]
      /\ \E off \in Offsets(a)' : Layout(a, off)' /\ tail = off[LastOf(a)' + 1]
  BY <1>1, <1>2, StoppedAppend
<1>4. ShapeInv'
  BY <1>1, <1>3 DEF ShapeInv
<1>5. HeaderInv'
  BY <1>1 DEF HeaderInv, OlderWal
<1>6. SlotInv'
  BY <1>1, <1>2, <1>3, SlotsKept
<1>7. CallInv'
  BY <1>1 DEF CallInv
<1> QED
  BY <1>3, <1>4, <1>5, <1>6, <1>7 DEF WInv

LEMMA CutKeeps ==
    ASSUME WInv, PowerCut
    PROVE  WInv'
<1>1. /\ ShapeInv /\ HeaderInv /\ FrameInv /\ SlotInv /\ CallInv
      /\ pc \in {"idle", "write"}
      /\ IF pc = "write" THEN FrameInFlight ELSE UNCHANGED region
      /\ pc' = "down" /\ tail' = 0 /\ next' = 1 /\ txn' = NoTransaction /\ written' = 0
      /\ UNCHANGED <<header, man, hist>>
  BY DEF WInv, PowerCut
<1>2. PICK a : a = man.active
  OBVIOUS
<1>3. /\ region' \in [Two -> [1 .. Frames -> FrameRecord \cup {Junk}]]
      /\ FrameInv'
      /\ region'[OlderWal] = region[OlderWal]
      /\ \E off \in Offsets(a)' : Layout(a, off)'
  <2>1. CASE pc = "write"
    BY <1>1, <1>2, <2>1, StoppedAppend
  <2>2. CASE pc = "idle"
    <3>1. UNCHANGED region
      BY <1>1, <2>2
    <3>2. PICK off \in Offsets(a) : Layout(a, off)
      BY <1>1, <1>2, <2>2, OpenSlot
    <3>3. LastOf(a)' = LastOf(a)
      BY <1>1 DEF LastOf
    <3>4. off \in Offsets(a)' /\ Layout(a, off)'
      BY <1>1, <3>1, <3>2, <3>3, KeptSlot
    <3>5. FrameInv'
      BY <1>1, <3>1 DEF FrameInv
    <3> QED
      BY <1>1, <3>1, <3>4, <3>5 DEF ShapeInv
  <2> QED
    BY <1>1, <2>1, <2>2
<1>4. ShapeInv'
  BY <1>1, <1>3 DEF ShapeInv
<1>5. HeaderInv'
  BY <1>1 DEF HeaderInv, OlderWal
<1>6. SlotInv'
  BY <1>1, <1>2, <1>3, SlotsKept
<1>7. CallInv'
  BY <1>1 DEF CallInv
<1> QED
  BY <1>3, <1>4, <1>5, <1>6, <1>7 DEF WInv

LEMMA StepKeeps ==
    ASSUME WInv, [Next]_vars
    PROVE  WInv'
<1>1. CASE UNCHANGED vars
  <2>1. UNCHANGED <<region, header, man, pc, tail, next, txn, written, hist>>
    BY <1>1 DEF vars
  <2>2. ShapeInv' /\ HeaderInv' /\ FrameInv' /\ CallInv'
    BY <2>1 DEF WInv, ShapeInv, HeaderInv, FrameInv, CallInv, OlderWal
  <2>3. ASSUME NEW w, NEW off
        PROVE  LastOf(w)' = LastOf(w) /\ Offsets(w)' = Offsets(w) /\ Layout(w, off)' = Layout(w, off)
    BY <2>1 DEF LastOf, Offsets, Layout, Current
  <2>4. SlotInv'
    BY <2>1, <2>3 DEF WInv, SlotInv
  <2> QED
    BY <2>2, <2>4 DEF WInv
<1> QED
  BY <1>1, RecoverKeeps, BeginKeeps, WriteKeeps, SyncKeeps, FailKeeps, CutKeeps DEF Next

\* The frames of the log are always laid out as WalInvariant.tla says: whatever
\* append_transaction_unsafe() was doing when it failed or the power was cut,
\* the committed transactions lie end to end, and behind them only frames of
\* attempts at the next one, each at its place.
THEOREM LogInductive == Spec => []WInv
<1>1. Init => WInv
  BY InitialLog
<1>2. WInv /\ [Next]_vars => WInv'
  BY StepKeeps
<1> QED
  BY <1>1, <1>2, PTL DEF Spec

\* The log has its type: sequences stay in their bound, and an append never
\* leaves the record region of its slot.
THEOREM LogTypes == Spec => []TypeOK
<1>1. WInv => TypeOK
  <2> SUFFICES ASSUME WInv PROVE TypeOK
    OBVIOUS
  <2>1. ShapeInv /\ CallInv
    BY DEF WInv
  <2>2. /\ region \in [Two -> [1 .. Frames -> FrameRecord \cup {Junk}]]
        /\ header \in [Two -> [gen : Nat, first : 0 .. (MaxSeq + 1)]]
        /\ man.active \in Two /\ man.ckpt \in 0 .. MaxSeq
        /\ tail \in 0 .. Frames /\ next \in 1 .. (MaxSeq + 1) /\ written \in Nat
    BY <2>1 DEF ShapeInv
  <2>3. written \in 0 .. txn.count /\ tail + txn.count <= Frames
    <3>1. CASE pc = "write"
      BY <2>1, <2>2, <3>1 DEF CallInv, Transaction
    <3>2. CASE pc # "write"
      <4>1. txn.count = 0 /\ written = 0
        BY <2>1, <3>2 DEF CallInv, NoTransaction
      <4> QED
        BY <2>2, <4>1
    <3> QED
      BY <3>1, <3>2
  <2> QED
    BY <2>1, <2>2, <2>3 DEF TypeOK, CallInv
<1> QED
  BY <1>1, LogInductive, PTL

\* A scan that accepts the log yields every transaction that commit() reported
\* durable, unchanged, and at most the interrupted one, whole.
THEOREM LogExact == Spec => []AcceptedScanExact
<1>1. WInv => AcceptedScanExact
  BY ExactScan DEF WInv
<1> QED
  BY <1>1, LogInductive, PTL

-----------------------------------------------------------------------------
(* Only leftover frames make the scan refuse the log.                      *)

\* Slot w holds no leftover frame.
Clean(w) == \A p \in 1 .. Frames : ~Leftover(w, p)

\* In a clean slot a frame with an index is preceded by the one before it.
LEMMA CleanStep ==
    ASSUME ShapeInv, NEW w \in Two, Clean(w), NEW p \in 1 .. Frames, Current(w, p),
           region[w][p].index > 0
    PROVE  /\ region[w][p].index < p
           /\ Continues(region[w][p - 1], region[w][p], region[w][p].index - 1)
<1>1. region[w][p].index \in Nat
  BY FrameTypes DEF Current
<1>2. ~Leftover(w, p)
  BY DEF Clean
<1> QED
  BY <1>1, <1>2 DEF Leftover, Current

\* So all frames of its transaction before it are there.
LEMMA CleanChain ==
    ASSUME ShapeInv, NEW w \in Two, man.wgen[w] # 0, Clean(w), NEW p \in 1 .. Frames, Current(w, p),
           NEW o \in Nat, p = o + region[w][p].index + 1,
           NEW j \in 0 .. region[w][p].index
    PROVE  Continues(region[w][o + j + 1], region[w][p], j)
<1>1. PICK f, x : f = region[w][p] /\ x = region[w][p].index
  OBVIOUS
<1>2. x \in Nat /\ f # Junk /\ f.gen = man.wgen[w] /\ p = o + x + 1 /\ f.index = x
  BY <1>1, FrameTypes DEF Current
<1> DEFINE P(d) == Continues(region[w][p - d], f, x - d)
           T == {d \in 0 .. x : ~P(d)}
<1>3. P(0)
  <2>1. p - 0 = p /\ x - 0 = x
    BY <1>2
  <2> QED
    BY <1>1, <1>2, <2>1 DEF Continues
<1>4. ASSUME NEW d \in 0 .. x, d # 0, P(d - 1) PROVE P(d)
  <2>1. PICK q, y : q = p - (d - 1) /\ y = x - (d - 1)
    OBVIOUS
  <2>2. q \in 1 .. Frames /\ y > 0 /\ q - 1 = p - d /\ y - 1 = x - d
    BY <1>2, <1>4, <2>1
  <2>3. PICK g, h : g = region[w][q] /\ h = region[w][q - 1]
    OBVIOUS
  <2>4. Continues(g, f, y)
    BY <1>4, <2>1, <2>3
  <2>5. Current(w, q) /\ region[w][q].index = y
    BY <1>2, <2>3, <2>4 DEF Continues, Current
  <2>6. Continues(h, g, y - 1)
    BY <2>2, <2>3, <2>5, CleanStep
  <2>7. Continues(h, f, y - 1)
    BY <2>4, <2>6 DEF Continues
  <2> QED
    BY <2>2, <2>3, <2>7
<1>5. T = {}
  <2> HIDE DEF P
  <2>1. SUFFICES ASSUME T # {} PROVE FALSE
    OBVIOUS
  <2>2. T \in SUBSET Nat
    BY <1>2
  <2>3. PICK d \in T : \A y \in T : d <= y
    BY <2>1, <2>2, LeastNatural
  <2>4. d # 0
    BY <1>3, <2>3
  <2>5. d - 1 \notin T /\ d - 1 \in 0 .. x
    BY <1>2, <2>3, <2>4
  <2>6. P(d)
    BY <1>4, <2>3, <2>4, <2>5
  <2> QED
    BY <2>3, <2>6
<1>6. PICK d : d = x - j
  OBVIOUS
<1>7. d \in 0 .. x /\ p - d = o + j + 1 /\ x - d = j
  <2>1. j \in 0 .. x
    BY <1>1
  <2> QED
    BY <1>2, <1>6, <2>1
<1>8. P(d)
  <2> HIDE DEF P
  <2> QED
    BY <1>5, <1>7
<1> QED
  BY <1>1, <1>7, <1>8

\* A current frame of the next transaction lies behind the committed ones.
LEMMA LaterOffset ==
    ASSUME ShapeInv, HeaderInv, NEW w \in Two, man.wgen[w] # 0,
           NEW off \in Offsets(w), Layout(w, off), NEW e, e = off[LastOf(w) + 1],
           NEW from \in Nat \ {0}, LaterFrame(w, from, LastOf(w) + 1)
    PROVE  \E p \in from .. Frames :
              /\ p \in 1 .. Frames /\ Current(w, p)
              /\ region[w][p].seq = LastOf(w) + 1
              /\ p = e + region[w][p].index + 1
<1>1. PICK p \in from .. Frames : /\ region[w][p] # Junk
                                  /\ region[w][p].gen = man.wgen[w]
                                  /\ region[w][p].seq >= LastOf(w) + 1
  BY DEF LaterFrame
<1>2. p \in 1 .. Frames /\ Current(w, p)
  BY <1>1 DEF Current
<1>3. LastOf(w) \in Nat /\ region[w][p].seq \in Nat
  BY <1>1, <1>2, SlotBounds, FrameTypes
<1>4. /\ region[w][p].seq \in header[w].first .. (LastOf(w) + 1)
      /\ p = off[region[w][p].seq] + region[w][p].index + 1
  BY <1>2 DEF Layout
<1>5. region[w][p].seq = LastOf(w) + 1
  BY <1>1, <1>3, <1>4
<1> QED
  BY <1>2, <1>4, <1>5

\* The last frame of the committed transactions.
LEMMA LastCommitted ==
    ASSUME ShapeInv, HeaderInv, NEW w \in Two, man.wgen[w] # 0,
           NEW off \in Offsets(w), Layout(w, off), NEW e, e = off[LastOf(w) + 1],
           header[w].first <= LastOf(w)
    PROVE  /\ e \in 1 .. Frames /\ region[w][e] # Junk
           /\ region[w][e].seq = LastOf(w)
           /\ off[LastOf(w)] = e - region[w][e].count
           /\ region[w][e].index = region[w][e].count - 1
           /\ region[w][e].count \in Nat
<1>1. PICK L : L = LastOf(w)
  OBVIOUS
<1>2. L \in 0 .. MaxSeq /\ header[w].first \in 1 .. (L + 1) /\ header[w].first <= L
  BY <1>1, SlotBounds
<1>3. L \in header[w].first .. LastOf(w)
  BY <1>1, <1>2
<1>4. PICK t \in Transaction :
         /\ off[L + 1] = off[L] + t.count
         /\ \A i \in 1 .. t.count : region[w][off[L] + i] = FrameOf(man.wgen[w], L, t, i - 1)
  BY <1>3 DEF Layout
<1>5. off[L] \in 0 .. Frames /\ e \in 0 .. Frames /\ t.count \in 1 .. MaxFrames
  BY <1>1, <1>2 DEF Offsets, Transaction
<1>6. e = off[L] + t.count /\ e \in 1 .. Frames /\ t.count \in 1 .. t.count /\ off[L] = e - t.count
  BY <1>1, <1>4, <1>5
<1>7. PICK f : f = region[w][e]
  OBVIOUS
<1>8. f = FrameOf(man.wgen[w], L, t, t.count - 1)
  BY <1>4, <1>6, <1>7
<1>9. f.gen = man.wgen[w] /\ f.seq = L /\ f.index = t.count - 1 /\ f.count = t.count
  BY <1>8 DEF FrameOf
<1>10. f # Junk
  BY <1>9 DEF Junk
<1>11. off[L] = e - f.count /\ f.index = f.count - 1 /\ f.count \in Nat
  BY <1>5, <1>6, <1>9
<1> QED
  BY <1>1, <1>6, <1>7, <1>9, <1>10, <1>11

\* A current frame behind the committed transactions of a clean slot belongs to
\* the next one.
LEMMA CleanNext ==
    ASSUME ShapeInv, HeaderInv, FrameInv, NEW w \in Two, man.wgen[w] # 0, Clean(w),
           NEW off \in Offsets(w), Layout(w, off), NEW e, e = off[LastOf(w) + 1],
           e # Frames, Current(w, e + 1)
    PROVE  Begins(w, e, LastOf(w) + 1)
<1>1. PICK L, f : L = LastOf(w) /\ f = region[w][e + 1]
  OBVIOUS
<1>2. L \in 0 .. MaxSeq /\ header[w].first \in 1 .. (L + 1)
  BY <1>1, SlotBounds
<1>3. e \in 0 .. Frames /\ e + 1 \in 1 .. Frames
  BY <1>1, <1>2 DEF Offsets
<1>4. /\ f.seq \in header[w].first .. (L + 1)
      /\ e + 1 = off[f.seq] + f.index + 1
      /\ off[f.seq] + f.count <= Frames
  BY <1>1, <1>3 DEF Layout
<1>5. f.index \in Nat /\ f.count \in Nat /\ f.index < f.count
  BY <1>1, <1>3, FrameTypes DEF Current, FrameInv
<1>6. off[f.seq] \in 0 .. Frames
  BY <1>1, <1>4 DEF Offsets
<1>7. CASE f.seq = L + 1
  <2>1. f.index = 0 /\ f.count <= Frames - e
    BY <1>1, <1>3, <1>4, <1>5, <1>7
  <2> QED
    BY <1>1, <1>3, <1>7, <2>1 DEF Begins
<1>8. CASE f.seq # L + 1
  <2>1. f.seq \in header[w].first .. L /\ header[w].first <= LastOf(w)
    BY <1>1, <1>2, <1>4, <1>8
  <2>2. PICK l : l = region[w][e]
    OBVIOUS
  <2>3. /\ e \in 1 .. Frames
        /\ l.seq = L /\ off[L] = e - l.count /\ l.index = l.count - 1 /\ l.count \in Nat
    BY <1>1, <2>1, <2>2, LastCommitted
  <2>4. f.index > 0
    <3>1. PICK t \in Transaction :
             off[f.seq + 1] = off[f.seq] + t.count /\ off[f.seq + 1] <= off[L + 1]
      BY <1>1, <2>1 DEF Layout
    <3>2. t.count \in Nat /\ t.count > 0 /\ off[L + 1] = e
      BY <1>1 DEF Transaction
    <3> QED
      BY <1>3, <1>4, <1>5, <1>6, <3>1, <3>2
  <2>5. Continues(l, f, f.index - 1)
    <3>1. (e + 1) - 1 = e
      BY <1>3
    <3>2. Continues(region[w][(e + 1) - 1], f, f.index - 1)
      BY <1>1, <1>3, <2>4, CleanStep
    <3> QED
      BY <2>2, <3>1, <3>2
  <2>6. l.seq = f.seq /\ l.count = f.count /\ l.index = f.index - 1
    BY <2>5 DEF Continues
  <2> QED
    BY <1>5, <2>3, <2>6
<1> QED
  BY <1>7, <1>8

\* A clean slot has no obstacle.
LEMMA NoObstacle ==
    ASSUME ShapeInv, HeaderInv, FrameInv, NEW w \in Two, man.wgen[w] # 0, Clean(w),
           NEW off \in Offsets(w), Layout(w, off), NEW e, e = off[LastOf(w) + 1]
    PROVE  ~Obstacle(w, e)
<1> SUFFICES ASSUME Obstacle(w, e) PROVE FALSE
  OBVIOUS
<1>1. PICK s, first : s = LastOf(w) + 1 /\ first = region[w][e + 1]
  OBVIOUS
<1>2. s \in 1 .. MaxSeq + 1 /\ header[w].first \in 1 .. s
  BY <1>1, SlotBounds
<1>3. e # Frames /\ e \in 0 .. Frames /\ e + 1 \in 1 .. Frames
  BY <1>1, <1>2 DEF Offsets, Obstacle
<1>4. ~(Current(w, e + 1) /\ ~Begins(w, e, s))
  BY <1>1, <1>3, CleanNext
\* A later frame of the next transaction has all the frames before it.
<1>5. ASSUME NEW q \in 1 .. Frames, e + 1 < q, LaterFrame(w, q, s)
      PROVE  \E g : /\ g # Junk /\ g.gen = man.wgen[w] /\ g.seq = s
                    /\ \A j \in 0 .. (q - e - 1) : Continues(region[w][e + j + 1], g, j)
  <2>1. PICK p \in q .. Frames :
           /\ p \in 1 .. Frames /\ Current(w, p)
           /\ region[w][p].seq = LastOf(w) + 1
           /\ p = e + region[w][p].index + 1
    BY <1>1, <1>5, LaterOffset
  <2>2. PICK g : g = region[w][p]
    OBVIOUS
  <2>3. g.index \in Nat
    BY <2>1, <2>2, FrameTypes DEF Current
  <2>4. \A j \in 0 .. (q - e - 1) : j \in 0 .. g.index
    BY <1>3, <1>5, <2>1, <2>2, <2>3
  <2>5. e \in Nat
    BY <1>3
  <2>6. \A j \in 0 .. g.index : Continues(region[w][e + j + 1], g, j)
    BY <2>1, <2>2, <2>5, CleanChain
  <2> QED
    BY <1>1, <2>1, <2>2, <2>4, <2>6 DEF Current
<1>6. CASE ~Current(w, e + 1) /\ LaterFrame(w, e + 2, s)
  <2>1. e + 2 \in 1 .. Frames
    <3>1. PICK p \in (e + 2) .. Frames : TRUE
      BY <1>6 DEF LaterFrame
    <3> QED
      BY <1>3, <3>1
  <2>2. PICK g : /\ g # Junk /\ g.gen = man.wgen[w] /\ g.seq = s
                 /\ \A j \in 0 .. (e + 2 - e - 1) : Continues(region[w][e + j + 1], g, j)
    BY <1>3, <1>5, <1>6, <2>1
  <2>3. 0 \in 0 .. (e + 2 - e - 1) /\ e + 0 + 1 = e + 1
    BY <1>3
  <2>4. Continues(region[w][e + 1], g, 0)
    BY <2>2, <2>3
  <2> QED
    BY <1>6, <2>2, <2>4 DEF Continues, Current
<1>7. ASSUME Begins(w, e, s), NEW b \in 1 .. first.count,
             ~Continues(region[w][e + b], first, b - 1), LaterFrame(w, e + b + 1, s)
      PROVE  FALSE
  <2>1. first.count \in Nat
    BY <1>1, <1>3, <1>7, FrameTypes DEF Begins, Current
  <2>2. e + b + 1 \in 1 .. Frames /\ e + 1 < e + b + 1
    <3>1. PICK p \in (e + b + 1) .. Frames : TRUE
      BY <1>7 DEF LaterFrame
    <3> QED
      BY <1>3, <2>1, <3>1
  <2>3. PICK q : q = e + b + 1
    OBVIOUS
  <2>4. q \in 1 .. Frames /\ e + 1 < q /\ LaterFrame(w, q, s)
    BY <1>7, <2>2, <2>3
  <2>5. PICK g : /\ g # Junk /\ g.gen = man.wgen[w] /\ g.seq = s
                 /\ \A j \in 0 .. (q - e - 1) : Continues(region[w][e + j + 1], g, j)
    BY <1>5, <2>4
  <2>6. /\ 0 \in 0 .. (q - e - 1) /\ e + 0 + 1 = e + 1
        /\ b - 1 \in 0 .. (q - e - 1) /\ e + (b - 1) + 1 = e + b
    BY <1>3, <2>1, <2>3
  <2>7. Continues(region[w][e + 1], g, 0) /\ Continues(region[w][e + b], g, b - 1)
    BY <2>5, <2>6
  <2>8. Continues(region[w][e + b], first, b - 1)
    BY <1>1, <2>7 DEF Continues
  <2> QED
    BY <1>7, <2>8
<1>8. ASSUME Begins(w, e, s), Complete(w, e), e + first.count < Frames,
             Current(w, e + first.count + 1)
      PROVE  FALSE
  <2>1. PICK c, q : c = first.count /\ q = e + c + 1
    OBVIOUS
  <2>2. c \in Nat /\ c > 0
    <3>1. e + 1 \in 1 .. Frames /\ first # Junk
      BY <1>1, <1>3, <1>8 DEF Begins, Current
    <3>2. first.count \in 1 .. MaxFrames
      BY <1>1, <3>1, FrameTypes
    <3> QED
      BY <2>1, <3>2
  <2>3. q \in 1 .. Frames /\ q - 1 = e + c /\ c \in 1 .. c
    BY <1>3, <1>8, <2>1, <2>2
  <2>4. PICK l, f : l = region[w][e + c] /\ f = region[w][q]
    OBVIOUS
  <2>5. Continues(l, first, c - 1) /\ first.seq = s
    BY <1>1, <1>8, <2>1, <2>3, <2>4 DEF Complete, Begins
  <2>6. Current(w, q)
    BY <1>8, <2>1
  <2>7. /\ f.seq \in header[w].first .. s
        /\ q = off[f.seq] + f.index + 1
    BY <1>1, <2>3, <2>4, <2>6 DEF Layout
  <2>8. f.index \in Nat /\ f.count \in Nat /\ f.index < f.count
    BY <2>3, <2>4, <2>6, FrameTypes DEF Current, FrameInv
  <2>9. f.index > 0 => f.seq = s /\ f.count = c
    <3>1. SUFFICES ASSUME f.index > 0 PROVE f.seq = s /\ f.count = c
      OBVIOUS
    <3>2. Continues(l, f, f.index - 1)
      BY <2>3, <2>4, <2>6, <3>1, CleanStep
    <3> QED
      BY <2>1, <2>5, <3>2 DEF Continues
  <2>10. CASE f.seq = s
    <3>1. f.index = c
      BY <1>1, <1>3, <2>1, <2>2, <2>7, <2>8, <2>10
    <3> QED
      BY <2>2, <2>8, <2>9, <3>1
  <2>11. CASE f.seq # s
    <3>1. f.index = 0
      BY <2>8, <2>9, <2>11
    <3>2. f.seq \in header[w].first .. LastOf(w)
      BY <1>1, <1>2, <2>7, <2>11, SlotBounds
    <3>3. PICK t \in Transaction :
             off[f.seq + 1] = off[f.seq] + t.count /\ off[f.seq + 1] <= off[LastOf(w) + 1]
      BY <3>2 DEF Layout
    <3>4. t.count \in Nat /\ off[f.seq] \in 0 .. Frames
      BY <1>1, <2>7 DEF Transaction, Offsets
    <3> QED
      BY <1>3, <2>1, <2>2, <2>7, <3>1, <3>3, <3>4
  <2> QED
    BY <2>10, <2>11
<1> QED
  BY <1>1, <1>3, <1>4, <1>6, <1>7, <1>8 DEF Obstacle

\* In a clean older slot the log ends with the committed transactions: the next
\* one is in the active slot.
LEMMA OlderEnds ==
    ASSUME ShapeInv, HeaderInv, FrameInv, NEW w \in Two, w # man.active, man.wgen[w] # 0, Clean(w),
           NEW off \in Offsets(w), NEW t \in Transaction
    PROVE  ~Behind(w, off, t)
<1> SUFFICES ASSUME Behind(w, off, t) PROVE FALSE
  OBVIOUS
<1>1. PICK e, s : e = off[LastOf(w) + 1] /\ s = LastOf(w) + 1
  OBVIOUS
<1>2. LastOf(w) \in 0 .. MaxSeq /\ header[w].first \in 1 .. s
  BY <1>1, SlotBounds
<1>3. e \in 0 .. Frames /\ t.count \in 1 .. MaxFrames /\ e + t.count <= Frames
  BY <1>1, <1>2 DEF Offsets, Behind, Transaction
<1>4. e + t.count \in 1 .. Frames /\ t.count \in 1 .. t.count
  BY <1>3
<1>5. PICK f, p : p = e + t.count /\ f = region[w][p]
  OBVIOUS
<1>6. f = FrameOf(man.wgen[w], s, t, t.count - 1)
  BY <1>1, <1>4, <1>5 DEF Behind
<1>7. f.gen = man.wgen[w] /\ f.seq = s /\ f.index = t.count - 1 /\ f.count = t.count
  BY <1>6 DEF FrameOf
<1>8. f # Junk
  BY <1>7 DEF Junk
<1>9. s >= header[man.active].first /\ f.index = f.count - 1
  <2>1. s = (header[man.active].first - 1) + 1
    BY <1>1 DEF LastOf
  <2>2. header[man.active].first \in Nat
    BY DEF ShapeInv
  <2> QED
    BY <1>7, <2>1, <2>2
<1>10. Leftover(w, p)
  BY <1>5, <1>7, <1>8, <1>9 DEF Leftover
<1> QED
  BY <1>4, <1>5, <1>10 DEF Clean

\* A log without leftover frames is accepted.
LEMMA CleanAccepted ==
    ASSUME ShapeInv, HeaderInv, FrameInv, SlotInv, \A w \in Two : Clean(w)
    PROVE  Recovery.ok
<1>1. PICK a, b, n, c : a = man.active /\ b = OlderWal /\ n = Len(hist) /\ c = man.ckpt
  OBVIOUS
<1>2. /\ a \in Two /\ b \in Two /\ a # b /\ man.wgen[a] # 0 /\ n \in Nat /\ c \in Nat /\ c <= n
      /\ LastOf(a) = n /\ LastOf(b) = c /\ header[a].first = c + 1
  BY <1>1, ActiveFacts
<1>3. \A w \in Two : header[w].gen = man.wgen[w]
  BY DEF HeaderInv
<1>4. PICK off \in Offsets(a) : Layout(a, off)
  BY <1>2 DEF SlotInv
<1>5. PICK y : y = Scan(a)[0][c + 1]
  OBVIOUS
<1>6. y.ok /\ c < y.next
  <2>1. SlotYields(a, off, y)
    BY <1>2, <1>4, <1>5, SlotScan
  <2>2. ~Obstacle(a, off[LastOf(a) + 1])
    BY <1>2, <1>4, NoObstacle
  <2>3. y.ok
    BY <2>1, <2>2 DEF SlotYields
  <2>4. y.next = n + 1 \/ y.next = n + 2
    BY <1>2, <2>1, <2>3 DEF SlotYields
  <2> QED
    BY <1>2, <2>3, <2>4
<1>7. ScanSlot(a, c + 1) = y
  BY <1>2, <1>3, <1>5 DEF ScanSlot
<1>8. CASE man.wgen[b] = 0
  <2>1. FirstWal = a
    BY <1>1, <1>8 DEF FirstWal
  <2>2. Recovery.ok = (y.ok /\ y.ok /\ c + 1 <= c + 1 /\ c < y.next)
    BY <1>1, <1>2, <1>7, <2>1 DEF Recovery
  <2>3. c + 1 <= c + 1
    BY <1>2
  <2> QED
    BY <1>6, <2>2, <2>3, Zenon
<1>9. CASE man.wgen[b] # 0
  <2>1. FirstWal = b
    BY <1>1, <1>9 DEF FirstWal
  <2>2. PICK f, x : f = header[b].first /\ x = Scan(b)[0][f]
    OBVIOUS
  <2>3. f \in 1 .. (c + 1)
    BY <1>1, <1>2, <1>9, <2>2 DEF HeaderInv
  <2>4. PICK old \in Offsets(b) : Layout(b, old)
    BY <1>2, <1>9 DEF SlotInv
  <2>5. SlotYields(b, old, x)
    BY <1>2, <1>9, <2>2, <2>4, SlotScan
  <2>6. ~Obstacle(b, old[LastOf(b) + 1])
    BY <1>2, <1>9, <2>4, NoObstacle
  <2>7. x.ok
    BY <2>5, <2>6 DEF SlotYields
  <2>8. \A t \in Transaction : ~Behind(b, old, t)
    BY <1>1, <1>2, <1>9, <2>4, OlderEnds
  <2>9. x.next = c + 1
    BY <1>2, <2>5, <2>7, <2>8 DEF SlotYields
  <2>10. ScanSlot(b, f) = x
    BY <1>2, <1>3, <2>2 DEF ScanSlot
  <2>11. Recovery.ok = (x.ok /\ y.ok /\ f <= c + 1 /\ c < y.next)
    BY <1>1, <1>2, <1>7, <2>1, <2>2, <2>9, <2>10 DEF Recovery
  <2>12. f <= c + 1
    BY <2>3
  <2> QED
    BY <1>6, <2>7, <2>11, <2>12, Zenon
<1> QED
  BY <1>8, <1>9

\* Whatever appends were cut or failed at whatever frame, and however often the
\* log changed slots: scan_wal_slot() refuses the log only if a leftover frame of
\* an abandoned append is in it.
THEOREM LogAccepted == Spec => []RefusedOnlyForLeftovers
<1>1. WInv => RefusedOnlyForLeftovers
  BY CleanAccepted DEF WInv, RefusedOnlyForLeftovers, Clean
<1> QED
  BY <1>1, LogInductive, PTL

=============================================================================
