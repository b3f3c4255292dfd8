-------------------------- MODULE ValueReaderProofs --------------------------
(***************************************************************************)
(* Proofs about the value reader, for every chunk size and every set of    *)
(* value sizes: the cursor and the buffer stay within the value, the       *)
(* checksum covers the prefix before the cursor, what is handed out is the *)
(* value's as long as no read failed, and a checksum error is never        *)
(* reported for a pass over the value's own bytes.                         *)
(***************************************************************************)
EXTENDS ValueReader, TLAPS

USE ChunkUnitsAssumption, SizesAssumption

\* The state has its types, sharper than TypeOK where the proofs need it.
ShapeInv ==
    /\ size \in Nat
    /\ cursor \in 0 .. size
    /\ buffer \in [Units -> {Junk} \cup 0 .. size]
    /\ offset \in 0 .. size /\ held \in 0 .. ChunkUnits /\ offset + held <= size
    /\ sum \in Seq(Int) /\ Len(sum) <= size
    /\ got \in [from : Nat, units : Seq(Int)]

\* Only a value in a value bank has a checksum.
FlagInv ==
    /\ external \in BOOLEAN /\ summing \in BOOLEAN /\ failed \in BOOLEAN
    /\ summing => external

\* The call in progress: what is left of a consume_value() lies before the
\* end of the value, and what a read_value_into() has handed out ends at the
\* cursor.
CallInv ==
    /\ call \in [op : {"none", "consume", "read"}, left : 0 .. size]
    /\ call.op = "none" => call = Idle
    /\ call.op = "consume" => call.left <= size - cursor
    /\ call.op = "read" => got.from + Len(got.units) = cursor
    /\ call # Idle => ret = "ok"

\* The described part of the buffer holds the value's units, in place; a
\* failed read may have left junk instead, but nothing of another place.
BufferInv ==
    \A u \in Units : u < held =>
        buffer[u] = offset + u \/ (failed /\ buffer[u] = Junk)

\* So does the checksum, which covers the prefix while it is enabled.
SumInv ==
    /\ summing => Len(sum) = cursor
    /\ \A j \in 1 .. Len(sum) : sum[j] = j - 1 \/ sum[j] = Junk

GotInv ==
    ~failed => \A j \in 1 .. Len(got.units) : got.units[j] = got.from + j - 1

RInv == ShapeInv /\ FlagInv /\ CallInv /\ BufferInv /\ SumInv /\ GotInv /\ NoFalseAlarm

-----------------------------------------------------------------------------
\* The chunk of a place reaches beyond it, by at most the size of a chunk.
LEMMA ChunkBounds ==
    ASSUME NEW c \in Nat
    PROVE  LET e == (c \div ChunkUnits + 1) * ChunkUnits
           IN  e \in Nat /\ c < e /\ e <= c + ChunkUnits
<1>1. PICK q : q = c \div ChunkUnits
  OBVIOUS
<1>2. q \in Nat
  BY <1>1
<1>3. PICK p : p = q * ChunkUnits
  OBVIOUS
<1>4. p \in Nat /\ p <= c /\ c < p + ChunkUnits
  BY <1>1, <1>2, <1>3
<1>5. (q + 1) * ChunkUnits = p + ChunkUnits
  BY <1>2, <1>3
<1> QED
  BY <1>1, <1>4, <1>5

\* A part of the buffer, as a sequence.
LEMMA PartIsSequence ==
    ASSUME NEW n \in Nat, NEW f \in [1 .. n -> Int]
    PROVE  f \in Seq(Int) /\ Len(f) = n
OBVIOUS

\* Appending a sequence.
LEMMA Concatenation ==
    ASSUME NEW s \in Seq(Int), NEW p \in Seq(Int)
    PROVE  /\ s \o p \in Seq(Int) /\ Len(s \o p) = Len(s) + Len(p)
           /\ \A j \in 1 .. Len(s) : (s \o p)[j] = s[j]
           /\ \A j \in 1 .. (Len(s) + Len(p)) : j > Len(s) => (s \o p)[j] = p[j - Len(s)]
OBVIOUS

\* What the buffer holds from the cursor on lies within the value and within
\* the buffer.
LEMMA BufferedPart ==
    ASSUME RInv, InBuffer, NEW n \in Nat, n <= Available
    PROVE  /\ BufferPart(n) \in Seq(Int) /\ Len(BufferPart(n)) = n
           /\ cursor + n <= size
           /\ \A j \in 1 .. n : \/ BufferPart(n)[j] = cursor + j - 1
                                \/ failed /\ BufferPart(n)[j] = Junk
<1>1. /\ size \in Nat /\ cursor \in Nat /\ offset \in Nat /\ held \in Nat /\ held <= ChunkUnits
      /\ offset + held <= size /\ buffer \in [Units -> {Junk} \cup 0 .. size]
  BY DEF RInv, ShapeInv
<1>2. offset <= cursor /\ cursor < offset + held /\ n <= held - (cursor - offset)
  BY DEF InBuffer, Available
<1>3. \A j \in 1 .. n : cursor - offset + j - 1 \in Units /\ cursor - offset + j - 1 < held
  BY <1>1, <1>2 DEF Units
<1>4. \A j \in 1 .. n : BufferPart(n)[j] = buffer[cursor - offset + j - 1]
  BY DEF BufferPart
<1>5. ASSUME NEW j \in 1 .. n
      PROVE  /\ BufferPart(n)[j] \in Int
             /\ \/ BufferPart(n)[j] = cursor + j - 1
                \/ failed /\ BufferPart(n)[j] = Junk
  <2>1. PICK u : u = cursor - offset + j - 1
    OBVIOUS
  <2>2. u \in Units /\ u < held /\ BufferPart(n)[j] = buffer[u]
    BY <1>3, <1>4, <2>1
  <2>3. offset + u = cursor + j - 1
    BY <1>1, <2>1
  <2>4. buffer[u] = offset + u \/ (failed /\ buffer[u] = Junk)
    BY <2>2 DEF RInv, BufferInv
  <2>5. buffer[u] \in Int
    BY <1>1, <2>2 DEF Junk
  <2> QED
    BY <2>2, <2>3, <2>4, <2>5
<1>6. BufferPart(n) \in [1 .. n -> Int]
  <2>1. DOMAIN BufferPart(n) = 1 .. n /\ BufferPart(n) = [j \in 1 .. n |-> BufferPart(n)[j]]
    BY DEF BufferPart
  <2> QED
    BY <1>5, <2>1
<1>7. BufferPart(n) \in Seq(Int) /\ Len(BufferPart(n)) = n
  BY <1>6, PartIsSequence
<1>8. cursor + n <= size
  BY <1>1, <1>2
<1> QED
  BY <1>5, <1>7, <1>8

\* A filled buffer holds the rest of the cursor's chunk.
LEMMA FilledBuffer ==
    ASSUME RInv, cursor < size, FillSucceeds
    PROVE  /\ offset' = cursor /\ held' \in 1 .. ChunkUnits /\ cursor + held' <= size
           /\ buffer' \in [Units -> {Junk} \cup 0 .. size]
           /\ \A u \in Units : u < held' => buffer'[u] = cursor + u
           /\ failed' = failed
           /\ held' \in 0 .. ChunkUnits /\ offset' \in 0 .. size /\ offset' + held' <= size
<1>1. size \in Nat /\ cursor \in Nat /\ cursor \in 0 .. size
  BY DEF RInv, ShapeInv
<1>2. PICK e : e = ChunkEnd
  OBVIOUS
<1>3. e \in Nat /\ cursor < e /\ e <= cursor + ChunkUnits /\ e <= size
  <2>1. PICK g : g = (cursor \div ChunkUnits + 1) * ChunkUnits
    OBVIOUS
  <2>2. g \in Nat /\ cursor < g /\ g <= cursor + ChunkUnits
    BY <1>1, <2>1, ChunkBounds
  <2>3. e = IF g < size THEN g ELSE size
    BY <1>2, <2>1 DEF ChunkEnd
  <2> QED
    BY <1>1, <2>2, <2>3
<1>4. offset' = cursor /\ held' = e - cursor /\ failed' = failed
  BY <1>2 DEF FillSucceeds
<1>5. buffer' = [u \in Units |-> IF u < e - cursor THEN cursor + u ELSE Junk]
  BY <1>2 DEF FillSucceeds
<1>6. held' \in 1 .. ChunkUnits /\ cursor + held' <= size
  BY <1>1, <1>3, <1>4
<1>7. \A u \in Units : u < e - cursor => cursor + u \in 0 .. size
  BY <1>1, <1>3 DEF Units
<1>8. held' \in 0 .. ChunkUnits
  BY <1>6
<1>9. offset' \in 0 .. size /\ offset' + held' <= size
  BY <1>1, <1>4, <1>6
<1> QED
  BY <1>4, <1>5, <1>6, <1>7, <1>8, <1>9

\* A failed read leaves the description of the buffer, and junk at worst.
LEMMA FailedFill ==
    ASSUME RInv, FillFails
    PROVE  ShapeInv /\ BufferInv' /\ buffer' \in [Units -> {Junk} \cup 0 .. size]
           /\ failed' = TRUE /\ UNCHANGED <<offset, held>>
<1>1. buffer' = [u \in Units |-> Junk] \/ buffer' = buffer
  BY DEF FillFails
<1>2. failed' = TRUE /\ UNCHANGED <<offset, held>>
  BY DEF FillFails
<1> QED
  BY <1>1, <1>2 DEF RInv, ShapeInv, BufferInv

-----------------------------------------------------------------------------
(* RInv is inductive.                                                      *)

\* An opened value has the reader at its beginning.
LEMMA InitRInv == Init => RInv
<1>1. SUFFICES ASSUME Init PROVE RInv
  OBVIOUS
<1>2. /\ size \in Nat /\ external \in BOOLEAN /\ cursor = 0 /\ offset = 0 /\ sum = <<>>
      /\ call = Idle /\ ret = "ok" /\ got = Nothing /\ failed = FALSE /\ summing = external
      /\ ~external => size <= ChunkUnits
      /\ held = IF external THEN 0 ELSE size
      /\ buffer = [u \in Units |-> IF ~external /\ u < size THEN u ELSE Junk]
  BY <1>1 DEF Init
<1>3. held \in 0 .. ChunkUnits /\ held <= size
  BY <1>2
<1>4. buffer \in [Units -> {Junk} \cup 0 .. size]
  BY <1>2 DEF Units
<1>5. got \in [from : Nat, units : Seq(Int)] /\ Len(got.units) = 0
  BY <1>2 DEF Nothing
<1>6. ShapeInv /\ FlagInv
  <2>1. sum \in Seq(Int) /\ Len(sum) = 0
    BY <1>2
  <2>2. ShapeInv
    BY <1>2, <1>3, <1>4, <1>5, <2>1 DEF ShapeInv
  <2>3. FlagInv
    BY <1>2 DEF FlagInv
  <2> QED
    BY <2>2, <2>3
<1>7. CallInv
  BY <1>2 DEF CallInv, Idle
<1>8. BufferInv
  BY <1>2 DEF BufferInv, Units
<1>9. SumInv /\ GotInv /\ NoFalseAlarm
  BY <1>2, <1>5 DEF SumInv, GotInv, NoFalseAlarm
<1> QED
  BY <1>6, <1>7, <1>8, <1>9 DEF RInv

\* peek_value() hands out what the buffer holds and moves nothing.
LEMMA PeekStep ==
    ASSUME RInv, peek_value
    PROVE  RInv'
<1>1. /\ call = Idle /\ UNCHANGED <<external, size, cursor, summing, sum, call>>
  BY DEF peek_value, state
<1>2. ShapeInv /\ CallInv /\ BufferInv /\ SumInv /\ GotInv
  BY DEF RInv
<1>3. size \in Nat /\ cursor \in Nat /\ held \in Nat /\ offset \in Nat
  BY <1>2 DEF ShapeInv
<1>4. CallInv'
  BY <1>1, <1>2 DEF CallInv, Idle
<1>5. SumInv'
  BY <1>1, <1>2 DEF SumInv
<1>6. NoFalseAlarm'
  <2>1. ret' \in {"ok", "error"}
    BY DEF peek_value
  <2> QED
    BY <2>1 DEF NoFalseAlarm
<1>7. FlagInv'
  <2>1. failed' = failed \/ failed' = TRUE
    BY DEF peek_value, FillSucceeds, FillFails
  <2>2. external \in BOOLEAN /\ summing \in BOOLEAN /\ failed \in BOOLEAN /\ (summing => external)
    BY DEF RInv, FlagInv
  <2> QED
    BY <1>1, <2>1, <2>2 DEF FlagInv
<1>8. Nothing \in [from : Nat, units : Seq(Int)] /\ Len(Nothing.units) = 0
  BY DEF Nothing
<1>9. CASE cursor < size /\ ~InBuffer /\ FillSucceeds /\
            got' = [from |-> cursor, units |-> [j \in 1 .. held' |-> buffer'[j - 1]]]
  <2>1. /\ offset' = cursor /\ held' \in 1 .. ChunkUnits /\ cursor + held' <= size
        /\ buffer' \in [Units -> {Junk} \cup 0 .. size]
        /\ \A u \in Units : u < held' => buffer'[u] = cursor + u
        /\ failed' = failed
        /\ held' \in 0 .. ChunkUnits /\ offset' \in 0 .. size /\ offset' + held' <= size
    BY <1>9, FilledBuffer
  <2>2. PICK n, p : n = held' /\ p = [j \in 1 .. held' |-> buffer'[j - 1]]
    OBVIOUS
  <2>3. n \in Nat /\ \A j \in 1 .. n : p[j] = cursor + j - 1
    <3>1. n \in 1 .. ChunkUnits
      BY <2>1, <2>2
    <3>2. ASSUME NEW j \in 1 .. n PROVE p[j] = cursor + j - 1
      <4>1. j - 1 \in Units /\ j - 1 < n
        BY <3>1 DEF Units
      <4>2. p[j] = buffer'[j - 1]
        BY <2>2
      <4>3. buffer'[j - 1] = cursor + (j - 1)
        BY <2>1, <2>2, <4>1
      <4> QED
        BY <1>3, <4>2, <4>3
    <3> QED
      BY <3>1, <3>2
  <2>4. p \in [1 .. n -> Int]
    <3>1. DOMAIN p = 1 .. n /\ p = [j \in 1 .. n |-> p[j]]
      BY <2>2
    <3> QED
      BY <1>3, <2>3, <3>1
  <2>5. p \in Seq(Int) /\ Len(p) = n
    BY <2>3, <2>4, PartIsSequence
  <2>6. got' = [from |-> cursor, units |-> p]
    BY <1>9, <2>2
  <2>7. got'.from = cursor /\ got'.units = p /\ got' \in [from : Nat, units : Seq(Int)]
    BY <1>3, <2>5, <2>6
  <2>8. ShapeInv'
    <3>1. /\ size' = size /\ cursor' = cursor /\ sum' = sum
          /\ size \in Nat /\ cursor \in 0 .. size /\ sum \in Seq(Int) /\ Len(sum) <= size
      BY <1>1, <1>2 DEF ShapeInv
    <3>2. held' \in 0 .. ChunkUnits /\ offset' \in 0 .. size /\ offset' + held' <= size
      BY <2>1
    <3>3. buffer' \in [Units -> {Junk} \cup 0 .. size']
      BY <2>1, <3>1
    <3>4. offset' \in 0 .. size' /\ offset' + held' <= size' /\ cursor' \in 0 .. size'
          /\ Len(sum') <= size'
      BY <3>1, <3>2
    <3> QED
      BY <2>7, <3>1, <3>2, <3>3, <3>4 DEF ShapeInv
  <2>9. BufferInv'
    BY <2>1 DEF BufferInv
  <2>10. GotInv'
    BY <2>3, <2>5, <2>7 DEF GotInv
  <2> QED
    BY <1>4, <1>5, <1>6, <1>7, <2>8, <2>9, <2>10 DEF RInv
<1>10. CASE cursor < size /\ ~InBuffer /\ FillFails /\ got' = Nothing
  <2>1. /\ BufferInv' /\ buffer' \in [Units -> {Junk} \cup 0 .. size]
        /\ failed' = TRUE /\ UNCHANGED <<offset, held>>
    BY <1>10, FailedFill
  <2>2. ShapeInv'
    BY <1>1, <1>2, <1>8, <1>10, <2>1 DEF ShapeInv
  <2>3. GotInv'
    BY <2>1 DEF GotInv
  <2> QED
    BY <1>4, <1>5, <1>6, <1>7, <2>1, <2>2, <2>3 DEF RInv
<1>11. CASE InBuffer /\ got' = [from |-> cursor, units |-> BufferPart(Available)]
             /\ UNCHANGED <<buffer, offset, held, failed>>
  <2>1. PICK n : n = Available
    OBVIOUS
  <2>2. n \in Nat /\ n <= Available
    BY <1>3, <1>11, <2>1 DEF InBuffer, Available
  <2>3. PICK p : p = BufferPart(n)
    OBVIOUS
  <2>4. /\ p \in Seq(Int) /\ Len(p) = n
        /\ \A j \in 1 .. n : p[j] = cursor + j - 1 \/ (failed /\ p[j] = Junk)
    BY <1>11, <2>2, <2>3, BufferedPart
  <2>5. got' = [from |-> cursor, units |-> p]
    BY <1>11, <2>1, <2>3
  <2>6. got'.from = cursor /\ got'.units = p /\ got' \in [from : Nat, units : Seq(Int)]
    BY <1>3, <2>4, <2>5
  <2>7. ShapeInv' /\ BufferInv'
    BY <1>1, <1>2, <1>11, <2>6 DEF ShapeInv, BufferInv
  <2>8. GotInv'
    BY <1>11, <2>4, <2>6 DEF GotInv
  <2> QED
    BY <1>4, <1>5, <1>6, <1>7, <2>7, <2>8 DEF RInv
<1>12. CASE got' = Nothing /\ UNCHANGED <<buffer, offset, held, failed>>
  <2>1. ShapeInv' /\ BufferInv'
    BY <1>1, <1>2, <1>8, <1>12 DEF ShapeInv, BufferInv
  <2>2. GotInv'
    BY <1>8, <1>12 DEF GotInv
  <2> QED
    BY <1>4, <1>5, <1>6, <1>7, <2>1, <2>2 DEF RInv
<1> QED
  BY <1>9, <1>10, <1>11, <1>12 DEF peek_value

\* Beginning a call moves nothing either.
LEMMA BeginStep ==
    ASSUME RInv, NEW n \in 0 .. size, begin_consume(n) \/ begin_read(n)
    PROVE  RInv'
<1>1. /\ UNCHANGED <<external, size, cursor, buffer, offset, held, summing, sum, failed>>
      /\ ret' = "ok"
  BY DEF begin_consume, begin_read, state
<1>2. ShapeInv /\ BufferInv /\ SumInv
  BY DEF RInv
<1>4. /\ got' \in [from : Nat, units : Seq(Int)] /\ Len(got'.units) = 0
      /\ begin_consume(n) \/ got'.from = cursor
  <2>1. cursor \in Nat
    BY <1>2 DEF ShapeInv
  <2>2. CASE begin_consume(n)
    BY <2>2 DEF begin_consume, Nothing
  <2>3. CASE begin_read(n)
    <3>1. got' = [from |-> cursor, units |-> <<>>]
      BY <2>3 DEF begin_read
    <3> QED
      BY <2>1, <3>1
  <2> QED
    BY <2>2, <2>3
<1>5. ShapeInv' /\ BufferInv' /\ SumInv'
  BY <1>1, <1>2, <1>4 DEF ShapeInv, BufferInv, SumInv
<1>6. CallInv'
  <2>1. CASE begin_consume(n)
    <3>1. call' = [op |-> "consume", left |-> n] /\ n <= size - cursor
      BY <2>1 DEF begin_consume
    <3> QED
      BY <1>1, <3>1 DEF CallInv
  <2>2. CASE ~begin_consume(n)
    <3>1. call' = [op |-> "read", left |-> n]
      BY <2>2 DEF begin_read
    <3>2. got'.from + Len(got'.units) = cursor
      BY <1>2, <1>4, <2>2 DEF ShapeInv
    <3> QED
      BY <1>1, <3>1, <3>2 DEF CallInv
  <2> QED
    BY <2>1, <2>2
<1>7. GotInv' /\ NoFalseAlarm'
  BY <1>1, <1>4 DEF GotInv, NoFalseAlarm
<1>8. FlagInv'
  BY <1>1 DEF RInv, FlagInv
<1> QED
  BY <1>5, <1>6, <1>7, <1>8 DEF RInv

\* A turn that reads a chunk moves neither the cursor nor the checksum.
LEMMA FillStep ==
    ASSUME RInv, Fill
    PROVE  RInv'
<1>1. /\ Looping /\ UNCHANGED <<external, size, cursor, summing, sum, got>>
  BY DEF Fill, state
<1>2. ShapeInv /\ FlagInv /\ CallInv /\ BufferInv /\ SumInv /\ GotInv /\ NoFalseAlarm
  BY DEF RInv
<1>3. /\ size \in Nat /\ cursor \in 0 .. size /\ sum \in Seq(Int) /\ Len(sum) <= size
      /\ got \in [from : Nat, units : Seq(Int)]
  BY <1>2 DEF ShapeInv
<1>4. cursor < size
  <2>1. call.left > 0 /\ (call.op = "consume" \/ cursor < size)
    BY <1>1 DEF Looping
  <2>2. call.left \in Nat /\ (call.op = "consume" => call.left <= size - cursor)
    BY <1>2 DEF CallInv
  <2> QED
    BY <1>3, <2>1, <2>2
<1>5. SumInv'
  BY <1>1, <1>2 DEF SumInv
<1>6. CASE FillSucceeds /\ UNCHANGED <<call, ret>>
  <2>1. /\ offset' = cursor /\ held' \in 1 .. ChunkUnits /\ cursor + held' <= size
        /\ buffer' \in [Units -> {Junk} \cup 0 .. size]
        /\ \A u \in Units : u < held' => buffer'[u] = cursor + u
        /\ failed' = failed
        /\ held' \in 0 .. ChunkUnits /\ offset' \in 0 .. size /\ offset' + held' <= size
    BY <1>4, <1>6, FilledBuffer
  <2>2. ShapeInv'
    <3>1. held' \in 0 .. ChunkUnits /\ offset' \in 0 .. size /\ offset' + held' <= size
      BY <2>1
    <3> QED
      BY <1>1, <1>3, <2>1, <3>1 DEF ShapeInv
  <2>3. FlagInv' /\ CallInv' /\ GotInv' /\ NoFalseAlarm'
    BY <1>1, <1>2, <1>6, <2>1 DEF FlagInv, CallInv, GotInv, NoFalseAlarm
  <2>4. BufferInv'
    BY <2>1 DEF BufferInv
  <2> QED
    BY <1>5, <2>2, <2>3, <2>4 DEF RInv
<1>7. CASE FillFails /\ call' = Idle /\ ret' = "error"
  <2>1. /\ BufferInv' /\ buffer' \in [Units -> {Junk} \cup 0 .. size]
        /\ failed' = TRUE /\ UNCHANGED <<offset, held>>
    BY <1>7, FailedFill
  <2>2. ShapeInv'
    BY <1>1, <1>2, <2>1 DEF ShapeInv
  <2>3. FlagInv' /\ GotInv' /\ NoFalseAlarm'
    BY <1>1, <1>2, <1>7, <2>1 DEF FlagInv, GotInv, NoFalseAlarm
  <2>4. CallInv'
    BY <1>1, <1>3, <1>7 DEF CallInv, Idle
  <2> QED
    BY <1>5, <2>1, <2>2, <2>3, <2>4 DEF RInv
<1> QED
  BY <1>6, <1>7 DEF Fill

\* A turn that takes units from the buffer takes those at the cursor.
LEMMA AdvanceStep ==
    ASSUME RInv, Advance
    PROVE  RInv'
<1>1. Looping /\ InBuffer /\ UNCHANGED <<external, size, buffer, offset, held, summing, ret, failed>>
  BY DEF Advance, state
<1>2. ShapeInv /\ FlagInv /\ CallInv /\ BufferInv /\ SumInv /\ GotInv
  BY DEF RInv
<1>3. /\ size \in Nat /\ cursor \in Nat /\ held \in Nat /\ offset \in Nat /\ sum \in Seq(Int)
      /\ Len(sum) <= size /\ Len(sum) \in Nat
      /\ got.from \in Nat /\ got.units \in Seq(Int) /\ Len(got.units) \in Nat
      /\ got = [from |-> got.from, units |-> got.units]
  BY <1>2 DEF ShapeInv
<1>4. /\ call.op \in {"consume", "read"} /\ call.left \in 0 .. size /\ call.left > 0
      /\ call = [op |-> call.op, left |-> call.left]
      /\ call.op = "consume" => call.left <= size - cursor
      /\ call.op = "read" => got.from + Len(got.units) = cursor
  BY <1>1, <1>2 DEF Looping, CallInv
<1>5. PICK n : n = IF Available < call.left THEN Available ELSE call.left
  OBVIOUS
<1>6. n \in Nat /\ n > 0 /\ n <= Available /\ n <= call.left
  BY <1>1, <1>3, <1>4, <1>5 DEF InBuffer, Available
<1>7. PICK p : p = BufferPart(n)
  OBVIOUS
<1>8. /\ p \in Seq(Int) /\ Len(p) = n /\ cursor + n <= size
      /\ \A j \in 1 .. n : p[j] = cursor + j - 1 \/ (failed /\ p[j] = Junk)
  BY <1>1, <1>6, <1>7, BufferedPart
<1>9. /\ cursor' = cursor + n
      /\ call' = [call EXCEPT !.left = @ - n]
      /\ sum' = IF external /\ summing THEN sum \o p ELSE sum
      /\ got' = IF call.op = "read" THEN [got EXCEPT !.units = @ \o p] ELSE got
  BY <1>5, <1>7 DEF Advance
<1>10. call'.op = call.op /\ call'.left = call.left - n /\ call' = [op |-> call.op, left |-> call.left - n]
  BY <1>4, <1>9
<1>11. ASSUME NEW t \in Seq(Int), NEW u \in Seq(Int), u = t \o p
       PROVE  /\ Len(u) = Len(t) + n
              /\ \A j \in 1 .. Len(u) :
                    \/ j \in 1 .. Len(t) /\ u[j] = t[j]
                    \/ /\ j - Len(t) \in 1 .. n
                       /\ \/ u[j] = cursor + (j - Len(t)) - 1
                          \/ failed /\ u[j] = Junk
  <2>1. PICK l : l = Len(t)
    OBVIOUS
  <2>2. l \in Nat /\ Len(u) = l + n
    <3>1. Len(t \o p) = Len(t) + Len(p)
      BY <1>8, Concatenation
    <3>2. Len(t) \in Nat
      OBVIOUS
    <3> QED
      BY <1>8, <1>11, <2>1, <3>1, <3>2
  <2>3. /\ \A j \in 1 .. l : u[j] = t[j]
        /\ \A j \in 1 .. (l + n) : j > l => u[j] = p[j - l]
    BY <1>8, <1>11, <2>1, Concatenation
  <2>4. ASSUME NEW j \in 1 .. (l + n)
        PROVE  \/ j \in 1 .. l /\ u[j] = t[j]
               \/ /\ j - l \in 1 .. n
                  /\ u[j] = cursor + (j - l) - 1 \/ (failed /\ u[j] = Junk)
    <3>1. CASE j <= l
      <4>1. j \in 1 .. l
        BY <2>2, <3>1
      <4> QED
        BY <2>3, <4>1
    <3>2. CASE j > l
      <4>1. PICK i : i = j - l
        OBVIOUS
      <4>2. i \in 1 .. n
        BY <1>6, <2>2, <3>2, <4>1
      <4>3. u[j] = p[i]
        BY <2>3, <3>2, <4>1
      <4> QED
        BY <1>8, <4>1, <4>2, <4>3
    <3> QED
      BY <2>2, <3>1, <3>2
  <2> QED
    BY <2>1, <2>2, <2>4
<1>12. sum' \in Seq(Int) /\ Len(sum') <= size /\ SumInv'
  <2>1. CASE summing
    <3>1. external /\ Len(sum) = cursor /\ sum' = sum \o p
      BY <1>2, <1>9, <2>1 DEF FlagInv, SumInv
    <3>2. PICK t, u : t = sum /\ u = sum'
      OBVIOUS
    <3>3. t \in Seq(Int) /\ u \in Seq(Int) /\ u = t \o p /\ Len(t) = cursor
      BY <1>3, <1>8, <3>1, <3>2, Concatenation
    <3>4. Len(u) = cursor + n
      BY <1>11, <3>3
    <3>5. ASSUME NEW j \in 1 .. Len(u) PROVE u[j] = j - 1 \/ u[j] = Junk
      <4>1. CASE j \in 1 .. cursor /\ u[j] = t[j]
        BY <1>2, <3>1, <3>2, <4>1 DEF SumInv
      <4>2. CASE u[j] = cursor + (j - cursor) - 1
        BY <1>3, <3>4, <4>2
      <4> QED
        BY <1>11, <3>3, <4>1, <4>2
    <3>6. Len(sum') = cursor'
      BY <1>9, <3>2, <3>4
    <3> QED
      BY <1>8, <3>2, <3>3, <3>4, <3>5, <3>6 DEF SumInv
  <2>2. CASE ~summing
    <3>1. sum' = sum /\ ~summing'
      BY <1>1, <1>9, <2>2
    <3> QED
      BY <1>2, <1>3, <3>1 DEF SumInv
  <2> QED
    BY <2>1, <2>2
<1>13. /\ got' \in [from : Nat, units : Seq(Int)] /\ GotInv'
       /\ call.op = "read" => got'.from + Len(got'.units) = cursor'
  <2>1. CASE call.op = "read"
    <3>1. got.from + Len(got.units) = cursor
      BY <1>4, <2>1
    <3>2. got' = [from |-> got.from, units |-> got.units \o p]
      BY <1>3, <1>9, <2>1
    <3>3. PICK t, u, f : t = got.units /\ u = got.units \o p /\ f = got.from
      OBVIOUS
    <3>4. t \in Seq(Int) /\ u \in Seq(Int) /\ u = t \o p /\ Len(t) \in Nat /\ f \in Nat
      BY <1>3, <1>8, <3>3, Concatenation
    <3>5. got'.from = f /\ got'.units = u /\ got' \in [from : Nat, units : Seq(Int)]
      BY <3>2, <3>3, <3>4
    <3>6. Len(u) = Len(t) + n /\ f + Len(t) = cursor
      BY <1>11, <3>1, <3>3, <3>4
    <3>7. f + Len(u) = cursor'
      BY <1>6, <1>9, <3>4, <3>6
    <3>8. ASSUME ~failed, NEW j \in 1 .. Len(u) PROVE u[j] = f + j - 1
      <4>1. CASE j \in 1 .. Len(t) /\ u[j] = t[j]
        BY <1>2, <3>3, <3>8, <4>1 DEF GotInv
      <4>2. CASE u[j] = cursor + (j - Len(t)) - 1
        <5>1. cursor + (j - Len(t)) - 1 = f + j - 1
          BY <3>4, <3>6
        <5> QED
          BY <4>2, <5>1
      <4> QED
        BY <1>11, <3>4, <3>8, <4>1, <4>2
    <3> QED
      BY <1>1, <3>5, <3>7, <3>8 DEF GotInv
  <2>2. CASE call.op # "read"
    <3>1. got' = got
      BY <1>9, <2>2
    <3> QED
      BY <1>1, <1>2, <2>2, <3>1 DEF GotInv, ShapeInv
  <2> QED
    BY <2>1, <2>2
<1>14. ShapeInv'
  <2>1. cursor' \in 0 .. size
    BY <1>3, <1>6, <1>8, <1>9
  <2>2. /\ buffer \in [Units -> {Junk} \cup 0 .. size]
        /\ offset \in 0 .. size /\ held \in 0 .. ChunkUnits /\ offset + held <= size
    BY <1>2 DEF ShapeInv
  <2> QED
    BY <1>1, <1>3, <1>12, <1>13, <2>1, <2>2 DEF ShapeInv
<1>15. CallInv'
  <2>1. call.left - n \in 0 .. size /\ (call.op = "consume" => call.left - n <= size - (cursor + n))
    BY <1>3, <1>4, <1>6
  <2>2. ret = "ok"
    BY <1>2, <1>4 DEF CallInv, Idle
  <2> QED
    BY <1>1, <1>4, <1>9, <1>10, <1>13, <2>1, <2>2 DEF CallInv
<1>16. FlagInv' /\ BufferInv'
  BY <1>1, <1>2 DEF FlagInv, BufferInv
<1>17. NoFalseAlarm'
  BY <1>1, <1>2, <1>4 DEF NoFalseAlarm, CallInv, Idle
<1> QED
  BY <1>12, <1>13, <1>14, <1>15, <1>16, <1>17 DEF RInv

\* The end of a call compares a checksum that covers the whole value.
LEMMA FinishStep ==
    ASSUME RInv, Finish
    PROVE  RInv'
<1>1. /\ call # Idle /\ ~Looping
      /\ UNCHANGED <<external, size, buffer, offset, held, summing, sum, got, failed>>
      /\ cursor' = IF call.op = "consume" THEN cursor + call.left ELSE cursor
      /\ call' = Idle
      /\ ret' = IF external /\ summing /\ cursor' = size /\ sum # Whole THEN "crc" ELSE "ok"
  BY DEF Finish, state
<1>2. ShapeInv /\ FlagInv /\ CallInv /\ BufferInv /\ SumInv /\ GotInv
  BY DEF RInv
<1>3. /\ size \in Nat /\ cursor \in 0 .. size /\ sum \in Seq(Int)
      /\ call.left \in 0 .. size /\ (call.op = "consume" => call.left <= size - cursor)
  BY <1>2 DEF ShapeInv, CallInv
<1>4. cursor' \in 0 .. size
  BY <1>1, <1>3
<1>5. summing => cursor' = cursor
  <2>1. CASE call.op = "consume" /\ summing
    <3>1. external
      BY <1>2, <2>1 DEF FlagInv
    <3>2. ~(call.left > 0)
      BY <1>1, <2>1, <3>1 DEF Looping
    <3> QED
      BY <1>1, <1>3, <2>1, <3>2
  <2> QED
    BY <1>1, <2>1
<1>6. ShapeInv' /\ FlagInv' /\ BufferInv' /\ GotInv'
  BY <1>1, <1>2, <1>4 DEF ShapeInv, FlagInv, BufferInv, GotInv
<1>7. CallInv'
  BY <1>1, <1>3 DEF CallInv, Idle
<1>8. SumInv'
  BY <1>1, <1>2, <1>5 DEF SumInv
<1>9. NoFalseAlarm'
  <2>1. SUFFICES ASSUME ret' = "crc" PROVE \E j \in 1 .. Len(sum) : sum[j] = Junk
    BY <1>1 DEF NoFalseAlarm
  <2>2. summing /\ cursor' = size /\ sum # Whole
    BY <1>1, <2>1
  <2>3. Len(sum) = size
    BY <1>2, <1>5, <2>2 DEF SumInv
  <2>4. SUFFICES ASSUME \A j \in 1 .. size : sum[j] # Junk PROVE FALSE
    BY <2>3
  <2>5. \A j \in 1 .. size : sum[j] = j - 1
    BY <1>2, <2>3, <2>4 DEF SumInv
  <2>6. DOMAIN sum = 1 .. size /\ sum = [j \in 1 .. size |-> sum[j]]
    BY <1>3, <2>3
  <2>7. sum = Whole
    BY <2>5, <2>6 DEF Whole
  <2> QED
    BY <2>2, <2>7
<1> QED
  BY <1>6, <1>7, <1>8, <1>9 DEF RInv

\* A seek keeps the checksum only where it still covers the prefix.
LEMMA SeekStep ==
    ASSUME RInv, NEW o \in 0 .. size, seek_value(o)
    PROVE  RInv'
<1>1. /\ call = Idle /\ UNCHANGED <<external, size, buffer, offset, held, call, failed>>
      /\ summing' = (external /\ (o = 0 \/ (summing /\ o = cursor)))
      /\ sum' = IF external /\ o = 0 THEN <<>> ELSE sum
      /\ cursor' = o /\ ret' = "ok" /\ got' = Nothing
  BY DEF seek_value, state
<1>2. ShapeInv /\ FlagInv /\ CallInv /\ BufferInv /\ SumInv
  BY DEF RInv
<1>3. Nothing \in [from : Nat, units : Seq(Int)] /\ Len(Nothing.units) = 0
  BY DEF Nothing
<1>4. size \in Nat /\ sum \in Seq(Int) /\ Len(sum) <= size
  BY <1>2 DEF ShapeInv
<1>5. sum' \in Seq(Int) /\ Len(sum') <= size /\ SumInv'
  <2>1. CASE external /\ o = 0
    <3>1. sum' = <<>> /\ Len(sum') = 0 /\ cursor' = 0
      BY <1>1, <2>1
    <3> QED
      BY <1>4, <3>1 DEF SumInv
  <2>2. CASE ~(external /\ o = 0)
    <3>1. sum' = sum /\ (summing' => summing /\ cursor' = cursor)
      BY <1>1, <2>2
    <3> QED
      BY <1>2, <1>4, <3>1 DEF SumInv
  <2> QED
    BY <2>1, <2>2
<1>6. ShapeInv'
  <2>1. cursor' \in 0 .. size
    BY <1>1
  <2>2. /\ buffer \in [Units -> {Junk} \cup 0 .. size]
        /\ offset \in 0 .. size /\ held \in 0 .. ChunkUnits /\ offset + held <= size
    BY <1>2 DEF ShapeInv
  <2> QED
    BY <1>1, <1>3, <1>4, <1>5, <2>1, <2>2 DEF ShapeInv
<1>7. FlagInv'
  <2>1. external \in BOOLEAN /\ failed \in BOOLEAN
    BY <1>2 DEF FlagInv
  <2>2. summing' \in BOOLEAN /\ (summing' => external)
    BY <1>1, <2>1
  <2> QED
    BY <1>1, <2>1, <2>2 DEF FlagInv
<1>8. CallInv'
  BY <1>1, <1>4 DEF CallInv, Idle
<1>9. BufferInv' /\ GotInv' /\ NoFalseAlarm'
  BY <1>1, <1>2, <1>3 DEF BufferInv, GotInv, NoFalseAlarm
<1> QED
  BY <1>5, <1>6, <1>7, <1>8, <1>9 DEF RInv

\* RInv is an inductive invariant of the reader.
THEOREM ReaderInductive == Spec => []RInv
<1>1. RInv /\ [Next]_vars => RInv'
  <2>1. SUFFICES ASSUME RInv, [Next]_vars PROVE RInv'
    OBVIOUS
  <2>2. CASE Next
    BY <2>1, <2>2, PeekStep, BeginStep, FillStep, AdvanceStep, FinishStep, SeekStep DEF Next
  <2>3. CASE UNCHANGED vars
    BY <2>1, <2>3 DEF vars, RInv, ShapeInv, FlagInv, CallInv, BufferInv, SumInv, GotInv,
       NoFalseAlarm
  <2> QED
    BY <2>1, <2>2, <2>3
<1> QED
  BY <1>1, InitRInv, PTL DEF Spec

\* The cursor, the described part of the buffer and the checksum stay within
\* the value.
THEOREM ReaderTypes == Spec => []TypeOK
<1>1. RInv => TypeOK
  BY DEF RInv, ShapeInv, CallInv, TypeOK
<1> QED
  BY <1>1, ReaderInductive, PTL

\* consume_value(), read_value_into() and seek_value() keep the enabled
\* checksum at the bytes before the cursor, also when calls fail on the way.
THEOREM ChecksumExact == Spec => []ChecksumCoversPrefix
<1>1. RInv => ChecksumCoversPrefix
  BY DEF RInv, SumInv, ChecksumCoversPrefix
<1> QED
  BY <1>1, ReaderInductive, PTL

\* Until a read fails, peek_value() and read_value_into() hand out what the
\* value holds at that place.
THEOREM DeliveryExact == Spec => []ExactUntilFailure
<1>1. RInv => ExactUntilFailure
  BY DEF RInv, GotInv, ExactUntilFailure, DeliveredExact
<1> QED
  BY <1>1, ReaderInductive, PTL

\* A checksum error is reported only for a pass that read junk.
THEOREM AlarmsGenuine == Spec => []NoFalseAlarm
<1>1. RInv => NoFalseAlarm
  BY DEF RInv
<1> QED
  BY <1>1, ReaderInductive, PTL

=============================================================================
