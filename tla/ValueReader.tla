----------------------------- MODULE ValueReader -----------------------------
(***************************************************************************)
(* One open value reader: its cursor, its one-chunk buffer and the rolling *)
(* checksum of an ordered pass, under any sequence of peek, consume, read  *)
(* and seek calls.  The value's bytes are grouped into units; unit j holds *)
(* the number j, so that a byte out of place shows.  A loop of the code    *)
(* takes one step per turn; the operation lock keeps other calls out.      *)
(***************************************************************************)
EXTENDS Integers, Sequences

CONSTANTS
    ChunkUnits,   \* value_chunk_payload_size, in units
    Sizes,        \* sizes of values, in units; up to ChunkUnits also inline
    ReadsFail     \* whether reading a chunk may fail

ASSUME ChunkUnitsAssumption == ChunkUnits \in Nat \ {0}
ASSUME SizesAssumption == Sizes \subseteq Nat
ASSUME ReadsFailAssumption == ReadsFail \in BOOLEAN

VARIABLES
    external,    \* the value lies in a value bank, not in the WAL or a table
    size,        \* value_size
    cursor,
    buffer,      \* the reader's part of value_reader_buffers
    offset,      \* buffer_value_offset
    held,        \* buffer_size
    summing,     \* checksum_enabled
    sum,         \* checksum_state: the units it covers, in order
    call,        \* the call in progress and what it still has to do
    ret,         \* what the last call returned
    got,         \* the units it handed out and the place of the first
    failed       \* observation: reading a chunk has failed since open_value()

vars == <<external, size, cursor, buffer, offset, held, summing, sum, call, ret, got,
          failed>>

state == <<external, size>>

Junk  == -1
Units == 0 .. (ChunkUnits - 1)
Idle  == [op |-> "none", left |-> 0]
Nothing == [from |-> 0, units |-> <<>>]

Whole == [j \in 1 .. size |-> j - 1]

\* open_value_unsafe(): an inline value is copied into the buffer.
Init ==
    /\ size \in Sizes
    /\ external \in BOOLEAN
    /\ ~external => size <= ChunkUnits
    /\ external => size > 0
    /\ cursor = 0
    /\ buffer = [u \in Units |-> IF ~external /\ u < size THEN u ELSE Junk]
    /\ offset = 0
    /\ held = IF external THEN 0 ELSE size
    /\ summing = external
    /\ sum = <<>>
    /\ call = Idle
    /\ ret = "ok"
    /\ got = Nothing
    /\ failed = FALSE

-----------------------------------------------------------------------------
\* A faulty variant of InBuffer: the place behind the last unit counts.
InBufferInclusive == offset <= cursor /\ cursor <= offset + held

InBuffer == offset <= cursor /\ cursor < offset + held

\* Units that the buffer holds from the cursor on.
Available == held - (cursor - offset)

BufferPart(n) == [j \in 1 .. n |-> buffer[cursor - offset + j - 1]]

ChunkEnd ==
    LET end == (cursor \div ChunkUnits + 1) * ChunkUnits
    IN  IF end < size THEN end ELSE size

\* Faulty variants of FillSucceeds: the buffer starts with the chunk, not at
\* the cursor; the last chunk is taken for a full one.
FillFromChunkStart ==
    /\ external
    /\ offset' = cursor
    /\ held' = ChunkEnd - cursor
    /\ buffer' = [u \in Units |->
                    IF u < ChunkEnd - cursor
                    THEN (cursor \div ChunkUnits) * ChunkUnits + u ELSE Junk]
    /\ UNCHANGED failed

FillFullChunk ==
    /\ external
    /\ offset' = cursor
    /\ held' = ChunkUnits - (cursor % ChunkUnits)
    /\ buffer' = [u \in Units |->
                    IF cursor + u < size THEN cursor + u ELSE Junk]
    /\ UNCHANGED failed

\* fill_reader_buffer_unsafe(): the rest of the cursor's chunk moves to the
\* front of the buffer.  An inline value is all there and is never filled.
FillSucceeds ==
    /\ external
    /\ offset' = cursor
    /\ held' = ChunkEnd - cursor
    /\ buffer' = [u \in Units |->
                    IF u < ChunkEnd - cursor THEN cursor + u ELSE Junk]
    /\ UNCHANGED failed

\* The chunk is read into the buffer before it is verified; when either step
\* fails, offset and size go on describing what was there before.
FillFails ==
    /\ external /\ ReadsFail
    /\ \/ buffer' = [u \in Units |-> Junk]
       \/ UNCHANGED buffer
    /\ failed' = TRUE
    /\ UNCHANGED <<offset, held>>

-----------------------------------------------------------------------------
peek_value ==
    /\ call = Idle
    /\ \/ /\ cursor < size /\ ~InBuffer
          /\ \/ /\ FillSucceeds
                /\ ret' = "ok"
                /\ got' = [from |-> cursor,
                           units |-> [j \in 1 .. held' |-> buffer'[j - 1]]]
             \/ FillFails /\ ret' = "error" /\ got' = Nothing
       \/ /\ cursor < size /\ InBuffer
          /\ ret' = "ok"
          /\ got' = [from |-> cursor, units |-> BufferPart(Available)]
          /\ UNCHANGED <<buffer, offset, held, failed>>
       \/ /\ cursor >= size
          /\ ret' = "ok"
          /\ got' = Nothing
          /\ UNCHANGED <<buffer, offset, held, failed>>
    /\ UNCHANGED <<state, cursor, summing, sum, call>>

begin_consume(n) ==
    /\ call = Idle
    /\ n <= size - cursor
    /\ call' = [op |-> "consume", left |-> n]
    /\ got' = Nothing
    /\ ret' = "ok"
    /\ UNCHANGED <<state, cursor, buffer, offset, held, summing, sum, failed>>

begin_read(n) ==
    /\ call = Idle
    /\ call' = [op |-> "read", left |-> n]
    /\ got' = [from |-> cursor, units |-> <<>>]
    /\ ret' = "ok"
    /\ UNCHANGED <<state, cursor, buffer, offset, held, summing, sum, failed>>

\* Whether the loop of consume_value() or read_value_into() goes on.
Looping ==
    /\ call.left > 0
    /\ \/ call.op = "consume" /\ external /\ summing
       \/ call.op = "read" /\ cursor < size

Fill ==
    /\ Looping /\ ~InBuffer
    /\ \/ FillSucceeds /\ UNCHANGED <<call, ret>>
       \/ FillFails /\ call' = Idle /\ ret' = "error"
    /\ UNCHANGED <<state, cursor, summing, sum, got>>

Advance ==
    /\ Looping /\ InBuffer
    /\ LET n == IF Available < call.left THEN Available ELSE call.left
       IN  /\ cursor' = cursor + n
           /\ call' = [call EXCEPT !.left = @ - n]
           /\ sum' = IF external /\ summing THEN sum \o BufferPart(n) ELSE sum
           /\ got' = IF call.op = "read"
                     THEN [got EXCEPT !.units = @ \o BufferPart(n)] ELSE got
    /\ UNCHANGED <<state, buffer, offset, held, summing, ret, failed>>

\* What is left to consume is skipped, and a pass that arrives at the end of
\* the value compares the checksum.
Finish ==
    /\ call # Idle /\ ~Looping
    /\ cursor' = IF call.op = "consume" THEN cursor + call.left ELSE cursor
    /\ ret' = IF external /\ summing /\ cursor' = size /\ sum # Whole
              THEN "crc" ELSE "ok"
    /\ call' = Idle
    /\ UNCHANGED <<state, buffer, offset, held, summing, sum, got, failed>>

\* A faulty variant of seek_value: the checksum goes on.
seek_value_summing(o) ==
    /\ call = Idle
    /\ o <= size
    /\ cursor' = o
    /\ ret' = "ok"
    /\ got' = Nothing
    /\ UNCHANGED <<state, buffer, offset, held, summing, sum, call, failed>>

\* A whole-value checksum needs an ordered pass from the beginning.
seek_value(o) ==
    /\ call = Idle
    /\ o <= size
    /\ summing' = (external /\ (o = 0 \/ (summing /\ o = cursor)))
    /\ sum' = IF external /\ o = 0 THEN <<>> ELSE sum
    /\ cursor' = o
    /\ ret' = "ok"
    /\ got' = Nothing
    /\ UNCHANGED <<state, buffer, offset, held, call, failed>>

Next ==
    \/ peek_value
    \/ \E n \in 0 .. size : begin_consume(n)
    \/ \E n \in 0 .. size : begin_read(n)
    \/ Fill
    \/ Advance
    \/ Finish
    \/ \E o \in 0 .. size : seek_value(o)

Spec == Init /\ [][Next]_vars

\* The task that made a call goes on with it.
FairSpec == Spec /\ WF_vars(Fill \/ Advance \/ Finish)

-----------------------------------------------------------------------------
(* The cursor stays within the value, the described part of the buffer     *)
(* within the buffer, and the checksum within the value.                   *)
TypeOK ==
    /\ cursor \in 0 .. size
    /\ buffer \in [Units -> {Junk} \cup 0 .. size]
    /\ offset \in 0 .. size /\ held \in 0 .. ChunkUnits
    /\ offset + held <= size
    /\ Len(sum) <= size
    /\ call \in [op : {"none", "consume", "read"}, left : 0 .. size]

(* What peek_value() and read_value_into() hand out is what the value      *)
(* holds at that place, wherever the calls before it left the cursor and   *)
(* the buffer.                                                             *)
DeliveredExact ==
    \A j \in 1 .. Len(got.units) : got.units[j] = got.from + j - 1

(* The same for readers that have had no failing read so far: seeks, peeks *)
(* and partial reads alone never put a byte out of place.                  *)
ExactUntilFailure == ~failed => DeliveredExact

(* As long as the checksum is enabled it covers the bytes before the       *)
(* cursor, each once: a complete pass is exactly one of the whole value,   *)
(* also when calls fail on the way.                                        *)
ChecksumCoversPrefix == external /\ summing => Len(sum) = cursor

(* consume_value() and read_value_into() report a checksum error only when *)
(* bytes that are not the value's went into the checksum, never because of *)
(* the order in which the caller sought, peeked, consumed and read.        *)
NoFalseAlarm == ret = "crc" => \E j \in 1 .. Len(sum) : sum[j] = Junk

(* Every consume_value() and read_value_into() call ends: each turn of its *)
(* loop makes progress or fails.                                           *)
CallsEnd == call # Idle ~> call = Idle
=============================================================================
