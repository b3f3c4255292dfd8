------------------------------- MODULE Tables -------------------------------
(***************************************************************************)
(* Tables as the code builds, searches and merges them.  A table is a      *)
(* sequence of blocks and a block a sequence of versions, in key order.    *)
(***************************************************************************)
EXTENDS Records

CONSTANTS
    BlockSize,      \* bytes of entries in a block
    TableBlocks,    \* data blocks in a table
    BankSize,       \* tables in a bank
    MaxLive,        \* max_live_bytes
    FilterBits(_)   \* the bits of a table's filter that a key sets

ASSUME TablesAssumption ==
    /\ {BlockSize, TableBlocks, BankSize} \subseteq Nat \ {0}
    /\ MaxLive \in Nat

\* validate_logical_limits(): a block has room for the largest entry.  An
\* external entry is no larger than the smallest value that is external.
ASSUME EntrySizesAssumption ==
    /\ EntryHeader + InlineSize <= BlockSize
    /\ EntryHeader + RefSize <= BlockSize
    /\ RefSize <= InlineSize + 1

\* validate_compaction_capacity(): any two adjacent blocks of a merge hold
\* more than one block of entries.
ASSUME CapacityAssumption ==
    MaxLive <= ((TableBlocks * BankSize) \div 2) * BlockSize

\* The entries of a table, block by block.
BlockTurn(table, entries, i) == entries \o table[i]

Reading == INSTANCE Iteration WITH Turn <- BlockTurn

Entries(table)  == Reading!Iterated(table, <<>>, Len(table))
TableSet(table) == UNION {ToSet(table[i]) : i \in DOMAIN table}

\* What table_metadata says of a table.
MinKey(table)      == Head(Head(table)).key
MaxKey(table)      == Last(Last(table)).key
MaxSequence(table) == Max({v.seq : v \in TableSet(table)})

AllVersions(tables) == UNION {TableSet(tables[i]) : i \in DOMAIN tables}

---------------------------------------------------------------------------
(* Building a table                                                        *)

\* table_build_state: finished blocks, the block being filled, its bytes.
EmptyOutput == [blocks |-> <<>>, block |-> <<>>, used |-> 0, full |-> FALSE]

\* finish_table_data_block_unsafe(), which ignores an empty block.
FinishBlock(out) ==
    IF out.block = <<>> THEN out
    ELSE [blocks |-> Append(out.blocks, out.block), block |-> <<>>, used |-> 0,
          full |-> out.full]

\* A faulty variant of AppendEntry: the entry that finds no block is skipped.
AppendEntrySkipping(out, v) ==
    LET o == IF EncodedSize(v) > BlockSize - out.used THEN FinishBlock(out) ELSE out
    IN  IF o.block = <<>> /\ Len(o.blocks) >= TableBlocks THEN o
        ELSE [o EXCEPT !.block = Append(@, v), !.used = @ + EncodedSize(v)]

\* An entry that does not fit ends the block; without a block left the table
\* is full and stays without the entry.
AppendEntry(out, v) ==
    LET o == IF out.block # <<>> /\ EncodedSize(v) > BlockSize - out.used
             THEN FinishBlock(out) ELSE out
    IN  IF o.block = <<>> /\ Len(o.blocks) >= TableBlocks
        THEN [blocks |-> o.blocks, block |-> o.block, used |-> o.used, full |-> TRUE]
        ELSE [blocks |-> o.blocks, block |-> Append(o.block, v),
              used |-> o.used + EncodedSize(v), full |-> o.full]

\* finish_compaction_output_unsafe(), and the end of a flush.
FinishTable(out) == FinishBlock(out).blocks

\* The loop of flush_memtable_unsafe() over the sorted records; <<>> if they
\* need more blocks than a table has.
FillTurn(sorted, out, i) == IF out.full THEN out ELSE AppendEntry(out, sorted[i])

Filling == INSTANCE Iteration WITH Turn <- FillTurn

BuildTable(sorted) ==
    LET out == Filling!Iterated(sorted, EmptyOutput, Len(sorted))
    IN  IF out.full THEN <<>> ELSE FinishTable(out)

---------------------------------------------------------------------------
(* Lookup                                                                  *)

\* lookup_table_unsafe(): the last block that does not begin after the key.
LookupTable(table, key) ==
    LET starts == {i \in DOMAIN table : Head(table[i]).key <= key}
        hits   == {v \in ToSet(table[Max(starts)]) : v.key = key}
    IN  IF starts = {} \/ hits = {} THEN NoVersion ELSE CHOOSE v \in hits : TRUE

\* table_key_filter_may_contain_unsafe(), the filter holding every key.
MayContain(table, key) ==
    FilterBits(key) \subseteq UNION {FilterBits(v.key) : v \in TableSet(table)}

Plausible(tables, key) ==
    {i \in DOMAIN tables :
        /\ MinKey(tables[i]) <= key
        /\ key <= MaxKey(tables[i])
        /\ MayContain(tables[i], key)}

\* One pass of lookup_tables_unsafe(): of the tables that are left it takes the
\* first with the greatest sequence, unless none of them can have a newer version.
ProbeTurn(c, r, pass) ==
    LET left     == Plausible(c.tables, c.key) \ r.examined
        greatest == Max({MaxSequence(c.tables[i]) : i \in left})
        slot     == Min({i \in left : MaxSequence(c.tables[i]) = greatest})
        v        == LookupTable(c.tables[slot], c.key)
    IN  IF left = {} \/ greatest < r.best.seq THEN r
        ELSE [best     |-> IF v.seq > r.best.seq THEN v ELSE r.best,
              examined |-> r.examined \cup {slot}]

Probing == INSTANCE Iteration WITH Turn <- ProbeTurn

LookupTables(tables, key) ==
    Probing!Iterated([tables |-> tables, key |-> key],
                     [best |-> NoVersion, examined |-> {}], Len(tables)).best

---------------------------------------------------------------------------
(* Merging                                                                 *)

\* The newest version of a key among the sources in the code's order: the
\* memtable, then the tables by slot.  A source that has the sequence of the
\* newest so far is an error.
WinnerTurn(c, w, i) ==
    LET hits == {v \in ToSet(c.sources[i]) : v.key = c.key}
        v    == CHOOSE v \in hits : TRUE
    IN  IF hits = {} THEN w
        ELSE [best  |-> IF v.seq > w.best.seq THEN v ELSE w.best,
              twice |-> w.twice \/ v.seq = w.best.seq]

Choosing == INSTANCE Iteration WITH Turn <- WinnerTurn

Winner(sources, key) ==
    Choosing!Iterated([sources |-> sources, key |-> key],
                      [best |-> NoVersion, twice |-> FALSE], Len(sources))

\* compact_tables_unsafe(): how the winner of a key joins the output.
MergeStart ==
    [tables |-> <<>>, out |-> EmptyOutput, bytes |-> 0, greatest |-> 0, error |-> "none"]

Failed(m, error) ==
    [tables |-> m.tables, out |-> m.out, bytes |-> m.bytes, greatest |-> m.greatest,
     error |-> error]

Counted(m, seq, size) ==
    [tables |-> m.tables, out |-> m.out, bytes |-> m.bytes + size,
     greatest |-> IF seq > m.greatest THEN seq ELSE m.greatest, error |-> m.error]

\* The entry that a table has no room for begins the next one.
Emitted(m, v) ==
    LET o == AppendEntry(m.out, v)
    IN  IF ~o.full
        THEN [tables |-> m.tables, out |-> o, bytes |-> m.bytes, greatest |-> m.greatest,
              error |-> "none"]
        ELSE IF Len(m.tables) + 1 >= BankSize THEN Failed(m, "nomem")
        ELSE [tables |-> Append(m.tables, FinishTable(o)), out |-> AppendEntry(EmptyOutput, v),
              bytes |-> m.bytes, greatest |-> m.greatest, error |-> "none"]

\* A newest tombstone is left out; its sequence counts.
Joined(m, w) ==
    LET v == w.best
        g == Counted(m, v.seq, IF v.del THEN 0 ELSE LogicalSize(v))
    IN  IF m.error # "none" THEN m
        ELSE IF w.twice THEN Failed(m, "corrupt")
        ELSE IF v.del THEN g
        ELSE IF LogicalSize(v) > MaxLive - m.bytes THEN Failed(m, "nomem")
        ELSE Emitted(g, v)

SourceKeys(sources) == {v.key : v \in UNION {ToSet(sources[i]) : i \in DOMAIN sources}}

\* The tables of the other bank.  encode_manifest_record() wants the
\* checkpoint to be the greatest sequence of a table, if there is a table.
Publishable(tables, greatest, next) ==
    /\ greatest = next - 1
    /\ tables # <<>> => Max({MaxSequence(tables[i]) : i \in DOMAIN tables}) = greatest

MergeEnd(m, next) ==
    LET t == IF m.out = EmptyOutput THEN m.tables ELSE Append(m.tables, FinishTable(m.out))
    IN  [tables |-> t, bytes |-> m.bytes, greatest |-> m.greatest,
         error |-> IF m.error = "none" /\ ~Publishable(t, m.greatest, next)
                   THEN "state" ELSE m.error]

MergeTurn(c, m, i) == Joined(m, Winner(c.sources, c.keys[i]))

Merging == INSTANCE Iteration WITH Turn <- MergeTurn

\* Key by key, from the least to the greatest.
Merge(sources, next) ==
    LET keys == Ascending(SourceKeys(sources))
    IN  MergeEnd(Merging!Iterated([sources |-> sources, keys |-> keys], MergeStart, Len(keys)),
                 next)

---------------------------------------------------------------------------
(* What a table is to its callers                                          *)

\* The blocks of a table are not empty and in the order of the keys.
InOrder(block) == \A i, j \in DOMAIN block : i < j => block[i].key < block[j].key

Ordered(blocks) ==
    /\ blocks \in Seq(Seq(Version))
    /\ \A i \in DOMAIN blocks : blocks[i] # <<>> /\ InOrder(blocks[i])
    /\ \A i, j \in DOMAIN blocks : i < j =>
          \A v \in ToSet(blocks[i]), w \in ToSet(blocks[j]) : v.key < w.key

TableWell(t) == Ordered(t) /\ Len(t) \in 1 .. TableBlocks

AllWell(tables) ==
    /\ tables \in Seq(Seq(Seq(Version)))
    /\ \A i \in DOMAIN tables : TableWell(tables[i])

TablesWell(tables) ==
    /\ AllWell(tables)
    /\ Len(tables) <= BankSize
    /\ Consistent(AllVersions(tables))

=============================================================================
