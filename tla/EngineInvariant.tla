--------------------------- MODULE EngineInvariant ---------------------------
(***************************************************************************)
(* The inductive invariant behind ReferencedStorageIntact,                 *)
(* ManifestAlwaysLoads and ServesOnTwoCopies, proved in EngineProofs.tla   *)
(* for every value of the constants.                                       *)
(***************************************************************************)
EXTENDS Engine

Other(s) == 1 - s

\* What every decodable copy on the medium satisfies by itself: it was
\* encodable, it sits in the slot of its generation, and its storage is there.
CopySound(c, s) ==
    /\ Encodable(c)
    /\ c.gen <= MaxGeneration
    /\ Slot(c.gen) = s
    /\ StorageIntact(c)

\* The medium alone, whatever the call in progress is doing.
MediumInv ==
    /\ \A s \in Two : Valid(copy[s]) => CopySound(copy[s], s)
    /\ \A s \in Two :
          Valid(copy[0]) /\ Valid(copy[1]) /\ copy[Other(s)].gen < copy[s].gen =>
              Adjacent(copy[Other(s)], copy[s])
    /\ Valid(copy[0]) /\ Valid(copy[1]) =>
          copy[0].gen = copy[1].gen + 1 \/ copy[1].gen = copy[0].gen + 1
    /\ acked > 0 => Valid(copy[0]) \/ Valid(copy[1])

\* Before the first manifest copy exists no value bank has been recycled.
FreshInv ==
    copy = [s \in Two |-> BlankCopy] \/ (pc # "down" /\ ram.gen = 0) => vb[0] = 1

\* The manifest in RAM is the copy in its slot; the other slot holds the
\* generation before it or nothing, unless a publication failed.
RamInv ==
    pc # "down" =>
        /\ ram.gen = 0 =>
              /\ ram = FreshManifest /\ acked = 0
              /\ pc \in {"create", "publish"}
              /\ \A s \in Two : ~Valid(copy[s])
        /\ ram.gen > 0 =>
              /\ Valid(ram)
              /\ copy[Slot(ram.gen)] = ram
              /\ ~faulted /\ Valid(copy[Other(Slot(ram.gen))]) =>
                    copy[Other(Slot(ram.gen))].gen + 1 = ram.gen

\* Without a pending stabilization both copies reach the same storage.
StableInv ==
    pc # "down" /\ ram.state = "ready"
        /\ ~faulted /\ ~stab =>
        /\ Valid(copy[Other(Slot(ram.gen))])
        /\ SameReach(copy[Other(Slot(ram.gen))], ram)

Serving == {"idle", "commit", "append", "rotate", "header", "synced", "frames",
            "flush", "compact"}

\* The call in progress: who may be where, with which flags.
CallInv ==
    /\ pc = "down" => ram = FreshManifest /\ ~up /\ ~stab /\ ~faulted
    /\ pc \in Serving => up
    /\ up => ram.state = "ready" /\ pc # "down"
    /\ pc \in {"create", "provision", "firstwal", "recover", "serve"} => ~up
    /\ pc \in {"create", "firstwal"} => ram.state = "provisioning"
    /\ pc # "idle" => ~faulted
    /\ pc \in (Serving \cup {"serve"}) /\ ~faulted => ~stab
    /\ pc = "serve" => ram.state = "ready"
    /\ pc = "flush" => mem # {} /\ FreeIndexes(ram) # {}
    /\ pc = "compact" =>
          /\ ram.gen <= MaxGeneration - 2
          /\ vb[1 - ram.vbank] = ram.vgen[1 - ram.vbank] + 1
    /\ pc \in {"header", "synced"} =>
          ram.wgen[1 - ram.wslot] = 0 /\ ram.gen <= MaxGeneration - 2
    /\ pc = "stabilize" =>
          /\ ram.state = "ready"
          /\ back \in {"recover", "serve", "idle", "commit", "append", "rotate",
                       "header", "frames"}
          /\ up <=> back \notin {"recover", "serve"}
          /\ up /\ stab => ram.gen < MaxGeneration /\ back # "header"
          /\ back = "header" =>
                ram.wgen[1 - ram.wslot] = 0 /\ ram.gen <= MaxGeneration - 2
    /\ pc \in {"flush", "compact"} => back \in {"idle", "commit", "rotate"}

Committing == {"commit", "append", "rotate", "header", "synced", "frames"}

\* Sequences stay within the bound under which commits are started.
BoundInv ==
    /\ next <= MaxSeq + 1
    /\ mem \subseteq 1 .. MaxSeq
    /\ \A w \in Two : wal[w].last <= MaxSeq
    /\ \A b \in Two : \A i \in Index : ents[b][i] \subseteq 1 .. MaxSeq
    /\ pc \in Committing => next <= MaxSeq
    /\ pc \in {"flush", "compact", "stabilize", "publish"} /\ back \in Committing =>
          next <= MaxSeq

\* The checkpoint, the memtable and the next sequence.
CheckpointInv ==
    up \/ pc = "serve" \/ (pc \in {"stabilize", "publish"} /\ back = "serve") =>
        /\ ram.ckpt < next
        /\ mem \subseteq (ram.ckpt + 1) .. (next - 1)

\* What the copy being written is for.
JobInv ==
    /\ job = "create" =>
          /\ ~up /\ back = "provision"
          /\ out.state = "provisioning" /\ ram.state = "provisioning"
    /\ job = "ready" =>
          ~up /\ back = "recover" /\ out.state = "ready"
    /\ job = "stabilize" =>
          /\ out = [ram EXCEPT !.gen = ram.gen + 1]
          /\ out.state = "ready"
          /\ back \in {"recover", "serve", "idle", "commit", "append", "rotate",
                       "frames"}
          /\ up <=> back \notin {"recover", "serve"}
    /\ job \in {"flush", "compact", "rotate"} =>
          /\ up /\ ~stab /\ out.state = "ready"
          /\ ram.ckpt <= out.ckpt /\ out.ckpt < next
    /\ job = "flush" =>
          /\ back \in {"idle", "commit", "rotate"}
          /\ SameReach(ram, out)
    /\ job = "compact" =>
          back \in {"idle", "commit", "rotate"} /\ out.gen < MaxGeneration
    /\ job = "rotate" =>
          /\ back = "frames" /\ out.gen < MaxGeneration
          /\ out.ckpt = ram.ckpt

\* The manifest copy being written: it may become the newest one.
PublishInv ==
    pc = "publish" =>
        /\ out.gen = ram.gen + 1
        /\ out.gen <= MaxGeneration
        /\ Valid(out)
        /\ Encodable(out)
        /\ StorageIntact(out)
        /\ ram.gen > 0 => Adjacent(ram, out)
        /\ JobInv

IInv ==
    /\ TypeOK
    /\ MediumInv
    /\ FreshInv
    /\ RamInv
    /\ StableInv
    /\ CallInv
    /\ BoundInv
    /\ CheckpointInv
    /\ PublishInv

-----------------------------------------------------------------------------
(* The data: what the transactions on the medium are, and where they lie.  *)

\* recover_wal() has run: the RAM state describes the database.
Recovered ==
    up \/ pc = "serve" \/ (pc \in {"stabilize", "publish"} /\ back = "serve")

\* The tables a ready record c reaches hold what its checkpoint says, and the
\* WAL slot it calls active reaches at least to the last acknowledged
\* transaction.  Generation 0 never names a table, and the checkpoint is the
\* sequence of an entry, a tombstone perhaps.
Holds(c) ==
    /\ TableEntries(c) \subseteq 1 .. c.ckpt
    /\ Live(TableEntries(c)) = Live(1 .. c.ckpt)
    /\ c.ckpt <= acked
    /\ acked <= wal[c.wslot].last
    /\ wal[c.wslot].last <= Len(ops)
    /\ c.ntg > 0
    /\ TableEntries(c) # {} => c.ckpt \in TableEntries(c)

\* Every copy on the medium holds the database; there is no transaction as
\* long as a copy may still say "provisioning".
CopiesHold ==
    /\ \A s \in Two : Valid(copy[s]) =>
          IF copy[s].state = "ready" THEN Holds(copy[s]) ELSE ops = <<>>
    /\ (\A s \in Two : ~Valid(copy[s])) => ops = <<>>

\* Of two copies the older one's WAL slot reaches as far as the newer one's:
\* frames are appended only when both call the same slot active.
OlderReaches ==
    \A s \in Two :
        copy[s].state = "ready" /\ copy[Other(s)].state = "ready"
            /\ copy[Other(s)].gen < copy[s].gen =>
                  wal[copy[s].wslot].last <= wal[copy[Other(s)].wslot].last

\* The copy being written holds it too; only a flush or a compaction
\* moves the checkpoint.
OutHolds ==
    pc = "publish" /\ out.state = "ready" =>
        /\ Holds(out)
        /\ job \in {"flush", "compact"} => out.ckpt = acked
        /\ job \in {"rotate", "stabilize"} => out.ckpt = ram.ckpt
        /\ ram.state = "ready" => wal[out.wslot].last <= wal[ram.wslot].last

\* At most one transaction on the medium is not acknowledged, and if it is an
\* erasure its key exists.
PendingInv ==
    /\ acked <= Len(ops) /\ Len(ops) <= acked + 1
    /\ Len(ops) = acked + 1 /\ ops[acked + 1].del =>
          \E s \in Live(1 .. acked) : ops[s].key = ops[acked + 1].key

\* The memtable holds the newest versions behind the checkpoint.
MemtableInv ==
    Recovered => next = acked + 1 /\ mem = Newest((ram.ckpt + 1) .. acked)

DataInv == CopiesHold /\ OlderReaches /\ OutHolds /\ PendingInv /\ MemtableInv

\* The log behind a ready record c is complete: recover_wal() accepts it and
\* finds every transaction.
Logged(c) ==
    /\ WalChain(c)
    /\ ReplayableValues(c)
    /\ wal[c.wslot].first <= wal[c.wslot].last + 1
    /\ wal[c.wslot].last = Len(ops)

\* Without leftovers of failed appends every copy leads to a complete log.
LogInv ==
    /\ \A s \in Two : Valid(copy[s]) /\ copy[s].state = "ready" => Logged(copy[s])
    /\ pc = "publish" /\ out.state = "ready" => Logged(out)
    /\ Recovered => Len(ops) = acked

=============================================================================
