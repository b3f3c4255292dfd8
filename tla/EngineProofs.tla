----------------------------- MODULE EngineProofs -----------------------------
(***************************************************************************)
(* IInv is an inductive invariant of Engine's specification, and the       *)
(* safety properties that follow from it.  First the types: TypeOK is      *)
(* preserved by every group of steps, given the bounds on sequences that   *)
(* BoundInv adds.  Then the medium: the storage that a valid manifest copy *)
(* refers to is left alone by every step, and the two copies stay          *)
(* adjacent, which is where the stabilization of a one-copy manifest is    *)
(* needed.  Then the run in progress.                                      *)
(*                                                                         *)
(* Last what recovery and reads find: DataInv is an inductive invariant    *)
(* next to IInv, whatever failed appends leave behind, and so is LogInv    *)
(* where they leave nothing.  From these follow that reads see the         *)
(* committed transactions, that acknowledged ones stay, that either        *)
(* manifest copy alone recovers them, and that the engine implements       *)
(* KeyValue.                                                               *)
(***************************************************************************)
EXTENDS EngineInvariant, FiniteSetTheorems, WellFoundedInduction, TLAPS

\* A non-empty set of naturals has a least element.
LEMMA LeastNatural ==
    ASSUME NEW T \in SUBSET Nat, T # {}
    PROVE  \E x \in T : \A y \in T : x <= y
<1>1. IsWellFoundedOn(OpToRel(<, Nat), Nat)
  BY NatLessThanWellFounded
<1>2. PICK x \in T : \A y \in T : ~ (<<y, x>> \in OpToRel(<, Nat))
  BY <1>1, WFMin
<1>3. \A y \in T : ~ (y < x)
  BY <1>2 DEF OpToRel
<1> QED
  BY <1>3

\* A non-empty bounded set of naturals has a greatest element.
LEMMA GreatestNatural ==
    ASSUME NEW T \in SUBSET Nat, T # {}, NEW n \in Nat, \A y \in T : y <= n
    PROVE  \E x \in T : \A y \in T : x >= y
<1> DEFINE U == {u \in Nat : \A y \in T : y <= u}
<1>1. PICK u \in U : \A v \in U : u <= v
  <2>1. n \in U
    OBVIOUS
  <2> QED
    BY <2>1, LeastNatural
<1>2. u \in T
  <2>1. SUFFICES ASSUME u \notin T PROVE FALSE
    OBVIOUS
  <2>2. \A y \in T : y <= u - 1
    BY <1>1, <2>1
  <2>3. PICK y \in T : TRUE
    OBVIOUS
  <2>4. u - 1 \in Nat
    BY <2>2, <2>3
  <2>5. u - 1 \in U
    BY <2>2, <2>4
  <2> QED
    BY <1>1, <2>5
<1> QED
  BY <1>1, <1>2

\* Max of a non-empty bounded set of naturals is its greatest element.
LEMMA MaxOfBounded ==
    ASSUME NEW T \in SUBSET Nat, T # {}, NEW n \in Nat, \A y \in T : y <= n
    PROVE  Max(T) \in T /\ \A y \in T : y <= Max(T)
<1>1. \E x \in T : \A y \in T : x >= y
  BY GreatestNatural
<1>2. Max(T) \in T /\ \A y \in T : Max(T) >= y
  BY <1>1 DEF Max
<1> QED
  BY <1>2

\* Min of a non-empty set of naturals belongs to it.
LEMMA MinOfNaturals ==
    ASSUME NEW T \in SUBSET Nat, T # {}
    PROVE  Min(T) \in T
<1>1. \E x \in T : \A y \in T : x <= y
  BY LeastNatural
<1> QED
  BY <1>1 DEF Min

\* Updating a function at one point keeps its type.
LEMMA UpdateType ==
    ASSUME NEW A, NEW B, NEW f \in [A -> B], NEW a, NEW v \in B
    PROVE  [f EXCEPT ![a] = v] \in [A -> B]
OBVIOUS

\* Updating a function of functions at one point keeps its type.
LEMMA NestedUpdateType ==
    ASSUME NEW A, NEW B, NEW C, NEW f \in [A -> [B -> C]], NEW a, NEW b, NEW v \in C
    PROVE  [f EXCEPT ![a][b] = v] \in [A -> [B -> C]]
OBVIOUS

-----------------------------------------------------------------------------
(* Types of the records the engine builds.                                 *)

USE BankSizeAssumption, MaxGenerationAssumption, MaxSeqAssumption

\* The manifest records that no call builds are records.
LEMMA RecordTypes ==
    /\ FreshManifest \in ManifestRecord
    /\ BlankCopy \in ManifestRecord
    /\ TornCopy \in ManifestRecord
    /\ \A m \in ManifestRecord : \A g \in Nat :
          [m EXCEPT !.gen = g] \in ManifestRecord
BY DEF FreshManifest, BlankCopy, TornCopy, ManifestRecord, NoTables, Inactive,
       TableReference, Two, Index

\* flush_memtable() builds a manifest record.
LEMMA FlushedType ==
    ASSUME ram \in ManifestRecord, mem \subseteq 1 .. MaxSeq, mem # {},
           FreeIndexes(ram) # {}
    PROVE  /\ Flushed \in ManifestRecord
           /\ Min(FreeIndexes(ram)) \in FreeIndexes(ram)
           /\ Max(mem) \in mem
<1>1. Max(mem) \in mem
  BY MaxOfBounded
<1>2. Min(FreeIndexes(ram)) \in FreeIndexes(ram)
  BY MinOfNaturals DEF FreeIndexes, Index
<1>3. Max(mem) \in Nat
  <2>1. \A y \in mem : y \in Nat
    OBVIOUS
  <2> QED
    BY <1>1, <2>1
<1>6. Min(FreeIndexes(ram)) \in Index
  BY <1>2 DEF FreeIndexes
<1>4. [gen |-> ram.ntg, max |-> Max(mem)] \in TableReference
  BY <1>3 DEF TableReference, ManifestRecord
<1>7. [ram.tabs EXCEPT ![ram.bank][Min(FreeIndexes(ram))] =
            [gen |-> ram.ntg, max |-> Max(mem)]] \in [Two -> [Index -> TableReference]]
  BY <1>4, <1>6 DEF ManifestRecord
<1>8. ram.ntg + 1 \in Nat
  BY DEF ManifestRecord
<1>5. Flushed \in ManifestRecord
  BY <1>3, <1>7, <1>8 DEF Flushed, ManifestRecord
<1> QED
  BY <1>1, <1>2, <1>5

\* compact_tables() builds a manifest record.
LEMMA CompactedType ==
    ASSUME ram \in ManifestRecord, next \in Nat \ {0},
           NEW part \in [Index -> SUBSET (1 .. MaxSeq)]
    PROVE  /\ Compacted(part) \in ManifestRecord
           /\ \A i \in Index : part[i] # {} => Max(part[i]) \in part[i]
<1>1. ASSUME NEW i \in Index, part[i] # {} PROVE Max(part[i]) \in part[i] /\ Max(part[i]) \in Nat
  <2>1. part[i] \in SUBSET Nat /\ \A y \in part[i] : y <= MaxSeq
    OBVIOUS
  <2>2. Max(part[i]) \in part[i]
    BY <1>1, <2>1, MaxOfBounded
  <2> QED
    BY <2>1, <2>2
<1>2. Cardinality({i \in Index : part[i] # {}}) \in Nat
  <2>1. IsFiniteSet(Index)
    BY FS_Interval DEF Index
  <2> QED
    BY <2>1, FS_Subset, FS_CardinalityType
<1>3. ASSUME NEW i \in Index
      PROVE  (IF part[i] = {} THEN Inactive
              ELSE [gen |-> ram.ntg + i - 1, max |-> Max(part[i])]) \in TableReference
  <2>1. ram.ntg + i - 1 \in Nat
    BY DEF ManifestRecord, Index
  <2>2. part[i] # {} => Max(part[i]) \in Nat
    BY <1>1
  <2> QED
    BY <2>1, <2>2 DEF TableReference, Inactive
<1>4. NoTables \in [Index -> TableReference]
  BY DEF NoTables, Inactive, TableReference
<1>5. Compacted(part).tabs \in [Two -> [Index -> TableReference]]
  BY <1>3, <1>4 DEF Compacted, ManifestRecord
<1>6. 1 - ram.bank \in Two /\ 1 - ram.vbank \in Two /\ 1 - ram.wslot \in Two
  BY DEF ManifestRecord, Two
<1>7. /\ [ram.vgen EXCEPT ![1 - ram.vbank] = @ + 1] \in [Two -> Nat]
      /\ [ram.wgen EXCEPT ![1 - ram.wslot] = 0] \in [Two -> Nat]
      /\ next - 1 \in Nat
      /\ ram.ntg + Cardinality({i \in Index : part[i] # {}}) \in Nat
  BY <1>2, <1>6 DEF ManifestRecord
<1>8. Compacted(part) \in ManifestRecord
  BY <1>5, <1>6, <1>7 DEF Compacted, ManifestRecord
<1> QED
  BY <1>1, <1>8

-----------------------------------------------------------------------------
(* Type correctness.                                                       *)

MediaType ==
    /\ copy \in [Two -> ManifestRecord]
    /\ wal \in [Two -> WalSlot]
    /\ tab \in [Two -> [Index -> Nat]]
    /\ ents \in [Two -> [Index -> SUBSET Nat]]
    /\ vb \in [Two -> Nat]
    /\ ops \in Seq(Operation)

LocalType ==
    /\ up \in BOOLEAN
    /\ ram \in ManifestRecord
    /\ stab \in BOOLEAN
    /\ faulted \in BOOLEAN
    /\ mem \in SUBSET Nat
    /\ next \in Nat \ {0}

CallType ==
    /\ pc \in Place
    /\ back \in Place
    /\ job \in PublishJob
    /\ out \in ManifestRecord

\* TypeOK by the medium, the RAM state and the call in progress.
LEMMA TypeParts == TypeOK <=> MediaType /\ LocalType /\ CallType /\ acked \in Nat
BY DEF TypeOK, MediaType, LocalType, CallType

\* The same for the next state.
LEMMA TypePartsNext ==
    TypeOK' <=> MediaType' /\ LocalType' /\ CallType' /\ acked' \in Nat
BY DEF TypeOK, MediaType, LocalType, CallType

\* A step that leaves the medium alone keeps its type.
LEMMA UnchangedMediaType == MediaType /\ UNCHANGED media => MediaType'
BY DEF MediaType, media

\* deinit() or a power cut leaves typed RAM state.
LEMMA GoDownType ==
    ASSUME GoDown
    PROVE  LocalType' /\ CallType'
<1>1. FreshManifest \in ManifestRecord
  BY RecordTypes
<1>2. LocalType'
  <2>1. (up \in BOOLEAN)' /\ (stab \in BOOLEAN)' /\ (faulted \in BOOLEAN)'
    BY Zenon DEF GoDown
  <2>2. ram' \in ManifestRecord /\ mem' \in SUBSET Nat /\ next' \in Nat \ {0}
    BY <1>1 DEF GoDown
  <2> QED
    BY <2>1, <2>2 DEF LocalType
<1>3. CallType'
  BY <1>1 DEF GoDown, CallType, Place, PublishJob
<1> QED
  BY <1>2, <1>3

\* So does a call that goes on at another place, ...
LEMMA ReturnToType ==
    ASSUME LocalType, CallType, NEW p \in Place, ReturnTo(p)
    PROVE  LocalType' /\ CallType'
BY DEF ReturnTo, local, LocalType, CallType

\* ... one that stabilizes the manifest first, ...
LEMMA StabilizeThenType ==
    ASSUME LocalType, CallType, NEW p \in Place, StabilizeThen(p)
    PROVE  LocalType' /\ CallType'
BY DEF StabilizeThen, local, LocalType, CallType, Place

\* ... one that returns an error, ...
LEMMA ReturnErrorType ==
    ASSUME LocalType, CallType, ReturnError
    PROVE  LocalType' /\ CallType'
<1>1. "idle" \in Place
  BY DEF Place
<1> QED
  BY <1>1, GoDownType, ReturnToType DEF ReturnError

\* ... and one that begins to write a manifest copy.
LEMMA BeginCopyType ==
    ASSUME LocalType, CallType, NEW m \in ManifestRecord, NEW j \in PublishJob,
           NEW b \in Place, BeginCopy(m, j, b)
    PROVE  LocalType' /\ CallType'
<1> DEFINE record == [m EXCEPT !.gen = ram.gen + 1]
<1>1. record \in ManifestRecord
  <2>1. ram.gen + 1 \in Nat
    BY DEF LocalType, ManifestRecord
  <2> QED
    BY <2>1, RecordTypes
<1>2. CASE ram.gen < MaxGeneration /\ Encodable(record)
  BY <1>1, <1>2 DEF BeginCopy, LocalType, CallType, local, Place
<1>3. CASE ~(ram.gen < MaxGeneration /\ Encodable(record))
  BY <1>3, ReturnErrorType DEF BeginCopy
<1> QED
  BY <1>2, <1>3

\* The checks that begin a compaction preserve the types.
LEMMA BeginCompactionType ==
    ASSUME TypeOK, NEW b \in Place, BeginCompaction(b)
    PROVE  MediaType' /\ LocalType' /\ CallType'
<1> USE TypeParts
<1>1. CASE ram.gen > MaxGeneration - 2
  BY <1>1, ReturnErrorType, UnchangedMediaType DEF BeginCompaction
<1>2. CASE ~(ram.gen > MaxGeneration - 2)
  <2>1. 1 - ram.bank \in Two /\ 1 - ram.vbank \in Two
    BY DEF LocalType, ManifestRecord, Two
  <2>2. ram.vgen[1 - ram.vbank] + 1 \in Nat
    BY <2>1 DEF LocalType, ManifestRecord
  <2>3. MediaType'
    <3>1. tab' \in [Two -> [Index -> Nat]]
      <4>1. [i \in Index |-> 0] \in [Index -> Nat]
        OBVIOUS
      <4>2. tab' = [tab EXCEPT ![1 - ram.bank] = [i \in Index |-> 0]]
        BY <1>2 DEF BeginCompaction
      <4> QED
        BY <4>1, <4>2, UpdateType DEF MediaType
    <3>2. ents' \in [Two -> [Index -> SUBSET Nat]]
      <4>1. [i \in Index |-> {}] \in [Index -> SUBSET Nat]
        OBVIOUS
      <4>2. ents' = [ents EXCEPT ![1 - ram.bank] = [i \in Index |-> {}]]
        BY <1>2 DEF BeginCompaction
      <4> QED
        BY <4>1, <4>2, UpdateType DEF MediaType
    <3>3. vb' \in [Two -> Nat]
      BY <1>2, <2>1, <2>2 DEF BeginCompaction, MediaType
    <3>4. UNCHANGED <<copy, wal, ops>>
      BY <1>2 DEF BeginCompaction
    <3> QED
      BY <3>1, <3>2, <3>3, <3>4 DEF MediaType
  <2>4. LocalType' /\ CallType'
    BY <1>2 DEF BeginCompaction, LocalType, CallType, local, Place
  <2> QED
    BY <2>3, <2>4
<1> QED
  BY <1>1, <1>2

\* The checks that begin a flush preserve the types.
LEMMA BeginFlushType ==
    ASSUME TypeOK, NEW b \in Place, BeginFlush(b)
    PROVE  MediaType' /\ LocalType' /\ CallType'
<1> USE TypeParts
<1>1. CASE FreeIndexes(ram) = {}
  BY <1>1, BeginCompactionType DEF BeginFlush
<1>2. CASE FreeIndexes(ram) # {}
  <2>1. Min(FreeIndexes(ram)) \in FreeIndexes(ram)
    <3>1. FreeIndexes(ram) \in SUBSET Nat
      BY DEF FreeIndexes, Index
    <3> QED
      BY <1>2, <3>1, MinOfNaturals
  <2>2. Min(FreeIndexes(ram)) \in Index /\ ram.bank \in Two
    BY <2>1 DEF FreeIndexes, LocalType, ManifestRecord
  <2>3. MediaType'
    <3>1. tab' \in [Two -> [Index -> Nat]]
      <4>1. tab' = [tab EXCEPT ![ram.bank][Min(FreeIndexes(ram))] = 0]
        BY <1>2 DEF BeginFlush
      <4> QED
        BY <4>1, NestedUpdateType DEF MediaType
    <3>2. ents' \in [Two -> [Index -> SUBSET Nat]]
      <4>1. ents' = [ents EXCEPT ![ram.bank][Min(FreeIndexes(ram))] = {}]
        BY <1>2 DEF BeginFlush
      <4> QED
        BY <4>1, NestedUpdateType DEF MediaType
    <3>3. UNCHANGED <<copy, wal, vb, ops>>
      BY <1>2 DEF BeginFlush
    <3> QED
      BY <3>1, <3>2, <3>3 DEF MediaType
  <2>4. LocalType' /\ CallType'
    BY <1>2 DEF BeginFlush, LocalType, CallType, local, Place
  <2> QED
    BY <2>3, <2>4
<1> QED
  BY <1>1, <1>2

\* Memtable and tables hold sequences up to MaxSeq only.
LEMMA SourcesBounded ==
    ASSUME TypeOK, BoundInv
    PROVE  /\ mem \cup TableEntries(ram) \subseteq 1 .. MaxSeq
           /\ Live(mem \cup TableEntries(ram)) \subseteq 1 .. MaxSeq
<1>1. ram.bank \in Two
  BY DEF TypeOK, ManifestRecord
<1>2. TableEntries(ram) \subseteq 1 .. MaxSeq
  BY <1>1 DEF TableEntries, ActiveIndexes, BoundInv
<1>3. mem \cup TableEntries(ram) \subseteq 1 .. MaxSeq
  BY <1>2 DEF BoundInv
<1>4. Live(mem \cup TableEntries(ram)) \subseteq mem \cup TableEntries(ram)
  BY DEF Live, Newest
<1> QED
  BY <1>3, <1>4

\* load_manifest() selects the newest valid copy if there is one.
LEMMA SelectedSlotExists ==
    ASSUME copy \in [Two -> ManifestRecord], ValidSlots(copy) # {}
    PROVE  /\ SelectedSlot(copy) \in ValidSlots(copy)
           /\ \A t \in ValidSlots(copy) :
                 \/ copy[t].gen < copy[SelectedSlot(copy)].gen
                 \/ copy[t].gen = copy[SelectedSlot(copy)].gen /\ SelectedSlot(copy) <= t
           /\ SelectedSlot(copy) \in Two
<1> DEFINE Best(s) == \A t \in ValidSlots(copy) :
                         \/ copy[t].gen < copy[s].gen
                         \/ copy[t].gen = copy[s].gen /\ s <= t
<1>1. copy[0].gen \in Nat /\ copy[1].gen \in Nat
  BY DEF ManifestRecord, Two
<1>2. ValidSlots(copy) \subseteq {0, 1}
  BY DEF ValidSlots, Two
<1>3. \E s \in ValidSlots(copy) : Best(s)
  <2>1. CASE 0 \in ValidSlots(copy) /\ (1 \notin ValidSlots(copy) \/ copy[1].gen <= copy[0].gen)
    <3>1. Best(0)
      BY <1>1, <1>2, <2>1
    <3> QED
      BY <2>1, <3>1
  <2>2. CASE 1 \in ValidSlots(copy) /\ (0 \notin ValidSlots(copy) \/ copy[0].gen < copy[1].gen)
    <3>1. Best(1)
      BY <1>1, <1>2, <2>2
    <3> QED
      BY <2>2, <3>1
  <2> QED
    BY <1>1, <1>2, <2>1, <2>2
<1>4. SelectedSlot(copy) \in ValidSlots(copy) /\ Best(SelectedSlot(copy))
  BY <1>3 DEF SelectedSlot
<1> QED
  BY <1>2, <1>4 DEF Two

\* The steps of init() preserve the types.
LEMMA InitStepsType ==
    ASSUME TypeOK, InitSteps
    PROVE  TypeOK'
<1> USE TypeParts, TypePartsNext
<1>1. CASE SetupManifest
  <2>1. CASE copy = [s \in Two |-> BlankCopy]
    <3>1. ReturnTo("create") /\ UNCHANGED <<media, acked>>
      BY <1>1, <2>1 DEF SetupManifest
    <3> QED
      BY <3>1, ReturnToType, UnchangedMediaType DEF Place
  <2>2. CASE copy # [s \in Two |-> BlankCopy] /\ ~LoadAccepts(copy)
    <3>1. GoDown /\ UNCHANGED <<media, acked>>
      BY <1>1, <2>2 DEF SetupManifest
    <3> QED
      BY <3>1, GoDownType, UnchangedMediaType
  <2>3. CASE copy # [s \in Two |-> BlankCopy] /\ LoadAccepts(copy)
    <3> DEFINE selected == copy[SelectedSlot(copy)]
    <3>1. /\ ram' = selected
          /\ stab' \in {StabilizationRequired(copy), TRUE}
          /\ pc' = IF selected.state = "provisioning" /\ ValidSlots(copy) # Two
                   THEN "create" ELSE "provision"
          /\ UNCHANGED <<up, faulted, mem, next, back, job, out>>
          /\ UNCHANGED <<media, acked>>
      BY <1>1, <2>3 DEF SetupManifest
    <3>2. selected \in ManifestRecord
      <4>1. SelectedSlot(copy) \in Two
        BY <2>3, SelectedSlotExists DEF LoadAccepts, MediaType
      <4> QED
        BY <4>1 DEF MediaType
    <3>3. (stab \in BOOLEAN)'
      BY <3>1, Zenon DEF StabilizationRequired
    <3>4. (pc \in Place)'
      BY <3>1 DEF Place
    <3> QED
      BY <3>1, <3>2, <3>3, <3>4, UnchangedMediaType DEF LocalType, CallType
  <2> QED
    BY <2>1, <2>2, <2>3
<1>2. CASE WriteProvisioningCopy
  <2>1. "create" \in PublishJob /\ "provision" \in Place
    BY DEF PublishJob, Place
  <2> QED
    BY <1>2, <2>1, BeginCopyType, UnchangedMediaType DEF WriteProvisioningCopy, LocalType
<1>3. CASE ProvisionAllDataFiles
  <2>1. CASE ram.state = "ready"
    <3>1. ReturnTo("recover") /\ UNCHANGED <<media, acked>>
      BY <1>3, <2>1 DEF ProvisionAllDataFiles
    <3> QED
      BY <3>1, ReturnToType, UnchangedMediaType DEF Place
  <2>2. CASE ram.state # "ready"
    <3>1. /\ tab' = [b \in Two |-> [i \in Index |-> 0]]
          /\ ents' = [b \in Two |-> [i \in Index |-> {}]]
          /\ wal' = [wal EXCEPT ![0] = NoWal]
          /\ ReturnTo("firstwal")
          /\ UNCHANGED <<copy, vb, ops, acked>>
      BY <1>3, <2>2 DEF ProvisionAllDataFiles
    <3>2. tab' \in [Two -> [Index -> Nat]] /\ ents' \in [Two -> [Index -> SUBSET Nat]]
      BY <3>1
    <3>3. NoWal \in WalSlot
      BY DEF NoWal, WalSlot
    <3>4. wal' \in [Two -> WalSlot]
      BY <3>1, <3>3, UpdateType DEF MediaType
    <3>5. MediaType'
      BY <3>1, <3>2, <3>4 DEF MediaType
    <3> QED
      BY <3>1, <3>5, ReturnToType DEF Place
  <2> QED
    BY <2>1, <2>2
<1>4. CASE InitialiseFirstWal
  <2> DEFINE m == [ram EXCEPT !.state = "ready", !.wslot = 0,
                              !.wgen = [w \in Two |-> 1 - w], !.ckpt = 0]
  <2>1. m \in ManifestRecord
    <3>1. [w \in Two |-> 1 - w] \in [Two -> Nat]
      BY DEF Two
    <3> QED
      BY <3>1 DEF LocalType, ManifestRecord, Two
  <2>2. [gen |-> 1, first |-> 1, last |-> 0] \in WalSlot
    BY DEF WalSlot
  <2>3. MediaType' /\ acked' = acked
    <3>1. wal' \in [Two -> WalSlot]
      BY <1>4, <2>2, UpdateType DEF InitialiseFirstWal, MediaType
    <3> QED
      BY <1>4, <3>1 DEF InitialiseFirstWal, MediaType
  <2>4. "ready" \in PublishJob /\ "recover" \in Place
    BY DEF PublishJob, Place
  <2>5. LocalType' /\ CallType'
    BY <1>4, <2>1, <2>4, BeginCopyType DEF InitialiseFirstWal
  <2> QED
    BY <2>3, <2>5
<1>5. CASE RecoverWal
  <2>1. CASE ram.state = "ready" /\ Recoverable(ram)
    <3>1. /\ mem' = Newest(Replayed(ram))
          /\ next' = wal[ram.wslot].last + 1
          /\ acked' = wal[ram.wslot].last
          /\ pc' = "stabilize"
          /\ back' = "serve"
          /\ UNCHANGED <<up, ram, stab, faulted, job, out, media>>
      BY <1>5, <2>1 DEF RecoverWal
    <3>2. wal[ram.wslot].last \in Nat /\ ram.ckpt \in Nat
      BY DEF MediaType, LocalType, ManifestRecord, WalSlot
    <3>3. mem' \in SUBSET Nat
      BY <3>1, <3>2 DEF Newest, Replayed
    <3>4. LocalType'
      BY <3>1, <3>2, <3>3 DEF LocalType
    <3>5. CallType'
      BY <3>1 DEF CallType, Place
    <3> QED
      BY <3>1, <3>2, <3>4, <3>5, UnchangedMediaType
  <2>2. CASE ~(ram.state = "ready" /\ Recoverable(ram))
    BY <1>5, <2>2, GoDownType, UnchangedMediaType DEF RecoverWal
  <2> QED
    BY <2>1, <2>2
<1>6. CASE Serve
  <2>1. (up \in BOOLEAN)'
    BY <1>6, Zenon DEF Serve
  <2>2. LocalType' /\ CallType'
    BY <1>6, <2>1 DEF Serve, LocalType, CallType, Place
  <2> QED
    BY <1>6, <2>2, UnchangedMediaType DEF Serve
<1> QED
  BY <1>1, <1>2, <1>3, <1>4, <1>5, <1>6 DEF InitSteps

\* A transaction reaching the WAL preserves the types.
LEMMA PersistType ==
    ASSUME TypeOK, NEW op \in Staged, Persist(op)
    PROVE  MediaType'
<1>1. op \in Operation
  BY DEF Staged, Operation, TypeOK, ManifestRecord
<1>2. ops' \in Seq(Operation)
  <2>1. CASE next <= Len(ops)
    BY <1>1, <2>1 DEF Persist, TypeOK
  <2>2. CASE ~(next <= Len(ops))
    BY <1>1, <2>2 DEF Persist, TypeOK
  <2> QED
    BY <2>1, <2>2
<1>3. wal' \in [Two -> WalSlot]
  BY DEF Persist, TypeOK, WalSlot
<1> QED
  BY <1>2, <1>3 DEF Persist, MediaType, TypeOK

\* The steps of commit(), flush, compaction and rotation preserve the types.
LEMMA CommitStepsType ==
    ASSUME TypeOK, BoundInv, CallInv, CommitSteps
    PROVE  TypeOK'
<1> USE TypeParts, TypePartsNext
<1> DEFINE Here == {"idle", "commit", "append", "rotate", "header", "synced", "frames"}
<1>0. Here \subseteq Place
  BY DEF Place
<1>1. CASE Commit
  <2>1. CASE ReturnTo("commit") /\ UNCHANGED media
    BY <1>0, <1>1, <2>1, ReturnToType, UnchangedMediaType DEF Commit
  <2>2. CASE mem # {} /\ BeginFlush("commit")
    BY <1>0, <1>1, <2>2, BeginFlushType DEF Commit
  <2> QED
    BY <1>1, <2>1, <2>2 DEF Commit
<1>2. CASE BeginValueWrite
  BY <1>0, <1>2, BeginCompactionType DEF BeginValueWrite
<1>3. CASE BeginAppend
  BY <1>0, <1>3, StabilizeThenType, UnchangedMediaType DEF BeginAppend
<1>4. CASE AppendTransaction
  <2>1. acked' = acked
    BY <1>4 DEF AppendTransaction
  <2>2. \/ ReturnTo("frames") /\ UNCHANGED media
        \/ BeginCompaction("rotate")
        \/ BeginFlush("rotate")
        \/ ReturnTo("rotate") /\ UNCHANGED media
    BY <1>4 DEF AppendTransaction
  <2>3. MediaType' /\ LocalType' /\ CallType'
    BY <1>0, <2>2, ReturnToType, UnchangedMediaType, BeginCompactionType, BeginFlushType
  <2> QED
    BY <2>1, <2>3
<1>5. CASE RotateWal
  <2>1. (ReturnError \/ StabilizeThen("header")) /\ UNCHANGED <<media, acked>>
    BY <1>5 DEF RotateWal
  <2> QED
    BY <1>0, <2>1, ReturnErrorType, StabilizeThenType, UnchangedMediaType
<1>6. CASE BeginWalHeader
  <2>1. NoWal \in WalSlot
    BY DEF NoWal, WalSlot
  <2>2. wal' \in [Two -> WalSlot]
    BY <1>6, <2>1, UpdateType DEF BeginWalHeader, MediaType
  <2>3. MediaType'
    BY <1>6, <2>2 DEF BeginWalHeader, MediaType
  <2> QED
    BY <1>0, <1>6, <2>3, ReturnToType DEF BeginWalHeader
<1>7. CASE WalHeaderSynced
  <2> DEFINE target == 1 - ram.wslot
             gen    == ram.wgen[ram.wslot] + 1
             m      == [ram EXCEPT !.wslot = target, !.wgen[target] = gen]
  <2>1. target \in Two /\ gen \in Nat
    BY DEF LocalType, ManifestRecord, Two
  <2>2. [gen |-> gen, first |-> next, last |-> next - 1] \in WalSlot
    BY <2>1 DEF WalSlot, LocalType
  <2>3. wal' = [wal EXCEPT ![target] = [gen |-> gen, first |-> next, last |-> next - 1]]
    BY <1>7 DEF WalHeaderSynced
  <2>4. wal' \in [Two -> WalSlot]
    BY <2>2, <2>3, UpdateType DEF MediaType
  <2>5. MediaType' /\ acked' = acked
    BY <1>7, <2>4 DEF WalHeaderSynced, MediaType
  <2>6. m \in ManifestRecord
    BY <2>1 DEF LocalType, ManifestRecord
  <2>7. "rotate" \in PublishJob
    BY DEF PublishJob
  <2>8. BeginCopy(m, "rotate", "frames")
    BY <1>7 DEF WalHeaderSynced
  <2> QED
    BY <1>0, <2>5, <2>6, <2>7, <2>8, BeginCopyType
<1>8. CASE AppendFrames
  <2>1. PICK op \in Staged : /\ Persist(op)
                             /\ mem' = {s \in mem : ops[s].key # op.key} \cup {next}
    BY <1>8 DEF AppendFrames
  <2>2. MediaType'
    BY <2>1, PersistType
  <2>3. LocalType' /\ CallType' /\ acked' \in Nat
    BY <1>8, <2>1 DEF AppendFrames, LocalType, CallType, Place
  <2> QED
    BY <2>2, <2>3
<1>9. CASE Compact
  <2> DEFINE sources == mem \cup TableEntries(ram)
             live == Live(sources)
  <2>1. PICK f \in Splits(live) :
          LET part == [i \in Index |-> {s \in live : f[s] = i}]
              m    == Compacted(part)
          IN  /\ tab' = [tab EXCEPT ![m.bank] = [i \in Index |-> m.tabs[m.bank][i].gen]]
              /\ ents' = [ents EXCEPT ![m.bank] = part]
              /\ IF Max(Newest(sources) \cup {0}) = next - 1
                 THEN BeginCopy(m, "compact", back)
                 ELSE ReturnError
    BY <1>9 DEF Compact
  <2> DEFINE part == [i \in Index |-> {s \in live : f[s] = i}]
             m    == Compacted(part)
  <2>2. part \in [Index -> SUBSET (1 .. MaxSeq)]
    BY SourcesBounded
  <2>3. m \in ManifestRecord
    BY <2>2, CompactedType DEF LocalType
  <2>4. tab' \in [Two -> [Index -> Nat]]
    <3>1. [i \in Index |-> m.tabs[m.bank][i].gen] \in [Index -> Nat]
      <4>1. m.tabs \in [Two -> [Index -> TableReference]] /\ m.bank \in Two
        BY <2>3 DEF ManifestRecord
      <4> HIDE DEF m
      <4> QED
        BY <4>1 DEF TableReference
    <3> QED
      BY <2>1, <3>1, UpdateType DEF MediaType
  <2>5. ents' \in [Two -> [Index -> SUBSET Nat]]
    <3>1. part \in [Index -> SUBSET Nat]
      BY <2>2
    <3> QED
      BY <2>1, <3>1, UpdateType DEF MediaType
  <2>6. MediaType' /\ acked' = acked
    BY <1>9, <2>4, <2>5 DEF Compact, MediaType
  <2>7. "compact" \in PublishJob
    BY DEF PublishJob
  <2>8. LocalType' /\ CallType'
    BY <2>1, <2>3, <2>7, BeginCopyType, ReturnErrorType DEF CallType
  <2> QED
    BY <2>6, <2>8
<1>10. CASE Flush
  <2>1. mem # {} /\ FreeIndexes(ram) # {} /\ mem \subseteq 1 .. MaxSeq
    BY <1>10 DEF Flush, CallInv, BoundInv
  <2>2. Flushed \in ManifestRecord
    BY <2>1, FlushedType DEF LocalType
  <2>3. ram.ntg \in Nat /\ mem \in SUBSET Nat
    BY DEF LocalType, ManifestRecord
  <2>4. tab' \in [Two -> [Index -> Nat]]
    BY <1>10, <2>3, NestedUpdateType DEF Flush, MediaType
  <2>5. ents' \in [Two -> [Index -> SUBSET Nat]]
    BY <1>10, <2>3, NestedUpdateType DEF Flush, MediaType
  <2>6. MediaType' /\ acked' = acked
    BY <1>10, <2>4, <2>5 DEF Flush, MediaType
  <2>7. "flush" \in PublishJob
    BY DEF PublishJob
  <2>8. LocalType' /\ CallType'
    BY <1>10, <2>2, <2>7, BeginCopyType DEF Flush, CallType
  <2> QED
    BY <2>6, <2>8
<1>11. CASE Stabilize
  <2>1. "stabilize" \in PublishJob
    BY DEF PublishJob
  <2>2. (BeginCopy(ram, "stabilize", back) \/ ReturnTo(back)) /\ UNCHANGED <<media, acked>>
    BY <1>11 DEF Stabilize
  <2> QED
    BY <2>1, <2>2, BeginCopyType, ReturnToType, UnchangedMediaType DEF LocalType, CallType
<1> QED
  BY <1>1, <1>2, <1>3, <1>4, <1>5, <1>6, <1>7, <1>8, <1>9, <1>10, <1>11 DEF CommitSteps

\* The steps after a manifest copy was written preserve the types.
LEMMA PublishStepsType ==
    ASSUME TypeOK, PublishSteps
    PROVE  TypeOK'
<1> USE TypeParts, TypePartsNext
<1>1. PICK j \in PublishJob : Published(j)
  BY DEF PublishSteps, PublishJob, ProvisioningCopyPublished, ReadyPublished,
         FlushPublished, CompactionPublished, RotationPublished, StabilizationPublished
<1>2. MediaType'
  <2>1. copy' \in [Two -> ManifestRecord]
    BY <1>1, UpdateType DEF Published, MediaType, CallType
  <2> QED
    BY <1>1, <2>1 DEF Published, MediaType
<1>3. (stab \in BOOLEAN)'
  BY Zenon DEF PublishSteps, ProvisioningCopyPublished, ReadyPublished,
         FlushPublished, CompactionPublished, RotationPublished, StabilizationPublished,
         LocalType
<1>4. mem' \in SUBSET Nat /\ pc' \in Place
  BY DEF PublishSteps, ProvisioningCopyPublished, ReadyPublished,
         FlushPublished, CompactionPublished, RotationPublished, StabilizationPublished,
         LocalType, CallType, Place
<1>5. LocalType' /\ CallType'
  BY <1>1, <1>3, <1>4 DEF Published, LocalType, CallType
<1> QED
  BY <1>1, <1>2, <1>5 DEF Published

\* Failures, deinit() and power cuts preserve the types.
LEMMA FailureStepsType ==
    ASSUME TypeOK, FailureSteps
    PROVE  TypeOK'
<1> USE TypeParts, TypePartsNext
<1>0. ASSUME CopyInterrupted PROVE MediaType'
  <2>1. PICK c \in {copy[Slot(out.gen)], TornCopy, out} :
           copy' = [copy EXCEPT ![Slot(out.gen)] = c]
    BY <1>0 DEF CopyInterrupted
  <2>2. Slot(out.gen) \in Two
    BY DEF Slot, CallType, ManifestRecord, Two
  <2>3. c \in ManifestRecord
    BY <2>2, RecordTypes DEF MediaType, CallType
  <2>4. copy' \in [Two -> ManifestRecord]
    BY <2>1, <2>3, UpdateType DEF MediaType
  <2> QED
    BY <1>0, <2>4 DEF CopyInterrupted, MediaType
<1>1. CASE PublishFails
  <2>1. CASE up
    <3>1. (faulted \in BOOLEAN)'
      BY <1>1, <2>1, Zenon DEF PublishFails
    <3>2. LocalType' /\ CallType'
      BY <1>1, <2>1, <3>1 DEF PublishFails, LocalType, CallType, Place
    <3> QED
      BY <1>0, <1>1, <3>2 DEF PublishFails
  <2>2. CASE ~up
    BY <1>0, <1>1, <2>2, GoDownType DEF PublishFails
  <2> QED
    BY <2>1, <2>2
<1>2. CASE CallFails
  BY <1>2, ReturnErrorType, UnchangedMediaType DEF CallFails
<1>3. CASE AppendFails
  <2>1. UNCHANGED media \/ \E op \in Staged : Persist(op)
    BY <1>3 DEF AppendFails
  <2>2. MediaType'
    BY <2>1, PersistType, UnchangedMediaType
  <2> QED
    BY <1>3, <2>2, ReturnErrorType DEF AppendFails
<1>4. CASE Deinit
  BY <1>4, GoDownType, UnchangedMediaType DEF Deinit
<1>5. CASE PowerCut
  <2>1. CopyInterrupted \/ UNCHANGED media \/ \E op \in Staged : Persist(op)
    BY <1>5 DEF PowerCut
  <2>2. MediaType'
    BY <1>0, <2>1, PersistType, UnchangedMediaType
  <2> QED
    BY <1>5, <2>2, GoDownType DEF PowerCut
<1>6. CASE LoseCopy
  <2>1. copy' \in [Two -> ManifestRecord]
    BY <1>6, UpdateType, RecordTypes DEF LoseCopy, MediaType
  <2>2. MediaType'
    BY <1>6, <2>1 DEF LoseCopy, MediaType
  <2> QED
    BY <1>6, <2>2 DEF LoseCopy, local, call, LocalType, CallType
<1> QED
  BY <1>1, <1>2, <1>3, <1>4, <1>5, <1>6 DEF FailureSteps

-----------------------------------------------------------------------------
(* What the copies on the medium reach while a call runs.                  *)

\* Successive generations alternate between the two manifest slots.
LEMMA SlotType ==
    \A g \in Nat : /\ Slot(g) \in Two
                   /\ Other(Slot(g)) \in Two
                   /\ Slot(g + 1) = Other(Slot(g))
                   /\ Slot(g) # Other(Slot(g))
BY DEF Slot, Other, Two

\* There is no third slot.
LEMMA TwoSlots ==
    ASSUME NEW s \in Two, NEW g \in Nat
    PROVE  s = Slot(g) \/ s = Other(Slot(g))
BY DEF Slot, Other, Two

\* While the engine serves, both copies reach the storage the manifest in RAM
\* reaches, except that the older one may lack tables.
LEMMA BothReachSame ==
    ASSUME IInv, pc \notin {"down", "create", "provision", "firstwal"},
           ram.state = "ready", ~faulted, ~stab,
           NEW s \in Two, Valid(copy[s])
    PROVE  /\ copy[s].bank = ram.bank
           /\ copy[s].wgen = ram.wgen
           /\ copy[s].vbank = ram.vbank
           /\ copy[s].vgen = ram.vgen
           /\ \A i \in Index : copy[s].tabs[1 - ram.bank][i].gen = 0
           /\ \A i \in Index : ram.tabs[ram.bank][i].gen = 0 =>
                                  copy[s].tabs[ram.bank][i].gen = 0
<1>1. ram.gen \in Nat /\ ram.bank \in Two
  BY DEF IInv, TypeOK, ManifestRecord
<1>2. ram.gen # 0
  BY DEF IInv, RamInv, FreshManifest
<1>3. copy[Slot(ram.gen)] = ram /\ Valid(ram)
  BY <1>1, <1>2 DEF IInv, RamInv
<1>4. CopySound(copy[s], s)
  BY DEF IInv, MediumInv
<1>5. ReferencesEncodable(copy[s])
  BY <1>4 DEF CopySound, Encodable
<1>6. CASE s = Slot(ram.gen)
  BY <1>3, <1>5, <1>6 DEF ReferencesEncodable
<1>7. CASE s = Other(Slot(ram.gen))
  <2>1. SameReach(copy[s], ram)
    BY <1>7 DEF IInv, StableInv
  <2>2. copy[s].gen + 1 = ram.gen
    BY <1>1, <1>2, <1>7 DEF IInv, RamInv
  <2>3. Slot(ram.gen) \in Two /\ Other(Slot(ram.gen)) = s /\ Valid(copy[0]) /\ Valid(copy[1])
    BY <1>1, <1>3, <1>7, SlotType DEF Two
  <2>4. copy[s].gen \in Nat
    BY DEF IInv, TypeOK, ManifestRecord
  <2>5. Adjacent(copy[s], ram)
    BY <1>3, <2>2, <2>3, <2>4 DEF IInv, MediumInv
  <2>6. copy[s].gen < ram.gen
    BY <2>2, <2>4
  <2>7. copy[s].bank = ram.bank
    BY <2>1 DEF SameReach
  <2>8. \A i \in Index : copy[s].tabs[ram.bank][i].gen # 0 =>
            copy[s].tabs[ram.bank][i] = ram.tabs[ram.bank][i]
    BY <1>1, <2>5, <2>6, <2>7 DEF Adjacent
  <2> QED
    BY <1>5, <2>1, <2>7, <2>8 DEF SameReach, ReferencesEncodable
<1> QED
  BY <1>1, <1>6, <1>7, TwoSlots

\* While the manifest in RAM still says "provisioning", so do the copies.
LEMMA ProvisioningReachesNothing ==
    ASSUME IInv, pc # "down", ram.state = "provisioning", ~faulted,
           NEW s \in Two, Valid(copy[s])
    PROVE  copy[s] = [FreshManifest EXCEPT !.gen = copy[s].gen]
<1>1. ram.gen \in Nat
  BY DEF IInv, TypeOK, ManifestRecord
<1>2. ram.gen > 0
  BY <1>1 DEF IInv, RamInv
<1>3. copy[Slot(ram.gen)] = ram /\ Valid(ram)
  BY <1>2 DEF IInv, RamInv
<1>4. CopySound(copy[s], s)
  BY DEF IInv, MediumInv
<1>5. copy[s].state = "provisioning"
  <2>1. CASE s = Slot(ram.gen)
    BY <1>3, <2>1
  <2>2. CASE s = Other(Slot(ram.gen))
    <3>1. copy[s].gen + 1 = ram.gen
      BY <1>2, <2>2 DEF IInv, RamInv
    <3>2. Slot(ram.gen) \in Two /\ Other(Slot(ram.gen)) = s /\ Valid(copy[0]) /\ Valid(copy[1])
      BY <1>1, <1>3, <2>2, SlotType DEF Two
    <3>3. copy[s].gen \in Nat
      BY DEF IInv, TypeOK, ManifestRecord
    <3>4. Adjacent(copy[s], ram)
      BY <1>3, <3>1, <3>2, <3>3 DEF IInv, MediumInv
    <3>5. copy[s].gen < ram.gen
      BY <3>1, <3>3
    <3> QED
      BY <3>4, <3>5 DEF Adjacent, Valid
  <2> QED
    BY <1>1, <2>1, <2>2, TwoSlots
<1> QED
  BY <1>4, <1>5 DEF CopySound, Encodable

-----------------------------------------------------------------------------
(* No write to tables, WAL slots or value banks touches what a copy reaches. *)

CopiesIntact == \A s \in Two : Valid(copy[s]) => StorageIntact(copy[s])

\* IInv has the storage of every valid copy intact.
LEMMA CopiesIntactNow == IInv => CopiesIntact
BY DEF IInv, MediumInv, CopySound, CopiesIntact

\* Storage that no step touches stays intact.
LEMMA UnchangedKeeps ==
    ASSUME CopiesIntact, UNCHANGED <<copy, tab, wal, vb>>
    PROVE  CopiesIntact'
BY DEF CopiesIntact, StorageIntact

\* Appending to the WAL disturbs no copy.
LEMMA PersistKeeps ==
    ASSUME IInv, NEW op, Persist(op)
    PROVE  CopiesIntact'
<1>1. \A w \in Two : wal'[w].gen = wal[w].gen
  BY DEF Persist, IInv, TypeOK, WalSlot
<1>2. UNCHANGED <<copy, tab, vb>>
  BY DEF Persist
<1> QED
  BY <1>1, <1>2, CopiesIntactNow DEF CopiesIntact, StorageIntact

\* Erasing the destination banks of a compaction disturbs no copy.
LEMMA BeginCompactionKeeps ==
    ASSUME IInv, pc \in Serving, ~faulted, NEW b, BeginCompaction(b)
    PROVE  CopiesIntact'
<1>1. CASE ram.gen > MaxGeneration - 2
  BY <1>1, CopiesIntactNow, UnchangedKeeps DEF BeginCompaction, media
<1>2. CASE ~(ram.gen > MaxGeneration - 2)
  <2>1. SUFFICES ASSUME NEW s \in Two, Valid(copy[s])
                 PROVE  StorageIntact(copy[s])'
    BY <1>2 DEF BeginCompaction, CopiesIntact
  <2>2. /\ tab' = [tab EXCEPT ![1 - ram.bank] = [i \in Index |-> 0]]
        /\ vb' = [vb EXCEPT ![1 - ram.vbank] = ram.vgen[1 - ram.vbank] + 1]
        /\ UNCHANGED <<copy, wal>>
    BY <1>2 DEF BeginCompaction
  <2>3. up /\ ram.state = "ready" /\ ~stab /\ pc \notin {"down", "create", "provision", "firstwal"}
    BY DEF IInv, CallInv, Serving
  <2>4. /\ copy[s].bank = ram.bank
        /\ copy[s].vbank = ram.vbank
        /\ \A i \in Index : copy[s].tabs[1 - ram.bank][i].gen = 0
    BY <2>1, <2>3, BothReachSame
  <2>5. StorageIntact(copy[s])
    BY <2>1, CopiesIntactNow DEF CopiesIntact
  <2>6. ram.bank \in Two /\ ram.vbank \in Two /\ tab \in [Two -> [Index -> Nat]] /\ vb \in [Two -> Nat]
    BY DEF IInv, TypeOK, ManifestRecord
  <2>7. ASSUME NEW b1 \in Two, NEW i \in Index, copy[s].tabs[b1][i].gen # 0
        PROVE  tab'[b1][i] = copy[s].tabs[b1][i].gen
    <3>1. b1 # 1 - ram.bank
      BY <2>4, <2>7
    <3>2. tab'[b1] = tab[b1]
      BY <2>2, <2>6, <3>1
    <3> QED
      BY <2>5, <2>7, <3>2 DEF StorageIntact
  <2>8. vb'[copy[s].vbank] = copy[s].vgen[copy[s].vbank]
    <3>1. ram.vbank # 1 - ram.vbank
      BY <2>6 DEF Two
    <3> QED
      BY <2>2, <2>4, <2>5, <2>6, <3>1 DEF StorageIntact
  <2> QED
    BY <2>2, <2>5, <2>7, <2>8 DEF StorageIntact
<1> QED
  BY <1>1, <1>2

\* Writing a free table slot of the active bank disturbs no copy.
LEMMA TableWriteKeeps ==
    ASSUME IInv, pc \in Serving, ~faulted, FreeIndexes(ram) # {}, NEW g,
           tab' = [tab EXCEPT ![ram.bank][Min(FreeIndexes(ram))] = g],
           UNCHANGED <<copy, wal, vb>>
    PROVE  CopiesIntact'
<1>1. SUFFICES ASSUME NEW s \in Two, Valid(copy[s])
               PROVE  StorageIntact(copy[s])'
  BY DEF CopiesIntact
<1>2. up /\ ram.state = "ready" /\ ~stab /\ pc \notin {"down", "create", "provision", "firstwal"}
  BY DEF IInv, CallInv, Serving
<1>3. \A i \in Index : ram.tabs[ram.bank][i].gen = 0 => copy[s].tabs[ram.bank][i].gen = 0
  BY <1>1, <1>2, BothReachSame
<1>4. Min(FreeIndexes(ram)) \in FreeIndexes(ram)
  <2>1. FreeIndexes(ram) \in SUBSET Nat
    BY DEF FreeIndexes, Index
  <2> QED
    BY <2>1, MinOfNaturals
<1>5. StorageIntact(copy[s])
  BY <1>1, CopiesIntactNow DEF CopiesIntact
<1>6. ram.bank \in Two /\ tab \in [Two -> [Index -> Nat]]
  BY DEF IInv, TypeOK, ManifestRecord
<1>7. ASSUME NEW b \in Two, NEW i \in Index, copy[s].tabs[b][i].gen # 0
      PROVE  tab'[b][i] = copy[s].tabs[b][i].gen
  <2>1. ~(b = ram.bank /\ i = Min(FreeIndexes(ram)))
    BY <1>3, <1>4, <1>7 DEF FreeIndexes
  <2>2. tab'[b][i] = tab[b][i]
    BY <1>6, <2>1
  <2> QED
    BY <1>5, <1>7, <2>2 DEF StorageIntact
<1> QED
  BY <1>5, <1>7 DEF StorageIntact

\* Neither does beginning a flush ...
LEMMA BeginFlushKeeps ==
    ASSUME IInv, pc \in Serving, ~faulted, NEW b, BeginFlush(b)
    PROVE  CopiesIntact'
<1>1. CASE FreeIndexes(ram) = {}
  BY <1>1, BeginCompactionKeeps DEF BeginFlush
<1>2. CASE FreeIndexes(ram) # {}
  BY <1>2, TableWriteKeeps DEF BeginFlush
<1> QED
  BY <1>1, <1>2

\* ... nor writing the output of a compaction ...
LEMMA CompactKeeps ==
    ASSUME IInv, Compact
    PROVE  CopiesIntact'
<1>1. SUFFICES ASSUME NEW s \in Two, Valid(copy[s])
               PROVE  StorageIntact(copy[s])'
  BY DEF Compact, CopiesIntact
<1>2. /\ pc = "compact" /\ up /\ ram.state = "ready" /\ ~faulted /\ ~stab
  BY DEF Compact, IInv, CallInv, Serving
<1>3. PICK new : tab' = [tab EXCEPT ![1 - ram.bank] = new]
  <2>1. ram \in ManifestRecord
    BY DEF IInv, TypeOK
  <2>2. \A part : Compacted(part).bank = 1 - ram.bank
    BY <2>1 DEF Compacted, ManifestRecord
  <2> QED
    BY <2>2 DEF Compact
<1>4. UNCHANGED <<copy, wal, vb>>
  BY DEF Compact
<1>5. \A i \in Index : copy[s].tabs[1 - ram.bank][i].gen = 0
  BY <1>1, <1>2, BothReachSame
<1>6. StorageIntact(copy[s])
  BY <1>1, CopiesIntactNow DEF CopiesIntact
<1>7. ram.bank \in Two /\ tab \in [Two -> [Index -> Nat]]
  BY DEF IInv, TypeOK, ManifestRecord
<1>8. ASSUME NEW b \in Two, NEW i \in Index, copy[s].tabs[b][i].gen # 0
      PROVE  tab'[b][i] = copy[s].tabs[b][i].gen
  <2>1. b # 1 - ram.bank
    BY <1>5, <1>8
  <2>2. tab'[b] = tab[b]
    BY <1>3, <1>7, <2>1
  <2> QED
    BY <1>6, <1>8, <2>2 DEF StorageIntact
<1> QED
  BY <1>4, <1>6, <1>8 DEF StorageIntact

\* ... nor a new header in the WAL slot that is rotated to.
LEMMA WalHeaderKeeps ==
    ASSUME IInv, pc \in {"header", "synced"}, NEW h,
           wal' = [wal EXCEPT ![1 - ram.wslot] = h],
           UNCHANGED <<copy, tab, vb>>
    PROVE  CopiesIntact'
<1>1. SUFFICES ASSUME NEW s \in Two, Valid(copy[s])
               PROVE  StorageIntact(copy[s])'
  BY DEF CopiesIntact
<1>2. up /\ ram.state = "ready" /\ ~faulted /\ ~stab /\ ram.wgen[1 - ram.wslot] = 0
  BY DEF IInv, CallInv, Serving
<1>3. copy[s].wgen = ram.wgen
  BY <1>1, <1>2, BothReachSame
<1>4. StorageIntact(copy[s])
  BY <1>1, CopiesIntactNow DEF CopiesIntact
<1>5. wal \in [Two -> WalSlot]
  BY DEF IInv, TypeOK
<1>6. ASSUME NEW w \in Two, copy[s].wgen[w] # 0
      PROVE  wal'[w].gen = copy[s].wgen[w]
  <2>1. w # 1 - ram.wslot
    BY <1>2, <1>3, <1>6
  <2>2. wal'[w] = wal[w]
    BY <1>5, <2>1
  <2> QED
    BY <1>4, <1>6, <2>2 DEF StorageIntact
<1> QED
  BY <1>4, <1>6 DEF StorageIntact

\* Before the database is ready, no copy refers to any storage.
LEMMA ProvisioningKeeps ==
    ASSUME IInv, pc # "down", ram.state = "provisioning", ~faulted,
           UNCHANGED <<copy, vb>>
    PROVE  CopiesIntact'
<1>1. SUFFICES ASSUME NEW s \in Two, Valid(copy[s])
               PROVE  StorageIntact(copy[s])'
  BY DEF CopiesIntact
<1>2. copy[s] = [FreshManifest EXCEPT !.gen = copy[s].gen]
  BY <1>1, ProvisioningReachesNothing
<1>3. /\ \A b \in Two : \A i \in Index : copy[s].tabs[b][i].gen = 0
      /\ \A w \in Two : copy[s].wgen[w] = 0
  BY <1>2 DEF FreshManifest, NoTables, Inactive
<1>4. StorageIntact(copy[s])
  BY <1>1, CopiesIntactNow DEF CopiesIntact
<1> QED
  BY <1>3, <1>4 DEF StorageIntact

-----------------------------------------------------------------------------
(* MediumInv                                                               *)

\* No step of init() or commit() disturbs storage that a valid copy reaches.
LEMMA StorageKept ==
    ASSUME IInv, InitSteps \/ CommitSteps
    PROVE  CopiesIntact'
<1> USE CopiesIntactNow
<1>1. CASE UNCHANGED media
  BY <1>1, UnchangedKeeps DEF media
<1>2. CASE ProvisionAllDataFiles
  <2>1. CASE ram.state = "ready"
    BY <1>2, <2>1, UnchangedKeeps DEF ProvisionAllDataFiles, media
  <2>2. CASE ram.state # "ready"
    <3>1. pc = "provision" /\ ~faulted /\ UNCHANGED <<copy, vb>>
      BY <1>2, <2>2 DEF ProvisionAllDataFiles, IInv, CallInv
    <3>2. ram.gen # 0
      BY <3>1 DEF IInv, RamInv
    <3>3. Valid(ram)
      BY <3>1, <3>2 DEF IInv, RamInv, TypeOK, ManifestRecord
    <3> QED
      BY <2>2, <3>1, <3>3, ProvisioningKeeps DEF Valid
  <2> QED
    BY <2>1, <2>2
<1>3. CASE InitialiseFirstWal
  BY <1>3, ProvisioningKeeps DEF InitialiseFirstWal, IInv, CallInv
<1>4. CASE Commit
  <2>1. pc \in Serving /\ ~faulted
    BY <1>4 DEF Commit, Serving
  <2> QED
    BY <1>1, <1>4, <2>1, BeginFlushKeeps DEF Commit
<1>5. CASE BeginValueWrite
  BY <1>5, BeginCompactionKeeps DEF BeginValueWrite, Serving
<1>6. CASE AppendTransaction
  <2>1. pc \in Serving /\ ~faulted
    BY <1>6 DEF AppendTransaction, Serving, IInv, CallInv
  <2> QED
    BY <1>1, <1>6, <2>1, BeginFlushKeeps, BeginCompactionKeeps DEF AppendTransaction
<1>7. CASE BeginWalHeader
  BY <1>7, WalHeaderKeeps DEF BeginWalHeader
<1>8. CASE WalHeaderSynced
  BY <1>8, WalHeaderKeeps DEF WalHeaderSynced
<1>9. CASE AppendFrames
  BY <1>9, PersistKeeps DEF AppendFrames
<1>10. CASE Compact
  BY <1>10, CompactKeeps
<1>11. CASE Flush
  <2>1. pc \in Serving /\ ~faulted /\ FreeIndexes(ram) # {}
    BY <1>11 DEF Flush, Serving, IInv, CallInv
  <2> QED
    BY <1>11, <2>1, TableWriteKeeps DEF Flush
<1>12. CASE SetupManifest \/ WriteProvisioningCopy \/ RecoverWal \/ Serve
  <2>1. UNCHANGED media
    BY <1>12 DEF SetupManifest, WriteProvisioningCopy, RecoverWal, Serve
  <2> QED
    BY <1>1, <2>1
<1>13. CASE BeginAppend \/ RotateWal \/ Stabilize
  <2>1. UNCHANGED media
    BY <1>13 DEF BeginAppend, RotateWal, Stabilize
  <2> QED
    BY <1>1, <2>1
<1> QED
  BY <1>2, <1>3, <1>4, <1>5, <1>6, <1>7, <1>8, <1>9, <1>10, <1>11, <1>12, <1>13
     DEF InitSteps, CommitSteps

\* MediumInv is kept by steps that write no manifest copy.
LEMMA SameCopiesMedium ==
    ASSUME IInv, copy' = copy, CopiesIntact', acked' > 0 => acked > 0 \/ ram.state = "ready",
           pc # "down" \/ acked' = acked
    PROVE  MediumInv'
<1>1. \A s \in Two : (Valid(copy[s]) => CopySound(copy[s], s))'
  BY DEF IInv, MediumInv, CopySound, CopiesIntact, Encodable
<1>2. acked' > 0 => Valid(copy'[0]) \/ Valid(copy'[1])
  <2>1. CASE acked > 0
    BY <2>1 DEF IInv, MediumInv
  <2>2. CASE ~(acked > 0) /\ acked' > 0
    <3>1. ram.state = "ready" /\ pc # "down"
      BY <2>2
    <3>2. ram.gen # 0
      BY <3>1 DEF IInv, RamInv, FreshManifest
    <3>3. ram.gen \in Nat
      BY DEF IInv, TypeOK, ManifestRecord
    <3>4. Valid(copy[Slot(ram.gen)]) /\ Slot(ram.gen) \in Two
      BY <3>1, <3>2, <3>3, SlotType DEF IInv, RamInv
    <3> QED
      BY <3>4 DEF Two
  <2> QED
    BY <2>1, <2>2
<1> QED
  BY <1>1, <1>2 DEF IInv, MediumInv

\* MediumInv is kept by a copy that is written, torn or not written at all.
LEMMA CopyWriteMedium ==
    ASSUME IInv, pc = "publish",
           NEW c \in {copy[Slot(out.gen)], TornCopy, out},
           copy' = [copy EXCEPT ![Slot(out.gen)] = c],
           UNCHANGED <<tab, wal, vb, acked>>
    PROVE  MediumInv'
<1>1. out.gen = ram.gen + 1 /\ ram.gen \in Nat /\ copy \in [Two -> ManifestRecord]
  BY DEF IInv, PublishInv, TypeOK, ManifestRecord
<1>2. PICK s : s = Slot(out.gen)
  OBVIOUS
<1>3. s = Other(Slot(ram.gen)) /\ s \in Two
  BY <1>1, <1>2, SlotType
<1>4. Other(s) \in Two /\ Other(s) = Slot(ram.gen) /\ Other(s) # s
  <2>1. Slot(ram.gen) \in Two
    BY <1>1, SlotType
  <2> QED
    BY <1>3, <2>1 DEF Other, Two
<1>5. PICK o : o = copy[Other(s)]
  OBVIOUS
<1>6. copy'[s] = c /\ copy'[Other(s)] = o
  BY <1>1, <1>2, <1>3, <1>4, <1>5
<1>7. ~Valid(TornCopy)
  BY DEF TornCopy, FreshManifest, Valid
<1>8. \A t \in Two : t = s \/ t = Other(s)
  BY <1>3 DEF Other, Two
<1>9. CASE c = copy[s]
  <2>1. copy' = copy
    BY <1>1, <1>2, <1>9
  <2>2. CopiesIntact'
    BY <2>1, CopiesIntactNow, UnchangedKeeps
  <2> QED
    BY <2>1, <2>2, SameCopiesMedium
<1>10. CASE c \in {TornCopy, out}
  <2>1. Valid(o) => CopySound(o, Other(s))'
    BY <1>4, <1>5 DEF IInv, MediumInv, CopySound, StorageIntact
  <2>2. Valid(c) => CopySound(c, s)'
    <3>1. CASE c = TornCopy
      BY <1>7, <3>1
    <3>2. CASE c = out
      <4>1. Encodable(c) /\ c.gen <= MaxGeneration /\ StorageIntact(c) /\ Slot(c.gen) = s
        BY <1>2, <3>2 DEF IInv, PublishInv
      <4> QED
        BY <4>1 DEF CopySound, StorageIntact
    <3> QED
      BY <1>10, <3>1, <3>2
  <2>3. \A t \in Two : (Valid(copy[t]) => CopySound(copy[t], t))'
    BY <1>6, <1>8, <2>1, <2>2 DEF CopySound, StorageIntact
  <2>4. CASE ram.gen = 0
    <3>1. acked' = 0 /\ ~Valid(o)
      BY <1>4, <1>5, <2>4 DEF IInv, RamInv
    <3>2. ~(Valid(copy'[0]) /\ Valid(copy'[1]))
      BY <1>4, <1>6, <3>1 DEF Two
    <3> QED
      BY <2>3, <3>1, <3>2 DEF MediumInv
  <2>5. CASE ram.gen > 0
    <3>1. o = ram /\ Valid(o)
      BY <1>4, <1>5, <2>5 DEF IInv, RamInv
    <3>2. Valid(c) => c = out
      BY <1>7, <1>10
    <3>3. Adjacent(ram, out)
      BY <2>5 DEF IInv, PublishInv
    <3>4. ASSUME NEW t \in Two, Valid(copy'[0]), Valid(copy'[1]),
                 copy'[Other(t)].gen < copy'[t].gen
          PROVE  Adjacent(copy'[Other(t)], copy'[t])
      <4>1. Valid(c) /\ c = out
        BY <1>3, <1>6, <3>2, <3>4 DEF Two
      <4>2. CASE t = s
        BY <1>6, <3>1, <3>3, <4>1, <4>2
      <4>3. CASE t = Other(s)
        <5>1. Other(t) = s
          BY <1>3, <4>3 DEF Other, Two
        <5>2. out.gen < ram.gen
          BY <1>6, <3>1, <3>4, <4>1, <4>3, <5>1
        <5> QED
          BY <1>1, <5>2
      <4> QED
        BY <1>8, <4>2, <4>3
    <3>5. Valid(copy'[0]) /\ Valid(copy'[1]) =>
             copy'[0].gen = copy'[1].gen + 1 \/ copy'[1].gen = copy'[0].gen + 1
      <4>1. SUFFICES ASSUME Valid(copy'[0]), Valid(copy'[1])
                     PROVE  copy'[0].gen = copy'[1].gen + 1 \/ copy'[1].gen = copy'[0].gen + 1
        OBVIOUS
      <4>2. c = out
        BY <1>3, <1>6, <3>2, <4>1 DEF Two
      <4>3. copy'[s].gen = copy'[Other(s)].gen + 1
        BY <1>1, <1>6, <3>1, <4>2
      <4> QED
        BY <1>3, <4>3 DEF Other, Two
    <3>6. Valid(copy'[0]) \/ Valid(copy'[1])
      BY <1>4, <1>6, <3>1 DEF Two
    <3> QED
      BY <2>3, <3>4, <3>5, <3>6 DEF MediumInv
  <2> QED
    BY <1>1, <2>4, <2>5
<1> QED
  BY <1>2, <1>9, <1>10

\* MediumInv is kept by every step.
LEMMA MediumStep ==
    ASSUME IInv, Next
    PROVE  MediumInv'
<1>1. CASE InitSteps \/ CommitSteps
  <2>1. CopiesIntact' 
    BY <1>1, StorageKept
  <2>2. copy' = copy
    BY <1>1 DEF InitSteps, CommitSteps, SetupManifest, WriteProvisioningCopy,
       ProvisionAllDataFiles, InitialiseFirstWal, RecoverWal, Serve, Commit,
       BeginValueWrite, BeginAppend, AppendTransaction, RotateWal, BeginWalHeader,
       WalHeaderSynced, AppendFrames, Compact, Flush, Stabilize, BeginFlush,
       BeginCompaction, Persist, media
  <2>3. \/ acked' = acked
        \/ pc # "down" /\ ram.state = "ready"
    BY <1>1 DEF InitSteps, CommitSteps, SetupManifest, WriteProvisioningCopy,
       ProvisionAllDataFiles, InitialiseFirstWal, RecoverWal, Serve, Commit,
       BeginValueWrite, BeginAppend, AppendTransaction, RotateWal, BeginWalHeader,
       WalHeaderSynced, AppendFrames, Compact, Flush, Stabilize, IInv, CallInv, Serving
  <2> QED
    BY <2>1, <2>2, <2>3, SameCopiesMedium
<1>2. CASE PublishSteps
  <2>1. PICK j : Published(j)
    BY <1>2 DEF PublishSteps, ProvisioningCopyPublished, ReadyPublished,
         FlushPublished, CompactionPublished, RotationPublished, StabilizationPublished
  <2> QED
    BY <2>1, CopyWriteMedium DEF Published
<1>3. CASE PublishFails
  BY <1>3, CopyWriteMedium DEF PublishFails, CopyInterrupted
<1>4. CASE CallFails \/ Deinit
  <2>1. UNCHANGED <<media, acked>>
    BY <1>4 DEF CallFails, Deinit
  <2>2. CopiesIntact'
    BY <2>1, CopiesIntactNow, UnchangedKeeps DEF media
  <2> QED
    BY <2>1, <2>2, SameCopiesMedium DEF media
<1>5. CASE AppendFails
  <2>1. acked' = acked /\ (UNCHANGED media \/ \E op : Persist(op))
    BY <1>5 DEF AppendFails
  <2>2. CopiesIntact' /\ copy' = copy
    BY <2>1, CopiesIntactNow, UnchangedKeeps, PersistKeeps DEF media, Persist
  <2> QED
    BY <2>1, <2>2, SameCopiesMedium
<1>6. CASE PowerCut
  <2>1. CASE pc = "publish"
    BY <1>6, <2>1, CopyWriteMedium DEF PowerCut, CopyInterrupted
  <2>2. CASE pc # "publish"
    <3>1. acked' = acked /\ (UNCHANGED media \/ \E op : Persist(op))
      BY <1>6, <2>2 DEF PowerCut
    <3>2. CopiesIntact' /\ copy' = copy
      BY <3>1, CopiesIntactNow, UnchangedKeeps, PersistKeeps DEF media, Persist
    <3> QED
      BY <3>1, <3>2, SameCopiesMedium
  <2> QED
    BY <2>1, <2>2
<1>7. CASE LoseCopy
  <2>1. PICK s \in Two : copy' = [copy EXCEPT ![s] = TornCopy]
    BY <1>7 DEF LoseCopy
  <2>2. UNCHANGED <<wal, tab, vb, acked>>
    BY <1>7 DEF LoseCopy
  <2>3. Valid(copy[0]) /\ Valid(copy[1])
    BY <1>7 DEF LoseCopy, ValidSlots, Two
  <2>4. PICK o : o = copy[Other(s)]
    OBVIOUS
  <2>5. Other(s) \in Two /\ copy'[s] = TornCopy /\ copy'[Other(s)] = o
    BY <2>1, <2>4 DEF Other, Two, IInv, TypeOK
  <2>6. ~Valid(copy'[s])
    BY <2>5 DEF TornCopy, FreshManifest, Valid
  <2>7. Valid(o) /\ CopySound(o, Other(s))'
    BY <2>2, <2>3, <2>4, <2>5 DEF IInv, MediumInv, CopySound, StorageIntact, Two
  <2>8. \A t \in Two : t = s \/ t = Other(s)
    BY DEF Other, Two
  <2>9. \A t \in Two : (Valid(copy[t]) => CopySound(copy[t], t))'
    BY <2>5, <2>6, <2>7, <2>8 DEF CopySound, StorageIntact
  <2>10. ~(Valid(copy'[0]) /\ Valid(copy'[1])) /\ (Valid(copy'[0]) \/ Valid(copy'[1]))
    BY <2>5, <2>6, <2>7 DEF Two
  <2> QED
    BY <2>9, <2>10 DEF MediumInv
<1> QED
  BY <1>1, <1>2, <1>3, <1>4, <1>5, <1>6, <1>7 DEF Next, FailureSteps

\* The parts of IInv about the run in progress.
RunInv == FreshInv /\ RamInv /\ StableInv /\ CallInv /\ CheckpointInv /\ PublishInv

-----------------------------------------------------------------------------
(* What the manifest in RAM is worth.                                      *)

\* A manifest in RAM of generation > 0 is a sound copy on the medium.
LEMMA RamIsCopy ==
    ASSUME IInv, pc # "down", ram.gen # 0
    PROVE  /\ Valid(ram) /\ copy[Slot(ram.gen)] = ram /\ Slot(ram.gen) \in Two
           /\ Encodable(ram) /\ ram.gen <= MaxGeneration /\ StorageIntact(ram)
<1>1. ram.gen \in Nat
  BY DEF IInv, TypeOK, ManifestRecord
<1>2. Valid(ram) /\ copy[Slot(ram.gen)] = ram
  BY <1>1 DEF IInv, RamInv
<1>3. Slot(ram.gen) \in Two
  BY <1>1, SlotType
<1> QED
  BY <1>2, <1>3 DEF IInv, MediumInv, CopySound

\* A serving engine has a ready manifest of some generation.
LEMMA UpFacts ==
    ASSUME IInv, up
    PROVE  pc # "down" /\ ram.state = "ready" /\ ram.gen # 0
BY DEF IInv, CallInv, RamInv, FreshManifest

\* The next copy of an encodable record is encodable.
LEMMA CopyEncodable ==
    ASSUME NEW m \in ManifestRecord, Encodable(m), NEW g \in Nat, g > m.gen
    PROVE  Encodable([m EXCEPT !.gen = g])
<1> DEFINE n == [m EXCEPT !.gen = g]
<1>1. /\ n.state = m.state /\ n.gen = g /\ n.bank = m.bank /\ n.tabs = m.tabs
      /\ n.wslot = m.wslot /\ n.wgen = m.wgen /\ n.ckpt = m.ckpt /\ n.ntg = m.ntg
  BY DEF ManifestRecord
<1>2. ReferencesEncodable(n)
  <2>1. ActiveIndexes(n) = ActiveIndexes(m)
    BY <1>1 DEF ActiveIndexes
  <2> QED
    BY <1>1, <2>1 DEF Encodable, ReferencesEncodable
<1>3. m.gen \in Nat
  BY DEF ManifestRecord
<1>4. m.state = "provisioning" => n = [FreshManifest EXCEPT !.gen = n.gen]
  <2>1. SUFFICES ASSUME m.state = "provisioning"
                 PROVE  n = [FreshManifest EXCEPT !.gen = n.gen]
    OBVIOUS
  <2>2. PICK h : m = [FreshManifest EXCEPT !.gen = h]
    BY <2>1 DEF Encodable
  <2> QED
    BY <1>1, <2>2 DEF FreshManifest
<1> QED
  BY <1>1, <1>2, <1>3, <1>4 DEF Encodable

\* Reachable storage does not depend on the generation of the record.
LEMMA CopyStorage ==
    ASSUME NEW m \in ManifestRecord, StorageIntact(m), NEW g
    PROVE  StorageIntact([m EXCEPT !.gen = g])
BY DEF StorageIntact, ManifestRecord

-----------------------------------------------------------------------------
(* Endings of a call.                                                      *)

\* A database that is down has forgotten its run.
LEMMA DownRun ==
    ASSUME IInv, GoDown, copy' = [s \in Two |-> BlankCopy] => copy = copy' /\ vb' = vb
    PROVE  RunInv'
<1>1. FreshInv'
  BY DEF GoDown, IInv, FreshInv
<1>2. RamInv' /\ StableInv' /\ PublishInv'
  BY DEF GoDown, RamInv, StableInv, PublishInv
<1>3. CallInv'
  BY DEF GoDown, CallInv, Serving
<1>4. CheckpointInv'
  BY DEF GoDown, CheckpointInv
<1> QED
  BY <1>1, <1>2, <1>3, <1>4 DEF RunInv

\* A step of a serving engine that leaves the copies and the RAM state alone.
LEMMA StayServing ==
    ASSUME IInv, up, UNCHANGED <<copy, local, acked>>, pc' # "publish", pc' # "down"
    PROVE  FreshInv' /\ RamInv' /\ StableInv' /\ CheckpointInv' /\ PublishInv'
<1>1. pc # "down" /\ ram.state = "ready" /\ ram.gen # 0
  BY UpFacts
<1>2. ram.gen \in Nat
  BY DEF IInv, TypeOK, ManifestRecord
<1>3. FreshInv'
  <2>1. Valid(copy[Slot(ram.gen)]) /\ Slot(ram.gen) \in Two
    BY <1>1, RamIsCopy
  <2>2. copy' # [s \in Two |-> BlankCopy]
    BY <2>1 DEF Valid, BlankCopy, FreshManifest
  <2> QED
    BY <1>1, <2>2 DEF FreshInv, local
<1>4. RamInv'
  BY <1>1, <1>2 DEF IInv, RamInv, local
<1>5. StableInv'
  BY <1>1 DEF IInv, StableInv, local
<1>6. CheckpointInv'
  BY DEF IInv, CheckpointInv, local
<1>7. PublishInv'
  BY DEF PublishInv
<1> QED
  BY <1>3, <1>4, <1>5, <1>6, <1>7

\* An error without a fault latch.
LEMMA ErrorRun ==
    ASSUME IInv, ReturnError, UNCHANGED <<copy, acked>>, UNCHANGED vb \/ up,
           up => (pc \in Serving \/ pc = "idle") /\ ~faulted
    PROVE  RunInv'
<1>1. CASE up
  <2>1. pc' = "idle" /\ UNCHANGED local
    BY <1>1 DEF ReturnError, ReturnTo
  <2>2. FreshInv' /\ RamInv' /\ StableInv' /\ CheckpointInv' /\ PublishInv'
    BY <1>1, <2>1, StayServing
  <2>3. ram.state = "ready" /\ ~stab
    BY <1>1, UpFacts DEF IInv, CallInv, Serving
  <2>4. CallInv'
    BY <1>1, <2>1, <2>3 DEF CallInv, local, Serving
  <2> QED
    BY <2>2, <2>4 DEF RunInv
<1>2. CASE ~up
  BY <1>2, DownRun DEF ReturnError
<1> QED
  BY <1>1, <1>2

-----------------------------------------------------------------------------
(* Starting to write a manifest copy.                                      *)

\* A copy m begun for job j: what has to be shown of m.
LEMMA CopyRun ==
    ASSUME IInv, pc # "down", ~faulted, NEW m \in ManifestRecord, Valid(m),
           StorageIntact(m)',
           ram.gen > 0 => Adjacent(ram, [m EXCEPT !.gen = ram.gen + 1]),
           ram.gen < MaxGeneration, Encodable([m EXCEPT !.gen = ram.gen + 1]),
           out' = [m EXCEPT !.gen = ram.gen + 1],
           pc' = "publish", JobInv',
           UNCHANGED <<copy, local, acked>>, UNCHANGED vb \/ ram.gen # 0,
           back' = "serve" /\ ~up => pc = "stabilize" /\ back = "serve"
    PROVE  RunInv'
<1>1. ram.gen \in Nat /\ ram \in ManifestRecord
  BY DEF IInv, TypeOK, ManifestRecord
<1>2. FreshInv'
  <2>1. CASE ram.gen = 0
    BY <2>1 DEF IInv, FreshInv, local
  <2>2. CASE ram.gen # 0
    <3>1. Valid(copy[Slot(ram.gen)]) /\ Slot(ram.gen) \in Two
      BY <2>2, RamIsCopy
    <3>2. copy' # [s \in Two |-> BlankCopy]
      BY <3>1 DEF Valid, BlankCopy, FreshManifest
    <3> QED
      BY <2>2, <3>2 DEF FreshInv, local
  <2> QED
    BY <2>1, <2>2
<1>3. RamInv'
  BY <1>1 DEF IInv, RamInv, local
<1>4. StableInv'
  BY DEF IInv, StableInv, local
<1>5. CheckpointInv'
  BY DEF IInv, CheckpointInv, local
<1>6. CallInv'
  BY UpFacts DEF IInv, CallInv, local, Serving
<1>7. PublishInv'
  <2>1. PICK r : r = [m EXCEPT !.gen = ram.gen + 1]
    OBVIOUS
  <2>2. r.gen = ram.gen + 1 /\ r.state = m.state
    BY <2>1 DEF ManifestRecord
  <2>3. Valid(r) /\ r.gen <= MaxGeneration
    BY <1>1, <2>2 DEF Valid
  <2>4. StorageIntact(r)'
    BY <2>1 DEF StorageIntact, ManifestRecord
  <2>5. Encodable(r) /\ (ram.gen > 0 => Adjacent(ram, r))
    BY <2>1
  <2>6. out' = r /\ ram' = ram
    BY <2>1 DEF local
  <2> QED
    BY <2>2, <2>3, <2>4, <2>5, <2>6 DEF PublishInv, StorageIntact
<1> QED
  BY <1>2, <1>3, <1>4, <1>5, <1>6, <1>7 DEF RunInv

\* Beginning to write a provisioning copy keeps RunInv.
LEMMA WriteProvisioningCopyRun ==
    ASSUME IInv, WriteProvisioningCopy
    PROVE  RunInv'
<1> DEFINE record == [ram EXCEPT !.gen = ram.gen + 1]
<1>1. /\ pc = "create" /\ ~up /\ ~faulted /\ ram.state = "provisioning"
      /\ UNCHANGED <<media, acked>>
  BY DEF WriteProvisioningCopy, IInv, CallInv
<1>2. CASE ram.gen < MaxGeneration /\ Encodable(record)
  <2>1. /\ out' = record /\ job' = "create" /\ back' = "provision" /\ pc' = "publish"
        /\ UNCHANGED local
    BY <1>2 DEF WriteProvisioningCopy, BeginCopy
  <2>2. ram \in ManifestRecord /\ Valid(ram)
    BY <1>1 DEF IInv, TypeOK, Valid
  <2>3. StorageIntact(ram)
    <3>1. CASE ram.gen = 0
      <4>1. ram = FreshManifest /\ vb[0] = 1
        BY <1>1, <3>1 DEF IInv, RamInv, FreshInv
      <4> QED
        BY <4>1 DEF StorageIntact, FreshManifest, NoTables, Inactive, Two
    <3>2. CASE ram.gen # 0
      BY <1>1, <3>2, RamIsCopy
    <3> QED
      BY <3>1, <3>2
  <2>4. PICK m : m = ram
    OBVIOUS
  <2>5. StorageIntact(m)'
    BY <1>1, <2>3, <2>4 DEF StorageIntact, media
  <2>6. Adjacent(ram, record)
    BY <2>2 DEF Adjacent, ManifestRecord
  <2>7. JobInv'
    BY <1>1, <2>1, <2>2 DEF JobInv, local, ManifestRecord
  <2> QED
    BY <1>1, <1>2, <2>1, <2>2, <2>4, <2>5, <2>6, <2>7, CopyRun DEF media
<1>3. CASE ~(ram.gen < MaxGeneration /\ Encodable(record))
  BY <1>1, <1>3, ErrorRun DEF WriteProvisioningCopy, BeginCopy, media
<1> QED
  BY <1>2, <1>3

\* Beginning to publish the ready state keeps RunInv.
LEMMA InitialiseFirstWalRun ==
    ASSUME IInv, InitialiseFirstWal
    PROVE  RunInv'
<1> DEFINE new == [ram EXCEPT !.state = "ready", !.wslot = 0,
                              !.wgen = [w \in Two |-> 1 - w], !.ckpt = 0]
           record == [new EXCEPT !.gen = ram.gen + 1]
<1>1. /\ pc = "firstwal" /\ ~up /\ ~faulted /\ ram.state = "provisioning"
      /\ wal' = [wal EXCEPT ![0] = [gen |-> 1, first |-> 1, last |-> 0]]
      /\ UNCHANGED <<copy, tab, ents, vb, ops, acked>>
  BY DEF InitialiseFirstWal, IInv, CallInv
<1>2. ram \in ManifestRecord /\ ram.gen \in Nat /\ wal \in [Two -> WalSlot]
  BY DEF IInv, TypeOK, ManifestRecord
<1>3. CASE ram.gen < MaxGeneration /\ Encodable(record)
  <2>1. /\ out' = record /\ job' = "ready" /\ back' = "recover" /\ pc' = "publish"
        /\ UNCHANGED local
    BY <1>3 DEF InitialiseFirstWal, BeginCopy
  <2>2. ram.gen # 0
    BY <1>1 DEF IInv, RamInv
  <2>3. Encodable(ram) /\ StorageIntact(ram)
    BY <1>1, <2>2, RamIsCopy
  <2>4. PICK g : ram = [FreshManifest EXCEPT !.gen = g]
    BY <1>1, <2>3 DEF Encodable
  <2>5. PICK m : m = new
    OBVIOUS
  <2>6. /\ m.state = "ready" /\ m.wgen = [w \in Two |-> 1 - w]
        /\ m.tabs = [b \in Two |-> NoTables] /\ m.vbank = ram.vbank /\ m.vgen = ram.vgen
        /\ m.ckpt = 0 /\ m.ntg = ram.ntg /\ m.bank = ram.bank /\ m.wslot = 0
    BY <1>2, <2>4, <2>5 DEF FreshManifest, ManifestRecord
  <2>7. m \in ManifestRecord
    <3>1. [w \in Two |-> 1 - w] \in [Two -> Nat]
      BY DEF Two
    <3> QED
      BY <1>2, <2>5, <3>1 DEF ManifestRecord, Two
  <2>8. StorageIntact(m)'
    <3>1. \A b \in Two : \A i \in Index : m.tabs[b][i].gen = 0
      BY <2>6 DEF NoTables, Inactive
    <3>2. \A w \in Two : m.wgen[w] # 0 => wal'[w].gen = m.wgen[w]
      BY <1>1, <1>2, <2>6 DEF Two
    <3>3. vb'[m.vbank] = m.vgen[m.vbank]
      BY <1>1, <2>3, <2>6 DEF StorageIntact
    <3> QED
      BY <3>1, <3>2, <3>3 DEF StorageIntact
  <2>9. Adjacent(ram, record)
    <3>1. ram.ckpt = 0 /\ \A b \in Two : \A i \in Index : ram.tabs[b][i].gen = 0
      BY <2>4 DEF FreshManifest, NoTables, Inactive
    <3>2. /\ record.gen = ram.gen + 1 /\ record.state = "ready" /\ record.ckpt = 0
          /\ record.ntg = ram.ntg
      BY <1>2 DEF ManifestRecord
    <3> QED
      BY <1>1, <1>2, <3>1, <3>2 DEF Adjacent, ManifestRecord
  <2>10. JobInv'
    BY <1>1, <1>2, <2>1 DEF JobInv, local, ManifestRecord
  <2> QED
    BY <1>1, <1>3, <2>1, <2>2, <2>5, <2>6, <2>7, <2>8, <2>9, <2>10, CopyRun DEF Valid
<1>4. CASE ~(ram.gen < MaxGeneration /\ Encodable(record))
  BY <1>1, <1>4, ErrorRun DEF InitialiseFirstWal, BeginCopy
<1> QED
  BY <1>3, <1>4

\* Beginning a stabilizing copy keeps RunInv.
LEMMA StabilizeRun ==
    ASSUME IInv, Stabilize
    PROVE  RunInv'
<1> DEFINE record == [ram EXCEPT !.gen = ram.gen + 1]
<1>1. /\ pc = "stabilize" /\ ~faulted /\ ram.state = "ready"
      /\ back \in {"recover", "serve", "idle", "commit", "append", "rotate", "header", "frames"}
      /\ up <=> back \notin {"recover", "serve"}
      /\ UNCHANGED <<media, acked>>
  BY DEF Stabilize, IInv, CallInv
<1>2. ram.gen # 0 /\ ram \in ManifestRecord /\ ram.gen \in Nat
  BY <1>1 DEF IInv, RamInv, FreshManifest, TypeOK, ManifestRecord
<1>3. Valid(ram) /\ Encodable(ram) /\ StorageIntact(ram)
  BY <1>1, <1>2, RamIsCopy
<1>4. CASE ~stab
  <2>1. pc' = back /\ UNCHANGED <<local, back, job, out>>
    BY <1>4 DEF Stabilize, ReturnTo
  <2>2. back # "publish" /\ back # "down"
    BY <1>1
  <2>3. FreshInv' /\ RamInv'
    BY <1>1, <1>2, <2>1 DEF IInv, FreshInv, RamInv, local, media
  <2>4. StableInv' /\ PublishInv'
    BY <1>1, <2>1, <2>2 DEF IInv, StableInv, PublishInv, local, media
  <2>5. CheckpointInv'
    BY <1>1, <2>1 DEF IInv, CheckpointInv, local
  <2>6. CallInv'
    BY <1>1, <1>4, <2>1 DEF IInv, CallInv, local, Serving
  <2> QED
    BY <2>3, <2>4, <2>5, <2>6 DEF RunInv
<1>5. CASE stab /\ ram.gen < MaxGeneration /\ Encodable(record)
  <2>1. /\ out' = record /\ job' = "stabilize" /\ back' = back /\ pc' = "publish"
        /\ UNCHANGED local
    BY <1>5 DEF Stabilize, BeginCopy
  <2>2. PICK m : m = ram
    OBVIOUS
  <2>3. StorageIntact(m)'
    BY <1>1, <1>3, <2>2 DEF StorageIntact, media
  <2>4. Adjacent(ram, record)
    BY <1>2 DEF Adjacent, ManifestRecord
  <2>5. back # "header"
    BY <1>1, <1>5 DEF IInv, CallInv
  <2>6. JobInv'
    BY <1>1, <1>2, <2>1, <2>5 DEF JobInv, local, ManifestRecord
  <2> QED
    BY <1>1, <1>2, <1>3, <1>5, <2>1, <2>2, <2>3, <2>4, <2>6, CopyRun DEF media
<1>6. CASE stab /\ ~(ram.gen < MaxGeneration /\ Encodable(record))
  <2>1. ReturnError
    BY <1>6 DEF Stabilize, BeginCopy
  <2>2. ~up
    <3>1. Encodable(record)
      BY <1>2, <1>3, CopyEncodable
    <3> QED
      BY <1>1, <1>6, <3>1 DEF IInv, CallInv
  <2> QED
    BY <1>1, <2>1, <2>2, ErrorRun DEF media
<1> QED
  BY <1>4, <1>5, <1>6

\* Writing the table of a flush and beginning its publication keeps RunInv.
LEMMA FlushRun ==
    ASSUME IInv, Flush
    PROVE  RunInv'
<1> DEFINE free == Min(FreeIndexes(ram))
           record == [Flushed EXCEPT !.gen = ram.gen + 1]
<1>1. /\ pc = "flush" /\ up /\ ~faulted /\ ~stab /\ mem # {} /\ FreeIndexes(ram) # {}
      /\ back \in {"idle", "commit", "rotate"}
      /\ tab' = [tab EXCEPT ![ram.bank][free] = ram.ntg]
      /\ UNCHANGED <<copy, wal, vb, acked>>
  BY DEF Flush, IInv, CallInv, Serving
<1>2. /\ ram.gen # 0 /\ ram.state = "ready" /\ ram \in ManifestRecord
      /\ ram.gen \in Nat /\ ram.bank \in Two /\ ram.ntg \in Nat /\ ram.ckpt \in Nat
      /\ next \in Nat
  BY <1>1, UpFacts DEF IInv, TypeOK, ManifestRecord
<1>3. StorageIntact(ram)
  BY <1>1, <1>2, RamIsCopy
<1>4. Flushed \in ManifestRecord /\ free \in FreeIndexes(ram) /\ Max(mem) \in mem
  BY <1>1, <1>2, FlushedType DEF IInv, BoundInv
<1>5. Max(mem) \in Nat /\ ram.ckpt < Max(mem) /\ Max(mem) < next
  <2>1. \A y \in mem : y \in Nat /\ ram.ckpt < y /\ y < next
    BY <1>1, <1>2 DEF IInv, CheckpointInv
  <2> QED
    BY <1>4, <2>1
<1>6. CASE ram.gen < MaxGeneration /\ Encodable(record)
  <2>1. /\ out' = record /\ job' = "flush" /\ back' = back /\ pc' = "publish"
        /\ UNCHANGED local
    BY <1>6 DEF Flush, BeginCopy
  <2>2. PICK m : m = Flushed
    OBVIOUS
  <2>3. /\ m.state = "ready" /\ m.bank = ram.bank /\ m.wslot = ram.wslot
        /\ m.wgen = ram.wgen /\ m.vbank = ram.vbank /\ m.vgen = ram.vgen
        /\ m.ckpt = Max(mem) /\ m.ntg = ram.ntg + 1
        /\ m.tabs = [ram.tabs EXCEPT ![ram.bank][free] = [gen |-> ram.ntg, max |-> Max(mem)]]
    BY <1>2, <2>2 DEF Flushed, ManifestRecord
  <2>4. free \in Index /\ ram.tabs[ram.bank][free].gen = 0
    BY <1>4 DEF FreeIndexes
  <2>5. \A b \in Two : \A i \in Index : ~(b = ram.bank /\ i = free) =>
            m.tabs[b][i] = ram.tabs[b][i]
    BY <1>2, <2>3 DEF ManifestRecord
  <2>6. StorageIntact(m)'
    <3>1. ASSUME NEW b \in Two, NEW i \in Index, m.tabs[b][i].gen # 0
          PROVE  tab'[b][i] = m.tabs[b][i].gen
      <4>0. tab \in [Two -> [Index -> Nat]] /\ ram.tabs \in [Two -> [Index -> TableReference]]
        BY <1>2 DEF IInv, TypeOK, ManifestRecord
      <4>1. CASE b = ram.bank /\ i = free
        BY <1>1, <1>2, <2>3, <2>4, <4>0, <4>1
      <4>2. CASE ~(b = ram.bank /\ i = free)
        <5>1. tab'[b][i] = tab[b][i]
          BY <1>1, <4>0, <4>2
        <5> QED
          BY <1>3, <2>5, <3>1, <4>2, <5>1 DEF StorageIntact
      <4> QED
        BY <4>1, <4>2
    <3>2. wal' = wal /\ vb' = vb
      BY <1>1
    <3> QED
      BY <1>3, <2>3, <3>1, <3>2 DEF StorageIntact
  <2>7. Adjacent(ram, record)
    <3>1. /\ record.gen = ram.gen + 1 /\ record.state = "ready" /\ record.ckpt = Max(mem)
          /\ record.ntg = ram.ntg + 1 /\ record.tabs = m.tabs
      BY <1>4, <2>2, <2>3 DEF ManifestRecord
    <3>2. \A b \in Two : \A i \in Index : ram.tabs[b][i].gen # 0 => ram.tabs[b][i] = m.tabs[b][i]
      BY <2>4, <2>5
    <3> QED
      BY <1>2, <1>5, <3>1, <3>2 DEF Adjacent
  <2>8. JobInv'
    <3>1. /\ record.state = "ready" /\ record.ckpt = Max(mem)
          /\ record.bank = ram.bank /\ record.wslot = ram.wslot
          /\ record.wgen = ram.wgen /\ record.vbank = ram.vbank /\ record.vgen = ram.vgen
      BY <1>4, <2>2, <2>3 DEF ManifestRecord
    <3>2. SameReach(ram, record)
      BY <3>1 DEF SameReach
    <3>3. SameReach(ram', out')
      BY <2>1, <3>2 DEF local
    <3>4. ram'.ckpt <= out'.ckpt /\ out'.ckpt < next' /\ out'.state = "ready" /\ up' /\ ~stab'
      BY <1>1, <1>2, <1>5, <2>1, <3>1 DEF local
    <3> QED
      BY <1>1, <2>1, <3>3, <3>4 DEF JobInv
  <2> QED
    BY <1>1, <1>2, <1>4, <1>6, <2>1, <2>2, <2>3, <2>6, <2>7, <2>8, CopyRun DEF Valid
<1>7. CASE ~(ram.gen < MaxGeneration /\ Encodable(record))
  BY <1>1, <1>7, ErrorRun DEF Flush, BeginCopy, Serving
<1> QED
  BY <1>6, <1>7

\* Beginning to publish a rotation keeps RunInv.
LEMMA WalHeaderSyncedRun ==
    ASSUME IInv, WalHeaderSynced
    PROVE  RunInv'
<1> DEFINE target == 1 - ram.wslot
           gen == ram.wgen[ram.wslot] + 1
           new == [ram EXCEPT !.wslot = target, !.wgen[target] = gen]
           record == [new EXCEPT !.gen = ram.gen + 1]
<1>1. /\ pc = "synced" /\ up /\ ~faulted /\ ~stab /\ ram.gen <= MaxGeneration - 2
      /\ wal' = [wal EXCEPT ![target] = [gen |-> gen, first |-> next, last |-> next - 1]]
      /\ UNCHANGED <<copy, tab, vb, acked>>
  BY DEF WalHeaderSynced, IInv, CallInv, Serving
<1>2. /\ ram.gen # 0 /\ ram.state = "ready" /\ ram \in ManifestRecord
      /\ ram.gen \in Nat /\ ram.wslot \in Two /\ target \in Two /\ gen \in Nat
      /\ ram.ckpt \in Nat /\ ram.ntg \in Nat /\ wal \in [Two -> WalSlot]
  <2>1. ram \in ManifestRecord /\ wal \in [Two -> WalSlot]
    BY DEF IInv, TypeOK
  <2>2. ram.gen # 0 /\ ram.state = "ready"
    BY <1>1, UpFacts
  <2>3. /\ ram.gen \in Nat /\ ram.wslot \in Two /\ ram.ckpt \in Nat /\ ram.ntg \in Nat
        /\ ram.wgen \in [Two -> Nat]
    BY <2>1 DEF ManifestRecord
  <2>4. target \in Two
    BY <2>3 DEF Two
  <2> QED
    BY <2>1, <2>2, <2>3, <2>4
<1>3. StorageIntact(ram)
  BY <1>1, <1>2, RamIsCopy
<1>4. CASE ram.gen < MaxGeneration /\ Encodable(record)
  <2>1. /\ out' = record /\ job' = "rotate" /\ back' = "frames" /\ pc' = "publish"
        /\ UNCHANGED local
    BY <1>4 DEF WalHeaderSynced, BeginCopy
  <2>2. PICK m : m = new
    OBVIOUS
  <2>3. /\ m.state = "ready" /\ m.bank = ram.bank /\ m.tabs = ram.tabs
        /\ m.vbank = ram.vbank /\ m.vgen = ram.vgen /\ m.ckpt = ram.ckpt /\ m.ntg = ram.ntg
        /\ m.wgen = [ram.wgen EXCEPT ![target] = gen]
    BY <1>2, <2>2 DEF ManifestRecord
  <2>4. m \in ManifestRecord
    <3>1. [ram.wgen EXCEPT ![target] = gen] \in [Two -> Nat]
      BY <1>2 DEF ManifestRecord
    <3> QED
      BY <1>2, <2>2, <3>1 DEF ManifestRecord
  <2>5. StorageIntact(m)'
    <3>1. ASSUME NEW w \in Two, m.wgen[w] # 0
          PROVE  wal'[w].gen = m.wgen[w]
      <4>0. ram.wgen \in [Two -> Nat]
        BY <1>2 DEF ManifestRecord
      <4>1. CASE w = target
        BY <1>1, <1>2, <2>3, <4>0, <4>1
      <4>2. CASE w # target
        BY <1>1, <1>2, <1>3, <2>3, <3>1, <4>0, <4>2 DEF StorageIntact
      <4> QED
        BY <4>1, <4>2
    <3> QED
      BY <1>1, <1>3, <2>3, <3>1 DEF StorageIntact
  <2>6. record.gen = ram.gen + 1 /\ record.state = "ready" /\ record.ckpt = ram.ckpt
           /\ record.ntg = ram.ntg /\ record.tabs = ram.tabs
    BY <1>2 DEF ManifestRecord
  <2>7. Adjacent(ram, record)
    BY <1>2, <2>6 DEF Adjacent
  <2>8. JobInv'
    <3>1. ram.ckpt < next
      BY <1>1 DEF IInv, CheckpointInv
    <3> QED
      BY <1>1, <1>2, <2>1, <2>6, <3>1 DEF JobInv, local
  <2> QED
    BY <1>1, <1>2, <1>4, <2>1, <2>2, <2>3, <2>4, <2>5, <2>7, <2>8, CopyRun DEF Valid
<1>5. CASE ~(ram.gen < MaxGeneration /\ Encodable(record))
  BY <1>1, <1>5, ErrorRun DEF WalHeaderSynced, BeginCopy, Serving
<1> QED
  BY <1>4, <1>5

\* Writing the output of a compaction and beginning its publication keeps RunInv.
LEMMA CompactRun ==
    ASSUME IInv, Compact
    PROVE  RunInv'
<1>1. /\ pc = "compact" /\ up /\ ~faulted /\ ~stab /\ ram.gen <= MaxGeneration - 2
      /\ back \in {"idle", "commit", "rotate"}
      /\ vb[1 - ram.vbank] = ram.vgen[1 - ram.vbank] + 1
      /\ UNCHANGED <<copy, wal, vb, acked>>
  BY DEF Compact, IInv, CallInv, Serving
<1>2. /\ ram.gen # 0 /\ ram.state = "ready" /\ ram \in ManifestRecord
      /\ ram.gen \in Nat /\ ram.bank \in Two /\ 1 - ram.bank \in Two /\ ram.vbank \in Two
      /\ 1 - ram.vbank \in Two /\ 1 - ram.wslot \in Two
      /\ ram.ckpt \in Nat /\ ram.ntg \in Nat /\ next \in Nat \ {0}
      /\ tab \in [Two -> [Index -> Nat]]
  <2>1. ram \in ManifestRecord /\ tab \in [Two -> [Index -> Nat]] /\ next \in Nat \ {0}
    BY DEF IInv, TypeOK
  <2>2. ram.gen # 0 /\ ram.state = "ready"
    BY <1>1, UpFacts
  <2>3. /\ ram.gen \in Nat /\ ram.wslot \in Two /\ ram.bank \in Two /\ ram.vbank \in Two
        /\ ram.ckpt \in Nat /\ ram.ntg \in Nat
    BY <2>1 DEF ManifestRecord
  <2>4. 1 - ram.wslot \in Two /\ 1 - ram.bank \in Two /\ 1 - ram.vbank \in Two
    BY <2>3 DEF Two
  <2> QED
    BY <2>1, <2>2, <2>3, <2>4
<1>3. StorageIntact(ram)
  BY <1>1, <1>2, RamIsCopy
<1> DEFINE sources == mem \cup TableEntries(ram)
<1>4. PICK f \in Splits(Live(sources)) :
        LET part == [i \in Index |-> {s \in Live(sources) : f[s] = i}]
            m    == Compacted(part)
        IN  /\ tab' = [tab EXCEPT ![m.bank] = [i \in Index |-> m.tabs[m.bank][i].gen]]
            /\ IF Max(Newest(sources) \cup {0}) = next - 1
               THEN BeginCopy(m, "compact", back)
               ELSE ReturnError
  BY DEF Compact
<1>5. PICK part : part = [i \in Index |-> {s \in Live(sources) : f[s] = i}]
  OBVIOUS
<1>6. PICK m : m = Compacted(part)
  OBVIOUS
<1>7. /\ tab' = [tab EXCEPT ![m.bank] = [i \in Index |-> m.tabs[m.bank][i].gen]]
      /\ BeginCopy(m, "compact", back) \/ ReturnError
  BY <1>4, <1>5, <1>6
<1>8. part \in [Index -> SUBSET (1 .. MaxSeq)]
  <2>1. sources \subseteq 1 .. MaxSeq
    BY SourcesBounded DEF IInv
  <2>2. Live(sources) \subseteq sources
    BY DEF Live, Newest
  <2> QED
    BY <1>5, <2>1, <2>2
<1>9. m \in ManifestRecord
  BY <1>2, <1>6, <1>8, CompactedType
<1> DEFINE record == [m EXCEPT !.gen = ram.gen + 1]
<1>10. CASE ReturnError
  BY <1>1, <1>10, ErrorRun DEF Serving
<1>11. CASE BeginCopy(m, "compact", back) /\ ~ReturnError
  <2>1. /\ out' = record /\ job' = "compact" /\ back' = back /\ pc' = "publish"
        /\ UNCHANGED local /\ ram.gen < MaxGeneration /\ Encodable(record)
    BY <1>11 DEF BeginCopy
  <2>2. /\ m.state = "ready" /\ m.bank = 1 - ram.bank /\ m.vbank = 1 - ram.vbank
        /\ m.vgen = [ram.vgen EXCEPT ![1 - ram.vbank] = @ + 1]
        /\ m.wgen = [ram.wgen EXCEPT ![1 - ram.wslot] = 0] /\ m.ckpt = next - 1
        /\ m.ntg = ram.ntg + Cardinality({i \in Index : part[i] # {}})
        /\ m.tabs[ram.bank] = NoTables
    BY <1>2, <1>6 DEF Compacted, ManifestRecord
  <2>3. ram.ntg <= m.ntg
    <3>1. IsFiniteSet(Index)
      BY FS_Interval DEF Index
    <3>2. Cardinality({i \in Index : part[i] # {}}) \in Nat
      BY <3>1, FS_Subset, FS_CardinalityType
    <3> QED
      BY <1>2, <2>2, <3>2
  <2>4. StorageIntact(m)'
    <3>1. ASSUME NEW b \in Two, NEW i \in Index, m.tabs[b][i].gen # 0
          PROVE  tab'[b][i] = m.tabs[b][i].gen
      <4>1. b = m.bank
        BY <1>2, <2>2, <3>1 DEF NoTables, Inactive, Two
      <4> QED
        BY <1>2, <1>7, <4>1
    <3>2. \A w \in Two : m.wgen[w] # 0 => wal'[w].gen = m.wgen[w]
      <4>1. \A w \in Two : m.wgen[w] # 0 => m.wgen[w] = ram.wgen[w]
        BY <1>2, <2>2 DEF ManifestRecord
      <4> QED
        BY <1>1, <1>3, <4>1 DEF StorageIntact
    <3>3. vb'[m.vbank] = m.vgen[m.vbank]
      BY <1>1, <1>2, <2>2 DEF ManifestRecord
    <3> QED
      BY <3>1, <3>2, <3>3 DEF StorageIntact
  <2>5. /\ record.gen = ram.gen + 1 /\ record.state = "ready" /\ record.ckpt = next - 1
        /\ record.ntg = m.ntg /\ record.bank = 1 - ram.bank
    BY <1>9, <2>2 DEF ManifestRecord
  <2>6. ram.ckpt < next
    BY <1>1 DEF IInv, CheckpointInv
  <2>7. Adjacent(ram, record)
    BY <1>2, <2>3, <2>5, <2>6 DEF Adjacent, Two
  <2>8. JobInv'
    BY <1>1, <1>2, <2>1, <2>5, <2>6 DEF JobInv, local
  <2> QED
    BY <1>1, <1>2, <1>9, <2>1, <2>2, <2>4, <2>7, <2>8, CopyRun DEF Valid
<1> QED
  BY <1>7, <1>10, <1>11

-----------------------------------------------------------------------------
(* The other actions.                                                      *)

\* Loading or creating the manifest keeps RunInv.
LEMMA SetupManifestRun ==
    ASSUME IInv, SetupManifest
    PROVE  RunInv'
<1>1. /\ pc = "down" /\ ram = FreshManifest /\ ~up /\ ~stab /\ ~faulted
      /\ UNCHANGED <<media, acked>>
  BY DEF SetupManifest, IInv, CallInv
<1>2. CASE copy = [s \in Two |-> BlankCopy]
  <2>1. pc' = "create" /\ UNCHANGED local
    BY <1>2 DEF SetupManifest, ReturnTo
  <2>2. \A s \in Two : ~Valid(copy[s])
    BY <1>2 DEF Valid, BlankCopy, FreshManifest
  <2>3. acked = 0
    BY <2>2 DEF IInv, MediumInv, TypeOK, Two
  <2>4. ram.state = "provisioning" /\ ram.gen = 0
    BY <1>1 DEF FreshManifest
  <2>5. FreshInv'
    BY <1>1, <1>2 DEF IInv, FreshInv, media
  <2>6. RamInv' /\ StableInv' /\ CheckpointInv' /\ PublishInv'
    BY <1>1, <2>1, <2>2, <2>3, <2>4
       DEF RamInv, StableInv, CheckpointInv, PublishInv, local, media
  <2>7. CallInv'
    BY <1>1, <2>1, <2>4 DEF CallInv, local, Serving
  <2> QED
    BY <2>5, <2>6, <2>7 DEF RunInv
<1>3. CASE copy # [s \in Two |-> BlankCopy] /\ ~LoadAccepts(copy)
  BY <1>1, <1>3, DownRun DEF SetupManifest, media
<1>4. CASE copy # [s \in Two |-> BlankCopy] /\ LoadAccepts(copy)
  <2>1. PICK s : s = SelectedSlot(copy)
    OBVIOUS
  <2>2. /\ ram' = copy[s]
        /\ stab' = StabilizationRequired(copy) \/ stab' = TRUE
        /\ pc' = IF copy[s].state = "provisioning" /\ ValidSlots(copy) # Two
                 THEN "create" ELSE "provision"
        /\ UNCHANGED <<up, faulted, mem, next, back, job, out>>
    BY <1>4, <2>1 DEF SetupManifest
  <2>3. copy \in [Two -> ManifestRecord]
    BY DEF IInv, TypeOK
  <2>4. /\ s \in Two /\ Valid(copy[s])
        /\ \A t \in Two : Valid(copy[t]) => copy[t].gen <= copy[s].gen
    <3>1. /\ s \in ValidSlots(copy)
          /\ \A t \in ValidSlots(copy) :
                copy[t].gen < copy[s].gen \/ (copy[t].gen = copy[s].gen /\ s <= t)
      BY <1>4, <2>1, <2>3, SelectedSlotExists DEF LoadAccepts, SelectedSlot
    <3>2. \A t \in Two : copy[t].gen \in Nat
      BY <2>3 DEF ManifestRecord
    <3> QED
      BY <3>1, <3>2 DEF ValidSlots
  <2>5. Slot(copy[s].gen) = s /\ copy[s].gen > 0 /\ copy[s].gen \in Nat
    BY <2>3, <2>4 DEF IInv, MediumInv, CopySound, Encodable, ManifestRecord
  <2>6. Valid(copy[Other(s)]) => copy[Other(s)].gen + 1 = copy[s].gen
    <3>1. Other(s) \in Two /\ copy[Other(s)].gen \in Nat
      BY <2>3, <2>4 DEF Other, Two, ManifestRecord
    <3>2. Valid(copy[Other(s)]) =>
             copy[0].gen = copy[1].gen + 1 \/ copy[1].gen = copy[0].gen + 1
      BY <2>4 DEF IInv, MediumInv, Other, Two
    <3>3. Valid(copy[Other(s)]) => copy[Other(s)].gen <= copy[s].gen
      BY <2>4, <3>1
    <3> QED
      BY <2>4, <2>5, <3>1, <3>2, <3>3 DEF Other, Two
  <2>7. FreshInv'
    BY <1>1, <1>4, <2>2, <2>5 DEF FreshInv, media
  <2>8. RamInv'
    BY <1>1, <2>2, <2>4, <2>5, <2>6 DEF RamInv, media
  <2>9. StableInv'
    <3>1. SUFFICES ASSUME ~stab'
                   PROVE  Valid(copy[Other(s)]) /\ SameReach(copy[Other(s)], copy[s])
      BY <1>1, <2>2, <2>5 DEF StableInv, media
    <3>2. ValidSlots(copy) = Two /\ SameReach(copy[0], copy[1])
      BY <2>2, <3>1 DEF StabilizationRequired
    <3>3. Other(s) \in Two
      BY <2>4 DEF Other, Two
    <3> QED
      BY <2>4, <3>2, <3>3 DEF ValidSlots, Other, Two, SameReach
  <2>10. CheckpointInv' /\ PublishInv'
    BY <1>1, <2>2 DEF CheckpointInv, PublishInv
  <2>11. CallInv'
    BY <1>1, <2>2 DEF CallInv, Serving
  <2> QED
    BY <2>7, <2>8, <2>9, <2>10, <2>11 DEF RunInv
<1> QED
  BY <1>2, <1>3, <1>4

\* Provisioning the data regions keeps RunInv.
LEMMA ProvisionAllDataFilesRun ==
    ASSUME IInv, ProvisionAllDataFiles
    PROVE  RunInv'
<1>1. /\ pc = "provision" /\ ~up /\ ~faulted /\ UNCHANGED <<copy, vb, acked, local>>
      /\ pc' = IF ram.state = "ready" THEN "recover" ELSE "firstwal"
  BY DEF ProvisionAllDataFiles, ReturnTo, media, IInv, CallInv
<1>2. ram.gen # 0 /\ ram.gen \in Nat
  BY <1>1 DEF IInv, RamInv, TypeOK, ManifestRecord
<1>3. Valid(ram)
  BY <1>1, <1>2, RamIsCopy
<1>4. FreshInv' /\ RamInv'
  BY <1>1, <1>2 DEF IInv, FreshInv, RamInv, local
<1>5. StableInv' /\ CheckpointInv' /\ PublishInv'
  BY <1>1 DEF IInv, StableInv, CheckpointInv, PublishInv, local
<1>6. CallInv'
  BY <1>1, <1>3 DEF CallInv, Serving, Valid, local
<1> QED
  BY <1>4, <1>5, <1>6 DEF RunInv

\* Replaying the WAL keeps RunInv.
LEMMA RecoverWalRun ==
    ASSUME IInv, RecoverWal
    PROVE  RunInv'
<1>1. pc = "recover" /\ ~up /\ ~faulted /\ UNCHANGED media
  BY DEF RecoverWal, IInv, CallInv
<1>2. CASE ~(ram.state = "ready" /\ Recoverable(ram))
  BY <1>1, <1>2, DownRun DEF RecoverWal, media
<1>3. CASE ram.state = "ready" /\ Recoverable(ram)
  <2>1. /\ mem' = Newest(Replayed(ram)) /\ next' = wal[ram.wslot].last + 1
        /\ pc' = "stabilize" /\ back' = "serve" /\ UNCHANGED <<up, ram, stab, faulted>>
    BY <1>3 DEF RecoverWal
  <2>2. /\ ram.gen # 0 /\ ram.gen \in Nat /\ ram.ckpt \in Nat /\ ram.wslot \in Two
        /\ wal[ram.wslot].last \in Nat
    BY <1>1 DEF IInv, RamInv, TypeOK, ManifestRecord, WalSlot
  <2>3. FreshInv' /\ RamInv'
    BY <1>1, <2>1, <2>2 DEF IInv, FreshInv, RamInv, media
  <2>4. StableInv' /\ PublishInv'
    BY <1>1, <2>1 DEF IInv, StableInv, PublishInv, media
  <2>5. CheckpointInv'
    <3>1. ram.ckpt <= wal[ram.wslot].last
      BY <1>3 DEF Recoverable, WalChain
    <3>2. mem' \subseteq (ram.ckpt + 1) .. wal[ram.wslot].last
      BY <2>1 DEF Newest, Replayed
    <3> QED
      BY <2>1, <2>2, <3>1, <3>2 DEF CheckpointInv
  <2>6. CallInv'
    BY <1>1, <1>3, <2>1 DEF CallInv, Serving
  <2> QED
    BY <2>3, <2>4, <2>5, <2>6 DEF RunInv
<1> QED
  BY <1>2, <1>3

\* The end of init() keeps RunInv.
LEMMA ServeRun ==
    ASSUME IInv, Serve
    PROVE  RunInv'
<1>1. /\ pc = "serve" /\ ~faulted /\ ~stab /\ ram.state = "ready" /\ up' /\ pc' = "idle"
      /\ UNCHANGED <<media, ram, stab, faulted, mem, next, acked>>
  BY DEF Serve, IInv, CallInv
<1>2. ram.gen # 0 /\ ram.gen \in Nat
  BY <1>1 DEF IInv, RamInv, TypeOK, ManifestRecord
<1>3. FreshInv' /\ RamInv'
  BY <1>1, <1>2 DEF IInv, FreshInv, RamInv, media
<1>4. StableInv' /\ CheckpointInv' /\ PublishInv'
  BY <1>1 DEF IInv, StableInv, CheckpointInv, PublishInv, media
<1>5. CallInv'
  BY <1>1 DEF CallInv, Serving
<1> QED
  BY <1>3, <1>4, <1>5 DEF RunInv

\* The checks that begin a compaction keep RunInv.
LEMMA BeginCompactionRun ==
    ASSUME IInv, pc \in Serving, ~faulted, acked' = acked,
           NEW b \in {"idle", "commit", "rotate"}, BeginCompaction(b)
    PROVE  RunInv'
<1>1. up /\ ram.state = "ready" /\ ~stab
  BY DEF IInv, CallInv
<1>2. CASE ram.gen > MaxGeneration - 2
  BY <1>2, ErrorRun DEF BeginCompaction, media
<1>3. CASE ~(ram.gen > MaxGeneration - 2)
  <2>1. /\ vb' = [vb EXCEPT ![1 - ram.vbank] = ram.vgen[1 - ram.vbank] + 1]
        /\ pc' = "compact" /\ back' = b /\ UNCHANGED <<copy, local, job, out>>
    BY <1>3 DEF BeginCompaction
  <2>2. FreshInv' /\ RamInv' /\ StableInv' /\ CheckpointInv' /\ PublishInv'
    BY <1>1, <2>1, StayServing
  <2>3. /\ vb \in [Two -> Nat] /\ 1 - ram.vbank \in Two /\ ram.gen \in Nat
    <3>1. vb \in [Two -> Nat] /\ ram \in ManifestRecord
      BY DEF IInv, TypeOK
    <3> QED
      BY <3>1 DEF ManifestRecord, Two
  <2>4. vb'[1 - ram.vbank] = ram.vgen[1 - ram.vbank] + 1 /\ ram' = ram
    BY <2>1, <2>3 DEF local
  <2>5. CallInv'
    BY <1>1, <1>3, <2>1, <2>3, <2>4 DEF CallInv, Serving, local
  <2> QED
    BY <2>2, <2>5 DEF RunInv
<1> QED
  BY <1>2, <1>3

\* The checks that begin a flush keep RunInv.
LEMMA BeginFlushRun ==
    ASSUME IInv, pc \in Serving, ~faulted, acked' = acked, mem # {},
           NEW b \in {"idle", "commit", "rotate"}, BeginFlush(b)
    PROVE  RunInv'
<1>1. up /\ ram.state = "ready" /\ ~stab
  BY DEF IInv, CallInv
<1>2. CASE FreeIndexes(ram) = {}
  BY <1>2, BeginCompactionRun DEF BeginFlush
<1>3. CASE FreeIndexes(ram) # {}
  <2>1. pc' = "flush" /\ back' = b /\ UNCHANGED <<copy, vb, local, job, out>>
    BY <1>3 DEF BeginFlush
  <2>2. FreshInv' /\ RamInv' /\ StableInv' /\ CheckpointInv' /\ PublishInv'
    BY <1>1, <2>1, StayServing
  <2>3. CallInv'
    BY <1>1, <1>3, <2>1 DEF CallInv, Serving, local, FreeIndexes
  <2> QED
    BY <2>2, <2>3 DEF RunInv
<1> QED
  BY <1>2, <1>3

\* The call goes on at p; nothing but the WAL slots may have changed.
LEMMA MoveRun ==
    ASSUME IInv, pc \in Serving, ~faulted, UNCHANGED <<copy, local, acked>>,
           NEW p \in {"idle", "commit", "rotate", "header", "synced", "frames"}, pc' = p,
           p \in {"header", "synced"} =>
              ram.wgen[1 - ram.wslot] = 0 /\ ram.gen <= MaxGeneration - 2
    PROVE  RunInv'
<1>1. up /\ ram.state = "ready" /\ ~stab
  BY DEF IInv, CallInv
<1>2. FreshInv' /\ RamInv' /\ StableInv' /\ CheckpointInv' /\ PublishInv'
  BY <1>1, StayServing
<1>3. CallInv'
  BY <1>1 DEF CallInv, Serving, local
<1> QED
  BY <1>2, <1>3 DEF RunInv

\* Stabilizing before an append or a rotation keeps RunInv.
LEMMA StabilizeThenRun ==
    ASSUME IInv, pc \in Serving, ~faulted, UNCHANGED <<media, acked>>,
           NEW p \in {"append", "header"}, StabilizeThen(p),
           p = "header" => ram.wgen[1 - ram.wslot] = 0 /\ ram.gen <= MaxGeneration - 2
    PROVE  RunInv'
<1>1. up /\ ram.state = "ready" /\ ~stab
  BY DEF IInv, CallInv
<1>2. pc' = "stabilize" /\ back' = p /\ UNCHANGED local
  BY DEF StabilizeThen
<1>3. FreshInv' /\ RamInv' /\ StableInv' /\ CheckpointInv' /\ PublishInv'
  BY <1>1, <1>2, StayServing DEF media
<1>4. CallInv'
  BY <1>1, <1>2 DEF CallInv, Serving, local
<1> QED
  BY <1>3, <1>4 DEF RunInv

\* A transaction that becomes durable keeps RunInv.
LEMMA AppendFramesRun ==
    ASSUME IInv, AppendFrames
    PROVE  RunInv'
<1>1. /\ pc = "frames" /\ up /\ ~faulted /\ ~stab /\ ram.state = "ready" /\ pc' = "idle"
      /\ next' = next + 1 /\ UNCHANGED <<copy, vb, up, ram, stab, faulted>>
  BY DEF AppendFrames, Persist, IInv, CallInv, Serving
<1>2. ram.gen # 0 /\ ram.gen \in Nat /\ ram.ckpt \in Nat /\ next \in Nat
  BY <1>1, UpFacts DEF IInv, TypeOK, ManifestRecord
<1>3. FreshInv' /\ RamInv'
  BY <1>1, <1>2 DEF IInv, FreshInv, RamInv
<1>4. StableInv' /\ PublishInv'
  BY <1>1 DEF IInv, StableInv, PublishInv
<1>5. CheckpointInv'
  <2>1. mem' \subseteq mem \cup {next}
    BY DEF AppendFrames
  <2>2. ram.ckpt < next /\ mem \subseteq (ram.ckpt + 1) .. (next - 1)
    BY <1>1 DEF IInv, CheckpointInv
  <2>3. ram.ckpt < next' /\ mem' \subseteq (ram.ckpt + 1) .. (next' - 1)
    BY <1>1, <1>2, <2>1, <2>2
  <2> QED
    BY <1>1, <2>3 DEF CheckpointInv
<1>6. CallInv'
  BY <1>1 DEF CallInv, Serving
<1> QED
  BY <1>3, <1>4, <1>5, <1>6 DEF RunInv

\* After a successful publication the other slot holds the manifest before it.
LEMMA PublishedFacts ==
    ASSUME IInv, NEW j, Published(j)
    PROVE  /\ RamInv' \/ pc' = "down"
           /\ FreshInv' /\ ~faulted' /\ ram' = out /\ out.gen # 0
           /\ ram.gen # 0 => copy'[Other(Slot(out.gen))] = ram /\ Valid(ram)
<1>1. /\ pc = "publish" /\ job = j /\ ~faulted /\ out.gen = ram.gen + 1 /\ ram.gen \in Nat
      /\ Valid(out) /\ Encodable(out) /\ copy \in [Two -> ManifestRecord]
      /\ ram' = out /\ UNCHANGED <<vb, faulted, acked>>
  BY DEF Published, IInv, CallInv, PublishInv, TypeOK, ManifestRecord
<1>2. PICK s : s = Slot(out.gen)
  OBVIOUS
<1>3. s \in Two /\ Other(s) \in Two /\ Other(s) = Slot(ram.gen) /\ Other(s) # s
  <2>1. Slot(ram.gen) \in Two /\ s = Other(Slot(ram.gen)) /\ s \in Two
    BY <1>1, <1>2, SlotType
  <2> QED
    BY <2>1 DEF Other, Two
<1>4. copy' = [copy EXCEPT ![s] = out]
  BY <1>2 DEF Published
<1>5. copy'[s] = out /\ copy'[Other(s)] = copy[Other(s)]
  BY <1>1, <1>3, <1>4
<1>6. ram.gen # 0 => copy'[Other(s)] = ram /\ Valid(ram)
  BY <1>1, <1>3, <1>5, RamIsCopy
<1>7. Valid(copy'[Other(s)]) => copy'[Other(s)].gen + 1 = out.gen
  <2>1. CASE ram.gen = 0
    BY <1>1, <1>3, <1>5, <2>1 DEF IInv, RamInv
  <2>2. CASE ram.gen # 0
    BY <1>1, <1>6, <2>2
  <2> QED
    BY <2>1, <2>2
<1>8. out.gen > 0
  BY <1>1
<1>9. RamInv'
  <2>1. /\ Valid(ram') /\ copy'[Slot(ram'.gen)] = ram' /\ ram'.gen > 0 /\ ram'.gen # 0
        /\ Valid(copy'[Other(Slot(ram'.gen))]) => copy'[Other(Slot(ram'.gen))].gen + 1 = ram'.gen
    BY <1>1, <1>2, <1>5, <1>7, <1>8
  <2> QED
    BY <2>1 DEF RamInv
<1>10. FreshInv'
  <2>1. copy' # [t \in Two |-> BlankCopy]
    BY <1>1, <1>3, <1>5 DEF Valid, BlankCopy, FreshManifest
  <2> QED
    BY <1>1, <1>8, <2>1 DEF FreshInv
<1> QED
  BY <1>1, <1>2, <1>6, <1>8, <1>9, <1>10

\* Taking over a written manifest copy keeps RunInv.
LEMMA PublishStepsRun ==
    ASSUME IInv, PublishSteps
    PROVE  RunInv'
<1>1. PICK j : Published(j)
  BY DEF PublishSteps, ProvisioningCopyPublished, ReadyPublished, FlushPublished,
         CompactionPublished, RotationPublished, StabilizationPublished
<1>2. /\ pc = "publish" /\ JobInv /\ ram \in ManifestRecord /\ out \in ManifestRecord
      /\ ~faulted /\ out.gen = ram.gen + 1 /\ out.gen <= MaxGeneration
      /\ UNCHANGED <<up, faulted, next, back, job, out, acked>>
  BY <1>1 DEF Published, IInv, PublishInv, CallInv, TypeOK
<1>3. FreshInv' /\ ~faulted' /\ ram' = out /\ out.gen # 0 /\ (RamInv' \/ pc' = "down")
  BY <1>1, PublishedFacts
<1>4. pc' # "down" /\ pc' # "publish"
  BY <1>2 DEF PublishSteps, ProvisioningCopyPublished, ReadyPublished, FlushPublished,
         CompactionPublished, RotationPublished, StabilizationPublished, Published, JobInv
<1>5. FreshInv' /\ RamInv' /\ PublishInv'
  BY <1>3, <1>4 DEF PublishInv
<1>6. CASE ProvisioningCopyPublished
  <2>1. /\ job = "create" /\ pc' \in {"create", "provision"} /\ ~up
        /\ out.state = "provisioning" /\ stab' = stab /\ back' = "provision"
    BY <1>2, <1>6 DEF ProvisioningCopyPublished, Published, JobInv
  <2>2. StableInv' /\ CheckpointInv'
    BY <1>2, <1>3, <2>1 DEF StableInv, CheckpointInv
  <2>3. CallInv'
    BY <1>2, <1>3, <2>1 DEF CallInv, Serving
  <2> QED
    BY <1>5, <2>2, <2>3 DEF RunInv
<1>7. CASE ReadyPublished
  <2>1. /\ job = "ready" /\ pc' = "stabilize" /\ stab' /\ ~up /\ back' = "recover"
        /\ out.state = "ready"
    BY <1>2, <1>7 DEF ReadyPublished, Published, JobInv
  <2>2. StableInv' /\ CheckpointInv'
    BY <1>2, <1>3, <2>1 DEF StableInv, CheckpointInv
  <2>3. CallInv'
    BY <1>2, <1>3, <2>1 DEF CallInv, Serving
  <2> QED
    BY <1>5, <2>2, <2>3 DEF RunInv
<1>8. CASE FlushPublished
  <2>1. /\ job = "flush" /\ pc' = back /\ ~stab' /\ up /\ mem' = {} /\ out.state = "ready"
        /\ back \in {"idle", "commit", "rotate"} /\ SameReach(ram, out) /\ out.ckpt < next
    BY <1>2, <1>8 DEF FlushPublished, Published, JobInv
  <2>2. copy'[Other(Slot(out.gen))] = ram /\ Valid(ram)
    BY <1>1, <2>1, PublishedFacts, UpFacts
  <2>3. StableInv' /\ CheckpointInv'
    BY <1>2, <1>3, <2>1, <2>2 DEF StableInv, CheckpointInv
  <2>4. CallInv'
    BY <1>2, <1>3, <2>1 DEF CallInv, Serving
  <2> QED
    BY <1>5, <2>3, <2>4 DEF RunInv
<1>9. CASE CompactionPublished \/ RotationPublished
  <2>1. /\ pc' = "stabilize" /\ stab' /\ up /\ out.state = "ready" /\ out.ckpt < next
        /\ back \in {"idle", "commit", "rotate", "frames"} /\ out.gen < MaxGeneration
    BY <1>2, <1>9 DEF CompactionPublished, RotationPublished, Published, JobInv
  <2>2. mem' \subseteq (out.ckpt + 1) .. (next - 1)
    <3>1. CASE CompactionPublished
      BY <3>1 DEF CompactionPublished
    <3>2. CASE RotationPublished
      BY <1>2, <2>1, <3>2 DEF RotationPublished, Published, JobInv, IInv, CheckpointInv
    <3> QED
      BY <1>9, <3>1, <3>2
  <2>3. StableInv' /\ CheckpointInv'
    BY <1>2, <1>3, <2>1, <2>2 DEF StableInv, CheckpointInv
  <2>4. CallInv'
    BY <1>2, <1>3, <2>1 DEF CallInv, Serving
  <2> QED
    BY <1>5, <2>3, <2>4 DEF RunInv
<1>10. CASE StabilizationPublished
  <2>1. /\ pc' = back /\ ~stab' /\ mem' = mem /\ out = [ram EXCEPT !.gen = ram.gen + 1]
        /\ out.state = "ready" /\ (up <=> back \notin {"recover", "serve"})
        /\ back \in {"recover", "serve", "idle", "commit", "append", "rotate", "frames"}
    BY <1>2, <1>10 DEF StabilizationPublished, Published, JobInv
  <2>2. SameReach(ram, out) /\ out.ckpt = ram.ckpt /\ ram.state = "ready"
    <3>1. /\ out.bank = ram.bank /\ out.wslot = ram.wslot /\ out.wgen = ram.wgen
          /\ out.vbank = ram.vbank /\ out.vgen = ram.vgen /\ out.ckpt = ram.ckpt
          /\ out.state = ram.state
      BY <1>2, <2>1 DEF ManifestRecord
    <3> QED
      BY <2>1, <3>1 DEF SameReach
  <2>3. ram.gen # 0
    BY <1>2, <2>2 DEF IInv, RamInv, FreshManifest
  <2>4. copy'[Other(Slot(out.gen))] = ram /\ Valid(ram)
    BY <1>1, <2>3, PublishedFacts
  <2>5. StableInv'
    BY <1>2, <1>3, <2>1, <2>2, <2>4 DEF StableInv
  <2>6. CheckpointInv'
    BY <1>2, <1>3, <2>1, <2>2 DEF IInv, CheckpointInv
  <2>7. CallInv'
    BY <1>2, <1>3, <2>1 DEF CallInv, Serving
  <2> QED
    BY <1>5, <2>5, <2>6, <2>7 DEF RunInv
<1> QED
  BY <1>6, <1>7, <1>8, <1>9, <1>10 DEF PublishSteps

\* Failures, deinit() and power cuts keep RunInv.
LEMMA FailureStepsRun ==
    ASSUME IInv, FailureSteps
    PROVE  RunInv'
<1>1. ASSUME CopyInterrupted, pc = "publish"
      PROVE  /\ copy' = [s \in Two |-> BlankCopy] => copy = copy' /\ vb' = vb
             /\ copy'[Slot(ram.gen)] = copy[Slot(ram.gen)]
  <2>1. PICK c \in {copy[Slot(out.gen)], TornCopy, out} :
          copy' = [copy EXCEPT ![Slot(out.gen)] = c]
    BY <1>1 DEF CopyInterrupted
  <2>2. /\ vb' = vb /\ copy \in [Two -> ManifestRecord] /\ out.gen \in Nat /\ ram.gen \in Nat
    BY <1>1 DEF CopyInterrupted, IInv, TypeOK, ManifestRecord
  <2>3. PICK s : s = Slot(out.gen) /\ s \in Two
    BY <2>2, SlotType
  <2>4. copy'[Slot(ram.gen)] = copy[Slot(ram.gen)]
    <3>1. out.gen = ram.gen + 1
      BY <1>1 DEF IInv, PublishInv
    <3>2. Slot(ram.gen) # s /\ Slot(ram.gen) \in Two
      BY <2>2, <2>3, <3>1, SlotType
    <3> QED
      BY <2>1, <2>2, <2>3, <3>2
  <2>5. copy' = [t \in Two |-> BlankCopy] => copy = copy'
    <3>1. SUFFICES ASSUME copy' = [t \in Two |-> BlankCopy] PROVE copy = copy'
      OBVIOUS
    <3>2. copy'[s] = BlankCopy /\ copy'[s] = c
      BY <2>1, <2>2, <2>3, <3>1
    <3>3. CASE c = copy[s]
      BY <2>1, <2>2, <2>3, <3>3
    <3>4. CASE c = TornCopy
      BY <3>2, <3>4 DEF TornCopy, BlankCopy, FreshManifest
    <3>5. CASE c = out
      BY <1>1, <3>2, <3>5 DEF IInv, PublishInv, Valid, BlankCopy, FreshManifest
    <3> QED
      BY <2>1, <2>3, <3>3, <3>4, <3>5
  <2> QED
    BY <2>2, <2>4, <2>5
<1>2. CASE PublishFails
  <2>1. pc = "publish" /\ CopyInterrupted /\ acked' = acked
    BY <1>2 DEF PublishFails
  <2>2. CASE ~up
    BY <1>1, <1>2, <2>1, <2>2, DownRun DEF PublishFails
  <2>3. CASE up
    <3>1. /\ faulted' /\ pc' = "idle" /\ vb' = vb
          /\ UNCHANGED <<up, ram, stab, mem, next, back, job, out>>
      BY <1>2, <2>3 DEF PublishFails, CopyInterrupted
    <3>2. ram.gen # 0 /\ ram.state = "ready" /\ ram.gen \in Nat
      BY <2>3, UpFacts DEF IInv, TypeOK, ManifestRecord
    <3>3. Valid(ram) /\ copy'[Slot(ram.gen)] = ram /\ Slot(ram.gen) \in Two
      BY <1>1, <2>1, <3>2, RamIsCopy
    <3>4. FreshInv'
      BY <3>1, <3>2, <3>3 DEF FreshInv, Valid, BlankCopy, FreshManifest
    <3>5. RamInv' /\ StableInv' /\ PublishInv'
      BY <3>1, <3>2, <3>3 DEF RamInv, StableInv, PublishInv
    <3>6. CheckpointInv'
      BY <2>3, <3>1 DEF IInv, CheckpointInv
    <3>7. CallInv'
      BY <2>3, <3>1, <3>2 DEF CallInv, Serving
    <3> QED
      BY <3>4, <3>5, <3>6, <3>7 DEF RunInv
  <2> QED
    BY <2>2, <2>3
<1>3. CASE CallFails
  <2>1. ReturnError /\ UNCHANGED <<media, acked>>
    BY <1>3 DEF CallFails
  <2>2. up => pc \in Serving /\ ~faulted
    BY <1>3 DEF CallFails, Serving, IInv, CallInv
  <2> QED
    BY <2>1, <2>2, ErrorRun DEF media
<1>4. CASE AppendFails
  <2>1. pc = "frames" /\ up /\ ~faulted /\ ReturnError /\ UNCHANGED <<copy, acked>>
    BY <1>4 DEF AppendFails, IInv, CallInv, Serving, Persist, media
  <2> QED
    BY <2>1, ErrorRun DEF Serving
<1>5. CASE Deinit
  BY <1>5, DownRun DEF Deinit, media
<1>6. CASE PowerCut
  <2>1. CASE pc = "publish"
    BY <1>1, <1>6, <2>1, DownRun DEF PowerCut
  <2>2. CASE pc # "publish"
    <3>1. UNCHANGED <<copy, vb>> /\ GoDown
      BY <1>6, <2>2 DEF PowerCut, Persist, media
    <3> QED
      BY <3>1, DownRun
  <2> QED
    BY <2>1, <2>2
<1>7. CASE LoseCopy
  <2>1. pc = "down" /\ UNCHANGED <<vb, local, call, acked>>
    BY <1>7 DEF LoseCopy
  <2>2. FreshInv'
    <3>1. PICK s \in Two : copy' = [copy EXCEPT ![s] = TornCopy]
      BY <1>7 DEF LoseCopy
    <3>2. copy'[s] = TornCopy
      BY <3>1 DEF IInv, TypeOK
    <3>3. copy' # [t \in Two |-> BlankCopy]
      BY <3>2 DEF TornCopy, BlankCopy, FreshManifest
    <3> QED
      BY <2>1, <3>3 DEF FreshInv, call
  <2>3. RamInv' /\ StableInv' /\ PublishInv'
    BY <2>1 DEF RamInv, StableInv, PublishInv, call
  <2>4. CallInv' /\ CheckpointInv'
    BY <2>1 DEF IInv, CallInv, CheckpointInv, call, local, Serving
  <2> QED
    BY <2>2, <2>3, <2>4 DEF RunInv
<1> QED
  BY <1>2, <1>3, <1>4, <1>5, <1>6, <1>7 DEF FailureSteps

\* RunInv is kept by every step.
LEMMA RunStep ==
    ASSUME IInv, Next
    PROVE  RunInv'
<1>1. CASE InitSteps
  BY <1>1, SetupManifestRun, WriteProvisioningCopyRun, ProvisionAllDataFilesRun,
     InitialiseFirstWalRun, RecoverWalRun, ServeRun DEF InitSteps
<1>2. CASE Commit
  <2>1. pc \in Serving /\ ~faulted /\ acked' = acked
    BY <1>2 DEF Commit, Serving
  <2>2. CASE mem # {} /\ BeginFlush("commit")
    BY <2>1, <2>2, BeginFlushRun
  <2>3. CASE ReturnTo("commit") /\ UNCHANGED media
    BY <2>1, <2>3, MoveRun DEF ReturnTo, media
  <2> QED
    BY <1>2, <2>2, <2>3 DEF Commit
<1>3. CASE BeginValueWrite
  BY <1>3, BeginCompactionRun DEF BeginValueWrite, Serving
<1>4. CASE BeginAppend
  <2>1. pc \in Serving /\ ~faulted /\ StabilizeThen("append") /\ UNCHANGED <<media, acked>>
    BY <1>4 DEF BeginAppend, Serving, IInv, CallInv
  <2> QED
    BY <2>1, StabilizeThenRun
<1>5. CASE AppendTransaction
  <2>1. pc \in Serving /\ ~faulted /\ acked' = acked
    BY <1>5 DEF AppendTransaction, Serving, IInv, CallInv
  <2>2. CASE \E p \in {"frames", "rotate"} : ReturnTo(p) /\ UNCHANGED media
    BY <2>1, <2>2, MoveRun DEF ReturnTo, media
  <2>3. CASE BeginCompaction("rotate")
    BY <2>1, <2>3, BeginCompactionRun
  <2>4. CASE mem # {} /\ BeginFlush("rotate")
    BY <2>1, <2>4, BeginFlushRun
  <2> QED
    BY <1>5, <2>2, <2>3, <2>4 DEF AppendTransaction
<1>6. CASE RotateWal
  <2>1. pc \in Serving /\ ~faulted /\ UNCHANGED <<media, acked>>
    BY <1>6 DEF RotateWal, Serving, IInv, CallInv
  <2>2. CASE ReturnError
    BY <2>1, <2>2, ErrorRun DEF media
  <2>3. CASE ~(ram.wgen[1 - ram.wslot] # 0 \/ ram.gen > MaxGeneration - 2)
    <3>1. StabilizeThen("header") /\ ram.gen \in Nat
      BY <1>6, <2>3 DEF RotateWal, IInv, TypeOK, ManifestRecord
    <3>2. ram.wgen[1 - ram.wslot] = 0 /\ ram.gen <= MaxGeneration - 2
      BY <2>3, <3>1
    <3> QED
      BY <2>1, <3>1, <3>2, StabilizeThenRun
  <2> QED
    BY <1>6, <2>2, <2>3 DEF RotateWal
<1>7. CASE BeginWalHeader
  <2>1. /\ pc \in Serving /\ ~faulted /\ UNCHANGED <<copy, local, acked>> /\ pc' = "synced"
        /\ ram.wgen[1 - ram.wslot] = 0 /\ ram.gen <= MaxGeneration - 2
    BY <1>7 DEF BeginWalHeader, ReturnTo, Serving, IInv, CallInv
  <2> QED
    BY <2>1, MoveRun
<1>8. CASE WalHeaderSynced \/ AppendFrames \/ Compact \/ Flush \/ Stabilize
  BY <1>8, WalHeaderSyncedRun, AppendFramesRun, CompactRun, FlushRun, StabilizeRun
<1> QED
  BY <1>1, <1>2, <1>3, <1>4, <1>5, <1>6, <1>7, <1>8, PublishStepsRun, FailureStepsRun
     DEF Next, CommitSteps

-----------------------------------------------------------------------------
(* BoundInv                                                                *)

MediaBound ==
    /\ \A w \in Two : wal[w].last <= MaxSeq
    /\ \A b \in Two : \A i \in Index : ents[b][i] \subseteq 1 .. MaxSeq

CallBound ==
    /\ next <= MaxSeq + 1
    /\ mem \subseteq 1 .. MaxSeq
    /\ pc \in Committing => next <= MaxSeq
    /\ pc \in {"flush", "compact", "stabilize", "publish"} /\ back \in Committing =>
          next <= MaxSeq

\* BoundInv by what is on the medium and what the call holds.
LEMMA BoundParts == BoundInv <=> MediaBound /\ CallBound
BY DEF BoundInv, MediaBound, CallBound

\* The same for the next state.
LEMMA BoundPartsNext == BoundInv' <=> MediaBound' /\ CallBound'
BY DEF BoundInv, MediaBound, CallBound

\* The sequences on the medium stay below MaxSeq.
LEMMA MediaBoundStep ==
    ASSUME IInv, Next
    PROVE  MediaBound'
<1>1. /\ MediaBound /\ CallBound /\ wal \in [Two -> WalSlot]
      /\ ents \in [Two -> [Index -> SUBSET Nat]] /\ ram.wslot \in Two /\ ram.bank \in Two
      /\ next \in Nat
  <2>1. ram \in ManifestRecord
    BY DEF IInv, TypeOK
  <2> QED
    BY <2>1, BoundParts DEF IInv, TypeOK, ManifestRecord
<1>2. ASSUME wal' = wal, ents' = ents PROVE MediaBound'
  BY <1>1, <1>2 DEF MediaBound
<1>3. ASSUME NEW w, NEW h, h.last <= MaxSeq, wal' = [wal EXCEPT ![w] = h], ents' = ents
      PROVE  MediaBound'
  <2>1. \A v \in Two : wal'[v] = h \/ wal'[v] = wal[v]
    BY <1>1, <1>3
  <2> QED
    BY <1>1, <1>3, <2>1 DEF MediaBound
<1>4. ASSUME NEW b, NEW new \in [Index -> SUBSET (1 .. MaxSeq)],
             ents' = [ents EXCEPT ![b] = new], wal' = wal
      PROVE  MediaBound'
  <2>1. \A v \in Two : ents'[v] = new \/ ents'[v] = ents[v]
    BY <1>1, <1>4
  <2>2. \A v \in Two : \A i \in Index : ents'[v][i] \subseteq 1 .. MaxSeq
    BY <1>1, <1>4, <2>1 DEF MediaBound
  <2> QED
    BY <1>1, <1>4, <2>2 DEF MediaBound
<1>5. ASSUME NEW b, NEW i, NEW S \in SUBSET (1 .. MaxSeq),
             ents' = [ents EXCEPT ![b][i] = S], wal' = wal
      PROVE  MediaBound'
  <2>1. \A v \in Two : \A k \in Index : ents'[v][k] = S \/ ents'[v][k] = ents[v][k]
    BY <1>1, <1>5
  <2> QED
    BY <1>1, <1>5, <2>1 DEF MediaBound
<1>6. [i \in Index |-> {}] \in [Index -> SUBSET (1 .. MaxSeq)]
  OBVIOUS
<1>7. ASSUME NEW b, BeginCompaction(b) PROVE MediaBound'
  <2>1. CASE UNCHANGED media
    BY <1>2, <2>1 DEF media
  <2>2. CASE ~UNCHANGED media
    <3>1. ents' = [ents EXCEPT ![1 - ram.bank] = [i \in Index |-> {}]] /\ wal' = wal
      BY <1>7, <2>2 DEF BeginCompaction
    <3> QED
      BY <1>4, <1>6, <3>1
  <2> QED
    BY <2>1, <2>2
<1>8. ASSUME NEW b, BeginFlush(b) PROVE MediaBound'
  <2>1. CASE BeginCompaction(b)
    BY <1>7, <2>1
  <2>2. CASE ~BeginCompaction(b)
    <3>1. ents' = [ents EXCEPT ![ram.bank][Min(FreeIndexes(ram))] = {}] /\ wal' = wal
      BY <1>8, <2>2 DEF BeginFlush
    <3> QED
      BY <1>5, <3>1
  <2> QED
    BY <2>1, <2>2
<1>9. ASSUME NEW op, Persist(op), pc = "frames" PROVE MediaBound'
  <2>1. next <= MaxSeq
    BY <1>1, <1>9 DEF CallBound, Committing
  <2>2. \A v \in Two : wal'[v].last = next \/ wal'[v] = wal[v]
    BY <1>1, <1>9 DEF Persist, WalSlot
  <2>3. ents' = ents
    BY <1>9 DEF Persist
  <2> QED
    BY <1>1, <2>1, <2>2, <2>3 DEF MediaBound
<1>10. CASE UNCHANGED media
  BY <1>2, <1>10 DEF media
<1>11. CASE ProvisionAllDataFiles
  <2>1. CASE ram.state = "ready"
    BY <1>10, <1>11, <2>1 DEF ProvisionAllDataFiles
  <2>2. CASE ram.state # "ready"
    <3>1. /\ ents' = [b \in Two |-> [i \in Index |-> {}]]
          /\ wal' = [wal EXCEPT ![0] = NoWal]
      BY <1>11, <2>2 DEF ProvisionAllDataFiles
    <3>2. \A v \in Two : wal'[v] = NoWal \/ wal'[v] = wal[v]
      BY <1>1, <3>1
    <3>3. \A v \in Two : wal'[v].last <= MaxSeq
      BY <1>1, <3>2 DEF MediaBound, NoWal
    <3> QED
      BY <3>1, <3>3 DEF MediaBound
  <2> QED
    BY <2>1, <2>2
<1>12. CASE InitialiseFirstWal
  <2>1. PICK h : h = [gen |-> 1, first |-> 1, last |-> 0]
    OBVIOUS
  <2>2. h.last <= MaxSeq
    BY <2>1
  <2> QED
    BY <1>3, <1>12, <2>1, <2>2 DEF InitialiseFirstWal
<1>13. CASE Commit \/ BeginValueWrite
  BY <1>7, <1>8, <1>10, <1>13 DEF Commit, BeginValueWrite
<1>14. CASE AppendTransaction
  BY <1>7, <1>8, <1>10, <1>14 DEF AppendTransaction
<1>15. CASE BeginWalHeader
  <2>1. NoWal.last <= MaxSeq
    BY DEF NoWal
  <2> QED
    BY <1>3, <1>15, <2>1 DEF BeginWalHeader
<1>16. CASE WalHeaderSynced
  <2>1. PICK h : h = [gen |-> ram.wgen[ram.wslot] + 1, first |-> next, last |-> next - 1]
    OBVIOUS
  <2>2. next <= MaxSeq
    BY <1>1, <1>16 DEF WalHeaderSynced, CallBound, Committing
  <2>3. h.last <= MaxSeq
    BY <1>1, <2>1, <2>2
  <2> QED
    BY <1>3, <1>16, <2>1, <2>3 DEF WalHeaderSynced
<1>17. CASE AppendFrames
  BY <1>9, <1>17 DEF AppendFrames
<1>18. CASE Flush
  BY <1>1, <1>5, <1>18 DEF Flush, CallBound
<1>19. CASE Compact
  <2>1. PICK f \in Splits(Live(mem \cup TableEntries(ram))) :
           LET part == [i \in Index |-> {s \in Live(mem \cup TableEntries(ram)) : f[s] = i}]
           IN  ents' = [ents EXCEPT ![Compacted(part).bank] = part]
    BY <1>19 DEF Compact
  <2>4. wal' = wal
    BY <1>19 DEF Compact
  <2>2. Live(mem \cup TableEntries(ram)) \subseteq 1 .. MaxSeq
    BY SourcesBounded DEF IInv, Live, Newest
  <2>3. [i \in Index |-> {s \in Live(mem \cup TableEntries(ram)) : f[s] = i}]
            \in [Index -> SUBSET (1 .. MaxSeq)]
    BY <2>2
  <2> QED
    BY <1>4, <2>1, <2>3, <2>4
<1>20. CASE SetupManifest \/ WriteProvisioningCopy \/ RecoverWal \/ Serve
  BY <1>10, <1>20 DEF SetupManifest, WriteProvisioningCopy, RecoverWal, Serve
<1>21. CASE BeginAppend \/ RotateWal \/ Stabilize \/ CallFails \/ Deinit
  BY <1>10, <1>21 DEF BeginAppend, RotateWal, Stabilize, CallFails, Deinit
<1>22. CASE PublishSteps
  BY <1>2, <1>22 DEF PublishSteps, ProvisioningCopyPublished, ReadyPublished, FlushPublished,
     CompactionPublished, RotationPublished, StabilizationPublished, Published
<1>23. CASE PublishFails \/ LoseCopy
  BY <1>2, <1>23 DEF PublishFails, CopyInterrupted, LoseCopy
<1>24. CASE AppendFails
  BY <1>9, <1>10, <1>24 DEF AppendFails
<1>25. CASE PowerCut
  BY <1>2, <1>9, <1>10, <1>25 DEF PowerCut, CopyInterrupted
<1> QED
  BY <1>11, <1>12, <1>13, <1>14, <1>15, <1>16, <1>17, <1>18, <1>19, <1>20, <1>21, <1>22,
     <1>23, <1>24, <1>25 DEF Next, InitSteps, CommitSteps, FailureSteps

\* A database that is down has no sequences in RAM.
LEMMA DownBound == GoDown => CallBound'
BY DEF GoDown, CallBound, Committing

\* A step that leaves the RAM state alone and goes on at p, to come back at q.
LEMMA MoveBound ==
    ASSUME IInv, UNCHANGED local, NEW p, pc' = p, NEW q, back' = q,
           p \in Committing => next <= MaxSeq,
           p \in {"flush", "compact", "stabilize", "publish"} /\ q \in Committing =>
              next <= MaxSeq
    PROVE  CallBound'
BY BoundParts DEF IInv, CallBound, local

\* A call that returns an error keeps CallBound, ...
LEMMA ErrorBound ==
    ASSUME IInv, ReturnError
    PROVE  CallBound'
<1>1. CASE up
  <2>1. pc' = "idle" /\ UNCHANGED local
    BY <1>1 DEF ReturnError, ReturnTo
  <2> QED
    BY <2>1, MoveBound DEF Committing
<1>2. CASE ~up
  BY <1>2, DownBound DEF ReturnError
<1> QED
  BY <1>1, <1>2

\* ... so does one that begins a manifest copy, ...
LEMMA BeginCopyBound ==
    ASSUME IInv, NEW m, NEW j, NEW b, BeginCopy(m, j, b), b \in Committing => next <= MaxSeq
    PROVE  CallBound'
<1>1. CASE ReturnError
  BY <1>1, ErrorBound
<1>2. CASE ~ReturnError
  <2>1. pc' = "publish" /\ back' = b /\ UNCHANGED local
    BY <1>2 DEF BeginCopy
  <2> QED
    BY <2>1, MoveBound DEF Committing
<1> QED
  BY <1>1, <1>2

\* ... a compaction ...
LEMMA BeginCompactionBound ==
    ASSUME IInv, NEW b, BeginCompaction(b), b \in Committing => next <= MaxSeq
    PROVE  CallBound'
<1>1. CASE ReturnError
  BY <1>1, ErrorBound
<1>2. CASE ~ReturnError
  <2>1. pc' = "compact" /\ back' = b /\ UNCHANGED local
    BY <1>2 DEF BeginCompaction
  <2> QED
    BY <2>1, MoveBound DEF Committing
<1> QED
  BY <1>1, <1>2

\* ... or a flush.
LEMMA BeginFlushBound ==
    ASSUME IInv, NEW b, BeginFlush(b), b \in Committing => next <= MaxSeq
    PROVE  CallBound'
<1>1. CASE BeginCompaction(b)
  BY <1>1, BeginCompactionBound
<1>2. CASE ~BeginCompaction(b)
  <2>1. pc' = "flush" /\ back' = b /\ UNCHANGED local
    BY <1>2 DEF BeginFlush
  <2> QED
    BY <2>1, MoveBound DEF Committing
<1> QED
  BY <1>1, <1>2

\* CallBound is kept by every step.
LEMMA CallBoundStep ==
    ASSUME IInv, Next
    PROVE  CallBound'
<1>1. MediaBound /\ CallBound /\ next \in Nat
  BY BoundParts DEF IInv, TypeOK
<1>2. pc \in Committing => next <= MaxSeq
  BY <1>1 DEF CallBound
<1>3. CASE SetupManifest
  <2>1. CASE GoDown
    BY <2>1, DownBound
  <2>2. CASE ~GoDown
    <3>1. pc' \in {"create", "provision"} /\ UNCHANGED <<mem, next>>
      BY <1>3, <2>2 DEF SetupManifest, ReturnTo, local
    <3> QED
      BY <1>1, <3>1 DEF CallBound, Committing
  <2> QED
    BY <2>1, <2>2
<1>4. CASE WriteProvisioningCopy \/ InitialiseFirstWal
  <2>1. PICK m, j, b : BeginCopy(m, j, b) /\ b \in {"provision", "recover"}
    BY <1>4 DEF WriteProvisioningCopy, InitialiseFirstWal
  <2> QED
    BY <2>1, BeginCopyBound DEF Committing
<1>5. CASE ProvisionAllDataFiles
  <2>1. pc' \in {"recover", "firstwal"} /\ UNCHANGED local
    BY <1>5 DEF ProvisionAllDataFiles, ReturnTo
  <2> QED
    BY <1>1, <2>1 DEF CallBound, Committing, local
<1>6. CASE RecoverWal
  <2>1. CASE GoDown
    BY <2>1, DownBound
  <2>2. CASE ~GoDown
    <3>1. /\ mem' = Newest(Replayed(ram)) /\ next' = wal[ram.wslot].last + 1
          /\ pc' = "stabilize" /\ back' = "serve"
      BY <1>6, <2>2 DEF RecoverWal
    <3>2. /\ ram.ckpt \in Nat /\ wal[ram.wslot].last \in Nat /\ wal[ram.wslot].last <= MaxSeq
      BY <1>1 DEF IInv, TypeOK, ManifestRecord, WalSlot, MediaBound
    <3>3. mem' \subseteq (ram.ckpt + 1) .. wal[ram.wslot].last
      BY <3>1 DEF Newest, Replayed
    <3> QED
      BY <3>1, <3>2, <3>3 DEF CallBound, Committing
  <2> QED
    BY <2>1, <2>2
<1>7. CASE Serve
  BY <1>1, <1>7 DEF Serve, CallBound, Committing
<1>8. CASE Commit
  <2>1. next <= MaxSeq
    BY <1>8 DEF Commit
  <2>2. CASE ReturnTo("commit")
    BY <1>1, <2>1, <2>2 DEF ReturnTo, CallBound, local
  <2>3. CASE BeginFlush("commit")
    BY <2>1, <2>3, BeginFlushBound
  <2> QED
    BY <1>8, <2>2, <2>3 DEF Commit
<1>9. CASE BeginValueWrite
  BY <1>9, BeginCompactionBound DEF BeginValueWrite, Committing
<1>10. CASE BeginAppend \/ BeginWalHeader
  <2>1. next <= MaxSeq /\ UNCHANGED local
    BY <1>2, <1>10 DEF BeginAppend, BeginWalHeader, StabilizeThen, ReturnTo, Committing
  <2> QED
    BY <1>1, <2>1 DEF CallBound, local
<1>11. CASE AppendTransaction
  <2>1. next <= MaxSeq
    BY <1>2, <1>11 DEF AppendTransaction, Committing
  <2>2. CASE \E p : ReturnTo(p)
    BY <1>1, <2>1, <2>2 DEF ReturnTo, CallBound, local
  <2> QED
    BY <1>11, <2>1, <2>2, BeginFlushBound, BeginCompactionBound DEF AppendTransaction
<1>12. CASE RotateWal
  <2>1. next <= MaxSeq
    BY <1>2, <1>12 DEF RotateWal, Committing
  <2>2. CASE ReturnError
    BY <2>2, ErrorBound
  <2>3. CASE StabilizeThen("header")
    BY <1>1, <2>1, <2>3 DEF StabilizeThen, CallBound, local
  <2> QED
    BY <1>12, <2>2, <2>3 DEF RotateWal
<1>13. CASE WalHeaderSynced
  <2>1. next <= MaxSeq
    BY <1>2, <1>13 DEF WalHeaderSynced, Committing
  <2>2. PICK m, j, b : BeginCopy(m, j, b)
    BY <1>13 DEF WalHeaderSynced
  <2> QED
    BY <2>1, <2>2, BeginCopyBound
<1>14. CASE AppendFrames
  <2>1. next <= MaxSeq
    BY <1>2, <1>14 DEF AppendFrames, Committing
  <2>2. pc' = "idle" /\ next' = next + 1 /\ mem' \subseteq mem \cup {next}
    BY <1>14 DEF AppendFrames
  <2>3. mem' \subseteq 1 .. MaxSeq
    BY <1>1, <2>1, <2>2 DEF IInv, TypeOK, CallBound
  <2> QED
    BY <1>1, <2>1, <2>2, <2>3 DEF CallBound, Committing
<1>15. CASE Compact
  <2>1. ReturnError \/ \E m : BeginCopy(m, "compact", back)
    BY <1>15 DEF Compact
  <2>2. back \in Committing => next <= MaxSeq
    BY <1>1, <1>15 DEF Compact, CallBound
  <2> QED
    BY <2>1, <2>2, ErrorBound, BeginCopyBound
<1>16. CASE Flush
  <2>1. back \in Committing => next <= MaxSeq
    BY <1>1, <1>16 DEF Flush, CallBound
  <2>2. PICK m : BeginCopy(m, "flush", back)
    BY <1>16 DEF Flush
  <2> QED
    BY <2>1, <2>2, BeginCopyBound
<1>17. CASE Stabilize
  <2>1. back \in Committing => next <= MaxSeq
    BY <1>1, <1>17 DEF Stabilize, CallBound
  <2>2. CASE ReturnTo(back)
    BY <1>1, <2>1, <2>2 DEF ReturnTo, CallBound, local
  <2>3. CASE \E m : BeginCopy(m, "stabilize", back)
    BY <2>1, <2>3, BeginCopyBound
  <2> QED
    BY <1>17, <2>2, <2>3 DEF Stabilize
<1>18. CASE PublishSteps
  <2>1. /\ pc = "publish" /\ UNCHANGED <<next, back>> /\ mem' \in {mem, {}}
        /\ pc' \in {back, "create", "stabilize"}
    BY <1>18 DEF PublishSteps, ProvisioningCopyPublished, ReadyPublished, FlushPublished,
       CompactionPublished, RotationPublished, StabilizationPublished, Published
  <2>2. back \in Committing => next <= MaxSeq
    BY <1>1, <2>1 DEF CallBound
  <2>3. mem' \subseteq 1 .. MaxSeq /\ next' <= MaxSeq + 1
    BY <1>1, <2>1 DEF CallBound
  <2> QED
    BY <2>1, <2>2, <2>3 DEF CallBound, Committing
<1>19. CASE PublishFails
  <2>1. CASE ~up
    BY <1>19, <2>1, DownBound DEF PublishFails
  <2>2. CASE up
    BY <1>1, <1>19, <2>2 DEF PublishFails, CallBound, Committing
  <2> QED
    BY <2>1, <2>2
<1>20. CASE CallFails \/ AppendFails
  BY <1>20, ErrorBound DEF CallFails, AppendFails
<1>21. CASE Deinit \/ PowerCut
  BY <1>21, DownBound DEF Deinit, PowerCut
<1>22. CASE LoseCopy
  BY <1>1, <1>22 DEF LoseCopy, CallBound, local, call
<1> QED
  BY <1>3, <1>4, <1>5, <1>6, <1>7, <1>8, <1>9, <1>10, <1>11, <1>12, <1>13, <1>14, <1>15,
     <1>16, <1>17, <1>18, <1>19, <1>20, <1>21, <1>22
     DEF Next, InitSteps, CommitSteps, FailureSteps

-----------------------------------------------------------------------------
(* The inductive invariant.                                                *)

\* A blank medium satisfies the inductive invariant.
LEMMA IInvInit == Init => IInv
<1>1. SUFFICES ASSUME Init PROVE IInv
  OBVIOUS
<1>2. /\ FreshManifest \in ManifestRecord /\ BlankCopy \in ManifestRecord
  BY RecordTypes
<1>3. \A s \in Two : ~Valid(copy[s])
  BY <1>1 DEF Init, Valid, BlankCopy, FreshManifest
<1>4. TypeOK
  <2>1. MediaType
    <3>1. copy \in [Two -> ManifestRecord]
      BY <1>1, <1>2 DEF Init
    <3>2. /\ wal \in [Two -> WalSlot] /\ tab \in [Two -> [Index -> Nat]]
          /\ ents \in [Two -> [Index -> SUBSET Nat]] /\ vb \in [Two -> Nat]
      BY <1>1 DEF Init, WalSlot, NoWal
    <3>3. ops \in Seq(Operation)
      BY <1>1 DEF Init
    <3> QED
      BY <3>1, <3>2, <3>3 DEF MediaType
  <2>2. LocalType
    <3>1. up \in BOOLEAN /\ stab \in BOOLEAN /\ faulted \in BOOLEAN
      BY <1>1, Zenon DEF Init
    <3>2. ram \in ManifestRecord /\ mem \in SUBSET Nat /\ next \in Nat \ {0}
      BY <1>1, <1>2 DEF Init
    <3> QED
      BY <3>1, <3>2 DEF LocalType
  <2>3. CallType /\ acked \in Nat
    BY <1>1, <1>2 DEF Init, CallType, Place, PublishJob
  <2> QED
    BY <2>1, <2>2, <2>3, TypeParts
<1>5. MediumInv
  BY <1>1, <1>3 DEF MediumInv, Init, Two
<1>6. FreshInv
  BY <1>1 DEF FreshInv, Init, Two
<1>7. RamInv /\ StableInv /\ CheckpointInv /\ PublishInv
  BY <1>1 DEF Init, RamInv, StableInv, CheckpointInv, PublishInv
<1>8. CallInv
  BY <1>1 DEF Init, CallInv, Serving
<1>9. BoundInv
  BY <1>1 DEF Init, BoundInv, NoWal, Committing
<1> QED
  BY <1>4, <1>5, <1>6, <1>7, <1>8, <1>9 DEF IInv

\* Every step preserves the inductive invariant.
LEMMA IInvStep == IInv /\ [Next]_vars => IInv'
<1>1. SUFFICES ASSUME IInv, [Next]_vars PROVE IInv'
  OBVIOUS
<1>2. CASE Next
  <2>1. TypeOK /\ BoundInv /\ CallInv
    BY <1>1 DEF IInv
  <2>2. TypeOK'
    BY <1>2, <2>1, InitStepsType, CommitStepsType, PublishStepsType, FailureStepsType
       DEF Next
  <2>3. MediumInv'
    BY <1>1, <1>2, MediumStep
  <2>4. RunInv'
    BY <1>1, <1>2, RunStep
  <2>5. BoundInv'
    BY <1>1, <1>2, MediaBoundStep, CallBoundStep, BoundPartsNext
  <2> QED
    BY <2>2, <2>3, <2>4, <2>5 DEF IInv, RunInv
<1>3. CASE UNCHANGED vars
  <2>1. UNCHANGED <<media, local, call, acked>>
    BY <1>3 DEF vars
  <2>2. UNCHANGED <<copy, wal, tab, ents, vb, ops, up, ram, stab, faulted, mem, next,
                    pc, back, job, out, acked>>
    BY <2>1 DEF media, local, call
  <2>3. TypeOK'
    BY <1>1, <2>2 DEF IInv, TypeOK
  <2>4. MediumInv' /\ FreshInv'
    BY <1>1, <2>2 DEF IInv, MediumInv, FreshInv, CopySound, StorageIntact
  <2>5. RamInv' /\ StableInv'
    BY <1>1, <2>2 DEF IInv, RamInv, StableInv
  <2>6. CallInv' /\ BoundInv' /\ CheckpointInv'
    BY <1>1, <2>2 DEF IInv, CallInv, FreeIndexes, BoundInv, CheckpointInv
  <2>7. PublishInv'
    BY <1>1, <2>2 DEF IInv, PublishInv, JobInv, StorageIntact
  <2> QED
    BY <2>3, <2>4, <2>5, <2>6, <2>7 DEF IInv
<1> QED
  BY <1>1, <1>2, <1>3

\* The inductive invariant holds in every reachable state.
THEOREM Inductive == Spec => []IInv
BY IInvInit, IInvStep, PTL DEF Spec

-----------------------------------------------------------------------------
(* What follows.                                                           *)

\* Every variable keeps its type: no operation of the engine, no failure and
\* no power cut leaves the range of the declarations in on9kvdb.hpp.
THEOREM TypeCorrect == Spec => []TypeOK
<1>1. IInv => TypeOK
  BY DEF IInv
<1> QED
  BY <1>1, Inductive, PTL

\* No flush, compaction, rotation or provisioning step overwrites a table, a
\* WAL slot or a value bank that a decodable manifest copy still reaches.
THEOREM StorageSafe == Spec => []ReferencedStorageIntact
<1>1. IInv => ReferencedStorageIntact
  BY DEF IInv, MediumInv, CopySound, ReferencedStorageIntact, ValidSlots
<1> QED
  BY <1>1, Inductive, PTL

\* load_manifest() accepts every pair of copies the engine can leave behind,
\* and a database with an acknowledged commit always has a valid copy.
THEOREM ManifestSafe == Spec => []ManifestAlwaysLoads
<1>1. ASSUME IInv PROVE ManifestAlwaysLoads
  <2>1. copy \in [Two -> ManifestRecord] /\ acked \in Nat
    BY <1>1 DEF IInv, TypeOK
  <2>2. acked > 0 => ValidSlots(copy) # {}
    BY <1>1 DEF IInv, MediumInv, ValidSlots, Two
  <2>3. ASSUME ValidSlots(copy) # {} PROVE LoadAccepts(copy)
    <3>1. PICK n : n = SelectedSlot(copy)
      OBVIOUS
    <3>2. /\ n \in Two /\ Valid(copy[n])
          /\ \A t \in ValidSlots(copy) :
                copy[t].gen < copy[n].gen \/ (copy[t].gen = copy[n].gen /\ n <= t)
      BY <2>1, <2>3, <3>1, SelectedSlotExists DEF ValidSlots
    <3>3. ASSUME NEW s \in ValidSlots(copy)
          PROVE  Slot(copy[s].gen) = s /\ Adjacent(copy[s], copy[n])
      <4>1. s \in Two /\ Valid(copy[s])
        BY DEF ValidSlots
      <4>2. Slot(copy[s].gen) = s
        BY <1>1, <4>1 DEF IInv, MediumInv, CopySound
      <4>3. /\ copy[s] \in ManifestRecord /\ copy[n] \in ManifestRecord
            /\ copy[s].gen \in Nat /\ copy[n].gen \in Nat
            /\ copy[s].ntg \in Nat /\ copy[s].ckpt \in Nat
        BY <2>1, <3>2, <4>1 DEF ManifestRecord
      <4>4. CASE s = n
        BY <4>2, <4>3, <4>4 DEF Adjacent
      <4>5. CASE s # n
        <5>1. s = Other(n) /\ Valid(copy[0]) /\ Valid(copy[1])
          BY <3>2, <4>1, <4>5 DEF Other, Two
        <5>2. copy[0].gen = copy[1].gen + 1 \/ copy[1].gen = copy[0].gen + 1
          BY <1>1, <5>1 DEF IInv, MediumInv
        <5>3. copy[s].gen # copy[n].gen
          BY <3>2, <4>1, <4>3, <4>5, <5>2 DEF Two
        <5>4. copy[Other(n)].gen < copy[n].gen
          BY <3>2, <5>1, <5>3
        <5> QED
          BY <1>1, <3>2, <4>2, <5>1, <5>4 DEF IInv, MediumInv
      <4> QED
        BY <4>4, <4>5
    <3> QED
      BY <2>3, <3>1, <3>3 DEF LoadAccepts
  <2> QED
    BY <2>2, <2>3 DEF ManifestAlwaysLoads
<1> QED
  BY <1>1, Inductive, PTL

\* A database that accepts an operation has two valid copies from which the
\* same storage is reachable.
THEOREM ServesStable == Spec => []ServesOnTwoCopies
<1>1. ASSUME IInv PROVE ServesOnTwoCopies
  <2>1. SUFFICES ASSUME pc = "idle", ~faulted
                 PROVE  ValidSlots(copy) = Two /\ SameReach(copy[0], copy[1])
    BY DEF ServesOnTwoCopies
  <2>2. up /\ ~stab /\ ram.state = "ready"
    BY <1>1, <2>1 DEF IInv, CallInv, Serving
  <2>3. PICK s : s = Slot(ram.gen)
    OBVIOUS
  <2>4. ram.gen # 0
    BY <1>1, <2>2, UpFacts
  <2>5. Valid(copy[s]) /\ copy[s] = ram /\ s \in Two
    BY <1>1, <2>1, <2>3, <2>4, RamIsCopy
  <2>6. Valid(copy[Other(s)]) /\ SameReach(copy[Other(s)], copy[s])
    BY <1>1, <2>1, <2>2, <2>3, <2>5 DEF IInv, StableInv
  <2>7. CASE s = 0
    BY <2>5, <2>6, <2>7 DEF Other, Two, ValidSlots, SameReach
  <2>8. CASE s = 1
    BY <2>5, <2>6, <2>8 DEF Other, Two, ValidSlots, SameReach
  <2> QED
    BY <2>5, <2>7, <2>8 DEF Two
<1> QED
  BY <1>1, Inductive, PTL

-----------------------------------------------------------------------------
(* The newest versions among a set of sequences.                           *)

\* What is live is newest, and what is newest was there.
LEMMA LiveWithin ==
    ASSUME NEW S
    PROVE  Live(S) \subseteq Newest(S) /\ Newest(S) \subseteq S
BY DEF Live, Newest

\* Every transaction in a range has a newest one of its key behind it.
LEMMA NewestExists ==
    ASSUME NEW a \in Nat, NEW n \in Nat, NEW s \in a .. n
    PROVE  \E u \in Newest(a .. n) : ops[u].key = ops[s].key /\ s <= u
<1> DEFINE T == {t \in a .. n : ops[t].key = ops[s].key}
<1>1. T \in SUBSET Nat /\ T # {} /\ \A y \in T : y <= n
  OBVIOUS
<1>2. PICK u \in T : \A y \in T : u >= y
  BY <1>1, GreatestNatural
<1>3. u \in Newest(a .. n)
  BY <1>2 DEF Newest
<1> QED
  BY <1>2, <1>3

\* Tables T show what the transactions up to the checkpoint c do, ...
Shows(T, c) == T \subseteq 1 .. c /\ Live(T) = Live(1 .. c)

\* ... and a memtable M holds at least the newest versions after it, up to n.
Continues(M, c, n) == M \subseteq (c + 1) .. n /\ Newest((c + 1) .. n) \subseteq M

\* A reader that consults the tables behind a memtable sees the same as one
\* that has every transaction.
LEMMA LiveMerge ==
    ASSUME NEW c \in Nat, NEW n \in Nat, c <= n,
           NEW T, Shows(T, c), NEW M, Continues(M, c, n)
    PROVE  Live(M \cup T) = Live(1 .. n)
<1> USE DEF Shows, Continues
<1>1. \A t \in (c + 1) .. n : \E u \in M : ops[u].key = ops[t].key /\ t <= u
  <2>1. TAKE t \in (c + 1) .. n
  <2>2. c + 1 \in Nat
    OBVIOUS
  <2>3. PICK u \in Newest((c + 1) .. n) : ops[u].key = ops[t].key /\ t <= u
    BY <2>2, NewestExists
  <2> QED
    BY <2>3
<1>2. ASSUME NEW s \in Live(M \cup T) PROVE s \in Live(1 .. n)
  <2>1. s \in M \cup T /\ ~ops[s].del /\ \A t \in M \cup T : ops[t].key = ops[s].key => t <= s
    BY DEF Live, Newest
  <2>2. s \in 1 .. n
    BY <2>1
  <2>3. ASSUME NEW t \in 1 .. n, ops[t].key = ops[s].key PROVE t <= s
    <3>1. CASE t \in (c + 1) .. n
      <4>1. PICK u \in M : ops[u].key = ops[t].key /\ t <= u
        BY <1>1, <3>1
      <4>2. u <= s
        BY <2>1, <2>3, <4>1
      <4> QED
        BY <2>2, <4>1, <4>2
    <3>2. CASE t \in 1 .. c /\ s \in M
      BY <3>2
    <3>3. CASE t \in 1 .. c /\ s \in T
      <4>1. s \in Live(T)
        BY <2>1, <3>3 DEF Live, Newest
      <4>2. s \in Live(1 .. c)
        BY <4>1
      <4> QED
        BY <2>3, <3>3, <4>2 DEF Live, Newest
    <3> QED
      BY <2>1, <3>1, <3>2, <3>3
  <2> QED
    BY <2>1, <2>2, <2>3 DEF Live, Newest
<1>3. ASSUME NEW s \in Live(1 .. n) PROVE s \in Live(M \cup T)
  <2>1. s \in 1 .. n /\ ~ops[s].del /\ \A t \in 1 .. n : ops[t].key = ops[s].key => t <= s
    BY DEF Live, Newest
  <2>2. s \in M \cup T
    <3>1. CASE s \in 1 .. c
      <4>1. \A t \in 1 .. c : t \in 1 .. n
        OBVIOUS
      <4>2. s \in Live(1 .. c)
        BY <2>1, <3>1, <4>1 DEF Live, Newest
      <4> QED
        BY <4>2, LiveWithin
    <3>2. CASE s \in (c + 1) .. n
      <4>1. \A t \in (c + 1) .. n : t \in 1 .. n
        OBVIOUS
      <4>2. s \in Newest((c + 1) .. n)
        BY <2>1, <3>2, <4>1 DEF Newest
      <4> QED
        BY <4>2
    <3> QED
      BY <2>1, <3>1, <3>2
  <2>3. \A t \in M \cup T : t \in 1 .. n
    OBVIOUS
  <2> QED
    BY <2>1, <2>2, <2>3 DEF Live, Newest
<1> QED
  BY <1>2, <1>3

\* Dropping everything but the live versions leaves them live.
LEMMA LiveOfLive ==
    ASSUME NEW S
    PROVE  Live(Live(S)) = Live(S)
BY DEF Live, Newest

\* The newest versions of a set only depend on its own transactions.
LEMMA SameVersions ==
    ASSUME NEW S, \A s \in S : ops'[s] = ops[s]
    PROVE  Newest(S)' = Newest(S) /\ Live(S)' = Live(S)
<1>1. Newest(S)' = Newest(S)
  BY DEF Newest
<1> QED
  BY <1>1 DEF Live, Newest

\* A transaction replaces the one of its key in the memtable.
LEMMA NewestAppend ==
    ASSUME NEW a \in Nat, NEW n \in Nat, a <= n, NEW op,
           \A s \in a .. (n - 1) : ops'[s] = ops[s], ops'[n] = op
    PROVE  Newest(a .. n)' = {s \in Newest(a .. (n - 1)) : ops[s].key # op.key} \cup {n}
<1>1. ASSUME NEW s \in Newest(a .. n)', s # n
      PROVE  s \in Newest(a .. (n - 1)) /\ ops[s].key # op.key
  <2>1. s \in a .. n /\ \A t \in a .. n : ops'[t].key = ops'[s].key => t <= s
    BY <1>1 DEF Newest
  <2>2. s \in a .. (n - 1) /\ n \in a .. n /\ ~(n <= s)
    BY <1>1, <2>1
  <2>3. ops'[n].key # ops'[s].key
    BY <2>1, <2>2
  <2>4. \A t \in a .. (n - 1) : t \in a .. n
    OBVIOUS
  <2> QED
    BY <2>1, <2>2, <2>3, <2>4 DEF Newest
<1>2. ASSUME NEW s \in Newest(a .. (n - 1)), ops[s].key # op.key
      PROVE  s \in Newest(a .. n)'
  <2>1. s \in a .. (n - 1) /\ \A t \in a .. (n - 1) : ops[t].key = ops[s].key => t <= s
    BY DEF Newest
  <2>2. ops'[s] = ops[s] /\ s \in a .. n
    BY <2>1
  <2>3. ASSUME NEW t \in a .. n, ops'[t].key = ops'[s].key PROVE t <= s
    <3>1. t # n
      BY <1>2, <2>2, <2>3
    <3>2. t \in a .. (n - 1)
      BY <3>1
    <3> QED
      BY <2>1, <2>2, <2>3, <3>2
  <2> QED
    BY <2>2, <2>3 DEF Newest
<1>3. n \in Newest(a .. n)'
  BY DEF Newest
<1> QED
  BY <1>1, <1>2, <1>3

-----------------------------------------------------------------------------
(* What a step does to the data on the medium.                             *)

\* Nothing.
Quiet == UNCHANGED <<copy, wal, ents, ops, acked>>

\* Provisioning writes tables and WAL slots that no transaction is in yet.
Provisions ==
    /\ pc # "down" /\ ram.state = "provisioning" /\ ~faulted
    /\ UNCHANGED <<copy, ops, acked>>

\* The entries of the tables that record c reaches stay.
SameEntries(c) == \A i \in ActiveIndexes(c) : ents'[c.bank][i] = ents[c.bank][i]

\* A flush or a compaction writes tables.
WritesTables ==
    /\ pc \in Serving /\ ~faulted
    /\ \A s \in Two : Valid(copy[s]) => SameEntries(copy[s])
    /\ UNCHANGED <<copy, wal, ops, acked>>

\* A rotation writes the header of the other WAL slot.
WritesHeader ==
    /\ pc \in {"header", "synced"}
    /\ \E h : wal' = [wal EXCEPT ![1 - ram.wslot] = h]
    /\ UNCHANGED <<copy, ents, ops, acked>>

\* The frames of the next transaction reach the medium.
WritesFrames ==
    /\ pc = "frames"
    /\ \E op \in Staged : Persist(op)
    /\ acked' \in {acked, next}

\* recover_wal() reports what it has found.
Recovers ==
    /\ pc = "recover" /\ ram.state = "ready" /\ Recoverable(ram)
    /\ acked' = wal[ram.wslot].last
    /\ UNCHANGED <<copy, wal, ents, ops>>

\* A manifest copy is written, torn or left as it was.
WritesCopy ==
    /\ pc = "publish"
    /\ \E c \in {copy[Slot(out.gen)], TornCopy, out} :
          copy' = [copy EXCEPT ![Slot(out.gen)] = c]
    /\ UNCHANGED <<wal, ents, ops, acked>>

\* Writing a table slot that is free in RAM leaves the entries of the copies.
LEMMA FlushEntries ==
    ASSUME IInv, pc \in Serving, ~faulted, FreeIndexes(ram) # {}, NEW e,
           ents' = [ents EXCEPT ![ram.bank][Min(FreeIndexes(ram))] = e],
           NEW s \in Two, Valid(copy[s])
    PROVE  SameEntries(copy[s])
<1>1. up /\ ram.state = "ready" /\ ~stab /\ pc \notin {"down", "create", "provision", "firstwal"}
  BY DEF IInv, CallInv, Serving
<1>2. /\ copy[s].bank = ram.bank
      /\ \A i \in Index : ram.tabs[ram.bank][i].gen = 0 => copy[s].tabs[ram.bank][i].gen = 0
  BY <1>1, BothReachSame
<1>3. Min(FreeIndexes(ram)) \in FreeIndexes(ram)
  <2>1. FreeIndexes(ram) \in SUBSET Nat
    BY DEF FreeIndexes, Index
  <2> QED
    BY <2>1, MinOfNaturals
<1>4. ram.bank \in Two /\ ents \in [Two -> [Index -> SUBSET Nat]]
  BY DEF IInv, TypeOK, ManifestRecord
<1>5. \A i \in ActiveIndexes(copy[s]) : i \in Index /\ i # Min(FreeIndexes(ram))
  BY <1>2, <1>3 DEF FreeIndexes, ActiveIndexes
<1> QED
  BY <1>2, <1>4, <1>5 DEF SameEntries

\* So does writing the bank that is not active.
LEMMA CompactionEntries ==
    ASSUME IInv, pc \in Serving, ~faulted, NEW e,
           ents' = [ents EXCEPT ![1 - ram.bank] = e],
           NEW s \in Two, Valid(copy[s])
    PROVE  SameEntries(copy[s])
<1>1. up /\ ram.state = "ready" /\ ~stab /\ pc \notin {"down", "create", "provision", "firstwal"}
  BY DEF IInv, CallInv, Serving
<1>2. copy[s].bank = ram.bank
  BY <1>1, BothReachSame
<1>3. ram.bank \in Two /\ ents \in [Two -> [Index -> SUBSET Nat]]
  BY DEF IInv, TypeOK, ManifestRecord
<1>4. ram.bank # 1 - ram.bank
  BY <1>3 DEF Two
<1> QED
  BY <1>2, <1>3, <1>4 DEF SameEntries

\* Beginning a compaction writes tables at most.
LEMMA BeginCompactionData ==
    ASSUME IInv, pc \in Serving, ~faulted, NEW b, BeginCompaction(b), acked' = acked
    PROVE  Quiet \/ WritesTables
<1>1. CASE ram.gen > MaxGeneration - 2
  BY <1>1 DEF BeginCompaction, Quiet, media
<1>2. CASE ~(ram.gen > MaxGeneration - 2)
  BY <1>2, CompactionEntries DEF BeginCompaction, WritesTables
<1> QED
  BY <1>1, <1>2

\* So does beginning a flush.
LEMMA BeginFlushData ==
    ASSUME IInv, pc \in Serving, ~faulted, NEW b, BeginFlush(b), acked' = acked
    PROVE  Quiet \/ WritesTables
<1>1. CASE FreeIndexes(ram) = {}
  BY <1>1, BeginCompactionData DEF BeginFlush
<1>2. CASE FreeIndexes(ram) # {}
  BY <1>2, FlushEntries DEF BeginFlush, WritesTables
<1> QED
  BY <1>1, <1>2

\* Every step is one of these, or the loss of a copy between two runs.
LEMMA DataStep ==
    ASSUME IInv, Next
    PROVE  \/ Quiet \/ Provisions \/ WritesTables \/ WritesHeader \/ WritesFrames
           \/ Recovers \/ WritesCopy \/ LoseCopy
<1>1. CASE SetupManifest \/ WriteProvisioningCopy \/ Serve \/ BeginAppend \/ RotateWal \/ Stabilize
  BY <1>1 DEF SetupManifest, WriteProvisioningCopy, Serve, BeginAppend, RotateWal, Stabilize,
     Quiet, media
<1>2. CASE ProvisionAllDataFiles
  <2>1. pc = "provision" /\ ~faulted /\ acked' = acked
    BY <1>2 DEF ProvisionAllDataFiles, IInv, CallInv
  <2>2. CASE ram.state = "ready"
    BY <1>2, <2>2 DEF ProvisionAllDataFiles, Quiet, media
  <2>3. CASE ram.state # "ready"
    <3>1. ram.gen # 0
      BY <2>1 DEF IInv, RamInv
    <3>2. Valid(ram)
      BY <2>1, <3>1, RamIsCopy
    <3> QED
      BY <1>2, <2>1, <2>3, <3>2 DEF ProvisionAllDataFiles, Provisions, Valid
  <2> QED
    BY <2>2, <2>3
<1>3. CASE InitialiseFirstWal
  BY <1>3 DEF InitialiseFirstWal, Provisions, IInv, CallInv
<1>4. CASE RecoverWal
  BY <1>4 DEF RecoverWal, Recovers, Quiet, media
<1>5. CASE Commit
  BY <1>5, BeginFlushData DEF Commit, Serving, Quiet, media
<1>6. CASE BeginValueWrite
  BY <1>6, BeginCompactionData DEF BeginValueWrite, Serving
<1>7. CASE AppendTransaction
  <2>1. pc \in Serving /\ ~faulted /\ acked' = acked
    BY <1>7 DEF AppendTransaction, Serving, IInv, CallInv
  <2> QED
    BY <1>7, <2>1, BeginFlushData, BeginCompactionData DEF AppendTransaction, Quiet, media
<1>8. CASE BeginWalHeader
  BY <1>8 DEF BeginWalHeader, WritesHeader
<1>9. CASE WalHeaderSynced
  BY <1>9 DEF WalHeaderSynced, WritesHeader
<1>10. CASE AppendFrames
  BY <1>10 DEF AppendFrames, WritesFrames
<1>11. CASE Compact
  <2>1. pc \in Serving /\ ~faulted /\ UNCHANGED <<copy, wal, ops, acked>>
    BY <1>11 DEF Compact, Serving, IInv, CallInv
  <2>2. ram \in ManifestRecord
    BY DEF IInv, TypeOK
  <2>3. \A part : Compacted(part).bank = 1 - ram.bank
    BY <2>2 DEF Compacted, ManifestRecord
  <2>4. PICK e : ents' = [ents EXCEPT ![1 - ram.bank] = e]
    BY <1>11, <2>3 DEF Compact
  <2> QED
    BY <2>1, <2>4, CompactionEntries DEF WritesTables
<1>12. CASE Flush
  <2>1. pc \in Serving /\ ~faulted /\ FreeIndexes(ram) # {} /\ UNCHANGED <<copy, wal, ops, acked>>
    BY <1>12 DEF Flush, Serving, IInv, CallInv
  <2> QED
    BY <1>12, <2>1, FlushEntries DEF Flush, WritesTables
<1>13. CASE PublishSteps
  <2>1. PICK j : Published(j)
    BY <1>13 DEF PublishSteps, ProvisioningCopyPublished, ReadyPublished,
         FlushPublished, CompactionPublished, RotationPublished, StabilizationPublished
  <2> QED
    BY <2>1 DEF Published, WritesCopy
<1>14. CASE PublishFails
  BY <1>14 DEF PublishFails, CopyInterrupted, WritesCopy
<1>15. CASE CallFails \/ Deinit
  BY <1>15 DEF CallFails, Deinit, Quiet, media
<1>16. CASE AppendFails
  BY <1>16 DEF AppendFails, Quiet, media, WritesFrames
<1>17. CASE PowerCut
  BY <1>17 DEF PowerCut, CopyInterrupted, Quiet, media, WritesFrames, WritesCopy
<1> QED
  BY <1>1, <1>2, <1>3, <1>4, <1>5, <1>6, <1>7, <1>8, <1>9, <1>10, <1>11, <1>12, <1>13,
     <1>14, <1>15, <1>16, <1>17
     DEF Next, InitSteps, CommitSteps, FailureSteps

-----------------------------------------------------------------------------
(* What follows from DataInv about single records.                         *)

\* While the engine serves, every valid copy is ready and reaches the WAL
\* slots and the value bank the manifest in RAM reaches.
LEMMA ServingCopies ==
    ASSUME IInv, pc \in Serving, ~faulted, NEW s \in Two, Valid(copy[s])
    PROVE  /\ copy[s].state = "ready"
           /\ copy[s].wslot = ram.wslot /\ copy[s].wgen = ram.wgen
           /\ copy[s].vbank = ram.vbank /\ copy[s].vgen = ram.vgen
<1>1. up /\ ~stab /\ ram.state = "ready" /\ pc # "down" /\ ram.gen # 0
  BY UpFacts DEF IInv, CallInv, Serving
<1>2. ram.gen \in Nat /\ ram.wslot \in Two /\ copy[s] \in ManifestRecord
  BY DEF IInv, TypeOK, ManifestRecord
<1>3. copy[Slot(ram.gen)] = ram /\ Encodable(ram)
  BY <1>1, RamIsCopy
<1>4. CASE s = Slot(ram.gen)
  BY <1>1, <1>3, <1>4
<1>5. CASE s = Other(Slot(ram.gen))
  <2>1. SameReach(copy[s], ram)
    BY <1>1, <1>5 DEF IInv, StableInv
  <2>2. copy[s].wgen[ram.wslot] # 0
    BY <1>1, <1>3, <2>1 DEF SameReach, Encodable
  <2>3. copy[s].state # "provisioning"
    <3>1. SUFFICES ASSUME copy[s].state = "provisioning" PROVE FALSE
      OBVIOUS
    <3>2. copy[s] = [FreshManifest EXCEPT !.gen = copy[s].gen]
      BY <3>1 DEF IInv, MediumInv, CopySound, Encodable
    <3>3. copy[s].wgen = [w \in Two |-> 0]
      BY <3>2 DEF FreshManifest
    <3> QED
      BY <1>2, <2>2, <3>3
  <2> QED
    BY <2>1, <2>3 DEF SameReach, Valid
<1> QED
  BY <1>2, <1>4, <1>5, TwoSlots

\* There is no transaction while the manifest in RAM says "provisioning".
LEMMA ProvisioningEmpty ==
    ASSUME IInv, CopiesHold, pc # "down", ram.state = "provisioning"
    PROVE  ops = <<>>
<1>1. CASE ram.gen = 0
  <2>1. \A s \in Two : ~Valid(copy[s])
    BY <1>1 DEF IInv, RamInv
  <2> QED
    BY <2>1 DEF CopiesHold
<1>2. CASE ram.gen # 0
  <2>1. Valid(ram) /\ copy[Slot(ram.gen)] = ram /\ Slot(ram.gen) \in Two
    BY <1>2, RamIsCopy
  <2> QED
    BY <2>1 DEF CopiesHold
<1> QED
  BY <1>1, <1>2

\* A ready manifest in RAM holds the database.
LEMMA RamHolds ==
    ASSUME IInv, CopiesHold, pc # "down", ram.state = "ready"
    PROVE  Holds(ram)
<1>1. ram.gen # 0
  BY DEF IInv, RamInv, FreshManifest
<1>2. Valid(ram) /\ copy[Slot(ram.gen)] = ram /\ Slot(ram.gen) \in Two
  BY <1>1, RamIsCopy
<1> QED
  BY <1>2 DEF CopiesHold

\* A record that holds the database goes on doing so as long as its tables and
\* the transactions they came from stay, and its WAL slot reaches far enough.
LEMMA HoldsKept ==
    ASSUME NEW c, Holds(c), SameEntries(c), ActiveIndexes(c)' = ActiveIndexes(c),
           \A s \in 1 .. c.ckpt : ops'[s] = ops[s],
           c.ckpt <= acked', acked' <= wal'[c.wslot].last,
           wal'[c.wslot].last <= Len(ops')
    PROVE  Holds(c)'
<1>1. TableEntries(c)' = TableEntries(c)
  BY DEF TableEntries, SameEntries
<1>2. PICK T : T = TableEntries(c)
  OBVIOUS
<1>3. Live(T)' = Live(T)
  <2>1. \A s \in T : ops'[s] = ops[s]
    BY <1>2 DEF Holds
  <2> QED
    BY <2>1, SameVersions
<1>4. Live(1 .. c.ckpt)' = Live(1 .. c.ckpt)
  <2>1. PICK S : S = 1 .. c.ckpt
    OBVIOUS
  <2>2. Live(S)' = Live(S)
    BY <2>1, SameVersions
  <2> QED
    BY <2>1, <2>2
<1>5. Live(TableEntries(c))' = Live(T)'
  BY <1>1, <1>2 DEF Live, Newest
<1> QED
  BY <1>1, <1>2, <1>3, <1>4, <1>5 DEF Holds

\* A reader finds the newest versions of the acknowledged transactions.
LEMMA VisibleCommitted ==
    ASSUME IInv, DataInv, Recovered, ram.state = "ready", pc # "down"
    PROVE  Visible = Live(1 .. acked)
<1>1. Holds(ram)
  BY RamHolds DEF DataInv
<1>2. PICK T, M, c, n : T = TableEntries(ram) /\ M = mem /\ c = ram.ckpt /\ n = acked
  OBVIOUS
<1>3. c \in Nat /\ n \in Nat
  BY <1>2 DEF IInv, TypeOK, ManifestRecord
<1>4. c <= n /\ Shows(T, c)
  BY <1>1, <1>2 DEF Holds, Shows
<1>5. M = Newest((c + 1) .. n)
  BY <1>2 DEF DataInv, MemtableInv
<1>6. Continues(M, c, n)
  BY <1>5, LiveWithin DEF Continues
<1>7. Live(M \cup T) = Live(1 .. n)
  BY <1>3, <1>4, <1>6, LiveMerge
<1> QED
  BY <1>2, <1>7 DEF Visible

\* The frames of a transaction extend what is on the medium by one.
LEMMA FramesData ==
    ASSUME IInv, DataInv, pc = "frames", NEW op \in Staged, Persist(op)
    PROVE  /\ next = acked + 1
           /\ Len(ops') = acked + 1
           /\ ops'[acked + 1] = op
           /\ \A s \in 1 .. acked : ops'[s] = ops[s]
           /\ ram.wslot \in Two
           /\ wal'[ram.wslot].last = acked + 1 /\ wal'[ram.wslot].first = wal[ram.wslot].first
           /\ \A w \in Two : w # ram.wslot => wal'[w] = wal[w]
           /\ op.bank = ram.vbank /\ op.vgen = ram.vgen[ram.vbank]
           /\ op.del => \E s \in Live(1 .. acked) : ops[s].key = op.key
           /\ ents' = ents /\ copy' = copy
<1>1. up /\ ram.state = "ready" /\ pc # "down"
  BY UpFacts DEF IInv, CallInv, Serving
<1>2. next = acked + 1 /\ mem = Newest((ram.ckpt + 1) .. acked)
  BY <1>1 DEF DataInv, MemtableInv, Recovered
<1>3. /\ ops \in Seq(Operation) /\ acked \in Nat /\ ram.wslot \in Two /\ ram.ckpt \in Nat
      /\ wal \in [Two -> WalSlot]
  BY DEF IInv, TypeOK, ManifestRecord
<1>4. acked <= Len(ops) /\ Len(ops) <= acked + 1 /\ Len(ops) \in Nat
  BY <1>3 DEF DataInv, PendingInv
<1>5. /\ ops' = IF next <= Len(ops) THEN [ops EXCEPT ![next] = op] ELSE Append(ops, op)
      /\ wal' = [wal EXCEPT ![ram.wslot].last = next]
      /\ ents' = ents /\ copy' = copy
  BY DEF Persist
<1>6. /\ Len(ops') = acked + 1
      /\ ops'[acked + 1] = op
      /\ \A s \in 1 .. acked : ops'[s] = ops[s]
  <2>1. CASE next <= Len(ops)
    <3>1. ops' = [ops EXCEPT ![acked + 1] = op] /\ Len(ops) = acked + 1
      BY <1>2, <1>3, <1>4, <1>5, <2>1
    <3> QED
      BY <1>3, <1>4, <3>1
  <2>2. CASE ~(next <= Len(ops))
    <3>1. ops' = Append(ops, op) /\ Len(ops) = acked
      BY <1>2, <1>3, <1>4, <1>5, <2>2
    <3> QED
      BY <1>3, <1>4, <3>1
  <2> QED
    BY <2>1, <2>2
<1>7. /\ wal'[ram.wslot].last = acked + 1 /\ wal'[ram.wslot].first = wal[ram.wslot].first
      /\ \A w \in Two : w # ram.wslot => wal'[w] = wal[w]
  BY <1>2, <1>3, <1>5 DEF WalSlot
<1>8. /\ op.bank = ram.vbank /\ op.vgen = ram.vgen[ram.vbank]
      /\ op.del => \E s \in Visible : ops[s].key = op.key
  BY DEF Staged
<1>9. Visible = Live(1 .. acked)
  BY <1>1, VisibleCommitted DEF Recovered
<1> QED
  BY <1>2, <1>3, <1>5, <1>6, <1>7, <1>8, <1>9

-----------------------------------------------------------------------------
(* The copies go on holding the database.                                  *)

\* The types of the data, for the steps below.
LEMMA DataTypes ==
    ASSUME TypeOK
    PROVE  /\ acked \in Nat /\ Len(ops) \in Nat /\ next \in Nat
           /\ ops \in Seq(Operation)
           /\ \A w \in Two : wal[w].last \in Nat /\ wal[w].first \in Nat
           /\ ram.ckpt \in Nat /\ ram.wslot \in Two
           /\ \A s \in Two : copy[s].ckpt \in Nat /\ copy[s].wslot \in Two /\ copy[s].gen \in Nat
<1>1. acked \in Nat /\ next \in Nat /\ ops \in Seq(Operation) /\ wal \in [Two -> WalSlot]
  BY DEF TypeOK
<1>2. Len(ops) \in Nat
  BY <1>1
<1>3. \A w \in Two : wal[w].last \in Nat /\ wal[w].first \in Nat
  BY <1>1 DEF WalSlot
<1>4. ram \in ManifestRecord /\ \A s \in Two : copy[s] \in ManifestRecord
  BY DEF TypeOK
<1>5. /\ ram.ckpt \in Nat /\ ram.wslot \in Two
      /\ \A s \in Two : copy[s].ckpt \in Nat /\ copy[s].wslot \in Two /\ copy[s].gen \in Nat
  BY <1>4 DEF ManifestRecord
<1> QED
  BY <1>1, <1>2, <1>3, <1>5

\* A step that leaves tables and transactions alone and acknowledges no more
\* than the WAL slots hold.
LEMMA SameDataHolds ==
    ASSUME NEW c, Holds(c), UNCHANGED <<ents, ops, acked>>,
           wal'[c.wslot].last = wal[c.wslot].last
    PROVE  Holds(c)'
BY DEF Holds, TableEntries, Live, Newest

\* Writing frames.
LEMMA FramesCopies ==
    ASSUME IInv, DataInv, WritesFrames
    PROVE  CopiesHold' /\ OlderReaches' /\ PendingInv'
<1>1. pc = "frames" /\ pc \in Serving /\ ~faulted /\ acked' \in {acked, next}
  BY DEF WritesFrames, Serving, IInv, CallInv
<1>2. PICK op \in Staged : Persist(op)
  BY DEF WritesFrames
<1>3. /\ next = acked + 1 /\ Len(ops') = acked + 1 /\ ops'[acked + 1] = op
      /\ \A s \in 1 .. acked : ops'[s] = ops[s]
      /\ wal'[ram.wslot].last = acked + 1
      /\ op.del => \E s \in Live(1 .. acked) : ops[s].key = op.key
      /\ ents' = ents /\ copy' = copy
  BY <1>1, <1>2, FramesData
<1>4. /\ acked \in Nat /\ ram.wslot \in Two
      /\ \A s \in Two : copy[s].ckpt \in Nat
  BY DataTypes DEF IInv
<1>5. ASSUME NEW s \in Two, Valid(copy[s])
      PROVE  copy[s].state = "ready" /\ copy[s].wslot = ram.wslot /\ Holds(copy[s])'
  <2>1. copy[s].state = "ready" /\ copy[s].wslot = ram.wslot
    BY <1>1, <1>5, ServingCopies
  <2>2. PICK c : c = copy[s]
    OBVIOUS
  <2>3. Holds(c) /\ c.ckpt \in Nat /\ c.ckpt <= acked
    BY <1>4, <1>5, <2>1, <2>2 DEF DataInv, CopiesHold, Holds
  <2>4. \A t \in 1 .. c.ckpt : ops'[t] = ops[t]
    BY <1>3, <1>4, <2>3
  <2>5. SameEntries(c) /\ ActiveIndexes(c)' = ActiveIndexes(c)
    BY <1>3 DEF SameEntries, ActiveIndexes
  <2>6. c.ckpt <= acked' /\ acked' <= wal'[c.wslot].last /\ wal'[c.wslot].last <= Len(ops')
    BY <1>1, <1>3, <1>4, <2>1, <2>2, <2>3
  <2>7. Holds(c)'
    BY <2>3, <2>4, <2>5, <2>6, HoldsKept
  <2>8. Holds(copy[s])' <=> Holds(c)'
    BY <1>3, <2>2 DEF Holds, TableEntries, ActiveIndexes
  <2> QED
    BY <2>1, <2>7, <2>8
<1>6. CopiesHold'
  <2>1. \E s \in Two : Valid(copy[s])
    <3>1. up /\ ram.gen # 0 /\ pc # "down"
      BY <1>1, UpFacts DEF IInv, CallInv
    <3> QED
      BY <3>1, RamIsCopy
  <2> QED
    BY <1>3, <1>5, <2>1 DEF CopiesHold
<1>7. OlderReaches'
  <2>1. \A s \in Two : copy[s].state = "ready" => copy[s].wslot = ram.wslot
    BY <1>5 DEF Valid
  <2>2. \A s \in Two : Other(s) \in Two
    BY DEF Other, Two
  <2> QED
    BY <1>3, <1>4, <2>1, <2>2 DEF OlderReaches
<1>8. PendingInv'
  <2>1. acked' <= Len(ops') /\ Len(ops') <= acked' + 1
    <3>1. acked' = acked \/ acked' = acked + 1
      BY <1>1, <1>3
    <3> QED
      BY <1>3, <1>4, <3>1
  <2>2. ASSUME Len(ops') = acked' + 1, ops'[acked' + 1].del
        PROVE  \E s \in Live(1 .. acked)' : ops'[s].key = ops'[acked' + 1].key
    <3>1. acked' = acked
      BY <1>1, <1>3, <1>4, <2>2
    <3>2. PICK S : S = 1 .. acked
      OBVIOUS
    <3>3. Live(S)' = Live(S) /\ Live(S) \subseteq S
      BY <1>3, <3>2, SameVersions, LiveWithin
    <3>4. PICK s \in Live(S) : ops[s].key = op.key
      BY <1>3, <2>2, <3>1, <3>2
    <3> QED
      BY <1>3, <3>1, <3>2, <3>3, <3>4 DEF Live, Newest
  <2> QED
    BY <2>1, <2>2 DEF PendingInv
<1> QED
  BY <1>6, <1>7, <1>8

\* Reporting what recovery found.
LEMMA RecoversCopies ==
    ASSUME IInv, DataInv, Recovers
    PROVE  CopiesHold' /\ OlderReaches' /\ PendingInv'
<1>1. /\ pc = "recover" /\ ram.state = "ready" /\ acked' = wal[ram.wslot].last
      /\ UNCHANGED <<copy, wal, ents, ops>> /\ ~faulted /\ pc # "down"
  BY DEF Recovers, IInv, CallInv
<1>2. Holds(ram)
  BY <1>1, RamHolds DEF DataInv
<1>3. /\ acked \in Nat /\ Len(ops) \in Nat /\ acked' \in Nat
      /\ \A s \in Two : copy[s].ckpt \in Nat /\ copy[s].gen \in Nat
      /\ \A s \in Two : wal[copy[s].wslot].last \in Nat
  BY <1>1, DataTypes DEF IInv
<1>4. acked <= acked' /\ acked' <= Len(ops)
  BY <1>1, <1>2 DEF Holds
<1>5. ram.gen # 0 /\ ram.gen \in Nat
  BY <1>1 DEF IInv, RamInv, FreshManifest, TypeOK, ManifestRecord
<1>6. copy[Slot(ram.gen)] = ram /\ Slot(ram.gen) \in Two
  BY <1>1, <1>5, RamIsCopy
<1>7. ASSUME NEW s \in Two, copy[s].state = "ready"
      PROVE  Holds(copy[s])'
  <2>1. acked' <= wal[copy[s].wslot].last
    <3>1. CASE s = Slot(ram.gen)
      BY <1>1, <1>3, <1>6, <3>1
    <3>2. CASE s = Other(Slot(ram.gen))
      <4>1. copy[s].gen + 1 = ram.gen
        BY <1>1, <1>5, <1>7, <3>2 DEF IInv, RamInv, Valid
      <4>2. copy[s].gen < ram.gen
        BY <1>3, <4>1
      <4> QED
        BY <1>1, <1>6, <1>7, <3>2, <4>2 DEF DataInv, OlderReaches
    <3> QED
      BY <1>5, <3>1, <3>2, TwoSlots
  <2>2. PICK c : c = copy[s]
    OBVIOUS
  <2>3. Holds(c)
    BY <1>7, <2>2 DEF DataInv, CopiesHold, Valid
  <2>4. c.ckpt <= acked' /\ wal'[c.wslot].last <= Len(ops')
    BY <1>1, <1>3, <1>4, <2>2, <2>3 DEF Holds
  <2>5. SameEntries(c) /\ ActiveIndexes(c)' = ActiveIndexes(c)
    BY <1>1 DEF SameEntries, ActiveIndexes
  <2>6. Holds(c)'
    BY <1>1, <2>1, <2>2, <2>3, <2>4, <2>5, HoldsKept
  <2>7. Holds(copy[s])' <=> Holds(c)'
    BY <1>1, <2>2 DEF Holds, TableEntries, ActiveIndexes
  <2> QED
    BY <2>6, <2>7
<1>8. CopiesHold'
  BY <1>1, <1>7 DEF DataInv, CopiesHold, Valid
<1>9. OlderReaches'
  BY <1>1 DEF DataInv, OlderReaches
<1>10. PendingInv'
  <2>1. acked' <= Len(ops') /\ Len(ops') <= acked' + 1
    BY <1>1, <1>3, <1>4 DEF DataInv, PendingInv
  <2>2. Len(ops') = acked' + 1 => acked' = acked
    BY <1>1, <1>3, <1>4 DEF DataInv, PendingInv
  <2> QED
    BY <1>1, <2>1, <2>2 DEF DataInv, PendingInv, Live, Newest
<1> QED
  BY <1>8, <1>9, <1>10

\* PendingInv only looks at transactions and acknowledgements.
LEMMA SamePending ==
    ASSUME PendingInv, UNCHANGED <<ops, acked>>
    PROVE  PendingInv'
BY DEF PendingInv, Live, Newest

\* Writing what no ready copy reaches.
LEMMA ElsewhereCopies ==
    ASSUME IInv, DataInv, UNCHANGED <<copy, ops, acked>>,
           \A s \in Two : copy[s].state = "ready" =>
               SameEntries(copy[s]) /\ wal'[copy[s].wslot].last = wal[copy[s].wslot].last
    PROVE  CopiesHold' /\ OlderReaches' /\ PendingInv'
<1>1. ASSUME NEW s \in Two, copy[s].state = "ready"
      PROVE  Holds(copy[s])'
  <2>1. PICK c : c = copy[s]
    OBVIOUS
  <2>2. Holds(c) /\ SameEntries(c) /\ wal'[c.wslot].last = wal[c.wslot].last
    BY <1>1, <2>1 DEF DataInv, CopiesHold, Valid
  <2>3. /\ c.ckpt <= acked' /\ acked' <= wal'[c.wslot].last /\ wal'[c.wslot].last <= Len(ops')
    BY <2>2 DEF Holds
  <2>4. ActiveIndexes(c)' = ActiveIndexes(c)
    BY DEF ActiveIndexes
  <2>5. Holds(c)'
    BY <2>2, <2>3, <2>4, HoldsKept
  <2>6. Holds(copy[s])' <=> Holds(c)'
    BY <2>1 DEF Holds, TableEntries, ActiveIndexes
  <2> QED
    BY <2>5, <2>6
<1>2. CopiesHold'
  BY <1>1 DEF DataInv, CopiesHold, Valid
<1>3. OlderReaches'
  <2>1. \A s \in Two : Other(s) \in Two
    BY DEF Other, Two
  <2> QED
    BY <2>1 DEF DataInv, OlderReaches
<1> QED
  BY <1>2, <1>3, SamePending DEF DataInv

\* Writing a manifest copy.
LEMMA CopyWriteCopies ==
    ASSUME IInv, DataInv, WritesCopy
    PROVE  CopiesHold' /\ OlderReaches' /\ PendingInv'
<1>1. pc = "publish" /\ UNCHANGED <<wal, ents, ops, acked>>
  BY DEF WritesCopy
<1>2. PICK c \in {copy[Slot(out.gen)], TornCopy, out} :
         copy' = [copy EXCEPT ![Slot(out.gen)] = c]
  BY DEF WritesCopy
<1>3. out.gen = ram.gen + 1 /\ ram.gen \in Nat /\ copy \in [Two -> ManifestRecord]
  BY <1>1 DEF IInv, PublishInv, TypeOK, ManifestRecord
<1>4. PICK s : s = Slot(out.gen)
  OBVIOUS
<1>5. s = Other(Slot(ram.gen)) /\ s \in Two /\ Slot(ram.gen) \in Two
  BY <1>3, <1>4, SlotType
<1>6. Other(s) \in Two /\ Other(s) = Slot(ram.gen) /\ Other(s) # s /\ Other(Other(s)) = s
  BY <1>5 DEF Other, Two
<1>7. copy'[s] = c /\ copy'[Other(s)] = copy[Other(s)]
  BY <1>2, <1>3, <1>4, <1>5, <1>6
<1>8. \A t \in Two : t = s \/ t = Other(s)
  BY <1>5 DEF Other, Two
<1>9. ~Valid(TornCopy) /\ TornCopy.state # "ready"
  BY DEF TornCopy, FreshManifest, Valid
<1>10. PICK o : o = copy[Other(s)]
  OBVIOUS
<1>11. \A d : Holds(d)' <=> Holds(d)
  BY <1>1 DEF Holds, TableEntries, ActiveIndexes, Live, Newest
<1>12. ram.gen # 0 => o = ram /\ Valid(o)
  BY <1>1, <1>3, <1>6, <1>10 DEF IInv, RamInv
<1>13. ram.gen = 0 => ops = <<>> /\ ~Valid(o) /\ out.state # "ready"
  <2>1. SUFFICES ASSUME ram.gen = 0 PROVE ops = <<>> /\ ~Valid(o) /\ out.state # "ready"
    OBVIOUS
  <2>2. ~Valid(o) /\ ram = FreshManifest
    BY <1>1, <1>6, <1>10, <2>1 DEF IInv, RamInv
  <2>3. ram.state = "provisioning"
    BY <2>2 DEF FreshManifest
  <2>4. ops = <<>>
    BY <1>1, <2>3, ProvisioningEmpty DEF DataInv
  <2>5. out.gen = 1
    BY <1>3, <2>1
  <2>6. out.state # "ready"
    BY <1>1, <2>5 DEF IInv, PublishInv, Encodable
  <2> QED
    BY <2>2, <2>4, <2>6
<1>14. (Valid(c) => IF c.state = "ready" THEN Holds(c) ELSE ops = <<>>)
  <2>1. CASE c = copy[s]
    BY <1>5, <2>1 DEF DataInv, CopiesHold
  <2>2. CASE c = TornCopy
    BY <1>9, <2>2
  <2>3. CASE c = out
    <3>1. CASE out.state = "ready"
      BY <1>1, <2>3, <3>1 DEF DataInv, OutHolds
    <3>2. CASE out.state # "ready"
      <4>1. ram.state = "provisioning"
        <5>1. job = "create"
          BY <1>1, <3>2 DEF IInv, TypeOK, PublishJob, PublishInv, JobInv
        <5> QED
          BY <1>1, <5>1 DEF IInv, PublishInv, JobInv
      <4>2. ops = <<>>
        BY <1>1, <4>1, ProvisioningEmpty DEF DataInv
      <4> QED
        BY <2>3, <3>2, <4>2
    <3> QED
      BY <3>1, <3>2
  <2> QED
    BY <1>2, <1>4, <2>1, <2>2, <2>3
<1>15. CopiesHold'
  <2>1. Valid(o) => IF o.state = "ready" THEN Holds(o) ELSE ops = <<>>
    BY <1>6, <1>10 DEF DataInv, CopiesHold
  <2>2. ASSUME NEW t \in Two, Valid(copy'[t])
        PROVE  IF copy'[t].state = "ready" THEN Holds(copy[t])' ELSE ops' = <<>>
    <3>1. PICK d : d = copy'[t]
      OBVIOUS
    <3>2. d = c \/ d = o
      BY <1>7, <1>8, <1>10, <3>1
    <3>3. IF d.state = "ready" THEN Holds(d) ELSE ops = <<>>
      BY <1>14, <2>1, <2>2, <3>1, <3>2
    <3>4. Holds(copy[t])' <=> Holds(d)'
      BY <3>1 DEF Holds, TableEntries, ActiveIndexes
    <3> QED
      BY <1>1, <1>11, <3>1, <3>3, <3>4
  <2>3. (\A t \in Two : ~Valid(copy'[t])) => ops' = <<>>
    BY <1>1, <1>6, <1>7, <1>10, <1>12, <1>13
  <2> QED
    BY <2>2, <2>3 DEF CopiesHold
<1>16. OlderReaches'
  <2>1. SUFFICES ASSUME NEW t \in Two, copy'[t].state = "ready", copy'[Other(t)].state = "ready",
                        copy'[Other(t)].gen < copy'[t].gen
                 PROVE  wal[copy'[t].wslot].last <= wal[copy'[Other(t)].wslot].last
    BY <1>1 DEF OlderReaches
  <2>2. c.state = "ready" /\ o.state = "ready"
    BY <1>6, <1>7, <1>8, <1>10, <2>1
  <2>3. CASE c = copy[s]
    <3>1. copy' = copy
      BY <1>2, <1>3, <1>4, <2>3
    <3> QED
      BY <2>1, <3>1 DEF DataInv, OlderReaches
  <2>4. CASE c = out
    <3>1. ram.gen # 0 /\ o = ram
      BY <1>12, <1>13, <2>2, <2>4
    <3>2. t = s
      <4>1. SUFFICES ASSUME t = Other(s) PROVE FALSE
        BY <1>8
      <4>2. out.gen < ram.gen
        BY <1>6, <1>7, <1>10, <2>1, <2>4, <3>1, <4>1
      <4> QED
        BY <1>3, <4>2
    <3>3. wal[out.wslot].last <= wal[ram.wslot].last
      BY <1>1, <2>2, <2>4, <3>1 DEF DataInv, OutHolds
    <3> QED
      BY <1>7, <1>10, <2>4, <3>1, <3>2, <3>3
  <2> QED
    BY <1>2, <1>4, <1>9, <2>2, <2>3, <2>4
<1> QED
  BY <1>1, <1>15, <1>16, SamePending DEF DataInv

\* The loss of one of two copies.
LEMMA LossCopies ==
    ASSUME IInv, DataInv, LoseCopy
    PROVE  CopiesHold' /\ OlderReaches' /\ PendingInv'
<1>1. PICK s \in Two : copy' = [copy EXCEPT ![s] = TornCopy]
  BY DEF LoseCopy
<1>2. UNCHANGED <<wal, ents, ops, acked>>
  BY DEF LoseCopy
<1>3. \A t \in Two : Valid(copy[t])
  BY DEF LoseCopy, ValidSlots
<1>4. Other(s) \in Two /\ copy'[s] = TornCopy /\ copy'[Other(s)] = copy[Other(s)]
  BY <1>1 DEF Other, Two, IInv, TypeOK
<1>5. \A t \in Two : t = s \/ t = Other(s)
  BY DEF Other, Two
<1>6. ~Valid(TornCopy) /\ TornCopy.state # "ready"
  BY DEF TornCopy, FreshManifest, Valid
<1>7. ASSUME NEW t \in Two, Valid(copy'[t])
      PROVE  IF copy'[t].state = "ready" THEN Holds(copy[t])' ELSE ops' = <<>>
  <2>1. copy'[t] = copy[t]
    BY <1>4, <1>5, <1>6, <1>7
  <2>2. Holds(copy[t])' <=> Holds(copy[t])
    BY <1>2, <2>1 DEF Holds, TableEntries, ActiveIndexes, Live, Newest
  <2> QED
    BY <1>2, <1>7, <2>1, <2>2 DEF DataInv, CopiesHold
<1>8. CopiesHold'
  BY <1>3, <1>4, <1>7 DEF CopiesHold
<1>9. OlderReaches'
  <2>1. \A t \in Two : Other(t) \in Two /\ (t = s \/ Other(t) = s)
    BY DEF Other, Two
  <2> QED
    BY <1>4, <1>6, <2>1 DEF OlderReaches
<1> QED
  BY <1>2, <1>8, <1>9, SamePending DEF DataInv

\* Every step leaves copies that hold the database.
LEMMA CopiesStep ==
    ASSUME IInv, DataInv, Next
    PROVE  CopiesHold' /\ OlderReaches' /\ PendingInv'
<1>1. CASE Quiet
  <2>1. \A s \in Two : SameEntries(copy[s])
    BY <1>1 DEF Quiet, SameEntries
  <2> QED
    BY <1>1, <2>1, ElsewhereCopies DEF Quiet
<1>2. CASE Provisions
  <2>1. \A s \in Two : copy[s].state # "ready"
    <3>1. SUFFICES ASSUME NEW s \in Two, copy[s].state = "ready" PROVE FALSE
      OBVIOUS
    <3>2. copy[s] = [FreshManifest EXCEPT !.gen = copy[s].gen]
      BY <1>2, <3>1, ProvisioningReachesNothing DEF Provisions, Valid
    <3>3. copy[s].state = "provisioning"
      BY <3>2 DEF FreshManifest
    <3> QED
      BY <3>1, <3>3
  <2> QED
    BY <1>2, <2>1, ElsewhereCopies DEF Provisions
<1>3. CASE WritesTables
  BY <1>3, ElsewhereCopies DEF WritesTables, Valid
<1>4. CASE WritesHeader
  <2>1. pc \in Serving /\ ~faulted
    BY <1>4 DEF WritesHeader, Serving, IInv, CallInv
  <2>2. PICK h : wal' = [wal EXCEPT ![1 - ram.wslot] = h]
    BY <1>4 DEF WritesHeader
  <2>3. \A s \in Two : copy[s].state = "ready" => copy[s].wslot = ram.wslot
    BY <2>1, ServingCopies DEF Valid
  <2>4. ram.wslot \in Two /\ wal \in [Two -> WalSlot]
    BY DEF IInv, TypeOK, ManifestRecord
  <2>5. wal'[ram.wslot] = wal[ram.wslot]
    BY <2>2, <2>4 DEF Two
  <2>6. \A s \in Two : SameEntries(copy[s])
    BY <1>4 DEF WritesHeader, SameEntries
  <2> QED
    BY <1>4, <2>3, <2>5, <2>6, ElsewhereCopies DEF WritesHeader
<1> QED
  BY <1>1, <1>2, <1>3, <1>4, DataStep, FramesCopies, RecoversCopies, CopyWriteCopies, LossCopies

-----------------------------------------------------------------------------
(* The copy being written holds the database.                              *)

\* Beginning a copy of a record that holds the database.
LEMMA BeginCopyOut ==
    ASSUME NEW m \in ManifestRecord, NEW j, NEW b, BeginCopy(m, j, b),
           pc # "publish", ram.gen \in Nat,
           m.state = "ready" =>
               /\ Holds(m)'
               /\ j \in {"flush", "compact"} => m.ckpt = acked'
               /\ j \in {"rotate", "stabilize"} => m.ckpt = ram.ckpt
               /\ ram.state = "ready" => wal'[m.wslot].last <= wal'[ram.wslot].last
    PROVE  OutHolds'
<1>1. CASE ReturnError
  BY <1>1 DEF ReturnError, ReturnTo, GoDown, OutHolds
<1>2. CASE ~ReturnError
  <2>1. /\ out' = [m EXCEPT !.gen = ram.gen + 1] /\ job' = j /\ ram' = ram
    BY <1>2 DEF BeginCopy, local
  <2>2. PICK o : o = [m EXCEPT !.gen = ram.gen + 1]
    OBVIOUS
  <2>3. /\ o.state = m.state /\ o.bank = m.bank /\ o.tabs = m.tabs /\ o.wslot = m.wslot
        /\ o.ckpt = m.ckpt /\ o.ntg = m.ntg
    BY <2>2 DEF ManifestRecord
  <2>4. Holds(m)' => Holds(o)'
    BY <2>3 DEF Holds, TableEntries, ActiveIndexes
  <2>5. Holds(out)' <=> Holds(o)'
    BY <2>1, <2>2 DEF Holds, TableEntries, ActiveIndexes
  <2> QED
    BY <2>1, <2>2, <2>3, <2>4, <2>5 DEF OutHolds
<1> QED
  BY <1>1, <1>2

\* Provisioning begins no ready copy.
LEMMA WriteProvisioningCopyOut ==
    ASSUME IInv, WriteProvisioningCopy
    PROVE  OutHolds'
<1>1. pc = "create" /\ BeginCopy(ram, "create", "provision") /\ ram.state = "provisioning"
  BY DEF WriteProvisioningCopy, IInv, CallInv
<1>2. PICK m : m = ram
  OBVIOUS
<1>3. m \in ManifestRecord /\ ram.gen \in Nat /\ m.state # "ready" /\ BeginCopy(m, "create", "provision")
  BY <1>1, <1>2 DEF IInv, TypeOK, ManifestRecord
<1> QED
  BY <1>1, <1>3, BeginCopyOut

\* The first ready copy has no transaction to hold.
LEMMA InitialiseFirstWalOut ==
    ASSUME IInv, DataInv, InitialiseFirstWal
    PROVE  OutHolds'
<1>1. /\ pc = "firstwal" /\ ram.state = "provisioning"
      /\ wal' = [wal EXCEPT ![0] = [gen |-> 1, first |-> 1, last |-> 0]]
      /\ UNCHANGED <<copy, tab, ents, vb, ops, acked>>
  BY DEF InitialiseFirstWal, IInv, CallInv
<1>2. PICK m : m = [ram EXCEPT !.state = "ready", !.wslot = 0,
                               !.wgen = [w \in Two |-> 1 - w], !.ckpt = 0]
  OBVIOUS
<1>3. BeginCopy(m, "ready", "recover")
  BY <1>2 DEF InitialiseFirstWal
<1>4. /\ ram \in ManifestRecord /\ ram.gen \in Nat /\ wal \in [Two -> WalSlot] /\ acked \in Nat
      /\ ops \in Seq(Operation)
  BY DEF IInv, TypeOK, ManifestRecord
<1>5. ram.gen # 0
  BY <1>1 DEF IInv, RamInv
<1>6. Encodable(ram)
  BY <1>1, <1>5, RamIsCopy
<1>7. ram = [FreshManifest EXCEPT !.gen = ram.gen]
  BY <1>1, <1>6 DEF Encodable
<1>8. ram.tabs = [b \in Two |-> NoTables] /\ ram.bank = 0 /\ ram.ntg = 1
  BY <1>7 DEF FreshManifest
<1>9. m \in ManifestRecord
  <2>1. [w \in Two |-> 1 - w] \in [Two -> Nat] /\ 0 \in Two
    BY DEF Two
  <2> QED
    BY <1>2, <1>4, <2>1 DEF ManifestRecord
<1>10. m.tabs = [b \in Two |-> NoTables] /\ m.bank = 0 /\ m.ckpt = 0 /\ m.wslot = 0 /\ m.ntg = 1
  BY <1>2, <1>4, <1>8 DEF ManifestRecord
<1>11. ActiveIndexes(m) = {}
  BY <1>10 DEF ActiveIndexes, NoTables, Inactive, Two
<1>12. TableEntries(m)' = {}
  BY <1>11 DEF TableEntries, ActiveIndexes
<1>13. Live({})' = {} /\ 1 .. 0 = {}
  BY DEF Live, Newest
<1>14. ops = <<>> /\ Len(ops) = 0
  BY <1>1, ProvisioningEmpty DEF DataInv
<1>15. acked = 0
  BY <1>4, <1>14 DEF DataInv, PendingInv
<1>16. wal'[m.wslot].last = 0
  BY <1>1, <1>4, <1>10 DEF Two
<1>17. Holds(m)'
  <2>1. Live(TableEntries(m))' = Live({})'
    BY <1>12 DEF Live, Newest
  <2>2. Live(1 .. m.ckpt)' = Live({})'
    BY <1>10, <1>13 DEF Live, Newest
  <2> QED
    BY <1>1, <1>10, <1>12, <1>14, <1>15, <1>16, <2>1, <2>2 DEF Holds
<1> QED
  BY <1>1, <1>3, <1>4, <1>9, <1>17, BeginCopyOut

\* A stabilizing copy holds what the manifest in RAM does.
LEMMA StabilizeOut ==
    ASSUME IInv, DataInv, Stabilize
    PROVE  OutHolds'
<1>1. /\ pc = "stabilize" /\ ram.state = "ready" /\ UNCHANGED <<media, acked>>
      /\ back # "publish"
  BY DEF Stabilize, IInv, CallInv
<1>2. CASE ~stab
  BY <1>1, <1>2 DEF Stabilize, ReturnTo, OutHolds
<1>3. CASE stab
  <2>1. PICK m : m = ram
    OBVIOUS
  <2>2. BeginCopy(m, "stabilize", back)
    BY <1>3, <2>1 DEF Stabilize
  <2>3. m \in ManifestRecord /\ ram.gen \in Nat /\ ram.wslot \in Two /\ wal[ram.wslot].last \in Nat
    BY <2>1, DataTypes DEF IInv, TypeOK, ManifestRecord
  <2>4. Holds(m)
    BY <1>1, <2>1, RamHolds DEF DataInv
  <2>5. Holds(m)'
    BY <1>1, <2>4, SameDataHolds DEF media
  <2>6. wal'[m.wslot].last <= wal'[ram.wslot].last
    BY <1>1, <2>1, <2>3 DEF media
  <2> QED
    BY <1>1, <2>1, <2>2, <2>3, <2>5, <2>6, BeginCopyOut
<1> QED
  BY <1>2, <1>3

\* A flush publishes the tables it had and the memtable.
LEMMA FlushOut ==
    ASSUME IInv, DataInv, Flush
    PROVE  OutHolds'
<1> DEFINE free == Min(FreeIndexes(ram))
<1>1. /\ pc = "flush" /\ up /\ mem # {} /\ FreeIndexes(ram) # {}
      /\ ents' = [ents EXCEPT ![ram.bank][free] = mem]
      /\ UNCHANGED <<copy, wal, vb, ops, acked>>
  BY DEF Flush, IInv, CallInv, Serving
<1>2. /\ ram.state = "ready" /\ pc # "down" /\ ram \in ManifestRecord
      /\ ram.gen \in Nat /\ ram.bank \in Two /\ ram.ntg \in Nat /\ ram.ckpt \in Nat
      /\ acked \in Nat /\ ents \in [Two -> [Index -> SUBSET Nat]]
      /\ ram.tabs \in [Two -> [Index -> TableReference]]
  BY <1>1, UpFacts DEF IInv, TypeOK, ManifestRecord
<1>3. Holds(ram)
  BY <1>1, <1>2, RamHolds DEF DataInv
<1>4. Flushed \in ManifestRecord /\ free \in FreeIndexes(ram) /\ Max(mem) \in mem
  BY <1>1, <1>2, FlushedType DEF IInv, BoundInv
<1>5. PICK m, x, M, c, n :
        m = Flushed /\ x = free /\ M = mem /\ c = ram.ckpt /\ n = acked
  OBVIOUS
<1>6. /\ m.state = "ready" /\ m.bank = ram.bank /\ m.wslot = ram.wslot
      /\ m.ckpt = Max(mem) /\ m.ntg = ram.ntg + 1
      /\ m.tabs = [ram.tabs EXCEPT ![ram.bank][x] = [gen |-> ram.ntg, max |-> Max(mem)]]
  BY <1>2, <1>5 DEF Flushed, ManifestRecord
<1>7. x \in Index /\ ram.tabs[ram.bank][x].gen = 0
  BY <1>4, <1>5 DEF FreeIndexes
<1>8. M = Newest((c + 1) .. n) /\ Recovered
  BY <1>1, <1>5 DEF DataInv, MemtableInv, Recovered
<1>9. c \in Nat /\ n \in Nat /\ c <= n
  BY <1>2, <1>3, <1>5 DEF Holds
<1>10. n \in M /\ Max(mem) = n
  <2>1. \A y \in M : y \in (c + 1) .. n
    BY <1>8, LiveWithin
  <2>2. PICK v \in M : TRUE
    BY <1>1, <1>5
  <2>3. n \in (c + 1) .. n
    BY <1>9, <2>1, <2>2
  <2>4. c + 1 \in Nat
    BY <1>9
  <2>5. PICK u \in Newest((c + 1) .. n) : n <= u
    BY <1>9, <2>3, <2>4, NewestExists
  <2>6. u = n
    BY <1>8, <1>9, <2>1, <2>5
  <2>7. M \in SUBSET Nat /\ \A y \in M : y <= n
    BY <1>9, <2>1
  <2>8. Max(M) \in M /\ \A y \in M : y <= Max(M)
    BY <1>1, <1>5, <1>9, <2>7, MaxOfBounded
  <2>9. n \in M
    BY <1>8, <2>5, <2>6
  <2>10. PICK g : g = Max(M)
    OBVIOUS
  <2>11. g \in (c + 1) .. n /\ n <= g
    BY <2>1, <2>8, <2>9, <2>10
  <2>12. g = n
    BY <1>9, <2>11
  <2> QED
    BY <1>5, <2>9, <2>10, <2>12
<1>11. TableEntries(m)' = M \cup TableEntries(ram)
  <2>1. ActiveIndexes(m) = ActiveIndexes(ram) \cup {x} /\ x \notin ActiveIndexes(ram)
    <3>1. ram.ntg # 0
      BY <1>2, <1>3 DEF Holds
    <3>2. m.tabs[m.bank][x].gen = ram.ntg
      BY <1>2, <1>6, <1>7
    <3>3. \A i \in Index : i # x => m.tabs[m.bank][i] = ram.tabs[ram.bank][i]
      BY <1>2, <1>6, <1>7
    <3> QED
      BY <1>7, <3>1, <3>2, <3>3 DEF ActiveIndexes
  <2>2. ents'[m.bank][x] = M
    BY <1>1, <1>2, <1>5, <1>6, <1>7
  <2>3. \A i \in ActiveIndexes(ram) : ents'[m.bank][i] = ents[ram.bank][i]
    BY <1>1, <1>2, <1>5, <1>6, <1>7, <2>1 DEF ActiveIndexes
  <2>4. TableEntries(m)' = UNION {ents'[m.bank][i] : i \in ActiveIndexes(m)}
    BY DEF TableEntries, ActiveIndexes
  <2> QED
    BY <2>1, <2>2, <2>3, <2>4 DEF TableEntries
<1>12. PICK T : T = TableEntries(ram)
  OBVIOUS
<1>13. Shows(T, c) /\ Continues(M, c, n)
  BY <1>3, <1>5, <1>8, <1>12, LiveWithin DEF Holds, Shows, Continues
<1>14. Live(M \cup T) = Live(1 .. n)
  BY <1>9, <1>13, LiveMerge
<1>15. M \cup T \subseteq 1 .. n
  <2>1. \A s \in T : s \in 1 .. c
    BY <1>13 DEF Shows
  <2>2. \A s \in M : s \in (c + 1) .. n
    BY <1>13 DEF Continues
  <2> QED
    BY <1>9, <2>1, <2>2
<1>16. Holds(m)'
  <2>1. Live(TableEntries(m))' = Live(M \cup T) /\ Live(1 .. m.ckpt)' = Live(1 .. n)
    BY <1>1, <1>6, <1>10, <1>11, <1>12 DEF Live, Newest
  <2>2. m.ckpt = n /\ m.ckpt <= acked' /\ acked' <= wal'[m.wslot].last /\ wal'[m.wslot].last <= Len(ops')
    BY <1>1, <1>3, <1>5, <1>6, <1>9, <1>10 DEF Holds
  <2>3. m.ntg > 0
    BY <1>2, <1>6
  <2>4. m.ckpt \in TableEntries(m)'
    BY <1>5, <1>6, <1>10, <1>11
  <2> QED
    BY <1>11, <1>12, <1>14, <1>15, <2>1, <2>2, <2>3, <2>4 DEF Holds
<1>17. wal'[m.wslot].last <= wal'[ram.wslot].last
  BY <1>1, <1>6, DataTypes DEF IInv
<1>18. BeginCopy(m, "flush", back) /\ m \in ManifestRecord
  BY <1>4, <1>5 DEF Flush
<1> QED
  BY <1>1, <1>2, <1>5, <1>6, <1>10, <1>16, <1>17, <1>18, BeginCopyOut

\* A rotation publishes the same tables and an empty log behind the full one.
LEMMA WalHeaderSyncedOut ==
    ASSUME IInv, DataInv, WalHeaderSynced
    PROVE  OutHolds'
<1> DEFINE target == 1 - ram.wslot
           gen == ram.wgen[ram.wslot] + 1
<1>1. /\ pc = "synced" /\ up
      /\ wal' = [wal EXCEPT ![target] = [gen |-> gen, first |-> next, last |-> next - 1]]
      /\ UNCHANGED <<copy, tab, ents, vb, ops, acked>>
  BY DEF WalHeaderSynced, IInv, CallInv, Serving
<1>2. /\ ram.state = "ready" /\ pc # "down" /\ ram \in ManifestRecord
      /\ ram.gen \in Nat /\ ram.wslot \in Two /\ acked \in Nat /\ wal \in [Two -> WalSlot]
      /\ ram.wgen \in [Two -> Nat]
  BY <1>1, UpFacts DEF IInv, TypeOK, ManifestRecord
<1>3. target \in Two /\ target # ram.wslot /\ gen \in Nat
  BY <1>2 DEF Two
<1>4. Holds(ram)
  BY <1>1, <1>2, RamHolds DEF DataInv
<1>5. PICK m : m = [ram EXCEPT !.wslot = target, !.wgen[target] = gen]
  OBVIOUS
<1>6. /\ m.state = "ready" /\ m.bank = ram.bank /\ m.tabs = ram.tabs /\ m.wslot = target
      /\ m.ckpt = ram.ckpt /\ m.ntg = ram.ntg
  BY <1>2, <1>5 DEF ManifestRecord
<1>7. m \in ManifestRecord
  <2>1. [ram.wgen EXCEPT ![target] = gen] \in [Two -> Nat]
    BY <1>2, <1>3
  <2> QED
    BY <1>2, <1>3, <1>5, <2>1 DEF ManifestRecord
<1>8. next = acked + 1
  BY <1>1 DEF DataInv, MemtableInv, Recovered
<1>9. wal'[m.wslot].last = acked /\ wal'[ram.wslot] = wal[ram.wslot]
  BY <1>1, <1>2, <1>3, <1>6, <1>8
<1>10. wal[ram.wslot].last \in Nat /\ Len(ops) \in Nat
  BY DataTypes DEF IInv
<1>11. Holds(m)'
  <2>1. TableEntries(m)' = TableEntries(ram)
    BY <1>1, <1>6 DEF TableEntries, ActiveIndexes
  <2>2. Live(TableEntries(m))' = Live(TableEntries(ram)) /\ Live(1 .. m.ckpt)' = Live(1 .. ram.ckpt)
    BY <1>1, <1>6, <2>1 DEF Live, Newest
  <2>3. m.ckpt <= acked' /\ acked' <= wal'[m.wslot].last /\ wal'[m.wslot].last <= Len(ops')
    BY <1>1, <1>2, <1>4, <1>6, <1>9, <1>10 DEF Holds
  <2> QED
    BY <1>4, <1>6, <2>1, <2>2, <2>3 DEF Holds
<1>12. wal'[m.wslot].last <= wal'[ram.wslot].last
  BY <1>4, <1>9 DEF Holds
<1>13. BeginCopy(m, "rotate", "frames")
  BY <1>5 DEF WalHeaderSynced
<1> QED
  BY <1>1, <1>2, <1>6, <1>7, <1>11, <1>12, <1>13, BeginCopyOut

\* A compaction publishes the live versions of everything.
LEMMA CompactOut ==
    ASSUME IInv, DataInv, Compact
    PROVE  OutHolds'
<1>1. /\ pc = "compact" /\ up /\ UNCHANGED <<copy, wal, vb, ops, acked>>
  BY DEF Compact, IInv, CallInv, Serving
<1>2. /\ ram.state = "ready" /\ pc # "down" /\ ram \in ManifestRecord
      /\ ram.gen \in Nat /\ ram.bank \in Two /\ ram.ntg \in Nat
      /\ next \in Nat \ {0} /\ acked \in Nat /\ ents \in [Two -> [Index -> SUBSET Nat]]
  BY <1>1, UpFacts DEF IInv, TypeOK, ManifestRecord
<1>3. 1 - ram.bank \in Two
  BY <1>2 DEF Two
<1>4. Holds(ram) /\ next = acked + 1
  BY <1>1, <1>2, RamHolds DEF DataInv, MemtableInv, Recovered
<1>5. Visible = Live(1 .. acked)
  BY <1>1, <1>2, VisibleCommitted DEF Recovered
<1> DEFINE sources == mem \cup TableEntries(ram)
<1>6. PICK f \in Splits(Live(sources)) :
        LET part == [i \in Index |-> {s \in Live(sources) : f[s] = i}]
            m    == Compacted(part)
        IN  /\ ents' = [ents EXCEPT ![m.bank] = part]
            /\ IF Max(Newest(sources) \cup {0}) = next - 1
               THEN BeginCopy(m, "compact", back)
               ELSE ReturnError
  BY DEF Compact
<1>7. PICK part : part = [i \in Index |-> {s \in Live(sources) : f[s] = i}]
  OBVIOUS
<1>8. PICK m : m = Compacted(part)
  OBVIOUS
<1>9. /\ ents' = [ents EXCEPT ![m.bank] = part]
      /\ BeginCopy(m, "compact", back) \/ ReturnError
  BY <1>6, <1>7, <1>8
<1>10. part \in [Index -> SUBSET (1 .. MaxSeq)]
  <2>1. sources \subseteq 1 .. MaxSeq
    BY SourcesBounded DEF IInv
  <2>2. Live(sources) \subseteq sources
    BY LiveWithin
  <2> QED
    BY <1>7, <2>1, <2>2
<1>11. m \in ManifestRecord
  BY <1>2, <1>3, <1>8, <1>10, CompactedType
<1>12. /\ m.state = "ready" /\ m.bank = 1 - ram.bank /\ m.wslot = ram.wslot /\ m.ckpt = next - 1
       /\ m.ntg = ram.ntg + Cardinality({i \in Index : part[i] # {}})
       /\ \A i \in Index : m.tabs[m.bank][i] =
             IF part[i] = {} THEN Inactive
             ELSE [gen |-> ram.ntg + i - 1, max |-> Max(part[i])]
  <2>1. /\ m.state = "ready" /\ m.bank = 1 - ram.bank /\ m.wslot = ram.wslot /\ m.ckpt = next - 1
        /\ m.ntg = ram.ntg + Cardinality({i \in Index : part[i] # {}})
    BY <1>2, <1>8 DEF Compacted, ManifestRecord
  <2>2. m.tabs = [b \in Two |-> IF b = ram.bank THEN NoTables
                                ELSE [i \in Index |->
                                        IF part[i] = {} THEN Inactive
                                        ELSE [gen |-> ram.ntg + i - 1, max |-> Max(part[i])]]]
    BY <1>2, <1>8 DEF Compacted, ManifestRecord
  <2>3. 1 - ram.bank # ram.bank
    BY <1>2 DEF Two
  <2> QED
    BY <1>3, <2>1, <2>2, <2>3
<1>13. m.ntg > 0
  <2>1. IsFiniteSet(Index)
    BY FS_Interval DEF Index
  <2>2. Cardinality({i \in Index : part[i] # {}}) \in Nat
    BY <2>1, FS_Subset, FS_CardinalityType
  <2> QED
    BY <1>2, <1>4, <1>12, <2>2 DEF Holds
<1>14. TableEntries(m)' = Live(sources)
  <2>1. ActiveIndexes(m) = {i \in Index : part[i] # {}}
    <3>1. \A i \in Index : ram.ntg + i - 1 # 0
      BY <1>2, <1>4 DEF Index, Holds
    <3>2. \A i \in Index : m.tabs[m.bank][i].gen # 0 <=> part[i] # {}
      <4>1. TAKE i \in Index
      <4>2. CASE part[i] = {}
        <5>1. m.tabs[m.bank][i] = Inactive
          BY <1>12, <4>2
        <5>2. Inactive.gen = 0
          BY DEF Inactive
        <5> QED
          BY <4>2, <5>1, <5>2
      <4>3. CASE part[i] # {}
        <5>1. m.tabs[m.bank][i] = [gen |-> ram.ntg + i - 1, max |-> Max(part[i])]
          BY <1>12, <4>3
        <5>2. m.tabs[m.bank][i].gen = ram.ntg + i - 1
          BY <5>1
        <5> QED
          BY <3>1, <4>3, <5>2
      <4> QED
        BY <4>2, <4>3
    <3> QED
      BY <3>2 DEF ActiveIndexes
  <2>2. ents'[m.bank] = part
    BY <1>2, <1>3, <1>9, <1>12
  <2>3. TableEntries(m)' = UNION {part[i] : i \in ActiveIndexes(m)}
    BY <2>2 DEF TableEntries, ActiveIndexes
  <2>4. \A s \in Live(sources) : f[s] \in Index
    BY DEF Splits, Index
  <2>5. \A s \in Live(sources) : s \in part[f[s]]
    BY <1>7, <2>4
  <2>6. \A i \in Index : part[i] \subseteq Live(sources)
    BY <1>7
  <2>7. \A s \in Live(sources) : f[s] \in ActiveIndexes(m)
    BY <2>1, <2>4, <2>5
  <2>8. \A i \in ActiveIndexes(m) : i \in Index
    BY <2>1
  <2> HIDE DEF sources
  <2> QED
    BY <2>3, <2>5, <2>6, <2>7, <2>8
<1>15. PICK L, n : L = Live(sources) /\ n = acked
  OBVIOUS
<1>16. L = Live(1 .. n) /\ L \subseteq 1 .. n /\ Live(L) = L
  BY <1>5, <1>15, LiveWithin, LiveOfLive DEF Visible
<1>17. m.ckpt = n
  BY <1>2, <1>4, <1>12, <1>15
<1>18. ASSUME BeginCopy(m, "compact", back), ~ReturnError
       PROVE  Holds(m)'
  <2>1. Live(TableEntries(m))' = Live(L) /\ Live(1 .. m.ckpt)' = Live(1 .. n)
    BY <1>1, <1>14, <1>15, <1>17 DEF Live, Newest
  <2>2. m.ckpt <= acked' /\ acked' <= wal'[m.wslot].last /\ wal'[m.wslot].last <= Len(ops')
    BY <1>1, <1>2, <1>4, <1>12, <1>15, <1>17 DEF Holds
  <2>3. Encodable([m EXCEPT !.gen = ram.gen + 1])
    BY <1>18 DEF BeginCopy
  <2>4. ActiveIndexes(m) # {} => \E i \in ActiveIndexes(m) : m.tabs[m.bank][i].max = m.ckpt
    <3>1. PICK o : o = [m EXCEPT !.gen = ram.gen + 1]
      OBVIOUS
    <3>2. o.bank = m.bank /\ o.tabs = m.tabs /\ o.ckpt = m.ckpt
      BY <1>11, <3>1 DEF ManifestRecord
    <3>3. ReferencesEncodable(o)
      BY <2>3, <3>1 DEF Encodable
    <3> QED
      BY <3>2, <3>3 DEF ReferencesEncodable, ActiveIndexes
  <2>5. \A i \in ActiveIndexes(m) : i \in Index /\ part[i] # {} /\ m.tabs[m.bank][i].max = Max(part[i])
    <3>1. TAKE i \in ActiveIndexes(m)
    <3>2. i \in Index /\ m.tabs[m.bank][i].gen # 0
      BY DEF ActiveIndexes
    <3>3. part[i] # {}
      <4>1. SUFFICES ASSUME part[i] = {} PROVE FALSE
        OBVIOUS
      <4>2. m.tabs[m.bank][i] = Inactive
        BY <1>12, <3>2, <4>1
      <4>3. Inactive.gen = 0
        BY DEF Inactive
      <4> QED
        BY <3>2, <4>2, <4>3
    <3>4. m.tabs[m.bank][i] = [gen |-> ram.ntg + i - 1, max |-> Max(part[i])]
      BY <1>12, <3>2, <3>3
    <3> QED
      BY <3>2, <3>3, <3>4
  <2>6. \A i \in ActiveIndexes(m) : Max(part[i]) \in part[i]
    <3>1. TAKE i \in ActiveIndexes(m)
    <3>2. PICK P : P = part[i]
      OBVIOUS
    <3>3. P # {} /\ P \subseteq 1 .. MaxSeq
      BY <1>10, <2>5, <3>2
    <3>4. P \in SUBSET Nat /\ \A y \in P : y <= MaxSeq
      BY <3>3, MaxSeqAssumption
    <3>5. Max(P) \in P
      BY <3>3, <3>4, MaxSeqAssumption, MaxOfBounded
    <3> QED
      BY <3>2, <3>5
  <2>7. \A i \in ActiveIndexes(m) : part[i] \subseteq TableEntries(m)'
    <3>1. ents'[m.bank] = part
      BY <1>2, <1>3, <1>9, <1>12
    <3> QED
      BY <3>1 DEF TableEntries, ActiveIndexes
  <2>8. TableEntries(m)' # {} => ActiveIndexes(m) # {}
    BY DEF TableEntries, ActiveIndexes
  <2>9. TableEntries(m)' # {} => m.ckpt \in TableEntries(m)'
    BY <2>4, <2>5, <2>6, <2>7, <2>8
  <2> QED
    BY <1>13, <1>14, <1>15, <1>16, <1>17, <2>1, <2>2, <2>9 DEF Holds
<1>19. wal'[m.wslot].last <= wal'[ram.wslot].last
  BY <1>1, <1>12, DataTypes DEF IInv
<1>20. CASE ReturnError
  BY <1>1, <1>20 DEF ReturnError, ReturnTo, GoDown, OutHolds
<1>21. CASE BeginCopy(m, "compact", back) /\ ~ReturnError
  BY <1>1, <1>2, <1>11, <1>15, <1>17, <1>18, <1>19, <1>21, BeginCopyOut
<1> QED
  BY <1>9, <1>20, <1>21

\* Where a call may go on after a publication.
LEMMA PublishedPlace ==
    ASSUME IInv, pc = "publish"
    PROVE  back \notin {"publish", "down"}
BY DEF IInv, TypeOK, PublishJob, PublishInv, JobInv

\* No other action begins a copy.
LEMMA OutStep ==
    ASSUME IInv, DataInv, Next
    PROVE  OutHolds'
<1> USE DEF OutHolds
<1>1. CASE SetupManifest
  BY <1>1 DEF SetupManifest, ReturnTo, GoDown
<1>2. CASE ProvisionAllDataFiles
  BY <1>2 DEF ProvisionAllDataFiles, ReturnTo
<1>3. CASE RecoverWal
  BY <1>3 DEF RecoverWal, GoDown
<1>4. CASE Serve \/ BeginAppend \/ BeginWalHeader \/ AppendFrames
  BY <1>4 DEF Serve, BeginAppend, StabilizeThen, BeginWalHeader, ReturnTo, AppendFrames
<1>5. CASE RotateWal
  BY <1>5 DEF RotateWal, StabilizeThen, ReturnError, ReturnTo, GoDown
<1>6. ASSUME NEW b, BeginCompaction(b) PROVE OutHolds'
  BY <1>6 DEF BeginCompaction, ReturnError, ReturnTo, GoDown
<1>7. ASSUME NEW b, BeginFlush(b) PROVE OutHolds'
  BY <1>6, <1>7 DEF BeginFlush
<1>8. CASE Commit \/ BeginValueWrite \/ AppendTransaction
  BY <1>6, <1>7, <1>8 DEF Commit, BeginValueWrite, AppendTransaction, ReturnTo
<1>9. CASE PublishSteps
  <2>1. pc = "publish"
    BY <1>9 DEF PublishSteps, ProvisioningCopyPublished, ReadyPublished, FlushPublished,
         CompactionPublished, RotationPublished, StabilizationPublished, Published
  <2>2. pc' \in {"create", "stabilize", back}
    BY <1>9 DEF PublishSteps, ProvisioningCopyPublished, ReadyPublished, FlushPublished,
         CompactionPublished, RotationPublished, StabilizationPublished
  <2> QED
    BY <2>1, <2>2, PublishedPlace
<1>10. CASE PublishFails
  BY <1>10 DEF PublishFails, GoDown
<1>11. CASE CallFails \/ AppendFails
  BY <1>11 DEF CallFails, AppendFails, ReturnError, ReturnTo, GoDown
<1>12. CASE Deinit \/ PowerCut
  BY <1>12 DEF Deinit, PowerCut, GoDown
<1>13. CASE LoseCopy
  BY <1>13 DEF LoseCopy, call
<1> QED
  BY <1>1, <1>2, <1>3, <1>4, <1>5, <1>8, <1>9, <1>10, <1>11, <1>12, <1>13,
     WriteProvisioningCopyOut, InitialiseFirstWalOut, StabilizeOut, FlushOut,
     WalHeaderSyncedOut, CompactOut
     DEF Next, InitSteps, CommitSteps, FailureSteps

-----------------------------------------------------------------------------
(* The memtable goes on holding what is behind the checkpoint.             *)

\* Steps that change neither the memtable nor the checkpoint, or leave the
\* RAM state undefined.
LEMMA SameMemtable ==
    ASSUME IInv, MemtableInv,
           Recovered' =>
               /\ Recovered /\ UNCHANGED <<mem, next, acked>> /\ ram'.ckpt = ram.ckpt
               /\ \A s \in 1 .. acked : ops'[s] = ops[s]
    PROVE  MemtableInv'
<1>1. SUFFICES ASSUME Recovered'
               PROVE  (next = acked + 1 /\ mem = Newest((ram.ckpt + 1) .. acked))'
  BY DEF MemtableInv
<1>2. /\ UNCHANGED <<mem, next, acked>> /\ ram'.ckpt = ram.ckpt
      /\ \A s \in 1 .. acked : ops'[s] = ops[s]
      /\ next = acked + 1 /\ mem = Newest((ram.ckpt + 1) .. acked)
  BY <1>1 DEF MemtableInv
<1>3. PICK S : S = (ram.ckpt + 1) .. acked
  OBVIOUS
<1>4. ram.ckpt \in Nat /\ acked \in Nat
  BY DataTypes DEF IInv
<1>5. \A s \in S : ops'[s] = ops[s]
  BY <1>2, <1>3, <1>4
<1>6. Newest(S)' = Newest(S)
  BY <1>5, SameVersions
<1>7. Newest((ram.ckpt + 1) .. acked)' = Newest(S)'
  BY <1>2, <1>3 DEF Newest
<1> QED
  BY <1>2, <1>3, <1>6, <1>7

\* A copy that is being begun.
LEMMA BeginCopyMemtable ==
    ASSUME IInv, MemtableInv, NEW m, NEW j, NEW b, BeginCopy(m, j, b),
           b = "serve" => Recovered, UNCHANGED <<ops, acked>>
    PROVE  MemtableInv'
<1>1. CASE ReturnError
  BY <1>1, SameMemtable DEF ReturnError, ReturnTo, GoDown, Recovered, local
<1>2. CASE ~ReturnError
  BY <1>2, SameMemtable DEF BeginCopy, Recovered, local
<1> QED
  BY <1>1, <1>2

\* The first steps of init() leave the RAM state undefined.
LEMMA InitMemtable ==
    ASSUME IInv, DataInv,
           SetupManifest \/ WriteProvisioningCopy \/ ProvisionAllDataFiles \/ InitialiseFirstWal
    PROVE  MemtableInv'
<1>1. ~up /\ pc \in {"down", "create", "provision", "firstwal"}
  BY DEF SetupManifest, WriteProvisioningCopy, ProvisionAllDataFiles, InitialiseFirstWal,
         IInv, CallInv
<1>2. ~Recovered'
  <2>1. CASE SetupManifest
    BY <1>1, <2>1 DEF SetupManifest, ReturnTo, GoDown, Recovered, local
  <2>2. CASE WriteProvisioningCopy
    BY <1>1, <2>2 DEF WriteProvisioningCopy, BeginCopy, ReturnError, GoDown, Recovered, local
  <2>3. CASE ProvisionAllDataFiles
    BY <1>1, <2>3 DEF ProvisionAllDataFiles, ReturnTo, Recovered, local
  <2>4. CASE InitialiseFirstWal
    BY <1>1, <2>4 DEF InitialiseFirstWal, BeginCopy, ReturnError, GoDown, Recovered, local
  <2> QED
    BY <2>1, <2>2, <2>3, <2>4
<1> QED
  BY <1>2 DEF MemtableInv

\* Recovery builds the memtable from the log.
LEMMA RecoverMemtable ==
    ASSUME IInv, RecoverWal
    PROVE  MemtableInv'
<1>1. CASE ram.state = "ready" /\ Recoverable(ram)
  <2>1. /\ mem' = Newest(Replayed(ram)) /\ next' = wal[ram.wslot].last + 1
        /\ acked' = wal[ram.wslot].last /\ UNCHANGED <<ram, media>>
    BY <1>1 DEF RecoverWal
  <2>2. Newest((ram.ckpt + 1) .. acked)' = Newest(Replayed(ram))
    BY <2>1 DEF Newest, Replayed, media
  <2> QED
    BY <2>1, <2>2 DEF MemtableInv
<1>2. CASE ~(ram.state = "ready" /\ Recoverable(ram))
  BY <1>2 DEF RecoverWal, GoDown, MemtableInv, Recovered
<1> QED
  BY <1>1, <1>2

\* A commit adds its transaction.
LEMMA AppendMemtable ==
    ASSUME IInv, DataInv, AppendFrames
    PROVE  MemtableInv'
<1>1. PICK op \in Staged :
         Persist(op) /\ mem' = {s \in mem : ops[s].key # op.key} \cup {next}
  BY DEF AppendFrames
<1>2. pc = "frames" /\ up /\ acked' = next /\ next' = next + 1 /\ ram' = ram
  BY DEF AppendFrames, IInv, CallInv, Serving
<1>3. /\ next = acked + 1 /\ ops'[acked + 1] = op
      /\ \A s \in 1 .. acked : ops'[s] = ops[s]
  BY <1>1, <1>2, FramesData
<1>4. mem = Newest((ram.ckpt + 1) .. acked)
  BY <1>2 DEF DataInv, MemtableInv, Recovered
<1>5. ram.ckpt \in Nat /\ acked \in Nat /\ ram.ckpt < next
  BY <1>2, DataTypes DEF IInv, CheckpointInv
<1>6. PICK a, n : a = ram.ckpt + 1 /\ n = acked + 1
  OBVIOUS
<1>7. a \in Nat /\ n \in Nat /\ a <= n /\ n - 1 = acked
  BY <1>3, <1>5, <1>6
<1>8. \A s \in a .. (n - 1) : ops'[s] = ops[s]
  BY <1>3, <1>5, <1>6, <1>7
<1>9. Newest(a .. n)' = {s \in Newest(a .. (n - 1)) : ops[s].key # op.key} \cup {n}
  <2>1. ops'[n] = op
    BY <1>3, <1>6
  <2>2. a \in Nat /\ n \in Nat /\ a <= n /\ \A s \in a .. (n - 1) : ops'[s] = ops[s]
    BY <1>7, <1>8
  <2> QED
    BY <2>1, <2>2, NewestAppend
<1>10. Newest((ram.ckpt + 1) .. acked)' = Newest(a .. n)'
  BY <1>2, <1>3, <1>6 DEF Newest
<1> QED
  BY <1>1, <1>2, <1>3, <1>4, <1>6, <1>7, <1>9, <1>10 DEF MemtableInv

\* Publications move the checkpoint only together with the memtable.
LEMMA PublishMemtable ==
    ASSUME IInv, DataInv, PublishSteps
    PROVE  MemtableInv'
<1>1. pc = "publish" /\ UNCHANGED <<wal, tab, ents, vb, ops, up, faulted, next, back, job, out, acked>>
      /\ ram' = out
  BY DEF PublishSteps, ProvisioningCopyPublished, ReadyPublished, FlushPublished,
         CompactionPublished, RotationPublished, StabilizationPublished, Published
<1>2. JobInv /\ acked \in Nat /\ back \notin {"publish", "down"}
  BY <1>1, PublishedPlace DEF IInv, PublishInv, TypeOK
<1>3. CASE ProvisioningCopyPublished \/ ReadyPublished
  <2>1. ~up /\ back \in {"provision", "recover"} /\ pc' \in {"create", "stabilize", back}
    BY <1>2, <1>3 DEF ProvisioningCopyPublished, ReadyPublished, Published, JobInv
  <2>2. ~Recovered'
    BY <1>1, <2>1 DEF Recovered
  <2> QED
    BY <2>2 DEF MemtableInv
<1>4. CASE FlushPublished \/ CompactionPublished
  <2>1. job \in {"flush", "compact"} /\ mem' = {}
    BY <1>4 DEF FlushPublished, CompactionPublished, Published
  <2>2. up /\ out.state = "ready"
    BY <1>2, <2>1 DEF JobInv
  <2>3. out.ckpt = acked /\ next = acked + 1
    BY <1>1, <2>1, <2>2 DEF DataInv, OutHolds, MemtableInv, Recovered
  <2>4. (acked + 1) .. acked = {}
    BY <1>2
  <2>5. Newest((ram.ckpt + 1) .. acked)' = {}
    BY <1>1, <2>3, <2>4 DEF Newest
  <2> QED
    BY <1>1, <2>1, <2>3, <2>5 DEF MemtableInv
<1>5. CASE RotationPublished \/ StabilizationPublished
  <2>1. job \in {"rotate", "stabilize"} /\ mem' = mem /\ pc' \in {"stabilize", back}
    BY <1>5 DEF RotationPublished, StabilizationPublished, Published
  <2>2. out.state = "ready"
    BY <1>2, <2>1 DEF JobInv
  <2>3. out.ckpt = ram.ckpt
    BY <1>1, <2>1, <2>2 DEF DataInv, OutHolds
  <2>4. Recovered' => Recovered
    BY <1>1, <1>2, <2>1 DEF Recovered, JobInv
  <2> QED
    BY <1>1, <2>1, <2>3, <2>4, SameMemtable DEF DataInv
<1> QED
  BY <1>3, <1>4, <1>5 DEF PublishSteps

\* Every step keeps the memtable.
LEMMA MemtableStep ==
    ASSUME IInv, DataInv, Next
    PROVE  MemtableInv'
<1>0. MemtableInv
  BY DEF DataInv
<1>1. CASE Serve
  BY <1>0, <1>1, SameMemtable DEF Serve, Recovered, media
<1>2. CASE BeginAppend \/ RotateWal
  <2>1. up /\ UNCHANGED <<ops, acked>>
    BY <1>2 DEF BeginAppend, RotateWal, IInv, CallInv, Serving, media
  <2> QED
    BY <1>0, <1>2, <2>1, SameMemtable
       DEF BeginAppend, RotateWal, StabilizeThen, ReturnError, ReturnTo, Recovered, local
<1>3. CASE BeginWalHeader
  <2>1. up /\ UNCHANGED <<ops, acked>>
    BY <1>3 DEF BeginWalHeader, IInv, CallInv, Serving
  <2> QED
    BY <1>0, <1>3, <2>1, SameMemtable DEF BeginWalHeader, ReturnTo, Recovered, local
<1>4. ASSUME NEW b, BeginCompaction(b), up, acked' = acked PROVE MemtableInv'
  BY <1>0, <1>4, SameMemtable DEF BeginCompaction, ReturnError, ReturnTo, Recovered, local, media
<1>5. ASSUME NEW b, BeginFlush(b), up, acked' = acked PROVE MemtableInv'
  <2>1. CASE FreeIndexes(ram) = {}
    BY <1>4, <1>5, <2>1 DEF BeginFlush
  <2>2. CASE FreeIndexes(ram) # {}
    BY <1>0, <1>5, <2>2, SameMemtable DEF BeginFlush, Recovered, local
  <2> QED
    BY <2>1, <2>2
<1>6. CASE Commit \/ BeginValueWrite \/ AppendTransaction
  <2>1. up /\ acked' = acked
    BY <1>6 DEF Commit, BeginValueWrite, AppendTransaction, IInv, CallInv, Serving
  <2>2. ASSUME NEW p, ReturnTo(p), UNCHANGED media PROVE MemtableInv'
    BY <1>0, <2>1, <2>2, SameMemtable DEF ReturnTo, Recovered, local, media
  <2> QED
    BY <1>4, <1>5, <1>6, <2>1, <2>2 DEF Commit, BeginValueWrite, AppendTransaction
<1>7. CASE Stabilize
  <2>1. pc = "stabilize" /\ UNCHANGED <<ops, acked>>
    BY <1>7 DEF Stabilize, media
  <2>2. CASE stab
    <3>1. PICK m, b : m = ram /\ b = back
      OBVIOUS
    <3>2. BeginCopy(m, "stabilize", b) /\ (b = "serve" => Recovered)
      BY <1>7, <2>1, <2>2, <3>1 DEF Stabilize, Recovered
    <3> QED
      BY <1>0, <2>1, <3>2, BeginCopyMemtable
  <2>3. CASE ~stab
    <3>1. pc' = back /\ UNCHANGED <<local, back>>
      BY <1>7, <2>3 DEF Stabilize, ReturnTo
    <3>2. back \notin {"stabilize", "publish"}
      BY <2>1 DEF IInv, CallInv
    <3>3. Recovered' => Recovered
      BY <2>1, <3>1, <3>2 DEF Recovered, local
    <3> QED
      BY <1>0, <2>1, <3>1, <3>3, SameMemtable DEF local
  <2> QED
    BY <2>2, <2>3
<1>8. CASE Flush \/ WalHeaderSynced \/ Compact
  <2>1. up /\ UNCHANGED <<ops, acked>> /\ pc \in {"flush", "synced", "compact"}
    BY <1>8 DEF Flush, WalHeaderSynced, Compact, IInv, CallInv, Serving
  <2>2. (\E m, j, b : BeginCopy(m, j, b)) \/ ReturnError
    BY <1>8 DEF Flush, WalHeaderSynced, Compact
  <2>3. CASE ReturnError
    BY <1>0, <2>1, <2>3, SameMemtable DEF ReturnError, ReturnTo, Recovered, local
  <2>4. CASE \E m, j, b : BeginCopy(m, j, b)
    <3>1. PICK m, j, b : BeginCopy(m, j, b)
      BY <2>4
    <3> QED
      BY <1>0, <2>1, <3>1, BeginCopyMemtable DEF Recovered
  <2> QED
    BY <2>2, <2>3, <2>4
<1>9. CASE PublishFails
  <2>1. UNCHANGED <<ops, acked>> /\ pc = "publish"
    BY <1>9 DEF PublishFails, CopyInterrupted
  <2> QED
    BY <1>0, <1>9, <2>1, SameMemtable DEF PublishFails, GoDown, Recovered
<1>10. CASE CallFails
  BY <1>0, <1>10, SameMemtable DEF CallFails, ReturnError, ReturnTo, GoDown, Recovered, local, media
<1>11. CASE AppendFails
  <2>1. pc = "frames" /\ up /\ acked' = acked
    BY <1>11 DEF AppendFails, IInv, CallInv, Serving
  <2>2. \A s \in 1 .. acked : ops'[s] = ops[s]
    BY <1>11, <2>1, FramesData DEF AppendFails, media
  <2> QED
    BY <1>0, <1>11, <2>1, <2>2, SameMemtable DEF AppendFails, ReturnError, ReturnTo, Recovered, local
<1>12. CASE Deinit \/ PowerCut
  BY <1>12 DEF Deinit, PowerCut, GoDown, MemtableInv, Recovered
<1>13. CASE LoseCopy
  BY <1>0, <1>13, SameMemtable DEF LoseCopy, Recovered, local, call
<1> QED
  BY <1>1, <1>2, <1>3, <1>6, <1>7, <1>8, <1>9, <1>10, <1>11, <1>12, <1>13,
     InitMemtable, RecoverMemtable, AppendMemtable, PublishMemtable
     DEF Next, InitSteps, CommitSteps, FailureSteps

-----------------------------------------------------------------------------
(* DataInv is inductive next to IInv.                                      *)

\* It holds of empty storage.
LEMMA DataInvInit == Init => DataInv
<1>1. SUFFICES ASSUME Init PROVE DataInv
  OBVIOUS
<1>2. /\ copy = [s \in Two |-> BlankCopy] /\ ops = <<>> /\ acked = 0 /\ pc = "down" /\ ~up
  BY <1>1 DEF Init
<1>3. BlankCopy.state = "blank"
  BY DEF BlankCopy, FreshManifest
<1>4. \A s \in Two : copy[s].state = "blank" /\ ~Valid(copy[s])
  BY <1>2, <1>3 DEF Valid
<1>5. CopiesHold /\ OlderReaches
  BY <1>2, <1>4 DEF CopiesHold, OlderReaches
<1>6. PendingInv
  BY <1>2 DEF PendingInv
<1>7. OutHolds /\ MemtableInv
  BY <1>2 DEF OutHolds, MemtableInv, Recovered
<1> QED
  BY <1>5, <1>6, <1>7 DEF DataInv

\* Every step of the engine keeps it.
LEMMA DataInvStep == IInv /\ DataInv /\ [Next]_vars => DataInv'
<1>1. SUFFICES ASSUME IInv, DataInv, [Next]_vars PROVE DataInv'
  OBVIOUS
<1>2. CASE Next
  BY <1>1, <1>2, CopiesStep, OutStep, MemtableStep DEF DataInv
<1>3. CASE UNCHANGED vars
  <2>1. UNCHANGED <<copy, wal, ents, ops, up, ram, mem, next, pc, back, job, out, acked>>
    BY <1>3 DEF vars, media, local, call
  <2>2. CopiesHold' /\ OlderReaches'
    BY <1>1, <2>1 DEF DataInv, CopiesHold, OlderReaches, Holds, TableEntries, ActiveIndexes,
       Live, Newest
  <2>3. OutHolds'
    BY <1>1, <2>1 DEF DataInv, OutHolds, Holds, TableEntries, ActiveIndexes, Live, Newest
  <2>4. PendingInv'
    BY <1>1, <2>1 DEF DataInv, PendingInv, Holds, TableEntries, ActiveIndexes, Live, Newest
  <2>5. MemtableInv'
    BY <1>1, <2>1 DEF DataInv, MemtableInv, Recovered, Live, Newest
  <2> QED
    BY <2>2, <2>3, <2>4, <2>5 DEF DataInv
<1> QED
  BY <1>1, <1>2, <1>3

\* The engine always keeps the data where recovery and reads look for it.
THEOREM DataInductive == Spec => [](IInv /\ DataInv)
<1>1. Init => IInv /\ DataInv
  BY IInvInit, DataInvInit
<1>2. (IInv /\ DataInv) /\ [Next]_vars => (IInv /\ DataInv)'
  BY IInvStep, DataInvStep
<1> QED
  BY <1>1, <1>2, PTL DEF Spec

\* Between operations a read finds exactly the committed transactions,
\* whatever flush, compaction or a failed call did (lookup_committed_unsafe()).
THEOREM ReadsCorrect == Spec => []ReadsSeeCommitted
<1>1. IInv /\ DataInv => ReadsSeeCommitted
  <2>1. SUFFICES ASSUME IInv, DataInv, pc = "idle" PROVE Visible = Live(1 .. next - 1)
    BY DEF ReadsSeeCommitted
  <2>2. up /\ ram.state = "ready"
    BY <2>1, UpFacts DEF IInv, CallInv, Serving
  <2>3. next = acked + 1 /\ acked \in Nat
    BY <2>1, <2>2 DEF DataInv, MemtableInv, Recovered, IInv, TypeOK
  <2>4. Visible = Live(1 .. acked)
    BY <2>1, <2>2, VisibleCommitted DEF Recovered
  <2>5. next - 1 = acked
    BY <2>3
  <2> QED
    BY <2>4, <2>5
<1> QED
  BY <1>1, DataInductive, PTL

\* A compaction merges up to the last transaction whenever there is anything to
\* merge: compact_tables_unsafe() refuses only where neither memtable nor tables
\* hold an entry.
THEOREM MergeReachesLast == Spec => []RefusedOnlyWhenEmpty
<1>1. IInv /\ DataInv => RefusedOnlyWhenEmpty
  <2>1. SUFFICES ASSUME IInv, DataInv, pc = "compact", mem \cup TableEntries(ram) # {}
                 PROVE  Max(Newest(mem \cup TableEntries(ram)) \cup {0}) = next - 1
    BY DEF RefusedOnlyWhenEmpty
  <2>2. up /\ ram.state = "ready" /\ pc # "down"
    BY <2>1, UpFacts DEF IInv, CallInv, Serving
  <2>3. Holds(ram)
    BY <2>1, <2>2, RamHolds DEF DataInv
  <2>4. next = acked + 1 /\ mem = Newest((ram.ckpt + 1) .. acked)
    BY <2>1, <2>2 DEF DataInv, MemtableInv, Recovered
  <2>5. PICK S, T, M, c, n :
          /\ T = TableEntries(ram) /\ M = mem /\ S = M \cup T
          /\ c = ram.ckpt /\ n = acked
    OBVIOUS
  <2>6. c \in Nat /\ n \in Nat /\ c <= n
    BY <2>1, <2>3, <2>5, DataTypes DEF IInv, Holds
  <2>7. M \subseteq (c + 1) .. n /\ T \subseteq 1 .. c
    BY <2>3, <2>4, <2>5, LiveWithin DEF Holds
  <2>8. S \subseteq 1 .. n
    <3>1. \A y \in M : y \in 1 .. n
      BY <2>6, <2>7
    <3>2. \A y \in T : y \in 1 .. n
      BY <2>6, <2>7
    <3> QED
      BY <2>5, <3>1, <3>2
  <2>9. n \in S
    <3>1. CASE c < n
      <4>1. c + 1 \in Nat /\ n \in (c + 1) .. n
        BY <2>6, <3>1
      <4>2. PICK u \in Newest((c + 1) .. n) : n <= u
        BY <2>6, <4>1, NewestExists
      <4>3. u \in M /\ u \in (c + 1) .. n
        BY <2>4, <2>5, <2>7, <4>2
      <4>4. u = n
        BY <2>6, <4>2, <4>3
      <4> QED
        BY <2>5, <4>3, <4>4
    <3>2. CASE c = n
      <4>1. M = {}
        BY <2>6, <2>7, <3>2
      <4>2. T # {}
        BY <2>1, <2>5, <4>1
      <4> QED
        BY <2>3, <2>5, <3>2, <4>2 DEF Holds
    <3> QED
      BY <2>6, <3>1, <3>2
  <2>10. n \in Newest(S)
    BY <2>6, <2>8, <2>9 DEF Newest
  <2>11. PICK N : N = Newest(S) \cup {0}
    OBVIOUS
  <2>12. N \in SUBSET Nat /\ n \in N /\ \A y \in N : y <= n
    <3>1. \A y \in Newest(S) : y \in Nat /\ y <= n
      <4>1. Newest(S) \subseteq S
        BY LiveWithin
      <4>2. \A y \in S : y \in Nat /\ y <= n
        BY <2>6, <2>8
      <4> QED
        BY <4>1, <4>2
    <3>2. \A y \in N : y \in Nat /\ y <= n
      BY <2>6, <2>11, <3>1
    <3> QED
      BY <2>10, <2>11, <3>2
  <2>13. Max(N) \in N /\ \A y \in N : y <= Max(N)
    BY <2>6, <2>12, MaxOfBounded
  <2>14. PICK g : g = Max(N)
    OBVIOUS
  <2>15. g = n
    <3>1. g \in Nat /\ g <= n /\ n <= g
      BY <2>12, <2>13, <2>14
    <3> QED
      BY <2>6, <3>1
  <2>16. next - 1 = n
    BY <2>4, <2>5, <2>6
  <2> QED
    BY <2>5, <2>11, <2>14, <2>15, <2>16
<1> QED
  BY <1>1, DataInductive, PTL

\* What a step leaves of the acknowledged transactions: all of them, as they were.
LEMMA AcknowledgedStep ==
    ASSUME IInv, DataInv, Next
    PROVE  /\ acked <= acked' /\ acked <= Len(ops')
           /\ \A s \in 1 .. acked : ops'[s] = ops[s]
<1>1. acked \in Nat /\ Len(ops) \in Nat /\ acked <= Len(ops)
  BY DataTypes DEF IInv, DataInv, PendingInv
<1>2. CASE ops' = ops /\ acked' = acked
  BY <1>1, <1>2
<1>3. CASE WritesFrames
  <2>1. PICK op \in Staged : Persist(op)
    BY <1>3 DEF WritesFrames
  <2>2. next = acked + 1 /\ Len(ops') = acked + 1 /\ \A s \in 1 .. acked : ops'[s] = ops[s]
    BY <1>3, <2>1, FramesData DEF WritesFrames
  <2>3. acked' = acked \/ acked' = acked + 1
    BY <1>3, <2>2 DEF WritesFrames
  <2> QED
    BY <1>1, <2>2, <2>3
<1>4. CASE Recovers
  <2>1. Holds(ram)
    BY <1>4, RamHolds DEF Recovers, DataInv
  <2> QED
    BY <1>1, <1>4, <2>1 DEF Recovers, Holds
<1> QED
  BY <1>2, <1>3, <1>4, DataStep
     DEF Quiet, Provisions, WritesTables, WritesHeader, WritesCopy, LoseCopy

\* No step makes an acknowledged transaction unacknowledged, or rewrites one.
THEOREM Durable == Spec => AcknowledgedStays
<1>1. IInv /\ DataInv /\ [Next]_vars =>
        [ /\ acked <= acked'
          /\ acked <= Len(ops')
          /\ \A s \in 1 .. acked : ops'[s] = ops[s] ]_vars
  BY AcknowledgedStep
<1> QED
  BY <1>1, DataInductive, PTL DEF Spec, AcknowledgedStays

-----------------------------------------------------------------------------
(* The engine implements KeyValue.                                         *)

\* No two live transactions have the same key.
LEMMA LiveUnique ==
    ASSUME NEW S \in SUBSET Nat, NEW s \in Live(S), NEW t \in Live(S),
           ops[s].key = ops[t].key
    PROVE  s = t
<1>1. s \in Nat /\ t \in Nat /\ s <= t /\ t <= s
  BY DEF Live, Newest
<1> QED
  BY <1>1

\* The version of a key is its live transaction, or 0.
LEMMA VersionOf ==
    ASSUME NEW S \in SUBSET Nat, NEW k \in Keys
    PROVE  /\ \A s \in Live(S) : ops[s].key = k => VersionsIn(S)[k] = s
           /\ (\A s \in Live(S) : ops[s].key # k) => VersionsIn(S)[k] = 0
<1>1. ASSUME NEW s \in Live(S), ops[s].key = k PROVE VersionsIn(S)[k] = s
  <2>1. PICK v : v = CHOOSE t \in Live(S) : ops[t].key = k
    OBVIOUS
  <2>2. v \in Live(S) /\ ops[v].key = k
    BY <1>1, <2>1
  <2>3. v = s
    BY <1>1, <2>2, LiveUnique
  <2> QED
    BY <1>1, <2>1, <2>3 DEF VersionsIn
<1>2. ASSUME \A s \in Live(S) : ops[s].key # k PROVE VersionsIn(S)[k] = 0
  BY <1>2 DEF VersionsIn
<1> QED
  BY <1>1, <1>2

\* The same after a step.
LEMMA VersionOfNext ==
    ASSUME NEW S \in SUBSET Nat, NEW k \in Keys
    PROVE  /\ \A s \in Live(S)' : ops'[s].key = k => VersionsIn(S)'[k] = s
           /\ (\A s \in Live(S)' : ops'[s].key # k) => VersionsIn(S)'[k] = 0
<1>1. ASSUME NEW s \in Live(S)', ops'[s].key = k PROVE VersionsIn(S)'[k] = s
  <2>1. PICK v : v = CHOOSE t \in Live(S)' : ops'[t].key = k
    OBVIOUS
  <2>2. v \in Live(S)' /\ ops'[v].key = k
    BY <1>1, <2>1
  <2>3. v = s
    <3>1. s \in Nat /\ v \in Nat /\ s <= v /\ v <= s
      BY <1>1, <2>2 DEF Live, Newest
    <3> QED
      BY <3>1
  <2> QED
    BY <1>1, <2>1, <2>3 DEF VersionsIn
<1>2. ASSUME \A s \in Live(S)' : ops'[s].key # k PROVE VersionsIn(S)'[k] = 0
  BY <1>2 DEF VersionsIn
<1> QED
  BY <1>1, <1>2

\* Versions depend on the live transactions only.
LEMMA SameLiveVersions ==
    ASSUME NEW S, NEW T, Live(S) = Live(T)
    PROVE  VersionsIn(S) = VersionsIn(T)
BY DEF VersionsIn

\* The map a reader sees is that of the acknowledged transactions, whether the
\* database serves or not.
MapSeen ==
    VersionsIn(IF up THEN mem \cup TableEntries(ram) ELSE 1 .. acked) = VersionsIn(1 .. acked)

\* It is, in every state of the inductive invariant.
LEMMA PromisedMap == IInv /\ DataInv => MapSeen
<1>1. SUFFICES ASSUME IInv, DataInv, up
               PROVE  VersionsIn(mem \cup TableEntries(ram)) = VersionsIn(1 .. acked)
  BY DEF MapSeen
<1>2. Visible = Live(1 .. acked)
  BY <1>1, UpFacts, VisibleCommitted DEF Recovered
<1>3. PICK S, T : S = mem \cup TableEntries(ram) /\ T = 1 .. acked
  OBVIOUS
<1>4. Live(S) = Live(T)
  BY <1>2, <1>3 DEF Visible
<1> QED
  BY <1>3, <1>4, SameLiveVersions

\* The same after a step.
LEMMA PromisedMapNext == IInv' /\ DataInv' => MapSeen'
BY PromisedMap, PTL

\* A step that acknowledges nothing leaves the map.
LEMMA SameMap ==
    ASSUME IInv, acked' = acked, \A s \in 1 .. acked : ops'[s] = ops[s]
    PROVE  VersionsIn(1 .. acked)' = VersionsIn(1 .. acked)
<1>1. PICK S : S = 1 .. acked
  OBVIOUS
<1>2. Live(S)' = Live(S) /\ \A s \in Live(S) : ops'[s] = ops[s]
  BY <1>1, SameVersions, LiveWithin
<1>3. VersionsIn(S)' = VersionsIn(S)
  BY <1>2 DEF VersionsIn
<1>4. VersionsIn(1 .. acked)' = VersionsIn(S)'
  BY <1>1 DEF VersionsIn, Live, Newest
<1> QED
  BY <1>1, <1>3, <1>4

\* Acknowledging one more transaction is a Transact of the map.
LEMMA MapTransacts ==
    ASSUME IInv, acked' = acked + 1, NEW op \in Operation, ops'[acked + 1] = op,
           \A s \in 1 .. acked : ops'[s] = ops[s],
           op.del => \E s \in Live(1 .. acked) : ops[s].key = op.key
    PROVE  \E k \in Keys :
              LET db == VersionsIn(1 .. acked) IN
              \/ VersionsIn(1 .. acked)' = [db EXCEPT ![k] = acked + 1]
              \/ db[k] # 0 /\ VersionsIn(1 .. acked)' = [db EXCEPT ![k] = 0]
<1>1. acked \in Nat /\ op.key \in Keys
  BY DEF IInv, TypeOK, Operation
<1>2. PICK n, S, T, k : n = acked + 1 /\ S = 1 .. acked /\ T = 1 .. n /\ k = op.key
  OBVIOUS
<1>3. n \in Nat /\ 1 <= n /\ S = 1 .. (n - 1) /\ S \in SUBSET Nat /\ T \in SUBSET Nat /\ n \notin S
  BY <1>1, <1>2
<1>4. Newest(T)' = {s \in Newest(S) : ops[s].key # k} \cup {n}
  <2>1. \A s \in 1 .. (n - 1) : ops'[s] = ops[s]
    BY <1>2, <1>3
  <2>2. Newest(1 .. n)' = {s \in Newest(1 .. (n - 1)) : ops[s].key # op.key} \cup {n}
    BY <1>2, <1>3, <2>1, NewestAppend
  <2>3. Newest(T)' = Newest(1 .. n)' /\ Newest(S) = Newest(1 .. (n - 1))
    BY <1>2, <1>3 DEF Newest
  <2> QED
    BY <1>2, <2>2, <2>3
<1>5. \A s \in Newest(S) : ops'[s] = ops[s]
  BY <1>2, LiveWithin
<1>6. ops'[n] = op
  BY <1>2
<1>7. Live(T)' = {s \in Newest(T)' : ~ops'[s].del}
  BY DEF Live, Newest
<1>8. /\ \A s \in Live(T)' : s = n \/ (s \in Live(S) /\ ops[s].key # k /\ ops'[s] = ops[s])
      /\ \A s \in Live(S) : ops'[s] = ops[s] /\ (ops[s].key # k => s \in Live(T)')
      /\ n \in Live(T)' <=> ~op.del
  <2>1. \A s : s \in Live(S) <=> s \in Newest(S) /\ ~ops[s].del
    BY DEF Live
  <2>2. n \notin Newest(S)
    BY <1>3, LiveWithin
  <2> QED
    BY <1>4, <1>5, <1>6, <1>7, <2>1, <2>2
<1>9. PICK db, db1 : db = VersionsIn(S) /\ db1 = VersionsIn(T)'
  OBVIOUS
<1>10. /\ DOMAIN db = Keys /\ db = [j \in Keys |-> db[j]]
      /\ DOMAIN db1 = Keys /\ db1 = [j \in Keys |-> db1[j]]
  BY <1>9 DEF VersionsIn
<1>11. \A j \in Keys : j # k => db1[j] = db[j]
  <2>1. TAKE j \in Keys
  <2>2. HAVE j # k
  <2>3. CASE \E s \in Live(S) : ops[s].key = j
    <3>1. PICK s \in Live(S) : ops[s].key = j
      BY <2>3
    <3>2. s \in Live(T)' /\ ops'[s].key = j
      BY <1>8, <2>2, <3>1
    <3>3. db[j] = s
      BY <1>3, <3>1, <1>9, VersionOf
    <3>4. db1[j] = s
      BY <1>3, <3>2, <1>9, VersionOfNext
    <3> QED
      BY <3>3, <3>4
  <2>4. CASE \A s \in Live(S) : ops[s].key # j
    <3>1. \A s \in Live(T)' : ops'[s].key # j
      BY <1>2, <1>6, <1>8, <2>2, <2>4
    <3>2. db[j] = 0
      BY <1>3, <2>4, <1>9, VersionOf
    <3>3. db1[j] = 0
      BY <1>3, <3>1, <1>9, VersionOfNext
    <3> QED
      BY <3>2, <3>3
  <2> QED
    BY <2>3, <2>4
<1>12. k \in Keys
  BY <1>1, <1>2
<1>13. CASE ~op.del
  <2>1. n \in Live(T)' /\ ops'[n].key = k
    BY <1>2, <1>6, <1>8, <1>13
  <2>2. db1[k] = n
    BY <1>3, <1>12, <2>1, <1>9, VersionOfNext
  <2>3. db1 = [db EXCEPT ![k] = n]
    BY <1>11, <1>12, <1>10, <2>2
  <2>4. VersionsIn(1 .. acked)' = db1
    BY <1>2, <1>9 DEF VersionsIn, Live, Newest
  <2> QED
    BY <1>2, <1>9, <1>12, <2>3, <2>4
<1>14. CASE op.del
  <2>1. PICK s \in Live(S) : ops[s].key = k
    BY <1>2, <1>14
  <2>2. db[k] = s
    BY <1>3, <1>12, <2>1, <1>9, VersionOf
  <2>3. s # 0
    BY <1>1, <1>2, LiveWithin
  <2>4. \A t \in Live(T)' : ops'[t].key # k
    BY <1>2, <1>6, <1>8, <1>14
  <2>5. db1[k] = 0
    BY <1>3, <1>12, <2>4, <1>9, VersionOfNext
  <2>6. db1 = [db EXCEPT ![k] = 0]
    BY <1>11, <1>12, <1>10, <2>5
  <2>7. VersionsIn(1 .. acked)' = db1
    BY <1>2, <1>9 DEF VersionsIn, Live, Newest
  <2> QED
    BY <1>2, <1>9, <1>12, <2>2, <2>3, <2>6, <2>7
<1> QED
  BY <1>13, <1>14

\* Only a commit and a recovery acknowledge anything.
LEMMA Acknowledges ==
    ASSUME IInv, Next, acked' # acked
    PROVE  \/ AppendFrames
           \/ /\ RecoverWal /\ pc = "recover" /\ ram.state = "ready"
              /\ acked' = wal[ram.wslot].last /\ UNCHANGED <<media, up>>
<1>1. CASE AppendFrames
  BY <1>1
<1>2. CASE RecoverWal
  BY <1>2 DEF RecoverWal
<1> QED
  BY <1>1, <1>2 DEF Next, InitSteps, CommitSteps, PublishSteps, FailureSteps,
     SetupManifest, WriteProvisioningCopy, ProvisionAllDataFiles, InitialiseFirstWal, Serve,
     Commit, BeginValueWrite, BeginAppend, AppendTransaction, RotateWal, BeginWalHeader,
     WalHeaderSynced, Compact, Flush, Stabilize, ProvisioningCopyPublished, ReadyPublished,
     FlushPublished, CompactionPublished, RotationPublished, StabilizationPublished, Published,
     PublishFails, CallFails, AppendFails, Deinit, PowerCut, LoseCopy

\* What a commit or a recovery does to the promised map and its clock.
LEMMA AcknowledgesMap ==
    ASSUME IInv, DataInv, Next, acked' # acked
    PROVE  /\ acked' = acked + 1 /\ up' = up
           /\ \E k \in Keys :
                 LET db == VersionsIn(1 .. acked) IN
                 \/ VersionsIn(1 .. acked)' = [db EXCEPT ![k] = acked + 1]
                 \/ db[k] # 0 /\ VersionsIn(1 .. acked)' = [db EXCEPT ![k] = 0]
<1>1. acked \in Nat /\ ops \in Seq(Operation) /\ Len(ops) \in Nat
  BY DataTypes DEF IInv
<1>2. CASE AppendFrames
  <2>1. pc = "frames" /\ acked' = next /\ up' = up
    BY <1>2 DEF AppendFrames
  <2>2. PICK op \in Staged : Persist(op)
    BY <1>2 DEF AppendFrames
  <2>3. /\ next = acked + 1 /\ ops'[acked + 1] = op
        /\ \A s \in 1 .. acked : ops'[s] = ops[s]
        /\ op.del => \E s \in Live(1 .. acked) : ops[s].key = op.key
    BY <2>1, <2>2, FramesData
  <2>4. op \in Operation
    <3>1. ram.vbank \in Two /\ ram.vgen \in [Two -> Nat]
      BY DEF IInv, TypeOK, ManifestRecord
    <3> QED
      BY <3>1 DEF Staged, Operation
  <2> QED
    BY <2>1, <2>3, <2>4, MapTransacts
<1>3. CASE pc = "recover" /\ ram.state = "ready" /\ acked' = wal[ram.wslot].last
             /\ UNCHANGED <<media, up>>
  <2>1. Holds(ram) /\ wal[ram.wslot].last \in Nat
    BY <1>3, RamHolds, DataTypes DEF DataInv, IInv
  <2>2. acked <= acked' /\ acked' <= Len(ops) /\ Len(ops) <= acked + 1
    BY <1>3, <2>1 DEF Holds, DataInv, PendingInv
  <2>3. acked' = acked + 1 /\ Len(ops) = acked + 1
    BY <1>1, <1>3, <2>1, <2>2
  <2>4. PICK op : op = ops[acked + 1]
    OBVIOUS
  <2>5. op \in Operation
    BY <1>1, <2>3, <2>4
  <2>6. ops' = ops
    BY <1>3 DEF media
  <2>7. op.del => \E s \in Live(1 .. acked) : ops[s].key = op.key
    BY <2>3, <2>4 DEF DataInv, PendingInv
  <2> QED
    BY <1>3, <2>3, <2>4, <2>5, <2>6, <2>7, MapTransacts
<1> QED
  BY <1>2, <1>3, Acknowledges

\* Every step of the engine is a step of the key-value store, or changes
\* nothing a caller can see.
LEMMA PromiseStep ==
    ASSUME IInv, DataInv, [Next]_vars, IInv', DataInv'
    PROVE  [Promise!Next]_(Promise!vars)
<1>1. VersionsIn(IF up THEN mem \cup TableEntries(ram) ELSE 1 .. acked) = VersionsIn(1 .. acked)
  BY PromisedMap DEF MapSeen
<1>2. VersionsIn(IF up THEN mem \cup TableEntries(ram) ELSE 1 .. acked)' = VersionsIn(1 .. acked)'
  BY PromisedMapNext DEF MapSeen
<1>3. up \in BOOLEAN /\ up' \in BOOLEAN
  BY DEF IInv, TypeOK
<1>4. CASE Next /\ acked' = acked
  <2>1. VersionsIn(1 .. acked)' = VersionsIn(1 .. acked)
    BY <1>4, AcknowledgedStep, SameMap
  <2> QED
    BY <1>1, <1>2, <1>3, <1>4, <2>1
       DEF Promise!Next, Promise!Open, Promise!Close, Promise!vars
<1>5. CASE Next /\ acked' # acked
  BY <1>1, <1>2, <1>3, <1>5, AcknowledgesMap
     DEF Promise!Next, Promise!Commit, Promise!Discover, Promise!Transact, Promise!Missing
<1>6. CASE UNCHANGED vars
  <2>1. UNCHANGED <<up, acked, ops>>
    BY <1>6 DEF vars, media, local
  <2>2. VersionsIn(1 .. acked)' = VersionsIn(1 .. acked)
    BY <2>1 DEF VersionsIn, Live, Newest
  <2> QED
    BY <1>1, <1>2, <2>1, <2>2 DEF Promise!vars
<1> QED
  BY <1>4, <1>5, <1>6

\* The engine implements the key-value store it promises: reads find the map
\* of the acknowledged transactions, maintenance and failed calls leave it
\* alone, a restart brings it back with at most the transaction whose
\* commit() had not returned.
THEOREM Implements == Spec => ImplementsKeyValue
<1>1. Init => Promise!Init
  <2>1. SUFFICES ASSUME Init PROVE Promise!Init
    OBVIOUS
  <2>2. ~up /\ up \in BOOLEAN /\ acked = 0
    BY <2>1 DEF Init
  <2>3. Live(1 .. 0) = {}
    BY DEF Live, Newest
  <2>4. VersionsIn(IF up THEN mem \cup TableEntries(ram) ELSE 1 .. acked) = [k \in Keys |-> 0]
    BY <2>2, <2>3 DEF VersionsIn
  <2> QED
    BY <2>2, <2>4 DEF Promise!Init, Promise!Missing
<1>2. IInv /\ DataInv /\ [Next]_vars /\ (IInv /\ DataInv)' => [Promise!Next]_(Promise!vars)
  BY PromiseStep
<1> QED
  BY <1>1, <1>2, DataInductive, PTL DEF Spec, ImplementsKeyValue, Promise!Spec

-----------------------------------------------------------------------------
(* Where a failed append leaves nothing behind, every copy leads to a      *)
(* complete log.                                                           *)

\* The log behind a record only depends on the transactions and on the WAL
\* slots the record names.
LEMMA LoggedKept ==
    ASSUME NEW c, Logged(c), ops' = ops, wal'[c.wslot] = wal[c.wslot],
           c.wgen[OlderWal(c)] # 0 => wal'[OlderWal(c)] = wal[OlderWal(c)]
    PROVE  Logged(c)'
<1>1. WalChain(c)'
  BY DEF Logged, WalChain, FirstWal, OlderWal
<1>2. ReplayableValues(c)'
  BY DEF Logged, ReplayableValues, Replayed
<1> QED
  BY <1>1, <1>2 DEF Logged

\* A ready manifest in RAM has a complete log.
LEMMA RamLogged ==
    ASSUME IInv, LogInv, pc # "down", ram.state = "ready"
    PROVE  Logged(ram)
<1>1. ram.gen # 0
  BY DEF IInv, RamInv, FreshManifest
<1>2. Valid(ram) /\ copy[Slot(ram.gen)] = ram /\ Slot(ram.gen) \in Two
  BY <1>1, RamIsCopy
<1> QED
  BY <1>2 DEF LogInv

\* While the engine serves, the active WAL slot ends with the last
\* acknowledged transaction.
LEMMA ServingLog ==
    ASSUME IInv, DataInv, LogInv, up
    PROVE  /\ Logged(ram) /\ wal[ram.wslot].last = acked /\ Len(ops) = acked
           /\ next = acked + 1 /\ ram.ckpt <= acked
<1>1. pc # "down" /\ ram.state = "ready"
  BY UpFacts
<1>2. Logged(ram) /\ Holds(ram)
  BY <1>1, RamLogged, RamHolds DEF DataInv
<1> QED
  BY <1>2 DEF Logged, LogInv, Recovered, DataInv, MemtableInv, Holds

\* Writing frames extends the log of every copy.
LEMMA FramesLogged ==
    ASSUME IInv, DataInv, LogInv, WritesFrames, NEW s \in Two, Valid(copy[s])
    PROVE  Logged(copy[s])'
<1>1. pc = "frames" /\ pc \in Serving /\ ~faulted /\ up
  BY DEF WritesFrames, Serving, IInv, CallInv
<1>2. PICK op \in Staged : Persist(op)
  BY DEF WritesFrames
<1>3. /\ Len(ops') = acked + 1 /\ ops'[acked + 1] = op
      /\ \A t \in 1 .. acked : ops'[t] = ops[t]
      /\ ram.wslot \in Two
      /\ wal'[ram.wslot].last = acked + 1 /\ wal'[ram.wslot].first = wal[ram.wslot].first
      /\ \A w \in Two : w # ram.wslot => wal'[w] = wal[w]
      /\ op.bank = ram.vbank /\ op.vgen = ram.vgen[ram.vbank]
      /\ copy' = copy
  BY <1>1, <1>2, FramesData
<1>4. PICK c : c = copy[s]
  OBVIOUS
<1>5. /\ c.state = "ready" /\ c.wslot = ram.wslot /\ c.vbank = ram.vbank /\ c.vgen = ram.vgen
  BY <1>1, <1>4, ServingCopies
<1>6. Logged(c) /\ Holds(c)
  BY <1>4, <1>5 DEF LogInv, DataInv, CopiesHold
<1>7. wal[c.wslot].last = acked
  BY <1>1, <1>5, ServingLog
<1>8. acked \in Nat /\ c.ckpt \in Nat /\ wal[c.wslot].first \in Nat
  BY <1>3, <1>4, <1>5, DataTypes DEF IInv
<1>9. OlderWal(c) \in Two /\ OlderWal(c) # c.wslot /\ wal'[OlderWal(c)] = wal[OlderWal(c)]
  <2>1. OlderWal(c) \in Two /\ OlderWal(c) # c.wslot
    BY <1>3, <1>5 DEF OlderWal, Two
  <2> QED
    BY <1>3, <1>5, <2>1
<1>10. WalChain(c)'
  <2>1. wal'[FirstWal(c)].first = wal[FirstWal(c)].first /\ FirstWal(c)' = FirstWal(c)
    BY <1>3, <1>5, <1>9 DEF FirstWal, OlderWal
  <2>2. c.ckpt <= wal'[c.wslot].last
    BY <1>3, <1>5, <1>6, <1>8 DEF Holds
  <2> QED
    BY <1>3, <1>5, <1>6, <1>9, <2>1, <2>2 DEF Logged, WalChain, OlderWal
<1>11. ReplayableValues(c)'
  <2>1. SUFFICES ASSUME NEW t \in (c.ckpt + 1) .. (acked + 1), ~ops'[t].del
                 PROVE  ops'[t].bank = c.vbank /\ ops'[t].vgen = c.vgen[c.vbank]
    BY <1>3, <1>5 DEF ReplayableValues, Replayed
  <2>2. CASE t = acked + 1
    BY <1>3, <1>5, <2>2
  <2>3. CASE t # acked + 1
    <3>1. t \in (c.ckpt + 1) .. acked /\ t \in 1 .. acked
      BY <1>8, <2>3
    <3>2. ops'[t] = ops[t]
      BY <1>3, <3>1
    <3> QED
      BY <1>6, <1>7, <2>1, <3>1, <3>2 DEF Logged, ReplayableValues, Replayed
  <2> QED
    BY <2>2, <2>3
<1>12. wal[c.wslot].first <= wal[c.wslot].last + 1
  BY <1>6 DEF Logged
<1>13. wal'[c.wslot].first <= wal'[c.wslot].last + 1 /\ wal'[c.wslot].last = Len(ops')
  BY <1>3, <1>5, <1>7, <1>8, <1>12
<1>14. Logged(c)'
  BY <1>10, <1>11, <1>13 DEF Logged
<1>15. Logged(copy[s])' <=> Logged(c)'
  BY <1>3, <1>4 DEF Logged, WalChain, FirstWal, OlderWal, ReplayableValues, Replayed
<1> QED
  BY <1>14, <1>15

\* The copies go on leading to a complete log.
LEMMA CopiesLogged ==
    ASSUME IInv, DataInv, LogInv, Next, NEW s \in Two, copy'[s].state = "ready"
    PROVE  Logged(copy[s])'
<1>1. PICK c : c = copy'[s]
  OBVIOUS
<1>2. Logged(copy[s])' <=> Logged(c)'
  BY <1>1 DEF Logged, WalChain, FirstWal, OlderWal, ReplayableValues, Replayed
<1>3. CASE copy' = copy /\ UNCHANGED <<wal, ops>>
  <2>1. Logged(c)
    BY <1>1, <1>3 DEF LogInv, Valid
  <2> QED
    BY <1>2, <1>3, <2>1, LoggedKept
<1>4. CASE Provisions
  <2>1. copy[s] = [FreshManifest EXCEPT !.gen = copy[s].gen]
    BY <1>4, ProvisioningReachesNothing DEF Provisions, Valid
  <2>2. copy[s].state = "provisioning"
    BY <2>1 DEF FreshManifest
  <2> QED
    BY <1>4, <2>2 DEF Provisions
<1>5. CASE WritesHeader
  <2>1. pc \in Serving /\ ~faulted /\ ram.wgen[1 - ram.wslot] = 0 /\ copy' = copy /\ ops' = ops
    BY <1>5 DEF WritesHeader, Serving, IInv, CallInv
  <2>2. PICK h : wal' = [wal EXCEPT ![1 - ram.wslot] = h]
    BY <1>5 DEF WritesHeader
  <2>3. c.wslot = ram.wslot /\ c.wgen = ram.wgen
    BY <1>1, <2>1, ServingCopies DEF Valid
  <2>4. ram.wslot \in Two /\ wal \in [Two -> WalSlot]
    BY DEF IInv, TypeOK, ManifestRecord
  <2>5. wal'[c.wslot] = wal[c.wslot]
    BY <2>2, <2>3, <2>4 DEF Two
  <2>6. c.wgen[OlderWal(c)] = 0
    BY <2>1, <2>3 DEF OlderWal
  <2>7. Logged(c)
    BY <1>1, <2>1 DEF LogInv, Valid
  <2> QED
    BY <1>2, <2>1, <2>5, <2>6, <2>7, LoggedKept
<1>6. CASE WritesFrames
  <2>1. copy' = copy
    BY <1>6 DEF WritesFrames, Persist
  <2> QED
    BY <1>6, <2>1, FramesLogged DEF Valid
<1>7. CASE WritesCopy
  <2>1. pc = "publish" /\ UNCHANGED <<wal, ops>>
    BY <1>7 DEF WritesCopy
  <2>2. PICK d \in {copy[Slot(out.gen)], TornCopy, out} :
           copy' = [copy EXCEPT ![Slot(out.gen)] = d]
    BY <1>7 DEF WritesCopy
  <2>3. out.gen \in Nat /\ out.gen # 0 /\ copy \in [Two -> ManifestRecord]
    <3>1. out.gen = ram.gen + 1 /\ ram.gen \in Nat
      BY <2>1 DEF IInv, PublishInv, TypeOK, ManifestRecord
    <3> QED
      BY <3>1 DEF IInv, TypeOK
  <2>4. Slot(out.gen) \in Two
    BY <2>3, SlotType
  <2>5. c \in {copy[s], TornCopy, out}
    BY <1>1, <2>2, <2>3, <2>4
  <2>6. c # TornCopy
    BY <1>1 DEF TornCopy, FreshManifest
  <2>7. Logged(c)
    <3>1. CASE c = copy[s]
      BY <1>1, <3>1 DEF LogInv, Valid
    <3>2. CASE c = out
      BY <1>1, <2>1, <3>2 DEF LogInv
    <3> QED
      BY <2>5, <2>6, <3>1, <3>2
  <2> QED
    BY <1>2, <2>1, <2>7, LoggedKept
<1>8. CASE LoseCopy
  <2>1. PICK t \in Two : copy' = [copy EXCEPT ![t] = TornCopy]
    BY <1>8 DEF LoseCopy
  <2>2. UNCHANGED <<wal, ops>> /\ copy \in [Two -> ManifestRecord]
    BY <1>8 DEF LoseCopy, IInv, TypeOK
  <2>3. c = copy[s]
    <3>1. c = copy[s] \/ c = TornCopy
      BY <1>1, <2>1, <2>2
    <3>2. c # TornCopy
      BY <1>1 DEF TornCopy, FreshManifest
    <3> QED
      BY <3>1, <3>2
  <2>4. Logged(c)
    BY <1>1, <2>3 DEF LogInv, Valid
  <2> QED
    BY <1>2, <2>2, <2>4, LoggedKept
<1> QED
  BY <1>3, <1>4, <1>5, <1>6, <1>7, <1>8, DataStep DEF Quiet, WritesTables, Recovers

\* Beginning a copy of a record with a complete log.
LEMMA BeginCopyLogged ==
    ASSUME NEW m \in ManifestRecord, NEW j, NEW b, BeginCopy(m, j, b),
           m.state = "ready" => Logged(m)'
    PROVE  pc' = "publish" /\ out'.state = "ready" => Logged(out)'
<1>1. CASE ReturnError
  BY <1>1 DEF ReturnError, ReturnTo, GoDown
<1>2. CASE ~ReturnError
  <2>1. out' = [m EXCEPT !.gen = ram.gen + 1]
    BY <1>2 DEF BeginCopy
  <2>2. PICK o : o = [m EXCEPT !.gen = ram.gen + 1]
    OBVIOUS
  <2>3. /\ o.state = m.state /\ o.wslot = m.wslot /\ o.wgen = m.wgen
        /\ o.ckpt = m.ckpt /\ o.vbank = m.vbank /\ o.vgen = m.vgen
    BY <2>2 DEF ManifestRecord
  <2>4. Logged(m)' => Logged(o)'
    BY <2>3 DEF Logged, WalChain, FirstWal, OlderWal, ReplayableValues, Replayed
  <2>5. Logged(out)' <=> Logged(o)'
    BY <2>1, <2>2 DEF Logged, WalChain, FirstWal, OlderWal, ReplayableValues, Replayed
  <2> QED
    BY <2>1, <2>2, <2>3, <2>4, <2>5
<1> QED
  BY <1>1, <1>2

\* A record whose checkpoint is the end of the log has nothing to replay.
LEMMA NothingToReplay ==
    ASSUME NEW c, c.ckpt \in Nat, wal'[c.wslot].last = c.ckpt
    PROVE  ReplayableValues(c)'
<1>1. (c.ckpt + 1) .. wal'[c.wslot].last = {}
  OBVIOUS
<1> QED
  BY <1>1 DEF ReplayableValues, Replayed

\* The first ready copy names an empty log.
LEMMA InitialiseFirstWalLogged ==
    ASSUME IInv, DataInv, InitialiseFirstWal
    PROVE  pc' = "publish" /\ out'.state = "ready" => Logged(out)'
<1>1. /\ pc = "firstwal" /\ ram.state = "provisioning"
      /\ wal' = [wal EXCEPT ![0] = [gen |-> 1, first |-> 1, last |-> 0]] /\ ops' = ops
  BY DEF InitialiseFirstWal, IInv, CallInv
<1>2. PICK m : m = [ram EXCEPT !.state = "ready", !.wslot = 0,
                               !.wgen = [w \in Two |-> 1 - w], !.ckpt = 0]
  OBVIOUS
<1>3. BeginCopy(m, "ready", "recover")
  BY <1>2 DEF InitialiseFirstWal
<1>4. ram \in ManifestRecord /\ wal \in [Two -> WalSlot]
  BY DEF IInv, TypeOK
<1>5. m \in ManifestRecord
  <2>1. [w \in Two |-> 1 - w] \in [Two -> Nat] /\ 0 \in Two
    BY DEF Two
  <2> QED
    BY <1>2, <1>4, <2>1 DEF ManifestRecord
<1>6. m.ckpt = 0 /\ m.wslot = 0 /\ m.wgen = [w \in Two |-> 1 - w]
  BY <1>2, <1>4 DEF ManifestRecord
<1>7. OlderWal(m) = 1 /\ m.wgen[1] = 0 /\ m.wgen[0] = 1
  BY <1>6 DEF OlderWal, Two
<1>8. FirstWal(m) = 0
  BY <1>6, <1>7 DEF FirstWal
<1>9. wal'[0] = [gen |-> 1, first |-> 1, last |-> 0]
  BY <1>1, <1>4 DEF Two
<1>10. wal'[0].first = 1 /\ wal'[0].last = 0
  BY <1>9
<1>11. WalChain(m)'
  BY <1>6, <1>7, <1>8, <1>10 DEF WalChain, FirstWal, OlderWal
<1>12. ReplayableValues(m)'
  BY <1>6, <1>10, NothingToReplay
<1>13. ops = <<>> /\ Len(ops) = 0
  BY <1>1, ProvisioningEmpty DEF DataInv
<1>14. Logged(m)'
  BY <1>1, <1>6, <1>10, <1>11, <1>12, <1>13 DEF Logged
<1> QED
  BY <1>3, <1>5, <1>14, BeginCopyLogged

\* A stabilizing copy names the log the manifest in RAM names.
LEMMA StabilizeLogged ==
    ASSUME IInv, LogInv, Stabilize
    PROVE  pc' = "publish" /\ out'.state = "ready" => Logged(out)'
<1>1. pc = "stabilize" /\ ram.state = "ready" /\ UNCHANGED <<wal, ops>> /\ back # "publish"
  BY DEF Stabilize, IInv, CallInv, media
<1>2. CASE ~stab
  BY <1>1, <1>2 DEF Stabilize, ReturnTo
<1>3. CASE stab
  <2>1. PICK m : m = ram
    OBVIOUS
  <2>2. BeginCopy(m, "stabilize", back) /\ m \in ManifestRecord
    BY <1>3, <2>1 DEF Stabilize, IInv, TypeOK
  <2>3. Logged(m)
    BY <1>1, <2>1, RamLogged
  <2>4. Logged(m)'
    BY <1>1, <2>3, LoggedKept
  <2> QED
    BY <2>2, <2>4, BeginCopyLogged
<1> QED
  BY <1>2, <1>3

\* The copy of a flush needs nothing of the log any more.
LEMMA FlushLogged ==
    ASSUME IInv, DataInv, LogInv, Flush, OutHolds'
    PROVE  pc' = "publish" /\ out'.state = "ready" => Logged(out)'
<1>1. pc = "flush" /\ up /\ UNCHANGED <<wal, ops, acked>> /\ mem # {} /\ FreeIndexes(ram) # {}
  BY DEF Flush, IInv, CallInv, Serving
<1>2. PICK m : m = Flushed
  OBVIOUS
<1>3. ram \in ManifestRecord /\ ram.ckpt \in Nat /\ ram.wslot \in Two /\ acked \in Nat
  BY DEF IInv, TypeOK, ManifestRecord
<1>4. m \in ManifestRecord
  BY <1>1, <1>2, <1>3, FlushedType DEF IInv, BoundInv
<1>5. m.wslot = ram.wslot /\ m.wgen = ram.wgen /\ m.ckpt = Max(mem)
  BY <1>2, <1>3 DEF Flushed, ManifestRecord
<1>6. /\ Logged(ram) /\ wal[ram.wslot].last = acked /\ Len(ops) = acked
      /\ ram.ckpt <= acked
  BY <1>1, ServingLog
<1>7. BeginCopy(m, "flush", back)
  BY <1>2 DEF Flush
<1>8. CASE ReturnError
  BY <1>8 DEF ReturnError, ReturnTo, GoDown
<1>9. CASE ~ReturnError
  <2>1. out' = [m EXCEPT !.gen = ram.gen + 1] /\ job' = "flush" /\ pc' = "publish"
    BY <1>7, <1>9 DEF BeginCopy
  <2>2. out'.ckpt = m.ckpt /\ out'.state = m.state
    BY <1>4, <2>1 DEF ManifestRecord
  <2>3. m.state = "ready" => m.ckpt = acked
    BY <1>1, <2>1, <2>2 DEF OutHolds
  <2>4. ASSUME m.ckpt = acked PROVE Logged(m)'
    <3>1. WalChain(m)'
      <4>1. OlderWal(m) = OlderWal(ram) /\ FirstWal(m) = FirstWal(ram)
        BY <1>5 DEF OlderWal, FirstWal
      <4>2. FirstWal(ram) \in Two
        BY <1>3 DEF FirstWal, OlderWal, Two
      <4>3. wal[FirstWal(ram)].first \in Nat
        BY <4>2, DataTypes DEF IInv
      <4>4. wal[FirstWal(ram)].first <= m.ckpt + 1
        <5>1. wal[FirstWal(ram)].first <= ram.ckpt + 1
          BY <1>6 DEF Logged, WalChain
        <5> QED
          BY <1>3, <1>6, <2>4, <4>3, <5>1
      <4>5. FirstWal(m)' = FirstWal(m) /\ OlderWal(m)' = OlderWal(m)
        BY DEF FirstWal, OlderWal
      <4>6. m.ckpt <= wal[m.wslot].last
        BY <1>3, <1>5, <1>6, <2>4
      <4> QED
        BY <1>1, <1>5, <1>6, <4>1, <4>4, <4>5, <4>6 DEF Logged, WalChain
    <3>2. ReplayableValues(m)'
      BY <1>1, <1>3, <1>5, <1>6, <2>4, NothingToReplay
    <3> QED
      BY <1>1, <1>5, <1>6, <3>1, <3>2 DEF Logged
  <2> QED
    BY <1>4, <1>7, <2>3, <2>4, BeginCopyLogged
<1> QED
  BY <1>8, <1>9

\* A rotation chains an empty slot to the full one.
LEMMA WalHeaderSyncedLogged ==
    ASSUME IInv, DataInv, LogInv, WalHeaderSynced
    PROVE  pc' = "publish" /\ out'.state = "ready" => Logged(out)'
<1> DEFINE target == 1 - ram.wslot
           gen == ram.wgen[ram.wslot] + 1
<1>1. /\ pc = "synced" /\ up /\ ram.wgen[target] = 0
      /\ wal' = [wal EXCEPT ![target] = [gen |-> gen, first |-> next, last |-> next - 1]]
      /\ UNCHANGED <<ops, acked>>
  BY DEF WalHeaderSynced, IInv, CallInv, Serving
<1>2. /\ ram \in ManifestRecord /\ ram.wslot \in Two /\ acked \in Nat /\ wal \in [Two -> WalSlot]
      /\ ram.wgen \in [Two -> Nat] /\ ram.ckpt \in Nat
  BY DEF IInv, TypeOK, ManifestRecord
<1>3. target \in Two /\ target # ram.wslot /\ gen \in Nat /\ 1 - target = ram.wslot
  BY <1>2 DEF Two
<1>4. /\ Logged(ram) /\ wal[ram.wslot].last = acked /\ Len(ops) = acked
      /\ next = acked + 1 /\ ram.ckpt <= acked
  BY <1>1, ServingLog
<1>5. PICK m, t, g : /\ m = [ram EXCEPT !.wslot = target, !.wgen[target] = gen]
                     /\ t = target /\ g = gen
  OBVIOUS
<1>6. /\ m.wslot = t /\ m.ckpt = ram.ckpt /\ m.vbank = ram.vbank /\ m.vgen = ram.vgen
      /\ m.wgen = [ram.wgen EXCEPT ![t] = g]
  BY <1>2, <1>5 DEF ManifestRecord
<1>7. m \in ManifestRecord
  <2>1. [ram.wgen EXCEPT ![target] = gen] \in [Two -> Nat]
    BY <1>2, <1>3
  <2> QED
    BY <1>2, <1>3, <1>5, <2>1 DEF ManifestRecord
<1>8. /\ wal'[t] = [gen |-> g, first |-> acked + 1, last |-> acked]
      /\ wal'[ram.wslot] = wal[ram.wslot]
  BY <1>1, <1>2, <1>3, <1>4, <1>5
<1>9. wal'[t].first = acked + 1 /\ wal'[t].last = acked
  BY <1>8
<1>10. /\ OlderWal(m) = ram.wslot /\ m.wgen[ram.wslot] = ram.wgen[ram.wslot]
       /\ m.wgen[t] = ram.wgen[ram.wslot] + 1
  BY <1>2, <1>3, <1>5, <1>6 DEF OlderWal
<1>11. ram.wgen[ram.wslot] # 0 /\ FirstWal(ram) = ram.wslot
  BY <1>1, <1>4 DEF Logged, WalChain, FirstWal, OlderWal
<1>12. WalChain(m)'
  <2>1. FirstWal(m) = ram.wslot
    BY <1>10, <1>11 DEF FirstWal
  <2>2. FirstWal(m)' = FirstWal(m) /\ OlderWal(m)' = OlderWal(m)
    BY DEF FirstWal, OlderWal
  <2>3. wal[ram.wslot].first <= ram.ckpt + 1
    BY <1>4, <1>11 DEF Logged, WalChain
  <2>4. wal'[FirstWal(m)].first <= m.ckpt + 1
    BY <1>6, <1>8, <2>1, <2>3
  <2>5. m.wgen[OlderWal(m)] < m.wgen[m.wslot] /\ m.wgen[m.wslot] # 0
    BY <1>2, <1>6, <1>10
  <2>6. wal'[m.wslot].first = wal'[OlderWal(m)].last + 1
    BY <1>4, <1>6, <1>8, <1>9, <1>10
  <2>7. m.ckpt <= wal'[m.wslot].last
    BY <1>4, <1>6, <1>9
  <2> QED
    BY <2>2, <2>4, <2>5, <2>6, <2>7 DEF WalChain
<1>13. ReplayableValues(m)'
  BY <1>1, <1>4, <1>6, <1>9 DEF Logged, ReplayableValues, Replayed
<1>14. Logged(m)'
  BY <1>1, <1>2, <1>4, <1>6, <1>9, <1>12, <1>13 DEF Logged
<1>15. BeginCopy(m, "rotate", "frames")
  BY <1>5 DEF WalHeaderSynced
<1> QED
  BY <1>7, <1>14, <1>15, BeginCopyLogged

\* A compaction releases the older WAL slot; the active one is all it needs.
LEMMA CompactLogged ==
    ASSUME IInv, DataInv, LogInv, Compact
    PROVE  pc' = "publish" /\ out'.state = "ready" => Logged(out)'
<1>1. pc = "compact" /\ up /\ UNCHANGED <<wal, ops, acked>>
  BY DEF Compact, IInv, CallInv, Serving
<1>2. /\ ram \in ManifestRecord /\ ram.wslot \in Two /\ 1 - ram.wslot \in Two
      /\ ram.wgen \in [Two -> Nat] /\ acked \in Nat /\ 1 - ram.wslot # ram.wslot
      /\ ram.bank \in Two /\ 1 - ram.bank \in Two /\ next \in Nat \ {0}
  <2>1. /\ ram \in ManifestRecord /\ ram.wslot \in Two /\ ram.bank \in Two
        /\ ram.wgen \in [Two -> Nat] /\ acked \in Nat /\ next \in Nat \ {0}
    BY DEF IInv, TypeOK, ManifestRecord
  <2> QED
    BY <2>1 DEF Two
<1>3. /\ Logged(ram) /\ wal[ram.wslot].last = acked /\ Len(ops) = acked /\ next = acked + 1
  BY <1>1, ServingLog
<1> DEFINE sources == mem \cup TableEntries(ram)
<1>4. PICK f :
        LET part == [i \in Index |-> {s \in Live(sources) : f[s] = i}]
        IN  BeginCopy(Compacted(part), "compact", back) \/ ReturnError
  BY DEF Compact
<1>5. PICK part : part = [i \in Index |-> {s \in Live(sources) : f[s] = i}]
  OBVIOUS
<1>6. PICK m : m = Compacted(part)
  OBVIOUS
<1>7. BeginCopy(m, "compact", back) \/ ReturnError
  BY <1>4, <1>5, <1>6
<1>8. part \in [Index -> SUBSET (1 .. MaxSeq)]
  <2>1. sources \subseteq 1 .. MaxSeq
    BY SourcesBounded DEF IInv
  <2>2. Live(sources) \subseteq sources
    BY LiveWithin
  <2> QED
    BY <1>5, <2>1, <2>2
<1>9. m \in ManifestRecord
  BY <1>2, <1>6, <1>8, CompactedType
<1>10. /\ m.wslot = ram.wslot /\ m.ckpt = next - 1
       /\ m.wgen = [ram.wgen EXCEPT ![1 - ram.wslot] = 0]
  BY <1>2, <1>6 DEF Compacted, ManifestRecord
<1>11. m.ckpt = acked
  BY <1>2, <1>3, <1>10
<1>12. OlderWal(m) = 1 - ram.wslot /\ m.wgen[1 - ram.wslot] = 0 /\ m.wgen[ram.wslot] = ram.wgen[ram.wslot]
  BY <1>2, <1>10 DEF OlderWal
<1>13. FirstWal(m) = ram.wslot
  BY <1>10, <1>12 DEF FirstWal
<1>14. ram.wgen[ram.wslot] # 0 /\ wal[ram.wslot].first <= wal[ram.wslot].last + 1
  BY <1>3 DEF Logged, WalChain
<1>15. WalChain(m)'
  <2>1. FirstWal(m)' = FirstWal(m) /\ OlderWal(m)' = OlderWal(m)
    BY DEF FirstWal, OlderWal
  <2> QED
    BY <1>1, <1>2, <1>3, <1>10, <1>11, <1>12, <1>13, <1>14, <2>1 DEF WalChain
<1>16. ReplayableValues(m)'
  BY <1>1, <1>2, <1>3, <1>10, <1>11, NothingToReplay
<1>17. Logged(m)'
  BY <1>1, <1>3, <1>10, <1>14, <1>15, <1>16 DEF Logged
<1>18. CASE ReturnError
  BY <1>18 DEF ReturnError, ReturnTo, GoDown
<1>19. CASE BeginCopy(m, "compact", back)
  BY <1>9, <1>17, <1>19, BeginCopyLogged
<1> QED
  BY <1>7, <1>18, <1>19

\* The copy being written names a complete log.
LEMMA OutLogged ==
    ASSUME IInv, DataInv, LogInv, Next
    PROVE  pc' = "publish" /\ out'.state = "ready" => Logged(out)'
<1>1. CASE SetupManifest
  BY <1>1 DEF SetupManifest, ReturnTo, GoDown
<1>2. CASE WriteProvisioningCopy
  <2>1. pc = "create" /\ BeginCopy(ram, "create", "provision") /\ ram.state = "provisioning"
    BY <1>2 DEF WriteProvisioningCopy, IInv, CallInv
  <2>2. PICK m : m = ram
    OBVIOUS
  <2>3. m \in ManifestRecord /\ m.state # "ready" /\ BeginCopy(m, "create", "provision")
    BY <2>1, <2>2 DEF IInv, TypeOK
  <2> QED
    BY <2>3, BeginCopyLogged
<1>3. CASE ProvisionAllDataFiles
  BY <1>3 DEF ProvisionAllDataFiles, ReturnTo
<1>4. CASE RecoverWal
  BY <1>4 DEF RecoverWal, GoDown
<1>5. CASE Serve \/ BeginAppend \/ BeginWalHeader \/ AppendFrames
  BY <1>5 DEF Serve, BeginAppend, StabilizeThen, BeginWalHeader, ReturnTo, AppendFrames
<1>6. CASE RotateWal
  BY <1>6 DEF RotateWal, StabilizeThen, ReturnError, ReturnTo, GoDown
<1>7. ASSUME NEW b, BeginCompaction(b) PROVE pc' # "publish"
  BY <1>7 DEF BeginCompaction, ReturnError, ReturnTo, GoDown
<1>8. ASSUME NEW b, BeginFlush(b) PROVE pc' # "publish"
  BY <1>7, <1>8 DEF BeginFlush
<1>9. CASE Commit \/ BeginValueWrite \/ AppendTransaction
  BY <1>7, <1>8, <1>9 DEF Commit, BeginValueWrite, AppendTransaction, ReturnTo
<1>10. CASE PublishSteps
  <2>1. pc = "publish"
    BY <1>10 DEF PublishSteps, ProvisioningCopyPublished, ReadyPublished, FlushPublished,
         CompactionPublished, RotationPublished, StabilizationPublished, Published
  <2>2. pc' \in {"create", "stabilize", back}
    BY <1>10 DEF PublishSteps, ProvisioningCopyPublished, ReadyPublished, FlushPublished,
         CompactionPublished, RotationPublished, StabilizationPublished
  <2> QED
    BY <2>1, <2>2, PublishedPlace
<1>11. CASE PublishFails
  BY <1>11 DEF PublishFails, GoDown
<1>12. CASE CallFails \/ AppendFails
  BY <1>12 DEF CallFails, AppendFails, ReturnError, ReturnTo, GoDown
<1>13. CASE Deinit \/ PowerCut
  BY <1>13 DEF Deinit, PowerCut, GoDown
<1>14. CASE LoseCopy
  BY <1>14 DEF LoseCopy, call
<1> QED
  BY <1>1, <1>2, <1>3, <1>4, <1>5, <1>6, <1>9, <1>10, <1>11, <1>12, <1>13, <1>14,
     OutStep, InitialiseFirstWalLogged, StabilizeLogged, FlushLogged,
     WalHeaderSyncedLogged, CompactLogged
     DEF Next, InitSteps, CommitSteps, FailureSteps

\* What recovery has brought into RAM is everything on the medium.
LEMMA NothingPending ==
    ASSUME ~AppendMayPersist, IInv, DataInv, LogInv, Next, Recovered'
    PROVE  Len(ops') = acked'
<1>1. CASE WritesFrames
  <2>1. PICK op \in Staged : Persist(op)
    BY <1>1 DEF WritesFrames
  <2>2. pc = "frames" /\ next = acked + 1 /\ Len(ops') = acked + 1
    BY <1>1, <2>1, FramesData DEF WritesFrames
  <2>3. CASE acked' = next
    BY <2>2, <2>3
  <2>4. CASE acked' # next
    <3>1. AppendFails \/ PowerCut
      <4>1. ~AppendFrames
        BY <2>4 DEF AppendFrames
      <4> QED
        BY <2>2, <4>1
           DEF Next, InitSteps, CommitSteps, PublishSteps, FailureSteps,
               SetupManifest, WriteProvisioningCopy, ProvisionAllDataFiles, InitialiseFirstWal,
               RecoverWal, Serve, Commit, BeginValueWrite, BeginAppend, AppendTransaction,
               RotateWal, BeginWalHeader, WalHeaderSynced, Compact, Flush, Stabilize,
               ProvisioningCopyPublished, ReadyPublished, FlushPublished, CompactionPublished,
               RotationPublished, StabilizationPublished, Published, PublishFails, CallFails,
               Deinit, LoseCopy
    <3>2. AppendFails
      BY <3>1 DEF PowerCut, GoDown, Recovered
    <3>3. UNCHANGED <<ops, acked>> /\ up
      BY <2>2, <3>2 DEF AppendFails, media, IInv, CallInv, Serving
    <3> QED
      BY <3>3, ServingLog
  <2> QED
    BY <2>3, <2>4
<1>2. CASE Recovers
  <2>1. Logged(ram)
    BY <1>2, RamLogged DEF Recovers
  <2> QED
    BY <1>2, <2>1 DEF Recovers, Logged
<1>3. CASE UNCHANGED <<ops, acked>> /\ ~Recovers
  <2>1. Recovered
    <3>1. SUFFICES ASSUME ~Recovered PROVE FALSE
      OBVIOUS
    <3>2. ~up /\ pc # "serve" /\ ~(pc \in {"stabilize", "publish"} /\ back = "serve")
      BY <3>1 DEF Recovered
    <3>3. pc \notin Serving
      BY <3>2 DEF IInv, CallInv
    <3>4. pc = "publish" => back \notin {"publish", "down", "serve"} /\ JobInv
      BY <3>2, PublishedPlace DEF IInv, PublishInv
    <3>5. CASE SetupManifest \/ WriteProvisioningCopy \/ ProvisionAllDataFiles \/ InitialiseFirstWal
      BY <3>2, <3>5 DEF SetupManifest, WriteProvisioningCopy, ProvisionAllDataFiles,
         InitialiseFirstWal, BeginCopy, ReturnTo, ReturnError, GoDown, Recovered, local
    <3>6. CASE RecoverWal
      <4>1. ~(ram.state = "ready" /\ Recoverable(ram))
        BY <1>3, <3>6 DEF RecoverWal, Recovers, media
      <4> QED
        BY <3>6, <4>1 DEF RecoverWal, GoDown, Recovered
    <3>7. CASE Stabilize
      <4>1. pc = "stabilize" /\ back # "serve" /\ back \notin {"stabilize", "publish"}
        BY <3>2, <3>7 DEF Stabilize, IInv, CallInv
      <4> QED
        BY <3>2, <3>7, <4>1 DEF Stabilize, BeginCopy, ReturnTo, ReturnError, GoDown, Recovered, local
    <3>8. CASE PublishSteps
      <4>1. pc = "publish" /\ up' = up /\ back' = back /\ job \in PublishJob
        BY <3>8 DEF PublishSteps, ProvisioningCopyPublished, ReadyPublished, FlushPublished,
             CompactionPublished, RotationPublished, StabilizationPublished, Published, IInv, TypeOK
      <4>2. pc' \in {"create", "stabilize", back}
        BY <3>8 DEF PublishSteps, ProvisioningCopyPublished, ReadyPublished, FlushPublished,
             CompactionPublished, RotationPublished, StabilizationPublished
      <4> QED
        BY <3>2, <3>4, <4>1, <4>2 DEF Recovered
    <3>9. CASE PublishFails \/ CallFails \/ Deinit \/ PowerCut
      BY <3>2, <3>9 DEF PublishFails, CallFails, Deinit, PowerCut, ReturnError, GoDown, Recovered
    <3>10. CASE LoseCopy
      BY <3>2, <3>10 DEF LoseCopy, Recovered, local, call
    <3> QED
      BY <3>2, <3>3, <3>5, <3>6, <3>7, <3>8, <3>9, <3>10
         DEF Next, InitSteps, CommitSteps, FailureSteps, Serving, Serve, Commit,
             BeginValueWrite, BeginAppend, AppendTransaction, RotateWal, BeginWalHeader,
             WalHeaderSynced, AppendFrames, Compact, Flush, AppendFails
  <2> QED
    BY <1>3, <2>1 DEF LogInv
<1> QED
  BY <1>1, <1>2, <1>3, DataStep
     DEF Quiet, Provisions, WritesTables, WritesHeader, WritesCopy, LoseCopy

\* Without leftovers of failed appends LogInv is inductive too.
LEMMA LogInvStep ==
    ASSUME ~AppendMayPersist
    PROVE  IInv /\ DataInv /\ LogInv /\ [Next]_vars => LogInv'
<1>1. SUFFICES ASSUME IInv, DataInv, LogInv, [Next]_vars PROVE LogInv'
  OBVIOUS
<1>2. CASE Next
  <2>1. \A s \in Two : Valid(copy'[s]) /\ copy'[s].state = "ready" => Logged(copy[s])'
    BY <1>1, <1>2, CopiesLogged
  <2>2. pc' = "publish" /\ out'.state = "ready" => Logged(out)'
    BY <1>1, <1>2, OutLogged
  <2>3. Recovered' => Len(ops') = acked'
    BY <1>1, <1>2, NothingPending
  <2> QED
    BY <2>1, <2>2, <2>3 DEF LogInv
<1>3. CASE UNCHANGED vars
  <2>1. UNCHANGED <<copy, wal, ops, up, pc, back, out, acked>>
    BY <1>3 DEF vars, media, local, call
  <2> QED
    BY <1>1, <2>1 DEF LogInv, Recovered, Logged, WalChain, FirstWal, OlderWal,
       ReplayableValues, Replayed
<1> QED
  BY <1>1, <1>2, <1>3

\* Where a failed append leaves nothing on the medium, either manifest copy
\* alone recovers exactly the transactions on the medium: setup_manifest() and
\* recover_wal() lose nothing when the other copy is gone.
THEOREM CopiesRecover ==
    ASSUME ~AppendMayPersist
    PROVE  Spec => []EveryCopyRecovers
<1>1. Init => LogInv
  <2>1. SUFFICES ASSUME Init PROVE LogInv
    OBVIOUS
  <2>2. copy = [s \in Two |-> BlankCopy] /\ pc = "down" /\ ~up
    BY <2>1 DEF Init
  <2>3. BlankCopy.state = "blank"
    BY DEF BlankCopy, FreshManifest
  <2> QED
    BY <2>2, <2>3 DEF LogInv, Recovered, Valid
<1>2. IInv /\ DataInv /\ LogInv => EveryCopyRecovers
  <2>1. SUFFICES ASSUME IInv, DataInv, LogInv, NEW s \in ValidSlots(copy)
                 PROVE  LET c    == copy[s]
                            last == wal[c.wslot].last
                        IN  IF c.state = "ready"
                            THEN /\ WalChain(c)
                                 /\ ReplayableValues(c)
                                 /\ acked <= last /\ last <= Len(ops)
                                 /\ Live(TableEntries(c) \cup Replayed(c)) = Live(1 .. last)
                            ELSE acked = 0
    BY DEF EveryCopyRecovers
  <2>2. s \in Two /\ Valid(copy[s])
    BY DEF ValidSlots
  <2>3. CASE copy[s].state = "ready"
    <3>1. Logged(copy[s]) /\ Holds(copy[s])
      BY <2>1, <2>2, <2>3 DEF LogInv, DataInv, CopiesHold
    <3>2. PICK T, c, n : T = TableEntries(copy[s]) /\ c = copy[s].ckpt /\ n = wal[copy[s].wslot].last
      OBVIOUS
    <3>3. PICK M : M = (c + 1) .. n
      OBVIOUS
    <3>4. c \in Nat /\ n \in Nat
      BY <2>1, <2>2, <3>2, DataTypes DEF IInv
    <3>5. c <= n /\ Shows(T, c) /\ Continues(M, c, n)
      BY <3>1, <3>2, <3>3, <3>4, LiveWithin DEF Holds, Shows, Continues, Logged, WalChain
    <3>6. Live(M \cup T) = Live(1 .. n)
      BY <3>4, <3>5, LiveMerge
    <3>7. M = Replayed(copy[s]) /\ T \cup M = M \cup T
      BY <3>2, <3>3 DEF Replayed
    <3> QED
      BY <2>3, <3>1, <3>2, <3>6, <3>7 DEF Logged, Holds
  <2>4. CASE copy[s].state # "ready"
    <3>1. ops = <<>> /\ Len(ops) = 0
      BY <2>1, <2>2, <2>4 DEF DataInv, CopiesHold
    <3>2. acked \in Nat /\ acked <= 0
      BY <2>1, <3>1 DEF DataInv, PendingInv, IInv, TypeOK
    <3> QED
      BY <2>4, <3>2
  <2> QED
    BY <2>3, <2>4
<1> QED
  BY <1>1, <1>2, LogInvStep, DataInductive, PTL DEF Spec
==============================================================================
