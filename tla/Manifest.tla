------------------------------- MODULE Manifest -------------------------------
(***************************************************************************)
(* The manifest record of on9kvdb and the rules it obeys: what may be      *)
(* encoded, where a generation is written, which pair of copies            *)
(* load_manifest() accepts, which copy it selects and when the selected    *)
(* one still has to be stabilized.  Constant operators only: Engine.tla    *)
(* puts them in motion.                                                    *)
(*                                                                         *)
(* Abstractions: a table reference keeps its generation (0 = inactive) and *)
(* its max_sequence; geometry, limits and database id never change within  *)
(* one range and are left out; the value-bank tails are left out, so a     *)
(* difference in the tails alone is a free choice of SetupManifest.        *)
(***************************************************************************)
EXTENDS Integers, FiniteSetsExt

CONSTANTS
    BankSize,        \* table slots per table bank (geometry.table_count / 2)
    MaxGeneration    \* UINT64_MAX of the manifest generation

ASSUME BankSizeAssumption == BankSize \in Nat \ {0}
ASSUME MaxGenerationAssumption == MaxGeneration \in Nat /\ MaxGeneration >= 4

Two == {0, 1}        \* manifest slots, WAL slots, table banks, value banks

Index == 1 .. BankSize

TableReference == [gen : Nat, max : Nat]

Inactive == [gen |-> 0, max |-> 0]

NoTables == [i \in Index |-> Inactive]

ManifestRecord ==
    [state : {"blank", "torn", "provisioning", "ready"},
     gen   : Nat,
     bank  : Two,                                   \* active_table_bank
     tabs  : [Two -> [Index -> TableReference]],    \* tables
     wslot : Two,                                   \* active_wal_slot
     wgen  : [Two -> Nat],                          \* wal_generation
     vbank : Two,                                   \* active_value_bank
     vgen  : [Two -> Nat],                          \* value_bank_generation
     ckpt  : Nat,                                   \* safe_checkpoint_sequence
     ntg   : Nat]                                   \* next_table_generation

\* create_manifest(): the record before its first copy is written.
FreshManifest ==
    [state |-> "provisioning", gen |-> 0, bank |-> 0,
     tabs |-> [b \in Two |-> NoTables],
     wslot |-> 0, wgen |-> [w \in Two |-> 0],
     vbank |-> 0, vgen |-> [b \in Two |-> 1],
     ckpt |-> 0, ntg |-> 1]

\* What a slot holds when it decodes to nothing: erased, or a damaged record.
BlankCopy == [FreshManifest EXCEPT !.state = "blank"]
TornCopy  == [FreshManifest EXCEPT !.state = "torn"]

Valid(c) == c.state \in {"provisioning", "ready"}

\* A faulty variant of Slot: every generation in the same slot.
FixedSlot(g) == 0 * g

\* The alternating slot of a generation.
Slot(g) == (g - 1) % 2

-----------------------------------------------------------------------------
(* encode_manifest_record() and decode_manifest_record() refuse the same   *)
(* records; a record that was encoded therefore decodes.                   *)

ActiveIndexes(m) == {i \in Index : m.tabs[m.bank][i].gen # 0}

ReferencesEncodable(m) ==
    /\ \A i \in Index : m.tabs[1 - m.bank][i].gen = 0
    /\ \A i \in ActiveIndexes(m) :
          /\ m.tabs[m.bank][i].max > 0
          /\ m.tabs[m.bank][i].max <= m.ckpt
          /\ m.tabs[m.bank][i].gen < m.ntg
          /\ \A j \in ActiveIndexes(m) \ {i} :
                m.tabs[m.bank][i].gen # m.tabs[m.bank][j].gen
    /\ ActiveIndexes(m) # {} =>
          \E i \in ActiveIndexes(m) : m.tabs[m.bank][i].max = m.ckpt

Encodable(m) ==
    /\ m.gen > 0
    /\ ReferencesEncodable(m)
    /\ m.state = "provisioning" =>
          m = [FreshManifest EXCEPT !.gen = m.gen]
    /\ m.state = "ready" =>
          /\ m.gen >= 3
          /\ m.wgen[m.wslot] # 0

-----------------------------------------------------------------------------
(* load_manifest(): cs is the pair of manifest slots.                      *)

ValidSlots(cs) == {s \in Two : Valid(cs[s])}

\* The valid copy of the highest generation (slot 0 when they tie).
SelectedSlot(cs) ==
    CHOOSE s \in ValidSlots(cs) :
        \A t \in ValidSlots(cs) :
            \/ cs[t].gen < cs[s].gen
            \/ cs[t].gen = cs[s].gen /\ s <= t

\* The checks of an older copy `old` against the selected one `sel`.
Adjacent(old, sel) ==
    /\ sel.gen = old.gen \/ sel.gen - old.gen = 1
    /\ old.ntg <= sel.ntg
    /\ old.ckpt <= sel.ckpt
    /\ old.gen = sel.gen => old.state = sel.state
    /\ ~(old.gen < sel.gen /\ old.state = "ready" /\ sel.state = "provisioning")
    /\ old.gen < sel.gen /\ old.bank = sel.bank =>
          \A b \in Two : \A i \in Index :
              old.tabs[b][i].gen # 0 => old.tabs[b][i] = sel.tabs[b][i]

LoadAccepts(cs) ==
    /\ ValidSlots(cs) # {}
    /\ \A s \in ValidSlots(cs) :
          /\ Slot(cs[s].gen) = s
          /\ Adjacent(cs[s], cs[SelectedSlot(cs)])

\* Two records from which the same storage is reachable, added tables apart.
SameReach(m, n) ==
    /\ m.bank = n.bank
    /\ m.wslot = n.wslot /\ m.wgen = n.wgen
    /\ m.vbank = n.vbank /\ m.vgen = n.vgen

\* A faulty variant of StabilizationRequired: a lone copy is taken as stable.
StabilizationForgotten(cs) ==
    ValidSlots(cs) = Two /\ ~SameReach(cs[0], cs[1])

\* manifest_stabilization_required after load_manifest().
StabilizationRequired(cs) ==
    \/ ValidSlots(cs) # Two
    \/ ~SameReach(cs[0], cs[1])

=============================================================================
