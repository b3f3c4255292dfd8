------------------------------- MODULE MCLsm -------------------------------
(* Instances of Lsm for TLC: keys 1 and 2 in one namespace, 3 in another.  *)
EXTENDS Lsm

MCNamespaceOf == [k \in Keys |-> IF k = 3 THEN "b" ELSE "a"]

\* Inline and external values of key 1.
MCSizes == [k \in Keys |-> IF k = 1 THEN {1, 3} ELSE {1}]

\* Keys 1 and 3 collide in the memtable until the slots differ.
MCHash(slot, key) == (slot + key) % 2

\* Key 2 has the bits of keys 1 and 3 together.
MCFilterBits(key) == CASE key = 1 -> {0} [] key = 2 -> {0, 1} [] OTHER -> {1}

=============================================================================
