------------------------------- MODULE KeyValue -------------------------------
(***************************************************************************)
(* What on9kvdb promises its callers: a map from keys to versions that     *)
(* changes by one transaction at a time and survives a power cut.  The     *)
(* transaction that was in progress when the power failed is there         *)
(* afterwards or is not; everything reported before is.  Engine.tla is     *)
(* shown to implement this specification.                                  *)
(***************************************************************************)
EXTENDS Naturals

CONSTANT Keys    \* keys of the one namespace

VARIABLES
    serving,     \* init() has returned, deinit() has not been called
    last,        \* sequence of the last transaction reported durable
    db           \* the version of each key: the sequence that wrote it, or 0

vars == <<serving, last, db>>

Missing == 0

Init ==
    /\ serving = FALSE
    /\ last = 0
    /\ db = [k \in Keys |-> Missing]

\* The next transaction: a key is set, or a key that exists is erased.
Transact ==
    /\ last' = last + 1
    /\ \E k \in Keys :
          \/ db' = [db EXCEPT ![k] = last + 1]
          \/ db[k] # Missing /\ db' = [db EXCEPT ![k] = Missing]

Commit ==
    /\ serving
    /\ Transact
    /\ UNCHANGED serving

\* A transaction whose outcome was never reported turns out to be durable.
Discover ==
    /\ ~serving
    /\ Transact
    /\ UNCHANGED serving

Open ==
    /\ ~serving
    /\ serving' = TRUE
    /\ UNCHANGED <<last, db>>

\* deinit(), or a power cut.
Close ==
    /\ serving
    /\ serving' = FALSE
    /\ UNCHANGED <<last, db>>

Next == Commit \/ Discover \/ Open \/ Close

Spec == Init /\ [][Next]_vars

=============================================================================
