--------------------------- MODULE LifecycleProofs ---------------------------
(***************************************************************************)
(* Proofs that tasks exclude one another in the database and never use     *)
(* freed memory, for any set of tasks.                                     *)
(*                                                                         *)
(* The places in which a task holds each mutex, together with what is      *)
(* known of the runtime memory there, are inductive.                       *)
(***************************************************************************)
EXTENDS Lifecycle, TLAPS

HasLifecycle(t) ==
    pc[t] \in {"init", "initialising", "operation", "diagnostic", "acquired",
               "deinit", "drain", "drained"}

HasOperation(t) == pc[t] \in {"acquired", "working", "drained"}

\* Both mutexes are installed together, before anyone waits for one.
PairInv ==
    /\ lifecycle = operation
    /\ \A t \in Tasks : pc[t] = "take_lifecycle" => lifecycle # None

\* A task holds the installed mutexes at the places that need them.
LockInv ==
    \A t \in Tasks :
        /\ HasLifecycle(t) => lifecycle # None /\ holder["lifecycle"][lifecycle] = t
        /\ HasOperation(t) => operation # None /\ holder["operation"][operation] = t
        /\ pc[t] \in Calls => call[t] = pc[t]
        /\ pc[t] # "idle" => call[t] \in Calls

\* The memory is there once init() has succeeded, and while it runs.
MemoryInv ==
    /\ initialized => arena
    /\ \A t \in Tasks :
          /\ pc[t] = "initialising" => arena /\ ~initialized
          /\ pc[t] \in {"acquired", "working", "drain", "drained"} => initialized

LInv == TypeOK /\ PairInv /\ LockInv /\ MemoryInv

\* Initially nothing is installed, held or allocated.
LEMMA InitLInv == Init => LInv
<1>. SUFFICES ASSUME Init PROVE LInv
  OBVIOUS
<1>. USE NoneAssumption DEF Init
<1>1. TypeOK
  BY DEF TypeOK, Kinds, Calls, Places
<1>2. PairInv /\ LockInv /\ MemoryInv
  BY DEF PairInv, LockInv, MemoryInv, HasLifecycle, HasOperation, Calls
<1>. QED
  BY <1>1, <1>2 DEF LInv

\* Every step of every task preserves the invariant.
LEMMA NextLInv == LInv /\ [Next]_vars => LInv'
<1>. SUFFICES ASSUME LInv, [Next]_vars PROVE LInv'
  OBVIOUS
<1>. USE NoneAssumption DEF LInv, TypeOK, PairInv, LockInv, MemoryInv, HasLifecycle,
     HasOperation, Kinds, Calls, Places, Go
<1>1. CASE UNCHANGED vars
  BY <1>1 DEF vars
<1>2. ASSUME NEW t \in Tasks, Enter(t) PROVE LInv'
  BY <1>2 DEF Enter
<1>3. ASSUME NEW t \in Tasks, CheckLocks(t) PROVE LInv'
  BY <1>3 DEF CheckLocks
<1>4. ASSUME NEW t \in Tasks, InstallLocks(t) PROVE LInv'
  BY <1>4 DEF InstallLocks
<1>5. ASSUME NEW t \in Tasks, NoMemoryForLocks(t) PROVE LInv'
  BY <1>5 DEF NoMemoryForLocks, Return
<1>6. ASSUME NEW t \in Tasks, TakeLifecycle(t) PROVE LInv'
  <2>1. TypeOK'
    BY <1>6 DEF TakeLifecycle, Take
  <2>2. PairInv'
    BY <1>6 DEF TakeLifecycle, Take
  <2>3. LockInv'
    BY <1>6 DEF TakeLifecycle, Take
  <2>4. MemoryInv'
    BY <1>6 DEF TakeLifecycle, Take
  <2>. QED
    BY <2>1, <2>2, <2>3, <2>4
<1>7. ASSUME NEW t \in Tasks, InitRefused(t) PROVE LInv'
  BY <1>7 DEF InitRefused, Return, GiveLifecycle, Given
<1>8. ASSUME NEW t \in Tasks, InitAllocates(t) PROVE LInv'
  BY <1>8 DEF InitAllocates
<1>9. ASSUME NEW t \in Tasks, InitEnds(t) PROVE LInv'
  <2>1. TypeOK'
    BY <1>9 DEF InitEnds, Return, GiveLifecycle, Given
  <2>2. PairInv'
    BY <1>9 DEF InitEnds, Return, GiveLifecycle, Given
  <2>3. LockInv'
    BY <1>9 DEF InitEnds, Return, GiveLifecycle, Given
  <2>4. MemoryInv'
    BY <1>9 DEF InitEnds, Return, GiveLifecycle, Given
  <2>. QED
    BY <2>1, <2>2, <2>3, <2>4
<1>10. ASSUME NEW t \in Tasks, OperationRefused(t) PROVE LInv'
  BY <1>10 DEF OperationRefused, OperationCall, Return, GiveLifecycle, Given
<1>11. ASSUME NEW t \in Tasks, TakeOperation(t) PROVE LInv'
  BY <1>11 DEF TakeOperation, OperationCall, Take
<1>12. ASSUME NEW t \in Tasks, FaultRefuses(t) PROVE LInv'
  BY <1>12 DEF FaultRefuses, Return, GiveBoth, Given
<1>13. ASSUME NEW t \in Tasks, LeaveLifecycle(t) PROVE LInv'
  BY <1>13 DEF LeaveLifecycle, GiveLifecycle, Given
<1>14. ASSUME NEW t \in Tasks, OperationEnds(t) PROVE LInv'
  <2>1. TypeOK'
    BY <1>14 DEF OperationEnds, Return, GiveOperation, Given
  <2>2. PairInv'
    BY <1>14 DEF OperationEnds, Return, GiveOperation, Given
  <2>3. LockInv'
    BY <1>14 DEF OperationEnds, Return, GiveOperation, Given
  <2>4. MemoryInv'
    BY <1>14 DEF OperationEnds, Return, GiveOperation, Given
  <2>. QED
    BY <2>1, <2>2, <2>3, <2>4
<1>15. ASSUME NEW t \in Tasks, DeinitIdle(t) PROVE LInv'
  BY <1>15 DEF DeinitIdle, Return, GiveLifecycle, Given
<1>16. ASSUME NEW t \in Tasks, ShutDown(t) PROVE LInv'
  BY <1>16 DEF ShutDown
<1>17. ASSUME NEW t \in Tasks, Drain(t) PROVE LInv'
  BY <1>17 DEF Drain, Take
<1>18. ASSUME NEW t \in Tasks, DeinitRefused(t) PROVE LInv'
  <2>1. TypeOK'
    BY <1>18 DEF DeinitRefused, Return, GiveBoth, Given
  <2>2. PairInv'
    BY <1>18 DEF DeinitRefused, Return, GiveBoth, Given
  <2>3. LockInv'
    BY <1>18 DEF DeinitRefused, Return, GiveBoth, Given
  <2>4. MemoryInv'
    BY <1>18 DEF DeinitRefused, Return, GiveBoth, Given
  <2>. QED
    BY <2>1, <2>2, <2>3, <2>4
<1>19. ASSUME NEW t \in Tasks, DeinitEnds(t) PROVE LInv'
  <2>1. TypeOK'
    BY <1>19 DEF DeinitEnds, Return, GiveBoth, Given
  <2>2. PairInv'
    BY <1>19 DEF DeinitEnds, Return, GiveBoth, Given
  <2>3. LockInv'
    BY <1>19 DEF DeinitEnds, Return, GiveBoth, Given
  <2>4. MemoryInv'
    BY <1>19 DEF DeinitEnds, Return, GiveBoth, Given
  <2>. QED
    BY <2>1, <2>2, <2>3, <2>4
<1>. QED
  BY <1>1, <1>2, <1>3, <1>4, <1>5, <1>6, <1>7, <1>8, <1>9, <1>10, <1>11, <1>12,
     <1>13, <1>14, <1>15, <1>16, <1>17, <1>18, <1>19 DEF Next, Step

\* The invariant holds in every state of every behaviour.
LEMMA AlwaysLInv == Spec => []LInv
BY InitLInv, NextLInv, PTL DEF Spec

(* Tasks exclude one another: init(), operations and deinit() never work   *)
(* on the database at the same time, whoever created the mutexes.          *)
THEOREM MutualExclusion == Spec => []Exclusive
<1>1. LInv => Exclusive
  BY DEF LInv, TypeOK, LockInv, MemoryInv, PairInv, Exclusive, UsesRuntime, HasLifecycle,
     HasOperation
<1>. QED
  BY <1>1, AlwaysLInv, PTL

(* No task works on memory that is not allocated.                          *)
THEOREM MemorySafe == Spec => []NoUseAfterFree
<1>1. LInv => NoUseAfterFree
  BY DEF LInv, MemoryInv, NoUseAfterFree, UsesRuntime
<1>. QED
  BY <1>1, AlwaysLInv, PTL

(* Locks, flags and the places of the tasks keep their types, and a task   *)
(* only ever holds the mutexes that install_locks() made the database's.   *)
THEOREM LifecycleTypes == Spec => []TypeOK
<1>1. LInv => TypeOK
  BY DEF LInv
<1>. QED
  BY <1>1, AlwaysLInv, PTL

=============================================================================
