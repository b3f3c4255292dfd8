------------------------------ MODULE Lifecycle ------------------------------
(***************************************************************************)
(* The two mutexes of on9kvdb and the calls that take them: init(),        *)
(* deinit(), and every other entry point, which runs between               *)
(* acquire_operation_lock() and release_operation_lock().  Any number of   *)
(* tasks call at any time, the very first init() calls included, which     *)
(* create the mutexes.                                                     *)
(*                                                                         *)
(* A step is what a task does up to the next point where another task can  *)
(* interfere: a critical section, an allocation, a mutex taken or given.   *)
(***************************************************************************)
EXTENDS Integers, FiniteSets

CONSTANTS
    Tasks,   \* the tasks of the application
    None     \* a null pointer, and nobody

ASSUME NoneAssumption == None \notin Tasks

VARIABLES
    lifecycle,    \* lifecycle_lock: the mutex made by that task, or None
    operation,    \* operation_lock
    holder,       \* who holds the mutex of each kind made by each task
    initialized,
    shutting_down,
    faulted,      \* storage_faulted
    arena,        \* whether the runtime memory is allocated
    pc,           \* where each task is
    call          \* what it called

vars == <<lifecycle, operation, holder, initialized, shutting_down, faulted,
          arena, pc, call>>

Kinds == {"lifecycle", "operation"}
Calls == {"init", "deinit", "operation", "diagnostic"}

Init ==
    /\ lifecycle = None
    /\ operation = None
    /\ holder = [k \in Kinds |-> [t \in Tasks |-> None]]
    /\ initialized = FALSE
    /\ shutting_down = FALSE
    /\ faulted = FALSE
    /\ arena = FALSE
    /\ pc = [t \in Tasks |-> "idle"]
    /\ call = [t \in Tasks |-> None]

Go(t, place) == pc' = [pc EXCEPT ![t] = place]

Return(t) == Go(t, "idle") /\ call' = [call EXCEPT ![t] = None]

\* xSemaphoreTake(..., portMAX_DELAY) and xSemaphoreGive()
Take(t, kind, mutex) ==
    /\ holder[kind][mutex] = None
    /\ holder' = [holder EXCEPT ![kind][mutex] = t]

Given(kind, mutex, h) == [h EXCEPT ![kind][mutex] = None]

GiveLifecycle == holder' = Given("lifecycle", lifecycle, holder)
GiveOperation == holder' = Given("operation", operation, holder)
GiveBoth ==
    holder' = Given("lifecycle", lifecycle, Given("operation", operation, holder))

-----------------------------------------------------------------------------
\* A task makes a call.  Without a lifecycle lock the database was never
\* initialized: deinit() has nothing to do, other calls are refused.
Enter(t) ==
    /\ pc[t] = "idle"
    /\ \E c \in Calls :
          /\ c = "init" \/ lifecycle # None
          /\ call' = [call EXCEPT ![t] = c]
          /\ Go(t, IF c = "init" THEN "check_locks" ELSE "take_lifecycle")
    /\ UNCHANGED <<lifecycle, operation, holder, initialized, shutting_down, faulted, arena>>

(* create_locks() *)

CheckLocks(t) ==
    /\ pc[t] = "check_locks"
    /\ Go(t, IF lifecycle # None /\ operation # None
             THEN "take_lifecycle" ELSE "install_locks")
    /\ UNCHANGED <<lifecycle, operation, holder, initialized, shutting_down, faulted,
                   arena, call>>

\* A faulty variant of InstallLocks: the pair that is there is replaced.
InstallLocksAlways(t) ==
    /\ pc[t] = "install_locks"
    /\ lifecycle' = t
    /\ operation' = t
    /\ Go(t, "take_lifecycle")
    /\ UNCHANGED <<holder, initialized, shutting_down, faulted, arena, call>>

\* The task made its own pair; the critical section installs it unless
\* another task's pair is there, and the pair that lost is deleted.
InstallLocks(t) ==
    /\ pc[t] = "install_locks"
    /\ lifecycle' = IF lifecycle = None THEN t ELSE lifecycle
    /\ operation' = IF operation = None THEN t ELSE operation
    /\ Go(t, "take_lifecycle")
    /\ UNCHANGED <<holder, initialized, shutting_down, faulted, arena, call>>

\* A faulty variant of NoMemoryForLocks: the allocation is tried again.
NoMemoryRetries(t) ==
    /\ pc[t] = "install_locks"
    /\ Go(t, "check_locks")
    /\ UNCHANGED <<lifecycle, operation, holder, initialized, shutting_down, faulted,
                   arena, call>>

NoMemoryForLocks(t) ==
    /\ pc[t] = "install_locks"
    /\ Return(t)
    /\ UNCHANGED <<lifecycle, operation, holder, initialized, shutting_down, faulted, arena>>

TakeLifecycle(t) ==
    /\ pc[t] = "take_lifecycle"
    /\ Take(t, "lifecycle", lifecycle)
    /\ Go(t, call[t])
    /\ UNCHANGED <<lifecycle, operation, initialized, shutting_down, faulted, arena, call>>

(* init() with the lifecycle lock *)

InitRefused(t) ==
    /\ pc[t] = "init"
    /\ initialized \/ shutting_down
    /\ GiveLifecycle
    /\ Return(t)
    /\ UNCHANGED <<lifecycle, operation, initialized, shutting_down, faulted, arena>>

\* allocate_runtime_memory(); storage is then opened or provisioned.
InitAllocates(t) ==
    /\ pc[t] = "init"
    /\ ~initialized /\ ~shutting_down
    /\ arena' = TRUE
    /\ Go(t, "initialising")
    /\ UNCHANGED <<lifecycle, operation, holder, initialized, shutting_down, faulted, call>>

\* A failure frees the memory again.
InitEnds(t) ==
    /\ pc[t] = "initialising"
    /\ \E ok \in BOOLEAN :
          /\ initialized' = ok
          /\ arena' = ok
    /\ faulted' = FALSE
    /\ GiveLifecycle
    /\ Return(t)
    /\ UNCHANGED <<lifecycle, operation, shutting_down>>

(* acquire_operation_lock_internal() with the lifecycle lock *)

OperationCall(t) == call[t] \in {"operation", "diagnostic"}

OperationRefused(t) ==
    /\ pc[t] = call[t] /\ OperationCall(t)
    /\ ~initialized \/ shutting_down \/ operation = None
    /\ GiveLifecycle
    /\ Return(t)
    /\ UNCHANGED <<lifecycle, operation, initialized, shutting_down, faulted, arena>>

\* The lifecycle lock is kept while the task waits for the operation lock.
TakeOperation(t) ==
    /\ pc[t] = call[t] /\ OperationCall(t)
    /\ initialized /\ ~shutting_down /\ operation # None
    /\ Take(t, "operation", operation)
    /\ Go(t, "acquired")
    /\ UNCHANGED <<lifecycle, operation, initialized, shutting_down, faulted, arena, call>>

\* A latched storage fault refuses all but diagnostic calls.
FaultRefuses(t) ==
    /\ pc[t] = "acquired"
    /\ faulted /\ call[t] # "diagnostic"
    /\ GiveBoth
    /\ Return(t)
    /\ UNCHANGED <<lifecycle, operation, initialized, shutting_down, faulted, arena>>

LeaveLifecycle(t) ==
    /\ pc[t] = "acquired"
    /\ ~faulted \/ call[t] = "diagnostic"
    /\ GiveLifecycle
    /\ Go(t, "working")
    /\ UNCHANGED <<lifecycle, operation, initialized, shutting_down, faulted, arena, call>>

\* The body of the call, which may latch the fault, and
\* release_operation_lock().
OperationEnds(t) ==
    /\ pc[t] = "working"
    /\ faulted' \in IF call[t] = "operation" THEN {faulted, TRUE} ELSE {faulted}
    /\ GiveOperation
    /\ Return(t)
    /\ UNCHANGED <<lifecycle, operation, initialized, shutting_down, arena>>

(* deinit() with the lifecycle lock *)

DeinitIdle(t) ==
    /\ pc[t] = "deinit"
    /\ ~initialized
    /\ GiveLifecycle
    /\ Return(t)
    /\ UNCHANGED <<lifecycle, operation, initialized, shutting_down, faulted, arena>>

ShutDown(t) ==
    /\ pc[t] = "deinit"
    /\ initialized
    /\ shutting_down' = TRUE
    /\ Go(t, "drain")
    /\ UNCHANGED <<lifecycle, operation, holder, initialized, faulted, arena, call>>

\* A faulty variant of Drain: it does not wait.
DrainAtOnce(t) ==
    /\ pc[t] = "drain"
    /\ Go(t, "drained")
    /\ UNCHANGED <<lifecycle, operation, holder, initialized, shutting_down, faulted,
                   arena, call>>

\* The operation in progress is waited for.
Drain(t) ==
    /\ pc[t] = "drain"
    /\ Take(t, "operation", operation)
    /\ Go(t, "drained")
    /\ UNCHANGED <<lifecycle, operation, initialized, shutting_down, faulted, arena, call>>

\* Open resources refuse a deinit() that is not forced; the rest closes
\* storage and frees the memory, all before the locks are given back.
DeinitRefused(t) ==
    /\ pc[t] = "drained"
    /\ shutting_down' = FALSE
    /\ GiveBoth
    /\ Return(t)
    /\ UNCHANGED <<lifecycle, operation, initialized, faulted, arena>>

DeinitEnds(t) ==
    /\ pc[t] = "drained"
    /\ initialized' = FALSE
    /\ arena' = FALSE
    /\ faulted' = FALSE
    /\ shutting_down' = FALSE
    /\ GiveBoth
    /\ Return(t)
    /\ UNCHANGED <<lifecycle, operation>>

\* A call that has begun.
Step(t) ==
    \/ CheckLocks(t) \/ InstallLocks(t) \/ NoMemoryForLocks(t) \/ TakeLifecycle(t)
    \/ InitRefused(t) \/ InitAllocates(t) \/ InitEnds(t)
    \/ OperationRefused(t) \/ TakeOperation(t) \/ FaultRefuses(t)
    \/ LeaveLifecycle(t) \/ OperationEnds(t)
    \/ DeinitIdle(t) \/ ShutDown(t) \/ Drain(t) \/ DeinitRefused(t) \/ DeinitEnds(t)

Next == \E t \in Tasks : Enter(t) \/ Step(t)

Spec == Init /\ [][Next]_vars

\* A task that can run is run, and a mutex that is given back again and again
\* is eventually taken by each task waiting for it: FreeRTOS wakes the
\* waiting tasks of one priority in the order in which they came.
Fairness == \A t \in Tasks : SF_vars(Step(t))

FairSpec == Spec /\ Fairness

-----------------------------------------------------------------------------
Places == {"idle", "check_locks", "install_locks", "take_lifecycle", "init",
           "initialising", "operation", "diagnostic", "acquired", "working",
           "deinit", "drain", "drained"}

(* Locks, flags and the places of the tasks have their types, and only the *)
(* mutexes that are installed are ever held.                               *)
TypeOK ==
    /\ lifecycle \in Tasks \cup {None}
    /\ operation \in Tasks \cup {None}
    /\ holder \in [Kinds -> [Tasks -> Tasks \cup {None}]]
    /\ \A m \in Tasks : /\ holder["lifecycle"][m] # None => m = lifecycle
                        /\ holder["operation"][m] # None => m = operation
    /\ initialized \in BOOLEAN /\ shutting_down \in BOOLEAN
    /\ faulted \in BOOLEAN /\ arena \in BOOLEAN
    /\ pc \in [Tasks -> Places]
    /\ call \in [Tasks -> Calls \cup {None}]

\* The places where a task works on the database object's state.
UsesRuntime(t) == pc[t] \in {"initialising", "acquired", "working", "drained"}

(* The database is used by one task at a time: init(), an operation and    *)
(* the end of deinit() exclude one another, whichever task's mutexes came  *)
(* to be installed by concurrent first init() calls.                       *)
Exclusive ==
    \A t, u \in Tasks : UsesRuntime(t) /\ UsesRuntime(u) => t = u

(* No operation works on memory that deinit() or a failed init() freed.    *)
NoUseAfterFree ==
    \A t \in Tasks : UsesRuntime(t) => arena

(* Every call returns, in spite of a task that holds the lifecycle lock    *)
(* while it waits for the operation lock.                                  *)
CallsReturn == \A t \in Tasks : pc[t] # "idle" ~> pc[t] = "idle"
=============================================================================
