--------------------------- MODULE LifecycleProofs ---------------------------
(***************************************************************************)
(* Proofs about Lifecycle, for any number of threads that call DobbyInit,  *)
(* DobbyShutdown and Subscribe without any lock, and for any stack depth.  *)
(***************************************************************************)
EXTENDS Lifecycle, TLAPS

\* What the two theorems need of the types.
LifecycleTypes ==
  /\ {plt, waiter, guard} \subseteq Nat
  /\ pc \in [Threads -> Steps]
  /\ depth \in [Threads -> Int]

\* A started flag says that its worker exists.  g_init is not enough to know
\* it: a thread that is past a Start function relies on the flag that it, or
\* another thread, has set there; a thread in LinkerMonitor::Start has come
\* past the first two only if a DobbyInit is on its stack, and a thread
\* outside the library has none.
FlagsTell ==
  /\ pltStarted => plt >= 1
  /\ waiterStarted => waiter >= 1
  /\ guardStarted => guard >= 1
  /\ g_init => pltStarted /\ waiterStarted /\ guardStarted

PastStart(t) ==
  /\ pc[t] = "idle" => depth[t] = 0
  /\ pc[t] \in {"waiter", "waiterCreate"} => pltStarted
  /\ pc[t] \in {"monitor", "hook"} /\ depth[t] # 0 => pltStarted /\ waiterStarted
  /\ pc[t] \in {"guard", "guardCreate", "set"} => pltStarted /\ waiterStarted
  /\ pc[t] = "set" => guardStarted

StartInv == LifecycleTypes /\ FlagsTell /\ \A t \in Threads : PastStart(t)

\* Every state of Lifecycle satisfies StartInv.
LEMMA StartInvariant == Spec => []StartInv
<1>1. Init => StartInv
  BY DEF Init, StartInv, LifecycleTypes, FlagsTell, PastStart, Steps
<1>2. StartInv /\ [Next]_vars => StartInv'
  <2> SUFFICES ASSUME StartInv, [Next]_vars
               PROVE  StartInv'
    OBVIOUS
  <2> USE DEF StartInv, LifecycleTypes, FlagsTell, PastStart, Steps, flags, workers, calls
  <2>1. CASE UNCHANGED vars
    BY <2>1 DEF vars
  <2>2. ASSUME NEW t \in Threads, Step(t)
        PROVE  StartInv'
    <3> USE DEF At, Goto
    <3>1. CASE Enter(t)
      BY <3>1 DEF Enter, Leave
    <3>2. CASE PltStart(t)
      BY <3>2 DEF PltStart
    <3>3. CASE PltCreate(t)
      BY <3>3 DEF PltCreate
    <3>4. CASE WaiterStart(t)
      BY <3>4 DEF WaiterStart
    <3>5. CASE WaiterCreate(t)
      BY <3>5 DEF WaiterCreate
    <3>6. CASE MonitorStart(t)
      BY <3>6 DEF MonitorStart, AfterMonitor
    <3>7. CASE MonitorHook(t)
      BY <3>7 DEF MonitorHook, AfterMonitor
    <3>8. CASE GuardStart(t)
      BY <3>8 DEF GuardStart
    <3>9. CASE GuardCreate(t)
      BY <3>9 DEF GuardCreate
    <3>10. CASE SetInit(t)
      BY <3>10 DEF SetInit, Leave
    <3> QED
      BY <2>2, <3>1, <3>2, <3>3, <3>4, <3>5, <3>6, <3>7, <3>8, <3>9, <3>10 DEF Step
  <2>3. ASSUME NEW t \in Threads, Shutdown(t)
        PROVE  StartInv'
    BY <2>3 DEF Shutdown
  <2>4. ASSUME NEW t \in Threads, Subscribe(t)
        PROVE  StartInv'
    BY <2>4 DEF Subscribe, At, Goto
  <2>5. ASSUME NEW t \in Threads, NEW b \in BOOLEAN, CallInit(t, b)
        PROVE  StartInv'
    BY <2>5 DEF CallInit, At, Goto
  <2> QED
    BY <2>1, <2>2, <2>3, <2>4, <2>5 DEF Next
<1> QED
  BY <1>1, <1>2, PTL DEF Spec

\* Once a DobbyInit has completed and until DobbyShutdown, the three workers
\* exist (main.cpp sets g_init last), for any number of threads racing through
\* DobbyInit and any nesting of it.
THEOREM InitMeansWorkers == Spec => []InitMeansStarted
<1>1. StartInv => InitMeansStarted
  BY DEF StartInv, FlagsTell, InitMeansStarted
<1> QED
  BY <1>1, StartInvariant, PTL
-----------------------------------------------------------------------------
\* The mutex of GuardSlot::Start: a thread that creates the guard worker holds
\* it, and no worker exists before the flag is set.
GuardInv ==
  /\ guard \in 0..1
  /\ guardStarted = FALSE => guard = 0
  /\ pc \in [Threads -> Steps]
  /\ \A t \in Threads : pc[t] = "guardCreate" => guardMutex = t /\ guardStarted = FALSE

\* There is at most one guard worker (guard_slot.cpp tests and creates under
\* g_guard_mutex), whoever calls DobbyInit and however often.
THEOREM GuardWorkerUnique ==
  ASSUME Free \notin Threads
  PROVE  Spec => []OneGuardWorker
<1>1. Init => GuardInv
  BY DEF Init, GuardInv, Steps
<1>2. GuardInv /\ [Next]_vars => GuardInv'
  <2> SUFFICES ASSUME GuardInv, [Next]_vars
               PROVE  GuardInv'
    OBVIOUS
  <2> USE DEF GuardInv, Steps, flags, workers, calls
  <2>1. CASE UNCHANGED vars
    BY <2>1 DEF vars
  <2>2. ASSUME NEW t \in Threads, Step(t)
        PROVE  GuardInv'
    <3> USE DEF At, Goto
    <3>1. CASE Enter(t)
      BY <3>1 DEF Enter, Leave
    <3>2. CASE PltStart(t) \/ PltCreate(t)
      BY <3>2 DEF PltStart, PltCreate
    <3>3. CASE WaiterStart(t) \/ WaiterCreate(t)
      BY <3>3 DEF WaiterStart, WaiterCreate
    <3>4. CASE MonitorStart(t) \/ MonitorHook(t)
      BY <3>4 DEF MonitorStart, MonitorHook, AfterMonitor
    <3>5. CASE GuardStart(t)
      \* Nobody else is at guardCreate: it would hold the mutex.
      BY <3>5, Free \notin Threads DEF GuardStart
    <3>6. CASE GuardCreate(t)
      <4>1. \A u \in Threads : pc[u] = "guardCreate" => u = t
        BY <3>6 DEF GuardCreate
      <4> QED
        BY <3>6, <4>1 DEF GuardCreate
    <3>7. CASE SetInit(t)
      BY <3>7 DEF SetInit, Leave
    <3> QED
      BY <2>2, <3>1, <3>2, <3>3, <3>4, <3>5, <3>6, <3>7 DEF Step
  <2>3. ASSUME NEW t \in Threads, Shutdown(t) \/ Subscribe(t)
        PROVE  GuardInv'
    BY <2>3 DEF Shutdown, Subscribe, At, Goto
  <2>4. ASSUME NEW t \in Threads, NEW b \in BOOLEAN, CallInit(t, b)
        PROVE  GuardInv'
    BY <2>4 DEF CallInit, At, Goto
  <2> QED
    BY <2>1, <2>2, <2>3, <2>4 DEF Next
<1>3. GuardInv => OneGuardWorker
  BY DEF GuardInv, OneGuardWorker
<1> QED
  BY <1>1, <1>2, <1>3, PTL DEF Spec
=============================================================================
