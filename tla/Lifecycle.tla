----------------------------- MODULE Lifecycle -----------------------------
(***************************************************************************)
(* DobbyInit and DobbyShutdown (src/src/main.cpp) called by several        *)
(* threads, with the four Start functions it runs: the PLT worker, the     *)
(* wait worker, the linker monitor and the guard worker.  LinkerMonitor::  *)
(* Start hooks through DobbyHook, which calls DobbyInit again while g_init *)
(* is still false; depth counts the frames of DobbyInit on a stack.        *)
(* LinkerMonitor::Subscribe (src/src/linker_monitor.cpp) calls Start too.  *)
(***************************************************************************)
EXTENDS Integers

CONSTANTS
  Threads,
  SymbolExported,  \* dlsym finds android_dlopen_ext
  DlopenMayFail,   \* dlopen("libc.so") may return null
  Serialized,      \* TRUE: one thread at a time is inside the API
  MaxDepth,        \* frames of DobbyInit a stack has room for
  MaxInits,        \* bound on the calls of DobbyInit
  MaxSubs          \* capacity of g_subs (16 in the code)

VARIABLES
  g_init,
  pltStarted, waiterStarted, monitorStarted, guardStarted,   \* started flags
  plt, waiter, guard,   \* threads created of each kind
  guardMutex,           \* holder of g_guard_mutex, or Free
  linkerHooked,         \* android_dlopen_ext is hooked
  pc, depth,            \* per thread: step, frames of DobbyInit
  base,                 \* per thread: the call the client made
  requested,            \* a client asked for the linker to be hooked
  subs,                 \* entries of g_subs
  inits, overflow

flags == <<pltStarted, waiterStarted, monitorStarted, guardStarted>>
workers == <<plt, waiter, guard>>
calls == <<base, requested, subs, inits>>
vars == <<g_init, flags, workers, guardMutex, linkerHooked, pc, depth, calls, overflow>>

Free == "free"
Steps == {"idle", "enter", "plt", "pltCreate", "waiter", "waiterCreate", "monitor",
          "hook", "guard", "guardCreate", "set"}

Init ==
  /\ g_init = FALSE
  /\ pltStarted = FALSE /\ waiterStarted = FALSE
  /\ monitorStarted = FALSE /\ guardStarted = FALSE
  /\ plt = 0 /\ waiter = 0 /\ guard = 0
  /\ guardMutex = Free
  /\ linkerHooked = FALSE
  /\ pc = [t \in Threads |-> "idle"]
  /\ depth = [t \in Threads |-> 0]
  /\ base = [t \in Threads |-> "init"]
  /\ requested = FALSE
  /\ subs = 0
  /\ inits = 0
  /\ overflow = FALSE

At(t, step) == ~overflow /\ pc[t] = step
Goto(t, step) == pc' = [pc EXCEPT ![t] = step]
MayEnter == Serialized => \A t \in Threads : pc[t] = "idle"

\* A client calls DobbyInit(is_init_linker).
CallInit(t, isInitLinker) ==
  /\ At(t, "idle") /\ MayEnter
  /\ inits < MaxInits
  /\ inits' = inits + 1
  /\ depth' = [depth EXCEPT ![t] = 1]
  /\ base' = [base EXCEPT ![t] = "init"]
  /\ requested' = (requested \/ isInitLinker)
  /\ Goto(t, "enter")
  /\ UNCHANGED <<g_init, flags, workers, guardMutex, linkerHooked, subs, overflow>>

\* LinkerMonitor::Subscribe: an entry of g_subs, then Start.
Subscribe(t) ==
  /\ At(t, "idle") /\ MayEnter
  /\ subs < MaxSubs
  /\ subs' = subs + 1
  /\ base' = [base EXCEPT ![t] = "subscribe"]
  /\ requested' = TRUE
  /\ Goto(t, "monitor")
  /\ UNCHANGED <<g_init, flags, workers, guardMutex, linkerHooked, depth, inits, overflow>>

\* DobbyShutdown resets the flag and nothing else.
Shutdown(t) ==
  /\ At(t, "idle") /\ MayEnter
  /\ g_init' = FALSE
  /\ UNCHANGED <<flags, workers, guardMutex, linkerHooked, pc, depth, calls, overflow>>

\* DobbyInit returns: to the client, or into the DobbyHook that called it.
Leave(t) ==
  /\ depth' = [depth EXCEPT ![t] = depth[t] - 1]
  /\ Goto(t, IF depth[t] = 1 /\ base[t] = "init" THEN "idle" ELSE "hook")

EnterSetsInit(t) ==
  /\ At(t, "enter")
  /\ \/ g_init /\ Leave(t) /\ UNCHANGED g_init
     \/ ~g_init /\ g_init' = TRUE /\ Goto(t, "plt") /\ UNCHANGED depth
  /\ UNCHANGED <<flags, workers, guardMutex, linkerHooked, calls, overflow>>

\* if (g_init) return.
Enter(t) ==
  /\ At(t, "enter")
  /\ \/ g_init /\ Leave(t)
     \/ ~g_init /\ Goto(t, "plt") /\ UNCHANGED depth
  /\ UNCHANGED <<g_init, flags, workers, guardMutex, linkerHooked, calls, overflow>>

\* PltHooker::Start: the flag is tested, the thread created, the flag set.
PltStart(t) ==
  /\ At(t, "plt")
  /\ Goto(t, IF pltStarted THEN "waiter" ELSE "pltCreate")
  /\ UNCHANGED <<g_init, flags, workers, guardMutex, linkerHooked, depth, calls, overflow>>

PltCreate(t) ==
  /\ At(t, "pltCreate")
  /\ plt' = plt + 1
  /\ pltStarted' = TRUE
  /\ Goto(t, "waiter")
  /\ UNCHANGED <<g_init, waiterStarted, monitorStarted, guardStarted, waiter, guard,
                 guardMutex, linkerHooked, depth, calls, overflow>>

\* Waiter::Start, ensure_worker: the same, without a lock.
WaiterStart(t) ==
  /\ At(t, "waiter")
  /\ Goto(t, IF waiterStarted THEN "monitor" ELSE "waiterCreate")
  /\ UNCHANGED <<g_init, flags, workers, guardMutex, linkerHooked, depth, calls, overflow>>

WaiterCreate(t) ==
  /\ At(t, "waiterCreate")
  /\ waiter' = waiter + 1
  /\ waiterStarted' = TRUE
  /\ Goto(t, "monitor")
  /\ UNCHANGED <<g_init, pltStarted, monitorStarted, guardStarted, plt, guard,
                 guardMutex, linkerHooked, depth, calls, overflow>>

\* LinkerMonitor::Start returns: to Subscribe, or to DobbyInit.
AfterMonitor(t) == Goto(t, IF depth[t] = 0 THEN "idle" ELSE "guard")

\* LinkerMonitor::Start up to DobbyHook, which enters DobbyInit again unless
\* g_init is set.  is_init_linker is not looked at.
MonitorStart(t) ==
  /\ At(t, "monitor")
  /\ \/ /\ monitorStarted \/ ~SymbolExported \/ DlopenMayFail
        /\ AfterMonitor(t) /\ UNCHANGED <<depth, overflow>>
     \/ /\ ~monitorStarted /\ SymbolExported
        /\ \/ g_init /\ Goto(t, "hook") /\ UNCHANGED <<depth, overflow>>
           \/ /\ ~g_init /\ depth[t] < MaxDepth
              /\ depth' = [depth EXCEPT ![t] = depth[t] + 1]
              /\ Goto(t, "enter") /\ UNCHANGED overflow
           \/ /\ ~g_init /\ depth[t] = MaxDepth
              /\ overflow' = TRUE /\ UNCHANGED <<pc, depth>>
  /\ UNCHANGED <<g_init, flags, workers, guardMutex, linkerHooked, calls>>

\* Hooker::Hook on android_dlopen_ext: ALREADY the second time.
MonitorHook(t) ==
  /\ At(t, "hook")
  /\ linkerHooked' = TRUE
  /\ monitorStarted' = (monitorStarted \/ ~linkerHooked)
  /\ AfterMonitor(t)
  /\ UNCHANGED <<g_init, pltStarted, waiterStarted, guardStarted, workers, guardMutex,
                 depth, calls, overflow>>

\* GuardSlot::Start: the same test and creation, under g_guard_mutex.
GuardStart(t) ==
  /\ At(t, "guard")
  /\ guardMutex = Free
  /\ \/ guardStarted /\ Goto(t, "set") /\ UNCHANGED guardMutex
     \/ ~guardStarted /\ Goto(t, "guardCreate") /\ guardMutex' = t
  /\ UNCHANGED <<g_init, flags, workers, linkerHooked, depth, calls, overflow>>

GuardCreate(t) ==
  /\ At(t, "guardCreate")
  /\ guard' = guard + 1
  /\ guardStarted' = TRUE
  /\ guardMutex' = Free
  /\ Goto(t, "set")
  /\ UNCHANGED <<g_init, pltStarted, waiterStarted, monitorStarted, plt, waiter,
                 linkerHooked, depth, calls, overflow>>

\* g_init = true; return.
SetInit(t) ==
  /\ At(t, "set")
  /\ g_init' = TRUE
  /\ Leave(t)
  /\ UNCHANGED <<flags, workers, guardMutex, linkerHooked, calls, overflow>>

Step(t) ==
  \/ Enter(t) \/ PltStart(t) \/ PltCreate(t) \/ WaiterStart(t) \/ WaiterCreate(t)
  \/ MonitorStart(t) \/ MonitorHook(t) \/ GuardStart(t) \/ GuardCreate(t) \/ SetInit(t)

Next ==
  \E t \in Threads : Step(t) \/ Shutdown(t) \/ Subscribe(t) \/ \E b \in BOOLEAN : CallInit(t, b)

Spec == Init /\ [][Next]_vars

\* A thread inside DobbyInit keeps running.
FairSpec == Spec /\ \A t \in Threads : WF_vars(Step(t))
-----------------------------------------------------------------------------
\* Every variable has its type; g_subs stays within its array.
TypeOK ==
  /\ {g_init, pltStarted, waiterStarted, monitorStarted, guardStarted,
      linkerHooked, requested, overflow} \subseteq BOOLEAN
  /\ {plt, waiter, guard} \subseteq Nat
  /\ guardMutex \in Threads \cup {Free}
  /\ pc \in [Threads -> Steps]
  /\ depth \in [Threads -> 0..MaxDepth]
  /\ base \in [Threads -> {"init", "subscribe"}]
  /\ subs \in 0..MaxSubs /\ inits \in 0..MaxInits

\* Once a DobbyInit has completed and until DobbyShutdown, all three worker
\* threads exist, whatever other threads and nested calls are still on their
\* way through DobbyInit: g_init is the last thing it sets.
InitMeansStarted == g_init => plt >= 1 /\ waiter >= 1 /\ guard >= 1

\* However many threads race through DobbyInit, and however often it runs
\* again after DobbyShutdown, there is one guard worker: the test and the
\* creation in GuardSlot::Start are under g_guard_mutex.
OneGuardWorker == guard <= 1

\* A call of DobbyInit or Subscribe returns to its client.  (android_api.cpp
\* line 81 relies on DobbyInit being callable at any time.)
InitReturns == \A t \in Threads : pc[t] # "idle" ~> pc[t] = "idle"

\* dobby.h line 80: the linker is hooked too if is_init_linker is true, so
\* LinkerMonitor::Start runs only when a client asked for it.
MonitorOnRequest == \A t \in Threads : pc[t] = "monitor" => requested
=============================================================================
