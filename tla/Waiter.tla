------------------------------- MODULE Waiter -------------------------------
(***************************************************************************)
(* The wait-hook queue (src/src/waiter.cpp): clients submit and cancel     *)
(* requests to hook a symbol of a library that need not be loaded yet; the *)
(* wait_worker thread scans the queue under g_tasks_mutex, which it keeps  *)
(* while it sleeps.  Libraries are loaded and unloaded, and time passes,   *)
(* at any moment.                                                          *)
(***************************************************************************)
EXTENDS Integers, Sequences

CONSTANTS
  Clients,     \* application threads
  Workers,     \* wait_worker threads (ensure_worker may start more than one)
  Libs, Syms,  \* library and symbol names
  Timeouts,    \* timeout_ms values, 0 = wait for ever
  MaxTasks,    \* bound: requests submitted in a behaviour
  MaxTime,     \* bound: the largest clock value
  TimeRange,   \* bound: now - start is computed modulo this (2^64 in the code)
  NoOwner      \* the mutex is free

ASSUME WaiterAssumption ==
  /\ Clients \cap Workers = {}
  /\ NoOwner \notin Clients \cup Workers
  /\ Timeouts \subseteq Nat
  /\ MaxTasks \in Nat /\ MaxTime \in Nat /\ TimeRange \in Nat
  /\ MaxTime < TimeRange
  /\ \A n \in Timeouts : n < TimeRange

VARIABLES
  clock,      \* CLOCK_MONOTONIC in units of the timeouts
  loaded,     \* libraries Symbols::Find and Base can resolve in
  hooked,     \* targets that have an inline hook
  g_tasks,    \* the queue, a sequence of WaitTask
  mutex,      \* the owner of g_tasks_mutex
  pc,         \* where each thread is
  arg,        \* each client's parameters
  it,         \* each worker's position in g_tasks
  now,        \* each worker's sample of the clock
  submitted,  \* number of requests so far; ids are 1..submitted
  report,     \* the statuses each request's callback received
  hookRes     \* what Hooker::Hook returned for each request

vars == <<clock, loaded, hooked, g_tasks, mutex, pc, arg, it, now,
          submitted, report, hookRes>>

Ids     == 1..MaxTasks
Threads == Clients \cup Workers
Target  == [lib : Libs, sym : Syms]
Task    == [id : Ids, target : Target, timeout : Timeouts, start : 0..MaxTime]
Status  == {"INSTALLED", "TIMEOUT", "CANCELLED"}
AnySym  == "any symbol"   \* DobbyWaitCancel's null symbol

QueuedIds == {g_tasks[i].id : i \in 1..Len(g_tasks)}

EraseNothing(q, i) == q

\* std::vector::erase.
EraseAt(q, i) == SubSeq(q, 1, i - 1) \o SubSeq(q, i + 1, Len(q))

\* A callback call.
Report(id, status) == report' = [report EXCEPT ![id] = Append(@, status)]
-----------------------------------------------------------------------------
\* Hooker::Hook as Waiter uses it: it may fail, refuses a hooked target and
\* otherwise hooks it.  try_install ignores the result.
Hook(id, tg) ==
  \/ /\ tg \in hooked
     /\ hookRes' = [hookRes EXCEPT ![id] = "ALREADY"]
     /\ UNCHANGED hooked
  \/ /\ tg \notin hooked
     /\ hookRes' = [hookRes EXCEPT ![id] = "OK"]
     /\ hooked' = hooked \cup {tg}
  \/ /\ tg \notin hooked
     /\ hookRes' = [hookRes EXCEPT ![id] = "FAILED"]
     /\ UNCHANGED hooked

\* try_install once the symbol is found: hook, event, callback.
TryInstall(id, tg) ==
  /\ tg.lib \in loaded
  /\ Hook(id, tg)
  /\ Report(id, "INSTALLED")

ExpiredOffByOne(task, t) ==
  /\ task.timeout # 0
  /\ (t - task.start) % TimeRange >= task.timeout

\* now - it->start_ms > it->timeout_ms in uint64_t.
Expired(task, t) ==
  /\ task.timeout # 0
  /\ (t - task.start) % TimeRange > task.timeout

Init ==
  /\ clock = 0
  /\ loaded \in SUBSET Libs
  /\ hooked = {}
  /\ g_tasks = <<>>
  /\ mutex = NoOwner
  /\ pc = [t \in Threads |-> "idle"]
  /\ arg = [c \in Clients |-> <<>>]
  /\ it = [w \in Workers |-> 1]
  /\ now = [w \in Workers |-> 0]
  /\ submitted = 0
  /\ report = [id \in Ids |-> <<>>]
  /\ hookRes = [id \in Ids |-> "none"]

\* Submit up to the lock: the caller may wait for the mutex.
SubmitCall(c, tg, n) ==
  /\ pc[c] = "idle"
  /\ submitted < MaxTasks
  /\ submitted' = submitted + 1
  /\ arg' = [arg EXCEPT ![c] = [id |-> submitted + 1, target |-> tg, timeout |-> n]]
  /\ pc' = [pc EXCEPT ![c] = "submit"]
  /\ UNCHANGED <<clock, loaded, hooked, g_tasks, mutex, it, now, report, hookRes>>

\* Submit under the lock: installed at once or queued.
SubmitLocked(c) ==
  /\ pc[c] = "submit"
  /\ mutex = NoOwner
  /\ \/ /\ TryInstall(arg[c].id, arg[c].target)
        /\ UNCHANGED g_tasks
     \/ /\ arg[c].target.lib \notin loaded
        /\ g_tasks' = Append(g_tasks, [id |-> arg[c].id, target |-> arg[c].target,
                                       timeout |-> arg[c].timeout, start |-> clock])
        /\ UNCHANGED <<hooked, report, hookRes>>
  /\ pc' = [pc EXCEPT ![c] = "idle"]
  /\ arg' = [arg EXCEPT ![c] = <<>>]
  /\ UNCHANGED <<clock, loaded, mutex, it, now, submitted>>

CancelCall(c, lib, sym) ==
  /\ pc[c] = "idle"
  /\ arg' = [arg EXCEPT ![c] = [lib |-> lib, sym |-> sym]]
  /\ pc' = [pc EXCEPT ![c] = "cancel"]
  /\ UNCHANGED <<clock, loaded, hooked, g_tasks, mutex, it, now, submitted, report, hookRes>>

CancelMatches(c, task) ==
  /\ task.target.lib = arg[c].lib
  /\ arg[c].sym \in {AnySym, task.target.sym}

\* The places of q outside match, in increasing order.
InOrder(q, match) ==
  LET places == (1..Len(q)) \ match
  IN  {p \in UNION {[1..n -> places] : n \in 0..Len(q)} :
         /\ \A i, j \in DOMAIN p : i < j => p[i] < p[j]
         /\ \A x \in places : \E k \in DOMAIN p : p[k] = x}

\* Cancel under the lock: every match is reported and erased, the other tasks
\* keep their order.
CancelLocked(c) ==
  LET match == {i \in 1..Len(g_tasks) : CancelMatches(c, g_tasks[i])}
      gone  == {g_tasks[i].id : i \in match}
  IN  /\ pc[c] = "cancel"
      /\ mutex = NoOwner
      /\ report' = [id \in Ids |-> IF id \in gone THEN Append(report[id], "CANCELLED")
                                                  ELSE report[id]]
      /\ \E place \in InOrder(g_tasks, match) :
           g_tasks' = [k \in DOMAIN place |-> g_tasks[place[k]]]
      /\ pc' = [pc EXCEPT ![c] = "idle"]
      /\ arg' = [arg EXCEPT ![c] = <<>>]
      /\ UNCHANGED <<clock, loaded, hooked, mutex, it, now, submitted, hookRes>>

\* worker_main: the lock_guard at the top of the loop.
WorkerLock(w) ==
  /\ pc[w] = "idle"
  /\ mutex = NoOwner
  /\ mutex' = w
  /\ pc' = [pc EXCEPT ![w] = "locked"]
  /\ UNCHANGED <<clock, loaded, hooked, g_tasks, arg, it, now, submitted, report, hookRes>>

\* now = now_ms(); it = g_tasks.begin().
WorkerBegin(w) ==
  /\ pc[w] = "locked"
  /\ now' = [now EXCEPT ![w] = clock]
  /\ it' = [it EXCEPT ![w] = 1]
  /\ pc' = [pc EXCEPT ![w] = "scan"]
  /\ UNCHANGED <<clock, loaded, hooked, g_tasks, mutex, arg, submitted, report, hookRes>>

AtTask(w) == pc[w] = "scan" /\ it[w] <= Len(g_tasks)

\* The timeout branch: callback and erase.
WorkerTimeout(w) ==
  /\ AtTask(w)
  /\ Expired(g_tasks[it[w]], now[w])
  /\ Report(g_tasks[it[w]].id, "TIMEOUT")
  /\ g_tasks' = EraseAt(g_tasks, it[w])
  /\ UNCHANGED <<clock, loaded, hooked, mutex, pc, arg, it, now, submitted, hookRes>>

\* try_install succeeds: the task is done and erased.
WorkerInstall(w) ==
  /\ AtTask(w)
  /\ ~Expired(g_tasks[it[w]], now[w])
  /\ TryInstall(g_tasks[it[w]].id, g_tasks[it[w]].target)
  /\ g_tasks' = EraseAt(g_tasks, it[w])
  /\ UNCHANGED <<clock, loaded, mutex, pc, arg, it, now, submitted>>

WorkerSkipStays(w) ==
  /\ AtTask(w)
  /\ ~Expired(g_tasks[it[w]], now[w])
  /\ g_tasks[it[w]].target.lib \notin loaded
  /\ UNCHANGED vars

\* try_install finds no symbol: the task stays.
WorkerSkip(w) ==
  /\ AtTask(w)
  /\ ~Expired(g_tasks[it[w]], now[w])
  /\ g_tasks[it[w]].target.lib \notin loaded
  /\ it' = [it EXCEPT ![w] = @ + 1]
  /\ UNCHANGED <<clock, loaded, hooked, g_tasks, mutex, pc, arg, now, submitted, report, hookRes>>

\* End of the scan: usleep, still inside the lock_guard's scope.
WorkerSleep(w) ==
  /\ pc[w] = "scan" /\ it[w] > Len(g_tasks)
  /\ pc' = [pc EXCEPT ![w] = "asleep"]
  /\ UNCHANGED <<clock, loaded, hooked, g_tasks, mutex, arg, it, now, submitted, report, hookRes>>

WorkerWakeKeepsLock(w) ==
  /\ pc[w] = "asleep"
  /\ pc' = [pc EXCEPT ![w] = "idle"]
  /\ it' = [it EXCEPT ![w] = 1]
  /\ now' = [now EXCEPT ![w] = 0]
  /\ UNCHANGED <<clock, loaded, hooked, g_tasks, mutex, arg, submitted, report, hookRes>>

\* usleep returns and the scope of the lock and of now and it ends.
WorkerWake(w) ==
  /\ pc[w] = "asleep"
  /\ mutex' = NoOwner
  /\ pc' = [pc EXCEPT ![w] = "idle"]
  /\ it' = [it EXCEPT ![w] = 1]
  /\ now' = [now EXCEPT ![w] = 0]
  /\ UNCHANGED <<clock, loaded, hooked, g_tasks, arg, submitted, report, hookRes>>

WorkerStep(w) ==
  \/ WorkerLock(w) \/ WorkerBegin(w) \/ WorkerTimeout(w) \/ WorkerInstall(w)
  \/ WorkerSkip(w) \/ WorkerSleep(w) \/ WorkerWake(w)

\* The environment: time passes, the application loads and unloads libraries.
Tick ==
  /\ clock < MaxTime
  /\ clock' = clock + 1
  /\ UNCHANGED <<loaded, hooked, g_tasks, mutex, pc, arg, it, now, submitted, report, hookRes>>

Load(lib) ==
  /\ lib \notin loaded
  /\ loaded' = loaded \cup {lib}
  /\ UNCHANGED <<clock, hooked, g_tasks, mutex, pc, arg, it, now, submitted, report, hookRes>>

\* dlclose.  Nothing removes the slots of its targets; whether they still
\* match depends on where the library is mapped when it comes back.
Unload(lib) ==
  /\ lib \in loaded
  /\ loaded' = loaded \ {lib}
  /\ hooked' \in {hooked, {tg \in hooked : tg.lib # lib}}
  /\ UNCHANGED <<clock, g_tasks, mutex, pc, arg, it, now, submitted, report, hookRes>>

Next ==
  \/ \E c \in Clients :
       \/ \E tg \in Target, n \in Timeouts : SubmitCall(c, tg, n)
       \/ \E lib \in Libs, sym \in Syms \cup {AnySym} : CancelCall(c, lib, sym)
       \/ SubmitLocked(c) \/ CancelLocked(c)
  \/ \E w \in Workers : WorkerStep(w)
  \/ Tick
  \/ \E lib \in Libs : Load(lib) \/ Unload(lib)

Spec == Init /\ [][Next]_vars

\* The scheduler runs every worker and time passes.  The mutex is not fair: a
\* thread that waits for it is only promised progress if it stays free.
FairSpec ==
  /\ Spec
  /\ \A w \in Workers : WF_vars(WorkerStep(w))
  /\ \A c \in Clients : WF_vars(SubmitLocked(c) \/ CancelLocked(c))
  /\ WF_vars(Tick)
-----------------------------------------------------------------------------
\* Every variable keeps its type.
TypeOK ==
  /\ clock \in 0..MaxTime
  /\ loaded \subseteq Libs
  /\ hooked \subseteq Target
  /\ g_tasks \in Seq(Task)
  /\ mutex \in Workers \cup {NoOwner}
  /\ pc \in [Threads -> {"idle", "submit", "cancel", "locked", "scan", "asleep"}]
  /\ it \in [Workers -> Nat \ {0}]
  /\ now \in [Workers -> 0..MaxTime]
  /\ submitted \in 0..MaxTasks
  /\ report \in [Ids -> Seq(Status)]
  /\ hookRes \in [Ids -> {"none", "OK", "ALREADY", "FAILED"}]

\* A request is never lost and never answered twice: it is still being
\* submitted, or queued once and unanswered, or gone and answered once.
AnsweredOnce ==
  /\ \A i, j \in 1..Len(g_tasks) : g_tasks[i].id = g_tasks[j].id => i = j
  /\ \A id \in 1..submitted :
       \/ /\ \E c \in Clients : pc[c] = "submit" /\ arg[c].id = id
          /\ id \notin QueuedIds /\ report[id] = <<>>
       \/ id \in QueuedIds /\ report[id] = <<>>
       \/ id \notin QueuedIds /\ Len(report[id]) = 1

\* A worker's iterator is never invalidated by another thread: from the lock
\* to the end of the sleep it owns the mutex, and its position lies in the
\* queue or just behind it.
IteratorValid ==
  \A w \in Workers :
    /\ pc[w] # "idle" => mutex = w
    /\ pc[w] = "scan" => it[w] <= Len(g_tasks) + 1

\* The unsigned difference now - start_ms never wraps: the sample is taken
\* under the lock, so it is not older than any queued task.
SampleNotOlder ==
  \A w \in Workers : pc[w] = "scan" =>
    \A i \in 1..Len(g_tasks) : g_tasks[i].start <= now[w]

\* A timeout is only reported for a request that has one and has really
\* waited longer than that since it was queued.
NoEarlyTimeout ==
  [][\A i \in 1..Len(g_tasks) :
       LET task == g_tasks[i]
       IN  report'[task.id] = Append(report[task.id], "TIMEOUT") =>
             task.timeout # 0 /\ clock - task.start > task.timeout]_vars

\* Cancel is exact: it takes every queued request of the library and symbol
\* it names (of the library, if the symbol is null) and nothing else.
CancelIsExact ==
  [][\A c \in Clients : pc[c] = "cancel" /\ pc'[c] = "idle" =>
       \A i \in 1..Len(g_tasks) :
         LET tg == g_tasks[i].target
         IN  (g_tasks[i].id \notin QueuedIds') <=>
               /\ tg.lib = arg[c].lib
               /\ arg[c].sym = AnySym \/ arg[c].sym = tg.sym]_vars

\* What the API can tell of each request.
requestStatus ==
  [id \in Ids |-> IF report[id] # <<>> THEN report[id][Len(report[id])]
                  ELSE IF id \in QueuedIds THEN "PENDING" ELSE "none"]

Request == INSTANCE WaitRequest WITH status <- requestStatus

\* The queue implements the request life cycle of the API: a request is
\* installed at once or becomes pending, and a pending one ends once.
RequestLifeCycle == Request!Spec

\* A queued request with a timeout is answered, whatever happens to its
\* library (requests whose deadline lies beyond the clock bound excepted).
TimeoutFires ==
  \A id \in Ids :
    (\E i \in 1..Len(g_tasks) :
       /\ g_tasks[i].id = id /\ g_tasks[i].timeout # 0
       /\ g_tasks[i].start + g_tasks[i].timeout < MaxTime)
      ~> report[id] # <<>>

\* A queued request whose library stays loaded is answered.
LoadedIsInstalled ==
  \A id \in Ids :
    ~<>[](\E i \in 1..Len(g_tasks) :
            g_tasks[i].id = id /\ g_tasks[i].target.lib \in loaded)

\* waiter.cpp:139: a request for a loaded library is installed immediately, so
\* its Submit call returns.
SubmitReturns ==
  \A c \in Clients : pc[c] = "submit" ~> pc[c] # "submit"

\* waiter.cpp:5: loading a library wakes the worker, so no worker sleeps on
\* over a queued request for it.
LoadWakesWorker ==
  [][\A lib \in loaded' \ loaded, w \in Workers :
       pc'[w] = "asleep" =>
         \A i \in 1..Len(g_tasks) : g_tasks[i].target.lib # lib]_vars

\* dobby.h:107: INSTALLED means the hook was installed.
InstalledMeansHooked ==
  \A id \in Ids : report[id] = <<"INSTALLED">> => hookRes[id] = "OK"
=============================================================================
