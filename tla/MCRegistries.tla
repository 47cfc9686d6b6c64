---------------------------- MODULE MCRegistries ----------------------------
(***************************************************************************)
(* The small tables of src/src and the calls that change them, each with   *)
(* its own clients: breakpoints, life cycle, call sites, Thumb heads,      *)
(* instrumentation, slot guard and event bus.  They share no variable, so  *)
(* a behaviour moves one of them, the one machine names.                   *)
(***************************************************************************)
EXTENDS Breakpoint, ThumbCalls, TLC

CONSTANTS a1, a2, a3, s1, s2, v1, v2, NoAddr

\* Two addresses of breakpoints, each on a page of its own; three to instrument.
TwoAddr == {a1, a2}
TwoPages == (a1 :> 1) @@ (a2 :> 2)
ThreeAddr == TwoAddr \cup {a3}

VARIABLES
  machine,
  l_g_init, l_pltStarted, l_waiterStarted, l_monitorStarted, l_guardStarted, l_plt, l_waiter,
  l_guard, l_guardMutex, l_linkerHooked, l_pc, l_depth, l_base, l_requested, l_subs, l_inits,
  l_overflow,
  c_code, c_sites, c_rwx, c_last, c_calls,
  h_fn, h_tramp, h_head, h_phase, h_copy, h_back, h_entry,
  i_instr, i_count, i_hooked, i_reserved, i_handles, i_calls,
  g_cell, g_mapped, g_guards, g_worker, g_index, g_r, g_writes,
  e_stack, e_subs, e_count, e_mutex, e_cb, e_opens, e_nsubs, e_missed

lifeVars == <<l_g_init, l_pltStarted, l_waiterStarted, l_monitorStarted, l_guardStarted, l_plt,
  l_waiter, l_guard, l_guardMutex, l_linkerHooked, l_pc, l_depth, l_base, l_requested, l_subs,
  l_inits, l_overflow>>
siteVars == <<c_code, c_sites, c_rwx, c_last, c_calls>>
headVars == <<h_fn, h_tramp, h_head, h_phase, h_copy, h_back, h_entry>>
instrumentVars == <<i_instr, i_count, i_hooked, i_reserved, i_handles, i_calls>>
guardVars == <<g_cell, g_mapped, g_guards, g_worker, g_index, g_r, g_writes>>
eventVars == <<e_stack, e_subs, e_count, e_mutex, e_cb, e_opens, e_nsubs, e_missed>>

L == INSTANCE Lifecycle WITH
  SymbolExported <- TRUE, DlopenMayFail <- TRUE, Serialized <- FALSE,
  MaxDepth <- 3, MaxInits <- 3, MaxSubs <- 1,
  g_init <- l_g_init, pltStarted <- l_pltStarted, waiterStarted <- l_waiterStarted,
  monitorStarted <- l_monitorStarted, guardStarted <- l_guardStarted, plt <- l_plt,
  waiter <- l_waiter, guard <- l_guard, guardMutex <- l_guardMutex,
  linkerHooked <- l_linkerHooked, pc <- l_pc, depth <- l_depth, base <- l_base,
  requested <- l_requested, subs <- l_subs, inits <- l_inits, overflow <- l_overflow

C == INSTANCE CallSite WITH
  Original <- BlxSites, NewCallees <- Nearby, MaxSites <- 2, Rehook <- FALSE, MaxCalls <- 6,
  code <- c_code, g_sites <- c_sites, rwx <- c_rwx, last <- c_last, calls <- c_calls

H == INSTANCE ThumbHead WITH
  Heads <- BlxHeads, Functions <- Fns, Trampolines <- Above, Replace <- 300000,
  fn <- h_fn, tramp <- h_tramp, head <- h_head, phase <- h_phase, copy <- h_copy,
  back <- h_back, entry <- h_entry

I == INSTANCE Instrument WITH
  Addrs <- ThreeAddr, MaxInstr <- 2, MaxCalls <- 5, Serialise <- TRUE, Lifo <- FALSE,
  g_instr <- i_instr, g_instr_count <- i_count, hooked <- i_hooked, reserved <- i_reserved,
  handles <- i_handles, calls <- i_calls

G == INSTANCE GuardSlot WITH
  Slots <- {s1, s2}, Values <- {v1, v2}, MaxGuards <- 2, MaxWrites <- 3, Duplicates <- FALSE,
  MayUnmap <- FALSE, cell <- g_cell, mapped <- g_mapped, worker <- g_worker, index <- g_index,
  r <- g_r, writes <- g_writes

E == INSTANCE EventBus WITH
  MAX_SUBS <- 2, MaxOpens <- 3, MaxSubscribes <- 3, MaxDepth <- 4,
  SubscriberDoes <- {"dlopen", "hook", "subscribe", "on_event"}, EventDoes <- {},
  SubscribesApart <- TRUE,
  stack <- e_stack, g_subs <- e_subs, g_sub_count <- e_count, mutex <- e_mutex,
  g_ev_cb <- e_cb, opens <- e_opens, nsubs <- e_nsubs, missed <- e_missed

Machines == {"breakpoint", "lifecycle", "callsite", "head", "instrument", "guard", "events"}
Idle(m) ==
  /\ m # "head" => <<h_fn, h_tramp, h_head>> = CHOOSE x \in Fns \X Above \X BlxHeads : TRUE
  /\ m # "guard" => g_cell = [s \in {s1, s2} |-> v1]
  /\ m # "events" => e_cb = FALSE

AllInit ==
  /\ machine \in Machines
  /\ Init /\ L!Init /\ C!Init /\ H!Init /\ I!Init /\ G!Init /\ E!Init
  /\ Idle(machine)

all == <<vars, lifeVars, siteVars, headVars, instrumentVars, guardVars, eventVars, machine>>

AllNext ==
  /\ \/ machine = "breakpoint" /\ Next
        /\ UNCHANGED <<lifeVars, siteVars, headVars, instrumentVars, guardVars, eventVars>>
     \/ machine = "lifecycle" /\ L!Next
        /\ UNCHANGED <<vars, siteVars, headVars, instrumentVars, guardVars, eventVars>>
     \/ machine = "callsite" /\ C!Next
        /\ UNCHANGED <<vars, lifeVars, headVars, instrumentVars, guardVars, eventVars>>
     \/ machine = "head" /\ H!Next
        /\ UNCHANGED <<vars, lifeVars, siteVars, instrumentVars, guardVars, eventVars>>
     \/ machine = "instrument" /\ I!Next
        /\ UNCHANGED <<vars, lifeVars, siteVars, headVars, guardVars, eventVars>>
     \/ machine = "guard" /\ G!Next
        /\ UNCHANGED <<vars, lifeVars, siteVars, headVars, instrumentVars, eventVars>>
     \/ machine = "events" /\ E!Next
        /\ UNCHANGED <<vars, lifeVars, siteVars, headVars, instrumentVars, guardVars>>
  /\ UNCHANGED machine

\* Each component's own fairness, in the behaviours that move it.
AllFair ==
  /\ \A t \in Threads : /\ SF_vars(machine = "breakpoint" /\ Handler(t))
                        /\ WF_vars(machine = "breakpoint" /\ Finish(t))
                        /\ WF_eventVars(machine = "events" /\ E!Step(t))
  /\ WF_guardVars(machine = "guard" /\ G!WorkerStep)

AllSpec == AllInit /\ [][AllNext]_all /\ AllFair
----------------------------------------------------------------------------
\* Every component's variables have their types, and no call sequence drives a count of g_bps,
\* g_sites, g_instr, g_guards or g_subs past its array or below zero: nested and interleaved
\* calls at a full table, failed installs, handles released in any order.
AllTypeOK ==
  TypeOK /\ L!TypeOK /\ C!TypeOK /\ H!TypeOK /\ I!TypeOK /\ G!TypeOK /\ E!TypeOK

\* Lifecycle.tla, main.cpp: once g_init is set the three workers exist.
InitMeansStarted == L!InitMeansStarted
\* Lifecycle.tla, guard_slot.cpp: GuardSlot::Start creates one worker, whoever calls it.
OneGuardWorker == L!OneGuardWorker

\* CallSite.tla, callsite.cpp: OrigCallee answers with the callee compiled in.
OrigCalleeIsOriginal == C!OrigCalleeIsOriginal


\* GuardSlot.tla, guard_slot.cpp: the worker writes guarded slots only.
OnlyGuardedWritten == G!OnlyGuardedWritten
\* GuardSlot.tla, guard_slot.cpp: a guarded slot gets its value back for good.
GuardSettles == G!GuardSettles

\* EventBus.tla, linker_monitor.cpp: a load is announced to every subscriber.
LoadNotifiesAll == E!LoadNotifiesAll
\* EventBus.tla, events.cpp: no caller waits for g_ev_mutex for ever.
CallReturns == E!CallReturns
=============================================================================
