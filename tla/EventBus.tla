------------------------------ MODULE EventBus ------------------------------
(***************************************************************************)
(* Load notifications and hook events (src/linker_monitor.cpp and          *)
(* src/events.cpp).  The hooked dlopen calls every subscriber and then     *)
(* EmitEvent, which calls the event callback under g_ev_mutex.  A callback *)
(* is user code on the same stack and may call back into the library.      *)
(* Starting the monitor is modelled in Lifecycle.tla.                      *)
(***************************************************************************)
EXTENDS Integers, Sequences, SequencesExt, FiniteSets

CONSTANTS
  Threads,
  MAX_SUBS,          \* size of g_subs (16 in the code)
  MaxOpens,          \* bound: successful dlopen calls
  MaxSubscribes,     \* bound: calls of Subscribe
  MaxDepth,          \* bound: nested frames of a thread
  SubscriberDoes,    \* what on_load callbacks may do: subset of Reactions
  EventDoes,         \* what the event callback may do
  SubscribesApart    \* BOOLEAN: calls of Subscribe do not overlap each other

Reactions == {"dlopen", "hook", "subscribe", "on_event"}

VARIABLES
  stack,         \* [Threads -> sequence of frames, the innermost last]
  g_subs,        \* [1..MAX_SUBS -> number of the Subscribe call, or NoSub]
  g_sub_count,
  mutex,         \* the thread holding g_ev_mutex, or NoThread
  g_ev_cb,       \* BOOLEAN: an event callback is set
  opens, nsubs,  \* calls so far
  missed         \* subscribers a finished notify should have called and did not

vars == <<stack, g_subs, g_sub_count, mutex, g_ev_cb, opens, nsubs, missed>>

NoSub == 0
NoThread == "nothread"
Frame(kind) == [kind |-> kind, i |-> 0, called |-> {}, due |-> {}]

Top(t) == Last(stack[t])
In(t, kind) == stack[t] # <<>> /\ Top(t).kind = kind
Push(t, f) == [stack EXCEPT ![t] = Append(@, f)]
Pop(t) == [stack EXCEPT ![t] = Front(@)]
Become(t, f) == [stack EXCEPT ![t] = Append(Front(@), f)]

Init ==
  /\ stack = [t \in Threads |-> <<>>]
  /\ g_subs = [i \in 1..MAX_SUBS |-> NoSub]
  /\ g_sub_count = 0
  /\ mutex = NoThread
  /\ g_ev_cb \in BOOLEAN
  /\ opens = 0
  /\ nsubs = 0
  /\ missed = {}

Subscribing ==
  \E u \in Threads : \E i \in DOMAIN stack[u] :
    stack[u][i].kind \in {"subscribe", "count", "publish"}

\* A client calls the library, from its own code or inside a callback.
MayCall(t, what) ==
  IF stack[t] = <<>> THEN what \in Reactions
  ELSE /\ Len(stack[t]) < MaxDepth
       /\ \/ Top(t).kind = "on_load" /\ what \in SubscriberDoes
          \/ Top(t).kind = "event_cb" /\ what \in EventDoes

\* fake_dlopen_ext, after the original dlopen has succeeded.
Registered == {g_subs[i] : i \in 1..g_sub_count} \ {NoSub}
Dlopen(t) ==
  /\ MayCall(t, "dlopen")
  /\ opens < MaxOpens
  /\ opens' = opens + 1
  /\ stack' = Push(t, [Frame("notify") EXCEPT !.i = 1, !.due = Registered])
  /\ UNCHANGED <<g_subs, g_sub_count, mutex, g_ev_cb, nsubs, missed>>

NotifyOneStops(t) ==
  /\ In(t, "notify") /\ Top(t).i <= g_sub_count
  /\ LET s == g_subs[Top(t).i]
         f == [Top(t) EXCEPT !.i = MAX_SUBS + 1, !.called = @ \cup ({s} \ {NoSub})]
     IN stack' = IF s = NoSub THEN Become(t, f)
                 ELSE [stack EXCEPT ![t] = Append(Append(Front(@), f), Frame("on_load"))]
  /\ UNCHANGED <<g_subs, g_sub_count, mutex, g_ev_cb, opens, nsubs, missed>>
\* notify: the loop over g_subs, reading g_sub_count each time.
NotifyOne(t) ==
  /\ In(t, "notify") /\ Top(t).i <= g_sub_count
  /\ LET s == g_subs[Top(t).i]
         f == [Top(t) EXCEPT !.i = @ + 1, !.called = @ \cup ({s} \ {NoSub})]
     IN stack' = IF s = NoSub THEN Become(t, f)
                 ELSE [stack EXCEPT ![t] = Append(Append(Front(@), f), Frame("on_load"))]
  /\ UNCHANGED <<g_subs, g_sub_count, mutex, g_ev_cb, opens, nsubs, missed>>

NotifyDone(t) ==
  /\ In(t, "notify") /\ Top(t).i > g_sub_count
  /\ missed' = missed \cup (Top(t).due \ Top(t).called)
  /\ stack' = Become(t, Frame("emit"))
  /\ UNCHANGED <<g_subs, g_sub_count, mutex, g_ev_cb, opens, nsubs>>

\* Hooker::Hook and others announce what they did.
HookAnnounced(t) ==
  /\ MayCall(t, "hook")
  /\ opens < MaxOpens
  /\ opens' = opens + 1
  /\ stack' = Push(t, Frame("emit"))
  /\ UNCHANGED <<g_subs, g_sub_count, mutex, g_ev_cb, nsubs, missed>>

\* EmitEvent: lock_guard, then the callback, if there is one.
EmitEvent(t) ==
  /\ In(t, "emit")
  /\ mutex = NoThread
  /\ mutex' = t
  /\ stack' = Become(t, Frame(IF g_ev_cb THEN "event_cb" ELSE "unlock"))
  /\ UNCHANGED <<g_subs, g_sub_count, g_ev_cb, opens, nsubs, missed>>

CallbackReturns(t) ==
  /\ \/ In(t, "on_load") /\ stack' = Pop(t)
     \/ In(t, "event_cb") /\ stack' = Become(t, Frame("unlock"))
  /\ UNCHANGED <<g_subs, g_sub_count, mutex, g_ev_cb, opens, nsubs, missed>>

\* The lock_guard's destructor.
Unlock(t) ==
  /\ In(t, "unlock")
  /\ mutex' = NoThread
  /\ stack' = Pop(t)
  /\ UNCHANGED <<g_subs, g_sub_count, g_ev_cb, opens, nsubs, missed>>

\* DobbyOnHookEvent
OnHookEvent(t) ==
  /\ MayCall(t, "on_event")
  /\ opens < MaxOpens
  /\ opens' = opens + 1
  /\ stack' = Push(t, Frame("set_cb"))
  /\ UNCHANGED <<g_subs, g_sub_count, mutex, g_ev_cb, nsubs, missed>>
SetCallback(t) ==
  /\ In(t, "set_cb")
  /\ mutex = NoThread
  /\ g_ev_cb' \in BOOLEAN
  /\ stack' = Pop(t)
  /\ UNCHANGED <<g_subs, g_sub_count, mutex, opens, nsubs, missed>>

\* Subscribe tests the count, reads and increments it, then fills the slot.
Subscribe(t) ==
  /\ MayCall(t, "subscribe")
  /\ SubscribesApart => ~Subscribing
  /\ nsubs < MaxSubscribes
  /\ nsubs' = nsubs + 1
  /\ IF g_sub_count >= MAX_SUBS THEN stack' = stack
     ELSE stack' = Push(t, [Frame("subscribe") EXCEPT !.called = {nsubs + 1}])
  /\ UNCHANGED <<g_subs, g_sub_count, mutex, g_ev_cb, opens, missed>>

ReadCount(t) ==
  /\ In(t, "subscribe")
  /\ stack' = Become(t, [Top(t) EXCEPT !.kind = "count", !.i = g_sub_count + 1])
  /\ UNCHANGED <<g_subs, g_sub_count, mutex, g_ev_cb, opens, nsubs, missed>>

Count(t) ==
  /\ In(t, "count")
  /\ g_sub_count' = Top(t).i
  /\ stack' = Become(t, [Top(t) EXCEPT !.kind = "publish"])
  /\ UNCHANGED <<g_subs, mutex, g_ev_cb, opens, nsubs, missed>>

Publish(t) ==
  /\ In(t, "publish")
  /\ g_subs' = [g_subs EXCEPT ![Top(t).i] = CHOOSE s \in Top(t).called : TRUE]
  /\ stack' = Pop(t)
  /\ UNCHANGED <<g_sub_count, mutex, g_ev_cb, opens, nsubs, missed>>

Step(t) ==
  \/ NotifyOne(t) \/ NotifyDone(t) \/ EmitEvent(t) \/ CallbackReturns(t) \/ Unlock(t)
  \/ SetCallback(t) \/ ReadCount(t) \/ Count(t) \/ Publish(t)
Next == \E t \in Threads : Dlopen(t) \/ HookAnnounced(t) \/ OnHookEvent(t) \/ Subscribe(t) \/ Step(t)

\* A thread inside the library keeps running, and user callbacks return.
Spec == Init /\ [][Next]_vars /\ \A t \in Threads : WF_vars(Step(t))

----------------------------------------------------------------------------
\* The subscriber table is within its bound and g_ev_mutex is held only by a thread that is in
\* the event callback or about to leave EmitEvent.
TypeOK ==
  /\ g_sub_count \in 0..MAX_SUBS
  /\ mutex # NoThread =>
       \E i \in DOMAIN stack[mutex] : stack[mutex][i].kind \in {"event_cb", "unlock"}

\* Every subscriber that Subscribe had published before a library was loaded hears of the load,
\* whatever the other subscribers' callbacks do and though another thread adds subscribers
\* while notify walks the table.
LoadNotifiesAll == missed = {}

\* Every subscriber accepted is in the table.
SubscribersKept ==
  (\A t \in Threads : stack[t] = <<>>) => \A i \in 1..g_sub_count : g_subs[i] # NoSub

\* Every call into the library returns: no thread waits for g_ev_mutex for ever.
CallReturns == \A t \in Threads : (stack[t] # <<>>) ~> (stack[t] = <<>>)
=============================================================================
