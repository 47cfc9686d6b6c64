----------------------------- MODULE Instrument -----------------------------
(***************************************************************************)
(* Dynamic instrumentation (src/instrument.cpp): InterceptAddr reserves a  *)
(* context of g_instr, hooks the address, and returns a pointer to the     *)
(* context as the handle; Unintercept and StatsGet find a handle by        *)
(* comparing pointers, and Unintercept moves the last context into the     *)
(* hole.                                                                   *)
(***************************************************************************)
EXTENDS Integers, FiniteSets

CONSTANTS
  Threads, Addrs,
  MaxInstr,      \* size of g_instr (32 in the code)
  MaxCalls,      \* bound: calls of InterceptAddr
  Serialise,     \* BOOLEAN: clients make one call at a time
  Lifo,          \* BOOLEAN: clients release the newest handle first
  NoAddr         \* a context nobody uses

VARIABLES
  g_instr,       \* [0 .. MaxInstr - 1 -> Addrs or NoAddr]: whose context it is
  g_instr_count,
  hooked,        \* addresses that DobbyHook has hooked
  reserved,      \* [Threads -> [addr, ic] inside InterceptAddr, or Idle]
  handles,       \* live handles: [addr, ic, nr] as returned to clients
  calls

vars == <<g_instr, g_instr_count, hooked, reserved, handles, calls>>
Idle == [addr |-> NoAddr, ic |-> 0]
NoCall == \A t \in Threads : reserved[t] = Idle

Init ==
  /\ g_instr = [i \in 0 .. MaxInstr - 1 |-> NoAddr]
  /\ g_instr_count = 0
  /\ hooked = {}
  /\ reserved = [t \in Threads |-> Idle]
  /\ handles = {}
  /\ calls = 0

ReserveOffByOne(t, a) ==
  /\ IF Serialise THEN NoCall ELSE reserved[t] = Idle
  /\ calls < MaxCalls
  /\ calls' = calls + 1
  /\ g_instr_count <= MaxInstr
  /\ g_instr' = [g_instr EXCEPT ![g_instr_count] = a]
  /\ g_instr_count' = g_instr_count + 1
  /\ reserved' = [reserved EXCEPT ![t] = [addr |-> a, ic |-> g_instr_count]]
  /\ UNCHANGED <<hooked, handles>>

\* InterceptAddr up to DobbyHook: the context is counted before the address is hooked.
Reserve(t, a) ==
  /\ IF Serialise THEN NoCall ELSE reserved[t] = Idle
  /\ calls < MaxCalls
  /\ calls' = calls + 1
  /\ g_instr_count < MaxInstr
  /\ g_instr' = [g_instr EXCEPT ![g_instr_count] = a]
  /\ g_instr_count' = g_instr_count + 1
  /\ reserved' = [reserved EXCEPT ![t] = [addr |-> a, ic |-> g_instr_count]]
  /\ UNCHANGED <<hooked, handles>>

\* DobbyHook succeeds unless the address is hooked already (or for reasons of its own).
Install(t) ==
  LET c == reserved[t]
  IN /\ c # Idle
     /\ c.addr \notin hooked
     /\ hooked' = hooked \cup {c.addr}
     /\ handles' = handles \cup {[addr |-> c.addr, ic |-> c.ic, nr |-> calls]}
     /\ reserved' = [reserved EXCEPT ![t] = Idle]
     /\ UNCHANGED <<g_instr, g_instr_count, calls>>

InstallFails(t) ==
  /\ reserved[t] # Idle
  /\ g_instr_count' = g_instr_count - 1
  /\ reserved' = [reserved EXCEPT ![t] = Idle]
  /\ UNCHANGED <<g_instr, hooked, handles, calls>>

\* Unintercept: the address stays hooked.
Found(h) == h.ic < g_instr_count
Newest(h) == \A g \in handles : g.nr <= h.nr
FillHole(ic) == [g_instr EXCEPT ![ic] = g_instr[g_instr_count - 1]]

Unintercept(h) ==
  /\ Serialise => NoCall
  /\ Lifo => Newest(h)
  /\ IF Found(h)
     THEN /\ g_instr' = FillHole(h.ic)
          /\ g_instr_count' = g_instr_count - 1
     ELSE UNCHANGED <<g_instr, g_instr_count>>
  /\ handles' = handles \ {h}
  /\ UNCHANGED <<hooked, reserved, calls>>

\* DobbyUnhook of the address, the only way to end the hook itself.
Unhook(a) ==
  /\ Serialise => NoCall
  /\ hooked' = hooked \ {a}
  /\ ~\E h \in handles : h.addr = a
  /\ hooked' # hooked
  /\ UNCHANGED <<g_instr, g_instr_count, reserved, handles, calls>>

Next ==
  \/ \E t \in Threads : Install(t) \/ InstallFails(t) \/ \E a \in Addrs : Reserve(t, a)
  \/ \E h \in handles : Unintercept(h)
  \/ \E a \in Addrs : Unhook(a)

Spec == Init /\ [][Next]_vars

----------------------------------------------------------------------------
\* The count stays within the table, also when releases find another client's context or none.
TypeOK ==
  /\ g_instr \in [0 .. MaxInstr - 1 -> Addrs \cup {NoAddr}]
  /\ g_instr_count \in 0..MaxInstr
  /\ hooked \subseteq Addrs

\* A handle that InterceptAddr returned names the context of its own address until it is
\* released: StatsGet reads that address's counters and Unintercept releases that context.
HandleNamesOwnContext ==
  \A h \in handles : Found(h) /\ g_instr[h.ic] = h.addr

\* A context is in use exactly while a client holds its handle or a call is reserving it: a
\* failed or finished interception gives its context back.
ContextsAccounted ==
  g_instr_count = Cardinality(handles) + Cardinality({t \in Threads : reserved[t] # Idle})

\* Unintercept removes the instrumentation: an address with no handle runs unhooked.
UninterceptUnhooks ==
  NoCall => hooked = {h.addr : h \in handles}
=============================================================================
