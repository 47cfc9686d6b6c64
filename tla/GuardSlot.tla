------------------------------ MODULE GuardSlot ------------------------------
(***************************************************************************)
(* The slot guard (src/guard_slot.cpp): a worker that wakes every second,  *)
(* takes g_guard_mutex and writes the expected value back to every guarded *)
(* slot that lost it.  Start is modelled in Lifecycle.tla.                 *)
(***************************************************************************)
EXTENDS Integers, Sequences, SequencesExt, FiniteSets

CONSTANTS
  Slots, Values,
  MaxGuards,     \* bound on g_guards
  MaxWrites,     \* bound on writes by other code
  Duplicates,    \* BOOLEAN: clients may guard a guarded slot again
  MayUnmap       \* BOOLEAN: a library may be unloaded with its slots guarded

VARIABLES
  cell,          \* [Slots -> Values]: the words guarded
  mapped,        \* slots that can still be read
  g_guards,      \* sequence of [addr, expected]
  worker,        \* "sleep", "scan" (holds the mutex), "write", "crashed"
  index,         \* the record the worker is at
  r,             \* that record, once it was found changed
  writes

vars == <<cell, mapped, g_guards, worker, index, r, writes>>

NoRecord == [addr |-> CHOOSE x \in Slots : TRUE, expected |-> CHOOSE v \in Values : TRUE]

Init ==
  /\ cell \in [Slots -> Values]
  /\ mapped = Slots
  /\ g_guards = <<>>
  /\ worker = "sleep"
  /\ index = 0
  /\ r = NoRecord
  /\ writes = 0

\* g_guard_mutex: Add and Remove run while the worker is asleep.
Unlocked == worker = "sleep"
Guarded(s) == \E i \in DOMAIN g_guards : g_guards[i].addr = s

GuardAdd(s, v) ==
  /\ Unlocked
  /\ Len(g_guards) < MaxGuards /\ s \in mapped
  /\ Guarded(s) => Duplicates
  /\ g_guards' = Append(g_guards, [addr |-> s, expected |-> v])
  /\ UNCHANGED <<cell, mapped, worker, index, r, writes>>

GuardRemove(s) ==
  /\ Unlocked
  /\ Guarded(s)
  /\ g_guards' = RemoveAt(g_guards, SelectInSeq(g_guards, LAMBDA g : g.addr = s))
  /\ UNCHANGED <<cell, mapped, worker, index, r, writes>>

WakeSkipsFirst ==
  /\ worker = "sleep"
  /\ worker' = "scan"
  /\ index' = 2
  /\ UNCHANGED <<cell, mapped, g_guards, r, writes>>
\* guard_worker
Wake ==
  /\ worker = "sleep"
  /\ worker' = "scan"
  /\ index' = 1
  /\ UNCHANGED <<cell, mapped, g_guards, r, writes>>

Here == g_guards[index]

Check ==
  /\ worker = "scan" /\ index <= Len(g_guards)
  /\ IF Here.addr \notin mapped THEN worker' = "crashed" /\ UNCHANGED <<index, r>>
     ELSE IF cell[Here.addr] # Here.expected THEN worker' = "write" /\ r' = Here /\ index' = index
     ELSE worker' = worker /\ index' = index + 1 /\ r' = r
  /\ UNCHANGED <<cell, mapped, g_guards, writes>>

Restore ==
  /\ worker = "write"
  /\ cell' = [cell EXCEPT ![r.addr] = r.expected]
  /\ worker' = "scan"
  /\ index' = index + 1
  /\ r' = NoRecord
  /\ UNCHANGED <<mapped, g_guards, writes>>

Sleep ==
  /\ worker = "scan" /\ index > Len(g_guards)
  /\ worker' = "sleep"
  /\ index' = 0
  /\ UNCHANGED <<cell, mapped, g_guards, r, writes>>

\* The code that owns the slots, or restores them behind the library's back.
Overwrite(s, v) ==
  /\ writes < MaxWrites
  /\ s \in mapped /\ cell[s] # v
  /\ cell' = [cell EXCEPT ![s] = v]
  /\ writes' = writes + 1
  /\ UNCHANGED <<mapped, g_guards, worker, index, r>>

Unmap(s) ==
  /\ s \in mapped
  /\ Guarded(s) => MayUnmap
  /\ mapped' = mapped \ {s}
  /\ UNCHANGED <<cell, g_guards, worker, index, r, writes>>

WorkerStep == Wake \/ Check \/ Restore \/ Sleep
Next ==
  \/ WorkerStep
  \/ \E s \in Slots : GuardRemove(s) \/ Unmap(s) \/ \E v \in Values : GuardAdd(s, v) \/ Overwrite(s, v)

Spec == Init /\ [][Next]_vars /\ WF_vars(WorkerStep)

----------------------------------------------------------------------------
\* The worker's iterator is always inside g_guards or at its end.
TypeOK ==
  /\ cell \in [Slots -> Values]
  /\ worker \in {"sleep", "scan", "write"}
  /\ worker = "write" => index \in DOMAIN g_guards
  /\ index \in 0 .. Len(g_guards) + 1

\* guard_worker writes a slot only while it is guarded: once Remove has returned, the owner may
\* use the slot again and the worker does not touch it.
OnlyGuardedWritten ==
  [][\A s \in Slots : cell'[s] # cell[s] /\ writes' = writes => Guarded(s) /\ s \in mapped]_vars

\* Once the others stop writing, a guarded slot keeps its value.
GuardSettles ==
  \A s \in Slots, v \in Values :
    <>[](\E i \in DOMAIN g_guards : g_guards[i] = [addr |-> s, expected |-> v])
      => <>[](cell[s] = v)
=============================================================================
