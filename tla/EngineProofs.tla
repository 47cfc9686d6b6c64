----------------------------- MODULE EngineProofs -----------------------------
(***************************************************************************)
(* Proofs about Engine: any number of threads, functions, pages and failed *)
(* mprotect calls.                                                         *)
(***************************************************************************)
EXTENDS Engine, SequenceTheorems, TLAPS

(* Types *)

Modes == {"arm", "native"}
Dests == Fakes \cup {Closure, None}
Code  == {Orig(c) : c \in Cells} \cup {UserCode(c) : c \in Cells} \cup {Garbage}
           \cup {Jump(d, m) : d \in Dests, m \in Modes}
Kinds == {"heap", "nearcode", "neardata", "closure", "exec"}
EntryRec ==
  [id : Nat, target : Targets \cup {None}, patched : Targets \cup {None}, backup : Code,
   relocated : Code, to : Dests, blocks : SUBSET (Kinds \X Nat)]
PatchRec ==
  [cell : Cells \cup {None}, odd : BOOLEAN, bytes : Code, old : Code, saved : Seq(Perms),
   k : Nat, bad : BOOLEAN, next : {None, "done", "activated", "drop"}]
Pcs == {"idle", "readable", "lock", "find", "build", "active", "activated", "drop", "done"}
         \cup Patching
ThreadRec ==
  [pc : Pcs, op : {None, "hook", "instrument", "patch"}, target : Targets \cup {None},
   fake : Fakes \cup {None}, ret : {0, -1}, entry : EntryRec, tramp : Code, p : PatchRec]

TypeInv ==
  /\ arch \in Archs /\ android \in BOOLEAN /\ near \in BOOLEAN
  /\ mem \in [Cells -> Code]
  /\ prot \in [DOMAIN InitProt -> Perms]
  /\ lock \in Threads \cup {None}
  /\ entries \in Seq(EntryRec) /\ nextId \in Nat
  /\ blocks \in SUBSET ((Kinds \cup {"rip"}) \X Nat)
  /\ th \in [Threads -> ThreadRec]
  /\ faults \in Nat

(* The calls *)

Routing == {"build", "active", "activated", "drop"}

\* The call r is between the lock_guard and the end of its scope.
Holds(r) == r.pc \in Routing \cup {"find"} \/ (r.pc \in Patching /\ r.op # "patch")

\* What a call knows of its own arguments, whatever the others do.
CallOK(r) ==
  /\ r.pc \in {"readable", "lock"} \/ Holds(r) =>
       r.op \in {"hook", "instrument"} /\ r.target \in Targets
  /\ r.op = "hook" => r.fake \in Fakes
  /\ r.pc \in Patching /\ r.op = "patch" => r.p.cell \in UserCells /\ r.p.next = "done"
  /\ r.pc \in Patching /\ r.op # "patch" =>
       r.p.cell = r.target /\ r.p.odd = FALSE /\ r.p.next \in {"activated", "drop"}
  /\ r.pc \in Patching \ {"maps"} => DOMAIN r.p.saved = DOMAIN PagesOf[r.p.cell]
  /\ r.pc \in {"unprotect", "protect"} => r.p.k \in DOMAIN PagesOf[r.p.cell]

CallInv == \A t \in Threads : CallOK(th[t]) /\ (Holds(th[t]) <=> lock = t)

(* The table and the code *)

TableInv ==
  /\ \A i, j \in DOMAIN entries : entries[i].target = entries[j].target => i = j
  /\ \A i \in DOMAIN entries : LET e == entries[i] IN
       /\ e.target \in Targets /\ e.patched = e.target
       /\ e.backup = Orig(e.target) /\ e.relocated = Orig(e.target)
       /\ mem[e.target] = Jump(e.to, TrampolineMode)

HasEntry(c) == \E i \in DOMAIN entries : entries[i].target = c

CodeInv == \A c \in Targets :
  ~HasEntry(c) /\ (\A t \in Threads : lock = t => th[t].target # c) => mem[c] = Orig(c)

\* The code of the target of the call r that holds the mutex.
HeadIs(r) ==
  LET c == r.target IN
  /\ r.pc = "find" => HasEntry(c) \/ mem[c] = Orig(c)
  /\ r.pc # "find" => ~HasEntry(c)
  /\ r.pc \in {"build", "active", "drop", "maps", "unprotect", "write", "giveup"} =>
       mem[c] = Orig(c)
  /\ r.pc = "protect" => mem[c] = r.p.bytes
  /\ r.pc = "activated" => mem[c] = IF r.ret = 0 THEN r.tramp ELSE Orig(c)

\* The routing the call r has built.
RoutingIs(r) ==
  LET e == r.entry IN
  /\ r.pc # "find" => e.target = r.target
  /\ r.pc \in Patching \cup {"active", "activated"} =>
       /\ e.patched = r.target /\ e.backup = Orig(r.target) /\ e.relocated = Orig(r.target)
       /\ r.tramp = Jump(e.to, TrampolineMode)
  /\ r.pc \in Patching =>
       r.p.bytes = IF r.p.next = "activated" THEN r.tramp ELSE Orig(r.target)
  /\ r.pc \in Patching \ {"maps"} => r.p.old = Orig(r.target)

HolderInv == \A t \in Threads : lock = t => HeadIs(th[t]) /\ RoutingIs(th[t])

(* The blocks *)

Stamped(e) == \A b \in e.blocks : b[2] = e.id

\* The blocks of the routing in construction.
OwnedBy(r) == IF r.pc \in {"find", "build"} THEN {} ELSE r.entry.blocks

BlockInv ==
  /\ \A i \in DOMAIN entries : Stamped(entries[i]) /\ entries[i].id < nextId
  /\ lock = None => OwnedBlocks = EntryBlocks
  /\ \A t \in Threads : lock = t =>
       /\ OwnedBlocks = EntryBlocks \cup OwnedBy(th[t])
       /\ th[t].pc # "find" =>
            /\ Stamped(th[t].entry) /\ th[t].entry.id < nextId
            /\ \A i \in DOMAIN entries : entries[i].id # th[t].entry.id

EngineInv == TypeInv /\ CallInv /\ TableInv /\ CodeInv /\ HolderInv /\ BlockInv

(* Steps *)

\* Only the call of t changes.
Others(t) == \A u \in Threads \ {t} : th'[u] = th[u]

\* The call of t keeps its arguments and its routing.
Keeps(t) ==
  /\ th'[t].op = th[t].op /\ th'[t].target = th[t].target /\ th'[t].fake = th[t].fake
  /\ th'[t].entry = th[t].entry /\ th'[t].tramp = th[t].tramp

LEMMA CodeTypes ==
  /\ Garbage \in Code
  /\ \A c \in Cells : Orig(c) \in Code /\ UserCode(c) \in Code
  /\ \A d \in Dests, m \in Modes : Jump(d, m) \in Code
  /\ NoEntry \in EntryRec /\ NoPatch \in PatchRec /\ Idle \in ThreadRec
<1>1. /\ Garbage \in Code
      /\ \A c \in Cells : Orig(c) \in Code /\ UserCode(c) \in Code
      /\ \A d \in Dests, m \in Modes : Jump(d, m) \in Code
  BY DEF Code
<1>2. NoEntry \in EntryRec
  BY Zenon, <1>1 DEF NoEntry, EntryRec, Dests
<1>3. NoPatch \in PatchRec
  BY Zenon, <1>1, EmptySeq DEF NoPatch, PatchRec
<1>4. Idle \in ThreadRec
  BY Zenon, <1>1, <1>2, <1>3 DEF Idle, ThreadRec, Pcs
<1> QED
  BY Zenon, <1>1, <1>2, <1>3, <1>4

LEMMA EntryTypes ==
  ASSUME TypeInv
  PROVE  \A i \in DOMAIN entries : entries[i] \in EntryRec /\ entries[i].id \in Nat
<1>1. \A i \in DOMAIN entries : entries[i] \in EntryRec
  BY DEF TypeInv
<1> QED
  BY Zenon, <1>1 DEF EntryRec

\* Who holds the mutex changes only for the call that steps.
LEMMA CallStep ==
  ASSUME CallInv, NEW t \in Threads, Others(t), CallOK(th'[t]), Holds(th'[t]) <=> lock' = t,
         \A u \in Threads \ {t} : lock' = u <=> lock = u
  PROVE  CallInv'
<1> SUFFICES ASSUME NEW u \in Threads
             PROVE  (CallOK(th[u]) /\ (Holds(th[u]) <=> lock = u))'
  BY Zenon DEF CallInv
<1>1. CASE u = t
  BY Zenon, <1>1 DEF CallOK, Holds
<1>2. CASE u # t
  <2>1. th'[u] = th[u] /\ CallOK(th[u]) /\ (Holds(th[u]) <=> lock = u)
    BY Zenon, <1>2 DEF Others, CallInv
  <2> QED
    BY Zenon, <1>2, <2>1 DEF CallOK, Holds
<1> QED
  BY Zenon, <1>1, <1>2

\* A step of a call outside the mutex that leaves the targets' code alone.
LEMMA OutsideStep ==
  ASSUME EngineInv, NEW t \in Threads, TypeInv', Others(t),
         ~Holds(th[t]), ~Holds(th'[t]), CallOK(th'[t]),
         UNCHANGED <<build, lock, tables>>, \A c \in Targets : mem'[c] = mem[c]
  PROVE  EngineInv'
<1>1. CallInv'
  BY DEF EngineInv, CallInv, Others, CallOK, Holds
<1>2. TableInv'
  BY Zenon DEF EngineInv, TableInv, tables, build, TrampolineMode
<1>3. lock # t
  BY Zenon DEF EngineInv, CallInv
<1>4. CodeInv'
  BY Zenon, <1>3 DEF EngineInv, CodeInv, HasEntry, tables, Others
<1>5. HolderInv'
  <2> SUFFICES ASSUME NEW u \in Threads, lock' = u
               PROVE  (HeadIs(th[u]) /\ RoutingIs(th[u]))'
    BY Zenon DEF HolderInv
  <2>1. lock = u /\ u # t /\ th'[u] = th[u]
    BY Zenon, <1>3 DEF Others
  <2>2. HeadIs(th[u]) /\ RoutingIs(th[u]) /\ th[u].target \in Targets
    BY Zenon, <2>1 DEF EngineInv, HolderInv, CallInv, CallOK
  <2> QED
    BY Zenon, <2>1, <2>2 DEF HeadIs, RoutingIs, HasEntry, tables, build, TrampolineMode
<1>6. BlockInv'
  BY <1>3 DEF EngineInv, BlockInv, OwnedBlocks, tables, Others, EntryBlocks, OwnedBy, Stamped
<1> QED
  BY Zenon, <1>1, <1>2, <1>4, <1>5, <1>6 DEF EngineInv

\* The table and the code stay as they are.
LEMMA TableStill ==
  ASSUME TableInv, UNCHANGED <<build, mem, entries>>
  PROVE  /\ TableInv' /\ EntryBlocks' = EntryBlocks /\ TrampolineMode' = TrampolineMode
         /\ \A x : HasEntry(x)' = HasEntry(x)
<1>1. TrampolineMode' = TrampolineMode
  BY Zenon DEF build, TrampolineMode
<1>2. EntryBlocks' = EntryBlocks /\ \A x : HasEntry(x)' = HasEntry(x)
  BY Zenon DEF EntryBlocks, HasEntry
<1>3. TableInv'
  BY Zenon, <1>1 DEF TableInv
<1> QED
  BY Zenon, <1>1, <1>2, <1>3

LEMMA CodeStill ==
  ASSUME CodeInv, UNCHANGED <<mem, entries, lock>>, NEW t \in Threads, lock = t,
         th'[t].target = th[t].target
  PROVE  CodeInv'
<1>1. \A x : HasEntry(x)' = HasEntry(x)
  BY Zenon DEF HasEntry
<1> QED
  BY Zenon, <1>1 DEF CodeInv

\* Only the holder of the mutex matters to HolderInv.
LEMMA HolderOnly ==
  ASSUME NEW t \in Threads, lock' = t, (HeadIs(th[t]) /\ RoutingIs(th[t]))'
  PROVE  HolderInv'
  BY Zenon DEF HolderInv

\* Nothing the invariant speaks of changes.
LEMMA NothingMoves ==
  ASSUME EngineInv, near' \in BOOLEAN, UNCHANGED <<build, mem, prot, lock, tables, th, faults>>
  PROVE  EngineInv'
<1>1. TypeInv'
  BY Zenon DEF EngineInv, TypeInv, build, tables
<1>2. CallInv'
  BY Zenon DEF EngineInv, CallInv, CallOK, Holds
<1>3. TableInv'
  BY Zenon, TableStill DEF EngineInv, tables
<1>4. CodeInv'
  BY Zenon DEF EngineInv, CodeInv, HasEntry, tables
<1>5. HolderInv'
  BY DEF EngineInv, HolderInv, HeadIs, RoutingIs, HasEntry, build, tables, TrampolineMode
<1>6. BlockInv'
  BY DEF EngineInv, BlockInv, OwnedBlocks, Stamped, EntryBlocks, OwnedBy, tables
<1> QED
  BY Zenon, <1>1, <1>2, <1>3, <1>4, <1>5, <1>6 DEF EngineInv

\* A step of the holder that keeps its routing and writes at most its target.
LEMMA HolderStep ==
  ASSUME EngineInv, NEW t \in Threads, TypeInv', Others(t), Keeps(t),
         Holds(th[t]), Holds(th'[t]), CallOK(th'[t]),
         th[t].pc \notin {"find", "build"}, th'[t].pc \notin {"find", "build"},
         UNCHANGED <<build, lock, tables>>,
         \A c \in Targets \ {th[t].target} : mem'[c] = mem[c],
         HeadIs(th[t])', RoutingIs(th[t])'
  PROVE  EngineInv'
<1>1. CallInv'
  BY DEF EngineInv, CallInv, Others, CallOK, Holds
<1>2. lock = t /\ ~HasEntry(th[t].target)
  BY Zenon DEF EngineInv, CallInv, HolderInv, HeadIs
<1>3. TableInv'
  BY Zenon, <1>2 DEF EngineInv, TableInv, tables, build, TrampolineMode, HasEntry
<1>4. CodeInv'
  BY Zenon, <1>2 DEF EngineInv, CodeInv, HasEntry, tables, Others, Keeps
<1>5. HolderInv'
  BY Zenon, <1>2 DEF HolderInv
<1>6. BlockInv'
  BY <1>2 DEF EngineInv, BlockInv, OwnedBlocks, tables, Keeps, EntryBlocks, OwnedBy, Stamped
<1> QED
  BY Zenon, <1>1, <1>3, <1>4, <1>5, <1>6 DEF EngineInv

\* DobbyHookEx, DobbyInstrument or DobbyCodePatch is called.
LEMMA CallKeeps ==
  ASSUME EngineInv, NEW t \in Threads, Call(t)
  PROVE  EngineInv'
<1>0. ~Holds(th[t])
  BY Zenon DEF Call, StartHook, StartInstrument, StartPatch, Holds, Routing, Patching
<1>1. CASE StartHook(t)
  <2>1. PICK c \in Targets, f \in Fakes :
          th' = [th EXCEPT ![t] = [Idle EXCEPT !.pc = "readable", !.op = "hook", !.target = c, !.fake = f]]
    BY Zenon, <1>1 DEF StartHook
  <2>2. th'[t] \in ThreadRec /\ CallOK(th'[t]) /\ ~Holds(th'[t])
    BY ZenonT(30), <2>1, CodeTypes DEF EngineInv, TypeInv, ThreadRec, Pcs, CallOK, Holds, Patching, Routing, Idle
  <2>3. Others(t) /\ th' \in [Threads -> ThreadRec]
    BY Zenon, <2>1, <2>2 DEF EngineInv, TypeInv, Others
  <2> QED
    BY Zenon, <1>0, <1>1, <2>2, <2>3, OutsideStep DEF EngineInv, TypeInv, StartHook, build, tables
<1>2. CASE StartInstrument(t)
  <2>1. PICK c \in Targets :
          th' = [th EXCEPT ![t] = [Idle EXCEPT !.pc = "readable", !.op = "instrument", !.target = c]]
    BY Zenon, <1>2 DEF StartInstrument
  <2>2. th'[t] \in ThreadRec /\ CallOK(th'[t]) /\ ~Holds(th'[t])
    BY ZenonT(30), <2>1, CodeTypes DEF EngineInv, TypeInv, ThreadRec, Pcs, CallOK, Holds, Patching, Routing, Idle
  <2>3. Others(t) /\ th' \in [Threads -> ThreadRec]
    BY Zenon, <2>1, <2>2 DEF EngineInv, TypeInv, Others
  <2> QED
    BY Zenon, <1>0, <1>2, <2>2, <2>3, OutsideStep DEF EngineInv, TypeInv, StartInstrument, build, tables
<1>3. CASE StartPatch(t)
  <2>1. PICK c \in UserCells :
          th' = [th EXCEPT ![t] = [Idle EXCEPT !.pc = "maps", !.op = "patch",
                                               !.p = Patch(c, FALSE, UserCode(c), "done")]]
    BY Zenon, <1>3 DEF StartPatch
  <2> DEFINE q == Patch(c, FALSE, UserCode(c), "done")
  <2>2. q \in PatchRec /\ q.cell = c /\ q.next = "done"
    BY Zenon, CodeTypes DEF Patch, NoPatch, PatchRec, Cells
  <2> HIDE DEF q
  <2>3. th'[t] \in ThreadRec /\ CallOK(th'[t]) /\ ~Holds(th'[t])
    <3>1. th'[t] = [Idle EXCEPT !.pc = "maps", !.op = "patch", !.p = q]
      BY Zenon, <2>1 DEF EngineInv, TypeInv, q
    <3>2. th'[t] \in ThreadRec
      BY Zenon, <2>2, <3>1, CodeTypes DEF ThreadRec, Pcs, Patching
    <3>3. th'[t].pc = "maps" /\ th'[t].op = "patch" /\ th'[t].p = q
      BY Zenon, <3>1 DEF Idle
    <3> QED
      BY Zenon, <2>2, <3>2, <3>3 DEF CallOK, Holds, Routing
  <2>4. Others(t) /\ th' \in [Threads -> ThreadRec]
    BY Zenon, <2>1, <2>3 DEF EngineInv, TypeInv, Others
  <2> QED
    BY Zenon, <1>0, <1>3, <2>3, <2>4, OutsideStep DEF EngineInv, TypeInv, StartPatch, build, tables
<1> QED
  BY Zenon, <1>1, <1>2, <1>3 DEF Call

\* Page protections of Android, made before the mutex is taken.
LEMMA ReadableKeeps ==
  ASSUME EngineInv, NEW t \in Threads, make_memory_readable(t)
  PROVE  EngineInv'
<1>1. th' = [th EXCEPT ![t].pc = "lock"]
  BY Zenon DEF make_memory_readable, Goto
<1>2. th'[t] = [th[t] EXCEPT !.pc = "lock"] /\ th[t].pc = "readable" /\ th[t] \in ThreadRec
  BY Zenon, <1>1 DEF EngineInv, TypeInv, make_memory_readable
<1>3. th'[t] \in ThreadRec /\ CallOK(th'[t]) /\ ~Holds(th'[t]) /\ ~Holds(th[t])
  BY Zenon, <1>2 DEF EngineInv, CallInv, ThreadRec, Pcs, CallOK, Holds, Patching, Routing
<1>4. Others(t) /\ th' \in [Threads -> ThreadRec]
  BY Zenon, <1>1, <1>3 DEF EngineInv, TypeInv, Others
<1>5. prot' \in [DOMAIN InitProt -> Perms]
  BY Zenon DEF EngineInv, TypeInv, make_memory_readable, Perms
<1> QED
  BY Zenon, <1>3, <1>4, <1>5, OutsideStep DEF EngineInv, TypeInv, make_memory_readable, build, tables

\* The call returns to its caller.
LEMMA LeaveKeeps ==
  ASSUME EngineInv, NEW t \in Threads, Leave(t)
  PROVE  EngineInv'
<1>1. th' = [th EXCEPT ![t] = Idle] /\ th[t].pc = "done"
  BY Zenon DEF Leave
<1>2. th'[t] \in ThreadRec /\ CallOK(th'[t]) /\ ~Holds(th'[t]) /\ ~Holds(th[t])
  BY Zenon, <1>1, CodeTypes DEF EngineInv, TypeInv, CallOK, Holds, Patching, Routing, Idle, None
<1>3. Others(t) /\ th' \in [Threads -> ThreadRec]
  BY Zenon, <1>1, <1>2 DEF EngineInv, TypeInv, Others
<1> QED
  BY Zenon, <1>2, <1>3, OutsideStep DEF EngineInv, TypeInv, Leave, build, tables

\* std::lock_guard.
LEMMA LockKeeps ==
  ASSUME EngineInv, NEW t \in Threads, Lock(t)
  PROVE  EngineInv'
<1>1. th' = [th EXCEPT ![t].pc = "find"] /\ lock = None /\ lock' = t
  BY Zenon DEF Lock, Goto
<1>2. th'[t] = [th[t] EXCEPT !.pc = "find"] /\ th[t].pc = "lock" /\ th[t] \in ThreadRec
  BY Zenon, <1>1 DEF EngineInv, TypeInv, Lock
<1>3. /\ th'[t] \in ThreadRec /\ th'[t].pc = "find" /\ th'[t].target = th[t].target
      /\ th'[t].op = th[t].op /\ th'[t].fake = th[t].fake
  BY Zenon, <1>2 DEF ThreadRec, Pcs
<1>4. Others(t) /\ th' \in [Threads -> ThreadRec]
  BY Zenon, <1>1, <1>3 DEF EngineInv, TypeInv, Others
<1>5. TypeInv'
  BY Zenon, <1>1, <1>4 DEF EngineInv, TypeInv, Lock, build, tables
<1>6. \A u \in Threads : ~Holds(th[u])
  BY Zenon, <1>1, EngineAssumption DEF EngineInv, CallInv
<1>7. CallInv'
  BY <1>1, <1>2, <1>3, <1>4, <1>6 DEF EngineInv, CallInv, CallOK, Holds, Others, Routing, Patching
<1>8. TableInv' /\ \A x : HasEntry(x)' = HasEntry(x)
  BY Zenon, TableStill DEF EngineInv, Lock, tables
<1>9. th[t].target \in Targets
  BY Zenon, <1>2 DEF EngineInv, CallInv, CallOK
<1>10. CodeInv' /\ HolderInv'
  <2>1. \A c \in Targets : ~HasEntry(c) => mem[c] = Orig(c)
    BY Zenon, <1>1, EngineAssumption DEF EngineInv, CodeInv
  <2>2. CodeInv'
    BY Zenon, <1>8, <2>1 DEF CodeInv, Lock
  <2>3. (HeadIs(th[t]) /\ RoutingIs(th[t]))'
    BY Zenon, <1>3, <1>8, <1>9, <2>1 DEF HeadIs, RoutingIs, Lock, Patching
  <2> QED
    BY Zenon, <1>1, <2>2, <2>3, HolderOnly
<1>11. BlockInv'
  BY <1>1, <1>3, EngineAssumption DEF EngineInv, BlockInv, OwnedBlocks, Lock, tables, EntryBlocks, OwnedBy, Stamped
<1> QED
  BY Zenon, <1>5, <1>7, <1>8, <1>10, <1>11 DEF EngineInv

\* The builds and uses the theorems are about: no target is Thumb code and the
\* relocated head is always written out.
Plain == Thumb = {} /\ FinalizeMayFail = FALSE /\ RipMayFail = FALSE

\* The end of the lock_guard's scope, for a call whose target is in order.
LEMMA UnlockStep ==
  ASSUME EngineInv, NEW t \in Threads, NEW r \in {0, -1}, lock = t, Unlock(t, r)
  PROVE  /\ th' \in [Threads -> ThreadRec] /\ lock' = None
         /\ CallInv' /\ HolderInv'
<1>1. /\ th' = [th EXCEPT ![t].pc = "done", ![t].ret = r]
      /\ lock' = None
  BY Zenon DEF Unlock
<1>2. th[t] \in ThreadRec /\ th'[t] = [th[t] EXCEPT !.pc = "done", !.ret = r] /\ Others(t)
  BY Zenon, <1>1 DEF EngineInv, TypeInv, Others
<1>3. th'[t] \in ThreadRec /\ CallOK(th'[t]) /\ ~Holds(th'[t])
  <2>1. th'[t] \in ThreadRec /\ th'[t].pc = "done" /\ th'[t].op = th[t].op /\ th'[t].fake = th[t].fake
    BY Zenon, <1>2 DEF ThreadRec, Pcs
  <2>2. th[t].op = "hook" => th[t].fake \in Fakes
    BY Zenon DEF EngineInv, CallInv, CallOK
  <2> QED
    BY Zenon, <2>1, <2>2 DEF CallOK, Holds, Patching, Routing
<1>4. th' \in [Threads -> ThreadRec]
  BY Zenon, <1>1, <1>3 DEF EngineInv, TypeInv
<1>5. CallInv'
  BY Zenon, <1>1, <1>2, <1>3, CallStep, EngineAssumption DEF EngineInv
<1>6. HolderInv'
  BY Zenon, <1>1, EngineAssumption DEF HolderInv
<1> QED
  BY Zenon, <1>1, <1>4, <1>5, <1>6

\* Interceptor::find, and a new entry when it finds none.
LEMMA FindKeeps ==
  ASSUME Plain, EngineInv, NEW t \in Threads, Find(t)
  PROVE  EngineInv'
<1> DEFINE c == th[t].target
<1>1. /\ th[t] \in ThreadRec /\ th[t].pc = "find" /\ lock = t /\ c \in Targets
      /\ HeadIs(th[t])
  BY Zenon DEF Find, EngineInv, TypeInv, CallInv, CallOK, Holds, HolderInv
<1>2. Found(c) <=> HasEntry(c)
  BY DEF Plain, Found, HasEntry, EngineInv, TableInv
<1>3. UNCHANGED <<build, near, mem, prot, entries, blocks, faults>>
  BY Zenon DEF Find
<1>4. TableInv' /\ EntryBlocks' = EntryBlocks /\ \A x : HasEntry(x)' = HasEntry(x)
  BY Zenon, <1>3, TableStill DEF EngineInv
<1>5. CASE Found(c)
  <2>1. Unlock(t, -1) /\ UNCHANGED nextId
    BY Zenon, <1>5 DEF Find
  <2>2. th' \in [Threads -> ThreadRec] /\ lock' = None /\ CallInv' /\ HolderInv'
    BY Zenon, <1>1, <2>1, UnlockStep
  <2>3. TypeInv'
    BY Zenon, <1>3, <2>1, <2>2 DEF EngineInv, TypeInv, build
  <2>4. CodeInv'
    <3> SUFFICES ASSUME NEW x \in Targets, ~HasEntry(x)
                 PROVE  mem[x] = Orig(x)
      BY Zenon, <1>3, <1>4 DEF CodeInv
    <3>1. x # c
      BY Zenon, <1>2, <1>5
    <3> QED
      BY Zenon, <1>1, <3>1 DEF EngineInv, CodeInv
  <2>5. BlockInv'
    BY ZenonT(30), <1>1, <1>3, <1>4, <2>1, <2>2, EngineAssumption DEF EngineInv, BlockInv, OwnedBlocks, OwnedBy, Stamped
  <2> QED
    BY Zenon, <1>4, <2>2, <2>3, <2>4, <2>5 DEF EngineInv
<1>6. CASE ~Found(c)
  <2> DEFINE e == NewEntry(c)
  <2>1. th' = [th EXCEPT ![t].pc = "build", ![t].entry = e] /\ nextId' = nextId + 1 /\ lock' = lock
    BY Zenon, <1>6 DEF Find
  <2>2. e \in EntryRec /\ e.id = nextId /\ e.target = c /\ e.blocks = {}
    BY Zenon, <1>1, CodeTypes DEF NewEntry, NoEntry, EntryRec, EngineInv, TypeInv
  <2>3. th'[t] = [th[t] EXCEPT !.pc = "build", !.entry = e] /\ Others(t)
    BY Zenon, <2>1 DEF EngineInv, TypeInv, Others
  <2>4. /\ th'[t] \in ThreadRec /\ th'[t].pc = "build" /\ th'[t].entry = e
        /\ th'[t].op = th[t].op /\ th'[t].target = c /\ th'[t].fake = th[t].fake
    BY Zenon, <1>1, <2>2, <2>3 DEF ThreadRec, Pcs
  <2>5. th' \in [Threads -> ThreadRec]
    BY Zenon, <2>1, <2>4 DEF EngineInv, TypeInv
  <2>6. TypeInv'
    BY <1>3, <2>1, <2>5 DEF EngineInv, TypeInv, build
  <2>7. CallInv'
    <3>1. CallOK(th'[t]) /\ Holds(th'[t])
      BY Zenon, <1>1, <2>4 DEF EngineInv, CallInv, CallOK, Holds, Routing, Patching
    <3> QED
      BY Zenon, <1>1, <2>1, <2>3, <3>1, CallStep DEF EngineInv
  <2>8. CodeInv'
    BY Zenon, <1>1, <1>3, <2>1, <2>4, CodeStill DEF EngineInv
  <2>9. mem[c] = Orig(c) /\ ~HasEntry(c)
    BY Zenon, <1>1, <1>2, <1>6 DEF HeadIs
  <2>10. HolderInv'
    <3>1. (HeadIs(th[t]) /\ RoutingIs(th[t]))'
      BY Zenon, <1>3, <1>4, <2>2, <2>4, <2>9 DEF HeadIs, RoutingIs, Patching
    <3> QED
      BY Zenon, <1>1, <2>1, <3>1, HolderOnly
  <2>11. BlockInv'
    <3>1. \A i \in DOMAIN entries : entries[i].id \in Nat
      BY Zenon, EntryTypes DEF EngineInv
    <3>2. nextId \in Nat
      BY Zenon DEF EngineInv, TypeInv
    <3>3. \A i \in DOMAIN entries : Stamped(entries[i]) /\ entries[i].id < nextId
      BY Zenon DEF EngineInv, BlockInv
    <3>4. \A i \in DOMAIN entries' : (Stamped(entries[i]) /\ entries[i].id < nextId)'
      BY <1>3, <2>1, <3>1, <3>2, <3>3 DEF Stamped
    <3>5. OwnedBlocks' = EntryBlocks' \cup OwnedBy(th'[t])
      BY Zenon, <1>1, <1>3, <1>4, <2>4 DEF EngineInv, BlockInv, OwnedBlocks, OwnedBy
    <3>6. Stamped(th'[t].entry) /\ th'[t].entry.id < nextId'
      BY <2>1, <2>2, <2>4, <3>2 DEF Stamped
    <3>7. \A i \in DOMAIN entries' : entries'[i].id # th'[t].entry.id
      BY <1>3, <2>2, <2>4, <3>1, <3>2, <3>3
    <3> QED
      BY Zenon, <1>1, <2>1, <3>4, <3>5, <3>6, <3>7, EngineAssumption DEF BlockInv, OwnedBy, Stamped
  <2> QED
    BY Zenon, <1>4, <2>6, <2>7, <2>8, <2>10, <2>11 DEF EngineInv
<1> QED
  BY Zenon, <1>5, <1>6

\* The blocks of a trampoline and of a destination are blocks of these kinds.
LEMMA KindTypes ==
  ASSUME NEW t, NEW d \in Destinations(t), NEW k \in Trampolines(t, d.to)
  PROVE  k \cup d.own \in SUBSET Kinds
<1>1. d.own \in SUBSET Kinds
  BY DEF Destinations, Kinds
<1>2. \A n \in NormalTrampoline : n \in SUBSET Kinds
  BY Zenon DEF NormalTrampoline, Kinds
<1>3. \A n \in NearTrampoline(t, d.to) : n \in SUBSET Kinds
  BY Zenon DEF NearTrampoline, Kinds
<1> QED
  BY Zenon, <1>1, <1>2, <1>3 DEF Trampolines

LEMMA OwnTypes ==
  ASSUME NEW S \in SUBSET Kinds, NEW id \in Nat
  PROVE  /\ Own(S, id) \in SUBSET (Kinds \X Nat)
         /\ \A b \in Own(S, id) : b[1] # "rip" /\ b[2] = id
  BY DEF Own, Kinds

LEMMA StubTypes ==
  ASSUME NEW c, NEW id \in Nat
  PROVE  /\ RipStubs(c, id) \in SUBSET ((Kinds \cup {"rip"}) \X Nat)
         /\ \A b \in RipStubs(c, id) : b[1] = "rip"
  BY DEF RipStubs, Own

\* BuildRouting: the target still has its own code, so the backup and the
\* relocated head are that code.
LEMMA BuildKeeps ==
  ASSUME Plain, EngineInv, NEW t \in Threads, BuildRouting(t)
  PROVE  EngineInv'
<1> DEFINE e == th[t].entry
           c == e.target
<1>1. /\ th[t] \in ThreadRec /\ th[t].pc = "build" /\ lock = t /\ c \in Targets
      /\ th[t].target = c /\ e \in EntryRec
      /\ mem[c] = Orig(c) /\ ~HasEntry(c) /\ CallOK(th[t])
  BY ZenonT(30) DEF BuildRouting, EngineInv, TypeInv, CallInv, CallOK, Holds, Routing, HolderInv, HeadIs,
         RoutingIs, ThreadRec
<1>2. UNCHANGED <<build, near, mem, prot, lock, entries, nextId, faults>>
  BY Zenon DEF BuildRouting
<1> DEFINE stubs == RipStubs(c, e.id)
           Result(d, own) ==
             \/ \E got \in {stubs} \cup (IF RipMayFail THEN {{}} ELSE {}) :
                \E code \in {Relocated(c, got, stubs)} \cup (IF FinalizeMayFail THEN {Garbage} ELSE {}) :
                  /\ th' = [th EXCEPT
                       ![t].pc = "active",
                       ![t].tramp = Jump(d.to, TrampolineMode),
                       ![t].entry = [e EXCEPT !.patched = c, !.relocated = code, !.to = d.to,
                                              !.backup = ReadAt(c, c \in Thumb),
                                              !.blocks = own \cup Own({"exec"}, e.id)]]
                  /\ blocks' = blocks \cup own \cup Own({"exec"}, e.id) \cup got
             \/ /\ th' = [th EXCEPT ![t].pc = "drop", ![t].entry = [e EXCEPT !.blocks = own]]
                /\ \E got \in {{}, stubs} : blocks' = blocks \cup own \cup got
<1>3. PICK d \in Destinations(t) :
        \E k \in Trampolines(t, d.to) : Result(d, Own(k \cup d.own, e.id))
  BY Zenon DEF BuildRouting
<1>3a. PICK k \in Trampolines(t, d.to) : Result(d, Own(k \cup d.own, e.id))
  BY Zenon, <1>3
<1> DEFINE own == Own(k \cup d.own, e.id)
           all == own \cup Own({"exec"}, e.id)
<1>4. e.id \in Nat
  BY Zenon, <1>1 DEF EntryRec
<1>5. /\ own \in SUBSET (Kinds \X Nat) /\ all \in SUBSET (Kinds \X Nat)
      /\ \A b \in all : b[1] # "rip" /\ b[2] = e.id
      /\ \A b \in own : b[1] # "rip" /\ b[2] = e.id
  <2>1. k \cup d.own \in SUBSET Kinds
    BY Zenon, KindTypes
  <2>2. {"exec"} \in SUBSET Kinds
    BY Zenon DEF Kinds
  <2>3. own \in SUBSET (Kinds \X Nat) /\ \A b \in own : b[1] # "rip" /\ b[2] = e.id
    BY Zenon, <1>4, <2>1, OwnTypes
  <2>4. /\ Own({"exec"}, e.id) \in SUBSET (Kinds \X Nat)
        /\ \A b \in Own({"exec"}, e.id) : b[1] # "rip" /\ b[2] = e.id
    BY Zenon, <1>4, <2>2, OwnTypes
  <2> HIDE DEF own
  <2> QED
    BY Zenon, <2>3, <2>4
<1>6. d.to \in Dests /\ TrampolineMode \in Modes
  BY <1>1 DEF Destinations, Dests, TrampolineMode, Modes, CallOK
<1>7. c \notin Thumb /\ ReadAt(c, c \in Thumb) = Orig(c)
  BY Zenon, <1>1 DEF Plain, ReadAt
<1> DEFINE built == [e EXCEPT !.patched = c, !.relocated = Orig(c), !.to = d.to,
                              !.backup = Orig(c), !.blocks = all]
           failed == [e EXCEPT !.blocks = own]
           tramp == Jump(d.to, TrampolineMode)
<1>8. \E got \in {{}, stubs} :
        \/ /\ th' = [th EXCEPT ![t].pc = "active", ![t].tramp = tramp, ![t].entry = built]
           /\ blocks' = blocks \cup all \cup got
        \/ /\ th' = [th EXCEPT ![t].pc = "drop", ![t].entry = failed]
           /\ blocks' = blocks \cup own \cup got
  BY ZenonT(30), <1>1, <1>3a, <1>7 DEF Plain, Relocated
<1>8a. PICK got \in {{}, stubs} :
        \/ /\ th' = [th EXCEPT ![t].pc = "active", ![t].tramp = tramp, ![t].entry = built]
           /\ blocks' = blocks \cup all \cup got
        \/ /\ th' = [th EXCEPT ![t].pc = "drop", ![t].entry = failed]
           /\ blocks' = blocks \cup own \cup got
  BY Zenon, <1>8
<1>8b. got \in SUBSET ((Kinds \cup {"rip"}) \X Nat) /\ \A b \in got : b[1] = "rip"
  BY Zenon, <1>4, StubTypes
<1>9. Orig(c) \in Code /\ tramp \in Code
  BY Zenon, <1>1, <1>6, CodeTypes DEF Cells
<1>10. /\ built \in EntryRec /\ built.id = e.id /\ built.target = c /\ built.patched = c
       /\ built.relocated = Orig(c) /\ built.backup = Orig(c) /\ built.to = d.to
       /\ built.blocks = all
       /\ failed \in EntryRec /\ failed.id = e.id /\ failed.target = c /\ failed.blocks = own
  BY Zenon, <1>1, <1>5, <1>6, <1>9 DEF EntryRec
<1> HIDE DEF own, all, built, failed, tramp, stubs
<1>11. /\ th'[t] \in ThreadRec /\ Others(t)
       /\ th'[t].op = th[t].op /\ th'[t].target = c /\ th'[t].fake = th[t].fake
       /\ \/ /\ th'[t].pc = "active" /\ th'[t].entry = built /\ th'[t].tramp = tramp
             /\ blocks' = blocks \cup all \cup got
          \/ th'[t].pc = "drop" /\ th'[t].entry = failed /\ blocks' = blocks \cup own \cup got
  <2>1. \/ /\ th'[t] = [th[t] EXCEPT !.pc = "active", !.tramp = tramp, !.entry = built]
           /\ blocks' = blocks \cup all \cup got
        \/ /\ th'[t] = [th[t] EXCEPT !.pc = "drop", !.entry = failed]
           /\ blocks' = blocks \cup own \cup got
    BY Zenon, <1>8a DEF EngineInv, TypeInv
  <2>2. Others(t)
    BY Zenon, <1>8a DEF EngineInv, TypeInv, Others
  <2> QED
    BY ZenonT(30), <1>1, <1>9, <1>10, <2>1, <2>2 DEF ThreadRec, Pcs
<1>12. TypeInv'
  <2>1. th' \in [Threads -> ThreadRec]
    BY Zenon, <1>8a, <1>11 DEF EngineInv, TypeInv
  <2>2. blocks' \in SUBSET ((Kinds \cup {"rip"}) \X Nat)
    <3>1. own \in SUBSET ((Kinds \cup {"rip"}) \X Nat) /\ all \in SUBSET ((Kinds \cup {"rip"}) \X Nat)
      BY Zenon, <1>5
    <3>2. blocks \in SUBSET ((Kinds \cup {"rip"}) \X Nat)
      BY Zenon DEF EngineInv, TypeInv
    <3> QED
      BY Zenon, <1>8b, <1>11, <3>1, <3>2
  <2> QED
    BY Zenon, <1>2, <2>1, <2>2 DEF EngineInv, TypeInv, build
<1>13. CallInv'
  <2>1. CallOK(th'[t]) /\ Holds(th'[t])
    BY Zenon, <1>1, <1>11 DEF CallOK, Holds, Routing, Patching
  <2> QED
    BY Zenon, <1>1, <1>2, <1>11, <2>1, CallStep DEF EngineInv
<1>14. TableInv' /\ EntryBlocks' = EntryBlocks /\ \A x : HasEntry(x)' = HasEntry(x)
  BY Zenon, <1>2, TableStill DEF EngineInv
<1>15. CodeInv'
  BY Zenon, <1>1, <1>2, <1>11, CodeStill DEF EngineInv
<1>16. HolderInv'
  <2>1. TrampolineMode' = TrampolineMode
    BY Zenon, <1>2 DEF build, TrampolineMode
  <2>2. (HeadIs(th[t]) /\ RoutingIs(th[t]))'
    BY Zenon, <1>1, <1>2, <1>10, <1>11, <1>14, <2>1 DEF HeadIs, RoutingIs, Patching, tramp
  <2> QED
    BY Zenon, <1>1, <1>2, <2>2, HolderOnly
<1>17. BlockInv'
  <2>1. /\ \A i \in DOMAIN entries : Stamped(entries[i]) /\ entries[i].id < nextId
        /\ OwnedBlocks = EntryBlocks /\ e.id < nextId
        /\ \A i \in DOMAIN entries : entries[i].id # e.id
    BY Zenon, <1>1 DEF EngineInv, BlockInv, OwnedBy
  <2>2. \A i \in DOMAIN entries' : (Stamped(entries[i]) /\ entries[i].id < nextId)'
    BY Zenon, <1>2, <2>1 DEF Stamped
  <2>3. OwnedBlocks' = EntryBlocks' \cup OwnedBy(th'[t])
    <3>1. CASE th'[t].pc = "active" /\ th'[t].entry = built /\ blocks' = blocks \cup all \cup got
      <4>1. OwnedBlocks' = OwnedBlocks \cup all
        BY Zenon, <1>5, <1>8b, <3>1 DEF OwnedBlocks
      <4> QED
        BY Zenon, <1>10, <1>14, <2>1, <3>1, <4>1 DEF OwnedBy
    <3>2. CASE th'[t].pc = "drop" /\ th'[t].entry = failed /\ blocks' = blocks \cup own \cup got
      <4>1. OwnedBlocks' = OwnedBlocks \cup own
        BY Zenon, <1>5, <1>8b, <3>2 DEF OwnedBlocks
      <4> QED
        BY Zenon, <1>10, <1>14, <2>1, <3>2, <4>1 DEF OwnedBy
    <3> QED
      BY Zenon, <1>11, <3>1, <3>2
  <2>4. Stamped(th'[t].entry) /\ th'[t].entry.id = e.id
    <3>1. CASE th'[t].entry = built
      BY Zenon, <1>5, <1>10, <3>1 DEF Stamped
    <3>2. CASE th'[t].entry = failed
      BY Zenon, <1>5, <1>10, <3>2 DEF Stamped
    <3> QED
      BY Zenon, <1>11, <3>1, <3>2
  <2> QED
    BY <1>1, <1>2, <2>1, <2>2, <2>3, <2>4, EngineAssumption DEF BlockInv, OwnedBy, Stamped
<1> QED
  BY Zenon, <1>12, <1>13, <1>14, <1>15, <1>16, <1>17 DEF EngineInv

\* The call of t starts to patch its target.
Begins(t, bytes, next) ==
  th' = [th EXCEPT ![t].pc = "maps", ![t].p = Patch(th[t].target, FALSE, bytes, next)]

\* A patch the holder begins at its target.
LEMMA PatchBegins ==
  ASSUME EngineInv, NEW t \in Threads, lock = t, NEW bytes \in Code, NEW next \in {"activated", "drop"},
         Begins(t, bytes, next),
         UNCHANGED <<build, near, mem, prot, lock, tables, faults>>,
         th[t].pc \in {"active", "activated"}, mem[th[t].target] = Orig(th[t].target),
         bytes = IF next = "activated" THEN th[t].tramp ELSE Orig(th[t].target)
  PROVE  EngineInv'
<1> DEFINE c == th[t].target
           q == Patch(c, FALSE, bytes, next)
<1>1. /\ th[t] \in ThreadRec /\ c \in Targets /\ Holds(th[t]) /\ CallOK(th[t])
      /\ HeadIs(th[t]) /\ RoutingIs(th[t])
  BY Zenon DEF EngineInv, TypeInv, CallInv, CallOK, HolderInv
<1>2. q \in PatchRec /\ q.cell = c /\ q.odd = FALSE /\ q.bytes = bytes /\ q.next = next
  BY Zenon, <1>1, CodeTypes DEF Patch, NoPatch, PatchRec, Cells
<1>3. th' = [th EXCEPT ![t].pc = "maps", ![t].p = q]
  BY Zenon DEF Begins
<1> HIDE DEF q
<1>4. th'[t] = [th[t] EXCEPT !.pc = "maps", !.p = q] /\ Others(t)
  BY Zenon, <1>3 DEF EngineInv, TypeInv, Others
<1>5. th'[t] \in ThreadRec /\ th'[t].pc = "maps" /\ th'[t].p = q /\ Keeps(t)
  <2>1. "maps" \in Patching
    BY Zenon DEF Patching
  <2>2. th'[t] \in ThreadRec
    BY Zenon, <1>1, <1>2, <1>4, <2>1 DEF ThreadRec, Pcs
  <2> QED
    BY Zenon, <1>1, <1>2, <1>4, <2>2 DEF ThreadRec, Pcs, Keeps
<1>6. TypeInv'
  <2>1. th' \in [Threads -> ThreadRec]
    BY Zenon, <1>3, <1>5 DEF EngineInv, TypeInv
  <2> QED
    BY Zenon, <2>1 DEF EngineInv, TypeInv, build, tables
<1>7. CallOK(th'[t]) /\ Holds(th'[t])
  BY Zenon, <1>1, <1>2, <1>5 DEF CallOK, Holds, Keeps, Patching, Routing
<1>8. (HeadIs(th[t]) /\ RoutingIs(th[t]))'
  <2>1. TrampolineMode' = TrampolineMode /\ \A x : HasEntry(x)' = HasEntry(x)
    BY Zenon DEF build, tables, TrampolineMode, HasEntry
  <2>2. HeadIs(th[t])'
    BY Zenon, <1>1, <1>5, <2>1 DEF HeadIs, Keeps
  <2>3. RoutingIs(th[t])'
    BY Zenon, <1>1, <1>2, <1>5, <2>1 DEF RoutingIs, Keeps, Patching
  <2> QED
    BY Zenon, <2>2, <2>3
<1> QED
  BY Zenon, <1>1, <1>4, <1>5, <1>6, <1>7, <1>8, HolderStep

\* Active, and restore_orig_code after it failed.
LEMMA ActiveKeeps ==
  ASSUME Plain, EngineInv, NEW t \in Threads, Active(t) \/ RestoreOrigCode(t)
  PROVE  EngineInv'
<1>1. /\ th[t].pc \in {"active", "activated"} /\ lock = t /\ th[t] \in ThreadRec
      /\ HeadIs(th[t]) /\ RoutingIs(th[t]) /\ th[t].target \in Targets
  BY Zenon DEF Active, RestoreOrigCode, EngineInv, TypeInv, CallInv, CallOK, Holds, Routing, HolderInv
<1>2. /\ mem[th[t].target] = Orig(th[t].target)
      /\ \E next \in {"activated", "drop"} :
           Begins(t, IF next = "activated" THEN th[t].tramp ELSE Orig(th[t].target), next)
  <2>1. CASE Active(t)
    <3>1. mem[th[t].target] = Orig(th[t].target)
      BY Zenon, <1>1, <2>1 DEF Active, HeadIs
    <3>2. (th[t].target \in Thumb) = FALSE
      BY DEF Plain
    <3> QED
      BY Zenon, <2>1, <3>1, <3>2 DEF Active, Begins
  <2>2. CASE RestoreOrigCode(t)
    <3>1. mem[th[t].target] = Orig(th[t].target)
      BY Zenon, <1>1, <2>2 DEF RestoreOrigCode, HeadIs
    <3>2. th[t].entry.patched = th[t].target /\ th[t].entry.backup = Orig(th[t].target)
      BY Zenon, <1>1, <2>2 DEF RestoreOrigCode, RoutingIs
    <3>3. Begins(t, Orig(th[t].target), "drop")
      BY Zenon, <2>2, <3>2 DEF RestoreOrigCode, Begins
    <3>4. "drop" # "activated"
      BY Zenon
    <3> QED
      BY Zenon, <3>1, <3>3, <3>4
  <2> QED
    BY Zenon, <2>1, <2>2
<1>3. PICK next \in {"activated", "drop"} :
        Begins(t, IF next = "activated" THEN th[t].tramp ELSE Orig(th[t].target), next)
  BY Zenon, <1>2
<1> DEFINE bytes == IF next = "activated" THEN th[t].tramp ELSE Orig(th[t].target)
<1>4. bytes \in Code
  BY Zenon, <1>1, CodeTypes DEF ThreadRec, Cells
<1>5. UNCHANGED <<build, near, mem, prot, lock, tables, faults>>
  BY Zenon DEF Active, RestoreOrigCode
<1> HIDE DEF bytes
<1>6. /\ Begins(t, bytes, next)
      /\ bytes = IF next = "activated" THEN th[t].tramp ELSE Orig(th[t].target)
  BY Zenon, <1>3 DEF bytes
<1> QED
  BY Zenon, <1>1, <1>2, <1>4, <1>5, <1>6, PatchBegins

\* The routing is committed: entries.push_back and the HookRuntime record.
LEMMA CommitKeeps ==
  ASSUME EngineInv, NEW t \in Threads, Commit(t)
  PROVE  EngineInv'
<1> DEFINE e == th[t].entry
           n == Len(entries) + 1
<1>1. /\ th[t] \in ThreadRec /\ th[t].pc = "activated" /\ th[t].ret = 0 /\ lock = t
      /\ HeadIs(th[t]) /\ RoutingIs(th[t]) /\ th[t].target \in Targets
  BY Zenon DEF Commit, EngineInv, TypeInv, CallInv, CallOK, Holds, Routing, HolderInv
<1>2. /\ e \in EntryRec /\ e.target \in Targets /\ e.patched = e.target
      /\ e.backup = Orig(e.target) /\ e.relocated = Orig(e.target)
      /\ mem[e.target] = Jump(e.to, TrampolineMode) /\ ~HasEntry(e.target)
      /\ e.target = th[t].target
  BY Zenon, <1>1 DEF RoutingIs, HeadIs, ThreadRec
<1>3. /\ Unlock(t, 0) /\ entries' = Append(entries, e)
      /\ UNCHANGED <<build, near, mem, prot, nextId, blocks, faults>>
  BY Zenon DEF Commit, Added
<1>4. th' \in [Threads -> ThreadRec] /\ lock' = None /\ CallInv' /\ HolderInv'
  BY Zenon, <1>1, <1>3, UnlockStep
<1>5. /\ entries \in Seq(EntryRec) /\ n \in Nat \ {0}
      /\ DOMAIN entries = 1 .. n - 1 /\ DOMAIN entries' = 1 .. n
      /\ \A i \in 1 .. n - 1 : entries'[i] = entries[i]
      /\ entries'[n] = e /\ entries' \in Seq(EntryRec)
  BY <1>2, <1>3, AppendProperties, LenProperties DEF EngineInv, TypeInv
<1>6. TypeInv'
  BY Zenon, <1>3, <1>4, <1>5 DEF EngineInv, TypeInv, build
<1>7. TrampolineMode' = TrampolineMode
  BY Zenon, <1>3 DEF build, TrampolineMode
<1> HIDE DEF n
<1>8. \A i \in DOMAIN entries' : (i \in DOMAIN entries /\ entries'[i] = entries[i]) \/ entries'[i] = e
  BY <1>5
<1>9. TableInv'
  <2>1. \A i, j \in DOMAIN entries' : entries'[i].target = entries'[j].target => i = j
    BY <1>2, <1>5 DEF EngineInv, TableInv, HasEntry
  <2>2. ASSUME NEW i \in DOMAIN entries'
        PROVE  LET d == entries'[i] IN
               /\ d.target \in Targets /\ d.patched = d.target
               /\ d.backup = Orig(d.target) /\ d.relocated = Orig(d.target)
               /\ mem'[d.target] = Jump(d.to, TrampolineMode')
    <3>1. CASE entries'[i] = e
      BY Zenon, <1>2, <1>3, <1>7, <3>1
    <3>2. CASE i \in DOMAIN entries /\ entries'[i] = entries[i]
      BY Zenon, <1>3, <1>7, <3>2 DEF EngineInv, TableInv
    <3> QED
      BY Zenon, <1>8, <3>1, <3>2
  <2> QED
    BY Zenon, <2>1, <2>2 DEF TableInv
<1>10. CodeInv'
  <2> SUFFICES ASSUME NEW c \in Targets, ~HasEntry(c)'
               PROVE  mem[c] = Orig(c)
    BY Zenon, <1>3 DEF CodeInv
  <2>1. ~HasEntry(c) /\ c # e.target
    BY <1>5 DEF HasEntry
  <2> QED
    BY Zenon, <1>1, <1>2, <2>1 DEF EngineInv, CodeInv
<1>11. BlockInv'
  <2>1. EntryBlocks' = EntryBlocks \cup e.blocks
    BY <1>5 DEF EntryBlocks
  <2>2. /\ OwnedBlocks = EntryBlocks \cup e.blocks /\ Stamped(e) /\ e.id < nextId
        /\ \A i \in DOMAIN entries : Stamped(entries[i]) /\ entries[i].id < nextId
    BY Zenon, <1>1 DEF EngineInv, BlockInv, OwnedBy
  <2>3. \A i \in DOMAIN entries' : (Stamped(entries[i]) /\ entries[i].id < nextId)'
    BY Zenon, <1>3, <1>8, <2>2 DEF Stamped
  <2> QED
    BY Zenon, <1>3, <1>4, <2>1, <2>2, <2>3, EngineAssumption DEF BlockInv, OwnedBlocks
<1> QED
  BY Zenon, <1>4, <1>6, <1>9, <1>10, <1>11 DEF EngineInv

\* delete routing and delete entry: what goes is exactly what the call built.
LEMMA DropKeeps ==
  ASSUME EngineInv, NEW t \in Threads, Drop(t)
  PROVE  EngineInv'
<1> DEFINE e == th[t].entry
<1>1. /\ th[t] \in ThreadRec /\ th[t].pc = "drop" /\ lock = t
      /\ HeadIs(th[t]) /\ RoutingIs(th[t]) /\ th[t].target \in Targets
  BY Zenon DEF Drop, EngineInv, TypeInv, CallInv, CallOK, Holds, Routing, HolderInv
<1>2. /\ Unlock(t, -1) /\ blocks' = blocks \ e.blocks
      /\ UNCHANGED <<build, near, mem, prot, entries, nextId, faults>>
  BY Zenon DEF Drop, Released
<1>3. th' \in [Threads -> ThreadRec] /\ lock' = None /\ CallInv' /\ HolderInv'
  BY Zenon, <1>1, <1>2, UnlockStep
<1>4. TypeInv'
  BY Zenon, <1>2, <1>3 DEF EngineInv, TypeInv, build
<1>5. TableInv' /\ EntryBlocks' = EntryBlocks /\ \A x : HasEntry(x)' = HasEntry(x)
  BY Zenon, <1>2, TableStill DEF EngineInv
<1>6. CodeInv'
  BY Zenon, <1>1, <1>2, <1>5 DEF EngineInv, CodeInv, HeadIs
<1>7. BlockInv'
  <2>1. /\ OwnedBlocks = EntryBlocks \cup e.blocks /\ Stamped(e)
        /\ \A i \in DOMAIN entries : Stamped(entries[i]) /\ entries[i].id < nextId
        /\ \A i \in DOMAIN entries : entries[i].id # e.id
    BY Zenon, <1>1 DEF EngineInv, BlockInv, OwnedBy
  <2>2. \A b \in EntryBlocks : b \notin e.blocks
    BY <2>1 DEF EntryBlocks, Stamped
  <2>3. OwnedBlocks' = EntryBlocks
    <3>1. OwnedBlocks' = OwnedBlocks \ e.blocks
      BY Zenon, <1>2 DEF OwnedBlocks
    <3> QED
      BY Zenon, <2>1, <2>2, <3>1
  <2> QED
    BY Zenon, <1>2, <1>3, <1>5, <2>1, <2>3, EngineAssumption DEF BlockInv, Stamped
<1> QED
  BY Zenon, <1>3, <1>4, <1>5, <1>6, <1>7 DEF EngineInv

(* DobbyCodePatch *)

\* The call of t moves to pc with the result ret and the patch q.
Moves(t, pc, ret, q) ==
  /\ th' \in [Threads -> ThreadRec] /\ Others(t) /\ Keeps(t)
  /\ th'[t].pc = pc /\ th'[t].ret = ret /\ th'[t].p = q

LEMMA GotoMoves ==
  ASSUME TypeInv, NEW t \in Threads, NEW pc \in Pcs, th' = Goto(t, pc)
  PROVE  Moves(t, pc, th[t].ret, th[t].p)
<1>1. th' = [th EXCEPT ![t] = [th[t] EXCEPT !.pc = pc]] /\ th[t] \in ThreadRec
  BY Zenon DEF Goto, TypeInv
<1>2. th'[t] = [th[t] EXCEPT !.pc = pc] /\ Others(t)
  BY Zenon, <1>1 DEF TypeInv, Others
<1>3. th'[t] \in ThreadRec /\ Keeps(t) /\ th'[t].pc = pc /\ th'[t].ret = th[t].ret /\ th'[t].p = th[t].p
  BY Zenon, <1>1, <1>2 DEF ThreadRec, Keeps
<1>4. th' \in [Threads -> ThreadRec]
  BY Zenon, <1>1, <1>3 DEF TypeInv
<1> QED
  BY Zenon, <1>2, <1>3, <1>4 DEF Moves

LEMMA ReturnMoves ==
  ASSUME TypeInv, NEW t \in Threads, NEW r \in {0, -1}, th' = PatchReturns(t, r),
         th[t].p.next \in Pcs
  PROVE  Moves(t, th[t].p.next, r, th[t].p)
<1> DEFINE n == th[t].p.next
<1>1. th' = [th EXCEPT ![t] = [th[t] EXCEPT !.pc = n, !.ret = r]] /\ th[t] \in ThreadRec
  BY Zenon DEF PatchReturns, TypeInv
<1> HIDE DEF n
<1>2. th'[t] = [th[t] EXCEPT !.pc = n, !.ret = r] /\ Others(t)
  BY Zenon, <1>1 DEF TypeInv, Others
<1>3. th'[t] \in ThreadRec /\ Keeps(t) /\ th'[t].pc = n /\ th'[t].ret = r /\ th'[t].p = th[t].p
  BY Zenon, <1>1, <1>2 DEF ThreadRec, Keeps, n
<1>4. th' \in [Threads -> ThreadRec]
  BY Zenon, <1>1, <1>3 DEF TypeInv
<1> QED
  BY Zenon, <1>2, <1>3, <1>4 DEF Moves, n

LEMMA UpdateMoves ==
  ASSUME TypeInv, NEW t \in Threads, NEW pc \in Pcs, NEW q \in PatchRec,
         th' = [th EXCEPT ![t].pc = pc, ![t].p = q]
  PROVE  Moves(t, pc, th[t].ret, q)
<1>1. th' = [th EXCEPT ![t] = [th[t] EXCEPT !.pc = pc, !.p = q]] /\ th[t] \in ThreadRec
  BY Zenon DEF TypeInv
<1>2. th'[t] = [th[t] EXCEPT !.pc = pc, !.p = q] /\ Others(t)
  BY Zenon, <1>1 DEF TypeInv, Others
<1>3. th'[t] \in ThreadRec /\ Keeps(t) /\ th'[t].pc = pc /\ th'[t].ret = th[t].ret /\ th'[t].p = q
  BY Zenon, <1>1, <1>2 DEF ThreadRec, Keeps
<1>4. th' \in [Threads -> ThreadRec]
  BY Zenon, <1>1, <1>3 DEF TypeInv
<1> QED
  BY Zenon, <1>2, <1>3, <1>4 DEF Moves

\* A patch in flight is at code with pages, and knows where it returns to.
LEMMA InFlight ==
  ASSUME EngineInv, NEW t \in Threads, th[t].pc \in Patching
  PROVE  /\ th[t] \in ThreadRec /\ th[t].p \in PatchRec /\ th[t].p.cell \in Cells
         /\ Pages(t) \in Seq(DOMAIN InitProt) /\ Pages(t) # <<>>
         /\ DOMAIN Pages(t) = 1 .. Len(Pages(t)) /\ Len(Pages(t)) \in Nat \ {0}
         /\ th[t].p.next \in {"done", "activated", "drop"} /\ th[t].p.next \in Pcs
<1>1. th[t] \in ThreadRec /\ CallOK(th[t])
  BY Zenon DEF EngineInv, TypeInv, CallInv
<1>2. th[t].p.cell \in Cells /\ th[t].p.next \in {"done", "activated", "drop"}
  BY Zenon, <1>1 DEF CallOK, Cells, Holds
<1>3. Pages(t) \in Seq(DOMAIN InitProt) /\ Pages(t) # <<>>
  BY Zenon, <1>2, EngineAssumption DEF Pages
<1>4. DOMAIN Pages(t) = 1 .. Len(Pages(t)) /\ Len(Pages(t)) \in Nat \ {0}
  BY Zenon, <1>3, LenProperties, EmptySeq
<1> QED
  BY Zenon, <1>1, <1>2, <1>3, <1>4 DEF ThreadRec, Pcs

LEMMA ReadMapsEffect ==
  ASSUME EngineInv, NEW t \in Threads, ReadMaps(t)
  PROVE  \/ /\ Moves(t, "unprotect", th[t].ret,
                 [th[t].p EXCEPT !.k = 1, !.saved = [i \in DOMAIN Pages(t) |-> prot[Pages(t)[i]]],
                                 !.old = ReadAt(th[t].p.cell, th[t].p.odd)])
            /\ faults' = faults
         \/ Fail /\ Moves(t, th[t].p.next, -1, th[t].p)
<1> DEFINE saved == [i \in DOMAIN Pages(t) |-> prot[Pages(t)[i]]]
           old == ReadAt(th[t].p.cell, th[t].p.odd)
           q == [th[t].p EXCEPT !.k = 1, !.saved = saved, !.old = old]
<1>1. th[t].pc \in Patching
  BY Zenon DEF ReadMaps, Patching
<1>2. old \in Code
  BY Zenon, <1>1, InFlight, CodeTypes DEF ReadAt, EngineInv, TypeInv
<1>3. saved \in Seq(Perms)
  <2>1. \A i \in DOMAIN Pages(t) : prot[Pages(t)[i]] \in Perms
    BY <1>1, InFlight DEF EngineInv, TypeInv
  <2>2. saved \in [1 .. Len(Pages(t)) -> Perms]
    BY Zenon, <1>1, <2>1, InFlight
  <2> QED
    BY <1>1, <2>2, InFlight, SeqDef
<1>4. \/ th' = [th EXCEPT ![t].pc = "unprotect", ![t].p.k = 1, ![t].p.saved = saved, ![t].p.old = old]
         /\ faults' = faults
      \/ Fail /\ th' = PatchReturns(t, -1)
  BY Zenon DEF ReadMaps
<1> HIDE DEF saved, old
<1>5. q \in PatchRec
  <2>1. th[t].p \in PatchRec /\ 1 \in Nat
    BY Zenon, <1>1, InFlight
  <2> QED
    BY Zenon, <1>2, <1>3, <2>1 DEF PatchRec
<1>6. CASE th' = [th EXCEPT ![t].pc = "unprotect", ![t].p.k = 1, ![t].p.saved = saved, ![t].p.old = old]
           /\ faults' = faults
  <2>1. th' = [th EXCEPT ![t].pc = "unprotect", ![t].p = q]
    <3>1. th \in [Threads -> ThreadRec]
      BY Zenon DEF EngineInv, TypeInv
    <3> QED
      BY ZenonT(60), <1>6, <3>1
  <2> HIDE DEF q
  <2>2. Moves(t, "unprotect", th[t].ret, q)
    BY Zenon, <1>5, <2>1, UpdateMoves DEF EngineInv, Pcs, Patching
  <2> QED
    BY Zenon, <1>6, <2>2 DEF q, saved, old
<1>7. CASE Fail /\ th' = PatchReturns(t, -1)
  BY Zenon, <1>1, <1>7, InFlight, ReturnMoves DEF EngineInv
<1> QED
  BY Zenon, <1>4, <1>6, <1>7

LEMMA UnprotectEffect ==
  ASSUME EngineInv, NEW t \in Threads, Unprotect(t)
  PROVE  \/ /\ prot' = [prot EXCEPT ![Page(t)] = th[t].p.saved[th[t].p.k] \cup {"w"}]
            /\ \/ th[t].p.k = Len(Pages(t)) /\ Moves(t, "write", th[t].ret, th[t].p)
               \/ /\ th[t].p.k # Len(Pages(t))
                  /\ Moves(t, "unprotect", th[t].ret, [th[t].p EXCEPT !.k = th[t].p.k + 1])
            /\ faults' = faults
         \/ Fail /\ Moves(t, "giveup", th[t].ret, th[t].p) /\ prot' = prot
<1> DEFINE q == [th[t].p EXCEPT !.k = th[t].p.k + 1]
<1>1. th[t].pc \in Patching /\ th[t].pc = "unprotect" /\ TypeInv
  BY Zenon DEF Unprotect, Patching, EngineInv
<1>2. \/ /\ prot' = [prot EXCEPT ![Page(t)] = th[t].p.saved[th[t].p.k] \cup {"w"}]
         /\ \/ th[t].p.k = Len(Pages(t)) /\ th' = Goto(t, "write")
            \/ th[t].p.k # Len(Pages(t)) /\ th' = [th EXCEPT ![t].p.k = th[t].p.k + 1]
         /\ faults' = faults
      \/ Fail /\ th' = Goto(t, "giveup") /\ prot' = prot
  BY Zenon DEF Unprotect
<1>3. ASSUME th' = [th EXCEPT ![t].p.k = th[t].p.k + 1]
      PROVE  Moves(t, "unprotect", th[t].ret, q)
  <2>1. th[t].p \in PatchRec /\ th[t] \in ThreadRec /\ th[t].p.k + 1 \in Nat
    BY <1>1, InFlight DEF PatchRec
  <2>2. q \in PatchRec
    BY Zenon, <2>1 DEF PatchRec
  <2>3. th' = [th EXCEPT ![t].pc = "unprotect", ![t].p = q]
    BY Zenon, <1>1, <1>3, <2>1 DEF TypeInv, ThreadRec
  <2> HIDE DEF q
  <2> QED
    BY Zenon, <1>1, <2>2, <2>3, UpdateMoves DEF Pcs, Patching
<1>4. ASSUME NEW pc \in Pcs, th' = Goto(t, pc)
      PROVE  Moves(t, pc, th[t].ret, th[t].p)
  BY Zenon, <1>1, <1>4, GotoMoves
<1>5. "write" \in Pcs /\ "giveup" \in Pcs
  BY Zenon DEF Pcs, Patching
<1> HIDE DEF q
<1> QED
  BY Zenon, <1>2, <1>3, <1>4, <1>5 DEF q

LEMMA WriteEffect ==
  ASSUME EngineInv, NEW t \in Threads, WriteBytes(t)
  PROVE  \/ /\ mem' = [mem EXCEPT ![th[t].p.cell] = Written(th[t].p, th[t].p.bytes)]
            /\ Moves(t, "protect", th[t].ret, [th[t].p EXCEPT !.k = 1])
         \/ mem' = mem /\ th' = th
<1> DEFINE q == [th[t].p EXCEPT !.k = 1]
<1>1. th[t].pc \in Patching /\ TypeInv
  BY Zenon DEF WriteBytes, Patching, EngineInv
<1>2. \/ /\ mem' = [mem EXCEPT ![th[t].p.cell] = Written(th[t].p, th[t].p.bytes)]
         /\ th' = [th EXCEPT ![t].pc = "protect", ![t].p.k = 1]
      \/ mem' = mem /\ th' = th
  BY Zenon DEF WriteBytes
<1>3. ASSUME th' = [th EXCEPT ![t].pc = "protect", ![t].p.k = 1]
      PROVE  Moves(t, "protect", th[t].ret, q)
  <2>1. th[t].p \in PatchRec /\ th[t] \in ThreadRec /\ 1 \in Nat
    BY Zenon, <1>1, InFlight
  <2>2. q \in PatchRec
    BY Zenon, <2>1 DEF PatchRec
  <2>3. th' = [th EXCEPT ![t].pc = "protect", ![t].p = q]
    BY Zenon, <1>1, <1>3, <2>1 DEF TypeInv, ThreadRec
  <2> HIDE DEF q
  <2> QED
    BY Zenon, <1>1, <2>2, <2>3, UpdateMoves DEF Pcs, Patching
<1> HIDE DEF q
<1> QED
  BY Zenon, <1>2, <1>3 DEF q

LEMMA ProtectEffect ==
  ASSUME EngineInv, NEW t \in Threads, Protect(t)
  PROVE  \E ok \in BOOLEAN :
           /\ IF ok THEN faults' = faults ELSE Fail
           /\ prot' = IF ok THEN [prot EXCEPT ![Page(t)] = th[t].p.saved[th[t].p.k]] ELSE prot
           /\ \/ /\ th[t].p.k < Len(Pages(t))
                 /\ Moves(t, "protect", th[t].ret,
                      [th[t].p EXCEPT !.k = th[t].p.k + 1, !.bad = (th[t].p.bad \/ ~ok)])
              \/ /\ ~(th[t].p.k < Len(Pages(t))) /\ (th[t].p.bad \/ ~ok)
                 /\ Moves(t, "reopen", th[t].ret, th[t].p)
              \/ /\ ~(th[t].p.k < Len(Pages(t))) /\ ~(th[t].p.bad \/ ~ok)
                 /\ Moves(t, th[t].p.next, 0, th[t].p)
<1>1. th[t].pc \in Patching /\ th[t].pc = "protect" /\ TypeInv
  BY Zenon DEF Protect, Patching, EngineInv
<1>2. PICK ok \in BOOLEAN :
        /\ IF ok THEN faults' = faults ELSE Fail
        /\ prot' = IF ok THEN [prot EXCEPT ![Page(t)] = th[t].p.saved[th[t].p.k]] ELSE prot
        /\ th' = IF th[t].p.k < Len(Pages(t))
                   THEN [th EXCEPT ![t].p.k = th[t].p.k + 1, ![t].p.bad = (th[t].p.bad \/ ~ok)]
                 ELSE IF (th[t].p.bad \/ ~ok) THEN Goto(t, "reopen") ELSE PatchReturns(t, 0)
  BY Zenon DEF Protect
<1> DEFINE bad == th[t].p.bad \/ ~ok
           q == [th[t].p EXCEPT !.k = th[t].p.k + 1, !.bad = bad]
<1>3. th[t].p \in PatchRec /\ th[t] \in ThreadRec /\ th[t].p.k + 1 \in Nat
  BY <1>1, InFlight DEF PatchRec
<1>4. bad \in BOOLEAN
  BY Zenon, <1>3 DEF PatchRec
<1> HIDE DEF bad
<1>5. q \in PatchRec
  BY Zenon, <1>3, <1>4 DEF PatchRec
<1>6. ASSUME th' = [th EXCEPT ![t].p.k = th[t].p.k + 1, ![t].p.bad = bad]
      PROVE  Moves(t, "protect", th[t].ret, q)
  <2>3. th' = [th EXCEPT ![t].pc = "protect", ![t].p = q]
    BY ZenonT(30), <1>1, <1>3, <1>6 DEF TypeInv, ThreadRec
  <2> HIDE DEF q
  <2> QED
    BY Zenon, <1>1, <1>5, <2>3, UpdateMoves DEF Pcs, Patching
<1>7. ASSUME th' = Goto(t, "reopen")
      PROVE  Moves(t, "reopen", th[t].ret, th[t].p)
  BY Zenon, <1>1, <1>7, GotoMoves DEF Pcs, Patching
<1>8. ASSUME th' = PatchReturns(t, 0)
      PROVE  Moves(t, th[t].p.next, 0, th[t].p)
  BY Zenon, <1>1, <1>8, InFlight, ReturnMoves
<1> HIDE DEF q
<1>9. th' = IF th[t].p.k < Len(Pages(t))
              THEN [th EXCEPT ![t].p.k = th[t].p.k + 1, ![t].p.bad = bad]
            ELSE IF bad THEN Goto(t, "reopen") ELSE PatchReturns(t, 0)
  BY Zenon, <1>2 DEF bad
<1>10. \/ th[t].p.k < Len(Pages(t)) /\ Moves(t, "protect", th[t].ret, q)
       \/ ~(th[t].p.k < Len(Pages(t))) /\ bad /\ Moves(t, "reopen", th[t].ret, th[t].p)
       \/ ~(th[t].p.k < Len(Pages(t))) /\ ~bad /\ Moves(t, th[t].p.next, 0, th[t].p)
  BY Zenon, <1>6, <1>7, <1>8, <1>9
<1> QED
  BY Zenon, <1>2, <1>10 DEF q, bad

LEMMA RestoreEffects ==
  ASSUME EngineInv, NEW t \in Threads
  PROVE  /\ Reopen(t) => Moves(t, "rollback", th[t].ret, th[t].p)
         /\ GiveUp(t) => Moves(t, th[t].p.next, -1, th[t].p)
         /\ RollBack(t) =>
              \/ /\ mem' = [mem EXCEPT ![th[t].p.cell] = Written(th[t].p, th[t].p.old)]
                 /\ Moves(t, "giveup", th[t].ret, th[t].p)
              \/ mem' = mem /\ th' = th
<1>1. ASSUME NEW pc \in Pcs, th' = Goto(t, pc)
      PROVE  Moves(t, pc, th[t].ret, th[t].p)
  BY Zenon, <1>1, GotoMoves DEF EngineInv
<1>2. "rollback" \in Pcs /\ "giveup" \in Pcs
  BY Zenon DEF Pcs, Patching
<1>3. ASSUME Reopen(t) PROVE th' = Goto(t, "rollback")
  BY Zenon, <1>3 DEF Reopen
<1>4. ASSUME GiveUp(t) PROVE Moves(t, th[t].p.next, -1, th[t].p)
  <2>1. th' = PatchReturns(t, -1)
    BY Zenon, <1>4 DEF GiveUp
  <2>2. th[t].pc \in Patching
    BY Zenon, <1>4 DEF GiveUp, Patching
  <2> QED
    BY Zenon, <2>1, <2>2, InFlight, ReturnMoves DEF EngineInv
<1>5. ASSUME RollBack(t)
      PROVE  \/ /\ mem' = [mem EXCEPT ![th[t].p.cell] = Written(th[t].p, th[t].p.old)]
                /\ th' = Goto(t, "giveup")
             \/ mem' = mem /\ th' = th
  BY Zenon, <1>5 DEF RollBack
<1> QED
  BY Zenon, <1>1, <1>2, <1>3, <1>4, <1>5

\* What a patch saved of its pages are protections.
LEMMA SavedTypes ==
  ASSUME EngineInv, NEW t \in Threads, th[t].pc \in Patching \ {"maps"}
  PROVE  \A i \in DOMAIN Pages(t) : th[t].p.saved[i] \in Perms
<1>1. th[t].p.saved \in Seq(Perms) /\ DOMAIN th[t].p.saved = DOMAIN Pages(t)
  BY Zenon, InFlight DEF EngineInv, CallInv, CallOK, PatchRec, Pages
<1> QED
  BY <1>1

\* Restoring pages from what was saved yields protections.
LEMMA RestoredTypes ==
  ASSUME EngineInv, NEW t \in Threads, Reopen(t) \/ GiveUp(t)
  PROVE  prot' \in [DOMAIN InitProt -> Perms]
<1> DEFINE back(q) == th[t].p.saved[CHOOSE i \in DOMAIN Pages(t) : Pages(t)[i] = q]
<1>1. DOMAIN prot = DOMAIN InitProt /\ \A q \in DOMAIN prot : prot[q] \in Perms
  BY Zenon DEF EngineInv, TypeInv
<1>2. ASSUME NEW q \in DOMAIN prot, \E i \in DOMAIN Pages(t) : Pages(t)[i] = q
      PROVE  back(q) \in Perms /\ back(q) \cup {"w"} \in Perms
  <2>1. th[t].pc \in Patching \ {"maps"}
    BY Zenon DEF Reopen, GiveUp, Patching
  <2>2. back(q) \in Perms
    BY Zenon, <1>2, <2>1, SavedTypes
  <2> QED
    BY Zenon, <2>2 DEF Perms
<1>3. \E lost : \/ prot' = [q \in DOMAIN prot |->
                       IF \E i \in DOMAIN Pages(t) : Pages(t)[i] = q /\ q \notin lost
                         THEN back(q) \cup {"w"} ELSE prot[q]]
                 \/ prot' = [q \in DOMAIN prot |->
                       IF \E i \in DOMAIN Pages(t) : Pages(t)[i] = q /\ q \notin lost
                         THEN back(q) ELSE prot[q]]
  BY Zenon DEF Reopen, GiveUp
<1> HIDE DEF back
<1> QED
  BY Zenon, <1>1, <1>2, <1>3

\* The patch q goes on where p was.
SamePatch(p, q) ==
  q.cell = p.cell /\ q.odd = p.odd /\ q.bytes = p.bytes /\ q.next = p.next

\* What a step of a patch by the holder must leave in its target.
LeavesHead(r, pc, ret, q) ==
  LET c == r.target IN
  /\ pc \in {"unprotect", "write", "giveup", "drop"} => mem'[c] = Orig(c)
  /\ pc = "protect" => mem'[c] = r.p.bytes
  /\ pc = "activated" => mem'[c] = IF ret = 0 THEN r.tramp ELSE Orig(c)
  /\ pc \in Patching => q.old = Orig(c)

\* A step of DobbyCodePatch, called by the user or by the holder.
LEMMA PatchStep ==
  ASSUME EngineInv, NEW t \in Threads, th[t].pc \in Patching,
         NEW pc, NEW ret, NEW q, Moves(t, pc, ret, q), SamePatch(th[t].p, q),
         pc \in Patching \ {"maps"} \/ pc = th[t].p.next,
         pc \in Patching => DOMAIN q.saved = DOMAIN Pages(t),
         pc \in {"unprotect", "protect"} => q.k \in DOMAIN Pages(t),
         TypeInv', UNCHANGED <<build, lock, tables>>,
         \A c \in Cells \ {th[t].p.cell} : mem'[c] = mem[c],
         th[t].op # "patch" => LeavesHead(th[t], pc, ret, q)
  PROVE  EngineInv'
<1>1. th[t] \in ThreadRec /\ CallOK(th[t])
  BY Zenon DEF EngineInv, TypeInv, CallInv
<1>2. /\ Others(t) /\ Keeps(t) /\ th'[t].pc = pc /\ th'[t].ret = ret /\ th'[t].p = q
      /\ th'[t].op = th[t].op /\ th'[t].target = th[t].target /\ th'[t].fake = th[t].fake
  BY Zenon DEF Moves, Keeps
<1>3. CASE th[t].op = "patch"
  <2>1. th[t].p.cell \in UserCells /\ th[t].p.next = "done"
    BY Zenon, <1>1, <1>3 DEF CallOK
  <2>2. CallOK(th'[t]) /\ ~Holds(th'[t]) /\ ~Holds(th[t])
    BY Zenon, <1>1, <1>2, <1>3, <2>1 DEF CallOK, Holds, SamePatch, Routing, Patching, Pages
  <2>3. \A c \in Targets : mem'[c] = mem[c]
    BY Zenon, <2>1, EngineAssumption DEF Cells
  <2> QED
    BY Zenon, <1>2, <2>2, <2>3, OutsideStep
<1>4. CASE th[t].op # "patch"
  <2>1. /\ th[t].p.cell = th[t].target /\ th[t].p.odd = FALSE
        /\ th[t].p.next \in {"activated", "drop"} /\ Holds(th[t]) /\ lock = t
        /\ th[t].target \in Targets /\ HeadIs(th[t]) /\ RoutingIs(th[t])
    BY Zenon, <1>1, <1>4 DEF CallOK, Holds, EngineInv, CallInv, HolderInv
  <2>2. Holds(th'[t])
    BY Zenon, <1>2, <1>4, <2>1 DEF Holds, Routing
  <2>3. CallOK(th'[t])
    BY Zenon, <1>1, <1>2, <1>4, <2>1 DEF CallOK, SamePatch, Patching, Pages, Holds
  <2>4. \A c \in Targets \ {th[t].target} : mem'[c] = mem[c]
    BY Zenon, <2>1 DEF Cells
  <2>5. TrampolineMode' = TrampolineMode /\ \A x : HasEntry(x)' = HasEntry(x)
    BY Zenon DEF build, tables, TrampolineMode, HasEntry
  <2>6. /\ pc \in Patching \ {"maps"} \/ pc \in {"activated", "drop"}
        /\ LeavesHead(th[t], pc, ret, q)
    BY Zenon, <1>4, <2>1
  <2>7. HeadIs(th[t])'
    <3>1. pc \in {"unprotect", "write", "protect", "reopen", "rollback", "giveup", "activated", "drop"}
      BY Zenon, <2>6 DEF Patching
    <3>2. ~HasEntry(th[t].target)
      BY Zenon, <2>1 DEF HeadIs, Patching
    <3>3. \A i \in DOMAIN entries' : entries'[i].target # th'[t].target
      BY Zenon, <1>2, <3>2 DEF HasEntry, tables
    <3>4. LeavesHead(th[t], pc, ret, q) /\ SamePatch(th[t].p, q)
      BY Zenon, <2>6
    <3> QED
      BY Zenon, <1>2, <3>1, <3>3, <3>4 DEF HeadIs, LeavesHead, SamePatch, HasEntry, Keeps
  <2>8. RoutingIs(th[t])'
    BY Zenon, <1>2, <2>1, <2>5, <2>6 DEF RoutingIs, LeavesHead, Patching, Keeps, SamePatch
  <2>9. th[t].pc \notin {"find", "build"} /\ th'[t].pc \notin {"find", "build"}
    BY Zenon, <1>2, <2>6 DEF Patching
  <2> QED
    BY Zenon, <1>2, <2>1, <2>2, <2>3, <2>4, <2>7, <2>8, <2>9, HolderStep
<1> QED
  BY Zenon, <1>3, <1>4

\* A patch reads the maps: at its target it saves the target's own code.
LEMMA ReadMapsKeeps ==
  ASSUME EngineInv, NEW t \in Threads, ReadMaps(t)
  PROVE  EngineInv'
<1> DEFINE p == th[t].p
           saved == [i \in DOMAIN Pages(t) |-> prot[Pages(t)[i]]]
           old == ReadAt(p.cell, p.odd)
           q == [p EXCEPT !.k = 1, !.saved = saved, !.old = old]
<1>1. /\ th[t].pc = "maps" /\ th[t].pc \in Patching /\ UNCHANGED <<Same, mem, prot>>
  BY Zenon DEF ReadMaps, Patching
<1>2. /\ p \in PatchRec /\ DOMAIN Pages(t) = 1 .. Len(Pages(t)) /\ Len(Pages(t)) \in Nat \ {0}
      /\ p.next \in {"done", "activated", "drop"}
  BY Zenon, <1>1, InFlight
<1>3. th[t].op # "patch" =>
        /\ p.cell = th[t].target /\ p.odd = FALSE /\ p.next \in {"activated", "drop"}
        /\ mem[th[t].target] = Orig(th[t].target)
  BY Zenon, <1>1 DEF EngineInv, CallInv, CallOK, HolderInv, HeadIs, Holds
<1>4. UNCHANGED <<build, near, lock, tables, mem, prot>>
  BY Zenon, <1>1 DEF Same
<1>5. ASSUME th' \in [Threads -> ThreadRec], faults' \in Nat
      PROVE  TypeInv'
  BY Zenon, <1>4, <1>5 DEF EngineInv, TypeInv, build, tables
<1>6. CASE Moves(t, "unprotect", th[t].ret, q) /\ faults' = faults
  <2>1. SamePatch(p, q) /\ q.saved = saved /\ q.k = 1 /\ q.old = old
    BY Zenon, <1>2 DEF SamePatch, PatchRec
  <2>2. DOMAIN saved = DOMAIN Pages(t) /\ 1 \in DOMAIN Pages(t)
    BY <1>2
  <2>3. th[t].op # "patch" => old = Orig(th[t].target)
    BY Zenon, <1>3 DEF ReadAt
  <2>4. "unprotect" \in Patching \ {"maps"}
    BY Zenon DEF Patching
  <2>5. TypeInv'
    BY Zenon, <1>5, <1>6 DEF Moves, EngineInv, TypeInv
  <2> HIDE DEF q, old, saved
  <2>6. th[t].op # "patch" => LeavesHead(th[t], "unprotect", th[t].ret, q)
    BY Zenon, <1>3, <1>4, <2>1, <2>3 DEF LeavesHead
  <2>7. DOMAIN q.saved = DOMAIN Pages(t) /\ q.k \in DOMAIN Pages(t)
    BY Zenon, <2>1, <2>2
  <2> QED
    BY Zenon, <1>1, <1>4, <1>6, <2>1, <2>4, <2>5, <2>6, <2>7, PatchStep
<1>7. CASE Fail /\ Moves(t, p.next, -1, p)
  <2>1. TypeInv'
    BY <1>5, <1>7 DEF Moves, Fail, EngineInv, TypeInv
  <2>2. p.next \notin Patching /\ SamePatch(p, p)
    BY Zenon, <1>2 DEF Patching, SamePatch
  <2>3. th[t].op # "patch" => LeavesHead(th[t], p.next, -1, p)
    BY <1>3, <1>4, <2>2 DEF LeavesHead
  <2>4. p.next \notin {"unprotect", "protect"}
    BY Zenon, <1>2
  <2> QED
    BY Zenon, <1>1, <1>4, <1>7, <2>1, <2>2, <2>3, <2>4, PatchStep
<1> QED
  BY Zenon, <1>6, <1>7, ReadMapsEffect

\* A page becomes writable, or the patch gives up.
LEMMA UnprotectKeeps ==
  ASSUME EngineInv, NEW t \in Threads, Unprotect(t)
  PROVE  EngineInv'
<1> DEFINE p == th[t].p
           q == [p EXCEPT !.k = p.k + 1]
<1>1. /\ th[t].pc = "unprotect" /\ th[t].pc \in Patching /\ UNCHANGED <<build, near, lock, tables, mem>>
  BY Zenon DEF Unprotect, Patching, Same
<1>2. /\ p \in PatchRec /\ DOMAIN Pages(t) = 1 .. Len(Pages(t)) /\ Len(Pages(t)) \in Nat \ {0}
      /\ Pages(t) \in Seq(DOMAIN InitProt)
      /\ DOMAIN p.saved = DOMAIN Pages(t) /\ p.k \in DOMAIN Pages(t)
  BY Zenon, <1>1, InFlight DEF EngineInv, CallInv, CallOK, Pages
<1>3. th[t].op # "patch" => mem[th[t].target] = Orig(th[t].target) /\ p.old = Orig(th[t].target)
  BY Zenon, <1>1 DEF EngineInv, CallInv, HolderInv, HeadIs, RoutingIs, Holds
<1>4. prot' \in [DOMAIN InitProt -> Perms] /\ faults' \in Nat
  <2>1. th[t].p.saved[th[t].p.k] \in Perms
    BY Zenon, <1>1, <1>2, SavedTypes
  <2>2. \/ prot' = [prot EXCEPT ![Page(t)] = th[t].p.saved[th[t].p.k] \cup {"w"}] /\ faults' = faults
        \/ prot' = prot /\ faults' = faults + 1
    BY Zenon, UnprotectEffect DEF Fail
  <2>3. th[t].p.saved[th[t].p.k] \cup {"w"} \in Perms
    BY Zenon, <2>1 DEF Perms
  <2>4. prot \in [DOMAIN InitProt -> Perms] /\ faults \in Nat
    BY Zenon DEF EngineInv, TypeInv
  <2> QED
    BY <2>2, <2>3, <2>4
<1>5. ASSUME th' \in [Threads -> ThreadRec]
      PROVE  TypeInv'
  BY Zenon, <1>1, <1>4, <1>5 DEF EngineInv, TypeInv, build, tables
<1>6. SamePatch(p, q) /\ q.k = p.k + 1 /\ q.saved = p.saved /\ q.old = p.old /\ SamePatch(p, p)
  BY Zenon, <1>2 DEF SamePatch, PatchRec
<1>7. \A pc \in {"write", "giveup", "unprotect"} : pc \in Patching \ {"maps"}
  BY Zenon DEF Patching
<1> HIDE DEF q
<1>8. ASSUME NEW pc \in {"write", "giveup"}, Moves(t, pc, th[t].ret, p)
      PROVE  EngineInv'
  <2>1. TypeInv'
    BY Zenon, <1>5, <1>8 DEF Moves
  <2>2. th[t].op # "patch" => LeavesHead(th[t], pc, th[t].ret, p)
    BY Zenon, <1>1, <1>3 DEF LeavesHead
  <2> QED
    BY Zenon, <1>1, <1>2, <1>6, <1>7, <1>8, <2>1, <2>2, PatchStep
<1>9. ASSUME p.k # Len(Pages(t)), Moves(t, "unprotect", th[t].ret, q)
      PROVE  EngineInv'
  <2>1. TypeInv'
    BY Zenon, <1>5, <1>9 DEF Moves
  <2>2. th[t].op # "patch" => LeavesHead(th[t], "unprotect", th[t].ret, q)
    BY Zenon, <1>1, <1>3, <1>6 DEF LeavesHead
  <2>3. q.k \in DOMAIN Pages(t) /\ DOMAIN q.saved = DOMAIN Pages(t)
    BY <1>2, <1>6, <1>9
  <2> QED
    BY Zenon, <1>1, <1>6, <1>7, <1>9, <2>1, <2>2, <2>3, PatchStep
<1>10. \/ \E pc \in {"write", "giveup"} : Moves(t, pc, th[t].ret, p)
       \/ p.k # Len(Pages(t)) /\ Moves(t, "unprotect", th[t].ret, q)
  BY Zenon, UnprotectEffect DEF q
<1> QED
  BY Zenon, <1>8, <1>9, <1>10

\* memcpy of the new bytes.
LEMMA WriteKeeps ==
  ASSUME EngineInv, NEW t \in Threads, WriteBytes(t)
  PROVE  EngineInv'
<1> DEFINE p == th[t].p
           q == [p EXCEPT !.k = 1]
           m == Written(p, p.bytes)
<1>1. /\ th[t].pc = "write" /\ th[t].pc \in Patching /\ UNCHANGED <<build, near, lock, tables, prot, faults>>
  BY Zenon DEF WriteBytes, Patching, Same
<1>2. /\ p \in PatchRec /\ DOMAIN Pages(t) = 1 .. Len(Pages(t)) /\ Len(Pages(t)) \in Nat \ {0}
      /\ DOMAIN p.saved = DOMAIN Pages(t) /\ p.cell \in Cells
  BY Zenon, <1>1, InFlight DEF EngineInv, CallInv, CallOK, Pages
<1>3. th[t].op # "patch" =>
        p.old = Orig(th[t].target) /\ p.cell = th[t].target /\ p.odd = FALSE
  BY Zenon, <1>1 DEF EngineInv, CallInv, CallOK, HolderInv, RoutingIs, Holds
<1>4. m \in Code
  BY Zenon, <1>2, CodeTypes DEF Written, PatchRec
<1>5. SamePatch(p, q) /\ q.k = 1 /\ q.saved = p.saved /\ q.old = p.old
  BY Zenon, <1>2 DEF SamePatch, PatchRec
<1>6. th[t].op # "patch" => m = p.bytes
  BY Zenon, <1>3 DEF Written
<1> HIDE DEF q, m
<1>7. CASE mem' = [mem EXCEPT ![p.cell] = m] /\ Moves(t, "protect", th[t].ret, q)
  <2>1. TypeInv'
    BY Zenon, <1>1, <1>2, <1>4, <1>7 DEF Moves, EngineInv, TypeInv, build, tables
  <2>2. mem'[p.cell] = m /\ \A c \in Cells \ {p.cell} : mem'[c] = mem[c]
    BY Zenon, <1>2, <1>7 DEF EngineInv, TypeInv
  <2>3. th[t].op # "patch" => LeavesHead(th[t], "protect", th[t].ret, q)
    BY Zenon, <1>3, <1>5, <1>6, <2>2 DEF LeavesHead
  <2>4. "protect" \in Patching \ {"maps"} /\ 1 \in DOMAIN Pages(t)
    BY <1>2 DEF Patching
  <2> QED
    BY Zenon, <1>1, <1>2, <1>5, <1>7, <2>1, <2>2, <2>3, <2>4, PatchStep
<1>8. CASE mem' = mem /\ th' = th
  BY Zenon, <1>1, <1>8, NothingMoves DEF EngineInv, TypeInv
<1> QED
  BY Zenon, <1>7, <1>8, WriteEffect DEF q, m

\* A page gets its protection back, or the restore failed.
LEMMA ProtectKeeps ==
  ASSUME EngineInv, NEW t \in Threads, Protect(t)
  PROVE  EngineInv'
<1> DEFINE p == th[t].p
           q(ok) == [p EXCEPT !.k = p.k + 1, !.bad = (p.bad \/ ~ok)]
<1>1. /\ th[t].pc = "protect" /\ th[t].pc \in Patching /\ UNCHANGED <<build, near, lock, tables, mem>>
  BY Zenon DEF Protect, Patching, Same
<1>2. /\ p \in PatchRec /\ DOMAIN Pages(t) = 1 .. Len(Pages(t)) /\ Len(Pages(t)) \in Nat \ {0}
      /\ Pages(t) \in Seq(DOMAIN InitProt) /\ p.next \in {"done", "activated", "drop"}
      /\ DOMAIN p.saved = DOMAIN Pages(t) /\ p.k \in DOMAIN Pages(t)
  BY Zenon, <1>1, InFlight DEF EngineInv, CallInv, CallOK, Pages
<1>3. th[t].op # "patch" =>
        /\ mem[th[t].target] = p.bytes /\ p.old = Orig(th[t].target)
        /\ p.bytes = (IF p.next = "activated" THEN th[t].tramp ELSE Orig(th[t].target))
        /\ p.next \in {"activated", "drop"}
  BY Zenon, <1>1 DEF EngineInv, CallInv, CallOK, HolderInv, HeadIs, RoutingIs, Holds
<1>4. PICK ok \in BOOLEAN :
           /\ IF ok THEN faults' = faults ELSE Fail
           /\ prot' = IF ok THEN [prot EXCEPT ![Page(t)] = th[t].p.saved[th[t].p.k]] ELSE prot
           /\ \/ p.k < Len(Pages(t)) /\ Moves(t, "protect", th[t].ret, q(ok))
              \/ Moves(t, "reopen", th[t].ret, p)
              \/ Moves(t, p.next, 0, p)
  BY Zenon, ProtectEffect
<1>5. prot' \in [DOMAIN InitProt -> Perms] /\ faults' \in Nat
  <2>1. th[t].p.saved[th[t].p.k] \in Perms
    BY Zenon, <1>1, <1>2, SavedTypes
  <2>2. prot \in [DOMAIN InitProt -> Perms] /\ faults \in Nat
    BY Zenon DEF EngineInv, TypeInv
  <2>3. /\ faults' = faults \/ faults' = faults + 1
        /\ prot' = prot \/ prot' = [prot EXCEPT ![Page(t)] = th[t].p.saved[th[t].p.k]]
    BY Zenon, <1>4 DEF Fail
  <2> QED
    BY <2>1, <2>2, <2>3
<1>6. ASSUME th' \in [Threads -> ThreadRec]
      PROVE  TypeInv'
  BY Zenon, <1>1, <1>5, <1>6 DEF EngineInv, TypeInv, build, tables
<1>7. SamePatch(p, q(ok)) /\ q(ok).k = p.k + 1 /\ q(ok).saved = p.saved /\ q(ok).old = p.old
      /\ SamePatch(p, p)
  BY Zenon, <1>2 DEF SamePatch, PatchRec
<1> HIDE DEF q
<1>8. CASE p.k < Len(Pages(t)) /\ Moves(t, "protect", th[t].ret, q(ok))
  <2>1. TypeInv'
    BY Zenon, <1>6, <1>8 DEF Moves
  <2>2. th[t].op # "patch" => LeavesHead(th[t], "protect", th[t].ret, q(ok))
    BY Zenon, <1>1, <1>3, <1>7 DEF LeavesHead
  <2>3. /\ q(ok).k \in DOMAIN Pages(t) /\ DOMAIN q(ok).saved = DOMAIN Pages(t)
        /\ "protect" \in Patching \ {"maps"}
    BY <1>2, <1>7, <1>8 DEF Patching
  <2> QED
    BY Zenon, <1>1, <1>7, <1>8, <2>1, <2>2, <2>3, PatchStep
<1>9. CASE Moves(t, "reopen", th[t].ret, p)
  <2>1. TypeInv'
    BY Zenon, <1>6, <1>9 DEF Moves
  <2>2. th[t].op # "patch" => LeavesHead(th[t], "reopen", th[t].ret, p)
    BY Zenon, <1>1, <1>3 DEF LeavesHead
  <2>3. "reopen" \in Patching \ {"maps"}
    BY Zenon DEF Patching
  <2> QED
    BY Zenon, <1>1, <1>2, <1>7, <1>9, <2>1, <2>2, <2>3, PatchStep
<1>10. CASE Moves(t, p.next, 0, p)
  <2>1. TypeInv'
    BY Zenon, <1>6, <1>10 DEF Moves
  <2>2. p.next \notin Patching /\ p.next \notin {"unprotect", "protect"}
    BY Zenon, <1>2 DEF Patching
  <2>3. th[t].op # "patch" => LeavesHead(th[t], p.next, 0, p)
    BY Zenon, <1>1, <1>3, <2>2 DEF LeavesHead
  <2> QED
    BY Zenon, <1>1, <1>7, <1>10, <2>1, <2>2, <2>3, PatchStep
<1> QED
  BY Zenon, <1>4, <1>8, <1>9, <1>10

\* The roll back of a patch: every page writable again, the old bytes back,
\* and the protections.
LEMMA RollBackKeeps ==
  ASSUME EngineInv, NEW t \in Threads, Reopen(t) \/ RollBack(t) \/ GiveUp(t)
  PROVE  EngineInv'
<1> DEFINE p == th[t].p
           m == Written(p, p.old)
<1>1. /\ th[t].pc \in {"reopen", "rollback", "giveup"} /\ th[t].pc \in Patching
      /\ UNCHANGED <<build, near, lock, tables>>
  BY Zenon DEF Reopen, RollBack, GiveUp, Patching, Same
<1>2. /\ p \in PatchRec /\ DOMAIN Pages(t) = 1 .. Len(Pages(t)) /\ Len(Pages(t)) \in Nat \ {0}
      /\ p.next \in {"done", "activated", "drop"} /\ p.cell \in Cells
      /\ DOMAIN p.saved = DOMAIN Pages(t) /\ SamePatch(p, p)
  BY Zenon, <1>1, InFlight DEF EngineInv, CallInv, CallOK, Pages, SamePatch
<1>3. th[t].op # "patch" =>
        /\ p.old = Orig(th[t].target) /\ p.cell = th[t].target /\ p.odd = FALSE
        /\ p.next \in {"activated", "drop"}
        /\ th[t].pc = "giveup" => mem[th[t].target] = Orig(th[t].target)
  BY Zenon, <1>1 DEF EngineInv, CallInv, CallOK, HolderInv, HeadIs, RoutingIs, Holds
<1>4. m \in Code /\ (th[t].op # "patch" => m = Orig(th[t].target))
  BY Zenon, <1>2, <1>3, CodeTypes DEF Written, PatchRec
<1>5. faults' \in Nat
  <2>1. faults' = faults \/ faults' = faults + 1
    BY Zenon DEF Reopen, RollBack, GiveUp, Fail
  <2> QED
    BY <2>1 DEF EngineInv, TypeInv
<1>6. \A pc \in {"rollback", "giveup"} : pc \in Patching \ {"maps"} /\ pc \notin {"unprotect", "protect"}
  BY Zenon DEF Patching
<1> HIDE DEF m
<1>7. CASE Reopen(t)
  <2>1. Moves(t, "rollback", th[t].ret, p) /\ mem' = mem
    BY Zenon, <1>7, RestoreEffects DEF Reopen
  <2>2. TypeInv'
    BY Zenon, <1>1, <1>5, <1>7, <2>1, RestoredTypes DEF Moves, EngineInv, TypeInv, build, tables
  <2>3. th[t].op # "patch" => LeavesHead(th[t], "rollback", th[t].ret, p)
    BY Zenon, <1>3 DEF LeavesHead
  <2> QED
    BY Zenon, <1>1, <1>2, <1>6, <2>1, <2>2, <2>3, PatchStep
<1>8. CASE GiveUp(t)
  <2>1. Moves(t, p.next, -1, p) /\ mem' = mem /\ th[t].pc = "giveup"
    BY Zenon, <1>8, RestoreEffects DEF GiveUp
  <2>2. TypeInv'
    BY Zenon, <1>1, <1>5, <1>8, <2>1, RestoredTypes DEF Moves, EngineInv, TypeInv, build, tables
  <2>3. p.next \notin Patching /\ p.next \notin {"unprotect", "protect"}
    BY Zenon, <1>2 DEF Patching
  <2>4. th[t].op # "patch" => LeavesHead(th[t], p.next, -1, p)
    BY <1>3, <2>1, <2>3 DEF LeavesHead
  <2> QED
    BY Zenon, <1>1, <1>2, <2>1, <2>2, <2>3, <2>4, PatchStep
<1>9. CASE RollBack(t)
  <2>1. prot' = prot
    BY Zenon, <1>9 DEF RollBack
  <2>2. CASE mem' = [mem EXCEPT ![p.cell] = m] /\ Moves(t, "giveup", th[t].ret, p)
    <3>1. TypeInv'
      BY Zenon, <1>1, <1>2, <1>4, <1>5, <2>1, <2>2 DEF Moves, EngineInv, TypeInv, build, tables
    <3>2. mem'[p.cell] = m /\ \A c \in Cells \ {p.cell} : mem'[c] = mem[c]
      BY Zenon, <1>2, <2>2 DEF EngineInv, TypeInv
    <3>3. th[t].op # "patch" => LeavesHead(th[t], "giveup", th[t].ret, p)
      BY Zenon, <1>3, <1>4, <3>2 DEF LeavesHead
    <3> QED
      BY Zenon, <1>1, <1>2, <1>6, <2>2, <3>1, <3>2, <3>3, PatchStep
  <2>3. CASE mem' = mem /\ th' = th
    <3>1. faults' = faults
      BY Zenon, <1>9 DEF RollBack
    <3> QED
      BY Zenon, <1>1, <2>1, <2>3, <3>1, NothingMoves DEF EngineInv, TypeInv
  <2> QED
    BY Zenon, <1>9, <2>2, <2>3, RestoreEffects DEF m
<1> QED
  BY Zenon, <1>7, <1>8, <1>9

LEMMA EngineInit ==
  ASSUME Init
  PROVE  EngineInv
<1>1. TypeInv
  <2>1. arch \in Archs /\ android \in BOOLEAN
    BY Zenon, EngineAssumption DEF Init
  <2>2. mem \in [Cells -> Code]
    BY Zenon, CodeTypes DEF Init
  <2>3. entries \in Seq(EntryRec)
    BY Zenon, EmptySeq DEF Init
  <2>4. th \in [Threads -> ThreadRec]
    BY Zenon, CodeTypes DEF Init
  <2> QED
    BY Zenon, <2>1, <2>2, <2>3, <2>4, EngineAssumption DEF Init, TypeInv
<1>2. CallInv
  BY Zenon, EngineAssumption DEF Init, CallInv, CallOK, Holds, Routing, Patching, Idle, None
<1>3. DOMAIN entries = {} /\ lock = None
  BY DEF Init
<1>4. TableInv /\ HolderInv
  BY Zenon, <1>3, EngineAssumption DEF TableInv, HolderInv
<1>5. CodeInv
  BY Zenon DEF Init, CodeInv, Cells
<1>6. BlockInv
  BY Zenon, <1>3, EngineAssumption DEF Init, BlockInv, OwnedBlocks, EntryBlocks
<1> QED
  BY Zenon, <1>1, <1>2, <1>4, <1>5, <1>6 DEF EngineInv

LEMMA EngineNext ==
  ASSUME Plain, EngineInv, [Next]_vars
  PROVE  EngineInv'
<1>1. ASSUME NEW t \in Threads, Call(t) PROVE EngineInv'
  BY Zenon, <1>1, CallKeeps
<1>2. ASSUME NEW t \in Threads, Step(t) PROVE EngineInv'
  BY Zenon, <1>2, ReadableKeeps, LockKeeps, FindKeeps, BuildKeeps, ActiveKeeps, CommitKeeps, DropKeeps,
     ReadMapsKeeps, UnprotectKeeps, WriteKeeps, ProtectKeeps, RollBackKeeps, LeaveKeeps DEF Step
<1>3. CASE EnableNear
  BY Zenon, <1>3, NothingMoves DEF EnableNear
<1>4. CASE UNCHANGED vars
  BY Zenon, <1>4, NothingMoves DEF vars, EngineInv, TypeInv
<1> QED
  BY Zenon, <1>1, <1>2, <1>3, <1>4 DEF Next

\* Whoever holds the mutex, and whichever mprotect fails: the table, the code
\* of the targets, the routing in construction and the blocks agree.
THEOREM EngineInvariant ==
  ASSUME Plain
  PROVE  Spec => []EngineInv
<1>1. Init => EngineInv
  BY Zenon, EngineInit
<1>2. EngineInv /\ [Next]_vars => EngineInv'
  BY Zenon, EngineNext
<1> QED
  BY <1>1, <1>2, PTL DEF Spec

\* A call that failed left its target as it was, and one that succeeded left
\* the jump to its replacement (DobbyHookEx, DobbyInstrument).
THEOREM HooksAreAtomic ==
  ASSUME Plain
  PROVE  Spec => []CodeMatchesRegistry
<1>1. EngineInv => CodeMatchesRegistry
  <2> SUFFICES ASSUME EngineInv, lock = None, NEW c \in Targets,
                      NEW mine, mine = {i \in DOMAIN entries : entries[i].target = c}
               PROVE  IF mine = {} THEN mem[c] = Orig(c)
                      ELSE \E i \in mine : mine = {i} /\ mem[c] = Installed(entries[i])
    BY Zenon DEF CodeMatchesRegistry
  <2>1. CASE mine = {}
    <3>1. ~HasEntry(c)
      BY Zenon, <2>1 DEF HasEntry
    <3>2. mem[c] = Orig(c)
      BY Zenon, <3>1, EngineAssumption DEF EngineInv, CodeInv
    <3> QED
      BY Zenon, <2>1, <3>2
  <2>2. CASE mine # {}
    <3>1. PICK i \in mine : TRUE
      BY Zenon, <2>2
    <3>2. mine = {i}
      BY ZenonT(30), <3>1 DEF EngineInv, TableInv
    <3>3. mem[c] = Jump(entries[i].to, TrampolineMode)
      BY Zenon, <3>1 DEF EngineInv, TableInv
    <3>4. arch \in Archs /\ RightMode(entries[i].target) = TrampolineMode
      BY Zenon DEF EngineInv, TypeInv, RightMode, TrampolineMode, Plain
    <3> QED
      BY Zenon, <2>2, <3>1, <3>2, <3>3, <3>4 DEF Installed
  <2> QED
    BY Zenon, <2>1, <2>2
<1> QED
  BY <1>1, EngineInvariant, PTL

\* The backup and the relocated head of every entry are the target's code.
THEOREM OriginsAreOriginal ==
  ASSUME Plain
  PROVE  Spec => []OriginIsOriginal
<1>1. EngineInv => OriginIsOriginal
  BY Zenon DEF EngineInv, TableInv, OriginIsOriginal
<1> QED
  BY <1>1, EngineInvariant, PTL

\* No failing call leaks a trampoline, its stub or a relocated head, or frees one of another
\* entry's; the near blocks of rip-relative instructions apart, which nobody owns.
THEOREM BlocksFollowEntries ==
  ASSUME Plain
  PROVE  Spec => []BlocksMatchEntries
<1>1. EngineInv => BlocksMatchEntries
  BY Zenon DEF EngineInv, BlockInv, BlocksMatchEntries
<1> QED
  BY <1>1, EngineInvariant, PTL
=============================================================================
