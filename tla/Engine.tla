------------------------------- MODULE Engine -------------------------------
(***************************************************************************)
(* The interceptor of source/: DobbyHookEx and DobbyInstrument build a     *)
(* routing (trampoline, relocated head, backup) under the interceptor's    *)
(* mutex and activate it with DobbyCodePatch, which changes page           *)
(* protections one mprotect at a time and rolls back when one fails.       *)
(* DobbyCodePatch is public and takes no lock; on Android the target's     *)
(* page is made readable before the mutex is taken.                        *)
(* A target is a function; its head is one cell of code on one or two      *)
(* pages.  Code is abstracted to what runs when the cell is entered.       *)
(***************************************************************************)
EXTENDS Integers, Sequences, Functions

CONSTANTS
  Threads,
  Targets,          \* functions that are hooked
  UserCells,        \* code that callers patch with DobbyCodePatch themselves
  Fakes,            \* replacement functions
  PagesOf,          \* [Targets \cup UserCells -> Seq(page)]
  InitProt,         \* [page -> protection]
  Thumb,            \* targets whose address carries the Thumb bit
  Distance(_, _),   \* "b", "adrp" or "far": reach needed from a target
  Builds,           \* architectures and platforms: subset of Archs \X BOOLEAN
  RipHeads,         \* targets whose x64 head has a rip-relative instruction
  RelocMayFail, NearMayFail, RipMayFail, FinalizeMayFail, ClosureMayFail,
  CallersSerialise, \* callers of DobbyCodePatch keep their patches apart
  MaxFaults,        \* mprotect calls that fail
  MaxCalls

Archs == {"arm", "arm64", "x64"}

VARIABLES
  arch, android,    \* the build
  near,             \* g_enable_near_trampoline
  mem, prot,        \* code and page protections
  lock,             \* gInterceptor.mutex_
  entries, nextId,  \* gInterceptor.entries, next_entry_id_
  runtime,          \* HookRuntime records
  blocks,           \* memory blocks in use, <<kind, entry id>>
  th, calls, faults, dead

build   == <<arch, android>>
tables  == <<entries, nextId, runtime, blocks>>
vars    == <<build, near, mem, prot, lock, tables, th, calls, faults, dead>>

Cells == Targets \cup UserCells
None  == "none"
Closure == "closure"
Perms == SUBSET {"r", "w", "x"}

ASSUME EngineAssumption ==
  /\ None \notin Threads \cup Targets
  /\ Targets \cap UserCells = {}
  /\ InitProt \in [DOMAIN InitProt -> Perms]
  /\ PagesOf \in [Cells -> Seq(DOMAIN InitProt) \ {<<>>}]
  /\ Builds \subseteq Archs \X BOOLEAN
  /\ MaxFaults \in Nat

Orig(c)    == [runs |-> "orig", of |-> c]
Jump(to, mode) == [runs |-> "jump", of |-> to, mode |-> mode]
Garbage    == [runs |-> "garbage", of |-> None]
UserCode(c) == [runs |-> "user", of |-> c]

NoEntry == [id |-> 0, target |-> None, patched |-> None, backup |-> Garbage,
            relocated |-> Garbage, to |-> None, blocks |-> {}]
NoPatch == [cell |-> None, odd |-> FALSE, bytes |-> Garbage, old |-> Garbage,
            saved |-> <<>>, k |-> 0, bad |-> FALSE, next |-> None]
Idle == [pc |-> "idle", op |-> None, target |-> None, fake |-> None, ret |-> 0,
         entry |-> NoEntry, tramp |-> Garbage, p |-> NoPatch]

Init ==
  /\ \E b \in Builds : arch = b[1] /\ android = b[2]
  /\ near = FALSE
  /\ mem = [c \in Cells |-> Orig(c)]
  /\ prot = InitProt
  /\ lock = None
  /\ entries = <<>> /\ nextId = 1 /\ runtime = {} /\ blocks = {}
  /\ th = [t \in Threads |-> Idle]
  /\ calls = 0 /\ faults = 0 /\ dead = FALSE

----------------------------------------------------------------------------
(* Calls *)

Goto(t, pc) == [th EXCEPT ![t].pc = pc]

StartHook(t) ==
  /\ th[t].pc = "idle" /\ calls < MaxCalls
  /\ \E c \in Targets, f \in Fakes :
       th' = [th EXCEPT ![t] = [Idle EXCEPT !.pc = "readable", !.op = "hook", !.target = c, !.fake = f]]
  /\ calls' = calls + 1
  /\ UNCHANGED <<build, near, mem, prot, lock, tables, faults, dead>>

StartInstrument(t) ==
  /\ th[t].pc = "idle" /\ calls < MaxCalls
  /\ \E c \in Targets :
       th' = [th EXCEPT ![t] = [Idle EXCEPT !.pc = "readable", !.op = "instrument", !.target = c]]
  /\ calls' = calls + 1
  /\ UNCHANGED <<build, near, mem, prot, lock, tables, faults, dead>>

\* A patch of size bytes at address: cell c, shifted by one byte when odd.
Patch(c, odd, bytes, next) ==
  [NoPatch EXCEPT !.cell = c, !.odd = odd, !.bytes = bytes, !.next = next]

StartPatch(t) ==
  /\ th[t].pc = "idle" /\ calls < MaxCalls
  /\ CallersSerialise => \A v \in Threads : th[v].op # "patch"
  /\ \E c \in UserCells :
       th' = [th EXCEPT ![t] = [Idle EXCEPT !.pc = "maps", !.op = "patch",
                                            !.p = Patch(c, FALSE, UserCode(c), "done")]]
  /\ calls' = calls + 1
  /\ UNCHANGED <<build, near, mem, prot, lock, tables, faults, dead>>

\* dobby_enable_near_trampoline
EnableNear ==
  /\ ~near /\ near' = TRUE
  /\ UNCHANGED <<build, mem, prot, lock, tables, th, calls, faults, dead>>

\* features::android::make_memory_readable: the page of the address becomes
\* r-x; nothing puts its protection back.
make_memory_readable(t) ==
  /\ th[t].pc = "readable"
  /\ prot' = IF android THEN [prot EXCEPT ![Head(PagesOf[th[t].target])] = {"r", "x"}] ELSE prot
  /\ th' = Goto(t, "lock")
  /\ UNCHANGED <<build, near, mem, lock, tables, calls, faults, dead>>

Lock(t) ==
  /\ th[t].pc = "lock" /\ lock = None
  /\ lock' = t /\ th' = Goto(t, "find")
  /\ UNCHANGED <<build, near, mem, prot, tables, calls, faults, dead>>

\* The end of the lock_guard's scope.
Unlock(t, r) == lock' = None /\ th' = [th EXCEPT ![t].pc = "done", ![t].ret = r]

\* Mutant: hooked addresses are not looked up.
FoundNever(c) == FALSE

\* Interceptor::find compares patched.addr() with the address as passed, so
\* an address with the Thumb bit is never found.
Found(c) == c \notin Thumb /\ \E i \in DOMAIN entries : entries[i].patched = c

NewEntry(c) == [NoEntry EXCEPT !.id = nextId, !.target = c]

Find(t) ==
  /\ th[t].pc = "find"
  /\ IF Found(th[t].target)
       THEN Unlock(t, -1) /\ UNCHANGED nextId
       ELSE /\ th' = [th EXCEPT ![t].pc = "build",
                        ![t].entry = NewEntry(th[t].target)]
            /\ nextId' = nextId + 1
            /\ UNCHANGED lock
  /\ UNCHANGED <<build, near, mem, prot, entries, runtime, blocks, calls, faults, dead>>

----------------------------------------------------------------------------
(* Routing.  Each generator returns the blocks its trampoline owns.        *)

\* GenerateNearTrampolineBuffer; {} when there is none.
NearTrampoline(t, to) ==
  IF arch # "arm64" \/ ~near THEN {}
  ELSE IF to # Closure /\ Distance(th[t].target, to) = "b" THEN {{"heap"}}
  ELSE {{"heap", "nearcode"}} \cup (IF NearMayFail THEN {{}} ELSE {})

\* GenerateNormalTrampolineBuffer; x64 prefers a near data stub.
NormalTrampoline ==
  IF arch = "x64" THEN {{"heap", "neardata"}} \cup (IF NearMayFail THEN {{"heap"}} ELSE {})
  ELSE {{"heap"}}

\* GenerateTrampoline
Trampolines(t, to) ==
  LET n == NearTrampoline(t, to) IN
  (n \ {{}}) \cup (IF n = {} \/ {} \in n THEN NormalTrampoline ELSE {})

\* The mode the trampoline is written in: arm_thumb_fix_addr has cleared the
\* bit that GenerateNormalTrampolineBuffer tests.
TrampolineMode == IF arch = "arm" THEN "arm" ELSE "native"
RightMode(c) == IF arch # "arm" THEN "native" ELSE IF c \in Thumb THEN "thumb" ELSE "arm"

\* The address the routing jumps to; an instrumented target jumps to its
\* closure trampoline, whose block may not have been allocated.
Destinations(t) ==
  IF th[t].op = "hook" THEN {[to |-> th[t].fake, own |-> {}]}
  ELSE {[to |-> Closure, own |-> {"closure"}]}
       \cup (IF ClosureMayFail THEN {[to |-> None, own |-> {}]} ELSE {})

\* What the cell at c reads as, one byte further when the Thumb bit is set.
ReadAt(c, odd) == IF odd THEN Garbage ELSE mem[c]

Own(kinds, id) == {<<k, id>> : k \in kinds}

\* GenRelocateSingleX86Insn: a rip-relative instruction of the head moves to a near block of its
\* own, which no routing owns.
RipStubs(c, id) == IF arch = "x64" /\ c \in RipHeads THEN Own({"rip"}, id) ELSE {}

\* The relocated head: a jump to address 0 where a near block was refused.
Relocated(c, got, stubs) == IF got = stubs THEN mem[c] ELSE Garbage

\* BuildRouting: trampoline, relocated head and backup, or an error: no memory for the head, on
\* the first pass of the relocation or on a later, longer one.
BuildRouting(t) ==
  /\ th[t].pc = "build"
  /\ \E d \in Destinations(t) : \E k \in Trampolines(t, d.to) :
       LET e   == th[t].entry
           c   == e.target
           own == Own(k \cup d.own, e.id)
           stubs == RipStubs(c, e.id)
       IN  \/ \E got \in {stubs} \cup (IF RipMayFail THEN {{}} ELSE {}) :
              \E code \in {Relocated(c, got, stubs)} \cup (IF FinalizeMayFail THEN {Garbage} ELSE {}) :
                /\ th' = [th EXCEPT
                     ![t].pc = "active",
                     ![t].tramp = Jump(d.to, TrampolineMode),
                     ![t].entry = [e EXCEPT !.patched = c, !.relocated = code, !.to = d.to,
                                            !.backup = ReadAt(c, c \in Thumb),
                                            !.blocks = own \cup Own({"exec"}, e.id)]]
                /\ blocks' = blocks \cup own \cup Own({"exec"}, e.id) \cup got
           \/ /\ RelocMayFail
              /\ th' = [th EXCEPT ![t].pc = "drop", ![t].entry = [e EXCEPT !.blocks = own]]
              /\ \E got \in {{}, stubs} : blocks' = blocks \cup own \cup got
  /\ UNCHANGED <<build, near, mem, prot, lock, entries, nextId, runtime, calls, faults, dead>>

\* Active: the trampoline goes to entry->addr, Thumb bit included.
Active(t) ==
  /\ th[t].pc = "active"
  /\ th' = [th EXCEPT ![t].pc = "maps",
       ![t].p = Patch(th[t].target, th[t].target \in Thumb, th[t].tramp, "activated")]
  /\ UNCHANGED <<build, near, mem, prot, lock, tables, calls, faults, dead>>

\* The rest of DobbyHookEx and DobbyInstrument.
Added(e) == Append(entries, e)
Record(t) == [target |-> th[t].target, patch |-> th[t].entry.patched]

\* Mutant: the result of DobbyCodePatch is not looked at.
CommitAlways(t) ==
  /\ th[t].pc = "activated"
  /\ entries' = Added(th[t].entry)
  /\ runtime' = runtime \cup {Record(t)}
  /\ Unlock(t, 0)
  /\ UNCHANGED <<build, near, mem, prot, nextId, blocks, calls, faults, dead>>

Commit(t) ==
  /\ th[t].pc = "activated" /\ th[t].ret = 0
  /\ entries' = Added(th[t].entry)
  /\ runtime' = runtime \cup {Record(t)}
  /\ Unlock(t, 0)
  /\ UNCHANGED <<build, near, mem, prot, nextId, blocks, calls, faults, dead>>

\* routing active failed: restore_orig_code writes the backup to patched.addr().
RestoreOrigCode(t) ==
  /\ th[t].pc = "activated" /\ th[t].ret # 0
  /\ th' = [th EXCEPT ![t].pc = "maps",
                      ![t].p = Patch(th[t].entry.patched, FALSE, th[t].entry.backup, "drop")]
  /\ UNCHANGED <<build, near, mem, prot, lock, tables, calls, faults, dead>>

\* Mutant: only the routing's blocks are released.
DropKeepsRelocated(t) ==
  /\ th[t].pc = "drop"
  /\ blocks' = blocks \ {b \in th[t].entry.blocks : b[1] # "exec"}
  /\ Unlock(t, -1)
  /\ UNCHANGED <<build, near, mem, prot, entries, nextId, runtime, calls, faults, dead>>

\* ~Trampoline and release_buffer, for everything the routing owns.
Released(e) == blocks \ e.blocks

\* delete routing; delete entry.
Drop(t) ==
  /\ th[t].pc = "drop"
  /\ blocks' = Released(th[t].entry)
  /\ Unlock(t, -1)
  /\ UNCHANGED <<build, near, mem, prot, entries, nextId, runtime, calls, faults, dead>>

----------------------------------------------------------------------------
(* DobbyCodePatch                                                          *)

Pages(t) == PagesOf[th[t].p.cell]
Page(t)  == Pages(t)[th[t].p.k]
Fail     == faults < MaxFaults /\ faults' = faults + 1
PatchReturns(t, r) == [th EXCEPT ![t].pc = th[t].p.next, ![t].ret = r]
Same == <<build, near, lock, tables, calls>>

\* The protections are read from /proc/self/maps and the bytes saved.
ReadMaps(t) ==
  /\ th[t].pc = "maps"
  /\ \/ /\ th' = [th EXCEPT ![t].pc = "unprotect", ![t].p.k = 1,
             ![t].p.saved = [i \in DOMAIN Pages(t) |-> prot[Pages(t)[i]]],
             ![t].p.old = ReadAt(th[t].p.cell, th[t].p.odd)]
        /\ UNCHANGED faults
     \/ Fail /\ th' = PatchReturns(t, -1)
  /\ UNCHANGED <<Same, mem, prot, dead>>

\* The loop that makes each page writable.
Unprotect(t) ==
  /\ th[t].pc = "unprotect"
  /\ \/ /\ prot' = [prot EXCEPT ![Page(t)] = th[t].p.saved[th[t].p.k] \cup {"w"}]
        /\ th' = IF th[t].p.k = Len(Pages(t)) THEN Goto(t, "write") ELSE [th EXCEPT ![t].p.k = @ + 1]
        /\ UNCHANGED faults
     \/ Fail /\ th' = Goto(t, "giveup") /\ UNCHANGED prot
  /\ UNCHANGED <<Same, mem, dead>>

Written(p, bytes) == IF p.odd THEN Garbage ELSE bytes
Writable(t) == \A i \in DOMAIN Pages(t) : "w" \in prot[Pages(t)[i]]

\* memcpy: faults when a page has lost its write permission.
WriteBytes(t) ==
  /\ th[t].pc = "write"
  /\ IF Writable(t)
       THEN /\ mem' = [mem EXCEPT ![th[t].p.cell] = Written(th[t].p, th[t].p.bytes)]
            /\ th' = [th EXCEPT ![t].pc = "protect", ![t].p.k = 1]
            /\ UNCHANGED dead
       ELSE dead' = TRUE /\ UNCHANGED <<mem, th>>
  /\ UNCHANGED <<Same, prot, faults>>

\* The loop that restores each page; it goes on after a failure.
Protect(t) ==
  /\ th[t].pc = "protect"
  /\ \E ok \in BOOLEAN :
       /\ IF ok THEN UNCHANGED faults ELSE Fail
       /\ prot' = IF ok THEN [prot EXCEPT ![Page(t)] = th[t].p.saved[th[t].p.k]] ELSE prot
       /\ LET bad == th[t].p.bad \/ ~ok IN
          th' = IF th[t].p.k < Len(Pages(t))
                  THEN [th EXCEPT ![t].p.k = @ + 1, ![t].p.bad = bad]
                ELSE IF bad THEN Goto(t, "reopen") ELSE PatchReturns(t, 0)
  /\ UNCHANGED <<Same, mem, dead>>

\* restore_error: every page is made writable again (results ignored) ...
Reopen(t) ==
  /\ th[t].pc = "reopen"
  /\ \E lost \in {{}} \cup {{q} : q \in Range(Pages(t))} :
       /\ IF lost = {} THEN UNCHANGED faults ELSE Fail
       /\ prot' = [q \in DOMAIN prot |->
            IF \E i \in DOMAIN Pages(t) : Pages(t)[i] = q /\ q \notin lost
              THEN th[t].p.saved[CHOOSE i \in DOMAIN Pages(t) : Pages(t)[i] = q] \cup {"w"}
              ELSE prot[q]]
  /\ th' = Goto(t, "rollback")
  /\ UNCHANGED <<Same, mem, dead>>

\* ... the old bytes written back ...
RollBack(t) ==
  /\ th[t].pc = "rollback"
  /\ IF Writable(t)
       THEN /\ mem' = [mem EXCEPT ![th[t].p.cell] = Written(th[t].p, th[t].p.old)]
            /\ th' = Goto(t, "giveup") /\ UNCHANGED dead
       ELSE dead' = TRUE /\ UNCHANGED <<mem, th>>
  /\ UNCHANGED <<Same, prot, faults>>

\* Mutant: pages made writable before a failure stay writable.
GiveUpLeavesPages(t) ==
  /\ th[t].pc = "giveup" /\ th' = PatchReturns(t, -1)
  /\ UNCHANGED <<Same, mem, prot, faults, dead>>

\* ... and restore_page_permissions, whose failures are only logged.
GiveUp(t) ==
  /\ th[t].pc = "giveup"
  /\ \E lost \in {{}} \cup {{q} : q \in Range(Pages(t))} :
       /\ IF lost = {} THEN UNCHANGED faults ELSE Fail
       /\ prot' = [q \in DOMAIN prot |->
            IF \E i \in DOMAIN Pages(t) : Pages(t)[i] = q /\ q \notin lost
              THEN th[t].p.saved[CHOOSE i \in DOMAIN Pages(t) : Pages(t)[i] = q] ELSE prot[q]]
  /\ th' = PatchReturns(t, -1)
  /\ UNCHANGED <<Same, mem, dead>>

Leave(t) ==
  /\ th[t].pc = "done"
  /\ th' = [th EXCEPT ![t] = Idle]
  /\ UNCHANGED <<build, near, mem, prot, lock, tables, calls, faults, dead>>

Step(t) ==
  \/ make_memory_readable(t) \/ Lock(t) \/ Find(t) \/ BuildRouting(t) \/ Active(t)
  \/ Commit(t) \/ RestoreOrigCode(t) \/ Drop(t) \/ ReadMaps(t) \/ Unprotect(t)
  \/ WriteBytes(t) \/ Protect(t) \/ Reopen(t) \/ RollBack(t) \/ GiveUp(t) \/ Leave(t)

Call(t) == StartHook(t) \/ StartInstrument(t) \/ StartPatch(t)

Next == ~dead /\ (EnableNear \/ \E t \in Threads : Call(t) \/ Step(t))

Spec == Init /\ [][Next]_vars /\ \A t \in Threads : WF_vars(~dead /\ Step(t))

----------------------------------------------------------------------------
Patching == {"maps", "unprotect", "write", "protect", "reopen", "rollback", "giveup"}

\* Entries, records and the fields of a call in flight have their types.
TypeOK ==
  /\ near \in BOOLEAN /\ lock \in Threads \cup {None}
  /\ \A q \in DOMAIN prot : prot[q] \subseteq {"r", "w", "x"}
  /\ \A i \in DOMAIN entries : entries[i].patched \in Targets /\ entries[i].id \in 1 .. nextId - 1
  /\ \A t \in Threads : th[t].pc \in {"find", "build", "active", "activated", "drop"} => lock = t

\* The code a hook of entry e must have left in its target.
Installed(e) == Jump(e.to, RightMode(e.target))

\* While nobody holds the interceptor's mutex, a target with an entry jumps to
\* that entry's replacement and every other target has its own code: a call
\* that returned -1 left no trace, whichever mprotect failed.
CodeMatchesRegistry ==
  lock = None /\ ~dead => \A c \in Targets :
    LET mine == {i \in DOMAIN entries : entries[i].target = c} IN
    IF mine = {} THEN mem[c] = Orig(c)
    ELSE \E i \in mine : mine = {i} /\ mem[c] = Installed(entries[i])

\* The saved head and the relocated head of every entry are the target's own
\* code, never another hook's trampoline.
OriginIsOriginal ==
  \A i \in DOMAIN entries : LET e == entries[i] IN
    e.backup = Orig(e.target) /\ e.relocated = Orig(e.target)

\* A successful call leads somewhere: no target jumps to a trampoline that
\* was never allocated.
RoutesSomewhere == \A i \in DOMAIN entries : entries[i].to # None

\* When no patch is in flight every page has the protection it started with.
ProtectionRestored ==
  (\A t \in Threads : th[t].pc \notin Patching) /\ ~dead => prot = InitProt

\* Trampolines, their stubs, closures and relocated heads are held exactly for the entries in the
\* table: a failed call releases those it allocated, a live one keeps its own.  The near blocks of
\* rip-relative instructions are nobody's: no routing releases them.
OwnedBlocks == {b \in blocks : b[1] # "rip"}
EntryBlocks == UNION {entries[i].blocks : i \in DOMAIN entries}
BlocksMatchEntries == lock = None => OwnedBlocks = EntryBlocks

\* A failed call releases everything it allocated.
FailedCallsLeakNothing ==
  lock = None => \A b \in blocks : \E i \in DOMAIN entries : entries[i].id = b[2]

\* HookRuntime knows exactly the entries of the interceptor.
RuntimeMirrorsEntries ==
  lock = None => runtime = {[target |-> entries[i].target, patch |-> entries[i].patched] :
                              i \in DOMAIN entries}

\* DobbyCodePatch never writes to a page that lost its write permission.
PatchNeverFaults == ~dead

\* The same where no page is made readable outside the mutex.
PatchNeverFaultsOnLinux == ~android => ~dead

\* Every call returns, unless the process died.
CallReturns == \A t \in Threads : th[t].pc # "idle" ~> (th[t].pc = "idle" \/ dead)
=============================================================================
