------------------------------- MODULE Hooker -------------------------------
(***************************************************************************)
(* The inline hook engine (src/src/hooker.cpp) with the integrity table    *)
(* of src/src/stealth.cpp and the DobbyHookEx2 wrapper.                    *)
(*                                                                         *)
(* Code memory is a function from word addresses to words: a function head *)
(* is the two words at fn and fn+1, so that heads can overlap.  A word is  *)
(* a tuple <<tag, ...>> that says where its bytes come from.  Hook is      *)
(* split where another thread can see a half done call: the trampoline is  *)
(* built, the head is overwritten, the slot is published.                  *)
(***************************************************************************)
EXTENDS SlotTable, Functions

CONSTANTS
  Threads,       \* callers: application threads and the wait-hook worker
  Addr,          \* word addresses of hookable code
  Targets,       \* [fn, thumb]: the addresses handed to Hook, bit0 = thumb
  Replaces,      \* replacement functions
  Pages,         \* pages mmap can return
  BLs,           \* addresses whose original word is a Thumb BL/BLX
  MaxSlots,      \* capacity of g_slots (128 in the code)
  MaxSnapshots,  \* capacity of g_integrity (64 in the code)
  Serialized,    \* TRUE: callers never overlap their calls
  RestoreFails   \* TRUE: the mprotect in Unhook's Util::Write may fail

ASSUME TargetsAssumption ==
  /\ Targets \subseteq [fn : Addr, thumb : BOOLEAN]
  /\ Addr \subseteq Int
  /\ \A tg \in Targets : tg.fn + 1 \in Addr
  /\ Targets # {} /\ Replaces # {} /\ Pages # {}

ASSUME BoundsAssumption ==
  /\ MaxSlots \in Nat \ {0}
  /\ MaxSnapshots \in Nat
  /\ Serialized \in BOOLEAN
  /\ RestoreFails \in BOOLEAN

VARIABLES
  code,         \* the words of the hookable code
  tramp,        \* mapped trampoline page -> the head copied into it
  g_slots,      \* the slot table
  g_integrity,  \* the integrity snapshots
  pc,           \* where each thread is inside Hook
  loc,          \* each thread's parameters and local variables
  last          \* each thread's last completed call

vars == <<code, tramp, g_slots, g_integrity, pc, loc, last>>
-----------------------------------------------------------------------------
Orig(a)  == <<"orig", a>>         \* the instruction the program was linked with
Reloc(a) == <<"reloc", a>>        \* the same BL re-encoded for another place
Jump(tg) == <<"jump", tg.thumb>>  \* first word of a patched head, meant as ldr pc, [pc]
Lit(r)   == <<"lit", r>>          \* its literal: the replacement's address

Words == {Orig(a) : a \in Addr} \cup {Reloc(a) : a \in Addr}
           \cup {Jump(tg) : tg \in Targets} \cup {Lit(r) : r \in Replaces}

Slot == [target : Targets, replace : Replaces, trampoline : Pages]
Call == [target : Targets, replace : Replaces, trampoline : Pages, verify : BOOLEAN]
IntegrityEntry ==
  [addr : Targets, installed_head : Words \cup ({"unaligned"} \X Words \X Words)]
Outcome ==
  [op : {"none", "hook", "unhook"}, target : Targets,
   res : {"OK", "INVALID", "NOT_FOUND", "ALREADY", "FAILED", "UNSUPPORTED"},
   emitted : BOOLEAN]

\* The head of a function as the two words at its address.
HeadAt(tg) == <<code[tg.fn], code[tg.fn + 1]>>

\* memcpy(&now, target, 4): at a thumb target the address is odd, so the
\* read takes three bytes of one word and one of the next.
ReadAt(tg, mem) ==
  IF tg.thumb THEN <<"unaligned", mem[tg.fn], mem[tg.fn + 1]>> ELSE mem[tg.fn]

IsBL(w) == w[1] \in {"orig", "reloc"} /\ w[2] \in BLs

\* RelocateThumb on one word: a BL/BLX is re-encoded for its new place, every
\* other word is copied.
RelocateWord(w) == IF IsBL(w) THEN Reloc(w[2]) ELSE w

\* What Hook copies into the trampoline: relocated in Thumb, verbatim in ARM.
CopyHead(tg) ==
  IF tg.thumb THEN <<RelocateWord(code[tg.fn]), RelocateWord(code[tg.fn + 1])>>
              ELSE HeadAt(tg)

\* FindSlot: the index of the slot of a target, 0 for -1.
FindSlot(tg) == FindFirst({i \in 1..Len(g_slots) : g_slots[i].target = tg})

IsHooked(tg) == FindSlot(tg) # 0

\* g_slot_count >= 128.
SlotsFull == Len(g_slots) >= MaxSlots

\* munmap(page, 0x1000).
Unmap(p) == Restrict(tramp, DOMAIN tramp \ {p})

\* SnapshotIntegrity: append, silently dropped when the table is full.
SnapshotIntegrity(table, tg, head) ==
  IF Len(table) < MaxSnapshots
    THEN Append(table, [addr |-> tg, installed_head |-> head])
    ELSE table

\* VerifyIntegrity: the first snapshot of the address decides; an address
\* without one verifies.
VerifyIntegrity(tg) ==
  LET i == FindFirst({j \in 1..Len(g_integrity) : g_integrity[j].addr = tg})
  IN  i # 0 => ReadAt(tg, code) = g_integrity[i].installed_head

Return(t, op, tg, res, emitted) ==
  last' = [last EXCEPT ![t] =
             [op |-> op, target |-> tg, res |-> res, emitted |-> emitted]]

MayEnter(t) ==
  /\ pc[t] = "idle"
  /\ Serialized => \A u \in Threads : pc[u] = "idle"
-----------------------------------------------------------------------------
AnyTarget  == CHOOSE tg \in Targets : TRUE
AnyReplace == CHOOSE r \in Replaces : TRUE
AnyPage    == CHOOSE p \in Pages : TRUE

NoCall == [target |-> AnyTarget, replace |-> AnyReplace,
           trampoline |-> AnyPage, verify |-> FALSE]
NoneYet == [op |-> "none", target |-> AnyTarget, res |-> "OK", emitted |-> FALSE]

Init ==
  /\ code = [a \in Addr |-> Orig(a)]
  /\ tramp = [p \in {} |-> <<>>]
  /\ g_slots = <<>>
  /\ g_integrity = <<>>
  /\ pc = [t \in Threads |-> "idle"]
  /\ loc = [t \in Threads |-> NoCall]
  /\ last = [t \in Threads |-> NoneYet]

\* Hook with a null target or replacement.
HookInvalid(t) ==
  /\ MayEnter(t)
  /\ Return(t, "hook", AnyTarget, "INVALID", FALSE)
  /\ UNCHANGED <<code, tramp, g_slots, g_integrity, pc, loc>>

\* Hook's early returns that allocate nothing: a hooked target, a full table,
\* and mmap failing; a relocation out of range unmaps the page again first.
HookRefused(t, tg) ==
  /\ MayEnter(t)
  /\ \/ IsHooked(tg) /\ Return(t, "hook", tg, "ALREADY", FALSE)
     \/ /\ ~IsHooked(tg)
        /\ Return(t, "hook", tg, "FAILED", FALSE)
     \/ /\ ~IsHooked(tg) /\ ~SlotsFull
        /\ tg.thumb /\ (IsBL(code[tg.fn]) \/ IsBL(code[tg.fn + 1]))
        /\ Return(t, "hook", tg, "UNSUPPORTED", FALSE)
  /\ UNCHANGED <<code, tramp, g_slots, g_integrity, pc, loc>>

\* Hook up to the mprotect of the head: the page is mapped and the head copied.
HookBuild(t, tg, r, verify) ==
  /\ MayEnter(t)
  /\ ~IsHooked(tg)
  /\ ~SlotsFull
  /\ \E p \in Pages \ DOMAIN tramp :
       /\ tramp' = [q \in DOMAIN tramp \cup {p} |->
                      IF q = p THEN CopyHead(tg) ELSE tramp[q]]
       /\ loc' = [loc EXCEPT ![t] = [target |-> tg, replace |-> r,
                                     trampoline |-> p, verify |-> verify]]
  /\ pc' = [pc EXCEPT ![t] = "built"]
  /\ UNCHANGED <<code, g_slots, g_integrity, last>>

HookProtectLeaks(t) ==
  /\ pc[t] = "built"
  /\ pc' = [pc EXCEPT ![t] = "idle"]
  /\ loc' = [loc EXCEPT ![t] = NoCall]
  /\ Return(t, "hook", loc[t].target, "FAILED", FALSE)
  /\ UNCHANGED <<code, tramp, g_slots, g_integrity>>

\* Util::Protect of the head fails: the page is unmapped, the call fails.
HookProtectFails(t) ==
  /\ pc[t] = "built"
  /\ tramp' = Unmap(loc[t].trampoline)
  /\ pc' = [pc EXCEPT ![t] = "idle"]
  /\ loc' = [loc EXCEPT ![t] = NoCall]
  /\ Return(t, "hook", loc[t].target, "FAILED", FALSE)
  /\ UNCHANGED <<code, g_slots, g_integrity>>

HookPatchThenCopy(t) ==
  LET tg == loc[t].target
  IN  /\ pc[t] = "built"
      /\ code' = [code EXCEPT ![tg.fn] = Jump(tg), ![tg.fn + 1] = Lit(loc[t].replace)]
      /\ tramp' = [tramp EXCEPT ![loc[t].trampoline] =
                     <<Jump(tg), Lit(loc[t].replace)>>]
      /\ pc' = [pc EXCEPT ![t] = "patched"]
      /\ UNCHANGED <<g_slots, g_integrity, loc, last>>

\* The head is overwritten by the jump to the replacement.
HookPatch(t) ==
  LET tg == loc[t].target
  IN  /\ pc[t] = "built"
      /\ code' = [code EXCEPT ![tg.fn] = Jump(tg), ![tg.fn + 1] = Lit(loc[t].replace)]
      /\ pc' = [pc EXCEPT ![t] = "patched"]
      /\ UNCHANGED <<tramp, g_slots, g_integrity, loc, last>>

\* The snapshot, the slot, the origin pointer and, in the Thumb branch only,
\* the event; DobbyHookEx2 with DOBBY_HOOK_VERIFY adds a second snapshot.
HookPublish(t) ==
  LET tg == loc[t].target
      snap == SnapshotIntegrity(g_integrity, tg, tramp[loc[t].trampoline][1])
  IN  /\ pc[t] = "patched"
      /\ g_integrity' = IF loc[t].verify
                          THEN SnapshotIntegrity(snap, tg, ReadAt(tg, code))
                          ELSE snap
      /\ g_slots' = Append(g_slots, [target |-> tg, replace |-> loc[t].replace,
                                     trampoline |-> loc[t].trampoline])
      /\ pc' = [pc EXCEPT ![t] = "idle"]
      /\ loc' = [loc EXCEPT ![t] = NoCall]
      /\ Return(t, "hook", tg, "OK", tg.thumb)
      /\ UNCHANGED <<code, tramp>>

\* Unhook: the trampoline's copy goes back over the head (unless mprotect
\* fails, which is ignored), the page is unmapped, the last slot moves into
\* the freed one.
Unhook(t, tg) ==
  LET i == FindSlot(tg)
      p == g_slots[i].trampoline
  IN  /\ MayEnter(t)
      /\ i # 0
      /\ \/ code' = [code EXCEPT ![tg.fn] = tramp[p][1], ![tg.fn + 1] = tramp[p][2]]
         \/ RestoreFails /\ UNCHANGED code
      /\ tramp' = Unmap(p)
      /\ g_slots' = RemoveSwap(g_slots, i)
      /\ Return(t, "unhook", tg, "OK", TRUE)
      /\ UNCHANGED <<g_integrity, pc, loc>>

UnhookNotFound(t, tg) ==
  /\ MayEnter(t)
  /\ ~IsHooked(tg)
  /\ Return(t, "unhook", tg, "NOT_FOUND", FALSE)
  /\ UNCHANGED <<code, tramp, g_slots, g_integrity, pc, loc>>

Next ==
  \E t \in Threads :
    \/ HookInvalid(t) \/ HookProtectFails(t) \/ HookPatch(t) \/ HookPublish(t)
    \/ \E tg \in Targets :
         \/ HookRefused(t, tg) \/ Unhook(t, tg) \/ UnhookNotFound(t, tg)
         \/ \E r \in Replaces, verify \in BOOLEAN : HookBuild(t, tg, r, verify)

Spec == Init /\ [][Next]_vars
-----------------------------------------------------------------------------
SlotPages   == {g_slots[i].trampoline : i \in 1..Len(g_slots)}
FlightPages == {loc[t].trampoline : t \in {u \in Threads : pc[u] # "idle"}}

\* Two hookable heads do not share a word.
Apart ==
  \A a, b \in Targets : a # b => a.fn + 1 < b.fn \/ b.fn + 1 < a.fn

\* The copy of a word of tg's head that a trampoline must hold.
OwnCopy(tg, a) == IF tg.thumb /\ a \in BLs THEN Reloc(a) ELSE Orig(a)

\* A word of tg's head that no jump has overwritten: the original one or,
\* once a Thumb BL has been hooked and unhooked, its re-encoding.
Intact(tg, a) == code[a] \in {Orig(a), OwnCopy(tg, a)}

\* Every variable keeps its type; the tables never outgrow their arrays.
TypeOK ==
  /\ code \in [Addr -> Words]
  /\ DOMAIN tramp \subseteq Pages
  /\ tramp \in [DOMAIN tramp -> Words \X Words]
  /\ g_slots \in Seq(Slot) /\ Len(g_slots) <= MaxSlots
  /\ g_integrity \in Seq(IntegrityEntry) /\ Len(g_integrity) <= MaxSnapshots
  /\ pc \in [Threads -> {"idle", "built", "patched"}]
  /\ loc \in [Threads -> Call]
  /\ last \in [Threads -> Outcome]

\* Trampoline pages are neither leaked nor shared nor freed too early: the
\* mapped pages are exactly those of the slots and of the calls in progress,
\* and two slots never share one.  Covers Hook's four error returns and the
\* swap with the last slot in Unhook.
TrampolineOwnership ==
  /\ DOMAIN tramp = SlotPages \cup FlightPages
  /\ SlotPages \cap FlightPages = {}
  /\ \A i, j \in 1..Len(g_slots) :
       i # j => g_slots[i].trampoline # g_slots[j].trampoline

\* A target has at most one slot, so FindSlot's first match is the only one
\* and Unhook leaves no second hook behind.
OneSlotPerTarget ==
  \A i, j \in 1..Len(g_slots) : g_slots[i].target = g_slots[j].target => i = j

\* Between calls the code agrees with the slot table: a hooked head is the
\* jump to that slot's replacement, an unhooked head holds no jump.
HeadMatchesSlot ==
  \A tg \in Targets :
    (\A t \in Threads : pc[t] = "idle" \/ loc[t].target # tg) =>
      \/ \E i \in 1..Len(g_slots) :
           /\ g_slots[i].target = tg
           /\ HeadAt(tg) = <<Jump(tg), Lit(g_slots[i].replace)>>
      \/ /\ ~IsHooked(tg)
         /\ Intact(tg, tg.fn) /\ Intact(tg, tg.fn + 1)

\* The origin pointer Hook hands out is the trampoline of the slot; it holds
\* the target's own instructions, never a jump of this or another hook
\* (calling origin would then re-enter a replacement).
OriginRunsOriginal ==
  \A i \in 1..Len(g_slots) :
    LET tg == g_slots[i].target
    IN  tramp[g_slots[i].trampoline] =
          <<OwnCopy(tg, tg.fn), OwnCopy(tg, tg.fn + 1)>>

\* A step takes at most one slot out of the table, and the page it unmaps is
\* then that slot's: an Unhook never drops or frees another target's hook.
UnhookTakesOneSlot ==
  [][\A i, j \in 1..Len(g_slots) :
       /\ g_slots[i] \notin Range(g_slots')
       /\ g_slots[j] \notin Range(g_slots')
       => i = j /\ DOMAIN tramp' = DOMAIN tramp \ {g_slots[i].trampoline}]_vars

\* hooker.cpp:147: Unhook puts the original instructions back.
UnhookRestoresOriginal ==
  \A tg \in Targets :
    ~IsHooked(tg) /\ (\A t \in Threads : pc[t] = "idle") =>
      HeadAt(tg) = <<Orig(tg.fn), Orig(tg.fn + 1)>>

\* dobby.h:170: Verify is true as long as the hook has not been undone.
VerifyHoldsWhileHooked ==
  \A tg \in Targets :
    (IsHooked(tg) /\ code[tg.fn] = Jump(tg)) => VerifyIntegrity(tg)

\* dobby.h:146: every successful or failed installation is announced.
EveryInstallIsAnnounced ==
  \A t \in Threads :
    last[t].op = "hook" /\ last[t].res # "INVALID" => last[t].emitted

\* dobby.h:54 and 88: hooks at any addresses coexist, so undoing all of them
\* leaves no jump and no literal in the code.
UnhookAllRestoresCode ==
  g_slots = <<>> /\ (\A t \in Threads : pc[t] = "idle") =>
    \A a \in Addr : code[a][1] \in {"orig", "reloc"}
=============================================================================
