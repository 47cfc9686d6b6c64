---------------------------- MODULE HookerProofs ----------------------------
(***************************************************************************)
(* Theorems about Hooker, for every set of targets, pages and callers and  *)
(* every table size, when callers do not overlap their calls.              *)
(***************************************************************************)
EXTENDS Hooker, SequenceTheorems, TLAPS
-----------------------------------------------------------------------------
\* What the swap-with-last removal preserves, for every table.

\* Removing an entry yields a table one shorter, entry by entry the old one
\* with the last entry in the place of the removed one (the array copy).
LEMMA RemoveSwapProperties ==
  ASSUME NEW S, NEW table \in Seq(S), NEW i \in 1..Len(table)
  PROVE  /\ RemoveSwap(table, i) \in Seq(S)
         /\ Len(RemoveSwap(table, i)) = Len(table) - 1
         /\ \A j \in 1..(Len(table) - 1) :
              RemoveSwap(table, i)[j] = IF j = i THEN table[Len(table)] ELSE table[j]
<1> DEFINE n == Len(table) - 1
           e(j) == IF j = i THEN table[Len(table)] ELSE table[j]
<1>1. n \in Nat
  BY LenProperties
<1>2. \A j \in 1..n : e(j) \in S
  BY LenProperties, ElementOfSeq
<1>3. RemoveSwap(table, i) = [j \in 1..n |-> e(j)]
  BY DEF RemoveSwap
<1>4. [j \in 1..n |-> e(j)] \in [1..n -> S]
  BY <1>2
<1>5. RemoveSwap(table, i) \in Seq(S)
  BY <1>1, <1>3, <1>4, SeqDef
<1>6. DOMAIN RemoveSwap(table, i) = 1..n
  BY <1>3
<1>7. Len(RemoveSwap(table, i)) = n
  BY <1>1, <1>5, <1>6, LenProperties
<1> QED
  BY <1>3, <1>5, <1>7

\* Every entry but the removed one is still in the table.
LEMMA RemoveSwapKeepsOthers ==
  ASSUME NEW S, NEW table \in Seq(S), NEW i \in 1..Len(table),
         NEW k \in 1..Len(table), k # i
  PROVE  \E j \in 1..(Len(table) - 1) : RemoveSwap(table, i)[j] = table[k]
<1>1. CASE k = Len(table)
  BY <1>1, RemoveSwapProperties, LenProperties
<1>2. CASE k # Len(table)
  <2>1. k \in 1..(Len(table) - 1)
    BY <1>2, LenProperties
  <2>2. RemoveSwap(table, i)[k] = table[k]
    BY <2>1, RemoveSwapProperties
  <2> QED
    BY <2>1, <2>2
<1> QED
  BY <1>1, <1>2

\* The place in the old table of each entry of the new one.
SwapSource(table, i) ==
  [j \in 1..(Len(table) - 1) |-> IF j = i THEN Len(table) ELSE j]

\* Every entry of the new table was an entry of the old one other than the
\* removed one, and different places held different entries.
LEMMA RemoveSwapSource ==
  ASSUME NEW S, NEW table \in Seq(S), NEW i \in 1..Len(table)
  PROVE  /\ SwapSource(table, i) \in [1..(Len(table) - 1) -> 1..Len(table)]
         /\ \A j \in 1..(Len(table) - 1) :
              /\ SwapSource(table, i)[j] # i
              /\ RemoveSwap(table, i)[j] = table[SwapSource(table, i)[j]]
         /\ \A j, k \in 1..(Len(table) - 1) :
              SwapSource(table, i)[j] = SwapSource(table, i)[k] => j = k
<1>1. Len(table) \in Nat
  BY LenProperties
<1>2. SwapSource(table, i) \in [1..(Len(table) - 1) -> 1..Len(table)]
  BY <1>1 DEF SwapSource
<1>3. \A j \in 1..(Len(table) - 1) :
        /\ SwapSource(table, i)[j] # i
        /\ RemoveSwap(table, i)[j] = table[SwapSource(table, i)[j]]
  BY <1>1, RemoveSwapProperties DEF SwapSource
<1>4. \A j, k \in 1..(Len(table) - 1) :
        SwapSource(table, i)[j] = SwapSource(table, i)[k] => j = k
  BY <1>1 DEF SwapSource
<1> QED
  BY <1>2, <1>3, <1>4

\* src tells for every entry of rest which entry of table other than the i-th
\* it is, and no two are the same one.
CameFrom(src, rest, table, i) ==
  /\ src \in [1..(Len(table) - 1) -> 1..Len(table)]
  /\ \A j \in 1..(Len(table) - 1) : src[j] # i /\ rest[j] = table[src[j]]
  /\ \A j, k \in 1..(Len(table) - 1) : src[j] = src[k] => j = k

\* RemoveSwapSource in the form of one predicate.
LEMMA RemoveSwapCameFrom ==
  ASSUME NEW S, NEW table \in Seq(S), NEW i \in 1..Len(table)
  PROVE  CameFrom(SwapSource(table, i), RemoveSwap(table, i), table, i)
  BY RemoveSwapSource DEF CameFrom
-----------------------------------------------------------------------------
\* At most one thread is inside Hook.
OneCallAtATime ==
  \A t, u \in Threads : pc[t] # "idle" /\ pc[u] # "idle" => t = u

\* What Hook checked on entry still holds when it publishes: its target has
\* no slot and the table has room.
CheckStillHolds ==
  \A t \in Threads : pc[t] # "idle" =>
    /\ \A i \in 1..Len(g_slots) : g_slots[i].target # loc[t].target
    /\ Len(g_slots) < MaxSlots

\* The inductive invariant behind type correctness and page ownership.
OwnershipInv ==
  TypeOK /\ TrampolineOwnership /\ OneSlotPerTarget /\ OneCallAtATime /\ CheckStillHolds

\* FindSlot answers the question its callers ask: it returns the slot of the
\* target, and 0 only when there is none.
LEMMA FindSlotProperties ==
  ASSUME g_slots \in Seq(Slot), OneSlotPerTarget, NEW tg \in Targets
  PROVE  /\ FindSlot(tg) \in 0..Len(g_slots)
         /\ FindSlot(tg) # 0 => g_slots[FindSlot(tg)].target = tg
         /\ FindSlot(tg) = 0 => \A i \in 1..Len(g_slots) : g_slots[i].target # tg
<1> DEFINE hits == {i \in 1..Len(g_slots) : g_slots[i].target = tg}
<1>0. Len(g_slots) \in Nat
  BY LenProperties
<1>1. CASE hits = {}
  <2>1. FindSlot(tg) = 0
    BY <1>1 DEF FindSlot, FindFirst
  <2> QED
    BY <1>0, <1>1, <2>1
<1>2. CASE hits # {}
  <2>1. PICK i \in hits : TRUE
    BY <1>2
  <2>2. \A j \in hits : j = i
    BY <2>1 DEF OneSlotPerTarget
  <2>3. FindSlot(tg) = CHOOSE k \in hits : \A j \in hits : k <= j
    BY <1>2, Zenon DEF FindSlot, FindFirst
  <2>4. i <= i
    BY <1>0, <2>1
  <2>5. FindSlot(tg) = i
    BY <2>1, <2>2, <2>3, <2>4
  <2> QED
    BY <1>0, <2>1, <2>5
<1> QED
  BY <1>1, <1>2

\* The default call record and outcome are well typed.
LEMMA DefaultsTyped == NoCall \in Call /\ NoneYet \in Outcome
<1>1. AnyTarget \in Targets /\ AnyReplace \in Replaces /\ AnyPage \in Pages
  BY TargetsAssumption DEF AnyTarget, AnyReplace, AnyPage
<1> QED
  BY <1>1 DEF NoCall, NoneYet, Call, Outcome

\* The words Hook writes are words.
LEMMA WordsTyped ==
  /\ \A a \in Addr : Orig(a) \in Words /\ Reloc(a) \in Words
  /\ \A tg \in Targets : Jump(tg) \in Words
  /\ \A r \in Replaces : Lit(r) \in Words
  /\ \A w \in Words : RelocateWord(w) \in Words
<1>1. \A w \in Words : IsBL(w) => w[2] \in Addr
  BY DEF Words, Orig, Reloc, Jump, Lit, IsBL
<1> QED
  BY <1>1 DEF Words, RelocateWord

\* Appending a snapshot keeps the integrity table typed and within bounds.
LEMMA SnapshotTyped ==
  ASSUME NEW table \in Seq(IntegrityEntry), Len(table) <= MaxSnapshots,
         NEW tg \in Targets,
         NEW head \in Words \cup ({"unaligned"} \X Words \X Words)
  PROVE  /\ SnapshotIntegrity(table, tg, head) \in Seq(IntegrityEntry)
         /\ Len(SnapshotIntegrity(table, tg, head)) <= MaxSnapshots
<1> DEFINE e == [addr |-> tg, installed_head |-> head]
<1>1. e \in IntegrityEntry
  BY DEF IntegrityEntry
<1>2. Append(table, e) \in Seq(IntegrityEntry) /\ Len(Append(table, e)) = Len(table) + 1
  BY <1>1, AppendProperties
<1> QED
  BY <1>2, LenProperties, BoundsAssumption DEF SnapshotIntegrity

\* Initially nothing is mapped, hooked or in progress.
LEMMA OwnershipInit == Init => OwnershipInv
<1> SUFFICES ASSUME Init PROVE OwnershipInv
  OBVIOUS
<1>1. Len(g_slots) = 0 /\ Len(g_integrity) = 0 /\ 0 \in Nat
  BY DEF Init
<1>2. TypeOK
  <2>1. code \in [Addr -> Words]
    BY WordsTyped DEF Init
  <2>2. DOMAIN tramp \subseteq Pages /\ tramp \in [DOMAIN tramp -> Words \X Words]
    BY DEF Init
  <2>3. g_slots \in Seq(Slot) /\ Len(g_slots) <= MaxSlots
    BY <1>1, BoundsAssumption DEF Init
  <2>4. g_integrity \in Seq(IntegrityEntry) /\ Len(g_integrity) <= MaxSnapshots
    BY <1>1, BoundsAssumption DEF Init
  <2>5. /\ pc \in [Threads -> {"idle", "built", "patched"}]
        /\ loc \in [Threads -> Call]
        /\ last \in [Threads -> Outcome]
    BY DefaultsTyped DEF Init
  <2> QED
    BY <2>1, <2>2, <2>3, <2>4, <2>5 DEF TypeOK
<1>3. TrampolineOwnership /\ OneSlotPerTarget
  BY <1>1 DEF Init, TrampolineOwnership, OneSlotPerTarget, SlotPages, FlightPages
<1>4. OneCallAtATime /\ CheckStillHolds
  BY DEF Init, OneCallAtATime, CheckStillHolds
<1> QED
  BY <1>2, <1>3, <1>4 DEF OwnershipInv

\* A call that only reports a result preserves the invariant.
LEMMA ReportPreservesOwnership ==
  ASSUME OwnershipInv, NEW t \in Threads, NEW o \in Outcome,
         last' = [last EXCEPT ![t] = o],
         UNCHANGED <<code, tramp, g_slots, g_integrity, pc, loc>>
  PROVE  OwnershipInv'
<1>1. TypeOK'
  BY DEF OwnershipInv, TypeOK
<1>2. TrampolineOwnership'
  BY DEF OwnershipInv, TrampolineOwnership, SlotPages, FlightPages
<1>3. OneSlotPerTarget'
  BY DEF OwnershipInv, OneSlotPerTarget
<1>4. OneCallAtATime' /\ CheckStillHolds'
  BY DEF OwnershipInv, OneCallAtATime, CheckStillHolds
<1> QED
  BY <1>1, <1>2, <1>3, <1>4 DEF OwnershipInv

\* Building the trampoline: the new page belongs to the call in progress.
LEMMA BuildPreservesOwnership ==
  ASSUME Serialized, OwnershipInv, NEW t \in Threads, NEW tg \in Targets,
         NEW r \in Replaces, NEW verify \in BOOLEAN, HookBuild(t, tg, r, verify)
  PROVE  OwnershipInv'
<1> USE DEF OwnershipInv
<1>1. PICK p \in Pages \ DOMAIN tramp :
        /\ tramp' = [q \in DOMAIN tramp \cup {p} |->
                       IF q = p THEN CopyHead(tg) ELSE tramp[q]]
        /\ loc' = [loc EXCEPT ![t] = [target |-> tg, replace |-> r,
                                      trampoline |-> p, verify |-> verify]]
  BY Zenon DEF HookBuild
<1>2. /\ pc' = [pc EXCEPT ![t] = "built"]
      /\ UNCHANGED <<code, g_slots, g_integrity, last>>
      /\ \A u \in Threads : pc[u] = "idle"
      /\ FindSlot(tg) = 0 /\ Len(g_slots) < MaxSlots
  BY BoundsAssumption, LenProperties DEF HookBuild, MayEnter, SlotsFull, IsHooked, TypeOK
<1>3. CopyHead(tg) \in Words \X Words
  BY TargetsAssumption, WordsTyped DEF CopyHead, HeadAt, TypeOK
<1>4. TypeOK'
  <2>1. DOMAIN tramp' \subseteq Pages /\ tramp' \in [DOMAIN tramp' -> Words \X Words]
    BY <1>1, <1>3 DEF TypeOK
  <2>2. loc' \in [Threads -> Call]
    BY <1>1 DEF TypeOK, Call
  <2>3. pc' \in [Threads -> {"idle", "built", "patched"}]
    BY <1>2 DEF TypeOK
  <2> QED
    BY <1>2, <2>1, <2>2, <2>3 DEF TypeOK
<1>5. FlightPages = {} /\ FlightPages' = {p}
  BY <1>1, <1>2 DEF FlightPages, TypeOK
<1>6. TrampolineOwnership'
  BY <1>1, <1>2, <1>5 DEF TrampolineOwnership, SlotPages
<1>7. OneSlotPerTarget' /\ OneCallAtATime'
  BY <1>2 DEF OneSlotPerTarget, OneCallAtATime, TypeOK
<1>8. CheckStillHolds'
  BY <1>1, <1>2, FindSlotProperties DEF CheckStillHolds, TypeOK
<1> QED
  BY <1>4, <1>6, <1>7, <1>8

\* A failed mprotect unmaps the page of the call that ends.
LEMMA ProtectFailsPreservesOwnership ==
  ASSUME OwnershipInv, NEW t \in Threads, HookProtectFails(t)
  PROVE  OwnershipInv'
<1> USE DEF OwnershipInv
<1> DEFINE p == loc[t].trampoline
<1>1. /\ pc[t] = "built"
      /\ tramp' = [q \in DOMAIN tramp \ {p} |-> tramp[q]]
      /\ pc' = [pc EXCEPT ![t] = "idle"]
      /\ loc' = [loc EXCEPT ![t] = NoCall]
      /\ UNCHANGED <<code, g_slots, g_integrity>>
  BY DEF HookProtectFails, Unmap, Restrict
<1>2. TypeOK'
  <2>1. last' \in [Threads -> Outcome]
    BY DEF HookProtectFails, Return, TypeOK, Call, Outcome
  <2> QED
    BY <1>1, <2>1, DefaultsTyped, Zenon DEF TypeOK
<1>3. FlightPages = {p} /\ FlightPages' = {}
  BY <1>1 DEF FlightPages, TypeOK, OneCallAtATime
<1>4. TrampolineOwnership'
  BY <1>1, <1>3 DEF TrampolineOwnership, SlotPages
<1>5. OneSlotPerTarget' /\ OneCallAtATime' /\ CheckStillHolds'
  BY <1>1 DEF OneSlotPerTarget, OneCallAtATime, CheckStillHolds, TypeOK
<1> QED
  BY <1>2, <1>4, <1>5

\* Overwriting the head touches neither pages nor slots.
LEMMA PatchPreservesOwnership ==
  ASSUME OwnershipInv, NEW t \in Threads, HookPatch(t)
  PROVE  OwnershipInv'
<1> USE DEF OwnershipInv
<1> DEFINE tg == loc[t].target
<1>1. /\ pc[t] = "built"
      /\ code' = [code EXCEPT ![tg.fn] = Jump(tg), ![tg.fn + 1] = Lit(loc[t].replace)]
      /\ pc' = [pc EXCEPT ![t] = "patched"]
      /\ UNCHANGED <<tramp, g_slots, g_integrity, loc, last>>
  BY DEF HookPatch
<1>2. Jump(tg) \in Words /\ Lit(loc[t].replace) \in Words
  BY WordsTyped DEF TypeOK, Call
<1>3. TypeOK'
  BY <1>1, <1>2, Zenon DEF TypeOK
<1>4. FlightPages' = FlightPages
  BY <1>1 DEF FlightPages, TypeOK
<1>5. TrampolineOwnership'
  BY <1>1, <1>4 DEF TrampolineOwnership, SlotPages
<1>6. OneSlotPerTarget' /\ OneCallAtATime' /\ CheckStillHolds'
  BY <1>1 DEF OneSlotPerTarget, OneCallAtATime, CheckStillHolds, TypeOK
<1> QED
  BY <1>3, <1>5, <1>6

\* Publishing hands the page of the call in progress to the new slot.
LEMMA PublishPreservesOwnership ==
  ASSUME OwnershipInv, NEW t \in Threads, HookPublish(t)
  PROVE  OwnershipInv'
<1> USE DEF OwnershipInv
<1> DEFINE tg == loc[t].target
           p == loc[t].trampoline
           s == [target |-> tg, replace |-> loc[t].replace, trampoline |-> p]
<1>1. /\ pc[t] = "patched"
      /\ g_slots' = Append(g_slots, s)
      /\ pc' = [pc EXCEPT ![t] = "idle"]
      /\ loc' = [loc EXCEPT ![t] = NoCall]
      /\ UNCHANGED <<code, tramp>>
  BY DEF HookPublish
<1>2. loc[t] \in Call /\ s \in Slot /\ tg \in Targets
  BY DEF TypeOK, Call, Slot
<1>3. Len(g_slots) \in Nat /\ Len(g_slots) < MaxSlots
  BY <1>1, LenProperties DEF CheckStillHolds, TypeOK
<1>4. /\ g_slots' \in Seq(Slot)
      /\ Len(g_slots') = Len(g_slots) + 1
      /\ \A i \in 1..Len(g_slots) : g_slots'[i] = g_slots[i]
      /\ g_slots'[Len(g_slots) + 1] = s
  BY <1>1, <1>2, AppendProperties DEF TypeOK
<1>5. FlightPages = {p} /\ FlightPages' = {}
  BY <1>1 DEF FlightPages, TypeOK, OneCallAtATime
<1>6. TypeOK'
  <2>1. tramp[p][1] \in Words
    BY <1>5 DEF TypeOK, TrampolineOwnership
  <2>2. ReadAt(tg, code) \in Words \cup ({"unaligned"} \X Words \X Words)
    BY <1>2, TargetsAssumption DEF ReadAt, TypeOK
  <2>3. g_integrity' \in Seq(IntegrityEntry) /\ Len(g_integrity') <= MaxSnapshots
    <3> DEFINE snap == SnapshotIntegrity(g_integrity, tg, tramp[p][1])
    <3>1. snap \in Seq(IntegrityEntry) /\ Len(snap) <= MaxSnapshots
      BY <1>2, <2>1, SnapshotTyped DEF TypeOK
    <3>2. /\ SnapshotIntegrity(snap, tg, ReadAt(tg, code)) \in Seq(IntegrityEntry)
          /\ Len(SnapshotIntegrity(snap, tg, ReadAt(tg, code))) <= MaxSnapshots
      BY <1>2, <2>2, <3>1, SnapshotTyped
    <3> QED
      BY <3>1, <3>2 DEF HookPublish
  <2>4. last' \in [Threads -> Outcome]
    <3>1. tg.thumb \in BOOLEAN
      BY <1>2, TargetsAssumption
    <3> QED
      BY <1>2, <3>1 DEF HookPublish, Return, TypeOK, Outcome
  <2>5. Len(g_slots') <= MaxSlots
    BY <1>3, <1>4, BoundsAssumption
  <2> QED
    BY <1>1, <1>4, <2>3, <2>4, <2>5, DefaultsTyped, Zenon DEF TypeOK
<1>7. TrampolineOwnership'
  <2>1. SlotPages' = SlotPages \cup {p}
    BY <1>3, <1>4 DEF SlotPages
  <2>2. \A i \in 1..Len(g_slots) : g_slots[i].trampoline # p
    BY <1>5 DEF TrampolineOwnership, SlotPages
  <2>3. \A i, j \in 1..Len(g_slots') :
          i # j => g_slots'[i].trampoline # g_slots'[j].trampoline
    BY <1>3, <1>4, <2>2 DEF TrampolineOwnership
  <2> QED
    BY <1>1, <1>5, <2>1, <2>3 DEF TrampolineOwnership
<1>8. OneSlotPerTarget'
  BY <1>1, <1>3, <1>4 DEF OneSlotPerTarget, CheckStillHolds
<1>9. \A u \in Threads : pc'[u] = "idle"
  BY <1>1 DEF OneCallAtATime, TypeOK
<1>10. OneCallAtATime' /\ CheckStillHolds'
  BY <1>9 DEF OneCallAtATime, CheckStillHolds
<1> QED
  BY <1>6, <1>7, <1>8, <1>10

\* Unhook frees the page of the slot it removes and of no other.
LEMMA UnhookPreservesOwnership ==
  ASSUME Serialized, OwnershipInv, NEW t \in Threads, NEW tg \in Targets, Unhook(t, tg)
  PROVE  OwnershipInv'
<1> USE DEF OwnershipInv
<1>0. g_slots \in Seq(Slot) /\ Len(g_slots) \in Nat
  BY LenProperties DEF TypeOK
<1>1. PICK i \in 1..Len(g_slots) : i = FindSlot(tg)
  BY <1>0, FindSlotProperties DEF Unhook
<1> DEFINE p == g_slots[i].trampoline
<1>n. PICK n \in Nat : n = Len(g_slots)
  BY <1>0
<1>2. /\ \A u \in Threads : pc[u] = "idle"
      /\ \/ code' = [code EXCEPT ![tg.fn] = tramp[p][1], ![tg.fn + 1] = tramp[p][2]]
         \/ UNCHANGED code
      /\ tramp' = [q \in DOMAIN tramp \ {p} |-> tramp[q]]
      /\ g_slots' = RemoveSwap(g_slots, i)
      /\ UNCHANGED <<g_integrity, pc, loc>>
  BY <1>1 DEF Unhook, MayEnter, Unmap, Restrict
<1>3. g_slots' \in Seq(Slot) /\ Len(g_slots') = n - 1
  BY <1>0, <1>1, <1>n, <1>2, RemoveSwapProperties
<1> DEFINE src == SwapSource(g_slots, i)
<1>s. CameFrom(src, g_slots', g_slots, i)
  BY <1>0, <1>2, RemoveSwapCameFrom
<1> HIDE DEF src
<1>4. /\ src \in [1..(n - 1) -> 1..n]
      /\ \A j \in 1..(n - 1) : src[j] # i /\ g_slots'[j] = g_slots[src[j]]
      /\ \A j, k \in 1..(n - 1) : src[j] = src[k] => j = k
  BY <1>n, <1>s DEF CameFrom
<1>5. TypeOK'
  <2>1. tramp[p] \in Words \X Words
    BY DEF TypeOK, TrampolineOwnership, SlotPages
  <2>2. code' \in [Addr -> Words]
    BY <1>2, <2>1, Zenon DEF TypeOK
  <2>3. last' \in [Threads -> Outcome]
    BY DEF Unhook, Return, TypeOK, Outcome
  <2>4. Len(g_slots') <= MaxSlots
    BY <1>n, <1>3, BoundsAssumption DEF TypeOK
  <2> QED
    BY <1>2, <1>3, <2>2, <2>3, <2>4 DEF TypeOK
<1>6. TrampolineOwnership'
  <2>1. FlightPages = {} /\ FlightPages' = {}
    BY <1>2 DEF FlightPages
  <2>2. SlotPages' = SlotPages \ {p}
    <3>1. SlotPages' \subseteq SlotPages \ {p}
      <4> SUFFICES ASSUME NEW j \in 1..(n - 1)
                   PROVE  g_slots'[j].trampoline \in SlotPages \ {p}
        BY <1>3, SMTT(30) DEF SlotPages
      <4>1. src[j] \in 1..n /\ src[j] # i /\ g_slots'[j] = g_slots[src[j]]
        BY <1>4
      <4> QED
        BY <1>n, <4>1 DEF SlotPages, TrampolineOwnership
    <3>2. ASSUME NEW k \in 1..n, g_slots[k].trampoline # p
          PROVE  g_slots[k].trampoline \in SlotPages'
      <4>1. \E j \in 1..(n - 1) : g_slots'[j] = g_slots[k]
        BY <1>0, <1>n, <1>2, <3>2, RemoveSwapKeepsOthers, Zenon
      <4> QED
        BY <1>3, <4>1 DEF SlotPages
    <3> QED
      BY <1>n, <3>1, <3>2, Zenon DEF SlotPages
  <2>3. \A j, k \in 1..Len(g_slots') :
          j # k => g_slots'[j].trampoline # g_slots'[k].trampoline
    <3> SUFFICES ASSUME NEW j \in 1..(n - 1), NEW k \in 1..(n - 1), j # k
                 PROVE  g_slots'[j].trampoline # g_slots'[k].trampoline
      BY <1>3
    <3>1. src[j] \in 1..n /\ src[k] \in 1..n /\ src[j] # src[k]
      BY <1>4
    <3> QED
      BY <1>n, <1>4, <3>1 DEF TrampolineOwnership
  <2> QED
    BY <1>2, <2>1, <2>2, <2>3 DEF TrampolineOwnership
<1>7. OneSlotPerTarget'
  <2> SUFFICES ASSUME NEW j \in 1..(n - 1), NEW k \in 1..(n - 1),
                      g_slots'[j].target = g_slots'[k].target
               PROVE  j = k
    BY <1>3 DEF OneSlotPerTarget
  <2>1. src[j] \in 1..n /\ src[k] \in 1..n
    BY <1>4
  <2>2. src[j] = src[k]
    BY <1>n, <1>4, <2>1 DEF OneSlotPerTarget
  <2> QED
    BY <1>4, <2>2
<1>8. OneCallAtATime' /\ CheckStillHolds'
  BY <1>2 DEF OneCallAtATime, CheckStillHolds
<1> QED
  BY <1>5, <1>6, <1>7, <1>8

\* Every step preserves the invariant.
LEMMA OwnershipStep ==
  ASSUME Serialized, OwnershipInv, [Next]_vars
  PROVE  OwnershipInv'
<1>1. CASE UNCHANGED vars
  <2>1. TypeOK'
    BY <1>1 DEF vars, OwnershipInv, TypeOK
  <2>2. TrampolineOwnership'
    BY <1>1, ZenonT(30) DEF vars, OwnershipInv, TrampolineOwnership, SlotPages, FlightPages
  <2>3. OneSlotPerTarget'
    BY <1>1 DEF vars, OwnershipInv, OneSlotPerTarget
  <2>4. OneCallAtATime' /\ CheckStillHolds'
    BY <1>1 DEF vars, OwnershipInv, OneCallAtATime, CheckStillHolds
  <2> QED
    BY <2>1, <2>2, <2>3, <2>4 DEF OwnershipInv
<1>2. ASSUME NEW t \in Threads, HookInvalid(t)
      PROVE  OwnershipInv'
  <2>1. AnyTarget \in Targets
    BY TargetsAssumption DEF AnyTarget
  <2>2. [op |-> "hook", target |-> AnyTarget, res |-> "INVALID", emitted |-> FALSE] \in Outcome
    BY <2>1 DEF Outcome
  <2> QED
    BY <1>2, <2>2, ReportPreservesOwnership, Zenon DEF HookInvalid, Return
<1>3. ASSUME NEW t \in Threads, NEW tg \in Targets, HookRefused(t, tg)
      PROVE  OwnershipInv'
  <2>1. \A r \in {"ALREADY", "FAILED", "UNSUPPORTED"} :
          [op |-> "hook", target |-> tg, res |-> r, emitted |-> FALSE] \in Outcome
    BY DEF Outcome
  <2> QED
    BY <1>3, <2>1, ReportPreservesOwnership, Zenon DEF HookRefused, Return
<1>4. ASSUME NEW t \in Threads, NEW tg \in Targets, UnhookNotFound(t, tg)
      PROVE  OwnershipInv'
  <2>1. [op |-> "unhook", target |-> tg, res |-> "NOT_FOUND", emitted |-> FALSE] \in Outcome
    BY DEF Outcome
  <2> QED
    BY <1>4, <2>1, ReportPreservesOwnership, Zenon DEF UnhookNotFound, Return
<1> QED
  BY <1>1, <1>2, <1>3, <1>4, BuildPreservesOwnership, ProtectFailsPreservesOwnership,
     PatchPreservesOwnership, PublishPreservesOwnership, UnhookPreservesOwnership
  DEF Next

\* Type correctness: with callers that do not overlap, every variable keeps
\* its type and neither g_slots nor g_integrity outgrows its array.
THEOREM HookerTypeCorrect == ASSUME Serialized PROVE Spec => []TypeOK
<1>1. OwnershipInv /\ [Next]_vars => OwnershipInv'
  BY OwnershipStep
<1>2. OwnershipInv => TypeOK
  BY DEF OwnershipInv
<1> QED
  BY <1>1, <1>2, OwnershipInit, PTL DEF Spec

\* Hook and Unhook neither leak nor share nor prematurely free a trampoline
\* page, on any path through hooker.cpp, failures included.
THEOREM TrampolinesOwned == ASSUME Serialized PROVE Spec => []TrampolineOwnership
<1>1. OwnershipInv /\ [Next]_vars => OwnershipInv'
  BY OwnershipStep
<1>2. OwnershipInv => TrampolineOwnership
  BY DEF OwnershipInv
<1> QED
  BY <1>1, <1>2, OwnershipInit, PTL DEF Spec

-----------------------------------------------------------------------------
(* The code agrees with the table, when heads share no word and the        *)
(* mprotect of Unhook succeeds.                                            *)

CopyOf(tg) == <<OwnCopy(tg, tg.fn), OwnCopy(tg, tg.fn + 1)>>

\* What each head holds, by what the table and the calls say of its target.
HeadsAgree ==
  \A tg \in Targets :
    /\ \A i \in 1..Len(g_slots) :
         g_slots[i].target = tg => HeadAt(tg) = <<Jump(tg), Lit(g_slots[i].replace)>>
    /\ \A t \in Threads :
         pc[t] = "patched" /\ loc[t].target = tg =>
           HeadAt(tg) = <<Jump(tg), Lit(loc[t].replace)>>
    /\ /\ \A i \in 1..Len(g_slots) : g_slots[i].target # tg
       /\ \A t \in Threads : pc[t] = "patched" => loc[t].target # tg
       => Intact(tg, tg.fn) /\ Intact(tg, tg.fn + 1)

\* Every trampoline, published or not, holds its target's own instructions.
CopiesAgree ==
  /\ \A i \in 1..Len(g_slots) :
       tramp[g_slots[i].trampoline] = CopyOf(g_slots[i].target)
  /\ \A t \in Threads :
       pc[t] # "idle" => tramp[loc[t].trampoline] = CopyOf(loc[t].target)

CodeInv == HeadsAgree /\ CopiesAgree

\* Copying an intact head yields the copy a trampoline must hold, and writing
\* such a copy back yields an intact head.
LEMMA CopyOfIntactHead ==
  ASSUME TypeOK, NEW tg \in Targets, Intact(tg, tg.fn), Intact(tg, tg.fn + 1)
  PROVE  CopyHead(tg) = CopyOf(tg)
<1>1. \A a \in Addr : RelocateWord(Orig(a)) = IF a \in BLs THEN Reloc(a) ELSE Orig(a)
  BY DEF RelocateWord, IsBL, Orig, Reloc
<1>2. \A a \in BLs : RelocateWord(Reloc(a)) = Reloc(a)
  BY DEF RelocateWord, IsBL, Orig, Reloc
<1>3. tg.fn \in Addr /\ tg.fn + 1 \in Addr
  BY TargetsAssumption
<1>4. CASE tg.thumb
  <2>1. ASSUME NEW a \in Addr, Intact(tg, a)
        PROVE  RelocateWord(code[a]) = OwnCopy(tg, a)
    BY <1>1, <1>2, <1>4, <2>1 DEF Intact, OwnCopy
  <2> QED
    BY <1>3, <1>4, <2>1 DEF CopyHead, CopyOf
<1>5. CASE ~tg.thumb
  BY <1>5 DEF CopyHead, HeadAt, CopyOf, Intact, OwnCopy
<1> QED
  BY <1>4, <1>5

\* A write to one head leaves the words of every other head alone.
LEMMA OtherHeadsUnchanged ==
  ASSUME TypeOK, Apart, NEW tg \in Targets, NEW o \in Targets, o # tg,
         NEW w1, NEW w2,
         code' = [code EXCEPT ![tg.fn] = w1, ![tg.fn + 1] = w2]
  PROVE  code'[o.fn] = code[o.fn] /\ code'[o.fn + 1] = code[o.fn + 1]
<1>1. o.fn \in Int /\ tg.fn \in Int
  BY TargetsAssumption, Zenon
<1>2. o.fn + 1 < tg.fn \/ tg.fn + 1 < o.fn
  BY DEF Apart
<1>3. o.fn \notin {tg.fn, tg.fn + 1} /\ o.fn + 1 \notin {tg.fn, tg.fn + 1}
  BY <1>1, <1>2
<1>4. o.fn \in Addr /\ o.fn + 1 \in Addr
  BY TargetsAssumption
<1> QED
  BY <1>3, <1>4 DEF TypeOK

\* The written head holds what was written.
LEMMA OwnHeadWritten ==
  ASSUME TypeOK, NEW tg \in Targets, NEW w1, NEW w2,
         code' = [code EXCEPT ![tg.fn] = w1, ![tg.fn + 1] = w2]
  PROVE  code'[tg.fn] = w1 /\ code'[tg.fn + 1] = w2
<1>1. tg.fn \in Addr /\ tg.fn + 1 \in Addr /\ tg.fn \in Int
  BY TargetsAssumption, ZenonT(30)
<1>2. tg.fn # tg.fn + 1
  BY <1>1
<1> QED
  BY <1>1, <1>2 DEF TypeOK

\* A step that changes neither the code, the pages, the table nor a call.
LEMMA ReportPreservesCode ==
  ASSUME CodeInv, UNCHANGED <<code, tramp, g_slots, pc, loc>>
  PROVE  CodeInv'
<1>1. HeadsAgree'
  BY DEF CodeInv, HeadsAgree, HeadAt, Intact
<1>2. CopiesAgree'
  BY DEF CodeInv, CopiesAgree
<1> QED
  BY <1>1, <1>2 DEF CodeInv

LEMMA BuildPreservesCode ==
  ASSUME Serialized, OwnershipInv, CodeInv, NEW t \in Threads, NEW tg \in Targets,
         NEW r \in Replaces, NEW verify \in BOOLEAN, HookBuild(t, tg, r, verify)
  PROVE  CodeInv'
<1>0. TypeOK /\ OneSlotPerTarget /\ TrampolineOwnership
  BY DEF OwnershipInv
<1>1. PICK p \in Pages \ DOMAIN tramp :
        /\ tramp' = [q \in DOMAIN tramp \cup {p} |->
                       IF q = p THEN CopyHead(tg) ELSE tramp[q]]
        /\ loc' = [loc EXCEPT ![t] = [target |-> tg, replace |-> r,
                                      trampoline |-> p, verify |-> verify]]
  BY Zenon DEF HookBuild
<1>2. /\ pc' = [pc EXCEPT ![t] = "built"]
      /\ UNCHANGED <<code, g_slots>>
      /\ \A u \in Threads : pc[u] = "idle"
      /\ FindSlot(tg) = 0
  BY DEF HookBuild, MayEnter, IsHooked
<1>3. \A u \in Threads : pc'[u] # "patched"
  BY <1>0, <1>2 DEF TypeOK
<1>4. Intact(tg, tg.fn) /\ Intact(tg, tg.fn + 1)
  BY <1>0, <1>2, FindSlotProperties DEF CodeInv, HeadsAgree, TypeOK
<1>5. CopyHead(tg) = CopyOf(tg)
  BY <1>0, <1>4, CopyOfIntactHead
<1>6. HeadsAgree'
  BY <1>2, <1>3 DEF CodeInv, HeadsAgree, HeadAt, Intact
<1>7. \A i \in 1..Len(g_slots) : tramp'[g_slots[i].trampoline] = CopyOf(g_slots[i].target)
  BY <1>0, <1>1 DEF CodeInv, CopiesAgree, TrampolineOwnership, SlotPages
<1>8. \A u \in Threads : pc'[u] # "idle" => tramp'[loc'[u].trampoline] = CopyOf(loc'[u].target)
  BY <1>0, <1>1, <1>2, <1>5 DEF TypeOK
<1> QED
  BY <1>2, <1>6, <1>7, <1>8 DEF CodeInv, CopiesAgree, CopyOf

LEMMA ProtectFailsPreservesCode ==
  ASSUME OwnershipInv, CodeInv, NEW t \in Threads, HookProtectFails(t)
  PROVE  CodeInv'
<1>0. TypeOK /\ TrampolineOwnership /\ OneCallAtATime
  BY DEF OwnershipInv
<1> DEFINE p == loc[t].trampoline
<1>1. /\ pc[t] = "built"
      /\ tramp' = [q \in DOMAIN tramp \ {p} |-> tramp[q]]
      /\ pc' = [pc EXCEPT ![t] = "idle"]
      /\ UNCHANGED <<code, g_slots>>
  BY DEF HookProtectFails, Unmap, Restrict
<1>2. \A u \in Threads : pc[u] # "patched" /\ pc'[u] = "idle"
  BY <1>0, <1>1 DEF TypeOK, OneCallAtATime
<1>3. HeadsAgree'
  BY <1>1, <1>2, SMTT(30) DEF CodeInv, HeadsAgree, HeadAt, Intact
<1>4. \A i \in 1..Len(g_slots) : g_slots[i].trampoline \in DOMAIN tramp \ {p}
  BY <1>0, <1>1, Zenon DEF TrampolineOwnership, SlotPages, FlightPages
<1>5. CopiesAgree'
  BY <1>1, <1>2, <1>4 DEF CodeInv, CopiesAgree, CopyOf
<1> QED
  BY <1>3, <1>5 DEF CodeInv

LEMMA PatchPreservesCode ==
  ASSUME Apart, OwnershipInv, CodeInv, NEW t \in Threads, HookPatch(t)
  PROVE  CodeInv'
<1>0. TypeOK /\ OneCallAtATime /\ CheckStillHolds
  BY DEF OwnershipInv
<1> DEFINE tg == loc[t].target
<1>1. /\ pc[t] = "built"
      /\ code' = [code EXCEPT ![tg.fn] = Jump(tg), ![tg.fn + 1] = Lit(loc[t].replace)]
      /\ pc' = [pc EXCEPT ![t] = "patched"]
      /\ UNCHANGED <<tramp, g_slots, loc>>
  BY DEF HookPatch
<1>2. tg \in Targets
  BY <1>0 DEF TypeOK, Call
<1>3. code'[tg.fn] = Jump(tg) /\ code'[tg.fn + 1] = Lit(loc[t].replace)
  BY <1>0, <1>1, <1>2, OwnHeadWritten, Zenon
<1>4. \A o \in Targets : o # tg =>
        code'[o.fn] = code[o.fn] /\ code'[o.fn + 1] = code[o.fn + 1]
  BY <1>0, <1>1, <1>2, OtherHeadsUnchanged, Zenon
<1>5. /\ \A u \in Threads : pc[u] # "patched"
      /\ \A u \in Threads : pc'[u] = "patched" <=> u = t
  BY <1>0, <1>1, SMTT(30) DEF TypeOK, OneCallAtATime
<1>6. \A i \in 1..Len(g_slots) : g_slots[i].target # tg
  BY <1>0, <1>1 DEF CheckStillHolds
<1>7. HeadsAgree'
  <2> SUFFICES ASSUME NEW o \in Targets
               PROVE  /\ \A i \in 1..Len(g_slots) :
                           g_slots[i].target = o =>
                             HeadAt(o)' = <<Jump(o), Lit(g_slots[i].replace)>>
                      /\ \A u \in Threads :
                           pc'[u] = "patched" /\ loc[u].target = o =>
                             HeadAt(o)' = <<Jump(o), Lit(loc[u].replace)>>
                      /\ /\ \A i \in 1..Len(g_slots) : g_slots[i].target # o
                         /\ \A u \in Threads : pc'[u] = "patched" => loc[u].target # o
                         => Intact(o, o.fn)' /\ Intact(o, o.fn + 1)'
    BY <1>1, ZenonT(30) DEF HeadsAgree, Jump, Lit, Intact
  <2>1. CASE o = tg
    BY <1>3, <1>5, <1>6, <2>1 DEF HeadAt
  <2>2. CASE o # tg
    BY <1>4, <1>5, <2>2 DEF CodeInv, HeadsAgree, HeadAt, Intact
  <2> QED
    BY <2>1, <2>2, SMTT(30)
<1>8. CopiesAgree'
  BY <1>0, <1>1, SMTT(30) DEF CodeInv, CopiesAgree, CopyOf, TypeOK
<1> QED
  BY <1>7, <1>8 DEF CodeInv

LEMMA PublishPreservesCode ==
  ASSUME OwnershipInv, CodeInv, NEW t \in Threads, HookPublish(t)
  PROVE  CodeInv'
<1>0. TypeOK /\ OneCallAtATime /\ CheckStillHolds
  BY DEF OwnershipInv
<1> DEFINE tg == loc[t].target
           s == [target |-> tg, replace |-> loc[t].replace,
                 trampoline |-> loc[t].trampoline]
<1>1. /\ pc[t] = "patched"
      /\ g_slots' = Append(g_slots, s)
      /\ pc' = [pc EXCEPT ![t] = "idle"]
      /\ UNCHANGED <<code, tramp>>
  BY DEF HookPublish
<1>2. s \in Slot /\ tg \in Targets
  BY <1>0 DEF TypeOK, Call, Slot
<1>3. /\ Len(g_slots) \in Nat
      /\ Len(g_slots') = Len(g_slots) + 1
      /\ \A i \in 1..Len(g_slots) : g_slots'[i] = g_slots[i]
      /\ g_slots'[Len(g_slots) + 1] = s
  BY <1>0, <1>1, <1>2, AppendProperties, LenProperties DEF TypeOK
<1>4. /\ \A u \in Threads : pc'[u] = "idle"
      /\ \A u \in Threads : pc[u] = "patched" => u = t
  BY <1>0, <1>1, SMTT(30) DEF TypeOK, OneCallAtATime
<1>5. HeadAt(tg) = <<Jump(tg), Lit(s.replace)>> /\ tramp[s.trampoline] = CopyOf(tg)
  BY <1>1, <1>2 DEF CodeInv, HeadsAgree, CopiesAgree
<1>6. \A i \in 1..Len(g_slots') :
        \/ i \in 1..Len(g_slots) /\ g_slots'[i] = g_slots[i]
        \/ g_slots'[i] = s
  BY <1>3
<1>7. ASSUME NEW o \in Targets, NEW i \in 1..Len(g_slots'), g_slots'[i].target = o
      PROVE  HeadAt(o) = <<Jump(o), Lit(g_slots'[i].replace)>>
  BY <1>5, <1>6, <1>7 DEF CodeInv, HeadsAgree
<1>8. ASSUME NEW o \in Targets, \A i \in 1..Len(g_slots') : g_slots'[i].target # o
      PROVE  Intact(o, o.fn) /\ Intact(o, o.fn + 1)
  <2>1. o # tg
    BY <1>3, <1>8
  <2>2. \A i \in 1..Len(g_slots) : g_slots[i].target # o
    BY <1>3, <1>8, SMTT(30)
  <2> QED
    BY <1>4, <2>1, <2>2 DEF CodeInv, HeadsAgree
<1>9. HeadsAgree'
  BY <1>1, <1>4, <1>7, <1>8, SMTT(30) DEF HeadsAgree, HeadAt, Intact
<1>10. \A i \in 1..Len(g_slots') :
         tramp[g_slots'[i].trampoline] = CopyOf(g_slots'[i].target)
  BY <1>5, <1>6 DEF CodeInv, CopiesAgree
<1> QED
  BY <1>1, <1>4, <1>9, <1>10, Zenon DEF CodeInv, CopiesAgree, CopyOf

LEMMA UnhookPreservesCode ==
  ASSUME Serialized, ~RestoreFails, Apart, OwnershipInv, CodeInv,
         NEW t \in Threads, NEW tg \in Targets, Unhook(t, tg)
  PROVE  CodeInv'
<1>0. TypeOK /\ TrampolineOwnership /\ OneSlotPerTarget
  BY DEF OwnershipInv
<1>1. g_slots \in Seq(Slot) /\ Len(g_slots) \in Nat
  BY <1>0, LenProperties DEF TypeOK
<1>2. PICK i \in 1..Len(g_slots) : i = FindSlot(tg) /\ g_slots[i].target = tg
  BY <1>0, <1>1, FindSlotProperties DEF Unhook
<1>3. PICK n \in Nat : n = Len(g_slots)
  BY <1>1, SMTT(30)
<1> DEFINE p == g_slots[i].trampoline
<1>4. /\ \A u \in Threads : pc[u] = "idle"
      /\ code' = [code EXCEPT ![tg.fn] = tramp[p][1], ![tg.fn + 1] = tramp[p][2]]
      /\ tramp' = [q \in DOMAIN tramp \ {p} |-> tramp[q]]
      /\ g_slots' = RemoveSwap(g_slots, i)
      /\ UNCHANGED <<pc, loc>>
  BY <1>2, SMTT(30) DEF Unhook, MayEnter, Unmap, Restrict
<1>5. Len(g_slots') = n - 1
  BY <1>1, <1>3, <1>4, RemoveSwapProperties, SMTT(30)
<1>6. \A j \in 1..(n - 1) : \E k \in 1..n : k # i /\ g_slots'[j] = g_slots[k]
  <2>1. CameFrom(SwapSource(g_slots, i), g_slots', g_slots, i)
    BY <1>1, <1>4, RemoveSwapCameFrom, SMTT(30)
  <2> QED
    BY <1>3, <2>1, SMTT(30) DEF CameFrom
<1>7. tramp[p] = CopyOf(tg)
  BY <1>2 DEF CodeInv, CopiesAgree
<1>8. code'[tg.fn] = OwnCopy(tg, tg.fn) /\ code'[tg.fn + 1] = OwnCopy(tg, tg.fn + 1)
  <2>1. code'[tg.fn] = tramp[p][1] /\ code'[tg.fn + 1] = tramp[p][2]
    BY <1>0, <1>4, OwnHeadWritten, ZenonT(30)
  <2> QED
    BY <1>7, <2>1, SMTT(30) DEF CopyOf
<1>9. \A o \in Targets : o # tg =>
        code'[o.fn] = code[o.fn] /\ code'[o.fn + 1] = code[o.fn + 1]
  BY <1>0, <1>4, OtherHeadsUnchanged, Zenon
<1>10. ASSUME NEW o \in Targets, NEW j \in 1..(n - 1), g_slots'[j].target = o
       PROVE  HeadAt(o)' = <<Jump(o), Lit(g_slots'[j].replace)>>
  <2>1. PICK k \in 1..n : k # i /\ g_slots'[j] = g_slots[k]
    BY <1>6
  <2>2. o # tg
    BY <1>0, <1>2, <1>3, <1>10, <2>1 DEF OneSlotPerTarget
  <2> QED
    BY <1>3, <1>9, <1>10, <2>1, <2>2 DEF CodeInv, HeadsAgree, HeadAt
<1>11. ASSUME NEW o \in Targets, \A j \in 1..(n - 1) : g_slots'[j].target # o
       PROVE  Intact(o, o.fn)' /\ Intact(o, o.fn + 1)'
  <2>1. CASE o = tg
    BY <1>8, <2>1 DEF Intact, OwnCopy
  <2>2. CASE o # tg
    <3>1. ASSUME NEW k \in 1..Len(g_slots)
          PROVE  g_slots[k].target # o
      <4>1. CASE k = i
        BY <1>2, <2>2, <4>1, SMTT(30)
      <4>2. CASE k # i
        <5>1. \E j \in 1..(Len(g_slots) - 1) : RemoveSwap(g_slots, i)[j] = g_slots[k]
          BY <1>1, <4>2, RemoveSwapKeepsOthers, SMTT(30)
        <5> QED
          BY <1>3, <1>4, <1>11, <5>1
      <4> QED
        BY <4>1, <4>2
    <3>2. Intact(o, o.fn) /\ Intact(o, o.fn + 1)
      BY <1>4, <3>1, SMTT(30) DEF CodeInv, HeadsAgree
    <3> QED
      BY <1>9, <2>2, <3>2 DEF Intact, OwnCopy
  <2> QED
    BY <2>1, <2>2
<1>12. HeadsAgree'
  BY <1>4, <1>5, <1>10, <1>11, SMTT(30) DEF HeadsAgree, Jump, Lit
<1>13. ASSUME NEW j \in 1..(n - 1)
       PROVE  tramp'[g_slots'[j].trampoline] = CopyOf(g_slots'[j].target)
  <2>1. PICK k \in 1..n : k # i /\ g_slots'[j] = g_slots[k]
    BY <1>6
  <2>2. g_slots[k].trampoline \in DOMAIN tramp \ {p}
    BY <1>0, <1>3, <2>1, SMTT(30) DEF TrampolineOwnership, SlotPages
  <2> QED
    BY <1>3, <1>4, <2>1, <2>2 DEF CodeInv, CopiesAgree
<1>14. CopiesAgree'
  BY <1>4, <1>5, <1>13, Zenon DEF CopiesAgree, CopyOf
<1> QED
  BY <1>12, <1>14 DEF CodeInv

LEMMA CodeInit == Init => CodeInv
<1> SUFFICES ASSUME Init PROVE CodeInv
  OBVIOUS
<1>1. Len(g_slots) = 0 /\ \A t \in Threads : pc[t] = "idle"
  BY DEF Init
<1>2. \A tg \in Targets : Intact(tg, tg.fn) /\ Intact(tg, tg.fn + 1)
  BY TargetsAssumption DEF Init, Intact
<1> QED
  BY <1>1, <1>2 DEF CodeInv, HeadsAgree, CopiesAgree

LEMMA CodeStep ==
  ASSUME Serialized, ~RestoreFails, Apart, OwnershipInv, CodeInv, [Next]_vars
  PROVE  CodeInv'
<1>1. CASE UNCHANGED vars
  BY <1>1, ReportPreservesCode DEF vars
<1>2. ASSUME NEW t \in Threads, HookInvalid(t) PROVE CodeInv'
  BY <1>2, ReportPreservesCode DEF HookInvalid
<1>3. ASSUME NEW t \in Threads, NEW tg \in Targets, HookRefused(t, tg) PROVE CodeInv'
  BY <1>3, ReportPreservesCode DEF HookRefused
<1>4. ASSUME NEW t \in Threads, NEW tg \in Targets, UnhookNotFound(t, tg) PROVE CodeInv'
  BY <1>4, ReportPreservesCode DEF UnhookNotFound
<1> QED
  BY <1>1, <1>2, <1>3, <1>4, BuildPreservesCode, ProtectFailsPreservesCode,
     PatchPreservesCode, PublishPreservesCode, UnhookPreservesCode
  DEF Next

\* Between calls the code agrees with the slot table, for every set of heads
\* that share no word: hooked heads jump to their replacement, all others
\* are intact.
THEOREM HeadsMatchSlots ==
  ASSUME Serialized, ~RestoreFails, Apart
  PROVE  Spec => []HeadMatchesSlot
<1>1. Init => OwnershipInv /\ CodeInv
  BY OwnershipInit, CodeInit
<1>2. OwnershipInv /\ CodeInv /\ [Next]_vars => (OwnershipInv /\ CodeInv)'
  BY OwnershipStep, CodeStep
<1>3. OwnershipInv /\ CodeInv => HeadMatchesSlot
  <2> SUFFICES ASSUME OwnershipInv, CodeInv, NEW tg \in Targets,
                      \A t \in Threads : pc[t] = "idle" \/ loc[t].target # tg
               PROVE  \/ \E i \in 1..Len(g_slots) :
                           /\ g_slots[i].target = tg
                           /\ HeadAt(tg) = <<Jump(tg), Lit(g_slots[i].replace)>>
                      \/ ~IsHooked(tg) /\ Intact(tg, tg.fn) /\ Intact(tg, tg.fn + 1)
    BY DEF HeadMatchesSlot
  <2>1. g_slots \in Seq(Slot) /\ OneSlotPerTarget /\ Len(g_slots) \in Nat
    BY LenProperties DEF OwnershipInv, TypeOK
  <2>2. CASE \E i \in 1..Len(g_slots) : g_slots[i].target = tg
    BY <2>2 DEF CodeInv, HeadsAgree
  <2>3. CASE \A i \in 1..Len(g_slots) : g_slots[i].target # tg
    <3>1. FindSlot(tg) = 0
      BY <2>1, <2>3, FindSlotProperties
    <3> QED
      BY <2>3, <3>1 DEF CodeInv, HeadsAgree, IsHooked
  <2> QED
    BY <2>2, <2>3
<1> QED
  BY <1>1, <1>2, <1>3, PTL DEF Spec

\* The origin Hook hands out always runs the target's own instructions, for
\* every set of heads that share no word.
THEOREM OriginsRunOriginal ==
  ASSUME Serialized, ~RestoreFails, Apart
  PROVE  Spec => []OriginRunsOriginal
<1>1. Init => OwnershipInv /\ CodeInv
  BY OwnershipInit, CodeInit
<1>2. OwnershipInv /\ CodeInv /\ [Next]_vars => (OwnershipInv /\ CodeInv)'
  BY OwnershipStep, CodeStep
<1>3. OwnershipInv /\ CodeInv => OriginRunsOriginal
  BY DEF CodeInv, CopiesAgree, CopyOf, OriginRunsOriginal
<1> QED
  BY <1>1, <1>2, <1>3, PTL DEF Spec
=============================================================================
