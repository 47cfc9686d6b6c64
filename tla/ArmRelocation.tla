---------------------------- MODULE ArmRelocation ----------------------------
(***************************************************************************)
(* GenRelocateCode for ARM, Thumb and ARM64: the instructions that the     *)
(* trampoline overwrites at origin are moved, one at a time, to a new      *)
(* block, followed by a branch back to the first instruction left in       *)
(* place and by the literal pool.                                          *)
(***************************************************************************)
EXTENDS ArmEmit

CONSTANTS
  Programs,    \* [isa -> the heads: sequences of instructions]
  Origins,     \* addresses of the hooked function
  HeadSize(_, _),   \* bytes that the trampoline overwrites, by isa and address
  Relocated    \* address of the block that receives the moved code

VARIABLES
  isa, origin, program,
  done,        \* instructions moved so far
  cursor,      \* and their bytes (buffer_cursor - buffer)
  buf,         \* the code buffer
  labels,      \* data labels, in the order of the pool
  changed,     \* execute_state_map
  offsets,     \* relocated_offset_map
  phase        \* "head", "done", "failed" (no memory) or "crashed"

vars == <<isa, origin, program, done, cursor, buf, labels, changed, offsets, phase>>

Unit == IF isa = "thumb" THEN 2 ELSE 4
InsnAt(n) == IF n <= Len(program) THEN program[n] ELSE I("other", Unit, 1, AL, 0)

Init ==
  /\ isa \in DOMAIN Programs
  /\ origin \in {a \in Origins : isa = "thumb" \/ a % 4 = 0}
  /\ program \in Programs[isa]
  /\ done = 0 /\ cursor = 0 /\ buf = <<>> /\ labels = <<>>
  /\ changed = {} /\ offsets = <<>>
  /\ phase = "head"

relo_cur_src_vmaddr == PcOf(isa, origin + cursor)

\* AlignThumbNop: assembly is generated for address 0.
AlignThumbNop(items) == IF Size(items) % 4 # 0 THEN Append(items, Nop) ELSE items

is_thumb2(i) == i.len = 4
Emission(i) ==
  CASE isa = "arm" -> ARMRelocateSingleInsn(i, relo_cur_src_vmaddr)
    [] isa = "thumb" /\ ~is_thumb2(i) -> Thumb1RelocateSingleInsn(i, relo_cur_src_vmaddr)
    [] isa = "thumb" /\ is_thumb2(i) -> Thumb2RelocateSingleInsn(i, relo_cur_src_vmaddr)
    [] OTHER -> relocate_a64(i, relo_cur_src_vmaddr)

\* A linked load remembers the number of its label.
Linked(items) == [n \in DOMAIN items |-> IF items[n].k = "ldrlabel" THEN [items[n] EXCEPT !.imm = Len(labels) + 1]
                                          ELSE items[n]]

\* preferred_relo_size, or the buffer_size of the ARM relocator.
preferred_relo_size == HeadSize(isa, origin)
InHead == cursor < preferred_relo_size

check_execute_state_changed(execute_state_map, addr) == addr \in execute_state_map

\* One turn of the loops of gen_arm, gen_thumb and relocate.  When the next
\* instruction is one at which the state changes, the loop is left and
\* entered again, still as Thumb, after a nop that aligns the buffer.
RelocateInsn ==
  /\ phase = "head" /\ InHead
  /\ LET i == InsnAt(done + 1)
         e == Emission(i)
         before == IF isa = "thumb" THEN AlignThumbNop(Append(buf, Nop)) ELSE buf
         after == before \o Linked(e.items)
         next == cursor + i.len
         interrupted == check_execute_state_changed(changed', origin + next) /\ next < preferred_relo_size
     IN  IF e = UNREACHABLE
         THEN phase' = "crashed" /\ UNCHANGED <<done, cursor, buf, labels, changed, offsets>>
         ELSE /\ changed' = changed \cup e.changed
              /\ buf' = IF interrupted THEN AlignThumbNop(after) ELSE after
              /\ labels' = labels \o e.label
              /\ offsets' = Append(offsets, [from |-> cursor, to |-> Size(buf)])
              /\ done' = done + 1
              /\ cursor' = next
              /\ UNCHANGED phase
  /\ UNCHANGED <<isa, origin, program>>

\* RelocLabelFixup, of the ARM and the Thumb assembler: a label whose value
\* is a key of relocated_offset_map gets the mapped offset.
RelocLabelFixup(values) ==
  [n \in DOMAIN values |->
     LET hits == {o \in Range(offsets) : o.from = values[n]}
     IN  IF isa # "a64" /\ hits # {} THEN (CHOOSE o \in hits : TRUE).to ELSE values[n]]

\* The branch to the first instruction that stays in place.
ThumbBranchBack(items, to) == AlignThumbNop(items) \o LoadPc(to + 1)
ArmBranchBack(items, to) == items \o <<I("ldr", 4, PC, AL, -4), Word(to)>>
A64BranchBack(items) == items \o <<[LDR_label(TMP) EXCEPT !.imm = Len(labels) + 1], I("br", 4, TMP, AL, 0)>>
BranchBack(items, to) ==
  CASE isa = "thumb" -> [items |-> ThumbBranchBack(items, to), label |-> <<>>]
    [] isa = "arm" -> [items |-> ArmBranchBack(items, to), label |-> <<>>]
    [] OTHER -> [items |-> A64BranchBack(items), label |-> <<to>>]

\* A load gets the distance from its program counter to its label.
link_confused_instructions(i, pos) == [i EXCEPT !.k = "ldr", !.imm = pos - PcOf(isa, i.at)]

\* relocDataLabels: the pool follows the code, and every load is linked to
\* its word.
LabelSize == IF isa = "a64" THEN 8 ELSE 4
relocDataLabels(items, values) ==
  LET code == Place(items, 0)
      pos(n) == Size(items) + LabelSize * (n - 1)
      link(i) == IF i.k = "ldrlabel" THEN link_confused_instructions(i, pos(i.imm)) ELSE i
      pool == [n \in DOMAIN values |-> IF isa = "a64" THEN Quad(values[n]) ELSE Word(values[n])]
  IN  [n \in DOMAIN code |-> link(code[n])] \o Place(pool, Size(items))

\* The rest of GenRelocateCode.  FinalizeFromTurboAssembler may get no block.
Finish ==
  /\ phase = "head" /\ ~InHead
  /\ LET b == BranchBack(buf, origin + cursor)
     IN  \/ /\ phase' = "done"
            /\ labels' = RelocLabelFixup(labels \o b.label)
            /\ buf' = relocDataLabels(b.items, labels')
         \/ phase' = "failed" /\ UNCHANGED <<labels, buf>>
  /\ UNCHANGED <<isa, origin, program, done, cursor, changed, offsets>>

Next == RelocateInsn \/ Finish
Spec == Init /\ [][Next]_vars
-----------------------------------------------------------------------------
(* What the moved code does, compared with the code it replaces.            *)

Original == Place([n \in 1..done |-> InsnAt(n)], origin)
Moved == [n \in DOMAIN buf |-> [buf[n] EXCEPT !.at = @ + Relocated]]

\* Instructions that the relocator is known to change the meaning of.
Mistranslated(i, at) ==
  \/ isa = "arm" /\ i.k \in {"ldr", "adr"} /\ i.cond # AL            \* the condition is dropped
  \/ i.k = "narrow"                                                  \* becomes a full load
  \/ isa = "arm" /\ i.k = "blx" /\ i.imm % 4 = 2                     \* the H bit is dropped
  \/ isa = "thumb" /\ i.k = "b" /\ i.raw = 1                         \* b_cond_insn is not a b.cond
  \/ isa = "thumb" /\ i.k \in {"bxpc", "blxpc"}                      \* the target lies in the head
  \/ isa = "thumb" /\ i.k = "adr" /\ (i.len = 4 \/ at % 4 = 2)       \* falls into its literal; unaligned pc
  \/ isa = "thumb" /\ i.k = "ldr" /\ i.len = 4 /\ (i.reg = PC \/ at % 4 = 2)
  \/ isa = "thumb" /\ i.k = "blx" /\ (i.imm >= 2^23 \/ i.imm < -(2^23))   \* sign-extended from bit 23
  \/ isa = "a64" /\ i.k = "vector"                                   \* written to a general register
  \/ isa = "a64" /\ i.k = "b" /\ i.raw = 19 /\ i.cond \in Always     \* AL inverted is NV: also always

\* Branches to an instruction of the head, which is no longer there.
IntoHead(i, at) == i.k \in {"b", "bl"} /\ PcOf(isa, at) + i.imm \in origin..(origin + cursor - 1)

Fuel == 60
Same(code) ==
  \A flag \in BOOLEAN :
    Outcome(Run(Memory(code), Machine(isa, origin), flag, Fuel))
      = Outcome(Run(Memory(Moved), Machine(isa, Relocated), flag, Fuel))

TypeOK ==
  /\ phase \in {"head", "done", "failed", "crashed"}
  /\ cursor < HeadSize(isa, origin) + 4
  /\ changed \subseteq Int
  /\ Len(offsets) = done

\* The moved code behaves as the head did: same registers, same calls, and
\* control leaves to the same address in the same instruction set, whatever
\* the conditions are, for the instructions that the relocator handles.
SameBehaviour ==
  phase = "done" /\ (\A i \in Range(Original) : ~Mistranslated(i, i.at) /\ ~IntoHead(i, i.at)) => Same(Original)

\* link_confused_instructions asserts that the pc of a linked load is a
\* multiple of 4.
LinkedAligned ==
  \A n \in DOMAIN buf : buf[n].k = "ldrlabel" => Size(SubSeq(buf, 1, n - 1)) % 4 = 0

\* "fixup the insn branch into trampoline(has been modified)".
BranchIntoHeadFixedUp ==
  phase = "done" /\ (\A i \in Range(Original) : ~Mistranslated(i, i.at)) => Same(Original)

\* SameBehaviour without its exceptions.
EveryInstruction == phase = "done" => Same(Original)

\* The relocator handles or copies every instruction.
NeverCrashes == phase # "crashed"
=============================================================================
