------------------------------- MODULE ArmEmit -------------------------------
(***************************************************************************)
(* What the relocators of ARM, Thumb and ARM64 write for one instruction   *)
(* of the head of the hooked function: the instructions, the words of the  *)
(* literal pool they load from, and the addresses at which the relocator   *)
(* believes that the instruction set changes.                              *)
(***************************************************************************)
EXTENDS ArmCode

LDR_label(reg) == I("ldrlabel", 4, reg, AL, 0)   \* Ldr / T2_Ldr of a data label
Out(items) == [items |-> items, label |-> <<>>, changed |-> {}]
OutLabel(items, value) == [items |-> items, label |-> <<value>>, changed |-> {}]
OutChanged(items, value) == [items |-> items, label |-> <<value>>, changed |-> {value}]
UNREACHABLE == [items |-> <<>>, label |-> <<>>, changed |-> {-1}]
ThumbFlag(a) == IF a % 2 = 1 THEN a ELSE a + 1     \* dst_vmaddr |= 1
-----------------------------------------------------------------------------
(* ARM.                                                                     *)

arm_ror(val, n) == IF n = 0 THEN val ELSE val \div 2^n + (val % 2^n) * 2^(32 - n)
arm_expand_imm_c(imm12) == arm_ror(Bits(imm12, 0, 7), 2 * Bits(imm12, 8, 11))

ArmLiteralLoad(i, pc) ==
  OutLabel(IF i.reg = PC THEN <<LDR_label(TMP), ldr_tmp(PC)>>
           ELSE <<LDR_label(i.reg), ldr_base(i.reg)>>, pc + i.imm)
ArmAdr(i, pc) ==
  OutLabel(<<LDR_label(i.reg)>>,
           IF i.imm < 0 THEN pc - arm_expand_imm_c(i.raw) ELSE pc + arm_expand_imm_c(i.raw))
ArmBranch(i, pc) ==
  LET dst == pc + SignExtend(4 * Field(i.imm, 4, 24), 26)
  IN  Out(<<I(IF i.k = "b" THEN "b" ELSE "bl", 4, 0, IF i.k = "blx" THEN AL ELSE i.cond, 0),
            I("b", 4, 0, AL, 4),
            I("ldr", 4, PC, AL, -4),
            Word(IF i.k = "blx" THEN ThumbFlag(dst) ELSE dst),
            I("other", 4, TMP, AL, 0)>>)                   \* mov r8, r8

ARMRelocateSingleInsn(i, pc) ==
  CASE i.k \in {"ldr", "narrow"} -> ArmLiteralLoad(i, pc)
    [] i.k = "adr" -> ArmAdr(i, pc)
    [] i.k \in {"b", "bl", "blx"} -> ArmBranch(i, pc)
    [] OTHER -> Out(<<i>>)
-----------------------------------------------------------------------------
(* Thumb, 16-bit.                                                           *)

\* 0xe000 with the condition in bits 8-11 and a distance of 4: the opcode of
\* B, or for a condition with its high bit set half of a 32-bit instruction.
b_cond_insn(cond) ==
  IF cond < 8 THEN I("b", 2, 0, AL, SignExtend(2 * (cond * 256 + 2), 12))
  ELSE I("undefined", 2, 0, AL, 0)
SkipThenLoad(branch) == <<branch, Nop, t2_b(4), LDR_label(PC)>>
Cbz(i) == [i EXCEPT !.imm = 4]

ThumbLdrLiteral(i, pc) == OutLabel(<<LDR_label(i.reg), ldr_base(i.reg)>>, AlignDown(pc + i.imm, 4))
ThumbCondBranch(i, pc) ==
  IF i.cond >= 14 THEN UNREACHABLE
  ELSE OutLabel(SkipThenLoad(b_cond_insn(i.cond)), ThumbFlag(pc + SignExtend(2 * Field(i.imm, 2, 8), 9)))
ThumbCompareBranch(i, pc) == OutLabel(SkipThenLoad(Cbz(i)), pc + 2 * Field(i.imm, 2, 6) + 1)
ThumbBranch(i, pc) == OutLabel(<<LDR_label(PC)>>, pc + SignExtend(2 * Field(i.imm, 2, 11), 12) + 1)

Thumb1RelocateSingleInsn(i, pc) ==
  CASE i.k = "usepc" -> OutLabel(<<LDR_label(TMP), [i EXCEPT !.k = "usetmp"]>>, pc)
    [] i.k = "bxpc" -> OutChanged(<<LDR_label(PC)>>, pc)
    [] i.k = "blxpc" -> OutChanged(<<t2_bl(4), t2_b(4), LDR_label(PC)>>, pc)
    [] i.k = "ldr" -> ThumbLdrLiteral(i, pc)
    [] i.k = "adr" -> OutLabel(<<LDR_label(i.reg)>>, pc + i.imm)
    [] i.k = "b" /\ i.raw = 1 -> ThumbCondBranch(i, pc)
    [] i.k = "b" /\ i.raw = 2 -> ThumbCompareBranch(i, pc)
    [] i.k = "b" /\ i.raw = 0 -> ThumbBranch(i, pc)
    [] OTHER -> Out(<<i>>)
-----------------------------------------------------------------------------
(* Thumb, 32-bit.                                                           *)

LoadPc(dst) == <<t2_ldr_pc(PC, 0), Word(dst)>>
CallPc(dst) == <<t2_bl(4), t2_b(8)>> \o LoadPc(dst)

T4ImmNoXor(f, width) == SignExtend(f.s * 2^24 + f.j1 * 2^23 + f.j2 * 2^22 + 2 * f.low, width)
\* The distance of B (T4), BL and BLX from S, J1, J2 and the low bits.
T4Imm(f, width) ==
  SignExtend(f.s * 2^24 + Xnor(f.j1, f.s) * 2^23 + Xnor(f.j2, f.s) * 2^22 + 2 * f.low, width)

Thumb2CondBranch(i, pc) ==
  Out(<<b_cond_insn(i.cond), Nop, t2_b(8)>> \o LoadPc(ThumbFlag(pc + SignExtend(Field(i.imm, 1, 21), 21))))
Thumb2Adr(i, pc) == Out(<<t2_ldr_pc(i.reg, 4), t2_b(0), Word(pc + i.imm)>>)
Thumb2LdrLiteral(i, pc) ==
  Out(<<t2_ldr_pc(i.reg, 8),
        ldr_base(i.reg), t2_b(4), Word(pc + i.imm)>>)

Thumb2RelocateSingleInsn(i, pc) ==
  LET f == ArchT4Fields(i.imm)
  IN  CASE i.k = "b" /\ i.raw = 1 -> Thumb2CondBranch(i, pc)
        [] i.k = "b" /\ i.raw = 0 -> Out(LoadPc(ThumbFlag(pc + T4Imm(f, 25))))
        [] i.k = "bl" -> Out(CallPc(ThumbFlag(pc + T4Imm(f, 25))))
        [] i.k = "blx" -> Out(CallPc(AlignDown(pc, 4) + T4Imm(f, 24)))
        [] i.k = "adr" -> Thumb2Adr(i, pc)
        [] i.k = "ldr" -> Thumb2LdrLiteral(i, pc)
        [] OTHER -> Out(<<i>>)
-----------------------------------------------------------------------------
(* ARM64.                                                                   *)

decode_imm14_offset(i) == SignExtend(4 * Field(i.imm, 4, 14), 16)
decode_imm19_offset(i) == SignExtend(4 * Field(i.imm, 4, 19), 21)
decode_imm26_offset(i) == SignExtend(4 * Field(i.imm, 4, 26), 28)
decode_immhi_immlo_offset(imm) == SignExtend(Field(imm, 1, 2) + 4 * Field(imm, 4, 19), 21)
decode_immhi_immlo_zero12_offset(imm) == decode_immhi_immlo_offset(imm \div 4096) * 4096
arm64_trunc_page(a) == AlignDown(a, 4096)

\* The inverted condition skips the load and the branch.
Inverted(i) == [i EXCEPT !.cond = IF @ % 2 = 0 THEN @ + 1 ELSE @ - 1, !.imm = 4 * 3]
LdrBranch == <<LDR_label(TMP), I("br", 4, TMP, AL, 0)>>

\* ldr(W(rt), ...) and ldr(X(rt), ...) are both emitted with the X opcode.
A64LdrLiteral(i, dst) ==
  IF i.raw \in {2, 3} THEN UNREACHABLE ELSE Out(Mov(TMP, dst) \o <<ldr_tmp(i.reg)>>)

inst_is_b_bl(i) == i.k = "bl" \/ (i.k = "b" /\ i.raw = 26)
inst_is_ldr_literal(i) == i.k \in {"ldr", "narrow", "vector"}
inst_is_adr(i) == i.k = "adr"
inst_is_adrp(i) == i.k = "adrp"
inst_is_b_cond(i) == i.k = "b" /\ i.raw = 19      \* inst_is_compare_b too: the same field
inst_is_test_b(i) == i.k = "b" /\ i.raw = 14

\* b is followed by br, bl by blr.
A64Branch(i) == IF i.k = "b" THEN LdrBranch ELSE <<LDR_label(TMP), I("blr", 4, TMP, AL, 0)>>

relocate_a64(i, pc) ==
  CASE inst_is_b_bl(i) -> OutLabel(A64Branch(i), pc + decode_imm26_offset(i))
    [] inst_is_ldr_literal(i) -> A64LdrLiteral(i, pc + decode_imm19_offset(i))
    [] inst_is_adr(i) -> Out(Mov(i.reg, pc + decode_immhi_immlo_offset(i.imm)))
    [] inst_is_adrp(i) -> Out(Mov(i.reg, arm64_trunc_page(pc + decode_immhi_immlo_zero12_offset(i.imm))))
    [] inst_is_b_cond(i) -> OutLabel(<<Inverted(i)>> \o LdrBranch, pc + decode_imm19_offset(i))
    [] inst_is_test_b(i) -> OutLabel(<<Inverted(i)>> \o LdrBranch, pc + decode_imm14_offset(i))
    [] OTHER -> Out(<<i>>)
=============================================================================
