------------------------------ MODULE X86Decode ------------------------------
(***************************************************************************)
(* x86_insn_decode: what the relocator learns about one x86 instruction,   *)
(* and what the architecture says.  An instruction is a record of the      *)
(* bytes the decoder looks at (prefixes, REX, opcode, ModRM and SIB        *)
(* fields); displacement and immediate bytes are one number, num.          *)
(***************************************************************************)
EXTENDS Integers, FiniteSets

NoRex == 0
OperandSize == \h66
AddressSize == \h67

RexW(i) == (i.rex \div 8) % 2
RexB(i) == i.rex % 2
-----------------------------------------------------------------------------
(* The opcode tables: does an entry name a ModRM operand (G, E, M, R), what *)
(* is the type of its immediate (J, I, O), and in which group is it?        *)

Entry(modrm, imm) == [modrm |-> modrm, imm |-> imm, default64 |-> FALSE, group |-> "none"]
None == Entry(FALSE, "none")
ModRM == Entry(TRUE, "none")
Imm(type) == Entry(FALSE, type)
ModRMImm(type) == Entry(TRUE, type)
Group(g, e) == [e EXCEPT !.group = g]
Default64(e) == [e EXCEPT !.default64 = TRUE]

OneByte00(op) ==
  CASE op % 8 < 4 -> ModRM
    [] op % 8 = 4 -> Imm("b")
    [] op % 8 = 5 -> Imm("z")
    [] op \in {\h07, \h0E} -> Default64(None)
    [] OTHER -> None

OneByte40(op) ==
  CASE op \in \h50..\h5F -> Default64(None)
    [] op \in {\h62, \h63} -> ModRM
    [] op = \h68 -> Default64(Imm("z"))
    [] op = \h69 -> ModRMImm("z")
    [] op = \h6A -> Default64(Imm("b"))
    [] op = \h6B -> ModRMImm("b")
    [] op \in \h70..\h7F -> Imm("b")
    [] OTHER -> None

OneByte80(op) ==
  CASE op = \h81 -> Group("1", ModRMImm("z"))
    [] op \in \h80..\h83 -> Group("1", ModRMImm("b"))
    [] op = \h8F -> Group("1a", ModRM)
    [] op \in \h84..\h8E -> ModRM
    [] op \in {\hA0, \hA2, \hA8} \cup \hB0..\hB7 -> Imm("b")
    [] op \in {\hA1, \hA3} \cup \hB8..\hBF -> Imm("v")
    [] op = \hA9 -> Imm("z")
    [] OTHER -> None

OneByteC0(op) ==
  CASE op \in {\hC0, \hC1} -> Group("2", ModRMImm("b"))
    [] op \in \hD0..\hD3 -> Group("2", ModRM)
    [] op \in {\hC2, \hC8, \hCA} -> Imm("w")
    [] op \in {\hC4, \hC5} -> ModRM
    [] op = \hC6 -> Group("11", ModRMImm("b"))
    [] op = \hC7 -> Group("11", ModRMImm("z"))
    [] op \in {\hCD, \hEB} \cup \hE0..\hE7 -> Imm("b")
    [] op \in {\hE8, \hE9} -> Default64(Imm("z"))
    [] op \in {\hF6, \hF7} -> Group("3", None)
    [] op = \hFE -> Group("4", ModRM)
    [] op = \hFF -> Group("5", None)
    [] OTHER -> None

OneByte(op) ==
  CASE op < \h40 -> OneByte00(op)
    [] op \in \h40..\h7F -> OneByte40(op)
    [] op \in \h80..\hBF -> OneByte80(op)
    [] OTHER -> OneByteC0(op)

TwoByte00(op) ==
  CASE op \in {\h00, \h01, \h0D, \h18} -> Group("modrm", None)
    [] op \in {\h02, \h03} \cup \h20..\h23 \cup \h40..\h4F -> ModRM
    [] op \in \h10..\h17 \cup \h28..\h2F -> Group("sse", ModRM)
    [] OTHER -> None

TwoByte50(op) ==
  CASE op \in \h71..\h73 -> Group("modrm", None)
    [] op \in \h50..\h7F -> Group("sse", ModRM)
    [] op \in \h80..\h8F -> Imm("z")
    [] OTHER -> ModRM

TwoByteA0(op) ==
  CASE op \in {\hA4, \hAC} -> ModRMImm("b")
    [] op = \hBA -> Group("modrm", ModRMImm("b"))
    [] op \in {\hAE, \hB9} -> Group("modrm", None)
    [] op = \hC7 -> Group("modrm", ModRM)
    [] op \in {\hA3, \hA5, \hAB, \hAD, \hAF, \hC0, \hC1, \hC3} -> ModRM
    [] op \in \hB0..\hB7 \cup \hBB..\hBF -> ModRM
    [] op \in {\hC2, \hC4, \hC5, \hC6} -> Group("sse", ModRM)
    [] OTHER -> None

TwoByte(op) ==
  CASE op < \h50 -> TwoByte00(op)
    [] op \in \h50..\h9F -> TwoByte50(op)
    [] op \in \hA0..\hCF -> TwoByteA0(op)
    [] OTHER -> Group("sse", ModRM)

\* x86_insn_modrm_reg_groups: the entries with the one flag of the table.
GroupDefault64 == {<<"1a", 0>>, <<"5", 2>>, <<"5", 4>>, <<"5", 6>>}
-----------------------------------------------------------------------------
(* The decoder.  d is x86_insn_decode_t, d.pos the reader's offset.         *)

\* x86_insn_decode_prefix: the legacy prefixes, then REX in 64-bit mode.
DecodePrefix(i, mode) ==
  LET rex == mode = 64 /\ i.rex # NoRex
  IN  [pos |-> Cardinality(i.prefix) + (IF rex THEN 1 ELSE 0), prefix |-> i.prefix,
       size64 |-> rex /\ RexW(i) = 1, ip_relative |-> FALSE, disp_off |-> 0, imm_off |-> 0,
       opcode |-> 0, spec |-> None, crash |-> FALSE]

\* x86_insn_decode_opcode: a group replaces the name and the flags of the
\* entry and leaves its operands; SSE is UNIMPLEMENTED().
DecodeOpcode(d, i) ==
  LET e == IF i.two THEN TwoByte(i.op) ELSE OneByte(i.op)
      flags == IF e.group = "none" THEN e.default64 ELSE <<e.group, i.reg>> \in GroupDefault64
  IN  [d EXCEPT !.pos = @ + (IF i.two THEN 2 ELSE 1), !.opcode = i.op,
                !.spec = [e EXCEPT !.default64 = flags], !.crash = e.group = "sse"]

\* x86_insn_decode_number: a quadword advances the reader by 4.
NumberSize(bits) == CASE bits = 8 -> 1 [] bits = 16 -> 2 [] OTHER -> 4

\* The base the decoder compares with RBP and R13, whose enum values are 7
\* and 14, is the register number of the encoding.
EnumRBP == 7
EnumR13 == 14
SibBase(i) == i.base + 8 * RexB(i)

AddressBits(i, mode) == IF AddressSize \in i.prefix THEN mode \div 2 ELSE mode

\* x86_insn_decode_modrm_sib, 32-bit and 64-bit addressing.
DispBits(i, bits) ==
  CASE i.rm = 4 /\ (SibBase(i) = EnumRBP \/ (bits = 64 /\ SibBase(i) = EnumR13)) ->
         IF i.mod = 1 THEN 8 ELSE 32
    [] i.mod = 0 -> IF i.rm = 5 THEN 32 ELSE 0
    [] OTHER -> IF i.mod = 1 THEN 8 ELSE 32

\* 16-bit addressing: disp_bits keeps its initial 255 for mod 0 and rm # 6,
\* which decode_number calls UNREACHABLE().
DispBits16(i) == IF i.mod = 0 THEN (IF i.rm = 6 THEN 16 ELSE 255) ELSE 8 * i.mod

DecodeModRM(d, i, mode) ==
  LET bits == AddressBits(i, mode)
      sib == IF bits # 16 /\ i.rm = 4 THEN 1 ELSE 0
      disp == IF bits = 16 THEN DispBits16(i) ELSE DispBits(i, bits)
      ipr == bits # 16 /\ i.mod = 0 /\ i.rm = 5
      at == d.pos + 1 + sib
  IN  CASE ~d.spec.modrm -> d
        [] i.mod = 3 -> [d EXCEPT !.pos = @ + 1]
        [] disp = 0 -> [d EXCEPT !.pos = at]
        [] disp = 255 -> [d EXCEPT !.crash = TRUE]
        [] OTHER -> [d EXCEPT !.pos = at + NumberSize(disp), !.disp_off = at,
                              !.ip_relative = ipr, !.size64 = @ /\ ~ipr]

\* x86_insn_imm_bits and x86_insn_decode_immediate.
OperandBitsNo16(d, mode) == IF d.size64 \/ (mode = 64 /\ d.spec.default64) THEN 64 ELSE 32

OperandBits(d, mode) ==
  CASE d.size64 \/ (mode = 64 /\ d.spec.default64) -> 64
    [] OperandSize \in d.prefix -> 16
    [] OTHER -> 32
ImmBits(d, mode) ==
  LET bits == OperandBits(d, mode)
  IN  CASE d.spec.imm = "b" -> 8
        [] d.spec.imm = "w" -> 16
        [] d.spec.imm = "z" -> IF bits = 64 THEN 32 ELSE bits
        [] d.spec.imm = "v" -> bits
DecodeImmediate(d, mode) ==
  IF d.spec.imm = "none" THEN d
  ELSE [d EXCEPT !.imm_off = d.pos, !.pos = @ + NumberSize(ImmBits(d, mode))]

x86_insn_decode(i, mode) ==
  DecodeImmediate(DecodeModRM(DecodeOpcode(DecodePrefix(i, mode), i), i, mode), mode)
-----------------------------------------------------------------------------
(* The architecture: the length of an instruction by the opcode maps.       *)

ArchModRM(i) ==
  IF i.two
  THEN i.op \notin \h04..\h0C \cup {\h0E} \cup \h30..\h37 \cup {\h77} \cup \h80..\h8F
                   \cup \hA0..\hA2 \cup \hA8..\hAA \cup \hC8..\hCF
  ELSE \/ i.op < \h40 /\ i.op % 8 < 4
       \/ i.op \in {\h62, \h63, \h69, \h6B, \hF6, \hF7, \hFE, \hFF} \cup \h80..\h8F
       \/ i.op \in {\hC0, \hC1} \cup \hC4..\hC7 \cup \hD0..\hD3 \cup \hD8..\hDF

ArchDisp(i, mode) ==
  LET bits == AddressBits(i, mode)
      noBase == i.mod = 0 /\ (i.rm = 5 \/ (i.rm = 4 /\ i.base = 5))
  IN  CASE i.mod = 3 \/ (i.two /\ i.op \in \h20..\h23) -> 0
        [] bits = 16 -> IF i.mod = 0 THEN (IF i.rm = 6 THEN 2 ELSE 0) ELSE i.mod
        [] i.mod = 1 -> 1
        [] OTHER -> IF i.mod = 2 \/ noBase THEN 4 ELSE 0

ArchSib(i, mode) == i.mod # 3 /\ i.rm = 4 /\ AddressBits(i, mode) # 16

ArchImm(i, mode) ==
  LET w64 == mode = 64 /\ RexW(i) = 1
      z == IF OperandSize \in i.prefix /\ ~w64 THEN 2 ELSE 4
      near == IF mode = 64 THEN 4 ELSE z
      moffs == AddressBits(i, mode) \div 8
  IN  IF i.two
      THEN CASE i.op \in \h80..\h8F -> near
             [] i.op \in {\h70, \h71, \h72, \h73, \hA4, \hAC, \hBA, \hC2, \hC4, \hC5, \hC6, \h0F, \h3A} -> 1
             [] OTHER -> 0
      ELSE CASE i.op < \h40 -> (IF i.op % 8 = 4 THEN 1 ELSE IF i.op % 8 = 5 THEN z ELSE 0)
             [] i.op \in {\h68, \h69, \h81, \hA9, \hC7} -> z
             [] i.op \in {\h6A, \h6B, \h80, \h82, \h83, \hA8, \hC0, \hC1, \hC6, \hCD, \hD4, \hD5, \hEB} -> 1
             [] i.op \in \h70..\h7F \cup \hB0..\hB7 \cup \hE0..\hE7 -> 1
             [] i.op \in \hA0..\hA3 -> moffs
             [] i.op \in \hB8..\hBF -> (IF w64 THEN 8 ELSE z)
             [] i.op \in {\hC2, \hCA} -> 2
             [] i.op = \hC8 -> 3
             [] i.op \in {\h9A, \hEA} -> z + 2
             [] i.op \in {\hE8, \hE9} -> near
             [] i.op = \hF6 -> (IF i.reg < 2 THEN 1 ELSE 0)
             [] i.op = \hF7 -> (IF i.reg < 2 THEN z ELSE 0)
             [] OTHER -> 0

ArchHeader(i, mode) ==   \* bytes before the displacement
  Cardinality(i.prefix) + (IF i.rex # NoRex THEN 1 ELSE 0) + (IF i.two THEN 2 ELSE 1)
    + (IF ArchModRM(i) THEN (IF ArchSib(i, mode) THEN 2 ELSE 1) ELSE 0)
ArchDispSize(i, mode) == IF ArchModRM(i) THEN ArchDisp(i, mode) ELSE 0
ArchLength(i, mode) == ArchHeader(i, mode) + ArchDispSize(i, mode) + ArchImm(i, mode)

\* The instructions whose length the decoder gets wrong, by cause.
Misdecoded(i, mode) ==
  \/ ~i.two /\ i.op \in {\hF6, \hF7, \hFF} \cup \hD8..\hDF        \* no ModRM in the table
  \/ i.two /\ i.op \in {\h00, \h01, \h0D, \hAE, \hB8, \hB9} \cup \h18..\h1F \cup \h71..\h73
  \/ i.two /\ i.op \in {\h0F, \h24, \h25, \h26, \h27, \hA6, \hA7} \cup \h38..\h3F
  \/ ~i.two /\ i.op \in {\hC8, \h9A, \hEA, \hD4, \hD5} \cup \hA0..\hA3   \* immediate missing
  \/ ~i.two /\ i.op \in \hB8..\hBF /\ RexW(i) = 1                 \* quadword of 4 bytes
  \/ OperandSize \in i.prefix /\ mode = 64                        \* default size
       /\ (IF i.two THEN i.op \in \h80..\h8F ELSE i.op = \h68 /\ RexW(i) = 0)
  \/ i.two /\ i.op \in \h20..\h23 /\ i.mod # 3
  \/ /\ ArchModRM(i) /\ ArchSib(i, mode) /\ i.mod = 0             \* RBP and R13 as enums
     /\ i.base = 5 \/ SibBase(i) \in {EnumRBP, EnumR13}
=============================================================================
