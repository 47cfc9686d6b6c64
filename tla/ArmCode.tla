------------------------------- MODULE ArmCode -------------------------------
(***************************************************************************)
(* Code of the three ARM instruction sets ("arm", "thumb", "a64") as the   *)
(* relocators read and write it, and a processor that runs it.  An         *)
(* instruction is a record: k its kind, len, reg, cond, and imm, the       *)
(* distance it adds to the program counter (or a constant).                *)
(***************************************************************************)
EXTENDS Integers, SequencesExt

AL == 14
PC == 15
TMP == 12            \* VOLATILE_REGISTER, TMP_REG_0
Always == {14, 15}
SVC == 15

I(k, len, reg, cond, imm) == [k |-> k, len |-> len, reg |-> reg, cond |-> cond, imm |-> imm, raw |-> 0, at |-> 0]
Word(value) == I("word", 4, 0, AL, value)
Quad(value) == I("word", 8, 0, AL, value)
Nop == I("other", 2, TMP, AL, 0)      \* no effect the caller sees

Size(items) == FoldSeq(LAMBDA i, n : i.len + n, 0, items)
Place(items, at) == [n \in DOMAIN items |-> [items[n] EXCEPT !.at = at + Size(SubSeq(items, 1, n - 1))]]

AlignDown(a, n) == (a \div n) * n
BitOf(x, n) == (x \div 2^n) % 2
Bits(x, lo, hi) == (x \div 2^lo) % 2^(hi - lo + 1)

\* SignExtend of the two relocators: bits above M stay when bit M-1 is 0.
SignExtend(x, M) == IF BitOf(x, M - 1) = 1 THEN (x % 2^M) - 2^M ELSE x

\* The immediate fields of an instruction that encodes the distance imm.
Field(imm, scale, width) == (imm \div scale) % 2^width
-----------------------------------------------------------------------------
(* The encoders of the assemblers that compute a field.                     *)

\* EmitThumb2Branch: sign, J1, J2 and the 21 low bits.
Xnor(x, y) == IF x = y THEN 1 ELSE 0
EmitThumb2Branch(imm) ==
  LET s == IF imm < 0 THEN 1 ELSE 0
      operand == Field(imm, 2, 24)
  IN  [s |-> s, j1 |-> Xnor(BitOf(operand, 22), s), j2 |-> Xnor(BitOf(operand, 21), s),
       low |-> Bits(operand, 0, 20)]
\* The distance such a branch covers, by the architecture.
ArchT4(f) ==
  LET x == f.s * 2^24 + Xnor(f.j1, f.s) * 2^23 + Xnor(f.j2, f.s) * 2^22 + 2 * f.low
  IN  IF f.s = 1 THEN x - 2^25 ELSE x
ArchT4Fields(imm) ==
  LET x == Field(imm, 1, 25)
      s == BitOf(x, 24)
  IN  [s |-> s, j1 |-> Xnor(BitOf(x, 23), s), j2 |-> Xnor(BitOf(x, 22), s), low |-> Bits(x, 1, 21)]

t2_b(imm) == I("b", 4, 0, AL, ArchT4(EmitThumb2Branch(imm)))
t2_bl(imm) == I("bl", 4, 0, AL, ArchT4(EmitThumb2Branch(imm)))
t2_ldr_pc(reg, imm) == I("ldr", 4, reg, AL, imm)      \* EmitThumb2LoadLiteral
ldr_base(reg) == I("ldrbase", 4, reg, AL, 0)          \* ldr reg, [reg]
ldr_tmp(reg) == I("ldrtmp", 4, reg, AL, 0)            \* ldr reg, [TMP]

\* TurboAssembler::Mov of ARM64: four 16-bit pieces (the addresses used here
\* have 32 bits).
MoveWide(op, reg, half, shift) == [I(op, 4, reg, AL, half) EXCEPT !.cond = shift]
Mov(reg, value) ==
  <<MoveWide("movz", reg, value % 2^16, 0), MoveWide("movk", reg, (value \div 2^16) % 2^16, 16),
    MoveWide("movk", reg, 0, 32), MoveWide("movk", reg, 0, 48)>>
-----------------------------------------------------------------------------
(* The processor.  Memory maps addresses to placed items.  A value is a     *)
(* number, what memory outside the items holds, or an operation on the pc.  *)

PcOf(isa, at) == CASE isa = "arm" -> at + 8 [] isa = "thumb" -> at + 4 [] OTHER -> at
Base(isa, at) == IF isa = "thumb" THEN AlignDown(PcOf(isa, at), 4) ELSE PcOf(isa, at)
Number(n) == <<"number", n>>
Load(mem, v) ==
  IF v[1] = "number" /\ v[2] \in DOMAIN mem /\ mem[v[2]].k = "word" THEN Number(mem[v[2]].imm)
  ELSE <<"memory", v>>

Away == -1           \* not a known address: why tells
\* A branch to a value: bit 0 selects Thumb, outside of ARM64.
Goto(isa, v) ==
  IF v[1] # "number" THEN [to |-> Away, isa |-> isa, why |-> v]
  ELSE [to |-> v[2] - (v[2] % 2), why |-> <<>>, isa |-> IF isa = "a64" THEN "a64" ELSE IF v[2] % 2 = 1 THEN "thumb" ELSE "arm"]

Taken(cond, flag) == cond \in Always \/ (flag <=> cond % 2 = 0)

\* One instruction: registers, where control goes, and the calls made.
StepOf(i, m, mem, flag) ==
  LET isa == m.isa
      pc == PcOf(isa, i.at)
      next == [m EXCEPT !.at = i.at + i.len]
      jump(g) == [m EXCEPT !.at = g.to, !.isa = g.isa, !.why = g.why]
      set(r, v) == IF r = PC THEN jump(Goto(isa, v)) ELSE [next EXCEPT !.regs[r] = v]
      call(g) == [next EXCEPT !.calls = Append(@, g)]
  IN  CASE i.k = "b" -> IF Taken(i.cond, flag) THEN [m EXCEPT !.at = pc + i.imm] ELSE next
        [] i.k = "bl" /\ pc + i.imm \notin DOMAIN mem ->
             IF Taken(i.cond, flag) THEN call([to |-> pc + i.imm, isa |-> isa, why |-> <<>>]) ELSE next
        [] i.k = "bl" /\ pc + i.imm \in DOMAIN mem ->     \* a call of the code itself
             IF Taken(i.cond, flag) THEN [m EXCEPT !.at = pc + i.imm, !.ret = Append(@, [at |-> i.at + i.len, isa |-> isa])] ELSE next
        [] i.k = "blx" -> call([to |-> AlignDown(pc, 4) + i.imm, why |-> <<>>, isa |-> IF isa = "arm" THEN "thumb" ELSE "arm"])
        [] i.k = "bxpc" -> jump([to |-> AlignDown(pc, 4), isa |-> "arm", why |-> <<>>])
        [] i.k = "blxpc" -> call([to |-> AlignDown(pc, 4), isa |-> "arm", why |-> <<>>])
        [] i.k = "br" -> jump(Goto(isa, m.regs[i.reg]))
        [] i.k = "blr" -> call(Goto(isa, m.regs[i.reg]))
        [] i.k = "ldr" -> IF Taken(i.cond, flag) THEN set(i.reg, Load(mem, Number(Base(isa, i.at) + i.imm))) ELSE next
        [] i.k = "ldrbase" -> set(i.reg, Load(mem, m.regs[i.reg]))
        [] i.k = "ldrtmp" -> set(i.reg, Load(mem, m.regs[TMP]))
        [] i.k = "narrow" -> set(i.reg, <<"narrow", Load(mem, Number(Base(isa, i.at) + i.imm))>>)
        [] i.k = "vector" -> next
        [] i.k = "adr" -> IF Taken(i.cond, flag) THEN set(i.reg, Number(Base(isa, i.at) + i.imm)) ELSE next
        [] i.k = "adrp" -> set(i.reg, Number(AlignDown(pc, 4096) + i.imm))
        [] i.k = "usepc" -> set(i.reg, <<"use", Number(pc)>>)
        [] i.k = "usetmp" -> set(i.reg, <<"use", m.regs[TMP]>>)
        [] i.k = "movz" -> set(i.reg, Number(i.imm))
        [] i.k = "movk" -> set(i.reg, Number(m.regs[i.reg][2] + IF i.cond = 16 THEN i.imm * 2^16 ELSE 0))
        [] i.k = "other" -> IF i.reg = TMP THEN next ELSE set(i.reg, <<"other">>)
        [] OTHER -> [m EXCEPT !.at = Away, !.why = <<"undefined">>]

\* The code a call of itself reaches ends in a branch out: the callee
\* returns to the last return address.
RECURSIVE Run(_, _, _, _)
Run(mem, m, flag, fuel) ==
  IF fuel = 0 THEN [m EXCEPT !.at = Away, !.why = <<"loop">>]
  ELSE IF m.at \in DOMAIN mem THEN Run(mem, StepOf(mem[m.at], m, mem, flag), flag, fuel - 1)
  ELSE IF m.ret = <<>> THEN m
  ELSE Run(mem, [m EXCEPT !.calls = Append(@, [to |-> m.at, isa |-> m.isa, why |-> m.why]), !.at = Last(m.ret).at,
                        !.isa = Last(m.ret).isa, !.why = <<>>, !.ret = Front(@)],
           flag, fuel - 1)

Machine(isa, at) == [isa |-> isa, at |-> at, regs |-> [r \in {0, 1, TMP} |-> <<"initial", r>>],
                     why |-> <<>>, calls |-> <<>>, ret |-> <<>>]
Memory(items) == [a \in {i.at : i \in Range(items)} |-> CHOOSE i \in Range(items) : i.at = a]
Outcome(m) == [at |-> m.at, isa |-> m.isa, why |-> m.why, calls |-> m.calls, regs |-> [r \in {0, 1} |-> m.regs[r]]]
=============================================================================
