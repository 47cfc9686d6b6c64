---------------------------- MODULE X86Relocation ----------------------------
(***************************************************************************)
(* Moving the head of a hooked x86 function to the relocated block:        *)
(* GenRelocateCodeX86Shared, GenRelocateCodeFixed of the two builds and    *)
(* GenRelocateSingleX86Insn.  Addresses are bytes; the head starts at      *)
(* Origin and is as long as the trampoline that will overwrite it.         *)
(***************************************************************************)
EXTENDS X86Decode, SequencesExt

CONSTANTS
  Programs,        \* what may stand at Origin: [build, insns], then nops
  Origin, Relocated, Near,   \* addresses of the head and of the two allocators' blocks
  PatchSize,       \* size of the trampoline, the first value of origin->size
  MaxSize,         \* bound: the largest block the allocator still has
  NearMayFail      \* TRUE: allocNearCodeBlock may return a null block

ASSUME X86Assumption ==
  /\ {Origin, Relocated, Near, PatchSize, MaxSize} \subseteq Nat \ {0}
  /\ \A p \in Programs : p.build \in {"x64", "ia32"}

VARIABLES
  program,      \* the instructions at Origin, and the build
  phase,
  cursor,       \* how many of them are relocated
  orig_ip,      \* curr_orig_ip
  code,         \* the assembler's buffer: items at their final address
  near_code,    \* items written to near code blocks
  near_blocks,  \* near code blocks allocated so far
  size,         \* expected_relocated_mem_size, the size of the block
  origin_size   \* origin->size

vars == <<program, phase, cursor, orig_ip, code, near_code, near_blocks, size, origin_size>>

\* Both builds ask for 64-bit decoding; the processor of one is 32-bit.
DecodeMode == 64
CpuMode(build) == IF build = "x64" THEN 64 ELSE 32

Nop == [prefix |-> {}, rex |-> NoRex, two |-> FALSE, op |-> \h90, mod |-> 3, reg |-> 0, rm |-> 0,
        base |-> 0, num |-> 0]
InsnAt(n) == IF n <= Len(program.insns) THEN program.insns[n] ELSE Nop
ShortInsn(op, n) == [Nop EXCEPT !.op = op, !.num = n]

\* What lies in memory: an instruction, an indirect jump or call through the
\* quadword at a distance from the next instruction, or a quadword.
Item(kind, at, len, insn, num) == [kind |-> kind, at |-> at, len |-> len, insn |-> insn, num |-> num]
Insn(at, len, i) == Item("insn", at, len, i, 0)
JmpInd(at, n) == Item("jmp*", at, 6, Nop, n)
CallInd(at, n) == Item("call*", at, 6, Nop, n)
Quad(at, n) == Item("quad", at, 8, Nop, n)

\* codegen_x64_jmp_absolute_addr
jmp_absolute_addr(at, target) == <<JmpInd(at, 0), Quad(at + 6, target)>>

\* emit_rel32_label: the offset from the end of an instruction of len bytes.
rel32_label(at, len, dst) == dst - (at + len)

BufferSize(items) == FoldSeq(LAMBDA i, n : i.len + n, 0, items)
ReloIp == Relocated + BufferSize(code)
-----------------------------------------------------------------------------
(* GenRelocateSingleX86Insn, by the branch it takes.                        *)

IsJcc(d) == d.opcode \in \h70..\h7F
IsRip(d) == ~IsJcc(d) /\ DecodeMode = 64 /\ d.ip_relative
Unsupported(d) == ~IsRip(d) /\ d.opcode \in \hE0..\hE3

\* jcc rel8: ia32 widens it; x64 jumps over a short jump to an absolute one.
RelocateJcc(build, at, i, dst) ==
  IF build = "ia32"
  THEN <<Insn(at, 6, [i EXCEPT !.two = TRUE, !.op = \h80 + (i.op % 16), !.num = rel32_label(at, 6, dst)])>>
  ELSE <<Insn(at, 2, ShortInsn(i.op, 2)), Insn(at + 2, 2, ShortInsn(\hEB, 6 + 8))>>
         \o jmp_absolute_addr(at + 4, dst)

RelocateShortJmp(build, at, i, dst) ==
  IF build = "ia32" THEN <<Insn(at, 5, [i EXCEPT !.op = \hE9, !.num = rel32_label(at, 5, dst)])>>
  ELSE jmp_absolute_addr(at, dst)

RelocateCallNoSkip(build, at, i, dst) ==
  IF build = "ia32" THEN <<Insn(at, 5, [i EXCEPT !.num = rel32_label(at, 5, dst)])>>
  ELSE IF i.op = \hE8 THEN <<CallInd(at, 2), Insn(at + 6, 2, ShortInsn(\hEB, 0)), Quad(at + 8, dst)>>
  ELSE jmp_absolute_addr(at, dst)

RelocateCall(build, at, i, dst) ==
  IF build = "ia32" THEN <<Insn(at, 5, [i EXCEPT !.num = rel32_label(at, 5, dst)])>>
  ELSE IF i.op = \hE8 THEN <<CallInd(at, 2), Insn(at + 6, 2, ShortInsn(\hEB, 8)), Quad(at + 8, dst)>>
  ELSE jmp_absolute_addr(at, dst)

\* A RIP-relative instruction moves to a near block that ends with a jump
\* back to the instruction after the jump that leads there.
RipSequence(seq, i, len, dst, back) ==
  <<Insn(seq, len, [i EXCEPT !.num = dst - (seq + len)])>> \o jmp_absolute_addr(seq + len, back)

RelocateOther(at, i, d) == <<Insn(at, d.pos, i)>>

\* The instructions emitted to the buffer.  Opcodes are compared without
\* regard to the map they come from: insn.primary_opcode.
Emitted(build, at, i, d, seq) ==
  LET dst == orig_ip + d.pos + i.num
  IN  CASE IsJcc(d) -> RelocateJcc(build, at, i, dst)
        [] IsRip(d) -> jmp_absolute_addr(at, seq)
        [] ~IsRip(d) /\ d.opcode = \hEB -> RelocateShortJmp(build, at, i, dst)
        [] ~IsRip(d) /\ d.opcode \in {\hE8, \hE9} -> RelocateCall(build, at, i, dst)
        [] OTHER -> RelocateOther(at, i, d)
-----------------------------------------------------------------------------
Init ==
  /\ program \in Programs
  /\ phase = "alloc"
  /\ cursor = 0 /\ orig_ip = Origin
  /\ code = <<>> /\ near_code = <<>> /\ near_blocks = 0
  /\ size = 32
  /\ origin_size = PatchSize

\* x86_try_again: a block of the expected size, or none.
AllocExecBlock ==
  /\ phase = "alloc"
  /\ phase' = IF size <= MaxSize THEN "loop" ELSE "failed"
  /\ UNCHANGED <<program, cursor, orig_ip, code, near_code, near_blocks, size, origin_size>>

\* One turn of the loop.  A wrong length leaves the cursor inside an
\* instruction; from there on nothing is known ("lost").
InHead == orig_ip - Origin < origin_size
RelocateInsn ==
  /\ phase = "loop" /\ InHead
  /\ LET i == InsnAt(cursor + 1)
         d == x86_insn_decode(i, DecodeMode)
     IN  \/ /\ d.crash \/ Unsupported(d)
            /\ phase' = "crash"
            /\ UNCHANGED <<cursor, orig_ip, code, near_code, near_blocks>>
         \/ /\ ~d.crash /\ ~Unsupported(d)
            /\ \E seq \in (IF ~IsRip(d) THEN {0}
                           ELSE {Near + 64 * near_blocks} \cup (IF NearMayFail THEN {0} ELSE {})) :
                 /\ code' = code \o Emitted(program.build, ReloIp, i, d, seq)
                 /\ near_blocks' = IF seq # 0 THEN near_blocks + 1 ELSE near_blocks
                 /\ near_code' = IF seq = 0 THEN near_code
                                 ELSE near_code \o RipSequence(seq, i, d.pos, orig_ip + d.pos + i.num, ReloIp + 14)
            /\ orig_ip' = orig_ip + d.pos
            /\ cursor' = cursor + 1
            /\ phase' = IF d.pos = ArchLength(i, CpuMode(program.build)) THEN "loop" ELSE "lost"
  /\ UNCHANGED <<program, size, origin_size>>

\* The branch to the rest of the function.
BranchBack(build) ==
  IF build = "ia32" THEN <<Insn(ReloIp, 5, ShortInsn(\hE9, rel32_label(ReloIp, 5, orig_ip)))>>
  ELSE jmp_absolute_addr(ReloIp, orig_ip)

\* The end of GenRelocateCodeFixed: the code is written if the block holds
\* it; otherwise the block is freed and everything is done again with 16
\* bytes more.
Finish ==
  /\ phase = "loop" /\ ~InHead
  /\ origin_size' = orig_ip - Origin
  /\ LET all == code \o BranchBack(program.build)
     IN  IF BufferSize(all) <= size
         THEN /\ phase' = "done" /\ code' = all
              /\ UNCHANGED <<cursor, orig_ip, size>>
         ELSE /\ phase' = "alloc" /\ size' = size + 16
              /\ cursor' = 0 /\ orig_ip' = Origin /\ code' = <<>>
  /\ UNCHANGED <<program, near_code, near_blocks>>

Next == AllocExecBlock \/ RelocateInsn \/ Finish
Spec == Init /\ [][Next]_vars
-----------------------------------------------------------------------------
(* A processor that runs either copy of the head.  taken is the outcome of  *)
(* every condition.  An instruction yields where control goes and what it   *)
(* did: the address it used if it is RIP-relative, the callee of a call.    *)

Conditional(i) == IF i.two THEN i.op \in \h80..\h8F ELSE i.op \in \h70..\h7F \cup \hE0..\hE3
UsesRip(i, build) == build = "x64" /\ ArchModRM(i) /\ i.mod = 0 /\ i.rm = 5
Operation(i) == <<i.two, i.op, i.prefix, i.rex, i.mod, i.reg, i.rm, i.base>>

StepOf(m, mem, build, taken) ==
  LET i == m.insn
      next == m.at + m.len
  IN  CASE m.kind = "jmp*" -> [to |-> mem[next + m.num].num, did |-> <<>>]
        [] m.kind = "call*" -> [to |-> next, did |-> <<<<"call", mem[next + m.num].num>>>>]
        [] Conditional(i) -> [to |-> IF taken THEN next + i.num ELSE next, did |-> <<>>]
        [] ~i.two /\ i.op \in {\hEB, \hE9} -> [to |-> next + i.num, did |-> <<>>]
        [] ~i.two /\ i.op = \hE8 -> [to |-> next, did |-> <<<<"call", next + i.num>>>>]
        [] UsesRip(i, build) -> [to |-> next, did |-> <<<<Operation(i), next + i.num>>>>]
        [] OTHER -> [to |-> next, did |-> <<<<Operation(i), 0>>>>]

Memory(items) == [a \in {m.at : m \in Range(items)} |-> CHOOSE m \in Range(items) : m.at = a]

RECURSIVE Run(_, _, _, _, _)
Run(mem, a, build, taken, fuel) ==
  IF a \notin DOMAIN mem \/ fuel = 0 THEN [exit |-> a, did |-> <<>>]
  ELSE LET s == StepOf(mem[a], mem, build, taken)
           r == Run(mem, s.to, build, taken, fuel - 1)
       IN  [exit |-> r.exit, did |-> s.did \o r.did]

RECURSIVE Laid(_, _, _)
Laid(insns, at, build) ==
  IF insns = <<>> THEN <<>>
  ELSE LET len == ArchLength(Head(insns), CpuMode(build))
       IN  <<Insn(at, len, Head(insns))>> \o Laid(Tail(insns), at + len, build)

Fuel == 40
Original(taken) ==
  Run(Memory(Laid([n \in 1..cursor |-> InsnAt(n)], Origin, program.build)), Origin, program.build, taken, Fuel)
Moved(taken) == Run(Memory(code \o near_code), Relocated, program.build, taken, Fuel)
-----------------------------------------------------------------------------
TypeOK ==
  /\ program.build \in {"x64", "ia32"}
  /\ phase \in {"alloc", "loop", "done", "failed", "crash", "lost"}
  /\ cursor \in 0..PatchSize
  /\ orig_ip \in Origin..(Origin + PatchSize + 15)
  /\ size \in {32 + 16 * n : n \in 0..(MaxSize \div 16)}
  /\ near_blocks \in Nat

\* x86_insn_decode finds the end and the displacement of every instruction
\* outside the causes listed in Misdecoded, in 32-bit and in 64-bit mode:
\* the loop of GenRelocateCodeFixed stays on instruction boundaries.
OnBoundary ==
  phase = "lost" => Misdecoded(InsnAt(cursor), CpuMode(program.build))
DecodesExactly ==
  cursor > 0 => \A mode \in {32, 64} :
    LET i == InsnAt(cursor)
        d == x86_insn_decode(i, mode)
    IN  (~d.crash /\ ~Misdecoded(i, mode) /\ (mode = 64 \/ i.rex = NoRex)) =>
          /\ d.pos = ArchLength(i, mode)
          /\ d.disp_off = IF ArchDispSize(i, mode) = 0 THEN 0 ELSE ArchHeader(i, mode)

\* Whatever the conditions, the relocated head does what the head did and
\* leaves to the same address: short branches, calls, RIP-relative operands
\* and the jump back to the function (conditional rel32 branches are copied
\* as they are and excluded here).
NearConditional(i) == i.two /\ i.op \in \h80..\h8F
SameBehaviour ==
  (phase = "done" /\ \A i \in Range(program.insns) : ~NearConditional(i)) =>
    \A taken \in BOOLEAN : Moved(taken) = Original(taken)

\* What is written fits the block it was allocated for, and the head that
\* was moved is at least as long as the trampoline that overwrites it.
FitsBlock == phase = "done" => BufferSize(code) <= size /\ origin_size >= PatchSize
=============================================================================
