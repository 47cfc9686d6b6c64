---------------------------- MODULE MCRelocation ----------------------------
(***************************************************************************)
(* The generators of machine code: the head of a function moved on x86,    *)
(* the head moved on ARM, Thumb and ARM64, and the closure bridges of      *)
(* every build whose layout agrees with DobbyRegisterContext.  generator   *)
(* names the one a behaviour runs.                                         *)
(***************************************************************************)
EXTENDS X86Relocation

\* Heads of hooked x86 functions: every opcode of the two maps, alone with
\* prefixes and operands, and sequences of the instructions that move.

\* Opcodes a 64-bit program cannot contain, or that are prefixes and escapes.
Prefix == {\h26, \h2E, \h36, \h3E, \h64, \h65, \h66, \h67, \hF0, \hF2, \hF3, \h0F}
Not64 == {\h06, \h07, \h0E, \h16, \h17, \h1E, \h1F, \h27, \h2F, \h37, \h3F, \h60, \h61, \h62,
          \h82, \h9A, \hC4, \hC5, \hCE, \hD4, \hD5, \hD6, \hEA}
Undefined2 == {\h04, \h0A, \h0C, \h36, \h39, \hA6, \hA7} \cup \h24..\h27 \cup \h3B..\h3F
OneByteOps == 0..255 \ (Prefix \cup Not64 \cup \h40..\h4F)
TwoByteOps == 0..255 \ Undefined2

Operands ==
  {[mod |-> 3, reg |-> r, rm |-> 0, base |-> 0] : r \in {0, 2}}
  \cup {[mod |-> m, reg |-> r, rm |-> rm, base |-> 0] : m \in 0..2, r \in {0, 2}, rm \in {0, 5, 6}}
  \cup {[mod |-> m, reg |-> 0, rm |-> 4, base |-> b] : m \in 0..2, b \in {1, 5, 6, 7}}
Bytes(pre, rex, two, op, o) ==
  [prefix |-> pre, rex |-> rex, two |-> two, op |-> op, mod |-> o.mod, reg |-> o.reg, rm |-> o.rm,
   base |-> o.base, num |-> 40]
NoOperand == [mod |-> 3, reg |-> 0, rm |-> 0, base |-> 0]

\* Every opcode after the prefixes of Forms, with every operand if it takes one.
Alone(i) == [build |-> "x64", insns |-> <<i>>]
Forms == {<<{}, NoRex, FALSE>>, <<{}, \h48, FALSE>>, <<{\h66}, NoRex, FALSE>>, <<{\h67}, \h41, FALSE>>,
          <<{}, NoRex, TRUE>>, <<{\h66}, \h49, TRUE>>}
Opcodes == {x \in Forms \X (0..255) : x[2] \in IF x[1][3] THEN TwoByteOps ELSE OneByteOps}
Encodings ==
  {x \in Opcodes \X Operands : x[2] = NoOperand \/ ArchModRM([two |-> x[1][1][3], op |-> x[1][2]])}
Single == {Alone(Bytes(x[1][1][1], x[1][1][2], x[1][1][3], x[1][2], x[2])) : x \in Encodings}

\* Instructions whose meaning depends on where they are, with targets
\* outside of the head.
Lea == [Nop EXCEPT !.rex = \h48, !.op = \h8D, !.mod = 0, !.rm = 5, !.num = 300]
CmpImm == [Nop EXCEPT !.op = \h83, !.mod = 0, !.reg = 7, !.rm = 5, !.num = -70]
Push == [Nop EXCEPT !.op = \h55]
Load == [Nop EXCEPT !.rex = \h48, !.op = \h8B, !.mod = 1, !.rm = 5, !.num = 8]
Moving(build) ==
  {Push, ShortInsn(\hE8, 500), ShortInsn(\hE9, -400), ShortInsn(\hEB, 100), ShortInsn(\h74, -60),
   ShortInsn(\hE3, 20), [Nop EXCEPT !.two = TRUE, !.op = \h85, !.num = 60]}
  \cup IF build = "x64" THEN {Lea, CmpImm, Load} ELSE {}
Heads == UNION {{[build |-> b, insns |-> <<i, j, k>>] : i, j, k \in Moving(b)} : b \in {"x64", "ia32"}}
AllPrograms == Single \cup Heads
-----------------------------------------------------------------------------
VARIABLES
  generator,
  a_isa, a_origin, a_program, a_done, a_cursor, a_buf, a_labels, a_changed, a_offsets, a_phase,
  b_build, b_align, b_pc, b_sp, b_regs, b_mem, b_written

armVars == <<a_isa, a_origin, a_program, a_done, a_cursor, a_buf, a_labels, a_changed, a_offsets, a_phase>>
bridgeVars == <<b_build, b_align, b_pc, b_sp, b_regs, b_mem, b_written>>

H == INSTANCE ArmHeads
ArmOrigins == {536870912, 536870914}
Arm == INSTANCE ArmRelocation WITH
  Programs <- H!AllPrograms, Origins <- ArmOrigins, HeadSize <- H!TrampolineSize,
  Relocated <- 805306368,
  isa <- a_isa, origin <- a_origin, program <- a_program, done <- a_done, cursor <- a_cursor,
  buf <- a_buf, labels <- a_labels, changed <- a_changed, offsets <- a_offsets, phase <- a_phase

\* An x64 address may be instrumented in the middle of a function, with any multiple of 8 as
\* its stack pointer; an ia32 function is entered after a call from an aligned stack.
BridgeBuilds == {"arm64", "arm64_assembler", "arm64_full", "x64", "ia32", "arm"}
EntryAlign ==
  [b \in BridgeBuilds |-> CASE b \in {"x64", "arm"} -> {0, 8} [] b = "ia32" -> {12} [] OTHER -> {0}]
Bridge == INSTANCE ClosureBridge WITH
  Builds <- BridgeBuilds, NullCallback <- TRUE,
  build <- b_build, align <- b_align, pc <- b_pc, sp <- b_sp, regs <- b_regs, mem <- b_mem,
  written <- b_written

\* The variables of the generators that a behaviour does not run.
Off == "off"
X86Off == /\ program = Off /\ phase = Off /\ cursor = Off /\ orig_ip = Off /\ code = Off
          /\ near_code = Off /\ near_blocks = Off /\ size = Off /\ origin_size = Off
ArmOff == /\ a_isa = Off /\ a_origin = Off /\ a_program = Off /\ a_done = Off /\ a_cursor = Off
          /\ a_buf = Off /\ a_labels = Off /\ a_changed = Off /\ a_offsets = Off /\ a_phase = Off
BridgeOff == /\ b_build = Off /\ b_align = Off /\ b_pc = Off /\ b_sp = Off /\ b_regs = Off
             /\ b_mem = Off /\ b_written = Off

AllInit ==
  \/ generator = "x86" /\ Init /\ ArmOff /\ BridgeOff
  \/ generator = "arm" /\ Arm!Init /\ X86Off /\ BridgeOff
  \/ generator = "bridge" /\ Bridge!Init /\ X86Off /\ ArmOff

AllNext ==
  /\ \/ generator = "x86" /\ Next /\ UNCHANGED <<armVars, bridgeVars>>
     \/ generator = "arm" /\ Arm!Next /\ UNCHANGED <<vars, bridgeVars>>
     \/ generator = "bridge" /\ Bridge!Next /\ UNCHANGED <<vars, armVars>>
  /\ UNCHANGED generator

AllSpec == AllInit /\ [][AllNext]_<<vars, armVars, bridgeVars, generator>>
----------------------------------------------------------------------------
\* The generators' variables have their types; each finishes in a state the code reports.
AllTypeOK ==
  CASE generator = "x86" -> TypeOK
    [] generator = "arm" -> Arm!TypeOK
    [] generator = "bridge" -> Bridge!TypeOK

\* X86Relocation.tla: the decoder starts and stops at the boundaries of instructions.
X86OnBoundary == generator = "x86" => OnBoundary
\* X86Decode.tla: x86_insn_decode finds the length the processor finds.
X86DecodesExactly == generator = "x86" => DecodesExactly
\* X86Relocation.tla, InstructionRelocationX86Shared.cc: the moved head does what the head did,
\* for the instructions the code translates.
X86SameBehaviour == generator = "x86" => SameBehaviour
\* X86Relocation.tla: the code generated fits the block allocated for it.
X86FitsBlock == generator = "x86" => FitsBlock

\* ArmRelocation.tla, InstructionRelocationARM.cc and ARM64.cc: the moved head does what the
\* head did, for the instructions the code translates.
ArmSameBehaviour == generator = "arm" => Arm!SameBehaviour
\* ArmRelocation.tla: a literal load finds its literal whatever was emitted before it.
ArmLinkedAligned == generator = "arm" => Arm!LinkedAligned

\* ClosureBridge.tla, the closure bridges: the handler sees the caller's registers.
HandlerSeesCaller == generator = "bridge" => Bridge!HandlerSeesCaller
\* ClosureBridge.tla: after the handler the caller's registers are as it left them.
ResumesCaller == generator = "bridge" => Bridge!ResumesCaller
\* ClosureBridge.tla: the handler is called with the stack aligned as the ABI demands.
AlignedCall == generator = "bridge" => Bridge!AlignedCall
=============================================================================
