------------------------------ MODULE ThumbHead ------------------------------
(***************************************************************************)
(* The bytes Hooker::Hook writes for a Thumb function (src/hooker.cpp):    *)
(* RelocateThumb copies the first eight bytes to the trampoline and        *)
(* re-encodes the calls among them, the trampoline gets a jump back, and   *)
(* the head a jump to the replacement.  Hooker.tla has the same operation  *)
(* with the other threads, the table and the failures; here each halfword  *)
(* keeps its bits and the processor's reading of them is the reference.    *)
(***************************************************************************)
EXTENDS ThumbBL, SequencesExt

CONSTANTS
  Heads,        \* the first four halfwords of functions
  Functions,    \* addresses fn, without the Thumb bit
  Trampolines,  \* addresses mmap may return
  Replace       \* address of the replacement, without the Thumb bit

VARIABLES fn, tramp, head, phase,
          copy,    \* the four halfwords at tramp
          back,    \* the jump after them: halfwords and literal
          entry    \* what stands at fn: the head, then the jump

vars == <<fn, tramp, head, phase, copy, back, entry>>

HEAD == 8
NoJump == [halves |-> <<0, 0>>, literal |-> 0]

Init ==
  /\ fn \in Functions /\ tramp \in Trampolines /\ head \in Heads
  /\ phase = "mapped"
  /\ copy = <<0, 0, 0, 0>>
  /\ back = NoJump
  /\ entry = NoJump

\* One call of the head, at byte i, moved from src_pc to dst_pc.
IsCall(h, i) == FirstHalf(h[i \div 2 + 1]) /\ KindOK(h[i \div 2 + 2])
NewOffset(h, i, src_pc, dst_pc) ==
  LET blx == is_blx(h[i \div 2 + 2])
  IN OffsetTo(dst_pc + i, Callee(src_pc + i, h[i \div 2 + 1], h[i \div 2 + 2]), blx)

\* The scan goes halfword by halfword and steps over both halves of a call.
Calls(h) ==
  LET next[i \in {0, 2, 4, 6, 8}] ==
        IF i + 4 > HEAD THEN {} ELSE IF IsCall(h, i) THEN {i} \cup next[i + 4] ELSE next[i + 2]
  IN next[0]

RelocateThumb(h, src_pc, dst_pc) ==
  [k \in 1..4 |->
     LET i == 2 * (k - 1)
         halves(j) == EncodeRelocated(NewOffset(h, j, src_pc, dst_pc), is_blx(h[j \div 2 + 2]))
     IN CASE i \in Calls(h) -> halves(i)[1]
          [] i - 2 \in Calls(h) -> halves(i - 2)[2]
          [] OTHER -> h[k]]

Reaches(h, src_pc, dst_pc) == \A i \in Calls(h) : OffsetOK(NewOffset(h, i, src_pc, dst_pc))

Relocate ==
  /\ phase = "mapped"
  /\ IF Reaches(head, fn + 4, tramp + 4)
     THEN /\ copy' = RelocateThumb(head, fn + 4, tramp + 4)
          /\ phase' = "relocated"
     ELSE phase' = "unsupported" /\ copy' = copy
  /\ UNCHANGED <<fn, tramp, head, back, entry>>

\* 0xF8DF 0x0000 and a literal.
LdrW(target) == [halves |-> <<\hF8DF, 0>>, literal |-> target]

WriteBack ==
  /\ phase = "relocated"
  /\ back' = LdrW(fn + HEAD + 1)
  /\ phase' = "linked"
  /\ UNCHANGED <<fn, tramp, head, copy, entry>>

WriteHead ==
  /\ phase = "linked"
  /\ entry' = LdrW(Replace + 1)
  /\ phase' = "hooked"
  /\ UNCHANGED <<fn, tramp, head, copy, back>>

Next == Relocate \/ WriteBack \/ WriteHead
Spec == Init /\ [][Next]_vars

----------------------------------------------------------------------------
\* ldr.w Rt, [pc, #imm12]: Rt is bits 15..12 of the second halfword; the literal is read at the
\* aligned pc, and the code stores it four bytes after the instruction.
ArchLoads(at, jump) ==
  [register |-> Field(jump.halves[2], 12, 4),
   value |-> IF ClearLow2(at + 4) + Field(jump.halves[2], 0, 12) = at + 4 THEN jump.literal ELSE 0]

\* Only calls are rewritten, and the copy stays four halfwords.
TypeOK ==
  /\ phase \in {"mapped", "relocated", "linked", "hooked", "unsupported"}
  /\ \A k \in 1..4 : copy[k] \in 0..65535

\* The call at byte i of the trampoline goes where the function's own call went, in the same
\* instruction set.
SameCall(i) ==
  ArchCall(tramp + i, SubSeq(copy, i \div 2 + 1, i \div 2 + 2))
    = ArchCall(fn + i, SubSeq(head, i \div 2 + 1, i \div 2 + 2))


\* hooker.cpp line 35: every PC-relative call is corrected.  (A BLX at byte 2 counts from the
\* aligned pc of the trampoline, and the code masks the offset instead.)
EveryCallRelocated == phase = "hooked" => \A i \in Calls(head) : SameCall(i)

\* The jumps that Hook writes load the program counter: the hooked head with the replacement,
\* the end of the trampoline with the rest of the function.
JumpsLoadPc ==
  phase = "hooked" =>
    /\ ArchLoads(fn, entry) = [register |-> 15, value |-> Replace + 1]
    /\ ArchLoads(tramp + HEAD, back) = [register |-> 15, value |-> fn + HEAD + 1]
=============================================================================
