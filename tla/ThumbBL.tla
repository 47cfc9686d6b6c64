------------------------------- MODULE ThumbBL -------------------------------
(***************************************************************************)
(* The Thumb BL/BLX arithmetic of src/callsite.cpp and src/hooker.cpp: two *)
(* halfwords, the offset they hold, and the halfwords that hold an offset. *)
(* Arch... is what the processor does with the same halfwords.             *)
(***************************************************************************)
EXTENDS Integers, Sequences

Bit(x, n)       == (x \div 2^n) % 2
Field(x, lo, n) == (x \div 2^lo) % 2^n
Xor(a, b)       == (a + b) % 2
ClearLow2(x)    == x - (x % 4)          \* x & ~3

\* (hw & 0xF800) == 0xF000
FirstHalf(hw) == hw \div 2^11 = 30
\* hw2 & 0x2800, by which the code tells BL (0) from BLX (0x2800): the bits J1 and J2.
J1(hw2) == Bit(hw2, 13)
J2(hw2) == Bit(hw2, 11)
KindOK(hw2) == J1(hw2) = J2(hw2)
is_blx(hw2) == J1(hw2) = 1 /\ J2(hw2) = 1

\* The offset of an instruction, with the code's sign test on bit 23.
DecodeOffset(hw, hw2) ==
  LET S   == Bit(hw, 10)
      off == S * 2^24 + (1 - Xor(J1(hw2), S)) * 2^23 + (1 - Xor(J2(hw2), S)) * 2^22
               + Field(hw, 0, 10) * 2^12 + Field(hw2, 0, 11) * 2
  IN IF Bit(off, 23) = 1 THEN off - 2^24 ELSE off

\* The callee of the instruction at base.
Callee(base, hw, hw2) ==
  LET c == base + 4 + DecodeOffset(hw, hw2)
  IN IF is_blx(hw2) THEN ClearLow2(c) ELSE c

OffsetTo(base, callee, blx) ==
  LET off == callee - (base + 4) IN IF blx THEN ClearLow2(off) ELSE off

OffsetOK(off) == off <= 2^23 - 1 /\ off >= -(2^23)

Halves(off, blx, b13, b11) ==
  <<30 * 2^11 + Bit(off, 24) * 2^10 + Field(off, 12, 10),
    (IF blx THEN 12 ELSE 13) * 2^12 + b13 * 2^13 + b11 * 2^11 + Field(off, 1, 11)>>

\* rewrite_thumb_bl: J1 and J2 from I1, I2 and S.
Encode(off, blx) ==
  LET S == Bit(off, 24) IN Halves(off, blx, 1 - Xor(Bit(off, 23), S), 1 - Xor(Bit(off, 22), S))

\* RelocateThumb: I1 and I2 themselves.
EncodeRelocated(off, blx) == Halves(off, blx, Bit(off, 23), Bit(off, 22))

----------------------------------------------------------------------------
(* The processor.                                                          *)

\* Bits 15, 14 and 12 of the second halfword select BL and BLX.
ArchIsBL(h)  == FirstHalf(h[1]) /\ Field(h[2], 14, 2) = 3 /\ Bit(h[2], 12) = 1
ArchIsBLX(h) == FirstHalf(h[1]) /\ Field(h[2], 14, 2) = 3 /\ Bit(h[2], 12) = 0

ArchOffset(h) ==
  LET S == Bit(h[1], 10)
  IN (1 - Xor(J1(h[2]), S)) * 2^23 + (1 - Xor(J2(h[2]), S)) * 2^22
       + Field(h[1], 0, 10) * 2^12 + Field(h[2], 0, 11) * 2 - S * 2^24

\* Where the call at base goes, and in which instruction set.
ArchCall(base, h) ==
  CASE ArchIsBL(h)  -> <<"thumb", base + 4 + ArchOffset(h)>>
    [] ArchIsBLX(h) -> <<"arm", ClearLow2(base + 4) + ArchOffset(h)>>
    [] OTHER -> <<"other", 0>>

\* The encoding the processor's manual gives for a call.
ArchEncode(base, state, target) ==
  LET blx == state = "arm"
      off == target - (IF blx THEN ClearLow2(base + 4) ELSE base + 4)
      S   == IF off < 0 THEN 1 ELSE 0
  IN Halves(off, blx, 1 - Xor(Field(off, 23, 1), S), 1 - Xor(Field(off, 22, 1), S))
=============================================================================
