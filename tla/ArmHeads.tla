------------------------------ MODULE ArmHeads ------------------------------
\* Heads of hooked functions for the instances of ArmRelocation: every pair of the
\* instructions that move, at the ends of their ranges.
EXTENDS ArmCode

Signed(S) == S \cup {-x : x \in S}
With(i, raw) == [i EXCEPT !.raw = raw]

ArmInsns ==
  {I("ldr", 4, r, AL, d) : r \in {0, PC}, d \in {-4000, 100, 4095}}
  \cup {With(I("adr", 4, 0, AL, 12), 12), With(I("adr", 4, 0, AL, -255), 255),
        With(I("adr", 4, 0, AL, 1024), \hB01), With(I("adr", 4, 1, AL, -1044480), \hAFF)}
  \cup {I(k, 4, 0, c, d) : k \in {"b", "bl"}, c \in {0, 1, AL}, d \in Signed({64, 2^25 - 8192})}
  \cup {I("blx", 4, 0, AL, d) : d \in {-64, 4096, 66}}
  \cup {I("other", 4, 0, AL, 0), I("ldr", 4, 0, 0, 100), I("narrow", 4, 0, AL, 100), I("adr", 4, 0, 1, 12)}

Thumb1Insns ==
  {I("usepc", 2, 0, AL, 0), I("bxpc", 2, 0, AL, 0), I("blxpc", 2, 0, AL, 0), I("other", 2, 0, AL, 0)}
  \cup {I(k, 2, r, AL, d) : k \in {"ldr", "adr"}, r \in {0, 1}, d \in {64, 1020}}
  \cup {With(I("b", 2, 0, c, d), 1) : c \in {0, 9, SVC}, d \in {-64, 254}}
  \cup {With(I("b", 2, 0, c, d), 2) : c \in {0, 1}, d \in {64, 126}}
  \cup {I("b", 2, 0, AL, d) : d \in {-2048, 2046}}

Thumb2Insns ==
  {With(I("b", 4, 0, c, d), 1) : c \in {0, 9}, d \in {-(2^20), 1000}}
  \cup {I(k, 4, 0, AL, d) : k \in {"b", "bl"}, d \in {-(2^24), -(2^22) - 2, -64, 2^23 + 2^22, 2^24 - 2}}
  \cup {I("blx", 4, 0, AL, d) : d \in {-(2^23), -64, 2^23 - 4, 2^23 + 8}}
  \cup {I("adr", 4, 0, AL, d) : d \in Signed({100, 4095})}
  \cup {I("ldr", 4, r, AL, d) : r \in {0, PC}, d \in Signed({100, 4092})}
  \cup {I("other", 4, 0, AL, 0)}

A64Insns ==
  {With(I("b", 4, 0, AL, d), 26) : d \in Signed({64, 2^27 - 4}) \cup {-(2^27)}}
  \cup {I("bl", 4, 0, AL, d) : d \in {-64, 2^27 - 4}}
  \cup {With(I("ldr", 4, r, AL, d), 1) : r \in {0, 1}, d \in {-(2^20), 2^20 - 4}}
  \cup {With(I("narrow", 4, 0, AL, 64), 0), With(I("vector", 4, 0, AL, 64), 1), With(I("narrow", 4, 0, AL, 64), 2)}
  \cup {I("adr", 4, 0, AL, d) : d \in {-(2^20), 1, 2^20 - 1}}
  \cup {I("adrp", 4, 0, AL, 4096 * d) : d \in {-(2^14), 0, 2^15}}
  \cup {With(I("b", 4, 0, c, d), 19) : c \in {0, 1, 10, AL}, d \in {-(2^20), 2^20 - 4}}
  \cup {With(I("b", 4, 0, c, d), 14) : c \in {100, 101}, d \in {-(2^15), 2^15 - 4}}
  \cup {I("other", 4, 0, AL, 0)}

UpToTwo(S) == {<<>>} \cup {<<i>> : i \in S} \cup (S \X S)
AllPrograms == [arm |-> UpToTwo(ArmInsns), thumb |-> UpToTwo(Thumb1Insns \cup Thumb2Insns), a64 |-> UpToTwo(A64Insns)]

\* Sizes of the trampolines: ldr pc, with a nop first for an unaligned Thumb
\* function; on ARM64 the near (12) form.
TrampolineSize(set, at) == CASE set = "arm" -> 8 [] set = "thumb" -> 8 + (at % 4) [] OTHER -> 12

BackBranch == [arm |-> {<<I("other", 4, 0, AL, 0), I("b", 4, 0, 0, -12)>>}]
=============================================================================
