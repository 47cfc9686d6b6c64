----------------------------- MODULE ThumbCalls -----------------------------
\* Call instructions and function heads for the instances of CallSite and ThumbHead.
EXTENDS ThumbBL, Sequences

CallAt(base, state, off) == ArchEncode(base, state, ClearLow2(base + 4) + off)

\* Call sites: BLX forward, one of them at an address that is 2 mod 4, or BL; replacements
\* within 4 MB, or further away.
BlxSites == [s \in {65536, 65602, 131072} |-> CallAt(s, "arm", s + 4096)]
BlSites == [s \in {65536} |-> CallAt(s, "thumb", 4096)]
Nearby == {131200, 200000, 4096}
Far == {65536 + 5000000}

\* Functions at both alignments.  Heads: no call, a call at byte 0, 2 or 4, or two; BLX forward
\* by less than 4 MB, or BL.
Fns == {65536, 65554}
NopHalf == \h46C0
HeadsWith(c) ==
  {<<NopHalf, NopHalf, NopHalf, NopHalf>>, c \o <<NopHalf, NopHalf>>,
   <<NopHalf>> \o c \o <<NopHalf>>, <<NopHalf, NopHalf>> \o c, c \o c}
BlxHeads == UNION {HeadsWith(CallAt(65536, "arm", d)) : d \in {64, 4096, 4194300}}
BlHeads == HeadsWith(CallAt(65536, "thumb", 4096))
PlainHeads == {<<NopHalf, NopHalf, NopHalf, NopHalf>>}

\* Trampolines above the callee, or below it.
Above == {2^23, 2^22 + 2^20}
Below == {4096}
=============================================================================
