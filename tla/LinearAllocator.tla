--------------------------- MODULE LinearAllocator ---------------------------
(***************************************************************************)
(* linear_allocator_t of linear_allocator.h: a buffer tiled by blocks,     *)
(* each a header (magic and data size) followed by its data.  alloc takes  *)
(* the first free block that is large enough and splits it; free joins the *)
(* block with a free block after it.  The buffer is an array of slots of   *)
(* one header's size; a slot that is no header holds "data".               *)
(***************************************************************************)
EXTENDS Integers, FiniteSets

CONSTANTS
  HeaderSize,    \* sizeof(mem_block_t)
  Slots,         \* buffer_size in slots
  Requests,      \* sizes asked for, in bytes
  PastEnd        \* the magic that happens to lie behind the buffer

VARIABLES
  mem,                     \* slot |-> [magic, size], size in slots
  is_free_blocks_merged,
  held,                    \* blocks the callers have: [addr, size]
  overflow                 \* alloc has called itself until the stack ran out

vars == <<mem, is_free_blocks_merged, held, overflow>>

Header(magic, size) == [magic |-> magic, size |-> size]
Data == Header("data", 0)

\* mem_block_t: the block a slot starts.
NextBlock(m, b) == b + 1 + m[b].size
Magic(m, b) == IF b < Slots THEN m[b].magic ELSE PastEnd
IsFreed(m, b) == Magic(m, b) = "free"

\* try_split: what n leaves over becomes a free block, its header included.
TrySplit(m, b, n) ==
  IF m[b].magic # "free" \/ n >= m[b].size THEN m
  ELSE [m EXCEPT ![b + 1 + n] = Header("free", m[b].size - n - 1), ![b].size = n]

TryMergeNextAny(m, b) ==
  LET next == NextBlock(m, b)
  IN  IF m[b].magic # "free" \/ next >= Slots THEN m
      ELSE [m EXCEPT ![b].size = @ + 1 + m[next].size, ![next] = Header("reset", 0)]

\* try_merge_next: the header after this block is read even at the end of
\* the buffer.
TryMergeNext(m, b) ==
  LET next == NextBlock(m, b)
      size == IF next < Slots THEN m[next].size ELSE 0
  IN  IF m[b].magic # "free" \/ ~IsFreed(m, next) THEN m
      ELSE [s \in DOMAIN m |-> IF s = b THEN [m[b] EXCEPT !.size = @ + 1 + size]
                               ELSE IF s = next THEN Header("reset", 0) ELSE m[s]]

\* The loop of alloc: the first free block with room, Slots if there is none.
RECURSIVE FirstFit(_, _, _)
FirstFit(m, cursor, n) ==
  IF cursor >= Slots \/ (m[cursor].magic = "free" /\ m[cursor].size >= n) THEN cursor
  ELSE FirstFit(m, NextBlock(m, cursor), n)

RECURSIVE MergeFrom(_, _)
MergeFrom(m, cursor) ==
  IF cursor >= Slots THEN m
  ELSE LET merged == TryMergeNext(m, cursor) IN MergeFrom(merged, NextBlock(merged, cursor))

try_merge_free_blocks(m) == MergeFrom(m, 0)

InSlots(n) == (n + HeaderSize - 1) \div HeaderSize

Init ==
  /\ mem = [s \in 0..(Slots - 1) |-> IF s = 0 THEN Header("free", Slots - 1) ELSE Data]
  /\ is_free_blocks_merged = TRUE
  /\ held = {}
  /\ overflow = FALSE

\* mark_used, and the address of the data is the caller's.
Take(m, b, n) ==
  /\ mem' = [TrySplit(m, b, InSlots(n)) EXCEPT ![b].magic = "used"]
  /\ held' = held \cup {[addr |-> HeaderSize * (b + 1), size |-> n]}

\* The buffer alloc takes a block from: as it is or, until anything has been
\* freed, merged first when no block is large enough.
Searched(n) ==
  IF FirstFit(mem, 0, InSlots(n)) >= Slots /\ is_free_blocks_merged
  THEN try_merge_free_blocks(mem) ELSE mem
Found(n) == FirstFit(Searched(n), 0, InSlots(n))

\* alloc finds a block, ...
Alloc(n) ==
  /\ Found(n) < Slots
  /\ Take(Searched(n), Found(n), n)
  /\ UNCHANGED <<is_free_blocks_merged, overflow>>

\* ... returns null, ...
AllocNull(n) ==
  /\ Found(n) >= Slots /\ ~is_free_blocks_merged
  /\ UNCHANGED vars

\* ... or merges again and again: the retry that finds nothing retries.
AllocRetries(n) ==
  /\ Found(n) >= Slots /\ is_free_blocks_merged
  /\ mem' = Searched(n)
  /\ overflow' = TRUE
  /\ UNCHANGED <<is_free_blocks_merged, held>>

\* free: a pointer that is null or not a used block is ignored.
Free(buf) ==
  LET b == buf \div HeaderSize - 1
  IN  /\ buf # 0 /\ Magic(mem, b) = "used"
      /\ mem' = TryMergeNext([mem EXCEPT ![b].magic = "free"], b)
      /\ held' = {h \in held : h.addr # buf}
      /\ is_free_blocks_merged' = FALSE
      /\ UNCHANGED overflow

Next ==
  /\ ~overflow
  /\ \/ \E n \in Requests : Alloc(n) \/ AllocNull(n) \/ AllocRetries(n)
     \/ \E h \in held : Free(h.addr)

Spec == Init /\ [][Next]_vars
-----------------------------------------------------------------------------
\* Types.
TypeOK ==
  /\ DOMAIN mem = 0..(Slots - 1)
  /\ \A s \in DOMAIN mem : /\ mem[s].magic \in {"data", "reset", "free", "used"}
                           /\ mem[s].size \in 0..(Slots - 1)
  /\ is_free_blocks_merged \in BOOLEAN /\ overflow \in BOOLEAN

RECURSIVE Chain(_, _)
Chain(m, cursor) == IF cursor >= Slots THEN {cursor} ELSE {cursor} \cup Chain(m, NextBlock(m, cursor))

\* After any sequence of splits and joins the headers still tile the buffer
\* to its last byte, and the used ones are those of the blocks callers hold,
\* each with room for what was asked.
ChainMatchesHeld ==
  LET blocks == Chain(mem, 0)
  IN  /\ Slots \in blocks /\ \A b \in blocks : b <= Slots
      /\ \A b \in blocks \ {Slots} : mem[b].magic \in {"free", "used"}
      /\ {HeaderSize * (b + 1) : b \in {x \in blocks \ {Slots} : mem[x].magic = "used"}}
           = {h.addr : h \in held}
      /\ \A h \in held : h.size <= HeaderSize * mem[h.addr \div HeaderSize - 1].size

\* Callers get blocks as BlockStore promises.
Store == INSTANCE BlockStore
LinearStoreSpec == Store!Spec

\* alloc answers null only when no run of free slots is long enough
\* (linear_allocator.h: try_merge_free_blocks joins them first).
NullMeansFull ==
  \A n \in Requests : ENABLED AllocNull(n) =>
    FirstFit(try_merge_free_blocks(mem), 0, InSlots(n)) >= Slots

\* alloc returns.
AllocReturns == ~overflow
=============================================================================
