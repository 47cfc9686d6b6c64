----------------------------- MODULE BlockStore -----------------------------
(***************************************************************************)
(* What the code allocators promise to their callers: a block is handed    *)
(* out whole, it shares no byte with a block another caller still holds,   *)
(* and it stays the caller's until the caller returns it.                  *)
(***************************************************************************)
EXTENDS Integers

VARIABLE held         \* blocks: records with the fields addr and size

Bytes(b) == b.addr..(b.addr + b.size - 1)
Disjoint(b, c) == Bytes(b) \cap Bytes(c) = {}

Init == held = {}

Alloc(b) ==
  /\ \A c \in held : Disjoint(b, c)
  /\ held' = held \cup {b}

Free(b) ==
  /\ b \in held
  /\ held' = held \ {b}

Next ==
  \/ \E b \in held' \ held : Alloc(b)
  \/ \E b \in held : Free(b)

Spec == Init /\ [][Next]_held
=============================================================================
