----------------------------- MODULE SlotTable -----------------------------
(***************************************************************************)
(* The fixed array plus count that the library uses for every registry     *)
(* (g_slots and g_integrity, g_cs, g_bps, g_instr, g_guard): entries are     *)
(* appended at the end, looked up by a scan from the front, and removed by *)
(* copying the last entry over the removed one.  A table is a sequence.    *)
(***************************************************************************)
EXTENDS Integers, Sequences

\* The scan from index 0: the first of the entries that match, 0 if none does.
FindFirst(hits) ==
  IF hits = {} THEN 0 ELSE CHOOSE i \in hits : \A j \in hits : i <= j

RemoveLast(table, i) == SubSeq(table, 1, Len(table) - 1)

\* table[i] = table[--count].
RemoveSwap(table, i) ==
  [j \in 1..(Len(table) - 1) |-> IF j = i THEN table[Len(table)] ELSE table[j]]
=============================================================================
