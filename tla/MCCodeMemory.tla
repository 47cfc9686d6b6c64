---------------------------- MODULE MCCodeMemory ----------------------------
EXTENDS CodeMemory

\* Code, a hole, data, a hole, data; the kernel maps elsewhere (80, 96) or,
\* in the second layout, next to the code.
Program == [p \in {16, 48} |-> IF p = 16 THEN "rx" ELSE "rw"]
GeneralCalls == {[size |-> 5, exec |-> TRUE], [size |-> 4, exec |-> TRUE], [size |-> 8, exec |-> FALSE]}
StubCalls == {[size |-> 4, exec |-> FALSE], [size |-> 4, exec |-> TRUE], [size |-> 6, exec |-> TRUE]}
CodeGap == 21..29

\* Ranges that end inside the hole at 32 and begin inside it, at unaligned addresses.
NearPlaces == {[pos |-> 33, range |-> 10], [pos |-> 49, range |-> 10]}

\* The gap search has found its zero bytes in the program's own code so far, none of them in a
\* page of the allocators (NearGap.cfg shows what follows when it does).
ProgramGapsOnly ==
  \A k \in DOMAIN near_records : near_records[k].owned \/ near_records[k].page \in DOMAIN Foreign
=============================================================================
