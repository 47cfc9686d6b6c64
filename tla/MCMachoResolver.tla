--------------------------- MODULE MCMachoResolver ---------------------------
(***************************************************************************)
(* Two threads; the placeholder, a program image, an image in the shared   *)
(* cache and dyld, whose file has a symbol the loaded image lacks.         *)
(***************************************************************************)
EXTENDS MachoResolver

CONSTANTS t1, t2

F == <<"_", "f">>
G == <<"_", "f", "g">>
H == <<"_", "h">>
L == <<"_", "l">>
D == <<"_", "d">>

Seg3(text, data, linkedit, fileoff) ==
  <<[name |-> "__TEXT", vmaddr |-> text, fileoff |-> 0],
    [name |-> "__DATA", vmaddr |-> data, fileoff |-> 16],
    [name |-> "__LINKEDIT", vmaddr |-> linkedit, fileoff |-> fileoff]>>

Image == [base |-> 0, names |-> {}, segs |-> <<>>, symoff |-> 0, symtab |-> <<>>,
          trieoff |-> 0, trie |-> <<>>, sects |-> <<>>, truth |-> {},
          cputype |-> 12, cpusubtype |-> 2, inCache |-> FALSE]

\* Root -> "_" -> { "f" (terminal, 300) -> "g" (terminal, 7) ; "h" re-exported }.
Trie ==
  [p \in {0, 3, 9, 12, 15} |->
    CASE p = 0  -> [terminal |-> <<>>, children |-> <<[edge |-> <<"_">>, to |-> 3]>>]
      [] p = 3  -> [terminal |-> <<>>,
                    children |-> <<[edge |-> <<"h">>, to |-> 15], [edge |-> <<"f">>, to |-> 9]>>]
      [] p = 9  -> [terminal |-> <<0, 172, 2>>, children |-> <<[edge |-> <<"g">>, to |-> 12]>>]
      [] p = 12 -> [terminal |-> <<4, 7>>, children |-> <<>>]
      [] p = 15 -> [terminal |-> <<8, 1, 95>>, children |-> <<>>]]

App == [Image EXCEPT !.base = 1000, !.names = {"app", "lib"},
  !.segs = Seg3(100, 120, 140, 32), !.symoff = 34, !.trieoff = 40,
  !.symtab = <<[name |-> F, value |-> 0], [name |-> G, value |-> 105]>>,
  !.truth = {[name |-> G, off |-> 5, at |-> "symtab"]},
  !.sects = <<[seg |-> "__TEXT", addr |-> 2, kind |-> "lazy", syms |-> <<F>>],
              [seg |-> "__DATA_CONST", addr |-> 16, kind |-> "nonlazy", syms |-> <<<<>>, H>>],
              [seg |-> "__DATA", addr |-> 20, kind |-> "lazy", syms |-> <<F>>]>>]

Lib == [Image EXCEPT !.base = 5000, !.names = {"lib"},
  !.segs = Seg3(3000, 3400, 3900, 64), !.symoff = 70, !.trieoff = 64, !.trie = Trie,
  !.truth = {[name |-> F, off |-> 300, at |-> "trie"], [name |-> G, off |-> 7, at |-> "trie"],
             [name |-> L, off |-> 20, at |-> "local"]},
  !.sects = <<[seg |-> "__DATA_CONST", addr |-> 401, kind |-> "nonlazy", syms |-> <<F>>]>>]

DyldImage == [Image EXCEPT !.base = 9000, !.names = {"dyld"},
  !.segs = Seg3(0, 40, 80, 8), !.symoff = 8,
  !.symtab = <<[name |-> G, value |-> 30]>>,
  !.truth = {[name |-> G, off |-> 30, at |-> "symtab"], [name |-> D, off |-> 44, at |-> "file"]}]

DyldSlice == [Image EXCEPT !.segs = Seg3(0, 40, 80, 8), !.symoff = 8,
  !.symtab = <<[name |-> G, value |-> 30], [name |-> D, value |-> 44]>>]

InfoArrayValue == <<Lib, App>>

FileSlices ==
  <<[cputype |-> 7, cpusubtype |-> 3, offset |-> 100, slice |-> Image],
    [cputype |-> 12, cpusubtype |-> 0, offset |-> 200, slice |-> Image],
    [cputype |-> 12, cpusubtype |-> 130, offset |-> 300, slice |-> DyldSlice]>>
DyldFileValue == [fat |-> TRUE, slices |-> FileSlices]

LocalEntriesValue ==
  <<[dylibOffset |-> 500, nlist |-> <<[name |-> L, value |-> 1]>>],
    [dylibOffset |-> 1000, nlist |-> <<[name |-> L, value |-> 3020]>>]>>

ResolvesValue == {<<"lib", G>>, <<"", Tail(G)>>, <<"lib", Tail(L)>>, <<"dyld", D>>, <<"app", F>>}
ReplacesValue == {<<"app", Tail(F), 1>>, <<"app", F, 2>>, <<"app", H, 3>>, <<"app", Tail(H), 4>>,
                  <<"lib", F, 5>>, <<"", F, 6>>}

\* Requests for which the result is not a symbol's address.
ReexportRequest == {<<"", H>>}
DyldAbsent == {<<"dyld", <<"x">>>>}
\* A trie of one-character edges deeper than visitedNodeOffsets.
DeepTrie == [p \in 0 .. 130 |->
  IF p = 130 THEN [terminal |-> <<0, 9>>, children |-> <<>>]
  ELSE [terminal |-> <<>>, children |-> <<[edge |-> <<"a">>, to |-> p + 1]>>]]
DeepModules == <<[Lib EXCEPT !.trie = DeepTrie]>>
DeepRequest == {<<"", [i \in 1 .. 130 |-> "a"]>>}
PlainRequest == {<<"", Tail(F)>>}
\* A file of other CPUs, and a thin one.
ForeignFile == [fat |-> TRUE, slices |-> SubSeq(FileSlices, 1, 2)]
ThinFile == [fat |-> FALSE, slices |-> <<[FileSlices[3] EXCEPT !.cputype = 1]>>]

Symmetry == {[x \in Threads |-> x], [x \in Threads |-> IF x = t1 THEN t2 ELSE t1]}
=============================================================================
