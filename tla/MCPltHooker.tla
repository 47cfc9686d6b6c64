---------------------------- MODULE MCPltHooker ----------------------------
\* Instances of PltHooker for TLC.
EXTENDS PltHooker

CONSTANTS l1, l2, l3, s1

\* l1 has the symbol in both relocation tables, l2 in DT_JMPREL only.
TwoLibCells ==
  {[lib |-> l1, sym |-> s1, plt |-> TRUE], [lib |-> l1, sym |-> s1, plt |-> FALSE],
   [lib |-> l2, sym |-> s1, plt |-> TRUE]}
TwoLibs == {l1, l2}
TwoLibsOrder == <<l1, l2>>

\* l3 is not mapped at its linked address; a rule may match it as well.
ThreeLibs == {l1, l2, l3}
ThreeLibsOrder == <<l1, l2, l3>>
BiasedPattern == {{l1, l3}}
NoPattern == {}
ExactNames == {<<l, l>> : l \in Libs}
=============================================================================
