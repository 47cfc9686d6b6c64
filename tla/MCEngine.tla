------------------------------ MODULE MCEngine ------------------------------
(***************************************************************************)
(* Two threads, two functions on pages 1 and 2 (the second one straddles   *)
(* the boundary), user code on page 3, one mprotect failure.               *)
(***************************************************************************)
EXTENDS Engine

CONSTANTS t1, t2, f, g, u, r

PagesOfValue == [c \in {f, g, u} |-> CASE c = f -> <<1>> [] c = g -> <<1, 2>> [] c = u -> <<3>>]
PagesShared  == [c \in {f, g, u} |-> <<1>>]
InitProtValue == [q \in 1 .. 3 |-> {"r", "x"}]
InitProtRwx == [q \in 1 .. 3 |-> {"r", "w", "x"}]
DistanceValue(c, to) == IF c = f THEN "b" ELSE "far"
BuildsValue == {<<"arm64", FALSE>>, <<"x64", FALSE>>, <<"arm64", TRUE>>}
LinuxBuild == {<<"x64", FALSE>>}
AndroidBuild == {<<"arm64", TRUE>>}
ArmBuild == {<<"arm", FALSE>>}
=============================================================================
