------------------------------ MODULE MCHooker ------------------------------
(***************************************************************************)
(* Instances of Hooker for TLC.                                            *)
(***************************************************************************)
EXTENDS Hooker

ArmFn(a)   == [fn |-> a, thumb |-> FALSE]
ThumbFn(a) == [fn |-> a, thumb |-> TRUE]

\* Three heads that share no word, one of them in ARM mode.
ApartAddr == 0..5
ApartTargets == {ThumbFn(0), ArmFn(2), ThumbFn(4)}
ApartBLs == {1}

\* Two heads that overlap in word 1.
OverlapAddr == 0..2
OverlapTargets == {ArmFn(0), ArmFn(1)}

\* One head.
OneAddr == 0..1
OneBL == {0}
OneThumb == {ThumbFn(0)}
OneArm == {ArmFn(0)}
=============================================================================
