---------------------------- MODULE MCGameSystem ----------------------------
(***************************************************************************)
(* Instances of GameSystem for TLC.                                        *)
(***************************************************************************)
EXTENDS GameSystem

MCEventLists == {<<"FIRE1">>}
NoEvents     == {}
MCUninitLong == {0}

MCSymmetry == Permutations(PlayerRef)
=============================================================================
