---------------------------- MODULE MCGameServer ----------------------------
(***************************************************************************)
(* Instances of GameServer for TLC.                                        *)
(***************************************************************************)
EXTENDS GameServer

MCEventLists == {<<"OTHER">>, <<"FIRE1", "FIRE1">>}
NoMissiles   == {<<"OTHER">>}
MCUninitLong == {-9, 0, 9}
MCZero       == {0}

MCSymmetry == Permutations(Addr) \cup Permutations(PlayerRef)
=============================================================================
