----------------------------- MODULE MCEventMap -----------------------------
(* Constants for EventMap: as in data/default.eventmap two keys fire and   *)
(* two accelerate.                                                         *)
EXTENDS EventMap

CONSTANTS w, UP, LCTRL, RCTRL, F2

ACCELERATE == 1
FIRE2      == 2
QUIT       == 3

MCKey       == {LCTRL, RCTRL, w, UP}
MCev2funcid == [k \in MCKey |-> IF k \in {w, UP} THEN ACCELERATE ELSE FIRE2]

(* The keys of one function, and the key that quits.                       *)
FireKey       == {LCTRL, RCTRL, F2}
FireEv2funcid == [k \in FireKey |-> IF k = F2 THEN QUIT ELSE FIRE2]
=============================================================================
