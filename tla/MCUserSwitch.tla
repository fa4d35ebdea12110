---------------------------- MODULE MCUserSwitch ----------------------------
(* Instances of UserSwitch for TLC.                                        *)
EXTENDS UserSwitch, TLC

CONSTANTS a1, a2, b1, uA, uB, main, ext

OwnerOfPid == (a1 :> uA) @@ (a2 :> uA) @@ (b1 :> uB)

\* A hot switch and a restart; two hot switches; a restart, or
\* two users, and a screen that comes and goes.
Bounds == {[starts |-> 3, deaths |-> 1, hot |-> 1, plugs |-> 0],
           [starts |-> 2, deaths |-> 0, hot |-> 2, plugs |-> 0],
           [starts |-> 2, deaths |-> 1, hot |-> 0, plugs |-> 1]}
=============================================================================
