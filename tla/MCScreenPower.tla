--------------------------- MODULE MCScreenPower ---------------------------
(* Instances of ScreenPower for TLC.                                       *)
EXTENDS ScreenPower, TLC

\* Threads other than the power thread run the same code.
Symmetry == Permutations(Callers)
=============================================================================
