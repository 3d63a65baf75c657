-------------------------- MODULE MCActiveWindow ---------------------------
(* ActiveWindow with model values for the windows.  The iframes are interchangeable, *)
(* which the runs without liveness properties use.                                   *)
EXTENDS ActiveWindow, TLC

Symmetry == Permutations(Iframes)

=============================================================================
