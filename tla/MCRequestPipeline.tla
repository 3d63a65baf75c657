-------------------------- MODULE MCRequestPipeline --------------------------
(* Two rules are enough for rules that disagree and for a rule that comes or    *)
(* goes while another one runs.                                                 *)
EXTENDS RequestPipeline, TLC

Symmetry == Permutations(Rules)
=============================================================================
