-------------------------- MODULE MCHttp2Sessions ---------------------------
(* Http2Sessions with model values; requests and origins are interchangeable, which  *)
(* the runs without liveness properties use.                                         *)
EXTENDS Http2Sessions, TLC

Symmetry == Permutations(Origins) \cup Permutations(Requests)

=============================================================================
