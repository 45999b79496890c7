--------------------------- MODULE MCForwardRuntime ---------------------------
(* An instance of ForwardRuntime small enough for TLC.                      *)
EXTENDS ForwardRuntime, TLC

Symmetry == Permutations(Addresses) \cup Permutations(Texts)
=============================================================================
