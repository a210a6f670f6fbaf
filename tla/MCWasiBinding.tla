--------------------------- MODULE MCWasiBinding ---------------------------
(* Bounds of WasiBinding for TLC.                                            *)
EXTENDS WasiBinding, TLC

Symmetry == Permutations(Promises) \cup Permutations(Workers)
=============================================================================
