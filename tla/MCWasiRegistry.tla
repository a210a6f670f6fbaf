--------------------------- MODULE MCWasiRegistry ---------------------------
(* Bounds of WasiRegistry for TLC: the file is evaluated up to five times.   *)
EXTENDS WasiRegistry, TLC

Symmetry == Permutations(Instances)
=============================================================================
