--------------------------- MODULE MCReapService ---------------------------
(***************************************************************************)
(* TLC instance of ReapService: a handful of interchangeable nodes.        *)
(***************************************************************************)
EXTENDS ReapService, TLC

NodeSymmetry == Permutations(Nodes)
=============================================================================
