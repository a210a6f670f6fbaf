------------------------- MODULE MCRuntimeRegistry -------------------------
(***************************************************************************)
(* TLC instance of RuntimeRegistry.                                        *)
(***************************************************************************)
EXTENDS RuntimeRegistry, TLC

RegistrySymmetry ==
  Permutations(Envs) \cup Permutations(Addrs) \cup Permutations(Ops) \cup Permutations(Runtimes)
=============================================================================
