-------------------------- MODULE MCAsyncOperation --------------------------
(***************************************************************************)
(* TLC instance of AsyncOperation.                                         *)
(***************************************************************************)
EXTENDS AsyncOperation, TLC

ProducerSymmetry == Permutations(Producers)
=============================================================================
