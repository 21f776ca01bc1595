-------------------------------- MODULE MCNss --------------------------------
(* Instances of Nss for TLC. *)
EXTENDS Nss, TLC

ThreadSymmetry == Permutations(Threads)
=============================================================================
