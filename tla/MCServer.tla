------------------------------- MODULE MCServer -------------------------------
(* Instances of Server for TLC. *)
EXTENDS Server, TLC

ServerSymmetry ==
    Permutations(Handlers) \cup Permutations(Nodes) \cup Permutations(Sockets)
=============================================================================
