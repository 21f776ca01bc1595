---------------------------- MODULE MCPacketList ----------------------------
(* Instances of PacketList for TLC. *)
EXTENDS PacketList

ThreadSymmetry == Permutations(Threads)
=============================================================================
