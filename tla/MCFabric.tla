------------------------------ MODULE MCFabric ------------------------------
(* Constants of the run of Fabric: two agents, two jobs, one used key. *)
EXTENDS Fabric, TLC

MCEligible(p, b) == Node

Symmetry == Permutations(Node)

=============================================================================
