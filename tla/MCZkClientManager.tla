-------------------------- MODULE MCZkClientManager --------------------------
(* ZkClientManager for TLC. *)
EXTENDS ZkClientManager, TLC

CreatorSymmetry == Permutations(Creators)
=============================================================================
