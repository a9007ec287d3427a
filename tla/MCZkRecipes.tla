------------------------------ MODULE MCZkRecipes ------------------------------
(* Instances of ZkRecipes for TLC. *)
EXTENDS ZkRecipes, TLC
ClientSymmetry == Permutations(Clients)
(* Bound: three clients share the readers-writers lock, two the other recipes. *)
TwoOrThree == recipe = "shared" \/ \E c \in Clients : pc[c] = "new" /\ up[c]
===============================================================================
