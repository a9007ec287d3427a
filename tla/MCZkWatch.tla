------------------------------ MODULE MCZkWatch ------------------------------
(* ZkWatch for TLC: the cfgs choose Kinds and the bounds. *)
EXTENDS ZkWatch
=============================================================================
