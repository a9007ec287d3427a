---- MODULE MCZkSession ----
(* ZkSession for TLC: its zhandle_t's are alike, where only what a step may do
   is checked, and two of them are enough for the liveness of its threads. *)
EXTENDS ZkSession, TLC

ZhandleSymmetry == Permutations(Zhandles)

(* ZkClient.cc:376-382 and 463-468: a call that waits for the state to settle,
   in init() or in reconnect(), returns. *)
CallsReturn == InitReturns /\ ReconnectReturns
====
