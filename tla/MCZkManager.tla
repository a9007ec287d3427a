------------------------------ MODULE MCZkManager ------------------------------
(* ZkClientManager for TLC: part, which never changes, is the one that a
   behaviour is about, the functors of a loop thread, its timers or the registry
   of the clients, and the others stay as they begin. *)
EXTENDS ZkFunctors, ZkClientManager, ZkTimerQueue

VARIABLE part

ManagerInit == /\ part \in {"functors", "timers", "registry"}
               /\ Init /\ TimersInit /\ RegistryInit
ManagerNext ==
    /\ part' = part
    /\ \/ part = "functors" /\ Next /\ UNCHANGED <<timerVars, registryVars>>
       \/ part = "timers" /\ TimersNext /\ UNCHANGED <<vars, registryVars>>
       \/ part = "registry" /\ RegistryNext /\ UNCHANGED <<vars, timerVars>>
ManagerSpec ==
    /\ ManagerInit /\ [][ManagerNext]_<<part, vars, timerVars, registryVars>>
    /\ WF_vars(part = "functors" /\ Loop)
    /\ \A c \in Callers : WF_vars(part = "functors" /\ Caller(c))
    /\ WF_timerVars(part = "timers" /\ LoopNext)
    /\ SF_timerVars(part = "timers" /\ RunFunctor)
    /\ WF_timerVars(part = "timers" /\ Tick)
===============================================================================
