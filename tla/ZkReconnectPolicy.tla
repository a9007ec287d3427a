-------------------------- MODULE ZkReconnectPolicy --------------------------
(***************************************************************************)
(* What the reconnection of one ZkClient promises, with no thread, timer   *)
(* queue or zhandle in sight: at any time at most one attempt is planned   *)
(* or under way, the delay before an attempt doubles from one attempt to   *)
(* the next up to a ceiling, and it falls back to its first value exactly  *)
(* when an attempt succeeds.  ZkSession implements it.                     *)
(***************************************************************************)
EXTENDS Naturals

CONSTANTS InitDelay,   \* ZkUtil::kInitRetryDelay
          MaxDelay     \* ZkUtil::kMaxRetryDelay

VARIABLES phase,    \* "idle", "armed" (planned), "trying" or "abandoned"
          delay     \* the delay the next attempt will be planned with

policyVars == <<phase, delay>>

Phases == {"idle", "armed", "trying", "abandoned"}

Doubled(d) == IF d * 2 <= MaxDelay THEN d * 2 ELSE MaxDelay

PolicyInit == phase = "idle" /\ delay = InitDelay

\* An attempt is planned, at an expiry or after an attempt that failed.
Plan == /\ phase \in {"idle", "trying"}
        /\ phase' = "armed"
        /\ delay' = Doubled(delay)

Try == phase = "armed" /\ phase' = "trying" /\ UNCHANGED delay

Succeed == phase = "trying" /\ phase' = "idle" /\ delay' = InitDelay

\* The client is gone when the timer fires, or the user has asked for no
\* reconnection: nothing is planned any more.
Abandon == /\ phase \in {"armed", "trying"}
           /\ phase' = "abandoned"
           /\ UNCHANGED delay

PolicyNext == Plan \/ Try \/ Succeed \/ Abandon

PolicySpec == PolicyInit /\ [][PolicyNext]_policyVars
=============================================================================
