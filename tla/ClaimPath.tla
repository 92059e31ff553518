----------------------------- MODULE ClaimPath -----------------------------
(***************************************************************************)
(* A task on its way from the server to an agent: the cache that answers   *)
(* an empty claim, the daemon that claims and runs, and the recovery of a  *)
(* runtime the server has deleted.  What one of them sees of the others is *)
(* in each module (a claim is served or not, a runtime is gone), so a      *)
(* behaviour is about one of them, and the others stay as they began.      *)
(***************************************************************************)
EXTENDS EmptyClaim, DaemonClient, RuntimeRecovery

VARIABLE part    \* the part this behaviour is about

pathVars == <<vars, clientVars, recoveryVars, part>>

PathInit ==
    /\ part \in {"cache", "client", "recovery"}
    /\ Init /\ ClientInit /\ RecoveryInit
    /\ part # "cache" => home = CHOOSE where \in [Tasks -> Runtimes] : TRUE

CacheMoves ==
    part = "cache" /\ Next /\ UNCHANGED <<clientVars, recoveryVars, part>>

ClientMoves ==
    part = "client" /\ ClientNext /\ UNCHANGED <<vars, recoveryVars, part>>

RecoveryMoves ==
    part = "recovery" /\ RecoveryNext /\ UNCHANGED <<vars, clientVars, part>>

PathNext == CacheMoves \/ ClientMoves \/ RecoveryMoves

PathSpec ==
    /\ PathInit /\ [][PathNext]_pathVars
    /\ part = "cache" => Fairness
    /\ ClientFairness    \* asks for nothing in the other parts: no agent works there

\* Every variable of the three has its type.
PathTypeOK == TypeOK /\ ClientTypeOK /\ RecoveryTypeOK
=============================================================================
