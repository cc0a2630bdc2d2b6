------------------------------ MODULE MCShared ------------------------------
(* What concurrent turns share, for TLC: the conversation they write          *)
(* (SessionLog) or the limits of their chain (TurnTracker), one of them in    *)
(* each behaviour.                                                            *)
EXTENDS SessionLog, MCTurnTracker

VARIABLE part       \* the module that takes the steps

SharedInit == part \in {"log", "tracker"} /\ LogInit /\ Init

SharedNext ==
    \/ part = "log" /\ LogNext /\ UNCHANGED <<part, vars>>
    \/ part = "tracker" /\ Next /\ UNCHANGED <<part, logVars>>

SharedSpec == SharedInit /\ [][SharedNext]_<<part, logVars, vars>>
=============================================================================
