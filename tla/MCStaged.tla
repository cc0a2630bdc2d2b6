------------------------------ MODULE MCStaged ------------------------------
(* Staged follow-ups in one process and its restarts (Followups), or over     *)
(* upgrades of the schema (SchemaUpgrade), for TLC: one of them in each       *)
(* behaviour.                                                                 *)
EXTENDS Followups, SchemaUpgrade

VARIABLE part       \* the module that takes the steps

(* While Followups takes the steps, the database is of one version.           *)
StagedInit ==
    /\ part \in {"followups", "upgrade"} /\ Init /\ UpgradeInit
    /\ part # "upgrade" => schema = 0 /\ \A r \in Releases : r <= release

StagedNext ==
    \/ part = "followups" /\ Next /\ UNCHANGED <<part, upgradeVars>>
    \/ part = "upgrade" /\ UpgradeNext /\ UNCHANGED <<part, vars>>

(* The fairness of either module, of the one that takes the steps.            *)
StagedSpec ==
    /\ StagedInit /\ [][StagedNext]_<<part, vars, upgradeVars>>
    /\ WF_vars(part = "followups" /\ Intake)
    /\ WF_vars(part = "followups" /\ Dispatcher)
    /\ WF_vars(part = "followups" /\ Executor)
    /\ WF_upgradeVars(part = "upgrade" /\ Boot)
=============================================================================
