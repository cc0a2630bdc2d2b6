---------------------------- MODULE MCFiles -------------------------------
(* The files beside the database, for TLC: the configuration (ConfigStore) or *)
(* the backups (Backups), one of them in each behaviour.                      *)
EXTENDS ConfigStore, Backups

VARIABLE part       \* the module that takes the steps

FilesInit == part \in {"config", "backups"} /\ ConfigInit /\ BackupsInit

FilesNext ==
    \/ part = "config" /\ ConfigNext /\ UNCHANGED <<part, backupVars>>
    \/ part = "backups" /\ BackupsNext /\ UNCHANGED <<part, configVars>>

(* The fairness of ConfigStore; Backups has no temporal property.             *)
FilesSpec ==
    /\ FilesInit /\ [][FilesNext]_<<part, configVars, backupVars>>
    /\ \A p \in Callers : WF_configVars(part = "config" /\ Caller(p))
    /\ WF_configVars(part = "config" /\ Watcher)
    /\ WF_configVars(part = "config" /\ BootUp)
=============================================================================
