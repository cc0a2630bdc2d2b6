------------------------------ MODULE Backups ------------------------------
(***************************************************************************)
(* The backups of one database over days and restarts: the backup of every *)
(* start, the loop of the periodic ones (runtime/backup_scheduler.rs) and  *)
(* the steps of one backup (storage/backup.rs), each of which may fail or  *)
(* be the last one before the process dies.                                *)
(*                                                                         *)
(* A day is the time between two occurrences of db.backup.time; a day does *)
(* not pass while a backup is due or running.                              *)
(***************************************************************************)
EXTENDS Integers, BackupFiles

CONSTANTS
    Interval,       \* db.backup.interval_days, validated to be 1 or more
    MaxDays,        \* bound on the days
    MaxFailures     \* bound on failed steps and crashes

ASSUME BackupsAssumption ==
    Interval \in Nat \ {0} /\ MaxDays \in Nat /\ MaxFailures \in Nat

VARIABLES
    backups,    \* the backup directory
    today,
    lastRun,    \* db_meta.backup_last_run, 0 without one
    loop,       \* where the process and its scheduler loop are
    nextRun,    \* the day the loop sleeps until
    job,        \* the next step of the backup that is running
    littered,   \* ghost: backups that ended with their file left unverified
    kept,       \* ghost: some backup has passed its integrity check
    failures

backupGhosts == <<littered, kept>>
backupVars == <<backups, today, lastRun, loop, nextRun, job, backupGhosts, failures>>

BackupsInit ==
    /\ backups = <<>> /\ today = 1 /\ lastRun = 0
    /\ loop = "off" /\ nextRun = 0 /\ job = "none"
    /\ littered = 0 /\ kept = FALSE /\ failures = 0

Failure == failures < MaxFailures /\ failures' = failures + 1

-----------------------------------------------------------------------------
(* One backup.  An error ends a start and is logged by the loop.            *)

Step(from, to) == job = from /\ job' = to

Failed ==
    /\ Failure /\ job' = "none"
    /\ loop' = IF loop = "start" THEN "off" ELSE "compute"

CreateFile ==
    /\ job = "create"
    /\ \/ Step("create", "vacuum") /\ backups' = Created(backups) /\ UNCHANGED <<loop, failures>>
       \/ Failed /\ UNCHANGED backups
    /\ UNCHANGED <<today, lastRun, nextRun, backupGhosts>>

(* VACUUM INTO; on failure the file is removed. *)
Vacuum ==
    /\ job = "vacuum"
    /\ \/ /\ Step("vacuum", "verify") /\ backups' = Filled(backups, "raw")
          /\ UNCHANGED <<loop, failures>>
       \/ Failed /\ backups' = DroppedLast(backups)
    /\ UNCHANGED <<today, lastRun, nextRun, backupGhosts>>

(* finalize_backup: a damaged snapshot is removed and the backup goes on;   *)
(* one that could not be checked stays.                                     *)
Verify ==
    /\ job = "verify"
    /\ \/ /\ Step("verify", "prune") /\ backups' = Filled(backups, "good")
          /\ kept' = TRUE /\ UNCHANGED <<loop, littered, failures>>
       \/ /\ Step("verify", "prune") /\ Failure /\ backups' = DroppedLast(backups)
          /\ UNCHANGED <<loop, backupGhosts>>
       \/ Failed /\ littered' = littered + 1 /\ UNCHANGED <<backups, kept>>
    /\ UNCHANGED <<today, lastRun, nextRun>>

Prune ==
    /\ job = "prune"
    /\ \/ /\ backups' = PrunedFiles(backups)
          /\ IF loop = "start" THEN job' = "none" /\ loop' = "compute"
             ELSE job' = "record" /\ UNCHANGED loop
          /\ UNCHANGED failures
       \/ Failed /\ UNCHANGED backups
    /\ UNCHANGED <<today, lastRun, nextRun, backupGhosts>>

(* upsert_backup_last_run, of a periodic backup only. *)
Record ==
    /\ job = "record"
    /\ \/ /\ lastRun' = today /\ job' = "none" /\ loop' = "compute" /\ UNCHANGED failures
       \/ Failed /\ UNCHANGED lastRun
    /\ UNCHANGED <<backups, today, nextRun, backupGhosts>>

-----------------------------------------------------------------------------
(* The process and the loop.                                                *)

(* A process starts with a backup. *)
Begin ==
    /\ loop = "off"
    /\ loop' = "start" /\ job' = "create"
    /\ UNCHANGED <<backups, today, lastRun, nextRun, backupGhosts, failures>>

Base == IF lastRun = 0 THEN today ELSE lastRun + Interval

(* The days compute_next_backup_run tries, of which it takes the first that *)
(* is to come.                                                              *)
Candidates == {d \in Base..(Base + Interval + 1) : d > today}

(* The head of the loop: a last run that cannot be read, or no candidate,   *)
(* ends the scheduler while the process goes on.                            *)
ComputeNext ==
    /\ loop = "compute"
    /\ \/ /\ Candidates # {}
          /\ nextRun' = CHOOSE d \in Candidates : \A c \in Candidates : d <= c
          /\ loop' = "wait" /\ UNCHANGED failures
       \/ Candidates = {} /\ loop' = "ended" /\ UNCHANGED <<nextRun, failures>>
       \/ Failure /\ loop' = "ended" /\ UNCHANGED nextRun
    /\ UNCHANGED <<backups, today, lastRun, job, backupGhosts>>

(* A change of the configuration wakes the loop. *)
ConfigChanged ==
    /\ loop = "wait" /\ today < nextRun
    /\ loop' = "compute"
    /\ UNCHANGED <<backups, today, lastRun, nextRun, job, backupGhosts, failures>>

RunDue ==
    /\ loop = "wait" /\ today >= nextRun
    /\ loop' = "run" /\ job' = "create"
    /\ UNCHANGED <<backups, today, lastRun, nextRun, backupGhosts, failures>>

(* The service is stopped between two backups. *)
Halt ==
    /\ loop \in {"wait", "ended"}
    /\ loop' = "off"
    /\ UNCHANGED <<backups, today, lastRun, nextRun, job, backupGhosts, failures>>

(* The process dies; a file it was writing stays. *)
Die ==
    /\ loop # "off" /\ Failure
    /\ loop' = "off" /\ job' = "none"
    /\ littered' = IF job \in {"vacuum", "verify"} THEN littered + 1 ELSE littered
    /\ UNCHANGED <<backups, today, lastRun, nextRun, kept>>

NextDay ==
    /\ today < MaxDays /\ job = "none"
    /\ loop \in {"off", "ended", "wait"} /\ (loop = "wait" => today < nextRun)
    /\ today' = today + 1
    /\ UNCHANGED <<backups, lastRun, loop, nextRun, job, backupGhosts, failures>>

BackupsNext ==
    \/ CreateFile \/ Vacuum \/ Verify \/ Prune \/ Record
    \/ Begin \/ ComputeNext \/ ConfigChanged \/ RunDue \/ Halt \/ Die \/ NextDay

BackupsSpec == BackupsInit /\ [][BackupsNext]_backupVars

-----------------------------------------------------------------------------
(* Type invariant.                                                          *)
BackupsTypeOK ==
    /\ \A i \in 1..Len(backups) : backups[i] \in {"partial", "raw", "good"}
    /\ today \in 1..(MaxDays + 1) /\ lastRun \in 0..today /\ nextRun \in Nat
    /\ loop \in {"off", "start", "compute", "wait", "run", "ended"}
    /\ job \in {"none", "create", "vacuum", "verify", "prune", "record"}
    /\ job # "none" <=> loop \in {"start", "run"}
    /\ littered \in Nat /\ kept \in BOOLEAN /\ failures \in 0..MaxFailures

(* Once a verified backup exists there is always one, whatever is cut short *)
(* or damaged later, as long as fewer files than generations are left       *)
(* unverified: pruning counts such files and goes by age alone.             *)
AVerifiedBackupIsKept ==
    kept /\ littered < MaxGenerations => Holds(backups, {"good"})

(* Restarts, configuration changes and failures do not put the next backup  *)
(* off: it is never later than the interval after the last one, or          *)
(* tomorrow when that has passed.                                           *)
NotPutOff == loop = "wait" /\ lastRun # 0 =>
    nextRun <= lastRun + Interval \/ nextRun <= today + 1

(* The scheduler goes on while backups are enabled (storage/backup.rs:      *)
(* "Returns `None` when the config is disabled, the timezone is invalid, or *)
(* the `time` string cannot be parsed").  The code does not keep this: when *)
(* the last run is further back than the days it tries, the loop returns.   *)
SchedulerGoesOn == failures = 0 => loop # "ended"

(* Restarts, failures and crashes cost neither the last good backup nor the *)
(* next one.                                                                *)
BackupsKept == BackupsTypeOK /\ AVerifiedBackupIsKept /\ NotPutOff
=============================================================================
