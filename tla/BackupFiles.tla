---------------------------- MODULE BackupFiles ----------------------------
(***************************************************************************)
(* The generations of one database's backups (storage/backup.rs).  The     *)
(* names carry the time of the backup, so the directory is a sequence, the *)
(* oldest file first.  A clock set back, or the repeated hour at the end   *)
(* of summer time, would put a name out of order and is left out.          *)
(***************************************************************************)
EXTENDS Naturals, Sequences

CONSTANT MaxGenerations     \* db.backup.max_generations, validated to be 1 or more

ASSUME GenerationsAssumption == MaxGenerations \in Nat \ {0}

(* prune_old_backups: the newest files stay, whatever they hold; a file left *)
(* by a run that was cut short counts as a generation.                       *)
PrunedFiles(fs) ==
    IF Len(fs) <= MaxGenerations THEN fs
    ELSE SubSeq(fs, Len(fs) - MaxGenerations + 1, Len(fs))

(* vacuum_into begins with an empty file under the final name.              *)
Created(fs) == Append(fs, "partial")

Filled(fs, content) == [fs EXCEPT ![Len(fs)] = content]

(* Bug: the file at the other end of the directory is removed. *)
DroppedFirst(fs) == Tail(fs)

(* The file of a failed backup is removed. *)
DroppedLast(fs) == SubSeq(fs, 1, Len(fs) - 1)

Holds(fs, contents) == \E i \in DOMAIN fs : fs[i] \in contents
=============================================================================
