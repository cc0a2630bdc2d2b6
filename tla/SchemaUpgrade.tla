--------------------------- MODULE SchemaUpgrade ---------------------------
(***************************************************************************)
(* Opening the database: the backup and the migrations of a starting       *)
(* process (Database::new_with_backup, storage/migration.rs) on the        *)
(* messages of one chat, with releases installed between two processes,    *)
(* forward and back, and crashes at any point of an upgrade.               *)
(*                                                                         *)
(* Every migration is a step of its own.  The migrations that only create  *)
(* tables, columns and indexes, or rewrite rows of an earlier layout, are  *)
(* told apart by their number; the twelfth, which numbers the messages, is *)
(* modelled in full.  Releases differ in their SCHEMA_VERSION only.        *)
(***************************************************************************)
EXTENDS Integers, FiniteSets, BackupFiles

CONSTANTS
    MessageIds,     \* the messages of the chat
    Releases,       \* SCHEMA_VERSION of the releases that may be installed
    Legacy,         \* schema versions of the databases an older release left behind
    MaxSwaps,       \* bound on installations
    MaxMishaps      \* bound on crashes and failed backups

ASSUME UpgradeAssumption ==
    /\ IsFiniteSet(MessageIds)
    /\ Releases \subseteq Nat \ 0..12 /\ Releases # {}
    /\ Legacy \subseteq 1..11
    /\ MaxSwaps \in Nat /\ MaxMishaps \in Nat

VARIABLES
    release,    \* the installed program's SCHEMA_VERSION
    schema,     \* db_meta.schema_version, 0 without a database
    layout,     \* the migrations whose tables and columns exist
    arrived,    \* the ids of the message rows, by (timestamp, id)
    seq,        \* messages.seq of each row, 0 for NULL
    nextSeq,    \* chats.next_message_seq
    boot,       \* where the process is
    saves,      \* the backup files
    begun,      \* ghost: the release of the migration that has changed something and not ended
    boots,      \* ghost: the starts since the interrupted migration began, up to MaxGenerations
    unsaved,    \* ghost: the snapshot failed its integrity check and was removed
    highest,    \* ghost: the highest version a migration has completed
    fooled,     \* ghost: an interrupted migration left a version below highest
    swaps, mishaps

upgradeData == <<arrived, seq, nextSeq>>
upgradeGhosts == <<begun, boots, unsaved, highest, fooled>>
upgradeVars == <<release, schema, layout, upgradeData, boot, saves, upgradeGhosts, swaps, mishaps>>

Numbered == 12
Contents == {"partial", "earlier", "before", "half"}
Stored == {arrived[i] : i \in 1..Len(arrived)}
IsPending(m) == m \in Stored /\ seq[m] = 0

(* The rows of a legacy database carry no number; a later one was served by  *)
(* a release that numbers what it commits.                                   *)
UpgradeInit ==
    /\ release \in Releases
    /\ schema \in {0} \cup Legacy \cup {release}
    /\ layout = 1..schema
    /\ arrived \in IF schema \in Legacy
                   THEN {s \in [1..Cardinality(MessageIds) -> MessageIds] :
                             \A i, j \in DOMAIN s : s[i] = s[j] => i = j}
                   ELSE {<<>>}
    /\ seq = [m \in MessageIds |-> 0] /\ nextSeq = 1
    /\ boot = "down" /\ saves = <<>>
    /\ begun = 0 /\ boots = 0 /\ unsaved = FALSE /\ highest = schema /\ fooled = FALSE
    /\ swaps = 0 /\ mishaps = 0

Mishap == mishaps < MaxMishaps /\ mishaps' = mishaps + 1

-----------------------------------------------------------------------------
(* A starting process.                                                      *)

(* Another release is put in place while no process runs. *)
Install(r) ==
    /\ boot = "down" /\ r # release /\ swaps < MaxSwaps
    /\ release' = r /\ swaps' = swaps + 1
    /\ UNCHANGED <<schema, layout, upgradeData, boot, saves, upgradeGhosts, mishaps>>

(* new_with_backup: a database that exists is backed up at every start.     *)
StartProcess ==
    /\ boot = "down"
    /\ boot' = IF layout = {} THEN "open" ELSE "backup"
    /\ boots' = IF begun = 0 THEN 0 ELSE IF boots < MaxGenerations THEN boots + 1 ELSE boots
    /\ unsaved' = IF begun # 0 THEN unsaved ELSE FALSE
    /\ UNCHANGED <<release, schema, layout, upgradeData, saves, begun, highest, fooled,
                   swaps, mishaps>>

(* What a snapshot of the database holds now. *)
Snapshot == IF begun # 0 THEN "half" ELSE "before"

(* run_startup_backup.  A snapshot that fails its integrity check is        *)
(* removed and the start goes on; an error, with or without a file left     *)
(* behind, ends it.                                                         *)
StartupBackup ==
    /\ boot = "backup"
    /\ \/ /\ saves' = PrunedFiles(Filled(Created(saves), Snapshot))
          /\ boot' = "open" /\ UNCHANGED <<unsaved, mishaps>>
       \/ /\ Mishap /\ saves' = PrunedFiles(saves)
          /\ unsaved' = TRUE /\ boot' = "open"
       \/ /\ Mishap /\ saves' \in {saves, Created(saves)}
          /\ boot' = "down" /\ UNCHANGED unsaved
    /\ UNCHANGED <<release, schema, layout, upgradeData, begun, boots, highest, fooled, swaps>>

(* The version guard of run_migrations, before anything is written: a       *)
(* database of a later release is refused.                                  *)
Refuse ==
    /\ boot = "open" /\ schema > release
    /\ boot' = "down"
    /\ UNCHANGED <<release, schema, layout, upgradeData, saves, upgradeGhosts, swaps, mishaps>>

Open == boot = "open" /\ schema <= release

(* A migration of this start has written something: the database is between *)
(* two releases until the last one is through.                              *)
Touched == begun' = release /\ UNCHANGED <<boots, unsaved, highest>>

(* The first step of every upgrade, whatever the version: the base tables   *)
(* are created where they are missing, with the file itself when it is new, *)
(* and the version is set back to 1.  Both are written outside a            *)
(* transaction.                                                             *)
MigrateBase ==
    /\ Open /\ schema < release
    /\ boot' = "base" /\ layout' = layout \cup {1}
    /\ Touched
    /\ UNCHANGED <<release, schema, upgradeData, saves, fooled, swaps, mishaps>>

SetBase ==
    /\ boot = "base"
    /\ boot' = "migrate" /\ schema' = 1
    /\ fooled' = (highest > 1)
    /\ UNCHANGED <<release, layout, upgradeData, saves, begun, boots, unsaved, highest,
                   swaps, mishaps>>

(* Migrations whose statements and whose version are separate writes.       *)
Loose == {2, 3, 11}

(* Bug: the version is written before the statements. *)
MigrateLooseEarly ==
    /\ boot = "migrate" /\ schema < release /\ schema + 1 \in Loose
    /\ boot' = "half" /\ schema' = schema + 1
    /\ UNCHANGED <<release, layout, upgradeData, saves, upgradeGhosts, swaps, mishaps>>

MigrateLoose ==
    /\ boot = "migrate" /\ schema < release /\ schema + 1 \in Loose
    /\ boot' = "half" /\ layout' = layout \cup {schema + 1}
    /\ UNCHANGED <<release, schema, upgradeData, saves, upgradeGhosts, swaps, mishaps>>

SetLoose ==
    /\ boot = "half"
    /\ boot' = "migrate" /\ schema' = schema + 1
    /\ UNCHANGED <<release, layout, upgradeData, saves, upgradeGhosts, swaps, mishaps>>

(* Bug: a column is added without asking whether it is there. *)
MigrateOnce ==
    /\ boot = "migrate" /\ schema < release
    /\ schema + 1 \notin Loose \cup {Numbered} \cup layout
    /\ layout' = layout \cup {schema + 1} /\ schema' = schema + 1
    /\ UNCHANGED <<release, upgradeData, boot, saves, upgradeGhosts, swaps, mishaps>>

(* Migrations in one transaction: whatever exists already is left as it is. *)
Migrate ==
    /\ boot = "migrate" /\ schema < release
    /\ schema + 1 \notin Loose \cup {Numbered}
    /\ layout' = layout \cup {schema + 1} /\ schema' = schema + 1
    /\ UNCHANGED <<release, upgradeData, boot, saves, upgradeGhosts, swaps, mishaps>>

(* ROW_NUMBER() of a row in the order of (timestamp, id).                   *)
Rank(m) == CHOOSE i \in 1..Len(arrived) : arrived[i] = m

(* Bug: every row is numbered, not only those without a number. *)
RenumberedAll == [m \in MessageIds |-> IF m \in Stored THEN Rank(m) ELSE 0]

(* The rows without a number get their rank.                                *)
Renumbered == [m \in MessageIds |-> IF IsPending(m) THEN Rank(m) ELSE seq[m]]

(* The unique index on (chat_id, seq), where seq is not null.               *)
Collides == \E m, n \in Stored : m # n /\ Renumbered[m] = Renumbered[n] /\ Renumbered[m] # 0

(* next_message_seq = MAX(seq) + 1, or 1 *)
AfterLast(s) == CHOOSE n \in 1..(Cardinality(MessageIds) + 1) :
    /\ \A m \in MessageIds : s[m] < n
    /\ n = 1 \/ \E m \in MessageIds : s[m] = n - 1

(* The twelfth migration: its columns, the numbers of the messages and the   *)
(* chat's counter in one transaction, which fails as a whole on a number     *)
(* that is taken.                                                            *)
MigrateNumbered ==
    /\ boot = "migrate" /\ schema < release /\ schema + 1 = Numbered
    /\ \/ /\ ~Collides
          /\ layout' = layout \cup {Numbered} /\ schema' = Numbered
          /\ seq' = Renumbered /\ nextSeq' = AfterLast(Renumbered)
          /\ UNCHANGED boot
       \/ /\ Collides
          /\ boot' = "down"
          /\ UNCHANGED <<layout, schema, seq, nextSeq>>
    /\ UNCHANGED <<release, arrived, saves, upgradeGhosts, swaps, mishaps>>

(* No migration is left to apply: the process serves.                       *)
Serve ==
    /\ boot = "migrate" \/ Open
    /\ schema >= release
    /\ boot' = "up"
    /\ saves' = [i \in 1..Len(saves) |-> IF saves[i] = "partial" THEN "partial" ELSE "earlier"]
    /\ begun' = 0 /\ boots' = 0 /\ unsaved' = FALSE
    /\ highest' = IF release > highest THEN release ELSE highest
    /\ fooled' = (fooled /\ release < highest)
    /\ UNCHANGED <<release, schema, layout, upgradeData, swaps, mishaps>>

-----------------------------------------------------------------------------
(* A serving process, and its end.                                          *)

(* commit_message_locked *)
Commit(m) ==
    /\ boot = "up" /\ m \notin Stored
    /\ arrived' = Append(arrived, m)
    /\ seq' = [seq EXCEPT ![m] = nextSeq] /\ nextSeq' = nextSeq + 1
    /\ UNCHANGED <<release, schema, layout, boot, saves, upgradeGhosts, swaps, mishaps>>

(* stage_tool_followup: a row without a number. *)
Stage(m) ==
    /\ boot = "up" /\ m \notin Stored
    /\ arrived' = Append(arrived, m)
    /\ UNCHANGED <<release, schema, layout, seq, nextSeq, boot, saves, upgradeGhosts,
                   swaps, mishaps>>

(* commit_staged_tool_followups, or the promotion to a turn of its own, which *)
(* replaces the row by one that is committed.                                 *)
CommitStaged(m) ==
    /\ boot = "up" /\ IsPending(m)
    /\ seq' = [seq EXCEPT ![m] = nextSeq] /\ nextSeq' = nextSeq + 1
    /\ UNCHANGED <<release, schema, layout, arrived, boot, saves, upgradeGhosts, swaps, mishaps>>

(* The process ends, at will when it serves.                                *)
Stop ==
    /\ boot = "up"
    /\ boot' = "down"
    /\ UNCHANGED <<release, schema, layout, upgradeData, saves, upgradeGhosts, swaps, mishaps>>

CrashInStart ==
    /\ boot \in {"open", "base", "half", "migrate"} /\ Mishap
    /\ boot' = "down"
    /\ UNCHANGED <<release, schema, layout, upgradeData, saves, upgradeGhosts, swaps>>

Boot ==
    \/ StartProcess \/ StartupBackup \/ Refuse \/ MigrateBase \/ SetBase
    \/ MigrateLoose \/ SetLoose \/ Migrate \/ MigrateNumbered \/ Serve

UpgradeNext ==
    \/ Boot \/ Stop \/ CrashInStart
    \/ \E r \in Releases : Install(r)
    \/ \E m \in MessageIds : Commit(m) \/ Stage(m) \/ CommitStaged(m)

(* The service manager starts a process that has ended again, and a start   *)
(* goes on unless it crashes.                                               *)
UpgradeFairness == WF_upgradeVars(Boot)

UpgradeSpec == UpgradeInit /\ [][UpgradeNext]_upgradeVars /\ UpgradeFairness

-----------------------------------------------------------------------------
(* Type invariant.                                                          *)
UpgradeTypeOK ==
    /\ release \in Releases /\ {schema, highest, begun} \subseteq Nat
    /\ \A n \in layout : n \in Nat \ {0} /\ \E r \in Releases : n <= r
    /\ Len(arrived) <= Cardinality(MessageIds) /\ Stored \subseteq MessageIds
    /\ seq \in [MessageIds -> 0..Cardinality(MessageIds)]
    /\ nextSeq \in 1..(Cardinality(MessageIds) + 1)
    /\ boot \in {"down", "backup", "open", "base", "migrate", "half", "up"}
    /\ Len(saves) <= MaxGenerations + MaxMishaps
    /\ \A i \in 1..Len(saves) : saves[i] \in Contents
    /\ boots \in 0..MaxGenerations /\ unsaved \in BOOLEAN /\ fooled \in BOOLEAN
    /\ swaps \in 0..MaxSwaps /\ mishaps \in 0..MaxMishaps

(* The version in db_meta never promises tables or columns that are not     *)
(* there, wherever a migration was interrupted and whichever release went   *)
(* on with it: the blocks below that version are skipped for good.          *)
VersionMeansLayout == 1..schema \subseteq layout

(* A process serves a database that a later release has completed only when *)
(* an upgrade was interrupted: until then the version is that of no release, *)
(* and the guard of run_migrations cannot tell (docs/db.md, "検出した版が対応する *)
(* SCHEMA_VERSION より新しい場合は ... 起動を拒否").                           *)
LaterIsRefused == boot = "up" /\ ~fooled => release >= highest

(* The next message gets a number no message has, after any upgrade: the    *)
(* unique index would refuse the commit of every later message of the chat. *)
NextSeqIsFree == \A m \in MessageIds : seq[m] < nextSeq

(* While an upgrade is unfinished, the database as it was before is among   *)
(* the backups, unless its snapshot failed the integrity check or so many   *)
(* starts followed that their backups have pushed it out.                   *)
UpgradeIsReversible ==
    begun # 0 /\ highest # 0 /\ ~unsaved /\ boots < MaxGenerations => Holds(saves, {"before"})

(* The number of a message never changes: the conversation keeps its order  *)
(* though the migration that numbers messages runs again in every upgrade.  *)
NumbersAreKept == [][\A m \in MessageIds : seq[m] # 0 => seq'[m] = seq[m]]_upgradeVars

(* A start leads to a serving process, over any number of interrupted       *)
(* starts, unless the installed release is older than the database or a     *)
(* staged message cannot be numbered.                                       *)
StartsAgain == boot # "down" ~> boot = "up" \/ schema > release \/ Collides

(* A follow-up that is staged when the process ends is still staged when    *)
(* the next one serves: nothing but the dispatcher or its turn may take it  *)
(* (src/storage/migration.rs, "safe to re-run").  The code does not keep    *)
(* this: the twelfth migration, applied again by every upgrade, numbers the *)
(* row, which from then on counts as part of the conversation.              *)
StagedIsKept ==
    [][\A m \in MessageIds :
           IsPending(m) /\ Numbered \in layout /\ boot # "up" => seq'[m] = 0]_upgradeVars

(* An upgrade cut short or run again by another release leaves a database   *)
(* of which its version promises nothing that is missing, that an older     *)
(* release refuses, whose next number is free, and that can be restored.    *)
UpgradeIsSafe ==
    UpgradeTypeOK /\ VersionMeansLayout /\ LaterIsRefused /\ NextSeqIsFree /\ UpgradeIsReversible
=============================================================================
