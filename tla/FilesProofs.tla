----------------------------- MODULE FilesProofs -----------------------------
(* Proofs about the files the process starts from: the configuration        *)
(* (ConfigStore), the database's backups (BackupFiles, Backups) and its     *)
(* upgrades (SchemaUpgrade), for any number of callers, settings, troubles, *)
(* generations, days, messages, releases, failures and crashes.             *)
EXTENDS ConfigStore, Backups, SchemaUpgrade, FiniteSetTheorems, SequenceTheorems, WellFoundedInduction, TLAPS

Saving == {"yaml", "env", "undo_yaml", "undo_env", "rehash"}
Undone == {"yaml", "env", "undo_yaml", "undo_env"}
Active == {"disk", "save", "publish"} \cup Saving
Fresh  == {"idle", "seen", "check", "disk", "save", "yaml"}
Reading == {"env", "yaml", "stable"}

CallerRecord ==
    [pc : Active \cup {"idle", "seen", "check", "done"},
     res : {"none", "ok", "conflict", "error"}, edit : Edits, seen : Fps, cand : Cfgs,
     cur : [rev : Nat, fp : Fps], bak : Fps, snap : Fps,
     saved : BOOLEAN, overtaken : BOOLEAN]
WatchRecord ==
    [pc : Reading \cup {"idle", "fp", "publish"}, observed : Fps, pending : BOOLEAN,
     age : 0 .. Debounce, cur : [rev : Nat, fp : Fps, cfg : Cfgs], fp : Fps,
     k : Secrets, cand : Cfgs, lost : {"no", "moved", "unread"}]

(* The records of the callers and of the watcher, with all their fields. *)
TypeInv ==
    /\ yaml \in [gen : Gens, v : Settings] /\ env \in [gen : Gens, v : Secrets]
    /\ tmp \in BOOLEAN /\ lock \in Callers \cup {Nobody, "watcher"}
    /\ up \in {"up", "down", "loading"}
    /\ mem \in [rev : Nat, fp : Fps, cfg : Cfgs]
    /\ c \in [Callers -> CallerRecord]
    /\ watch \in WatchRecord
    /\ truth \in Cfgs /\ raced \in BOOLEAN /\ torn \in BOOLEAN /\ left \in Nat

(* CONFIG_WRITE_LOCK is held exactly by whoever is inside its critical      *)
(* section; nobody is when the process is not up.                           *)
LockInv ==
    /\ \A p \in Callers : lock = p <=> c[p].pc \in Saving
    /\ lock = "watcher" <=> watch.pc \in Reading
    /\ up # "up" => /\ \A p \in Callers : c[p].pc \in {"idle", "done"}
                    /\ watch.pc = "idle"
    /\ up = "loading" => ~Mismatched

(* What a caller has been told, and has written, by where it is. *)
TaleInv ==
    \A p \in Callers :
        /\ c[p].pc # "done" => c[p].res = "none"
        /\ c[p].overtaken => c[p].pc \notin {"idle", "seen", "check"}
        /\ c[p].saved => c[p].pc \in {"rehash", "publish", "done"}
        /\ c[p].res = "conflict" /\ c[p].saved => c[p].overtaken
        /\ c[p].pc \in {"check"} \cup Active => c[p].cand[c[p].edit.f] = c[p].edit.v

Whole(fp) == fp # NoFp => fp[1].gen = fp[2].gen

(* The generations of the two files during a save, and of the fingerprints  *)
(* that may be published.                                                   *)
GenInv ==
    /\ Whole(mem.fp) /\ Whole(watch.fp)
    /\ \A p \in Callers :
        /\ Whole(c[p].snap) /\ Whole(c[p].bak)
        /\ c[p].pc \in Undone => c[p].bak # NoFp /\ c[p].bak = c[p].cur.fp
        /\ c[p].pc = "yaml" => yaml.gen = c[p].bak[1].gen /\ env.gen = c[p].bak[2].gen
        /\ c[p].pc = "env" => yaml.gen = p
        /\ c[p].pc = "undo_env" /\ ~torn => yaml.gen = c[p].bak[1].gen
        /\ c[p].pc = "rehash" => yaml.gen = p /\ env.gen = p
        /\ c[p].pc = "publish" => c[p].snap # NoFp
    /\ watch.pc \in Reading \cup {"publish"} => watch.fp # NoFp
    /\ lock \notin Callers /\ ~torn => ~Mismatched

(* The contents of the files, as a caller, the published snapshot, the      *)
(* watcher and the history know them, as long as no hand edit raced.        *)
CallerHonest(p) ==
    /\ ~raced =>
        /\ c[p].pc \in {"disk", "save"} /\ c[p].cur.fp # NoFp
             => c[p].cand = Apply(Content(c[p].cur.fp), c[p].edit)
        /\ c[p].pc \in {"yaml", "env"} => c[p].cand = Apply(Content(c[p].bak), c[p].edit)
        /\ c[p].pc = "yaml" => Disk = c[p].bak
        /\ c[p].pc = "env" => yaml.v = c[p].cand.x
        /\ c[p].pc = "rehash" => Content(Disk) = c[p].cand
        /\ c[p].pc = "publish" => Content(c[p].snap) = c[p].cand
    /\ ~raced /\ ~torn =>
        /\ c[p].pc \in {"yaml", "rehash"} => Content(Disk) = truth
        /\ c[p].pc = "env" => Content(c[p].bak) = truth
        /\ c[p].pc = "undo_env" => yaml = c[p].bak[1]
SnapHonest ==
    /\ up = "up" /\ ~raced /\ mem.fp # NoFp => mem.cfg = Content(mem.fp)
    /\ up = "loading" /\ ~raced => watch.cand = Content(Disk)
WatchHonest ==
    ~raced => /\ watch.pc = "yaml" /\ watch.lost # "unread" /\ Disk = watch.fp => watch.k = env.v
              /\ watch.pc = "stable" /\ Disk = watch.fp => watch.cand = Content(watch.fp)
              /\ watch.pc = "publish" => watch.cand = Content(watch.fp)
TruthHonest == lock \notin Callers /\ ~raced /\ ~torn => Content(Disk) = truth
ContentInv == (\A p \in Callers : CallerHonest(p)) /\ SnapHonest /\ WatchHonest /\ TruthHonest

Stamped(fp, q) == fp # NoFp /\ fp[1].gen = q

(* The generation of a caller that has not written is nowhere yet; one that *)
(* is halfway is not in any fingerprint.                                    *)
FreshInv ==
    \A q \in Callers :
        /\ c[q].pc \in Fresh => yaml.gen # q
        /\ c[q].pc \in Fresh \cup {"env"} =>
             /\ ~Stamped(mem.fp, q) /\ ~Stamped(watch.fp, q)
             /\ \A r \in Callers : /\ ~Stamped(c[r].cur.fp, q) /\ ~Stamped(c[r].bak, q)
                                   /\ ~Stamped(c[r].snap, q)

(* The files have left what p compares them with, and no rollback brings it *)
(* back.                                                                    *)
Stale(p) ==
    /\ ~Stamped(c[p].cur.fp, yaml.gen)
    /\ \A r \in Callers : c[r].pc \in Undone => ~Stamped(c[p].cur.fp, c[r].bak[1].gen)

(* What became of the snapshot a caller started from.  A caller whose save  *)
(* is done has made stale what every other caller started from; so at most  *)
(* one caller that saved finds the snapshot unmoved.                        *)
OwnBase(p) ==
    c[p].pc \in Active =>
        /\ c[p].cur.rev <= mem.rev
        /\ c[p].overtaken => c[p].cur.rev < mem.rev
        /\ ~c[p].overtaken =>
             /\ c[p].pc \in {"disk", "save"} => Unmoved(c[p].cur) \/ Stale(p)
             /\ c[p].pc \in Undone => Unmoved(c[p].cur)
             /\ c[p].pc \in {"rehash", "publish"} => Unmoved(c[p].cur) /\ Stale(p)
Ahead(p) == c[p].pc \in Saving \cup {"publish"} /\ ~c[p].overtaken
BaseInv ==
    /\ \A p \in Callers : OwnBase(p)
    /\ \A p, q \in Callers : p # q => ~(Ahead(p) /\ Ahead(q))

(* The inductive invariant. *)
Inv == TypeInv /\ LockInv /\ TaleInv /\ GenInv /\ ContentInv /\ FreshInv /\ BaseInv

-----------------------------------------------------------------------------
(* The pair of files is a fingerprint; what a fingerprint holds. *)
LEMMA FpFacts ==
    /\ NoFp \in Fps
    /\ \A y \in [gen : Gens, v : Settings], e \in [gen : Gens, v : Secrets] :
         <<y, e>> \in Fps /\ <<y, e>> # NoFp
    /\ \A fp \in Fps : fp # NoFp =>
         /\ fp = <<fp[1], fp[2]>>
         /\ fp[1] \in [gen : Gens, v : Settings] /\ fp[2] \in [gen : Gens, v : Secrets]
         /\ Content(fp) \in Cfgs
<1>1. \A y \in [gen : Gens, v : Settings], e \in [gen : Gens, v : Secrets] :
         <<y, e>> \in Fps /\ <<y, e>> # NoFp
  <2> TAKE y \in [gen : Gens, v : Settings], e \in [gen : Gens, v : Secrets]
  <2>1. y = [gen |-> y.gen, v |-> y.v] /\ e = [gen |-> e.gen, v |-> e.v]
    OBVIOUS
  <2> QED
    BY <2>1 DEF Fps, NoFp
<1> QED
  BY <1>1 DEF Fps, NoFp, Content, Cfgs

(* Applying an edit gives settings with that edit in them. *)
LEMMA ApplyFacts ==
    ASSUME NEW cfg \in Cfgs, NEW e \in Edits
    PROVE  Apply(cfg, e) \in Cfgs /\ Apply(cfg, e)[e.f] = e.v
BY DEF Apply, Cfgs, Edits

(* A caller at its start, a caller at its end and a watcher at its start    *)
(* have their types.                                                        *)
LEMMA RecordFacts ==
    /\ Absent \in CallerRecord
    /\ \A fp \in Fps : Watching(fp) \in WatchRecord
    /\ TypeInv => \A p \in Callers, res \in {"none", "ok", "conflict", "error"} :
                    Ended(p, res) \in CallerRecord
<1> USE ConfigAssumption, FpFacts
    DEF Absent, CallerRecord, Watching, WatchRecord, Ended, Edits, Cfgs, Active, Saving, Reading
<1>1. Absent \in CallerRecord
  OBVIOUS
<1>2. \A fp \in Fps : Watching(fp) \in WatchRecord
  OBVIOUS
<1>3. TypeInv => \A p \in Callers, res \in {"none", "ok", "conflict", "error"} :
                    Ended(p, res) \in CallerRecord
  BY ZenonT(60) DEF TypeInv
<1> QED
  BY <1>1, <1>2, <1>3
-----------------------------------------------------------------------------
(* A caller's record replaced by another one of its type. *)
LEMMA Replaced ==
    ASSUME TypeInv, NEW p \in Callers, NEW r \in CallerRecord, c' = [c EXCEPT ![p] = r]
    PROVE  c' \in [Callers -> CallerRecord]
<1>1. c \in [Callers -> CallerRecord]
  BY DEF TypeInv
<1> QED
  BY <1>1

LEMMA EndsType ==
    ASSUME TypeInv, NEW p \in Callers, NEW res \in {"ok", "conflict", "error"}, Ends(p, res)
    PROVE  c' \in [Callers -> CallerRecord]
<1>1. Ended(p, res) \in CallerRecord
  BY RecordFacts
<1> QED
  BY <1>1, Replaced DEF Ends

(* Every step of a caller keeps the callers' records in their type. *)
LEMMA CallerTypeStep ==
    ASSUME TypeInv, NEW p \in Callers, See(p) \/ Caller(p)
    PROVE  c' \in [Callers -> CallerRecord]
<1>c. c[p] \in CallerRecord
  BY DEF TypeInv
<1>m. mem.fp \in Fps /\ mem.rev \in Nat /\ mem.cfg \in Cfgs
  BY DEF TypeInv
<1>d. Disk \in Fps
  BY FpFacts DEF TypeInv, Disk
<1>1. CASE See(p)
  <2>1. PICK e \in Edits :
          c' = [c EXCEPT ![p] = [@ EXCEPT !.pc = "seen", !.edit = e, !.seen = mem.fp]]
    BY <1>1 DEF See
  <2>2. [c[p] EXCEPT !.pc = "seen", !.edit = e, !.seen = mem.fp] \in CallerRecord
    BY <1>c, <1>m DEF CallerRecord
  <2> QED
    BY <2>1, <2>2, Replaced
<1>2. CASE Clone(p)
  <2>1. Apply(mem.cfg, c[p].edit) \in Cfgs
    BY <1>c, <1>m, ApplyFacts DEF CallerRecord
  <2>2. [c[p] EXCEPT !.pc = "check", !.cand = Apply(mem.cfg, c[p].edit)] \in CallerRecord
    BY <1>c, <2>1 DEF CallerRecord
  <2> QED
    BY <1>2, <2>2, Replaced DEF Clone
<1>3. CASE CheckExpected(p)
  <2>1. [c[p] EXCEPT !.pc = "disk", !.cur = [rev |-> mem.rev, fp |-> mem.fp]] \in CallerRecord
    BY <1>c, <1>m DEF CallerRecord, Active
  <2> QED
    BY <1>3, <2>1, Replaced, EndsType DEF CheckExpected
<1>4. ASSUME NEW pc \in Active, c' = [c EXCEPT ![p].pc = pc]
      PROVE  c' \in [Callers -> CallerRecord]
  <2>1. [c[p] EXCEPT !.pc = pc] \in CallerRecord
    BY <1>c DEF CallerRecord
  <2> QED
    BY <1>4, <2>1, Replaced
<1>5. ASSUME NEW pc \in Active, NEW fp \in Fps,
             \/ c' = [c EXCEPT ![p] = [@ EXCEPT !.pc = pc, !.bak = fp]]
             \/ c' = [c EXCEPT ![p] = [@ EXCEPT !.pc = pc, !.snap = fp]]
             \/ c' = [c EXCEPT ![p] = [@ EXCEPT !.pc = pc, !.saved = TRUE]]
      PROVE  c' \in [Callers -> CallerRecord]
  <2>1. [c[p] EXCEPT !.pc = pc, !.bak = fp] \in CallerRecord
    BY <1>c DEF CallerRecord
  <2>2. [c[p] EXCEPT !.pc = pc, !.snap = fp] \in CallerRecord
    BY <1>c DEF CallerRecord
  <2>3. [c[p] EXCEPT !.pc = pc, !.saved = TRUE] \in CallerRecord
    BY <1>c DEF CallerRecord
  <2> QED
    BY <1>5, <2>1, <2>2, <2>3, Replaced
<1>6. CASE CheckDisk(p)
  BY <1>6, <1>4, EndsType DEF CheckDisk, Active, Saving
<1>7. CASE LockSave(p)
  BY <1>7, <1>5, <1>d, EndsType DEF LockSave, Active, Saving
<1>8. CASE WriteYaml(p) \/ EnvFails(p) \/ RestoreYaml(p)
  BY <1>8, <1>4, EndsType DEF WriteYaml, EnvFails, RestoreYaml, Active, Saving
<1>9. CASE WriteEnv(p) \/ Rehash(p)
  BY <1>9, <1>5, <1>d, EndsType DEF WriteEnv, Rehash, Active, Saving
<1>10. CASE RestoreEnv(p) \/ Publish(p)
  BY <1>10, EndsType DEF RestoreEnv, Publish
<1> QED
  BY <1>1, <1>2, <1>3, <1>6, <1>7, <1>8, <1>9, <1>10 DEF Caller
(* What a watcher that clears, retries or goes on looks like has its type. *)
LEMMA WatchFacts ==
    ASSUME TypeInv
    PROVE  /\ Again \in WatchRecord /\ Unreadable \in WatchRecord
           /\ \A tried \in Fps : Cleared(tried) \in WatchRecord
           /\ watch.observed \in Fps
<1>1. watch.observed \in Fps
  BY DEF TypeInv, WatchRecord
<1>2. Watching(watch.observed) \in WatchRecord
  BY <1>1, RecordFacts
<1>3. [Watching(watch.observed) EXCEPT !.pending = TRUE] \in WatchRecord
  BY <1>2 DEF WatchRecord
<1>4. \A why \in {"no", "moved", "unread"} :
        [Watching(watch.observed) EXCEPT !.lost = why] \in WatchRecord
  BY <1>2 DEF WatchRecord
<1> QED
  BY <1>1, <1>3, <1>4 DEF Again, Cleared, Unreadable

(* Every step of the watcher keeps its record in its type. *)
LEMMA WatchTypeStep ==
    ASSUME TypeInv, Watcher \/ PollFails
    PROVE  watch' \in WatchRecord
<1>w. watch \in WatchRecord
  BY DEF TypeInv
<1>m. mem \in [rev : Nat, fp : Fps, cfg : Cfgs]
  BY DEF TypeInv
<1>d. Disk \in Fps /\ NoFp \in Fps
  BY FpFacts DEF TypeInv, Disk
<1>v. env.v \in Secrets /\ yaml.v \in Settings
  BY DEF TypeInv
<1>z. 0 \in 0 .. Debounce
  BY ConfigAssumption
<1>r. ASSUME NEW fp \in Fps, NEW pend \in BOOLEAN
      PROVE  [watch EXCEPT !.pending = pend, !.observed = fp, !.age = 0, !.lost = "no"]
                \in WatchRecord
  BY <1>w, <1>z DEF WatchRecord
<1>1. CASE Poll
  <2> DEFINE age == IF watch.age < Debounce THEN watch.age + 1 ELSE watch.age
  <2>1. age \in 0 .. Debounce
    BY <1>w, ConfigAssumption DEF WatchRecord
  <2> HIDE DEF age
  <2>2. \A pend \in BOOLEAN :
          [watch EXCEPT !.observed = Disk, !.pending = pend, !.age = 0, !.lost = "no"] \in WatchRecord
    BY <1>w, <1>d, <1>z DEF WatchRecord
  <2>3. \A pc \in {"fp", "idle"}, cur \in [rev : Nat, fp : Fps, cfg : Cfgs] :
          [watch EXCEPT !.age = age, !.pc = pc, !.cur = cur] \in WatchRecord
    BY <1>w, <2>1 DEF WatchRecord
  <2>4. watch.cur \in [rev : Nat, fp : Fps, cfg : Cfgs]
    BY <1>w DEF WatchRecord
  <2> DEFINE pc == IF age = Debounce THEN "fp" ELSE "idle"
             cur == IF age = Debounce THEN mem ELSE watch.cur
  <2>5. pc \in {"fp", "idle"} /\ cur \in [rev : Nat, fp : Fps, cfg : Cfgs]
    BY <1>m, <2>4
  <2>6. \/ \E pend \in BOOLEAN : watch' = [watch EXCEPT !.observed = Disk, !.pending = pend,
                                                       !.age = 0, !.lost = "no"]
        \/ watch' = [watch EXCEPT !.age = age, !.pc = pc, !.cur = cur]
        \/ watch' = watch
    BY <1>1 DEF Poll, age
  <2> HIDE DEF pc, cur
  <2> QED
    BY <1>w, <2>2, <2>3, <2>5, <2>6, ZenonT(60)
<1>2. CASE PollFails
  BY <1>2, <1>d, <1>r DEF PollFails
<1>3. CASE ReloadFp
  <2>1. [watch EXCEPT !.pc = "env", !.fp = Disk] \in WatchRecord
    BY <1>w, <1>d DEF WatchRecord, Reading
  <2> QED
    BY <1>3, <1>d, <2>1, WatchFacts DEF ReloadFp
<1>4. CASE ReloadEnv
  <2>1. [watch EXCEPT !.pc = "yaml", !.k = env.v] \in WatchRecord
    BY <1>w, <1>v DEF WatchRecord, Reading
  <2>2. [watch EXCEPT !.pc = "yaml", !.lost = "unread"] \in WatchRecord
    BY <1>w DEF WatchRecord, Reading
  <2> QED
    BY <1>4, <2>1, <2>2 DEF ReloadEnv
<1>5. CASE ReloadYaml
  <2>1. [x |-> yaml.v, k |-> watch.k] \in Cfgs
    BY <1>w, <1>v DEF WatchRecord, Cfgs
  <2>2. [watch EXCEPT !.pc = "stable", !.cand = [x |-> yaml.v, k |-> watch.k]] \in WatchRecord
    BY <1>w, <2>1 DEF WatchRecord, Reading
  <2> QED
    BY <1>5, <1>d, <2>2, WatchFacts DEF ReloadYaml
<1>6. CASE ReloadStable
  <2>1. [watch EXCEPT !.pc = "publish"] \in WatchRecord
    BY <1>w DEF WatchRecord
  <2> QED
    BY <1>6, <1>d, <2>1, WatchFacts DEF ReloadStable
<1>7. CASE ReloadPublish
  <2>1. watch.fp \in Fps
    BY <1>w DEF WatchRecord
  <2> QED
    BY <1>7, <1>d, <2>1, WatchFacts DEF ReloadPublish
<1> QED
  BY <1>1, <1>2, <1>3, <1>4, <1>5, <1>6, <1>7 DEF Watcher
(* Every step keeps every variable in its type. *)
LEMMA TypeStep ==
    ASSUME TypeInv, GenInv, [ConfigNext]_configVars
    PROVE  TypeInv'
<1> USE DEF files, At, Trouble, Fault, NoFault
<1>d. Disk \in Fps /\ NoFp \in Fps /\ Content(Disk) \in Cfgs
  BY FpFacts DEF TypeInv, Disk, Content, Cfgs
<1>c. c \in [Callers -> CallerRecord]
  BY DEF TypeInv
<1>p. \A p \in Callers :
        /\ Apply(mem.cfg, c[p].edit) \in Cfgs /\ Apply(truth, c[p].edit) \in Cfgs
        /\ c[p].cand \in Cfgs /\ c[p].cand.x \in Settings /\ c[p].cand.k \in Secrets
        /\ c[p].cur.rev \in Nat /\ c[p].snap \in Fps /\ c[p].bak \in Fps
  <2> TAKE p \in Callers
  <2>1. c[p] \in CallerRecord
    BY <1>c
  <2>2. /\ c[p].edit \in Edits /\ c[p].cand \in Cfgs
        /\ c[p].cur.rev \in Nat /\ c[p].snap \in Fps /\ c[p].bak \in Fps
    BY <2>1 DEF CallerRecord
  <2>3. mem.cfg \in Cfgs /\ truth \in Cfgs
    BY DEF TypeInv
  <2>4. c[p].cand.x \in Settings /\ c[p].cand.k \in Secrets
    BY <2>2 DEF Cfgs
  <2> QED
    BY <2>2, <2>3, <2>4, ApplyFacts
<1>w. /\ watch.cur.rev \in Nat /\ watch.fp \in Fps /\ watch.cand \in Cfgs
  BY DEF TypeInv, WatchRecord
<1>1. ASSUME NEW p \in Callers, See(p) \/ Caller(p)
      PROVE  TypeInv'
  <2>1. c' \in [Callers -> CallerRecord]
    BY <1>1, CallerTypeStep
  <2>2. CASE See(p) \/ Clone(p) \/ CheckExpected(p)
    BY <2>1, <2>2 DEF TypeInv, See, Clone, CheckExpected
  <2>9. CASE CheckDisk(p) \/ LockSave(p) \/ Rehash(p)
    <3>1. left' = left \/ (left > 0 /\ left' = left - 1)
      BY <2>9, Zenon DEF CheckDisk, LockSave, Rehash
    <3>2. left' \in Nat
      BY <3>1 DEF TypeInv
    <3>3. lock' = lock \/ lock' = p \/ lock' = Nobody
      BY <2>9, Zenon DEF CheckDisk, LockSave, Rehash
    <3>4. UNCHANGED <<files, up, mem, watch, truth, raced, torn>>
      BY <2>9, Zenon DEF CheckDisk, LockSave, Rehash
    <3> QED
      BY <2>1, <3>2, <3>3, <3>4 DEF TypeInv
  <2>3. CASE WriteYaml(p)
    BY <2>1, <2>3, <1>p DEF TypeInv, WriteYaml, Gens
  <2>4. CASE WriteEnv(p)
    BY <2>1, <2>4, <1>p DEF TypeInv, WriteEnv, Gens
  <2>5. CASE EnvFails(p)
    BY <2>1, <2>5, <1>p DEF TypeInv, EnvFails, Gens
  <2>b. ASSUME c[p].bak # NoFp
        PROVE  /\ c[p].bak[1] \in [gen : Gens, v : Settings]
               /\ c[p].bak[2] \in [gen : Gens, v : Secrets] /\ Content(c[p].bak) \in Cfgs
    BY <2>b, <1>p, FpFacts
  <2>g. c[p].pc \in Undone => c[p].bak # NoFp
    BY DEF GenInv
  <2> USE DEF Undone
  <2>6. CASE RestoreYaml(p)
    <3>1. /\ yaml' = yaml \/ yaml' = c[p].bak[1]
          /\ c[p].bak[1] \in [gen : Gens, v : Settings]
      BY <2>6, <2>b, <2>g DEF RestoreYaml
    <3>2. yaml' \in [gen : Gens, v : Settings]
      BY <3>1 DEF TypeInv
    <3>3. /\ torn' \in BOOLEAN /\ left' \in Nat
          /\ UNCHANGED <<env, tmp, lock, up, mem, watch, truth, raced>>
      <4>1. left \in Nat /\ torn \in BOOLEAN
        BY DEF TypeInv
      <4>2. left' = left \/ (left > 0 /\ left' = left - 1)
        BY <2>6, Zenon DEF RestoreYaml
      <4>3. torn' = torn \/ torn' = TRUE
        BY <2>6, Zenon DEF RestoreYaml
      <4>4. left' \in Nat
        BY <4>1, <4>2
      <4> QED
        BY <2>6, <4>1, <4>3, <4>4, Zenon DEF RestoreYaml
    <3> QED
      BY <2>1, <3>2, <3>3 DEF TypeInv
  <2>7. CASE RestoreEnv(p)
    <3>1. /\ env' = env \/ env' = c[p].bak[2]
          /\ truth' = truth \/ truth' = Content(c[p].bak)
          /\ c[p].bak[2] \in [gen : Gens, v : Secrets] /\ Content(c[p].bak) \in Cfgs
      BY <2>7, <2>b, <2>g DEF RestoreEnv
    <3>2. env' \in [gen : Gens, v : Secrets] /\ truth' \in Cfgs
      BY <3>1 DEF TypeInv
    <3>3. /\ torn' \in BOOLEAN /\ left' \in Nat /\ lock' = Nobody
          /\ UNCHANGED <<yaml, tmp, up, mem, watch, raced>>
      <4>1. left \in Nat /\ torn \in BOOLEAN
        BY DEF TypeInv
      <4>2. left' = left \/ (left > 0 /\ left' = left - 1)
        BY <2>7, Zenon DEF RestoreEnv
      <4>3. torn' = torn \/ torn' = TRUE
        BY <2>7, Zenon DEF RestoreEnv
      <4>4. left' \in Nat
        BY <4>1, <4>2
      <4> QED
        BY <2>7, <4>1, <4>3, <4>4, Zenon DEF RestoreEnv
    <3> QED
      BY <2>1, <3>2, <3>3 DEF TypeInv
  <2>8. CASE Publish(p)
    BY <2>1, <2>8, <1>p DEF TypeInv, Publish
  <2> QED
    BY <1>1, <2>2, <2>3, <2>4, <2>5, <2>6, <2>7, <2>8, <2>9 DEF Caller
<1>2. CASE Watcher \/ PollFails
  <2>1. watch' \in WatchRecord
    BY <1>2, WatchTypeStep
  <2>2. CASE Poll \/ PollFails \/ ReloadFp \/ ReloadEnv \/ ReloadYaml \/ ReloadStable
    BY <2>1, <2>2 DEF TypeInv, Poll, PollFails, ReloadFp, ReloadEnv, ReloadYaml, ReloadStable
  <2>3. CASE ReloadPublish
    <3>1. \A p \in Callers, over \in BOOLEAN : [c[p] EXCEPT !.overtaken = over] \in CallerRecord
      BY <1>c DEF CallerRecord
    <3>2. c' \in [Callers -> CallerRecord]
      BY <2>3, <1>c, <3>1 DEF ReloadPublish
    <3> QED
      BY <2>1, <2>3, <3>2, <1>w DEF TypeInv, ReloadPublish
  <2> QED
    BY <1>2, <2>2, <2>3 DEF Watcher
<1>3. ASSUME NEW e \in Edits, HandEdit(e)
      PROVE  TypeInv'
  <2>1. Apply(truth, e) \in Cfgs
    BY ApplyFacts DEF TypeInv
  <2> QED
    BY <1>3, <2>1 DEF TypeInv, HandEdit, Edits
<1>4. CASE ConfigCrash
  <2>1. \A p \in Callers : Ended(p, c[p].res) \in CallerRecord
    <3>1. \A p \in Callers : c[p].res \in {"none", "ok", "conflict", "error"}
      BY <1>c DEF CallerRecord
    <3> QED
      BY <3>1, RecordFacts
  <2>2. c' \in [Callers -> CallerRecord]
    BY <1>4, <1>c, <2>1 DEF ConfigCrash
  <2>3. watch' \in WatchRecord
    BY <1>4, <1>d, RecordFacts DEF ConfigCrash
  <2> QED
    BY <1>4, <1>d, <2>2, <2>3 DEF TypeInv, ConfigCrash
<1>5. CASE BootLoad
  <2>1. watch' \in WatchRecord
    <3>1. watch \in WatchRecord
      BY DEF TypeInv
    <3>2. [watch EXCEPT !.cand = Content(Disk)] \in WatchRecord
      BY <3>1, <1>d DEF WatchRecord
    <3> QED
      BY <1>5, <3>2 DEF BootLoad
  <2> QED
    BY <1>5, <2>1 DEF TypeInv, BootLoad
<1>6. CASE BootFingerprint
  <2>1. PICK fp \in {Disk, NoFp} :
          /\ IF fp = NoFp THEN Fault ELSE NoFault
          /\ mem' = [rev |-> 1, fp |-> fp, cfg |-> watch.cand]
          /\ watch' = Watching(fp)
    BY <1>6 DEF BootFingerprint
  <2>2. watch' \in WatchRecord
    BY <2>1, <1>d, RecordFacts
  <2> QED
    BY <1>6, <1>d, <1>w, <2>1, <2>2 DEF TypeInv, BootFingerprint
<1>7. CASE Repair
  <2>1. PICK x \in Settings \ Invalid : /\ yaml' = [yaml EXCEPT !.v = x]
                                        /\ env' = [env EXCEPT !.gen = yaml.gen]
                                        /\ truth' = [x |-> x, k |-> env.v]
    BY <1>7 DEF Repair
  <2>2. truth' \in Cfgs
    BY <2>1 DEF Cfgs, TypeInv
  <2> QED
    BY <1>7, <2>1, <2>2 DEF TypeInv, Repair
<1>8. CASE UNCHANGED configVars
  BY <1>8 DEF TypeInv, configVars
<1> QED
  BY <1>1, <1>2, <1>3, <1>4, <1>5, <1>6, <1>7, <1>8 DEF ConfigNext, BootUp
-----------------------------------------------------------------------------
(* What a step of p does to the callers' records, field by field. *)
Others(p) == \A q \in Callers \ {p} : c'[q] = c[q]
Becomes(p, pc, edit, cand, cur, bak, snap, saved) ==
    /\ c'[p].pc = pc /\ c'[p].edit = edit /\ c'[p].cand = cand /\ c'[p].cur = cur
    /\ c'[p].bak = bak /\ c'[p].snap = snap /\ (c'[p].saved <=> saved)
    /\ c'[p].res = c[p].res /\ (c'[p].overtaken <=> c[p].overtaken)
    /\ Others(p)
GoesTo(p, pc) ==
    Becomes(p, pc, c[p].edit, c[p].cand, c[p].cur, c[p].bak, c[p].snap, c[p].saved)
EndsAs(p, res) ==
    /\ c'[p].pc = "done" /\ c'[p].res = res
    /\ c'[p].cur.fp = NoFp /\ c'[p].bak = NoFp /\ c'[p].snap = NoFp
    /\ (c'[p].saved <=> c[p].saved) /\ (c'[p].overtaken <=> c[p].overtaken)
    /\ Others(p)

LEMMA EndedFields ==
    ASSUME TypeInv, NEW p \in Callers, NEW res
    PROVE  LET r == Ended(p, res)
           IN  /\ r.pc = "done" /\ r.res = res /\ r.cur.fp = NoFp /\ r.bak = NoFp /\ r.snap = NoFp
               /\ (r.saved <=> c[p].saved) /\ (r.overtaken <=> c[p].overtaken)
BY DEF Ended, Absent

LEMMA EndsFields ==
    ASSUME TypeInv, NEW p \in Callers, NEW res, Ends(p, res)
    PROVE  EndsAs(p, res)
<1>1. c \in [Callers -> CallerRecord]
  BY DEF TypeInv
<1>2. c'[p] = Ended(p, res) /\ Others(p)
  BY <1>1 DEF Ends, Others
<1> QED
  BY <1>2, EndedFields DEF EndsAs

LEMMA CallerFields ==
    ASSUME TypeInv, NEW p \in Callers
    PROVE  /\ \A e \in Edits, fp \in Fps :
                c' = [c EXCEPT ![p] = [@ EXCEPT !.pc = "seen", !.edit = e, !.seen = fp]]
                => Becomes(p, "seen", e, c[p].cand, c[p].cur, c[p].bak, c[p].snap, c[p].saved)
           /\ Clone(p) => Becomes(p, "check", c[p].edit, Apply(mem.cfg, c[p].edit), c[p].cur,
                                  c[p].bak, c[p].snap, c[p].saved)
           /\ CheckExpected(p) /\ c[p].seen = mem.fp
                => Becomes(p, "disk", c[p].edit, c[p].cand, [rev |-> mem.rev, fp |-> mem.fp],
                           c[p].bak, c[p].snap, c[p].saved)
           /\ c' = [c EXCEPT ![p] = [@ EXCEPT !.pc = "yaml", !.bak = Disk]]
                => Becomes(p, "yaml", c[p].edit, c[p].cand, c[p].cur, Disk, c[p].snap, c[p].saved)
           /\ \A pc \in {"save", "env", "undo_yaml", "undo_env"} :
                c' = [c EXCEPT ![p].pc = pc] => GoesTo(p, pc)
           /\ WriteEnv(p) => Becomes(p, "rehash", c[p].edit, c[p].cand, c[p].cur, c[p].bak,
                                     c[p].snap, TRUE)
           /\ c' = [c EXCEPT ![p] = [@ EXCEPT !.pc = "publish", !.snap = Disk]]
                => Becomes(p, "publish", c[p].edit, c[p].cand, c[p].cur, c[p].bak, Disk,
                           c[p].saved)
<1>1. c \in [Callers -> CallerRecord]
  BY DEF TypeInv
<1> USE <1>1 DEF Becomes, GoesTo, Others, CallerRecord
<1> HIDE DEF TypeInv
<1>2. \A e \in Edits, fp \in Fps :
        c' = [c EXCEPT ![p] = [@ EXCEPT !.pc = "seen", !.edit = e, !.seen = fp]]
        => Becomes(p, "seen", e, c[p].cand, c[p].cur, c[p].bak, c[p].snap, c[p].saved)
  OBVIOUS
<1>3. Clone(p) => Becomes(p, "check", c[p].edit, Apply(mem.cfg, c[p].edit), c[p].cur,
                          c[p].bak, c[p].snap, c[p].saved)
  BY DEF Clone
<1>4. ASSUME CheckExpected(p), c[p].seen = mem.fp
      PROVE  Becomes(p, "disk", c[p].edit, c[p].cand, [rev |-> mem.rev, fp |-> mem.fp],
                     c[p].bak, c[p].snap, c[p].saved)
  <2>1. c' = [c EXCEPT ![p] = [@ EXCEPT !.pc = "disk", !.cur = [rev |-> mem.rev, fp |-> mem.fp]]]
    BY <1>4, Zenon DEF CheckExpected
  <2> QED
    BY <2>1
<1>5. c' = [c EXCEPT ![p] = [@ EXCEPT !.pc = "yaml", !.bak = Disk]]
        => Becomes(p, "yaml", c[p].edit, c[p].cand, c[p].cur, Disk, c[p].snap, c[p].saved)
  OBVIOUS
<1>6. \A pc \in {"save", "env", "undo_yaml", "undo_env"} :
        c' = [c EXCEPT ![p].pc = pc] => GoesTo(p, pc)
  OBVIOUS
<1>7. WriteEnv(p) => Becomes(p, "rehash", c[p].edit, c[p].cand, c[p].cur, c[p].bak,
                             c[p].snap, TRUE)
  BY DEF WriteEnv
<1>8. c' = [c EXCEPT ![p] = [@ EXCEPT !.pc = "publish", !.snap = Disk]]
        => Becomes(p, "publish", c[p].edit, c[p].cand, c[p].cur, c[p].bak, Disk, c[p].saved)
  OBVIOUS
<1> QED
  BY <1>2, <1>3, <1>4, <1>5, <1>6, <1>7, <1>8, Zenon
(* What a step of the watcher does to its record, field by field. *)
LEMMA WatchFields ==
    ASSUME TypeInv
    PROVE  /\ \A fp : Watching(fp).pc = "idle" /\ Watching(fp).fp = NoFp
           /\ \A fp : Cleared(fp).pc = "idle" /\ Cleared(fp).fp = NoFp
           /\ Again.pc = "idle" /\ Again.fp = NoFp
           /\ Unreadable.pc = "idle" /\ Unreadable.fp = NoFp
           /\ Poll \/ PollFails => /\ watch.pc = "idle" /\ watch'.pc \in {"idle", "fp"}
                                  /\ watch'.fp = watch.fp
           /\ watch' = [watch EXCEPT !.pc = "env", !.fp = Disk]
                => watch'.pc = "env" /\ watch'.fp = Disk
           /\ ReloadEnv => /\ watch'.pc = "yaml" /\ watch'.fp = watch.fp
                           /\ watch'.k = env.v \/ watch'.lost = "unread"
           /\ watch' = [watch EXCEPT !.pc = "stable", !.cand = [x |-> yaml.v, k |-> watch.k]]
                => /\ watch'.pc = "stable" /\ watch'.fp = watch.fp
                   /\ watch'.cand = [x |-> yaml.v, k |-> watch.k]
           /\ watch' = [watch EXCEPT !.pc = "publish"]
                => watch'.pc = "publish" /\ watch'.fp = watch.fp /\ watch'.cand = watch.cand
           /\ BootLoad => watch'.pc = watch.pc /\ watch'.fp = watch.fp /\ watch'.cand = Content(Disk)
<1>1. watch \in WatchRecord
  BY DEF TypeInv
<1> HIDE DEF TypeInv
<1>2. \A fp : Watching(fp).pc = "idle" /\ Watching(fp).fp = NoFp
  BY DEF Watching
<1>3. \A fp : Cleared(fp).pc = "idle" /\ Cleared(fp).fp = NoFp
  BY DEF Watching, Cleared
<1>4. Again.pc = "idle" /\ Again.fp = NoFp /\ Unreadable.pc = "idle" /\ Unreadable.fp = NoFp
  BY DEF Watching, Again, Unreadable
<1>5. Poll \/ PollFails => /\ watch.pc = "idle" /\ watch'.pc \in {"idle", "fp"}
                          /\ watch'.fp = watch.fp
  BY <1>1 DEF Poll, PollFails, WatchRecord
<1>6. watch' = [watch EXCEPT !.pc = "env", !.fp = Disk]
        => watch'.pc = "env" /\ watch'.fp = Disk
  BY <1>1 DEF WatchRecord
<1>7. ReloadEnv => /\ watch'.pc = "yaml" /\ watch'.fp = watch.fp
                   /\ watch'.k = env.v \/ watch'.lost = "unread"
  BY <1>1 DEF WatchRecord, ReloadEnv
<1>8. watch' = [watch EXCEPT !.pc = "stable", !.cand = [x |-> yaml.v, k |-> watch.k]]
        => /\ watch'.pc = "stable" /\ watch'.fp = watch.fp
           /\ watch'.cand = [x |-> yaml.v, k |-> watch.k]
  BY <1>1 DEF WatchRecord
<1>9. watch' = [watch EXCEPT !.pc = "publish"]
        => watch'.pc = "publish" /\ watch'.fp = watch.fp /\ watch'.cand = watch.cand
  BY <1>1 DEF WatchRecord
<1>10. BootLoad => watch'.pc = watch.pc /\ watch'.fp = watch.fp /\ watch'.cand = Content(Disk)
  BY <1>1 DEF WatchRecord, BootLoad
<1> QED
  BY <1>2, <1>3, <1>4, <1>5, <1>6, <1>7, <1>8, <1>9, <1>10, Zenon

(* A published reload marks the callers under way; a crash ends them. *)
LEMMA EveryCallersFields ==
    ASSUME TypeInv, NEW q \in Callers
    PROVE  /\ ReloadPublish /\ Unmoved(watch.cur) =>
                /\ c'[q].pc = c[q].pc /\ c'[q].res = c[q].res /\ c'[q].edit = c[q].edit
                /\ c'[q].cand = c[q].cand /\ c'[q].cur = c[q].cur /\ c'[q].bak = c[q].bak
                /\ c'[q].snap = c[q].snap /\ (c'[q].saved <=> c[q].saved)
                /\ (c'[q].overtaken <=> c[q].pc \notin {"idle", "seen", "check"})
           /\ ConfigCrash =>
                IF c[q].pc = "idle" THEN c'[q] = c[q]
                ELSE /\ c'[q].pc = "done" /\ c'[q].res = c[q].res
                     /\ c'[q].cur.fp = NoFp /\ c'[q].bak = NoFp /\ c'[q].snap = NoFp
                     /\ (c'[q].saved <=> c[q].saved) /\ (c'[q].overtaken <=> c[q].overtaken)
<1>1. c[q] \in CallerRecord
  BY DEF TypeInv
<1>f. \A o \in BOOLEAN : LET r == [c[q] EXCEPT !.overtaken = o]
                         IN  /\ r.pc = c[q].pc /\ r.res = c[q].res /\ r.edit = c[q].edit
                             /\ r.cand = c[q].cand /\ r.cur = c[q].cur /\ r.bak = c[q].bak
                             /\ r.snap = c[q].snap /\ (r.saved <=> c[q].saved)
                             /\ (r.overtaken <=> o)
  BY <1>1 DEF CallerRecord
<1>2. ASSUME ReloadPublish, Unmoved(watch.cur)
      PROVE  c'[q] = [c[q] EXCEPT !.overtaken = c[q].pc \notin {"idle", "seen", "check"}]
  BY <1>2 DEF ReloadPublish
<1>3. ASSUME ConfigCrash
      PROVE  c'[q] = IF c[q].pc = "idle" THEN c[q] ELSE Ended(q, c[q].res)
  BY <1>3 DEF ConfigCrash
<1> HIDE DEF TypeInv
<1>4. ASSUME ReloadPublish, Unmoved(watch.cur)
      PROVE  /\ c'[q].pc = c[q].pc /\ c'[q].res = c[q].res /\ c'[q].edit = c[q].edit
             /\ c'[q].cand = c[q].cand /\ c'[q].cur = c[q].cur /\ c'[q].bak = c[q].bak
             /\ c'[q].snap = c[q].snap /\ (c'[q].saved <=> c[q].saved)
             /\ (c'[q].overtaken <=> c[q].pc \notin {"idle", "seen", "check"})
  <2> DEFINE o == c[q].pc \notin {"idle", "seen", "check"}
  <2>1. o \in BOOLEAN /\ c'[q] = [c[q] EXCEPT !.overtaken = o]
    BY <1>2, <1>4
  <2>2. o <=> c[q].pc \notin {"idle", "seen", "check"}
    OBVIOUS
  <2> HIDE DEF o
  <2> QED
    BY <2>1, <2>2, <1>f
<1> QED
  BY <1>3, <1>4, EndedFields
-----------------------------------------------------------------------------
(* What each action does, in terms of the fields. *)
LEMMA SeeEffect ==
    ASSUME TypeInv, NEW p \in Callers, See(p)
    PROVE  /\ At(p, "idle")
           /\ \E e \in Edits :
                Becomes(p, "seen", e, c[p].cand, c[p].cur, c[p].bak, c[p].snap, c[p].saved)
           /\ UNCHANGED <<files, lock, up, mem, watch, truth, raced, torn, left>>
<1>1. PICK e \in Edits :
        c' = [c EXCEPT ![p] = [@ EXCEPT !.pc = "seen", !.edit = e, !.seen = mem.fp]]
  BY Zenon DEF See
<1>2. mem.fp \in Fps
  BY DEF TypeInv
<1>3. Becomes(p, "seen", e, c[p].cand, c[p].cur, c[p].bak, c[p].snap, c[p].saved)
  BY <1>1, <1>2, CallerFields
<1> QED
  BY <1>3, Zenon DEF See

LEMMA CloneEffect ==
    ASSUME TypeInv, NEW p \in Callers, Clone(p)
    PROVE  /\ At(p, "seen")
           /\ Becomes(p, "check", c[p].edit, Apply(mem.cfg, c[p].edit), c[p].cur,
                      c[p].bak, c[p].snap, c[p].saved)
           /\ UNCHANGED <<files, lock, up, mem, watch, truth, raced, torn, left>>
BY CallerFields DEF Clone

LEMMA CheckExpectedEffect ==
    ASSUME TypeInv, NEW p \in Callers, CheckExpected(p)
    PROVE  /\ At(p, "check")
           /\ \/ c[p].seen # mem.fp /\ EndsAs(p, "conflict") /\ raced' = raced
              \/ /\ Becomes(p, "disk", c[p].edit, c[p].cand, [rev |-> mem.rev, fp |-> mem.fp],
                            c[p].bak, c[p].snap, c[p].saved)
                 /\ raced => raced'
                 /\ ~raced' => c[p].cand = Apply(mem.cfg, c[p].edit)
           /\ UNCHANGED <<files, lock, up, mem, watch, truth, torn, left>>
<1>1. CASE c[p].seen = mem.fp
  BY <1>1, CallerFields DEF CheckExpected
<1>2. CASE c[p].seen # mem.fp
  <2>1. EndsAs(p, "conflict")
    BY <1>2, EndsFields DEF CheckExpected
  <2>2. raced' = raced
    BY <1>2 DEF CheckExpected, TypeInv
  <2> QED
    BY <1>2, <2>1, <2>2, Zenon DEF CheckExpected
<1> QED
  BY <1>1, <1>2

LEMMA CheckDiskEffect ==
    ASSUME TypeInv, NEW p \in Callers, CheckDisk(p)
    PROVE  /\ At(p, "disk") /\ lock = Nobody
           /\ EndsAs(p, "error") \/ EndsAs(p, "conflict") \/ GoesTo(p, "save")
           /\ UNCHANGED <<files, lock, up, mem, watch, truth, raced, torn>>
BY CallerFields, EndsFields DEF CheckDisk

LEMMA LockSaveEffect ==
    ASSUME TypeInv, NEW p \in Callers, LockSave(p)
    PROVE  /\ At(p, "save") /\ lock = Nobody
           /\ \/ (EndsAs(p, "error") \/ EndsAs(p, "conflict")) /\ UNCHANGED lock
              \/ /\ ~Mismatched /\ Disk = c[p].cur.fp /\ lock' = p
                 /\ Becomes(p, "yaml", c[p].edit, c[p].cand, c[p].cur, Disk, c[p].snap, c[p].saved)
           /\ UNCHANGED <<files, up, mem, watch, truth, raced, torn>>
BY CallerFields, EndsFields DEF LockSave

LEMMA WriteYamlEffect ==
    ASSUME TypeInv, NEW p \in Callers, WriteYaml(p)
    PROVE  /\ At(p, "yaml")
           /\ \/ /\ yaml' = [gen |-> p, v |-> c[p].cand.x] /\ GoesTo(p, "env") /\ UNCHANGED lock
              \/ EndsAs(p, "error") /\ lock' = Nobody /\ UNCHANGED yaml
           /\ UNCHANGED <<env, tmp, up, mem, watch, truth, raced, torn>>
BY CallerFields, EndsFields DEF WriteYaml

LEMMA WriteEnvEffect ==
    ASSUME TypeInv, NEW p \in Callers, WriteEnv(p)
    PROVE  /\ At(p, "env")
           /\ env' = [gen |-> p, v |-> c[p].cand.k] /\ truth' = Apply(truth, c[p].edit)
           /\ Becomes(p, "rehash", c[p].edit, c[p].cand, c[p].cur, c[p].bak, c[p].snap, TRUE)
           /\ UNCHANGED <<yaml, tmp, lock, up, mem, watch, raced, torn, left>>
BY CallerFields DEF WriteEnv

LEMMA EnvFailsEffect ==
    ASSUME TypeInv, NEW p \in Callers, EnvFails(p)
    PROVE  /\ At(p, "env") /\ GoesTo(p, "undo_yaml")
           /\ UNCHANGED <<yaml, lock, up, mem, watch, raced, torn>>
BY CallerFields DEF EnvFails

LEMMA RestoreYamlEffect ==
    ASSUME TypeInv, NEW p \in Callers, RestoreYaml(p)
    PROVE  /\ At(p, "undo_yaml") /\ GoesTo(p, "undo_env")
           /\ (yaml' = c[p].bak[1] /\ (torn' <=> torn)) \/ (yaml' = yaml /\ torn')
           /\ UNCHANGED <<env, tmp, lock, up, mem, watch, truth, raced>>
<1>1. GoesTo(p, "undo_env")
  BY CallerFields DEF RestoreYaml
<1>2. (torn' = TRUE => torn') /\ (torn' = torn => (torn' <=> torn))
  OBVIOUS
<1> QED
  BY <1>1, <1>2, Zenon DEF RestoreYaml

LEMMA RestoreEnvEffect ==
    ASSUME TypeInv, NEW p \in Callers, RestoreEnv(p)
    PROVE  /\ At(p, "undo_env") /\ EndsAs(p, "error") /\ lock' = Nobody
           /\ \/ env' = c[p].bak[2] /\ truth' = Content(c[p].bak) /\ (torn' <=> torn)
              \/ env' = env /\ truth' = truth /\ torn'
           /\ UNCHANGED <<yaml, tmp, up, mem, watch, raced>>
<1>1. EndsAs(p, "error")
  BY EndsFields DEF RestoreEnv
<1>2. (torn' = TRUE => torn') /\ (torn' = torn => (torn' <=> torn))
  OBVIOUS
<1> QED
  BY <1>1, <1>2, Zenon DEF RestoreEnv

LEMMA RehashEffect ==
    ASSUME TypeInv, NEW p \in Callers, Rehash(p)
    PROVE  /\ At(p, "rehash") /\ lock' = Nobody
           /\ \/ Becomes(p, "publish", c[p].edit, c[p].cand, c[p].cur, c[p].bak, Disk, c[p].saved)
              \/ EndsAs(p, "error")
           /\ UNCHANGED <<files, up, mem, watch, truth, raced, torn>>
BY CallerFields, EndsFields DEF Rehash

LEMMA PublishEffect ==
    ASSUME TypeInv, NEW p \in Callers, Publish(p)
    PROVE  /\ At(p, "publish")
           /\ \/ mem.fp = c[p].snap /\ EndsAs(p, "ok") /\ mem' = mem
              \/ mem.fp # c[p].snap /\ ~Unmoved(c[p].cur) /\ EndsAs(p, "conflict") /\ mem' = mem
              \/ /\ Unmoved(c[p].cur) /\ EndsAs(p, "ok") /\ mem'.rev = c[p].cur.rev + 1
                 /\ mem'.fp = c[p].snap /\ mem'.cfg = c[p].cand
           /\ UNCHANGED <<files, lock, up, watch, truth, raced, torn, left>>
BY EndsFields DEF Publish

LEMMA PollEffect ==
    ASSUME TypeInv, Poll \/ PollFails
    PROVE  /\ up = "up" /\ watch.pc = "idle" /\ watch'.pc \in {"idle", "fp"} /\ watch'.fp = watch.fp
           /\ UNCHANGED <<files, lock, up, mem, c, truth, raced, torn>>
BY WatchFields DEF Poll, PollFails

LEMMA ReloadFpEffect ==
    ASSUME TypeInv, ReloadFp
    PROVE  /\ up = "up" /\ watch.pc = "fp" /\ lock = Nobody
           /\ \/ watch'.pc = "idle" /\ watch'.fp = NoFp /\ lock' = Nobody
              \/ ~Mismatched /\ watch'.pc = "env" /\ watch'.fp = Disk /\ lock' = "watcher"
           /\ UNCHANGED <<files, up, mem, c, truth, raced, torn>>
BY WatchFields DEF ReloadFp

LEMMA ReloadEnvEffect ==
    ASSUME TypeInv, ReloadEnv
    PROVE  /\ up = "up" /\ watch.pc = "env"
           /\ watch'.pc = "yaml" /\ watch'.fp = watch.fp
           /\ watch'.k = env.v \/ watch'.lost = "unread"
           /\ UNCHANGED <<files, lock, up, mem, c, truth, raced, torn>>
BY WatchFields DEF ReloadEnv

LEMMA ReloadYamlEffect ==
    ASSUME TypeInv, ReloadYaml
    PROVE  /\ up = "up" /\ watch.pc = "yaml"
           /\ \/ watch'.pc = "idle" /\ watch'.fp = NoFp /\ lock' = Nobody
              \/ /\ watch.lost # "unread"
                 /\ watch'.pc = "stable" /\ watch'.fp = watch.fp /\ lock' = lock
                 /\ watch'.cand = [x |-> yaml.v, k |-> watch.k]
           /\ UNCHANGED <<files, up, mem, c, truth, raced, torn>>
<1> DEFINE on == [watch EXCEPT !.pc = "stable", !.cand = [x |-> yaml.v, k |-> watch.k]]
<1>1. on.pc = "stable"
  BY DEF TypeInv, WatchRecord
<1>2. /\ Cleared(Disk).pc = "idle" /\ Cleared(Disk).fp = NoFp
      /\ Unreadable.pc = "idle" /\ Unreadable.fp = NoFp
      /\ Again.pc = "idle" /\ Again.fp = NoFp
  BY WatchFields
<1>3. \/ watch' \in {Again, Unreadable, Cleared(Disk)} /\ lock' = Nobody
      \/ watch.lost # "unread" /\ watch' = on /\ lock' = lock
  BY <1>1, <1>2 DEF ReloadYaml
<1>4. watch' = on => /\ watch'.pc = "stable" /\ watch'.fp = watch.fp
                     /\ watch'.cand = [x |-> yaml.v, k |-> watch.k]
  BY WatchFields
<1>5. /\ up = "up" /\ watch.pc = "yaml"
      /\ UNCHANGED <<files, up, mem, c, truth, raced, torn>>
  BY DEF ReloadYaml
<1> HIDE DEF on
<1> QED
  BY <1>2, <1>3, <1>4, <1>5

LEMMA ReloadStableEffect ==
    ASSUME TypeInv, ReloadStable
    PROVE  /\ up = "up" /\ watch.pc = "stable" /\ lock' = Nobody
           /\ \/ watch'.pc = "idle" /\ watch'.fp = NoFp
              \/ /\ Disk = watch.fp /\ watch'.pc = "publish"
                 /\ watch'.fp = watch.fp /\ watch'.cand = watch.cand
           /\ UNCHANGED <<files, up, mem, c, truth, raced, torn>>
BY WatchFields DEF ReloadStable

LEMMA ReloadPublishEffect ==
    ASSUME TypeInv, ReloadPublish
    PROVE  /\ up = "up" /\ watch.pc = "publish" /\ watch'.pc = "idle" /\ watch'.fp = NoFp
           /\ \/ /\ mem'.rev = watch.cur.rev + 1 /\ Unmoved(watch.cur)
                 /\ mem'.fp = watch.fp /\ mem'.cfg = watch.cand
                 /\ \A q \in Callers :
                      /\ c'[q].pc = c[q].pc /\ c'[q].res = c[q].res /\ c'[q].edit = c[q].edit
                      /\ c'[q].cand = c[q].cand /\ c'[q].cur = c[q].cur /\ c'[q].bak = c[q].bak
                      /\ c'[q].snap = c[q].snap /\ (c'[q].saved <=> c[q].saved)
                      /\ (c'[q].overtaken <=> c[q].pc \notin {"idle", "seen", "check"})
              \/ mem' = mem /\ c' = c
           /\ UNCHANGED <<files, lock, up, truth, raced, torn, left>>
<1>1. CASE Unmoved(watch.cur)
  BY <1>1, WatchFields, EveryCallersFields DEF ReloadPublish
<1>2. CASE ~Unmoved(watch.cur)
  BY <1>2, WatchFields DEF ReloadPublish
<1> QED
  BY <1>1, <1>2

LEMMA CrashEffect ==
    ASSUME TypeInv, ConfigCrash
    PROVE  /\ up' = "down" /\ lock' = Nobody /\ watch'.pc = "idle" /\ watch'.fp = NoFp
           /\ \A q \in Callers :
                IF c[q].pc = "idle" THEN c'[q] = c[q]
                ELSE /\ c'[q].pc = "done" /\ c'[q].res = c[q].res
                     /\ c'[q].cur.fp = NoFp /\ c'[q].bak = NoFp /\ c'[q].snap = NoFp
                     /\ (c'[q].saved <=> c[q].saved) /\ (c'[q].overtaken <=> c[q].overtaken)
           /\ ~torn' => ~torn /\ (lock \notin Callers \/ ~Mismatched)
           /\ lock \notin Callers => truth' = truth /\ raced' = raced
           /\ lock \in Callers /\ ~Mismatched => truth' = Content(Disk)
           /\ UNCHANGED <<files, mem>>
<1>1. \A q \in Callers :
        IF c[q].pc = "idle" THEN c'[q] = c[q]
        ELSE /\ c'[q].pc = "done" /\ c'[q].res = c[q].res
             /\ c'[q].cur.fp = NoFp /\ c'[q].bak = NoFp /\ c'[q].snap = NoFp
             /\ (c'[q].saved <=> c[q].saved) /\ (c'[q].overtaken <=> c[q].overtaken)
  BY EveryCallersFields
<1>2. watch'.pc = "idle" /\ watch'.fp = NoFp
  BY WatchFields DEF ConfigCrash
<1>3. ~torn' => ~torn /\ (lock \notin Callers \/ ~Mismatched)
  BY Zenon DEF ConfigCrash
<1>4. lock \notin Callers => raced' = raced
  BY DEF ConfigCrash, TypeInv
<1> QED
  BY <1>1, <1>2, <1>3, <1>4, Zenon DEF ConfigCrash

LEMMA BootEffect ==
    ASSUME TypeInv, BootUp
    PROVE  /\ \/ /\ up = "down" /\ up' = "loading" /\ ~Mismatched /\ mem' = mem
                 /\ watch'.pc = watch.pc /\ watch'.fp = watch.fp /\ watch'.cand = Content(Disk)
              \/ /\ up = "loading" /\ up' = "up" /\ watch'.pc = "idle" /\ watch'.fp = NoFp
                 /\ mem'.fp \in {Disk, NoFp} /\ mem'.cfg = watch.cand
           /\ UNCHANGED <<yaml, env, lock, c, truth, raced, torn>>
<1>1. CASE BootLoad
  BY <1>1, WatchFields DEF BootLoad
<1>2. CASE BootFingerprint
  <2>1. PICK fp \in {Disk, NoFp} :
          mem' = [rev |-> 1, fp |-> fp, cfg |-> watch.cand] /\ watch' = Watching(fp)
    BY <1>2 DEF BootFingerprint
  <2>2. watch'.pc = "idle" /\ watch'.fp = NoFp
    BY <2>1, WatchFields
  <2>3. mem'.fp \in {Disk, NoFp} /\ mem'.cfg = watch.cand
    BY <2>1
  <2> QED
    BY <1>2, <2>2, <2>3 DEF BootFingerprint, files
<1> QED
  BY <1>1, <1>2 DEF BootUp

LEMMA RepairEffect ==
    ASSUME TypeInv, Repair
    PROVE  /\ up = "down" /\ yaml'.gen = yaml.gen /\ env'.gen = yaml.gen
           /\ truth' = [x |-> yaml'.v, k |-> env'.v]
           /\ UNCHANGED <<lock, up, mem, c, watch>>
BY DEF Repair, TypeInv

LEMMA HandEditEffect ==
    ASSUME TypeInv, NEW e \in Edits, HandEdit(e)
    PROVE  /\ yaml'.gen = yaml.gen /\ env'.gen = env.gen
           /\ truth' = Apply(truth, e) /\ Content(Disk)' = Apply(Content(Disk), e)
           /\ Disk' # Disk
           /\ ~raced' => /\ ~raced /\ lock \notin Callers /\ up # "loading"
                         /\ lock = "watcher" => Disk' # watch.fp
           /\ UNCHANGED <<lock, up, mem, c, watch, torn>>
<1>1. /\ yaml'.gen = yaml.gen /\ env'.gen = env.gen
      /\ Content(Disk)' = Apply(Content(Disk), e) /\ Disk' # Disk
  BY DEF HandEdit, TypeInv, Edits, Disk, Content, Apply
<1>2. ~raced' => /\ ~raced /\ lock \notin Callers /\ up # "loading"
                 /\ lock = "watcher" => Disk' # watch.fp
  BY Zenon DEF HandEdit, Disk
<1> QED
  BY <1>1, <1>2, Zenon DEF HandEdit
-----------------------------------------------------------------------------
(* Every step keeps the lock with whoever is inside its critical section. *)
LEMMA LockStep ==
    ASSUME TypeInv, LockInv, [ConfigNext]_configVars
    PROVE  LockInv'
<1> USE DEF LockInv, files, At, Mismatched, Saving, Reading, Becomes, GoesTo, EndsAs, Others
<1>n. Nobody \notin Callers /\ Nobody # "watcher" /\ "watcher" \notin Callers
  BY ConfigAssumption
<1>1. ASSUME NEW p \in Callers, See(p) \/ Caller(p)
      PROVE  LockInv'
  <2>1. CASE See(p)
    BY <2>1, SeeEffect, <1>n
  <2>2. CASE Clone(p)
    BY <2>2, CloneEffect, <1>n
  <2>3. CASE CheckExpected(p)
    BY <2>3, CheckExpectedEffect, <1>n
  <2>4. CASE CheckDisk(p)
    BY <2>4, CheckDiskEffect, <1>n
  <2>5. CASE LockSave(p)
    BY <2>5, LockSaveEffect, <1>n
  <2>6. CASE WriteYaml(p)
    BY <2>6, WriteYamlEffect, <1>n
  <2>7. CASE WriteEnv(p)
    BY <2>7, WriteEnvEffect, <1>n
  <2>8. CASE EnvFails(p)
    BY <2>8, EnvFailsEffect, <1>n
  <2>9. CASE RestoreYaml(p)
    BY <2>9, RestoreYamlEffect, <1>n
  <2>10. CASE RestoreEnv(p)
    BY <2>10, RestoreEnvEffect, <1>n
  <2>11. CASE Rehash(p)
    BY <2>11, RehashEffect, <1>n
  <2>12. CASE Publish(p)
    BY <2>12, PublishEffect, <1>n
  <2> QED
    BY <1>1, <2>1, <2>2, <2>3, <2>4, <2>5, <2>6, <2>7, <2>8, <2>9, <2>10, <2>11, <2>12 DEF Caller
<1>2. CASE Poll \/ PollFails
  BY <1>2, PollEffect, <1>n
<1>3. CASE ReloadFp
  BY <1>3, ReloadFpEffect, <1>n
<1>4. CASE ReloadEnv
  BY <1>4, ReloadEnvEffect, <1>n
<1>5. CASE ReloadYaml
  BY <1>5, ReloadYamlEffect, <1>n
<1>6. CASE ReloadStable
  BY <1>6, ReloadStableEffect, <1>n
<1>7. CASE ReloadPublish
  BY <1>7, ReloadPublishEffect, <1>n
<1>8. ASSUME NEW e \in Edits, HandEdit(e)
      PROVE  LockInv'
  BY <1>8, HandEditEffect, <1>n
<1>9. CASE ConfigCrash
  BY <1>9, CrashEffect, <1>n
<1>10. CASE BootUp
  BY <1>10, BootEffect, <1>n
<1>11. CASE Repair
  BY <1>11, RepairEffect, <1>n
<1>12. CASE UNCHANGED configVars
  BY <1>12 DEF configVars
<1> QED
  BY <1>1, <1>2, <1>3, <1>4, <1>5, <1>6, <1>7, <1>8, <1>9, <1>10, <1>11, <1>12, Zenon
  DEF ConfigNext, Watcher

(* Every step keeps what a caller has been told and has written. *)
LEMMA TaleStep ==
    ASSUME TypeInv, TaleInv, BaseInv, [ConfigNext]_configVars
    PROVE  TaleInv'
<1> USE DEF TaleInv, files, At, Active, Saving, Becomes, GoesTo, EndsAs, Others
<1>a. \A p \in Callers : c[p].edit \in Edits /\ mem.cfg \in Cfgs
  BY DEF TypeInv, CallerRecord
<1>1. ASSUME NEW p \in Callers, See(p) \/ Caller(p)
      PROVE  TaleInv'
  <2>1. CASE See(p)
    BY <2>1, SeeEffect
  <2>2. CASE Clone(p)
    <3>1. Apply(mem.cfg, c[p].edit)[c[p].edit.f] = c[p].edit.v
      BY <1>a, ApplyFacts
    <3> QED
      BY <2>2, <3>1, CloneEffect
  <2>3. CASE CheckExpected(p)
    BY <2>3, CheckExpectedEffect
  <2>4. CASE CheckDisk(p)
    BY <2>4, CheckDiskEffect
  <2>5. CASE LockSave(p)
    BY <2>5, LockSaveEffect
  <2>6. CASE WriteYaml(p)
    BY <2>6, WriteYamlEffect
  <2>7. CASE WriteEnv(p)
    BY <2>7, WriteEnvEffect
  <2>8. CASE EnvFails(p)
    BY <2>8, EnvFailsEffect
  <2>9. CASE RestoreYaml(p)
    BY <2>9, RestoreYamlEffect
  <2>10. CASE RestoreEnv(p)
    BY <2>10, RestoreEnvEffect
  <2>11. CASE Rehash(p)
    BY <2>11, RehashEffect
  <2>12. CASE Publish(p)
    BY <2>12, PublishEffect DEF BaseInv, OwnBase
  <2> QED
    BY <1>1, <2>1, <2>2, <2>3, <2>4, <2>5, <2>6, <2>7, <2>8, <2>9, <2>10, <2>11, <2>12 DEF Caller
<1>2. CASE Poll \/ PollFails
  BY <1>2, PollEffect
<1>3. CASE ReloadFp
  BY <1>3, ReloadFpEffect
<1>4. CASE ReloadEnv
  BY <1>4, ReloadEnvEffect
<1>5. CASE ReloadYaml
  BY <1>5, ReloadYamlEffect
<1>6. CASE ReloadStable
  BY <1>6, ReloadStableEffect
<1>7. CASE ReloadPublish
  BY <1>7, ReloadPublishEffect
<1>8. ASSUME NEW e \in Edits, HandEdit(e)
      PROVE  TaleInv'
  BY <1>8, HandEditEffect
<1>9. CASE ConfigCrash
  BY <1>9, CrashEffect
<1>10. CASE BootUp
  BY <1>10, BootEffect
<1>11. CASE Repair
  BY <1>11, RepairEffect
<1>12. CASE UNCHANGED configVars
  BY <1>12 DEF configVars
<1> QED
  BY <1>1, <1>2, <1>3, <1>4, <1>5, <1>6, <1>7, <1>8, <1>9, <1>10, <1>11, <1>12, Zenon
  DEF ConfigNext, Watcher

(* Every step keeps the generations of the files and of the fingerprints. *)
LEMMA GenStep ==
    ASSUME TypeInv, LockInv, GenInv, [ConfigNext]_configVars
    PROVE  GenInv'
<1> USE DEF GenInv, LockInv, Whole, files, At, Mismatched, Saving, Undone, Reading,
           Becomes, GoesTo, EndsAs, Others
<1>n. Nobody \notin Callers /\ Nobody # "watcher" /\ "watcher" \notin Callers
  BY ConfigAssumption
<1>d. Disk # NoFp /\ Disk[1] = yaml /\ Disk[2] = env
  BY FpFacts DEF TypeInv, Disk
<1>1. ASSUME NEW p \in Callers, See(p) \/ Caller(p)
      PROVE  GenInv'
  <2>1. CASE See(p)
    BY <2>1, SeeEffect, <1>n, <1>d
  <2>2. CASE Clone(p)
    BY <2>2, CloneEffect, <1>n, <1>d
  <2>3. CASE CheckExpected(p)
    BY <2>3, CheckExpectedEffect, <1>n, <1>d
  <2>4. CASE CheckDisk(p)
    BY <2>4, CheckDiskEffect, <1>n, <1>d
  <2>5. CASE LockSave(p)
    BY <2>5, LockSaveEffect, <1>n, <1>d
  <2>6. CASE WriteYaml(p)
    BY <2>6, WriteYamlEffect, <1>n, <1>d
  <2>7. CASE WriteEnv(p)
    BY <2>7, WriteEnvEffect, <1>n, <1>d
  <2>8. CASE EnvFails(p)
    BY <2>8, EnvFailsEffect, <1>n, <1>d
  <2>9. CASE RestoreYaml(p)
    BY <2>9, RestoreYamlEffect, <1>n, <1>d
  <2>10. CASE RestoreEnv(p)
    BY <2>10, RestoreEnvEffect, <1>n, <1>d
  <2>11. CASE Rehash(p)
    BY <2>11, RehashEffect, <1>n, <1>d
  <2>12. CASE Publish(p)
    BY <2>12, PublishEffect, <1>n, <1>d
  <2> QED
    BY <1>1, <2>1, <2>2, <2>3, <2>4, <2>5, <2>6, <2>7, <2>8, <2>9, <2>10, <2>11, <2>12 DEF Caller
<1>2. CASE Poll \/ PollFails
  BY <1>2, PollEffect, <1>n, <1>d
<1>3. CASE ReloadFp
  BY <1>3, ReloadFpEffect, <1>n, <1>d
<1>4. CASE ReloadEnv
  BY <1>4, ReloadEnvEffect, <1>n, <1>d
<1>5. CASE ReloadYaml
  BY <1>5, ReloadYamlEffect, <1>n, <1>d
<1>6. CASE ReloadStable
  BY <1>6, ReloadStableEffect, <1>n, <1>d
<1>7. CASE ReloadPublish
  BY <1>7, ReloadPublishEffect, <1>n, <1>d
<1>8. ASSUME NEW e \in Edits, HandEdit(e)
      PROVE  GenInv'
  BY <1>8, HandEditEffect, <1>n, <1>d
<1>9. CASE ConfigCrash
  BY <1>9, CrashEffect, <1>n, <1>d
<1>10. CASE BootUp
  BY <1>10, BootEffect, <1>n, <1>d
<1>11. CASE Repair
  BY <1>11, RepairEffect, <1>n, <1>d
<1>12. CASE UNCHANGED configVars
  BY <1>12 DEF configVars
<1> QED
  BY <1>1, <1>2, <1>3, <1>4, <1>5, <1>6, <1>7, <1>8, <1>9, <1>10, <1>11, <1>12, Zenon
  DEF ConfigNext, Watcher

(* Every step keeps the generation of a caller that has not written out of the
   files and out of the fingerprints. *)
LEMMA FreshStep ==
    ASSUME TypeInv, LockInv, GenInv, FreshInv, [ConfigNext]_configVars
    PROVE  FreshInv'
<1> USE DEF FreshInv, LockInv, GenInv, Stamped, files, At, Saving, Undone, Fresh, Reading,
           Becomes, GoesTo, EndsAs, Others
<1>n. Nobody \notin Callers /\ Nobody # "watcher" /\ "watcher" \notin Callers
  BY ConfigAssumption
<1>d. Disk # NoFp /\ Disk[1] = yaml /\ Disk[2] = env
  BY FpFacts DEF TypeInv, Disk
<1>1. ASSUME NEW p \in Callers, See(p) \/ Caller(p)
      PROVE  FreshInv'
  <2>1. CASE See(p)
    BY <2>1, SeeEffect, <1>n, <1>d
  <2>2. CASE Clone(p)
    BY <2>2, CloneEffect, <1>n, <1>d
  <2>3. CASE CheckExpected(p)
    BY <2>3, CheckExpectedEffect, <1>n, <1>d
  <2>4. CASE CheckDisk(p)
    BY <2>4, CheckDiskEffect, <1>n, <1>d
  <2>5. CASE LockSave(p)
    BY <2>5, LockSaveEffect, <1>n, <1>d
  <2>6. CASE WriteYaml(p)
    BY <2>6, WriteYamlEffect, <1>n, <1>d
  <2>7. CASE WriteEnv(p)
    BY <2>7, WriteEnvEffect, <1>n, <1>d
  <2>8. CASE EnvFails(p)
    BY <2>8, EnvFailsEffect, <1>n, <1>d
  <2>9. CASE RestoreYaml(p)
    BY <2>9, RestoreYamlEffect, <1>n, <1>d
  <2>10. CASE RestoreEnv(p)
    BY <2>10, RestoreEnvEffect, <1>n, <1>d
  <2>11. CASE Rehash(p)
    BY <2>11, RehashEffect, <1>n, <1>d
  <2>12. CASE Publish(p)
    BY <2>12, PublishEffect, <1>n, <1>d
  <2> QED
    BY <1>1, <2>1, <2>2, <2>3, <2>4, <2>5, <2>6, <2>7, <2>8, <2>9, <2>10, <2>11, <2>12 DEF Caller
<1>2. CASE Poll \/ PollFails
  BY <1>2, PollEffect, <1>n, <1>d
<1>3. CASE ReloadFp
  BY <1>3, ReloadFpEffect, <1>n, <1>d
<1>4. CASE ReloadEnv
  BY <1>4, ReloadEnvEffect, <1>n, <1>d
<1>5. CASE ReloadYaml
  BY <1>5, ReloadYamlEffect, <1>n, <1>d
<1>6. CASE ReloadStable
  BY <1>6, ReloadStableEffect, <1>n, <1>d
<1>7. CASE ReloadPublish
  BY <1>7, ReloadPublishEffect, <1>n, <1>d
<1>8. ASSUME NEW e \in Edits, HandEdit(e)
      PROVE  FreshInv'
  BY <1>8, HandEditEffect, <1>n, <1>d
<1>9. CASE ConfigCrash
  BY <1>9, CrashEffect, <1>n, <1>d
<1>10. CASE BootUp
  BY <1>10, BootEffect, <1>n, <1>d
<1>11. CASE Repair
  BY <1>11, RepairEffect, <1>n, <1>d
<1>12. CASE UNCHANGED configVars
  BY <1>12 DEF configVars
<1> QED
  BY <1>1, <1>2, <1>3, <1>4, <1>5, <1>6, <1>7, <1>8, <1>9, <1>10, <1>11, <1>12, Zenon
  DEF ConfigNext, Watcher

(* A step of one caller that publishes nothing keeps what became of every    *)
(* snapshot if it keeps its own and what is stale stays so.                  *)
LEMMA OneMoves ==
    ASSUME BaseInv, NEW p \in Callers, Others(p), mem' = mem,
           \A q \in Callers \ {p} : Stale(q) => Stale(q)',
           OwnBase(p)',
           \A q \in Callers \ {p} : Ahead(p)' => ~Ahead(q)
    PROVE  BaseInv'
<1>1. \A q \in Callers \ {p} : OwnBase(q)'
  BY DEF BaseInv, OwnBase, Others, Unmoved
<1>2. \A q \in Callers \ {p} : Ahead(q)' <=> Ahead(q)
  BY DEF Ahead, Others
<1>3. ASSUME NEW q \in Callers, NEW r \in Callers, q # r, Ahead(q)', Ahead(r)'
      PROVE  FALSE
  BY <1>2, <1>3 DEF BaseInv
<1> QED
  BY <1>1, <1>3 DEF BaseInv

(* Nothing moves at all. *)
LEMMA NobodyMoves ==
    ASSUME BaseInv, mem' = mem, c' = c, yaml'.gen = yaml.gen
    PROVE  BaseInv'
BY DEF BaseInv, OwnBase, Ahead, Unmoved, Stale, Stamped

(* Every step keeps what became of the snapshot a caller started from. *)
LEMMA BaseStep ==
    ASSUME TypeInv, LockInv, TaleInv, GenInv, FreshInv, BaseInv, [ConfigNext]_configVars
    PROVE  BaseInv'
<1>n. Nobody \notin Callers /\ Nobody # "watcher" /\ "watcher" \notin Callers
  BY ConfigAssumption
<1>d. Disk # NoFp /\ Disk[1] = yaml /\ Disk[2] = env
  BY FpFacts DEF TypeInv, Disk
<1>t. mem.rev \in Nat /\ watch.cur.rev \in Nat /\ \A p \in Callers : c[p].cur.rev \in Nat
  BY DEF TypeInv, CallerRecord, WatchRecord
<1>o. \A p \in Callers : OwnBase(p)
  BY DEF BaseInv
<1>1. ASSUME NEW p \in Callers, See(p) \/ Caller(p)
      PROVE  BaseInv'
  <2>1. CASE See(p)
    <3>1. Others(p) /\ mem' = mem
      BY <2>1, SeeEffect DEF Becomes, GoesTo, EndsAs
    <3>2. \A q \in Callers \ {p} : Stale(q) => Stale(q)'
      BY <2>1, SeeEffect DEF Stale, Undone, GoesTo, Becomes, EndsAs, Others, At, files
    <3>3. OwnBase(p)'
      BY <2>1, SeeEffect, <1>o DEF OwnBase, Active, Saving, Becomes
    <3>4. \A q \in Callers \ {p} : Ahead(p)' => ~Ahead(q)
      BY <2>1, SeeEffect DEF BaseInv, Ahead, At, Saving, GoesTo, Becomes, EndsAs
    <3> QED
      BY <3>1, <3>2, <3>3, <3>4, OneMoves
  <2>2. CASE Clone(p)
    <3>1. Others(p) /\ mem' = mem
      BY <2>2, CloneEffect DEF Becomes, GoesTo, EndsAs
    <3>2. \A q \in Callers \ {p} : Stale(q) => Stale(q)'
      BY <2>2, CloneEffect DEF Stale, Undone, GoesTo, Becomes, EndsAs, Others, At, files
    <3>3. OwnBase(p)'
      BY <2>2, CloneEffect, <1>o DEF OwnBase, Active, Saving, Becomes
    <3>4. \A q \in Callers \ {p} : Ahead(p)' => ~Ahead(q)
      BY <2>2, CloneEffect DEF BaseInv, Ahead, At, Saving, GoesTo, Becomes, EndsAs
    <3> QED
      BY <3>1, <3>2, <3>3, <3>4, OneMoves
  <2>3. CASE CheckExpected(p)
    <3>1. Others(p) /\ mem' = mem
      BY <2>3, CheckExpectedEffect DEF Becomes, GoesTo, EndsAs
    <3>2. \A q \in Callers \ {p} : Stale(q) => Stale(q)'
      BY <2>3, CheckExpectedEffect DEF Stale, Undone, GoesTo, Becomes, EndsAs, Others, At, files
    <3>3. OwnBase(p)'
      BY <2>3, CheckExpectedEffect, <1>o, <1>t DEF TaleInv, OwnBase, At, Unmoved, Saving, Undone, Active, Becomes, EndsAs
    <3>4. \A q \in Callers \ {p} : Ahead(p)' => ~Ahead(q)
      BY <2>3, CheckExpectedEffect DEF BaseInv, Ahead, At, Saving, GoesTo, Becomes, EndsAs
    <3> QED
      BY <3>1, <3>2, <3>3, <3>4, OneMoves
  <2>4. CASE CheckDisk(p)
    <3>1. Others(p) /\ mem' = mem
      BY <2>4, CheckDiskEffect DEF Becomes, GoesTo, EndsAs
    <3>2. \A q \in Callers \ {p} : Stale(q) => Stale(q)'
      BY <2>4, CheckDiskEffect DEF Stale, Undone, GoesTo, Becomes, EndsAs, Others, At, files
    <3>3. OwnBase(p)'
      <4>1. CASE GoesTo(p, "save")
        <5>1. Stale(p) => Stale(p)'
          BY <2>4, <4>1, CheckDiskEffect DEF Stale, Undone, GoesTo, Becomes, Others, files
        <5> QED
          BY <2>4, <4>1, <5>1, CheckDiskEffect, <1>o
          DEF OwnBase, At, Unmoved, Saving, Undone, Active, GoesTo, Becomes
      <4>2. CASE EndsAs(p, "error") \/ EndsAs(p, "conflict")
        BY <4>2 DEF OwnBase, EndsAs, Saving, Active
      <4> QED
        BY <2>4, <4>1, <4>2, CheckDiskEffect
    <3>4. \A q \in Callers \ {p} : Ahead(p)' => ~Ahead(q)
      BY <2>4, CheckDiskEffect DEF BaseInv, Ahead, At, Saving, GoesTo, Becomes, EndsAs
    <3> QED
      BY <3>1, <3>2, <3>3, <3>4, OneMoves
  <2>5. CASE LockSave(p)
    <3>1. Others(p) /\ mem' = mem
      BY <2>5, LockSaveEffect DEF Becomes, GoesTo, EndsAs
    <3>2. \A q \in Callers \ {p} : Stale(q) => Stale(q)'
      BY <2>5, LockSaveEffect, <1>d DEF Stale, Stamped, Undone, Becomes, EndsAs, Others, files, At
    <3>3. OwnBase(p)'
      BY <2>5, LockSaveEffect, <1>o, <1>d DEF OwnBase, At, Unmoved, Stale, Stamped, Saving, Undone, Active, Becomes, EndsAs
    <3>4. \A q \in Callers \ {p} : Ahead(p)' => ~Ahead(q)
      <4> SUFFICES ASSUME NEW q \in Callers \ {p}, Ahead(p)', Ahead(q)
                   PROVE  FALSE
        OBVIOUS
      <4>1. Disk = c[p].cur.fp /\ lock = Nobody /\ ~c[p].overtaken /\ c[p].pc = "save"
        BY <2>5, LockSaveEffect DEF Ahead, At, Saving, EndsAs, Becomes
      <4>2. c[q].pc = "publish" /\ ~c[q].overtaken
        BY <4>1, <1>n DEF Ahead, LockInv
      <4>3. Unmoved(c[q].cur) /\ Stale(q)
        BY <4>2, <1>o DEF OwnBase, Active
      <4>4. Unmoved(c[p].cur) \/ Stale(p)
        BY <4>1, <1>o DEF OwnBase, Active
      <4> QED
        BY <4>1, <4>3, <4>4, <1>d DEF Unmoved, Stale, Stamped
    <3> QED
      BY <3>1, <3>2, <3>3, <3>4, OneMoves
  <2>6. CASE WriteYaml(p)
    <3>1. Others(p) /\ mem' = mem
      BY <2>6, WriteYamlEffect DEF Becomes, GoesTo, EndsAs
    <3>2. \A q \in Callers \ {p} : Stale(q) => Stale(q)'
      <4>1. \A q \in Callers \ {p} : c'[q] = c[q] /\ ~Stamped(c[q].cur.fp, p)
        BY <2>6, <3>1, WriteYamlEffect DEF Others, At, FreshInv, Fresh
      <4>2. yaml'.gen \in {p, yaml.gen}
        BY <2>6, WriteYamlEffect
      <4>3. c'[p].pc \in Undone => c[p].pc \in Undone /\ c'[p].bak = c[p].bak
        BY <2>6, WriteYamlEffect DEF At, Undone, GoesTo, Becomes, EndsAs
      <4> QED
        BY <4>1, <4>2, <4>3 DEF Stale, Stamped
    <3>3. OwnBase(p)'
      BY <2>6, WriteYamlEffect, <1>o DEF OwnBase, At, Unmoved, Saving, Undone, Active, GoesTo, Becomes, EndsAs
    <3>4. \A q \in Callers \ {p} : Ahead(p)' => ~Ahead(q)
      BY <2>6, WriteYamlEffect DEF BaseInv, Ahead, At, Saving, GoesTo, Becomes, EndsAs
    <3> QED
      BY <3>1, <3>2, <3>3, <3>4, OneMoves
  <2>7. CASE WriteEnv(p)
    <3>1. Others(p) /\ mem' = mem
      BY <2>7, WriteEnvEffect DEF Becomes, GoesTo, EndsAs
    <3>2. \A q \in Callers \ {p} : Stale(q) => Stale(q)'
      BY <2>7, WriteEnvEffect DEF Stale, Undone, GoesTo, Becomes, EndsAs, Others, At, files
    <3>a. ASSUME ~c[p].overtaken
          PROVE  Stale(p)'
      <4>1. yaml.gen = p /\ ~Stamped(c[p].cur.fp, p)
        BY <2>7, WriteEnvEffect DEF At, GenInv, FreshInv
      <4>2. \A r \in Callers : c'[r].pc \in Undone => r # p /\ c'[r] = c[r] /\ c[r].pc \in Saving
        BY <2>7, WriteEnvEffect DEF Becomes, Others, Undone, Saving
      <4>3. \A r \in Callers \ {p} : c[r].pc \notin Saving
        BY <2>7, WriteEnvEffect DEF At, LockInv, Saving
      <4> QED
        BY <2>7, <4>1, <4>2, <4>3, WriteEnvEffect DEF Stale, Becomes
    <3>3. OwnBase(p)'
      BY <2>7, WriteEnvEffect, <1>o, <3>a DEF OwnBase, At, Unmoved, Saving, Undone, Active, Becomes
    <3>4. \A q \in Callers \ {p} : Ahead(p)' => ~Ahead(q)
      BY <2>7, WriteEnvEffect DEF BaseInv, Ahead, At, Saving, GoesTo, Becomes, EndsAs
    <3> QED
      BY <3>1, <3>2, <3>3, <3>4, OneMoves
  <2>8. CASE EnvFails(p)
    <3>1. Others(p) /\ mem' = mem
      BY <2>8, EnvFailsEffect DEF Becomes, GoesTo, EndsAs
    <3>2. \A q \in Callers \ {p} : Stale(q) => Stale(q)'
      BY <2>8, EnvFailsEffect DEF Stale, Undone, GoesTo, Becomes, EndsAs, Others, At, files
    <3>3. OwnBase(p)'
      BY <2>8, EnvFailsEffect, <1>o DEF OwnBase, At, Unmoved, Saving, Undone, Active, GoesTo, Becomes
    <3>4. \A q \in Callers \ {p} : Ahead(p)' => ~Ahead(q)
      BY <2>8, EnvFailsEffect DEF BaseInv, Ahead, At, Saving, GoesTo, Becomes, EndsAs
    <3> QED
      BY <3>1, <3>2, <3>3, <3>4, OneMoves
  <2>9. CASE RestoreYaml(p)
    <3>1. Others(p) /\ mem' = mem
      BY <2>9, RestoreYamlEffect DEF Becomes, GoesTo, EndsAs
    <3>2. \A q \in Callers \ {p} : Stale(q) => Stale(q)'
      BY <2>9, RestoreYamlEffect DEF Stale, Undone, GoesTo, Becomes, Others, At
    <3>3. OwnBase(p)'
      BY <2>9, RestoreYamlEffect, <1>o DEF OwnBase, At, Unmoved, Saving, Undone, Active, GoesTo, Becomes
    <3>4. \A q \in Callers \ {p} : Ahead(p)' => ~Ahead(q)
      BY <2>9, RestoreYamlEffect DEF BaseInv, Ahead, At, Saving, GoesTo, Becomes, EndsAs
    <3> QED
      BY <3>1, <3>2, <3>3, <3>4, OneMoves
  <2>10. CASE RestoreEnv(p)
    <3>1. Others(p) /\ mem' = mem
      BY <2>10, RestoreEnvEffect DEF Becomes, GoesTo, EndsAs
    <3>2. \A q \in Callers \ {p} : Stale(q) => Stale(q)'
      BY <2>10, RestoreEnvEffect DEF Stale, Undone, GoesTo, Becomes, EndsAs, Others, At, files
    <3>3. OwnBase(p)'
      BY <2>10, RestoreEnvEffect, <1>o DEF OwnBase, Saving, Active, EndsAs
    <3>4. \A q \in Callers \ {p} : Ahead(p)' => ~Ahead(q)
      BY <2>10, RestoreEnvEffect DEF BaseInv, Ahead, At, Saving, GoesTo, Becomes, EndsAs
    <3> QED
      BY <3>1, <3>2, <3>3, <3>4, OneMoves
  <2>11. CASE Rehash(p)
    <3>1. Others(p) /\ mem' = mem
      BY <2>11, RehashEffect DEF Becomes, GoesTo, EndsAs
    <3>2. \A q \in Callers \ {p} : Stale(q) => Stale(q)'
      BY <2>11, RehashEffect DEF Stale, Undone, GoesTo, Becomes, EndsAs, Others, At, files
    <3>3. OwnBase(p)'
      <4>1. CASE EndsAs(p, "error")
        BY <4>1 DEF OwnBase, EndsAs, Saving, Active
      <4>2. CASE ~EndsAs(p, "error")
        <5>1. Becomes(p, "publish", c[p].edit, c[p].cand, c[p].cur, c[p].bak, Disk, c[p].saved)
          BY <2>11, <4>2, RehashEffect
        <5>2. Stale(p) => Stale(p)'
          BY <2>11, <5>1, RehashEffect DEF Stale, Undone, Becomes, Others, files
        <5> QED
          BY <2>11, <5>1, <5>2, RehashEffect, <1>o
          DEF OwnBase, At, Unmoved, Saving, Undone, Active, Becomes
      <4> QED
        BY <4>1, <4>2
    <3>4. \A q \in Callers \ {p} : Ahead(p)' => ~Ahead(q)
      BY <2>11, RehashEffect DEF BaseInv, Ahead, At, Saving, GoesTo, Becomes, EndsAs
    <3> QED
      BY <3>1, <3>2, <3>3, <3>4, OneMoves
  <2>12. CASE Publish(p)
    <3>a. /\ At(p, "publish") /\ Others(p) /\ c'[p].pc = "done" /\ UNCHANGED <<files, lock, up, watch>>
      BY <2>12, PublishEffect DEF EndsAs
    <3>b. \A q \in Callers \ {p} : Stale(q) => Stale(q)'
      BY <3>a DEF Stale, Undone, Others, files
    <3>c. OwnBase(p)' /\ ~Ahead(p)'
      BY <3>a DEF OwnBase, Ahead, Active, Saving
    <3>1. CASE mem' = mem
      BY <3>a, <3>b, <3>c, <3>1, OneMoves
    <3>2. CASE mem' # mem
      <4>1. Unmoved(c[p].cur) /\ mem'.rev = c[p].cur.rev + 1
        BY <2>12, <3>2, PublishEffect
      <4>2. mem'.rev = mem.rev + 1 /\ ~c[p].overtaken
        BY <4>1, <3>a, <1>t, <1>o DEF Unmoved, OwnBase, At, Active
      <4>3. Ahead(p) /\ Stale(p)
        BY <4>2, <3>a, <1>o DEF Ahead, OwnBase, At, Active
      <4>4. \A q \in Callers \ {p} : ~Ahead(q)
        BY <4>3 DEF BaseInv
      <4>5. ASSUME NEW q \in Callers \ {p}, c[q].pc \in {"disk", "save"}, ~c[q].overtaken
            PROVE  Stale(q)'
        <5>1. Unmoved(c[q].cur) \/ Stale(q)
          BY <4>5, <1>o DEF OwnBase, Active
        <5>2. Unmoved(c[q].cur) => Stale(q)
          BY <4>1, <4>3 DEF Unmoved, Stale
        <5> QED
          BY <5>1, <5>2, <3>b
      <4>6. \A q \in Callers \ {p} : c'[q] = c[q]
        BY <3>a DEF Others
      <4>7. \A q \in Callers \ {p} : c[q].pc \in Active =>
               c[q].cur.rev <= mem'.rev /\ (c[q].overtaken => c[q].cur.rev < mem'.rev)
        BY <4>2, <1>t, <1>o DEF OwnBase
      <4>8. \A q \in Callers \ {p} : OwnBase(q)'
        BY <4>4, <4>5, <4>6, <4>7 DEF OwnBase, Ahead, Active, Saving, Undone
      <4>9. \A q \in Callers : ~Ahead(q)'
        BY <3>c, <4>4, <4>6 DEF Ahead
      <4> QED
        BY <3>c, <4>8, <4>9 DEF BaseInv
    <3> QED
      BY <3>1, <3>2
  <2> QED
    BY <1>1, <2>1, <2>2, <2>3, <2>4, <2>5, <2>6, <2>7, <2>8, <2>9, <2>10, <2>11, <2>12 DEF Caller
<1>2. CASE Poll \/ PollFails
  BY <1>2, PollEffect, NobodyMoves DEF files
<1>3. CASE ReloadFp
  BY <1>3, ReloadFpEffect, NobodyMoves DEF files
<1>4. CASE ReloadEnv
  BY <1>4, ReloadEnvEffect, NobodyMoves DEF files
<1>5. CASE ReloadYaml
  BY <1>5, ReloadYamlEffect, NobodyMoves DEF files
<1>6. CASE ReloadStable
  BY <1>6, ReloadStableEffect, NobodyMoves DEF files
<1>7. CASE ReloadPublish
  <2>1. CASE mem' = mem /\ c' = c
    BY <1>7, <2>1, ReloadPublishEffect, NobodyMoves DEF files
  <2>2. CASE ~(mem' = mem /\ c' = c)
    <3>1. /\ mem'.rev = watch.cur.rev + 1 /\ Unmoved(watch.cur)
          /\ \A q \in Callers : /\ c'[q].pc = c[q].pc /\ c'[q].cur = c[q].cur
                                /\ c'[q].overtaken <=> c[q].pc \notin {"idle", "seen", "check"}
      BY <1>7, <2>2, ReloadPublishEffect
    <3>2. mem'.rev = mem.rev + 1
      BY <3>1 DEF Unmoved
    <3>3. \A q \in Callers : c[q].pc \in Active => c[q].cur.rev < mem'.rev
      BY <3>2, <1>t, <1>o DEF OwnBase
    <3>4. \A q \in Callers : c'[q].pc \in Active => c'[q].overtaken
      BY <3>1 DEF Active, Saving
    <3>5. \A q \in Callers : OwnBase(q)'
      <4>1. \A q \in Callers : c'[q].pc \in Active => c'[q].cur.rev < mem'.rev
        BY <3>1, <3>3
      <4>2. \A q \in Callers : c'[q].cur.rev \in Nat
        BY <3>1, <1>t
      <4> QED
        BY <3>2, <3>4, <4>1, <4>2, <1>t DEF OwnBase
    <3>6. \A q \in Callers : ~Ahead(q)'
      BY <3>4 DEF Ahead, Active
    <3> QED
      BY <3>5, <3>6 DEF BaseInv
  <2> QED
    BY <2>1, <2>2
<1>8. ASSUME NEW e \in Edits, HandEdit(e)
      PROVE  BaseInv'
  BY <1>8, HandEditEffect, <1>n, <1>d, <1>t
  DEF BaseInv, OwnBase, Ahead, Stale, LockInv, Stamped, Unmoved, files, Active, Saving, Undone
<1>9. CASE ConfigCrash
  BY <1>9, CrashEffect DEF BaseInv, OwnBase, Ahead, Active, Saving
<1>10. CASE BootUp
  <2>1. \A p \in Callers : c'[p].pc \in {"idle", "done"}
    BY <1>10, BootEffect DEF LockInv
  <2> QED
    BY <2>1 DEF BaseInv, OwnBase, Ahead, Active, Saving
<1>11. CASE Repair
  BY <1>11, RepairEffect, NobodyMoves
<1>12. CASE UNCHANGED configVars
  BY <1>12, NobodyMoves DEF configVars
<1> QED
  BY <1>1, <1>2, <1>3, <1>4, <1>5, <1>6, <1>7, <1>8, <1>9, <1>10, <1>11, <1>12, Zenon
  DEF ConfigNext, Watcher

(* Every step keeps the contents of the files as everyone knows them. *)
LEMMA ContentStep ==
    ASSUME TypeInv, LockInv, GenInv, ContentInv, [ConfigNext]_configVars
    PROVE  ContentInv'
<1> USE DEF ContentInv, CallerHonest, SnapHonest, WatchHonest, TruthHonest, LockInv, GenInv,
           Unmoved, Disk, files, At, Mismatched, Saving, Undone, Reading,
           Becomes, GoesTo, EndsAs, Others
<1>n. Nobody \notin Callers /\ Nobody # "watcher" /\ "watcher" \notin Callers
  BY ConfigAssumption
<1>d. <<yaml, env>> # NoFp
  BY FpFacts DEF TypeInv
<1>t. \A p \in Callers : c[p].cand = [x |-> c[p].cand.x, k |-> c[p].cand.k]
  <2>1. \A p \in Callers : c[p].cand \in Cfgs
    BY DEF TypeInv, CallerRecord
  <2> QED
    BY <2>1 DEF Cfgs
<1>q. ASSUME NEW p \in Callers, Others(p), UNCHANGED <<yaml, env, truth, raced, torn>>
      PROVE  \A q \in Callers \ {p} : CallerHonest(q)'
  BY <1>q
<1>r. ASSUME NEW p \in Callers, Others(p), c[p].pc \in Saving, raced' = raced, ~torn' => ~torn
      PROVE  \A q \in Callers \ {p} : CallerHonest(q)'
  <2>1. \A q \in Callers \ {p} : c'[q] = c[q] /\ c[q].pc \notin Saving
    BY <1>r, <1>n
  <2> QED
    BY <1>r, <2>1
<1>1. ASSUME NEW p \in Callers, See(p) \/ Caller(p)
      PROVE  ContentInv'
  <2>1. CASE See(p)
    BY <2>1, SeeEffect, <1>n, <1>d
  <2>2. CASE Clone(p)
    <3>1. CallerHonest(p)'
      BY <2>2, CloneEffect, <1>n, <1>d
    <3>2. \A q \in Callers \ {p} : CallerHonest(q)'
      BY <2>2, CloneEffect, <1>q
    <3>3. SnapHonest' /\ WatchHonest' /\ TruthHonest'
      BY <2>2, CloneEffect, <1>n
    <3> QED
      BY <3>1, <3>2, <3>3
  <2>3. CASE CheckExpected(p)
    <3>1. raced => raced'
      BY <2>3, CheckExpectedEffect
    <3>2. CallerHonest(p)'
      BY <2>3, <3>1, CheckExpectedEffect
    <3>3. \A q \in Callers \ {p} : CallerHonest(q)'
      BY <2>3, <3>1, CheckExpectedEffect
    <3>4. SnapHonest' /\ WatchHonest' /\ TruthHonest'
      BY <2>3, <3>1, CheckExpectedEffect
    <3> QED
      BY <3>2, <3>3, <3>4
  <2>4. CASE CheckDisk(p)
    <3>1. CallerHonest(p)'
      BY <2>4, CheckDiskEffect, <1>n, <1>d
    <3>2. \A q \in Callers \ {p} : CallerHonest(q)'
      BY <2>4, CheckDiskEffect, <1>q
    <3>3. SnapHonest' /\ WatchHonest' /\ TruthHonest'
      BY <2>4, CheckDiskEffect, <1>n
    <3> QED
      BY <3>1, <3>2, <3>3
  <2>5. CASE LockSave(p)
    <3>1. CallerHonest(p)'
      <4>1. CASE c'[p].pc = "yaml"
        BY <2>5, <4>1, LockSaveEffect, <1>n, <1>d
      <4>2. CASE c'[p].pc # "yaml"
        BY <2>5, <4>2, LockSaveEffect
      <4> QED
        BY <4>1, <4>2
    <3>2. \A q \in Callers \ {p} : CallerHonest(q)'
      BY <2>5, LockSaveEffect, <1>q
    <3>3. SnapHonest' /\ WatchHonest' /\ TruthHonest'
      BY <2>5, LockSaveEffect, <1>n
    <3> QED
      BY <3>1, <3>2, <3>3
  <2>6. CASE WriteYaml(p)
    <3>1. CallerHonest(p)'
      BY <2>6, WriteYamlEffect, <1>n, <1>d
    <3>2. \A q \in Callers \ {p} : CallerHonest(q)'
      BY <2>6, WriteYamlEffect, <1>r
    <3>3. SnapHonest' /\ WatchHonest' /\ TruthHonest'
      BY <2>6, WriteYamlEffect, <1>n
    <3> QED
      BY <3>1, <3>2, <3>3
  <2>7. CASE WriteEnv(p)
    <3>1. CallerHonest(p)'
      <4>1. ASSUME ~raced
            PROVE  c[p].cand = Apply(Content(c[p].bak), c[p].edit) /\ yaml.v = c[p].cand.x
        BY <2>7, <4>1, WriteEnvEffect
      <4>2. ASSUME ~raced
            PROVE  Content(<<yaml', env'>>) = c[p].cand
        <5>1. env'.v = c[p].cand.k /\ yaml' = yaml
          BY <2>7, WriteEnvEffect
        <5>2. <<yaml', env'>>[1].v = c[p].cand.x /\ <<yaml', env'>>[2].v = c[p].cand.k
          BY <4>1, <4>2, <5>1
        <5> QED
          BY <5>2, <1>t DEF Content
      <4>3. ASSUME ~raced, ~torn
            PROVE  Content(<<yaml', env'>>) = truth'
        BY <2>7, <4>1, <4>2, <4>3, WriteEnvEffect
      <4> QED
        BY <2>7, <4>2, <4>3, WriteEnvEffect
    <3>2. \A q \in Callers \ {p} : CallerHonest(q)'
      BY <2>7, WriteEnvEffect, <1>r
    <3>3. SnapHonest' /\ WatchHonest' /\ TruthHonest'
      BY <2>7, WriteEnvEffect, <1>n
    <3> QED
      BY <3>1, <3>2, <3>3
  <2>8. CASE EnvFails(p)
    <3>1. CallerHonest(p)'
      BY <2>8, EnvFailsEffect, <1>n, <1>d
    <3>2. \A q \in Callers \ {p} : CallerHonest(q)'
      BY <2>8, EnvFailsEffect, <1>r
    <3>3. SnapHonest' /\ WatchHonest' /\ TruthHonest'
      BY <2>8, EnvFailsEffect, <1>n
    <3> QED
      BY <3>1, <3>2, <3>3
  <2>9. CASE RestoreYaml(p)
    <3>1. CallerHonest(p)'
      BY <2>9, RestoreYamlEffect, <1>n, <1>d
    <3>2. \A q \in Callers \ {p} : CallerHonest(q)'
      BY <2>9, RestoreYamlEffect, <1>r
    <3>3. SnapHonest' /\ WatchHonest' /\ TruthHonest'
      BY <2>9, RestoreYamlEffect, <1>n
    <3> QED
      BY <3>1, <3>2, <3>3
  <2>10. CASE RestoreEnv(p)
    <3>1. CallerHonest(p)'
      BY <2>10, RestoreEnvEffect, <1>n, <1>d
    <3>2. \A q \in Callers \ {p} : CallerHonest(q)'
      BY <2>10, RestoreEnvEffect, <1>r
    <3>3. SnapHonest' /\ WatchHonest' /\ TruthHonest'
      <4>1. c[p].bak # NoFp /\ c[p].bak = <<c[p].bak[1], c[p].bak[2]>>
        <5>1. c[p].bak \in Fps
          BY DEF TypeInv, CallerRecord
        <5>2. c[p].bak # NoFp
          BY <2>10, RestoreEnvEffect
        <5> QED
          BY <5>1, <5>2, FpFacts
      <4>2. ASSUME ~raced', ~torn'
            PROVE  Content(<<yaml', env'>>) = truth'
        BY <2>10, <4>1, <4>2, RestoreEnvEffect
      <4> QED
        BY <2>10, <4>2, RestoreEnvEffect, <1>n
    <3> QED
      BY <3>1, <3>2, <3>3
  <2>11. CASE Rehash(p)
    <3>1. CallerHonest(p)'
      BY <2>11, RehashEffect, <1>n, <1>d
    <3>2. \A q \in Callers \ {p} : CallerHonest(q)'
      BY <2>11, RehashEffect, <1>r
    <3>3. SnapHonest' /\ WatchHonest' /\ TruthHonest'
      BY <2>11, RehashEffect, <1>n
    <3> QED
      BY <3>1, <3>2, <3>3
  <2>12. CASE Publish(p)
    <3>1. CallerHonest(p)'
      BY <2>12, PublishEffect, <1>n, <1>d
    <3>2. \A q \in Callers \ {p} : CallerHonest(q)'
      BY <2>12, PublishEffect, <1>q
    <3>3. SnapHonest' /\ WatchHonest' /\ TruthHonest'
      BY <2>12, PublishEffect, <1>n
    <3> QED
      BY <3>1, <3>2, <3>3
  <2> QED
    BY <1>1, <2>1, <2>2, <2>3, <2>4, <2>5, <2>6, <2>7, <2>8, <2>9, <2>10, <2>11, <2>12 DEF Caller
<1>2. CASE Poll \/ PollFails
  BY <1>2, PollEffect, <1>n, <1>d
<1>3. CASE ReloadFp
  BY <1>3, ReloadFpEffect, <1>n, <1>d
<1>4. CASE ReloadEnv
  BY <1>4, ReloadEnvEffect, <1>n, <1>d
<1>5. CASE ReloadYaml
  BY <1>5, ReloadYamlEffect, <1>n DEF Content
<1>6. CASE ReloadStable
  BY <1>6, ReloadStableEffect, <1>n, <1>d
<1>7. CASE ReloadPublish
  BY <1>7, ReloadPublishEffect, <1>n, <1>d
<1>8. ASSUME NEW e \in Edits, HandEdit(e)
      PROVE  ContentInv'
  BY <1>8, HandEditEffect, <1>n, <1>d
<1>9. CASE ConfigCrash
  BY <1>9, CrashEffect, <1>n, <1>d
<1>10. CASE BootUp
  BY <1>10, BootEffect, <1>n, <1>d
<1>11. CASE Repair
  BY <1>11, RepairEffect, <1>n DEF Content
<1>12. CASE UNCHANGED configVars
  BY <1>12 DEF configVars
<1> HIDE DEF ContentInv, CallerHonest, SnapHonest, WatchHonest, TruthHonest, LockInv, GenInv
<1> QED
  BY <1>1, <1>2, <1>3, <1>4, <1>5, <1>6, <1>7, <1>8, <1>9, <1>10, <1>11, <1>12, Zenon
  DEF ConfigNext, Watcher
-----------------------------------------------------------------------------
LEMMA InvInit == ConfigInit => Inv
<1> SUFFICES ASSUME ConfigInit PROVE Inv
  OBVIOUS
<1>n. Nobody \notin Callers /\ Nobody # "watcher" /\ "watcher" \notin Callers
  BY ConfigAssumption
<1>d. /\ Disk \in Fps /\ Disk # NoFp /\ Disk[1] = yaml /\ Disk[2] = env
      /\ yaml.gen = Nobody /\ env.gen = Nobody /\ Content(Disk) \in Cfgs
  BY FpFacts, ConfigAssumption DEF ConfigInit, Disk, Gens, Content, Cfgs
<1>c. \A p \in Callers :
        /\ c[p].pc = "idle" /\ c[p].res = "none" /\ ~c[p].saved /\ ~c[p].overtaken
        /\ c[p].cur.fp = NoFp /\ c[p].bak = NoFp /\ c[p].snap = NoFp
  BY DEF ConfigInit, Absent
<1>w. watch.pc = "idle" /\ watch.fp = NoFp
  BY DEF ConfigInit, Watching
<1>1. TypeInv
  <2>1. c \in [Callers -> CallerRecord] /\ watch \in WatchRecord
    BY <1>d, RecordFacts DEF ConfigInit
  <2>2. yaml \in [gen : Gens, v : Settings] /\ env \in [gen : Gens, v : Secrets] /\ left \in Nat
    BY ConfigAssumption DEF ConfigInit, Gens
  <2>3. mem \in [rev : Nat, fp : Fps, cfg : Cfgs] /\ truth \in Cfgs
    BY <1>d DEF ConfigInit
  <2> QED
    BY <2>1, <2>2, <2>3 DEF ConfigInit, TypeInv
<1>2. LockInv /\ TaleInv
  BY <1>n, <1>c, <1>w DEF ConfigInit, LockInv, TaleInv, Saving, Active, Reading
<1>3. GenInv
  BY <1>d, <1>c, <1>w DEF ConfigInit, GenInv, Whole, Mismatched, Undone, Reading
<1>4. ContentInv
  BY <1>d, <1>c, <1>w DEF ConfigInit, ContentInv, CallerHonest, SnapHonest, WatchHonest, TruthHonest
<1>5. FreshInv /\ BaseInv
  BY <1>n, <1>d, <1>c, <1>w DEF ConfigInit, FreshInv, BaseInv, OwnBase, Ahead, Stamped, Active, Saving
<1> QED
  BY <1>1, <1>2, <1>3, <1>4, <1>5 DEF Inv

LEMMA InvStep == Inv /\ [ConfigNext]_configVars => Inv'
BY TypeStep, LockStep, TaleStep, GenStep, ContentStep, FreshStep, BaseStep DEF Inv

LEMMA InvHolds == ConfigSpec => []Inv
BY InvInit, InvStep, PTL DEF ConfigSpec

(* Whatever callers, hand edits, failing file operations and crashes there  *)
(* are: the published fingerprint never mixes the generations of            *)
(* save_config_sources_locked and is that of the published settings, and    *)
(* outside a save the two files belong together.                            *)
THEOREM SourceStaysWhole == ConfigSpec => []SourceIsWhole
<1>1. Inv => SourceIsWhole
  <2> SUFFICES ASSUME Inv PROVE SourceIsWhole
    OBVIOUS
  <2>1. ConfigTypeOK
    <3>1. \A p \in Callers : /\ c[p].edit \in Edits /\ c[p].cand \in Cfgs
                             /\ c[p].res \in {"none", "ok", "conflict", "error"}
      BY DEF Inv, TypeInv, CallerRecord
    <3>2. watch.observed \in Fps /\ watch.age \in 0 .. Debounce /\ watch.cand \in Cfgs
      BY DEF Inv, TypeInv, WatchRecord
    <3> QED
      BY <3>1, <3>2 DEF Inv, TypeInv, ConfigTypeOK
  <2>2. OneGeneration /\ FingerprintHonest
    BY DEF Inv, GenInv, Whole, ContentInv, SnapHonest, OneGeneration, FingerprintHonest
  <2>3. Loadable
    BY ConfigAssumption DEF Inv, GenInv, Loadable
  <2> QED
    BY <2>1, <2>2, <2>3 DEF SourceIsWhole
<1> QED
  BY <1>1, InvHolds, PTL

(* However callers overlap (save_config_with_secrets_if_unchanged) and      *)
(* saves are rolled back: what is on disk is every effective edit in order, *)
(* and a caller told "conflict" changed nothing unless the watcher          *)
(* published during its call.                                               *)
THEOREM NoUpdateIsLost == ConfigSpec => []UpdatesKept
<1>1. Inv => UpdatesKept
  BY ConfigAssumption
  DEF Inv, ContentInv, TruthHonest, TaleInv, UpdatesKept, NoLostUpdate, ConflictMeansUntouched
<1> QED
  BY <1>1, InvHolds, PTL

(* A new snapshot of a running process has a greater revision, and what a   *)
(* caller of apply_candidate is told "ok" about is in it.                   *)
THEOREM UpdatesTakeEffect == ConfigSpec => UpdatesAreLive
<1>1. ASSUME Inv, [ConfigNext]_configVars
      PROVE  up = "up" /\ up' = "up" => mem' = mem \/ mem'.rev > mem.rev
  <2>t. mem.rev \in Nat /\ watch.cur.rev \in Nat /\ \A p \in Callers : c[p].cur.rev \in Nat
    BY <1>1 DEF Inv, TypeInv, CallerRecord, WatchRecord
  <2>1. ASSUME NEW p \in Callers, Publish(p)
        PROVE  mem' = mem \/ mem'.rev > mem.rev
    BY <1>1, <2>1, <2>t, PublishEffect DEF Inv, Unmoved
  <2>2. CASE ReloadPublish
    BY <1>1, <2>2, <2>t, ReloadPublishEffect DEF Inv, Unmoved
  <2>3. CASE BootUp
    BY <1>1, <2>3, BootEffect DEF Inv
  <2>4. CASE ~ReloadPublish /\ ~BootUp /\ \A p \in Callers : ~Publish(p)
    BY <1>1, <2>4
    DEF ConfigNext, Caller, Watcher, configVars, See, Clone, CheckExpected, CheckDisk, LockSave,
        WriteYaml, WriteEnv, EnvFails, RestoreYaml, RestoreEnv, Rehash, Poll, PollFails, ReloadFp,
        ReloadEnv, ReloadYaml, ReloadStable, HandEdit, ConfigCrash, Repair
  <2> QED
    BY <2>1, <2>2, <2>3, <2>4
<1>2. ASSUME Inv, [ConfigNext]_configVars, NEW p \in Callers,
             c[p].res = "none", c'[p].res = "ok", ~raced
      PROVE  mem'.cfg[c[p].edit.f] = c[p].edit.v
  <2> USE DEF Becomes, GoesTo, EndsAs, Others
  <2>1. \A q \in Callers : See(q) \/ Caller(q) => Publish(q) /\ q = p
    <3> TAKE q \in Callers
    <3>1. See(q) => c'[p].res # "ok"
      BY <1>2, SeeEffect DEF Inv
    <3>2. Clone(q) \/ CheckExpected(q) \/ CheckDisk(q) => c'[p].res # "ok"
      BY <1>2, CloneEffect, CheckExpectedEffect, CheckDiskEffect DEF Inv
    <3>3. LockSave(q) \/ WriteYaml(q) \/ WriteEnv(q) => c'[p].res # "ok"
      BY <1>2, LockSaveEffect, WriteYamlEffect, WriteEnvEffect DEF Inv
    <3>4. EnvFails(q) \/ RestoreYaml(q) \/ RestoreEnv(q) \/ Rehash(q) => c'[p].res # "ok"
      BY <1>2, EnvFailsEffect, RestoreYamlEffect, RestoreEnvEffect, RehashEffect DEF Inv
    <3>5. Publish(q) /\ q # p => c'[p].res # "ok"
      BY <1>2, PublishEffect DEF Inv
    <3> QED
      BY <1>2, <3>1, <3>2, <3>3, <3>4, <3>5 DEF Caller
  <2>2. ReloadPublish \/ ConfigCrash => c'[p].res # "ok"
    BY <1>2, ReloadPublishEffect, CrashEffect DEF Inv
  <2>3. Publish(p)
    <3>1. UNCHANGED c => c'[p].res # "ok"
      BY <1>2
    <3> QED
      BY <1>2, <2>1, <2>2, <3>1
      DEF ConfigNext, Watcher, configVars, Poll, PollFails, ReloadFp, ReloadEnv, ReloadYaml,
          ReloadStable, HandEdit, BootUp, BootLoad, BootFingerprint, Repair
  <2>4. /\ up = "up" /\ c[p].pc = "publish"
        /\ mem'.cfg = c[p].cand \/ (mem' = mem /\ mem.fp = c[p].snap)
    BY <1>2, <2>3, PublishEffect DEF Inv, At
  <2>5. c[p].cand[c[p].edit.f] = c[p].edit.v
    BY <1>2, <2>4 DEF Inv, TaleInv, Active
  <2>6. Content(c[p].snap) = c[p].cand
    BY <1>2, <2>4 DEF Inv, ContentInv, CallerHonest
  <2>7. c[p].snap # NoFp
    BY <1>2, <2>4 DEF Inv, GenInv
  <2>8. mem.fp = c[p].snap => mem.cfg = c[p].cand
    BY <1>2, <2>4, <2>6, <2>7 DEF Inv, ContentInv, SnapHonest
  <2> QED
    BY <2>4, <2>5, <2>8
<1>3. Inv /\ [ConfigNext]_configVars
        => [up = "up" /\ up' = "up" => mem' = mem \/ mem'.rev > mem.rev]_configVars
  BY <1>1
<1>4. Inv /\ [ConfigNext]_configVars
        => [\A p \in Callers : c[p].res = "none" /\ c'[p].res = "ok" /\ ~raced
              => mem'.cfg[c[p].edit.f] = c[p].edit.v]_configVars
  BY <1>2
<1> QED
  BY <1>3, <1>4, InvHolds, PTL DEF ConfigSpec, UpdatesAreLive, RevisionNamesContent, OkMeansLive

-----------------------------------------------------------------------------
(* The files of the backup directory, and the file a backup is at. *)
FilesInv ==
    /\ backups \in Seq({"partial", "raw", "good"})
    /\ job = "vacuum" => Len(backups) > 0 /\ backups[Len(backups)] = "partial"
    /\ job = "verify" => Len(backups) > 0 /\ backups[Len(backups)] = "raw"

(* A file that a backup is writing, and may yet leave behind. *)
Writing == IF job \in {"vacuum", "verify"} THEN 1 ELSE 0

(* Only unverified files are younger than the last verified one. *)
KeptInv ==
    kept /\ littered < MaxGenerations =>
        \E g \in 1..Len(backups) :
            backups[g] = "good" /\ Len(backups) - g <= littered + Writing

(* The other variables of the backups. *)
LoopInv ==
    /\ today \in 1..(MaxDays + 1) /\ lastRun \in 0..today /\ nextRun \in Nat
    /\ loop \in {"off", "start", "compute", "wait", "run", "ended"}
    /\ job \in {"none", "create", "vacuum", "verify", "prune", "record"}
    /\ job # "none" <=> loop \in {"start", "run"}
    /\ littered \in Nat /\ kept \in BOOLEAN /\ failures \in 0..MaxFailures

BackupsInv == LoopInv /\ FilesInv /\ KeptInv /\ NotPutOff

-----------------------------------------------------------------------------
(* The variables of an upgrade, with the sequences. *)
UpgradeTypes ==
    /\ release \in Releases /\ schema \in Nat /\ highest \in Nat /\ begun \in Nat
    /\ layout \in SUBSET (Nat \ {0})
    /\ arrived \in Seq(MessageIds) /\ seq \in [MessageIds -> Nat] /\ nextSeq \in Nat \ {0}
    /\ boot \in {"down", "backup", "open", "base", "migrate", "half", "up"}
    /\ saves \in Seq(Contents) /\ Len(saves) <= MaxGenerations + mishaps
    /\ boots \in 0..MaxGenerations /\ unsaved \in BOOLEAN /\ fooled \in BOOLEAN
    /\ swaps \in 0..MaxSwaps /\ mishaps \in 0..MaxMishaps

(* Where the version is during an upgrade, and what it promises. *)
VersionInv ==
    /\ \A n \in layout : \E r \in Releases : n <= r
    /\ 1..schema \subseteq layout
    /\ boot = "base" => schema < release /\ 1 \in layout
    /\ boot = "half" => schema < release /\ schema + 1 \in layout
    /\ boot = "migrate" => schema <= release
    /\ ~fooled => highest <= schema
    /\ boot = "up" /\ ~fooled => highest <= release

Rows == {m \in MessageIds : seq[m] # 0}

(* There are no more numbers than numbered rows. *)
NumberInv ==
    /\ Len(arrived) = Cardinality(Stored)
    /\ Rows \subseteq Stored
    /\ nextSeq <= Cardinality(Rows) + 1
    /\ \A m \in MessageIds : seq[m] < nextSeq

(* The snapshot from before the upgrade is the youngest file when the first *)
(* migration begins, and every start that follows adds at most one.         *)
RestoreInv ==
    /\ highest # 0 => layout # {}
    /\ boot \in {"base", "half", "migrate"} => begun # 0
    /\ begun = 0 /\ boot \in {"backup", "open"} => boots = 0
    /\ begun = 0 /\ boot = "open" /\ highest # 0 /\ ~unsaved
         => Len(saves) > 0 /\ saves[Len(saves)] = "before"
    /\ begun # 0 /\ boot = "backup" => boots > 0
    /\ begun # 0 /\ highest # 0 /\ ~unsaved /\ boots < MaxGenerations =>
         \E g \in 1..Len(saves) :
             /\ saves[g] = "before"
             /\ Len(saves) - g <= IF boot = "backup" THEN boots - 1 ELSE boots

UpgradeInv == UpgradeTypes /\ VersionInv /\ NumberInv /\ RestoreInv

-----------------------------------------------------------------------------
(* What the operators on the backup directory do.                           *)

LEMMA PrunedProperties ==
    ASSUME NEW S, NEW fs \in Seq(S)
    PROVE  /\ PrunedFiles(fs) \in Seq(S)
           /\ Len(PrunedFiles(fs)) \in Nat /\ Len(PrunedFiles(fs)) <= Len(fs)
           /\ Len(PrunedFiles(fs)) <= MaxGenerations
           /\ \A g \in 1..Len(fs) : Len(fs) - g < MaxGenerations =>
                  \E h \in 1..Len(PrunedFiles(fs)) :
                      /\ PrunedFiles(fs)[h] = fs[g]
                      /\ Len(PrunedFiles(fs)) - h = Len(fs) - g
           /\ Len(fs) > 0 => /\ Len(PrunedFiles(fs)) > 0
                             /\ PrunedFiles(fs)[Len(PrunedFiles(fs))] = fs[Len(fs)]
<1> DEFINE n == Len(fs)
           M == MaxGenerations
<1>1. n \in Nat /\ M \in Nat /\ M > 0 /\ \A i \in 1..n : fs[i] \in S
  BY LenProperties, ElementOfSeq, GenerationsAssumption
<1>2. CASE n <= M
  <2>1. PrunedFiles(fs) = fs
    BY <1>2 DEF PrunedFiles
  <2> QED
    BY <1>1, <1>2, <2>1
<1>3. CASE ~(n <= M)
  <2> DEFINE a == n - M + 1
             t == SubSeq(fs, a, n)
  <2>1. PrunedFiles(fs) = t
    BY <1>3 DEF PrunedFiles
  <2>2. a \in 1..n /\ n \in Int /\ a \in Int /\ n - a + 1 = M
    BY <1>1, <1>3
  <2>3. \A i \in a..n : fs[i] \in S
    BY <1>1, <2>2
  <2>4. /\ t \in Seq(S) /\ Len(t) = IF a <= n THEN n - a + 1 ELSE 0
        /\ \A i \in 1..(n - a + 1) : t[i] = fs[a + i - 1]
    <3> HIDE DEF n, a
    <3> QED BY <2>2, <2>3, SubSeqProperties
  <2>5. Len(t) = M
    BY <2>2, <2>4
  <2>6. \A i \in 1..M : t[i] = fs[n - M + i]
    <3> TAKE i \in 1..M
    <3>1. t[i] = fs[a + i - 1]
      BY <2>2, <2>4
    <3>2. a + i - 1 = n - M + i
      BY <1>1
    <3> QED BY <3>1, <3>2
  <2> HIDE DEF t, a
  <2>7. ASSUME NEW g \in 1..n, n - g < M
        PROVE  \E h \in 1..Len(t) : t[h] = fs[g] /\ Len(t) - h = n - g
    <3> DEFINE h == M - (n - g)
    <3>1. h \in 1..M /\ n - M + h = g /\ M - h = n - g
      BY <1>1, <2>7
    <3> QED BY <2>5, <2>6, <3>1
  <2>8. Len(t) > 0 /\ t[Len(t)] = fs[n]
    <3>1. M \in 1..M /\ n - M + M = n
      BY <1>1
    <3> QED BY <1>1, <2>5, <2>6, <3>1
  <2> QED BY <1>1, <1>3, <2>1, <2>4, <2>5, <2>7, <2>8
<1> QED BY <1>2, <1>3

LEMMA CreatedProperties ==
    ASSUME NEW S, NEW fs \in Seq(S), "partial" \in S
    PROVE  /\ Created(fs) \in Seq(S) /\ Len(fs) \in Nat
           /\ Len(Created(fs)) = Len(fs) + 1
           /\ \A i \in 1..Len(fs) : Created(fs)[i] = fs[i]
           /\ Created(fs)[Len(fs) + 1] = "partial"
BY AppendProperties, LenProperties DEF Created

LEMMA FilledProperties ==
    ASSUME NEW S, NEW fs \in Seq(S), NEW e \in S, Len(fs) > 0
    PROVE  /\ Filled(fs, e) \in Seq(S) /\ Len(fs) \in Nat
           /\ Len(Filled(fs, e)) = Len(fs)
           /\ \A i \in 1..(Len(fs) - 1) : Filled(fs, e)[i] = fs[i]
           /\ Filled(fs, e)[Len(fs)] = e
<1>1. Len(fs) \in Nat
  BY LenProperties
<1>2. Len(fs) \in 1..Len(fs)
  BY <1>1
<1> DEFINE t == [fs EXCEPT ![Len(fs)] = e]
<1>3. /\ t \in Seq(S) /\ Len(t) = Len(fs)
      /\ \A j \in 1..Len(fs) : t[j] = IF j = Len(fs) THEN e ELSE fs[j]
  BY <1>2, ExceptSeq
<1>4. Filled(fs, e) = t
  BY DEF Filled
<1> HIDE DEF t
<1> QED BY <1>1, <1>2, <1>3, <1>4

LEMMA DroppedProperties ==
    ASSUME NEW S, NEW fs \in Seq(S), Len(fs) > 0
    PROVE  /\ DroppedLast(fs) \in Seq(S) /\ Len(fs) \in Nat
           /\ Len(DroppedLast(fs)) = Len(fs) - 1
           /\ \A i \in 1..(Len(fs) - 1) : DroppedLast(fs)[i] = fs[i]
<1> DEFINE n == Len(fs) - 1
<1>1. Len(fs) \in Nat /\ n \in Nat /\ n \in Int /\ 1 \in Int /\ \A i \in 1..n : fs[i] \in S
  BY LenProperties, ElementOfSeq
<1> HIDE DEF n
<1>2. /\ SubSeq(fs, 1, n) \in Seq(S) /\ Len(SubSeq(fs, 1, n)) = IF 1 <= n THEN n - 1 + 1 ELSE 0
      /\ \A i \in 1..(n - 1 + 1) : SubSeq(fs, 1, n)[i] = fs[1 + i - 1]
  BY <1>1, SubSeqProperties
<1>3. Len(SubSeq(fs, 1, n)) = n /\ \A i \in 1..n : SubSeq(fs, 1, n)[i] = fs[i]
  BY <1>1, <1>2
<1>4. DroppedLast(fs) = SubSeq(fs, 1, n)
  BY DEF DroppedLast, n
<1> QED BY <1>1, <1>2, <1>3, <1>4 DEF n

-----------------------------------------------------------------------------
(* The backups.                                                             *)

LEMMA NatMin ==
    ASSUME NEW T \in SUBSET Nat, T # {}
    PROVE  \E x \in T : \A y \in T : x <= y
<1> DEFINE R == OpToRel(<, Nat)
<1>1. IsWellFoundedOn(R, Nat)
  BY NatLessThanWellFounded
<1>2. PICK x \in T : \A y \in T : ~(<<y, x>> \in R)
  <2> HIDE DEF R
  <2> QED BY <1>1, WFMin
<1>3. \A y \in T : ~(y < x)
  BY <1>2 DEF OpToRel
<1> QED BY <1>3

LEMMA LoopStep ==
    ASSUME LoopInv, BackupsNext
    PROVE  LoopInv'
<1> USE BackupsAssumption DEF LoopInv, backupGhosts
<1>1. CASE CreateFile  BY <1>1 DEF CreateFile, Step, Failed, Failure
<1>2. CASE Vacuum      BY <1>2 DEF Vacuum, Step, Failed, Failure
<1>3. CASE Verify
  <2>1. kept' \in BOOLEAN
    BY <1>3, Zenon DEF Verify
  <2>2. /\ littered' \in {littered, littered + 1} /\ failures' \in {failures, failures + 1}
        /\ failures' # failures => failures < MaxFailures
    BY <1>3 DEF Verify, Failed, Failure
  <2>3. /\ job \in {"verify"} /\ UNCHANGED <<today, lastRun, nextRun>>
        /\ \/ job' = "prune" /\ loop' = loop
           \/ job' = "none" /\ loop' \in {"off", "compute"}
    BY <1>3 DEF Verify, Step, Failed
  <2> QED BY <2>1, <2>2, <2>3
<1>4. CASE Prune       BY <1>4 DEF Prune, Failed, Failure
<1>5. CASE Record      BY <1>5 DEF Record, Failed, Failure
<1>6. CASE Begin       BY <1>6 DEF Begin
<1>7. CASE ComputeNext
  <2>1. nextRun' \in Nat
    <3>1. CASE nextRun' = nextRun
      BY <3>1
    <3>2. CASE /\ Candidates # {}
               /\ nextRun' = CHOOSE d \in Candidates : \A f \in Candidates : d <= f
      <4>1. Candidates \in SUBSET Nat
        BY DEF Candidates, Base
      <4>2. \E d \in Candidates : \A f \in Candidates : d <= f
        BY <3>2, <4>1, NatMin
      <4> QED BY <3>2, <4>1, <4>2
    <3> QED BY <1>7, <3>1, <3>2 DEF ComputeNext
  <2> QED BY <1>7, <2>1 DEF ComputeNext, Failure
<1>8. CASE ConfigChanged BY <1>8 DEF ConfigChanged
<1>9. CASE RunDue      BY <1>9 DEF RunDue
<1>10. CASE Halt       BY <1>10 DEF Halt
<1>11. CASE Die        BY <1>11 DEF Die, Failure
<1>12. CASE NextDay    BY <1>12 DEF NextDay
<1> QED
  BY <1>1, <1>2, <1>3, <1>4, <1>5, <1>6, <1>7, <1>8, <1>9, <1>10, <1>11, <1>12 DEF BackupsNext

(* The next backup is the day after the last run plus the interval, or      *)
(* tomorrow, whichever the loop finds first.                                *)
LEMMA PutOffStep ==
    ASSUME LoopInv, NotPutOff, BackupsNext
    PROVE  NotPutOff'
<1> USE DEF NotPutOff, backupGhosts
<1>1. CASE CreateFile  BY <1>1 DEF CreateFile, Step, Failed, LoopInv
<1>2. CASE Vacuum      BY <1>2 DEF Vacuum, Step, Failed, LoopInv
<1>3. CASE Verify      BY <1>3 DEF Verify, Step, Failed, LoopInv
<1>4. CASE Prune       BY <1>4 DEF Prune, Failed, LoopInv
<1>5. CASE Record      BY <1>5 DEF Record, Failed, LoopInv
<1>6. CASE Begin       BY <1>6 DEF Begin
<1>7. CASE ComputeNext
  <2> SUFFICES ASSUME loop' = "wait", lastRun # 0
               PROVE  nextRun' <= lastRun + Interval \/ nextRun' <= today + 1
    BY <1>7 DEF ComputeNext
  <2>1. /\ Candidates # {}
        /\ nextRun' = CHOOSE d \in Candidates : \A f \in Candidates : d <= f
    BY <1>7 DEF ComputeNext
  <2>2. today \in Nat /\ lastRun \in Nat /\ Interval \in Nat /\ Interval > 0
    BY BackupsAssumption DEF LoopInv
  <2>3. Base = lastRun + Interval
    BY DEF Base
  <2>4. Candidates = {d \in (lastRun + Interval)..(lastRun + Interval + Interval + 1) : d > today}
    BY <2>3 DEF Candidates
  <2>5. \E d \in Candidates : \A f \in Candidates : d <= f
    <3>1. Candidates \in SUBSET Nat
      BY <2>2, <2>4
    <3> QED BY <2>1, <3>1, NatMin
  <2>6. \A f \in Candidates : nextRun' <= f
    BY <2>1, <2>5
  <2>7. CASE lastRun + Interval > today
    BY <2>2, <2>4, <2>6, <2>7
  <2>8. CASE ~(lastRun + Interval > today)
    <3>1. today + 1 \in Candidates
      BY <2>1, <2>2, <2>4, <2>8
    <3> QED BY <2>6, <3>1
  <2> QED BY <2>7, <2>8
<1>8. CASE ConfigChanged BY <1>8 DEF ConfigChanged
<1>9. CASE RunDue      BY <1>9 DEF RunDue
<1>10. CASE Halt       BY <1>10 DEF Halt
<1>11. CASE Die        BY <1>11 DEF Die
<1>12. CASE NextDay    BY <1>12, BackupsAssumption DEF NextDay, LoopInv
<1> QED
  BY <1>1, <1>2, <1>3, <1>4, <1>5, <1>6, <1>7, <1>8, <1>9, <1>10, <1>11, <1>12 DEF BackupsNext

(* A step that leaves the directory alone. *)
LEMMA QuietStep ==
    ASSUME FilesInv, KeptInv, UNCHANGED <<backups, littered, kept>>,
           job \notin {"vacuum", "verify"}, job' \notin {"vacuum", "verify"}
    PROVE  FilesInv' /\ KeptInv'
<1>1. FilesInv'
  BY DEF FilesInv
<1>2. Writing = 0 /\ Writing' = 0
  BY DEF Writing
<1>3. KeptInv'
  BY <1>2 DEF KeptInv
<1> QED BY <1>1, <1>3

LEMMA FilesStep ==
    ASSUME LoopInv, FilesInv, KeptInv, BackupsNext
    PROVE  FilesInv' /\ KeptInv'
<1> DEFINE Files == {"partial", "raw", "good"}
           n == Len(backups)
<1>1. /\ backups \in Seq(Files) /\ n \in Nat /\ littered \in Nat
      /\ MaxGenerations \in Nat /\ MaxGenerations > 0
  BY LenProperties, GenerationsAssumption DEF FilesInv, LoopInv
<1>2. kept /\ littered < MaxGenerations =>
          \E g \in 1..n : backups[g] = "good" /\ n - g <= littered + Writing
  BY DEF KeptInv
<1>3. CASE CreateFile
  <2>1. CASE Failed /\ UNCHANGED backups
    BY <1>3, <2>1, QuietStep DEF CreateFile, Failed, backupGhosts
  <2>2. CASE Step("create", "vacuum") /\ backups' = Created(backups)
    <3>1. /\ backups' \in Seq(Files) /\ Len(backups') = n + 1
          /\ \A i \in 1..n : backups'[i] = backups[i]
          /\ backups'[n + 1] = "partial"
      BY <1>1, <2>2, CreatedProperties
    <3>2. FilesInv'
      BY <1>1, <2>2, <3>1 DEF FilesInv, Step
    <3>3. Writing = 0 /\ Writing' = 1 /\ UNCHANGED <<littered, kept>>
      BY <1>3, <2>2 DEF Writing, Step, CreateFile, backupGhosts
    <3>4. ASSUME NEW g \in 1..n, backups[g] = "good", n - g <= littered + Writing
          PROVE  g \in 1..Len(backups') /\ backups'[g] = "good"
                   /\ Len(backups') - g <= littered' + Writing'
      BY <1>1, <3>1, <3>3, <3>4
    <3>5. KeptInv'
      BY <1>2, <3>3, <3>4 DEF KeptInv
    <3> QED BY <3>2, <3>5
  <2> QED BY <1>3, <2>1, <2>2 DEF CreateFile
<1>4. CASE Vacuum
  <2>1. n > 0 /\ backups[n] = "partial" /\ Writing = 1 /\ UNCHANGED <<littered, kept>>
    BY <1>4 DEF Vacuum, FilesInv, Writing, backupGhosts
  <2>2. CASE Step("vacuum", "verify") /\ backups' = Filled(backups, "raw")
    <3>1. /\ backups' \in Seq(Files) /\ Len(backups') = n /\ backups'[n] = "raw"
          /\ \A i \in 1..(n - 1) : backups'[i] = backups[i]
      <4>1. "raw" \in Files
        OBVIOUS
      <4> HIDE DEF Files
      <4>2. /\ Filled(backups, "raw") \in Seq(Files) /\ Len(Filled(backups, "raw")) = n
            /\ Filled(backups, "raw")[n] = "raw"
            /\ \A i \in 1..(n - 1) : Filled(backups, "raw")[i] = backups[i]
        BY <1>1, <2>1, <4>1, FilledProperties
      <4> QED BY <2>2, <4>2
    <3>2. FilesInv'
      BY <1>1, <2>1, <2>2, <3>1 DEF FilesInv, Step
    <3>3. Writing' = 1
      BY <2>2 DEF Writing, Step
    <3>4. ASSUME NEW g \in 1..n, backups[g] = "good", n - g <= littered + Writing
          PROVE  g \in 1..Len(backups') /\ backups'[g] = "good"
                   /\ Len(backups') - g <= littered' + Writing'
      <4>1. g \in 1..(n - 1)
        BY <1>1, <2>1, <3>4
      <4> QED BY <1>1, <2>1, <3>1, <3>3, <3>4, <4>1
    <3>5. KeptInv'
      BY <1>2, <2>1, <3>4 DEF KeptInv
    <3> QED BY <3>2, <3>5
  <2>3. CASE Failed /\ backups' = DroppedLast(backups)
    <3>1. /\ backups' \in Seq(Files) /\ Len(backups') = n - 1
          /\ \A i \in 1..(n - 1) : backups'[i] = backups[i]
      BY <1>1, <2>1, <2>3, DroppedProperties
    <3>2. FilesInv'
      BY <2>3, <3>1 DEF FilesInv, Failed
    <3>3. Writing' = 0
      BY <2>3 DEF Writing, Failed
    <3>4. ASSUME NEW g \in 1..n, backups[g] = "good", n - g <= littered + Writing
          PROVE  g \in 1..Len(backups') /\ backups'[g] = "good"
                   /\ Len(backups') - g <= littered' + Writing'
      <4>1. g \in 1..(n - 1)
        BY <1>1, <2>1, <3>4
      <4> QED BY <1>1, <2>1, <3>1, <3>3, <3>4, <4>1
    <3>5. KeptInv'
      BY <1>2, <2>1, <3>4 DEF KeptInv
    <3> QED BY <3>2, <3>5
  <2> QED BY <1>4, <2>2, <2>3 DEF Vacuum
<1>5. CASE Verify
  <2>1. n > 0 /\ backups[n] = "raw" /\ Writing = 1
    BY <1>5 DEF Verify, FilesInv, Writing
  <2>2. Writing' = 0 /\ job' \notin {"vacuum", "verify"}
    BY <1>5 DEF Verify, Step, Failed, Writing
  <2>3. CASE Step("verify", "prune") /\ backups' = Filled(backups, "good") /\ littered' = littered
    <3>1. /\ backups' \in Seq(Files) /\ Len(backups') = n /\ backups'[n] = "good"
      BY <1>1, <2>1, <2>3, FilledProperties, ZenonT(60)
    <3>2. FilesInv'
      BY <2>2, <3>1 DEF FilesInv
    <3>3. n \in 1..Len(backups') /\ Len(backups') - n <= littered' + Writing'
      BY <1>1, <2>1, <2>2, <2>3, <3>1
    <3> QED BY <3>1, <3>2, <3>3 DEF KeptInv
  <2>4. CASE Step("verify", "prune") /\ backups' = DroppedLast(backups) /\ UNCHANGED backupGhosts
    <3>1. /\ backups' \in Seq(Files) /\ Len(backups') = n - 1
          /\ \A i \in 1..(n - 1) : backups'[i] = backups[i]
      BY <1>1, <2>1, <2>4, DroppedProperties
    <3>2. FilesInv'
      BY <2>2, <3>1 DEF FilesInv
    <3>3. UNCHANGED <<littered, kept>>
      BY <2>4 DEF backupGhosts
    <3>4. ASSUME NEW g \in 1..n, backups[g] = "good", n - g <= littered + Writing
          PROVE  g \in 1..Len(backups') /\ backups'[g] = "good"
                   /\ Len(backups') - g <= littered' + Writing'
      <4>1. g \in 1..(n - 1)
        BY <1>1, <2>1, <3>4
      <4> QED BY <1>1, <2>1, <2>2, <3>1, <3>3, <3>4, <4>1
    <3>5. KeptInv'
      BY <1>2, <3>3, <3>4 DEF KeptInv
    <3> QED BY <3>2, <3>5
  <2>5. CASE Failed /\ littered' = littered + 1 /\ UNCHANGED <<backups, kept>>
    <3>1. FilesInv'
      BY <1>1, <2>2, <2>5 DEF FilesInv
    <3>2. ASSUME NEW g \in 1..n, backups[g] = "good", n - g <= littered + Writing
          PROVE  g \in 1..Len(backups') /\ backups'[g] = "good"
                   /\ Len(backups') - g <= littered' + Writing'
      BY <1>1, <2>1, <2>2, <2>5, <3>2
    <3>3. littered' < MaxGenerations => littered < MaxGenerations
      BY <1>1, <2>5
    <3>4. KeptInv'
      BY <1>2, <2>5, <3>2, <3>3 DEF KeptInv
    <3> QED BY <3>1, <3>4
  <2> QED BY <1>5, <2>3, <2>4, <2>5 DEF Verify
<1>6. CASE Prune
  <2>1. /\ job = "prune" /\ job' \notin {"vacuum", "verify"} /\ UNCHANGED <<littered, kept>>
        /\ backups' = PrunedFiles(backups) \/ backups' = backups
    BY <1>6 DEF Prune, Failed, backupGhosts
  <2>2. CASE backups' = backups
    BY <2>1, <2>2, QuietStep
  <2>3. CASE backups' = PrunedFiles(backups)
    <3>1. Writing = 0 /\ Writing' = 0
      BY <2>1 DEF Writing
    <3>2. backups' \in Seq(Files)
      BY <1>1, <2>3, PrunedProperties
    <3>3. FilesInv'
      BY <2>1, <3>2 DEF FilesInv
    <3>4. ASSUME kept', littered' < MaxGenerations
          PROVE  \E g \in 1..Len(backups') :
                     backups'[g] = "good" /\ Len(backups') - g <= littered' + Writing'
      <4>1. PICK g \in 1..n : backups[g] = "good" /\ n - g <= littered + Writing
        BY <1>2, <2>1, <3>4
      <4>2. n - g < MaxGenerations
        BY <1>1, <2>1, <3>1, <3>4, <4>1
      <4>3. PICK h \in 1..Len(backups') : backups'[h] = backups[g] /\ Len(backups') - h = n - g
        BY <1>1, <2>3, <4>2, PrunedProperties
      <4> QED BY <2>1, <3>1, <4>1, <4>3
    <3> QED BY <3>3, <3>4 DEF KeptInv
  <2> QED BY <2>1, <2>2, <2>3
<1>7. CASE Die
  <2>1. /\ job' = "none" /\ UNCHANGED <<backups, kept>>
        /\ littered' = IF job \in {"vacuum", "verify"} THEN littered + 1 ELSE littered
    BY <1>7 DEF Die
  <2>2. Writing' = 0 /\ littered' = littered + Writing /\ Writing \in {0, 1}
    BY <1>1, <2>1 DEF Writing
  <2>3. FilesInv'
    BY <1>1, <2>1 DEF FilesInv
  <2>4. ASSUME NEW g \in 1..n, backups[g] = "good", n - g <= littered + Writing
        PROVE  g \in 1..Len(backups') /\ backups'[g] = "good"
                 /\ Len(backups') - g <= littered' + Writing'
    BY <1>1, <2>1, <2>2, <2>4
  <2>5. littered' < MaxGenerations => littered < MaxGenerations
    BY <1>1, <2>2
  <2>6. KeptInv'
    BY <1>2, <2>1, <2>4, <2>5 DEF KeptInv
  <2> QED BY <2>3, <2>6
<1>8. CASE Record
  BY <1>8, QuietStep DEF Record, Failed, backupGhosts
<1>9. CASE Begin \/ RunDue
  BY <1>9, QuietStep DEF Begin, RunDue, LoopInv, backupGhosts
<1>10. CASE ComputeNext \/ ConfigChanged \/ Halt \/ NextDay
  BY <1>10, QuietStep DEF ComputeNext, ConfigChanged, Halt, NextDay, LoopInv, backupGhosts
<1> QED
  BY <1>3, <1>4, <1>5, <1>6, <1>7, <1>8, <1>9, <1>10 DEF BackupsNext

(* Restarts, failures and crashes cost neither the last verified backup,     *)
(* while fewer files than max_generations were left unverified, nor the next *)
(* periodic one: what run_startup_backup, the scheduler's loop and           *)
(* prune_old_backups keep up, for any number of generations and any          *)
(* interval.                                                                 *)
THEOREM BackupsAreKept == BackupsSpec => []BackupsKept
<1>1. BackupsInit => BackupsInv
  <2> SUFFICES ASSUME BackupsInit
               PROVE  BackupsInv
    OBVIOUS
  <2> USE DEF BackupsInit
  <2>1. kept \in BOOLEAN
    BY Zenon
  <2>2. LoopInv
    BY <2>1, BackupsAssumption DEF LoopInv
  <2>3. FilesInv
    BY DEF FilesInv
  <2>4. KeptInv
    BY Zenon DEF KeptInv
  <2>5. NotPutOff
    BY DEF NotPutOff
  <2> QED BY <2>2, <2>3, <2>4, <2>5 DEF BackupsInv
<1>2. BackupsInv /\ [BackupsNext]_backupVars => BackupsInv'
  <2>1. BackupsInv /\ BackupsNext => BackupsInv'
    BY LoopStep, FilesStep, PutOffStep DEF BackupsInv
  <2>2. BackupsInv /\ UNCHANGED backupVars => BackupsInv'
    <3> SUFFICES ASSUME BackupsInv, UNCHANGED backupVars
                 PROVE  BackupsInv'
      OBVIOUS
    <3> USE DEF BackupsInv, backupVars, backupGhosts
    <3>1. LoopInv'
      BY DEF LoopInv
    <3>2. FilesInv'
      BY DEF FilesInv
    <3>3. Writing' = Writing
      BY DEF Writing
    <3>4. KeptInv'
      BY <3>3 DEF KeptInv
    <3>5. NotPutOff'
      BY DEF NotPutOff
    <3> QED BY <3>1, <3>2, <3>4, <3>5
  <2> QED BY <2>1, <2>2
<1>3. BackupsInv => BackupsKept
  <2> SUFFICES ASSUME BackupsInv
               PROVE  BackupsKept
    OBVIOUS
  <2>1. \A i \in 1..Len(backups) : backups[i] \in {"partial", "raw", "good"}
    BY ElementOfSeq DEF BackupsInv, FilesInv
  <2>2. BackupsTypeOK
    BY <2>1 DEF BackupsInv, LoopInv, BackupsTypeOK
  <2>3. AVerifiedBackupIsKept
    <3>1. DOMAIN backups = 1..Len(backups)
      BY LenProperties DEF BackupsInv, FilesInv
    <3> QED BY <3>1 DEF BackupsInv, KeptInv, AVerifiedBackupIsKept, Holds
  <2> QED BY <2>2, <2>3 DEF BackupsInv, BackupsKept
<1> QED
  BY <1>1, <1>2, <1>3, PTL DEF BackupsSpec

-----------------------------------------------------------------------------
(* The numbers of the messages.                                             *)

LEMMA StoredType ==
    ASSUME UpgradeTypes
    PROVE  /\ Len(arrived) \in Nat /\ Stored \subseteq MessageIds
           /\ IsFiniteSet(Stored) /\ Cardinality(Stored) \in Nat
           /\ Cardinality(Stored) <= Cardinality(MessageIds)
           /\ IsFiniteSet(Rows) /\ Cardinality(Rows) \in Nat
           /\ Cardinality(Rows) <= Cardinality(MessageIds)
           /\ IsFiniteSet(MessageIds) /\ Cardinality(MessageIds) \in Nat
<1>1. Len(arrived) \in Nat /\ Stored \subseteq MessageIds
  BY LenProperties, ElementOfSeq DEF UpgradeTypes, Stored
<1>2. Rows \subseteq MessageIds
  BY DEF Rows
<1>3. IsFiniteSet(MessageIds)
  BY UpgradeAssumption
<1> QED BY <1>1, <1>2, <1>3, FS_Subset, FS_CardinalityType

(* A row that is added is one more. *)
LEMMA StoredGrows ==
    ASSUME UpgradeTypes, NEW m \in MessageIds, arrived' = Append(arrived, m)
    PROVE  /\ arrived' \in Seq(MessageIds) /\ Len(arrived') = Len(arrived) + 1
           /\ Stored' = Stored \cup {m}
<1> DEFINE n == Len(arrived)
<1>1. /\ n \in Nat /\ arrived' \in Seq(MessageIds) /\ Len(arrived') = n + 1
      /\ \A i \in 1..n : arrived'[i] = arrived[i]
      /\ arrived'[n + 1] = m
  BY AppendProperties, LenProperties DEF UpgradeTypes
<1> HIDE DEF n
<1>2. 1..(n + 1) = 1..n \cup {n + 1}
  BY <1>1
<1>3. Stored' = {arrived'[i] : i \in 1..(n + 1)}
  BY <1>1 DEF Stored
<1>4. Stored = {arrived[i] : i \in 1..n}
  BY DEF Stored, n
<1>5. Stored' = Stored \cup {m}
  BY <1>1, <1>2, <1>3, <1>4
<1> QED BY <1>1, <1>5 DEF n

(* A row that is numbered is one more. *)
LEMMA RowsGrow ==
    ASSUME UpgradeTypes, NumberInv, NEW m \in MessageIds, seq[m] = 0,
           seq' = [seq EXCEPT ![m] = nextSeq], nextSeq' = nextSeq + 1
    PROVE  /\ Rows' = Rows \cup {m}
           /\ nextSeq' <= Cardinality(Rows') + 1
           /\ \A x \in MessageIds : seq'[x] < nextSeq'
           /\ seq' \in [MessageIds -> Nat] /\ nextSeq' \in Nat \ {0}
           /\ \A x \in MessageIds : seq[x] # 0 => seq'[x] = seq[x]
<1>1. /\ nextSeq \in Nat \ {0} /\ seq \in [MessageIds -> Nat] /\ nextSeq <= Cardinality(Rows) + 1
      /\ \A x \in MessageIds : seq[x] < nextSeq
  BY DEF UpgradeTypes, NumberInv
<1>2. /\ seq' \in [MessageIds -> Nat] /\ nextSeq' \in Nat \ {0}
      /\ \A x \in MessageIds : seq'[x] = IF x = m THEN nextSeq ELSE seq[x]
  BY <1>1
<1>3. Rows' = Rows \cup {m} /\ m \notin Rows
  BY <1>1, <1>2 DEF Rows
<1>4. Cardinality(Rows') = Cardinality(Rows) + 1 /\ Cardinality(Rows) \in Nat
  BY <1>3, StoredType, FS_AddElement
<1>5. \A x \in MessageIds : seq'[x] < nextSeq'
  BY <1>1, <1>2
<1>6. nextSeq' <= Cardinality(Rows') + 1
  BY <1>1, <1>4
<1>7. \A x \in MessageIds : seq[x] # 0 => seq'[x] = seq[x]
  BY <1>2
<1> QED BY <1>2, <1>3, <1>5, <1>6, <1>7

(* The numbers of the twelfth migration: every row of the chat has one, and  *)
(* none is above the number of rows.                                         *)
LEMMA RenumberedType ==
    ASSUME UpgradeTypes, NumberInv
    PROVE  /\ Renumbered \in [MessageIds -> Nat]
           /\ \A m \in MessageIds : Renumbered[m] <= Cardinality(Stored)
           /\ \A m \in MessageIds : Renumbered[m] # 0 <=> m \in Stored
           /\ \A m \in MessageIds : seq[m] # 0 => Renumbered[m] = seq[m]
<1> DEFINE n == Len(arrived)
<1>1. n \in Nat /\ n = Cardinality(Stored) /\ seq \in [MessageIds -> Nat] /\ nextSeq \in Nat
  BY StoredType DEF NumberInv, UpgradeTypes
<1>2. \A m \in Stored : Rank(m) \in 1..n
  BY DEF Stored, Rank
<1>3. \A m \in MessageIds : seq[m] # 0 => m \in Stored
  BY DEF NumberInv, Rows
<1>4. \A m \in MessageIds : seq[m] <= n
  <2>1. Cardinality(Rows) \in Nat /\ Cardinality(Rows) <= Cardinality(Stored)
    BY StoredType, FS_Subset DEF NumberInv
  <2>2. nextSeq <= n + 1
    BY <1>1, <2>1 DEF NumberInv
  <2> QED BY <1>1, <2>2 DEF NumberInv
<1> HIDE DEF n
<1>5. ASSUME NEW m \in MessageIds
      PROVE  /\ Renumbered[m] \in Nat /\ Renumbered[m] <= n
             /\ Renumbered[m] # 0 <=> m \in Stored
             /\ seq[m] # 0 => Renumbered[m] = seq[m]
  <2>1. Renumbered[m] = IF m \in Stored /\ seq[m] = 0 THEN Rank(m) ELSE seq[m]
    BY DEF Renumbered, IsPending
  <2>2. CASE m \in Stored /\ seq[m] = 0
    <3>1. Renumbered[m] = Rank(m) /\ Rank(m) \in 1..n
      BY <1>2, <2>1, <2>2
    <3> QED BY <1>1, <2>2, <3>1
  <2>3. CASE ~(m \in Stored /\ seq[m] = 0)
    <3>1. Renumbered[m] = seq[m]
      BY <2>1, <2>3
    <3> QED BY <1>1, <1>3, <1>4, <2>3, <3>1
  <2> QED BY <2>2, <2>3
<1>6. Renumbered = [m \in MessageIds |-> Renumbered[m]]
  BY DEF Renumbered
<1>7. Renumbered \in [MessageIds -> Nat]
  BY <1>5, <1>6
<1> QED BY <1>1, <1>5, <1>7

(* MAX(seq) + 1 exists, and is at most one above the number of rows. *)
LEMMA AfterLastType ==
    ASSUME NEW s \in [MessageIds -> Nat], NEW k \in Nat, k <= Cardinality(MessageIds),
           \A m \in MessageIds : s[m] <= k
    PROVE  /\ AfterLast(s) \in Nat \ {0} /\ AfterLast(s) <= k + 1
           /\ \A m \in MessageIds : s[m] < AfterLast(s)
<1> DEFINE N == Cardinality(MessageIds) + 1
           Is(n) == /\ \A m \in MessageIds : s[m] < n
                    /\ n = 1 \/ \E m \in MessageIds : s[m] = n - 1
           T == {n \in 1..(k + 1) : \A m \in MessageIds : s[m] < n}
<1>1. N \in Nat /\ k + 1 <= N
  BY UpgradeAssumption, FS_CardinalityType
<1>2. T \in SUBSET Nat /\ k + 1 \in T
  OBVIOUS
<1>3. PICK x \in T : \A y \in T : x <= y
  <2> HIDE DEF T
  <2> QED BY <1>2, NatMin
<1>4. x \in Nat /\ x \in 1..(k + 1) /\ \A m \in MessageIds : s[m] < x
  OBVIOUS
<1>5. x = 1 \/ \E m \in MessageIds : s[m] = x - 1
  <2> SUFFICES ASSUME x # 1
               PROVE  \E m \in MessageIds : s[m] = x - 1
    OBVIOUS
  <2>1. x - 1 \in 1..(k + 1) /\ x - 1 \notin T
    <3>1. x - 1 \in 1..(k + 1)
      BY <1>4
    <3>2. ~(x <= x - 1)
      BY <1>4
    <3> HIDE DEF T
    <3> QED BY <1>3, <3>1, <3>2
  <2>2. PICK m \in MessageIds : ~(s[m] < x - 1)
    BY <2>1
  <2> QED BY <1>4, <2>2
<1> HIDE DEF N
<1>6. x \in 1..N /\ Is(x)
  BY <1>1, <1>4, <1>5
<1>7. AfterLast(s) = CHOOSE n \in 1..N : Is(n)
  BY DEF AfterLast, N
<1> HIDE DEF Is
<1>8. AfterLast(s) \in 1..N /\ Is(AfterLast(s))
  BY <1>6, <1>7
<1>9. AfterLast(s) <= k + 1
  BY <1>1, <1>8 DEF Is
<1> QED BY <1>1, <1>8, <1>9 DEF Is

-----------------------------------------------------------------------------
(* The upgrades.                                                            *)

(* What a step does to the numbers: nothing, or one of the four that write   *)
(* them.                                                                     *)
LEMMA NumberStep ==
    ASSUME UpgradeTypes, NumberInv, UpgradeNext
    PROVE  /\ NumberInv'
           /\ arrived' \in Seq(MessageIds) /\ seq' \in [MessageIds -> Nat]
           /\ nextSeq' \in Nat \ {0}
           /\ \A x \in MessageIds : seq[x] # 0 => seq'[x] = seq[x]
<1> DEFINE Goal ==
               /\ NumberInv'
               /\ arrived' \in Seq(MessageIds) /\ seq' \in [MessageIds -> Nat]
               /\ nextSeq' \in Nat \ {0}
               /\ \A x \in MessageIds : seq[x] # 0 => seq'[x] = seq[x]
<1> SUFFICES Goal
  OBVIOUS
<1>1. CASE UNCHANGED <<arrived, seq, nextSeq>>
  <2>1. Stored' = Stored /\ Rows' = Rows
    BY <1>1 DEF Stored, Rows
  <2> QED BY <1>1, <2>1 DEF NumberInv, UpgradeTypes
<1>2. ASSUME NEW m \in MessageIds, Commit(m)
      PROVE  Goal
  <2>1. m \notin Stored /\ arrived' = Append(arrived, m) /\ seq' = [seq EXCEPT ![m] = nextSeq]
          /\ nextSeq' = nextSeq + 1
    BY <1>2 DEF Commit
  <2>2. seq[m] = 0
    BY <2>1 DEF NumberInv, Rows
  <2>3. /\ arrived' \in Seq(MessageIds) /\ Len(arrived') = Len(arrived) + 1
        /\ Stored' = Stored \cup {m}
    BY <2>1, StoredGrows
  <2>4. Cardinality(Stored') = Cardinality(Stored) + 1
    BY <2>1, <2>3, StoredType, FS_AddElement
  <2>5. /\ Rows' = Rows \cup {m}
        /\ nextSeq' <= Cardinality(Rows') + 1
        /\ \A x \in MessageIds : seq'[x] < nextSeq'
        /\ seq' \in [MessageIds -> Nat] /\ nextSeq' \in Nat \ {0}
        /\ \A x \in MessageIds : seq[x] # 0 => seq'[x] = seq[x]
    BY <2>1, <2>2, RowsGrow
  <2> QED BY <2>3, <2>4, <2>5 DEF NumberInv
<1>3. ASSUME NEW m \in MessageIds, Stage(m)
      PROVE  Goal
  <2>1. m \notin Stored /\ arrived' = Append(arrived, m) /\ UNCHANGED <<seq, nextSeq>>
    BY <1>3 DEF Stage
  <2>2. /\ arrived' \in Seq(MessageIds) /\ Len(arrived') = Len(arrived) + 1
        /\ Stored' = Stored \cup {m}
    BY <2>1, StoredGrows
  <2>3. Cardinality(Stored') = Cardinality(Stored) + 1
    BY <2>1, <2>2, StoredType, FS_AddElement
  <2>4. Rows' = Rows
    BY <2>1 DEF Rows
  <2> QED BY <2>1, <2>2, <2>3, <2>4 DEF NumberInv, UpgradeTypes
<1>4. ASSUME NEW m \in MessageIds, CommitStaged(m)
      PROVE  Goal
  <2>1. m \in Stored /\ seq[m] = 0 /\ arrived' = arrived /\ seq' = [seq EXCEPT ![m] = nextSeq]
          /\ nextSeq' = nextSeq + 1
    BY <1>4 DEF CommitStaged, IsPending
  <2>2. Stored' = Stored
    BY <2>1 DEF Stored
  <2>3. /\ Rows' = Rows \cup {m}
        /\ nextSeq' <= Cardinality(Rows') + 1
        /\ \A x \in MessageIds : seq'[x] < nextSeq'
        /\ seq' \in [MessageIds -> Nat] /\ nextSeq' \in Nat \ {0}
        /\ \A x \in MessageIds : seq[x] # 0 => seq'[x] = seq[x]
    BY <2>1, RowsGrow
  <2> QED BY <2>1, <2>2, <2>3 DEF NumberInv, UpgradeTypes
<1>5. CASE arrived' = arrived /\ seq' = Renumbered /\ nextSeq' = AfterLast(Renumbered)
  <2> DEFINE k == Cardinality(Stored)
  <2>1. k \in Nat /\ k <= Cardinality(MessageIds) /\ Stored \subseteq MessageIds
    BY StoredType
  <2>2. /\ seq' \in [MessageIds -> Nat]
        /\ \A m \in MessageIds : seq'[m] <= k
        /\ \A m \in MessageIds : seq'[m] # 0 <=> m \in Stored
        /\ \A m \in MessageIds : seq[m] # 0 => seq'[m] = seq[m]
    BY <1>5, RenumberedType
  <2>3. nextSeq' = AfterLast(seq')
    BY <1>5
  <2> HIDE DEF k
  <2>4. /\ nextSeq' \in Nat \ {0} /\ nextSeq' <= k + 1
        /\ \A m \in MessageIds : seq'[m] < nextSeq'
    BY <2>1, <2>2, <2>3, AfterLastType
  <2>5. Stored' = Stored
    BY <1>5 DEF Stored
  <2>6. Rows' = Stored
    BY <2>1, <2>2 DEF Rows
  <2> QED BY <1>5, <2>2, <2>4, <2>5, <2>6 DEF NumberInv, UpgradeTypes, k
<1>6. CASE MigrateNumbered
  BY <1>1, <1>5, <1>6 DEF MigrateNumbered
<1>7. CASE Boot \/ Stop \/ CrashInStart
  BY <1>1, <1>6, <1>7
     DEF Boot, Stop, CrashInStart, StartProcess, StartupBackup, Refuse, MigrateBase, SetBase,
         MigrateLoose, SetLoose, Migrate, Serve, upgradeData
<1>8. ASSUME NEW r \in Releases, Install(r)
      PROVE  Goal
  BY <1>1, <1>8 DEF Install, upgradeData
<1> QED BY <1>2, <1>3, <1>4, <1>7, <1>8 DEF UpgradeNext

(* The backup of a start, on the files. *)
LEMMA SavesStep ==
    ASSUME UpgradeTypes, UpgradeNext
    PROVE  saves' \in Seq(Contents) /\ Len(saves') <= MaxGenerations + mishaps'
             /\ mishaps' \in 0..MaxMishaps
<1>1. /\ saves \in Seq(Contents) /\ Len(saves) \in Nat /\ Len(saves) <= MaxGenerations + mishaps
      /\ mishaps \in Nat /\ mishaps \in 0..MaxMishaps /\ MaxGenerations \in Nat /\ MaxMishaps \in Nat
  BY LenProperties, GenerationsAssumption, UpgradeAssumption DEF UpgradeTypes
<1>2. "partial" \in Contents /\ "earlier" \in Contents /\ Snapshot \in Contents
  BY DEF Contents, Snapshot
<1>3. CASE saves' = saves /\ (mishaps' = mishaps \/ Mishap)
  BY <1>1, <1>3 DEF Mishap
<1>4. CASE StartupBackup
  <2>1. /\ Created(saves) \in Seq(Contents) /\ Len(Created(saves)) = Len(saves) + 1
    BY <1>1, <1>2, CreatedProperties
  <2>2. CASE saves' = PrunedFiles(Filled(Created(saves), Snapshot)) /\ UNCHANGED mishaps
    <3>1. Filled(Created(saves), Snapshot) \in Seq(Contents)
      BY <1>1, <1>2, <2>1, FilledProperties
    <3>2. saves' \in Seq(Contents) /\ Len(saves') \in Nat /\ Len(saves') <= MaxGenerations
      BY <2>2, <3>1, PrunedProperties
    <3> QED BY <1>1, <2>2, <3>2
  <2>3. CASE Mishap /\ saves' = PrunedFiles(saves)
    <3>1. saves' \in Seq(Contents) /\ Len(saves') \in Nat /\ Len(saves') <= MaxGenerations
      BY <1>1, <2>3, PrunedProperties
    <3> QED BY <1>1, <2>3, <3>1 DEF Mishap
  <2>4. CASE Mishap /\ saves' = Created(saves)
    BY <1>1, <2>1, <2>4 DEF Mishap
  <2> QED BY <1>3, <1>4, <2>2, <2>3, <2>4 DEF StartupBackup
<1>5. CASE Serve
  <2> DEFINE n == Len(saves)
  <2>1. /\ saves' = [i \in 1..n |-> IF saves[i] = "partial" THEN "partial" ELSE "earlier"]
        /\ mishaps' = mishaps
    BY <1>5 DEF Serve
  <2> HIDE DEF n
  <2>2. n \in Nat
    BY <1>1 DEF n
  <2>3. saves' \in [1..n -> Contents]
    BY <1>2, <2>1
  <2>4. saves' \in Seq(Contents) /\ Len(saves') = n
    BY <2>2, <2>3
  <2> QED BY <1>1, <2>1, <2>4 DEF n
<1>6. CASE Boot \/ Stop \/ CrashInStart
  BY <1>3, <1>4, <1>5, <1>6
     DEF Boot, Stop, CrashInStart, StartProcess, Refuse, MigrateBase, SetBase, MigrateLoose,
         SetLoose, Migrate, MigrateNumbered
<1>7. ASSUME NEW r \in Releases, Install(r)
      PROVE  saves' = saves /\ mishaps' = mishaps
  BY <1>7 DEF Install
<1>8. ASSUME NEW m \in MessageIds, Commit(m) \/ Stage(m) \/ CommitStaged(m)
      PROVE  saves' = saves /\ mishaps' = mishaps
  BY <1>8 DEF Commit, Stage, CommitStaged
<1> QED BY <1>3, <1>6, <1>7, <1>8 DEF UpgradeNext

LEMMA TypesStep ==
    ASSUME UpgradeTypes, NumberInv, UpgradeNext
    PROVE  UpgradeTypes'
<1> DEFINE Rest ==
        /\ release \in Releases /\ schema \in Nat /\ highest \in Nat /\ begun \in Nat
        /\ layout \in SUBSET (Nat \ {0})
        /\ boot \in {"down", "backup", "open", "base", "migrate", "half", "up"}
        /\ boots \in 0..MaxGenerations /\ swaps \in 0..MaxSwaps
<1>1. Rest /\ \A r \in Releases : r \in Nat
  BY UpgradeAssumption DEF UpgradeTypes
<1>2. Rest'
  <2> USE <1>1 DEF upgradeGhosts
  <2>1. CASE StartProcess
    <3>1. boots' \in 0..MaxGenerations
      BY <2>1, GenerationsAssumption DEF StartProcess
    <3> QED BY <2>1, <3>1 DEF StartProcess
  <2>2. CASE StartupBackup    BY <2>2 DEF StartupBackup
  <2>3. CASE Refuse           BY <2>3 DEF Refuse
  <2>4. CASE MigrateBase      BY <2>4 DEF MigrateBase, Touched
  <2>5. CASE SetBase          BY <2>5 DEF SetBase
  <2>6. CASE MigrateLoose     BY <2>6 DEF MigrateLoose
  <2>7. CASE SetLoose         BY <2>7 DEF SetLoose
  <2>8. CASE Migrate          BY <2>8 DEF Migrate
  <2>9. CASE MigrateNumbered
    <3>1. /\ schema' \in {schema, Numbered} /\ layout' \in {layout, layout \cup {Numbered}}
          /\ boot' \in {boot, "down"} /\ UNCHANGED <<release, highest, begun, boots, swaps>>
      BY <2>9 DEF MigrateNumbered
    <3>2. Numbered \in Nat \ {0}
      BY DEF Numbered
    <3> QED BY <3>1, <3>2
  <2>10. CASE Serve           BY <2>10, GenerationsAssumption DEF Serve
  <2>11. CASE Stop            BY <2>11 DEF Stop
  <2>12. CASE CrashInStart    BY <2>12 DEF CrashInStart
  <2>13. ASSUME NEW r \in Releases, Install(r)
         PROVE  Rest'
    BY <2>13, UpgradeAssumption DEF Install
  <2>14. ASSUME NEW m \in MessageIds, Commit(m) \/ Stage(m) \/ CommitStaged(m)
         PROVE  Rest'
    BY <2>14 DEF Commit, Stage, CommitStaged
  <2> QED
    BY <2>1, <2>2, <2>3, <2>4, <2>5, <2>6, <2>7, <2>8, <2>9, <2>10, <2>11, <2>12, <2>13, <2>14
       DEF UpgradeNext, Boot
<1> HIDE DEF Rest
<1>3. unsaved' \in BOOLEAN /\ fooled' \in BOOLEAN
  <2>1. unsaved \in BOOLEAN /\ fooled \in BOOLEAN
    BY DEF UpgradeTypes
  <2>2. Boot \/ Stop \/ CrashInStart => unsaved' \in BOOLEAN
    BY <2>1, Zenon
       DEF Boot, Stop, CrashInStart, StartProcess, StartupBackup, Refuse, MigrateBase, SetBase,
           MigrateLoose, SetLoose, Migrate, MigrateNumbered, Serve, Touched, upgradeGhosts
  <2>3. Boot \/ Stop \/ CrashInStart => fooled' \in BOOLEAN
    <3>1. SetBase => fooled' \in BOOLEAN
      BY SMT DEF SetBase
    <3>2. Serve => fooled' \in BOOLEAN
      BY SMT DEF Serve
    <3> QED
      BY <2>1, <3>1, <3>2, Zenon
         DEF Boot, Stop, CrashInStart, StartProcess, StartupBackup, Refuse, MigrateBase,
             MigrateLoose, SetLoose, Migrate, MigrateNumbered, Touched, upgradeGhosts
  <2>4. ASSUME NEW r \in Releases, Install(r)
        PROVE  UNCHANGED <<unsaved, fooled>>
    BY <2>4 DEF Install, upgradeGhosts
  <2>5. ASSUME NEW m \in MessageIds, Commit(m) \/ Stage(m) \/ CommitStaged(m)
        PROVE  UNCHANGED <<unsaved, fooled>>
    BY <2>5 DEF Commit, Stage, CommitStaged, upgradeGhosts
  <2> QED BY <2>1, <2>2, <2>3, <2>4, <2>5 DEF UpgradeNext
<1> QED BY <1>2, <1>3, NumberStep, SavesStep DEF UpgradeTypes, Rest

(* A step at whose end the version and the layout are what they were. *)
LEMMA SameVersion ==
    ASSUME VersionInv, UNCHANGED <<schema, layout, highest, fooled>>,
           boot' \in {"down", "backup", "open"} \/ UNCHANGED <<boot, release>>
    PROVE  VersionInv'
BY DEF VersionInv

(* A migration adds its tables and columns no later than its number. *)
LEMMA VersionStep ==
    ASSUME UpgradeTypes, VersionInv, UpgradeNext
    PROVE  VersionInv'
<1>1. /\ release \in Nat /\ release > 12 /\ release \in Releases
      /\ schema \in Nat /\ highest \in Nat /\ layout \subseteq Nat \ {0}
  BY UpgradeAssumption DEF UpgradeTypes
<1>2. CASE StartProcess
  BY <1>2, SameVersion DEF StartProcess
<1>3. CASE StartupBackup
  BY <1>3, SameVersion DEF StartupBackup
<1>4. CASE Refuse
  BY <1>4, SameVersion DEF Refuse, upgradeGhosts
<1>5. CASE MigrateBase
  <2>1. /\ boot' = "base" /\ layout' = layout \cup {1} /\ schema < release
        /\ UNCHANGED <<release, schema, highest, fooled>>
    BY <1>5 DEF MigrateBase, Touched
  <2>2. \A n \in layout' : \E r \in Releases : n <= r
    BY <1>1, <2>1 DEF VersionInv
  <2> QED BY <2>1, <2>2 DEF VersionInv
<1>6. CASE SetBase
  <2>1. /\ boot = "base" /\ boot' = "migrate" /\ schema' = 1 /\ (fooled' <=> highest > 1)
        /\ UNCHANGED <<release, layout, highest>>
    BY <1>6 DEF SetBase
  <2>2. 1..1 \subseteq layout' /\ schema' <= release'
    BY <1>1, <2>1 DEF VersionInv
  <2>3. ~fooled' => highest' <= schema'
    BY <1>1, <2>1
  <2> QED BY <2>1, <2>2, <2>3 DEF VersionInv
<1>7. CASE MigrateLoose
  <2>1. /\ boot' = "half" /\ layout' = layout \cup {schema + 1} /\ schema < release
        /\ UNCHANGED <<release, schema, highest, fooled>>
    BY <1>7 DEF MigrateLoose, upgradeGhosts
  <2>2. \A n \in layout' : \E r \in Releases : n <= r
    BY <1>1, <2>1 DEF VersionInv
  <2> QED BY <2>1, <2>2 DEF VersionInv
<1>8. ASSUME boot' = "migrate", schema < release, schema' = schema + 1,
             layout' = layout \cup {schema + 1}, UNCHANGED <<release, highest, fooled>>
      PROVE  VersionInv'
  <2>1. \A n \in layout' : \E r \in Releases : n <= r
    BY <1>1, <1>8 DEF VersionInv
  <2>2. 1..schema' \subseteq layout'
    BY <1>1, <1>8 DEF VersionInv
  <2>3. schema' <= release' /\ (~fooled' => highest' <= schema')
    BY <1>1, <1>8 DEF VersionInv
  <2> QED BY <1>8, <2>1, <2>2, <2>3 DEF VersionInv
<1>9. CASE SetLoose
  <2>1. /\ boot = "half" /\ boot' = "migrate" /\ schema' = schema + 1
        /\ UNCHANGED <<release, layout, highest, fooled>>
    BY <1>9 DEF SetLoose, upgradeGhosts
  <2>2. schema < release /\ layout = layout \cup {schema + 1}
    BY <2>1 DEF VersionInv
  <2> QED BY <1>8, <2>1, <2>2
<1>10. CASE Migrate
  BY <1>8, <1>10 DEF Migrate, upgradeGhosts
<1>11. CASE MigrateNumbered
  <2>1. CASE Collides
    BY <1>11, <2>1, SameVersion DEF MigrateNumbered, upgradeGhosts
  <2>2. CASE ~Collides
    BY <1>8, <1>11, <2>2 DEF MigrateNumbered, upgradeGhosts
  <2> QED BY <2>1, <2>2
<1>12. CASE Serve
  <2>1. /\ schema = release /\ boot' = "up" /\ UNCHANGED <<release, schema, layout>>
        /\ highest' = IF release > highest THEN release ELSE highest
    BY <1>1, <1>12 DEF Serve, Open, VersionInv
  <2>2. fooled' <=> fooled /\ release < highest
    BY <1>12 DEF Serve
  <2>3. ~fooled' => highest <= release
    <3>1. CASE ~fooled
      BY <2>1, <3>1 DEF VersionInv
    <3>2. CASE ~(release < highest)
      BY <1>1, <3>2
    <3> QED BY <2>2, <3>1, <3>2
  <2>4. ~fooled' => highest' <= release' /\ highest' <= schema'
    BY <1>1, <2>1, <2>3
  <2> QED BY <2>1, <2>4 DEF VersionInv
<1>13. CASE Stop
  BY <1>13, SameVersion DEF Stop, upgradeGhosts
<1>14. CASE CrashInStart
  BY <1>14, SameVersion DEF CrashInStart, upgradeGhosts
<1>15. ASSUME NEW r \in Releases, Install(r)
       PROVE  VersionInv'
  BY <1>15, SameVersion DEF Install, upgradeGhosts
<1>16. ASSUME NEW m \in MessageIds, Commit(m) \/ Stage(m) \/ CommitStaged(m)
       PROVE  VersionInv'
  BY <1>16, SameVersion DEF Commit, Stage, CommitStaged, upgradeGhosts
<1> QED
  BY <1>2, <1>3, <1>4, <1>5, <1>6, <1>7, <1>9, <1>10, <1>11, <1>12, <1>13, <1>14, <1>15, <1>16
     DEF UpgradeNext, Boot

-----------------------------------------------------------------------------
(* The snapshot from before the upgrade.                                    *)

(* A step that leaves the files alone and is not a backup. *)
LEMMA SameSaves ==
    ASSUME RestoreInv, UNCHANGED <<saves, begun, boots, unsaved, highest>>,
           layout \subseteq layout', boot # "backup",
           \/ boot' \in {"down", "up", "migrate", "half"}
           \/ boot' = boot,
           boot' \in {"half", "migrate"} => boot \in {"base", "half", "migrate"}
    PROVE  RestoreInv'
<1>1. highest' # 0 => layout' # {}
  BY DEF RestoreInv
<1>2. boot' \in {"base", "half", "migrate"} => begun' # 0
  BY DEF RestoreInv
<1>3. begun' = 0 /\ boot' \in {"backup", "open"} => boots' = 0
  BY DEF RestoreInv
<1>4. begun' = 0 /\ boot' = "open" /\ highest' # 0 /\ ~unsaved'
         => Len(saves') > 0 /\ saves'[Len(saves')] = "before"
  BY DEF RestoreInv
<1>5. begun' # 0 /\ boot' = "backup" => boots' > 0
  BY DEF RestoreInv
<1>6. begun' # 0 /\ highest' # 0 /\ ~unsaved' /\ boots' < MaxGenerations =>
         \E g \in 1..Len(saves') :
             /\ saves'[g] = "before"
             /\ Len(saves') - g <= IF boot' = "backup" THEN boots' - 1 ELSE boots'
  BY DEF RestoreInv
<1> QED BY <1>1, <1>2, <1>3, <1>4, <1>5, <1>6 DEF RestoreInv

LEMMA RestoreStep ==
    ASSUME UpgradeTypes, VersionInv, RestoreInv, UpgradeNext
    PROVE  RestoreInv'
<1>1. /\ saves \in Seq(Contents) /\ Len(saves) \in Nat /\ boots \in Nat /\ boots <= MaxGenerations
      /\ release \in Nat /\ release > 12 /\ highest \in Nat /\ begun \in Nat
      /\ MaxGenerations \in Nat /\ MaxGenerations > 0
  BY LenProperties, GenerationsAssumption, UpgradeAssumption DEF UpgradeTypes
<1>2. CASE StartProcess
  <2>1. /\ boot = "down" /\ boot' = (IF layout = {} THEN "open" ELSE "backup")
        /\ UNCHANGED <<layout, saves, begun, highest>>
    BY <1>2 DEF StartProcess
  <2>2. boots' = IF begun = 0 THEN 0 ELSE IF boots < MaxGenerations THEN boots + 1 ELSE boots
    BY <1>2 DEF StartProcess
  <2>3. begun # 0 => unsaved' = unsaved
    BY <1>2 DEF StartProcess
  <2>4. highest' # 0 => layout' # {} /\ boot' = "backup"
    BY <2>1 DEF RestoreInv
  <2>5. begun # 0 => boots' > 0
    BY <1>1, <2>2
  <2>6. ASSUME begun # 0, highest # 0, ~unsaved', boots' < MaxGenerations
        PROVE  \E g \in 1..Len(saves) : saves[g] = "before" /\ Len(saves) - g <= boots' - 1
    <3>1. boots' - 1 = boots /\ boots < MaxGenerations
      BY <1>1, <2>2, <2>6
    <3>2. ~unsaved /\ boot # "backup"
      BY <2>1, <2>3, <2>6
    <3> QED BY <2>6, <3>1, <3>2 DEF RestoreInv
  <2>7. boot' \notin {"base", "half", "migrate"}
    BY <2>1
  <2>8. begun = 0 => boots' = 0
    BY <2>2
  <2> QED BY <2>1, <2>4, <2>5, <2>6, <2>7, <2>8 DEF RestoreInv
<1>3. CASE StartupBackup
  <2>1. /\ boot = "backup" /\ UNCHANGED <<layout, begun, boots, highest>>
        /\ highest' # 0 => layout' # {}
        /\ begun' = 0 => boots' = 0
    BY <1>3 DEF StartupBackup, RestoreInv
  <2>2. /\ Created(saves) \in Seq(Contents) /\ Len(Created(saves)) = Len(saves) + 1
        /\ \A i \in 1..Len(saves) : Created(saves)[i] = saves[i]
    <3>1. "partial" \in Contents
      BY DEF Contents
    <3> QED BY <1>1, <3>1, CreatedProperties
  <2>3. ASSUME begun # 0, highest # 0, ~unsaved, boots < MaxGenerations
        PROVE  \E g \in 1..Len(saves) : saves[g] = "before" /\ Len(saves) - g <= boots - 1
    BY <2>1, <2>3 DEF RestoreInv
  <2>4. CASE saves' = PrunedFiles(Filled(Created(saves), Snapshot)) /\ boot' = "open"
               /\ UNCHANGED unsaved
    <3> DEFINE t == Filled(Created(saves), Snapshot)
               n == Len(saves)
    <3>1. Snapshot \in Contents
      BY DEF Snapshot, Contents
    <3>2. /\ t \in Seq(Contents) /\ Len(t) = n + 1 /\ t[n + 1] = Snapshot
          /\ \A i \in 1..n : t[i] = saves[i]
      <4> DEFINE f == Created(saves)
      <4>1. f \in Seq(Contents) /\ Len(f) = n + 1 /\ \A i \in 1..n : f[i] = saves[i]
        BY <2>2
      <4>2. Len(f) > 0 /\ Len(f) - 1 = n
        BY <1>1, <4>1
      <4> HIDE DEF f
      <4>3. /\ Filled(f, Snapshot) \in Seq(Contents) /\ Len(Filled(f, Snapshot)) = Len(f)
            /\ \A i \in 1..(Len(f) - 1) : Filled(f, Snapshot)[i] = f[i]
            /\ Filled(f, Snapshot)[Len(f)] = Snapshot
        BY <3>1, <4>1, <4>2, FilledProperties, ZenonT(60)
      <4> QED BY <4>1, <4>2, <4>3 DEF f
    <3>3. saves' = PrunedFiles(t)
      BY <2>4
    <3> HIDE DEF t
    <3>4. begun = 0 => Len(saves') > 0 /\ saves'[Len(saves')] = "before"
      <4>1. Len(t) > 0 /\ t[Len(t)] = Snapshot
        BY <1>1, <3>2
      <4>2. Len(saves') > 0 /\ saves'[Len(saves')] = Snapshot
        BY <3>2, <3>3, <4>1, PrunedProperties
      <4> QED BY <4>2 DEF Snapshot
    <3>5. ASSUME begun # 0, highest # 0, ~unsaved, boots < MaxGenerations
          PROVE  \E h \in 1..Len(saves') : saves'[h] = "before" /\ Len(saves') - h <= boots
      <4>1. PICK g \in 1..n : saves[g] = "before" /\ n - g <= boots - 1
        BY <2>3, <3>5
      <4>2. g \in 1..Len(t) /\ t[g] = "before" /\ Len(t) - g <= boots /\ Len(t) - g < MaxGenerations
        BY <1>1, <3>2, <3>5, <4>1
      <4>3. PICK h \in 1..Len(saves') : saves'[h] = t[g] /\ Len(saves') - h = Len(t) - g
        BY <3>2, <3>3, <4>2, PrunedProperties
      <4> QED BY <4>2, <4>3
    <3> QED BY <2>1, <2>4, <3>4, <3>5 DEF RestoreInv
  <2>5. CASE unsaved' /\ boot' = "open"
    BY <2>1, <2>5 DEF RestoreInv
  <2>6. CASE saves' \in {saves, Created(saves)} /\ boot' = "down" /\ UNCHANGED unsaved
    <3>1. ASSUME begun # 0, highest # 0, ~unsaved, boots < MaxGenerations
          PROVE  \E g \in 1..Len(saves') : saves'[g] = "before" /\ Len(saves') - g <= boots
      <4>1. PICK g \in 1..Len(saves) : saves[g] = "before" /\ Len(saves) - g <= boots - 1
        BY <2>3, <3>1
      <4>2. g \in 1..Len(saves') /\ saves'[g] = "before" /\ Len(saves') - g <= boots
        BY <1>1, <2>2, <2>6, <4>1
      <4> QED BY <4>2
    <3> QED BY <2>1, <2>6, <3>1 DEF RestoreInv
  <2> QED BY <1>3, <2>4, <2>5, <2>6 DEF StartupBackup
<1>4. CASE MigrateBase
  <2>1. /\ boot = "open" /\ boot' = "base" /\ layout' = layout \cup {1} /\ begun' = release
        /\ UNCHANGED <<boots, unsaved, highest, saves>>
    BY <1>4 DEF MigrateBase, Open, Touched
  <2>2. ASSUME highest # 0, ~unsaved, boots < MaxGenerations
        PROVE  \E g \in 1..Len(saves) : saves[g] = "before" /\ Len(saves) - g <= boots
    <3>1. CASE begun = 0
      <4>1. boots = 0 /\ Len(saves) > 0 /\ saves[Len(saves)] = "before"
        BY <2>1, <2>2, <3>1 DEF RestoreInv
      <4>2. Len(saves) \in 1..Len(saves) /\ Len(saves) - Len(saves) <= boots
        BY <1>1, <4>1
      <4> QED BY <4>1, <4>2
    <3>2. CASE begun # 0
      BY <2>1, <2>2, <3>2 DEF RestoreInv
    <3> QED BY <3>1, <3>2
  <2> QED BY <1>1, <2>1, <2>2 DEF RestoreInv
<1>5. CASE Serve
  <2>1. /\ boot' = "up" /\ begun' = 0 /\ layout' = layout /\ schema >= release
    BY <1>5 DEF Serve
  <2>2. layout # {}
    BY <1>1, <2>1 DEF VersionInv, UpgradeTypes
  <2> QED BY <2>1, <2>2 DEF RestoreInv
<1>6. CASE Refuse
  BY <1>6, SameSaves DEF Refuse, upgradeGhosts
<1>7. CASE SetBase
  BY <1>7, SameSaves DEF SetBase
<1>8. CASE MigrateLoose
  BY <1>8, SameSaves DEF MigrateLoose, upgradeGhosts
<1>9. CASE SetLoose
  BY <1>9, SameSaves DEF SetLoose, upgradeGhosts
<1>10. CASE Migrate
  BY <1>10, SameSaves DEF Migrate, upgradeGhosts
<1>11. CASE MigrateNumbered
  <2>1. /\ boot = "migrate" /\ boot' \in {"migrate", "down"} /\ layout \subseteq layout'
        /\ UNCHANGED <<saves, begun, boots, unsaved, highest>>
    BY <1>11 DEF MigrateNumbered, upgradeGhosts
  <2> QED BY <2>1, SameSaves
<1>12. CASE Stop
  BY <1>12, SameSaves DEF Stop, upgradeGhosts
<1>13. CASE CrashInStart
  BY <1>13, SameSaves DEF CrashInStart, upgradeGhosts
<1>14. ASSUME NEW r \in Releases, Install(r)
       PROVE  RestoreInv'
  BY <1>14, SameSaves DEF Install, upgradeGhosts
<1>15. ASSUME NEW m \in MessageIds, Commit(m) \/ Stage(m) \/ CommitStaged(m)
       PROVE  RestoreInv'
  BY <1>15, SameSaves DEF Commit, Stage, CommitStaged, upgradeGhosts
<1> QED
  BY <1>2, <1>3, <1>4, <1>5, <1>6, <1>7, <1>8, <1>9, <1>10, <1>11, <1>12, <1>13, <1>14, <1>15
     DEF UpgradeNext, Boot

-----------------------------------------------------------------------------
(* The messages of a database that an older release left behind.            *)
LEMMA UpgradeInitial ==
    ASSUME UpgradeInit
    PROVE  UpgradeInv
<1> DEFINE N == Cardinality(MessageIds)
<1>1. /\ release \in Releases /\ release \in Nat /\ release > 12 /\ N \in Nat
      /\ IsFiniteSet(MessageIds) /\ schema \in Nat /\ schema <= release
      /\ MaxGenerations \in Nat /\ MaxSwaps \in Nat /\ MaxMishaps \in Nat
  BY UpgradeAssumption, GenerationsAssumption, FS_CardinalityType DEF UpgradeInit
<1>2. /\ layout = 1..schema /\ seq = [m \in MessageIds |-> 0] /\ nextSeq = 1
      /\ boot = "down" /\ saves = <<>> /\ begun = 0 /\ boots = 0 /\ highest = schema
      /\ swaps = 0 /\ mishaps = 0
  BY DEF UpgradeInit
<1>3. unsaved \in BOOLEAN /\ fooled \in BOOLEAN /\ ~unsaved /\ ~fooled
  BY Zenon DEF UpgradeInit
<1>4. arrived \in Seq(MessageIds) /\ Len(arrived) = Cardinality(Stored)
  <2>1. CASE arrived = <<>>
    <3>1. Len(arrived) = 0 /\ arrived \in Seq(MessageIds)
      BY <2>1
    <3>2. Stored = {}
      BY <3>1 DEF Stored
    <3> QED BY <3>1, <3>2, FS_EmptySet
  <2>2. CASE arrived \in {s \in [1..N -> MessageIds] : \A i, j \in DOMAIN s : s[i] = s[j] => i = j}
    <3> HIDE DEF N
    <3>1. /\ arrived \in [1..N -> MessageIds] /\ DOMAIN arrived = 1..N
          /\ \A i, j \in 1..N : arrived[i] = arrived[j] => i = j
      BY <2>2
    <3>2. arrived \in Seq(MessageIds) /\ Len(arrived) = N
      BY <1>1, <3>1
    <3>3. Stored = {arrived[i] : i \in 1..N}
      BY <3>2 DEF Stored
    <3>4. arrived \in Surjection(1..N, Stored) /\ arrived \in Injection(1..N, Stored)
      BY <3>1, <3>3 DEF Surjection, Injection, IsInjective
    <3>5. IsFiniteSet(1..N) /\ Cardinality(1..N) = N
      <4>1. N \in Nat /\ N \in Int /\ 1 \in Int
        BY <1>1
      <4>2. IsFiniteSet(1..N) /\ Cardinality(1..N) = IF 1 > N THEN 0 ELSE N - 1 + 1
        BY <4>1, FS_Interval
      <4> QED BY <4>1, <4>2
    <3>6. Cardinality(Stored) = N
      BY <3>4, <3>5, FS_Surjection
    <3> QED BY <3>2, <3>6
  <2> QED BY <2>1, <2>2 DEF UpgradeInit
<1>5. UpgradeTypes
  <2>1. saves \in Seq(Contents) /\ Len(saves) = 0
    BY <1>2
  <2>2. layout \in SUBSET (Nat \ {0}) /\ seq \in [MessageIds -> Nat] /\ nextSeq \in Nat \ {0}
    BY <1>1, <1>2
  <2> QED BY <1>1, <1>2, <1>3, <1>4, <2>1, <2>2 DEF UpgradeTypes
<1>6. VersionInv
  BY <1>1, <1>2 DEF VersionInv
<1>7. NumberInv
  <2>1. Rows = {}
    BY <1>2 DEF Rows
  <2>2. Cardinality(Rows) = 0
    BY <2>1, FS_EmptySet
  <2> QED BY <1>2, <1>4, <2>1, <2>2 DEF NumberInv
<1>8. RestoreInv
  <2>1. highest # 0 => layout # {}
    <3>1. schema # 0 => 1 \in 1..schema
      BY <1>1
    <3> QED BY <1>2, <3>1
  <2> QED BY <1>2, <2>1 DEF RestoreInv
<1> QED BY <1>5, <1>6, <1>7, <1>8 DEF UpgradeInv

LEMMA UpgradeInductive == UpgradeInv /\ [UpgradeNext]_upgradeVars => UpgradeInv'
<1>1. UpgradeInv /\ UpgradeNext => UpgradeInv'
  BY TypesStep, VersionStep, NumberStep, RestoreStep DEF UpgradeInv
<1>2. UpgradeInv /\ UNCHANGED upgradeVars => UpgradeInv'
  <2> SUFFICES ASSUME UpgradeInv, UNCHANGED upgradeVars
               PROVE  UpgradeInv'
    OBVIOUS
  <2> USE DEF UpgradeInv, upgradeVars, upgradeData, upgradeGhosts
  <2>1. UpgradeTypes'
    BY DEF UpgradeTypes
  <2>2. VersionInv'
    BY SameVersion
  <2>3. Stored' = Stored /\ Rows' = Rows
    BY DEF Stored, Rows
  <2>4. NumberInv'
    BY <2>3 DEF NumberInv
  <2>5. RestoreInv'
    BY DEF RestoreInv
  <2> QED BY <2>1, <2>2, <2>4, <2>5
<1> QED BY <1>1, <1>2

(* An upgrade cut short at any write, or run again by another release: the  *)
(* version of db_meta promises no table that run_migrations has not         *)
(* created, an older release refuses the database, the chat's next number   *)
(* is free and the database from before is among the backups.               *)
THEOREM UpgradesAreSafe == UpgradeSpec => []UpgradeIsSafe
<1>1. UpgradeInv => UpgradeIsSafe
  <2> SUFFICES ASSUME UpgradeInv
               PROVE  UpgradeIsSafe
    OBVIOUS
  <2> USE DEF UpgradeInv
  <2> DEFINE N == Cardinality(MessageIds)
  <2>1. UpgradeTypeOK
    <3>1. /\ Len(arrived) <= N /\ Stored \subseteq MessageIds /\ N \in Nat
          /\ Cardinality(Rows) \in Nat /\ Cardinality(Rows) <= N
      BY StoredType DEF NumberInv
    <3>2. nextSeq \in 1..(N + 1)
      BY <3>1 DEF NumberInv, UpgradeTypes
    <3>3. seq \in [MessageIds -> 0..N]
      <4> HIDE DEF N
      <4>1. ASSUME NEW m \in MessageIds
            PROVE  seq[m] \in 0..N
        BY <3>1, <3>2 DEF NumberInv, UpgradeTypes
      <4> QED BY <4>1 DEF UpgradeTypes
    <3>4. Len(saves) <= MaxGenerations + MaxMishaps /\ \A i \in 1..Len(saves) : saves[i] \in Contents
      <4>1. \A i \in 1..Len(saves) : saves[i] \in Contents
        BY ElementOfSeq DEF UpgradeTypes
      <4>2. Len(saves) \in Nat
        BY LenProperties DEF UpgradeTypes
      <4>3. Len(saves) <= MaxGenerations + MaxMishaps
        BY <4>2, GenerationsAssumption, UpgradeAssumption DEF UpgradeTypes
      <4> QED BY <4>1, <4>3
    <3> QED BY <3>1, <3>2, <3>3, <3>4 DEF UpgradeTypeOK, UpgradeTypes, VersionInv
  <2>2. VersionMeansLayout
    BY DEF VersionInv, VersionMeansLayout
  <2>3. LaterIsRefused
    <3>1. highest \in Nat /\ release \in Nat
      BY UpgradeAssumption DEF UpgradeTypes
    <3> QED BY <3>1 DEF VersionInv, LaterIsRefused
  <2>4. NextSeqIsFree
    BY DEF NumberInv, NextSeqIsFree
  <2>5. UpgradeIsReversible
    <3>1. DOMAIN saves = 1..Len(saves)
      BY LenProperties DEF UpgradeTypes
    <3> QED BY <3>1 DEF RestoreInv, UpgradeIsReversible, Holds
  <2> QED BY <2>1, <2>2, <2>3, <2>4, <2>5 DEF UpgradeIsSafe
<1> QED
  BY <1>1, UpgradeInitial, UpgradeInductive, PTL DEF UpgradeSpec

(* The number of a message never changes, though the migration that numbers *)
(* the messages runs again in every upgrade: it numbers only the rows       *)
(* without one, and commits number rows that have none.                     *)
THEOREM NumbersNeverChange == UpgradeSpec => NumbersAreKept
<1>1. UpgradeInv /\ [UpgradeNext]_upgradeVars =>
          [\A m \in MessageIds : seq[m] # 0 => seq'[m] = seq[m]]_upgradeVars
  BY NumberStep DEF UpgradeInv
<1> QED
  BY <1>1, UpgradeInitial, UpgradeInductive, PTL DEF UpgradeSpec, NumbersAreKept
=============================================================================
