----------------------------- MODULE ConfigStore -----------------------------
(***************************************************************************)
(* The configuration of a running process: the YAML file and the `.env`    *)
(* next to it, the snapshot ConfigManager publishes, the callers that      *)
(* change it (PATCH /api/config/*, /provider, /model), the watcher that    *)
(* follows hand edits, and start-up.                                       *)
(*                                                                         *)
(* One setting `x` stands for what the YAML holds and one secret `k` for   *)
(* what `.env` holds; a fingerprint is the pair of files it hashes.        *)
(* save_config_sources_locked stamps both files with a fresh generation:   *)
(* a caller saves at most once, so its own name is that generation.        *)
(* A hand edit rewrites one file at any moment, takes no lock and leaves   *)
(* the generation line alone.                                              *)
(***************************************************************************)
EXTENDS Naturals, FiniteSets

CONSTANTS
    Callers,      \* requests that change the configuration, one save each
    Settings,     \* values of the YAML setting
    Secrets,      \* values of the `.env` secret
    Pinned,       \* settings that only a restart may enter or leave
    Invalid,      \* settings the loader's validation refuses
    X0, K0,       \* what is on disk at first
    Nobody,       \* no lock holder; also the generation of files as found
    Debounce,     \* polls in DEBOUNCE (500 ms / 250 ms)
    MaxTroubles   \* bound: hand edits, failing file operations and crashes

ASSUME ConfigAssumption ==
    /\ Pinned \subseteq Settings /\ Invalid \subseteq Settings
    /\ X0 \in Settings \ Invalid /\ K0 \in Secrets
    /\ Nobody \notin Callers \cup {"watcher"} /\ "watcher" \notin Callers
    /\ Debounce \in Nat \ {0} /\ MaxTroubles \in Nat

VARIABLES
    yaml, env,    \* the two files: [gen, v]
    tmp,          \* this process left its fixed-name .env temporary behind
    lock,         \* holder of CONFIG_WRITE_LOCK and the lock file
    up,           \* "up", "down", or "loading" between load and fingerprint
    mem,          \* the published snapshot [rev, fp, cfg]
    c,            \* each caller's progress
    watch,        \* the reload loop and its debouncer
    truth,        \* history: every edit that took effect, applied in order
    raced, torn,  \* history: a hand edit inside a save, reload or start-up, or
                  \*   one undone under a request; a save cut short halfway
    left          \* troubles still to come

files == <<yaml, env, tmp>>
configVars == <<yaml, env, tmp, lock, up, mem, c, watch, truth, raced, torn, left>>

Gens  == Callers \cup {Nobody}
Cfgs  == [x : Settings, k : Secrets]
NoFp  == <<>>    \* fallback_fingerprint: equal to no source's
Edits == [f : {"x"}, v : Settings] \cup [f : {"k"}, v : Secrets]

Disk == <<yaml, env>>
Content(fp) == [x |-> fp[1].v, k |-> fp[2].v]

Mismatched == yaml.gen # env.gen    \* validate_source_generation

\* ensure_reloadable: fields that need a restart
Forbidden(old, new) == (old.x \in Pinned \/ new.x \in Pinned) /\ old.x # new.x

Apply(cfg, e) == [cfg EXCEPT ![e.f] = e.v]

Absent == [pc |-> "idle", res |-> "none", edit |-> [f |-> "x", v |-> X0], seen |-> NoFp,
           cand |-> [x |-> X0, k |-> K0], cur |-> [rev |-> 0, fp |-> NoFp], bak |-> NoFp,
           snap |-> NoFp, saved |-> FALSE, overtaken |-> FALSE]

\* ReloadDebouncer::new at the start of run_config_reload_loop
Watching(fp) == [pc |-> "idle", observed |-> fp, pending |-> FALSE, age |-> 0,
                 cur |-> [rev |-> 0, fp |-> NoFp, cfg |-> [x |-> X0, k |-> K0]],
                 fp |-> NoFp, k |-> K0, cand |-> [x |-> X0, k |-> K0], lost |-> "no"]

ConfigInit ==
    /\ yaml = [gen |-> Nobody, v |-> X0] /\ env = [gen |-> Nobody, v |-> K0]
    /\ tmp = FALSE /\ lock = Nobody /\ up = "up"
    /\ mem = [rev |-> 1, fp |-> Disk, cfg |-> Content(Disk)]
    /\ c = [p \in Callers |-> Absent]
    /\ watch = Watching(Disk)
    /\ truth = Content(Disk) /\ raced = FALSE /\ torn = FALSE
    /\ left = MaxTroubles

Trouble == left > 0 /\ left' = left - 1
Fault   == Trouble             \* an operation on a file fails
NoFault == UNCHANGED left
At(p, pc) == up = "up" /\ c[p].pc = pc
Ended(p, res) == [Absent EXCEPT !.pc = "done", !.res = res, !.saved = c[p].saved,
                                !.overtaken = c[p].overtaken]
Ends(p, res) == c' = [c EXCEPT ![p] = Ended(p, res)]

-----------------------------------------------------------------------------
(* Callers.  Definitions no action uses are the mutations the properties are tried on. *)

\* api_get_config: the client learns a fingerprint
See(p) ==
    /\ At(p, "idle")
    /\ \E e \in Edits : c' = [c EXCEPT ![p] = [@ EXCEPT !.pc = "seen", !.edit = e, !.seen = mem.fp]]
    /\ UNCHANGED <<files, lock, up, mem, watch, truth, raced, torn, left>>

\* apply: copy the current config and edit it.  apply_profile_candidate does
\* the same with See and Clone reading one snapshot.
Clone(p) ==
    /\ At(p, "seen")
    /\ c' = [c EXCEPT ![p] = [@ EXCEPT !.pc = "check", !.cand = Apply(mem.cfg, c[p].edit)]]
    /\ UNCHANGED <<files, lock, up, mem, watch, truth, raced, torn, left>>

\* apply_candidate_with_removed_dotenv_keys, under update_lock
CheckExpected(p) ==
    /\ At(p, "check")
    /\ IF c[p].seen # mem.fp
       THEN Ends(p, "conflict")
       ELSE c' = [c EXCEPT ![p] = [@ EXCEPT !.pc = "disk", !.cur = [rev |-> mem.rev, fp |-> mem.fp]]]
    /\ raced' = (raced \/ (c[p].seen = mem.fp /\ c[p].cand # Apply(mem.cfg, c[p].edit)))
    /\ UNCHANGED <<files, lock, up, mem, watch, truth, torn, left>>

\* The source's fingerprint under with_config_lock, then validation
CheckDisk(p) ==
    /\ At(p, "disk") /\ lock = Nobody
    /\ \/ /\ NoFault
          /\ CASE Mismatched                     -> Ends(p, "error")
               [] ~Mismatched /\ Disk # c[p].cur.fp -> Ends(p, "conflict")
               [] OTHER ->
                    IF c[p].cand.x \in Invalid \/ Forbidden(mem.cfg, c[p].cand)
                    THEN Ends(p, "error")
                    ELSE c' = [c EXCEPT ![p].pc = "save"]
       \/ Fault /\ Ends(p, "error")
    /\ UNCHANGED <<files, lock, up, mem, watch, truth, raced, torn>>

\* Bug: the files are not compared again under the lock
LockSaveUnchecked(p) ==
    /\ At(p, "save") /\ lock = Nobody
    /\ c' = [c EXCEPT ![p] = [@ EXCEPT !.pc = "yaml", !.bak = Disk]] /\ lock' = p
    /\ UNCHANGED <<files, up, mem, watch, truth, raced, torn, left>>

\* save_config_with_secrets_if_unchanged takes the lock, compares again, and
\* save_config_sources_locked reads both files for a rollback
LockSave(p) ==
    /\ At(p, "save") /\ lock = Nobody
    /\ \/ /\ NoFault
          /\ IF Mismatched \/ Disk # c[p].cur.fp
             THEN Ends(p, IF Mismatched THEN "error" ELSE "conflict") /\ UNCHANGED lock
             ELSE c' = [c EXCEPT ![p] = [@ EXCEPT !.pc = "yaml", !.bak = Disk]] /\ lock' = p
       \/ Fault /\ Ends(p, "error") /\ UNCHANGED lock
    /\ UNCHANGED <<files, up, mem, watch, truth, raced, torn>>

\* save_yaml_locked / write_atomically: the rename happens or it does not
WriteYaml(p) ==
    /\ At(p, "yaml")
    /\ \/ /\ NoFault
          /\ yaml' = [gen |-> p, v |-> c[p].cand.x]
          /\ c' = [c EXCEPT ![p].pc = "env"]
          /\ UNCHANGED lock
       \/ /\ Fault /\ Ends(p, "error") /\ lock' = Nobody /\ UNCHANGED yaml
    /\ UNCHANGED <<env, tmp, up, mem, watch, truth, raced, torn>>

\* save_dotenv, complete
WriteEnv(p) ==
    /\ At(p, "env") /\ ~tmp
    /\ env' = [gen |-> p, v |-> c[p].cand.k]
    /\ truth' = Apply(truth, c[p].edit)
    /\ c' = [c EXCEPT ![p] = [@ EXCEPT !.pc = "rehash", !.saved = TRUE]]
    /\ UNCHANGED <<yaml, tmp, lock, up, mem, watch, raced, torn, left>>

\* save_dotenv fails: its temporary exists already (create_new), or an
\* operation fails before the rename, with or without leaving that
\* temporary, or after it (set_permissions, the directory's sync)
EnvFails(p) ==
    /\ At(p, "env")
    /\ \/ tmp /\ NoFault /\ UNCHANGED <<env, tmp, truth>>
       \/ ~tmp /\ Fault /\ tmp' \in BOOLEAN /\ UNCHANGED <<env, truth>>
       \/ /\ ~tmp /\ Fault
          /\ env' = [gen |-> p, v |-> c[p].cand.k]
          /\ truth' = Apply(truth, c[p].edit)
          /\ UNCHANGED tmp
    /\ c' = [c EXCEPT ![p].pc = "undo_yaml"]
    /\ UNCHANGED <<yaml, lock, up, mem, watch, raced, torn>>

\* restore_file on the YAML
RestoreYaml(p) ==
    /\ At(p, "undo_yaml")
    /\ \/ NoFault /\ yaml' = c[p].bak[1] /\ UNCHANGED torn
       \/ Fault /\ UNCHANGED yaml /\ torn' = TRUE
    /\ c' = [c EXCEPT ![p].pc = "undo_env"]
    /\ UNCHANGED <<env, tmp, lock, up, mem, watch, truth, raced>>

\* restore_file on `.env`; the lock is released with the error
RestoreEnv(p) ==
    /\ At(p, "undo_env")
    /\ \/ NoFault /\ env' = c[p].bak[2] /\ truth' = Content(c[p].bak) /\ UNCHANGED torn
       \/ Fault /\ UNCHANGED <<env, truth>> /\ torn' = TRUE
    /\ Ends(p, "error")
    /\ lock' = Nobody
    /\ UNCHANGED <<yaml, tmp, up, mem, watch, raced>>

\* The new fingerprint is read back from the files, still under the lock; when
\* that fails the caller is told of an error, and the files stay as saved
Rehash(p) ==
    /\ At(p, "rehash")
    /\ \/ NoFault /\ c' = [c EXCEPT ![p] = [@ EXCEPT !.pc = "publish", !.snap = Disk]]
       \/ Fault /\ Ends(p, "error")
    /\ lock' = Nobody
    /\ UNCHANGED <<files, up, mem, watch, truth, raced, torn>>

Unmoved(cur) == mem.rev = cur.rev /\ mem.fp = cur.fp

\* Bug: a snapshot that has moved on is left, but the caller is told ok
PublishLenient(p) ==
    /\ At(p, "publish")
    /\ Ends(p, "ok")
    /\ mem' = IF Unmoved(c[p].cur)
              THEN [rev |-> c[p].cur.rev + 1, fp |-> c[p].snap, cfg |-> c[p].cand]
              ELSE mem
    /\ UNCHANGED <<files, lock, up, watch, truth, raced, torn, left>>

\* The tail of apply_candidate_with_removed_dotenv_keys, under update_lock
Publish(p) ==
    /\ At(p, "publish")
    /\ CASE mem.fp = c[p].snap -> Ends(p, "ok") /\ UNCHANGED mem
         [] mem.fp # c[p].snap /\ ~Unmoved(c[p].cur) -> Ends(p, "conflict") /\ UNCHANGED mem
         [] OTHER -> /\ Ends(p, "ok")
                     /\ mem' = [rev |-> c[p].cur.rev + 1, fp |-> c[p].snap, cfg |-> c[p].cand]
    /\ UNCHANGED <<files, lock, up, watch, truth, raced, torn, left>>

-----------------------------------------------------------------------------
(* The watcher: run_config_reload_loop and reload_from_file *)

\* A tick whose source_fingerprint fails: source_unavailable
PollFails ==
    /\ up = "up" /\ watch.pc = "idle"
    /\ (Mismatched /\ NoFault) \/ Fault
    /\ watch' = [watch EXCEPT !.pending = FALSE, !.observed = NoFp, !.age = 0, !.lost = "no"]
    /\ UNCHANGED <<files, lock, up, mem, c, truth, raced, torn>>

\* A tick: ReloadDebouncer::observe, and reload_from_file once it is ripe
Poll ==
    /\ up = "up" /\ watch.pc = "idle" /\ ~Mismatched
    /\ LET fresh == watch.observed # Disk
           age   == IF watch.age < Debounce THEN watch.age + 1 ELSE watch.age
       IN watch' =
            IF Disk = mem.fp
            THEN [watch EXCEPT !.observed = Disk, !.pending = FALSE, !.age = 0, !.lost = "no"]
            ELSE IF fresh
            THEN [watch EXCEPT !.observed = Disk, !.pending = TRUE, !.age = 0, !.lost = "no"]
            ELSE IF watch.pending
            THEN [watch EXCEPT !.age = age,
                     !.pc = IF age = Debounce THEN "fp" ELSE "idle",
                     !.cur = IF age = Debounce THEN mem ELSE @]
            ELSE watch
    /\ UNCHANGED <<files, lock, up, mem, c, truth, raced, torn, left>>

\* clear_pending: the content observed is not tried again until the files change.
\* `lost` says that this content was never refused for what it is: the attempt
\* was about other content ("moved"), or it could not be read ("unread")
Cleared(tried) ==
    [Watching(watch.observed) EXCEPT !.lost = IF tried = watch.observed THEN "no" ELSE "moved"]
Unreadable == [Watching(watch.observed) EXCEPT !.lost = "unread"]
\* Bug: a reload that failed is not tried again
GiveUp == Watching(watch.observed)
\* retry_pending
Again == [Watching(watch.observed) EXCEPT !.pending = TRUE]

\* with_config_lock, and the fingerprint compared with the active one
ReloadFp ==
    /\ up = "up" /\ watch.pc = "fp" /\ lock = Nobody
    /\ \/ /\ NoFault
          /\ watch' = IF Mismatched \/ Disk = watch.cur.fp
                      THEN Cleared(IF Mismatched THEN NoFp ELSE Disk)
                      ELSE [watch EXCEPT !.pc = "env", !.fp = Disk]
          /\ lock' = IF Mismatched \/ Disk = watch.cur.fp THEN Nobody ELSE "watcher"
       \/ /\ Fault /\ watch' = Again /\ UNCHANGED lock
    /\ UNCHANGED <<files, up, mem, c, truth, raced, torn>>

\* Config::load reads `.env` first; read_dotenv takes one it cannot read for empty
ReloadEnv ==
    /\ up = "up" /\ watch.pc = "env"
    /\ \/ NoFault /\ watch' = [watch EXCEPT !.pc = "yaml", !.k = env.v]
       \/ Fault /\ watch' = [watch EXCEPT !.pc = "yaml", !.lost = "unread"]
    /\ UNCHANGED <<files, lock, up, mem, c, truth, raced, torn>>

\* ... then the YAML, and validates: generation, values, reloadability.  Only a
\* ConfigReadFailed is retried; a secret missing from an unread `.env`, an exec
\* reference that fails and a YAML file that cannot be found are refusals
ReloadYaml ==
    /\ up = "up" /\ watch.pc = "yaml"
    /\ LET cand == [x |-> yaml.v, k |-> watch.k]
           bad  == Mismatched \/ yaml.v \in Invalid \/ Forbidden(watch.cur.cfg, cand)
           end  == CASE watch.lost = "unread"        -> Unreadable
                     [] watch.lost # "unread" /\ bad -> Cleared(Disk)
                     [] OTHER -> [watch EXCEPT !.pc = "stable", !.cand = cand]
       IN \/ /\ NoFault /\ watch' = end
             /\ lock' = IF end.pc = "stable" THEN lock ELSE Nobody
          \/ /\ Fault /\ watch' \in {Again, Unreadable}
             /\ lock' = Nobody
    /\ UNCHANGED <<files, up, mem, c, truth, raced, torn>>

\* Bug: the files are not fingerprinted again after they were read
ReloadTrusting ==
    /\ up = "up" /\ watch.pc = "stable"
    /\ watch' = [watch EXCEPT !.pc = "publish"]
    /\ lock' = Nobody
    /\ UNCHANGED <<files, up, mem, c, truth, raced, torn, left>>

\* The fingerprint again: a read that fails is retried, and so is
\* ConfigSourceChangedDuringReload
ReloadStable ==
    /\ up = "up" /\ watch.pc = "stable"
    /\ \/ /\ NoFault
          /\ watch' = IF Mismatched THEN Cleared(NoFp)
                      ELSE IF Disk # watch.fp THEN Again
                      ELSE [watch EXCEPT !.pc = "publish"]
       \/ Fault /\ watch' = Again
    /\ lock' = Nobody
    /\ UNCHANGED <<files, up, mem, c, truth, raced, torn>>

\* Under update_lock: a snapshot published meanwhile is a ConfigConflict,
\* which is not retryable
ReloadPublish ==
    /\ up = "up" /\ watch.pc = "publish"
    /\ IF Unmoved(watch.cur)
       THEN /\ mem' = [rev |-> watch.cur.rev + 1, fp |-> watch.fp, cfg |-> watch.cand]
            /\ watch' = Cleared(watch.fp)
            /\ c' = [p \in Callers |->
                       [c[p] EXCEPT !.overtaken = c[p].pc \notin {"idle", "seen", "check"}]]
       ELSE watch' = Cleared(NoFp) /\ UNCHANGED <<mem, c>>
    /\ UNCHANGED <<files, lock, up, truth, raced, torn, left>>

-----------------------------------------------------------------------------
(* The rest of the world *)

\* Someone edits one of the files by hand.  It races when it falls inside a
\* save or start-up, or undoes itself inside a reload.
HandEdit(e) ==
    /\ Trouble
    /\ e.v # Content(Disk)[e.f]
    /\ yaml' = IF e.f = "x" THEN [yaml EXCEPT !.v = e.v] ELSE yaml
    /\ env'  = IF e.f = "k" THEN [env EXCEPT !.v = e.v] ELSE env
    /\ truth' = Apply(truth, e)
    /\ raced' = (\/ raced \/ lock \in Callers \/ up = "loading"
                 \/ lock = "watcher" /\ <<yaml', env'>> = watch.fp)
    /\ UNCHANGED <<tmp, lock, up, mem, c, watch, torn>>

ConfigCrash ==
    /\ up = "up" /\ Trouble
    /\ up' = "down" /\ lock' = Nobody /\ watch' = Watching(NoFp)
    /\ c' = [p \in Callers |-> IF c[p].pc = "idle" THEN c[p]
                               ELSE Ended(p, c[p].res)]
    /\ torn' = (torn \/ (lock \in Callers /\ Mismatched))
    /\ raced' = (raced /\ lock \notin Callers)
    /\ truth' = IF lock \in Callers /\ ~Mismatched THEN Content(Disk) ELSE truth
    /\ UNCHANGED <<files, mem>>

\* main: Config::load, without the lock; it refuses mixed generations and
\* invalid values.  A new process has its own temporary's name.
BootLoad ==
    /\ up = "down" /\ ~Mismatched /\ yaml.v \notin Invalid
    /\ up' = "loading" /\ tmp' = FALSE
    /\ watch' = [watch EXCEPT !.cand = Content(Disk)]
    /\ UNCHANGED <<yaml, env, lock, mem, c, truth, raced, torn, left>>

\* ConfigManager::new fingerprints the source afterwards, or falls back
BootFingerprint ==
    /\ up = "loading"
    /\ up' = "up"
    /\ \E fp \in {Disk, NoFp} :
         /\ IF fp = NoFp THEN Fault ELSE NoFault
         /\ mem' = [rev |-> 1, fp |-> fp, cfg |-> watch.cand]
         /\ watch' = Watching(fp)
    /\ UNCHANGED <<files, lock, c, truth, raced, torn>>

\* The owner puts right a source that start-up refuses
Repair ==
    /\ up = "down" /\ (Mismatched \/ yaml.v \in Invalid)
    /\ \E x \in Settings \ Invalid :
         /\ yaml' = [yaml EXCEPT !.v = x]
         /\ env' = [env EXCEPT !.gen = yaml.gen]
         /\ truth' = [x |-> x, k |-> env.v]
    /\ torn' = FALSE /\ raced' = FALSE
    /\ UNCHANGED <<tmp, lock, up, mem, c, watch, left>>

Caller(p) ==
    \/ Clone(p) \/ CheckExpected(p) \/ CheckDisk(p) \/ LockSave(p)
    \/ WriteYaml(p) \/ WriteEnv(p) \/ EnvFails(p) \/ RestoreYaml(p) \/ RestoreEnv(p)
    \/ Rehash(p) \/ Publish(p)

Watcher == Poll \/ ReloadFp \/ ReloadEnv \/ ReloadYaml \/ ReloadStable \/ ReloadPublish

BootUp == BootLoad \/ BootFingerprint

ConfigNext ==
    \/ \E p \in Callers : See(p) \/ Caller(p)
    \/ Watcher \/ PollFails
    \/ \E e \in Edits : HandEdit(e)
    \/ ConfigCrash \/ BootUp \/ Repair

ConfigSpec ==
    /\ ConfigInit /\ [][ConfigNext]_configVars
    /\ \A p \in Callers : WF_configVars(Caller(p))
    /\ WF_configVars(Watcher) /\ WF_configVars(BootUp)

-----------------------------------------------------------------------------
(* Properties *)

Fps == {<<[gen |-> g, v |-> x], [gen |-> h, v |-> k]>> :
          g \in Gens, h \in Gens, x \in Settings, k \in Secrets} \cup {NoFp}

\* Every variable has its type.
ConfigTypeOK ==
    /\ yaml \in [gen : Gens, v : Settings] /\ env \in [gen : Gens, v : Secrets]
    /\ tmp \in BOOLEAN /\ lock \in Callers \cup {Nobody, "watcher"}
    /\ up \in {"up", "down", "loading"}
    /\ mem \in [rev : Nat, fp : Fps, cfg : Cfgs]
    /\ \A p \in Callers : /\ c[p].edit \in Edits /\ c[p].cand \in Cfgs
                          /\ c[p].res \in {"none", "ok", "conflict", "error"}
    /\ watch.observed \in Fps /\ watch.age \in 0 .. Debounce /\ watch.cand \in Cfgs
    /\ truth \in Cfgs /\ {raced, torn} \subseteq BOOLEAN

\* docs/config.md: a snapshot never mixes write generations, also not after a
\* crash between the two renames of a save.
OneGeneration == mem.fp # NoFp => mem.fp[1].gen = mem.fp[2].gen

\* The published fingerprint is that of the published settings, so a client
\* that sends it back has seen what it is about to replace; only a hand edit
\* that races a save, a reload or start-up parts them.
FingerprintHonest == up = "up" /\ ~raced /\ mem.fp # NoFp => mem.cfg = Content(mem.fp)

\* No update is lost: what is on disk is every effective edit, by a caller or
\* by hand, applied in order, whatever callers overlap and however a save is
\* rolled back.
NoLostUpdate == lock = Nobody /\ ~raced /\ ~torn => Content(Disk) = truth

\* Outside a save the two files belong together, unless a crash cut a save in
\* two or its rollback failed: the next start finds a source it can load.
Loadable == lock = Nobody /\ ~torn => ~Mismatched

\* A caller that is told "conflict" changed nothing, unless the watcher
\* published a reload (of its save, or of a hand edit) during the call.
ConflictMeansUntouched ==
    \A p \in Callers : c[p].res = "conflict" /\ c[p].saved => c[p].overtaken

\* docs/config.md: one revision is one configuration; it only grows while the
\* process lives.
RevisionNamesContent ==
    [][up = "up" /\ up' = "up" => \/ mem' = mem
                                  \/ mem'.rev > mem.rev]_configVars

\* A caller that is told "ok" finds its change in the published settings.
OkMeansLive ==
    [][\A p \in Callers : c[p].res = "none" /\ c'[p].res = "ok" /\ ~raced
         => mem'.cfg[c[p].edit.f] = c[p].edit.v]_configVars

Rejected == Mismatched \/ yaml.v \in Invalid \/ Forbidden(mem.cfg, Content(Disk))

\* A stable source ends up published, or is one the manager must refuse, after
\* any hand edits, saves and failures: a change during a reload and a read that
\* fails as ConfigReadFailed are tried again.  The watcher gives up on content
\* it never refused only when
\*  - that content returned while it was reloading other content, or a caller
\*    published meanwhile ("moved"), or
\*  - a secret could not be had: `.env` unreadable while Config::load reads it, an
\*    exec reference that fails or times out ("unread").
Converges == <>[](up = "up" => mem.fp = Disk \/ Rejected \/ watch.lost # "no")

\* Every read that fails is tried again.  Not so (MCFiles.cfg): read_dotenv makes
\* an unreadable `.env` an empty one, and is_retryable_reload_error takes the
\* unresolved secret for the fault of the content.
FailedReadsAreRetried ==
    <>[](up = "up" => mem.fp = Disk \/ Rejected \/ watch.lost = "moved")

(* Two files written one after the other, read one after the other: what is *)
(* in memory is one generation and honestly fingerprinted, and what is on   *)
(* disk can be loaded again.                                                *)
SourceIsWhole == ConfigTypeOK /\ OneGeneration /\ FingerprintHonest /\ Loadable

(* Callers, watcher and editor do not undo each other: no accepted update   *)
(* is lost, and one told of a conflict has changed nothing.                 *)
UpdatesKept == NoLostUpdate /\ ConflictMeansUntouched

(* What a caller is told of an update is so: a revision names one content,  *)
(* and an accepted update is what the process then runs on.                 *)
UpdatesAreLive == RevisionNamesContent /\ OkMeansLive
=============================================================================
