------------------------------- MODULE SleepRun -------------------------------
(***************************************************************************)
(* Sleep: the batch that turns an agent's conversations into episode       *)
(* events and three memory files (src/src/sleep, src/src/memory.rs,        *)
(* src/src/storage/sleep.rs).                                              *)
(*                                                                         *)
(* One agent.  The instance lock and the sequential scheduler cycle leave  *)
(* one executor; it interleaves with turns that append messages, with an   *)
(* operator who edits memory files, with failing disk and database calls   *)
(* and with the death of the process.  One action per SQLite transaction,  *)
(* rename or archive file.                                                 *)
(*                                                                         *)
(* A message is its position in the order (timestamp, id) that the         *)
(* checkpoints use.  The content of a memory file is a number: 0 as        *)
(* installed, r as written by run r, more than MaxRuns as edited.          *)
(***************************************************************************)
EXTENDS Naturals, Sequences, FiniteSets, SequencesExt

CONSTANTS
  Chats,         \* conversations of the agent
  MaxMsg,        \* messages ever received
  MaxRuns,       \* rows of sleep_runs (skipped checks are not counted)
  SkipThreshold, \* SKIP_THRESHOLD
  MaxSources,    \* MAX_SOURCE_SESSIONS
  Keep,          \* SESSION_CLEAR_KEEP_RECENT
  MaxAttempts,   \* retry_max_attempts
  MaxFaults      \* deaths of the process, failing file operations, failing transactions
                 \* and edits of memory files by hand, together

ASSUME SleepAssumption ==
  /\ MaxMsg \in Nat /\ MaxRuns \in Nat \ {0} /\ SkipThreshold \in Nat
  /\ MaxSources \in Nat \ {0} /\ Keep \in Nat /\ MaxAttempts \in Nat \ {0}
  /\ MaxFaults \in Nat /\ IsFiniteSet(Chats)

VARIABLES
  \* conversations
  clock,     \* messages received so far
  inbox,     \* per chat: the received message whose turn has not begun, or 0
  committed, \* per chat: rows of messages
  session,   \* per chat: sessions.messages_json
  \* progress of the steps
  ckpt,      \* per step and chat: sleep_step_checkpoints over messages
  events,    \* batches of episode_events
  sem,       \* the semantic step's checkpoint over episode_events
  \* the newest run
  run, status, step,
  source,    \* source_chats_json
  snap,      \* memory_snapshots
  \* files
  disk, archive,
  \* the process
  cache, pc, mode, tries,
  work,      \* what the batch, publication or finalization under way has in memory
  \* what happened
  seen,      \* per step and message: committed batches that included it
  late,      \* messages committed after a message with a later timestamp
  published, faults

msgVars == <<clock, inbox, committed, session, late>>
progress == <<seen, ckpt, events, sem>>
rowVars == <<run, status, step, source, snap>>
fileVars == <<disk, archive>>
control == <<pc, mode, tries, work>>
vars == <<msgVars, progress, rowVars, fileVars, cache, control, published, faults>>

Files == <<"episodic", "semantic", "prospective">>
File == {"episodic", "semantic", "prospective"}
\* The semantic and the prospective step are written together in every transaction.
Steps == {"event", "episodic", "memory"}
Readers == {"event", "memory"}
Messages == 1..MaxMsg
Runs == 1..MaxRuns
Content == 0..(MaxRuns + MaxFaults)
Absent == MaxRuns + MaxFaults + 1
Bundle == [File -> Content]
Installed == [f \in File |-> 0]
NoCache == [f \in File |-> Absent]
NoSnap == [f \in File |-> [before |-> Absent, after |-> Absent]]
NoWork == [plan |-> {}, base |-> Installed, upto |-> [c \in Chats |-> 0], batch |-> {}, events |-> 0,
           next |-> 1, touched |-> {}, todo |-> {}, loaded |-> <<>>, pending |-> FALSE]
NoFaults == [kind \in {"crash", "io", "db", "edit"} |-> 0]

Latest(c) == IF committed[c] = {} THEN 0 ELSE Max(committed[c])
Pending(c) == {m \in committed[c] : m > ckpt["event"][c] \/ m > ckpt["memory"][c]}
\* The chats with the oldest pending messages, at most MaxSources of them.
SourceSessions ==
  {c \in Chats : /\ Pending(c) # {}
                 /\ Cardinality({d \in Chats : /\ Pending(d) # {}
                                               /\ Min(Pending(d)) < Min(Pending(c))}) < MaxSources}
SnapComplete == \A f \in File : snap[f].before # Absent
Running == run # 0 /\ status[run] = "running"

Init ==
  /\ clock = 0 /\ inbox = [c \in Chats |-> 0] /\ late = {}
  /\ committed = [c \in Chats |-> {}] /\ session = [c \in Chats |-> <<>>]
  /\ seen = [s \in Readers |-> [m \in Messages |-> 0]]
  /\ ckpt = [s \in Readers |-> [c \in Chats |-> 0]]
  /\ events = 0 /\ sem = 0
  /\ run = 0 /\ status = [r \in Runs |-> "none"] /\ step = [s \in Steps |-> "pending"]
  /\ source = {} /\ snap = NoSnap
  /\ disk = Installed /\ archive = [r \in Runs |-> [c \in Chats |-> {}]]
  /\ cache = NoCache /\ pc = "recover" /\ mode = "startup" /\ tries = 0 /\ work = NoWork
  /\ published = {} /\ faults = NoFaults

\* The fault budget: at most MaxFaults faults of any kinds.
Fault(kind) ==
  /\ faults.crash + faults.io + faults.db + faults.edit < MaxFaults
  /\ faults' = [faults EXCEPT ![kind] = @ + 1]
NoFault == UNCHANGED faults

-----------------------------------------------------------------------------
(* Turns and the operator.                                                 *)

\* Turns run once the startup recovery is through.
Serving == pc # "down" /\ ~(mode = "startup" /\ pc # "idle")

AppendMessage(c, m) ==
  /\ committed' = [committed EXCEPT ![c] = @ \cup {m}]
  /\ session' = [session EXCEPT ![c] = Append(@, m)]
  /\ late' = IF m < Latest(c) THEN late \cup {m} ELSE late

\* A message is stamped with the time of its arrival and waits while its session is busy.
Receive(c) ==
  /\ Serving /\ inbox[c] = 0 /\ clock < MaxMsg
  /\ clock' = clock + 1
  /\ inbox' = [inbox EXCEPT ![c] = clock + 1]
  /\ UNCHANGED <<committed, session, late, progress, rowVars, fileVars, cache, control, published, faults>>

CommitInput(c) ==
  /\ Serving /\ inbox[c] # 0
  /\ AppendMessage(c, inbox[c])
  /\ inbox' = [inbox EXCEPT ![c] = 0]
  /\ UNCHANGED <<clock, progress, rowVars, fileVars, cache, control, published, faults>>

\* A message that is stamped when it is written: a reply, or input that did not wait.
CommitMessage(c) ==
  /\ Serving /\ clock < MaxMsg
  /\ clock' = clock + 1
  /\ AppendMessage(c, clock + 1)
  /\ UNCHANGED <<inbox, progress, rowVars, fileVars, cache, control, published, faults>>

\* A turn's prompt reads the bundle; the read lock waits for a publication under way.
LoadBundle ==
  /\ Serving /\ pc # "rename" /\ cache = NoCache
  /\ cache' = disk
  /\ UNCHANGED <<msgVars, progress, rowVars, fileVars, control, published, faults>>

Edit(f) ==
  /\ Fault("edit")
  /\ disk' = [disk EXCEPT ![f] = MaxRuns + faults'.edit]
  /\ work' = IF pc = "rename" THEN [work EXCEPT !.touched = @ \cup {f}] ELSE work
  /\ UNCHANGED <<msgVars, progress, rowVars, archive, cache, pc, mode, tries, published>>

-----------------------------------------------------------------------------
(* How an attempt ends.  What it had in memory is gone.                    *)

\* An error: a batch is tried again up to MaxAttempts times, a cycle goes on to its batch
\* and a start of the process is given up.
Abandon ==
  /\ work' = NoWork
  /\ \/ mode = "batch" /\ tries < MaxAttempts /\ pc' = "collect" /\ mode' = mode /\ tries' = tries + 1
     \/ mode = "batch" /\ tries = MaxAttempts /\ pc' = "idle" /\ mode' = mode /\ tries' = 0
     \/ mode = "retry" /\ pc' = "collect" /\ mode' = "batch" /\ tries' = 1
     \/ mode = "startup" /\ pc' = "down" /\ mode' = mode /\ tries' = 0
  /\ cache' = IF mode = "startup" THEN NoCache ELSE cache

\* No error, or one that startup tolerates.
Proceed ==
  /\ work' = NoWork
  /\ \/ mode \in {"batch", "startup"} /\ pc' = "idle" /\ mode' = mode /\ tries' = 0
     \/ mode = "retry" /\ pc' = "collect" /\ mode' = "batch" /\ tries' = 1
  /\ UNCHANGED cache

GoTo(point) == pc' = point /\ UNCHANGED <<mode, tries>>

UpdateFailed == status' = [status EXCEPT ![run] = "failed"]

\* execute_batch records every error but the two pending ones; that write may fail too.
HardFail == (UpdateFailed \/ UNCHANGED status) /\ Abandon

-----------------------------------------------------------------------------
(* The scheduler cycle and the recovery of running runs.                   *)

StartCycle ==
  /\ pc = "idle"
  /\ pc' = "recover" /\ mode' = "retry" /\ tries' = 0 /\ work' = NoWork
  /\ UNCHANGED <<msgVars, progress, rowVars, fileVars, cache, published, faults>>

RecoverNone ==
  /\ pc = "recover" /\ ~Running
  /\ Proceed
  /\ UNCHANGED <<msgVars, progress, rowVars, fileVars, published, faults>>

RecoverIncomplete ==
  /\ pc = "recover" /\ Running /\ ~SnapComplete
  /\ \/ UpdateFailed /\ UNCHANGED <<control, cache>> /\ NoFault
     \/ UNCHANGED status /\ Abandon /\ Fault("db")
  /\ UNCHANGED <<msgVars, progress, run, step, source, snap, fileVars, published>>

\* Every file must be as the run found it or as the run left it.
Classifiable == \A f \in File : disk[f] \in {snap[f].before, snap[f].after}

\* Mutant: a cycle leaves a pending publication to the next start.
RecoverPublicationAtStart ==
  /\ pc = "recover" /\ Running /\ SnapComplete
  /\ \/ mode = "startup" /\ Classifiable /\ GoTo("rename") /\ work' = NoWork /\ UNCHANGED cache
     \/ mode = "retry" /\ Proceed
     \/ ~Classifiable /\ Abandon
  /\ UNCHANGED <<msgVars, progress, rowVars, fileVars, published, faults>>

RecoverPublication ==
  /\ pc = "recover" /\ Running /\ SnapComplete
  /\ \/ Classifiable /\ GoTo("rename") /\ work' = NoWork /\ UNCHANGED cache
     \/ ~Classifiable /\ Abandon
  /\ UNCHANGED <<msgVars, progress, rowVars, fileVars, published, faults>>

-----------------------------------------------------------------------------
(* The batch.                                                              *)

\* The agent is mid-turn, too little is new, or (the bound) no run is left.
Skip ==
  /\ pc = "collect"
  /\ Proceed
  /\ UNCHANGED <<msgVars, progress, rowVars, fileVars, published, faults>>

Collect ==
  /\ pc = "collect"
  /\ Cardinality(UNION {Pending(c) : c \in Chats}) > SkipThreshold
  /\ run < MaxRuns
  /\ work' = [NoWork EXCEPT !.plan = SourceSessions]
  /\ GoTo("create")
  /\ UNCHANGED <<msgVars, progress, rowVars, fileVars, cache, published, faults>>

\* try_create_sleep_run: one running run per agent.
Create ==
  /\ pc = "create" /\ ~Running
  /\ run' = run + 1
  /\ status' = [status EXCEPT ![run + 1] = "running"]
  /\ step' = [s \in Steps |-> "pending"]
  /\ source' = {} /\ snap' = NoSnap
  /\ GoTo("source")
  /\ UNCHANGED <<msgVars, progress, fileVars, cache, work, published, faults>>

AlreadyRunning ==
  /\ pc = "create" /\ Running
  /\ Proceed
  /\ UNCHANGED <<msgVars, progress, rowVars, fileVars, published, faults>>

\* update_sleep_run_source_chats; an error here leaves the run running.
PersistSources ==
  /\ pc = "source"
  /\ \/ source' = work.plan /\ GoTo("prepare") /\ NoFault /\ UNCHANGED <<cache, work>>
     \/ UNCHANGED source /\ Abandon /\ Fault("db")
  /\ UNCHANGED <<msgVars, progress, run, status, step, snap, fileVars, published>>

Prepare ==
  /\ pc = "prepare"
  /\ cache' = IF cache = NoCache THEN disk ELSE cache
  /\ work' = [work EXCEPT !.base = cache']
  /\ GoTo("event")
  /\ UNCHANGED <<msgVars, progress, rowVars, fileVars, published, faults>>

\* The provider cannot be resolved or the files cannot be read.
PrepareFails ==
  /\ pc = "prepare"
  /\ Fault("io") /\ HardFail
  /\ UNCHANGED <<msgVars, progress, run, step, source, snap, fileVars, published>>

\* load_message_step_input: what each source session has beyond the step's checkpoint.
NewMessages(s, c) == IF c \in work.plan THEN {m \in committed[c] : m > ckpt[s][c]} ELSE {}
TakeInput(s) ==
  [work EXCEPT !.batch = UNION {NewMessages(s, c) : c \in Chats},
               !.upto = [c \in Chats |-> IF NewMessages(s, c) = {} THEN 0 ELSE Latest(c)],
               !.events = events]
DropInput == [work EXCEPT !.batch = {}, !.upto = [c \in Chats |-> 0], !.events = 0]

\* A step's end is recorded, or the record is lost and the step goes on as running.
FinishStep(s, outcome) ==
  \/ step' = [step EXCEPT ![s] = outcome] /\ NoFault
  \/ step' = [step EXCEPT ![s] = "running"] /\ Fault("db")

StartEvent ==
  /\ pc = "event"
  /\ \/ /\ TakeInput("event").batch # {}
        /\ step' = [step EXCEPT !["event"] = "running"] /\ NoFault
        /\ work' = TakeInput("event") /\ GoTo("eventReply")
     \/ /\ TakeInput("event").batch = {}
        /\ FinishStep("event", "skipped")
        /\ work' = work /\ GoTo("episodic")
  /\ UNCHANGED <<msgVars, progress, run, status, source, snap, fileVars, cache, published>>

\* Advances the checkpoints of one step in the transaction that stores its result.
CommitCheckpoints(s) ==
  /\ ckpt' = [ckpt EXCEPT ![s] = [c \in Chats |-> IF work.upto[c] # 0 THEN work.upto[c] ELSE @[c]]]
  /\ seen' = [seen EXCEPT ![s] = [m \in Messages |-> IF m \in work.batch THEN @[m] + 1 ELSE @[m]]]

\* commit_event_extraction_success; a batch may yield no event.
CommitEvents ==
  /\ pc = "eventReply"
  /\ CommitCheckpoints("event")
  /\ events' \in {events, events + 1}
  /\ step' = [step EXCEPT !["event"] = "success"]
  /\ work' = DropInput /\ GoTo("episodic")
  /\ UNCHANGED <<msgVars, sem, run, status, source, snap, fileVars, cache, published, faults>>

\* The model fails, twice where its reply does not parse, or the commit does.
EventFails ==
  /\ pc = "eventReply"
  /\ FinishStep("event", "failed")
  /\ work' = DropInput /\ GoTo("episodic")
  /\ UNCHANGED <<msgVars, progress, run, status, source, snap, fileVars, cache, published>>

\* Rollups are derived data: what counts is whether episodic.md was rendered anew.
EpisodicUpdate ==
  /\ pc = "episodic"
  /\ \/ /\ step' = [step EXCEPT !["episodic"] = "success"] /\ NoFault
        /\ snap' = [snap EXCEPT !["episodic"] = [before |-> work.base["episodic"], after |-> run]]
     \/ /\ \E outcome \in {"skipped", "failed"} : FinishStep("episodic", outcome)
        /\ UNCHANGED snap
  /\ GoTo("memory")
  /\ UNCHANGED <<msgVars, progress, run, status, source, fileVars, cache, work, published>>

StartMemory ==
  /\ pc = "memory"
  /\ \/ /\ TakeInput("memory").batch # {} \/ events > sem
        /\ step' = [step EXCEPT !["memory"] = "running"]
        /\ work' = TakeInput("memory") /\ GoTo("memoryReply")
     \/ /\ TakeInput("memory").batch = {} /\ events = sem
        /\ step' = [step EXCEPT !["memory"] = "skipped"]
        /\ work' = work /\ GoTo("ensure")
  /\ UNCHANGED <<msgVars, progress, run, status, source, snap, fileVars, cache, published, faults>>

CommitMemory ==
  /\ pc = "memoryReply"
  /\ CommitCheckpoints("memory")
  /\ sem' = work.events
  /\ step' = [step EXCEPT !["memory"] = "success"]
  /\ snap' = [f \in File |-> IF f = "episodic" THEN snap[f] ELSE [before |-> work.base[f], after |-> run]]
  /\ work' = DropInput /\ GoTo("ensure")
  /\ UNCHANGED <<msgVars, events, run, status, source, fileVars, cache, published, faults>>

MemoryFails ==
  /\ pc = "memoryReply"
  /\ step' = [step EXCEPT !["memory"] = "failed"]
  /\ work' = DropInput /\ GoTo("ensure")
  /\ UNCHANGED <<msgVars, progress, run, status, source, snap, fileVars, cache, published, faults>>

\* Starting a step, loading the memory step's input, finishing it and completing the
\* snapshots pass a database error on.
StepError ==
  /\ pc \in {"event", "episodic", "memory", "memoryReply", "ensure"}
  /\ Fault("db") /\ HardFail
  /\ UNCHANGED <<msgVars, progress, run, step, source, snap, fileVars, published>>

-----------------------------------------------------------------------------
(* Publication.                                                            *)

\* ensure_memory_snapshots_complete: a file no step wrote is published as it was found.
EnsureSnapshots ==
  /\ pc = "ensure"
  /\ snap' = [f \in File |-> IF snap[f].before = Absent
                               THEN [before |-> work.base[f], after |-> work.base[f]] ELSE snap[f]]
  /\ work' = NoWork /\ GoTo("check")
  /\ UNCHANGED <<msgVars, progress, run, status, step, source, fileVars, cache, published, faults>>

\* Mutant: the files are not compared with what the run found.
CheckBaseNot ==
  /\ pc = "check"
  /\ GoTo("rename")
  /\ UNCHANGED <<msgVars, progress, rowVars, fileVars, cache, work, published, faults>>

\* publish_bundle under the write lock: the files must be as the run found them.
CheckBase ==
  /\ pc = "check" /\ \A f \in File : disk[f] = snap[f].before
  /\ GoTo("rename")
  /\ UNCHANGED <<msgVars, progress, rowVars, fileVars, cache, work, published, faults>>

\* Otherwise the cache takes what is on disk and the run stays running.
Conflict ==
  /\ pc = "check" /\ \E f \in File : disk[f] # snap[f].before
  /\ cache' = disk /\ work' = NoWork
  /\ \/ tries < MaxAttempts /\ pc' = "collect" /\ tries' = tries + 1
     \/ tries = MaxAttempts /\ pc' = "idle" /\ tries' = 0
  /\ UNCHANGED <<msgVars, progress, rowVars, fileVars, mode, published, faults>>

\* write_bundle_atomically: one rename per file, in order.
Rename ==
  /\ pc = "rename" /\ work.next <= Len(Files)
  /\ LET f == Files[work.next] IN disk' = [disk EXCEPT ![f] = snap[f].after]
  /\ work' = [work EXCEPT !.next = @ + 1]
  /\ UNCHANGED <<msgVars, progress, rowVars, archive, cache, pc, mode, tries, published, faults>>

\* The directory is synced and the cache refreshed; archiving follows the persisted plan.
Published ==
  /\ pc = "rename" /\ work.next > Len(Files)
  /\ cache' = [f \in File |-> snap[f].after]
  /\ published' = IF \E f \in File : snap[f].before # snap[f].after THEN published \cup {run} ELSE published
  /\ work' = [NoWork EXCEPT !.todo = source] /\ GoTo("archive")
  /\ UNCHANGED <<msgVars, progress, rowVars, fileVars, faults>>

\* Mutant: a failed publication ends the run.
PublishFailsForGood ==
  /\ pc \in {"check", "rename"}
  /\ Fault("io") /\ HardFail
  /\ UNCHANGED <<msgVars, progress, run, step, source, snap, fileVars, published>>

\* Reading, writing, renaming or syncing a file fails: the run stays running.
PublishFails ==
  /\ pc \in {"check", "rename"}
  /\ Fault("io") /\ Abandon
  /\ UNCHANGED <<msgVars, progress, rowVars, fileVars, published>>

-----------------------------------------------------------------------------
(* Archive, truncate, finalize.                                            *)

Boundary(c) == Min({ckpt["event"][c], ckpt["memory"][c]})
Archivable(c) == Boundary(c) # 0 /\ committed[c] # {} /\ Latest(c) <= Boundary(c)

SkipSession(c) ==
  /\ pc = "archive" /\ c \in work.todo /\ ~Archivable(c)
  /\ work' = [work EXCEPT !.todo = @ \ {c}]
  /\ UNCHANGED <<msgVars, progress, rowVars, fileVars, cache, pc, mode, tries, published, faults>>

\* The snapshot is loaded and its archive written, unless the file already exists.
ArchiveSession(c) ==
  /\ pc = "archive" /\ c \in work.todo /\ Archivable(c)
  /\ \/ /\ archive' = IF archive[run][c] = {} THEN [archive EXCEPT ![run][c] = Range(session[c])] ELSE archive
        /\ work' = [work EXCEPT !.plan = {c}, !.loaded = session[c]]
        /\ GoTo("truncate") /\ NoFault
     \/ /\ work' = [work EXCEPT !.todo = @ \ {c}, !.pending = TRUE]
        /\ GoTo("archive") /\ Fault("io") /\ UNCHANGED archive
  /\ UNCHANGED <<msgVars, progress, rowVars, disk, cache, published>>

KeepRecent(s) == SubSeq(s, IF Len(s) > Keep THEN Len(s) - Keep + 1 ELSE 1, Len(s))

\* Mutant: the session is overwritten whatever its revision.
TruncateAny(c) ==
  /\ pc = "truncate" /\ c \in work.plan
  /\ session' = [session EXCEPT ![c] = KeepRecent(work.loaded)]
  /\ work' = [work EXCEPT !.todo = @ \ {c}, !.plan = {}, !.loaded = <<>>]
  /\ GoTo("archive")
  /\ UNCHANGED <<clock, inbox, committed, late, progress, rowVars, fileVars, cache, published, faults>>

\* truncate_session_messages: only while the revision is the one that was loaded.
Truncate(c) ==
  /\ pc = "truncate" /\ c \in work.plan
  /\ \/ /\ session' = IF session[c] = work.loaded THEN [session EXCEPT ![c] = KeepRecent(@)] ELSE session
        /\ work' = [work EXCEPT !.todo = @ \ {c}, !.plan = {}, !.loaded = <<>>] /\ NoFault
     \/ /\ work' = [work EXCEPT !.todo = @ \ {c}, !.plan = {}, !.loaded = <<>>, !.pending = TRUE]
        /\ Fault("db") /\ UNCHANGED session
  /\ GoTo("archive")
  /\ UNCHANGED <<clock, inbox, committed, late, progress, rowVars, fileVars, cache, published>>

\* finalize_sleep_run derives the status of the run from its steps.
DerivedStatus ==
  LET has(x) == \E s \in Steps : step[s] = x
  IN  IF has("pending") \/ has("running") THEN "failed"
      ELSE IF has("success") THEN (IF has("failed") THEN "partial_failure" ELSE "success")
      ELSE IF has("failed") THEN "failed" ELSE "skipped"

Finalize ==
  /\ pc = "archive" /\ work.todo = {} /\ ~work.pending
  /\ status' = [status EXCEPT ![run] = DerivedStatus]
  /\ Proceed
  /\ UNCHANGED <<msgVars, progress, run, step, source, snap, fileVars, published, faults>>

\* Some session could not be archived: the run stays running, also at startup.
ArchivePending ==
  /\ pc = "archive" /\ work.todo = {} /\ work.pending
  /\ IF mode = "batch" THEN Abandon ELSE Proceed
  /\ UNCHANGED <<msgVars, progress, rowVars, fileVars, published, faults>>

\* A failing read between two archives, or a failing finalize, is an error of the batch.
FinalizeFails ==
  /\ pc = "archive"
  /\ Fault("db")
  /\ IF mode = "batch" THEN HardFail ELSE UNCHANGED status /\ Abandon
  /\ UNCHANGED <<msgVars, progress, run, step, source, snap, fileVars, published>>

-----------------------------------------------------------------------------
Crash ==
  /\ pc # "down" /\ Fault("crash")
  /\ pc' = "down" /\ mode' = "startup" /\ tries' = 0 /\ cache' = NoCache /\ work' = NoWork
  /\ UNCHANGED <<msgVars, progress, rowVars, fileVars, published>>

\* recover_memory_publication precedes the dispatcher and the channels.
Start ==
  /\ pc = "down"
  /\ GoTo("recover")
  /\ UNCHANGED <<msgVars, progress, rowVars, fileVars, cache, work, published, faults>>

Executor ==
  \/ StartCycle \/ RecoverNone \/ RecoverIncomplete \/ RecoverPublication
  \/ Skip \/ Collect \/ Create \/ AlreadyRunning \/ PersistSources \/ Prepare \/ PrepareFails
  \/ StartEvent \/ CommitEvents \/ EventFails \/ EpisodicUpdate
  \/ StartMemory \/ CommitMemory \/ MemoryFails \/ StepError
  \/ EnsureSnapshots \/ CheckBase \/ Conflict \/ Rename \/ Published \/ PublishFails
  \/ \E c \in Chats : SkipSession(c) \/ ArchiveSession(c) \/ Truncate(c)
  \/ Finalize \/ ArchivePending \/ FinalizeFails
  \/ Start

Next ==
  \/ Executor
  \/ \E c \in Chats : Receive(c) \/ CommitInput(c) \/ CommitMessage(c)
  \/ LoadBundle
  \/ \E f \in File : Edit(f)
  \/ Crash

\* The scheduler loop and the service manager keep the executor going.
Spec == Init /\ [][Next]_vars /\ WF_vars(Executor)

-----------------------------------------------------------------------------
(* Properties.                                                             *)

Statuses == {"none", "running", "success", "partial_failure", "failed", "skipped"}
StepStates == {"pending", "running", "success", "failed", "skipped"}
Points == {"idle", "recover", "collect", "create", "source", "prepare", "event", "eventReply", "episodic",
           "memory", "memoryReply", "ensure", "check", "rename", "archive", "truncate", "down"}
Works == [plan : SUBSET Chats, base : Bundle, upto : [Chats -> 0..MaxMsg], batch : SUBSET Messages,
          events : 0..MaxRuns, next : 1..(Len(Files) + 1), touched : SUBSET File,
          todo : SUBSET Chats, loaded : Seq(Messages), pending : BOOLEAN]

\* The rows, files and locals of the batch keep their types; in particular a snapshot that a
\* run publishes is never half there, and the semantic checkpoint never passes the events.
TypeOK ==
  /\ clock \in 0..MaxMsg /\ inbox \in [Chats -> 0..MaxMsg] /\ late \subseteq Messages
  /\ committed \in [Chats -> SUBSET Messages] /\ session \in [Chats -> Seq(Messages)]
  /\ seen \in [Readers -> [Messages -> Nat]] /\ ckpt \in [Readers -> [Chats -> 0..MaxMsg]]
  /\ events \in 0..MaxRuns /\ sem \in 0..events
  /\ run \in 0..MaxRuns /\ status \in [Runs -> Statuses] /\ step \in [Steps -> StepStates]
  /\ source \subseteq Chats
  /\ snap \in [File -> [before : Content, after : Content] \cup {NoSnap["episodic"]}]
  /\ (pc \in {"check", "rename", "archive", "truncate"} => SnapComplete)
  /\ disk \in Bundle /\ archive \in [Runs -> [Chats -> SUBSET Messages]]
  /\ cache \in Bundle \cup {NoCache}
  /\ pc \in Points /\ mode \in {"startup", "retry", "batch"} /\ tries \in 0..MaxAttempts
  /\ work \in Works
  /\ published \subseteq 1..run /\ faults \in [{"crash", "io", "db", "edit"} -> 0..MaxFaults]

\* Every message below a step's checkpoint went into exactly one committed batch of that
\* step and none above it into any, over failing batches, retries and crashes.  The one
\* exception: a message that waited for its turn keeps the time of its arrival, and is
\* missed when the checkpoint has passed that time already.
ExactlyOnce ==
  \A s \in Readers, c \in Chats : \A m \in committed[c] :
     \/ seen[s][m] = IF m <= ckpt[s][c] THEN 1 ELSE 0
     \/ m \in late /\ seen[s][m] = 0

\* b shows the newest run's files either all as it found them or all as it left them, but
\* for files that were edited by hand.
Whole(b) ==
  LET agrees(side) == \A f \in File : b[f] > MaxRuns \/ b[f] = side[f]
  IN  \/ agrees([f \in File |-> snap[f].before])
      \/ agrees([f \in File |-> snap[f].after])

\* A prompt never sees a bundle of which one file is new and another old, also while the
\* files are being renamed and after a publication broke off half way.
PromptSeesWholeBundle == SnapComplete /\ cache # NoCache => Whole(cache)

\* A run that has ended left the three files on disk whole: no run is given up as failed
\* between two renames.
EndedRunLeavesWholeBundle == run # 0 /\ SnapComplete /\ ~Running => Whole(disk)

\* The executor overwrites a file only when it is as the run found or left it: an edit made
\* before the publication (or its recovery) compared the files survives.
EditKept ==
  [][\A f \in File : (disk'[f] # disk[f] /\ faults'.edit = faults.edit)
        => f \in work.touched \/ disk[f] \in {snap[f].before, snap[f].after}]_vars

\* No message leaves a session's snapshot before it is in an archive file, and none that a
\* step of sleep has yet to digest: truncation races with the turns of the session.  (A late
\* message can be lost: committed between the archive and a crash, it is older than the
\* boundary, so recovery keeps the archive file it finds and truncates the session.)
TruncatedIsKept ==
  \A c \in Chats : \A m \in (committed[c] \ Range(session[c])) \ late :
     /\ \E r \in Runs : m \in archive[r][c]
     /\ \A s \in Readers : m <= ckpt[s][c]

\* A run that changed the memory files is listed among the memory changes once it ends
\* (success or partial_failure), unless the database failed.
PublishedIsListed ==
  \A r \in published : faults.db = 0 => status[r] \in {"running", "success", "partial_failure"}

\* A run does not stay running: the retry of each cycle or the next start ends it, as long
\* as nobody edits a memory file.
RunEnds == (Running /\ faults.edit = 0) ~> (~Running \/ faults.edit > 0)

\* Whatever happens to the memory files, a run does not stay running for ever.
RunAlwaysEnds == Running ~> ~Running

\* Retries, crashes and turns that write meanwhile make no message be digested twice, skipped,
\* or cut off before it was digested and archived.
DigestedAndKept == ExactlyOnce /\ TruncatedIsKept

\* The three memory files change together for everyone who looks: the prompts, the next run,
\* and the list of memory changes.
WholeBundle == TypeOK /\ PromptSeesWholeBundle /\ EndedRunLeavesWholeBundle /\ PublishedIsListed
=============================================================================
