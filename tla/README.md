# Verification of EgoPulse

TLA+ models of the EgoPulse runtime (Rust, `src/src/`), TLC configurations that
check them on small instances, and TLAPS proofs of the properties that matter most.

EgoPulse is a long-lived process that accepts messages from several channels (Web,
Discord, Telegram, TUI, voice, webhooks, other agents), turns each into a *Turn* (a loop
of model calls and tool calls) and keeps everything in SQLite, so that an accepted Turn
survives a crash.  The hard part of the program is the life of a Turn: it is accepted,
queued, executed, resumed and ended by several tasks that share a database row, an
in-memory scheduler and a chain-wide counter, and each of them can fail or die between
any two steps.

## Inventory

| Part | State | Operations | Interacts with | Hard behaviour |
|---|---|---|---|---|
| Turn rows (`storage/turn.rs`, `storage/mod.rs`) | `turn_runs`: state, `output_published`, `current_iteration`; `turn_origins` | accept, input commit, begin/complete of model and tools, complete, fail, cancel, recovery, scans | every executor, dispatcher, startup | compare-and-set transitions under concurrent executors, crash between any two |
| Executor (`agent_loop/turn`, `agent_loop/loop_runner.rs`) | iteration, continuation | run, resume of `input_committed` and `tools_completed`, failure classification | rows, model, tools, conversation | swallowed errors, resume after side effects |
| Intake (`runtime/channel_input.rs`, `channels/web/stream.rs`) | none | reserve, durable accept, hand-over | rows, tracker, scheduler | crash between commit and hand-over |
| Scheduler (`runtime/turn/scheduler.rs`) | per session: current turn and queue; global count | submit, drain | intake, dispatcher, turn tasks | de-duplication, lost wake-ups, counter drift |
| Dispatcher (`runtime/turn/dispatch.rs`) | scanned page | scan, re-submit, terminate undecodable rows, promote staged follow-ups | rows, scheduler | stale pages, starvation, capacity |
| Turn tracker (`runtime/turn/scheduler.rs`) | per origin: executed count, reservations, stop reason | reserve, release, begin, resume, stop, rehydrate | intake, turn tasks, `turn_origins` | racing gates, counts rebuilt after a crash |
| Supervisor (`runtime/supervisor.rs`) | task sets, shutdown token | spawn, poll, shutdown | all tasks | panics, late spawns, deadlines |
| Conversation and staging (`storage/chat.rs`, `agent_loop/session.rs`, `agent_loop/compaction.rs`, `slash_commands.rs`) | messages, session snapshot and `chats.revision`, staged messages | commit, stage, promote, load, compact, clear | executors, intake, dispatcher, pulse, sleep | revision conflicts, staging that races the end of a tool phase, writers that hold an old snapshot |
| Agent loop and tool ledger (`agent_loop/`, `storage/tool.rs`) | iteration, attempts, `tool_calls` | request, stream, retry, claim, run, record, recover | provider, tools, rows | retry after partial output, unknown outcome of a running tool, repeated call ids, hanging providers |
| Observers (`runtime/turn/observer.rs`) | observers by request key | register, transfer, emit, finish | Web streams, turn tasks | transfer while the parent finishes |
| Web runs (`channels/web/`, `web/src/features/chat/useChatTransport.ts`) | channel per run with a bounded history, sockets, a tab's last sequence number | send, acknowledge, subscribe with replay, forward, reconnect | intake, observers, browser | lost connections and acknowledgements, events behind the history, restarts |
| Sleep (`sleep/`, `memory.rs`, `storage/sleep.rs`) | sleep runs, steps, checkpoints, snapshots, three memory files | cycle, claim, digest, publish, archive, truncate, recover | model, files, sessions | crash between database and files, edits by hand, retries |
| Pulse (`pulse/`, `storage/pulse.rs`, `tools/pulse.rs`) | definition file, `pulse_runs` | scan, claim, activate, notify, archive, edit, reap | model, channels, tool | periods claimed twice or missed, edits under a running activation, clock jumps |
| Configuration (`config/manager.rs`, `config/persist.rs`, `runtime/config_reload.rs`) | two files of one generation, published snapshot, watcher | update, save, roll back, reload, start | everything | racing writers, crash between the files |
| Schema (`storage/migration.rs`, `storage/mod.rs`) | version, tables, numbers of the messages | back up, refuse, migrate, serve | start-up | interrupted upgrades, downgrades, migrations that run again |
| Backups (`storage/backup.rs`, `runtime/backup_scheduler.rs`) | files, last run | create, verify, prune, schedule | start-up, configuration | files cut short, long stops |
| LLM providers, MCP, Codex authentication, chat channels, setup, skills | caches, connections, tokens | | | mostly I/O, wire formats and external services |

`PROJECT.json` lists every part with its status, and under `hazards` what can go wrong at
which line.

## Modules

* **`TurnRuns`**: the rows of `turn_runs` and everything that moves them.  One action per
  SQLite transaction or external call, so tasks interleave and the process dies between
  any two.  `state`, `published`, `iter` are columns; `msgs` is the kinds of conversation
  row a turn has written; `owned`, `submitted`, `page` are the scheduler and dispatcher
  reduced to sets (details in `TurnQueue`); `pc`, `it`, `aim` are an executor's position,
  loop counter and decision.  Turns in `Direct` have a second executor outside the
  scheduler, as the voice endpoint does.  `streamed` and `toolRuns` record what the world
  has seen.  `Crash` and `Restart` are process loss and `recover_interrupted_turns`.
* **`TurnPromise`**: what the runtime promises of a turn, in four actions, without rows or
  tasks.  `TurnRuns` refines it (`KeepsPromise`).
* **`TurnRunsProofs`**: the theorems about `TurnRuns`.
* **`TurnQueue`**: intake, in-memory slots and queues, dispatcher, drain, shutdown,
  panic and restart; a row is reduced to pending, active, at `tools_completed`, ended.
* **`TurnTracker`**: the per-chain limit and stop reasons, in memory and in
  `turn_origins`, with crash and rehydration.  `before` is `turn_origins` as the running
  process found it and `halted` collects the chains that some process found stopped;
  `StopSurvivesRestart` relates both to the turns that run.
* **`TurnQueueProofs`**: the theorems about `TurnQueue`.
* **`TurnObservers`**: the observer registry as functions of its contents, one per method:
  which client hears of which turn, how many turns it still waits for.
* **`Followups`** (extends `TurnObservers`): messages to a Web session that arrive while a
  turn is in its tool phase.  `owner` and `history` are columns of `messages`, `fed` counts
  how often the model was given a message, `intake` is the request that holds the session
  lock, `pc` the session's one executor, `phase` to `accepted` the dispatcher's promotion.
  Staging, listing, committing, accepting and deleting are separate transactions.
* **`FollowupsProofs`**: its theorems.
* **`AgentLoop`**: one executor in detail: requests to a provider that may answer anything,
  stream, fail or hang (`Provider`), the retries and the deadline, the tool phase with the
  ledger (`ledger` is `tool_calls`), denials, the durable row, storage errors, a crash,
  recovery and resume.  `ran` records the side effects, `shown`, `stored`, `discarded`,
  `spliced` what became of streamed text.
* **`SessionLog`**: one conversation, `rows` and the snapshot `snap` with its revision, under
  a turn, a pulse notification, the commands and sleep's truncation.  A writer loads,
  appends and stores under the optimistic lock, reloads once on a conflict and gives up on
  a second.  `dropped`, `cleared`, `overwritten`, `revived` record what took a message out
  of the snapshot.
* **`SleepRun`**: the sleep batch, one action per transaction, file read or rename.  A
  message is its position in the order of time stamps; `late` are those stored after a
  later one.  `seen` counts how often each step has digested a message.
* **`PulseCalendar`**, **`PulseRuns`**: the due keys and next firings as functions of a small
  calendar with a day on which the clock jumps; the scheduler, the tool, turns of the
  agent, notification and archive around one intention.
* **`ConfigStore`**: `config.yaml` and `.env` (each a generation and a value), the lock, the
  published snapshot, callers, watcher, hand editor, start-up and crash.  A fingerprint is
  the pair of files it hashes.  Every read and write of a file may fail; `watch.lost` says
  why the watcher has given up on content it never refused.
* **`WebRuns`**: one run and its follow-up's turn, the channel (`RunHub`), publisher,
  forwarders and two browser tabs.  Events are pairs of a channel and a number; a tab's
  `last` is the number it counts by and `base` the channel that number is of, a history
  variable like `mixed`, the channels it asked for by a number of another one.
* **`BackupFiles`**, **`SchemaUpgrade`**, **`Backups`**: the backup directory as a sequence;
  starts of a process with its backup and migrations, under releases that are swapped; the
  periodic backups over days.
* **`AgentLoopProofs`**, **`SleepRunProofs`**, **`PulseProofs`**, **`FilesProofs`**,
  **`SharedProofs`**: the theorems about `AgentLoop`, `SleepRun`, `PulseRuns` with its
  calendar; about `ConfigStore` and `Backups` with `SchemaUpgrade`; and about `TurnTracker`,
  `SessionLog` and `WebRuns`.
* `MCTurnQueue`, `MCTurnTracker`, `MCPulse` give the function-valued constants their values;
  `MCFollowups` adds the symmetry.  `MCShared`, `MCStaged` and `MCFiles` put two modules
  that do not share a variable into one run: `part` says which of them takes the steps of
  a behaviour, so that the states add up instead of multiplying, and each module keeps its
  own fairness.

Definitions whose comment calls them a mutant or a bug are deliberately wrong variants:
with one in place of the definition it names, TLC must find the property of the
same entry in `PROJECT.json` violated.

## Runs

| Run | Configuration | Checks | Shows | Distinct states |
|---|---|---|---|---|
| `runs_safety` | `TurnRuns_safety.cfg` | `FailedMeansNoToolRan`, `NoToolRerun`, `KeepsPromise`, `EveryTurnEnds` | one scheduler-run turn, three iterations, two crashes, undecodable rows, every step failing | 13,751 |
| `runs_direct` | `TurnRuns_direct.cfg` | `OutcomeShown`, `TerminalIsFinal` | the same turn also executed by its request task, with swallowed storage errors | 688,376 |
| `queue_safety` | `TurnQueue_safety.cfg` | `SlotsAgree`, `BusyHasTask`, `EndsUnlessPanic` | three turns of a session, capacities, shutdown, restart, one panic | 179,535 |
| `followups_safety` | `Followups_safety.cfg` | `FedOnce`, `RoutesClean`, `Kept` | three messages, two clients, one crash, refusal or failed deletion; symmetric in messages and clients | 4,184,587 |
| `staged_live` | `MCStaged.cfg` | `FollowupsSettle`; `UpgradeIsSafe`, `NumbersAreKept`, `StartsAgain` | two messages and a client, also with a failed look-up; two messages over two swaps of three releases, two crashes or failed backups | 528,276 |
| `shared_safety` | `MCShared.cfg` | `LogKept`, `RequestWhole`; `ChainAccounted`, `StopSurvivesRestart` | a turn, a notification and two commands or crashes on one conversation; three turns of a chain of limit two, two crashes | 1,660,989 |
| `loop_safety` | `AgentLoop_safety.cfg` | `EffectsOnce`, `EffectsOnRecord`, `TextAccountedFor`, `DenialStops`, `TurnEnds` | two iterations of up to two calls, any reply, one storage error, one crash | 1,115,363 |
| `sleep_safety` | `SleepRun_safety.cfg` | `DigestedAndKept`, `WholeBundle`, `EditKept`, `RunEnds` | two runs over two chats, a fault of any kind | 1,133,136 |
| `sleep_edit` | `SleepRun_edit.cfg` | `RunAlwaysEnds` (violated) | an edited memory file leaves its run running for ever | |
| `pulse_safety` | `PulseRuns_safety.cfg` | `FiresAsScheduled`, `RunsAreHonest`, `ScanFinishes` | two and a half days, every kind of schedule, edits, a fault or crash | 1,392,846 |
| `files_safety` | `MCFiles.cfg` | `SourceIsWhole`, `UpdatesKept`, `UpdatesAreLive`, `Converges`; `BackupsKept` | two callers, watcher and hand edits with two faults; backups of eight days with three failures | 1,400,480 |
| `web_safety` | `WebRuns_safety.cfg` | `StreamWhole`, `EndIsTold`, `ClientSettles` | two tabs, a run and one follow-up, one disconnect, late acknowledgement or restart | 888,023 |

Several of these are conjunctions of invariants that belong together; the parts are
defined and explained in the modules, and a counterexample to one of them can be narrowed
down by naming the part in the configuration:

| Property | Parts |
|---|---|
| `OutcomeShown` | `TypeOK`, `FailureVisible`, `CompletedHasReply` |
| `SlotsAgree` | `TypeOK`, `OneTaskPerSession`, `OwnedOnce`, `CountedExactly`, `QueuedHasNotBegun` |
| `ChainAccounted` | `TypeOK`, `ChainLimit`, `ReservedIsTracked`, `ReservationsReturned` |
| `RoutesClean` | `TypeOK`, `CleanBeforeScheduled`, `CountIsRoutes`, `DoneAfterAll` |
| `FollowupsSettle` | `Consumed` and `ClientTold` (liveness) |
| `UpgradeIsSafe` | `UpgradeTypeOK`, `VersionMeansLayout`, `LaterIsRefused`, `NextSeqIsFree`, `UpgradeIsReversible` |
| `LogKept` | `LogTypeOK`, `NoLost`, `ClearedStays`, `LockIsHonest`, `SnapFollowsRows` |
| `RequestWhole` | `CallsAnswered`, `OwnTurnShown`, `LatestUserShown` |
| `EffectsOnce` | `AtMostOnce`, `ResultIsOfTheCall`, `AnsweredInOrder` |
| `EffectsOnRecord` | `TypeOK`, `EffectIsOnRecord`, `FailedHadNoEffect`, `ResumableIsSettled` |
| `TextAccountedFor` | `OneVoice`, `ShownIsAccountedFor`, `SendsBounded` |
| `DigestedAndKept` | `ExactlyOnce`, `TruncatedIsKept` |
| `WholeBundle` | `TypeOK`, `PromptSeesWholeBundle`, `EndedRunLeavesWholeBundle`, `PublishedIsListed` |
| `FiresAsScheduled` | `OneRunPerPeriod`, `IntervalSpaced`, `NotMissed`, `ViewAgrees` |
| `RunsAreHonest` | `TypeOK`, `StoredWasSent`, `SuccessIsWhole`, `ArchivedRan` |
| `SourceIsWhole` | `ConfigTypeOK`, `OneGeneration`, `FingerprintHonest`, `Loadable` |
| `UpdatesKept` | `NoLostUpdate`, `ConflictMeansUntouched` |
| `UpdatesAreLive` | `RevisionNamesContent` and `OkMeansLive` (action properties) |
| `BackupsKept` | `BackupsTypeOK`, `AVerifiedBackupIsKept`, `NotPutOff` |
| `StreamWhole` | `WebTypeOK`, `NoGap`, `NoDoubleApply` |
| `EndIsTold` | `TerminalMeansOver`, `EndToldOnce`, `HeardHasChannel` |

The type invariant of `TurnRuns` and its tool properties other than those in the table are
theorems (see below).

Bounds. Turns of `TurnRuns` share nothing but the dispatcher's page, so one turn with all
its executors shows their interference; three iterations allow a tool phase before, at and
after a resumed iteration; two crashes allow a crash of a recovered turn.  `TurnQueue`
needs three turns of a session to have one running, one queued and one refused for
capacity, and a page that is out of date.  `TurnTracker` needs one turn more than the limit
and one crash more than a resumed turn.  `Followups` needs three messages for a turn with
two follow-ups that share its client, and two clients for one that comes after another has
left; `MaxTroubles` counts crashes, refusals and failed deletions together.  `AgentLoop`
needs two call ids and three inputs for a reused id with other arguments, two calls for a
block of reads beside a write, two iterations for a second phase.  `SessionLog` has one
turn at a time, as the session's lock has, and one notification and one command beside
it; two upsets allow a command and a restart.  `SleepRun` needs a second run for what the
first has left, and two chats for one that is archived when the process dies.
`PulseRuns` covers a change of day before and after the clock jump.  `ConfigStore` needs
two callers for a conflict, a setting that may not be reloaded and one that is invalid.
`WebRuns` needs a second tab for a channel that outlives its first.  `SchemaUpgrade` needs
three releases for an older one that opens what a newer one has left half done, two
messages for a number that is taken; the legacy database is at version 11, so that its
messages have no numbers.  `Backups` needs more days than twice the interval.  The
theorems hold for every value of the constants of their modules.

Fairness. Spawned tasks are polled by the tokio runtime, so an executor that can step does
(`WF` on its steps; model and tool calls carry timeouts); the dispatcher loops every five
seconds; a process that is down is restarted by the service manager.  In `TurnQueue` an
executor is reduced to moving its row, so the end of the row is strongly fair: the tool
loop is bounded by `MAX_TOOL_ITERATIONS`.  In `Followups` a request once begun is answered,
the dispatcher and the session's executor keep stepping; nobody has to write or leave.  In
`AgentLoop` the executor and the deadline's timer are fair, the provider is not: it may
hang.  In `SleepRun` the scheduler's cycle and the batch go on; in `PulseRuns` the scan,
whose activation has a time-out.  In `ConfigStore` a caller, the watcher and start-up go
on; nobody has to edit or to repair the files.  In `WebRuns` the server's tasks, the end
of the row and the subscription of an open socket are fair; a tab need not come back.  In
`SchemaUpgrade` a start goes on and a process that has ended is started again.  Crashes,
panics and errors are never fair.

Deadlock is checked in `followups_safety`, `staged_live`, `loop_safety`, `sleep_edit`,
`sleep_safety` and `pulse_safety`; elsewhere the work of a behaviour may simply be done.

## Where code and documents disagree

`sleep_edit` shows one of them: `docs/sleep.md:594` says that a memory file edited during
a run makes the run `failed`, and `sleep/scheduler.rs:71` that a conflict "cannot
permanently stall sleep until a restart".  `finalize_batch` leaves the run `running`, each
cycle's recovery refuses the edited file again, no new run can start, and the next start
of the process stops at `recovery_error`.  `RunEnds`, checked by `sleep_safety`, excepts
this case.

The others are stated in the modules and left out of the runs; with the property as the
only one of the configuration named here, TLC shows the counterexample.

* `TurnRuns!DuplicateExits` (`TurnRuns_direct.cfg`): `storage/turn.rs:602` says that a
  duplicate executor sees `Ok(false)` and leaves quietly.  `begin_turn_model_iteration`
  reads and writes in one transaction, so the duplicate gets a conflict, and its error path
  ends the owner's turn.
* `TurnRuns!FailedMeansNothingSeen` (`TurnRuns_safety.cfg`): `docs/session-lifecycle.md:231`
  calls a turn `failed` only when nothing was published; between a streamed answer and its
  persistence nothing durable says so.
* `TurnRuns!FailedMeansNoToolRan` with `MaxFaults = 1` (`TurnRuns_safety.cfg`):
  `mark_output_published` swallows a storage error and the tools run; a later failure is
  then recorded as `failed`, which invites the retry that `lifecycle.rs:281` warns of.
* `TurnQueue!SessionFifo` (`TurnQueue_safety.cfg`): `docs/api.md:320` promises FIFO per
  session; after a restart a new message is queued before the dispatcher has brought back
  the older ones.
* `TurnQueue!AcceptedEnds` (`TurnQueue_safety.cfg`): "no turn is ever permanently skipped"
  (`dispatch.rs:77`), but a panicking task leaves its slot taken and every turn behind it
  waits for the next restart.
* `Followups!AlwaysClean` with `MaxTroubles = 2` and two messages
  (`Followups_safety.cfg`): "All staged-row cleanup is complete before the accepted child is
  handed to the scheduler" (`dispatch.rs:197`).  If the deletion fails and the next
  promotion of the message is refused, the scan of that tick starts the child, whose input
  insert meets the staged row and fails the turn.  `CleanBeforeScheduled`, which is checked
  and proved, claims it up to the second failure.
* `TurnTracker!RecordedStopHolds` (`MCShared.cfg`): a chain "that already terminated keeps
  its terminal stop reason so the dispatcher does not silently resume it"
  (`scheduler.rs:491`), and an undecodable turn stops its chain "so the origin cannot be
  resumed without also observing this terminal failure" (`storage/turn.rs:909`).  Neither
  holds.  `fail_invalid_durable_turn` overwrites the recorded reason with
  `durable_payload_invalid`, which `StopReason` does not parse: a turn fails, the process
  dies, a queued turn of the chain cannot be decoded, the process dies again, and a third
  turn of the failed chain, at `tools_completed`, is resumed.  And `recover_origin_tracker`
  goes by rows past `input_committed`: a chain that was refused at its first turn is
  forgotten when the process dies before that turn is rejected, and runs if the agent is
  configured by then.  `StopSurvivesRestart` excepts the first case by name and leaves out
  chains without such a row; that a failure always has one, unless its write failed, is
  its second conjunct.
* `ConfigStore!FailedReadsAreRetried` (`MCFiles.cfg`): `docs/config.md:815` says that the
  watcher loads what has been stable for 500 ms.  A reload that fails with
  `ConfigReadFailed` is tried again.  But `read_dotenv` (`secret_ref.rs:313`) takes an
  unreadable `.env` for an empty one, and an `exec` reference may fail or time out
  (`secret_ref.rs:245`); `is_retryable_reload_error` counts both among the faults of the
  content, and a correct edit stays unpublished until the files change again.  `Converges`
  excepts this (`watch.lost = "unread"`), and content that came back while other content
  was being reloaded (`"moved"`).
* `SessionLog!NothingOverwritten` (`MCShared.cfg`): `docs/session-lifecycle.md:399` says that
  snapshots are saved under an optimistic lock.  `/compact` (`slash_commands.rs:264`) saves
  what it read before its summary was generated without the lock, and what was written
  meanwhile is gone from what the model is shown.
* `SchemaUpgrade!StagedIsKept` (`MCStaged.cfg`): the first block of `run_migrations` is
  guarded by `version < SCHEMA_VERSION` (`migration.rs:137`), so every upgrade sets the
  version back to 1 and applies all migrations again, though `docs/db.md:751` says that
  those not yet applied are run.  The twelfth then numbers rows without a number, "safe to
  re-run after a version rollback" (`migration.rs:814`), but a staged follow-up is such a
  row: it becomes part of the conversation and is never answered, or its number is taken
  and every start fails (`Collides`, excepted in `StartsAgain`).  For the same reason an
  interrupted upgrade leaves a version that an older release accepts (`fooled`, excepted in
  `LaterIsRefused`; `docs/db.md:755` says that it is refused).
* `UpgradeIsReversible` excepts a snapshot that failed its integrity check (`unsaved`):
  `run_startup_backup` then returns `Ok`, and the upgrade goes on without a backup, though
  `docs/db.md:789` and `storage/mod.rs:873` say that a failed backup stops the start.  It
  also excepts as many starts as there are generations: each makes a backup.
* `Backups!SchedulerGoesOn` (`MCFiles.cfg`): `compute_next_backup_run` is said to return
  `None` only for a configuration without a schedule (`storage/backup.rs:280`).  It also does
  when the last run is more than `2 * interval_days + 1` days back: after a long stop of the
  service the loop returns, at this and every later start, because only a periodic backup
  moves the last run on; what remains are the backups of start-up.
* `WebRuns` marks six cases that its properties except: a follow-up staged as its parent
  fails is announced as over and its turn's events go nowhere (`cut`; `docs/api.md` says
  that `terminal: false` announces it); a resumed turn emits no events (`hush`); a forwarder
  that finds no channel returns silently (`astray`); a tab that resumes by a number of an
  older channel gets only the later events of the new one (`mixed`); a slow socket loses
  events of the broadcast (`lossy`); the acknowledgement of a follow-up resets the tab's
  last sequence number, and the replay is applied again (`reset`).

## Proofs

TLAPS checks the eight proof modules, for every value of the constants that satisfies the
named assumptions of the modules.

**`TurnRuns`.** `TypeCorrect`, `FailureShown`, `ReplyStored`, `OutcomeIsShown` (their
conjunction) and `OutcomeFinal` need no assumption about faults. Each follows from one lemma
with a case per transaction (`RowStep`): a row and its conversation entry are written
together, and every write is a compare-and-set on the row. The four results about tools
(`RetryIsSafe`, `ToolsRunOnce`, `ToolsAreRecorded`, `PromiseKept`) assume `MaxFaults = 0`,
that is, that no storage error is swallowed; without it they fail (see above). They are not
inductive by themselves: that a failed turn has run no tool depends on where its executor
is. `IInv` adds it: the scheduler owns what runs (`OwnedInv`), a row with tool runs is
published and its iteration is at least theirs (`RowOK`), and each step of an executor finds
the rows `RowAt` allows, at its own iteration, before or after that iteration's tools
(`ExecOK`). `OtherStep`, `OwnStep` and `OwnedStep` show that executors of other turns, the
turn's own executor and the scheduler preserve it. `PromiseKept` maps each row to a phase of
`TurnPromise` and shows that every step is a step of the promise or a stutter (`PhaseStep`,
`HiddenStep`, `TransitionStep`, `FailTurnStep`, `PromiseStep`).

**`TurnQueue`.**  `QueueInv` is `TypeOK`, `OneTaskPerSession`, `OwnedOnce`, `CountedExactly`
and `SlotInv`: only accepted turns are submitted, and a turn whose execution has begun is
the one its session's slot names.  `SlotInv` is what makes the rest inductive: without it
a stale page could queue a turn that is running.  `SlotsInOrder`, `QueuedIsResumable`,
`SlotsAlwaysAgree` (both together) and `WakeUpNotLost` follow.

**`TurnTracker`.**  `LimitHolds` rests on `CountInv`: the turns of a chain past the gate are
never more than the counter, in memory or as rebuilt from rows by a restart.  `RowInv`
says which rows such turns have, so that the rebuilt count finds them.  `ReservationsKept`
uses `HoldInv` (reservations are exact until something of the chain has run) because a
recovered turn consumes a reservation it never made.  `ChainsAreAccounted` puts these
together.  `StoppedStaysStopped` (`StopSurvivesRestart`) holds for every stop reason and any
number of restarts.  It uses `StopInv`: a chain once found stopped never loses its recorded
reason nor the row that a restart counts, so that each rehydration stops it in memory
again unless the reason is the one that is not parsed.

**`Followups`.**  `ReadOnce` (`FedOnce`) and `NothingForgotten` (`Kept`) rest on
`FollowupInv`.  `FedOnce` alone is not inductive, because the follow-ups are listed and
committed in two transactions.  `ExecutorInv` says that an executor about to write has
listed all that is staged for its turn: its row is at `tools_completed`, so nothing more
is staged for it, and `PromotionInv` says that the dispatcher handles only messages of
turns that have ended, so nothing is taken away; it also says that a row is deleted only
when its message is a turn.

`RoutesStayClean` (`RoutesClean`) adds two invariants.  `CleanRows` follows a follow-up
between the acceptance of its turn and the deletion of its row (`Half`): without a failure
only the row being deleted is one; after one failure each is one that the promotion under
way, or the next one, takes up before the scan that would schedule its turn (`Awaited`).
After a second failure nothing of the kind holds (see above).  `ClientsOk` is the registry's
promise to each client (`SinkOk`): its count is the number of its routes as long as it lives,
who listens has a route for every turn of its own that has not ended, and who was told the
end has none.  A lemma per method of the registry (`register_if_absent`, `retain_observer`,
`finish`, `transfer_many`) shows that the promise is kept, with the cardinalities of the
sets of routes the method adds and takes.

**`AgentLoop`.**  The four safety properties of its run, with no assumption about the
provider, storage errors or crashes.  `TextIsAccountedFor` rests on `TalkInv`: what the row
says of the executor's position and iteration (`RowInv`), how many requests an attempt has
sent (`SendInv`), that only the last of them has streamed (`VoiceInv`), and that only the
current iteration's text is neither stored nor discarded (`TextInv`); a retry is safe only
because nothing has been streamed when it is taken.  `CallsActOnce` and
`EffectsStayOnRecord` rest on `ToolInv`: a call is claimed in the ledger while its tool acts
and until its result is written (`ClaimInv`), what has run is in the ledger with its own
input (`RanInv`), only the call that runs is in doubt and no resumable row has one
(`DoubtInv`), and the row is marked before anything acts unless the mark was lost
(`MarkInv`).  `DenialsStopEffects` follows from `ClaimInv`.

**`SleepRun`.**  `RunInv` says that the executor holds a running run from its creation to its
end.  `FilesChangeTogether` (`WholeBundle`) and `EditsAreKept` use `BundleInv`: which
snapshots of the run exist at each step, and that a file that changes belongs to a step that
succeeded (`SnapInv`); what the cache holds (`CacheInv`); and how far a publication has come
(`DiskInv`): up to the next rename the new side, beyond it one side or the other, but for
files edited by hand.  `WholeBundle` alone is not inductive, since a recovery after a crash
finds any mixture that the renames can leave.  `MessagesAreDigestedAndKept` uses `DigestInv`
(the batch a model is working on is everything beyond the checkpoint up to the message the
checkpoint will be moved to, so that a retry takes the same messages) and `ArchiveInv` (once
a run has archived a chat, what its session still holds below the boundary is in the
archive; a truncation under way has loaded nothing else).

**`PulseRuns`.**  `RunsStayHonest` and `PeriodsFireAsScheduled` state both invariants of its
run whole, for any schedules, intentions, edits, faults and hours that the clock jumps over.
The assumptions are that weekdays are days of the week, that there are finitely many
intentions, and that none has the name the model gives to an empty hand.  `HandInv` ties the
run in hand to its row, the youngest; `ToldInv` says what has been told at each step, so that
a claimed row is what makes a period fire once.  `RowsInv` keeps rows out of the future and
says that an interval run about to be claimed is its days away from every success, which
holds because one scan handles one intention at a time; `IntervalSpaced` needs it.  `WaitInv`
is the reason no dated reminder is missed: one that is due and has no run is excused or has
its scan still before it, and the clock cannot go on past an idle scheduler that has not
scanned.  `ViewAgrees` is no matter of steps: `FiresOnDay` reduces a firing to a property of
its day (`Open`: on its date, not jumped over, without a run), `FirstOpens` gives the first
one, and a lemma per kind of schedule (`ViewOfDaily`, `ViewOfWeekly`, `ViewOfInterval`,
`ViewOfOnce`) shows that the estimate names the first open day.

**`ConfigStore`.**  `SourceStaysWhole`, `NoUpdateIsLost` and `UpdatesTakeEffect` state all its
properties but liveness.  The lock is held exactly by who is inside its section (`LockInv`);
during a save or a rollback the generations of the two files follow from the writer's
position (`GenInv`), and so do their contents (`ContentInv`, `FreshInv`), as long as no edit
by hand raced; `BaseInv` says that of all callers past the check at most one still has a
base that can be saved, which is why the second of two overlapping callers is refused.

**`Backups`, `SchemaUpgrade`.**  Pruning goes by age, so `BackupsAreKept` needs more than
that a verified file exists: only unverified files are younger than it, and no more of them
than were left behind or are being written (`KeptInv`).  `UpgradesAreSafe` uses the same
argument for the snapshot from before an upgrade, counted in starts (`RestoreInv`), with
`VersionInv` (a migration's tables are there before its version is) and `NumberInv`
(there are no more numbers than numbered rows).  `NumbersNeverChange` is the action
property that re-run migrations renumber nothing.

**`SessionLog`.**  `LogIsKept` (`LogKept`) and `RequestIsWhole` (`RequestWhole`) assume that
there are finitely many turns (`SessionLogAssumption`), so that failure rows can be counted.
Both rest on `LogInv`.  `StoreInv` is what the snapshot is to the rows; `MemOk` says the same of
what a writer holds, and, if its revision is the stored one, that it covers all the snapshot
does but what a command took out: that is why a save that the lock lets through loses
nothing.  `RowsOk` gives the rows a writer has written by its position, so that an append is
new; `TurnOk` says that what a turn holds has all of its own rows and an output after every
call but the last; `CommandOk` is `MemOk` for the commands.  `Repair` and the truncation are
stated by positions (`InOrder`), and the lemmas on them say what they keep: which messages are
covered (`Covers`), that the order of the rows is kept (`Follows`), that a summary comes
first, and that every call has its output right after it (`RepairHolds`).

**`WebRuns`.** For any tabs, any length of the kept history and any number of troubles.
`StreamsStayWhole` (`StreamWhole`) rests on `StreamInv`. `HubOk` gives the events of a
channel consecutive numbers. For each tab, with what its forwarder still has to send
(`InFlight`): `PlaceOk` says that it is of one channel, ascending, and numbered below the
channel's next event; `WholeOk` that a tab without a loss has everything below the first
event in flight, and that the last one in flight is the channel's last, so that replay and
live events meet without a hole; `OnceOk` that nothing in flight has been applied, unless
the tab's count was set back. What a hole is excused by is kept per channel (`mixed`):
`astray` is cleared by the next acknowledgement, the transcript still has the hole.
`EndStaysTold` (`EndIsTold`) rests on `EndInv`: `TurnsAgree` ties the two turns, the staged
follow-up, the observer and the publisher together; `QueueAgrees` and `ChannelAgrees` say of
every end that waits or is in the channel that its turn has told it, once, and that an end
of the first turn that is not terminal has the child's end still to come (`ChildHeard`),
which is why the publisher and a late request never both announce it.

What is only model-checked is liveness (`EveryTurnEnds`, `EndsUnlessPanic`,
`FollowupsSettle`, `TurnEnds`, `RunEnds`, `ScanFinishes`, `Converges`, `ClientSettles`,
`StartsAgain`), which is outside TLAPS' reach.  Every safety invariant of the passing runs is
a theorem.

## Not modelled

* In the turn modules: texts and prompts; the order of follow-ups within one promotion; the
  retries of `retry_durable_storage_write` (`TurnQueue` has them as `GiveUp`); more than one
  executor in `Followups`; the pruning of idle origins after 24 hours.
* In `AgentLoop`: the transient retry of pulse activations, a tool whose class changes under
  an MCP reload, the durable attempt counter.
* In `SessionLog`: two turns of a session at once (the session lock forbids them), the
  merging of neighbours of one role, snapshots that cannot be parsed.
* In `SleepRun`: what the steps generate, the roll-ups of episodes, the backfill command.
* In `PulseRuns`: more than one agent and one intention id; hand edits of the file; a
  reminder removed and added again in one period, which its used key suppresses
  (`docs/pulse.md:392`).
* In `ConfigStore`: more than one setting and one secret; secrets taken from the process
  environment; a fingerprint whose two reads are interleaved with a save; the save of the
  setup wizard.
* In `WebRuns`: events other than those of the chat, which a tab applies whatever their
  number: its reducers insert, replace and remove by message or call id, so that a replay
  of them leaves the same transcript; slash commands as runs, the SSE endpoint, and the
  other Web pages.
* In `SchemaUpgrade` and `Backups`: the SQL of migrations other than the twelfth, the secret
  database (the same code, with a correct first guard), backups switched off, names that
  repeat when the clock is set back, a prune that fails halfway.
* Not at all: wire formats, terminal and network I/O, parsing and validation, MCP
  connections, Codex tokens, the supervision of tasks other than turns, the setup wizard,
  skills.  They are I/O around an external party, or sequential.

The modules stand for about a sixth of the Rust code outside its test modules.  What is
left is for the most part of the kinds just named; of the parts with state of their own,
the dispatch of Discord and Telegram messages, the caches of providers and the pages of
the Web interface would be the next to model.
