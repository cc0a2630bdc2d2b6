---------------------------- MODULE TurnTracker ----------------------------
(***************************************************************************)
(* Runaway prevention: the in-memory TurnTracker (runtime/turn/scheduler.rs)*)
(* that limits the turns of one human input (its origin) and refuses a     *)
(* chain that was stopped, its durable counterpart (turn_origins and the   *)
(* rows of turn_runs) and its rehydration at startup.                      *)
(*                                                                         *)
(* Turns of one origin run in different sessions, so any number of them    *)
(* may be between any two of these steps at once.  A behaviour is shorter  *)
(* than ORIGIN_TTL, so no origin is pruned.                                *)
(***************************************************************************)
EXTENDS Naturals, FiniteSets

CONSTANTS
    Turns, Origins,
    OriginOf,       \* the human input each turn stems from
    TooDeep,        \* turns beyond MAX_AGENT_CHAIN_DEPTH
    Undecodable,    \* turns whose stored request a restarted process cannot decode
    MaxTurns,       \* MAX_AGENT_TURNS_PER_INPUT
    MaxOrigins,     \* MAX_TRACKED_ORIGINS
    MaxCrashes,     \* bound on crashes
    MaxFaults       \* bound on failures that could not be written to the row

ASSUME TrackerAssumption ==
    /\ IsFiniteSet(Turns)
    /\ OriginOf \in [Turns -> Origins]
    /\ TooDeep \subseteq Turns /\ Undecodable \subseteq Turns
    /\ {MaxTurns, MaxOrigins, MaxCrashes, MaxFaults} \subseteq Nat

VARIABLES
    row,        \* turn_runs.state, as far as the tracker tells states apart
    origin,     \* turn_origins.terminal_reason
    tracked,    \* the keys of TurnTracker.origins
    executed,   \* OriginState.executed_turn_count
    reserved,   \* OriginState.pending_reservations
    stopped,    \* OriginState.terminal_reason
    page,       \* the rows the dispatcher has scanned and not yet re-submitted
    garbled,    \* rows the running process cannot decode
    step,       \* where each turn is in this process
    recovered,  \* turns re-submitted by the dispatcher, without a reservation
    called,     \* turns that have called the model
    before,     \* turn_origins as the running process found it
    halted,     \* chains that a process found stopped: a reason recorded, and a
                \*   turn past input_committed, without which nobody reads it
    crashes, faults

durable == <<row, origin>>
memory == <<tracked, executed, reserved, stopped>>
ghosts == <<called, before, halted, crashes, faults>>
dispatcher == <<page, garbled>>
vars == <<durable, memory, dispatcher, step, recovered, ghosts>>

(* queued stands for accepted and input_committed, tools for                *)
(* tools_completed, executing for the other states that are not terminal.   *)
Rows == {"none", "queued", "executing", "tools", "ended"}
Counted == {"executing", "tools", "ended"}
StopReasons == {"chain_depth_exceeded", "turn_count_exceeded", "agent_not_found", "llm_failure"}
Reasons == {"none", "durable_payload_invalid"} \cup StopReasons
Waiting == {"reserved", "queued", "prepared"}
Steps == {"idle", "running", "failing", "persistStop", "rejectRow"} \cup Waiting

Init ==
    /\ row = [t \in Turns |-> "none"]
    /\ origin = [o \in Origins |-> "none"]
    /\ tracked = {}
    /\ executed = [o \in Origins |-> 0]
    /\ reserved = [o \in Origins |-> 0]
    /\ stopped = [o \in Origins |-> "none"]
    /\ page = {} /\ garbled = {} /\ recovered = {} /\ called = {}
    /\ step = [t \in Turns |-> "idle"]
    /\ before = origin /\ halted = {}
    /\ crashes = 0 /\ faults = 0

Goto(t, s) == step' = [step EXCEPT ![t] = s]

(* The task of the turn is over; the scheduler no longer owns it. *)
Done(t) == Goto(t, "idle") /\ recovered' = recovered \ {t}

(* pending_reservations.saturating_sub(1) *)
Unreserve(o) == IF reserved[o] = 0 THEN 0 ELSE reserved[o] - 1

-----------------------------------------------------------------------------
(* A turn is the human input that starts its chain, or is sent by           *)
(* agent_send in the tool phase of a turn of the same chain.                *)
Sent(t) == LET chain == {u \in Turns : OriginOf[u] = OriginOf[t]} IN
    \/ t \notin TooDeep /\ \A u \in chain : row[u] = "none" /\ step[u] = "idle"
    \/ \E u \in chain : step[u] = "running" /\ row[u] = "executing"

(* reserve, before the request is committed: a stopped chain and a new      *)
(* origin beyond the capacity are refused.                                  *)
Reserve(t) == LET o == OriginOf[t] IN
    /\ step[t] = "idle" /\ row[t] = "none" /\ Sent(t)
    /\ IF o \in tracked THEN stopped[o] = "none" ELSE Cardinality(tracked) < MaxOrigins
    /\ tracked' = tracked \cup {o}
    /\ reserved' = [reserved EXCEPT ![o] = @ + 1]
    /\ Goto(t, "reserved")
    /\ UNCHANGED <<durable, executed, stopped, dispatcher, recovered, ghosts>>

(* release: an origin that holds nothing is forgotten.                      *)
Release(o) ==
    /\ reserved' = [reserved EXCEPT ![o] = Unreserve(o)]
    /\ tracked' = IF Unreserve(o) = 0 /\ executed[o] = 0 /\ stopped[o] = "none"
                  THEN tracked \ {o} ELSE tracked

(* durably_accept_turn commits the row, or fails and gives the reservation  *)
(* back.                                                                    *)
CommitAccept(t) ==
    /\ step[t] = "reserved"
    /\ \/ /\ row' = [row EXCEPT ![t] = "queued"]
          /\ Goto(t, "queued")
          /\ UNCHANGED <<tracked, reserved>>
       \/ /\ Goto(t, "idle")
          /\ Release(OriginOf[t])
          /\ UNCHANGED row
    /\ UNCHANGED <<origin, executed, stopped, dispatcher, recovered, ghosts>>

(* scan_durable_resumable_turns_after *)
Scan ==
    /\ page = {}
    /\ page' = {t \in Turns : row[t] \in {"queued", "tools"}}
    /\ page' # {}
    /\ UNCHANGED <<durable, memory, garbled, step, recovered, ghosts>>

(* enqueue_durable_turn: no reservation is made; a turn the scheduler owns  *)
(* is left alone, but a row that ended since the scan is submitted again.   *)
Recover(t) ==
    /\ t \in page \ garbled /\ page' = page \ {t}
    /\ \/ step[t] # "idle" /\ UNCHANGED <<step, recovered>>
       \/ /\ step[t] = "idle"
          /\ Goto(t, "queued")
          /\ recovered' = recovered \cup {t}
    /\ UNCHANGED <<durable, memory, garbled, ghosts>>

(* fail_invalid_durable_turn: the row and its origin in one transaction,    *)
(* whatever reason was recorded there; the tracker in memory is not told.   *)
TerminalizeInvalid(t) ==
    /\ t \in page \cap garbled /\ page' = page \ {t}
    /\ row[t] \in {"queued", "tools"}
    /\ row' = [row EXCEPT ![t] = "ended"]
    /\ origin' = [origin EXCEPT ![OriginOf[t]] = "durable_payload_invalid"]
    /\ UNCHANGED <<memory, garbled, step, recovered, ghosts>>

-----------------------------------------------------------------------------
(* prepare_scheduled_turn: a stopped chain's turn is rejected.              *)
Prepare(t) == LET o == OriginOf[t] IN
    /\ step[t] = "queued"
    /\ \/ /\ stopped[o] # "none"
          /\ row' = [row EXCEPT ![t] = "ended"]
          /\ Release(o)
          /\ Done(t)
       \/ /\ stopped[o] = "none"
          /\ Goto(t, "prepared")
          /\ UNCHANGED <<row, tracked, reserved, recovered>>
    /\ UNCHANGED <<origin, executed, stopped, dispatcher, ghosts>>

(* Mutant of StopCondition: the limit is compared with the turns before     *)
(* this one.                                                                *)
StopConditionLate(t, count, known) ==
    IF count > MaxTurns + 1 THEN "turn_count_exceeded" ELSE "none"

(* evaluate_stop_conditions, for a turn whose agent is configured or not.   *)
StopCondition(t, count, known) ==
    IF t \in TooDeep THEN "chain_depth_exceeded"
    ELSE IF count > MaxTurns THEN "turn_count_exceeded"
    ELSE IF ~known THEN "agent_not_found"
    ELSE "none"

(* try_begin_execution: every check and the count under one lock.           *)
BeginExecution(t) == LET o == OriginOf[t] IN
    /\ step[t] = "prepared" /\ row[t] # "tools"
    /\ tracked' = tracked \cup {o}
    /\ reserved' = [reserved EXCEPT ![o] = Unreserve(o)]
    /\ \/ /\ stopped[o] # "none"
          /\ Goto(t, "persistStop")
          /\ UNCHANGED <<executed, stopped>>
       \/ /\ stopped[o] = "none"
          /\ \E known \in BOOLEAN :
                LET reason == StopCondition(t, executed[o] + 1, known) IN
                \/ /\ reason # "none"
                   /\ stopped' = [stopped EXCEPT ![o] = reason]
                   /\ Goto(t, "persistStop")
                   /\ UNCHANGED executed
                \/ /\ reason = "none"
                   /\ executed' = [executed EXCEPT ![o] = @ + 1]
                   /\ Goto(t, "running")
                   /\ UNCHANGED stopped
    /\ UNCHANGED <<durable, dispatcher, recovered, ghosts>>

(* try_resume_execution: a turn that ran its tools is already counted.      *)
ResumeExecution(t) == LET o == OriginOf[t] IN
    /\ step[t] = "prepared" /\ row[t] = "tools"
    /\ tracked' = tracked \cup {o}
    /\ Goto(t, IF stopped[o] = "none" THEN "running" ELSE "persistStop")
    /\ UNCHANGED <<durable, executed, reserved, stopped, dispatcher, recovered, ghosts>>

(* persist_origin_terminal_reason ...                                       *)
PersistStop(t) ==
    /\ step[t] = "persistStop"
    /\ origin' = [origin EXCEPT ![OriginOf[t]] = stopped[OriginOf[t]]]
    /\ Goto(t, "rejectRow")
    /\ UNCHANGED <<row, memory, dispatcher, recovered, ghosts>>

(* ... then persist_turn_rejection, in a transaction of its own.            *)
RejectRow(t) ==
    /\ step[t] = "rejectRow"
    /\ row' = [row EXCEPT ![t] = "ended"]
    /\ Done(t)
    /\ UNCHANGED <<origin, memory, dispatcher, ghosts>>

-----------------------------------------------------------------------------
(* The executor calls the model (TurnRuns has the steps of the row).        *)
CallModel(t) ==
    /\ step[t] = "running" /\ row[t] \in {"queued", "tools"}
    /\ row' = [row EXCEPT ![t] = "executing"]
    /\ called' = called \cup {t}
    /\ UNCHANGED <<origin, memory, dispatcher, step, recovered, before, halted, crashes, faults>>

CompleteTools(t) ==
    /\ step[t] = "running" /\ row[t] = "executing"
    /\ row' = [row EXCEPT ![t] = "tools"]
    /\ UNCHANGED <<origin, memory, dispatcher, step, recovered, ghosts>>

(* complete_turn, or the saved reply of a row that ended before.            *)
CompleteTurn(t) ==
    /\ step[t] = "running" /\ row[t] \in {"executing", "tools", "ended"}
    /\ row' = [row EXCEPT ![t] = "ended"]
    /\ Done(t)
    /\ UNCHANGED <<origin, memory, dispatcher, ghosts>>

(* The turn fails: fail_turn_and_terminate_origin writes row and origin,    *)
(* fail_resume_permanently only the row, and a storage error neither.       *)
FailTurn(t) ==
    /\ step[t] = "running" /\ row[t] # "ended"
    /\ \/ /\ row' = [row EXCEPT ![t] = "ended"]
          /\ \/ origin' = [origin EXCEPT ![OriginOf[t]] = "llm_failure"]
             \/ row[t] # "executing" /\ UNCHANGED origin
          /\ UNCHANGED faults
       \/ /\ faults < MaxFaults /\ faults' = faults + 1
          /\ UNCHANGED <<row, origin>>
    /\ Goto(t, "failing")
    /\ UNCHANGED <<memory, dispatcher, recovered, called, before, halted, crashes>>

(* set_terminal_reason in memory, before the stop is persisted once more.   *)
SetTerminalReason(t) == LET o == OriginOf[t] IN
    /\ step[t] = "failing" /\ stopped[o] # "llm_failure"
    /\ tracked' = tracked \cup {o}
    /\ stopped' = [stopped EXCEPT ![o] = "llm_failure"]
    /\ UNCHANGED <<durable, executed, reserved, dispatcher, step, recovered, ghosts>>

PersistFailure(t) == LET o == OriginOf[t] IN
    /\ step[t] = "failing" /\ stopped[o] = "llm_failure"
    /\ origin' = [origin EXCEPT ![o] = "llm_failure"]
    /\ Done(t)
    /\ UNCHANGED <<row, memory, dispatcher, ghosts>>

-----------------------------------------------------------------------------

(* recover_origin_tracker: the rows past input_committed, by origin.        *)
RecoveredCount(r, o) == Cardinality({t \in Turns : OriginOf[t] = o /\ r[t] \in Counted})

(* Mutant of Rehydrated: only the counts are restored. *)
RehydratedCountOnly(r, o) == "none"

(* rehydrate_executed: an origin with no counted row is not rehydrated, nor *)
(* is a reason that StopReason does not parse.                              *)
Rehydrated(r, o) == IF RecoveredCount(r, o) > 0 /\ origin[o] \in StopReasons
                    THEN origin[o] ELSE "none"

(* A crash, recover_interrupted_turns and the rehydration of the tracker.   *)
Crash ==
    /\ crashes < MaxCrashes /\ crashes' = crashes + 1
    /\ row' = [t \in Turns |-> IF row[t] = "executing" THEN "ended" ELSE row[t]]
    /\ step' = [t \in Turns |-> "idle"]
    /\ page' = {} /\ recovered' = {}
    /\ garbled' = {t \in Undecodable : row[t] # "none"}
    /\ tracked' = {o \in Origins : RecoveredCount(row', o) > 0}
    /\ executed' = [o \in Origins |-> RecoveredCount(row', o)]
    /\ reserved' = [o \in Origins |-> 0]
    /\ stopped' = [o \in Origins |-> Rehydrated(row', o)]
    /\ before' = origin
    /\ halted' = halted \cup {o \in Origins : origin[o] # "none" /\ RecoveredCount(row', o) > 0}
    /\ UNCHANGED <<origin, called, faults>>

Next ==
    \/ \E t \in Turns :
          \/ Reserve(t) \/ CommitAccept(t) \/ Recover(t) \/ TerminalizeInvalid(t)
          \/ Prepare(t) \/ BeginExecution(t) \/ ResumeExecution(t)
          \/ PersistStop(t) \/ RejectRow(t)
          \/ CallModel(t) \/ CompleteTools(t) \/ CompleteTurn(t)
          \/ FailTurn(t) \/ SetTerminalReason(t) \/ PersistFailure(t)
    \/ Scan
    \/ Crash

Spec == Init /\ [][Next]_vars

-----------------------------------------------------------------------------
(* Every variable has its type. *)
TypeOK ==
    /\ row \in [Turns -> Rows]
    /\ origin \in [Origins -> Reasons] /\ before \in [Origins -> Reasons]
    /\ tracked \subseteq Origins /\ halted \subseteq Origins
    /\ executed \in [Origins -> Nat] /\ reserved \in [Origins -> Nat]
    /\ stopped \in [Origins -> {"none"} \cup StopReasons]
    /\ page \subseteq Turns /\ garbled \subseteq Turns
    /\ recovered \subseteq Turns /\ called \subseteq Turns
    /\ step \in [Turns -> Steps]
    /\ crashes \in 0..MaxCrashes /\ faults \in 0..MaxFaults

CalledOf(o) == {t \in called : OriginOf[t] = o}

(* One human input never makes more than MAX_AGENT_TURNS_PER_INPUT turns    *)
(* call the model, however they race and however often the process crashes. *)
ChainLimit == \A o \in Origins : Cardinality(CalledOf(o)) <= MaxTurns

(* The turns of an origin that have called the model or still may without   *)
(* passing the gate again. *)
Spent(o) == {t \in Turns : OriginOf[t] = o /\ (t \in called \/ step[t] = "running")}

(* The tracker never counts fewer turns than have called the model or are   *)
(* about to, and no turn is past the gate beyond the limit: a crash drops   *)
(* the count of a turn only while nothing of it has happened.               *)
LimitInv ==
    /\ \A t \in Turns : t \in called => row[t] \in Counted
    /\ \A t \in Turns : row[t] = "tools" => t \in called
    /\ \A o \in Origins :
          /\ Cardinality(Spent(o)) <= executed[o]
          /\ Cardinality(Spent(o)) <= MaxTurns

(* A turn that holds a reservation keeps its origin tracked: no release of  *)
(* another turn, recovered or rejected, makes the tracker forget it.        *)
ReservedIsTracked ==
    \A t \in Turns : step[t] \in Waiting /\ t \notin recovered => OriginOf[t] \in tracked

Holders(o) ==
    {t \in Turns : OriginOf[t] = o /\ t \notin recovered /\ step[t] \in Waiting}

(* No reservation leaks: an origin holds at most one for each of its turns  *)
(* that still waits for its first execution.                                *)
ReservationsReturned ==
    \A o \in Origins : reserved[o] <= Cardinality(Holders(o))

(* A chain that was found stopped, for whatever reason and however many     *)
(* restarts ago, runs no turn, except after fail_invalid_durable_turn has   *)
(* put durable_payload_invalid, which StopReason does not parse, in place   *)
(* of the recorded reason.  A failure is always found, unless it could not  *)
(* be written to the turn's row.                                            *)
StopSurvivesRestart ==
    /\ \A t \in Turns : LET o == OriginOf[t] IN
          step[t] = "running" /\ o \in halted => before[o] = "durable_payload_invalid"
    /\ faults = 0 => \A o \in Origins : before[o] = "llm_failure" => o \in halted

(* "so the origin cannot be resumed without also observing this terminal    *)
(* failure" (storage/turn.rs:909): a chain with a reason recorded when the  *)
(* process started runs nothing.  Not so (MCShared.cfg), in two ways: a     *)
(* turn of a failed chain, at tools_completed, runs after a second crash    *)
(* when the queued turn behind it could not be decoded; and a chain stopped *)
(* at its first turn runs after a crash between PersistStop and RejectRow,  *)
(* as RecoveredCount is zero.                                               *)
RecordedStopHolds ==
    \A t \in Turns : step[t] = "running" => before[OriginOf[t]] = "none"

(* The tracker's accounts of a chain: the limit holds over crashes, no      *)
(* reservation leaks and none is forgotten while a turn still waits on it.  *)
ChainAccounted == TypeOK /\ ChainLimit /\ ReservedIsTracked /\ ReservationsReturned
=============================================================================
