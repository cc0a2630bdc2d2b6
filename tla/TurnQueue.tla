----------------------------- MODULE TurnQueue -----------------------------
(***************************************************************************)
(* Intake, in-memory scheduler and dispatcher: how an accepted Turn comes  *)
(* to be executed (runtime/channel_input.rs, runtime/turn/scheduler.rs,    *)
(* runtime/turn/dispatch.rs, storage/turn.rs accept_or_get_turn).          *)
(*                                                                         *)
(* The life of the row inside an execution is TurnRuns; here it is only    *)
(* pending (accepted, input_committed), active, at tools_completed, which  *)
(* the dispatcher also selects, or ended.                                  *)
(***************************************************************************)
EXTENDS Naturals, Sequences, FiniteSets

CONSTANTS
    Turns, Sessions, Scopes,
    SessionOf,          \* the session key of each turn
    ScopeOf,            \* the database scope of each session
    Serialized,         \* sessions whose intake holds lock_session (Web)
    Nobody,             \* no turn
    SessionQueueCap,    \* MAX_QUEUED_TURNS_PER_SESSION
    GlobalQueueCap,     \* MAX_GLOBAL_QUEUED_TURNS
    DurableSessionCap,  \* MAX_DURABLE_PENDING_PER_SESSION
    DurableScopeCap,    \* MAX_DURABLE_PENDING_PER_SCOPE
    MaxRestarts,        \* bound on restarts
    MaxPanics           \* bound on panicking turn tasks

ASSUME QueueAssumption ==
    /\ IsFiniteSet(Turns) /\ Nobody \notin Turns
    /\ SessionOf \in [Turns -> Sessions]
    /\ ScopeOf \in [Sessions -> Scopes] /\ Serialized \subseteq Sessions
    /\ {SessionQueueCap, GlobalQueueCap, DurableSessionCap, DurableScopeCap,
        MaxRestarts, MaxPanics} \subseteq Nat

VARIABLES
    row,            \* the durable state of each turn
    order,          \* accepted turns by (accepted_at, turn_id)
    handed,         \* committed turns on their way to schedule_and_spawn
    current,        \* each session's TurnSlot.current_turn_id
    queue,          \* each session's TurnSlot.queue
    globalQueued,   \* SchedulerInner.global_queued
    fresh,          \* turn tasks that have not passed prepare_scheduled_turn
    running,        \* turn tasks that have
    page,           \* the dispatcher's scanned rows still to be re-submitted
    stopping,       \* shutdown has begun
    restarts,
    panics

durable == <<row, order>>
slots == <<current, queue, globalQueued>>
tasks == <<fresh, running>>
bounds == <<restarts, panics>>
vars == <<durable, handed, slots, tasks, page, stopping, bounds>>

Elements(s) == {s[i] : i \in 1..Len(s)}

Owned(s) == ({current[s]} \cup Elements(queue[s])) \ {Nobody}

Rows == {"none", "pending", "active", "tools", "ended"}

Init ==
    /\ row = [t \in Turns |-> "none"]
    /\ order = <<>>
    /\ handed = {} /\ fresh = {} /\ running = {}
    /\ current = [s \in Sessions |-> Nobody]
    /\ queue = [s \in Sessions |-> <<>>]
    /\ globalQueued = 0
    /\ page = {}
    /\ stopping = FALSE
    /\ restarts = 0 /\ panics = 0

-----------------------------------------------------------------------------
Pending(s) == {u \in Turns : SessionOf[u] = s /\ row[u] = "pending"}

PendingInScope(c) == {u \in Turns : ScopeOf[SessionOf[u]] = c /\ row[u] = "pending"}

(* accept_or_get_turn under accept_scheduled_turn: refused during shutdown  *)
(* and beyond the durable capacities, both counted in the same transaction  *)
(* as the INSERT.  accept_web_input holds the session lock until the turn   *)
(* is scheduled.                                                            *)
Accept(t) ==
    /\ row[t] = "none" /\ ~stopping
    /\ SessionOf[t] \in Serialized => \A u \in handed : SessionOf[u] # SessionOf[t]
    /\ Cardinality(Pending(SessionOf[t])) < DurableSessionCap
    /\ Cardinality(PendingInScope(ScopeOf[SessionOf[t]])) < DurableScopeCap
    /\ row' = [row EXCEPT ![t] = "pending"]
    /\ order' = Append(order, t)
    /\ handed' = handed \cup {t}
    /\ UNCHANGED <<slots, tasks, page, stopping, bounds>>

(* Mutant of Submit: only the queue is searched for the turn. *)
SubmitOverlooksCurrent(t) == LET s == SessionOf[t] IN
    \/ /\ stopping \/ t \in Elements(queue[s]) \/ Len(queue[s]) >= SessionQueueCap
       /\ UNCHANGED <<slots, fresh>>
    \/ /\ ~stopping /\ current[s] = Nobody
       /\ current' = [current EXCEPT ![s] = t]
       /\ fresh' = fresh \cup {t}
       /\ UNCHANGED <<queue, globalQueued>>
    \/ /\ ~stopping /\ t \notin Elements(queue[s]) /\ current[s] # Nobody
       /\ Len(queue[s]) < SessionQueueCap /\ globalQueued < GlobalQueueCap
       /\ queue' = [queue EXCEPT ![s] = Append(@, t)]
       /\ globalQueued' = globalQueued + 1
       /\ UNCHANGED <<current, fresh>>

(* TurnScheduler::submit and schedule_and_spawn: a turn already owned or    *)
(* over capacity is left to its owner or to the next dispatcher tick.       *)
Submit(t) == LET s == SessionOf[t] IN
    \/ /\ \/ stopping
          \/ t \in Owned(s)
          \/ /\ current[s] # Nobody
             /\ Len(queue[s]) >= SessionQueueCap \/ globalQueued >= GlobalQueueCap
       /\ UNCHANGED <<slots, fresh>>
    \/ /\ ~stopping /\ t \notin Owned(s) /\ current[s] = Nobody
       /\ current' = [current EXCEPT ![s] = t]
       /\ fresh' = fresh \cup {t}
       /\ UNCHANGED <<queue, globalQueued>>
    \/ /\ ~stopping /\ t \notin Owned(s) /\ current[s] # Nobody
       /\ Len(queue[s]) < SessionQueueCap /\ globalQueued < GlobalQueueCap
       /\ queue' = [queue EXCEPT ![s] = Append(@, t)]
       /\ globalQueued' = globalQueued + 1
       /\ UNCHANGED <<current, fresh>>

(* submit_scheduled_turn after the commit. *)
HandOver(t) ==
    /\ t \in handed
    /\ handed' = handed \ {t}
    /\ Submit(t)
    /\ UNCHANGED <<durable, running, page, stopping, bounds>>

(* Mutant of Scan: rows at tools_completed are not selected. *)
ScanPending ==
    /\ page = {}
    /\ page' = {t \in Turns : row[t] = "pending"}
    /\ page' # {}
    /\ UNCHANGED <<durable, handed, slots, tasks, stopping, bounds>>

(* scan_durable_resumable_turns_after, from the head of the backlog ...     *)
Scan ==
    /\ page = {}
    /\ page' = {t \in Turns : row[t] \in {"pending", "tools"}}
    /\ page' # {}
    /\ UNCHANGED <<durable, handed, slots, tasks, stopping, bounds>>

(* The rows of a page come in the order of acceptance ...                   *)
First(t) == \E i \in 1..Len(order) :
    order[i] = t /\ \A j \in 1..(i - 1) : order[j] \notin page

(* ... and enqueue_durable_turn submits one after the other.                *)
Dispatch(t) ==
    /\ t \in page /\ First(t)
    /\ page' = page \ {t}
    /\ Submit(t)
    /\ UNCHANGED <<durable, handed, running, stopping, bounds>>

-----------------------------------------------------------------------------
(* A turn task: execute_scheduled_turn.                                     *)

(* prepare_scheduled_turn lets the task go on, or stops it, without         *)
(* draining, when shutdown has begun.                                       *)
Prepare(t) ==
    /\ t \in fresh
    /\ fresh' = fresh \ {t}
    /\ running' = IF stopping THEN running ELSE running \cup {t}
    /\ UNCHANGED <<durable, handed, slots, page, stopping, bounds>>

(* The executor moves the row on (see TurnRuns). *)
Work(t) ==
    /\ t \in running
    /\ \/ row[t] \in {"pending", "tools"} /\ row' = [row EXCEPT ![t] = "active"]
       \/ row[t] = "active" /\ row' = [row EXCEPT ![t] = "tools"]
       \/ row[t] \in {"pending", "active", "tools"} /\ row' = [row EXCEPT ![t] = "ended"]
    /\ UNCHANGED <<order, handed, slots, tasks, page, stopping, bounds>>

(* Mutant of Drain: the next turn is dequeued but not started. *)
DrainSleeps(t) == LET s == SessionOf[t] IN
    /\ t \in running /\ row[t] = "ended" /\ queue[s] # <<>>
    /\ running' = running \ {t}
    /\ queue' = [queue EXCEPT ![s] = Tail(@)]
    /\ current' = [current EXCEPT ![s] = Head(queue[s])]
    /\ globalQueued' = globalQueued - 1
    /\ UNCHANGED <<durable, handed, fresh, page, stopping, bounds>>

(* on_turn_completed and drain_next_queued_turn: the same task goes on with *)
(* the next queued turn, or the slot is removed.                            *)
Drain(t) == LET s == SessionOf[t] IN
    /\ t \in running /\ row[t] = "ended"
    /\ running' = running \ {t}
    /\ \/ /\ queue[s] # <<>>
          /\ queue' = [queue EXCEPT ![s] = Tail(@)]
          /\ current' = [current EXCEPT ![s] = Head(queue[s])]
          /\ globalQueued' = globalQueued - 1
          /\ fresh' = IF stopping THEN fresh ELSE fresh \cup {Head(queue[s])}
       \/ /\ queue[s] = <<>>
          /\ current' = [current EXCEPT ![s] = Nobody]
          /\ UNCHANGED <<queue, globalQueued, fresh>>
    /\ UNCHANGED <<durable, handed, page, stopping, bounds>>

(* retry_durable_storage_write gives up during shutdown: the task ends      *)
(* without draining.                                                        *)
GiveUp(t) ==
    /\ stopping /\ t \in running
    /\ running' = running \ {t}
    /\ UNCHANGED <<durable, handed, slots, fresh, page, stopping, bounds>>

(* spawn_turn suppresses a panic: nobody drains the slot.                   *)
Panic(t) ==
    /\ t \in running /\ panics < MaxPanics
    /\ panics' = panics + 1
    /\ running' = running \ {t}
    /\ UNCHANGED <<durable, handed, slots, fresh, page, stopping, restarts>>

(* RuntimeSupervisor::shutdown; the service manager starts the process again.*)
Shutdown ==
    /\ ~stopping /\ stopping' = TRUE
    /\ restarts < MaxRestarts
    /\ UNCHANGED <<durable, handed, slots, tasks, page, bounds>>

(* The process ends, by shutdown or crash, and starts again: the rows       *)
(* survive, interrupted ones are ended by recover_interrupted_turns.        *)
Restart ==
    /\ restarts < MaxRestarts /\ restarts' = restarts + 1
    /\ row' = [t \in Turns |-> IF row[t] = "active" THEN "ended" ELSE row[t]]
    /\ handed' = {} /\ fresh' = {} /\ running' = {}
    /\ current' = [s \in Sessions |-> Nobody]
    /\ queue' = [s \in Sessions |-> <<>>]
    /\ globalQueued' = 0 /\ page' = {} /\ stopping' = FALSE
    /\ UNCHANGED <<order, panics>>

Next ==
    \/ \E t \in Turns :
          \/ Accept(t) \/ HandOver(t) \/ Prepare(t) \/ Work(t) \/ Drain(t)
          \/ Dispatch(t) \/ GiveUp(t) \/ Panic(t)
    \/ Scan
    \/ Shutdown \/ Restart

Spec == Init /\ [][Next]_vars

(* An executor cannot go round its tool loop for ever (MAX_TOOL_ITERATIONS):*)
(* it ends the row.                                                         *)
EndRow(t) == Work(t) /\ row'[t] = "ended"

(* Tasks are polled, the dispatcher ticks every five seconds, a process     *)
(* that is stopping exits and is started again.                             *)
Fairness ==
    /\ \A t \in Turns : WF_vars(HandOver(t)) /\ WF_vars(Dispatch(t))
                        /\ WF_vars(Prepare(t)) /\ SF_vars(EndRow(t)) /\ WF_vars(Drain(t))
    /\ WF_vars(Scan)
    /\ WF_vars(stopping /\ Restart)

FairSpec == Spec /\ Fairness

-----------------------------------------------------------------------------
(* Every variable has its type. *)
TypeOK ==
    /\ row \in [Turns -> Rows]
    /\ order \in Seq(Turns)
    /\ page \subseteq Turns /\ handed \subseteq Turns /\ fresh \subseteq Turns /\ running \subseteq Turns
    /\ current \in [Sessions -> Turns \cup {Nobody}]
    /\ queue \in [Sessions -> Seq(Turns)]
    /\ globalQueued \in Nat
    /\ stopping \in BOOLEAN /\ restarts \in 0..MaxRestarts /\ panics \in 0..MaxPanics

Live == fresh \cup running

(* A session never has two turn tasks, and the one it has is the turn its   *)
(* slot names: whatever the intake, the dispatcher and the drains do.       *)
OneTaskPerSession ==
    /\ fresh \cap running = {}
    /\ \A t \in Live : current[SessionOf[t]] = t

(* The scheduler holds a turn at most once, in its own session's slot, and  *)
(* only turns that were durably accepted: a repeated dispatch is a no-op.   *)
OwnedOnce ==
    \A s \in Sessions :
        /\ \A i, j \in 1..Len(queue[s]) : queue[s][i] = queue[s][j] => i = j
        /\ current[s] \notin Elements(queue[s])
        /\ \A t \in Owned(s) : SessionOf[t] = s /\ row[t] # "none"
        /\ current[s] = Nobody => queue[s] = <<>>

QueuedTurns == {t \in Turns : t \in Elements(queue[SessionOf[t]])}

(* global_queued counts exactly the queued turns of all sessions, and the   *)
(* capacities are never exceeded.                                           *)
CountedExactly ==
    /\ globalQueued = Cardinality(QueuedTurns)
    /\ globalQueued <= GlobalQueueCap
    /\ \A s \in Sessions : Len(queue[s]) <= SessionQueueCap

(* A busy slot always has the task that will drain it, unless the process   *)
(* is stopping or a task panicked: the wake-up of the queue is never lost.  *)
BusyHasTask ==
    stopping \/ panics > 0 \/ \A s \in Sessions : current[s] # Nobody => current[s] \in Live

(* A queued turn waits: it has not begun, so a restart can begin it.        *)
QueuedHasNotBegun ==
    \A s \in Sessions : \A t \in Elements(queue[s]) : row[t] # "active"

(* The scheduler's bookkeeping under every interleaving of intake,          *)
(* dispatcher, drains and restarts: one task per session, no turn held      *)
(* twice or begun while queued, and the global counter exact.               *)
SlotsAgree == TypeOK /\ OneTaskPerSession /\ OwnedOnce /\ CountedExactly /\ QueuedHasNotBegun

(* Every accepted turn ends, through deferrals, shutdowns and restarts, in  *)
(* a process none of whose turn tasks has panicked.                         *)
EndsUnlessPanic ==
    \A t \in Turns : row[t] = "pending" ~> row[t] = "ended" \/ panics > 0

-----------------------------------------------------------------------------
(* What the documentation says of the same code, and the code does not do.  *)

(* "Turns of the same session are serialised in FIFO order": no turn is     *)
(* active while an earlier turn of its session is still pending.            *)
SessionFifo ==
    \A i, j \in 1..Len(order) :
        /\ i < j /\ SessionOf[order[i]] = SessionOf[order[j]]
        => ~(row[order[i]] = "pending" /\ row[order[j]] = "active")

(* "No turn is ever permanently skipped": every accepted turn ends.         *)
AcceptedEnds ==
    \A t \in Turns : row[t] = "pending" ~> row[t] = "ended"
=============================================================================
