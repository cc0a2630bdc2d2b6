----------------------------- MODULE Followups -----------------------------
(***************************************************************************)
(* Human follow-ups to one Web session: a message that arrives in the tool *)
(* phase of a turn is staged for that turn, which takes it into the        *)
(* conversation when its tools are done; if the turn ends first, the       *)
(* dispatcher makes the message a turn of its own.  Sources:               *)
(* channels/web/stream.rs accept_web_input, storage/chat.rs,               *)
(* agent_loop/turn/persistence.rs, runtime/turn/dispatch.rs.               *)
(*                                                                         *)
(* A turn is named by its request key, which is the id of its message.     *)
(* One turn of a session runs at a time (TurnQueue, OneTaskPerSession).    *)
(***************************************************************************)
EXTENDS TurnObservers

CONSTANTS
    StageCap,       \* MAX_DURABLE_PENDING_PER_SESSION
    MaxPhases,      \* bound on the tool phases of a turn (MAX_TOOL_ITERATIONS)
    MaxTroubles,    \* bound on crashes, failed deletions and refused acceptances
    MaxBlind        \* bound on failed look-ups of staged rows for an observer

ASSUME FollowupsAssumption == {StageCap, MaxPhases, MaxTroubles, MaxBlind} \subseteq Nat

VARIABLES
    turn,       \* turn_runs.state of the turn a message became
    phases,     \* turn_runs.current_iteration, in tool phases
    owner,      \* messages.turn_id, Nobody without a row
    history,    \* the message rows with a seq: committed to the conversation
    fed,        \* how often a message was put into the session snapshot
    intake,     \* accept_web_input under lock_session: step, key, sink
    scheduled,  \* turns the scheduler owns
    running,    \* the turn that is executed
    pc, listed, retried,                                \* of its executor
    phase, groups, parent, todo, followed, deleting, accepted, \* of the dispatcher
    booting,    \* startup promotion, before any intake
    observers,  \* the registry
    assigned,   \* the turns each client was ever told to wait for
    troubles, blind

durable == <<turn, phases, owner, history, fed>>
exec == <<running, pc, listed, retried>>
dispatcher == <<phase, groups, parent, todo, followed, deleting, accepted, booting>>
clients == <<observers, assigned>>
bounds == <<troubles, blind>>
vars == <<durable, intake, scheduled, exec, dispatcher, clients, bounds>>

Terminal == {"completed", "failed"}
Resumable == {"accepted", "input_committed", "tools_completed"}
States == {"none", "model", "tools_pending"} \cup Resumable \cup Terminal
Steps == {"idle", "input", "model", "reply", "tools", "list", "write",
          "completed", "failed", "rejected", "retain"}
Phases == {"idle", "promote", "accept", "delete", "scan"}

IsStaged(m) == owner[m] # Nobody /\ m \notin history
Staged(k) == {m \in Keys : owner[m] = k /\ m \notin history}
TerminalStaged == {k \in Keys : Staged(k) # {} /\ turn[k] \in Terminal}

NoIntake == [step |-> "idle", key |-> Nobody, sink |-> Nobody]

Init ==
    /\ turn = [m \in Keys |-> "none"] /\ phases = [m \in Keys |-> 0]
    /\ owner = [m \in Keys |-> Nobody] /\ history = {} /\ fed = [m \in Keys |-> 0]
    /\ intake = NoIntake
    /\ scheduled = {} /\ running = Nobody /\ pc = "idle" /\ listed = {} /\ retried = FALSE
    /\ phase = "idle" /\ groups = {} /\ parent = Nobody /\ todo = {}
    /\ followed = FALSE /\ deleting = Nobody /\ accepted = {} /\ booting = FALSE
    /\ observers = NoObservers /\ assigned = [s \in Sinks |-> {}]
    /\ troubles = 0 /\ blind = 0

Trouble == troubles < MaxTroubles /\ troubles' = troubles + 1

-----------------------------------------------------------------------------
(* Intake.                                                                  *)

(* Mutant of StageFollowup: a turn that has ended its tools still takes it. *)
StageFollowupLate(m) ==
    /\ intake.step = "idle" /\ ~booting /\ owner[m] = Nobody /\ turn[m] = "none"
    /\ LET inTools == {k \in Keys : turn[k] \in {"tools_pending", "tools_completed"}} IN
       \/ /\ inTools = {}
          /\ intake' = [step |-> "submit", key |-> m, sink |-> Nobody]
          /\ UNCHANGED owner
       \/ \E k \in inTools : /\ owner' = [owner EXCEPT ![m] = k]
                             /\ intake' = [step |-> "attach", key |-> k, sink |-> Nobody]
    /\ UNCHANGED <<turn, phases, history, fed, scheduled, exec, dispatcher, clients, bounds>>

(* stage_tool_followup, one transaction: a message row answers for itself,  *)
(* a turn of the same request is left to accept_or_get_turn, and only the   *)
(* unique turn in its tool phase takes a follow-up, up to the capacity.     *)
StageFollowup(m) ==
    /\ intake.step = "idle" /\ ~booting
    /\ LET inTools == {k \in Keys : turn[k] = "tools_pending"} IN
       \/ /\ owner[m] # Nobody
          /\ intake' = [step |-> "attach", key |-> owner[m], sink |-> Nobody]
          /\ UNCHANGED owner
       \/ /\ owner[m] = Nobody
          /\ turn[m] # "none" \/ inTools = {}
          /\ intake' = [step |-> "submit", key |-> m, sink |-> Nobody]
          /\ UNCHANGED owner
       \/ /\ owner[m] = Nobody /\ turn[m] = "none"
          /\ Cardinality({u \in Keys : IsStaged(u)}) < StageCap
          /\ \E k \in inTools :
                /\ inTools = {k}
                /\ owner' = [owner EXCEPT ![m] = k]
                /\ intake' = [step |-> "attach", key |-> k, sink |-> Nobody]
    /\ UNCHANGED <<turn, phases, history, fed, scheduled, exec, dispatcher, clients, bounds>>

(* register_if_absent by a client that has not listened before, if any is.  *)
Listen(k, s) ==
    /\ s \in Unused(observers) /\ ~HasLive(observers, k)
    /\ observers' = Registered(observers, k, s)
    /\ assigned' = [assigned EXCEPT ![s] = {k}]

NotListening(k) ==
    /\ HasLive(observers, k) \/ Unused(observers) = {}
    /\ UNCHANGED clients

(* The turn that owns the message: an ended one answers from its row,       *)
LoadOwner ==
    /\ intake.step = "attach"
    /\ intake' = IF turn[intake.key] \in Terminal THEN NoIntake
                 ELSE [intake EXCEPT !.step = "listen"]
    /\ UNCHANGED <<durable, scheduled, exec, dispatcher, clients, bounds>>

(* one that still runs gets the client as its observer.                     *)
AttachOwner ==
    /\ intake.step = "listen"
    /\ \/ \E s \in Sinks : /\ Listen(intake.key, s)
                           /\ intake' = [step |-> "recheck", key |-> intake.key, sink |-> s]
       \/ NotListening(intake.key) /\ intake' = NoIntake
    /\ UNCHANGED <<durable, scheduled, exec, dispatcher, bounds>>

(* Mutant of Recheck: the row is not read again.                            *)
RecheckNothing ==
    /\ intake.step = "recheck"
    /\ intake' = NoIntake
    /\ UNCHANGED <<durable, scheduled, exec, dispatcher, clients, bounds>>

(* accept_existing_web_run reads the row again: an observer that came too   *)
(* late is dropped and the stored outcome published.                        *)
Recheck ==
    /\ intake.step = "recheck"
    /\ intake' = NoIntake
    /\ observers' = IF turn[intake.key] \in Terminal
                    THEN Dropped(observers, intake.sink) ELSE observers
    /\ UNCHANGED <<durable, scheduled, exec, dispatcher, assigned, bounds>>

(* accept_or_get_turn of an ordinary message ...                            *)
SubmitTurn ==
    /\ intake.step = "submit"
    /\ LET k == intake.key IN
       \/ /\ turn[k] = "none"
          /\ turn' = [turn EXCEPT ![k] = "accepted"]
          /\ intake' = [intake EXCEPT !.step = "register"]
       \/ /\ turn[k] # "none"
          /\ intake' = IF turn[k] \in Terminal THEN NoIntake
                       ELSE [intake EXCEPT !.step = "listen"]
          /\ UNCHANGED turn
    /\ UNCHANGED <<phases, owner, history, fed, scheduled, exec, dispatcher, clients, bounds>>

(* ... then its observer, and only then the scheduler.                      *)
RegisterAndSchedule ==
    /\ intake.step = "register"
    /\ (\E s \in Sinks : Listen(intake.key, s)) \/ NotListening(intake.key)
    /\ scheduled' = scheduled \cup {intake.key}
    /\ intake' = NoIntake
    /\ UNCHANGED <<durable, exec, dispatcher, bounds>>

(* A client that was given its stream closes it.                            *)
Disconnect(s) ==
    /\ observers.life[s] = "live" /\ intake.sink # s
    /\ observers' = Dropped(observers, s)
    /\ UNCHANGED <<durable, intake, scheduled, exec, dispatcher, assigned, bounds>>

-----------------------------------------------------------------------------
(* The executor of the session's current turn.                              *)

To(k, s, next) == turn' = [turn EXCEPT ![k] = s] /\ pc' = next
Fail(k) == To(k, "failed", "failed")

(* drain_next_queued_turn: the session is free for its next turn.           *)
Drain ==
    /\ scheduled' = scheduled \ {running}
    /\ running' = Nobody /\ pc' = "idle" /\ listed' = {} /\ retried' = FALSE

(* execute_scheduled_turn resumes from the state of the row.                *)
Start(k) ==
    /\ running = Nobody /\ k \in scheduled
    /\ running' = k
    /\ pc' = CASE turn[k] = "accepted" -> "input"
               [] turn[k] = "input_committed" -> "model"
               [] turn[k] = "tools_completed" -> "list"
               [] turn[k] = "completed" -> "completed"
               [] turn[k] = "failed" -> "failed"
    /\ UNCHANGED <<durable, intake, scheduled, listed, retried, dispatcher, clients, bounds>>

(* begin_scheduled_turn refuses the turn, whatever it was to resume: its    *)
(* row ends, ...                                                            *)
Reject(k) ==
    /\ running = Nobody /\ k \in scheduled /\ turn[k] \in Resumable
    /\ running' = k
    /\ To(k, "failed", "rejected")
    /\ UNCHANGED <<phases, owner, history, fed, intake, scheduled, listed, retried,
                   dispatcher, clients, bounds>>

(* ... the session is drained and the client told, staged rows or not.      *)
Rejected ==
    /\ pc = "rejected"
    /\ observers' = Finished(observers, running)
    /\ Drain
    /\ UNCHANGED <<durable, intake, dispatcher, assigned, bounds>>

(* commit_user_turn_input inserts the message under its own id; a row of    *)
(* another turn with that id is a collision that fails the turn.            *)
CommitInput ==
    /\ pc = "input"
    /\ \/ /\ owner[running] = Nobody
          /\ owner' = [owner EXCEPT ![running] = running]
          /\ history' = history \cup {running}
          /\ fed' = [fed EXCEPT ![running] = @ + 1]
          /\ To(running, "input_committed", "model")
       \/ Fail(running) /\ UNCHANGED <<owner, history, fed>>
    /\ UNCHANGED <<phases, intake, scheduled, running, listed, retried,
                   dispatcher, clients, bounds>>

BeginModel ==
    /\ pc = "model"
    /\ To(running, "model", "reply") \/ Fail(running)
    /\ UNCHANGED <<phases, owner, history, fed, intake, scheduled, running, listed,
                   retried, dispatcher, clients, bounds>>

(* The model ends the turn, asks for tools or fails.  What is emitted on    *)
(* the way drops the routes of a client that has left.                      *)
Reply ==
    /\ pc = "reply"
    /\ \/ To(running, "completed", "completed") /\ UNCHANGED phases
       \/ /\ phases[running] < MaxPhases
          /\ phases' = [phases EXCEPT ![running] = @ + 1]
          /\ To(running, "tools_pending", "tools")
       \/ Fail(running) /\ UNCHANGED phases
    /\ observers' = Pruned(observers, running)
    /\ UNCHANGED <<owner, history, fed, intake, scheduled, running, listed, retried,
                   dispatcher, assigned, bounds>>

Tools ==
    /\ pc = "tools"
    /\ To(running, "tools_completed", "list") \/ Fail(running)
    /\ UNCHANGED <<phases, owner, history, fed, intake, scheduled, running, listed,
                   retried, dispatcher, clients, bounds>>

(* commit_staged_user_messages lists the follow-ups of the tool phase ...   *)
ListStaged ==
    /\ pc = "list"
    /\ listed' = Staged(running)
    /\ pc' = IF listed' = {} THEN "model" ELSE "write"
    /\ UNCHANGED <<durable, intake, scheduled, running, retried, dispatcher, clients, bounds>>

(* ... appends them to the snapshot and commits it with a seq for every     *)
(* staged row of the turn.  Another writer's snapshot conflicts: once it is *)
(* read again, then the turn fails.                                         *)
WriteStaged ==
    /\ pc = "write"
    /\ \/ /\ history' = history \cup Staged(running)
          /\ fed' = [m \in Keys |-> IF m \in listed THEN fed[m] + 1 ELSE fed[m]]
          /\ pc' = "model" /\ listed' = {} /\ retried' = FALSE
          /\ UNCHANGED turn
       \/ /\ ~retried
          /\ retried' = TRUE /\ pc' = "list" /\ listed' = {}
          /\ UNCHANGED <<turn, history, fed>>
       \/ /\ retried
          /\ Fail(running) /\ listed' = {} /\ retried' = FALSE
          /\ UNCHANGED <<history, fed>>
    /\ UNCHANGED <<phases, owner, intake, scheduled, running, dispatcher, clients, bounds>>

Completed ==
    /\ pc = "completed"
    /\ observers' = Finished(observers, running)
    /\ Drain
    /\ UNCHANGED <<durable, intake, dispatcher, assigned, bounds>>

(* A failed turn without a listening client has nobody to tell.             *)
Failed ==
    /\ pc = "failed"
    /\ \/ /\ HasLive(observers, running)
          /\ pc' = "retain"
          /\ UNCHANGED <<scheduled, running, listed, retried, observers>>
       \/ /\ ~HasLive(observers, running)
          /\ observers' = Finished(Pruned(observers, running), running)
          /\ Drain
    /\ UNCHANGED <<durable, intake, dispatcher, assigned, bounds>>

(* retain_observer_for_staged_follow_up: the client keeps listening when a  *)
(* follow-up is staged, and also when that cannot be found out.             *)
Retain ==
    /\ pc = "retain"
    /\ \/ /\ Staged(running) # {}
          /\ observers' = Pruned(observers, running)
          /\ UNCHANGED blind
       \/ /\ Staged(running) = {}
          /\ observers' = Finished(observers, running)
          /\ UNCHANGED blind
       \/ /\ blind < MaxBlind /\ blind' = blind + 1
          /\ observers' = Pruned(observers, running)
    /\ Drain
    /\ UNCHANGED <<durable, intake, dispatcher, assigned, troubles>>

-----------------------------------------------------------------------------
(* The dispatcher: promote_terminal_staged_messages, then the scan.         *)

(* list_terminal_staged_user_messages, grouped by the turn that ended.      *)
Tick ==
    /\ phase = "idle" /\ ~booting
    /\ phase' = "promote" /\ groups' = TerminalStaged
    /\ UNCHANGED <<durable, intake, scheduled, exec, parent, todo, followed, deleting, accepted,
                   booting, clients, bounds>>

(* The staged messages of an ended turn; its client follows all of them.    *)
NextGroup ==
    /\ phase = "promote"
    /\ \E p \in groups :
          /\ parent' = p /\ groups' = groups \ {p} /\ todo' = Staged(p)
          /\ LET moves == CanTransfer(observers, p, Staged(p))
                 after == Transferred(observers, p, Staged(p))
                 deaf == {m \in Staged(p) : ~HasLive(after, m)} IN
             /\ followed' = (Staged(p) # {} /\ deaf = {})
             /\ \/ deaf = {} /\ observers' = after
                \/ \E m \in deaf : observers' = Pruned(after, m)
             /\ assigned' = [s \in Sinks |-> IF moves /\ observers.route[p] = s
                                             THEN assigned[s] \cup Staged(p) ELSE assigned[s]]
    /\ phase' = "accept" /\ accepted' = {}
    /\ UNCHANGED <<durable, intake, scheduled, exec, deleting, booting, bounds>>

(* Mutant of AcceptChild: the staged row goes even if no turn was accepted. *)
AcceptChildOrDrop ==
    /\ phase = "accept"
    /\ \E m \in todo :
          /\ todo' = todo \ {m} /\ phase' = "delete" /\ deleting' = m
          /\ \/ /\ turn[m] = "none" /\ turn' = [turn EXCEPT ![m] = "accepted"]
                /\ accepted' = accepted \cup {m} /\ UNCHANGED troubles
             \/ turn[m] # "none" /\ UNCHANGED <<turn, accepted, troubles>>
             \/ Trouble /\ UNCHANGED <<turn, accepted>>
    /\ UNCHANGED <<phases, owner, history, fed, intake, scheduled, exec, groups, parent,
                   followed, booting, clients, blind>>

(* Mutant of AcceptChild: the child is scheduled before the row is deleted. *)
AcceptChildAtOnce ==
    /\ phase = "accept"
    /\ \E m \in todo :
          /\ turn[m] = "none" /\ turn' = [turn EXCEPT ![m] = "accepted"]
          /\ todo' = todo \ {m} /\ phase' = "delete" /\ deleting' = m
          /\ scheduled' = scheduled \cup {m}
    /\ UNCHANGED <<phases, owner, history, fed, intake, exec, groups, parent, accepted,
                   followed, booting, clients, bounds>>

(* accept_scheduled_turn of one staged message: created, already there, or  *)
(* refused, and then left for the next tick.                                *)
AcceptChild ==
    /\ phase = "accept"
    /\ \E m \in todo :
          /\ todo' = todo \ {m}
          /\ \/ /\ turn[m] = "none" /\ turn' = [turn EXCEPT ![m] = "accepted"]
                /\ accepted' = accepted \cup {m}
                /\ phase' = "delete" /\ deleting' = m
                /\ observers' = IF followed THEN observers ELSE Pruned(observers, m)
                /\ UNCHANGED troubles
             \/ /\ turn[m] # "none"
                /\ phase' = "delete" /\ deleting' = m
                /\ UNCHANGED <<turn, accepted, observers, troubles>>
             \/ Trouble /\ UNCHANGED <<turn, accepted, phase, deleting, observers>>
    /\ UNCHANGED <<phases, owner, history, fed, intake, scheduled, exec, groups, parent,
                   followed, booting, assigned, blind>>

(* delete_staged_user_message_after_promotion; an error ends the tick, and  *)
(* at startup the process (Crash).                                          *)
DeleteStaged ==
    /\ phase = "delete"
    /\ \/ /\ owner' = IF IsStaged(deleting) THEN [owner EXCEPT ![deleting] = Nobody] ELSE owner
          /\ phase' = "accept"
          /\ UNCHANGED <<groups, parent, todo, accepted, troubles>>
       \/ /\ ~booting /\ Trouble
          /\ phase' = "idle" /\ groups' = {} /\ parent' = Nobody /\ todo' = {} /\ accepted' = {}
          /\ UNCHANGED owner
    /\ deleting' = Nobody
    /\ UNCHANGED <<turn, phases, history, fed, intake, scheduled, exec, followed, booting,
                   clients, blind>>

(* The accepted turns of the group are handed to the scheduler.             *)
GroupDone ==
    /\ phase = "accept" /\ todo = {}
    /\ scheduled' = scheduled \cup accepted
    /\ phase' = "promote" /\ parent' = Nobody /\ accepted' = {}
    /\ followed' = FALSE
    /\ UNCHANGED <<durable, intake, exec, groups, todo, deleting, booting, clients, bounds>>

(* Startup is over once all is promoted; a tick goes on to scan.            *)
Promoted ==
    /\ phase = "promote" /\ groups = {}
    /\ phase' = IF booting THEN "idle" ELSE "scan"
    /\ booting' = FALSE
    /\ UNCHANGED <<durable, intake, scheduled, exec, groups, parent, todo, followed, deleting,
                   accepted, clients, bounds>>

(* dispatch_durable_turns_for_scope; the scheduler ignores what it owns.    *)
Scan ==
    /\ phase = "scan"
    /\ scheduled' = scheduled \cup {k \in Keys : turn[k] \in Resumable}
    /\ phase' = "idle"
    /\ UNCHANGED <<durable, intake, exec, groups, parent, todo, followed, deleting, accepted,
                   booting, clients, bounds>>

(* The process dies and recovers: recover_interrupted_turns, then promotion *)
(* before anything else.                                                    *)
Crash ==
    /\ Trouble
    /\ turn' = [k \in Keys |-> IF turn[k] \in {"model", "tools_pending"}
                               THEN "failed" ELSE turn[k]]
    /\ intake' = NoIntake /\ scheduled' = {}
    /\ running' = Nobody /\ pc' = "idle" /\ listed' = {} /\ retried' = FALSE
    /\ booting' = TRUE /\ phase' = "promote"
    /\ groups' = {k \in Keys : Staged(k) # {} /\ turn'[k] \in Terminal}
    /\ parent' = Nobody /\ todo' = {} /\ followed' = FALSE /\ deleting' = Nobody /\ accepted' = {}
    /\ observers' = Lost(observers)
    /\ UNCHANGED <<phases, owner, history, fed, assigned, blind>>

-----------------------------------------------------------------------------
Executor ==
    \/ \E k \in Keys : Start(k) \/ Reject(k)
    \/ Rejected \/ CommitInput \/ BeginModel \/ Reply \/ Tools
    \/ ListStaged \/ WriteStaged \/ Completed \/ Failed \/ Retain

Dispatcher ==
    Tick \/ NextGroup \/ AcceptChild \/ DeleteStaged \/ GroupDone \/ Promoted \/ Scan

Intake == LoadOwner \/ AttachOwner \/ Recheck \/ SubmitTurn \/ RegisterAndSchedule

Next ==
    \/ \E m \in Keys : StageFollowup(m)
    \/ \E s \in Sinks : Disconnect(s)
    \/ Intake \/ Executor \/ Dispatcher \/ Crash

Spec == Init /\ [][Next]_vars

(* Tokio polls every task; a request once begun is answered; the dispatcher *)
(* ticks for ever.  Nobody has to write, to leave or to fail.               *)
FairSpec ==
    /\ Spec
    /\ WF_vars(Intake) /\ WF_vars(Dispatcher) /\ WF_vars(Executor)

-----------------------------------------------------------------------------
TypeOK ==
    /\ turn \in [Keys -> States] /\ phases \in [Keys -> 0..MaxPhases]
    /\ owner \in [Keys -> Keys \cup {Nobody}] /\ history \subseteq Keys
    /\ fed \in [Keys -> Nat]
    /\ intake \in [step : {"idle", "attach", "listen", "recheck", "submit", "register"},
                   key : Keys \cup {Nobody}, sink : Sinks \cup {Nobody}]
    /\ scheduled \subseteq Keys /\ running \in Keys \cup {Nobody}
    /\ pc \in Steps /\ listed \subseteq Keys /\ retried \in BOOLEAN
    /\ phase \in Phases /\ groups \subseteq Keys /\ parent \in Keys \cup {Nobody}
    /\ todo \subseteq Keys /\ followed \in BOOLEAN /\ deleting \in Keys \cup {Nobody}
    /\ accepted \subseteq Keys /\ booting \in BOOLEAN
    /\ observers \in [route : [Keys -> Sinks \cup {Nobody}], pending : [Sinks -> Nat],
                      life : [Sinks -> {"new", "live", "done", "gone"}]]
    /\ assigned \in [Sinks -> SUBSET Keys]
    /\ troubles \in 0..MaxTroubles /\ blind \in 0..MaxBlind

(* The model reads each message of the committed conversation exactly once: *)
(* the snapshot a turn writes holds the same follow-ups that its            *)
(* transaction commits (list_staged_user_messages and                       *)
(* commit_staged_user_messages are two reads), and a follow-up that became  *)
(* a turn is not read a second time by the turn it was staged for.          *)
FedOnce == \A m \in Keys : fed[m] = IF m \in history THEN 1 ELSE 0

(* A turn that waits for or has a task has no staged row of its own id, so  *)
(* that committing its input cannot collide: "All staged-row cleanup is     *)
(* complete before the accepted child is handed to the scheduler".  As the  *)
(* comment states it: it does not hold (see README.md).                     *)
AlwaysClean == \A m \in scheduled : ~IsStaged(m)
(* What holds: one failure is made up for; after a second one the scan may  *)
(* be too early.                                                            *)
CleanBeforeScheduled == troubles <= 1 => AlwaysClean

(* A client waits for exactly the turns that are routed to it: its count    *)
(* never reaches zero with a turn to come, which would panic in finish.     *)
CountIsRoutes == \A s \in Sinks :
    observers.life[s] = "live" => observers.pending[s] = Cardinality(RoutesTo(observers, s))

(* A client is told that its interaction is over only when every turn it    *)
(* was assigned has ended, the follow-ups promoted after a failure too.     *)
DoneAfterAll == \A s \in Sinks :
    observers.life[s] = "done" => \A k \in assigned[s] : turn[k] \in Terminal

(* Nobody acts on a follow-up that is still on its way: a scheduled turn    *)
(* has no staged row of its id, and a client's count and its end agree with *)
(* the turns routed to it, also those promoted after a failure.             *)
RoutesClean == TypeOK /\ CleanBeforeScheduled /\ CountIsRoutes /\ DoneAfterAll

(* A message the session took, staged or as a turn, is never without a row, *)
(* whatever is refused, deleted or lost on its way from one to the other.   *)
Kept == [][\A m \in Keys : owner[m] # Nobody \/ turn[m] # "none"
                            => owner'[m] # Nobody \/ turn'[m] # "none"]_vars

(* A staged follow-up is read by its turn or becomes a turn that ends.      *)
Consumed == \A m \in Keys : IsStaged(m) ~> m \in history \/ turn[m] \in Terminal

(* A client that listens is told the end, unless the look-up of staged rows *)
(* failed: then its observer is kept for a retry that may never come.       *)
ClientTold == \A s \in Sinks :
    observers.life[s] = "live" ~> observers.life[s] # "live" \/ blind > 0

(* Nothing is left waiting: neither a staged follow-up nor a client.        *)
FollowupsSettle == Consumed /\ ClientTold
=============================================================================
