------------------------------ MODULE TurnRuns ------------------------------
(***************************************************************************)
(* The durable life of a Turn: the rows of `turn_runs` (storage/turn.rs),  *)
(* the executors that drive them (agent_loop/turn, agent_loop/loop_runner),*)
(* the dispatcher that re-submits resumable rows                           *)
(* (runtime/turn/dispatch.rs), and process crashes with startup recovery.  *)
(*                                                                         *)
(* Every action is one SQLite transaction or one external call: between    *)
(* two of them the async executor can be overtaken by any other task, or   *)
(* the process can die.  A Turn has a scheduler-run executor, at most one  *)
(* at a time because the scheduler de-duplicates by turn id; a Turn in     *)
(* Direct (the voice endpoint) is also executed by its own request task,   *)
(* outside the scheduler (execute_observed_turn).                          *)
(***************************************************************************)
EXTENDS Naturals

CONSTANTS
    Turns,          \* turn ids
    Direct,         \* turns first executed outside the scheduler
    Undecodable,    \* turns whose stored request a restarted process may not decode
    Errors,         \* the steps that may return an error to their executor
    MaxIterations,  \* MAX_TOOL_ITERATIONS
    MaxCrashes,     \* bound on process crashes
    MaxFaults       \* bound on storage errors the code only logs

ASSUME TurnsAssumption == Direct \subseteq Turns /\ Undecodable \subseteq Turns
ASSUME BoundsAssumption ==
    MaxIterations \in Nat \ {0} /\ MaxCrashes \in Nat /\ MaxFaults \in Nat

VARIABLES
    state,      \* turn_runs.state, "none" before the row exists
    published,  \* turn_runs.output_published
    iter,       \* turn_runs.current_iteration
    msgs,       \* the conversation rows each Turn has written
    submitted,  \* accepted live turns not yet handed to the scheduler
    owned,      \* turns running or queued in the in-memory scheduler
    page,       \* the dispatcher's scanned page, possibly out of date
    garbled,    \* rows the running process cannot decode
    pc,         \* where each executor is
    it,         \* each executor's loop iteration
    aim,        \* what each executor has decided to do next
    up,         \* the process is running
    crashes,
    faults,
    streamed,   \* turns of which a client has seen model text
    toolRuns    \* the iterations whose tool phase each Turn has executed

db == <<state, published, iter, msgs>>
sched == <<submitted, owned, page, garbled>>
exec == <<pc, it, aim>>
env == <<up, crashes>>
world == <<streamed, toolRuns>>
vars == <<db, sched, exec, env, faults, world>>

Executors == (Turns \X {"sched"}) \cup (Direct \X {"direct"})

Terminal == {"completed", "failed", "cancelled", "uncertain"}
Queued == {"accepted", "input_committed"}
Running == {"model_pending", "model_completed", "tools_pending", "tools_completed"}
States == {"none"} \cup Queued \cup Running \cup Terminal

(* Mutant of Resumable: the scan forgets the rows never started. *)
ResumableStarted == {"input_committed", "tools_completed"}

(* States scan_durable_resumable_turns_after selects. *)
Resumable == Queued \cup {"tools_completed"}

Decisions == {"none", "final", "retry", "tools", "failed", "uncertain", "cancelled"}

(* Steps whose storage, model or tool error is returned to the executor and *)
(* recorded by TurnLifecycle::fail.                                         *)
Fallible ==
    {"commitInput", "beginModel", "model", "completeModel", "beginTools",
     "toolCall", "runTools", "toolResults", "completeTools", "commitStaged",
     "persistFinal", "complete"}

Steps ==
    Fallible \cup
    {"idle", "accept", "resumeInput", "resumeTools", "failResume", "markFailed",
     "markTools", "markFinal", "failRead", "failWrite", "reject", "rejectWrite",
     "reply", "drain"}

-----------------------------------------------------------------------------
Init ==
    /\ state = [t \in Turns |-> "none"]
    /\ published = [t \in Turns |-> FALSE]
    /\ iter = [t \in Turns |-> 0]
    /\ msgs = [t \in Turns |-> {}]
    /\ submitted = {} /\ owned = {} /\ page = {} /\ garbled = {}
    /\ pc = [e \in Executors |-> "idle"]
    /\ it = [e \in Executors |-> 1]
    /\ aim = [e \in Executors |-> "none"]
    /\ up = TRUE /\ crashes = 0 /\ faults = 0
    /\ streamed = {}
    /\ toolRuns = [t \in Turns |-> {}]

Goto(e, step) == pc' = [pc EXCEPT ![e] = step]

Decide(e, decision) == aim' = [aim EXCEPT ![e] = decision]

(* A storage error whose only effect in the code is a log line. *)
Fault == faults < MaxFaults /\ faults' = faults + 1

(* transition_locked: the row moves only when it is in one of the states    *)
(* `from`; otherwise StorageError::Conflict reaches TurnLifecycle::fail.    *)
Transition(e, from, to, next) ==
    \/ /\ state[e[1]] \in from
       /\ state' = [state EXCEPT ![e[1]] = to]
       /\ Goto(e, next)
    \/ /\ state[e[1]] \notin from
       /\ Goto(e, "failRead")
       /\ UNCHANGED state

(* Mutants of FailTurn: the conversation row is left out; a row that has    *)
(* already ended is overwritten.                                            *)
FailTurnSilently(t, to) ==
    /\ state' = [state EXCEPT ![t] = IF @ \in Terminal \cup {"none"} THEN @ ELSE to]
    /\ UNCHANGED msgs
FailTurnAgain(t, to) ==
    /\ state' = [state EXCEPT ![t] = to]
    /\ msgs' = [msgs EXCEPT ![t] = @ \cup {"failure"}]

(* fail_turn: a failure state and its conversation row in one transaction;  *)
(* a row that is already terminal is left as it is.                         *)
FailTurn(t, to) ==
    \/ /\ state[t] \notin Terminal \cup {"none"}
       /\ state' = [state EXCEPT ![t] = to]
       /\ msgs' = [msgs EXCEPT ![t] = @ \cup {"failure"}]
    \/ /\ state[t] \in Terminal \cup {"none"}
       /\ UNCHANGED <<state, msgs>>

-----------------------------------------------------------------------------
(* Intake and scheduling.                                                   *)

(* accept_scheduled_turn: the request is committed before it is scheduled.  *)
Submit(t) ==
    /\ up /\ t \notin Direct /\ state[t] = "none"
    /\ state' = [state EXCEPT ![t] = "accepted"]
    /\ submitted' = submitted \cup {t}
    /\ UNCHANGED <<published, iter, msgs, owned, page, garbled, exec, env, faults, world>>

(* schedule_and_spawn: a turn the scheduler already owns is not added again.*)
Schedule(t) ==
    /\ t \in submitted
    /\ submitted' = submitted \ {t}
    /\ owned' = owned \cup {t}
    /\ UNCHANGED <<db, page, garbled, exec, env, faults, world>>

(* dispatch_durable_turns_for_scope reads a page of resumable rows ...      *)
Scan ==
    /\ up /\ page = {}
    /\ page' = {t \in Turns : state[t] \in Resumable}
    /\ page' # {}
    /\ UNCHANGED <<db, submitted, owned, garbled, exec, env, faults, world>>

(* ... and re-submits them one by one: the page is not re-read, so a row    *)
(* may have moved on, even finished, since it was scanned.                  *)
EnqueueDurable(t) ==
    /\ t \in page \ garbled
    /\ page' = page \ {t}
    /\ owned' = owned \cup {t}
    /\ UNCHANGED <<db, submitted, garbled, exec, env, faults, world>>

(* fail_invalid_durable_turn: a row that cannot be decoded is terminated.   *)
TerminalizeInvalid(t) ==
    /\ t \in page \cap garbled
    /\ page' = page \ {t}
    /\ \/ /\ state[t] \in Resumable
          /\ FailTurn(t, IF state[t] = "tools_completed" /\ published[t]
                         THEN "uncertain" ELSE "failed")
       \/ /\ state[t] \notin Resumable
          /\ UNCHANGED <<state, msgs>>
    /\ UNCHANGED <<published, iter, submitted, owned, garbled, exec, env, faults, world>>

(* execute_scheduled_turn: the row is read again and decides how to go on;  *)
(* a stop condition or a terminated origin rejects the turn instead.        *)
Start(e) ==
    /\ e[2] = "sched" /\ e[1] \in owned /\ pc[e] = "idle"
    /\ \/ Goto(e, CASE state[e[1]] = "input_committed" -> "resumeInput"
                    [] state[e[1]] = "tools_completed" -> "resumeTools"
                    [] OTHER -> "accept")
       \/ Goto(e, "reject")
    /\ UNCHANGED <<db, sched, it, aim, env, faults, world>>

(* execute_observed_turn: the request task runs process_turn itself.        *)
StartDirect(e) ==
    /\ up /\ e[2] = "direct" /\ pc[e] = "idle" /\ state[e[1]] = "none"
    /\ Goto(e, "accept")
    /\ UNCHANGED <<db, sched, it, aim, env, faults, world>>

(* persist_turn_rejection: the state is read, then the row is cancelled if  *)
(* it never started and made uncertain if it did.                           *)
RejectRead(e) ==
    /\ pc[e] = "reject"
    /\ \/ /\ state[e[1]] \in Terminal
          /\ Goto(e, "drain")
          /\ UNCHANGED aim
       \/ /\ state[e[1]] \notin Terminal
          /\ Decide(e, IF state[e[1]] \in Queued THEN "cancelled" ELSE "uncertain")
          /\ Goto(e, "rejectWrite")
    /\ UNCHANGED <<db, sched, it, env, faults, world>>

RejectWrite(e) ==
    /\ pc[e] = "rejectWrite"
    /\ \/ /\ aim[e] = "cancelled" /\ state[e[1]] \in Queued
          /\ state' = [state EXCEPT ![e[1]] = "cancelled"]
          /\ UNCHANGED msgs
       \/ /\ aim[e] = "cancelled" /\ state[e[1]] \notin Queued
          /\ UNCHANGED <<state, msgs>>
       \/ /\ aim[e] = "uncertain"
          /\ FailTurn(e[1], "uncertain")
    /\ Goto(e, "drain")
    /\ UNCHANGED <<published, iter, sched, it, aim, env, faults, world>>

-----------------------------------------------------------------------------
(* One executor: process_turn and the two resume entry points.              *)

(* TurnLifecycle::accept: a row that is not `accepted` is answered with its *)
(* saved reply or a notice and is not executed.                             *)
AcceptTurn(e) ==
    /\ pc[e] = "accept"
    /\ \/ /\ state[e[1]] \in {"none", "accepted"}
          /\ state' = [state EXCEPT ![e[1]] = "accepted"]
          /\ Goto(e, "commitInput")
       \/ /\ state[e[1]] \notin {"none", "accepted"}
          /\ Goto(e, "reply")
          /\ UNCHANGED state
    /\ UNCHANGED <<published, iter, msgs, sched, it, aim, env, faults, world>>

(* The acceptance read fails: process_turn returns without recording it.    *)
AcceptFault(e) ==
    /\ pc[e] = "accept"
    /\ Fault
    /\ Goto(e, "drain")
    /\ UNCHANGED <<db, sched, it, aim, env, world>>

(* commit_turn_input_with_conversation: message, session and transition.    *)
CommitInput(e) ==
    /\ pc[e] = "commitInput"
    /\ Transition(e, {"accepted"}, "input_committed", "beginModel")
    /\ msgs' = IF state[e[1]] = "accepted"
               THEN [msgs EXCEPT ![e[1]] = @ \cup {"input"}] ELSE msgs
    /\ it' = [it EXCEPT ![e] = 1]
    /\ UNCHANGED <<published, iter, sched, aim, env, faults, world>>

(* validate_resume_target: the state must still be the expected one, and    *)
(* the configuration the same; otherwise the resume is refused for good.    *)
Resume(e, label, expected, next, first, refusal) ==
    /\ pc[e] = label
    /\ \/ /\ state[e[1]] # expected
          /\ Goto(e, "drain")
          /\ UNCHANGED <<it, aim>>
       \/ /\ state[e[1]] = expected
          /\ Goto(e, next)
          /\ it' = [it EXCEPT ![e] = first]
          /\ UNCHANGED aim
       \/ /\ state[e[1]] = expected
          /\ Goto(e, "failResume")
          /\ Decide(e, refusal)
          /\ UNCHANGED it
    /\ UNCHANGED <<db, sched, env, faults, world>>

ResumeInput(e) ==
    Resume(e, "resumeInput", "input_committed", "beginModel", 1, "failed")

(* Mutant of ResumeTools: the iterations are counted from one again. *)
ResumeToolsFromOne(e) ==
    Resume(e, "resumeTools", "tools_completed", "commitStaged", 1, "uncertain")

ResumeTools(e) ==
    Resume(e, "resumeTools", "tools_completed", "commitStaged", iter[e[1]], "uncertain")

(* fail_resume_permanently *)
FailResume(e) ==
    /\ pc[e] = "failResume"
    /\ FailTurn(e[1], aim[e])
    /\ Goto(e, "drain")
    /\ UNCHANGED <<published, iter, sched, it, aim, env, faults, world>>

(* begin_turn_model_iteration.  The state is read and written in the same   *)
(* transaction, so a loser sees Conflict (or SQLITE_BUSY), never Ok(false). *)
BeginModel(e) ==
    /\ pc[e] = "beginModel"
    /\ it[e] <= MaxIterations
    /\ Transition(e, {"input_committed", "model_completed", "tools_completed"},
                  "model_pending", "model")
    /\ iter' = IF state'[e[1]] # state[e[1]] THEN [iter EXCEPT ![e[1]] = it[e]] ELSE iter
    /\ UNCHANGED <<published, msgs, sched, it, aim, env, faults, world>>

(* The loop ends without a final reply after MAX_TOOL_ITERATIONS.           *)
IterationsExhausted(e) ==
    /\ pc[e] = "beginModel"
    /\ it[e] > MaxIterations
    /\ Goto(e, "failRead")
    /\ UNCHANGED <<db, sched, it, aim, env, faults, world>>

(* The model answers, streaming text to the client or not.                  *)
ModelReply(e) ==
    /\ pc[e] = "model"
    /\ \E reply \in {"final", "retry", "tools"} : Decide(e, reply)
    /\ \E deltas \in {{}, {e[1]}} : streamed' = streamed \cup deltas
    /\ Goto(e, "completeModel")
    /\ UNCHANGED <<db, sched, it, env, faults, toolRuns>>

(* The model fails after it has streamed text.                              *)
ModelBreaksOff(e) ==
    /\ pc[e] = "model"
    /\ streamed' = streamed \cup {e[1]}
    /\ Goto(e, "markFailed")
    /\ UNCHANGED <<db, sched, it, aim, env, faults, toolRuns>>

(* complete_turn_model, then evaluate_end_turn picks the continuation.      *)
CompleteModel(e) ==
    /\ pc[e] = "completeModel"
    /\ Transition(e, {"model_pending"}, "model_completed",
                  CASE aim[e] = "final" -> "persistFinal"
                    [] aim[e] = "tools" -> "beginTools"
                    [] OTHER -> "beginModel")
    /\ it' = IF aim[e] = "retry" THEN [it EXCEPT ![e] = @ + 1] ELSE it
    /\ UNCHANGED <<published, iter, msgs, sched, aim, env, faults, world>>

(* begin_turn_tools *)
BeginTools(e) ==
    /\ pc[e] = "beginTools"
    /\ Transition(e, {"model_completed"}, "tools_pending", "markTools")
    /\ UNCHANGED <<published, iter, msgs, sched, it, aim, env, faults, world>>

(* mark_output_published: an error is logged and the executor goes on.      *)
MarkPublished(e, label, next) ==
    /\ pc[e] = label
    /\ Goto(e, next)
    /\ \/ /\ published' = [published EXCEPT ![e[1]] = TRUE]
          /\ UNCHANGED faults
       \/ /\ Fault
          /\ UNCHANGED published
    /\ UNCHANGED <<state, iter, msgs, sched, it, aim, env, world>>

(* Mutant of MarkTools: tools run before anything is published. *)
MarkToolsNot(e) ==
    /\ pc[e] = "markTools"
    /\ Goto(e, "toolCall")
    /\ UNCHANGED <<db, sched, it, aim, env, faults, world>>

MarkTools(e) == MarkPublished(e, "markTools", "toolCall")
MarkFinal(e) == MarkPublished(e, "markFinal", "complete")
MarkFailed(e) == MarkPublished(e, "markFailed", "failRead")

(* persist_tool_call *)
PersistToolCall(e) ==
    /\ pc[e] = "toolCall"
    /\ msgs' = [msgs EXCEPT ![e[1]] = @ \cup {"tool_call"}]
    /\ Goto(e, "runTools")
    /\ UNCHANGED <<state, published, iter, sched, it, aim, env, faults, world>>

(* execute_tools: the side effects of the phase; a ledger error afterwards  *)
(* still leaves them done.                                                  *)
RunTools(e) ==
    /\ pc[e] = "runTools"
    /\ toolRuns' = [toolRuns EXCEPT ![e[1]] = @ \cup {it[e]}]
    /\ \E next \in {"toolResults", "failRead"} : Goto(e, next)
    /\ UNCHANGED <<db, sched, it, aim, env, faults, streamed>>

(* persist_tool_results *)
PersistToolResults(e) ==
    /\ pc[e] = "toolResults"
    /\ msgs' = [msgs EXCEPT ![e[1]] = @ \cup {"tool_result"}]
    /\ Goto(e, "completeTools")
    /\ UNCHANGED <<state, published, iter, sched, it, aim, env, faults, world>>

(* complete_turn_tools *)
CompleteTools(e) ==
    /\ pc[e] = "completeTools"
    /\ Transition(e, {"tools_pending"}, "tools_completed", "commitStaged")
    /\ UNCHANGED <<published, iter, msgs, sched, it, aim, env, faults, world>>

(* commit_staged_user_messages, then the next model iteration.              *)
CommitStaged(e) ==
    /\ pc[e] = "commitStaged"
    /\ it' = [it EXCEPT ![e] = @ + 1]
    /\ Goto(e, "beginModel")
    /\ UNCHANGED <<db, sched, aim, env, faults, world>>

(* persist_final *)
PersistFinal(e) ==
    /\ pc[e] = "persistFinal"
    /\ msgs' = [msgs EXCEPT ![e[1]] = @ \cup {"final"}]
    /\ Goto(e, "markFinal")
    /\ UNCHANGED <<state, published, iter, sched, it, aim, env, faults, world>>

(* complete_turn *)
CompleteTurn(e) ==
    /\ pc[e] = "complete"
    /\ Transition(e, {"model_completed", "tools_completed"}, "completed", "reply")
    /\ UNCHANGED <<published, iter, msgs, sched, it, aim, env, faults, world>>

(* A fallible step may return an error before it has any effect.            *)
StepFails(e) ==
    /\ pc[e] \in Errors \cap Fallible
    /\ Goto(e, "failRead")
    /\ UNCHANGED <<db, sched, it, aim, env, faults, world>>

(* TurnLifecycle::fail reads the row, and classifies the failure by whether *)
(* output is recorded as published ...                                      *)
FailRead(e) ==
    /\ pc[e] = "failRead"
    /\ \/ /\ state[e[1]] \in Terminal
          /\ Goto(e, "drain")
          /\ UNCHANGED aim
       \/ /\ state[e[1]] \notin Terminal
          /\ Decide(e, IF published[e[1]] THEN "uncertain" ELSE "failed")
          /\ Goto(e, "failWrite")
    /\ UNCHANGED <<db, sched, it, env, faults, world>>

(* ... then writes the terminal state in a second transaction.              *)
FailWrite(e) ==
    /\ pc[e] = "failWrite"
    /\ FailTurn(e[1], aim[e])
    /\ Goto(e, "drain")
    /\ UNCHANGED <<published, iter, sched, it, aim, env, faults, world>>

(* Either step of fail may itself fail: the error is only logged.           *)
FailFault(e) ==
    /\ pc[e] \in {"failRead", "failWrite"}
    /\ Fault
    /\ Goto(e, "drain")
    /\ UNCHANGED <<db, sched, it, aim, env, world>>

(* The reply or notice is delivered.                                        *)
Reply(e) ==
    /\ pc[e] = "reply"
    /\ Goto(e, "drain")
    /\ UNCHANGED <<db, sched, it, aim, env, faults, world>>

(* drain_next_queued_turn gives up the scheduler's ownership of the turn.   *)
Drain(e) ==
    /\ pc[e] = "drain"
    /\ owned' = IF e[2] = "sched" THEN owned \ {e[1]} ELSE owned
    /\ Goto(e, "idle")
    /\ it' = [it EXCEPT ![e] = 1]
    /\ Decide(e, "none")
    /\ UNCHANGED <<db, submitted, page, garbled, env, faults, world>>

Step(e) ==
    \/ Start(e) \/ RejectRead(e) \/ RejectWrite(e)
    \/ AcceptTurn(e) \/ CommitInput(e)
    \/ ResumeInput(e) \/ ResumeTools(e) \/ FailResume(e)
    \/ BeginModel(e) \/ IterationsExhausted(e) \/ ModelReply(e) \/ ModelBreaksOff(e)
    \/ CompleteModel(e) \/ BeginTools(e) \/ MarkTools(e) \/ PersistToolCall(e)
    \/ RunTools(e) \/ PersistToolResults(e) \/ CompleteTools(e) \/ CommitStaged(e)
    \/ PersistFinal(e) \/ MarkFinal(e) \/ CompleteTurn(e)
    \/ StepFails(e) \/ MarkFailed(e) \/ FailRead(e) \/ FailWrite(e)
    \/ Reply(e) \/ Drain(e)

-----------------------------------------------------------------------------
(* The process dies: everything but the database and the clients' view is   *)
(* lost.                                                                     *)
Crash ==
    /\ up /\ crashes < MaxCrashes
    /\ up' = FALSE /\ crashes' = crashes + 1
    /\ submitted' = {} /\ owned' = {} /\ page' = {}
    /\ pc' = [e \in Executors |-> "idle"]
    /\ it' = [e \in Executors |-> 1]
    /\ aim' = [e \in Executors |-> "none"]
    /\ UNCHANGED <<db, garbled, faults, world>>

(* Mutant of Recovered: an interrupted turn is failed, inviting a retry. *)
RecoveredFailed(t) == IF state[t] \in Running \ Resumable THEN "failed" ELSE state[t]

(* recover_interrupted_turns: rows whose next step is provably safe are     *)
(* left to the dispatcher, the others become uncertain, with their          *)
(* conversation row, before anything else runs.                             *)
Recovered(t) == IF state[t] \in Running \ Resumable THEN "uncertain" ELSE state[t]

Restart ==
    /\ ~up /\ up' = TRUE
    /\ state' = [t \in Turns |-> Recovered(t)]
    /\ msgs' = [t \in Turns |-> IF Recovered(t) # state[t]
                                THEN msgs[t] \cup {"failure"} ELSE msgs[t]]
    /\ garbled' \in SUBSET {t \in Undecodable : state[t] # "none"}
    /\ UNCHANGED <<published, iter, submitted, owned, page, exec, crashes, faults, world>>

Next ==
    \/ \E t \in Turns : Submit(t) \/ Schedule(t) \/ EnqueueDurable(t) \/ TerminalizeInvalid(t)
    \/ Scan
    \/ \E e \in Executors : Step(e) \/ StartDirect(e) \/ AcceptFault(e) \/ FailFault(e)
    \/ Crash
    \/ Restart

Spec == Init /\ [][Next]_vars

(* Spawned tasks are polled by the runtime, model and tool calls carry      *)
(* timeouts, the dispatcher loops every five seconds, and the service       *)
(* manager restarts the process.                                            *)
Fairness ==
    /\ \A t \in Turns : WF_vars(Schedule(t)) /\ WF_vars(EnqueueDurable(t))
                        /\ WF_vars(TerminalizeInvalid(t))
    /\ \A e \in Executors : WF_vars(Step(e))
    /\ WF_vars(Scan)
    /\ WF_vars(Restart)

FairSpec == Spec /\ Fairness

-----------------------------------------------------------------------------
(* Turns run only by the scheduler, in a process whose storage errors are   *)
(* never swallowed: the setting in which the classification is claimed.     *)
Scheduled == Turns \ Direct

(* Every variable has its type, and an executor about to record a failure   *)
(* has decided which.                                                       *)
TypeOK ==
    /\ state \in [Turns -> States]
    /\ published \in [Turns -> BOOLEAN]
    /\ iter \in [Turns -> Nat]
    /\ msgs \in [Turns -> SUBSET {"input", "tool_call", "tool_result", "final", "failure"}]
    /\ submitted \subseteq Turns /\ owned \subseteq Turns /\ page \subseteq Turns
    /\ garbled \subseteq Turns
    /\ pc \in [Executors -> Steps]
    /\ it \in [Executors -> Nat]
    /\ aim \in [Executors -> Decisions]
    /\ \A e \in Executors :
          pc[e] \in {"failResume", "failWrite"} => aim[e] \in {"failed", "uncertain"}
    /\ up \in BOOLEAN /\ crashes \in 0..MaxCrashes /\ faults \in 0..MaxFaults
    /\ streamed \subseteq Turns
    /\ toolRuns \in [Turns -> SUBSET Nat]

(* A failed or uncertain turn always shows its failure in the conversation, *)
(* and no other turn does, whichever executor, dispatcher pass or restart   *)
(* ended it (record_turn_failure_message_locked in the same transaction).   *)
FailureVisible ==
    \A t \in Turns : state[t] \in {"failed", "uncertain"} <=> "failure" \in msgs[t]

(* A completed turn has its input and its final reply in the conversation,  *)
(* so a re-delivered request can be answered from it.                       *)
CompletedHasReply ==
    \A t \in Turns : state[t] = "completed" => {"input", "final"} \subseteq msgs[t]

(* What a client can look up is what happened: an ended turn shows its reply *)
(* or its failure, whichever executors raced for it.                         *)
OutcomeShown == TypeOK /\ FailureVisible /\ CompletedHasReply

(* `failed` invites a retry, so a turn whose tools have run is never failed:*)
(* it ends completed or uncertain.                                          *)
FailedMeansNoToolRan ==
    \A t \in Scheduled : state[t] \in {"failed", "cancelled"} => toolRuns[t] = {}

(* Crashes and resumes never run the tool phase of an iteration twice.      *)
NoToolRerun ==
    \A e \in Executors :
        e[1] \in Scheduled /\ pc[e] = "runTools" => it[e] \notin toolRuns[e[1]]

(* Tools run only for a row that is durably in its tool phase, so recovery  *)
(* can tell that they may have run.                                         *)
ToolsRunWhilePending ==
    \A e \in Executors :
        e[1] \in Scheduled /\ pc[e] = "runTools" =>
            state[e[1]] = "tools_pending" /\ iter[e[1]] = it[e]

(* No step ever changes the outcome of a turn that has ended. *)
TerminalIsFinal ==
    [][\A t \in Turns : state[t] \in Terminal => state'[t] = state[t]]_vars

(* Every accepted turn ends, whatever crashes: it is never lost between the *)
(* commit and the scheduler, nor resumed for ever.                          *)
EveryTurnEnds ==
    \A t \in Turns : state[t] = "accepted" ~> state[t] \in Terminal

(* What the client can tell about a turn. *)
PhaseOf(s) ==
    CASE s = "none" -> "none"
      [] s = "completed" -> "answered"
      [] s \in {"failed", "cancelled", "uncertain"} -> s
      [] OTHER -> "open"

Promise == INSTANCE TurnPromise WITH
    Turns <- Scheduled,
    Rounds <- 1..MaxIterations,
    phase <- [t \in Scheduled |-> PhaseOf(state[t])],
    acted <- [t \in Scheduled |-> toolRuns[t]]

(* The rows, executors, dispatcher and recovery together keep the promise   *)
(* of TurnPromise for every turn the scheduler runs.                        *)
KeepsPromise == Promise!Spec

-----------------------------------------------------------------------------
(* The inductive invariant behind the safety properties: where a            *)
(* scheduler-run executor is tells where its row is, which iterations' tools*)
(* have run, and that they are recorded as published.                       *)

(* The scheduler owns every turn an executor runs and no row the process    *)
(* cannot decode; a process that is down runs nothing.                      *)
OwnedInv ==
    /\ ~up => submitted = {} /\ owned = {} /\ page = {}
    /\ \A t \in Turns : state[t] = "none" => t \notin page \cup garbled \cup submitted
    /\ \A t \in Scheduled :
          /\ pc[<<t, "sched">>] # "idle" => t \in owned
          /\ t \in owned => state[t] # "none"
          /\ t \in garbled => t \notin owned \cup submitted

(* What the durable row alone tells about the tools that have run. *)
RowOK(t) ==
    /\ state[t] \in {"none"} \cup Queued => toolRuns[t] = {}
    /\ toolRuns[t] # {} => published[t]
    /\ state[t] = "tools_completed" => published[t]
    /\ \A i \in toolRuns[t] : i <= iter[t]
    /\ state[t] \in {"failed", "cancelled"} => toolRuns[t] = {}

(* The rows each step of a scheduler-run executor can find. *)
RowAt(step) ==
    CASE step = "commitInput" -> {"accepted"}
      [] step \in {"model", "completeModel"} -> {"model_pending"}
      [] step \in {"beginTools", "persistFinal", "markFinal", "complete"} -> {"model_completed"}
      [] step \in {"markTools", "toolCall", "runTools", "toolResults", "completeTools"} ->
            {"tools_pending"}
      [] step = "commitStaged" -> {"tools_completed"}
      [] step = "beginModel" -> {"input_committed", "model_completed", "tools_completed"}
      [] OTHER -> States \ {"none"}

(* What the position of a scheduler-run executor tells about its turn. *)
ExecOK(t, e) ==
    /\ pc[e] # "idle" => state[t] \in RowAt(pc[e])
    /\ pc[e] \in {"model", "completeModel", "beginTools", "markTools", "toolCall",
                   "runTools", "toolResults", "completeTools", "commitStaged"} =>
          it[e] = iter[t]
    /\ pc[e] \in {"model", "completeModel", "beginTools", "markTools", "toolCall",
                   "runTools", "beginModel"} =>
          it[e] >= 1 /\ \A i \in toolRuns[t] : i < it[e]
    /\ pc[e] \in {"model", "completeModel", "beginTools", "markTools", "toolCall",
                   "runTools"} =>
          it[e] <= MaxIterations
    /\ pc[e] \in {"toolCall", "runTools", "toolResults", "completeTools"} => published[t]
    /\ pc[e] \in {"failResume", "failWrite", "rejectWrite"}
          /\ aim[e] \in {"failed", "cancelled"} => toolRuns[t] = {}

(* The reply of a turn is in the conversation before the row is completed.  *)
ReplyInv ==
    /\ \A t \in Turns :
          state[t] \in Running \cup {"input_committed", "completed"} => "input" \in msgs[t]
    /\ \A t \in Turns : state[t] = "completed" => "final" \in msgs[t]
    /\ \A e \in Executors : pc[e] \in {"markFinal", "complete"} => "final" \in msgs[e[1]]

IInv == OwnedInv /\ \A t \in Scheduled : RowOK(t) /\ ExecOK(t, <<t, "sched">>)

-----------------------------------------------------------------------------
(* What the documentation says of the same code, and the code does not do.  *)

(* "Only one caller can win the transition for a given iteration; a         *)
(* duplicate executor observes `Ok(false)` and exits without producing      *)
(* output": no executor is about to record a failure of a turn whose model  *)
(* call another executor is waiting for.                                    *)
DuplicateExits ==
    \A e, f \in Executors :
        e # f /\ e[1] = f[1] /\ pc[e] = "model" => pc[f] # "failWrite"

(* `failed` is the outcome of turns of which nothing was published.         *)
FailedMeansNothingSeen ==
    \A t \in Scheduled : state[t] = "failed" => t \notin streamed
=============================================================================
