----------------------------- MODULE AgentLoop -----------------------------
(***************************************************************************)
(* The agent loop of one Turn (agent_loop/loop_runner.rs): model steps     *)
(* with their transport retries and deadline (model_step.rs), the recovery *)
(* from empty and declarative replies (response_guard.rs), the execution   *)
(* of tool calls (tool_execution.rs) against the durable execution ledger  *)
(* (storage/tool.rs), and what a crash leaves of all this.                 *)
(*                                                                         *)
(* One action is one SQLite transaction, one request to the provider or    *)
(* one tool execution: between two of them the process can die.  A model   *)
(* request is identified by the iteration and its number in it; a message  *)
(* id by the iteration alone, which is what the code derives it from.      *)
(* TurnRuns models who may execute a row; here there is one executor.      *)
(***************************************************************************)
EXTENDS Naturals, FiniteSets, SequencesExt

CONSTANTS
    CallIds,        \* tool call ids a provider uses
    NoId,           \* an empty id or name, which makes a call malformed
    Reads,          \* inputs (tool and arguments) of read-only tools
    Writes,         \* inputs of tools with side effects
    Garbled,        \* those of them whose arguments are not valid JSON
    MaxAttempts,    \* MAX_LLM_RETRIES
    MaxIterations,  \* MAX_TOOL_ITERATIONS
    DenialLimit,    \* GUARD_DENIAL_LIMIT
    MaxCalls,       \* bound on the calls of one reply
    MaxTroubles,    \* bound on storage errors
    MaxCrashes      \* bound on process crashes

ASSUME LoopAssumption ==
    /\ NoId \notin CallIds
    /\ Reads \cap Writes = {} /\ Garbled \subseteq Reads \cup Writes
    /\ {MaxAttempts, MaxIterations, DenialLimit} \subseteq Nat \ {0}
    /\ {MaxCalls, MaxTroubles, MaxCrashes} \subseteq Nat

VARIABLES
    row,        \* turn_runs: state, current_iteration, output_published
    ledger,     \* tool_calls by id: state and input
    pc,         \* where the executor is
    it,         \* its iteration
    attempt,    \* transport attempt within the iteration
    emptied,    \* empty_reply_retry_attempted
    streamed,   \* text of this iteration was emitted
    declared,   \* declarative_retry_attempted
    reply,      \* the model step being handled
    cursor,     \* next call to execute
    outcomes,   \* the outcomes so far
    denials,    \* GuardDenialTracker
    troubles,
    crashes,
    sends,      \* requests sent in the current iteration
    voice,      \* those of them whose text was emitted
    shown,      \* message ids under which text was emitted
    stored,     \* message ids under which a reply was stored
    discarded,  \* message ids announced as discarded
    spliced,    \* message ids under which two requests were mixed
    ran,        \* by call id, the inputs executed with side effects
    lostMark    \* output_published could not be written

durable == <<row, ledger>>
step == <<attempt, emptied, streamed, sends, voice>>
phase == <<reply, cursor, outcomes>>
texts == <<shown, stored, discarded, spliced>>
world == <<texts, ran, lostMark>>
budget == <<troubles, crashes>>
vars == <<durable, pc, it, step, declared, phase, denials, budget, world>>

Inputs == Reads \cup Writes
Calls == [id : CallIds \cup {NoId}, input : Inputs]
Iterations == 1 .. MaxIterations
Texts == {"none", "plain", "declared"}
NoReply == [text |-> "none", calls |-> <<>>]
NoRow == [state |-> "none", input |-> NoId]
Resumable == {"input_committed", "tools_completed"}
Terminal == {"completed", "failed", "uncertain"}

(* filter_valid_tool_calls: drop calls without an id or a name; of calls    *)
(* with one id keep the latest, in the place of the first.                  *)
FilterValid(cs) ==
    LET good == {i \in DOMAIN cs : cs[i].id # NoId}
        Twins(i) == {j \in good : cs[j].id = cs[i].id}
        firsts == {i \in good : \A j \in Twins(i) : i <= j}
        Nth(n) == CHOOSE i \in firsts : Cardinality({j \in firsts : j < i}) = n - 1
    IN  [n \in 1 .. Cardinality(firsts) |-> cs[Max(Twins(Nth(n)))]]

Replies ==
    [text : Texts, calls : UNION {[1 .. n -> Calls] : n \in 0 .. MaxCalls}]

(* send_model_step: with a valid call the reply is a tool phase, whatever   *)
(* its text; without one it is Final or MalformedToolCalls.                 *)
StepOf(r) ==
    LET valid == FilterValid(r.calls)
    IN  [text |-> IF valid = <<>> THEN r.text ELSE "none", calls |-> valid]
Valid == reply.calls

(* model_step_response_is_empty: no visible text and no calls.              *)
IsEmpty(r) == r.calls = <<>> /\ r.text = "none"

Init ==
    /\ row = [state |-> "input_committed", iteration |-> 0, published |-> FALSE]
    /\ ledger = [c \in CallIds |-> NoRow]
    /\ pc = "begin" /\ it = 1
    /\ attempt = 1 /\ emptied = FALSE /\ streamed = FALSE /\ sends = 0
    /\ declared = FALSE /\ denials = 0
    /\ reply = NoReply /\ cursor = 1 /\ outcomes = <<>>
    /\ troubles = 0 /\ crashes = 0
    /\ voice = {} /\ shown = {} /\ stored = {} /\ discarded = {} /\ spliced = {}
    /\ ran = [c \in CallIds |-> <<>>] /\ lostMark = FALSE

Goto(label) == pc' = label
DropReply == reply' = NoReply /\ cursor' = 1 /\ outcomes' = <<>>
NextIteration == it' = it + 1 /\ DropReply /\ Goto("begin")

(* What an executor knows ends with it.                                     *)
Forget ==
    /\ it' = 1 /\ attempt' = 1 /\ emptied' = FALSE /\ streamed' = FALSE /\ sends' = 0 /\ voice' = {}
    /\ declared' = FALSE /\ denials' = 0 /\ DropReply

-----------------------------------------------------------------------------
(* The model step.                                                          *)

(* ModelRunner::run_with_retry opens the iteration durably before the first *)
(* request; past the last iteration the loop fails.                         *)
BeginModel ==
    /\ pc = "begin"
    /\ IF it > MaxIterations
       THEN Goto("failing") /\ UNCHANGED <<row, step>>
       ELSE /\ row' = [row EXCEPT !.state = "model_pending", !.iteration = it]
            /\ attempt' = 1 /\ emptied' = FALSE /\ streamed' = FALSE /\ sends' = 0 /\ voice' = {}
            /\ Goto("send")
    /\ UNCHANGED <<ledger, it, declared, phase, denials, budget, world>>

Send ==
    /\ pc = "send"
    /\ sends' = sends + 1
    /\ Goto("wait")
    /\ UNCHANGED <<durable, it, attempt, emptied, streamed, voice, declared, phase, denials, budget, world>>

(* The message mixes requests if another one, of this or an earlier         *)
(* executor, has already spoken under its id.                               *)
Splice ==
    IF voice \subseteq {sends} /\ (it \in shown => voice # {}) THEN spliced
    ELSE spliced \cup {it}

(* on_delta: the text goes out under the iteration's message id at once.    *)
Delta ==
    /\ pc = "wait"
    /\ streamed' = TRUE
    /\ voice' = voice \cup {sends}
    /\ shown' = shown \cup {it}
    /\ spliced' = Splice
    /\ UNCHANGED <<durable, pc, it, attempt, emptied, sends, declared, phase, denials, budget,
                   stored, discarded, ran, lostMark>>

(* The locals of the retry loop end with it.                                *)
LeaveModel == attempt' = 1 /\ emptied' = FALSE /\ UNCHANGED <<streamed, sends, voice>>

(* The loop's error path marks the row published when text went out.        *)
ModelFails == LeaveModel /\ Goto(IF streamed THEN "mark_failing" ELSE "failing")

(* send_model_step_with_empty_retry: one guarded request replaces the first *)
(* empty reply of an iteration, if none of its text went out.               *)
EmptyReply(r) ==
    /\ pc = "wait" /\ IsEmpty(r)
    /\ IF streamed \/ emptied
       THEN ModelFails
       ELSE emptied' = TRUE /\ Goto("send") /\ UNCHANGED <<attempt, streamed, sends, voice>>
    /\ UNCHANGED <<durable, it, declared, phase, denials, budget, world>>

Answer(r) ==
    /\ pc = "wait" /\ ~IsEmpty(r)
    /\ reply' = StepOf(r)
    /\ LeaveModel /\ Goto("model")
    /\ UNCHANGED <<durable, it, declared, cursor, outcomes, denials, budget, world>>

(* A transient error is retried while attempts are left, nothing was shown  *)
(* and the wait, perhaps a long Retry-After, fits before the deadline.      *)
TransientError ==
    /\ pc = "wait"
    /\ \/ ~streamed /\ attempt < MaxAttempts /\ Goto("backoff") /\ UNCHANGED step
       \/ ModelFails
    /\ UNCHANGED <<durable, it, declared, phase, denials, budget, world>>

PermanentError ==
    /\ pc = "wait"
    /\ ModelFails
    /\ UNCHANGED <<durable, it, declared, phase, denials, budget, world>>

Retry ==
    /\ pc = "backoff"
    /\ attempt' = attempt + 1
    /\ Goto("send")
    /\ UNCHANGED <<durable, it, emptied, streamed, sends, voice, declared, phase, denials, budget, world>>

(* Bug: the deadline bounds the start of an attempt, not the attempt.       *)
DeadlineBetweenAttempts ==
    /\ pc \in {"send", "backoff"}
    /\ ModelFails
    /\ UNCHANGED <<durable, it, declared, phase, denials, budget, world>>

(* MODEL_ITERATION_DEADLINE cancels the request in flight, or the wait.     *)
DeadlinePasses ==
    /\ pc \in {"send", "wait", "backoff"}
    /\ ModelFails
    /\ UNCHANGED <<durable, it, declared, phase, denials, budget, world>>

-----------------------------------------------------------------------------
(* The loop.                                                                *)

(* evaluate_malformed_response: no valid call, and no text instead.         *)
NothingUsable == Valid = <<>> /\ reply.text = "none"

(* evaluate_end_turn: the reply announces work it does not do, for the      *)
(* first time since the last tool phase.                                    *)
OnlyDeclares == Valid = <<>> /\ reply.text = "declared" /\ ~declared

(* Bug: nobody is told that the declarative text is void.                   *)
CompleteModelSilently ==
    /\ pc = "model"
    /\ row' = [row EXCEPT !.state = "model_completed"]
    /\ \/ /\ Valid # <<>>
          /\ Goto("begin_tools")
          /\ UNCHANGED <<it, declared, discarded, phase>>
       \/ /\ NothingUsable
          /\ Goto("failing")
          /\ UNCHANGED <<it, declared, discarded, phase>>
       \/ /\ OnlyDeclares
          /\ declared' = TRUE
          /\ UNCHANGED discarded
          /\ NextIteration
       \/ /\ Valid = <<>> /\ ~NothingUsable /\ ~OnlyDeclares
          /\ Goto("final")
          /\ UNCHANGED <<it, declared, discarded, phase>>
    /\ UNCHANGED <<ledger, step, denials, budget, shown, stored, spliced, ran, lostMark>>

(* complete_model, then evaluate_end_turn or evaluate_malformed_response:   *)
(* a reply that only declares an intention is replaced once, in the next    *)
(* iteration, and its text discarded.                                       *)
CompleteModel ==
    /\ pc = "model"
    /\ row' = [row EXCEPT !.state = "model_completed"]
    /\ \/ /\ Valid # <<>>
          /\ Goto("begin_tools")
          /\ UNCHANGED <<it, declared, discarded, phase>>
       \/ /\ NothingUsable
          /\ Goto("failing")
          /\ UNCHANGED <<it, declared, discarded, phase>>
       \/ /\ OnlyDeclares
          /\ declared' = TRUE
          /\ discarded' = IF streamed THEN discarded \cup {it} ELSE discarded
          /\ NextIteration
       \/ /\ Valid = <<>> /\ ~NothingUsable /\ ~OnlyDeclares
          /\ Goto("final")
          /\ UNCHANGED <<it, declared, discarded, phase>>
    /\ UNCHANGED <<ledger, step, denials, budget, shown, stored, spliced, ran, lostMark>>

BeginTools ==
    /\ pc = "begin_tools"
    /\ row' = [row EXCEPT !.state = "tools_pending"]
    /\ Goto("mark_tools")
    /\ UNCHANGED <<ledger, it, step, declared, phase, denials, budget, world>>

AfterMark == [mark_tools |-> "call", mark_final |-> "complete", mark_failing |-> "failing"]

(* mark_output_published; a storage error is only logged.                   *)
Mark ==
    /\ pc \in DOMAIN AfterMark
    /\ Goto(AfterMark[pc])
    /\ \/ row' = [row EXCEPT !.published = TRUE] /\ UNCHANGED <<troubles, lostMark>>
       \/ troubles < MaxTroubles /\ troubles' = troubles + 1 /\ lostMark' = TRUE /\ UNCHANGED row
    /\ UNCHANGED <<ledger, it, step, declared, phase, denials, crashes, texts, ran>>

(* A reply is stored under the iteration's message id.                      *)
StoreReply ==
    /\ stored' = stored \cup {it}
    /\ spliced' = Splice

PersistCall ==
    /\ pc = "call"
    /\ StoreReply
    /\ Goto("run")
    /\ UNCHANGED <<durable, it, step, declared, phase, denials, budget, shown, discarded, ran, lostMark>>

PersistResults ==
    /\ pc = "run" /\ cursor > Len(Valid)
    /\ Goto("complete_tools")
    /\ UNCHANGED <<durable, it, step, declared, phase, denials, budget, world>>

CompleteTools ==
    /\ pc = "complete_tools"
    /\ row' = [row EXCEPT !.state = "tools_completed"]
    /\ Goto("staged")
    /\ UNCHANGED <<ledger, it, step, declared, phase, denials, budget, world>>

(* The staged follow-ups join the log (module Followups), the retry guards  *)
(* are reset and the messages compacted (module SessionLog).                *)
CommitStaged ==
    /\ pc = "staged"
    /\ declared' = FALSE
    /\ NextIteration
    /\ UNCHANGED <<durable, step, denials, budget, world>>

PersistFinal ==
    /\ pc = "final"
    /\ StoreReply
    /\ Goto("mark_final")
    /\ UNCHANGED <<durable, it, step, declared, phase, denials, budget, shown, discarded, ran, lostMark>>

CompleteTurn ==
    /\ pc = "complete"
    /\ row' = [row EXCEPT !.state = "completed"]
    /\ Forget /\ Goto("idle")
    /\ UNCHANGED <<ledger, budget, world>>

(* TurnLifecycle::fail; when the failure cannot be written either, the row  *)
(* keeps its state.                                                         *)
Fail ==
    /\ pc = "failing"
    /\ Forget /\ Goto("idle")
    /\ \/ /\ row' = [row EXCEPT !.state = IF row.published THEN "uncertain" ELSE "failed"]
          /\ UNCHANGED troubles
       \/ troubles < MaxTroubles /\ troubles' = troubles + 1 /\ UNCHANGED row
    /\ UNCHANGED <<ledger, crashes, world>>

-----------------------------------------------------------------------------
(* The tool phase.                                                          *)

Outcome(c, kind) == [id |-> c.id, input |-> c.input, kind |-> kind]
Running == pc = "run" /\ cursor <= Len(Valid)
Current == Valid[cursor]
(* Bug: the limit is reached one denial too late.                           *)
LimitPassed == denials > DenialLimit


LimitReached == denials >= DenialLimit
Push(o) == outcomes' = Append(outcomes, o) /\ cursor' = cursor + 1

(* reject_after_guard_limit: nothing runs any more.                         *)
Reject ==
    /\ Running /\ LimitReached
    /\ Push(Outcome(Current, "rejected"))
    /\ UNCHANGED <<durable, pc, it, step, declared, reply, denials, budget, world>>

(* Arguments that are not JSON come back as an error, outside the ledger.   *)
Invalid ==
    /\ Running /\ ~LimitReached /\ Current.input \in Writes \cap Garbled
    /\ Push(Outcome(Current, "invalid"))
    /\ UNCHANGED <<durable, pc, it, step, declared, reply, denials, budget, world>>

(* Bug: a failed call may be tried again.                                   *)
ClaimAgain ==
    /\ Running /\ ~LimitReached /\ Current.input \in Writes \ Garbled
    /\ LET held == ledger[Current.id]
       IN  \/ /\ held.state \in {"none", "failed"} /\ held.input \in {NoId, Current.input}
              /\ ledger' = [ledger EXCEPT ![Current.id] =
                                [state |-> "running", input |-> Current.input]]
              /\ Goto("effect") /\ UNCHANGED <<cursor, outcomes>>
           \/ /\ held.state # "none" /\ held.input # Current.input
              /\ Goto("failing") /\ UNCHANGED <<ledger, cursor, outcomes>>
           \/ /\ held.state = "succeeded" /\ held.input = Current.input
              /\ Push(Outcome(Current, "reused")) /\ UNCHANGED <<ledger, pc>>
           \/ /\ held.state \in {"running", "uncertain"} /\ held.input = Current.input
              /\ Push(Outcome(Current, "blocked")) /\ UNCHANGED <<ledger, pc>>
    /\ UNCHANGED <<row, it, step, declared, reply, denials, budget, world>>

(* claim_locked, for a tool with side effects.  A row never stays pending:  *)
(* the transaction that inserts it also advances it to running.             *)
Claim ==
    /\ Running /\ ~LimitReached /\ Current.input \in Writes \ Garbled
    /\ LET held == ledger[Current.id]
       IN  \/ /\ held.state = "none"
              /\ ledger' = [ledger EXCEPT ![Current.id] =
                                [state |-> "running", input |-> Current.input]]
              /\ Goto("effect") /\ UNCHANGED <<cursor, outcomes>>
           \/ /\ held.state # "none" /\ held.input # Current.input
              /\ Goto("failing") /\ UNCHANGED <<ledger, cursor, outcomes>>
           \/ /\ held.state = "succeeded" /\ held.input = Current.input
              /\ Push(Outcome(Current, "reused")) /\ UNCHANGED <<ledger, pc>>
           \/ /\ held.state \in {"running", "failed", "uncertain"} /\ held.input = Current.input
              /\ Push(Outcome(Current, "blocked")) /\ UNCHANGED <<ledger, pc>>
    /\ UNCHANGED <<row, it, step, declared, reply, denials, budget, world>>

(* ToolRegistry::execute_prepared: the side effect.                         *)
Effect ==
    /\ pc = "effect"
    /\ ran' = [ran EXCEPT ![Current.id] = Append(@, Current.input)]
    /\ \E kind \in {"ok", "error", "denied"} : Push(Outcome(Current, kind))
    /\ Goto("record")
    /\ UNCHANGED <<durable, it, step, declared, reply, denials, budget, texts, lostMark>>

Denied(os) == Cardinality({i \in DOMAIN os : os[i].kind = "denied"})

(* record_tool_success or record_tool_failure, then the denial is counted.  *)
Record ==
    /\ pc = "record"
    /\ LET last == Last(outcomes)
       IN  /\ ledger' = [ledger EXCEPT ![last.id].state =
                            IF last.kind = "ok" THEN "succeeded" ELSE "failed"]
           /\ denials' = denials + Denied(<<last>>)
    /\ Goto("run")
    /\ UNCHANGED <<row, it, step, declared, phase, budget, world>>

(* Where the run of read-only calls that starts at the cursor ends.         *)
BlockEnd == CHOOSE n \in cursor .. Len(Valid) :
    /\ \A k \in cursor .. n : Valid[k].input \in Reads
    /\ n < Len(Valid) => Valid[n + 1].input \notin Reads

(* Read-only calls in a row run together, unclaimed; a denial among them    *)
(* does not stop the others.                                                *)
ReadBlock ==
    /\ Running /\ ~LimitReached /\ Current.input \in Reads
    /\ \E kinds \in [cursor .. BlockEnd -> {"ok", "error", "denied", "invalid"}] :
        /\ \A k \in DOMAIN kinds : (kinds[k] = "invalid") <=> (Valid[k].input \in Garbled)
        /\ LET block == [k \in 1 .. BlockEnd - cursor + 1 |->
                            Outcome(Valid[cursor + k - 1], kinds[cursor + k - 1])]
           IN  outcomes' = outcomes \o block /\ denials' = denials + Denied(block)
    /\ cursor' = BlockEnd + 1
    /\ Goto("record_block")
    /\ UNCHANGED <<durable, it, step, declared, reply, budget, world>>

(* The part of the outcomes that record_read_only_block writes: the last    *)
(* run of reads, without the calls that never reached a tool.               *)
Block ==
    {i \in DOMAIN outcomes : /\ outcomes[i].kind # "invalid"
                             /\ \A k \in i .. Len(outcomes) : outcomes[k].input \in Reads}

(* record_read_only_tool_outcomes: one transaction for the block; an id     *)
(* already in the ledger keeps its row, with another input nothing is       *)
(* written.                                                                 *)
RecordBlock ==
    /\ pc = "record_block"
    /\ LET clash == \E i \in Block : LET held == ledger[outcomes[i].id]
                                     IN  held.state # "none" /\ held.input # outcomes[i].input
           fresh(c) == {i \in Block : outcomes[i].id = c /\ ledger[c].state = "none"}
       IN  \/ clash /\ Goto("failing") /\ UNCHANGED ledger
           \/ /\ ~clash
              /\ ledger' = [c \in CallIds |->
                    IF fresh(c) = {} THEN ledger[c]
                    ELSE LET o == outcomes[CHOOSE i \in fresh(c) : TRUE]
                         IN  [state |-> IF o.kind = "ok" THEN "succeeded" ELSE "failed",
                              input |-> o.input]]
              /\ Goto("run")
    /\ UNCHANGED <<row, it, step, declared, phase, denials, budget, world>>

-----------------------------------------------------------------------------
(* Faults, restart and resumption.                                          *)

WritesNow ==
    \/ pc \in {"model", "begin_tools", "call", "record", "record_block", "complete_tools",
               "staged", "final", "complete"}
    \/ pc = "begin" /\ it <= MaxIterations
    \/ pc = "run" /\ (Running => ~LimitReached /\ Current.input \in Writes \ Garbled)

(* A transaction of the loop fails, and the error ends it.                  *)
StorageFails ==
    /\ WritesNow /\ troubles < MaxTroubles
    /\ troubles' = troubles + 1
    /\ Goto("failing")
    /\ UNCHANGED <<durable, it, step, declared, phase, denials, crashes, world>>

Crash ==
    /\ crashes < MaxCrashes
    /\ crashes' = crashes + 1
    /\ Forget /\ Goto("down")
    /\ UNCHANGED <<durable, troubles, world>>

(* recover_durable_state_for_db: tools first, then turns, before anything   *)
(* is accepted.                                                             *)
RecoverRunningTools ==
    /\ pc = "down"
    /\ ledger' = [c \in CallIds |->
            IF ledger[c].state = "running" THEN [ledger[c] EXCEPT !.state = "uncertain"] ELSE ledger[c]]
    /\ Goto("recover_turns")
    /\ UNCHANGED <<row, it, step, declared, phase, denials, budget, world>>

(* Bug: a row whose tools had started is taken up again.                    *)
RecoverAsToolsCompleted ==
    /\ pc = "recover_turns"
    /\ row' = CASE row.state \in Resumable \cup Terminal -> row
                [] row.state = "tools_pending" -> [row EXCEPT !.state = "tools_completed"]
                [] OTHER -> [row EXCEPT !.state = "uncertain"]
    /\ Goto("idle")
    /\ UNCHANGED <<ledger, it, step, declared, phase, denials, budget, world>>


RecoverInterruptedTurns ==
    /\ pc = "recover_turns"
    /\ row' = IF row.state \in Resumable \cup Terminal THEN row
              ELSE [row EXCEPT !.state = "uncertain"]
    /\ Goto("idle")
    /\ UNCHANGED <<ledger, it, step, declared, phase, denials, budget, world>>

(* The dispatcher hands a resumable row to a new executor, with a fresh     *)
(* denial count; after tools it continues with the next iteration.          *)
Resume ==
    /\ pc = "idle"
    /\ \/ row.state = "input_committed" /\ it' = 1 /\ Goto("begin")
       \/ row.state = "tools_completed" /\ it' = row.iteration /\ Goto("staged")
    /\ UNCHANGED <<durable, step, declared, phase, denials, budget, world>>

Settled == pc = "idle" /\ row.state \notin Resumable /\ UNCHANGED vars

Executor ==
    \/ BeginModel \/ Send \/ Retry
    \/ CompleteModel \/ BeginTools \/ Mark \/ PersistCall \/ PersistResults \/ CompleteTools
    \/ CommitStaged \/ PersistFinal \/ CompleteTurn \/ Fail
    \/ Reject \/ Invalid \/ Claim \/ Effect \/ Record \/ ReadBlock \/ RecordBlock
    \/ RecoverRunningTools \/ RecoverInterruptedTurns \/ Resume

Provider ==
    \/ Delta \/ TransientError \/ PermanentError
    \/ \E r \in Replies : EmptyReply(r) \/ Answer(r)

Next == Executor \/ Provider \/ DeadlinePasses \/ StorageFails \/ Crash \/ Settled

(* The executor is a task the runtime polls, tools return (each has its own *)
(* timeout), the process is restarted, and the deadline is a timer.  The    *)
(* provider owes nothing.                                                   *)
Spec == Init /\ [][Next]_vars /\ WF_vars(Executor) /\ WF_vars(DeadlinePasses)

-----------------------------------------------------------------------------
(* Properties.                                                              *)

LedgerStates == {"none", "running", "succeeded", "failed", "uncertain"}
Kinds == {"ok", "error", "denied", "reused", "blocked", "invalid", "rejected"}

(* The row, the ledger and the executor hold what the code can store.       *)
TypeOK ==
    /\ row \in [state : Resumable \cup Terminal \cup {"model_pending", "model_completed", "tools_pending"},
                iteration : 0 .. MaxIterations, published : BOOLEAN]
    /\ ledger \in [CallIds -> [state : LedgerStates, input : Inputs \cup {NoId}]]
    /\ it \in 1 .. MaxIterations + 1 /\ attempt \in 1 .. MaxAttempts
    /\ {emptied, streamed, declared, lostMark} \subseteq BOOLEAN
    /\ reply \in Replies /\ cursor \in 1 .. MaxCalls + 1
    /\ \A i \in DOMAIN outcomes : outcomes[i].kind \in Kinds
    /\ denials \in Nat /\ sends \in Nat
    /\ voice \subseteq 1 .. sends
    /\ shown \cup stored \cup discarded \cup spliced \subseteq Iterations

(* One call id of a Turn has its side effect at most once, whatever the     *)
(* provider repeats, however often the Turn is resumed and wherever the     *)
(* process dies (claim_tool_execution, recover_running_tools).              *)
AtMostOnce == \A c \in CallIds : Len(ran[c]) <= 1

(* A result that claims success for a call with side effects, executed or   *)
(* replayed from the ledger, stands for an execution of exactly that input  *)
(* (the input hash of claim_locked).                                        *)
ResultIsOfTheCall ==
    \A i \in DOMAIN outcomes :
        outcomes[i].kind \in {"ok", "reused"} /\ outcomes[i].input \in Writes =>
            ran[outcomes[i].id] = <<outcomes[i].input>>

(* No effect without a trace: before a side effect starts, its call is in   *)
(* the ledger as running, its message is stored, and unless writing the     *)
(* mark failed the row is marked published.                                 *)
EffectIsOnRecord ==
    \A c \in CallIds : ran[c] # <<>> =>
        /\ ledger[c].state # "none" /\ ledger[c].input = ran[c][1]
        /\ stored # {}
        /\ row.published \/ lostMark

(* A Turn recorded as failed, which invites the user to try again, has had  *)
(* no side effect (TurnLifecycle::fail reads output_published).             *)
FailedHadNoEffect ==
    row.state = "failed" /\ ~lostMark => \A c \in CallIds : ran[c] = <<>>

(* A row the dispatcher may resume, after a restart has repaired the ledger,*)
(* leaves no tool in doubt: what the resumed model is told of its calls is  *)
(* all there is.                                                            *)
ResumableIsSettled ==
    row.state \in Resumable => \A c \in CallIds : ledger[c].state \notin {"running", "uncertain"}

(* Text that went out under a message id comes from one request, and the    *)
(* reply that is stored under the id is the same one's: neither a transport *)
(* retry, nor the empty-reply retry, nor a resumed executor splices a       *)
(* second answer onto the first.                                            *)
OneVoice == spliced = {}

(* When a Turn completes, every text a client saw was stored or announced   *)
(* as discarded, and never both.                                            *)
ShownIsAccountedFor ==
    /\ discarded \cap stored = {}
    /\ row.state = "completed" => shown \subseteq stored \cup discarded

(* The guarded empty-reply request is spent once per iteration, also across *)
(* transport attempts, so an iteration sends at most one request more than  *)
(* its attempts.                                                            *)
SendsBounded == sends <= MaxAttempts + 1

(* The tool phase answers the model's calls one for one and in order, also  *)
(* when calls were repeated, rejected, blocked or unparsable.               *)
AnsweredInOrder ==
    /\ pc = "complete_tools" => Len(outcomes) = Len(Valid)
    /\ \A k \in DOMAIN outcomes :
        outcomes[k].id = Valid[k].id /\ outcomes[k].input = Valid[k].input
    /\ \A j, k \in DOMAIN Valid : Valid[j].id = Valid[k].id => j = k

(* Once the guard has denied DenialLimit calls, this run starts no other    *)
(* side effect, in this tool phase or in a later one.                       *)
DenialStops ==
    [][ran' # ran => denials < DenialLimit]_vars

(* The Turn ends though the provider may hang, repeat itself or answer      *)
(* nothing useful: the row becomes terminal, unless a storage error kept it *)
(* from being written.                                                      *)
TurnEnds == <>[](pc = "idle" /\ (row.state \in Terminal \/ troubles > 0))

(* A provider that repeats call ids, and a process that dies and resumes,   *)
(* cannot make a call act twice or be answered with another's result.       *)
EffectsOnce == AtMostOnce /\ ResultIsOfTheCall /\ AnsweredInOrder

(* What a tool did can be told from the rows at any moment: an effect is on *)
(* record, a turn that is failed had none, and one that a restart resumes   *)
(* has all its calls settled.                                               *)
EffectsOnRecord == TypeOK /\ EffectIsOnRecord /\ FailedHadNoEffect /\ ResumableIsSettled

(* Text streamed to the client is that of one request, is stored or         *)
(* announced as discarded once the turn completes, and an iteration does    *)
(* not go on asking.                                                        *)
TextAccountedFor == OneVoice /\ ShownIsAccountedFor /\ SendsBounded
=============================================================================
