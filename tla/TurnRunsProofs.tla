--------------------------- MODULE TurnRunsProofs ---------------------------
(* Proofs about TurnRuns for any number of turns, crashes and iterations.   *)
EXTENDS TurnRuns, TLAPS

(* An executor runs a turn, as the scheduler's or as the request's task.    *)
LEMMA ExecutorShape ==
    ASSUME NEW e \in Executors
    PROVE  /\ e[1] \in Turns
           /\ e[1] \in Scheduled => e = <<e[1], "sched">>
           /\ e[2] = "sched" => e = <<e[1], "sched">>
<1>1. CASE e \in Turns \X {"sched"}
  BY <1>1 DEF Scheduled
<1>2. CASE e \in Direct \X {"direct"}
  <2>1. e[1] \in Direct /\ e[2] = "direct"
    BY <1>2
  <2> QED
    BY <2>1, TurnsAssumption DEF Scheduled
<1> QED
  BY <1>1, <1>2 DEF Executors

(* Every step keeps every variable in its type. *)
LEMMA TypeStep ==
    ASSUME TypeOK, [Next]_vars
    PROVE  TypeOK'
<1> USE TurnsAssumption, BoundsAssumption
    DEF TypeOK, db, sched, exec, env, world
<1>1. ASSUME NEW t \in Turns,
             Submit(t) \/ Schedule(t) \/ EnqueueDurable(t) \/ TerminalizeInvalid(t)
      PROVE  TypeOK'
  BY <1>1 DEF Submit, Schedule, EnqueueDurable, TerminalizeInvalid, FailTurn,
              States, Queued, Running, Terminal
<1>2. CASE Scan
  BY <1>2 DEF Scan
<1>3. ASSUME NEW e \in Executors, Step(e) \/ StartDirect(e) \/ AcceptFault(e) \/ FailFault(e)
      PROVE  TypeOK'
  <2>0. e[1] \in Turns
    BY ExecutorShape
  <2> USE <2>0 DEF Goto, Decide
  <2>1. CASE Start(e) \/ StartDirect(e)
    BY <2>1 DEF Start, StartDirect, Steps
  <2>2. CASE RejectRead(e)
    BY <2>2 DEF RejectRead, Steps, Decisions
  <2>17. CASE RejectWrite(e)
    BY <2>17 DEF RejectWrite, FailTurn, Steps, States, Terminal
  <2>3. CASE AcceptTurn(e) \/ AcceptFault(e)
    BY <2>3 DEF AcceptTurn, AcceptFault, Fault, Steps, Fallible, States, Queued
  <2>4. CASE CommitInput(e)
    BY <2>4 DEF CommitInput, Transition, Steps, Fallible, States, Queued
  <2>5. CASE ResumeInput(e) \/ ResumeTools(e)
    BY <2>5 DEF ResumeInput, ResumeTools, Resume, Steps, Fallible, Decisions
  <2>6. CASE FailResume(e) \/ FailWrite(e)
    BY <2>6 DEF FailResume, FailWrite, FailTurn, Steps, States, Terminal
  <2>7. CASE BeginModel(e)
    BY <2>7 DEF BeginModel, Transition, Steps, Fallible, States, Running
  <2>8. CASE IterationsExhausted(e) \/ ModelBreaksOff(e) \/ StepFails(e)
    BY <2>8 DEF IterationsExhausted, ModelBreaksOff, StepFails, Steps
  <2>18. CASE ModelReply(e)
    BY <2>18 DEF ModelReply, Steps, Fallible, Decisions
  <2>9. CASE CompleteModel(e)
    BY <2>9 DEF CompleteModel, Transition, Steps, Fallible, States, Running
  <2>10. CASE BeginTools(e) \/ CompleteTools(e) \/ CompleteTurn(e)
    BY <2>10 DEF BeginTools, CompleteTools, CompleteTurn, Transition, Steps, Fallible,
                 States, Running, Terminal
  <2>11. CASE MarkTools(e) \/ MarkFinal(e) \/ MarkFailed(e)
    <3>1. published' \in [Turns -> BOOLEAN]
      BY <2>11 DEF MarkTools, MarkFinal, MarkFailed, MarkPublished
    <3>2. faults' \in 0..MaxFaults
      BY <2>11 DEF MarkTools, MarkFinal, MarkFailed, MarkPublished, Fault
    <3>3. \E step \in {"toolCall", "complete", "failRead"} : pc' = [pc EXCEPT ![e] = step]
      BY <2>11 DEF MarkTools, MarkFinal, MarkFailed, MarkPublished
    <3>4. UNCHANGED <<state, iter, msgs, sched, it, aim, env, world>>
      BY <2>11 DEF MarkTools, MarkFinal, MarkFailed, MarkPublished
    <3> QED
      BY <3>1, <3>2, <3>3, <3>4 DEF Steps, Fallible
  <2>12. CASE PersistToolCall(e) \/ PersistToolResults(e) \/ PersistFinal(e)
    BY <2>12 DEF PersistToolCall, PersistToolResults, PersistFinal, Steps, Fallible
  <2>13. CASE RunTools(e)
    BY <2>13 DEF RunTools, Steps, Fallible
  <2>14. CASE CommitStaged(e)
    BY <2>14 DEF CommitStaged, Steps, Fallible
  <2>15. CASE FailRead(e) \/ FailFault(e)
    BY <2>15 DEF FailRead, FailFault, Fault, Steps, Decisions
  <2>16. CASE Reply(e) \/ Drain(e)
    BY <2>16 DEF Reply, Drain, Steps, Decisions
  <2> QED
    BY <1>3, <2>1, <2>2, <2>3, <2>4, <2>5, <2>6, <2>7, <2>8, <2>9, <2>10, <2>11, <2>12,
       <2>13, <2>14, <2>15, <2>16, <2>17, <2>18 DEF Step
<1>4. CASE Crash
  <2>1. /\ pc' = [e \in Executors |-> "idle"]
        /\ aim' = [e \in Executors |-> "none"]
        /\ it' = [e \in Executors |-> 1]
    BY <1>4 DEF Crash
  <2>2. /\ pc' \in [Executors -> Steps]
        /\ aim' \in [Executors -> Decisions]
        /\ it' \in [Executors -> Nat]
        /\ \A e \in Executors : pc'[e] = "idle"
    BY <2>1 DEF Steps, Decisions
  <2>3. crashes' \in 0..MaxCrashes
    <3>1. crashes < MaxCrashes /\ crashes' = crashes + 1
      BY <1>4 DEF Crash
    <3> QED
      BY <3>1
  <2>5. up' \in BOOLEAN
    BY <1>4, Zenon DEF Crash
  <2>4. /\ submitted' = {} /\ owned' = {} /\ page' = {}
        /\ UNCHANGED <<db, garbled, faults, world>>
    BY <1>4 DEF Crash
  <2> QED
    BY <2>2, <2>3, <2>4, <2>5
<1>5. CASE Restart
  BY <1>5 DEF Restart, Recovered, States, Terminal
<1>6. CASE UNCHANGED vars
  BY <1>6 DEF vars
<1> QED
  BY <1>1, <1>2, <1>3, <1>4, <1>5, <1>6 DEF Next

(* The rows, the scheduler's sets and the executors keep their types for    *)
(* every number of turns and any bound on crashes, faults and iterations.   *)
THEOREM TypeCorrect == Spec => []TypeOK
<1>1. Init => TypeOK
  BY BoundsAssumption DEF Init, TypeOK, States, Steps, Decisions
<1> QED
  BY <1>1, TypeStep, PTL DEF Spec

(* A step may change a row only if it has not ended, writes the failure row *)
(* with the failure state, and completes a turn only after its reply.       *)
LEMMA RowStep ==
    ASSUME TypeOK, FailureVisible, ReplyInv, [Next]_vars
    PROVE  /\ FailureVisible' /\ ReplyInv'
           /\ \A t \in Turns : state[t] \in Terminal => state'[t] = state[t]
<1> DEFINE Goal == /\ FailureVisible' /\ ReplyInv'
                   /\ \A t \in Turns : state[t] \in Terminal => state'[t] = state[t]
<1> SUFFICES Goal
  OBVIOUS
<1> USE TurnsAssumption
    DEF FailureVisible, ReplyInv, TypeOK, States, Queued, Running, Terminal, Resumable
<1>0. \A e \in Executors : e[1] \in Turns
  BY ExecutorShape
<1>1. ASSUME NEW t \in Turns,
             Submit(t) \/ Schedule(t) \/ EnqueueDurable(t) \/ TerminalizeInvalid(t)
      PROVE  Goal
  <2>1. CASE Submit(t)
    BY <1>0, <2>1 DEF Submit, exec
  <2>2. CASE Schedule(t) \/ EnqueueDurable(t)
    BY <1>0, <2>2 DEF Schedule, EnqueueDurable, db, exec
  <2>3. CASE TerminalizeInvalid(t)
    BY <1>0, <2>3 DEF TerminalizeInvalid, FailTurn, exec
  <2> QED
    BY <1>1, <2>1, <2>2, <2>3
<1>2. CASE Scan
  BY <1>0, <1>2 DEF Scan, db, exec
<1>3. ASSUME NEW e \in Executors, Step(e) \/ StartDirect(e) \/ AcceptFault(e) \/ FailFault(e)
      PROVE  Goal
  <2> USE <1>0 DEF Goto
  <2>1. CASE Start(e) \/ StartDirect(e)
    BY <2>1 DEF Start, StartDirect, db
  <2>2. CASE RejectRead(e) \/ Reply(e) \/ Drain(e)
    BY <2>2 DEF RejectRead, Reply, Drain, db
  <2>3. CASE RejectWrite(e)
    BY <2>3 DEF RejectWrite, FailTurn
  <2>4. CASE AcceptTurn(e)
    BY <2>4 DEF AcceptTurn
  <2>5. CASE AcceptFault(e) \/ FailFault(e) \/ FailRead(e)
    BY <2>5 DEF AcceptFault, FailFault, FailRead, db
  <2>6. CASE CommitInput(e)
    BY <2>6 DEF CommitInput, Transition
  <2>7. CASE ResumeInput(e) \/ ResumeTools(e)
    BY <2>7 DEF ResumeInput, ResumeTools, Resume, db
  <2>8. CASE FailResume(e) \/ FailWrite(e)
    BY <2>8 DEF FailResume, FailWrite, FailTurn
  <2>9. CASE BeginModel(e)
    BY <2>9 DEF BeginModel, Transition
  <2>10. CASE IterationsExhausted(e) \/ ModelReply(e) \/ ModelBreaksOff(e) \/ StepFails(e)
    BY <2>10 DEF IterationsExhausted, ModelReply, ModelBreaksOff, StepFails, db
  <2>11. CASE CompleteModel(e)
    BY <2>11 DEF CompleteModel, Transition
  <2>12. CASE BeginTools(e) \/ CompleteTools(e)
    BY <2>12 DEF BeginTools, CompleteTools, Transition
  <2>13. CASE CompleteTurn(e)
    BY <2>13 DEF CompleteTurn, Transition
  <2>14. CASE MarkTools(e) \/ MarkFinal(e) \/ MarkFailed(e)
    BY <2>14 DEF MarkTools, MarkFinal, MarkFailed, MarkPublished
  <2>15. CASE PersistToolCall(e) \/ PersistToolResults(e)
    BY <2>15 DEF PersistToolCall, PersistToolResults
  <2>16. CASE PersistFinal(e)
    BY <2>16 DEF PersistFinal
  <2>17. CASE RunTools(e) \/ CommitStaged(e)
    BY <2>17 DEF RunTools, CommitStaged, db
  <2> QED
    BY <1>3, <2>1, <2>2, <2>3, <2>4, <2>5, <2>6, <2>7, <2>8, <2>9, <2>10, <2>11, <2>12,
       <2>13, <2>14, <2>15, <2>16, <2>17 DEF Step
<1>4. CASE Crash
  BY <1>0, <1>4 DEF Crash, db
<1>5. CASE Restart
  BY <1>0, <1>5 DEF Restart, Recovered, exec
<1>6. CASE UNCHANGED vars
  BY <1>0, <1>6 DEF vars, db, exec
<1> QED
  BY <1>1, <1>2, <1>3, <1>4, <1>5, <1>6 DEF Next

(* For every set of turns, direct ones too: a failed or uncertain turn, and *)
(* only such a turn, has its failure row, whoever ended it.                 *)
THEOREM FailureShown == Spec => []FailureVisible
<1>1. Init => FailureVisible /\ ReplyInv
  BY DEF Init, FailureVisible, ReplyInv, Running
<1> QED
  BY <1>1, TypeCorrect, RowStep, PTL DEF Spec

(* A completed turn can be answered again from the conversation.            *)
THEOREM ReplyStored == Spec => []CompletedHasReply
<1>1. Init => FailureVisible /\ ReplyInv
  BY DEF Init, FailureVisible, ReplyInv, Running
<1>2. ReplyInv => CompletedHasReply
  BY DEF ReplyInv, CompletedHasReply
<1> QED
  BY <1>1, <1>2, TypeCorrect, RowStep, PTL DEF Spec

(* The outcome of a turn is decided once, even when two executors, the      *)
(* dispatcher and a restart compete to decide it.                           *)
THEOREM OutcomeFinal == Spec => TerminalIsFinal
<1>1. Init => FailureVisible /\ ReplyInv
  BY DEF Init, FailureVisible, ReplyInv, Running
<1>2. TypeOK /\ FailureVisible /\ ReplyInv /\ [Next]_vars
        => [\A t \in Turns : state[t] \in Terminal => state'[t] = state[t]]_vars
  BY RowStep
<1> QED
  BY <1>1, <1>2, TypeCorrect, RowStep, PTL DEF Spec, TerminalIsFinal

-----------------------------------------------------------------------------
(* The inductive invariant of the turns the scheduler runs.                 *)

(* Only the scheduler's own executor, the dispatcher and a restart touch a  *)
(* scheduled turn: any other executor leaves its row and its executor alone.*)
LEMMA OthersUntouched ==
    ASSUME TypeOK, NEW t \in Scheduled, NEW e \in Executors, e # <<t, "sched">>
    PROVE  e[1] # t
BY ExecutorShape

(* Storage errors that are only logged do not occur. *)
LEMMA NoFault == ASSUME TypeOK, MaxFaults = 0 PROVE ~Fault
BY BoundsAssumption DEF TypeOK, Fault

LEMMA IInvInit == Init => IInv
BY DEF Init, IInv, OwnedInv, RowOK, ExecOK, Executors, Scheduled

(* Intake, dispatcher and process actions. *)
LEMMA IInvOutside ==
    ASSUME TypeOK, TypeOK', IInv,
           \/ \E t \in Turns : Submit(t) \/ Schedule(t) \/ EnqueueDurable(t)
                               \/ TerminalizeInvalid(t)
           \/ Scan \/ Crash \/ Restart \/ UNCHANGED vars
    PROVE  IInv'
<1> USE TurnsAssumption DEF IInv, OwnedInv, RowOK, ExecOK, TypeOK, Scheduled
<1>0. \A t \in Scheduled : <<t, "sched">> \in Executors
  BY DEF Executors
<1>1. ASSUME NEW t \in Turns, Submit(t) PROVE IInv'
  BY <1>0, <1>1 DEF Submit, exec, env, world, RowAt, States, Queued
<1>2. ASSUME NEW t \in Turns, Schedule(t) PROVE IInv'
  BY <1>0, <1>2 DEF Schedule, db, exec, env, world
<1>3. ASSUME NEW t \in Turns, EnqueueDurable(t) PROVE IInv'
  BY <1>0, <1>3 DEF EnqueueDurable, db, exec, env, world
<1>4. ASSUME NEW t \in Turns, TerminalizeInvalid(t) PROVE IInv'
  BY <1>0, <1>4 DEF TerminalizeInvalid, FailTurn, exec, env, world, RowAt, States,
                    Queued, Terminal, Resumable
<1>5. CASE Scan
  BY <1>0, <1>5 DEF Scan, db, exec, env, world, Resumable, Queued
<1>6. CASE Crash
  BY <1>0, <1>6 DEF Crash, db, world
<1>7. CASE Restart
  BY <1>0, <1>7 DEF Restart, Recovered, exec, world, Resumable, Running, Queued
<1>8. CASE UNCHANGED vars
  BY <1>0, <1>8 DEF vars, db, sched, exec, env, world
<1> QED
  BY <1>1, <1>2, <1>3, <1>4, <1>5, <1>6, <1>7, <1>8

(* A step of another executor leaves a scheduled turn as it is. *)
LEMMA OtherStep ==
    ASSUME TypeOK, NEW t \in Scheduled, NEW e \in Executors, e # <<t, "sched">>,
           Step(e) \/ StartDirect(e)
    PROVE  /\ UNCHANGED <<state[t], published[t], iter[t], toolRuns[t]>>
           /\ UNCHANGED <<pc[<<t, "sched">>], it[<<t, "sched">>], aim[<<t, "sched">>]>>
<1>0. e[1] # t /\ t \in Turns /\ <<t, "sched">> \in Executors
  BY OthersUntouched DEF Scheduled, Executors
<1> USE <1>0 DEF TypeOK, Goto, Decide, db, world
<1>1. CASE Start(e) \/ StartDirect(e) \/ RejectRead(e) \/ FailRead(e) \/ Reply(e) \/ Drain(e)
  BY <1>1 DEF Start, StartDirect, RejectRead, FailRead, Reply, Drain
<1>2. CASE RejectWrite(e) \/ FailResume(e) \/ FailWrite(e)
  BY <1>2 DEF RejectWrite, FailResume, FailWrite, FailTurn
<1>3. CASE AcceptTurn(e) \/ CommitInput(e) \/ BeginModel(e) \/ CompleteModel(e)
  BY <1>3 DEF AcceptTurn, CommitInput, BeginModel, CompleteModel, Transition
<1>4. CASE ResumeInput(e) \/ ResumeTools(e)
  BY <1>4 DEF ResumeInput, ResumeTools, Resume
<1>5. CASE IterationsExhausted(e) \/ ModelReply(e) \/ ModelBreaksOff(e) \/ StepFails(e)
  BY <1>5 DEF IterationsExhausted, ModelReply, ModelBreaksOff, StepFails
<1>6. CASE BeginTools(e) \/ CompleteTools(e) \/ CompleteTurn(e)
  BY <1>6 DEF BeginTools, CompleteTools, CompleteTurn, Transition
<1>7. CASE MarkTools(e) \/ MarkFinal(e) \/ MarkFailed(e)
  BY <1>7 DEF MarkTools, MarkFinal, MarkFailed, MarkPublished
<1>8. CASE PersistToolCall(e) \/ PersistToolResults(e) \/ PersistFinal(e)
  BY <1>8 DEF PersistToolCall, PersistToolResults, PersistFinal
<1>9. CASE RunTools(e) \/ CommitStaged(e)
  BY <1>9 DEF RunTools, CommitStaged
<1> QED
  BY <1>1, <1>2, <1>3, <1>4, <1>5, <1>6, <1>7, <1>8, <1>9 DEF Step

(* The executor's own step keeps what its position tells about its turn.    *)
LEMMA OwnStep ==
    ASSUME TypeOK, NEW t \in Scheduled, NEW e \in Executors, e = <<t, "sched">>,
           RowOK(t), ExecOK(t, e), state[t] # "none" \/ pc[e] = "idle", ~Fault,
           t \in owned => state[t] # "none",
           Step(e)
    PROVE  RowOK(t)' /\ ExecOK(t, e)'
<1>0. e[1] = t /\ t \in Turns /\ e[2] = "sched"
  BY DEF Scheduled
<1> USE <1>0 DEF RowOK, ExecOK, RowAt, TypeOK, Goto, Decide, db, world
<1>1. CASE Start(e)
  BY <1>1 DEF Start, States
<1>2. CASE RejectRead(e)
  BY <1>2 DEF RejectRead, States, Queued, Terminal
<1>3. CASE RejectWrite(e)
  BY <1>3 DEF RejectWrite, FailTurn, States, Queued, Terminal
<1>4. CASE AcceptTurn(e)
  BY <1>4 DEF AcceptTurn, States, Queued
<1>5. CASE CommitInput(e)
  BY <1>5 DEF CommitInput, Transition, States, Queued
<1>6. CASE ResumeInput(e)
  BY <1>6 DEF ResumeInput, Resume, States, Queued
<1>7. CASE ResumeTools(e)
  BY <1>7 DEF ResumeTools, Resume, States
<1>8. CASE FailResume(e) \/ FailWrite(e)
  BY <1>8 DEF FailResume, FailWrite, FailTurn, States, Queued, Terminal
<1>9. CASE BeginModel(e)
  BY <1>9 DEF BeginModel, Transition, States, Queued
<1>10. CASE IterationsExhausted(e) \/ StepFails(e) \/ ModelBreaksOff(e)
  BY <1>10 DEF IterationsExhausted, StepFails, ModelBreaksOff, Fallible, States
<1>11. CASE ModelReply(e)
  BY <1>11 DEF ModelReply
<1>12. CASE CompleteModel(e)
  BY <1>12 DEF CompleteModel, Transition, States, Queued
<1>13. CASE BeginTools(e)
  BY <1>13 DEF BeginTools, Transition, States, Queued
<1>14. CASE MarkTools(e) \/ MarkFinal(e) \/ MarkFailed(e)
  BY <1>14 DEF MarkTools, MarkFinal, MarkFailed, MarkPublished, States
<1>15. CASE PersistToolCall(e) \/ PersistToolResults(e) \/ PersistFinal(e)
  BY <1>15 DEF PersistToolCall, PersistToolResults, PersistFinal
<1>16. CASE RunTools(e)
  BY <1>16 DEF RunTools, States, Queued
<1>17. CASE CompleteTools(e)
  BY <1>17 DEF CompleteTools, Transition, States, Queued
<1>18. CASE CommitStaged(e)
  BY <1>18 DEF CommitStaged
<1>19. CASE CompleteTurn(e)
  BY <1>19 DEF CompleteTurn, Transition, States, Queued, Terminal
<1>20. CASE FailRead(e) \/ Reply(e) \/ Drain(e)
  BY <1>20 DEF FailRead, Reply, Drain, States, Terminal
<1> QED
  BY <1>1, <1>2, <1>3, <1>4, <1>5, <1>6, <1>7, <1>8, <1>9, <1>10, <1>11, <1>12, <1>13,
     <1>14, <1>15, <1>16, <1>17, <1>18, <1>19, <1>20 DEF Step

(* The scheduler's bookkeeping survives every executor step. *)
LEMMA OwnedStep ==
    ASSUME TypeOK, IInv, NEW e \in Executors, Step(e) \/ StartDirect(e)
    PROVE  OwnedInv'
<1>0. /\ e[1] \in Turns /\ (e[2] = "sched" => e = <<e[1], "sched">>)
      /\ \A t \in Scheduled : <<t, "sched">> \in Executors
      /\ \A t \in Scheduled : e[1] = t => e = <<t, "sched">>
  BY ExecutorShape DEF Executors, Scheduled
<1> USE <1>0 DEF IInv, OwnedInv, TypeOK, Goto, db, sched, env
<1>1. CASE Start(e) \/ RejectRead(e) \/ FailRead(e) \/ Reply(e) \/ Drain(e)
  BY <1>1 DEF Start, RejectRead, FailRead, Reply, Drain
<1>2. CASE StartDirect(e)
  BY <1>2 DEF StartDirect, Scheduled, Executors
<1>3. CASE RejectWrite(e) \/ FailResume(e) \/ FailWrite(e)
  BY <1>3 DEF RejectWrite, FailResume, FailWrite, FailTurn
<1>4. CASE AcceptTurn(e) \/ CommitInput(e) \/ BeginModel(e) \/ CompleteModel(e)
  BY <1>4 DEF AcceptTurn, CommitInput, BeginModel, CompleteModel, Transition
<1>5. CASE ResumeInput(e) \/ ResumeTools(e)
  BY <1>5 DEF ResumeInput, ResumeTools, Resume
<1>6. CASE IterationsExhausted(e) \/ ModelReply(e) \/ ModelBreaksOff(e) \/ StepFails(e)
  BY <1>6 DEF IterationsExhausted, ModelReply, ModelBreaksOff, StepFails, Fallible
<1>7. CASE BeginTools(e) \/ CompleteTools(e) \/ CompleteTurn(e)
  BY <1>7 DEF BeginTools, CompleteTools, CompleteTurn, Transition
<1>8. CASE MarkTools(e) \/ MarkFinal(e) \/ MarkFailed(e)
  BY <1>8 DEF MarkTools, MarkFinal, MarkFailed, MarkPublished
<1>9. CASE PersistToolCall(e) \/ PersistToolResults(e) \/ PersistFinal(e)
  BY <1>9 DEF PersistToolCall, PersistToolResults, PersistFinal
<1>10. CASE RunTools(e) \/ CommitStaged(e)
  BY <1>10 DEF RunTools, CommitStaged
<1> QED
  BY <1>1, <1>2, <1>3, <1>4, <1>5, <1>6, <1>7, <1>8, <1>9, <1>10 DEF Step

(* Without storage errors that are only logged, IInv is inductive. *)
LEMMA IInvStep ==
    ASSUME TypeOK, TypeOK', IInv, MaxFaults = 0, [Next]_vars
    PROVE  IInv'
<1>1. ASSUME NEW e \in Executors, Step(e) \/ StartDirect(e) \/ AcceptFault(e) \/ FailFault(e)
      PROVE  IInv'
  <2>1. ~Fault /\ (Step(e) \/ StartDirect(e))
    BY <1>1, NoFault DEF AcceptFault, FailFault
  <2>2. ASSUME NEW t \in Scheduled PROVE RowOK(t)' /\ ExecOK(t, <<t, "sched">>)'
    <3>0. RowOK(t) /\ ExecOK(t, <<t, "sched">>)
      BY DEF IInv
    <3>1. CASE e = <<t, "sched">>
      <4>1. (state[t] # "none" \/ pc[e] = "idle") /\ (t \in owned => state[t] # "none")
        BY <3>1 DEF IInv, OwnedInv
      <4>2. e[1] = t /\ e[2] = "sched"
        BY <3>1
      <4>3. Step(e)
        BY <2>1, <4>2 DEF StartDirect
      <4>4. RowOK(t)' /\ ExecOK(t, e)'
        BY <2>1, <3>0, <3>1, <4>1, <4>3, OwnStep
      <4> QED
        BY <3>1, <4>4
    <3>2. CASE e # <<t, "sched">>
      <4>1. /\ UNCHANGED <<state[t], published[t], iter[t], toolRuns[t]>>
            /\ UNCHANGED <<pc[<<t, "sched">>], it[<<t, "sched">>], aim[<<t, "sched">>]>>
        BY <2>1, <3>2, OtherStep
      <4> QED
        BY <3>0, <4>1 DEF RowOK, ExecOK, RowAt
    <3> QED
      BY <3>1, <3>2
  <2> QED
    BY <2>1, <2>2, OwnedStep DEF IInv
<1> QED
  BY <1>1, IInvOutside DEF Next

LEMMA IInvHolds == MaxFaults = 0 /\ Spec => []IInv
<1> SUFFICES ASSUME MaxFaults = 0 PROVE Spec => []IInv
  OBVIOUS
<1>1. TypeOK /\ TypeOK' /\ IInv /\ [Next]_vars => IInv'
  BY IInvStep
<1> QED
  BY <1>1, IInvInit, TypeCorrect, PTL DEF Spec

(* Unless a storage error was swallowed, a turn that invites a retry (failed*)
(* or cancelled) has run none of its tools.                                 *)
THEOREM RetryIsSafe == MaxFaults = 0 /\ Spec => []FailedMeansNoToolRan
<1>1. IInv => FailedMeansNoToolRan
  BY DEF IInv, RowOK, FailedMeansNoToolRan
<1> QED
  BY <1>1, IInvHolds, PTL

(* No crash, resume or dispatcher pass makes a tool phase run twice.        *)
THEOREM ToolsRunOnce == MaxFaults = 0 /\ Spec => []NoToolRerun
<1>1. TypeOK /\ IInv => NoToolRerun
  <2> SUFFICES ASSUME TypeOK, IInv, NEW e \in Executors, e[1] \in Scheduled,
                      pc[e] = "runTools"
               PROVE  it[e] \notin toolRuns[e[1]]
    BY DEF NoToolRerun
  <2>1. ExecOK(e[1], e)
    BY ExecutorShape DEF IInv
  <2> QED
    BY <2>1 DEF ExecOK, TypeOK
<1> QED
  BY <1>1, TypeCorrect, IInvHolds, PTL

(* Tools run only while the row says so.                                    *)
THEOREM ToolsAreRecorded == MaxFaults = 0 /\ Spec => []ToolsRunWhilePending
<1>1. IInv => ToolsRunWhilePending
  <2> SUFFICES ASSUME IInv, NEW e \in Executors, e[1] \in Scheduled, pc[e] = "runTools"
               PROVE  state[e[1]] = "tools_pending" /\ iter[e[1]] = it[e]
    BY DEF ToolsRunWhilePending
  <2>1. ExecOK(e[1], e)
    BY ExecutorShape DEF IInv
  <2> QED
    BY <2>1 DEF ExecOK, RowAt
<1> QED
  BY <1>1, IInvHolds, PTL

-----------------------------------------------------------------------------
(* Refinement of TurnPromise.                                               *)

(* A step that ends or accepts one scheduled turn, as the client sees it.   *)
LEMMA PhaseStep ==
    ASSUME NEW t \in Scheduled, NEW s \in States, NEW s2 \in States,
           state = [state EXCEPT ![t] = s], state' = [state EXCEPT ![t] = s2],
           state \in [Turns -> States], UNCHANGED toolRuns,
           \/ s = "none" /\ s2 = "accepted"
           \/ s \notin Terminal \cup {"none"} /\ s2 \in Terminal
              /\ (s2 \in {"failed", "cancelled"} => toolRuns[t] = {})
    PROVE  Promise!Next
<1>1. t \in Turns /\ state[t] = s
  BY DEF Scheduled
<1> DEFINE ph == [u \in Scheduled |-> PhaseOf(state[u])]
           ac == [u \in Scheduled |-> toolRuns[u]]
<1>2. ph' = [ph EXCEPT ![t] = PhaseOf(s2)] /\ ac' = ac /\ ph[t] = PhaseOf(s)
  BY <1>1 DEF Scheduled, PhaseOf
<1>3. CASE s = "none" /\ s2 = "accepted"
  <2>1. Promise!Accept(t)
    BY <1>2, <1>3 DEF Promise!Accept, PhaseOf
  <2> QED
    BY <2>1 DEF Promise!Next
<1>4. CASE /\ s \notin Terminal \cup {"none"} /\ s2 \in Terminal
           /\ (s2 \in {"failed", "cancelled"} => toolRuns[t] = {})
  <2>1. PhaseOf(s) = "open"
    BY <1>4 DEF PhaseOf, Terminal
  <2>2. /\ PhaseOf(s2) \in Promise!Outcomes
        /\ PhaseOf(s2) \in Promise!Retryable => ac[t] = {}
    BY <1>4 DEF PhaseOf, Terminal, Promise!Outcomes, Promise!Retryable
  <2>3. Promise!Finish(t)
    BY <1>2, <2>1, <2>2 DEF Promise!Finish
  <2> QED
    BY <2>3 DEF Promise!Next
<1> QED
  BY <1>3, <1>4

(* A step the client does not see. *)
LEMMA HiddenStep ==
    ASSUME \A u \in Scheduled :
               PhaseOf(state[u])' = PhaseOf(state[u]) /\ toolRuns'[u] = toolRuns[u]
    PROVE  UNCHANGED Promise!vars
BY DEF Promise!vars

(* A row that moves on without ending stays open. *)
LEMMA TransitionStep ==
    ASSUME TypeOK, NEW e \in Executors, NEW from, NEW to, NEW next,
           Transition(e, from, to, next), UNCHANGED toolRuns,
           from \cap (Terminal \cup {"none"}) = {}, to \notin Terminal \cup {"none"}
    PROVE  UNCHANGED Promise!vars
<1>1. e[1] \in Turns
  BY ExecutorShape
<1> SUFFICES ASSUME NEW u \in Scheduled
             PROVE  PhaseOf(state[u])' = PhaseOf(state[u]) /\ toolRuns'[u] = toolRuns[u]
  BY HiddenStep
<1> QED
  BY <1>1 DEF Transition, PhaseOf, Terminal, TypeOK, Scheduled

(* fail_turn ends an open turn or does nothing. *)
LEMMA FailTurnStep ==
    ASSUME TypeOK, NEW t \in Turns, NEW to \in {"failed", "uncertain"}, FailTurn(t, to),
           UNCHANGED toolRuns, t \in Scheduled /\ to = "failed" => toolRuns[t] = {}
    PROVE  Promise!Next \/ UNCHANGED Promise!vars
<1>1. CASE t \in Scheduled /\ state[t] \notin Terminal \cup {"none"}
  <2>1. /\ state[t] \in States /\ to \in States /\ to \in Terminal
        /\ state = [state EXCEPT ![t] = state[t]] /\ state' = [state EXCEPT ![t] = to]
    BY <1>1 DEF FailTurn, TypeOK, States, Terminal
  <2> QED
    BY <1>1, <2>1, PhaseStep DEF TypeOK
<1>2. CASE t \notin Scheduled \/ state[t] \in Terminal \cup {"none"}
  <2>1. \A u \in Scheduled : state'[u] = state[u]
    BY <1>2 DEF FailTurn, TypeOK, Scheduled
  <2> QED
    BY <2>1, HiddenStep
<1> QED
  BY <1>1, <1>2

(* A step of an executor. *)
LEMMA PromiseStep ==
    ASSUME TypeOK, IInv, NEW e \in Executors, Step(e) \/ StartDirect(e)
    PROVE  Promise!Next \/ UNCHANGED Promise!vars
<1>0. /\ e[1] \in Turns /\ (e[1] \in Scheduled => e = <<e[1], "sched">>)
  BY ExecutorShape
<1>x. e[1] \in Scheduled => RowOK(e[1]) /\ ExecOK(e[1], e)
  BY <1>0 DEF IInv
<1>1. CASE \/ Start(e) \/ StartDirect(e) \/ RejectRead(e) \/ FailRead(e) \/ Reply(e)
           \/ Drain(e) \/ ResumeInput(e) \/ ResumeTools(e) \/ IterationsExhausted(e)
           \/ ModelReply(e) \/ ModelBreaksOff(e) \/ StepFails(e) \/ CommitStaged(e)
           \/ PersistToolCall(e) \/ PersistToolResults(e) \/ PersistFinal(e)
           \/ MarkTools(e) \/ MarkFinal(e) \/ MarkFailed(e)
  <2>1. UNCHANGED <<state, toolRuns>>
    BY <1>1 DEF Start, StartDirect, RejectRead, FailRead, Reply, Drain, ResumeInput,
                ResumeTools, Resume, IterationsExhausted, ModelReply, ModelBreaksOff,
                StepFails, CommitStaged, PersistToolCall, PersistToolResults, PersistFinal,
                MarkTools, MarkFinal, MarkFailed, MarkPublished, db, world
  <2> QED
    BY <2>1, HiddenStep
<1>2. CASE RejectWrite(e)
  <2>1. CASE aim[e] = "uncertain"
    BY <1>0, <1>2, <2>1, FailTurnStep DEF RejectWrite, world
  <2>2. CASE aim[e] = "cancelled" /\ state[e[1]] \in Queued /\ e[1] \in Scheduled
    <3>1. /\ state[e[1]] \in States \ (Terminal \cup {"none"})
          /\ "cancelled" \in States /\ "cancelled" \in Terminal
          /\ toolRuns[e[1]] = {} /\ UNCHANGED toolRuns
          /\ state = [state EXCEPT ![e[1]] = state[e[1]]]
          /\ state' = [state EXCEPT ![e[1]] = "cancelled"]
      BY <1>0, <1>2, <1>x, <2>2
         DEF RejectWrite, RowOK, States, Queued, Terminal, world, TypeOK
    <3> QED
      BY <2>2, <3>1, PhaseStep DEF TypeOK
  <2>3. CASE aim[e] = "cancelled" /\ (state[e[1]] \notin Queued \/ e[1] \notin Scheduled)
    <3>1. (\A u \in Scheduled : state'[u] = state[u]) /\ UNCHANGED toolRuns
      BY <1>0, <1>2, <2>3 DEF RejectWrite, TypeOK, world, Scheduled
    <3> QED
      BY <3>1, HiddenStep
  <2> QED
    BY <1>2, <2>1, <2>2, <2>3 DEF RejectWrite
<1>3. CASE AcceptTurn(e)
  <2>1. CASE state[e[1]] = "none" /\ e[1] \in Scheduled
    <3>1. /\ "none" \in States /\ "accepted" \in States /\ UNCHANGED toolRuns
          /\ state = [state EXCEPT ![e[1]] = "none"]
          /\ state' = [state EXCEPT ![e[1]] = "accepted"]
      BY <1>0, <1>3, <2>1 DEF AcceptTurn, States, Queued, world, TypeOK
    <3> QED
      BY <2>1, <3>1, PhaseStep DEF TypeOK
  <2>2. CASE state[e[1]] # "none" \/ e[1] \notin Scheduled
    <3>1. (\A u \in Scheduled : state'[u] = state[u]) /\ UNCHANGED toolRuns
      BY <1>0, <1>3, <2>2 DEF AcceptTurn, TypeOK, world, Scheduled
    <3> QED
      BY <3>1, HiddenStep
  <2> QED
    BY <2>1, <2>2
<1>4. CASE CommitInput(e) \/ BeginModel(e) \/ CompleteModel(e) \/ BeginTools(e) \/ CompleteTools(e)
  BY <1>4, TransitionStep DEF CommitInput, BeginModel, CompleteModel, BeginTools,
                              CompleteTools, world, Terminal
<1>5. CASE CompleteTurn(e)
  <2>1. CASE e[1] \in Scheduled /\ state[e[1]] \in {"model_completed", "tools_completed"}
    <3>1. /\ state[e[1]] \in States \ (Terminal \cup {"none"})
          /\ "completed" \in States /\ "completed" \in Terminal /\ UNCHANGED toolRuns
          /\ state = [state EXCEPT ![e[1]] = state[e[1]]]
          /\ state' = [state EXCEPT ![e[1]] = "completed"]
      BY <1>0, <1>5, <2>1 DEF CompleteTurn, Transition, States, Terminal, world, TypeOK
    <3> QED
      BY <2>1, <3>1, PhaseStep DEF TypeOK
  <2>2. CASE e[1] \notin Scheduled \/ state[e[1]] \notin {"model_completed", "tools_completed"}
    <3>1. (\A u \in Scheduled : state'[u] = state[u]) /\ UNCHANGED toolRuns
      BY <1>0, <1>5, <2>2 DEF CompleteTurn, Transition, TypeOK, world, Scheduled
    <3> QED
      BY <3>1, HiddenStep
  <2> QED
    BY <2>1, <2>2
<1>6. CASE FailResume(e) \/ FailWrite(e)
  <2>1. /\ aim[e] \in {"failed", "uncertain"} /\ FailTurn(e[1], aim[e]) /\ UNCHANGED toolRuns
        /\ e[1] \in Scheduled /\ aim[e] = "failed" => toolRuns[e[1]] = {}
    BY <1>6, <1>x DEF FailResume, FailWrite, TypeOK, ExecOK, world
  <2> QED
    BY <1>0, <2>1, FailTurnStep
<1>7. CASE RunTools(e)
  <2>1. CASE e[1] \in Scheduled
    <3> DEFINE ac == [u \in Scheduled |-> toolRuns[u]]
    <3>1. state[e[1]] = "tools_pending" /\ it[e] \in 1..MaxIterations
      BY <1>0, <1>7, <1>x, <2>1, BoundsAssumption DEF RunTools, ExecOK, RowAt, TypeOK
    <3>2. ac' = [ac EXCEPT ![e[1]] = @ \cup {it[e]}]
      BY <1>0, <1>7, <2>1 DEF RunTools, TypeOK, Scheduled
    <3>3. UNCHANGED state
      BY <1>7 DEF RunTools, db
    <3>4. Promise!Act(e[1])
      BY <2>1, <3>1, <3>2, <3>3 DEF Promise!Act, PhaseOf
    <3> QED
      BY <2>1, <3>4 DEF Promise!Next
  <2>2. CASE e[1] \notin Scheduled
    <3>1. \A u \in Scheduled : toolRuns'[u] = toolRuns[u] /\ state'[u] = state[u]
      BY <1>0, <1>7, <2>2 DEF RunTools, TypeOK, Scheduled, db
    <3> QED
      BY <3>1, HiddenStep
  <2> QED
    BY <2>1, <2>2
<1> QED
  BY <1>1, <1>2, <1>3, <1>4, <1>5, <1>6, <1>7 DEF Step

(* Unless a storage error was swallowed, the rows, the executors, the       *)
(* dispatcher and recovery implement TurnPromise for every scheduled turn.  *)
THEOREM PromiseKept == MaxFaults = 0 /\ Spec => KeepsPromise
<1> SUFFICES ASSUME MaxFaults = 0 PROVE Spec => Promise!Spec
  BY DEF KeepsPromise
<1>1. Init => Promise!Init
  BY DEF Init, Promise!Init, Scheduled, PhaseOf
<1>2. TypeOK /\ IInv /\ [Next]_vars => [Promise!Next]_(Promise!vars)
  <2> SUFFICES ASSUME TypeOK, IInv, [Next]_vars
               PROVE  Promise!Next \/ UNCHANGED Promise!vars
    OBVIOUS
  <2>1. ASSUME NEW t \in Turns, Submit(t)
        PROVE  Promise!Next \/ UNCHANGED Promise!vars
    <3>1. /\ "none" \in States /\ "accepted" \in States /\ t \in Scheduled
          /\ UNCHANGED toolRuns /\ state = [state EXCEPT ![t] = "none"]
          /\ state' = [state EXCEPT ![t] = "accepted"]
      BY <2>1 DEF Submit, States, Queued, Scheduled, world, TypeOK
    <3> QED
      BY <3>1, PhaseStep DEF TypeOK
  <2>2. ASSUME NEW t \in Turns, TerminalizeInvalid(t)
        PROVE  Promise!Next \/ UNCHANGED Promise!vars
    <3>1. UNCHANGED toolRuns
      BY <2>2 DEF TerminalizeInvalid, world
    <3>2. CASE state[t] \in Resumable
      <4> DEFINE to == IF state[t] = "tools_completed" /\ published[t]
                       THEN "uncertain" ELSE "failed"
      <4>1. FailTurn(t, to) /\ to \in {"failed", "uncertain"}
        BY <2>2, <3>2 DEF TerminalizeInvalid
      <4>2. t \in Scheduled /\ to = "failed" => toolRuns[t] = {}
        BY <3>2 DEF IInv, RowOK, Resumable
      <4> HIDE DEF to
      <4> QED
        BY <3>1, <4>1, <4>2, FailTurnStep
    <3>3. CASE state[t] \notin Resumable
      BY <2>2, <3>1, <3>3, HiddenStep DEF TerminalizeInvalid
    <3> QED
      BY <3>2, <3>3
  <2>3. ASSUME NEW t \in Turns, Schedule(t) \/ EnqueueDurable(t)
        PROVE  Promise!Next \/ UNCHANGED Promise!vars
    BY <2>3, HiddenStep DEF Schedule, EnqueueDurable, db, world
  <2>4. CASE Scan \/ Crash \/ UNCHANGED vars
    BY <2>4, HiddenStep DEF Scan, Crash, vars, db, world
  <2>5. CASE Restart
    <3> DEFINE ph == [u \in Scheduled |-> PhaseOf(state[u])]
               ac == [u \in Scheduled |-> toolRuns[u]]
               lost == {u \in Scheduled : Recovered(u) # state[u]}
    <3>1. lost \in SUBSET {u \in Scheduled : ph[u] = "open"}
      BY DEF Recovered, Running, Resumable, Queued, PhaseOf
    <3>2. ph' = [u \in Scheduled |-> IF u \in lost THEN "uncertain" ELSE ph[u]]
      <4>1. ASSUME NEW u \in Scheduled
            PROVE  ph'[u] = IF u \in lost THEN "uncertain" ELSE ph[u]
        BY <2>5 DEF Restart, Recovered, PhaseOf, Scheduled
      <4> QED
        BY <4>1
    <3>3. UNCHANGED ac
      BY <2>5 DEF Restart, world
    <3>4. Promise!Interrupt
      BY <3>1, <3>2, <3>3 DEF Promise!Interrupt
    <3> QED
      BY <3>4 DEF Promise!Next
  <2>6. ASSUME NEW e \in Executors, Step(e) \/ StartDirect(e) \/ AcceptFault(e) \/ FailFault(e)
        PROVE  Promise!Next \/ UNCHANGED Promise!vars
    BY <2>6, NoFault, PromiseStep DEF AcceptFault, FailFault
  <2> QED
    BY <2>1, <2>2, <2>3, <2>4, <2>5, <2>6 DEF Next
<1> QED
  BY <1>1, <1>2, TypeCorrect, IInvHolds, PTL DEF Spec, Promise!Spec

(* What can be looked up about an ended turn is what happened, for any      *)
(* number of racing executors, crashes and storage faults.                  *)
THEOREM OutcomeIsShown == Spec => []OutcomeShown
<1>1. TypeOK /\ FailureVisible /\ CompletedHasReply => OutcomeShown
  BY DEF OutcomeShown
<1> QED
  BY <1>1, TypeCorrect, FailureShown, ReplyStored, PTL
=============================================================================
