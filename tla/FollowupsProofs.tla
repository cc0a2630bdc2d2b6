--------------------------- MODULE FollowupsProofs ---------------------------
(* Theorems about Followups, for any number of messages, clients, crashes,   *)
(* refusals and failed deletions.                                            *)
EXTENDS Followups, FiniteSetTheorems, TLAPS

(* The types of what the other parts speak of. *)
FollowupTypes ==
    /\ turn \in [Keys -> States] /\ owner \in [Keys -> Keys \cup {Nobody}]
    /\ history \subseteq Keys /\ fed \in [Keys -> Nat]
    /\ intake \in [step : {"idle", "attach", "listen", "recheck", "submit", "register"},
                   key : Keys \cup {Nobody}, sink : Sinks \cup {Nobody}]
    /\ scheduled \subseteq Keys /\ accepted \subseteq Keys
    /\ running \in Keys \cup {Nobody} /\ pc \in Steps
    /\ phase \in Phases /\ groups \subseteq Keys /\ todo \subseteq Keys
    /\ deleting \in Keys \cup {Nobody}

(* The row each step of the executor finds. *)
RowsAt(step) ==
    CASE step = "input" -> {"accepted"}
      [] step = "model" -> {"input_committed", "tools_completed"}
      [] step = "reply" -> {"model"}
      [] step = "tools" -> {"tools_pending"}
      [] step \in {"list", "write"} -> {"tools_completed"}
      [] OTHER -> Terminal

(* Only turns with a row are handed to the scheduler, and the row of the     *)
(* turn that runs is where its executor is.  An executor about to write has  *)
(* listed all that is staged for its turn: no more can be staged, since its  *)
(* tool phase is over, and nothing of a turn that has not ended is promoted. *)
ExecutorInv ==
    /\ \A k \in scheduled \cup accepted : turn[k] # "none"
    /\ intake.step \in {"submit", "register"} => intake.key \in Keys
    /\ intake.step = "register" => turn[intake.key] # "none"
    /\ pc = "idle" => running = Nobody
    /\ \A k \in Keys : turn[k] \in {"model", "tools_pending"} => running = k
    /\ pc # "idle" => running \in Keys /\ turn[running] \in RowsAt(pc)
    /\ pc = "write" => listed = Staged(running)

(* The dispatcher only handles messages staged for turns that have ended,    *)
(* and deletes a row only when the message is a turn.                        *)
Ended(m) == IsStaged(m) /\ turn[owner[m]] \in Terminal

PromotionInv ==
    /\ \A p \in groups : turn[p] \in Terminal
    /\ \A m \in todo : Ended(m)
    /\ phase = "delete" => /\ deleting \in Keys \ todo
                           /\ Ended(deleting) /\ turn[deleting] # "none"
    /\ phase \in {"idle", "promote", "scan"} => todo = {}

HistoryInv ==
    /\ FedOnce
    /\ \A m \in history : owner[m] # Nobody

FollowupInv == FollowupTypes /\ ExecutorInv /\ PromotionInv /\ HistoryInv

-----------------------------------------------------------------------------
(* Nothing is staged, scheduled or handed over at first.                     *)
LEMMA FollowupInit == Init => FollowupInv
<1> SUFFICES ASSUME Init PROVE FollowupInv
  OBVIOUS
<1> USE DEF Init, NoIntake, States, Resumable, Terminal, Steps, Phases
<1>1. FollowupTypes
  BY DEF FollowupTypes
<1>2. ExecutorInv
  BY DEF ExecutorInv
<1>3. PromotionInv
  BY DEF PromotionInv
<1>4. HistoryInv
  BY DEF HistoryInv, FedOnce
<1> QED
  BY <1>1, <1>2, <1>3, <1>4 DEF FollowupInv

(* Intake: what it writes are rows that did not exist, and the turn a        *)
(* message is staged for is in its tool phase, hence not the one that writes.*)
LEMMA IntakeStep ==
    ASSUME FollowupInv, (\E m \in Keys : StageFollowup(m)) \/ Intake
    PROVE  FollowupInv'
<1> USE ObserversAssumption DEF FollowupInv, States, Resumable, Terminal, Steps, Phases, NoIntake
<1>1. ASSUME NEW m \in Keys, StageFollowup(m) PROVE FollowupInv'
  <2>1. FollowupTypes'
    BY <1>1 DEF StageFollowup, FollowupTypes, exec, dispatcher
  <2>2. ExecutorInv'
    BY <1>1 DEF StageFollowup, FollowupTypes, ExecutorInv, RowsAt, Staged, exec, dispatcher
  <2>3. PromotionInv'
    BY <1>1 DEF StageFollowup, FollowupTypes, PromotionInv, Ended, IsStaged, exec, dispatcher
  <2>4. HistoryInv'
    BY <1>1 DEF StageFollowup, FollowupTypes, HistoryInv, FedOnce, exec, dispatcher
  <2> QED
    BY <2>1, <2>2, <2>3, <2>4
<1>2. CASE LoadOwner \/ AttachOwner \/ Recheck
  <2>1. /\ UNCHANGED <<durable, scheduled, exec, dispatcher>>
        /\ intake'.step \notin {"submit", "register"}
    <3>1. CASE LoadOwner
      BY <3>1 DEF LoadOwner, FollowupTypes
    <3>2. CASE AttachOwner
      BY <3>2 DEF AttachOwner, FollowupTypes
    <3>3. CASE Recheck
      BY <3>3 DEF Recheck, FollowupTypes
    <3> QED
      BY <1>2, <3>1, <3>2, <3>3
  <2>2. intake' \in [step : {"idle", "attach", "listen", "recheck", "submit", "register"},
                     key : Keys \cup {Nobody}, sink : Sinks \cup {Nobody}]
    <3>1. CASE LoadOwner
      BY <3>1 DEF LoadOwner, FollowupTypes
    <3>2. CASE AttachOwner
      BY <3>2 DEF AttachOwner, FollowupTypes
    <3>3. CASE Recheck
      BY <3>3 DEF Recheck, FollowupTypes
    <3> QED
      BY <1>2, <3>1, <3>2, <3>3
  <2>3. FollowupTypes' /\ ExecutorInv'
    BY <2>1, <2>2 DEF FollowupTypes, ExecutorInv, RowsAt, Staged, exec, dispatcher, durable
  <2>4. PromotionInv' /\ HistoryInv'
    BY <2>1 DEF PromotionInv, Ended, IsStaged, HistoryInv, FedOnce, dispatcher, durable
  <2> QED
    BY <2>3, <2>4
<1>4. CASE RegisterAndSchedule
  <2>1. FollowupTypes'
    BY <1>4 DEF RegisterAndSchedule, FollowupTypes, ExecutorInv, exec, dispatcher, durable
  <2>2. ExecutorInv'
    BY <1>4 DEF RegisterAndSchedule, FollowupTypes, ExecutorInv, RowsAt, Staged, exec,
       dispatcher, durable
  <2>3. PromotionInv' /\ HistoryInv'
    BY <1>4 DEF RegisterAndSchedule, PromotionInv, Ended, IsStaged, HistoryInv, FedOnce,
       dispatcher, durable
  <2> QED
    BY <2>1, <2>2, <2>3
<1>3. CASE SubmitTurn
  <2>1. FollowupTypes'
    BY <1>3 DEF SubmitTurn, FollowupTypes, exec, dispatcher
  <2>2. ExecutorInv'
    BY <1>3 DEF SubmitTurn, FollowupTypes, ExecutorInv, RowsAt, Staged, exec, dispatcher
  <2>3. PromotionInv'
    BY <1>3 DEF SubmitTurn, FollowupTypes, PromotionInv, Ended, IsStaged, exec, dispatcher
  <2>4. HistoryInv'
    BY <1>3 DEF SubmitTurn, HistoryInv, FedOnce
  <2> QED
    BY <2>1, <2>2, <2>3, <2>4
<1> QED
  BY <1>1, <1>2, <1>3, <1>4 DEF Intake

(* The executor moves only the row of its turn, from the state its position  *)
(* tells, and commits exactly what it has listed.                            *)
LEMMA ExecutorStep ==
    ASSUME FollowupInv, Executor
    PROVE  FollowupInv'
<1> USE ObserversAssumption
    DEF FollowupInv, States, Resumable, Terminal, Steps, Phases, To, Fail, Drain
<1>1. ASSUME NEW k \in Keys, Start(k) PROVE FollowupInv'
  <2> USE <1>1 DEF Start, dispatcher, durable
  <2>1. FollowupTypes' /\ ExecutorInv'
    BY DEF FollowupTypes, ExecutorInv, RowsAt, Staged
  <2>2. PromotionInv' /\ HistoryInv'
    BY DEF PromotionInv, Ended, IsStaged, HistoryInv, FedOnce
  <2> QED
    BY <2>1, <2>2
<1>2. ASSUME NEW k \in Keys, Reject(k) PROVE FollowupInv'
  <2> USE <1>2 DEF Reject, dispatcher
  <2>1. FollowupTypes'
    BY DEF FollowupTypes
  <2>2. ExecutorInv'
    BY DEF FollowupTypes, ExecutorInv, RowsAt, Staged
  <2>3. PromotionInv'
    BY DEF FollowupTypes, PromotionInv, Ended, IsStaged
  <2>4. HistoryInv'
    BY DEF HistoryInv, FedOnce
  <2> QED
    BY <2>1, <2>2, <2>3, <2>4
<1>3. CASE Rejected \/ Completed \/ Failed \/ Retain
  <2>1. /\ UNCHANGED <<durable, intake, dispatcher>>
        /\ \/ scheduled' \subseteq scheduled /\ running' = Nobody /\ pc' = "idle"
           \/ UNCHANGED <<scheduled, running, listed>> /\ pc = "failed" /\ pc' = "retain"
    BY <1>3 DEF Rejected, Completed, Failed, Retain
  <2>0. running \in Keys /\ turn[running] \in Terminal
    BY <1>3 DEF Rejected, Completed, Failed, Retain, FollowupTypes, ExecutorInv, RowsAt
  <2>2. FollowupTypes' /\ ExecutorInv'
    BY <2>0, <2>1 DEF FollowupTypes, ExecutorInv, RowsAt, Staged, durable, dispatcher
  <2>3. PromotionInv' /\ HistoryInv'
    BY <2>1 DEF PromotionInv, Ended, IsStaged, HistoryInv, FedOnce, dispatcher, durable
  <2> QED
    BY <2>2, <2>3
<1>4. CASE BeginModel \/ Reply \/ Tools
  <2>1. /\ UNCHANGED <<owner, history, fed, intake, scheduled, running, dispatcher>>
        /\ running \in Keys /\ turn[running] \in States \ (Terminal \cup {"none"})
        /\ \E s \in States \ {"none"} :
              turn' = [turn EXCEPT ![running] = s] /\ pc' \in Steps /\ s \in RowsAt(pc')
        /\ pc' \notin {"idle", "write"}
    BY <1>4 DEF BeginModel, Reply, Tools, FollowupTypes, ExecutorInv, RowsAt
  <2>2. FollowupTypes'
    BY <2>1 DEF FollowupTypes, dispatcher
  <2>3. ExecutorInv'
    BY <2>1 DEF FollowupTypes, ExecutorInv, RowsAt, Staged, dispatcher
  <2>4. PromotionInv'
    BY <2>1 DEF FollowupTypes, PromotionInv, Ended, IsStaged, dispatcher
  <2>5. HistoryInv'
    BY <2>1 DEF HistoryInv, FedOnce
  <2> QED
    BY <2>2, <2>3, <2>4, <2>5
<1>5. CASE CommitInput
  <2> USE <1>5 DEF CommitInput, dispatcher
  <2>0. running \in Keys /\ turn[running] = "accepted"
    BY DEF FollowupTypes, ExecutorInv, RowsAt
  <2>1. FollowupTypes'
    BY <2>0 DEF FollowupTypes
  <2>2. ExecutorInv'
    BY <2>0 DEF FollowupTypes, ExecutorInv, RowsAt, Staged
  <2>3. PromotionInv'
    BY <2>0 DEF FollowupTypes, PromotionInv, Ended, IsStaged
  <2>4. HistoryInv'
    BY <2>0 DEF FollowupTypes, HistoryInv, FedOnce
  <2> QED
    BY <2>1, <2>2, <2>3, <2>4
<1>6. CASE ListStaged
  <2> USE <1>6 DEF ListStaged, dispatcher, durable
  <2>1. FollowupTypes' /\ ExecutorInv'
    BY DEF FollowupTypes, ExecutorInv, RowsAt, Staged
  <2>2. PromotionInv' /\ HistoryInv'
    BY DEF PromotionInv, Ended, IsStaged, HistoryInv, FedOnce
  <2> QED
    BY <2>1, <2>2
<1>7. CASE WriteStaged
  <2> USE <1>7 DEF WriteStaged, dispatcher
  <2>0. running \in Keys /\ turn[running] = "tools_completed" /\ listed = Staged(running)
    BY DEF FollowupTypes, ExecutorInv, RowsAt
  <2>1. FollowupTypes'
    BY <2>0 DEF FollowupTypes, Staged
  <2>2. ExecutorInv'
    BY <2>0 DEF FollowupTypes, ExecutorInv, RowsAt, Staged
  <2>3. PromotionInv'
    BY <2>0 DEF FollowupTypes, PromotionInv, Ended, IsStaged, Staged
  <2>4. HistoryInv'
    BY <2>0 DEF FollowupTypes, HistoryInv, FedOnce, Staged
  <2> QED
    BY <2>1, <2>2, <2>3, <2>4
<1> QED
  BY <1>1, <1>2, <1>3, <1>4, <1>5, <1>6, <1>7 DEF Executor

(* The dispatcher takes up only what is staged for ended turns, which nobody *)
(* else touches, and deletes a row after its turn was accepted.              *)
LEMMA DispatcherStep ==
    ASSUME FollowupInv, Dispatcher
    PROVE  FollowupInv'
<1> USE ObserversAssumption DEF FollowupInv, States, Resumable, Terminal, Steps, Phases
<1>1. CASE Tick \/ NextGroup
  <2>1. /\ UNCHANGED <<durable, intake, scheduled, exec, deleting>>
        /\ groups' \subseteq groups \cup TerminalStaged
        /\ phase' \in Phases \ {"delete", "scan", "idle"} /\ accepted' \in {accepted, {}}
        /\ todo' = {} \/ (phase' = "accept" /\ \E p \in groups : todo' = Staged(p))
    <3>1. CASE Tick
      BY <3>1 DEF Tick, PromotionInv
    <3>2. CASE NextGroup
      <4>1. PICK p \in groups : groups' = groups \ {p} /\ todo' = Staged(p)
        BY <3>2 DEF NextGroup
      <4> QED
        BY <3>2, <4>1 DEF NextGroup
    <3> QED
      BY <1>1, <3>1, <3>2
  <2>2. FollowupTypes' /\ ExecutorInv'
    BY <2>1 DEF FollowupTypes, ExecutorInv, RowsAt, Staged, TerminalStaged, durable, exec
  <2>3. PromotionInv'
    BY <2>1 DEF FollowupTypes, PromotionInv, Ended, IsStaged, Staged, TerminalStaged, durable
  <2>4. HistoryInv'
    BY <2>1 DEF HistoryInv, FedOnce, durable
  <2> QED
    BY <2>2, <2>3, <2>4
<1>2. CASE AcceptChild
  <2> USE <1>2 DEF AcceptChild, exec
  <2>1. FollowupTypes'
    BY DEF FollowupTypes
  <2>2. ExecutorInv'
    BY DEF FollowupTypes, ExecutorInv, RowsAt, Staged
  <2>3. PromotionInv'
    BY DEF FollowupTypes, PromotionInv, Ended, IsStaged
  <2>4. HistoryInv'
    BY DEF HistoryInv, FedOnce
  <2> QED
    BY <2>1, <2>2, <2>3, <2>4
<1>3. CASE DeleteStaged
  <2> USE <1>3 DEF DeleteStaged, exec
  <2>0. /\ deleting \in Keys \ todo /\ Ended(deleting)
        /\ pc = "write" => owner[deleting] # running
    BY DEF FollowupTypes, PromotionInv, ExecutorInv, RowsAt, Ended
  <2>1. FollowupTypes'
    BY <2>0 DEF FollowupTypes
  <2>2. ExecutorInv'
    BY <2>0 DEF FollowupTypes, ExecutorInv, RowsAt, Staged
  <2>3. PromotionInv'
    BY <2>0 DEF FollowupTypes, PromotionInv, Ended, IsStaged
  <2>4. HistoryInv'
    BY <2>0 DEF FollowupTypes, HistoryInv, FedOnce, Ended, IsStaged
  <2> QED
    BY <2>1, <2>2, <2>3, <2>4
<1>4. CASE GroupDone \/ Promoted \/ Scan
  <2>1. /\ UNCHANGED <<durable, intake, exec, groups, todo, deleting>>
        /\ scheduled' \subseteq scheduled \cup accepted \cup {k \in Keys : turn[k] \in Resumable}
        /\ accepted' \in {accepted, {}} /\ todo = {}
        /\ phase' \in {"idle", "promote", "scan"}
    BY <1>4 DEF GroupDone, Promoted, Scan, PromotionInv
  <2>2. FollowupTypes' /\ ExecutorInv'
    BY <2>1 DEF FollowupTypes, ExecutorInv, RowsAt, Staged, durable, exec
  <2>3. PromotionInv' /\ HistoryInv'
    BY <2>1 DEF PromotionInv, Ended, IsStaged, HistoryInv, FedOnce, durable
  <2> QED
    BY <2>2, <2>3
<1> QED
  BY <1>1, <1>2, <1>3, <1>4 DEF Dispatcher

(* A crash ends the interrupted turns and leaves every other row as it is.   *)
LEMMA CrashStep ==
    ASSUME FollowupInv, Crash
    PROVE  FollowupInv'
<1> USE DEF FollowupInv, States, Resumable, Terminal, Steps, Phases, Crash, NoIntake
<1>1. FollowupTypes'
  BY DEF FollowupTypes
<1>2. ExecutorInv'
  BY DEF FollowupTypes, ExecutorInv, RowsAt
<1>3. PromotionInv'
  BY DEF FollowupTypes, PromotionInv
<1>4. HistoryInv'
  BY DEF HistoryInv, FedOnce
<1> QED
  BY <1>1, <1>2, <1>3, <1>4

(* The rows and the dispatcher agree for ever.                               *)
LEMMA FollowupInvariant == Spec => []FollowupInv
<1>1. FollowupInv /\ [Next]_vars => FollowupInv'
  <2> SUFFICES ASSUME FollowupInv, [Next]_vars PROVE FollowupInv'
    OBVIOUS
  <2>1. CASE UNCHANGED vars \/ \E s \in Sinks : Disconnect(s)
    BY <2>1 DEF Disconnect, vars, durable, exec, dispatcher, FollowupInv, FollowupTypes,
       ExecutorInv, PromotionInv, HistoryInv, FedOnce, Ended, IsStaged, Staged
  <2> QED
    BY <2>1, IntakeStep, ExecutorStep, DispatcherStep, CrashStep DEF Next
<1> QED
  BY <1>1, FollowupInit, PTL DEF Spec

-----------------------------------------------------------------------------
(* Each message of the conversation was given to the model exactly once,     *)
(* through staging, commit, promotion, retries and crashes                   *)
(* (commit_staged_user_messages, promote_terminal_staged_messages).          *)
THEOREM ReadOnce == Spec => []FedOnce
<1>1. FollowupInv => FedOnce
  BY DEF FollowupInv, HistoryInv
<1> QED
  BY <1>1, FollowupInvariant, PTL

(* A message the session took always has a row: only a promotion deletes a   *)
(* row, and only of a message that has become a turn                         *)
(* (delete_staged_user_message_after_promotion).                             *)
THEOREM NothingForgotten == Spec => Kept
<1>1. ASSUME FollowupInv, [Next]_vars, NEW m \in Keys, owner[m] # Nobody \/ turn[m] # "none"
      PROVE  owner'[m] # Nobody \/ turn'[m] # "none"
  <2> USE <1>1, ObserversAssumption
      DEF FollowupInv, FollowupTypes, States, Resumable, Terminal
  <2>1. CASE UNCHANGED vars \/ \E s \in Sinks : Disconnect(s)
    BY <2>1 DEF Disconnect, vars, durable
  <2>2. CASE \E u \in Keys : StageFollowup(u)
    BY <2>2 DEF StageFollowup
  <2>3. CASE Intake
    BY <2>3 DEF Intake, LoadOwner, AttachOwner, Recheck, SubmitTurn, RegisterAndSchedule, durable
  <2>4. CASE Executor
    BY <2>4 DEF Executor, Start, Reject, Rejected, CommitInput, BeginModel, Reply, Tools,
       ListStaged, WriteStaged, Completed, Failed, Retain, To, Fail, durable
  <2>5. CASE DeleteStaged
    BY <2>5 DEF DeleteStaged, PromotionInv
  <2>6. CASE Dispatcher /\ ~DeleteStaged
    BY <2>6 DEF Dispatcher, Tick, NextGroup, AcceptChild, GroupDone, Promoted, Scan, durable
  <2>7. CASE Crash
    BY <2>7 DEF Crash
  <2> QED
    BY <2>1, <2>2, <2>3, <2>4, <2>5, <2>6, <2>7 DEF Next
<1>2. FollowupInv /\ [Next]_vars
      => [\A m \in Keys : owner[m] # Nobody \/ turn[m] # "none"
                          => owner'[m] # Nobody \/ turn'[m] # "none"]_vars
  BY <1>1
<1> QED
  BY <1>2, FollowupInvariant, PTL DEF Spec, Kept

-----------------------------------------------------------------------------
(* The registry of observers.                                               *)

(* A registry r keeps its promises to clients that were assigned the turns  *)
(* of a, of which those of E have ended: a client's count is that of its    *)
(* routes, or more once it has left; who listens has a route for every turn *)
(* that has not ended, and who was told the end has none of those.          *)
RegistryTypes(r, a) ==
    /\ r \in [route : [Keys -> Sinks \cup {Nobody}], pending : [Sinks -> Nat],
              life : [Sinks -> {"new", "live", "done", "gone"}]]
    /\ a \in [Sinks -> SUBSET Keys]

SinkOk(r, a, E, s) ==
    /\ \A k \in RoutesTo(r, s) : r.life[s] # "new" /\ k \in a[s]
    /\ Cardinality(RoutesTo(r, s)) <= r.pending[s]
    /\ r.life[s] = "live" => /\ r.pending[s] = Cardinality(RoutesTo(r, s))
                             /\ a[s] \subseteq E \cup RoutesTo(r, s)
    /\ r.life[s] = "done" => a[s] \subseteq E

RegistryOk(r, a, E) == RegistryTypes(r, a) /\ \A s \in Sinks : SinkOk(r, a, E, s)

(* Sets of keys are finite, and a smaller one has fewer members.            *)
LEMMA KeySets ==
    ASSUME NEW A \in SUBSET Keys
    PROVE  /\ Cardinality(A) \in Nat /\ IsFiniteSet(A)
           /\ \A B \in SUBSET A : Cardinality(B) <= Cardinality(A)
           /\ \A k \in A : Cardinality(A \ {k}) = Cardinality(A) - 1 /\ Cardinality(A) >= 1
           /\ \A k \in A : Cardinality(A) = 1 => A = {k}
<1>1. IsFiniteSet(A) /\ Cardinality(A) \in Nat
  BY ObserversAssumption, FS_Subset, FS_CardinalityType
<1>2. \A B \in SUBSET A : Cardinality(B) <= Cardinality(A)
  BY <1>1, FS_Subset
<1>3. ASSUME NEW k \in A PROVE Cardinality(A \ {k}) = Cardinality(A) - 1 /\ Cardinality(A) >= 1
  <2>1. IsFiniteSet(A \ {k}) /\ Cardinality(A \ {k}) = Cardinality(A) - 1
    BY <1>1, FS_RemoveElement
  <2>2. Cardinality(A \ {k}) \in Nat
    BY <2>1, FS_CardinalityType
  <2> QED BY <1>1, <2>1, <2>2
<1>4. ASSUME NEW k \in A, Cardinality(A) = 1 PROVE A = {k}
  <2>1. Cardinality(A \ {k}) = 0 /\ IsFiniteSet(A \ {k})
    BY <1>1, <1>3, <1>4, FS_Subset
  <2>2. A \ {k} = {}
    BY <2>1, FS_EmptySet
  <2> QED BY <2>2
<1> QED BY <1>1, <1>2, <1>3, <1>4

(* Turns that end break no promise.                                         *)
LEMMA EndsOk ==
    ASSUME NEW r, NEW a, NEW E, NEW F, E \subseteq F, RegistryOk(r, a, E)
    PROVE  RegistryOk(r, a, F)
  BY DEF RegistryOk, SinkOk

(* What RoutesTo collects.                                                   *)
LEMMA RoutesAre ==
    ASSUME NEW r, NEW s
    PROVE  RoutesTo(r, s) \in SUBSET Keys /\ \A k \in Keys : k \in RoutesTo(r, s) <=> r.route[k] = s
  BY DEF RoutesTo

(* The routes of a client that does not listen may go.                      *)
LEMMA WithoutOk ==
    ASSUME NEW r, NEW a, NEW E, NEW s \in Sinks, RegistryOk(r, a, E), r.life[s] # "live"
    PROVE  RegistryOk(WithoutRoutes(r, s), a, E)
<1> DEFINE q == WithoutRoutes(r, s)
<1>1. q = [r EXCEPT !.route = [k \in Keys |-> IF r.route[k] = s THEN Nobody ELSE r.route[k]]]
  BY DEF WithoutRoutes
<1>2. RegistryTypes(r, a) /\ RegistryTypes(q, a) /\ q.pending = r.pending /\ q.life = r.life
      /\ q.route = [k \in Keys |-> IF r.route[k] = s THEN Nobody ELSE r.route[k]]
  BY <1>1 DEF RegistryOk, RegistryTypes
<1> HIDE DEF q
<1>3. ASSUME NEW z \in Sinks PROVE SinkOk(q, a, E, z)
  <2>1. SinkOk(r, a, E, z)
    BY DEF RegistryOk
  <2>2. CASE z = s
    <3>1. RoutesTo(q, z) = {}
      BY <1>2, <2>2, ObserversAssumption DEF RoutesTo
    <3>2. Cardinality(RoutesTo(q, z)) = 0 /\ r.pending[z] \in Nat
      BY <1>2, <3>1, FS_EmptySet DEF RegistryTypes
    <3> QED BY <1>2, <2>1, <2>2, <3>1, <3>2 DEF SinkOk
  <2>3. CASE z # s
    <3>1. RoutesTo(q, z) = RoutesTo(r, z)
      BY <1>2, <2>3, ObserversAssumption DEF RoutesTo
    <3> QED BY <1>2, <2>1, <3>1 DEF SinkOk
  <2> QED BY <2>2, <2>3
<1> QED BY <1>2, <1>3 DEF RegistryOk, q

(* Who looks for a live observer clears the routes of one that has left.     *)
LEMMA PrunedOk ==
    ASSUME NEW r, NEW a, NEW E, NEW k \in Keys, RegistryOk(r, a, E)
    PROVE  RegistryOk(Pruned(r, k), a, E)
<1>1. CASE r.route[k] # Nobody /\ ~HasLive(r, k)
  <2>1. r.route[k] \in Sinks /\ r.life[r.route[k]] # "live"
    BY <1>1 DEF RegistryOk, RegistryTypes, HasLive
  <2> QED BY <1>1, <2>1, WithoutOk DEF Pruned
<1>2. CASE ~(r.route[k] # Nobody /\ ~HasLive(r, k))
  BY <1>2 DEF Pruned
<1> QED BY <1>1, <1>2

(* register_if_absent                                                       *)
LEMMA RegisteredOk ==
    ASSUME NEW r, NEW a, NEW E, NEW k \in Keys, NEW s \in Unused(r), RegistryOk(r, a, E), ~HasLive(r, k)
    PROVE  RegistryOk(Registered(r, k, s), [a EXCEPT ![s] = {k}], E)
<1> DEFINE q == Pruned(r, k)
           z == [q EXCEPT !.route[k] = s, !.pending[s] = 1, !.life[s] = "live"]
           b == [a EXCEPT ![s] = {k}]
<1>1. s \in Sinks /\ r.life[s] = "new" /\ Registered(r, k, s) = z
  BY DEF Unused, Registered
<1>2. RegistryOk(q, a, E)
  BY PrunedOk
<1>3. q.life = r.life /\ (q.route[k] = Nobody \/ r.route[k] = Nobody)
  BY DEF Pruned, WithoutRoutes, RegistryOk, RegistryTypes
<1>4. q.route[k] = Nobody
  BY <1>3 DEF Pruned
<1> HIDE DEF q
<1>5. RegistryTypes(q, a)
  BY <1>2 DEF RegistryOk
<1>6. RegistryTypes(z, b) /\ z.route = [q.route EXCEPT ![k] = s]
      /\ z.pending = [q.pending EXCEPT ![s] = 1] /\ z.life = [q.life EXCEPT ![s] = "live"]
  BY <1>1, <1>5 DEF RegistryTypes
<1> HIDE DEF z
<1>7. ASSUME NEW t \in Sinks PROVE SinkOk(z, b, E, t)
  <2>1. SinkOk(q, a, E, t)
    BY <1>2 DEF RegistryOk
  <2>2. CASE t = s
    <3>1. RoutesTo(q, s) = {}
      BY <1>1, <1>3, <2>1, <2>2 DEF SinkOk
    <3>2. RoutesTo(z, s) = {k}
      BY <1>5, <1>6, <3>1 DEF RoutesTo, RegistryTypes
    <3>3. Cardinality({k}) = 1
      BY FS_Singleton
    <3> QED BY <1>1, <1>5, <1>6, <2>2, <3>2, <3>3 DEF SinkOk, RegistryTypes
  <2>3. CASE t # s
    <3>1. RoutesTo(z, t) = RoutesTo(q, t)
      BY <1>1, <1>4, <1>5, <1>6, <2>3, ObserversAssumption DEF RoutesTo, RegistryTypes
    <3>2. z.pending[t] = q.pending[t] /\ z.life[t] = q.life[t] /\ b[t] = a[t]
      BY <1>1, <1>5, <1>6, <2>3 DEF RegistryTypes
    <3> QED BY <2>1, <3>1, <3>2 DEF SinkOk
  <2> QED BY <2>2, <2>3
<1> QED BY <1>1, <1>6, <1>7 DEF RegistryOk

(* A client that leaves.                                                    *)
LEMMA DroppedOk ==
    ASSUME NEW r, NEW a, NEW E, NEW s, s \in Sinks, RegistryOk(r, a, E)
    PROVE  RegistryOk(Dropped(r, s), a, E)
<1> DEFINE z == Dropped(r, s)
<1>1. RegistryTypes(r, a)
  BY DEF RegistryOk
<1>2. RegistryTypes(z, a) /\ z.route = r.route /\ z.pending = r.pending
      /\ z.life = [r.life EXCEPT ![s] = "gone"]
  BY <1>1 DEF RegistryTypes, Dropped
<1> HIDE DEF z
<1>3. ASSUME NEW t \in Sinks PROVE SinkOk(z, a, E, t)
  <2>1. SinkOk(r, a, E, t)
    BY DEF RegistryOk
  <2>2. RoutesTo(z, t) = RoutesTo(r, t) /\ z.pending[t] = r.pending[t]
        /\ z.life[t] \in {r.life[t], "gone"}
    BY <1>1, <1>2 DEF RoutesTo, RegistryTypes
  <2> QED BY <2>1, <2>2 DEF SinkOk
<1> QED BY <1>2, <1>3 DEF RegistryOk, z

(* finish: the turn k has ended.                                            *)
LEMMA FinishedOk ==
    ASSUME NEW r, NEW a, NEW E, NEW k \in Keys, k \in E, RegistryOk(r, a, E)
    PROVE  RegistryOk(Finished(r, k), a, E)
<1> DEFINE s == r.route[k]
           q == [r EXCEPT !.route[k] = Nobody, !.pending[s] = @ - 1]
<1>1. RegistryTypes(r, a)
  BY DEF RegistryOk
<1>2. CASE s = Nobody
  BY <1>2 DEF Finished
<1>3. CASE s # Nobody
  <2>1. s \in Sinks /\ k \in RoutesTo(r, s) /\ RoutesTo(r, s) \in SUBSET Keys
    BY <1>1, <1>3 DEF RegistryTypes, RoutesTo
  <2>2. SinkOk(r, a, E, s)
    BY <2>1 DEF RegistryOk
  <2>3. Cardinality(RoutesTo(r, s)) >= 1 /\ Cardinality(RoutesTo(r, s) \ {k}) = Cardinality(RoutesTo(r, s)) - 1
        /\ Cardinality(RoutesTo(r, s)) \in Nat
        /\ (Cardinality(RoutesTo(r, s)) = 1 => RoutesTo(r, s) = {k})
    BY <2>1, KeySets
  <2>4. r.pending[s] \in Nat /\ r.pending[s] >= 1
    BY <1>1, <2>1, <2>2, <2>3 DEF RegistryTypes, SinkOk
  <2>5. RegistryTypes(q, a) /\ q.life = r.life /\ q.route = [r.route EXCEPT ![k] = Nobody]
        /\ q.pending = [r.pending EXCEPT ![s] = r.pending[s] - 1]
    <3>1. r.pending[s] - 1 \in Nat
      BY <2>4
    <3> QED BY <1>1, <2>1, <3>1 DEF RegistryTypes
  <2>6. RoutesTo(q, s) = RoutesTo(r, s) \ {k}
    BY <1>1, <1>3, <2>1, <2>5 DEF RoutesTo, RegistryTypes
  <2>7. ASSUME NEW t \in Sinks, t # s
        PROVE  RoutesTo(q, t) = RoutesTo(r, t) /\ q.pending[t] = r.pending[t] /\ SinkOk(r, a, E, t)
    <3>1. SinkOk(r, a, E, t)
      BY DEF RegistryOk
    <3>2. RoutesTo(q, t) = RoutesTo(r, t)
      BY <1>1, <2>5, <2>7, ObserversAssumption DEF RoutesTo, RegistryTypes
    <3> QED BY <1>1, <2>1, <2>5, <2>7, <3>1, <3>2 DEF RegistryTypes
  <2> HIDE DEF q
  <2>8. CASE r.pending[s] # 1
    <3>1. Finished(r, k) = q
      BY <1>3, <2>8 DEF Finished, q
    <3>2. q.pending[s] = r.pending[s] - 1
      BY <1>1, <2>1, <2>5 DEF RegistryTypes
    <3>3. SinkOk(q, a, E, s)
      <4>1. \A m \in RoutesTo(q, s) : q.life[s] # "new" /\ m \in a[s]
        BY <2>2, <2>5, <2>6 DEF SinkOk
      <4>2. Cardinality(RoutesTo(q, s)) <= q.pending[s]
        <5>1. Cardinality(RoutesTo(r, s)) <= r.pending[s]
          BY <2>2 DEF SinkOk
        <5> QED BY <2>3, <2>4, <2>6, <3>2, <5>1
      <4>3. q.life[s] = "live" => q.pending[s] = Cardinality(RoutesTo(q, s))
                                  /\ a[s] \subseteq E \cup RoutesTo(q, s)
        BY <2>2, <2>3, <2>5, <2>6, <3>2 DEF SinkOk
      <4> QED BY <2>2, <2>5, <4>1, <4>2, <4>3 DEF SinkOk
    <3>4. \A t \in Sinks : SinkOk(q, a, E, t)
      <4>1. ASSUME NEW t \in Sinks, t # s PROVE SinkOk(q, a, E, t)
        BY <2>5, <2>7, <4>1 DEF SinkOk
      <4> QED BY <3>3, <4>1
    <3> QED BY <2>5, <3>1, <3>4 DEF RegistryOk
  <2>9. CASE r.pending[s] = 1
    <3> DEFINE v == WithoutRoutes(q, s)
               z == [v EXCEPT !.life[s] = IF @ = "live" THEN "done" ELSE @]
    <3>1. Finished(r, k) = z
      BY <1>3, <2>9 DEF Finished, q
    <3>2. v.life = q.life /\ v.pending = q.pending /\ RegistryTypes(v, a)
          /\ v.route = [m \in Keys |-> IF q.route[m] = s THEN Nobody ELSE q.route[m]]
      BY <2>5 DEF WithoutRoutes, RegistryTypes
    <3> HIDE DEF v
    <3>3. RegistryTypes(z, a) /\ z.route = v.route /\ z.pending = q.pending
          /\ z.life = [r.life EXCEPT ![s] = IF r.life[s] = "live" THEN "done" ELSE r.life[s]]
      BY <2>1, <2>5, <3>2 DEF RegistryTypes
    <3> HIDE DEF z
    <3>4. RoutesTo(z, s) = {} /\ Cardinality(RoutesTo(z, s)) = 0
      <4>1. RoutesTo(z, s) = {}
        BY <2>1, <3>2, <3>3, ObserversAssumption DEF RoutesTo
      <4> QED BY <4>1, FS_EmptySet
    <3>5. SinkOk(z, a, E, s)
      <4>1. r.life[s] = "live" => RoutesTo(r, s) = {k}
        BY <2>2, <2>3, <2>9 DEF SinkOk
      <4>2. z.pending[s] \in Nat
        BY <2>1, <3>3 DEF RegistryTypes
      <4>3. z.life[s] = IF r.life[s] = "live" THEN "done" ELSE r.life[s]
        BY <1>1, <2>1, <3>3 DEF RegistryTypes
      <4>4. z.life[s] # "live"
        BY <4>3
      <4>5. z.life[s] = "done" => a[s] \subseteq E
        BY <2>2, <4>1, <4>3 DEF SinkOk
      <4> QED BY <3>4, <4>2, <4>4, <4>5 DEF SinkOk
    <3>6. ASSUME NEW t \in Sinks, t # s PROVE SinkOk(z, a, E, t)
      <4>1. RoutesTo(z, t) = RoutesTo(q, t)
        BY <2>5, <3>2, <3>3, <3>6, ObserversAssumption DEF RoutesTo, RegistryTypes
      <4>2. z.life[t] = r.life[t] /\ z.pending[t] = q.pending[t]
        BY <1>1, <3>3, <3>6 DEF RegistryTypes
      <4> QED BY <2>7, <3>6, <4>1, <4>2 DEF SinkOk
    <3> QED BY <3>1, <3>3, <3>5, <3>6 DEF RegistryOk
  <2> QED BY <2>8, <2>9
<1> QED BY <1>2, <1>3

(* transfer_many: the client of the ended turn p follows its follow-ups.    *)
LEMMA TransferredOk ==
    ASSUME NEW r, NEW a, NEW E, NEW p \in Keys, p \in E, NEW to \in SUBSET Keys, RegistryOk(r, a, E)
    PROVE  RegistryOk(Transferred(r, p, to),
                      [s \in Sinks |-> IF CanTransfer(r, p, to) /\ r.route[p] = s
                                       THEN a[s] \cup to ELSE a[s]], E)
<1> DEFINE b == [s \in Sinks |-> IF CanTransfer(r, p, to) /\ r.route[p] = s
                                 THEN a[s] \cup to ELSE a[s]]
<1>1. RegistryTypes(r, a)
  BY DEF RegistryOk
<1>2. CASE ~CanTransfer(r, p, to)
  <2>1. b = a
    BY <1>1, <1>2 DEF RegistryTypes
  <2>2. Transferred(r, p, to) \in {r, Pruned(r, p)}
    BY <1>2 DEF Transferred, CanTransfer
  <2> QED BY <2>1, <2>2, PrunedOk
<1>3. CASE CanTransfer(r, p, to)
  <2> DEFINE s == r.route[p]
             z == [r EXCEPT !.pending[s] = @ - 1 + Cardinality(to),
                            !.route = [k \in Keys |-> IF k = p THEN Nobody
                                                      ELSE IF k \in to THEN s ELSE r.route[k]]]
  <2>1. Transferred(r, p, to) = z
    BY <1>3 DEF Transferred, CanTransfer
  <2>2. to # {} /\ (\A k \in to : r.route[k] = Nobody) /\ s \in Sinks /\ r.life[s] = "live"
    BY <1>1, <1>3 DEF CanTransfer, MayMove, HasLive, RegistryTypes
  <2>3. p \notin to /\ p \in RoutesTo(r, s) /\ RoutesTo(r, s) \in SUBSET Keys
    BY <2>2, ObserversAssumption DEF RoutesTo
  <2>4. SinkOk(r, a, E, s)
    BY <2>2 DEF RegistryOk
  <2> DEFINE A == RoutesTo(r, s) \ {p}
  <2>5. A \in SUBSET Keys /\ A \cap to = {} /\ p \notin A
    BY <2>2, <2>3, ObserversAssumption DEF RoutesTo
  <2>6. Cardinality(RoutesTo(r, s)) >= 1 /\ Cardinality(A) = Cardinality(RoutesTo(r, s)) - 1
        /\ Cardinality(RoutesTo(r, s)) \in Nat /\ Cardinality(to) \in Nat
    BY <2>3, KeySets
  <2> HIDE DEF A
  <2>7. Cardinality(A \cup to) = Cardinality(A) + Cardinality(to)
    <3>1. IsFiniteSet(A) /\ IsFiniteSet(to)
      BY <2>5, KeySets
    <3>2. Cardinality(A \cap to) = 0
      BY <2>5, FS_EmptySet
    <3>3. Cardinality(A \cup to) = Cardinality(A) + Cardinality(to) - Cardinality(A \cap to)
      BY <3>1, FS_Union
    <3>4. Cardinality(A) \in Nat
      BY <3>1, FS_CardinalityType
    <3> QED BY <2>6, <3>2, <3>3, <3>4
  <2>8. r.pending[s] = Cardinality(RoutesTo(r, s)) /\ a[s] \subseteq E \cup RoutesTo(r, s)
    BY <2>2, <2>4 DEF SinkOk
  <2>9. r.pending[s] - 1 + Cardinality(to) = Cardinality(A \cup to)
        /\ r.pending[s] - 1 + Cardinality(to) \in Nat
    BY <2>6, <2>7, <2>8
  <2>10. RegistryTypes(z, b) /\ z.life = r.life
         /\ z.pending = [r.pending EXCEPT ![s] = Cardinality(A \cup to)]
         /\ z.route = [k \in Keys |-> IF k = p THEN Nobody ELSE IF k \in to THEN s ELSE r.route[k]]
    BY <1>1, <2>2, <2>9 DEF RegistryTypes
  <2>11. b[s] = a[s] \cup to /\ \A t \in Sinks : t # s => b[t] = a[t]
    BY <1>3, <2>2
  <2>12. RoutesTo(z, s) = A \cup to
    BY <2>2, <2>3, <2>10, ObserversAssumption DEF RoutesTo, A
  <2>13. RoutesTo(z, s) \in SUBSET Keys
    BY <2>12, <2>5
  <2>14. z.pending[s] = Cardinality(A \cup to)
    BY <1>1, <2>2, <2>10 DEF RegistryTypes
  <2>15. A \subseteq RoutesTo(r, s) /\ RoutesTo(r, s) \subseteq A \cup {p}
    BY DEF A
  <2> HIDE DEF z, b
  <2>16. SinkOk(z, b, E, s)
    <3>1. \A k \in RoutesTo(z, s) : z.life[s] # "new" /\ k \in b[s]
      BY <2>2, <2>4, <2>10, <2>11, <2>12, <2>15 DEF SinkOk
    <3>2. Cardinality(RoutesTo(z, s)) <= z.pending[s] /\ z.pending[s] = Cardinality(RoutesTo(z, s))
      <4>1. z.pending[s] \in Nat
        BY <2>2, <2>10 DEF RegistryTypes
      <4> QED BY <2>12, <2>14, <4>1
    <3>3. b[s] \subseteq E \cup RoutesTo(z, s)
      BY <2>8, <2>11, <2>12, <2>15
    <3>4. z.life[s] = "live"
      BY <2>2, <2>10
    <3> QED BY <3>1, <3>2, <3>3, <3>4 DEF SinkOk
  <2>17. ASSUME NEW t \in Sinks, t # s PROVE SinkOk(z, b, E, t)
    <3>1. RoutesTo(z, t) = RoutesTo(r, t)
      BY <2>2, <2>10, <2>17, ObserversAssumption DEF RoutesTo
    <3>2. z.life[t] = r.life[t] /\ z.pending[t] = r.pending[t] /\ b[t] = a[t]
      BY <1>1, <2>2, <2>10, <2>11, <2>17 DEF RegistryTypes
    <3>3. SinkOk(r, a, E, t)
      BY DEF RegistryOk
    <3> QED BY <3>1, <3>2, <3>3 DEF SinkOk
  <2> QED BY <2>1, <2>10, <2>16, <2>17 DEF RegistryOk, b
<1> QED BY <1>2, <1>3

(* The process ends: who listened is gone.                                  *)
LEMMA LostOk ==
    ASSUME NEW r, NEW a, NEW E, RegistryOk(r, a, E)
    PROVE  RegistryOk(Lost(r), a, E)
<1> DEFINE z == Lost(r)
<1>1. RegistryTypes(r, a)
  BY DEF RegistryOk
<1>2. RegistryTypes(z, a) /\ z.route = [k \in Keys |-> Nobody] /\ z.pending = [s \in Sinks |-> 0]
      /\ z.life = [s \in Sinks |-> IF r.life[s] = "live" THEN "gone" ELSE r.life[s]]
  BY <1>1 DEF RegistryTypes, Lost
<1> HIDE DEF z
<1>3. ASSUME NEW t \in Sinks PROVE SinkOk(z, a, E, t)
  <2>1. RoutesTo(z, t) = {}
    BY <1>2, ObserversAssumption DEF RoutesTo
  <2>2. Cardinality(RoutesTo(z, t)) = 0
    BY <2>1, FS_EmptySet
  <2>3. z.pending[t] = 0 /\ z.life[t] # "live" /\ (z.life[t] = "done" => r.life[t] = "done")
    BY <1>1, <1>2 DEF RegistryTypes
  <2>4. SinkOk(r, a, E, t)
    BY DEF RegistryOk
  <2> QED BY <2>1, <2>2, <2>3, <2>4 DEF SinkOk
<1> QED BY <1>2, <1>3 DEF RegistryOk, z

-----------------------------------------------------------------------------
(* The clients and the turns they wait for.                                 *)

(* Ended, and what the registry promises with respect to it.                 *)
EndedTurns == {k \in Keys : turn[k] \in Terminal}
ClientsOk == RegistryOk(observers, assigned, EndedTurns)

(* What ended stays ended.                                                  *)
LEMMA EndedStays ==
    ASSUME FollowupInv, [Next]_vars
    PROVE  EndedTurns \subseteq EndedTurns'
<1> SUFFICES ASSUME NEW k \in Keys, turn[k] \in Terminal PROVE turn'[k] = turn[k]
  BY DEF EndedTurns
<1> USE DEF FollowupInv, FollowupTypes, States, Resumable, Terminal
<1>1. CASE UNCHANGED vars \/ \E s \in Sinks : Disconnect(s)
  BY <1>1 DEF Disconnect, vars, durable
<1>2. CASE \E u \in Keys : StageFollowup(u)
  BY <1>2 DEF StageFollowup
<1>3. CASE Intake
  BY <1>3 DEF Intake, LoadOwner, AttachOwner, Recheck, SubmitTurn, RegisterAndSchedule, durable
<1>4. CASE Executor
  BY <1>4 DEF Executor, ExecutorInv, RowsAt, Start, Reject, Rejected, CommitInput, BeginModel, Reply,
     Tools, ListStaged, WriteStaged, Completed, Failed, Retain, To, Fail, durable
<1>5. CASE Dispatcher
  BY <1>5 DEF Dispatcher, Tick, NextGroup, AcceptChild, DeleteStaged, GroupDone, Promoted, Scan, durable
<1>6. CASE Crash
  BY <1>6 DEF Crash
<1> QED BY <1>1, <1>2, <1>3, <1>4, <1>5, <1>6 DEF Next

(* A client is registered for a turn that nobody listens to.                *)
LEMMA ListenOk ==
    ASSUME ClientsOk, NEW k \in Keys, NEW s \in Sinks, Listen(k, s)
    PROVE  RegistryOk(observers', assigned', EndedTurns)
  BY RegisteredOk DEF Listen, ClientsOk

(* Every step keeps the promises of the registry.                            *)
LEMMA ClientsStep ==
    ASSUME FollowupInv, ClientsOk, [Next]_vars,
           intake.step = "listen" => intake.key \in Keys
    PROVE  ClientsOk'
<1>1. SUFFICES RegistryOk(observers', assigned', EndedTurns)
  BY EndsOk, EndedStays DEF ClientsOk
<1>2. CASE UNCHANGED clients
  BY <1>2 DEF clients, ClientsOk
<1>3. ASSUME NEW s \in Sinks, Disconnect(s) PROVE RegistryOk(observers', assigned', EndedTurns)
  BY <1>3, DroppedOk DEF Disconnect, ClientsOk
<1>4. CASE Intake
  <2>1. CASE AttachOwner \/ RegisterAndSchedule
    <3>1. intake.key \in Keys
      BY <2>1 DEF AttachOwner, RegisterAndSchedule, FollowupInv, ExecutorInv
    <3> QED BY <1>2, <2>1, <3>1, ListenOk DEF AttachOwner, RegisterAndSchedule, NotListening, clients
  <2>2. CASE Recheck
    <3>1. intake.sink \in Sinks \/ Dropped(observers, intake.sink) = observers
      <4>1. intake.sink \in Sinks \cup {Nobody}
        BY DEF FollowupInv, FollowupTypes
      <4>2. intake.sink = Nobody => Dropped(observers, intake.sink) = observers
        BY ObserversAssumption DEF Dropped, ClientsOk, RegistryOk, RegistryTypes
      <4> QED BY <4>1, <4>2
    <3>2. RegistryOk(Dropped(observers, intake.sink), assigned, EndedTurns)
      BY <3>1, DroppedOk DEF ClientsOk
    <3> QED BY <2>2, <3>2 DEF Recheck, ClientsOk
  <2>3. CASE LoadOwner \/ SubmitTurn
    BY <1>2, <2>3 DEF LoadOwner, SubmitTurn
  <2> QED BY <1>4, <2>1, <2>2, <2>3 DEF Intake
<1>5. CASE Executor
  <2>1. CASE Rejected \/ Completed \/ Failed \/ Retain \/ Reply
    <3>1. running \in Keys /\ assigned' = assigned
      BY <2>1 DEF Rejected, Completed, Failed, Retain, Reply, FollowupInv, FollowupTypes, ExecutorInv
    <3>2. observers' # observers /\ ~Reply => running \in EndedTurns
      BY <2>1, <3>1 DEF Rejected, Completed, Failed, Retain, FollowupInv, ExecutorInv, RowsAt, EndedTurns
    <3>3. \/ observers' \in {observers, Pruned(observers, running)}
          \/ observers' \in {Finished(observers, running), Finished(Pruned(observers, running), running)}
             /\ ~Reply
      BY <2>1 DEF Rejected, Completed, Failed, Retain, Reply
    <3>4. RegistryOk(Pruned(observers, running), assigned, EndedTurns)
      BY <3>1, PrunedOk DEF ClientsOk
    <3>5. running \in EndedTurns =>
            /\ RegistryOk(Finished(observers, running), assigned, EndedTurns)
            /\ RegistryOk(Finished(Pruned(observers, running), running), assigned, EndedTurns)
      BY <3>1, <3>4, FinishedOk DEF ClientsOk
    <3> QED BY <3>1, <3>2, <3>3, <3>4, <3>5 DEF ClientsOk
  <2>2. CASE CommitInput \/ BeginModel \/ Tools \/ ListStaged \/ WriteStaged
    BY <1>2, <2>2 DEF CommitInput, BeginModel, Tools, ListStaged, WriteStaged
  <2>3. ASSUME NEW k \in Keys, Start(k) \/ Reject(k) PROVE RegistryOk(observers', assigned', EndedTurns)
    BY <1>2, <2>3 DEF Start, Reject
  <2> QED BY <1>5, <2>1, <2>2, <2>3 DEF Executor
<1>6. CASE Dispatcher
  <2>1. CASE NextGroup
    <3>1. PICK p \in groups :
          LET moves == CanTransfer(observers, p, Staged(p))
              after == Transferred(observers, p, Staged(p))
              deaf == {m \in Staged(p) : ~HasLive(after, m)} IN
          /\ \/ deaf = {} /\ observers' = after
             \/ \E m \in deaf : observers' = Pruned(after, m)
          /\ assigned' = [s \in Sinks |-> IF moves /\ observers.route[p] = s
                                          THEN assigned[s] \cup Staged(p) ELSE assigned[s]]
      BY <2>1 DEF NextGroup
    <3>2. p \in Keys /\ p \in EndedTurns /\ Staged(p) \in SUBSET Keys
      BY DEF FollowupInv, FollowupTypes, PromotionInv, EndedTurns, Staged
    <3>3. RegistryOk(Transferred(observers, p, Staged(p)), assigned', EndedTurns)
      BY <3>1, <3>2, TransferredOk DEF ClientsOk
    <3> QED BY <3>1, <3>2, <3>3, PrunedOk
  <2>2. CASE AcceptChild
    <3>1. PICK m \in todo : observers' \in {observers, Pruned(observers, m)}
      BY <2>2 DEF AcceptChild
    <3>2. m \in Keys /\ assigned' = assigned
      BY <2>2 DEF AcceptChild, FollowupInv, FollowupTypes
    <3> QED BY <3>1, <3>2, PrunedOk DEF ClientsOk
  <2>3. CASE Tick \/ DeleteStaged \/ GroupDone \/ Promoted \/ Scan
    BY <1>2, <2>3 DEF Tick, DeleteStaged, GroupDone, Promoted, Scan
  <2> QED BY <1>6, <2>1, <2>2, <2>3 DEF Dispatcher
<1>7. CASE Crash
  BY <1>7, LostOk DEF Crash, ClientsOk
<1>8. ASSUME NEW m \in Keys, StageFollowup(m) PROVE RegistryOk(observers', assigned', EndedTurns)
  BY <1>2, <1>8 DEF StageFollowup
<1>9. CASE UNCHANGED vars
  BY <1>2, <1>9 DEF vars
<1> QED BY <1>3, <1>4, <1>5, <1>6, <1>7, <1>8, <1>9 DEF Next

-----------------------------------------------------------------------------
(* No row of a scheduled turn.                                              *)

(* A follow-up is half promoted from the acceptance of its turn to the      *)
(* deletion of its row.  The turn it was staged for has ended by then.  An  *)
(* ordinary tick never leaves such a follow-up behind, and after one        *)
(* failure the promotion that is under way, or the next one, takes it up    *)
(* before the scan that would schedule its turn.                            *)
Half(m) == IsStaged(m) /\ turn[m] # "none"
Deleted(m) == phase = "delete" /\ deleting = m
Awaited(m) ==
    \/ Deleted(m) \/ phase = "idle" \/ m \in todo
    \/ owner[m] \in groups /\ phase \in {"promote", "accept", "delete"}

CleanRows ==
    /\ \A m \in Keys : Half(m) => turn[owner[m]] \in Terminal
    /\ \A m \in accepted : IsStaged(m) => Deleted(m)
    /\ troubles = 0 => \A m \in Keys : Half(m) => Deleted(m)
    /\ troubles <= 1 => \A m \in Keys : Half(m) => Awaited(m)
    /\ CleanBeforeScheduled

(* The message that intake makes a turn of has no row yet.                  *)
CleanIntake ==
    /\ intake.step \in {"submit", "register"} => ~IsStaged(intake.key)
    /\ intake.step # "idle" => intake.key \in Keys

CleanInv == CleanRows /\ CleanIntake

(* The types the other parts do not speak of.                               *)
RestTypes ==
    /\ phases \in [Keys -> 0..MaxPhases] /\ listed \subseteq Keys /\ retried \in BOOLEAN
    /\ parent \in Keys \cup {Nobody} /\ followed \in BOOLEAN /\ booting \in BOOLEAN
    /\ troubles \in 0..MaxTroubles /\ blind \in 0..MaxBlind

(* A step outside the dispatcher that half promotes nothing.                *)
LEMMA CleanKept ==
    ASSUME FollowupInv, FollowupInv', CleanRows, EndedTurns \subseteq EndedTurns',
           UNCHANGED <<dispatcher, troubles>>,
           \A m \in Keys : Half(m)' => Half(m) /\ owner'[m] = owner[m],
           \A m \in scheduled' : m \in scheduled \/ ~IsStaged(m)'
    PROVE  CleanRows'
<1>1. phase' = phase /\ deleting' = deleting /\ todo' = todo /\ groups' = groups
      /\ accepted' = accepted /\ troubles' = troubles
  BY DEF dispatcher
<1>2. \A m \in Keys : Half(m)' => turn'[owner'[m]] \in Terminal
  <2> SUFFICES ASSUME NEW m \in Keys, Half(m)' PROVE turn'[owner'[m]] \in Terminal
    OBVIOUS
  <2>1. Half(m) /\ owner'[m] = owner[m] /\ turn[owner[m]] \in Terminal
    BY DEF CleanRows
  <2>2. owner[m] \in EndedTurns
    BY <2>1 DEF EndedTurns, Half, IsStaged, FollowupInv, FollowupTypes
  <2> QED BY <2>1, <2>2 DEF EndedTurns
<1>3. \A m \in scheduled' \cup accepted' : IsStaged(m)' => Half(m)' /\ m \in Keys
  BY DEF FollowupInv, FollowupTypes, ExecutorInv, Half
<1>4. \A m \in Keys : (Deleted(m) => Deleted(m)') /\ (Half(m)' /\ Awaited(m) => Awaited(m)')
  BY <1>1 DEF Deleted, Awaited
<1>5. \A m \in Keys : Half(m) => IsStaged(m)
  BY DEF Half
<1> HIDE DEF Half, Deleted, Awaited, IsStaged
<1>6. \A m \in accepted' : IsStaged(m)' => Deleted(m)'
  BY <1>1, <1>3, <1>4, <1>5 DEF CleanRows
<1>7. troubles' = 0 => \A m \in Keys : Half(m)' => Deleted(m)'
  BY <1>1, <1>4 DEF CleanRows
<1>8. troubles' <= 1 => \A m \in Keys : Half(m)' => Awaited(m)'
  BY <1>1, <1>4 DEF CleanRows
<1>9. CleanBeforeScheduled'
  BY <1>1, <1>3, <1>5 DEF CleanRows, CleanBeforeScheduled, AlwaysClean
<1> QED BY <1>2, <1>6, <1>7, <1>8, <1>9 DEF CleanRows

(* Intake and the executor.                                                 *)
LEMMA CleanOutside ==
    ASSUME FollowupInv, FollowupInv', CleanInv, [Next]_vars, ~Dispatcher, ~Crash
    PROVE  CleanInv'
<1> USE DEF FollowupInv, FollowupTypes, States, Resumable, Terminal
<1>1. EndedTurns \subseteq EndedTurns'
  BY EndedStays
<1>2. ASSUME NEW u \in Keys, StageFollowup(u) PROVE CleanInv'
  <2>1. UNCHANGED <<dispatcher, troubles, turn, history, scheduled>>
    BY <1>2 DEF StageFollowup, durable, bounds
  <2>2. \/ UNCHANGED owner
        \/ owner[u] = Nobody /\ turn[u] = "none" /\ \E k \in Keys : owner' = [owner EXCEPT ![u] = k]
    BY <1>2 DEF StageFollowup
  <2>3. \A m \in Keys : Half(m)' => Half(m) /\ owner'[m] = owner[m]
    BY <2>1, <2>2 DEF Half, IsStaged
  <2>4. CleanRows'
    BY <1>1, <2>1, <2>3, CleanKept DEF CleanInv
  <2>5. /\ intake'.step \in {"submit", "register"} => owner[intake'.key] = Nobody /\ UNCHANGED owner
        /\ intake'.step # "idle" => intake'.key \in Keys
    BY <1>2, ObserversAssumption DEF StageFollowup
  <2>6. CleanIntake'
    BY <2>5 DEF CleanIntake, IsStaged
  <2> QED BY <2>4, <2>6 DEF CleanInv
<1>3. CASE Intake
  <2>1. UNCHANGED <<dispatcher, troubles, owner, history>>
    BY <1>3 DEF Intake, LoadOwner, AttachOwner, Recheck, SubmitTurn, RegisterAndSchedule, durable, bounds
  <2>2. \/ UNCHANGED turn
        \/ ~IsStaged(intake.key) /\ \E s \in States : turn' = [turn EXCEPT ![intake.key] = s]
    BY <1>3 DEF Intake, LoadOwner, AttachOwner, Recheck, SubmitTurn, RegisterAndSchedule, durable,
       CleanInv, CleanIntake
  <2>3. \A m \in Keys : Half(m)' => Half(m) /\ owner'[m] = owner[m]
    BY <2>1, <2>2 DEF Half, IsStaged
  <2>4. \A m \in scheduled' : m \in scheduled \/ ~IsStaged(m)'
    BY <1>3, <2>1 DEF Intake, LoadOwner, AttachOwner, Recheck, SubmitTurn, RegisterAndSchedule, IsStaged,
       CleanInv, CleanIntake
  <2>5. CleanRows'
    BY <1>1, <2>1, <2>3, <2>4, CleanKept DEF CleanInv
  <2>6. /\ intake'.step # "idle" => intake.step # "idle" /\ intake'.key = intake.key
        /\ intake'.step \in {"submit", "register"} => intake.step \in {"submit", "register"}
    BY <1>3 DEF Intake, LoadOwner, AttachOwner, Recheck, SubmitTurn, RegisterAndSchedule, NoIntake
  <2>7. CleanIntake'
    BY <2>1, <2>6 DEF CleanInv, CleanIntake, IsStaged
  <2> QED BY <2>5, <2>7 DEF CleanInv
<1>4. CASE Executor \/ UNCHANGED vars \/ \E s \in Sinks : Disconnect(s)
  <2>1. UNCHANGED <<dispatcher, troubles, intake>>
    BY <1>4 DEF Executor, Start, Reject, Rejected, CommitInput, BeginModel, Reply,
       Tools, ListStaged, WriteStaged, Completed, Failed, Retain, Disconnect, vars, bounds
  <2>2. /\ \A m \in Keys : IsStaged(m)' => IsStaged(m) /\ owner'[m] = owner[m]
        /\ \A m \in Keys : IsStaged(m)' /\ turn'[m] # "none" => turn[m] # "none"
        /\ scheduled' \subseteq scheduled
    <3>1. CASE CommitInput
      BY <3>1 DEF CommitInput, Fail, To, IsStaged, ExecutorInv, RowsAt
    <3>2. CASE Executor /\ ~CommitInput
      BY <3>2 DEF Executor, Start, Reject, Rejected, BeginModel, Reply,
         Tools, ListStaged, WriteStaged, Completed, Failed, Retain, Fail, To, Drain, IsStaged, durable,
         ExecutorInv, RowsAt
    <3>3. CASE UNCHANGED vars \/ \E s \in Sinks : Disconnect(s)
      BY <3>3 DEF Disconnect, vars, durable, IsStaged
    <3> QED BY <1>4, <3>1, <3>2, <3>3
  <2>3. \A m \in Keys : Half(m)' => Half(m) /\ owner'[m] = owner[m]
    BY <2>2 DEF Half
  <2>4. CleanRows'
    BY <1>1, <2>1, <2>2, <2>3, CleanKept DEF CleanInv
  <2>5. CleanIntake'
    BY <2>1, <2>2 DEF CleanInv, CleanIntake
  <2> QED BY <2>4, <2>5 DEF CleanInv
<1> QED BY <1>2, <1>3, <1>4 DEF Next

(* Each step of the dispatcher.  A tick collects the ended turns with staged *)
(* rows, a group all that is staged for its turn.                            *)
LEMMA CleanTick ==
    ASSUME FollowupInv, CleanRows, Tick \/ NextGroup \/ Promoted
    PROVE  CleanRows'
<1> USE DEF FollowupInv, FollowupTypes
<1>1. UNCHANGED <<turn, owner, history, scheduled, troubles, deleting>>
      /\ accepted' \subseteq accepted /\ phase # "delete" /\ phase' # "delete"
  BY DEF Tick, NextGroup, Promoted, durable, bounds
<1>2. \A m \in Keys : (IsStaged(m)' <=> IsStaged(m)) /\ (Half(m)' <=> Half(m)) /\ ~Deleted(m) /\ ~Deleted(m)'
  BY <1>1 DEF IsStaged, Half, Deleted
<1>3. ASSUME NEW m \in Keys, Half(m), Awaited(m), turn[owner[m]] \in Terminal PROVE Awaited(m)'
  <2>1. owner[m] \in Keys /\ m \in Staged(owner[m])
    BY <1>3 DEF Half, IsStaged, Staged
  <2>2. CASE Tick
    BY <2>1, <2>2, <1>1, <1>3 DEF Tick, Awaited, TerminalStaged
  <2>3. CASE NextGroup
    <3>1. PICK p \in groups : groups' = groups \ {p} /\ todo' = Staged(p)
      BY <2>3 DEF NextGroup
    <3>2. phase = "promote" /\ phase' = "accept" /\ todo = {}
      BY <2>3 DEF NextGroup, PromotionInv
    <3> QED BY <2>1, <3>1, <3>2, <1>1, <1>3 DEF Awaited, Deleted
  <2>4. CASE Promoted
    BY <2>4, <1>3 DEF Promoted, Awaited, Deleted, PromotionInv
  <2> QED BY <2>2, <2>3, <2>4
<1> HIDE DEF Half, Deleted, Awaited, IsStaged
<1>4. (\A m \in Keys : Half(m) => turn[owner[m]] \in Terminal)'
  BY <1>1, <1>2 DEF CleanRows
<1>5. (\A m \in accepted : IsStaged(m) => Deleted(m))'
  BY <1>1, <1>2 DEF CleanRows
<1>6. (troubles = 0 => \A m \in Keys : Half(m) => Deleted(m))'
  BY <1>1, <1>2 DEF CleanRows
<1>7. (troubles <= 1 => \A m \in Keys : Half(m) => Awaited(m))'
  BY <1>1, <1>2, <1>3 DEF CleanRows
<1>8. CleanBeforeScheduled'
  BY <1>1, <1>2 DEF CleanRows, CleanBeforeScheduled, AlwaysClean
<1> QED BY <1>4, <1>5, <1>6, <1>7, <1>8 DEF CleanRows

(* A child is accepted: its row is the next to be deleted.                   *)
LEMMA CleanAccept ==
    ASSUME FollowupInv, FollowupInv', CleanRows, RestTypes, AcceptChild
    PROVE  CleanRows'
<1> USE DEF FollowupInv, FollowupTypes
<1>1. PICK c \in todo :
        /\ todo' = todo \ {c}
        /\ \/ /\ turn[c] = "none" /\ turn' = [turn EXCEPT ![c] = "accepted"]
              /\ accepted' = accepted \cup {c} /\ phase' = "delete" /\ deleting' = c
              /\ UNCHANGED troubles
           \/ /\ turn[c] # "none" /\ phase' = "delete" /\ deleting' = c
              /\ UNCHANGED <<turn, accepted, troubles>>
           \/ Trouble /\ UNCHANGED <<turn, accepted, phase, deleting>>
  BY DEF AcceptChild
<1>2. phase = "accept" /\ UNCHANGED <<owner, history, scheduled, groups>> /\ c \in Keys
      /\ IsStaged(c) /\ owner[c] \in Keys /\ turn[owner[c]] \in Terminal
  BY DEF AcceptChild, PromotionInv, Ended, IsStaged
<1>3. \A m \in Keys : (IsStaged(m)' <=> IsStaged(m)) /\ ~Deleted(m)
      /\ (m # c => (Half(m)' <=> Half(m)))
  BY <1>1, <1>2 DEF IsStaged, Half, Deleted
<1>4. (\A m \in Keys : Half(m) => turn[owner[m]] \in Terminal)'
  <2> SUFFICES ASSUME NEW m \in Keys, Half(m)' PROVE turn'[owner[m]] \in Terminal
    BY <1>2
  <2>1. owner[m] \in Keys /\ turn[owner[m]] \in Terminal
    <3>1. CASE m = c
      BY <1>2, <3>1
    <3>2. CASE m # c
      BY <1>2, <1>3, <3>2 DEF CleanRows, Half, IsStaged
    <3> QED BY <3>1, <3>2
  <2> QED BY <1>1, <2>1 DEF Terminal
<1>5. CASE phase' = "delete" /\ deleting' = c /\ UNCHANGED troubles /\ accepted' \subseteq accepted \cup {c}
  <2>1. Deleted(c)' /\ \A m \in Keys : m # c /\ Awaited(m) => Awaited(m)'
    BY <1>1, <1>2, <1>3, <1>5 DEF Deleted, Awaited
  <2>2. Awaited(c)'
    BY <2>1 DEF Awaited
  <2> HIDE DEF Half, Deleted, Awaited, IsStaged
  <2>4. (\A m \in accepted : IsStaged(m) => Deleted(m))'
    BY <1>3, <1>5, <2>1 DEF CleanRows
  <2>5. (troubles = 0 => \A m \in Keys : Half(m) => Deleted(m))'
    BY <1>3, <1>5, <2>1 DEF CleanRows
  <2>6. (troubles <= 1 => \A m \in Keys : Half(m) => Awaited(m))'
    BY <1>3, <1>5, <2>1, <2>2 DEF CleanRows
  <2>7. CleanBeforeScheduled'
    BY <1>2, <1>3, <1>5 DEF CleanRows, CleanBeforeScheduled, AlwaysClean
  <2> QED BY <1>4, <2>4, <2>5, <2>6, <2>7 DEF CleanRows
<1>6. CASE Trouble /\ UNCHANGED <<turn, accepted, phase, deleting>>
  <2>1. troubles' = troubles + 1 /\ troubles \in Nat
    BY <1>6, FollowupsAssumption DEF Trouble, RestTypes
  <2>2. \A m \in Keys : (Half(m)' <=> Half(m)) /\ ~Deleted(m)'
    BY <1>2, <1>3, <1>6 DEF Half, IsStaged, Deleted
  <2>3. troubles' # 0 /\ (troubles' <= 1 => troubles = 0 /\ troubles <= 1)
    BY <2>1
  <2> HIDE DEF Half, Deleted, Awaited, IsStaged
  <2>4. (\A m \in accepted : IsStaged(m) => Deleted(m))'
    BY <1>3, <1>6 DEF CleanRows
  <2>5. (troubles <= 1 => \A m \in Keys : Half(m) => Awaited(m))'
    BY <1>3, <2>2, <2>3 DEF CleanRows
  <2>6. CleanBeforeScheduled'
    BY <1>2, <1>3, <2>3 DEF CleanRows, CleanBeforeScheduled, AlwaysClean
  <2> QED BY <1>4, <2>3, <2>4, <2>5, <2>6 DEF CleanRows
<1> QED BY <1>1, <1>5, <1>6

(* The row goes, or the failure leaves the follow-up to the next tick.       *)
LEMMA CleanDelete ==
    ASSUME FollowupInv, CleanRows, RestTypes, DeleteStaged
    PROVE  CleanRows'
<1> USE DEF FollowupInv, FollowupTypes
<1>1. phase = "delete" /\ UNCHANGED <<turn, history, scheduled>> /\ deleting \in Keys /\ IsStaged(deleting)
      /\ owner' \in [Keys -> Keys \cup {Nobody}]
  BY DEF DeleteStaged, PromotionInv, Ended
<1>2. CASE owner' = [owner EXCEPT ![deleting] = Nobody] /\ phase' = "accept"
           /\ UNCHANGED <<groups, todo, accepted, troubles>>
  <2>1. \A m \in Keys : /\ IsStaged(m)' => IsStaged(m) /\ m # deleting /\ owner'[m] = owner[m]
                        /\ Half(m)' => Half(m) /\ m # deleting /\ owner'[m] = owner[m]
    BY <1>1, <1>2 DEF IsStaged, Half
  <2>2. \A m \in Keys : (m # deleting => ~Deleted(m))
                        /\ (m # deleting /\ owner'[m] = owner[m] /\ Awaited(m) => Awaited(m)')
    BY <1>1, <1>2 DEF Deleted, Awaited
  <2> HIDE DEF Half, Deleted, Awaited, IsStaged
  <2>3. (\A m \in Keys : Half(m) => turn[owner[m]] \in Terminal)'
    BY <1>1, <2>1 DEF CleanRows
  <2>4. (\A m \in accepted : IsStaged(m) => Deleted(m))'
    BY <1>2, <2>1, <2>2 DEF CleanRows
  <2>5. (troubles = 0 => \A m \in Keys : Half(m) => Deleted(m))'
    BY <1>2, <2>1, <2>2 DEF CleanRows
  <2>6. (troubles <= 1 => \A m \in Keys : Half(m) => Awaited(m))'
    BY <1>2, <2>1, <2>2 DEF CleanRows
  <2>7. CleanBeforeScheduled'
    BY <1>1, <1>2, <2>1 DEF CleanRows, CleanBeforeScheduled, AlwaysClean
  <2> QED BY <2>3, <2>4, <2>5, <2>6, <2>7 DEF CleanRows
<1>3. CASE Trouble /\ phase' = "idle" /\ accepted' = {} /\ UNCHANGED owner
  <2>1. troubles' = troubles + 1 /\ troubles \in Nat
    BY <1>3, FollowupsAssumption DEF Trouble, RestTypes
  <2>2. troubles' # 0 /\ (troubles' <= 1 => troubles <= 1)
    BY <2>1
  <2>3. \A m \in Keys : (IsStaged(m)' <=> IsStaged(m)) /\ (Half(m)' <=> Half(m)) /\ Awaited(m)'
    BY <1>1, <1>3 DEF IsStaged, Half, Awaited
  <2> HIDE DEF Half, Deleted, Awaited, IsStaged
  <2>4. (\A m \in Keys : Half(m) => turn[owner[m]] \in Terminal)'
    BY <1>1, <1>3, <2>3 DEF CleanRows
  <2>5. (troubles <= 1 => \A m \in Keys : Half(m) => Awaited(m))'
    BY <2>3
  <2>6. CleanBeforeScheduled'
    BY <1>1, <2>2, <2>3 DEF CleanRows, CleanBeforeScheduled, AlwaysClean
  <2> QED BY <1>3, <2>2, <2>4, <2>5, <2>6 DEF CleanRows
<1> QED BY <1>1, <1>2, <1>3 DEF DeleteStaged

(* What is handed to the scheduler: accepted turns whose rows are gone, and  *)
(* by the scan every resumable turn, none of which is half promoted.         *)
LEMMA CleanSchedule ==
    ASSUME FollowupInv, CleanRows, RestTypes, GroupDone \/ Scan
    PROVE  CleanRows'
<1> USE DEF FollowupInv, FollowupTypes
<1>1. UNCHANGED <<turn, owner, history, troubles, deleting, groups, todo>> /\ accepted' \subseteq accepted
      /\ phase # "delete" /\ phase' \in {"idle", "promote"} /\ (phase' = "promote" => phase = "accept")
      /\ todo = {}
  BY DEF GroupDone, Scan, durable, bounds, PromotionInv
<1>2. \A m \in Keys : (IsStaged(m)' <=> IsStaged(m)) /\ (Half(m)' <=> Half(m)) /\ ~Deleted(m) /\ ~Deleted(m)'
      /\ (Awaited(m) => Awaited(m)')
  BY <1>1 DEF IsStaged, Half, Deleted, Awaited
<1>3. ASSUME troubles <= 1, NEW m \in scheduled' PROVE ~IsStaged(m)
  <2>1. CASE GroupDone
    BY <1>2, <1>3, <2>1 DEF GroupDone, CleanRows, CleanBeforeScheduled, AlwaysClean
  <2>2. CASE Scan
    <3>1. phase = "scan" /\ (m \in scheduled \/ (m \in Keys /\ turn[m] \in Resumable))
      BY <1>3, <2>2 DEF Scan
    <3>2. m \in Keys => ~Awaited(m)
      BY <1>1, <3>1 DEF Awaited, Deleted
    <3> QED BY <1>3, <3>1, <3>2 DEF CleanRows, CleanBeforeScheduled, AlwaysClean, Half, Resumable
  <2> QED BY <2>1, <2>2
<1> HIDE DEF Half, Deleted, Awaited, IsStaged
<1>4. (\A m \in Keys : Half(m) => turn[owner[m]] \in Terminal)'
  BY <1>1, <1>2 DEF CleanRows
<1>5. (\A m \in accepted : IsStaged(m) => Deleted(m))'
  BY <1>1, <1>2 DEF CleanRows
<1>6. (troubles = 0 => \A m \in Keys : Half(m) => Deleted(m))'
  BY <1>1, <1>2 DEF CleanRows
<1>7. (troubles <= 1 => \A m \in Keys : Half(m) => Awaited(m))'
  BY <1>1, <1>2 DEF CleanRows
<1>8. CleanBeforeScheduled'
  <2>1. \A m \in scheduled' : m \in Keys
    BY DEF GroupDone, Scan
  <2> QED BY <1>1, <1>2, <1>3, <2>1 DEF CleanBeforeScheduled, AlwaysClean
<1> QED BY <1>4, <1>5, <1>6, <1>7, <1>8 DEF CleanRows

(* Startup promotion takes up every follow-up of an ended turn.             *)
LEMMA CleanCrash ==
    ASSUME FollowupInv, CleanRows, RestTypes, Crash
    PROVE  CleanRows'
<1> USE DEF FollowupInv, FollowupTypes
<1>1. UNCHANGED <<owner, history>> /\ scheduled' = {} /\ accepted' = {} /\ phase' = "promote"
      /\ groups' = {k \in Keys : Staged(k) # {} /\ turn'[k] \in Terminal}
      /\ turn' = [k \in Keys |-> IF turn[k] \in {"model", "tools_pending"} THEN "failed" ELSE turn[k]]
      /\ troubles' = troubles + 1
  BY DEF Crash, Trouble
<1>2. troubles' # 0
  BY <1>1, FollowupsAssumption DEF RestTypes
<1>3. ASSUME NEW m \in Keys, Half(m)' PROVE turn'[owner'[m]] \in Terminal /\ Awaited(m)'
  <2>1. Half(m) /\ owner[m] \in Keys /\ m \in Staged(owner[m])
    BY <1>1, <1>3 DEF Half, IsStaged, Staged
  <2>2. turn'[owner[m]] \in Terminal
    BY <1>1, <2>1 DEF CleanRows, Terminal
  <2> QED BY <1>1, <2>1, <2>2 DEF Awaited
<1> QED BY <1>1, <1>2, <1>3 DEF CleanRows, CleanBeforeScheduled, AlwaysClean

(* Every step keeps the rows clean.                                          *)
LEMMA CleanStep ==
    ASSUME FollowupInv, FollowupInv', RestTypes, CleanInv, [Next]_vars
    PROVE  CleanInv'
<1>1. CASE Dispatcher
  <2>1. CleanRows'
    BY <1>1, CleanTick, CleanAccept, CleanDelete, CleanSchedule DEF Dispatcher, CleanInv
  <2>2. UNCHANGED intake /\ \A m \in Keys : IsStaged(m)' => IsStaged(m)
    BY <1>1, ObserversAssumption DEF Dispatcher, Tick, NextGroup, AcceptChild, DeleteStaged, GroupDone, Promoted, Scan,
       IsStaged, durable, FollowupInv, FollowupTypes
  <2> QED BY <2>1, <2>2 DEF CleanInv, CleanIntake
<1>2. CASE Crash
  BY <1>2, CleanCrash DEF CleanInv, CleanIntake, Crash, NoIntake
<1> QED BY <1>1, <1>2, CleanOutside

(* The remaining types.                                                      *)
LEMMA RestStep ==
    ASSUME FollowupInv, RestTypes, [Next]_vars
    PROVE  RestTypes'
<1> USE FollowupsAssumption DEF RestTypes, FollowupInv, FollowupTypes
<1>1. CASE UNCHANGED vars \/ \E s \in Sinks : Disconnect(s)
  BY <1>1 DEF Disconnect, vars, durable, exec, dispatcher, bounds
<1>2. CASE Intake \/ \E u \in Keys : StageFollowup(u)
  <2>1. UNCHANGED <<phases, exec, dispatcher, bounds>>
    BY <1>2 DEF Intake, StageFollowup, LoadOwner, AttachOwner, Recheck, SubmitTurn, RegisterAndSchedule, durable
  <2> QED BY <2>1 DEF exec, dispatcher, bounds
<1>3. CASE Executor
  <2>1. UNCHANGED <<dispatcher, troubles>> /\ listed' \in {listed, {}, Staged(running)} /\ retried' \in BOOLEAN
    BY <1>3 DEF Executor, Start, Reject, Rejected, CommitInput, BeginModel, Reply, Tools, ListStaged,
       WriteStaged, Completed, Failed, Retain, Drain, bounds
  <2>2. phases' \in [Keys -> 0..MaxPhases]
    <3>1. CASE Reply
      BY <3>1 DEF Reply
    <3>2. CASE ~Reply
      BY <1>3, <3>2 DEF Executor, Start, Reject, Rejected, CommitInput, BeginModel, Tools, ListStaged,
         WriteStaged, Completed, Failed, Retain, durable
    <3> QED BY <3>1, <3>2
  <2>3. blind' \in 0..MaxBlind
    <3>1. CASE Retain
      BY <3>1 DEF Retain
    <3>2. CASE ~Retain
      BY <1>3, <3>2 DEF Executor, Start, Reject, Rejected, CommitInput, BeginModel, Reply, Tools, ListStaged,
         WriteStaged, Completed, Failed, bounds
    <3> QED BY <3>1, <3>2
  <2> QED BY <2>1, <2>2, <2>3 DEF dispatcher, Staged
<1>4. CASE Dispatcher
  <2>1. UNCHANGED <<phases, exec, blind>> /\ troubles' \in 0..MaxTroubles
    BY <1>4 DEF Dispatcher, Tick, NextGroup, AcceptChild, DeleteStaged, GroupDone, Promoted, Scan, durable,
       bounds, Trouble
  <2>2. parent' \in Keys \cup {Nobody} /\ followed' \in BOOLEAN /\ booting' \in BOOLEAN
    <3>1. CASE NextGroup
      <4>1. PICK p \in groups : parent' = p
        BY <3>1 DEF NextGroup
      <4>2. followed' \in BOOLEAN /\ UNCHANGED booting
        BY <3>1 DEF NextGroup
      <4> QED BY <4>1, <4>2
    <3>2. CASE ~NextGroup
      BY <1>4, <3>2 DEF Dispatcher, Tick, AcceptChild, DeleteStaged, GroupDone, Promoted, Scan
    <3> QED BY <3>1, <3>2
  <2> QED BY <2>1, <2>2 DEF exec
<1>5. CASE Crash
  <2>1. MaxTroubles \in Nat /\ troubles \in Nat /\ troubles < MaxTroubles /\ troubles' = troubles + 1
    BY <1>5 DEF Crash, Trouble
  <2>2. troubles' \in 0..MaxTroubles
    BY <2>1
  <2> QED BY <1>5, <2>2 DEF Crash
<1> QED BY <1>1, <1>2, <1>3, <1>4, <1>5 DEF Next

(* At first there is no row, no client and no trouble.                       *)
LEMMA CleanInit == Init => CleanInv /\ RestTypes /\ ClientsOk
<1> SUFFICES ASSUME Init PROVE CleanInv /\ RestTypes /\ ClientsOk
  OBVIOUS
<1>1. CleanInv
  BY DEF Init, CleanInv, CleanRows, CleanIntake, CleanBeforeScheduled, AlwaysClean, Half, IsStaged, NoIntake
<1>2. RestTypes
  <2>1. MaxPhases \in Nat /\ MaxTroubles \in Nat /\ MaxBlind \in Nat
    BY FollowupsAssumption
  <2>2. 0 \in 0..MaxPhases /\ 0 \in 0..MaxTroubles /\ 0 \in 0..MaxBlind
    BY <2>1
  <2>3. phases \in [Keys -> 0..MaxPhases]
    BY <2>2 DEF Init
  <2> QED BY <2>2, <2>3 DEF Init, RestTypes
<1>3. RegistryTypes(observers, assigned)
  BY DEF Init, NoObservers, RegistryTypes
<1>4. ASSUME NEW s \in Sinks PROVE SinkOk(observers, assigned, EndedTurns, s)
  <2>1. RoutesTo(observers, s) = {} /\ observers.life[s] = "new" /\ observers.pending[s] = 0
    BY ObserversAssumption DEF Init, NoObservers, RoutesTo
  <2>2. Cardinality(RoutesTo(observers, s)) = 0
    BY <2>1, FS_EmptySet
  <2> QED BY <2>1, <2>2 DEF SinkOk
<1> QED BY <1>1, <1>2, <1>3, <1>4 DEF ClientsOk, RegistryOk

-----------------------------------------------------------------------------
(* A turn is not scheduled before the rows of its message are cleaned up,   *)
(* unless two failures met; the count of a client is that of the turns      *)
(* routed to it, so that finish never counts below zero; and who was told   *)
(* the end waits for no turn, promoted ones included (retain_observer,      *)
(* transfer_many, promote_terminal_staged_messages).                        *)
THEOREM RoutesStayClean == Spec => []RoutesClean
<1> DEFINE Inv == FollowupInv /\ CleanInv /\ RestTypes /\ ClientsOk
<1>1. Init => Inv
  BY FollowupInit, CleanInit
<1>2. Inv /\ FollowupInv' /\ [Next]_vars => Inv'
  BY CleanStep, RestStep, ClientsStep DEF CleanInv, CleanIntake
<1>3. Inv => RoutesClean
  <2> SUFFICES ASSUME Inv PROVE RoutesClean
    OBVIOUS
  <2>1. TypeOK
    BY DEF TypeOK, FollowupInv, FollowupTypes, RestTypes, ClientsOk, RegistryOk, RegistryTypes
  <2>2. CountIsRoutes
    BY DEF CountIsRoutes, ClientsOk, RegistryOk, SinkOk
  <2>3. DoneAfterAll
    BY DEF DoneAfterAll, ClientsOk, RegistryOk, SinkOk, EndedTurns
  <2> QED BY <2>1, <2>2, <2>3 DEF RoutesClean, CleanInv, CleanRows
<1> HIDE DEF Inv
<1> QED BY <1>1, <1>2, <1>3, FollowupInvariant, PTL DEF Spec
=============================================================================
