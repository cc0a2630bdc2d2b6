---------------------------- MODULE SharedProofs ----------------------------
(* Theorems about what the turns of a process share: the limits of their    *)
(* chain (TurnTracker), for any number of turns, origins and crashes and    *)
(* any value of the limits; the conversation they write (SessionLog), for   *)
(* any number of turns, notifications, commands and restarts; and the       *)
(* stream of a run that browsers follow (WebRuns), for any number of tabs,  *)
(* events and troubles and any length of the kept history.                  *)
EXTENDS SessionLog, TurnTracker, WebRuns, FiniteSetTheorems, SequenceTheorems, NaturalsInduction,
        WellFoundedInduction, TLAPS

(* What the row of a turn tells of it: only a turn that called the model    *)
(* has a row past the queue, and a turn that waits on its own reservation   *)
(* has no such row.                                                         *)
RowInv ==
    /\ \A t \in Turns : step[t] = "reserved" => row[t] = "none"
    /\ \A t \in recovered : step[t] \notin {"idle", "reserved"}
    /\ \A t \in Turns : step[t] \in Waiting /\ t \notin recovered
                        => row[t] \notin {"executing", "tools"}
    /\ \A t \in Turns : row[t] \in {"executing", "tools"} => t \in called
    /\ \A t \in called : row[t] \in Counted

(* The turns past the gate are counted and within the limit. *)
CountInv ==
    \A o \in Origins :
        /\ Cardinality(Spent(o)) <= executed[o]
        /\ Cardinality(Spent(o)) <= MaxTurns

(* As long as nothing of an origin has been executed or stopped, its        *)
(* reservations are exactly those of the turns that wait: a recovered turn, *)
(* which made none, cannot have taken one of them yet.                      *)
HoldInv ==
    \A o \in Origins :
        executed[o] = 0 /\ stopped[o] = "none" => reserved[o] = Cardinality(Holders(o))

Begun(o) == \E t \in Turns : OriginOf[t] = o /\ row[t] \in Counted

(* A chain that was found stopped still has a reason and a row that a       *)
(* restart counts, and is stopped in memory unless that reason is the one   *)
(* that is not parsed.  While every failure could be written, a failed      *)
(* chain has such a row.                                                    *)
StopInv ==
    /\ \A t \in Turns : step[t] = "persistStop" => stopped[OriginOf[t]] # "none"
    /\ \A o \in halted :
          /\ origin[o] # "none" /\ Begun(o)
          /\ stopped[o] # "none" \/ before[o] = "durable_payload_invalid"
    /\ faults = 0 =>
          /\ \A t \in Turns : step[t] = "failing" => row[t] = "ended"
          /\ \A o \in Origins :
                origin[o] = "llm_failure" \/ stopped[o] = "llm_failure" => Begun(o)

-----------------------------------------------------------------------------
(* Every set of turns is finite, and a smaller one has fewer members. *)
LEMMA TurnSets ==
    ASSUME NEW A \in SUBSET Turns, NEW B \in SUBSET A
    PROVE  /\ Cardinality(A) \in Nat /\ Cardinality(B) \in Nat
           /\ Cardinality(B) <= Cardinality(A)
<1>1. IsFiniteSet(A) /\ IsFiniteSet(B)
  BY FS_Subset, TrackerAssumption
<1> QED
  BY <1>1, FS_Subset, FS_CardinalityType

(* One turn more or less in a set of turns. *)
LEMMA TurnSetStep ==
    ASSUME NEW A \in SUBSET Turns, NEW t \in Turns
    PROVE  /\ Cardinality(A) \in Nat
           /\ Cardinality(A \cup {t}) \in Nat /\ Cardinality(A \ {t}) \in Nat
           /\ Cardinality(A \cup {t}) <= Cardinality(A) + 1
           /\ t \notin A => Cardinality(A \cup {t}) = Cardinality(A) + 1
           /\ t \in A => Cardinality(A \ {t}) = Cardinality(A) - 1
<1>1. IsFiniteSet(A)
  BY FS_Subset, TrackerAssumption
<1> QED
  BY <1>1, FS_CardinalityType, FS_AddElement, FS_RemoveElement

(* Every step keeps every variable in its type. *)
LEMMA TrackerTypeStep ==
    ASSUME TypeOK, [Next]_vars
    PROVE  TypeOK'
<1> USE TrackerAssumption
    DEF TypeOK, durable, memory, dispatcher, ghosts, Steps, Waiting, Rows, Reasons, StopReasons
<1>1. ASSUME NEW t \in Turns, Reserve(t) \/ CommitAccept(t)
      PROVE  TypeOK'
  BY <1>1 DEF Reserve, CommitAccept, Goto, Release, Unreserve
<1>2. ASSUME NEW t \in Turns, Recover(t) \/ TerminalizeInvalid(t)
      PROVE  TypeOK'
  BY <1>2 DEF Recover, TerminalizeInvalid, Goto
<1>3. ASSUME NEW t \in Turns, Prepare(t)
      PROVE  TypeOK'
  BY <1>3 DEF Prepare, Goto, Done, Release, Unreserve
<1>4. ASSUME NEW t \in Turns, BeginExecution(t)
      PROVE  TypeOK'
  BY <1>4 DEF BeginExecution, StopCondition, Goto, Unreserve
<1>5. ASSUME NEW t \in Turns, ResumeExecution(t) \/ PersistStop(t) \/ RejectRow(t)
      PROVE  TypeOK'
  BY <1>5 DEF ResumeExecution, PersistStop, RejectRow, Goto, Done
<1>6. ASSUME NEW t \in Turns, CallModel(t) \/ CompleteTools(t) \/ CompleteTurn(t)
      PROVE  TypeOK'
  BY <1>6 DEF CallModel, CompleteTools, CompleteTurn, Goto, Done
<1>7. ASSUME NEW t \in Turns, FailTurn(t) \/ SetTerminalReason(t) \/ PersistFailure(t)
      PROVE  TypeOK'
  BY <1>7 DEF FailTurn, SetTerminalReason, PersistFailure, Goto, Done
<1>8. CASE Scan
  BY <1>8 DEF Scan
<1>9. CASE Crash
  <2>1. \A o \in Origins : RecoveredCount(row', o) \in Nat
    BY TurnSets DEF RecoveredCount
  <2> QED
    BY <1>9, <2>1 DEF Crash, Rehydrated
<1>10. CASE UNCHANGED vars
  BY <1>10 DEF vars
<1> QED
  BY <1>1, <1>2, <1>3, <1>4, <1>5, <1>6, <1>7, <1>8, <1>9, <1>10 DEF Next

(* Every variable always has its type. *)
THEOREM TrackerTypeCorrect == Spec => []TypeOK
<1>1. Init => TypeOK
  BY TrackerAssumption DEF Init, TypeOK, Rows, Reasons, StopReasons, Steps, Waiting
<1> QED
  BY <1>1, TrackerTypeStep, PTL DEF Spec

-----------------------------------------------------------------------------
(* Every step keeps what a row tells of its turn. *)
LEMMA RowStep ==
    ASSUME TypeOK, RowInv, [Next]_vars
    PROVE  RowInv'
<1> USE DEF TypeOK, RowInv, durable, memory, dispatcher, ghosts, Waiting, Counted
<1>1. ASSUME NEW t \in Turns, Reserve(t) \/ CommitAccept(t)
      PROVE  RowInv'
  BY <1>1 DEF Reserve, CommitAccept, Goto
<1>2. ASSUME NEW t \in Turns, Recover(t) \/ TerminalizeInvalid(t)
      PROVE  RowInv'
  BY <1>2 DEF Recover, TerminalizeInvalid, Goto
<1>3. ASSUME NEW t \in Turns, Prepare(t)
      PROVE  RowInv'
  BY <1>3 DEF Prepare, Goto, Done
<1>4. ASSUME NEW t \in Turns, BeginExecution(t) \/ ResumeExecution(t)
      PROVE  RowInv'
  BY <1>4 DEF BeginExecution, ResumeExecution, Goto
<1>5. ASSUME NEW t \in Turns, PersistStop(t) \/ RejectRow(t)
      PROVE  RowInv'
  BY <1>5 DEF PersistStop, RejectRow, Goto, Done
<1>6. ASSUME NEW t \in Turns, CallModel(t) \/ CompleteTools(t) \/ CompleteTurn(t)
      PROVE  RowInv'
  BY <1>6 DEF CallModel, CompleteTools, CompleteTurn, Goto, Done
<1>7. ASSUME NEW t \in Turns, FailTurn(t) \/ SetTerminalReason(t) \/ PersistFailure(t)
      PROVE  RowInv'
  BY <1>7 DEF FailTurn, SetTerminalReason, PersistFailure, Goto, Done
<1>8. CASE Scan \/ Crash \/ UNCHANGED vars
  BY <1>8 DEF Scan, Crash, vars
<1> QED
  BY <1>1, <1>2, <1>3, <1>4, <1>5, <1>6, <1>7, <1>8 DEF Next

(* A step that lets no turn past the gate and forgets no count keeps the    *)
(* turns past the gate counted.                                             *)
LEMMA CountKept ==
    ASSUME TypeOK, CountInv,
           \A o \in Origins : executed'[o] = executed[o] /\ Spent(o)' \subseteq Spent(o)
    PROVE  CountInv'
<1> SUFFICES ASSUME NEW o \in Origins
             PROVE  /\ Cardinality(Spent(o)') <= executed'[o]
                    /\ Cardinality(Spent(o)') <= MaxTurns
  BY DEF CountInv
<1>1. Spent(o) \in SUBSET Turns /\ Spent(o)' \in SUBSET Spent(o)
  BY DEF Spent
<1>2. /\ Cardinality(Spent(o)) \in Nat /\ Cardinality(Spent(o)') \in Nat
      /\ Cardinality(Spent(o)') <= Cardinality(Spent(o))
  BY <1>1, TurnSets
<1> QED
  BY <1>2, TrackerAssumption DEF CountInv, TypeOK

(* Every step keeps the turns past the gate counted and within the limit:   *)
(* only try_begin_execution lets a turn past, and a crash forgets only      *)
(* turns that have not called the model.                                    *)
LEMMA CountStep ==
    ASSUME TypeOK, RowInv, CountInv, [Next]_vars
    PROVE  CountInv'
<1> USE DEF TypeOK, durable, memory, dispatcher, ghosts
<1>1. ASSUME NEW t \in Turns, BeginExecution(t)
      PROVE  CountInv'
  <2> SUFFICES ASSUME NEW o \in Origins
               PROVE  /\ Cardinality(Spent(o)') <= executed'[o]
                      /\ Cardinality(Spent(o)') <= MaxTurns
    BY DEF CountInv
  <2>1. Spent(o) \in SUBSET Turns /\ Cardinality(Spent(o)) \in Nat
    BY TurnSets DEF Spent
  <2>2. Cardinality(Spent(o)) <= executed[o] /\ Cardinality(Spent(o)) <= MaxTurns
    BY DEF CountInv
  <2>3. CASE o = OriginOf[t] /\ step'[t] = "running"
    <3>1. executed'[o] = executed[o] + 1 /\ executed[o] + 1 <= MaxTurns
      BY <1>1, <2>3, TrackerAssumption DEF BeginExecution, StopCondition, Goto
    <3>2. Spent(o)' \in SUBSET (Spent(o) \cup {t})
      BY <1>1, <2>3 DEF BeginExecution, Spent, Goto
    <3>3. /\ Cardinality(Spent(o)') \in Nat
          /\ Cardinality(Spent(o)') <= Cardinality(Spent(o) \cup {t})
      <4>1. Spent(o) \cup {t} \in SUBSET Turns
        BY <2>1
      <4> QED
        BY <4>1, <3>2, TurnSets
    <3>4. /\ Cardinality(Spent(o) \cup {t}) \in Nat
          /\ Cardinality(Spent(o) \cup {t}) <= Cardinality(Spent(o)) + 1
      BY <2>1, TurnSetStep
    <3> QED
      BY <2>1, <2>2, <3>1, <3>3, <3>4, TrackerAssumption
  <2>4. CASE ~(o = OriginOf[t] /\ step'[t] = "running")
    <3>1. Spent(o)' \in SUBSET Spent(o)
      BY <1>1, <2>4 DEF BeginExecution, Spent, Goto
    <3>2. executed'[o] = executed[o]
      BY <1>1, <2>4, TrackerAssumption DEF BeginExecution, Goto
    <3>3. Cardinality(Spent(o)') \in Nat /\ Cardinality(Spent(o)') <= Cardinality(Spent(o))
      BY <2>1, <3>1, TurnSets
    <3> QED
      BY <2>1, <2>2, <3>2, <3>3, TrackerAssumption
  <2> QED
    BY <2>3, <2>4
<1>2. CASE Crash
  <2> SUFFICES ASSUME NEW o \in Origins
               PROVE  /\ Cardinality(Spent(o)') <= executed'[o]
                      /\ Cardinality(Spent(o)') <= MaxTurns
    BY DEF CountInv
  <2> DEFINE Rest == {t \in Turns : OriginOf[t] = o /\ row'[t] \in Counted}
  <2>1. Spent(o) \in SUBSET Turns /\ Spent(o)' \in SUBSET Spent(o)
    BY <1>2 DEF Crash, Spent
  <2>2. Rest \in SUBSET Turns /\ Spent(o)' \in SUBSET Rest
    BY <1>2 DEF Crash, Spent, RowInv, Counted
  <2>3. executed'[o] = Cardinality(Rest)
    BY <1>2 DEF Crash, RecoveredCount
  <2>4. /\ Cardinality(Spent(o)) \in Nat /\ Cardinality(Spent(o)') \in Nat
        /\ Cardinality(Spent(o)') <= Cardinality(Spent(o))
    BY <2>1, TurnSets
  <2>5. Cardinality(Spent(o)') <= Cardinality(Rest)
    BY <2>2, TurnSets
  <2>6. Cardinality(Spent(o)) <= MaxTurns
    BY DEF CountInv
  <2> QED
    BY <2>3, <2>4, <2>5, <2>6, TrackerAssumption
<1>3. ASSUME NEW t \in Turns,
             \/ Reserve(t) \/ CommitAccept(t) \/ Recover(t) \/ TerminalizeInvalid(t)
             \/ Prepare(t) \/ PersistStop(t) \/ RejectRow(t)
      PROVE  \A o \in Origins : executed'[o] = executed[o] /\ Spent(o)' \subseteq Spent(o)
  BY <1>3 DEF Reserve, CommitAccept, Recover, TerminalizeInvalid, Prepare, PersistStop,
              RejectRow, Spent, Goto, Done
<1>4. ASSUME NEW t \in Turns, ResumeExecution(t)
      PROVE  \A o \in Origins : executed'[o] = executed[o] /\ Spent(o)' \subseteq Spent(o)
  <2>1. t \in called
    BY <1>4 DEF ResumeExecution, RowInv
  <2> QED
    BY <1>4, <2>1 DEF ResumeExecution, Spent, Goto
<1>5. ASSUME NEW t \in Turns,
             \/ CallModel(t) \/ CompleteTools(t) \/ CompleteTurn(t)
             \/ FailTurn(t) \/ SetTerminalReason(t) \/ PersistFailure(t)
      PROVE  \A o \in Origins : executed'[o] = executed[o] /\ Spent(o)' \subseteq Spent(o)
  BY <1>5 DEF CallModel, CompleteTools, CompleteTurn, FailTurn, SetTerminalReason,
              PersistFailure, Spent, Goto, Done
<1>6. CASE Scan \/ UNCHANGED vars
  BY <1>6, CountKept DEF Scan, vars, Spent
<1> QED
  BY <1>1, <1>2, <1>3, <1>4, <1>5, <1>6, CountKept DEF Next

(* MAX_AGENT_TURNS_PER_INPUT bounds the turns of one human input that call  *)
(* the model, for any number of racing turns and of crashes.                *)
THEOREM LimitHolds == Spec => []ChainLimit
<1>1. Init => TypeOK /\ RowInv /\ CountInv
  <2>1. ASSUME Init PROVE TypeOK /\ RowInv
    BY <2>1, TrackerAssumption DEF Init, TypeOK, RowInv, Rows, Reasons, StopReasons, Steps, Waiting
  <2>2. ASSUME Init PROVE CountInv
    <3>1. \A o \in Origins : Spent(o) = {}
      BY <2>2 DEF Init, Spent
    <3> QED
      BY <2>2, <3>1, FS_EmptySet, TrackerAssumption DEF Init, CountInv
  <2> QED
    BY <2>1, <2>2
<1>2. TypeOK /\ CountInv => ChainLimit
  <2> SUFFICES ASSUME TypeOK, CountInv, NEW o \in Origins
               PROVE  Cardinality(CalledOf(o)) <= MaxTurns
    BY DEF ChainLimit
  <2>1. Spent(o) \in SUBSET Turns /\ CalledOf(o) \in SUBSET Spent(o)
    BY DEF TypeOK, Spent, CalledOf
  <2>2. /\ Cardinality(Spent(o)) \in Nat /\ Cardinality(CalledOf(o)) \in Nat
        /\ Cardinality(CalledOf(o)) <= Cardinality(Spent(o))
    BY <2>1, TurnSets
  <2> QED
    BY <2>2, TrackerAssumption DEF CountInv
<1> QED
  BY <1>1, <1>2, TrackerTypeStep, RowStep, CountStep, PTL DEF Spec

-----------------------------------------------------------------------------
(* A step that touches no reservation and no turn that holds one. *)
LEMMA HoldKept ==
    ASSUME TypeOK, TypeOK', HoldInv, ReservedIsTracked, ReservationsReturned,
           reserved' = reserved, tracked \subseteq tracked',
           \A t \in Turns : (step[t] \in Waiting /\ t \notin recovered)'
                          <=> step[t] \in Waiting /\ t \notin recovered,
           \A o \in Origins : executed'[o] = 0 /\ stopped'[o] = "none"
                          => executed[o] = 0 /\ stopped[o] = "none"
    PROVE  (HoldInv /\ ReservedIsTracked /\ ReservationsReturned)'
<1>1. \A o \in Origins : Holders(o)' = Holders(o)
  BY DEF Holders
<1>2. HoldInv'
  BY <1>1 DEF HoldInv
<1>3. ReservationsReturned'
  BY <1>1 DEF ReservationsReturned
<1>4. ReservedIsTracked'
  BY DEF ReservedIsTracked
<1> QED
  BY <1>2, <1>3, <1>4

(* A step that takes a reservation back from the turn t, which no longer    *)
(* waits; the origin may be forgotten if it then holds nothing.             *)
LEMMA HoldReturned ==
    ASSUME TypeOK, TypeOK', HoldInv, ReservedIsTracked, ReservationsReturned,
           NEW t \in Turns, step[t] \in Waiting, step'[t] \notin Waiting,
           reserved' = [reserved EXCEPT ![OriginOf[t]] = Unreserve(OriginOf[t])],
           \A u \in Turns \ {t} : step'[u] = step[u] /\ (u \in recovered' <=> u \in recovered),
           \A o \in Origins : executed'[o] = 0 /\ stopped'[o] = "none"
                          => /\ executed[o] = 0 /\ stopped[o] = "none"
                             /\ o = OriginOf[t] => t \notin recovered,
           tracked \subseteq tracked'
             \/ /\ tracked' = tracked \ {OriginOf[t]}
                /\ reserved'[OriginOf[t]] = 0
                /\ executed'[OriginOf[t]] = 0 /\ stopped'[OriginOf[t]] = "none"
    PROVE  (HoldInv /\ ReservedIsTracked /\ ReservationsReturned)'
<1> DEFINE o == OriginOf[t]
<1>0. o \in Origins
  BY TrackerAssumption
<1>1. \A p \in Origins \ {o} : Holders(p)' = Holders(p) /\ reserved'[p] = reserved[p]
  BY DEF Holders, TypeOK
<1>2. /\ Holders(o) \in SUBSET Turns /\ Holders(o)' = Holders(o) \ {t}
      /\ t \in Holders(o) <=> t \notin recovered
  BY DEF Holders
<1>3. /\ Cardinality(Holders(o)) \in Nat /\ Cardinality(Holders(o)') \in Nat
      /\ t \in Holders(o) => Cardinality(Holders(o)') = Cardinality(Holders(o)) - 1
  BY <1>2, TurnSetStep
<1>4. t \notin Holders(o) => Holders(o)' = Holders(o)
  BY <1>2
<1>5. reserved'[o] = Unreserve(o) /\ reserved[o] \in Nat
  BY <1>0 DEF TypeOK
<1>6. reserved'[o] <= Cardinality(Holders(o)')
  BY <1>0, <1>3, <1>4, <1>5 DEF ReservationsReturned, Unreserve
<1>7. executed'[o] = 0 /\ stopped'[o] = "none" => reserved'[o] = Cardinality(Holders(o)')
  BY <1>0, <1>2, <1>3, <1>5 DEF HoldInv, Unreserve
<1>8. ReservationsReturned'
  BY <1>1, <1>6 DEF ReservationsReturned
<1>9. HoldInv'
  BY <1>1, <1>7 DEF HoldInv
<1>10. ReservedIsTracked'
  <2> SUFFICES ASSUME NEW u \in Turns, step'[u] \in Waiting, u \notin recovered'
               PROVE  OriginOf[u] \in tracked'
    BY DEF ReservedIsTracked
  <2>1. u # t /\ step[u] \in Waiting /\ u \notin recovered /\ OriginOf[u] \in tracked
    BY DEF ReservedIsTracked
  <2>2. CASE tracked' = tracked \ {o} /\ reserved'[o] = 0 /\ executed'[o] = 0 /\ stopped'[o] = "none"
    <3>1. Cardinality(Holders(o)') = 0
      BY <1>7, <2>2
    <3>2. IsFiniteSet(Holders(o)')
      BY <1>2, FS_Subset, TrackerAssumption
    <3>3. Holders(o)' = {}
      BY <3>1, <3>2, FS_EmptySet
    <3>4. OriginOf[u] # o
      BY <3>3, <2>1 DEF Holders
    <3> QED
      BY <2>1, <2>2, <3>4
  <2> QED
    BY <2>1, <2>2
<1> QED
  BY <1>8, <1>9, <1>10

(* Every step keeps the books of the reservations. *)
LEMMA HoldStep ==
    ASSUME TypeOK, TypeOK', RowInv, HoldInv, ReservedIsTracked, ReservationsReturned, [Next]_vars
    PROVE  (HoldInv /\ ReservedIsTracked /\ ReservationsReturned)'
<1> DEFINE Goal == (HoldInv /\ ReservedIsTracked /\ ReservationsReturned)'
<1> USE DEF durable, memory, dispatcher, ghosts
<1>1. ASSUME NEW t \in Turns, Reserve(t)
      PROVE  Goal
  <2> DEFINE o == OriginOf[t]
  <2>0. o \in Origins /\ t \notin recovered
    BY <1>1, TrackerAssumption DEF Reserve, RowInv
  <2>1. \A p \in Origins \ {o} : Holders(p)' = Holders(p) /\ reserved'[p] = reserved[p]
    BY <1>1 DEF Reserve, Goto, Holders, TypeOK
  <2>2. /\ Holders(o) \in SUBSET Turns /\ t \notin Holders(o)
        /\ Holders(o)' = Holders(o) \cup {t}
    BY <1>1, <2>0 DEF Reserve, Goto, Holders, TypeOK, Waiting
  <2>3. /\ Cardinality(Holders(o)) \in Nat
        /\ Cardinality(Holders(o)') = Cardinality(Holders(o)) + 1
    BY <2>2, TurnSetStep
  <2>4. reserved'[o] = reserved[o] + 1 /\ reserved[o] \in Nat
    BY <1>1, <2>0 DEF Reserve, TypeOK
  <2>5. UNCHANGED <<executed, stopped>>
    BY <1>1 DEF Reserve
  <2>6. HoldInv'
    BY <2>0, <2>1, <2>3, <2>4, <2>5 DEF HoldInv
  <2>7. ReservationsReturned'
    BY <2>0, <2>1, <2>3, <2>4 DEF ReservationsReturned
  <2>8. ReservedIsTracked'
    BY <1>1 DEF Reserve, Goto, ReservedIsTracked, TypeOK
  <2> QED
    BY <2>6, <2>7, <2>8
<1>2. ASSUME NEW t \in Turns, CommitAccept(t)
      PROVE  Goal
  <2>1. step[t] = "reserved" /\ t \notin recovered
    BY <1>2 DEF CommitAccept, RowInv
  <2>2. CASE step'[t] = "queued"
    BY <1>2, <2>1, <2>2, HoldKept DEF CommitAccept, Goto, Waiting, TypeOK
  <2>3. CASE step'[t] = "idle"
    BY <1>2, <2>1, <2>3, HoldReturned DEF CommitAccept, Release, Goto, Waiting, TypeOK
  <2> QED
    BY <1>2, <2>2, <2>3 DEF CommitAccept, Goto, TypeOK
<1>3. ASSUME NEW t \in Turns, Prepare(t)
      PROVE  Goal
  <2>1. CASE stopped[OriginOf[t]] = "none"
    BY <1>3, <2>1, HoldKept DEF Prepare, Goto, Waiting, TypeOK
  <2>2. CASE stopped[OriginOf[t]] # "none"
    BY <1>3, <2>2, HoldReturned DEF Prepare, Done, Release, Goto, Waiting, TypeOK
  <2> QED
    BY <2>1, <2>2
<1>4. ASSUME NEW t \in Turns, BeginExecution(t)
      PROVE  Goal
  <2>1. OriginOf[t] \in Origins
    BY TrackerAssumption
  <2>2. /\ step[t] \in Waiting /\ step'[t] \notin Waiting
        /\ reserved' = [reserved EXCEPT ![OriginOf[t]] = Unreserve(OriginOf[t])]
        /\ tracked \subseteq tracked' /\ recovered' = recovered
        /\ \A u \in Turns \ {t} : step'[u] = step[u]
    BY <1>4 DEF BeginExecution, Goto, Waiting, TypeOK
  <2>3. \A o \in Origins : executed'[o] = 0 /\ stopped'[o] = "none"
                => executed[o] = 0 /\ stopped[o] = "none" /\ o # OriginOf[t]
    BY <1>4, <2>1 DEF BeginExecution, TypeOK
  <2> QED
    BY <2>2, <2>3, HoldReturned
<1>5. ASSUME NEW t \in Turns, ResumeExecution(t)
      PROVE  Goal
  <2>1. t \in recovered
    BY <1>5 DEF ResumeExecution, RowInv, Waiting
  <2> QED
    BY <1>5, <2>1, HoldKept DEF ResumeExecution, Goto, TypeOK
<1>6. ASSUME NEW t \in Turns, Recover(t) \/ TerminalizeInvalid(t)
      PROVE  Goal
  BY <1>6, HoldKept DEF Recover, TerminalizeInvalid, Goto, Waiting, TypeOK
<1>7. ASSUME NEW t \in Turns, PersistStop(t) \/ RejectRow(t)
      PROVE  Goal
  BY <1>7, HoldKept DEF PersistStop, RejectRow, Done, Goto, Waiting, TypeOK
<1>8. ASSUME NEW t \in Turns, CallModel(t) \/ CompleteTools(t) \/ CompleteTurn(t)
      PROVE  Goal
  BY <1>8, HoldKept DEF CallModel, CompleteTools, CompleteTurn, Done, Goto, Waiting, TypeOK
<1>9. ASSUME NEW t \in Turns, FailTurn(t) \/ SetTerminalReason(t) \/ PersistFailure(t)
      PROVE  Goal
  BY <1>9, HoldKept DEF FailTurn, SetTerminalReason, PersistFailure, Done, Goto, Waiting, TypeOK
<1>10. CASE Scan \/ UNCHANGED vars
  BY <1>10, HoldKept DEF Scan, vars
<1>11. CASE Crash
  <2>1. \A t \in Turns : step'[t] \notin Waiting
    BY <1>11 DEF Crash, Waiting
  <2>2. \A o \in Origins : Holders(o)' = {} /\ reserved'[o] = 0
    BY <1>11, <2>1 DEF Crash, Holders
  <2> QED
    BY <2>1, <2>2, FS_EmptySet DEF HoldInv, ReservedIsTracked, ReservationsReturned
<1> QED
  BY <1>1, <1>2, <1>3, <1>4, <1>5, <1>6, <1>7, <1>8, <1>9, <1>10, <1>11 DEF Next

(* No reservation leaks, and no turn that waits loses the entry of its      *)
(* origin, although a recovered turn may take a reservation it never made.  *)
THEOREM ReservationsKept == Spec => [](ReservedIsTracked /\ ReservationsReturned)
<1>1. Init => TypeOK /\ RowInv
  BY TrackerAssumption DEF Init, TypeOK, RowInv, Rows, Reasons, StopReasons, Steps, Waiting
<1>2. Init => HoldInv /\ ReservedIsTracked /\ ReservationsReturned
  <2> SUFFICES ASSUME Init PROVE HoldInv /\ ReservedIsTracked /\ ReservationsReturned
    OBVIOUS
  <2>1. \A o \in Origins : Holders(o) = {}
    BY DEF Init, Holders, Waiting
  <2> QED
    BY <2>1, FS_EmptySet DEF Init, HoldInv, ReservedIsTracked, ReservationsReturned, Waiting
<1> QED
  BY <1>1, <1>2, TrackerTypeStep, RowStep, HoldStep, PTL DEF Spec

-----------------------------------------------------------------------------
(* Every step keeps a stopped chain stopped. *)
LEMMA StopStep ==
    ASSUME TypeOK, TypeOK', RowInv, StopInv, StopSurvivesRestart, [Next]_vars
    PROVE  (StopInv /\ StopSurvivesRestart)'
<1> DEFINE Goal == (StopInv /\ StopSurvivesRestart)'
<1> USE TrackerAssumption
    DEF TypeOK, StopInv, StopSurvivesRestart, Begun, durable, memory, dispatcher, ghosts, Counted
<1>1. ASSUME NEW t \in Turns, Reserve(t) \/ CommitAccept(t)
      PROVE  Goal
  BY <1>1 DEF Reserve, CommitAccept, Goto, RowInv
<1>2. ASSUME NEW t \in Turns, Recover(t) \/ TerminalizeInvalid(t)
      PROVE  Goal
  BY <1>2 DEF Recover, TerminalizeInvalid, Goto
<1>3. ASSUME NEW t \in Turns, Prepare(t)
      PROVE  Goal
  BY <1>3 DEF Prepare, Goto, Done
<1>4. ASSUME NEW t \in Turns, BeginExecution(t)
      PROVE  Goal
  BY <1>4 DEF BeginExecution, StopCondition, Goto
<1>5. ASSUME NEW t \in Turns, ResumeExecution(t)
      PROVE  Goal
  BY <1>5 DEF ResumeExecution, Goto
<1>6. ASSUME NEW t \in Turns, PersistStop(t) \/ RejectRow(t)
      PROVE  Goal
  BY <1>6 DEF PersistStop, RejectRow, Goto, Done
<1>7. ASSUME NEW t \in Turns, CallModel(t) \/ CompleteTools(t) \/ CompleteTurn(t)
      PROVE  Goal
  BY <1>7 DEF CallModel, CompleteTools, CompleteTurn, Goto, Done
<1>8. ASSUME NEW t \in Turns, FailTurn(t)
      PROVE  Goal
  BY <1>8 DEF FailTurn, Goto
<1>9. ASSUME NEW t \in Turns, SetTerminalReason(t) \/ PersistFailure(t)
      PROVE  Goal
  BY <1>9 DEF SetTerminalReason, PersistFailure, Goto, Done
<1>10. CASE Scan \/ UNCHANGED vars
  BY <1>10 DEF Scan, vars
<1>11. CASE Crash
  <2>1. ASSUME NEW o \in Origins, Begun(o)
        PROVE  Begun(o)' /\ RecoveredCount(row', o) > 0
    <3> DEFINE Rest == {t \in Turns : OriginOf[t] = o /\ row'[t] \in Counted}
    <3>1. PICK t \in Turns : OriginOf[t] = o /\ row[t] \in Counted
      BY <2>1
    <3>2. t \in Rest
      BY <1>11, <3>1 DEF Crash
    <3>3. IsFiniteSet(Rest)
      BY FS_Subset
    <3>4. Cardinality(Rest) \in Nat /\ Cardinality(Rest) # 0
      BY <3>2, <3>3, FS_EmptySet, FS_CardinalityType
    <3>5. RecoveredCount(row', o) > 0
      BY <3>4 DEF RecoveredCount
    <3> QED
      BY <3>2, <3>5
  <2>2. ASSUME NEW o \in Origins, RecoveredCount(row', o) > 0
        PROVE  Begun(o)'
    <3> DEFINE Rest == {t \in Turns : OriginOf[t] = o /\ row'[t] \in Counted}
    <3>1. RecoveredCount(row', o) = Cardinality(Rest)
      BY DEF RecoveredCount
    <3>2. (\E t \in Rest : TRUE) => Begun(o)'
      OBVIOUS
    <3> HIDE DEF Rest
    <3>3. Rest = {} => Cardinality(Rest) = 0
      BY FS_EmptySet, Zenon
    <3>4. Rest # {}
      BY <2>2, <3>1, <3>3
    <3> QED
      BY <3>2, <3>4
  <2>3. /\ faults' = faults /\ before' = origin /\ origin' = origin
        /\ halted' = halted \cup {o \in Origins : origin[o] # "none" /\ RecoveredCount(row', o) > 0}
        /\ \A t \in Turns : step'[t] = "idle"
        /\ \A o \in Origins : stopped'[o] = Rehydrated(row', o)
    BY <1>11 DEF Crash
  <2>4. ASSUME NEW o \in halted'
        PROVE  /\ o \in Origins /\ origin[o] # "none" /\ Begun(o)'
               /\ stopped'[o] # "none" \/ origin[o] = "durable_payload_invalid"
    <3>1. o \in Origins /\ origin[o] # "none" /\ RecoveredCount(row', o) > 0
      BY <2>1, <2>3, <2>4
    <3>2. origin[o] \in StopReasons \/ origin[o] = "durable_payload_invalid"
      BY <3>1 DEF Reasons
    <3>3. origin[o] \in StopReasons => stopped'[o] # "none"
      BY <2>3, <3>1 DEF Rehydrated, StopReasons
    <3> QED
      BY <2>2, <3>1, <3>2, <3>3
  <2>5. ASSUME faults = 0, NEW o \in Origins, origin[o] = "llm_failure"
        PROVE  o \in halted' /\ Begun(o)'
    BY <2>1, <2>3, <2>5
  <2>6. \A o \in Origins : stopped'[o] = "llm_failure" => origin[o] = "llm_failure"
    BY <2>3 DEF Rehydrated
  <2> QED
    BY <2>3, <2>4, <2>5, <2>6
<1> QED
  BY <1>1, <1>2, <1>3, <1>4, <1>5, <1>6, <1>7, <1>8, <1>9, <1>10, <1>11 DEF Next

(* A chain that any process found stopped runs nothing more over any number *)
(* of restarts, whatever stopped it, except where an undecodable turn's     *)
(* reason has replaced the recorded one; and every failure that could be    *)
(* written is found.                                                        *)
THEOREM StoppedStaysStopped == Spec => []StopSurvivesRestart
<1>1. Init => TypeOK /\ RowInv
  BY TrackerAssumption DEF Init, TypeOK, RowInv, Rows, Reasons, StopReasons, Steps, Waiting
<1>2. Init => StopInv /\ StopSurvivesRestart
  BY DEF Init, StopInv, StopSurvivesRestart, Begun
<1> QED
  BY <1>1, <1>2, TrackerTypeStep, RowStep, StopStep, PTL DEF Spec

(* The tracker's accounts of every chain are right, over any number of      *)
(* crashes: its limit, its reservations and its being tracked.              *)
THEOREM ChainsAreAccounted == Spec => []ChainAccounted
<1>1. TypeOK /\ ChainLimit /\ ReservedIsTracked /\ ReservationsReturned => ChainAccounted
  BY DEF ChainAccounted
<1> QED
  BY <1>1, TrackerTypeCorrect, LimitHolds, ReservationsKept, PTL

-----------------------------------------------------------------------------
(* The conversation.                                                        *)

(* The messages of s that are rows of r are in the order of the rows.       *)
Follows(r, s) ==
    \A i, j \in DOMAIN s :
        i < j /\ Id(s[i]) \in Range(r) /\ Id(s[j]) \in Range(r) =>
            \E k, l \in DOMAIN r : r[k] = Id(s[i]) /\ r[l] = Id(s[j]) /\ k < l

SummaryFirst(s) == \A i \in DOMAIN s : s[i].kind = "summary" => i = 1

AllAnswered(s) == \A i \in DOMAIN s : s[i].kind = "call" => AnsweredAt(s, i)

(* A user message of s is, or follows, the last of the rows of r in ids.    *)
HasLatest(r, s, ids) ==
    ids # {} =>
        \E i \in DOMAIN s :
            /\ s[i].kind = "user"
            /\ \A j \in DOMAIN r : r[j] \in ids =>
                 \E k \in DOMAIN r : r[k] = Id(s[i]) /\ j <= k

UserRows == {id \in Range(rows) : id[2] = "user"}
OwnRows(w) == {id \in Range(rows) : id[1] = w}
Undisturbed == dropped = {} /\ overwritten = {}

WriterStates == Writing \cup Ended \cup {"idle", "model", "staged", "compact", "resume"}
Revisions == Nat \cup {NoRevision}

LogTypes ==
    /\ rows \in Seq(Ids) /\ IsInjective(rows)
    /\ snap \in Seq(Messages) /\ exists \in BOOLEAN /\ revision \in Nat
    /\ writer \in [Writers -> [pc : WriterStates, mem : Seq(Messages), rev : Revisions,
                               retried : BOOLEAN, n : 0..MaxPhases]]
    /\ command \in [Commands -> [kind : {"idle", "new", "compact", "truncate", "done"},
                                 mem : Seq(Messages), rev : Revisions]]

(* What is stored.                                                          *)
StoreInv ==
    /\ Covers(snap) \subseteq Range(rows)
    /\ dropped \subseteq Range(rows) /\ cleared \subseteq Range(rows)
    /\ overwritten \subseteq Range(rows) /\ revived \subseteq Range(rows)
    /\ ~exists => rows = <<>>
    /\ Follows(rows, snap) /\ SummaryFirst(snap)
    /\ Undisturbed => HasLatest(rows, snap, UserRows)
    /\ NoLost /\ ClearedStays

(* The rows a writer has written, by where it stands.                       *)
RowsOk(w) ==
    writer[w].pc \notin Ended =>
        /\ \A id \in OwnRows(w) :
            /\ writer[w].pc \notin {"idle", "input"}
            /\ id[2] # "final" /\ id[3] <= writer[w].n
            /\ writer[w].pc = "call" => ~(id[2] \in {"call", "result"} /\ id[3] = writer[w].n)
            /\ writer[w].pc = "result" => ~(id[2] = "result" /\ id[3] = writer[w].n)
            /\ writer[w].pc = "follow" => ~(id[2] = "user" /\ id[3] = writer[w].n)
        /\ writer[w].pc \notin {"idle", "input"} => <<w, "user", 0>> \in Range(rows)

(* What a writer holds, compared with what is stored.                       *)
MemOk(w) ==
    /\ Covers(writer[w].mem) \subseteq Range(rows)
    /\ Follows(rows, writer[w].mem) /\ SummaryFirst(writer[w].mem)
    /\ writer[w].rev <= revision
    /\ ~Conflict(writer[w].rev) =>
         /\ Covers(snap) \subseteq Covers(writer[w].mem) \cup dropped
         /\ cleared \cap Covers(writer[w].mem) \subseteq revived
         /\ Undisturbed => HasLatest(rows, writer[w].mem, UserRows)

Holding(w) == writer[w].pc \notin Ended \cup {"idle", "resume"}

(* What a turn holds of itself.                                             *)
TurnOk(w) ==
    /\ AllAnswered(IF writer[w].pc = "result" THEN Append(writer[w].mem, Out(w)) ELSE writer[w].mem)
    /\ Holding(w) =>
         /\ OwnRows(w) \subseteq Covers(writer[w].mem) \cup dropped \cup overwritten
         /\ Undisturbed => HasLatest(rows, writer[w].mem, OwnRows(w) \cap UserRows)

CommandOk(c) ==
    /\ Covers(command[c].mem) \subseteq Range(rows)
    /\ Follows(rows, command[c].mem) /\ SummaryFirst(command[c].mem)
    /\ command[c].rev <= revision
    /\ command[c].kind \in {"new", "truncate"} =>
         /\ command[c].rev # NoRevision /\ exists
         /\ command[c].rev = revision => command[c].mem = snap
    /\ command[c].kind = "compact" /\ Undisturbed /\ Range(rows) \subseteq Covers(command[c].mem) =>
         HasLatest(rows, command[c].mem, UserRows)

LogInv ==
    /\ LogTypes /\ StoreInv
    /\ \A w \in Writers : RowsOk(w) /\ MemOk(w) /\ TurnOk(w)
    /\ \A c \in Commands : CommandOk(c)


-----------------------------------------------------------------------------
(* InOrder lists the items, each once, by increasing places.                *)
LEMMA InOrderLists ==
    ASSUME NEW items, IsFiniteSet(items),
           \A x \in items : x.at \in Nat,
           \A x, y \in items : x.at = y.at => x = y
    PROVE  /\ Cardinality(items) \in Nat
           /\ \E f \in [1..Cardinality(items) -> items] :
               /\ \A k, l \in 1..Cardinality(items) : k < l => f[k].at < f[l].at
               /\ \A x \in items : \E k \in 1..Cardinality(items) : f[k] = x
               /\ InOrder(items) = [k \in 1..Cardinality(items) |-> f[k].m]
<1> DEFINE C == Cardinality(items)
           UpTo(x) == {y \in items : y.at <= x.at}
           rank(x) == Cardinality(UpTo(x))
           r == [x \in items |-> rank(x)]
           f == [k \in 1..C |-> CHOOSE x \in items : rank(x) = k]
<1>0. C \in Nat
  BY FS_CardinalityType
<1>1. ASSUME NEW x \in items PROVE IsFiniteSet(UpTo(x)) /\ rank(x) \in 1..C
  <2>1. IsFiniteSet(UpTo(x)) /\ rank(x) <= C
    BY FS_Subset
  <2>2. rank(x) \in Nat /\ x \in UpTo(x)
    BY <2>1, FS_CardinalityType
  <2>3. rank(x) # 0
    BY <2>1, <2>2, FS_EmptySet
  <2> QED BY <1>0, <2>1, <2>2, <2>3
<1>2. ASSUME NEW x \in items, NEW y \in items, x.at < y.at PROVE rank(x) < rank(y)
  <2>1. UpTo(x) \in SUBSET UpTo(y) /\ UpTo(x) # UpTo(y)
    BY <1>2
  <2>2. rank(x) <= rank(y) /\ rank(x) # rank(y)
    <3> HIDE DEF UpTo
    <3> QED BY <1>1, <2>1, FS_Subset
  <2>3. rank(x) \in 1..C /\ rank(y) \in 1..C
    BY <1>1
  <2> HIDE DEF rank, UpTo, C
  <2> QED BY <1>0, <2>2, <2>3
<1> HIDE DEF rank, UpTo, C
<1>3. r \in Injection(items, 1..C)
  <2>1. r \in [items -> 1..C]
    BY <1>1
  <2>2. ASSUME NEW x \in items, NEW y \in items, r[x] = r[y] PROVE x = y
    BY <1>1, <1>2, <2>2
  <2> QED BY <2>1, <2>2 DEF Injection, IsInjective
<1>4. r \in Surjection(items, 1..C)
  <2>1. IsFiniteSet(1..C) /\ Cardinality(1..C) = C
    BY <1>0, FS_Interval
  <2> QED BY <1>3, <2>1, FS_Injection DEF C
<1>5. ASSUME NEW k \in 1..C PROVE f[k] \in items /\ rank(f[k]) = k
  <2>1. \E x \in items : r[x] = k
    BY <1>4 DEF Surjection
  <2> QED BY <2>1
<1>6. ASSUME NEW k \in 1..C, NEW l \in 1..C, k < l PROVE f[k].at < f[l].at
  BY <1>2, <1>5, <1>6
<1>7. ASSUME NEW x \in items PROVE \E k \in 1..C : f[k] = x
  BY <1>1, <1>2, <1>5
<1>8. InOrder(items) = [k \in 1..C |-> f[k].m]
  BY DEF InOrder, C, rank, UpTo
<1>9. f \in [1..C -> items]
  BY <1>5
<1> HIDE DEF f
<1> QED BY <1>0, <1>6, <1>7, <1>8, <1>9 DEF C

-----------------------------------------------------------------------------
(* Every set of naturals that has a member has a least one.                 *)
LEMMA NatMin ==
    ASSUME NEW T \in SUBSET Nat, T # {}
    PROVE  \E x \in T : \A y \in T : x <= y
<1> DEFINE R == OpToRel(<, Nat)
<1>1. IsWellFoundedOn(R, Nat)
  BY NatLessThanWellFounded
<1>2. PICK x \in T : \A y \in T : ~(<<y, x>> \in R)
  <2> HIDE DEF R
  <2> QED BY <1>1, WFMin
<1>3. \A y \in T : ~(y < x)
  BY <1>2 DEF OpToRel
<1> QED BY <1>3

(* What Max chooses from a set of naturals with a bound.                    *)
LEMMA LargestOf ==
    ASSUME NEW n \in Nat, NEW T \in SUBSET (0..n), T # {}
    PROVE  Max(T) \in T /\ \A y \in T : y <= Max(T)
<1> DEFINE D == {n - y : y \in T}
<1>1. D \in SUBSET Nat /\ D # {}
  <2>1. \A y \in T : n - y \in Nat
    OBVIOUS
  <2> QED BY <2>1
<1>2. PICK d \in D : \A e \in D : d <= e
  <2> HIDE DEF D
  <2> QED BY <1>1, NatMin
<1>3. PICK x \in T : d = n - x
  OBVIOUS
<1>4. \A y \in T : x >= y
  <2> TAKE y \in T
  <2>1. n - y \in D
    OBVIOUS
  <2>2. n - x <= n - y
    BY <1>2, <1>3, <2>1
  <2> QED BY <2>2
<1> QED BY <1>4 DEF Max

-----------------------------------------------------------------------------
(* Repair.                                                                  *)

Open(s) == {i \in DOMAIN s : s[i].kind = "call" /\ ~AnsweredAt(s, i)}
Behind(s, i) == Max({q \in i..Len(s) : RunUpTo(s, i, q)})
Originals(s) == {[at |-> 2 * i, m |-> s[i]] : i \in DOMAIN s}
Orphan(m) == [m EXCEPT !.kind = "orphan"]
Outputs(s) == {[at |-> 2 * Behind(s, i) + 1, m |-> Orphan(s[i])] : i \in Open(s)}

(* The messages of the model, by kind.                                      *)
LEMMA MessageTypes ==
    ASSUME NEW m \in Messages
    PROVE  /\ m.kind # "summary" =>
                m.kind \in {"user", "call", "result", "final", "orphan"} /\ m.by \in Writers
                  /\ m.n \in 0..MaxPhases /\ m.of = {}
           /\ m.kind = "summary" => m.of \in SUBSET Ids /\ m.by = Nobody
           /\ Told(m) \in SUBSET Ids
           /\ m.kind = "call" => Orphan(m) \in Messages /\ Orphan(m).kind = "orphan"
                                   /\ Answers(Orphan(m), m) /\ IsTool(Orphan(m)) /\ ~IsTool(m)
<1>1. CASE m \in [kind : {"user", "call", "result", "final", "orphan"}, by : Writers,
                  n : 0..MaxPhases, of : {{}}]
  <2>1. m = [kind |-> m.kind, by |-> m.by, n |-> m.n, of |-> m.of]
    BY <1>1
  <2>2. m.kind = "call" => Orphan(m) = [kind |-> "orphan", by |-> m.by, n |-> m.n, of |-> m.of]
    BY <2>1 DEF Orphan
  <2>3. m.kind = "call" => Orphan(m) \in Messages
    BY <1>1, <2>2 DEF Messages
  <2>4. Told(m) \in SUBSET Ids
    BY <1>1 DEF Told, Id, Ids
  <2> QED BY <1>1, <2>2, <2>3, <2>4 DEF Answers, IsTool
<1>2. CASE m \in [kind : {"summary"}, by : {Nobody}, n : {0}, of : SUBSET Ids]
  BY <1>2 DEF Told
<1> QED BY <1>1, <1>2 DEF Messages

(* Where the tool messages right after a call end.                          *)
LEMMA BehindIs ==
    ASSUME NEW s \in Seq(Messages), NEW i \in DOMAIN s
    PROVE  /\ Behind(s, i) \in i..Len(s) /\ RunUpTo(s, i, Behind(s, i))
           /\ \A q \in i..Len(s) : RunUpTo(s, i, q) => q <= Behind(s, i)
<1> DEFINE T == {q \in i..Len(s) : RunUpTo(s, i, q)}
<1>1. Len(s) \in Nat /\ i \in 1..Len(s) /\ T \in SUBSET (0..Len(s))
  BY LenProperties
<1>2. i \in T
  BY <1>1 DEF RunUpTo
<1>3. Max(T) \in T /\ \A y \in T : y <= Max(T)
  <2> HIDE DEF T
  <2> QED BY <1>1, <1>2, LargestOf
<1> QED BY <1>3 DEF Behind

(* A repaired conversation is its messages and the outputs put in, by       *)
(* place.                                                                   *)
LEMMA RepairLists ==
    ASSUME NEW s \in Seq(Messages)
    PROVE  /\ Repair(s) \in Seq(Messages)
           /\ \E f \in [DOMAIN Repair(s) -> Originals(s) \cup Outputs(s)] :
               /\ \A k, l \in DOMAIN Repair(s) : k < l => f[k].at < f[l].at
               /\ \A x \in Originals(s) \cup Outputs(s) : \E k \in DOMAIN Repair(s) : f[k] = x
               /\ \A k \in DOMAIN Repair(s) : Repair(s)[k] = f[k].m
<1> DEFINE items == Originals(s) \cup Outputs(s)
<1>1. Len(s) \in Nat /\ DOMAIN s = 1..Len(s) /\ \A i \in DOMAIN s : s[i] \in Messages
  BY LenProperties
<1>2. IsFiniteSet(DOMAIN s) /\ IsFiniteSet(Open(s))
  <2>1. IsFiniteSet(DOMAIN s)
    BY <1>1, FS_Interval
  <2> QED BY <2>1, FS_Subset DEF Open
<1>3. IsFiniteSet(Originals(s))
  <2> DEFINE g == [i \in DOMAIN s |-> [at |-> 2 * i, m |-> s[i]]]
  <2>1. g \in Surjection(DOMAIN s, Originals(s))
    BY DEF Originals, Surjection
  <2> QED BY <1>2, <2>1, FS_Surjection
<1>4. IsFiniteSet(Outputs(s))
  <2> DEFINE g == [i \in Open(s) |-> [at |-> 2 * Behind(s, i) + 1, m |-> Orphan(s[i])]]
  <2>1. g \in Surjection(Open(s), Outputs(s))
    BY DEF Outputs, Surjection
  <2> QED BY <1>2, <2>1, FS_Surjection
<1>5. IsFiniteSet(items)
  BY <1>3, <1>4, FS_Union
<1>6. \A i \in Open(s) : i \in DOMAIN s /\ Behind(s, i) \in i..Len(s) /\ s[i].kind = "call"
                          /\ RunUpTo(s, i, Behind(s, i)) /\ Orphan(s[i]) \in Messages
  BY <1>1, BehindIs, MessageTypes DEF Open
<1>7. ASSUME NEW x \in items PROVE x.at \in Nat /\ x.m \in Messages
  BY <1>1, <1>6 DEF Originals, Outputs
<1>8. ASSUME NEW i \in Open(s), NEW j \in Open(s), Behind(s, i) = Behind(s, j) PROVE ~(i < j)
  <2> SUFFICES ASSUME i < j PROVE FALSE
    OBVIOUS
  <2>1. j \in i + 1..Behind(s, i)
    BY <1>1, <1>6, <1>8
  <2>2. IsTool(s[j])
    BY <1>6, <2>1 DEF RunUpTo
  <2> QED BY <1>6, <2>2 DEF IsTool
<1>9. ASSUME NEW x \in items, NEW y \in items, x.at = y.at PROVE x = y
  <2>1. CASE x \in Originals(s) /\ y \in Originals(s)
    BY <1>1, <1>9, <2>1 DEF Originals
  <2>2. CASE x \in Outputs(s) /\ y \in Outputs(s)
    <3>1. PICK i \in Open(s) : x = [at |-> 2 * Behind(s, i) + 1, m |-> Orphan(s[i])]
      BY <2>2 DEF Outputs
    <3>2. PICK j \in Open(s) : y = [at |-> 2 * Behind(s, j) + 1, m |-> Orphan(s[j])]
      BY <2>2 DEF Outputs
    <3>3. Behind(s, i) = Behind(s, j)
      BY <1>1, <1>6, <1>9, <3>1, <3>2
    <3>4. i = j
      BY <1>1, <1>6, <1>8, <3>3
    <3> QED BY <3>1, <3>2, <3>4
  <2>3. CASE x \in Originals(s) /\ y \in Outputs(s)
    BY <1>1, <1>6, <1>9, <2>3 DEF Originals, Outputs
  <2>4. CASE x \in Outputs(s) /\ y \in Originals(s)
    BY <1>1, <1>6, <1>9, <2>4 DEF Originals, Outputs
  <2> QED BY <2>1, <2>2, <2>3, <2>4
<1>10. Repair(s) = InOrder(items)
  BY DEF Repair, Originals, Outputs, Open, Behind, Orphan
<1> DEFINE C == Cardinality(items)
<1>11. /\ C \in Nat
       /\ \E f \in [1..C -> items] :
           /\ \A k, l \in 1..C : k < l => f[k].at < f[l].at
           /\ \A x \in items : \E k \in 1..C : f[k] = x
           /\ InOrder(items) = [k \in 1..C |-> f[k].m]
  <2> HIDE DEF items
  <2> QED BY <1>5, <1>7, <1>9, InOrderLists
<1> HIDE DEF items, C
<1>12. PICK f \in [1..C -> items] :
           /\ \A k, l \in 1..C : k < l => f[k].at < f[l].at
           /\ \A x \in items : \E k \in 1..C : f[k] = x
           /\ InOrder(items) = [k \in 1..C |-> f[k].m]
  BY <1>11
<1>13. DOMAIN Repair(s) = 1..C /\ \A k \in 1..C : Repair(s)[k] = f[k].m
  BY <1>10, <1>12
<1>14. Repair(s) \in Seq(Messages)
  <2>1. \A k \in 1..C : f[k].m \in Messages
    BY <1>7, <1>12
  <2>2. Repair(s) \in [1..C -> Messages]
    BY <1>10, <1>12, <2>1
  <2> QED BY <1>11, <2>2, SeqDef
<1> QED BY <1>12, <1>13, <1>14 DEF items

(* An id is told by the message that tells it.                              *)
LEMMA InCovers ==
    ASSUME NEW s, NEW id
    PROVE  id \in Covers(s) <=> \E i \in DOMAIN s : id \in Told(s[i])
  BY DEF Covers

(* The repair tells no more and no less,                                    *)
LEMMA RepairCovers ==
    ASSUME NEW s \in Seq(Messages)
    PROVE  Covers(Repair(s)) = Covers(s)
<1>1. PICK f \in [DOMAIN Repair(s) -> Originals(s) \cup Outputs(s)] :
        /\ \A x \in Originals(s) \cup Outputs(s) : \E k \in DOMAIN Repair(s) : f[k] = x
        /\ \A k \in DOMAIN Repair(s) : Repair(s)[k] = f[k].m
  BY RepairLists
<1>2. ASSUME NEW i \in DOMAIN s PROVE \E k \in DOMAIN Repair(s) : Repair(s)[k] = s[i]
  <2>1. [at |-> 2 * i, m |-> s[i]] \in Originals(s)
    BY DEF Originals
  <2> QED BY <1>1, <2>1
<1>3. ASSUME NEW k \in DOMAIN Repair(s)
      PROVE  Told(Repair(s)[k]) = {} \/ \E i \in DOMAIN s : Repair(s)[k] = s[i]
  <2>1. CASE f[k] \in Originals(s)
    BY <1>1, <2>1 DEF Originals
  <2>2. CASE f[k] \in Outputs(s)
    <3>1. PICK i \in Open(s) : Repair(s)[k] = Orphan(s[i])
      BY <1>1, <2>2 DEF Outputs
    <3>2. i \in DOMAIN s /\ s[i] \in Messages /\ s[i].kind = "call"
      BY LenProperties DEF Open
    <3>3. Orphan(s[i]).kind = "orphan"
      BY <3>2, MessageTypes
    <3> QED BY <3>1, <3>3 DEF Told
  <2> QED BY <1>1, <2>1, <2>2
<1>4. ASSUME NEW id PROVE id \in Covers(Repair(s)) <=> id \in Covers(s)
  BY <1>2, <1>3, InCovers
<1> QED BY <1>4

(* answers every call (repair_orphan_tool_outputs),                         *)
LEMMA RepairAnswered ==
    ASSUME NEW s \in Seq(Messages)
    PROVE  AllAnswered(Repair(s))
<1> DEFINE R == Repair(s)
<1>1. PICK f \in [DOMAIN R -> Originals(s) \cup Outputs(s)] :
        /\ \A k, l \in DOMAIN R : k < l => f[k].at < f[l].at
        /\ \A x \in Originals(s) \cup Outputs(s) : \E k \in DOMAIN R : f[k] = x
        /\ \A k \in DOMAIN R : R[k] = f[k].m
  BY RepairLists
<1>2. R \in Seq(Messages)
  BY RepairLists
<1> HIDE DEF R
<1>3. Len(R) \in Nat /\ DOMAIN R = 1..Len(R) /\ Len(s) \in Nat /\ DOMAIN s = 1..Len(s)
      /\ \A i \in DOMAIN s : s[i] \in Messages
  BY <1>2, LenProperties
<1>4. \A i \in Open(s) : i \in DOMAIN s /\ Behind(s, i) \in i..Len(s) /\ s[i].kind = "call"
                          /\ RunUpTo(s, i, Behind(s, i))
  BY <1>3, BehindIs DEF Open
<1>5. ASSUME NEW k \in DOMAIN R, f[k] \in Outputs(s) PROVE IsTool(R[k]) /\ R[k].kind = "orphan"
  <2>1. PICK i \in Open(s) : R[k] = Orphan(s[i])
    BY <1>1, <1>5 DEF Outputs
  <2> QED BY <1>3, <1>4, <2>1, MessageTypes
<1>6. ASSUME NEW i \in DOMAIN s, NEW q \in i..Len(s), RunUpTo(s, i, q),
             NEW k \in DOMAIN R, NEW l \in DOMAIN R, f[k].at = 2 * i, k < l, f[l].at <= 2 * q + 1
      PROVE  IsTool(R[l])
  <2>1. CASE f[l] \in Outputs(s)
    BY <1>5, <2>1
  <2>2. CASE f[l] \in Originals(s)
    <3>1. PICK j \in DOMAIN s : f[l] = [at |-> 2 * j, m |-> s[j]]
      BY <2>2 DEF Originals
    <3>2. 2 * i < 2 * j /\ 2 * j <= 2 * q + 1
      BY <1>1, <1>6, <3>1
    <3>3. j \in i + 1..q
      BY <1>3, <3>2
    <3> QED BY <1>1, <1>6, <3>1, <3>3 DEF RunUpTo
  <2> QED BY <1>1, <2>1, <2>2
<1>7. ASSUME NEW i \in DOMAIN s, NEW q \in i..Len(s), RunUpTo(s, i, q),
             NEW k \in DOMAIN R, NEW z \in DOMAIN R, f[k] = [at |-> 2 * i, m |-> s[i]],
             2 * i < f[z].at, f[z].at <= 2 * q + 1, f[z].at \in Nat, Answers(R[z], R[k])
      PROVE  AnsweredAt(R, k)
  <2>1. k < z
    <3>1. z # k /\ ~(z < k)
      BY <1>1, <1>3, <1>7
    <3> QED BY <1>3, <3>1
  <2>2. \A l \in k + 1..z : IsTool(R[l])
    <3> TAKE l \in k + 1..z
    <3>1. l \in DOMAIN R /\ k < l /\ (l = z \/ l < z)
      BY <1>3
    <3>2. f[l] \in Originals(s) \cup Outputs(s)
      BY <1>1, <3>1
    <3>3. f[l].at \in Nat
      <4>1. CASE f[l] \in Originals(s)
        BY <1>3, <4>1 DEF Originals
      <4>2. CASE f[l] \in Outputs(s)
        BY <1>3, <1>4, <4>2 DEF Outputs
      <4> QED BY <3>2, <4>1, <4>2
    <3>4. f[l].at <= 2 * q + 1
      BY <1>1, <1>3, <1>7, <3>1, <3>3
    <3> QED BY <1>6, <1>7, <3>1, <3>4
  <2>3. z \in k + 1..Len(R)
    BY <1>3, <2>1
  <2> QED BY <1>7, <2>2, <2>3 DEF AnsweredAt, RunUpTo
<1>8. ASSUME NEW k \in DOMAIN R, R[k].kind = "call" PROVE AnsweredAt(R, k)
  <2>1. f[k] \in Originals(s)
    BY <1>1, <1>5, <1>8
  <2>2. PICK i \in DOMAIN s : f[k] = [at |-> 2 * i, m |-> s[i]]
    BY <2>1 DEF Originals
  <2>3. R[k] = s[i] /\ s[i].kind = "call"
    BY <1>1, <1>8, <2>2
  <2>4. CASE AnsweredAt(s, i)
    <3>1. PICK q \in i + 1..Len(s) : Answers(s[q], s[i]) /\ RunUpTo(s, i, q)
      BY <2>4 DEF AnsweredAt
    <3>2. q \in DOMAIN s /\ q \in i..Len(s) /\ 2 * i < 2 * q /\ 2 * q <= 2 * q + 1 /\ 2 * q \in Nat
      BY <1>3
    <3>3. [at |-> 2 * q, m |-> s[q]] \in Originals(s)
      BY <3>2 DEF Originals
    <3>4. PICK z \in DOMAIN R : f[z] = [at |-> 2 * q, m |-> s[q]]
      BY <1>1, <3>3
    <3>5. R[z] = s[q] /\ f[z].at = 2 * q
      BY <1>1, <3>4
    <3> QED BY <1>7, <2>2, <2>3, <3>1, <3>2, <3>5
  <2>5. CASE ~AnsweredAt(s, i)
    <3>1. i \in Open(s)
      BY <2>3, <2>5 DEF Open
    <3> DEFINE q == Behind(s, i)
    <3>2. q \in i..Len(s) /\ RunUpTo(s, i, q) /\ 2 * i < 2 * q + 1 /\ 2 * q + 1 \in Nat
          /\ 2 * q + 1 <= 2 * q + 1
      BY <1>3, <1>4, <3>1
    <3>3. [at |-> 2 * q + 1, m |-> Orphan(s[i])] \in Outputs(s)
      BY <3>1 DEF Outputs
    <3> HIDE DEF q
    <3>4. PICK z \in DOMAIN R : f[z] = [at |-> 2 * q + 1, m |-> Orphan(s[i])]
      BY <1>1, <3>3
    <3>5. R[z] = Orphan(s[i]) /\ f[z].at = 2 * q + 1
      BY <1>1, <3>4
    <3>6. Answers(R[z], R[k])
      BY <1>3, <2>3, <3>5, MessageTypes
    <3> QED BY <1>7, <2>2, <3>2, <3>5, <3>6
  <2> QED BY <2>4, <2>5
<1> QED BY <1>8 DEF AllAnswered, R

(* and keeps the order of what was there,                                   *)
LEMMA RepairOrder ==
    ASSUME NEW s \in Seq(Messages), NEW k \in DOMAIN Repair(s), NEW l \in DOMAIN Repair(s), k < l,
           Repair(s)[k].kind # "orphan", Repair(s)[l].kind # "orphan"
    PROVE  \E i, j \in DOMAIN s : i < j /\ Repair(s)[k] = s[i] /\ Repair(s)[l] = s[j]
<1>1. PICK f \in [DOMAIN Repair(s) -> Originals(s) \cup Outputs(s)] :
        /\ \A g, h \in DOMAIN Repair(s) : g < h => f[g].at < f[h].at
        /\ \A g \in DOMAIN Repair(s) : Repair(s)[g] = f[g].m
  BY RepairLists
<1>2. DOMAIN s = 1..Len(s) /\ Len(s) \in Nat /\ \A i \in DOMAIN s : s[i] \in Messages
  BY LenProperties
<1>3. ASSUME NEW g \in DOMAIN Repair(s), f[g] \in Outputs(s) PROVE Repair(s)[g].kind = "orphan"
  <2>1. PICK i \in Open(s) : Repair(s)[g] = Orphan(s[i])
    BY <1>1, <1>3 DEF Outputs
  <2> QED BY <1>2, <2>1, MessageTypes DEF Open
<1>4. f[k] \in Originals(s) /\ f[l] \in Originals(s)
  BY <1>1, <1>3
<1>5. PICK i \in DOMAIN s : f[k] = [at |-> 2 * i, m |-> s[i]]
  BY <1>4 DEF Originals
<1>6. PICK j \in DOMAIN s : f[l] = [at |-> 2 * j, m |-> s[j]]
  BY <1>4 DEF Originals
<1>7. 2 * i < 2 * j
  BY <1>1, <1>5, <1>6
<1>8. i < j
  BY <1>2, <1>7
<1> QED BY <1>1, <1>5, <1>6, <1>8

(* What comes first in a repaired conversation came first before.           *)
LEMMA RepairHead ==
    ASSUME NEW s \in Seq(Messages), NEW k \in DOMAIN Repair(s), Repair(s)[k].kind = "summary",
           SummaryFirst(s)
    PROVE  k = 1
<1>1. PICK f \in [DOMAIN Repair(s) -> Originals(s) \cup Outputs(s)] :
        /\ \A g, h \in DOMAIN Repair(s) : g < h => f[g].at < f[h].at
        /\ \A g \in DOMAIN Repair(s) : Repair(s)[g] = f[g].m
  BY RepairLists
<1>2. DOMAIN s = 1..Len(s) /\ Len(s) \in Nat /\ \A i \in DOMAIN s : s[i] \in Messages
  BY LenProperties
<1>3. ASSUME NEW g \in DOMAIN Repair(s), f[g] \in Outputs(s) PROVE Repair(s)[g].kind = "orphan"
  <2>1. PICK i \in Open(s) : Repair(s)[g] = Orphan(s[i])
    BY <1>1, <1>3 DEF Outputs
  <2> QED BY <1>2, <2>1, MessageTypes DEF Open
<1>4. f[k] \in Originals(s)
  BY <1>1, <1>3
<1>5. PICK i \in DOMAIN s : f[k] = [at |-> 2 * i, m |-> s[i]]
  BY <1>4 DEF Originals
<1>6. f[k].at = 2
  BY <1>1, <1>5 DEF SummaryFirst
<1>7. \A x \in Originals(s) \cup Outputs(s) : x.at \in Nat /\ x.at >= 2
  BY <1>2, BehindIs DEF Originals, Outputs, Open
<1>8. DOMAIN Repair(s) = 1..Len(Repair(s)) /\ Len(Repair(s)) \in Nat
  BY RepairLists, LenProperties
<1>9. ASSUME k # 1 PROVE FALSE
  <2>1. 1 \in DOMAIN Repair(s) /\ 1 < k
    BY <1>8, <1>9
  <2> QED BY <1>1, <1>6, <1>7, <2>1
<1> QED BY <1>9

(* all of which is still there.                                             *)
LEMMA RepairHolds ==
    ASSUME NEW s \in Seq(Messages), NEW i \in DOMAIN s
    PROVE  \E k \in DOMAIN Repair(s) : Repair(s)[k] = s[i]
<1>1. PICK f \in [DOMAIN Repair(s) -> Originals(s) \cup Outputs(s)] :
        /\ \A x \in Originals(s) \cup Outputs(s) : \E k \in DOMAIN Repair(s) : f[k] = x
        /\ \A k \in DOMAIN Repair(s) : Repair(s)[k] = f[k].m
  BY RepairLists
<1>2. [at |-> 2 * i, m |-> s[i]] \in Originals(s)
  BY DEF Originals
<1> QED BY <1>1, <1>2

-----------------------------------------------------------------------------
(* A part of a conversation, in its order.                                  *)

Thinned(t, s) ==
    \E f \in [DOMAIN t -> DOMAIN s] :
        /\ \A k, l \in DOMAIN t : k < l => f[k] < f[l]
        /\ \A k \in DOMAIN t : t[k] = s[f[k]]

(* Only real messages have the id of a row.                                 *)
LEMMA RealId ==
    ASSUME NEW m \in Messages, Id(m) \in Ids
    PROVE  m.kind \notin {"summary", "orphan"} /\ Told(m) = {Id(m)}
<1>1. m.kind \in {"user", "call", "result", "final"}
  BY DEF Ids, Id
<1> QED BY <1>1 DEF Told

(* What is taken from a conversation in its order keeps its shape.          *)
LEMMA ThinnedKeeps ==
    ASSUME NEW s \in Seq(Messages), NEW t \in Seq(Messages), Thinned(t, s), NEW r
    PROVE  /\ Covers(t) \subseteq Covers(s)
           /\ Follows(r, s) => Follows(r, t)
           /\ SummaryFirst(s) => SummaryFirst(t)
<1>1. PICK f \in [DOMAIN t -> DOMAIN s] :
        /\ \A k, l \in DOMAIN t : k < l => f[k] < f[l]
        /\ \A k \in DOMAIN t : t[k] = s[f[k]]
  BY DEF Thinned
<1>2. DOMAIN s = 1..Len(s) /\ Len(s) \in Nat /\ DOMAIN t = 1..Len(t) /\ Len(t) \in Nat
  BY LenProperties
<1>3. Covers(t) \subseteq Covers(s)
  BY <1>1, InCovers
<1>4. Follows(r, s) => Follows(r, t)
  <2> SUFFICES ASSUME Follows(r, s), NEW i \in DOMAIN t, NEW j \in DOMAIN t, i < j,
                      Id(t[i]) \in Range(r), Id(t[j]) \in Range(r)
               PROVE  \E k, l \in DOMAIN r : r[k] = Id(t[i]) /\ r[l] = Id(t[j]) /\ k < l
    BY DEF Follows
  <2>1. f[i] \in DOMAIN s /\ f[j] \in DOMAIN s /\ f[i] < f[j] /\ t[i] = s[f[i]] /\ t[j] = s[f[j]]
    BY <1>1
  <2> QED BY <2>1 DEF Follows
<1>5. SummaryFirst(s) => SummaryFirst(t)
  <2> SUFFICES ASSUME SummaryFirst(s), NEW k \in DOMAIN t, t[k].kind = "summary", k # 1 PROVE FALSE
    BY DEF SummaryFirst
  <2>1. f[k] = 1
    BY <1>1 DEF SummaryFirst
  <2>2. 1 \in DOMAIN t /\ 1 < k
    BY <1>2
  <2>3. f[1] < f[k] /\ f[1] \in 1..Len(s)
    BY <1>1, <1>2, <2>2
  <2> QED BY <1>2, <2>1, <2>3
<1> QED BY <1>3, <1>4, <1>5

(* So does the repair,                                                      *)
LEMMA RepairShaped ==
    ASSUME NEW s \in Seq(Messages), NEW r \in Seq(Ids)
    PROVE  /\ Follows(r, s) => Follows(r, Repair(s))
           /\ SummaryFirst(s) => SummaryFirst(Repair(s))
<1>1. Follows(r, s) => Follows(r, Repair(s))
  <2> SUFFICES ASSUME Follows(r, s), NEW i \in DOMAIN Repair(s), NEW j \in DOMAIN Repair(s), i < j,
                      Id(Repair(s)[i]) \in Range(r), Id(Repair(s)[j]) \in Range(r)
               PROVE  \E k, l \in DOMAIN r :
                        r[k] = Id(Repair(s)[i]) /\ r[l] = Id(Repair(s)[j]) /\ k < l
    BY DEF Follows
  <2>1. Repair(s)[i] \in Messages /\ Repair(s)[j] \in Messages
    BY RepairLists, LenProperties
  <2>2. Range(r) \subseteq Ids
    BY LenProperties DEF Range
  <2>3. Repair(s)[i].kind # "orphan" /\ Repair(s)[j].kind # "orphan"
    BY <2>1, <2>2, RealId
  <2>4. PICK k, l \in DOMAIN s : k < l /\ Repair(s)[i] = s[k] /\ Repair(s)[j] = s[l]
    BY <2>3, RepairOrder
  <2> QED BY <2>4 DEF Follows
<1>2. SummaryFirst(s) => SummaryFirst(Repair(s))
  BY RepairHead DEF SummaryFirst
<1> QED BY <1>1, <1>2

(* and the latest user message stays.                                       *)
LEMMA RepairLatest ==
    ASSUME NEW s \in Seq(Messages), NEW r, NEW ids, HasLatest(r, s, ids)
    PROVE  HasLatest(r, Repair(s), ids)
  BY RepairHolds DEF HasLatest

-----------------------------------------------------------------------------
(* The truncation.                                                          *)

(* What Min chooses from two.                                               *)
LEMMA SmallerOf ==
    ASSUME NEW a \in Nat, NEW b \in Nat
    PROVE  Min({a, b}) \in Nat /\ Min({a, b}) <= a /\ Min({a, b}) <= b /\ Min({a, b}) \in {a, b}
  BY DEF Min

(* truncate_messages_json: the end of the conversation without tools; a     *)
(* summary is kept only when every message of the user is.                  *)
LEMMA TruncatedIs ==
    ASSUME NEW s \in Seq(Messages)
    PROVE  /\ TruncateMessages(s) \in Seq(Messages)
           /\ Thinned(TruncateMessages(s), s)
           /\ SummaryFirst(s) /\ (\E k \in DOMAIN TruncateMessages(s) :
                                     TruncateMessages(s)[k].kind = "summary") =>
                \A i \in DOMAIN s : s[i].kind = "user" =>
                    \E k \in DOMAIN TruncateMessages(s) : TruncateMessages(s)[k] = s[i]
<1> DEFINE J == {j \in DOMAIN s : ~IsTool(s[j]) /\ s[j].kind # "call"}
           items == {[at |-> i, m |-> s[i]] : i \in J}
           C == Cardinality(items)
           kept == InOrder(items)
           a == C - Min({ClearKeep, C})
           T == TruncateMessages(s)
<1>1. Len(s) \in Nat /\ DOMAIN s = 1..Len(s) /\ \A i \in DOMAIN s : s[i] \in Messages
  BY LenProperties
<1>2. IsFiniteSet(items)
  <2> DEFINE g == [i \in J |-> [at |-> i, m |-> s[i]]]
  <2>1. g \in Surjection(J, items)
    BY DEF Surjection
  <2>2. IsFiniteSet(DOMAIN s)
    BY <1>1, FS_Interval
  <2>3. IsFiniteSet(J)
    BY <2>2, FS_Subset
  <2> HIDE DEF items, J, g
  <2> QED BY <2>1, <2>3, FS_Surjection
<1>3. \A x \in items : x.at \in DOMAIN s /\ x.at \in Nat /\ x.m = s[x.at]
  BY <1>1
<1>4. \A x, y \in items : x.at = y.at => x = y
  OBVIOUS
<1>5. /\ C \in Nat
      /\ \E f \in [1..C -> items] :
           /\ \A k, l \in 1..C : k < l => f[k].at < f[l].at
           /\ \A x \in items : \E k \in 1..C : f[k] = x
           /\ kept = [k \in 1..C |-> f[k].m]
  <2> HIDE DEF items
  <2> QED BY <1>2, <1>3, <1>4, InOrderLists
<1>6. \A i \in DOMAIN s : s[i].kind = "user" => [at |-> i, m |-> s[i]] \in items
  BY DEF IsTool
<1>7. T = SubSeq(kept, a + 1, Len(kept)) /\ (C \in Nat /\ Len(kept) = C)
  <2>1. Len(kept) = C
    <3> HIDE DEF C, items
    <3> QED BY <1>5
  <2>2. T = SubSeq(kept, Len(kept) - Min({ClearKeep, Len(kept)}) + 1, Len(kept))
    BY DEF TruncateMessages
  <2> HIDE DEF C, kept, items, T
  <2> QED BY <1>5, <2>1, <2>2
<1> HIDE DEF items, J, C, kept, T
<1>8. PICK f \in [1..C -> items] :
           /\ \A k, l \in 1..C : k < l => f[k].at < f[l].at
           /\ \A x \in items : \E k \in 1..C : f[k] = x
           /\ kept = [k \in 1..C |-> f[k].m]
  BY <1>5
<1>n. C \in Nat
  BY <1>5
<1>9. a \in 0..C
  <2>1. ClearKeep \in Nat
    BY SessionLogAssumption
  <2>2. Min({ClearKeep, C}) \in Nat /\ Min({ClearKeep, C}) <= C
    BY <1>n, <2>1, SmallerOf
  <2> QED BY <1>n, <2>2
<1> HIDE DEF a
<1>c. \A k \in 1..(C - a) : a + k \in 1..C
  BY <1>n, <1>9
<1>10. \A k \in 1..C : kept[k] = s[f[k].at] /\ f[k].at \in DOMAIN s /\ kept[k] \in Messages
  BY <1>1, <1>3, <1>8
<1>11. T \in Seq(Messages) /\ Len(T) = C - a /\ \A k \in 1..(C - a) : T[k] = kept[a + k]
  <2>1. \A k \in (a + 1)..C : kept[k] \in Messages
    BY <1>5, <1>9, <1>10
  <2>2. a + 1 \in Int /\ C \in Int /\ a <= C /\ a \in Nat
    BY <1>n, <1>9
  <2>3. T = SubSeq(kept, a + 1, C)
    BY <1>7
  <2>4. T \in Seq(Messages) /\ Len(T) = (IF a + 1 <= C THEN C - (a + 1) + 1 ELSE 0)
        /\ \A i \in 1..(C - (a + 1) + 1) : T[i] = kept[a + 1 + i - 1]
    <3> HIDE DEF T
    <3> QED BY <2>1, <2>2, <2>3, SubSeqProperties
  <2>5. C - (a + 1) + 1 = C - a /\ \A i \in Int : a + 1 + i - 1 = a + i
    BY <2>2
  <2>6. Len(T) = C - a
    BY <2>2, <2>4
  <2> HIDE DEF T
  <2> QED BY <2>2, <2>4, <2>5, <2>6
<1>12. DOMAIN T = 1..(C - a)
  BY <1>11, LenProperties
<1>13. Thinned(T, s)
  <2> DEFINE h == [k \in DOMAIN T |-> f[a + k].at]
  <2>1. \A k \in DOMAIN T : a + k \in 1..C
    BY <1>c, <1>12
  <2>2. h \in [DOMAIN T -> DOMAIN s] /\ \A k \in DOMAIN T : T[k] = s[h[k]]
    BY <1>10, <1>11, <1>12, <2>1
  <2>3. \A k, l \in DOMAIN T : k < l => h[k] < h[l]
    <3> SUFFICES ASSUME NEW k \in DOMAIN T, NEW l \in DOMAIN T, k < l PROVE h[k] < h[l]
      OBVIOUS
    <3>1. a + k < a + l
      BY <1>n, <1>9, <1>12
    <3> QED BY <1>8, <2>1, <3>1
  <2> HIDE DEF h
  <2> QED BY <2>2, <2>3 DEF Thinned
<1>14. ASSUME SummaryFirst(s), NEW z \in DOMAIN T, T[z].kind = "summary",
              NEW i \in DOMAIN s, s[i].kind = "user"
       PROVE  \E k \in DOMAIN T : T[k] = s[i]
  <2>1. a + z \in 1..C /\ T[z] = s[f[a + z].at] /\ f[a + z].at \in DOMAIN s
    BY <1>c, <1>10, <1>11, <1>12, <1>14
  <2>2. f[a + z].at = 1
    BY <1>14, <2>1 DEF SummaryFirst
  <2>3. a = 0
    <3>1. CASE a + z # 1
      <4>1. 1 \in 1..C /\ 1 < a + z
        BY <1>n, <2>1, <3>1
      <4>2. f[1].at < f[a + z].at /\ f[1].at \in DOMAIN s
        BY <1>8, <1>10, <2>1, <4>1
      <4> QED BY <1>1, <2>2, <4>2
    <3> QED BY <1>n, <1>9, <1>12, <1>14, <3>1
  <2>4. PICK k \in 1..C : f[k] = [at |-> i, m |-> s[i]]
    BY <1>6, <1>8, <1>14
  <2>5. kept[k] = s[i]
    BY <1>10, <2>4
  <2>6. k \in 1..(C - a) /\ a + k = k
    BY <1>n, <2>3, <2>4
  <2> QED BY <1>11, <1>12, <2>5, <2>6
<1> QED BY <1>11, <1>13, <1>14 DEF T

-----------------------------------------------------------------------------
(* The compaction.                                                          *)

(* What Min chooses.                                                        *)
LEMMA SmallestOf ==
    ASSUME NEW T \in SUBSET Nat, T # {}
    PROVE  Min(T) \in T /\ \A y \in T : Min(T) <= y
<1>1. PICK x \in T : \A y \in T : x <= y
  BY NatMin
<1> QED BY <1>1 DEF Min

(* compaction_split_at never reaches the latest user message.               *)
LEMMA SplitIs ==
    ASSUME NEW s \in Seq(Messages)
    PROVE  /\ CompactionSplitAt(s) \in 0..Len(s)
           /\ \A i \in DOMAIN s : IsUser(s[i]) =>
                \E u \in CompactionSplitAt(s) + 1..Len(s) :
                    IsUser(s[u]) /\ \A j \in DOMAIN s : IsUser(s[j]) => j <= u
<1> DEFINE desired == Len(s) - Min({KeepRecent, Len(s)})
           users == {i \in DOMAIN s : IsUser(s[i])}
           p == IF users = {} THEN desired ELSE Min({desired, Max(users) - 1})
           stops == {r \in p..Len(s) : r = Len(s) \/ ~IsTool(s[r + 1]) \/ Parents(s, r) # {}}
           q == Min(stops)
           split == IF q < Len(s) /\ IsTool(s[q + 1]) THEN Max(Parents(s, q)) - 1 ELSE q
<1>1. Len(s) \in Nat /\ DOMAIN s = 1..Len(s)
  BY LenProperties
<1>0. Len(s) \in Nat
  BY <1>1
<1>2. KeepRecent \in Nat
  BY SessionLogAssumption
<1>3. desired \in 0..Len(s)
  <2>1. Min({KeepRecent, Len(s)}) \in Nat /\ Min({KeepRecent, Len(s)}) <= Len(s)
    BY <1>1, <1>2, SmallerOf
  <2> QED BY <1>1, <2>1
<1>4. users # {} => /\ Max(users) \in users /\ Max(users) \in 1..Len(s)
                    /\ \A j \in users : j <= Max(users)
  <2>1. users \in SUBSET (0..Len(s)) /\ users \in SUBSET (1..Len(s))
    BY <1>1
  <2> HIDE DEF users
  <2> QED BY <1>1, <2>1, LargestOf
<1>5. users # {} => IsUser(s[Max(users)])
  BY <1>4
<1> HIDE DEF desired, users
<1>6. p \in 0..Len(s) /\ (users # {} => p <= Max(users) - 1)
  <2>1. CASE users = {}
    BY <1>3, <2>1
  <2>2. CASE users # {}
    <3>1. desired \in Nat /\ Max(users) - 1 \in Nat
      BY <1>1, <1>3, <1>4, <2>2
    <3>2. Min({desired, Max(users) - 1}) \in Nat /\ Min({desired, Max(users) - 1}) <= desired
          /\ Min({desired, Max(users) - 1}) <= Max(users) - 1
      BY <3>1, SmallerOf
    <3> QED BY <1>1, <1>3, <2>2, <3>1, <3>2
  <2> QED BY <2>1, <2>2
<1> HIDE DEF p
<1>7. Len(s) \in stops /\ stops \in SUBSET Nat
  BY <1>1, <1>6
<1>8. q \in stops /\ \A y \in stops : q <= y
  <2> HIDE DEF stops
  <2> QED BY <1>7, SmallestOf
<1>9. q \in 0..Len(s) /\ (q = Len(s) \/ ~IsTool(s[q + 1]) \/ Parents(s, q) # {})
  <2> HIDE DEF q
  <2>1. q \in p..Len(s) /\ (q = Len(s) \/ ~IsTool(s[q + 1]) \/ Parents(s, q) # {})
    BY <1>8
  <2>2. p \in Nat
    BY <1>1, <1>6
  <2>3. q \in 0..Len(s)
    BY <1>0, <2>1, <2>2
  <2> QED BY <2>1, <2>3
<1>10. users # {} => q <= Max(users) - 1
  <2> SUFFICES ASSUME users # {} PROVE q <= Max(users) - 1
    OBVIOUS
  <2> DEFINE u == Max(users) - 1
  <2>1. u \in p..Len(s) /\ u + 1 = Max(users)
    BY <1>1, <1>4, <1>6
  <2>2. ~IsTool(s[Max(users)])
    BY <1>5 DEF IsTool, IsUser
  <2>3. u \in stops
    <3>1. ~IsTool(s[u + 1])
      BY <2>1, <2>2
    <3> HIDE DEF u
    <3> QED BY <2>1, <3>1
  <2> HIDE DEF stops, q
  <2> QED BY <1>8, <2>3
<1> HIDE DEF q, stops
<1>11. split \in 0..Len(s) /\ split <= q
  <2>1. CASE q < Len(s) /\ IsTool(s[q + 1])
    <3>1. Parents(s, q) \in SUBSET (0..q) /\ Parents(s, q) \in SUBSET (1..q) /\ Parents(s, q) # {}
      BY <1>9, <2>1 DEF Parents
    <3>2. q \in Nat
      BY <1>0, <1>9
    <3>3. Max(Parents(s, q)) \in Parents(s, q)
      BY <3>1, <3>2, LargestOf
    <3>4. Max(Parents(s, q)) \in 1..q
      BY <3>1, <3>3
    <3>5. split = Max(Parents(s, q)) - 1
      BY <2>1
    <3> HIDE DEF split
    <3> QED BY <1>0, <1>9, <3>2, <3>4, <3>5
  <2>2. CASE ~(q < Len(s) /\ IsTool(s[q + 1]))
    BY <1>9, <2>2
  <2> QED BY <2>1, <2>2
<1>12. CompactionSplitAt(s) = split
  BY DEF CompactionSplitAt, ToolSafeSplitAt, desired, users, p, stops, q
<1> HIDE DEF split
<1>13. ASSUME NEW i \in DOMAIN s, IsUser(s[i])
       PROVE  \E u \in split + 1..Len(s) : IsUser(s[u]) /\ \A j \in DOMAIN s : IsUser(s[j]) => j <= u
  <2>1. users # {}
    BY <1>13 DEF users
  <2>2. Max(users) \in split + 1..Len(s)
    <3>1. Max(users) \in 1..Len(s) /\ q <= Max(users) - 1 /\ q \in 0..Len(s)
      BY <1>4, <1>9, <1>10, <2>1
    <3> QED BY <1>1, <1>11, <3>1
  <2>3. \A j \in DOMAIN s : IsUser(s[j]) => j <= Max(users)
    BY <1>4, <2>1 DEF users
  <2> QED BY <1>5, <2>1, <2>2, <2>3
<1> QED BY <1>11, <1>12, <1>13

(* A compacted conversation: a summary of the beginning, and the rest but   *)
(* for a trailing assistant message.                                        *)
LEMMA CompactedIs ==
    ASSUME NEW s \in Seq(Messages)
    PROVE  /\ Compacted(s) \in Seq(Messages)
           /\ \/ Compacted(s) = s
              \/ \E a \in 1..Len(s), n \in 0..Len(s) :
                    /\ a = CompactionSplitAt(s)
                    /\ a + n = Len(s) \/ (a + n = Len(s) - 1 /\ IsAssistant(s[Len(s)]))
                    /\ DOMAIN Compacted(s) = 1..n + 1
                    /\ Compacted(s)[1] = Summary(Covers(SubSeq(s, 1, a)))
                    /\ \A k \in 2..n + 1 : Compacted(s)[k] = s[a + k - 1]
<1> DEFINE a == CompactionSplitAt(s)
           sum == Summary(Covers(SubSeq(s, 1, a)))
           tail == SubSeq(s, a + 1, Len(s))
           kept == <<sum>> \o tail
           L == Len(s) - a
<1>1. Len(s) \in Nat /\ DOMAIN s = 1..Len(s) /\ \A i \in 1..Len(s) : s[i] \in Messages
  BY LenProperties
<1>0. Len(s) \in Nat
  BY <1>1
<1>2. a \in 0..Len(s)
  BY SplitIs
<1> HIDE DEF a
<1>3. CASE a = 0
  BY <1>3 DEF Compacted, a
<1>4. CASE a # 0
  <2>1. a \in 1..Len(s) /\ L \in 0..Len(s)
    BY <1>1, <1>2, <1>4
  <2>2. SubSeq(s, 1, a) \in Seq(Messages)
    <3>1. \A i \in 1..a : s[i] \in Messages
      BY <1>1, <2>1
    <3> QED BY <2>1, <3>1, SubSeqProperties
  <2>3. Covers(SubSeq(s, 1, a)) \subseteq Ids
    BY <2>2, LenProperties, MessageTypes DEF Covers
  <2>4. sum \in Messages /\ sum.kind = "summary"
    BY <2>3 DEF Summary, Messages
  <2>5. tail \in Seq(Messages) /\ Len(tail) = L /\ \A i \in 1..L : tail[i] = s[a + i]
    <3>1. \A i \in a + 1..Len(s) : s[i] \in Messages
      BY <1>1, <2>1
    <3>2. a + 1 \in Int /\ Len(s) \in Int
      BY <1>1, <2>1
    <3>3. /\ tail \in Seq(Messages)
          /\ Len(tail) = (IF a + 1 <= Len(s) THEN Len(s) - (a + 1) + 1 ELSE 0)
          /\ \A i \in 1..(Len(s) - (a + 1) + 1) : tail[i] = s[a + 1 + i - 1]
      BY <3>1, <3>2, SubSeqProperties
    <3>4. Len(s) - (a + 1) + 1 = L /\ \A i \in Int : a + 1 + i - 1 = a + i
      BY <1>1, <2>1
    <3> HIDE DEF tail, L
    <3>5. Len(tail) = L
      <4>1. a + 1 <= Len(s) \/ L = 0
        BY <1>0, <2>1 DEF L
      <4>2. a + 1 <= Len(s) => L # 0
        BY <1>0, <2>1 DEF L
      <4>3. ~(a + 1 <= Len(s)) => L = 0
        BY <1>0, <2>1 DEF L
      <4> QED BY <3>3, <3>4, <4>3
    <3>6. ASSUME NEW i \in 1..L PROVE tail[i] = s[a + i]
      <4>1. i \in 1..(Len(s) - (a + 1) + 1)
        BY <3>4
      <4>2. a + 1 + i - 1 = a + i
        BY <3>4
      <4>3. tail[i] = s[a + 1 + i - 1]
        BY <3>3, <4>1
      <4> QED BY <4>2, <4>3
    <3> QED BY <3>3, <3>5, <3>6
  <2> HIDE DEF tail, sum
  <2>6. /\ kept \in Seq(Messages) /\ Len(kept) = L + 1 /\ kept[1] = sum
        /\ \A k \in 2..L + 1 : kept[k] = s[a + k - 1]
    <3>1. <<sum>> \in Seq(Messages) /\ Len(<<sum>>) = 1 /\ <<sum>>[1] = sum
      BY <2>4
    <3>2. /\ kept \in Seq(Messages) /\ Len(kept) = 1 + L
          /\ \A i \in 1..1 + L : kept[i] = IF i <= 1 THEN <<sum>>[i] ELSE tail[i - 1]
      BY <2>5, <3>1, ConcatProperties
    <3> HIDE DEF kept
    <3>3. kept[1] = sum
      BY <2>1, <3>1, <3>2
    <3>4. ASSUME NEW k \in 2..L + 1 PROVE kept[k] = s[a + k - 1]
      <4>1. k \in 1..1 + L /\ ~(k <= 1) /\ k - 1 \in 1..L /\ a + (k - 1) = a + k - 1
        BY <2>1
      <4> QED BY <2>5, <3>2, <4>1
    <3> QED BY <2>1, <3>2, <3>3, <3>4
  <2> HIDE DEF kept
  <2>7. DOMAIN kept = 1..L + 1
    BY <2>6, LenProperties
  <2>8. CASE ~IsAssistant(Last(kept))
    <3>1. Compacted(s) = kept
      BY <1>4, <2>8 DEF Compacted, a, kept, tail, sum
    <3>2. a + L = Len(s)
      BY <1>1, <2>1
    <3> QED BY <2>1, <2>6, <2>7, <3>1, <3>2 DEF a, sum
  <2>9. CASE IsAssistant(Last(kept))
    <3>1. Compacted(s) = Front(kept)
      BY <1>4, <2>9 DEF Compacted, a, kept, tail, sum
    <3>2. L # 0
      <4>1. ASSUME L = 0 PROVE FALSE
        <5>1. Last(kept) = sum
          BY <2>6, <4>1 DEF Last
        <5> QED BY <2>4, <2>9, <5>1 DEF IsAssistant
      <4> QED BY <4>1
    <3> DEFINE n == L - 1
    <3>3. n \in 0..Len(s) /\ a + n = Len(s) - 1 /\ L + 1 \in 2..L + 1 /\ a + (L + 1) - 1 = Len(s)
          /\ n + 1 = L /\ n + 1 \in Nat
      <4>1. a \in Nat /\ L \in Nat /\ L >= 1 /\ Len(s) = a + L /\ n = L - 1
        BY <1>0, <2>1, <3>2
      <4> HIDE DEF L, n
      <4> QED BY <4>1
    <3>4. IsAssistant(s[Len(s)])
      BY <2>6, <2>9, <3>3 DEF Last
    <3>5. Front(kept) = SubSeq(kept, 1, n + 1)
      BY <2>1, <2>6 DEF Front
    <3>6. \A i \in 1..n + 1 : kept[i] \in Messages
      BY <2>1, <2>6, <2>7, <3>3, LenProperties
    <3>7. /\ Front(kept) \in Seq(Messages) /\ Len(Front(kept)) = n + 1
          /\ \A i \in 1..n + 1 : Front(kept)[i] = kept[i]
      <4> HIDE DEF n
      <4>1. /\ Front(kept) \in Seq(Messages)
            /\ Len(Front(kept)) = (IF 1 <= n + 1 THEN n + 1 - 1 + 1 ELSE 0)
            /\ \A i \in 1..(n + 1 - 1 + 1) : Front(kept)[i] = kept[1 + i - 1]
        BY <3>3, <3>5, <3>6, SubSeqProperties
      <4>2. n + 1 - 1 + 1 = n + 1 /\ \A i \in Int : 1 + i - 1 = i
        BY <3>3
      <4>3. 1 <= n + 1
        BY <3>3
      <4> QED BY <3>3, <4>1, <4>2, <4>3
    <3>8. DOMAIN Front(kept) = 1..n + 1
      BY <3>7, LenProperties
    <3>9. \A k \in 2..n + 1 : k \in 2..L + 1 /\ k \in 1..n + 1
      BY <2>1, <3>3
    <3>10. \A k \in 2..n + 1 : Front(kept)[k] = s[a + k - 1]
      BY <2>6, <3>7, <3>9
    <3>11. Front(kept)[1] = sum
      BY <2>6, <3>3, <3>7
    <3> HIDE DEF n
    <3> QED BY <2>1, <3>1, <3>3, <3>4, <3>7, <3>8, <3>10, <3>11 DEF a, sum
  <2> QED BY <2>8, <2>9
<1> QED BY <1>3, <1>4

(* It tells nothing new, and all there was after a message of the user.     *)
LEMMA CompactedCovers ==
    ASSUME NEW s \in Seq(Messages)
    PROVE  /\ Covers(Compacted(s)) \subseteq Covers(s)
           /\ s # <<>> /\ s[Len(s)].kind = "user" => Covers(Compacted(s)) = Covers(s)
<1>1. Len(s) \in Nat /\ DOMAIN s = 1..Len(s) /\ \A i \in 1..Len(s) : s[i] \in Messages
  BY LenProperties
<1>0. Len(s) \in Nat
  BY <1>1
<1>2. CASE Compacted(s) = s
  BY <1>2
<1>3. ASSUME NEW a \in 1..Len(s), NEW n \in 0..Len(s),
             a + n = Len(s) \/ (a + n = Len(s) - 1 /\ IsAssistant(s[Len(s)])),
             DOMAIN Compacted(s) = 1..n + 1,
             Compacted(s)[1] = Summary(Covers(SubSeq(s, 1, a))),
             \A k \in 2..n + 1 : Compacted(s)[k] = s[a + k - 1]
      PROVE  /\ Covers(Compacted(s)) \subseteq Covers(s)
             /\ s # <<>> /\ s[Len(s)].kind = "user" => Covers(Compacted(s)) = Covers(s)
  <2> DEFINE h == SubSeq(s, 1, a)
  <2>1. h \in Seq(Messages) /\ Len(h) = a /\ \A i \in 1..a : h[i] = s[i]
    <3>1. \A i \in 1..a : s[i] \in Messages
      BY <1>0, <1>1
    <3>2. /\ h \in Seq(Messages) /\ Len(h) = (IF 1 <= a THEN a - 1 + 1 ELSE 0)
          /\ \A i \in 1..(a - 1 + 1) : h[i] = s[1 + i - 1]
      BY <3>1, SubSeqProperties
    <3>3. 1 <= a /\ a - 1 + 1 = a /\ \A i \in Int : 1 + i - 1 = i
      BY <1>0
    <3> HIDE DEF h
    <3> QED BY <3>2, <3>3
  <2>2. DOMAIN h = 1..a
    BY <2>1, LenProperties
  <2>3. Told(Compacted(s)[1]) = Covers(h)
    BY <1>3 DEF Told, Summary
  <2> HIDE DEF h
  <2>4. ASSUME NEW id \in Covers(h) PROVE id \in Covers(s)
    <3>1. PICK i \in 1..a : id \in Told(h[i])
      BY <2>2, <2>4, InCovers
    <3>2. i \in DOMAIN s /\ h[i] = s[i]
      BY <1>0, <1>1, <2>1
    <3> QED BY <3>1, <3>2, InCovers
  <2>5. ASSUME NEW id \in Covers(Compacted(s)) PROVE id \in Covers(s)
    <3>1. PICK k \in 1..n + 1 : id \in Told(Compacted(s)[k])
      BY <1>3, <2>5, InCovers
    <3>2. CASE k = 1
      BY <2>3, <2>4, <3>1, <3>2
    <3>3. CASE k # 1
      <4>1. k \in 2..n + 1 /\ a + k - 1 \in 1..Len(s)
        BY <1>0, <1>3, <3>3
      <4> QED BY <1>1, <1>3, <3>1, <4>1, InCovers
    <3> QED BY <3>2, <3>3
  <2>6. ASSUME s # <<>>, s[Len(s)].kind = "user", NEW id \in Covers(s) PROVE id \in Covers(Compacted(s))
    <3>1. a + n = Len(s)
      BY <1>3, <2>6 DEF IsAssistant
    <3>2. PICK i \in 1..Len(s) : id \in Told(s[i])
      BY <1>1, <2>6, InCovers
    <3>3. CASE i <= a
      <4>1. i \in 1..a /\ id \in Told(h[i])
        BY <1>0, <2>1, <3>2, <3>3
      <4>2. id \in Covers(h)
        BY <2>2, <4>1, InCovers
      <4>3. 1 \in DOMAIN Compacted(s)
        BY <1>0, <1>3
      <4> QED BY <2>3, <4>2, <4>3, InCovers
    <3>4. CASE i > a
      <4> DEFINE k == i - a + 1
      <4>1. k \in 2..n + 1 /\ a + k - 1 = i /\ k \in 1..n + 1
        BY <1>0, <3>1, <3>4
      <4> HIDE DEF k
      <4> QED BY <1>3, <3>2, <4>1, InCovers
    <3> QED BY <1>0, <3>3, <3>4
  <2> QED BY <2>5, <2>6
<1> QED BY <1>2, <1>3, CompactedIs

(* It keeps the order, one summary in front, and every call's output.       *)
LEMMA CompactedShaped ==
    ASSUME NEW s \in Seq(Messages), NEW r \in Seq(Ids)
    PROVE  /\ Follows(r, s) => Follows(r, Compacted(s))
           /\ SummaryFirst(s) => SummaryFirst(Compacted(s))
           /\ AllAnswered(s) => AllAnswered(Compacted(s))
<1>1. Len(s) \in Nat /\ DOMAIN s = 1..Len(s) /\ \A i \in 1..Len(s) : s[i] \in Messages
  BY LenProperties
<1>0. Len(s) \in Nat
  BY <1>1
<1> DEFINE R == Compacted(s)
<1>2. CASE R = s
  BY <1>2
<1>3. ASSUME NEW a \in 1..Len(s), NEW n \in 0..Len(s),
             a + n = Len(s) \/ (a + n = Len(s) - 1 /\ IsAssistant(s[Len(s)])),
             DOMAIN R = 1..n + 1,
             R[1] = Summary(Covers(SubSeq(s, 1, a))),
             \A k \in 2..n + 1 : R[k] = s[a + k - 1]
      PROVE  /\ Follows(r, s) => Follows(r, R)
             /\ SummaryFirst(s) => SummaryFirst(R)
             /\ AllAnswered(s) => AllAnswered(R)
  <2>0. R \in Seq(Messages)
    BY CompactedIs
  <2> HIDE DEF R
  <2>1. R[1].kind = "summary" /\ R[1] \in Messages /\ Len(R) = n + 1
    <3>1. 1 \in DOMAIN R
      BY <1>0, <1>3
    <3> QED BY <1>3, <2>0, <3>1, LenProperties DEF Summary
  <2>2. \A k \in DOMAIN R : k # 1 => k \in 2..n + 1 /\ a + k - 1 \in 1..Len(s) /\ R[k] = s[a + k - 1]
    <3> SUFFICES ASSUME NEW k \in 1..n + 1, k # 1
                 PROVE  k \in 2..n + 1 /\ a + k - 1 \in 1..Len(s) /\ R[k] = s[a + k - 1]
      BY <1>3
    <3>1. k \in 2..n + 1 /\ a + k - 1 \in 1..Len(s)
      BY <1>0, <1>3
    <3> QED BY <1>3, <3>1
  <2>3. Follows(r, s) => Follows(r, R)
    <3> SUFFICES ASSUME Follows(r, s), NEW i \in DOMAIN R, NEW j \in DOMAIN R, i < j,
                        Id(R[i]) \in Range(r), Id(R[j]) \in Range(r)
                 PROVE  \E k, l \in DOMAIN r : r[k] = Id(R[i]) /\ r[l] = Id(R[j]) /\ k < l
      BY DEF Follows
    <3>1. Range(r) \subseteq Ids
      BY LenProperties DEF Range
    <3>2. i # 1 /\ j # 1
      <4>1. i # 1
        BY <2>1, <3>1, RealId
      <4> QED BY <1>0, <1>3, <4>1
    <3>3. a + i - 1 < a + j - 1
      BY <1>0, <1>3
    <3> QED BY <1>1, <2>2, <3>2, <3>3 DEF Follows
  <2>4. SummaryFirst(s) => SummaryFirst(R)
    <3> SUFFICES ASSUME SummaryFirst(s), NEW k \in DOMAIN R, R[k].kind = "summary", k # 1 PROVE FALSE
      BY DEF SummaryFirst
    <3>1. a + k - 1 = 1
      BY <1>1, <2>2 DEF SummaryFirst
    <3> QED BY <1>0, <2>2, <3>1
  <2>5. AllAnswered(s) => AllAnswered(R)
    <3> SUFFICES ASSUME AllAnswered(s), NEW k \in DOMAIN R, R[k].kind = "call" PROVE AnsweredAt(R, k)
      BY DEF AllAnswered
    <3>1. k # 1 /\ k \in 2..n + 1 /\ a + k - 1 \in 1..Len(s) /\ R[k] = s[a + k - 1]
      BY <2>1, <2>2
    <3>2. PICK q \in a + k - 1 + 1..Len(s) : Answers(s[q], R[k]) /\ RunUpTo(s, a + k - 1, q)
      <4>1. AnsweredAt(s, a + k - 1)
        BY <1>1, <3>1 DEF AllAnswered
      <4> QED BY <3>1, <4>1 DEF AnsweredAt
    <3> DEFINE z == q - a + 1
    <3>3. q # Len(s) \/ a + n = Len(s)
      <4>1. ~IsAssistant(s[q])
        BY <3>2 DEF Answers, IsTool, IsAssistant
      <4> QED BY <1>3, <4>1
    <3>4. z \in k + 1..n + 1 /\ a + z - 1 = q
      BY <1>0, <1>3, <3>2, <3>3
    <3>9. k \in Nat /\ k >= 2 /\ n \in Nat
      BY <1>0, <3>1
    <3>5. z \in DOMAIN R /\ z # 1
      <4>1. z \in 1..n + 1 /\ z # 1
        BY <3>4, <3>9
      <4> QED BY <1>3, <4>1
    <3> HIDE DEF z
    <3>6. R[z] = s[q]
      BY <2>2, <3>4, <3>5
    <3>8. q \in Nat /\ k \in Nat /\ z \in Nat /\ a \in Nat /\ z <= n + 1
      <4>1. a \in Nat
        BY <1>0
      <4>2. z \in Nat /\ z <= n + 1
        BY <3>4, <3>9
      <4>3. q \in Nat
        BY <3>9, <4>1, <3>2
      <4> QED BY <3>9, <4>1, <4>2, <4>3
    <3>7. ASSUME NEW l \in k + 1..z PROVE IsTool(R[l])
      <4>0. l \in Nat /\ k + 1 <= l /\ l <= z /\ a + z - 1 = q /\ k >= 2
        BY <3>1, <3>4, <3>8
      <4>1. l \in DOMAIN R /\ l # 1 /\ a + l - 1 \in a + k - 1 + 1..q
        <5>1. l \in 1..n + 1 /\ l # 1
          BY <3>8, <4>0
        <5>2. a + l - 1 \in a + k - 1 + 1..q
          BY <3>8, <4>0
        <5> QED BY <1>3, <5>1, <5>2
      <4> QED BY <2>2, <3>2, <4>1 DEF RunUpTo
    <3> QED BY <2>1, <3>2, <3>4, <3>6, <3>7 DEF AnsweredAt, RunUpTo
  <2> QED BY <2>3, <2>4, <2>5
<1> QED BY <1>2, <1>3, CompactedIs

(* The latest user message, and every one after a kept one, stays itself.   *)
LEMMA CompactedLatest ==
    ASSUME NEW s \in Seq(Messages), SummaryFirst(s),
           NEW i \in DOMAIN s, s[i].kind = "user"
    PROVE  \E u \in DOMAIN s, k \in DOMAIN Compacted(s) :
             i <= u /\ s[u].kind = "user" /\ Compacted(s)[k] = s[u]
<1>1. Len(s) \in Nat /\ DOMAIN s = 1..Len(s)
  BY LenProperties
<1>0. Len(s) \in Nat
  BY <1>1
<1>2. CASE Compacted(s) = s
  BY <1>0, <1>1, <1>2
<1>3. ASSUME NEW a \in 1..Len(s), NEW n \in 0..Len(s), a = CompactionSplitAt(s),
             a + n = Len(s) \/ (a + n = Len(s) - 1 /\ IsAssistant(s[Len(s)])),
             DOMAIN Compacted(s) = 1..n + 1,
             \A k \in 2..n + 1 : Compacted(s)[k] = s[a + k - 1]
      PROVE  \E u \in DOMAIN s, k \in DOMAIN Compacted(s) :
               i <= u /\ s[u].kind = "user" /\ Compacted(s)[k] = s[u]
  <2>1. PICK u \in a + 1..Len(s) : IsUser(s[u]) /\ \A j \in DOMAIN s : IsUser(s[j]) => j <= u
    BY <1>3, SplitIs DEF IsUser
  <2>2. i <= u /\ u \in DOMAIN s /\ u # 1
    <3>1. i <= u
      BY <2>1 DEF IsUser
    <3> QED BY <1>0, <1>1, <3>1
  <2>3. s[u].kind = "user"
    BY <2>1, <2>2 DEF IsUser, SummaryFirst
  <2>4. u # Len(s) \/ a + n = Len(s)
    BY <1>3, <2>3 DEF IsAssistant
  <2> DEFINE k == u - a + 1
  <2>5. k \in 2..n + 1 /\ k \in 1..n + 1 /\ a + k - 1 = u
    <3>1. a + n = Len(s) \/ (a + n = Len(s) - 1 /\ u # Len(s))
      BY <1>3, <2>4
    <3>2. u \in Int /\ a \in Int /\ n \in Int /\ Len(s) \in Int /\ a + 1 <= u /\ u <= Len(s)
      BY <1>0, <2>1
    <3>3. a + n = Len(s) \/ (a + n = Len(s) - 1 /\ u <= Len(s) - 1)
      BY <3>1, <3>2
    <3> QED BY <3>2, <3>3
  <2> HIDE DEF k
  <2> QED BY <1>3, <2>2, <2>3, <2>5
<1> QED BY <1>2, <1>3, CompactedIs

-----------------------------------------------------------------------------
(* A message at the end.                                                    *)

(* A sequence with one more.                                                *)
LEMMA AppendIs ==
    ASSUME NEW S, NEW s \in Seq(S), NEW m \in S
    PROVE  /\ Append(s, m) \in Seq(S) /\ Len(s) \in Nat
           /\ DOMAIN s = 1..Len(s) /\ DOMAIN Append(s, m) = 1..Len(s) + 1
           /\ Append(s, m)[Len(s) + 1] = m /\ Len(Append(s, m)) = Len(s) + 1
           /\ \A i \in 1..Len(s) : i \in 1..Len(s) + 1 /\ Append(s, m)[i] = s[i]
           /\ \A i \in 1..Len(s) + 1 : i \in 1..Len(s) \/ i = Len(s) + 1
  BY LenProperties

(* Its members,                                                             *)
LEMMA AppendRange ==
    ASSUME NEW S, NEW s \in Seq(S), NEW m \in S
    PROVE  Range(Append(s, m)) = Range(s) \cup {m}
<1>1. /\ DOMAIN s = 1..Len(s) /\ DOMAIN Append(s, m) = 1..Len(s) + 1
      /\ Append(s, m)[Len(s) + 1] = m /\ Len(s) + 1 \in 1..Len(s) + 1
      /\ \A i \in 1..Len(s) : i \in 1..Len(s) + 1 /\ Append(s, m)[i] = s[i]
      /\ \A i \in 1..Len(s) + 1 : i \in 1..Len(s) \/ i = Len(s) + 1
  BY AppendIs
<1>2. ASSUME NEW x PROVE x \in Range(Append(s, m)) <=> x \in Range(s) \cup {m}
  BY <1>1 DEF Range
<1> QED BY <1>2

(* what it tells,                                                           *)
LEMMA AppendCovers ==
    ASSUME NEW s \in Seq(Messages), NEW m \in Messages
    PROVE  Covers(Append(s, m)) = Covers(s) \cup Told(m)
<1>1. /\ DOMAIN s = 1..Len(s) /\ DOMAIN Append(s, m) = 1..Len(s) + 1
      /\ Append(s, m)[Len(s) + 1] = m /\ Len(s) + 1 \in 1..Len(s) + 1
      /\ \A i \in 1..Len(s) : i \in 1..Len(s) + 1 /\ Append(s, m)[i] = s[i]
      /\ \A i \in 1..Len(s) + 1 : i \in 1..Len(s) \/ i = Len(s) + 1
  BY AppendIs
<1>2. ASSUME NEW id PROVE id \in Covers(Append(s, m)) <=> id \in Covers(s) \cup Told(m)
  BY <1>1, InCovers
<1> QED BY <1>2

(* and its summary.                                                         *)
LEMMA AppendSummaryFirst ==
    ASSUME NEW s \in Seq(Messages), NEW m \in Messages, SummaryFirst(s), m.kind # "summary"
    PROVE  SummaryFirst(Append(s, m))
  BY AppendIs DEF SummaryFirst

(* A real message tells its own id.                                         *)
LEMMA CoveredId ==
    ASSUME NEW s \in Seq(Messages), NEW i \in DOMAIN s, Id(s[i]) \in Ids
    PROVE  Id(s[i]) \in Covers(s)
<1>1. s[i] \in Messages
  BY LenProperties
<1> QED BY <1>1, RealId, InCovers

(* A message added with its row keeps the order of the rows,                *)
LEMMA AppendFollows ==
    ASSUME NEW r \in Seq(Ids), NEW s \in Seq(Messages), NEW m \in Messages, Id(m) \in Ids,
           Follows(r, s), Covers(s) \subseteq Range(r)
    PROVE  Follows(Append(r, Id(m)), s) /\ Follows(Append(r, Id(m)), Append(s, m))
<1> DEFINE q == Append(r, Id(m))
           t == Append(s, m)
<1>1. /\ q \in Seq(Ids) /\ DOMAIN r = 1..Len(r) /\ DOMAIN q = 1..Len(r) + 1 /\ Len(r) \in Nat
      /\ q[Len(r) + 1] = Id(m) /\ \A i \in 1..Len(r) : i \in 1..Len(r) + 1 /\ q[i] = r[i]
  BY AppendIs
<1>2. /\ DOMAIN s = 1..Len(s) /\ DOMAIN t = 1..Len(s) + 1 /\ Len(s) \in Nat
      /\ t[Len(s) + 1] = m /\ \A i \in 1..Len(s) : t[i] = s[i]
      /\ \A i \in 1..Len(s) + 1 : i \in 1..Len(s) \/ i = Len(s) + 1
  BY AppendIs
<1>3. Range(q) \subseteq Ids
  BY <1>1, LenProperties DEF Range
<1> HIDE DEF q, t
<1>4. ASSUME NEW i \in DOMAIN s, Id(s[i]) \in Range(q) PROVE Id(s[i]) \in Range(r)
  BY <1>3, <1>4, CoveredId
<1>5. ASSUME NEW i \in DOMAIN s, NEW j \in DOMAIN s, i < j, Id(s[i]) \in Range(q), Id(s[j]) \in Range(q)
      PROVE  \E k, l \in DOMAIN q : q[k] = Id(s[i]) /\ q[l] = Id(s[j]) /\ k < l
  <2>1. PICK k, l \in DOMAIN r : r[k] = Id(s[i]) /\ r[l] = Id(s[j]) /\ k < l
    BY <1>4, <1>5 DEF Follows
  <2> QED BY <1>1, <2>1
<1>6. ASSUME NEW i \in DOMAIN s, Id(s[i]) \in Range(q)
      PROVE  \E k, l \in DOMAIN q : q[k] = Id(s[i]) /\ q[l] = Id(m) /\ k < l
  <2>1. PICK k \in DOMAIN r : r[k] = Id(s[i])
    BY <1>4, <1>6 DEF Range
  <2>2. k < Len(r) + 1 /\ Len(r) + 1 \in 1..Len(r) + 1
    <3>1. k \in 1..Len(r) /\ Len(r) \in Nat
      BY <1>1, <2>1
    <3> QED BY <3>1
  <2> QED BY <1>1, <2>1, <2>2
<1>7. Follows(q, s)
  BY <1>5 DEF Follows
<1>8. Follows(q, t)
  <2> SUFFICES ASSUME NEW i \in DOMAIN t, NEW j \in DOMAIN t, i < j,
                      Id(t[i]) \in Range(q), Id(t[j]) \in Range(q)
               PROVE  \E k, l \in DOMAIN q : q[k] = Id(t[i]) /\ q[l] = Id(t[j]) /\ k < l
    BY DEF Follows
  <2>0. Len(s) \in Nat /\ i \in 1..Len(s) + 1 /\ j \in 1..Len(s) + 1
    BY <1>2
  <2>1. i \in 1..Len(s)
    BY <2>0
  <2>2. CASE j \in 1..Len(s)
    BY <1>2, <1>5, <2>1, <2>2
  <2>3. CASE j = Len(s) + 1
    BY <1>2, <1>6, <2>1, <2>3
  <2> QED BY <1>2, <2>0, <2>2, <2>3
<1> QED BY <1>7, <1>8 DEF q, t

(* and so does a row alone.                                                 *)
LEMMA FollowsGrows ==
    ASSUME NEW r \in Seq(Ids), NEW s \in Seq(Messages), NEW id \in Ids,
           Follows(r, s), Covers(s) \subseteq Range(r)
    PROVE  Follows(Append(r, id), s)
<1>1. /\ Append(r, id) \in Seq(Ids) /\ DOMAIN r = 1..Len(r) /\ DOMAIN Append(r, id) = 1..Len(r) + 1
      /\ \A i \in 1..Len(r) : i \in 1..Len(r) + 1 /\ Append(r, id)[i] = r[i]
  BY AppendIs
<1>2. Range(Append(r, id)) \subseteq Ids
  BY <1>1, LenProperties DEF Range
<1>3. ASSUME NEW i \in DOMAIN s, Id(s[i]) \in Range(Append(r, id)) PROVE Id(s[i]) \in Range(r)
  BY <1>2, <1>3, CoveredId
<1>4. ASSUME NEW i \in DOMAIN s, NEW j \in DOMAIN s, i < j,
             Id(s[i]) \in Range(Append(r, id)), Id(s[j]) \in Range(Append(r, id))
      PROVE  \E k, l \in DOMAIN Append(r, id) :
               Append(r, id)[k] = Id(s[i]) /\ Append(r, id)[l] = Id(s[j]) /\ k < l
  <2>1. PICK k, l \in DOMAIN r : r[k] = Id(s[i]) /\ r[l] = Id(s[j]) /\ k < l
    BY <1>3, <1>4 DEF Follows
  <2> QED BY <1>1, <2>1
<1> QED BY <1>4 DEF Follows

(* A row that is not asked for changes nothing,                             *)
LEMMA LatestGrows ==
    ASSUME NEW r \in Seq(Ids), NEW s, NEW id \in Ids, NEW ids, id \notin ids, HasLatest(r, s, ids)
    PROVE  HasLatest(Append(r, id), s, ids)
<1>1. /\ DOMAIN r = 1..Len(r) /\ DOMAIN Append(r, id) = 1..Len(r) + 1
      /\ Append(r, id)[Len(r) + 1] = id
      /\ \A i \in 1..Len(r) : i \in 1..Len(r) + 1 /\ Append(r, id)[i] = r[i]
      /\ \A i \in 1..Len(r) + 1 : i \in 1..Len(r) \/ i = Len(r) + 1
  BY AppendIs
<1> QED BY <1>1 DEF HasLatest

(* a row of the user with its message is the latest itself,                 *)
LEMMA LatestLast ==
    ASSUME NEW r \in Seq(Ids), NEW s, NEW m, Id(m) \in Ids, NEW i \in DOMAIN s, s[i] = m,
           m.kind = "user", NEW ids
    PROVE  HasLatest(Append(r, Id(m)), s, ids)
<1>1. DOMAIN Append(r, Id(m)) = 1..Len(r) + 1 /\ Append(r, Id(m))[Len(r) + 1] = Id(m) /\ Len(r) \in Nat
  BY AppendIs
<1>2. \A j \in 1..Len(r) + 1 : j <= Len(r) + 1
  BY <1>1
<1>3. Len(r) + 1 \in 1..Len(r) + 1
  BY <1>1
<1> QED BY <1>1, <1>2, <1>3 DEF HasLatest

(* and fewer rows are asked for less.                                       *)
LEMMA LatestSome ==
    ASSUME NEW r, NEW s, NEW ids, NEW few \in SUBSET ids, HasLatest(r, s, ids)
    PROVE  HasLatest(r, s, few)
  BY DEF HasLatest

(* Compaction keeps the latest message of the user, or a later one.         *)
LEMMA LatestCompacted ==
    ASSUME NEW r \in Seq(Ids), IsInjective(r), NEW s \in Seq(Messages), SummaryFirst(s),
           Follows(r, s), Covers(s) \subseteq Range(r), NEW ids, HasLatest(r, s, ids)
    PROVE  HasLatest(r, Compacted(s), ids)
<1> SUFFICES ASSUME ids # {}
             PROVE  \E k \in DOMAIN Compacted(s) :
                      /\ Compacted(s)[k].kind = "user"
                      /\ \A j \in DOMAIN r : r[j] \in ids =>
                           \E l \in DOMAIN r : r[l] = Id(Compacted(s)[k]) /\ j <= l
  BY DEF HasLatest
<1>1. PICK i \in DOMAIN s :
        /\ s[i].kind = "user"
        /\ \A j \in DOMAIN r : r[j] \in ids => \E l \in DOMAIN r : r[l] = Id(s[i]) /\ j <= l
  BY DEF HasLatest
<1>2. PICK u \in DOMAIN s, k \in DOMAIN Compacted(s) :
        i <= u /\ s[u].kind = "user" /\ Compacted(s)[k] = s[u]
  BY <1>1, CompactedLatest
<1>3. DOMAIN s = 1..Len(s) /\ Len(s) \in Nat /\ DOMAIN r = 1..Len(r) /\ Len(r) \in Nat
      /\ \A x \in DOMAIN s : s[x] \in Messages
  BY LenProperties
<1>4. CASE i = u
  BY <1>1, <1>2, <1>4
<1>5. CASE i < u
  <2>0. \A x \in DOMAIN s : s[x].kind = "user" => Id(s[x]) \in Covers(s)
    BY InCovers DEF Told
  <2>1. Id(s[i]) \in Range(r) /\ Id(s[u]) \in Range(r)
    BY <1>1, <1>2, <2>0
  <2>2. PICK a, b \in DOMAIN r : r[a] = Id(s[i]) /\ r[b] = Id(s[u]) /\ a < b
    BY <1>5, <2>1 DEF Follows
  <2>3. ASSUME NEW j \in DOMAIN r, r[j] \in ids PROVE j <= b
    <3>1. PICK l \in DOMAIN r : r[l] = Id(s[i]) /\ j <= l
      BY <1>1, <2>3
    <3>2. l = a
      BY <2>2, <3>1 DEF IsInjective
    <3>3. j \in Nat /\ a \in Nat /\ b \in Nat
      BY <1>3
    <3> QED BY <2>2, <3>1, <3>2, <3>3
  <2> QED BY <1>2, <2>2, <2>3
<1> QED BY <1>2, <1>3, <1>4, <1>5

(* So does a truncation that takes nothing out.                             *)
LEMMA LatestTruncated ==
    ASSUME NEW r, NEW s \in Seq(Messages), SummaryFirst(s), NEW ids, HasLatest(r, s, ids),
           Covers(s) \subseteq Covers(TruncateMessages(s))
    PROVE  HasLatest(r, TruncateMessages(s), ids)
<1> DEFINE T == TruncateMessages(s)
<1>1. ASSUME NEW i \in DOMAIN s, s[i].kind = "user"
      PROVE  \E k \in DOMAIN T : T[k].kind = "user" /\ Id(T[k]) = Id(s[i])
  <2>1. CASE \E k \in DOMAIN T : T[k].kind = "summary"
    BY <1>1, <2>1, TruncatedIs
  <2>2. CASE ~(\E k \in DOMAIN T : T[k].kind = "summary")
    <3>1. Id(s[i]) \in Covers(T)
      BY <1>1, InCovers DEF Told
    <3> HIDE DEF T
    <3>2. PICK k \in DOMAIN T : Id(s[i]) \in Told(T[k])
      BY <3>1, InCovers
    <3>3. Id(s[i]) = Id(T[k])
      BY <2>2, <3>2 DEF Told
    <3> QED BY <1>1, <3>3 DEF Id
  <2> QED BY <2>1, <2>2
<1> HIDE DEF T
<1>2. HasLatest(r, T, ids)
  BY <1>1 DEF HasLatest
<1> QED BY <1>2 DEF T

(* A call is answered by the message after it.                              *)
LEMMA AnsweredAppend ==
    ASSUME NEW s \in Seq(Messages), NEW m \in Messages, AllAnswered(s)
    PROVE  /\ m.kind # "call" => AllAnswered(Append(s, m))
           /\ m.kind = "call" =>
                \A a \in Messages : Answers(a, m) => AllAnswered(Append(Append(s, m), a))
<1>1. ASSUME NEW t \in Seq(Messages), NEW i \in DOMAIN t, AnsweredAt(t, i), NEW a \in Messages
      PROVE  AnsweredAt(Append(t, a), i) /\ Append(t, a)[i] = t[i] /\ i \in DOMAIN Append(t, a)
  <2>1. /\ DOMAIN t = 1..Len(t) /\ Len(Append(t, a)) = Len(t) + 1 /\ Len(t) \in Nat
        /\ DOMAIN Append(t, a) = 1..Len(t) + 1
        /\ \A k \in 1..Len(t) : k \in 1..Len(t) + 1 /\ Append(t, a)[k] = t[k]
    BY AppendIs
  <2>2. PICK k \in i + 1..Len(t) : Answers(t[k], t[i]) /\ RunUpTo(t, i, k)
    BY <1>1 DEF AnsweredAt
  <2>3. Len(t) \in Nat /\ i \in 1..Len(t)
    BY <2>1
  <2>4. \A l \in i + 1..k : l \in 1..Len(t)
    BY <2>2, <2>3
  <2>5. k \in i + 1..Len(t) + 1 /\ k \in 1..Len(t)
    BY <2>2, <2>3
  <2> QED BY <2>1, <2>2, <2>4, <2>5 DEF AnsweredAt, RunUpTo
<1>2. /\ DOMAIN s = 1..Len(s) /\ Len(s) \in Nat /\ DOMAIN Append(s, m) = 1..Len(s) + 1
      /\ Append(s, m)[Len(s) + 1] = m /\ Append(s, m) \in Seq(Messages)
      /\ Len(Append(s, m)) = Len(s) + 1
      /\ \A i \in 1..Len(s) : i \in 1..Len(s) + 1 /\ Append(s, m)[i] = s[i]
      /\ \A i \in 1..Len(s) + 1 : i \in 1..Len(s) \/ i = Len(s) + 1
  BY AppendIs
<1>3. ASSUME NEW i \in 1..Len(s), Append(s, m)[i].kind = "call"
      PROVE  AnsweredAt(Append(s, m), i)
  BY <1>1, <1>2, <1>3 DEF AllAnswered
<1>4. m.kind # "call" => AllAnswered(Append(s, m))
  BY <1>2, <1>3 DEF AllAnswered
<1>5. ASSUME m.kind = "call", NEW a \in Messages, Answers(a, m)
      PROVE  AllAnswered(Append(Append(s, m), a))
  <2> DEFINE t == Append(s, m)
             v == Append(t, a)
             n == Len(s) + 1
  <2>1. /\ DOMAIN v = 1..n + 1 /\ v[n + 1] = a /\ Len(v) = n + 1 /\ n \in Nat
        /\ \A k \in 1..n : k \in 1..n + 1 /\ v[k] = t[k]
        /\ \A k \in 1..n + 1 : k \in 1..n \/ k = n + 1
    BY <1>2, AppendIs
  <2>2. t \in Seq(Messages) /\ t[n] = m /\ DOMAIN t = 1..n /\ \A k \in 1..n : k \in 1..Len(s) \/ k = n
    BY <1>2
  <2>3. \A i \in 1..Len(s) : t[i].kind = "call" => AnsweredAt(t, i)
    BY <1>3
  <2> HIDE DEF t, n
  <2>4. \A i \in 1..Len(s) : t[i].kind = "call" => i \in 1..n
    BY <1>2 DEF n
  <2>5. AnsweredAt(v, n)
    <3>1. v[n] = m /\ IsTool(a)
      <4>1. n \in 1..n
        BY <1>2 DEF n
      <4> QED BY <1>5, <2>1, <2>2, <4>1 DEF Answers
    <3>2. n + 1 \in n + 1..n + 1 /\ \A l \in n + 1..n + 1 : l = n + 1
      BY <2>1
    <3> HIDE DEF v
    <3> QED BY <1>5, <2>1, <3>1, <3>2 DEF AnsweredAt, RunUpTo
  <2>6. ASSUME NEW i \in DOMAIN v, v[i].kind = "call" PROVE AnsweredAt(v, i)
    <3>1. i # n + 1
      BY <1>5, <2>1, <2>6 DEF Answers, IsTool
    <3>2. i \in 1..n /\ v[i] = t[i]
      BY <2>1, <3>1
    <3>3. CASE i \in 1..Len(s)
      BY <1>1, <2>2, <2>3, <2>6, <3>2, <3>3
    <3> QED BY <2>2, <2>5, <3>2, <3>3
  <2> HIDE DEF v
  <2>7. AllAnswered(v)
    BY <2>6 DEF AllAnswered
  <2> QED BY <2>7 DEF t, v
<1> QED BY <1>4, <1>5

-----------------------------------------------------------------------------
(* A message that is written.                                               *)

(* The message of each phase, and its id;                                   *)
LEMMA OutIs ==
    ASSUME LogTypes, NEW w \in Writers, writer[w].pc \in Writing
    PROVE  /\ Out(w) \in Messages /\ Told(Out(w)) = {Id(Out(w))} /\ Id(Out(w)) \in Ids
           /\ Out(w).kind # "summary"
           /\ writer[w].pc = "input" => Id(Out(w)) = <<w, "user", 0>> /\ Out(w).kind = "user"
           /\ writer[w].pc = "follow" => Id(Out(w)) = <<w, "user", writer[w].n>> /\ Out(w).kind = "user"
           /\ writer[w].pc \notin {"input", "follow"} =>
                Id(Out(w)) = <<w, writer[w].pc, writer[w].n>> /\ Out(w).kind = writer[w].pc
           /\ writer[w].pc = "call" =>
                /\ Message("result", w, writer[w].n) \in Messages
                /\ Answers(Message("result", w, writer[w].n), Out(w))
<1>1. writer[w].n \in 0..MaxPhases /\ 0 \in 0..MaxPhases
  BY SessionLogAssumption DEF LogTypes
<1> DEFINE Kinds == {"user", "call", "result", "final"}
<1>2. \A k \in Kinds, n \in 0..MaxPhases :
        /\ Message(k, w, n) \in Messages /\ Message(k, w, n).kind = k
        /\ Id(Message(k, w, n)) = <<w, k, n>> /\ <<w, k, n>> \in Ids
        /\ Told(Message(k, w, n)) = {Id(Message(k, w, n))}
        /\ Message(k, w, n).kind # "summary"
  BY DEF Message, Messages, Id, Ids, Told
<1>k. "user" \in Kinds /\ "result" \in Kinds
  OBVIOUS
<1>3. CASE writer[w].pc = "input"
  <2>1. Out(w) = Message("user", w, 0)
    BY <1>3 DEF Out
  <2> HIDE DEF Kinds
  <2>2. /\ Out(w) \in Messages /\ Out(w).kind = "user"
        /\ Id(Out(w)) = <<w, "user", 0>> /\ <<w, "user", 0>> \in Ids
        /\ Told(Out(w)) = {Id(Out(w))} /\ Out(w).kind # "summary"
    BY <1>1, <1>2, <1>k, <2>1
  <2> QED BY <1>3, <2>2
<1>4. CASE writer[w].pc = "follow"
  <2>1. Out(w) = Message("user", w, writer[w].n)
    BY <1>4 DEF Out
  <2> DEFINE n == writer[w].n
  <2> HIDE DEF Kinds, n
  <2>2. n \in 0..MaxPhases /\ Out(w) = Message("user", w, n)
    BY <1>1, <2>1 DEF n
  <2>3. /\ Out(w) \in Messages /\ Told(Out(w)) = {Id(Out(w))} /\ Id(Out(w)) \in Ids
        /\ Out(w).kind = "user" /\ Id(Out(w)) = <<w, "user", n>>
    BY <1>2, <1>k, <2>2
  <2> QED BY <1>4, <2>3 DEF n
<1>5. CASE writer[w].pc \in {"call", "result", "final"}
  <2>1. Out(w) = Message(writer[w].pc, w, writer[w].n)
    BY <1>5 DEF Out
  <2>2. writer[w].pc = "call" => Answers(Message("result", w, writer[w].n), Out(w))
    BY <2>1 DEF Answers, IsTool, Message
  <2> DEFINE k == writer[w].pc
             n == writer[w].n
  <2>3. k \in Kinds /\ n \in 0..MaxPhases /\ k # "input" /\ k # "follow"
    BY <1>1, <1>5
  <2>4. Out(w) = Message(k, w, n)
    BY <2>1
  <2> HIDE DEF k, n, Kinds
  <2>5. /\ Out(w) \in Messages /\ Told(Out(w)) = {Id(Out(w))} /\ Id(Out(w)) \in Ids
        /\ Out(w).kind # "summary"
        /\ Id(Out(w)) = <<w, k, n>> /\ Out(w).kind = k
    BY <1>2, <2>3, <2>4
  <2>6. Message("result", w, n) \in Messages
    BY <1>2, <1>k, <2>3
  <2> QED BY <2>2, <2>3, <2>5, <2>6 DEF k, n
<1> QED BY <1>3, <1>4, <1>5 DEF Writing

(* it is the writer's own,                                                  *)
LEMMA OutOwner ==
    ASSUME LogTypes, NEW w \in Writers, writer[w].pc \in Writing
    PROVE  Id(Out(w))[1] = w /\ Id(Out(w))[2] = Out(w).kind
<1>1. \E k, n : Id(Out(w)) = <<w, k, n>> /\ Out(w).kind = k
  BY OutIs
<1> QED BY <1>1

(* and has no row yet.                                                      *)
LEMMA OutFresh ==
    ASSUME LogTypes, NEW w \in Writers, writer[w].pc \in Writing, RowsOk(w)
    PROVE  Id(Out(w)) \notin Range(rows)
<1> SUFFICES ASSUME Id(Out(w)) \in Range(rows) PROVE FALSE
  OBVIOUS
<1>1. Id(Out(w)) \in OwnRows(w)
  BY OutOwner DEF OwnRows
<1>2. writer[w].pc \notin Ended
  BY DEF Ended, Writing
<1>3. writer[w].pc \in {"call", "result", "follow", "final"}
  BY <1>1, <1>2 DEF RowsOk, Writing
<1>4. CASE writer[w].pc = "follow"
  BY <1>1, <1>2, <1>4, OutIs DEF RowsOk
<1>5. CASE writer[w].pc \in {"call", "result", "final"}
  BY <1>1, <1>2, <1>5, OutIs DEF RowsOk
<1> QED BY <1>3, <1>4, <1>5

(* A message more does not take the latest away.                            *)
LEMMA LatestAppend ==
    ASSUME NEW r, NEW s \in Seq(Messages), NEW m \in Messages, NEW ids, HasLatest(r, s, ids)
    PROVE  HasLatest(r, Append(s, m), ids)
  BY AppendIs DEF HasLatest

(* A new row keeps the rows distinct.                                       *)
LEMMA InjectiveGrows ==
    ASSUME NEW r \in Seq(Ids), IsInjective(r), NEW id \in Ids, id \notin Range(r)
    PROVE  Append(r, id) \in Seq(Ids) /\ IsInjective(Append(r, id))
<1>1. /\ Append(r, id) \in Seq(Ids) /\ DOMAIN r = 1..Len(r) /\ DOMAIN Append(r, id) = 1..Len(r) + 1
      /\ Append(r, id)[Len(r) + 1] = id /\ \A i \in 1..Len(r) : Append(r, id)[i] = r[i]
      /\ \A i \in 1..Len(r) + 1 : i \in 1..Len(r) \/ i = Len(r) + 1
  BY AppendIs
<1> QED BY <1>1 DEF IsInjective, Range

(* What is saved with the message: all that was held, and the message.      *)
LEMMA Saved ==
    ASSUME LogTypes, NEW w \in Writers, writer[w].pc \in Writing, RowsOk(w), MemOk(w), TurnOk(w),
           NEW messages \in Candidates(w), NEW r, r = Append(rows, Id(Out(w)))
    PROVE  /\ r \in Seq(Ids) /\ IsInjective(r) /\ Range(r) = Range(rows) \cup {Id(Out(w))}
           /\ Id(Out(w)) \notin Range(rows)
           /\ messages \in Seq(Messages)
           /\ Covers(messages) = Covers(writer[w].mem) \cup {Id(Out(w))}
           /\ Follows(r, messages) /\ SummaryFirst(messages)
           /\ \A ids : Out(w).kind = "user" => HasLatest(r, messages, ids)
           /\ \A ids : Out(w).kind # "user" /\ Id(Out(w)) \notin ids
                         /\ HasLatest(rows, writer[w].mem, ids) => HasLatest(r, messages, ids)
           /\ writer[w].pc # "call" => AllAnswered(messages)
           /\ writer[w].pc = "call" => AllAnswered(Append(messages, Message("result", w, writer[w].n)))
<1> DEFINE mem == writer[w].mem
           m == Out(w)
           cand == Append(mem, m)
<1>1. mem \in Seq(Messages) /\ rows \in Seq(Ids) /\ IsInjective(rows)
  BY DEF LogTypes
<1>2. m \in Messages /\ Told(m) = {Id(m)} /\ Id(m) \in Ids /\ m.kind # "summary" /\ Id(m) \notin Range(rows)
  BY OutIs, OutFresh
<1>3. Covers(mem) \subseteq Range(rows) /\ Follows(rows, mem) /\ SummaryFirst(mem)
  BY DEF MemOk
<1>4. writer[w].pc = "result" => AllAnswered(cand)
  BY DEF TurnOk
<1>5. writer[w].pc # "result" => AllAnswered(mem)
  BY DEF TurnOk
<1>6. writer[w].pc \in {"input", "follow", "final"} => m.kind # "call"
  BY OutIs
<1>7. writer[w].pc = "call" =>
        /\ m.kind = "call" /\ Message("result", w, writer[w].n) \in Messages
        /\ Answers(Message("result", w, writer[w].n), m)
  BY OutIs
<1>8. messages = cand \/ (messages = Compacted(cand) /\ writer[w].pc = "input")
  BY DEF Candidates, Candidate, SafetyCompact
<1>9. writer[w].pc \in {"input", "follow"} <=> m.kind = "user"
  BY OutIs DEF Writing
<1> HIDE DEF m, mem
<1>10. r \in Seq(Ids) /\ IsInjective(r) /\ Range(r) = Range(rows) \cup {Id(m)}
  BY <1>1, <1>2, InjectiveGrows, AppendRange DEF m
<1>11. cand \in Seq(Messages) /\ Covers(cand) = Covers(mem) \cup {Id(m)} /\ SummaryFirst(cand)
  BY <1>1, <1>2, <1>3, AppendIs, AppendCovers, AppendSummaryFirst
<1>12. Follows(r, cand)
  BY <1>1, <1>2, <1>3, AppendFollows DEF m
<1>13. cand # <<>> /\ cand[Len(cand)] = m /\ Len(cand) \in DOMAIN cand
  BY <1>1, <1>2, AppendIs
<1>14. writer[w].pc # "call" => AllAnswered(cand)
  BY <1>1, <1>2, <1>4, <1>5, <1>6, AnsweredAppend DEF Writing
<1>15. writer[w].pc = "call" => AllAnswered(Append(cand, Message("result", w, writer[w].n)))
  BY <1>1, <1>2, <1>5, <1>7, AnsweredAppend
<1>16. \A ids : m.kind = "user" => HasLatest(r, cand, ids)
  <2> SUFFICES ASSUME NEW ids, m.kind = "user" PROVE HasLatest(r, cand, ids)
    OBVIOUS
  <2> HIDE DEF cand
  <2>1. r = Append(rows, Id(m))
    BY DEF m
  <2> QED BY <1>1, <1>2, <1>13, <2>1, LatestLast
<1>17. \A ids : Id(m) \notin ids /\ HasLatest(rows, mem, ids) => HasLatest(r, cand, ids)
  <2> SUFFICES ASSUME NEW ids, Id(m) \notin ids, HasLatest(rows, mem, ids) PROVE HasLatest(r, cand, ids)
    OBVIOUS
  <2>1. r = Append(rows, Id(m))
    BY DEF m
  <2>2. HasLatest(r, mem, ids)
    BY <1>1, <1>2, <2>1, LatestGrows
  <2> QED BY <1>1, <1>2, <2>2, LatestAppend
<1> HIDE DEF cand
<1>18. CASE messages = cand
  BY <1>2, <1>9, <1>10, <1>11, <1>12, <1>14, <1>15, <1>16, <1>17, <1>18 DEF m, mem
<1>19. CASE messages = Compacted(cand) /\ writer[w].pc = "input"
  <2>1. m.kind = "user"
    BY <1>9, <1>19
  <2>2. messages \in Seq(Messages) /\ Covers(messages) = Covers(cand)
    BY <1>11, <1>13, <1>19, <2>1, CompactedIs, CompactedCovers
  <2>3. Follows(r, messages) /\ SummaryFirst(messages) /\ AllAnswered(messages)
    BY <1>10, <1>11, <1>12, <1>14, <1>19, CompactedShaped
  <2>4. \A ids : HasLatest(r, messages, ids)
    BY <1>2, <1>3, <1>10, <1>11, <1>12, <1>16, <1>19, <2>1, LatestCompacted
  <2> QED BY <1>2, <1>10, <1>11, <1>19, <2>1, <2>2, <2>3, <2>4 DEF m, mem
<1> QED BY <1>8, <1>18, <1>19

-----------------------------------------------------------------------------
(* Steps, as those see them that do not take them.                          *)

Moves ==
    /\ revision' \in Nat /\ revision <= revision' /\ exists' \in BOOLEAN
    /\ exists => exists'
    /\ ~exists' \/ revision' = revision => rows' = rows /\ snap' = snap /\ exists' = exists /\ cleared' = cleared
    /\ dropped \subseteq dropped' /\ overwritten \subseteq overwritten' /\ revived \subseteq revived'

Writes(id) == id \in Ids /\ id \notin Range(rows) /\ rows' = Append(rows, id)

(* Who is let through after a step of another was let through before, and   *)
(* finds what was there.                                                    *)
LEMMA CallConflict ==
    ASSUME LogTypes, Moves, NEW v \in Revisions, v <= revision,
           ~(IF v = NoRevision THEN exists' ELSE v # revision')
    PROVE  ~Conflict(v) /\ rows' = rows /\ snap' = snap /\ exists' = exists /\ cleared' = cleared
<1>1. CASE v = NoRevision
  BY <1>1 DEF Moves, Conflict
<1>2. CASE v # NoRevision
  <2>1. v = revision' /\ revision \in Nat /\ v \in Nat
    BY <1>2 DEF LogTypes, Revisions
  <2>2. revision' = revision
    BY <2>1 DEF Moves
  <2> QED BY <1>2, <2>1, <2>2 DEF Moves, Conflict
<1> QED BY <1>1, <1>2

(* A step of another actor leaves a writer's part of the invariant alone,   *)
LEMMA WriterKept ==
    ASSUME LogTypes, Moves, NEW w \in Writers, RowsOk(w), MemOk(w), TurnOk(w), writer'[w] = writer[w],
           rows' = rows \/ \E id : Writes(id) /\ id[1] # w
    PROVE  RowsOk(w)' /\ MemOk(w)' /\ TurnOk(w)'
<1>1. writer[w].mem \in Seq(Messages) /\ rows \in Seq(Ids) /\ writer[w].rev \in Revisions /\ revision \in Nat
  BY DEF LogTypes
<1>2. Range(rows) \subseteq Range(rows') /\ OwnRows(w)' = OwnRows(w)
  <2>1. CASE rows' = rows
    BY <2>1 DEF OwnRows
  <2>2. CASE rows' # rows
    <3>1. PICK id : Writes(id) /\ id[1] # w
      BY <2>2
    <3>2. Range(rows') = Range(rows) \cup {id}
      BY <1>1, <3>1, AppendRange DEF Writes
    <3> QED BY <3>1, <3>2 DEF OwnRows
  <2> QED BY <2>1, <2>2
<1>3. Follows(rows', writer[w].mem)
  <2>1. CASE rows' = rows
    BY <2>1 DEF MemOk
  <2>2. CASE rows' # rows
    <3>1. PICK id : Writes(id)
      BY <2>2
    <3> QED BY <1>1, <3>1, FollowsGrows DEF Writes, MemOk
  <2> QED BY <2>1, <2>2
<1>4. Undisturbed' => Undisturbed
  BY DEF Undisturbed, Moves
<1>5. RowsOk(w)'
  <2>1. writer'[w].pc = writer[w].pc /\ writer'[w].n = writer[w].n
    OBVIOUS
  <2> QED BY <1>2, <2>1 DEF RowsOk
<1>6. ASSUME ~Conflict(writer[w].rev)'
      PROVE  /\ Covers(snap)' \subseteq Covers(writer[w].mem) \cup dropped'
             /\ cleared' \cap Covers(writer[w].mem) \subseteq revived'
             /\ Undisturbed' => HasLatest(rows', writer[w].mem, UserRows')
  <2>1. ~(IF writer[w].rev = NoRevision THEN exists' ELSE writer[w].rev # revision')
    BY <1>6 DEF Conflict
  <2>2. ~Conflict(writer[w].rev) /\ rows' = rows /\ snap' = snap /\ exists' = exists /\ cleared' = cleared
    BY <1>1, <2>1, CallConflict DEF MemOk
  <2>3. UserRows' = UserRows
    BY <2>2 DEF UserRows
  <2>4. Covers(snap)' = Covers(snap)
    BY <2>2
  <2> QED BY <1>4, <2>2, <2>3, <2>4 DEF MemOk, Moves
<1>7. writer[w].rev <= revision'
  BY <1>1 DEF MemOk, Moves, Revisions, NoRevision
<1>8. MemOk(w)'
  BY <1>2, <1>3, <1>6, <1>7 DEF MemOk
<1>9. Out(w)' = Out(w)
  BY DEF Out
<1>10. ASSUME Holding(w)', Undisturbed' PROVE HasLatest(rows', writer[w].mem, OwnRows(w)' \cap UserRows')
  <2>1. HasLatest(rows, writer[w].mem, OwnRows(w) \cap UserRows)
    BY <1>4, <1>10 DEF TurnOk, Holding
  <2>2. OwnRows(w)' \cap UserRows' = OwnRows(w) \cap UserRows
    BY <1>2 DEF OwnRows, UserRows
  <2>3. CASE rows' = rows
    BY <2>1, <2>2, <2>3
  <2>4. CASE rows' # rows
    <3>1. PICK id : Writes(id)
      BY <2>4
    <3>2. id \notin OwnRows(w) \cap UserRows
      BY <3>1 DEF Writes, OwnRows
    <3> QED BY <1>1, <2>1, <2>2, <3>1, <3>2, LatestGrows DEF Writes
  <2> QED BY <2>3, <2>4
<1>11. Holding(w)' => OwnRows(w)' \subseteq Covers(writer[w].mem) \cup dropped' \cup overwritten'
  BY <1>2 DEF TurnOk, Holding, Moves
<1>12. AllAnswered(IF writer[w].pc = "result" THEN Append(writer[w].mem, Out(w)) ELSE writer[w].mem)'
  BY <1>9 DEF TurnOk
<1>13. TurnOk(w)'
  BY <1>10, <1>11, <1>12 DEF TurnOk
<1> QED BY <1>5, <1>8, <1>13

(* and a command's.                                                         *)
LEMMA CommandKept ==
    ASSUME LogTypes, Moves, NEW c \in Commands, CommandOk(c), command'[c] = command[c],
           rows' = rows \/ \E id : Writes(id)
    PROVE  CommandOk(c)'
<1>1. command[c].mem \in Seq(Messages) /\ rows \in Seq(Ids) /\ command[c].rev \in Revisions /\ revision \in Nat
  BY DEF LogTypes
<1>2. Range(rows) \subseteq Range(rows')
  <2>1. CASE rows' # rows
    <3>1. PICK id : Writes(id)
      BY <2>1
    <3> QED BY <1>1, <3>1, AppendRange DEF Writes
  <2> QED BY <2>1
<1>3. Follows(rows', command[c].mem)
  <2>1. CASE rows' = rows
    BY <2>1 DEF CommandOk
  <2>2. CASE rows' # rows
    <3>1. PICK id : Writes(id)
      BY <2>2
    <3> QED BY <1>1, <3>1, FollowsGrows DEF Writes, CommandOk
  <2> QED BY <2>1, <2>2
<1>4. Undisturbed' => Undisturbed
  BY DEF Undisturbed, Moves
<1>5. command[c].rev <= revision'
  BY <1>1 DEF CommandOk, Moves, Revisions, NoRevision
<1>6. ASSUME command[c].kind \in {"new", "truncate"}
      PROVE  command[c].rev # NoRevision /\ exists' /\ (command[c].rev = revision' => command[c].mem = snap')
  <2>1. command[c].rev # NoRevision /\ exists /\ (command[c].rev = revision => command[c].mem = snap)
    BY <1>6 DEF CommandOk
  <2>2. command[c].rev = revision' => revision' = revision
    BY <1>1 DEF CommandOk, Moves, Revisions, NoRevision
  <2> QED BY <2>1, <2>2 DEF Moves
<1>7. ASSUME command[c].kind = "compact", Undisturbed', Range(rows') \subseteq Covers(command[c].mem)
      PROVE  HasLatest(rows', command[c].mem, UserRows')
  <2>1. rows' = rows
    <3> SUFFICES ASSUME NEW id, Writes(id) PROVE FALSE
      OBVIOUS
    <3>1. id \in Range(rows')
      BY <1>1, AppendRange DEF Writes
    <3> QED BY <1>7, <3>1 DEF Writes, CommandOk
  <2>2. UserRows' = UserRows
    BY <2>1 DEF UserRows
  <2> QED BY <1>4, <1>7, <2>1, <2>2 DEF CommandOk
<1> QED BY <1>2, <1>3, <1>5, <1>6, <1>7 DEF CommandOk

(* A store that is left alone, apart from the revision.                     *)
LEMMA StoreKept ==
    ASSUME StoreInv, rows' = rows, snap' = snap, exists' = exists, UNCHANGED logGhosts
    PROVE  StoreInv'
<1>1. UserRows' = UserRows /\ Undisturbed' = Undisturbed /\ Covers(snap)' = Covers(snap)
      /\ Range(rows)' = Range(rows)
  BY DEF UserRows, Undisturbed, logGhosts
<1> QED BY <1>1 DEF StoreInv, logGhosts, NoLost, ClearedStays

(* Who reads the store holds what it should.                                *)
LEMMA LoadedOk ==
    ASSUME LogTypes', StoreInv', NEW w \in Writers,
           writer'[w].mem = Repair(snap'), writer'[w].rev = Token'
    PROVE  /\ MemOk(w)'
           /\ AllAnswered(writer'[w].mem)
           /\ Range(rows') \subseteq Covers(writer'[w].mem) \cup dropped' \cup overwritten'
           /\ \A ids \in SUBSET UserRows' : Undisturbed' => HasLatest(rows', writer'[w].mem, ids)
<1>1. snap' \in Seq(Messages) /\ rows' \in Seq(Ids) /\ revision' \in Nat
  BY DEF LogTypes
<1>2. Covers(writer'[w].mem) = Covers(snap')
  BY <1>1, RepairCovers
<1>3. AllAnswered(writer'[w].mem)
  BY <1>1, RepairAnswered
<1>4. Follows(rows', snap') /\ SummaryFirst(snap') /\ (Undisturbed' => HasLatest(rows', snap', UserRows'))
      /\ Covers(snap') \subseteq Range(rows')
  BY DEF StoreInv
<1>5. Follows(rows', writer'[w].mem) /\ SummaryFirst(writer'[w].mem)
  BY <1>1, <1>4, RepairShaped
<1>6. Undisturbed' => HasLatest(rows', writer'[w].mem, UserRows')
  BY <1>1, <1>4, RepairLatest
<1>7. writer'[w].rev <= revision'
  BY <1>1 DEF Token, NoRevision
<1>8. cleared' \cap Covers(snap') \subseteq revived'
  BY DEF StoreInv, ClearedStays
<1>9. Range(rows') \subseteq Covers(snap') \cup dropped' \cup overwritten'
  BY DEF StoreInv, NoLost
<1>10. \A ids \in SUBSET UserRows' : Undisturbed' => HasLatest(rows', writer'[w].mem, ids)
  BY <1>6, LatestSome
<1>11. MemOk(w)'
  BY <1>2, <1>4, <1>5, <1>6, <1>7, <1>8 DEF MemOk
<1> QED BY <1>2, <1>3, <1>9, <1>10, <1>11

(* The empty conversation.                                                  *)
LEMMA EmptyCovers == Covers(<<>>) = {} /\ AllAnswered(<<>>) /\ SummaryFirst(<<>>) /\ \A r : Follows(r, <<>>)
  BY DEF Covers, AllAnswered, SummaryFirst, Follows

(* Who holds nothing too.                                                   *)
LEMMA AbsentOk ==
    ASSUME LogTypes', StoreInv', NEW w \in Writers,
           writer'[w].mem = <<>>, writer'[w].rev = NoRevision, writer'[w].pc \in Ended \cup {"idle", "resume"}
    PROVE  MemOk(w)' /\ TurnOk(w)'
<1>1. revision' \in Nat
  BY DEF LogTypes
<1>2. Covers(writer'[w].mem) = {} /\ AllAnswered(writer'[w].mem)
      /\ SummaryFirst(writer'[w].mem) /\ Follows(rows', writer'[w].mem)
  BY EmptyCovers
<1>3. ASSUME ~exists' PROVE Range(rows') = {} /\ UserRows' = {} /\ Covers(snap') = {}
  <2>1. rows' = <<>>
    BY <1>3 DEF StoreInv
  <2>2. Range(rows') = {}
    BY <2>1 DEF Range
  <2> QED BY <2>2 DEF StoreInv, UserRows
<1>4. Conflict(writer[w].rev)' = exists'
  BY DEF Conflict
<1>5. writer'[w].rev <= revision'
  BY <1>1 DEF NoRevision
<1>6. MemOk(w)'
  <2>1. ~exists' => HasLatest(rows', writer'[w].mem, UserRows')
    BY <1>3 DEF HasLatest
  <2> QED BY <1>2, <1>3, <1>4, <1>5, <2>1 DEF MemOk
<1>7. TurnOk(w)'
  BY <1>2 DEF TurnOk, Holding, Ended
<1> QED BY <1>6, <1>7

(* Both, for all the others at once.                                        *)
LEMMA OthersKept ==
    ASSUME LogInv, Moves, NEW w, \A v \in Writers \ {w} : writer'[v] = writer[v],
           rows' = rows \/ \E id : Writes(id) /\ id[1] = w
    PROVE  /\ \A v \in Writers \ {w} : RowsOk(v)' /\ MemOk(v)' /\ TurnOk(v)'
           /\ \A c \in Commands : command'[c] = command[c] => CommandOk(c)'
<1>1. LogTypes
  BY DEF LogInv
<1>2. ASSUME NEW v \in Writers \ {w} PROVE RowsOk(v)' /\ MemOk(v)' /\ TurnOk(v)'
  <2>1. RowsOk(v) /\ MemOk(v) /\ TurnOk(v)
    BY DEF LogInv
  <2>2. rows' = rows \/ \E id : Writes(id) /\ id[1] # v
    OBVIOUS
  <2> QED BY <1>1, <2>1, <2>2, WriterKept
<1>3. ASSUME NEW c \in Commands, command'[c] = command[c] PROVE CommandOk(c)'
  <2>1. CommandOk(c)
    BY DEF LogInv
  <2> QED BY <1>1, <1>3, <2>1, CommandKept
<1> QED BY <1>2, <1>3

(* A store that is left alone moves nowhere.                                *)
LEMMA StillMoves ==
    ASSUME LogTypes, UNCHANGED <<store, logGhosts>>
    PROVE  Moves
  BY DEF LogTypes, Moves, store, logGhosts

(* A writer is replaced, and the store is left alone.                       *)
LEMMA WriterReplaced ==
    ASSUME LogInv, NEW w \in Writers,
           NEW x \in [pc : WriterStates, mem : Seq(Messages), rev : Revisions,
                      retried : BOOLEAN, n : 0..MaxPhases],
           writer' = [writer EXCEPT ![w] = x], UNCHANGED <<store, logGhosts, command>>,
           RowsOk(w)', LogTypes' /\ StoreInv' => MemOk(w)' /\ TurnOk(w)'
    PROVE  LogInv'
<1>1. LogTypes
  BY DEF LogInv
<1>2. LogTypes'
  <2>1. writer' \in [Writers -> [pc : WriterStates, mem : Seq(Messages), rev : Revisions,
                                 retried : BOOLEAN, n : 0..MaxPhases]]
    BY <1>1 DEF LogTypes
  <2> QED BY <1>1, <2>1 DEF LogTypes, store
<1>3. StoreInv'
  BY StoreKept DEF LogInv, store
<1>4. Moves /\ rows' = rows /\ \A v \in Writers \ {w} : writer'[v] = writer[v]
  BY <1>1, StillMoves DEF store, LogTypes
<1>5. /\ \A v \in Writers \ {w} : RowsOk(v)' /\ MemOk(v)' /\ TurnOk(v)'
      /\ \A c \in Commands : CommandOk(c)'
  BY <1>4, OthersKept
<1> QED BY <1>2, <1>3, <1>5 DEF LogInv

(* What is loaded is a conversation and a revision.                         *)
LEMMA RepairedType ==
    ASSUME LogTypes
    PROVE  Repair(snap) \in Seq(Messages) /\ Token \in Revisions
  BY RepairLists DEF LogTypes, Token, Revisions

(* A turn or notification begins.                                           *)
LEMMA LoadStep ==
    ASSUME LogInv, NEW w \in Writers, Load(w)
    PROVE  LogInv'
<1> DEFINE x == [Loaded(w) EXCEPT !.pc = "input"]
<1>1. LogTypes /\ RowsOk(w) /\ StoreInv
  BY DEF LogInv
<1>2. writer[w] \in [pc : WriterStates, mem : Seq(Messages), rev : Revisions,
                     retried : BOOLEAN, n : 0..MaxPhases] /\ writer[w].pc = "idle"
  BY <1>1 DEF LogTypes, Load
<1>3. x \in [pc : WriterStates, mem : Seq(Messages), rev : Revisions, retried : BOOLEAN, n : 0..MaxPhases]
      /\ x.pc = "input" /\ x.mem = Repair(snap) /\ x.rev = Token
  <2>1. Repair(snap) \in Seq(Messages) /\ Token \in Revisions /\ "input" \in WriterStates
    BY <1>1, RepairedType DEF WriterStates, Writing
  <2> QED BY <1>2, <2>1 DEF Loaded
<1> HIDE DEF x
<1>4. writer' = [writer EXCEPT ![w] = x] /\ UNCHANGED <<store, logGhosts, command>>
  BY DEF Load, x
<1>5. writer'[w] = x /\ rows' = rows /\ snap' = snap /\ Token' = Token
  BY <1>1, <1>4 DEF LogTypes, store, Token
<1>6. OwnRows(w)' = {}
  <2>1. OwnRows(w) = {}
    BY <1>1, <1>2 DEF RowsOk, Ended
  <2> QED BY <1>5, <2>1 DEF OwnRows
<1>7. RowsOk(w)'
  BY <1>3, <1>5, <1>6 DEF RowsOk
<1>8. ASSUME LogTypes', StoreInv' PROVE MemOk(w)' /\ TurnOk(w)'
  <2>1. MemOk(w)' /\ AllAnswered(writer'[w].mem)
    BY <1>3, <1>5, <1>8, LoadedOk
  <2>2. HasLatest(rows', writer'[w].mem, OwnRows(w)' \cap UserRows')
    BY <1>6 DEF HasLatest
  <2> QED BY <1>3, <1>5, <1>6, <2>1, <2>2 DEF TurnOk
<1> QED BY <1>3, <1>4, <1>7, <1>8, WriterReplaced

(* The first conflict.                                                      *)
LEMMA ReloadStep ==
    ASSUME LogInv, NEW w \in Writers, Reload(w)
    PROVE  LogInv'
<1> DEFINE x == [Loaded(w) EXCEPT !.retried = TRUE]
<1>1. LogTypes /\ RowsOk(w) /\ StoreInv
  BY DEF LogInv
<1>2. writer[w] \in [pc : WriterStates, mem : Seq(Messages), rev : Revisions,
                     retried : BOOLEAN, n : 0..MaxPhases] /\ writer[w].pc \in Writing
  BY <1>1 DEF LogTypes, Reload
<1>3. x \in [pc : WriterStates, mem : Seq(Messages), rev : Revisions, retried : BOOLEAN, n : 0..MaxPhases]
      /\ x.pc = writer[w].pc /\ x.mem = Repair(snap) /\ x.rev = Token /\ x.n = writer[w].n
  <2>1. Repair(snap) \in Seq(Messages) /\ Token \in Revisions
    BY <1>1, RepairedType
  <2> QED BY <1>2, <2>1 DEF Loaded
<1> HIDE DEF x
<1>4. writer' = [writer EXCEPT ![w] = x] /\ UNCHANGED <<store, logGhosts, command>>
  BY DEF Reload, x
<1>5. writer'[w] = x /\ rows' = rows /\ snap' = snap /\ Token' = Token
  BY <1>1, <1>4 DEF LogTypes, store, Token
<1>6. RowsOk(w)'
  <2>1. OwnRows(w)' = OwnRows(w) /\ Range(rows)' = Range(rows)
    BY <1>5 DEF OwnRows
  <2> QED BY <1>1, <1>3, <1>5, <2>1 DEF RowsOk
<1>7. ASSUME LogTypes', StoreInv' PROVE MemOk(w)' /\ TurnOk(w)'
  <2>1. /\ MemOk(w)' /\ AllAnswered(writer'[w].mem)
        /\ Range(rows') \subseteq Covers(writer'[w].mem) \cup dropped' \cup overwritten'
        /\ \A ids \in SUBSET UserRows' : Undisturbed' => HasLatest(rows', writer'[w].mem, ids)
    BY <1>3, <1>5, <1>7, LoadedOk
  <2>2. Out(w)' = Out(w)
    BY <1>3, <1>5 DEF Out
  <2>3. writer[w].pc = "result" => Out(w).kind # "call" /\ Out(w) \in Messages
    BY <1>1, <1>2, OutIs
  <2>4. writer'[w].mem \in Seq(Messages)
    BY <1>7 DEF LogTypes
  <2>5. AllAnswered(IF writer'[w].pc = "result" THEN Append(writer'[w].mem, Out(w)') ELSE writer'[w].mem)
    BY <1>3, <1>5, <2>1, <2>2, <2>3, <2>4, AnsweredAppend
  <2>6. OwnRows(w)' \subseteq Range(rows')
    BY DEF OwnRows
  <2> QED BY <2>1, <2>5, <2>6 DEF TurnOk
<1> QED BY <1>3, <1>4, <1>6, <1>7, WriterReplaced

(* A turn goes on after a restart.                                          *)
LEMMA ResumeStep ==
    ASSUME LogInv, NEW w \in UserTurns, ResumeTurn(w)
    PROVE  LogInv'
<1> DEFINE x == [Loaded(w) EXCEPT !.pc = IF writer[w].n = 0 THEN "model" ELSE "staged"]
<1>1. LogTypes /\ w \in Writers
  BY DEF LogInv, Writers
<1>r. RowsOk(w)
  BY <1>1 DEF LogInv
<1>2. writer[w] \in [pc : WriterStates, mem : Seq(Messages), rev : Revisions,
                     retried : BOOLEAN, n : 0..MaxPhases] /\ writer[w].pc = "resume"
  BY <1>1 DEF LogTypes, ResumeTurn
<1>3. x \in [pc : WriterStates, mem : Seq(Messages), rev : Revisions, retried : BOOLEAN, n : 0..MaxPhases]
      /\ x.pc \in {"model", "staged"} /\ x.mem = Repair(snap) /\ x.rev = Token /\ x.n = writer[w].n
  <2>1. Repair(snap) \in Seq(Messages) /\ Token \in Revisions
        /\ (IF writer[w].n = 0 THEN "model" ELSE "staged") \in WriterStates
    BY <1>1, RepairedType DEF WriterStates
  <2> QED BY <1>2, <2>1 DEF Loaded
<1> HIDE DEF x
<1>4. writer' = [writer EXCEPT ![w] = x] /\ UNCHANGED <<store, logGhosts, command>>
  BY DEF ResumeTurn, x
<1>5. writer'[w] = x /\ rows' = rows /\ snap' = snap /\ Token' = Token
  BY <1>1, <1>4 DEF LogTypes, store, Token
<1>6. RowsOk(w)'
  <2>1. OwnRows(w)' = OwnRows(w) /\ Range(rows)' = Range(rows)
    BY <1>5 DEF OwnRows
  <2> QED BY <1>r, <1>2, <1>3, <1>5, <2>1 DEF RowsOk, Ended
<1>7. ASSUME LogTypes', StoreInv' PROVE MemOk(w)' /\ TurnOk(w)'
  <2>1. /\ MemOk(w)' /\ AllAnswered(writer'[w].mem)
        /\ Range(rows') \subseteq Covers(writer'[w].mem) \cup dropped' \cup overwritten'
        /\ \A ids \in SUBSET UserRows' : Undisturbed' => HasLatest(rows', writer'[w].mem, ids)
    BY <1>1, <1>3, <1>5, <1>7, LoadedOk
  <2>2. OwnRows(w)' \subseteq Range(rows')
    BY DEF OwnRows
  <2> QED BY <1>3, <1>5, <2>1, <2>2 DEF TurnOk
<1> QED BY <1>1, <1>3, <1>4, <1>6, <1>7, WriterReplaced

(* A writer that only moves on keeps what it holds.                         *)
LEMMA MovesOn ==
    ASSUME LogInv, NEW w \in Writers, UNCHANGED <<store, logGhosts>>,
           writer[w].pc \in {"model", "staged"},
           writer'[w].mem = writer[w].mem, writer'[w].rev = writer[w].rev, writer'[w].pc # "result"
    PROVE  MemOk(w)' /\ TurnOk(w)'
<1>1. MemOk(w) /\ TurnOk(w)
  BY DEF LogInv
<1>2. OwnRows(w)' = OwnRows(w) /\ UserRows' = UserRows /\ Undisturbed' = Undisturbed
      /\ Conflict(writer[w].rev)' = Conflict(writer[w].rev) /\ rows' = rows
  BY DEF OwnRows, UserRows, Undisturbed, Conflict, store, logGhosts
<1>3. MemOk(w)'
  BY <1>1, <1>2 DEF MemOk, store, logGhosts
<1>4. Holding(w)
  BY DEF Holding, Ended
<1>5. TurnOk(w)'
  BY <1>1, <1>2, <1>4 DEF TurnOk, store, logGhosts
<1> QED BY <1>3, <1>5

(* The model asks for a tool, or answers.                                   *)
LEMMA ModelStepStep ==
    ASSUME LogInv, NEW w \in UserTurns, ModelStep(w)
    PROVE  LogInv'
<1>1. LogTypes /\ w \in Writers
  BY DEF LogInv, Writers
<1>r. RowsOk(w)
  BY <1>1 DEF LogInv
<1>2. writer[w] \in [pc : WriterStates, mem : Seq(Messages), rev : Revisions,
                     retried : BOOLEAN, n : 0..MaxPhases] /\ writer[w].pc = "model"
      /\ UNCHANGED <<store, logGhosts, command>>
  BY <1>1 DEF LogTypes, ModelStep
<1>3. OwnRows(w)' = OwnRows(w) /\ Range(rows)' = Range(rows)
  BY <1>2 DEF OwnRows, store
<1>n. MaxPhases \in Nat
  BY SessionLogAssumption
<1>4. CASE writer[w].n < MaxPhases /\ writer' = [writer EXCEPT ![w].pc = "call", ![w].n = @ + 1]
  <2> DEFINE x == [writer[w] EXCEPT !.pc = "call", !.n = @ + 1]
  <2>1. writer' = [writer EXCEPT ![w] = x] /\ writer'[w] = x
    BY <1>1, <1>4 DEF LogTypes
  <2>2. x.pc = "call" /\ x.n = writer[w].n + 1 /\ x.mem = writer[w].mem /\ x.rev = writer[w].rev
        /\ x \in [pc : WriterStates, mem : Seq(Messages), rev : Revisions,
                  retried : BOOLEAN, n : 0..MaxPhases]
    <3>1. writer[w].n + 1 \in 0..MaxPhases /\ "call" \in WriterStates
      BY <1>2, <1>4, <1>n DEF WriterStates, Writing
    <3> QED BY <1>2, <3>1
  <2> HIDE DEF x
  <2>3. MemOk(w)' /\ TurnOk(w)'
    BY <1>1, <1>2, <2>1, <2>2, MovesOn
  <2>4. RowsOk(w)'
    <3>1. \A id \in OwnRows(w) : id[2] # "final" /\ id[3] <= writer[w].n /\ id[3] \in Nat
      <4>1. OwnRows(w) \subseteq Ids
        BY <1>1, LenProperties DEF LogTypes, OwnRows, Range
      <4> QED BY <1>r, <1>2, <4>1 DEF RowsOk, Ended, Ids
    <3>2. writer[w].n \in Nat
      BY <1>2
    <3>3. \A id \in OwnRows(w) : id[3] <= x.n /\ id[3] # x.n
      BY <2>2, <3>1, <3>2
    <3>4. <<w, "user", 0>> \in Range(rows)
      BY <1>r, <1>2 DEF RowsOk, Ended
    <3> QED BY <1>3, <2>1, <2>2, <3>1, <3>3, <3>4 DEF RowsOk
  <2> QED BY <1>1, <1>2, <2>1, <2>2, <2>3, <2>4, WriterReplaced
<1>5. CASE writer' = [writer EXCEPT ![w].pc = "final"]
  <2> DEFINE x == [writer[w] EXCEPT !.pc = "final"]
  <2>1. writer' = [writer EXCEPT ![w] = x] /\ writer'[w] = x
    BY <1>1, <1>5 DEF LogTypes
  <2>2. x.pc = "final" /\ x.n = writer[w].n /\ x.mem = writer[w].mem /\ x.rev = writer[w].rev
        /\ x \in [pc : WriterStates, mem : Seq(Messages), rev : Revisions,
                  retried : BOOLEAN, n : 0..MaxPhases]
    <3>1. "final" \in WriterStates
      BY DEF WriterStates, Writing
    <3> QED BY <1>2, <3>1
  <2> HIDE DEF x
  <2>3. MemOk(w)' /\ TurnOk(w)'
    BY <1>1, <1>2, <2>1, <2>2, MovesOn
  <2>4. RowsOk(w)'
    BY <1>r, <1>2, <1>3, <2>1, <2>2 DEF RowsOk, Ended
  <2> QED BY <1>1, <1>2, <2>1, <2>2, <2>3, <2>4, WriterReplaced
<1> QED BY <1>4, <1>5 DEF ModelStep

(* A follow-up is staged, or none.                                          *)
LEMMA ListStagedStep ==
    ASSUME LogInv, NEW w \in UserTurns, ListStaged(w)
    PROVE  LogInv'
<1>1. LogTypes /\ w \in Writers
  BY DEF LogInv, Writers
<1>r. RowsOk(w)
  BY <1>1 DEF LogInv
<1>2. writer[w] \in [pc : WriterStates, mem : Seq(Messages), rev : Revisions,
                     retried : BOOLEAN, n : 0..MaxPhases] /\ writer[w].pc = "staged"
      /\ UNCHANGED <<store, logGhosts, command>>
  BY <1>1 DEF LogTypes, ListStaged
<1>3. OwnRows(w)' = OwnRows(w) /\ Range(rows)' = Range(rows)
  BY <1>2 DEF OwnRows, store
<1>4. PICK pc \in {"follow", "compact"} :
        /\ pc = "follow" => Id(Message("user", w, writer[w].n)) \notin Range(rows)
        /\ writer' = [writer EXCEPT ![w].pc = pc]
  BY DEF ListStaged
<1> DEFINE x == [writer[w] EXCEPT !.pc = pc]
<1>5. writer' = [writer EXCEPT ![w] = x] /\ writer'[w] = x
  BY <1>1, <1>4 DEF LogTypes
<1>6. x.pc = pc /\ x.n = writer[w].n /\ x.mem = writer[w].mem /\ x.rev = writer[w].rev
      /\ x \in [pc : WriterStates, mem : Seq(Messages), rev : Revisions,
                retried : BOOLEAN, n : 0..MaxPhases]
  <2>1. pc \in WriterStates
    BY DEF WriterStates, Writing
  <2> QED BY <1>2, <2>1
<1> HIDE DEF x
<1>7. MemOk(w)' /\ TurnOk(w)'
  BY <1>1, <1>2, <1>5, <1>6, MovesOn
<1>8. pc = "follow" => \A id \in OwnRows(w) : ~(id[2] = "user" /\ id[3] = writer[w].n)
  <2> SUFFICES ASSUME pc = "follow", NEW id \in OwnRows(w), id[2] = "user", id[3] = writer[w].n PROVE FALSE
    OBVIOUS
  <2>1. id \in Ids /\ id[1] = w /\ id \in Range(rows)
    BY <1>1, LenProperties DEF LogTypes, OwnRows, Range
  <2>2. id = <<w, "user", writer[w].n>>
    BY <2>1 DEF Ids
  <2> QED BY <1>4, <2>1, <2>2 DEF Id, Message
<1>9. RowsOk(w)'
  BY <1>r, <1>2, <1>3, <1>5, <1>6, <1>8 DEF RowsOk, Ended
<1> QED BY <1>1, <1>2, <1>5, <1>6, <1>7, <1>9, WriterReplaced

(* The loop compacts what it holds.                                         *)
LEMMA CompactStep ==
    ASSUME LogInv, NEW w \in UserTurns, CompactInLoop(w)
    PROVE  LogInv'
<1>1. LogTypes /\ w \in Writers
  BY DEF LogInv, Writers
<1>r. RowsOk(w) /\ MemOk(w) /\ TurnOk(w) /\ StoreInv
  BY <1>1 DEF LogInv
<1>2. writer[w] \in [pc : WriterStates, mem : Seq(Messages), rev : Revisions,
                     retried : BOOLEAN, n : 0..MaxPhases] /\ writer[w].pc = "compact"
      /\ UNCHANGED <<store, command, cleared, overwritten, revived>>
  BY <1>1 DEF LogTypes, CompactInLoop
<1> DEFINE mem == writer[w].mem
<1>3. PICK messages \in SafetyCompact(mem) :
        /\ writer' = [writer EXCEPT ![w].mem = messages, ![w].pc = "model"]
        /\ dropped' = dropped \cup (Covers(mem) \ Covers(messages))
  BY DEF CompactInLoop
<1> DEFINE x == [writer[w] EXCEPT !.mem = messages, !.pc = "model"]
<1>4. mem \in Seq(Messages) /\ rows \in Seq(Ids) /\ IsInjective(rows)
  BY <1>1, <1>2 DEF LogTypes
<1>5. Covers(mem) \subseteq Range(rows) /\ Follows(rows, mem) /\ SummaryFirst(mem) /\ AllAnswered(mem)
  BY <1>r, <1>2 DEF MemOk, TurnOk
<1> HIDE DEF mem
<1>6. messages = mem \/ messages = Compacted(mem)
  BY <1>3 DEF SafetyCompact
<1>7. messages \in Seq(Messages) /\ Covers(messages) \subseteq Covers(mem) /\ Follows(rows, messages)
      /\ SummaryFirst(messages) /\ AllAnswered(messages)
  BY <1>4, <1>5, <1>6, CompactedIs, CompactedCovers, CompactedShaped
<1>8. ASSUME NEW ids, HasLatest(rows, mem, ids) PROVE HasLatest(rows, messages, ids)
  BY <1>4, <1>5, <1>6, <1>8, LatestCompacted
<1>9. writer' = [writer EXCEPT ![w] = x] /\ writer'[w] = x /\ \A v \in Writers \ {w} : writer'[v] = writer[v]
  BY <1>1, <1>3 DEF LogTypes
<1>10. x.pc = "model" /\ x.n = writer[w].n /\ x.mem = messages /\ x.rev = writer[w].rev
       /\ x \in [pc : WriterStates, mem : Seq(Messages), rev : Revisions,
                 retried : BOOLEAN, n : 0..MaxPhases]
  <2>1. "model" \in WriterStates
    BY DEF WriterStates
  <2> QED BY <1>2, <1>7, <2>1
<1> HIDE DEF x
<1>11. /\ rows' = rows /\ snap' = snap /\ exists' = exists /\ revision' = revision /\ cleared' = cleared
       /\ overwritten' = overwritten /\ revived' = revived /\ command' = command
       /\ dropped \subseteq dropped' /\ Covers(mem) \subseteq Covers(messages) \cup dropped'
       /\ dropped' \subseteq dropped \cup Covers(mem)
  BY <1>2, <1>3 DEF store
<1>12. LogTypes'
  <2>1. writer' \in [Writers -> [pc : WriterStates, mem : Seq(Messages), rev : Revisions,
                                 retried : BOOLEAN, n : 0..MaxPhases]]
    BY <1>1, <1>9, <1>10 DEF LogTypes
  <2> QED BY <1>1, <1>11, <2>1 DEF LogTypes
<1>13. Moves
  BY <1>1, <1>11 DEF Moves, LogTypes
<1>14. OwnRows(w)' = OwnRows(w) /\ UserRows' = UserRows /\ (Undisturbed' => Undisturbed)
       /\ Conflict(writer[w].rev)' = Conflict(writer'[w].rev) /\ Range(rows)' = Range(rows)
       /\ Covers(snap)' = Covers(snap)
  BY <1>9, <1>10, <1>11 DEF OwnRows, UserRows, Undisturbed, Conflict
<1>15. StoreInv'
  BY <1>r, <1>5, <1>11, <1>14 DEF StoreInv, NoLost, ClearedStays
<1>16. MemOk(w)'
  <2>1. ASSUME ~Conflict(writer[w].rev)
        PROVE  /\ Covers(snap) \subseteq Covers(messages) \cup dropped'
               /\ cleared \cap Covers(messages) \subseteq revived
               /\ Undisturbed' => HasLatest(rows, messages, UserRows)
    <3>1. /\ Covers(snap) \subseteq Covers(mem) \cup dropped
          /\ cleared \cap Covers(mem) \subseteq revived
          /\ Undisturbed => HasLatest(rows, mem, UserRows)
      BY <1>r, <2>1 DEF MemOk, mem
    <3> QED BY <1>7, <1>8, <1>11, <1>14, <3>1
  <2>2. writer[w].rev <= revision
    BY <1>r DEF MemOk
  <2>3. Conflict(writer[w].rev)' = Conflict(writer[w].rev)
    BY <1>9, <1>10, <1>11 DEF Conflict
  <2> QED BY <1>5, <1>7, <1>9, <1>10, <1>11, <1>14, <2>1, <2>2, <2>3 DEF MemOk
<1>17. TurnOk(w)'
  <2>1. Holding(w)
    BY <1>2 DEF Holding, Ended
  <2>2. OwnRows(w) \subseteq Covers(mem) \cup dropped \cup overwritten
        /\ (Undisturbed => HasLatest(rows, mem, OwnRows(w) \cap UserRows))
    BY <1>r, <2>1 DEF TurnOk, mem
  <2>3. OwnRows(w) \subseteq Covers(messages) \cup dropped' \cup overwritten
    BY <1>11, <2>2
  <2>4. Undisturbed' => HasLatest(rows, messages, OwnRows(w) \cap UserRows)
    BY <1>8, <1>14, <2>2
  <2> QED BY <1>7, <1>9, <1>10, <1>11, <1>14, <2>3, <2>4 DEF TurnOk
<1>18. RowsOk(w)'
  BY <1>r, <1>2, <1>9, <1>10, <1>14 DEF RowsOk, Ended
<1>19. /\ \A v \in Writers \ {w} : RowsOk(v)' /\ MemOk(v)' /\ TurnOk(v)'
       /\ \A c \in Commands : CommandOk(c)'
  BY <1>9, <1>11, <1>13, OthersKept
<1> QED BY <1>12, <1>15, <1>16, <1>17, <1>18, <1>19 DEF LogInv

(* A failure row moves the revision on.                                     *)
LEMMA RecordedFailure ==
    ASSUME LogTypes, NEW lost, RecordFailure(lost)
    PROVE  revision' \in Nat /\ revision <= revision'
<1>1. IsFiniteSet(lost \cap UserTurns)
  BY SessionLogAssumption, FS_Subset
<1>2. Cardinality(lost \cap UserTurns) \in Nat
  BY <1>1, FS_CardinalityType
<1> QED BY <1>2 DEF RecordFailure, LogTypes

(* The second conflict.                                                     *)
LEMMA GiveUpStep ==
    ASSUME LogInv, NEW w \in Writers, GiveUp(w)
    PROVE  LogInv'
<1> DEFINE x == [Absent EXCEPT !.pc = "failed"]
<1>1. LogTypes /\ StoreInv
  BY DEF LogInv
<1>2. writer' = [writer EXCEPT ![w] = x] /\ RecordFailure({w})
      /\ rows' = rows /\ snap' = snap /\ exists' = exists /\ command' = command /\ UNCHANGED logGhosts
  BY DEF GiveUp
<1>3. revision' \in Nat /\ revision <= revision'
  BY <1>1, <1>2, RecordedFailure
<1>4. x.pc = "failed" /\ x.mem = <<>> /\ x.rev = NoRevision
      /\ x \in [pc : WriterStates, mem : Seq(Messages), rev : Revisions,
                retried : BOOLEAN, n : 0..MaxPhases]
  <2>1. <<>> \in Seq(Messages) /\ NoRevision \in Revisions /\ "failed" \in WriterStates /\ 0 \in 0..MaxPhases
    BY SessionLogAssumption DEF Revisions, WriterStates, Ended
  <2> QED BY <2>1 DEF Absent
<1>5. writer'[w] = x /\ \A v \in Writers \ {w} : writer'[v] = writer[v]
  BY <1>1, <1>2 DEF LogTypes
<1> HIDE DEF x
<1>6. LogTypes'
  <2>1. writer' \in [Writers -> [pc : WriterStates, mem : Seq(Messages), rev : Revisions,
                                 retried : BOOLEAN, n : 0..MaxPhases]]
    BY <1>1, <1>2, <1>4 DEF LogTypes
  <2> QED BY <1>1, <1>2, <1>3, <2>1 DEF LogTypes
<1>7. StoreInv'
  BY <1>1, <1>2, StoreKept
<1>8. Moves
  BY <1>1, <1>2, <1>3 DEF Moves, LogTypes, logGhosts
<1>9. MemOk(w)' /\ TurnOk(w)'
  BY <1>4, <1>5, <1>6, <1>7, AbsentOk DEF Ended
<1>10. RowsOk(w)'
  BY <1>4, <1>5 DEF RowsOk, Ended
<1>11. /\ \A v \in Writers \ {w} : RowsOk(v)' /\ MemOk(v)' /\ TurnOk(v)'
       /\ \A c \in Commands : CommandOk(c)'
  BY <1>2, <1>5, <1>8, OthersKept
<1> QED BY <1>6, <1>7, <1>9, <1>10, <1>11 DEF LogInv

(* The process restarts.                                                    *)
LEMMA CrashStep ==
    ASSUME LogInv, LogCrash
    PROVE  LogInv'
<1>1. LogTypes /\ StoreInv
  BY DEF LogInv
<1>2. PICK pc \in [Writers -> {"idle", "done", "failed", "resume"}] :
          /\ \A w \in Writers : pc[w] \in Recovered(w)
          /\ writer' = [w \in Writers |-> [Absent EXCEPT !.pc = pc[w], !.n = writer[w].n]]
          /\ RecordFailure({w \in Writers : pc[w] = "failed" /\ writer[w].pc # "failed"})
  BY DEF LogCrash
<1>3. /\ command' = [c \in Commands |-> IF command[c].kind = "idle" THEN command[c]
                                      ELSE [kind |-> "done", mem |-> <<>>, rev |-> NoRevision]]
      /\ rows' = rows /\ snap' = snap /\ exists' = exists /\ UNCHANGED logGhosts
  BY DEF LogCrash
<1>4. revision' \in Nat /\ revision <= revision'
  BY <1>1, <1>2, RecordedFailure
<1>5. <<>> \in Seq(Messages) /\ NoRevision \in Revisions
  BY DEF Revisions
<1>6. ASSUME NEW w \in Writers
      PROVE  /\ writer'[w].pc = pc[w] /\ writer'[w].mem = <<>> /\ writer'[w].rev = NoRevision
             /\ writer'[w].n = writer[w].n /\ pc[w] \in Ended \cup {"idle", "resume"}
             /\ writer'[w] \in [pc : WriterStates, mem : Seq(Messages), rev : Revisions,
                                retried : BOOLEAN, n : 0..MaxPhases]
  <2>1. writer[w].n \in 0..MaxPhases
    BY <1>1 DEF LogTypes
  <2>2. pc[w] \in WriterStates /\ pc[w] \in Ended \cup {"idle", "resume"}
    BY <1>2 DEF WriterStates, Ended
  <2> QED BY <1>2, <1>5, <2>1, <2>2 DEF Absent
<1>7. LogTypes'
  <2>1. writer' \in [Writers -> [pc : WriterStates, mem : Seq(Messages), rev : Revisions,
                                 retried : BOOLEAN, n : 0..MaxPhases]]
    BY <1>2, <1>6
  <2>2. command' \in [Commands -> [kind : {"idle", "new", "compact", "truncate", "done"},
                                   mem : Seq(Messages), rev : Revisions]]
    BY <1>1, <1>3, <1>5 DEF LogTypes
  <2> QED BY <1>1, <1>3, <1>4, <2>1, <2>2 DEF LogTypes
<1>8. StoreInv'
  BY <1>1, <1>3, StoreKept
<1>9. Moves
  BY <1>1, <1>3, <1>4 DEF Moves, LogTypes, logGhosts
<1>10. ASSUME NEW w \in Writers PROVE MemOk(w)' /\ TurnOk(w)' /\ RowsOk(w)'
  <2>1. MemOk(w)' /\ TurnOk(w)'
    BY <1>6, <1>7, <1>8, AbsentOk
  <2>2. OwnRows(w)' = OwnRows(w) /\ Range(rows)' = Range(rows)
    BY <1>3 DEF OwnRows
  <2>3. RowsOk(w)
    BY DEF LogInv
  <2>p. writer'[w].pc = pc[w] /\ writer'[w].n = writer[w].n
    BY <1>6
  <2>4. CASE pc[w] \in Ended
    BY <2>1, <2>p, <2>4 DEF RowsOk
  <2>5. CASE pc[w] = "idle"
    <3>1. writer[w].pc \in {"idle", "input"}
      BY <1>2, <2>5 DEF Recovered
    <3> QED BY <2>1, <2>p, <2>2, <2>3, <2>5, <3>1 DEF RowsOk, Ended
  <2>6. CASE pc[w] = "resume"
    <3>1. writer[w].pc \in {"model", "staged", "follow", "compact", "resume"}
      BY <1>2, <2>6 DEF Recovered
    <3> QED BY <2>1, <2>p, <2>2, <2>3, <2>6, <3>1 DEF RowsOk, Ended
  <2> QED BY <1>6, <2>1, <2>4, <2>5, <2>6
<1>11. ASSUME NEW c \in Commands PROVE CommandOk(c)'
  <2>1. CASE command[c].kind = "idle"
    <3>1. command'[c] = command[c] /\ CommandOk(c)
      BY <1>3, <2>1 DEF LogInv
    <3> QED BY <1>1, <1>3, <1>9, <3>1, CommandKept
  <2>2. CASE command[c].kind # "idle"
    <3>1. command'[c] = [kind |-> "done", mem |-> <<>>, rev |-> NoRevision]
      BY <1>3, <2>2
    <3>2. command'[c].kind = "done" /\ command'[c].mem = <<>> /\ command'[c].rev = NoRevision
      BY <3>1
    <3>3. NoRevision <= revision'
      BY <1>4 DEF NoRevision
    <3> QED BY <3>2, <3>3, EmptyCovers DEF CommandOk
  <2> QED BY <2>1, <2>2
<1> QED BY <1>7, <1>8, <1>10, <1>11 DEF LogInv

(* A phase is written: what was held knew all that was stored, and the      *)
(* writer goes on with what it wrote.                                       *)
LEMMA PersistStep ==
    ASSUME LogInv, NEW w \in Writers, Persist(w)
    PROVE  LogInv'
<1> DEFINE out == Id(Out(w))
<1> DEFINE mem == writer[w].mem
<1>1. LogTypes /\ StoreInv /\ RowsOk(w) /\ MemOk(w) /\ TurnOk(w)
  BY DEF LogInv
<1>2. /\ writer[w] \in [pc : WriterStates, mem : Seq(Messages), rev : Revisions,
                        retried : BOOLEAN, n : 0..MaxPhases]
      /\ writer[w].pc \in Writing /\ ~Conflict(writer[w].rev)
      /\ command' = command /\ dropped' = dropped /\ cleared' = cleared
      /\ overwritten' = overwritten /\ revived' = revived
  BY <1>1 DEF LogTypes, Persist, logGhosts
<1>3. PICK messages \in Candidates(w), pc \in Following(w) :
        /\ rows' = Append(rows, out) /\ snap' = messages /\ exists' = TRUE
        /\ revision' = revision + 1
        /\ writer' = [writer EXCEPT ![w] =
                        IF pc = "done" THEN [Absent EXCEPT !.pc = pc]
                        ELSE [@ EXCEPT !.mem = messages, !.rev = revision + 1,
                                       !.pc = pc, !.retried = FALSE]]
  BY DEF Persist, CommitMessage
<1> DEFINE x == IF pc = "done" THEN [Absent EXCEPT !.pc = pc]
                ELSE [writer[w] EXCEPT !.mem = messages, !.rev = revision + 1,
                                       !.pc = pc, !.retried = FALSE]
<1>4. /\ rows' \in Seq(Ids) /\ IsInjective(rows') /\ Range(rows') = Range(rows) \cup {out}
      /\ out \notin Range(rows) /\ messages \in Seq(Messages)
      /\ Covers(messages) = Covers(mem) \cup {out}
      /\ Follows(rows', messages) /\ SummaryFirst(messages)
      /\ \A ids : Out(w).kind = "user" => HasLatest(rows', messages, ids)
      /\ \A ids : Out(w).kind # "user" /\ out \notin ids
                    /\ HasLatest(rows, mem, ids) => HasLatest(rows', messages, ids)
      /\ writer[w].pc # "call" => AllAnswered(messages)
      /\ writer[w].pc = "call" => AllAnswered(Append(messages, Message("result", w, writer[w].n)))
  BY <1>1, <1>2, <1>3, Saved
<1>5. out \in Ids /\ out[1] = w /\ out[2] = Out(w).kind
  BY <1>1, <1>2, OutIs, OutOwner
<1>6. /\ writer[w].pc = "input" => out = <<w, "user", 0>>
      /\ writer[w].pc = "follow" => out = <<w, "user", writer[w].n>>
      /\ writer[w].pc \notin {"input", "follow"} => out = <<w, writer[w].pc, writer[w].n>>
  BY <1>1, <1>2, OutIs
<1> HIDE DEF out, mem
<1>7. revision \in Nat /\ revision' \in Nat /\ revision <= revision' /\ revision' # revision
  BY <1>1, <1>3 DEF LogTypes
<1>8. Moves /\ Writes(out)
  BY <1>2, <1>3, <1>4, <1>5, <1>7 DEF Moves, Writes
<1>9. /\ pc \in {"model", "call", "final", "result", "staged", "compact", "done"}
      /\ pc = "result" <=> writer[w].pc = "call"
      /\ pc = "call" => writer[w].pc = "input"
      /\ pc = "final" => writer[w].pc \in {"input", "result"}
      /\ pc = "done" <=> writer[w].pc = "final"
  BY <1>2, <1>3 DEF Following, Writing
<1>10. writer'[w] = x /\ \A v \in Writers \ {w} : writer'[v] = writer[v]
  BY <1>1, <1>3 DEF LogTypes
<1>11. x \in [pc : WriterStates, mem : Seq(Messages), rev : Revisions,
              retried : BOOLEAN, n : 0..MaxPhases]
  <2>1. <<>> \in Seq(Messages) /\ NoRevision \in Revisions /\ 0 \in 0..MaxPhases
        /\ pc \in WriterStates /\ revision + 1 \in Revisions
    BY <1>7, <1>9, SessionLogAssumption DEF Revisions, WriterStates, Ended, Writing
  <2> QED BY <1>2, <1>4, <2>1 DEF Absent
<1>12. x.pc = pc /\ (pc = "done" => x.mem = <<>> /\ x.rev = NoRevision)
       /\ (pc # "done" => x.mem = messages /\ x.rev = revision' /\ x.n = writer[w].n)
  BY <1>2, <1>3 DEF Absent
<1> HIDE DEF x
<1>13. LogTypes'
  <2>1. writer' \in [Writers -> [pc : WriterStates, mem : Seq(Messages), rev : Revisions,
                                 retried : BOOLEAN, n : 0..MaxPhases]]
    BY <1>1, <1>3, <1>11 DEF LogTypes, x
  <2> QED BY <1>1, <1>2, <1>3, <1>4, <1>7, <2>1 DEF LogTypes
<1>14. Covers(mem) \subseteq Range(rows) /\ Covers(snap) \subseteq Covers(mem) \cup dropped
       /\ cleared \cap Covers(mem) \subseteq revived
       /\ (Undisturbed => HasLatest(rows, mem, UserRows))
  BY <1>1, <1>2 DEF MemOk, mem
<1>15. OwnRows(w)' = OwnRows(w) \cup {out} /\ (Undisturbed' <=> Undisturbed)
  BY <1>2, <1>4, <1>5 DEF OwnRows, Undisturbed
<1>16. StoreInv'
  <2>1. Undisturbed' => HasLatest(rows', messages, UserRows')
    <3>1. CASE out[2] = "user"
      BY <1>4, <1>5, <3>1
    <3>2. CASE out[2] # "user"
      <4>1. UserRows' = UserRows /\ out \notin UserRows
        BY <1>4, <3>2 DEF UserRows
      <4> QED BY <1>4, <1>5, <1>14, <1>15, <3>2, <4>1
    <3> QED BY <3>1, <3>2
  <2>2. /\ dropped \subseteq Range(rows) /\ cleared \subseteq Range(rows)
        /\ overwritten \subseteq Range(rows) /\ revived \subseteq Range(rows)
        /\ Range(rows) \subseteq Covers(snap) \cup dropped \cup overwritten
    BY <1>1 DEF StoreInv, NoLost
  <2>3. NoLost'
    BY <1>2, <1>3, <1>4, <1>14, <2>2 DEF NoLost
  <2>4. ClearedStays'
    BY <1>2, <1>3, <1>4, <1>14, <2>2 DEF ClearedStays
  <2> QED BY <1>2, <1>3, <1>4, <1>14, <2>1, <2>2, <2>3, <2>4 DEF StoreInv
<1>17. CASE pc = "done"
  <2>1. MemOk(w)' /\ TurnOk(w)'
    BY <1>10, <1>12, <1>13, <1>16, <1>17, AbsentOk DEF Ended
  <2>2. RowsOk(w)'
    BY <1>10, <1>12, <1>17 DEF RowsOk, Ended
  <2> QED BY <2>1, <2>2, <1>8, <1>2, <1>5, <1>10, <1>13, <1>16, OthersKept DEF LogInv
<1>18. CASE pc # "done"
  <2>1. writer'[w].pc = pc /\ writer'[w].mem = messages /\ writer'[w].rev = revision'
        /\ writer'[w].n = writer[w].n
    BY <1>10, <1>12, <1>18
  <2>2. MemOk(w)'
    <3>1. /\ Covers(snap') \subseteq Covers(messages) \cup dropped'
          /\ cleared' \cap Covers(messages) \subseteq revived'
          /\ (Undisturbed' => HasLatest(rows', messages, UserRows'))
      BY <1>16, <1>3 DEF StoreInv, ClearedStays
    <3>2. Covers(messages) \subseteq Range(rows')
      BY <1>4, <1>14
    <3>3. revision' <= revision'
      BY <1>7
    <3> QED BY <1>4, <2>1, <3>1, <3>2, <3>3 DEF MemOk
  <2>3. TurnOk(w)'
    <3>1. OwnRows(w)' \subseteq Range(rows')
      BY DEF OwnRows
    <3>2. OwnRows(w)' \subseteq Covers(messages) \cup dropped' \cup overwritten'
      BY <1>16, <1>3, <3>1 DEF StoreInv, NoLost
    <3>3. Undisturbed' => HasLatest(rows', messages, UserRows')
      BY <1>16, <1>3 DEF StoreInv
    <3>4. Undisturbed' => HasLatest(rows', messages, OwnRows(w)' \cap UserRows')
      BY <3>3, LatestSome
    <3>5. pc = "result" => Out(w)' = Message("result", w, writer[w].n)
      BY <2>1 DEF Out
    <3>6. AllAnswered(IF pc = "result" THEN Append(messages, Out(w)') ELSE messages)
      BY <1>4, <1>9, <3>5
    <3> QED BY <2>1, <3>2, <3>4, <3>6 DEF TurnOk
  <2>4. RowsOk(w)'
    <3>1. /\ \A id \in OwnRows(w) :
            /\ writer[w].pc # "input"
            /\ id[2] # "final" /\ id[3] <= writer[w].n
            /\ writer[w].pc = "call" => ~(id[2] \in {"call", "result"} /\ id[3] = writer[w].n)
          /\ writer[w].pc # "input" => <<w, "user", 0>> \in Range(rows)
      BY <1>1, <1>2 DEF RowsOk, Writing, Ended
    <3>2. <<w, "user", 0>> \in Range(rows')
      BY <1>4, <1>6, <3>1
    <3>3. writer[w].n \in Nat /\ 0 <= writer[w].n
      BY <1>2
    <3>4. out[2] # "final" /\ out[3] <= writer[w].n
          /\ (writer[w].pc = "input" => out[2] = "user") /\ (writer[w].pc = "call" => out[2] = "call")
      BY <1>2, <1>6, <1>9, <1>18, <3>3 DEF Writing
    <3>5. pc \in {"model", "call", "final", "result", "staged", "compact"}
      BY <1>9, <1>18
    <3>6. ASSUME NEW id \in OwnRows(w) \cup {out}
          PROVE  /\ id[2] # "final" /\ id[3] <= writer[w].n
                 /\ pc = "call" => ~(id[2] \in {"call", "result"} /\ id[3] = writer[w].n)
                 /\ pc = "result" => ~(id[2] = "result" /\ id[3] = writer[w].n)
      BY <1>9, <3>1, <3>4
    <3> QED BY <1>15, <2>1, <3>2, <3>5, <3>6 DEF RowsOk
  <2> QED BY <2>2, <2>3, <2>4, <1>8, <1>2, <1>5, <1>10, <1>13, <1>16, OthersKept DEF LogInv
<1> QED BY <1>17, <1>18

(* A command moves on while no row is written.                              *)
LEMMA CommandStep ==
    ASSUME LogInv, NEW c \in Commands,
           NEW k \in [kind : {"idle", "new", "compact", "truncate", "done"},
                      mem : Seq(Messages), rev : Revisions],
           command' = [command EXCEPT ![c] = k], writer' = writer, rows' = rows,
           snap' \in Seq(Messages), Moves, StoreInv', command'[c] = k => CommandOk(c)'
    PROVE  LogInv'
<1>1. LogTypes /\ Nobody \notin Writers
  BY SessionLogAssumption DEF LogInv, Writers
<1>2. command'[c] = k /\ \A d \in Commands \ {c} : command'[d] = command[d]
  BY <1>1 DEF LogTypes
<1>3. LogTypes'
  <2>1. command' \in [Commands -> [kind : {"idle", "new", "compact", "truncate", "done"},
                                   mem : Seq(Messages), rev : Revisions]]
    BY <1>1 DEF LogTypes
  <2> QED BY <1>1, <2>1 DEF LogTypes, Moves
<1>4. /\ \A v \in Writers \ {Nobody} : RowsOk(v)' /\ MemOk(v)' /\ TurnOk(v)'
      /\ \A d \in Commands : command'[d] = command[d] => CommandOk(d)'
  BY <1>1, OthersKept
<1> QED BY <1>1, <1>2, <1>3, <1>4 DEF LogInv

(* A command ends.                                                          *)
LEMMA FinishStep ==
    ASSUME LogInv, NEW c \in Commands, Finish(c), writer' = writer, rows' = rows,
           snap' \in Seq(Messages), Moves, StoreInv'
    PROVE  LogInv'
<1> DEFINE k == [kind |-> "done", mem |-> <<>>, rev |-> NoRevision]
<1>1. <<>> \in Seq(Messages) /\ NoRevision \in Revisions
  BY DEF Revisions
<1>2. k \in [kind : {"idle", "new", "compact", "truncate", "done"},
             mem : Seq(Messages), rev : Revisions]
  BY <1>1
<1>3. command' = [command EXCEPT ![c] = k]
  BY DEF Finish
<1>4. k.kind = "done" /\ k.mem = <<>> /\ k.rev = NoRevision
  OBVIOUS
<1> HIDE DEF k
<1>5. ASSUME command'[c] = k PROVE CommandOk(c)'
  <2>1. NoRevision <= revision'
    BY DEF Moves, NoRevision
  <2> QED BY <1>4, <1>5, <2>1, EmptyCovers DEF CommandOk
<1> QED BY <1>2, <1>3, <1>5, CommandStep

(* A command reads the store.                                               *)
LEMMA BeginStep ==
    ASSUME LogInv, NEW c \in Commands, NEW kind \in {"new", "compact", "truncate"}, Begin(c, kind)
    PROVE  LogInv'
<1> DEFINE mem == IF kind = "compact" THEN Repair(snap) ELSE snap
           k == [kind |-> kind, mem |-> mem, rev |-> Token]
<1>1. LogTypes /\ StoreInv
  BY DEF LogInv
<1>2. exists /\ UNCHANGED <<store, writer, logGhosts>> /\ command' = [command EXCEPT ![c] = k]
  BY DEF Begin
<1>3. rows' = rows /\ snap' = snap /\ exists' = exists /\ revision' = revision /\ writer' = writer
      /\ dropped' = dropped /\ overwritten' = overwritten
  BY <1>2 DEF store, logGhosts
<1>4. mem \in Seq(Messages) /\ Token = revision /\ revision \in Nat /\ Token \in Revisions
      /\ snap \in Seq(Messages) /\ rows \in Seq(Ids)
  BY <1>1, <1>2, RepairedType DEF LogTypes, Token
<1>5. k \in [kind : {"idle", "new", "compact", "truncate", "done"},
             mem : Seq(Messages), rev : Revisions]
  BY <1>4
<1>6. Covers(snap) \subseteq Range(rows) /\ Follows(rows, snap) /\ SummaryFirst(snap)
      /\ (Undisturbed => HasLatest(rows, snap, UserRows))
  BY <1>1 DEF StoreInv
<1>7. Covers(mem) \subseteq Range(rows) /\ Follows(rows, mem) /\ SummaryFirst(mem)
      /\ (Undisturbed => HasLatest(rows, mem, UserRows))
  <2>1. CASE kind = "compact"
    BY <1>4, <1>6, <2>1, RepairCovers, RepairShaped, RepairLatest
  <2>2. CASE kind # "compact"
    BY <1>6, <2>2
  <2> QED BY <2>1, <2>2
<1>8. k.kind = kind /\ k.mem = mem /\ k.rev = revision /\ (kind # "compact" => mem = snap)
  BY <1>4
<1> HIDE DEF k, mem
<1>9. ASSUME command'[c] = k PROVE CommandOk(c)'
  <2>1. revision <= revision /\ revision # NoRevision
    BY <1>4 DEF NoRevision
  <2>2. UserRows' = UserRows /\ Undisturbed' = Undisturbed
    BY <1>3 DEF UserRows, Undisturbed
  <2> QED BY <1>2, <1>3, <1>7, <1>8, <1>9, <2>1, <2>2 DEF CommandOk
<1>10. Moves
  BY <1>1, <1>2, StillMoves
<1>11. StoreInv'
  BY <1>1, <1>2, <1>3, StoreKept
<1> QED BY <1>2, <1>3, <1>4, <1>5, <1>9, <1>10, <1>11, CommandStep

(* A snapshot is written without a row.                                     *)
LEMMA SnapshotUpdated ==
    ASSUME LogTypes, NEW messages \in Seq(Messages), UpdateSnapshot(messages),
           dropped \subseteq dropped', overwritten \subseteq overwritten', revived \subseteq revived'
    PROVE  Moves /\ rows' = rows /\ snap' = messages /\ exists' = TRUE
<1>1. rows' = rows /\ snap' = messages /\ exists' = TRUE /\ revision' = revision + 1
  BY DEF UpdateSnapshot
<1>2. revision \in Nat
  BY DEF LogTypes
<1>3. revision' \in Nat /\ revision <= revision' /\ revision' # revision
  BY <1>1, <1>2
<1> QED BY <1>1, <1>3 DEF Moves

(* A command whose lock is refused changes nothing.                         *)
LEMMA ConflictFinish ==
    ASSUME LogInv, NEW c \in Commands, Finish(c), UNCHANGED <<store, dropped, cleared, writer, overwritten, revived>>
    PROVE  LogInv'
<1>1. LogTypes /\ StoreInv /\ UNCHANGED <<store, logGhosts>>
  BY DEF LogInv, logGhosts
<1>2. Moves
  BY <1>1, StillMoves
<1>3. rows' = rows /\ snap' = snap /\ exists' = exists
  BY DEF store
<1>4. StoreInv'
  BY <1>1, <1>3, StoreKept
<1> QED BY <1>1, <1>2, <1>3, <1>4, FinishStep DEF LogTypes

(* /new,                                                                    *)
LEMMA ClearStep ==
    ASSUME LogInv, NEW c \in Commands, ClearSession(c)
    PROVE  LogInv'
<1> DEFINE mem == command[c].mem
<1>1. LogTypes /\ StoreInv /\ CommandOk(c)
  BY DEF LogInv
<1>2. command[c].kind = "new" /\ Finish(c) /\ writer' = writer /\ overwritten' = overwritten
      /\ revived' = revived
  BY DEF ClearSession
<1>3. CASE Conflict(command[c].rev)
  <2>1. UNCHANGED <<store, dropped, cleared>>
    BY <1>3 DEF ClearSession
  <2> QED BY <1>2, <2>1, ConflictFinish
<1>4. CASE ~Conflict(command[c].rev)
  <2>1. UpdateSnapshot(<<>>) /\ dropped' = dropped \cup Covers(mem) /\ cleared' = cleared \cup Covers(mem)
    BY <1>4 DEF ClearSession
  <2>2. mem = snap /\ Covers(snap) \subseteq Range(rows)
    BY <1>1, <1>2, <1>4 DEF CommandOk, Conflict, StoreInv
  <2> HIDE DEF mem
  <2>3. <<>> \in Seq(Messages)
    OBVIOUS
  <2>4. Moves /\ rows' = rows /\ snap' = <<>> /\ exists' = TRUE
    BY <1>1, <1>2, <2>1, <2>3, SnapshotUpdated
  <2>5. NoLost'
    BY <1>1, <1>2, <2>1, <2>2, <2>4 DEF StoreInv, NoLost
  <2>6. Covers(<<>>) = {} /\ Follows(rows, <<>>) /\ SummaryFirst(<<>>)
    BY EmptyCovers
  <2>7. ClearedStays'
    BY <2>4, <2>6 DEF ClearedStays
  <2>8. Undisturbed' => HasLatest(rows', snap', UserRows')
    <3>1. SUFFICES ASSUME Undisturbed' PROVE UserRows' = {}
      BY <3>1 DEF HasLatest
    <3>2. Range(rows') = {}
      BY <2>4, <2>5, <2>6, <3>1 DEF NoLost, Undisturbed
    <3> QED BY <3>2 DEF UserRows
  <2>9. StoreInv'
    BY <1>1, <1>2, <2>1, <2>2, <2>4, <2>5, <2>6, <2>7, <2>8 DEF StoreInv
  <2> QED BY <1>2, <2>3, <2>4, <2>9, FinishStep
<1> QED BY <1>3, <1>4

(* the truncation of the sleep batch,                                       *)
LEMMA TruncateStep ==
    ASSUME LogInv, NEW c \in Commands, TruncateSession(c)
    PROVE  LogInv'
<1> DEFINE mem == command[c].mem
           kept == TruncateMessages(mem)
<1>1. LogTypes /\ StoreInv /\ CommandOk(c)
  BY DEF LogInv
<1>2. command[c].kind = "truncate" /\ Finish(c) /\ writer' = writer /\ overwritten' = overwritten
      /\ revived' = revived /\ cleared' = cleared
  BY DEF TruncateSession
<1>3. CASE Conflict(command[c].rev)
  <2>1. UNCHANGED <<store, dropped>>
    BY <1>3 DEF TruncateSession
  <2> QED BY <1>2, <2>1, ConflictFinish
<1>4. CASE ~Conflict(command[c].rev)
  <2>1. UpdateSnapshot(kept) /\ dropped' = dropped \cup (Covers(mem) \ Covers(kept))
    BY <1>4 DEF TruncateSession
  <2>2. mem = snap
    BY <1>1, <1>2, <1>4 DEF CommandOk, Conflict
  <2>3. mem \in Seq(Messages) /\ rows \in Seq(Ids)
    BY <1>1, <2>2 DEF LogTypes
  <2> HIDE DEF mem
  <2>4. Covers(mem) \subseteq Range(rows) /\ Follows(rows, mem) /\ SummaryFirst(mem)
        /\ (Undisturbed => HasLatest(rows, mem, UserRows))
    BY <1>1, <2>2 DEF StoreInv
  <2>5. kept \in Seq(Messages) /\ Thinned(kept, mem)
    BY <2>3, TruncatedIs
  <2>6. Covers(kept) \subseteq Covers(mem) /\ Follows(rows, kept) /\ SummaryFirst(kept)
    BY <2>3, <2>4, <2>5, ThinnedKeeps
  <2>7. Covers(mem) \subseteq Covers(kept) => (Undisturbed => HasLatest(rows, kept, UserRows))
    BY <2>3, <2>4, LatestTruncated
  <2> HIDE DEF kept
  <2>8. Moves /\ rows' = rows /\ snap' = kept /\ exists' = TRUE
    BY <1>1, <1>2, <2>1, <2>5, SnapshotUpdated
  <2>9. NoLost' /\ ClearedStays'
    BY <1>1, <1>2, <2>1, <2>2, <2>6, <2>8 DEF StoreInv, NoLost, ClearedStays
  <2>10. Undisturbed' => HasLatest(rows', snap', UserRows')
    <3>1. Undisturbed' => Undisturbed /\ Covers(mem) \subseteq Covers(kept)
      BY <1>2, <2>1 DEF Undisturbed
    <3>2. UserRows' = UserRows
      BY <2>8 DEF UserRows
    <3> QED BY <2>7, <2>8, <3>1, <3>2
  <2>11. StoreInv'
    BY <1>1, <1>2, <2>1, <2>4, <2>6, <2>8, <2>9, <2>10 DEF StoreInv
  <2> QED BY <1>2, <2>5, <2>8, <2>11, FinishStep
<1> QED BY <1>3, <1>4

(* and /compact, which asks no lock: what it loses or puts back it marks.   *)
LEMMA SaveStep ==
    ASSUME LogInv, NEW c \in Commands, SaveCompacted(c)
    PROVE  LogInv'
<1> DEFINE mem == command[c].mem
<1>1. LogTypes /\ StoreInv /\ CommandOk(c)
  BY DEF LogInv
<1>2. command[c].kind = "compact" /\ Finish(c) /\ writer' = writer /\ cleared' = cleared
  BY DEF SaveCompacted
<1>3. PICK messages \in SafetyCompact(mem) :
        /\ UpdateSnapshot(messages)
        /\ dropped' = dropped \cup (Covers(mem) \ Covers(messages))
        /\ overwritten' = overwritten \cup (Covers(snap) \ Covers(mem))
        /\ revived' = revived \cup (Covers(messages) \ Covers(snap))
  BY DEF SaveCompacted
<1>4. mem \in Seq(Messages) /\ rows \in Seq(Ids) /\ IsInjective(rows)
  BY <1>1 DEF LogTypes
<1>5. Covers(mem) \subseteq Range(rows) /\ Follows(rows, mem) /\ SummaryFirst(mem)
      /\ (Undisturbed /\ Range(rows) \subseteq Covers(mem) => HasLatest(rows, mem, UserRows))
  BY <1>1, <1>2 DEF CommandOk
<1> HIDE DEF mem
<1>6. messages = mem \/ messages = Compacted(mem)
  BY <1>3 DEF SafetyCompact
<1>7. messages \in Seq(Messages) /\ Covers(messages) \subseteq Covers(mem) /\ Follows(rows, messages)
      /\ SummaryFirst(messages)
  BY <1>4, <1>5, <1>6, CompactedIs, CompactedCovers, CompactedShaped
<1>8. Undisturbed /\ Range(rows) \subseteq Covers(mem) => HasLatest(rows, messages, UserRows)
  BY <1>4, <1>5, <1>6, LatestCompacted
<1>9. Moves /\ rows' = rows /\ snap' = messages /\ exists' = TRUE
  BY <1>1, <1>3, <1>7, SnapshotUpdated
<1>10. NoLost' /\ ClearedStays'
  BY <1>1, <1>2, <1>3, <1>7, <1>9 DEF StoreInv, NoLost, ClearedStays
<1>11. Undisturbed' => HasLatest(rows', snap', UserRows')
  <2>1. Undisturbed' => Undisturbed /\ Range(rows) \subseteq Covers(mem)
    BY <1>1, <1>3 DEF Undisturbed, StoreInv, NoLost
  <2>2. UserRows' = UserRows
    BY <1>9 DEF UserRows
  <2> QED BY <1>8, <1>9, <2>1, <2>2
<1>12. StoreInv'
  BY <1>1, <1>2, <1>3, <1>5, <1>7, <1>9, <1>10, <1>11 DEF StoreInv
<1> QED BY <1>2, <1>7, <1>9, <1>12, FinishStep

(* The invariant holds at first,                                            *)
LEMMA LogInitial == LogInit => LogInv
<1> SUFFICES ASSUME LogInit PROVE LogInv
  OBVIOUS
<1>1. /\ rows = <<>> /\ snap = <<>> /\ exists = FALSE /\ revision = 0
      /\ writer = [w \in Writers |-> Absent]
      /\ command = [c \in Commands |-> [kind |-> "idle", mem |-> <<>>, rev |-> NoRevision]]
      /\ dropped = {} /\ cleared = {} /\ overwritten = {} /\ revived = {}
  BY DEF LogInit
<1>2. <<>> \in Seq(Messages) /\ <<>> \in Seq(Ids) /\ NoRevision \in Revisions /\ 0 \in 0..MaxPhases
      /\ "idle" \in WriterStates /\ NoRevision <= 0
  BY SessionLogAssumption DEF NoRevision, Revisions, WriterStates
<1>3. Range(rows) = {} /\ IsInjective(rows)
  BY <1>1 DEF Range, IsInjective
<1>4. UserRows = {} /\ \A w \in Writers : OwnRows(w) = {}
  BY <1>3 DEF UserRows, OwnRows
<1>5. Covers(<<>>) = {} /\ AllAnswered(<<>>) /\ SummaryFirst(<<>>) /\ Follows(rows, <<>>)
  BY EmptyCovers
<1>6. \A s : HasLatest(rows, s, {})
  BY DEF HasLatest
<1>7. LogTypes
  <2>1. Absent \in [pc : WriterStates, mem : Seq(Messages), rev : Revisions,
                    retried : BOOLEAN, n : 0..MaxPhases]
    BY <1>2 DEF Absent
  <2>2. [kind |-> "idle", mem |-> <<>>, rev |-> NoRevision]
          \in [kind : {"idle", "new", "compact", "truncate", "done"}, mem : Seq(Messages), rev : Revisions]
    BY <1>2
  <2> QED BY <1>1, <1>2, <1>3, <2>1, <2>2 DEF LogTypes
<1>8. StoreInv
  BY <1>1, <1>3, <1>4, <1>5, <1>6 DEF StoreInv, NoLost, ClearedStays
<1>9. ASSUME NEW w \in Writers PROVE RowsOk(w) /\ MemOk(w) /\ TurnOk(w)
  <2>1. writer[w].pc = "idle" /\ writer[w].mem = <<>> /\ writer[w].rev = NoRevision
    BY <1>1 DEF Absent
  <2>2. RowsOk(w)
    BY <1>4, <2>1 DEF RowsOk
  <2>3. MemOk(w)
    BY <1>1, <1>2, <1>4, <1>5, <1>6, <2>1 DEF MemOk
  <2>4. TurnOk(w)
    BY <1>5, <2>1 DEF TurnOk, Holding
  <2> QED BY <2>2, <2>3, <2>4
<1>10. ASSUME NEW c \in Commands PROVE CommandOk(c)
  <2>1. command[c].kind = "idle" /\ command[c].mem = <<>> /\ command[c].rev = NoRevision
    BY <1>1
  <2> QED BY <1>1, <1>2, <1>5, <2>1 DEF CommandOk
<1> QED BY <1>7, <1>8, <1>9, <1>10 DEF LogInv

(* while nobody moves,                                                      *)
LEMMA LogIdle ==
    ASSUME LogInv, UNCHANGED logVars
    PROVE  LogInv'
<1>1. LogTypes /\ StoreInv /\ Nobody \notin Writers
  BY SessionLogAssumption DEF LogInv, Writers
<1>2. UNCHANGED <<store, logGhosts>> /\ writer' = writer /\ command' = command
  BY DEF logVars
<1>3. rows' = rows /\ snap' = snap /\ exists' = exists /\ revision' = revision
  BY <1>2 DEF store
<1>4. LogTypes'
  BY <1>1, <1>2, <1>3 DEF LogTypes
<1>5. Moves
  BY <1>1, <1>2, StillMoves
<1>6. StoreInv'
  BY <1>1, <1>2, <1>3, StoreKept
<1>7. /\ \A v \in Writers \ {Nobody} : RowsOk(v)' /\ MemOk(v)' /\ TurnOk(v)'
      /\ \A c \in Commands : CommandOk(c)'
  BY <1>2, <1>3, <1>5, OthersKept
<1> QED BY <1>1, <1>4, <1>6, <1>7 DEF LogInv

(* No step of any actor breaks the invariant.                               *)
LEMMA LogPreserved == LogInv /\ [LogNext]_logVars => LogInv'
<1> SUFFICES ASSUME LogInv, [LogNext]_logVars PROVE LogInv'
  OBVIOUS
<1>1. ASSUME NEW w \in Writers, Load(w) \/ Persist(w) \/ Reload(w) \/ GiveUp(w)
      PROVE  LogInv'
  BY <1>1, LoadStep, PersistStep, ReloadStep, GiveUpStep
<1>2. ASSUME NEW t \in UserTurns, ModelStep(t) \/ ListStaged(t) \/ CompactInLoop(t) \/ ResumeTurn(t)
      PROVE  LogInv'
  BY <1>2, ModelStepStep, ListStagedStep, CompactStep, ResumeStep
<1>3. ASSUME NEW c \in Commands, NEW kind \in {"new", "compact", "truncate"}, Begin(c, kind)
      PROVE  LogInv'
  BY <1>3, BeginStep
<1>4. ASSUME NEW c \in Commands, ClearSession(c) \/ TruncateSession(c) \/ SaveCompacted(c)
      PROVE  LogInv'
  BY <1>4, ClearStep, TruncateStep, SaveStep
<1>5. ASSUME LogCrash PROVE LogInv'
  BY <1>5, CrashStep
<1>6. ASSUME AllEnded \/ UNCHANGED logVars PROVE LogInv'
  BY <1>6, LogIdle DEF AllEnded
<1> QED BY <1>1, <1>2, <1>3, <1>4, <1>5, <1>6 DEF LogNext

(* and always.                                                              *)
LEMMA LogAlways == LogSpec => []LogInv
  BY LogInitial, LogPreserved, PTL DEF LogSpec

(* The members of a sequence.                                               *)
LEMMA SeqRange ==
    ASSUME NEW S, NEW s \in Seq(S)
    PROVE  Range(s) \subseteq S /\ \A i \in DOMAIN s : s[i] \in S
  BY DEF Range

(* The lock is honest, for who is let through has read what is stored.      *)
LEMMA LogInvKept == LogInv => LogKept
<1> SUFFICES ASSUME LogInv PROVE LogKept
  OBVIOUS
<1>1. LogTypes /\ StoreInv /\ (\A w \in Writers : RowsOk(w) /\ MemOk(w) /\ TurnOk(w))
      /\ \A c \in Commands : CommandOk(c)
  BY DEF LogInv
<1>2. LogTypeOK
  <2>1. Range(rows) \subseteq Ids /\ IsInjective(rows) /\ exists \in BOOLEAN /\ revision \in Nat
    BY <1>1, SeqRange DEF LogTypes
  <2>2. ASSUME NEW w \in Writers
        PROVE  /\ writer[w].rev \in Nat \cup {NoRevision} /\ writer[w].n \in 0..MaxPhases
               /\ writer[w].pc \in Writing \cup Ended \cup {"idle", "model", "staged", "compact", "resume"}
               /\ writer[w].mem \in Seq(Messages)
    BY <1>1 DEF LogTypes, WriterStates, Revisions
  <2>3. \A c \in Commands : command[c].mem \in Seq(Messages)
    BY <1>1 DEF LogTypes
  <2>4. snap \in Seq(Messages)
    BY <1>1 DEF LogTypes
  <2>5. \A s \in {snap} \cup {writer[w].mem : w \in Writers} \cup {command[c].mem : c \in Commands} :
           s \in Seq(Messages)
    BY <2>2, <2>3, <2>4
  <2>6. \A s \in {snap} \cup {writer[w].mem : w \in Writers} \cup {command[c].mem : c \in Commands} :
           \A i \in DOMAIN s : s[i] \in Messages
    BY <2>5, SeqRange
  <2>7. \A g \in {dropped, cleared, overwritten, revived} : g \subseteq Ids
    BY <1>1, <2>1 DEF StoreInv
  <2> QED BY <2>1, <2>2, <2>6, <2>7 DEF LogTypeOK
<1>3. NoLost /\ ClearedStays /\ SnapFollowsRows
  BY <1>1 DEF StoreInv, Follows, SnapFollowsRows
<1>4. LockIsHonest
  BY <1>1 DEF MemOk, LockIsHonest
<1> QED BY <1>2, <1>3, <1>4 DEF LogKept

(* Who is about to ask the model holds its own turn, and an output to       *)
(* every call.                                                              *)
LEMMA LogInvWhole == LogInv => RequestWhole
<1> SUFFICES ASSUME LogInv PROVE RequestWhole
  OBVIOUS
<1>1. ASSUME NEW t \in UserTurns, writer[t].pc = "model"
      PROVE  /\ AllAnswered(writer[t].mem)
             /\ OwnRows(t) \subseteq Covers(writer[t].mem) \cup dropped \cup overwritten
             /\ Undisturbed => HasLatest(rows, writer[t].mem, OwnRows(t) \cap UserRows)
             /\ <<t, "user", 0>> \in OwnRows(t) \cap UserRows
  <2>1. t \in Writers /\ TurnOk(t) /\ RowsOk(t) /\ Holding(t)
    BY <1>1 DEF LogInv, Writers, Holding, Ended
  <2>2. <<t, "user", 0>> \in Range(rows)
    BY <1>1, <2>1 DEF RowsOk, Ended
  <2>3. <<t, "user", 0>> \in OwnRows(t) \cap UserRows
    BY <2>2 DEF OwnRows, UserRows
  <2> QED BY <1>1, <2>1, <2>3 DEF TurnOk
<1>2. CallsAnswered
  BY <1>1 DEF CallsAnswered, AllAnswered
<1>3. OwnTurnShown
  BY <1>1 DEF OwnTurnShown, OwnRows
<1>4. LatestUserShown
  <2>1. SUFFICES ASSUME NEW t \in UserTurns, writer[t].pc = "model", dropped = {}, overwritten = {}
                 PROVE  \E i \in DOMAIN writer[t].mem :
                          writer[t].mem[i].kind = "user"
                          /\ \A j \in DOMAIN rows : rows[j][2] = "user" /\ rows[j][1] = t =>
                               \E k \in DOMAIN rows : rows[k] = Id(writer[t].mem[i]) /\ j <= k
    BY DEF LatestUserShown
  <2>2. HasLatest(rows, writer[t].mem, OwnRows(t) \cap UserRows) /\ OwnRows(t) \cap UserRows # {}
    BY <1>1, <2>1 DEF Undisturbed
  <2>3. PICK i \in DOMAIN writer[t].mem :
            /\ writer[t].mem[i].kind = "user"
            /\ \A j \in DOMAIN rows : rows[j] \in OwnRows(t) \cap UserRows =>
                 \E k \in DOMAIN rows : rows[k] = Id(writer[t].mem[i]) /\ j <= k
    BY <2>2 DEF HasLatest
  <2>4. \A j \in DOMAIN rows : rows[j][2] = "user" /\ rows[j][1] = t => rows[j] \in OwnRows(t) \cap UserRows
    BY DEF OwnRows, UserRows, Range
  <2> QED BY <2>3, <2>4
<1> QED BY <1>2, <1>3, <1>4 DEF RequestWhole

(* However turns, notifications, commands, compactions and restarts         *)
(* interleave: no message is lost from what the model is shown, what /new   *)
(* cleared stays away, a writer let through by the revision has seen all    *)
(* it replaces, and the snapshot keeps the order of the rows.               *)
THEOREM LogIsKept == LogSpec => []LogKept
  BY LogAlways, LogInvKept, PTL

(* What is sent to a provider has an output right after every call, and     *)
(* holds all of the turn that asks and its latest user message, unless a    *)
(* command took them out.                                                   *)
THEOREM RequestIsWhole == LogSpec => []RequestWhole
  BY LogAlways, LogInvWhole, PTL

-----------------------------------------------------------------------------
(* Inductive invariants of WebRuns.                                         *)

(* The run is over: nothing is staged, and the child has been heard of if   *)
(* there was one.                                                           *)
RunOver == Over(1) /\ ~staged /\ turn[2] \in {"none", "told"}

(* The child's end is still to come, after the k-th event that waits.       *)
ChildHeard(k) ==
    \/ staged /\ Heard(1)
    \/ turn[2] \in {"live", "ended"} /\ Heard(2)
    \/ \E l \in DOMAIN oq : l > k /\ oq[l].turn = 2 /\ oq[l].terminal

RunEvents == [turn : RunTurns, end : BOOLEAN, terminal : BOOLEAN]
HubEvents == [gen : Nat, id : Nat, turn : RunTurns, end : BOOLEAN, terminal : BOOLEAN]

RunTypes ==
    /\ turn \in [RunTurns -> {"none", "live", "ended", "told"}] /\ failed \subseteq RunTurns
    /\ {staged, mute, cut, hush} \subseteq BOOLEAN
    /\ route \in 0 .. 2 /\ pub \in {"none", "held", "on"} /\ oq \in Seq(RunEvents)
    /\ req \in [c : Clients \cup {NoClient}, pc : {"idle", "read", "register", "latest", "ack"},
                ack : {"awaited", "late", "lost"}]
    /\ timers \in Nat /\ made \in Nat /\ troubles \in Nat

(* The turns of the run, its observer and its publisher agree.              *)
TurnsAgree ==
    /\ staged /\ Over(1) => 1 \in failed /\ turn[2] = "none"
    /\ turn[2] # "none" => turn[1] = "told"
    /\ route = 2 => turn[2] # "none"
    /\ pub = "none" => oq = <<>> /\ route = 0
    /\ pub # "none" /\ route = 0 => RunOver
    /\ req.pc = "latest" /\ turn[1] = "live" => pub # "none"

(* The observer's events that wait: the last end is the terminal one, and an *)
(* end that is not has the child's to come after it.                        *)
QueueAgrees == \A k \in DOMAIN oq :
    /\ oq[k].terminal => RunOver /\ oq[k].end
    /\ oq[k].end /\ oq[k].turn = 2 => oq[k].terminal
    /\ oq[k].end => turn[oq[k].turn] = "told"
    /\ oq[k].end => \A l \in DOMAIN oq : oq[l].end /\ oq[l].turn = oq[k].turn => l = k
    /\ oq[k].end /\ oq[k].turn = 1 /\ ~oq[k].terminal => ChildHeard(k)

(* So do the channel's, until it was cut: a request found the turn over     *)
(* while the child was still to come.                                       *)
ChannelAgrees ==
    /\ \A i \in DOMAIN hub.hist :
         /\ hub.hist[i].terminal => hub.done
         /\ hub.hist[i].end /\ hub.hist[i].turn = 2 => hub.hist[i].terminal
         /\ hub.hist[i].end /\ hub.hist[i].turn = 1 /\ ~hub.done =>
              /\ turn[1] = "told" /\ (~cut => ChildHeard(0))
              /\ \A k \in DOMAIN oq : ~(oq[k].end /\ oq[k].turn = 1)
    /\ ~cut => /\ hub.done \/ timers > 0 => RunOver
               /\ route # 0 /\ pub # "none" /\ ~RunOver => hub.on
    /\ EndToldOnce

(* The channel's events have consecutive numbers.                           *)
HubOk(h, m) ==
    /\ h \in [on : BOOLEAN, gen : Nat, hist : Seq(HubEvents), next : Nat \ {0}, done : BOOLEAN]
    /\ m \in Nat /\ (h.on => h.gen = m /\ h.gen # 0) /\ (~h.on => h = NoChannel)
    /\ Len(h.hist) <= Limit /\ Len(h.hist) < h.next /\ (h.hist = <<>> => h.next = 1)
    /\ \A i \in DOMAIN h.hist : h.hist[i].gen = h.gen /\ h.hist[i].id = h.next - Len(h.hist) - 1 + i

EndInv == TurnsAgree /\ QueueAgrees /\ ChannelAgrees

ForwardType ==
    [at : {"none", "starting", "on", "over"}, replay : Seq(HubEvents), live : Seq(HubEvents),
     open : BOOLEAN, done : BOOLEAN]
ClientType ==
    [conn : BOOLEAN, unsure : BOOLEAN, track : BOOLEAN, last : Nat, resub : BOOLEAN,
     base : Nat, mixed : SUBSET Nat, fwd : ForwardType, got : SUBSET (Nat \X Nat),
     lossy : BOOLEAN, astray : BOOLEAN, reset : BOOLEAN, twice : BOOLEAN]

(* What a forwarder has yet to send.                                        *)
InFlight(k) == k.fwd.replay \o k.fwd.live

(* How many live events give way to the next one.                           *)
Dropped(k) == IF Len(k.fwd.live) >= Limit THEN 1 ELSE 0

(* An event of a channel that was, or of the one there is.                  *)
Numbered(g, n, h, m) == g \in 1 .. m /\ n \in Nat \ {0} /\ (h.on /\ g = h.gen => n < h.next)

(* Where a forwarder stands: *)
PlaceOk(k, h, m) ==
    /\ Len(k.fwd.replay) <= Limit /\ Len(k.fwd.live) <= Limit
    /\ k.fwd.at # "on" => k.fwd.replay = <<>> /\ k.fwd.live = <<>> /\ ~k.fwd.open
    /\ k.fwd.open => h.on
    /\ k.resub => k.conn /\ k.track
    /\ ~k.conn \/ k.resub => k.fwd.at = "none"
    /\ \A g \in k.got : Numbered(g[1], g[2], h, m)
    /\ LET p == InFlight(k) IN
       /\ \A i \in DOMAIN p : /\ Numbered(p[i].gen, p[i].id, h, m) /\ p[i].gen = p[1].gen
                              /\ k.fwd.open => p[i].gen = h.gen
                              /\ \A j \in 1 .. i - 1 : p[j].id < p[i].id

(* Whole: what a client without a loss has is complete up to what waits.    *)
HasAll(k, g, n) == \A i \in 1 .. n : <<g, i>> \in k.got

WholeOk(k, h) ==
    LET p == InFlight(k) IN
    /\ k.track /\ k.base = 0 => k.last = 0
    /\ ~k.lossy =>
         /\ \A g \in k.got : g[1] \notin k.mixed => HasAll(k, g[1], g[2])
         /\ k.track /\ k.base # 0 /\ k.base \notin k.mixed => HasAll(k, k.base, k.last)
         /\ \A i \in DOMAIN p : p[i].id = p[1].id + i - 1
         /\ p # <<>> /\ p[1].gen \notin k.mixed =>
              /\ HasAll(k, p[1].gen, p[1].id - 1)
              /\ k.track /\ k.base # 0 => k.base = p[1].gen
         /\ k.fwd.open /\ p # <<>> => p[Len(p)].id = h.next - 1
         /\ k.fwd.open /\ h.gen \notin k.mixed =>
              /\ p = <<>> => HasAll(k, h.gen, h.next - 1)
              /\ k.track /\ k.base # 0 => k.base = h.gen

(* Once: a client whose count was never set back has nothing that waits.    *)
OnceOk(k, h) ==
    /\ ~k.twice
    /\ ~k.reset =>
         /\ k.track => \A g \in k.got : g[2] <= k.last
         /\ k.fwd.at = "starting" => k.got = {}
         /\ ~k.track /\ k.fwd.at = "on" => \A g \in k.got :
              /\ \A i \in DOMAIN InFlight(k) : g[2] < InFlight(k)[i].id
              /\ k.fwd.open => g[2] < h.next

ClientOk(k, h, m) == k \in ClientType /\ PlaceOk(k, h, m) /\ WholeOk(k, h) /\ OnceOk(k, h)

Asking(c) == req.c = c /\ req.ack # "lost"

StreamsOk(h, m, cs) ==
    HubOk(h, m) /\ cs \in [Clients -> ClientType] /\ \A c \in Clients : ClientOk(cs[c], h, m)

(* Besides, a client whose request is under way is connected.               *)
StreamInv ==
    StreamsOk(hub, made, cl) /\ \A c \in Clients : Asking(c) => cl[c].conn /\ ~cl[c].resub

-----------------------------------------------------------------------------
(* The channel.                                                             *)

(* z is the channel h after e was published to it, as its event x, and d of *)
(* its kept events were dropped.                                            *)
KeptAs(h, m, e, z, x, d) ==
    /\ HubOk(z, m) /\ z.on /\ z.gen = h.gen /\ z.next = h.next + 1
    /\ (z.done <=> h.done \/ e.terminal) /\ x \in HubEvents /\ d <= Len(h.hist)
    /\ Len(z.hist) = Len(h.hist) + 1 - d /\ z.hist[Len(z.hist)] = x
    /\ Last(z.hist) = x
    /\ \A i \in 1 .. Len(z.hist) - 1 : i + d \in DOMAIN h.hist /\ z.hist[i] = h.hist[i + d]

(* The kept events of a channel after e is published to it.                 *)
LEMMA KeptEvents ==
    ASSUME NEW h, NEW m, HubOk(h, m), h.on, NEW e \in RunEvents
    PROVE  KeptAs(h, m, e, Published(h, e),
                  [gen |-> h.gen, id |-> h.next, turn |-> e.turn, end |-> e.end, terminal |-> e.terminal],
                  IF Len(h.hist) >= Limit THEN 1 ELSE 0)
<1> DEFINE x == [gen |-> h.gen, id |-> h.next, turn |-> e.turn, end |-> e.end, terminal |-> e.terminal]
           d == IF Len(h.hist) >= Limit THEN 1 ELSE 0
           b == IF Len(h.hist) >= Limit THEN Tail(h.hist) ELSE h.hist
           z == Published(h, e)
<1>1. /\ h.hist \in Seq(HubEvents) /\ h.next \in Nat /\ h.next # 0 /\ h.gen \in Nat /\ h.done \in BOOLEAN
      /\ h.on \in BOOLEAN /\ Limit \in Nat /\ Limit # 0 /\ Len(h.hist) \in Nat
      /\ Len(h.hist) <= Limit /\ Len(h.hist) < h.next
  BY WebAssumption DEF HubOk
<1>2. x \in HubEvents
  BY <1>1 DEF HubEvents, RunEvents
<1>3. b \in Seq(HubEvents) /\ Len(b) = Len(h.hist) - d /\ \A i \in 1 .. Len(b) : i + d \in DOMAIN h.hist /\ b[i] = h.hist[i + d]
  <2>1. CASE Len(h.hist) >= Limit
    <3>1. h.hist # <<>> /\ d = 1 /\ b = Tail(h.hist)
      BY <1>1, <2>1
    <3> QED BY <1>1, <3>1
  <2>2. CASE ~(Len(h.hist) >= Limit)
    BY <1>1, <2>2
  <2> QED BY <2>1, <2>2
<1>4. Len(b) \in Nat /\ d \in {0, 1} /\ d <= Len(h.hist) /\ Len(b) < Limit
  <2>1. Len(b) \in Nat
    BY <1>3
  <2> QED BY <1>1, <1>3, <2>1
<1>5. z = [h EXCEPT !.next = h.next + 1, !.done = h.done \/ e.terminal, !.hist = Append(b, x)]
  BY DEF Published
<1> HIDE DEF b, x, d
<1>6. /\ z \in [on : BOOLEAN, gen : Nat, hist : Seq(HubEvents), next : Nat \ {0}, done : BOOLEAN]
      /\ z.on = h.on /\ z.gen = h.gen /\ z.next = h.next + 1 /\ z.done = (h.done \/ e.terminal)
      /\ z.hist = Append(b, x)
  <2>1. Append(b, x) \in Seq(HubEvents) /\ h.next + 1 \in Nat \ {0} /\ (h.done \/ e.terminal) \in BOOLEAN
    BY <1>1, <1>2, <1>3
  <2> QED BY <1>5, <2>1 DEF HubOk
<1> HIDE DEF z
<1>7. /\ Len(z.hist) = Len(b) + 1 /\ z.hist[Len(z.hist)] = x /\ z.hist # <<>>
      /\ \A i \in 1 .. Len(b) : z.hist[i] = b[i]
  BY <1>2, <1>3, <1>6
<1>8. Last(z.hist) = x
  BY <1>7 DEF Last
<1>9. Len(z.hist) = Len(h.hist) + 1 - d /\ Len(z.hist) - 1 = Len(b) /\ Len(z.hist) <= Limit /\ Len(z.hist) < z.next
  BY <1>1, <1>3, <1>4, <1>6, <1>7
<1>10. \A i \in 1 .. Len(z.hist) - 1 : i + d \in DOMAIN h.hist /\ z.hist[i] = h.hist[i + d]
  BY <1>3, <1>7, <1>9
<1>11. ASSUME NEW i \in DOMAIN z.hist PROVE z.hist[i].gen = z.gen /\ z.hist[i].id = z.next - Len(z.hist) - 1 + i
  <2>1. CASE i = Len(z.hist)
    <3>1. x.gen = h.gen /\ x.id = h.next
      BY DEF x
    <3>2. Len(z.hist) \in Nat
      BY <1>6
    <3> QED BY <1>1, <1>6, <1>7, <2>1, <3>1, <3>2
  <2>2. CASE i # Len(z.hist)
    <3>1. i \in 1 .. Len(z.hist) - 1 /\ i \in Nat
      BY <1>6, <2>2
    <3>2. i + d \in DOMAIN h.hist /\ z.hist[i] = h.hist[i + d]
      BY <1>10, <3>1
    <3>3. h.hist[i + d].gen = h.gen /\ h.hist[i + d].id = h.next - Len(h.hist) - 1 + (i + d)
      BY <3>2 DEF HubOk
    <3>4. z.hist[i].gen = z.gen /\ z.hist[i].id = h.next - Len(h.hist) - 1 + (i + d)
      BY <1>6, <3>2, <3>3
    <3>5. h.next - Len(h.hist) - 1 + (i + d) = (h.next + 1) - (Len(h.hist) + 1 - d) - 1 + i
      <4>1. h.next \in Int /\ Len(h.hist) \in Int /\ d \in Int /\ i \in Int
        BY <1>1, <1>4, <3>1
      <4>2. \A n, l, t, j \in Int : n - l - 1 + (j + t) = (n + 1) - (l + 1 - t) - 1 + j
        OBVIOUS
      <4> QED BY <4>1, <4>2
    <3> QED BY <1>6, <1>9, <3>4, <3>5
  <2> QED BY <2>1, <2>2
<1>12. HubOk(z, m)
  <2>1. m \in Nat /\ h.gen = m /\ h.gen # 0
    BY DEF HubOk
  <2> QED BY <1>6, <1>7, <1>9, <1>11, <2>1 DEF HubOk
<1>13. z.done <=> h.done \/ e.terminal
  BY <1>6
<1>14. KeptAs(h, m, e, z, x, d)
  BY <1>2, <1>4, <1>6, <1>7, <1>8, <1>9, <1>10, <1>12, <1>13 DEF KeptAs
<1> QED BY <1>14 DEF x, d, z

(* A channel that is made anew counts from one.                             *)
LEMMA MadeHub ==
    ASSUME HubOk(hub, made), CountMade
    PROVE  /\ HubOk(Created(hub), made') /\ Created(hub).on /\ made' \in Nat
           /\ hub.on => Created(hub) = hub /\ made' = made
           /\ ~hub.on => Created(hub) = [NoChannel EXCEPT !.on = TRUE, !.gen = made + 1] /\ made' = made + 1
<1>1. CASE hub.on
  BY <1>1 DEF HubOk, CountMade, Created
<1>2. CASE ~hub.on
  <2> DEFINE z == [on |-> TRUE, gen |-> made + 1, hist |-> <<>>, next |-> 1, done |-> FALSE]
  <2>1. Created(hub) = z /\ made' = made + 1 /\ made \in Nat
    BY <1>2 DEF HubOk, CountMade, Created, NoChannel
  <2>2. HubOk(z, made + 1)
    BY <2>1, WebAssumption DEF HubOk
  <2> QED BY <1>2, <2>1, <2>2 DEF Created
<1>3. hub.on \in BOOLEAN
  BY DEF HubOk
<1> QED BY <1>1, <1>2, <1>3

-----------------------------------------------------------------------------
(* The clients, one at a time.                                              *)

(* Nothing waits at a forwarder that has no subscription.                   *)
LEMMA NothingWaits ==
    ASSUME NEW k, k.fwd.replay = <<>>, k.fwd.live = <<>>
    PROVE  InFlight(k) = <<>> /\ DOMAIN InFlight(k) = {}
<1>1. InFlight(k) = <<>>
  BY DEF InFlight
<1> QED BY <1>1

(* Whether a client waits for an ack matters to no promise.                 *)
LEMMA SameClient ==
    ASSUME NEW h, NEW m, NEW k, ClientOk(k, h, m), NEW q \in ClientType,
           q.conn = k.conn, q.track = k.track, q.last = k.last, q.resub = k.resub, q.base = k.base,
           q.mixed = k.mixed, q.fwd = k.fwd, q.got = k.got, q.lossy = k.lossy, q.reset = k.reset,
           q.twice = k.twice
    PROVE  ClientOk(q, h, m)
<1>1. InFlight(q) = InFlight(k) /\ \A g, n : HasAll(q, g, n) <=> HasAll(k, g, n)
  BY DEF InFlight, HasAll
<1>2. PlaceOk(q, h, m)
  BY <1>1 DEF ClientOk, PlaceOk
<1>3. WholeOk(q, h)
  BY <1>1 DEF ClientOk, WholeOk
<1>4. OnceOk(q, h)
  BY <1>1 DEF ClientOk, OnceOk
<1> QED BY <1>2, <1>3, <1>4 DEF ClientOk

(* A client without a forwarder only keeps what it has.                     *)
LEMMA AloneClient ==
    ASSUME NEW h, NEW m, NEW k, ClientOk(k, h, m), NEW q \in ClientType, NEW z,
           z.on => z = h, q.fwd = NoForward, q.resub => q.conn /\ q.track,
           q.track = k.track, q.last = k.last, q.base = k.base,
           q.mixed = k.mixed, q.got = k.got, q.lossy = k.lossy, q.reset = k.reset, q.twice = k.twice
    PROVE  ClientOk(q, z, m)
<1>1. InFlight(q) = <<>> /\ DOMAIN InFlight(q) = {} /\ \A g, n : HasAll(q, g, n) <=> HasAll(k, g, n)
  <2>1. q.fwd.replay = <<>> /\ q.fwd.live = <<>>
    BY DEF NoForward
  <2> QED BY <2>1, NothingWaits DEF HasAll
<1>2. q.fwd.at = "none" /\ ~q.fwd.open /\ q.fwd.replay = <<>> /\ q.fwd.live = <<>>
  BY DEF NoForward
<1>3. Limit \in Nat /\ Len(<<>>) = 0
  BY WebAssumption
<1>4. PlaceOk(q, z, m)
  <2>1. \A g \in q.got : Numbered(g[1], g[2], z, m)
    BY DEF ClientOk, PlaceOk, Numbered
  <2> QED BY <1>1, <1>2, <1>3, <2>1 DEF PlaceOk
<1>5. WholeOk(q, z)
  BY <1>1, <1>2 DEF ClientOk, WholeOk
<1>6. OnceOk(q, z)
  BY <1>1, <1>2 DEF ClientOk, OnceOk
<1> QED BY <1>4, <1>5, <1>6 DEF ClientOk

(* The channel goes: subscriptions are closed and keep what they have.      *)
LEMMA ClosedClient ==
    ASSUME NEW h, NEW m, NEW k, ClientOk(k, h, m), NEW q, q = [k EXCEPT !.fwd.open = FALSE]
    PROVE  ClientOk(q, NoChannel, m)
<1>1. q \in ClientType /\ q.fwd = [k.fwd EXCEPT !.open = FALSE]
      /\ q.conn = k.conn /\ q.track = k.track /\ q.last = k.last /\ q.resub = k.resub /\ q.base = k.base
      /\ q.mixed = k.mixed /\ q.got = k.got /\ q.lossy = k.lossy /\ q.reset = k.reset /\ q.twice = k.twice
  BY DEF ClientOk, ClientType, ForwardType
<1>2. q.fwd.at = k.fwd.at /\ q.fwd.replay = k.fwd.replay /\ q.fwd.live = k.fwd.live /\ ~q.fwd.open
  <2>1. k.fwd \in ForwardType
    BY DEF ClientOk, ClientType
  <2> QED BY <1>1, <2>1 DEF ForwardType
<1>3. InFlight(q) = InFlight(k) /\ \A g, n : HasAll(q, g, n) <=> HasAll(k, g, n)
  BY <1>1, <1>2 DEF InFlight, HasAll
<1>4. \A g, n : Numbered(g, n, h, m) => Numbered(g, n, NoChannel, m)
  BY DEF Numbered, NoChannel
<1>5. PlaceOk(q, NoChannel, m)
  BY <1>1, <1>2, <1>3, <1>4 DEF ClientOk, PlaceOk
<1>6. WholeOk(q, NoChannel)
  BY <1>1, <1>2, <1>3 DEF ClientOk, WholeOk
<1>7. OnceOk(q, NoChannel)
  BY <1>1, <1>2, <1>3 DEF ClientOk, OnceOk
<1> QED BY <1>1, <1>5, <1>6, <1>7 DEF ClientOk

(* A new channel has a new generation.                                      *)
LEMMA NewChannelClient ==
    ASSUME NEW h, NEW m \in Nat, NEW k, ClientOk(k, h, m), ~h.on, NEW z, z.gen = m + 1
    PROVE  ClientOk(k, z, m + 1)
<1>1. ~k.fwd.open
  BY DEF ClientOk, PlaceOk
<1>2. \A g, n : Numbered(g, n, h, m) => Numbered(g, n, z, m + 1)
  BY DEF Numbered
<1>3. PlaceOk(k, z, m + 1)
  BY <1>1, <1>2 DEF ClientOk, PlaceOk
<1>4. WholeOk(k, z) /\ OnceOk(k, z)
  BY <1>1 DEF ClientOk, WholeOk, OnceOk
<1> QED BY <1>3, <1>4 DEF ClientOk

(* The ack sets the count back, and asks for a forwarder if there is none.  *)
LEMMA AckedClient ==
    ASSUME NEW h, NEW m, NEW k, ClientOk(k, h, m), NEW q \in ClientType, k.conn, ~k.resub,
           q.conn = k.conn, q.resub = k.resub, q.fwd = Forwarding(k.fwd),
           \/ q.track /\ q.last = 0 /\ q.base = 0
           \/ q.track = k.track /\ q.last = k.last /\ q.base = k.base,
           q.reset = (k.reset \/ k.got # {}),
           q.mixed = k.mixed, q.got = k.got, q.lossy = k.lossy, q.twice = k.twice
    PROVE  ClientOk(q, h, m)
<1>1. q.fwd.open = k.fwd.open /\ q.fwd.replay = k.fwd.replay /\ q.fwd.live = k.fwd.live
      /\ (q.fwd.at = "on" <=> k.fwd.at = "on")
  <2>1. CASE k.fwd.at = "none"
    <3>1. q.fwd = [NoForward EXCEPT !.at = "starting"]
      BY <2>1 DEF Forwarding
    <3>2. k.fwd.replay = <<>> /\ k.fwd.live = <<>> /\ ~k.fwd.open /\ k.fwd \in ForwardType
      BY <2>1 DEF ClientOk, PlaceOk, ClientType
    <3> QED BY <2>1, <3>1, <3>2 DEF NoForward, ForwardType
  <2>2. CASE k.fwd.at # "none"
    BY <2>2 DEF Forwarding
  <2> QED BY <2>1, <2>2
<1>2. InFlight(q) = InFlight(k) /\ \A g, n : HasAll(q, g, n) <=> HasAll(k, g, n)
  BY <1>1 DEF InFlight, HasAll
<1>3. PlaceOk(q, h, m)
  BY <1>1, <1>2 DEF ClientOk, PlaceOk
<1>4. WholeOk(q, h)
  BY <1>1, <1>2 DEF ClientOk, WholeOk
<1>5. OnceOk(q, h)
  BY <1>1, <1>2 DEF ClientOk, OnceOk
<1> QED BY <1>3, <1>4, <1>5 DEF ClientOk

(* Unless it is on its way, a forwarder may be given up.                    *)
LEMMA EndedForward ==
    ASSUME NEW h, NEW m, NEW k, ClientOk(k, h, m), NEW q, q = [k EXCEPT !.fwd = NoForward], ~k.resub
    PROVE  ClientOk(q, h, m)
<1>1. q \in ClientType
  <2>1. <<>> \in Seq(HubEvents)
    OBVIOUS
  <2>2. NoForward \in ForwardType
    BY <2>1 DEF ForwardType, NoForward
  <2> QED BY <2>2 DEF ClientOk, ClientType
<1>2. q.fwd = NoForward /\ ~q.resub /\ q.track = k.track /\ q.last = k.last /\ q.base = k.base
      /\ q.mixed = k.mixed /\ q.got = k.got /\ q.lossy = k.lossy /\ q.reset = k.reset /\ q.twice = k.twice
  BY DEF ClientOk, ClientType
<1> QED BY <1>1, <1>2, AloneClient

(* The replay is the end of what is kept: all events after a given number   *)
(* that are kept at all.                                                    *)
LEMMA ReplayIs ==
    ASSUME HubOk(hub, made), NEW a \in Nat
    PROVE  LET r == Replay(a) IN
           /\ r \in Seq(HubEvents) /\ Len(r) \in Nat /\ Len(r) <= Limit
           /\ \A i \in DOMAIN r : r[i].gen = hub.gen /\ r[i].id = hub.next - Len(r) - 1 + i /\ r[i].id > a
           /\ r = <<>> => hub.next - 1 <= a
           /\ r # <<>> => \/ hub.next - Len(r) = a + 1
                          \/ hub.next - Len(r) = hub.next - Len(hub.hist)
<1> DEFINE L == Len(hub.hist)
           f == hub.next - L
           n == IF a < f THEN 0 ELSE IF a >= hub.next - 1 THEN L ELSE a - f + 1
           b == Before(a)
           r == Replay(a)
<1>1. hub.hist \in Seq(HubEvents) /\ hub.next \in Nat /\ L \in Nat /\ L < hub.next /\ L <= Limit /\ Limit \in Nat
  BY WebAssumption DEF HubOk
<1>2. \A i \in DOMAIN hub.hist : hub.hist[i].gen = hub.gen /\ hub.hist[i].id = f - 1 + i /\ i \in 1 .. L
  <2>1. \A i \in DOMAIN hub.hist : hub.hist[i].gen = hub.gen /\ hub.hist[i].id = hub.next - L - 1 + i /\ i \in 1 .. L
    BY <1>1 DEF HubOk
  <2> QED BY <1>1, <2>1
<1>3. f \in Nat /\ f >= 1 /\ f + L = hub.next /\ DOMAIN hub.hist = 1 .. L
  BY <1>1
<1> HIDE DEF L, f
<1>4. n \in 0 .. L
  BY <1>1, <1>3
<1>5. ASSUME NEW i \in 1 .. L PROVE i <= n <=> hub.hist[i].id <= a
  <2>1. hub.hist[i].id = f - 1 + i
    BY <1>2, <1>3
  <2>2. i <= n <=> f - 1 + i <= a
    BY <1>1, <1>3
  <2> QED BY <2>1, <2>2
<1> HIDE DEF n
<1>6. b \in 0 .. L /\ \A i \in 1 .. L : i <= b <=> hub.hist[i].id <= a
  <2>1. \E j \in 0 .. Len(hub.hist) : \A i \in DOMAIN hub.hist : i <= j <=> hub.hist[i].id <= a
    BY <1>3, <1>4, <1>5 DEF L
  <2>2. b \in 0 .. Len(hub.hist) /\ \A i \in DOMAIN hub.hist : i <= b <=> hub.hist[i].id <= a
    BY <2>1 DEF Before
  <2> QED BY <1>3, <2>2 DEF L
<1>7. r = SubSeq(hub.hist, b + 1, L)
  BY DEF Replay, L
<1> HIDE DEF b, r
<1>8. /\ r \in Seq(HubEvents) /\ Len(r) = L - b
      /\ \A i \in 1 .. L - b : r[i] = hub.hist[b + i]
  <2>1. b + 1 \in Int /\ L \in Int /\ \A i \in b + 1 .. L : hub.hist[i] \in HubEvents
    BY <1>1, <1>3, <1>6
  <2>2. /\ r \in Seq(HubEvents) /\ Len(r) = IF b + 1 <= L THEN L - (b + 1) + 1 ELSE 0
        /\ \A i \in 1 .. L - (b + 1) + 1 : r[i] = hub.hist[(b + 1) + i - 1]
    BY <1>7, <2>1, SubSeqProperties
  <2>3. L - (b + 1) + 1 = L - b /\ (b + 1 <= L \/ L - b = 0)
    BY <1>1, <1>6
  <2>4. ASSUME NEW i \in 1 .. L - b PROVE (b + 1) + i - 1 = b + i
    BY <1>6
  <2> QED BY <2>2, <2>3, <2>4
<1>9. Len(r) \in Nat /\ DOMAIN r = 1 .. L - b
  BY <1>8
<1>10. ASSUME NEW i \in DOMAIN r
       PROVE  r[i].gen = hub.gen /\ r[i].id = hub.next - Len(r) - 1 + i /\ r[i].id > a
  <2>1. b + i \in 1 .. L /\ i \in Nat /\ i >= 1 /\ r[i] = hub.hist[b + i]
    BY <1>1, <1>6, <1>8, <1>9
  <2>2. hub.hist[b + i].gen = hub.gen /\ hub.hist[b + i].id = f - 1 + (b + i)
    BY <1>2, <1>3, <2>1
  <2>3. ~(b + i <= b)
    BY <1>6, <2>1
  <2>4. ~(f - 1 + (b + i) <= a)
    BY <1>6, <2>1, <2>2, <2>3
  <2>5. f - 1 + (b + i) = hub.next - Len(r) - 1 + i
    BY <1>1, <1>3, <1>6, <1>8, <2>1
  <2>6. f - 1 + (b + i) > a
    BY <1>3, <1>6, <2>1, <2>4
  <2> QED BY <2>1, <2>2, <2>5, <2>6
<1>11. ASSUME r = <<>> PROVE hub.next - 1 <= a
  <2>1. Len(r) = 0
    BY <1>11
  <2>2. b = L
    BY <1>1, <1>6, <1>8, <2>1
  <2>3. CASE L = 0
    <3>1. hub.hist = <<>>
      BY <1>1, <2>3 DEF L
    <3> QED BY <3>1 DEF HubOk
  <2>4. CASE L # 0
    <3>1. L \in 1 .. L /\ hub.hist[L].id <= a /\ hub.hist[L].id = f - 1 + L
      BY <1>1, <1>2, <1>3, <1>6, <2>2, <2>4
    <3> QED BY <1>1, <1>3, <3>1
  <2> QED BY <2>3, <2>4
<1>12. hub.next - Len(r) = a + 1 \/ hub.next - Len(r) = hub.next - L \/ r = <<>>
  <2>1. CASE b = 0
    BY <1>1, <1>8, <2>1
  <2>2. CASE b = L
    <3>1. Len(r) = 0
      BY <1>1, <1>8, <2>2
    <3> QED BY <1>8, <3>1
  <2>3. CASE b # 0 /\ b # L
    <3>1. b \in 1 .. L /\ b + 1 \in 1 .. L
      BY <1>1, <1>6, <2>3
    <3>2. hub.hist[b].id <= a /\ ~(hub.hist[b + 1].id <= a)
      BY <1>6, <3>1
    <3>3. hub.hist[b].id = f - 1 + b /\ hub.hist[b + 1].id = f - 1 + (b + 1)
      BY <1>2, <1>3, <3>1
    <3>4. f \in Int /\ b \in Int /\ a \in Int /\ L \in Int /\ hub.next = f + L /\ Len(r) = L - b
      BY <1>1, <1>3, <1>6, <1>8
    <3>5. f - 1 + b <= a /\ ~(f - 1 + (b + 1) <= a)
      BY <3>2, <3>3
    <3>6. \A u, v, w, t \in Int : u - 1 + v <= w /\ ~(u - 1 + (v + 1) <= w) => (u + t) - (t - v) = w + 1
      OBVIOUS
    <3>7. (f + L) - (L - b) = a + 1
      BY <3>4, <3>5, <3>6
    <3> QED BY <3>4, <3>7
  <2> QED BY <2>1, <2>2, <2>3
<1>13. Len(r) <= Limit
  BY <1>1, <1>6, <1>8
<1> QED BY <1>8, <1>9, <1>10, <1>11, <1>12, <1>13 DEF r, L

(* A subscription starts with all that follows the events the client has.   *)
LEMMA SubscribedClient ==
    ASSUME HubOk(hub, made), hub.on, NEW a \in Nat,
           NEW k, ClientOk(k, hub, made), NEW q \in ClientType, q.fwd = Subscribed(a),
           q.conn, ~q.resub, q.mixed = Mixed(k), q.track = k.track, q.last = k.last, q.base = k.base,
           q.reset = k.reset, q.twice = k.twice, q.got \subseteq k.got,
           ~q.lossy => ~k.lossy /\ q.got = k.got /\ hub.next - Len(hub.hist) <= a + 1,
           ~q.lossy /\ hub.gen \notin q.mixed => HasAll(k, hub.gen, a),
           ~k.reset => k.track \/ k.got = {}
    PROVE  ClientOk(q, hub, made)
<1> DEFINE r == Replay(a)
           p == InFlight(q)
<1>1. /\ r \in Seq(HubEvents) /\ Len(r) \in Nat /\ Len(r) <= Limit
      /\ \A i \in DOMAIN r : r[i].gen = hub.gen /\ r[i].id = hub.next - Len(r) - 1 + i /\ r[i].id > a
      /\ r = <<>> => hub.next - 1 <= a
      /\ r # <<>> => \/ hub.next - Len(r) = a + 1
                     \/ hub.next - Len(r) = hub.next - Len(hub.hist)
  BY ReplayIs
<1>2. /\ q.fwd.at = "on" /\ q.fwd.replay = r /\ q.fwd.live = <<>> /\ q.fwd.open
      /\ p = r /\ DOMAIN r = 1 .. Len(r)
  BY <1>1 DEF Subscribed, InFlight
<1>3. hub.next \in Nat /\ hub.gen = made /\ made \in Nat /\ hub.gen # 0 /\ Limit \in Nat /\ Len(hub.hist) \in Nat
  BY WebAssumption DEF HubOk
<1>4. \A g, n : HasAll(q, g, n) <=> \A i \in 1 .. n : <<g, i>> \in q.got
  BY DEF HasAll
<1>5. /\ \A g \in k.got : Numbered(g[1], g[2], hub, made)
      /\ k.mixed \subseteq q.mixed
      /\ hub.gen \notin q.mixed /\ k.track => k.base \in {0, hub.gen}
  BY DEF ClientOk, PlaceOk, Mixed
<1>6. ASSUME NEW i \in DOMAIN r PROVE Numbered(r[i].gen, r[i].id, hub, made)
  <2>1. i \in 1 .. Len(r) /\ r[i].gen = hub.gen /\ r[i].id = hub.next - Len(r) - 1 + i /\ r[i].id > a
    BY <1>1, <1>2
  <2>2. r[i].id < hub.next /\ r[i].id \in Nat \ {0}
    <3>1. r[i] \in HubEvents
      BY <1>1, <1>2
    <3>2. r[i].id \in Nat
      BY <3>1 DEF HubEvents
    <3>3. r[i].id # 0
      BY <2>1, <3>2
    <3>4. r[i].id < hub.next
      BY <1>1, <1>3, <2>1
    <3> QED BY <3>2, <3>3, <3>4
  <2>3. r[i].gen \in 1 .. made
    BY <1>3, <2>1
  <2> QED BY <2>2, <2>3 DEF Numbered
<1> HIDE DEF r, p
<1>7. ASSUME NEW i \in DOMAIN r PROVE r[i].gen = r[1].gen /\ \A j \in 1 .. i - 1 : r[j].id < r[i].id
  <2>1. i \in 1 .. Len(r) /\ 1 \in DOMAIN r /\ \A j \in 1 .. i - 1 : j \in DOMAIN r /\ j < i
    BY <1>1, <1>2
  <2>2. r[i].gen = r[1].gen /\ r[i].id = hub.next - Len(r) - 1 + i
    BY <1>1, <2>1
  <2>3. ASSUME NEW j \in 1 .. i - 1 PROVE r[j].id < r[i].id
    <3>1. r[j].id = hub.next - Len(r) - 1 + j /\ j < i /\ j \in Int /\ i \in Int
      BY <1>1, <2>1
    <3>2. \A n, l, u, v \in Int : u < v => n - l - 1 + u < n - l - 1 + v
      OBVIOUS
    <3>3. hub.next - Len(r) - 1 + j < hub.next - Len(r) - 1 + i
      BY <1>1, <1>3, <3>1, <3>2
    <3> QED BY <2>2, <3>1, <3>3
  <2> QED BY <2>2, <2>3
<1>8. PlaceOk(q, hub, made)
  <2>1. Len(<<>>) = 0 /\ Len(q.fwd.replay) <= Limit /\ Len(q.fwd.live) <= Limit
    BY <1>1, <1>2, <1>3
  <2>2. \A i \in DOMAIN p : /\ Numbered(p[i].gen, p[i].id, hub, made) /\ p[i].gen = p[1].gen
                            /\ p[i].gen = hub.gen
                            /\ \A j \in 1 .. i - 1 : p[j].id < p[i].id
    BY <1>1, <1>2, <1>6, <1>7
  <2>3. \A g \in q.got : Numbered(g[1], g[2], hub, made)
    BY <1>5
  <2> QED BY <1>2, <2>1, <2>2, <2>3 DEF PlaceOk, p
<1>9. ASSUME ~q.lossy, r # <<>>
      PROVE  /\ r[1].gen = hub.gen /\ r[1].id = a + 1 /\ r[Len(r)].id = hub.next - 1
             /\ \A i \in DOMAIN r : r[i].id = r[1].id + i - 1
  <2>1. Len(r) >= 1 /\ 1 \in DOMAIN r /\ Len(r) \in DOMAIN r
    BY <1>1, <1>2, <1>9
  <2>2. r[1].gen = hub.gen /\ r[1].id = hub.next - Len(r) /\ r[1].id > a /\ r[Len(r)].id = hub.next - 1
    <3>1. r[1].id = hub.next - Len(r) - 1 + 1 /\ r[Len(r)].id = hub.next - Len(r) - 1 + Len(r)
      BY <1>1, <2>1
    <3> QED BY <1>1, <1>3, <2>1, <3>1
  <2>3. r[1].id = a + 1
    <3>1. hub.next - Len(r) <= a + 1
      BY <1>1, <1>3, <1>9
    <3>2. \A u, v \in Int : u <= v + 1 /\ u > v => u = v + 1
      OBVIOUS
    <3>3. hub.next - Len(r) \in Int /\ a \in Int /\ hub.next - Len(r) > a
      BY <1>1, <1>3, <2>2
    <3> QED BY <2>2, <3>1, <3>2, <3>3
  <2>4. ASSUME NEW i \in DOMAIN r PROVE r[i].id = r[1].id + i - 1
    <3>1. r[i].id = hub.next - Len(r) - 1 + i /\ i \in Int
      BY <1>1, <1>2
    <3>2. \A n, l, u \in Int : n - l - 1 + u = (n - l) + u - 1
      OBVIOUS
    <3>3. hub.next \in Int /\ Len(r) \in Int
      BY <1>1, <1>3
    <3>4. r[i].id = (hub.next - Len(r)) + i - 1
      BY <3>1, <3>2, <3>3
    <3> QED BY <2>2, <3>4
  <2> QED BY <2>2, <2>3, <2>4
<1>10. WholeOk(q, hub)
  <2>1. q.track /\ q.base = 0 => q.last = 0
    BY DEF ClientOk, WholeOk
  <2>2. ASSUME ~q.lossy
        PROVE  /\ \A g \in q.got : g[1] \notin q.mixed => HasAll(q, g[1], g[2])
               /\ q.track /\ q.base # 0 /\ q.base \notin q.mixed => HasAll(q, q.base, q.last)
    <3>1. \A g, n : HasAll(q, g, n) <=> HasAll(k, g, n)
      BY <2>2 DEF HasAll
    <3> QED BY <1>5, <2>2, <3>1 DEF ClientOk, WholeOk
  <2>3. ASSUME ~q.lossy, hub.gen \notin q.mixed
        PROVE  HasAll(q, hub.gen, a) /\ (q.track /\ q.base # 0 => q.base = hub.gen)
    BY <1>5, <2>3 DEF HasAll
  <2>4. ASSUME ~q.lossy, r # <<>>
        PROVE  /\ \A i \in DOMAIN p : p[i].id = p[1].id + i - 1
               /\ p[1].gen \notin q.mixed =>
                    /\ HasAll(q, p[1].gen, p[1].id - 1)
                    /\ q.track /\ q.base # 0 => q.base = p[1].gen
               /\ p[Len(p)].id = hub.next - 1
    <3>1. r[1].id - 1 = a
      <4>1. r[1].id = a + 1
        BY <1>9, <2>4
      <4> QED BY <4>1
    <3> QED BY <1>2, <1>9, <2>3, <2>4, <3>1
  <2>5. ASSUME ~q.lossy, r = <<>>, hub.gen \notin q.mixed PROVE HasAll(q, hub.gen, hub.next - 1)
    <3>1. hub.next - 1 <= a
      BY <1>1, <2>5
    <3>2. \A i \in 1 .. hub.next - 1 : i \in 1 .. a
      BY <1>3, <3>1
    <3> QED BY <2>3, <2>5, <3>2 DEF HasAll
  <2>6. r = <<>> => DOMAIN p = {}
    BY <1>1, <1>2
  <2> QED BY <1>2, <2>1, <2>2, <2>3, <2>4, <2>5, <2>6 DEF WholeOk, p
<1>11. OnceOk(q, hub)
  BY <1>2 DEF ClientOk, OnceOk
<1> QED BY <1>8, <1>10, <1>11 DEF ClientOk

(* The events of one sequence, then those of another.                       *)
LEMMA JoinedSeq ==
    ASSUME NEW S, NEW s \in Seq(S), NEW t \in Seq(S)
    PROVE  /\ s \o t \in Seq(S) /\ Len(s) \in Nat /\ Len(t) \in Nat
           /\ Len(s \o t) = Len(s) + Len(t) /\ DOMAIN (s \o t) = 1 .. Len(s) + Len(t)
           /\ \A i \in 1 .. Len(s) : (s \o t)[i] = s[i]
           /\ \A i \in Len(s) + 1 .. Len(s) + Len(t) : (s \o t)[i] = t[i - Len(s)]
<1>1. Len(s) \in Nat /\ Len(t) \in Nat
  OBVIOUS
<1>2. /\ s \o t \in Seq(S) /\ Len(s \o t) = Len(s) + Len(t)
      /\ \A i \in 1 .. Len(s) + Len(t) : (s \o t)[i] = IF i <= Len(s) THEN s[i] ELSE t[i - Len(s)]
  BY ConcatProperties
<1>3. DOMAIN (s \o t) = 1 .. Len(s \o t)
  BY <1>2
<1>4. \A i \in 1 .. Len(s) : i \in 1 .. Len(s) + Len(t) /\ i <= Len(s)
  BY <1>1
<1>5. \A i \in Len(s) + 1 .. Len(s) + Len(t) : i \in 1 .. Len(s) + Len(t) /\ ~(i <= Len(s))
  BY <1>1
<1> QED BY <1>1, <1>2, <1>3, <1>4, <1>5

(* An event x joins what waits at a client: it follows all of it, less the  *)
(* oldest live event when there are Limit of them.                          *)
Joined(k, q, x) ==
    /\ q \in ClientType
    /\ q.conn = k.conn /\ q.track = k.track /\ q.last = k.last /\ q.resub = k.resub /\ q.base = k.base
    /\ q.mixed = k.mixed /\ q.got = k.got /\ q.reset = k.reset /\ q.twice = k.twice
    /\ q.fwd.at = k.fwd.at /\ q.fwd.replay = k.fwd.replay /\ q.fwd.open = k.fwd.open
    /\ Len(k.fwd.replay) \in Nat /\ Len(InFlight(k)) \in Nat /\ Len(InFlight(q)) = Len(InFlight(k)) + 1 - Dropped(k)
    /\ Len(q.fwd.live) <= Limit /\ (~q.lossy => ~k.lossy /\ Dropped(k) = 0)
    /\ DOMAIN InFlight(k) = 1 .. Len(InFlight(k)) /\ DOMAIN InFlight(q) = 1 .. Len(InFlight(q))
    /\ Len(InFlight(q)) >= 1 /\ InFlight(q)[Len(InFlight(q))] = x
    /\ \A i \in 1 .. Len(InFlight(q)) - 1 :
         /\ (IF i <= Len(k.fwd.replay) THEN i ELSE i + Dropped(k)) \in DOMAIN InFlight(k)
         /\ InFlight(q)[i] = InFlight(k)[IF i <= Len(k.fwd.replay) THEN i ELSE i + Dropped(k)]

(* An event that reaches an open subscription joins what waits there.       *)
LEMMA LiveEvents ==
    ASSUME NEW k \in ClientType, NEW x \in HubEvents, NEW q, Len(k.fwd.live) <= Limit,
           q = [k EXCEPT !.fwd.live = Append(IF Len(k.fwd.live) >= Limit THEN Tail(k.fwd.live)
                                             ELSE k.fwd.live, x),
                         !.lossy = k.lossy \/ Len(k.fwd.live) >= Limit]
    PROVE  Joined(k, q, x)
<1> DEFINE d == Dropped(k)
           R == Len(k.fwd.replay)
           V == Len(k.fwd.live)
           rest == IF Len(k.fwd.live) >= Limit THEN Tail(k.fwd.live) ELSE k.fwd.live
           new == Append(rest, x)
<1>1. /\ k.fwd \in ForwardType /\ k.fwd.replay \in Seq(HubEvents) /\ k.fwd.live \in Seq(HubEvents)
      /\ k.lossy \in BOOLEAN
  BY DEF ClientType, ForwardType
<1>2. R \in Nat /\ V \in Nat /\ Limit \in Nat /\ Limit # 0 /\ d = IF V >= Limit THEN 1 ELSE 0
  BY <1>1, WebAssumption DEF Dropped
<1>3. rest \in Seq(HubEvents) /\ Len(rest) = V - d /\ d \in {0, 1}
      /\ \A i \in 1 .. Len(rest) : i + d \in 1 .. V /\ rest[i] = k.fwd.live[i + d]
  <2>1. CASE V >= Limit
    <3>1. k.fwd.live # <<>> /\ d = 1 /\ rest = Tail(k.fwd.live)
      BY <1>1, <1>2, <2>1
    <3> QED BY <1>1, <1>2, <3>1
  <2>2. CASE ~(V >= Limit)
    BY <1>1, <1>2, <2>2
  <2> QED BY <2>1, <2>2
<1>4. new \in Seq(HubEvents) /\ Len(new) = Len(rest) + 1 /\ new[Len(new)] = x
      /\ \A i \in 1 .. Len(rest) : new[i] = rest[i]
  BY <1>3
<1>5. q = [k EXCEPT !.fwd.live = new, !.lossy = k.lossy \/ V >= Limit]
  OBVIOUS
<1> HIDE DEF d, R, V, rest, new
<1>6. /\ q \in ClientType
      /\ q.conn = k.conn /\ q.track = k.track /\ q.last = k.last /\ q.resub = k.resub /\ q.base = k.base
      /\ q.mixed = k.mixed /\ q.got = k.got /\ q.reset = k.reset /\ q.twice = k.twice
      /\ q.fwd = [k.fwd EXCEPT !.live = new] /\ q.lossy = (k.lossy \/ V >= Limit)
  <2>1. [k.fwd EXCEPT !.live = new] \in ForwardType
    BY <1>1, <1>4 DEF ForwardType
  <2>2. q = [k EXCEPT !.fwd = [k.fwd EXCEPT !.live = new], !.lossy = k.lossy \/ V >= Limit]
    BY <1>5 DEF ClientType
  <2>3. (k.lossy \/ V >= Limit) \in BOOLEAN
    OBVIOUS
  <2> QED BY <2>1, <2>2, <2>3 DEF ClientType
<1>7. q.fwd.at = k.fwd.at /\ q.fwd.replay = k.fwd.replay /\ q.fwd.open = k.fwd.open /\ q.fwd.live = new
  BY <1>1, <1>6 DEF ForwardType
<1>8. InFlight(q) = k.fwd.replay \o new /\ InFlight(k) = k.fwd.replay \o k.fwd.live
  BY <1>7 DEF InFlight
<1>9. /\ Len(InFlight(k)) = R + V /\ DOMAIN InFlight(k) = 1 .. R + V
      /\ Len(InFlight(q)) = R + V + 1 - d /\ DOMAIN InFlight(q) = 1 .. Len(InFlight(q))
      /\ \A i \in 1 .. R : InFlight(k)[i] = k.fwd.replay[i] /\ InFlight(q)[i] = k.fwd.replay[i]
      /\ \A i \in R + 1 .. R + V : InFlight(k)[i] = k.fwd.live[i - R]
      /\ \A i \in R + 1 .. Len(InFlight(q)) : InFlight(q)[i] = new[i - R]
  <2>1. /\ Len(InFlight(k)) = R + V /\ DOMAIN InFlight(k) = 1 .. R + V
        /\ \A i \in 1 .. R : InFlight(k)[i] = k.fwd.replay[i]
        /\ \A i \in R + 1 .. R + V : InFlight(k)[i] = k.fwd.live[i - R]
    <3> DEFINE s == k.fwd.replay
               t == k.fwd.live
    <3>1. s \in Seq(HubEvents) /\ t \in Seq(HubEvents)
      BY <1>1
    <3> HIDE DEF s, t
    <3>2. /\ Len(s \o t) = Len(s) + Len(t) /\ DOMAIN (s \o t) = 1 .. Len(s) + Len(t)
          /\ \A i \in 1 .. Len(s) : (s \o t)[i] = s[i]
          /\ \A i \in Len(s) + 1 .. Len(s) + Len(t) : (s \o t)[i] = t[i - Len(s)]
      BY <3>1, JoinedSeq, Zenon
    <3> QED BY <1>8, <3>2 DEF R, V, s, t
  <2>2. R + Len(new) = R + V + 1 - d
    BY <1>2, <1>3, <1>4
  <2>3. /\ Len(InFlight(q)) = R + Len(new) /\ DOMAIN InFlight(q) = 1 .. R + Len(new)
        /\ \A i \in 1 .. R : InFlight(q)[i] = k.fwd.replay[i]
        /\ \A i \in R + 1 .. R + Len(new) : InFlight(q)[i] = new[i - R]
    <3> DEFINE s == k.fwd.replay
    <3>1. s \in Seq(HubEvents) /\ new \in Seq(HubEvents)
      BY <1>1, <1>4
    <3> HIDE DEF s
    <3>2. /\ Len(s \o new) = Len(s) + Len(new) /\ DOMAIN (s \o new) = 1 .. Len(s) + Len(new)
          /\ \A i \in 1 .. Len(s) : (s \o new)[i] = s[i]
          /\ \A i \in Len(s) + 1 .. Len(s) + Len(new) : (s \o new)[i] = new[i - Len(s)]
      BY <3>1, JoinedSeq, Zenon
    <3> QED BY <1>8, <3>2 DEF R, s
  <2> QED BY <2>1, <2>2, <2>3
<1>10. Len(new) <= Limit
  <2>1. V <= Limit /\ (d = 0 => V < Limit)
    BY <1>2 DEF V
  <2> QED BY <1>2, <1>3, <1>4, <2>1
<1>11. ~q.lossy => ~k.lossy /\ d = 0
  BY <1>1, <1>2, <1>6 DEF V
<1>12. Len(InFlight(q)) \in Nat /\ Len(InFlight(q)) >= 1 /\ Len(InFlight(q)) >= R + 1
       /\ Len(InFlight(q)) - R = Len(new) /\ d <= V
  <2>1. Len(rest) \in Nat
    BY <1>3
  <2> QED BY <1>2, <1>3, <1>4, <1>9, <2>1
<1>13. InFlight(q)[Len(InFlight(q))] = x
  BY <1>2, <1>4, <1>9, <1>12
<1>14. ASSUME NEW i \in 1 .. Len(InFlight(q)) - 1
       PROVE  /\ (IF i <= R THEN i ELSE i + d) \in DOMAIN InFlight(k)
              /\ InFlight(q)[i] = InFlight(k)[IF i <= R THEN i ELSE i + d]
  <2>1. CASE i <= R
    <3>1. i \in 1 .. R /\ i \in 1 .. R + V
      BY <1>2, <2>1
    <3> QED BY <1>9, <2>1, <3>1
  <2>2. CASE ~(i <= R)
    <3>1. i - R \in 1 .. Len(rest) /\ i \in R + 1 .. Len(InFlight(q)) /\ i \in Int
      BY <1>2, <1>4, <1>12, <2>2
    <3>2. InFlight(q)[i] = rest[i - R] /\ rest[i - R] = k.fwd.live[(i - R) + d] /\ (i - R) + d \in 1 .. V
      BY <1>3, <1>4, <1>9, <3>1
    <3>3. i + d \in R + 1 .. R + V /\ (i + d) - R = (i - R) + d /\ i + d \in 1 .. R + V
      <4>1. R \in Int /\ V \in Int /\ d \in Int /\ i \in Int /\ (i - R) + d \in 1 .. V
        BY <1>2, <1>3, <3>1, <3>2
      <4>2. R >= 0
        BY <1>2
      <4> QED BY <4>1, <4>2
    <3>4. InFlight(k)[i + d] = k.fwd.live[(i + d) - R]
      BY <1>9, <3>3
    <3> QED BY <1>9, <2>2, <3>2, <3>3, <3>4
  <2> QED BY <2>1, <2>2
<1>15. Len(InFlight(q)) = Len(InFlight(k)) + 1 - d /\ Len(InFlight(k)) \in Nat
  BY <1>2, <1>9
<1>16. DOMAIN InFlight(k) = 1 .. Len(InFlight(k)) /\ DOMAIN InFlight(q) = 1 .. Len(InFlight(q))
  BY <1>9
<1>17. Len(q.fwd.live) <= Limit
  BY <1>7, <1>10
<1> QED BY <1>2, <1>6, <1>7, <1>11, <1>12, <1>13, <1>14, <1>15, <1>16, <1>17 DEF Joined, d, R

(* Publishing an event keeps every promise to a client: its open            *)
(* subscription gets the event, and it takes note when one is lost for it.  *)
LEMMA ToldClient ==
    ASSUME NEW h, NEW m, HubOk(h, m), h.on, NEW e \in RunEvents, NEW cs, NEW c \in Clients,
           ClientOk(cs[c], h, m)
    PROVE  ClientOk(Broadcast(cs, h, e)[c], Published(h, e), m)
<1> DEFINE k == cs[c]
           q == Broadcast(cs, h, e)[c]
           z == Published(h, e)
           x == [gen |-> h.gen, id |-> h.next, turn |-> e.turn, end |-> e.end, terminal |-> e.terminal]
           p == InFlight(k)
           w == InFlight(q)
<1>1. /\ HubOk(z, m) /\ z.on /\ z.gen = h.gen /\ z.next = h.next + 1 /\ x \in HubEvents /\ Last(z.hist) = x
  <2>1. KeptAs(h, m, e, z, x, IF Len(h.hist) >= Limit THEN 1 ELSE 0)
    BY KeptEvents
  <2> HIDE DEF z, x
  <2> QED BY <2>1 DEF KeptAs
<1>2. x.gen = h.gen /\ x.id = h.next /\ h.next \in Nat /\ h.next >= 1 /\ h.gen = m /\ m \in Nat /\ m # 0
  BY DEF HubOk
<1>3. k \in ClientType /\ PlaceOk(k, h, m) /\ WholeOk(k, h) /\ OnceOk(k, h)
  BY DEF ClientOk
<1>4. \A g, n : Numbered(g, n, h, m) => Numbered(g, n, z, m)
  <2>1. ASSUME NEW g, NEW n, Numbered(g, n, h, m) PROVE Numbered(g, n, z, m)
    <3>1. z.on /\ g = z.gen => n < h.next
      BY <1>1, <2>1 DEF Numbered
    <3>2. n \in Nat /\ (n < h.next => n < z.next)
      BY <1>1, <1>2, <2>1 DEF Numbered
    <3> QED BY <2>1, <3>1, <3>2 DEF Numbered
  <2> QED BY <2>1
<1>5. CASE ~k.fwd.open
  <2>1. q = k
    BY <1>5 DEF Broadcast
  <2>2. PlaceOk(k, z, m)
    BY <1>3, <1>4, <1>5 DEF PlaceOk
  <2>3. WholeOk(k, z) /\ OnceOk(k, z)
    BY <1>3, <1>5 DEF WholeOk, OnceOk
  <2> QED BY <1>3, <2>1, <2>2, <2>3 DEF ClientOk
<1>6. CASE k.fwd.open
  <2> DEFINE d == Dropped(k)
             R == Len(k.fwd.replay)
  <2>1. q = [k EXCEPT !.fwd.live = Append(IF Len(k.fwd.live) >= Limit THEN Tail(k.fwd.live)
                                          ELSE k.fwd.live, x),
                      !.lossy = k.lossy \/ Len(k.fwd.live) >= Limit]
    BY <1>1, <1>6 DEF Broadcast
  <2>2. Len(k.fwd.live) <= Limit
    BY <1>3 DEF PlaceOk
  <2>3. /\ q \in ClientType
        /\ q.conn = k.conn /\ q.track = k.track /\ q.last = k.last /\ q.resub = k.resub /\ q.base = k.base
        /\ q.mixed = k.mixed /\ q.got = k.got /\ q.reset = k.reset /\ q.twice = k.twice
        /\ q.fwd.at = k.fwd.at /\ q.fwd.replay = k.fwd.replay /\ q.fwd.open = k.fwd.open
        /\ R \in Nat /\ Len(p) \in Nat /\ Len(w) = Len(p) + 1 - d
        /\ Len(q.fwd.live) <= Limit /\ (~q.lossy => ~k.lossy /\ d = 0)
        /\ DOMAIN p = 1 .. Len(p) /\ DOMAIN w = 1 .. Len(w)
        /\ Len(w) >= 1 /\ w[Len(w)] = x
        /\ \A i \in 1 .. Len(w) - 1 : /\ (IF i <= R THEN i ELSE i + d) \in DOMAIN p
                                      /\ w[i] = p[IF i <= R THEN i ELSE i + d]
    <3>1. k \in ClientType /\ x \in HubEvents
      BY <1>1, <1>3
    <3> HIDE DEF x, q, k
    <3>2. Joined(k, q, x)
      BY <2>1, <2>2, <3>1, LiveEvents
    <3> QED BY <3>2, Zenon DEF Joined, p, w, d, R
  <2>4. /\ k.fwd.at = "on" /\ h.on
        /\ \A i \in DOMAIN p : /\ Numbered(p[i].gen, p[i].id, h, m) /\ p[i].gen = h.gen
                               /\ \A j \in 1 .. i - 1 : p[j].id < p[i].id
    BY <1>3, <1>6 DEF PlaceOk
  <2>5. d \in {0, 1} /\ Len(w) \in Nat
    <3>1. d \in {0, 1}
      BY DEF Dropped
    <3> QED BY <2>3, <3>1
  <2> HIDE DEF x, q, k, p, w, d, R, z
  <2>6. ASSUME NEW i \in DOMAIN w, i # Len(w)
        PROVE  i \in 1 .. Len(w) - 1 /\ (IF i <= R THEN i ELSE i + d) \in DOMAIN p
               /\ w[i] = p[IF i <= R THEN i ELSE i + d]
    <3>1. i \in 1 .. Len(w) - 1
      BY <2>3, <2>5, <2>6
    <3> QED BY <2>3, <3>1
  <2>7. ASSUME NEW i \in DOMAIN w PROVE Numbered(w[i].gen, w[i].id, z, m) /\ w[i].gen = h.gen /\ w[i].id <= h.next
                                        /\ (i # Len(w) => w[i].id < h.next)
    <3>1. CASE i = Len(w)
      <4>1. w[i] = x
        BY <2>3, <3>1
      <4>2. Numbered(h.gen, h.next, z, m)
        BY <1>1, <1>2 DEF Numbered
      <4> QED BY <1>2, <3>1, <4>1, <4>2
    <3>2. CASE i # Len(w)
      <4>1. PICK l \in DOMAIN p : w[i] = p[l]
        BY <2>6, <3>2
      <4>2. Numbered(p[l].gen, p[l].id, h, m) /\ p[l].gen = h.gen
        BY <2>4
      <4>3. p[l].id < h.next /\ p[l].id \in Nat
        BY <2>4, <4>2 DEF Numbered
      <4> QED BY <1>2, <1>4, <4>1, <4>2, <4>3
    <3> QED BY <3>1, <3>2
  <2>8. ASSUME NEW i \in DOMAIN w, NEW j \in 1 .. i - 1 PROVE w[j].id < w[i].id
    <3>1. j \in DOMAIN w /\ j # Len(w) /\ i \in Int /\ j \in Int /\ j < i /\ i <= Len(w) /\ j >= 1
      BY <2>3, <2>5
    <3>2. CASE i = Len(w)
      <4>1. w[i].id = h.next /\ w[j].id < h.next
        BY <1>2, <2>3, <2>7, <3>1, <3>2
      <4> QED BY <4>1
    <3>3. CASE i # Len(w)
      <4> DEFINE u == IF i <= R THEN i ELSE i + d
                 v == IF j <= R THEN j ELSE j + d
      <4>1. u \in DOMAIN p /\ v \in DOMAIN p /\ w[i] = p[u] /\ w[j] = p[v]
        BY <2>6, <3>1, <3>3
      <4>2. v \in 1 .. u - 1
        BY <2>3, <2>5, <3>1
      <4> QED BY <2>4, <4>1, <4>2
    <3> QED BY <3>2, <3>3
  <2>9. 1 \in DOMAIN w /\ Len(w) \in DOMAIN w
    BY <2>3, <2>5
  <2>10. PlaceOk(q, z, m)
    <3>1. \A i \in DOMAIN w : w[i].gen = w[1].gen
      BY <2>7, <2>9
    <3>2. \A g \in q.got : Numbered(g[1], g[2], z, m)
      BY <1>3, <1>4, <2>3 DEF PlaceOk
    <3>3. Len(q.fwd.replay) <= Limit /\ Len(q.fwd.live) <= Limit
          /\ (q.resub => q.conn /\ q.track) /\ (~q.conn \/ q.resub => q.fwd.at = "none")
      BY <1>3, <2>3 DEF PlaceOk
    <3>4. \A i \in DOMAIN w : /\ Numbered(w[i].gen, w[i].id, z, m) /\ w[i].gen = w[1].gen
                              /\ q.fwd.open => w[i].gen = z.gen
                              /\ \A j \in 1 .. i - 1 : w[j].id < w[i].id
      BY <1>1, <2>7, <2>8, <3>1
    <3>5. q.fwd.at = "on"
      BY <2>3, <2>4
    <3> QED BY <1>1, <3>2, <3>3, <3>4, <3>5 DEF PlaceOk, w
  <2>11. \A g, n : HasAll(q, g, n) <=> HasAll(k, g, n)
    BY <2>3 DEF HasAll
  <2>12. ASSUME ~q.lossy PROVE ~k.lossy /\ Len(w) = Len(p) + 1 /\ \A i \in DOMAIN p : i \in DOMAIN w /\ w[i] = p[i]
    <3>1. ~k.lossy /\ d = 0
      BY <2>3, <2>12
    <3>2. Len(w) = Len(p) + 1 /\ \A i \in 1 .. Len(w) - 1 : w[i] = p[i]
      BY <2>3, <3>1
    <3>3. \A i \in 1 .. Len(p) : i \in 1 .. Len(w) - 1 /\ i \in 1 .. Len(w)
      BY <2>3, <3>2
    <3> QED BY <2>3, <3>1, <3>2, <3>3
  <2>13. ASSUME ~q.lossy, p # <<>>
         PROVE  /\ p[Len(p)].id = h.next - 1 /\ \A i \in DOMAIN p : p[i].id = p[1].id + i - 1
                /\ w[1] = p[1] /\ Len(p) \in DOMAIN p /\ h.next = p[1].id + Len(p) /\ p[1].id \in Int
    <3>1. p[Len(p)].id = h.next - 1 /\ \A i \in DOMAIN p : p[i].id = p[1].id + i - 1
      BY <1>3, <1>6, <2>12, <2>13 DEF WholeOk, p
    <3>2. k.fwd.replay \in Seq(HubEvents) /\ k.fwd.live \in Seq(HubEvents)
      BY <1>3 DEF ClientType, ForwardType
    <3>3. p \in Seq(HubEvents)
      BY <3>2 DEF p, InFlight
    <3>4. Len(p) # 0
      BY <2>13, <3>3
    <3>5. 1 \in DOMAIN p /\ Len(p) \in DOMAIN p
      BY <2>3, <3>4
    <3>6. p[1].id \in Int
      BY <2>4, <3>5 DEF Numbered
    <3>7. p[Len(p)].id = p[1].id + Len(p) - 1
      BY <3>1, <3>5
    <3>8. h.next = p[1].id + Len(p)
      <4>1. h.next - 1 = p[1].id + Len(p) - 1
        BY <3>1, <3>7
      <4>2. h.next \in Int /\ Len(p) \in Int
        BY <1>2, <2>3
      <4> QED BY <3>6, <4>1, <4>2
    <3> QED BY <2>12, <2>13, <3>1, <3>5, <3>6, <3>8
  <2>14. ASSUME ~q.lossy PROVE \A i \in DOMAIN w : w[i].id = w[1].id + i - 1
    <3>1. CASE p = <<>>
      <4>1. Len(p) = 0
        BY <3>1
      <4>2. Len(w) = 1 /\ w[1] = x /\ DOMAIN w = {1}
        BY <2>3, <2>12, <2>14, <4>1, SMTT(60)
      <4> QED BY <1>2, <4>2
    <3>2. CASE p # <<>>
      <4>1. ASSUME NEW i \in DOMAIN w PROVE w[i].id = w[1].id + i - 1
        <5>1. CASE i = Len(w)
          <6>1. w[i].id = h.next /\ i = Len(p) + 1
            BY <1>2, <2>3, <2>12, <2>14, <5>1
          <6> QED BY <2>3, <2>13, <2>14, <3>2, <6>1
        <5>2. CASE i # Len(w)
          <6>1. i \in DOMAIN p
            BY <2>3, <2>12, <2>14, <5>2
          <6> QED BY <2>12, <2>13, <2>14, <3>2, <6>1
        <5> QED BY <5>1, <5>2
      <4> QED BY <4>1
    <3> QED BY <3>1, <3>2
  <2>15. ASSUME ~q.lossy, h.gen \notin q.mixed
         PROVE  HasAll(q, h.gen, w[1].id - 1) /\ (q.track /\ q.base # 0 => q.base = h.gen)
    <3>1. k.track /\ k.base # 0 => k.base = h.gen
      BY <1>3, <1>6, <2>3, <2>12, <2>15 DEF WholeOk
    <3>2. HasAll(k, h.gen, w[1].id - 1)
      <4>1. CASE p = <<>>
        <5>1. Len(p) = 0
          BY <4>1
        <5>2. w[1].id = h.next
          BY <1>2, <2>3, <2>12, <2>15, <5>1, SMTT(60)
        <5>3. HasAll(k, h.gen, h.next - 1)
          BY <1>3, <1>6, <2>3, <2>12, <2>15, <4>1 DEF WholeOk, p
        <5> QED BY <5>2, <5>3
      <4>2. CASE p # <<>>
        <5>1. w[1] = p[1] /\ p[1].gen = h.gen
          <6>1. 1 \in DOMAIN p
            BY <2>3, <2>13, <2>15, <4>2
          <6> QED BY <2>4, <2>13, <2>15, <4>2, <6>1
        <5>2. HasAll(k, p[1].gen, p[1].id - 1)
          BY <1>3, <2>3, <2>12, <2>15, <4>2, <5>1 DEF WholeOk, p
        <5> QED BY <5>1, <5>2
      <4> QED BY <4>1, <4>2
    <3> QED BY <2>3, <2>11, <3>1, <3>2
  <2>16. WholeOk(q, z)
    <3>1. q.track /\ q.base = 0 => q.last = 0
      BY <1>3, <2>3 DEF WholeOk
    <3>2. ASSUME ~q.lossy
          PROVE  /\ \A g \in q.got : g[1] \notin q.mixed => HasAll(q, g[1], g[2])
                 /\ q.track /\ q.base # 0 /\ q.base \notin q.mixed => HasAll(q, q.base, q.last)
      BY <1>3, <2>3, <2>11, <3>2 DEF WholeOk
    <3>3. w # <<>> /\ w[1].gen = h.gen /\ w[Len(w)].id = z.next - 1
      <4>1. w # <<>>
        BY <2>9
      <4> QED BY <1>1, <1>2, <2>3, <2>7, <2>9, <4>1
    <3> QED BY <1>1, <2>14, <2>15, <3>1, <3>2, <3>3 DEF WholeOk, w
  <2>17. OnceOk(q, z)
    <3>1. ~q.twice /\ q.fwd.at = "on"
      BY <1>3, <2>3, <2>4 DEF OnceOk
    <3>2. ASSUME ~q.reset, q.track, NEW g \in q.got PROVE g[2] <= q.last
      BY <1>3, <2>3, <3>2 DEF OnceOk
    <3>3. ASSUME ~q.reset, ~q.track, NEW g \in q.got
          PROVE  g[2] < z.next /\ \A i \in DOMAIN w : g[2] < w[i].id
      <4>1. g[2] < h.next /\ \A i \in DOMAIN p : g[2] < p[i].id
        BY <1>3, <1>6, <2>3, <2>4, <3>3 DEF OnceOk, p
      <4>2. g[2] \in Nat
        BY <1>3, <2>3 DEF ClientType
      <4>3. ASSUME NEW i \in DOMAIN w PROVE g[2] < w[i].id
        <5>1. CASE i = Len(w)
          BY <1>2, <2>3, <4>1, <5>1
        <5>2. CASE i # Len(w)
          BY <2>6, <4>1, <5>2
        <5> QED BY <5>1, <5>2
      <4> QED BY <1>1, <1>2, <4>1, <4>2, <4>3
    <3> QED BY <3>1, <3>2, <3>3 DEF OnceOk, w
  <2> QED BY <2>3, <2>10, <2>16, <2>17 DEF ClientOk, q, z
<1> QED BY <1>5, <1>6

(* What is left of a forwarder's events when the first one, head, is taken. *)
LeftOver(f, head, rest) ==
    LET p == f.replay \o f.live
        w == rest.replay \o rest.live IN
    /\ head = p[1] /\ p[1] \in HubEvents /\ 1 \in DOMAIN p /\ p # <<>>
    /\ rest \in ForwardType /\ rest.at = f.at /\ rest.open = f.open
    /\ Len(rest.replay) <= Limit /\ Len(rest.live) <= Limit
    /\ Len(p) \in Nat /\ Len(p) >= 1 /\ Len(w) = Len(p) - 1
    /\ DOMAIN p = 1 .. Len(p) /\ DOMAIN w = 1 .. Len(w)
    /\ \A i \in DOMAIN w : i + 1 \in DOMAIN p /\ w[i] = p[i + 1]

(* The event that is forwarded is the first that waits; the rest stays.     *)
LEMMA NextEvent ==
    ASSUME NEW f \in ForwardType, NEW q0, q0 = IF f.replay # <<>> THEN f.replay ELSE f.live, q0 # <<>>,
           NEW rest, rest = IF f.replay # <<>> THEN [f EXCEPT !.replay = Tail(@)]
                            ELSE [f EXCEPT !.live = Tail(@)],
           Len(f.replay) <= Limit, Len(f.live) <= Limit
    PROVE  LeftOver(f, Head(q0), rest)
<1> DEFINE p == f.replay \o f.live
           w == rest.replay \o rest.live
<1>1. f.replay \in Seq(HubEvents) /\ f.live \in Seq(HubEvents) /\ Limit \in Nat
  BY WebAssumption DEF ForwardType
<1>2. p \in Seq(HubEvents) /\ Len(p) \in Nat /\ DOMAIN p = 1 .. Len(p)
  <2>1. p \in Seq(HubEvents)
    BY <1>1
  <2> HIDE DEF p
  <2> QED BY <2>1
<1>3. /\ rest \in ForwardType /\ rest.at = f.at /\ rest.open = f.open
      /\ p # <<>> /\ Head(q0) = p[1] /\ w = Tail(p)
      /\ Len(rest.replay) <= Limit /\ Len(rest.live) <= Limit
  <2>1. CASE f.replay # <<>>
    <3>1. rest = [f EXCEPT !.replay = Tail(f.replay)] /\ q0 = f.replay
      BY <2>1
    <3>2. Tail(f.replay) \in Seq(HubEvents) /\ Len(f.replay) \in Nat /\ Len(Tail(f.replay)) = Len(f.replay) - 1
      BY <1>1, <2>1
    <3>3. rest \in ForwardType /\ rest.at = f.at /\ rest.open = f.open
          /\ rest.replay = Tail(f.replay) /\ rest.live = f.live
      BY <3>1, <3>2 DEF ForwardType
    <3>4. p # <<>> /\ Head(f.replay) = p[1] /\ w = Tail(p)
      <4> DEFINE s == f.replay
                 u == f.live
      <4>1. s \in Seq(HubEvents) /\ u \in Seq(HubEvents) /\ s # <<>>
        BY <1>1, <2>1
      <4>2. Len(s) \in Nat /\ Len(s) >= 1 /\ Len(u) \in Nat /\ Head(s) = s[1]
        <5>1. Len(s) \in Nat /\ Len(s) # 0 /\ Len(u) \in Nat /\ Head(s) = s[1]
          BY <4>1
        <5> QED BY <5>1
      <4>3. Tail(s) \in Seq(HubEvents) /\ Len(Tail(s)) = Len(s) - 1
            /\ \A i \in 1 .. Len(s) - 1 : Tail(s)[i] = s[i + 1]
        BY <4>1, HeadTailProperties
      <4> HIDE DEF s, u
      <4>4. /\ s \o u \in Seq(HubEvents) /\ Len(s \o u) = Len(s) + Len(u)
            /\ \A i \in 1 .. Len(s) : (s \o u)[i] = s[i]
            /\ \A i \in Len(s) + 1 .. Len(s) + Len(u) : (s \o u)[i] = u[i - Len(s)]
        BY <4>1, JoinedSeq, Zenon
      <4>5. /\ Tail(s) \o u \in Seq(HubEvents) /\ Len(Tail(s) \o u) = (Len(s) - 1) + Len(u)
            /\ \A i \in 1 .. Len(s) - 1 : (Tail(s) \o u)[i] = Tail(s)[i]
            /\ \A i \in (Len(s) - 1) + 1 .. (Len(s) - 1) + Len(u) : (Tail(s) \o u)[i] = u[i - (Len(s) - 1)]
        <5> DEFINE y == Tail(s)
        <5>1. y \in Seq(HubEvents) /\ Len(y) = Len(s) - 1
          BY <4>3
        <5> HIDE DEF y
        <5>2. /\ y \o u \in Seq(HubEvents) /\ Len(y \o u) = Len(y) + Len(u)
              /\ \A i \in 1 .. Len(y) : (y \o u)[i] = y[i]
              /\ \A i \in Len(y) + 1 .. Len(y) + Len(u) : (y \o u)[i] = u[i - Len(y)]
          BY <4>1, <5>1, JoinedSeq, Zenon
        <5> QED BY <5>1, <5>2 DEF y
      <4>6. s \o u # <<>> /\ (s \o u)[1] = s[1]
        <5>1. Len(s \o u) # 0
          BY <4>2, <4>4
        <5>2. 1 \in 1 .. Len(s)
          BY <4>2
        <5> QED BY <4>4, <5>1, <5>2
      <4>7. Tail(s \o u) \in Seq(HubEvents) /\ Len(Tail(s \o u)) = (Len(s) - 1) + Len(u)
            /\ \A i \in 1 .. (Len(s) - 1) + Len(u) : Tail(s \o u)[i] = (s \o u)[i + 1]
        <5> DEFINE y == s \o u
        <5>1. y \in Seq(HubEvents) /\ y # <<>> /\ Len(y) = Len(s) + Len(u)
          BY <4>4, <4>6
        <5> HIDE DEF y
        <5>2. Tail(y) \in Seq(HubEvents) /\ Len(Tail(y)) = Len(y) - 1
              /\ \A i \in 1 .. Len(Tail(y)) : Tail(y)[i] = y[i + 1]
          BY <5>1, HeadTailProperties
        <5>3. Len(y) - 1 = (Len(s) - 1) + Len(u)
          BY <4>2, <5>1
        <5> QED BY <5>2, <5>3 DEF y
      <4>8. ASSUME NEW i \in 1 .. (Len(s) - 1) + Len(u) PROVE (Tail(s) \o u)[i] = Tail(s \o u)[i]
        <5>1. CASE i <= Len(s) - 1
          <6>1. i \in 1 .. Len(s) - 1 /\ i + 1 \in 1 .. Len(s)
            BY <4>2, <5>1
          <6> QED BY <4>3, <4>4, <4>5, <4>7, <6>1
        <5>2. CASE ~(i <= Len(s) - 1)
          <6>1. /\ i \in (Len(s) - 1) + 1 .. (Len(s) - 1) + Len(u) /\ i + 1 \in Len(s) + 1 .. Len(s) + Len(u)
                /\ i - (Len(s) - 1) = (i + 1) - Len(s)
            BY <4>2, <5>2
          <6> QED BY <4>4, <4>5, <4>7, <6>1
        <5> QED BY <5>1, <5>2
      <4>9. Tail(s) \o u = Tail(s \o u)
        <5> DEFINE y == Tail(s) \o u
                   v == Tail(s \o u)
        <5>1. y \in Seq(HubEvents) /\ v \in Seq(HubEvents) /\ Len(y) = Len(v)
              /\ \A i \in 1 .. Len(v) : y[i] = v[i]
          BY <4>5, <4>7, <4>8
        <5> HIDE DEF y, v
        <5>2. y = v
          BY <5>1, SeqEqual
        <5> QED BY <5>2 DEF y, v
      <4> QED BY <3>3, <4>2, <4>6, <4>9 DEF s, u
    <3>5. Len(Tail(f.replay)) <= Limit
      BY <1>1, <3>2
    <3> QED BY <3>1, <3>3, <3>4, <3>5
  <2>2. CASE f.replay = <<>>
    <3>1. rest = [f EXCEPT !.live = Tail(f.live)] /\ q0 = f.live /\ f.live # <<>>
      BY <2>2
    <3>2. Tail(f.live) \in Seq(HubEvents) /\ Len(f.live) \in Nat /\ Len(Tail(f.live)) = Len(f.live) - 1
      BY <1>1, <3>1
    <3>3. rest \in ForwardType /\ rest.at = f.at /\ rest.open = f.open
          /\ rest.replay = <<>> /\ rest.live = Tail(f.live)
      BY <2>2, <3>1, <3>2 DEF ForwardType
    <3>4. p = f.live /\ w = Tail(f.live)
      BY <1>1, <2>2, <3>2, <3>3, ConcatEmptySeq
    <3>5. Head(f.live) = f.live[1] /\ Len(Tail(f.live)) <= Limit
      BY <1>1, <3>1, <3>2
    <3> QED BY <2>2, <3>1, <3>3, <3>4, <3>5
  <2> QED BY <2>1, <2>2
<1> HIDE DEF p, w
<1>4. Len(p) # 0
  BY <1>2, <1>3
<1>5. Len(w) = Len(p) - 1 /\ DOMAIN w = 1 .. Len(w) /\ \A i \in 1 .. Len(w) : w[i] = p[i + 1]
  BY <1>2, <1>3, HeadTailProperties
<1>6. 1 \in DOMAIN p /\ p[1] \in HubEvents /\ Len(p) >= 1
  BY <1>2, <1>4
<1>7. \A i \in 1 .. Len(w) : i + 1 \in 1 .. Len(p)
  BY <1>2, <1>5
<1> QED BY <1>2, <1>3, <1>5, <1>6, <1>7 DEF LeftOver, p, w

(* Applying the next event, or passing over one that was had already, keeps *)
(* every promise; after a terminal one the forwarder is over.               *)
LEMMA ForwardedClient ==
    ASSUME NEW h, NEW m, HubOk(h, m), NEW k, ClientOk(k, h, m), k.fwd.at = "on",
           NEW q0, q0 = IF k.fwd.replay # <<>> THEN k.fwd.replay ELSE k.fwd.live, q0 # <<>>,
           NEW rest, rest = IF k.fwd.replay # <<>> THEN [k.fwd EXCEPT !.replay = Tail(@)]
                            ELSE [k.fwd EXCEPT !.live = Tail(@)],
           NEW q, q = [Applied(k, Head(q0)) EXCEPT !.fwd = IF Head(q0).terminal THEN FwdOver ELSE rest]
    PROVE  ClientOk(q, h, m)
<1> DEFINE e == Head(q0)
           p == InFlight(k)
           w == rest.replay \o rest.live
           u == Applied(k, e)
           z == InFlight(q)
<1>1. k \in ClientType /\ PlaceOk(k, h, m) /\ WholeOk(k, h) /\ OnceOk(k, h) /\ k.fwd \in ForwardType
      /\ Len(k.fwd.replay) <= Limit /\ Len(k.fwd.live) <= Limit
  BY DEF ClientOk, ClientType, PlaceOk
<1>2. /\ e = p[1] /\ p[1] \in HubEvents /\ 1 \in DOMAIN p /\ p # <<>>
      /\ rest \in ForwardType /\ rest.at = "on" /\ rest.open = k.fwd.open
      /\ Len(rest.replay) <= Limit /\ Len(rest.live) <= Limit
      /\ Len(p) \in Nat /\ Len(p) >= 1 /\ Len(w) = Len(p) - 1
      /\ DOMAIN p = 1 .. Len(p) /\ DOMAIN w = 1 .. Len(w)
      /\ \A i \in DOMAIN w : i + 1 \in DOMAIN p /\ w[i] = p[i + 1]
  <2> DEFINE f == k.fwd
  <2>1. LeftOver(f, e, rest)
    <3>1. f \in ForwardType /\ Len(f.replay) <= Limit /\ Len(f.live) <= Limit
      BY <1>1
    <3> HIDE DEF f
    <3>2. LeftOver(f, Head(q0), rest)
      BY <3>1, NextEvent DEF f
    <3> QED BY <3>2
  <2> HIDE DEF e
  <2> QED BY <2>1 DEF LeftOver, InFlight
<1>3. /\ e.gen \in Nat /\ e.id \in Nat /\ e.terminal \in BOOLEAN /\ e.gen \in 1 .. m
      /\ Numbered(e.gen, e.id, h, m)
      /\ \A i \in DOMAIN p : /\ Numbered(p[i].gen, p[i].id, h, m) /\ p[i].gen = e.gen
                             /\ k.fwd.open => p[i].gen = h.gen
                             /\ \A j \in 1 .. i - 1 : p[j].id < p[i].id
  BY <1>1, <1>2 DEF PlaceOk, HubEvents, Numbered
<1>4. ~k.resub /\ k.conn /\ (k.fwd.open => h.on)
  BY <1>1 DEF PlaceOk
<1>5. /\ u \in ClientType /\ u.conn = k.conn /\ u.resub = k.resub /\ u.mixed = k.mixed /\ u.lossy = k.lossy
      /\ u.reset = k.reset /\ u.fwd = k.fwd
      /\ IF k.track /\ e.id <= k.last
         THEN u = k
         ELSE /\ u.last = (IF k.track THEN e.id ELSE k.last) /\ u.base = (IF k.track THEN e.gen ELSE k.base)
              /\ u.twice = (k.twice \/ (<<e.gen, e.id>> \in k.got /\ ~k.reset))
              /\ u.got = k.got \cup {<<e.gen, e.id>>}
              /\ u.track = (k.track /\ ~e.terminal)
  <2>1. CASE k.track /\ e.id <= k.last
    BY <1>1, <2>1 DEF Applied
  <2>2. CASE ~(k.track /\ e.id <= k.last)
    <3>1. u = [k EXCEPT !.last = IF k.track THEN e.id ELSE k.last,
                        !.base = IF k.track THEN e.gen ELSE k.base,
                        !.twice = k.twice \/ (<<e.gen, e.id>> \in k.got /\ ~k.reset),
                        !.got = k.got \cup {<<e.gen, e.id>>},
                        !.track = k.track /\ ~e.terminal]
      BY <2>2 DEF Applied
    <3>2. /\ (IF k.track THEN e.id ELSE k.last) \in Nat /\ (IF k.track THEN e.gen ELSE k.base) \in Nat
          /\ (k.twice \/ (<<e.gen, e.id>> \in k.got /\ ~k.reset)) \in BOOLEAN
          /\ k.got \cup {<<e.gen, e.id>>} \in SUBSET (Nat \X Nat)
          /\ (k.track /\ ~e.terminal) \in BOOLEAN
      BY <1>1, <1>3 DEF ClientType
    <3> HIDE DEF e, u
    <3> QED BY <1>1, <2>2, <3>1, <3>2, ZenonT(60) DEF ClientType
  <2> QED BY <2>1, <2>2
<1> HIDE DEF u
<1>6. /\ q \in ClientType /\ q.conn = k.conn /\ q.resub = k.resub /\ q.mixed = k.mixed /\ q.lossy = k.lossy
      /\ q.reset = k.reset /\ q.track = u.track /\ q.last = u.last /\ q.base = u.base
      /\ q.got = u.got /\ q.twice = u.twice /\ q.fwd = (IF e.terminal THEN FwdOver ELSE rest)
  <2>1. FwdOver \in ForwardType
    <3>1. <<>> \in Seq(HubEvents)
      OBVIOUS
    <3> QED BY <3>1 DEF FwdOver, NoForward, ForwardType
  <2>2. q = [u EXCEPT !.fwd = IF e.terminal THEN FwdOver ELSE rest]
    BY DEF u
  <2>3. (IF e.terminal THEN FwdOver ELSE rest) \in ForwardType
    BY <1>2, <2>1
  <2> HIDE DEF e
  <2> QED BY <1>5, <2>2, <2>3 DEF ClientType
<1> HIDE DEF e
<1>7. /\ q.fwd.at \in {"on", "over"} /\ (q.fwd.open => k.fwd.open) /\ (q.fwd.at = "on" => ~e.terminal)
      /\ (q.fwd.at # "on" => q.fwd.replay = <<>> /\ q.fwd.live = <<>> /\ ~q.fwd.open)
      /\ Len(q.fwd.replay) <= Limit /\ Len(q.fwd.live) <= Limit
      /\ (z = <<>> \/ z = w) /\ (q.fwd.open => z = w)
  <2>1. CASE e.terminal
    <3>1. q.fwd.at = "over" /\ q.fwd.replay = <<>> /\ q.fwd.live = <<>> /\ ~q.fwd.open
      BY <1>6, <2>1 DEF FwdOver, NoForward
    <3>2. Len(<<>>) = 0 /\ Limit \in Nat
      BY WebAssumption
    <3>3. z = <<>>
      BY <3>1, NothingWaits
    <3>4. Len(q.fwd.replay) <= Limit /\ Len(q.fwd.live) <= Limit
      BY <3>1, <3>2
    <3> HIDE DEF z
    <3> QED BY <3>1, <3>3, <3>4
  <2>2. CASE ~e.terminal
    <3>1. q.fwd = rest
      BY <1>6, <2>2
    <3>2. z = w
      BY <3>1 DEF InFlight
    <3> QED BY <1>2, <2>2, <3>1, <3>2
  <2> QED BY <1>3, <2>1, <2>2
<1> HIDE DEF p, w, z
<1>8. /\ \A i \in DOMAIN z : i \in Nat /\ i >= 1 /\ i + 1 \in DOMAIN p /\ z[i] = p[i + 1]
      /\ z # <<>> => z = w /\ 1 \in DOMAIN z /\ Len(z) \in DOMAIN z /\ Len(z) + 1 = Len(p)
      /\ q.fwd.open /\ z = <<>> => Len(p) = 1
  <2>1. \A i \in DOMAIN w : i \in Nat /\ i >= 1 /\ i + 1 \in DOMAIN p /\ w[i] = p[i + 1]
    BY <1>2
  <2>2. w # <<>> => Len(w) >= 1
    BY <1>2
  <2>3. z = <<>> => DOMAIN z = {} /\ Len(z) = 0
    OBVIOUS
  <2> QED BY <1>2, <1>7, <2>1, <2>2, <2>3
<1>9. \A g, n : HasAll(k, g, n) => HasAll(q, g, n)
  BY <1>5, <1>6 DEF HasAll
<1>10. \A g \in q.got : g \in k.got \/ g = <<e.gen, e.id>>
  BY <1>5, <1>6
<1>11. ASSUME NEW i \in DOMAIN z
       PROVE  /\ Numbered(z[i].gen, z[i].id, h, m) /\ z[i].gen = e.gen /\ e.id < z[i].id
              /\ k.fwd.open => z[i].gen = h.gen
              /\ \A j \in 1 .. i - 1 : z[j].id < z[i].id
  <2>1. i \in Nat /\ i >= 1 /\ i + 1 \in DOMAIN p /\ z[i] = p[i + 1]
    BY <1>8
  <2>2. /\ Numbered(p[i + 1].gen, p[i + 1].id, h, m) /\ p[i + 1].gen = e.gen
        /\ k.fwd.open => p[i + 1].gen = h.gen
        /\ \A j \in 1 .. (i + 1) - 1 : p[j].id < p[i + 1].id
    BY <1>3, <2>1
  <2>3. 1 \in 1 .. (i + 1) - 1
    BY <2>1
  <2>4. ASSUME NEW j \in 1 .. i - 1 PROVE z[j].id < z[i].id
    <3>1. j + 1 \in 1 .. (i + 1) - 1 /\ j \in 1 .. i
      BY <2>1
    <3>2. j \in DOMAIN z
      <4>1. z = w
        BY <1>8
      <4>2. i <= Len(w) /\ Len(w) \in Int /\ DOMAIN w = 1 .. Len(w)
        BY <1>2, <4>1
      <4> QED BY <2>1, <3>1, <4>1, <4>2
    <3>3. z[j] = p[j + 1]
      BY <1>8, <3>2
    <3> QED BY <2>1, <2>2, <3>1, <3>3
  <2> QED BY <1>2, <2>1, <2>2, <2>3, <2>4
<1>12. PlaceOk(q, h, m)
  <2>1. \A g \in q.got : Numbered(g[1], g[2], h, m)
    BY <1>1, <1>3, <1>10 DEF PlaceOk
  <2>2. \A i \in DOMAIN z : /\ Numbered(z[i].gen, z[i].id, h, m) /\ z[i].gen = z[1].gen
                            /\ q.fwd.open => z[i].gen = h.gen
                            /\ \A j \in 1 .. i - 1 : z[j].id < z[i].id
    <3>1. ASSUME NEW i \in DOMAIN z PROVE z[i].gen = z[1].gen
      <4>1. 1 \in DOMAIN z
        BY <1>8
      <4> QED BY <1>11, <4>1
    <3> QED BY <1>7, <1>11, <3>1
  <2> QED BY <1>4, <1>6, <1>7, <2>1, <2>2 DEF PlaceOk, z
<1>13. ASSUME ~q.lossy
       PROVE  /\ ~k.lossy
              /\ \A i \in DOMAIN p : p[i].id = e.id + i - 1
              /\ e.gen \notin k.mixed =>
                   HasAll(k, e.gen, e.id - 1) /\ (k.track /\ k.base # 0 => k.base = e.gen)
              /\ k.fwd.open => p[Len(p)].id = h.next - 1
              /\ \A g \in k.got : g[1] \notin k.mixed => HasAll(k, g[1], g[2])
              /\ k.track /\ k.base # 0 /\ k.base \notin k.mixed => HasAll(k, k.base, k.last)
  BY <1>1, <1>2, <1>6, <1>13 DEF WholeOk, p
<1>14. ASSUME ~q.lossy, e.gen \notin k.mixed PROVE HasAll(q, e.gen, e.id)
  <2>1. HasAll(q, e.gen, e.id - 1)
    BY <1>9, <1>13, <1>14
  <2>2. <<e.gen, e.id>> \in q.got
    <3>1. CASE k.track /\ e.id <= k.last
      <4>1. k.base # 0 /\ e.id >= 1
        BY <1>1, <1>3, <3>1 DEF WholeOk, Numbered
      <4>2. HasAll(k, e.gen, k.last)
        BY <1>13, <1>14, <3>1, <4>1
      <4>3. k.last \in Nat
        BY <1>1 DEF ClientType
      <4>4. e.id \in 1 .. k.last
        BY <1>3, <3>1, <4>1, <4>3
      <4> QED BY <1>5, <1>6, <3>1, <4>2, <4>4 DEF HasAll
    <3>2. CASE ~(k.track /\ e.id <= k.last)
      BY <1>5, <1>6, <3>2
    <3> QED BY <3>1, <3>2
  <2>3. \A i \in 1 .. e.id : i \in 1 .. e.id - 1 \/ i = e.id
    BY <1>3
  <2> QED BY <2>1, <2>2, <2>3 DEF HasAll
<1>15. WholeOk(q, h)
  <2>1. q.track /\ q.base = 0 => q.last = 0
    <3>1. CASE k.track /\ e.id <= k.last
      BY <1>1, <1>5, <1>6, <3>1 DEF WholeOk
    <3>2. CASE ~(k.track /\ e.id <= k.last)
      <4>1. e.gen # 0
        BY <1>3
      <4> QED BY <1>5, <1>6, <3>2, <4>1
    <3> QED BY <3>1, <3>2
  <2>2. ASSUME ~q.lossy, NEW g \in q.got, g[1] \notin q.mixed PROVE HasAll(q, g[1], g[2])
    <3>1. CASE g \in k.got
      BY <1>6, <1>9, <1>13, <2>2, <3>1
    <3>2. CASE g = <<e.gen, e.id>>
      BY <1>6, <1>14, <2>2, <3>2
    <3> QED BY <1>10, <3>1, <3>2
  <2>3. ASSUME ~q.lossy, q.track, q.base # 0, q.base \notin q.mixed PROVE HasAll(q, q.base, q.last)
    <3>1. CASE k.track /\ e.id <= k.last
      BY <1>5, <1>6, <1>9, <1>13, <2>3, <3>1, ZenonT(60)
    <3>2. CASE ~(k.track /\ e.id <= k.last)
      <4>1. q.base = e.gen /\ q.last = e.id
        BY <1>5, <1>6, <2>3, <3>2
      <4> QED BY <1>6, <1>14, <2>3, <4>1
    <3> QED BY <3>1, <3>2
  <2>4. ASSUME ~q.lossy, NEW i \in DOMAIN z PROVE z[i].id = e.id + i
    <3>1. i \in Nat /\ i + 1 \in DOMAIN p /\ z[i] = p[i + 1]
      BY <1>8
    <3>2. p[i + 1].id = e.id + (i + 1) - 1
      BY <1>13, <2>4, <3>1
    <3> QED BY <1>3, <3>1, <3>2
  <2>5. ASSUME ~q.lossy PROVE \A i \in DOMAIN z : z[i].id = z[1].id + i - 1
    <3>1. ASSUME NEW i \in DOMAIN z PROVE z[i].id = z[1].id + i - 1
      <4>1. 1 \in DOMAIN z /\ i \in Nat
        BY <1>8
      <4>2. z[1].id = e.id + 1 /\ z[i].id = e.id + i
        BY <2>4, <2>5, <4>1
      <4> QED BY <1>3, <4>1, <4>2, SMTT(60)
    <3> QED BY <3>1
  <2>6. ASSUME ~q.lossy, e.gen \notin q.mixed, q.track, q.base # 0 PROVE q.base = e.gen
    <3>1. CASE k.track /\ e.id <= k.last
      BY <1>5, <1>6, <1>13, <2>6, <3>1
    <3>2. CASE ~(k.track /\ e.id <= k.last)
      BY <1>5, <1>6, <2>6, <3>2
    <3> QED BY <3>1, <3>2
  <2>7. ASSUME ~q.lossy, z # <<>>, z[1].gen \notin q.mixed
        PROVE  HasAll(q, z[1].gen, z[1].id - 1) /\ (q.track /\ q.base # 0 => q.base = z[1].gen)
    <3>1. 1 \in DOMAIN z /\ z[1].gen = e.gen /\ z[1].id = e.id + 1
      BY <1>8, <1>11, <2>4, <2>7
    <3>2. z[1].id - 1 = e.id
      BY <1>3, <3>1
    <3> QED BY <1>6, <1>14, <2>6, <2>7, <3>1, <3>2
  <2>8. ASSUME ~q.lossy, q.fwd.open, z # <<>> PROVE z[Len(z)].id = h.next - 1
    <3>1. z[Len(z)] = p[Len(z) + 1] /\ Len(z) + 1 = Len(p)
      BY <1>8, <2>8
    <3> QED BY <1>7, <1>13, <2>8, <3>1
  <2>9. ASSUME ~q.lossy, q.fwd.open, h.gen \notin q.mixed
        PROVE  (z = <<>> => HasAll(q, h.gen, h.next - 1)) /\ (q.track /\ q.base # 0 => q.base = h.gen)
    <3>1. e.gen = h.gen
      BY <1>2, <1>3, <1>7, <2>9
    <3>2. ASSUME z = <<>> PROVE HasAll(q, h.gen, h.next - 1)
      <4>1. Len(p) = 1
        BY <1>8, <2>9, <3>2
      <4>2. e.id = h.next - 1
        BY <1>2, <1>7, <1>13, <2>9, <4>1
      <4> QED BY <1>6, <1>14, <2>9, <3>1, <4>2
    <3> QED BY <2>6, <2>9, <3>1, <3>2
  <2> QED BY <2>1, <2>2, <2>3, <2>5, <2>7, <2>8, <2>9 DEF WholeOk, z
<1>16. OnceOk(q, h)
  <2>1. ASSUME ~k.reset, ~(k.track /\ e.id <= k.last), NEW g \in k.got PROVE g[2] < e.id
    <3>1. CASE k.track
      <4>1. g[2] <= k.last /\ g[2] \in Nat /\ k.last \in Nat
        BY <1>1, <2>1, <3>1 DEF OnceOk, ClientType
      <4> QED BY <1>3, <2>1, <3>1, <4>1
    <3>2. CASE ~k.track
      BY <1>1, <1>2, <2>1, <3>2 DEF OnceOk, p
    <3> QED BY <3>1, <3>2
  <2>2. ~q.twice
    <3>1. CASE k.track /\ e.id <= k.last
      BY <1>1, <1>5, <1>6, <3>1 DEF OnceOk
    <3>2. CASE ~(k.track /\ e.id <= k.last)
      <4>1. ~k.reset => <<e.gen, e.id>> \notin k.got
        <5>1. <<e.gen, e.id>>[2] = e.id /\ ~(e.id < e.id)
          BY <1>3
        <5> QED BY <2>1, <3>2, <5>1
      <4> QED BY <1>1, <1>5, <1>6, <3>2, <4>1 DEF OnceOk
    <3> QED BY <3>1, <3>2
  <2>3. ASSUME ~q.reset, q.track, NEW g \in q.got PROVE g[2] <= q.last
    <3>1. CASE k.track /\ e.id <= k.last
      BY <1>1, <1>5, <1>6, <2>3, <3>1 DEF OnceOk
    <3>2. CASE ~(k.track /\ e.id <= k.last)
      <4>1. q.last = e.id
        BY <1>5, <1>6, <2>3, <3>2
      <4>2. CASE g \in k.got
        <5>1. g[2] < e.id /\ g[2] \in Nat
          BY <1>1, <1>6, <2>1, <2>3, <3>2, <4>2 DEF ClientType
        <5> QED BY <1>3, <4>1, <5>1
      <4>3. CASE g = <<e.gen, e.id>>
        BY <1>3, <4>1, <4>3
      <4> QED BY <1>10, <4>2, <4>3
    <3> QED BY <3>1, <3>2
  <2>4. ASSUME ~q.reset, ~q.track, q.fwd.at = "on", NEW g \in q.got
        PROVE  (\A i \in DOMAIN z : g[2] < z[i].id) /\ (q.fwd.open => g[2] < h.next)
    <3>1. ~k.track
      BY <1>5, <1>6, <1>7, <2>4
    <3>2. g[2] \in Nat /\ g[2] <= e.id
      <4>1. CASE g \in k.got
        <5>1. g[2] < e.id /\ g[2] \in Nat
          BY <1>1, <1>6, <2>1, <2>4, <3>1, <4>1 DEF ClientType
        <5> QED BY <1>3, <5>1
      <4>2. CASE g = <<e.gen, e.id>>
        BY <1>3, <4>2
      <4> QED BY <1>10, <4>1, <4>2
    <3>3. ASSUME NEW i \in DOMAIN z PROVE g[2] < z[i].id
      <4>1. e.id < z[i].id /\ z[i].id \in Nat
        BY <1>11 DEF Numbered
      <4> QED BY <1>3, <3>2, <4>1
    <3>4. ASSUME q.fwd.open PROVE g[2] < h.next
      <4>1. e.gen = h.gen /\ h.on
        BY <1>2, <1>3, <1>4, <1>7, <3>4
      <4>2. e.id < h.next /\ h.next \in Nat
        BY <1>3, <4>1 DEF Numbered, HubOk
      <4> QED BY <1>3, <3>2, <4>2
    <3> QED BY <3>3, <3>4
  <2> QED BY <1>7, <2>2, <2>3, <2>4 DEF OnceOk, z
<1> QED BY <1>6, <1>12, <1>15, <1>16 DEF ClientOk

-----------------------------------------------------------------------------
(* The steps: what each does to the channel and the clients.                *)

(* A channel is there, made anew if it must.                                *)
LEMMA CreatedStreams ==
    ASSUME StreamsOk(hub, made, cl), CountMade
    PROVE  StreamsOk(Created(hub), made', cl) /\ Created(hub).on
<1>1. HubOk(hub, made) /\ made \in Nat /\ hub.on \in BOOLEAN
  BY DEF StreamsOk, HubOk
<1>2. /\ HubOk(Created(hub), made') /\ Created(hub).on
      /\ hub.on => Created(hub) = hub /\ made' = made
      /\ ~hub.on => Created(hub) = [NoChannel EXCEPT !.on = TRUE, !.gen = made + 1] /\ made' = made + 1
  BY <1>1, MadeHub
<1>3. ASSUME NEW c \in Clients PROVE ClientOk(cl[c], Created(hub), made')
  <2>1. ClientOk(cl[c], hub, made)
    BY DEF StreamsOk
  <2>2. CASE hub.on
    BY <1>2, <2>1, <2>2
  <2>3. CASE ~hub.on
    <3>1. Created(hub).gen = made + 1
      BY <1>2, <2>3 DEF NoChannel
    <3> QED BY <1>1, <1>2, <2>1, <2>3, <3>1, NewChannelClient
  <2> QED BY <1>1, <2>2, <2>3
<1> QED BY <1>2, <1>3 DEF StreamsOk

(* An event is published.                                                   *)
LEMMA PublishedStreams ==
    ASSUME NEW h, NEW m, NEW cs, StreamsOk(h, m, cs), h.on, NEW e \in RunEvents
    PROVE  /\ StreamsOk(Published(h, e), m, Broadcast(cs, h, e))
           /\ \A c \in Clients : Broadcast(cs, h, e)[c].conn = cs[c].conn
                                 /\ Broadcast(cs, h, e)[c].resub = cs[c].resub
<1>1. HubOk(h, m) /\ HubOk(Published(h, e), m)
  BY KeptEvents DEF StreamsOk, KeptAs
<1>2. ASSUME NEW c \in Clients
      PROVE  ClientOk(Broadcast(cs, h, e)[c], Published(h, e), m) /\ Broadcast(cs, h, e)[c] \in ClientType
             /\ Broadcast(cs, h, e)[c].conn = cs[c].conn /\ Broadcast(cs, h, e)[c].resub = cs[c].resub
  <2>1. ClientOk(cs[c], h, m) /\ cs[c] \in ClientType
    BY DEF StreamsOk
  <2>2. ClientOk(Broadcast(cs, h, e)[c], Published(h, e), m)
    BY <1>1, <2>1, ToldClient
  <2>3. Broadcast(cs, h, e)[c].conn = cs[c].conn /\ Broadcast(cs, h, e)[c].resub = cs[c].resub
    BY <2>1 DEF Broadcast, ClientType
  <2> QED BY <2>2, <2>3 DEF ClientOk
<1>3. DOMAIN Broadcast(cs, h, e) = Clients
  BY DEF Broadcast
<1>4. Broadcast(cs, h, e) \in [Clients -> ClientType]
  <2>1. Broadcast(cs, h, e) = [c \in Clients |-> Broadcast(cs, h, e)[c]]
    BY DEF Broadcast
  <2> QED BY <1>2, <2>1
<1> QED BY <1>1, <1>2, <1>4 DEF StreamsOk

(* One client changes.                                                      *)
LEMMA OneClient ==
    ASSUME StreamInv, NEW c \in Clients, NEW q, ClientOk(q, hub, made),
           cl' = [cl EXCEPT ![c] = q], UNCHANGED <<hub, made>>,
           \A b \in Clients : Asking(b)' => cl'[b].conn /\ ~cl'[b].resub
    PROVE  StreamInv'
<1>1. q \in ClientType /\ cl \in [Clients -> ClientType]
  BY DEF ClientOk, StreamInv, StreamsOk
<1>2. cl' \in [Clients -> ClientType]
  BY <1>1
<1>3. ASSUME NEW b \in Clients PROVE ClientOk(cl'[b], hub, made)
  <2>1. CASE b = c
    BY <1>1, <2>1
  <2>2. CASE b # c
    <3>1. cl'[b] = cl[b]
      BY <1>1, <2>2
    <3> QED BY <3>1 DEF StreamInv, StreamsOk
  <2> QED BY <2>1, <2>2
<1> QED BY <1>2, <1>3 DEF StreamInv, StreamsOk

(* A terminal event is published if there is none.                          *)
LEMMA TerminalStreams ==
    ASSUME StreamsOk(hub, made, cl), PublishTerminal(1, cl)
    PROVE  /\ StreamsOk(hub', made', cl')
           /\ \A c \in Clients : cl'[c].conn = cl[c].conn /\ cl'[c].resub = cl[c].resub
<1> DEFINE h == Created(hub)
           e == Event(1, TRUE, TRUE)
<1>1. StreamsOk(h, made', cl) /\ h.on
  BY CreatedStreams DEF PublishTerminal
<1>2. e \in RunEvents
  BY DEF Event, RunEvents, RunTurns
<1>3. /\ hub' = IF h.done THEN h ELSE Published(h, e)
      /\ cl' = IF h.done THEN cl ELSE Broadcast(cl, h, e)
  BY DEF PublishTerminal
<1> HIDE DEF h, e
<1>4. /\ StreamsOk(Published(h, e), made', Broadcast(cl, h, e))
      /\ \A c \in Clients : Broadcast(cl, h, e)[c].conn = cl[c].conn
                            /\ Broadcast(cl, h, e)[c].resub = cl[c].resub
  BY <1>1, <1>2, PublishedStreams
<1> QED BY <1>1, <1>3, <1>4

(* The types hold initially and after every step.                           *)
LEMMA RunTypesInit == WebInit => RunTypes
<1> SUFFICES ASSUME WebInit PROVE RunTypes
  OBVIOUS
<1>1. <<>> \in Seq(RunEvents)
  OBVIOUS
<1>2. oq \in Seq(RunEvents) /\ turn \in [RunTurns -> {"none", "live", "ended", "told"}]
  BY <1>1 DEF WebInit
<1>3. req \in [c : Clients \cup {NoClient}, pc : {"idle", "read", "register", "latest", "ack"},
                ack : {"awaited", "late", "lost"}]
  BY DEF WebInit, NoRequest
<1>4. route \in 0 .. 2 /\ timers \in Nat /\ made \in Nat /\ troubles \in Nat
  BY DEF WebInit
<1> QED BY <1>2, <1>3, <1>4 DEF WebInit, RunTypes

(* The run's variables keep their types.                                    *)
LEMMA RunTypesKept == RunTypes /\ [WebNext]_webVars => RunTypes'
<1> SUFFICES ASSUME RunTypes, [WebNext]_webVars PROVE RunTypes'
  OBVIOUS
<1> DEFINE Reqs == [c : Clients \cup {NoClient}, pc : {"idle", "read", "register", "latest", "ack"},
                    ack : {"awaited", "late", "lost"}]
<1>0. /\ turn \in [RunTurns -> {"none", "live", "ended", "told"}] /\ failed \subseteq RunTurns
      /\ staged \in BOOLEAN /\ mute \in BOOLEAN /\ cut \in BOOLEAN /\ hush \in BOOLEAN
      /\ route \in 0 .. 2 /\ pub \in {"none", "held", "on"} /\ oq \in Seq(RunEvents)
      /\ req \in Reqs /\ timers \in Nat /\ made \in Nat /\ troubles \in Nat
  BY DEF RunTypes
<1>e. \A i \in RunTurns, s \in BOOLEAN, t \in BOOLEAN : Event(i, s, t) \in RunEvents
  BY DEF Event, RunEvents
<1>s. <<>> \in Seq(RunEvents) /\ NoRequest \in Reqs /\ 1 \in RunTurns /\ 2 \in RunTurns
  BY DEF NoRequest, RunTurns
<1>m. CountMade => made' \in Nat
  BY <1>0 DEF CountMade
<1>r. /\ \A c \in Clients : Request(c, "ack") \in Reqs /\ Request(c, "read") \in Reqs
      /\ \A d \in {"read", "register", "latest", "ack"} : [req EXCEPT !.pc = d] \in Reqs
      /\ \A a \in {"late", "lost"} : [req EXCEPT !.ack = a] \in Reqs
  BY <1>0 DEF Request
<1>c. cut \in BOOLEAN /\ \A d \in BOOLEAN : (cut \/ d) \in BOOLEAN /\ (hush \/ d) \in BOOLEAN
  BY <1>0
<1>t. PublishTerminal(1, cl) => made' \in Nat /\ timers' \in Nat /\ cut' \in BOOLEAN
  BY <1>0, <1>m DEF PublishTerminal
<1> HIDE DEF Reqs
<1>1. ASSUME NEW i \in RunTurns, Emit(i) PROVE RunTypes'
  <2>1. oq' \in Seq(RunEvents)
    <3> DEFINE x == Event(i, FALSE, FALSE)
    <3>1. x \in RunEvents
      BY <1>e
    <3>2. oq' = Append(oq, x)
      BY <1>1 DEF Emit
    <3> HIDE DEF x
    <3> QED BY <1>0, <3>1, <3>2
  <2> QED BY <1>0, <1>1, <2>1 DEF Emit, past, RunTypes, Reqs
<1>2. CASE Inject
  BY <1>0, <1>2 DEF Inject, obs, past, RunTypes, Reqs
<1>3. ASSUME NEW i \in RunTurns, RowEnds(i) PROVE RunTypes'
  <2>1. turn' \in [RunTurns -> {"none", "live", "ended", "told"}] /\ failed' \subseteq RunTurns
    BY <1>0, <1>3 DEF RowEnds
  <2> QED BY <1>0, <1>3, <2>1 DEF RowEnds, obs, past, RunTypes, Reqs
<1>4. ASSUME NEW i \in RunTurns, Tell(i) PROVE RunTypes'
  <2>1. turn' \in [RunTurns -> {"none", "live", "ended", "told"}]
    BY <1>0, <1>4 DEF Tell
  <2>2. oq' \in Seq(RunEvents)
    <3> DEFINE x == Event(i, TRUE, ~(i = 1 /\ i \in failed /\ staged))
    <3>1. x \in RunEvents
      BY <1>e
    <3>2. oq' = oq \/ oq' = Append(oq, x)
      BY <1>4 DEF Tell
    <3> HIDE DEF x
    <3> QED BY <1>0, <3>1, <3>2
  <2>3. route' \in 0 .. 2 /\ hush' \in BOOLEAN
    BY <1>0, <1>4 DEF Tell
  <2> QED BY <1>0, <1>4, <2>1, <2>2, <2>3 DEF Tell, RunTypes, Reqs
<1>5. CASE Promote
  <2>1. turn' \in [RunTurns -> {"none", "live", "ended", "told"}] /\ route' \in 0 .. 2
    BY <1>0, <1>5, <1>s DEF Promote
  <2> QED BY <1>0, <1>5, <2>1 DEF Promote, past, RunTypes, Reqs
<1>6. CASE PublishEvent
  <2>1. oq' \in Seq(RunEvents)
    BY <1>0, <1>6 DEF PublishEvent
  <2> QED BY <1>0, <1>6, <2>1 DEF PublishEvent, run, past, RunTypes, Reqs
<1>7. CASE PublisherEnds
  BY <1>0, <1>7 DEF PublisherEnds, run, past, RunTypes, Reqs
<1>8. CASE ReadRow
  <2>1. req' \in Reqs
    BY <1>8, <1>r DEF ReadRow
  <2>2. made' \in Nat /\ timers' \in Nat /\ cut' \in BOOLEAN /\ hush' = hush /\ troubles' = troubles
    BY <1>0, <1>8, <1>t DEF ReadRow, past
  <2> QED BY <1>0, <1>8, <2>1, <2>2 DEF ReadRow, run, obs, RunTypes, Reqs
<1>9. CASE Register
  <2>1. req' \in Reqs
    <3>1. \E d \in {"latest", "ack"} : req' = [req EXCEPT !.pc = d]
      BY <1>9 DEF Register
    <3> QED BY <3>1, <1>r
  <2>2. made' \in Nat /\ pub' \in {"none", "held", "on"} /\ route' \in 0 .. 2
    BY <1>0, <1>9, <1>m DEF Register
  <2> QED BY <1>0, <1>9, <2>1, <2>2 DEF Register, run, past, RunTypes, Reqs
<1>10. CASE Latest
  <2>1. req' \in Reqs
    BY <1>10, <1>r DEF Latest
  <2>2. made' \in Nat /\ timers' \in Nat /\ cut' \in BOOLEAN /\ hush' = hush /\ troubles' = troubles
    BY <1>0, <1>10, <1>t DEF Latest, past
  <2>3. pub' \in {"none", "held", "on"} /\ route' \in 0 .. 2 /\ oq' \in Seq(RunEvents)
    <3>1. \/ route' = route /\ oq' = oq /\ pub' = pub
          \/ pub' = "none" /\ route' = 0 /\ oq' = <<>>
          \/ pub' = "on" /\ route' = route /\ oq' = oq
      BY <1>10 DEF Latest, obs
    <3>2. pub' \in {"none", "held", "on"} /\ (route' = route \/ route' = 0) /\ (oq' = oq \/ oq' = <<>>)
      BY <1>0, <3>1
    <3>3. route' \in 0 .. 2
      BY <1>0, <3>2
    <3>4. oq' \in Seq(RunEvents)
      BY <1>0, <1>s, <3>2
    <3> QED BY <3>2, <3>3, <3>4
  <2> QED BY <1>0, <1>10, <2>1, <2>2, <2>3 DEF Latest, run, RunTypes, Reqs
<1>11. CASE Ack
  BY <1>0, <1>11, <1>s DEF Ack, run, obs, past, RunTypes, Reqs
<1>12. CASE RemoveLater
  <2>1. timers' \in Nat
    BY <1>0, <1>12 DEF RemoveLater
  <2> QED BY <1>0, <1>12, <2>1 DEF RemoveLater, run, obs, past, RunTypes, Reqs
<1>13. CASE AckTimesOut
  BY <1>0, <1>13, <1>r DEF AckTimesOut, run, obs, RunTypes, Reqs
<1>14. CASE Restart
  <2>1. turn' \in [RunTurns -> {"none", "live", "ended", "told"}]
    BY <1>0, <1>14 DEF Restart
  <2>2. failed' \subseteq RunTurns /\ mute' \in BOOLEAN
    BY <1>0, <1>14 DEF Restart
  <2>3. /\ route' = 0 /\ oq' = <<>> /\ pub' = "none" /\ timers' = 0 /\ req' = NoRequest
        /\ troubles' = troubles + 1 /\ UNCHANGED <<staged, made, cut, hush>>
    BY <1>14 DEF Restart
  <2> QED BY <1>0, <1>s, <2>1, <2>2, <2>3 DEF RunTypes, Reqs
<1>15. ASSUME NEW c \in Clients, SendFirst(c) PROVE RunTypes'
  <2>1. turn' \in [RunTurns -> {"none", "live", "ended", "told"}] /\ made' \in Nat
    BY <1>0, <1>15, <1>m DEF SendFirst
  <2> QED BY <1>0, <1>15, <1>r, <2>1 DEF SendFirst, past, RunTypes, Reqs
<1>16. ASSUME NEW c \in Clients, SendAgain(c) PROVE RunTypes'
  BY <1>0, <1>16, <1>r DEF SendAgain, run, obs, past, RunTypes, Reqs
<1>17. ASSUME NEW c \in Clients, FollowUp(c) PROVE RunTypes'
  BY <1>0, <1>17, <1>r DEF FollowUp, obs, past, RunTypes, Reqs
<1>18. ASSUME NEW c \in Clients, ForwardStarts(c) \/ Forward(c) \/ ForwardEnds(c) \/ Reconnect(c) \/ Resubscribe(c)
       PROVE  RunTypes'
  <2>1. UNCHANGED <<run, obs, hub, timers, req, made, past>>
    BY <1>18 DEF ForwardStarts, Forward, ForwardEnds, Reconnect, Resubscribe
  <2> QED BY <1>0, <2>1 DEF run, obs, past, RunTypes, Reqs
<1>19. ASSUME NEW c \in Clients, Disconnect(c) PROVE RunTypes'
  <2>1. req' \in Reqs
    BY <1>0, <1>19, <1>r DEF Disconnect
  <2> QED BY <1>0, <1>19, <2>1 DEF Disconnect, run, obs, RunTypes, Reqs
<1>20. CASE UNCHANGED webVars
  BY <1>0, <1>20 DEF webVars, RunTypes, Reqs
<1> QED BY <1>1, <1>2, <1>3, <1>4, <1>5, <1>6, <1>7, <1>8, <1>9, <1>10, <1>11, <1>12, <1>13, <1>14,
           <1>15, <1>16, <1>17, <1>18, <1>19, <1>20 DEF WebNext, Server

-----------------------------------------------------------------------------
(* The streams stay whole.                                                  *)

LEMMA StreamInit == WebInit => StreamInv
<1> SUFFICES ASSUME WebInit PROVE StreamInv
  OBVIOUS
<1>1. /\ NewClient \in ClientType /\ NewClient.fwd = NoForward /\ ~NewClient.resub /\ NewClient.conn
      /\ ~NewClient.track /\ NewClient.got = {} /\ ~NewClient.lossy /\ ~NewClient.reset /\ ~NewClient.twice
  <2>1. <<>> \in Seq(HubEvents)
    OBVIOUS
  <2>2. NoForward \in ForwardType
    BY <2>1 DEF NoForward, ForwardType
  <2> HIDE DEF NoForward
  <2> QED BY <2>2 DEF NewClient, ClientType
<1>2. Limit \in Nat /\ Limit # 0 /\ Len(<<>>) = 0
  BY WebAssumption
<1>3. HubOk(NoChannel, 0)
  <2>1. <<>> \in Seq(HubEvents)
    OBVIOUS
  <2> QED BY <1>2, <2>1 DEF HubOk, NoChannel
<1>4. ClientOk(NewClient, NoChannel, 0)
  <2> DEFINE k == NewClient
  <2>1. k.fwd.at = "none" /\ k.fwd.replay = <<>> /\ k.fwd.live = <<>> /\ ~k.fwd.open
    BY <1>1 DEF NoForward
  <2>2. InFlight(k) = <<>> /\ DOMAIN InFlight(k) = {}
    BY <2>1, NothingWaits
  <2> HIDE DEF k
  <2>3. k = NewClient
    BY DEF k
  <2>4. PlaceOk(k, NoChannel, 0)
    BY <1>1, <1>2, <2>1, <2>2, <2>3 DEF PlaceOk
  <2>5. WholeOk(k, NoChannel) /\ OnceOk(k, NoChannel)
    BY <1>1, <2>1, <2>2, <2>3 DEF WholeOk, OnceOk
  <2> QED BY <1>1, <2>3, <2>4, <2>5 DEF ClientOk
<1>5. hub = NoChannel /\ made = 0 /\ cl = [c \in Clients |-> NewClient] /\ req.c = NoClient
  BY DEF WebInit, NoRequest
<1>6. cl \in [Clients -> ClientType]
  BY <1>1, <1>5
<1> QED BY <1>3, <1>4, <1>5, <1>6, WebAssumption DEF StreamInv, StreamsOk, Asking

(* A forwarder starts: it finds the channel, or it does not.                *)
LEMMA StartKeeps ==
    ASSUME StreamInv, NEW c \in Clients, ForwardStarts(c)
    PROVE  StreamInv'
<1> DEFINE k == cl[c]
<1>1. /\ HubOk(hub, made) /\ ClientOk(k, hub, made) /\ k \in ClientType /\ cl \in [Clients -> ClientType]
      /\ k.fwd.at = "starting" /\ UNCHANGED <<hub, made, req>> /\ hub.on \in BOOLEAN
      /\ PlaceOk(k, hub, made) /\ OnceOk(k, hub)
  BY DEF StreamInv, StreamsOk, ForwardStarts, ClientOk, HubOk
<1>2. ~k.resub /\ k.conn
  BY <1>1 DEF PlaceOk
<1>3. CASE hub.on
  <2> DEFINE q == [k EXCEPT !.fwd = Subscribed(0), !.mixed = Mixed(k),
                            !.lossy = k.lossy \/ (hub.hist # <<>> /\ Head(hub.hist).id > 1)]
  <2>1. cl' = [cl EXCEPT ![c] = q]
    BY <1>1, <1>3 DEF ForwardStarts, ClientType
  <2>2. Subscribed(0) \in ForwardType
    <3>1. Replay(0) \in Seq(HubEvents) /\ <<>> \in Seq(HubEvents)
      BY <1>1, ReplayIs
    <3> QED BY <1>1, <3>1 DEF Subscribed, ForwardType, HubOk
  <2>3. Mixed(k) \in SUBSET Nat
    BY <1>1 DEF Mixed, ClientType, HubOk
  <2>4. /\ q \in ClientType /\ q.fwd = Subscribed(0) /\ q.conn /\ ~q.resub /\ q.mixed = Mixed(k)
        /\ q.track = k.track /\ q.last = k.last /\ q.base = k.base /\ q.reset = k.reset /\ q.twice = k.twice
        /\ q.got = k.got /\ q.conn = k.conn /\ q.resub = k.resub
        /\ q.lossy = (k.lossy \/ (hub.hist # <<>> /\ Head(hub.hist).id > 1))
    <3>1. (k.lossy \/ (hub.hist # <<>> /\ Head(hub.hist).id > 1)) \in BOOLEAN
      BY <1>1 DEF ClientType
    <3> HIDE DEF k
    <3> QED BY <1>1, <1>2, <2>2, <2>3, <3>1 DEF ClientType
  <2>5. ASSUME ~q.lossy PROVE hub.next - Len(hub.hist) <= 0 + 1
    <3>1. hub.hist \in Seq(HubEvents) /\ hub.next \in Nat /\ Len(hub.hist) \in Nat
      BY <1>1 DEF HubOk
    <3>2. CASE hub.hist = <<>>
      BY <1>1, <3>1, <3>2 DEF HubOk
    <3>3. CASE hub.hist # <<>>
      <4>1. Len(hub.hist) # 0
        BY <3>1, <3>3
      <4>2. Head(hub.hist) = hub.hist[1] /\ 1 \in DOMAIN hub.hist
        BY <3>1, <3>3, <4>1
      <4>3. hub.hist[1].id = hub.next - Len(hub.hist) - 1 + 1
        BY <1>1, <4>2 DEF HubOk
      <4>4. ~(hub.hist[1].id > 1)
        BY <2>4, <2>5, <3>3, <4>2
      <4> QED BY <3>1, <4>3, <4>4
    <3> QED BY <3>2, <3>3
  <2>6. HasAll(k, hub.gen, 0)
    BY DEF HasAll
  <2>7. ~k.reset => k.got = {}
    BY <1>1 DEF OnceOk
  <2> HIDE DEF q, k
  <2>8. ClientOk(q, hub, made)
    BY <1>1, <1>3, <2>4, <2>5, <2>6, <2>7, SubscribedClient
  <2>9. ASSUME NEW b \in Clients, Asking(b)' PROVE cl'[b].conn /\ ~cl'[b].resub
    <3>1. Asking(b)
      BY <1>1, <2>9 DEF Asking
    <3>2. cl[b].conn /\ ~cl[b].resub
      BY <3>1 DEF StreamInv
    <3> QED BY <1>1, <2>1, <2>4, <3>2
  <2> QED BY <1>1, <2>1, <2>8, <2>9, OneClient
<1>4. CASE ~hub.on
  <2> DEFINE q == [k EXCEPT !.fwd = NoForward, !.astray = TRUE]
             v == [k EXCEPT !.fwd = NoForward]
  <2>1. cl' = [cl EXCEPT ![c] = q]
    BY <1>1, <1>4 DEF ForwardStarts, ClientType
  <2>2. ClientOk(v, hub, made)
    BY <1>1, <1>2, EndedForward
  <2>3. v \in ClientType
    BY <2>2 DEF ClientOk
  <2>4. q = [v EXCEPT !.astray = TRUE]
    BY <1>1 DEF ClientType
  <2>5. v.conn = k.conn /\ v.resub = k.resub
    BY <1>1 DEF ClientType
  <2> HIDE DEF q, v, k
  <2>6. /\ q \in ClientType /\ q.conn = v.conn /\ q.track = v.track /\ q.last = v.last /\ q.resub = v.resub
        /\ q.base = v.base /\ q.mixed = v.mixed /\ q.fwd = v.fwd /\ q.got = v.got /\ q.lossy = v.lossy
        /\ q.reset = v.reset /\ q.twice = v.twice
    BY <2>3, <2>4 DEF ClientType
  <2>7. ClientOk(q, hub, made)
    BY <2>2, <2>6, SameClient
  <2>8. ASSUME NEW b \in Clients, Asking(b)' PROVE cl'[b].conn /\ ~cl'[b].resub
    <3>1. Asking(b)
      BY <1>1, <2>8 DEF Asking
    <3>2. cl[b].conn /\ ~cl[b].resub
      BY <3>1 DEF StreamInv
    <3> QED BY <1>1, <1>2, <2>1, <2>5, <2>6, <3>2
  <2> QED BY <1>1, <2>1, <2>7, <2>8, OneClient
<1> QED BY <1>1, <1>3, <1>4

(* One client changes, and no request is made.                              *)
LEMMA OneClientMoves ==
    ASSUME StreamInv, NEW c \in Clients, NEW q, ClientOk(q, hub, made),
           cl' = [cl EXCEPT ![c] = q], UNCHANGED <<hub, made>>,
           \A b \in Clients : Asking(b)' => Asking(b),
           Asking(c)' => q.conn /\ ~q.resub
    PROVE  StreamInv'
<1>1. cl \in [Clients -> ClientType] /\ \A b \in Clients : Asking(b) => cl[b].conn /\ ~cl[b].resub
  BY DEF StreamInv, StreamsOk
<1>2. \A b \in Clients : Asking(b)' => cl'[b].conn /\ ~cl'[b].resub
  <2>1. ASSUME NEW b \in Clients, Asking(b)' PROVE cl'[b].conn /\ ~cl'[b].resub
    <3>1. CASE b = c
      BY <1>1, <2>1, <3>1
    <3>2. CASE b # c
      <4>1. cl'[b] = cl[b]
        BY <1>1, <3>2
      <4> QED BY <1>1, <2>1, <4>1
    <3> QED BY <3>1, <3>2
  <2> QED BY <2>1
<1> QED BY <1>2, OneClient

(* A forwarder hands its client the next event.                             *)
LEMMA ForwardKeeps ==
    ASSUME StreamInv, NEW c \in Clients, Forward(c)
    PROVE  StreamInv'
<1> DEFINE k == cl[c]
           q0 == IF k.fwd.replay # <<>> THEN k.fwd.replay ELSE k.fwd.live
           rest == IF k.fwd.replay # <<>> THEN [k.fwd EXCEPT !.replay = Tail(@)]
                   ELSE [k.fwd EXCEPT !.live = Tail(@)]
           q == [Applied(k, Head(q0)) EXCEPT !.fwd = IF Head(q0).terminal THEN FwdOver ELSE rest]
<1>1. /\ HubOk(hub, made) /\ ClientOk(k, hub, made) /\ k \in ClientType /\ cl \in [Clients -> ClientType]
      /\ k.fwd.at = "on" /\ UNCHANGED <<hub, made, req>> /\ q0 # <<>>
  BY DEF StreamInv, StreamsOk, Forward, ClientOk
<1>2. cl' = [cl EXCEPT ![c] = q]
  BY DEF Forward
<1>3. k.conn /\ ~k.resub
  BY <1>1 DEF ClientOk, PlaceOk
<1>4. q.conn = k.conn /\ q.resub = k.resub
  <2>1. Applied(k, Head(q0)) \in {k, [k EXCEPT !.last = IF k.track THEN Head(q0).id ELSE k.last,
                        !.base = IF k.track THEN Head(q0).gen ELSE k.base,
                        !.twice = k.twice \/ (<<Head(q0).gen, Head(q0).id>> \in k.got /\ ~k.reset),
                        !.got = k.got \cup {<<Head(q0).gen, Head(q0).id>>},
                        !.track = k.track /\ ~Head(q0).terminal]}
    BY DEF Applied
  <2>2. Applied(k, Head(q0)).conn = k.conn /\ Applied(k, Head(q0)).resub = k.resub
        /\ "fwd" \in DOMAIN Applied(k, Head(q0)) /\ "conn" \in DOMAIN Applied(k, Head(q0))
        /\ "resub" \in DOMAIN Applied(k, Head(q0))
    <3> HIDE DEF q0, k
    <3> QED BY <1>1, <2>1 DEF ClientType
  <2> HIDE DEF q0, rest
  <2> QED BY <2>2
<1>5. ClientOk(q, hub, made)
  <2>1. q0 = (IF k.fwd.replay # <<>> THEN k.fwd.replay ELSE k.fwd.live)
        /\ rest = (IF k.fwd.replay # <<>> THEN [k.fwd EXCEPT !.replay = Tail(@)]
                   ELSE [k.fwd EXCEPT !.live = Tail(@)])
        /\ q = [Applied(k, Head(q0)) EXCEPT !.fwd = IF Head(q0).terminal THEN FwdOver ELSE rest]
    OBVIOUS
  <2> HIDE DEF q0, rest, k, q
  <2> QED BY <1>1, <2>1, ForwardedClient
<1> HIDE DEF q, k
<1> QED BY <1>1, <1>2, <1>3, <1>4, <1>5, OneClientMoves DEF Asking

(* A forwarder stops.                                                       *)
LEMMA EndKeeps ==
    ASSUME StreamInv, NEW c \in Clients, ForwardEnds(c)
    PROVE  StreamInv'
<1> DEFINE k == cl[c]
           q == [k EXCEPT !.fwd = NoForward]
<1>1. /\ HubOk(hub, made) /\ ClientOk(k, hub, made) /\ k \in ClientType /\ cl \in [Clients -> ClientType]
      /\ k.fwd.at \in {"on", "over"} /\ UNCHANGED <<hub, made, req>>
  BY DEF StreamInv, StreamsOk, ForwardEnds, ClientOk
<1>2. cl' = [cl EXCEPT ![c] = q]
  BY <1>1 DEF ForwardEnds, ClientType
<1>3. k.conn /\ ~k.resub
  BY <1>1 DEF ClientOk, PlaceOk
<1>4. q.conn = k.conn /\ q.resub = k.resub
  BY <1>1 DEF ClientType
<1>5. ClientOk(q, hub, made)
  BY <1>1, <1>3, EndedForward
<1> HIDE DEF q, k
<1> QED BY <1>1, <1>2, <1>3, <1>4, <1>5, OneClientMoves DEF Asking

(* A connection is lost, and its request's answer with it.                  *)
LEMMA DisconnectKeeps ==
    ASSUME StreamInv, RunTypes, NEW c \in Clients, Disconnect(c)
    PROVE  StreamInv'
<1> DEFINE k == cl[c]
           q == [k EXCEPT !.conn = FALSE, !.resub = FALSE, !.fwd = NoForward, !.unsure = @ \/ req.c = c]
<1>1. /\ HubOk(hub, made) /\ ClientOk(k, hub, made) /\ k \in ClientType /\ cl \in [Clients -> ClientType]
      /\ UNCHANGED <<hub, made>> /\ req' = IF req.c = c THEN [req EXCEPT !.ack = "lost"] ELSE req
  BY DEF StreamInv, StreamsOk, Disconnect, ClientOk
<1>2. cl' = [cl EXCEPT ![c] = q]
  BY <1>1 DEF Disconnect, ClientType
<1>3. NoForward \in ForwardType
  <2>1. <<>> \in Seq(HubEvents)
    OBVIOUS
  <2> QED BY <2>1 DEF NoForward, ForwardType
<1>4. /\ q \in ClientType /\ q.fwd = NoForward /\ ~q.resub
      /\ q.track = k.track /\ q.last = k.last /\ q.base = k.base
      /\ q.mixed = k.mixed /\ q.got = k.got /\ q.lossy = k.lossy /\ q.reset = k.reset /\ q.twice = k.twice
  <2> HIDE DEF k
  <2> QED BY <1>1, <1>3 DEF ClientType
<1> HIDE DEF q, k
<1>5. ClientOk(q, hub, made)
  BY <1>1, <1>4, AloneClient
<1>6. ~Asking(c)' /\ \A b \in Clients : Asking(b)' => Asking(b)
  BY <1>1 DEF Asking, RunTypes
<1> QED BY <1>1, <1>2, <1>5, <1>6, OneClientMoves

(* A tab connects again.                                                    *)
LEMMA ReconnectKeeps ==
    ASSUME StreamInv, NEW c \in Clients, Reconnect(c)
    PROVE  StreamInv'
<1> DEFINE k == cl[c]
           q == [k EXCEPT !.conn = TRUE, !.resub = k.track]
<1>1. /\ HubOk(hub, made) /\ ClientOk(k, hub, made) /\ k \in ClientType /\ cl \in [Clients -> ClientType]
      /\ UNCHANGED <<hub, made, req>> /\ ~k.conn /\ PlaceOk(k, hub, made)
  BY DEF StreamInv, StreamsOk, Reconnect, ClientOk
<1>2. cl' = [cl EXCEPT ![c] = q]
  BY <1>1 DEF Reconnect, ClientType
<1>3. /\ q \in ClientType /\ q.conn /\ q.resub = k.track
      /\ q.track = k.track /\ q.last = k.last /\ q.base = k.base /\ q.fwd = k.fwd
      /\ q.mixed = k.mixed /\ q.got = k.got /\ q.lossy = k.lossy /\ q.reset = k.reset /\ q.twice = k.twice
  <2> HIDE DEF k
  <2> QED BY <1>1 DEF ClientType
<1> HIDE DEF q
<1>4. /\ InFlight(q) = InFlight(k) /\ \A g, n : HasAll(q, g, n) <=> HasAll(k, g, n)
  BY <1>3 DEF InFlight, HasAll
<1>5. PlaceOk(q, hub, made)
  BY <1>1, <1>3, <1>4 DEF PlaceOk
<1>6. WholeOk(q, hub) /\ OnceOk(q, hub)
  BY <1>1, <1>3, <1>4 DEF ClientOk, WholeOk, OnceOk
<1>7. ClientOk(q, hub, made)
  BY <1>3, <1>5, <1>6 DEF ClientOk
<1>8. ~Asking(c)' /\ \A b \in Clients : Asking(b)' => Asking(b)
  BY <1>1 DEF Asking, StreamInv
<1> HIDE DEF k
<1> QED BY <1>1, <1>2, <1>7, <1>8, OneClientMoves

(* A tab that is back asks for what follows the last number it has.         *)
LEMMA ResubscribeKeeps ==
    ASSUME StreamInv, NEW c \in Clients, Resubscribe(c)
    PROVE  StreamInv'
<1> DEFINE k == cl[c]
           truncated == hub.hist # <<>> /\ k.last + 1 < Head(hub.hist).id
           renumbered == \E g \in k.got : g[1] # hub.gen
<1>1. /\ HubOk(hub, made) /\ ClientOk(k, hub, made) /\ k \in ClientType /\ cl \in [Clients -> ClientType]
      /\ UNCHANGED <<hub, made, req>> /\ k.conn /\ k.resub /\ hub.on \in BOOLEAN
      /\ PlaceOk(k, hub, made) /\ OnceOk(k, hub) /\ WholeOk(k, hub) /\ k.last \in Nat
  BY DEF StreamInv, StreamsOk, Resubscribe, ClientOk, HubOk, ClientType
<1>2. k.track /\ k.fwd.at = "none" /\ k.fwd.replay = <<>> /\ k.fwd.live = <<>> /\ ~k.fwd.open
  BY <1>1 DEF PlaceOk
<1>3. ~Asking(c)
  BY <1>1 DEF StreamInv
<1>4. ~Asking(c)' /\ \A b \in Clients : Asking(b)' => Asking(b)
  BY <1>1, <1>3 DEF Asking
<1>5. CASE hub.on
  <2> DEFINE q == [k EXCEPT !.resub = FALSE, !.got = IF truncated THEN {} ELSE k.got,
                            !.lossy = k.lossy \/ truncated, !.astray = k.astray \/ renumbered,
                            !.mixed = Mixed(k), !.fwd = Subscribed(k.last)]
  <2>1. cl' = [cl EXCEPT ![c] = q]
    BY <1>1, <1>2, <1>5 DEF Resubscribe, ClientType
  <2>2. Subscribed(k.last) \in ForwardType
    <3>1. Replay(k.last) \in Seq(HubEvents) /\ <<>> \in Seq(HubEvents)
      BY <1>1, ReplayIs
    <3> QED BY <1>1, <3>1 DEF Subscribed, ForwardType, HubOk
  <2>3. Mixed(k) \in SUBSET Nat
    BY <1>1 DEF Mixed, ClientType, HubOk
  <2>4. /\ q \in ClientType /\ q.fwd = Subscribed(k.last) /\ q.conn /\ ~q.resub /\ q.mixed = Mixed(k)
        /\ q.track = k.track /\ q.last = k.last /\ q.base = k.base /\ q.reset = k.reset /\ q.twice = k.twice
        /\ q.got = (IF truncated THEN {} ELSE k.got) /\ q.lossy = (k.lossy \/ truncated)
    <3>1. (k.lossy \/ truncated) \in BOOLEAN /\ (k.astray \/ renumbered) \in BOOLEAN
          /\ (IF truncated THEN {} ELSE k.got) \in SUBSET (Nat \X Nat)
      BY <1>1 DEF ClientType
    <3> HIDE DEF k, truncated, renumbered
    <3> QED BY <1>1, <2>2, <2>3, <3>1, ZenonT(60) DEF ClientType
  <2>5. ASSUME ~q.lossy PROVE ~k.lossy /\ q.got = k.got /\ hub.next - Len(hub.hist) <= k.last + 1
    <3>1. ~truncated /\ ~k.lossy /\ q.got = k.got
      BY <2>4, <2>5
    <3>2. hub.hist \in Seq(HubEvents) /\ hub.next \in Nat /\ Len(hub.hist) \in Nat
      BY <1>1 DEF HubOk
    <3>3. CASE hub.hist = <<>>
      BY <1>1, <3>1, <3>2, <3>3 DEF HubOk
    <3>4. CASE hub.hist # <<>>
      <4>1. Len(hub.hist) # 0
        BY <3>2, <3>4
      <4>2. Head(hub.hist) = hub.hist[1] /\ 1 \in DOMAIN hub.hist
        BY <3>2, <3>4, <4>1
      <4>3. hub.hist[1].id = hub.next - Len(hub.hist) - 1 + 1
        BY <1>1, <4>2 DEF HubOk
      <4>4. ~(k.last + 1 < hub.hist[1].id)
        BY <3>1, <3>4, <4>2
      <4> QED BY <1>1, <3>1, <3>2, <4>3, <4>4
    <3> QED BY <3>3, <3>4
  <2>6. ASSUME ~q.lossy, hub.gen \notin q.mixed PROVE HasAll(k, hub.gen, k.last)
    <3>1. hub.gen \notin k.mixed /\ k.base \in {0, hub.gen}
      BY <1>2, <2>4, <2>6 DEF Mixed
    <3>2. CASE k.base = 0
      <4>1. k.last = 0
        BY <1>1, <1>2, <3>2 DEF WholeOk
      <4> QED BY <4>1 DEF HasAll
    <3>3. CASE k.base = hub.gen /\ k.base # 0
      BY <1>1, <1>2, <2>5, <2>6, <3>1, <3>3 DEF WholeOk
    <3> QED BY <3>1, <3>2, <3>3
  <2>7. q.got \subseteq k.got
    BY <2>4
  <2> HIDE DEF q, k, truncated, renumbered
  <2>8. ClientOk(q, hub, made)
    BY <1>1, <1>2, <1>5, <2>4, <2>5, <2>6, <2>7, SubscribedClient
  <2> QED BY <1>1, <1>4, <2>1, <2>8, OneClientMoves
<1>6. CASE ~hub.on
  <2> DEFINE q == [k EXCEPT !.resub = FALSE, !.track = FALSE, !.got = {}]
  <2>1. cl' = [cl EXCEPT ![c] = q]
    BY <1>1, <1>6 DEF Resubscribe, ClientType
  <2>2. /\ q \in ClientType /\ q.fwd = k.fwd /\ ~q.resub /\ ~q.track /\ q.got = {} /\ q.twice = k.twice
        /\ q.conn = k.conn /\ q.lossy = k.lossy
    <3> HIDE DEF k
    <3> QED BY <1>1 DEF ClientType
  <2> HIDE DEF q
  <2>3. InFlight(q) = <<>> /\ DOMAIN InFlight(q) = {}
    BY <1>2, <2>2, NothingWaits
  <2>4. PlaceOk(q, hub, made)
    <3>1. Len(q.fwd.replay) <= Limit /\ Len(q.fwd.live) <= Limit
      BY <1>1, <2>2 DEF PlaceOk
    <3> HIDE DEF k
    <3> QED BY <1>2, <2>2, <2>3, <3>1 DEF PlaceOk
  <2>5. WholeOk(q, hub)
    BY <1>2, <2>2, <2>3 DEF WholeOk
  <2>6. OnceOk(q, hub)
    BY <1>1, <1>2, <2>2 DEF OnceOk
  <2>7. ClientOk(q, hub, made)
    BY <2>2, <2>4, <2>5, <2>6 DEF ClientOk
  <2> HIDE DEF k
  <2> QED BY <1>1, <1>4, <2>1, <2>7, OneClientMoves
<1> QED BY <1>1, <1>5, <1>6

(* The answer to a request: the ack sets the client's count back.           *)
LEMMA AckKeeps ==
    ASSUME StreamInv, RunTypes, Ack
    PROVE  StreamInv'
<1>1. /\ HubOk(hub, made) /\ cl \in [Clients -> ClientType] /\ UNCHANGED <<hub, made>>
      /\ req' = NoRequest /\ req.c \in Clients \cup {NoClient} /\ req.ack \in {"awaited", "late", "lost"}
      /\ \A c \in Clients : ClientOk(cl[c], hub, made)
  BY DEF StreamInv, StreamsOk, Ack, RunTypes
<1>2. \A b \in Clients : ~Asking(b)'
  BY <1>1, WebAssumption DEF Asking, NoRequest
<1>3. CASE cl' = cl
  BY <1>1, <1>2, <1>3 DEF StreamInv, StreamsOk
<1>4. CASE req.c \notin Clients
  <2>1. cl' = cl
    <3>1. \A z : [cl EXCEPT ![req.c] = z] = cl
      BY <1>1, <1>4
    <3>2. CASE req.ack = "awaited"
      <4>1. \E z : cl' = [cl EXCEPT ![req.c] = z]
        <5>1. cl' = Acked(cl, req.c)
          BY <3>2 DEF Ack
        <5> QED BY <1>1, <1>4, <5>1 DEF Acked
      <4> QED BY <3>1, <4>1
    <3>3. CASE req.ack = "late"
      <4>1. cl' = [cl EXCEPT ![req.c].fwd = Forwarding(@), ![req.c].reset = @ \/ cl[req.c].got # {}]
        BY <3>3 DEF Ack
      <4> QED BY <1>1, <1>4, <4>1
    <3>4. CASE req.ack = "lost"
      BY <3>4 DEF Ack
    <3> QED BY <1>1, <3>2, <3>3, <3>4
  <2> QED BY <1>3, <2>1
<1>5. CASE req.c \in Clients /\ req.ack # "lost"
  <2> DEFINE c == req.c
             k == cl[c]
             qa == [k EXCEPT !.unsure = FALSE, !.track = TRUE, !.last = 0, !.base = 0,
                             !.reset = k.reset \/ k.got # {},
                             !.astray = (k.astray /\ k.fwd.at = "on") \/ k.fwd.at = "over",
                             !.fwd = Forwarding(k.fwd)]
             ql == [k EXCEPT !.fwd = Forwarding(k.fwd), !.reset = k.reset \/ k.got # {}]
             q == IF req.ack = "awaited" THEN qa ELSE ql
  <2>1. c \in Clients /\ k \in ClientType /\ ClientOk(k, hub, made) /\ k.conn /\ ~k.resub
    BY <1>1, <1>5 DEF StreamInv, Asking
  <2>2. cl' = [cl EXCEPT ![c] = q]
    <3>1. CASE req.ack = "awaited"
      <4>1. cl' = Acked(cl, req.c)
        BY <3>1 DEF Ack
      <4> QED BY <1>1, <2>1, <3>1, <4>1 DEF Acked, ClientType
    <3>2. CASE req.ack = "late"
      <4>1. cl' = [cl EXCEPT ![req.c].fwd = Forwarding(@), ![req.c].reset = @ \/ cl[req.c].got # {}]
        BY <3>2 DEF Ack
      <4> QED BY <1>1, <2>1, <3>2, <4>1 DEF ClientType
    <3> QED BY <1>1, <1>5, <3>1, <3>2
  <2>3. Forwarding(k.fwd) \in ForwardType
    <3>1. k.fwd \in ForwardType
      BY <2>1 DEF ClientType
    <3>2. <<>> \in Seq(HubEvents)
      OBVIOUS
    <3>3. [NoForward EXCEPT !.at = "starting"] \in ForwardType
      BY <3>2 DEF NoForward, ForwardType
    <3> QED BY <3>1, <3>3 DEF Forwarding
  <2>4. /\ q \in ClientType /\ q.conn = k.conn /\ q.resub = k.resub /\ q.fwd = Forwarding(k.fwd)
        /\ \/ q.track /\ q.last = 0 /\ q.base = 0
           \/ q.track = k.track /\ q.last = k.last /\ q.base = k.base
        /\ q.reset = (k.reset \/ k.got # {})
        /\ q.mixed = k.mixed /\ q.got = k.got /\ q.lossy = k.lossy /\ q.twice = k.twice
    <3>1. (k.reset \/ k.got # {}) \in BOOLEAN
          /\ ((k.astray /\ k.fwd.at = "on") \/ k.fwd.at = "over") \in BOOLEAN
      OBVIOUS
    <3> HIDE DEF k
    <3>2. CASE req.ack = "awaited"
      <4>1. q = qa
        BY <3>2
      <4>2. qa \in ClientType
        BY <2>1, <2>3, <3>1 DEF ClientType
      <4>3. /\ qa.conn = k.conn /\ qa.resub = k.resub /\ qa.fwd = Forwarding(k.fwd)
            /\ qa.track /\ qa.last = 0 /\ qa.base = 0 /\ qa.reset = (k.reset \/ k.got # {})
            /\ qa.mixed = k.mixed /\ qa.got = k.got /\ qa.lossy = k.lossy /\ qa.twice = k.twice
        BY <2>1, <2>3, <3>1 DEF ClientType
      <4> HIDE DEF q, qa
      <4> QED BY <4>1, <4>2, <4>3
    <3>3. CASE req.ack # "awaited"
      <4>1. q = ql
        BY <3>3
      <4>2. ql \in ClientType
        BY <2>1, <2>3, <3>1 DEF ClientType
      <4>3. /\ ql.conn = k.conn /\ ql.resub = k.resub /\ ql.fwd = Forwarding(k.fwd)
            /\ ql.track = k.track /\ ql.last = k.last /\ ql.base = k.base /\ ql.reset = (k.reset \/ k.got # {})
            /\ ql.mixed = k.mixed /\ ql.got = k.got /\ ql.lossy = k.lossy /\ ql.twice = k.twice
        BY <2>1, <2>3, <3>1 DEF ClientType
      <4> HIDE DEF q, ql
      <4> QED BY <4>1, <4>2, <4>3
    <3> QED BY <3>2, <3>3
  <2> HIDE DEF q, k, c
  <2>5. ClientOk(q, hub, made)
    BY <2>1, <2>4, AckedClient
  <2> QED BY <1>1, <1>2, <2>1, <2>2, <2>5, OneClient
<1>6. CASE req.c \in Clients /\ req.ack = "lost"
  <2>1. cl' = cl
    BY <1>6 DEF Ack
  <2> QED BY <1>3, <2>1
<1> QED BY <1>1, <1>4, <1>5, <1>6

(* A client stops waiting for the answer.                                   *)
LEMMA TimeoutKeeps ==
    ASSUME StreamInv, RunTypes, AckTimesOut
    PROVE  StreamInv'
<1> DEFINE c == req.c
           k == cl[c]
           q == [k EXCEPT !.unsure = TRUE]
<1>1. /\ HubOk(hub, made) /\ cl \in [Clients -> ClientType] /\ UNCHANGED <<hub, made>>
      /\ req' = [req EXCEPT !.ack = "late"] /\ req.ack = "awaited" /\ req'.c = req.c
      /\ \A d \in Clients : ClientOk(cl[d], hub, made)
      /\ cl' = [cl EXCEPT ![c].unsure = TRUE]
  BY DEF StreamInv, StreamsOk, AckTimesOut, RunTypes, Unsure
<1>2. \A b \in Clients : Asking(b)' => Asking(b)
  BY <1>1 DEF Asking
<1>3. CASE c \notin Clients
  <2>1. cl' = cl
    BY <1>1, <1>3
  <2> QED BY <1>1, <1>2, <2>1 DEF StreamInv, StreamsOk
<1>4. CASE c \in Clients
  <2>1. cl' = [cl EXCEPT ![c] = q] /\ k \in ClientType /\ ClientOk(k, hub, made)
    BY <1>1, <1>4
  <2>2. k.conn /\ ~k.resub
    BY <1>1, <1>4 DEF StreamInv, Asking
  <2>3. /\ q \in ClientType /\ q.conn = k.conn /\ q.track = k.track /\ q.last = k.last /\ q.resub = k.resub
        /\ q.base = k.base /\ q.mixed = k.mixed /\ q.fwd = k.fwd /\ q.got = k.got /\ q.lossy = k.lossy
        /\ q.reset = k.reset /\ q.twice = k.twice
    <3> HIDE DEF k
    <3> QED BY <2>1 DEF ClientType
  <2> HIDE DEF q, k, c
  <2>4. ClientOk(q, hub, made)
    BY <2>1, <2>3, SameClient
  <2> QED BY <1>1, <1>2, <1>4, <2>1, <2>2, <2>3, <2>4, OneClientMoves
<1> QED BY <1>3, <1>4

(* The channel is removed from the hub.                                     *)
LEMMA RemoveKeeps ==
    ASSUME StreamInv, RemoveLater
    PROVE  StreamInv'
<1>1. /\ HubOk(hub, made) /\ cl \in [Clients -> ClientType] /\ UNCHANGED <<req, made>> /\ hub' = NoChannel
      /\ cl' = [c \in Clients |-> [cl[c] EXCEPT !.fwd.open = FALSE]]
      /\ \A c \in Clients : ClientOk(cl[c], hub, made)
  BY DEF StreamInv, StreamsOk, RemoveLater
<1>2. ASSUME NEW c \in Clients
      PROVE  ClientOk(cl'[c], NoChannel, made) /\ cl'[c] \in ClientType
             /\ cl'[c].conn = cl[c].conn /\ cl'[c].resub = cl[c].resub
  <2>1. cl'[c] = [cl[c] EXCEPT !.fwd.open = FALSE]
    BY <1>1
  <2>2. ClientOk(cl'[c], NoChannel, made)
    BY <1>1, <2>1, ClosedClient
  <2>3. cl[c] \in ClientType
    BY <1>1
  <2> QED BY <2>1, <2>2, <2>3 DEF ClientOk, ClientType
<1>3. HubOk(NoChannel, made)
  <2>1. <<>> \in Seq(HubEvents) /\ Len(<<>>) = 0 /\ made \in Nat /\ Limit \in Nat
    BY <1>1, WebAssumption DEF HubOk
  <2> QED BY <2>1 DEF HubOk, NoChannel
<1>4. cl' \in [Clients -> ClientType]
  BY <1>1, <1>2
<1>5. StreamsOk(hub', made', cl')
  BY <1>1, <1>2, <1>3, <1>4 DEF StreamsOk
<1>6. \A c \in Clients : Asking(c)' => Asking(c)
  BY <1>1 DEF Asking
<1> QED BY <1>2, <1>5, <1>6 DEF StreamInv

(* The process restarts: the hub and every connection are gone.             *)
LEMMA RestartKeeps ==
    ASSUME StreamInv, RunTypes, Restart
    PROVE  StreamInv'
<1> DEFINE old(c) == IF c = req.c THEN Unsure(cl, c)[c] ELSE cl[c]
<1>1. /\ HubOk(hub, made) /\ cl \in [Clients -> ClientType] /\ made' = made /\ hub' = NoChannel
      /\ req' = NoRequest
      /\ cl' = [c \in Clients |-> [old(c) EXCEPT !.conn = FALSE, !.resub = FALSE, !.fwd = NoForward]]
      /\ \A c \in Clients : ClientOk(cl[c], hub, made)
  BY DEF StreamInv, StreamsOk, Restart
<1>2. ASSUME NEW c \in Clients PROVE ClientOk(cl'[c], NoChannel, made) /\ cl'[c] \in ClientType
  <2> DEFINE k == cl[c]
             o == old(c)
             q == [o EXCEPT !.conn = FALSE, !.resub = FALSE, !.fwd = NoForward]
  <2>1. cl'[c] = q /\ k \in ClientType /\ ClientOk(k, hub, made)
    BY <1>1
  <2>2. o = k \/ o = [k EXCEPT !.unsure = TRUE]
    BY <1>1 DEF Unsure
  <2>3. NoForward \in ForwardType
    <3>1. <<>> \in Seq(HubEvents)
      OBVIOUS
    <3> QED BY <3>1 DEF NoForward, ForwardType
  <2> HIDE DEF k, o
  <2>4. /\ o \in ClientType /\ o.track = k.track /\ o.last = k.last /\ o.base = k.base
        /\ o.mixed = k.mixed /\ o.got = k.got /\ o.lossy = k.lossy /\ o.reset = k.reset /\ o.twice = k.twice
    BY <2>1, <2>2 DEF ClientType
  <2>5. /\ q \in ClientType /\ q.fwd = NoForward /\ ~q.resub
        /\ q.track = o.track /\ q.last = o.last /\ q.base = o.base
        /\ q.mixed = o.mixed /\ q.got = o.got /\ q.lossy = o.lossy /\ q.reset = o.reset /\ q.twice = o.twice
    BY <2>3, <2>4 DEF ClientType
  <2>6. ~NoChannel.on
    BY DEF NoChannel
  <2> HIDE DEF q
  <2>7. ClientOk(q, NoChannel, made)
    BY <2>1, <2>4, <2>5, <2>6, AloneClient
  <2> QED BY <2>1, <2>5, <2>7
<1>3. HubOk(NoChannel, made)
  <2>0. made \in Nat
    BY <1>1 DEF HubOk
  <2>1. <<>> \in Seq(HubEvents) /\ Len(<<>>) = 0 /\ made \in Nat /\ Limit \in Nat
    BY <2>0, WebAssumption
  <2> QED BY <2>1 DEF HubOk, NoChannel
<1>4. cl' \in [Clients -> ClientType]
  BY <1>1, <1>2
<1>5. \A c \in Clients : ~Asking(c)'
  BY <1>1, WebAssumption DEF Asking, NoRequest
<1> QED BY <1>1, <1>2, <1>3, <1>4, <1>5 DEF StreamInv, StreamsOk

(* Every step keeps the streams whole.                                      *)
LEMMA StreamKept == StreamInv /\ RunTypes /\ [WebNext]_webVars => StreamInv'
<1> SUFFICES ASSUME StreamInv, RunTypes, [WebNext]_webVars PROVE StreamInv'
  OBVIOUS
<1>0. StreamsOk(hub, made, cl) /\ \A c \in Clients : Asking(c) => cl[c].conn /\ ~cl[c].resub
  BY DEF StreamInv
<1>s. ASSUME UNCHANGED <<hub, made, cl, req>> PROVE StreamInv'
  BY <1>0, <1>s DEF StreamInv, Asking
<1>1. ASSUME NEW i \in RunTurns, Emit(i) \/ RowEnds(i) \/ Tell(i) PROVE StreamInv'
  <2>1. UNCHANGED <<hub, made, cl, req>>
    BY <1>1 DEF Emit, RowEnds, Tell
  <2> QED BY <1>s, <2>1
<1>2. CASE Inject \/ Promote \/ PublisherEnds
  <2>1. UNCHANGED <<hub, made, cl, req>>
    BY <1>2 DEF Inject, Promote, PublisherEnds
  <2> QED BY <1>s, <2>1
<1>3. CASE PublishEvent
  <2>1. oq # <<>> /\ Publish(Head(oq)) /\ made' = made /\ req' = req /\ Head(oq) \in RunEvents
    BY <1>3 DEF PublishEvent, RunTypes
  <2>2. CASE hub.on /\ ~hub.done
    <3>1. hub' = Published(hub, Head(oq)) /\ cl' = Broadcast(cl, hub, Head(oq))
      BY <2>1, <2>2 DEF Publish
    <3>2. /\ StreamsOk(hub', made, cl')
          /\ \A c \in Clients : cl'[c].conn = cl[c].conn /\ cl'[c].resub = cl[c].resub
      BY <1>0, <2>1, <2>2, <3>1, PublishedStreams
    <3>3. \A c \in Clients : Asking(c)' => Asking(c)
      BY <2>1 DEF Asking
    <3> QED BY <1>0, <2>1, <3>2, <3>3 DEF StreamInv
  <2>3. CASE ~(hub.on /\ ~hub.done)
    <3>1. UNCHANGED <<hub, made, cl, req>>
      BY <2>1, <2>3 DEF Publish
    <3> QED BY <1>s, <3>1
  <2> QED BY <2>2, <2>3
<1>4. ASSUME req'.c = req.c, req'.ack = req.ack,
             PublishTerminal(1, cl) \/ UNCHANGED <<hub, made, cl>>
                                    \/ (hub' = Created(hub) /\ CountMade /\ cl' = cl)
      PROVE  StreamInv'
  <2>1. \A c \in Clients : Asking(c)' => Asking(c)
    BY <1>4 DEF Asking
  <2>2. StreamsOk(hub', made', cl') /\ \A c \in Clients : cl'[c].conn = cl[c].conn /\ cl'[c].resub = cl[c].resub
    <3>1. CASE PublishTerminal(1, cl)
      BY <1>0, <3>1, TerminalStreams
    <3>2. CASE UNCHANGED <<hub, made, cl>>
      BY <1>0, <3>2
    <3>3. CASE hub' = Created(hub) /\ CountMade /\ cl' = cl
      BY <1>0, <3>3, CreatedStreams
    <3> QED BY <1>4, <3>1, <3>2, <3>3
  <2> QED BY <1>0, <2>1, <2>2 DEF StreamInv
<1>5. CASE ReadRow
  <2>1. req'.c = req.c /\ req'.ack = req.ack
    BY <1>5 DEF ReadRow, RunTypes
  <2>2. PublishTerminal(1, cl) \/ UNCHANGED <<hub, made, cl>>
    BY <1>5 DEF ReadRow
  <2> QED BY <1>4, <2>1, <2>2
<1>6. CASE Register
  <2>1. req'.c = req.c /\ req'.ack = req.ack
    BY <1>6 DEF Register, RunTypes
  <2>2. hub' = Created(hub) /\ CountMade /\ cl' = cl
    BY <1>6 DEF Register
  <2> QED BY <1>4, <2>1, <2>2
<1>7. CASE Latest
  <2>1. req'.c = req.c /\ req'.ack = req.ack
    BY <1>7 DEF Latest, RunTypes
  <2>2. PublishTerminal(1, cl) \/ UNCHANGED <<hub, made, cl>>
    BY <1>7 DEF Latest
  <2> QED BY <1>4, <2>1, <2>2
<1>8. ASSUME NEW c \in Clients, SendFirst(c) \/ SendAgain(c) \/ FollowUp(c) PROVE StreamInv'
  <2>1. cl[c].conn /\ ~cl[c].resub /\ req'.c = c /\ cl' = cl
        /\ (UNCHANGED <<hub, made>> \/ (hub' = Created(hub) /\ CountMade))
    BY <1>8 DEF SendFirst, SendAgain, FollowUp, MaySend, Request
  <2>2. StreamsOk(hub', made', cl')
    BY <1>0, <2>1, CreatedStreams
  <2>3. \A b \in Clients : Asking(b)' => b = c
    BY <2>1 DEF Asking
  <2>4. \A b \in Clients : Asking(b)' => cl[b].conn /\ ~cl[b].resub
    BY <2>1, <2>3
  <2> QED BY <2>1, <2>2, <2>4 DEF StreamInv
<1>9. ASSUME NEW c \in Clients,
             ForwardStarts(c) \/ Forward(c) \/ ForwardEnds(c) \/ Disconnect(c) \/ Reconnect(c) \/ Resubscribe(c)
      PROVE  StreamInv'
  BY <1>9, StartKeeps, ForwardKeeps, EndKeeps, DisconnectKeeps, ReconnectKeeps, ResubscribeKeeps
<1>10. CASE Ack
  BY <1>10, AckKeeps
<1>11. CASE AckTimesOut
  BY <1>11, TimeoutKeeps
<1>12. CASE RemoveLater
  BY <1>12, RemoveKeeps
<1>13. CASE Restart
  BY <1>13, RestartKeeps
<1>14. CASE UNCHANGED webVars
  BY <1>s, <1>14 DEF webVars
<1> QED BY <1>1, <1>2, <1>3, <1>5, <1>6, <1>7, <1>8, <1>9, <1>10, <1>11, <1>12, <1>13, <1>14 DEF WebNext, Server

(* What is in flight at a client is never more than twice the limit.        *)
LEMMA StreamsAreWhole == StreamInv /\ RunTypes => StreamWhole
<1> SUFFICES ASSUME StreamInv, RunTypes PROVE StreamWhole
  OBVIOUS
<1>1. HubOk(hub, made) /\ \A c \in Clients : ClientOk(cl[c], hub, made)
  BY DEF StreamInv, StreamsOk
<1>2. ASSUME NEW c \in Clients
      PROVE  cl[c].last \in Nat /\ Len(cl[c].fwd.replay \o cl[c].fwd.live) <= 2 * Limit
  <2> DEFINE s == cl[c].fwd.replay
             t == cl[c].fwd.live
  <2>1. /\ s \in Seq(HubEvents) /\ t \in Seq(HubEvents) /\ cl[c].last \in Nat
        /\ Len(s) <= Limit /\ Len(t) <= Limit
    BY <1>1 DEF ClientOk, ClientType, ForwardType, PlaceOk
  <2> HIDE DEF s, t
  <2>2. Len(s \o t) = Len(s) + Len(t) /\ Len(s) \in Nat /\ Len(t) \in Nat
    BY <2>1, JoinedSeq
  <2>3. Len(s \o t) <= 2 * Limit
    BY <2>1, <2>2, WebAssumption
  <2> QED BY <2>1, <2>3 DEF s, t
<1>3. WebTypeOK
  <2>1. hub.on \in BOOLEAN /\ Len(hub.hist) <= Limit
    BY <1>1 DEF HubOk
  <2> QED BY <1>2, <2>1 DEF WebTypeOK, RunTypes
<1>4. NoGap
  <2>1. ASSUME NEW c \in Clients, ~cl[c].lossy, NEW g \in cl[c].got, g[1] \notin cl[c].mixed
        PROVE  \A n \in 1 .. g[2] : <<g[1], n>> \in cl[c].got
    <3>1. WholeOk(cl[c], hub)
      BY <1>1 DEF ClientOk
    <3>2. HasAll(cl[c], g[1], g[2])
      BY <2>1, <3>1 DEF WholeOk
    <3> QED BY <3>2 DEF HasAll
  <2> QED BY <2>1 DEF NoGap
<1>5. NoDoubleApply
  BY <1>1 DEF NoDoubleApply, ClientOk, OnceOk
<1> QED BY <1>3, <1>4, <1>5 DEF StreamWhole

(* A tab that loses its connection and resumes has seen every event of its  *)
(* run once, whatever the number of tabs, connections lost and events: the  *)
(* replay joins what the tab has, and live events join the replay           *)
(* (RunHub::subscribe_with_replay, forward_run_subscription and the Web UI's *)
(* count of what it applied).                                               *)
THEOREM StreamsStayWhole == WebSpec => []StreamWhole
<1>1. WebInit => StreamInv /\ RunTypes
  BY StreamInit, RunTypesInit
<1>2. (StreamInv /\ RunTypes) /\ [WebNext]_webVars => (StreamInv /\ RunTypes)'
  BY StreamKept, RunTypesKept
<1>3. StreamInv /\ RunTypes => StreamWhole
  BY StreamsAreWhole
<1> QED BY <1>1, <1>2, <1>3, PTL DEF WebSpec

-----------------------------------------------------------------------------
(* The end of a run is told once, and is its end.                           *)

LEMMA EndInit == WebInit => EndInv
<1> SUFFICES ASSUME WebInit PROVE EndInv
  OBVIOUS
<1>1. /\ turn[1] = "none" /\ turn[2] = "none" /\ ~staged /\ route = 0 /\ oq = <<>> /\ pub = "none"
      /\ hub.hist = <<>> /\ ~hub.done /\ timers = 0 /\ req.pc = "idle" /\ ~cut
  BY DEF WebInit, RunTurns, NoChannel, NoRequest
<1>2. DOMAIN oq = {} /\ DOMAIN hub.hist = {}
  BY <1>1
<1>3. ~Over(1)
  BY <1>1 DEF Over
<1>4. TurnsAgree
  BY <1>1, <1>3 DEF TurnsAgree
<1>5. QueueAgrees
  BY <1>2 DEF QueueAgrees
<1>6. ChannelAgrees
  BY <1>1, <1>2 DEF ChannelAgrees, EndToldOnce
<1> QED BY <1>4, <1>5, <1>6 DEF EndInv

(* What the channel has told, it has told of the turns and queue there are: *)
(* the part of a step that does not touch them keeps the invariant.         *)
LEMMA EndSame ==
    ASSUME EndInv, UNCHANGED <<turn, failed, staged, route, oq, pub, hub, timers, cut>>,
           req'.pc = "latest" => req.pc = "latest"
    PROVE  EndInv'
<1>1. (RunOver' <=> RunOver) /\ (Over(1)' <=> Over(1)) /\ (Heard(1)' <=> Heard(1)) /\ (Heard(2)' <=> Heard(2))
  BY DEF RunOver, Over, Heard
<1>2. \A k : ChildHeard(k)' <=> ChildHeard(k)
  BY <1>1 DEF ChildHeard
<1>3. TurnsAgree'
  BY <1>1 DEF EndInv, TurnsAgree
<1>4. QueueAgrees'
  BY <1>1, <1>2 DEF EndInv, QueueAgrees
<1>5. ChannelAgrees'
  BY <1>1, <1>2 DEF EndInv, ChannelAgrees, EndToldOnce
<1> QED BY <1>3, <1>4, <1>5 DEF EndInv

(* No end of a turn waits or was told before it is over, and nothing of a   *)
(* run is terminal while it goes on.                                        *)
LEMMA NoEndYet ==
    ASSUME RunTypes, EndInv
    PROVE  /\ turn[1] # "told" =>
                /\ turn[2] = "none" /\ \A k \in DOMAIN oq : ~oq[k].end
                /\ \A i \in DOMAIN hub.hist : hub.hist[i].end /\ hub.hist[i].turn = 1 => hub.done
           /\ ~RunOver => \A k \in DOMAIN oq : ~oq[k].terminal
           /\ ~RunOver /\ ~cut => ~hub.done /\ ~(timers > 0)
           /\ turn[2] # "told" => \A k \in DOMAIN oq : ~(oq[k].end /\ oq[k].turn = 2)
           /\ \A k \in DOMAIN oq : oq[k] \in RunEvents /\ oq[k].turn \in {1, 2}
<1>1. \A k \in DOMAIN oq : oq[k] \in RunEvents /\ oq[k].turn \in {1, 2}
  <2>1. \A k \in DOMAIN oq : oq[k] \in RunEvents
    BY DEF RunTypes
  <2> QED BY <2>1 DEF RunEvents, RunTurns
<1>2. turn[1] # "told" => turn[2] = "none"
  BY DEF EndInv, TurnsAgree
<1>3. \A k \in DOMAIN oq : oq[k].end => turn[oq[k].turn] = "told"
  BY DEF EndInv, QueueAgrees
<1>4. turn[1] # "told" => \A k \in DOMAIN oq : ~oq[k].end
  BY <1>1, <1>2, <1>3
<1>5. turn[2] # "told" => \A k \in DOMAIN oq : ~(oq[k].end /\ oq[k].turn = 2)
  BY <1>3
<1>6. ~RunOver => \A k \in DOMAIN oq : ~oq[k].terminal
  BY DEF EndInv, QueueAgrees
<1>7. /\ ~RunOver /\ ~cut => ~hub.done /\ ~(timers > 0)
      /\ turn[1] # "told" => \A i \in DOMAIN hub.hist : hub.hist[i].end /\ hub.hist[i].turn = 1 => hub.done
  BY DEF EndInv, ChannelAgrees
<1> QED BY <1>1, <1>2, <1>4, <1>5, <1>6, <1>7

(* An event of a turn that runs.                                            *)
LEMMA EmitEnds ==
    ASSUME RunTypes, EndInv, NEW i \in RunTurns, Emit(i)
    PROVE  EndInv'
<1> DEFINE x == Event(i, FALSE, FALSE)
<1>1. /\ oq' = Append(oq, x) /\ UNCHANGED <<turn, failed, staged, route, pub, hub, timers, cut, req>>
      /\ pub # "none"
  BY DEF Emit, past, Heard
<1>2. x \in RunEvents /\ ~x.end /\ ~x.terminal
  BY DEF Event, RunEvents
<1> HIDE DEF x
<1>3. /\ DOMAIN oq' = 1 .. Len(oq) + 1 /\ DOMAIN oq = 1 .. Len(oq) /\ Len(oq) \in Nat
      /\ oq'[Len(oq) + 1] = x /\ \A k \in DOMAIN oq : k \in DOMAIN oq' /\ oq'[k] = oq[k]
  <2>1. oq \in Seq(RunEvents) /\ Len(oq) \in Nat
    BY DEF RunTypes
  <2> QED BY <1>1, <1>2, <2>1
<1>4. ASSUME NEW k \in DOMAIN oq' PROVE k \in DOMAIN oq \/ oq'[k] = x
  BY <1>3
<1>5. (RunOver' <=> RunOver) /\ (Over(1)' <=> Over(1)) /\ (Heard(1)' <=> Heard(1)) /\ (Heard(2)' <=> Heard(2))
  BY <1>1 DEF RunOver, Over, Heard
<1>6. ASSUME NEW k, ChildHeard(k) PROVE ChildHeard(k)'
  BY <1>1, <1>3, <1>5, <1>6 DEF ChildHeard
<1>7. TurnsAgree'
  BY <1>1, <1>5 DEF EndInv, TurnsAgree
<1>8. QueueAgrees'
  <2>1. ASSUME NEW k \in DOMAIN oq', oq'[k].terminal \/ oq'[k].end PROVE k \in DOMAIN oq /\ oq'[k] = oq[k]
    BY <1>2, <1>3, <1>4, <2>1
  <2>2. ASSUME NEW k \in DOMAIN oq'
        PROVE  /\ oq'[k].terminal => RunOver' /\ oq'[k].end
               /\ oq'[k].end /\ oq'[k].turn = 2 => oq'[k].terminal
               /\ oq'[k].end => turn'[oq'[k].turn] = "told"
               /\ oq'[k].end /\ oq'[k].turn = 1 /\ ~oq'[k].terminal => ChildHeard(k)'
    <3>1. CASE oq'[k].terminal \/ oq'[k].end
      <4>1. k \in DOMAIN oq /\ oq'[k] = oq[k]
        BY <2>1, <3>1
      <4> QED BY <1>1, <1>5, <1>6, <4>1 DEF EndInv, QueueAgrees
    <3>2. CASE ~(oq'[k].terminal \/ oq'[k].end)
      BY <3>2
    <3> QED BY <3>1, <3>2
  <2>3. ASSUME NEW k \in DOMAIN oq', NEW l \in DOMAIN oq', oq'[k].end, oq'[l].end, oq'[l].turn = oq'[k].turn
        PROVE  l = k
    <3>1. k \in DOMAIN oq /\ oq'[k] = oq[k] /\ l \in DOMAIN oq /\ oq'[l] = oq[l]
      BY <2>1, <2>3
    <3> QED BY <2>3, <3>1 DEF EndInv, QueueAgrees
  <2> QED BY <2>2, <2>3 DEF QueueAgrees
<1>9. ChannelAgrees'
  <2>1. \A k \in DOMAIN oq' : oq'[k].end => k \in DOMAIN oq /\ oq'[k] = oq[k]
    BY <1>2, <1>3, <1>4
  <2>2. EndToldOnce'
    BY <1>1 DEF EndInv, ChannelAgrees, EndToldOnce
  <2> QED BY <1>1, <1>5, <1>6, <2>1, <2>2 DEF EndInv, ChannelAgrees
<1> QED BY <1>7, <1>8, <1>9 DEF EndInv

(* The tool phase takes the follow-up, or the client stages one: turn 1     *)
(* lives, and nothing of the end was told.                                  *)
LEMMA StagedEnds ==
    ASSUME RunTypes, EndInv, turn[1] = "live",
           UNCHANGED <<turn, failed, route, oq, pub, hub, timers, cut>>,
           req'.pc = "latest" => req.pc = "latest"
    PROVE  EndInv'
<1>1. /\ turn[2] = "none" /\ \A k \in DOMAIN oq : ~oq[k].end
      /\ \A i \in DOMAIN hub.hist : hub.hist[i].end /\ hub.hist[i].turn = 1 => hub.done
  BY NoEndYet
<1>2. ~RunOver /\ ~RunOver' /\ ~Over(1) /\ ~Over(1)'
  BY DEF RunOver, Over
<1>3. (\A k \in DOMAIN oq : ~oq[k].terminal) /\ (~cut => ~hub.done /\ ~(timers > 0))
  BY <1>2, NoEndYet
<1>4. TurnsAgree'
  BY <1>1, <1>2 DEF EndInv, TurnsAgree
<1>5. QueueAgrees'
  BY <1>1, <1>3 DEF QueueAgrees
<1>6. ChannelAgrees'
  BY <1>1, <1>2, <1>3 DEF EndInv, ChannelAgrees, EndToldOnce
<1> QED BY <1>4, <1>5, <1>6 DEF EndInv

(* The row of a turn becomes terminal.                                      *)
LEMMA RowEnds2 ==
    ASSUME RunTypes, EndInv, NEW i \in RunTurns, RowEnds(i)
    PROVE  EndInv'
<1>1. /\ turn[i] = "live" /\ turn' = [turn EXCEPT ![i] = "ended"]
      /\ (failed' = failed /\ (i = 1 => ~staged)) \/ failed' = failed \cup {i}
      /\ UNCHANGED <<staged, route, oq, pub, hub, timers, cut, req>> /\ i \in {1, 2}
  BY DEF RowEnds, obs, past, RunTurns
<1>2. /\ turn \in [RunTurns -> {"none", "live", "ended", "told"}] /\ 1 \in RunTurns /\ 2 \in RunTurns
  BY DEF RunTypes, RunTurns
<1>3. turn'[i] = "ended" /\ \A j \in RunTurns : j # i => turn'[j] = turn[j]
  BY <1>1, <1>2
<1>4. turn[2] # "none" => turn[1] = "told"
  BY DEF EndInv, TurnsAgree
<1>5. ~RunOver /\ (Heard(1)' <=> Heard(1)) /\ (Heard(2)' <=> Heard(2))
  BY <1>1, <1>2, <1>4 DEF RunOver, Over, Heard
<1>6. /\ \A k \in DOMAIN oq : oq[k].end => oq[k].turn \in {1, 2} /\ turn[oq[k].turn] = "told"
      /\ \A k \in DOMAIN oq : ~oq[k].terminal
      /\ ~cut => ~hub.done /\ ~(timers > 0)
  BY <1>5, NoEndYet DEF EndInv, QueueAgrees
<1>7. ASSUME NEW k, ChildHeard(k) PROVE ChildHeard(k)'
  BY <1>1, <1>2, <1>3, <1>5, <1>7 DEF ChildHeard
<1>8. TurnsAgree'
  <2>1. staged /\ Over(1)' => 1 \in failed' /\ turn'[2] = "none"
    <3>1. CASE i = 1
      BY <1>1, <1>2, <1>3, <1>4, <3>1 DEF Over
    <3>2. CASE i = 2
      BY <1>1, <1>2, <1>3, <1>4, <3>2 DEF Over, EndInv, TurnsAgree
    <3> QED BY <1>1, <3>1, <3>2
  <2>2. turn'[2] # "none" => turn'[1] = "told"
    BY <1>1, <1>2, <1>3, <1>4
  <2>3. (route = 2 => turn'[2] # "none") /\ (pub = "none" => oq = <<>> /\ route = 0)
        /\ ~(pub # "none" /\ route = 0)
    BY <1>1, <1>2, <1>3, <1>5 DEF EndInv, TurnsAgree
  <2>4. req.pc = "latest" /\ turn'[1] = "live" => pub # "none"
    BY <1>1, <1>2, <1>3 DEF EndInv, TurnsAgree
  <2> QED BY <1>1, <2>1, <2>2, <2>3, <2>4 DEF TurnsAgree
<1>9. QueueAgrees'
  <2>1. ASSUME NEW k \in DOMAIN oq, oq[k].end PROVE turn'[oq[k].turn] = "told"
    <3>1. oq[k].turn \in RunTurns /\ turn[oq[k].turn] = "told"
      BY <1>6, <2>1 DEF RunTurns
    <3> QED BY <1>1, <1>3, <3>1
  <2> QED BY <1>1, <1>6, <1>7, <2>1 DEF EndInv, QueueAgrees
<1>10. ChannelAgrees'
  <2>1. turn[1] = "told" => turn'[1] = "told"
    BY <1>1, <1>2, <1>3
  <2>2. EndToldOnce'
    BY <1>1 DEF EndInv, ChannelAgrees, EndToldOnce
  <2> QED BY <1>1, <1>5, <1>6, <1>7, <2>1, <2>2 DEF EndInv, ChannelAgrees
<1> QED BY <1>8, <1>9, <1>10 DEF EndInv

(* The follow-up becomes a turn of its own, and takes the observer over.    *)
LEMMA PromoteEnds ==
    ASSUME RunTypes, EndInv, Promote
    PROVE  EndInv'
<1>1. /\ turn[1] = "told" /\ staged /\ turn[2] = "none" /\ turn' = [turn EXCEPT ![2] = "live"] /\ ~staged'
      /\ route' = (IF Heard(1) THEN 2 ELSE 0) /\ UNCHANGED <<failed, oq, pub, hub, timers, cut, req>>
  BY DEF Promote, past
<1>2. turn'[1] = "told" /\ turn'[2] = "live"
  BY <1>1 DEF RunTypes, RunTurns
<1>3. ~RunOver /\ ~RunOver' /\ Over(1) /\ Over(1)'
  BY <1>1, <1>2 DEF RunOver, Over
<1>4. /\ \A k \in DOMAIN oq : ~oq[k].terminal /\ ~(oq[k].end /\ oq[k].turn = 2) /\ oq[k].turn \in {1, 2}
      /\ ~cut => ~hub.done /\ ~(timers > 0)
  BY <1>1, <1>3, NoEndYet
<1>5. pub # "none" => Heard(1) /\ Heard(2)'
  <2>1. route # 2 /\ (pub # "none" => route # 0)
    BY <1>1, <1>3 DEF EndInv, TurnsAgree
  <2>2. route \in 0 .. 2
    BY DEF RunTypes
  <2> QED BY <1>1, <2>1, <2>2 DEF Heard
<1>6. ASSUME NEW k, ChildHeard(k) PROVE ChildHeard(k)'
  <2>1. CASE staged /\ Heard(1)
    <3>1. pub # "none"
      BY <2>1 DEF Heard
    <3> QED BY <1>2, <1>5, <3>1 DEF ChildHeard
  <2>2. CASE ~(staged /\ Heard(1))
    BY <1>1, <1>6, <2>2 DEF ChildHeard
  <2> QED BY <2>1, <2>2
<1>7. TurnsAgree'
  <2>1. pub = "none" => oq = <<>> /\ route' = 0
    BY <1>1 DEF EndInv, TurnsAgree, Heard
  <2>2. pub # "none" => route' # 0
    BY <1>1, <1>5
  <2> QED BY <1>1, <1>2, <2>1, <2>2 DEF TurnsAgree
<1>8. QueueAgrees'
  BY <1>1, <1>2, <1>4, <1>6 DEF EndInv, QueueAgrees
<1>9. ChannelAgrees'
  <2>1. EndToldOnce'
    BY <1>1 DEF EndInv, ChannelAgrees, EndToldOnce
  <2>2. route' # 0 /\ pub # "none" => route # 0
    BY <1>5 DEF Heard
  <2> QED BY <1>1, <1>2, <1>3, <1>4, <1>6, <2>1, <2>2 DEF EndInv, ChannelAgrees
<1> QED BY <1>7, <1>8, <1>9 DEF EndInv

(* The channel is removed: a run that has a removal due is over.            *)
LEMMA RemoveEnds ==
    ASSUME RunTypes, EndInv, RemoveLater
    PROVE  EndInv'
<1>1. /\ timers > 0 /\ timers' = timers - 1 /\ hub' = NoChannel
      /\ UNCHANGED <<turn, failed, staged, route, oq, pub, cut, req>>
  BY DEF RemoveLater, run, obs, past
<1>2. hub'.hist = <<>> /\ DOMAIN hub'.hist = {} /\ ~hub'.done
  BY <1>1 DEF NoChannel
<1>3. (RunOver' <=> RunOver) /\ (Over(1)' <=> Over(1)) /\ (Heard(1)' <=> Heard(1)) /\ (Heard(2)' <=> Heard(2))
  BY <1>1 DEF RunOver, Over, Heard
<1>4. \A k : ChildHeard(k)' <=> ChildHeard(k)
  BY <1>1, <1>3 DEF ChildHeard
<1>5. TurnsAgree'
  BY <1>1, <1>3 DEF EndInv, TurnsAgree
<1>6. QueueAgrees'
  BY <1>1, <1>3, <1>4 DEF EndInv, QueueAgrees
<1>7. ChannelAgrees'
  <2>1. ~cut => RunOver
    BY <1>1 DEF EndInv, ChannelAgrees
  <2> QED BY <1>1, <1>2, <1>3, <2>1 DEF ChannelAgrees, EndToldOnce
<1> QED BY <1>5, <1>6, <1>7 DEF EndInv

(* The observer's publisher is done.                                        *)
LEMMA PublisherEnds2 ==
    ASSUME RunTypes, EndInv, PublisherEnds
    PROVE  EndInv'
<1>1. /\ pub = "on" /\ oq = <<>> /\ route = 0 /\ pub' = "none" /\ timers' = timers + 1
      /\ UNCHANGED <<turn, failed, staged, route, oq, hub, cut, req>>
  BY DEF PublisherEnds, run, past
<1>2. RunOver /\ RunOver' /\ Over(1)
  BY <1>1 DEF EndInv, TurnsAgree, RunOver, Over
<1>3. DOMAIN oq = {} /\ ~ChildHeard(0) /\ turn[1] # "live"
  <2>1. DOMAIN oq = {}
    BY <1>1
  <2> QED BY <1>1, <1>2, <2>1 DEF ChildHeard, Heard, Over
<1>4. TurnsAgree'
  BY <1>1, <1>2, <1>3 DEF EndInv, TurnsAgree, Over
<1>5. QueueAgrees'
  BY <1>1, <1>3 DEF QueueAgrees
<1>6. ChannelAgrees'
  <2>1. EndToldOnce'
    BY <1>1 DEF EndInv, ChannelAgrees, EndToldOnce
  <2> QED BY <1>1, <1>2, <1>3, <2>1 DEF EndInv, ChannelAgrees
<1> QED BY <1>4, <1>5, <1>6 DEF EndInv

(* The process restarts with nothing of the run in memory.                  *)
LEMMA RestartEnds ==
    ASSUME RunTypes, EndInv, Restart
    PROVE  EndInv'
<1>1. PICK t \in {"live", "told"} :
        turn' = [i \in RunTurns |-> IF turn[i] = "live" THEN t
                                    ELSE IF turn[i] = "ended" THEN "told" ELSE turn[i]]
  BY DEF Restart
<1>2. /\ failed' = failed \cup {i \in RunTurns : turn[i] = "live" /\ turn'[i] = "told"}
      /\ route' = 0 /\ oq' = <<>> /\ pub' = "none" /\ hub' = NoChannel /\ timers' = 0 /\ req' = NoRequest
      /\ UNCHANGED <<staged, cut>>
  BY DEF Restart
<1>3. /\ turn'[1] = (IF turn[1] = "live" THEN t ELSE IF turn[1] = "ended" THEN "told" ELSE turn[1])
      /\ turn'[2] = (IF turn[2] = "live" THEN t ELSE IF turn[2] = "ended" THEN "told" ELSE turn[2])
  BY <1>1 DEF RunTurns
<1>4. /\ staged /\ Over(1) => 1 \in failed /\ turn[2] = "none"
      /\ turn[2] # "none" => turn[1] = "told"
  BY DEF EndInv, TurnsAgree
<1>5. DOMAIN oq' = {} /\ DOMAIN hub'.hist = {} /\ ~hub'.done /\ req'.pc = "idle"
  BY <1>2 DEF NoChannel, NoRequest
<1>6. TurnsAgree'
  <2>1. turn'[2] # "none" => turn'[1] = "told"
    BY <1>3, <1>4
  <2>2. staged /\ Over(1)' => 1 \in failed' /\ turn'[2] = "none"
    <3>1. ASSUME staged, Over(1)' PROVE 1 \in failed' /\ turn'[2] = "none"
      <4>1. CASE turn[1] = "live"
        <5>1. turn'[1] = "told"
          BY <1>3, <3>1, <4>1 DEF Over
        <5> QED BY <1>2, <1>3, <1>4, <4>1, <5>1 DEF RunTurns
      <4>2. CASE turn[1] # "live"
        <5>1. Over(1)
          BY <1>3, <3>1, <4>2 DEF Over
        <5> QED BY <1>2, <1>3, <1>4, <3>1, <5>1
      <4> QED BY <4>1, <4>2
    <3> QED BY <3>1
  <2> QED BY <1>2, <1>5, <2>1, <2>2 DEF TurnsAgree
<1>7. QueueAgrees'
  BY <1>5 DEF QueueAgrees
<1>8. ChannelAgrees'
  BY <1>2, <1>5 DEF ChannelAgrees, EndToldOnce
<1> QED BY <1>6, <1>7, <1>8 DEF EndInv

(* A turn's end is told to its observer.  It is not terminal when the       *)
(* observer is kept for the follow-up, whose end is then still to come.     *)
LEMMA TellEnds ==
    ASSUME RunTypes, EndInv, NEW i \in RunTurns, Tell(i)
    PROVE  EndInv'
<1> DEFINE keep == i = 1 /\ i \in failed /\ staged
           silent == i = 1 /\ mute /\ i \notin failed
           x == Event(i, TRUE, ~keep)
           put == Heard(i) /\ ~silent
<1>1. /\ turn[i] = "ended" /\ turn' = [turn EXCEPT ![i] = "told"] /\ i \in {1, 2}
      /\ oq' = (IF put THEN Append(oq, x) ELSE oq) /\ route' = IF route = i /\ ~keep THEN 0 ELSE route
      /\ UNCHANGED <<failed, staged, pub, hub, timers, cut, req>>
  BY DEF Tell, RunTurns
<1>2. x \in RunEvents /\ x.end /\ (x.terminal <=> ~keep) /\ x.turn = i
  BY DEF Event, RunEvents
<1> HIDE DEF x
<1>3. turn'[i] = "told" /\ \A j \in RunTurns : j # i => turn'[j] = turn[j]
  BY <1>1 DEF RunTypes
<1>4. /\ staged /\ Over(1) => 1 \in failed /\ turn[2] = "none"
      /\ turn[2] # "none" => turn[1] = "told"
      /\ route = 2 => turn[2] # "none"
      /\ pub = "none" => oq = <<>> /\ route = 0
      /\ pub # "none" /\ route = 0 => RunOver
  BY DEF EndInv, TurnsAgree
<1>5. (keep <=> i = 1 /\ staged) /\ Over(1) /\ Over(1)'
  BY <1>1, <1>3, <1>4 DEF Over, RunTurns
<1>6. ~keep => RunOver'
  BY <1>1, <1>3, <1>4, <1>5 DEF RunOver, RunTurns
<1>7. keep => ~RunOver /\ i = 1
  BY DEF RunOver
<1>8. RunOver => RunOver'
  BY <1>6, <1>7
<1>9. Len(oq) \in Nat /\ DOMAIN oq = 1 .. Len(oq) /\ oq \in Seq(RunEvents)
  BY DEF RunTypes
<1>10. put => /\ DOMAIN oq' = 1 .. Len(oq) + 1 /\ oq'[Len(oq) + 1] = x
              /\ \A k \in DOMAIN oq : oq'[k] = oq[k]
  BY <1>1, <1>2, <1>9
<1>11. \A k \in DOMAIN oq : k \in DOMAIN oq' /\ oq'[k] = oq[k] /\ k < Len(oq) + 1
  BY <1>1, <1>9, <1>10
<1>12. \A k \in DOMAIN oq' : k \in DOMAIN oq \/ (put /\ k = Len(oq) + 1 /\ oq'[k] = x)
  BY <1>1, <1>9, <1>10
<1> HIDE DEF put, silent
<1>13. /\ \A k \in DOMAIN oq : oq[k].end => oq[k].turn \in RunTurns /\ oq[k].turn # i /\ turn[oq[k].turn] = "told"
       /\ ~RunOver => \A k \in DOMAIN oq : ~oq[k].terminal
       /\ ~RunOver /\ ~cut => ~hub.done /\ ~(timers > 0)
  <2>1. \A k \in DOMAIN oq : oq[k].turn \in {1, 2} /\ (oq[k].end => turn[oq[k].turn] = "told")
    BY NoEndYet DEF EndInv, QueueAgrees
  <2> QED BY <1>1, <2>1, NoEndYet DEF RunTurns
<1>14. ASSUME NEW k \in 0 .. Len(oq), ChildHeard(k) PROVE ChildHeard(k)'
  <2>1. CASE staged /\ Heard(1)
    <3>1. ASSUME i = 1 PROVE Heard(1)'
      BY <1>1, <1>5, <2>1, <3>1 DEF Heard
    <3>2. ASSUME i = 2 PROVE FALSE
      BY <1>1, <1>4, <1>5, <2>1, <3>2
    <3> QED BY <1>1, <2>1, <3>1, <3>2 DEF ChildHeard
  <2>2. CASE turn[2] \in {"live", "ended"} /\ Heard(2)
    <3>1. i = 2
      BY <1>1, <1>4, <2>2
    <3>2. ~keep /\ put
      BY <2>2, <3>1 DEF put, silent
    <3>3. Len(oq) + 1 \in DOMAIN oq' /\ Len(oq) + 1 > k /\ oq'[Len(oq) + 1] = x
      BY <1>9, <1>10, <3>2
    <3>4. x.turn = 2 /\ x.terminal
      BY <1>2, <3>1, <3>2
    <3> QED BY <3>3, <3>4 DEF ChildHeard
  <2>3. CASE \E l \in DOMAIN oq : l > k /\ oq[l].turn = 2 /\ oq[l].terminal
    BY <1>11, <2>3 DEF ChildHeard
  <2> QED BY <1>14, <2>1, <2>2, <2>3 DEF ChildHeard
<1>15. TurnsAgree'
  <2>1. staged /\ Over(1)' => 1 \in failed /\ turn'[2] = "none"
    BY <1>1, <1>3, <1>4, <1>5 DEF RunTurns
  <2>2. turn'[2] # "none" => turn'[1] = "told"
    BY <1>1, <1>3, <1>4 DEF RunTurns
  <2>3. route' = 2 => turn'[2] # "none"
    BY <1>1, <1>3, <1>4 DEF RunTurns
  <2>4. pub = "none" => oq' = <<>> /\ route' = 0
    BY <1>1, <1>4 DEF put, Heard
  <2>5. pub # "none" /\ route' = 0 => RunOver'
    BY <1>1, <1>4, <1>6, <1>8
  <2>6. turn'[1] # "live"
    BY <1>5 DEF Over
  <2> QED BY <1>1, <2>1, <2>2, <2>3, <2>4, <2>5, <2>6 DEF TurnsAgree
<1>16. QueueAgrees'
  <2>1. ASSUME NEW k \in DOMAIN oq'
        PROVE  /\ oq'[k].terminal => RunOver' /\ oq'[k].end
               /\ oq'[k].end /\ oq'[k].turn = 2 => oq'[k].terminal
               /\ oq'[k].end => turn'[oq'[k].turn] = "told"
               /\ oq'[k].end /\ oq'[k].turn = 1 /\ ~oq'[k].terminal => ChildHeard(k)'
    <3>1. CASE k \in DOMAIN oq
      <4>1. oq'[k] = oq[k] /\ k \in 0 .. Len(oq)
        BY <1>9, <1>11, <3>1
      <4>2. /\ oq[k].terminal => RunOver /\ oq[k].end
            /\ oq[k].end /\ oq[k].turn = 2 => oq[k].terminal
            /\ oq[k].end /\ oq[k].turn = 1 /\ ~oq[k].terminal => ChildHeard(k)
        BY <3>1 DEF EndInv, QueueAgrees
      <4>3. oq[k].end => turn'[oq[k].turn] = "told"
        BY <1>3, <1>13, <3>1
      <4> QED BY <1>8, <1>14, <4>1, <4>2, <4>3
    <3>2. CASE put /\ k = Len(oq) + 1 /\ oq'[k] = x
      <4>1. ASSUME keep PROVE ChildHeard(k)'
        <5>1. staged' /\ Heard(1)'
          BY <1>1, <1>5, <3>2, <4>1 DEF put, Heard
        <5> QED BY <5>1 DEF ChildHeard
      <4>2. oq'[k].end /\ oq'[k].turn = i /\ turn'[i] = "told" /\ (oq'[k].terminal <=> ~keep)
        BY <1>2, <1>3, <3>2
      <4>3. i = 2 => ~keep
        OBVIOUS
      <4> HIDE DEF keep
      <4> QED BY <1>6, <4>1, <4>2, <4>3
    <3> QED BY <1>12, <3>1, <3>2
  <2>2. ASSUME NEW k \in DOMAIN oq', NEW l \in DOMAIN oq', oq'[k].end, oq'[l].end, oq'[l].turn = oq'[k].turn
        PROVE  l = k
    <3>1. ASSUME NEW a \in DOMAIN oq', oq'[a].end PROVE a \in DOMAIN oq <=> oq'[a].turn # i
      BY <1>2, <1>9, <1>11, <1>12, <1>13, <3>1
    <3>2. CASE oq'[k].turn = i
      BY <1>12, <2>2, <3>1, <3>2
    <3>3. CASE oq'[k].turn # i
      <4>1. k \in DOMAIN oq /\ l \in DOMAIN oq
        BY <2>2, <3>1, <3>3
      <4>2. oq'[k] = oq[k] /\ oq'[l] = oq[l]
        BY <1>11, <4>1
      <4> QED BY <2>2, <4>1, <4>2 DEF EndInv, QueueAgrees
    <3> QED BY <3>2, <3>3
  <2> QED BY <2>1, <2>2 DEF QueueAgrees
<1>17. ChannelAgrees'
  <2>1. EndToldOnce'
    BY <1>1 DEF EndInv, ChannelAgrees, EndToldOnce
  <2>2. ASSUME NEW j \in DOMAIN hub.hist, hub.hist[j].end, hub.hist[j].turn = 1, ~hub.done
        PROVE  turn'[1] = "told" /\ (~cut => ChildHeard(0)') /\ \A k \in DOMAIN oq' : ~(oq'[k].end /\ oq'[k].turn = 1)
    <3>1. turn[1] = "told" /\ (~cut => ChildHeard(0)) /\ \A k \in DOMAIN oq : ~(oq[k].end /\ oq[k].turn = 1)
      BY <2>2 DEF EndInv, ChannelAgrees
    <3>2. i = 2 /\ turn'[1] = "told"
      BY <1>1, <1>3, <3>1 DEF RunTurns
    <3>3. 0 \in 0 .. Len(oq)
      BY <1>9
    <3>4. \A k \in DOMAIN oq' : ~(oq'[k].end /\ oq'[k].turn = 1)
      BY <1>2, <1>11, <1>12, <3>1, <3>2
    <3> QED BY <1>14, <3>1, <3>2, <3>3, <3>4
  <2>3. ASSUME ~cut
        PROVE  (hub.done \/ timers > 0 => RunOver') /\ (route' # 0 /\ pub # "none" /\ ~RunOver' => hub.on)
    <3>1. (hub.done \/ timers > 0 => RunOver) /\ (route # 0 /\ pub # "none" /\ ~RunOver => hub.on)
      BY <2>3 DEF EndInv, ChannelAgrees
    <3>2. route' # 0 => route # 0
      BY <1>1
    <3> QED BY <1>8, <3>1, <3>2
  <2>4. \A j \in DOMAIN hub.hist : /\ hub.hist[j].terminal => hub.done
                                   /\ hub.hist[j].end /\ hub.hist[j].turn = 2 => hub.hist[j].terminal
    BY DEF EndInv, ChannelAgrees
  <2> QED BY <1>1, <2>1, <2>2, <2>3, <2>4 DEF ChannelAgrees
<1> QED BY <1>15, <1>16, <1>17 DEF EndInv

(* An event of the observer is copied into the channel, or is not when that *)
(* is gone or has its terminal event.                                       *)
LEMMA PublishEnds ==
    ASSUME RunTypes, EndInv, HubOk(hub, made), PublishEvent
    PROVE  EndInv'
<1> DEFINE e == oq[1]
<1>1. /\ pub = "on" /\ oq # <<>> /\ Publish(e) /\ oq' = Tail(oq)
      /\ UNCHANGED <<turn, failed, staged, route, pub, timers, cut, req>>
  <2>1. Head(oq) = oq[1]
    BY DEF RunTypes
  <2> QED BY <2>1 DEF PublishEvent, run, past
<1>2. oq \in Seq(RunEvents) /\ Len(oq) \in Nat /\ DOMAIN oq = 1 .. Len(oq) /\ 1 \in DOMAIN oq /\ e \in RunEvents
  <2>1. oq \in Seq(RunEvents) /\ Len(oq) \in Nat /\ Len(oq) # 0
    BY <1>1 DEF RunTypes
  <2> QED BY <2>1
<1>3. \A k \in DOMAIN oq' : k \in Nat /\ k >= 1 /\ k + 1 \in DOMAIN oq /\ oq'[k] = oq[k + 1]
  BY <1>1, <1>2
<1>4. \A l \in DOMAIN oq : l > 1 => l - 1 \in DOMAIN oq' /\ oq'[l - 1] = oq[l]
  BY <1>1, <1>2
<1>5. (RunOver' <=> RunOver) /\ (Over(1)' <=> Over(1)) /\ (Heard(1)' <=> Heard(1)) /\ (Heard(2)' <=> Heard(2))
  BY <1>1 DEF RunOver, Over, Heard
<1>6. ASSUME NEW k \in Nat, k >= 1, ChildHeard(k) PROVE ChildHeard(k - 1)'
  <2>1. CASE \E l \in DOMAIN oq : l > k /\ oq[l].turn = 2 /\ oq[l].terminal
    <3>1. PICK l \in DOMAIN oq : l > k /\ oq[l].turn = 2 /\ oq[l].terminal
      BY <2>1
    <3>2. l > 1 /\ l - 1 > k - 1
      BY <1>2, <1>6, <3>1
    <3> QED BY <1>4, <3>1, <3>2 DEF ChildHeard
  <2>2. CASE ~(\E l \in DOMAIN oq : l > k /\ oq[l].turn = 2 /\ oq[l].terminal)
    BY <1>1, <1>5, <1>6, <2>2 DEF ChildHeard
  <2> QED BY <2>1, <2>2
<1>7. ASSUME ChildHeard(0), ~e.terminal PROVE ChildHeard(0)'
  <2>1. ChildHeard(1)
    <3>1. CASE \E l \in DOMAIN oq : l > 0 /\ oq[l].turn = 2 /\ oq[l].terminal
      <4>1. PICK l \in DOMAIN oq : l > 0 /\ oq[l].turn = 2 /\ oq[l].terminal
        BY <3>1
      <4>2. l > 1
        BY <1>2, <1>7, <4>1
      <4> QED BY <4>1, <4>2 DEF ChildHeard
    <3>2. CASE ~(\E l \in DOMAIN oq : l > 0 /\ oq[l].turn = 2 /\ oq[l].terminal)
      BY <1>7, <3>2 DEF ChildHeard
    <3> QED BY <3>1, <3>2
  <2>2. ChildHeard(1 - 1)'
    BY <1>6, <2>1
  <2> QED BY <2>2
<1>8. TurnsAgree'
  <2>1. pub' # "none"
    BY <1>1
  <2> QED BY <1>1, <1>5, <2>1 DEF EndInv, TurnsAgree
<1>9. QueueAgrees'
  <2>1. ASSUME NEW k \in DOMAIN oq'
        PROVE  /\ oq'[k].terminal => RunOver' /\ oq'[k].end
               /\ oq'[k].end /\ oq'[k].turn = 2 => oq'[k].terminal
               /\ oq'[k].end => turn'[oq'[k].turn] = "told"
               /\ oq'[k].end /\ oq'[k].turn = 1 /\ ~oq'[k].terminal => ChildHeard(k)'
    <3>1. k + 1 \in DOMAIN oq /\ oq'[k] = oq[k + 1] /\ k + 1 \in Nat /\ k + 1 >= 1 /\ (k + 1) - 1 = k
      BY <1>3
    <3>2. /\ oq[k + 1].terminal => RunOver /\ oq[k + 1].end
          /\ oq[k + 1].end /\ oq[k + 1].turn = 2 => oq[k + 1].terminal
          /\ oq[k + 1].end => turn[oq[k + 1].turn] = "told"
          /\ oq[k + 1].end /\ oq[k + 1].turn = 1 /\ ~oq[k + 1].terminal => ChildHeard(k + 1)
      BY <3>1 DEF EndInv, QueueAgrees
    <3>3. ChildHeard(k + 1) => ChildHeard(k)'
      <4>1. ChildHeard(k + 1) => ChildHeard((k + 1) - 1)'
        BY <1>6, <3>1
      <4> QED BY <3>1, <4>1
    <3> QED BY <1>1, <1>5, <3>1, <3>2, <3>3
  <2>2. ASSUME NEW k \in DOMAIN oq', NEW l \in DOMAIN oq', oq'[k].end, oq'[l].end, oq'[l].turn = oq'[k].turn
        PROVE  l = k
    <3>1. k + 1 \in DOMAIN oq /\ oq'[k] = oq[k + 1] /\ l + 1 \in DOMAIN oq /\ oq'[l] = oq[l + 1]
          /\ k \in Nat /\ l \in Nat
      BY <1>3
    <3>2. k + 1 = l + 1
      BY <2>2, <3>1 DEF EndInv, QueueAgrees
    <3> QED BY <3>1, <3>2
  <2> QED BY <2>1, <2>2 DEF QueueAgrees
<1>10. CASE ~(hub.on /\ ~hub.done)
  <2>1. hub' = hub
    BY <1>1, <1>10 DEF Publish
  <2>2. hub.done \/ DOMAIN hub.hist = {}
    <3>1. hub.on \in BOOLEAN /\ (~hub.on => hub.hist = <<>>)
      BY DEF HubOk, NoChannel
    <3> QED BY <1>10, <3>1
  <2>3. EndToldOnce'
    BY <1>1, <2>1 DEF EndInv, ChannelAgrees, EndToldOnce
  <2>4. ChannelAgrees'
    BY <1>1, <1>5, <2>1, <2>2, <2>3 DEF EndInv, ChannelAgrees
  <2> QED BY <1>8, <1>9, <2>4 DEF EndInv
<1>11. CASE hub.on /\ ~hub.done
  <2> DEFINE x == [gen |-> hub.gen, id |-> hub.next, turn |-> e.turn, end |-> e.end, terminal |-> e.terminal]
             d == IF Len(hub.hist) >= Limit THEN 1 ELSE 0
             z == Published(hub, e)
  <2>1. hub' = z
    BY <1>1, <1>11 DEF Publish
  <2>2. /\ z.on /\ (z.done <=> e.terminal) /\ HubOk(z, made)
        /\ z.hist[Len(z.hist)] = x
        /\ \A i \in 1 .. Len(z.hist) - 1 : i + d \in DOMAIN hub.hist /\ z.hist[i] = hub.hist[i + d]
    <3>1. KeptAs(hub, made, e, z, x, d)
      BY <1>2, <1>11, KeptEvents
    <3>2. ~hub.done /\ e.terminal \in BOOLEAN
      BY <1>2, <1>11 DEF RunEvents
    <3> HIDE DEF x, d, z, e
    <3> QED BY <3>1, <3>2 DEF KeptAs
  <2>3. x.turn = e.turn /\ x.end = e.end /\ x.terminal = e.terminal
    OBVIOUS
  <2>4. d \in {0, 1}
    OBVIOUS
  <2> HIDE DEF x, d, z
  <2>5. Len(z.hist) \in Nat /\ DOMAIN z.hist = 1 .. Len(z.hist)
    <3>1. z.hist \in Seq(HubEvents)
      BY <2>2 DEF HubOk
    <3> QED BY <3>1
  <2>6. ASSUME NEW i \in DOMAIN z.hist
        PROVE  \/ i = Len(z.hist) /\ z.hist[i] = x
               \/ i # Len(z.hist) /\ i + d \in DOMAIN hub.hist /\ z.hist[i] = hub.hist[i + d] /\ i \in Nat
    <3>1. i # Len(z.hist) => i \in 1 .. Len(z.hist) - 1 /\ i \in Nat
      BY <2>5
    <3> QED BY <2>2, <3>1
  <2> HIDE DEF e
  <2>7. /\ e.terminal => RunOver /\ e.end
        /\ e.end /\ e.turn = 2 => e.terminal
        /\ e.end => turn[e.turn] = "told"
        /\ e.end /\ e.turn = 1 /\ ~e.terminal => ChildHeard(1)
        /\ e.end => \A l \in DOMAIN oq : oq[l].end /\ oq[l].turn = e.turn => l = 1
    BY <1>2 DEF EndInv, QueueAgrees, e
  <2>8. \A j \in DOMAIN hub.hist :
          /\ ~hub.hist[j].terminal /\ ~(hub.hist[j].end /\ hub.hist[j].turn = 2)
          /\ hub.hist[j].end /\ hub.hist[j].turn = 1 =>
               turn[1] = "told" /\ (~cut => ChildHeard(0)) /\ \A k \in DOMAIN oq : ~(oq[k].end /\ oq[k].turn = 1)
    BY <1>11 DEF EndInv, ChannelAgrees
  <2>9. ASSUME NEW i \in DOMAIN z.hist
        PROVE  /\ z.hist[i].terminal => z.done
               /\ z.hist[i].end /\ z.hist[i].turn = 2 => z.hist[i].terminal
               /\ z.hist[i].end /\ z.hist[i].turn = 1 /\ ~z.done =>
                    /\ turn'[1] = "told" /\ (~cut' => ChildHeard(0)')
                    /\ \A k \in DOMAIN oq' : ~(oq'[k].end /\ oq'[k].turn = 1)
    <3>1. CASE i = Len(z.hist) /\ z.hist[i] = x
      <4>1. ASSUME e.end, e.turn = 1, ~e.terminal
            PROVE  ChildHeard(0)' /\ \A k \in DOMAIN oq' : ~(oq'[k].end /\ oq'[k].turn = 1)
        <5>1. ChildHeard(1 - 1)'
          BY <1>6, <2>7, <4>1
        <5>2. ASSUME NEW k \in DOMAIN oq', oq'[k].end, oq'[k].turn = 1 PROVE FALSE
          <6>1. k \in Nat /\ k >= 1 /\ k + 1 \in DOMAIN oq /\ oq'[k] = oq[k + 1]
            BY <1>3
          <6>2. k + 1 = 1
            BY <2>7, <4>1, <5>2, <6>1
          <6> QED BY <6>1, <6>2
        <5> QED BY <5>1, <5>2
      <4> QED BY <1>1, <2>2, <2>3, <2>7, <3>1, <4>1
    <3>2. CASE i + d \in DOMAIN hub.hist /\ z.hist[i] = hub.hist[i + d]
      <4>1. /\ ~z.hist[i].terminal /\ ~(z.hist[i].end /\ z.hist[i].turn = 2)
            /\ z.hist[i].end /\ z.hist[i].turn = 1 =>
                 turn[1] = "told" /\ (~cut => ChildHeard(0)) /\ \A k \in DOMAIN oq : ~(oq[k].end /\ oq[k].turn = 1)
        BY <2>8, <3>2
      <4>2. \A k \in DOMAIN oq' : \E l \in DOMAIN oq : oq'[k] = oq[l]
        BY <1>3
      <4> QED BY <1>1, <1>7, <2>2, <4>1, <4>2
    <3> QED BY <2>6, <3>1, <3>2
  <2>10. ASSUME ~cut, NEW i \in DOMAIN z.hist, NEW j \in DOMAIN z.hist,
                z.hist[i].end, z.hist[j].end, z.hist[i].turn = z.hist[j].turn
         PROVE  i = j
    <3>1. ASSUME NEW a \in DOMAIN z.hist, a # Len(z.hist), z.hist[a].end PROVE z.hist[a].turn # x.turn \/ ~x.end
      <4>1. a + d \in DOMAIN hub.hist /\ z.hist[a] = hub.hist[a + d]
        BY <2>6, <3>1
      <4>2. z.hist[a].turn # 2
        BY <2>8, <3>1, <4>1
      <4>3. z.hist[a].turn = 1 => ~(e.end /\ e.turn = 1)
        BY <1>2, <2>8, <3>1, <4>1 DEF e
      <4>4. e.turn \in {1, 2}
        BY <1>2 DEF RunEvents, RunTurns
      <4> QED BY <2>3, <4>2, <4>3, <4>4
    <3>2. CASE i # Len(z.hist) /\ j # Len(z.hist)
      <4>1. i + d \in DOMAIN hub.hist /\ z.hist[i] = hub.hist[i + d] /\ i \in Nat
            /\ j + d \in DOMAIN hub.hist /\ z.hist[j] = hub.hist[j + d] /\ j \in Nat
        BY <2>6, <3>2
      <4>2. i + d = j + d
        BY <2>10, <4>1 DEF EndInv, ChannelAgrees, EndToldOnce
      <4> QED BY <2>4, <4>1, <4>2
    <3>3. CASE i = Len(z.hist) \/ j = Len(z.hist)
      BY <2>2, <2>10, <3>1, <3>3
    <3> QED BY <3>2, <3>3
  <2>11. EndToldOnce'
    BY <1>1, <2>1, <2>10 DEF EndToldOnce
  <2>12. ~cut => /\ z.done \/ timers > 0 => RunOver
                 /\ route # 0 /\ pub # "none" /\ ~RunOver => z.on
    BY <2>2, <2>7 DEF EndInv, ChannelAgrees
  <2>13. ChannelAgrees'
    BY <1>1, <1>5, <2>1, <2>9, <2>11, <2>12 DEF ChannelAgrees
  <2> QED BY <1>8, <1>9, <2>13 DEF EndInv
<1> QED BY <1>10, <1>11

(* accept_web_input publishes the end of turn 1 if the channel has none.    *)
LEMMA TerminalEnds ==
    ASSUME RunTypes, EndInv, HubOk(hub, made), Over(1), PublishTerminal(1, cl),
           UNCHANGED <<turn, failed, staged>>, req'.pc = "ack",
           (route' = route /\ oq' = oq /\ pub' = pub) \/ (pub' = "none" /\ route' = 0 /\ oq' = <<>>)
    PROVE  EndInv'
<1> DEFINE h == Created(hub)
           e == Event(1, TRUE, TRUE)
<1>1. /\ hub' = (IF h.done THEN h ELSE Published(h, e)) /\ CountMade
      /\ cut' = (cut \/ (~h.done /\ ChildToCome))
  BY DEF PublishTerminal
<1>2. /\ HubOk(h, made') /\ h.on /\ (hub.on => h = hub)
      /\ ~hub.on => h.hist = <<>> /\ ~h.done
  BY <1>1, MadeHub DEF NoChannel
<1>3. e \in RunEvents /\ e.end /\ e.terminal /\ e.turn = 1
  BY DEF Event, RunEvents, RunTurns
<1>4. hub.on \in BOOLEAN /\ cut \in BOOLEAN /\ h.done \in BOOLEAN
  BY <1>2 DEF HubOk, RunTypes
<1>5. (RunOver' <=> RunOver) /\ Over(1)'
  BY DEF RunOver, Over
<1> HIDE DEF h, e
<1>6. TurnsAgree'
  <2>1. /\ staged /\ Over(1) => 1 \in failed /\ turn[2] = "none"
        /\ turn[2] # "none" => turn[1] = "told"
        /\ route = 2 => turn[2] # "none"
        /\ pub = "none" => oq = <<>> /\ route = 0
        /\ pub # "none" /\ route = 0 => RunOver
    BY DEF EndInv, TurnsAgree
  <2> QED BY <1>5, <2>1 DEF TurnsAgree
<1>7. QueueAgrees'
  <2>1. CASE route' = route /\ oq' = oq /\ pub' = pub
    <3>1. (Heard(1)' <=> Heard(1)) /\ (Heard(2)' <=> Heard(2))
      BY <2>1 DEF Heard
    <3>2. \A k : ChildHeard(k)' <=> ChildHeard(k)
      BY <2>1, <3>1 DEF ChildHeard
    <3> QED BY <1>5, <2>1, <3>2 DEF EndInv, QueueAgrees
  <2>2. CASE oq' = <<>>
    <3>1. DOMAIN oq' = {}
      BY <2>2
    <3> QED BY <3>1 DEF QueueAgrees
  <2> QED BY <2>1, <2>2
<1>8. ChannelAgrees'
  <2>1. CASE h.done
    <3>1. hub' = hub /\ hub.on /\ hub.done /\ (cut' <=> cut)
      BY <1>1, <1>2, <1>4, <2>1
    <3>2. EndToldOnce'
      BY <3>1 DEF EndInv, ChannelAgrees, EndToldOnce
    <3>3. ~cut' => RunOver'
      BY <1>5, <3>1 DEF EndInv, ChannelAgrees
    <3> QED BY <3>1, <3>2, <3>3 DEF EndInv, ChannelAgrees
  <2>2. CASE ~h.done
    <3> DEFINE x == [gen |-> h.gen, id |-> h.next, turn |-> e.turn, end |-> e.end, terminal |-> e.terminal]
               d == IF Len(h.hist) >= Limit THEN 1 ELSE 0
               z == Published(h, e)
    <3>1. hub' = z
      BY <1>1, <2>2
    <3>2. /\ z.on /\ (z.done <=> h.done \/ e.terminal) /\ HubOk(z, made')
          /\ z.hist[Len(z.hist)] = x
          /\ \A i \in 1 .. Len(z.hist) - 1 : i + d \in DOMAIN h.hist /\ z.hist[i] = h.hist[i + d]
      <4>1. KeptAs(h, made', e, z, x, d)
        BY <1>2, <1>3, KeptEvents
      <4> HIDE DEF x, d, z
      <4> QED BY <4>1 DEF KeptAs
    <3>3. x.turn = 1 /\ x.end /\ x.terminal /\ d \in {0, 1}
      BY <1>3
    <3> HIDE DEF x, d, z
    <3>4. Len(z.hist) \in Nat /\ DOMAIN z.hist = 1 .. Len(z.hist) /\ z.done
      <4>1. z.hist \in Seq(HubEvents)
        BY <3>2 DEF HubOk
      <4>2. z.done
        BY <1>3, <3>2
      <4>3. Len(z.hist) \in Nat /\ DOMAIN z.hist = 1 .. Len(z.hist)
        BY <4>1
      <4> QED BY <4>2, <4>3
    <3>5. ASSUME NEW i \in DOMAIN z.hist
          PROVE  \/ i = Len(z.hist) /\ z.hist[i] = x
                 \/ /\ i # Len(z.hist) /\ i \in Nat /\ hub.on
                    /\ i + d \in DOMAIN hub.hist /\ z.hist[i] = hub.hist[i + d]
      <4>1. i # Len(z.hist) => i \in 1 .. Len(z.hist) - 1 /\ i \in Nat
        BY <3>4
      <4>2. h.hist # <<>> => hub.on /\ h = hub
        BY <1>2, <1>4
      <4>3. h.hist = <<>> => DOMAIN h.hist = {}
        OBVIOUS
      <4> QED BY <3>2, <4>1, <4>2, <4>3
    <3>6. ~cut' => ~cut /\ ~ChildToCome
      BY <1>1, <1>4, <2>2
    <3>7. ~cut' => RunOver'
      <4>1. turn[2] \in {"none", "live", "ended", "told"}
        BY DEF RunTypes, RunTurns
      <4> QED BY <1>5, <3>6, <4>1 DEF ChildToCome, RunOver
    <3>8. ~cut' => ~ChildHeard(0)
      BY <3>6 DEF ChildToCome, ChildHeard
    <3>9. \A i \in DOMAIN z.hist : z.hist[i].end /\ z.hist[i].turn = 2 => z.hist[i].terminal
      <4>1. \A j \in DOMAIN hub.hist : hub.hist[j].end /\ hub.hist[j].turn = 2 => hub.hist[j].terminal
        BY DEF EndInv, ChannelAgrees
      <4> QED BY <3>3, <3>5, <4>1
    <3>10. ASSUME ~cut', NEW i \in DOMAIN z.hist, NEW j \in DOMAIN z.hist,
                  z.hist[i].end, z.hist[j].end, z.hist[i].turn = z.hist[j].turn
           PROVE  i = j
      <4>1. ASSUME NEW a \in DOMAIN z.hist, a # Len(z.hist), z.hist[a].end PROVE z.hist[a].turn # 1
        <5>1. a + d \in DOMAIN hub.hist /\ z.hist[a] = hub.hist[a + d] /\ ~hub.done
          BY <1>2, <2>2, <3>5, <4>1
        <5> QED BY <3>6, <3>8, <3>10, <4>1, <5>1 DEF EndInv, ChannelAgrees
      <4>2. CASE i # Len(z.hist) /\ j # Len(z.hist)
        <5>1. i + d \in DOMAIN hub.hist /\ z.hist[i] = hub.hist[i + d] /\ i \in Nat
              /\ j + d \in DOMAIN hub.hist /\ z.hist[j] = hub.hist[j + d] /\ j \in Nat
          BY <3>5, <4>2
        <5>2. i + d = j + d
          BY <3>6, <3>10, <5>1 DEF EndInv, ChannelAgrees, EndToldOnce
        <5> QED BY <3>3, <5>1, <5>2
      <4>3. CASE i = Len(z.hist) \/ j = Len(z.hist)
        BY <3>2, <3>3, <3>10, <4>1, <4>3
      <4> QED BY <4>2, <4>3
    <3>11. EndToldOnce'
      BY <3>1, <3>10 DEF EndToldOnce
    <3> QED BY <3>1, <3>2, <3>4, <3>7, <3>9, <3>11 DEF ChannelAgrees
  <2> QED BY <1>4, <2>1, <2>2
<1> QED BY <1>6, <1>7, <1>8 DEF EndInv

(* What ChannelAgrees says of a channel that is made if it must.            *)
LEMMA MadeHubEnds ==
    ASSUME RunTypes, EndInv, HubOk(hub, made), hub' = Created(hub), CountMade
    PROVE  /\ hub'.on
           /\ \/ hub.on /\ hub' = hub
              \/ ~hub.on /\ DOMAIN hub'.hist = {} /\ ~hub'.done
           /\ \A i \in DOMAIN hub'.hist : /\ hub'.hist[i].terminal => hub'.done
                                          /\ hub'.hist[i].end /\ hub'.hist[i].turn = 2 => hub'.hist[i].terminal
           /\ hub'.done => hub.done
           /\ cut' = cut => EndToldOnce'
<1>1. hub'.on /\ (hub.on => hub' = hub) /\ (~hub.on => hub'.hist = <<>> /\ ~hub'.done)
  BY MadeHub DEF NoChannel
<1>2. hub.on \in BOOLEAN
  BY DEF HubOk
<1>3. hub'.hist = <<>> => DOMAIN hub'.hist = {}
  OBVIOUS
<1>4. CASE hub.on
  BY <1>1, <1>4 DEF EndInv, ChannelAgrees, EndToldOnce
<1>5. CASE ~hub.on
  BY <1>1, <1>3, <1>5 DEF EndToldOnce
<1> QED BY <1>2, <1>4, <1>5

(* The request that makes the turn.                                         *)
LEMMA FirstEnds ==
    ASSUME RunTypes, EndInv, HubOk(hub, made), NEW c \in Clients, SendFirst(c)
    PROVE  EndInv'
<1>1. /\ turn[1] = "none" /\ turn' = [turn EXCEPT ![1] = "live"] /\ route' = 1 /\ pub' = "on"
      /\ hub' = Created(hub) /\ CountMade /\ req'.pc = "ack"
      /\ UNCHANGED <<failed, staged, oq, timers, cut>>
  BY DEF SendFirst, Request, past
<1>2. turn'[1] = "live" /\ turn'[2] = turn[2]
  BY <1>1 DEF RunTypes, RunTurns
<1>3. ~RunOver /\ ~Over(1)'
  BY <1>1, <1>2 DEF RunOver, Over
<1>4. /\ turn[2] = "none" /\ (\A k \in DOMAIN oq : ~oq[k].end /\ ~oq[k].terminal)
      /\ (~cut => ~hub.done /\ ~(timers > 0))
      /\ \A i \in DOMAIN hub.hist : hub.hist[i].end /\ hub.hist[i].turn = 1 => hub.done
  BY <1>1, <1>3, NoEndYet
<1>5. TurnsAgree'
  BY <1>1, <1>2, <1>3, <1>4 DEF TurnsAgree
<1>6. QueueAgrees'
  BY <1>1, <1>4 DEF QueueAgrees
<1>7. ChannelAgrees'
  <2>1. EndToldOnce' /\ hub'.on /\ (hub'.done => hub.done)
        /\ \A i \in DOMAIN hub'.hist : /\ hub'.hist[i].terminal => hub'.done
                                       /\ hub'.hist[i].end /\ hub'.hist[i].turn = 2 => hub'.hist[i].terminal
    BY <1>1, MadeHubEnds
  <2>2. \A i \in DOMAIN hub'.hist : hub'.hist[i].end /\ hub'.hist[i].turn = 1 => hub'.done
    BY <1>1, <1>4, MadeHubEnds
  <2> QED BY <1>1, <1>4, <2>1, <2>2 DEF ChannelAgrees
<1> QED BY <1>5, <1>6, <1>7 DEF EndInv

(* A request that finds the turn running registers an observer if there is  *)
(* none, and makes a channel if there is none.                              *)
LEMMA RegisterEnds ==
    ASSUME RunTypes, EndInv, HubOk(hub, made), Register
    PROVE  EndInv'
<1>1. /\ hub' = Created(hub) /\ CountMade
      /\ IF pub = "none" THEN pub' = "held" /\ route' = 1 ELSE UNCHANGED <<pub, route>>
      /\ UNCHANGED <<turn, failed, staged, oq, timers, cut>>
  BY DEF Register, run, past
<1>2. pub' # "none" /\ (pub = "none" => oq = <<>> /\ route = 0)
  BY <1>1 DEF EndInv, TurnsAgree
<1>3. (RunOver' <=> RunOver) /\ (Over(1)' <=> Over(1))
  BY <1>1 DEF RunOver, Over
<1>4. ASSUME NEW k, ChildHeard(k) PROVE ChildHeard(k)'
  <2>1. pub = "none" => ~Heard(1) /\ ~Heard(2)
    BY DEF Heard
  <2>2. pub # "none" => (Heard(1)' <=> Heard(1)) /\ (Heard(2)' <=> Heard(2))
    BY <1>1 DEF Heard
  <2> QED BY <1>1, <1>4, <2>1, <2>2 DEF ChildHeard
<1>5. TurnsAgree'
  BY <1>1, <1>2, <1>3 DEF EndInv, TurnsAgree
<1>6. QueueAgrees'
  BY <1>1, <1>3, <1>4 DEF EndInv, QueueAgrees
<1>7. ChannelAgrees'
  <2>1. EndToldOnce' /\ hub'.on /\ (hub'.done => hub.done)
        /\ \A i \in DOMAIN hub'.hist : /\ hub'.hist[i].terminal => hub'.done
                                       /\ hub'.hist[i].end /\ hub'.hist[i].turn = 2 => hub'.hist[i].terminal
    BY <1>1, MadeHubEnds
  <2>2. ASSUME NEW i \in DOMAIN hub'.hist, hub'.hist[i].end, hub'.hist[i].turn = 1, ~hub'.done
        PROVE  turn[1] = "told" /\ (~cut => ChildHeard(0)') /\ \A k \in DOMAIN oq : ~(oq[k].end /\ oq[k].turn = 1)
    <3>1. hub' = hub
      BY <1>1, <2>2, MadeHubEnds
    <3>2. turn[1] = "told" /\ (~cut => ChildHeard(0)) /\ \A k \in DOMAIN oq : ~(oq[k].end /\ oq[k].turn = 1)
      BY <2>2, <3>1 DEF EndInv, ChannelAgrees
    <3> QED BY <1>4, <3>2
  <2>3. ~cut => (hub.done \/ timers > 0 => RunOver)
    BY DEF EndInv, ChannelAgrees
  <2> QED BY <1>1, <1>3, <2>1, <2>2, <2>3 DEF ChannelAgrees
<1> QED BY <1>5, <1>6, <1>7 DEF EndInv

(* The second look at the row finds the turn still running.                 *)
LEMMA RelyEnds ==
    ASSUME RunTypes, EndInv, req.pc = "latest", turn[1] = "live", pub' = "on", req'.pc = "ack",
           UNCHANGED <<turn, failed, staged, route, oq, hub, timers, cut>>
    PROVE  EndInv'
<1>1. pub # "none" /\ pub' # "none"
  BY DEF EndInv, TurnsAgree
<1>2. (RunOver' <=> RunOver) /\ (Over(1)' <=> Over(1)) /\ (Heard(1)' <=> Heard(1)) /\ (Heard(2)' <=> Heard(2))
  BY <1>1 DEF RunOver, Over, Heard
<1>3. \A k : ChildHeard(k)' <=> ChildHeard(k)
  BY <1>2 DEF ChildHeard
<1>4. TurnsAgree'
  BY <1>1, <1>2 DEF EndInv, TurnsAgree
<1>5. QueueAgrees'
  BY <1>2, <1>3 DEF EndInv, QueueAgrees
<1>6. ChannelAgrees'
  BY <1>1, <1>2, <1>3 DEF EndInv, ChannelAgrees, EndToldOnce
<1> QED BY <1>4, <1>5, <1>6 DEF EndInv

(* Every step keeps the ends told once, and true.                           *)
LEMMA EndKept == EndInv /\ RunTypes /\ StreamInv /\ [WebNext]_webVars => EndInv'
<1> SUFFICES ASSUME EndInv, RunTypes, StreamInv, [WebNext]_webVars PROVE EndInv'
  OBVIOUS
<1>0. HubOk(hub, made)
  BY DEF StreamInv, StreamsOk
<1>1. CASE Inject
  <2>1. turn[1] = "live" /\ UNCHANGED <<turn, failed, route, oq, pub, hub, timers, cut, req>>
    BY <1>1 DEF Inject, obs, past
  <2> QED BY <2>1, StagedEnds
<1>2. ASSUME NEW c \in Clients, FollowUp(c) PROVE EndInv'
  <2>1. turn[1] = "live" /\ UNCHANGED <<turn, failed, route, oq, pub, hub, timers, cut>> /\ req'.pc # "latest"
    BY <1>2 DEF FollowUp, Request, obs, past
  <2> QED BY <2>1, StagedEnds
<1>3. CASE ReadRow
  <2>1. CASE Over(1) /\ PublishTerminal(1, cl)
    <3>1. req' \in [c : Clients \cup {NoClient}, pc : {"idle", "read", "register", "latest", "ack"},
                    ack : {"awaited", "late", "lost"}]
      BY <1>3, RunTypesKept DEF RunTypes, WebNext, Server
    <3>2. req'.pc = "ack" \/ req'.pc = "register"
      BY <1>3 DEF ReadRow, RunTypes
    <3>3. req'.pc = "ack" /\ UNCHANGED <<turn, failed, staged>> /\ route' = route /\ oq' = oq /\ pub' = pub
      BY <1>3, <2>1 DEF ReadRow, run, obs, Over, RunTypes
    <3>4. (route' = route /\ oq' = oq /\ pub' = pub) \/ (pub' = "none" /\ route' = 0 /\ oq' = <<>>)
      BY <3>3
    <3> QED BY <1>0, <2>1, <3>3, <3>4, TerminalEnds
  <2>2. CASE turn[1] = "live" /\ UNCHANGED <<obs, hub, timers, cl, made, past>>
    <3>1. UNCHANGED <<turn, failed, staged, route, oq, pub, hub, timers, cut>> /\ req'.pc # "latest"
      BY <1>3, <2>2 DEF ReadRow, run, obs, past, RunTypes, Over
    <3> QED BY <3>1, EndSame
  <2> QED BY <1>3, <2>1, <2>2 DEF ReadRow
<1>4. CASE Latest
  <2>1. req.pc = "latest" /\ req'.pc = "ack" /\ UNCHANGED <<turn, failed, staged>>
    BY <1>4 DEF Latest, run, RunTypes
  <2>2. CASE Over(1) /\ PublishTerminal(1, cl)
             /\ IF pub = "held" THEN pub' = "none" /\ route' = 0 /\ oq' = <<>> ELSE UNCHANGED obs
    <3>1. (route' = route /\ oq' = oq /\ pub' = pub) \/ (pub' = "none" /\ route' = 0 /\ oq' = <<>>)
      <4>1. CASE pub = "held"
        BY <2>2, <4>1
      <4>2. CASE pub # "held"
        <5>1. UNCHANGED obs
          BY <2>2, <4>2
        <5>2. route' = route /\ oq' = oq /\ pub' = pub
          BY <5>1 DEF obs
        <5> QED BY <5>2
      <4> QED BY <4>1, <4>2
    <3> QED BY <1>0, <2>1, <2>2, <3>1, TerminalEnds
  <2>3. CASE turn[1] = "live" /\ pub' = "on" /\ UNCHANGED <<route, oq, hub, timers, cl, made, past>>
    <3>1. UNCHANGED <<route, oq, hub, timers, cut>>
      BY <2>3 DEF past
    <3> QED BY <2>1, <2>3, <3>1, RelyEnds
  <2> QED BY <1>4, <2>2, <2>3 DEF Latest
<1>5. ASSUME NEW c \in Clients,
             SendAgain(c) \/ ForwardStarts(c) \/ Forward(c) \/ ForwardEnds(c) \/ Disconnect(c) \/ Reconnect(c)
             \/ Resubscribe(c)
      PROVE  EndInv'
  <2>1. UNCHANGED <<turn, failed, staged, route, oq, pub, hub, timers, cut>>
    BY <1>5 DEF SendAgain, ForwardStarts, Forward, ForwardEnds, Disconnect, Reconnect, Resubscribe, run, obs, past
  <2>2. req'.pc = "latest" => req.pc = "latest"
    <3>1. CASE SendAgain(c)
      <4>1. req' = [c |-> c, pc |-> "read", ack |-> "awaited"]
        BY <3>1 DEF SendAgain, Request
      <4> QED BY <4>1
    <3>2. CASE Disconnect(c)
      <4>1. req' = [req EXCEPT !.ack = "lost"] \/ req' = req
        BY <3>2 DEF Disconnect
      <4> QED BY <4>1 DEF RunTypes
    <3>3. CASE ForwardStarts(c) \/ Forward(c) \/ ForwardEnds(c) \/ Reconnect(c) \/ Resubscribe(c)
      <4>1. req' = req
        BY <3>3 DEF ForwardStarts, Forward, ForwardEnds, Reconnect, Resubscribe
      <4> QED BY <4>1
    <3> QED BY <1>5, <3>1, <3>2, <3>3
  <2> QED BY <2>1, <2>2, EndSame
<1>6. CASE Ack \/ AckTimesOut \/ UNCHANGED webVars
  <2>1. UNCHANGED <<turn, failed, staged, route, oq, pub, hub, timers, cut>>
    BY <1>6 DEF Ack, AckTimesOut, webVars, run, obs, past
  <2>2. req'.pc = "latest" => req.pc = "latest"
    BY <1>6 DEF Ack, AckTimesOut, webVars, NoRequest, RunTypes
  <2> QED BY <2>1, <2>2, EndSame
<1> QED BY <1>0, <1>1, <1>2, <1>3, <1>4, <1>5, <1>6, EmitEnds, RowEnds2, TellEnds, PromoteEnds, PublishEnds,
           PublisherEnds2, RegisterEnds, RemoveEnds, RestartEnds, FirstEnds DEF WebNext, Server

(* The invariant is what the property says.                                 *)
LEMMA EndsAreTold == EndInv => EndIsTold
<1> SUFFICES ASSUME EndInv PROVE EndIsTold
  OBVIOUS
<1>1. TerminalMeansOver
  <2>1. ASSUME hub.done, ~cut, NEW i \in RunTurns PROVE turn[i] # "live" /\ ~(turn[1] = "told" /\ staged)
    <3>1. RunOver
      BY <2>1 DEF EndInv, ChannelAgrees
    <3>2. turn[1] # "live" /\ turn[2] # "live" /\ ~staged
      BY <3>1 DEF RunOver, Over
    <3> QED BY <3>2 DEF RunTurns
  <2> QED BY <2>1 DEF TerminalMeansOver
<1>2. EndToldOnce
  BY DEF EndInv, ChannelAgrees
<1>3. HeardHasChannel
  <2>1. ASSUME NEW i \in RunTurns, turn[i] = "live", Heard(i), ~cut PROVE hub.on
    <3>1. ~RunOver
      BY <2>1 DEF RunOver, Over, RunTurns
    <3>2. route # 0 /\ pub # "none"
      BY <2>1 DEF Heard, RunTurns
    <3> QED BY <2>1, <3>1, <3>2 DEF EndInv, ChannelAgrees
  <2> QED BY <2>1 DEF HeardHasChannel
<1> QED BY <1>1, <1>2, <1>3 DEF EndIsTold

(* The end of a run is told once and is its end, although the publisher and *)
(* re-delivered requests both tell it, a follow-up may go on under the run, *)
(* and removals are scheduled while a run goes on                           *)
(* (accept_existing_web_run, publish_terminal_if_absent, remove_later).     *)
THEOREM EndStaysTold == WebSpec => []EndIsTold
<1>1. WebInit => EndInv /\ RunTypes /\ StreamInv
  BY EndInit, RunTypesInit, StreamInit
<1>2. (EndInv /\ RunTypes /\ StreamInv) /\ [WebNext]_webVars => (EndInv /\ RunTypes /\ StreamInv)'
  BY EndKept, RunTypesKept, StreamKept
<1>3. EndInv /\ RunTypes /\ StreamInv => EndIsTold
  BY EndsAreTold
<1> QED BY <1>1, <1>2, <1>3, PTL DEF WebSpec
=============================================================================
