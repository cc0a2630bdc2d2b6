-------------------------- MODULE TurnQueueProofs --------------------------
(* Proofs about TurnQueue for any number of turns, sessions, restarts and   *)
(* panics, and any value of the capacities.                                 *)
EXTENDS TurnQueue, FiniteSetTheorems, SequenceTheorems, TLAPS

(* What the scheduler relies on: only accepted turns are submitted, and a   *)
(* turn whose execution has begun is the one its session's slot names.      *)
SlotInv ==
    /\ \A t \in handed \cup page : row[t] # "none"
    /\ \A t \in Turns : row[t] = "active" => current[SessionOf[t]] = t

-----------------------------------------------------------------------------
(* The members of a queue after push_back and pop_front. *)
LEMMA QueueMembers ==
    ASSUME NEW q \in Seq(Turns), NEW t \in Turns
    PROVE  /\ Elements(q) \subseteq Turns
           /\ Elements(Append(q, t)) = Elements(q) \cup {t}
           /\ Len(Append(q, t)) = Len(q) + 1
           /\ Append(q, t) \in Seq(Turns)
<1>1. /\ Append(q, t) \in Seq(Turns) /\ Len(Append(q, t)) = Len(q) + 1
      /\ \A i \in 1..Len(q) : Append(q, t)[i] = q[i]
      /\ Append(q, t)[Len(q) + 1] = t
  BY AppendProperties
<1>2. Len(q) \in Nat /\ \A i \in 1..Len(q) : q[i] \in Turns
  BY ElementOfSeq, LenProperties
<1>3. Elements(q) \subseteq Turns
  BY <1>2 DEF Elements
<1>4. Elements(q) \cup {t} \subseteq Elements(Append(q, t))
  BY <1>1, <1>2 DEF Elements
<1>5. Elements(Append(q, t)) \subseteq Elements(q) \cup {t}
  <2> SUFFICES ASSUME NEW i \in 1..Len(Append(q, t))
               PROVE  Append(q, t)[i] \in Elements(q) \cup {t}
    BY DEF Elements
  <2>1. CASE i \in 1..Len(q)
    BY <1>1, <2>1 DEF Elements
  <2>2. CASE i = Len(q) + 1
    BY <1>1, <2>2
  <2> QED
    BY <1>1, <1>2, <2>1, <2>2
<1> QED
  BY <1>1, <1>3, <1>4, <1>5

LEMMA QueueTail ==
    ASSUME NEW q \in Seq(Turns), q # <<>>
    PROVE  /\ Head(q) \in Elements(q) /\ Tail(q) \in Seq(Turns)
           /\ Len(Tail(q)) = Len(q) - 1 /\ Len(q) \in Nat \ {0}
           /\ Head(q) = q[1]
           /\ \A i \in 1..Len(Tail(q)) : i + 1 \in 1..Len(q) /\ Tail(q)[i] = q[i + 1]
           /\ Elements(q) = Elements(Tail(q)) \cup {Head(q)}
<1>1. /\ Len(q) \in Nat \ {0} /\ Head(q) = q[1] /\ Tail(q) \in Seq(Turns)
      /\ Len(Tail(q)) = Len(q) - 1
      /\ \A i \in 1..Len(Tail(q)) : Tail(q)[i] = q[i + 1]
  BY HeadTailProperties, EmptySeq, LenProperties
<1>2. \A i \in 1..Len(Tail(q)) : i + 1 \in 1..Len(q)
  BY <1>1
<1>3. Elements(Tail(q)) \cup {Head(q)} \subseteq Elements(q)
  BY <1>1, <1>2 DEF Elements
<1>4. Elements(q) \subseteq Elements(Tail(q)) \cup {Head(q)}
  <2> SUFFICES ASSUME NEW i \in 1..Len(q)
               PROVE  q[i] \in Elements(Tail(q)) \cup {Head(q)}
    BY DEF Elements
  <2>1. CASE i = 1
    BY <1>1, <2>1
  <2>2. CASE i # 1
    <3>1. i - 1 \in 1..Len(Tail(q)) /\ (i - 1) + 1 = i
      BY <1>1, <2>2
    <3>2. Tail(q)[i - 1] = q[i]
      BY <1>1, <3>1
    <3> QED
      BY <3>1, <3>2 DEF Elements
  <2> QED
    BY <2>1, <2>2
<1> QED
  BY <1>1, <1>2, <1>3, <1>4 DEF Elements

(* One turn less in a set of turns. *)
LEMMA OneLess ==
    ASSUME NEW A \in SUBSET Turns, NEW t \in A
    PROVE  Cardinality(A \ {t}) = Cardinality(A) - 1
<1>1. IsFiniteSet(A)
  BY FS_Subset, QueueAssumption
<1> QED
  BY <1>1, FS_RemoveElement

(* A queue that holds a turn once does so after push_back of another turn   *)
(* and after pop_front, and then no longer holds its head.                  *)
Once(q) == \A i, j \in 1..Len(q) : q[i] = q[j] => i = j

LEMMA OnceAppend ==
    ASSUME NEW q \in Seq(Turns), NEW t \in Turns, Once(q), t \notin Elements(q)
    PROVE  Once(Append(q, t))
<1>1. /\ Len(Append(q, t)) = Len(q) + 1 /\ Len(q) \in Nat
      /\ \A i \in 1..Len(q) : Append(q, t)[i] = q[i]
      /\ Append(q, t)[Len(q) + 1] = t
  BY AppendProperties, LenProperties
<1>2. \A i \in 1..Len(q) : q[i] # t
  BY DEF Elements
<1> QED
  BY <1>1, <1>2 DEF Once

LEMMA OnceTail ==
    ASSUME NEW q \in Seq(Turns), q # <<>>, Once(q)
    PROVE  Once(Tail(q)) /\ Head(q) \notin Elements(Tail(q))
<1>1. Once(Tail(q))
  <2> SUFFICES ASSUME NEW i \in 1..Len(Tail(q)), NEW j \in 1..Len(Tail(q)),
                      Tail(q)[i] = Tail(q)[j]
               PROVE  i = j
    BY DEF Once
  <2>1. q[i + 1] = q[j + 1] /\ i + 1 \in 1..Len(q) /\ j + 1 \in 1..Len(q)
    BY QueueTail
  <2>2. i + 1 = j + 1
    BY <2>1 DEF Once
  <2> QED
    BY <2>2
<1>2. ASSUME NEW i \in 1..Len(Tail(q)), Tail(q)[i] = Head(q)
      PROVE  FALSE
  <2>1. q[i + 1] = q[1] /\ i + 1 \in 1..Len(q) /\ 1 \in 1..Len(q)
    BY <1>2, QueueTail
  <2>2. i + 1 = 1
    BY <2>1 DEF Once
  <2> QED
    BY <2>2
<1> QED
  BY <1>1, <1>2 DEF Elements

-----------------------------------------------------------------------------
(* submit keeps the slots, the count and the tasks in their types. *)
LEMMA SubmitType ==
    ASSUME TypeOK, NEW t \in Turns, Submit(t)
    PROVE  /\ current' \in [Sessions -> Turns \cup {Nobody}]
           /\ queue' \in [Sessions -> Seq(Turns)]
           /\ globalQueued' \in Nat /\ fresh' \subseteq Turns
<1> USE QueueAssumption DEF TypeOK
<1>1. CASE UNCHANGED <<slots, fresh>>
  BY <1>1 DEF slots
<1>2. CASE /\ current' = [current EXCEPT ![SessionOf[t]] = t]
           /\ fresh' = fresh \cup {t}
           /\ UNCHANGED <<queue, globalQueued>>
  BY <1>2
<1>3. CASE /\ queue' = [queue EXCEPT ![SessionOf[t]] = Append(@, t)]
           /\ globalQueued' = globalQueued + 1
           /\ UNCHANGED <<current, fresh>>
  <2>1. Append(queue[SessionOf[t]], t) \in Seq(Turns)
    BY QueueMembers
  <2> QED
    BY <1>3, <2>1
<1> QED
  BY <1>1, <1>2, <1>3 DEF Submit

(* Every step keeps every variable in its type; that global_queued is not   *)
(* counted below zero rests on its counting the queued turns.               *)
LEMMA QueueTypeStep ==
    ASSUME TypeOK, CountedExactly, OwnedOnce, [Next]_vars
    PROVE  TypeOK'
<1> USE QueueAssumption DEF TypeOK, durable, slots, tasks, bounds
<1>2. ASSUME NEW t \in Turns, Accept(t)
      PROVE  TypeOK'
  BY <1>2, AppendProperties DEF Accept, Rows
<1>3. ASSUME NEW t \in Turns, HandOver(t)
      PROVE  TypeOK'
  BY <1>3, SubmitType DEF HandOver
<1>9. ASSUME NEW t \in Turns, Dispatch(t)
      PROVE  TypeOK'
  BY <1>9, SubmitType DEF Dispatch
<1>4. ASSUME NEW t \in Turns, Prepare(t)
      PROVE  TypeOK'
  BY <1>4 DEF Prepare
<1>10. ASSUME NEW t \in Turns, Work(t)
      PROVE  TypeOK'
  BY <1>10 DEF Work, Rows
<1>11. ASSUME NEW t \in Turns, GiveUp(t) \/ Panic(t)
      PROVE  TypeOK'
  BY <1>11 DEF GiveUp, Panic
<1>5. ASSUME NEW t \in Turns, Drain(t)
      PROVE  TypeOK'
  <2> DEFINE s == SessionOf[t]
  <2>1. s \in Sessions /\ queue[s] \in Seq(Turns)
    OBVIOUS
  <2>2. CASE queue[s] = <<>>
    BY <1>5, <2>2 DEF Drain
  <2>3. CASE queue[s] # <<>>
    <3>1. Head(queue[s]) \in Elements(queue[s]) /\ Tail(queue[s]) \in Seq(Turns)
      BY <2>1, <2>3, QueueTail
    <3>2. Head(queue[s]) \in QueuedTurns
      BY <2>1, <3>1, QueueMembers DEF QueuedTurns, OwnedOnce, Owned
    <3>3. globalQueued # 0
      <4>1. IsFiniteSet(QueuedTurns)
        BY FS_Subset DEF QueuedTurns
      <4> QED
        BY <3>2, <4>1, FS_EmptySet DEF CountedExactly
    <3>4. Head(queue[s]) \in Turns
      BY <3>2 DEF QueuedTurns
    <3>5. globalQueued - 1 \in Nat
      BY <3>3
    <3>6. queue' = [queue EXCEPT ![s] = Tail(@)] /\ globalQueued' = globalQueued - 1
      BY <1>5, <2>3 DEF Drain
    <3>7. queue' \in [Sessions -> Seq(Turns)] /\ globalQueued' \in Nat
      BY <3>1, <3>5, <3>6
    <3>8. current' \in [Sessions -> Turns \cup {Nobody}]
      BY <1>5, <2>1, <2>3, <3>4 DEF Drain
    <3>9. fresh' \subseteq Turns /\ running' \subseteq Turns
      BY <1>5, <2>3, <3>4 DEF Drain
    <3>10. UNCHANGED <<row, order, handed, page, stopping, restarts, panics>>
      BY <1>5 DEF Drain
    <3> QED
      BY <3>7, <3>8, <3>9, <3>10
  <2> QED
    BY <2>2, <2>3
<1>6. CASE Scan \/ Shutdown
  BY <1>6 DEF Scan, Shutdown
<1>7. CASE Restart
  <2>1. row' \in [Turns -> Rows]
    BY <1>7 DEF Restart, Rows
  <2>2. queue' \in [Sessions -> Seq(Turns)]
    BY <1>7, EmptySeq DEF Restart
  <2>3. current' \in [Sessions -> Turns \cup {Nobody}] /\ globalQueued' \in Nat
    BY <1>7 DEF Restart
  <2>4. /\ handed' \subseteq Turns /\ fresh' \subseteq Turns /\ running' \subseteq Turns
        /\ page' \subseteq Turns /\ stopping' \in BOOLEAN
    BY <1>7 DEF Restart
  <2>5. restarts' \in 0..MaxRestarts /\ UNCHANGED <<order, panics>>
    BY <1>7 DEF Restart
  <2> QED
    BY <2>1, <2>2, <2>3, <2>4, <2>5
<1>8. CASE UNCHANGED vars
  BY <1>8 DEF vars
<1> QED
  BY <1>2, <1>3, <1>4, <1>5, <1>6, <1>7, <1>8, <1>9, <1>10, <1>11 DEF Next

-----------------------------------------------------------------------------
(* submit of an accepted turn keeps the slots in order, whoever submits it  *)
(* and however often.                                                       *)
LEMMA SubmitSlots ==
    ASSUME TypeOK, OneTaskPerSession, OwnedOnce, NEW t \in Turns, row[t] # "none",
           row' = row, running' = running, Submit(t)
    PROVE  (OneTaskPerSession /\ OwnedOnce)'
<1> DEFINE s == SessionOf[t]
<1>0. /\ s \in Sessions /\ queue[s] \in Seq(Turns) /\ Nobody \notin Turns
      /\ \A p \in Sessions : Elements(queue[p]) \subseteq Turns
  BY QueueAssumption, QueueMembers DEF TypeOK
<1>1. CASE UNCHANGED <<slots, fresh>>
  BY <1>1 DEF slots, OneTaskPerSession, OwnedOnce, Live, Owned, Elements
<1>2. CASE /\ current[s] = Nobody /\ t \notin Owned(s)
           /\ current' = [current EXCEPT ![s] = t]
           /\ fresh' = fresh \cup {t}
           /\ UNCHANGED <<queue, globalQueued>>
  <2>1. t \notin Live /\ \A u \in Live : SessionOf[u] # s
    BY <1>0, <1>2 DEF OneTaskPerSession, Live, TypeOK
  <2>2. OneTaskPerSession'
    BY <1>0, <1>2, <2>1 DEF OneTaskPerSession, Live, TypeOK
  <2>3. queue[s] = <<>> /\ Elements(queue[s]) = {}
    BY <1>0, <1>2, EmptySeq DEF OwnedOnce, Elements
  <2>4. OwnedOnce'
    <3>1. current'[s] = t /\ queue' = queue
          /\ \A p \in Sessions \ {s} : current'[p] = current[p]
      BY <1>0, <1>2 DEF TypeOK
    <3>2. ASSUME NEW p \in Sessions
          PROVE  /\ current'[p] \notin Elements(queue[p])
                 /\ \A u \in ({current'[p]} \cup Elements(queue[p])) \ {Nobody} :
                       SessionOf[u] = p /\ row'[u] # "none"
                 /\ current'[p] = Nobody => queue[p] = <<>>
      BY <1>0, <2>3, <3>1 DEF OwnedOnce, Owned
    <3> QED
      BY <3>1, <3>2 DEF OwnedOnce, Owned, Elements
  <2> QED
    BY <2>2, <2>4
<1>3. CASE /\ current[s] # Nobody /\ t \notin Owned(s)
           /\ queue' = [queue EXCEPT ![s] = Append(@, t)]
           /\ UNCHANGED <<current, fresh>>
  <2>1. OneTaskPerSession'
    BY <1>3 DEF OneTaskPerSession, Live
  <2>2. /\ queue'[s] = Append(queue[s], t)
        /\ \A p \in Sessions \ {s} : queue'[p] = queue[p]
    BY <1>0, <1>3 DEF TypeOK
  <2>3. t \notin Elements(queue[s]) /\ t # current[s]
    BY <1>0, <1>3 DEF Owned
  <2>4. Elements(queue'[s]) = Elements(queue[s]) \cup {t}
    BY <1>0, <2>2, QueueMembers
  <2>5. Once(queue'[s])
    <3>1. Once(queue[s])
      BY <1>0 DEF OwnedOnce, Once
    <3> QED
      BY <1>0, <2>2, <2>3, <3>1, OnceAppend
  <2>6. ASSUME NEW p \in Sessions
        PROVE  /\ Once(queue'[p])
               /\ current'[p] \notin Elements(queue'[p])
               /\ \A u \in ({current'[p]} \cup Elements(queue'[p])) \ {Nobody} :
                     SessionOf[u] = p /\ row'[u] # "none"
               /\ current'[p] = Nobody => queue'[p] = <<>>
    <3>1. CASE p = s
      BY <1>3, <2>3, <2>4, <2>5, <3>1 DEF OwnedOnce, Owned
    <3>2. CASE p # s
      BY <1>3, <2>2, <3>2 DEF OwnedOnce, Owned, Once
    <3> QED
      BY <3>1, <3>2
  <2>7. OwnedOnce'
    BY <2>6 DEF OwnedOnce, Owned, Once, Elements
  <2> QED
    BY <2>1, <2>7
<1> QED
  BY <1>1, <1>2, <1>3 DEF Submit

(* on_turn_completed keeps the slots in order: the next turn takes over the *)
(* slot and the task of the one that ended.                                 *)
LEMMA DrainSlots ==
    ASSUME TypeOK, OneTaskPerSession, OwnedOnce, NEW t \in Turns, Drain(t)
    PROVE  (OneTaskPerSession /\ OwnedOnce)'
<1> DEFINE s == SessionOf[t]
           next == Head(queue[s])
<1>0. /\ s \in Sessions /\ queue[s] \in Seq(Turns) /\ Nobody \notin Turns
      /\ current[s] = t /\ t \in running /\ t \notin fresh
      /\ running' = running \ {t} /\ row' = row
      /\ \A p \in Sessions : Elements(queue[p]) \subseteq Turns
  BY QueueAssumption, QueueMembers DEF TypeOK, Drain, OneTaskPerSession, Live, durable
<1>1. \A u \in Live \ {t} : SessionOf[u] # s /\ SessionOf[u] \in Sessions
  BY <1>0, QueueAssumption DEF OneTaskPerSession, Live, TypeOK
<1>2. CASE queue[s] = <<>>
  <2>1. /\ current' = [current EXCEPT ![s] = Nobody] /\ queue' = queue /\ fresh' = fresh
    BY <1>2 DEF Drain
  <2>2. OneTaskPerSession'
    BY <1>0, <1>1, <2>1 DEF OneTaskPerSession, Live, TypeOK
  <2>3. Elements(queue[s]) = {}
    BY <1>2, EmptySeq DEF Elements
  <2>4. current'[s] = Nobody /\ \A p \in Sessions \ {s} : current'[p] = current[p]
    BY <1>0, <2>1 DEF TypeOK
  <2>5. ASSUME NEW p \in Sessions
        PROVE  /\ current'[p] \notin Elements(queue[p])
               /\ \A u \in ({current'[p]} \cup Elements(queue[p])) \ {Nobody} :
                     SessionOf[u] = p /\ row[u] # "none"
               /\ current'[p] = Nobody => queue[p] = <<>>
    BY <1>2, <2>3, <2>4 DEF OwnedOnce, Owned
  <2>6. OwnedOnce'
    BY <1>0, <2>1, <2>5 DEF OwnedOnce, Owned, Elements
  <2> QED
    BY <2>2, <2>6
<1>3. CASE queue[s] # <<>>
  <2>1. /\ current' = [current EXCEPT ![s] = next]
        /\ queue' = [queue EXCEPT ![s] = Tail(@)]
        /\ fresh' \subseteq fresh \cup {next}
    BY <1>3 DEF Drain
  <2>2. /\ next \in Elements(queue[s]) /\ Elements(queue[s]) = Elements(Tail(queue[s])) \cup {next}
        /\ Tail(queue[s]) \in Seq(Turns)
    BY <1>0, <1>3, QueueTail
  <2>3. Once(Tail(queue[s])) /\ next \notin Elements(Tail(queue[s]))
    BY <1>0, <1>3, OnceTail DEF OwnedOnce, Once
  <2>4. next \in Turns /\ next # t /\ SessionOf[next] = s
    BY <1>0, <2>2 DEF OwnedOnce, Owned
  <2>5. current'[s] = next /\ queue'[s] = Tail(queue[s])
        /\ \A p \in Sessions \ {s} : current'[p] = current[p] /\ queue'[p] = queue[p]
    BY <1>0, <2>1 DEF TypeOK
  <2>6. next \notin Live
    BY <1>1, <2>4
  <2>7. OneTaskPerSession'
    <3>1. fresh' \cap running' = {}
      BY <1>0, <2>1, <2>6 DEF OneTaskPerSession, Live
    <3>2. ASSUME NEW u \in fresh' \cup running'
          PROVE  current'[SessionOf[u]] = u
      <4>1. CASE u = next
        BY <2>4, <2>5, <4>1
      <4>2. CASE u # next
        <5>1. u \in Live \ {t}
          BY <1>0, <2>1, <4>2 DEF Live
        <5> QED
          BY <1>1, <2>5, <5>1 DEF OneTaskPerSession
      <4> QED
        BY <4>1, <4>2
    <3> QED
      BY <3>1, <3>2 DEF OneTaskPerSession, Live
  <2>8. ASSUME NEW p \in Sessions
        PROVE  /\ Once(queue'[p])
               /\ current'[p] \notin Elements(queue'[p])
               /\ \A u \in ({current'[p]} \cup Elements(queue'[p])) \ {Nobody} :
                     SessionOf[u] = p /\ row[u] # "none"
               /\ current'[p] = Nobody => queue'[p] = <<>>
    <3>1. CASE p = s
      BY <1>0, <2>2, <2>3, <2>4, <2>5, <3>1 DEF OwnedOnce, Owned
    <3>2. CASE p # s
      BY <2>5, <3>2 DEF OwnedOnce, Owned, Once
    <3> QED
      BY <3>1, <3>2
  <2>9. OwnedOnce'
    BY <1>0, <2>8 DEF OwnedOnce, Owned, Once, Elements
  <2> QED
    BY <2>7, <2>9
<1> QED
  BY <1>2, <1>3

(* Every step keeps the slots in order. *)
LEMMA SlotStep ==
    ASSUME TypeOK, OneTaskPerSession, OwnedOnce, SlotInv, [Next]_vars
    PROVE  (OneTaskPerSession /\ OwnedOnce /\ SlotInv)'
<1> DEFINE Goal == (OneTaskPerSession /\ OwnedOnce /\ SlotInv)'
<1> USE DEF durable, slots, tasks, bounds
<1>1. ASSUME NEW t \in Turns, HandOver(t) \/ Dispatch(t)
      PROVE  Goal
  <2>1. /\ row[t] # "none" /\ row' = row /\ running' = running /\ Submit(t)
        /\ handed' \cup page' \subseteq handed \cup page
    BY <1>1 DEF HandOver, Dispatch, SlotInv
  <2>2. ASSUME NEW u \in Turns, row[u] = "active"
        PROVE  current'[SessionOf[u]] = u
    <3>1. current[SessionOf[u]] = u /\ u # Nobody /\ SessionOf[u] \in Sessions
      BY <2>2, QueueAssumption DEF SlotInv
    <3> QED
      BY <2>1, <3>1, QueueAssumption DEF Submit, TypeOK
  <2>3. SlotInv'
    BY <2>1, <2>2 DEF SlotInv
  <2> QED
    BY <2>1, <2>3, SubmitSlots
<1>2. ASSUME NEW t \in Turns, Drain(t)
      PROVE  Goal
  <2>1. SlotInv'
    <3>1. row' = row /\ handed' = handed /\ page' = page /\ row[t] = "ended"
          /\ \A p \in Sessions \ {SessionOf[t]} : current'[p] = current[p]
      BY <1>2, QueueAssumption DEF Drain, TypeOK
    <3>2. current[SessionOf[t]] = t
      BY <1>2 DEF Drain, OneTaskPerSession, Live
    <3>3. ASSUME NEW u \in Turns, row[u] = "active"
          PROVE  SessionOf[u] \in Sessions \ {SessionOf[t]}
      BY <3>1, <3>2, <3>3, QueueAssumption DEF SlotInv
    <3> QED
      BY <3>1, <3>3 DEF SlotInv
  <2> QED
    BY <1>2, <2>1, DrainSlots
<1>3. ASSUME NEW t \in Turns, Accept(t)
      PROVE  Goal
  BY <1>3 DEF Accept, OneTaskPerSession, OwnedOnce, SlotInv, Live, Owned, Elements, TypeOK
<1>4. ASSUME NEW t \in Turns, Work(t)
      PROVE  Goal
  BY <1>4 DEF Work, OneTaskPerSession, OwnedOnce, SlotInv, Live, Owned, Elements, TypeOK
<1>5. ASSUME NEW t \in Turns, Prepare(t) \/ GiveUp(t) \/ Panic(t)
      PROVE  Goal
  BY <1>5 DEF Prepare, GiveUp, Panic, OneTaskPerSession, OwnedOnce, SlotInv, Live, Owned, Elements
<1>6. CASE Scan \/ Shutdown \/ UNCHANGED vars
  BY <1>6 DEF Scan, Shutdown, vars, OneTaskPerSession, OwnedOnce, SlotInv, Live, Owned, Elements
<1>7. CASE Restart
  <2>1. \A s \in Sessions : current'[s] = Nobody /\ queue'[s] = <<>>
    BY <1>7 DEF Restart
  <2>2. \A s \in Sessions : Elements(queue'[s]) = {} /\ Len(queue'[s]) = 0
    BY <2>1, EmptySeq DEF Elements
  <2>3. OwnedOnce'
    BY <2>1, <2>2 DEF OwnedOnce, Owned, Elements
  <2> QED
    BY <1>7, <2>3 DEF Restart, OneTaskPerSession, SlotInv, Live
<1> QED
  BY <1>1, <1>2, <1>3, <1>4, <1>5, <1>6, <1>7 DEF Next

-----------------------------------------------------------------------------
(* Every step keeps global_queued the number of queued turns. *)
LEMMA CountedStep ==
    ASSUME TypeOK, TypeOK', OwnedOnce, OwnedOnce', CountedExactly, [Next]_vars
    PROVE  CountedExactly'
<1> USE QueueAssumption DEF durable, slots, tasks, bounds
<1>1. ASSUME UNCHANGED slots
      PROVE  CountedExactly'
  BY <1>1 DEF CountedExactly, QueuedTurns, Elements
<1>2. ASSUME NEW t \in Turns, Submit(t)
      PROVE  CountedExactly'
  <2> DEFINE s == SessionOf[t]
  <2>0. s \in Sessions /\ queue[s] \in Seq(Turns)
    BY DEF TypeOK
  <2>1. CASE UNCHANGED <<queue, globalQueued>>
    BY <2>1 DEF CountedExactly, QueuedTurns, Elements
  <2>2. CASE /\ t \notin Owned(s)
             /\ Len(queue[s]) < SessionQueueCap /\ globalQueued < GlobalQueueCap
             /\ queue' = [queue EXCEPT ![s] = Append(@, t)]
             /\ globalQueued' = globalQueued + 1
    <3>1. /\ queue'[s] = Append(queue[s], t)
          /\ \A p \in Sessions \ {s} : queue'[p] = queue[p]
      BY <2>0, <2>2 DEF TypeOK
    <3>2. /\ Elements(queue'[s]) = Elements(queue[s]) \cup {t}
          /\ Len(queue'[s]) = Len(queue[s]) + 1 /\ Len(queue[s]) \in Nat
      BY <2>0, <3>1, QueueMembers, LenProperties
    <3>3. t \notin QueuedTurns
      BY <2>2 DEF QueuedTurns, Owned
    <3>4. QueuedTurns' = QueuedTurns \cup {t}
      <4>1. ASSUME NEW u \in Turns
            PROVE  u \in Elements(queue'[SessionOf[u]])
                     <=> u \in Elements(queue[SessionOf[u]]) \/ u = t
        <5>1. CASE SessionOf[u] = s
          BY <3>2, <5>1
        <5>2. CASE SessionOf[u] # s
          BY <3>1, <5>2
        <5> QED
          BY <5>1, <5>2
      <4> QED
        BY <4>1 DEF QueuedTurns, Elements
    <3>5. IsFiniteSet(QueuedTurns)
      BY FS_Subset DEF QueuedTurns
    <3>6. Cardinality(QueuedTurns') = Cardinality(QueuedTurns) + 1
      BY <3>3, <3>4, <3>5, FS_AddElement
    <3>7. globalQueued' = Cardinality(QueuedTurns')
      BY <2>2, <3>6 DEF CountedExactly
    <3>8. globalQueued' <= GlobalQueueCap
      BY <2>2 DEF TypeOK
    <3>9. \A p \in Sessions : Len(queue'[p]) <= SessionQueueCap
      BY <2>2, <3>1, <3>2 DEF CountedExactly
    <3> QED
      BY <3>7, <3>8, <3>9 DEF CountedExactly
  <2> QED
    BY <1>2, <2>1, <2>2 DEF Submit
<1>3. ASSUME NEW t \in Turns, Drain(t), queue[SessionOf[t]] # <<>>
      PROVE  CountedExactly'
  <2> DEFINE s == SessionOf[t]
             next == Head(queue[s])
  <2>0. s \in Sessions /\ queue[s] \in Seq(Turns)
    BY DEF TypeOK
  <2>1. /\ queue'[s] = Tail(queue[s]) /\ globalQueued' = globalQueued - 1
        /\ \A p \in Sessions \ {s} : queue'[p] = queue[p]
        /\ current'[s] = next
    BY <1>3, <2>0 DEF Drain, TypeOK
  <2>2. /\ next \in Elements(queue[s])
        /\ Elements(queue[s]) = Elements(queue'[s]) \cup {next}
        /\ Len(queue'[s]) = Len(queue[s]) - 1 /\ Len(queue[s]) \in Nat
    BY <1>3, <2>0, <2>1, QueueTail
  <2>3. next \notin Elements(queue'[s])
    <3>1. Once(queue[s])
      BY <2>0 DEF OwnedOnce, Once
    <3> QED
      BY <1>3, <2>0, <2>1, <3>1, OnceTail
  <2>4. next \in Turns /\ SessionOf[next] = s
    BY <2>0, <2>2, QueueMembers DEF OwnedOnce, Owned
  <2>5. QueuedTurns' = QueuedTurns \ {next}
    <3>1. ASSUME NEW u \in Turns
          PROVE  u \in Elements(queue'[SessionOf[u]])
                   <=> u \in Elements(queue[SessionOf[u]]) /\ u # next
      <4>1. CASE SessionOf[u] = s
        BY <2>2, <2>3, <4>1
      <4>2. CASE SessionOf[u] # s
        BY <2>1, <2>4, <4>2
      <4> QED
        BY <4>1, <4>2
    <3> QED
      BY <3>1 DEF QueuedTurns, Elements
  <2>6. IsFiniteSet(QueuedTurns) /\ next \in QueuedTurns
    BY <2>2, <2>4, FS_Subset DEF QueuedTurns
  <2>7. Cardinality(QueuedTurns') = Cardinality(QueuedTurns) - 1
    <3>1. QueuedTurns \in SUBSET Turns
      BY DEF QueuedTurns
    <3>2. Cardinality(QueuedTurns \ {next}) = Cardinality(QueuedTurns) - 1
      BY <2>4, <2>6, <3>1, OneLess
    <3> QED
      BY <2>5, <3>2
  <2>8. globalQueued' = Cardinality(QueuedTurns') /\ globalQueued' <= GlobalQueueCap
    BY <2>1, <2>7 DEF CountedExactly, TypeOK
  <2>9. \A p \in Sessions : Len(queue'[p]) <= SessionQueueCap
    <3>1. Len(queue[s]) <= SessionQueueCap /\ SessionQueueCap \in Nat
      BY <2>0 DEF CountedExactly
    <3>2. Len(queue'[s]) <= SessionQueueCap
      BY <2>2, <3>1
    <3> QED
      BY <2>1, <3>2 DEF CountedExactly
  <2> QED
    BY <2>8, <2>9 DEF CountedExactly
<1>4. CASE Restart
  <2>1. \A s \in Sessions : Elements(queue'[s]) = {} /\ Len(queue'[s]) = 0
    BY <1>4, EmptySeq DEF Restart, Elements
  <2>2. QueuedTurns' = {}
    BY <2>1 DEF QueuedTurns, Elements
  <2> QED
    BY <1>4, <2>1, <2>2, FS_EmptySet DEF Restart, CountedExactly
<1>5. ASSUME NEW t \in Turns, Drain(t), queue[SessionOf[t]] = <<>>
      PROVE  CountedExactly'
  <2>1. UNCHANGED <<queue, globalQueued>>
    BY <1>5 DEF Drain
  <2> QED
    BY <2>1 DEF CountedExactly, QueuedTurns, Elements
<1>6. ASSUME NEW t \in Turns, HandOver(t) \/ Dispatch(t)
      PROVE  CountedExactly'
  BY <1>2, <1>6 DEF HandOver, Dispatch
<1>7. ASSUME NEW t \in Turns,
             Accept(t) \/ Prepare(t) \/ Work(t) \/ GiveUp(t) \/ Panic(t)
      PROVE  CountedExactly'
  BY <1>1, <1>7 DEF Accept, Prepare, Work, GiveUp, Panic
<1>8. CASE Scan \/ Shutdown \/ UNCHANGED vars
  BY <1>1, <1>8 DEF Scan, Shutdown, vars
<1> QED
  BY <1>3, <1>4, <1>5, <1>6, <1>7, <1>8 DEF Next

(* The inductive invariant of the scheduler. *)
QueueInv == TypeOK /\ OneTaskPerSession /\ OwnedOnce /\ SlotInv /\ CountedExactly

LEMMA QueueInvariant == Spec => []QueueInv
<1>1. Init => QueueInv
  <2> SUFFICES ASSUME Init PROVE QueueInv
    OBVIOUS
  <2> USE QueueAssumption
  <2>1. TypeOK
    <3>1. order \in Seq(Turns) /\ queue \in [Sessions -> Seq(Turns)]
      BY EmptySeq DEF Init
    <3>2. row \in [Turns -> Rows] /\ current \in [Sessions -> Turns \cup {Nobody}]
      BY DEF Init, Rows
    <3>3. /\ page \subseteq Turns /\ handed \subseteq Turns
          /\ fresh \subseteq Turns /\ running \subseteq Turns
      BY DEF Init
    <3>4. globalQueued \in Nat /\ restarts \in 0..MaxRestarts /\ panics \in 0..MaxPanics
      BY DEF Init
    <3>5. stopping \in BOOLEAN
      BY DEF Init
    <3> QED
      BY <3>1, <3>2, <3>3, <3>4, <3>5 DEF TypeOK
  <2>2. OneTaskPerSession /\ SlotInv
    BY DEF Init, OneTaskPerSession, SlotInv, Live
  <2>3. \A s \in Sessions : Elements(queue[s]) = {} /\ Len(queue[s]) = 0
    BY EmptySeq DEF Init, Elements
  <2>4. OwnedOnce
    BY <2>3 DEF Init, OwnedOnce, Owned
  <2>5. QueuedTurns = {}
    BY <2>3 DEF QueuedTurns
  <2>6. CountedExactly
    BY <2>3, <2>5, FS_EmptySet DEF Init, CountedExactly
  <2> QED
    BY <2>1, <2>2, <2>4, <2>6 DEF QueueInv
<1>2. QueueInv /\ [Next]_vars => QueueInv'
  BY QueueTypeStep, SlotStep, CountedStep DEF QueueInv
<1> QED
  BY <1>1, <1>2, PTL DEF Spec

(* Turns of a session never run at the same time, a repeated submission of  *)
(* a turn never makes the scheduler own it twice, and global_queued counts  *)
(* the queued turns, within both capacities.                                *)
THEOREM SlotsInOrder == Spec => [](OneTaskPerSession /\ OwnedOnce /\ CountedExactly)
<1>1. QueueInv => OneTaskPerSession /\ OwnedOnce /\ CountedExactly
  BY DEF QueueInv
<1> QED
  BY <1>1, QueueInvariant, PTL

(* A turn in a queue has not begun, so a restart finds it resumable.        *)
THEOREM QueuedIsResumable == Spec => []QueuedHasNotBegun
<1>1. QueueInv => QueuedHasNotBegun
  <2> SUFFICES ASSUME QueueInv, NEW s \in Sessions, NEW t \in Elements(queue[s]), row[t] = "active"
               PROVE  FALSE
    BY DEF QueuedHasNotBegun
  <2>1. t \in Turns /\ t # Nobody
    <3>1. queue[s] \in Seq(Turns)
      BY DEF QueueInv, TypeOK
    <3>2. \A i \in 1..Len(queue[s]) : queue[s][i] \in Turns
      BY <3>1, ElementOfSeq
    <3> QED
      BY <3>2, QueueAssumption DEF Elements
  <2>2. SessionOf[t] = s /\ current[s] # t
    BY <2>1 DEF QueueInv, OwnedOnce, Owned
  <2> QED
    BY <2>1, <2>2 DEF QueueInv, SlotInv
<1> QED
  BY <1>1, QueueInvariant, PTL

(* A busy slot has the task that will drain it: the queue of a session      *)
(* never waits for a wake-up that nobody sends, unless the process is       *)
(* stopping or a turn task panicked.                                        *)
THEOREM WakeUpNotLost == Spec => []BusyHasTask
<1>1. Init => BusyHasTask
  BY DEF Init, BusyHasTask
<1>2. QueueInv /\ QueueInv' /\ BusyHasTask /\ [Next]_vars => BusyHasTask'
  <2> SUFFICES ASSUME QueueInv, BusyHasTask, [Next]_vars, ~(stopping' \/ panics' > 0)
               PROVE  \A s \in Sessions : current'[s] # Nobody => current'[s] \in fresh' \cup running'
    BY DEF BusyHasTask, Live
  <2> USE QueueAssumption DEF QueueInv, TypeOK, BusyHasTask, Live, durable, slots, tasks, bounds
  <2>1. ASSUME NEW t \in Turns, HandOver(t) \/ Dispatch(t)
        PROVE  \A s \in Sessions : current'[s] # Nobody => current'[s] \in fresh' \cup running'
    BY <2>1 DEF HandOver, Dispatch, Submit
  <2>2. ASSUME NEW t \in Turns, Drain(t)
        PROVE  \A s \in Sessions : current'[s] # Nobody => current'[s] \in fresh' \cup running'
    <3>1. current[SessionOf[t]] = t
      BY <2>2 DEF Drain, OneTaskPerSession
    <3>2. /\ current'[SessionOf[t]] # Nobody => current'[SessionOf[t]] \in fresh'
          /\ \A s \in Sessions \ {SessionOf[t]} : current'[s] = current[s]
      BY <2>2 DEF Drain
    <3>3. \A s \in Sessions \ {SessionOf[t]} : current[s] # t
      BY <3>1 DEF OwnedOnce, Owned
    <3>4. Live \ {t} \subseteq fresh' \cup running'
      BY <2>2 DEF Drain
    <3> QED
      BY <2>2, <3>2, <3>3, <3>4 DEF Drain
  <2>3. ASSUME NEW t \in Turns, Accept(t) \/ Prepare(t) \/ Work(t)
        PROVE  \A s \in Sessions : current'[s] # Nobody => current'[s] \in fresh' \cup running'
    BY <2>3 DEF Accept, Prepare, Work
  <2>4. ASSUME NEW t \in Turns, GiveUp(t) \/ Panic(t)
        PROVE  FALSE
    BY <2>4 DEF GiveUp, Panic
  <2>5. CASE Scan \/ Shutdown \/ Restart \/ UNCHANGED vars
    BY <2>5 DEF Scan, Shutdown, Restart, vars
  <2> QED
    BY <2>1, <2>2, <2>3, <2>4, <2>5 DEF Next
<1> QED
  BY <1>1, <1>2, QueueInvariant, PTL DEF Spec

(* The scheduler's slots, queues and counter agree with each other and with *)
(* the rows, for every set of turns and all capacities.                     *)
THEOREM SlotsAlwaysAgree == Spec => []SlotsAgree
<1>1. QueueInv /\ QueuedHasNotBegun => SlotsAgree
  BY DEF QueueInv, SlotsAgree
<1> QED
  BY <1>1, QueueInvariant, QueuedIsResumable, PTL
=============================================================================
