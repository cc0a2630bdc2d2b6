--------------------------- MODULE AgentLoopProofs ---------------------------
(* Proofs about the agent loop of one Turn, for any number of calls, of      *)
(* attempts, iterations and denials, and of storage errors and crashes.      *)
EXTENDS AgentLoop, FiniteSetTheorems, SequenceTheorems, WellFoundedInduction, TLAPS

(* Where the executor is while the model is asked, while the reply it got is *)
(* not stored yet, and while its calls are answered.                         *)
Asking == {"send", "wait", "backoff", "model"}
Unstored == Asking \cup {"begin_tools", "mark_tools", "call", "final"}
Tooling == {"run", "effect", "record", "record_block", "complete_tools"}
InIteration == Unstored \cup Tooling \cup {"staged", "mark_final", "complete"}
Away == {"failing", "idle", "down", "recover_turns"}
Labels == InIteration \cup Away \cup {"begin", "mark_failing"}

RowStates == Resumable \cup Terminal \cup {"model_pending", "model_completed", "tools_pending"}
RowSet == [state : RowStates, iteration : 0 .. MaxIterations, published : BOOLEAN]

(* The row and the counters of the executor. *)
StepTypes ==
    /\ pc \in Labels /\ row \in RowSet
    /\ it \in 1 .. MaxIterations + 1 /\ attempt \in 1 .. MaxAttempts
    /\ sends \in Nat /\ troubles \in Nat /\ crashes \in Nat

Flags == emptied \in BOOLEAN /\ streamed \in BOOLEAN /\ declared \in BOOLEAN /\ lostMark \in BOOLEAN

(* What the row says of the executor: its state, and the iteration it is in. *)
RowInv ==
    /\ pc = "begin" => /\ row.state \in {"input_committed", "model_completed", "tools_completed"}
                       /\ it = row.iteration + 1
    /\ pc \in InIteration => it = row.iteration
    /\ pc \in Asking \cup {"mark_failing"} => row.state = "model_pending"
    /\ pc \in {"begin_tools", "final", "mark_final", "complete"} => row.state = "model_completed"
    /\ pc \in Tooling \cup {"mark_tools", "call"} => row.state = "tools_pending"
    /\ pc = "staged" => row.state = "tools_completed"
    /\ pc = "failing" => row.state \notin Terminal
    /\ row.state = "input_committed" => row.iteration = 0
    /\ row.state = "tools_completed" => row.iteration > 0

(* An iteration's requests, by its attempts and the guarded one. *)
Extra == IF emptied THEN 1 ELSE 0

SendInv ==
    /\ sends <= MaxAttempts + 1
    /\ pc = "send" => sends + 1 <= attempt + Extra
    /\ pc \in {"wait", "backoff"} => sends <= attempt + Extra
    /\ pc = "wait" => sends > 0
    /\ pc = "backoff" => attempt < MaxAttempts

(* Text goes out in one request of an iteration, the last one. *)
VoiceInv ==
    /\ voice \subseteq 1 .. sends
    /\ pc \in {"send", "backoff"} => ~streamed
    /\ pc \in Unstored => /\ streamed <=> voice # {}
                          /\ voice \subseteq {sends}
                          /\ it \in shown => voice # {}

(* Message ids belong to the iterations so far; only the current one's text *)
(* may be neither stored nor discarded.                                     *)
TextInv ==
    /\ shown \cup stored \cup discarded \subseteq 1 .. row.iteration
    /\ spliced = {}
    /\ discarded \cap stored = {}
    /\ pc \in Asking => it \notin stored
    /\ pc \in Unstored => it \notin discarded /\ shown \subseteq stored \cup discarded \cup {it}
    /\ pc \in {"begin", "staged", "mark_final", "complete"} \cup Tooling
         => shown \subseteq stored \cup discarded
    /\ row.state \in Resumable \cup {"completed"} => shown \subseteq stored \cup discarded

TalkInv == StepTypes /\ Flags /\ RowInv /\ SendInv /\ VoiceInv /\ TextInv

-----------------------------------------------------------------------------
(* The calls of a reply, the ledger and the outcomes. *)
GoodCalls == [id : CallIds, input : Inputs]
Entries == [state : LedgerStates, input : Inputs \cup {NoId}]
Outcomes == [id : CallIds, input : Inputs, kind : Kinds]
LastOf == outcomes[Len(outcomes)]

ToolTypes ==
    /\ ledger \in [CallIds -> Entries]
    /\ reply \in [text : Texts, calls : Seq(GoodCalls)] /\ Len(Valid) <= MaxCalls
    /\ outcomes \in Seq(Outcomes)
    /\ cursor \in Nat /\ cursor = Len(outcomes) + 1 /\ cursor <= Len(Valid) + 1
    /\ denials \in Nat
    /\ ran \in [CallIds -> Seq(Writes)]

(* Outcomes answer calls in order, and no two calls have one id. *)
OrderInv ==
    /\ \A j, k \in 1 .. Len(Valid) : Valid[j].id = Valid[k].id => j = k
    /\ \A k \in 1 .. Len(outcomes) :
           outcomes[k].id = Valid[k].id /\ outcomes[k].input = Valid[k].input
    /\ pc \notin Tooling \cup {"staged", "failing"} => outcomes = <<>>
    /\ pc = "complete_tools" => cursor > Len(Valid)

(* A call is in the ledger as running while its tool runs, and until its     *)
(* result is written.                                                        *)
ClaimInv ==
    /\ pc = "effect" =>
           /\ cursor <= Len(Valid) /\ Current.input \in Writes /\ denials < DenialLimit
           /\ ledger[Current.id].state = "running" /\ ledger[Current.id].input = Current.input
           /\ ran[Current.id] = <<>>
    /\ pc = "record" =>
           /\ Len(outcomes) > 0
           /\ ledger[LastOf.id].state = "running" /\ ledger[LastOf.id].input = LastOf.input
           /\ ran[LastOf.id] = <<LastOf.input>>

(* What has run is in the ledger, and what the ledger says succeeded has run. *)
RanInv ==
    /\ \A c \in CallIds :
           ran[c] # <<>> => ledger[c].state # "none" /\ ran[c] = <<ledger[c].input>>
    /\ \A c \in CallIds :
           ledger[c].state = "succeeded" /\ ledger[c].input \in Writes => ran[c] # <<>>

InDoubt(c) == ledger[c].state \in {"running", "uncertain"}

(* Only the call that runs is in doubt, until its executor ends with a row   *)
(* that nobody resumes.                                                      *)
DoubtInv ==
    /\ pc \notin {"effect", "record"} \cup Away => \A c \in CallIds : ~InDoubt(c)
    /\ pc = "effect" => \A c \in CallIds : InDoubt(c) => c = Current.id
    /\ pc = "record" => \A c \in CallIds : InDoubt(c) => c = LastOf.id
    /\ row.state \in Resumable => \A c \in CallIds : ~InDoubt(c)

(* Before a tool runs, the row is marked and the calls are stored. *)
MarkInv ==
    /\ pc \in Tooling \cup {"call"} => row.published \/ lostMark
    /\ pc \in Tooling => stored # {}
    /\ \A c \in CallIds : ran[c] # <<>> => (row.published \/ lostMark) /\ stored # {}
    /\ row.state = "failed" /\ ~lostMark => \A c \in CallIds : ran[c] = <<>>

ToolInv ==
    /\ ToolTypes /\ OrderInv /\ ClaimInv /\ RanInv /\ DoubtInv /\ MarkInv
    /\ ResultIsOfTheCall

-----------------------------------------------------------------------------
(* The row and the variables of the model step.                             *)

talk == <<row, it, attempt, emptied, streamed, declared, sends, voice, shown, stored, discarded,
          spliced, lostMark, troubles, crashes>>

LEMMA Bounds ==
    /\ MaxAttempts \in Nat /\ MaxAttempts > 0 /\ MaxIterations \in Nat /\ MaxIterations > 0
    /\ DenialLimit \in Nat /\ MaxCalls \in Nat
BY LoopAssumption

LEMMA RowFields ==
    ASSUME row \in RowSet
    PROVE  /\ row.state \in RowStates /\ row.iteration \in 0 .. MaxIterations
           /\ row.iteration \in Nat /\ row.published \in BOOLEAN
BY Bounds DEF RowSet

LEMMA RowState ==
    ASSUME row \in RowSet, NEW s \in RowStates, row' = [row EXCEPT !.state = s]
    PROVE  /\ row' \in RowSet /\ row'.state = s /\ row'.iteration = row.iteration
           /\ row'.published = row.published
BY DEF RowSet

LEMMA RowBegin ==
    ASSUME row \in RowSet, NEW s \in RowStates, NEW n \in 0 .. MaxIterations,
           row' = [row EXCEPT !.state = s, !.iteration = n]
    PROVE  /\ row' \in RowSet /\ row'.state = s /\ row'.iteration = n
           /\ row'.published = row.published
BY DEF RowSet

(* A step of the tool phase. *)
LEMMA ToolMoves ==
    ASSUME TalkInv, pc \in Tooling, pc' \in Tooling \cup {"failing"}, UNCHANGED talk
    PROVE  TalkInv'
<1> USE DEF talk, Tooling
<1>1. StepTypes'
  BY DEF TalkInv, StepTypes, Labels, InIteration, Away
<1>2. Flags'
  BY DEF TalkInv, Flags
<1>3. RowInv'
  BY DEF TalkInv, RowInv, InIteration, Unstored, Asking, Terminal
<1>4. SendInv'
  <2>1. Extra' = Extra
    BY DEF Extra
  <2> QED BY <2>1 DEF TalkInv, SendInv
<1>5. VoiceInv'
  BY DEF TalkInv, VoiceInv, Unstored, Asking
<1>6. TextInv'
  BY DEF TalkInv, TextInv, Unstored, Asking
<1> QED BY <1>1, <1>2, <1>3, <1>4, <1>5, <1>6 DEF TalkInv

(* A step that ends the loop with an error. *)
LEMMA ToFailing ==
    ASSUME TalkInv, pc \notin {"idle", "down", "recover_turns"}, pc' = "failing",
           UNCHANGED <<row, it, streamed, declared, sends, voice, shown, stored, discarded, spliced>>,
           attempt' \in {1, attempt}, troubles' \in Nat, UNCHANGED crashes, Flags'
    PROVE  TalkInv'
<1>1. StepTypes'
  BY Bounds DEF TalkInv, StepTypes, Labels, Away
<1>2. RowInv'
  BY DEF TalkInv, RowInv, StepTypes, Labels, InIteration, Unstored, Asking, Tooling, Away, Terminal
<1>3. SendInv'
  BY DEF TalkInv, SendInv
<1>4. VoiceInv'
  BY DEF TalkInv, VoiceInv, Unstored, Asking
<1>5. TextInv'
  BY DEF TalkInv, TextInv, Unstored, Asking, Tooling
<1> QED BY <1>1, <1>2, <1>3, <1>4, <1>5 DEF TalkInv

LEMMA BeginModelTalk ==
    ASSUME TalkInv, BeginModel
    PROVE  TalkInv'
<1>1. CASE it > MaxIterations
  <2>1. /\ pc = "begin" /\ pc' = "failing" /\ attempt' = attempt /\ troubles' = troubles
        /\ UNCHANGED talk
    BY <1>1, <1>1 DEF BeginModel, Goto, step, budget, world, texts, talk
  <2>2. Flags'
    BY <2>1 DEF TalkInv, Flags, talk
  <2>3. troubles' \in Nat
    BY <2>1 DEF TalkInv, StepTypes
  <2> QED BY <2>1, <2>2, <2>3, ToFailing DEF talk
<1>2. CASE ~(it > MaxIterations)
  <2>1. /\ pc = "begin" /\ pc' = "send" /\ attempt' = 1 /\ sends' = 0 /\ voice' = {}
        /\ row' = [row EXCEPT !.state = "model_pending", !.iteration = it]
        /\ UNCHANGED <<it, declared, lostMark, troubles, crashes, shown, stored, discarded, spliced>>
    BY <1>2 DEF BeginModel, Goto, budget, world, texts
  <2>2. Flags' /\ ~emptied' /\ ~streamed'
    BY <1>2, Zenon DEF BeginModel, TalkInv, Flags, world
  <2>3. it \in 1 .. MaxIterations /\ it = row.iteration + 1 /\ row.iteration \in Nat
    BY <1>2, <2>1, RowFields, Bounds DEF TalkInv, StepTypes, RowInv
  <2>4. row' \in RowSet /\ row'.state = "model_pending" /\ row'.iteration = it
    <3>1. "model_pending" \in RowStates /\ it \in 0 .. MaxIterations
      BY <2>3 DEF RowStates
    <3> QED BY <2>1, <3>1, RowBegin DEF TalkInv, StepTypes
  <2>5. StepTypes'
    BY <2>1, <2>3, <2>4, Bounds DEF TalkInv, StepTypes, Labels, InIteration, Unstored, Asking
  <2>6. RowInv'
    BY <2>1, <2>4 DEF RowInv, InIteration, Unstored, Asking, Tooling, Away, Terminal
  <2>7. SendInv'
    <3>1. Extra' = 0
      BY <2>2 DEF Extra
    <3> QED BY <2>1, <3>1, Bounds DEF SendInv
  <2>8. VoiceInv'
    <3>1. it' \notin shown'
      BY <2>1, <2>3 DEF TalkInv, TextInv
    <3> QED BY <2>1, <2>2, <3>1 DEF VoiceInv
  <2>9. TextInv'
    <3>1. it \notin stored /\ it \notin discarded
      BY <2>3 DEF TalkInv, TextInv
    <3>2. shown \cup stored \cup discarded \subseteq 1 .. it
      BY <2>3 DEF TalkInv, TextInv
    <3>3. /\ spliced = {} /\ discarded \cap stored = {} /\ shown \subseteq stored \cup discarded
      BY <2>1 DEF TalkInv, TextInv
    <3> QED BY <2>1, <2>4, <3>1, <3>2, <3>3 DEF TextInv, Unstored, Asking, Tooling, Resumable
  <2> QED BY <2>2, <2>5, <2>6, <2>7, <2>8, <2>9 DEF TalkInv
<1> QED BY <1>1, <1>2

LEMMA SendTalk ==
    ASSUME TalkInv, Send
    PROVE  TalkInv'
<1>1. /\ pc = "send" /\ pc' = "wait" /\ sends' = sends + 1
      /\ UNCHANGED <<row, it, attempt, emptied, streamed, declared, lostMark, troubles, crashes,
                     voice, shown, stored, discarded, spliced>>
  BY DEF Send, Goto, durable, budget, world, texts
<1>2. sends \in Nat /\ attempt \in Nat /\ attempt <= MaxAttempts
  BY Bounds DEF TalkInv, StepTypes
<1>3. StepTypes'
  BY <1>1, <1>2 DEF TalkInv, StepTypes, Labels, InIteration, Unstored, Asking
<1>4. Flags'
  BY <1>1 DEF TalkInv, Flags
<1>5. RowInv'
  BY <1>1 DEF TalkInv, RowInv, InIteration, Unstored, Asking, Tooling, Terminal
<1>6. SendInv'
  <2>1. Extra' = Extra /\ Extra \in {0, 1}
    BY <1>1 DEF Extra
  <2>2. sends + 1 <= attempt + Extra
    BY <1>1 DEF TalkInv, SendInv
  <2> QED BY <1>1, <1>2, <2>1, <2>2, Bounds DEF SendInv
<1>7. VoiceInv'
  <2>1. ~streamed /\ (streamed <=> voice # {}) /\ (it \in shown => voice # {})
    BY <1>1 DEF TalkInv, VoiceInv, Unstored, Asking
  <2> QED BY <1>1, <2>1 DEF VoiceInv
<1>8. TextInv'
  BY <1>1 DEF TalkInv, TextInv, Unstored, Asking, Tooling
<1> QED BY <1>3, <1>4, <1>5, <1>6, <1>7, <1>8 DEF TalkInv

(* The text of one request does not splice that of another. *)
LEMMA NoSplice ==
    ASSUME TalkInv, pc \in Unstored
    PROVE  Splice = {}
BY DEF TalkInv, VoiceInv, TextInv, Splice

LEMMA DeltaTalk ==
    ASSUME TalkInv, Delta
    PROVE  TalkInv'
<1>1. /\ pc = "wait" /\ pc' = "wait" /\ voice' = voice \cup {sends} /\ shown' = shown \cup {it}
      /\ spliced' = Splice
      /\ UNCHANGED <<row, it, attempt, emptied, declared, lostMark, troubles, crashes, sends,
                     stored, discarded>>
  BY DEF Delta, durable, budget
<1>2. Flags' /\ streamed'
  BY Zenon DEF Delta, TalkInv, Flags
<1>3. StepTypes'
  BY <1>1 DEF TalkInv, StepTypes
<1>4. RowInv'
  BY <1>1 DEF TalkInv, RowInv
<1>5. SendInv'
  <2>1. Extra' = Extra
    BY <1>1 DEF Extra
  <2> QED BY <1>1, <2>1 DEF TalkInv, SendInv
<1>6. VoiceInv'
  <2>1. sends \in 1 .. sends /\ voice \subseteq 1 .. sends /\ voice \subseteq {sends}
    BY <1>1 DEF TalkInv, VoiceInv, SendInv, StepTypes, Unstored, Asking
  <2> QED BY <1>1, <1>2, <2>1 DEF VoiceInv
<1>7. TextInv'
  <2>1. spliced' = {}
    BY <1>1, NoSplice DEF Unstored, Asking
  <2>2. it = row.iteration /\ row.state = "model_pending"
    BY <1>1 DEF TalkInv, RowInv, InIteration, Unstored, Asking
  <2>3. it \in 1 .. row.iteration
    BY <2>2, RowFields DEF TalkInv, StepTypes
  <2>4. /\ shown \cup stored \cup discarded \subseteq 1 .. row.iteration
        /\ discarded \cap stored = {} /\ it \notin stored /\ it \notin discarded
        /\ shown \subseteq stored \cup discarded \cup {it}
    BY <1>1 DEF TalkInv, TextInv, Unstored, Asking
  <2> QED BY <1>1, <2>1, <2>2, <2>3, <2>4 DEF TextInv, Tooling, Resumable
<1> QED BY <1>2, <1>3, <1>4, <1>5, <1>6, <1>7 DEF TalkInv

(* The model step fails: text that went out is marked first. *)
LEMMA ModelFailsTalk ==
    ASSUME TalkInv, pc \in {"send", "wait", "backoff"}, ModelFails,
           UNCHANGED <<row, it, declared, lostMark, troubles, crashes, shown, stored, discarded,
                       spliced>>
    PROVE  TalkInv'
<1>1. /\ attempt' = 1 /\ pc' \in {"mark_failing", "failing"} /\ UNCHANGED <<sends, voice, streamed>>
  BY DEF ModelFails, LeaveModel, Goto
<1>2. Flags'
  BY Zenon DEF ModelFails, LeaveModel, TalkInv, Flags
<1>3. CASE pc' = "failing"
  <2>1. troubles' \in Nat /\ crashes' = crashes
    BY DEF TalkInv, StepTypes
  <2> QED BY <1>1, <1>2, <1>3, <2>1, ToFailing
<1>4. CASE pc' = "mark_failing"
  <2>1. StepTypes'
    BY <1>1, <1>4, Bounds DEF TalkInv, StepTypes, Labels
  <2>2. RowInv'
    BY <1>4 DEF TalkInv, RowInv, InIteration, Unstored, Asking, Tooling, Terminal
  <2>3. SendInv'
    BY <1>1, <1>4 DEF TalkInv, SendInv
  <2>4. VoiceInv'
    BY <1>1, <1>4 DEF TalkInv, VoiceInv, Unstored, Asking
  <2>5. TextInv'
    BY <1>4 DEF TalkInv, TextInv, Unstored, Asking, Tooling
  <2> QED BY <1>2, <2>1, <2>2, <2>3, <2>4, <2>5 DEF TalkInv
<1> QED BY <1>1, <1>3, <1>4

(* A step of the model step that sends nothing and shows nothing. *)
LEMMA AskMoves ==
    ASSUME TalkInv, pc \in {"wait", "backoff"}, pc' \in {"send", "backoff", "model"},
           pc' # "model" => ~streamed, Flags', StepTypes', SendInv',
           UNCHANGED <<row, it, sends, voice, streamed, shown, stored, discarded, spliced>>
    PROVE  TalkInv'
<1>1. RowInv'
  BY DEF TalkInv, RowInv, InIteration, Unstored, Asking, Tooling, Terminal
<1>2. VoiceInv'
  BY DEF TalkInv, VoiceInv, Unstored, Asking
<1>3. TextInv'
  BY DEF TalkInv, TextInv, Unstored, Asking, Tooling
<1> QED BY <1>1, <1>2, <1>3 DEF TalkInv

LEMMA WaitTalk ==
    ASSUME TalkInv,
           \/ TransientError \/ PermanentError \/ Retry \/ DeadlinePasses
           \/ \E r \in Replies : EmptyReply(r) \/ Answer(r)
    PROVE  TalkInv'
<1>1. attempt \in Nat /\ attempt >= 1 /\ attempt <= MaxAttempts /\ sends \in Nat
  BY Bounds DEF TalkInv, StepTypes
<1>2. CASE pc \in {"send", "wait", "backoff"} /\ ModelFails
             /\ UNCHANGED <<durable, it, declared, budget, world>>
  BY <1>2, ModelFailsTalk DEF durable, budget, world, texts
<1>3. ASSUME NEW r \in Replies, EmptyReply(r)
      PROVE  TalkInv'
  <2>1. CASE streamed \/ emptied
    BY <1>2, <1>3, <2>1 DEF EmptyReply
  <2>2. CASE ~(streamed \/ emptied)
    <3>1. /\ pc = "wait" /\ pc' = "send"
          /\ UNCHANGED <<row, it, attempt, streamed, sends, voice, declared, lostMark, troubles,
                         crashes, shown, stored, discarded, spliced>>
      BY <1>3, <2>2 DEF EmptyReply, Goto, durable, budget, world, texts
    <3>2. Flags' /\ emptied'
      BY <1>3, <2>2, Zenon DEF EmptyReply, TalkInv, Flags, world
    <3>3. StepTypes'
      BY <3>1 DEF TalkInv, StepTypes, Labels, InIteration, Unstored, Asking
    <3>4. SendInv'
      <4>1. Extra = 0 /\ Extra' = 1
        BY <2>2, <3>2 DEF Extra
      <4> QED BY <1>1, <3>1, <4>1 DEF TalkInv, SendInv
    <3> QED BY <2>2, <3>1, <3>2, <3>3, <3>4, AskMoves
  <2> QED BY <2>1, <2>2
<1>4. ASSUME NEW r \in Replies, Answer(r)
      PROVE  TalkInv'
  <2>1. /\ pc = "wait" /\ pc' = "model" /\ attempt' = 1
        /\ UNCHANGED <<row, it, streamed, sends, voice, declared, lostMark, troubles, crashes,
                       shown, stored, discarded, spliced>>
    BY <1>4 DEF Answer, LeaveModel, Goto, durable, budget, world, texts
  <2>2. Flags'
    BY <1>4, Zenon DEF Answer, LeaveModel, TalkInv, Flags, world
  <2>3. StepTypes'
    BY <2>1, Bounds DEF TalkInv, StepTypes, Labels, InIteration, Unstored, Asking
  <2>4. SendInv'
    BY <2>1 DEF TalkInv, SendInv
  <2> QED BY <2>1, <2>2, <2>3, <2>4, AskMoves
<1>5. CASE TransientError
  <2>1. CASE ModelFails
    BY <1>2, <1>5, <2>1 DEF TransientError
  <2>2. CASE ~streamed /\ attempt < MaxAttempts /\ Goto("backoff") /\ UNCHANGED step
    <3>1. pc = "wait" /\ pc' = "backoff" /\ UNCHANGED talk
      BY <1>5, <2>2 DEF TransientError, Goto, step, durable, budget, world, texts, talk
    <3>2. Flags' /\ StepTypes'
      BY <3>1 DEF TalkInv, Flags, StepTypes, Labels, InIteration, Unstored, Asking, talk
    <3>3. SendInv'
      <4>1. Extra' = Extra
        BY <3>1 DEF Extra, talk
      <4> QED BY <2>2, <3>1, <4>1 DEF TalkInv, SendInv, talk
    <3> QED BY <2>2, <3>1, <3>2, <3>3, AskMoves DEF talk
  <2> QED BY <1>5, <2>1, <2>2 DEF TransientError
<1>6. CASE PermanentError
  BY <1>2, <1>6 DEF PermanentError
<1>7. CASE DeadlinePasses
  BY <1>2, <1>7 DEF DeadlinePasses
<1>8. CASE Retry
  <2>1. /\ pc = "backoff" /\ pc' = "send" /\ attempt' = attempt + 1
        /\ UNCHANGED <<row, it, emptied, streamed, sends, voice, declared, lostMark, troubles,
                       crashes, shown, stored, discarded, spliced>>
    BY <1>8 DEF Retry, Goto, durable, budget, world, texts
  <2>2. Flags'
    BY <2>1 DEF TalkInv, Flags
  <2>3. attempt < MaxAttempts /\ ~streamed
    BY <2>1 DEF TalkInv, SendInv, VoiceInv
  <2>4. StepTypes'
    BY <1>1, <2>1, <2>3, Bounds DEF TalkInv, StepTypes, Labels, InIteration, Unstored, Asking
  <2>5. SendInv'
    <3>1. Extra' = Extra /\ Extra \in {0, 1}
      BY <2>1 DEF Extra
    <3> QED BY <1>1, <2>1, <3>1 DEF TalkInv, SendInv
  <2> QED BY <2>1, <2>2, <2>3, <2>4, <2>5, AskMoves
<1> QED BY <1>3, <1>4, <1>5, <1>6, <1>7, <1>8

(* A reply is taken up: its calls run, it ends the turn, or it is discarded. *)
LEMMA CompleteModelTalk ==
    ASSUME TalkInv, CompleteModel
    PROVE  TalkInv'
<1>1. /\ pc = "model" /\ row' = [row EXCEPT !.state = "model_completed"]
      /\ UNCHANGED <<attempt, emptied, streamed, sends, voice, lostMark, troubles, crashes, shown,
                     stored, spliced>>
  BY DEF CompleteModel, step, budget
<1>2. row' \in RowSet /\ row'.state = "model_completed" /\ row'.iteration = row.iteration
  <2>1. "model_completed" \in RowStates
    BY DEF RowStates
  <2> QED BY <1>1, <2>1, RowState DEF TalkInv, StepTypes
<1>3. Flags'
  BY Zenon DEF CompleteModel, TalkInv, Flags, step
<1>4. /\ it = row.iteration /\ row.iteration \in Nat /\ it \in 1 .. row.iteration
      /\ row.iteration <= MaxIterations
  BY <1>1, RowFields DEF TalkInv, RowInv, StepTypes, InIteration, Unstored, Asking
<1>5. SendInv'
  <2>1. pc' \notin {"send", "wait", "backoff"}
    BY DEF CompleteModel, NextIteration, Goto
  <2> QED BY <1>1, <2>1 DEF TalkInv, SendInv
<1>6. /\ shown \cup stored \cup discarded \subseteq 1 .. row.iteration
      /\ spliced = {} /\ discarded \cap stored = {} /\ it \notin stored /\ it \notin discarded
      /\ shown \subseteq stored \cup discarded \cup {it}
  BY <1>1 DEF TalkInv, TextInv, Unstored, Asking
<1>7. /\ voice \subseteq 1 .. sends /\ (streamed <=> voice # {}) /\ voice \subseteq {sends}
      /\ it \in shown => voice # {}
  BY <1>1 DEF TalkInv, VoiceInv, Unstored, Asking
<1>8. CASE pc' \in {"begin_tools", "failing", "final"} /\ UNCHANGED <<it, discarded>>
  <2>1. StepTypes'
    BY <1>1, <1>2, <1>8 DEF TalkInv, StepTypes, Labels, InIteration, Unstored, Away
  <2>2. RowInv'
    BY <1>2, <1>4, <1>8 DEF RowInv, InIteration, Unstored, Asking, Tooling, Terminal
  <2>3. VoiceInv'
    BY <1>1, <1>7, <1>8 DEF VoiceInv
  <2>4. TextInv'
    BY <1>1, <1>2, <1>6, <1>8 DEF TextInv, Asking, Tooling, Resumable
  <2> QED BY <1>3, <1>5, <2>1, <2>2, <2>3, <2>4 DEF TalkInv
<1>9. CASE pc' = "begin" /\ it' = it + 1
             /\ discarded' = IF streamed THEN discarded \cup {it} ELSE discarded
  <2>1. StepTypes'
    BY <1>1, <1>2, <1>4, <1>9, Bounds DEF TalkInv, StepTypes, Labels
  <2>2. RowInv'
    BY <1>2, <1>4, <1>9 DEF RowInv, InIteration, Unstored, Asking, Tooling
  <2>3. VoiceInv'
    BY <1>1, <1>7, <1>9 DEF VoiceInv, Unstored, Asking
  <2>4. TextInv'
    <3>1. shown \subseteq stored \cup discarded'
      BY <1>6, <1>7, <1>9
    <3>2. discarded' \subseteq 1 .. row.iteration /\ discarded' \cap stored = {}
      BY <1>4, <1>6, <1>9
    <3> QED BY <1>1, <1>2, <1>6, <1>9, <3>1, <3>2 DEF TextInv, Unstored, Asking, Tooling, Resumable
  <2> QED BY <1>3, <1>5, <2>1, <2>2, <2>3, <2>4 DEF TalkInv
<1> QED BY <1>8, <1>9 DEF CompleteModel, NextIteration, Goto

LEMMA PhaseTalk ==
    ASSUME TalkInv, BeginTools \/ CompleteTools \/ CommitStaged
    PROVE  TalkInv'
<1>1. "tools_pending" \in RowStates /\ "tools_completed" \in RowStates /\ row \in RowSet
  BY DEF RowStates, Resumable, TalkInv, StepTypes
<1>2. CASE BeginTools
  <2>1. /\ pc = "begin_tools" /\ pc' = "mark_tools" /\ row' = [row EXCEPT !.state = "tools_pending"]
        /\ UNCHANGED <<it, attempt, emptied, streamed, declared, sends, voice, shown, stored,
                       discarded, spliced, lostMark, troubles, crashes>>
    BY <1>2 DEF BeginTools, Goto, step, budget, world, texts
  <2>2. row' \in RowSet /\ row'.state = "tools_pending" /\ row'.iteration = row.iteration
    BY <1>1, <2>1, RowState
  <2>3. StepTypes' /\ Flags'
    BY <2>1, <2>2 DEF TalkInv, StepTypes, Flags, Labels, InIteration, Unstored
  <2>4. RowInv'
    BY <2>1, <2>2 DEF TalkInv, RowInv, InIteration, Unstored, Asking, Tooling, Terminal
  <2>5. SendInv'
    BY <2>1 DEF TalkInv, SendInv
  <2>6. VoiceInv'
    BY <2>1 DEF TalkInv, VoiceInv, Unstored, Asking
  <2>7. TextInv'
    BY <2>1, <2>2 DEF TalkInv, TextInv, Unstored, Asking, Tooling, Resumable
  <2> QED BY <2>3, <2>4, <2>5, <2>6, <2>7 DEF TalkInv
<1>3. CASE CompleteTools
  <2>1. /\ pc = "complete_tools" /\ pc' = "staged" /\ row' = [row EXCEPT !.state = "tools_completed"]
        /\ UNCHANGED <<it, attempt, emptied, streamed, declared, sends, voice, shown, stored,
                       discarded, spliced, lostMark, troubles, crashes>>
    BY <1>3 DEF CompleteTools, Goto, step, budget, world, texts
  <2>2. row' \in RowSet /\ row'.state = "tools_completed" /\ row'.iteration = row.iteration
    BY <1>1, <2>1, RowState
  <2>3. StepTypes' /\ Flags'
    BY <2>1, <2>2 DEF TalkInv, StepTypes, Flags, Labels, InIteration
  <2>4. RowInv'
    <3>1. it = row.iteration /\ row.iteration > 0
      BY <2>1, RowFields DEF TalkInv, RowInv, InIteration, Tooling, StepTypes
    <3> QED BY <2>1, <2>2, <3>1 DEF RowInv, InIteration, Unstored, Asking, Tooling, Terminal
  <2>5. SendInv'
    BY <2>1 DEF TalkInv, SendInv
  <2>6. VoiceInv'
    BY <2>1 DEF TalkInv, VoiceInv, Unstored, Asking
  <2>7. TextInv'
    BY <2>1, <2>2 DEF TalkInv, TextInv, Unstored, Asking, Tooling, Resumable
  <2> QED BY <2>3, <2>4, <2>5, <2>6, <2>7 DEF TalkInv
<1>4. CASE CommitStaged
  <2>1. /\ pc = "staged" /\ pc' = "begin" /\ it' = it + 1
        /\ UNCHANGED <<row, attempt, emptied, streamed, sends, voice, shown, stored,
                       discarded, spliced, lostMark, troubles, crashes>>
    BY <1>4 DEF CommitStaged, NextIteration, Goto, durable, step, budget, world, texts
  <2>2. Flags'
    BY <1>4, <2>1, Zenon DEF CommitStaged, TalkInv, Flags
  <2>3. it = row.iteration /\ row.iteration \in 0 .. MaxIterations /\ row.state = "tools_completed"
    BY <1>1, <2>1, RowFields DEF TalkInv, RowInv, InIteration
  <2>4. StepTypes'
    BY <2>1, <2>3, Bounds DEF TalkInv, StepTypes, Labels
  <2>5. RowInv'
    BY <2>1, <2>3 DEF TalkInv, RowInv, InIteration, Unstored, Asking, Tooling, Terminal
  <2>6. SendInv'
    BY <2>1 DEF TalkInv, SendInv
  <2>7. VoiceInv'
    BY <2>1 DEF TalkInv, VoiceInv, Unstored, Asking
  <2>8. TextInv'
    BY <2>1 DEF TalkInv, TextInv, Unstored, Asking, Tooling, Resumable
  <2> QED BY <2>2, <2>4, <2>5, <2>6, <2>7, <2>8 DEF TalkInv
<1> QED BY <1>2, <1>3, <1>4

(* What mark_output_published does to the row. *)
LEMMA MarkEffect ==
    ASSUME row \in RowSet, Mark
    PROVE  /\ row' \in RowSet /\ row'.state = row.state /\ row'.iteration = row.iteration
           /\ row'.published \/ lostMark'
           /\ row.published => row'.published
           /\ lostMark => lostMark'
           /\ \/ pc = "mark_tools" /\ pc' = "call"
              \/ pc = "mark_final" /\ pc' = "complete"
              \/ pc = "mark_failing" /\ pc' = "failing"
<1>1. \/ pc = "mark_tools" /\ pc' = "call"
      \/ pc = "mark_final" /\ pc' = "complete"
      \/ pc = "mark_failing" /\ pc' = "failing"
  BY DEF Mark, AfterMark, Goto
<1>2. CASE row' = [row EXCEPT !.published = TRUE] /\ UNCHANGED lostMark
  <2>1. row' \in RowSet /\ row'.state = row.state /\ row'.iteration = row.iteration
          /\ row'.published = TRUE
    BY <1>2 DEF RowSet
  <2> QED BY <1>1, <1>2, <2>1
<1>3. CASE lostMark' = TRUE /\ UNCHANGED row
  BY <1>1, <1>3
<1> QED BY <1>2, <1>3 DEF Mark

LEMMA MarkTalk ==
    ASSUME TalkInv, Mark
    PROVE  TalkInv'
<1>1. row' \in RowSet /\ row'.state = row.state /\ row'.iteration = row.iteration
  BY MarkEffect DEF TalkInv, StepTypes
<1>2. \/ pc = "mark_tools" /\ pc' = "call"
      \/ pc = "mark_final" /\ pc' = "complete"
      \/ pc = "mark_failing" /\ pc' = "failing"
  BY MarkEffect DEF TalkInv, StepTypes
<1>3. UNCHANGED <<it, attempt, emptied, streamed, declared, sends, voice, shown, stored, discarded,
                  spliced, crashes>>
  BY DEF Mark, step, texts
<1>4. Flags'
  BY <1>3, Zenon DEF Mark, TalkInv, Flags
<1>5. troubles' \in Nat
  BY DEF Mark, TalkInv, StepTypes
<1>6. StepTypes'
  BY <1>1, <1>2, <1>3, <1>5 DEF TalkInv, StepTypes, Labels, InIteration, Unstored, Away
<1>7. RowInv'
  BY <1>1, <1>2, <1>3 DEF TalkInv, RowInv, InIteration, Unstored, Asking, Tooling, Terminal
<1>8. SendInv'
  BY <1>2, <1>3 DEF TalkInv, SendInv
<1>9. VoiceInv'
  BY <1>2, <1>3 DEF TalkInv, VoiceInv, Unstored, Asking
<1>10. TextInv'
  BY <1>1, <1>2, <1>3 DEF TalkInv, TextInv, Unstored, Asking, Tooling, Resumable
<1> QED BY <1>4, <1>6, <1>7, <1>8, <1>9, <1>10 DEF TalkInv

LEMMA PersistTalk ==
    ASSUME TalkInv, PersistCall \/ PersistFinal
    PROVE  TalkInv'
<1>1. /\ \/ pc = "call" /\ pc' = "run"
         \/ pc = "final" /\ pc' = "mark_final"
      /\ stored' = stored \cup {it} /\ spliced' = Splice
      /\ UNCHANGED <<row, it, attempt, emptied, streamed, declared, sends, voice, shown, discarded,
                     lostMark, troubles, crashes>>
  BY DEF PersistCall, PersistFinal, StoreReply, Goto, durable, step, budget
<1>2. StepTypes' /\ Flags'
  BY <1>1 DEF TalkInv, StepTypes, Flags, Labels, InIteration, Tooling
<1>3. RowInv'
  BY <1>1 DEF TalkInv, RowInv, InIteration, Unstored, Asking, Tooling, Terminal
<1>4. SendInv'
  BY <1>1 DEF TalkInv, SendInv
<1>5. VoiceInv'
  BY <1>1 DEF TalkInv, VoiceInv, Unstored, Asking
<1>6. TextInv'
  <2>1. spliced' = {}
    BY <1>1, NoSplice DEF Unstored
  <2>2. it = row.iteration /\ it \in 1 .. row.iteration
    BY <1>1, RowFields DEF TalkInv, RowInv, StepTypes, InIteration, Unstored
  <2>3. /\ shown \cup stored \cup discarded \subseteq 1 .. row.iteration
        /\ discarded \cap stored = {} /\ it \notin discarded
        /\ shown \subseteq stored \cup discarded \cup {it}
    BY <1>1 DEF TalkInv, TextInv, Unstored
  <2>4. shown \subseteq stored' \cup discarded /\ discarded \cap stored' = {}
          /\ stored' \subseteq 1 .. row.iteration
    BY <1>1, <2>2, <2>3
  <2> QED BY <1>1, <2>1, <2>3, <2>4 DEF TextInv, Unstored, Asking
<1> QED BY <1>2, <1>3, <1>4, <1>5, <1>6 DEF TalkInv

(* An executor ends, with the row in a state that is right for its texts. *)
LEMMA ForgetTalk ==
    ASSUME TalkInv, Forget, pc' \in {"idle", "down"}, row' \in RowSet,
           row'.iteration = row.iteration,
           \/ row'.state \in {row.state, "failed", "uncertain"}
           \/ pc = "complete" /\ row'.state = "completed",
           UNCHANGED <<shown, stored, discarded, spliced, lostMark>>,
           troubles' \in Nat, crashes' \in Nat
    PROVE  TalkInv'
<1>1. it' = 1 /\ attempt' = 1 /\ sends' = 0 /\ voice' = {}
  BY DEF Forget
<1>2. Flags'
  BY Zenon DEF Forget, TalkInv, Flags
<1>3. StepTypes'
  BY <1>1, Bounds DEF StepTypes, Labels, Away
<1>4. RowInv'
  BY DEF TalkInv, RowInv, InIteration, Unstored, Asking, Tooling, Terminal
<1>5. SendInv'
  BY <1>1, Bounds DEF SendInv
<1>6. VoiceInv'
  BY <1>1 DEF VoiceInv, Unstored, Asking
<1>7. TextInv'
  BY DEF TalkInv, TextInv, Unstored, Asking, Tooling, Resumable
<1> QED BY <1>2, <1>3, <1>4, <1>5, <1>6, <1>7 DEF TalkInv

LEMMA EndTalk ==
    ASSUME TalkInv, CompleteTurn \/ Fail \/ Crash
    PROVE  TalkInv'
<1>1. row \in RowSet /\ troubles \in Nat /\ crashes \in Nat
      /\ {"completed", "failed", "uncertain"} \subseteq RowStates
  BY DEF TalkInv, StepTypes, RowStates, Terminal
<1>2. CASE CompleteTurn
  <2>1. /\ pc = "complete" /\ pc' = "idle" /\ Forget /\ row' = [row EXCEPT !.state = "completed"]
        /\ UNCHANGED <<shown, stored, discarded, spliced, lostMark, troubles, crashes>>
    BY <1>2 DEF CompleteTurn, Goto, budget, world, texts
  <2>2. row' \in RowSet /\ row'.iteration = row.iteration /\ row'.state = "completed"
    BY <1>1, <2>1, RowState
  <2> QED BY <1>1, <2>1, <2>2, ForgetTalk
<1>3. CASE Fail
  <2>1. /\ pc' = "idle" /\ Forget /\ troubles' \in Nat
        /\ UNCHANGED <<shown, stored, discarded, spliced, lostMark, crashes>>
    BY <1>1, <1>3 DEF Fail, Goto, world, texts
  <2>2. CASE row' = row
    <3>1. row' \in RowSet /\ row'.iteration = row.iteration /\ row'.state = row.state
      BY <1>1, <2>2
    <3> QED BY <1>1, <2>1, <3>1, ForgetTalk
  <2>3. CASE row' = [row EXCEPT !.state = IF row.published THEN "uncertain" ELSE "failed"]
    <3> DEFINE s == IF row.published THEN "uncertain" ELSE "failed"
    <3>1. s \in {"failed", "uncertain"} /\ s \in RowStates
      BY <1>1
    <3>2. row' \in RowSet /\ row'.iteration = row.iteration /\ row'.state = s
      <4> HIDE DEF s
      <4>1. row' = [row EXCEPT !.state = s]
        BY <2>3 DEF s
      <4> QED BY <1>1, <3>1, <4>1, RowState
    <3> QED BY <1>1, <2>1, <3>1, <3>2, ForgetTalk
  <2> QED BY <1>3, <2>2, <2>3 DEF Fail
<1>4. CASE Crash
  <2>1. /\ pc' = "down" /\ Forget /\ crashes' = crashes + 1
        /\ UNCHANGED <<row, shown, stored, discarded, spliced, lostMark, troubles>>
    BY <1>4 DEF Crash, Goto, durable, world, texts
  <2>2. /\ row' \in RowSet /\ row'.iteration = row.iteration /\ row'.state = row.state
        /\ crashes' \in Nat /\ troubles' \in Nat
    BY <1>1, <2>1
  <2> QED BY <2>1, <2>2, ForgetTalk
<1> QED BY <1>2, <1>3, <1>4

LEMMA RecoverTalk ==
    ASSUME TalkInv, RecoverRunningTools \/ RecoverInterruptedTurns \/ Resume
    PROVE  TalkInv'
<1>1. UNCHANGED <<attempt, emptied, streamed, declared, sends, voice, shown, stored, discarded,
                  spliced, lostMark, troubles, crashes>>
  BY DEF RecoverRunningTools, RecoverInterruptedTurns, Resume, step, budget, world, texts
<1>2. Flags'
  BY <1>1 DEF TalkInv, Flags
<1>3. row \in RowSet /\ "uncertain" \in RowStates
  BY DEF TalkInv, StepTypes, RowStates, Terminal
<1>4. CASE RecoverRunningTools \/ RecoverInterruptedTurns
  <2>1. pc' \in {"recover_turns", "idle"} /\ it' = it
    BY <1>4 DEF RecoverRunningTools, RecoverInterruptedTurns, Goto
  <2>2. /\ row' \in RowSet /\ row'.iteration = row.iteration
        /\ row'.state \in {row.state, "uncertain"}
    <3>1. row' = row \/ row' = [row EXCEPT !.state = "uncertain"]
      BY <1>4 DEF RecoverRunningTools, RecoverInterruptedTurns
    <3> QED BY <1>3, <3>1, RowState
  <2>3. StepTypes'
    BY <1>1, <2>1, <2>2 DEF TalkInv, StepTypes, Labels, Away
  <2>4. RowInv'
    BY <2>1, <2>2 DEF TalkInv, RowInv, InIteration, Unstored, Asking, Tooling, Terminal
  <2>5. SendInv'
    BY <1>1, <2>1 DEF TalkInv, SendInv
  <2>6. VoiceInv'
    BY <1>1, <2>1 DEF TalkInv, VoiceInv, Unstored, Asking
  <2>7. TextInv'
    BY <1>1, <2>1, <2>2 DEF TalkInv, TextInv, Unstored, Asking, Tooling, Resumable
  <2> QED BY <1>2, <2>3, <2>4, <2>5, <2>6, <2>7 DEF TalkInv
<1>5. CASE Resume
  <2>1. row' = row
    BY <1>5 DEF Resume, durable
  <2>2. /\ \/ row.state = "input_committed" /\ it' = 1 /\ pc' = "begin"
           \/ row.state = "tools_completed" /\ it' = row.iteration /\ pc' = "staged"
    BY <1>5 DEF Resume, Goto
  <2>3. /\ row.iteration \in 0 .. MaxIterations
        /\ row.state = "input_committed" => row.iteration = 0
        /\ row.state = "tools_completed" => row.iteration > 0
    BY <1>3, RowFields DEF TalkInv, RowInv
  <2>4. StepTypes'
    BY <1>1, <2>1, <2>2, <2>3, Bounds DEF TalkInv, StepTypes, Labels, InIteration
  <2>5. RowInv'
    BY <2>1, <2>2, <2>3 DEF RowInv, InIteration, Unstored, Asking, Tooling, Terminal
  <2>6. SendInv'
    BY <1>1, <2>2 DEF TalkInv, SendInv
  <2>7. VoiceInv'
    BY <1>1, <2>2 DEF TalkInv, VoiceInv, Unstored, Asking
  <2>8. TextInv'
    BY <1>1, <2>1, <2>2 DEF TalkInv, TextInv, Unstored, Asking, Tooling, Resumable
  <2> QED BY <1>2, <2>4, <2>5, <2>6, <2>7, <2>8 DEF TalkInv
<1> QED BY <1>4, <1>5

LEMMA StorageFailsTalk ==
    ASSUME TalkInv, StorageFails
    PROVE  TalkInv'
<1>1. /\ WritesNow /\ pc' = "failing" /\ troubles' = troubles + 1 /\ attempt' = attempt
      /\ UNCHANGED <<row, it, streamed, declared, sends, voice, shown, stored, discarded, spliced>>
      /\ UNCHANGED <<crashes, emptied, lostMark>>
  BY DEF StorageFails, Goto, durable, step, world, texts
<1>2. pc \notin {"idle", "down", "recover_turns"}
  BY <1>1 DEF WritesNow
<1>3. Flags' /\ troubles' \in Nat
  BY <1>1 DEF TalkInv, Flags, StepTypes
<1> QED BY <1>1, <1>2, <1>3, ToFailing

(* The steps of the tool phase leave the row and the texts alone. *)
ToolStep ==
    Reject \/ Invalid \/ Claim \/ Effect \/ Record \/ ReadBlock \/ RecordBlock \/ PersistResults

LEMMA ToolStepTalk ==
    ASSUME ToolStep
    PROVE  pc \in Tooling /\ pc' \in Tooling \cup {"failing"} /\ UNCHANGED talk
<1> USE DEF Goto, durable, step, budget, world, texts, talk, Tooling
<1>1. CASE Reject \/ Invalid
  BY <1>1 DEF Reject, Invalid, Running
<1>2. CASE Claim
  BY <1>2 DEF Claim, Running
<1>3. CASE Effect \/ Record
  BY <1>3 DEF Effect, Record
<1>4. CASE ReadBlock
  BY <1>4 DEF ReadBlock, Running
<1>5. CASE RecordBlock
  BY <1>5 DEF RecordBlock
<1>6. CASE PersistResults
  BY <1>6 DEF PersistResults
<1> QED BY <1>1, <1>2, <1>3, <1>4, <1>5, <1>6 DEF ToolStep

LEMMA StutterTalk ==
    ASSUME TalkInv, UNCHANGED vars
    PROVE  TalkInv'
<1> USE DEF vars, durable, step, budget, world, texts
<1>1. StepTypes' /\ Flags'
  BY DEF TalkInv, StepTypes, Flags
<1>2. RowInv'
  BY DEF TalkInv, RowInv
<1>3. SendInv'
  <2>1. Extra' = Extra
    BY DEF Extra
  <2> QED BY <2>1 DEF TalkInv, SendInv
<1>4. VoiceInv'
  BY DEF TalkInv, VoiceInv
<1>5. TextInv'
  BY DEF TalkInv, TextInv
<1> QED BY <1>1, <1>2, <1>3, <1>4, <1>5 DEF TalkInv

LEMMA TalkStep == TalkInv /\ [Next]_vars => TalkInv'
<1> SUFFICES ASSUME TalkInv, [Next]_vars
             PROVE  TalkInv'
  OBVIOUS
<1>1. CASE ToolStep
  BY <1>1, ToolStepTalk, ToolMoves
<1>2. CASE Executor
  BY <1>1, <1>2, BeginModelTalk, SendTalk, WaitTalk, CompleteModelTalk, PhaseTalk, MarkTalk,
     PersistTalk, EndTalk, RecoverTalk
     DEF Executor, ToolStep
<1>3. CASE Provider
  BY <1>3, DeltaTalk, WaitTalk DEF Provider
<1>4. CASE DeadlinePasses \/ StorageFails \/ Crash
  BY <1>4, WaitTalk, StorageFailsTalk, EndTalk
<1>5. CASE UNCHANGED vars
  BY <1>5, StutterTalk
<1> QED BY <1>2, <1>3, <1>4, <1>5 DEF Next, Settled

LEMMA TalkInit == Init => TalkInv
<1> SUFFICES ASSUME Init
             PROVE  TalkInv
  OBVIOUS
<1>1. /\ row = [state |-> "input_committed", iteration |-> 0, published |-> FALSE]
      /\ pc = "begin" /\ it = 1 /\ attempt = 1 /\ sends = 0 /\ troubles = 0 /\ crashes = 0
      /\ voice = {} /\ shown = {} /\ stored = {} /\ discarded = {} /\ spliced = {}
  BY DEF Init
<1>2. Flags
  BY Zenon DEF Init, Flags
<1>3. row \in RowSet /\ row.state = "input_committed" /\ row.iteration = 0
  BY <1>1, Bounds DEF RowSet, RowStates, Resumable
<1>4. StepTypes
  BY <1>1, <1>3, Bounds DEF StepTypes, Labels
<1>5. RowInv
  BY <1>1, <1>3 DEF RowInv, InIteration, Unstored, Asking, Tooling, Terminal
<1>6. SendInv
  BY <1>1, Bounds DEF SendInv
<1>7. VoiceInv
  BY <1>1 DEF VoiceInv, Unstored, Asking
<1>8. TextInv
  BY <1>1 DEF TextInv, Unstored, Asking, Tooling
<1> QED BY <1>2, <1>4, <1>5, <1>6, <1>7, <1>8 DEF TalkInv

(* What a client is shown: the text under a message id is that of one       *)
(* request though requests are retried after errors and empty replies and   *)
(* executors are resumed; a completed Turn has stored or discarded all of   *)
(* it; and no iteration sends more than one request over MAX_LLM_RETRIES.   *)
THEOREM TextIsAccountedFor == Spec => []TextAccountedFor
<1>1. TalkInv => TextAccountedFor
  BY DEF TalkInv, TextInv, SendInv, TextAccountedFor, OneVoice, ShownIsAccountedFor, SendsBounded
<1> QED BY <1>1, TalkInit, TalkStep, PTL DEF Spec

-----------------------------------------------------------------------------
(* filter_valid_tool_calls.                                                 *)

LEMMA NatMin ==
    ASSUME NEW T \in SUBSET Nat, T # {}
    PROVE  \E x \in T : \A y \in T : x <= y
<1> DEFINE R == OpToRel(<, Nat)
<1>1. IsWellFoundedOn(R, Nat)
  BY NatLessThanWellFounded
<1>2. PICK x \in T : \A y \in T : ~(<<y, x>> \in R)
  <2> HIDE DEF R
  <2> QED BY <1>1, WFMin
<1>3. \A y \in T : ~(y < x)
  BY <1>2 DEF OpToRel
<1> QED BY <1>3

LEMMA MaxOfSome ==
    ASSUME NEW n \in Nat, NEW T \in SUBSET (1 .. n), T # {}
    PROVE  Max(T) \in T
<1> DEFINE D == {n - y : y \in T}
<1>1. D \in SUBSET Nat /\ D # {}
  <2>1. \A y \in T : n - y \in Nat
    OBVIOUS
  <2> QED BY <2>1
<1>2. PICK d \in D : \A e \in D : d <= e
  <2> HIDE DEF D
  <2> QED BY <1>1, NatMin
<1>3. PICK x \in T : d = n - x
  OBVIOUS
<1>4. \A y \in T : x >= y
  <2> TAKE y \in T
  <2>1. n - y \in D
    OBVIOUS
  <2>2. n - x <= n - y
    BY <1>2, <1>3, <2>1
  <2> QED BY <2>2
<1> QED BY <1>4 DEF Max

(* Every position up to the number of elements is that of some element. *)
LEMMA NthExists ==
    ASSUME NEW n \in Nat, NEW F \in SUBSET (1 .. n), NEW m \in 1 .. Cardinality(F)
    PROVE  \E i \in F : Cardinality({j \in F : j < i}) = m - 1
<1> DEFINE U(x) == {j \in F : j < x}
           T == {x \in 1 .. n + 1 : Cardinality(U(x)) >= m}
<1>0. \A j \in F : j \in Nat /\ 1 <= j /\ j <= n
  OBVIOUS
<1>1. IsFiniteSet(F) /\ Cardinality(F) \in Nat
  <2>1. IsFiniteSet(1 .. n)
    BY FS_Interval
  <2> QED BY <2>1, FS_Subset, FS_CardinalityType
<1>2. ASSUME NEW x
      PROVE  IsFiniteSet(U(x)) /\ Cardinality(U(x)) \in Nat
  BY <1>1, FS_Subset, FS_CardinalityType
<1>3. T \in SUBSET Nat
  OBVIOUS
<1>4. n + 1 \in T
  <2>1. \A j \in F : j < n + 1
    BY <1>0
  <2>2. U(n + 1) = F
    BY <2>1
  <2> HIDE DEF U
  <2> QED BY <1>1, <2>2
<1>5. PICK x \in T : \A y \in T : x <= y
  <2> HIDE DEF T
  <2> QED BY <1>3, <1>4, NatMin
<1>6. x \in 1 .. n + 1 /\ Cardinality(U(x)) >= m
  OBVIOUS
<1>7. x # 1
  <2>1. \A j \in F : ~(j < 1)
    BY <1>0
  <2>2. U(1) = {}
    BY <2>1
  <2>3. Cardinality(U(1)) = 0
    BY <2>2, FS_EmptySet
  <2> HIDE DEF U
  <2> QED BY <1>6, <2>3
<1>8. x - 1 \in 1 .. n + 1 /\ x - 1 \notin T
  <2>1. x - 1 \in 1 .. n + 1 /\ ~(x <= x - 1)
    BY <1>6, <1>7
  <2> HIDE DEF T
  <2> QED BY <1>5, <2>1
<1>9. Cardinality(U(x - 1)) < m
  <2> HIDE DEF U
  <2>1. Cardinality(U(x - 1)) \in Nat
    BY <1>2
  <2> QED BY <1>8, <2>1
<1>10. U(x) = IF x - 1 \in F THEN U(x - 1) \cup {x - 1} ELSE U(x - 1)
  <2>1. \A j \in F : j < x <=> j < x - 1 \/ j = x - 1
    BY <1>0, <1>6
  <2> QED BY <2>1
<1>11. x - 1 \notin U(x - 1)
  BY <1>6
<1> HIDE DEF U
<1>12. x - 1 \in F
  BY <1>2, <1>6, <1>9, <1>10
<1>13. Cardinality(U(x)) = Cardinality(U(x - 1)) + 1
  <2>1. U(x) = U(x - 1) \cup {x - 1}
    BY <1>10, <1>12
  <2> QED BY <1>2, <1>11, <2>1, FS_AddElement
<1>14. Cardinality(U(x - 1)) = m - 1
  BY <1>2, <1>6, <1>9, <1>13
<1> QED BY <1>12, <1>14 DEF U

(* The calls of a model step are well-formed, at most as many as the         *)
(* provider sent, and have an id each.                                       *)
LEMMA FilterProperties ==
    ASSUME NEW n \in Nat, NEW cs \in [1 .. n -> Calls]
    PROVE  /\ FilterValid(cs) \in Seq(GoodCalls) /\ Len(FilterValid(cs)) <= n
           /\ \A j, k \in 1 .. Len(FilterValid(cs)) :
                  FilterValid(cs)[j].id = FilterValid(cs)[k].id => j = k
<1> DEFINE good == {i \in 1 .. n : cs[i].id # NoId}
           Twins(i) == {j \in good : cs[j].id = cs[i].id}
           firsts == {i \in good : \A j \in Twins(i) : i <= j}
           K == Cardinality(firsts)
           Nth(m) == CHOOSE i \in firsts : Cardinality({j \in firsts : j < i}) = m - 1
           Like(m) == Max(Twins(Nth(m)))
<1>1. firsts \in SUBSET (1 .. n) /\ good \in SUBSET (1 .. n)
  OBVIOUS
<1>2. K \in Nat /\ K <= n
  <2>1. IsFiniteSet(1 .. n) /\ Cardinality(1 .. n) = IF 1 > n THEN 0 ELSE n - 1 + 1
    BY FS_Interval
  <2>2. Cardinality(1 .. n) = n
    BY <2>1
  <2> HIDE DEF firsts
  <2> QED BY <1>1, <2>1, <2>2, FS_Subset, FS_CardinalityType
<1>3. ASSUME NEW m \in 1 .. K
      PROVE  Nth(m) \in firsts /\ Cardinality({j \in firsts : j < Nth(m)}) = m - 1
  <2> HIDE DEF firsts
  <2> QED BY <1>1, NthExists
<1>4. ASSUME NEW m \in 1 .. K
      PROVE  /\ Like(m) \in 1 .. n /\ cs[Like(m)].id = cs[Nth(m)].id /\ cs[Nth(m)].id # NoId
  <2>1. Nth(m) \in firsts
    BY <1>3
  <2> HIDE DEF Nth
  <2>2. Nth(m) \in good /\ Nth(m) \in Twins(Nth(m)) /\ Twins(Nth(m)) \in SUBSET (1 .. n)
    BY <2>1
  <2>3. Like(m) \in Twins(Nth(m))
    <3> HIDE DEF Twins
    <3> QED BY <2>2, MaxOfSome
  <2> HIDE DEF Like
  <2> QED BY <2>2, <2>3
<1>5. ASSUME NEW j \in 1 .. K, NEW k \in 1 .. K, cs[Nth(j)].id = cs[Nth(k)].id
      PROVE  j = k
  <2>1. Nth(j) \in firsts /\ Nth(k) \in firsts
    BY <1>3
  <2>2. /\ Cardinality({i \in firsts : i < Nth(j)}) = j - 1
        /\ Cardinality({i \in firsts : i < Nth(k)}) = k - 1
    BY <1>3
  <2> HIDE DEF Nth
  <2>3. Nth(j) \in Nat /\ Nth(k) \in Nat /\ Nth(j) <= Nth(k) /\ Nth(k) <= Nth(j)
    BY <1>5, <2>1
  <2>4. Nth(j) = Nth(k)
    BY <2>3
  <2> HIDE DEF firsts
  <2> QED BY <1>2, <2>2, <2>4
<1>6. DOMAIN cs = 1 .. n
  OBVIOUS
<1>7. FilterValid(cs) = [m \in 1 .. K |-> cs[Like(m)]]
  BY <1>6 DEF FilterValid
<1> HIDE DEF Like, Nth, K
<1>8. \A m \in 1 .. K : cs[Like(m)] \in GoodCalls
  <2> TAKE m \in 1 .. K
  <2>1. cs[Like(m)] \in Calls /\ cs[Like(m)].id # NoId
    BY <1>4
  <2> QED BY <2>1 DEF Calls, GoodCalls
<1> DEFINE f == [m \in 1 .. K |-> cs[Like(m)]]
<1>9. f \in [1 .. K -> GoodCalls] /\ \A m \in 1 .. K : f[m].id = cs[Nth(m)].id
  BY <1>4, <1>8
<1> HIDE DEF f
<1>10. f \in Seq(GoodCalls) /\ Len(f) = K
  BY <1>2, <1>9
<1>11. FilterValid(cs) = f
  BY <1>7 DEF f
<1> QED BY <1>2, <1>5, <1>9, <1>10, <1>11

-----------------------------------------------------------------------------
(* The ledger, the calls and their outcomes.                                *)

NoDoubt == \A c \in CallIds : ~InDoubt(c)

(* What every step does to the marks: none is taken back, and a row becomes  *)
(* failed only without one.                                                  *)
MarksKept ==
    /\ row.published => row'.published
    /\ lostMark => lostMark'
    /\ stored # {} => stored' # {}
    /\ row'.state = "failed" => row.state = "failed" \/ ~row.published

LEMMA MarkCarried ==
    ASSUME MarkInv, MarksKept, UNCHANGED ran,
           pc' \in Tooling \cup {"call"} => row'.published \/ lostMark',
           pc' \in Tooling => stored' # {}
    PROVE  MarkInv'
BY DEF MarkInv, MarksKept

(* A step outside the tool phase. *)
LEMMA ToolQuiet ==
    ASSUME ToolInv, UNCHANGED <<ledger, reply, cursor, outcomes, denials, ran>>, MarkInv',
           pc' \notin {"effect", "record"},
           pc' \notin Tooling \cup {"staged", "failing"} => outcomes = <<>>,
           pc' = "complete_tools" => cursor > Len(Valid),
           pc' \notin Away => NoDoubt,
           row'.state \in Resumable => NoDoubt
    PROVE  ToolInv'
<1>1. ToolTypes'
  BY DEF ToolInv, ToolTypes, Valid
<1>2. OrderInv'
  BY DEF ToolInv, OrderInv, Valid
<1>3. ClaimInv'
  BY DEF ClaimInv
<1>4. RanInv'
  BY DEF ToolInv, RanInv
<1>5. DoubtInv'
  BY DEF DoubtInv, NoDoubt, InDoubt
<1>6. ResultIsOfTheCall'
  BY DEF ToolInv, ResultIsOfTheCall
<1> QED BY <1>1, <1>2, <1>3, <1>4, <1>5, <1>6 DEF ToolInv

(* A step that ends an iteration or an executor. *)
LEMMA ToolDrop ==
    ASSUME ToolInv, UNCHANGED <<ledger, ran>>, DropReply, denials' \in Nat, MarkInv',
           pc' \in {"begin", "idle", "down"},
           pc' = "begin" => NoDoubt,
           row'.state \in Resumable => NoDoubt
    PROVE  ToolInv'
<1>1. reply' = NoReply /\ cursor' = 1 /\ outcomes' = <<>> /\ Valid' = <<>>
  BY DEF DropReply, NoReply, Valid
<1>2. ToolTypes'
  <2>1. reply' \in [text : Texts, calls : Seq(GoodCalls)]
    BY <1>1 DEF NoReply, Texts
  <2>2. outcomes' \in Seq(Outcomes) /\ Len(outcomes') = 0 /\ Len(Valid') = 0
    BY <1>1
  <2> QED BY <1>1, <2>1, <2>2, Bounds DEF ToolInv, ToolTypes
<1>3. OrderInv'
  BY <1>1 DEF OrderInv
<1>4. ClaimInv'
  BY DEF ClaimInv
<1>5. RanInv'
  BY DEF ToolInv, RanInv
<1>6. DoubtInv'
  BY DEF DoubtInv, NoDoubt, InDoubt, Away
<1>7. ResultIsOfTheCall'
  BY <1>1 DEF ResultIsOfTheCall
<1> QED BY <1>2, <1>3, <1>4, <1>5, <1>6, <1>7 DEF ToolInv

LEMMA AnswerTool ==
    ASSUME TalkInv, ToolInv, NEW r \in Replies, Answer(r)
    PROVE  ToolInv'
<1>1. /\ pc = "wait" /\ pc' = "model" /\ reply' = StepOf(r)
      /\ UNCHANGED <<row, ledger, cursor, outcomes, denials, stored, lostMark, ran>>
  BY DEF Answer, Goto, durable, world, texts
<1>2. PICK n \in 0 .. MaxCalls : r.calls \in [1 .. n -> Calls]
  BY DEF Replies
<1>3. n \in Nat /\ n <= MaxCalls
  BY Bounds
<1> DEFINE f == FilterValid(r.calls)
<1>4. /\ f \in Seq(GoodCalls) /\ Len(f) <= n
      /\ \A j, k \in 1 .. Len(f) : f[j].id = f[k].id => j = k
  BY <1>2, <1>3, FilterProperties
<1> HIDE DEF f
<1>5. reply'.calls = f /\ reply' \in [text : Texts, calls : Seq(GoodCalls)]
  <2>1. reply' = [text |-> IF f = <<>> THEN r.text ELSE "none", calls |-> f]
    BY <1>1 DEF StepOf, f
  <2>2. r.text \in Texts /\ "none" \in Texts
    BY DEF Replies, Texts
  <2> QED BY <1>4, <2>1, <2>2
<1>6. Valid' = f
  BY <1>5 DEF Valid
<1>7. outcomes = <<>> /\ Len(outcomes) = 0 /\ cursor = 1
  <2>1. outcomes = <<>>
    BY <1>1 DEF ToolInv, OrderInv, Tooling
  <2>2. Len(outcomes) = 0
    BY <2>1
  <2> QED BY <2>1, <2>2 DEF ToolInv, ToolTypes
<1>8. Len(f) \in Nat /\ Len(f) <= MaxCalls
  BY <1>3, <1>4, LenProperties, Bounds
<1>9. ToolTypes'
  BY <1>1, <1>5, <1>6, <1>7, <1>8 DEF ToolInv, ToolTypes
<1>10. OrderInv'
  BY <1>1, <1>4, <1>6, <1>7 DEF OrderInv
<1>11. ClaimInv'
  BY <1>1 DEF ClaimInv
<1>12. RanInv'
  BY <1>1 DEF ToolInv, RanInv
<1>13. DoubtInv'
  BY <1>1 DEF ToolInv, DoubtInv, InDoubt, Away
<1>14. ResultIsOfTheCall'
  BY <1>1, <1>7 DEF ResultIsOfTheCall
<1>15. MarkInv'
  BY <1>1 DEF ToolInv, MarkInv, Tooling
<1> QED BY <1>9, <1>10, <1>11, <1>12, <1>13, <1>14, <1>15 DEF ToolInv

LEMMA RecoverTool ==
    ASSUME TalkInv, ToolInv, RecoverRunningTools
    PROVE  ToolInv'
<1>1. /\ pc = "down" /\ pc' = "recover_turns"
      /\ UNCHANGED <<row, reply, cursor, outcomes, denials, stored, lostMark, ran>>
      /\ ledger' = [c \in CallIds |->
            IF ledger[c].state = "running" THEN [ledger[c] EXCEPT !.state = "uncertain"] ELSE ledger[c]]
  BY DEF RecoverRunningTools, Goto, phase, world, texts
<1>2. ASSUME NEW c \in CallIds
      PROVE  /\ ledger'[c] \in Entries /\ ledger'[c].input = ledger[c].input
             /\ ledger'[c].state =
                   IF ledger[c].state = "running" THEN "uncertain" ELSE ledger[c].state
  <2>1. ledger[c] \in Entries
    BY DEF ToolInv, ToolTypes
  <2>2. "uncertain" \in LedgerStates
    BY DEF LedgerStates
  <2>3. ledger'[c] = IF ledger[c].state = "running" THEN [ledger[c] EXCEPT !.state = "uncertain"]
                     ELSE ledger[c]
    BY <1>1
  <2> QED BY <2>1, <2>2, <2>3 DEF Entries
<1>3. ToolTypes'
  <2>1. ledger' \in [CallIds -> Entries]
    BY <1>1, <1>2
  <2> QED BY <1>1, <2>1 DEF ToolInv, ToolTypes, Valid
<1>4. OrderInv'
  BY <1>1 DEF ToolInv, OrderInv, Valid, Tooling
<1>5. ClaimInv'
  BY <1>1 DEF ClaimInv
<1>6. RanInv'
  BY <1>1, <1>2 DEF ToolInv, RanInv
<1>7. DoubtInv'
  BY <1>1, <1>2 DEF ToolInv, DoubtInv, InDoubt, Away
<1>8. ResultIsOfTheCall'
  BY <1>1 DEF ToolInv, ResultIsOfTheCall
<1>9. MarkInv'
  BY <1>1 DEF ToolInv, MarkInv, Tooling
<1> QED BY <1>3, <1>4, <1>5, <1>6, <1>7, <1>8, <1>9 DEF ToolInv

tool == <<ledger, reply, cursor, outcomes, denials, ran>>

(* A step before the calls of a reply are stored. *)
LEMMA ModelQuiet ==
    ASSUME TalkInv, ToolInv, UNCHANGED tool,
           pc \in {"begin", "send", "wait", "backoff", "model", "begin_tools", "final"},
           pc' \in {"send", "wait", "backoff", "mark_failing", "failing", "mark_final",
                    "begin_tools", "final", "mark_tools"},
           row'.published = row.published, lostMark' = lostMark, stored # {} => stored' # {},
           row'.state \notin {"failed"}
    PROVE  ToolInv'
<1>1. NoDoubt /\ outcomes = <<>>
  BY DEF ToolInv, DoubtInv, OrderInv, NoDoubt, Away, Tooling
<1>2. MarksKept
  BY DEF MarksKept
<1>3. MarkInv'
  BY <1>2, MarkCarried DEF ToolInv, Tooling, tool
<1> QED BY <1>1, <1>3, ToolQuiet DEF tool

LEMMA ModelTool ==
    ASSUME TalkInv, ToolInv,
           \/ BeginModel \/ Send \/ Retry \/ Delta \/ TransientError \/ PermanentError
           \/ DeadlinePasses \/ BeginTools \/ PersistFinal
           \/ \E r \in Replies : EmptyReply(r)
    PROVE  ToolInv'
<1> USE DEF Goto, durable, phase, world, texts, tool
<1>1. row \in RowSet /\ {"model_pending", "tools_pending"} \subseteq RowStates
  BY DEF TalkInv, StepTypes, RowStates
<1>2. pc \in Unstored \cup {"begin"} => row.state # "failed"
  BY DEF TalkInv, RowInv, Unstored, Asking
<1>3. CASE BeginModel
  <2>1. CASE it > MaxIterations
    BY <1>2, <1>3, <2>1, ModelQuiet DEF BeginModel
  <2>2. CASE ~(it > MaxIterations)
    <3>1. /\ pc = "begin" /\ pc' = "send" /\ UNCHANGED <<stored, lostMark>> /\ UNCHANGED tool
          /\ row' = [row EXCEPT !.state = "model_pending", !.iteration = it]
      BY <1>3, <2>2 DEF BeginModel
    <3>2. it \in 0 .. MaxIterations
      BY <2>2, Bounds DEF TalkInv, StepTypes
    <3>3. row'.state = "model_pending" /\ row'.published = row.published
      BY <1>1, <3>1, <3>2, RowBegin
    <3> QED BY <3>1, <3>3, ModelQuiet
  <2> QED BY <2>1, <2>2
<1>4. CASE BeginTools
  <2>1. /\ pc = "begin_tools" /\ pc' = "mark_tools" /\ row' = [row EXCEPT !.state = "tools_pending"]
        /\ UNCHANGED <<stored, lostMark>> /\ UNCHANGED tool
    BY <1>4 DEF BeginTools
  <2>2. row'.state = "tools_pending" /\ row'.published = row.published
    BY <1>1, <2>1, RowState
  <2> QED BY <2>1, <2>2, ModelQuiet
<1>5. CASE PersistFinal
  <2>1. /\ pc = "final" /\ pc' = "mark_final" /\ row' = row /\ stored' # {} /\ lostMark' = lostMark
        /\ UNCHANGED tool
    BY <1>5 DEF PersistFinal, StoreReply
  <2> QED BY <1>2, <2>1, ModelQuiet DEF Unstored
<1>6. CASE Send \/ Retry \/ Delta \/ PermanentError \/ TransientError \/ DeadlinePasses
             \/ \E r \in Replies : EmptyReply(r)
  <2>1. /\ pc \in {"send", "wait", "backoff"} /\ row' = row /\ stored' = stored
        /\ lostMark' = lostMark /\ UNCHANGED tool
        /\ pc' \in {"send", "wait", "backoff", "mark_failing", "failing"}
    BY <1>6 DEF Send, Retry, Delta, PermanentError, TransientError, DeadlinePasses, EmptyReply,
                ModelFails
  <2> QED BY <1>2, <2>1, ModelQuiet DEF Unstored, Asking
<1> QED BY <1>3, <1>4, <1>5, <1>6

LEMMA CompleteModelTool ==
    ASSUME TalkInv, ToolInv, CompleteModel
    PROVE  ToolInv'
<1> USE DEF Goto, phase, tool
<1>1. /\ pc = "model" /\ row' = [row EXCEPT !.state = "model_completed"]
      /\ UNCHANGED <<ledger, denials, ran, stored, lostMark>>
  BY DEF CompleteModel
<1>2. row'.state = "model_completed" /\ row'.published = row.published
  <2>1. row \in RowSet /\ "model_completed" \in RowStates
    BY DEF TalkInv, StepTypes, RowStates
  <2> QED BY <1>1, <2>1, RowState
<1>3. CASE pc' \in {"begin_tools", "failing", "final"} /\ UNCHANGED phase
  BY <1>1, <1>2, <1>3, ModelQuiet
<1>4. CASE pc' = "begin" /\ DropReply
  <2>1. NoDoubt
    BY <1>1 DEF ToolInv, DoubtInv, NoDoubt, Away
  <2>2. MarksKept
    BY <1>1, <1>2 DEF MarksKept
  <2>3. MarkInv'
    BY <1>1, <1>4, <2>2, MarkCarried DEF ToolInv, Tooling
  <2>4. denials' \in Nat
    BY <1>1 DEF ToolInv, ToolTypes
  <2> QED BY <1>1, <1>4, <2>1, <2>3, <2>4, ToolDrop
<1> QED BY <1>3, <1>4 DEF CompleteModel, NextIteration

LEMMA MarkTool ==
    ASSUME TalkInv, ToolInv, Mark
    PROVE  ToolInv'
<1>1. UNCHANGED tool /\ stored' = stored
  BY DEF Mark, phase, texts, tool
<1>2. row \in RowSet
  BY DEF TalkInv, StepTypes
<1>3. /\ row'.state = row.state /\ (row'.published \/ lostMark')
      /\ (row.published => row'.published) /\ (lostMark => lostMark')
      /\ \/ pc = "mark_tools" /\ pc' = "call"
         \/ pc = "mark_final" /\ pc' = "complete"
         \/ pc = "mark_failing" /\ pc' = "failing"
  BY <1>2, MarkEffect
<1>4. NoDoubt /\ outcomes = <<>>
  BY <1>3 DEF ToolInv, DoubtInv, OrderInv, NoDoubt, Away, Tooling
<1>5. MarksKept
  BY <1>1, <1>3 DEF MarksKept
<1>6. MarkInv'
  BY <1>1, <1>3, <1>5, MarkCarried DEF ToolInv, Tooling, tool
<1> QED BY <1>1, <1>3, <1>4, <1>6, ToolQuiet DEF tool

LEMMA PhaseTool ==
    ASSUME TalkInv, ToolInv, PersistCall \/ PersistResults \/ CompleteTools \/ CommitStaged
    PROVE  ToolInv'
<1> USE DEF Goto, durable, phase, world, texts, tool
<1>1. NoDoubt
  BY DEF ToolInv, DoubtInv, NoDoubt, Away, PersistCall, PersistResults, CompleteTools, CommitStaged
<1>2. CASE PersistCall
  <2>1. /\ pc = "call" /\ pc' = "run" /\ row' = row /\ lostMark' = lostMark /\ stored' # {}
        /\ UNCHANGED tool
    BY <1>2 DEF PersistCall, StoreReply
  <2>2. MarkInv'
    <3>1. row'.published \/ lostMark'
      BY <2>1 DEF ToolInv, MarkInv
    <3>2. MarksKept
      BY <2>1 DEF MarksKept
    <3> QED BY <2>1, <3>1, <3>2, MarkCarried DEF ToolInv
  <2> QED BY <1>1, <2>1, <2>2, ToolQuiet DEF Tooling
<1>3. CASE PersistResults
  <2>1. /\ pc = "run" /\ cursor > Len(Valid) /\ pc' = "complete_tools"
        /\ UNCHANGED <<row, stored, lostMark>> /\ UNCHANGED tool
    BY <1>3 DEF PersistResults
  <2>2. MarkInv'
    BY <2>1 DEF ToolInv, MarkInv, Tooling
  <2> QED BY <1>1, <2>1, <2>2, ToolQuiet DEF Tooling
<1>4. CASE CompleteTools
  <2>1. /\ pc = "complete_tools" /\ pc' = "staged" /\ row' = [row EXCEPT !.state = "tools_completed"]
        /\ UNCHANGED <<stored, lostMark>> /\ UNCHANGED tool
    BY <1>4 DEF CompleteTools
  <2>2. row'.state = "tools_completed" /\ row'.published = row.published
    <3>1. row \in RowSet /\ "tools_completed" \in RowStates
      BY DEF TalkInv, StepTypes, RowStates, Resumable
    <3> QED BY <2>1, <3>1, RowState
  <2>3. MarksKept
    BY <2>1, <2>2 DEF MarksKept
  <2>4. MarkInv'
    BY <2>1, <2>3, MarkCarried DEF ToolInv, Tooling
  <2> QED BY <1>1, <2>1, <2>4, ToolQuiet DEF Tooling
<1>5. CASE CommitStaged
  <2>1. /\ pc = "staged" /\ pc' = "begin" /\ DropReply /\ row' = row
        /\ UNCHANGED <<stored, lostMark, ledger, ran, denials>>
    BY <1>5 DEF CommitStaged, NextIteration
  <2>2. MarkInv'
    BY <2>1 DEF ToolInv, MarkInv, Tooling
  <2>3. denials' \in Nat
    BY <2>1 DEF ToolInv, ToolTypes
  <2> QED BY <1>1, <2>1, <2>2, <2>3, ToolDrop
<1> QED BY <1>2, <1>3, <1>4, <1>5

LEMMA EndTool ==
    ASSUME TalkInv, ToolInv, CompleteTurn \/ Fail \/ Crash
    PROVE  ToolInv'
<1> USE DEF Goto, durable, world, texts
<1>1. /\ DropReply /\ pc' \in {"idle", "down"} /\ denials' = 0
      /\ UNCHANGED <<ledger, ran, stored, lostMark>>
  BY DEF CompleteTurn, Fail, Crash, Forget
<1>2. row \in RowSet /\ {"completed", "failed", "uncertain"} \subseteq RowStates
  BY DEF TalkInv, StepTypes, RowStates, Terminal
<1>3. /\ row'.published = row.published
      /\ row'.state \in {row.state, "completed", "uncertain", "failed"}
      /\ row'.state = "failed" => row.state = "failed" \/ ~row.published
  <2>1. CASE row' = row
    BY <2>1
  <2>2. CASE row' = [row EXCEPT !.state = "completed"]
    <3>1. row'.published = row.published /\ row'.state = "completed"
      BY <1>2, <2>2, RowState
    <3> QED BY <3>1
  <2>3. CASE row' = [row EXCEPT !.state = IF row.published THEN "uncertain" ELSE "failed"]
    <3>1. CASE row.published
      <4>1. row' = [row EXCEPT !.state = "uncertain"]
        BY <2>3, <3>1
      <4>2. row'.published = row.published /\ row'.state = "uncertain"
        BY <1>2, <4>1, RowState
      <4> QED BY <4>2
    <3>2. CASE ~row.published
      <4>1. row' = [row EXCEPT !.state = "failed"]
        BY <2>3, <3>2
      <4>2. row'.published = row.published /\ row'.state = "failed"
        BY <1>2, <4>1, RowState
      <4> QED BY <3>2, <4>2
    <3> QED BY <3>1, <3>2
  <2> QED BY <2>1, <2>2, <2>3 DEF CompleteTurn, Fail, Crash
<1>4. row'.state \in Resumable => NoDoubt
  BY <1>3 DEF ToolInv, DoubtInv, NoDoubt, Resumable
<1>5. MarksKept
  BY <1>1, <1>3 DEF MarksKept
<1>6. MarkInv'
  BY <1>1, <1>5, MarkCarried DEF ToolInv, Tooling
<1>7. denials' \in Nat
  BY <1>1
<1> QED BY <1>1, <1>4, <1>6, <1>7, ToolDrop

LEMMA FaultTool ==
    ASSUME TalkInv, ToolInv, StorageFails \/ RecoverInterruptedTurns \/ Resume
    PROVE  ToolInv'
<1> USE DEF Goto, durable, phase, world, texts, tool
<1>1. UNCHANGED tool /\ UNCHANGED <<stored, lostMark>>
  BY DEF StorageFails, RecoverInterruptedTurns, Resume
<1>2. CASE StorageFails
  <2>1. pc' = "failing" /\ row' = row
    BY <1>2 DEF StorageFails
  <2>2. MarkInv'
    BY <1>1, <2>1 DEF ToolInv, MarkInv, Tooling
  <2>3. row'.state \in Resumable => NoDoubt
    BY <2>1 DEF ToolInv, DoubtInv, NoDoubt
  <2> QED BY <1>1, <2>1, <2>2, <2>3, ToolQuiet DEF Tooling, Away
<1>3. CASE RecoverInterruptedTurns
  <2>1. pc = "recover_turns" /\ pc' = "idle"
    BY <1>3 DEF RecoverInterruptedTurns
  <2>2. row'.published = row.published /\ (row'.state = row.state \/ row'.state = "uncertain")
    <3>1. row \in RowSet /\ "uncertain" \in RowStates
      BY DEF TalkInv, StepTypes, RowStates, Terminal
    <3>2. row' = row \/ row' = [row EXCEPT !.state = "uncertain"]
      BY <1>3 DEF RecoverInterruptedTurns
    <3> QED BY <3>1, <3>2, RowState
  <2>3. MarksKept
    BY <1>1, <2>2 DEF MarksKept
  <2>4. MarkInv'
    BY <1>1, <2>1, <2>3, MarkCarried DEF ToolInv, Tooling
  <2>5. row'.state \in Resumable => NoDoubt
    BY <2>2 DEF ToolInv, DoubtInv, NoDoubt, Resumable
  <2>6. outcomes = <<>>
    BY <2>1 DEF ToolInv, OrderInv, Tooling
  <2> QED BY <1>1, <2>1, <2>4, <2>5, <2>6, ToolQuiet DEF Away
<1>4. CASE Resume
  <2>1. pc = "idle" /\ pc' \in {"begin", "staged"} /\ row' = row /\ row.state \in Resumable
    BY <1>4 DEF Resume, Resumable
  <2>2. MarkInv'
    BY <1>1, <2>1 DEF ToolInv, MarkInv, Tooling
  <2>3. NoDoubt /\ outcomes = <<>>
    BY <2>1 DEF ToolInv, DoubtInv, NoDoubt, OrderInv, Tooling
  <2> QED BY <1>1, <2>1, <2>2, <2>3, ToolQuiet
<1> QED BY <1>2, <1>3, <1>4

(* In the tool phase the row is marked, and it is pending. *)
LEMMA ToolMarks ==
    ASSUME TalkInv, ToolInv, ToolStep
    PROVE  MarkInv' /\ row'.state \notin Resumable
<1>1. pc \in Tooling /\ pc' \in Tooling \cup {"failing"} /\ UNCHANGED talk
  BY ToolStepTalk
<1>2. row.state = "tools_pending"
  BY <1>1 DEF TalkInv, RowInv
<1>3. (row.published \/ lostMark) /\ stored # {}
  BY <1>1 DEF ToolInv, MarkInv
<1> QED BY <1>1, <1>2, <1>3 DEF MarkInv, talk, Tooling, Resumable

(* An outcome of the current call. *)
LEMMA PushProperties ==
    ASSUME ToolTypes, OrderInv, cursor <= Len(Valid), NEW kind \in Kinds,
           Push(Outcome(Current, kind)), reply' = reply
    PROVE  /\ outcomes' \in Seq(Outcomes) /\ Len(outcomes') = Len(outcomes) + 1
           /\ Len(outcomes) \in Nat
           /\ cursor' \in Nat /\ cursor' = Len(outcomes') + 1 /\ cursor' <= Len(Valid') + 1
           /\ \A k \in 1 .. Len(outcomes) : outcomes'[k] = outcomes[k]
           /\ outcomes'[Len(outcomes')] = Outcome(Current, kind)
           /\ Current \in GoodCalls /\ Current.id \in CallIds /\ Current.input \in Inputs
           /\ Outcome(Current, kind).id = Current.id
           /\ Outcome(Current, kind).input = Current.input
           /\ Outcome(Current, kind).kind = kind
           /\ \A j, k \in 1 .. Len(Valid') : Valid'[j].id = Valid'[k].id => j = k
           /\ \A k \in 1 .. Len(outcomes') :
                  outcomes'[k].id = Valid'[k].id /\ outcomes'[k].input = Valid'[k].input
<1> DEFINE o == Outcome(Current, kind)
<1>1. Valid \in Seq(GoodCalls) /\ Valid' = Valid
  BY DEF ToolTypes, Valid
<1>2. outcomes \in Seq(Outcomes) /\ Len(outcomes) \in Nat /\ cursor = Len(outcomes) + 1
  BY LenProperties DEF ToolTypes
<1>3. Current \in GoodCalls
  BY <1>1, <1>2, ElementOfSeq DEF Current
<1>4. /\ Current.id \in CallIds /\ Current.input \in Inputs
      /\ o \in Outcomes /\ o.id = Current.id /\ o.input = Current.input /\ o.kind = kind
  BY <1>3 DEF GoodCalls, Outcome, Outcomes
<1>5. outcomes' = Append(outcomes, o) /\ cursor' = cursor + 1
  BY DEF Push
<1> HIDE DEF o
<1>6. /\ outcomes' \in Seq(Outcomes) /\ Len(outcomes') = Len(outcomes) + 1
      /\ \A k \in 1 .. Len(outcomes) : outcomes'[k] = outcomes[k]
      /\ outcomes'[Len(outcomes) + 1] = o
  BY <1>2, <1>4, <1>5, AppendProperties
<1>7. \A k \in 1 .. Len(outcomes') :
          outcomes'[k].id = Valid'[k].id /\ outcomes'[k].input = Valid'[k].input
  <2> TAKE k \in 1 .. Len(outcomes')
  <2>1. CASE k = Len(outcomes) + 1
    BY <1>1, <1>2, <1>4, <1>6, <2>1 DEF Current
  <2>2. CASE k \in 1 .. Len(outcomes)
    BY <1>1, <1>6, <2>2 DEF OrderInv
  <2> QED BY <1>2, <1>6, <2>1, <2>2
<1>8. Len(Valid) \in Nat
  BY <1>1, LenProperties
<1>9. cursor' \in Nat /\ cursor' = Len(outcomes') + 1 /\ cursor' <= Len(Valid') + 1
  BY <1>1, <1>2, <1>5, <1>6, <1>8
<1>10. \A j, k \in 1 .. Len(Valid') : Valid'[j].id = Valid'[k].id => j = k
  BY <1>1 DEF OrderInv
<1> QED BY <1>2, <1>3, <1>4, <1>6, <1>7, <1>9, <1>10 DEF o

(* A call that is answered without being executed. *)
LEMMA UnrunTool ==
    ASSUME TalkInv, ToolInv, ToolStep, Running, NEW kind \in Kinds, Push(Outcome(Current, kind)),
           UNCHANGED <<pc, ledger, reply, denials, ran>>, kind # "ok",
           kind = "reused" => ran[Current.id] = <<Current.input>>
    PROVE  ToolInv'
<1>1. pc = "run" /\ pc' = "run" /\ cursor <= Len(Valid)
  BY DEF Running
<1>2. ToolTypes /\ OrderInv /\ reply' = reply
  BY DEF ToolInv
<1>3. /\ outcomes' \in Seq(Outcomes) /\ Len(outcomes') = Len(outcomes) + 1
      /\ Len(outcomes) \in Nat
      /\ cursor' \in Nat /\ cursor' = Len(outcomes') + 1 /\ cursor' <= Len(Valid') + 1
      /\ \A k \in 1 .. Len(outcomes) : outcomes'[k] = outcomes[k]
      /\ outcomes'[Len(outcomes')].id = Current.id
      /\ outcomes'[Len(outcomes')].input = Current.input
      /\ outcomes'[Len(outcomes')].kind = kind
      /\ \A j, k \in 1 .. Len(Valid') : Valid'[j].id = Valid'[k].id => j = k
      /\ \A k \in 1 .. Len(outcomes') :
             outcomes'[k].id = Valid'[k].id /\ outcomes'[k].input = Valid'[k].input
  <2> HIDE DEF Push, Outcome, Current
  <2> QED BY <1>1, <1>2, PushProperties
<1>4. ToolTypes'
  BY <1>2, <1>3 DEF ToolTypes, Valid
<1>5. OrderInv'
  BY <1>1, <1>3 DEF OrderInv, Tooling
<1>6. ClaimInv'
  BY <1>1 DEF ClaimInv
<1>7. RanInv'
  BY DEF ToolInv, RanInv
<1>8. DoubtInv'
  BY <1>1, ToolMarks DEF ToolInv, DoubtInv, InDoubt, Away
<1>9. ResultIsOfTheCall'
  <2>1. \A k \in 1 .. Len(outcomes') :
            outcomes'[k].kind \in {"ok", "reused"} /\ outcomes'[k].input \in Writes =>
                ran'[outcomes'[k].id] = <<outcomes'[k].input>>
    <3> TAKE k \in 1 .. Len(outcomes')
    <3>1. CASE k = Len(outcomes')
      BY <1>3, <3>1
    <3>2. CASE k \in 1 .. Len(outcomes)
      <4>1. k \in DOMAIN outcomes
        BY <1>2, <3>2 DEF ToolTypes
      <4> QED BY <1>3, <3>2, <4>1 DEF ToolInv, ResultIsOfTheCall
    <3> QED BY <1>3, <3>1, <3>2
  <2>2. DOMAIN outcomes' = 1 .. Len(outcomes')
    BY <1>3
  <2> QED BY <2>1, <2>2 DEF ResultIsOfTheCall
<1> QED BY <1>4, <1>5, <1>6, <1>7, <1>8, <1>9, ToolMarks DEF ToolInv

LEMMA RefusedTool ==
    ASSUME TalkInv, ToolInv, Reject \/ Invalid
    PROVE  ToolInv'
<1>1. ToolStep /\ Running
  BY DEF ToolStep, Reject, Invalid
<1>2. UNCHANGED <<pc, ledger, reply, denials, ran>>
  BY DEF Reject, Invalid, durable, world
<1>3. "rejected" \in Kinds /\ "invalid" \in Kinds
  BY DEF Kinds
<1>4. Push(Outcome(Current, "rejected")) \/ Push(Outcome(Current, "invalid"))
  BY DEF Reject, Invalid
<1> QED BY <1>1, <1>2, <1>3, <1>4, UnrunTool

(* The call at the cursor, and what the ledger holds under its id. *)
LEMMA CurrentCall ==
    ASSUME ToolTypes, cursor <= Len(Valid)
    PROVE  /\ Current \in GoodCalls /\ Current.id \in CallIds /\ Current.input \in Inputs
           /\ ledger[Current.id] \in Entries /\ ledger[Current.id].state \in LedgerStates
           /\ ran[Current.id] \in Seq(Writes)
<1>1. Valid \in Seq(GoodCalls)
  BY DEF ToolTypes, Valid
<1>2. Len(outcomes) \in Nat /\ cursor = Len(outcomes) + 1
  BY LenProperties DEF ToolTypes
<1>3. Current \in GoodCalls
  BY <1>1, <1>2, ElementOfSeq DEF Current
<1>4. Current.id \in CallIds /\ Current.input \in Inputs
  BY <1>3 DEF GoodCalls
<1>5. ledger[Current.id] \in Entries /\ ran[Current.id] \in Seq(Writes)
  BY <1>4 DEF ToolTypes
<1> QED BY <1>3, <1>4, <1>5 DEF Entries

LEMMA ClaimTool ==
    ASSUME TalkInv, ToolInv, Claim
    PROVE  ToolInv'
<1> DEFINE held == ledger[Current.id]
<1>1. /\ Running /\ pc = "run" /\ cursor <= Len(Valid) /\ denials < DenialLimit
      /\ Current.input \in Writes /\ UNCHANGED <<reply, denials, ran>>
  <2>1. denials \in Nat
    BY DEF ToolInv, ToolTypes
  <2> QED BY <2>1, Bounds DEF Claim, Running, LimitReached, world
<1>2. ToolStep
  BY DEF ToolStep
<1>3. ToolTypes /\ OrderInv
  BY DEF ToolInv
<1>4. /\ Current.id \in CallIds /\ Current.input \in Inputs /\ held \in Entries
      /\ held.state \in LedgerStates
  BY <1>1, <1>3, CurrentCall
<1>5. NoDoubt
  BY <1>1 DEF ToolInv, DoubtInv, NoDoubt, Away
<1>6. CASE /\ held.state = "none" /\ pc' = "effect" /\ UNCHANGED <<cursor, outcomes>>
           /\ ledger' = [ledger EXCEPT ![Current.id] = [state |-> "running", input |-> Current.input]]
  <2>1. Current' = Current /\ Valid' = Valid
    BY <1>1, <1>6 DEF Current, Valid
  <2>2. /\ \A c \in CallIds : c # Current.id => ledger'[c] = ledger[c]
        /\ ledger'[Current.id].state = "running" /\ ledger'[Current.id].input = Current.input
        /\ ledger' \in [CallIds -> Entries]
    <3>1. [state |-> "running", input |-> Current.input] \in Entries
      BY <1>4 DEF Entries, LedgerStates
    <3>2. ledger \in [CallIds -> Entries]
      BY <1>3 DEF ToolTypes
    <3> QED BY <1>4, <1>6, <3>1, <3>2
  <2>3. ran[Current.id] = <<>>
    BY <1>4, <1>6 DEF ToolInv, RanInv
  <2>4. ToolTypes'
    BY <1>1, <1>3, <1>6, <2>1, <2>2 DEF ToolTypes
  <2>5. OrderInv'
    BY <1>1, <1>3, <1>6, <2>1 DEF OrderInv, Tooling
  <2>6. ClaimInv'
    BY <1>1, <1>6, <2>1, <2>2, <2>3 DEF ClaimInv
  <2>7. RanInv'
    <3>1. \A c \in CallIds : ran'[c] = ran[c]
      BY <1>1
    <3> QED BY <2>2, <2>3, <1>4, <3>1 DEF ToolInv, RanInv
  <2>8. DoubtInv'
    <3>1. \A c \in CallIds : InDoubt(c)' => c = Current.id
      BY <1>5, <2>2 DEF NoDoubt, InDoubt
    <3> QED BY <1>2, <1>6, <2>1, <3>1, ToolMarks DEF DoubtInv
  <2>9. ResultIsOfTheCall'
    BY <1>1, <1>6 DEF ToolInv, ResultIsOfTheCall
  <2> QED BY <1>2, <2>4, <2>5, <2>6, <2>7, <2>8, <2>9, ToolMarks DEF ToolInv
<1>7. CASE pc' = "failing" /\ UNCHANGED <<ledger, cursor, outcomes>>
  BY <1>1, <1>2, <1>5, <1>7, ToolQuiet, ToolMarks DEF Tooling
<1>8. CASE /\ held.state = "succeeded" /\ held.input = Current.input
           /\ Push(Outcome(Current, "reused")) /\ UNCHANGED <<ledger, pc>>
  <2>1. ran[Current.id] = <<Current.input>>
    <3>1. ran[Current.id] # <<>>
      BY <1>1, <1>4, <1>8 DEF ToolInv, RanInv
    <3> QED BY <1>4, <1>8, <3>1 DEF ToolInv, RanInv
  <2>2. "reused" \in Kinds
    BY DEF Kinds
  <2> QED BY <1>1, <1>2, <1>8, <2>1, <2>2, UnrunTool
<1>9. CASE Push(Outcome(Current, "blocked")) /\ UNCHANGED <<ledger, pc>>
  <2>1. "blocked" \in Kinds
    BY DEF Kinds
  <2> QED BY <1>1, <1>2, <1>9, <2>1, UnrunTool
<1> QED BY <1>6, <1>7, <1>8, <1>9 DEF Claim, Goto

LEMMA EffectTool ==
    ASSUME TalkInv, ToolInv, Effect
    PROVE  ToolInv'
<1>1. /\ pc = "effect" /\ pc' = "record" /\ UNCHANGED <<ledger, reply, denials>>
      /\ ran' = [ran EXCEPT ![Current.id] = Append(@, Current.input)]
  BY DEF Effect, Goto, durable
<1>2. ToolStep
  BY DEF ToolStep
<1>3. ToolTypes /\ OrderInv
  BY DEF ToolInv
<1>4. /\ cursor <= Len(Valid) /\ Current.input \in Writes
      /\ ledger[Current.id].state = "running" /\ ledger[Current.id].input = Current.input
      /\ ran[Current.id] = <<>>
  BY <1>1 DEF ToolInv, ClaimInv
<1>5. PICK kind \in {"ok", "error", "denied"} : Push(Outcome(Current, kind))
  BY DEF Effect
<1>6. kind \in Kinds
  BY <1>5 DEF Kinds
<1>7. Current.id \in CallIds
  BY <1>3, <1>4, CurrentCall
<1>8. /\ outcomes' \in Seq(Outcomes) /\ Len(outcomes') = Len(outcomes) + 1
      /\ Len(outcomes) \in Nat
      /\ cursor' \in Nat /\ cursor' = Len(outcomes') + 1 /\ cursor' <= Len(Valid') + 1
      /\ \A k \in 1 .. Len(outcomes) : outcomes'[k] = outcomes[k]
      /\ outcomes'[Len(outcomes')].id = Current.id
      /\ outcomes'[Len(outcomes')].input = Current.input
      /\ \A j, k \in 1 .. Len(Valid') : Valid'[j].id = Valid'[k].id => j = k
      /\ \A k \in 1 .. Len(outcomes') :
             outcomes'[k].id = Valid'[k].id /\ outcomes'[k].input = Valid'[k].input
  BY <1>1, <1>3, <1>4, <1>5, <1>6, PushProperties
<1>9. /\ ran' \in [CallIds -> Seq(Writes)] /\ ran'[Current.id] = <<Current.input>>
      /\ \A c \in CallIds : c # Current.id => ran'[c] = ran[c]
  <2>1. ran \in [CallIds -> Seq(Writes)]
    BY <1>3 DEF ToolTypes
  <2>2. Append(ran[Current.id], Current.input) = <<Current.input>>
    BY <1>4
  <2>3. <<Current.input>> \in Seq(Writes)
    BY <1>4
  <2> QED BY <1>1, <1>7, <2>1, <2>2, <2>3
<1>10. ToolTypes'
  BY <1>1, <1>3, <1>8, <1>9 DEF ToolTypes, Valid
<1>11. OrderInv'
  BY <1>1, <1>8 DEF OrderInv, Tooling
<1>12. LastOf'.id = Current.id /\ LastOf'.input = Current.input
  BY <1>8 DEF LastOf
<1>13. ClaimInv'
  BY <1>1, <1>4, <1>8, <1>9, <1>12 DEF ClaimInv
<1>14. RanInv'
  <2>1. \A c \in CallIds : ledger'[c] = ledger[c]
    BY <1>1
  <2>2. <<Current.input>> # <<>>
    OBVIOUS
  <2> QED BY <1>4, <1>9, <2>1, <2>2 DEF ToolInv, RanInv
<1>15. DoubtInv'
  BY <1>1, <1>2, <1>12, ToolMarks DEF ToolInv, DoubtInv, InDoubt
<1>16. ResultIsOfTheCall'
  <2>1. \A k \in 1 .. Len(outcomes') :
            outcomes'[k].kind \in {"ok", "reused"} /\ outcomes'[k].input \in Writes =>
                ran'[outcomes'[k].id] = <<outcomes'[k].input>>
    <3> TAKE k \in 1 .. Len(outcomes')
    <3>1. CASE k = Len(outcomes')
      BY <1>8, <1>9, <3>1
    <3>2. CASE k \in 1 .. Len(outcomes)
      <4>1. k \in DOMAIN outcomes /\ outcomes[k].id \in CallIds
        <5>1. outcomes \in Seq(Outcomes)
          BY <1>3 DEF ToolTypes
        <5>2. outcomes[k] \in Outcomes
          BY <3>2, <5>1, ElementOfSeq
        <5>3. outcomes[k].id \in CallIds
          BY <5>2 DEF Outcomes
        <5> QED BY <3>2, <5>1, <5>3
      <4>2. SUFFICES ASSUME outcomes[k].kind \in {"ok", "reused"}, outcomes[k].input \in Writes
                     PROVE  ran'[outcomes[k].id] = <<outcomes[k].input>>
        BY <1>8, <3>2
      <4>3. ran[outcomes[k].id] = <<outcomes[k].input>>
        BY <4>1, <4>2 DEF ToolInv, ResultIsOfTheCall
      <4>4. outcomes[k].id # Current.id
        <5>1. <<outcomes[k].input>> # <<>>
          OBVIOUS
        <5> QED BY <1>4, <4>3, <5>1
      <4> QED BY <1>9, <4>1, <4>3, <4>4
    <3> QED BY <1>8, <3>1, <3>2
  <2>2. DOMAIN outcomes' = 1 .. Len(outcomes')
    BY <1>8
  <2> QED BY <2>1, <2>2 DEF ResultIsOfTheCall
<1> QED BY <1>2, <1>10, <1>11, <1>13, <1>14, <1>15, <1>16, ToolMarks DEF ToolInv

LEMMA DeniedType ==
    ASSUME NEW S, NEW os \in Seq(S)
    PROVE  Denied(os) \in Nat
<1>1. IsFiniteSet(DOMAIN os)
  <2>1. Len(os) \in Nat /\ DOMAIN os = 1 .. Len(os)
    BY LenProperties
  <2> QED BY <2>1, FS_Interval
<1>2. IsFiniteSet({i \in DOMAIN os : os[i].kind = "denied"})
  BY <1>1, FS_Subset
<1> QED BY <1>2, FS_CardinalityType DEF Denied

LEMMA RecordTool ==
    ASSUME TalkInv, ToolInv, Record
    PROVE  ToolInv'
<1>1. /\ pc = "record" /\ pc' = "run" /\ UNCHANGED <<reply, cursor, outcomes, ran>>
      /\ Last(outcomes) = LastOf
      /\ denials' = denials + Denied(<<LastOf>>)
      /\ ledger' = [ledger EXCEPT ![LastOf.id].state =
                        IF LastOf.kind = "ok" THEN "succeeded" ELSE "failed"]
  BY DEF Record, Goto, phase, world, Last, LastOf
<1>2. ToolStep
  BY DEF ToolStep
<1>3. ToolTypes /\ OrderInv
  BY DEF ToolInv
<1>4. /\ Len(outcomes) > 0 /\ ledger[LastOf.id].input = LastOf.input
      /\ ran[LastOf.id] = <<LastOf.input>> /\ <<LastOf.input>> # <<>>
  BY <1>1 DEF ToolInv, ClaimInv
<1>5. LastOf \in Outcomes /\ LastOf.id \in CallIds
  <2>1. outcomes \in Seq(Outcomes) /\ Len(outcomes) \in Nat
    BY <1>3, LenProperties DEF ToolTypes
  <2>2. LastOf \in Outcomes
    BY <1>4, <2>1, ElementOfSeq DEF LastOf
  <2> QED BY <2>2 DEF Outcomes
<1>6. denials' \in Nat
  <2>1. <<LastOf>> \in Seq(Outcomes)
    BY <1>5
  <2>2. Denied(<<LastOf>>) \in Nat
    BY <2>1, DeniedType
  <2> QED BY <1>1, <1>3, <2>2 DEF ToolTypes
<1>7. /\ \A c \in CallIds : c # LastOf.id => ledger'[c] = ledger[c]
      /\ ledger'[LastOf.id].state \in {"succeeded", "failed"}
      /\ ledger'[LastOf.id].input = ledger[LastOf.id].input
      /\ ledger' \in [CallIds -> Entries]
  <2> DEFINE e == ledger[LastOf.id]
             s == IF LastOf.kind = "ok" THEN "succeeded" ELSE "failed"
             f == [e EXCEPT !.state = s]
  <2>1. ledger \in [CallIds -> Entries] /\ e \in Entries
    BY <1>3, <1>5 DEF ToolTypes
  <2>2. s \in {"succeeded", "failed"} /\ s \in LedgerStates
    BY DEF LedgerStates
  <2>3. ledger' = [ledger EXCEPT ![LastOf.id] = f]
    BY <1>1
  <2> HIDE DEF s
  <2>4. f \in Entries /\ f.state = s /\ f.input = e.input
    BY <2>1, <2>2 DEF Entries
  <2> HIDE DEF f
  <2> QED BY <1>5, <2>1, <2>2, <2>3, <2>4
<1>8. ToolTypes'
  BY <1>1, <1>3, <1>6, <1>7 DEF ToolTypes, Valid
<1>9. OrderInv'
  BY <1>1, <1>3 DEF OrderInv, Valid, Tooling
<1>10. ClaimInv'
  BY <1>1 DEF ClaimInv
<1>11. RanInv'
  <2>1. \A c \in CallIds : ran'[c] = ran[c]
    BY <1>1
  <2> QED BY <1>4, <1>5, <1>7, <2>1 DEF ToolInv, RanInv
<1>12. DoubtInv'
  <2>1. \A c \in CallIds : ~InDoubt(c)'
    BY <1>1, <1>7 DEF ToolInv, DoubtInv, InDoubt
  <2> QED BY <1>1, <2>1 DEF DoubtInv
<1>13. ResultIsOfTheCall'
  BY <1>1 DEF ToolInv, ResultIsOfTheCall
<1> QED BY <1>2, <1>8, <1>9, <1>10, <1>11, <1>12, <1>13, ToolMarks DEF ToolInv

(* The run of read-only calls that starts at the cursor has an end. *)
LEMMA BlockEndProperties ==
    ASSUME ToolTypes, cursor <= Len(Valid), Current.input \in Reads
    PROVE  /\ BlockEnd \in cursor .. Len(Valid)
           /\ \A k \in cursor .. BlockEnd : Valid[k].input \in Reads
<1> DEFINE L == Len(Valid)
           T == {n \in cursor .. L : n < L => Valid[n + 1].input \notin Reads}
<1>1. cursor \in Nat /\ L \in Nat
  <2>1. Valid \in Seq(GoodCalls)
    BY DEF ToolTypes, Valid
  <2> QED BY <2>1, LenProperties DEF ToolTypes
<1> HIDE DEF L
<1>2. cursor <= L
  BY DEF L
<1>3. T \in SUBSET Nat /\ L \in T
  BY <1>1, <1>2
<1>4. PICK n \in T : \A m \in T : n <= m
  <2> HIDE DEF T
  <2> QED BY <1>3, NatMin
<1>5. n \in cursor .. L /\ (n < L => Valid[n + 1].input \notin Reads)
  OBVIOUS
<1>6. \A k \in cursor .. n : Valid[k].input \in Reads
  <2> TAKE k \in cursor .. n
  <2>1. CASE k = cursor
    BY <2>1 DEF Current
  <2>2. CASE k # cursor
    <3>1. k - 1 \in cursor .. L /\ k - 1 < n /\ k - 1 < L
      BY <1>1, <1>5, <2>2
    <3>2. k - 1 \notin T
      <4>1. ~(n <= k - 1)
        BY <1>1, <1>5, <3>1
      <4> HIDE DEF T
      <4> QED BY <1>4, <4>1
    <3>3. Valid[k - 1 + 1].input \in Reads
      BY <3>1, <3>2
    <3>4. k - 1 + 1 = k
      BY <1>1
    <3> QED BY <3>3, <3>4
  <2> QED BY <2>1, <2>2
<1> QED BY <1>5, <1>6 DEF BlockEnd, L

LEMMA ReadBlockTool ==
    ASSUME TalkInv, ToolInv, ReadBlock
    PROVE  ToolInv'
<1> DEFINE E == BlockEnd
           m == E - cursor + 1
           Block0(kinds) == [k \in 1 .. m |-> Outcome(Valid[cursor + k - 1], kinds[cursor + k - 1])]
<1>1. /\ Running /\ pc = "run" /\ cursor <= Len(Valid) /\ Current.input \in Reads
      /\ pc' = "record_block" /\ cursor' = E + 1 /\ UNCHANGED <<ledger, reply, ran>>
  BY DEF ReadBlock, Running, Goto, durable, world
<1>2. PICK kinds \in [cursor .. E -> {"ok", "error", "denied", "invalid"}] :
          outcomes' = outcomes \o Block0(kinds) /\ denials' = denials + Denied(Block0(kinds))
  BY DEF ReadBlock
<1>3. ToolStep
  BY DEF ToolStep
<1>4. ToolTypes /\ OrderInv /\ Valid' = Valid
  BY <1>1 DEF ToolInv, Valid
<1>5. E \in cursor .. Len(Valid) /\ \A k \in cursor .. E : Valid[k].input \in Reads
  BY <1>1, <1>4, BlockEndProperties
<1>6. /\ cursor \in Nat /\ Len(outcomes) \in Nat /\ cursor = Len(outcomes) + 1
      /\ outcomes \in Seq(Outcomes) /\ Valid \in Seq(GoodCalls) /\ Len(Valid) \in Nat
      /\ DOMAIN outcomes = 1 .. Len(outcomes)
  <2>1. outcomes \in Seq(Outcomes) /\ Valid \in Seq(GoodCalls)
    BY <1>4 DEF ToolTypes, Valid
  <2> QED BY <1>4, <2>1, LenProperties DEF ToolTypes
<1> DEFINE block == Block0(kinds)
<1> HIDE DEF E
<1>7. m \in Nat /\ cursor + m = E + 1
  BY <1>5, <1>6
<1>8. \A k \in 1 .. m : /\ block[k] \in Outcomes /\ block[k].id = Valid[cursor + k - 1].id
                        /\ block[k].input = Valid[cursor + k - 1].input
                        /\ block[k].input \in Reads
  <2> TAKE k \in 1 .. m
  <2> DEFINE j == cursor + k - 1
  <2>1. j \in cursor .. E /\ j \in 1 .. Len(Valid)
    BY <1>5, <1>6, <1>7
  <2>2. block[k] = Outcome(Valid[j], kinds[j])
    OBVIOUS
  <2> HIDE DEF j
  <2>3. Valid[j] \in GoodCalls /\ Valid[j].input \in Reads
    BY <1>5, <1>6, <2>1, ElementOfSeq
  <2>4. kinds[j] \in Kinds
    BY <1>2, <2>1 DEF Kinds
  <2>5. /\ Outcome(Valid[j], kinds[j]) \in Outcomes /\ Outcome(Valid[j], kinds[j]).id = Valid[j].id
        /\ Outcome(Valid[j], kinds[j]).input = Valid[j].input
    BY <2>3, <2>4 DEF GoodCalls, Outcomes, Outcome
  <2> QED BY <2>2, <2>3, <2>5 DEF j
<1>9. DOMAIN block = 1 .. m
  OBVIOUS
<1>10. outcomes' = outcomes \o block /\ denials' = denials + Denied(block)
  BY <1>2
<1>11. block \in [1 .. m -> Outcomes]
  BY <1>8
<1> HIDE DEF block, m
<1>12. block \in Seq(Outcomes) /\ Len(block) = m
  BY <1>7, <1>11
<1>13. /\ outcomes' \in Seq(Outcomes) /\ Len(outcomes') = Len(outcomes) + m
       /\ \A k \in 1 .. Len(outcomes) + m :
              outcomes'[k] = IF k <= Len(outcomes) THEN outcomes[k] ELSE block[k - Len(outcomes)]
  BY <1>6, <1>10, <1>12, ConcatProperties
<1>14. denials' \in Nat
  <2>1. Denied(block) \in Nat
    BY <1>12, DeniedType
  <2> QED BY <1>4, <1>10, <2>1 DEF ToolTypes
<1>15. ToolTypes'
  <2>1. cursor' \in Nat /\ cursor' = Len(outcomes') + 1 /\ cursor' <= Len(Valid') + 1
    BY <1>1, <1>4, <1>5, <1>6, <1>7, <1>13
  <2> QED BY <1>1, <1>4, <1>13, <1>14, <2>1 DEF ToolTypes
<1>16. \A k \in 1 .. Len(outcomes') :
          /\ outcomes'[k].id = Valid[k].id /\ outcomes'[k].input = Valid[k].input
          /\ k \in 1 .. Len(outcomes) \/ outcomes'[k].input \in Reads
          /\ k \in 1 .. Len(outcomes) => outcomes'[k] = outcomes[k]
  <2> TAKE k \in 1 .. Len(outcomes')
  <2>1. CASE k \in 1 .. Len(outcomes)
    <3>1. outcomes'[k] = outcomes[k]
      BY <1>6, <1>7, <1>13, <2>1
    <3> QED BY <1>4, <2>1, <3>1 DEF OrderInv
  <2>2. CASE k \notin 1 .. Len(outcomes)
    <3>1. /\ k - Len(outcomes) \in 1 .. m /\ ~(k <= Len(outcomes)) /\ k \in 1 .. Len(outcomes) + m
          /\ cursor + (k - Len(outcomes)) - 1 = k
      BY <1>6, <1>7, <1>13, <2>2
    <3>2. outcomes'[k] = block[k - Len(outcomes)]
      BY <1>13, <3>1
    <3>3. /\ block[k - Len(outcomes)].id = Valid[k].id
          /\ block[k - Len(outcomes)].input = Valid[k].input
          /\ block[k - Len(outcomes)].input \in Reads
      BY <1>8, <3>1
    <3> QED BY <2>2, <3>2, <3>3
  <2> QED BY <2>1, <2>2
<1>17. OrderInv'
  BY <1>1, <1>4, <1>16 DEF OrderInv, Tooling
<1>18. ClaimInv'
  BY <1>1 DEF ClaimInv
<1>19. RanInv'
  BY <1>1 DEF ToolInv, RanInv
<1>20. DoubtInv'
  BY <1>1, <1>3, ToolMarks DEF ToolInv, DoubtInv, InDoubt, Away
<1>21. ResultIsOfTheCall'
  <2>1. DOMAIN outcomes' = 1 .. Len(outcomes')
    BY <1>13
  <2>2. \A i \in Reads : i \notin Writes
    BY LoopAssumption
  <2> QED BY <1>1, <1>6, <1>16, <2>1, <2>2 DEF ToolInv, ResultIsOfTheCall
<1> QED BY <1>3, <1>15, <1>17, <1>18, <1>19, <1>20, <1>21, ToolMarks DEF ToolInv

LEMMA RecordBlockTool ==
    ASSUME TalkInv, ToolInv, RecordBlock
    PROVE  ToolInv'
<1> DEFINE fresh(c) == {i \in Block : outcomes[i].id = c /\ ledger[c].state = "none"}
           o(c) == outcomes[CHOOSE i \in fresh(c) : TRUE]
           entry(c) == [state |-> IF o(c).kind = "ok" THEN "succeeded" ELSE "failed",
                        input |-> o(c).input]
<1>1. pc = "record_block" /\ UNCHANGED <<reply, cursor, outcomes, denials, ran>>
  BY DEF RecordBlock, phase, world
<1>2. ToolStep
  BY DEF ToolStep
<1>3. NoDoubt
  BY <1>1 DEF ToolInv, DoubtInv, NoDoubt, Away
<1>4. CASE pc' = "failing" /\ UNCHANGED ledger
  BY <1>1, <1>2, <1>3, <1>4, ToolQuiet, ToolMarks DEF Tooling
<1>5. CASE /\ pc' = "run"
           /\ ledger' = [c \in CallIds |-> IF fresh(c) = {} THEN ledger[c] ELSE entry(c)]
  <2>1. \A i \in Block : outcomes[i] \in Outcomes /\ outcomes[i].input \in Reads
    <3> TAKE i \in Block
    <3>1. outcomes \in Seq(Outcomes) /\ i \in DOMAIN outcomes
      BY DEF ToolInv, ToolTypes, Block
    <3>2. i \in 1 .. Len(outcomes) /\ Len(outcomes) \in Nat
      BY <3>1, LenProperties
    <3>3. i \in i .. Len(outcomes)
      BY <3>2
    <3> QED BY <3>1, <3>2, <3>3, ElementOfSeq DEF Block
  <2>2. ASSUME NEW c \in CallIds, fresh(c) # {}
        PROVE  /\ entry(c) \in Entries /\ entry(c).state \in {"succeeded", "failed"}
               /\ entry(c).input \in Reads /\ ledger[c].state = "none"
    <3>1. \E i \in fresh(c) : TRUE
      BY <2>2
    <3>2. o(c) \in Outcomes /\ o(c).input \in Reads /\ ledger[c].state = "none"
      <4>1. (CHOOSE i \in fresh(c) : TRUE) \in fresh(c)
        BY <3>1
      <4> QED BY <2>1, <4>1
    <3> HIDE DEF o
    <3> QED BY <3>2 DEF Entries, LedgerStates, Inputs
  <2> HIDE DEF fresh, entry
  <2>3. ASSUME NEW c \in CallIds
        PROVE  /\ ledger'[c] \in Entries
               /\ \/ ledger'[c] = ledger[c]
                  \/ /\ ledger'[c].state \in {"succeeded", "failed"}
                     /\ ledger'[c].input \in Reads /\ ledger[c].state = "none"
    <3>1. ledger'[c] = IF fresh(c) = {} THEN ledger[c] ELSE entry(c)
      BY <1>5
    <3>2. ledger[c] \in Entries
      BY DEF ToolInv, ToolTypes
    <3> QED BY <2>2, <3>1, <3>2
  <2>4. ToolTypes'
    <3>1. ledger' \in [CallIds -> Entries]
      BY <1>5, <2>3
    <3> QED BY <1>1, <3>1 DEF ToolInv, ToolTypes, Valid
  <2>5. OrderInv'
    BY <1>1, <1>5 DEF ToolInv, OrderInv, Valid, Tooling
  <2>6. ClaimInv'
    BY <1>5 DEF ClaimInv
  <2>7. RanInv'
    <3>1. \A i \in Reads : i \notin Writes
      BY LoopAssumption
    <3>2. \A c \in CallIds : ran'[c] = ran[c]
      BY <1>1
    <3> QED BY <2>3, <3>1, <3>2 DEF ToolInv, RanInv
  <2>8. DoubtInv'
    <3>1. \A c \in CallIds : ~InDoubt(c)'
      BY <1>3, <2>3 DEF NoDoubt, InDoubt
    <3> QED BY <1>5, <3>1 DEF DoubtInv
  <2>9. ResultIsOfTheCall'
    BY <1>1 DEF ToolInv, ResultIsOfTheCall
  <2> QED BY <1>2, <2>4, <2>5, <2>6, <2>7, <2>8, <2>9, ToolMarks DEF ToolInv
<1> QED BY <1>4, <1>5 DEF RecordBlock, Goto

LEMMA StutterTool ==
    ASSUME ToolInv, UNCHANGED vars
    PROVE  ToolInv'
<1>1. UNCHANGED <<pc, row, ledger, reply, cursor, outcomes, denials, ran, stored, lostMark>>
  BY DEF vars, durable, phase, world, texts
<1>2. ToolTypes' /\ OrderInv'
  BY <1>1 DEF ToolInv, ToolTypes, OrderInv, Valid
<1>3. ClaimInv'
  BY <1>1 DEF ToolInv, ClaimInv, Current, Valid, LastOf
<1>4. RanInv' /\ ResultIsOfTheCall'
  BY <1>1 DEF ToolInv, RanInv, ResultIsOfTheCall
<1>5. DoubtInv'
  BY <1>1 DEF ToolInv, DoubtInv, InDoubt, Current, Valid, LastOf
<1>6. MarkInv'
  BY <1>1 DEF ToolInv, MarkInv
<1> QED BY <1>2, <1>3, <1>4, <1>5, <1>6 DEF ToolInv

LEMMA ToolInit == Init => ToolInv
<1> SUFFICES ASSUME Init
             PROVE  ToolInv
  OBVIOUS
<1>1. /\ row.state = "input_committed" /\ pc = "begin"
      /\ ledger = [c \in CallIds |-> NoRow] /\ ran = [c \in CallIds |-> <<>>]
      /\ reply = NoReply /\ cursor = 1 /\ outcomes = <<>> /\ denials = 0
  BY DEF Init
<1>2. Valid = <<>> /\ reply \in [text : Texts, calls : Seq(GoodCalls)]
  BY <1>1 DEF Valid, NoReply, Texts
<1>3. NoRow \in Entries /\ NoRow.state = "none"
  BY DEF NoRow, Entries, LedgerStates
<1>4. ToolTypes
  <2>1. ledger \in [CallIds -> Entries] /\ ran \in [CallIds -> Seq(Writes)]
    BY <1>1, <1>3
  <2>2. Len(Valid) = 0 /\ Len(outcomes) = 0 /\ outcomes \in Seq(Outcomes)
    BY <1>1, <1>2
  <2> QED BY <1>1, <1>2, <2>1, <2>2, Bounds DEF ToolTypes
<1>5. OrderInv
  BY <1>1, <1>2 DEF OrderInv
<1>6. ClaimInv
  BY <1>1 DEF ClaimInv
<1>7. RanInv /\ DoubtInv
  BY <1>1, <1>3 DEF RanInv, DoubtInv, InDoubt
<1>8. MarkInv
  BY <1>1 DEF MarkInv, Tooling
<1>9. ResultIsOfTheCall
  BY <1>1 DEF ResultIsOfTheCall
<1> QED BY <1>4, <1>5, <1>6, <1>7, <1>8, <1>9 DEF ToolInv

LEMMA ToolInvStep == TalkInv /\ ToolInv /\ [Next]_vars => ToolInv'
<1> SUFFICES ASSUME TalkInv, ToolInv, [Next]_vars
             PROVE  ToolInv'
  OBVIOUS
<1>1. CASE Executor
  BY <1>1, ModelTool, CompleteModelTool, MarkTool, PhaseTool, EndTool, RefusedTool, ClaimTool,
     EffectTool, RecordTool, ReadBlockTool, RecordBlockTool, RecoverTool, FaultTool DEF Executor
<1>2. CASE Provider
  BY <1>2, ModelTool, AnswerTool DEF Provider
<1>3. CASE DeadlinePasses \/ StorageFails \/ Crash
  BY <1>3, ModelTool, FaultTool, EndTool
<1>4. CASE UNCHANGED vars
  BY <1>4, StutterTool
<1> QED BY <1>1, <1>2, <1>3, <1>4 DEF Next, Settled

LEMMA LoopInvariant == Spec => [](TalkInv /\ ToolInv)
BY TalkInit, TalkStep, ToolInit, ToolInvStep, PTL DEF Spec

LEMMA TypesHold == TalkInv /\ ToolInv => TypeOK
<1> SUFFICES ASSUME TalkInv, ToolInv
             PROVE  TypeOK
  OBVIOUS
<1>1. row \in [state : Resumable \cup Terminal \cup {"model_pending", "model_completed", "tools_pending"},
               iteration : 0 .. MaxIterations, published : BOOLEAN]
  BY DEF TalkInv, StepTypes, RowSet, RowStates
<1>2. ledger \in [CallIds -> [state : LedgerStates, input : Inputs \cup {NoId}]]
  BY DEF ToolInv, ToolTypes, Entries
<1>3. /\ it \in 1 .. MaxIterations + 1 /\ attempt \in 1 .. MaxAttempts
      /\ denials \in Nat /\ sends \in Nat /\ voice \subseteq 1 .. sends
  BY DEF TalkInv, StepTypes, VoiceInv, ToolInv, ToolTypes
<1>4. {emptied, streamed, declared, lostMark} \subseteq BOOLEAN
  BY Zenon DEF TalkInv, Flags
<1>5. /\ Valid \in Seq(GoodCalls) /\ Len(Valid) \in Nat /\ Len(Valid) <= MaxCalls
      /\ outcomes \in Seq(Outcomes) /\ Len(outcomes) \in Nat
      /\ cursor = Len(outcomes) + 1 /\ cursor <= Len(Valid) + 1
      /\ reply \in [text : Texts, calls : Seq(GoodCalls)]
  <2>1. Valid \in Seq(GoodCalls) /\ outcomes \in Seq(Outcomes)
    BY DEF ToolInv, ToolTypes, Valid
  <2> QED BY <2>1, LenProperties DEF ToolInv, ToolTypes
<1>6. cursor \in 1 .. MaxCalls + 1
  BY <1>5, Bounds
<1>7. reply \in Replies
  <2>1. GoodCalls \subseteq Calls
    BY DEF GoodCalls, Calls
  <2>2. Valid \in [1 .. Len(Valid) -> Calls]
    BY <1>5, <2>1
  <2>3. Len(Valid) \in 0 .. MaxCalls
    BY <1>5, Bounds
  <2>4. Valid \in UNION {[1 .. n -> Calls] : n \in 0 .. MaxCalls}
    BY <2>2, <2>3
  <2> HIDE DEF Valid
  <2> QED BY <1>5, <2>4 DEF Replies, Valid
<1>8. \A i \in DOMAIN outcomes : outcomes[i].kind \in Kinds
  <2> TAKE i \in DOMAIN outcomes
  <2>1. outcomes[i] \in Outcomes
    BY <1>5, ElementOfSeq
  <2> QED BY <2>1 DEF Outcomes
<1>9. shown \cup stored \cup discarded \cup spliced \subseteq Iterations
  <2>1. row.iteration \in 0 .. MaxIterations
    BY RowFields DEF TalkInv, StepTypes
  <2>2. \A n \in 1 .. row.iteration : n \in 1 .. MaxIterations
    BY <2>1, Bounds
  <2> QED BY <2>2 DEF TalkInv, TextInv, Iterations
<1> QED BY <1>1, <1>2, <1>3, <1>4, <1>6, <1>7, <1>8, <1>9 DEF TypeOK

(* Tool calls act at most once: a call id of a Turn has its side effect once *)
(* however often the provider repeats it and wherever the process dies and   *)
(* is resumed; a result that claims success stands for an execution of that  *)
(* input (claim_tool_execution, its input hash); and the calls of a reply    *)
(* are answered one for one and in order (execute_tool_calls).               *)
THEOREM CallsActOnce == Spec => []EffectsOnce
<1>1. TalkInv /\ ToolInv => EffectsOnce
  <2> SUFFICES ASSUME TalkInv, ToolInv
               PROVE  EffectsOnce
    OBVIOUS
  <2>1. AtMostOnce
    <3> SUFFICES ASSUME NEW c \in CallIds
                 PROVE  Len(ran[c]) <= 1
      BY DEF AtMostOnce
    <3>1. CASE ran[c] = <<>>
      <4>1. Len(ran[c]) = 0
        BY <3>1
      <4> QED BY <4>1
    <3>2. CASE ran[c] # <<>>
      <4>1. ran[c] = <<ledger[c].input>>
        BY <3>2 DEF ToolInv, RanInv
      <4>2. Len(ran[c]) = 1
        BY <4>1
      <4> QED BY <4>2
    <3> QED BY <3>1, <3>2
  <2>2. AnsweredInOrder
    <3>1. outcomes \in Seq(Outcomes) /\ Valid \in Seq(GoodCalls)
      BY DEF ToolInv, ToolTypes, Valid
    <3>2. /\ DOMAIN outcomes = 1 .. Len(outcomes) /\ DOMAIN Valid = 1 .. Len(Valid)
          /\ Len(outcomes) \in Nat /\ Len(Valid) \in Nat
      BY <3>1, LenProperties
    <3>3. pc = "complete_tools" => Len(outcomes) = Len(Valid)
      <4>1. cursor = Len(outcomes) + 1 /\ cursor <= Len(Valid) + 1
        BY DEF ToolInv, ToolTypes
      <4>2. pc = "complete_tools" => cursor > Len(Valid)
        BY DEF ToolInv, OrderInv
      <4>3. ASSUME NEW x \in Nat, NEW y \in Nat, x + 1 <= y + 1, x + 1 > y
            PROVE  x = y
        BY <4>3
      <4> QED BY <3>2, <4>1, <4>2, <4>3
    <3> QED BY <3>2, <3>3 DEF ToolInv, OrderInv, AnsweredInOrder
  <2> QED BY <2>1, <2>2 DEF ToolInv, EffectsOnce
<1> QED BY <1>1, LoopInvariant, PTL

(* What a tool did can be told from the rows: its call is in the ledger      *)
(* before it acts, its message stored and the row marked published unless    *)
(* the mark could not be written; a Turn that is failed had no effect; and a *)
(* row that a restart resumes leaves no call in doubt.                       *)
THEOREM EffectsStayOnRecord == Spec => []EffectsOnRecord
<1>1. TalkInv /\ ToolInv => EffectsOnRecord
  <2> SUFFICES ASSUME TalkInv, ToolInv
               PROVE  EffectsOnRecord
    OBVIOUS
  <2>1. EffectIsOnRecord
    <3> SUFFICES ASSUME NEW c \in CallIds, ran[c] # <<>>
                 PROVE  /\ ledger[c].state # "none" /\ ledger[c].input = ran[c][1]
                        /\ stored # {} /\ (row.published \/ lostMark)
      BY DEF EffectIsOnRecord
    <3>1. ledger[c].state # "none" /\ ran[c] = <<ledger[c].input>>
      BY DEF ToolInv, RanInv
    <3>2. ran[c][1] = ledger[c].input
      BY <3>1
    <3>3. stored # {} /\ (row.published \/ lostMark)
      BY DEF ToolInv, MarkInv
    <3> QED BY <3>1, <3>2, <3>3
  <2>2. FailedHadNoEffect
    BY DEF ToolInv, MarkInv, FailedHadNoEffect
  <2>3. ResumableIsSettled
    BY DEF ToolInv, DoubtInv, InDoubt, ResumableIsSettled
  <2> QED BY <2>1, <2>2, <2>3, TypesHold DEF EffectsOnRecord
<1> QED BY <1>1, LoopInvariant, PTL

(* After GUARD_DENIAL_LIMIT denials a run starts no other side effect: a     *)
(* tool acts only in a step whose denial count is below the limit.           *)
THEOREM DenialsStopEffects == Spec => DenialStops
<1>1. ToolInv /\ [Next]_vars => [ran' # ran => denials < DenialLimit]_vars
  <2> SUFFICES ASSUME ToolInv, [Next]_vars, ran' # ran
               PROVE  denials < DenialLimit
    OBVIOUS
  <2> USE DEF durable, phase, world, texts
  <2>1. Effect
    <3>1. CASE Executor
      <4>1. ASSUME \/ BeginModel \/ Send \/ Retry \/ CompleteModel \/ BeginTools \/ Mark
                   \/ PersistCall \/ PersistResults \/ CompleteTools \/ CommitStaged
                   \/ PersistFinal \/ CompleteTurn \/ Fail
            PROVE  UNCHANGED ran
        BY <4>1 DEF BeginModel, Send, Retry, CompleteModel, BeginTools, Mark, PersistCall, PersistResults,
               CompleteTools, CommitStaged, PersistFinal, CompleteTurn, Fail
      <4>2. ASSUME \/ Reject \/ Invalid \/ Claim \/ Record \/ ReadBlock \/ RecordBlock
                   \/ RecoverRunningTools \/ RecoverInterruptedTurns \/ Resume
            PROVE  UNCHANGED ran
        BY <4>2 DEF Reject, Invalid, Claim, Record, ReadBlock, RecordBlock, RecoverRunningTools,
               RecoverInterruptedTurns, Resume
      <4> QED BY <3>1, <4>1, <4>2 DEF Executor
    <3>2. CASE Provider
      BY <3>2 DEF Provider, Delta, TransientError, PermanentError, EmptyReply, Answer
    <3>3. CASE DeadlinePasses \/ StorageFails \/ Crash
      BY <3>3 DEF DeadlinePasses, StorageFails, Crash
    <3>4. CASE UNCHANGED vars
      BY <3>4 DEF vars
    <3> QED BY <3>1, <3>2, <3>3, <3>4 DEF Next, Settled
  <2>2. pc = "effect"
    BY <2>1 DEF Effect
  <2> QED BY <2>2 DEF ToolInv, ClaimInv
<1> QED BY <1>1, LoopInvariant, PTL DEF Spec, DenialStops
=============================================================================
