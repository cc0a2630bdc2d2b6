----------------------------- MODULE SessionLog -----------------------------
(***************************************************************************)
(* The conversation of one chat: the message rows and the session snapshot *)
(* (what the model is shown), written together under an optimistic lock on *)
(* chats.revision.  Turns write it phase by phase and carry the snapshot   *)
(* they last wrote in memory; pulse notifications, /new, /compact and the  *)
(* truncation of the sleep batch write it at the same time.  Sources:      *)
(* storage/chat.rs, agent_loop/session.rs, agent_loop/turn/persistence.rs, *)
(* agent_loop/compaction.rs, slash_commands.rs, pulse/output.rs,           *)
(* sleep/orchestrator.rs.                                                  *)
(*                                                                         *)
(* One tool call stands for the calls of a phase, and messages of one role *)
(* that compaction joins into one stay two.                                *)
(***************************************************************************)
EXTENDS Integers, FiniteSets, SequencesExt

CONSTANTS
    UserTurns, Pulses,  \* turns of the chat, notifications of pulse runs to it
    Nobody,         \* no writer: the author of a summary
    Commands,       \* runs of /new, /compact and the sleep batch's truncation
    KeepRecent,     \* compact_keep_recent
    ClearKeep,      \* SESSION_CLEAR_KEEP_RECENT
    MaxPhases,      \* bound on the tool phases of a turn (MAX_TOOL_ITERATIONS)
    MaxUpsets     \* bound on commands and restarts

ASSUME SessionLogAssumption ==
    /\ {KeepRecent, ClearKeep, MaxPhases, MaxUpsets} \subseteq Nat
    /\ KeepRecent > 0
    /\ IsFiniteSet(UserTurns) /\ UserTurns \cap Pulses = {} /\ Nobody \notin UserTurns \cup Pulses

Writers == UserTurns \cup Pulses

VARIABLES
    rows,       \* ids of the messages rows of the conversation, by seq
    snap,       \* sessions.messages_json
    exists,     \* the sessions row is there
    revision,   \* chats.revision
    writer,     \* what each turn and each notification holds in memory
    command,    \* and each command
    dropped,    \* ids a command or compaction that had read them took out
    cleared,    \* those of them that /new took out
    overwritten, revived,   \* ids /compact lost, or put back, unseen
    upsets

store == <<rows, snap, exists, revision>>
logGhosts == <<dropped, cleared, overwritten, revived>>
logVars == <<store, writer, command, logGhosts, upsets>>

-----------------------------------------------------------------------------
(* Messages.                                                                *)

Message(kind, w, n) == [kind |-> kind, by |-> w, n |-> n, of |-> {}]
Id(m) == <<m.by, m.kind, m.n>>

Summary(ids) == [kind |-> "summary", by |-> Nobody, n |-> 0, of |-> ids]

IsTool(m) == m.kind \in {"result", "orphan"}
IsUser(m) == m.kind \in {"user", "summary"}
IsAssistant(m) == m.kind \in {"call", "final"}
Answers(m, c) == IsTool(m) /\ m.by = c.by /\ m.n = c.n

(* The ids of which a snapshot holds the message or a summary.              *)
Told(m) == IF m.kind = "summary" THEN m.of ELSE IF m.kind = "orphan" THEN {} ELSE {Id(m)}
Covers(s) == UNION {Told(s[i]) : i \in DOMAIN s}

(* The messages of the items, in the order of their places.                 *)
InOrder(items) ==
    [k \in 1..Cardinality(items) |->
        (CHOOSE x \in items : Cardinality({y \in items : y.at <= x.at}) = k).m]

(* The tool messages right after the i-th message end at q.                 *)
RunUpTo(s, i, q) == \A l \in i + 1..q : IsTool(s[l])

(* The output of the call s[i] is among the tool messages right after it.   *)
AnsweredAt(s, i) == \E k \in i + 1..Len(s) : Answers(s[k], s[i]) /\ RunUpTo(s, i, k)

(* repair_orphan_tool_outputs: a call whose output is not among the tool    *)
(* messages right after it gets one, behind them, that says so.             *)
Repair(s) ==
    LET open == {i \in DOMAIN s : s[i].kind = "call" /\ ~AnsweredAt(s, i)}
        behind(i) == Max({q \in i..Len(s) : RunUpTo(s, i, q)})
    IN InOrder({[at |-> 2 * i, m |-> s[i]] : i \in DOMAIN s}
               \cup {[at |-> 2 * behind(i) + 1, m |-> [s[i] EXCEPT !.kind = "orphan"]] : i \in open})

(* find_tool_call_parent among the first messages.                          *)
Parents(s, p) == {i \in 1..p : s[i].kind = "call" /\ Answers(s[p + 1], s[i])}

(* tool_safe_split_at: not between a call and its output, and past outputs  *)
(* that have no call.                                                       *)
ToolSafeSplitAt(s, preferred) ==
    LET stops == {q \in preferred..Len(s) :
                    q = Len(s) \/ ~IsTool(s[q + 1]) \/ Parents(s, q) # {}}
        q == Min(stops)
    IN IF q < Len(s) /\ IsTool(s[q + 1]) THEN Max(Parents(s, q)) - 1 ELSE q

(* Mutant of CompactionSplitAt: the split may fall anywhere.                *)
CompactionSplitAnywhere(s) == Len(s) - Min({KeepRecent, Len(s)})

(* compaction_split_at: how many messages are summarised; never the latest  *)
(* user message or anything after it.                                       *)
CompactionSplitAt(s) ==
    LET desired == Len(s) - Min({KeepRecent, Len(s)})
        users == {i \in DOMAIN s : IsUser(s[i])}
    IN ToolSafeSplitAt(s, IF users = {} THEN desired ELSE Min({desired, Max(users) - 1}))

(* build_compacted_messages: a trailing assistant message is taken off.     *)
Compacted(s) ==
    LET split == CompactionSplitAt(s)
        kept == <<Summary(Covers(SubSeq(s, 1, split)))>> \o SubSeq(s, split + 1, Len(s))
    IN IF split = 0 THEN s ELSE IF IsAssistant(Last(kept)) THEN Front(kept) ELSE kept

(* safety_compact, if it is due: the summary may also fail, and the         *)
(* messages stay as they are.                                               *)
SafetyCompact(s) == {s, Compacted(s)}

(* truncate_messages_json: the last few messages that are not about tools.  *)
TruncateMessages(s) ==
    LET retained == InOrder({[at |-> i, m |-> s[i]] :
                                i \in {j \in DOMAIN s : ~IsTool(s[j]) /\ s[j].kind # "call"}})
    IN SubSeq(retained, Len(retained) - Min({ClearKeep, Len(retained)}) + 1, Len(retained))

-----------------------------------------------------------------------------
(* The store.                                                               *)

NoRevision == -1    \* None

(* load_session_snapshot: the revision counts only with a sessions row.     *)
Token == IF exists THEN revision ELSE NoRevision

(* read_conversation_commit_cursor: SessionSnapshotConflict.                *)
Conflict(r) == IF r = NoRevision THEN exists ELSE r # revision

(* commit_message_locked: the row and the snapshot in one transaction.      *)
CommitMessage(m, messages) ==
    /\ rows' = Append(rows, Id(m))
    /\ snap' = messages /\ exists' = TRUE /\ revision' = revision + 1

(* update_session_snapshot: the snapshot alone.                             *)
UpdateSnapshot(messages) ==
    /\ snap' = messages /\ exists' = TRUE /\ revision' = revision + 1
    /\ UNCHANGED rows

-----------------------------------------------------------------------------
(* Turns and notifications.                                                 *)

Absent == [pc |-> "idle", mem |-> <<>>, rev |-> NoRevision, retried |-> FALSE, n |-> 0]
Writing == {"input", "call", "result", "follow", "final"}
Ended == {"done", "failed"}

LogInit ==
    /\ rows = <<>> /\ snap = <<>> /\ exists = FALSE /\ revision = 0
    /\ writer = [w \in Writers |-> Absent]
    /\ command = [c \in Commands |-> [kind |-> "idle", mem |-> <<>>, rev |-> NoRevision]]
    /\ dropped = {} /\ cleared = {} /\ overwritten = {} /\ revived = {} /\ upsets = 0

Trouble == upsets < MaxUpsets /\ upsets' = upsets + 1

Out(w) ==
    LET n == writer[w].n IN
    CASE writer[w].pc = "input" -> Message("user", w, 0)
      [] writer[w].pc = "follow" -> Message("user", w, n)
      [] OTHER -> Message(writer[w].pc, w, n)

(* load_messages_for_turn.                                                  *)
Loaded(w) == [writer[w] EXCEPT !.mem = Repair(snap), !.rev = Token]

(* One turn of a session runs at a time (TurnQueue, OneTaskPerSession).     *)
Load(w) ==
    /\ writer[w].pc = "idle"
    /\ w \in UserTurns => \A t \in UserTurns : writer[t].pc \in {"idle"} \cup Ended
    /\ writer' = [writer EXCEPT ![w] = [Loaded(w) EXCEPT !.pc = "input"]]
    /\ UNCHANGED <<store, command, logGhosts, upsets>>

Following(w) ==
    CASE writer[w].pc = "input" -> IF w \in UserTurns THEN {"model"} ELSE {"call", "final"}
      [] writer[w].pc = "call" -> {"result"}
      [] writer[w].pc = "result" -> IF w \in UserTurns THEN {"staged"} ELSE {"final"}
      [] writer[w].pc = "follow" -> {"compact"}
      [] writer[w].pc = "final" -> {"done"}

(* The phase's message after all that was loaded.                           *)
Candidate(w) == Append(writer[w].mem, Out(w))

(* persist_user_input compacts what it is about to save, persist_phase      *)
(* saves what it holds;                                                     *)
Candidates(w) == IF w \in UserTurns /\ writer[w].pc = "input" THEN SafetyCompact(Candidate(w))
                 ELSE {Candidate(w)}

(* what was saved is what the writer goes on with.                          *)
Persist(w) ==
    /\ writer[w].pc \in Writing /\ ~Conflict(writer[w].rev)
    /\ \E messages \in Candidates(w) :
          /\ CommitMessage(Out(w), messages)
          /\ \E pc \in Following(w) :
                writer' = [writer EXCEPT ![w] =
                    IF pc = "done" THEN [Absent EXCEPT !.pc = pc]
                    ELSE [@ EXCEPT !.mem = messages, !.rev = revision + 1,
                                   !.pc = pc, !.retried = FALSE]]
    /\ UNCHANGED <<command, logGhosts, upsets>>

(* The first conflict of a phase: read the latest, put the phase's message  *)
(* after it.                                                                *)
Reload(w) ==
    /\ writer[w].pc \in Writing /\ Conflict(writer[w].rev) /\ ~writer[w].retried
    /\ writer' = [writer EXCEPT ![w] = [Loaded(w) EXCEPT !.retried = TRUE]]
    /\ UNCHANGED <<store, command, logGhosts, upsets>>

(* record_turn_failure_message_locked: a row the session never sees; it     *)
(* moves the revision on.                                                   *)
RecordFailure(failed) == revision' = revision + Cardinality(failed \cap UserTurns)

(* The second conflict of a phase fails the turn.                           *)
GiveUp(w) ==
    /\ writer[w].pc \in Writing /\ Conflict(writer[w].rev) /\ writer[w].retried
    /\ writer' = [writer EXCEPT ![w] = [Absent EXCEPT !.pc = "failed"]]
    /\ RecordFailure({w})
    /\ UNCHANGED <<rows, snap, exists, command, logGhosts, upsets>>

(* The model is shown mem and asks for a tool, or answers.                  *)
ModelStep(t) ==
    /\ writer[t].pc = "model"
    /\ \/ /\ writer[t].n < MaxPhases
          /\ writer' = [writer EXCEPT ![t].pc = "call", ![t].n = @ + 1]
       \/ writer' = [writer EXCEPT ![t].pc = "final"]
    /\ UNCHANGED <<store, command, logGhosts, upsets>>

(* commit_staged_user_messages, if a follow-up is staged.                   *)
ListStaged(t) ==
    /\ writer[t].pc = "staged"
    /\ \E pc \in {"follow", "compact"} :
          /\ pc = "follow" => Id(Message("user", t, writer[t].n)) \notin Range(rows)
          /\ writer' = [writer EXCEPT ![t].pc = pc]
    /\ UNCHANGED <<store, command, logGhosts, upsets>>

(* After the tool phase the loop compacts what it holds, not the store.  An *)
(* assistant message another writer left at the end is taken off with it.   *)
CompactInLoop(t) ==
    /\ writer[t].pc = "compact"
    /\ \E messages \in SafetyCompact(writer[t].mem) :
          /\ writer' = [writer EXCEPT ![t].mem = messages, ![t].pc = "model"]
          /\ dropped' = dropped \cup (Covers(writer[t].mem) \ Covers(messages))
    /\ UNCHANGED <<store, command, cleared, overwritten, revived, upsets>>

-----------------------------------------------------------------------------
(* Commands: each reads the snapshot, and writes it later.                  *)

Begin(c, kind) ==
    /\ command[c].kind = "idle" /\ exists /\ Trouble
    /\ kind = "compact" => snap # <<>>
    /\ command' = [command EXCEPT ![c] =
         [kind |-> kind, mem |-> IF kind = "compact" THEN Repair(snap) ELSE snap, rev |-> Token]]
    /\ UNCHANGED <<store, writer, logGhosts>>

Finish(c) == command' = [command EXCEPT ![c] = [kind |-> "done", mem |-> <<>>, rev |-> NoRevision]]

(* Mutant of ClearSession: the lock is not asked.                           *)
ClearSessionBlind(c) ==
    /\ command[c].kind = "new"
    /\ UpdateSnapshot(<<>>)
    /\ dropped' = dropped \cup Covers(command[c].mem)
    /\ cleared' = cleared \cup Covers(command[c].mem)
    /\ Finish(c)
    /\ UNCHANGED <<writer, overwritten, revived, upsets>>

(* handle_new: clear_session_messages; a conflict counts as success.        *)
ClearSession(c) ==
    /\ command[c].kind = "new"
    /\ IF Conflict(command[c].rev) THEN UNCHANGED <<store, dropped, cleared>>
       ELSE /\ UpdateSnapshot(<<>>)
            /\ dropped' = dropped \cup Covers(command[c].mem)
            /\ cleared' = cleared \cup Covers(command[c].mem)
    /\ Finish(c)
    /\ UNCHANGED <<writer, overwritten, revived, upsets>>

(* archive_and_truncate: truncate_session_messages.                         *)
TruncateSession(c) ==
    /\ command[c].kind = "truncate"
    /\ LET kept == TruncateMessages(command[c].mem) IN
       IF Conflict(command[c].rev) THEN UNCHANGED <<store, dropped>>
       ELSE /\ UpdateSnapshot(kept)
            /\ dropped' = dropped \cup (Covers(command[c].mem) \ Covers(kept))
    /\ Finish(c)
    /\ UNCHANGED <<writer, cleared, overwritten, revived, upsets>>

(* handle_compact: save_session, whatever was written since.                *)
SaveCompacted(c) ==
    /\ command[c].kind = "compact"
    /\ \E messages \in SafetyCompact(command[c].mem) :
          /\ UpdateSnapshot(messages)
          /\ dropped' = dropped \cup (Covers(command[c].mem) \ Covers(messages))
          /\ overwritten' = overwritten \cup (Covers(snap) \ Covers(command[c].mem))
          /\ revived' = revived \cup (Covers(messages) \ Covers(snap))
    /\ Finish(c)
    /\ UNCHANGED <<writer, cleared, upsets>>

-----------------------------------------------------------------------------
(* Restart.                                                                 *)

(* Where startup recovery leaves a turn (TurnRuns): at the start, to be     *)
(* resumed from its input or its tool results, or stopped.                  *)
Recovered(w) ==
    CASE writer[w].pc \in {"idle", "done", "failed"} -> {writer[w].pc}
      [] w \in Pulses -> {"failed"}
      [] writer[w].pc = "input" -> {"idle"}
      [] writer[w].pc = "model" -> {"resume", "failed"}
      [] writer[w].pc \in {"staged", "follow", "compact", "resume"} -> {"resume"}
      [] OTHER -> {"failed"}

LogCrash ==
    /\ Trouble
    /\ \E pc \in [Writers -> {"idle", "done", "failed", "resume"}] :
          /\ \A w \in Writers : pc[w] \in Recovered(w)
          /\ writer' = [w \in Writers |-> [Absent EXCEPT !.pc = pc[w], !.n = writer[w].n]]
          /\ RecordFailure({w \in Writers : pc[w] = "failed" /\ writer[w].pc # "failed"})
    /\ command' = [c \in Commands |-> IF command[c].kind = "idle" THEN command[c]
                                      ELSE [kind |-> "done", mem |-> <<>>, rev |-> NoRevision]]
    /\ UNCHANGED <<rows, snap, exists, logGhosts>>

(* resume_run reads the snapshot again; after tools the follow-ups that     *)
(* were staged come first.                                                  *)
ResumeTurn(t) ==
    /\ writer[t].pc = "resume"
    /\ writer' = [writer EXCEPT ![t] = [Loaded(t) EXCEPT
                    !.pc = IF writer[t].n = 0 THEN "model" ELSE "staged"]]
    /\ UNCHANGED <<store, command, logGhosts, upsets>>

AllEnded ==
    /\ \A w \in Writers : writer[w].pc \in Ended
    /\ \A c \in Commands : command[c].kind \in {"idle", "done"}
    /\ UNCHANGED logVars

LogNext ==
    \/ \E w \in Writers : Load(w) \/ Persist(w) \/ Reload(w) \/ GiveUp(w)
    \/ \E t \in UserTurns : ModelStep(t) \/ ListStaged(t) \/ CompactInLoop(t) \/ ResumeTurn(t)
    \/ \E c \in Commands : \/ \E kind \in {"new", "compact", "truncate"} : Begin(c, kind)
                           \/ ClearSession(c) \/ TruncateSession(c) \/ SaveCompacted(c)
    \/ LogCrash \/ AllEnded

LogSpec == LogInit /\ [][LogNext]_logVars

-----------------------------------------------------------------------------
(* Properties.                                                              *)

Ids == Writers \X {"user", "call", "result", "final"} \X (0..MaxPhases)
Messages == [kind : {"user", "call", "result", "final", "orphan"}, by : Writers,
             n : 0..MaxPhases, of : {{}}]
            \cup [kind : {"summary"}, by : {Nobody}, n : {0}, of : SUBSET Ids]

LogTypeOK ==
    /\ Range(rows) \subseteq Ids /\ IsInjective(rows)
    /\ exists \in BOOLEAN /\ revision \in Nat
    /\ \A w \in Writers :
         /\ writer[w].rev \in Nat \cup {NoRevision} /\ writer[w].n \in 0..MaxPhases
         /\ writer[w].pc \in Writing \cup Ended \cup {"idle", "model", "staged", "compact", "resume"}
    /\ \A s \in {snap} \cup {writer[w].mem : w \in Writers} \cup {command[c].mem : c \in Commands} :
         \A i \in DOMAIN s : s[i] \in Messages
    /\ \A g \in {dropped, cleared, overwritten, revived} : g \subseteq Ids

(* No message of the conversation is lost from what the model will be       *)
(* shown: each is in the snapshot or in a summary there, unless a command   *)
(* or a compaction that had read it took it out, or a /compact wrote over   *)
(* it.                                                                      *)
NoLost == Range(rows) \subseteq Covers(snap) \cup dropped \cup overwritten

(* What /new cleared stays cleared: a turn that still holds the old         *)
(* conversation does not write it back.  (A /compact does.)                 *)
ClearedStays == cleared \cap Covers(snap) \subseteq revived

(* The optimistic lock is honest: who would be let through knows all that   *)
(* the write replaces.                                                      *)
LockIsHonest ==
    \A w \in Writers : writer[w].pc \in Writing /\ ~Conflict(writer[w].rev)
                         => Covers(snap) \subseteq Covers(writer[w].mem) \cup dropped

(* What the model is shown has an output right after every call: providers  *)
(* refuse a conversation with a call that is not answered.                  *)
CallsAnswered ==
    \A t \in UserTurns : writer[t].pc = "model" =>
        LET s == writer[t].mem IN
        \A i \in DOMAIN s : s[i].kind = "call" => AnsweredAt(s, i)

(* The model is shown all of the turn it is asked to go on with, unless a   *)
(* command took it out.                                                     *)
OwnTurnShown ==
    \A t \in UserTurns : writer[t].pc = "model" =>
        {id \in Range(rows) : id[1] = t}
          \subseteq Covers(writer[t].mem) \cup dropped \cup overwritten

(* The request that is being answered is shown in its own words, not as a   *)
(* summary, unless a later user message takes its place as the latest.      *)
LatestUserShown ==
    \A t \in UserTurns : writer[t].pc = "model" /\ dropped = {} /\ overwritten = {} =>
        \E i \in DOMAIN writer[t].mem :
            writer[t].mem[i].kind = "user"
            /\ \A j \in DOMAIN rows : rows[j][2] = "user" /\ rows[j][1] = t =>
                 \E k \in DOMAIN rows : rows[k] = Id(writer[t].mem[i]) /\ j <= k

(* The snapshot tells the conversation in the order of its rows.            *)
SnapFollowsRows ==
    \A i, j \in DOMAIN snap :
        i < j /\ Id(snap[i]) \in Range(rows) /\ Id(snap[j]) \in Range(rows) =>
            \E k, l \in DOMAIN rows : rows[k] = Id(snap[i]) /\ rows[l] = Id(snap[j]) /\ k < l

(* "session snapshot 保存には楽観ロックを使う": no writer of the snapshot   *)
(* undoes what another wrote since it read it.                              *)
NothingOverwritten == overwritten = {} /\ revived = {}

(* The conversation under concurrent writers: no message is lost from what  *)
(* the model is shown, cleared ones stay away, a writer that holds a stale  *)
(* revision is refused, and the snapshot keeps the order of the rows.       *)
LogKept == LogTypeOK /\ NoLost /\ ClearedStays /\ LockIsHonest /\ SnapFollowsRows

(* What a provider is sent after compactions, clears, crashes and resumes:  *)
(* every call has its result, and the request holds its own turn and the    *)
(* latest words of the user.                                                *)
RequestWhole == CallsAnswered /\ OwnTurnShown /\ LatestUserShown
=============================================================================
