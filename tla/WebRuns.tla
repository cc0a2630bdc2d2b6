------------------------------- MODULE WebRuns -------------------------------
(***************************************************************************)
(* What a browser sees of a turn: the RunHub's replayable channel of a     *)
(* run, the publisher that copies a turn observer's events into it, the    *)
(* forwarders of the WebSocket connections, the web input boundary         *)
(* accept_web_input, and the Web UI's transport, which keeps the last      *)
(* sequence number it applied and resubscribes after a lost connection.    *)
(*                                                                         *)
(* One run: its own turn (1) and, when that fails with a follow-up staged, *)
(* the child turn (2) the follow-up becomes, which inherits the observer.  *)
(* Turns and observers are those of Followups and TurnObservers, cut down  *)
(* to what reaches the stream.  Event content is its id, the turn it is    *)
(* of, whether it ends that turn, and `terminal`.                          *)
(***************************************************************************)
EXTENDS Naturals, Sequences, SequencesExt, FiniteSets

CONSTANTS
    Clients,       \* browser tabs
    Starter,       \* the one whose message starts the run
    NoClient,      \* no client
    Limit,         \* RUN_HISTORY_LIMIT and the broadcast channel's capacity
    MaxDeltas,     \* bound: streamed events of the run
    MaxFollowUps,  \* bound: follow-ups sent
    MaxTroubles    \* bound: lost connections, late acks and restarts of the process

ASSUME WebAssumption ==
    /\ Starter \in Clients /\ NoClient \notin Clients /\ Limit \in Nat \ {0}
    /\ MaxDeltas \in Nat /\ MaxFollowUps \in Nat /\ MaxTroubles \in Nat

VARIABLES
    turn,      \* each turn: none, live, ended (its row), told (its observer)
    failed,    \* the turns that failed
    staged,    \* a follow-up is staged on turn 1
    mute,      \* turn 1 was resumed after a restart: EventEmitter::none()
    route,     \* the turn whose key leads to the observer, 0 when none does
    oq,        \* events in the observer's channel
    pub,       \* its publisher: none, held (observer not yet handed on), on
    hub,       \* the run's channel, or NoChannel
    timers,    \* pending remove_later tasks
    req,       \* the accept_web_input under way (it holds the session lock)
    cl,        \* each client and its connection's forwarder
    made,      \* channels made so far
    deltas, ups, troubles,  \* spent bounds
    cut, hush  \* history: a terminal result was published although the child
               \*   lived; a resumed turn completed with nothing to say

run  == <<turn, failed, staged, mute, deltas, ups>>
obs  == <<route, oq, pub>>
past == <<troubles, cut, hush>>
webVars == <<turn, failed, staged, mute, route, oq, pub, hub, timers, req, cl, made,
          deltas, ups, troubles, cut, hush>>

RunTurns == {1, 2}
NoChannel == [on |-> FALSE, gen |-> 0, hist |-> <<>>, next |-> 1, done |-> FALSE]
NoRequest == [c |-> NoClient, pc |-> "idle", ack |-> "awaited"]
NoForward == [at |-> "none", replay |-> <<>>, live |-> <<>>, open |-> FALSE, done |-> FALSE]
FwdOver == [NoForward EXCEPT !.at = "over"]
\* `unsure`: sent, no ack; `lossy`: events were dropped without notice;
\* `astray`: the numbers it counts on are of another channel, or its
\* forwarder found no channel; `base`: the channel `last` is a number of, and
\* `mixed`: those read with a number of another one
NewClient == [conn |-> TRUE, unsure |-> FALSE, track |-> FALSE, last |-> 0, resub |-> FALSE,
              base |-> 0, mixed |-> {}, fwd |-> NoForward, got |-> {}, lossy |-> FALSE, astray |-> FALSE,
              reset |-> FALSE, twice |-> FALSE]

Event(i, end, terminal) == [turn |-> i, end |-> end, terminal |-> terminal]
Over(i) == turn[i] \in {"ended", "told"}

WebInit ==
    /\ turn = [i \in RunTurns |-> "none"] /\ failed = {} /\ staged = FALSE /\ mute = FALSE
    /\ route = 0 /\ oq = <<>> /\ pub = "none"
    /\ hub = NoChannel /\ timers = 0 /\ req = NoRequest
    /\ cl = [c \in Clients |-> NewClient]
    /\ made = 0 /\ deltas = 0 /\ ups = 0 /\ troubles = 0
    /\ cut = FALSE /\ hush = FALSE

-----------------------------------------------------------------------------
(* RunHub *)

\* create_if_absent
Created(h) == IF h.on THEN h ELSE [NoChannel EXCEPT !.on = TRUE, !.gen = made + 1]
CountMade == made' = IF hub.on THEN made ELSE made + 1

\* publish_locked: number the event, keep the last Limit of them
Published(h, e) ==
    [h EXCEPT !.next = @ + 1, !.done = @ \/ e.terminal,
       !.hist = Append(IF Len(@) >= Limit THEN Tail(@) ELSE @,
                       [gen |-> h.gen, id |-> h.next, turn |-> e.turn, end |-> e.end, terminal |-> e.terminal])]

\* broadcast: every open subscription gets the event; one that lags loses its oldest
Broadcast(cs, h, e) ==
    [c \in Clients |->
       IF ~cs[c].fwd.open THEN cs[c]
       ELSE LET full == Len(cs[c].fwd.live) >= Limit
                rest == IF full THEN Tail(cs[c].fwd.live) ELSE cs[c].fwd.live
            IN [cs[c] EXCEPT !.fwd.live = Append(rest, Last(Published(h, e).hist)),
                             !.lossy = @ \/ full]]

\* publish, publish_agent_response, publish_agent_error: nothing after `done`
Publish(e) ==
    IF hub.on /\ ~hub.done
    THEN hub' = Published(hub, e) /\ cl' = Broadcast(cl, hub, e)
    ELSE UNCHANGED <<hub, cl>>

\* A staged follow-up is still to run, or to be heard of
ChildToCome ==
    staged \/ turn[2] \in {"live", "ended"} \/ \E k \in DOMAIN oq : oq[k].turn = 2

\* Bug: a terminal result is published although the channel has one
PublishTerminalAlways(i, cs) ==
    LET h == Created(hub)
        e == Event(i, TRUE, TRUE)
    IN /\ hub' = Published(h, e)
       /\ cl' = Broadcast(cs, h, e)
       /\ timers' = timers + 1
       /\ CountMade
       /\ cut' = (cut \/ (~h.done /\ ChildToCome))

\* publish_terminal_if_absent, and publish_terminal_web_run's remove_later
PublishTerminal(i, cs) ==
    LET h == Created(hub)
        e == Event(i, TRUE, TRUE)
    IN /\ hub' = IF h.done THEN h ELSE Published(h, e)
       /\ cl' = IF h.done THEN cs ELSE Broadcast(cs, h, e)
       /\ timers' = timers + 1
       /\ CountMade
       /\ cut' = (cut \/ (~h.done /\ ChildToCome))

\* The sleeping task of remove_later; receivers keep what they have, then Closed
RemoveLater ==
    /\ timers > 0 /\ timers' = timers - 1
    /\ hub' = NoChannel
    /\ cl' = [c \in Clients |-> [cl[c] EXCEPT !.fwd.open = FALSE]]
    /\ UNCHANGED <<run, obs, req, made, past>>

-----------------------------------------------------------------------------
(* The turns and their observer *)

Heard(i) == route = i /\ pub # "none"

\* A streamed event of a running turn
Emit(i) ==
    /\ turn[i] = "live" /\ Heard(i) /\ ~(i = 1 /\ mute) /\ deltas < MaxDeltas
    /\ deltas' = deltas + 1
    /\ oq' = Append(oq, Event(i, FALSE, FALSE))
    /\ UNCHANGED <<turn, failed, staged, mute, ups, route, pub, hub, timers, req, cl, made, past>>

\* The tool phase ends: the staged follow-up joins turn 1
Inject ==
    /\ turn[1] = "live" /\ staged /\ staged' = FALSE
    /\ UNCHANGED <<turn, failed, mute, deltas, ups, obs, hub, timers, req, cl, made, past>>

\* The turn's row becomes terminal
RowEnds(i) ==
    /\ turn[i] = "live" /\ turn' = [turn EXCEPT ![i] = "ended"]
    /\ \/ UNCHANGED failed /\ (i = 1 => ~staged)
       \/ failed' = failed \cup {i}
    /\ UNCHANGED <<staged, mute, deltas, ups, obs, hub, timers, req, cl, made, past>>

\* execute_and_publish_scheduled_turn: TurnObserverRegistry::finish, or the
\* observer kept with a non-terminal error for a staged follow-up
Tell(i) ==
    /\ turn[i] = "ended" /\ turn' = [turn EXCEPT ![i] = "told"]
    /\ LET keep   == i = 1 /\ i \in failed /\ staged
           silent == i = 1 /\ mute /\ i \notin failed
       IN /\ oq' = IF ~Heard(i) \/ silent THEN oq ELSE Append(oq, Event(i, TRUE, ~keep))
          /\ route' = IF route = i /\ ~keep THEN 0 ELSE route
          /\ hush' = (hush \/ silent)
    /\ UNCHANGED <<failed, staged, mute, deltas, ups, pub, hub, timers, req, cl, made,
                   troubles, cut>>

\* The staged follow-up becomes a turn of its own; transfer_many
Promote ==
    /\ turn[1] = "told" /\ staged /\ turn[2] = "none"
    /\ turn' = [turn EXCEPT ![2] = "live"] /\ staged' = FALSE
    /\ route' = IF Heard(1) THEN 2 ELSE 0
    /\ UNCHANGED <<failed, mute, deltas, ups, oq, pub, hub, timers, req, cl, made, past>>

\* spawn_observed_run_publisher: copy an event
PublishEvent ==
    /\ pub = "on" /\ oq # <<>>
    /\ Publish(Head(oq)) /\ oq' = Tail(oq)
    /\ UNCHANGED <<run, route, pub, timers, req, made, past>>

\* ... the interaction completed: drain, then remove_later
PublisherEnds ==
    /\ pub = "on" /\ oq = <<>> /\ route = 0
    /\ pub' = "none" /\ timers' = timers + 1
    /\ UNCHANGED <<run, route, oq, hub, req, cl, made, past>>

-----------------------------------------------------------------------------
(* The web input boundary, one request at a time *)

\* handle_chat_send's tail: the ack, the run noted, one forwarder per
\* connection.  Acking it resets the transport's tracking of the run.
Forwarding(f) == IF f.at = "none" THEN [NoForward EXCEPT !.at = "starting"] ELSE f
Acked(cs, c) ==
    [cs EXCEPT ![c].unsure = FALSE, ![c].track = TRUE, ![c].last = 0, ![c].base = 0,
               ![c].reset = @ \/ cs[c].got # {},
               ![c].astray = (@ /\ cs[c].fwd.at = "on") \/ cs[c].fwd.at = "over",
               ![c].fwd = Forwarding(@)]
Unsure(cs, c) == [cs EXCEPT ![c].unsure = TRUE]

Request(c, pc) == [c |-> c, pc |-> pc, ack |-> "awaited"]
\* A connection's frames are handled one by one, its resubscription first
MaySend(c) == req = NoRequest /\ cl[c].conn /\ ~cl[c].resub

\* Is this the request that makes the turn?  Created: observer, channel, publisher
SendFirst(c) ==
    /\ c = Starter /\ MaySend(c) /\ turn[1] = "none"
    /\ turn' = [turn EXCEPT ![1] = "live"]
    /\ route' = 1 /\ pub' = "on"
    /\ hub' = Created(hub) /\ CountMade
    /\ req' = Request(c, "ack")
    /\ UNCHANGED <<failed, staged, mute, deltas, ups, oq, timers, cl, past>>

\* The same message again, its ack unknown
SendAgain(c) ==
    /\ MaySend(c) /\ cl[c].unsure
    /\ req' = Request(c, "read")
    /\ UNCHANGED <<run, obs, hub, timers, cl, made, past>>

\* try_stage_tool_followup_with_turn_id: into turn 1's tool phase
FollowUp(c) ==
    /\ MaySend(c) /\ turn[1] = "live" /\ ~staged
    /\ ups < MaxFollowUps /\ ups' = ups + 1
    /\ staged' = TRUE
    /\ req' = Request(c, "read")
    /\ UNCHANGED <<turn, failed, mute, deltas, obs, hub, timers, cl, made, past>>

\* The row is read: a terminal one is published, a live one gets an observer
\* unless it has a live one (register_if_absent), and a channel
ReadRow ==
    /\ req.pc = "read"
    /\ \/ /\ Over(1)
          /\ PublishTerminal(1, cl)
          /\ req' = [req EXCEPT !.pc = "ack"]
          /\ UNCHANGED <<obs, troubles, hush>>
       \/ /\ turn[1] = "live"
          /\ req' = [req EXCEPT !.pc = "register"]
          /\ UNCHANGED <<obs, hub, timers, cl, made, past>>
    /\ UNCHANGED run

Register ==
    /\ req.pc = "register"
    /\ hub' = Created(hub) /\ CountMade
    /\ req' = [req EXCEPT !.pc = IF route = 1 THEN "ack" ELSE "latest"]
    /\ IF pub = "none" THEN pub' = "held" /\ route' = 1 ELSE UNCHANGED <<pub, route>>
    /\ UNCHANGED <<run, oq, timers, cl, past>>

\* Bug: the observer is relied on without a second look at the row
LatestUnread ==
    /\ req.pc = "latest"
    /\ req' = [req EXCEPT !.pc = "ack"]
    /\ pub' = "on"
    /\ UNCHANGED <<run, route, oq, hub, timers, cl, made, past>>

\* accept_existing_web_run looks at the row again before it relies on the observer
Latest ==
    /\ req.pc = "latest"
    /\ req' = [req EXCEPT !.pc = "ack"]
    /\ \/ /\ Over(1)
          /\ PublishTerminal(1, cl)
          /\ IF pub = "held" THEN pub' = "none" /\ route' = 0 /\ oq' = <<>> ELSE UNCHANGED obs
          /\ UNCHANGED <<troubles, hush>>
       \/ /\ turn[1] = "live"
          /\ pub' = "on"
          /\ UNCHANGED <<route, oq, hub, timers, cl, made, past>>
    /\ UNCHANGED run

\* The answer: in time; after the client stopped waiting, when only the
\* server's forwarder comes of it; or on a lost connection
Ack ==
    /\ req.pc = "ack"
    /\ cl' = CASE req.ack = "awaited" -> Acked(cl, req.c)
               [] req.ack = "late"    -> [cl EXCEPT ![req.c].fwd = Forwarding(@),
                                                          ![req.c].reset = @ \/ cl[req.c].got # {}]
               [] req.ack = "lost"    -> cl
    /\ req' = NoRequest
    /\ UNCHANGED <<run, obs, hub, timers, made, past>>

\* SEND_ACK_TIMEOUT_MS passes on the client
AckTimesOut ==
    /\ req # NoRequest /\ req.ack = "awaited"
    /\ troubles < MaxTroubles /\ troubles' = troubles + 1
    /\ req' = [req EXCEPT !.ack = "late"] /\ cl' = Unsure(cl, req.c)
    /\ UNCHANGED <<run, obs, hub, timers, made, cut, hush>>

-----------------------------------------------------------------------------
(* Connections *)

\* How many kept events have numbers up to `after`: the numbers ascend
Before(after) ==
    CHOOSE n \in 0 .. Len(hub.hist) : \A k \in DOMAIN hub.hist : k <= n <=> hub.hist[k].id <= after

\* Bug: the replay starts one event late
ReplayLate(after) == SubSeq(hub.hist, Before(after + 1) + 1, Len(hub.hist))
\* subscribe_with_replay, under the hub's lock
Replay(after) == SubSeq(hub.hist, Before(after) + 1, Len(hub.hist))
Subscribed(after) == [at |-> "on", replay |-> Replay(after), live |-> <<>>, open |-> TRUE,
                      done |-> hub.done]

\* A tracking client continues a count of another channel
Mixed(k) == IF k.track /\ k.base \notin {0, hub.gen} THEN k.mixed \cup {hub.gen} ELSE k.mixed

\* forward_chat_stream: everything kept; without a channel it just returns
ForwardStarts(c) ==
    /\ cl[c].fwd.at = "starting"
    /\ cl' = IF hub.on
             THEN [cl EXCEPT ![c].fwd = Subscribed(0), ![c].mixed = Mixed(cl[c]),
                             ![c].lossy = @ \/ (hub.hist # <<>> /\ Head(hub.hist).id > 1)]
             ELSE [cl EXCEPT ![c].fwd = NoForward, ![c].astray = TRUE]
    /\ UNCHANGED <<run, obs, hub, timers, req, made, past>>

\* useChatTransport's handler of a `chat` frame
Applied(k, e) ==
    IF k.track /\ e.id <= k.last THEN k
    ELSE [k EXCEPT !.last = IF k.track THEN e.id ELSE @,
                   !.base = IF k.track THEN e.gen ELSE @,
                   !.twice = @ \/ (<<e.gen, e.id>> \in k.got /\ ~k.reset),
                   !.got = @ \cup {<<e.gen, e.id>>},
                   !.track = @ /\ ~e.terminal]

\* forward_run_subscription: the replay, then live events; a terminal one is
\* the last
Forward(c) ==
    /\ cl[c].fwd.at = "on"
    /\ LET f == cl[c].fwd
           q == IF f.replay # <<>> THEN f.replay ELSE f.live
           rest == IF f.replay # <<>> THEN [f EXCEPT !.replay = Tail(@)]
                   ELSE [f EXCEPT !.live = Tail(@)]
       IN /\ q # <<>> /\ (f.replay = <<>> => ~f.done)
          /\ cl' = [cl EXCEPT ![c] = [Applied(cl[c], Head(q)) EXCEPT
                                        !.fwd = IF Head(q).terminal THEN FwdOver ELSE rest]]
    /\ UNCHANGED <<run, obs, hub, timers, req, made, past>>

\* ... and it drops its ForwardedRunRegistration; it also ends when the run
\* was done as it subscribed, or Closed
ForwardEnds(c) ==
    /\ \/ cl[c].fwd.at = "over"
       \/ /\ cl[c].fwd.at = "on" /\ cl[c].fwd.replay = <<>>
          /\ cl[c].fwd.done \/ (cl[c].fwd.live = <<>> /\ ~cl[c].fwd.open)
    /\ cl' = [cl EXCEPT ![c].fwd = NoForward]
    /\ UNCHANGED <<run, obs, hub, timers, req, made, past>>

\* The connection is lost, its forwarder with it
Disconnect(c) ==
    /\ cl[c].conn /\ troubles < MaxTroubles /\ troubles' = troubles + 1
    /\ cl' = [cl EXCEPT ![c].conn = FALSE, ![c].resub = FALSE, ![c].fwd = NoForward,
                        ![c].unsure = @ \/ req.c = c]
    /\ req' = IF req.c = c THEN [req EXCEPT !.ack = "lost"] ELSE req
    /\ UNCHANGED <<run, obs, hub, timers, made, cut, hush>>

Reconnect(c) ==
    /\ ~cl[c].conn
    /\ cl' = [cl EXCEPT ![c].conn = TRUE, ![c].resub = cl[c].track]
    /\ UNCHANGED <<run, obs, hub, timers, req, made, past>>

\* handle_run_subscribe, and what the transport does with the answer: without
\* the run, or with a truncated replay, it drops its entries for the history
Resubscribe(c) ==
    /\ cl[c].conn /\ cl[c].resub
    /\ LET truncated == hub.hist # <<>> /\ cl[c].last + 1 < Head(hub.hist).id
           renumbered == \E g \in cl[c].got : g[1] # hub.gen
       IN cl' =
            IF ~hub.on
            THEN [cl EXCEPT ![c].resub = FALSE, ![c].track = FALSE, ![c].got = {}]
            ELSE [cl EXCEPT ![c].resub = FALSE,
                            ![c].got = IF truncated THEN {} ELSE @,
                            ![c].lossy = @ \/ truncated,
                            ![c].astray = @ \/ renumbered, ![c].mixed = Mixed(cl[c]),
                            ![c].fwd = IF @.at = "none" THEN Subscribed(cl[c].last) ELSE @]
    /\ UNCHANGED <<run, obs, hub, timers, req, made, past>>

\* The process restarts: memory is gone, and a live turn is resumed or ends
Restart ==
    /\ troubles < MaxTroubles /\ troubles' = troubles + 1
    /\ \E t \in {"live", "told"} :
         turn' = [i \in RunTurns |-> IF turn[i] = "live" THEN t
                                  ELSE IF turn[i] = "ended" THEN "told" ELSE turn[i]]
    /\ failed' = failed \cup {i \in RunTurns : turn[i] = "live" /\ turn'[i] = "told"}
    /\ mute' \in IF turn'[1] = "live" THEN BOOLEAN ELSE {FALSE}
    /\ route' = 0 /\ oq' = <<>> /\ pub' = "none"
    /\ hub' = NoChannel /\ timers' = 0
    /\ req' = NoRequest
    /\ cl' = [c \in Clients |->
                LET k == IF c = req.c THEN Unsure(cl, c)[c] ELSE cl[c]
                IN [k EXCEPT !.conn = FALSE, !.resub = FALSE, !.fwd = NoForward]]
    /\ UNCHANGED <<staged, deltas, ups, made, cut, hush>>

Server ==
    \/ \E i \in RunTurns : RowEnds(i) \/ Tell(i)
    \/ Promote \/ PublishEvent \/ PublisherEnds
    \/ ReadRow \/ Register \/ Latest \/ Ack

WebNext ==
    \/ \E i \in RunTurns : Emit(i)
    \/ Inject \/ Server \/ RemoveLater \/ AckTimesOut \/ Restart
    \/ \E c \in Clients :
         \/ SendFirst(c) \/ SendAgain(c) \/ FollowUp(c)
         \/ ForwardStarts(c) \/ Forward(c) \/ ForwardEnds(c)
         \/ Disconnect(c) \/ Reconnect(c) \/ Resubscribe(c)

WebSpec ==
    /\ WebInit /\ [][WebNext]_webVars
    /\ WF_webVars(Server) /\ \A i \in RunTurns : WF_webVars(RowEnds(i))
    /\ \A c \in Clients : /\ WF_webVars(ForwardStarts(c) \/ Forward(c) \/ ForwardEnds(c))
                          /\ WF_webVars(Resubscribe(c))

-----------------------------------------------------------------------------
(* Properties *)

\* Every variable has its type; a channel never holds more than Limit events.
WebTypeOK ==
    /\ turn \in [RunTurns -> {"none", "live", "ended", "told"}] /\ failed \subseteq RunTurns
    /\ {staged, mute, cut, hush} \subseteq BOOLEAN
    /\ route \in 0 .. 2 /\ pub \in {"none", "held", "on"}
    /\ hub.on \in BOOLEAN /\ Len(hub.hist) <= Limit /\ timers \in Nat
    /\ \A c \in Clients : cl[c].last \in Nat /\ Len(cl[c].fwd.replay \o cl[c].fwd.live) <= 2 * Limit

\* api.md: a resumed stream has no hole.  A client that applied an event of a
\* channel applied every earlier one, unless it was told to start over, fell
\* more than the channel's capacity behind, or asked for this channel's events
\* by a number of another.
NoGap ==
    \A c \in Clients : ~cl[c].lossy =>
        \A g \in cl[c].got : g[1] \notin cl[c].mixed =>
            \A n \in 1 .. g[2] : <<g[1], n>> \in cl[c].got

\* No event is appended to a transcript twice, however connections drop and
\* forwarders overlap, unless the ack of a follow-up set the client's count back.
NoDoubleApply == \A c \in Clients : ~cl[c].twice

\* A terminal event means that nothing of the interaction is still to come.
TerminalMeansOver ==
    hub.done /\ ~cut => \A i \in RunTurns : turn[i] # "live" /\ ~(turn[1] = "told" /\ staged)

\* The end of a turn is announced once in a channel, although its publisher and
\* a re-delivered request may both announce it.
EndToldOnce ==
    ~cut => \A i, j \in DOMAIN hub.hist :
              hub.hist[i].end /\ hub.hist[j].end /\ hub.hist[i].turn = hub.hist[j].turn => i = j

\* A turn that is heard has a channel to be heard on: the removal an earlier
\* request scheduled never takes it, and a request that finds the turn running
\* after a restart brings it back.
HeardHasChannel == \A i \in RunTurns : turn[i] = "live" /\ Heard(i) /\ ~cut => hub.on

\* A connected client that waits for a run stops waiting: it sees the terminal
\* event or learns that the run is gone.  Not covered: a resumed turn that
\* completes without an event, and a client that counts by another channel or
\* whose forwarder found none.
ClientSettles ==
    \A c \in Clients :
        [](cl[c].conn /\ cl[c].track =>
             <>(~cl[c].conn \/ ~cl[c].track \/ cl[c].astray \/ hush \/ cut))

\* A tab that loses its connection, and resumes, has seen every event of its run once.
StreamWhole == WebTypeOK /\ NoGap /\ NoDoubleApply

\* The end of a run is told once and is its end: also when a follow-up goes on under it or a
\* tab attaches while its turn ends.
EndIsTold == TerminalMeansOver /\ EndToldOnce /\ HeardHasChannel
=============================================================================
