------------------------------ MODULE PulseRuns ------------------------------
(***************************************************************************)
(* Pulse: the scheduler that wakes an agent for the intentions of its      *)
(* PULSE.yaml (src/src/pulse, src/src/storage/pulse.rs,                    *)
(* src/src/tools/pulse.rs).                                                *)
(*                                                                         *)
(* One agent and one scheduler loop.  A scan takes the time once, loads    *)
(* the file once and works through its intentions; it interleaves with     *)
(* the clock, with the pulse tool that edits the file, with turns of the   *)
(* agent, with failing calls and with the death of the process.            *)
(***************************************************************************)
EXTENDS PulseCalendar

CONSTANTS
  Ids,        \* intention ids
  Schedules,  \* the schedules intentions are given
  MaxTime,    \* last slot of the clock
  MaxEdits,   \* operations of the pulse tool
  MaxFaults   \* deaths of the process and failing database, file and channel calls, together

ASSUME PulseAssumption ==
  /\ MaxTime \in Nat /\ MaxEdits \in Nat /\ MaxFaults \in Nat /\ IsFiniteSet(Ids) /\ "none" \notin Ids
  /\ \A s \in Schedules : /\ s.kind \in {"daily", "weekly", "interval", "once"}
                          /\ s.at \in 0..(SlotsPerDay - 1) /\ s.arg \in Nat
                          /\ s.kind = "weekly" => s.arg < WeekLen

VARIABLES
  time,     \* the wall clock
  file,     \* PULSE.yaml: the agent's switch and its intentions
  rows,     \* pulse_runs by intention and due key
  busy,     \* a turn of the agent is active
  pc,       \* the step of the scheduler loop
  scan,     \* the scan under way: its time, the intentions it has left as loaded, the one in hand
  scanned,  \* a scan has started in this slot
  told,     \* by intention and due key: activations, deliveries, rows of the trace in the session
  archived, \* intentions the scheduler has removed, with the key of their run
  excused,  \* intentions that were kept from the scheduler today
  missed,   \* once intentions whose date passed without a run and without an excuse
  edits, faults

ghosts == <<told, archived, excused, missed>>
vars == <<time, file, rows, busy, pc, scan, scanned, ghosts, edits, faults>>

Keys == ({"day"} \X (0..Day(MaxTime))) \cup ({"week"} \X (0..(Day(MaxTime) \div WeekLen)))
NoItem == [enabled |-> FALSE]
Item == [enabled : BOOLEAN, sch : Schedules]
NoRow == [status |-> "none"]
NoItems == [i \in Ids |-> NoItem]
Nobody == "none"
NoScan == [now |-> 0, items |-> NoItems, id |-> Nobody, item |-> NoItem]
Statuses == {"running", "success", "failed", "skipped"}

HasRun(i, k) == k \in Keys /\ rows[i][k].status # "none"
Succeeded(i) == {rows[i][k].started : k \in {x \in Keys : rows[i][x].status = "success"}}
LastSuccess(i) == IF Succeeded(i) = {} THEN {} ELSE {Max(Succeeded(i))}

Rows == Cardinality({x \in Ids \X Keys : HasRun(x[1], x[2])})

\* What the scheduler does with item c of intention i in a scan at time t.
Due(i, c, t) == c.enabled /\ CheckDue(c.sch, t, LastSuccess(i))
Fires(i, c, t) == Due(i, c, t) /\ ~HasRun(i, GenerateDueKey(c.sch, t))

Init ==
  /\ time = 0 /\ file = [on |-> TRUE, items |-> NoItems]
  /\ rows = [i \in Ids |-> [k \in Keys |-> NoRow]]
  /\ busy = FALSE /\ pc = "idle" /\ scan = NoScan /\ scanned = FALSE
  /\ told = [i \in Ids |-> [k \in Keys |-> [fired |-> 0, sent |-> 0, trace |-> 0]]]
  /\ archived = {} /\ excused = {} /\ missed = {}
  /\ edits = 0 /\ faults = 0

Fault == faults < MaxFaults /\ faults' = faults + 1

-----------------------------------------------------------------------------
(* The clock and the agent's turns.                                        *)

\* The loop sleeps at most tick_interval, a fraction of a slot: an idle scheduler scans
\* in every slot.  A scan under way does not hold the clock.
Tick ==
  /\ time < MaxTime /\ (pc = "idle" => scanned)
  /\ time' = time + 1 /\ scanned' = FALSE
  /\ LET kept == IF pc = "idle" THEN excused ELSE Ids
         over == Day(time') # Day(time)
     IN /\ missed' = IF ~over THEN missed
                     ELSE missed \cup {i \in Ids \ kept : /\ file.on /\ file.items[i].enabled
                                                          /\ file.items[i].sch.kind = "once"
                                                          /\ file.items[i].sch.arg = Day(time)
                                                          /\ LocalDatetime(Day(time), file.items[i].sch.at) # {}
                                                          /\ ~HasRun(i, <<"day", Day(time)>>)}
        /\ excused' = IF over /\ pc = "idle" THEN {} ELSE kept
  /\ UNCHANGED <<file, rows, busy, pc, scan, told, archived, edits, faults>>

TurnBegins == pc # "down" /\ ~busy /\ busy' = TRUE /\ UNCHANGED <<time, file, rows, pc, scan, scanned, ghosts, edits, faults>>
TurnEnds == busy /\ busy' = FALSE /\ UNCHANGED <<time, file, rows, pc, scan, scanned, ghosts, edits, faults>>

-----------------------------------------------------------------------------
(* The pulse tool: load, change and save under the file lock.              *)

Save(f, touched) ==
  /\ pc # "down" /\ edits < MaxEdits /\ edits' = edits + 1
  /\ file' = f /\ excused' = excused \cup touched
  /\ UNCHANGED <<time, rows, busy, pc, scan, scanned, told, archived, missed, faults>>

OnceIsFuture(s) == s.kind = "once" => \E target \in LocalDatetime(s.arg, s.at) : target > time

OpAdd(i, s) ==
  /\ file.items[i] = NoItem /\ OnceIsFuture(s)
  /\ Save([file EXCEPT !.items[i] = [enabled |-> TRUE, sch |-> s]], {})

OpUpdate(i, s) ==
  /\ file.items[i] # NoItem /\ OnceIsFuture(s)
  /\ Save([file EXCEPT !.items[i].sch = s], {})

OpRemove(i) ==
  /\ file.items[i] # NoItem
  /\ Save([file EXCEPT !.items[i] = NoItem], {})

OpSetEnabled(i) ==
  /\ file.items[i] # NoItem
  /\ Save([file EXCEPT !.items[i].enabled = ~@], {i})

OpSetAgentEnabled == Save([file EXCEPT !.on = ~@], Ids)

Tool ==
  \/ \E i \in Ids : \E s \in Schedules : OpAdd(i, s) \/ OpUpdate(i, s)
  \/ \E i \in Ids : OpRemove(i) \/ OpSetEnabled(i)
  \/ OpSetAgentEnabled

-----------------------------------------------------------------------------
(* The scan.                                                               *)

outside == <<time, file, busy, edits>>

\* Mutant: the time is taken before the sleep.
StartScanBehind ==
  /\ pc = "idle"
  /\ pc' = "scan" /\ scanned' = TRUE
  /\ scan' = [NoScan EXCEPT !.now = IF time = 0 THEN 0 ELSE time - 1, !.items = IF file.on THEN file.items ELSE NoItems]
  /\ UNCHANGED <<outside, rows, ghosts, faults>>

\* The tick, the instant of a once intention, or a saved file.
StartScan ==
  /\ pc = "idle"
  /\ pc' = "scan" /\ scanned' = TRUE
  /\ scan' = [NoScan EXCEPT !.now = time, !.items = IF file.on THEN file.items ELSE NoItems]
  /\ UNCHANGED <<outside, rows, ghosts, faults>>

\* The file cannot be read or parsed: the agent is left out of this scan.
LoadFails ==
  /\ pc = "idle" /\ Fault
  /\ scanned' = TRUE /\ excused' = Ids
  /\ UNCHANGED <<outside, rows, pc, scan, told, archived, missed>>

ScanEnds ==
  /\ pc = "scan" /\ scan.items = NoItems
  /\ pc' = "idle" /\ scan' = NoScan
  /\ UNCHANGED <<outside, rows, scanned, ghosts, faults>>

Leave(i) == scan' = [scan EXCEPT !.items[i] = NoItem]

\* Not due in this scan, or its period has its run.
Skip(i) ==
  /\ pc = "scan" /\ scan.items[i] # NoItem
  /\ ~Fires(i, scan.items[i], scan.now)
  /\ Leave(i)
  /\ UNCHANGED <<outside, rows, pc, scanned, ghosts, faults>>

DeferActive(i) ==
  /\ pc = "scan" /\ scan.items[i] # NoItem
  /\ Fires(i, scan.items[i], scan.now) /\ busy
  /\ Leave(i) /\ excused' = excused \cup {i}
  /\ UNCHANGED <<outside, rows, pc, scanned, told, archived, missed, faults>>

\* The history cannot be read.
GateFails(i) ==
  /\ pc = "scan" /\ scan.items[i].enabled /\ Fault
  /\ Leave(i) /\ excused' = excused \cup {i}
  /\ UNCHANGED <<outside, rows, pc, scanned, told, archived, missed>>

Allow(i) ==
  /\ pc = "scan" /\ scan.items[i] # NoItem
  /\ Fires(i, scan.items[i], scan.now) /\ ~busy
  /\ pc' = "create"
  /\ scan' = [scan EXCEPT !.items[i] = NoItem, !.id = i, !.item = scan.items[i]]
  /\ UNCHANGED <<outside, rows, scanned, ghosts, faults>>

-----------------------------------------------------------------------------
(* The intention in hand.                                                  *)

Key == GenerateDueKey(scan.item.sch, scan.now)
Update(status) == rows' = [rows EXCEPT ![scan.id][Key].status = status]
Tell(what) == told' = [told EXCEPT ![scan.id][Key][what] = @ + 1]
NextIntention == pc' = "scan" /\ scan' = [scan EXCEPT !.id = Nobody, !.item = NoItem]
GoTo(step) == pc' = step /\ UNCHANGED scan

\* The unique index on (agent, intention, due key) refuses a second row.
CreateRun ==
  /\ pc = "create"
  /\ IF HasRun(scan.id, Key) THEN NextIntention /\ UNCHANGED rows
     ELSE /\ GoTo("home")
          /\ rows' = [rows EXCEPT ![scan.id][Key] = [status |-> "running", started |-> time, item |-> scan.item,
                                                           order |-> Rows + 1]]
  /\ UNCHANGED <<outside, scanned, ghosts, faults>>

CreateFails ==
  /\ pc = "create" /\ Fault
  /\ NextIntention /\ excused' = excused \cup {scan.id}
  /\ UNCHANGED <<outside, rows, scanned, told, archived, missed>>

\* A sendable chat is found; or none is, or the lookup fails, and the run is skipped.
ResolveHome ==
  /\ pc = "home"
  /\ \/ GoTo("activate") /\ Tell("fired")
     \/ GoTo("skip") /\ UNCHANGED told
  /\ UNCHANGED <<outside, rows, scanned, archived, excused, missed, faults>>

UpdateRunSkipped ==
  /\ pc = "skip" /\ Update("skipped") /\ NextIntention
  /\ UNCHANGED <<outside, scanned, ghosts, faults>>

\* The model's answer: PULSE_OK (or empty) is silent, anything else is a notification.
Activation ==
  /\ pc = "activate"
  /\ GoTo("silent") \/ GoTo("send")
  /\ UNCHANGED <<outside, rows, scanned, ghosts, faults>>

\* Mutant: no timeout, only an error that is reported.
ActivationUnguarded ==
  /\ pc = "activate" /\ Fault /\ GoTo("fail")
  /\ UNCHANGED <<outside, rows, scanned, ghosts>>

\* Also when the model never answers: the timeout and catch_unwind of guard_activation.
ActivationFails ==
  /\ pc = "activate" /\ GoTo("fail")
  /\ UNCHANGED <<outside, rows, scanned, ghosts, faults>>

UpdateRunFailed ==
  /\ pc = "fail" /\ Update("failed") /\ NextIntention
  /\ UNCHANGED <<outside, scanned, ghosts, faults>>

SendText ==
  /\ pc = "send" /\ Tell("sent") /\ GoTo("input")
  /\ UNCHANGED <<outside, rows, scanned, archived, excused, missed, faults>>

\* The adapter is gone or refuses.
SendFails ==
  /\ pc = "send" /\ GoTo("fail")
  /\ UNCHANGED <<outside, rows, scanned, ghosts, faults>>

\* The synthetic input, then the tool phases and the output, each row with the session snapshot.
PersistPhase ==
  /\ pc \in {"input", "output"} /\ Tell("trace")
  /\ GoTo(IF pc = "input" THEN "output" ELSE "success")
  /\ UNCHANGED <<outside, rows, scanned, archived, excused, missed, faults>>

\* Mutant: the delivered run counts as a success.
PersistFailsIgnored ==
  /\ pc \in {"input", "output"} /\ Fault /\ GoTo("success")
  /\ UNCHANGED <<outside, rows, scanned, ghosts>>

PersistFails ==
  /\ pc \in {"input", "output"} /\ Fault /\ GoTo("fail")
  /\ UNCHANGED <<outside, rows, scanned, ghosts>>

UpdateRunSuccess ==
  /\ pc \in {"silent", "success"} /\ Update("success")
  /\ IF scan.item.sch.kind = "once" THEN GoTo("archive") ELSE NextIntention
  /\ UNCHANGED <<outside, scanned, ghosts, faults>>

\* The status cannot be written: the row stays running until the next start of the process.
UpdateFails ==
  /\ pc \in {"skip", "fail", "silent", "success"} /\ Fault /\ NextIntention
  /\ UNCHANGED <<outside, rows, scanned, ghosts>>

\* A fired once intention leaves the file if the file still holds what ran.
ArchiveIntention ==
  /\ pc = "archive" /\ NextIntention
  /\ IF file.items[scan.id] = scan.item
     THEN /\ file' = [file EXCEPT !.items[scan.id] = NoItem]
          /\ archived' = archived \cup {<<scan.id, file.items[scan.id], Key>>}
     ELSE UNCHANGED <<file, archived>>
  /\ UNCHANGED <<time, rows, busy, scanned, told, excused, missed, edits, faults>>

ArchiveFails ==
  /\ pc = "archive" /\ Fault /\ NextIntention
  /\ UNCHANGED <<outside, rows, scanned, ghosts>>

-----------------------------------------------------------------------------
(* The process.                                                            *)

Crash ==
  /\ pc # "down" /\ Fault
  /\ pc' = "down" /\ scan' = NoScan /\ busy' = FALSE /\ excused' = Ids
  /\ UNCHANGED <<time, file, rows, scanned, told, archived, missed, edits>>

ReapOrphaned(i, k) == IF rows[i][k].status = "running" THEN [rows[i][k] EXCEPT !.status = "failed"] ELSE rows[i][k]

\* Every running row is failed before the scheduler starts.
Restart ==
  /\ pc = "down" /\ pc' = "idle" /\ scanned' = FALSE
  /\ rows' = [i \in Ids |-> [k \in Keys |-> ReapOrphaned(i, k)]]
  /\ UNCHANGED <<outside, scan, ghosts, faults>>

\* The reaping itself fails: the scheduler starts all the same.  (MaxFaults bounds the crashes
\* and with them these restarts.)
RestartUnreaped ==
  /\ pc = "down" /\ pc' = "idle" /\ scanned' = FALSE
  /\ UNCHANGED <<outside, rows, scan, ghosts, faults>>

Scheduler ==
  \/ StartScan \/ ScanEnds \/ \E i \in Ids : Skip(i) \/ DeferActive(i) \/ Allow(i)
  \/ CreateRun \/ ResolveHome \/ UpdateRunSkipped \/ ActivationFails
  \/ UpdateRunFailed \/ SendText \/ SendFails \/ PersistPhase \/ UpdateRunSuccess \/ ArchiveIntention

Failures ==
  \/ LoadFails \/ \E i \in Ids : GateFails(i)
  \/ CreateFails \/ PersistFails \/ UpdateFails \/ ArchiveFails

Next == Tick \/ TurnBegins \/ TurnEnds \/ Tool \/ Scheduler \/ Activation \/ Failures \/ Crash \/ Restart \/ RestartUnreaped

\* The loop is driven by its own timer and the activation by its timeout: nothing is asked
\* of the model.  A channel answers a send.
Spec == Init /\ [][Next]_vars /\ WF_vars(Scheduler)

-----------------------------------------------------------------------------
(* The view: resolve_next_due, shared by the pulse tool and the web API.   *)

ResolveNextDue(i, c, t) ==
  LET last == LastSuccess(i)
      key == GenerateDueKey(c.sch, t)
      consumed == HasRun(i, key)
      next == EstimateNextDue(c.sch, t, last)
      At(instants) == {<<"at", x>> : x \in instants}
      Candidate(x) ==
        IF consumed /\ GenerateDueKey(c.sch, x) = key
        THEN IF c.sch.kind = "interval" /\ EstimateNextDayAt(c.sch.at, t) # {}
             THEN At(EstimateNextDayAt(c.sch.at, t)) ELSE {<<"attempted_this_period">>}
        ELSE IF x <= t THEN {<<"due_now">>} ELSE At({x})
  IN IF CheckDue(c.sch, t, last) /\ ~consumed THEN {<<"due_now">>}
     ELSE IF consumed /\ c.sch.kind = "once" THEN {<<"attempted_once">>}
     ELSE IF next = {} THEN {<<"no_upcoming">>} ELSE UNION {Candidate(x) : x \in next}

-----------------------------------------------------------------------------
(* Properties.                                                             *)

TypeOK ==
  /\ time \in 0..MaxTime
  /\ file.on \in BOOLEAN /\ file.items \in [Ids -> Item \cup {NoItem}]
  /\ \A i \in Ids : \A k \in Keys :
       rows[i][k] = NoRow \/ (rows[i][k].status \in Statuses /\ rows[i][k].started \in 0..time)
  /\ pc \in {"down", "idle", "scan", "create", "home", "skip", "activate", "fail", "silent", "send",
             "input", "output", "success", "archive"}
  /\ scan.items \in [Ids -> Item \cup {NoItem}] /\ scan.now \in 0..time
  /\ (scan.id \in Ids) = (pc \notin {"down", "idle", "scan"})
  /\ edits \in 0..MaxEdits /\ faults \in 0..MaxFaults

\* However scans, edits, failures and restarts interleave, a period of an intention activates
\* the agent at most once and sends at most one notification: the row claimed before the
\* activation is never given back, whatever becomes of the run.
OneRunPerPeriod ==
  \A i \in Ids : \A k \in Keys : told[i][k].fired <= 1 /\ told[i][k].sent <= 1

\* What a run leaves in the conversation was delivered: the send comes first, so a refused
\* notification is not in the session the next turn reads.
StoredWasSent ==
  \A i \in Ids : \A k \in Keys : told[i][k].trace > 0 => told[i][k].sent > 0

\* A successful run was silent, or its notification is delivered and wholly in the session.
SuccessIsWhole ==
  \A i \in Ids : \A k \in Keys :
    rows[i][k].status = "success" => told[i][k].trace = 2 * told[i][k].sent

\* The scheduler removes a once intention only when the very definition it removes ran with
\* success: an edit made during the activation stays, and so does an intention whose run failed.
ArchivedRan ==
  \A x \in archived : /\ rows[x[1]][x[3]].status = "success"
                      /\ rows[x[1]][x[3]].item = x[2]

\* A reminder with a date is not forgotten: when its day is over it has its run, unless the
\* process was down, a scan lasted over a change of slot, the agent was in a turn when its
\* scan came, a call failed, or it was switched on only that day.
NotMissed == missed = {}

\* A run of an interval intention starts at least its number of days after every earlier
\* success, also when a long scan started it on a later day than the one it is keyed by.
IntervalSpaced ==
  \A i \in Ids : \A k \in Keys : \A j \in Keys :
    (/\ rows[i][k].status # "none" /\ rows[i][k].item.sch.kind = "interval"
     /\ rows[i][j].status = "success" /\ rows[i][j].order < rows[i][k].order)
      => Day(rows[i][k].started) >= Day(rows[i][j].started) + rows[i][k].item.sch.arg

\* Asked between scans or from within an activation, the next firing shown by the pulse tool
\* and the web API is the scheduler's: due now exactly
\* when a scan at this moment would run it, an instant exactly when that is the first scan that
\* would, attempted when no scan of the period would, and no upcoming only when none would or
\* the clock jumps over the next candidate.
ViewAgrees ==
  LET Horizon(c) == Instant(Day(time) + WeekLen + c.sch.arg + 2, 0)
      First(i, c) == LET fires == {t \in time..Horizon(c) : Fires(i, c, t)}
                     IN  IF fires = {} THEN {} ELSE {Min(fires)}
  IN \A i \in Ids : LET c == file.items[i] IN (c.enabled /\ pc \in {"idle", "activate"}) =>
       \A v \in ResolveNextDue(i, c, time) :
         CASE v[1] = "due_now" -> First(i, c) = {time}
           [] v[1] = "at" -> First(i, c) = {v[2]}
           [] v[1] = "attempted_this_period" ->
                \A t \in First(i, c) : GenerateDueKey(c.sch, t) # GenerateDueKey(c.sch, time)
           [] v[1] = "attempted_once" -> First(i, c) = {}
           [] v[1] = "no_upcoming" ->
                First(i, c) = {} \/ \E d \in Day(time)..Day(Horizon(c)) : <<d, c.sch.at>> \in Gaps

\* Every scan comes to its end: an activation that hangs is cut off, and a failing step moves
\* on to the next intention.
ScanFinishes == pc \notin {"idle", "down"} ~> pc \in {"idle", "down"}

\* A period fires once and no reminder goes by, whatever crashes, edits, slow activations and
\* clock jumps do, and the view announces the firing that happens.
FiresAsScheduled == OneRunPerPeriod /\ IntervalSpaced /\ NotMissed /\ ViewAgrees

\* What a run's row says happened: a stored notification was sent, a success is whole, and an
\* archived reminder is the one that ran.
RunsAreHonest == TypeOK /\ StoredWasSent /\ SuccessIsWhole /\ ArchivedRan
=============================================================================
