----------------------------- MODULE PulseProofs -----------------------------
(* Proofs about the calendar and the scheduler of Pulse, for any schedules,  *)
(* gaps of the clock, intentions, edits and faults.                          *)
EXTENDS PulseRuns, FiniteSetTheorems, WellFoundedInduction, TLAPS

Points == {"down", "idle", "scan", "create", "home", "skip", "activate", "fail", "silent",
           "send", "input", "output", "success", "archive"}
Resting == {"down", "idle", "scan"}
Claimed == Points \ (Resting \cup {"create"})
Row == [status : Statuses, started : Nat, item : Item, order : Nat]
Counts == [fired : Nat, sent : Nat, trace : Nat]
Scans == [now : Nat, items : [Ids -> Item \cup {NoItem}], id : Ids \cup {Nobody},
          item : Item \cup {NoItem}]

(* The variables, with their functions and records. *)
TypeInv ==
    /\ time \in 0..MaxTime
    /\ file \in [on : BOOLEAN, items : [Ids -> Item \cup {NoItem}]]
    /\ rows \in [Ids -> [Keys -> Row \cup {NoRow}]]
    /\ busy \in BOOLEAN /\ pc \in Points /\ scanned \in BOOLEAN
    /\ scan \in Scans /\ scan.now <= time
    /\ told \in [Ids -> [Keys -> Counts]]
    /\ \A x \in archived : x[1] \in Ids /\ x[3] \in Keys
    /\ edits \in 0..MaxEdits /\ faults \in 0..MaxFaults

(* The run in hand is keyed by its scan and, once claimed, has the youngest *)
(* row, which says that it runs until its outcome is written.               *)
HandInv ==
    /\ pc \in Resting => scan.id = Nobody
    /\ pc \notin Resting => scan.id \in Ids /\ scan.item \in Item /\ Key \in Keys
    /\ pc \in Claimed =>
         /\ rows[scan.id][Key].status = (IF pc = "archive" THEN "success" ELSE "running")
         /\ rows[scan.id][Key].item = scan.item
         /\ rows[scan.id][Key].order = Rows

(* What has been told of each run, and of the one in hand by its position. *)
Tale(f, s, t) == [fired |-> f, sent |-> s, trace |-> t]
InHand(tale) == told[scan.id][Key] = tale
Tells(i, k) ==
    /\ rows[i][k].status = "none" => told[i][k] = Tale(0, 0, 0)
    /\ told[i][k].fired <= 1 /\ told[i][k].sent <= 1
    /\ told[i][k].trace > 0 => told[i][k].sent > 0
    /\ rows[i][k].status = "success" => told[i][k].trace = 2 * told[i][k].sent
HandTale ==
    /\ pc \in {"home", "skip"} => InHand(Tale(0, 0, 0))
    /\ pc \in {"activate", "silent", "send"} => InHand(Tale(1, 0, 0))
    /\ pc = "input" => InHand(Tale(1, 1, 0))
    /\ pc = "output" => InHand(Tale(1, 1, 1))
    /\ pc = "success" => InHand(Tale(1, 1, 2))
ToldInv == HandTale /\ \A i \in Ids : \A k \in Keys : Tells(i, k)

(* Rows are of the past and numbered in the order they were claimed; what    *)
(* succeeded before an interval run is claimed lies its days back.           *)
Past(k) == IF k[1] = "day" THEN k[2] <= Day(time) ELSE k[2] <= Day(time) \div WeekLen
RowsInv ==
    /\ \A i \in Ids : \A k \in Keys : HasRun(i, k) =>
         rows[i][k].started <= time /\ rows[i][k].order <= Rows /\ Past(k)
    /\ pc = "create" => Past(Key)
    /\ pc = "create" /\ scan.item.sch.kind = "interval" =>
         \A k \in Keys : rows[scan.id][k].status = "success" =>
             Day(scan.now) >= Day(rows[scan.id][k].started) + scan.item.sch.arg

(* A once intention that is due and has no run is excused, or has its scan  *)
(* still before it: a scan to start, its turn in the scan, or its claim.    *)
Waits(i) ==
    LET c == file.items[i]
    IN  /\ file.on /\ c.enabled /\ c.sch.kind = "once" /\ IsOnceDue(c.sch, time)
        /\ ~HasRun(i, <<"day", c.sch.arg>>)
Served(i) ==
    /\ pc # "down"
    /\ pc = "idle" => ~scanned
    /\ pc # "idle" =>
         /\ scan.now = time
         /\ \/ scan.items[i] = file.items[i]
            \/ pc = "create" /\ scan.id = i /\ scan.item = file.items[i]
WaitInv == \A i \in Ids \ excused : Waits(i) => Served(i)

-----------------------------------------------------------------------------
(* Smallest and largest numbers.                                            *)

LEMMA NatMin ==
    ASSUME NEW T \in SUBSET Nat, T # {}
    PROVE  \E x \in T : \A y \in T : x <= y
<1> DEFINE R == OpToRel(<, Nat)
<1>1. IsWellFoundedOn(R, Nat)
  BY NatLessThanWellFounded
<1>2. PICK x \in T : \A y \in T : ~(<<y, x>> \in R)
  <2> HIDE DEF R
  <2> QED BY <1>1, WFMin
<1>3. \A y \in T : ~(y < x)
  BY <1>2 DEF OpToRel
<1> QED BY <1>3

LEMMA LargestOf ==
    ASSUME NEW n \in Nat, NEW T \in SUBSET (0..n), T # {}
    PROVE  Max(T) \in T /\ \A y \in T : y <= Max(T)
<1> DEFINE D == {n - y : y \in T}
<1>1. D \in SUBSET Nat /\ D # {}
  <2>1. \A y \in T : n - y \in Nat
    OBVIOUS
  <2> QED BY <2>1
<1>2. PICK d \in D : \A e \in D : d <= e
  <2> HIDE DEF D
  <2> QED BY <1>1, NatMin
<1>3. PICK x \in T : d = n - x
  OBVIOUS
<1>4. \A y \in T : x >= y
  <2> TAKE y \in T
  <2>1. n - y \in D
    OBVIOUS
  <2>2. n - x <= n - y
    BY <1>2, <1>3, <2>1
  <2> QED BY <2>2
<1> QED BY <1>4 DEF Max

-----------------------------------------------------------------------------
(* Days and slots, weeks and weekdays.                                      *)

LEMMA Division ==
    ASSUME NEW n \in Nat \ {0}, NEW q \in Nat, NEW r \in 0..(n - 1)
    PROVE  (q * n + r) \div n = q /\ (q * n + r) % n = r
  BY SMT

LEMMA Quotient ==
    ASSUME NEW n \in Nat \ {0}, NEW t \in Nat
    PROVE  t \div n \in Nat /\ t % n \in 0..(n - 1) /\ t = (t \div n) * n + (t % n)
<1>1. t \div n \in Nat
  BY SMT
<1>2. t - n * (t \div n) \in 0..(n - 1)
  <2>1. t - n * (t \div n) >= 0 /\ t - n * (t \div n) < n
    BY SMT
  <2>2. t - n * (t \div n) \in Int
    BY <1>1
  <2> QED
    BY <2>1, <2>2
<1>3. t = (t \div n) * n + (t - n * (t \div n))
  BY <1>1
<1>4. t % n = t - n * (t \div n)
  BY <1>1, <1>2, <1>3, Division
<1>5. t = (t \div n) * n + (t % n)
  BY <1>3, <1>4, Zenon
<1>6. t % n \in 0..(n - 1)
  BY <1>2, <1>4, Zenon
<1> QED
  BY <1>1, <1>5, <1>6, Zenon

LEMMA QuotientGrows ==
    ASSUME NEW n \in Nat \ {0}, NEW s \in Nat, NEW t \in Nat, s <= t
    PROVE  s \div n <= t \div n
  BY SMT

LEMMA DayOfInstant ==
    ASSUME NEW d \in Nat, NEW at \in 0..(SlotsPerDay - 1)
    PROVE  Instant(d, at) \in Nat /\ Day(Instant(d, at)) = d /\ Slot(Instant(d, at)) = at
  BY CalendarAssumption, Division DEF Instant, Day, Slot

LEMMA InstantOfDay ==
    ASSUME NEW t \in Nat
    PROVE  Day(t) \in Nat /\ Slot(t) \in 0..(SlotsPerDay - 1) /\ t = Instant(Day(t), Slot(t))
  BY CalendarAssumption, Quotient DEF Instant, Day, Slot

LEMMA DaysGrow ==
    ASSUME NEW s \in Nat, NEW t \in Nat, s <= t
    PROVE  Day(s) <= Day(t)
  BY CalendarAssumption, QuotientGrows DEF Day

LEMMA LaterDay ==
    ASSUME NEW t \in Nat, NEW d \in Nat, NEW at \in 0..(SlotsPerDay - 1)
    PROVE  /\ Day(t) < d => t < Instant(d, at)
           /\ Day(t) > d => t > Instant(d, at)
           /\ Day(t) = d => (t < Instant(d, at) <=> Slot(t) < at)
<1> DEFINE x == Instant(d, at)
<1>1. x \in Nat /\ Day(x) = d
  BY DayOfInstant
<1>2. Day(t) < d => t < x
  BY <1>1, InstantOfDay, DaysGrow
<1>3. Day(t) > d => t > x
  BY <1>1, InstantOfDay, DaysGrow
<1>4. Day(t) = d => (t < x <=> Slot(t) < at)
  BY InstantOfDay, CalendarAssumption DEF Instant
<1> QED
  BY <1>2, <1>3, <1>4

LEMMA LastSlot ==
    ASSUME NEW t \in Nat, Day(t + 1) # Day(t)
    PROVE  Slot(t) = SlotsPerDay - 1
<1>1. ASSUME Slot(t) + 1 \in 0..(SlotsPerDay - 1)
      PROVE  FALSE
  <2>1. t + 1 = Instant(Day(t), Slot(t) + 1)
    BY InstantOfDay, CalendarAssumption DEF Instant
  <2> QED
    BY <1>1, <2>1, InstantOfDay, DayOfInstant
<1> QED
  BY <1>1, InstantOfDay, CalendarAssumption

-----------------------------------------------------------------------------
(* Types, and the run in hand.                                              *)

LEMMA KeyInKeys ==
    ASSUME NEW s \in Schedules, NEW t \in 0..MaxTime, s.kind = "once" => s.arg = Day(t)
    PROVE  /\ GenerateDueKey(s, t) \in Keys
           /\ GenerateDueKey(s, t) \in {<<"day", Day(t)>>, <<"week", Day(t) \div WeekLen>>}
<1>1. MaxTime \in Nat /\ t \in Nat /\ t <= MaxTime /\ WeekLen \in Nat \ {0}
  BY PulseAssumption, CalendarAssumption
<1>2. Day(t) \in Nat /\ Day(MaxTime) \in Nat /\ Day(t) <= Day(MaxTime)
  BY <1>1, InstantOfDay, DaysGrow
<1>3. Day(t) \div WeekLen \in 0..(Day(MaxTime) \div WeekLen)
  BY <1>1, <1>2, Quotient, QuotientGrows
<1>4. s.kind \in {"daily", "interval", "weekly", "once"}
  BY PulseAssumption
<1> QED
  BY <1>2, <1>3, <1>4 DEF GenerateDueKey, Keys

LEMMA UpdatedRow ==
    ASSUME TypeInv, HandInv, pc \in Claimed, NEW st \in Statuses, Update(st)
    PROVE  /\ rows[scan.id][Key] \in Row
           /\ rows' = [rows EXCEPT ![scan.id][Key] = [rows[scan.id][Key] EXCEPT !.status = st]]
           /\ rows' \in [Ids -> [Keys -> Row \cup {NoRow}]]
<1>1. scan.id \in Ids /\ Key \in Keys /\ rows[scan.id][Key].status \in {"running", "success"}
  BY DEF HandInv, Claimed, Resting
<1>2. rows[scan.id][Key] \in Row
  BY <1>1 DEF TypeInv, NoRow
<1>3. [rows[scan.id][Key] EXCEPT !.status = st] \in Row
  BY <1>2 DEF Row
<1>4. rows' = [rows EXCEPT ![scan.id][Key] = [rows[scan.id][Key] EXCEPT !.status = st]]
  BY <1>1 DEF Update, TypeInv
<1> QED
  BY <1>1, <1>2, <1>3, <1>4 DEF TypeInv

LEMMA ToldMore ==
    ASSUME TypeInv, HandInv, pc \notin Resting, NEW what \in {"fired", "sent", "trace"}, Tell(what)
    PROVE  /\ told' = [told EXCEPT ![scan.id][Key] = [told[scan.id][Key] EXCEPT ![what] = @ + 1]]
           /\ told[scan.id][Key] \in Counts
           /\ told' \in [Ids -> [Keys -> Counts]]
<1>1. scan.id \in Ids /\ Key \in Keys
  BY DEF HandInv
<1>2. told[scan.id][Key] \in Counts
  BY <1>1 DEF TypeInv
<1>3. [told[scan.id][Key] EXCEPT ![what] = @ + 1] \in Counts
  BY <1>2 DEF Counts
<1>4. told' = [told EXCEPT ![scan.id][Key] = [told[scan.id][Key] EXCEPT ![what] = @ + 1]]
  BY <1>1 DEF Tell, TypeInv
<1> QED
  BY <1>1, <1>2, <1>3, <1>4 DEF TypeInv

LEMMA RunsCounted ==
    ASSUME TypeInv
    PROVE  /\ IsFiniteSet(Ids \X Keys) /\ Rows \in Nat
           /\ rows' = rows => Rows' = Rows
           /\ (\A i \in Ids : \A k \in Keys : HasRun(i, k)' <=> HasRun(i, k)) => Rows' = Rows
           /\ \A i \in Ids : \A k \in Keys :
                /\ ~HasRun(i, k) /\ HasRun(i, k)'
                /\ \A j \in Ids : \A l \in Keys : <<j, l>> # <<i, k>> => (HasRun(j, l)' <=> HasRun(j, l))
                => Rows' = Rows + 1
<1> DEFINE Runs == {x \in Ids \X Keys : HasRun(x[1], x[2])}
<1>1. IsFiniteSet(Keys)
  <2>1. MaxTime \in Nat /\ WeekLen \in Nat \ {0}
    BY PulseAssumption, CalendarAssumption
  <2>2. Day(MaxTime) \in Nat
    BY <2>1, InstantOfDay
  <2>3. Day(MaxTime) \div WeekLen \in Nat
    BY <2>1, <2>2, Quotient
  <2>4. IsFiniteSet(0..Day(MaxTime)) /\ IsFiniteSet(0..(Day(MaxTime) \div WeekLen))
    BY <2>2, <2>3, FS_Interval
  <2>5. IsFiniteSet({"day"}) /\ IsFiniteSet({"week"})
    BY FS_Singleton
  <2>6. IsFiniteSet({"day"} \X (0..Day(MaxTime))) /\ IsFiniteSet({"week"} \X (0..(Day(MaxTime) \div WeekLen)))
    BY <2>4, <2>5, FS_Product
  <2> QED
    BY <2>6, FS_Union DEF Keys
<1>2. IsFiniteSet(Ids \X Keys)
  BY <1>1, FS_Product, PulseAssumption
<1>3. IsFiniteSet(Runs)
  BY <1>2, FS_Subset
<1>4. Rows = Cardinality(Runs) /\ Rows' = Cardinality(Runs')
  BY DEF Rows
<1>5. Rows \in Nat
  BY <1>3, <1>4, FS_CardinalityType
<1>6. (\A i \in Ids : \A k \in Keys : HasRun(i, k)' <=> HasRun(i, k)) => Rows' = Rows
  <2> SUFFICES ASSUME \A i \in Ids : \A k \in Keys : HasRun(i, k)' <=> HasRun(i, k)
               PROVE  Runs' = Runs
    BY <1>4
  <2> QED
    OBVIOUS
<1>7. rows' = rows => Rows' = Rows
  BY DEF Rows, HasRun
<1>8. ASSUME NEW i \in Ids, NEW k \in Keys, ~HasRun(i, k), HasRun(i, k)',
             \A j \in Ids : \A l \in Keys : <<j, l>> # <<i, k>> => (HasRun(j, l)' <=> HasRun(j, l))
      PROVE  Rows' = Rows + 1
  <2>1. Runs' = Runs \cup {<<i, k>>}
    BY <1>8
  <2>2. <<i, k>> \notin Runs
    BY <1>8
  <2> HIDE DEF Runs
  <2> QED
    BY <1>3, <1>4, <2>1, <2>2, FS_AddElement
<1> QED
  BY <1>2, <1>5, <1>6, <1>7, <1>8, Zenon

LEMMA TypeStep ==
    ASSUME TypeInv, HandInv, Next
    PROVE  TypeInv'
<1>0. time \in Nat /\ MaxTime \in Nat /\ MaxEdits \in Nat /\ MaxFaults \in Nat /\ NoItem \in Item \cup {NoItem}
  BY PulseAssumption DEF TypeInv
<1>n. NoItems \in [Ids -> Item \cup {NoItem}] /\ NoScan \in Scans /\ NoScan.now = 0
  BY DEF NoItems, NoScan, Scans
<1> USE <1>0 DEF TypeInv
<1>s. scan.now \in Nat /\ \A i \in Ids : [scan EXCEPT !.items[i] = NoItem] \in Scans
  <2>1. ASSUME NEW i \in Ids
        PROVE  [scan EXCEPT !.items[i] = NoItem] \in Scans
    <3>1. [scan.items EXCEPT ![i] = NoItem] \in [Ids -> Item \cup {NoItem}]
      BY DEF Scans
    <3>2. [scan EXCEPT !.items[i] = NoItem] = [scan EXCEPT !.items = [scan.items EXCEPT ![i] = NoItem]]
      BY DEF Scans
    <3> QED
      BY <3>1, <3>2 DEF Scans
  <2> QED
    BY <2>1 DEF Scans
<1>f. ASSUME NEW i \in Ids, NEW c \in Item \cup {NoItem}
      PROVE  [file EXCEPT !.items[i] = c] \in [on : BOOLEAN, items : [Ids -> Item \cup {NoItem}]]
  OBVIOUS
<1>1. CASE Tick
  <2>1. time < MaxTime /\ time' = time + 1 /\ scanned' = FALSE
    BY <1>1 DEF Tick
  <2>2. UNCHANGED <<file, rows, busy, pc, scan, told, archived, edits, faults>>
    BY <1>1 DEF Tick
  <2>3. time' \in 0..MaxTime /\ scan'.now <= time'
    BY <1>s, <2>1, <2>2
  <2> QED
    BY <2>1, <2>2, <2>3
<1>2. CASE TurnBegins \/ TurnEnds
  BY <1>2 DEF TurnBegins, TurnEnds, ghosts
<1>3. CASE Tool
  <2>1. ASSUME NEW f \in [on : BOOLEAN, items : [Ids -> Item \cup {NoItem}]],
               \E touched : Save(f, touched)
        PROVE  TypeInv'
    BY <2>1 DEF Save
  <2>2. \A i \in Ids : file.items[i] # NoItem => file.items[i] \in Item
    OBVIOUS
  <2>4. ASSUME NEW i \in Ids, NEW x \in Schedules, OpAdd(i, x)
        PROVE  TypeInv'
    <3>1. [enabled |-> TRUE, sch |-> x] \in Item
      BY DEF Item
    <3> QED
      BY <2>1, <1>f, <2>4, <3>1 DEF OpAdd
  <2>5. ASSUME NEW i \in Ids, NEW x \in Schedules, OpUpdate(i, x)
        PROVE  TypeInv'
    <3>1. [file.items[i] EXCEPT !.sch = x] \in Item
      BY <2>2, <2>5 DEF OpUpdate, Item
    <3>2. [file EXCEPT !.items[i].sch = x] = [file EXCEPT !.items[i] = [file.items[i] EXCEPT !.sch = x]]
      OBVIOUS
    <3> QED
      BY <2>1, <1>f, <2>5, <3>1, <3>2 DEF OpUpdate
  <2>6. ASSUME NEW i \in Ids, OpRemove(i)
        PROVE  TypeInv'
    BY <2>1, <1>f, <2>6 DEF OpRemove
  <2>7. ASSUME NEW i \in Ids, OpSetEnabled(i)
        PROVE  TypeInv'
    <3>1. [file.items[i] EXCEPT !.enabled = ~@] \in Item
      BY <2>2, <2>7 DEF OpSetEnabled, Item
    <3>2. [file EXCEPT !.items[i].enabled = ~@] = [file EXCEPT !.items[i] = [file.items[i] EXCEPT !.enabled = ~@]]
      OBVIOUS
    <3> QED
      BY <2>1, <1>f, <2>7, <3>1, <3>2 DEF OpSetEnabled
  <2>8. ASSUME OpSetAgentEnabled
        PROVE  TypeInv'
    BY <2>1, <2>8 DEF OpSetAgentEnabled
  <2> QED
    BY <1>3, <2>4, <2>5, <2>6, <2>7, <2>8 DEF Tool
<1>4. CASE StartScan \/ LoadFails \/ ScanEnds
  <2>1. IF file.on THEN file.items \in [Ids -> Item \cup {NoItem}] ELSE NoItems \in [Ids -> Item \cup {NoItem}]
    BY <1>n
  <2>2. StartScan => scan' \in Scans /\ scan'.now = time
    BY <1>n, <2>1 DEF Scans, StartScan
  <2>3. StartScan => TypeInv'
    <3> HIDE <1>n
    <3> QED
      BY <2>2 DEF StartScan, outside, ghosts, Points
  <2>4. LoadFails => TypeInv'
    BY DEF LoadFails, outside, Fault
  <2>5. ScanEnds => TypeInv'
    BY <1>n DEF ScanEnds, outside, ghosts, Points
  <2> QED
    BY <1>4, <2>3, <2>4, <2>5
<1>5. CASE \E i \in Ids : Skip(i) \/ DeferActive(i) \/ GateFails(i)
  <2>1. PICK i \in Ids : Skip(i) \/ DeferActive(i) \/ GateFails(i)
    BY <1>5
  <2>2. scan' = [scan EXCEPT !.items[i] = NoItem]
    BY <2>1 DEF Skip, DeferActive, GateFails, Leave
  <2>3. scan' \in Scans /\ scan'.now = scan.now
    BY <2>2, <1>s DEF Scans
  <2> QED
    BY <2>1, <2>3 DEF Skip, DeferActive, GateFails, outside, ghosts, Fault
<1>6. CASE \E i \in Ids : Allow(i)
  <2>1. PICK i \in Ids : Allow(i)
    BY <1>6
  <2>2. scan' \in Scans /\ scan'.now = scan.now
    BY <2>1 DEF Allow, Scans
  <2> QED
    BY <2>1, <2>2 DEF Allow, outside, ghosts, Points
<1>h. NextIntention => scan' \in Scans /\ scan'.now = scan.now /\ pc' \in Points
  BY DEF NextIntention, Scans, Points
<1>7. CASE CreateRun
  <2>1. scan.id \in Ids /\ scan.item \in Item /\ Key \in Keys
    BY <1>7 DEF HandInv, CreateRun, Resting
  <2>2. Rows \in Nat
    BY RunsCounted
  <2> DEFINE new == [status |-> "running", started |-> time, item |-> scan.item, order |-> Rows + 1]
  <2>3. new \in Row
    BY <2>1, <2>2 DEF Row, Statuses
  <2>4. CASE HasRun(scan.id, Key)
    BY <1>7, <1>h, <2>4 DEF CreateRun, outside, ghosts
  <2>5. CASE ~HasRun(scan.id, Key)
    <3>0. rows' = [rows EXCEPT ![scan.id][Key] = new]
      BY <1>7, <2>5 DEF CreateRun
    <3>1. rows' \in [Ids -> [Keys -> Row \cup {NoRow}]]
      <4> HIDE DEF new
      <4> QED
        BY <2>1, <2>3, <3>0
    <3> QED
      BY <1>7, <2>5, <3>1 DEF CreateRun, outside, ghosts, GoTo, Points
  <2> QED
    BY <2>4, <2>5
<1>8. CASE CreateFails \/ ArchiveFails \/ UpdateFails
  BY <1>8, <1>h DEF CreateFails, ArchiveFails, UpdateFails, outside, ghosts, Fault
<1>9. CASE ResolveHome \/ SendText \/ PersistPhase
  <2>1. told' \in [Ids -> [Keys -> Counts]]
    BY <1>9, ToldMore DEF ResolveHome, SendText, PersistPhase, Resting
  <2> QED
    BY <1>9, <2>1 DEF ResolveHome, SendText, PersistPhase, outside, GoTo, Points
<1>10. CASE UpdateRunSkipped \/ UpdateRunFailed \/ UpdateRunSuccess
  <2>1. rows' \in [Ids -> [Keys -> Row \cup {NoRow}]]
    BY <1>10, UpdatedRow DEF UpdateRunSkipped, UpdateRunFailed, UpdateRunSuccess, Claimed, Resting, Points, Statuses
  <2> QED
    BY <1>10, <1>h, <2>1 DEF UpdateRunSkipped, UpdateRunFailed, UpdateRunSuccess, outside, ghosts, GoTo, Points
<1>11. CASE Activation \/ ActivationFails \/ SendFails \/ PersistFails
  BY <1>11 DEF Activation, ActivationFails, SendFails, PersistFails, outside, ghosts, GoTo, Points, Fault
<1>12. CASE ArchiveIntention
  <2>1. scan.id \in Ids /\ Key \in Keys
    BY <1>12 DEF HandInv, ArchiveIntention, Resting
  <2>2. file' \in [on : BOOLEAN, items : [Ids -> Item \cup {NoItem}]]
    BY <1>12, <1>f, <2>1 DEF ArchiveIntention
  <2>3. \A x \in archived' : x[1] \in Ids /\ x[3] \in Keys
    BY <1>12, <2>1 DEF ArchiveIntention
  <2> QED
    BY <1>12, <1>h, <2>2, <2>3 DEF ArchiveIntention
<1>13. CASE Crash
  <2>1. scan' \in Scans /\ scan'.now = 0
    BY <1>n, <1>13 DEF Crash
  <2>2. UNCHANGED <<time, file, rows, told, archived, edits, scanned>>
    BY <1>13 DEF Crash
  <2>3. pc' \in Points /\ busy' \in BOOLEAN /\ faults' \in 0..MaxFaults
    <3>1. pc' = "down" /\ busy' = FALSE /\ Fault
      BY <1>13 DEF Crash
    <3>2. faults' \in 0..MaxFaults
      BY <3>1 DEF Fault
    <3> QED
      BY <3>1, <3>2 DEF Points
  <2>4. scan'.now <= time'
    BY <2>1, <2>2
  <2> QED
    BY <2>1, <2>2, <2>3, <2>4
<1>14. CASE Restart
  <2>1. \A i \in Ids : \A k \in Keys : ReapOrphaned(i, k) \in Row \cup {NoRow}
    <3> SUFFICES ASSUME NEW i \in Ids, NEW k \in Keys
                 PROVE  ReapOrphaned(i, k) \in Row \cup {NoRow}
      OBVIOUS
    <3>1. rows[i][k] \in Row \/ rows[i][k] = NoRow
      OBVIOUS
    <3>2. NoRow.status = "none"
      BY DEF NoRow
    <3>3. rows[i][k] \in Row => [rows[i][k] EXCEPT !.status = "failed"] \in Row
      BY DEF Row, Statuses
    <3> QED
      BY <3>1, <3>2, <3>3 DEF ReapOrphaned
  <2>2. rows' \in [Ids -> [Keys -> Row \cup {NoRow}]]
    BY <1>14, <2>1 DEF Restart
  <2> QED
    BY <1>14, <2>2 DEF Restart, outside, ghosts, Points
<1>15. CASE RestartUnreaped
  BY <1>15 DEF RestartUnreaped, outside, ghosts, Points
<1> QED
  BY <1>1, <1>2, <1>3, <1>4, <1>5, <1>6, <1>7, <1>8, <1>9, <1>10, <1>11, <1>12, <1>13, <1>14, <1>15
     DEF Next, Scheduler, Failures

LEMMA NoHand ==
    /\ Nobody \notin Ids
    /\ NoScan.id = Nobody /\ NoScan.item = NoItem /\ NoScan.now = 0
    /\ scan \in Scans /\ NextIntention => pc' = "scan" /\ scan'.id = Nobody
<1>1. Nobody \notin Ids
  BY PulseAssumption DEF Nobody
<1>2. NoScan.id = Nobody /\ NoScan.item = NoItem /\ NoScan.now = 0
  BY DEF NoScan
<1>3. NextIntention => pc' = "scan" /\ scan' = [scan EXCEPT !.id = Nobody, !.item = NoItem]
  BY DEF NextIntention
<1> QED
  BY <1>1, <1>2, <1>3 DEF Scans

LEMMA AllowFacts ==
    ASSUME TypeInv, NEW i \in Ids, Allow(i)
    PROVE  /\ pc' = "create" /\ scan.items[i] \in Item /\ Fires(i, scan.items[i], scan.now)
           /\ scan'.id = i /\ scan'.item = scan.items[i] /\ scan'.now = scan.now
           /\ Key' = GenerateDueKey(scan.items[i].sch, scan.now)
           /\ rows' = rows /\ time' = time /\ Key' \in Keys
<1>1. scan.items[i] \in Item /\ scan.now \in 0..MaxTime /\ scan.items[i].enabled
  BY PulseAssumption DEF Allow, TypeInv, Scans, Fires, Due, Item, NoItem
<1>2. scan.items[i].sch \in Schedules
  BY <1>1 DEF Item
<1>3. scan.items[i].sch.kind = "once" => scan.items[i].sch.arg = Day(scan.now)
  BY DEF Allow, Fires, Due, CheckDue, IsOnceDue
<1>4. scan'.id = i /\ scan'.item = scan.items[i] /\ scan'.now = scan.now
  BY <1>1 DEF Allow, TypeInv, Scans
<1>5. Key' = GenerateDueKey(scan.items[i].sch, scan.now)
  BY <1>4 DEF Key
<1> QED
  BY <1>1, <1>2, <1>3, <1>4, <1>5, KeyInKeys DEF Allow, outside

LEMMA CreateFacts ==
    ASSUME TypeInv, HandInv, CreateRun, ~HasRun(scan.id, Key)
    PROVE  /\ pc = "create" /\ pc' = "home" /\ scan' = scan /\ Key' = Key /\ time' = time
           /\ scan.id \in Ids /\ scan.item \in Item /\ Key \in Keys
           /\ rows[scan.id][Key] = NoRow
           /\ rows' = [rows EXCEPT ![scan.id][Key] = [status |-> "running", started |-> time,
                                                      item |-> scan.item, order |-> Rows + 1]]
           /\ \A j \in Ids : \A l \in Keys : <<j, l>> # <<scan.id, Key>> => rows'[j][l] = rows[j][l]
           /\ rows'[scan.id][Key] = [status |-> "running", started |-> time,
                                     item |-> scan.item, order |-> Rows + 1]
           /\ Rows' = Rows + 1
<1>1. pc = "create" /\ scan.id \in Ids /\ scan.item \in Item /\ Key \in Keys
  BY DEF HandInv, CreateRun, Resting
<1>2. scan' = scan /\ Key' = Key /\ pc' = "home" /\ time' = time
  BY DEF CreateRun, GoTo, Key, outside
<1> DEFINE new == [status |-> "running", started |-> time, item |-> scan.item, order |-> Rows + 1]
<1>3. rows' = [rows EXCEPT ![scan.id][Key] = new]
  BY DEF CreateRun
<1>4. new.status = "running"
  OBVIOUS
<1>5. rows[scan.id][Key] = NoRow
  <2>1. rows[scan.id][Key] \in Row \/ rows[scan.id][Key] = NoRow
    BY <1>1 DEF TypeInv
  <2>2. rows[scan.id][Key].status = "none"
    BY <1>1 DEF HasRun
  <2> QED
    BY <2>1, <2>2 DEF Row, Statuses
<1>6. /\ \A j \in Ids : \A l \in Keys : <<j, l>> # <<scan.id, Key>> => rows'[j][l] = rows[j][l]
      /\ rows'[scan.id][Key] = new
  <2> HIDE DEF new
  <2> QED
    BY <1>1, <1>3 DEF TypeInv
<1>7. HasRun(scan.id, Key)'
  BY <1>1, <1>2, <1>4, <1>6 DEF HasRun
<1>8. \A j \in Ids : \A l \in Keys : <<j, l>> # <<scan.id, Key>> => (HasRun(j, l)' <=> HasRun(j, l))
  BY <1>6 DEF HasRun
<1>9. Rows' = Rows + 1
  <2>1. HasRun(scan.id, Key)' = (Key \in Keys /\ rows'[scan.id][Key].status # "none")
    BY <1>2 DEF HasRun
  <2>2. \A i \in Ids : \A k \in Keys :
           i = scan.id /\ k = Key => ~HasRun(i, k) /\ (k \in Keys /\ rows'[i][k].status # "none")
    BY <1>4, <1>6
  <2> QED
    BY <1>1, <1>8, <2>2, RunsCounted DEF HasRun
<1> QED
  BY <1>1, <1>2, <1>3, <1>5, <1>6, <1>9, Zenon

(* Writing an outcome changes the status of the run in hand and of no other. *)
LEMMA UpdateFacts ==
    ASSUME TypeInv, HandInv, pc \in Claimed, NEW st \in Statuses, Update(st)
    PROVE  /\ scan.id \in Ids /\ Key \in Keys
           /\ \A j \in Ids : \A l \in Keys : <<j, l>> # <<scan.id, Key>> => rows'[j][l] = rows[j][l]
           /\ rows'[scan.id][Key].status = st
           /\ rows'[scan.id][Key].item = rows[scan.id][Key].item
           /\ rows'[scan.id][Key].order = rows[scan.id][Key].order
           /\ rows'[scan.id][Key].started = rows[scan.id][Key].started
           /\ \A j \in Ids : \A l \in Keys : HasRun(j, l)' <=> HasRun(j, l)
           /\ Rows' = Rows
<1>1. scan.id \in Ids /\ Key \in Keys /\ rows[scan.id][Key].status \in {"running", "success"}
  BY DEF HandInv, Claimed, Resting
<1> DEFINE new == [rows[scan.id][Key] EXCEPT !.status = st]
<1>2. /\ rows[scan.id][Key] \in Row
      /\ rows' = [rows EXCEPT ![scan.id][Key] = new]
  BY UpdatedRow
<1>3. /\ new.status = st /\ new.item = rows[scan.id][Key].item /\ new.order = rows[scan.id][Key].order
      /\ new.started = rows[scan.id][Key].started
  BY <1>2 DEF Row
<1>4. /\ \A j \in Ids : \A l \in Keys : <<j, l>> # <<scan.id, Key>> => rows'[j][l] = rows[j][l]
      /\ rows'[scan.id][Key] = new
  <2> HIDE DEF new
  <2> QED
    BY <1>1, <1>2 DEF TypeInv
<1>5. st # "none"
  BY DEF Statuses
<1>6. ASSUME NEW j \in Ids, NEW l \in Keys
      PROVE  HasRun(j, l)' <=> HasRun(j, l)
  <2> HIDE DEF new
  <2>1. CASE j = scan.id /\ l = Key
    BY <1>1, <1>3, <1>4, <1>5, <2>1 DEF HasRun
  <2>2. CASE <<j, l>> # <<scan.id, Key>>
    BY <1>4, <2>2 DEF HasRun
  <2> QED
    BY <2>1, <2>2
<1>7. Rows' = Rows
  BY <1>6, RunsCounted
<1> HIDE DEF new
<1> QED
  BY <1>1, <1>3, <1>4, <1>6, <1>7

LEMMA HandStep ==
    ASSUME TypeInv, HandInv, Next
    PROVE  HandInv'
<1> USE NoHand
<1>0. scan \in Scans
  BY DEF TypeInv
<1>1. ASSUME pc' = pc, rows' = rows, scan' = scan
      PROVE  HandInv'
  BY <1>1, RunsCounted DEF HandInv, Key
<1>2. ASSUME pc' \in Resting, scan'.id = Nobody
      PROVE  HandInv'
  BY <1>2 DEF HandInv, Claimed, Resting
<1>3. ASSUME pc \in Claimed \ {"archive"}, pc' \in Claimed \ {"archive"}, rows' = rows, scan' = scan
      PROVE  HandInv'
  BY <1>3, RunsCounted DEF HandInv, Claimed, Resting, Key
<1>4. CASE Tick \/ TurnBegins \/ TurnEnds \/ LoadFails
  BY <1>1, <1>4 DEF Tick, TurnBegins, TurnEnds, LoadFails, outside
<1>5. CASE Tool
  BY <1>1, <1>5 DEF Tool, OpAdd, OpUpdate, OpRemove, OpSetEnabled, OpSetAgentEnabled, Save
<1>6. CASE StartScan \/ ScanEnds \/ Crash
  <2>1. scan'.id = Nobody
    BY <1>6 DEF StartScan, ScanEnds, Crash, NoScan
  <2> QED
    BY <1>2, <1>6, <2>1 DEF StartScan, ScanEnds, Crash, Resting
<1>7. CASE Restart \/ RestartUnreaped
  BY <1>2, <1>7 DEF Restart, RestartUnreaped, Resting, outside, HandInv
<1>8. CASE \E i \in Ids : Skip(i) \/ DeferActive(i) \/ GateFails(i)
  <2>1. PICK i \in Ids : Leave(i)
    BY <1>8 DEF Skip, DeferActive, GateFails
  <2>2. scan'.id = scan.id
    BY <2>1 DEF Leave, TypeInv, Scans
  <2>3. pc = "scan" /\ pc' = "scan"
    BY <1>8 DEF Skip, DeferActive, GateFails
  <2> QED
    BY <1>2, <2>2, <2>3 DEF HandInv, Resting
<1>9. CASE \E i \in Ids : Allow(i)
  BY <1>9, AllowFacts DEF HandInv, Resting, Claimed
<1>10. CASE CreateFails \/ UpdateFails \/ ArchiveFails \/ ArchiveIntention \/ UpdateRunSkipped \/ UpdateRunFailed
  BY <1>0, <1>2, <1>10 DEF CreateFails, UpdateFails, ArchiveFails, ArchiveIntention, UpdateRunSkipped, UpdateRunFailed, Resting
<1>11. CASE CreateRun
  <2>1. CASE HasRun(scan.id, Key)
    BY <1>0, <1>2, <1>11, <2>1 DEF CreateRun, Resting
  <2>2. CASE ~HasRun(scan.id, Key)
    BY <1>11, <2>2, CreateFacts DEF HandInv, Claimed, Resting
  <2> QED
    BY <2>1, <2>2
<1>12. CASE ResolveHome \/ Activation \/ ActivationFails \/ SendText \/ SendFails \/ PersistPhase \/ PersistFails
  BY <1>3, <1>12 DEF ResolveHome, Activation, ActivationFails, SendText, SendFails, PersistPhase, PersistFails,
     GoTo, Claimed, Resting, Points
<1>13. CASE UpdateRunSuccess
  <2>1. CASE NextIntention
    BY <1>0, <1>2, <2>1 DEF Resting
  <2>2. CASE GoTo("archive")
    <3>1. Update("success") /\ pc \in Claimed \ {"archive"} /\ "success" \in Statuses /\ scan' = scan /\ Key' = Key /\ pc' = "archive"
      BY <1>13, <2>2 DEF UpdateRunSuccess, Claimed, Resting, Points, Statuses, GoTo, Key
    <3> QED
      BY <3>1, UpdateFacts DEF HandInv, Claimed, Resting
  <2> QED
    BY <1>13, <2>1, <2>2 DEF UpdateRunSuccess
<1> QED
  BY <1>4, <1>5, <1>6, <1>7, <1>8, <1>9, <1>10, <1>11, <1>12, <1>13 DEF Next, Scheduler, Failures

-----------------------------------------------------------------------------
(* What the runs did.                                                       *)

LEMMA ReapFacts ==
    ASSUME TypeInv, Restart
    PROVE  /\ \A i \in Ids : \A k \in Keys :
                /\ rows'[i][k].status = "none" <=> rows[i][k].status = "none"
                /\ rows'[i][k].status = "success" <=> rows[i][k].status = "success"
                /\ HasRun(i, k)' <=> HasRun(i, k)
                /\ HasRun(i, k) => /\ rows'[i][k].item = rows[i][k].item
                                   /\ rows'[i][k].order = rows[i][k].order
                                   /\ rows'[i][k].started = rows[i][k].started
           /\ Rows' = Rows
<1>1. ASSUME NEW i \in Ids, NEW k \in Keys
      PROVE  /\ rows'[i][k].status = "none" <=> rows[i][k].status = "none"
             /\ rows'[i][k].status = "success" <=> rows[i][k].status = "success"
             /\ HasRun(i, k) => /\ rows'[i][k].item = rows[i][k].item
                                /\ rows'[i][k].order = rows[i][k].order
                                /\ rows'[i][k].started = rows[i][k].started
  <2>1. rows'[i][k] = ReapOrphaned(i, k)
    BY DEF Restart
  <2>2. rows[i][k] \in Row \/ rows[i][k] = NoRow
    BY DEF TypeInv
  <2>3. CASE rows[i][k] \in Row /\ rows[i][k].status = "running"
    <3>1. rows'[i][k] = [rows[i][k] EXCEPT !.status = "failed"]
      BY <2>1, <2>3 DEF ReapOrphaned
    <3> QED
      BY <2>3, <3>1 DEF Row
  <2>4. CASE rows[i][k].status # "running"
    BY <2>1, <2>4 DEF ReapOrphaned
  <2>5. rows[i][k] = NoRow => rows[i][k].status # "running"
    BY DEF NoRow
  <2> QED
    BY <2>2, <2>3, <2>4, <2>5
<1>2. \A i \in Ids : \A k \in Keys : HasRun(i, k)' <=> HasRun(i, k)
  BY <1>1 DEF HasRun
<1>3. Rows' = Rows
  BY <1>2, RunsCounted
<1> QED
  BY <1>1, <1>2, <1>3

LEMMA ToldStep ==
    ASSUME TypeInv, HandInv, ToldInv, Next
    PROVE  ToldInv'
<1>q. rows' = rows /\ told' = told => \A i \in Ids : \A k \in Keys : Tells(i, k)'
  BY DEF ToldInv, Tells, Tale
<1>r. pc' \in Resting \cup {"create", "fail", "archive"} => HandTale'
  BY DEF HandTale, Resting
<1>1. ASSUME pc' = pc, rows' = rows, scan' = scan, told' = told
      PROVE  ToldInv'
  <2>1. HandTale'
    BY <1>1 DEF ToldInv, HandTale, InHand, Tale, Key
  <2> QED
    BY <1>1, <1>q, <2>1 DEF ToldInv
<1>2. ASSUME pc' \in Resting \cup {"create", "fail", "archive"}, rows' = rows, told' = told
      PROVE  ToldInv'
  BY <1>2, <1>q, <1>r DEF ToldInv
<1>3. ASSUME NEW what \in {"fired", "sent", "trace"}, Tell(what), pc \notin Resting, rows' = rows, scan' = scan,
             NEW a \in 0..1, NEW b \in 0..1, NEW c \in Nat, NEW tale, InHand(Tale(a, b, c)),
             tale = [Tale(a, b, c) EXCEPT ![what] = @ + 1],
             tale.fired <= 1, tale.sent <= 1, tale.trace > 0 => tale.sent > 0,
             rows[scan.id][Key].status = "running"
      PROVE  InHand(tale)' /\ \A i \in Ids : \A k \in Keys : Tells(i, k)'
  <2>1. scan.id \in Ids /\ Key \in Keys /\ Key' = Key
    BY <1>3 DEF HandInv, Key
  <2>2. told' = [told EXCEPT ![scan.id][Key] = tale]
    BY <1>3, ToldMore DEF InHand
  <2>3. told'[scan.id][Key] = tale
    BY <2>1, <2>2 DEF TypeInv
  <2>4. \A i \in Ids : \A k \in Keys : <<i, k>> # <<scan.id, Key>> => told'[i][k] = told[i][k]
    BY <2>1, <2>2 DEF TypeInv
  <2>5. ASSUME NEW i \in Ids, NEW k \in Keys
        PROVE  Tells(i, k)'
    <3>1. CASE i = scan.id /\ k = Key
      BY <1>3, <2>3, <3>1 DEF Tells
    <3>2. CASE <<i, k>> # <<scan.id, Key>>
      BY <1>3, <2>4, <3>2 DEF ToldInv, Tells, Tale
    <3> QED
      BY <3>1, <3>2
  <2>6. InHand(tale)'
    BY <1>3, <2>1, <2>3 DEF InHand
  <2> QED
    BY <2>5, <2>6
<1>4. ASSUME NEW st \in Statuses, Update(st), pc \in Claimed, told' = told,
             st = "success" => pc \in {"silent", "success"}
      PROVE  \A i \in Ids : \A k \in Keys : Tells(i, k)'
  <2> SUFFICES ASSUME NEW i \in Ids, NEW k \in Keys
               PROVE  Tells(i, k)'
    OBVIOUS
  <2>1. Tells(i, k)
    BY DEF ToldInv
  <2>2. CASE i = scan.id /\ k = Key
    <3>1. st = "success" => told[i][k].trace = 2 * told[i][k].sent
      BY <1>4, <2>2 DEF ToldInv, HandTale, InHand, Tale
    <3>2. rows'[i][k].status = st /\ st # "none"
      BY <1>4, <2>2, UpdateFacts DEF Statuses
    <3> QED
      BY <1>4, <2>1, <3>1, <3>2 DEF Tells
  <2>3. CASE <<i, k>> # <<scan.id, Key>>
    BY <1>4, <2>1, <2>3, UpdateFacts DEF Tells, Tale
  <2> QED
    BY <2>2, <2>3
<1>5. CASE Tick \/ TurnBegins \/ TurnEnds \/ LoadFails
  BY <1>1, <1>5 DEF Tick, TurnBegins, TurnEnds, LoadFails, outside, ghosts
<1>6. CASE Tool
  BY <1>1, <1>6 DEF Tool, OpAdd, OpUpdate, OpRemove, OpSetEnabled, OpSetAgentEnabled, Save
<1>7. CASE StartScan \/ ScanEnds \/ Crash \/ RestartUnreaped
  BY <1>2, <1>7 DEF StartScan, ScanEnds, Crash, RestartUnreaped, Resting, outside, ghosts
<1>8. CASE Restart
  <2>1. pc' = "idle" /\ told' = told
    BY <1>8 DEF Restart, ghosts
  <2>2. \A i \in Ids : \A k \in Keys : Tells(i, k)'
    BY <1>8, <2>1, ReapFacts DEF ToldInv, Tells, Tale
  <2> QED
    BY <1>r, <2>1, <2>2 DEF ToldInv, Resting
<1>9. CASE \E i \in Ids : Skip(i) \/ DeferActive(i) \/ GateFails(i) \/ Allow(i)
  BY <1>2, <1>9 DEF Skip, DeferActive, GateFails, Allow, Resting, outside, ghosts
<1>10. CASE CreateFails \/ UpdateFails \/ ArchiveFails \/ ArchiveIntention
  BY <1>2, <1>10 DEF CreateFails, UpdateFails, ArchiveFails, ArchiveIntention, NextIntention, Resting, outside, ghosts
<1>11. CASE CreateRun
  <2>1. CASE HasRun(scan.id, Key)
    BY <1>2, <1>11, <2>1 DEF CreateRun, NextIntention, Resting, outside, ghosts
  <2>2. CASE ~HasRun(scan.id, Key)
    <3>1. told' = told /\ pc' = "home"
      BY <1>11, <2>2, CreateFacts DEF CreateRun, ghosts
    <3>2. told[scan.id][Key] = Tale(0, 0, 0)
      BY <1>11, <2>2, CreateFacts DEF ToldInv, Tells, HasRun
    <3>3. HandTale'
      BY <1>11, <2>2, <3>1, <3>2, CreateFacts DEF HandTale, InHand, Tale
    <3>4. ASSUME NEW i \in Ids, NEW k \in Keys
          PROVE  Tells(i, k)'
      <4>1. CASE i = scan.id /\ k = Key
        <5>1. rows'[i][k].status = "running"
          BY <1>11, <2>2, <4>1, CreateFacts
        <5> QED
          BY <3>1, <3>2, <4>1, <5>1 DEF Tells, Tale
      <4>2. CASE <<i, k>> # <<scan.id, Key>>
        <5>1. rows'[i][k] = rows[i][k]
          BY <1>11, <2>2, <4>2, CreateFacts
        <5> QED
          BY <3>1, <5>1 DEF ToldInv, Tells, Tale
      <4> QED
        BY <4>1, <4>2
    <3> QED
      BY <3>3, <3>4 DEF ToldInv
  <2> QED
    BY <2>1, <2>2
<1>h. pc \in Claimed \ {"archive"} => rows[scan.id][Key].status = "running"
  BY DEF HandInv
<1>12. CASE ResolveHome
  <2>1. pc = "home" /\ rows' = rows /\ scan' = scan
    BY <1>12 DEF ResolveHome, GoTo
  <2>2. CASE pc' = "activate" /\ Tell("fired")
    <3>1. InHand(Tale(0, 0, 0))
      BY <2>1 DEF ToldInv, HandTale
    <3>2. Tale(1, 0, 0) = [Tale(0, 0, 0) EXCEPT !["fired"] = @ + 1]
      BY DEF Tale
    <3>3. /\ Tale(1, 0, 0).fired <= 1 /\ Tale(1, 0, 0).sent <= 1
          /\ Tale(1, 0, 0).trace > 0 => Tale(1, 0, 0).sent > 0
      BY DEF Tale
    <3>4. InHand(Tale(1, 0, 0))' /\ \A i \in Ids : \A k \in Keys : Tells(i, k)'
      BY <1>3, <1>h, <2>1, <2>2, <3>1, <3>2, <3>3 DEF Claimed, Resting, Points
    <3>5. HandTale'
      BY <2>2, <3>4 DEF HandTale, InHand, Tale
    <3> QED
      BY <3>4, <3>5 DEF ToldInv
  <2>3. CASE pc' = "skip" /\ told' = told
    <3>1. HandTale'
      BY <2>1, <2>3 DEF ToldInv, HandTale, InHand, Tale, Key
    <3> QED
      BY <1>q, <2>1, <2>3, <3>1 DEF ToldInv
  <2> QED
    BY <1>12, <2>2, <2>3 DEF ResolveHome, GoTo
<1>13. CASE UpdateRunSkipped \/ UpdateRunFailed
  <2>1. /\ \E st \in {"skipped", "failed"} : Update(st)
        /\ pc \in Claimed /\ told' = told /\ pc' = "scan"
    BY <1>13 DEF UpdateRunSkipped, UpdateRunFailed, NextIntention, Claimed, Resting, Points, ghosts
  <2> QED
    BY <1>4, <1>r, <2>1 DEF ToldInv, Resting, Statuses
<1>14. CASE UpdateRunSuccess
  <2>1. Update("success") /\ pc \in Claimed /\ pc \in {"silent", "success"} /\ told' = told /\ pc' \in {"scan", "archive"}
    BY <1>14 DEF UpdateRunSuccess, NextIntention, GoTo, Claimed, Resting, Points, ghosts
  <2> QED
    BY <1>4, <1>r, <2>1 DEF ToldInv, Resting, Statuses
<1>15. CASE Activation
  <2>1. pc = "activate" /\ pc' \in {"silent", "send"} /\ scan' = scan /\ rows' = rows /\ told' = told
    BY <1>15 DEF Activation, GoTo, ghosts
  <2>2. HandTale'
    BY <2>1 DEF ToldInv, HandTale, InHand, Tale, Key
  <2> QED
    BY <1>q, <2>1, <2>2 DEF ToldInv
<1>16. CASE ActivationFails \/ SendFails \/ PersistFails
  BY <1>2, <1>16 DEF ActivationFails, SendFails, PersistFails, GoTo, ghosts
<1>17. CASE SendText
  <2>1. pc = "send" /\ rows' = rows /\ scan' = scan /\ pc' = "input" /\ Tell("sent")
    BY <1>17 DEF SendText, GoTo
  <2>2. InHand(Tale(1, 0, 0))
    BY <2>1 DEF ToldInv, HandTale
  <2>3. Tale(1, 1, 0) = [Tale(1, 0, 0) EXCEPT !["sent"] = @ + 1]
    BY DEF Tale
  <2>4. /\ Tale(1, 1, 0).fired <= 1 /\ Tale(1, 1, 0).sent <= 1
        /\ Tale(1, 1, 0).trace > 0 => Tale(1, 1, 0).sent > 0
    BY DEF Tale
  <2>5. InHand(Tale(1, 1, 0))' /\ \A i \in Ids : \A k \in Keys : Tells(i, k)'
    BY <1>3, <1>h, <2>1, <2>2, <2>3, <2>4 DEF Claimed, Resting, Points
  <2>6. HandTale'
    BY <2>1, <2>5 DEF HandTale, InHand, Tale
  <2> QED
    BY <2>5, <2>6 DEF ToldInv
<1>18. CASE PersistPhase
  <2>1. pc \in {"input", "output"} /\ rows' = rows /\ scan' = scan /\ Tell("trace")
    BY <1>18 DEF PersistPhase, GoTo
  <2>2. CASE pc = "input"
    <3>1. InHand(Tale(1, 1, 0)) /\ pc' = "output"
      BY <1>18, <2>2 DEF PersistPhase, GoTo, ToldInv, HandTale
    <3>2. Tale(1, 1, 1) = [Tale(1, 1, 0) EXCEPT !["trace"] = @ + 1]
      BY DEF Tale
    <3>3. /\ Tale(1, 1, 1).fired <= 1 /\ Tale(1, 1, 1).sent <= 1
          /\ Tale(1, 1, 1).trace > 0 => Tale(1, 1, 1).sent > 0
      BY DEF Tale
    <3>4. InHand(Tale(1, 1, 1))' /\ \A i \in Ids : \A k \in Keys : Tells(i, k)'
      BY <1>3, <1>h, <2>1, <2>2, <3>1, <3>2, <3>3 DEF Claimed, Resting, Points
    <3>5. HandTale'
      BY <3>1, <3>4 DEF HandTale, InHand, Tale
    <3> QED
      BY <3>4, <3>5 DEF ToldInv
  <2>3. CASE pc = "output"
    <3>1. InHand(Tale(1, 1, 1)) /\ pc' = "success"
      BY <1>18, <2>3 DEF PersistPhase, GoTo, ToldInv, HandTale
    <3>2. Tale(1, 1, 2) = [Tale(1, 1, 1) EXCEPT !["trace"] = @ + 1]
      BY DEF Tale
    <3>3. /\ Tale(1, 1, 2).fired <= 1 /\ Tale(1, 1, 2).sent <= 1
          /\ Tale(1, 1, 2).trace > 0 => Tale(1, 1, 2).sent > 0
      BY DEF Tale
    <3>4. InHand(Tale(1, 1, 2))' /\ \A i \in Ids : \A k \in Keys : Tells(i, k)'
      BY <1>3, <1>h, <2>1, <2>3, <3>1, <3>2, <3>3 DEF Claimed, Resting, Points
    <3>5. HandTale'
      BY <3>1, <3>4 DEF HandTale, InHand, Tale
    <3> QED
      BY <3>4, <3>5 DEF ToldInv
  <2> QED
    BY <2>1, <2>2, <2>3
<1> QED
  BY <1>5, <1>6, <1>7, <1>8, <1>9, <1>10, <1>11, <1>12, <1>13, <1>14, <1>15, <1>16, <1>17, <1>18
     DEF Next, Scheduler, Failures

(* The latest success of an intention is the latest of all.                 *)
LEMMA LatestSuccess ==
    ASSUME TypeInv, RowsInv, NEW i \in Ids
    PROVE  /\ LastSuccess(i) \subseteq Succeeded(i) /\ Succeeded(i) \subseteq 0..time
           /\ \A k \in Keys : rows[i][k].status = "success" =>
                \E l \in LastSuccess(i) : l \in Nat /\ rows[i][k].started \in Nat /\ rows[i][k].started <= l
<1> DEFINE S == Succeeded(i)
<1>1. time \in Nat
  BY PulseAssumption DEF TypeInv
<1>2. \A k \in Keys : rows[i][k].status = "success" => rows[i][k].started \in 0..time
  <2> SUFFICES ASSUME NEW k \in Keys, rows[i][k].status = "success"
               PROVE  rows[i][k].started \in 0..time
    OBVIOUS
  <2>1. rows[i][k] \in Row
    BY DEF TypeInv, NoRow
  <2> QED
    BY <1>1, <2>1 DEF RowsInv, HasRun, Row
<1>3. S \subseteq 0..time
  BY <1>2 DEF Succeeded
<1>5. S # {} => Max(S) \in S /\ \A x \in S : x <= Max(S)
  <2> HIDE DEF S
  <2> QED
    BY <1>1, <1>3, LargestOf
<1>6. LastSuccess(i) = IF S = {} THEN {} ELSE {Max(S)}
  BY DEF LastSuccess
<1>7. LastSuccess(i) \subseteq S
  BY <1>5, <1>6
<1>8. ASSUME NEW k \in Keys, rows[i][k].status = "success"
      PROVE  \E l \in LastSuccess(i) : l \in Nat /\ rows[i][k].started \in Nat /\ rows[i][k].started <= l
  <2>1. rows[i][k].started \in S
    BY <1>8 DEF Succeeded
  <2>2. LastSuccess(i) = {Max(S)}
    BY <1>6, <2>1
  <2> HIDE DEF S
  <2>3. Max(S) \in 0..time /\ rows[i][k].started \in 0..time /\ rows[i][k].started <= Max(S)
    BY <1>3, <1>5, <2>1
  <2> QED
    BY <1>1, <2>2, <2>3
<1> QED
  BY <1>3, <1>7, <1>8

LEMMA PastGrows ==
    ASSUME time \in Nat, time' \in Nat, time <= time', NEW k \in Keys, Past(k)
    PROVE  Past(k)'
<1>1. Day(time) \in Nat /\ Day(time') \in Nat /\ Day(time) <= Day(time')
  BY InstantOfDay, DaysGrow
<1>2. Day(time) \div WeekLen \in Nat /\ Day(time') \div WeekLen \in Nat
      /\ Day(time) \div WeekLen <= Day(time') \div WeekLen
  BY <1>1, Quotient, QuotientGrows, CalendarAssumption
<1>3. k[2] \in Int
  <2>1. MaxTime \in Nat /\ WeekLen \in Nat \ {0}
    BY PulseAssumption, CalendarAssumption
  <2> QED
    BY DEF Keys
<1> QED
  BY <1>1, <1>2, <1>3 DEF Past

(* A step that leaves the claimed rows as they are, but for their status.   *)
LEMMA RowsKept ==
    ASSUME TypeInv, RowsInv, time \in Nat, time' \in Nat, time <= time', Rows' = Rows,
           \A i \in Ids : \A k \in Keys :
             /\ HasRun(i, k)' <=> HasRun(i, k)
             /\ HasRun(i, k) => /\ rows'[i][k].order = rows[i][k].order
                                /\ rows'[i][k].started = rows[i][k].started
    PROVE  \A i \in Ids : \A k \in Keys : HasRun(i, k)' =>
             rows'[i][k].started <= time' /\ rows'[i][k].order <= Rows' /\ Past(k)'
<1> SUFFICES ASSUME NEW i \in Ids, NEW k \in Keys, HasRun(i, k)
             PROVE  rows[i][k].started <= time' /\ rows[i][k].order <= Rows /\ Past(k)'
  OBVIOUS
<1>1. rows[i][k].started <= time /\ rows[i][k].order <= Rows /\ Past(k)
  BY DEF RowsInv
<1>2. rows[i][k] \in Row
  BY DEF TypeInv, NoRow, HasRun
<1> QED
  BY <1>1, <1>2, PastGrows DEF Row

LEMMA RowsStep ==
    ASSUME TypeInv, TypeInv', HandInv, RowsInv, Next
    PROVE  RowsInv'
<1>0. time \in Nat /\ time' \in Nat
  BY PulseAssumption DEF TypeInv
<1>1. ASSUME rows' = rows, time <= time'
      PROVE  \A i \in Ids : \A k \in Keys : HasRun(i, k)' =>
               rows'[i][k].started <= time' /\ rows'[i][k].order <= Rows' /\ Past(k)'
  BY <1>0, <1>1, RowsKept, RunsCounted DEF HasRun
<1>2. ASSUME rows' = rows, time <= time', pc' # "create"
      PROVE  RowsInv'
  BY <1>1, <1>2 DEF RowsInv
<1>3. ASSUME rows' = rows, time <= time', pc' = pc, scan' = scan
      PROVE  RowsInv'
  <2>1. pc = "create" => Key \in Keys /\ Key' = Key
    BY <1>3 DEF HandInv, Resting, Key
  <2>2. pc = "create" => Past(Key)'
    BY <1>0, <1>3, <2>1, PastGrows DEF RowsInv
  <2>3. pc' = "create" => (Past(Key))'
    BY <1>3, <2>1, <2>2 DEF Past
  <2> QED
    BY <1>1, <1>3, <2>3 DEF RowsInv
<1>4. CASE Tick \/ TurnBegins \/ TurnEnds \/ LoadFails
  BY <1>0, <1>3, <1>4 DEF Tick, TurnBegins, TurnEnds, LoadFails, outside
<1>5. CASE Tool
  BY <1>0, <1>3, <1>5 DEF Tool, OpAdd, OpUpdate, OpRemove, OpSetEnabled, OpSetAgentEnabled, Save
<1>6. CASE StartScan \/ ScanEnds \/ Crash \/ RestartUnreaped
  BY <1>0, <1>2, <1>6 DEF StartScan, ScanEnds, Crash, RestartUnreaped, outside
<1>7. CASE \E i \in Ids : Skip(i) \/ DeferActive(i) \/ GateFails(i)
  BY <1>0, <1>2, <1>7 DEF Skip, DeferActive, GateFails, outside
<1>8. CASE CreateFails \/ UpdateFails \/ ArchiveFails \/ ArchiveIntention
  BY <1>0, <1>2, <1>8 DEF CreateFails, UpdateFails, ArchiveFails, ArchiveIntention, NextIntention, outside
<1>9. CASE ResolveHome \/ Activation \/ ActivationFails \/ SendText \/ SendFails \/ PersistPhase \/ PersistFails
  BY <1>0, <1>2, <1>9 DEF ResolveHome, Activation, ActivationFails, SendText, SendFails, PersistPhase, PersistFails,
     GoTo, outside
<1>10. CASE UpdateRunSkipped \/ UpdateRunFailed \/ UpdateRunSuccess
  <2>1. /\ \E st \in Statuses : Update(st)
        /\ pc \in Claimed /\ pc' # "create" /\ time' = time
    BY <1>10 DEF UpdateRunSkipped, UpdateRunFailed, UpdateRunSuccess, NextIntention, GoTo, Claimed, Resting, Points,
       Statuses, outside
  <2>2. ASSUME NEW i \in Ids, NEW k \in Keys
        PROVE  rows'[i][k].order = rows[i][k].order /\ rows'[i][k].started = rows[i][k].started
    <3>1. CASE i = scan.id /\ k = Key
      BY <2>1, <3>1, UpdateFacts
    <3>2. CASE <<i, k>> # <<scan.id, Key>>
      BY <2>1, <3>2, UpdateFacts
    <3> QED
      BY <3>1, <3>2
  <2>3. Rows' = Rows /\ \A i \in Ids : \A k \in Keys : HasRun(i, k)' <=> HasRun(i, k)
    BY <2>1, UpdateFacts
  <2> QED
    BY <1>0, <2>1, <2>2, <2>3, RowsKept DEF RowsInv
<1>11. CASE Restart
  <2>1. time' = time /\ pc' # "create"
    BY <1>11 DEF Restart, outside
  <2> QED
    BY <1>0, <1>11, <2>1, ReapFacts, RowsKept DEF RowsInv
<1>12. CASE CreateRun
  <2>1. CASE HasRun(scan.id, Key)
    BY <1>0, <1>2, <1>12, <2>1 DEF CreateRun, NextIntention, outside
  <2>2. CASE ~HasRun(scan.id, Key)
    <3>1. Past(Key) /\ time' = time /\ pc' # "create" /\ Rows \in Nat /\ Rows' = Rows + 1
      BY <1>12, <2>2, CreateFacts, RunsCounted DEF RowsInv
    <3>2. ASSUME NEW i \in Ids, NEW k \in Keys, HasRun(i, k)'
          PROVE  rows'[i][k].started <= time' /\ rows'[i][k].order <= Rows' /\ Past(k)'
      <4>1. CASE i = scan.id /\ k = Key
        BY <1>0, <1>12, <2>2, <3>1, <4>1, CreateFacts DEF Past
      <4>2. CASE <<i, k>> # <<scan.id, Key>>
        <5>1. rows'[i][k] = rows[i][k]
          BY <1>12, <2>2, <4>2, CreateFacts
        <5>2. HasRun(i, k)
          BY <3>2, <5>1 DEF HasRun
        <5>3. rows[i][k] \in Row
          BY <5>2 DEF TypeInv, NoRow, HasRun
        <5>4. rows[i][k].started <= time /\ rows[i][k].order <= Rows /\ Past(k)
          BY <5>2 DEF RowsInv
        <5> QED
          BY <3>1, <5>1, <5>3, <5>4 DEF Row, Past
      <4> QED
        BY <4>1, <4>2
    <3> QED
      BY <3>1, <3>2 DEF RowsInv
  <2> QED
    BY <2>1, <2>2
<1>13. CASE \E i \in Ids : Allow(i)
  <2>1. PICK i \in Ids : Allow(i)
    BY <1>13
  <2> DEFINE sch == scan.items[i].sch
  <2>2. /\ scan'.id = i /\ scan'.item = scan.items[i] /\ scan'.now = scan.now /\ rows' = rows /\ time' = time
        /\ Fires(i, scan.items[i], scan.now) /\ sch \in Schedules /\ Key' = GenerateDueKey(sch, scan.now)
    BY <2>1, AllowFacts DEF Item
  <2>3. scan.now \in 0..MaxTime /\ scan.now \in Nat /\ scan.now <= time
    BY PulseAssumption DEF TypeInv, Scans
  <2>4. sch.kind = "once" => sch.arg = Day(scan.now)
    BY <2>2 DEF Fires, Due, CheckDue, IsOnceDue
  <2>5. Key' \in {<<"day", Day(scan.now)>>, <<"week", Day(scan.now) \div WeekLen>>}
    BY <2>2, <2>3, <2>4, KeyInKeys
  <2>6. /\ Day(scan.now) <= Day(time)
        /\ Day(scan.now) \div WeekLen <= Day(time) \div WeekLen
    BY <1>0, <2>3, InstantOfDay, DaysGrow, QuotientGrows, CalendarAssumption
  <2>7. Past(Key)'
    BY <2>2, <2>5, <2>6 DEF Past
  <2>8. ASSUME sch.kind = "interval", NEW k \in Keys, rows[i][k].status = "success"
        PROVE  Day(scan.now) >= Day(rows[i][k].started) + sch.arg
    <3>1. \A l \in LastSuccess(i) : Day(scan.now) >= Day(l) + sch.arg
      BY <2>2, <2>8 DEF Fires, Due, CheckDue, IsIntervalDue
    <3>2. PICK l \in LastSuccess(i) : l \in Nat /\ rows[i][k].started \in Nat /\ rows[i][k].started <= l
      BY <2>8, LatestSuccess
    <3>3. Day(rows[i][k].started) <= Day(l) /\ Day(rows[i][k].started) \in Nat /\ Day(l) \in Nat /\ Day(scan.now) \in Nat
      BY <2>3, <3>2, DaysGrow, InstantOfDay
    <3>4. sch.arg \in Nat
      BY <2>2, PulseAssumption
    <3> QED
      BY <3>1, <3>3, <3>4
  <2> QED
    BY <1>0, <1>1, <2>2, <2>7, <2>8 DEF RowsInv
<1> QED
  BY <1>4, <1>5, <1>6, <1>7, <1>8, <1>9, <1>10, <1>11, <1>12, <1>13 DEF Next, Scheduler, Failures

LEMMA SpacedStep ==
    ASSUME TypeInv, HandInv, RowsInv, IntervalSpaced, Next
    PROVE  IntervalSpaced'
<1> USE DEF IntervalSpaced
<1>1. CASE rows' = rows
  BY <1>1
<1>2. CASE Restart
  BY <1>2, ReapFacts DEF HasRun
<1>3. ASSUME CreateRun, ~HasRun(scan.id, Key)
      PROVE  IntervalSpaced'
  <2> SUFFICES ASSUME NEW i \in Ids, NEW k \in Keys, NEW j \in Keys,
                      rows'[i][k].status # "none", rows'[i][k].item.sch.kind = "interval",
                      rows'[i][j].status = "success", rows'[i][j].order < rows'[i][k].order
               PROVE  Day(rows'[i][k].started) >= Day(rows'[i][j].started) + rows'[i][k].item.sch.arg
    OBVIOUS
  <2>1. <<i, j>> # <<scan.id, Key>>
    BY <1>3, CreateFacts
  <2>2. rows'[i][j] = rows[i][j]
    BY <1>3, <2>1, CreateFacts
  <2>3. CASE i = scan.id /\ k = Key
    <3>1. rows'[i][k].started = time /\ rows'[i][k].item = scan.item /\ pc = "create" /\ scan.item \in Item
      BY <1>3, <2>3, CreateFacts
    <3>2. Day(scan.now) >= Day(rows[i][j].started) + scan.item.sch.arg
      BY <2>2, <2>3, <3>1 DEF RowsInv
    <3>3. scan.now \in Nat /\ time \in Nat /\ scan.now <= time /\ rows[i][j].started \in Nat
      <4>1. rows[i][j] \in Row
        BY <2>2 DEF TypeInv, NoRow
      <4> QED
        BY <4>1, PulseAssumption DEF TypeInv, Scans, Row
    <3>4. Day(scan.now) <= Day(time) /\ Day(scan.now) \in Nat /\ Day(time) \in Nat /\ Day(rows[i][j].started) \in Nat
      BY <3>3, DaysGrow, InstantOfDay
    <3>5. scan.item.sch.arg \in Nat
      BY <3>1, PulseAssumption DEF Item
    <3> QED
      BY <2>2, <3>1, <3>2, <3>4, <3>5
  <2>4. CASE <<i, k>> # <<scan.id, Key>>
    <3>1. rows'[i][k] = rows[i][k]
      BY <1>3, <2>4, CreateFacts
    <3> QED
      BY <2>2, <3>1
  <2> QED
    BY <2>3, <2>4
<1>4. ASSUME NEW st \in Statuses, Update(st), pc \in Claimed
      PROVE  IntervalSpaced'
  <2> SUFFICES ASSUME NEW i \in Ids, NEW k \in Keys, NEW j \in Keys,
                      rows'[i][k].status # "none", rows'[i][k].item.sch.kind = "interval",
                      rows'[i][j].status = "success", rows'[i][j].order < rows'[i][k].order
               PROVE  Day(rows'[i][k].started) >= Day(rows'[i][j].started) + rows'[i][k].item.sch.arg
    OBVIOUS
  <2>1. ASSUME NEW l \in Keys
        PROVE  /\ rows'[i][l].order = rows[i][l].order /\ rows'[i][l].started = rows[i][l].started
               /\ rows'[i][l].item = rows[i][l].item
               /\ rows'[i][l].status # "none" <=> rows[i][l].status # "none"
               /\ (i = scan.id /\ l = Key) \/ rows'[i][l].status = rows[i][l].status
    <3>1. CASE i = scan.id /\ l = Key
      BY <1>4, <3>1, UpdateFacts DEF HasRun
    <3>2. CASE <<i, l>> # <<scan.id, Key>>
      BY <1>4, <3>2, UpdateFacts
    <3> QED
      BY <3>1, <3>2
  <2>2. ~(i = scan.id /\ j = Key)
    <3> SUFFICES ASSUME i = scan.id, j = Key
                 PROVE  FALSE
      OBVIOUS
    <3>1. rows[i][j].order = Rows
      BY <1>4 DEF HandInv
    <3>2. rows[i][k].order <= Rows /\ rows[i][k] \in Row /\ Rows \in Nat
      BY <2>1, RunsCounted DEF RowsInv, HasRun, TypeInv, NoRow
    <3> QED
      BY <2>1, <3>1, <3>2 DEF Row
  <2> QED
    BY <2>1, <2>2
<1>5. CASE UpdateRunSkipped \/ UpdateRunFailed \/ UpdateRunSuccess
  BY <1>4, <1>5 DEF UpdateRunSkipped, UpdateRunFailed, UpdateRunSuccess, Claimed, Resting, Points, Statuses
<1>6. CASE CreateRun
  BY <1>1, <1>3, <1>6 DEF CreateRun
<1>7. CASE Tick \/ TurnBegins \/ TurnEnds \/ Tool \/ Failures \/ Crash \/ RestartUnreaped \/ Activation
  BY <1>1, <1>7 DEF Tick, TurnBegins, TurnEnds, Tool, OpAdd, OpUpdate, OpRemove, OpSetEnabled, OpSetAgentEnabled, Save,
     Failures, LoadFails, GateFails, CreateFails, PersistFails, UpdateFails, ArchiveFails, Crash, RestartUnreaped, Activation
<1>8. CASE \/ StartScan \/ ScanEnds \/ \E i \in Ids : Skip(i) \/ DeferActive(i) \/ Allow(i)
           \/ ResolveHome \/ ActivationFails \/ SendText \/ SendFails \/ PersistPhase \/ ArchiveIntention
  BY <1>1, <1>8 DEF StartScan, ScanEnds, Skip, DeferActive, Allow, ResolveHome, ActivationFails, SendText, SendFails,
     PersistPhase, ArchiveIntention
<1> QED
  BY <1>2, <1>5, <1>6, <1>7, <1>8 DEF Next, Scheduler

LEMMA ArchivedStep ==
    ASSUME TypeInv, HandInv, ArchivedRan, Next
    PROVE  ArchivedRan'
<1> USE DEF ArchivedRan
<1>0. \A x \in archived : x[1] \in Ids /\ x[3] \in Keys
  BY DEF TypeInv
<1>1. CASE rows' = rows /\ archived' = archived
  BY <1>1
<1>2. CASE Restart
  <2>1. archived' = archived
    BY <1>2 DEF Restart, ghosts
  <2>2. ASSUME NEW x \in archived
        PROVE  rows'[x[1]][x[3]].status = "success" /\ rows'[x[1]][x[3]].item = x[2]
    <3>1. x[1] \in Ids /\ x[3] \in Keys /\ rows[x[1]][x[3]].status = "success" /\ rows[x[1]][x[3]].item = x[2]
      BY <1>0
    <3>2. HasRun(x[1], x[3])
      BY <3>1 DEF HasRun
    <3> QED
      BY <1>2, <3>1, <3>2, ReapFacts
  <2> QED
    BY <2>1, <2>2
<1>3. ASSUME CreateRun, ~HasRun(scan.id, Key)
      PROVE  ArchivedRan'
  <2>1. archived' = archived
    BY <1>3 DEF CreateRun, ghosts
  <2>2. ASSUME NEW x \in archived
        PROVE  rows'[x[1]][x[3]] = rows[x[1]][x[3]]
    <3>1. rows[x[1]][x[3]].status = "success"
      OBVIOUS
    <3>2. rows[scan.id][Key].status = "none"
      BY <1>3, CreateFacts DEF NoRow
    <3> QED
      BY <1>0, <1>3, <3>1, <3>2, CreateFacts
  <2> QED
    BY <2>1, <2>2
<1>4. ASSUME NEW st \in Statuses, Update(st), pc \in Claimed \ {"archive"}, archived' = archived
      PROVE  ArchivedRan'
  <2>1. ASSUME NEW x \in archived
        PROVE  rows'[x[1]][x[3]] = rows[x[1]][x[3]]
    <3>1. rows[x[1]][x[3]].status = "success" /\ rows[scan.id][Key].status = "running"
      BY <1>4 DEF HandInv
    <3> QED
      BY <1>0, <1>4, <3>1, UpdateFacts
  <2> QED
    BY <1>4, <2>1
<1>5. CASE UpdateRunSkipped \/ UpdateRunFailed \/ UpdateRunSuccess
  BY <1>4, <1>5 DEF UpdateRunSkipped, UpdateRunFailed, UpdateRunSuccess, Claimed, Resting, Points, Statuses, ghosts
<1>6. CASE CreateRun
  BY <1>1, <1>3, <1>6 DEF CreateRun, ghosts
<1>7. CASE Tick \/ TurnBegins \/ TurnEnds \/ Tool \/ Failures \/ Crash \/ RestartUnreaped \/ Activation
  BY <1>1, <1>7 DEF Tick, TurnBegins, TurnEnds, Tool, OpAdd, OpUpdate, OpRemove, OpSetEnabled, OpSetAgentEnabled, Save,
     Failures, LoadFails, GateFails, CreateFails, PersistFails, UpdateFails, ArchiveFails, Crash, RestartUnreaped, Activation, ghosts
<1>8. CASE \/ StartScan \/ ScanEnds \/ \E i \in Ids : Skip(i) \/ DeferActive(i) \/ Allow(i)
           \/ ResolveHome \/ ActivationFails \/ SendText \/ SendFails \/ PersistPhase
  BY <1>1, <1>8 DEF StartScan, ScanEnds, Skip, DeferActive, Allow, ResolveHome, ActivationFails, SendText, SendFails,
     PersistPhase, ghosts
<1>9. CASE ArchiveIntention
  <2>1. /\ rows' = rows /\ pc = "archive"
        /\ archived' \subseteq archived \cup {<<scan.id, scan.item, Key>>}
    BY <1>9 DEF ArchiveIntention
  <2>2. rows[scan.id][Key].status = "success" /\ rows[scan.id][Key].item = scan.item
    BY <2>1 DEF HandInv, Claimed, Resting, Points
  <2> QED
    BY <2>1, <2>2
<1> QED
  BY <1>2, <1>5, <1>6, <1>7, <1>8, <1>9 DEF Next, Scheduler

-----------------------------------------------------------------------------
(* No once intention goes by.                                               *)

(* Only an edit makes an intention due in the same slot, and it excuses it. *)
LEMMA FutureWaitsNot ==
    ASSUME NEW s \in Schedules, OnceIsFuture(s), s.kind = "once", time \in Nat
    PROVE  ~IsOnceDue(s, time)
<1>1. PICK target \in LocalDatetime(s.arg, s.at) : target > time
  BY DEF OnceIsFuture
<1>2. \A x \in LocalDatetime(s.arg, s.at) : x = Instant(s.arg, s.at)
  BY DEF LocalDatetime
<1>3. Instant(s.arg, s.at) \in Nat
  BY DayOfInstant, PulseAssumption
<1> QED
  BY <1>1, <1>2, <1>3 DEF IsOnceDue

LEMMA WaitStep ==
    ASSUME TypeInv, TypeInv', HandInv, WaitInv, Next
    PROVE  WaitInv'
<1> USE NoHand
<1>0. time \in Nat /\ scan \in Scans
  BY PulseAssumption DEF TypeInv
<1>a. \A i \in Ids : file.items[i] \in Item \cup {NoItem}
  BY DEF TypeInv
<1>b. ~NoItem.enabled
  BY DEF NoItem
<1>c. ASSUME NEW i \in Ids, Waits(i)
      PROVE  /\ file.items[i] \in Item /\ file.items[i].sch \in Schedules
             /\ GenerateDueKey(file.items[i].sch, time) = <<"day", file.items[i].sch.arg>>
             /\ Due(i, file.items[i], time) /\ Fires(i, file.items[i], time)
  BY <1>a, <1>b, <1>c DEF Waits, Item, GenerateDueKey, Due, CheckDue, Fires
(* Steps that serve as before: the same intentions wait, or fewer. *)
<1>1. ASSUME UNCHANGED <<file, time, pc, scan, scanned>>, excused \subseteq excused',
             \A i \in Ids : \A k \in Keys : HasRun(i, k) => HasRun(i, k)'
      PROVE  WaitInv'
  <2> SUFFICES ASSUME NEW i \in Ids \ excused', Waits(i)'
               PROVE  Served(i)'
    BY DEF WaitInv
  <2>1. Waits(i)
    BY <1>1 DEF Waits, HasRun
  <2> QED
    BY <1>1, <2>1 DEF WaitInv, Served
<1>2. ASSUME excused' = Ids
      PROVE  WaitInv'
  BY <1>2 DEF WaitInv
<1>3. CASE Tick
  <2>1. CASE pc # "idle"
    <3>1. excused' = Ids
      BY <1>3, <2>1 DEF Tick
    <3> QED
      BY <1>2, <3>1
  <2>2. CASE pc = "idle"
    BY <1>3, <2>2 DEF Tick, WaitInv, Served
  <2> QED
    BY <2>1, <2>2
<1>4. CASE TurnBegins \/ TurnEnds
  BY <1>1, <1>4 DEF TurnBegins, TurnEnds, ghosts, HasRun
<1>5. CASE LoadFails \/ Crash
  BY <1>2, <1>5 DEF LoadFails, Crash
<1>6. CASE Tool
  <2>1. ASSUME NEW f, NEW touched \in SUBSET Ids, Save(f, touched),
               \A i \in Ids \ touched : f.on = file.on /\ (f.items[i] = file.items[i] \/ ~Waits(i)')
        PROVE  WaitInv'
    <3> SUFFICES ASSUME NEW i \in Ids \ excused', Waits(i)'
                 PROVE  Served(i)'
      BY DEF WaitInv
    <3>1. /\ file' = f /\ i \notin touched /\ i \notin excused
          /\ UNCHANGED <<time, rows, pc, scan, scanned>>
      BY <2>1 DEF Save
    <3>2. f.on = file.on /\ f.items[i] = file.items[i]
      BY <2>1, <3>1
    <3>3. Waits(i)
      BY <3>1, <3>2 DEF Waits, HasRun
    <3> QED
      BY <3>1, <3>2, <3>3 DEF WaitInv, Served
  <2>2. ASSUME NEW i \in Ids, NEW x \in Schedules, OpAdd(i, x) \/ OpUpdate(i, x)
        PROVE  WaitInv'
    <3>1. PICK f : Save(f, {}) /\ f.on = file.on /\ f.items[i].sch = x
                   /\ \A j \in Ids \ {i} : f.items[j] = file.items[j]
      <4>1. CASE OpAdd(i, x)
        <5> DEFINE f == [file EXCEPT !.items[i] = [enabled |-> TRUE, sch |-> x]]
        <5>1. f.on = file.on /\ f.items[i].sch = x /\ \A j \in Ids \ {i} : f.items[j] = file.items[j]
          BY DEF TypeInv
        <5>2. Save(f, {})
          BY <4>1 DEF OpAdd
        <5> HIDE DEF f
        <5> QED
          BY <5>1, <5>2
      <4>2. CASE OpUpdate(i, x)
        <5>1. file.items[i] \in Item
          BY <1>a, <4>2 DEF OpUpdate
        <5> DEFINE f == [file EXCEPT !.items[i].sch = x]
        <5>2. f.on = file.on /\ f.items[i].sch = x /\ \A j \in Ids \ {i} : f.items[j] = file.items[j]
          BY <5>1 DEF Item, TypeInv
        <5>3. Save(f, {})
          BY <4>2 DEF OpUpdate
        <5> HIDE DEF f
        <5> QED
          BY <5>2, <5>3
      <4> QED
        BY <2>2, <4>1, <4>2
    <3>2. OnceIsFuture(x)
      BY <2>2 DEF OpAdd, OpUpdate
    <3>3. ~Waits(i)'
      <4>1. file' = f /\ time' = time
        BY <3>1 DEF Save
      <4> QED
        BY <1>0, <3>1, <3>2, <4>1, FutureWaitsNot DEF Waits
    <3> QED
      BY <2>1, <3>1, <3>3
  <2>3. ASSUME NEW i \in Ids, OpRemove(i)
        PROVE  WaitInv'
    <3>1. PICK f : Save(f, {}) /\ f.on = file.on /\ f.items[i] = NoItem
                   /\ \A j \in Ids \ {i} : f.items[j] = file.items[j]
      <4> DEFINE f == [file EXCEPT !.items[i] = NoItem]
      <4>1. f.on = file.on /\ f.items[i] = NoItem /\ \A j \in Ids \ {i} : f.items[j] = file.items[j]
        BY DEF TypeInv
      <4>2. Save(f, {})
        BY <2>3 DEF OpRemove
      <4> HIDE DEF f
      <4> QED
        BY <4>1, <4>2
    <3>2. ~Waits(i)'
      BY <1>b, <3>1 DEF Waits, Save
    <3> QED
      BY <2>1, <3>1, <3>2
  <2>4. ASSUME NEW i \in Ids, OpSetEnabled(i)
        PROVE  WaitInv'
    <3>1. PICK f : Save(f, {i}) /\ f.on = file.on /\ \A j \in Ids \ {i} : f.items[j] = file.items[j]
      <4> DEFINE f == [file EXCEPT !.items[i].enabled = ~@]
      <4>1. f.on = file.on /\ \A j \in Ids \ {i} : f.items[j] = file.items[j]
        BY DEF TypeInv
      <4>2. Save(f, {i})
        BY <2>4 DEF OpSetEnabled
      <4> HIDE DEF f
      <4> QED
        BY <4>1, <4>2
    <3> QED
      BY <2>1, <3>1
  <2>5. ASSUME OpSetAgentEnabled
        PROVE  WaitInv'
    BY <2>1, <2>5 DEF OpSetAgentEnabled
  <2> QED
    BY <1>6, <2>2, <2>3, <2>4, <2>5 DEF Tool
<1>7. CASE StartScan
  <2> SUFFICES ASSUME NEW i \in Ids \ excused', Waits(i)'
               PROVE  Served(i)'
    BY DEF WaitInv
  <2>1. UNCHANGED <<file, time>> /\ pc' = "scan" /\ file.on
    BY <1>7 DEF StartScan, outside, Waits
  <2>2. scan'.now = time /\ scan'.items = file.items
    BY <1>7, <2>1 DEF StartScan, NoScan
  <2> QED
    BY <2>1, <2>2 DEF Served
<1>8. CASE ScanEnds
  <2> SUFFICES ASSUME NEW i \in Ids \ excused', Waits(i)'
               PROVE  FALSE
    BY DEF WaitInv
  <2>1. Waits(i) /\ i \notin excused /\ pc = "scan" /\ scan.items = NoItems
    BY <1>8 DEF ScanEnds, outside, ghosts, Waits, HasRun
  <2>2. scan.items[i] = file.items[i]
    BY <2>1 DEF WaitInv, Served
  <2>3. scan.items[i] = NoItem
    BY <2>1 DEF NoItems
  <2> QED
    BY <1>b, <2>1, <2>2, <2>3 DEF Waits
<1>9. ASSUME NEW j \in Ids, Skip(j) \/ DeferActive(j) \/ GateFails(j)
      PROVE  WaitInv'
  <2> SUFFICES ASSUME NEW i \in Ids \ excused', Waits(i)'
               PROVE  Served(i)'
    BY DEF WaitInv
  <2>1. UNCHANGED <<file, time, rows>> /\ pc = "scan" /\ pc' = "scan" /\ Leave(j) /\ i \notin excused
    BY <1>9 DEF Skip, DeferActive, GateFails, outside, ghosts
  <2>2. Waits(i)
    BY <2>1 DEF Waits, HasRun
  <2>3. scan.now = time /\ scan.items[i] = file.items[i]
    BY <2>1, <2>2 DEF WaitInv, Served
  <2>4. i # j
    <3>1. CASE Skip(j)
      BY <1>c, <2>2, <2>3, <3>1 DEF Skip
    <3>2. CASE DeferActive(j) \/ GateFails(j)
      BY <3>2 DEF DeferActive, GateFails
    <3> QED
      BY <1>9, <3>1, <3>2
  <2>5. scan'.now = scan.now /\ scan'.items[i] = scan.items[i]
    BY <1>0, <2>1, <2>4 DEF Leave, Scans
  <2> QED
    BY <2>1, <2>3, <2>5 DEF Served
<1>10. ASSUME NEW j \in Ids, Allow(j)
       PROVE  WaitInv'
  <2> SUFFICES ASSUME NEW i \in Ids \ excused', Waits(i)'
               PROVE  Served(i)'
    BY DEF WaitInv
  <2>1. UNCHANGED <<file, time, rows, excused>> /\ pc = "scan" /\ pc' = "create"
    BY <1>10 DEF Allow, outside, ghosts
  <2>2. Waits(i)
    BY <2>1 DEF Waits, HasRun
  <2>3. scan.now = time /\ scan.items[i] = file.items[i]
    BY <2>1, <2>2 DEF WaitInv, Served
  <2>4. scan'.now = scan.now /\ scan'.id = j /\ scan'.item = scan.items[j]
    BY <1>10, AllowFacts
  <2>5. i # j => scan'.items[i] = scan.items[i]
    BY <1>0, <1>10 DEF Allow, Scans
  <2> QED
    BY <2>1, <2>3, <2>4, <2>5 DEF Served
(* Steps of the run in hand, once it is claimed. *)
<1>11. ASSUME UNCHANGED <<file, time, rows, excused>>, pc \notin Resting, pc' \notin {"idle", "down", "create"},
              scan'.now = scan.now, scan'.items = scan.items,
              pc # "create" \/ HasRun(scan.id, Key)
       PROVE  WaitInv'
  <2> SUFFICES ASSUME NEW i \in Ids \ excused', Waits(i)'
               PROVE  Served(i)'
    BY DEF WaitInv
  <2>1. Waits(i)
    BY <1>11 DEF Waits, HasRun
  <2>2. Served(i)
    BY <1>11, <2>1 DEF WaitInv
  <2>3. ~(pc = "create" /\ scan.id = i /\ scan.item = file.items[i])
    <3> SUFFICES ASSUME pc = "create", scan.id = i, scan.item = file.items[i]
                 PROVE  FALSE
      OBVIOUS
    <3>1. scan.now = time
      BY <2>2 DEF Served
    <3>2. Key = <<"day", file.items[i].sch.arg>>
      BY <1>c, <2>1, <3>1 DEF Key
    <3> QED
      BY <1>11, <2>1, <3>2 DEF Waits
  <2> QED
    BY <1>11, <2>2, <2>3 DEF Served, Resting
<1>n. NextIntention => pc' = "scan" /\ scan'.now = scan.now /\ scan'.items = scan.items
  BY <1>0 DEF NextIntention, Scans
<1>12. CASE CreateRun
  <2>1. CASE HasRun(scan.id, Key)
    BY <1>11, <1>12, <1>n, <2>1 DEF CreateRun, outside, ghosts, Resting
  <2>2. CASE ~HasRun(scan.id, Key)
    <3> SUFFICES ASSUME NEW i \in Ids \ excused', Waits(i)'
                 PROVE  Served(i)'
      BY DEF WaitInv
    <3>1. UNCHANGED <<file, time, excused, scan>> /\ pc = "create" /\ pc' = "home"
      BY <1>12, <2>2 DEF CreateRun, outside, ghosts, GoTo
    <3>2. \A j \in Ids : \A k \in Keys : HasRun(j, k) => HasRun(j, k)'
      BY <1>12, <2>2, CreateFacts DEF HasRun, NoRow
    <3>3. Waits(i)
      BY <3>1, <3>2 DEF Waits, HasRun
    <3>4. Served(i)
      BY <3>1, <3>3 DEF WaitInv
    <3>5. ~(scan.id = i /\ scan.item = file.items[i])
      <4> SUFFICES ASSUME scan.id = i, scan.item = file.items[i]
                   PROVE  FALSE
        OBVIOUS
      <4>1. scan.now = time
        BY <3>1, <3>4 DEF Served
      <4>2. Key = <<"day", file.items[i].sch.arg>>
        BY <1>c, <3>3, <4>1 DEF Key
      <4>3. HasRun(i, <<"day", file.items[i].sch.arg>>)'
        <5>1. Key \in Keys /\ rows'[scan.id][Key].status = "running"
          BY <1>12, <2>2, CreateFacts
        <5> QED
          BY <3>1, <4>2, <5>1 DEF HasRun
      <4> QED
        BY <3>1, <4>3 DEF Waits
    <3> QED
      BY <3>1, <3>4, <3>5 DEF Served
  <2> QED
    BY <2>1, <2>2
<1>13. CASE CreateFails
  <2> SUFFICES ASSUME NEW i \in Ids \ excused', Waits(i)'
               PROVE  Served(i)'
    BY DEF WaitInv
  <2>1. UNCHANGED <<file, time, rows>> /\ i \notin excused /\ i # scan.id /\ pc = "create" /\ NextIntention
    BY <1>13 DEF CreateFails, outside
  <2>2. Waits(i)
    BY <2>1 DEF Waits, HasRun
  <2> QED
    BY <1>n, <2>1, <2>2 DEF WaitInv, Served
<1>14. CASE UpdateFails \/ ArchiveFails
  BY <1>11, <1>14, <1>n DEF UpdateFails, ArchiveFails, outside, ghosts, Resting
<1>15. CASE ResolveHome \/ Activation \/ ActivationFails \/ SendText \/ SendFails \/ PersistPhase \/ PersistFails
  BY <1>11, <1>15 DEF ResolveHome, Activation, ActivationFails, SendText, SendFails, PersistPhase, PersistFails,
     GoTo, outside, ghosts, Resting
<1>16. CASE UpdateRunSkipped \/ UpdateRunFailed \/ UpdateRunSuccess
  <2> SUFFICES ASSUME NEW i \in Ids \ excused', Waits(i)'
               PROVE  Served(i)'
    BY DEF WaitInv
  <2>1. /\ UNCHANGED <<file, time, excused>> /\ \E st \in Statuses : Update(st)
        /\ pc \in Claimed /\ pc' \in {"scan", "archive"} /\ scan'.now = scan.now /\ scan'.items = scan.items
    BY <1>16, <1>n DEF UpdateRunSkipped, UpdateRunFailed, UpdateRunSuccess, GoTo, Claimed, Resting, Points,
       Statuses, outside, ghosts
  <2>2. \A j \in Ids : \A k \in Keys : HasRun(j, k)' <=> HasRun(j, k)
    BY <2>1, UpdateFacts
  <2>3. Waits(i)
    BY <2>1, <2>2 DEF Waits, HasRun
  <2>4. Served(i)
    BY <2>1, <2>3 DEF WaitInv
  <2> QED
    BY <2>1, <2>4 DEF Served, Claimed, Resting
<1>17. CASE ArchiveIntention
  <2> SUFFICES ASSUME NEW i \in Ids \ excused', Waits(i)'
               PROVE  Served(i)'
    BY DEF WaitInv
  <2>1. /\ UNCHANGED <<time, rows, excused>> /\ pc = "archive" /\ NextIntention
        /\ file' = file \/ file' = [file EXCEPT !.items[scan.id] = NoItem]
    BY <1>17 DEF ArchiveIntention
  <2>2. file'.on = file.on /\ (file'.items[i] = file.items[i] \/ file'.items[i] = NoItem)
    BY <2>1 DEF TypeInv
  <2>3. file'.items[i] = file.items[i] /\ Waits(i)
    BY <1>b, <2>1, <2>2 DEF Waits, HasRun
  <2>4. Served(i)
    BY <2>1, <2>3 DEF WaitInv
  <2> QED
    BY <1>n, <2>1, <2>3, <2>4 DEF Served
<1>18. CASE Restart \/ RestartUnreaped
  <2>1. pc' = "idle" /\ scanned' = FALSE
    BY <1>18 DEF Restart, RestartUnreaped
  <2> QED
    BY <2>1 DEF WaitInv, Served
<1> QED
  BY <1>3, <1>4, <1>5, <1>6, <1>7, <1>8, <1>9, <1>10, <1>12, <1>13, <1>14, <1>15, <1>16, <1>17, <1>18
     DEF Next, Scheduler, Failures

LEMMA MissedStep ==
    ASSUME TypeInv, WaitInv, NotMissed, Next
    PROVE  NotMissed'
<1> USE DEF NotMissed
<1>1. CASE Tick
  <2>1. time \in Nat /\ time' = time + 1
    BY <1>1, PulseAssumption DEF TypeInv, Tick
  <2>2. CASE Day(time + 1) = Day(time)
    BY <1>1, <2>1, <2>2 DEF Tick
  <2>3. CASE pc # "idle"
    BY <1>1, <2>3 DEF Tick
  <2>4. CASE Day(time + 1) # Day(time) /\ pc = "idle"
    <3>1. scanned
      BY <1>1, <2>4 DEF Tick
    <3>2. ASSUME NEW i \in Ids \ excused, file.on, file.items[i].enabled, file.items[i].sch.kind = "once",
                 file.items[i].sch.arg = Day(time), LocalDatetime(Day(time), file.items[i].sch.at) # {},
                 ~HasRun(i, <<"day", Day(time)>>)
          PROVE  FALSE
      <4>1. file.items[i].sch \in Schedules
        BY <3>2 DEF TypeInv, Item, NoItem
      <4>2. file.items[i].sch.at \in 0..(SlotsPerDay - 1)
        BY <4>1, PulseAssumption
      <4>3. Slot(time) = SlotsPerDay - 1 /\ Day(time) \in Nat
        BY <2>1, <2>4, LastSlot, InstantOfDay
      <4>4. ~(Slot(time) < file.items[i].sch.at)
        BY <4>2, <4>3, CalendarAssumption
      <4>5. ~(time < Instant(Day(time), file.items[i].sch.at))
        BY <2>1, <4>2, <4>3, <4>4, LaterDay
      <4>6. Instant(Day(time), file.items[i].sch.at) \in Nat
        BY <4>2, <4>3, DayOfInstant
      <4>7. IsOnceDue(file.items[i].sch, time)
        BY <2>1, <3>2, <4>5, <4>6 DEF IsOnceDue, LocalDatetime
      <4>8. Waits(i)
        BY <3>2, <4>7 DEF Waits
      <4> QED
        BY <2>4, <3>1, <4>8 DEF WaitInv, Served
    <3> QED
      BY <1>1, <2>1, <2>4, <3>2 DEF Tick
  <2> QED
    BY <2>2, <2>3, <2>4
<1>2. CASE TurnBegins \/ TurnEnds \/ Tool \/ Failures \/ Crash \/ RestartUnreaped \/ Restart \/ Activation
  BY <1>2 DEF TurnBegins, TurnEnds, Tool, OpAdd, OpUpdate, OpRemove, OpSetEnabled, OpSetAgentEnabled, Save,
     Failures, LoadFails, GateFails, CreateFails, PersistFails, UpdateFails, ArchiveFails, Crash, RestartUnreaped,
     Restart, Activation, ghosts
<1>3. CASE Scheduler
  BY <1>3 DEF Scheduler, StartScan, ScanEnds, Skip, DeferActive, Allow, CreateRun, ResolveHome, UpdateRunSkipped,
     ActivationFails, UpdateRunFailed, SendText, SendFails, PersistPhase, UpdateRunSuccess, ArchiveIntention, ghosts
<1> QED
  BY <1>1, <1>2, <1>3 DEF Next

-----------------------------------------------------------------------------
(* The view announces the firing that happens.                              *)

LastLook(c) == Instant(Day(time) + WeekLen + c.sch.arg + 2, 0)
Firings(i, c) == {t \in time..LastLook(c) : Fires(i, c, t)}
FirstFiring(i, c) == IF Firings(i, c) = {} THEN {} ELSE {Min(Firings(i, c))}
KeyNow(c) == GenerateDueKey(c.sch, time)

(* What ViewAgrees asks of an answer of the view. *)
Announced(i, c, v) ==
    \/ v = <<"due_now">> /\ FirstFiring(i, c) = {time}
    \/ \E x : v = <<"at", x>> /\ FirstFiring(i, c) = {x}
    \/ v = <<"attempted_this_period">> /\ \A t \in FirstFiring(i, c) : GenerateDueKey(c.sch, t) # KeyNow(c)
    \/ v = <<"attempted_once">> /\ FirstFiring(i, c) = {}
    \/ /\ v = <<"no_upcoming">>
       /\ FirstFiring(i, c) = {} \/ \E d \in Day(time)..Day(LastLook(c)) : <<d, c.sch.at>> \in Gaps

(* The answers that resolve_next_due gives for a candidate of the estimate. *)
Answers(i, c, x) ==
    IF HasRun(i, KeyNow(c)) /\ GenerateDueKey(c.sch, x) = KeyNow(c)
    THEN IF c.sch.kind = "interval" /\ EstimateNextDayAt(c.sch.at, time) # {}
         THEN {<<"at", y>> : y \in EstimateNextDayAt(c.sch.at, time)}
         ELSE {<<"attempted_this_period">>}
    ELSE IF x <= time THEN {<<"due_now">>} ELSE {<<"at", x>>}

LEMMA ViewByCases ==
    ASSUME NEW i \in Ids, NEW c
    PROVE  LET due == CheckDue(c.sch, time, LastSuccess(i))
               next == EstimateNextDue(c.sch, time, LastSuccess(i))
           IN  \A v \in ResolveNextDue(i, c, time) :
                 \/ due /\ ~HasRun(i, KeyNow(c)) /\ v = <<"due_now">>
                 \/ HasRun(i, KeyNow(c)) /\ c.sch.kind = "once" /\ v = <<"attempted_once">>
                 \/ /\ ~due \/ HasRun(i, KeyNow(c))
                    /\ ~(HasRun(i, KeyNow(c)) /\ c.sch.kind = "once")
                    /\ \/ next = {} /\ v = <<"no_upcoming">>
                       \/ \E x \in next : v \in Answers(i, c, x)
  BY DEF ResolveNextDue, Answers, KeyNow

LEMMA MinIs ==
    ASSUME NEW T \in SUBSET Nat, NEW x \in T, \A y \in T : x <= y
    PROVE  Min(T) = x
<1>1. Min(T) \in T /\ \A y \in T : Min(T) <= y
  BY DEF Min
<1>2. Min(T) \in Nat /\ Min(T) <= x /\ x <= Min(T)
  BY <1>1
<1> QED
  BY <1>2

LEMMA FirstIs ==
    ASSUME time \in Nat, NEW i, NEW c, NEW x \in Nat, time <= x, x <= LastLook(c), Fires(i, c, x),
           \A t \in Nat : time <= t /\ t < x => ~Fires(i, c, t)
    PROVE  FirstFiring(i, c) = {x}
<1>1. x \in Firings(i, c) /\ \A y \in Firings(i, c) : x <= y
  BY DEF Firings
<1>2. Firings(i, c) \in SUBSET Nat
  BY DEF Firings
<1> QED
  BY <1>1, <1>2, MinIs DEF FirstFiring

LEMMA FirstFires ==
    ASSUME time \in Nat, NEW i, NEW c, NEW t \in FirstFiring(i, c)
    PROVE  t \in Nat /\ time <= t /\ Fires(i, c, t)
<1>1. Firings(i, c) \in SUBSET Nat /\ Firings(i, c) # {} /\ t = Min(Firings(i, c))
  BY DEF Firings, FirstFiring
<1>2. PICK x \in Firings(i, c) : \A y \in Firings(i, c) : x <= y
  BY <1>1, NatMin
<1> QED
  BY <1>1, <1>2, MinIs DEF Firings

(* A period that has its run fires no more. *)
LEMMA Consumed ==
    ASSUME time \in Nat, NEW i, NEW c, HasRun(i, KeyNow(c))
    PROVE  \A t \in FirstFiring(i, c) : GenerateDueKey(c.sch, t) # KeyNow(c)
  BY FirstFires DEF Fires

LEMMA DailyDue ==
    ASSUME NEW at \in 0..(SlotsPerDay - 1), NEW t \in Nat
    PROVE  IsDailyDue(at, t) <=> <<Day(t), at>> \notin Gaps /\ Instant(Day(t), at) <= t
<1>1. Instant(Day(t), at) \in Nat
  BY InstantOfDay, DayOfInstant
<1> QED
  BY <1>1 DEF IsDailyDue, LocalDatetime

LEMMA LocalInstant ==
    ASSUME NEW d, NEW at
    PROVE  /\ <<d, at>> \in Gaps => LocalDatetime(d, at) = {}
           /\ <<d, at>> \notin Gaps => LocalDatetime(d, at) = {Instant(d, at)}
  BY DEF LocalDatetime

(* The instants the view can speak of lie before the horizon, those of the  *)
(* past behind it.                                                          *)
LEMMA Looking ==
    ASSUME TypeInv, NEW c \in Item
    PROVE  /\ time \in Nat /\ Day(time) \in Nat /\ c.sch \in Schedules /\ WeekLen \in Nat \ {0}
           /\ c.sch.at \in 0..(SlotsPerDay - 1) /\ c.sch.arg \in Nat
           /\ c.sch.kind \in {"daily", "weekly", "interval", "once"}
           /\ c.sch.kind = "weekly" => c.sch.arg < WeekLen
           /\ LastLook(c) \in Nat /\ Day(LastLook(c)) = Day(time) + WeekLen + c.sch.arg + 2
           /\ time <= LastLook(c)
           /\ \A d \in Nat : d <= Day(time) + WeekLen + c.sch.arg => Instant(d, c.sch.at) <= LastLook(c)
<1>1. time \in Nat /\ c.sch \in Schedules /\ WeekLen \in Nat \ {0} /\ 0 \in 0..(SlotsPerDay - 1)
  BY PulseAssumption, CalendarAssumption DEF TypeInv, Item
<1>2. /\ c.sch.at \in 0..(SlotsPerDay - 1) /\ c.sch.arg \in Nat
      /\ c.sch.kind \in {"daily", "weekly", "interval", "once"} /\ Day(time) \in Nat
      /\ c.sch.kind = "weekly" => c.sch.arg < WeekLen
  BY <1>1, PulseAssumption, InstantOfDay
<1>3. LastLook(c) \in Nat /\ Day(LastLook(c)) = Day(time) + WeekLen + c.sch.arg + 2
  BY <1>1, <1>2, DayOfInstant DEF LastLook
<1>4. ASSUME NEW d \in Nat, d <= Day(time) + WeekLen + c.sch.arg
      PROVE  Instant(d, c.sch.at) <= LastLook(c)
  <2>1. Instant(d, c.sch.at) \in Nat
    BY <1>2, DayOfInstant
  <2>2. ~(Day(LastLook(c)) < d) /\ Day(LastLook(c)) > d
    BY <1>1, <1>2, <1>3, <1>4
  <2> QED
    BY <1>2, <1>3, <2>1, <2>2, LaterDay
<1>5. time <= LastLook(c)
  <2>1. Day(time) < Day(LastLook(c))
    BY <1>1, <1>2, <1>3
  <2>2. ~(LastLook(c) <= time)
    BY <1>1, <1>2, <1>3, <2>1, DaysGrow
  <2> QED
    BY <1>1, <1>3, <2>2
<1> QED
  BY <1>1, <1>2, <1>3, <1>4, <1>5

(* A firing is a matter of its day: the day is open and the hour has come.  *)
KeyOn(c, d) ==
    CASE c.sch.kind \in {"daily", "interval"} -> <<"day", d>>
      [] c.sch.kind = "weekly" -> <<"week", d \div WeekLen>>
      [] c.sch.kind = "once" -> <<"day", c.sch.arg>>
OnDate(i, c, d) ==
    /\ c.sch.kind = "weekly" => Weekday(d) = c.sch.arg
    /\ c.sch.kind = "interval" => \A l \in LastSuccess(i) : d >= Day(l) + c.sch.arg
    /\ c.sch.kind = "once" => d = c.sch.arg
Open(i, c, d) ==
    OnDate(i, c, d) /\ <<d, c.sch.at>> \notin Gaps /\ ~HasRun(i, KeyOn(c, d))

LEMMA DueOnDay ==
    ASSUME TypeInv, NEW i \in Ids, NEW c \in Item, NEW t \in Nat
    PROVE  /\ GenerateDueKey(c.sch, t) = KeyOn(c, Day(t))
           /\ CheckDue(c.sch, t, LastSuccess(i)) <=>
                /\ OnDate(i, c, Day(t)) /\ <<Day(t), c.sch.at>> \notin Gaps
                /\ Instant(Day(t), c.sch.at) <= t
<1>1. c.sch.at \in 0..(SlotsPerDay - 1) /\ c.sch.kind \in {"daily", "weekly", "interval", "once"}
  BY Looking
<1>2. IsDailyDue(c.sch.at, t) <=> <<Day(t), c.sch.at>> \notin Gaps /\ Instant(Day(t), c.sch.at) <= t
  BY <1>1, DailyDue
<1>3. GenerateDueKey(c.sch, t) = KeyOn(c, Day(t))
  BY DEF GenerateDueKey, KeyOn
<1>4. CASE c.sch.kind = "daily"
  BY <1>2, <1>3, <1>4 DEF CheckDue, OnDate
<1>5. CASE c.sch.kind = "weekly"
  BY <1>2, <1>3, <1>5 DEF CheckDue, OnDate, IsWeeklyDue
<1>6. CASE c.sch.kind = "interval"
  BY <1>2, <1>3, <1>6 DEF CheckDue, OnDate, IsIntervalDue
<1>7. CASE c.sch.kind = "once"
  <2>1. IsOnceDue(c.sch, t) <=> Day(t) = c.sch.arg /\ IsDailyDue(c.sch.at, t)
    BY DEF IsOnceDue, IsDailyDue
  <2> QED
    BY <1>2, <1>3, <1>7, <2>1 DEF CheckDue, OnDate
<1> QED
  BY <1>1, <1>4, <1>5, <1>6, <1>7

LEMMA FiresOnDay ==
    ASSUME TypeInv, NEW i \in Ids, NEW c \in Item, c.enabled, NEW t \in Nat
    PROVE  Fires(i, c, t) <=> Open(i, c, Day(t)) /\ Instant(Day(t), c.sch.at) <= t
  BY DueOnDay DEF Fires, Due, Open

(* Without an open day from today on there is no firing.                    *)
LEMMA NoneOpens ==
    ASSUME TypeInv, NEW i \in Ids, NEW c \in Item, c.enabled,
           \A e \in Nat : Day(time) <= e => ~Open(i, c, e)
    PROVE  FirstFiring(i, c) = {}
<1> SUFFICES ASSUME NEW t \in FirstFiring(i, c)
             PROVE  FALSE
  OBVIOUS
<1>1. time \in Nat
  BY Looking
<1>2. t \in Nat /\ time <= t /\ Fires(i, c, t)
  BY <1>1, FirstFires
<1>3. Day(t) \in Nat /\ Day(time) <= Day(t)
  BY <1>1, <1>2, InstantOfDay, DaysGrow
<1> QED
  BY <1>2, <1>3, FiresOnDay

(* The first open day, if its hour is still to come, has the first firing.  *)
LEMMA FirstOpens ==
    ASSUME TypeInv, NEW i \in Ids, NEW c \in Item, c.enabled,
           NEW d \in Nat, d <= Day(time) + WeekLen + c.sch.arg,
           time < Instant(d, c.sch.at), Open(i, c, d),
           \A e \in Nat : Day(time) <= e /\ e < d => ~Open(i, c, e)
    PROVE  FirstFiring(i, c) = {Instant(d, c.sch.at)}
<1> DEFINE x == Instant(d, c.sch.at)
<1>1. time \in Nat /\ c.sch.at \in 0..(SlotsPerDay - 1) /\ x <= LastLook(c)
  BY Looking
<1>2. x \in Nat /\ Day(x) = d
  BY <1>1, DayOfInstant
<1>3. Fires(i, c, x)
  BY <1>2, FiresOnDay
<1>4. time < x
  OBVIOUS
<1>5. ASSUME NEW t \in Nat, time <= t, t < x
      PROVE  ~Fires(i, c, t)
  <2>1. t <= x
    BY <1>2, <1>5
  <2>2. Day(t) \in Nat /\ Day(time) <= Day(t) /\ Day(t) <= d
    BY <1>1, <1>2, <1>5, <2>1, DaysGrow, InstantOfDay
  <2>3. CASE Day(t) = d
    <3>1. ~(x <= t)
      BY <1>2, <1>5
    <3> QED
      BY <2>3, <3>1, FiresOnDay
  <2>4. CASE Day(t) # d
    <3>1. Day(t) < d
      BY <2>2, <2>4
    <3> QED
      BY <2>2, <3>1, FiresOnDay
  <2> QED
    BY <2>3, <2>4
<1> HIDE DEF x
<1>6. time <= x
  BY <1>1, <1>2, <1>4
<1>7. FirstFiring(i, c) = {x}
  BY <1>1, <1>2, <1>3, <1>5, <1>6, FirstIs
<1> QED
  BY <1>7 DEF x

(* Today's hour is over and nothing is due: today is not open.              *)
LEMMA TodayIsOver ==
    ASSUME TypeInv, NEW i \in Ids, NEW c \in Item, c.enabled,
           ~Fires(i, c, time), ~(time < Instant(Day(time), c.sch.at))
    PROVE  ~Open(i, c, Day(time))
<1>1. time \in Nat /\ Day(time) \in Nat /\ Instant(Day(time), c.sch.at) \in Nat
  BY Looking, DayOfInstant
<1>2. Instant(Day(time), c.sch.at) <= time
  BY <1>1
<1> QED
  BY <1>1, <1>2, FiresOnDay

(* The answer for a day of the estimate whose hour is to come, unless it is *)
(* today's of an interval intention that has run today.                     *)
LEMMA AnswerForDay ==
    ASSUME TypeInv, RowsInv, NEW i \in Ids, NEW c \in Item, c.enabled,
           NEW d \in Nat, Day(time) <= d, d <= Day(time) + WeekLen + c.sch.arg,
           time < Instant(d, c.sch.at), <<d, c.sch.at>> \notin Gaps, OnDate(i, c, d),
           \A e \in Nat : Day(time) <= e /\ e < d => ~Open(i, c, e),
           c.sch.kind = "interval" => ~(HasRun(i, KeyNow(c)) /\ d = Day(time)),
           NEW v \in Answers(i, c, Instant(d, c.sch.at))
    PROVE  Announced(i, c, v)
<1> DEFINE x == Instant(d, c.sch.at)
<1>1. /\ time \in Nat /\ Day(time) \in Nat /\ WeekLen \in Nat \ {0} /\ c.sch.at \in 0..(SlotsPerDay - 1)
      /\ c.sch.kind \in {"daily", "weekly", "interval", "once"}
  BY Looking
<1>2. x \in Nat /\ Day(x) = d
  BY <1>1, DayOfInstant
<1>3. GenerateDueKey(c.sch, x) = KeyOn(c, d) /\ KeyNow(c) = KeyOn(c, Day(time))
  BY <1>1, <1>2, DueOnDay DEF KeyNow
<1>4. ~(x <= time)
  BY <1>1, <1>2
<1>5. CASE HasRun(i, KeyNow(c)) /\ KeyOn(c, d) = KeyNow(c)
  <2>1. c.sch.kind # "interval"
    BY <1>3, <1>5 DEF KeyOn
  <2>2. v = <<"attempted_this_period">>
    BY <1>3, <1>5, <2>1 DEF Answers
  <2> QED
    BY <1>1, <1>5, <2>2, Consumed DEF Announced
<1>6. CASE ~(HasRun(i, KeyNow(c)) /\ KeyOn(c, d) = KeyNow(c))
  <2>1. v = <<"at", x>>
    BY <1>3, <1>4, <1>6 DEF Answers
  <2>2. ~HasRun(i, KeyOn(c, d))
    <3>1. CASE KeyOn(c, d) = KeyNow(c)
      BY <1>6, <3>1
    <3>2. CASE KeyOn(c, d) # KeyNow(c)
      <4>1. d > Day(time)
        BY <1>1, <1>3, <3>2
      <4>2. CASE c.sch.kind \in {"daily", "interval"}
        BY <1>1, <4>1, <4>2 DEF KeyOn, RowsInv, HasRun, Past
      <4>3. CASE c.sch.kind = "weekly"
        <5>1. d \div WeekLen \in Nat /\ Day(time) \div WeekLen \in Nat /\ Day(time) \div WeekLen <= d \div WeekLen
          BY <1>1, Quotient, QuotientGrows
        <5>2. KeyOn(c, d) = <<"week", d \div WeekLen>> /\ KeyNow(c) = <<"week", Day(time) \div WeekLen>>
          BY <1>3, <4>3 DEF KeyOn
        <5>3. d \div WeekLen > Day(time) \div WeekLen
          BY <3>2, <5>1, <5>2
        <5>4. ~Past(KeyOn(c, d))
          BY <5>1, <5>2, <5>3 DEF Past
        <5> QED
          BY <5>4 DEF RowsInv, HasRun
      <4>4. CASE c.sch.kind = "once"
        BY <1>3, <3>2, <4>4 DEF KeyOn
      <4> QED
        BY <1>1, <4>2, <4>3, <4>4
    <3> QED
      BY <3>1, <3>2
  <2>3. Open(i, c, d)
    BY <2>2 DEF Open
  <2>4. FirstFiring(i, c) = {x}
    BY <2>3, FirstOpens
  <2> QED
    BY <2>1, <2>4 DEF Announced
<1> QED
  BY <1>5, <1>6

(* A clock change between now and the candidate: the view may give up.      *)
LEMMA GivenUp ==
    ASSUME TypeInv, NEW i \in Ids, NEW c \in Item, NEW d \in Nat,
           Day(time) <= d, d <= Day(time) + WeekLen + c.sch.arg, <<d, c.sch.at>> \in Gaps
    PROVE  Announced(i, c, <<"no_upcoming">>)
<1>1. d \in Day(time)..Day(LastLook(c))
  BY Looking
<1> QED
  BY <1>1 DEF Announced


(* What is due now is answered so; what is not goes by the estimate.        *)
LEMMA ByEstimate ==
    ASSUME TypeInv, NEW i \in Ids, NEW c \in Item, c.enabled, NEW v \in ResolveNextDue(i, c, time)
    PROVE  LET next == EstimateNextDue(c.sch, time, LastSuccess(i))
           IN  \/ Announced(i, c, v)
               \/ /\ ~Fires(i, c, time)
                  /\ c.sch.kind = "once" => ~HasRun(i, KeyNow(c))
                  /\ \/ next = {} /\ v = <<"no_upcoming">>
                     \/ \E x \in next : v \in Answers(i, c, x)
<1> DEFINE due == CheckDue(c.sch, time, LastSuccess(i))
           next == EstimateNextDue(c.sch, time, LastSuccess(i))
<1>1. time \in Nat /\ time <= LastLook(c) /\ KeyNow(c) = KeyOn(c, Day(time))
  BY Looking, DueOnDay DEF KeyNow
<1>2. CASE due /\ ~HasRun(i, KeyNow(c)) /\ v = <<"due_now">>
  <2>1. Fires(i, c, time)
    BY <1>2 DEF Fires, Due, KeyNow
  <2> QED
    BY <1>1, <1>2, <2>1, FirstIs DEF Announced
<1>3. CASE HasRun(i, KeyNow(c)) /\ c.sch.kind = "once" /\ v = <<"attempted_once">>
  <2>1. \A e \in Nat : Day(time) <= e => ~Open(i, c, e)
    BY <1>1, <1>3 DEF Open, KeyOn
  <2> QED
    BY <1>3, <2>1, NoneOpens DEF Announced
<1>4. CASE /\ ~due \/ HasRun(i, KeyNow(c))
           /\ ~(HasRun(i, KeyNow(c)) /\ c.sch.kind = "once")
           /\ \/ next = {} /\ v = <<"no_upcoming">>
              \/ \E x \in next : v \in Answers(i, c, x)
  <2>1. ~Fires(i, c, time)
    BY <1>4 DEF Fires, Due, KeyNow
  <2> QED
    BY <1>4, <2>1
<1> HIDE DEF due, next
<1>5. \/ due /\ ~HasRun(i, KeyNow(c)) /\ v = <<"due_now">>
      \/ HasRun(i, KeyNow(c)) /\ c.sch.kind = "once" /\ v = <<"attempted_once">>
      \/ /\ ~due \/ HasRun(i, KeyNow(c))
         /\ ~(HasRun(i, KeyNow(c)) /\ c.sch.kind = "once")
         /\ \/ next = {} /\ v = <<"no_upcoming">>
            \/ \E x \in next : v \in Answers(i, c, x)
  BY ViewByCases DEF due, next
<1> QED
  BY <1>2, <1>3, <1>4, <1>5 DEF next

(* The estimate of a day: its instant, or none when the clock jumps over it. *)
LEMMA FromDay ==
    ASSUME TypeInv, RowsInv, NEW i \in Ids, NEW c \in Item, c.enabled,
           NEW d \in Nat, Day(time) <= d, d <= Day(time) + WeekLen + c.sch.arg,
           <<d, c.sch.at>> \notin Gaps => time < Instant(d, c.sch.at), OnDate(i, c, d),
           \A e \in Nat : Day(time) <= e /\ e < d => ~Open(i, c, e),
           c.sch.kind = "interval" => ~(HasRun(i, KeyNow(c)) /\ d = Day(time)),
           NEW v,
           \/ LocalDatetime(d, c.sch.at) = {} /\ v = <<"no_upcoming">>
           \/ \E x \in LocalDatetime(d, c.sch.at) : v \in Answers(i, c, x)
    PROVE  Announced(i, c, v)
<1>1. CASE <<d, c.sch.at>> \in Gaps
  <2>1. v = <<"no_upcoming">>
    BY <1>1, LocalInstant
  <2> QED
    BY <1>1, <2>1, GivenUp
<1>2. CASE <<d, c.sch.at>> \notin Gaps
  <2>1. v \in Answers(i, c, Instant(d, c.sch.at))
    BY <1>2, LocalInstant
  <2> QED
    BY <1>2, <2>1, AnswerForDay
<1> QED
  BY <1>1, <1>2

LEMMA ViewOfDaily ==
    ASSUME TypeInv, RowsInv, NEW i \in Ids, NEW c \in Item, c.enabled, c.sch.kind = "daily",
           NEW v \in ResolveNextDue(i, c, time)
    PROVE  Announced(i, c, v)
<1> DEFINE D == Day(time)
           d == IF Slot(time) < c.sch.at THEN D ELSE D + 1
<1>1. SUFFICES ASSUME ~Fires(i, c, time),
                      \/ LocalDatetime(d, c.sch.at) = {} /\ v = <<"no_upcoming">>
                      \/ \E x \in LocalDatetime(d, c.sch.at) : v \in Answers(i, c, x)
               PROVE  Announced(i, c, v)
  BY ByEstimate DEF EstimateNextDue, NextDaily
<1>2. /\ time \in Nat /\ D \in Nat /\ WeekLen \in Nat \ {0} /\ c.sch.at \in 0..(SlotsPerDay - 1)
      /\ c.sch.arg \in Nat
  BY Looking
<1>3. time < Instant(D, c.sch.at) <=> Slot(time) < c.sch.at
  BY <1>2, LaterDay
<1>4. time < Instant(D + 1, c.sch.at)
  BY <1>2, LaterDay
<1>5. OnDate(i, c, d)
  BY DEF OnDate
<1>6. CASE Slot(time) < c.sch.at
  <2>1. d = D /\ \A e \in Nat : ~(D <= e /\ e < D)
    BY <1>2, <1>6
  <2>2. D <= D + WeekLen + c.sch.arg /\ D <= D
    BY <1>2
  <2> HIDE DEF d
  <2> QED
    BY <1>1, <1>2, <1>3, <1>5, <1>6, <2>1, <2>2, FromDay
<1>7. CASE ~(Slot(time) < c.sch.at)
  <2>1. d = D + 1 /\ \A e \in Nat : D <= e /\ e < D + 1 => e = D
    BY <1>2, <1>7
  <2>2. ~Open(i, c, D)
    BY <1>1, <1>3, <1>7, TodayIsOver
  <2>3. D + 1 \in Nat /\ D + 1 <= D + WeekLen + c.sch.arg /\ D <= D + 1
    BY <1>2
  <2> HIDE DEF d
  <2> QED
    BY <1>1, <1>2, <1>4, <1>5, <2>1, <2>2, <2>3, FromDay
<1> QED
  BY <1>6, <1>7

LEMMA ViewOfOnce ==
    ASSUME TypeInv, RowsInv, NEW i \in Ids, NEW c \in Item, c.enabled, c.sch.kind = "once",
           NEW v \in ResolveNextDue(i, c, time)
    PROVE  Announced(i, c, v)
<1> DEFINE D == Day(time)
           d == c.sch.arg
           next == {x \in LocalDatetime(d, c.sch.at) : x > time}
<1>1. SUFFICES ASSUME ~Fires(i, c, time), \/ next = {} /\ v = <<"no_upcoming">>
                                          \/ \E x \in next : v \in Answers(i, c, x)
               PROVE  Announced(i, c, v)
  BY ByEstimate DEF EstimateNextDue
<1>2. /\ time \in Nat /\ D \in Nat /\ WeekLen \in Nat \ {0} /\ c.sch.at \in 0..(SlotsPerDay - 1)
      /\ d \in Nat /\ Instant(d, c.sch.at) \in Nat
  BY Looking, DayOfInstant
<1>3. \A e : OnDate(i, c, e) <=> e = d
  BY DEF OnDate
<1>4. CASE next = {} /\ v = <<"no_upcoming">>
  <2>1. ASSUME NEW e \in Nat, D <= e, Open(i, c, e)
        PROVE  FALSE
    <3>1. e = d /\ <<d, c.sch.at>> \notin Gaps
      BY <1>3, <2>1 DEF Open
    <3>2. ~(Instant(d, c.sch.at) > time)
      BY <1>4, <3>1, LocalInstant
    <3>3. D = d
      BY <1>2, <2>1, <3>1, <3>2, LaterDay
    <3> QED
      BY <1>1, <1>2, <2>1, <3>1, <3>2, <3>3, TodayIsOver
  <2> QED
    BY <1>4, <2>1, NoneOpens DEF Announced
<1>5. CASE \E x \in next : v \in Answers(i, c, x)
  <2>1. <<d, c.sch.at>> \notin Gaps /\ time < Instant(d, c.sch.at) /\ v \in Answers(i, c, Instant(d, c.sch.at))
    BY <1>2, <1>5, LocalInstant
  <2>2. D <= d
    BY <1>2, <2>1, LaterDay
  <2>3. d <= D + WeekLen + c.sch.arg /\ \A e \in Nat : D <= e /\ e < d => e # d
    BY <1>2
  <2>4. \A e \in Nat : D <= e /\ e < d => ~Open(i, c, e)
    BY <1>3, <2>3 DEF Open
  <2> QED
    BY <1>2, <1>3, <2>1, <2>2, <2>3, <2>4, AnswerForDay
<1> QED
  BY <1>1, <1>4, <1>5


(* The date from which an interval intention is on.                         *)
LEMMA IntervalDay ==
    ASSUME TypeInv, RowsInv, NEW i \in Ids, NEW c \in Item, c.sch.kind = "interval"
    PROVE  LET D == Day(time)
               day == Max({D} \cup {Day(l) + c.sch.arg : l \in LastSuccess(i)})
           IN  /\ day \in Nat /\ D <= day /\ day <= D + c.sch.arg
               /\ \A e \in Nat : OnDate(i, c, e) <=> (\A l \in LastSuccess(i) : e >= Day(l) + c.sch.arg)
               /\ \A e \in Nat : day <= e => OnDate(i, c, e)
               /\ \A e \in Nat : D <= e /\ e < day => ~OnDate(i, c, e)
<1> DEFINE D == Day(time)
           T == {D} \cup {Day(l) + c.sch.arg : l \in LastSuccess(i)}
           day == Max(T)
<1>1. time \in Nat /\ D \in Nat /\ c.sch.arg \in Nat
  BY Looking
<1>2. \A l \in LastSuccess(i) : Day(l) \in Nat /\ Day(l) <= D
  <2> SUFFICES ASSUME NEW l \in LastSuccess(i)
               PROVE  Day(l) \in Nat /\ Day(l) <= D
    OBVIOUS
  <2>1. l \in 0..time
    BY LatestSuccess
  <2> QED
    BY <1>1, <2>1, DaysGrow, InstantOfDay
<1>3. T \in SUBSET (0..(D + c.sch.arg)) /\ D + c.sch.arg \in Nat /\ D \in T
  BY <1>1, <1>2
<1>4. day \in T /\ \A y \in T : y <= day
  <2> HIDE DEF T
  <2> QED
    BY <1>3, LargestOf
<1>5. \A e \in Nat : OnDate(i, c, e) <=> (\A l \in LastSuccess(i) : e >= Day(l) + c.sch.arg)
  BY DEF OnDate
<1>6. \A l \in LastSuccess(i) : Day(l) + c.sch.arg <= day
  BY <1>4
<1>7. day = D \/ \E l \in LastSuccess(i) : day = Day(l) + c.sch.arg
  BY <1>4
<1>8. day \in Nat /\ D <= day /\ day <= D + c.sch.arg
  <2> HIDE DEF day
  <2> QED
    BY <1>1, <1>3, <1>4
<1> HIDE DEF day
<1>9. ASSUME NEW e \in Nat, day <= e
      PROVE  OnDate(i, c, e)
  <2> SUFFICES ASSUME NEW l \in LastSuccess(i)
               PROVE  e >= Day(l) + c.sch.arg
    BY <1>5
  <2> QED
    BY <1>1, <1>2, <1>6, <1>8, <1>9
<1>10. ASSUME NEW e \in Nat, D <= e, e < day
       PROVE  ~OnDate(i, c, e)
  <2>1. PICK l \in LastSuccess(i) : day = Day(l) + c.sch.arg
    BY <1>1, <1>7, <1>8, <1>10
  <2>2. ~(e >= Day(l) + c.sch.arg)
    BY <1>8, <1>10, <2>1
  <2> QED
    BY <1>5, <2>2
<1> QED
  BY <1>5, <1>8, <1>9, <1>10 DEF day

(* An interval intention that has run today is next looked at tomorrow.     *)
LEMMA RanToday ==
    ASSUME TypeInv, RowsInv, NEW i \in Ids, NEW c \in Item, c.enabled, c.sch.kind = "interval",
           HasRun(i, KeyNow(c)), OnDate(i, c, Day(time) + 1),
           NEW x \in Nat, Day(x) = Day(time), NEW v \in Answers(i, c, x)
    PROVE  Announced(i, c, v)
<1> DEFINE D == Day(time)
           next == EstimateNextDayAt(c.sch.at, time)
<1>1. /\ time \in Nat /\ D \in Nat /\ WeekLen \in Nat \ {0} /\ c.sch.at \in 0..(SlotsPerDay - 1)
      /\ c.sch.arg \in Nat
  BY Looking
<1>2. GenerateDueKey(c.sch, x) = KeyNow(c) /\ KeyNow(c) = <<"day", D>>
  BY <1>1 DEF KeyNow, GenerateDueKey
<1>3. next = LocalDatetime(D + 1, c.sch.at)
  BY DEF EstimateNextDayAt
<1>4. CASE <<D + 1, c.sch.at>> \in Gaps
  <2>1. v = <<"attempted_this_period">>
    BY <1>2, <1>3, <1>4, LocalInstant DEF Answers
  <2> QED
    BY <1>1, <2>1, Consumed DEF Announced
<1>5. CASE <<D + 1, c.sch.at>> \notin Gaps
  <2> DEFINE y == Instant(D + 1, c.sch.at)
  <2>1. next = {y}
    BY <1>3, <1>5, LocalInstant
  <2>2. v = <<"at", y>>
    <3> HIDE DEF y, next
    <3>1. v \in {<<"at", z>> : z \in next}
      BY <1>2, <2>1 DEF Answers, next
    <3> QED
      BY <2>1, <3>1
  <2>3. time < y
    BY <1>1, LaterDay
  <2>4. KeyOn(c, D + 1) = <<"day", D + 1>> /\ ~Past(<<"day", D + 1>>)
    BY <1>1 DEF KeyOn, Past
  <2>5. Open(i, c, D + 1)
    BY <1>5, <2>4 DEF Open, RowsInv, HasRun
  <2>6. ~Open(i, c, D)
    BY <1>2 DEF Open, KeyOn
  <2>7. /\ D + 1 \in Nat /\ D + 1 <= D + WeekLen + c.sch.arg
        /\ \A e \in Nat : D <= e /\ e < D + 1 => e = D
    BY <1>1
  <2>8. \A e \in Nat : D <= e /\ e < D + 1 => ~Open(i, c, e)
    BY <2>6, <2>7
  <2>9. FirstFiring(i, c) = {y}
    BY <2>3, <2>5, <2>7, <2>8, FirstOpens
  <2> QED
    BY <2>2, <2>9 DEF Announced
<1> QED
  BY <1>4, <1>5

LEMMA ViewOfInterval ==
    ASSUME TypeInv, RowsInv, NEW i \in Ids, NEW c \in Item, c.enabled, c.sch.kind = "interval",
           NEW v \in ResolveNextDue(i, c, time)
    PROVE  Announced(i, c, v)
<1> DEFINE D == Day(time)
           d == Max({D} \cup {Day(l) + c.sch.arg : l \in LastSuccess(i)})
           next == {IF x <= time THEN time ELSE x : x \in LocalDatetime(d, c.sch.at)}
<1>1. SUFFICES ASSUME ~Fires(i, c, time), \/ next = {} /\ v = <<"no_upcoming">>
                                          \/ \E x \in next : v \in Answers(i, c, x)
               PROVE  Announced(i, c, v)
  BY ByEstimate DEF EstimateNextDue, NextInterval
<1>2. /\ d \in Nat /\ D <= d /\ d <= D + c.sch.arg
      /\ \A e \in Nat : d <= e => OnDate(i, c, e)
      /\ \A e \in Nat : D <= e /\ e < d => ~OnDate(i, c, e)
  BY IntervalDay
<1> HIDE DEF d
<1>3. /\ time \in Nat /\ D \in Nat /\ WeekLen \in Nat \ {0} /\ c.sch.at \in 0..(SlotsPerDay - 1)
      /\ c.sch.arg \in Nat /\ Instant(d, c.sch.at) \in Nat /\ Day(Instant(d, c.sch.at)) = d
  BY <1>2, Looking, DayOfInstant
<1>4. d <= D + WeekLen + c.sch.arg /\ D + 1 \in Nat /\ (d = D => d <= D + 1)
  BY <1>2, <1>3
<1>5. \A e \in Nat : D <= e /\ e < d => ~Open(i, c, e)
  BY <1>2 DEF Open
<1>6. OnDate(i, c, d) /\ (d = D => OnDate(i, c, D + 1))
  BY <1>2, <1>3, <1>4
<1>7. CASE <<d, c.sch.at>> \in Gaps
  <2>1. next = {}
    BY <1>7, LocalInstant
  <2> QED
    BY <1>1, <1>2, <1>4, <1>7, <2>1, GivenUp
<1>8. CASE <<d, c.sch.at>> \notin Gaps
  <2> DEFINE x == Instant(d, c.sch.at)
  <2>1. v \in Answers(i, c, IF x <= time THEN time ELSE x)
    BY <1>1, <1>8, LocalInstant
  <2>2. CASE x <= time
    <3>1. d = D
      BY <1>2, <1>3, <2>2, LaterDay
    <3>2. ~(time < x)
      BY <1>3, <2>2
    <3>3. HasRun(i, KeyOn(c, D))
      BY <1>1, <1>6, <1>8, <3>1, <3>2, TodayIsOver DEF Open
    <3>4. HasRun(i, KeyNow(c))
      BY <1>3, <3>3, DueOnDay DEF KeyNow
    <3> QED
      BY <1>3, <1>6, <2>1, <2>2, <3>1, <3>4, RanToday
  <2>3. CASE ~(x <= time) /\ HasRun(i, KeyNow(c)) /\ d = D
    BY <1>3, <1>6, <2>1, <2>3, RanToday
  <2>4. CASE ~(x <= time) /\ ~(HasRun(i, KeyNow(c)) /\ d = D)
    <3>1. time < x
      BY <1>3, <2>4
    <3> QED
      BY <1>2, <1>4, <1>5, <1>6, <1>8, <2>1, <2>4, <3>1, AnswerForDay
  <2> QED
    BY <2>2, <2>3, <2>4
<1> QED
  BY <1>7, <1>8

(* The days from a day to the next of a weekday.                            *)
LEMMA WeekAhead ==
    ASSUME NEW W \in Nat \ {0}, NEW D \in Nat, NEW k \in 0..(W - 1)
    PROVE  (D + k) % W = IF (D % W) + k < W THEN (D % W) + k ELSE (D % W) + k - W
<1> DEFINE q == D \div W
           r == D % W
<1>1. q \in Nat /\ r \in 0..(W - 1) /\ D = q * W + r
  BY Quotient
<1> HIDE DEF q, r
<1>2. CASE r + k < W
  <2>1. r + k \in 0..(W - 1) /\ D + k = q * W + (r + k)
    BY <1>1, <1>2
  <2>2. (q * W + (r + k)) % W = r + k
    BY <1>1, <2>1, Division
  <2> QED
    BY <1>2, <2>1, <2>2 DEF r
<1>3. CASE ~(r + k < W)
  <2>1. r + k - W \in 0..(W - 1) /\ q + 1 \in Nat
    BY <1>1, <1>3
  <2>2. D + k = (q + 1) * W + (r + k - W)
    <3>1. (q + 1) * W = q * W + W /\ q * W \in Nat
      BY <1>1
    <3> HIDE DEF q
    <3> QED
      BY <1>1, <3>1
  <2>3. ((q + 1) * W + (r + k - W)) % W = r + k - W
    BY <2>1, Division
  <2> QED
    BY <1>3, <2>2, <2>3 DEF r
<1> QED
  BY <1>2, <1>3

DaysTo(W, D, a) == (a + W - (D % W)) % W
FirstAfter(W, D, a, off) ==
    /\ off \in 0..(W - 1) /\ (D + off) % W = a
    /\ \A e \in Nat : D <= e /\ e < D + off => e % W # a
    /\ off = 0 => /\ (D + W) % W = a
                  /\ \A e \in Nat : D < e /\ e < D + W => e % W # a

LEMMA NextWeekday ==
    ASSUME NEW W \in Nat \ {0}, NEW D \in Nat, NEW a \in 0..(W - 1)
    PROVE  FirstAfter(W, D, a, DaysTo(W, D, a))
<1> DEFINE r == D % W
           off == DaysTo(W, D, a)
<1>1. D \div W \in Nat /\ r \in 0..(W - 1) /\ D = (D \div W) * W + r
  BY Quotient
<1>2. off = IF a >= r THEN a - r ELSE a + W - r
  <2>1. CASE a >= r
    <3>1. a + W - r = 1 * W + (a - r) /\ a - r \in 0..(W - 1) /\ 1 \in Nat
      BY <1>1, <2>1
    <3>2. (1 * W + (a - r)) % W = a - r
      BY <3>1, Division
    <3> QED
      BY <2>1, <3>1, <3>2 DEF DaysTo
  <2>2. CASE ~(a >= r)
    <3>1. a + W - r = 0 * W + (a + W - r) /\ a + W - r \in 0..(W - 1) /\ 0 \in Nat
      BY <1>1, <2>2
    <3>2. (0 * W + (a + W - r)) % W = a + W - r
      BY <3>1, Division
    <3> QED
      BY <2>2, <3>1, <3>2 DEF DaysTo
  <2> QED
    BY <2>1, <2>2
<1>3. \A k \in 0..(W - 1) : (D + k) % W = IF r + k < W THEN r + k ELSE r + k - W
  BY WeekAhead
<1> HIDE DEF r, off
<1>4. off \in 0..(W - 1)
  BY <1>1, <1>2
<1>5. ASSUME NEW k \in 0..(W - 1)
      PROVE  (IF r + k < W THEN r + k ELSE r + k - W) = a <=> k = off
  BY <1>1, <1>2
<1>6. \A k \in 0..(W - 1) : (D + k) % W = a <=> k = off
  BY <1>3, <1>5
<1>7. ASSUME NEW e \in Nat, D <= e, e < D + W, e # D + off
      PROVE  e % W # a
  <2>1. e - D \in 0..(W - 1) /\ e - D # off /\ D + (e - D) = e
    BY <1>4, <1>7
  <2>2. (D + (e - D)) % W # a
    BY <1>6, <2>1
  <2> QED
    BY <2>1, <2>2
<1>8. ASSUME off = 0
      PROVE  (D + W) % W = a
  <2>1. r = a
    BY <1>1, <1>2, <1>8
  <2>2. D + W = (D \div W + 1) * W + r /\ D \div W + 1 \in Nat
    <3>1. (D \div W + 1) * W = (D \div W) * W + W
      BY <1>1
    <3> QED
      BY <1>1, <3>1
  <2>3. ((D \div W + 1) * W + r) % W = r
    BY <1>1, <2>2, Division
  <2> QED
    BY <2>1, <2>2, <2>3
<1>9. ASSUME NEW e \in Nat, D <= e, e < D + off
      PROVE  e % W # a
  <2>1. e < D + W /\ e # D + off
    BY <1>4, <1>9
  <2> QED
    BY <1>7, <1>9, <2>1
<1>10. ASSUME off = 0, NEW e \in Nat, D < e, e < D + W
       PROVE  e % W # a
  <2>1. D <= e /\ e # D + off
    BY <1>10
  <2> QED
    BY <1>7, <1>10, <2>1
<1> QED
  BY <1>4, <1>6, <1>8, <1>9, <1>10 DEF off, FirstAfter

LEMMA ViewOfWeekly ==
    ASSUME TypeInv, RowsInv, NEW i \in Ids, NEW c \in Item, c.enabled, c.sch.kind = "weekly",
           NEW v \in ResolveNextDue(i, c, time)
    PROVE  Announced(i, c, v)
<1> DEFINE D == Day(time)
           at == c.sch.at
           off == DaysTo(WeekLen, D, c.sch.arg)
           d == D + off
           next == UNION {IF x <= time THEN LocalDatetime(d + WeekLen, at) ELSE {x} : x \in LocalDatetime(d, at)}
<1>1. SUFFICES ASSUME ~Fires(i, c, time), \/ next = {} /\ v = <<"no_upcoming">>
                                          \/ \E x \in next : v \in Answers(i, c, x)
               PROVE  Announced(i, c, v)
  BY ByEstimate DEF EstimateNextDue, NextWeekly, Weekday, DaysTo
<1>2. /\ time \in Nat /\ D \in Nat /\ WeekLen \in Nat \ {0} /\ at \in 0..(SlotsPerDay - 1)
      /\ c.sch.arg \in 0..(WeekLen - 1)
  BY Looking
<1> HIDE DEF off
<1>3. /\ off \in 0..(WeekLen - 1) /\ d % WeekLen = c.sch.arg
      /\ \A e \in Nat : D <= e /\ e < d => e % WeekLen # c.sch.arg
      /\ off = 0 => /\ (D + WeekLen) % WeekLen = c.sch.arg
                    /\ \A e \in Nat : D < e /\ e < D + WeekLen => e % WeekLen # c.sch.arg
  <2> HIDE DEF D
  <2>1. FirstAfter(WeekLen, D, c.sch.arg, off)
    BY <1>2, NextWeekday DEF off
  <2> QED
    BY <2>1 DEF FirstAfter
<1>4. \A e : OnDate(i, c, e) <=> e % WeekLen = c.sch.arg
  BY DEF OnDate, Weekday
<1>5. /\ d \in Nat /\ D <= d /\ d <= D + WeekLen + c.sch.arg /\ (d = D <=> off = 0)
      /\ D + WeekLen \in Nat /\ D < D + WeekLen /\ D + WeekLen <= D + WeekLen + c.sch.arg
  <2>1. off \in Nat /\ off < WeekLen /\ WeekLen \in Nat /\ c.sch.arg \in Nat /\ D \in Nat
    BY <1>2, <1>3
  <2> HIDE DEF D
  <2> QED
    BY <2>1
<1> HIDE DEF d
<1>6. Instant(d, at) \in Nat
  BY <1>2, <1>5, DayOfInstant
<1>7. CASE <<d, at>> \in Gaps
  <2>1. next = {}
    BY <1>7, LocalInstant
  <2> QED
    BY <1>1, <1>5, <1>7, <2>1, GivenUp
<1>8. CASE <<d, at>> \notin Gaps /\ ~(Instant(d, at) <= time)
  <2>1. time < Instant(d, at)
    BY <1>2, <1>6, <1>8
  <2>2. next = {Instant(d, at)}
    BY <1>8, LocalInstant
  <2>3. v \in Answers(i, c, Instant(d, at))
    BY <1>1, <2>2
  <2>4. OnDate(i, c, d) /\ \A e \in Nat : D <= e /\ e < d => ~Open(i, c, e)
    BY <1>3, <1>4 DEF Open
  <2> QED
    BY <1>5, <1>8, <2>1, <2>3, <2>4, AnswerForDay
<1>9. CASE <<d, at>> \notin Gaps /\ Instant(d, at) <= time
  <2>1. d = D /\ off = 0
    BY <1>2, <1>5, <1>6, <1>9, LaterDay
  <2>2. next = LocalDatetime(D + WeekLen, at)
    <3>1. next = UNION {LocalDatetime(d + WeekLen, at)}
      BY <1>9, LocalInstant
    <3> QED
      BY <2>1, <3>1
  <2>3. ~(time < Instant(D, at))
    BY <1>2, <1>6, <1>9, <2>1
  <2>4. ~Open(i, c, D)
    BY <1>1, <2>3, TodayIsOver
  <2>5. OnDate(i, c, D + WeekLen)
    BY <1>3, <1>4, <2>1
  <2>6. ASSUME NEW e \in Nat, D <= e, e < D + WeekLen
        PROVE  ~Open(i, c, e)
    <3>1. CASE e = D
      BY <2>4, <3>1
    <3>2. CASE e # D
      <4>1. D < e
        BY <1>2, <2>6, <3>2
      <4> QED
        BY <1>3, <1>4, <2>1, <2>6, <4>1 DEF Open
    <3> QED
      BY <3>1, <3>2
  <2>7. time < Instant(D + WeekLen, at) /\ D <= D + WeekLen
    BY <1>2, <1>5, LaterDay
  <2> HIDE DEF next
  <2> QED
    BY <1>1, <1>5, <2>2, <2>5, <2>6, <2>7, FromDay
<1> QED
  BY <1>7, <1>8, <1>9

LEMMA ViewHolds ==
    ASSUME TypeInv, RowsInv
    PROVE  ViewAgrees
<1> SUFFICES ASSUME NEW i \in Ids, file.items[i].enabled,
                    NEW v \in ResolveNextDue(i, file.items[i], time)
             PROVE  LET c == file.items[i]
                    IN  CASE v[1] = "due_now" -> FirstFiring(i, c) = {time}
                          [] v[1] = "at" -> FirstFiring(i, c) = {v[2]}
                          [] v[1] = "attempted_this_period" ->
                               \A t \in FirstFiring(i, c) : GenerateDueKey(c.sch, t) # GenerateDueKey(c.sch, time)
                          [] v[1] = "attempted_once" -> FirstFiring(i, c) = {}
                          [] v[1] = "no_upcoming" ->
                               \/ FirstFiring(i, c) = {}
                               \/ \E d \in Day(time)..Day(LastLook(c)) : <<d, c.sch.at>> \in Gaps
  BY DEF ViewAgrees, FirstFiring, Firings, LastLook
<1> DEFINE c == file.items[i]
<1>1. c \in Item
  BY DEF TypeInv, NoItem
<1>2. c.sch.kind \in {"daily", "weekly", "interval", "once"}
  BY <1>1, PulseAssumption DEF Item
<1>3. Announced(i, c, v)
  <2> HIDE DEF c
  <2>1. c.enabled /\ v \in ResolveNextDue(i, c, time)
    BY DEF c
  <2> QED
    BY <1>1, <1>2, <2>1, ViewOfDaily, ViewOfWeekly, ViewOfInterval, ViewOfOnce
<1> HIDE DEF c
<1>4. CASE v = <<"due_now">> /\ FirstFiring(i, c) = {time}
  BY <1>4 DEF c
<1>5. ASSUME NEW x, v = <<"at", x>>, FirstFiring(i, c) = {x}
      PROVE  v[1] = "at" /\ FirstFiring(i, c) = {v[2]}
  BY <1>5
<1>6. CASE v = <<"attempted_this_period">> /\ \A t \in FirstFiring(i, c) : GenerateDueKey(c.sch, t) # KeyNow(c)
  BY <1>6 DEF c, KeyNow
<1>7. CASE v = <<"attempted_once">> /\ FirstFiring(i, c) = {}
  BY <1>7 DEF c
<1>8. CASE /\ v = <<"no_upcoming">>
           /\ FirstFiring(i, c) = {} \/ \E d \in Day(time)..Day(LastLook(c)) : <<d, c.sch.at>> \in Gaps
  BY <1>8 DEF c
<1> QED
  BY <1>3, <1>4, <1>5, <1>6, <1>7, <1>8 DEF Announced, c

-----------------------------------------------------------------------------
(* The inductive invariant and what it says.                                *)

Inv == TypeInv /\ HandInv /\ ToldInv /\ RowsInv /\ WaitInv /\ IntervalSpaced /\ ArchivedRan /\ NotMissed

LEMMA InvInit ==
    Init => Inv
<1> SUFFICES ASSUME Init
             PROVE  Inv
  OBVIOUS
<1>1. MaxTime \in Nat /\ MaxEdits \in Nat /\ MaxFaults \in Nat
  BY PulseAssumption
<1>2. TypeInv
  <2>1. NoItems \in [Ids -> Item \cup {NoItem}]
    BY DEF NoItems
  <2>2. scan \in Scans /\ scan.now <= time
    BY <1>1, <2>1 DEF Init, Scans, NoScan
  <2>3. file \in [on : BOOLEAN, items : [Ids -> Item \cup {NoItem}]]
    BY <2>1 DEF Init
  <2>4. told \in [Ids -> [Keys -> Counts]]
    BY DEF Init, Counts
  <2>5. rows \in [Ids -> [Keys -> Row \cup {NoRow}]]
    BY DEF Init
  <2> QED
    <3>1. time \in 0..MaxTime /\ edits \in 0..MaxEdits /\ faults \in 0..MaxFaults
      BY <1>1 DEF Init
    <3>2. busy \in BOOLEAN /\ scanned \in BOOLEAN /\ pc \in Points /\ archived = {}
      BY DEF Init, Points
    <3> QED
      BY <2>2, <2>3, <2>4, <2>5, <3>1, <3>2 DEF TypeInv
<1>3. \A i \in Ids : \A k \in Keys : rows[i][k].status = "none" /\ told[i][k] = Tale(0, 0, 0)
  BY DEF Init, NoRow, Tale
<1>4. pc = "idle" /\ scan.id = Nobody
  BY DEF Init, NoScan
<1>5. HandInv
  BY <1>4 DEF HandInv, Resting, Claimed
<1>6. ToldInv
  BY <1>3, <1>4 DEF ToldInv, HandTale, Tells, Tale
<1>7. RowsInv
  BY <1>3, <1>4 DEF RowsInv, HasRun
<1>8. WaitInv
  BY DEF Init, WaitInv, Waits, NoItems, NoItem
<1>9. IntervalSpaced /\ NotMissed /\ ArchivedRan
  BY <1>3 DEF Init, IntervalSpaced, NotMissed, ArchivedRan
<1> QED
  BY <1>2, <1>5, <1>6, <1>7, <1>8, <1>9 DEF Inv

LEMMA InvStep ==
    Inv /\ [Next]_vars => Inv'
<1>1. ASSUME Inv, Next
      PROVE  Inv'
  <2>1. TypeInv'
    BY <1>1, TypeStep DEF Inv
  <2>2. HandInv' /\ ToldInv' /\ RowsInv'
    BY <1>1, <2>1, HandStep, ToldStep, RowsStep DEF Inv
  <2>3. WaitInv' /\ NotMissed'
    BY <1>1, <2>1, WaitStep, MissedStep DEF Inv
  <2>4. IntervalSpaced' /\ ArchivedRan'
    BY <1>1, SpacedStep, ArchivedStep DEF Inv
  <2> QED
    BY <2>1, <2>2, <2>3, <2>4 DEF Inv
<1>2. ASSUME Inv, UNCHANGED vars
      PROVE  Inv'
  <2>1. TypeInv'
    BY <1>2 DEF Inv, TypeInv, vars, ghosts
  <2>2. HandInv'
    BY <1>2 DEF Inv, HandInv, vars, Key, Rows, HasRun
  <2>3. ToldInv'
    BY <1>2 DEF Inv, ToldInv, HandTale, InHand, Tells, Key, vars, ghosts
  <2>4. RowsInv'
    BY <1>2 DEF Inv, RowsInv, vars, Key, Rows, HasRun, Past
  <2>5. WaitInv'
    BY <1>2 DEF Inv, WaitInv, Waits, Served, HasRun, vars, ghosts
  <2>6. IntervalSpaced' /\ ArchivedRan' /\ NotMissed'
    BY <1>2 DEF Inv, IntervalSpaced, ArchivedRan, NotMissed, vars, ghosts
  <2> QED
    BY <2>1, <2>2, <2>3, <2>4, <2>5, <2>6 DEF Inv
<1> QED
  BY <1>1, <1>2

LEMMA Invariance ==
    Spec => []Inv
<1> QED
  BY InvInit, InvStep, PTL DEF Spec

(* Whatever scans, edits, turns, failures and deaths of the process do, the  *)
(* state of the scheduler is well formed, a notification kept in the session *)
(* was delivered, a successful run is silent or wholly told, and a once      *)
(* intention leaves the file only when the definition it removes ran with    *)
(* success.                                                                  *)
THEOREM RunsStayHonest == Spec => []RunsAreHonest
<1>1. ASSUME Inv
      PROVE  RunsAreHonest
  <2>1. TypeOK
    <3>1. time \in 0..MaxTime /\ pc \in Points /\ edits \in 0..MaxEdits /\ faults \in 0..MaxFaults
      BY <1>1 DEF Inv, TypeInv
    <3>2. file.on \in BOOLEAN /\ file.items \in [Ids -> Item \cup {NoItem}]
      BY <1>1 DEF Inv, TypeInv
    <3>3. time \in Nat
      BY <3>1, PulseAssumption
    <3>4. scan.items \in [Ids -> Item \cup {NoItem}] /\ scan.now \in 0..time
      BY <1>1, <3>3 DEF Inv, TypeInv, Scans
    <3>5. (scan.id \in Ids) = (pc \notin {"down", "idle", "scan"})
      BY <1>1, PulseAssumption DEF Inv, HandInv, Resting, Nobody
    <3>6. ASSUME NEW i \in Ids, NEW k \in Keys
          PROVE  rows[i][k] = NoRow \/ (rows[i][k].status \in Statuses /\ rows[i][k].started \in 0..time)
      <4>1. rows[i][k] \in Row \cup {NoRow}
        BY <1>1 DEF Inv, TypeInv
      <4>2. CASE rows[i][k] \in Row
        <5>1. rows[i][k].status \in Statuses /\ rows[i][k].started \in Nat
          BY <4>2 DEF Row
        <5>2. rows[i][k].status # "none"
          BY <5>1 DEF Statuses
        <5>3. rows[i][k].started <= time
          BY <1>1, <5>2 DEF Inv, RowsInv, HasRun
        <5> QED
          BY <3>3, <5>1, <5>3
      <4> QED
        BY <4>1, <4>2
    <3> QED
      BY <3>1, <3>2, <3>4, <3>5, <3>6 DEF TypeOK, Points
  <2>2. StoredWasSent /\ SuccessIsWhole
    BY <1>1 DEF Inv, ToldInv, Tells, StoredWasSent, SuccessIsWhole
  <2> QED
    BY <1>1, <2>1, <2>2 DEF Inv, RunsAreHonest
<1> QED
  BY <1>1, Invariance, PTL

(* However scans, edits, slow activations, failures and restarts interleave, *)
(* and whatever hours the clock jumps over, a period activates and notifies  *)
(* at most once, interval runs keep their distance from earlier successes, a *)
(* dated reminder is missed only with an excuse, and the next firing shown   *)
(* by the views is the scheduler's, for every schedule and calendar.         *)
THEOREM PeriodsFireAsScheduled == Spec => []FiresAsScheduled
<1>1. ASSUME Inv
      PROVE  FiresAsScheduled
  <2>1. OneRunPerPeriod
    BY <1>1 DEF Inv, ToldInv, Tells, OneRunPerPeriod
  <2>2. ViewAgrees
    BY <1>1, ViewHolds DEF Inv
  <2> QED
    BY <1>1, <2>1, <2>2 DEF Inv, FiresAsScheduled
<1> QED
  BY <1>1, Invariance, PTL

=============================================================================
