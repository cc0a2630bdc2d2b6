--------------------------- MODULE SleepRunProofs ---------------------------
(* Proofs about the sleep batch, for any number of chats, messages, runs,   *)
(* attempts and faults.                                                     *)
EXTENDS SleepRun, FiniteSetTheorems, SequenceTheorems, WellFoundedInduction, TLAPS

(* Where the executor is between the creation of a run and its steps, while *)
(* the steps run, and once the snapshots of the run are complete.           *)
Early == {"source", "prepare"}
Working == {"event", "eventReply", "episodic", "memory", "memoryReply", "ensure"}
Publishing == {"check", "rename", "archive", "truncate"}
Replies == {"eventReply", "memoryReply"}
Modes == {"startup", "retry", "batch"}
Kinds == {"crash", "io", "db", "edit"}
Done == {"success", "failed", "skipped"}
Side == [before : Content, after : Content]

MsgTypes ==
    /\ clock \in 0..MaxMsg /\ inbox \in [Chats -> 0..MaxMsg] /\ late \subseteq Messages
    /\ committed \in [Chats -> SUBSET Messages] /\ session \in [Chats -> Seq(Messages)]
ProgressTypes ==
    /\ seen \in [Readers -> [Messages -> Nat]] /\ ckpt \in [Readers -> [Chats -> 0..MaxMsg]]
    /\ events \in 0..MaxRuns /\ sem \in 0..events
RowTypes ==
    /\ run \in 0..MaxRuns /\ status \in [Runs -> Statuses] /\ step \in [Steps -> StepStates]
    /\ source \subseteq Chats /\ published \subseteq 1..run
SnapTypes == snap \in [File -> Side \cup {NoSnap["episodic"]}]
FileTypes ==
    /\ disk \in Bundle /\ archive \in [Runs -> [Chats -> SUBSET Messages]]
    /\ cache \in Bundle \cup {NoCache}
ControlTypes ==
    /\ pc \in Points /\ mode \in Modes /\ tries \in 0..MaxAttempts
FaultTypes == faults \in [Kinds -> 0..MaxFaults]
WorkTypes == work \in Works

(* The executor holds a running run from its creation to its end, and a run *)
(* yields at most one batch of events.                                      *)
RunInv ==
    /\ pc \in Early \cup Working \cup Publishing => Running
    /\ pc \in {"collect", "create", "check"} \cup Early \cup Working => mode = "batch"
    /\ events <= run
    /\ pc \in Early \cup {"event", "eventReply"} => events < run
    /\ pc = "memoryReply" => work.events <= events
    /\ pc = "create" => run < MaxRuns
    /\ pc \in Publishing => SnapComplete

(* The snapshots of the newest run by where the executor is: which are      *)
(* written, that a changed file means a step that succeeded, and that every *)
(* step has an outcome by then unless the database failed.                  *)
StepOf(f) == IF f = "episodic" THEN "episodic" ELSE "memory"
Changed == \E f \in File : snap[f].before # snap[f].after
StepsDone ==
    /\ pc \in {"episodic", "memory", "memoryReply", "ensure"} => step["event"] \in Done
    /\ pc \in {"memory", "memoryReply", "ensure"} => step["episodic"] \in Done
    /\ pc = "ensure" => step["memory"] \in Done
    /\ SnapComplete => \A s \in Steps : step[s] \in Done
SnapInv ==
    /\ pc \in Early \cup {"event", "eventReply", "episodic"} => \A f \in File : snap[f].before = Absent
    /\ pc \in {"memory", "memoryReply"} => \A f \in File \ {"episodic"} : snap[f].before = Absent
    /\ \A f \in File : snap[f].before # snap[f].after => step[StepOf(f)] = "success"
    /\ faults.db = 0 => StepsDone
    /\ run \in published => SnapComplete /\ Changed

(* d holds the files of b, but for those edited by hand. *)
Near(d, b) == \A f \in File : d[f] = b[f] \/ d[f] > MaxRuns
Before == [f \in File |-> snap[f].before]
After == [f \in File |-> snap[f].after]
(* A run whose publication has to be brought to its end. *)
Pend == Running /\ SnapComplete

(* What the cache holds: what is on disk, unless a publication is pending;  *)
(* the base of the run while its steps work, and one of its sides after.    *)
CacheInv ==
    /\ cache # NoCache /\ (~Pend \/ pc \in Working \cup {"check", "archive", "truncate"})
         => Near(disk, cache)
    /\ pc \in Working => cache = work.base /\ \A f \in File : snap[f].before \in {Absent, work.base[f]}
    /\ pc = "check" => cache = Before /\ work = NoWork
    /\ pc \in {"archive", "truncate"} => cache = After
    /\ (mode # "startup" \/ pc = "idle") /\ Pend => cache # NoCache

(* The files: either side of a run that has ended, and during a publication *)
(* the new side up to the next rename and one side or the other beyond.     *)
DiskInv ==
    /\ ~Running /\ SnapComplete => Near(disk, Before) \/ Near(disk, After)
    /\ pc = "rename" =>
         /\ \A i \in 1..3 : i < work.next =>
               disk[Files[i]] = snap[Files[i]].after \/ disk[Files[i]] > MaxRuns
         /\ \A f \in File : f \in work.touched \/ disk[f] \in {snap[f].before, snap[f].after}

BundleInv == SnapInv /\ CacheInv /\ DiskInv /\ PromptSeesWholeBundle /\ PublishedIsListed

(* A message belongs to one chat; a waiting one is not committed yet; a      *)
(* session holds messages of its chat.                                       *)
MessageInv ==
    /\ \A c \in Chats : committed[c] \subseteq 1..clock /\ inbox[c] <= clock
    /\ \A c, d \in Chats : inbox[c] # 0 => inbox[c] \notin committed[d] /\ (c # d => inbox[c] # inbox[d])
    /\ \A c, d \in Chats : c # d => committed[c] \cap committed[d] = {}
    /\ \A c \in Chats : Range(session[c]) \subseteq committed[c]

(* The input of step s while the model works on it: of each chat all that   *)
(* the checkpoint has not passed, up to the message the checkpoint will be  *)
(* moved to.                                                                *)
InputOf(s, c) ==
    \/ work.upto[c] = 0 /\ \A m \in committed[c] : m \notin work.batch
    \/ /\ work.upto[c] \in committed[c] /\ work.upto[c] >= ckpt[s][c]
       /\ \A m \in committed[c] :
            IF m \in work.batch THEN ckpt[s][c] < m /\ m <= work.upto[c]
            ELSE m <= ckpt[s][c] \/ m > work.upto[c] \/ m \in late
Input(s) ==
    /\ \A c \in Chats : InputOf(s, c)
    /\ \A m \in work.batch : \E c \in Chats : m \in committed[c]

DigestInv ==
    /\ \A s \in Readers : \A m \in Messages : (\A c \in Chats : m \notin committed[c]) => seen[s][m] = 0
    /\ \A s \in Readers, c \in Chats : ckpt[s][c] = 0 \/ ckpt[s][c] \in committed[c]
    /\ ExactlyOnce
    /\ pc = "eventReply" => Input("event")
    /\ pc = "memoryReply" => Input("memory")

(* The archives: a run has none before it publishes; once it archived a     *)
(* chat, whatever the session still holds below the boundary is in there;   *)
(* a truncation under way loaded nothing else.                              *)
Digested(c, m) == \A s \in Readers : m <= ckpt[s][c]
ArchiveInv ==
    /\ \A r \in Runs, c \in Chats : r > run => archive[r][c] = {}
    /\ pc \in Early \cup Working => \A c \in Chats : archive[run][c] = {}
    /\ run # 0 => \A c \in Chats : archive[run][c] # {} =>
         \A m \in Range(session[c]) \ late : Digested(c, m) => m \in archive[run][c]
    /\ pc = "truncate" => \A c \in work.plan : \A m \in Range(work.loaded) \ late :
         m \in archive[run][c] /\ Digested(c, m)
    /\ TruncatedIsKept

TypeInv ==
    /\ MsgTypes /\ ProgressTypes /\ RowTypes /\ SnapTypes /\ FileTypes /\ ControlTypes
    /\ FaultTypes /\ WorkTypes /\ RunInv

-----------------------------------------------------------------------------
(* The operators of the model.                                              *)

(* A set of natural numbers that has an element has a smallest one. *)
LEMMA NatMin ==
    ASSUME NEW T \in SUBSET Nat, T # {}
    PROVE  \E x \in T : \A y \in T : x <= y
<1> DEFINE R == OpToRel(<, Nat)
<1>1. IsWellFoundedOn(R, Nat)
  BY NatLessThanWellFounded
<1>2. PICK x \in T : \A y \in T : ~(<<y, x>> \in R)
  <2> HIDE DEF R
  <2> QED BY <1>1, WFMin
<1>3. \A y \in T : ~(y < x)
  BY <1>2 DEF OpToRel
<1> QED BY <1>3

(* A set of numbers up to n that has an element has a largest one. *)
LEMMA MaxOfSome ==
    ASSUME NEW n \in Nat, NEW T \in SUBSET (1 .. n), T # {}
    PROVE  Max(T) \in T /\ \A y \in T : y <= Max(T)
<1> DEFINE D == {n - y : y \in T}
<1>1. D \in SUBSET Nat /\ D # {}
  <2>1. \A y \in T : n - y \in Nat
    OBVIOUS
  <2> QED BY <2>1
<1>2. PICK d \in D : \A e \in D : d <= e
  <2> HIDE DEF D
  <2> QED BY <1>1, NatMin
<1>3. PICK x \in T : d = n - x
  OBVIOUS
<1>4. \A y \in T : x >= y
  <2> TAKE y \in T
  <2>1. n - y \in D
    OBVIOUS
  <2>2. n - x <= n - y
    BY <1>2, <1>3, <2>1
  <2> QED BY <2>2
<1> QED BY <1>4 DEF Max

(* The newest message of a chat. *)
LEMMA LatestProperties ==
    ASSUME MsgTypes, NEW c \in Chats
    PROVE  /\ Latest(c) \in 0..MaxMsg
           /\ committed[c] # {} => Latest(c) \in committed[c]
           /\ \A m \in committed[c] : m <= Latest(c)
<1>1. MaxMsg \in Nat /\ committed[c] \in SUBSET (1 .. MaxMsg)
  BY SleepAssumption DEF MsgTypes, Messages
<1>2. CASE committed[c] = {}
  BY <1>1, <1>2 DEF Latest
<1>3. CASE committed[c] # {}
  <2>1. Max(committed[c]) \in committed[c] /\ \A y \in committed[c] : y <= Max(committed[c])
    BY <1>1, <1>3, MaxOfSome
  <2> QED
    BY <1>1, <1>3, <2>1 DEF Latest
<1> QED
  BY <1>2, <1>3

LEMMA BoundaryProperties ==
    ASSUME ProgressTypes, NEW c \in Chats
    PROVE  Boundary(c) <= ckpt["event"][c] /\ Boundary(c) <= ckpt["memory"][c]
<1> DEFINE a == ckpt["event"][c]
           b == ckpt["memory"][c]
<1>1. a \in Nat /\ b \in Nat
  BY SleepAssumption DEF ProgressTypes, Readers
<1> HIDE DEF a, b
<1>2. \E x \in {a, b} : \A y \in {a, b} : x <= y
  BY <1>1
<1>3. Min({a, b}) \in {a, b} /\ \A y \in {a, b} : Min({a, b}) <= y
  BY <1>2 DEF Min
<1> QED
  BY <1>3 DEF Boundary, a, b

(* Truncation keeps some of the messages of the session. *)
LEMMA KeepRecentProperties ==
    ASSUME NEW S, NEW q \in Seq(S)
    PROVE  KeepRecent(q) \in Seq(S) /\ Range(KeepRecent(q)) \subseteq Range(q)
<1> DEFINE n == Len(q)
           a == IF n > Keep THEN n - Keep + 1 ELSE 1
           t == SubSeq(q, a, n)
<1>1. n \in Nat /\ Keep \in Nat /\ DOMAIN q = 1..n /\ \A i \in 1..n : q[i] \in S
  BY LenProperties, ElementOfSeq, SleepAssumption
<1>2. a \in 1..(n + 1)
  BY <1>1
<1>3. KeepRecent(q) = t
  BY DEF KeepRecent
<1> HIDE DEF n, a
<1>4. \A i \in a..n : q[i] \in S
  BY <1>1, <1>2
<1>5. /\ t \in Seq(S) /\ Len(t) = IF a <= n THEN n - a + 1 ELSE 0
      /\ \A i \in 1..(n - a + 1) : t[i] = q[a + i - 1]
  BY <1>1, <1>2, <1>4, SubSeqProperties
<1> HIDE DEF t
<1>6. DOMAIN t = 1..Len(t) /\ Len(t) \in Nat
  BY <1>5, LenProperties
<1>7. ASSUME NEW i \in DOMAIN t
      PROVE  \E j \in DOMAIN q : t[i] = q[j]
  <2>1. i \in 1..(n - a + 1) /\ a + i - 1 \in 1..n
    BY <1>1, <1>2, <1>5, <1>6, <1>7
  <2> QED
    BY <1>1, <1>5, <2>1
<1> QED
  BY <1>3, <1>5, <1>7 DEF Range

LEMMA FilesFacts ==
    Len(Files) = 3 /\ Files[1] = "episodic" /\ Files[2] = "semantic" /\ Files[3] = "prospective"
BY DEF Files

LEMMA Contents ==
    /\ MaxRuns \in Nat /\ MaxRuns > 0 /\ MaxFaults \in Nat /\ MaxMsg \in Nat /\ MaxAttempts \in Nat
    /\ Absent \notin Content /\ 0 \in Content
    /\ \A x \in Content : x \in Nat /\ x < Absent
    /\ \A x \in 0..MaxRuns : x \in Content
    /\ Installed \in Bundle /\ NoCache \notin Bundle
<1>1. /\ MaxRuns \in Nat /\ MaxRuns > 0 /\ MaxFaults \in Nat /\ MaxMsg \in Nat /\ MaxAttempts \in Nat
      /\ Absent \notin Content /\ 0 \in Content
      /\ \A x \in Content : x \in Nat /\ x < Absent
      /\ \A x \in 0..MaxRuns : x \in Content
  BY SleepAssumption DEF Absent, Content
<1>2. Installed \in Bundle
  BY <1>1 DEF Installed, Bundle
<1>3. NoCache["semantic"] = Absent
  BY DEF NoCache, File
<1>4. NoCache \notin Bundle
  BY <1>1, <1>3 DEF Bundle, File
<1> QED
  BY <1>1, <1>2, <1>4

LEMMA NoWorkFields ==
    /\ NoWork \in Works
    /\ NoWork.plan = {} /\ NoWork.batch = {} /\ NoWork.events = 0 /\ NoWork.next = 1
    /\ NoWork.touched = {} /\ NoWork.todo = {} /\ NoWork.loaded = <<>> /\ NoWork.pending = FALSE
    /\ \A c \in Chats : NoWork.upto[c] = 0
<1>1. [c \in Chats |-> 0] \in [Chats -> 0..MaxMsg]
  BY Contents
<1>2. <<>> \in Seq(Messages)
  OBVIOUS
<1> QED
  BY <1>1, <1>2, Contents, FilesFacts DEF NoWork, Works

-----------------------------------------------------------------------------
(* What the actions leave alone.                                            *)

(* An attempt ends: what it had in memory is gone, and so is the process if *)
(* it was starting and met an error.                                        *)
Leaves ==
    /\ work' = NoWork
    /\ pc' \in {"idle", "collect", "down"} /\ mode' \in Modes /\ tries' \in 0..MaxAttempts
    /\ (pc' = "collect" => mode' = "batch")
    /\ (mode' = "startup" <=> mode = "startup")
    /\ \/ pc' # "down" /\ cache' = cache
       \/ pc' = "down" /\ mode' = "startup" /\ cache' = NoCache

LEMMA AbandonLeaves ==
    ASSUME ControlTypes, Abandon
    PROVE  Leaves /\ (pc' = "idle" => mode = "batch")
BY SleepAssumption DEF Leaves, Abandon, ControlTypes, Modes

LEMMA ProceedLeaves ==
    ASSUME ControlTypes, Proceed
    PROVE  Leaves /\ pc' # "down"
BY SleepAssumption DEF Leaves, Proceed, ControlTypes, Modes

(* The steps that end an attempt, and what they do to the run. *)
Left ==
    /\ Leaves
    /\ UNCHANGED <<msgVars, progress, run, step, source, snap, fileVars, published>>
    /\ \/ UNCHANGED <<status, faults>>
       \/ UNCHANGED status /\ (Fault("db") \/ Fault("io"))
       \/ UpdateFailed /\ pc = "prepare" /\ Fault("io")
       \/ UpdateFailed /\ pc \in Working \cup {"archive"} /\ Fault("db")
       \/ status' = [status EXCEPT ![run] = DerivedStatus] /\ pc = "archive" /\ UNCHANGED faults
    /\ (pc' = "idle" /\ mode' = "startup" => ~Running \/ pc = "archive")

(* The three actions that may also go on. *)
Marks ==
    /\ pc = "recover" /\ Running /\ ~SnapComplete /\ UpdateFailed
    /\ UNCHANGED <<msgVars, progress, run, step, source, snap, fileVars, control, cache, published, faults>>
Resumes ==
    /\ pc = "recover" /\ Running /\ SnapComplete /\ Classifiable /\ GoTo("rename") /\ work' = NoWork
    /\ UNCHANGED <<msgVars, progress, rowVars, fileVars, cache, published, faults>>
Persists ==
    /\ pc = "source" /\ source' = work.plan /\ GoTo("prepare")
    /\ UNCHANGED <<msgVars, progress, run, status, step, snap, fileVars, cache, work, published, faults>>

GoesOn ==
    \/ StartCycle \/ Marks \/ Resumes \/ Collect \/ Create \/ Persists \/ Prepare
    \/ StartEvent \/ CommitEvents \/ EventFails \/ EpisodicUpdate
    \/ StartMemory \/ CommitMemory \/ MemoryFails
    \/ EnsureSnapshots \/ CheckBase \/ Conflict \/ Rename \/ Published
    \/ \E c \in Chats : SkipSession(c) \/ ArchiveSession(c) \/ Truncate(c)
    \/ Start

Outside ==
    \/ \E c \in Chats : Receive(c) \/ CommitInput(c) \/ CommitMessage(c)
    \/ LoadBundle
    \/ \E f \in File : Edit(f)
    \/ Crash

LEMMA HardFailLeaves ==
    ASSUME ControlTypes, HardFail
    PROVE  /\ Leaves /\ (pc' = "idle" => mode = "batch")
           /\ UpdateFailed \/ UNCHANGED status
BY AbandonLeaves DEF HardFail

LEMMA StepCases ==
    ASSUME ControlTypes, RunInv, Next
    PROVE  Left \/ GoesOn \/ Outside
<1>s. Leaves => (mode' = "startup" => mode = "startup")
  BY DEF Leaves
<1>1. CASE RecoverNone
  BY <1>1, ProceedLeaves DEF RecoverNone, Left, rowVars
<1>2. CASE RecoverIncomplete
  BY <1>2, <1>s, AbandonLeaves DEF RecoverIncomplete, NoFault, Left, GoesOn, Marks
<1>3. CASE RecoverPublication
  BY <1>3, <1>s, AbandonLeaves DEF RecoverPublication, Left, GoesOn, Resumes, rowVars
<1>4. CASE Skip
  BY <1>4, <1>s, ProceedLeaves DEF Skip, Left, rowVars, RunInv
<1>5. CASE AlreadyRunning
  BY <1>5, <1>s, ProceedLeaves DEF AlreadyRunning, Left, rowVars, RunInv
<1>6. CASE PersistSources
  BY <1>6, <1>s, AbandonLeaves DEF PersistSources, NoFault, Left, GoesOn, Persists
<1>7. CASE PrepareFails
  BY <1>7, <1>s, HardFailLeaves DEF PrepareFails, Left
<1>8. CASE StepError
  BY <1>8, <1>s, HardFailLeaves DEF StepError, Left, Working
<1>9. CASE PublishFails
  BY <1>9, <1>s, AbandonLeaves DEF PublishFails, Left, rowVars
<1>10. CASE Finalize
  BY <1>10, <1>s, ProceedLeaves DEF Finalize, Left
<1>11. CASE ArchivePending
  BY <1>11, <1>s, ProceedLeaves, AbandonLeaves DEF ArchivePending, Left, rowVars
<1>12. CASE FinalizeFails
  BY <1>12, <1>s, HardFailLeaves, AbandonLeaves DEF FinalizeFails, Left
<1> QED
  BY <1>1, <1>2, <1>3, <1>4, <1>5, <1>6, <1>7, <1>8, <1>9, <1>10, <1>11, <1>12
  DEF Next, Executor, GoesOn, Outside

LEMMA MsgFrame ==
    ASSUME Next
    PROVE  \/ UNCHANGED msgVars
           \/ \E c \in Chats : Receive(c) \/ CommitInput(c) \/ CommitMessage(c) \/ Truncate(c)
BY DEF Next, Executor, StartCycle, RecoverNone, RecoverIncomplete, RecoverPublication, Skip,
       Collect, Create, AlreadyRunning, PersistSources, Prepare, PrepareFails, StartEvent,
       CommitEvents, EventFails, EpisodicUpdate, StartMemory, CommitMemory, MemoryFails,
       StepError, EnsureSnapshots, CheckBase, Conflict, Rename, Published, PublishFails,
       SkipSession, ArchiveSession, Finalize, ArchivePending, FinalizeFails, Start, LoadBundle,
       Edit, Crash

LEMMA ProgressFrame ==
    ASSUME Next
    PROVE  UNCHANGED progress \/ CommitEvents \/ CommitMemory
BY DEF Next, Executor, StartCycle, RecoverNone, RecoverIncomplete, RecoverPublication, Skip,
       Collect, Create, AlreadyRunning, PersistSources, Prepare, PrepareFails, StartEvent,
       EventFails, EpisodicUpdate, StartMemory, MemoryFails, StepError, EnsureSnapshots,
       CheckBase, Conflict, Rename, Published, PublishFails, SkipSession, ArchiveSession,
       Truncate, Finalize, ArchivePending, FinalizeFails, Start, LoadBundle, Edit, Crash,
       Receive, CommitInput, CommitMessage

LEMMA RunFrame ==
    ASSUME Next
    PROVE  UNCHANGED run \/ Create
BY DEF Next, Executor, StartCycle, RecoverNone, RecoverIncomplete, RecoverPublication, Skip,
       Collect, AlreadyRunning, PersistSources, Prepare, PrepareFails, StartEvent, CommitEvents,
       EventFails, EpisodicUpdate, StartMemory, CommitMemory, MemoryFails, StepError,
       EnsureSnapshots, CheckBase, Conflict, Rename, Published, PublishFails, SkipSession,
       ArchiveSession, Truncate, Finalize, ArchivePending, FinalizeFails, Start, LoadBundle,
       Edit, Crash, Receive, CommitInput, CommitMessage, rowVars

LEMMA StatusFrame ==
    ASSUME Next
    PROVE  \/ UNCHANGED status \/ Create \/ Finalize
           \/ status' = [status EXCEPT ![run] = "failed"] /\ pc # "idle"
BY DEF Next, Executor, StartCycle, RecoverNone, RecoverIncomplete, RecoverPublication, Skip,
       Collect, AlreadyRunning, PersistSources, Prepare, PrepareFails, StartEvent, CommitEvents,
       EventFails, EpisodicUpdate, StartMemory, CommitMemory, MemoryFails, StepError,
       EnsureSnapshots, CheckBase, Conflict, Rename, Published, PublishFails, SkipSession,
       ArchiveSession, Truncate, ArchivePending, FinalizeFails, Start, LoadBundle, Edit, Crash,
       Receive, CommitInput, CommitMessage, rowVars, HardFail, UpdateFailed

LEMMA SourceFrame ==
    ASSUME Next
    PROVE  UNCHANGED source \/ source' = {} \/ source' = work.plan
BY DEF Next, Executor, StartCycle, RecoverNone, RecoverIncomplete, RecoverPublication, Skip,
       Collect, Create, AlreadyRunning, Prepare, PrepareFails, StartEvent, CommitEvents,
       EventFails, EpisodicUpdate, StartMemory, CommitMemory, MemoryFails, StepError,
       EnsureSnapshots, CheckBase, Conflict, Rename, Published, PublishFails, SkipSession,
       ArchiveSession, Truncate, Finalize, ArchivePending, FinalizeFails, Start, LoadBundle,
       Edit, Crash, Receive, CommitInput, CommitMessage, rowVars, PersistSources

LEMMA StepFrame ==
    ASSUME Next
    PROVE  \/ UNCHANGED step
           \/ Create \/ StartEvent \/ CommitEvents \/ EventFails \/ EpisodicUpdate
           \/ StartMemory \/ CommitMemory \/ MemoryFails
BY DEF Next, Executor, StartCycle, RecoverNone, RecoverIncomplete, RecoverPublication, Skip,
       Collect, AlreadyRunning, PersistSources, Prepare, PrepareFails, StepError,
       EnsureSnapshots, CheckBase, Conflict, Rename, Published, PublishFails, SkipSession,
       ArchiveSession, Truncate, Finalize, ArchivePending, FinalizeFails, Start, LoadBundle,
       Edit, Crash, Receive, CommitInput, CommitMessage, rowVars

LEMMA SnapFrame ==
    ASSUME Next
    PROVE  UNCHANGED snap \/ Create \/ EpisodicUpdate \/ CommitMemory \/ EnsureSnapshots
BY DEF Next, Executor, StartCycle, RecoverNone, RecoverIncomplete, RecoverPublication, Skip,
       Collect, AlreadyRunning, PersistSources, Prepare, PrepareFails, StartEvent, CommitEvents,
       EventFails, StartMemory, MemoryFails, StepError, CheckBase, Conflict, Rename, Published,
       PublishFails, SkipSession, ArchiveSession, Truncate, Finalize, ArchivePending,
       FinalizeFails, Start, LoadBundle, Edit, Crash, Receive, CommitInput, CommitMessage,
       rowVars

LEMMA DiskFrame ==
    ASSUME Next
    PROVE  UNCHANGED disk \/ Rename \/ \E f \in File : Edit(f)
BY DEF Next, Executor, StartCycle, RecoverNone, RecoverIncomplete, RecoverPublication, Skip,
       Collect, Create, AlreadyRunning, PersistSources, Prepare, PrepareFails, StartEvent,
       CommitEvents, EventFails, EpisodicUpdate, StartMemory, CommitMemory, MemoryFails,
       StepError, EnsureSnapshots, CheckBase, Conflict, Published, PublishFails, SkipSession,
       ArchiveSession, Truncate, Finalize, ArchivePending, FinalizeFails, Start, LoadBundle,
       Crash, Receive, CommitInput, CommitMessage, fileVars

LEMMA ArchiveFrame ==
    ASSUME Next
    PROVE  UNCHANGED archive \/ \E c \in Chats : ArchiveSession(c)
BY DEF Next, Executor, StartCycle, RecoverNone, RecoverIncomplete, RecoverPublication, Skip,
       Collect, Create, AlreadyRunning, PersistSources, Prepare, PrepareFails, StartEvent,
       CommitEvents, EventFails, EpisodicUpdate, StartMemory, CommitMemory, MemoryFails,
       StepError, EnsureSnapshots, CheckBase, Conflict, Rename, Published, PublishFails,
       SkipSession, Truncate, Finalize, ArchivePending, FinalizeFails, Start, LoadBundle, Edit,
       Crash, Receive, CommitInput, CommitMessage, fileVars

LEMMA PublishedFrame ==
    ASSUME Next
    PROVE  UNCHANGED published \/ Published
BY DEF Next, Executor, StartCycle, RecoverNone, RecoverIncomplete, RecoverPublication, Skip,
       Collect, Create, AlreadyRunning, PersistSources, Prepare, PrepareFails, StartEvent,
       CommitEvents, EventFails, EpisodicUpdate, StartMemory, CommitMemory, MemoryFails,
       StepError, EnsureSnapshots, CheckBase, Conflict, Rename, PublishFails, SkipSession,
       ArchiveSession, Truncate, Finalize, ArchivePending, FinalizeFails, Start, LoadBundle,
       Edit, Crash, Receive, CommitInput, CommitMessage

LEMMA FaultFrame ==
    ASSUME Next
    PROVE  UNCHANGED faults \/ \E kind \in Kinds : Fault(kind)
BY DEF Next, Executor, StartCycle, RecoverNone, RecoverIncomplete, RecoverPublication, Skip,
       Collect, Create, AlreadyRunning, PersistSources, Prepare, PrepareFails, StartEvent,
       CommitEvents, EventFails, EpisodicUpdate, StartMemory, CommitMemory, MemoryFails,
       StepError, EnsureSnapshots, CheckBase, Conflict, Rename, Published, PublishFails,
       SkipSession, ArchiveSession, Truncate, Finalize, ArchivePending, FinalizeFails, Start,
       LoadBundle, Edit, Crash, Receive, CommitInput, CommitMessage, NoFault, FinishStep, Kinds

-----------------------------------------------------------------------------
(* Types.                                                                   *)

LEMMA FaultStep ==
    ASSUME FaultTypes, NEW kind \in Kinds, Fault(kind)
    PROVE  /\ FaultTypes'
           /\ faults'[kind] = faults[kind] + 1
           /\ \A k \in Kinds \ {kind} : faults'[k] = faults[k]
<1>1. /\ faults["crash"] \in Nat /\ faults["io"] \in Nat /\ faults["db"] \in Nat
      /\ faults["edit"] \in Nat /\ MaxFaults \in Nat
  BY Contents DEF FaultTypes, Kinds
<1>2. faults["crash"] + faults["io"] + faults["db"] + faults["edit"] < MaxFaults
  BY DEF Fault
<1>3. faults[kind] + 1 \in 0..MaxFaults
  BY <1>1, <1>2 DEF Kinds
<1>4. faults' = [faults EXCEPT ![kind] = faults[kind] + 1]
  BY DEF Fault
<1> QED
  BY <1>3, <1>4 DEF FaultTypes

LEMMA FaultTypesStep ==
    ASSUME FaultTypes, Next
    PROVE  FaultTypes' /\ (faults.db # 0 => faults'.db # 0)
<1>1. CASE UNCHANGED faults
  BY <1>1 DEF FaultTypes
<1>2. ASSUME NEW kind \in Kinds, Fault(kind)
      PROVE  FaultTypes' /\ (faults.db # 0 => faults'.db # 0)
  BY <1>2, FaultStep DEF FaultTypes, Kinds
<1> QED
  BY <1>1, <1>2, FaultFrame

LEMMA MsgTypesStep ==
    ASSUME MsgTypes, ControlTypes, WorkTypes, Next
    PROVE  MsgTypes'
<1>c. MaxMsg \in Nat /\ Messages = 1..MaxMsg
  BY Contents DEF Messages
<1>1. CASE UNCHANGED msgVars
  BY <1>1 DEF MsgTypes, msgVars
<1>2. ASSUME NEW c \in Chats, Receive(c)
      PROVE  MsgTypes'
  BY <1>2, <1>c DEF MsgTypes, Receive
<1>3. ASSUME NEW c \in Chats, NEW m \in Messages, AppendMessage(c, m)
      PROVE  committed' \in [Chats -> SUBSET Messages] /\ session' \in [Chats -> Seq(Messages)]
             /\ late' \subseteq Messages
  <2>1. Append(session[c], m) \in Seq(Messages)
    BY <1>3, AppendProperties DEF MsgTypes
  <2> QED
    BY <1>3, <2>1 DEF MsgTypes, AppendMessage
<1>4. ASSUME NEW c \in Chats, CommitInput(c)
      PROVE  MsgTypes'
  <2>1. inbox[c] \in Messages
    BY <1>4, <1>c DEF MsgTypes, CommitInput
  <2> QED
    BY <1>3, <1>4, <1>c, <2>1 DEF MsgTypes, CommitInput
<1>5. ASSUME NEW c \in Chats, CommitMessage(c)
      PROVE  MsgTypes'
  <2>1. clock + 1 \in Messages
    BY <1>5, <1>c DEF MsgTypes, CommitMessage
  <2> QED
    BY <1>3, <1>5, <1>c, <2>1 DEF MsgTypes, CommitMessage
<1>6. ASSUME NEW c \in Chats, Truncate(c)
      PROVE  MsgTypes'
  <2>1. KeepRecent(session[c]) \in Seq(Messages)
    BY KeepRecentProperties DEF MsgTypes
  <2>2. session' = session \/ session' = [session EXCEPT ![c] = KeepRecent(session[c])]
    BY <1>6 DEF Truncate
  <2>3. session' \in [Chats -> Seq(Messages)]
    BY <2>1, <2>2 DEF MsgTypes
  <2> QED
    BY <1>6, <2>3 DEF MsgTypes, Truncate
<1> QED
  BY <1>1, <1>2, <1>4, <1>5, <1>6, MsgFrame

LEMMA ProgressTypesStep ==
    ASSUME ProgressTypes, MsgTypes, RunInv, RowTypes, ControlTypes, WorkTypes, Next
    PROVE  ProgressTypes'
<1>c. MaxMsg \in Nat /\ MaxRuns \in Nat
  BY Contents
<1>1. CASE UNCHANGED progress
  BY <1>1 DEF ProgressTypes, progress
<1>2. ASSUME NEW s \in Readers, CommitCheckpoints(s)
      PROVE  seen' \in [Readers -> [Messages -> Nat]] /\ ckpt' \in [Readers -> [Chats -> 0..MaxMsg]]
  <2>1. work.upto \in [Chats -> 0..MaxMsg]
    BY DEF WorkTypes, Works
  <2>2. [c \in Chats |-> IF work.upto[c] # 0 THEN work.upto[c] ELSE ckpt[s][c]] \in [Chats -> 0..MaxMsg]
    BY <2>1 DEF ProgressTypes
  <2>3. [m \in Messages |-> IF m \in work.batch THEN seen[s][m] + 1 ELSE seen[s][m]] \in [Messages -> Nat]
    BY DEF ProgressTypes
  <2> QED
    BY <1>2, <2>2, <2>3 DEF ProgressTypes, CommitCheckpoints
<1>3. CASE CommitEvents
  <2>1. events < run /\ run \in 0..MaxRuns
    BY <1>3 DEF CommitEvents, RunInv, RowTypes, Early
  <2>2. events' \in 0..MaxRuns /\ sem' \in 0..events'
    BY <1>3, <2>1, <1>c DEF CommitEvents, ProgressTypes
  <2> QED
    BY <1>2, <1>3, <2>2 DEF CommitEvents, ProgressTypes, Readers
<1>4. CASE CommitMemory
  <2>1. work.events <= events /\ work.events \in 0..MaxRuns
    BY <1>4 DEF CommitMemory, RunInv, WorkTypes, Works
  <2>2. events' \in 0..MaxRuns /\ sem' \in 0..events'
    BY <1>4, <2>1, <1>c DEF CommitMemory, ProgressTypes
  <2> QED
    BY <1>2, <1>4, <2>2 DEF CommitMemory, ProgressTypes, Readers
<1> QED
  BY <1>1, <1>3, <1>4, ProgressFrame

LEMMA LeftFacts ==
    ASSUME FaultTypes, Left
    PROVE  /\ pc' \in {"idle", "collect", "down"} /\ (pc' = "collect" => mode' = "batch")
           /\ mode' \in Modes /\ tries' \in 0..MaxAttempts /\ work' = NoWork
           /\ cache' \in {cache, NoCache}
           /\ UNCHANGED <<msgVars, progress, run, step, source, snap, disk, archive, published>>
BY DEF Left, Leaves, fileVars

LEMMA RowTypesStep ==
    ASSUME RowTypes, RunInv, WorkTypes, Next
    PROVE  RowTypes'
<1>c. MaxRuns \in Nat /\ MaxRuns > 0
  BY Contents
<1>1. run' \in 0..MaxRuns /\ run' >= run
  BY RunFrame, <1>c DEF RowTypes, RunInv, Create
<1>2. published' \subseteq 1..run'
  <2>1. CASE UNCHANGED published
    BY <1>1, <2>1, <1>c DEF RowTypes
  <2>2. CASE Published
    <3>1. run # 0 /\ run \in Nat /\ run' = run
      BY <2>2, <1>c DEF Published, RunInv, Running, Publishing, RowTypes, rowVars
    <3>2. published' = published \/ published' = published \cup {run}
      BY <2>2 DEF Published
    <3>3. run \in 1..run' /\ published \subseteq 1..run'
      BY <3>1 DEF RowTypes
    <3> QED
      BY <3>2, <3>3
  <2> QED
    BY <2>1, <2>2, PublishedFrame
<1>3. status' \in [Runs -> Statuses]
  <2>1. DerivedStatus \in Statuses
    BY DEF DerivedStatus, Statuses
  <2>2. \/ status' = status \/ \E r, x : status' = [status EXCEPT ![r] = x] /\ x \in Statuses
    BY StatusFrame, <2>1 DEF Create, Finalize, Statuses
  <2> QED
    BY <2>2 DEF RowTypes
<1>4. step' \in [Steps -> StepStates]
  <2>1. \A s \in Steps, x \in StepStates : [step EXCEPT ![s] = x] \in [Steps -> StepStates]
    BY DEF RowTypes
  <2>2. [s \in Steps |-> "pending"] \in [Steps -> StepStates]
    BY DEF StepStates
  <2>3. ASSUME NEW s \in Steps, NEW x \in StepStates, FinishStep(s, x)
        PROVE  step' \in [Steps -> StepStates]
    BY <2>1, <2>3 DEF FinishStep, StepStates
  <2>4. CASE UNCHANGED step
    BY <2>4 DEF RowTypes
  <2>5. CASE Create
    BY <2>5, <2>2 DEF Create
  <2>6. CASE StartEvent \/ CommitEvents \/ EventFails
    BY <2>6, <2>1, <2>3 DEF StartEvent, CommitEvents, EventFails, Steps, StepStates
  <2>7. CASE EpisodicUpdate
    BY <2>7, <2>1, <2>3 DEF EpisodicUpdate, Steps, StepStates
  <2>8. CASE StartMemory \/ CommitMemory \/ MemoryFails
    BY <2>8, <2>1 DEF StartMemory, CommitMemory, MemoryFails, Steps, StepStates
  <2> QED
    BY <2>4, <2>5, <2>6, <2>7, <2>8, StepFrame
<1>5. source' \subseteq Chats
  <2>1. work.plan \subseteq Chats
    BY DEF WorkTypes, Works
  <2> QED
    BY <2>1, SourceFrame DEF RowTypes
<1> QED
  BY <1>1, <1>2, <1>3, <1>4, <1>5 DEF RowTypes

LEMMA SnapTypesStep ==
    ASSUME SnapTypes, RowTypes, RunInv, WorkTypes, Next
    PROVE  SnapTypes'
<1>1. run \in Content /\ \A f \in File : work.base[f] \in Content
  BY Contents DEF RowTypes, WorkTypes, Works, Bundle
<1>2. \A x, y \in Content : [before |-> x, after |-> y] \in Side
  BY DEF Side
<1> HIDE DEF Side
<1>3. CASE UNCHANGED snap
  BY <1>3 DEF SnapTypes
<1>4. CASE Create
  BY <1>4 DEF Create, SnapTypes, NoSnap, File
<1>5. CASE EpisodicUpdate
  <2>1. [before |-> work.base["episodic"], after |-> run] \in Side
    BY <1>1, <1>2 DEF File
  <2> QED
    BY <1>5, <2>1 DEF EpisodicUpdate, SnapTypes
<1>6. CASE CommitMemory
  <2>1. \A f \in File : [before |-> work.base[f], after |-> run] \in Side
    BY <1>1, <1>2
  <2> QED
    BY <1>6, <2>1 DEF CommitMemory, SnapTypes
<1>7. CASE EnsureSnapshots
  <2>1. \A f \in File : [before |-> work.base[f], after |-> work.base[f]] \in Side
    BY <1>1, <1>2
  <2> QED
    BY <1>7, <2>1 DEF EnsureSnapshots, SnapTypes
<1> QED
  BY <1>3, <1>4, <1>5, <1>6, <1>7, SnapFrame

(* A snapshot is there when its first side is. *)
LEMMA Sides ==
    ASSUME SnapTypes, NEW f \in File
    PROVE  /\ snap[f].before \in Content \cup {Absent} /\ snap[f].after \in Content \cup {Absent}
           /\ snap[f].before # Absent => snap[f].after \in Content
           /\ snap[f].before = Absent => snap[f].after = Absent
<1>1. snap[f] \in Side \/ snap[f] = NoSnap["episodic"]
  BY DEF SnapTypes
<1>2. NoSnap["episodic"].before = Absent /\ NoSnap["episodic"].after = Absent
  BY DEF NoSnap, File
<1> QED
  BY <1>1, <1>2, Contents DEF Side

LEMMA FileTypesStep ==
    ASSUME FileTypes, SnapTypes, MsgTypes, FaultTypes, ControlTypes, RowTypes, RunInv, WorkTypes, Next
    PROVE  FileTypes'
<1>1. disk' \in Bundle
  <2>1. CASE UNCHANGED disk
    BY <2>1 DEF FileTypes
  <2>2. CASE Rename
    <3>1. \A f \in File : snap[f].after \in Content
      BY <2>2, Sides DEF Rename, RunInv, Publishing, SnapComplete
    <3> QED
      BY <2>2, <3>1 DEF Rename, FileTypes, Bundle
  <2>3. ASSUME NEW f \in File, Edit(f)
        PROVE  disk' \in Bundle
    <3>1. faults'.edit \in 0..MaxFaults
      BY <2>3, FaultTypesStep DEF FaultTypes, Kinds
    <3>2. MaxRuns + faults'.edit \in Content
      BY <3>1, SleepAssumption DEF Content
    <3> QED
      BY <2>3, <3>2 DEF Edit, FileTypes, Bundle
  <2> QED
    BY <2>1, <2>2, <2>3, DiskFrame
<1>2. archive' \in [Runs -> [Chats -> SUBSET Messages]]
  <2>1. CASE UNCHANGED archive
    BY <2>1 DEF FileTypes
  <2>2. ASSUME NEW c \in Chats, ArchiveSession(c)
        PROVE  archive' \in [Runs -> [Chats -> SUBSET Messages]]
    <3>1. Range(session[c]) \subseteq Messages
      BY ElementOfSeq DEF Range, MsgTypes
    <3> DEFINE R == Range(session[c])
    <3>2. archive' = archive \/ archive' = [archive EXCEPT ![run] = [archive[run] EXCEPT ![c] = R]]
      BY <2>2 DEF ArchiveSession
    <3>3. R \in SUBSET Messages
      BY <3>1
    <3> HIDE DEF R
    <3> QED
      BY <3>2, <3>3 DEF FileTypes
  <2> QED
    BY <2>1, <2>2, ArchiveFrame
<1>3. cache' \in Bundle \cup {NoCache}
  <2>1. CASE Published
    <3>1. \A f \in File : snap[f].after \in Content
      BY <2>1, Sides DEF Published, RunInv, Publishing, SnapComplete
    <3> QED
      BY <2>1, <3>1 DEF Published, Bundle
  <2>2. CASE ~Published
    <3>1. cache' \in {cache, disk, NoCache}
      BY <2>2, StepCases, LeftFacts DEF GoesOn, Outside, StartCycle, Marks, Resumes, Collect,
         Create, Persists, Prepare, StartEvent, CommitEvents, EventFails, EpisodicUpdate, StartMemory,
         CommitMemory, MemoryFails, EnsureSnapshots, CheckBase, Conflict, Rename, SkipSession,
         ArchiveSession, Truncate, Start, Receive, CommitInput, CommitMessage, LoadBundle, Edit, Crash
    <3> QED
      BY <3>1 DEF FileTypes
  <2> QED
    BY <2>1, <2>2
<1> QED
  BY <1>1, <1>2, <1>3 DEF FileTypes

LEMMA ControlTypesStep ==
    ASSUME ControlTypes, FaultTypes, RunInv, Next
    PROVE  ControlTypes'
<1>c. MaxAttempts \in Nat /\ MaxAttempts > 0
  BY SleepAssumption
<1>1. CASE Left
  BY <1>1, LeftFacts DEF ControlTypes, Points
<1>2. CASE GoesOn
  <2>1. CASE Conflict
    BY <2>1, <1>c DEF ControlTypes, Points, Conflict
  <2>2. CASE StartCycle
    BY <2>2, <1>c DEF ControlTypes, Points, StartCycle, Modes
  <2>3. CASE ~Conflict /\ ~StartCycle
    <3>1. pc' \in Points /\ UNCHANGED <<mode, tries>>
      BY <1>2, <2>3 DEF ControlTypes, GoesOn, Marks, Resumes, Collect, Create, Persists,
         Prepare, StartEvent, CommitEvents, EventFails, EpisodicUpdate, StartMemory,
         CommitMemory, MemoryFails, EnsureSnapshots, CheckBase, Rename, Published,
         SkipSession, ArchiveSession, Truncate, Start, GoTo, Points, control
    <3> QED
      BY <3>1 DEF ControlTypes
  <2> QED
    BY <2>1, <2>2, <2>3
<1>3. CASE Outside
  BY <1>3, <1>c DEF ControlTypes, Outside, Receive, CommitInput, CommitMessage, LoadBundle, Edit,
     Crash, Points, Modes, control
<1> QED
  BY <1>1, <1>2, <1>3, StepCases

LEMMA InputFacts ==
    ASSUME MsgTypes, ProgressTypes, WorkTypes, NEW s \in Readers
    PROVE  /\ TakeInput(s) \in Works
           /\ TakeInput(s).plan = work.plan /\ TakeInput(s).base = work.base
           /\ TakeInput(s).batch = UNION {NewMessages(s, c) : c \in Chats}
           /\ \A c \in Chats :
                TakeInput(s).upto[c] = IF NewMessages(s, c) = {} THEN 0 ELSE Latest(c)
           /\ TakeInput(s).events = events
<1> DEFINE b == UNION {NewMessages(s, c) : c \in Chats}
           u == [c \in Chats |-> IF NewMessages(s, c) = {} THEN 0 ELSE Latest(c)]
<1>1. b \in SUBSET Messages
  BY DEF NewMessages, MsgTypes
<1>2. u \in [Chats -> 0..MaxMsg]
  BY LatestProperties, Contents
<1>3. events \in 0..MaxRuns
  BY DEF ProgressTypes
<1>4. TakeInput(s) = [work EXCEPT !.batch = b, !.upto = u, !.events = events]
  BY DEF TakeInput
<1>5. \A c \in Chats : u[c] = IF NewMessages(s, c) = {} THEN 0 ELSE Latest(c)
  OBVIOUS
<1> HIDE DEF b, u
<1>6. /\ TakeInput(s) \in Works /\ TakeInput(s).plan = work.plan /\ TakeInput(s).base = work.base
      /\ TakeInput(s).batch = b /\ TakeInput(s).upto = u /\ TakeInput(s).events = events
  BY <1>1, <1>2, <1>3, <1>4 DEF WorkTypes, Works
<1> QED
  BY <1>5, <1>6 DEF b

LEMMA DropFacts ==
    ASSUME WorkTypes
    PROVE  /\ DropInput \in Works /\ DropInput.plan = work.plan /\ DropInput.base = work.base
<1>1. [c \in Chats |-> 0] \in [Chats -> 0..MaxMsg] /\ 0 \in 0..MaxRuns
  BY Contents
<1> QED
  BY <1>1 DEF DropInput, WorkTypes, Works

(* What the remaining actions do to the memory of the attempt. *)
LEMMA WorkFacts ==
    ASSUME WorkTypes
    PROVE  /\ \A f \in File : Edit(f) =>
                /\ work' \in Works /\ work'.plan = work.plan /\ work'.base = work.base
                /\ work'.upto = work.upto /\ work'.batch = work.batch /\ work'.events = work.events
                /\ work'.next = work.next /\ work'.todo = work.todo /\ work'.loaded = work.loaded
                /\ work'.touched = IF pc = "rename" THEN work.touched \cup {f} ELSE work.touched
           /\ Rename =>
                /\ work' \in Works /\ work'.next = work.next + 1 /\ work'.touched = work.touched
           /\ \A c \in Chats : SkipSession(c) => work' \in Works
<1>1. ASSUME NEW f \in File, Edit(f)
      PROVE  /\ work' \in Works /\ work'.plan = work.plan /\ work'.base = work.base
             /\ work'.upto = work.upto /\ work'.batch = work.batch /\ work'.events = work.events
             /\ work'.next = work.next /\ work'.todo = work.todo /\ work'.loaded = work.loaded
             /\ work'.touched = IF pc = "rename" THEN work.touched \cup {f} ELSE work.touched
  BY <1>1 DEF Edit, WorkTypes, Works
<1>2. ASSUME Rename
      PROVE  /\ work' \in Works /\ work'.next = work.next + 1 /\ work'.touched = work.touched
  <2>1. work.next \in 1..(Len(Files) + 1) /\ Len(Files) \in Nat
    BY FilesFacts DEF WorkTypes, Works
  <2>2. work.next <= Len(Files) /\ work' = [work EXCEPT !.next = work.next + 1]
    BY <1>2 DEF Rename
  <2>3. work.next + 1 \in 1..(Len(Files) + 1)
    BY <2>1, <2>2
  <2> QED
    BY <2>2, <2>3 DEF WorkTypes, Works
<1>3. ASSUME NEW c \in Chats, SkipSession(c)
      PROVE  work' \in Works
  BY <1>3 DEF SkipSession, WorkTypes, Works
<1> QED
  BY <1>1, <1>2, <1>3

LEMMA ArchiveFacts ==
    ASSUME WorkTypes, MsgTypes, NEW c \in Chats
    PROVE  /\ ArchiveSession(c) =>
                /\ work' \in Works
                /\ pc' = "truncate" => work'.plan = {c} /\ work'.loaded = session[c]
           /\ Truncate(c) => work' \in Works
<1>1. session[c] \in Seq(Messages) /\ {c} \in SUBSET Chats
  BY DEF MsgTypes
<1>2. ASSUME ArchiveSession(c)
      PROVE  /\ work' \in Works
             /\ pc' = "truncate" => work'.plan = {c} /\ work'.loaded = session[c]
  BY <1>1, <1>2 DEF ArchiveSession, WorkTypes, Works, GoTo
<1>3. <<>> \in Seq(Messages)
  OBVIOUS
<1>4. ASSUME Truncate(c)
      PROVE  work' \in Works
  <2> DEFINE cut == [work EXCEPT !.todo = work.todo \ {c}, !.plan = {}, !.loaded = <<>>]
  <2>1. \/ work' = cut
        \/ work' = [cut EXCEPT !.pending = TRUE]
    BY <1>4 DEF Truncate
  <2>2. cut \in Works
    BY <1>3 DEF WorkTypes, Works
  <2>3. [cut EXCEPT !.pending = TRUE] \in Works
    <3> HIDE DEF cut
    <3> QED
      BY <2>2 DEF Works
  <2> QED
    BY <2>1, <2>2, <2>3
<1> QED
  BY <1>2, <1>4

LEMMA FreshWork ==
    /\ \A P \in SUBSET Chats : LET w == [NoWork EXCEPT !.plan = P]
                               IN  w \in Works /\ w.plan = P
    /\ \A P \in SUBSET Chats : [NoWork EXCEPT !.todo = P] \in Works
<1>1. NoWork \in Works
  BY NoWorkFields
<1> HIDE DEF NoWork
<1> QED
  BY <1>1 DEF Works

LEMMA WorkTypesStep ==
    ASSUME WorkTypes, MsgTypes, ProgressTypes, RowTypes, FileTypes, FaultTypes, ControlTypes, RunInv, Next
    PROVE  WorkTypes'
<1>1. CASE Left
  BY <1>1, LeftFacts, NoWorkFields DEF WorkTypes
<1>2. CASE GoesOn
  <2>1. CASE Collect
    BY <2>1, FreshWork DEF Collect, WorkTypes, SourceSessions
  <2>2. CASE Prepare
    <3>1. cache' \in Bundle
      BY <2>2 DEF Prepare, FileTypes
    <3> QED
      BY <2>2, <3>1 DEF Prepare, WorkTypes, Works
  <2>3. CASE StartEvent \/ StartMemory
    BY <2>3, InputFacts DEF StartEvent, StartMemory, WorkTypes, Readers
  <2>4. CASE CommitEvents \/ EventFails \/ CommitMemory \/ MemoryFails
    BY <2>4, DropFacts DEF CommitEvents, EventFails, CommitMemory, MemoryFails, WorkTypes
  <2>5. CASE Rename
    BY <2>5, WorkFacts DEF WorkTypes
  <2>6. CASE Published
    BY <2>6, FreshWork DEF Published, RowTypes, WorkTypes
  <2>7. ASSUME NEW c \in Chats, SkipSession(c) \/ ArchiveSession(c) \/ Truncate(c)
        PROVE  WorkTypes'
    BY <2>7, WorkFacts, ArchiveFacts DEF WorkTypes
  <2>8. CASE StartCycle \/ Resumes \/ EnsureSnapshots \/ Conflict
    BY <2>8, NoWorkFields DEF StartCycle, Resumes, EnsureSnapshots, Conflict, WorkTypes
  <2>9. CASE Marks \/ Create \/ Persists \/ EpisodicUpdate \/ CheckBase \/ Start
    BY <2>9 DEF Marks, Create, Persists, EpisodicUpdate, CheckBase, Start, WorkTypes, control
  <2> QED
    BY <1>2, <2>1, <2>2, <2>3, <2>4, <2>5, <2>6, <2>7, <2>8, <2>9 DEF GoesOn
<1>3. CASE Outside
  <2>1. ASSUME NEW f \in File, Edit(f)
        PROVE  WorkTypes'
    BY <2>1, WorkFacts DEF WorkTypes
  <2>2. CASE Crash
    BY <2>2, NoWorkFields DEF Crash, WorkTypes
  <2>3. CASE LoadBundle \/ \E c \in Chats : Receive(c) \/ CommitInput(c) \/ CommitMessage(c)
    BY <2>3 DEF LoadBundle, Receive, CommitInput, CommitMessage, WorkTypes, control
  <2> QED
    BY <1>3, <2>1, <2>2, <2>3 DEF Outside
<1> QED
  BY <1>1, <1>2, <1>3, StepCases

LEMMA RunInvStep ==
    ASSUME TypeInv, Next
    PROVE  RunInv'
<1> USE DEF RunInv, Early, Working, Publishing
<1>t. /\ events \in Nat /\ run \in Nat /\ run <= MaxRuns /\ MaxRuns \in Nat /\ Runs = 1..MaxRuns
      /\ status \in [Runs -> Statuses] /\ work.events \in Nat
  BY Contents DEF TypeInv, ProgressTypes, RowTypes, WorkTypes, Works, Runs
<1>r. RunInv /\ ControlTypes /\ FaultTypes /\ WorkTypes /\ SnapTypes
  BY DEF TypeInv
<1>1. CASE Left
  BY <1>1, <1>r, LeftFacts DEF progress
<1>2. CASE GoesOn
  <2>1. CASE StartCycle
    BY <2>1, <1>r DEF StartCycle, progress, rowVars
  <2>2. CASE Marks
    BY <2>2, <1>r DEF Marks, progress, control
  <2>3. CASE Resumes
    BY <2>3, <1>r DEF Resumes, GoTo, progress, rowVars, Running, SnapComplete
  <2>4. CASE Collect
    BY <2>4, <1>r DEF Collect, GoTo, progress, rowVars
  <2>5. CASE Create
    <3>1. run' \in Runs /\ status'[run'] = "running" /\ run' # 0
      BY <2>5, <1>r, <1>t DEF Create
    <3> QED
      BY <2>5, <3>1, <1>r, <1>t DEF Create, GoTo, progress, Running
  <2>6. CASE Persists
    BY <2>6, <1>r DEF Persists, GoTo, progress, Running
  <2>7. CASE Prepare
    BY <2>7, <1>r DEF Prepare, GoTo, progress, rowVars, Running
  <2>8. CASE StartEvent
    BY <2>8, <1>r DEF StartEvent, GoTo, progress, Running
  <2>9. CASE CommitEvents
    BY <2>9, <1>r, <1>t DEF CommitEvents, GoTo, Running
  <2>10. CASE EventFails
    BY <2>10, <1>r DEF EventFails, GoTo, progress, Running
  <2>11. CASE EpisodicUpdate
    BY <2>11, <1>r DEF EpisodicUpdate, GoTo, progress, Running
  <2>12. CASE StartMemory
    <3>1. pc' = "memoryReply" => work'.events = events
      BY <2>12, InputFacts DEF StartMemory, GoTo, TypeInv, Readers
    <3> QED
      BY <2>12, <1>r, <1>t, <3>1 DEF StartMemory, GoTo, progress, Running
  <2>13. CASE CommitMemory
    BY <2>13, <1>r DEF CommitMemory, GoTo, Running
  <2>14. CASE MemoryFails
    BY <2>14, <1>r DEF MemoryFails, GoTo, progress, Running
  <2>15. CASE EnsureSnapshots
    <3>1. SnapComplete'
      <4>1. \A f \in File : work.base[f] # Absent
        BY Contents, <1>r DEF WorkTypes, Works, Bundle
      <4> QED
        BY <2>15, <4>1 DEF EnsureSnapshots, SnapComplete
    <3> QED
      BY <2>15, <3>1, <1>r DEF EnsureSnapshots, GoTo, progress, Running
  <2>16. CASE CheckBase
    BY <2>16, <1>r DEF CheckBase, GoTo, progress, rowVars, Running, SnapComplete
  <2>17. CASE Conflict
    BY <2>17, <1>r DEF Conflict, progress, rowVars
  <2>18. CASE Rename
    BY <2>18, <1>r DEF Rename, progress, rowVars, Running, SnapComplete
  <2>19. CASE Published
    BY <2>19, <1>r DEF Published, GoTo, progress, rowVars, Running, SnapComplete
  <2>20. ASSUME NEW c \in Chats, SkipSession(c) \/ ArchiveSession(c) \/ Truncate(c)
         PROVE  RunInv'
    BY <2>20, <1>r DEF SkipSession, ArchiveSession, Truncate, GoTo, progress, rowVars, Running, SnapComplete
  <2>21. CASE Start
    BY <2>21, <1>r DEF Start, GoTo, progress, rowVars
  <2> QED
    BY <1>2, <2>1, <2>2, <2>3, <2>4, <2>5, <2>6, <2>7, <2>8, <2>9, <2>10, <2>11, <2>12, <2>13,
       <2>14, <2>15, <2>16, <2>17, <2>18, <2>19, <2>20, <2>21 DEF GoesOn
<1>3. CASE Outside
  <2>1. ASSUME NEW f \in File, Edit(f)
        PROVE  RunInv'
    BY <2>1, <1>r, WorkFacts DEF Edit, progress, rowVars, Running, SnapComplete
  <2>2. CASE Crash
    BY <2>2, <1>r DEF Crash, progress, rowVars
  <2>3. CASE LoadBundle \/ \E c \in Chats : Receive(c) \/ CommitInput(c) \/ CommitMessage(c)
    BY <2>3, <1>r DEF LoadBundle, Receive, CommitInput, CommitMessage, progress, rowVars, control, Running,
       SnapComplete
  <2> QED
    BY <1>3, <2>1, <2>2, <2>3 DEF Outside
<1> QED
  BY <1>1, <1>2, <1>3, <1>r, StepCases

LEMMA TypeStep ==
    ASSUME TypeInv, [Next]_vars
    PROVE  TypeInv'
<1>1. CASE Next
  BY <1>1, MsgTypesStep, ProgressTypesStep, RowTypesStep, SnapTypesStep, FileTypesStep,
     ControlTypesStep, FaultTypesStep, WorkTypesStep, RunInvStep DEF TypeInv
<1>2. CASE UNCHANGED vars
  BY <1>2 DEF vars, msgVars, progress, rowVars, fileVars, control, TypeInv, MsgTypes, ProgressTypes,
     RowTypes, SnapTypes, FileTypes, ControlTypes, FaultTypes, WorkTypes, RunInv, Running, SnapComplete
<1> QED
  BY <1>1, <1>2

LEMMA TypeInit ==
    ASSUME Init
    PROVE  TypeInv
<1>c. /\ MaxMsg \in Nat /\ MaxRuns \in Nat /\ MaxAttempts \in Nat /\ MaxFaults \in Nat
      /\ Installed \in Bundle
  BY Contents
<1>1. MsgTypes /\ ProgressTypes
  BY <1>c DEF Init, MsgTypes, ProgressTypes
<1>2. RowTypes /\ FaultTypes /\ ControlTypes
  BY <1>c DEF Init, RowTypes, FaultTypes, ControlTypes, NoFaults, Kinds, Statuses, StepStates, Points, Modes
<1>3. SnapTypes
  BY DEF Init, SnapTypes, NoSnap, File
<1>4. FileTypes /\ WorkTypes
  BY <1>c, NoWorkFields DEF Init, FileTypes, WorkTypes
<1>5. RunInv
  BY <1>c DEF Init, RunInv, Early, Working, Publishing
<1> QED
  BY <1>1, <1>2, <1>3, <1>4, <1>5 DEF TypeInv

-----------------------------------------------------------------------------
(* The snapshots and the steps of the newest run.                           *)

LEMMA DbFault ==
    ASSUME FaultTypes
    PROVE  /\ Fault("db") => faults'.db # 0
           /\ Next /\ faults'.db = 0 => faults.db = 0
<1>1. Fault("db") => faults'["db"] = faults["db"] + 1
  BY FaultStep DEF Kinds
<1>2. faults["db"] \in Nat
  BY DEF FaultTypes, Kinds
<1> QED
  BY <1>1, <1>2, FaultTypesStep

(* A step that leaves the snapshots, the steps and the published runs alone. *)
LEMMA SnapUntouched ==
    ASSUME TypeInv, SnapInv, Next, UNCHANGED <<snap, step, published, run>>,
           pc' = pc \/ pc' \notin Early \cup Working
    PROVE  SnapInv'
<1>1. faults'.db = 0 => faults.db = 0
  BY DbFault DEF TypeInv
<1>2. faults'.db = 0 => StepsDone'
  BY <1>1 DEF SnapInv, StepsDone, SnapComplete, Working
<1> QED
  BY <1>2 DEF SnapInv, Changed, SnapComplete, Early, Working

LEMMA SnapStep ==
    ASSUME TypeInv, SnapInv, Next
    PROVE  SnapInv'
<1>t. /\ SnapTypes /\ FaultTypes /\ ControlTypes /\ RunInv /\ RowTypes /\ WorkTypes
      /\ step \in [Steps -> StepStates]
  BY DEF TypeInv, RowTypes
<1>f. (Fault("db") => faults'.db # 0) /\ (faults'.db = 0 => faults.db = 0)
  BY <1>t, DbFault
<1>s. \A f \in File : snap[f].before = Absent => snap[f].after = Absent
  BY <1>t, Sides
<1>n. "episodic" \in File /\ "semantic" \in File
  BY DEF File
<1>1. CASE Left
  <2>1. pc' \notin Early \cup Working
    BY <1>1, <1>t, LeftFacts DEF Early, Working
  <2> QED
    BY <1>1, <2>1, <1>t, LeftFacts, SnapUntouched
<1>2. CASE GoesOn
  <2>1. CASE \/ StartCycle \/ Marks \/ Resumes \/ Collect \/ CheckBase \/ Conflict \/ Rename \/ Start
             \/ \E c \in Chats : SkipSession(c) \/ ArchiveSession(c) \/ Truncate(c)
    <3>1. UNCHANGED <<snap, step, published, run>> /\ (pc' = pc \/ pc' \notin Early \cup Working)
      BY <2>1 DEF StartCycle, Marks, Resumes, Collect, CheckBase, Conflict, Rename, Start, SkipSession,
         ArchiveSession, Truncate, GoTo, rowVars, control, Early, Working
    <3> QED
      BY <3>1, SnapUntouched
  <2>2. CASE Create
    <3>1. \A f \in File : snap'[f].before = Absent /\ snap'[f].after = Absent
      BY <2>2 DEF Create, NoSnap
    <3>2. run' \notin published'
      BY <2>2, Contents, <1>t DEF Create, RowTypes
    <3> QED
      BY <2>2, <3>1, <3>2, <1>n DEF Create, GoTo, SnapInv, StepsDone, SnapComplete
  <2>3. CASE Persists \/ Prepare
    <3>1. UNCHANGED <<snap, step, published, run, faults>> /\ pc \in Early /\ pc' \in Early \cup {"event"}
      BY <2>3 DEF Persists, Prepare, GoTo, rowVars, Early
    <3> QED
      BY <3>1, <1>n DEF SnapInv, StepsDone, SnapComplete, Changed, Early
  <2>4. CASE StartEvent \/ CommitEvents \/ EventFails
    <3>1. /\ UNCHANGED <<snap, published, run>> /\ pc \in {"event", "eventReply"}
          /\ pc' \in {"eventReply", "episodic"}
          /\ \A s \in Steps \ {"event"} : step'[s] = step[s]
          /\ pc' = "episodic" => step'["event"] \in Done \/ Fault("db")
      BY <2>4, <1>t DEF StartEvent, CommitEvents, EventFails, FinishStep, GoTo, Steps, Done
    <3>2. \A f \in File : snap[f].before = Absent /\ snap[f].after = Absent
      BY <3>1, <1>s DEF SnapInv
    <3>3. ~SnapComplete'
      BY <3>1, <3>2, <1>n DEF SnapComplete
    <3> QED
      BY <3>1, <3>2, <3>3, <1>f DEF SnapInv, StepsDone, Early, SnapComplete
  <2>5. CASE EpisodicUpdate
    <3>1. /\ UNCHANGED <<published, run>> /\ pc = "episodic" /\ pc' = "memory"
          /\ \A s \in Steps \ {"episodic"} : step'[s] = step[s]
          /\ \A f \in File \ {"episodic"} : snap'[f] = snap[f]
          /\ snap' = snap \/ step'["episodic"] = "success"
          /\ step'["episodic"] \in Done \/ Fault("db")
      BY <2>5, <1>t DEF EpisodicUpdate, FinishStep, GoTo, Steps, Done, SnapTypes
    <3>2. \A f \in File : snap[f].before = Absent /\ snap[f].after = Absent
      BY <3>1, <1>s DEF SnapInv
    <3>3. ~SnapComplete' /\ ~SnapComplete
      BY <3>1, <3>2 DEF SnapComplete, File
    <3>4. faults'.db = 0 => step["event"] \in Done /\ step'["event"] = step["event"]
      BY <3>1, <1>f DEF SnapInv, StepsDone, Steps
    <3> QED
      BY <3>1, <3>2, <3>3, <3>4, <1>f DEF SnapInv, StepsDone, Early, StepOf
  <2>6. CASE StartMemory \/ MemoryFails
    <3>1. /\ UNCHANGED <<snap, published, run, faults>> /\ pc \in {"memory", "memoryReply"}
          /\ pc' \in {"memoryReply", "ensure"}
          /\ \A s \in Steps \ {"memory"} : step'[s] = step[s]
          /\ pc' = "ensure" => step'["memory"] \in Done
      BY <2>6, <1>t DEF StartMemory, MemoryFails, GoTo, Steps, Done
    <3>2. \A f \in File \ {"episodic"} : snap[f].before = Absent /\ snap[f].after = Absent
      BY <3>1, <1>s DEF SnapInv
    <3>3. ~SnapComplete' /\ ~SnapComplete
      BY <3>1, <3>2 DEF SnapComplete, File
    <3>4. faults.db = 0 => step'["event"] \in Done /\ step'["episodic"] \in Done
      BY <3>1 DEF SnapInv, StepsDone, Steps
    <3>5. \A f \in File : snap'[f].before # snap'[f].after => step'[StepOf(f)] = "success"
      BY <3>1, <3>2 DEF SnapInv, StepOf, Steps
    <3> QED
      BY <3>1, <3>2, <3>3, <3>4, <3>5 DEF SnapInv, StepsDone, Early
  <2>7. CASE CommitMemory
    <3>1. /\ UNCHANGED <<published, run, faults>> /\ pc = "memoryReply" /\ pc' = "ensure"
          /\ \A s \in Steps \ {"memory"} : step'[s] = step[s]
          /\ step'["memory"] = "success" /\ snap'["episodic"] = snap["episodic"]
      BY <2>7, <1>t, <1>n DEF CommitMemory, GoTo, Steps
    <3>2. ~SnapComplete
      BY <3>1, <1>n DEF SnapInv, SnapComplete
    <3>3. faults.db = 0 => \A s \in Steps : step'[s] \in Done
      BY <3>1 DEF SnapInv, StepsDone, Steps, Done
    <3>4. \A f \in File : snap'[f].before # snap'[f].after => step'[StepOf(f)] = "success"
      BY <3>1, <1>n DEF SnapInv, StepOf, Steps
    <3> QED
      BY <3>1, <3>2, <3>3, <3>4 DEF SnapInv, StepsDone, Early, Steps
  <2>8. CASE EnsureSnapshots
    <3>1. /\ UNCHANGED <<published, run, faults, step>> /\ pc = "ensure" /\ pc' = "check"
      BY <2>8 DEF EnsureSnapshots, GoTo
    <3>2. \A f \in File : snap'[f] = snap[f] \/ snap'[f].before = snap'[f].after
      BY <2>8 DEF EnsureSnapshots
    <3>3. SnapComplete => snap' = snap
      BY <2>8, <1>t DEF EnsureSnapshots, SnapComplete, SnapTypes
    <3>4. faults.db = 0 => \A s \in Steps : step[s] \in Done
      BY <3>1 DEF SnapInv, StepsDone, Steps
    <3>5. \A f \in File : snap'[f].before # snap'[f].after => step'[StepOf(f)] = "success"
      BY <3>1, <3>2 DEF SnapInv
    <3>6. run' \in published' => SnapComplete' /\ Changed'
      BY <3>1, <3>3 DEF SnapInv, SnapComplete, Changed
    <3> QED
      BY <3>1, <3>4, <3>5, <3>6 DEF SnapInv, StepsDone, Early
  <2>9. CASE Published
    <3>1. /\ UNCHANGED <<snap, step, run, faults>> /\ pc = "rename" /\ pc' = "archive"
          /\ published' = IF Changed THEN published \cup {run} ELSE published
      BY <2>9, Zenon DEF Published, GoTo, rowVars, Changed
    <3>2. SnapComplete
      BY <3>1, <1>t DEF RunInv, Publishing
    <3>3. run' \in published' => SnapComplete' /\ Changed'
      BY <3>1, <3>2 DEF SnapInv, SnapComplete, Changed
    <3> QED
      BY <3>1, <3>3 DEF SnapInv, StepsDone, SnapComplete, Early
  <2> QED
    BY <1>2, <2>1, <2>2, <2>3, <2>4, <2>5, <2>6, <2>7, <2>8, <2>9 DEF GoesOn
<1>3. CASE Outside
  <2>1. UNCHANGED <<snap, step, published, run>> /\ (pc' = pc \/ pc' \notin Early \cup Working)
    BY <1>3 DEF Outside, Receive, CommitInput, CommitMessage, LoadBundle, Edit, Crash, rowVars, control,
       Early, Working
  <2> QED
    BY <2>1, SnapUntouched
<1> QED
  BY <1>1, <1>2, <1>3, <1>t, StepCases

-----------------------------------------------------------------------------
(* The memory files and the cache.                                          *)

LEMMA WholeWhenNear ==
    ASSUME NEW d, Near(d, Before) \/ Near(d, After)
    PROVE  Whole(d)
BY DEF Near, Before, After, Whole

LEMMA SidesOfTheRun ==
    ASSUME SnapTypes, SnapComplete
    PROVE  Before \in Bundle /\ After \in Bundle /\ Before # NoCache /\ After # NoCache
BY Sides, Contents DEF SnapComplete, Before, After, Bundle

LEMMA EditNear ==
    ASSUME FileTypes, FaultTypes, NEW f \in File, Edit(f)
    PROVE  /\ disk'[f] > MaxRuns /\ \A g \in File \ {f} : disk'[g] = disk[g]
           /\ \A b : Near(disk, b) => Near(disk', b)
<1>1. faults'["edit"] = faults["edit"] + 1 /\ faults["edit"] \in Nat
  BY FaultStep DEF Edit, Kinds, FaultTypes
<1>2. MaxRuns + faults'.edit > MaxRuns
  BY <1>1, Contents
<1>3. disk'[f] > MaxRuns /\ \A g \in File \ {f} : disk'[g] = disk[g]
  BY <1>2 DEF Edit, FileTypes, Bundle
<1> QED
  BY <1>3 DEF Near

(* A run that ends in this step had its files in order. *)
LEMMA EndsInOrder ==
    ASSUME TypeInv, SnapInv, CacheInv, Left, Running, ~Running', SnapComplete
    PROVE  Near(disk, Before) \/ Near(disk, After)
<1>1. pc \in {"prepare", "archive"} \cup Working
  BY DEF Left, Running
<1>2. pc # "prepare"
  BY DEF SnapInv, Early, SnapComplete, File
<1>3. CASE pc \in Working
  <2>1. cache = work.base /\ \A f \in File : snap[f].before = work.base[f]
    BY <1>3 DEF CacheInv, SnapComplete
  <2>2. cache # NoCache
    BY <2>1, Contents DEF TypeInv, WorkTypes, Works
  <2>3. Near(disk, work.base)
    BY <1>3, <2>1, <2>2 DEF CacheInv
  <2> QED
    BY <2>1, <2>3 DEF Near, Before
<1>4. CASE pc = "archive"
  BY <1>4, SidesOfTheRun DEF CacheInv, TypeInv
<1> QED
  BY <1>1, <1>2, <1>3, <1>4

LEMMA DiskStep ==
    ASSUME TypeInv, TypeInv', SnapInv, CacheInv, DiskInv, Next
    PROVE  DiskInv'
<1>t. SnapTypes /\ FaultTypes /\ ControlTypes /\ RunInv /\ RunInv' /\ FileTypes /\ WorkTypes
  BY DEF TypeInv
<1>u. ASSUME UNCHANGED <<disk, snap>>, Running => Running', pc' # "rename"
      PROVE  DiskInv'
  BY <1>u DEF DiskInv, Near, Before, After, SnapComplete
<1>r. ASSUME Running'
      PROVE  ~(~Running' /\ SnapComplete')
  BY <1>r
<1>1. CASE Left
  <2>1. UNCHANGED <<disk, snap>> /\ pc' # "rename"
    BY <1>1, <1>t, LeftFacts
  <2>2. CASE Running => Running'
    BY <2>1, <2>2, <1>u
  <2>3. CASE Running /\ ~Running'
    <3>1. SnapComplete' => SnapComplete
      BY <2>1 DEF SnapComplete
    <3> QED
      BY <1>1, <2>1, <2>3, <3>1, EndsInOrder DEF DiskInv, Near, Before, After
  <2> QED
    BY <2>2, <2>3
<1>2. CASE GoesOn
  <2>1. CASE StartCycle \/ Collect \/ Start
    <3>1. UNCHANGED <<disk, snap, status, run>> /\ pc' # "rename"
      BY <2>1 DEF StartCycle, Collect, Start, GoTo, rowVars, fileVars
    <3> QED
      BY <3>1, <1>u DEF Running
  <2>2. CASE Marks \/ Create
    <3>1. ~SnapComplete' /\ pc' # "rename"
      BY <2>2 DEF Marks, Create, SnapComplete, NoSnap, File, GoTo, control
    <3> QED
      BY <3>1 DEF DiskInv
  <2>3. CASE \/ Persists \/ Prepare \/ StartEvent \/ CommitEvents \/ EventFails \/ EpisodicUpdate
             \/ StartMemory \/ CommitMemory \/ MemoryFails \/ EnsureSnapshots \/ Published
             \/ \E c \in Chats : SkipSession(c) \/ ArchiveSession(c) \/ Truncate(c)
    <3>1. pc' # "rename" /\ pc' \in Early \cup Working \cup Publishing
      BY <2>3 DEF Persists, Prepare, StartEvent, CommitEvents, EventFails, EpisodicUpdate, StartMemory,
         CommitMemory, MemoryFails, EnsureSnapshots, Published, SkipSession, ArchiveSession, Truncate,
         GoTo, Early, Working, Publishing
    <3>2. Running'
      BY <3>1, <1>t DEF RunInv
    <3> QED
      BY <3>1, <3>2 DEF DiskInv
  <2>4. CASE Conflict
    <3>1. UNCHANGED <<disk, snap, status, run>> /\ pc' # "rename"
      BY <2>4 DEF Conflict, rowVars, fileVars
    <3> QED
      BY <3>1, <1>u DEF Running
  <2>5. CASE Resumes \/ CheckBase
    <3>1. work' = NoWork /\ UNCHANGED <<disk, snap>> /\ pc' = "rename"
          /\ \A f \in File : disk[f] \in {snap[f].before, snap[f].after}
      BY <2>5 DEF Resumes, CheckBase, Classifiable, GoTo, rowVars, fileVars, CacheInv
    <3>2. Running'
      BY <3>1, <1>t DEF RunInv, Publishing
    <3>3. work'.next = 1
      BY <3>1, NoWorkFields
    <3> QED
      BY <3>1, <3>2, <3>3 DEF DiskInv
  <2>6. CASE Rename
    <3>1. /\ pc = "rename" /\ pc' = "rename" /\ UNCHANGED snap
          /\ work.next \in 1..3 /\ work'.next = work.next + 1 /\ work'.touched = work.touched
      BY <2>6, <1>t, WorkFacts, FilesFacts DEF Rename, rowVars, WorkTypes, Works
    <3>2. Running'
      BY <3>1, <1>t DEF RunInv, Publishing
    <3> DEFINE g == Files[work.next]
    <3>3. g \in File /\ disk' = [disk EXCEPT ![g] = snap[g].after]
      BY <2>6, <3>1, FilesFacts DEF Rename, File
    <3>4. disk'[g] = snap[g].after /\ \A f \in File \ {g} : disk'[f] = disk[f]
      BY <3>3, <1>t DEF FileTypes, Bundle
    <3>5. ASSUME NEW i \in 1..3, i < work'.next
          PROVE  disk'[Files[i]] = snap[Files[i]].after \/ disk'[Files[i]] > MaxRuns
      <4>1. i = work.next \/ i < work.next
        BY <3>1, <3>5
      <4>2. Files[i] \in File
        BY <3>5, FilesFacts DEF File
      <4> QED
        BY <3>1, <3>4, <4>1, <4>2 DEF DiskInv
    <3>6. \A f \in File : f \in work'.touched \/ disk'[f] \in {snap[f].before, snap[f].after}
      BY <3>1, <3>4 DEF DiskInv
    <3> QED
      BY <3>1, <3>2, <3>5, <3>6 DEF DiskInv
  <2> QED
    BY <1>2, <2>1, <2>2, <2>3, <2>4, <2>5, <2>6 DEF GoesOn
<1>3. CASE Outside
  <2>1. ASSUME NEW f \in File, Edit(f)
        PROVE  DiskInv'
    <3>1. UNCHANGED <<snap, pc, status, run>>
      BY <2>1 DEF Edit, rowVars
    <3>2. work'.next = work.next /\ (pc = "rename" => work'.touched = work.touched \cup {f})
      BY <2>1, <1>t, WorkFacts
    <3>3. /\ disk'[f] > MaxRuns /\ \A g \in File \ {f} : disk'[g] = disk[g]
          /\ \A b : Near(disk, b) => Near(disk', b)
      BY <2>1, <1>t, EditNear
    <3>4. ~Running' /\ SnapComplete' => Near(disk', Before) \/ Near(disk', After)
      BY <3>1, <3>3 DEF DiskInv, Running, SnapComplete
    <3>5. Before' = Before /\ After' = After
      BY <3>1 DEF Before, After
    <3>6. \A i \in 1..3 : Files[i] \in File
      BY FilesFacts DEF File
    <3>7. pc' = "rename" =>
            /\ \A i \in 1..3 : i < work'.next =>
                 disk'[Files[i]] = snap'[Files[i]].after \/ disk'[Files[i]] > MaxRuns
            /\ \A g \in File : g \in work'.touched \/ disk'[g] \in {snap'[g].before, snap'[g].after}
      BY <3>1, <3>2, <3>3, <3>6 DEF DiskInv
    <3> QED
      BY <3>4, <3>5, <3>7 DEF DiskInv
  <2>2. CASE Crash
    <3>1. UNCHANGED <<disk, snap, status, run>> /\ pc' # "rename"
      BY <2>2 DEF Crash, rowVars, fileVars
    <3> QED
      BY <3>1, <1>u DEF Running
  <2>3. CASE LoadBundle \/ \E c \in Chats : Receive(c) \/ CommitInput(c) \/ CommitMessage(c)
    <3>1. UNCHANGED <<disk, snap, status, run, pc, work>>
      BY <2>3 DEF LoadBundle, Receive, CommitInput, CommitMessage, rowVars, fileVars, control
    <3> QED
      BY <3>1 DEF DiskInv, Running, SnapComplete, Near, Before, After
  <2> QED
    BY <1>3, <2>1, <2>2, <2>3 DEF Outside
<1> QED
  BY <1>1, <1>2, <1>3, <1>t, StepCases

(* A step that leaves the files, the cache and the snapshots alone and goes *)
(* to a point of no account for the cache.                                  *)
Plain == {"idle", "recover", "collect", "create", "source", "prepare", "rename", "down"}

LEMMA CacheUntouched ==
    ASSUME CacheInv, UNCHANGED <<disk, cache, snap>>, Pend' <=> Pend, pc' \in Plain,
           (mode' # "startup" \/ pc' = "idle") => (mode # "startup" \/ pc = "idle")
    PROVE  CacheInv'
BY DEF CacheInv, Near, Plain, Working

LEMMA CacheStep ==
    ASSUME TypeInv, TypeInv', SnapInv, CacheInv, DiskInv, Next
    PROVE  CacheInv'
<1>t. /\ SnapTypes /\ FaultTypes /\ ControlTypes /\ RunInv /\ RunInv' /\ FileTypes /\ WorkTypes
      /\ MsgTypes /\ ProgressTypes /\ SnapTypes'
  BY DEF TypeInv
<1>b. work.base \in Bundle /\ NoCache \notin Bundle /\ disk \in Bundle
  BY <1>t, Contents DEF WorkTypes, Works, FileTypes
<1>p. pc \in Early => ~SnapComplete
  BY DEF SnapInv, SnapComplete, File
<1>1. CASE Left
  <2>a. UNCHANGED <<disk, snap, run>> /\ pc' \in Plain
    BY <1>1, <1>t, LeftFacts DEF Plain
  <2>c. /\ (mode' = "startup" <=> mode = "startup")
        /\ \/ cache' = cache
           \/ cache' = NoCache /\ pc' = "down" /\ mode' = "startup"
    BY <1>1, Zenon DEF Left, Leaves
  <2>d. pc' = "idle" /\ mode' = "startup" => ~Running \/ pc = "archive"
    BY <1>1, Zenon DEF Left
  <2>b. \/ status' = status \/ status' = [status EXCEPT ![run] = "failed"]
        \/ status' = [status EXCEPT ![run] = DerivedStatus]
    BY <1>1, Zenon DEF Left, UpdateFailed
  <2>2. CASE cache' # cache
    BY <2>a, <2>b, <2>c, <2>d, <2>2 DEF CacheInv, Plain, Working
  <2>3. CASE cache' = cache
    <3>1. Running' => Running
      <4>1. DerivedStatus # "running"
        BY DEF DerivedStatus
      <4>2. run \in Runs => status'[run] = status[run] \/ status'[run] # "running"
        BY <2>a, <2>b, <2>c, <2>d, <4>1 DEF TypeInv, RowTypes
      <4>3. run # 0 => run \in Runs
        BY Contents DEF TypeInv, RowTypes, Runs
      <4> QED
        BY <2>a, <2>b, <2>c, <2>d, <4>2, <4>3 DEF Running
    <3>2. Pend' => Pend
      BY <2>a, <2>b, <2>c, <2>d, <3>1 DEF Pend, SnapComplete
    <3>3. Pend /\ ~Pend' => pc \in Working \cup {"archive"}
      <4>1. Pend /\ ~Pend' => SnapComplete /\ status' # status
        BY <2>a, <2>b, <2>c, <2>d DEF Pend, Running, SnapComplete
      <4>2. status' # status => pc \in Working \cup {"archive", "prepare"}
        BY <1>1 DEF Left
      <4> QED
        BY <4>1, <4>2, <1>p DEF Early
    <3>4. (mode' # "startup" \/ pc' = "idle") /\ Pend' => cache' # NoCache
      <4>1. CASE pc = "archive"
        BY <2>3, <4>1, SidesOfTheRun, <1>t DEF CacheInv, RunInv, Publishing
      <4>2. CASE pc # "archive"
        BY <2>a, <2>b, <2>c, <2>d, <2>3, <3>2, <4>2 DEF CacheInv, Pend
      <4> QED
        BY <4>1, <4>2
    <3>5. cache' # NoCache /\ ~Pend' => Near(disk', cache')
      BY <2>a, <2>b, <2>c, <2>d, <2>3, <3>3 DEF CacheInv, Near
    <3> QED
      BY <2>a, <2>b, <2>c, <2>d, <3>4, <3>5 DEF CacheInv, Plain, Working
  <2> QED
    BY <2>2, <2>3
<1>2. CASE GoesOn
  <2>1. CASE StartCycle \/ Collect \/ Start
    <3>1. UNCHANGED <<disk, cache, snap, status, run>>
      BY <2>1 DEF StartCycle, Collect, Start, rowVars, fileVars
    <3>2. pc' \in Plain /\ ((mode' # "startup" \/ pc' = "idle") => (mode # "startup" \/ pc = "idle"))
      BY <2>1 DEF StartCycle, Collect, Start, GoTo, Plain
    <3>3. Pend' <=> Pend
      BY <3>1 DEF Pend, Running, SnapComplete
    <3> QED
      BY <3>1, <3>2, <3>3, CacheUntouched
  <2>2. CASE Marks
    <3>1. UNCHANGED <<disk, cache, snap, pc, mode>> /\ pc = "recover" /\ ~Pend /\ ~Pend'
      BY <2>2 DEF Marks, control, fileVars, Pend, SnapComplete
    <3> QED
      BY <3>1, CacheUntouched DEF Plain
  <2>3. CASE Create
    <3>1. UNCHANGED <<disk, cache, mode>> /\ pc' = "source" /\ ~Pend /\ ~SnapComplete'
      BY <2>3 DEF Create, GoTo, fileVars, Pend, SnapComplete, NoSnap, File
    <3> QED
      BY <3>1 DEF CacheInv, Near, Pend, Working
  <2>4. CASE Resumes \/ Persists
    <3>1. /\ UNCHANGED <<disk, cache, snap, status, run, mode>> /\ pc' \in Plain \ {"idle"}
      BY <2>4 DEF Resumes, Persists, GoTo, rowVars, fileVars, Plain
    <3>2. Pend' <=> Pend
      BY <3>1 DEF Pend, Running, SnapComplete
    <3> QED
      BY <3>1, <3>2, CacheUntouched
  <2>5. CASE Prepare
    <3>1. UNCHANGED <<disk, snap, status, run>> /\ pc = "prepare" /\ pc' = "event"
          /\ cache' = IF cache = NoCache THEN disk ELSE cache
      BY <2>5 DEF Prepare, GoTo, rowVars, fileVars
    <3>2. ~Pend /\ ~Pend' /\ \A f \in File : snap[f].before = Absent
      BY <3>1, <1>p DEF Pend, SnapInv, SnapComplete, Early
    <3>3. work'.base = cache'
      BY <2>5, <1>t DEF Prepare, WorkTypes, Works
    <3>4. Near(disk', cache')
      BY <3>1, <3>2 DEF CacheInv, Near
    <3> QED
      BY <3>1, <3>2, <3>3, <3>4 DEF CacheInv
  <2>6. CASE StartEvent \/ CommitEvents \/ EventFails \/ StartMemory \/ MemoryFails \/ EpisodicUpdate
             \/ CommitMemory
    <3>1. UNCHANGED <<disk, cache, mode>> /\ pc \in Working /\ pc' \in Working
      BY <2>6 DEF StartEvent, CommitEvents, EventFails, StartMemory, MemoryFails, EpisodicUpdate,
         CommitMemory, GoTo, fileVars, Working
    <3>2. work'.base = work.base
      BY <2>6, <1>t, InputFacts, DropFacts DEF StartEvent, CommitEvents, EventFails, StartMemory,
         MemoryFails, EpisodicUpdate, CommitMemory, Readers
    <3>3. ASSUME NEW f \in File
          PROVE  snap'[f].before \in {snap[f].before, work.base[f]}
      BY <2>6, <1>t DEF StartEvent, CommitEvents, EventFails, StartMemory, MemoryFails, EpisodicUpdate,
         CommitMemory, rowVars, SnapTypes
    <3>4. cache = work.base /\ \A f \in File : snap[f].before \in {Absent, work.base[f]}
      BY <3>1 DEF CacheInv
    <3>5. cache # NoCache /\ Near(disk, cache)
      BY <3>1, <3>4, <1>b DEF CacheInv
    <3> QED
      BY <3>1, <3>2, <3>3, <3>4, <3>5 DEF CacheInv, Near, Working
  <2>7. CASE EnsureSnapshots
    <3>1. UNCHANGED <<disk, cache>> /\ pc = "ensure" /\ pc' = "check" /\ work' = NoWork
      BY <2>7 DEF EnsureSnapshots, GoTo, fileVars
    <3>2. cache = work.base /\ \A f \in File : snap[f].before \in {Absent, work.base[f]}
      BY <3>1 DEF CacheInv, Working
    <3>3. \A f \in File : snap'[f].before = work.base[f]
      BY <2>7, <3>2 DEF EnsureSnapshots
    <3>4. Before' = work.base
      BY <3>3, <1>b DEF Before, Bundle
    <3>5. cache # NoCache /\ Near(disk, cache)
      BY <3>1, <3>2, <1>b DEF CacheInv, Working
    <3> QED
      BY <3>1, <3>2, <3>4, <3>5 DEF CacheInv, Near, Working
  <2>8. CASE CheckBase \/ Rename
    <3>1. UNCHANGED <<cache, snap, status, run, mode>> /\ pc \in {"check", "rename"} /\ pc' = "rename"
      BY <2>8 DEF CheckBase, Rename, GoTo, rowVars
    <3>2. Pend /\ Pend'
      BY <3>1, <1>t DEF RunInv, Publishing, Pend, Running, SnapComplete
    <3>3. mode' # "startup" => cache' # NoCache
      BY <3>1, <3>2 DEF CacheInv
    <3> QED
      BY <3>1, <3>2, <3>3 DEF CacheInv, Working
  <2>9. CASE Conflict
    <3>1. cache' = disk /\ disk' = disk /\ pc' \in {"collect", "idle"}
      BY <2>9 DEF Conflict, fileVars
    <3> QED
      BY <3>1, <1>b DEF CacheInv, Near, Working
  <2>10. CASE Published
    <3>1. UNCHANGED <<disk, snap>> /\ cache' = After /\ pc = "rename" /\ pc' = "archive"
          /\ work.next > 3
      BY <2>10, FilesFacts DEF Published, GoTo, rowVars, fileVars, After
    <3>2. After' = After /\ After # NoCache
      BY <3>1, <1>t, SidesOfTheRun DEF RunInv, Publishing, After
    <3>3. \A i \in 1..3 : disk[Files[i]] = snap[Files[i]].after \/ disk[Files[i]] > MaxRuns
      <4>1. work.next \in Nat
        BY <1>t, FilesFacts DEF WorkTypes, Works
      <4>2. \A i \in 1..3 : i < work.next
        BY <3>1, <4>1
      <4> QED
        BY <3>1, <4>2 DEF DiskInv
    <3>4. Near(disk, After)
      BY <3>3, FilesFacts DEF Near, After, File
    <3> QED
      BY <3>1, <3>2, <3>4 DEF CacheInv, Working
  <2>11. ASSUME NEW c \in Chats, SkipSession(c) \/ ArchiveSession(c) \/ Truncate(c)
         PROVE  CacheInv'
    <3>1. /\ UNCHANGED <<disk, cache, snap, mode>>
          /\ pc \in {"archive", "truncate"} /\ pc' \in {"archive", "truncate"}
      BY <2>11 DEF SkipSession, ArchiveSession, Truncate, GoTo, rowVars, fileVars
    <3>2. cache = After /\ After # NoCache /\ After' = After
      BY <3>1, <1>t, SidesOfTheRun DEF CacheInv, RunInv, Publishing, After
    <3> QED
      BY <3>1, <3>2 DEF CacheInv, Near, Working
  <2> QED
    BY <1>2, <2>1, <2>2, <2>3, <2>4, <2>5, <2>6, <2>7, <2>8, <2>9, <2>10, <2>11 DEF GoesOn
<1>3. CASE Outside
  <2>1. ASSUME NEW f \in File, Edit(f)
        PROVE  CacheInv'
    <3>1. UNCHANGED <<snap, pc, status, run, cache, mode>>
      BY <2>1 DEF Edit, rowVars
    <3>2. work'.base = work.base /\ (pc = "check" => work' = work)
      BY <2>1, <1>t, WorkFacts DEF Edit
    <3>3. \A b : Near(disk, b) => Near(disk', b)
      BY <2>1, <1>t, EditNear
    <3>4. (Pend' <=> Pend) /\ Before' = Before /\ After' = After
      BY <3>1 DEF Pend, Running, SnapComplete, Before, After
    <3> QED
      BY <3>1, <3>2, <3>3, <3>4 DEF CacheInv
  <2>2. CASE Crash
    BY <2>2 DEF Crash, CacheInv, Working
  <2>3. CASE LoadBundle
    <3>1. /\ UNCHANGED <<disk, snap, pc, status, run, mode, work>> /\ cache = NoCache /\ cache' = disk
          /\ pc # "rename"
      BY <2>3 DEF LoadBundle, rowVars, fileVars, control
    <3>2. pc \notin Working
      BY <3>1, <1>b DEF CacheInv
    <3>3. pc \notin {"check", "archive", "truncate"}
      BY <3>1, <1>t, SidesOfTheRun DEF CacheInv, RunInv, Publishing
    <3> QED
      BY <3>1, <3>2, <3>3, <1>b DEF CacheInv, Near
  <2>4. ASSUME NEW c \in Chats, Receive(c) \/ CommitInput(c) \/ CommitMessage(c)
        PROVE  CacheInv'
    <3>1. UNCHANGED <<disk, cache, snap, pc, status, run, mode, work>>
      BY <2>4 DEF Receive, CommitInput, CommitMessage, rowVars, fileVars, control
    <3>2. (Pend' <=> Pend) /\ Before' = Before /\ After' = After
      BY <3>1 DEF Pend, Running, SnapComplete, Before, After
    <3> QED
      BY <3>1, <3>2 DEF CacheInv, Near
  <2> QED
    BY <1>3, <2>1, <2>2, <2>3, <2>4 DEF Outside
<1> QED
  BY <1>1, <1>2, <1>3, <1>t, StepCases

LEMMA PromptStep ==
    ASSUME TypeInv, TypeInv', SnapInv, CacheInv, CacheInv', DiskInv, PromptSeesWholeBundle, Next
    PROVE  PromptSeesWholeBundle'
<1>t. SnapTypes /\ FaultTypes /\ ControlTypes /\ RunInv /\ FileTypes /\ WorkTypes
  BY DEF TypeInv
<1>u. ASSUME UNCHANGED snap, cache' \in {cache, NoCache}
      PROVE  PromptSeesWholeBundle'
  BY <1>u DEF PromptSeesWholeBundle, SnapComplete, Whole
<1>e. (\E f \in File : Edit(f)) => UNCHANGED <<snap, cache>>
  BY DEF Edit, rowVars
<1>1. CASE Left
  BY <1>1, <1>t, <1>u, LeftFacts
<1>2. CASE Create
  BY <1>2 DEF Create, PromptSeesWholeBundle, SnapComplete, NoSnap, File
<1>3. CASE EpisodicUpdate \/ CommitMemory \/ EnsureSnapshots
  <2>1. /\ cache' = cache /\ pc \in Working /\ pc' \in Working \cup {"check"}
        /\ \A f \in File : snap'[f].before \in {snap[f].before, work.base[f]}
    BY <1>3, <1>t DEF EpisodicUpdate, CommitMemory, EnsureSnapshots, GoTo, Working, SnapTypes
  <2>2. cache = work.base /\ \A f \in File : snap[f].before \in {Absent, work.base[f]}
    BY <2>1 DEF CacheInv
  <2>3. SnapComplete' => \A f \in File : snap'[f].before = cache'[f]
    BY <2>1, <2>2 DEF SnapComplete
  <2> QED
    BY <2>3 DEF PromptSeesWholeBundle, Whole
<1>4. CASE Prepare
  <2>1. UNCHANGED snap /\ ~SnapComplete
    BY <1>4 DEF Prepare, rowVars, SnapInv, SnapComplete, Early, File
  <2> QED
    BY <2>1 DEF PromptSeesWholeBundle, SnapComplete
<1>5. CASE Conflict
  <2>1. UNCHANGED <<snap, disk>> /\ cache' = disk /\ pc = "check"
    BY <1>5 DEF Conflict, rowVars, fileVars
  <2>2. cache = Before /\ SnapComplete
    BY <2>1, <1>t DEF CacheInv, RunInv, Publishing
  <2>3. Near(disk, Before)
    BY <2>1, <2>2, <1>t, SidesOfTheRun DEF CacheInv
  <2>4. Whole(disk)
    BY <2>3, WholeWhenNear
  <2> QED
    BY <2>1, <2>4 DEF PromptSeesWholeBundle, Whole
<1>6. CASE Published
  <2>1. UNCHANGED snap /\ cache' = After
    BY <1>6 DEF Published, rowVars, After
  <2> QED
    BY <2>1 DEF PromptSeesWholeBundle, Whole, After
<1>7. CASE LoadBundle
  <2>1. UNCHANGED snap /\ cache = NoCache /\ cache' = disk /\ (mode # "startup" \/ pc = "idle")
    BY <1>7 DEF LoadBundle, Serving, rowVars
  <2>2. SnapComplete => ~Running
    BY <2>1 DEF CacheInv, Pend
  <2>3. SnapComplete => Whole(disk)
    BY <2>2, WholeWhenNear DEF DiskInv
  <2> QED
    BY <2>1, <2>3 DEF PromptSeesWholeBundle, SnapComplete, Whole
<1>8. CASE \/ StartCycle \/ Marks \/ Resumes \/ Collect \/ Persists
           \/ StartEvent \/ CommitEvents \/ EventFails \/ StartMemory \/ MemoryFails
           \/ CheckBase \/ Rename \/ Start \/ Crash
           \/ \E c \in Chats : \/ SkipSession(c) \/ ArchiveSession(c) \/ Truncate(c)
                             \/ Receive(c) \/ CommitInput(c) \/ CommitMessage(c)
  <2>1. UNCHANGED snap /\ cache' \in {cache, NoCache}
    BY <1>8 DEF StartCycle, Marks, Resumes, Collect, Persists, StartEvent, CommitEvents, EventFails,
       StartMemory, MemoryFails, CheckBase, Rename, Start, Crash, SkipSession, ArchiveSession, Truncate,
       Receive, CommitInput, CommitMessage, rowVars
  <2> QED
    BY <2>1, <1>u
<1> QED
  BY <1>1, <1>2, <1>3, <1>4, <1>5, <1>6, <1>7, <1>8, <1>e, <1>u, <1>t, StepCases DEF GoesOn, Outside

(* What a run that changed the files derives from its steps. *)
LEMMA DerivedOfChanged ==
    ASSUME Changed, SnapInv, \A s \in Steps : step[s] \in Done
    PROVE  DerivedStatus \in {"success", "partial_failure"}
<1>1. \E s \in Steps : step[s] = "success"
  BY DEF Changed, SnapInv, StepOf, Steps
<1>2. ~\E s \in Steps : step[s] \in {"pending", "running"}
  BY DEF Done
<1> QED
  BY <1>1, <1>2 DEF DerivedStatus

LEMMA ListedStep ==
    ASSUME TypeInv, SnapInv, PublishedIsListed, Next
    PROVE  PublishedIsListed'
<1>t. /\ FaultTypes /\ ControlTypes /\ RunInv /\ published \subseteq 1..run /\ run \in 0..MaxRuns
      /\ status \in [Runs -> Statuses] /\ Runs = 1..MaxRuns
  BY DEF TypeInv, RowTypes, Runs
<1>f. (Fault("db") => faults'.db # 0) /\ (faults'.db = 0 => faults.db = 0)
  BY <1>t, DbFault
<1>u. ASSUME UNCHANGED <<published, status>>
      PROVE  PublishedIsListed'
  BY <1>u, <1>f DEF PublishedIsListed
<1>m. ASSUME NEW x, status' = [status EXCEPT ![run] = x], UNCHANGED published,
             run \in published /\ faults'.db = 0 => x \in {"running", "success", "partial_failure"}
      PROVE  PublishedIsListed'
  <2>1. \A r \in published : r \in Runs
    BY <1>t, Contents
  <2>2. \A r \in published : r # run => status'[r] = status[r]
    BY <1>m, <2>1, <1>t
  <2>3. run \in published => status'[run] = x
    BY <1>m, <2>1, <1>t
  <2> QED
    BY <1>m, <1>f, <2>2, <2>3 DEF PublishedIsListed
<1>1. CASE Left
  <2>p. UNCHANGED <<published, snap, step>>
    BY <1>1, <1>t, LeftFacts
  <2>1. CASE UNCHANGED status
    BY <2>1, <2>p, <1>u
  <2>2. CASE UpdateFailed /\ pc = "prepare"
    <3>1. run \notin published
      BY <2>2 DEF SnapInv, SnapComplete, Early, File
    <3> QED
      BY <2>2, <2>p, <3>1, <1>m DEF UpdateFailed
  <2>3. CASE UpdateFailed /\ Fault("db")
    BY <2>3, <2>p, <1>f, <1>m DEF UpdateFailed
  <2>4. CASE status' = [status EXCEPT ![run] = DerivedStatus]
    <3>1. run \in published /\ faults'.db = 0 => DerivedStatus \in {"success", "partial_failure"}
      BY <1>f, DerivedOfChanged DEF SnapInv, StepsDone
    <3> HIDE DEF DerivedStatus
    <3> QED
      BY <2>4, <2>p, <3>1, <1>m
  <2> QED
    BY <1>1, <2>1, <2>2, <2>3, <2>4 DEF Left
<1>2. CASE Create
  <2>1. \A r \in published : r # run + 1 /\ r \in Runs
    BY <1>t, Contents
  <2>2. \A r \in published : status'[r] = status[r]
    BY <1>2, <2>1, <1>t DEF Create
  <2> QED
    BY <1>2, <2>2, <1>f DEF Create, PublishedIsListed
<1>3. CASE Marks
  <2>1. run \notin published
    BY <1>3 DEF Marks, SnapInv
  <2> QED
    BY <1>3, <2>1, <1>m DEF Marks, UpdateFailed
<1>4. CASE Published
  <2>1. UNCHANGED <<status, faults>> /\ published' \subseteq published \cup {run}
    BY <1>4 DEF Published, rowVars
  <2>2. status[run] = "running"
    BY <1>4, <1>t DEF Published, RunInv, Publishing, Running
  <2> QED
    BY <2>1, <2>2 DEF PublishedIsListed
<1>5. CASE \/ StartCycle \/ Resumes \/ Collect \/ Persists \/ Prepare \/ EpisodicUpdate
           \/ StartEvent \/ CommitEvents \/ EventFails \/ StartMemory \/ CommitMemory \/ MemoryFails
           \/ EnsureSnapshots \/ CheckBase \/ Conflict \/ Rename \/ Start \/ Crash \/ LoadBundle
           \/ \E f \in File : Edit(f)
           \/ \E c \in Chats : \/ SkipSession(c) \/ ArchiveSession(c) \/ Truncate(c)
                             \/ Receive(c) \/ CommitInput(c) \/ CommitMessage(c)
  <2>1. UNCHANGED <<published, status>>
    BY <1>5 DEF StartCycle, Resumes, Collect, Persists, Prepare, EpisodicUpdate, StartEvent,
       CommitEvents, EventFails, StartMemory, CommitMemory, MemoryFails, EnsureSnapshots, CheckBase,
       Conflict, Rename, Start, Crash, LoadBundle, Edit, SkipSession, ArchiveSession, Truncate,
       Receive, CommitInput, CommitMessage, rowVars
  <2> QED
    BY <2>1, <1>u
<1> QED
  BY <1>1, <1>2, <1>3, <1>4, <1>5, <1>t, StepCases DEF GoesOn, Outside

LEMMA BundleStep ==
    ASSUME TypeInv, BundleInv, [Next]_vars
    PROVE  BundleInv'
<1>1. TypeInv'
  BY TypeStep
<1>2. CASE Next
  <2>1. SnapInv' /\ CacheInv' /\ DiskInv'
    BY <1>1, <1>2, SnapStep, CacheStep, DiskStep DEF BundleInv
  <2>2. PromptSeesWholeBundle' /\ PublishedIsListed'
    BY <1>1, <1>2, <2>1, PromptStep, ListedStep DEF BundleInv
  <2> QED
    BY <2>1, <2>2 DEF BundleInv
<1>3. CASE UNCHANGED vars
  <2>1. UNCHANGED <<run, status, step, snap, disk, cache, pc, mode, work, published, faults>>
    BY <1>3 DEF vars, rowVars, fileVars, control
  <2>2. SnapInv' /\ PublishedIsListed'
    BY <2>1 DEF BundleInv, SnapInv, StepsDone, SnapComplete, Changed, PublishedIsListed
  <2>3. CacheInv'
    BY <2>1 DEF BundleInv, CacheInv, Pend, Running, SnapComplete, Near, Before, After
  <2>4. DiskInv' /\ PromptSeesWholeBundle'
    BY <2>1 DEF BundleInv, DiskInv, PromptSeesWholeBundle, Whole, Running, SnapComplete, Near, Before, After
  <2> QED
    BY <2>2, <2>3, <2>4 DEF BundleInv
<1> QED
  BY <1>2, <1>3

LEMMA BundleInit ==
    ASSUME Init
    PROVE  BundleInv
<1>1. ~SnapComplete /\ \A f \in File : snap[f].before = snap[f].after
  BY DEF Init, SnapComplete, NoSnap, File
<1>2. pc = "recover" /\ mode = "startup" /\ cache = NoCache /\ run = 0 /\ published = {}
  BY DEF Init
<1>3. SnapInv
  BY <1>1, <1>2 DEF SnapInv, StepsDone, Early
<1>4. CacheInv /\ DiskInv
  BY <1>1, <1>2 DEF CacheInv, DiskInv, Pend, Working
<1> QED
  BY <1>1, <1>2, <1>3, <1>4 DEF BundleInv, PromptSeesWholeBundle, PublishedIsListed

LEMMA BundleInvariant == Spec => [](TypeInv /\ BundleInv)
<1>1. Init => TypeInv /\ BundleInv
  BY TypeInit, BundleInit
<1>2. TypeInv /\ BundleInv /\ [Next]_vars => (TypeInv /\ BundleInv)'
  BY TypeStep, BundleStep
<1> QED
  BY <1>1, <1>2, PTL DEF Spec

(* The prompts, the run after and the list of memory changes see the three  *)
(* memory files change together: over failing steps, files, transactions,   *)
(* retries, crashes and edits by hand (publish_bundle and its recovery).    *)
THEOREM FilesChangeTogether == Spec => []WholeBundle
<1>1. TypeInv /\ BundleInv => WholeBundle
  <2> SUFFICES ASSUME TypeInv, BundleInv
               PROVE  WholeBundle
    OBVIOUS
  <2>1. TypeOK
    BY DEF TypeInv, MsgTypes, ProgressTypes, RowTypes, SnapTypes, FileTypes, ControlTypes, FaultTypes,
       WorkTypes, RunInv, Publishing, Side, Modes, Kinds, TypeOK
  <2>2. EndedRunLeavesWholeBundle
    BY WholeWhenNear DEF BundleInv, DiskInv, EndedRunLeavesWholeBundle
  <2> QED
    BY <2>1, <2>2 DEF BundleInv, WholeBundle
<1> QED
  BY <1>1, BundleInvariant, PTL

(* write_bundle_atomically overwrites a file only as the run found or left  *)
(* it: an edit by hand that was there when the files were compared stays.   *)
THEOREM EditsAreKept == Spec => EditKept
<1> DEFINE Kept == \A f \in File : (disk'[f] # disk[f] /\ faults'.edit = faults.edit)
                     => f \in work.touched \/ disk[f] \in {snap[f].before, snap[f].after}
<1>1. TypeInv /\ BundleInv /\ [Next]_vars => [Kept]_vars
  <2> SUFFICES ASSUME TypeInv, BundleInv, Next
               PROVE  Kept
    OBVIOUS
  <2>1. CASE UNCHANGED disk
    BY <2>1
  <2>2. CASE Rename
    BY <2>2 DEF Rename, BundleInv, DiskInv
  <2>3. ASSUME NEW f \in File, Edit(f)
        PROVE  Kept
    <3>1. faults'["edit"] = faults["edit"] + 1 /\ faults["edit"] \in Nat
      BY <2>3, FaultStep DEF Edit, Kinds, FaultTypes, TypeInv
    <3>2. faults'.edit # faults.edit
      BY <3>1
    <3> QED
      BY <3>2
  <2> QED
    BY <2>1, <2>2, <2>3, DiskFrame
<1> QED
  BY <1>1, BundleInvariant, PTL DEF Spec, EditKept

-----------------------------------------------------------------------------
(* Messages, digests and archives.                                          *)

LEMMA RangeOfAppend ==
    ASSUME NEW S, NEW q \in Seq(S), NEW m \in S
    PROVE  Range(Append(q, m)) = Range(q) \cup {m}
<1> DEFINE n == Len(q)
           t == Append(q, m)
<1>1. /\ n \in Nat /\ DOMAIN q = 1..n /\ DOMAIN t = 1..(n + 1)
      /\ t[n + 1] = m /\ \A i \in 1..n : t[i] = q[i]
  BY LenProperties, AppendProperties
<1> HIDE DEF n, t
<1>2. ASSUME NEW x \in Range(t)
      PROVE  x \in Range(q) \cup {m}
  <2>1. PICK i \in DOMAIN t : x = t[i]
    BY <1>2 DEF Range
  <2>2. i = n + 1 \/ i \in 1..n
    BY <1>1, <2>1
  <2> QED
    BY <1>1, <2>1, <2>2 DEF Range
<1>3. ASSUME NEW x \in Range(q) \cup {m}
      PROVE  x \in Range(t)
  <2>1. CASE x = m
    <3>1. n + 1 \in DOMAIN t
      BY <1>1
    <3> QED
      BY <1>1, <2>1, <3>1 DEF Range
  <2>2. CASE x \in Range(q)
    <3>1. PICK i \in DOMAIN q : x = q[i]
      BY <2>2 DEF Range
    <3>2. i \in DOMAIN t /\ t[i] = x
      BY <1>1, <3>1
    <3> QED
      BY <3>2 DEF Range
  <2> QED
    BY <1>3, <2>1, <2>2
<1> QED
  BY <1>2, <1>3 DEF t

(* A message is committed: it is the newest of its chat, or late. *)
LEMMA Appended ==
    ASSUME MsgTypes, NEW c \in Chats, NEW m \in Messages, AppendMessage(c, m), m \notin committed[c]
    PROVE  /\ committed'[c] = committed[c] \cup {m} /\ \A d \in Chats \ {c} : committed'[d] = committed[d]
           /\ Range(session'[c]) = Range(session[c]) \cup {m}
           /\ \A d \in Chats \ {c} : session'[d] = session[d]
           /\ late \subseteq late' /\ late' \subseteq late \cup {m}
           /\ m \notin late' => \A x \in committed[c] : x < m
<1>1. /\ committed' = [committed EXCEPT ![c] = committed[c] \cup {m}]
      /\ session' = [session EXCEPT ![c] = Append(session[c], m)]
      /\ late' = IF m < Latest(c) THEN late \cup {m} ELSE late
  BY DEF AppendMessage
<1>2. Range(session'[c]) = Range(session[c]) \cup {m}
  BY <1>1, RangeOfAppend DEF MsgTypes
<1>3. ASSUME m \notin late', NEW x \in committed[c]
      PROVE  x < m
  <2>1. Latest(c) \in Nat /\ x <= Latest(c) /\ m \in Nat /\ x \in Nat /\ x # m
    BY LatestProperties, Contents DEF MsgTypes, Messages
  <2>2. Latest(c) <= m
    BY <1>1, <1>3, <2>1
  <2> QED
    BY <2>1, <2>2
<1> QED
  BY <1>1, <1>2, <1>3 DEF MsgTypes

LEMMA CommitCases ==
    ASSUME MsgTypes, MessageInv, NEW c \in Chats, CommitInput(c) \/ CommitMessage(c)
    PROVE  \E m \in Messages : /\ AppendMessage(c, m) /\ \A d \in Chats : m \notin committed[d]
                               /\ m \in 1..clock' /\ clock' >= clock
                               /\ \/ inbox[c] = m /\ inbox' = [inbox EXCEPT ![c] = 0]
                                  \/ m = clock + 1 /\ UNCHANGED inbox
<1>t. clock \in Nat /\ MaxMsg \in Nat /\ clock <= MaxMsg /\ inbox[c] \in 0..MaxMsg /\ Messages = 1..MaxMsg
  BY Contents DEF MsgTypes, Messages
<1>1. CASE CommitInput(c)
  <2>1. inbox[c] \in Messages /\ inbox[c] \in 1..clock /\ clock' = clock
    BY <1>1, <1>t DEF CommitInput, MessageInv
  <2> QED
    BY <1>1, <2>1, <1>t DEF CommitInput, MessageInv
<1>2. CASE CommitMessage(c)
  <2>1. clock + 1 \in Messages /\ clock' = clock + 1
    BY <1>2, <1>t DEF CommitMessage
  <2>2. \A d \in Chats : clock + 1 \notin committed[d]
    BY <1>t DEF MessageInv
  <2> QED
    BY <1>2, <2>1, <2>2, <1>t DEF CommitMessage
<1> QED
  BY <1>1, <1>2

LEMMA MessageStep ==
    ASSUME TypeInv, MessageInv, Next
    PROVE  MessageInv'
<1>t. MsgTypes /\ WorkTypes /\ clock \in Nat /\ \A c \in Chats : inbox[c] \in Nat
  BY Contents DEF TypeInv, MsgTypes
<1>1. CASE UNCHANGED msgVars
  BY <1>1 DEF msgVars, MessageInv
<1>2. ASSUME NEW c \in Chats, Receive(c)
      PROVE  MessageInv'
  <2>1. UNCHANGED <<committed, session>> /\ clock' = clock + 1 /\ inbox'[c] = clock + 1
        /\ \A d \in Chats \ {c} : inbox'[d] = inbox[d]
    BY <1>2, <1>t DEF Receive, MsgTypes
  <2>2. \A d \in Chats : committed[d] \subseteq 1..(clock + 1) /\ clock + 1 \notin committed[d]
    BY <1>t DEF MessageInv
  <2>3. \A d \in Chats : inbox'[d] <= clock + 1 /\ (d # c => inbox'[d] # clock + 1)
    BY <2>1, <1>t DEF MessageInv
  <2> QED
    BY <2>1, <2>2, <2>3, <1>t DEF MessageInv
<1>3. ASSUME NEW c \in Chats, CommitInput(c) \/ CommitMessage(c)
      PROVE  MessageInv'
  <2>1. PICK m \in Messages :
          /\ AppendMessage(c, m) /\ \A d \in Chats : m \notin committed[d]
          /\ m \in 1..clock' /\ clock' >= clock
          /\ \/ inbox[c] = m /\ inbox' = [inbox EXCEPT ![c] = 0]
             \/ m = clock + 1 /\ UNCHANGED inbox
    BY <1>3, <1>t, CommitCases
  <2>2. /\ committed'[c] = committed[c] \cup {m} /\ \A d \in Chats \ {c} : committed'[d] = committed[d]
        /\ Range(session'[c]) = Range(session[c]) \cup {m}
        /\ \A d \in Chats \ {c} : session'[d] = session[d]
    BY <2>1, <1>t, Appended
  <2>3. clock' \in Nat
    BY <2>1, <1>3, <1>t DEF CommitInput, CommitMessage
  <2>4. \A d \in Chats : committed'[d] \subseteq 1..clock'
    BY <2>1, <2>2, <2>3, <1>t DEF MessageInv
  <2>5. \A d \in Chats : inbox'[d] \in {0, inbox[d]} /\ inbox'[d] <= clock' /\ inbox'[d] # m
    BY <2>1, <2>3, <1>t DEF MessageInv, MsgTypes, Messages
  <2>6. \A d, e \in Chats : inbox'[d] # 0 =>
           inbox'[d] \notin committed'[e] /\ (d # e => inbox'[d] # inbox'[e])
    BY <2>2, <2>5 DEF MessageInv
  <2>7. \A d, e \in Chats : d # e => committed'[d] \cap committed'[e] = {}
    BY <2>1, <2>2 DEF MessageInv
  <2>8. \A d \in Chats : Range(session'[d]) \subseteq committed'[d]
    BY <2>2 DEF MessageInv
  <2> QED
    BY <2>4, <2>5, <2>6, <2>7, <2>8 DEF MessageInv
<1>4. ASSUME NEW c \in Chats, Truncate(c)
      PROVE  MessageInv'
  <2>1. UNCHANGED <<clock, inbox, committed>>
    BY <1>4 DEF Truncate
  <2>2. \A d \in Chats : Range(session'[d]) \subseteq Range(session[d])
    <3>1. Range(KeepRecent(session[c])) \subseteq Range(session[c])
      BY <1>t, KeepRecentProperties DEF MsgTypes
    <3>2. session' = session \/ session' = [session EXCEPT ![c] = KeepRecent(session[c])]
      BY <1>4 DEF Truncate
    <3> QED
      BY <3>1, <3>2, <1>t DEF MsgTypes
  <2> QED
    BY <2>1, <2>2 DEF MessageInv
<1> QED
  BY <1>1, <1>2, <1>3, <1>4, MsgFrame

(* The numbers the messages are compared with. *)
LEMMA Numbers ==
    ASSUME TypeInv
    PROVE  /\ \A s \in Readers, c \in Chats : ckpt[s][c] \in Nat
           /\ \A c \in Chats : committed[c] \subseteq Messages /\ work.upto[c] \in Nat
           /\ \A m \in Messages : m \in Nat /\ m > 0
           /\ work.batch \subseteq Messages
           /\ \A s \in Readers, m \in Messages : seen[s][m] \in Nat
BY Contents DEF TypeInv, ProgressTypes, MsgTypes, WorkTypes, Works, Messages

(* What a step takes in is its input. *)
LEMMA TakenInput ==
    ASSUME TypeInv, MessageInv, DigestInv, NEW s \in Readers, work' = TakeInput(s),
           UNCHANGED <<committed, late, ckpt>>
    PROVE  Input(s)'
<1>t. MsgTypes /\ ProgressTypes /\ WorkTypes
  BY DEF TypeInv
<1>1. /\ work'.batch = UNION {NewMessages(s, c) : c \in Chats}
      /\ \A c \in Chats : work'.upto[c] = IF NewMessages(s, c) = {} THEN 0 ELSE Latest(c)
  BY <1>t, InputFacts
<1>2. \A c \in Chats : NewMessages(s, c) \subseteq committed[c]
  BY DEF NewMessages
<1>3. ASSUME NEW c \in Chats, NEW m \in committed[c]
      PROVE  m \in work'.batch <=> m \in NewMessages(s, c)
  BY <1>1, <1>2, <1>3 DEF MessageInv
<1>4. ASSUME NEW c \in Chats
      PROVE  InputOf(s, c)'
  <2>1. CASE NewMessages(s, c) = {}
    BY <1>1, <1>3, <1>4, <2>1 DEF InputOf
  <2>2. CASE NewMessages(s, c) # {}
    <3>1. work'.upto[c] = Latest(c) /\ Latest(c) \in committed[c] /\ \A m \in committed[c] : m <= Latest(c)
      BY <1>1, <1>2, <1>4, <1>t, <2>2, LatestProperties
    <3>2. NewMessages(s, c) = {m \in committed[c] : m > ckpt[s][c]}
      BY <2>2 DEF NewMessages
    <3>3. ckpt[s][c] \in Nat /\ \A m \in committed[c] : m \in Nat
      BY Numbers
    <3>4. Latest(c) >= ckpt[s][c]
      BY <2>2, <3>1, <3>2, <3>3
    <3>5. \A m \in committed[c] : IF m \in work'.batch THEN ckpt[s][c] < m /\ m <= Latest(c)
                                ELSE m <= ckpt[s][c]
      BY <1>3, <1>4, <3>1, <3>2, <3>3
    <3> QED
      BY <3>1, <3>4, <3>5 DEF InputOf
  <2> QED
    BY <2>1, <2>2
<1>5. \A m \in work'.batch : \E c \in Chats : m \in committed'[c]
  BY <1>1, <1>2
<1> QED
  BY <1>4, <1>5 DEF Input

(* The transaction of a step counts its input once. *)
LEMMA CommittedInput ==
    ASSUME TypeInv, DigestInv, NEW s \in Readers, Input(s), CommitCheckpoints(s),
           UNCHANGED <<committed, late>>, pc' \notin Replies
    PROVE  DigestInv' /\ \A z \in Readers, c \in Chats : ckpt[z][c] <= ckpt'[z][c]
<1>t. ProgressTypes
  BY DEF TypeInv
<1>n. /\ \A z \in Readers, c \in Chats : ckpt[z][c] \in Nat
      /\ \A c \in Chats : committed[c] \subseteq Messages /\ work.upto[c] \in Nat
      /\ \A m \in Messages : m \in Nat /\ m > 0
      /\ work.batch \subseteq Messages
      /\ \A z \in Readers, m \in Messages : seen[z][m] \in Nat
  BY Numbers
<1>1. /\ \A c \in Chats : ckpt'[s][c] = IF work.upto[c] # 0 THEN work.upto[c] ELSE ckpt[s][c]
      /\ \A z \in Readers \ {s} : ckpt'[z] = ckpt[z]
  BY <1>t DEF CommitCheckpoints, ProgressTypes
<1>2. /\ \A m \in Messages : seen'[s][m] = IF m \in work.batch THEN seen[s][m] + 1 ELSE seen[s][m]
      /\ \A z \in Readers \ {s} : seen'[z] = seen[z]
  BY <1>t DEF CommitCheckpoints, ProgressTypes
<1>3. ASSUME NEW c \in Chats
      PROVE  /\ ckpt[s][c] <= ckpt'[s][c]
             /\ ckpt'[s][c] = 0 \/ ckpt'[s][c] \in committed[c]
             /\ \A m \in committed[c] : \/ seen'[s][m] = IF m <= ckpt'[s][c] THEN 1 ELSE 0
                                        \/ m \in late /\ seen'[s][m] = 0
  <2>1. CASE work.upto[c] = 0 /\ \A m \in committed[c] : m \notin work.batch
    BY <1>1, <1>2, <1>n, <1>3, <2>1 DEF DigestInv, ExactlyOnce
  <2>2. CASE /\ work.upto[c] \in committed[c] /\ work.upto[c] >= ckpt[s][c]
             /\ \A m \in committed[c] :
                  IF m \in work.batch THEN ckpt[s][c] < m /\ m <= work.upto[c]
                  ELSE m <= ckpt[s][c] \/ m > work.upto[c] \/ m \in late
    <3>1. ckpt'[s][c] = work.upto[c]
      BY <1>1, <1>n, <1>3, <2>2
    <3>2. ASSUME NEW m \in committed[c]
          PROVE  \/ seen'[s][m] = IF m <= ckpt'[s][c] THEN 1 ELSE 0
                 \/ m \in late /\ seen'[s][m] = 0
      <4>1. \/ seen[s][m] = IF m <= ckpt[s][c] THEN 1 ELSE 0
            \/ m \in late /\ seen[s][m] = 0
        BY <1>3, <3>2 DEF DigestInv, ExactlyOnce
      <4>2. m \in Messages /\ m \in Nat /\ work.upto[c] \in Nat /\ ckpt[s][c] \in Nat
        BY <1>3, <1>n, <3>2
      <4>3. CASE m \in work.batch
        <5>1. seen[s][m] = 0 /\ m <= ckpt'[s][c]
          BY <2>2, <3>1, <4>1, <4>2, <4>3
        <5> QED
          BY <1>2, <4>2, <4>3, <5>1
      <4>4. CASE m \notin work.batch
        <5>1. seen'[s][m] = seen[s][m]
          BY <1>2, <4>2, <4>4
        <5> QED
          BY <2>2, <3>1, <4>1, <4>2, <4>4, <5>1
      <4> QED
        BY <4>3, <4>4
    <3> QED
      BY <2>2, <3>1, <3>2
  <2> QED
    BY <1>3, <2>1, <2>2 DEF Input, InputOf
<1>4. \A z \in Readers, c \in Chats : ckpt[z][c] <= ckpt'[z][c]
  BY <1>1, <1>3, <1>n
<1>5. \A z \in Readers : \A m \in Messages :
         (\A c \in Chats : m \notin committed'[c]) => seen'[z][m] = 0
  BY <1>2 DEF DigestInv, Input
<1>6. \A z \in Readers, c \in Chats : ckpt'[z][c] = 0 \/ ckpt'[z][c] \in committed'[c]
  BY <1>1, <1>3 DEF DigestInv
<1>7. ExactlyOnce'
  <2> SUFFICES ASSUME NEW z \in Readers, NEW c \in Chats, NEW m \in committed[c]
               PROVE  \/ seen'[z][m] = IF m <= ckpt'[z][c] THEN 1 ELSE 0
                      \/ m \in late /\ seen'[z][m] = 0
    BY DEF ExactlyOnce
  <2>1. CASE z = s
    BY <1>3, <2>1
  <2>2. CASE z # s
    BY <1>1, <1>2, <2>2 DEF DigestInv, ExactlyOnce
  <2> QED
    BY <2>1, <2>2
<1> QED
  BY <1>4, <1>5, <1>6, <1>7 DEF DigestInv, Replies

(* A message that is committed meanwhile is beyond the input, or late. *)
LEMMA InputGrows ==
    ASSUME TypeInv, MessageInv, DigestInv, NEW s \in Readers, Input(s),
           NEW c \in Chats, NEW m \in Messages, AppendMessage(c, m),
           \A d \in Chats : m \notin committed[d], UNCHANGED <<work, ckpt>>
    PROVE  Input(s)'
<1>1. /\ committed'[c] = committed[c] \cup {m} /\ \A d \in Chats \ {c} : committed'[d] = committed[d]
      /\ late \subseteq late' /\ (m \notin late' => \A x \in committed[c] : x < m)
  BY Appended DEF TypeInv
<1>2. m \notin work.batch
  BY DEF Input
<1>3. \A d \in Chats \ {c} : InputOf(s, d)'
  BY <1>1 DEF Input, InputOf
<1>4. InputOf(s, c)'
  BY <1>1, <1>2 DEF Input, InputOf
<1>5. \A x \in work'.batch : \E d \in Chats : x \in committed'[d]
  BY <1>1 DEF Input
<1> QED
  BY <1>3, <1>4, <1>5 DEF Input

LEMMA DigestGrows ==
    ASSUME TypeInv, MessageInv, DigestInv, NEW c \in Chats, NEW m \in Messages, AppendMessage(c, m),
           \A d \in Chats : m \notin committed[d], UNCHANGED <<work, ckpt, seen, pc>>
    PROVE  DigestInv'
<1>1. /\ committed'[c] = committed[c] \cup {m} /\ \A d \in Chats \ {c} : committed'[d] = committed[d]
      /\ late \subseteq late' /\ (m \notin late' => \A x \in committed[c] : x < m)
  BY Appended DEF TypeInv
<1>n. /\ \A z \in Readers, d \in Chats : ckpt[z][d] \in Nat
      /\ \A d \in Chats : committed[d] \subseteq Messages
      /\ \A x \in Messages : x \in Nat /\ x > 0
  BY Numbers
<1>2. \A z \in Readers : seen[z][m] = 0
  BY DEF DigestInv
<1>3. m \notin late' => \A z \in Readers : ckpt[z][c] < m
  BY <1>1, <1>n DEF DigestInv
<1>4. ExactlyOnce'
  <2> SUFFICES ASSUME NEW z \in Readers, NEW d \in Chats, NEW x \in committed'[d]
               PROVE  \/ seen[z][x] = IF x <= ckpt[z][d] THEN 1 ELSE 0
                      \/ x \in late' /\ seen[z][x] = 0
    BY DEF ExactlyOnce
  <2>1. CASE x \in committed[d]
    BY <1>1, <2>1 DEF DigestInv, ExactlyOnce
  <2>2. CASE x \notin committed[d]
    <3>1. d = c /\ x = m
      BY <1>1, <2>2
    <3>2. x \in late' \/ ~(x <= ckpt[z][d])
      BY <1>3, <1>n, <3>1
    <3> QED
      BY <1>2, <3>1, <3>2
  <2> QED
    BY <2>1, <2>2
<1>5. (pc = "eventReply" => Input("event")') /\ (pc = "memoryReply" => Input("memory")')
  BY InputGrows DEF DigestInv, Readers
<1>6. /\ \A z \in Readers : \A x \in Messages : (\A d \in Chats : x \notin committed'[d]) => seen'[z][x] = 0
      /\ \A z \in Readers, d \in Chats : ckpt'[z][d] = 0 \/ ckpt'[z][d] \in committed'[d]
  BY <1>1 DEF DigestInv
<1> QED
  BY <1>4, <1>5, <1>6 DEF DigestInv

LEMMA DigestUntouched ==
    ASSUME DigestInv, UNCHANGED <<committed, late, ckpt, seen>>,
           pc' \in Replies => pc' = pc /\ work'.batch = work.batch /\ work'.upto = work.upto
    PROVE  DigestInv'
BY DEF DigestInv, ExactlyOnce, Input, InputOf, Replies

LEMMA DigestStep ==
    ASSUME TypeInv, MessageInv, DigestInv, Next
    PROVE  DigestInv'
<1>t. FaultTypes /\ ControlTypes /\ RunInv /\ WorkTypes /\ MsgTypes
  BY DEF TypeInv
<1>1. CASE Left
  <2>1. UNCHANGED <<committed, late, ckpt, seen>> /\ pc' \notin Replies
    BY <1>1, <1>t, LeftFacts DEF msgVars, progress, Replies
  <2> QED
    BY <2>1, DigestUntouched
<1>2. CASE StartEvent \/ StartMemory
  <2>1. /\ UNCHANGED <<committed, late, ckpt, seen>>
        /\ pc' = "eventReply" => work' = TakeInput("event")
        /\ pc' = "memoryReply" => work' = TakeInput("memory")
    BY <1>2 DEF StartEvent, StartMemory, GoTo, msgVars, progress
  <2>2. (pc' = "eventReply" => Input("event")') /\ (pc' = "memoryReply" => Input("memory")')
    BY <2>1, TakenInput DEF Readers
  <2> QED
    BY <2>1, <2>2 DEF DigestInv, ExactlyOnce
<1>3. CASE CommitEvents
  BY <1>3, CommittedInput DEF CommitEvents, GoTo, msgVars, DigestInv, Readers, Replies
<1>4. CASE CommitMemory
  BY <1>4, CommittedInput DEF CommitMemory, GoTo, msgVars, DigestInv, Readers, Replies
<1>5. ASSUME NEW c \in Chats, CommitInput(c) \/ CommitMessage(c)
      PROVE  DigestInv'
  <2>1. UNCHANGED <<work, ckpt, seen, pc>>
    BY <1>5 DEF CommitInput, CommitMessage, progress, control
  <2>2. \E m \in Messages : AppendMessage(c, m) /\ \A d \in Chats : m \notin committed[d]
    BY <1>5, <1>t, CommitCases
  <2> QED
    BY <2>1, <2>2, DigestGrows
<1>6. ASSUME NEW f \in File, Edit(f)
      PROVE  DigestInv'
  <2>1. UNCHANGED <<committed, late, ckpt, seen, pc>> /\ work'.batch = work.batch /\ work'.upto = work.upto
    BY <1>6, <1>t, WorkFacts DEF Edit, msgVars, progress
  <2> QED
    BY <2>1, DigestUntouched
<1>7. CASE LoadBundle \/ \E c \in Chats : Receive(c)
  <2>1. UNCHANGED <<committed, late, ckpt, seen, pc, work>>
    BY <1>7 DEF LoadBundle, Receive, msgVars, progress, control
  <2> QED
    BY <2>1, DigestUntouched
<1>8. CASE \/ StartCycle \/ Marks \/ Resumes \/ Collect \/ Create \/ Persists \/ Prepare
           \/ EventFails \/ EpisodicUpdate \/ MemoryFails
           \/ EnsureSnapshots \/ CheckBase \/ Conflict \/ Rename \/ Published \/ Start \/ Crash
           \/ \E c \in Chats : SkipSession(c) \/ ArchiveSession(c) \/ Truncate(c)
  <2>1. UNCHANGED <<committed, late, ckpt, seen>> /\ pc' \notin Replies
    BY <1>8 DEF StartCycle, Marks, Resumes, Collect, Create, Persists, Prepare, EventFails,
       EpisodicUpdate, MemoryFails, EnsureSnapshots, CheckBase, Conflict, Rename, Published, Start, Crash,
       SkipSession, ArchiveSession, Truncate, GoTo, msgVars, progress, control, Replies
  <2> QED
    BY <2>1, DigestUntouched
<1> QED
  BY <1>1, <1>2, <1>3, <1>4, <1>5, <1>6, <1>7, <1>8, <1>t, StepCases DEF GoesOn, Outside

(* A step that neither archives nor truncates keeps the archives in order   *)
(* if the sessions and the checkpoints stay as they are.                    *)
LEMMA ArchiveUntouched ==
    ASSUME ArchiveInv, UNCHANGED <<run, archive, session, committed, late, ckpt>>,
           pc' \in Early \cup Working => pc \in Early \cup Working,
           pc' = "truncate" => pc = "truncate" /\ work'.plan = work.plan /\ work'.loaded = work.loaded
    PROVE  ArchiveInv'
BY DEF ArchiveInv, Digested, TruncatedIsKept

(* The message is beyond every checkpoint, or late. *)
LEMMA ArchiveGrows ==
    ASSUME TypeInv, DigestInv, ArchiveInv, NEW c \in Chats, NEW m \in Messages, AppendMessage(c, m),
           \A d \in Chats : m \notin committed[d], UNCHANGED <<run, archive, ckpt, pc, work>>
    PROVE  ArchiveInv'
<1>1. /\ committed'[c] = committed[c] \cup {m} /\ \A d \in Chats \ {c} : committed'[d] = committed[d]
      /\ Range(session'[c]) = Range(session[c]) \cup {m}
      /\ \A d \in Chats \ {c} : session'[d] = session[d]
      /\ late \subseteq late' /\ (m \notin late' => \A x \in committed[c] : x < m)
  BY Appended DEF TypeInv
<1>n. /\ \A z \in Readers, d \in Chats : ckpt[z][d] \in Nat
      /\ \A d \in Chats : committed[d] \subseteq Messages
      /\ \A x \in Messages : x \in Nat /\ x > 0
  BY Numbers
<1>2. m \notin late' => ~Digested(c, m)
  BY <1>1, <1>n DEF DigestInv, Digested, Readers
<1>3. \A d \in Chats, x \in Messages : Digested(d, x)' <=> Digested(d, x)
  BY DEF Digested
<1>4. TruncatedIsKept'
  <2>1. \A d \in Chats : (committed'[d] \ Range(session'[d])) \ late'
                          \subseteq (committed[d] \ Range(session[d])) \ late
    BY <1>1
  <2> QED
    BY <2>1 DEF ArchiveInv, TruncatedIsKept
<1>5. ASSUME run # 0, NEW d \in Chats, archive[run][d] # {}, NEW x \in Range(session'[d]) \ late',
             Digested(d, x)
      PROVE  x \in archive[run][d]
  <2>1. x \in Range(session[d]) \ late
    BY <1>1, <1>2, <1>5
  <2> QED
    BY <1>5, <2>1 DEF ArchiveInv
<1>6. run' # 0 => \A d \in Chats : archive'[run'][d] # {} =>
         \A x \in Range(session'[d]) \ late' : Digested(d, x)' => x \in archive'[run'][d]
  BY <1>5 DEF Digested
<1>7. pc' = "truncate" => \A d \in work'.plan : \A x \in Range(work'.loaded) \ late' :
         x \in archive'[run'][d] /\ Digested(d, x)'
  BY <1>1 DEF ArchiveInv, Digested
<1> QED
  BY <1>4, <1>6, <1>7 DEF ArchiveInv

(* Everything an archivable session holds is digested. *)
LEMMA ArchivableIsDigested ==
    ASSUME TypeInv, MessageInv, NEW c \in Chats, Archivable(c), NEW m \in Range(session[c])
    PROVE  Digested(c, m)
<1>1. m \in committed[c]
  BY DEF MessageInv
<1>2. m <= Latest(c) /\ Latest(c) \in Nat /\ m \in Nat
  BY <1>1, LatestProperties, Numbers, Contents DEF TypeInv
<1>3. Latest(c) <= Boundary(c)
  BY DEF Archivable
<1>4. /\ Boundary(c) <= ckpt["event"][c] /\ Boundary(c) <= ckpt["memory"][c]
  BY BoundaryProperties DEF TypeInv
<1>5. ckpt["event"][c] \in Nat /\ ckpt["memory"][c] \in Nat
  BY Numbers DEF Readers
<1>6. Boundary(c) \in Nat
  <2>1. \E x \in {ckpt["event"][c], ckpt["memory"][c]} : \A y \in {ckpt["event"][c], ckpt["memory"][c]} : x <= y
    BY <1>5
  <2>2. Boundary(c) \in {ckpt["event"][c], ckpt["memory"][c]}
    BY <2>1 DEF Boundary, Min
  <2> QED
    BY <1>5, <2>2
<1> QED
  BY <1>2, <1>3, <1>4, <1>5, <1>6 DEF Digested, Readers

LEMMA ArchiveStep ==
    ASSUME TypeInv, MessageInv, DigestInv, ArchiveInv, Next
    PROVE  ArchiveInv'
<1>t. /\ FaultTypes /\ ControlTypes /\ RunInv /\ WorkTypes /\ MsgTypes
      /\ archive \in [Runs -> [Chats -> SUBSET Messages]] /\ run \in 0..MaxRuns /\ Runs = 1..MaxRuns
  BY DEF TypeInv, FileTypes, RowTypes, Runs
<1>1. CASE Left
  <2>1. /\ UNCHANGED <<run, archive, session, committed, late, ckpt>>
        /\ pc' \notin Early \cup Working /\ pc' # "truncate"
    BY <1>1, <1>t, LeftFacts DEF msgVars, progress, Early, Working
  <2> QED
    BY <2>1, ArchiveUntouched
<1>2. CASE CommitEvents \/ CommitMemory
  <2>1. /\ UNCHANGED <<run, archive, session, committed, late>> /\ pc \in Working /\ pc' \in Working
        /\ pc' # "truncate"
    BY <1>2 DEF CommitEvents, CommitMemory, GoTo, msgVars, fileVars, Working
  <2>2. \A z \in Readers, c \in Chats : ckpt[z][c] <= ckpt'[z][c]
    BY <1>2, CommittedInput DEF CommitEvents, CommitMemory, GoTo, msgVars, DigestInv, Readers, Replies
  <2>3. \A z \in Readers, c \in Chats : ckpt[z][c] \in Nat /\ ckpt'[z][c] \in Nat
    <3>1. TypeInv'
      BY TypeStep
    <3> QED
      BY <3>1, Contents DEF TypeInv, ProgressTypes
  <2>4. \A c \in Chats : archive[run][c] = {}
    BY <2>1 DEF ArchiveInv
  <2>5. TruncatedIsKept'
    <3> SUFFICES ASSUME NEW c \in Chats, NEW m \in (committed[c] \ Range(session[c])) \ late
                 PROVE  /\ \E r \in Runs : m \in archive[r][c]
                        /\ \A z \in Readers : m <= ckpt'[z][c]
      BY <2>1 DEF TruncatedIsKept
    <3>1. /\ \E r \in Runs : m \in archive[r][c]
          /\ \A z \in Readers : m <= ckpt[z][c]
      BY DEF ArchiveInv, TruncatedIsKept
    <3>2. m \in Nat
      BY Numbers
    <3> QED
      BY <2>2, <2>3, <3>1, <3>2
  <2> QED
    BY <2>1, <2>4, <2>5 DEF ArchiveInv
<1>3. CASE Create
  <2>1. /\ UNCHANGED <<archive, session, committed, late, ckpt>> /\ run' = run + 1 /\ pc' = "source"
        /\ run' \in Runs /\ run' > run
    BY <1>3, <1>t, Contents DEF Create, GoTo, msgVars, progress, fileVars, RunInv
  <2>2. \A c \in Chats : archive[run'][c] = {}
    BY <2>1 DEF ArchiveInv
  <2>3. \A r \in Runs : r > run' => r > run
    BY <2>1, <1>t, Contents
  <2> QED
    BY <2>1, <2>2, <2>3 DEF ArchiveInv, TruncatedIsKept
<1>4. ASSUME NEW c \in Chats, ArchiveSession(c)
      PROVE  ArchiveInv'
  <2>1. /\ UNCHANGED <<run, session, committed, late, ckpt>> /\ Archivable(c)
        /\ pc = "archive" /\ pc' \in {"archive", "truncate"}
    BY <1>4 DEF ArchiveSession, GoTo, msgVars, progress, rowVars
  <2>2. CASE UNCHANGED archive /\ pc' = "archive"
    BY <2>1, <2>2, ArchiveUntouched DEF Early, Working
  <2>3. CASE ~(UNCHANGED archive /\ pc' = "archive")
    <3>0. run \in Runs
      BY <2>1, <1>t, Contents DEF RunInv, Publishing, Running
    <3> DEFINE R == Range(session[c])
    <3>1. /\ archive' = IF archive[run][c] = {} THEN [archive EXCEPT ![run] = [archive[run] EXCEPT ![c] = R]]
                        ELSE archive
          /\ pc' = "truncate"
      BY <1>4, <2>3 DEF ArchiveSession, GoTo
    <3>2. work'.plan = {c} /\ work'.loaded = session[c]
      BY <1>4, <1>t, <3>1, ArchiveFacts
    <3>3. \A m \in R : Digested(c, m)
      BY <2>1, ArchivableIsDigested
    <3> HIDE DEF R
    <3>4. /\ \A r \in Runs, d \in Chats : r # run \/ d # c => archive'[r][d] = archive[r][d]
          /\ archive'[run][c] = IF archive[run][c] = {} THEN R ELSE archive[run][c]
      BY <3>0, <3>1, <1>t
    <3>5. \A m \in R \ late : m \in archive'[run][c]
      BY <3>0, <3>3, <3>4, Contents DEF ArchiveInv, Runs, R
    <3>6. \A r \in Runs, d \in Chats : archive[r][d] \subseteq archive'[r][d]
      BY <3>4
    <3>7. TruncatedIsKept'
      BY <2>1, <3>6 DEF ArchiveInv, TruncatedIsKept
    <3>8. ASSUME NEW d \in Chats, archive'[run][d] # {}, NEW m \in Range(session[d]) \ late, Digested(d, m)
          PROVE  m \in archive'[run][d]
      <4>1. CASE d = c
        BY <3>5, <3>8, <4>1 DEF R
      <4>2. CASE d # c
        BY <3>0, <3>4, <3>8, <4>2, Contents DEF ArchiveInv, Runs
      <4> QED
        BY <4>1, <4>2
    <3>9. \A r \in Runs, d \in Chats : r > run => archive'[r][d] = {}
      BY <3>0, <3>4, <1>t, Contents DEF ArchiveInv
    <3>10. \A d \in work'.plan : \A m \in Range(work'.loaded) \ late : m \in archive'[run][d] /\ Digested(d, m)'
      <4>1. \A m \in R : Digested(c, m)'
        BY <2>1, <3>3 DEF Digested
      <4> QED
        BY <3>2, <3>5, <4>1 DEF R
    <3>11. \A d \in Chats : \A m \in Range(session[d]) : Digested(d, m)' => Digested(d, m)
      BY <2>1 DEF Digested
    <3> QED
      BY <2>1, <3>1, <3>7, <3>8, <3>9, <3>10, <3>11 DEF ArchiveInv, Early, Working
  <2> QED
    BY <2>2, <2>3
<1>5. ASSUME NEW c \in Chats, Truncate(c)
      PROVE  ArchiveInv'
  <2>1. /\ UNCHANGED <<run, archive, committed, late, ckpt>> /\ pc = "truncate" /\ pc' = "archive"
        /\ c \in work.plan
        /\ \/ session' = session
           \/ session[c] = work.loaded /\ session' = [session EXCEPT ![c] = KeepRecent(session[c])]
    BY <1>5 DEF Truncate, GoTo, progress, rowVars, fileVars
  <2>2. CASE session' = session
    BY <2>1, <2>2, ArchiveUntouched DEF Early, Working
  <2>3. CASE session[c] = work.loaded /\ session' = [session EXCEPT ![c] = KeepRecent(session[c])]
    <3>0. run \in Runs
      BY <2>1, <1>t, Contents DEF RunInv, Publishing, Running
    <3>1. \A d \in Chats : Range(session'[d]) \subseteq Range(session[d]) /\ (d # c => session'[d] = session[d])
      <4>1. Range(KeepRecent(session[c])) \subseteq Range(session[c])
        BY <1>t, KeepRecentProperties DEF MsgTypes
      <4> QED
        BY <2>3, <4>1, <1>t DEF MsgTypes
    <3>2. \A m \in Range(session[c]) \ late : m \in archive[run][c] /\ Digested(c, m)
      BY <2>1, <2>3 DEF ArchiveInv
    <3>3. TruncatedIsKept'
      <4> SUFFICES ASSUME NEW d \in Chats, NEW m \in (committed[d] \ Range(session'[d])) \ late
                   PROVE  (\E r \in Runs : m \in archive[r][d]) /\ \A z \in Readers : m <= ckpt[z][d]
        BY <2>1 DEF TruncatedIsKept
      <4>1. CASE m \in Range(session[d])
        <5>1. d = c
          BY <3>1, <4>1
        <5> QED
          BY <3>0, <3>2, <4>1, <5>1 DEF Digested
      <4>2. CASE m \notin Range(session[d])
        BY <4>2 DEF ArchiveInv, TruncatedIsKept
      <4> QED
        BY <4>1, <4>2
    <3> QED
      BY <2>1, <3>1, <3>3 DEF ArchiveInv, Digested, Early, Working
  <2> QED
    BY <2>1, <2>2, <2>3
<1>6. ASSUME NEW c \in Chats, CommitInput(c) \/ CommitMessage(c)
      PROVE  ArchiveInv'
  <2>1. UNCHANGED <<run, archive, ckpt, pc, work>>
    BY <1>6 DEF CommitInput, CommitMessage, progress, control, rowVars, fileVars
  <2>2. \E m \in Messages : AppendMessage(c, m) /\ \A d \in Chats : m \notin committed[d]
    BY <1>6, <1>t, CommitCases
  <2> QED
    BY <2>1, <2>2, ArchiveGrows
<1>7. ASSUME NEW f \in File, Edit(f)
      PROVE  ArchiveInv'
  <2>1. /\ UNCHANGED <<run, archive, session, committed, late, ckpt, pc>>
        /\ work'.plan = work.plan /\ work'.loaded = work.loaded
    BY <1>7, <1>t, WorkFacts DEF Edit, msgVars, progress, rowVars
  <2> QED
    BY <2>1, ArchiveUntouched
<1>8. CASE LoadBundle \/ \E c \in Chats : Receive(c)
  <2>1. UNCHANGED <<run, archive, session, committed, late, ckpt, pc, work>>
    BY <1>8 DEF LoadBundle, Receive, msgVars, progress, control, rowVars, fileVars
  <2> QED
    BY <2>1, ArchiveUntouched
<1>9. CASE \/ StartCycle \/ Marks \/ Resumes \/ Collect \/ Persists \/ Prepare
           \/ StartEvent \/ EventFails \/ EpisodicUpdate \/ StartMemory \/ MemoryFails
           \/ EnsureSnapshots \/ CheckBase \/ Conflict \/ Rename \/ Published \/ Start \/ Crash
           \/ \E c \in Chats : SkipSession(c)
  <2>1. /\ UNCHANGED <<run, archive, session, committed, late, ckpt>>
        /\ (pc' \in Early \cup Working => pc \in Early \cup Working) /\ pc' # "truncate"
    BY <1>9 DEF StartCycle, Marks, Resumes, Collect, Persists, Prepare, StartEvent, EventFails,
       EpisodicUpdate, StartMemory, MemoryFails, EnsureSnapshots, CheckBase, Conflict, Rename, Published,
       Start, Crash, SkipSession, GoTo, msgVars, progress, control, rowVars, fileVars, Early, Working
  <2> QED
    BY <2>1, ArchiveUntouched
<1> QED
  BY <1>1, <1>2, <1>3, <1>4, <1>5, <1>6, <1>7, <1>8, <1>9, <1>t, StepCases DEF GoesOn, Outside

LEMMA KeepsInvariant == Spec => [](TypeInv /\ MessageInv /\ DigestInv /\ ArchiveInv)
<1> DEFINE I == TypeInv /\ MessageInv /\ DigestInv /\ ArchiveInv
<1>1. Init => I
  <2> SUFFICES ASSUME Init
               PROVE  I
    OBVIOUS
  <2>1. TypeInv
    BY TypeInit
  <2>2. /\ clock = 0 /\ pc = "recover" /\ run = 0
        /\ \A c \in Chats : inbox[c] = 0 /\ committed[c] = {} /\ session[c] = <<>>
        /\ \A s \in Readers : (\A m \in Messages : seen[s][m] = 0) /\ \A c \in Chats : ckpt[s][c] = 0
        /\ \A r \in Runs, c \in Chats : archive[r][c] = {}
    BY DEF Init
  <2>3. \A c \in Chats : Range(session[c]) = {}
    BY <2>2 DEF Range
  <2>4. MessageInv
    BY <2>2, <2>3 DEF MessageInv
  <2>5. DigestInv
    BY <2>2 DEF DigestInv, ExactlyOnce
  <2>6. ArchiveInv
    BY <2>2 DEF ArchiveInv, TruncatedIsKept, Early, Working
  <2> QED
    BY <2>1, <2>4, <2>5, <2>6
<1>2. I /\ [Next]_vars => I'
  <2> SUFFICES ASSUME I, [Next]_vars
               PROVE  I'
    OBVIOUS
  <2>1. TypeInv'
    BY TypeStep
  <2>2. CASE Next
    BY <2>1, <2>2, MessageStep, DigestStep, ArchiveStep
  <2>3. CASE UNCHANGED vars
    <3>1. UNCHANGED <<clock, inbox, committed, session, late, seen, ckpt, run, archive, pc, work>>
      BY <2>3 DEF vars, msgVars, progress, rowVars, fileVars, control
    <3>2. MessageInv'
      BY <3>1 DEF MessageInv
    <3>3. DigestInv'
      BY <3>1, DigestUntouched
    <3>4. ArchiveInv'
      BY <3>1, ArchiveUntouched
    <3> QED
      BY <2>1, <3>2, <3>3, <3>4
  <2> QED
    BY <2>2, <2>3
<1> QED
  BY <1>1, <1>2, PTL DEF Spec

(* The batches of sleep digest every message exactly once but for late      *)
(* ones, and no message leaves its session before it is digested and in an  *)
(* archive file: over failing batches and transactions, retries, crashes    *)
(* and turns that append meanwhile.                                         *)
THEOREM MessagesAreDigestedAndKept == Spec => []DigestedAndKept
<1>1. DigestInv /\ ArchiveInv => DigestedAndKept
  BY DEF DigestInv, ArchiveInv, DigestedAndKept
<1> QED
  BY <1>1, KeepsInvariant, PTL
=============================================================================
