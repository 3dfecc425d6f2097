---------------------------- MODULE VaultFileProofs ----------------------------
(***************************************************************************)
(* Proofs about VaultFile, for every set of files, contents and write-     *)
(* backs, and for every choice of what the person and the peer do.         *)
(***************************************************************************)
EXTENDS VaultFile, SequenceTheorems, TLAPS

JobRecords == Jobs({"idle", "reading", "saving"})
WatcherRecords ==
    [path : Files, live : BOOLEAN, event : BOOLEAN, timer : BOOLEAN, pending : BOOLEAN,
     job : JobRecords]
TaskRecords ==
    [step : {"free", "reading", "asking", "checking", "renaming"},
     vault : Maybe(Files), bytes : Maybe(Contents), tracked : BOOLEAN]
UserRecords ==
    Jobs({"idle", "importing", "reopening", "watching", "rereading", "saving", "stopping",
          "placing"})
SessionRecords ==
    [phase : {"none", "joining", "about"}, vault : Maybe(Files), known : SUBSET Contents]

(* The store, and what a file that is bound holds.  A vault that is not    *)
(* known has no revision.                                                  *)
Placed == {f \in Files : disk[f] # Nothing}
StoreSound ==
    /\ disk \in [Files -> Maybe(Contents)] /\ locked \subseteq Files
    /\ fresh \subseteq AllEdits \cup Arrivals
    /\ vaults \in Seq(Files) /\ IsInjective(vaults)
    /\ bound \subseteq Known /\ bound \subseteq Placed
    /\ recorded \in [Files -> SUBSET Contents] /\ head \in [Files -> Maybe(Contents)]
    /\ \A f \in Files : head[f] \in Maybe(recorded[f])
    /\ \A f \in Files : disk[f] \in recorded[f] \cup Edits[f] \cup {Origin[f], Nothing}
    /\ \A f \in Files \ Known : recorded[f] = {}

(* A delivery that saves: the vault is known, and a row that was read with *)
(* a path is the row of a file that is there.                              *)
Saves(job) == /\ job.vault \in Known /\ job.bytes \in Contents
              /\ job.wasBound => job.vault \in Placed
SoundJobs == {job \in JobRecords : job.step = "saving" => Saves(job)}
SoundWatchers == {w \in WatcherRecords : w.job \in SoundJobs}

(* A write-back carries a version of the vault it writes to.               *)
SoundTasks ==
    {t \in TaskRecords : t.step # "free" => t.vault \in Known /\ t.bytes \in recorded[t.vault]}

SoundSessions ==
    {s \in SessionRecords : s.vault \in Maybe(Known) /\ (s.phase = "about" => s.vault \in Known)}

(* The person's operation, apart from an import.                           *)
SoundUsers ==
    {u \in UserRecords :
        /\ u.step = "saving" => Saves(u)
        /\ u.step = "placing" => u.vault \in Known /\ u.bytes \in recorded[u.vault]
        /\ u.step \in {"reopening", "watching", "rereading"} => u.vault \in Known}

(* An import holds what a person saved in a file nobody knows yet.         *)
ImportSound ==
    user.step = "importing" =>
        /\ user.vault \in Placed \ Known
        /\ user.bytes \in Contents \cap (Edits[user.vault] \cup {Origin[user.vault]})

(* A new watcher has room; only a running program has an operation.        *)
WatchersBounded ==
    /\ ~ running => user.step = "idle"
    /\ Len(watchers) <= MaxWatchers /\ current \in 0..Len(watchers)
    /\ user.step \in {"importing", "placing", "reopening", "watching"} => Len(watchers) < MaxWatchers

AppSound ==
    /\ active \in Maybe(Known) /\ running \in BOOLEAN /\ heldBack \in BOOLEAN
    /\ watchers \in Seq(SoundWatchers)
    /\ tasks \in [Slots -> SoundTasks]
    /\ user \in SoundUsers /\ ImportSound /\ WatchersBounded
    /\ syncing \in SoundSessions

(* The inductive invariant.                                                *)
VaultInv == StoreSound /\ AppSound

-----------------------------------------------------------------------------
(* What the invariant means for TypeOK and the files.                      *)
LEMMA InvMeansTypes == VaultInv => TypeOK
<1> SUFFICES ASSUME VaultInv PROVE TypeOK
  OBVIOUS
<1> USE DEF VaultInv, StoreSound, AppSound
<1>1. Known \subseteq Files
  BY DEF Known, Range
<1>2. \A i \in DOMAIN watchers : watchers[i] \in SoundWatchers
  OBVIOUS
<1>3. \A i \in DOMAIN watchers :
           watchers[i] \in [path : Files, live : BOOLEAN, event : BOOLEAN, timer : BOOLEAN,
                            pending : BOOLEAN, job : Jobs({"idle", "reading", "saving"})]
  BY <1>2 DEF SoundWatchers, WatcherRecords, JobRecords
<1>4. syncing \in [phase : {"none", "joining", "about"}, vault : Maybe(Known), known : SUBSET Contents]
  BY DEF SoundSessions, SessionRecords
<1>5. user \in UserRecords
  BY DEF SoundUsers
<1>6. tasks \in [Slots -> TaskRecords]
  BY DEF SoundTasks
<1>7. \A f \in Files : head[f] \in recorded[f] \cup {Nothing}
  BY DEF Maybe
<1>8. QED
  BY <1>1, <1>3, <1>4, <1>5, <1>6, <1>7 DEF TypeOK, UserRecords, TaskRecords, WatchersBounded

(* A file that is bound holds a version of its vault, or what a person did *)
(* to it.                                                                  *)
FilesHoldTheirs == \A f \in bound : disk[f] \in recorded[f] \cup Own(f)

(* The invariant contains that.                                            *)
LEMMA InvMeansFiles == VaultInv => FilesHoldTheirs
  BY DEF VaultInv, StoreSound, FilesHoldTheirs, Placed, Own

-----------------------------------------------------------------------------
(* Steps only add: vaults, revisions, and files that are there.            *)
Grows ==
    /\ Known \subseteq Known' /\ Placed \subseteq Placed'
    /\ \A f \in Files : recorded[f] \subseteq recorded'[f]

(* So what was sound stays sound.                                          *)
LEMMA SoundsGrow ==
    ASSUME StoreSound, Grows
    PROVE  /\ Known \subseteq Files /\ Maybe(Known) \subseteq Maybe(Known')
           /\ SoundJobs \subseteq SoundJobs' /\ SoundTasks \subseteq SoundTasks'
           /\ SoundWatchers \subseteq SoundWatchers'
           /\ Seq(SoundWatchers) \subseteq Seq(SoundWatchers')
           /\ SoundUsers \subseteq SoundUsers' /\ SoundSessions \subseteq SoundSessions'
<1>1. Known \subseteq Files
  BY DEF StoreSound, Known, Range
<1>2. \A job : Saves(job) => Saves(job)'
  BY DEF Grows, Saves
<1>3. SoundJobs \subseteq SoundJobs'
  BY <1>2 DEF SoundJobs
<1>4. SoundWatchers \subseteq SoundWatchers'
  BY <1>3 DEF SoundWatchers
<1>5. Seq(SoundWatchers) \subseteq Seq(SoundWatchers')
  BY <1>4
<1>6. SoundTasks \subseteq SoundTasks'
  BY <1>1 DEF SoundTasks, Grows
<1>7. SoundUsers \subseteq SoundUsers'
  BY <1>1, <1>2 DEF SoundUsers, Grows
<1>8. SoundSessions \subseteq SoundSessions' /\ Maybe(Known) \subseteq Maybe(Known')
  BY DEF SoundSessions, Grows, Maybe
<1>9. QED
  BY <1>1, <1>3, <1>4, <1>5, <1>6, <1>7, <1>8

(* A step that leaves the store and the disk alone.                        *)
LEMMA StoreKept ==
    ASSUME StoreSound, UNCHANGED <<disk, store>>, locked' \subseteq Files
    PROVE  StoreSound' /\ Grows /\ Known' = Known
  BY DEF StoreSound, Grows, store, Known, Placed

(* The records that operations begin with are sound in any state.          *)
LEMMA Beginnings ==
    /\ Idle \in SoundJobs /\ Idle \in SoundUsers
    /\ FreeSlot \in SoundTasks /\ NoSession \in SoundSessions
    /\ \A f \in Files : Watching(f) \in SoundWatchers
    /\ Doing("reading", Nothing, Nothing) \in SoundJobs
    /\ Doing("stopping", Nothing, Nothing) \in SoundUsers
<1> USE DEF Idle, FreeSlot, NoSession, Doing, Maybe, Jobs
<1>1. Idle \in SoundJobs /\ Idle \in SoundUsers
  BY DEF SoundJobs, SoundUsers, JobRecords, UserRecords
<1>2. FreeSlot \in SoundTasks /\ NoSession \in SoundSessions
  BY DEF SoundTasks, SoundSessions, TaskRecords, SessionRecords
<1>3. Doing("reading", Nothing, Nothing) \in SoundJobs
  BY DEF SoundJobs, JobRecords
<1>4. Doing("stopping", Nothing, Nothing) \in SoundUsers
  BY DEF SoundUsers, UserRecords
<1>5. \A f \in Files : Watching(f) \in SoundWatchers
  BY <1>1 DEF Watching, SoundWatchers, WatcherRecords, SoundJobs
<1>6. QED
  BY <1>1, <1>2, <1>3, <1>4, <1>5

(* A watcher is replaced by another record.                                *)
LEMMA OneWatcher ==
    ASSUME watchers \in Seq(SoundWatchers), NEW i \in DOMAIN watchers, NEW w \in SoundWatchers,
           Watcher(i, w)
    PROVE  /\ watchers' \in Seq(SoundWatchers) /\ Len(watchers') = Len(watchers)
           /\ watchers'[i] = w
           /\ \A j \in DOMAIN watchers : j # i => watchers'[j] = watchers[j]
  BY ExceptSeq DEF Watcher

(* The event chokidar raises changes nothing but the event flags.          *)
LEMMA NoticedWatchers ==
    ASSUME watchers \in Seq(SoundWatchers), NEW f \in Files, watchers' = Noticed(f)
    PROVE  /\ watchers' \in Seq(SoundWatchers) /\ Len(watchers') = Len(watchers)
           /\ \A i \in DOMAIN watchers : /\ watchers'[i].path = watchers[i].path
                                         /\ watchers'[i].live = watchers[i].live
                                         /\ watchers'[i].job = watchers[i].job
                                         /\ watchers'[i].timer = watchers[i].timer
                                         /\ watchers'[i].pending = watchers[i].pending
                                         /\ watchers[i].event => watchers'[i].event
                                         /\ watchers[i].live /\ watchers[i].path = f => watchers'[i].event
<1>1. ASSUME NEW i \in DOMAIN watchers
      PROVE  /\ watchers'[i] \in SoundWatchers
             /\ watchers'[i].path = watchers[i].path
             /\ watchers'[i].live = watchers[i].live
             /\ watchers'[i].job = watchers[i].job
             /\ watchers'[i].timer = watchers[i].timer
             /\ watchers'[i].pending = watchers[i].pending
             /\ watchers[i].event => watchers'[i].event
             /\ watchers[i].live /\ watchers[i].path = f => watchers'[i].event
  <2>1. PICK w \in SoundWatchers : w = watchers[i]
    BY <1>1
  <2>2. PICK e \in BOOLEAN : e <=> (w.event \/ (w.live /\ w.path = f))
    OBVIOUS
  <2>3. w.event \in BOOLEAN /\ w.live \in BOOLEAN
    BY DEF SoundWatchers, WatcherRecords
  <2>4. watchers'[i] = [w EXCEPT !.event = e]
    BY <1>1, <2>1, <2>2, <2>3 DEF Noticed
  <2>5. QED
    BY <2>1, <2>2, <2>3, <2>4 DEF SoundWatchers, WatcherRecords
<1>2. DOMAIN watchers = 1..Len(watchers) /\ Len(watchers) \in Nat
  OBVIOUS
<1>3. watchers' = [i \in 1..Len(watchers) |-> watchers'[i]]
  BY <1>2 DEF Noticed
<1>4. watchers' \in Seq(SoundWatchers)
  BY <1>1, <1>2, <1>3, IsASeq
<1>5. Len(watchers') = Len(watchers)
  BY <1>2, <1>3, <1>4, LenProperties
<1>6. QED
  BY <1>1, <1>4, <1>5

(* stop: the watcher of now raises no more events; deliveries go on.       *)
LEMMA StoppedWatchers ==
    ASSUME watchers \in Seq(SoundWatchers), current \in 0..Len(watchers), watchers' = Stopped
    PROVE  /\ watchers' \in Seq(SoundWatchers) /\ Len(watchers') = Len(watchers)
           /\ \A i \in DOMAIN watchers : /\ watchers'[i].job = watchers[i].job
                                         /\ watchers'[i].path = watchers[i].path
<1>1. CASE current = 0
  BY <1>1 DEF Stopped
<1>2. CASE current # 0
  <2>1. current \in DOMAIN watchers
    BY <1>2
  <2>2. PICK w \in SoundWatchers : w = watchers[current]
    BY <2>1
  <2> DEFINE stopped == [w EXCEPT !.live = FALSE, !.event = FALSE, !.timer = FALSE]
  <2>3. stopped \in SoundWatchers /\ stopped.job = w.job /\ stopped.path = w.path
    BY DEF SoundWatchers, WatcherRecords
  <2>4. watchers' = [watchers EXCEPT ![current] = stopped]
    BY <1>2, <2>2 DEF Stopped
  <2> HIDE DEF stopped
  <2>5. QED
    BY <2>1, <2>2, <2>3, <2>4, ExceptSeq
<1>3. QED
  BY <1>1, <1>2

(* The device at the start.                                                *)
LEMMA InitVault == Init => VaultInv
<1> SUFFICES ASSUME Init PROVE VaultInv
  OBVIOUS
<1> USE VaultFileAssumption
<1>1. PICK setup \in Setups :
        LET on == IF setup = "tracking" THEN {Tracked} ELSE {}
        IN  /\ disk = [f \in Files |-> IF setup = "tracking" THEN Origin[f] ELSE Nothing]
            /\ locked = {}
            /\ fresh = AllEdits \cup Arrivals
            /\ vaults = IF on = {} THEN <<>> ELSE <<Tracked>>
            /\ recorded = [f \in Files |-> IF f \in on THEN {Origin[f]} ELSE {}]
            /\ head = [f \in Files |-> IF f \in on THEN Origin[f] ELSE Nothing]
            /\ bound = on
            /\ active = IF on = {} THEN Nothing ELSE Tracked
            /\ running = TRUE
            /\ watchers = IF on = {} THEN <<>> ELSE << Watching(Tracked) >>
            /\ current = Len(watchers)
            /\ heldBack = FALSE
            /\ tasks = [s \in Slots |-> FreeSlot]
            /\ user = Idle
            /\ syncing = NoSession
  BY DEF Init
<1> DEFINE on == IF setup = "tracking" THEN {Tracked} ELSE {}
<1>2. Known = on /\ vaults \in Seq(Files) /\ IsInjective(vaults)
  <2>1. CASE on = {}
    BY <1>1, <2>1, EmptySeq DEF Known, Range, IsInjective
  <2>2. CASE on = {Tracked}
    <3>1. vaults = <<Tracked>> /\ vaults \in Seq(Files) /\ Len(vaults) = 1 /\ vaults[1] = Tracked
      BY <1>1, <2>2
    <3>2. DOMAIN vaults = {1}
      BY <3>1
    <3>3. QED
      BY <3>1, <3>2, <2>2 DEF Known, Range, IsInjective
  <2>3. QED
    BY <1>1, <2>1, <2>2
<1>3. StoreSound
  <2>1. disk \in [Files -> Maybe(Contents)] /\ on \subseteq Placed
    BY <1>1 DEF Maybe, Placed
  <2>2. recorded \in [Files -> SUBSET Contents] /\ head \in [Files -> Maybe(Contents)]
    BY <1>1 DEF Maybe
  <2>3. \A f \in Files : head[f] \in Maybe(recorded[f])
    BY <1>1 DEF Maybe
  <2>4. \A f \in Files : disk[f] \in recorded[f] \cup Edits[f] \cup {Origin[f], Nothing}
    BY <1>1
  <2>5. \A f \in Files \ Known : recorded[f] = {}
    BY <1>1, <1>2
  <2>6. QED
    BY <1>1, <1>2, <2>1, <2>2, <2>3, <2>4, <2>5 DEF StoreSound
<1>4. watchers \in Seq(SoundWatchers) /\ Len(watchers) \in {0, 1}
  <2>1. Watching(Tracked) \in SoundWatchers
    BY Beginnings
  <2>2. CASE on = {}
    BY <1>1, <2>2, EmptySeq
  <2>3. CASE on # {}
    <3>1. watchers = << Watching(Tracked) >>
      BY <1>1, <2>3
    <3>2. QED
      BY <2>1, <3>1
  <2>4. QED
    BY <2>2, <2>3
<1>5. user.step = "idle" /\ WatchersBounded /\ ImportSound
  <2>1. user.step = "idle"
    BY <1>1 DEF Idle
  <2>2. QED
    BY <1>1, <1>4, <2>1 DEF WatchersBounded, ImportSound
<1>6. active \in Maybe(Known)
  BY <1>1, <1>2 DEF Maybe
<1>7. tasks \in [Slots -> SoundTasks]
  BY <1>1, Beginnings
<1>8. AppSound
  BY <1>1, <1>4, <1>5, <1>6, <1>7, Beginnings DEF AppSound
<1>9. QED
  BY <1>3, <1>8 DEF VaultInv

-----------------------------------------------------------------------------
(* All that a step has to show that leaves the store and the disk alone.   *)
LEMMA AppSettles ==
    ASSUME VaultInv, UNCHANGED <<disk, store>>, locked' \subseteq Files,
           active' \in Maybe(Known), running' \in BOOLEAN, heldBack' \in BOOLEAN,
           watchers' \in Seq(SoundWatchers), tasks' \in [Slots -> SoundTasks],
           user' \in SoundUsers,
           user'.step = "importing" =>
               /\ user'.vault \in Placed \ Known
               /\ user'.bytes \in Contents \cap (Edits[user'.vault] \cup {Origin[user'.vault]}),
           WatchersBounded', syncing' \in SoundSessions
    PROVE  VaultInv'
<1>1. StoreSound' /\ Grows /\ Known' = Known /\ Placed' = Placed
  BY StoreKept DEF VaultInv, Placed
<1>2. /\ active' \in Maybe(Known') /\ watchers' \in Seq(SoundWatchers')
      /\ tasks' \in [Slots -> SoundTasks'] /\ user' \in SoundUsers' /\ syncing' \in SoundSessions'
  BY <1>1, SoundsGrow DEF VaultInv
<1>3. ImportSound'
  BY <1>1 DEF ImportSound
<1>4. QED
  BY <1>1, <1>2, <1>3 DEF VaultInv, AppSound

(* KeePassXC opens and closes a file.                                      *)
LEMMA LockKeeps ==
    ASSUME VaultInv, NEW f \in Files, Open(f) \/ CloseEditor(f)
    PROVE  VaultInv'
<1>1. UNCHANGED <<disk, store, active, app>> /\ locked' \subseteq Files
  BY DEF Open, CloseEditor, VaultInv, StoreSound
<1>2. QED
  BY <1>1, AppSettles DEF VaultInv, AppSound, ImportSound, app, WatchersBounded

(* deliver's end.                                                          *)
LEMMA DeliveredSound ==
    ASSUME NEW w \in SoundWatchers
    PROVE  Delivered(w) \in SoundWatchers /\ Delivered(w).job = Idle
           /\ Delivered(w).path = w.path /\ Delivered(w).live = w.live
           /\ Delivered(w).event = w.event /\ (Delivered(w).timer <=> w.timer \/ w.pending)
<1>1. w.timer \in BOOLEAN /\ w.pending \in BOOLEAN
  BY DEF SoundWatchers, WatcherRecords
<1>2. PICK on \in BOOLEAN : on <=> (w.timer \/ w.pending)
  OBVIOUS
<1>3. PICK idle \in SoundJobs : idle = Idle
  BY Beginnings
<1>4. Delivered(w) = [w EXCEPT !.job = idle, !.timer = on, !.pending = FALSE]
  BY <1>1, <1>2, <1>3 DEF Delivered
<1>5. QED
  BY <1>2, <1>3, <1>4 DEF SoundWatchers, WatcherRecords, SoundJobs

(* What is about to be saved.                                              *)
LEMMA SavingSound ==
    ASSUME StoreSound, NEW v \in Known, NEW bytes \in Contents
    PROVE  /\ Saving(v, bytes) \in JobRecords /\ Saving(v, bytes) \in UserRecords
           /\ Saving(v, bytes).step = "saving" /\ Saves(Saving(v, bytes))
           /\ Saving(v, bytes).vault = v /\ Saving(v, bytes).bytes = bytes
           /\ (Saving(v, bytes).wasBound <=> v \in bound)
<1>1. v \in Files /\ (v \in bound => v \in Placed)
  BY DEF StoreSound, Known, Range
<1>2. (v \in bound) \in BOOLEAN
  OBVIOUS
<1>3. QED
  BY <1>1, <1>2 DEF Saving, JobRecords, UserRecords, Jobs, Maybe, Saves

(* The debounce timer, and the read.                                       *)
LEMMA DeliveryKeeps ==
    ASSUME VaultInv, NEW i \in DOMAIN watchers, Schedule(i) \/ Deliver(i) \/ ReadFile(i)
    PROVE  VaultInv'
<1>1. /\ UNCHANGED <<disk, store, locked, active, running, current, heldBack, tasks, user, syncing>>
  BY DEF Schedule, Deliver, ReadFile
<1>2. PICK w \in SoundWatchers : w = watchers[i]
  BY DEF VaultInv, AppSound
<1>3. w \in WatcherRecords /\ w.job \in SoundJobs
  BY DEF SoundWatchers
<1>4. PICK new \in SoundWatchers : Watcher(i, new)
  <2>1. CASE Schedule(i)
    <3>1. [w EXCEPT !.event = FALSE, !.timer = TRUE] \in SoundWatchers
      BY <1>3 DEF SoundWatchers, WatcherRecords
    <3>2. QED
      BY <1>2, <2>1, <3>1 DEF Schedule
  <2>2. CASE Deliver(i)
    <3>1. [w EXCEPT !.timer = FALSE, !.pending = TRUE] \in SoundWatchers
      BY <1>3 DEF SoundWatchers, WatcherRecords
    <3>2. PICK reading \in SoundJobs : reading = Doing("reading", Nothing, Nothing)
      BY Beginnings
    <3>3. [w EXCEPT !.timer = FALSE, !.job = reading] \in SoundWatchers
      BY <1>3, <3>2 DEF SoundWatchers, WatcherRecords, SoundJobs
    <3>4. QED
      BY <1>2, <2>2, <3>1, <3>2, <3>3 DEF Deliver
  <2>3. CASE ReadFile(i)
    <3>1. Delivered(w) \in SoundWatchers
      BY <1>3, DeliveredSound
    <3>2. ASSUME disk[w.path] # Nothing, active # Nothing
          PROVE  [w EXCEPT !.job = Saving(active, disk[w.path])] \in SoundWatchers
      <4>1. active \in Known /\ active \in Files /\ disk[w.path] \in Contents
        BY <1>3, <3>2 DEF VaultInv, StoreSound, AppSound, Maybe, WatcherRecords, Known, Range
      <4>2. PICK job \in SoundJobs : job = Saving(active, disk[w.path])
        BY <4>1, SavingSound DEF VaultInv, SoundJobs
      <4>3. [w EXCEPT !.job = job] \in SoundWatchers
        BY <1>3, <4>2 DEF SoundWatchers, WatcherRecords, SoundJobs
      <4>4. QED
        BY <4>2, <4>3
    <3>3. QED
      BY <1>2, <2>3, <3>1, <3>2 DEF ReadFile
  <2>4. QED
    BY <2>1, <2>2, <2>3
<1>5. watchers' \in Seq(SoundWatchers) /\ Len(watchers') = Len(watchers)
  BY <1>4, OneWatcher DEF VaultInv, AppSound
<1>6. QED
  BY <1>1, <1>5, AppSettles DEF VaultInv, AppSound, StoreSound, ImportSound, WatchersBounded

(* A write-back moves on, begins or gives up.                              *)
LEMMA TaskKeeps ==
    ASSUME VaultInv, NEW s \in Slots, NEW t \in SoundTasks, Task(s, t), heldBack' \in BOOLEAN,
           UNCHANGED <<disk, locked, store, active, running, watchers, current, user, syncing>>
    PROVE  VaultInv'
<1>1. tasks' \in [Slots -> SoundTasks]
  BY DEF Task, VaultInv, AppSound
<1>2. QED
  BY <1>1, AppSettles DEF VaultInv, AppSound, StoreSound, ImportSound, WatchersBounded

(* A write-back takes a step that does not reach the file.                 *)
LEMMA TaskMoves ==
    ASSUME VaultInv, NEW s \in Slots,
           CompareFile(s) \/ HoldBack(s) \/ LoadBytes(s) \/ RefuseWrite(s) \/ WriteTemp(s)
    PROVE  VaultInv'
<1>1. PICK old \in SoundTasks : old = tasks[s]
  BY DEF VaultInv, AppSound
<1>2. tasks[s].step # "free"
  BY DEF CompareFile, HoldBack, LoadBytes, RefuseWrite, WriteTemp
<1>3. \A step \in {"asking", "checking", "renaming"} : [old EXCEPT !.step = step] \in SoundTasks
  BY <1>1, <1>2 DEF SoundTasks, TaskRecords
<1>4. heldBack' \in BOOLEAN
  BY DEF VaultInv, AppSound, CompareFile, HoldBack, LoadBytes, RefuseWrite, WriteTemp
<1>5. UNCHANGED <<disk, locked, store, active, running, watchers, current, user, syncing>>
  BY DEF CompareFile, HoldBack, LoadBytes, RefuseWrite, WriteTemp
<1>6. \E t \in SoundTasks : Task(s, t)
  BY <1>1, <1>3, Beginnings DEF CompareFile, HoldBack, LoadBytes, RefuseWrite, WriteTemp
<1>7. QED
  BY <1>4, <1>5, <1>6, TaskKeeps

(* What a write-back takes with it is a version of its vault.              *)
LEMMA MaterializesSound ==
    ASSUME StoreSound, NEW v \in Maybe(Known), NEW h, v \in Known => h \in Maybe(recorded[v])
    PROVE  Materializes(v, h) \in SoundTasks
<1>1. Known \subseteq Files /\ recorded \in [Files -> SUBSET Contents]
  BY DEF StoreSound, Known, Range
<1>2. CASE v = Nothing \/ v \notin bound \/ h = Nothing
  BY <1>2, Beginnings DEF Materializes
<1>3. CASE ~ (v = Nothing \/ v \notin bound \/ h = Nothing)
  BY <1>1, <1>3 DEF Materializes, SoundTasks, TaskRecords, Maybe
<1>4. QED
  BY <1>2, <1>3

(* A write-back begins: it carries bytes its vault has recorded.           *)
LEMMA TaskBegins ==
    ASSUME VaultInv, NEW s \in Slots,
           \/ PollUnlock(s) \/ ApplyPendingUpdate(s)
           \/ \E c \in Contents, i \in BOOLEAN : WriteBack(s, c, i)
    PROVE  VaultInv'
<1>1. UNCHANGED <<disk, locked, store, active, running, watchers, current, user, syncing>>
  BY DEF PollUnlock, ApplyPendingUpdate, WriteBack
<1>2. heldBack' \in BOOLEAN
  BY DEF PollUnlock, ApplyPendingUpdate, WriteBack, VaultInv, AppSound
<1>3. active \in Known /\ Known \subseteq Files
  <2>1. active \in bound /\ bound \subseteq Known
    BY DEF PollUnlock, ApplyPendingUpdate, WriteBack, VaultInv, StoreSound
  <2>2. Known \subseteq Files
    BY DEF VaultInv, StoreSound, Known, Range
  <2>3. QED
    BY <2>1, <2>2
<1>4. CASE PollUnlock(s) \/ ApplyPendingUpdate(s)
  <2>1. PICK v \in Known : v = active
    BY <1>3
  <2>2. PICK t : t = Materializes(v, head[v])
    OBVIOUS
  <2>3. t \in SoundTasks
    BY <1>3, <2>2, MaterializesSound DEF VaultInv, StoreSound, Maybe
  <2>4. Task(s, t)
    BY <1>4, <2>1, <2>2 DEF PollUnlock, ApplyPendingUpdate
  <2>5. QED
    BY <1>1, <1>2, <2>3, <2>4, TaskKeeps
<1>5. ASSUME NEW c \in Contents, NEW i \in BOOLEAN, WriteBack(s, c, i)
      PROVE  VaultInv'
  <2> DEFINE t == [step |-> IF i THEN "renaming" ELSE "checking",
                   vault |-> active, bytes |-> c, tracked |-> FALSE]
  <2>1. t \in SoundTasks
    BY <1>3, <1>5 DEF WriteBack, SoundTasks, TaskRecords, Maybe
  <2>2. Task(s, t)
    BY <1>5 DEF WriteBack
  <2> HIDE DEF t
  <2>3. \E new \in SoundTasks : Task(s, new)
    BY <2>1, <2>2
  <2>4. QED
    BY <1>1, <1>2, <2>3, TaskKeeps
<1>6. QED
  BY <1>4, <1>5

-----------------------------------------------------------------------------
(* Steps that change the store or the disk: what they leave alone.         *)
LEMMA RestStays ==
    ASSUME VaultInv, StoreSound', Grows
    PROVE  /\ active \in Maybe(Known') /\ tasks \in [Slots -> SoundTasks']
           /\ user \in SoundUsers' /\ syncing \in SoundSessions'
           /\ watchers \in Seq(SoundWatchers)
           /\ Seq(SoundWatchers) \subseteq Seq(SoundWatchers')
           /\ user' = user /\ Known' = Known => ImportSound'
<1>1. /\ active \in Maybe(Known') /\ tasks \in [Slots -> SoundTasks']
      /\ user \in SoundUsers' /\ syncing \in SoundSessions'
      /\ watchers \in Seq(SoundWatchers)
      /\ Seq(SoundWatchers) \subseteq Seq(SoundWatchers')
  BY SoundsGrow DEF VaultInv, AppSound
<1>2. user' = user /\ Known' = Known => ImportSound'
  BY DEF VaultInv, AppSound, ImportSound, Grows
<1>3. QED
  BY <1>1, <1>2

(* recordLocalChange's transaction.                                        *)
LEMMA CommitKeeps ==
    ASSUME StoreSound, NEW job, Saves(job), CommitChange(job),
           UNCHANGED <<disk, locked, fresh, vaults>>
    PROVE  StoreSound' /\ Grows /\ Known' = Known
<1> USE DEF StoreSound, CommitChange, Saves
<1>1. Known' = Known /\ Known \subseteq Files /\ Placed' = Placed
  BY DEF Known, Range, Placed
<1>2. PICK v \in Known : v = job.vault
  OBVIOUS
<1>3. PICK c \in Contents : c = job.bytes
  OBVIOUS
<1>4. recorded' = [recorded EXCEPT ![v] = @ \cup {c}] /\ head' = [head EXCEPT ![v] = c]
  BY <1>2, <1>3
<1>5. /\ recorded' \in [Files -> SUBSET Contents] /\ head' \in [Files -> Maybe(Contents)]
      /\ \A f \in Files : recorded[f] \subseteq recorded'[f]
      /\ \A f \in Files : head'[f] \in Maybe(recorded'[f])
      /\ \A f \in Files \ Known : recorded'[f] = {}
  BY <1>1, <1>4 DEF Maybe
<1>6. bound' \subseteq Known /\ bound' \subseteq Placed
  BY <1>2
<1>7. Grows
  BY <1>1, <1>5 DEF Grows
<1>8. StoreSound'
  BY <1>1, <1>5, <1>6
<1>9. QED
  BY <1>1, <1>7, <1>8

(* The watcher records what it read.                                       *)
LEMMA RecordKeeps ==
    ASSUME VaultInv, NEW i \in DOMAIN watchers, RecordChange(i)
    PROVE  VaultInv'
<1>1. PICK w \in SoundWatchers : w = watchers[i]
  BY DEF VaultInv, AppSound
<1>2. Saves(w.job) /\ CommitChange(w.job)
  BY <1>1 DEF RecordChange, SoundWatchers, SoundJobs
<1>3. StoreSound' /\ Grows /\ Known' = Known
  BY <1>2, CommitKeeps DEF RecordChange, VaultInv
<1>4. PICK new \in SoundWatchers : new = Delivered(w)
  BY DeliveredSound
<1>5. watchers' \in Seq(SoundWatchers) /\ Len(watchers') = Len(watchers)
  <2>1. Watcher(i, new)
    BY <1>1, <1>4 DEF RecordChange
  <2>2. QED
    BY <2>1, OneWatcher DEF VaultInv, AppSound
<1>6. UNCHANGED <<active, running, current, tasks, user, syncing>> /\ heldBack' = FALSE
  BY DEF RecordChange
<1>7. ImportSound'
  BY <1>3, <1>6, RestStays
<1>8. QED
  BY <1>3, <1>5, <1>6, <1>7, RestStays DEF VaultInv, AppSound, WatchersBounded

(* bindVault records what it read of a file known before.                  *)
LEMMA RerecordKeeps == VaultInv /\ RerecordFile => VaultInv'
<1> SUFFICES ASSUME VaultInv, RerecordFile PROVE VaultInv'
  OBVIOUS
<1>1. PICK u \in SoundUsers : u = user /\ u.step = "saving"
  BY DEF VaultInv, AppSound, RerecordFile
<1>2. Saves(u) /\ CommitChange(u)
  BY <1>1 DEF RerecordFile, SoundUsers
<1>3. StoreSound' /\ Grows /\ Known' = Known
  BY <1>2, CommitKeeps DEF RerecordFile, VaultInv
<1>4. /\ UNCHANGED <<active, running, watchers, current, tasks, syncing>> /\ heldBack' = FALSE
      /\ user' = Idle
  BY DEF RerecordFile
<1>5. user' \in SoundUsers' /\ user'.step = "idle"
  BY <1>3, <1>4, Beginnings, SoundsGrow DEF VaultInv, Idle
<1>6. ImportSound' /\ WatchersBounded'
  BY <1>4, <1>5 DEF ImportSound, WatchersBounded, VaultInv, AppSound
<1>7. QED
  BY <1>3, <1>4, <1>5, <1>6, RestStays DEF VaultInv, AppSound

(* A save, a write-back or a new file: what is written belongs there.      *)
LEMMA DiskKeeps ==
    ASSUME StoreSound, NEW f \in Files, NEW c \in Contents, fresh' \subseteq fresh,
           c \in recorded[f] \cup Edits[f], disk' = [disk EXCEPT ![f] = c],
           bound' \subseteq Known, bound' \subseteq bound \cup {f},
           UNCHANGED <<locked, vaults, recorded, head>>
    PROVE  StoreSound' /\ Grows /\ Known' = Known
<1> USE VaultFileAssumption DEF StoreSound
<1>1. Known' = Known
  BY DEF Known
<1>2. /\ disk' \in [Files -> Maybe(Contents)] /\ disk'[f] = c /\ c # Nothing
      /\ \A g \in Files \ {f} : disk'[g] = disk[g]
  BY DEF Maybe
<1>3. Placed \subseteq Placed' /\ f \in Placed'
  BY <1>2 DEF Placed
<1>4. bound' \subseteq Placed'
  BY <1>3
<1>5. \A g \in Files : disk'[g] \in recorded'[g] \cup Edits[g] \cup {Origin[g], Nothing}
  BY <1>2
<1>6. QED
  BY <1>1, <1>2, <1>3, <1>4, <1>5 DEF Grows

(* The person saves in another program: the file has bytes of its own      *)
(* vault.                                                                  *)
LEMMA SaveKeeps ==
    ASSUME VaultInv, NEW f \in Files, NEW c \in Edits[f], Save(f, c)
    PROVE  VaultInv'
<1>1. c \in Contents
  BY VaultFileAssumption
<1>2. StoreSound' /\ Grows /\ Known' = Known
  BY <1>1, DiskKeeps DEF VaultInv, Save, StoreSound
<1>3. UNCHANGED <<active, running, current, heldBack, tasks, user, syncing>>
  BY DEF Save
<1>4. watchers' \in Seq(SoundWatchers) /\ Len(watchers') = Len(watchers)
  BY NoticedWatchers DEF Save, VaultInv, AppSound
<1>5. ImportSound'
  BY <1>2, <1>3, RestStays
<1>6. QED
  BY <1>2, <1>3, <1>4, <1>5, RestStays DEF VaultInv, AppSound, WatchersBounded

(* A write-back replaces the file with bytes its vault has recorded.       *)
LEMMA RenameKeeps ==
    ASSUME VaultInv, NEW s \in Slots, Rename(s)
    PROVE  VaultInv'
<1>1. PICK t \in SoundTasks : t = tasks[s]
  BY DEF VaultInv, AppSound
<1>2. PICK f \in Known : f = t.vault /\ t.bytes \in recorded[f]
  BY <1>1 DEF SoundTasks, Rename
<1>3. PICK c \in Contents : c = t.bytes /\ f \in Files /\ c \in recorded[f]
  BY <1>2 DEF VaultInv, StoreSound, Known, Range
<1>4. disk' = [disk EXCEPT ![f] = c] /\ watchers' = Noticed(f)
  BY <1>1, <1>2, <1>3 DEF Rename, WriteTarget
<1>5. UNCHANGED <<locked, store, active, running, current, user, syncing>>
  BY DEF Rename
<1>6. StoreSound' /\ Grows /\ Known' = Known
  BY <1>3, <1>4, <1>5, DiskKeeps DEF VaultInv, StoreSound, store
<1>7. watchers' \in Seq(SoundWatchers) /\ Len(watchers') = Len(watchers)
  BY <1>3, <1>4, NoticedWatchers DEF VaultInv, AppSound
<1>8. ImportSound' /\ heldBack' \in BOOLEAN
  BY <1>5, <1>6, RestStays DEF Rename, VaultInv, AppSound
<1>9. tasks' \in [Slots -> SoundTasks']
  <2>1. FreeSlot \in SoundTasks'
    BY <1>6, Beginnings, SoundsGrow DEF VaultInv
  <2>2. tasks' = [tasks EXCEPT ![s] = FreeSlot]
    BY DEF Rename, Task
  <2>3. QED
    BY <1>6, <2>1, <2>2, RestStays
<1>10. QED
  BY <1>5, <1>6, <1>7, <1>8, <1>9, RestStays DEF VaultInv, AppSound, WatchersBounded

(* A head moves to a version of the vault, and is written back.            *)
LEMMA HeadKeeps ==
    ASSUME VaultInv, NEW s \in Slots, NEW v \in Known, NEW c \in Contents,
           c \in recorded'[v], head' = [head EXCEPT ![v] = c], fresh' \subseteq fresh,
           recorded' = [recorded EXCEPT ![v] = @ \cup {c}],
           Task(s, Materializes(v, c)),
           active' = v, syncing' \in SoundSessions,
           UNCHANGED <<disk, locked, vaults, bound, running, watchers, current, heldBack, user>>
    PROVE  VaultInv'
<1>1. StoreSound' /\ Grows /\ Known' = Known
  <2> USE DEF VaultInv, StoreSound
  <2>1. Known' = Known /\ Known \subseteq Files /\ Placed' = Placed
    BY DEF Known, Range, Placed
  <2>2. /\ recorded' \in [Files -> SUBSET Contents] /\ head' \in [Files -> Maybe(Contents)]
        /\ \A f \in Files : recorded[f] \subseteq recorded'[f]
        /\ \A f \in Files : head'[f] \in Maybe(recorded'[f])
        /\ \A f \in Files \ Known : recorded'[f] = {}
    BY <2>1 DEF Maybe
  <2>3. Grows
    BY <2>1, <2>2 DEF Grows
  <2>4. QED
    BY <2>1, <2>2, <2>3
<1>2. tasks' \in [Slots -> SoundTasks']
  <2>1. PICK t : t = Materializes(v, c)
    OBVIOUS
  <2>2. t \in SoundTasks'
    <3>1. v \in Known' /\ v \in Files
      BY <1>1 DEF VaultInv, StoreSound, Known, Range
    <3>2. FreeSlot \in SoundTasks'
      BY <1>1, Beginnings, SoundsGrow DEF VaultInv
    <3>3. QED
      BY <2>1, <3>1, <3>2 DEF Materializes, SoundTasks, TaskRecords, Maybe
  <2>3. tasks' = [tasks EXCEPT ![s] = t]
    BY <2>1 DEF Task
  <2>4. QED
    BY <1>1, <2>2, <2>3, RestStays
<1>3. ImportSound'
  BY <1>1, RestStays
<1>4. active' \in Maybe(Known') /\ syncing' \in SoundSessions'
  BY <1>1, SoundsGrow DEF Maybe, VaultInv
<1>5. QED
  BY <1>1, <1>2, <1>3, <1>4, RestStays DEF VaultInv, AppSound, WatchersBounded

(* A version is put in use and written back.                               *)
LEMMA PromoteKeeps ==
    ASSUME VaultInv, NEW s \in Slots, NEW c \in Contents, Promote(s, c)
    PROVE  VaultInv'
<1>1. PICK v \in Known : v = active
  BY DEF Promote, VaultInv, AppSound, Maybe
<1>2. /\ c \in recorded'[v] /\ head' = [head EXCEPT ![v] = c] /\ fresh' = fresh
      /\ Task(s, Materializes(v, c)) /\ active' = v
      /\ UNCHANGED <<disk, locked, vaults, recorded, bound, running, watchers, current, heldBack, user>>
  BY <1>1 DEF Promote
<1>3. recorded' = [recorded EXCEPT ![v] = @ \cup {c}]
  <2>1. recorded \in [Files -> SUBSET Contents]
    BY DEF VaultInv, StoreSound
  <2>2. recorded[v] \cup {c} = recorded[v]
    BY <1>1, <1>2
  <2>3. QED
    BY <1>2, <2>1, <2>2
<1>4. syncing' \in SoundSessions
  BY DEF Promote, VaultInv, AppSound
<1>5. QED
  BY <1>2, <1>3, <1>4, HeadKeeps

(* A session ends, with new revisions and a head of the vault it was       *)
(* about.                                                                  *)
LEMMA EndSessionKeeps ==
    ASSUME VaultInv, NEW s \in Slots, NEW c \in Contents, EndSession(s, c)
    PROVE  VaultInv'
<1>1. PICK v \in Known : v = syncing.vault
  BY DEF EndSession, RemoteAhead, VaultInv, AppSound, SoundSessions
<1>2. /\ head' = [head EXCEPT ![v] = c] /\ fresh' \subseteq fresh
      /\ recorded' = [recorded EXCEPT ![v] = @ \cup {c}]
      /\ Task(s, Materializes(v, c)) /\ active' = v
      /\ UNCHANGED <<disk, locked, vaults, bound, running, watchers, current, heldBack, user>>
  BY <1>1 DEF EndSession
<1>3. c \in recorded'[v]
  BY <1>1, <1>2 DEF VaultInv, StoreSound, Known, Range
<1>4. syncing' \in SoundSessions
  BY Beginnings DEF EndSession
<1>5. QED
  BY <1>2, <1>3, <1>4, HeadKeeps

-----------------------------------------------------------------------------
(* Sessions begin and end without moving a head.                           *)
LEMMA SessionKeeps ==
    ASSUME VaultInv, BeginSession \/ \E failed \in BOOLEAN : EndSessionIdle(failed)
    PROVE  VaultInv'
<1>1. /\ UNCHANGED <<disk, store, locked, running, watchers, current, heldBack, tasks, user>>
  BY DEF BeginSession, EndSessionIdle
<1>2. Known \subseteq Files /\ recorded \in [Files -> SUBSET Contents]
  BY DEF VaultInv, StoreSound, Known, Range
<1>3. active' \in Maybe(Known)
  BY DEF BeginSession, EndSessionIdle, VaultInv, AppSound, SoundSessions
<1>4. syncing' \in SoundSessions
  <2>1. CASE BeginSession
    <3>1. [NoSession EXCEPT !.phase = "joining"] \in SoundSessions
      BY DEF NoSession, SoundSessions, SessionRecords, Maybe
    <3>2. ASSUME active # Nothing
          PROVE  [phase |-> "about", vault |-> active, known |-> recorded[active]] \in SoundSessions
      <4>1. active \in Known
        BY <3>2 DEF VaultInv, AppSound, Maybe
      <4>2. QED
        BY <1>2, <4>1 DEF SoundSessions, SessionRecords, Maybe
    <3>3. QED
      BY <2>1, <3>1, <3>2 DEF BeginSession
  <2>2. CASE \E failed \in BOOLEAN : EndSessionIdle(failed)
    BY <2>2, Beginnings DEF EndSessionIdle
  <2>3. QED
    BY <2>1, <2>2
<1>5. QED
  BY <1>1, <1>3, <1>4, AppSettles DEF VaultInv, AppSound, StoreSound, ImportSound, WatchersBounded

(* A vault is added at the end of the list.                                *)
LEMMA VaultAppended ==
    ASSUME vaults \in Seq(Files), IsInjective(vaults), NEW v \in Files \ Known,
           vaults' = Append(vaults, v)
    PROVE  /\ vaults' \in Seq(Files) /\ IsInjective(vaults')
           /\ Known' = Known \cup {v}
<1>1. /\ vaults' \in Seq(Files) /\ Len(vaults') = Len(vaults) + 1
      /\ \A i \in 1..Len(vaults) : vaults'[i] = vaults[i]
      /\ vaults'[Len(vaults) + 1] = v
  BY AppendProperties
<1>2. /\ Len(vaults) \in Nat /\ DOMAIN vaults = 1..Len(vaults)
      /\ DOMAIN vaults' = 1..(Len(vaults) + 1)
  BY <1>1
<1>3. \A i \in DOMAIN vaults' : i \in DOMAIN vaults \/ i = Len(vaults) + 1
  BY <1>2
<1>4. DOMAIN vaults \subseteq DOMAIN vaults' /\ Len(vaults) + 1 \in DOMAIN vaults'
  BY <1>2
<1>5. \A i \in DOMAIN vaults : vaults[i] # v
  BY DEF Known, Range
<1>6. IsInjective(vaults')
  BY <1>1, <1>2, <1>3, <1>5 DEF IsInjective
<1>7. Known' = Known \cup {v}
  BY <1>1, <1>2, <1>3, <1>4 DEF Known, Range
<1>8. QED
  BY <1>1, <1>6, <1>7

(* A device without a vault takes on a peer's, which has no file yet.      *)
LEMMA AdoptKeeps ==
    ASSUME VaultInv, NEW v \in Files, AdoptVault(v)
    PROVE  VaultInv'
<1>1. UNCHANGED <<disk, locked, fresh, recorded, head, bound, running, watchers, current, heldBack, tasks, user>>
  BY DEF AdoptVault
<1>2. /\ vaults' \in Seq(Files) /\ IsInjective(vaults') /\ Known \subseteq Known' /\ v \in Known'
      /\ Known' \subseteq Known \cup {v}
  <2>1. CASE v \in Known
    BY <2>1 DEF AdoptVault, VaultInv, StoreSound, Known
  <2>2. CASE v \notin Known
    <3>1. vaults' = Append(vaults, v)
      BY <2>2 DEF AdoptVault
    <3>2. QED
      BY <2>2, <3>1, VaultAppended DEF VaultInv, StoreSound
  <2>3. QED
    BY <2>1, <2>2
<1>3. StoreSound' /\ Grows
  BY <1>1, <1>2 DEF VaultInv, StoreSound, Grows, Placed
<1>4. active' \in Maybe(Known') /\ syncing' \in SoundSessions'
  <2>1. active' = v /\ syncing' = [phase |-> "about", vault |-> v, known |-> recorded[v]]
    BY DEF AdoptVault
  <2>2. recorded[v] \subseteq Contents
    BY DEF VaultInv, StoreSound
  <2>3. QED
    BY <1>2, <2>1, <2>2 DEF SoundSessions, SessionRecords, Maybe
<1>5. ImportSound'
  <2>1. user.step = "importing" => user.vault # v
    BY DEF AdoptVault
  <2>2. Placed' = Placed
    BY <1>1 DEF Placed
  <2>3. QED
    BY <1>1, <1>2, <2>1, <2>2 DEF ImportSound, VaultInv, AppSound
<1>6. QED
  BY <1>1, <1>3, <1>4, <1>5, RestStays DEF VaultInv, AppSound, WatchersBounded

-----------------------------------------------------------------------------
(* The person changes what is tracked.                                     *)
LEMMA DoingSound ==
    ASSUME StoreSound, NEW v \in Files, NEW bytes \in Maybe(Contents),
           NEW step \in {"importing", "reopening", "watching", "rereading", "placing"},
           step # "importing" => v \in Known,
           step = "placing" => bytes \in recorded[v]
    PROVE  /\ Doing(step, v, bytes) \in SoundUsers
           /\ Doing(step, v, bytes).step = step /\ Doing(step, v, bytes).vault = v
           /\ Doing(step, v, bytes).bytes = bytes
  BY DEF Doing, SoundUsers, UserRecords, Jobs, Maybe

(* A file is bound whose vault is known.                                   *)
LEMMA BindKnownKeeps ==
    ASSUME VaultInv, NEW f \in Files, BindKnown(f)
    PROVE  VaultInv'
<1>1. UNCHANGED <<disk, store, locked, running, current, heldBack, tasks, syncing>>
  BY DEF BindKnown
<1>2. f \in Known /\ active' \in Maybe(Known) /\ Len(watchers) < MaxWatchers
  BY DEF BindKnown, CanRebind, VaultInv, StoreSound, Maybe
<1>3. watchers' \in Seq(SoundWatchers) /\ Len(watchers') = Len(watchers)
  BY StoppedWatchers DEF BindKnown, VaultInv, AppSound, WatchersBounded
<1>4. user' \in SoundUsers /\ user'.step = "reopening"
  BY <1>2, DoingSound DEF BindKnown, VaultInv, Maybe
<1>5. running
  BY DEF BindKnown, CanRebind
<1>6. QED
  BY <1>1, <1>2, <1>3, <1>4, <1>5, AppSettles DEF VaultInv, AppSound, StoreSound, WatchersBounded

(* A file is bound that was never seen: it is read first.                  *)
LEMMA BindNewKeeps ==
    ASSUME VaultInv, NEW f \in Files, BindNew(f)
    PROVE  VaultInv'
<1>1. UNCHANGED <<disk, store, locked, active, running, watchers, current, heldBack, tasks, syncing>>
  BY DEF BindNew
<1>2. f \in Placed \ Known /\ Len(watchers) < MaxWatchers
  BY DEF BindNew, CanRebind, Placed
<1>3. PICK c \in Contents : c = disk[f] /\ c \in Edits[f] \cup {Origin[f]}
  BY <1>2 DEF VaultInv, StoreSound, Maybe, Placed
<1>4. user' \in SoundUsers /\ user'.step = "importing" /\ user'.vault = f /\ user'.bytes = c
  BY <1>3, DoingSound DEF BindNew, VaultInv, Maybe
<1>5. running
  BY DEF BindNew, CanRebind
<1>6. QED
  BY <1>1, <1>2, <1>3, <1>4, <1>5, AppSettles DEF VaultInv, AppSound, StoreSound, WatchersBounded

(* The bytes that were read become the first revision of a vault.          *)
LEMMA ImportKeeps == VaultInv /\ ImportBound => VaultInv'
<1> SUFFICES ASSUME VaultInv, ImportBound PROVE VaultInv'
  OBVIOUS
<1>1. PICK f \in Files \ Known : f = user.vault /\ f \in Placed
  BY DEF ImportBound, VaultInv, AppSound, ImportSound, Placed
<1>2. PICK c \in Contents : c = user.bytes /\ c \in Edits[f] \cup {Origin[f]}
  BY <1>1 DEF ImportBound, VaultInv, AppSound, ImportSound
<1>3. /\ vaults' = Append(vaults, f) /\ recorded' = [recorded EXCEPT ![f] = {c}]
      /\ head' = [head EXCEPT ![f] = c] /\ bound' = bound \cup {f} /\ active' = f
      /\ watchers' = Stopped /\ user' = Doing("watching", f, Nothing)
      /\ UNCHANGED <<disk, locked, fresh, running, current, heldBack, tasks, syncing>>
  BY <1>1, <1>2 DEF ImportBound
<1>4. vaults' \in Seq(Files) /\ IsInjective(vaults') /\ Known' = Known \cup {f}
  BY <1>1, <1>3, VaultAppended DEF VaultInv, StoreSound
<1>5. Placed' = Placed
  BY <1>3 DEF Placed
<1>6. StoreSound' /\ Grows
  <2> USE DEF VaultInv, StoreSound
  <2>1. recorded[f] = {}
    BY <1>1
  <2>2. /\ recorded' \in [Files -> SUBSET Contents] /\ head' \in [Files -> Maybe(Contents)]
        /\ recorded'[f] = {c} /\ head'[f] = c
        /\ \A g \in Files \ {f} : recorded'[g] = recorded[g] /\ head'[g] = head[g]
    BY <1>1, <1>3 DEF Maybe
  <2>3. /\ \A g \in Files : recorded[g] \subseteq recorded'[g]
        /\ \A g \in Files : head'[g] \in Maybe(recorded'[g])
        /\ \A g \in Files \ Known' : recorded'[g] = {}
    BY <1>4, <2>1, <2>2 DEF Maybe
  <2>4. \A g \in Files : disk'[g] \in recorded'[g] \cup Edits[g] \cup {Origin[g], Nothing}
    BY <1>3, <2>3
  <2>5. bound' \subseteq Known' /\ bound' \subseteq Placed'
    BY <1>1, <1>3, <1>4, <1>5
  <2>6. StoreSound'
    BY <1>3, <1>4, <2>2, <2>3, <2>4, <2>5
  <2>7. QED
    BY <1>4, <1>5, <2>3, <2>6 DEF Grows
<1>7. watchers' \in Seq(SoundWatchers) /\ Len(watchers') = Len(watchers)
  BY <1>3, StoppedWatchers DEF VaultInv, AppSound, WatchersBounded
<1>8. user' \in SoundUsers' /\ user'.step = "watching"
  BY <1>1, <1>3, <1>4 DEF Doing, SoundUsers, UserRecords, Jobs, Maybe
<1>9. ImportSound' /\ WatchersBounded' /\ active' \in Maybe(Known')
  <2>1. Len(watchers) < MaxWatchers /\ current \in 0..Len(watchers) /\ running
    BY DEF ImportBound, VaultInv, AppSound, WatchersBounded
  <2>2. Len(watchers) \in Nat /\ MaxWatchers \in Nat
    BY VaultFileAssumption DEF VaultInv, AppSound
  <2>3. QED
    BY <1>3, <1>4, <1>7, <1>8, <2>1, <2>2 DEF ImportSound, WatchersBounded, Maybe
<1>10. QED
  BY <1>3, <1>6, <1>7, <1>8, <1>9, RestStays DEF VaultInv, AppSound

(* The bound file gets its watcher, and the earlier one ends.              *)
LEMMA StartKeeps == VaultInv /\ StartWatching => VaultInv'
<1> SUFFICES ASSUME VaultInv, StartWatching PROVE VaultInv'
  OBVIOUS
<1>1. UNCHANGED <<disk, locked, store, active, running, heldBack, tasks, syncing>>
  BY DEF StartWatching
<1>2. PICK f \in Known : f = user.vault /\ f \in Files
  BY DEF StartWatching, VaultInv, AppSound, SoundUsers, StoreSound, Known, Range
<1>3. PICK w \in SoundWatchers : w = Watching(f)
  BY <1>2, Beginnings
<1>4. watchers' = Append(watchers, w) /\ current' = Len(watchers) + 1
  BY <1>2, <1>3 DEF StartWatching
<1>5. /\ watchers \in Seq(SoundWatchers) /\ Len(watchers) < MaxWatchers
      /\ Len(watchers) \in Nat /\ MaxWatchers \in Nat
  BY VaultFileAssumption DEF StartWatching, VaultInv, AppSound, WatchersBounded
<1>6. watchers' \in Seq(SoundWatchers) /\ Len(watchers') = Len(watchers) + 1
  BY <1>4, <1>5, AppendProperties
<1>7. user' \in SoundUsers /\ user'.step \in {"idle", "rereading"}
  <2>1. CASE user.step = "reopening" /\ active \in bound
    <3>1. active \in Known /\ active \in Files
      BY <2>1 DEF VaultInv, StoreSound, Known, Range
    <3>2. QED
      BY <2>1, <3>1, DoingSound DEF StartWatching, VaultInv, Maybe
  <2>2. CASE ~ (user.step = "reopening" /\ active \in bound)
    BY <2>2, Beginnings DEF StartWatching, Idle
  <2>3. QED
    BY <2>1, <2>2
<1>8. WatchersBounded'
  <2>1. running'
    BY <1>1 DEF StartWatching, VaultInv, AppSound, WatchersBounded
  <2>2. QED
    BY <1>4, <1>5, <1>6, <1>7, <2>1 DEF WatchersBounded
<1>9. QED
  BY <1>1, <1>6, <1>7, <1>8, AppSettles DEF VaultInv, AppSound, StoreSound

(* bindVault reads the file of a known vault.                              *)
LEMMA RereadKeeps == VaultInv /\ RereadFile => VaultInv'
<1> SUFFICES ASSUME VaultInv, RereadFile PROVE VaultInv'
  OBVIOUS
<1>1. UNCHANGED <<disk, locked, store, active, running, watchers, current, heldBack, tasks, syncing>>
  BY DEF RereadFile
<1>2. PICK f \in Known : f = user.vault /\ f \in Files
  BY DEF RereadFile, VaultInv, AppSound, SoundUsers, StoreSound, Known, Range
<1>3. user' \in SoundUsers /\ user'.step \in {"idle", "saving"}
  <2>1. CASE disk[f] \in {Nothing, head[f]}
    BY <1>2, <2>1, Beginnings DEF RereadFile, Idle
  <2>2. CASE disk[f] \notin {Nothing, head[f]}
    <3>1. PICK c \in Contents : c = disk[f]
      BY <1>2, <2>2 DEF VaultInv, StoreSound, Maybe
    <3>2. user' = Saving(f, c)
      BY <1>2, <2>2, <3>1 DEF RereadFile
    <3>3. QED
      BY <3>2, SavingSound DEF SoundUsers, VaultInv
  <2>3. QED
    BY <2>1, <2>2
<1>4. running
  BY DEF RereadFile, VaultInv, AppSound, WatchersBounded
<1>5. QED
  BY <1>1, <1>3, <1>4, AppSettles DEF VaultInv, AppSound, StoreSound, WatchersBounded

(* Tracking ends: the binding goes, then the watcher.                      *)
LEMMA StopKeeps ==
    ASSUME VaultInv, StopTrackingVault \/ TrackingStopped
    PROVE  VaultInv'
<1>1. UNCHANGED <<disk, locked, store, running, tasks, syncing>>
  BY DEF StopTrackingVault, TrackingStopped
<1>2. active' \in Maybe(Known) /\ heldBack' \in BOOLEAN
  BY DEF StopTrackingVault, TrackingStopped, VaultInv, AppSound, Maybe
<1>3. watchers' \in Seq(SoundWatchers) /\ Len(watchers') = Len(watchers)
  BY StoppedWatchers DEF StopTrackingVault, TrackingStopped, VaultInv, AppSound, WatchersBounded
<1>4. user' \in SoundUsers /\ user'.step \in {"stopping", "idle"}
  <2>1. Idle.step = "idle" /\ Doing("stopping", Nothing, Nothing).step = "stopping"
    BY DEF Doing, Idle
  <2>2. user' \in {Idle, Doing("stopping", Nothing, Nothing)}
    BY DEF StopTrackingVault, TrackingStopped
  <2>3. QED
    BY <2>1, <2>2, Beginnings
<1>5. current' \in {0, current}
  BY DEF StopTrackingVault, TrackingStopped
<1>6. WatchersBounded'
  <2>1. running'
    BY <1>1 DEF StopTrackingVault, TrackingStopped, VaultInv, AppSound, WatchersBounded
  <2>2. QED
    BY <1>3, <1>4, <1>5, <2>1 DEF WatchersBounded, VaultInv, AppSound
<1>7. QED
  BY <1>1, <1>2, <1>3, <1>4, <1>6, AppSettles DEF VaultInv, AppSound, StoreSound

(* saveVaultAs reads the head of the vault it places.                      *)
LEMMA SaveAsKeeps == VaultInv /\ SaveVaultAs => VaultInv'
<1> SUFFICES ASSUME VaultInv, SaveVaultAs PROVE VaultInv'
  OBVIOUS
<1>1. UNCHANGED <<disk, locked, store, active, running, watchers, current, heldBack, tasks, syncing>>
  BY DEF SaveVaultAs
<1>2. PICK f \in Known : f = active /\ f \in Files
  <2>1. active \in Known
    BY DEF SaveVaultAs, VaultInv, AppSound, Maybe
  <2>2. Known \subseteq Files
    BY DEF VaultInv, StoreSound, Known, Range
  <2>3. QED
    BY <2>1, <2>2
<1>3. PICK c \in Contents : c = head[f] /\ c \in recorded[f]
  BY <1>2 DEF SaveVaultAs, VaultInv, StoreSound, Maybe
<1>4. user' \in SoundUsers /\ user'.step = "placing"
  <2>1. user' = Doing("placing", f, c)
    BY <1>2, <1>3 DEF SaveVaultAs
  <2>2. QED
    BY <1>2, <1>3, <2>1, DoingSound DEF VaultInv, Maybe
<1>5. Len(watchers) < MaxWatchers
  BY DEF SaveVaultAs, CanRebind
<1>6. running
  BY DEF SaveVaultAs, CanRebind
<1>7. QED
  BY <1>1, <1>4, <1>5, <1>6, AppSettles DEF VaultInv, AppSound, StoreSound, WatchersBounded

(* The chosen file is written: it holds a recorded version of its vault.   *)
LEMMA PlacedKeeps == VaultInv /\ FilePlaced => VaultInv'
<1> SUFFICES ASSUME VaultInv, FilePlaced PROVE VaultInv'
  OBVIOUS
<1>1. PICK f \in Known : f = user.vault /\ f \in Files
  BY DEF FilePlaced, VaultInv, AppSound, SoundUsers, StoreSound, Known, Range
<1>2. PICK c \in Contents : c = user.bytes /\ c \in recorded[f]
  BY <1>1 DEF FilePlaced, VaultInv, AppSound, SoundUsers, StoreSound
<1>3. /\ disk' = [disk EXCEPT ![f] = c] /\ bound' = bound \cup {f}
      /\ watchers' = Stopped /\ user' = Doing("watching", f, Nothing)
      /\ UNCHANGED <<locked, fresh, vaults, recorded, head, active, running, current, heldBack, tasks, syncing>>
  BY <1>1, <1>2 DEF FilePlaced
<1>4. StoreSound' /\ Grows /\ Known' = Known
  BY <1>1, <1>2, <1>3, DiskKeeps DEF VaultInv, StoreSound
<1>5. watchers' \in Seq(SoundWatchers) /\ Len(watchers') = Len(watchers)
  BY <1>3, StoppedWatchers DEF VaultInv, AppSound, WatchersBounded
<1>6. user' \in SoundUsers' /\ user'.step = "watching"
  <2>1. user' \in SoundUsers /\ user'.step = "watching"
    BY <1>1, <1>3, DoingSound DEF VaultInv, Maybe
  <2>2. QED
    BY <1>4, <2>1, SoundsGrow DEF VaultInv
<1>7. ImportSound' /\ WatchersBounded'
  <2>1. Len(watchers) < MaxWatchers /\ current \in 0..Len(watchers) /\ running
    BY DEF FilePlaced, VaultInv, AppSound, WatchersBounded
  <2>2. Len(watchers) \in Nat /\ MaxWatchers \in Nat
    BY VaultFileAssumption DEF VaultInv, AppSound
  <2>3. QED
    BY <1>3, <1>5, <1>6, <2>1, <2>2 DEF ImportSound, WatchersBounded
<1>8. QED
  BY <1>3, <1>4, <1>5, <1>6, <1>7, RestStays DEF VaultInv, AppSound

-----------------------------------------------------------------------------
(* The program ends and starts again.                                      *)
LEMMA QuitKeeps == VaultInv /\ Quit => VaultInv'
<1> SUFFICES ASSUME VaultInv, Quit PROVE VaultInv'
  OBVIOUS
<1>1. watchers' \in Seq(SoundWatchers) /\ Len(watchers') = 0 /\ current' = 0
  BY EmptySeq DEF Quit
<1>2. user' \in SoundUsers /\ user'.step = "idle" /\ tasks' \in [Slots -> SoundTasks]
  BY Beginnings DEF Quit, Idle
<1>3. WatchersBounded'
  BY <1>1, <1>2, VaultFileAssumption DEF WatchersBounded
<1>4. QED
  BY <1>1, <1>2, <1>3, AppSettles, Beginnings DEF Quit, VaultInv, AppSound, StoreSound

(* The program starts again, on the vault it had or another it knows.      *)
LEMMA LaunchKeeps == VaultInv /\ Launch => VaultInv' /\ active' \in {active} \cup Known
<1> SUFFICES ASSUME VaultInv, Launch PROVE VaultInv' /\ active' \in {active} \cup Known
  OBVIOUS
<1>1. UNCHANGED <<disk, locked, store, heldBack, tasks, user, syncing>> /\ running' = TRUE
  BY DEF Launch
<1>2. Known \subseteq Files /\ vaults \in Seq(Files)
  BY DEF VaultInv, StoreSound, Known, Range
<1>3. active' \in {active} \cup Known
  <2>1. CASE Known = {}
    BY <2>1 DEF Launch, Reopened
  <2>2. CASE Known # {}
    <3>1. DOMAIN vaults # {} /\ DOMAIN vaults = 1..Len(vaults) /\ Len(vaults) \in Nat
      BY <1>2, <2>2 DEF Known, Range
    <3>2. Len(vaults) \in DOMAIN vaults
      BY <3>1
    <3>3. Last(vaults) \in Known
      BY <3>2 DEF Last, Known, Range
    <3>4. QED
      BY <3>3 DEF Launch, Reopened
  <2>3. QED
    BY <2>1, <2>2
<1>4. /\ watchers' \in Seq(SoundWatchers) /\ Len(watchers') \in {0, 1}
      /\ current' = Len(watchers')
  <2>1. watchers' = Watched(active') /\ current' = Len(watchers')
    BY DEF Launch
  <2>2. CASE active' \in bound
    <3>1. PICK f \in Files : f = active'
      BY <1>2, <2>2 DEF VaultInv, StoreSound
    <3>2. PICK w \in SoundWatchers : w = Watching(f)
      BY Beginnings
    <3>3. watchers' = <<w>>
      BY <2>1, <2>2, <3>1, <3>2 DEF Watched
    <3>4. QED
      BY <2>1, <3>3
  <2>3. CASE active' \notin bound
    BY <2>1, <2>3, EmptySeq DEF Watched
  <2>4. QED
    BY <2>2, <2>3
<1>5. WatchersBounded'
  <2>1. user'.step = "idle"
    BY DEF Launch, VaultInv, AppSound, WatchersBounded
  <2>2. QED
    BY <1>4, <2>1, VaultFileAssumption DEF WatchersBounded
<1>6. active' \in Maybe(Known)
  BY <1>3 DEF VaultInv, AppSound, Maybe
<1>7. QED
  BY <1>1, <1>3, <1>4, <1>5, <1>6, AppSettles DEF VaultInv, AppSound, StoreSound, ImportSound

(* Every step keeps the invariant.                                         *)
LEMMA VaultInductive == VaultInv /\ [Next]_vars => VaultInv'
<1> SUFFICES ASSUME VaultInv, [Next]_vars PROVE VaultInv'
  OBVIOUS
<1>1. CASE \E f \in Files : Open(f) \/ CloseEditor(f) \/ \E c \in Edits[f] : Save(f, c)
  BY <1>1, LockKeeps, SaveKeeps
<1>2. CASE \E f \in Files : BindKnown(f) \/ BindNew(f) \/ AdoptVault(f)
  BY <1>2, BindKnownKeeps, BindNewKeeps, AdoptKeeps
<1>3. CASE \E i \in DOMAIN watchers : WatcherStep(i)
  BY <1>3, DeliveryKeeps, RecordKeeps DEF WatcherStep
<1>4. CASE \E s \in Slots : \/ TaskStep(s) \/ PollUnlock(s) \/ ApplyPendingUpdate(s)
                            \/ \E c \in Contents, i \in BOOLEAN : WriteBack(s, c, i)
  BY <1>4, TaskMoves, RenameKeeps, TaskBegins DEF TaskStep
<1>5. CASE \E s \in Slots : \E c \in Contents : Promote(s, c) \/ EndSession(s, c)
  BY <1>5, PromoteKeeps, EndSessionKeeps
<1>6. CASE BeginSession \/ \E failed \in BOOLEAN : EndSessionIdle(failed)
  BY <1>6, SessionKeeps
<1>7. CASE ImportBound \/ StartWatching \/ RereadFile \/ RerecordFile
  BY <1>7, ImportKeeps, StartKeeps, RereadKeeps, RerecordKeeps
<1>8. CASE StopTrackingVault \/ TrackingStopped \/ SaveVaultAs \/ FilePlaced
  BY <1>8, StopKeeps, SaveAsKeeps, PlacedKeeps
<1>9. CASE Quit \/ Launch
  BY <1>9, QuitKeeps, LaunchKeeps
<1>10. CASE UNCHANGED vars
  <2>1. UNCHANGED <<disk, locked, store, active, app>>
    BY <1>10 DEF vars
  <2>2. QED
    BY <2>1, AppSettles DEF VaultInv, AppSound, StoreSound, ImportSound, app, WatchersBounded
<1>11. QED
  BY <1>1, <1>2, <1>3, <1>4, <1>5, <1>6, <1>7, <1>8, <1>9, <1>10 DEF Next

(* Whatever is saved, sent, bound, stopped or restarted, the service       *)
(* layer's state fits the store it works on.                               *)
THEOREM VaultSafe == Spec => []VaultInv
<1>1. Init => VaultInv
  BY InitVault
<1>2. VaultInv /\ [Next]_vars => VaultInv'
  BY VaultInductive
<1>3. QED
  BY <1>1, <1>2, PTL DEF Spec

-----------------------------------------------------------------------------
(* What is about to be recorded for the vault of the file it was read from *)
(* is that vault's already, or a person put it there.                      *)
OwnJobs ==
    /\ \A i \in DOMAIN watchers :
           watchers[i].job.step = "saving" /\ watchers[i].job.vault = watchers[i].path =>
               watchers[i].job.bytes \in recorded[watchers[i].path] \cup Own(watchers[i].path)
    /\ user.step = "saving" => user.bytes \in recorded[user.vault] \cup Own(user.vault)

(* Nothing is about to be recorded at the start.                           *)
LEMMA InitOwn == Init => OwnJobs
<1> SUFFICES ASSUME Init PROVE OwnJobs
  OBVIOUS
<1>1. watchers \in {<<>>, << Watching(Tracked) >>} /\ user.step = "idle"
  BY DEF Init, Idle
<1>2. PICK w : w = Watching(Tracked)
  OBVIOUS
<1>3. watchers \in {<<>>, <<w>>}
  BY <1>1, <1>2
<1>4. w.job.step = "idle"
  BY <1>2 DEF Watching, Idle
<1>5. \A i \in DOMAIN watchers : watchers[i].job.step = "idle"
  BY <1>3, <1>4
<1>6. QED
  BY <1>1, <1>5 DEF OwnJobs

(* Revisions are only added, and by whom (received from a peer, imported,  *)
(* recorded for a watcher or for recordFileNow).                           *)
LEMMA RecordedGrows ==
    ASSUME VaultInv, OwnJobs, [Next]_vars, NEW f \in Files
    PROVE  /\ recorded[f] \subseteq recorded'[f]
           /\ recorded'[f] \ recorded[f] \subseteq Own(f) \cup Arrivals \cup Astray(f)
<1> DEFINE Goal == /\ recorded[f] \subseteq recorded'[f]
                   /\ recorded'[f] \ recorded[f] \subseteq Own(f) \cup Arrivals \cup Astray(f)
<1>0. recorded \in [Files -> SUBSET Contents]
  BY DEF VaultInv, StoreSound
<1>1. CASE recorded' = recorded
  BY <1>1
<1>2. ASSUME NEW i \in DOMAIN watchers, RecordChange(i) PROVE Goal
  <2>1. PICK job : job = watchers[i].job
    OBVIOUS
  <2>2. job.step = "saving" /\ recorded' = [recorded EXCEPT ![job.vault] = @ \cup {job.bytes}]
    BY <1>2, <2>1 DEF RecordChange, CommitChange
  <2>3. CASE job.vault # f
    BY <1>0, <2>2, <2>3
  <2>4. CASE job.vault = f
    <3>1. recorded'[f] = recorded[f] \cup {job.bytes}
      BY <1>0, <2>2, <2>4
    <3>2. job.bytes \in recorded[f] \cup Own(f) \cup Astray(f)
      BY <2>1, <2>2, <2>4 DEF OwnJobs, Astray
    <3>3. QED
      BY <3>1, <3>2
  <2>5. QED
    BY <2>3, <2>4
<1>3. CASE RerecordFile
  <2>1. user.step = "saving" /\ recorded' = [recorded EXCEPT ![user.vault] = @ \cup {user.bytes}]
    BY <1>3 DEF RerecordFile, CommitChange
  <2>2. user.vault = f => user.bytes \in recorded[f] \cup Own(f)
    BY <2>1 DEF OwnJobs
  <2>3. QED
    BY <1>0, <2>1, <2>2
<1>4. CASE ImportBound
  <2>1. /\ user.step = "importing" /\ recorded' = [recorded EXCEPT ![user.vault] = {user.bytes}]
    BY <1>4 DEF ImportBound
  <2>2. /\ user.vault \in Files \ Known
        /\ user.bytes \in Own(user.vault)
    BY <2>1 DEF VaultInv, AppSound, ImportSound, Placed, Own
  <2>3. recorded[user.vault] = {}
    BY <2>2 DEF VaultInv, StoreSound
  <2>4. QED
    BY <1>0, <2>1, <2>2, <2>3
<1>5. ASSUME NEW s \in Slots, NEW c \in Contents, EndSession(s, c) PROVE Goal
  <2>1. c \in Arrivals /\ recorded' = [recorded EXCEPT ![syncing.vault] = @ \cup {c}]
    BY <1>5 DEF EndSession, RemoteAhead
  <2>2. QED
    BY <1>0, <2>1
<1>6. CASE \E i \in DOMAIN watchers : Schedule(i) \/ Deliver(i) \/ ReadFile(i)
  BY <1>1, <1>6 DEF Schedule, Deliver, ReadFile, store
<1>7. CASE \E s \in Slots : \/ TaskStep(s) \/ PollUnlock(s) \/ ApplyPendingUpdate(s)
                            \/ \E c \in Contents : Promote(s, c)
                            \/ \E c \in Contents, i \in BOOLEAN : WriteBack(s, c, i)
  BY <1>1, <1>7 DEF TaskStep, CompareFile, HoldBack, LoadBytes, RefuseWrite, WriteTemp, Rename,
     PollUnlock, ApplyPendingUpdate, Promote, WriteBack, store
<1>8. CASE \E g \in Files : \/ Open(g) \/ CloseEditor(g) \/ BindKnown(g) \/ BindNew(g) \/ AdoptVault(g)
                            \/ \E c \in Edits[g] : Save(g, c)
  BY <1>1, <1>8 DEF Open, CloseEditor, BindKnown, BindNew, AdoptVault, Save, store
<1>9. CASE \/ BeginSession \/ \E failed \in BOOLEAN : EndSessionIdle(failed)
           \/ StartWatching \/ RereadFile \/ StopTrackingVault \/ TrackingStopped
           \/ SaveVaultAs \/ FilePlaced \/ Quit \/ Launch
  BY <1>1, <1>9 DEF BeginSession, EndSessionIdle, StartWatching, RereadFile, StopTrackingVault,
     TrackingStopped, SaveVaultAs, FilePlaced, Quit, Launch, store
<1>10. CASE UNCHANGED vars
  BY <1>1, <1>10 DEF vars, store
<1>11. QED
  BY <1>2, <1>3, <1>4, <1>5, <1>6, <1>7, <1>8, <1>9, <1>10 DEF Next, WatcherStep

(* Deliveries that were to be recorded before and go on keep what they     *)
(* hold.                                                                   *)
LEMMA OwnStays ==
    ASSUME VaultInv, OwnJobs, \A f \in Files : recorded[f] \subseteq recorded'[f],
           user'.step = "saving" => user' = user,
           \A i \in DOMAIN watchers' : watchers'[i].job.step = "saving" =>
               /\ i \in DOMAIN watchers
               /\ watchers'[i].job = watchers[i].job /\ watchers'[i].path = watchers[i].path
    PROVE  OwnJobs'
<1>1. ASSUME NEW i \in DOMAIN watchers', watchers'[i].job.step = "saving",
             watchers'[i].job.vault = watchers'[i].path
      PROVE  watchers'[i].job.bytes \in recorded'[watchers'[i].path] \cup Own(watchers'[i].path)
  <2>1. /\ i \in DOMAIN watchers /\ watchers'[i].job = watchers[i].job
        /\ watchers'[i].path = watchers[i].path
    BY <1>1
  <2>2. watchers[i] \in SoundWatchers
    BY <2>1 DEF VaultInv, AppSound
  <2>3. watchers[i].path \in Files
    BY <2>2 DEF SoundWatchers, WatcherRecords
  <2>4. QED
    BY <1>1, <2>1, <2>3 DEF OwnJobs
<1>2. ASSUME user'.step = "saving"
      PROVE  user'.bytes \in recorded'[user'.vault] \cup Own(user'.vault)
  <2>1. user.step = "saving" /\ user' = user
    BY <1>2
  <2>2. user.vault \in Files
    BY <2>1 DEF VaultInv, AppSound, SoundUsers, Saves, StoreSound, Known, Range
  <2>3. QED
    BY <2>1, <2>2 DEF OwnJobs
<1>3. QED
  BY <1>1, <1>2 DEF OwnJobs, Own

(* What deliver reads is its own file: a version of the vault kept there,  *)
(* or what a person did to it.                                             *)
LEMMA DeliveryOwns ==
    ASSUME VaultInv, OwnJobs, NEW i \in DOMAIN watchers, WatcherStep(i),
           \A f \in Files : recorded[f] \subseteq recorded'[f]
    PROVE  OwnJobs'
<1>1. PICK w \in SoundWatchers : w = watchers[i]
  BY DEF VaultInv, AppSound
<1>2. w \in WatcherRecords /\ w.path \in Files
  BY <1>1 DEF SoundWatchers, WatcherRecords
<1>3. user' = user
  BY DEF WatcherStep, Schedule, Deliver, ReadFile, RecordChange
<1>4. PICK new \in WatcherRecords :
          /\ Watcher(i, new) /\ new.path = w.path
          /\ \/ new.job.step # "saving" \/ new.job = w.job
             \/ /\ new.job.bytes \in recorded[w.path] \cup Own(w.path) /\ UNCHANGED recorded
  <2>1. CASE Schedule(i)
    <3> DEFINE set == [w EXCEPT !.event = FALSE, !.timer = TRUE]
    <3>1. set \in WatcherRecords /\ set.path = w.path /\ set.job = w.job
      BY <1>2 DEF WatcherRecords
    <3>2. Watcher(i, set)
      BY <1>1, <2>1 DEF Schedule
    <3> HIDE DEF set
    <3>3. QED
      BY <3>1, <3>2
  <2>2. CASE Deliver(i)
    <3>1. PICK job \in JobRecords : job = Doing("reading", Nothing, Nothing) /\ job.step = "reading"
      BY Beginnings DEF SoundJobs, Doing
    <3> DEFINE read == [w EXCEPT !.timer = FALSE, !.job = job]
               wait == [w EXCEPT !.timer = FALSE, !.pending = TRUE]
    <3>2. read \in WatcherRecords /\ read.path = w.path /\ read.job = job
      BY <1>2 DEF WatcherRecords
    <3>3. wait \in WatcherRecords /\ wait.path = w.path /\ wait.job = w.job
      BY <1>2 DEF WatcherRecords
    <3>4. Watcher(i, read) \/ Watcher(i, wait)
      BY <1>1, <2>2, <3>1 DEF Deliver
    <3> HIDE DEF read, wait
    <3>5. QED
      BY <3>1, <3>2, <3>3, <3>4
  <2>3. CASE ReadFile(i) \/ RecordChange(i)
    <3>1. /\ Delivered(w) \in WatcherRecords /\ Delivered(w).path = w.path
          /\ Delivered(w).job.step = "idle"
      BY DeliveredSound DEF SoundWatchers, Idle
    <3>2. CASE Watcher(i, Delivered(w))
      BY <3>1, <3>2
    <3>3. CASE /\ Watcher(i, [w EXCEPT !.job = Saving(active, disk[w.path])])
               /\ disk[w.path] # Nothing /\ active # Nothing /\ UNCHANGED recorded
      <4>1. /\ active \in Known /\ disk[w.path] \in Contents
            /\ disk[w.path] \in recorded[w.path] \cup Own(w.path)
        BY <1>2, <3>3 DEF VaultInv, StoreSound, AppSound, Maybe, Own
      <4>2. PICK job \in JobRecords : job = Saving(active, disk[w.path]) /\ job.bytes = disk[w.path]
        BY <4>1, SavingSound DEF VaultInv
      <4> DEFINE holds == [w EXCEPT !.job = job]
      <4>3. holds \in WatcherRecords /\ holds.path = w.path /\ holds.job = job
        BY <1>2 DEF WatcherRecords
      <4>4. Watcher(i, holds)
        BY <3>3, <4>2
      <4> HIDE DEF holds
      <4>5. QED
        BY <3>3, <4>1, <4>2, <4>3, <4>4
    <3>4. QED
      BY <1>1, <2>3, <3>2, <3>3 DEF ReadFile, RecordChange, store
  <2>4. QED
    BY <2>1, <2>2, <2>3 DEF WatcherStep
<1>5. /\ watchers \in Seq(SoundWatchers)
      /\ watchers' = [watchers EXCEPT ![i] = new]
  BY <1>4 DEF Watcher, VaultInv, AppSound
<1>6. /\ DOMAIN watchers' = DOMAIN watchers /\ watchers'[i] = new
      /\ \A j \in DOMAIN watchers : j # i => watchers'[j] = watchers[j]
  BY <1>5
<1>7. CASE new.job.step # "saving" \/ new.job = w.job
  BY <1>1, <1>3, <1>4, <1>6, <1>7, OwnStays
<1>8. CASE new.job.bytes \in recorded[w.path] \cup Own(w.path) /\ UNCHANGED recorded
  BY <1>3, <1>4, <1>6, <1>8 DEF OwnJobs, Own
<1>9. QED
  BY <1>4, <1>7, <1>8

(* Every step keeps that.                                                  *)
LEMMA OwnInductive == VaultInv /\ OwnJobs /\ [Next]_vars => OwnJobs'
<1> SUFFICES ASSUME VaultInv, OwnJobs, [Next]_vars PROVE OwnJobs'
  OBVIOUS
<1>0. \A f \in Files : recorded[f] \subseteq recorded'[f]
  BY RecordedGrows
<1>1. watchers \in Seq(SoundWatchers) /\ current \in 0..Len(watchers)
  BY DEF VaultInv, AppSound, WatchersBounded
<1> DEFINE Kept == \A i \in DOMAIN watchers' : watchers'[i].job.step = "saving" =>
                       /\ i \in DOMAIN watchers
                       /\ watchers'[i].job = watchers[i].job /\ watchers'[i].path = watchers[i].path
<1>2. ASSUME watchers' = watchers PROVE Kept
  BY <1>2
<1>3. ASSUME watchers' = Stopped PROVE Kept
  <2>1. /\ watchers' \in Seq(SoundWatchers) /\ Len(watchers') = Len(watchers)
        /\ \A i \in DOMAIN watchers : /\ watchers'[i].job = watchers[i].job
                                      /\ watchers'[i].path = watchers[i].path
    BY <1>1, <1>3, StoppedWatchers
  <2>2. QED
    BY <1>1, <2>1
<1>4. ASSUME NEW f \in Files, watchers' = Noticed(f) PROVE Kept
  <2>1. /\ watchers' \in Seq(SoundWatchers) /\ Len(watchers') = Len(watchers)
        /\ \A i \in DOMAIN watchers : /\ watchers'[i].job = watchers[i].job
                                      /\ watchers'[i].path = watchers[i].path
    BY <1>1, <1>4, NoticedWatchers
  <2>2. QED
    BY <1>1, <2>1
<1>5. CASE StartWatching \/ Quit \/ Launch
  <2>1. CASE StartWatching
    <3>1. PICK f \in Files : f = user.vault
      BY <2>1 DEF StartWatching, VaultInv, AppSound, SoundUsers, StoreSound, Known, Range
    <3>2. PICK w \in SoundWatchers : w = Watching(f) /\ w.job.step = "idle"
      BY Beginnings DEF Watching, Idle
    <3>3. watchers' = Append(watchers, w)
      BY <2>1, <3>1, <3>2 DEF StartWatching
    <3>4. /\ DOMAIN watchers' = 1..(Len(watchers) + 1) /\ Len(watchers) \in Nat
          /\ \A i \in 1..Len(watchers) : watchers'[i] = watchers[i]
          /\ watchers'[Len(watchers) + 1] = w
      BY <1>1, <3>3, AppendProperties
    <3>5. Kept
      BY <1>1, <3>2, <3>4
    <3>6. user'.step # "saving"
      BY <2>1 DEF StartWatching, Doing, Idle
    <3>7. QED
      BY <1>0, <3>5, <3>6, OwnStays
  <2>2. CASE Quit
    <3>1. DOMAIN watchers' = {} /\ user'.step # "saving"
      BY <2>2 DEF Quit, Idle
    <3>2. QED
      BY <1>0, <3>1, OwnStays
  <2>3. CASE Launch
    <3>1. PICK w : w = Watching(active')
      OBVIOUS
    <3>2. watchers' \in {<<>>, <<w>>} /\ user' = user
      BY <2>3, <3>1 DEF Launch, Watched
    <3>3. w.job.step = "idle"
      BY <3>1 DEF Watching, Idle
    <3>4. \A i \in DOMAIN watchers' : watchers'[i].job.step = "idle"
      BY <3>2, <3>3
    <3>5. QED
      BY <1>0, <3>2, <3>4, OwnStays
  <2>4. QED
    BY <1>5, <2>1, <2>2, <2>3
<1>6. CASE \E i \in DOMAIN watchers : WatcherStep(i)
  BY <1>0, <1>6, DeliveryOwns
<1>7. CASE RereadFile
  <2>1. watchers' = watchers /\ recorded' = recorded /\ user.vault \in Files
    BY <1>7 DEF RereadFile, store, VaultInv, AppSound, SoundUsers, StoreSound, Known, Range
  <2>2. user'.step = "saving" => user'.bytes = disk[user.vault] /\ user'.vault = user.vault
                                /\ disk[user.vault] # Nothing
    BY <1>7 DEF RereadFile, Saving, Idle
  <2>3. QED
    BY <2>1, <2>2 DEF OwnJobs, Own, VaultInv, StoreSound
<1>8. ASSUME NEW s \in Slots, Rename(s) PROVE Kept /\ user' = user
  <2>1. tasks[s].vault \in Files
    BY <1>8 DEF Rename, VaultInv, AppSound, SoundTasks, StoreSound, Known, Range
  <2>2. QED
    BY <1>4, <1>8, <2>1 DEF Rename, WriteTarget
<1>9. CASE \E s \in Slots : \/ TaskStep(s) \/ PollUnlock(s) \/ ApplyPendingUpdate(s)
                            \/ \E c \in Contents : Promote(s, c) \/ EndSession(s, c)
                            \/ \E c \in Contents, i \in BOOLEAN : WriteBack(s, c, i)
  <2>1. Kept /\ user' = user
    BY <1>2, <1>8, <1>9 DEF TaskStep, CompareFile, HoldBack, LoadBytes, RefuseWrite, WriteTemp,
       PollUnlock, ApplyPendingUpdate, Promote, EndSession, WriteBack
  <2>2. QED
    BY <1>0, <2>1, OwnStays
<1>10. CASE \E f \in Files : \/ Open(f) \/ CloseEditor(f) \/ BindKnown(f) \/ BindNew(f) \/ AdoptVault(f)
                             \/ \E c \in Edits[f] : Save(f, c)
  <2>1. Kept
    BY <1>2, <1>3, <1>4, <1>10 DEF Open, CloseEditor, BindKnown, BindNew, AdoptVault, Save, app
  <2>2. user' = user \/ user'.step # "saving"
    BY <1>10 DEF Open, CloseEditor, BindKnown, BindNew, AdoptVault, Save, app, Doing
  <2>3. QED
    BY <1>0, <2>1, <2>2, OwnStays
<1>11. CASE \/ BeginSession \/ \E failed \in BOOLEAN : EndSessionIdle(failed)
            \/ ImportBound \/ RerecordFile \/ StopTrackingVault \/ TrackingStopped
            \/ SaveVaultAs \/ FilePlaced \/ UNCHANGED vars
  <2>1. Kept
    BY <1>2, <1>3, <1>11 DEF BeginSession, EndSessionIdle, ImportBound, RerecordFile,
       StopTrackingVault, TrackingStopped, SaveVaultAs, FilePlaced, vars, app
  <2>2. user' \in {user, Idle, Doing("watching", user.vault, Nothing),
                   Doing("stopping", Nothing, Nothing), Doing("placing", active, head[active])}
    BY <1>11 DEF BeginSession, EndSessionIdle, ImportBound, RerecordFile, StopTrackingVault,
       TrackingStopped, SaveVaultAs, FilePlaced, vars, app
  <2>3. user' = user \/ user'.step # "saving"
    BY <2>2 DEF Doing, Idle
  <2>4. QED
    BY <1>0, <2>1, <2>3, OwnStays
<1>12. QED
  BY <1>5, <1>6, <1>7, <1>9, <1>10, <1>11 DEF Next

(* materializeCurrentVersion, writeBack and saveVaultAs write into a file  *)
(* only versions of the vault that is kept there, and what a vault records *)
(* is a peer's, or was read from its own file, unless a delivery from      *)
(* another file is recorded for it: for any number of files and of         *)
(* write-backs under way, with sessions and restarts.                      *)
THEOREM FilesKeepTheirVaultAlways == Spec => FilesKeepTheirVault
<1> DEFINE Added == \A f \in Files :
            recorded'[f] \ recorded[f] \subseteq Own(f) \cup Arrivals \cup Astray(f)
<1>1. VaultInv /\ OwnJobs /\ [Next]_vars => [Added]_vars
  BY RecordedGrows
<1>2. Spec => []OwnJobs
  BY InitOwn, OwnInductive, VaultSafe, PTL DEF Spec
<1>3. Spec => []FilesHoldTheirs
  BY VaultSafe, InvMeansFiles, PTL
<1>4. Spec => [][Added]_vars
  BY <1>1, <1>2, VaultSafe, PTL DEF Spec
<1>5. QED
  BY <1>3, <1>4, PTL DEF FilesKeepTheirVault, FilesHoldTheirs

-----------------------------------------------------------------------------
(* Without sessions: every vault has a file, and the one that is tracked   *)
(* is watched unless the person is just changing that.                     *)
Tracks == current # 0 /\ watchers[current].live /\ watchers[current].path = active

TrackInv ==
    /\ Known \subseteq bound
    /\ syncing = NoSession
    /\ \A i \in DOMAIN watchers : watchers[i].job.step = "saving" => watchers[i].job.wasBound
    /\ user.step = "saving" => user.wasBound
    /\ user.step # "placing"
    /\ user.step \in {"reopening", "watching"} => active = user.vault
    /\ running /\ user.step \notin {"reopening", "watching", "stopping"} /\ active \in bound => Tracks

(* It holds at the start, tracking a file or not.                          *)
LEMMA InitTracks == Init => TrackInv
<1> SUFFICES ASSUME Init PROVE TrackInv
  OBVIOUS
<1>1. PICK setup \in Setups :
        LET on == IF setup = "tracking" THEN {Tracked} ELSE {}
        IN  /\ vaults = IF on = {} THEN <<>> ELSE <<Tracked>>
            /\ bound = on
            /\ active = IF on = {} THEN Nothing ELSE Tracked
            /\ watchers = IF on = {} THEN <<>> ELSE << Watching(Tracked) >>
            /\ current = Len(watchers) /\ user = Idle /\ syncing = NoSession
  BY DEF Init
<1>2. user.step = "idle"
  BY <1>1 DEF Idle
<1>3. CASE setup = "tracking"
  <2>1. watchers = << Watching(Tracked) >> /\ vaults = <<Tracked>> /\ active = Tracked /\ bound = {Tracked}
    BY <1>1, <1>3
  <2>2. DOMAIN vaults = {1} /\ DOMAIN watchers = {1} /\ current = 1
    BY <1>1, <2>1
  <2>3. /\ watchers[1].live /\ watchers[1].path = Tracked /\ watchers[1].job.step = "idle"
        /\ vaults[1] = Tracked
    BY <2>1 DEF Watching, Idle
  <2>4. QED
    BY <1>1, <1>2, <2>1, <2>2, <2>3 DEF TrackInv, Tracks, Known, Range
<1>4. CASE setup # "tracking"
  <2>1. watchers = <<>> /\ vaults = <<>> /\ bound = {}
    BY <1>1, <1>4
  <2>2. DOMAIN vaults = {} /\ DOMAIN watchers = {}
    BY <2>1
  <2>3. QED
    BY <1>1, <1>2, <2>1, <2>2 DEF TrackInv, Known, Range
<1>5. QED
  BY <1>3, <1>4

(* Steps that are not about what is tracked.                               *)
LEMMA TrackedStays ==
    ASSUME VaultInv, TrackInv,
           UNCHANGED <<vaults, bound, syncing, active, running, user, current>>,
           DOMAIN watchers' = DOMAIN watchers,
           \A i \in DOMAIN watchers : /\ watchers'[i].path = watchers[i].path
                                      /\ watchers'[i].live = watchers[i].live
                                      /\ watchers'[i].job.step = "saving" => watchers'[i].job.wasBound
    PROVE  TrackInv'
<1>1. Known' = Known
  BY DEF Known
<1>2. current # 0 => current \in DOMAIN watchers
  BY DEF VaultInv, AppSound, WatchersBounded
<1>3. Tracks => Tracks'
  BY <1>2 DEF Tracks
<1>4. QED
  BY <1>1, <1>3 DEF TrackInv

(* A watcher goes on.                                                      *)
LEMMA DeliveryTracks ==
    ASSUME VaultInv, TrackInv, NEW i \in DOMAIN watchers, WatcherStep(i)
    PROVE  TrackInv'
<1>1. PICK w \in SoundWatchers : w = watchers[i]
  BY DEF VaultInv, AppSound
<1>2. w \in WatcherRecords /\ (w.job.step = "saving" => w.job.wasBound)
  BY <1>1 DEF SoundWatchers, TrackInv
<1>3. PICK new \in WatcherRecords : /\ Watcher(i, new) /\ new.path = w.path /\ new.live = w.live
                                    /\ new.job.step = "saving" => new.job.wasBound
  <2>1. CASE Schedule(i)
    <3> DEFINE set == [w EXCEPT !.event = FALSE, !.timer = TRUE]
    <3>1. set \in WatcherRecords /\ set.path = w.path /\ set.live = w.live /\ set.job = w.job
      BY <1>2 DEF WatcherRecords
    <3>2. Watcher(i, set)
      BY <1>1, <2>1 DEF Schedule
    <3> HIDE DEF set
    <3>3. QED
      BY <1>2, <3>1, <3>2
  <2>2. CASE Deliver(i)
    <3>1. PICK job \in JobRecords : job = Doing("reading", Nothing, Nothing) /\ job.step = "reading"
      BY Beginnings DEF SoundJobs, Doing
    <3> DEFINE read == [w EXCEPT !.timer = FALSE, !.job = job]
               wait == [w EXCEPT !.timer = FALSE, !.pending = TRUE]
    <3>2. read \in WatcherRecords /\ read.path = w.path /\ read.live = w.live /\ read.job = job
      BY <1>2 DEF WatcherRecords
    <3>3. wait \in WatcherRecords /\ wait.path = w.path /\ wait.live = w.live /\ wait.job = w.job
      BY <1>2 DEF WatcherRecords
    <3>4. Watcher(i, read) \/ Watcher(i, wait)
      BY <1>1, <2>2, <3>1 DEF Deliver
    <3> HIDE DEF read, wait
    <3>5. QED
      BY <1>2, <3>1, <3>2, <3>3, <3>4
  <2>3. CASE ReadFile(i) \/ RecordChange(i)
    <3>1. Delivered(w) \in WatcherRecords /\ Delivered(w).path = w.path /\ Delivered(w).live = w.live
      BY DeliveredSound DEF SoundWatchers
    <3>2. Delivered(w).job.step = "idle"
      BY DeliveredSound DEF Idle
    <3>3. CASE Watcher(i, Delivered(w))
      BY <3>1, <3>2, <3>3
    <3>4. CASE /\ Watcher(i, [w EXCEPT !.job = Saving(active, disk[w.path])])
               /\ disk[w.path] # Nothing /\ active # Nothing
      <4>1. active \in Known /\ active \in bound /\ disk[w.path] \in Contents
        BY <1>2, <3>4 DEF VaultInv, StoreSound, AppSound, Maybe, WatcherRecords, TrackInv
      <4>2. PICK job \in JobRecords : job = Saving(active, disk[w.path]) /\ job.wasBound
        BY <4>1, SavingSound DEF VaultInv
      <4>3. QED
        BY <1>2, <3>4, <4>2 DEF WatcherRecords
    <3>5. QED
      BY <1>1, <2>3, <3>3, <3>4 DEF ReadFile, RecordChange
  <2>4. QED
    BY <2>1, <2>2, <2>3 DEF WatcherStep
<1>4. UNCHANGED <<vaults, syncing, active, running, user, current>>
  BY DEF WatcherStep, Schedule, Deliver, ReadFile, RecordChange, store
<1>5. bound' = bound
  <2>1. CASE RecordChange(i)
    <3>1. w.job.wasBound /\ w.job.vault \in bound
      BY <1>1, <1>2, <2>1 DEF RecordChange, SoundWatchers, SoundJobs, Saves, TrackInv
    <3>2. QED
      BY <1>1, <2>1, <3>1 DEF RecordChange, CommitChange
  <2>2. QED
    BY <2>1 DEF WatcherStep, Schedule, Deliver, ReadFile, store
<1>6. watchers' = [watchers EXCEPT ![i] = new]
  BY <1>3 DEF Watcher
<1>7. QED
  BY <1>1, <1>3, <1>4, <1>5, <1>6, TrackedStays DEF VaultInv, AppSound, TrackInv

(* KeePassXC, the write-backs and the person's choice of a version.        *)
LEMMA OthersTrack ==
    ASSUME VaultInv, TrackInv,
           \/ \E f \in Files : Open(f) \/ CloseEditor(f) \/ \E c \in Edits[f] : Save(f, c)
           \/ \E s \in Slots : \/ TaskStep(s) \/ PollUnlock(s) \/ ApplyPendingUpdate(s)
                               \/ \E c \in Contents : Promote(s, c)
                               \/ \E c \in Contents, i \in BOOLEAN : WriteBack(s, c, i)
    PROVE  TrackInv'
<1>1. UNCHANGED <<vaults, bound, syncing, active, running, user, current>>
  BY DEF Open, CloseEditor, Save, TaskStep, CompareFile, HoldBack, LoadBytes, RefuseWrite,
         WriteTemp, Rename, PollUnlock, ApplyPendingUpdate, Promote, WriteBack, store, app
<1>2. CASE watchers' = watchers
  BY <1>1, <1>2, TrackedStays DEF TrackInv
<1>3. CASE \E f \in Files : watchers' = Noticed(f)
  <2>1. /\ DOMAIN watchers' = DOMAIN watchers
        /\ \A i \in DOMAIN watchers : /\ watchers'[i].path = watchers[i].path
                                      /\ watchers'[i].live = watchers[i].live
                                      /\ watchers'[i].job = watchers[i].job
    BY <1>3, NoticedWatchers DEF VaultInv, AppSound
  <2>2. QED
    BY <1>1, <2>1, TrackedStays DEF TrackInv
<1>4. ASSUME NEW s \in Slots, Rename(s) PROVE \E f \in Files : watchers' = Noticed(f)
  <2>1. tasks[s].vault \in Files
    BY <1>4 DEF Rename, VaultInv, AppSound, SoundTasks, StoreSound, Known, Range
  <2>2. QED
    BY <1>4, <2>1 DEF Rename, WriteTarget
<1>5. QED
  BY <1>2, <1>3, <1>4
     DEF Open, CloseEditor, Save, TaskStep, CompareFile, HoldBack, LoadBytes, RefuseWrite,
         WriteTemp, PollUnlock, ApplyPendingUpdate, Promote, WriteBack, app

(* The person changes what is tracked.                                     *)
LEMMA UserTracks ==
    ASSUME VaultInv, VaultInv', TrackInv,
           \/ \E f \in Files : BindKnown(f) \/ BindNew(f)
           \/ ImportBound \/ StartWatching \/ RereadFile \/ RerecordFile
           \/ StopTrackingVault \/ TrackingStopped \/ SaveVaultAs \/ FilePlaced
    PROVE  TrackInv'
<1>1. syncing' = NoSession
  BY DEF TrackInv, BindKnown, BindNew, ImportBound, StartWatching, RereadFile, RerecordFile,
         StopTrackingVault, TrackingStopped, SaveVaultAs, FilePlaced
<1>2. /\ watchers \in Seq(SoundWatchers) /\ current \in 0..Len(watchers)
      /\ \A i \in DOMAIN watchers : watchers[i].job.step = "saving" => watchers[i].job.wasBound
  BY DEF VaultInv, AppSound, WatchersBounded, TrackInv
<1>3. ASSUME watchers' = Stopped \/ watchers' = watchers
      PROVE  \A i \in DOMAIN watchers' : watchers'[i].job.step = "saving" => watchers'[i].job.wasBound
  <2>1. CASE watchers' = watchers
    BY <1>2, <2>1
  <2>2. CASE watchers' = Stopped
    <3>1. /\ watchers' \in Seq(SoundWatchers) /\ Len(watchers') = Len(watchers)
          /\ \A i \in DOMAIN watchers : watchers'[i].job = watchers[i].job
      BY <1>2, <2>2, StoppedWatchers
    <3>2. QED
      BY <1>2, <3>1
  <2>3. QED
    BY <1>3, <2>1, <2>2
<1>4. CASE \E f \in Files : BindKnown(f)
  <2>1. PICK f \in Files : BindKnown(f)
    BY <1>4
  <2>2. user'.step = "reopening" /\ user'.vault = f /\ active' = f
    BY <2>1 DEF BindKnown, Doing
  <2>3. Known' = Known /\ bound' = bound
    BY <2>1 DEF BindKnown, store, Known
  <2>4. QED
    BY <1>1, <1>3, <2>1, <2>2, <2>3 DEF TrackInv, BindKnown
<1>5. CASE \E f \in Files : BindNew(f)
  <2>1. user'.step = "importing" /\ user.step = "idle" /\ running
    BY <1>5 DEF BindNew, CanRebind, Doing, Idle
  <2>2. Known' = Known /\ UNCHANGED <<bound, active, running, watchers, current>>
    BY <1>5 DEF BindNew, store, Known
  <2>3. QED
    BY <1>1, <1>3, <2>1, <2>2 DEF TrackInv, Tracks
<1>6. CASE ImportBound
  <2>1. user'.step = "watching" /\ user'.vault = user.vault /\ active' = user.vault
    BY <1>6 DEF ImportBound, Doing
  <2>2. Known' = Known \cup {user.vault}
    BY <1>6, VaultAppended DEF ImportBound, VaultInv, StoreSound, AppSound, ImportSound, Placed
  <2>3. bound' = bound \cup {user.vault}
    BY <1>6 DEF ImportBound
  <2>4. QED
    BY <1>1, <1>3, <1>6, <2>1, <2>2, <2>3 DEF TrackInv, ImportBound
<1>7. CASE StartWatching
  <2>1. Known' = Known /\ UNCHANGED <<bound, active, running>> /\ active = user.vault
    BY <1>7 DEF StartWatching, store, Known, TrackInv
  <2>2. PICK f \in Files : f = user.vault
    BY <1>7 DEF StartWatching, VaultInv, AppSound, SoundUsers, StoreSound, Known, Range
  <2>3. PICK w \in SoundWatchers : w = Watching(f)
    BY Beginnings
  <2>4. w.live /\ w.path = f /\ w.job.step = "idle"
    BY <2>3 DEF Watching, Idle
  <2>5. watchers' = Append(watchers, w) /\ current' = Len(watchers) + 1
    BY <1>7, <2>2, <2>3 DEF StartWatching
  <2>6. /\ DOMAIN watchers' = 1..(Len(watchers) + 1) /\ Len(watchers) \in Nat
        /\ \A i \in 1..Len(watchers) : watchers'[i] = watchers[i]
        /\ watchers'[Len(watchers) + 1] = w
    BY <1>2, <2>5, AppendProperties
  <2>7. \A i \in DOMAIN watchers' : watchers'[i].job.step = "saving" => watchers'[i].job.wasBound
    BY <1>2, <2>4, <2>6
  <2>8. Tracks'
    BY <2>1, <2>2, <2>4, <2>5, <2>6 DEF Tracks
  <2>9. user'.step \in {"idle", "rereading"}
    BY <1>7 DEF StartWatching, Doing, Idle
  <2>10. QED
    BY <1>1, <2>1, <2>7, <2>8, <2>9 DEF TrackInv
<1>8. CASE RereadFile
  <2>1. Known' = Known /\ UNCHANGED <<bound, active, running, watchers, current>>
    BY <1>8 DEF RereadFile, store, Known
  <2>2. user'.step = "idle" \/ (user'.step = "saving" /\ user'.wasBound)
    <3>1. user.vault \in bound
      BY <1>8 DEF RereadFile, VaultInv, AppSound, SoundUsers, TrackInv
    <3>2. CASE user' = Idle
      BY <3>2 DEF Idle
    <3>3. CASE user' = Saving(user.vault, disk[user.vault])
      BY <3>1, <3>3 DEF Saving
    <3>4. QED
      BY <1>8, <3>2, <3>3 DEF RereadFile
  <2>3. user.step = "rereading"
    BY <1>8 DEF RereadFile
  <2>4. QED
    BY <1>1, <1>3, <2>1, <2>2, <2>3 DEF TrackInv, Tracks
<1>9. CASE RerecordFile
  <2>1. Known' = Known /\ UNCHANGED <<active, running, watchers, current>> /\ user.step = "saving"
    BY <1>9 DEF RerecordFile, store, Known
  <2>2. bound' = bound
    <3>1. user.wasBound /\ user.vault \in bound
      BY <2>1 DEF VaultInv, AppSound, SoundUsers, Saves, TrackInv
    <3>2. QED
      BY <1>9, <3>1 DEF RerecordFile, CommitChange
  <2>3. user'.step = "idle"
    BY <1>9 DEF RerecordFile, Idle
  <2>4. QED
    BY <1>1, <1>3, <2>1, <2>2, <2>3 DEF TrackInv, Tracks
<1>10. CASE StopTrackingVault
  <2>1. Known' = Known /\ UNCHANGED <<bound, active, running, current>> /\ watchers' = Stopped
    BY <1>10 DEF StopTrackingVault, store, Known
  <2>2. user'.step = "stopping"
    BY <1>10 DEF StopTrackingVault, Doing
  <2>3. QED
    BY <1>1, <1>3, <2>1, <2>2 DEF TrackInv
<1>11. CASE TrackingStopped
  <2>1. Known' = Known /\ UNCHANGED <<bound, running, watchers>> /\ active' = Nothing
    BY <1>11 DEF TrackingStopped, store, Known
  <2>2. user'.step = "idle" /\ Nothing \notin bound
    BY <1>11, VaultFileAssumption DEF TrackingStopped, Idle, VaultInv, StoreSound, Placed
  <2>3. QED
    BY <1>1, <1>3, <2>1, <2>2 DEF TrackInv
<1>12. ~ SaveVaultAs /\ ~ FilePlaced
  BY DEF SaveVaultAs, FilePlaced, TrackInv, VaultInv, AppSound, Maybe
<1>13. QED
  BY <1>4, <1>5, <1>6, <1>7, <1>8, <1>9, <1>10, <1>11, <1>12

(* The program ends, and starts with the stored choice.                    *)
LEMMA RestartTracks ==
    ASSUME VaultInv, TrackInv, Quit \/ Launch
    PROVE  TrackInv'
<1>1. UNCHANGED <<vaults, bound>> /\ Known' = Known /\ syncing' = NoSession
  BY DEF Quit, Launch, store, Known, TrackInv
<1>2. user'.step = "idle"
  BY DEF Quit, Launch, Idle, VaultInv, AppSound, WatchersBounded
<1>3. CASE Quit
  <2>1. running' = FALSE /\ DOMAIN watchers' = {}
    BY <1>3 DEF Quit
  <2>2. QED
    BY <1>1, <1>2, <2>1 DEF TrackInv
<1>4. CASE Launch
  <2>1. watchers' = Watched(active') /\ current' = Len(watchers')
    BY <1>4 DEF Launch
  <2>2. CASE active' \in bound
    <3>1. PICK w : w = Watching(active')
      OBVIOUS
    <3>2. w.live /\ w.path = active' /\ w.job.step = "idle"
      BY <3>1 DEF Watching, Idle
    <3>3. watchers' = <<w>>
      BY <2>1, <2>2, <3>1 DEF Watched
    <3>4. DOMAIN watchers' = {1} /\ current' = 1 /\ watchers'[1] = w
      BY <2>1, <3>3
    <3>5. QED
      BY <1>1, <1>2, <3>2, <3>4 DEF TrackInv, Tracks
  <2>3. CASE active' \notin bound
    <3>1. DOMAIN watchers' = {}
      BY <2>1, <2>3 DEF Watched
    <3>2. QED
      BY <1>1, <1>2, <2>3, <3>1 DEF TrackInv
  <2>4. QED
    BY <2>2, <2>3
<1>5. QED
  BY <1>3, <1>4

(* bindVault, stopTrackingVault and start: in whatever order a person      *)
(* binds, stops, reopens and restarts, the file that is tracked is the one *)
(* that is watched.  Only a session can part them: the vault it is about   *)
(* becomes the active one without its file being watched.                  *)
THEOREM TrackedIsWatchedAlways ==
    ASSUME "sync" \notin Uses
    PROVE  Spec => []TrackedIsWatched
<1>1. Init => TrackInv
  BY InitTracks
<1>2. VaultInv /\ VaultInv' /\ TrackInv /\ [Next]_vars => TrackInv'
  <2> SUFFICES ASSUME VaultInv, VaultInv', TrackInv, [Next]_vars PROVE TrackInv'
    OBVIOUS
  <2>1. ~ BeginSession
    BY DEF BeginSession
  <2>2. /\ \A f \in Files : ~ AdoptVault(f)
        /\ \A s \in Slots, c \in Contents : ~ EndSession(s, c)
        /\ \A failed \in BOOLEAN : ~ EndSessionIdle(failed)
    BY DEF TrackInv, NoSession, AdoptVault, EndSession, RemoteAhead, EndSessionIdle
  <2>3. CASE UNCHANGED vars
    BY <2>3, TrackedStays DEF vars, store, app, TrackInv
  <2>4. QED
    BY <2>1, <2>2, <2>3, DeliveryTracks, OthersTrack, UserTracks, RestartTracks DEF Next
<1>3. VaultInv /\ TrackInv => TrackedIsWatched
  BY DEF TrackInv, TrackedIsWatched, Tracks, Idle
<1>4. QED
  BY <1>1, <1>2, <1>3, VaultSafe, PTL DEF Spec

-----------------------------------------------------------------------------
(* A device that keeps to its file: nothing is bound, stopped or started   *)
(* again, and a new file is not opened before its watcher starts.  Then    *)
(* there is one vault at most, and as long as what its file holds has not  *)
(* become a revision, the watcher has something left to do.                *)
KeepsToItsFile ==
    /\ Uses \cap {"bind", "stop", "restart"} = {}
    /\ ~ {"reopen", "save as"} \subseteq Uses

Moving(w) ==
    \/ w.event \/ w.timer \/ w.job.step = "reading"
    \/ w.job.step = "saving" /\ (w.pending \/ w.job.bytes = disk[active])
Stirred == Moving(watchers[current])

SavesBound == \A i \in DOMAIN watchers : watchers[i].job.step = "saving" => watchers[i].job.wasBound

NoFileYet ==
    /\ Placed = {} /\ locked = {} /\ watchers = <<>> /\ user.step # "watching"
    /\ \A s \in Slots : tasks[s].step = "free"

OneVault ==
    /\ running /\ user.step \in {"idle", "placing", "watching"}
    /\ user.step # "idle" => user.vault = active /\ "save as" \in Uses
    /\ user.step = "placing" => active \notin bound
    /\ Known \subseteq {active}
    /\ syncing.phase = "joining" => active = Nothing
    /\ syncing.phase = "none" => syncing = NoSession
    /\ SavesBound

Noted ==
    /\ user.step = "watching" => active \notin locked /\ disk[active] \in recorded[active]
    /\ active \in bound /\ user.step # "watching" =>
          Tracks /\ (disk[active] \in recorded[active] \/ Stirred)

NoticeInv == OneVault /\ (active \notin bound => NoFileYet) /\ Noted

(* At the start nothing has been saved.                                    *)
LEMMA InitNotice == Init => NoticeInv
<1> SUFFICES ASSUME Init PROVE NoticeInv
  OBVIOUS
<1>1. PICK setup \in Setups :
        LET on == IF setup = "tracking" THEN {Tracked} ELSE {}
        IN  /\ disk = [f \in Files |-> IF setup = "tracking" THEN Origin[f] ELSE Nothing]
            /\ locked = {}
            /\ vaults = IF on = {} THEN <<>> ELSE <<Tracked>>
            /\ recorded = [f \in Files |-> IF f \in on THEN {Origin[f]} ELSE {}]
            /\ bound = on
            /\ active = IF on = {} THEN Nothing ELSE Tracked
            /\ running = TRUE
            /\ watchers = IF on = {} THEN <<>> ELSE << Watching(Tracked) >>
            /\ current = Len(watchers)
            /\ tasks = [s \in Slots |-> FreeSlot]
            /\ user = Idle /\ syncing = NoSession
  BY DEF Init
<1>2. user.step = "idle" /\ syncing.phase = "none" /\ \A s \in Slots : tasks[s].step = "free"
  BY <1>1 DEF Idle, NoSession, FreeSlot
<1>3. CASE setup = "tracking"
  <2>1. watchers = << Watching(Tracked) >> /\ vaults = <<Tracked>> /\ active = Tracked /\ bound = {Tracked}
    BY <1>1, <1>3
  <2>2. DOMAIN vaults = {1} /\ DOMAIN watchers = {1} /\ current = 1
    <3>1. current = Len(watchers)
      BY <1>1
    <3>2. QED
      BY <2>1, <3>1
  <2>3. /\ watchers[1].live /\ watchers[1].path = Tracked /\ watchers[1].job.step = "idle"
        /\ vaults[1] = Tracked
    BY <2>1 DEF Watching, Idle
  <2>4. disk[active] \in recorded[active]
    BY <1>1, <1>3, <2>1, VaultFileAssumption
  <2>5. OneVault
    BY <1>1, <1>2, <2>1, <2>2, <2>3 DEF OneVault, SavesBound, Known, Range
  <2>6. QED
    BY <1>2, <2>1, <2>2, <2>3, <2>4, <2>5 DEF NoticeInv, Noted, Tracks
<1>4. CASE setup # "tracking"
  <2>1. watchers = <<>> /\ vaults = <<>> /\ bound = {} /\ Placed = {}
    BY <1>1, <1>4 DEF Placed
  <2>2. DOMAIN vaults = {} /\ DOMAIN watchers = {}
    BY <2>1
  <2>3. QED
    BY <1>1, <1>2, <2>1, <2>2 DEF NoticeInv, OneVault, NoFileYet, Noted, SavesBound, Known, Range
<1>5. QED
  BY <1>3, <1>4

(* What there is: the active vault, or none.                               *)
LEMMA OneVaultOnly ==
    ASSUME VaultInv, NoticeInv
    PROVE  /\ Known \subseteq {active} /\ Known \subseteq Files /\ Nothing \notin Known
           /\ active \in bound => active \in Files
           /\ watchers # <<>> => active \in bound
           /\ \A s \in Slots : tasks[s].step # "free" => tasks[s].vault = active /\ active \in bound
           /\ user.step # "idle" => active \in Known
           /\ syncing.phase = "about" => syncing.vault = active
<1>1. Known \subseteq Files
  BY DEF VaultInv, StoreSound, Known, Range
<1>2. Nothing \notin Known /\ Known \subseteq {active} /\ bound \subseteq Known
  BY <1>1, VaultFileAssumption DEF NoticeInv, OneVault, VaultInv, StoreSound
<1>3. watchers # <<>> => active \in bound
  BY DEF NoticeInv, NoFileYet
<1>4. \A s \in Slots : tasks[s].step # "free" => tasks[s].vault = active /\ active \in bound
  BY <1>2 DEF NoticeInv, NoFileYet, VaultInv, AppSound, SoundTasks
<1>5. user.step # "idle" => active \in Known
  BY DEF NoticeInv, OneVault, VaultInv, AppSound, SoundUsers
<1>6. syncing.phase = "about" => syncing.vault = active
  BY <1>2 DEF VaultInv, AppSound, SoundSessions
<1>7. QED
  BY <1>1, <1>2, <1>3, <1>4, <1>5, <1>6

(* Steps of the rest of the program: the watchers are as they were.        *)
LEMMA NoticeStays ==
    ASSUME VaultInv, NoticeInv, Grows,
           UNCHANGED <<vaults, bound, active, running, user, current, watchers>>,
           syncing'.phase = "joining" => active = Nothing,
           syncing'.phase = "none" => syncing' = NoSession,
           active \notin bound => /\ UNCHANGED <<disk, locked>>
                                  /\ \A s \in Slots : tasks'[s].step = "free",
           user.step = "watching" => active \notin locked',
           active \in bound => disk'[active] \in recorded[active] \cup {disk[active]}
    PROVE  NoticeInv'
<1>1. Known' = Known /\ (active \in bound => recorded[active] \subseteq recorded'[active])
  BY OneVaultOnly DEF Known, Grows
<1>2. OneVault'
  BY <1>1 DEF NoticeInv, OneVault, SavesBound
<1>3. active \notin bound => NoFileYet'
  BY DEF NoticeInv, NoFileYet, Placed
<1>4. user.step = "watching" => active \in bound
  BY DEF NoticeInv, NoFileYet
<1>5. Noted'
  <2>1. CASE disk'[active] = disk[active]
    BY <1>1, <1>4, <2>1 DEF NoticeInv, Noted, Tracks, Stirred, Moving
  <2>2. CASE active \in bound /\ disk'[active] \in recorded[active]
    BY <1>1, <1>4, <2>2 DEF NoticeInv, Noted, Tracks
  <2>3. CASE active \notin bound
    BY <1>4, <2>3 DEF Noted
  <2>4. QED
    BY <2>1, <2>2, <2>3
<1>6. QED
  BY <1>2, <1>3, <1>5 DEF NoticeInv

(* An editor opens or closes the file: no bytes change.                    *)
LEMMA LockNotice ==
    ASSUME KeepsToItsFile, VaultInv, NoticeInv, NEW f \in Files, Open(f) \/ CloseEditor(f)
    PROVE  NoticeInv'
<1>1. UNCHANGED <<disk, store, active, app>>
  BY DEF Open, CloseEditor
<1>2. Grows
  BY <1>1 DEF Grows, store, Known, Placed
<1>3. active \notin bound => locked' = locked
  BY DEF Open, CloseEditor, NoticeInv, NoFileYet, Placed
<1>4. user.step = "watching" => active \notin locked'
  BY DEF Open, CloseEditor, NoticeInv, OneVault, Noted, InGap, KeepsToItsFile
<1>5. QED
  BY <1>1, <1>2, <1>3, <1>4, NoticeStays DEF store, app, NoticeInv, OneVault, NoFileYet

(* A save is seen by the watcher of the file.                              *)
LEMMA SaveNotice ==
    ASSUME VaultInv, NoticeInv, NEW f \in Files, NEW c \in Edits[f], Save(f, c)
    PROVE  NoticeInv'
<1>1. /\ UNCHANGED <<locked, vaults, recorded, head, bound, active, running, current, tasks, user, syncing>>
      /\ Known' = Known
  BY DEF Save, Known
<1>2. active \in bound /\ active \in Files /\ (user.step = "watching" => f # active)
  BY OneVaultOnly DEF Save, NoticeInv, NoFileYet, Noted
<1>3. /\ DOMAIN watchers' = DOMAIN watchers
      /\ \A i \in DOMAIN watchers : /\ watchers'[i].path = watchers[i].path
                                    /\ watchers'[i].live = watchers[i].live
                                    /\ watchers'[i].job = watchers[i].job
                                    /\ watchers'[i].timer = watchers[i].timer
                                    /\ watchers'[i].pending = watchers[i].pending
                                    /\ watchers[i].event => watchers'[i].event
                                    /\ watchers[i].live /\ watchers[i].path = f => watchers'[i].event
  BY NoticedWatchers DEF Save, VaultInv, AppSound
<1>4. OneVault'
  BY <1>1, <1>3 DEF NoticeInv, OneVault, SavesBound
<1>5. current # 0 => current \in DOMAIN watchers
  BY DEF VaultInv, AppSound, WatchersBounded
<1>6. f # active => disk'[active] = disk[active]
  BY <1>2 DEF Save, VaultInv, StoreSound
<1>7. Noted'
  <2>1. CASE user.step = "watching"
    BY <1>1, <1>2, <1>6, <2>1 DEF NoticeInv, Noted
  <2>2. CASE user.step # "watching"
    <3>1. Tracks /\ current \in DOMAIN watchers
      BY <1>2, <1>5, <2>2 DEF NoticeInv, Noted, Tracks
    <3>2. Tracks'
      BY <1>1, <1>3, <3>1 DEF Tracks
    <3>3. disk'[active'] \in recorded'[active'] \/ Stirred'
      <4>1. CASE f = active
        BY <1>1, <1>3, <3>1, <4>1 DEF Tracks, Stirred, Moving
      <4>2. CASE f # active
        BY <1>1, <1>2, <1>3, <1>6, <2>2, <3>1, <4>2 DEF NoticeInv, Noted, Stirred, Moving
      <4>3. QED
        BY <4>1, <4>2
    <3>4. QED
      BY <1>1, <2>2, <3>2, <3>3 DEF Noted
  <2>3. QED
    BY <2>1, <2>2
<1>8. QED
  BY <1>1, <1>2, <1>4, <1>7 DEF NoticeInv

(* A watcher's step leads on to the next, until what it read is recorded.  *)
LEMMA WatcherMoves ==
    ASSUME VaultInv, NoticeInv, NEW i \in DOMAIN watchers, WatcherStep(i)
    PROVE  /\ active \in bound /\ active \in Files
           /\ UNCHANGED <<disk, locked, vaults, active, bound, running, current, tasks, user, syncing>>
           /\ Known' = Known /\ recorded[active] \subseteq recorded'[active]
           /\ \E new \in SoundWatchers :
                /\ Watcher(i, new) /\ new.path = watchers[i].path /\ new.live = watchers[i].live
                /\ new.job.step = "saving" => new.job.wasBound
                /\ watchers[i].path = active /\ Moving(watchers[i]) =>
                      \/ disk[active] = head'[active] /\ disk[active] \in recorded'[active]
                      \/ Moving(new)
                /\ (watchers[i].path = active /\ (watchers[i].job.step = "saving" => Moving(watchers[i])))
                      => (new.job.step = "saving" => Moving(new))
<1>1. active \in bound /\ active \in Known /\ active \in Files
  <2>1. watchers # <<>>
    BY DEF WatcherStep
  <2>2. QED
    BY <2>1, OneVaultOnly DEF VaultInv, StoreSound
<1>2. UNCHANGED <<disk, locked, vaults, active, running, current, tasks, user, syncing>> /\ Known' = Known
  BY DEF WatcherStep, Schedule, Deliver, ReadFile, RecordChange, store, Known
<1>3. PICK w \in SoundWatchers : w = watchers[i]
  BY DEF VaultInv, AppSound
<1>4. w \in WatcherRecords /\ (w.job.step = "saving" => w.job.wasBound /\ w.job.vault = active)
  BY <1>3, OneVaultOnly DEF SoundWatchers, SoundJobs, Saves, NoticeInv, OneVault, SavesBound
<1>5. bound' = bound /\ recorded[active] \subseteq recorded'[active]
  <2>1. CASE RecordChange(i)
    <3>1. w.job.vault = active /\ w.job.wasBound
      BY <1>3, <1>4, <2>1 DEF RecordChange
    <3>2. CommitChange(w.job)
      BY <1>3, <2>1 DEF RecordChange
    <3>3. QED
      BY <1>1, <3>1, <3>2 DEF CommitChange, VaultInv, StoreSound
  <2>2. CASE UNCHANGED store
    BY <2>2 DEF store
  <2>3. QED
    BY <2>1, <2>2 DEF WatcherStep, Schedule, Deliver, ReadFile
<1>6. disk[active] \in Contents /\ (disk[active] = head[active] => disk[active] \in recorded[active])
  BY <1>1, VaultFileAssumption DEF VaultInv, StoreSound, Placed, Maybe
<1>7. PICK new \in SoundWatchers :
        /\ Watcher(i, new) /\ new.path = w.path /\ new.live = w.live
        /\ new.job.step = "saving" => new.job.wasBound
        /\ w.path = active /\ Moving(w) =>
              \/ disk[active] = head'[active] /\ disk[active] \in recorded'[active]
              \/ Moving(new)
        /\ (w.path = active /\ (w.job.step = "saving" => Moving(w)))
              => (new.job.step = "saving" => Moving(new))
  <2>1. CASE Schedule(i)
    <3> DEFINE set == [w EXCEPT !.event = FALSE, !.timer = TRUE]
    <3>1. /\ set \in SoundWatchers /\ set.path = w.path /\ set.live = w.live /\ set.job = w.job
          /\ set.timer
      BY <1>4 DEF WatcherRecords, SoundWatchers
    <3>2. Watcher(i, set)
      BY <1>3, <2>1 DEF Schedule
    <3> HIDE DEF set
    <3>3. QED
      BY <1>4, <3>1, <3>2 DEF Moving
  <2>2. CASE Deliver(i)
    <3>1. PICK job \in SoundJobs : job = Doing("reading", Nothing, Nothing) /\ job.step = "reading"
      BY Beginnings DEF Doing
    <3> DEFINE read == [w EXCEPT !.timer = FALSE, !.job = job]
               wait == [w EXCEPT !.timer = FALSE, !.pending = TRUE]
    <3>2. read \in SoundWatchers /\ read.path = w.path /\ read.live = w.live /\ read.job = job
      BY <1>4, <3>1 DEF WatcherRecords, SoundWatchers, SoundJobs
    <3>3. /\ wait \in SoundWatchers /\ wait.path = w.path /\ wait.live = w.live /\ wait.job = w.job
          /\ wait.pending
      BY <1>4 DEF WatcherRecords, SoundWatchers
    <3>4. \/ Watcher(i, read)
          \/ Watcher(i, wait) /\ w.job.step # "idle"
      BY <1>3, <2>2, <3>1 DEF Deliver
    <3>5. w.job.step \in {"idle", "reading", "saving"}
      BY <1>4 DEF WatcherRecords, JobRecords, Jobs
    <3> HIDE DEF read, wait
    <3>6. CASE Watcher(i, read)
      BY <3>1, <3>2, <3>6 DEF Moving
    <3>7. CASE Watcher(i, wait) /\ w.job.step # "idle"
      BY <1>4, <3>3, <3>5, <3>7 DEF Moving
    <3>8. QED
      BY <3>4, <3>6, <3>7
  <2>3. CASE ReadFile(i)
    <3>1. PICK done \in SoundWatchers : /\ done = Delivered(w) /\ done.path = w.path /\ done.live = w.live
                                        /\ done.job.step = "idle"
      BY DeliveredSound DEF Idle
    <3>2. CASE disk[w.path] = Nothing \/ active = Nothing \/ disk[w.path] = head[active]
      <4>1. w.path = active => disk[active] = head[active]
        BY <1>1, <1>6, <3>2, VaultFileAssumption
      <4>2. Watcher(i, done)
        BY <1>3, <2>3, <3>1, <3>2 DEF ReadFile
      <4>3. head' = head
        BY <2>3 DEF ReadFile, store
      <4>4. QED
        BY <1>5, <1>6, <3>1, <4>1, <4>2, <4>3
    <3>3. CASE ~ (disk[w.path] = Nothing \/ active = Nothing \/ disk[w.path] = head[active])
      <4>1. disk[w.path] \in Contents
        BY <1>4, <3>3 DEF VaultInv, StoreSound, Maybe, WatcherRecords
      <4>2. PICK job \in SoundJobs : /\ job = Saving(active, disk[w.path]) /\ job.wasBound
                                     /\ job.step = "saving" /\ job.bytes = disk[w.path]
        BY <1>1, <4>1, SavingSound DEF VaultInv, SoundJobs
      <4> DEFINE save == [w EXCEPT !.job = job]
      <4>3. save \in SoundWatchers /\ save.path = w.path /\ save.live = w.live /\ save.job = job
        BY <1>4 DEF WatcherRecords, SoundWatchers, SoundJobs
      <4>4. Watcher(i, save)
        BY <1>3, <2>3, <3>3, <4>2 DEF ReadFile
      <4> HIDE DEF save
      <4>5. QED
        BY <4>2, <4>3, <4>4 DEF Moving
    <3>4. QED
      BY <3>2, <3>3
  <2>4. CASE RecordChange(i)
    <3>1. PICK done \in SoundWatchers :
             /\ done = Delivered(w) /\ done.path = w.path /\ done.live = w.live
             /\ done.job.step = "idle" /\ done.event = w.event /\ (done.timer <=> w.timer \/ w.pending)
      BY DeliveredSound DEF Idle
    <3>2. w.job.step = "saving" /\ CommitChange(w.job) /\ Watcher(i, done)
      BY <1>3, <2>4, <3>1 DEF RecordChange
    <3>3. w.job.bytes \in recorded'[active] /\ w.job.bytes = head'[active]
      BY <1>1, <1>4, <3>2 DEF CommitChange, VaultInv, StoreSound
    <3>4. QED
      BY <3>1, <3>2, <3>3 DEF Moving
  <2>5. QED
    BY <2>1, <2>2, <2>3, <2>4 DEF WatcherStep
<1>8. QED
  BY <1>1, <1>2, <1>3, <1>5, <1>7

(* The watcher of the file takes a step; what it drops it has just read.   *)
LEMMA DeliveryNotice ==
    ASSUME VaultInv, NoticeInv, NEW i \in DOMAIN watchers, WatcherStep(i)
    PROVE  NoticeInv'
<1>1. /\ active \in bound /\ active \in Files
      /\ UNCHANGED <<disk, locked, vaults, active, bound, running, current, tasks, user, syncing>>
      /\ Known' = Known /\ recorded[active] \subseteq recorded'[active]
  BY WatcherMoves
<1>2. PICK new \in SoundWatchers :
        /\ Watcher(i, new) /\ new.path = watchers[i].path /\ new.live = watchers[i].live
        /\ new.job.step = "saving" => new.job.wasBound
        /\ watchers[i].path = active /\ Moving(watchers[i]) => disk[active] \in recorded'[active] \/ Moving(new)
  BY WatcherMoves
<1>3. /\ watchers' \in Seq(SoundWatchers) /\ Len(watchers') = Len(watchers)
      /\ DOMAIN watchers' = DOMAIN watchers /\ watchers'[i] = new
      /\ \A j \in DOMAIN watchers : j # i => watchers'[j] = watchers[j]
  BY <1>2, OneWatcher DEF VaultInv, AppSound
<1>4. OneVault'
  BY <1>1, <1>2, <1>3 DEF NoticeInv, OneVault, SavesBound
<1>5. current # 0 => current \in DOMAIN watchers
  BY DEF VaultInv, AppSound, WatchersBounded
<1>6. Noted'
  <2>1. CASE user.step = "watching"
    BY <1>1, <2>1 DEF NoticeInv, Noted
  <2>2. CASE user.step # "watching"
    <3>1. Tracks /\ current \in DOMAIN watchers /\ (disk[active] \in recorded[active] \/ Stirred)
      BY <1>1, <1>5, <2>2 DEF NoticeInv, Noted, Tracks
    <3>2. Tracks'
      BY <1>1, <1>2, <1>3, <3>1 DEF Tracks
    <3>3. disk[active] \in recorded'[active] \/ Moving(watchers'[current])
      BY <1>1, <1>2, <1>3, <3>1 DEF Tracks, Stirred
    <3>4. disk'[active'] \in recorded'[active'] \/ Stirred'
      BY <1>1, <3>3 DEF Stirred, Moving
    <3>5. QED
      BY <1>1, <2>2, <3>2, <3>4 DEF Noted
  <2>3. QED
    BY <2>1, <2>2
<1>7. QED
  BY <1>1, <1>4, <1>6 DEF NoticeInv

(* Write-backs and restores: the file gets what is recorded.               *)
LEMMA TaskNotice ==
    ASSUME VaultInv, NoticeInv, NEW s \in Slots,
           \/ CompareFile(s) \/ HoldBack(s) \/ LoadBytes(s) \/ RefuseWrite(s) \/ WriteTemp(s)
           \/ PollUnlock(s) \/ ApplyPendingUpdate(s) \/ \E c \in Contents : Promote(s, c)
           \/ \E c \in Contents, i \in BOOLEAN : WriteBack(s, c, i)
    PROVE  NoticeInv'
<1>1. /\ UNCHANGED <<disk, locked, vaults, recorded, bound, active, running, user, current, watchers, syncing>>
      /\ Grows
  BY DEF CompareFile, HoldBack, LoadBytes, RefuseWrite, WriteTemp, PollUnlock, ApplyPendingUpdate,
         Promote, WriteBack, store, Grows, Known, Placed
<1>2. ASSUME active \notin bound PROVE \A r \in Slots : tasks'[r].step = "free"
  <2>1. \A r \in Slots : tasks[r].step = "free"
    BY <1>2 DEF NoticeInv, NoFileYet
  <2>2. PICK c \in Contents : Promote(s, c)
    BY <1>2, <2>1 DEF CompareFile, HoldBack, LoadBytes, RefuseWrite, WriteTemp, PollUnlock,
                      ApplyPendingUpdate, WriteBack
  <2>3. tasks' = [tasks EXCEPT ![s] = FreeSlot] /\ FreeSlot.step = "free"
    BY <1>2, <2>2 DEF Promote, Task, Materializes, FreeSlot
  <2>4. QED
    BY <2>1, <2>3 DEF VaultInv, AppSound
<1>3. QED
  BY <1>1, <1>2, NoticeStays DEF NoticeInv, OneVault, Noted

(* The program writes the file: what it writes is recorded already.        *)
LEMMA RenameNotice ==
    ASSUME VaultInv, NoticeInv, NEW s \in Slots, Rename(s)
    PROVE  NoticeInv'
<1>1. tasks[s].step # "free" /\ tasks[s].vault = active /\ active \in bound /\ active \in Files
  BY OneVaultOnly DEF Rename
<1>2. tasks[s].bytes \in recorded[active]
  BY <1>1 DEF VaultInv, AppSound, SoundTasks
<1>3. disk'[active] = tasks[s].bytes /\ watchers' = Noticed(active)
  BY <1>1 DEF Rename, WriteTarget, VaultInv, StoreSound
<1>4. UNCHANGED <<locked, vaults, recorded, bound, active, running, current, user, syncing>> /\ Known' = Known
  BY DEF Rename, store, Known
<1>5. /\ DOMAIN watchers' = DOMAIN watchers
      /\ \A i \in DOMAIN watchers : /\ watchers'[i].path = watchers[i].path
                                    /\ watchers'[i].live = watchers[i].live
                                    /\ watchers'[i].job = watchers[i].job
  BY <1>1, <1>3, NoticedWatchers DEF VaultInv, AppSound
<1>6. OneVault'
  BY <1>4, <1>5 DEF NoticeInv, OneVault, SavesBound
<1>7. current # 0 => current \in DOMAIN watchers
  BY DEF VaultInv, AppSound, WatchersBounded
<1>8. Noted'
  <2>1. user.step # "watching" => Tracks'
    BY <1>1, <1>4, <1>5, <1>7 DEF NoticeInv, Noted, Tracks
  <2>2. QED
    BY <1>2, <1>3, <1>4, <2>1 DEF NoticeInv, Noted
<1>9. QED
  BY <1>1, <1>4, <1>6, <1>8 DEF NoticeInv

(* Sessions are about the one vault there is, or bring it.                 *)
LEMMA SessionNotice ==
    ASSUME VaultInv, NoticeInv,
           \/ BeginSession \/ \E failed \in BOOLEAN : EndSessionIdle(failed)
           \/ \E s \in Slots, c \in Contents : EndSession(s, c)
    PROVE  NoticeInv'
<1>1. UNCHANGED <<disk, locked, vaults, bound, running, watchers, current, user>>
  BY DEF BeginSession, EndSessionIdle, EndSession, store
<1>2. syncing.phase \in {"none", "joining", "about"}
  BY DEF VaultInv, AppSound, SoundSessions, SessionRecords
<1>3. active' = active
  BY <1>2, OneVaultOnly DEF BeginSession, EndSessionIdle, EndSession, RemoteAhead, NoticeInv, OneVault
<1>4. /\ syncing'.phase = "joining" => active = Nothing
      /\ syncing'.phase = "none" => syncing' = NoSession
  BY DEF BeginSession, EndSessionIdle, EndSession, NoSession
<1>5. Grows
  <2>1. Known' = Known /\ Placed' = Placed
    BY <1>1 DEF Known, Placed
  <2>2. \A f \in Files : recorded[f] \subseteq recorded'[f]
    BY DEF BeginSession, EndSessionIdle, EndSession, store, VaultInv, StoreSound
  <2>3. QED
    BY <2>1, <2>2 DEF Grows
<1>6. ASSUME active \notin bound PROVE \A r \in Slots : tasks'[r].step = "free"
  <2>1. \A r \in Slots : tasks[r].step = "free"
    BY <1>6 DEF NoticeInv, NoFileYet
  <2>2. CASE tasks' = tasks
    BY <2>1, <2>2
  <2>3. CASE \E s \in Slots, c \in Contents : EndSession(s, c)
    <3>1. PICK s \in Slots, c \in Contents : EndSession(s, c)
      BY <2>3
    <3>2. syncing.vault = active
      BY <3>1, OneVaultOnly DEF EndSession, RemoteAhead
    <3>3. tasks' = [tasks EXCEPT ![s] = FreeSlot] /\ FreeSlot.step = "free"
      BY <1>6, <3>1, <3>2 DEF EndSession, Task, Materializes, FreeSlot
    <3>4. QED
      BY <2>1, <3>3 DEF VaultInv, AppSound
  <2>4. QED
    BY <2>2, <2>3 DEF BeginSession, EndSessionIdle
<1>7. QED
  BY <1>1, <1>3, <1>4, <1>5, <1>6, NoticeStays DEF NoticeInv, Noted

(* A vault is adopted by a device that has no file.                        *)
LEMMA AdoptNotice ==
    ASSUME VaultInv, NoticeInv, NEW v \in Files, AdoptVault(v)
    PROVE  NoticeInv'
<1>1. UNCHANGED <<disk, locked, bound, running, watchers, tasks, user>> /\ active' = v
  BY DEF AdoptVault
<1>2. active = Nothing /\ Known = {} /\ bound = {}
  BY OneVaultOnly DEF AdoptVault, NoticeInv, OneVault, VaultInv, StoreSound
<1>3. user.step = "idle"
  BY <1>2, OneVaultOnly
<1>4. Known' = {v}
  <2>1. vaults' = Append(vaults, v)
    BY <1>2 DEF AdoptVault
  <2>2. QED
    BY <1>2, <2>1, VaultAppended DEF VaultInv, StoreSound
<1>5. syncing'.phase = "about"
  BY DEF AdoptVault
<1>6. OneVault'
  BY <1>1, <1>3, <1>4, <1>5 DEF NoticeInv, OneVault, SavesBound
<1>7. NoFileYet'
  BY <1>1, <1>2 DEF NoticeInv, NoFileYet, Placed
<1>8. QED
  BY <1>1, <1>2, <1>3, <1>6, <1>7 DEF NoticeInv, Noted

(* An adopted vault gets a file, and then a watcher.                       *)
LEMMA SaveAsNotice ==
    ASSUME VaultInv, NoticeInv, SaveVaultAs \/ FilePlaced \/ StartWatching
    PROVE  NoticeInv'
<1>1. CASE SaveVaultAs
  <2>1. UNCHANGED <<disk, locked, vaults, bound, active, running, watchers, tasks, syncing>> /\ Known' = Known
    BY <1>1 DEF SaveVaultAs, store, Known
  <2>2. user'.step = "placing" /\ user'.vault = active /\ active \notin bound /\ "save as" \in Uses
    BY <1>1 DEF SaveVaultAs, Doing
  <2>3. QED
    BY <2>1, <2>2 DEF NoticeInv, OneVault, SavesBound, NoFileYet, Noted, Placed
<1>2. CASE FilePlaced
  <2>1. UNCHANGED <<locked, vaults, recorded, active, running, current, tasks, syncing>> /\ Known' = Known
    BY <1>2 DEF FilePlaced, Known
  <2>2. /\ user.step = "placing" /\ user.vault = active /\ active \notin bound
        /\ active \in Files /\ user.bytes \in recorded[active] /\ "save as" \in Uses
    BY <1>2, OneVaultOnly DEF FilePlaced, NoticeInv, OneVault, VaultInv, AppSound, SoundUsers
  <2>3. user'.step = "watching" /\ user'.vault = active /\ bound' = bound \cup {active}
    BY <1>2, <2>2 DEF FilePlaced, Doing
  <2>4. disk'[active] = user.bytes
    BY <1>2, <2>2 DEF FilePlaced, VaultInv, StoreSound
  <2>5. watchers' = <<>>
    <3>1. watchers = <<>> /\ current \in 0..Len(watchers)
      BY <2>2 DEF NoticeInv, NoFileYet, VaultInv, AppSound, WatchersBounded
    <3>2. current = 0
      BY <3>1
    <3>3. QED
      BY <1>2, <3>1, <3>2 DEF FilePlaced, Stopped
  <2>6. DOMAIN watchers' = {}
    BY <2>5
  <2>7. OneVault'
    BY <2>1, <2>2, <2>3, <2>6 DEF NoticeInv, OneVault, SavesBound
  <2>8. active \notin locked
    BY <2>2 DEF NoticeInv, NoFileYet
  <2>9. QED
    BY <2>1, <2>2, <2>3, <2>4, <2>7, <2>8 DEF NoticeInv, Noted
<1>3. CASE StartWatching
  <2>1. UNCHANGED <<disk, locked, vaults, recorded, bound, active, running, tasks, syncing>> /\ Known' = Known
    BY <1>3 DEF StartWatching, store, Known
  <2>2. /\ user.step = "watching" /\ user.vault = active /\ active \in bound /\ active \in Files
        /\ disk[active] \in recorded[active]
    BY <1>3, OneVaultOnly DEF StartWatching, NoticeInv, OneVault, Noted, NoFileYet
  <2>3. PICK w \in SoundWatchers : w = Watching(active)
    BY <2>2, Beginnings
  <2>4. w.live /\ w.path = active /\ w.job.step = "idle"
    BY <2>3 DEF Watching, Idle
  <2>5. watchers' = Append(watchers, w) /\ current' = Len(watchers) + 1
    BY <1>3, <2>2, <2>3 DEF StartWatching
  <2>6. /\ DOMAIN watchers' = 1..(Len(watchers) + 1) /\ Len(watchers) \in Nat
        /\ \A i \in 1..Len(watchers) : watchers'[i] = watchers[i]
        /\ watchers'[Len(watchers) + 1] = w
    BY <2>5, AppendProperties DEF VaultInv, AppSound
  <2>7. SavesBound'
    <3>0. DOMAIN watchers = 1..Len(watchers)
      BY LenProperties DEF VaultInv, AppSound
    <3>1. \A i \in 1..Len(watchers) : watchers[i].job.step = "saving" => watchers[i].job.wasBound
      BY <3>0 DEF NoticeInv, OneVault, SavesBound
    <3>2. QED
      BY <2>4, <2>6, <3>1 DEF SavesBound
  <2>8. Tracks'
    BY <2>1, <2>4, <2>5, <2>6 DEF Tracks
  <2>9. user'.step = "idle"
    BY <1>3, <2>2 DEF StartWatching, Idle
  <2>10. QED
    BY <2>1, <2>2, <2>7, <2>8, <2>9 DEF NoticeInv, OneVault, Noted
<1>4. QED
  BY <1>1, <1>2, <1>3

(* Every step of a device that keeps to its file keeps it.                 *)
LEMMA NoticeInductive ==
    KeepsToItsFile /\ VaultInv /\ NoticeInv /\ [Next]_vars => NoticeInv'
<1> SUFFICES ASSUME KeepsToItsFile, VaultInv, NoticeInv, [Next]_vars PROVE NoticeInv'
  OBVIOUS
<1>1. /\ \A f \in Files : ~ BindKnown(f) /\ ~ BindNew(f)
      /\ ~ ImportBound /\ ~ RereadFile /\ ~ RerecordFile
      /\ ~ StopTrackingVault /\ ~ TrackingStopped /\ ~ Quit /\ ~ Launch
  BY DEF KeepsToItsFile, NoticeInv, OneVault, BindKnown, BindNew, ImportBound, RereadFile,
         RerecordFile, StopTrackingVault, TrackingStopped, Quit, Launch
<1>2. CASE UNCHANGED vars
  <2>1. UNCHANGED <<disk, locked, store, active, app>>
    BY <1>2 DEF vars
  <2>2. Grows
    BY <2>1 DEF Grows, store, Known, Placed
  <2>3. QED
    BY <2>1, <2>2, NoticeStays DEF store, app, NoticeInv, OneVault, NoFileYet, Noted
<1>3. CASE \E f \in Files : \/ Open(f) \/ CloseEditor(f) \/ AdoptVault(f)
                            \/ \E c \in Edits[f] : Save(f, c)
  BY <1>3, LockNotice, AdoptNotice, SaveNotice
<1>4. CASE \E i \in DOMAIN watchers : WatcherStep(i)
  BY <1>4, DeliveryNotice
<1>5. CASE \E s \in Slots : \/ TaskStep(s) \/ PollUnlock(s) \/ ApplyPendingUpdate(s)
                            \/ \E c \in Contents : Promote(s, c)
                            \/ \E c \in Contents, i \in BOOLEAN : WriteBack(s, c, i)
  BY <1>5, TaskNotice, RenameNotice DEF TaskStep
<1>6. CASE \/ BeginSession \/ \E failed \in BOOLEAN : EndSessionIdle(failed)
           \/ \E s \in Slots, c \in Contents : EndSession(s, c)
  BY <1>6, SessionNotice
<1>7. CASE SaveVaultAs \/ FilePlaced \/ StartWatching
  BY <1>7, SaveAsNotice
<1>8. QED
  BY <1>1, <1>2, <1>3, <1>4, <1>5, <1>6, <1>7 DEF Next

(* So at rest what was saved in the file is a recorded revision.           *)
LEMMA NoticeMeans == VaultInv /\ NoticeInv => SavesNoticed
<1> SUFFICES ASSUME VaultInv, NoticeInv, AtRest, NEW f \in bound PROVE disk[f] \in recorded[f]
  BY InvMeansTypes DEF SavesNoticed
<1>1. f = active /\ user.step = "idle"
  BY OneVaultOnly DEF VaultInv, StoreSound, AtRest, Idle
<1>2. Tracks /\ (disk[active] \in recorded[active] \/ Stirred)
  BY <1>1 DEF NoticeInv, Noted
<1>3. current \in DOMAIN watchers
  BY <1>2 DEF Tracks, VaultInv, AppSound, WatchersBounded
<1>4. ~ Stirred
  BY <1>3 DEF AtRest, Quiet, Stirred, Moving
<1>5. QED
  BY <1>1, <1>2, <1>4

(* VaultFileWatcher's debounce, its delivery under way and its pending     *)
(* flag: on a device that keeps to its file, once nothing is left to do    *)
(* what the file holds is a revision, whatever saves, sessions, restores   *)
(* and write-backs came in between, and however many.                      *)
THEOREM SavesNoticedAlways ==
    ASSUME KeepsToItsFile
    PROVE  Spec => []SavesNoticed
<1>1. Init => NoticeInv
  BY InitNotice
<1>2. VaultInv /\ NoticeInv /\ [Next]_vars => NoticeInv'
  BY NoticeInductive
<1>3. VaultInv /\ NoticeInv => SavesNoticed
  BY NoticeMeans
<1>4. QED
  BY <1>1, <1>2, <1>3, VaultSafe, PTL DEF Spec

-----------------------------------------------------------------------------
(* One write-back at a time, no new file, and nobody opens the file in the *)
(* windows of InGap: while the file and the head differ, the watcher is    *)
(* about to read the file, a write-back of the head is under way, or an    *)
(* update is held back, and a write-back under way does not rely on the    *)
(* last.                                                                   *)
NoNewFile == KeepsToItsFile /\ Uses \cap {"save as", "reopen"} = {}

InStep == disk[active] = head[active] \/ Stirred

TaskInStep(t) ==
    /\ t.step = "free" => ~ t.tracked
    /\ t.step \in {"reading", "asking"} => t.tracked
    /\ t.tracked /\ t.step = "checking" => active \notin locked
    /\ active \in bound => InStep \/ IF t.tracked THEN t.bytes = head[active] ELSE heldBack

StepInv ==
    /\ user.step = "idle"
    /\ \A i \in DOMAIN watchers : i = current
    /\ active \in bound /\ watchers[current].job.step = "saving" => Stirred
    /\ \A s \in Slots : TaskInStep(tasks[s])

(* It holds at the start: the file is the head.                            *)
LEMMA InitStep == Init => StepInv
<1> SUFFICES ASSUME Init PROVE StepInv
  OBVIOUS
<1>1. PICK setup \in Setups :
        LET on == IF setup = "tracking" THEN {Tracked} ELSE {}
        IN  /\ disk = [f \in Files |-> IF setup = "tracking" THEN Origin[f] ELSE Nothing]
            /\ head = [f \in Files |-> IF f \in on THEN Origin[f] ELSE Nothing]
            /\ bound = on
            /\ active = IF on = {} THEN Nothing ELSE Tracked
            /\ watchers = IF on = {} THEN <<>> ELSE << Watching(Tracked) >>
            /\ current = Len(watchers)
            /\ tasks = [s \in Slots |-> FreeSlot]
            /\ user = Idle
  BY DEF Init
<1>2. user.step = "idle" /\ \A s \in Slots : tasks[s].step = "free" /\ ~ tasks[s].tracked
  BY <1>1 DEF Idle, FreeSlot
<1>3. CASE setup = "tracking"
  <2>1. watchers = << Watching(Tracked) >> /\ current = Len(watchers) /\ active = Tracked
    BY <1>1, <1>3
  <2>2. DOMAIN watchers = {1} /\ current = 1
    BY <2>1
  <2>3. watchers[1].job.step = "idle"
    BY <2>1 DEF Watching, Idle
  <2>4. disk[active] = head[active]
    BY <1>1, <1>3, <2>1, VaultFileAssumption
  <2>5. QED
    BY <1>2, <2>2, <2>3, <2>4 DEF StepInv, TaskInStep, InStep
<1>4. CASE setup # "tracking"
  <2>1. watchers = <<>> /\ bound = {}
    BY <1>1, <1>4
  <2>2. DOMAIN watchers = {}
    BY <2>1
  <2>3. QED
    BY <1>2, <2>1, <2>2 DEF StepInv, TaskInStep
<1>5. QED
  BY <1>3, <1>4

(* The file that is tracked is watched, by the only watcher there is.      *)
LEMMA OnlyWatcher ==
    ASSUME VaultInv, NoticeInv, StepInv, active \in bound
    PROVE  /\ current \in DOMAIN watchers /\ active \in Files
           /\ watchers[current].live /\ watchers[current].path = active
<1>1. Tracks
  BY DEF NoticeInv, Noted, StepInv
<1>2. QED
  BY <1>1, OneVaultOnly DEF Tracks, VaultInv, AppSound, WatchersBounded

(* An editor opens the file only before the write-back has looked.         *)
LEMMA LockInStep ==
    ASSUME NoNewFile, VaultInv, NoticeInv, StepInv, NEW f \in Files, Open(f) \/ CloseEditor(f)
    PROVE  StepInv'
<1>1. UNCHANGED <<disk, bound, head, active, watchers, current, heldBack, tasks, user>>
  BY DEF Open, CloseEditor, store, app
<1>2. ASSUME NEW s \in Slots, tasks[s].tracked, tasks[s].step = "checking"
      PROVE  active \notin locked'
  <2>1. active \notin locked /\ tasks[s].vault = active
    BY <1>2, OneVaultOnly DEF StepInv, TaskInStep
  <2>2. QED
    BY <1>2, <2>1 DEF Open, CloseEditor, InGap, NoNewFile
<1>3. QED
  BY <1>1, <1>2 DEF StepInv, TaskInStep, InStep, Stirred, Moving

(* The file changes under the watcher, which notices.                      *)
LEMMA WrittenInStep ==
    ASSUME VaultInv, NoticeInv, StepInv, NEW f \in Files, watchers' = Noticed(f),
           UNCHANGED <<bound, head, active, current, user>>,
           f # active => disk'[active] = disk[active]
    PROVE  /\ \A i \in DOMAIN watchers' : i = current'
           /\ active' \in bound' /\ watchers'[current'].job.step = "saving" => Stirred'
           /\ active \in bound /\ f = active => Stirred'
           /\ active \in bound /\ InStep => InStep'
<1>1. /\ DOMAIN watchers' = DOMAIN watchers
      /\ \A i \in DOMAIN watchers : /\ watchers'[i].path = watchers[i].path
                                    /\ watchers'[i].live = watchers[i].live
                                    /\ watchers'[i].job = watchers[i].job
                                    /\ watchers'[i].timer = watchers[i].timer
                                    /\ watchers'[i].pending = watchers[i].pending
                                    /\ watchers[i].event => watchers'[i].event
                                    /\ watchers[i].live /\ watchers[i].path = f => watchers'[i].event
  BY NoticedWatchers DEF VaultInv, AppSound
<1>2. active \in bound /\ f = active => Stirred'
  BY <1>1, OnlyWatcher DEF Stirred, Moving
<1>3. active \in bound /\ f # active /\ Stirred => Stirred'
  BY <1>1, OnlyWatcher DEF Stirred, Moving
<1>4. active \in bound /\ InStep => InStep'
  BY <1>2, <1>3 DEF InStep
<1>5. active \in bound /\ watchers'[current].job.step = "saving" => Stirred'
  BY <1>1, <1>2, <1>3, OnlyWatcher DEF StepInv
<1>6. QED
  BY <1>1, <1>2, <1>4, <1>5 DEF StepInv

(* A save stirs the watcher.                                               *)
LEMMA SaveInStep ==
    ASSUME VaultInv, NoticeInv, StepInv, NEW f \in Files, NEW c \in Edits[f], Save(f, c)
    PROVE  StepInv'
<1>1. UNCHANGED <<locked, bound, head, active, current, heldBack, tasks, user>> /\ watchers' = Noticed(f)
  BY DEF Save
<1>2. active \in bound /\ active \in Files
  BY OneVaultOnly DEF Save, NoticeInv, NoFileYet
<1>3. f # active => disk'[active] = disk[active]
  BY <1>2 DEF Save, VaultInv, StoreSound
<1>4. /\ \A i \in DOMAIN watchers' : i = current'
      /\ active' \in bound' /\ watchers'[current'].job.step = "saving" => Stirred'
      /\ active \in bound /\ f = active => Stirred'
      /\ active \in bound /\ InStep => InStep'
  BY <1>1, <1>3, WrittenInStep
<1>5. QED
  BY <1>1, <1>4 DEF StepInv, TaskInStep, InStep

(* The watcher moves on: it records what it read as the head, or starts    *)
(* over.                                                                   *)
LEMMA DeliveryInStep ==
    ASSUME VaultInv, NoticeInv, StepInv, NEW i \in DOMAIN watchers, WatcherStep(i)
    PROVE  StepInv'
<1>1. /\ active \in bound
      /\ UNCHANGED <<disk, locked, active, bound, current, tasks, user>>
  BY WatcherMoves
<1>2. i = current /\ watchers[i].path = active
  BY <1>1, OnlyWatcher DEF StepInv
<1>3. (watchers[i].job.step = "saving" => Moving(watchers[i])) /\ Moving(watchers[i])
  BY <1>1, <1>2 DEF StepInv, Stirred, Moving, WatcherStep, Schedule, Deliver, ReadFile, RecordChange
<1>4. PICK new \in SoundWatchers :
        /\ Watcher(i, new)
        /\ disk[active] = head'[active] \/ Moving(new)
        /\ new.job.step = "saving" => Moving(new)
  BY <1>2, <1>3, WatcherMoves
<1>5. DOMAIN watchers' = DOMAIN watchers /\ watchers'[current'] = new
  BY <1>1, <1>2, <1>4, OneWatcher DEF VaultInv, AppSound
<1>6. InStep' /\ (watchers'[current'].job.step = "saving" => Stirred')
  BY <1>1, <1>4, <1>5 DEF InStep, Stirred, Moving
<1>7. QED
  BY <1>1, <1>5, <1>6 DEF StepInv, TaskInStep

(* The only write-back moves on.                                           *)
LEMMA TaskInStepMoves ==
    ASSUME VaultInv, NoticeInv, StepInv, NEW s, Slots = {s}, TaskStep(s)
    PROVE  StepInv'
<1>1. tasks[s].vault = active /\ active \in bound /\ active \in Files
  BY OneVaultOnly DEF TaskStep, CompareFile, HoldBack, LoadBytes, RefuseWrite, WriteTemp, Rename
<1>2. UNCHANGED <<locked, store, active, current, user>>
  BY DEF TaskStep, CompareFile, HoldBack, LoadBytes, RefuseWrite, WriteTemp, Rename
<1>3. PICK old \in SoundTasks : old = tasks[s] /\ TaskInStep(old)
  BY DEF VaultInv, AppSound, StepInv
<1>4. FreeSlot.step = "free" /\ ~ FreeSlot.tracked
  BY DEF FreeSlot
<1>5. CASE Rename(s)
  <2>1. watchers' = Noticed(active) /\ tasks'[s] = FreeSlot
    BY <1>1, <1>5 DEF Rename, WriteTarget, Task, VaultInv, AppSound
  <2>2. /\ \A i \in DOMAIN watchers' : i = current'
        /\ active' \in bound' /\ watchers'[current'].job.step = "saving" => Stirred'
        /\ Stirred'
    BY <1>1, <1>2, <2>1, WrittenInStep DEF store
  <2>3. QED
    BY <1>2, <1>4, <2>1, <2>2 DEF StepInv, TaskInStep, InStep
<1>6. CASE ~ Rename(s)
  <2>1. UNCHANGED <<disk, bound, head, watchers>>
    BY <1>6 DEF TaskStep, CompareFile, HoldBack, LoadBytes, RefuseWrite, WriteTemp, store
  <2>2. InStep' = InStep /\ Stirred' = Stirred
    BY <1>2, <2>1 DEF InStep, Stirred, Moving
  <2>3. TaskInStep(tasks[s])'
    <3> USE <1>1, <1>2, <1>3, <1>4, <2>1, <2>2 DEF TaskInStep
    <3>1. CASE CompareFile(s)
      <4>1. CASE disk[active] = old.bytes
        <5>1. tasks'[s] = FreeSlot /\ old.tracked
          BY <3>1, <4>1 DEF CompareFile, Task, VaultInv, AppSound
        <5>2. InStep
          BY <4>1, <5>1 DEF InStep
        <5>3. QED
          BY <5>1, <5>2
      <4>2. CASE disk[active] # old.bytes
        <5>1. tasks'[s] = [old EXCEPT !.step = "asking"] /\ old.tracked
          BY <3>1, <4>2 DEF CompareFile, Task, VaultInv, AppSound
        <5>2. tasks'[s].step = "asking" /\ tasks'[s].tracked /\ tasks'[s].bytes = old.bytes
          BY <5>1 DEF SoundTasks, TaskRecords
        <5>3. QED
          BY <5>1, <5>2
      <4>3. QED
        BY <4>1, <4>2
    <3>2. CASE HoldBack(s)
      <4>1. tasks'[s] = FreeSlot /\ heldBack' = TRUE
        BY <3>2 DEF HoldBack, Task, VaultInv, AppSound
      <4>2. QED
        BY <4>1
    <3>3. CASE LoadBytes(s) \/ WriteTemp(s)
      <4>1. PICK step \in {"checking", "renaming"} : tasks'[s] = [old EXCEPT !.step = step]
        BY <3>3 DEF LoadBytes, WriteTemp, Task, VaultInv, AppSound
      <4>2. /\ tasks'[s].step = step /\ tasks'[s].tracked = old.tracked
            /\ tasks'[s].bytes = old.bytes /\ tasks'[s].vault = old.vault
        BY <4>1 DEF SoundTasks, TaskRecords
      <4>3. heldBack' = heldBack /\ active \notin locked
        BY <3>3 DEF LoadBytes, WriteTemp
      <4>4. QED
        BY <4>2, <4>3
    <3>4. CASE RefuseWrite(s)
      <4>1. tasks'[s] = FreeSlot /\ ~ old.tracked
        BY <3>4 DEF RefuseWrite, Task, VaultInv, AppSound
      <4>2. heldBack' = heldBack
        BY <3>4, <4>1 DEF RefuseWrite, VaultInv, AppSound
      <4>3. QED
        BY <4>1, <4>2
    <3>5. QED
      BY <1>6, <3>1, <3>2, <3>3, <3>4 DEF TaskStep
  <2>4. QED
    BY <1>2, <2>1, <2>2, <2>3 DEF StepInv
<1>7. QED
  BY <1>5, <1>6

(* A write-back of the head begins, or the person's own; the head has not  *)
(* moved, or it is what is written back.                                   *)
LEMMA TaskInStepBegins ==
    ASSUME VaultInv, NoticeInv, StepInv, NEW s, Slots = {s}, tasks[s] = FreeSlot,
           UNCHANGED <<disk, locked, bound, active, watchers, current, user, heldBack>>,
           NEW t, tasks' = [tasks EXCEPT ![s] = t], 
           \/ t = FreeSlot /\ head' = head
           \/ t = FreeSlot /\ active \notin bound
           \/ t.step = "reading" /\ t.tracked /\ t.bytes = head'[active]
           \/ t.step \in {"checking", "renaming"} /\ ~ t.tracked /\ head' = head
    PROVE  StepInv'
<1>1. FreeSlot.step = "free" /\ ~ FreeSlot.tracked
  BY DEF FreeSlot
<1>2. tasks'[s] = t
  BY DEF VaultInv, AppSound
<1>3. Stirred' = Stirred
  BY DEF Stirred, Moving
<1>4. TaskInStep(FreeSlot)
  BY DEF StepInv
<1>5. head' = head => InStep' = InStep
  BY <1>3 DEF InStep
<1>6. TaskInStep(t)'
  BY <1>1, <1>4, <1>5 DEF TaskInStep
<1>7. QED
  BY <1>2, <1>3, <1>6 DEF StepInv

(* Every beginning of a write-back is one of those.                        *)
LEMMA BeginsInStep ==
    ASSUME VaultInv, NoticeInv, StepInv, NEW s, Slots = {s},
           \/ PollUnlock(s) \/ ApplyPendingUpdate(s)
           \/ \E c \in Contents : Promote(s, c) \/ EndSession(s, c)
           \/ \E c \in Contents, i \in BOOLEAN : WriteBack(s, c, i)
    PROVE  StepInv'
<1>1. UNCHANGED <<disk, locked, bound, watchers, current, user, heldBack>> /\ tasks[s] = FreeSlot
  BY DEF PollUnlock, ApplyPendingUpdate, Promote, EndSession, WriteBack, store
<1>2. active' = active
  BY OneVaultOnly DEF PollUnlock, ApplyPendingUpdate, Promote, EndSession, RemoteAhead, WriteBack
<1>3. CASE PollUnlock(s) \/ ApplyPendingUpdate(s)
  <2>1. PICK t : t = Materializes(active, head[active]) /\ tasks' = [tasks EXCEPT ![s] = t]
    BY <1>3 DEF PollUnlock, ApplyPendingUpdate, Task
  <2>2. head' = head
    BY <1>3 DEF PollUnlock, ApplyPendingUpdate, store
  <2>3. t = FreeSlot \/ (t.step = "reading" /\ t.tracked /\ t.bytes = head'[active])
    BY <2>1, <2>2 DEF Materializes
  <2>4. QED
    BY <1>1, <1>2, <2>1, <2>2, <2>3, TaskInStepBegins
<1>4. CASE \E c \in Contents : Promote(s, c) \/ EndSession(s, c)
  <2>1. PICK c \in Contents : Promote(s, c) \/ EndSession(s, c)
    BY <1>4
  <2>2. active \in Files /\ active \in Known /\ head' = [head EXCEPT ![active] = c]
    BY <2>1, OneVaultOnly DEF Promote, EndSession, RemoteAhead, VaultInv, AppSound, SoundSessions, Maybe
  <2>3. head'[active] = c /\ c # Nothing /\ active # Nothing
    BY <2>2, VaultFileAssumption DEF VaultInv, StoreSound
  <2>4. PICK t : t = Materializes(active, c) /\ tasks' = [tasks EXCEPT ![s] = t]
    BY <2>1, OneVaultOnly DEF Promote, EndSession, RemoteAhead, Task
  <2>5. (t = FreeSlot /\ active \notin bound) \/ (t.step = "reading" /\ t.tracked /\ t.bytes = head'[active])
    BY <2>3, <2>4 DEF Materializes
  <2>6. QED
    BY <1>1, <1>2, <2>4, <2>5, TaskInStepBegins
<1>5. ASSUME NEW c \in Contents, NEW i \in BOOLEAN, WriteBack(s, c, i) PROVE StepInv'
  <2>1. PICK t : /\ t = [step |-> IF i THEN "renaming" ELSE "checking",
                         vault |-> active, bytes |-> c, tracked |-> FALSE]
                 /\ tasks' = [tasks EXCEPT ![s] = t]
    BY <1>5 DEF WriteBack, Task
  <2>2. t.step \in {"checking", "renaming"} /\ ~ t.tracked /\ head' = head
    BY <1>5, <2>1 DEF WriteBack, store
  <2>3. QED
    BY <1>1, <1>2, <2>1, <2>2, TaskInStepBegins
<1>6. QED
  BY <1>3, <1>4, <1>5

(* Sessions that move nothing, and a vault that has no file yet.           *)
LEMMA SessionInStep ==
    ASSUME VaultInv, NoticeInv, StepInv,
           \/ BeginSession \/ \E failed \in BOOLEAN : EndSessionIdle(failed)
           \/ \E v \in Files : AdoptVault(v)
    PROVE  StepInv'
<1>1. UNCHANGED <<disk, locked, head, bound, watchers, current, user, heldBack, tasks>>
  BY DEF BeginSession, EndSessionIdle, AdoptVault, store
<1>2. syncing.phase \in {"none", "joining", "about"}
  BY DEF VaultInv, AppSound, SoundSessions, SessionRecords
<1>3. CASE active' = active
  BY <1>1, <1>3 DEF StepInv, TaskInStep, InStep, Stirred, Moving
<1>4. CASE \E v \in Files : AdoptVault(v)
  <2>1. active = Nothing /\ bound = {}
    BY <1>4, OneVaultOnly DEF AdoptVault, NoticeInv, OneVault, VaultInv, StoreSound
  <2>2. \A s \in Slots : tasks[s].step = "free"
    BY <2>1 DEF NoticeInv, NoFileYet
  <2>3. QED
    BY <1>1, <2>1, <2>2 DEF StepInv, TaskInStep
<1>5. QED
  BY <1>2, <1>3, <1>4, OneVaultOnly DEF BeginSession, EndSessionIdle, NoticeInv, OneVault

(* Every step keeps it.                                                    *)
LEMMA StepInductive ==
    ASSUME NoNewFile, NEW s, Slots = {s}, VaultInv, NoticeInv, StepInv, [Next]_vars
    PROVE  StepInv'
<1>1. /\ \A f \in Files : ~ BindKnown(f) /\ ~ BindNew(f)
      /\ ~ ImportBound /\ ~ RereadFile /\ ~ RerecordFile /\ ~ StartWatching
      /\ ~ StopTrackingVault /\ ~ TrackingStopped /\ ~ Quit /\ ~ Launch
      /\ ~ SaveVaultAs /\ ~ FilePlaced
  BY DEF NoNewFile, KeepsToItsFile, NoticeInv, OneVault, StepInv, BindKnown, BindNew, ImportBound,
         RereadFile, RerecordFile, StartWatching, StopTrackingVault, TrackingStopped, Quit, Launch,
         SaveVaultAs, FilePlaced
<1>2. CASE UNCHANGED vars
  BY <1>2 DEF vars, store, app, StepInv, TaskInStep, InStep, Stirred, Moving
<1>3. CASE \E f \in Files : \/ Open(f) \/ CloseEditor(f) \/ \E c \in Edits[f] : Save(f, c)
  BY <1>3, LockInStep, SaveInStep DEF NoNewFile
<1>4. CASE \E i \in DOMAIN watchers : WatcherStep(i)
  BY <1>4, DeliveryInStep
<1>5. CASE TaskStep(s)
  BY <1>5, TaskInStepMoves
<1>6. CASE \/ PollUnlock(s) \/ ApplyPendingUpdate(s)
           \/ \E c \in Contents : Promote(s, c) \/ EndSession(s, c)
           \/ \E c \in Contents, i \in BOOLEAN : WriteBack(s, c, i)
  BY <1>6, BeginsInStep
<1>7. CASE \/ BeginSession \/ \E failed \in BOOLEAN : EndSessionIdle(failed)
           \/ \E v \in Files : AdoptVault(v)
  BY <1>7, SessionInStep
<1>8. QED
  BY <1>1, <1>2, <1>3, <1>4, <1>5, <1>6, <1>7 DEF Next

(* materializeCurrentVersion, its lock check and the poll, the watcher     *)
(* that reads what the program wrote, saves and moves of the head: on a    *)
(* device that keeps to its file, with one write-back at a time, once all  *)
(* is done the file is the current version or an update is known to wait.  *)
(* (With two at a time it fails: an older one clears what a newer one      *)
(* holds back.)                                                            *)
THEOREM AtRestInStepAlways ==
    ASSUME NoNewFile, NEW s, Slots = {s}
    PROVE  Spec => []AtRestInStep
<1>1. Init => NoticeInv /\ StepInv
  BY InitNotice, InitStep
<1>2. VaultInv /\ NoticeInv /\ [Next]_vars => NoticeInv'
  BY NoticeInductive DEF NoNewFile
<1>3. VaultInv /\ NoticeInv /\ StepInv /\ [Next]_vars => StepInv'
  BY StepInductive
<1>4. VaultInv /\ NoticeInv /\ StepInv => AtRestInStep
  <2> SUFFICES ASSUME VaultInv, NoticeInv, StepInv, AtRest, active \in bound
               PROVE  disk[active] = head[active] \/ heldBack
    BY DEF AtRestInStep
  <2>1. tasks[s] = FreeSlot /\ ~ FreeSlot.tracked
    BY DEF AtRest, FreeSlot
  <2>2. InStep \/ heldBack
    BY <2>1 DEF StepInv, TaskInStep
  <2>3. ~ Stirred
    BY OnlyWatcher DEF AtRest, Quiet, Stirred, Moving
  <2>4. QED
    BY <2>2, <2>3 DEF InStep
<1>5. QED
  BY <1>1, <1>2, <1>3, <1>4, VaultSafe, PTL DEF Spec
===============================================================================
