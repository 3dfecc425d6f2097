------------------------------ MODULE VaultFile ------------------------------
(***************************************************************************)
(* The password file on one desktop: KeePassXC writes it, the watcher      *)
(* (packages/storage-node/src/vaultFile.ts) turns what it writes into      *)
(* revisions, and the service layer (packages/services/src/                *)
(* vaultServices.ts) writes the current version back after anything that   *)
(* moves it.  Also which file is tracked, and what a restart keeps.        *)
(*                                                                         *)
(* A vault is named after the path it lives at, so kdbxPath is a flag, and *)
(* two versions with the same bytes are one content.  Every file read,     *)
(* lock check, blob read or write and rename is a wait; the code between   *)
(* two waits is one step.                                                  *)
(***************************************************************************)
EXTENDS Naturals, Sequences, SequencesExt

CONSTANTS
    Files,       \* paths, and the vaults kept at them
    Contents,    \* what a file can hold
    Origin,      \* file -> what it holds at the start, or Nothing
    Edits,       \* file -> contents a person can save in it, each once
    Arrivals,    \* contents another device can send, each once
    Tracked,     \* the file that is tracked at the start
    Nothing,     \* no file, no vault, no head
    Slots,       \* write-backs in flight at once
    MaxWatchers, \* watchers started in one run of the program
    Setups,      \* how the device may stand at the start, of SetupKinds
    Uses         \* the operations that happen, of UseKinds

UseKinds == {"edit", "bind", "stop", "restart", "sync", "save as", "promote", "apply",
             "writeback", "reopen"}
SetupKinds == {"tracking", "new"}

AllEdits == UNION Range(Edits)

ASSUME VaultFileAssumption ==
    /\ Nothing \notin Files \cup Contents
    /\ Origin \in [Files -> Contents \cup {Nothing}]
    /\ Edits \in [Files -> SUBSET Contents] /\ Arrivals \subseteq Contents
    /\ Arrivals \cap (AllEdits \cup Range(Origin)) = {} /\ AllEdits \cap Range(Origin) = {}
    /\ Tracked \in Files /\ Origin[Tracked] \in Contents
    /\ MaxWatchers \in Nat \ {0}
    /\ Setups \subseteq SetupKinds
    /\ Uses \subseteq UseKinds

VARIABLES
    disk,     \* file -> contents
    locked,   \* files KeePassXC has open
    fresh,    \* edits and arrivals that have not happened yet
    vaults,   \* vault rows, oldest first
    recorded, \* vault -> contents of its revisions
    head,     \* vault -> contents of its head
    bound,    \* vaults whose row has a kdbxPath
    active,   \* this.vaultId, kept in the settings table as well
    running,  \* is the program running
    watchers, \* every VaultFileWatcher of this run of the program
    current,  \* this.watcher: an index of watchers, or 0
    heldBack, \* updateHeldBack; the unlock poll runs exactly while it is set
    tasks,    \* slot -> a write-back in flight
    user,     \* the operation that changes what is tracked
    syncing   \* the session with the peer

store == <<fresh, vaults, recorded, head, bound>>
app == <<running, watchers, current, heldBack, tasks, user, syncing>>
vars == <<disk, locked, store, active, app>>

Idle == [step |-> "idle", vault |-> Nothing, bytes |-> Nothing, wasBound |-> FALSE]
Saving(v, bytes) == [step |-> "saving", vault |-> v, bytes |-> bytes, wasBound |-> v \in bound]
Doing(step, v, bytes) == [step |-> step, vault |-> v, bytes |-> bytes, wasBound |-> FALSE]

(* A watcher that has just been started on a path.                         *)
Watching(f) == [path |-> f, live |-> TRUE, event |-> FALSE, timer |-> FALSE, pending |-> FALSE,
                job |-> Idle]

NoSession == [phase |-> "none", vault |-> Nothing, known |-> {}]

FreeSlot == [step |-> "free", vault |-> Nothing, bytes |-> Nothing, tracked |-> FALSE]

Maybe(S) == S \cup {Nothing}

Known == Range(vaults)

(* A device that tracks a file, or a new one without any.                  *)
Init ==
    \E setup \in Setups :
        LET on == IF setup = "tracking" THEN {Tracked} ELSE {}
        IN  /\ disk = [f \in Files |-> IF setup = "tracking" THEN Origin[f] ELSE Nothing]
            /\ locked = {}
            /\ fresh = AllEdits \cup Arrivals
            /\ vaults = IF on = {} THEN <<>> ELSE <<Tracked>>
            /\ recorded = [f \in Files |-> IF f \in on THEN {Origin[f]} ELSE {}]
            /\ head = [f \in Files |-> IF f \in on THEN Origin[f] ELSE Nothing]
            /\ bound = on
            /\ active = IF on = {} THEN Nothing ELSE Tracked
            /\ running = TRUE
            /\ watchers = IF on = {} THEN <<>> ELSE << Watching(Tracked) >>
            /\ current = Len(watchers)
            /\ heldBack = FALSE
            /\ tasks = [s \in Slots |-> FreeSlot]
            /\ user = Idle
            /\ syncing = NoSession

-----------------------------------------------------------------------------
(* The editor.                                                             *)

(* What chokidar raises, once the file has settled, for each live watcher. *)
Noticed(f) == [i \in DOMAIN watchers |->
    [watchers[i] EXCEPT !.event = @ \/ (watchers[i].live /\ watchers[i].path = f)]]

(* Windows a few milliseconds wide, in which a save or a lock is missed:   *)
(* between the two looks a write-back takes at the lock, and between the   *)
(* placing of a new file and its watcher's start.                          *)
InGap(f) ==
    \/ \E s \in Slots : tasks[s].tracked /\ tasks[s].step = "checking" /\ tasks[s].vault = f
    \/ user.step = "watching" /\ user.vault = f

(* KeePassXC opens a file, only with "reopen" in one of those windows.     *)
Open(f) ==
    /\ "edit" \in Uses
    /\ disk[f] # Nothing /\ f \notin locked
    /\ InGap(f) => "reopen" \in Uses
    /\ locked' = locked \cup {f}
    /\ UNCHANGED <<disk, store, active, app>>

Save(f, c) ==
    /\ "edit" \in Uses
    /\ f \in locked
    /\ c \in Edits[f] \cap fresh
    /\ fresh' = fresh \ {c}
    /\ disk' = [disk EXCEPT ![f] = c]
    /\ watchers' = Noticed(f)
    /\ UNCHANGED <<locked, vaults, recorded, head, bound, active, running, current, heldBack,
                   tasks, user, syncing>>

CloseEditor(f) ==
    /\ f \in locked
    /\ locked' = locked \ {f}
    /\ UNCHANGED <<disk, store, active, app>>

-----------------------------------------------------------------------------
(* VaultFileWatcher and the onChange that startWatching gives it.          *)

Watcher(i, w) == watchers' = [watchers EXCEPT ![i] = w]

(* An event (re)starts the debounce timer.                                 *)
Schedule(i) ==
    /\ watchers[i].event
    /\ Watcher(i, [watchers[i] EXCEPT !.event = FALSE, !.timer = TRUE])
    /\ UNCHANGED <<disk, locked, store, active, running, current, heldBack, tasks, user, syncing>>

(* The timer fires: start reading, unless a delivery is under way.         *)
Deliver(i) ==
    LET w == watchers[i]
    IN  /\ w.timer
        /\ Watcher(i, IF w.job.step = "idle"
                      THEN [w EXCEPT !.timer = FALSE, !.job = Doing("reading", Nothing, Nothing)]
                      ELSE [w EXCEPT !.timer = FALSE, !.pending = TRUE])
        /\ UNCHANGED <<disk, locked, store, active, running, current, heldBack, tasks, user,
                       syncing>>

(* Mutation: the pending flag is forgotten.                                *)
mut_Delivered(w) == [w EXCEPT !.job = Idle, !.pending = FALSE]

(* deliver's finally: what came meanwhile starts the timer again.          *)
Delivered(w) == [w EXCEPT !.job = Idle, !.timer = @ \/ w.pending, !.pending = FALSE]

(* The bytes are handed to onChange, which records them for the vault that *)
(* is active now: nothing to do if none is, or if they are its head.       *)
ReadFile(i) ==
    LET w == watchers[i]
        bytes == disk[w.path]
    IN  /\ w.job.step = "reading"
        /\ Watcher(i, IF bytes = Nothing \/ active = Nothing \/ bytes = head[active]
                      THEN Delivered(w)
                      ELSE [w EXCEPT !.job = Saving(active, bytes)])
        /\ UNCHANGED <<disk, locked, store, active, running, current, heldBack, tasks, user,
                       syncing>>

(* The blob is stored; one transaction saves the revision and the vault    *)
(* row that was read before, kdbxPath included.                            *)
CommitChange(job) ==
    /\ recorded' = [recorded EXCEPT ![job.vault] = @ \cup {job.bytes}]
    /\ head' = [head EXCEPT ![job.vault] = job.bytes]
    /\ bound' = IF job.wasBound THEN bound \cup {job.vault} ELSE bound \ {job.vault}

RecordChange(i) ==
    /\ watchers[i].job.step = "saving"
    /\ CommitChange(watchers[i].job)
    /\ heldBack' = FALSE
    /\ Watcher(i, Delivered(watchers[i]))
    /\ UNCHANGED <<disk, locked, fresh, vaults, active, running, current, tasks, user, syncing>>

-----------------------------------------------------------------------------
(* materializeCurrentVersion and the other writers of the file.            *)

Task(s, t) == tasks' = [tasks EXCEPT ![s] = t]

(* Mutation: nothing to do when an update is waiting already.              *)
mut_Materializes(v, h) ==
    IF heldBack \/ v = Nothing \/ v \notin bound \/ h = Nothing THEN FreeSlot
    ELSE [step |-> "reading", vault |-> v, bytes |-> h, tracked |-> TRUE]

(* What a write-back takes with it: the vault and its head as they are now.*)
Materializes(v, h) ==
    IF v = Nothing \/ v \notin bound \/ h = Nothing THEN FreeSlot
    ELSE [step |-> "reading", vault |-> v, bytes |-> h, tracked |-> TRUE]

CompareFile(s) ==
    LET same == disk[tasks[s].vault] = tasks[s].bytes
    IN  /\ tasks[s].step = "reading"
        /\ Task(s, IF same THEN FreeSlot ELSE [tasks[s] EXCEPT !.step = "asking"])
        /\ heldBack' = (heldBack /\ ~ same)
        /\ UNCHANGED <<disk, locked, store, active, running, watchers, current, user, syncing>>

(* The file is open in KeePassXC: poll until it is not.                    *)
HoldBack(s) ==
    /\ tasks[s].step = "asking" /\ tasks[s].vault \in locked
    /\ Task(s, FreeSlot)
    /\ heldBack' = TRUE
    /\ UNCHANGED <<disk, locked, store, active, running, watchers, current, user, syncing>>

LoadBytes(s) ==
    /\ tasks[s].step = "asking" /\ tasks[s].vault \notin locked
    /\ Task(s, [tasks[s] EXCEPT !.step = "checking"])
    /\ UNCHANGED <<disk, locked, store, active, running, watchers, current, heldBack, user, syncing>>

(* writeVaultFileAtomic looks at the lock again and returns "refused",     *)
(* which materializeCurrentVersion takes for success.                      *)
RefuseWrite(s) ==
    /\ tasks[s].step = "checking" /\ tasks[s].vault \in locked
    /\ Task(s, FreeSlot)
    /\ heldBack' = (heldBack /\ ~ tasks[s].tracked)
    /\ UNCHANGED <<disk, locked, store, active, running, watchers, current, user, syncing>>

WriteTemp(s) ==
    /\ tasks[s].step = "checking" /\ tasks[s].vault \notin locked
    /\ Task(s, [tasks[s] EXCEPT !.step = "renaming"])
    /\ UNCHANGED <<disk, locked, store, active, running, watchers, current, heldBack, user, syncing>>

(* Mutation: the write goes to the file that is active when it happens.    *)
mut_WriteTarget(t) == IF active \in bound THEN active ELSE t.vault

WriteTarget(t) == t.vault

Rename(s) ==
    /\ tasks[s].step = "renaming"
    /\ disk' = [disk EXCEPT ![WriteTarget(tasks[s])] = tasks[s].bytes]
    /\ watchers' = Noticed(WriteTarget(tasks[s]))
    /\ Task(s, FreeSlot)
    /\ heldBack' = (heldBack /\ ~ tasks[s].tracked)
    /\ UNCHANGED <<locked, store, active, running, current, user, syncing>>

(* The unlock poll.                                                        *)
PollUnlock(s) ==
    /\ heldBack /\ active \in bound
    /\ tasks[s] = FreeSlot
    /\ Task(s, Materializes(active, head[active]))
    /\ UNCHANGED <<disk, locked, store, active, running, watchers, current, heldBack, user, syncing>>

(* writeBack: the person writes an old version to the file, in spite of    *)
(* the lock if they say so.                                                *)
WriteBack(s, c, ignoreLock) ==
    /\ "writeback" \in Uses /\ running
    /\ active \in bound /\ c \in recorded[active]
    /\ tasks[s] = FreeSlot
    /\ Task(s, [step |-> IF ignoreLock THEN "renaming" ELSE "checking",
                vault |-> active, bytes |-> c, tracked |-> FALSE])
    /\ UNCHANGED <<disk, locked, store, active, running, watchers, current, heldBack, user, syncing>>

(* promote (and resolveConflict and combineAndUse, which end the same way).*)
Promote(s, c) ==
    /\ "promote" \in Uses /\ running
    /\ active # Nothing /\ c \in recorded[active]
    /\ tasks[s] = FreeSlot
    /\ head' = [head EXCEPT ![active] = c]
    /\ Task(s, Materializes(active, c))
    /\ UNCHANGED <<disk, locked, fresh, vaults, recorded, bound, active, running, watchers,
                   current, heldBack, user, syncing>>

(* applyPendingUpdate; its own lock check only decides whether to go on.   *)
ApplyPendingUpdate(s) ==
    /\ "apply" \in Uses /\ running
    /\ active \in bound \ locked
    /\ tasks[s] = FreeSlot
    /\ Task(s, Materializes(active, head[active]))
    /\ UNCHANGED <<disk, locked, store, active, running, watchers, current, heldBack, user, syncing>>


-----------------------------------------------------------------------------
(* Sessions, as the file sees them.                                        *)

(* runSession is given the active vault, or none.                          *)
BeginSession ==
    /\ "sync" \in Uses /\ running /\ syncing = NoSession
    /\ syncing' = IF active = Nothing THEN [NoSession EXCEPT !.phase = "joining"]
                  ELSE [phase |-> "about", vault |-> active, known |-> recorded[active]]
    /\ UNCHANGED <<disk, locked, store, active, running, watchers, current, heldBack, tasks, user>>

(* A session without a vault adopts the peer's, which becomes active at    *)
(* once, whatever has been chosen since the session began.  A vault that   *)
(* is just being imported here is no peer's: its id is a new one.          *)
AdoptVault(v) ==
    /\ syncing.phase = "joining"
    /\ user.step = "importing" => v # user.vault
    /\ syncing' = [phase |-> "about", vault |-> v, known |-> recorded[v]]
    /\ active' = v
    /\ vaults' = IF v \in Known THEN vaults ELSE Append(vaults, v)
    /\ UNCHANGED <<disk, locked, fresh, recorded, head, bound, running, watchers, current,
                   heldBack, tasks, user>>

(* The verdict is "remote-ahead": the peer's version descends from the     *)
(* head, so the head is nothing that was recorded during the session.      *)
RemoteAhead(c) ==
    /\ syncing.phase = "about"
    /\ c \in Arrivals \cap fresh
    /\ head[syncing.vault] \in Maybe(syncing.known)

(* Mutation: the fast-forward is not written back.                         *)
mut_EndSession(s, c) ==
    /\ RemoteAhead(c) /\ tasks[s] = FreeSlot
    /\ fresh' = fresh \ {c}
    /\ active' = syncing.vault
    /\ recorded' = [recorded EXCEPT ![syncing.vault] = @ \cup {c}]
    /\ head' = [head EXCEPT ![syncing.vault] = c]
    /\ syncing' = NoSession
    /\ UNCHANGED <<disk, locked, vaults, bound, running, watchers, current, heldBack, tasks, user>>

(* Fast-forward to what the peer sent and write it back.  The session's    *)
(* vault becomes the active one, whatever was active.                      *)
EndSession(s, c) ==
    /\ RemoteAhead(c) /\ tasks[s] = FreeSlot
    /\ fresh' = fresh \ {c}
    /\ active' = syncing.vault
    /\ recorded' = [recorded EXCEPT ![syncing.vault] = @ \cup {c}]
    /\ head' = [head EXCEPT ![syncing.vault] = c]
    /\ Task(s, Materializes(syncing.vault, c))
    /\ syncing' = NoSession
    /\ UNCHANGED <<disk, locked, vaults, bound, running, watchers, current, heldBack, user>>

(* Any other verdict leaves the file alone; a session can also fail.       *)
EndSessionIdle(failed) ==
    /\ syncing # NoSession
    /\ syncing.phase = "joining" => failed
    /\ active' = IF failed THEN active ELSE syncing.vault
    /\ syncing' = NoSession
    /\ UNCHANGED <<disk, locked, store, running, watchers, current, heldBack, tasks, user>>

-----------------------------------------------------------------------------
(* Which file is tracked.                                                  *)

(* VaultFileWatcher.stop: no timer, no further events; a delivery that is  *)
(* under way goes on.                                                      *)
Stopped ==
    IF current = 0 THEN watchers
    ELSE [watchers EXCEPT ![current] = [@ EXCEPT !.live = FALSE, !.event = FALSE, !.timer = FALSE]]

CanRebind == running /\ user = Idle /\ Len(watchers) < MaxWatchers

(* bindVault with a file this device knows: back to it.                    *)
BindKnown(f) ==
    /\ "bind" \in Uses /\ CanRebind
    /\ f \in bound
    /\ active' = f
    /\ watchers' = Stopped
    /\ user' = Doing("reopening", f, Nothing)
    /\ UNCHANGED <<disk, locked, store, running, current, heldBack, tasks, syncing>>

(* bindVault with a new file, which is read first...                       *)
BindNew(f) ==
    /\ "bind" \in Uses /\ CanRebind
    /\ f \notin Known /\ disk[f] # Nothing
    /\ user' = Doing("importing", f, disk[f])
    /\ UNCHANGED <<disk, locked, store, active, running, watchers, current, heldBack, tasks,
                   syncing>>

(* ... and becomes the first revision of a new vault.                      *)
ImportBound ==
    LET f == user.vault
    IN  /\ user.step = "importing"
        /\ vaults' = Append(vaults, f)
        /\ recorded' = [recorded EXCEPT ![f] = {user.bytes}]
        /\ head' = [head EXCEPT ![f] = user.bytes]
        /\ bound' = bound \cup {f}
        /\ active' = f
        /\ watchers' = Stopped
        /\ user' = Doing("watching", f, Nothing)
        /\ UNCHANGED <<disk, locked, fresh, running, current, heldBack, tasks, syncing>>

(* The old watcher is closed: startWatching starts the new one.  A file    *)
(* that is reopened is then read by recordFileNow.                         *)
StartWatching ==
    /\ user.step \in {"reopening", "watching"}
    /\ watchers' = Append(watchers, Watching(user.vault))
    /\ current' = Len(watchers) + 1
    /\ user' = IF user.step = "reopening" /\ active \in bound THEN Doing("rereading", active, Nothing)
               ELSE Idle
    /\ UNCHANGED <<disk, locked, store, active, running, heldBack, tasks, syncing>>

RereadFile ==
    LET v == user.vault
    IN  /\ user.step = "rereading"
        /\ user' = IF disk[v] \in {Nothing, head[v]} THEN Idle ELSE Saving(v, disk[v])
        /\ UNCHANGED <<disk, locked, store, active, running, watchers, current, heldBack, tasks,
                       syncing>>

RerecordFile ==
    /\ user.step = "saving"
    /\ CommitChange(user)
    /\ heldBack' = FALSE
    /\ user' = Idle
    /\ UNCHANGED <<disk, locked, fresh, vaults, active, running, watchers, current, tasks, syncing>>

StopTrackingVault ==
    /\ "stop" \in Uses /\ running /\ user = Idle
    /\ watchers' = Stopped
    /\ user' = Doing("stopping", Nothing, Nothing)
    /\ UNCHANGED <<disk, locked, store, active, running, current, heldBack, tasks, syncing>>

TrackingStopped ==
    /\ user.step = "stopping"
    /\ current' = 0
    /\ heldBack' = FALSE
    /\ active' = Nothing
    /\ user' = Idle
    /\ UNCHANGED <<disk, locked, store, running, watchers, tasks, syncing>>

(* saveVaultAs: an adopted vault gets a file.                              *)
SaveVaultAs ==
    /\ "save as" \in Uses /\ CanRebind
    /\ active # Nothing /\ active \notin bound /\ head[active] # Nothing
    /\ user' = Doing("placing", active, head[active])
    /\ UNCHANGED <<disk, locked, store, active, running, watchers, current, heldBack, tasks,
                   syncing>>

FilePlaced ==
    LET f == user.vault
    IN  /\ user.step = "placing"
        /\ disk' = [disk EXCEPT ![f] = user.bytes]
        /\ bound' = bound \cup {f}
        /\ watchers' = Stopped
        /\ user' = Doing("watching", f, Nothing)
        /\ UNCHANGED <<locked, fresh, vaults, recorded, head, active, running, current, heldBack,
                       tasks, syncing>>

-----------------------------------------------------------------------------
(* The program stops, or dies: only the disk and the database remain.      *)
Quit ==
    /\ "restart" \in Uses /\ running
    /\ running' = FALSE
    /\ watchers' = <<>>
    /\ current' = 0
    /\ heldBack' = FALSE
    /\ tasks' = [s \in Slots |-> FreeSlot]
    /\ user' = Idle
    /\ syncing' = NoSession
    /\ UNCHANGED <<disk, locked, store, active>>

(* Mutation: the file is not watched again after a restart.                *)
mut_Watched(v) == <<>>

Watched(v) == IF v \in bound THEN << Watching(v) >> ELSE <<>>

(* start: the stored choice, or else the newest vault.                     *)
Reopened == IF active \in Known \/ Known = {} THEN active ELSE Last(vaults)

Launch ==
    /\ ~ running
    /\ running' = TRUE
    /\ active' = Reopened
    /\ watchers' = Watched(Reopened)
    /\ current' = Len(watchers')
    /\ UNCHANGED <<disk, locked, store, heldBack, tasks, user, syncing>>

-----------------------------------------------------------------------------
WatcherStep(i) == Schedule(i) \/ Deliver(i) \/ ReadFile(i) \/ RecordChange(i)

TaskStep(s) ==
    CompareFile(s) \/ HoldBack(s) \/ LoadBytes(s) \/ RefuseWrite(s) \/ WriteTemp(s) \/ Rename(s)

Next ==
    \/ \E f \in Files : \/ Open(f) \/ CloseEditor(f) \/ BindKnown(f) \/ BindNew(f) \/ AdoptVault(f)
                        \/ \E c \in Edits[f] : Save(f, c)
    \/ \E i \in DOMAIN watchers : WatcherStep(i)
    \/ \E s \in Slots : \/ TaskStep(s) \/ PollUnlock(s) \/ ApplyPendingUpdate(s)
                        \/ \E c \in Contents : Promote(s, c) \/ EndSession(s, c)
                        \/ \E c \in Contents, i \in BOOLEAN : WriteBack(s, c, i)
    \/ BeginSession \/ \E failed \in BOOLEAN : EndSessionIdle(failed)
    \/ ImportBound \/ StartWatching \/ RereadFile \/ RerecordFile
    \/ StopTrackingVault \/ TrackingStopped \/ SaveVaultAs \/ FilePlaced
    \/ Quit \/ Launch

(* Timers fire, reads and writes end.  The poll's interval waits for no    *)
(* slot: slots bound the model, so it only has to find one now and then.   *)
Fairness ==
    /\ \A i \in 1..MaxWatchers : WF_vars(i \in DOMAIN watchers /\ WatcherStep(i))
    /\ \A s \in Slots : WF_vars(TaskStep(s)) /\ SF_vars(PollUnlock(s))

Spec == Init /\ [][Next]_vars /\ Fairness

-----------------------------------------------------------------------------
Jobs(steps) ==
    [step : steps, vault : Maybe(Files), bytes : Maybe(Contents), wasBound : BOOLEAN]

(* Types of the state.                                                     *)
TypeOK ==
    /\ disk \in [Files -> Maybe(Contents)] /\ locked \subseteq Files
    /\ fresh \subseteq AllEdits \cup Arrivals
    /\ Known \subseteq Files /\ IsInjective(vaults) /\ bound \subseteq Known
    /\ recorded \in [Files -> SUBSET Contents] /\ head \in [Files -> Maybe(Contents)]
    /\ \A f \in Files : head[f] \in recorded[f] \cup {Nothing}
    /\ active \in Maybe(Known)
    /\ syncing \in [phase : {"none", "joining", "about"}, vault : Maybe(Known), known : SUBSET Contents]
    /\ running \in BOOLEAN /\ heldBack \in BOOLEAN
    /\ Len(watchers) <= MaxWatchers /\ current \in 0..Len(watchers)
    /\ \A i \in DOMAIN watchers :
           watchers[i] \in [path : Files, live : BOOLEAN, event : BOOLEAN, timer : BOOLEAN,
                            pending : BOOLEAN, job : Jobs({"idle", "reading", "saving"})]
    /\ tasks \in [Slots -> [step : {"free", "reading", "asking", "checking", "renaming"},
                            vault : Maybe(Files), bytes : Maybe(Contents), tracked : BOOLEAN]]
    /\ user \in Jobs({"idle", "importing", "reopening", "watching", "rereading", "saving",
                      "stopping", "placing"})

Quiet(w) == ~ w.event /\ ~ w.timer /\ w.job.step = "idle"
AtRest ==
    /\ running /\ user = Idle
    /\ \A i \in DOMAIN watchers : Quiet(watchers[i])
    /\ \A s \in Slots : tasks[s] = FreeSlot

(* Whenever the watcher has nothing left to do, what is on disk has become *)
(* a revision: no save falls between the debounce timer, a delivery under  *)
(* way and the flag that a save came meanwhile.                            *)
SavesNoticed == TypeOK /\ (AtRest => \A f \in bound : disk[f] \in recorded[f])

(* Write-backs, saves and head moves may race, but when all of them are    *)
(* done the file is the current version, or an update is known to wait.    *)
AtRestInStep == AtRest /\ active \in bound => disk[active] = head[active] \/ heldBack

(* What a person saves in a file, or found in it.                          *)
Own(f) == Edits[f] \cup {Origin[f]}

(* Bytes read from another file that are being recorded for a vault.       *)
Astray(f) == {watchers[i].job.bytes : i \in {j \in DOMAIN watchers :
                 /\ watchers[j].job.step = "saving" /\ watchers[j].job.vault = f
                 /\ watchers[j].path # f}}

(* There is one way from a vault's file to another vault: a delivery read  *)
(* from the one and recorded for the other (VaultsStayApart).  Whatever is *)
(* bound, stopped or reopened while they are under way, a write-back puts  *)
(* into a file only versions of the vault kept there; and whatever else    *)
(* records a version has it from a peer or from the vault's own file.      *)
FilesKeepTheirVault ==
    /\ [](\A f \in bound : disk[f] \in recorded[f] \cup Own(f))
    /\ [][\A f \in Files :
            recorded'[f] \ recorded[f] \subseteq Own(f) \cup Arrivals \cup Astray(f)]_vars

(* While nothing is being changed about it, the file that is tracked is    *)
(* the file that is watched.                                               *)
TrackedIsWatched ==
    running /\ user = Idle /\ active \in bound
        => current # 0 /\ watchers[current].live /\ watchers[current].path = active

(* A held-back update does not wait for ever for a file that is closed.    *)
HeldBackEnds == []<>(~ heldBack \/ locked # {})

-----------------------------------------------------------------------------
(* Statements of the code and its documents that the runs refute.          *)

(* vaultServices.ts on the fast-forward: "Nothing was discarded, so there  *)
(* is nothing for the user to decide".  A write-back that decides to       *)
(* replace what the file holds replaces something that was recorded.       *)
NothingDiscarded ==
    [][\A s \in Slots : LoadBytes(s) =>
          disk[tasks[s].vault] \in Maybe(recorded[tasks[s].vault])]_vars

(* "You saved changes in KeePassXC.": a change the watcher records is a    *)
(* save, never an older version the program wrote itself.                  *)
RecordsOnlySaves ==
    [][\A i \in DOMAIN watchers : RecordChange(i) =>
          watchers[i].job.bytes \notin recorded[watchers[i].job.vault]]_vars

(* The next session "will say so rather than merging two unrelated         *)
(* histories": what is saved in one file is never a revision of another.   *)
VaultsStayApart == \A f, g \in Files : f # g => recorded[f] \cap (Edits[g] \cup {Origin[g]}) = {}

(* stopTrackingVault: "Track nothing".  The choice survives a restart.     *)
RestartKeepsChoice == [][Launch => active' = active]_vars
=============================================================================
