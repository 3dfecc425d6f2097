----------------------------- MODULE AppStorage ------------------------------
(***************************************************************************)
(* What PassVault keeps for itself on a phone (apps/mobile/src/platform):  *)
(* the metadata database, which sql.js holds in memory and which is        *)
(* written out whole (sqlite.ts); the bytes of revisions, one file each;   *)
(* and the device's key (appStorage.ts, androidPlatform.ts).  Android may  *)
(* kill the process between any two steps.                                 *)
(*                                                                         *)
(* A database is the set of changes made to it; the row of the revision    *)
(* with hash h is the change h.  Statements are synchronous, so a          *)
(* transaction is one step.  Every call of the Filesystem plugin is a wait,*)
(* and so a step of its own.                                               *)
(***************************************************************************)
EXTENDS Naturals, Sequences, FiniteSets

CONSTANTS
    Hashes,    \* revision bytes, by their hash
    Settings,  \* changes outside a transaction: settings, last seen, ...
    Tasks,     \* operations of the engine that store a revision
    DbWriter,  \* the chain of database writes
    DbPath,
    MaxIds,    \* bound: identities that are minted
    Missing,   \* no such file
    Torn,      \* a file that cannot be read as what it should be
    Faults     \* which of FaultKinds can happen

(* kill: the process ends.  write: the disk refuses a write or a rename.   *)
(* keystore: the key that wraps the identity is lost (once).  race: two    *)
(* tasks store the same bytes at once.                                     *)
FaultKinds == {"kill", "write", "keystore", "race"}

Changes == Hashes \cup Settings
Paths == Hashes \cup {DbPath}
Writers == Tasks \cup {DbWriter}
Ids == 1..MaxIds

ASSUME StorageAssumption ==
    /\ Faults \subseteq FaultKinds
    /\ DbPath \notin Hashes /\ DbWriter \notin Tasks
    /\ Hashes \cap Settings = {}
    /\ {Missing, Torn} \cap (Hashes \cup Ids) = {} /\ MaxIds \in Nat

VARIABLES
    app,      \* "off", "loading" or "minting" the identity, "running"
    db,       \* the database in memory
    dirty,    \* changed since the last export
    timer,    \* the debounce timer is set
    writing,  \* exported images in the chain of writes, the first under way
    broken,   \* a write of the chain failed, and the chain with it
    file,     \* path -> what is there
    part,     \* path -> what is at path.part
    op,       \* writer -> the writeAppFileAtomic it is in
    written,  \* the image this process read or last put in place
    idFile,   \* the identity file: an identity, Missing, or Torn
    used,     \* every identity a start has returned
    spoiled,  \* the identity's wrapping key was lost
    raced     \* bytes that two tasks have stored at once

dbVars == <<db, dirty, timer, writing, broken, written>>
fileVars == <<file, part>>
idVars == <<app, idFile, used, spoiled>>
vars == <<dbVars, fileVars, idVars, op, raced>>

NoOp == [step |-> "idle", path |-> DbPath, bytes |-> Missing]
Steps == {"idle", "part", "delete", "rename", "row"}

Init ==
    /\ app = "off"
    /\ db = {} /\ dirty = FALSE /\ timer = FALSE
    /\ writing = <<>> /\ broken = FALSE /\ written = {}
    /\ file = [p \in Paths |-> Missing]
    /\ part = [p \in Paths |-> Missing]
    /\ op = [w \in Writers |-> NoOp]
    /\ idFile = Missing /\ used = {}
    /\ spoiled = FALSE /\ raced = {}

-----------------------------------------------------------------------------
(* Starting: openStore, then loadIdentity.                                 *)

(* readAppFile answers undefined for whatever it cannot read, and the      *)
(* database is then a new one.                                             *)
Loaded == IF file[DbPath] = Missing THEN {} ELSE file[DbPath]

(* openWebSqlite; creating the schema marks the database dirty.            *)
Open ==
    /\ app = "off"
    /\ app' = "loading"
    /\ db' = Loaded /\ written' = Loaded
    /\ dirty' = TRUE /\ timer' = TRUE
    /\ UNCHANGED <<writing, broken, fileVars, idFile, used, spoiled, op, raced>>

Uses(id) == app' = "running" /\ used' = used \cup {id}

(* generateDeviceKeyPair: never a key that was used before.                *)
Fresh == {id \in Ids : id = Cardinality(used) + 1}

(* loadIdentity with a readable file.                                      *)
LoadIdentity ==
    /\ app = "loading" /\ idFile \in Ids
    /\ Uses(idFile)
    /\ UNCHANGED <<dbVars, fileVars, idFile, spoiled, op, raced>>

(* The new key is handed out while its file is still being written.        *)
mut_MintIdentity ==
    /\ app = "loading" /\ idFile \notin Ids
    /\ \E id \in Fresh : Uses(id)
    /\ idFile' = Torn
    /\ UNCHANGED <<dbVars, fileVars, spoiled, op, raced>>

(* No file, or one that cannot be read: writeAppText starts to write a     *)
(* fresh identity over it, in place.                                       *)
MintIdentity ==
    /\ app = "loading" /\ idFile \notin Ids
    /\ app' = "minting"
    /\ idFile' = Torn
    /\ UNCHANGED <<dbVars, fileVars, used, spoiled, op, raced>>

IdentityWritten ==
    /\ app = "minting"
    /\ \E id \in Fresh : idFile' = id /\ Uses(id)
    /\ UNCHANGED <<dbVars, fileVars, spoiled, op, raced>>

(* Native.unprotect will throw from now on: as good as an unreadable file. *)
KeyLost ==
    /\ "keystore" \in Faults
    /\ idFile \in Ids /\ ~ spoiled
    /\ idFile' = Torn /\ spoiled' = TRUE
    /\ UNCHANGED <<dbVars, fileVars, app, used, op, raced>>

-----------------------------------------------------------------------------
(* The database: statements, exports and the chain of writes.              *)

(* The newest image is written first.                                      *)
mut_Flushed(content, changed) ==
    /\ timer' = FALSE /\ dirty' = FALSE
    /\ writing' = IF broken \/ ~ changed THEN writing ELSE <<content>> \o writing

(* flush: the database, if it changed, is exported and its image added to  *)
(* the chain, which does nothing once it is broken.                        *)
Flushed(content, changed) ==
    /\ timer' = FALSE /\ dirty' = FALSE
    /\ writing' = IF broken \/ ~ changed THEN writing ELSE Append(writing, content)

(* touched, for a statement outside a transaction.                         *)
Touched == dirty' = TRUE /\ timer' = TRUE /\ UNCHANGED writing

RunStatement(c) ==
    /\ app # "off"
    /\ c \in Settings \ db
    /\ db' = db \cup {c}
    /\ Touched
    /\ UNCHANGED <<broken, written, fileVars, idVars, op, raced>>

TimerFires ==
    /\ timer
    /\ Flushed(db, dirty)
    /\ UNCHANGED <<db, broken, written, fileVars, idVars, op, raced>>

(* appStateChange, isActive false: flushDatabase.                          *)
Background ==
    /\ app = "running" /\ dirty
    /\ Flushed(db, dirty)
    /\ UNCHANGED <<db, broken, written, fileVars, idVars, op, raced>>

(* The chain reaches its next image.                                       *)
WriteImage ==
    /\ writing # <<>> /\ op[DbWriter] = NoOp
    /\ op' = [op EXCEPT ![DbWriter] = [step |-> "part", path |-> DbPath, bytes |-> Head(writing)]]
    /\ UNCHANGED <<dbVars, fileVars, idVars, raced>>

-----------------------------------------------------------------------------
(* writeAppFileAtomic, and AppBlobStore.put around it.                     *)

Step(w, step) == op' = [op EXCEPT ![w].step = step]
Storing(h) == \E t \in Tasks : op[t].step # "idle" /\ op[t].path = h

(* A revision's row is written before its bytes are in place.              *)
mut_Put(t, h) ==
    /\ app = "running" /\ op[t].step = "idle" /\ h \notin db
    /\ "race" \in Faults \/ ~ Storing(h)
    /\ op' = [op EXCEPT ![t] = [path |-> h, bytes |-> h,
                                step |-> IF file[h] = Missing THEN "part" ELSE "row"]]
    /\ raced' = IF Storing(h) THEN raced \cup {h} ELSE raced
    /\ db' = db \cup {h}
    /\ Touched
    /\ UNCHANGED <<broken, written, fileVars, idVars>>

(* put: bytes that are there already are not written again.  (Bytes whose  *)
(* row is there would only repeat a row.)                                  *)
Put(t, h) ==
    /\ app = "running" /\ op[t].step = "idle" /\ h \notin db
    /\ "race" \in Faults \/ ~ Storing(h)
    /\ op' = [op EXCEPT ![t] = [path |-> h, bytes |-> h,
                                step |-> IF file[h] = Missing THEN "part" ELSE "row"]]
    /\ raced' = IF Storing(h) THEN raced \cup {h} ELSE raced
    /\ UNCHANGED <<dbVars, fileVars, idVars>>

WritePart(w) ==
    /\ op[w].step = "part"
    /\ part' = [part EXCEPT ![op[w].path] = op[w].bytes]
    /\ Step(w, "delete")
    /\ UNCHANGED <<dbVars, file, idVars, raced>>

DeleteOld(w) ==
    /\ op[w].step = "delete"
    /\ file' = [file EXCEPT ![op[w].path] = Missing]
    /\ Step(w, "rename")
    /\ UNCHANGED <<dbVars, part, idVars, raced>>

Moved(path) ==
    /\ file' = [file EXCEPT ![path] = part[path]]
    /\ part' = [part EXCEPT ![path] = Missing]

RenameBlob(t) ==
    /\ op[t].step = "rename" /\ part[op[t].path] # Missing
    /\ Moved(op[t].path)
    /\ Step(t, "row")
    /\ UNCHANGED <<dbVars, idVars, raced>>

(* Another task has moved the .part away: put throws, and so does the      *)
(* operation of the engine.                                                *)
RenameFails(t) ==
    /\ op[t].step = "rename" /\ part[op[t].path] = Missing
    /\ op' = [op EXCEPT ![t] = NoOp]
    /\ UNCHANGED <<dbVars, fileVars, idVars, raced>>

(* The database counts as clean once the write is done, whatever changed   *)
(* while it was under way.                                                 *)
mut_RenameImage ==
    /\ op[DbWriter].step = "rename"
    /\ Moved(DbPath)
    /\ written' = part[DbPath]
    /\ writing' = Tail(writing)
    /\ dirty' = FALSE
    /\ op' = [op EXCEPT ![DbWriter] = NoOp]
    /\ UNCHANGED <<db, timer, broken, idVars, raced>>

RenameImage ==
    /\ op[DbWriter].step = "rename"
    /\ Moved(DbPath)
    /\ written' = part[DbPath]
    /\ writing' = Tail(writing)
    /\ op' = [op EXCEPT ![DbWriter] = NoOp]
    /\ UNCHANGED <<db, dirty, timer, broken, idVars, raced>>

(* A write or rename is refused.  For the database it is the last one: the *)
(* promise the next write would wait for is rejected for good.             *)
WriteFails(w) ==
    /\ "write" \in Faults
    /\ op[w].step \in {"part", "rename"}
    /\ op' = [op EXCEPT ![w] = NoOp]
    /\ IF w = DbWriter THEN broken' = TRUE /\ writing' = <<>> ELSE UNCHANGED <<broken, writing>>
    /\ UNCHANGED <<db, dirty, timer, written, fileVars, idVars, raced>>

(* recordLocalChange, createVault, merge: the row in a transaction, whose  *)
(* COMMIT flushes at once.                                                 *)
CommitRow(t) ==
    /\ op[t].step = "row"
    /\ db' = db \cup {op[t].path}
    /\ Flushed(db', TRUE)
    /\ op' = [op EXCEPT ![t] = NoOp]
    /\ UNCHANGED <<broken, written, fileVars, idVars, raced>>

(* ingestReceivedRevision: the row on its own, flushed by the timer.       *)
SaveRow(t) ==
    /\ op[t].step = "row"
    /\ db' = db \cup {op[t].path}
    /\ Touched
    /\ op' = [op EXCEPT ![t] = NoOp]
    /\ UNCHANGED <<broken, written, fileVars, idVars, raced>>

(* The process ends; what is on disk stays.                                *)
Kill ==
    /\ "kill" \in Faults
    /\ app # "off"
    /\ app' = "off"
    /\ db' = {} /\ dirty' = FALSE /\ timer' = FALSE
    /\ writing' = <<>> /\ broken' = FALSE /\ written' = {}
    /\ op' = [w \in Writers |-> NoOp]
    /\ UNCHANGED <<fileVars, idFile, used, spoiled, raced>>

-----------------------------------------------------------------------------
Next ==
    \/ Open \/ LoadIdentity \/ MintIdentity \/ IdentityWritten \/ KeyLost
    \/ \E c \in Settings : RunStatement(c)
    \/ TimerFires \/ Background \/ WriteImage \/ RenameImage
    \/ \E t \in Tasks : \E h \in Hashes : Put(t, h)
    \/ \E w \in Writers : WritePart(w) \/ DeleteOld(w) \/ WriteFails(w)
    \/ \E t \in Tasks : RenameBlob(t) \/ RenameFails(t) \/ CommitRow(t) \/ SaveRow(t)
    \/ Kill

(* Timers fire and the file system answers; nobody has to do anything.     *)
Fairness ==
    /\ WF_vars(TimerFires) /\ WF_vars(WriteImage) /\ WF_vars(RenameImage)
    /\ WF_vars(WritePart(DbWriter)) /\ WF_vars(DeleteOld(DbWriter))

Spec == Init /\ [][Next]_vars /\ Fairness

-----------------------------------------------------------------------------
Images == {Missing} \cup SUBSET Changes

TypeOK ==
    /\ app \in {"off", "loading", "minting", "running"}
    /\ db \subseteq Changes /\ written \subseteq Changes
    /\ dirty \in BOOLEAN /\ timer \in BOOLEAN /\ broken \in BOOLEAN
    /\ writing \in Seq(SUBSET Changes)
    /\ \A p \in Paths : {file[p], part[p]} \subseteq IF p = DbPath THEN Images ELSE {p, Missing}
    /\ \A w \in Writers : op[w].step \in Steps /\ op[w].path \in Paths
    /\ idFile \in Ids \cup {Missing, Torn} /\ used \subseteq Ids
    /\ spoiled \in BOOLEAN /\ raced \subseteq Hashes

(* Every copy of the database there is: in memory, on its way, on disk.    *)
Copies == {db, Loaded} \cup {writing[i] : i \in 1..Len(writing)}

(* "The reverse, a row pointing at bytes that were never written, remains  *)
(* impossible" (sqlite.ts): whatever copy of the database survives a kill, *)
(* the bytes of every revision in it are in place.  The exception are      *)
(* bytes two tasks stored at once: both use one .part file, and the second *)
(* deletes what the first put in place before it finds that out.           *)
RowsHaveBytes ==
    /\ TypeOK
    /\ \A copy \in Copies : \A h \in (copy \cap Hashes) \ raced : file[h] = h

(* The chain of writes: within one life of the process, an image that is   *)
(* put in place contains all of the one it replaces, whichever flush wrote *)
(* which.                                                                  *)
DiskNeverOlder ==
    [][app' # "off" /\ app # "off" => written \subseteq written']_vars

(* A change reaches the disk (by a commit's flush or by the timer) unless  *)
(* the process is killed first or a write has failed.                      *)
ChangesReachDisk ==
    \A c \in Changes : c \in db ~> c \in Loaded \/ c \notin db \/ broken

(* Whatever interrupts a start, the identity a start returns is the one    *)
(* every later start returns: other devices have pinned its key.  Only the *)
(* loss of the key that wraps it changes the identity.                     *)
IdentityStable == Cardinality(used) <= IF spoiled THEN 2 ELSE 1
=============================================================================
