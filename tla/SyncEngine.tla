------------------------------ MODULE SyncEngine ------------------------------
(***************************************************************************)
(* One device's synchronisation engine (packages/sync/src/engine.ts) over  *)
(* its content-addressed blob store (storage-node/src/blobStore.ts) and    *)
(* its SQLite metadata store (storage-sql/src/sqliteMetadataStore.ts), with*)
(* the lineage and head rules of packages/core.                            *)
(*                                                                         *)
(* Grain of atomicity.  The process is single-threaded and the metadata    *)
(* store synchronous, so a stretch of code that awaits only metadata calls *)
(* runs in one turn of the event loop.  An operation is split where it     *)
(* waits for real input or output: reading blobs and decrypting, and the   *)
(* blob write.  What it read before such a wait it still uses after it.    *)
(*                                                                         *)
(* A transaction() body is atomic; saveRevision outside one is a row       *)
(* insert followed by one insert per parent, each committed on its own, so *)
(* the process can die between them.                                       *)
(***************************************************************************)
EXTENDS RevisionDag

CONSTANTS
    VaultIds,      \* vault ids that exist anywhere
    LocalIds,      \* revision ids this device can mint (random UUIDs)
    Hashes,        \* SHA-256 digests of vault contents
    PeerRevisions, \* what the peers hold: id -> [vault, hash, parents]
    Tasks,         \* engine operations that can be in flight at once
    NoHead,        \* vault.headRevisionId === undefined
    Absent         \* no such vault

RevisionIds == LocalIds \cup DOMAIN PeerRevisions

Row == [vault : VaultIds, hash : Hashes, parents : SUBSET RevisionIds,
        operation : {"imported", "local-change", "received", "merged"}]

PeerGraph == [r \in DOMAIN PeerRevisions |-> PeerRevisions[r].parents]

ASSUME EngineAssumption ==
    /\ NoHead \notin RevisionIds
    /\ Absent \notin RevisionIds \cup {NoHead}
    /\ LocalIds \cap DOMAIN PeerRevisions = {}
    /\ PeerRevisions \in [DOMAIN PeerRevisions ->
          [vault : VaultIds, hash : Hashes, parents : SUBSET RevisionIds]]
    /\ \A r \in DOMAIN PeerRevisions : r \notin PeerRevisions[r].parents

VARIABLES
    blobs,      \* contents that are completely written and renamed into place
    revisions,  \* the revisions table with its parent rows: id -> Row
    head,       \* vaults.head_revision_id: vault id -> id, NoHead or Absent
    logged,     \* next_revision_id of the newest head_events row, per vault
    task        \* operations in flight: task -> its local variables

vars == <<blobs, revisions, head, logged, task>>

Stored == DOMAIN revisions
graph == [r \in Stored |-> revisions[r].parents]

Heads == RevisionIds \cup {NoHead}

Ops == {"none", "import", "record", "ingest", "merge", "combine"}
Phases == {"idle", "reading", "putting", "saving"}

(* The local variables of an operation that outlive an await.              *)
TaskState ==
    [op : Ops, phase : Phases, vault : VaultIds \cup {Absent},
     id : RevisionIds \cup {NoHead}, hash : Hashes \cup {NoHead},
     base : Heads, parents : SUBSET RevisionIds]

(* An operation knows what the code has read or computed by that point.    *)
TaskFilled(s) ==
    /\ s.phase = "idle" <=> s.op = "none"
    /\ s.phase \in {"putting", "saving"} => s.hash \in Hashes
    /\ s.op \in {"record", "ingest", "merge", "combine"} => s.vault \in VaultIds
    /\ s.op = "ingest" => s.id \in DOMAIN PeerRevisions

Idle == [op |-> "none", phase |-> "idle", vault |-> Absent, id |-> NoHead,
         hash |-> NoHead, base |-> NoHead, parents |-> {}]

Init ==
    /\ blobs = {}
    /\ revisions = [r \in {} |-> {}]
    /\ head = [v \in VaultIds |-> Absent]
    /\ logged = [v \in VaultIds |-> NoHead]
    /\ task = [t \in Tasks |-> Idle]

-----------------------------------------------------------------------------
(* Metadata store primitives. *)

(* saveRevision, having seen every parent stored.  A row that is already   *)
(* there is left alone (ON CONFLICT DO NOTHING).                           *)
WithRevision(r, row) ==
    IF r \in Stored THEN revisions
    ELSE [x \in Stored \cup {r} |-> IF x = r THEN row ELSE revisions[x]]

(* saveVault and appendHeadEvent of one head move, in one transaction.     *)
MoveHead(v, next) ==
    /\ head' = [head EXCEPT ![v] = next]
    /\ logged' = [logged EXCEPT ![v] = next]

(* No presence check at all. *)
mut_ParentsPresent(ps) == TRUE

(* hasRevision over a revision's parents, and the same query in            *)
(* saveRevision: every parent has a row of its own.                        *)
ParentsPresent(ps) == ps \subseteq Stored

Become(t, state) == task' = [task EXCEPT ![t] = state]

(* A revision id no stored revision has. *)
Minted == LocalIds \ Stored

-----------------------------------------------------------------------------
(* importVault: the blob is written before anything else happens.          *)
ImportVault(t, h) ==
    /\ task[t].phase = "idle"
    /\ Become(t, [Idle EXCEPT !.op = "import", !.phase = "putting", !.hash = h])
    /\ UNCHANGED <<blobs, revisions, head, logged>>

(* The first revision filed under a vault id that was never minted.        *)
mut_SaveImport(t, v, r) ==
    /\ task[t].phase = "saving" /\ task[t].op = "import"
    /\ head[v] = Absent
    /\ r \in Minted
    /\ revisions' = WithRevision(r, [vault |-> task[t].vault, hash |-> task[t].hash,
                                     parents |-> {}, operation |-> "imported"])
    /\ MoveHead(v, r)
    /\ Become(t, Idle)
    /\ UNCHANGED blobs

(* ... then the vault, its first revision and its head, in one transaction.*)
SaveImport(t, v, r) ==
    /\ task[t].phase = "saving" /\ task[t].op = "import"
    /\ head[v] = Absent
    /\ r \in Minted
    /\ revisions' = WithRevision(r, [vault |-> v, hash |-> task[t].hash, parents |-> {},
                                     operation |-> "imported"])
    /\ MoveHead(v, r)
    /\ Become(t, Idle)
    /\ UNCHANGED blobs

(* recordLocalChange up to the blob write: nothing happens when the bytes  *)
(* are those of the current head; otherwise the head just read becomes the *)
(* base of the new revision, whatever happens to it during the write.      *)
RecordLocalChange(t, v, h) ==
    /\ task[t].phase = "idle"
    /\ head[v] # Absent
    /\ head[v] # NoHead => revisions[head[v]].hash # h
    /\ Become(t, [Idle EXCEPT !.op = "record", !.phase = "putting", !.vault = v,
                              !.hash = h, !.base = head[v]])
    /\ UNCHANGED <<blobs, revisions, head, logged>>

(* A transaction that moves the head and forgets to log the move.          *)
mut_SaveLocalChange(t, r) ==
    LET s == task[t]
        ps == IF s.base = NoHead THEN {} ELSE {s.base}
    IN  /\ s.phase = "saving" /\ s.op = "record"
        /\ r \in Minted
        /\ ParentsPresent(ps)
        /\ revisions' = WithRevision(r, [vault |-> s.vault, hash |-> s.hash, parents |-> ps,
                                         operation |-> "local-change"])
        /\ head' = [head EXCEPT ![s.vault] = r]
        /\ Become(t, Idle)
        /\ UNCHANGED <<blobs, logged>>

(* The transaction of recordLocalChange: revision, vault row, head event.  *)
SaveLocalChange(t, r) ==
    LET s == task[t]
        ps == IF s.base = NoHead THEN {} ELSE {s.base}
    IN  /\ s.phase = "saving" /\ s.op = "record"
        /\ r \in Minted
        /\ ParentsPresent(ps)
        /\ revisions' = WithRevision(r, [vault |-> s.vault, hash |-> s.hash, parents |-> ps,
                                         operation |-> "local-change"])
        /\ MoveHead(s.vault, r)
        /\ Become(t, Idle)
        /\ UNCHANGED blobs

(* ingestReceivedRevision up to the blob write.  h is the hash of the bytes*)
(* that arrived.  A revision already present, bytes that do not hash to    *)
(* the declared hash, or a missing parent end the operation there.         *)
IngestReceivedRevision(t, r, h) ==
    /\ task[t].phase = "idle"
    /\ r \notin Stored
    /\ h = PeerRevisions[r].hash
    /\ ParentsPresent(PeerRevisions[r].parents)
    /\ Become(t, [Idle EXCEPT !.op = "ingest", !.phase = "putting", !.id = r, !.hash = h,
                              !.vault = PeerRevisions[r].vault,
                              !.parents = PeerRevisions[r].parents])
    /\ UNCHANGED <<blobs, revisions, head, logged>>

(* Received revisions grafted onto the local head, replacing what is there.*)
mut_SaveReceived(t) ==
    LET s == task[t]
        row == [vault |-> s.vault, hash |-> s.hash, operation |-> "received",
                parents |-> {head[s.vault]} \cap Stored]
    IN  /\ s.phase = "saving" /\ s.op = "ingest"
        /\ revisions' = [x \in Stored \cup {s.id} |-> IF x = s.id THEN row ELSE revisions[x]]
        /\ Become(t, Idle)
        /\ UNCHANGED <<blobs, head, logged>>

(* The rest of it: saveRevision, with the sender's id and parents, and no  *)
(* head move.  Its own check on the parents throws, ending the operation.  *)
SaveReceived(t) ==
    LET s == task[t]
    IN  /\ s.phase = "saving" /\ s.op = "ingest"
        /\ ParentsPresent(s.parents)
        /\ revisions' = WithRevision(s.id, [vault |-> s.vault, hash |-> s.hash,
                                            parents |-> s.parents, operation |-> "received"])
        /\ Become(t, Idle)
        /\ UNCHANGED <<blobs, head, logged>>

(* merge and combineAndUse: the inputs are looked up, then read and        *)
(* decrypted.  combineAndUse merges into the head it has just read.  (A    *)
(* revision merged with itself is refused by mergedRevision: see Fail.)    *)
StartMerge(t, v, base, other, op) ==
    /\ task[t].phase = "idle"
    /\ base # other /\ {base, other} \subseteq Stored
    /\ revisions[base].vault = v /\ revisions[other].vault = v
    /\ op = "combine" => base = head[v]
    /\ Become(t, [Idle EXCEPT !.op = op, !.phase = "reading", !.vault = v,
                              !.base = base, !.parents = {base, other}])
    /\ UNCHANGED <<blobs, revisions, head, logged>>

(* Both inputs were read and the interpreter returned merged bytes.        *)
MergeSucceeds(t, h) ==
    /\ task[t].phase = "reading"
    /\ \A r \in task[t].parents : revisions[r].hash \in blobs
    /\ Become(t, [task[t] EXCEPT !.phase = "putting", !.hash = h])
    /\ UNCHANGED <<blobs, revisions, head, logged>>

(* The merged revision is stored, not promoted.                            *)
SaveMerged(t, r) ==
    LET s == task[t]
    IN  /\ s.phase = "saving" /\ s.op = "merge"
        /\ r \in Minted
        /\ ParentsPresent(s.parents)
        /\ revisions' = WithRevision(r, [vault |-> s.vault, hash |-> s.hash,
                                         parents |-> s.parents, operation |-> "merged"])
        /\ Become(t, Idle)
        /\ UNCHANGED <<blobs, head, logged>>

(* combineAndUse goes on to promote what it stored, reading the vault      *)
(* afresh: whatever the head has become meanwhile is replaced.             *)
SaveCombined(t, r) ==
    LET s == task[t]
    IN  /\ s.phase = "saving" /\ s.op = "combine"
        /\ r \in Minted
        /\ ParentsPresent(s.parents)
        /\ revisions' = WithRevision(r, [vault |-> s.vault, hash |-> s.hash,
                                         parents |-> s.parents, operation |-> "merged"])
        /\ MoveHead(s.vault, r)
        /\ Become(t, Idle)
        /\ UNCHANGED blobs

(* Metadata first, bytes second: a put that returns before the rename.     *)
mut_PutBlob(t) ==
    /\ task[t].phase = "putting"
    /\ Become(t, [task[t] EXCEPT !.phase = "saving"])
    /\ UNCHANGED <<blobs, revisions, head, logged>>

(* BlobStore.put: temp file, fsync, rename; a no-op for known content.     *)
PutBlob(t) ==
    /\ task[t].phase = "putting"
    /\ blobs' = blobs \cup {task[t].hash}
    /\ Become(t, [task[t] EXCEPT !.phase = "saving"])
    /\ UNCHANGED <<revisions, head, logged>>

(* An operation gives up: a blob could not be read or written, the         *)
(* interpreter refused or needs credentials, or an assertion before the    *)
(* metadata write failed.  Whatever blob it wrote stays behind.            *)
Fail(t) ==
    /\ task[t].phase # "idle"
    /\ Become(t, Idle)
    /\ UNCHANGED <<blobs, revisions, head, logged>>

-----------------------------------------------------------------------------
(* promote: the user chose a revision of this vault.                       *)
Promote(v, r) ==
    /\ head[v] # Absent
    /\ r \in Stored
    /\ revisions[r].vault = v
    /\ MoveHead(v, r)
    /\ UNCHANGED <<blobs, revisions, task>>

(* A move to the peer's head before its revision has been received.        *)
mut_FastForward(v, r) ==
    /\ head[v] # Absent
    /\ PeerRevisions[r].vault = v
    /\ head[v] # NoHead =>
          classifyDivergence(unionGraphs(graph, PeerGraph), head[v], r) = "remote-ahead"
    /\ MoveHead(v, r)
    /\ UNCHANGED <<blobs, revisions, task>>

(* The end of a session: the heads are compared over the union of the      *)
(* local graph and the peer's summary, and in the same turn a device that  *)
(* is behind moves to the peer's head, if it holds it.                     *)
FastForward(v, r) ==
    /\ head[v] # Absent
    /\ r \in Stored
    /\ revisions[r].vault = v
    /\ head[v] # NoHead =>
          classifyDivergence(unionGraphs(graph, PeerGraph), head[v], r) = "remote-ahead"
    /\ MoveHead(v, r)
    /\ UNCHANGED <<blobs, revisions, task>>

(* adoptVault: a peer's vault is registered under the peer's id.           *)
AdoptVault(v) ==
    /\ head[v] = Absent
    /\ head' = [head EXCEPT ![v] = NoHead]
    /\ UNCHANGED <<blobs, revisions, logged, task>>

-----------------------------------------------------------------------------
(* The process dies; operations are forgotten, the disk is not.            *)
Crash ==
    /\ \E t \in Tasks : task[t].phase # "idle"
    /\ task' = [t \in Tasks |-> Idle]
    /\ UNCHANGED <<blobs, revisions, head, logged>>

(* The process dies inside a saveRevision that no transaction covers, with *)
(* the row and only some of the parent rows committed.  The declared       *)
(* parents are inserted in order; a merge's base comes first.              *)
CrashInSave(t, r, kept) ==
    LET s == task[t]
    IN  /\ s.phase = "saving" /\ s.op \in {"ingest", "merge", "combine"}
        /\ IF s.op = "ingest" THEN r = s.id
           ELSE r \in Minted /\ kept \subseteq {s.base}
        /\ r \notin Stored
        /\ ParentsPresent(s.parents)
        /\ kept \subseteq s.parents /\ kept # s.parents
        /\ revisions' = WithRevision(r, [vault |-> s.vault, hash |-> s.hash, parents |-> kept,
                            operation |-> IF s.op = "ingest" THEN "received" ELSE "merged"])
        /\ task' = [u \in Tasks |-> Idle]
        /\ UNCHANGED <<blobs, head, logged>>

-----------------------------------------------------------------------------
Step(t) ==
    \/ \E h \in Hashes : ImportVault(t, h)
    \/ \E v \in VaultIds, r \in LocalIds : SaveImport(t, v, r)
    \/ \E v \in VaultIds, h \in Hashes : RecordLocalChange(t, v, h)
    \/ \E r \in LocalIds : SaveLocalChange(t, r)
    \/ \E r \in DOMAIN PeerRevisions, h \in Hashes : IngestReceivedRevision(t, r, h)
    \/ SaveReceived(t)
    \/ \E v \in VaultIds, base, other \in RevisionIds, op \in {"merge", "combine"} :
          StartMerge(t, v, base, other, op)
    \/ \E h \in Hashes : MergeSucceeds(t, h)
    \/ \E r \in LocalIds : SaveMerged(t, r)
    \/ \E r \in LocalIds : SaveCombined(t, r)
    \/ PutBlob(t)
    \/ Fail(t)
    \/ \E r \in RevisionIds, kept \in SUBSET RevisionIds : CrashInSave(t, r, kept)

Next ==
    \/ \E t \in Tasks : Step(t)
    \/ \E v \in VaultIds, r \in RevisionIds : Promote(v, r)
    \/ \E v \in VaultIds, r \in DOMAIN PeerRevisions : FastForward(v, r)
    \/ \E v \in VaultIds : AdoptVault(v)
    \/ Crash

Spec == Init /\ [][Next]_vars

-----------------------------------------------------------------------------
(* Every variable keeps its type, and an operation past its blob write     *)
(* knows the content it wrote.                                             *)
TypeOK ==
    /\ blobs \subseteq Hashes
    /\ Stored \subseteq RevisionIds
    /\ revisions \in [Stored -> Row]
    /\ head \in [VaultIds -> Heads \cup {Absent}]
    /\ logged \in [VaultIds -> Heads]
    /\ task \in [Tasks -> TaskState]
    /\ \A t \in Tasks : TaskFilled(task[t])

(* "Blob first, metadata second": no stored revision, however it got there *)
(* and whatever crashed meanwhile, names bytes that are not on disk        *)
(* (the ordering rule of SyncEngine).                                      *)
BlobsBackRevisions == \A r \in Stored : revisions[r].hash \in blobs

(* The stored history never has a dangling edge: every parent is a stored  *)
(* revision (saveRevision, ingestReceivedRevision).                        *)
ParentsStored == \A r \in Stored : revisions[r].parents \subseteq Stored

(* Nor a cycle, although local, received and merged revisions are written  *)
(* by operations that interleave: ancestry questions have answers.         *)
HistoryAcyclic == Acyclic(graph)

(* A vault's head is a stored revision of that same vault, through stale   *)
(* commits, fast-forwards and crashes.                                     *)
HeadsNameRevisions ==
    \A v \in VaultIds :
        head[v] \in RevisionIds => head[v] \in Stored /\ revisions[head[v]].vault = v

(* The vault row and the head log move together: the newest event always   *)
(* leads to the current head, so that undoing it starts from there.        *)
HeadAgreesWithLog ==
    \A v \in VaultIds :
        /\ head[v] \in RevisionIds => logged[v] = head[v]
        /\ head[v] \notin RevisionIds => logged[v] = NoHead

(* Nothing rewrites history: once stored, a revision keeps its hash, its   *)
(* parents and its vault, even when two sessions deliver it at once.       *)
HistoryAppendOnly ==
    [][\A r \in Stored : r \in Stored' /\ revisions'[r] = revisions[r]]_vars

(* What makes the invariants above inductive: given the contents on disk   *)
(* and the stored revisions, an operation past its blob write has its      *)
(* content on disk, and the revisions it read are still stored.            *)
TaskSound(s, contents, ids) ==
    /\ s.phase = "saving" => s.hash \in contents
    /\ s.op = "record" => s.base \in ids \cup {NoHead}
    /\ s.op \in {"merge", "combine"} => s.parents \subseteq ids

TasksSound == \A t \in Tasks : TaskSound(task[t], blobs, Stored)

EngineInv ==
    /\ TypeOK
    /\ TasksSound
    /\ BlobsBackRevisions
    /\ ParentsStored
    /\ HeadsNameRevisions
    /\ HeadAgreesWithLog

(* The engine implements the abstract history: every step is one complete  *)
(* revision, one legal head move, both together, or invisible.             *)
History == INSTANCE RevisionHistory
              WITH parents <- graph, owner <- [r \in Stored |-> revisions[r].vault]

ImplementsHistory == History!Spec

-----------------------------------------------------------------------------
(* What the documentation promises and the interleavings above refute.     *)

(* "records them as a new revision whose parent is the previous head"      *)
(* (docs/DATA_FLOW.md): a local change that becomes the head extends the   *)
(* head it replaces, in particular one a sync has installed.               *)
LocalChangeExtendsHead ==
    [][\A v \in VaultIds :
          /\ head'[v] \in RevisionIds \ Stored
          /\ revisions'[head'[v]].operation = "local-change"
          /\ head[v] \in DOMAIN PeerRevisions
          => head[v] \in revisions'[head'[v]].parents]_vars

(* "Its parents are a fact about the sender's history and are copied       *)
(* verbatim" (core/src/lineage.ts).                                        *)
ReceivedVerbatim ==
    \A r \in Stored \cap DOMAIN PeerRevisions :
        revisions[r].parents = PeerRevisions[r].parents

(* "Using the combined version. Both devices' changes are kept."           *)
(* (combineAndUse): the combined version contains the version it replaces. *)
CombineKeepsCurrent ==
    [][\A v \in VaultIds :
          /\ head'[v] \in RevisionIds \ Stored
          /\ revisions'[head'[v]].operation = "merged"
          => isAncestor(graph', head[v], head'[v])]_vars
=============================================================================
