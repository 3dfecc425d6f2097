--------------------------- MODULE SyncEngineProofs ---------------------------
(***************************************************************************)
(* Proofs about SyncEngine, for every set of vaults, ids, contents, peer   *)
(* revisions and concurrent operations.                                    *)
(***************************************************************************)
EXTENDS SyncEngine, TLAPS

(* What saveRevision leaves behind when the id is new.                     *)
LEMMA SaveNew ==
    ASSUME NEW r \in RevisionIds, NEW row \in Row, TypeOK,
           r \notin Stored, revisions' = WithRevision(r, row)
    PROVE  /\ Stored' = Stored \cup {r}
           /\ revisions'[r] = row
           /\ \A x \in Stored : revisions'[x] = revisions[x]
           /\ revisions' \in [Stored' -> Row]
           /\ Stored' \subseteq RevisionIds
  BY DEF WithRevision, Stored, TypeOK

(* An operation moves on to a well-formed state; the others are untouched. *)
LEMMA TaskMoves ==
    ASSUME NEW t \in Tasks, NEW s \in TaskState, TypeOK, TaskFilled(s), Become(t, s)
    PROVE  /\ task' \in [Tasks -> TaskState]
           /\ \A u \in Tasks : TaskFilled(task'[u])
           /\ task'[t] = s
           /\ \A u \in Tasks \ {t} : task'[u] = task[u]
  BY DEF Become, TypeOK

(* A writer at rest is a writer.                                           *)
LEMMA IdleTyped == Idle \in TaskState /\ TaskFilled(Idle)
  BY EngineAssumption DEF Idle, TaskState, TaskFilled, Ops, Phases, Heads

(* Every action keeps the type invariant.                                  *)
LEMMA TypeInductive == TypeOK /\ [Next]_vars => TypeOK'
<1> SUFFICES ASSUME TypeOK, [Next]_vars PROVE TypeOK'
  OBVIOUS
<1> USE EngineAssumption
<1>1. ASSUME NEW t \in Tasks, Step(t) PROVE TypeOK'
  <2>1. ASSUME NEW h \in Hashes, ImportVault(t, h) PROVE TypeOK'
    <3> DEFINE new == [Idle EXCEPT !.op = "import", !.phase = "putting", !.hash = h]
    <3>1. new \in TaskState /\ TaskFilled(new)
      BY IdleTyped DEF Idle, TaskState, TaskFilled, Ops, Phases
    <3>2. Become(t, new)
      BY <2>1 DEF ImportVault
    <3>3. task' \in [Tasks -> TaskState] /\ \A u \in Tasks : TaskFilled(task'[u])
      BY <3>1, <3>2, TaskMoves
    <3>4. QED
      BY <2>1, <3>3 DEF ImportVault, TypeOK, Stored
  <2>2. ASSUME NEW v \in VaultIds, NEW r \in LocalIds, SaveImport(t, v, r) PROVE TypeOK'
    <3> DEFINE row == [vault |-> v, hash |-> task[t].hash, parents |-> {},
                       operation |-> "imported"]
    <3>1. row \in Row /\ r \in RevisionIds /\ r \notin Stored
      BY <2>2 DEF SaveImport, Minted, TypeOK, TaskFilled, Row, RevisionIds
    <3>2. revisions' \in [Stored' -> Row] /\ Stored' \subseteq RevisionIds
      BY <2>2, <3>1, SaveNew DEF SaveImport
    <3>3. QED
      BY <2>2, <3>1, <3>2, IdleTyped DEF SaveImport, MoveHead, Become, TypeOK, Heads
  <2>3. ASSUME NEW v \in VaultIds, NEW h \in Hashes, RecordLocalChange(t, v, h) PROVE TypeOK'
    <3> DEFINE new == [Idle EXCEPT !.op = "record", !.phase = "putting", !.vault = v,
                                   !.hash = h, !.base = head[v]]
    <3>1. new \in TaskState /\ TaskFilled(new)
      BY <2>3, IdleTyped, ZenonT(60) DEF RecordLocalChange, TypeOK, Idle, TaskState, TaskFilled, Ops, Phases, Heads
    <3>2. Become(t, new)
      BY <2>3 DEF RecordLocalChange
    <3>3. task' \in [Tasks -> TaskState] /\ \A u \in Tasks : TaskFilled(task'[u])
      BY <3>1, <3>2, TaskMoves
    <3>4. QED
      BY <2>3, <3>3 DEF RecordLocalChange, TypeOK, Stored
  <2>4. ASSUME NEW r \in LocalIds, SaveLocalChange(t, r) PROVE TypeOK'
    <3> DEFINE s == task[t]
               ps == IF s.base = NoHead THEN {} ELSE {s.base}
               row == [vault |-> s.vault, hash |-> s.hash, parents |-> ps,
                       operation |-> "local-change"]
    <3>1. row \in Row /\ r \in RevisionIds /\ r \notin Stored /\ s.vault \in VaultIds
      BY <2>4 DEF SaveLocalChange, Minted, TypeOK, TaskFilled, Row, RevisionIds, TaskState, Heads
    <3>2. revisions' \in [Stored' -> Row] /\ Stored' \subseteq RevisionIds
      BY <2>4, <3>1, SaveNew DEF SaveLocalChange
    <3>3. QED
      BY <2>4, <3>1, <3>2, IdleTyped DEF SaveLocalChange, MoveHead, Become, TypeOK, Heads
  <2>5. ASSUME NEW r \in DOMAIN PeerRevisions, NEW h \in Hashes, IngestReceivedRevision(t, r, h)
        PROVE  TypeOK'
    <3> DEFINE new == [Idle EXCEPT !.op = "ingest", !.phase = "putting", !.id = r, !.hash = h,
                                   !.vault = PeerRevisions[r].vault,
                                   !.parents = PeerRevisions[r].parents]
    <3>1. new \in TaskState /\ TaskFilled(new)
      BY IdleTyped DEF Idle, TaskState, TaskFilled, Ops, Phases, RevisionIds
    <3>2. Become(t, new)
      BY <2>5 DEF IngestReceivedRevision
    <3>3. task' \in [Tasks -> TaskState] /\ \A u \in Tasks : TaskFilled(task'[u])
      BY <3>1, <3>2, TaskMoves
    <3>4. QED
      BY <2>5, <3>3 DEF IngestReceivedRevision, TypeOK, Stored
  <2>6. CASE SaveReceived(t)
    <3> DEFINE s == task[t]
               row == [vault |-> s.vault, hash |-> s.hash,
                       parents |-> s.parents, operation |-> "received"]
    <3>1. row \in Row /\ s.id \in RevisionIds
      BY <2>6 DEF SaveReceived, TypeOK, TaskFilled, Row, RevisionIds, TaskState
    <3>2. revisions' \in [Stored' -> Row] /\ Stored' \subseteq RevisionIds
      <4>1. CASE s.id \in Stored
        BY <4>1, <2>6 DEF SaveReceived, WithRevision, TypeOK, Stored
      <4>2. CASE s.id \notin Stored
        BY <4>2, <3>1, <2>6, SaveNew DEF SaveReceived
      <4>3. QED
        BY <4>1, <4>2
    <3>3. QED
      BY <2>6, <3>2, IdleTyped DEF SaveReceived, Become, TypeOK
  <2>7. ASSUME NEW v \in VaultIds, NEW base \in RevisionIds, NEW other \in RevisionIds,
               NEW op \in {"merge", "combine"}, StartMerge(t, v, base, other, op)
        PROVE  TypeOK'
    <3> DEFINE new == [Idle EXCEPT !.op = op, !.phase = "reading", !.vault = v,
                                   !.base = base, !.parents = {base, other}]
    <3>1. new \in TaskState /\ TaskFilled(new)
      BY IdleTyped DEF Idle, TaskState, TaskFilled, Ops, Phases, Heads
    <3>2. Become(t, new)
      BY <2>7 DEF StartMerge
    <3>3. task' \in [Tasks -> TaskState] /\ \A u \in Tasks : TaskFilled(task'[u])
      BY <3>1, <3>2, TaskMoves
    <3>4. QED
      BY <2>7, <3>3 DEF StartMerge, TypeOK, Stored
  <2>8. ASSUME NEW h \in Hashes, MergeSucceeds(t, h) PROVE TypeOK'
    <3> DEFINE new == [task[t] EXCEPT !.phase = "putting", !.hash = h]
    <3>1. new \in TaskState /\ TaskFilled(new)
      BY <2>8, ZenonT(60) DEF MergeSucceeds, TypeOK, TaskState, TaskFilled, Phases
    <3>2. Become(t, new)
      BY <2>8 DEF MergeSucceeds
    <3>3. task' \in [Tasks -> TaskState] /\ \A u \in Tasks : TaskFilled(task'[u])
      BY <3>1, <3>2, TaskMoves
    <3>4. QED
      BY <2>8, <3>3 DEF MergeSucceeds, TypeOK, Stored
  <2>9. ASSUME NEW r \in LocalIds, SaveMerged(t, r) \/ SaveCombined(t, r) PROVE TypeOK'
    <3> DEFINE s == task[t]
               row == [vault |-> s.vault, hash |-> s.hash,
                       parents |-> s.parents, operation |-> "merged"]
    <3>1. row \in Row /\ r \in RevisionIds /\ r \notin Stored /\ s.vault \in VaultIds
      BY <2>9 DEF SaveMerged, SaveCombined, Minted, TypeOK, TaskFilled, Row, RevisionIds, TaskState
    <3>2. revisions' \in [Stored' -> Row] /\ Stored' \subseteq RevisionIds
      BY <2>9, <3>1, SaveNew DEF SaveMerged, SaveCombined
    <3>3. task' \in [Tasks -> TaskState] /\ \A u \in Tasks : TaskFilled(task'[u])
      BY <2>9, IdleTyped, TaskMoves DEF SaveMerged, SaveCombined
    <3>4. head' \in [VaultIds -> Heads \cup {Absent}] /\ logged' \in [VaultIds -> Heads]
      BY <2>9, <3>1 DEF SaveMerged, SaveCombined, MoveHead, TypeOK, Heads
    <3>5. blobs' \subseteq Hashes
      BY <2>9 DEF SaveMerged, SaveCombined, TypeOK
    <3>6. QED
      BY <3>2, <3>3, <3>4, <3>5 DEF TypeOK
  <2>10. CASE PutBlob(t)
    <3> DEFINE new == [task[t] EXCEPT !.phase = "saving"]
    <3>1. new \in TaskState /\ TaskFilled(new) /\ task[t].hash \in Hashes
      BY <2>10 DEF PutBlob, TypeOK, TaskState, TaskFilled, Phases
    <3>2. Become(t, new)
      BY <2>10 DEF PutBlob
    <3>3. task' \in [Tasks -> TaskState] /\ \A u \in Tasks : TaskFilled(task'[u])
      BY <3>1, <3>2, TaskMoves
    <3>4. QED
      BY <2>10, <3>1, <3>3 DEF PutBlob, TypeOK, Stored
  <2>11. CASE Fail(t)
    BY <2>11, IdleTyped DEF Fail, Become, TypeOK, Stored
  <2>12. ASSUME NEW r \in RevisionIds, NEW kept \in SUBSET RevisionIds, CrashInSave(t, r, kept)
         PROVE  TypeOK'
    <3> DEFINE s == task[t]
               row == [vault |-> s.vault, hash |-> s.hash, parents |-> kept,
                       operation |-> IF s.op = "ingest" THEN "received" ELSE "merged"]
    <3>1. row \in Row /\ r \notin Stored
      BY <2>12 DEF CrashInSave, TypeOK, TaskFilled, Row
    <3>2. revisions' \in [Stored' -> Row] /\ Stored' \subseteq RevisionIds
      BY <2>12, <3>1, SaveNew DEF CrashInSave
    <3>3. QED
      BY <2>12, <3>2, IdleTyped DEF CrashInSave, TypeOK
  <2>13. QED
    BY <1>1, <2>1, <2>2, <2>3, <2>4, <2>5, <2>6, <2>7, <2>8, <2>9, <2>10, <2>11, <2>12 DEF Step
<1>2. ASSUME NEW v \in VaultIds, NEW r \in RevisionIds, Promote(v, r) PROVE TypeOK'
  BY <1>2 DEF Promote, MoveHead, TypeOK, Stored, Heads
<1>3. ASSUME NEW v \in VaultIds, NEW r \in DOMAIN PeerRevisions, FastForward(v, r) PROVE TypeOK'
  BY <1>3 DEF FastForward, MoveHead, TypeOK, Stored, Heads, RevisionIds
<1>4. ASSUME NEW v \in VaultIds, AdoptVault(v) PROVE TypeOK'
  BY <1>4 DEF AdoptVault, TypeOK, Stored, Heads
<1>5. CASE Crash
  BY <1>5, IdleTyped DEF Crash, TypeOK, Stored
<1>6. CASE UNCHANGED vars
  BY <1>6 DEF vars, TypeOK, Stored
<1>7. QED
  BY <1>1, <1>2, <1>3, <1>4, <1>5, <1>6 DEF Next

(* The state an engine starts with has its types.                          *)
LEMMA InitTypeOK == Init => TypeOK
  BY EngineAssumption, IdleTyped DEF Init, TypeOK, Stored, Heads

(* Type correctness of the engine, for every instance.                     *)
THEOREM TypeCorrect == Spec => []TypeOK
<1>1. QED
  BY InitTypeOK, TypeInductive, PTL DEF Spec

-----------------------------------------------------------------------------
(* What a step may do to what is stored: nothing, add one revision whose   *)
(* bytes and parents are already there (and perhaps make it the head),     *)
(* move a head to a stored revision, or register an empty vault.           *)
Adds(r, row) ==
    /\ r \notin Stored
    /\ row.hash \in blobs
    /\ row.parents \subseteq Stored
    /\ revisions' = WithRevision(r, row)
    /\ UNCHANGED <<head, logged>> \/ MoveHead(row.vault, r)

Moves(v, r) ==
    /\ r \in Stored
    /\ revisions[r].vault = v
    /\ MoveHead(v, r)
    /\ UNCHANGED revisions

Registers(v) ==
    /\ head[v] = Absent
    /\ head' = [head EXCEPT ![v] = NoHead]
    /\ UNCHANGED <<revisions, logged>>

Effects ==
    \/ UNCHANGED <<revisions, head, logged>>
    \/ \E r \in RevisionIds, row \in Row : Adds(r, row)
    \/ \E v \in VaultIds, r \in RevisionIds : Moves(v, r)
    \/ \E v \in VaultIds : Registers(v)

(* Every step of the engine, crashes included, is one of those.            *)
LEMMA StepEffects == EngineInv /\ [Next]_vars => Effects
<1> SUFFICES ASSUME EngineInv, [Next]_vars PROVE Effects
  OBVIOUS
<1> USE EngineAssumption
<1>0. TypeOK /\ TasksSound
  BY DEF EngineInv
<1>1. ASSUME NEW t \in Tasks, Step(t) PROVE Effects
  <2>1. ASSUME \/ \E h \in Hashes : ImportVault(t, h)
               \/ \E v \in VaultIds, h \in Hashes : RecordLocalChange(t, v, h)
               \/ \E r \in DOMAIN PeerRevisions, h \in Hashes : IngestReceivedRevision(t, r, h)
               \/ \E v \in VaultIds, base, other \in RevisionIds, op \in {"merge", "combine"} :
                     StartMerge(t, v, base, other, op)
               \/ \E h \in Hashes : MergeSucceeds(t, h)
               \/ PutBlob(t)
               \/ Fail(t)
        PROVE  Effects
    BY <2>1 DEF ImportVault, RecordLocalChange, IngestReceivedRevision, StartMerge,
                MergeSucceeds, PutBlob, Fail, Effects
  <2>2. ASSUME NEW v \in VaultIds, NEW r \in LocalIds, SaveImport(t, v, r) PROVE Effects
    <3> DEFINE row == [vault |-> v, hash |-> task[t].hash, parents |-> {},
                       operation |-> "imported"]
    <3>1. row \in Row /\ r \in RevisionIds /\ r \notin Stored
      BY <2>2, <1>0 DEF SaveImport, Minted, TypeOK, TaskFilled, Row, RevisionIds
    <3>2. row.hash \in blobs
      BY <2>2, <1>0 DEF SaveImport, TasksSound, TaskSound
    <3>3. Adds(r, row)
      BY <2>2, <3>1, <3>2 DEF SaveImport, Adds
    <3>4. QED
      BY <3>1, <3>3 DEF Effects
  <2>3. ASSUME NEW r \in LocalIds, SaveLocalChange(t, r) PROVE Effects
    <3> DEFINE s == task[t]
               ps == IF s.base = NoHead THEN {} ELSE {s.base}
               row == [vault |-> s.vault, hash |-> s.hash, parents |-> ps,
                       operation |-> "local-change"]
    <3>1. row \in Row /\ r \in RevisionIds /\ r \notin Stored
      BY <2>3, <1>0 DEF SaveLocalChange, Minted, TypeOK, TaskFilled, Row, RevisionIds, TaskState, Heads
    <3>2. row.hash \in blobs /\ row.parents \subseteq Stored
      BY <2>3, <1>0 DEF SaveLocalChange, TasksSound, TaskSound, ParentsPresent
    <3>3. Adds(r, row)
      BY <2>3, <3>1, <3>2 DEF SaveLocalChange, Adds
    <3>4. QED
      BY <3>1, <3>3 DEF Effects
  <2>4. CASE SaveReceived(t)
    <3> DEFINE s == task[t]
               row == [vault |-> s.vault, hash |-> s.hash,
                       parents |-> s.parents, operation |-> "received"]
    <3>1. CASE s.id \in Stored
      BY <3>1, <2>4 DEF SaveReceived, WithRevision, Effects
    <3>2. CASE s.id \notin Stored
      <4>1. row \in Row /\ s.id \in RevisionIds
        BY <2>4, <1>0 DEF SaveReceived, TypeOK, TaskFilled, Row, RevisionIds, TaskState
      <4>2. row.hash \in blobs /\ row.parents \subseteq Stored
        BY <2>4, <1>0 DEF SaveReceived, TasksSound, TaskSound, ParentsPresent
      <4>3. Adds(s.id, row)
        BY <2>4, <3>2, <4>2 DEF SaveReceived, Adds
      <4>4. QED
        BY <4>1, <4>3 DEF Effects
    <3>3. QED
      BY <3>1, <3>2
  <2>5. ASSUME NEW r \in LocalIds, SaveMerged(t, r) \/ SaveCombined(t, r) PROVE Effects
    <3> DEFINE s == task[t]
               row == [vault |-> s.vault, hash |-> s.hash,
                       parents |-> s.parents, operation |-> "merged"]
    <3>1. row \in Row /\ r \in RevisionIds /\ r \notin Stored
      BY <2>5, <1>0 DEF SaveMerged, SaveCombined, Minted, TypeOK, TaskFilled, Row, RevisionIds, TaskState
    <3>2. row.hash \in blobs /\ row.parents \subseteq Stored
      BY <2>5, <1>0 DEF SaveMerged, SaveCombined, TasksSound, TaskSound, ParentsPresent
    <3>3. Adds(r, row)
      BY <2>5, <3>1, <3>2 DEF SaveMerged, SaveCombined, Adds
    <3>4. QED
      BY <3>1, <3>3 DEF Effects
  <2>6. ASSUME NEW r \in RevisionIds, NEW kept \in SUBSET RevisionIds, CrashInSave(t, r, kept)
        PROVE  Effects
    <3> DEFINE s == task[t]
               row == [vault |-> s.vault, hash |-> s.hash, parents |-> kept,
                       operation |-> IF s.op = "ingest" THEN "received" ELSE "merged"]
    <3>1. row \in Row /\ r \notin Stored
      BY <2>6, <1>0 DEF CrashInSave, TypeOK, TaskFilled, Row
    <3>2. row.hash \in blobs /\ row.parents \subseteq Stored
      BY <2>6, <1>0 DEF CrashInSave, TasksSound, TaskSound, ParentsPresent
    <3>3. Adds(r, row)
      BY <2>6, <3>1, <3>2 DEF CrashInSave, Adds
    <3>4. QED
      BY <3>1, <3>3 DEF Effects
  <2>7. QED
    BY <1>1, <2>1, <2>2, <2>3, <2>4, <2>5, <2>6 DEF Step
<1>2. ASSUME NEW v \in VaultIds, NEW r \in RevisionIds, Promote(v, r) PROVE Effects
  BY <1>2 DEF Promote, Moves, Effects
<1>3. ASSUME NEW v \in VaultIds, NEW r \in DOMAIN PeerRevisions, FastForward(v, r) PROVE Effects
  BY <1>3 DEF FastForward, Moves, Effects, RevisionIds
<1>4. ASSUME NEW v \in VaultIds, AdoptVault(v) PROVE Effects
  BY <1>4 DEF AdoptVault, Registers, Effects
<1>5. CASE Crash \/ UNCHANGED vars
  BY <1>5 DEF Crash, vars, Effects
<1>6. QED
  BY <1>1, <1>2, <1>3, <1>4, <1>5 DEF Next

(* History only grows, and what is stored does not change.                 *)
LEMMA EffectsAppend ==
    ASSUME TypeOK, Effects
    PROVE  /\ Stored \subseteq Stored'
           /\ \A r \in Stored : revisions'[r] = revisions[r]
<1>1. ASSUME NEW r \in RevisionIds, NEW row \in Row, Adds(r, row)
      PROVE  /\ Stored \subseteq Stored'
             /\ \A x \in Stored : revisions'[x] = revisions[x]
  BY <1>1, SaveNew DEF Adds
<1>2. QED
  BY <1>1 DEF Effects, Moves, Registers, Stored

(* No step removes bytes.                                                  *)
LEMMA BlobsKept == [Next]_vars => blobs \subseteq blobs'
<1> SUFFICES ASSUME [Next]_vars PROVE blobs \subseteq blobs'
  OBVIOUS
<1>1. ASSUME NEW t \in Tasks, Step(t) PROVE blobs \subseteq blobs'
  <2>1. CASE PutBlob(t)
    BY <2>1 DEF PutBlob
  <2>2. CASE ~PutBlob(t)
    <3>1. UNCHANGED blobs
      BY <1>1, <2>2, Zenon
      DEF Step, ImportVault, SaveImport, RecordLocalChange, SaveLocalChange,
          IngestReceivedRevision, SaveReceived, StartMerge, MergeSucceeds, SaveMerged,
          SaveCombined, Fail, CrashInSave
    <3>2. QED
      BY <3>1
  <2>3. QED
    BY <2>1, <2>2
<1>2. QED
  BY <1>1 DEF Next, vars, Promote, FastForward, AdoptVault, Crash

(* What an operation relies on outlives whatever the others do.            *)
LEMMA TasksStaySound ==
    ASSUME NEW t \in Tasks, NEW s \in TaskState, TypeOK, TasksSound, TaskFilled(s), Become(t, s),
           blobs \subseteq blobs', Stored \subseteq Stored', TaskSound(s, blobs', Stored')
    PROVE  TasksSound'
<1>1. SUFFICES ASSUME NEW u \in Tasks PROVE TaskSound(task'[u], blobs', Stored')
  BY DEF TasksSound
<1>2. CASE u = t
  BY <1>2, TaskMoves
<1>3. CASE u # t
  <2>1. task'[u] = task[u] /\ TaskSound(task[u], blobs, Stored)
    BY <1>3, TaskMoves DEF TasksSound
  <2>2. QED
    BY <2>1 DEF TaskSound
<1>4. QED
  BY <1>2, <1>3

(* A writer at rest relies on nothing.                                     *)
LEMMA IdleSound ==
    ASSUME NEW contents, NEW ids PROVE TaskSound(Idle, contents, ids)
  BY DEF Idle, TaskSound

(* What the writers under way rely on stays true at every step.            *)
LEMMA TasksInductive == EngineInv /\ [Next]_vars => TasksSound'
<1> SUFFICES ASSUME EngineInv, [Next]_vars PROVE TasksSound'
  OBVIOUS
<1> USE EngineAssumption
<1>0. TypeOK /\ TasksSound /\ TypeOK'
  BY TypeInductive DEF EngineInv
<1>1. Stored \subseteq Stored' /\ blobs \subseteq blobs'
  BY <1>0, StepEffects, EffectsAppend, BlobsKept
<1>2. ASSUME NEW t \in Tasks, Step(t) PROVE TasksSound'
  <2>1. ASSUME Become(t, Idle) PROVE TasksSound'
    BY <2>1, <1>0, <1>1, IdleTyped, IdleSound, TasksStaySound
  <2>2. ASSUME NEW s \in TaskState, TaskFilled(s), Become(t, s), s.phase \in {"putting", "reading"},
               s.op = "record" => s.base \in Stored \cup {NoHead},
               s.op \in {"merge", "combine"} => s.parents \subseteq Stored
        PROVE  TasksSound'
    <3>1. TaskSound(s, blobs', Stored')
      BY <2>2, <1>1 DEF TaskSound
    <3>2. QED
      BY <2>2, <3>1, <1>0, <1>1, TasksStaySound
  <2>3. ASSUME NEW h \in Hashes, ImportVault(t, h) PROVE TasksSound'
    <3> DEFINE new == [Idle EXCEPT !.op = "import", !.phase = "putting", !.hash = h]
    <3>1. /\ new \in TaskState /\ TaskFilled(new)
          /\ new.phase = "putting" /\ new.op = "import"
      BY IdleTyped DEF Idle, TaskState, TaskFilled, Ops, Phases
    <3>2. QED
      BY <3>1, <2>2, <2>3 DEF ImportVault
  <2>4. ASSUME NEW v \in VaultIds, NEW h \in Hashes, RecordLocalChange(t, v, h) PROVE TasksSound'
    <3> DEFINE new == [Idle EXCEPT !.op = "record", !.phase = "putting", !.vault = v,
                                   !.hash = h, !.base = head[v]]
    <3>1. head[v] \in Heads
      BY <2>4, <1>0 DEF RecordLocalChange, TypeOK
    <3>2. head[v] \in Stored \cup {NoHead}
      BY <3>1 DEF EngineInv, HeadsNameRevisions, Heads
    <3>3. /\ new \in TaskState /\ TaskFilled(new)
          /\ new.phase = "putting" /\ new.op = "record" /\ new.base = head[v]
      BY <3>1, IdleTyped DEF Idle, TaskState, TaskFilled, Ops, Phases
    <3>4. QED
      BY <3>2, <3>3, <2>2, <2>4 DEF RecordLocalChange
  <2>5. ASSUME NEW r \in DOMAIN PeerRevisions, NEW h \in Hashes, IngestReceivedRevision(t, r, h)
        PROVE  TasksSound'
    <3> DEFINE new == [Idle EXCEPT !.op = "ingest", !.phase = "putting", !.id = r, !.hash = h,
                                   !.vault = PeerRevisions[r].vault,
                                   !.parents = PeerRevisions[r].parents]
    <3>1. /\ new \in TaskState /\ TaskFilled(new)
          /\ new.phase = "putting" /\ new.op = "ingest"
      BY IdleTyped DEF Idle, TaskState, TaskFilled, Ops, Phases, RevisionIds
    <3>2. QED
      BY <3>1, <2>2, <2>5 DEF IngestReceivedRevision
  <2>6. ASSUME NEW v \in VaultIds, NEW base \in RevisionIds, NEW other \in RevisionIds,
               NEW op \in {"merge", "combine"}, StartMerge(t, v, base, other, op)
        PROVE  TasksSound'
    <3> DEFINE new == [Idle EXCEPT !.op = op, !.phase = "reading", !.vault = v,
                                   !.base = base, !.parents = {base, other}]
    <3>1. /\ new \in TaskState /\ TaskFilled(new)
          /\ new.phase = "reading" /\ new.op = op /\ new.parents = {base, other}
      BY IdleTyped DEF Idle, TaskState, TaskFilled, Ops, Phases, Heads
    <3>2. {base, other} \subseteq Stored
      BY <2>6 DEF StartMerge
    <3>3. QED
      BY <3>1, <3>2, <2>2, <2>6 DEF StartMerge
  <2>7. ASSUME NEW h \in Hashes, MergeSucceeds(t, h) PROVE TasksSound'
    <3> DEFINE new == [task[t] EXCEPT !.phase = "putting", !.hash = h]
    <3>0. task[t] \in TaskState /\ TaskFilled(task[t])
      BY <1>0 DEF TypeOK
    <3>1. new \in TaskState /\ TaskFilled(new)
      BY <2>7, <3>0 DEF MergeSucceeds, TaskState, TaskFilled, Phases
    <3>2. /\ new.phase = "putting" /\ new.op = task[t].op
          /\ new.base = task[t].base /\ new.parents = task[t].parents
      BY <3>0 DEF TaskState
    <3>3. TaskSound(task[t], blobs, Stored)
      BY <1>0 DEF TasksSound
    <3>4. QED
      BY <3>1, <3>2, <3>3, <2>2, <2>7 DEF MergeSucceeds, TaskSound
  <2>8. CASE PutBlob(t)
    <3> DEFINE new == [task[t] EXCEPT !.phase = "saving"]
    <3>1. /\ new \in TaskState /\ TaskFilled(new)
          /\ new.hash = task[t].hash /\ new.op = task[t].op
          /\ new.base = task[t].base /\ new.parents = task[t].parents
      BY <2>8, <1>0 DEF PutBlob, TypeOK, TaskState, TaskFilled, Phases
    <3>2. TaskSound(task[t], blobs, Stored) /\ task[t].hash \in blobs'
      BY <2>8, <1>0 DEF TasksSound, PutBlob
    <3>3. TaskSound(new, blobs', Stored')
      BY <3>1, <3>2, <1>1 DEF TaskSound
    <3>4. QED
      BY <2>8, <3>1, <3>3, <1>0, <1>1, TasksStaySound DEF PutBlob
  <2>9. ASSUME NEW r \in RevisionIds, NEW kept \in SUBSET RevisionIds, CrashInSave(t, r, kept)
        PROVE  TasksSound'
    BY <2>9, IdleSound DEF CrashInSave, TasksSound
  <2>10. ASSUME \/ \E v \in VaultIds, r \in LocalIds : SaveImport(t, v, r)
                \/ \E r \in LocalIds : SaveLocalChange(t, r)
                \/ SaveReceived(t)
                \/ \E r \in LocalIds : SaveMerged(t, r)
                \/ \E r \in LocalIds : SaveCombined(t, r)
                \/ Fail(t)
         PROVE  Become(t, Idle)
    BY <2>10, Zenon
    DEF SaveImport, SaveLocalChange, SaveReceived, SaveMerged, SaveCombined, Fail
  <2>11. QED
    BY <1>2, <2>1, <2>3, <2>4, <2>5, <2>6, <2>7, <2>8, <2>9, <2>10 DEF Step
<1>3. ASSUME UNCHANGED task PROVE TasksSound'
  BY <1>3, <1>0, <1>1 DEF TasksSound, TaskSound
<1>4. CASE Crash
  BY <1>4, IdleSound DEF Crash, TasksSound
<1>5. QED
  BY <1>2, <1>3, <1>4 DEF Next, Promote, FastForward, AdoptVault, vars

-----------------------------------------------------------------------------
(* The invariant is preserved: one step per part of it.                    *)
LEMMA EngineInductive == EngineInv /\ [Next]_vars => EngineInv'
<1> SUFFICES ASSUME EngineInv, [Next]_vars PROVE EngineInv'
  OBVIOUS
<1> USE EngineAssumption
<1>1. /\ TypeOK /\ BlobsBackRevisions /\ ParentsStored /\ HeadsNameRevisions /\ HeadAgreesWithLog
      /\ Effects /\ blobs \subseteq blobs'
  BY StepEffects, BlobsKept DEF EngineInv
<1>2. Stored \subseteq Stored' /\ \A r \in Stored : revisions'[r] = revisions[r]
  BY <1>1, EffectsAppend
<1>3. ASSUME NEW r \in RevisionIds, NEW row \in Row, Adds(r, row)
      PROVE  EngineInv'
  <2>1. Stored' = Stored \cup {r} /\ revisions'[r] = row
    BY <1>1, <1>3, SaveNew DEF Adds
  <2>2. BlobsBackRevisions' /\ ParentsStored'
    BY <1>1, <1>2, <1>3, <2>1 DEF Adds, BlobsBackRevisions, ParentsStored
  <2>3. HeadsNameRevisions' /\ HeadAgreesWithLog'
    <3>1. CASE UNCHANGED <<head, logged>>
      BY <1>1, <1>2, <3>1 DEF HeadsNameRevisions, HeadAgreesWithLog
    <3>2. CASE MoveHead(row.vault, r)
      BY <1>1, <1>2, <2>1, <3>2 DEF MoveHead, TypeOK, HeadsNameRevisions, HeadAgreesWithLog
    <3>3. QED
      BY <1>3, <3>1, <3>2 DEF Adds
  <2>4. QED
    BY <2>2, <2>3, TypeInductive, TasksInductive DEF EngineInv
<1>4. ASSUME UNCHANGED revisions, HeadsNameRevisions', HeadAgreesWithLog' PROVE EngineInv'
  <2>1. BlobsBackRevisions' /\ ParentsStored'
    BY <1>1, <1>4 DEF BlobsBackRevisions, ParentsStored, Stored
  <2>2. QED
    BY <2>1, <1>4, TypeInductive, TasksInductive DEF EngineInv
<1>5. ASSUME NEW v \in VaultIds, NEW r \in RevisionIds, Moves(v, r) PROVE EngineInv'
  <2>1. HeadsNameRevisions' /\ HeadAgreesWithLog'
    BY <1>1, <1>5 DEF Moves, MoveHead, TypeOK, HeadsNameRevisions, HeadAgreesWithLog, Stored
  <2>2. QED
    BY <1>4, <1>5, <2>1 DEF Moves
<1>6. ASSUME NEW v \in VaultIds, Registers(v) PROVE EngineInv'
  <2>1. HeadsNameRevisions' /\ HeadAgreesWithLog'
    BY <1>1, <1>6 DEF Registers, TypeOK, HeadsNameRevisions, HeadAgreesWithLog, Stored
  <2>2. QED
    BY <1>4, <1>6, <2>1 DEF Registers
<1>7. CASE UNCHANGED <<revisions, head, logged>>
  <2>1. HeadsNameRevisions' /\ HeadAgreesWithLog'
    BY <1>1, <1>7 DEF HeadsNameRevisions, HeadAgreesWithLog, Stored
  <2>2. QED
    BY <1>4, <1>7, <2>1
<1>8. QED
  BY <1>1, <1>3, <1>5, <1>6, <1>7 DEF Effects

(* The invariant holds at the start.                                       *)
LEMMA InitEngineInv == Init => EngineInv
<1> SUFFICES ASSUME Init PROVE EngineInv
  OBVIOUS
<1>1. TasksSound
  BY IdleSound DEF Init, TasksSound
<1>2. BlobsBackRevisions /\ ParentsStored
  BY DEF Init, BlobsBackRevisions, ParentsStored, Stored
<1>3. HeadsNameRevisions /\ HeadAgreesWithLog
  BY EngineAssumption DEF Init, HeadsNameRevisions, HeadAgreesWithLog
<1>4. QED
  BY <1>1, <1>2, <1>3, InitTypeOK DEF EngineInv

(* The inductive invariant of the engine holds in every reachable state.   *)
THEOREM EngineSafe == Spec => []EngineInv
<1>1. QED
  BY InitEngineInv, EngineInductive, PTL DEF Spec

(* No stored revision names bytes that are not on disk, whatever crashes   *)
(* and however operations interleave.                                      *)
THEOREM BlobsBackRevisionsAlways == Spec => []BlobsBackRevisions
<1>1. EngineInv => BlobsBackRevisions
  BY DEF EngineInv
<1>2. QED
  BY <1>1, EngineSafe, PTL

(* The stored history is closed under parents.                             *)
THEOREM ParentsStoredAlways == Spec => []ParentsStored
<1>1. EngineInv => ParentsStored
  BY DEF EngineInv
<1>2. QED
  BY <1>1, EngineSafe, PTL

(* Heads name stored revisions of their own vault.                         *)
THEOREM HeadsNameRevisionsAlways == Spec => []HeadsNameRevisions
<1>1. EngineInv => HeadsNameRevisions
  BY DEF EngineInv
<1>2. QED
  BY <1>1, EngineSafe, PTL

(* The head log and the vault row never disagree.                          *)
THEOREM HeadAgreesWithLogAlways == Spec => []HeadAgreesWithLog
<1>1. EngineInv => HeadAgreesWithLog
  BY DEF EngineInv
<1>2. QED
  BY <1>1, EngineSafe, PTL

(* No step rewrites or removes a stored revision.                          *)
THEOREM AppendOnly == Spec => HistoryAppendOnly
<1>1. EngineInv /\ [Next]_vars => [\A r \in Stored : r \in Stored' /\ revisions'[r] = revisions[r]]_vars
  <2> SUFFICES ASSUME EngineInv, [Next]_vars
               PROVE  \A r \in Stored : r \in Stored' /\ revisions'[r] = revisions[r]
    OBVIOUS
  <2>1. TypeOK /\ Effects
    BY StepEffects DEF EngineInv
  <2>2. QED
    BY <2>1, EffectsAppend
<1>2. QED
  BY <1>1, EngineSafe, PTL DEF Spec, HistoryAppendOnly

-----------------------------------------------------------------------------
(* A node added on top of nodes that are there already closes no cycle.    *)
LEMMA GrowAcyclic ==
    ASSUME NEW old, NEW new, NEW r, r \notin DOMAIN old,
           DOMAIN new = DOMAIN old \cup {r},
           \A x \in DOMAIN old : new[x] = old[x] /\ old[x] \subseteq DOMAIN old,
           new[r] \subseteq DOMAIN old,
           Acyclic(old)
    PROVE  Acyclic(new)
<1> SUFFICES ASSUME NEW ids \in SUBSET (DOMAIN new),
                    \A id \in ids : new[id] \cap ids # {}
             PROVE  ids = {}
  BY DEF Acyclic
<1> DEFINE rest == ids \ {r}
<1>1. rest \in SUBSET (DOMAIN old)
  OBVIOUS
<1>2. \A id \in rest : old[id] \cap rest # {}
  <2>1. SUFFICES ASSUME NEW id \in rest PROVE old[id] \cap rest # {}
    OBVIOUS
  <2>2. PICK p : p \in new[id] \cap ids
    OBVIOUS
  <2>3. p \in old[id] /\ p \in DOMAIN old
    BY <1>1, <2>2
  <2>4. QED
    BY <2>2, <2>3
<1>3. rest = {}
  BY <1>1, <1>2 DEF Acyclic
<1>4. r \notin ids
  BY <1>3
<1>5. QED
  BY <1>3, <1>4

(* A step adds a revision after its parents, so no cycle arises.           *)
LEMMA AcyclicInductive == EngineInv /\ HistoryAcyclic /\ [Next]_vars => HistoryAcyclic'
<1> SUFFICES ASSUME EngineInv, HistoryAcyclic, [Next]_vars PROVE HistoryAcyclic'
  OBVIOUS
<1>1. TypeOK /\ ParentsStored /\ Effects
  BY StepEffects DEF EngineInv
<1>2. ASSUME NEW r \in RevisionIds, NEW row \in Row, Adds(r, row) PROVE HistoryAcyclic'
  <2>1. /\ Stored' = Stored \cup {r} /\ revisions'[r] = row
        /\ \A x \in Stored : revisions'[x] = revisions[x]
    BY <1>1, <1>2, SaveNew DEF Adds
  <2>2. DOMAIN graph = Stored /\ DOMAIN graph' = Stored' /\ r \notin DOMAIN graph
    BY <1>2 DEF graph, Adds
  <2>3. \A x \in Stored : graph'[x] = graph[x] /\ graph[x] \subseteq Stored
    BY <1>1, <2>1 DEF graph, ParentsStored
  <2>4. graph'[r] \subseteq Stored
    BY <1>2, <2>1 DEF graph, Adds
  <2>5. Acyclic(graph)
    BY DEF HistoryAcyclic
  <2>6. Acyclic(graph')
    BY <2>1, <2>2, <2>3, <2>4, <2>5, GrowAcyclic
  <2>7. QED
    BY <2>6 DEF HistoryAcyclic, Acyclic
<1>3. ASSUME UNCHANGED revisions PROVE HistoryAcyclic'
  BY <1>3 DEF HistoryAcyclic, Acyclic, graph, Stored
<1>4. QED
  BY <1>1, <1>2, <1>3 DEF Effects, Moves, Registers

(* The stored history has no cycle, for any peer, any vault and any number *)
(* of operations in flight.                                                *)
THEOREM AcyclicAlways == Spec => []HistoryAcyclic
<1>1. Init => HistoryAcyclic
  BY DEF Init, HistoryAcyclic, Acyclic, graph, Stored
<1>2. QED
  BY <1>1, AcyclicInductive, EngineSafe, PTL DEF Spec

-----------------------------------------------------------------------------
(* What the abstract history sees of a new revision.                       *)
LEMMA AddsIsGrow ==
    ASSUME TypeOK, NEW r \in RevisionIds, NEW row \in Row, Adds(r, row)
    PROVE  /\ History!Grow(r, row.vault, row.parents)
           /\ UNCHANGED head \/ History!MoveHead(row.vault, r)
<1>1. /\ Stored' = Stored \cup {r} /\ revisions'[r] = row
      /\ \A x \in Stored : revisions'[x] = revisions[x]
  BY SaveNew DEF Adds
<1>2. row.vault \in VaultIds /\ row.parents \subseteq Stored /\ r \notin Stored
  BY DEF Row, Adds
<1>3. graph' = [x \in Stored \cup {r} |-> IF x = r THEN row.parents ELSE graph[x]]
  BY <1>1, <1>2 DEF graph
<1>4. [x \in Stored |-> revisions[x].vault]'
        = [x \in Stored \cup {r} |->
             IF x = r THEN row.vault ELSE [y \in Stored |-> revisions[y].vault][x]]
  BY <1>1, <1>2
<1>5. DOMAIN graph = Stored
  BY DEF graph
<1>6. History!Grow(r, row.vault, row.parents)
  BY <1>2, <1>3, <1>4, <1>5 DEF History!Grow, History!Stored
<1>7. ASSUME MoveHead(row.vault, r) PROVE History!MoveHead(row.vault, r)
  BY <1>1, <1>2, <1>3, <1>7 DEF MoveHead, History!MoveHead
<1>8. QED
  BY <1>6, <1>7 DEF Adds

(* Every step of the engine is a step of the abstract history, or none.    *)
LEMMA StepRefines == EngineInv /\ [Next]_vars => [History!Next]_(History!vars)
<1> SUFFICES ASSUME EngineInv, [Next]_vars
             PROVE  History!Next \/ UNCHANGED History!vars
  OBVIOUS
<1>1. TypeOK /\ Effects
  BY StepEffects DEF EngineInv
<1>2. ASSUME NEW r \in RevisionIds, NEW row \in Row, Adds(r, row) PROVE History!Next
  <2>1. row.vault \in VaultIds /\ row.parents \in SUBSET RevisionIds
    BY DEF Row
  <2>2. QED
    BY <1>1, <1>2, <2>1, AddsIsGrow DEF History!Next
<1>3. ASSUME UNCHANGED revisions PROVE UNCHANGED <<graph, [x \in Stored |-> revisions[x].vault]>>
  BY <1>3 DEF graph, Stored
<1>4. ASSUME NEW v \in VaultIds, NEW r \in RevisionIds, Moves(v, r) PROVE History!Next
  <2>1. UNCHANGED <<graph, [x \in Stored |-> revisions[x].vault]>>
    BY <1>3, <1>4 DEF Moves
  <2>2. r \in DOMAIN graph' /\ [x \in Stored |-> revisions[x].vault]'[r] = v
    BY <1>4, <2>1 DEF graph, Moves
  <2>3. History!MoveHead(v, r)
    BY <1>4, <2>2 DEF Moves, MoveHead, History!MoveHead
  <2>4. QED
    BY <2>1, <2>3 DEF History!Next
<1>5. ASSUME NEW v \in VaultIds, Registers(v) PROVE History!Next
  BY <1>3, <1>5 DEF Registers, History!Next, History!Adopt
<1>6. CASE UNCHANGED <<revisions, head, logged>>
  BY <1>3, <1>6 DEF History!vars
<1>7. QED
  BY <1>1, <1>2, <1>4, <1>5, <1>6 DEF Effects

(* The engine implements the abstract history: its schedule of awaits,     *)
(* stale commits and crashes is invisible to a reader of the store.        *)
THEOREM Refinement == Spec => ImplementsHistory
<1>1. Init => History!Init
  BY DEF Init, History!Init, graph, Stored
<1>2. QED
  BY <1>1, StepRefines, EngineSafe, PTL DEF Spec, ImplementsHistory, History!Spec
=============================================================================
