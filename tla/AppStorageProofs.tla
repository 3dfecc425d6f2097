---------------------------- MODULE AppStorageProofs ----------------------------
(***************************************************************************)
(* Proofs about AppStorage, for every set of revisions, settings and       *)
(* concurrent operations and every choice of faults.                       *)
(***************************************************************************)
EXTENDS AppStorage, FiniteSetTheorems, SequenceTheorems, TLAPS

Bytes == Hashes \cup Images
Ops == [step : Steps, path : Paths, bytes : Bytes]

(* Types, with the domains that a step needs.                              *)
Typed ==
    /\ app \in {"off", "loading", "minting", "running"}
    /\ dirty \in BOOLEAN /\ timer \in BOOLEAN /\ broken \in BOOLEAN
    /\ db \subseteq Changes /\ written \subseteq Changes /\ writing \in Seq(SUBSET Changes)
    /\ file \in [Paths -> Bytes] /\ part \in [Paths -> Bytes]
    /\ \A h \in Hashes : file[h] \in {h, Missing} /\ part[h] \in {h, Missing}
    /\ file[DbPath] \in Images /\ part[DbPath] \in Images
    /\ op \in [Writers -> Ops] /\ raced \subseteq Hashes

(* The chain of writes: its images grow from the one in place to the       *)
(* database in memory, and the write under way is the first image's.       *)
ChainSound ==
    /\ app = "off" => /\ db = {} /\ ~ timer /\ writing = <<>> /\ written = {}
                      /\ \A w \in Writers : op[w].step = "idle"
    /\ app # "off" => Loaded \subseteq db
    /\ written \subseteq db
    /\ \A i \in 1..Len(writing) : written \subseteq writing[i] /\ writing[i] \subseteq db
    /\ \A i, j \in 1..Len(writing) : i <= j => writing[i] \subseteq writing[j]
    /\ op[DbWriter].step # "idle" =>
          /\ op[DbWriter].step # "row" /\ op[DbWriter].path = DbPath
          /\ writing # <<>> /\ op[DbWriter].bytes = Head(writing)
          /\ op[DbWriter].step # "part" => part[DbPath] = op[DbWriter].bytes

(* A task that stores bytes nobody else stores: they are in no copy of the *)
(* database before they are in place.                                      *)
TaskSound(t) ==
    LET h == op[t].path
    IN  op[t].step # "idle" =>
          /\ h \in Hashes /\ op[t].bytes = h
          /\ h \notin raced =>
                /\ \A u \in Tasks \ {t} : op[u].step # "idle" => op[u].path # h
                /\ IF op[t].step = "row" THEN file[h] = h ELSE h \notin db

(* The bytes of every row, in memory or on disk, are in place.             *)
Covered == \A h \in Hashes \ raced : h \in db \cup Loaded => file[h] = h

(* The identity: who has been used, and what the file says.                *)
IdentitySound ==
    /\ idFile \in Ids \cup {Missing, Torn} /\ used \subseteq Ids /\ spoiled \in BOOLEAN
    /\ app = "minting" => idFile \notin Ids
    /\ idFile \in Ids => idFile \in used
    /\ ~ spoiled => used \subseteq {idFile}
    /\ spoiled => \E id \in Ids : used \subseteq {id, idFile}

(* The inductive invariant.                                                *)
StorageInv ==
    /\ Typed /\ ChainSound /\ \A t \in Tasks : TaskSound(t)
    /\ Covered /\ IdentitySound

-----------------------------------------------------------------------------
(* What the invariant says of the properties.                              *)
LEMMA InvMeansRows == StorageInv => RowsHaveBytes
<1> SUFFICES ASSUME StorageInv PROVE RowsHaveBytes
  OBVIOUS
<1> USE DEF StorageInv, Typed
<1>1. \A w \in Writers : op[w].step \in Steps /\ op[w].path \in Paths
  BY DEF Ops
<1>2. \A p \in Paths : {file[p], part[p]} \subseteq IF p = DbPath THEN Images ELSE {p, Missing}
  BY StorageAssumption DEF Paths
<1>3. TypeOK
  BY <1>1, <1>2 DEF TypeOK, IdentitySound
<1>4. ASSUME NEW copy \in Copies PROVE copy \subseteq db \cup Loaded
  <2>1. CASE copy \in {db, Loaded}
    BY <2>1
  <2>2. CASE \E i \in 1..Len(writing) : copy = writing[i]
    BY <2>2 DEF ChainSound
  <2>3. QED
    BY <1>4, <2>1, <2>2 DEF Copies
<1>5. QED
  BY <1>3, <1>4 DEF RowsHaveBytes, Covered

(* What the invariant says of the identity is IdentityStable.              *)
LEMMA InvMeansIdentity == StorageInv => IdentityStable
<1> SUFFICES ASSUME IdentitySound PROVE IdentityStable
  BY DEF StorageInv
<1>1. \A x : IsFiniteSet({x}) /\ Cardinality({x}) = 1
  BY FS_Singleton
<1>2. ASSUME ~ spoiled PROVE Cardinality(used) <= 1
  <2>1. used \in SUBSET {idFile}
    BY <1>2 DEF IdentitySound
  <2>2. Cardinality(used) <= Cardinality({idFile})
    BY <1>1, <2>1, FS_Subset
  <2>3. QED
    BY <1>1, <2>2
<1>3. ASSUME spoiled PROVE Cardinality(used) <= 2
  <2>1. PICK id \in Ids : used \in SUBSET ({id} \cup {idFile})
    BY <1>3 DEF IdentitySound
  <2> DEFINE both == {id} \cup {idFile}
  <2>2. /\ IsFiniteSet(both)
        /\ Cardinality(both) = IF idFile \in {id} THEN Cardinality({id}) ELSE Cardinality({id}) + 1
    BY <1>1, FS_AddElement
  <2>3. Cardinality({id}) = 1
    BY <1>1
  <2> HIDE DEF both
  <2>4. Cardinality(both) <= 2
    BY <2>2, <2>3
  <2>5. Cardinality(used) <= Cardinality(both) /\ IsFiniteSet(used)
    BY <2>1, <2>2, FS_Subset DEF both
  <2>6. Cardinality(used) \in Nat /\ Cardinality(both) \in Nat
    BY <2>2, <2>5, FS_CardinalityType
  <2>7. QED
    BY <2>4, <2>5, <2>6
<1>4. QED
  BY <1>2, <1>3 DEF IdentityStable

(* It holds when the app is installed.                                     *)
LEMMA InitStorage == Init => StorageInv
<1> SUFFICES ASSUME Init PROVE StorageInv
  OBVIOUS
<1> USE StorageAssumption DEF Init
<1>1. NoOp \in Ops /\ NoOp.step = "idle"
  BY DEF NoOp, Ops, Steps, Paths, Bytes, Images
<1>2. Missing \in Bytes /\ Missing \in Images /\ Hashes \subseteq Paths /\ DbPath \in Paths
  BY DEF Bytes, Images, Paths
<1>3. Typed
  <2>1. writing \in Seq(SUBSET Changes)
    BY EmptySeq
  <2>2. op \in [Writers -> Ops] /\ file \in [Paths -> Bytes] /\ part \in [Paths -> Bytes]
    BY <1>1, <1>2
  <2>3. QED
    BY <1>2, <2>1, <2>2 DEF Typed
<1>4. ChainSound
  BY <1>1, <1>2 DEF ChainSound, Loaded, Writers
<1>5. \A t \in Tasks : TaskSound(t)
  BY <1>1 DEF TaskSound, Writers
<1>6. Covered
  BY <1>2 DEF Covered, Loaded
<1>7. IdentitySound
  BY DEF IdentitySound
<1>8. QED
  BY <1>3, <1>4, <1>5, <1>6, <1>7 DEF StorageInv

-----------------------------------------------------------------------------
(* The state apart from the identity.                                      *)
DataInv == Typed /\ ChainSound /\ (\A t \in Tasks : TaskSound(t)) /\ Covered

(* The values the steps write have the types the invariant names.          *)
LEMMA Shapes ==
    /\ NoOp \in Ops /\ NoOp.step = "idle"
    /\ Hashes \subseteq Paths /\ DbPath \in Paths
    /\ Missing \in Images /\ Missing \in Bytes /\ SUBSET Changes \subseteq Bytes
    /\ Tasks \subseteq Writers /\ DbWriter \in Writers
  BY DEF NoOp, Ops, Steps, Paths, Bytes, Images, Writers

(* A writer takes its next step; what it writes, and where, stays.         *)
LEMMA StepMoves ==
    ASSUME Typed, NEW w \in Writers, NEW step \in Steps, Step(w, step)
    PROVE  /\ op' \in [Writers -> Ops]
           /\ op'[w].step = step /\ op'[w].path = op[w].path /\ op'[w].bytes = op[w].bytes
           /\ \A u \in Writers \ {w} : op'[u] = op[u]
  BY DEF Typed, Step, Ops

(* A flush puts an image at the end of the chain that includes every       *)
(* earlier one, or adds none.                                              *)
LEMMA FlushedGrows ==
    ASSUME Typed, ChainSound, NEW content \in SUBSET Changes, db \subseteq content,
           NEW changed \in BOOLEAN, Flushed(content, changed)
    PROVE  /\ writing' \in Seq(SUBSET Changes)
           /\ timer' \in BOOLEAN /\ dirty' \in BOOLEAN
           /\ \A i \in 1..Len(writing') : written \subseteq writing'[i] /\ writing'[i] \subseteq content
           /\ \A i, j \in 1..Len(writing') : i <= j => writing'[i] \subseteq writing'[j]
           /\ writing # <<>> => writing' # <<>> /\ Head(writing') = Head(writing)
<1>1. writing \in Seq(SUBSET Changes)
  BY DEF Typed
<1>2. timer' \in BOOLEAN /\ dirty' \in BOOLEAN
  BY DEF Flushed
<1>3. CASE writing' = writing
  BY <1>1, <1>2, <1>3 DEF ChainSound
<1>4. CASE writing' = Append(writing, content)
  <2>1. /\ writing' \in Seq(SUBSET Changes) /\ writing' # <<>>
        /\ Len(writing') = Len(writing) + 1
        /\ \A i \in 1..Len(writing) : writing'[i] = writing[i]
        /\ writing'[Len(writing) + 1] = content
    BY <1>1, <1>4, AppendProperties
  <2>2. writing # <<>> => Head(writing') = Head(writing)
    BY <1>1, <1>4, HeadTailAppend
  <2>3. Len(writing) \in Nat
    BY <1>1
  <2>4. \A i \in 1..Len(writing') : i \in 1..Len(writing) \/ i = Len(writing) + 1
    BY <2>1, <2>3
  <2>5. \A i \in 1..Len(writing') : written \subseteq writing'[i] /\ writing'[i] \subseteq content
    BY <2>1, <2>4 DEF ChainSound
  <2>6. \A i, j \in 1..Len(writing') : i <= j => writing'[i] \subseteq writing'[j]
    BY <2>1, <2>3, <2>4, <2>5 DEF ChainSound
  <2>7. QED
    BY <1>2, <2>1, <2>2, <2>5, <2>6
<1>5. QED
  BY <1>3, <1>4 DEF Flushed

-----------------------------------------------------------------------------
(* Opening the database, and the end of the process.                       *)
LEMMA OpenKeeps == DataInv /\ Open => DataInv'
<1> SUFFICES ASSUME DataInv, Open PROVE DataInv'
  OBVIOUS
<1> USE DEF DataInv, Open, fileVars
<1>1. Loaded' = Loaded /\ Loaded \subseteq Changes
  BY DEF Loaded, Typed, Images
<1>2. writing = <<>> /\ \A w \in Writers : op[w].step = "idle"
  BY DEF ChainSound
<1>3. Typed'
  BY <1>1 DEF Typed
<1>4. ChainSound'
  BY <1>1, <1>2, Shapes DEF ChainSound
<1>5. \A t \in Tasks : TaskSound(t)'
  BY <1>2, Shapes DEF TaskSound
<1>6. Covered'
  BY <1>1 DEF Covered
<1>7. QED
  BY <1>3, <1>4, <1>5, <1>6

(* Android ends the process: the disk stays, the memory goes.              *)
LEMMA KillKeeps == DataInv /\ Kill => DataInv'
<1> SUFFICES ASSUME DataInv, Kill PROVE DataInv'
  OBVIOUS
<1> USE DEF DataInv, Kill, fileVars
<1>1. Loaded' = Loaded
  BY DEF Loaded
<1>2. op' \in [Writers -> Ops] /\ \A w \in Writers : op'[w].step = "idle"
  BY Shapes
<1>3. Typed'
  BY <1>2, EmptySeq DEF Typed
<1>4. ChainSound'
  BY <1>1, <1>2, Shapes DEF ChainSound
<1>5. \A t \in Tasks : TaskSound(t)'
  BY <1>2, Shapes DEF TaskSound
<1>6. Covered'
  BY <1>1 DEF Covered
<1>7. QED
  BY <1>3, <1>4, <1>5, <1>6

(* The start of the identity changes nothing else.                         *)
LEMMA AppKeeps ==
    ASSUME DataInv, UNCHANGED <<dbVars, fileVars, op, raced>>,
           app' \in {"off", "loading", "minting", "running"}, app' = "off" <=> app = "off"
    PROVE  DataInv'
<1> USE DEF DataInv, dbVars, fileVars
<1>1. Loaded' = Loaded
  BY DEF Loaded
<1>2. Typed'
  BY DEF Typed
<1>3. ChainSound'
  BY <1>1 DEF ChainSound
<1>4. \A t \in Tasks : TaskSound(t)'
  BY DEF TaskSound
<1>5. Covered'
  BY <1>1 DEF Covered
<1>6. QED
  BY <1>2, <1>3, <1>4, <1>5

(* A statement outside a transaction.                                      *)
LEMMA RunStatementKeeps ==
    ASSUME DataInv, NEW c \in Settings, RunStatement(c)
    PROVE  DataInv'
<1> USE DEF DataInv, RunStatement, Touched, fileVars, idVars
<1>1. Loaded' = Loaded
  BY DEF Loaded
<1>2. Typed'
  BY DEF Typed, Changes
<1>3. ChainSound'
  BY <1>1 DEF ChainSound
<1>4. \A h \in Hashes : h \in db' <=> h \in db
  BY StorageAssumption
<1>5. \A t \in Tasks : TaskSound(t)'
  BY <1>4 DEF TaskSound
<1>6. Covered'
  BY <1>1, <1>4 DEF Covered
<1>7. QED
  BY <1>2, <1>3, <1>5, <1>6

(* The timer fires, or the application goes to the background.             *)
LEMMA FlushKeeps ==
    ASSUME DataInv, app # "off", Flushed(db, dirty),
           UNCHANGED <<db, broken, written, fileVars, app, op, raced>>
    PROVE  DataInv'
<1> USE DEF DataInv, fileVars
<1>1. /\ writing' \in Seq(SUBSET Changes) /\ timer' \in BOOLEAN /\ dirty' \in BOOLEAN
      /\ \A i \in 1..Len(writing') : written \subseteq writing'[i] /\ writing'[i] \subseteq db
      /\ \A i, j \in 1..Len(writing') : i <= j => writing'[i] \subseteq writing'[j]
      /\ writing # <<>> => writing' # <<>> /\ Head(writing') = Head(writing)
  BY FlushedGrows DEF Typed
<1>2. Loaded' = Loaded
  BY DEF Loaded
<1>3. Typed'
  BY <1>1 DEF Typed
<1>4. ChainSound'
  BY <1>1, <1>2 DEF ChainSound
<1>5. \A t \in Tasks : TaskSound(t)'
  BY DEF TaskSound
<1>6. Covered'
  BY <1>2 DEF Covered
<1>7. QED
  BY <1>3, <1>4, <1>5, <1>6

(* The chain reaches its next image.                                       *)
LEMMA WriteImageKeeps == DataInv /\ WriteImage => DataInv'
<1> SUFFICES ASSUME DataInv, WriteImage PROVE DataInv'
  OBVIOUS
<1> USE DEF DataInv, WriteImage, dbVars, fileVars, idVars
<1>1. Loaded' = Loaded
  BY DEF Loaded
<1>2. [step |-> "part", path |-> DbPath, bytes |-> Head(writing)] \in Ops
  <2>1. Head(writing) \in SUBSET Changes
    BY HeadTailProperties DEF Typed
  <2>2. QED
    BY <2>1, Shapes DEF Ops, Steps
<1>3. /\ op' \in [Writers -> Ops]
      /\ op'[DbWriter].step = "part" /\ op'[DbWriter].path = DbPath
      /\ op'[DbWriter].bytes = Head(writing)
      /\ \A t \in Tasks : op'[t] = op[t]
  BY <1>2, Shapes, StorageAssumption DEF Typed
<1>4. Typed'
  BY <1>3 DEF Typed
<1>5. app # "off"
  BY DEF ChainSound
<1>6. ChainSound'
  BY <1>1, <1>3, <1>5 DEF ChainSound
<1>7. \A t \in Tasks : TaskSound(t)'
  BY <1>3 DEF TaskSound
<1>8. Covered'
  BY <1>1 DEF Covered
<1>9. QED
  BY <1>4, <1>6, <1>7, <1>8

(* The image is put in place of the previous one.                          *)
LEMMA RenameImageKeeps ==
    ASSUME DataInv, RenameImage
    PROVE  DataInv' /\ written \subseteq written'
<1> USE DEF DataInv, RenameImage, idVars
<1>1. writing \in Seq(SUBSET Changes) /\ writing # <<>> /\ part[DbPath] = Head(writing)
  BY DEF ChainSound, Typed
<1>2. /\ Head(writing) = writing[1] /\ Head(writing) \in SUBSET Changes
      /\ Tail(writing) \in Seq(SUBSET Changes) /\ Len(Tail(writing)) = Len(writing) - 1
      /\ \A i \in 1..Len(Tail(writing)) : Tail(writing)[i] = writing[i + 1]
      /\ Len(writing) \in Nat \ {0}
  BY <1>1, HeadTailProperties, EmptySeq
<1>3. \A i \in 1..Len(writing') : i + 1 \in 1..Len(writing) /\ writing'[i] = writing[i + 1]
  BY <1>2
<1>4. /\ written \subseteq Head(writing) /\ Head(writing) \subseteq db
      /\ \A i \in 1..Len(writing') : Head(writing) \subseteq writing'[i] /\ writing'[i] \subseteq db
      /\ \A i, j \in 1..Len(writing') : i <= j => writing'[i] \subseteq writing'[j]
  <2>1. 1 \in 1..Len(writing)
    BY <1>2
  <2>2. QED
    BY <1>2, <1>3, <2>1 DEF ChainSound
<1>5. /\ op' \in [Writers -> Ops] /\ op'[DbWriter].step = "idle"
      /\ \A t \in Tasks : op'[t] = op[t]
  BY Shapes, StorageAssumption DEF Typed
<1>6. /\ file' \in [Paths -> Bytes] /\ part' \in [Paths -> Bytes]
      /\ file'[DbPath] = part[DbPath] /\ part'[DbPath] = Missing
      /\ \A h \in Hashes : file'[h] = file[h] /\ part'[h] = part[h]
  BY Shapes, StorageAssumption DEF Moved, Typed
<1>7. Loaded' \subseteq Head(writing)
  BY <1>1, <1>6 DEF Loaded
<1>8. Typed'
  BY <1>1, <1>2, <1>5, <1>6, Shapes DEF Typed
<1>9. app # "off"
  BY <1>1 DEF ChainSound
<1>10. ChainSound'
  BY <1>1, <1>4, <1>5, <1>7, <1>9 DEF ChainSound
<1>11. \A t \in Tasks : TaskSound(t)'
  BY <1>5, <1>6 DEF TaskSound
<1>12. Covered'
  BY <1>4, <1>6, <1>7 DEF Covered
<1>13. QED
  BY <1>1, <1>4, <1>8, <1>10, <1>11, <1>12

-----------------------------------------------------------------------------
(* A writer that is in an operation runs: the process is alive.            *)
LEMMA WriterAlive ==
    ASSUME ChainSound, NEW w \in Writers, op[w].step # "idle"
    PROVE  app # "off"
  BY DEF ChainSound

(* A task gives up or is done: the others' promises stand.                 *)
LEMMA TaskStops ==
    ASSUME Typed, \A u \in Tasks : TaskSound(u), NEW w \in Writers, op' = [op EXCEPT ![w] = NoOp],
           raced' = raced, file' = file,
           \A u \in Tasks \ {w} : op[u].step # "idle" /\ op[u].path \notin raced =>
                (op[u].path \in db' => op[u].path \in db)
    PROVE  /\ op' \in [Writers -> Ops] /\ op'[w].step = "idle"
           /\ \A u \in Writers \ {w} : op'[u] = op[u]
           /\ \A u \in Tasks : TaskSound(u)'
<1>1. /\ op' \in [Writers -> Ops] /\ op'[w].step = "idle"
      /\ \A u \in Writers \ {w} : op'[u] = op[u]
  BY Shapes DEF Typed
<1>2. \A u \in Tasks : TaskSound(u)'
  BY <1>1, Shapes DEF TaskSound
<1>3. QED
  BY <1>1, <1>2

(* put: the bytes are not in the database, and whoever is second is        *)
(* counted as racing.                                                      *)
LEMMA PutKeeps ==
    ASSUME DataInv, NEW t \in Tasks, NEW h \in Hashes, Put(t, h)
    PROVE  DataInv'
<1> USE StorageAssumption DEF DataInv, Put, dbVars, fileVars, idVars
<1>1. PICK new \in Ops : /\ new.path = h /\ new.bytes = h
                         /\ new.step = IF file[h] = Missing THEN "part" ELSE "row"
                         /\ op' = [op EXCEPT ![t] = new]
  <2> DEFINE new == [path |-> h, bytes |-> h, step |-> IF file[h] = Missing THEN "part" ELSE "row"]
  <2>1. new \in Ops
    BY Shapes DEF Ops, Steps, Bytes
  <2>2. QED
    BY <2>1
<1>2. /\ op' \in [Writers -> Ops] /\ op'[t] = new
      /\ \A u \in Writers \ {t} : op'[u] = op[u]
  BY <1>1, Shapes DEF Typed
<1>3. Loaded' = Loaded
  BY DEF Loaded
<1>4. raced \subseteq raced' /\ raced' \subseteq Hashes
  BY DEF Typed
<1>5. Typed'
  BY <1>2, <1>4 DEF Typed
<1>6. ChainSound'
  BY <1>2, <1>3, Shapes DEF ChainSound
<1>7. TaskSound(t)'
  <2>1. h \notin raced' => \A u \in Tasks \ {t} : op[u].step # "idle" => op[u].path # h
    BY DEF Storing
  <2>2. new.step = "row" => file[h] = h
    BY <1>1 DEF Typed
  <2>3. QED
    BY <1>1, <1>2, <2>1, <2>2, Shapes DEF TaskSound
<1>8. ASSUME NEW u \in Tasks \ {t} PROVE TaskSound(u)'
  <2>1. op[u].step # "idle" /\ op[u].path \notin raced' => op[u].path # h
    BY DEF Storing
  <2>2. QED
    BY <1>1, <1>2, <1>4, <2>1, Shapes DEF TaskSound
<1>9. Covered'
  BY <1>3, <1>4 DEF Covered
<1>10. QED
  BY <1>5, <1>6, <1>7, <1>8, <1>9

(* The .part file is written: nobody reads it before the rename.           *)
LEMMA WritePartKeeps ==
    ASSUME DataInv, NEW w \in Writers, WritePart(w)
    PROVE  DataInv'
<1> USE StorageAssumption DEF DataInv, WritePart, dbVars, idVars
<1>1. /\ op' \in [Writers -> Ops]
      /\ op'[w].step = "delete" /\ op'[w].path = op[w].path /\ op'[w].bytes = op[w].bytes
      /\ \A u \in Writers \ {w} : op'[u] = op[u]
  BY StepMoves DEF Steps
<1>2. Loaded' = Loaded
  BY DEF Loaded
<1>3. /\ op[w].path \in Paths /\ op[w].bytes \in Bytes
      /\ part' \in [Paths -> Bytes] /\ part'[op[w].path] = op[w].bytes
      /\ \A p \in Paths \ {op[w].path} : part'[p] = part[p]
  BY DEF Typed, Ops
<1>4. CASE w = DbWriter
  <2>1. op[w].path = DbPath /\ op[w].bytes \in SUBSET Changes
    BY <1>4, HeadTailProperties DEF ChainSound, Typed
  <2>2. Typed'
    BY <1>1, <1>3, <2>1, Shapes DEF Typed, Images
  <2>3. QED
    BY <1>1, <1>2, <1>3, <1>4, <2>1, <2>2, Shapes DEF ChainSound, TaskSound, Covered
<1>5. CASE w \in Tasks
  <2>1. op[w].path \in Hashes /\ op[w].bytes = op[w].path
    BY <1>5 DEF TaskSound
  <2>2. Typed'
    BY <1>1, <1>3, <2>1, Shapes DEF Typed
  <2>3. part'[DbPath] = part[DbPath] /\ op'[DbWriter] = op[DbWriter]
    BY <1>1, <1>3, <1>5, <2>1, Shapes
  <2>4. ChainSound'
    BY <1>1, <1>2, <2>3, WriterAlive DEF ChainSound
  <2>5. \A t \in Tasks : TaskSound(t)'
    BY <1>1, Shapes DEF TaskSound
  <2>6. QED
    BY <1>2, <2>2, <2>4, <2>5 DEF Covered
<1>6. QED
  BY <1>4, <1>5 DEF Writers

(* The old file is deleted.  For a revision's bytes: no copy of the        *)
(* database has their row, and nobody else has put them in place.          *)
LEMMA DeleteOldKeeps ==
    ASSUME DataInv, NEW w \in Writers, DeleteOld(w)
    PROVE  DataInv'
<1> USE StorageAssumption DEF DataInv, DeleteOld, dbVars, idVars
<1>1. /\ op' \in [Writers -> Ops]
      /\ op'[w].step = "rename" /\ op'[w].path = op[w].path /\ op'[w].bytes = op[w].bytes
      /\ \A u \in Writers \ {w} : op'[u] = op[u]
  BY StepMoves DEF Steps
<1>2. /\ op[w].path \in Paths
      /\ file' \in [Paths -> Bytes] /\ file'[op[w].path] = Missing
      /\ \A p \in Paths \ {op[w].path} : file'[p] = file[p]
  BY Shapes DEF Typed, Ops
<1>3. Typed'
  BY <1>1, <1>2, Shapes DEF Typed
<1>4. CASE w = DbWriter
  <2>1. op[w].path = DbPath /\ Loaded' = {}
    BY <1>2, <1>4 DEF ChainSound, Loaded
  <2>2. \A h \in Hashes : file'[h] = file[h]
    BY <1>2, <2>1, Shapes
  <2>3. ChainSound'
    BY <1>1, <1>4, <2>1 DEF ChainSound
  <2>4. \A t \in Tasks : TaskSound(t)'
    BY <1>1, <1>4, <2>2, Shapes DEF TaskSound
  <2>5. QED
    BY <1>3, <2>1, <2>2, <2>3, <2>4 DEF Covered
<1>5. CASE w \in Tasks
  <2>1. op[w].path \in Hashes /\ (op[w].path \notin raced => op[w].path \notin db)
    BY <1>5 DEF TaskSound
  <2>2. Loaded' = Loaded /\ Loaded \subseteq db /\ op'[DbWriter] = op[DbWriter]
    BY <1>1, <1>2, <1>5, <2>1, Shapes, WriterAlive DEF ChainSound, Loaded
  <2>3. ChainSound'
    BY <1>1, <2>2, WriterAlive DEF ChainSound
  <2>4. TaskSound(w)'
    BY <1>1, <1>5, Shapes DEF TaskSound
  <2>5. ASSUME NEW t \in Tasks \ {w} PROVE TaskSound(t)'
    <3>1. op'[t] = op[t] /\ TaskSound(t) /\ op[t].path \in Paths
      BY <1>1, Shapes DEF Typed, Ops
    <3>2. op[t].step # "idle" /\ op[t].path \notin raced => file'[op[t].path] = file[op[t].path]
      BY <1>2, <1>5, <3>1 DEF TaskSound
    <3>3. QED
      BY <1>1, <1>5, <3>1, <3>2, Shapes DEF TaskSound
  <2>6. Covered'
    BY <1>2, <2>1, <2>2, Shapes DEF Covered
  <2>7. QED
    BY <1>3, <2>3, <2>4, <2>5, <2>6
<1>6. QED
  BY <1>4, <1>5 DEF Writers

(* The disk refuses a write; for the database the chain ends with it.      *)
LEMMA WriteFailsKeeps ==
    ASSUME DataInv, NEW w \in Writers, WriteFails(w)
    PROVE  DataInv'
<1> USE StorageAssumption DEF DataInv, WriteFails, fileVars, idVars
<1>1. Loaded' = Loaded
  BY DEF Loaded
<1>2. /\ op' \in [Writers -> Ops] /\ op'[w].step = "idle"
      /\ \A u \in Writers \ {w} : op'[u] = op[u]
      /\ \A u \in Tasks : TaskSound(u)'
  BY TaskStops
<1>3. app # "off"
  BY WriterAlive
<1>4. CASE w = DbWriter
  <2>1. writing' = <<>> /\ broken' = TRUE
    BY <1>4
  <2>2. Typed'
    BY <1>2, <2>1, EmptySeq DEF Typed
  <2>3. ChainSound'
    BY <1>1, <1>2, <1>3, <1>4, <2>1, EmptySeq DEF ChainSound
  <2>4. QED
    BY <1>1, <1>2, <2>2, <2>3 DEF Covered
<1>5. CASE w # DbWriter
  <2>1. writing' = writing /\ broken' = broken /\ op'[DbWriter] = op[DbWriter]
    BY <1>2, <1>5, Shapes
  <2>2. Typed'
    BY <1>2, <2>1 DEF Typed
  <2>3. ChainSound'
    BY <1>1, <1>3, <2>1 DEF ChainSound
  <2>4. QED
    BY <1>1, <1>2, <2>2, <2>3 DEF Covered
<1>6. QED
  BY <1>4, <1>5

(* The bytes of a revision are put in place.                               *)
LEMMA RenameBlobKeeps ==
    ASSUME DataInv, NEW t \in Tasks, RenameBlob(t)
    PROVE  DataInv'
<1> USE StorageAssumption DEF DataInv, RenameBlob, dbVars, idVars
<1>1. /\ op' \in [Writers -> Ops]
      /\ op'[t].step = "row" /\ op'[t].path = op[t].path /\ op'[t].bytes = op[t].bytes
      /\ \A u \in Writers \ {t} : op'[u] = op[u]
  BY StepMoves, Shapes DEF Steps
<1>2. PICK h \in Hashes : h = op[t].path /\ h # DbPath /\ part[h] = h
  BY DEF TaskSound, Typed
<1>3. /\ file' \in [Paths -> Bytes] /\ part' \in [Paths -> Bytes]
      /\ file'[h] = h /\ part'[h] = Missing
      /\ \A p \in Paths \ {h} : file'[p] = file[p] /\ part'[p] = part[p]
  BY <1>2, Shapes DEF Typed, Moved, Bytes
<1>4. Loaded' = Loaded /\ part'[DbPath] = part[DbPath] /\ op'[DbWriter] = op[DbWriter]
  BY <1>1, <1>2, <1>3, Shapes DEF Loaded
<1>5. Typed'
  BY <1>1, <1>2, <1>3, Shapes DEF Typed
<1>6. ChainSound'
  BY <1>1, <1>4, WriterAlive, Shapes DEF ChainSound
<1>7. \A p \in Hashes : file'[p] = file[p] \/ (p = h /\ file'[p] = p)
  BY <1>3, Shapes
<1>8. \A u \in Tasks : TaskSound(u)'
  BY <1>1, <1>2, <1>3, <1>7, Shapes DEF TaskSound
<1>9. Covered'
  BY <1>4, <1>7 DEF Covered
<1>10. QED
  BY <1>5, <1>6, <1>8, <1>9

(* Somebody else has moved the .part file: the put throws.                 *)
LEMMA RenameFailsKeeps ==
    ASSUME DataInv, NEW t \in Tasks, RenameFails(t)
    PROVE  DataInv'
<1> USE StorageAssumption DEF DataInv, RenameFails, dbVars, fileVars, idVars
<1>1. Loaded' = Loaded
  BY DEF Loaded
<1>2. /\ op' \in [Writers -> Ops] /\ op'[t].step = "idle"
      /\ \A u \in Writers \ {t} : op'[u] = op[u]
      /\ \A u \in Tasks : TaskSound(u)'
  BY TaskStops, Shapes
<1>3. app # "off" /\ op'[DbWriter] = op[DbWriter]
  BY <1>2, WriterAlive, Shapes
<1>4. Typed'
  BY <1>2 DEF Typed
<1>5. ChainSound'
  BY <1>1, <1>3 DEF ChainSound
<1>6. QED
  BY <1>1, <1>2, <1>4, <1>5 DEF Covered

(* The row is saved once the bytes are in place, whether a COMMIT flushes  *)
(* it at once or the timer will.                                           *)
LEMMA RowKeeps ==
    ASSUME DataInv, NEW t \in Tasks, op[t].step = "row",
           db' = db \cup {op[t].path}, op' = [op EXCEPT ![t] = NoOp],
           Flushed(db', TRUE) \/ Touched,
           UNCHANGED <<broken, written, fileVars, idVars, raced>>
    PROVE  DataInv'
<1> USE StorageAssumption DEF DataInv, fileVars, idVars
<1>1. PICK h \in Hashes : /\ h = op[t].path
                          /\ h \notin raced => /\ file[h] = h
                                               /\ \A u \in Tasks \ {t} : op[u].step # "idle" => op[u].path # h
  BY DEF TaskSound
<1>2. PICK content \in SUBSET Changes : content = db' /\ db \subseteq content
  <2>1. h \in Changes /\ db \subseteq Changes
    BY <1>1 DEF Typed, Changes
  <2>2. db \cup {h} \in SUBSET Changes
    BY <2>1
  <2>3. QED
    BY <1>1, <2>2
<1>3. Loaded' = Loaded
  BY DEF Loaded
<1>4. /\ op' \in [Writers -> Ops] /\ op'[t].step = "idle"
      /\ \A u \in Writers \ {t} : op'[u] = op[u]
      /\ \A u \in Tasks : TaskSound(u)'
  <2>1. \A u \in Tasks \ {t} : op[u].step # "idle" /\ op[u].path \notin raced =>
            (op[u].path \in db' => op[u].path \in db)
    BY <1>1
  <2>2. QED
    BY <2>1, TaskStops, Shapes
<1>5. /\ writing' \in Seq(SUBSET Changes) /\ timer' \in BOOLEAN /\ dirty' \in BOOLEAN
      /\ \A i \in 1..Len(writing') : written \subseteq writing'[i] /\ writing'[i] \subseteq content
      /\ \A i, j \in 1..Len(writing') : i <= j => writing'[i] \subseteq writing'[j]
      /\ writing # <<>> => writing' # <<>> /\ Head(writing') = Head(writing)
  <2>1. CASE Flushed(db', TRUE)
    <3>1. Flushed(content, TRUE)
      BY <1>2, <2>1
    <3>2. QED
      BY <1>2, <3>1, FlushedGrows
  <2>2. CASE Touched
    BY <1>2, <2>2 DEF Touched, ChainSound, Typed
  <2>3. QED
    BY <2>1, <2>2
<1>6. app # "off" /\ op'[DbWriter] = op[DbWriter]
  BY <1>4, WriterAlive, Shapes
<1>7. Typed'
  BY <1>2, <1>4, <1>5 DEF Typed
<1>8. ChainSound'
  BY <1>2, <1>3, <1>5, <1>6 DEF ChainSound
<1>9. Covered'
  BY <1>1, <1>3 DEF Covered
<1>10. QED
  BY <1>4, <1>7, <1>8, <1>9

-----------------------------------------------------------------------------
(* Every step but those of the identity's start keeps the data sound.      *)
LEMMA DataInductive == DataInv /\ [Next]_vars => DataInv'
<1> SUFFICES ASSUME DataInv, [Next]_vars PROVE DataInv'
  OBVIOUS
<1>1. CASE Open
  BY <1>1, OpenKeeps
<1>2. CASE LoadIdentity \/ MintIdentity \/ IdentityWritten \/ KeyLost
  <2>1. /\ UNCHANGED <<dbVars, fileVars, op, raced>>
        /\ app' \in {"off", "loading", "minting", "running"} /\ (app' = "off" <=> app = "off")
    BY <1>2 DEF LoadIdentity, MintIdentity, IdentityWritten, KeyLost, Uses, DataInv, Typed
  <2>2. QED
    BY <2>1, AppKeeps
<1>3. CASE \E c \in Settings : RunStatement(c)
  BY <1>3, RunStatementKeeps
<1>4. CASE TimerFires \/ Background
  <2>1. app # "off" /\ Flushed(db, dirty)
    BY <1>4 DEF TimerFires, Background, DataInv, ChainSound
  <2>2. UNCHANGED <<db, broken, written, fileVars, app, op, raced>>
    BY <1>4 DEF TimerFires, Background, idVars
  <2>3. QED
    BY <2>1, <2>2, FlushKeeps
<1>5. CASE WriteImage
  BY <1>5, WriteImageKeeps
<1>6. CASE RenameImage
  BY <1>6, RenameImageKeeps
<1>7. CASE \E t \in Tasks : \E h \in Hashes : Put(t, h)
  BY <1>7, PutKeeps
<1>8. CASE \E w \in Writers : WritePart(w) \/ DeleteOld(w) \/ WriteFails(w)
  BY <1>8, WritePartKeeps, DeleteOldKeeps, WriteFailsKeeps
<1>9. CASE \E t \in Tasks : RenameBlob(t) \/ RenameFails(t)
  BY <1>9, RenameBlobKeeps, RenameFailsKeeps
<1>10. CASE \E t \in Tasks : CommitRow(t) \/ SaveRow(t)
  <2>1. PICK t \in Tasks : CommitRow(t) \/ SaveRow(t)
    BY <1>10
  <2>2. /\ op[t].step = "row" /\ db' = db \cup {op[t].path} /\ op' = [op EXCEPT ![t] = NoOp]
        /\ Flushed(db', TRUE) \/ Touched
        /\ UNCHANGED <<broken, written, fileVars, idVars, raced>>
    BY <2>1 DEF CommitRow, SaveRow
  <2>3. QED
    BY <2>2, RowKeeps
<1>11. CASE Kill
  BY <1>11, KillKeeps
<1>12. CASE UNCHANGED vars
  <2>1. UNCHANGED <<dbVars, fileVars, op, raced>> /\ app' = app
    BY <1>12 DEF vars, idVars
  <2>2. QED
    BY <2>1, AppKeeps DEF DataInv, Typed
<1>13. QED
  BY <1>1, <1>2, <1>3, <1>4, <1>5, <1>6, <1>7, <1>8, <1>9, <1>10, <1>11, <1>12 DEF Next

(* The identity: a start uses the file's, or one that is in the file       *)
(* before anybody has seen it.                                             *)
LEMMA IdentityInductive == IdentitySound /\ [Next]_vars => IdentitySound'
<1> SUFFICES ASSUME IdentitySound, [Next]_vars PROVE IdentitySound'
  OBVIOUS
<1>0. Missing \notin Ids /\ Torn \notin Ids
  BY StorageAssumption
<1>1. CASE LoadIdentity
  BY <1>0, <1>1 DEF LoadIdentity, Uses, IdentitySound
<1>2. CASE MintIdentity
  BY <1>0, <1>2 DEF MintIdentity, IdentitySound
<1>3. CASE IdentityWritten
  <2>1. PICK new \in Ids : idFile' = new /\ used' = used \cup {new} /\ app' = "running" /\ spoiled' = spoiled
    BY <1>3 DEF IdentityWritten, Uses, Fresh
  <2>2. idFile \notin Ids
    BY <1>3 DEF IdentityWritten, IdentitySound
  <2>3. QED
    BY <1>0, <2>1, <2>2 DEF IdentitySound
<1>4. CASE KeyLost
  BY <1>0, <1>4 DEF KeyLost, IdentitySound
<1>5. CASE app' # "minting" /\ UNCHANGED <<idFile, used, spoiled>>
  BY <1>5 DEF IdentitySound
<1>6. CASE UNCHANGED idVars
  BY <1>6 DEF idVars, IdentitySound
<1>7. Open \/ Kill => app' # "minting" /\ UNCHANGED <<idFile, used, spoiled>>
  BY DEF Open, Kill
<1>8. \/ LoadIdentity \/ MintIdentity \/ IdentityWritten \/ KeyLost \/ Open \/ Kill
      \/ UNCHANGED idVars
  BY DEF Next, vars, RunStatement, TimerFires, Background, WriteImage, RenameImage, Put,
         WritePart, DeleteOld, WriteFails, RenameBlob, RenameFails, CommitRow, SaveRow
<1>9. QED
  BY <1>1, <1>2, <1>3, <1>4, <1>5, <1>6, <1>7, <1>8

-----------------------------------------------------------------------------
(* The invariant holds in every reachable state, whatever Android kills    *)
(* and whatever the disk refuses.                                          *)
THEOREM StorageSafe == Spec => []StorageInv
<1>1. Init => StorageInv
  BY InitStorage
<1>2. StorageInv /\ [Next]_vars => StorageInv'
  <2> SUFFICES ASSUME StorageInv, [Next]_vars PROVE StorageInv'
    OBVIOUS
  <2>1. DataInv /\ IdentitySound
    BY DEF StorageInv, DataInv
  <2>2. DataInv' /\ IdentitySound'
    BY <2>1, DataInductive, IdentityInductive
  <2>3. QED
    BY <2>2 DEF StorageInv, DataInv
<1>3. QED
  BY <1>1, <1>2, PTL DEF Spec

(* "A row pointing at bytes that were never written remains impossible"    *)
(* (sqlite.ts): in memory, in the chain of writes and on disk, for bytes   *)
(* that no two operations stored at once (writeAppFileAtomic).             *)
THEOREM RowsHaveBytesAlways == Spec => []RowsHaveBytes
  BY StorageSafe, InvMeansRows, PTL

(* loadIdentity: however often a start is interrupted, one identity is     *)
(* ever handed out, and a second one only after its wrapping key is lost.  *)
THEOREM IdentityStableAlways == Spec => []IdentityStable
  BY StorageSafe, InvMeansIdentity, PTL

(* The chain of writes in sqlite.ts: within one life of the process, the   *)
(* image on disk is only ever replaced by one that contains it.            *)
THEOREM DiskNeverOlderAlways == Spec => DiskNeverOlder
<1>1. StorageInv /\ [Next]_vars => (app' # "off" /\ app # "off" => written \subseteq written')
  <2> SUFFICES ASSUME StorageInv, [Next]_vars, app' # "off", app # "off"
               PROVE  written \subseteq written'
    OBVIOUS
  <2>1. CASE RenameImage
    BY <2>1, RenameImageKeeps DEF StorageInv, DataInv
  <2>2. CASE UNCHANGED written
    BY <2>2
  <2>3. RenameImage \/ UNCHANGED written
    BY DEF Next, vars, dbVars, Open, Kill, LoadIdentity, MintIdentity, IdentityWritten, KeyLost,
           RunStatement, TimerFires, Background, WriteImage, Put, WritePart, DeleteOld,
           WriteFails, RenameBlob, RenameFails, CommitRow, SaveRow
  <2>4. QED
    BY <2>1, <2>2, <2>3
<1>2. QED
  BY <1>1, StorageSafe, PTL DEF Spec, DiskNeverOlder
===============================================================================
