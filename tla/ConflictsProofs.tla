---------------------------- MODULE ConflictsProofs ----------------------------
(***************************************************************************)
(* Theorems about Conflicts, for any devices, whichever of them meet, and  *)
(* any number of saves, decisions and revisions.                           *)
(*                                                                         *)
(* The argument.  Revisions are only added, each one after its parents, so *)
(* what a device holds stays closed under parents and the answers about it *)
(* never change (AncestryProofs): a conflict that was a fork when it was   *)
(* opened is one for ever.                                                 *)
(***************************************************************************)
EXTENDS Conflicts, AncestryProofs, SequenceTheorems

Rows(ids) == [current : ids, incoming : ids]

(* The graph: the revisions made so far, and parents among them.           *)
DagSound ==
    /\ \E n \in 1..MaxRevs : DOMAIN dag = 1..n
    /\ dag \in [DOMAIN dag -> SUBSET DOMAIN dag]
    /\ saves \subseteq DOMAIN dag

(* A device holds its head and the history of everything it holds.         *)
HeldSound ==
    /\ held \in [Devices -> SUBSET DOMAIN dag]
    /\ head \in [Devices -> DOMAIN dag]
    /\ \A d \in Devices : head[d] \in held[d] /\ ParentClosed(dag, held[d])

(* A session is about a version the peer has, a merge about two of one's   *)
(* own.                                                                    *)
WorkSound ==
    /\ session \in [Devices -> [Devices -> Nat]]
    /\ \A d, e \in Devices : session[d][e] # 0 => session[d][e] \in held[e]
    /\ combining \in [Devices -> [base : Nat, other : Nat]]
    /\ \A d \in Devices : combining[d] # NotCombining => combining[d] \in [base : held[d], other : held[d]]
    /\ choices \in 0..MaxChoices

RowsSound ==
    /\ conflicts \in [Devices -> Seq(Rows(Nat))]
    /\ \A d \in Devices :
          /\ IsInjective(conflicts[d])
          /\ \A i \in DOMAIN conflicts[d] :
                /\ conflicts[d][i] \in Rows(held[d])
                /\ Compare(conflicts[d][i].current, conflicts[d][i].incoming) = "diverged"

ConflictInv == DagSound /\ HeldSound /\ WorkSound /\ RowsSound

(* The invariant contains the property of the run.                         *)
LEMMA InvMeansForks == ConflictInv => ConflictsAreForks
<1> SUFFICES ASSUME ConflictInv PROVE ConflictsAreForks
  OBVIOUS
<1> USE DEF ConflictInv
<1>1. DOMAIN dag \subseteq 1..MaxRevs
  BY ConflictsAssumption DEF DagSound
<1>2. ASSUME NEW d \in Devices
      PROVE /\ held[d] \subseteq DOMAIN dag /\ head[d] \in held[d]
            /\ \A r \in held[d] : dag[r] \subseteq held[d]
  BY DEF HeldSound, ParentClosed, ParentsIn
<1>3. ASSUME NEW d \in Devices
      PROVE  /\ Range(conflicts[d]) \subseteq [current : held[d], incoming : held[d]]
             /\ \A c \in Range(conflicts[d]) : Compare(c.current, c.incoming) = "diverged"
  BY DEF RowsSound, Range, Rows
<1>4. TypeOK
  BY <1>1, <1>2, <1>3 DEF TypeOK, DagSound, WorkSound
<1>5. QED
  BY <1>3, <1>4 DEF ConflictsAreForks, RowsSound

(* One revision, which every device has.                                   *)
LEMMA InitSound == Init => ConflictInv
<1> SUFFICES ASSUME Init PROVE ConflictInv
  OBVIOUS
<1> USE DEF Init
<1>1. DOMAIN dag = 1..1 /\ 1 \in 1..MaxRevs /\ DOMAIN dag = {1} /\ dag[1] = {}
  BY ConflictsAssumption DEF Root
<1>2. DagSound
  BY <1>1 DEF DagSound
<1>3. HeldSound
  BY <1>1 DEF HeldSound, Root, ParentClosed, ParentsIn
<1>4. WorkSound
  BY ConflictsAssumption DEF WorkSound, NotCombining
<1>5. RowsSound
  BY DEF RowsSound, IsInjective
<1>6. QED
  BY <1>2, <1>3, <1>4, <1>5 DEF ConflictInv

-----------------------------------------------------------------------------
(* The revisions that exist are finitely many, and the next number is      *)
(* free.                                                                   *)
LEMMA NextIsFree ==
    ASSUME DagSound
    PROVE  /\ IsFiniteSet(DOMAIN dag) /\ ParentClosed(dag, DOMAIN dag)
           /\ Fresh \in Nat \ {0} /\ Fresh \notin DOMAIN dag /\ DOMAIN dag \cup {Fresh} = 1..Fresh
<1>1. PICK n \in 1..MaxRevs : DOMAIN dag = 1..n
  BY DEF DagSound
<1>2. n \in Nat /\ IsFiniteSet(1..n) /\ Cardinality(1..n) = n
  <2>1. n \in Nat /\ n - 1 + 1 = n
    BY ConflictsAssumption
  <2>2. QED
    BY <2>1, FS_Interval
<1>3. Fresh = n + 1
  BY <1>1, <1>2 DEF Fresh
<1>4. ParentClosed(dag, DOMAIN dag)
  BY DEF DagSound, ParentClosed, ParentsIn
<1>5. QED
  BY <1>1, <1>2, <1>3, <1>4

(* A revision is added: nothing that was known changes.                    *)
LEMMA AddedIsNew ==
    ASSUME DagSound, NEW d \in Devices, NEW parents \in SUBSET DOMAIN dag, Adds(d, parents),
           saves' \subseteq saves \cup {Fresh}
    PROVE  /\ DagSound' /\ DOMAIN dag' = DOMAIN dag \cup {Fresh} /\ dag'[Fresh] = parents
           /\ \A r \in DOMAIN dag : dag'[r] = dag[r]
           /\ IsFiniteSet(DOMAIN dag') /\ Agree(dag, dag', DOMAIN dag)
           /\ \A r, s \in DOMAIN dag : Compare(r, s)' = Compare(r, s)
<1>1. /\ IsFiniteSet(DOMAIN dag) /\ ParentClosed(dag, DOMAIN dag)
      /\ Fresh \in Nat \ {0} /\ Fresh \notin DOMAIN dag /\ DOMAIN dag \cup {Fresh} = 1..Fresh
  BY NextIsFree
<1>2. PICK f \in Nat \ {0} : f = Fresh
  BY <1>1
<1>3. /\ f <= MaxRevs /\ DOMAIN dag' = DOMAIN dag \cup {f}
      /\ dag' = [r \in DOMAIN dag \cup {f} |-> IF r = f THEN parents ELSE dag[r]]
  BY <1>2 DEF Adds
<1>4. dag'[f] = parents /\ \A r \in DOMAIN dag : dag'[r] = dag[r]
  BY <1>1, <1>2, <1>3
<1>5. dag' \in [DOMAIN dag' -> SUBSET DOMAIN dag']
  BY <1>3 DEF DagSound
<1>6. DagSound'
  <2>1. f \in 1..MaxRevs /\ DOMAIN dag' = 1..f
    BY <1>1, <1>2, <1>3, ConflictsAssumption
  <2>2. QED
    BY <1>2, <1>3, <1>5, <2>1 DEF DagSound
<1>7. IsFiniteSet(DOMAIN dag')
  BY <1>1, <1>3, FS_AddElement
<1>8. Agree(dag, dag', DOMAIN dag)
  BY <1>1, <1>3, <1>4 DEF Agree, ParentsIn
<1>9. \A r, s \in DOMAIN dag : Compare(r, s)' = Compare(r, s)
  BY <1>1, <1>7, <1>8, SameVerdict DEF Compare
<1>10. QED
  BY <1>2, <1>3, <1>4, <1>6, <1>7, <1>8, <1>9

(* ... and the device holds it, with its history.                          *)
LEMMA AddedIsHeld ==
    ASSUME ConflictInv, NEW d \in Devices, NEW parents \in SUBSET held[d], Adds(d, parents),
           saves' \subseteq saves \cup {Fresh}
    PROVE  /\ HeldSound' /\ \A e \in Devices : held[e] \subseteq held'[e]
           /\ head'[d] = Fresh /\ \A e \in Devices \ {d} : head'[e] = head[e]
<1>1. held[d] \subseteq DOMAIN dag /\ DagSound
  BY DEF ConflictInv, HeldSound
<1>2. /\ DOMAIN dag' = DOMAIN dag \cup {Fresh} /\ dag'[Fresh] = parents
      /\ \A r \in DOMAIN dag : dag'[r] = dag[r]
  BY <1>1, AddedIsNew
<1>3. PICK f : f = Fresh
  OBVIOUS
<1>4. held' = [held EXCEPT ![d] = @ \cup {f}] /\ head' = [head EXCEPT ![d] = f]
  BY <1>3 DEF Adds
<1>5. held' \in [Devices -> SUBSET DOMAIN dag'] /\ head' \in [Devices -> DOMAIN dag']
  BY <1>2, <1>3, <1>4 DEF ConflictInv, HeldSound
<1>6. ASSUME NEW e \in Devices PROVE head'[e] \in held'[e] /\ ParentClosed(dag', held'[e])
  <2>1. ParentClosed(dag, held[e]) /\ held[e] \subseteq DOMAIN dag
    BY DEF ConflictInv, HeldSound
  <2>2. held'[e] = IF e = d THEN held[d] \cup {f} ELSE held[e]
    BY <1>4 DEF ConflictInv, HeldSound
  <2>3. ParentClosed(dag', held'[e])
    BY <1>2, <1>3, <2>1, <2>2 DEF ParentClosed, ParentsIn
  <2>4. QED
    BY <1>4, <2>2, <2>3 DEF ConflictInv, HeldSound
<1>7. QED
  BY <1>3, <1>4, <1>5, <1>6 DEF ConflictInv, HeldSound

(* What devices hold grows and verdicts stay: so do the open conflicts.    *)
LEMMA RowsStay ==
    ASSUME ConflictInv, \A e \in Devices : held[e] \subseteq held'[e],
           \A r, s \in DOMAIN dag : Compare(r, s)' = Compare(r, s),
           NEW rows \in [Devices -> Seq(Rows(Nat))], conflicts' = rows,
           \A e \in Devices : /\ IsInjective(rows[e])
                              /\ \A i \in DOMAIN rows[e] : \E j \in DOMAIN conflicts[e] :
                                     rows[e][i] = conflicts[e][j]
    PROVE  RowsSound'
<1>1. ASSUME NEW e \in Devices, NEW i \in DOMAIN rows[e]
      PROVE  rows[e][i] \in Rows(held'[e]) /\ Compare(rows[e][i].current, rows[e][i].incoming)' = "diverged"
  <2>1. PICK j \in DOMAIN conflicts[e] : rows[e][i] = conflicts[e][j]
    BY <1>1
  <2>2. /\ conflicts[e][j] \in Rows(held[e])
        /\ Compare(conflicts[e][j].current, conflicts[e][j].incoming) = "diverged"
    BY <2>1 DEF ConflictInv, RowsSound
  <2>3. conflicts[e][j].current \in held[e] /\ conflicts[e][j].incoming \in held[e] /\ held[e] \subseteq DOMAIN dag
    BY <2>2 DEF Rows, ConflictInv, HeldSound
  <2>4. rows[e][i] \in Rows(held'[e])
    BY <2>1, <2>2 DEF Rows
  <2>5. PICK r \in DOMAIN dag, s \in DOMAIN dag : r = conflicts[e][j].current /\ s = conflicts[e][j].incoming
    BY <2>3
  <2>6. Compare(r, s)' = "diverged"
    BY <2>2, <2>5
  <2>7. r = rows[e][i].current /\ s = rows[e][i].incoming
    BY <2>1, <2>5
  <2>8. QED
    BY <2>4, <2>6, <2>7 DEF Compare
<1>2. QED
  BY <1>1 DEF RowsSound, Compare

(* Nothing is added to what exists or to what is held.                     *)
LEMMA SameRows ==
    ASSUME ConflictInv
    PROVE  \A e \in Devices : /\ IsInjective(conflicts[e])
                              /\ \A i \in DOMAIN conflicts[e] : \E j \in DOMAIN conflicts[e] :
                                     conflicts[e][i] = conflicts[e][j]
  BY DEF ConflictInv, RowsSound

-----------------------------------------------------------------------------
(* What sessions and merges are about stays held.                          *)
LEMMA WorkStays ==
    ASSUME ConflictInv, \A e \in Devices : held[e] \subseteq held'[e],
           session' = session, combining' = combining, choices' \in 0..MaxChoices
    PROVE  WorkSound'
  BY DEF ConflictInv, WorkSound

(* The person saves.                                                       *)
LEMMA SaveKeeps ==
    ASSUME ConflictInv, NEW d \in Devices, Save(d)
    PROVE  ConflictInv'
<1>1. {head[d]} \in SUBSET held[d] /\ held[d] \subseteq DOMAIN dag
  BY DEF ConflictInv, HeldSound
<1>2. Adds(d, {head[d]}) /\ saves' \subseteq saves \cup {Fresh}
  BY DEF Save
<1>3. HeldSound' /\ \A e \in Devices : held[e] \subseteq held'[e]
  BY <1>1, <1>2, AddedIsHeld
<1>4. DagSound' /\ \A r, s \in DOMAIN dag : Compare(r, s)' = Compare(r, s)
  BY <1>1, <1>2, AddedIsNew DEF ConflictInv
<1>5. UNCHANGED <<conflicts, session, combining, choices>> /\ choices \in 0..MaxChoices
  BY DEF Save, ConflictInv, WorkSound
<1>6. RowsSound'
  BY <1>3, <1>4, <1>5, RowsStay, SameRows DEF ConflictInv, RowsSound
<1>7. QED
  BY <1>3, <1>4, <1>5, <1>6, WorkStays DEF ConflictInv

(* A merge is done: its version is held and nothing is open any more.      *)
LEMMA FinishKeeps ==
    ASSUME ConflictInv, NEW d \in Devices, FinishCombine(d)
    PROVE  ConflictInv'
<1>1. PICK parents \in SUBSET held[d] : parents = mergedRevision(combining[d].base, combining[d].other)
  <2>1. combining[d].base \in held[d] /\ combining[d].other \in held[d]
    BY DEF FinishCombine, ConflictInv, WorkSound
  <2>2. QED
    BY <2>1 DEF mergedRevision
<1>2. held[d] \subseteq DOMAIN dag /\ Adds(d, parents) /\ saves' \subseteq saves \cup {Fresh}
  BY <1>1 DEF FinishCombine, ConflictInv, HeldSound
<1>3. HeldSound' /\ \A e \in Devices : held[e] \subseteq held'[e]
  BY <1>1, <1>2, AddedIsHeld
<1>4. DagSound' /\ \A r, s \in DOMAIN dag : Compare(r, s)' = Compare(r, s)
  BY <1>1, <1>2, AddedIsNew DEF ConflictInv
<1>5. PICK rows \in [Devices -> Seq(Rows(Nat))] : rows = [conflicts EXCEPT ![d] = <<>>]
  <2>1. <<>> \in Seq(Rows(Nat))
    BY EmptySeq
  <2>2. QED
    BY <2>1 DEF ConflictInv, RowsSound
<1>6. ASSUME NEW e \in Devices
      PROVE  /\ IsInjective(rows[e])
             /\ \A i \in DOMAIN rows[e] : \E j \in DOMAIN conflicts[e] : rows[e][i] = conflicts[e][j]
  BY <1>5, SameRows DEF ConflictInv, RowsSound, IsInjective
<1>7. RowsSound'
  BY <1>3, <1>4, <1>5, <1>6, RowsStay DEF FinishCombine
<1>8. /\ session' = session /\ choices' = choices
      /\ combining' = [combining EXCEPT ![d] = NotCombining]
  BY DEF FinishCombine
<1>9. NotCombining \in [base : Nat, other : Nat]
  BY DEF NotCombining
<1>10. WorkSound'
  BY <1>3, <1>8, <1>9 DEF ConflictInv, WorkSound
<1>11. QED
  BY <1>3, <1>4, <1>7, <1>10 DEF ConflictInv

-----------------------------------------------------------------------------
(* The graph stays.                                                        *)
LEMMA DagStays ==
    ASSUME ConflictInv, UNCHANGED <<dag, saves>>
    PROVE  DagSound' /\ \A r, s \in DOMAIN dag : Compare(r, s)' = Compare(r, s)
  BY DEF ConflictInv, DagSound, Compare

(* A session begins between two devices.                                   *)
LEMMA BeginKeeps ==
    ASSUME ConflictInv, NEW d \in Devices, NEW e \in Devices, BeginSession(d, e)
    PROVE  ConflictInv'
<1>1. UNCHANGED <<dag, held, head, conflicts, combining, saves, choices>>
  BY DEF BeginSession
<1>2. head[d] \in Nat /\ head[e] \in Nat /\ head[d] \in held[d] /\ head[e] \in held[e]
  BY DEF ConflictInv, HeldSound, DagSound
<1>3. d # e
  <2>1. {d, e} \in Pairs /\ Cardinality({d, e}) = 2
    BY ConflictsAssumption DEF BeginSession
  <2>2. ASSUME d = e PROVE FALSE
    <3>1. {d, e} = {d} /\ Cardinality({d}) = 1
      BY <2>2, FS_Singleton
    <3>2. QED
      BY <2>1, <3>1
  <2>3. QED
    BY <2>2
<1>4. session' = [session EXCEPT ![d][e] = head[e], ![e][d] = head[d]]
  BY DEF BeginSession
<1>5. session' \in [Devices -> [Devices -> Nat]]
  BY <1>2, <1>4 DEF ConflictInv, WorkSound
<1>6. ASSUME NEW x \in Devices, NEW y \in Devices, session'[x][y] # 0 PROVE session'[x][y] \in held[y]
  BY <1>2, <1>3, <1>4, <1>6 DEF ConflictInv, WorkSound
<1>7. WorkSound'
  BY <1>1, <1>5, <1>6 DEF ConflictInv, WorkSound
<1>8. QED
  BY <1>1, <1>7, DagStays DEF ConflictInv, HeldSound, RowsSound, Compare

(* A conflict that is not open yet is put first.                           *)
LEMMA OpenedRows ==
    ASSUME NEW open \in Seq(Rows(Nat)), IsInjective(open), NEW a \in Nat, NEW b \in Nat
    PROVE  LET new == openConflictFor(open, a, b)
           IN  /\ new \in Seq(Rows(Nat)) /\ IsInjective(new)
               /\ \A i \in DOMAIN new : \/ new[i] = openConflict(a, b)
                                        \/ \E j \in DOMAIN open : new[i] = open[j]
<1> DEFINE c == openConflict(a, b)
           new == openConflictFor(open, a, b)
<1>1. c \in Rows(Nat)
  BY DEF openConflict, Rows
<1>2. CASE c \in Range(open)
  BY <1>2 DEF openConflictFor
<1>3. CASE c \notin Range(open)
  <2>1. new = <<c>> \o open
    BY <1>3 DEF openConflictFor, saveConflict
  <2> HIDE DEF new, c
  <2>2. new \in Seq(Rows(Nat)) /\ Len(new) = Len(open) + 1 /\ DOMAIN new = 1..(Len(open) + 1)
    BY <1>1, <2>1
  <2>3. new[1] = c /\ \A i \in 2..(Len(open) + 1) : new[i] = open[i - 1]
    BY <1>1, <2>1
  <2>4. \A i \in 2..(Len(open) + 1) : i - 1 \in DOMAIN open /\ open[i - 1] # c
    BY <1>3 DEF Range
  <2>5. ASSUME NEW i \in DOMAIN new, NEW j \in DOMAIN new, new[i] = new[j] PROVE i = j
    <3>1. CASE i = 1 \/ j = 1
      BY <2>2, <2>3, <2>4, <2>5, <3>1
    <3>2. CASE i # 1 /\ j # 1
      <4>1. i \in 2..(Len(open) + 1) /\ j \in 2..(Len(open) + 1)
        BY <2>2, <3>2
      <4>2. open[i - 1] = open[j - 1] /\ i - 1 \in DOMAIN open /\ j - 1 \in DOMAIN open
        BY <2>3, <2>4, <2>5, <4>1
      <4>3. i - 1 = j - 1
        BY <4>2 DEF IsInjective
      <4>4. QED
        BY <4>1, <4>3
    <3>3. QED
      BY <3>1, <3>2
  <2>6. IsInjective(new)
    BY <2>5 DEF IsInjective
  <2>7. ASSUME NEW i \in DOMAIN new PROVE new[i] = c \/ \E j \in DOMAIN open : new[i] = open[j]
    <3>1. i = 1 \/ i \in 2..(Len(open) + 1)
      BY <2>2
    <3>2. QED
      BY <2>3, <2>4, <3>1
  <2>8. QED
    BY <2>2, <2>6, <2>7 DEF new, c
<1>4. QED
  BY <1>2, <1>3

(* A session ends: its history is held, and a fork is an open conflict.    *)
LEMMA EndKeeps ==
    ASSUME ConflictInv, NEW d \in Devices, NEW e \in Devices, EndSession(d, e)
    PROVE  ConflictInv'
<1>1. UNCHANGED <<dag, combining, saves, choices>>
  BY DEF EndSession
<1>2. PICK remote \in held[e] : remote = session[d][e]
  BY DEF EndSession, ConflictInv, WorkSound
<1>3. /\ held[e] \subseteq DOMAIN dag /\ ParentClosed(dag, held[e]) /\ head[d] \in held[d]
      /\ held[d] \subseteq DOMAIN dag /\ ParentClosed(dag, held[d])
  BY DEF ConflictInv, HeldSound
<1>4. IsFiniteSet(DOMAIN dag)
  BY NextIsFree DEF ConflictInv
<1>5. PICK past \in SUBSET DOMAIN dag :
        past = ancestorsOf(dag, remote) /\ remote \in past /\ ParentClosed(dag, past)
  BY <1>3, <1>4, AncestorsClosed, AncestorsLeast
<1>6. held' = [held EXCEPT ![d] = @ \cup past]
  BY <1>2, <1>5 DEF EndSession, Received
<1>7. /\ held' \in [Devices -> SUBSET DOMAIN dag]
      /\ \A x \in Devices : held'[x] = IF x = d THEN held[d] \cup past ELSE held[x]
  BY <1>5, <1>6 DEF ConflictInv, HeldSound
<1>8. PICK verdict : verdict = Compare(head[d], remote)
  OBVIOUS
<1>9. head' = [head EXCEPT ![d] = HeadAfter(verdict, @, remote)]
  BY <1>2, <1>8 DEF EndSession
<1>10. head' \in [Devices -> DOMAIN dag] /\ \A x \in Devices : head'[x] \in held'[x]
  BY <1>3, <1>5, <1>7, <1>9 DEF HeadAfter, ConflictInv, HeldSound
<1>11. HeldSound'
  <2>1. ASSUME NEW x \in Devices PROVE ParentClosed(dag, held'[x])
    BY <1>3, <1>5, <1>7 DEF ParentClosed, ConflictInv, HeldSound
  <2>2. QED
    BY <1>1, <1>7, <1>10, <2>1 DEF HeldSound
<1>12. WorkSound'
  <2>1. session' = [session EXCEPT ![d][e] = 0]
    BY DEF EndSession
  <2>2. session' \in [Devices -> [Devices -> Nat]]
    BY <2>1 DEF ConflictInv, WorkSound
  <2>3. \A x, y \in Devices : session'[x][y] # 0 => session'[x][y] \in held'[y]
    BY <1>7, <2>1 DEF ConflictInv, WorkSound
  <2>4. \A x \in Devices : combining[x] # NotCombining => combining[x] \in [base : held'[x], other : held'[x]]
    BY <1>7 DEF ConflictInv, WorkSound
  <2>5. QED
    BY <1>1, <2>2, <2>3, <2>4 DEF ConflictInv, WorkSound
<1>13. DagSound' /\ \A r, s \in DOMAIN dag : Compare(r, s)' = Compare(r, s)
  BY <1>1, DagStays
<1>14. \A x \in Devices : held[x] \subseteq held'[x]
  BY <1>7
<1>15. RowsSound'
  <2>1. CASE verdict # "diverged"
    <3>1. conflicts' = conflicts
      BY <1>2, <1>8, <2>1 DEF EndSession
    <3>2. QED
      BY <1>13, <1>14, <3>1, RowsStay, SameRows DEF ConflictInv, RowsSound
  <2>2. CASE verdict = "diverged"
    <3>1. PICK mine \in Nat : mine = head[d] /\ mine \in held'[d] /\ remote \in held'[d] /\ remote \in Nat
      BY <1>2, <1>3, <1>5, <1>7 DEF ConflictInv, DagSound
    <3>2. PICK new : new = openConflictFor(conflicts[d], mine, remote)
      OBVIOUS
    <3>3. conflicts' = [conflicts EXCEPT ![d] = new]
      BY <1>2, <1>8, <2>2, <3>1, <3>2 DEF EndSession
    <3>4. conflicts[d] \in Seq(Rows(Nat)) /\ IsInjective(conflicts[d])
      BY DEF ConflictInv, RowsSound
    <3>5. /\ new \in Seq(Rows(Nat)) /\ IsInjective(new)
          /\ \A i \in DOMAIN new : \/ new[i] = openConflict(mine, remote)
                                   \/ \E j \in DOMAIN conflicts[d] : new[i] = conflicts[d][j]
      BY <3>1, <3>2, <3>4, OpenedRows, ZenonT(60)
    <3>6. ASSUME NEW x \in Devices, NEW j \in DOMAIN conflicts[x]
          PROVE  /\ conflicts[x][j] \in Rows(held'[x])
                 /\ Compare(conflicts[x][j].current, conflicts[x][j].incoming) = "diverged"
      BY <1>14 DEF ConflictInv, RowsSound, Rows
    <3>7. /\ openConflict(mine, remote) \in Rows(held'[d])
          /\ Compare(openConflict(mine, remote).current, openConflict(mine, remote).incoming) = "diverged"
      BY <1>8, <2>2, <3>1 DEF openConflict, Rows
    <3>8. \A x \in Devices : conflicts'[x] = IF x = d THEN new ELSE conflicts[x]
      BY <3>3 DEF ConflictInv, RowsSound
    <3>9. conflicts' \in [Devices -> Seq(Rows(Nat))]
      BY <3>3, <3>5 DEF ConflictInv, RowsSound
    <3>10. ASSUME NEW x \in Devices
           PROVE  /\ IsInjective(conflicts'[x])
                  /\ \A i \in DOMAIN conflicts'[x] :
                        /\ conflicts'[x][i] \in Rows(held'[x])
                        /\ Compare(conflicts'[x][i].current, conflicts'[x][i].incoming) = "diverged"
      <4>1. CASE x = d
        BY <3>5, <3>6, <3>7, <3>8, <4>1
      <4>2. CASE x # d
        BY <3>6, <3>8, <4>2 DEF ConflictInv, RowsSound
      <4>3. QED
        BY <4>1, <4>2
    <3>11. QED
      BY <1>1, <3>9, <3>10 DEF RowsSound, Compare
  <2>3. QED
    BY <2>1, <2>2
<1>16. QED
  BY <1>11, <1>12, <1>13, <1>15 DEF ConflictInv

-----------------------------------------------------------------------------
(* Decisions: the newest conflict is closed, a held version is put in use, *)
(* or a merge of two held versions begins or fails.                        *)
LEMMA DecisionKeeps ==
    ASSUME ConflictInv, NEW d \in Devices,
           \/ KeepCurrent(d) \/ SwitchIncoming(d) \/ CombineFails(d)
           \/ \E r \in DOMAIN dag : StartCombine(d, r) \/ Promote(d, r)
    PROVE  ConflictInv'
<1>1. UNCHANGED <<dag, held, session, saves>>
  BY DEF KeepCurrent, SwitchIncoming, CombineFails, StartCombine, Promote
<1>2. choices' \in 0..MaxChoices
  BY ConflictsAssumption
     DEF KeepCurrent, SwitchIncoming, CombineFails, StartCombine, Promote, Chooses, ConflictInv, WorkSound
<1>3. \/ conflicts' = conflicts
      \/ conflicts[d] # <<>> /\ conflicts' = [conflicts EXCEPT ![d] = Tail(@)]
  BY DEF KeepCurrent, SwitchIncoming, CombineFails, StartCombine, Promote, CardShown
<1>4. \/ head' = head
      \/ \E r \in held[d] : head' = [head EXCEPT ![d] = r]
  <2>1. CASE SwitchIncoming(d)
    <3>1. conflicts[d] \in Seq(Rows(Nat)) /\ conflicts[d] # <<>>
      BY <2>1 DEF SwitchIncoming, CardShown, ConflictInv, RowsSound
    <3>2. 1 \in DOMAIN conflicts[d] /\ Head(conflicts[d]) = conflicts[d][1]
      BY <3>1
    <3>3. Head(conflicts[d]).incoming \in held[d]
      BY <3>2 DEF ConflictInv, RowsSound, Rows
    <3>4. QED
      BY <2>1, <3>3 DEF SwitchIncoming
  <2>2. CASE ~ SwitchIncoming(d)
    BY <2>2 DEF KeepCurrent, CombineFails, StartCombine, Promote
  <2>3. QED
    BY <2>1, <2>2
<1>5. \/ combining' = combining
      \/ combining' = [combining EXCEPT ![d] = NotCombining]
      \/ \E b \in held[d], o \in held[d] : combining' = [combining EXCEPT ![d] = [base |-> b, other |-> o]]
  <2>1. head[d] \in held[d]
    BY DEF ConflictInv, HeldSound
  <2>2. QED
    BY <2>1 DEF KeepCurrent, SwitchIncoming, CombineFails, StartCombine, Promote, canCombine
<1>6. HeldSound'
  BY <1>1, <1>4 DEF ConflictInv, HeldSound
<1>7. WorkSound'
  <2>1. NotCombining \in [base : Nat, other : Nat] /\ held[d] \subseteq Nat
    BY DEF NotCombining, ConflictInv, HeldSound, DagSound
  <2>2. combining' \in [Devices -> [base : Nat, other : Nat]]
    BY <1>5, <2>1, SMTT(30) DEF ConflictInv, WorkSound
  <2>3. ASSUME NEW x \in Devices, combining'[x] # NotCombining
        PROVE  combining'[x] \in [base : held[x], other : held[x]]
    <3>1. CASE x = d
      BY <1>5, <2>3, <3>1 DEF ConflictInv, WorkSound
    <3>2. CASE x # d
      BY <1>5, <2>3, <3>2 DEF ConflictInv, WorkSound
    <3>3. QED
      BY <3>1, <3>2
  <2>4. QED
    BY <1>1, <1>2, <2>2, <2>3 DEF ConflictInv, WorkSound
<1>8. RowsSound'
  <2>1. DagSound' /\ \A r, s \in DOMAIN dag : Compare(r, s)' = Compare(r, s)
    BY <1>1, DagStays
  <2>2. CASE conflicts' = conflicts
    BY <1>1, <2>1, <2>2, RowsStay, SameRows DEF ConflictInv, RowsSound
  <2>3. CASE conflicts[d] # <<>> /\ conflicts' = [conflicts EXCEPT ![d] = Tail(@)]
    <3>1. PICK open \in Seq(Rows(Nat)) : open = conflicts[d] /\ open # <<>>
      BY <2>3 DEF ConflictInv, RowsSound
    <3>2. /\ Tail(open) \in Seq(Rows(Nat)) /\ DOMAIN Tail(open) = 1..(Len(open) - 1)
          /\ \A i \in DOMAIN Tail(open) : i + 1 \in DOMAIN open /\ Tail(open)[i] = open[i + 1]
      BY <3>1
    <3>3. IsInjective(open)
      BY <3>1 DEF ConflictInv, RowsSound
    <3>4. IsInjective(Tail(open))
      <4> SUFFICES ASSUME NEW i \in DOMAIN Tail(open), NEW j \in DOMAIN Tail(open), Tail(open)[i] = Tail(open)[j]
                   PROVE  i = j
        BY DEF IsInjective
      <4>1. i + 1 = j + 1
        BY <3>2, <3>3 DEF IsInjective
      <4>2. i \in Int /\ j \in Int
        BY <3>2
      <4>3. QED
        BY <4>1, <4>2
    <3>5. PICK rows \in [Devices -> Seq(Rows(Nat))] : rows = [conflicts EXCEPT ![d] = Tail(open)]
      BY <3>2 DEF ConflictInv, RowsSound
    <3>6. ASSUME NEW e \in Devices
          PROVE  /\ IsInjective(rows[e])
                 /\ \A i \in DOMAIN rows[e] : \E j \in DOMAIN conflicts[e] : rows[e][i] = conflicts[e][j]
      <4>1. CASE e = d
        BY <3>1, <3>2, <3>4, <3>5, <4>1 DEF ConflictInv, RowsSound
      <4>2. CASE e # d
        BY <3>5, <4>2, SameRows DEF ConflictInv, RowsSound
      <4>3. QED
        BY <4>1, <4>2
    <3>7. QED
      BY <1>1, <2>1, <2>3, <3>1, <3>5, <3>6, RowsStay
  <2>4. QED
    BY <1>3, <2>2, <2>3
<1>9. QED
  BY <1>1, <1>6, <1>7, <1>8, DagStays DEF ConflictInv

(* Every step keeps the invariant.                                         *)
LEMMA ConflictsInductive == ConflictInv /\ [Next]_vars => ConflictInv'
<1> SUFFICES ASSUME ConflictInv, [Next]_vars PROVE ConflictInv'
  OBVIOUS
<1>1. CASE Next
  BY <1>1, SaveKeeps, FinishKeeps, DecisionKeeps, BeginKeeps, EndKeeps DEF Next
<1>2. CASE UNCHANGED vars
  BY <1>2 DEF vars, ConflictInv, DagSound, HeldSound, WorkSound, RowsSound, Compare
<1>3. QED
  BY <1>1, <1>2

(* The graph, the stores, the sessions and merges under way and the open   *)
(* conflicts fit together, whoever meets, saves and decides.               *)
THEOREM ConflictsSafe == Spec => []ConflictInv
<1>1. Init => ConflictInv
  BY InitSound
<1>2. QED
  BY <1>1, ConflictsInductive, PTL DEF Spec

(* openConflictFor: an open conflict is about two held versions of which   *)
(* neither contains the other, and has one row, however often devices meet *)
(* and whatever is saved, combined or chosen before somebody decides.      *)
THEOREM ConflictsAreForksAlways == Spec => []ConflictsAreForks
  BY ConflictsSafe, InvMeansForks, PTL

-----------------------------------------------------------------------------
(* A version made from others contains each of them.                       *)
LEMMA AddedContains ==
    ASSUME ConflictInv, NEW d \in Devices, NEW parents \in SUBSET held[d], Adds(d, parents),
           saves' \subseteq saves \cup {Fresh}, NEW r \in parents
    PROVE  isAncestor(dag', r, head'[d]) /\ dag' # dag
<1>1. parents \in SUBSET DOMAIN dag
  BY DEF ConflictInv, HeldSound
<1>2. IsFiniteSet(DOMAIN dag') /\ DOMAIN dag' = DOMAIN dag \cup {Fresh} /\ dag'[Fresh] = parents
  BY <1>1, AddedIsNew DEF ConflictInv
<1>3. head'[d] = Fresh
  BY AddedIsHeld
<1>4. Fresh \notin DOMAIN dag
  BY NextIsFree DEF ConflictInv
<1>5. Fresh \in ancestorsOf(dag', Fresh)
  BY <1>2, AncestorsClosed
<1>6. r \in ParentsIn(dag', Fresh)
  BY <1>2 DEF ParentsIn
<1>7. QED
  BY <1>2, <1>3, <1>4, <1>5, <1>6 DEF isAncestor

(* fastForward, recordLocalChange and combineAndUse: a head moves only to  *)
(* a version that contains it, unless a person chose otherwise or the head *)
(* moved while versions were combined.                                     *)
THEOREM HeadsKeepChangesAlways == Spec => HeadsKeepChanges
<1> DEFINE Kept(d) == \/ head'[d] = head[d]
                      \/ dag' # dag /\ combining[d].base \notin {0, head[d]}
                      \/ choices' # choices
                      \/ isAncestor(dag', head[d], head'[d])
<1>1. ASSUME ConflictInv, Next, NEW x \in Devices PROVE Kept(x)
  <2>1. head \in [Devices -> DOMAIN dag] /\ choices \in Nat
    BY <1>1 DEF ConflictInv, HeldSound, WorkSound
  <2>2. CASE \E d \in Devices : Save(d)
    <3>1. PICK d \in Devices : Save(d)
      BY <2>2
    <3>2. {head[d]} \in SUBSET held[d] /\ Adds(d, {head[d]}) /\ saves' \subseteq saves \cup {Fresh}
      BY <1>1, <3>1 DEF Save, ConflictInv, HeldSound
    <3>3. isAncestor(dag', head[d], head'[d]) /\ \A e \in Devices \ {d} : head'[e] = head[e]
      BY <1>1, <3>2, AddedContains, AddedIsHeld
    <3>4. QED
      BY <3>3
  <2>3. CASE \E d \in Devices : FinishCombine(d)
    <3>1. PICK d \in Devices : FinishCombine(d)
      BY <2>3
    <3>2. PICK base \in held[d], other \in held[d] : base = combining[d].base /\ other = combining[d].other
      BY <1>1, <3>1 DEF FinishCombine, ConflictInv, WorkSound
    <3>3. {base, other} \in SUBSET held[d] /\ Adds(d, {base, other}) /\ saves' \subseteq saves \cup {Fresh}
      BY <3>1, <3>2 DEF FinishCombine, mergedRevision
    <3>4. isAncestor(dag', base, head'[d]) /\ dag' # dag
      BY <1>1, <3>3, AddedContains
    <3>5. \A e \in Devices \ {d} : head'[e] = head[e]
      BY <1>1, <3>3, AddedIsHeld
    <3>6. base # 0
      BY <1>1 DEF ConflictInv, HeldSound, DagSound
    <3>7. QED
      BY <3>2, <3>4, <3>5, <3>6
  <2>4. CASE \E d, e \in Devices : EndSession(d, e)
    <3>1. PICK d \in Devices, e \in Devices : EndSession(d, e)
      BY <2>4
    <3>2. /\ head' = [head EXCEPT ![d] = HeadAfter(Compare(head[d], session[d][e]), @, session[d][e])]
          /\ dag' = dag
      BY <3>1 DEF EndSession
    <3>3. CASE Compare(head[d], session[d][e]) = "remote-ahead"
      <4>1. isAncestor(dag, head[d], session[d][e])
        BY <3>3 DEF Compare, classifyDivergence
      <4>2. QED
        BY <2>1, <3>2, <3>3, <4>1 DEF HeadAfter
    <3>4. CASE Compare(head[d], session[d][e]) # "remote-ahead"
      BY <2>1, <3>2, <3>4 DEF HeadAfter
    <3>5. QED
      BY <3>3, <3>4
  <2>5. CASE \/ \E d \in Devices : CombineFails(d) \/ KeepCurrent(d) \/ \E r \in DOMAIN dag : StartCombine(d, r)
             \/ \E d, e \in Devices : BeginSession(d, e)
    BY <2>5 DEF CombineFails, KeepCurrent, StartCombine, BeginSession
  <2>6. CASE \E d \in Devices : SwitchIncoming(d) \/ \E r \in DOMAIN dag : Promote(d, r)
    BY <2>1, <2>6 DEF SwitchIncoming, Promote, Chooses
  <2>7. QED
    BY <1>1, <2>2, <2>3, <2>4, <2>5, <2>6 DEF Next
<1>2. ConflictInv /\ [Next]_vars => [\A d \in Devices : Kept(d)]_vars
  BY <1>1
<1>3. QED
  BY <1>2, ConflictsSafe, PTL DEF Spec, HeadsKeepChanges
===============================================================================
