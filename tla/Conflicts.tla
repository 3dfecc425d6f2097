------------------------------ MODULE Conflicts ------------------------------
(***************************************************************************)
(* What becomes of changes made on several devices: the verdict at the end *)
(* of a session and what VaultServices does with it (fast-forward, or a    *)
(* conflict row), what a person can decide on the Home and History tabs,   *)
(* and the combined version that is put in use.                            *)
(*                                                                         *)
(* Revisions are numbered as they are made; dag is the graph of all of     *)
(* them, and a device has the part of it that it holds.  A session is the  *)
(* heads it began with and, separately on either side, its end; SyncSession*)
(* has what happens in between.  SyncEngine has the writes of one device   *)
(* in detail, VaultFile what they mean for the file.                       *)
(***************************************************************************)
EXTENDS RevisionDag, Sequences, SequencesExt

CONSTANTS
    Devices,
    Pairs,       \* the pairs of devices that meet
    Resolver,    \* the device whose owner combines what can be combined
    MaxSaves,    \* bound: saves in all
    MaxChoices,  \* bound: how often anybody decides otherwise
    MaxRevs      \* bound: revisions in all

ASSUME ConflictsAssumption ==
    /\ \A pair \in Pairs : pair \subseteq Devices /\ Cardinality(pair) = 2
    /\ Resolver \in Devices
    /\ MaxSaves \in Nat /\ MaxChoices \in Nat /\ MaxRevs \in Nat \ {0}

VARIABLES
    dag,        \* revision -> its parents
    held,       \* device -> revisions it has
    head,       \* device -> its head
    conflicts,  \* device -> the open conflicts, newest first
    session,    \* device -> peer -> the peer's head in the session under way, or 0
    combining,  \* device -> the merge under way
    saves,      \* revisions that are somebody's save
    choices     \* decisions so far that were not the resolver's combining

vars == <<dag, held, head, conflicts, session, combining, saves, choices>>

Root == 1
NotCombining == [base |-> 0, other |-> 0]

Init ==
    /\ dag = [r \in {Root} |-> {}]
    /\ held = [d \in Devices |-> {Root}] /\ head = [d \in Devices |-> Root]
    /\ conflicts = [d \in Devices |-> <<>>]
    /\ session = [d \in Devices |-> [e \in Devices |-> 0]]
    /\ combining = [d \in Devices |-> NotCombining]
    /\ saves = {} /\ choices = 0

-----------------------------------------------------------------------------
(* What a device holds is closed under parents (TypeOK), so its own graph  *)
(* and the graph of everything give the same verdict on what it holds.     *)
Compare(local, remote) == classifyDivergence(dag, local, remote)

Fresh == Cardinality(DOMAIN dag) + 1

(* A new revision on a device, which becomes its head.                     *)
Adds(d, parents) ==
    /\ Fresh <= MaxRevs
    /\ dag' = [r \in DOMAIN dag \cup {Fresh} |-> IF r = Fresh THEN parents ELSE dag[r]]
    /\ held' = [held EXCEPT ![d] = @ \cup {Fresh}]
    /\ head' = [head EXCEPT ![d] = Fresh]

(* The person saves, and the change is recorded.                           *)
Save(d) ==
    /\ Cardinality(saves) < MaxSaves
    /\ Adds(d, {head[d]})
    /\ saves' = saves \cup {Fresh}
    /\ UNCHANGED <<conflicts, session, combining, choices>>

-----------------------------------------------------------------------------
(* Sessions.                                                               *)

BeginSession(d, e) ==
    /\ {d, e} \in Pairs /\ session[d][e] = 0 /\ session[e][d] = 0
    /\ session' = [session EXCEPT ![d][e] = head[e], ![e][d] = head[d]]
    /\ UNCHANGED <<dag, held, head, conflicts, combining, saves, choices>>

(* The peer's head and whatever of its ancestry this device lacked.        *)
Received(d, remote) == held[d] \cup ancestorsOf(dag, remote)

openConflict(current, incoming) == [current |-> current, incoming |-> incoming]

(* saveConflict, and listOpenConflicts, which gives the newest first.      *)
saveConflict(open, conflict) == <<conflict>> \o open

(* Mutation: the conflict that is open already is opened again.            *)
mut_openConflictFor(open, current, incoming) ==
    saveConflict(open, openConflict(current, incoming))

(* openConflictFor: not twice for the same two versions.                   *)
openConflictFor(open, current, incoming) ==
    LET conflict == openConflict(current, incoming)
    IN  IF conflict \in Range(open) THEN open ELSE saveConflict(open, conflict)

(* Mutation: a fork is settled in favour of the peer.                      *)
mut_HeadAfter(verdict, local, remote) ==
    IF verdict \in {"remote-ahead", "diverged"} THEN remote ELSE local

(* Mutation: that the peer is ahead is not acted on.                       *)
mut_HeadAfterAhead(verdict, local, remote) == local

HeadAfter(verdict, local, remote) == IF verdict = "remote-ahead" THEN remote ELSE local

(* A session has ended well on one side: classify compares the local head  *)
(* of now with the peer's of the beginning, and runSession acts on it.     *)
EndSession(d, e) ==
    LET remote == session[d][e]
        verdict == Compare(head[d], remote)
    IN  /\ remote # 0
        /\ session' = [session EXCEPT ![d][e] = 0]
        /\ held' = [held EXCEPT ![d] = Received(d, remote)]
        /\ head' = [head EXCEPT ![d] = HeadAfter(verdict, @, remote)]
        /\ conflicts' = IF verdict = "diverged"
                        THEN [conflicts EXCEPT ![d] = openConflictFor(@, head[d], remote)]
                        ELSE conflicts
        /\ UNCHANGED <<dag, combining, saves, choices>>

-----------------------------------------------------------------------------
(* Decisions.                                                              *)

(* canCombine of the snapshot: a version to combine with.                  *)
canCombine(d, r) == r \in held[d] \ {head[d]} /\ Compare(head[d], r) = "diverged"

(* The card with the decisions is there if there is both an open conflict  *)
(* and a version to combine with.                                          *)
CardShown(d) == conflicts[d] # <<>> /\ \E r \in held[d] : canCombine(d, r)

Chooses == choices < MaxChoices /\ choices' = choices + 1

(* combineAndUse up to the merge, which reads and decrypts both versions.  *)
StartCombine(d, other) ==
    /\ combining[d] = NotCombining
    /\ conflicts[d] # <<>> /\ canCombine(d, other)
    /\ IF d = Resolver THEN UNCHANGED choices ELSE Chooses
    /\ combining' = [combining EXCEPT ![d] = [base |-> head[d], other |-> other]]
    /\ UNCHANGED <<dag, held, head, conflicts, session, saves>>

mergedRevision(base, other) == {base, other}

(* The rest: the merged version is stored, promoted, and every open        *)
(* conflict is closed.                                                     *)
FinishCombine(d) ==
    /\ combining[d] # NotCombining
    /\ Adds(d, mergedRevision(combining[d].base, combining[d].other))
    /\ conflicts' = [conflicts EXCEPT ![d] = <<>>]
    /\ combining' = [combining EXCEPT ![d] = NotCombining]
    /\ UNCHANGED <<session, saves, choices>>

(* The password is wrong, or the merge fails.                              *)
CombineFails(d) ==
    /\ combining[d] # NotCombining
    /\ Chooses
    /\ combining' = [combining EXCEPT ![d] = NotCombining]
    /\ UNCHANGED <<dag, held, head, conflicts, session, saves>>

(* resolveConflict with keep-current or save-both: the conflict is decided *)
(* or deferred, and nothing else changes.                                  *)
KeepCurrent(d) ==
    /\ CardShown(d)
    /\ Chooses
    /\ conflicts' = [conflicts EXCEPT ![d] = Tail(@)]
    /\ UNCHANGED <<dag, held, head, session, combining, saves>>

SwitchIncoming(d) ==
    /\ CardShown(d)
    /\ Chooses
    /\ head' = [head EXCEPT ![d] = Head(conflicts[d]).incoming]
    /\ conflicts' = [conflicts EXCEPT ![d] = Tail(@)]
    /\ UNCHANGED <<dag, held, session, combining, saves>>

(* promote: some version is put in use from the History tab.               *)
Promote(d, r) ==
    /\ r \in held[d] \ {head[d]}
    /\ Chooses
    /\ head' = [head EXCEPT ![d] = r]
    /\ UNCHANGED <<dag, held, conflicts, session, combining, saves>>

-----------------------------------------------------------------------------
Next ==
    \/ \E d \in Devices :
          \/ Save(d) \/ FinishCombine(d) \/ CombineFails(d) \/ KeepCurrent(d) \/ SwitchIncoming(d)
          \/ \E r \in DOMAIN dag : StartCombine(d, r) \/ Promote(d, r)
    \/ \E d, e \in Devices : BeginSession(d, e) \/ EndSession(d, e)

(* The devices meet again and again, and somebody at one of them combines  *)
(* what is offered.                                                        *)
Fairness ==
    /\ \A pair \in Pairs :
          /\ WF_vars(\E d, e \in pair : BeginSession(d, e))
          /\ \A d \in pair : WF_vars(\E e \in pair : EndSession(d, e))
    /\ WF_vars(\E r \in DOMAIN dag : StartCombine(Resolver, r))
    /\ \A d \in Devices : WF_vars(FinishCombine(d))

Spec == Init /\ [][Next]_vars /\ Fairness

-----------------------------------------------------------------------------
TypeOK ==
    /\ DOMAIN dag \subseteq 1..MaxRevs /\ saves \subseteq DOMAIN dag
    /\ \A d \in Devices :
          /\ held[d] \subseteq DOMAIN dag /\ head[d] \in held[d]
          /\ \A r \in held[d] : dag[r] \subseteq held[d]
          /\ Range(conflicts[d]) \subseteq [current : held[d], incoming : held[d]]
          /\ \A e \in Devices : session[d][e] \in held[e] \cup {0}
          /\ combining[d] # NotCombining => combining[d] \in [base : held[d], other : held[d]]
    /\ choices \in 0..MaxChoices

(* An open conflict is about two versions this device holds, of which      *)
(* neither contains the other, and there is one row for it, however often  *)
(* the devices meet before somebody decides.                               *)
ConflictsAreForks ==
    /\ TypeOK
    /\ \A d \in Devices :
          /\ IsInjective(conflicts[d])
          /\ \A c \in Range(conflicts[d]) :
                Compare(c.current, c.incoming) = "diverged"

Includes(r, s) == isAncestor(dag, s, r)

(* No session and no combining takes a change out of use that was in use   *)
(* before: a head moves only to a version that contains it, unless a       *)
(* person chose otherwise or the head moved while versions were combined.  *)
HeadsKeepChanges ==
    [][\A d \in Devices :
          \/ head'[d] = head[d]
          \/ dag' # dag /\ combining[d].base \notin {0, head[d]}
          \/ choices' # choices
          \/ isAncestor(dag', head[d], head'[d])]_vars

(* In the end all devices use the same version; and if nobody ever chose   *)
(* one side, every save anybody made is in it.                             *)
Converges ==
    <>[](\A d, e \in Devices :
            /\ head[d] = head[e]
            /\ choices = 0 => \A s \in saves : Includes(head[d], s))

-----------------------------------------------------------------------------
(* The Home tab on a conflict: "Combine them below to keep every change    *)
(* from both devices."  There is something below.                          *)
ForkIsOffered == \A d \in Devices : conflicts[d] # <<>> => CardShown(d)
=============================================================================
