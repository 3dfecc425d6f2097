--------------------------- MODULE RevisionHistory ---------------------------
(***************************************************************************)
(* What the metadata store promises its readers, with no trace of how      *)
(* operations are scheduled: a history that only ever grows, one complete  *)
(* revision at a time, under vault heads that always name a stored         *)
(* revision.  SyncEngine is shown to implement it.                         *)
(***************************************************************************)
CONSTANTS
    RevisionIds,   \* every id a revision can have
    VaultIds,      \* every id a vault can have
    NoHead,        \* the head of a vault that has no revision yet
    Absent         \* stands for a vault the store does not know

VARIABLES
    parents,   \* stored revision id -> set of parent ids
    owner,     \* stored revision id -> the vault it belongs to
    head       \* vault id -> revision id, NoHead or Absent

vars == <<parents, owner, head>>

Stored == DOMAIN parents

Init ==
    /\ parents = [r \in {} |-> {}]
    /\ owner = [r \in {} |-> Absent]
    /\ head = [v \in VaultIds |-> Absent]

(* A revision enters the history, after all of its parents.                *)
Grow(r, v, ps) ==
    /\ r \in RevisionIds \ Stored
    /\ v \in VaultIds
    /\ ps \subseteq Stored
    /\ parents' = [x \in Stored \cup {r} |-> IF x = r THEN ps ELSE parents[x]]
    /\ owner' = [x \in Stored \cup {r} |-> IF x = r THEN v ELSE owner[x]]

(* The head of a vault comes to name a revision of that vault which is     *)
(* stored once the step is complete.                                       *)
MoveHead(v, r) ==
    /\ v \in VaultIds
    /\ r \in DOMAIN parents'
    /\ owner'[r] = v
    /\ head' = [head EXCEPT ![v] = r]

(* A vault created on another device is taken over, without history.       *)
Adopt(v) ==
    /\ v \in VaultIds
    /\ head[v] = Absent
    /\ head' = [head EXCEPT ![v] = NoHead]
    /\ UNCHANGED <<parents, owner>>

Next ==
    \/ \E r \in RevisionIds, v \in VaultIds, ps \in SUBSET RevisionIds :
          Grow(r, v, ps) /\ (UNCHANGED head \/ MoveHead(v, r))
    \/ \E v \in VaultIds, r \in RevisionIds :
          MoveHead(v, r) /\ UNCHANGED <<parents, owner>>
    \/ \E v \in VaultIds : Adopt(v)

Spec == Init /\ [][Next]_vars
=============================================================================
