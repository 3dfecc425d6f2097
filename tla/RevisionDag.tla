----------------------------- MODULE RevisionDag -----------------------------
(***************************************************************************)
(* The ancestry reasoning of packages/core/src/dag.ts: pure functions over *)
(* a revision graph, used by every synchronisation decision.               *)
(*                                                                         *)
(* A graph is a function from the revision ids it defines to the set of    *)
(* their parent ids.  A parent need not be defined by the graph: a peer's  *)
(* history summary may be partial.                                         *)
(*                                                                         *)
(* No operator here is RECURSIVE, so that modules with proofs may use it.  *)
(***************************************************************************)
EXTENDS Integers, FiniteSets

(* graph.get(id).parentIds, or nothing when the graph does not define id.  *)
ParentsIn(graph, id) == IF id \in DOMAIN graph THEN graph[id] ELSE {}

(* Every id a graph mentions, defined or not. *)
Mentioned(graph) == DOMAIN graph \cup UNION {graph[id] : id \in DOMAIN graph}

(* Union of two graphs; nodes of the overlay win on an id collision.       *)
unionGraphs(base, overlay) ==
    [id \in DOMAIN base \cup DOMAIN overlay |->
        IF id \in DOMAIN overlay THEN overlay[id] ELSE base[id]]

-----------------------------------------------------------------------------
(* The worklist of ancestorsOf, one round at a time: a round takes every   *)
(* id waiting in the queue, adds it to `seen' and queues its parents.  The *)
(* order in which the code pops does not affect the set it returns.        *)
Rounds(graph, id) ==
    LET seen[n \in Nat] ==
          IF n = 0
          THEN {id}
          ELSE UNION {{x} \cup ParentsIn(graph, x) : x \in seen[n - 1]}
    IN  seen

(* All ancestors of id, id itself included.  Parents the graph does not    *)
(* define are a frontier: reported, never expanded.                        *)
ancestorsOf(graph, id) == Rounds(graph, id)[Cardinality(DOMAIN graph)]

(* True when `ancestor' is reachable from `descendant' by parents.         *)
isAncestor(graph, ancestor, descendant) ==
    \/ ancestor = descendant
    \/ \E x \in ancestorsOf(graph, descendant) : ancestor \in ParentsIn(graph, x)

(* The best common ancestors: the common ones that no common ancestor      *)
(* reaches through one of its parents.                                     *)
findMergeBase(graph, a, b) ==
    LET common == ancestorsOf(graph, a) \cap ancestorsOf(graph, b)
        dominated == UNION {ancestorsOf(graph, p) :
                              p \in UNION {ParentsIn(graph, c) : c \in common}}
    IN  common \ dominated

(* The verdicts of the comparison of two heads. *)
DivergenceKinds == {"equal", "local-ahead", "remote-ahead", "diverged", "unrelated"}

(* The arguments of the first ancestry question swapped.                   *)
mut_classifyDivergence(graph, localHead, remoteHead) ==
    IF localHead = remoteHead THEN "equal"
    ELSE IF isAncestor(graph, localHead, remoteHead) THEN "local-ahead"
    ELSE IF isAncestor(graph, remoteHead, localHead) THEN "remote-ahead"
    ELSE IF findMergeBase(graph, localHead, remoteHead) = {} THEN "unrelated"
    ELSE "diverged"

classifyDivergence(graph, localHead, remoteHead) ==
    IF localHead = remoteHead THEN "equal"
    ELSE IF isAncestor(graph, remoteHead, localHead) THEN "local-ahead"
    ELSE IF isAncestor(graph, localHead, remoteHead) THEN "remote-ahead"
    ELSE IF findMergeBase(graph, localHead, remoteHead) = {} THEN "unrelated"
    ELSE "diverged"

-----------------------------------------------------------------------------
(* Reference definitions: what the algorithms above are meant to compute.  *)

(* A set of ids that contains the defined parents of all its members.      *)
ParentClosed(graph, ids) == \A id \in ids : ParentsIn(graph, id) \subseteq ids

(* The least parent-closed set of ids that contains id.                    *)
Ancestry(graph, id) ==
    LET all == Mentioned(graph) \cup {id}
    IN  {a \in all : \A ids \in SUBSET all :
                        id \in ids /\ ParentClosed(graph, ids) => a \in ids}

(* No non-empty set of revisions in which everyone has a parent in the     *)
(* set: on a finite graph, the absence of a cycle.                         *)
Acyclic(graph) ==
    \A ids \in SUBSET (DOMAIN graph) :
        (\A id \in ids : graph[id] \cap ids # {}) => ids = {}

(* ancestorsOf and isAncestor compute reachability: the least set of ids   *)
(* closed under parents, with undefined parents as a frontier, on partial  *)
(* and on cyclic summaries alike.                                          *)
AncestorsExact(graph, ids) ==
    \A id \in ids :
        /\ ancestorsOf(graph, id) = Ancestry(graph, id)
        /\ \A a \in ids : isAncestor(graph, a, id) <=> a \in Ancestry(graph, id)

(* findMergeBase returns exactly the maximal common ancestors, criss-cross *)
(* merges included, so that "no merge base" means "no shared history".     *)
MergeBasesMaximal(graph, ids) ==
    \A a, b \in ids :
        LET common == Ancestry(graph, a) \cap Ancestry(graph, b)
        IN  findMergeBase(graph, a, b) =
              {c \in common : \A d \in common \ {c} : c \notin Ancestry(graph, d)}

(* The two devices of a session reach opposite verdicts, and a device is   *)
(* told to fast-forward exactly when its whole history is already inside   *)
(* the other's: never both at once, and never with anything to lose.       *)
VerdictsAgree(graph, ids) ==
    \A a, b \in ids :
        LET mine   == classifyDivergence(graph, a, b)
            theirs == classifyDivergence(graph, b, a)
        IN  /\ mine = "remote-ahead" <=> theirs = "local-ahead"
            /\ mine \in {"equal", "diverged", "unrelated"} => theirs = mine
            /\ mine = "remote-ahead" <=>
                  a # b /\ Ancestry(graph, a) \subseteq Ancestry(graph, b)
            /\ mine = "unrelated" <=> Ancestry(graph, a) \cap Ancestry(graph, b) = {}
=============================================================================
