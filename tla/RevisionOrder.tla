---------------------------- MODULE RevisionOrder ----------------------------
(***************************************************************************)
(* The parents-first ordering of packages/core/src/dag.ts and the two      *)
(* functions built on it: what to request from a peer, and whether a       *)
(* peer's history summary may be trusted with ancestry reasoning at all.   *)
(*                                                                         *)
(* `order' is the order in which the code's Set and array iterations meet  *)
(* the ids; the result may depend on it, its correctness may not.          *)
(***************************************************************************)
EXTENDS RevisionDag, Sequences

(* The elements of a sequence. *)
Elems(seq) == {seq[i] : i \in DOMAIN seq}

(* Those of an order that are in a set.                                    *)
Listed(order, ids) ==
    LET upto[n \in Nat] ==
          IF n = 0 THEN <<>>
          ELSE IF order[n] \in ids THEN Append(upto[n - 1], order[n])
          ELSE upto[n - 1]
    IN  upto[Len(order)]

(* Frames pushed for the parents of a node that is being expanded.         *)
Frames(order, ids) ==
    LET listed == Listed(order, ids)
    IN  [i \in DOMAIN listed |-> [id |-> listed[i], expanded |-> FALSE]]

(* Where the depth-first walk stands: its stack of frames, the ids it has  *)
(* finished (in order), those on the current path, and whether the cycle   *)
(* assertion fired.                                                        *)
WalkStart == [stack |-> <<>>, ordered |-> <<>>, onStack |-> {}, cycle |-> FALSE]

(* One turn of the two nested loops of topologicalOrder.                   *)
WalkStep(graph, order, target, w) ==
    LET done  == Elems(w.ordered)
        rest  == SubSeq(w.stack, 1, Len(w.stack) - 1)
        frame == w.stack[Len(w.stack)]
        next  == (ParentsIn(graph, frame.id) \cap target) \ done
    IN  IF w.cycle \/ (w.stack = <<>> /\ target \subseteq done) THEN w
        ELSE IF w.stack = <<>> THEN [w EXCEPT !.stack = SubSeq(Frames(order, target \ done), 1, 1)]
        ELSE IF frame.id \in done
          THEN [w EXCEPT !.stack = rest, !.onStack = @ \ {frame.id}]
        ELSE IF frame.expanded
          THEN [w EXCEPT !.stack = rest, !.onStack = @ \ {frame.id},
                         !.ordered = Append(@, frame.id)]
        ELSE IF next \cap (w.onStack \cup {frame.id}) # {} THEN [w EXCEPT !.cycle = TRUE]
        ELSE [w EXCEPT !.stack = Append(rest, [frame EXCEPT !.expanded = TRUE])
                                   \o Frames(order, next),
                       !.onStack = @ \cup {frame.id}]

(* Turns enough for any target: a frame is pushed once per edge and once   *)
(* per start, and every frame costs at most two turns.                     *)
WalkFuel(target) == 3 * (Cardinality(target) + 1) * (Cardinality(target) + 1)

(* `ids' with every parent before its children, or the cycle assertion.    *)
(* (The set constructor binds the previous state of the walk to a value,   *)
(* so that TLC computes it once even inside ENABLED.)                      *)
topologicalOrder(graph, order, ids) ==
    LET walk[n \in Nat] ==
          IF n = 0 THEN WalkStart
          ELSE CHOOSE next \in {WalkStep(graph, order, ids, w) : w \in {walk[n - 1]}} : TRUE
    IN  walk[WalkFuel(ids)]

(* Everything the peer can name, whether it can send it or not.            *)
mut_wanted(remoteGraph, remoteHead, held) == ancestorsOf(remoteGraph, remoteHead) \ held

(* The revisions behind remoteHead that are not held here and that the     *)
(* peer defines.                                                           *)
wanted(remoteGraph, remoteHead, held) ==
    {id \in ancestorsOf(remoteGraph, remoteHead) : id \notin held /\ id \in DOMAIN remoteGraph}

missingRevisions(remoteGraph, order, remoteHead, held) ==
    topologicalOrder(remoteGraph, order, wanted(remoteGraph, remoteHead, held))

(* A summary is a sequence of nodes; a later node with the same id         *)
(* replaces an earlier one.                                                *)
buildGraph(nodes) ==
    [id \in {node.id : node \in Elems(nodes)} |->
        LET last == CHOOSE i \in DOMAIN nodes :
                        /\ nodes[i].id = id
                        /\ \A j \in DOMAIN nodes : nodes[j].id = id => j <= i
        IN  nodes[last].parentIds]

(* Accept a peer's summary: no id twice, and no cycle.                     *)
validateRemoteGraph(nodes, order) ==
    /\ \A i, j \in DOMAIN nodes : nodes[i].id = nodes[j].id => i = j
    /\ ~ topologicalOrder(buildGraph(nodes), order, DOMAIN buildGraph(nodes)).cycle

-----------------------------------------------------------------------------
(* Reference definitions: what the algorithms above are meant to compute.  *)

(* The assertion fires exactly when the ids contain a cycle; otherwise the *)
(* result lists them once, parents before children.                        *)
ParentsComeFirst(graph, order, ids) ==
    LET walk  == topologicalOrder(graph, order, ids)
        inner == [id \in ids |-> ParentsIn(graph, id) \cap ids]
        at(id) == CHOOSE i \in DOMAIN walk.ordered : walk.ordered[i] = id
    IN  /\ walk.cycle <=> ~ Acyclic(inner)
        /\ ~ walk.cycle =>
              /\ Elems(walk.ordered) = ids
              /\ Len(walk.ordered) = Cardinality(ids)
              /\ \A id \in ids : \A p \in inner[id] : at(p) < at(id)

(* Storing what is requested, in that order, on top of what is held: no    *)
(* revision arrives before one of its parents, none arrives again, and     *)
(* afterwards all of the head's history is held.                           *)
Installs(graph, order, head, held) ==
    LET asked == missingRevisions(graph, order, head, held).ordered
    IN  /\ \A i \in DOMAIN asked :
              graph[asked[i]] \subseteq held \cup {asked[j] : j \in 1..(i - 1)}
        /\ Ancestry(graph, head) \subseteq held \cup Elems(asked)
        /\ Elems(asked) \cap held = {}

(* A summary with no revision twice and no cycle.                          *)
SoundSummary(nodes) ==
    Cardinality(DOMAIN buildGraph(nodes)) = Len(nodes) /\ Acyclic(buildGraph(nodes))
=============================================================================
