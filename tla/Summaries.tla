------------------------------ MODULE Summaries ------------------------------
(***************************************************************************)
(* The history summary of a peer, one node at a time: complete or partial, *)
(* with cycles and duplicates.  After each node the algorithms of          *)
(* RevisionDag and RevisionOrder are compared with their reference         *)
(* definitions.                                                            *)
(***************************************************************************)
EXTENDS RevisionOrder

CONSTANTS
    MaxId,    \* ids of a history whose nodes come after their parents
    MaxAny    \* ids, and nodes, of anything else a peer could send

ASSUME SummaryAssumption == MaxId \in Nat /\ MaxAny \in 0..MaxId

VARIABLE announced    \* the nodes of the summary

SummaryIds == 1..MaxId
SummaryOrder == [i \in SummaryIds |-> i]
announcedGraph == buildGraph(announced)

SummaryInit == announced = <<>>

(* Each node once and after its parents' ids, some of them left out.       *)
ParentsFirstSummary(s) ==
    \A i \in DOMAIN s : /\ \A j \in 1..(i - 1) : s[j].id < s[i].id
                        /\ \A p \in s[i].parentIds : p < s[i].id

SmallSummary(s) ==
    Len(s) <= MaxAny /\ \A i \in DOMAIN s : {s[i].id} \cup s[i].parentIds \subseteq 1..MaxAny

Announce(id, parentIds) ==
    /\ announced' = Append(announced, [id |-> id, parentIds |-> parentIds])
    /\ ParentsFirstSummary(announced') \/ SmallSummary(announced')

SummaryNext == \E id \in SummaryIds, parentIds \in SUBSET SummaryIds : Announce(id, parentIds)

SummarySpec == SummaryInit /\ [][SummaryNext]_announced

-----------------------------------------------------------------------------
(* topologicalOrder over any subset of the summary.                        *)
OrderIsParentsFirst ==
    \A ids \in SUBSET DOMAIN announcedGraph : ParentsComeFirst(announcedGraph, SummaryOrder, ids)

(* Storing what missingRevisions asks for, in its order, installs the      *)
(* peer's head, whenever the peer's summary defines all of the head's      *)
(* history, whatever of it is held already.                     *)
RequestInstallsHead ==
    SoundSummary(announced) => \A head \in DOMAIN announcedGraph :
        Ancestry(announcedGraph, head) \subseteq DOMAIN announcedGraph =>
          \A held \in SUBSET DOMAIN announcedGraph :
            Installs(announcedGraph, SummaryOrder, head, held)

(* Whatever a peer's summary leaves out, only revisions it defines are     *)
(* ever requested: a session that asked for a hole in the summary would    *)
(* wait for bytes nobody can send (missingRevisions in dag.ts).            *)
RequestsAnswerable ==
    \A head \in SummaryIds : \A held \in SUBSET SummaryIds :
        LET walk == missingRevisions(announcedGraph, SummaryOrder, head, held)
        IN  ~ walk.cycle => Elems(walk.ordered) \subseteq DOMAIN announcedGraph

(* validateRemoteGraph accepts exactly the summaries that name no revision *)
(* twice and contain no cycle.                                             *)
SummaryAccepted ==
    validateRemoteGraph(announced, SummaryOrder) <=> SoundSummary(announced)

(* The ancestry questions of dag.ts are answered right on every history,   *)
(* criss-cross or with parents nobody defines: ancestors, best common      *)
(* ancestors and the verdicts two devices reach about each other.          *)
AncestryRight ==
    /\ AncestorsExact(announcedGraph, SummaryIds)
    /\ SoundSummary(announced) => /\ MergeBasesMaximal(announcedGraph, SummaryIds)
                                  /\ VerdictsAgree(announcedGraph, SummaryIds)

(* Whatever summary a peer sends, it is refused exactly when it has a      *)
(* cycle or a duplicate, what is then requested can be served, and storing *)
(* it in the order requested installs the peer's head.                     *)
RequestsServable ==
    SummaryAccepted /\ OrderIsParentsFirst /\ RequestsAnswerable /\ RequestInstallsHead
=============================================================================
