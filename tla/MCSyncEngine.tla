----------------------------- MODULE MCSyncEngine -----------------------------
(***************************************************************************)
(* A device that can import a vault or adopt one, next to a peer that      *)
(* extends the device's own first revision.                                *)
(***************************************************************************)
EXTENDS SyncEngine, TLC

CONSTANTS v1, l1, p1, h2

PeerEdit == [r \in {p1} |-> [vault |-> v1, hash |-> h2, parents |-> {l1}]]

(* Operation slots are interchangeable. *)
TaskSymmetry == Permutations(Tasks)
=============================================================================
