---------------------------- MODULE MCSyncSession ----------------------------
(***************************************************************************)
(* Two devices over a history that forks:                                  *)
(*                                                                         *)
(*      1 <- 2 <- 3            and, when somebody saves, revision 5.       *)
(*           2 <- 4                                                        *)
(***************************************************************************)
EXTENDS SyncSession, TLC

CONSTANTS a, b, v1, v2

Fork == 1 :> {} @@ 2 :> {1} @@ 3 :> {2} @@ 4 :> {2}
ForkOrder == <<1, 2, 3, 4, 5>>

On(v, held, head) == [vault |-> v, held |-> held, head |-> head]
Empty == On(NoVault, {}, NoHead)

(* A device that holds nothing, is behind, or is on one side of the fork.  *)
Standings == {Empty, On(v1, {1}, 1), On(v1, {1, 2, 3}, 3), On(v1, {1, 2, 4}, 4)}

(* Every pair of them, one way round (the code is the same on both sides,  *)
(* and the branches of the fork differ in nothing but their names), two    *)
(* devices that imported different vaults, and one that holds as much      *)
(* history as a summary may list.                                          *)
Both(mine, theirs) == [p \in Peers |-> IF p = a THEN mine ELSE theirs]
MixedStarts ==
    {Both(Empty, s) : s \in Standings}
    \cup {Both(On(v1, {1}, 1), s) : s \in Standings \ {Empty}}
    \cup {Both(On(v1, {1, 2, 3}, 3), s) : s \in {On(v1, {1, 2, 3}, 3), On(v1, {1, 2, 4}, 4)}}
    \cup {Both(On(v1, {1}, 1), On(v2, {1}, 1)), Both(Empty, On(v1, 1..4, 3))}
=============================================================================
