----------------------------- MODULE MCConflicts -----------------------------
(***************************************************************************)
(* Three devices in a row: the outer two never meet.                       *)
(***************************************************************************)
EXTENDS Conflicts, TLC

CONSTANTS a, b, c

InARow == {{a, b}, {b, c}}
=============================================================================
