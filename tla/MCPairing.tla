------------------------------ MODULE MCPairing ------------------------------
(***************************************************************************)
(* A device, two others, connections under two peer ids, and a room.       *)
(***************************************************************************)
EXTENDS Pairing, TLC

CONSTANTS b, c, p1, p2, r1
=============================================================================
