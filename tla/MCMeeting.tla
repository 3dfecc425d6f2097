------------------------------ MODULE MCMeeting ------------------------------
(***************************************************************************)
(* A host, a guest, and a server with little room.                         *)
(***************************************************************************)
EXTENDS Meeting, TLC

CONSTANTS a, b
=============================================================================
