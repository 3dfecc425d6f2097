------------------------------ MODULE MCLinkHub ------------------------------
(***************************************************************************)
(* Two devices that sync repeatedly over channels that may break.          *)
(***************************************************************************)
EXTENDS LinkHub, TLC

CONSTANTS a, b
=============================================================================
