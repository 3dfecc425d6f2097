---------------------------- MODULE MCAppStorage -----------------------------
(***************************************************************************)
(* One revision stored by two tasks at once, one setting, a process that   *)
(* is killed at any moment.                                                *)
(***************************************************************************)
EXTENDS AppStorage, TLC

CONSTANTS h1, t1, t2
=============================================================================
