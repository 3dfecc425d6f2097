---------------------------- MODULE MCRevisionDag ----------------------------
(* Every small history summary: the bounds are in the configuration.       *)
EXTENDS Summaries
=============================================================================
