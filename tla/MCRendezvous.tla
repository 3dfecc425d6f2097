---------------------------- MODULE MCRendezvous -----------------------------
(***************************************************************************)
(* Two paired devices.                                                     *)
(***************************************************************************)
EXTENDS Rendezvous, TLC

CONSTANTS a, b

PeerSymmetry == Permutations(Peers)
=============================================================================
