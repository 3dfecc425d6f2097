----------------------------- MODULE MCVaultFile -----------------------------
(***************************************************************************)
(* Instances of VaultFile: one file, or the tracked file and another one.  *)
(***************************************************************************)
EXTENDS VaultFile, TLC

CONSTANTS home, work, old, other, edit1, edit2, sent1, sent2

OneFile == home :> old
OneFileEdits == home :> {edit1, edit2}
TwoFiles == home :> old @@ work :> other
TwoFileEdits == home :> {edit1} @@ work :> {}
=============================================================================
