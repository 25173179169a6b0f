---------------------------- MODULE MCBrowserPool ----------------------------
(***************************************************************************)
(* Two jobs on one slot, which is where calls meet: on the same worker, or *)
(* one after the other on its replacements.                                *)
(***************************************************************************)
EXTENDS BrowserPool, TLC

JobSymmetry == Permutations(Jobs)
=============================================================================
