---------------------------- MODULE MCHelperSystem ----------------------------
(***************************************************************************)
(* Small instances of HelperSystem for TLC.                                *)
(***************************************************************************)
EXTENDS HelperSystem

(* Process names differ in nothing but their name.                          *)
RunSymmetry == Permutations(Runs)
=============================================================================
