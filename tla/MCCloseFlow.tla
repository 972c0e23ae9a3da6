---------------------------- MODULE MCCloseFlow ----------------------------
(***************************************************************************)
(* Small instances of CloseFlow for TLC.                                   *)
(***************************************************************************)
EXTENDS CloseFlow, TLC

RequestSymmetry == Permutations(Requests)
=============================================================================
