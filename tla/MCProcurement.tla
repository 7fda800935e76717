---------------------------- MODULE MCProcurement ----------------------------
(***************************************************************************)
(* Small instances of Procurement: two runs of the submit task and the     *)
(* orders they may leave at the other site.                                *)
(***************************************************************************)
EXTENDS Procurement, TLC

CONSTANTS b1, b2, c1, c2

MCSymmetry == Permutations(Slots) \cup Permutations(Calls)
==============================================================================
