------------------------- MODULE MCPiCommandDelivery -------------------------
(***************************************************************************)
(* PiCommandDelivery and its refinement for TLC.                           *)
(***************************************************************************)
EXTENDS PiCommandLifecycle, TLC

ProcessSymmetry == Permutations(Process)
==============================================================================
