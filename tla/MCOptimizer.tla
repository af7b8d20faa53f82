---------------------------- MODULE MCOptimizer ----------------------------
(***************************************************************************)
(* Three plans of different worth, and more devices than CommandCh holds.  *)
(***************************************************************************)
EXTENDS Optimizer

ThreePlans == 1..3
=============================================================================
