------------------------------- MODULE MCDtu -------------------------------
(***************************************************************************)
(* The requests of the simulator.                                          *)
(***************************************************************************)
EXTENDS DtuSimulator

OnlyDtu == DtuPosts

Kinds ==
  [p \in Posts |-> IF p \in BatchPosts THEN "borehole_batch" ELSE "borehole"]

Bodies == [p \in Posts |-> "good"]

Contents == [p \in Posts |-> DtuRows(p)]
=============================================================================
