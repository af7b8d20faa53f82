---------------------------- MODULE MCCollector ----------------------------
(***************************************************************************)
(* A batch of two readings, a reading of a pump station, a payload of the  *)
(* wrong type, and a body that is not JSON.                                *)
(***************************************************************************)
EXTENDS Collector

AllPosts == {"batch", "pump", "wrong", "nojson"}

Kinds ==
  [p \in Posts |->
     CASE p = "batch" -> "borehole_batch"
       [] p = "pump" -> "pump_station"
       [] OTHER -> "borehole"]

Bodies ==
  [p \in Posts |->
     CASE p = "wrong" -> "wrong_type"
       [] p = "nojson" -> "not_json"
       [] OTHER -> "good"]

Contents ==
  [p \in Posts |->
     IF Kinds[p] = "borehole_batch"
     THEN <<<<p, 1>>, <<p, 2>>>> ELSE <<<<p, 1>>>>]
=============================================================================
