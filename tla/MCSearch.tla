------------------------------ MODULE MCSearch ------------------------------
(***************************************************************************)
(* The concentration grows with the pressure, and the mean over the        *)
(* boreholes is weighted by their flow.                                    *)
(***************************************************************************)
EXTENDS GeneticSearch, FiniteSetsExt

(* Two boreholes of one station, and of two of which the second is first.  *)
OneOrTwoStations == {<<1, 1>>, <<2, 1>>}

UpAndDown == {-1, 0, 1}

Flow == <<1, 2>>
Conc == <<2, 1>>

MeanConcentration(got) ==
  LET FlowOf(b) == Flow[b] * got[b][2] * got[b][1]
      Weighted(b) == Conc[b] * got[b][1] * FlowOf(b)
      total == MapThenSumSet(FlowOf, DOMAIN got)
  IN IF total = 0 THEN 0
     ELSE (10 * MapThenSumSet(Weighted, DOMAIN got)) \div total

(* The values that occur with two boreholes.                               *)
MeanConcentrations ==
  {MeanConcentration(got) : got \in [1..2 -> (1..2) \X (0..1)]}
=============================================================================
