----------------------------- MODULE MCReadings -----------------------------
(***************************************************************************)
(* Two of each, so that a batch can be seen in part and one station's      *)
(* values could appear under another's name.                               *)
(***************************************************************************)
EXTENDS Readings

LongAgo == -9
=============================================================================
