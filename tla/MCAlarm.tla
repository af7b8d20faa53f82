------------------------------ MODULE MCAlarm ------------------------------
(***************************************************************************)
(* A borehole and a pump station with the same id.                         *)
(***************************************************************************)
EXTENDS AlarmMonitor

SameId == {1}
=============================================================================
