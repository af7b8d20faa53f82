------------------------------- MODULE MCHub -------------------------------
(***************************************************************************)
(* The hub with one message in the middle of the stream that cannot be     *)
(* marshalled.                                                             *)
(***************************************************************************)
EXTENDS Hub

SecondMessage == {2}
=============================================================================
