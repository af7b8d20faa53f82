---------------------------- MODULE MCDispatcher ----------------------------
(***************************************************************************)
(* Values for the constants of CommandDispatcher.                          *)
(***************************************************************************)
EXTENDS CommandDispatcher

(* Every command addresses a device of its own, as in one optimization.    *)
OwnTarget == [c \in Cmd |-> c]

(* All commands address one device, as in successive optimizations.        *)
OneTarget == [c \in Cmd |-> 1]
=============================================================================
