--------------------------- MODULE CommandLedger ---------------------------
(***************************************************************************)
(* What the command dispatcher promises to whoever watches its broadcasts. *)
(* plc_command_status tells of commands: they come one at a time, in the   *)
(* order in which they were submitted, and "acked" is the last word on a   *)
(* command.  plc_feedback tells of devices, at any time and of whatever    *)
(* command: it may say "failed" of the device of an acknowledged command.  *)
(* What either shows as a success is one that a PLC reported.              *)
(*                                                                         *)
(* begun and executed are not seen; they say what the rest stands for.     *)
(***************************************************************************)
EXTENDS Naturals

CONSTANTS
  N,         (* number of commands                                          *)
  Devices,   (* the devices                                                 *)
  DeviceOf   (* the device each command addresses                           *)

VARIABLES
  begun,     (* how many commands have been begun                           *)
  executed,  (* the commands a PLC has reported a success for               *)
  shown,     (* the last plc_command_status of each command                 *)
  reports    (* the last plc_feedback of each device                        *)

ledgerVars == <<begun, executed, shown, reports>>

LedgerInit ==
  /\ begun = 0
  /\ executed = {}
  /\ shown = [c \in 1..N |-> "none"]
  /\ reports = [d \in Devices |-> "none"]

Begin ==
  /\ begun < N
  /\ begun' = begun + 1
  /\ UNCHANGED <<executed, shown, reports>>

Execute(c) ==
  /\ c <= begun
  /\ executed' = executed \cup {c}
  /\ UNCHANGED <<begun, shown, reports>>

(* Only what is shown of the command begun last changes.                   *)
Show(from, to) ==
  /\ begun # 0
  /\ shown[begun] \in from
  /\ shown' = [shown EXCEPT ![begun] = to]
  /\ UNCHANGED <<begun, executed, reports>>

Send == Show({"none", "sent", "timeout"}, "sent")

Expire == Show({"sent"}, "timeout")

Acknowledge ==
  /\ Show({"sent"}, "acked")
  /\ \E c \in executed : DeviceOf[c] = DeviceOf[begun]

Report(d, to) ==
  /\ reports' = [reports EXCEPT ![d] = to]
  /\ UNCHANGED <<begun, executed, shown>>

ReportSuccess(d) ==
  /\ \E c \in executed : DeviceOf[c] = d
  /\ Report(d, "acked")

ReportFailure(d) ==
  /\ \E c \in 1..begun : DeviceOf[c] = d
  /\ Report(d, "failed")

LedgerNext ==
  \/ Begin \/ Send \/ Expire \/ Acknowledge
  \/ \E c \in 1..N : Execute(c)
  \/ \E d \in Devices : ReportSuccess(d) \/ ReportFailure(d)

LedgerSpec == LedgerInit /\ [][LedgerNext]_ledgerVars
=============================================================================
