------------------------------ MODULE PlcLink ------------------------------
(***************************************************************************)
(* The MQTT link between the server and the field: the paho client's       *)
(* connection, the broker's two queues and the PLC simulator behind them.  *)
(*                                                                         *)
(* A command is named by its number: command i is the i-th CommandEvent    *)
(* put into CommandDispatcher.CommandCh.  0 stands for "no command".       *)
(***************************************************************************)
EXTENDS Naturals, Sequences

CONSTANTS
  MaxCommands,   (* number of CommandEvents (bounds the model)              *)
  Targets,       (* the devices: the keys "pump_station:3", "borehole:17"   *)
  TargetOf,      (* the device each command addresses                       *)
  NetCap,        (* commands the broker holds for the PLC (a bound)         *)
  FbCap,         (* feedback the broker holds for the server (a bound)      *)
  MaxTroubles,   (* lost connections and deaths of the PLC (a bound)        *)
  PlcMayCrash    (* whether the PLC can die (keeps a model small)           *)

Cmd == 1..MaxCommands
NoCmd == 0
Feedback == [cmd : Cmd, success : BOOLEAN]

ASSUME LinkAssumption ==
  /\ MaxCommands \in Nat
  /\ TargetOf \in [Cmd -> Targets]
  /\ NetCap \in Nat \ {0} /\ FbCap \in Nat \ {0}
  /\ MaxTroubles \in Nat
  /\ PlcMayCrash \in BOOLEAN

VARIABLES
  conn,        (* the server's connection: "connecting", "up" or "down"     *)
  subscribed,  (* the broker holds the server's feedback subscription       *)
  cmdNet,      (* commands the broker holds for the PLC, oldest first       *)
  fbNet,       (* feedback on its way to the server, oldest first           *)
  stored,      (* publications paho reported as failed but keeps to resend  *)
  setting,     (* current_state of the PLC: last command applied per device *)
  succeeded,   (* commands the PLC has reported a success for               *)
  resent,      (* commands paho has sent again: a history for properties    *)
  troubles     (* connection losses and deaths of the PLC so far            *)

linkVars ==
  <<conn, subscribed, cmdNet, fbNet, stored, setting, succeeded, resent,
    troubles>>

LinkTypeOK ==
  /\ conn \in {"connecting", "up", "down"}
  /\ subscribed \in BOOLEAN
  /\ cmdNet \in Seq(Cmd)
  /\ fbNet \in Seq(Feedback)
  /\ stored \in SUBSET Cmd
  /\ setting \in [Targets -> Cmd \cup {NoCmd}]
  /\ succeeded \in SUBSET Cmd
  /\ resent \in SUBSET Cmd
  /\ troubles \in 0..MaxTroubles

LinkInit ==
  /\ conn = "connecting"
  /\ subscribed = FALSE
  /\ cmdNet = <<>>
  /\ fbNet = <<>>
  /\ stored = {}
  /\ setting = [t \in Targets |-> NoCmd]
  /\ succeeded = {}
  /\ resent = {}
  /\ troubles = 0

(* Variant of PlcExecute: a thread per message, so any of them may be      *)
(* applied first.                                                          *)
PlcExecuteAny ==
  /\ Len(fbNet) < FbCap
  /\ \E i \in DOMAIN cmdNet, success \in BOOLEAN :
       LET c == cmdNet[i] IN
       /\ cmdNet' = SubSeq(cmdNet, 1, i - 1)
                      \o SubSeq(cmdNet, i + 1, Len(cmdNet))
       /\ setting' = [setting EXCEPT ![TargetOf[c]] = c]
       /\ succeeded' = IF success THEN succeeded \cup {c} ELSE succeeded
       /\ fbNet' = Append(fbNet, [cmd |-> c, success |-> success])
  /\ UNCHANGED <<conn, subscribed, stored, resent, troubles>>

(***************************************************************************)
(* The PLC handles one command at a time.  It changes its setting before   *)
(* it knows whether the execution succeeds, then reports the outcome.      *)
(***************************************************************************)
PlcExecute ==
  /\ cmdNet # <<>>
  /\ Len(fbNet) < FbCap
  /\ \E success \in BOOLEAN :
       LET c == Head(cmdNet) IN
       /\ cmdNet' = Tail(cmdNet)
       /\ setting' = [setting EXCEPT ![TargetOf[c]] = c]
       /\ succeeded' = IF success THEN succeeded \cup {c} ELSE succeeded
       /\ fbNet' = Append(fbNet, [cmd |-> c, success |-> success])
  /\ UNCHANGED <<conn, subscribed, stored, resent, troubles>>

(* The PLC process dies and restarts: its settings are memory only.  Its   *)
(* session is not clean, so the broker keeps the command it was handling   *)
(* and delivers it again, and the outcome may have been reported already.  *)
PlcCrash ==
  /\ PlcMayCrash
  /\ troubles < MaxTroubles
  /\ troubles' = troubles + 1
  /\ setting' = [t \in Targets |-> NoCmd]
  /\ \/ UNCHANGED <<fbNet, succeeded>>
     \/ /\ cmdNet # <<>>
        /\ Len(fbNet) < FbCap
        /\ \E success \in BOOLEAN :
          LET c == Head(cmdNet) IN
          /\ succeeded' = IF success THEN succeeded \cup {c} ELSE succeeded
          /\ fbNet' = Append(fbNet, [cmd |-> c, success |-> success])
  /\ UNCHANGED <<conn, subscribed, cmdNet, stored, resent>>

(* A feedback that reaches the broker while nobody is subscribed to it is  *)
(* dropped.                                                                *)
BrokerDropsFeedback ==
  /\ ~subscribed
  /\ fbNet # <<>>
  /\ fbNet' = Tail(fbNet)
  /\ UNCHANGED
       <<conn, subscribed, cmdNet, stored, setting, succeeded, resent,
         troubles>>

(* The server loses the broker.  paho connects with CleanSession set, its  *)
(* default, so the broker forgets the subscription with the session.       *)
ConnectionLost ==
  /\ conn = "up"
  /\ troubles < MaxTroubles
  /\ conn' = "down"
  /\ subscribed' = FALSE
  /\ troubles' = troubles + 1
  /\ UNCHANGED <<cmdNet, fbNet, stored, setting, succeeded, resent>>

(* While it reconnects paho sends again, in no particular order, every     *)
(* publication left in its store.                                          *)
ResendStored ==
  /\ conn = "down"
  /\ Len(cmdNet) < NetCap
  /\ \E c \in stored :
       /\ stored' = stored \ {c}
       /\ cmdNet' = Append(cmdNet, c)
       /\ resent' = resent \cup {c}
  /\ UNCHANGED <<conn, subscribed, fbNet, setting, succeeded, troubles>>

(* SetAutoReconnect(true).  The subscription is made once, by Start, and   *)
(* nothing makes it again.                                                 *)
Reconnect ==
  /\ conn = "down"
  /\ stored = {}
  /\ conn' = "up"
  /\ UNCHANGED
       <<subscribed, cmdNet, fbNet, stored, setting, succeeded, resent,
         troubles>>

LinkNext ==
  \/ PlcExecute
  \/ PlcCrash
  \/ BrokerDropsFeedback
  \/ ConnectionLost
  \/ ResendStored
  \/ Reconnect
=============================================================================
