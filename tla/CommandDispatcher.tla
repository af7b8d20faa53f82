------------------------- MODULE CommandDispatcher -------------------------
(***************************************************************************)
(* command_dispatcher.CommandDispatcher: the goroutine that takes commands *)
(* from CommandCh and publishes each one until the PLC acknowledges it or  *)
(* the retries run out, the MQTT callback that hands feedback to it, and   *)
(* the goroutine that removes stale entries of the pending map.            *)
(*                                                                         *)
(* Commands are taken in the order they were put into CommandCh, so the    *)
(* channel is the interval deq+1..enq and the command in hand is deq.      *)
(* Time advances in ticks, and only while the dispatcher is blocked.       *)
(***************************************************************************)
EXTENDS PlcLink

CONSTANTS
  QueueCap,    (* capacity of CommandCh                                     *)
  MaxRetries,  (* maxRetries                                                *)
  AckTimeout,  (* ackTimeout, in ticks                                      *)
  RetryDelay,  (* retryDelay, in ticks                                      *)
  MaxLatency,  (* ticks a command may spend on its INSERT and publications  *)
               (* (a bound)                                                *)
  DbFails      (* the database may refuse an INSERT                         *)

ASSUME DispatcherAssumption ==
  /\ QueueCap \in Nat \ {0}
  /\ MaxRetries \in Nat
  /\ AckTimeout \in Nat \ {0}
  /\ RetryDelay \in Nat
  /\ MaxLatency \in Nat
  /\ DbFails \in BOOLEAN

VARIABLES
  enq,      (* CommandEvents put into CommandCh so far                      *)
  deq,      (* CommandEvents taken from it so far                           *)
  pc,       (* where the dispatcher goroutine is                            *)
  attempt,  (* attempt, of the loop in dispatchWithAck                      *)
  elapsed,  (* ticks since the dispatcher reached pc                        *)
  age,      (* ticks since PublishAt of the command in hand                 *)
  latency,  (* those spent in statements and publications (a history)       *)
  pending,  (* pending: the command each key is registered for              *)
  ackChan,  (* AckChan of the command in hand, capacity one                 *)
  handler,  (* the feedback the MQTT callback is holding, and its pc        *)
  reports,  (* the last plc_feedback broadcast for each device              *)
  status,   (* the last plc_command_status broadcast for each command       *)
  row,      (* status of the plc_commands row the dispatcher inserted       *)
  sends,    (* calls of publishCommand for each command                     *)
  ctxDone   (* ctx has been cancelled: the server is shutting down          *)

loopVars ==
  <<enq, deq, pc, attempt, elapsed, age, latency, status, row, sends, ctxDone>>
dispVars == <<loopVars, pending, ackChan, handler, reports>>
vars == <<linkVars, dispVars>>

Idle == [at |-> "idle", cmd |-> NoCmd, success |-> FALSE, ptr |-> NoCmd]

(* The locations at which a command is in hand.                            *)
Busy == {"insert", "delay", "publish", "await", "giveup", "finish"}

TypeOK ==
  /\ LinkTypeOK
  /\ enq \in Cmd \cup {NoCmd}
  /\ deq \in 0..enq
  /\ enq - deq <= QueueCap
  /\ pc \in Busy \cup {"off", "idle", "stopped"}
  /\ pc \in Busy => deq \in Cmd
  /\ attempt \in 0..MaxRetries
  /\ elapsed \in Nat
  /\ age \in Nat
  /\ latency \in Nat
  /\ pending \in [Targets -> Cmd \cup {NoCmd}]
  /\ ackChan \in {"empty", "ack", "nack"}
  /\ \/ handler = Idle
     \/ handler \in [at : {"send", "show"}, cmd : Cmd, success : BOOLEAN,
                     ptr : Cmd \cup {NoCmd}]
  /\ reports \in [Targets -> {"none", "acked", "failed"}]
  /\ status \in [Cmd -> {"none", "sent", "acked", "timeout"}]
  /\ row \in [Cmd -> {"none", "sent", "acked", "timeout"}]
  /\ sends \in [Cmd -> Nat]
  /\ ctxDone \in BOOLEAN

Init ==
  /\ LinkInit
  /\ enq = 0 /\ deq = 0
  /\ pc = "off"
  /\ attempt = 0 /\ elapsed = 0 /\ age = 0 /\ latency = 0
  /\ pending = [t \in Targets |-> NoCmd]
  /\ ackChan = "empty"
  /\ handler = Idle
  /\ reports = [t \in Targets |-> "none"]
  /\ status = [c \in Cmd |-> "none"]
  /\ row = [c \in Cmd |-> "none"]
  /\ sends = [c \in Cmd |-> 0]
  /\ ctxDone = FALSE

-----------------------------------------------------------------------------
(* Start and shutdown.                                                     *)

(* The broker is reached, the feedback topic is subscribed to (an error of *)
(* the subscription is only logged) and the goroutines start.              *)
Start ==
  /\ pc = "off"
  /\ pc' = "idle"
  /\ conn' = "up"
  /\ subscribed' = TRUE \/ subscribed' = FALSE
  /\ UNCHANGED <<cmdNet, fbNet, stored, setting, succeeded, resent, troubles>>
  /\ UNCHANGED <<enq, deq, attempt, elapsed, age, latency, status>>
  /\ UNCHANGED <<row, sends, ctxDone>>
  /\ UNCHANGED <<pending, ackChan, handler, reports>>

(* The connect token carries an error: Start returns, no goroutine runs.   *)
StartFails ==
  /\ pc = "off"
  /\ pc' = "stopped"
  /\ UNCHANGED linkVars
  /\ UNCHANGED <<enq, deq, attempt, elapsed, age, latency, status>>
  /\ UNCHANGED <<row, sends, ctxDone>>
  /\ UNCHANGED <<pending, ackChan, handler, reports>>

(* main receives SIGINT or SIGTERM and cancels the context.                *)
Shutdown ==
  /\ ~ctxDone
  /\ ctxDone' = TRUE
  /\ UNCHANGED linkVars
  /\ UNCHANGED
       <<enq, deq, pc, attempt, elapsed, age, latency, status, row, sends>>
  /\ UNCHANGED <<pending, ackChan, handler, reports>>

(* Dispatch, called by the optimizer: it blocks while the channel is full. *)
Dispatch ==
  /\ enq < MaxCommands
  /\ enq - deq < QueueCap
  /\ enq' = enq + 1
  /\ UNCHANGED linkVars
  /\ UNCHANGED
       <<deq, pc, attempt, elapsed, age, latency, status, row, sends, ctxDone>>
  /\ UNCHANGED <<pending, ackChan, handler, reports>>

-----------------------------------------------------------------------------
(* The dispatcher goroutine.                                               *)

(* A command is received and registered under its key.  When the context   *)
(* is done the select may still choose this branch.                        *)
TakeCommand ==
  /\ pc = "idle"
  /\ deq < enq
  /\ deq' = deq + 1
  /\ pending' = [pending EXCEPT ![TargetOf[deq + 1]] = deq + 1]
  /\ ackChan' = "empty"
  /\ pc' = "insert"
  /\ UNCHANGED linkVars
  /\ UNCHANGED <<enq, attempt, elapsed, age, latency, status, row, sends>>
  /\ UNCHANGED <<ctxDone, handler, reports>>

StopLoop ==
  /\ pc = "idle"
  /\ ctxDone
  /\ pc' = "stopped"
  /\ UNCHANGED linkVars
  /\ UNCHANGED <<enq, deq, attempt, elapsed, age, latency, status>>
  /\ UNCHANGED <<row, sends, ctxDone>>
  /\ UNCHANGED <<pending, ackChan, handler, reports>>

(* The INSERT of the "sent" row; its error is discarded, and with the      *)
(* context done it always fails.                                           *)
InsertRow ==
  /\ pc = "insert"
  /\ \/ /\ ~ctxDone
        /\ row' = [row EXCEPT ![deq] = "sent"]
     \/ /\ ctxDone \/ DbFails
        /\ UNCHANGED row
  /\ pc' = "publish"
  /\ elapsed' = 0
  /\ UNCHANGED linkVars
  /\ UNCHANGED <<enq, deq, attempt, age, latency, status, sends, ctxDone>>
  /\ UNCHANGED <<pending, ackChan, handler, reports>>

(* Variant of NextAttempt: the loop stops at attempt < maxRetries.         *)
NextAttemptTooFew ==
  \/ /\ attempt + 1 < MaxRetries
     /\ attempt' = attempt + 1
     /\ pc' = "delay"
     /\ elapsed' = 0
  \/ /\ attempt + 1 >= MaxRetries
     /\ pc' = "giveup"
     /\ UNCHANGED <<attempt, elapsed>>

(* The end of one turn of the retry loop.                                  *)
NextAttempt ==
  \/ /\ attempt < MaxRetries
     /\ attempt' = attempt + 1
     /\ pc' = "delay"
     /\ elapsed' = 0
  \/ /\ attempt = MaxRetries
     /\ pc' = "giveup"
     /\ UNCHANGED <<attempt, elapsed>>

(* publishCommand returns nil: token.Wait has seen the broker's PUBACK.    *)
Publish ==
  /\ pc = "publish"
  /\ conn = "up"
  /\ Len(cmdNet) < NetCap
  /\ cmdNet' = Append(cmdNet, deq)
  /\ sends' = [sends EXCEPT ![deq] = @ + 1]
  /\ status' = [status EXCEPT ![deq] = "sent"]
  /\ pc' = "await"
  /\ elapsed' = 0
  /\ UNCHANGED
       <<conn, subscribed, fbNet, stored, setting, succeeded, resent,
         troubles>>
  /\ UNCHANGED <<enq, deq, attempt, age, latency, row, ctxDone>>
  /\ UNCHANGED <<pending, ackChan, handler, reports>>

(* publishCommand returns an error: paho could not hand the message to its *)
(* writer in time.  The message stays in paho's store.                     *)
PublishFails ==
  /\ pc = "publish"
  /\ conn = "up"
  /\ stored' = stored \cup {deq}
  /\ sends' = [sends EXCEPT ![deq] = @ + 1]
  /\ NextAttempt
  /\ UNCHANGED
       <<conn, subscribed, cmdNet, fbNet, setting, succeeded, resent,
         troubles>>
  /\ UNCHANGED <<enq, deq, age, latency, status, row, ctxDone>>
  /\ UNCHANGED <<pending, ackChan, handler, reports>>

(* The broker has the message but the connection goes before its PUBACK:   *)
(* paho publishes it again when the connection is back.                    *)
PubackLost ==
  /\ pc = "publish"
  /\ conn = "up"
  /\ troubles < MaxTroubles
  /\ Len(cmdNet) < NetCap
  /\ cmdNet' = Append(cmdNet, deq)
  /\ conn' = "down"
  /\ subscribed' = FALSE
  /\ troubles' = troubles + 1
  /\ UNCHANGED <<fbNet, stored, setting, succeeded, resent>>
  /\ UNCHANGED loopVars
  /\ UNCHANGED <<pending, ackChan, handler, reports>>

(* UPDATE plc_commands ... ORDER BY created_at DESC LIMIT 1.  PostgreSQL   *)
(* has no such clauses in an UPDATE and rejects the statement; the error   *)
(* is discarded, so whatever the new status, the table stays as it is.     *)
UpdatedRow(newStatus) == row

(* Variant of ReceiveAck: the return is missing, the loop goes on.         *)
ReceiveAckNoReturn ==
  /\ pc = "await"
  /\ ackChan = "ack"
  /\ ackChan' = "empty"
  /\ status' = [status EXCEPT ![deq] = "acked"]
  /\ row' = UpdatedRow("acked")
  /\ NextAttempt
  /\ UNCHANGED linkVars
  /\ UNCHANGED <<enq, deq, age, latency, sends, ctxDone>>
  /\ UNCHANGED <<pending, handler, reports>>

(* The select after a publication: an acknowledgement ...                  *)
ReceiveAck ==
  /\ pc = "await"
  /\ ackChan = "ack"
  /\ ackChan' = "empty"
  /\ status' = [status EXCEPT ![deq] = "acked"]
  /\ row' = UpdatedRow("acked")
  /\ pc' = "finish"
  /\ UNCHANGED linkVars
  /\ UNCHANGED <<enq, deq, attempt, elapsed, age, latency, sends, ctxDone>>
  /\ UNCHANGED <<pending, handler, reports>>

(* ... a negative one, which uses up the attempt ...                       *)
ReceiveNack ==
  /\ pc = "await"
  /\ ackChan = "nack"
  /\ ackChan' = "empty"
  /\ NextAttempt
  /\ UNCHANGED linkVars
  /\ UNCHANGED <<enq, deq, age, latency, status, row, sends, ctxDone>>
  /\ UNCHANGED <<pending, handler, reports>>

(* Variant of AckTimesOut: no timer while the connection is down.          *)
AckTimesOutConnected ==
  /\ pc = "await"
  /\ conn = "up"
  /\ subscribed
  /\ elapsed = AckTimeout
  /\ status' = [status EXCEPT ![deq] = "timeout"]
  /\ NextAttempt
  /\ UNCHANGED linkVars
  /\ UNCHANGED <<enq, deq, age, latency, row, sends, ctxDone>>
  /\ UNCHANGED <<pending, ackChan, handler, reports>>

(* ... or the timer.  If it fires as the feedback comes in, either wins.   *)
AckTimesOut ==
  /\ pc = "await"
  /\ elapsed = AckTimeout
  /\ status' = [status EXCEPT ![deq] = "timeout"]
  /\ NextAttempt
  /\ UNCHANGED linkVars
  /\ UNCHANGED <<enq, deq, age, latency, row, sends, ctxDone>>
  /\ UNCHANGED <<pending, ackChan, handler, reports>>

RetryDelayOver ==
  /\ pc = "delay"
  /\ elapsed = RetryDelay
  /\ pc' = "publish"
  /\ elapsed' = 0
  /\ UNCHANGED linkVars
  /\ UNCHANGED <<enq, deq, attempt, age, latency, status, row, sends, ctxDone>>
  /\ UNCHANGED <<pending, ackChan, handler, reports>>

(* Both waits also return when the context is done.                        *)
WaitCancelled ==
  /\ pc \in {"delay", "await"}
  /\ ctxDone
  /\ pc' = "finish"
  /\ UNCHANGED linkVars
  /\ UNCHANGED <<enq, deq, attempt, elapsed, age, latency, status>>
  /\ UNCHANGED <<row, sends, ctxDone>>
  /\ UNCHANGED <<pending, ackChan, handler, reports>>

GiveUp ==
  /\ pc = "giveup"
  /\ row' = UpdatedRow("timeout")
  /\ pc' = "finish"
  /\ UNCHANGED linkVars
  /\ UNCHANGED
       <<enq, deq, attempt, elapsed, age, latency, status, sends, ctxDone>>
  /\ UNCHANGED <<pending, ackChan, handler, reports>>

(* Variant of Finish: the deferred function is missing.                    *)
FinishKeepsKey ==
  /\ pc = "finish"
  /\ pc' = "idle"
  /\ attempt' = 0 /\ elapsed' = 0 /\ age' = 0 /\ latency' = 0
  /\ UNCHANGED linkVars
  /\ UNCHANGED <<enq, deq, status, row, sends, ctxDone>>
  /\ UNCHANGED <<pending, ackChan, handler, reports>>

(* dispatchWithAck returns: the deferred function deletes the key, and the *)
(* locals are gone.                                                        *)
Finish ==
  /\ pc = "finish"
  /\ pending' = [pending EXCEPT ![TargetOf[deq]] = NoCmd]
  /\ pc' = "idle"
  /\ attempt' = 0 /\ elapsed' = 0 /\ age' = 0 /\ latency' = 0
  /\ UNCHANGED linkVars
  /\ UNCHANGED <<enq, deq, status, row, sends, ctxDone>>
  /\ UNCHANGED <<ackChan, handler, reports>>

-----------------------------------------------------------------------------
(* The subscription's callback.  It knows the device of a feedback, not    *)
(* the command the feedback answers.  paho runs it for one message after   *)
(* the other.                                                              *)

(* Variant of OnFeedback: the key is not compared with the topic.          *)
OnFeedbackAnyKey ==
  /\ conn = "up" /\ subscribed
  /\ handler = Idle
  /\ fbNet # <<>>
  /\ LET fb == Head(fbNet) IN
     handler' = [at |-> "send", cmd |-> fb.cmd, success |-> fb.success,
                 ptr |-> IF pc \in Busy THEN deq ELSE NoCmd]
  /\ fbNet' = Tail(fbNet)
  /\ UNCHANGED
       <<conn, subscribed, cmdNet, stored, setting, succeeded, resent,
         troubles>>
  /\ UNCHANGED loopVars
  /\ UNCHANGED <<pending, ackChan, reports>>

(* The pending entry of the key is read under the lock ...                 *)
OnFeedback ==
  /\ conn = "up" /\ subscribed
  /\ handler = Idle
  /\ fbNet # <<>>
  /\ LET fb == Head(fbNet) IN
     handler' = [at |-> "send", cmd |-> fb.cmd, success |-> fb.success,
                 ptr |-> pending[TargetOf[fb.cmd]]]
  /\ fbNet' = Tail(fbNet)
  /\ UNCHANGED
       <<conn, subscribed, cmdNet, stored, setting, succeeded, resent,
         troubles>>
  /\ UNCHANGED loopVars
  /\ UNCHANGED <<pending, ackChan, reports>>

(* Variant of SendAck: every feedback counts as an acknowledgement.        *)
SendAckAlways ==
  /\ handler.at = "send"
  /\ ackChan' = IF handler.ptr = deq /\ pc \in Busy /\ ackChan = "empty"
                THEN "ack" ELSE ackChan
  /\ handler' = [handler EXCEPT !.at = "show", !.ptr = NoCmd]
  /\ UNCHANGED linkVars
  /\ UNCHANGED loopVars
  /\ UNCHANGED <<pending, reports>>

(* ... and used after it is released: a send that never blocks, so that    *)
(* the feedback is lost when the channel already holds one.  The channel   *)
(* of a command that is no longer in hand has no reader.                   *)
SendAck ==
  /\ handler.at = "send"
  /\ ackChan' = IF handler.ptr = deq /\ pc \in Busy /\ ackChan = "empty"
                THEN IF handler.success THEN "ack" ELSE "nack"
                ELSE ackChan
  /\ handler' = [handler EXCEPT !.at = "show", !.ptr = NoCmd]
  /\ UNCHANGED linkVars
  /\ UNCHANGED loopVars
  /\ UNCHANGED <<pending, reports>>

(* Variant of ShowFeedback: the branch for a failure is missing.           *)
ShowFeedbackAcked ==
  /\ handler.at = "show"
  /\ reports' = [reports EXCEPT ![TargetOf[handler.cmd]] = "acked"]
  /\ handler' = Idle
  /\ UNCHANGED linkVars
  /\ UNCHANGED loopVars
  /\ UNCHANGED <<pending, ackChan>>

(* Whether or not anything waits for it, the feedback is then broadcast as *)
(* plc_feedback, which names the device and "acked" or "failed".  The      *)
(* dispatcher may have taken the acknowledgement, and gone on, before.     *)
ShowFeedback ==
  /\ handler.at = "show"
  /\ reports' = [reports EXCEPT ![TargetOf[handler.cmd]] =
                   IF handler.success THEN "acked" ELSE "failed"]
  /\ handler' = Idle
  /\ UNCHANGED linkVars
  /\ UNCHANGED loopVars
  /\ UNCHANGED <<pending, ackChan>>

-----------------------------------------------------------------------------
(* The cleanup goroutine, and time.                                        *)

(* Variant of StaleAge: one acknowledgement timeout is forgotten.          *)
StaleAgeTooShort == AckTimeout * MaxRetries + RetryDelay * MaxRetries

(* The age beyond which cleanupPending takes an entry for a stale one.     *)
StaleAge == AckTimeout * (MaxRetries + 1) + RetryDelay * MaxRetries

(* An entry is only ever that of the command in hand, whose age is age.    *)
CleanupPending ==
  /\ pc \notin {"off", "stopped"}
  /\ age > StaleAge
  /\ \E t \in Targets : pending[t] # NoCmd
  /\ pending' = [t \in Targets |-> NoCmd]
  /\ UNCHANGED linkVars
  /\ UNCHANGED loopVars
  /\ UNCHANGED <<ackChan, handler, reports>>

(* One tick while the dispatcher is blocked: on the database, on the       *)
(* broker, on a timer, or on an acknowledgement that is not there yet.     *)
Tick ==
  /\ \/ /\ pc \in {"insert", "publish"} /\ latency < MaxLatency
        /\ latency' = latency + 1
        /\ UNCHANGED elapsed
     \/ /\ \/ pc = "delay" /\ elapsed < RetryDelay
           \/ pc = "await" /\ elapsed < AckTimeout /\ ackChan = "empty"
        /\ elapsed' = elapsed + 1
        /\ UNCHANGED latency
  /\ age' = age + 1
  /\ UNCHANGED linkVars
  /\ UNCHANGED <<enq, deq, pc, attempt, status, row, sends, ctxDone>>
  /\ UNCHANGED <<pending, ackChan, handler, reports>>

-----------------------------------------------------------------------------
Link == LinkNext /\ UNCHANGED dispVars

(* The process exits once the loop has stopped.                            *)
Terminated == pc = "stopped" /\ ctxDone /\ UNCHANGED vars

Next ==
  \/ Start \/ StartFails \/ Shutdown \/ Dispatch
  \/ TakeCommand \/ StopLoop \/ InsertRow
  \/ Publish \/ PublishFails \/ PubackLost
  \/ ReceiveAck \/ ReceiveNack \/ AckTimesOut \/ RetryDelayOver
  \/ WaitCancelled \/ GiveUp \/ Finish
  \/ OnFeedback \/ SendAck \/ ShowFeedback \/ CleanupPending \/ Tick
  \/ Link \/ Terminated

Spec == Init /\ [][Next]_vars

(* What the dispatcher goroutine does when nothing goes wrong.             *)
LoopRuns ==
  \/ Start \/ StartFails \/ TakeCommand \/ InsertRow \/ Publish
  \/ ReceiveAck \/ ReceiveNack \/ AckTimesOut \/ RetryDelayOver
  \/ WaitCancelled \/ GiveUp \/ Finish

(* Fairness: the goroutines, paho, the broker and the PLC keep running and *)
(* time passes.  Nothing obliges the server to shut down, the optimizer to *)
(* dispatch, a publish to fail, the PLC to crash or the link to go down.   *)
Fairness ==
  /\ WF_vars(LoopRuns)
  /\ WF_vars(OnFeedback \/ SendAck \/ ShowFeedback)
  /\ WF_vars(Tick)
  /\ SF_vars(PlcExecute /\ UNCHANGED dispVars)
  /\ WF_vars(BrokerDropsFeedback /\ UNCHANGED dispVars)
  /\ WF_vars((ResendStored \/ Reconnect) /\ UNCHANGED dispVars)

FairSpec == Spec /\ Fairness

-----------------------------------------------------------------------------
(* Properties.                                                             *)

(* dispatchWithAck has returned for command c.                             *)
Finished(c) == c < deq \/ (c = deq /\ pc \notin Busy)

(* The pending map never holds anything but the command in hand, under its *)
(* own key: an entry a finished command left behind would receive the      *)
(* feedback of the next command for the device.                            *)
PendingIsCurrent ==
  \A t \in Targets :
    pending[t] # NoCmd => pending[t] = deq /\ t = TargetOf[deq] /\ pc \in Busy

(* The PLC has reported a success for a command to the same device that    *)
(* was dispatched no later than c.                                         *)
Backed(c) == \E d \in succeeded : d <= c /\ TargetOf[d] = TargetOf[c]

(* What "acked" is worth in general: it may be another command's success,  *)
(* but never that of another device or of a later command.                 *)
AckFromTarget == \A c \in Cmd : status[c] = "acked" => Backed(c)

(* What ACK tracking is meant to give: a command shown as "acked" is one   *)
(* the PLC executed.  It is so when no two commands address one device.    *)
AckMeansExecuted ==
  \A c \in Cmd : status[c] = "acked" => c \in succeeded

(* The same for the commands of a server that is not shutting down.        *)
AckMeansExecutedUntilShutdown == ctxDone \/ AckMeansExecuted

(* A command is published at most 1 + maxRetries times, and the dispatcher *)
(* gives a command up only when it has used every one of these attempts,   *)
(* unless the server is shutting down.                                     *)
RetryBudget ==
  \A c \in Cmd :
    /\ sends[c] <= MaxRetries + 1
    /\ Finished(c) /\ ~ctxDone /\ status[c] # "acked"
         => sends[c] = MaxRetries + 1

(* Once plc_command_status has shown a command as acknowledged, the        *)
(* command is never published again nor shown there as anything else.      *)
(* (plc_feedback may still report the device as "failed": see README.)     *)
AckIsFinal ==
  [][\A c \in Cmd : status[c] = "acked" =>
       status'[c] = "acked" /\ sends'[c] = sends[c]]_vars

(* What "ACK tracking" and a cleanup of "stale" entries suggest: as long   *)
(* as an acknowledgement is awaited, the callback can find the command it  *)
(* is for.  It is not so when statements and publications take time.       *)
AwaitAlwaysTracked == pc = "await" => pending[TargetOf[deq]] = deq

(* How many ticks of the threshold of cleanupPending are left over at      *)
(* "await", if every wait before took its full time.                       *)
Turns(n) == n * (AckTimeout + RetryDelay)
Slack == Turns(MaxRetries - attempt) + (AckTimeout - elapsed)

(* What the threshold does ensure: the command whose acknowledgement is    *)
(* awaited is registered, unless its INSERT and its publications have      *)
(* together taken longer than what the retries still to come would take.   *)
AwaitTracked ==
  pc = "await" /\ latency <= Slack => pending[TargetOf[deq]] = deq

(* A device goes back from a command to one that was dispatched earlier    *)
(* only by restarting or because paho sent the earlier one again after a   *)
(* lost connection: neither the retries nor the commands delivered again   *)
(* to a PLC that died reorder anything.                                    *)
SettingInOrder ==
  [][\A t \in Targets :
       setting'[t] # NoCmd /\ setting'[t] < setting[t]
         => setting'[t] \in resent]_vars

(* Every command put into CommandCh is done with in the end: again and     *)
(* again there is none left, or the dispatcher has stopped.                *)
EveryCommandFinishes == []<>(pc = "stopped" \/ Finished(enq))

(* The dispatcher as those see it who watch its two kinds of broadcasts:   *)
(* plc_command_status shows one command at a time, in order, with outcomes *)
(* that are not taken back; what it shows as acknowledged, and what        *)
(* plc_feedback reports of a device, stands for what a PLC reported.       *)
Ledger == INSTANCE CommandLedger
            WITH N <- MaxCommands, Devices <- Targets, DeviceOf <- TargetOf,
                 begun <- deq, executed <- succeeded, shown <- status

ImplementsLedger == Ledger!LedgerSpec

-----------------------------------------------------------------------------
(* The inductive invariant behind AckFromTarget.                           *)

(* Messages are about commands that have been taken, and a success on its  *)
(* way to the server is one the PLC reported.                              *)
InFlight ==
  /\ \A i \in DOMAIN cmdNet : cmdNet[i] <= deq
  /\ \A c \in stored : c <= deq
  /\ \A i \in DOMAIN fbNet :
       fbNet[i].cmd <= deq /\ (fbNet[i].success => fbNet[i].cmd \in succeeded)

(* The entry the callback holds is that of the feedback's device, and of a *)
(* command no earlier than the one the feedback answers.                   *)
InHand ==
  /\ handler.cmd <= deq
  /\ handler.success => handler.cmd \in succeeded
  /\ handler.ptr # NoCmd =>
       /\ handler.cmd \in Cmd
       /\ handler.cmd <= handler.ptr
       /\ TargetOf[handler.cmd] = TargetOf[handler.ptr]

(* An acknowledgement in the channel of the command in hand is backed.     *)
InChannel == pc \in Busy /\ ackChan = "ack" => Backed(deq)

AckInv ==
  /\ TypeOK /\ PendingIsCurrent
  /\ InFlight /\ InHand /\ InChannel
  /\ AckFromTarget

-----------------------------------------------------------------------------
(* The inductive invariant behind RetryBudget, AckIsFinal and the ledger.  *)

(* The locations of the retry loop.                                        *)
Trying == Busy \ {"finish"}

(* The calls of publishCommand follow the loop's counter.                  *)
Counted ==
  /\ pc \in {"insert", "off", "idle", "stopped"} => attempt = 0
  /\ pc = "giveup" => attempt = MaxRetries
  /\ pc \in {"insert", "delay", "publish"} => sends[deq] = attempt
  /\ pc \in {"await", "giveup"} => sends[deq] = attempt + 1

(* Nothing is sent or shown for a command that waits in the channel.       *)
Untouched == \A c \in Cmd : c > deq => sends[c] = 0 /\ status[c] = "none"

(* The loop is left by an acknowledgement, by the shutdown or by using all *)
(* the attempts, and only the first of these shows "acked".  While one is  *)
(* awaited the command is shown as "sent".                                 *)
Settled ==
  /\ pc \in Trying => status[deq] # "acked"
  /\ pc = "await" => status[deq] = "sent"
  /\ \A c \in Cmd : c < deq \/ (c = deq /\ pc \notin Trying) =>
       /\ sends[c] <= MaxRetries + 1
       /\ ctxDone \/ status[c] = "acked" \/ sends[c] = MaxRetries + 1

LoopInv == TypeOK /\ Counted /\ Untouched /\ Settled

(* The inductive invariant behind AwaitTracked: how old a command can be   *)
(* at each location.                                                       *)
Aged ==
  /\ pc \notin Busy => age = 0 /\ latency = 0 /\ elapsed = 0
  /\ pc = "insert" => age <= latency
  /\ pc = "publish" => age <= latency + Turns(attempt)
  /\ pc = "await" => age <= latency + Turns(attempt) + elapsed
  /\ pc = "await" => elapsed <= AckTimeout
  /\ pc = "delay" => age + RetryDelay <= latency + Turns(attempt) + elapsed
  /\ pc = "delay" => elapsed <= RetryDelay

(* Only the cleanup takes the entry of the command in hand away.           *)
Registered ==
  pc \in Busy /\ age <= StaleAge => pending[TargetOf[deq]] = deq

-----------------------------------------------------------------------------
(* The inductive invariant behind SettingInOrder: what paho has not sent   *)
(* again is in the broker's queue behind everything dispatched before it,  *)
(* and no device is ahead of it.                                           *)
QueueInOrder ==
  /\ \A j \in DOMAIN cmdNet : cmdNet[j] \notin resent =>
       /\ \A i \in DOMAIN cmdNet : i <= j => cmdNet[i] <= cmdNet[j]
       /\ \A t \in Targets : setting[t] <= cmdNet[j]
  /\ \A t \in Targets : setting[t] <= deq
=============================================================================
