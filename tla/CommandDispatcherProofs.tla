---------------------- MODULE CommandDispatcherProofs ----------------------
(***************************************************************************)
(* Proofs about CommandDispatcher, for every value of its constants.       *)
(***************************************************************************)
EXTENDS CommandDispatcher, TLAPS

USE LinkAssumption, DispatcherAssumption

-----------------------------------------------------------------------------
(* Type correctness.                                                       *)

(* A step of the link keeps the types of the link's variables.             *)
LEMMA LinkKeepsTypes ==
  ASSUME LinkTypeOK, LinkNext PROVE LinkTypeOK'
<1> USE DEF LinkTypeOK
<1>1. CASE PlcExecute
  <2>1. Head(cmdNet) \in Cmd /\ Tail(cmdNet) \in Seq(Cmd)
    BY <1>1 DEF PlcExecute
  <2>2. TargetOf[Head(cmdNet)] \in Targets
    BY <2>1
  <2>3. PICK success \in BOOLEAN :
          /\ setting' = [setting EXCEPT ![TargetOf[Head(cmdNet)]] = Head(cmdNet)]
          /\ succeeded' = IF success THEN succeeded \cup {Head(cmdNet)}
                          ELSE succeeded
          /\ fbNet' = Append(fbNet, [cmd |-> Head(cmdNet), success |-> success])
    BY <1>1 DEF PlcExecute
  <2>4. [cmd |-> Head(cmdNet), success |-> success] \in Feedback
    BY <2>1 DEF Feedback
  <2>5. fbNet' \in Seq(Feedback)
    BY <2>3, <2>4
  <2> QED BY <1>1, <2>1, <2>2, <2>3, <2>5 DEF PlcExecute
<1>2. CASE PlcCrash
  <2>1. troubles' \in 0..MaxTroubles
    BY <1>2 DEF PlcCrash
  <2>2. CASE UNCHANGED <<fbNet, succeeded>>
    BY <1>2, <2>1, <2>2 DEF PlcCrash
  <2>3. ASSUME cmdNet # <<>>,
               NEW success \in BOOLEAN,
               succeeded' = IF success THEN succeeded \cup {Head(cmdNet)}
                            ELSE succeeded,
               fbNet' = Append(fbNet, [cmd |-> Head(cmdNet), success |-> success])
        PROVE  LinkTypeOK'
    <3>1. Head(cmdNet) \in Cmd
      BY <2>3
    <3>2. [cmd |-> Head(cmdNet), success |-> success] \in Feedback
      BY <3>1 DEF Feedback
    <3>3. fbNet' \in Seq(Feedback)
      BY <2>3, <3>2
    <3> QED BY <1>2, <2>1, <2>3, <3>1, <3>3 DEF PlcCrash
  <2> QED BY <1>2, <2>2, <2>3 DEF PlcCrash
<1>3. CASE BrokerDropsFeedback
  BY <1>3 DEF BrokerDropsFeedback
<1>4. CASE ConnectionLost
  <2>1. troubles' \in 0..MaxTroubles
    BY <1>4 DEF ConnectionLost
  <2>2. conn' \in {"connecting", "up", "down"} /\ subscribed' \in BOOLEAN
    BY <1>4 DEF ConnectionLost
  <2> QED BY <1>4, <2>1, <2>2 DEF ConnectionLost
<1>5. CASE ResendStored
  <2>1. PICK c \in stored : /\ stored' = stored \ {c}
                            /\ cmdNet' = Append(cmdNet, c)
                            /\ resent' = resent \cup {c}
    BY <1>5 DEF ResendStored
  <2>2. c \in Cmd
    OBVIOUS
  <2>3. cmdNet' \in Seq(Cmd)
    BY <2>1, <2>2
  <2>4. stored' \in SUBSET Cmd /\ resent' \in SUBSET Cmd
    BY <2>1, <2>2
  <2> QED BY <1>5, <2>3, <2>4 DEF ResendStored
<1>6. CASE Reconnect
  BY <1>6 DEF Reconnect
<1> QED
  BY <1>1, <1>2, <1>3, <1>4, <1>5, <1>6 DEF LinkNext

(* Init gives every variable the type TypeOK asks for.                     *)
LEMMA TypeInit ==
  ASSUME Init PROVE TypeOK
<1>1. LinkTypeOK
  <2>1. cmdNet \in Seq(Cmd) /\ fbNet \in Seq(Feedback)
    BY DEF Init, LinkInit
  <2>2. troubles \in 0..MaxTroubles
    BY DEF Init, LinkInit
  <2>3. conn \in {"connecting", "up", "down"} /\ subscribed \in BOOLEAN
    BY DEF Init, LinkInit
  <2>4. stored \in SUBSET Cmd /\ succeeded \in SUBSET Cmd /\ resent \in SUBSET Cmd
    BY DEF Init, LinkInit
  <2>5. setting \in [Targets -> Cmd \cup {NoCmd}]
    BY DEF Init, LinkInit
  <2> QED BY <2>1, <2>2, <2>3, <2>4, <2>5 DEF LinkTypeOK
<1>2. enq \in Cmd \cup {NoCmd} /\ deq \in 0..enq /\ enq - deq <= QueueCap
  BY DEF Init, NoCmd
<1>3. attempt \in 0..MaxRetries
  BY DEF Init
<1> QED BY <1>1, <1>2, <1>3 DEF Init, TypeOK, Idle, Busy

(* Every step keeps the types.                                             *)
LEMMA TypeStep ==
  ASSUME TypeOK, [Next]_vars PROVE TypeOK'
<1> USE DEF TypeOK, Busy, loopVars
<1>1. CASE Link
  BY <1>1, LinkKeepsTypes DEF Link, dispVars
<1>2. UNCHANGED linkVars => LinkTypeOK'
  BY DEF linkVars, LinkTypeOK
<1>3. CASE UNCHANGED vars \/ Terminated
  BY <1>2, <1>3 DEF Terminated, vars, dispVars
<1>4. CASE StartFails \/ Shutdown \/ StopLoop
  BY <1>2, <1>4 DEF StartFails, Shutdown, StopLoop
<1>5. CASE Dispatch
  BY <1>2, <1>5 DEF Dispatch, Cmd, NoCmd
<1>6. CASE TakeCommand
  BY <1>2, <1>6 DEF TakeCommand, Cmd, NoCmd
<1>7. CASE InsertRow
  BY <1>2, <1>7 DEF InsertRow
<1>8. NextAttempt => /\ attempt' \in 0..MaxRetries /\ elapsed' \in Nat
                     /\ pc' \in {"delay", "giveup"}
  BY DEF NextAttempt
<1>9. CASE ReceiveAck
  BY <1>2, <1>9 DEF ReceiveAck, UpdatedRow
<1>10. CASE ReceiveNack
  <2>1. UNCHANGED linkVars /\ NextAttempt /\ ackChan' = "empty" /\ pc = "await"
        /\ UNCHANGED <<enq, deq, age, latency, status, row, sends, ctxDone>>
        /\ UNCHANGED <<pending, handler, reports>>
    BY <1>10 DEF ReceiveNack
  <2> QED BY <1>2, <1>8, <2>1
<1>11. CASE AckTimesOut
  <2>1. UNCHANGED linkVars /\ NextAttempt /\ pc = "await"
        /\ status' = [status EXCEPT ![deq] = "timeout"]
        /\ UNCHANGED <<enq, deq, age, latency, row, sends, ctxDone>>
        /\ UNCHANGED <<pending, ackChan, handler, reports>>
    BY <1>11 DEF AckTimesOut
  <2> QED BY <1>2, <1>8, <2>1
<1>12. CASE RetryDelayOver
  BY <1>2, <1>12 DEF RetryDelayOver
<1>13. CASE WaitCancelled
  BY <1>2, <1>13 DEF WaitCancelled
<1>14. CASE GiveUp
  BY <1>2, <1>14 DEF GiveUp, UpdatedRow
<1>15. CASE Finish
  BY <1>2, <1>15 DEF Finish, NoCmd
<1>16. CASE SendAck
  <2>1. /\ handler.at = "send"
        /\ handler' = [handler EXCEPT !.at = "show", !.ptr = NoCmd]
        /\ UNCHANGED linkVars /\ UNCHANGED loopVars /\ UNCHANGED <<pending, reports>>
        /\ ackChan' \in {"empty", "ack", "nack"}
    BY <1>16 DEF SendAck
  <2>2. handler \in [at : {"send", "show"}, cmd : Cmd, success : BOOLEAN,
                     ptr : Cmd \cup {NoCmd}]
    BY <2>1 DEF Idle
  <2>3. handler' \in [at : {"send", "show"}, cmd : Cmd, success : BOOLEAN,
                      ptr : Cmd \cup {NoCmd}]
    BY <2>1, <2>2
  <2> QED BY <1>2, <2>1, <2>3
<1>17. CASE ShowFeedback
  <2>1. reports' \in [Targets -> {"none", "acked", "failed"}]
    BY <1>17 DEF ShowFeedback
  <2> QED BY <1>2, <1>17, <2>1 DEF ShowFeedback
<1>18. CASE CleanupPending
  BY <1>2, <1>18 DEF CleanupPending, NoCmd
<1>19. CASE Tick
  BY <1>2, <1>19 DEF Tick
<1> USE DEF LinkTypeOK
<1>20. CASE Start
  BY <1>20 DEF Start
<1>21. CASE Publish
  <2>1. cmdNet' \in Seq(Cmd) /\ sends' \in [Cmd -> Nat]
    BY <1>21 DEF Publish
  <2>2. LinkTypeOK'
    BY <1>21, <2>1 DEF Publish
  <2> QED BY <1>21, <2>1, <2>2 DEF Publish
<1>22. CASE PublishFails
  <2>1. LinkTypeOK' /\ sends' \in [Cmd -> Nat]
    BY <1>22 DEF PublishFails
  <2> QED BY <1>8, <1>22, <2>1 DEF PublishFails
<1>23. CASE PubackLost
  <2>1. cmdNet' \in Seq(Cmd) /\ troubles' \in 0..MaxTroubles
    BY <1>23 DEF PubackLost
  <2>2. LinkTypeOK'
    BY <1>23, <2>1 DEF PubackLost
  <2> QED BY <1>23, <2>1, <2>2 DEF PubackLost
<1>24. CASE OnFeedback
  <2>1. Head(fbNet) \in Feedback /\ Tail(fbNet) \in Seq(Feedback)
    BY <1>24 DEF OnFeedback
  <2>2. LinkTypeOK'
    BY <1>24, <2>1 DEF OnFeedback
  <2> QED BY <1>24, <2>1, <2>2 DEF OnFeedback, Feedback
<1> QED
  BY <1>1, <1>3, <1>4, <1>5, <1>6, <1>7, <1>9, <1>10, <1>11, <1>12, <1>13,
     <1>14, <1>15, <1>16, <1>17, <1>18, <1>19, <1>20, <1>21, <1>22, <1>23,
     <1>24 DEF Next

(* Every variable keeps the type TypeOK gives it.                          *)
THEOREM TypeCorrect == Spec => []TypeOK
<1>1. Init => TypeOK
  BY TypeInit
<1>2. TypeOK /\ [Next]_vars => TypeOK'
  BY TypeStep
<1> QED BY <1>1, <1>2, PTL DEF Spec

-----------------------------------------------------------------------------
(* The pending map.                                                        *)

(* Which steps write pending, change the command in hand or put it down.   *)
LEMMA PendingFrame ==
  ASSUME TypeOK, [Next]_vars
  PROVE  \/ TakeCommand \/ Finish \/ CleanupPending
         \/ UNCHANGED <<pending, deq>> /\ (pc \in Busy => pc' \in Busy)
<1> USE DEF loopVars, Busy
<1>1. CASE Link
  BY <1>1 DEF Link, dispVars
<1>2. CASE UNCHANGED vars \/ Terminated
  BY <1>2 DEF vars, dispVars, Terminated
<1>3. CASE Start \/ StartFails \/ Shutdown \/ Dispatch \/ StopLoop
  BY <1>3 DEF Start, StartFails, Shutdown, Dispatch, StopLoop
<1>4. CASE InsertRow \/ Publish \/ PublishFails \/ PubackLost
  BY <1>4 DEF InsertRow, Publish, PublishFails, PubackLost, NextAttempt
<1>5. CASE ReceiveAck \/ ReceiveNack \/ AckTimesOut \/ RetryDelayOver
  BY <1>5 DEF ReceiveAck, ReceiveNack, AckTimesOut, RetryDelayOver, NextAttempt
<1>6. CASE WaitCancelled \/ GiveUp \/ OnFeedback \/ SendAck \/ ShowFeedback \/ Tick
  BY <1>6 DEF WaitCancelled, GiveUp, OnFeedback, SendAck, ShowFeedback, Tick
<1> QED
  BY <1>1, <1>2, <1>3, <1>4, <1>5, <1>6 DEF Next

(* The pending map holds nothing but the command in hand under its key.    *)
LEMMA PendingStep ==
  ASSUME TypeOK, PendingIsCurrent, [Next]_vars PROVE PendingIsCurrent'
<1> USE DEF TypeOK, PendingIsCurrent, Busy
<1>1. CASE TakeCommand
  BY <1>1 DEF TakeCommand
<1>2. CASE Finish
  BY <1>2 DEF Finish
<1>3. CASE CleanupPending
  BY <1>3 DEF CleanupPending, loopVars
<1>4. CASE UNCHANGED <<pending, deq>> /\ (pc \in Busy => pc' \in Busy)
  BY <1>4
<1> QED BY <1>1, <1>2, <1>3, <1>4, PendingFrame

(* The theorem of PendingStep, for the specification.                      *)
THEOREM PendingCurrent == Spec => []PendingIsCurrent
<1>1. Init => PendingIsCurrent
  BY DEF Init, PendingIsCurrent
<1>2. TypeOK /\ PendingIsCurrent /\ [Next]_vars => PendingIsCurrent'
  BY PendingStep
<1> QED
  BY <1>1, <1>2, TypeCorrect, PTL DEF Spec

-----------------------------------------------------------------------------
(* What an acknowledgement is worth.                                       *)

(* The elements of a queue from which the first one is taken.              *)
LEMMA TailElements ==
  ASSUME NEW S, NEW q \in Seq(S), q # <<>>
  PROVE  /\ 1 \in DOMAIN q /\ Head(q) = q[1]
         /\ \A i \in DOMAIN Tail(q) :
              i + 1 \in DOMAIN q /\ Tail(q)[i] = q[i + 1]
OBVIOUS

(* The elements of a queue to which one is added.                          *)
LEMMA AppendElements ==
  ASSUME NEW S, NEW q \in Seq(S), NEW e \in S
  PROVE  \A i \in DOMAIN Append(q, e) :
           \/ Append(q, e)[i] = e
           \/ i \in DOMAIN q /\ Append(q, e)[i] = q[i]
OBVIOUS

(* A success already reported is never forgotten, so what is backed stays  *)
(* backed.                                                                 *)
LEMMA SuccessesStay ==
  ASSUME TypeOK, [Next]_vars
  PROVE  /\ succeeded \subseteq succeeded'
         /\ \A c \in Cmd : Backed(c) => Backed(c)'
<1>1. succeeded \subseteq succeeded'
  <2>1. CASE Link
    BY <2>1 DEF Link, LinkNext, PlcExecute, PlcCrash, BrokerDropsFeedback,
                ConnectionLost, ResendStored, Reconnect
  <2>2. CASE UNCHANGED vars \/ Terminated
    BY <2>2 DEF vars, linkVars, Terminated
  <2>3. CASE Start \/ StartFails \/ Shutdown \/ Dispatch \/ TakeCommand
    BY <2>3 DEF Start, StartFails, Shutdown, Dispatch, TakeCommand, linkVars
  <2>4. CASE StopLoop \/ InsertRow \/ Publish \/ PublishFails \/ PubackLost
    BY <2>4 DEF StopLoop, InsertRow, Publish, PublishFails, PubackLost, linkVars
  <2>5. CASE ReceiveAck \/ ReceiveNack \/ AckTimesOut \/ RetryDelayOver
    BY <2>5 DEF ReceiveAck, ReceiveNack, AckTimesOut, RetryDelayOver, linkVars
  <2>6. CASE WaitCancelled \/ GiveUp \/ Finish \/ CleanupPending \/ Tick
    BY <2>6 DEF WaitCancelled, GiveUp, Finish, CleanupPending, Tick, linkVars
  <2>7. CASE OnFeedback \/ SendAck \/ ShowFeedback
    BY <2>7 DEF OnFeedback, SendAck, ShowFeedback, linkVars
  <2> QED BY <2>1, <2>2, <2>3, <2>4, <2>5, <2>6, <2>7 DEF Next
<1> QED BY <1>1 DEF Backed

(* The steps that touch what is on its way, or the command in hand.        *)
LEMMA FlightFrame ==
  ASSUME TypeOK, [Next]_vars
  PROVE  \/ Link \/ TakeCommand \/ OnFeedback
         \/ Publish \/ PublishFails \/ PubackLost
         \/ UNCHANGED <<cmdNet, fbNet, stored, succeeded, deq>>
<1> USE DEF linkVars, loopVars
<1>1. CASE UNCHANGED vars \/ Terminated
  BY <1>1 DEF vars, dispVars, Terminated
<1>2. CASE Start \/ StartFails \/ Shutdown \/ Dispatch \/ StopLoop
  BY <1>2 DEF Start, StartFails, Shutdown, Dispatch, StopLoop
<1>3. CASE InsertRow \/ ReceiveAck \/ ReceiveNack \/ AckTimesOut
  BY <1>3 DEF InsertRow, ReceiveAck, ReceiveNack, AckTimesOut
<1>4. CASE RetryDelayOver \/ WaitCancelled \/ GiveUp \/ Finish
  BY <1>4 DEF RetryDelayOver, WaitCancelled, GiveUp, Finish
<1>5. CASE SendAck \/ ShowFeedback \/ CleanupPending \/ Tick
  BY <1>5 DEF SendAck, ShowFeedback, CleanupPending, Tick
<1> QED BY <1>1, <1>2, <1>3, <1>4, <1>5 DEF Next

(* A feedback put on its way is one of the PLC's answers.                  *)
LEMMA FeedbackSent ==
  ASSUME TypeOK, InFlight, NEW success \in BOOLEAN,
         cmdNet # <<>>,
         succeeded' = IF success THEN succeeded \cup {Head(cmdNet)} ELSE succeeded,
         fbNet' = Append(fbNet, [cmd |-> Head(cmdNet), success |-> success])
  PROVE  \A i \in DOMAIN fbNet' :
           fbNet'[i].cmd <= deq /\ (fbNet'[i].success => fbNet'[i].cmd \in succeeded')
<1> DEFINE fb == [cmd |-> Head(cmdNet), success |-> success]
<1>1. Head(cmdNet) \in Cmd /\ Head(cmdNet) = cmdNet[1] /\ 1 \in DOMAIN cmdNet
  BY TailElements DEF TypeOK, LinkTypeOK
<1>2. fb \in Feedback
  BY <1>1 DEF Feedback
<1>3. fb.cmd <= deq /\ (fb.success => fb.cmd \in succeeded')
  BY <1>1 DEF InFlight
<1> HIDE DEF fb
<1> SUFFICES ASSUME NEW i \in DOMAIN fbNet'
             PROVE  /\ fbNet'[i].cmd <= deq
                    /\ fbNet'[i].success => fbNet'[i].cmd \in succeeded'
  OBVIOUS
<1>4. fbNet' = Append(fbNet, fb)
  BY DEF fb
<1>5. fbNet'[i] = fb \/ (i \in DOMAIN fbNet /\ fbNet'[i] = fbNet[i])
  BY <1>2, <1>4, AppendElements DEF TypeOK, LinkTypeOK
<1>6. succeeded \subseteq succeeded'
  OBVIOUS
<1> QED BY <1>3, <1>5, <1>6 DEF InFlight

(* What is on its way stays about commands that have been taken.           *)
LEMMA FlightStep ==
  ASSUME TypeOK, InFlight, [Next]_vars PROVE InFlight'
<1> USE DEF InFlight
<1>1. cmdNet \in Seq(Cmd) /\ fbNet \in Seq(Feedback) /\ stored \subseteq Cmd
  BY DEF TypeOK, LinkTypeOK
<1>2. deq \in Nat /\ (pc \in Busy => deq \in Cmd)
  BY DEF TypeOK, Cmd, NoCmd
<1>3. CASE Link
  <2>1. CASE PlcExecute
    BY <1>1, <1>3, <2>1, TailElements, FeedbackSent
       DEF PlcExecute, Link, dispVars, loopVars
  <2>2. CASE PlcCrash
    BY <1>3, <2>2, FeedbackSent DEF PlcCrash, Link, dispVars, loopVars
  <2>3. CASE BrokerDropsFeedback
    BY <1>1, <1>3, <2>3, TailElements
       DEF BrokerDropsFeedback, Link, dispVars, loopVars
  <2>4. CASE ConnectionLost \/ Reconnect
    BY <1>3, <2>4 DEF ConnectionLost, Reconnect, Link, dispVars, loopVars
  <2>5. CASE ResendStored
    BY <1>1, <1>3, <2>5, AppendElements
       DEF ResendStored, Link, dispVars, loopVars
  <2> QED BY <1>3, <2>1, <2>2, <2>3, <2>4, <2>5 DEF Link, LinkNext
<1>4. CASE TakeCommand
  <2>1. deq' = deq + 1 /\ UNCHANGED linkVars
    BY <1>4 DEF TakeCommand
  <2>2. \A n \in Cmd : n <= deq => n <= deq'
    BY <1>2, <2>1 DEF Cmd
  <2>3. \A i \in DOMAIN cmdNet : cmdNet[i] \in Cmd
    BY <1>1
  <2>4. \A i \in DOMAIN fbNet : fbNet[i].cmd \in Cmd
    <3>1. \A i \in DOMAIN fbNet : fbNet[i] \in Feedback
      BY <1>1
    <3> QED BY <3>1 DEF Feedback
  <2> QED BY <1>1, <2>1, <2>2, <2>3, <2>4 DEF linkVars
<1>5. CASE OnFeedback
  BY <1>1, <1>5, TailElements DEF OnFeedback, loopVars
<1>6. CASE Publish \/ PubackLost
  <2>1. deq \in Cmd /\ deq' = deq /\ cmdNet' = Append(cmdNet, deq)
        /\ UNCHANGED <<fbNet, stored, succeeded>>
    BY <1>2, <1>6 DEF Publish, PubackLost, loopVars, Busy
  <2>2. \A i \in DOMAIN cmdNet' : cmdNet'[i] <= deq
    BY <1>1, <1>2, <2>1, AppendElements
  <2> QED BY <2>1, <2>2
<1>7. CASE PublishFails
  BY <1>2, <1>7 DEF PublishFails, Busy
<1>8. CASE UNCHANGED <<cmdNet, fbNet, stored, succeeded, deq>>
  BY <1>8
<1> QED BY <1>3, <1>4, <1>5, <1>6, <1>7, <1>8, FlightFrame

(* Only the callback changes what the callback holds.                      *)
LEMMA HandlerFrame ==
  ASSUME [Next]_vars
  PROVE  OnFeedback \/ SendAck \/ ShowFeedback \/ handler' = handler
<1>1. CASE Link \/ UNCHANGED vars \/ Terminated
  BY <1>1 DEF Link, vars, dispVars, Terminated
<1>2. CASE Start \/ StartFails \/ Shutdown \/ Dispatch \/ TakeCommand \/ StopLoop
  BY <1>2 DEF Start, StartFails, Shutdown, Dispatch, TakeCommand, StopLoop
<1>3. CASE InsertRow \/ Publish \/ PublishFails \/ PubackLost \/ ReceiveAck
  BY <1>3 DEF InsertRow, Publish, PublishFails, PubackLost, ReceiveAck
<1>4. CASE ReceiveNack \/ AckTimesOut \/ RetryDelayOver \/ WaitCancelled
  BY <1>4 DEF ReceiveNack, AckTimesOut, RetryDelayOver, WaitCancelled
<1>5. CASE GiveUp \/ Finish \/ CleanupPending \/ Tick
  BY <1>5 DEF GiveUp, Finish, CleanupPending, Tick
<1> QED BY <1>1, <1>2, <1>3, <1>4, <1>5 DEF Next

(* Only the callback fills the channel of the command in hand.             *)
LEMMA ChannelFrame ==
  ASSUME TypeOK, [Next]_vars
  PROVE  \/ SendAck \/ TakeCommand
         \/ /\ ackChan' \in {ackChan, "empty"} /\ deq' = deq
            /\ pc' \in Busy => pc \in Busy
<1> USE DEF loopVars, Busy
<1>1. CASE Link \/ UNCHANGED vars \/ Terminated
  BY <1>1 DEF Link, vars, dispVars, Terminated
<1>2. CASE Start \/ StartFails \/ Shutdown \/ Dispatch \/ StopLoop
  BY <1>2 DEF Start, StartFails, Shutdown, Dispatch, StopLoop
<1>3. CASE InsertRow \/ Publish \/ PublishFails \/ PubackLost \/ ReceiveAck
  BY <1>3 DEF InsertRow, Publish, PublishFails, PubackLost, ReceiveAck
<1>4. CASE ReceiveNack \/ AckTimesOut \/ RetryDelayOver \/ WaitCancelled
  BY <1>4 DEF ReceiveNack, AckTimesOut, RetryDelayOver, WaitCancelled
<1>5. CASE GiveUp \/ Finish \/ CleanupPending \/ Tick
  BY <1>5 DEF GiveUp, Finish, CleanupPending, Tick
<1>6. CASE OnFeedback \/ ShowFeedback
  BY <1>6 DEF OnFeedback, ShowFeedback
<1> QED BY <1>1, <1>2, <1>3, <1>4, <1>5, <1>6 DEF Next

(* Only ReceiveAck shows a command as acknowledged.                        *)
LEMMA StatusFrame ==
  ASSUME TypeOK, [Next]_vars
  PROVE  \/ ReceiveAck
         \/ \A c \in Cmd : status'[c] = "acked" => status[c] = "acked"
<1> USE DEF loopVars
<1>1. CASE Link \/ UNCHANGED vars \/ Terminated
  BY <1>1 DEF Link, vars, dispVars, Terminated
<1>2. CASE Start \/ StartFails \/ Shutdown \/ Dispatch \/ TakeCommand \/ StopLoop
  BY <1>2 DEF Start, StartFails, Shutdown, Dispatch, TakeCommand, StopLoop
<1>3. CASE InsertRow \/ PublishFails \/ PubackLost \/ ReceiveNack
  BY <1>3 DEF InsertRow, PublishFails, PubackLost, ReceiveNack
<1>4. CASE Publish \/ AckTimesOut
  BY <1>4 DEF Publish, AckTimesOut, TypeOK
<1>5. CASE RetryDelayOver \/ WaitCancelled \/ GiveUp \/ Finish \/ Tick
  BY <1>5 DEF RetryDelayOver, WaitCancelled, GiveUp, Finish, Tick
<1>6. CASE CleanupPending \/ OnFeedback \/ SendAck \/ ShowFeedback
  BY <1>6 DEF CleanupPending, OnFeedback, SendAck, ShowFeedback
<1> QED BY <1>1, <1>2, <1>3, <1>4, <1>5, <1>6 DEF Next

(* A command that has been taken stays taken.                              *)
LEMMA TakenStays ==
  ASSUME TypeOK, [Next]_vars PROVE deq <= deq'
<1>1. deq \in Nat
  BY DEF TypeOK
<1>2. deq' = deq \/ deq' = deq + 1
  BY PendingFrame DEF TakeCommand, Finish, CleanupPending, loopVars
<1> QED BY <1>1, <1>2

(* The entry the callback looks up is that of the feedback's device.       *)
LEMMA InHandStep ==
  ASSUME TypeOK, PendingIsCurrent, InFlight, InHand, [Next]_vars
  PROVE  InHand'
<1> USE DEF InHand
<1> TypeOK'
  BY TypeStep
<1>1. CASE OnFeedback
  <2> DEFINE fb == Head(fbNet)
  <2>1. fb \in Feedback /\ fb.cmd <= deq /\ (fb.success => fb.cmd \in succeeded)
    BY <1>1, TailElements DEF OnFeedback, InFlight, TypeOK, LinkTypeOK
  <2>2. TargetOf[fb.cmd] \in Targets
    BY <2>1 DEF Feedback
  <2>3. handler' = [at |-> "send", cmd |-> fb.cmd, success |-> fb.success,
                    ptr |-> pending[TargetOf[fb.cmd]]]
        /\ succeeded' = succeeded /\ deq' = deq
    BY <1>1 DEF OnFeedback, loopVars
  <2> HIDE DEF fb
  <2>4. pending[TargetOf[fb.cmd]] # NoCmd
          => /\ pending[TargetOf[fb.cmd]] = deq
             /\ TargetOf[fb.cmd] = TargetOf[deq]
    BY <2>2 DEF PendingIsCurrent
  <2> QED BY <2>1, <2>3, <2>4 DEF Feedback
<1>2. CASE SendAck
  <2>1. /\ handler'.cmd = handler.cmd /\ handler'.success = handler.success
        /\ handler'.ptr = NoCmd /\ UNCHANGED <<succeeded, deq>>
    BY <1>2 DEF SendAck, TypeOK, Idle, linkVars, loopVars
  <2> QED BY <2>1
<1>3. CASE ShowFeedback
  <2>1. handler' = Idle /\ deq' \in Nat
    BY <1>3 DEF ShowFeedback, TypeOK
  <2> QED BY <2>1 DEF Idle, NoCmd
<1>4. ASSUME handler' = handler PROVE InHand'
  <2>1. deq <= deq' /\ deq \in Nat /\ deq' \in Nat
    BY TakenStays DEF TypeOK
  <2>2. handler.cmd \in Nat
    <3>1. handler = Idle \/ handler.cmd \in Cmd
      BY DEF TypeOK
    <3> QED BY <3>1 DEF Idle, Cmd, NoCmd
  <2>3. handler.cmd <= deq'
    BY <2>1, <2>2
  <2> QED BY <1>4, <2>3, SuccessesStay
<1> QED BY <1>1, <1>2, <1>3, <1>4, HandlerFrame

(* An acknowledgement that waits for the dispatcher is backed.             *)
LEMMA InChannelStep ==
  ASSUME TypeOK, InHand, InChannel, [Next]_vars
  PROVE  InChannel'
<1> USE DEF InChannel
<1>1. CASE SendAck
  <2> SUFFICES ASSUME pc' \in Busy, ackChan' = "ack", ackChan # "ack"
               PROVE  Backed(deq)'
    BY <1>1 DEF SendAck, linkVars, loopVars, Backed
  <2>1. handler.ptr = deq /\ handler.success /\ pc \in Busy
    BY <1>1 DEF SendAck, TypeOK
  <2>2. deq \in Cmd /\ deq # NoCmd
    BY <2>1 DEF TypeOK, Cmd, NoCmd
  <2> QED BY <1>1, <2>1, <2>2 DEF SendAck, InHand, Backed, linkVars, loopVars
<1>2. CASE TakeCommand
  BY <1>2 DEF TakeCommand
<1>3. ASSUME ackChan' \in {ackChan, "empty"}, deq' = deq,
             pc' \in Busy => pc \in Busy
      PROVE  InChannel'
  <2> SUFFICES ASSUME pc' \in Busy, ackChan' = "ack" PROVE Backed(deq)'
    OBVIOUS
  <2>1. pc \in Busy /\ Backed(deq) /\ deq \in Cmd
    BY <1>3 DEF TypeOK
  <2> QED BY <1>3, <2>1, SuccessesStay DEF Backed
<1>4. \/ SendAck \/ TakeCommand
      \/ /\ ackChan' \in {ackChan, "empty"} /\ deq' = deq
         /\ pc' \in Busy => pc \in Busy
  BY ChannelFrame
<1> QED BY <1>1, <1>2, <1>3, <1>4

(* A command is shown as acknowledged only for a backed acknowledgement.   *)
LEMMA AckFromTargetStep ==
  ASSUME TypeOK, InChannel, AckFromTarget, [Next]_vars
  PROVE  AckFromTarget'
<1> USE DEF AckFromTarget
<1>1. CASE ReceiveAck
  <2>1. Backed(deq)
    BY <1>1 DEF ReceiveAck, InChannel, Busy
  <2>2. \A c \in Cmd : status'[c] = "acked" => c = deq \/ status[c] = "acked"
    BY <1>1 DEF ReceiveAck, TypeOK
  <2> QED BY <2>1, <2>2, SuccessesStay
<1>2. ASSUME \A c \in Cmd : status'[c] = "acked" => status[c] = "acked"
      PROVE  AckFromTarget'
  BY <1>2, SuccessesStay
<1>3. ReceiveAck \/ \A c \in Cmd : status'[c] = "acked" => status[c] = "acked"
  BY StatusFrame
<1> QED BY <1>1, <1>2, <1>3

(* AckInv holds in every reachable state.                                  *)
LEMMA AckInvariant == Spec => []AckInv
<1>1. Init => AckInv
  <2> SUFFICES ASSUME Init PROVE AckInv
    OBVIOUS
  <2>1. TypeOK /\ PendingIsCurrent
    BY TypeInit DEF Init, PendingIsCurrent
  <2>2. InFlight
    BY DEF Init, LinkInit, InFlight
  <2>3. InHand /\ InChannel /\ AckFromTarget
    BY DEF Init, InHand, Idle, NoCmd, InChannel, AckFromTarget
  <2> QED BY <2>1, <2>2, <2>3 DEF AckInv
<1>2. AckInv /\ [Next]_vars => AckInv'
  <2> SUFFICES ASSUME AckInv, [Next]_vars PROVE AckInv'
    OBVIOUS
  <2> USE DEF AckInv
  <2>1. TypeOK' /\ PendingIsCurrent'
    BY TypeStep, PendingStep
  <2>2. InFlight'
    BY FlightStep
  <2>3. InHand'
    BY InHandStep
  <2>4. InChannel'
    BY InChannelStep
  <2>5. AckFromTarget'
    BY AckFromTargetStep
  <2> QED BY <2>1, <2>2, <2>3, <2>4, <2>5
<1> QED BY <1>1, <1>2, PTL DEF Spec

(* A command is shown as acknowledged only when the PLC has reported a     *)
(* success for its device, and for no later command.                       *)
THEOREM AckSound == Spec => []AckFromTarget
<1>1. AckInv => AckFromTarget
  BY DEF AckInv
<1> QED BY <1>1, AckInvariant, PTL

(* When no two commands address the same device, "acked" means executed.   *)
THEOREM AckExact ==
  ASSUME \A c, d \in Cmd : TargetOf[c] = TargetOf[d] => c = d
  PROVE  Spec => []AckMeansExecuted
<1>1. TypeOK /\ AckFromTarget => AckMeansExecuted
  BY DEF TypeOK, LinkTypeOK, AckFromTarget, Backed, AckMeansExecuted
<1> QED BY <1>1, TypeCorrect, AckSound, PTL

-----------------------------------------------------------------------------
(* The retry loop.                                                         *)

(* Steps of the link, of the callback and of the cleanup do not touch the  *)
(* dispatcher's loop.                                                      *)
LEMMA LoopFrame ==
  ASSUME Link \/ UNCHANGED vars \/ Terminated
         \/ OnFeedback \/ SendAck \/ ShowFeedback \/ CleanupPending
  PROVE  UNCHANGED loopVars
BY DEF Link, vars, dispVars, Terminated, OnFeedback, SendAck, ShowFeedback,
       CleanupPending

(* Every step keeps the bookkeeping of the loop.                           *)
LEMMA LoopStep ==
  ASSUME LoopInv, [Next]_vars PROVE LoopInv'
<1>1. TypeOK /\ TypeOK'
  BY TypeStep DEF LoopInv
<1> SUFFICES Counted' /\ Untouched' /\ Settled'
  BY <1>1 DEF LoopInv
<1>2. /\ attempt \in 0..MaxRetries /\ deq \in Nat /\ deq' \in Nat
      /\ sends \in [Cmd -> Nat]
      /\ status \in [Cmd -> {"none", "sent", "acked", "timeout"}]
      /\ pc \in Busy => deq \in Cmd
      /\ Cmd \subseteq Nat
  BY <1>1 DEF TypeOK, Cmd
<1>3. Counted /\ Untouched /\ Settled
  BY DEF LoopInv
<1> USE <1>2, <1>3 DEF Counted, Untouched, Settled, Trying, Busy
<1>4. CASE Start \/ StartFails \/ Dispatch \/ Shutdown \/ StopLoop
  BY <1>4 DEF Start, StartFails, Dispatch, Shutdown, StopLoop
<1>5. CASE TakeCommand
  BY <1>1, <1>5 DEF TakeCommand, TypeOK, Cmd, NoCmd
<1>6. CASE InsertRow
  BY <1>6 DEF InsertRow
<1>7. CASE Publish
  BY <1>7 DEF Publish
<1>8. CASE PublishFails
  BY <1>8 DEF PublishFails, NextAttempt
<1>9. CASE PubackLost
  BY <1>9 DEF PubackLost, loopVars
<1>10. CASE ReceiveAck
  BY <1>10 DEF ReceiveAck
<1>11. CASE ReceiveNack
  BY <1>11 DEF ReceiveNack, NextAttempt
<1>12. CASE AckTimesOut
  BY <1>12 DEF AckTimesOut, NextAttempt
<1>13. CASE RetryDelayOver
  BY <1>13 DEF RetryDelayOver
<1>14. CASE WaitCancelled
  BY <1>14 DEF WaitCancelled
<1>15. CASE GiveUp
  BY <1>15 DEF GiveUp
<1>16. CASE Finish
  BY <1>16 DEF Finish
<1>17. CASE Tick
  BY <1>17 DEF Tick
<1>18. ASSUME UNCHANGED loopVars PROVE Counted' /\ Untouched' /\ Settled'
  BY <1>18 DEF loopVars
<1> QED
  BY <1>4, <1>5, <1>6, <1>7, <1>8, <1>9, <1>10, <1>11, <1>12, <1>13, <1>14,
     <1>15, <1>16, <1>17, <1>18, LoopFrame DEF Next

(* LoopInv holds in every reachable state.                                 *)
LEMMA LoopInvariant == Spec => []LoopInv
<1>1. Init => LoopInv
  <2> SUFFICES ASSUME Init PROVE LoopInv
    OBVIOUS
  <2>1. deq = 0 /\ pc = "off" /\ attempt = 0
    BY DEF Init
  <2>2. Counted
    BY <2>1 DEF Counted
  <2>3. Untouched
    BY DEF Init, Untouched
  <2>4. Settled
    BY <2>1 DEF Settled, Trying, Busy, Cmd
  <2> QED BY <2>2, <2>3, <2>4, TypeInit DEF LoopInv
<1>2. LoopInv /\ [Next]_vars => LoopInv'
  BY LoopStep
<1> QED BY <1>1, <1>2, PTL DEF Spec

(* At most 1 + maxRetries publications, and a command is given up only     *)
(* when all of them have been used or the server is shutting down.         *)
THEOREM BudgetKept == Spec => []RetryBudget
<1>1. LoopInv => RetryBudget
  <2> SUFFICES ASSUME LoopInv, NEW c \in Cmd
               PROVE  /\ sends[c] <= MaxRetries + 1
                      /\ Finished(c) /\ ~ctxDone /\ status[c] # "acked"
                           => sends[c] = MaxRetries + 1
    BY DEF RetryBudget
  <2>1. c \in Nat /\ deq \in Nat /\ attempt \in 0..MaxRetries
    BY DEF LoopInv, TypeOK, Cmd
  <2>2. CASE c > deq
    BY <2>1, <2>2 DEF LoopInv, Untouched, Finished
  <2>3. CASE c < deq \/ (c = deq /\ pc \notin Trying)
    BY <2>1, <2>3 DEF LoopInv, Settled
  <2>4. CASE c = deq /\ pc \in Trying
    BY <2>1, <2>4 DEF LoopInv, Counted, Trying, Busy, Finished
  <2> QED BY <2>1, <2>2, <2>3, <2>4
<1> QED BY <1>1, LoopInvariant, PTL

(* The statuses shown and the publications counted are those of the        *)
(* command in hand, while the loop runs.                                   *)
LEMMA StatusSendsFrame ==
  ASSUME TypeOK, [Next]_vars
  PROVE  \/ status' = status /\ sends' = sends
         \/ /\ pc \in Trying
            /\ \A d \in Cmd : d # deq => status'[d] = status[d] /\ sends'[d] = sends[d]
<1> USE DEF loopVars, Trying, Busy
<1>1. CASE Link \/ UNCHANGED vars \/ Terminated
  BY <1>1 DEF Link, vars, dispVars, Terminated
<1>2. CASE Start \/ StartFails \/ Shutdown \/ Dispatch \/ TakeCommand \/ StopLoop
  BY <1>2 DEF Start, StartFails, Shutdown, Dispatch, TakeCommand, StopLoop
<1>3. CASE InsertRow \/ PubackLost \/ ReceiveNack \/ RetryDelayOver
  BY <1>3 DEF InsertRow, PubackLost, ReceiveNack, RetryDelayOver
<1>4. CASE Publish \/ PublishFails \/ AckTimesOut \/ ReceiveAck
  BY <1>4 DEF Publish, PublishFails, AckTimesOut, ReceiveAck, TypeOK
<1>5. CASE WaitCancelled \/ GiveUp \/ Finish \/ Tick
  BY <1>5 DEF WaitCancelled, GiveUp, Finish, Tick
<1>6. CASE CleanupPending \/ OnFeedback \/ SendAck \/ ShowFeedback
  BY <1>6 DEF CleanupPending, OnFeedback, SendAck, ShowFeedback
<1> QED BY <1>1, <1>2, <1>3, <1>4, <1>5, <1>6 DEF Next

(* A command shown as acknowledged is left alone.                          *)
LEMMA AckStays ==
  ASSUME LoopInv, [Next]_vars, NEW c \in Cmd, status[c] = "acked"
  PROVE  status'[c] = "acked" /\ sends'[c] = sends[c]
<1>1. ~(c = deq /\ pc \in Trying)
  BY DEF LoopInv, Settled
<1>2. \/ status' = status /\ sends' = sends
      \/ /\ pc \in Trying
         /\ \A d \in Cmd : d # deq => status'[d] = status[d] /\ sends'[d] = sends[d]
  BY StatusSendsFrame DEF LoopInv
<1> QED BY <1>1, <1>2

(* An acknowledged command is neither published again nor shown otherwise. *)
THEOREM AckFinal == Spec => AckIsFinal
<1>1. LoopInv /\ [Next]_vars
        => [\A c \in Cmd : status[c] = "acked" =>
              status'[c] = "acked" /\ sends'[c] = sends[c]]_vars
  BY AckStays
<1> QED BY <1>1, LoopInvariant, PTL DEF Spec, AckIsFinal

-----------------------------------------------------------------------------
(* The abstract specification.                                             *)

(* The steps that change what the ledger reads.                            *)
LEMMA LedgerFrame ==
  ASSUME [Next]_vars
  PROVE  \/ Link \/ TakeCommand \/ Publish \/ AckTimesOut \/ ReceiveAck
         \/ ShowFeedback
         \/ UNCHANGED <<deq, succeeded, status, reports>>
<1> USE DEF linkVars, loopVars
<1>1. CASE UNCHANGED vars \/ Terminated
  BY <1>1 DEF vars, dispVars, Terminated
<1>2. CASE Start \/ StartFails \/ Shutdown \/ Dispatch \/ StopLoop \/ InsertRow
  BY <1>2 DEF Start, StartFails, Shutdown, Dispatch, StopLoop, InsertRow
<1>3. CASE PublishFails \/ PubackLost \/ ReceiveNack \/ RetryDelayOver
  BY <1>3 DEF PublishFails, PubackLost, ReceiveNack, RetryDelayOver
<1>4. CASE WaitCancelled \/ GiveUp \/ Finish \/ CleanupPending
  BY <1>4 DEF WaitCancelled, GiveUp, Finish, CleanupPending
<1>5. CASE OnFeedback \/ SendAck \/ Tick
  BY <1>5 DEF OnFeedback, SendAck, Tick
<1> QED BY <1>1, <1>2, <1>3, <1>4, <1>5 DEF Next

(* A step of the link executes one of the commands begun, or nothing the   *)
(* ledger reads.                                                           *)
LEMMA LedgerLink ==
  ASSUME TypeOK, InFlight, Link
  PROVE  \/ \E c \in Cmd : Ledger!Execute(c)
         \/ UNCHANGED <<deq, succeeded, status, reports>>
<1>1. UNCHANGED <<deq, status, reports>>
  BY DEF Link, dispVars, loopVars
<1>2. CASE PlcExecute \/ PlcCrash
  <2>1. \/ succeeded' = succeeded
        \/ cmdNet # <<>> /\ succeeded' = succeeded \cup {Head(cmdNet)}
    BY <1>2 DEF PlcExecute, PlcCrash
  <2>2. cmdNet # <<>> => Head(cmdNet) \in Cmd /\ Head(cmdNet) <= deq
    BY TailElements DEF TypeOK, LinkTypeOK, InFlight
  <2> QED BY <1>1, <2>1, <2>2 DEF Ledger!Execute
<1>3. CASE BrokerDropsFeedback \/ ConnectionLost \/ ResendStored \/ Reconnect
  BY <1>1, <1>3 DEF BrokerDropsFeedback, ConnectionLost, ResendStored, Reconnect
<1> QED BY <1>2, <1>3 DEF Link, LinkNext

(* A step that shows the status of the command in hand.                    *)
LEMMA LedgerShow ==
  ASSUME AckInv, LoopInv, Publish \/ AckTimesOut \/ ReceiveAck
  PROVE  Ledger!Send \/ Ledger!Expire \/ Ledger!Acknowledge
<1> USE DEF Ledger!Show
<1>1. /\ pc \in {"publish", "await"} /\ deq \in Cmd /\ deq # 0
      /\ UNCHANGED <<deq, succeeded, reports>>
  BY DEF Publish, AckTimesOut, ReceiveAck, LoopInv, TypeOK, Busy, Cmd, linkVars
<1>2. /\ status[deq] \in {"none", "sent", "timeout"}
      /\ pc = "await" => status[deq] = "sent"
  BY <1>1 DEF LoopInv, TypeOK, Settled, Trying, Busy
<1>3. CASE Publish
  BY <1>1, <1>2, <1>3 DEF Publish, Ledger!Send
<1>4. CASE AckTimesOut
  BY <1>1, <1>2, <1>4 DEF AckTimesOut, Ledger!Expire
<1>5. CASE ReceiveAck
  <2>1. \E c \in succeeded : TargetOf[c] = TargetOf[deq]
    BY <1>5 DEF ReceiveAck, AckInv, InChannel, Busy, Backed
  <2> QED BY <1>1, <1>2, <1>5, <2>1 DEF ReceiveAck, Ledger!Acknowledge
<1> QED BY <1>3, <1>4, <1>5

(* A feedback shown is that of a command the device was sent.              *)
LEMMA LedgerReport ==
  ASSUME TypeOK, InHand, ShowFeedback
  PROVE  \E d \in Targets : Ledger!ReportSuccess(d) \/ Ledger!ReportFailure(d)
<1>1. /\ handler \in [at : {"send", "show"}, cmd : Cmd, success : BOOLEAN,
                      ptr : Cmd \cup {NoCmd}]
      /\ deq \in Nat
  BY DEF ShowFeedback, TypeOK, Idle
<1>2. /\ handler.cmd \in Cmd /\ TargetOf[handler.cmd] \in Targets
      /\ handler.success \in BOOLEAN
  BY <1>1
<1>3. handler.cmd \in 1..deq
  BY <1>1, <1>2 DEF InHand, Cmd
<1>4. UNCHANGED <<deq, succeeded, status>>
  BY DEF ShowFeedback, linkVars, loopVars
<1>5. CASE handler.success
  BY <1>2, <1>4, <1>5
     DEF ShowFeedback, InHand, Ledger!ReportSuccess, Ledger!Report
<1>6. CASE ~handler.success
  BY <1>2, <1>3, <1>4, <1>6 DEF ShowFeedback, Ledger!ReportFailure, Ledger!Report
<1> QED BY <1>5, <1>6

(* What the two kinds of broadcasts show is what CommandLedger promises:   *)
(* one command at a time, no acknowledgement taken back, and no success    *)
(* that stands for nothing a PLC reported.                                 *)
THEOREM LedgerImplemented == Spec => ImplementsLedger
<1>1. Init => Ledger!LedgerInit
  BY DEF Init, LinkInit, Ledger!LedgerInit, Cmd
<1>2. AckInv /\ LoopInv /\ [Next]_vars
        => [Ledger!LedgerNext]_<<deq, succeeded, status, reports>>
  <2> SUFFICES ASSUME AckInv, LoopInv, [Next]_vars
               PROVE  Ledger!LedgerNext
                      \/ UNCHANGED <<deq, succeeded, status, reports>>
    OBVIOUS
  <2>1. TypeOK /\ InFlight /\ InHand
    BY DEF AckInv
  <2>2. CASE Link
    BY <2>1, <2>2, LedgerLink DEF Ledger!LedgerNext, Cmd
  <2>3. CASE TakeCommand
    <3>1. deq < MaxCommands /\ deq' = deq + 1
      BY <2>1, <2>3 DEF TakeCommand, TypeOK, Cmd, NoCmd
    <3> QED BY <2>3, <3>1 DEF TakeCommand, linkVars,
                              Ledger!LedgerNext, Ledger!Begin
  <2>4. CASE Publish \/ AckTimesOut \/ ReceiveAck
    BY <2>4, LedgerShow DEF Ledger!LedgerNext
  <2>5. CASE ShowFeedback
    BY <2>1, <2>5, LedgerReport DEF Ledger!LedgerNext
  <2> QED BY <2>2, <2>3, <2>4, <2>5, LedgerFrame
<1> QED
  BY <1>1, <1>2, AckInvariant, LoopInvariant, PTL
     DEF Spec, ImplementsLedger, Ledger!LedgerSpec, Ledger!ledgerVars

-----------------------------------------------------------------------------
(* The age of the command in hand.                                         *)

(* A number of turns and its complement fill the threshold.                *)
LEMMA TurnsFit ==
  ASSUME NEW a \in 0..MaxRetries
  PROVE  /\ Turns(a) \in Nat /\ Turns(MaxRetries - a) \in Nat
         /\ Turns(a) + Turns(MaxRetries - a) + AckTimeout = StaleAge
<1> DEFINE turn == AckTimeout + RetryDelay
<1>1. turn \in Nat
  OBVIOUS
<1>2. StaleAge = MaxRetries * turn + AckTimeout
  BY DEF StaleAge
<1>3. PICK n \in Nat : n = MaxRetries - a /\ MaxRetries = a + n
  <2>1. MaxRetries - a \in Nat /\ MaxRetries = a + (MaxRetries - a)
    OBVIOUS
  <2> QED BY <2>1
<1> HIDE DEF turn
<1>4. a * turn \in Nat /\ n * turn \in Nat /\ (a + n) * turn = a * turn + n * turn
  BY <1>1, <1>3
<1>5. MaxRetries * turn = a * turn + n * turn
  BY <1>3, <1>4
<1>6. a * turn + n * turn + AckTimeout = StaleAge
  BY <1>2, <1>4, <1>5
<1> QED BY <1>3, <1>4, <1>6 DEF turn, Turns

(* One more turn of the loop.                                              *)
LEMMA NextTurn ==
  ASSUME NEW a \in Nat
  PROVE  Turns(a + 1) = Turns(a) + AckTimeout + RetryDelay
BY DEF Turns

(* The failing end of a turn keeps the bound on the age.                   *)
LEMMA AgedNextAttempt ==
  ASSUME TypeOK, Aged, NextAttempt, UNCHANGED <<age, latency>>,
         pc \in {"publish", "await"}
  PROVE  Aged'
<1>1. /\ attempt \in 0..MaxRetries /\ elapsed \in Nat
      /\ age \in Nat /\ latency \in Nat
  BY DEF TypeOK
<1>2. Turns(attempt) \in Nat /\ age <= latency + Turns(attempt) + AckTimeout
  BY <1>1, TurnsFit DEF Aged
<1>3. CASE attempt' = attempt + 1 /\ pc' = "delay" /\ elapsed' = 0
  <2>1. Turns(attempt') = Turns(attempt) + AckTimeout + RetryDelay
    BY <1>1, <1>3, NextTurn
  <2>2. age + RetryDelay <= latency + Turns(attempt') + elapsed'
    BY <1>1, <1>2, <1>3, <2>1
  <2>3. Turns(attempt)' = Turns(attempt')
    BY DEF Turns
  <2> QED BY <1>3, <2>2, <2>3 DEF Aged, Busy
<1>4. CASE pc' = "giveup"
  BY <1>4 DEF Aged, Busy
<1> QED BY <1>3, <1>4 DEF NextAttempt

(* The command in hand is as old as its statements, its publications and   *)
(* its turns of the loop make it.                                          *)
LEMMA AgedStep ==
  ASSUME TypeOK, Aged, [Next]_vars PROVE Aged'
<1>1. /\ attempt \in 0..MaxRetries /\ elapsed \in Nat
      /\ age \in Nat /\ latency \in Nat
  BY DEF TypeOK
<1>2. Turns(attempt) \in Nat
  BY <1>1, TurnsFit
<1> USE DEF Busy
<1>3. CASE Link \/ UNCHANGED vars \/ Terminated
           \/ OnFeedback \/ SendAck \/ ShowFeedback \/ CleanupPending
  BY <1>3, LoopFrame DEF loopVars, Aged, Turns
<1>4. CASE Start \/ StartFails \/ Shutdown \/ Dispatch \/ StopLoop \/ PubackLost
  BY <1>4 DEF Start, StartFails, Shutdown, Dispatch, StopLoop, PubackLost,
              loopVars, Aged, Turns
<1>5. CASE TakeCommand
  BY <1>5 DEF TakeCommand, Aged
<1>6. CASE InsertRow
  BY <1>1, <1>2, <1>6 DEF InsertRow, Aged, Turns
<1>7. CASE Publish
  BY <1>1, <1>2, <1>7 DEF Publish, Aged, Turns
<1>8. CASE PublishFails \/ ReceiveNack \/ AckTimesOut
  BY <1>8, AgedNextAttempt DEF PublishFails, ReceiveNack, AckTimesOut
<1>9. CASE ReceiveAck \/ WaitCancelled \/ GiveUp
  BY <1>9 DEF ReceiveAck, WaitCancelled, GiveUp, Aged
<1>10. CASE RetryDelayOver
  BY <1>1, <1>2, <1>10 DEF RetryDelayOver, Aged, Turns
<1>11. CASE Finish
  BY <1>11 DEF Finish, Aged
<1>12. CASE Tick
  <2>1. Turns(attempt)' = Turns(attempt)
    BY <1>12 DEF Tick, Turns
  <2> QED BY <1>1, <1>2, <1>12, <2>1 DEF Tick, Aged
<1> QED
  BY <1>3, <1>4, <1>5, <1>6, <1>7, <1>8, <1>9, <1>10, <1>11, <1>12 DEF Next

(* Three steps write pending or change the command in hand; with the       *)
(* others it only gets older.                                              *)
LEMMA RegisteredFrame ==
  ASSUME TypeOK, [Next]_vars
  PROVE  \/ TakeCommand \/ Finish \/ CleanupPending
         \/ /\ UNCHANGED <<pending, deq>> /\ (pc' \in Busy => pc \in Busy)
            /\ age <= age'
<1> USE DEF loopVars, Busy
<1> age \in Nat
  BY DEF TypeOK
<1>1. CASE Link \/ UNCHANGED vars \/ Terminated
  BY <1>1 DEF Link, vars, dispVars, Terminated
<1>2. CASE Start \/ StartFails \/ Shutdown \/ Dispatch \/ StopLoop
  BY <1>2 DEF Start, StartFails, Shutdown, Dispatch, StopLoop
<1>3. CASE InsertRow \/ Publish \/ PublishFails \/ PubackLost \/ ReceiveAck
  BY <1>3 DEF InsertRow, Publish, PublishFails, PubackLost, ReceiveAck
<1>4. CASE ReceiveNack \/ AckTimesOut \/ RetryDelayOver \/ WaitCancelled
  BY <1>4 DEF ReceiveNack, AckTimesOut, RetryDelayOver, WaitCancelled
<1>5. CASE GiveUp \/ OnFeedback \/ SendAck \/ ShowFeedback
  BY <1>5 DEF GiveUp, OnFeedback, SendAck, ShowFeedback
<1>6. CASE Tick
  <2>1. age' = age + 1 /\ UNCHANGED <<pending, deq, pc>>
    BY <1>6 DEF Tick
  <2> QED BY <2>1
<1> QED BY <1>1, <1>2, <1>3, <1>4, <1>5, <1>6 DEF Next

(* Until it is older than the threshold, the command in hand is there.     *)
LEMMA RegisteredStep ==
  ASSUME TypeOK, Registered, [Next]_vars PROVE Registered'
<1> USE DEF Registered, Busy, TypeOK
<1>1. StaleAge \in Nat /\ StaleAge' = StaleAge
  BY DEF StaleAge
<1>2. CASE TakeCommand
  <2>1. TargetOf[deq + 1] \in Targets
    BY <1>2 DEF TakeCommand, Cmd, NoCmd
  <2> QED BY <1>2, <2>1 DEF TakeCommand
<1>3. CASE Finish
  BY <1>3 DEF Finish
<1>4. CASE CleanupPending
  BY <1>1, <1>4 DEF CleanupPending, loopVars
<1>5. ASSUME UNCHANGED <<pending, deq>>, pc' \in Busy => pc \in Busy, age <= age'
      PROVE  Registered'
  <2>1. age \in Nat /\ age' \in Nat
    BY TypeStep
  <2>2. age' <= StaleAge => age <= StaleAge
    BY <1>1, <1>5, <2>1
  <2> QED BY <1>1, <1>5, <2>2
<1> QED BY <1>2, <1>3, <1>4, <1>5, RegisteredFrame

(* The entry of the command whose acknowledgement is awaited is removed by *)
(* nobody but its own dispatchWithAck, unless its INSERT and publications  *)
(* have taken longer than the waits that the retries left would add.       *)
THEOREM AwaitIsTracked == Spec => []AwaitTracked
<1> DEFINE Inv == TypeOK /\ Aged /\ Registered
<1>1. Init => Inv
  BY TypeInit DEF Init, Aged, Registered, Busy
<1>2. Inv /\ [Next]_vars => Inv'
  BY TypeStep, AgedStep, RegisteredStep
<1>3. Inv => AwaitTracked
  <2> SUFFICES ASSUME Inv, pc = "await", latency <= Slack
               PROVE  pending[TargetOf[deq]] = deq
    BY DEF AwaitTracked
  <2>1. /\ attempt \in 0..MaxRetries /\ elapsed \in 0..AckTimeout
        /\ age \in Nat /\ latency \in Nat
        /\ age <= latency + Turns(attempt) + elapsed
    BY DEF TypeOK, Aged
  <2>2. age <= StaleAge
    BY <2>1, TurnsFit DEF Slack
  <2> QED BY <2>2 DEF Registered, Busy
<1> HIDE DEF Inv
<1> QED BY <1>1, <1>2, <1>3, PTL DEF Spec

-----------------------------------------------------------------------------
(* The order in which the devices see the commands.                        *)

(* The steps that touch the commands on their way, or the one in hand.     *)
LEMMA OrderFrame ==
  ASSUME [Next]_vars
  PROVE  \/ Link \/ TakeCommand \/ Publish \/ PubackLost
         \/ UNCHANGED <<cmdNet, setting, resent, deq>>
<1> USE DEF linkVars, loopVars
<1>1. CASE UNCHANGED vars \/ Terminated
  BY <1>1 DEF vars, dispVars, Terminated
<1>2. CASE Start \/ StartFails \/ Shutdown \/ Dispatch \/ StopLoop \/ InsertRow
  BY <1>2 DEF Start, StartFails, Shutdown, Dispatch, StopLoop, InsertRow
<1>3. CASE PublishFails \/ ReceiveAck \/ ReceiveNack \/ AckTimesOut
  BY <1>3 DEF PublishFails, ReceiveAck, ReceiveNack, AckTimesOut
<1>4. CASE RetryDelayOver \/ WaitCancelled \/ GiveUp \/ Finish
  BY <1>4 DEF RetryDelayOver, WaitCancelled, GiveUp, Finish
<1>5. CASE OnFeedback \/ SendAck \/ ShowFeedback \/ CleanupPending \/ Tick
  BY <1>5 DEF OnFeedback, SendAck, ShowFeedback, CleanupPending, Tick
<1> QED BY <1>1, <1>2, <1>3, <1>4, <1>5 DEF Next

(* A step that puts a command at the end of the queue keeps the order if   *)
(* the command is the one in hand, or one that paho sends again.           *)
LEMMA OrderAppend ==
  ASSUME TypeOK, InFlight, QueueInOrder, NEW c \in Cmd,
         cmdNet' = Append(cmdNet, c), UNCHANGED <<setting, deq>>,
         resent \subseteq resent',
         c = deq \/ c \in resent'
  PROVE  QueueInOrder'
<1>1. /\ cmdNet \in Seq(Cmd) /\ deq \in Nat
      /\ \A t \in Targets : setting[t] <= deq
  BY DEF TypeOK, LinkTypeOK, QueueInOrder
<1>2. /\ DOMAIN cmdNet = 1..Len(cmdNet) /\ Len(cmdNet) \in Nat
      /\ DOMAIN cmdNet' = 1..(Len(cmdNet) + 1) /\ cmdNet'[Len(cmdNet) + 1] = c
      /\ \A i \in DOMAIN cmdNet : cmdNet'[i] = cmdNet[i]
  BY <1>1
<1> SUFFICES ASSUME NEW j \in DOMAIN cmdNet', cmdNet'[j] \notin resent'
             PROVE  /\ \A i \in DOMAIN cmdNet' : i <= j => cmdNet'[i] <= cmdNet'[j]
                    /\ \A t \in Targets : setting[t] <= cmdNet'[j]
  BY <1>1 DEF QueueInOrder
<1>3. CASE j \in DOMAIN cmdNet
  <2>1. \A i \in DOMAIN cmdNet' : i <= j => i \in DOMAIN cmdNet
    BY <1>2, <1>3
  <2> QED BY <1>2, <1>3, <2>1 DEF QueueInOrder
<1>4. CASE j = Len(cmdNet) + 1
  <2>1. c = deq /\ cmdNet'[j] = deq
    BY <1>2, <1>4
  <2>2. \A i \in DOMAIN cmdNet' : cmdNet'[i] <= deq
    BY <1>1, <1>2, <2>1 DEF InFlight
  <2> QED BY <1>1, <2>1, <2>2
<1> QED BY <1>2, <1>3, <1>4

(* The PLC takes the oldest command.                                       *)
LEMMA OrderExecute ==
  ASSUME TypeOK, InFlight, QueueInOrder, PlcExecute, UNCHANGED deq
  PROVE  /\ QueueInOrder'
         /\ \A t \in Targets : setting'[t] < setting[t] => setting'[t] \in resent
<1>1. /\ cmdNet \in Seq(Cmd) /\ setting \in [Targets -> Cmd \cup {NoCmd}]
      /\ deq \in Nat /\ \A t \in Targets : setting[t] \in Nat
  BY DEF TypeOK, LinkTypeOK, Cmd, NoCmd
<1> PICK c \in Cmd : c = Head(cmdNet)
  BY <1>1 DEF PlcExecute
<1>2. /\ cmdNet' = Tail(cmdNet) /\ resent' = resent
      /\ setting' = [setting EXCEPT ![TargetOf[c]] = c]
      /\ 1 \in DOMAIN cmdNet /\ c = cmdNet[1]
      /\ \A i \in DOMAIN cmdNet' :
           i \in Nat /\ i + 1 \in DOMAIN cmdNet /\ cmdNet'[i] = cmdNet[i + 1]
  BY <1>1, TailElements DEF PlcExecute
<1>3. \A t \in Targets : setting'[t] = setting[t] \/ setting'[t] = c
  BY <1>1, <1>2
<1>4. c \in Nat /\ c <= deq
  BY <1>2 DEF InFlight, Cmd
<1>5. c \notin resent => \A t \in Targets : setting[t] <= c
  BY <1>2 DEF QueueInOrder
<1>6. \A t \in Targets : setting'[t] < setting[t] => setting'[t] \in resent
  BY <1>1, <1>3, <1>4, <1>5
<1>7. ASSUME NEW j \in DOMAIN cmdNet', cmdNet'[j] \notin resent
      PROVE  /\ \A i \in DOMAIN cmdNet' : i <= j => cmdNet'[i] <= cmdNet'[j]
             /\ \A t \in Targets : setting'[t] <= cmdNet'[j]
  <2>1. j + 1 \in DOMAIN cmdNet /\ cmdNet'[j] = cmdNet[j + 1] /\ j \in Nat
    BY <1>2, <1>7
  <2>2. /\ \A i \in DOMAIN cmdNet : i <= j + 1 => cmdNet[i] <= cmdNet[j + 1]
        /\ \A t \in Targets : setting[t] <= cmdNet[j + 1]
    BY <1>7, <2>1 DEF QueueInOrder
  <2>3. c <= cmdNet'[j]
    <3>1. 1 <= j + 1
      BY <2>1
    <3> QED BY <1>2, <2>1, <2>2, <3>1
  <2>4. \A i \in DOMAIN cmdNet' : i <= j => cmdNet'[i] <= cmdNet'[j]
    BY <1>2, <2>1, <2>2
  <2> QED BY <1>3, <2>1, <2>2, <2>3, <2>4
<1>8. \A t \in Targets : setting'[t] <= deq
  BY <1>3, <1>4 DEF QueueInOrder
<1> QED BY <1>2, <1>6, <1>7, <1>8 DEF QueueInOrder

(* A step keeps the order, and sends a device back to an earlier command   *)
(* only by a restart or with one that paho has sent again.                 *)
LEMMA OrderStep ==
  ASSUME TypeOK, InFlight, QueueInOrder, [Next]_vars
  PROVE  /\ QueueInOrder'
         /\ \A t \in Targets : setting'[t] # NoCmd /\ setting'[t] < setting[t]
              => setting'[t] \in resent
<1>1. /\ deq \in Nat /\ stored \subseteq Cmd /\ resent \subseteq Cmd
      /\ cmdNet \in Seq(Cmd)
      /\ \A t \in Targets : setting[t] \in Nat
      /\ \A i \in DOMAIN cmdNet : cmdNet[i] \in Nat
      /\ pc \in Busy => deq \in Cmd
  <2>1. cmdNet \in Seq(Cmd) /\ \A t \in Targets : setting[t] \in Nat
    BY DEF TypeOK, LinkTypeOK, Cmd, NoCmd
  <2>2. \A i \in DOMAIN cmdNet : cmdNet[i] \in Nat
    BY <2>1 DEF Cmd
  <2> QED BY <2>1, <2>2 DEF TypeOK, LinkTypeOK
<1>2. CASE Link
  <2>1. deq' = deq
    BY <1>2 DEF Link, dispVars, loopVars
  <2>2. CASE PlcExecute
    BY <2>1, <2>2, OrderExecute
  <2>3. CASE PlcCrash
    <3>1. /\ cmdNet' = cmdNet /\ resent' = resent
          /\ setting' = [t \in Targets |-> NoCmd]
      BY <2>3 DEF PlcCrash
    <3>2. \A t \in Targets : setting'[t] = 0
      BY <3>1 DEF NoCmd
    <3> QED BY <1>1, <2>1, <3>1, <3>2 DEF QueueInOrder, NoCmd
  <2>4. CASE ResendStored
    <3>1. PICK c \in stored : cmdNet' = Append(cmdNet, c)
                              /\ resent' = resent \cup {c}
      BY <2>4 DEF ResendStored
    <3>2. setting' = setting
      BY <2>4 DEF ResendStored
    <3>3. c \in Cmd /\ QueueInOrder'
      BY <1>1, <2>1, <3>1, <3>2, OrderAppend
    <3> QED BY <1>1, <3>2, <3>3
  <2>5. CASE BrokerDropsFeedback \/ ConnectionLost \/ Reconnect
    <3>1. UNCHANGED <<cmdNet, setting, resent>>
      BY <2>5 DEF BrokerDropsFeedback, ConnectionLost, Reconnect
    <3> QED BY <1>1, <2>1, <3>1 DEF QueueInOrder
  <2> QED BY <1>2, <2>2, <2>3, <2>4, <2>5 DEF Link, LinkNext
<1>3. CASE TakeCommand
  <2>1. deq' = deq + 1 /\ UNCHANGED <<cmdNet, setting, resent>>
    BY <1>3 DEF TakeCommand, linkVars
  <2>2. \A t \in Targets : setting[t] <= deq'
    BY <1>1, <2>1 DEF QueueInOrder
  <2> QED BY <1>1, <2>1, <2>2 DEF QueueInOrder
<1>4. CASE Publish \/ PubackLost
  <2>1. /\ cmdNet' = Append(cmdNet, deq) /\ deq \in Cmd
        /\ UNCHANGED <<setting, resent, deq>>
    BY <1>1, <1>4 DEF Publish, PubackLost, loopVars, Busy
  <2>2. QueueInOrder'
    BY <2>1, OrderAppend
  <2> QED BY <1>1, <2>1, <2>2
<1>5. CASE UNCHANGED <<cmdNet, setting, resent, deq>>
  BY <1>1, <1>5 DEF QueueInOrder
<1> QED BY <1>2, <1>3, <1>4, <1>5, OrderFrame

(* A device goes back to an earlier command only by restarting, or with a  *)
(* command that paho has sent again after a lost connection.               *)
THEOREM DevicesInOrder == Spec => SettingInOrder
<1> DEFINE Inv == TypeOK /\ InFlight /\ QueueInOrder
<1>1. Init => Inv
  <2> SUFFICES ASSUME Init PROVE InFlight /\ QueueInOrder
    BY TypeInit
  <2>1. cmdNet = <<>> /\ fbNet = <<>> /\ stored = {} /\ deq = 0
        /\ \A t \in Targets : setting[t] = 0
    BY DEF Init, LinkInit, NoCmd
  <2> QED BY <2>1 DEF InFlight, QueueInOrder
<1>2. Inv /\ [Next]_vars => Inv'
  BY TypeStep, FlightStep, OrderStep
<1>3. Inv /\ [Next]_vars
        => [\A t \in Targets : setting'[t] # NoCmd /\ setting'[t] < setting[t]
              => setting'[t] \in resent]_vars
  BY OrderStep
<1> HIDE DEF Inv
<1> QED BY <1>1, <1>2, <1>3, PTL DEF Spec, SettingInOrder
=============================================================================
