---------------------------- MODULE AlarmProofs ----------------------------
(***************************************************************************)
(* Proofs about AlarmMonitor, for all boreholes and stations, windows,     *)
(* delays, numbers of readings and of failures.                            *)
(***************************************************************************)
EXTENDS AlarmMonitor, TLAPS, FiniteSetTheorems

USE MonitorAssumption

-----------------------------------------------------------------------------
(* The tables and the alert in hand.                                       *)

(* An alert about a source is one the table can hold.                      *)
LEMMA AlertOfSource ==
  ASSUME TypeOK, NEW s \in Sources
  PROVE  /\ AlertFor(s) \in Alerts /\ AlertFor(s).at = now
         /\ AlertFor(s).type = s[1] /\ AlertFor(s).id = s[2]
         /\ <<AlertFor(s).type, AlertFor(s).id>> = s
BY DEF TypeOK, Sources, AlertFor, Alerts, Types

(* A window is a number of intervals, and not none.                        *)
LEMMA WindowIsPositive ==
  ASSUME NEW type \in Types PROVE Window(type) \in Nat \ {0}
BY DEF Types, Window

(* Every action keeps the types.                                           *)
LEMMA TypeStep ==
  ASSUME AlarmInv, [Next]_vars PROVE TypeOK'
<1> USE DEF AlarmInv
<1>1. ASSUME hand' = {} \/ \E a \in Alerts : hand' = {a}
      PROVE  hand' \subseteq Alerts /\ Cardinality(hand') <= 1
  <2>1. CASE hand' = {}
    BY <2>1, FS_EmptySet
  <2>2. ASSUME NEW a \in Alerts, hand' = {a}
        PROVE  hand' \subseteq Alerts /\ Cardinality(hand') <= 1
    <3>1. Cardinality({a}) = 1
      BY FS_Singleton
    <3> QED BY <2>2, <3>1
  <2> QED BY <1>1, <2>1, <2>2
<1>2. CASE Tick
  BY <1>2 DEF Tick, TypeOK, passVars, scanVars, tableVars
<1>3. ASSUME NEW s \in Sources, Report(s) PROVE TypeOK'
  <2>1. /\ DOMAIN readings' = Sources
        /\ \A t \in Sources : readings'[t] \subseteq Readings(t)
    BY <1>3 DEF Report, TypeOK
  <2> QED BY <1>3, <2>1 DEF Report, TypeOK, passVars, scanVars
<1>4. CASE Trigger \/ StartPass
  <2>1. CASE Trigger
    BY <2>1 DEF Trigger, TypeOK, passVars, scanVars, tableVars
  <2>2. CASE StartPass
    <3>1. check' \in Types /\ pc' \in {"idle", "query", "scan"} /\ passAge' \in 0..1
      BY <2>2 DEF StartPass, Types
    <3> QED BY <2>2, <3>1 DEF StartPass, TypeOK, scanVars, tableVars
  <2> QED BY <1>4, <2>1, <2>2
<1>5. CASE Query
  BY <1>5 DEF Query, TypeOK, tableVars, MayFind
<1>6. CASE QueryFails \/ EndScan
  BY <1>6 DEF QueryFails, EndScan, NextCheck, Fails, TypeOK, scanVars, tableVars, Types
<1>7. ASSUME NEW s \in Sources, Visit(s) \/ VisitFails(s) PROVE TypeOK'
  <2>1. hand' \subseteq Alerts /\ Cardinality(hand') <= 1
    BY <1>1, <1>7, AlertOfSource DEF Visit, VisitFails, OneInHand
  <2> QED BY <1>7, <2>1 DEF Visit, VisitFails, Fails, TypeOK, tableVars
<1>8. CASE Store
  BY <1>8 DEF Store, TypeOK
<1>9. CASE StoreFails \/ Announce \/ Crash
  <2>1. hand' \subseteq Alerts /\ Cardinality(hand') <= 1
    BY <1>1, <1>9 DEF StoreFails, Announce, Crash
  <2>2. CASE StoreFails
    BY <2>1, <2>2 DEF StoreFails, Fails, TypeOK
  <2>3. CASE Announce
    BY <2>1, <2>3 DEF Announce, TypeOK, tableVars
  <2>4. CASE Crash
    <3>1. /\ check' \in Types /\ pc' \in {"idle", "query", "scan"}
          /\ passAge' \in 0..1 /\ troubles' \in 0..MaxTroubles
      BY <2>4 DEF Crash, Fails, TypeOK, Types
    <3> QED BY <2>1, <2>4, <3>1 DEF Crash, TypeOK, tableVars
  <2> QED BY <1>9, <2>2, <2>3, <2>4
<1>10. CASE Rest \/ UNCHANGED vars
  BY <1>10 DEF Rest, vars, passVars, scanVars, tableVars, TypeOK
<1> QED BY <1>2, <1>3, <1>4, <1>5, <1>6, <1>7, <1>8, <1>9, <1>10
        DEF Next, Monitor

-----------------------------------------------------------------------------
(* What a pass holds.                                                      *)

(* An alert in hand is always of a source of the check that runs.          *)
LEMMA PassStep ==
  ASSUME AlarmInv, [Next]_vars PROVE PassStarted' /\ OneInHand'
<1>1. OneInHand'
  BY AlertOfSource DEF AlarmInv, OneInHand, Next, Monitor, Tick, Report, Trigger,
     StartPass, Query, QueryFails, EndScan, Visit, VisitFails, Store, StoreFails,
     Announce, Crash, Rest, vars, passVars, scanVars
<1>2. PassStarted'
  <2> USE DEF AlarmInv, PassStarted
  <2>1. CASE Tick \/ (\E s \in Sources : Report(s)) \/ Trigger \/ Rest \/ UNCHANGED vars
    BY <2>1 DEF Tick, Report, Trigger, Rest, vars, passVars, scanVars
  <2>2. CASE StartPass \/ Query \/ QueryFails \/ EndScan
    BY <2>2 DEF StartPass, Query, QueryFails, EndScan, NextCheck, scanVars
  <2>3. CASE (\E s \in Sources : Visit(s) \/ VisitFails(s)) \/ Store \/ Crash
    BY <2>3 DEF Visit, VisitFails, Store, Crash
  <2>4. CASE StoreFails \/ Announce
    BY <2>4 DEF StoreFails, Announce
  <2> QED BY <2>1, <2>2, <2>3, <2>4 DEF Next, Monitor
<1> QED BY <1>1, <1>2

(* Time only passes, and what is stored or made carries the time it is.    *)
LEMMA TimeStep ==
  ASSUME AlarmInv, [Next]_vars PROVE NothingAhead'
<1> USE DEF AlarmInv, NothingAhead
<1>1. now \in Int /\ asked \in Int /\ \A a \in Alerts : a.at \in Int
  BY DEF TypeOK, Alerts
<1>2. \A s \in Sources : \A r \in readings[s] : r.stored \in Int
  BY DEF TypeOK, Readings
<1>3. CASE Tick
  BY <1>1, <1>2, <1>3 DEF Tick, TypeOK, tableVars, scanVars
<1>4. ASSUME NEW s \in Sources, Report(s) PROVE NothingAhead'
  <2>1. PICK r \in Readings(s) :
          r.stored = now /\ readings' = [readings EXCEPT ![s] = @ \cup {r}]
    BY <1>4 DEF Report
  <2>2. \A t \in Sources : \A q \in readings'[t] : q.stored <= now
    BY <2>1, <1>1 DEF TypeOK
  <2> QED BY <1>4, <2>2 DEF Report, passVars, scanVars
<1>5. CASE Query
  BY <1>5, <1>1 DEF Query, tableVars
<1>6. ASSUME NEW s \in Sources, Visit(s) \/ VisitFails(s) PROVE NothingAhead'
  <2>1. \A a \in hand' : a.at <= now
    BY <1>6, <1>1, AlertOfSource DEF Visit, VisitFails
  <2> QED BY <1>6, <2>1 DEF Visit, VisitFails, tableVars
<1>7. CASE Store \/ StoreFails \/ Announce \/ Crash
  BY <1>7 DEF Store, StoreFails, Announce, Crash, tableVars
<1>8. CASE Trigger \/ StartPass \/ QueryFails \/ EndScan \/ Rest \/ UNCHANGED vars
  BY <1>8 DEF Trigger, StartPass, QueryFails, EndScan, Rest, vars, passVars,
     scanVars, tableVars
<1> QED BY <1>3, <1>4, <1>5, <1>6, <1>7, <1>8 DEF Next, Monitor
-----------------------------------------------------------------------------
(* What makes an alert.                                                    *)

(* A reading that is stored after the query cannot take the cause away.    *)
LEMMA ReportKeepsCause ==
  ASSUME AlarmInv, NEW t \in Sources, Report(t), NEW s \in Sources, Founded(s)
  PROVE  Founded(s)'
<1>1. PICK q \in Readings(t) :
        q.stored = now /\ readings' = [readings EXCEPT ![t] = @ \cup {q}]
  BY DEF Report
<1>2. readings[s] \subseteq readings'[s] /\ readings'[s] \subseteq readings[s] \cup {q}
  BY <1>1 DEF AlarmInv, TypeOK
<1>3. ~(q.stored < asked) /\ asked' = asked
  BY <1>1 DEF AlarmInv, NothingAhead, TypeOK, Report, passVars
<1> QED BY <1>2, <1>3 DEF Founded

(* A borehole the query returns gives cause for an alert at that moment.   *)
LEMMA QueryFindsCause ==
  ASSUME AlarmInv, Query, NEW s \in todo', s[1] = "low_efficiency"
  PROVE  Founded(s)'
<1>1. s \in Sources /\ IsLow(s)
  BY DEF Query, MayFind
<1>2. /\ Recent(s) # {} /\ asked' = now /\ readings' = readings
      /\ \A r \in Recent(s) : r.stored <= now /\ r.value = 0
      /\ Recent(s) = {r \in readings[s] : r.recorded > now - LowWindow}
  BY <1>1 DEF IsLow, Recent, Window, AlarmInv, NothingAhead, Query, tableVars
<1> QED BY <1>2 DEF Founded

(* Whatever is to visit or in hand has its cause.                          *)
LEMMA CausedStep ==
  ASSUME AlarmInv, [Next]_vars PROVE Caused'
<1> USE DEF AlarmInv, Caused
<1>1. todo \subseteq Sources
  BY DEF TypeOK
<1>2. ASSUME UNCHANGED <<readings, asked>>, NEW s, Founded(s) PROVE Founded(s)'
  BY <1>2 DEF Founded
<1>3. ASSUME UNCHANGED <<readings, asked>>, todo' \subseteq todo, hand' \subseteq hand
      PROVE  Caused'
  BY <1>2, <1>3
<1>4. CASE Tick \/ Trigger \/ StartPass \/ QueryFails \/ EndScan \/ Rest \/ UNCHANGED vars
  BY <1>3, <1>4 DEF Tick, Trigger, StartPass, QueryFails, EndScan, Rest, vars,
     passVars, scanVars, tableVars
<1>5. CASE Store \/ StoreFails \/ Announce \/ Crash
  BY <1>3, <1>5 DEF Store, StoreFails, Announce, Crash, tableVars
<1>6. ASSUME NEW t \in Sources, Report(t) PROVE Caused'
  BY <1>1, <1>6, ReportKeepsCause DEF Report, passVars, scanVars
<1>7. CASE Query
  <2>1. hand' = {}
    BY <1>7 DEF Query, PassStarted
  <2> QED BY <1>7, <2>1, QueryFindsCause
<1>8. ASSUME NEW s \in Sources, Visit(s) PROVE Caused'
  <2>1. /\ s \in todo /\ todo' \subseteq todo /\ UNCHANGED <<readings, asked>>
        /\ hand' = {} \/ hand' = {AlertFor(s)}
    BY <1>8 DEF Visit, tableVars
  <2> QED BY <2>1, <1>1, <1>2, AlertOfSource
<1>9. ASSUME NEW s \in Sources, VisitFails(s) PROVE Caused'
  BY <1>3, <1>9 DEF VisitFails, tableVars
<1> QED BY <1>4, <1>5, <1>6, <1>7, <1>8, <1>9 DEF Next, Monitor

(* The exists query is still true of the table when the INSERT runs: only  *)
(* the pass writes alerts, and there is one pass at a time.                *)
LEMMA VettedStep ==
  ASSUME AlarmInv, [Next]_vars PROVE Vetted'
<1> USE DEF AlarmInv, Vetted
<1>1. CASE Tick \/ (\E s \in Sources : Report(s)) \/ Trigger \/ StartPass \/ Query
           \/ QueryFails \/ EndScan \/ Rest \/ UNCHANGED vars
  BY <1>1 DEF Tick, Report, Trigger, StartPass, Query, QueryFails, EndScan, Rest,
     vars, passVars, scanVars, tableVars
<1>2. ASSUME NEW s \in Sources, VisitFails(s) PROVE Vetted'
  BY <1>2 DEF VisitFails, tableVars
<1>3. ASSUME NEW s \in Sources, Visit(s) PROVE Vetted'
  <2>1. ~saved' /\ alerts' = alerts
    BY <1>3 DEF Visit, tableVars, PassStarted
  <2>2. ASSUME NEW a \in hand', NEW b \in alerts, a.type = b.type, a.id = b.id
        PROVE  b.at + Window(a.type) <= a.at
    <3>1. ~Exists(s) /\ a.type = s[1] /\ a.id = s[2] /\ a.at = now
      BY <1>3, <2>2, AlertOfSource DEF Visit
    <3>2. ~(b.at > now - Window(a.type))
      BY <2>2, <3>1 DEF Exists
    <3>3. b.at \in Int /\ now \in Int /\ Window(a.type) \in Int
      BY <2>2, <3>1, WindowIsPositive DEF TypeOK, Alerts, Sources, Types
    <3> QED BY <3>1, <3>2, <3>3
  <2> QED BY <2>1, <2>2
<1>4. CASE Store
  BY <1>4 DEF Store
<1>5. CASE StoreFails \/ Announce \/ Crash
  BY <1>5 DEF StoreFails, Announce, Crash, PassStarted
<1> QED BY <1>1, <1>2, <1>3, <1>4, <1>5 DEF Next, Monitor

(* The alert in hand keeps its distance from those of its kind.            *)
LEMMA ApartStep ==
  ASSUME AlarmInv, [Next]_vars PROVE AlertsApart'
<1> USE DEF AlarmInv
<1>1. CASE alerts' = alerts
  BY <1>1 DEF AlertsApart
<1>2. ASSUME alerts' = alerts \cup hand, ~saved PROVE AlertsApart'
  <2> SUFFICES ASSUME NEW a \in alerts \cup hand, NEW b \in alerts \cup hand,
                      a # b, a.type = b.type, a.id = b.id
               PROVE  Distance(a.at, b.at) >= Window(a.type)
    BY <1>2 DEF AlertsApart
  <2>1. /\ a.at \in Int /\ b.at \in Int
        /\ Window(a.type) \in Nat \ {0} /\ Window(b.type) = Window(a.type)
    BY WindowIsPositive DEF TypeOK, Alerts
  <2>2. CASE a \in alerts /\ b \in alerts
    BY <2>2 DEF AlertsApart
  <2>3. CASE a \in hand /\ b \in alerts
    BY <1>2, <2>1, <2>3 DEF Vetted, Distance
  <2>4. CASE a \in alerts /\ b \in hand
    BY <1>2, <2>1, <2>4 DEF Vetted, Distance
  <2> QED BY <2>2, <2>3, <2>4 DEF OneInHand
<1>3. alerts' = alerts \/ (alerts' = alerts \cup hand /\ ~saved)
  BY DEF Next, Monitor, Tick, Report, Trigger, StartPass, Query, QueryFails, EndScan,
     Visit, VisitFails, Store, StoreFails, Announce, Crash, Rest, vars, tableVars
<1> QED BY <1>1, <1>2, <1>3

(* What is broadcast has been stored, and stays.                           *)
LEMMA AnnouncedStep ==
  ASSUME AlarmInv, [Next]_vars PROVE AnnouncedIsStored'
<1>1. announced' = announced \/ (saved /\ announced' = announced \cup hand)
  BY DEF Next, Monitor, Tick, Report, Trigger, StartPass, Query, QueryFails, EndScan,
     Visit, VisitFails, Store, StoreFails, Announce, Crash, Rest, vars
<1>2. alerts \subseteq alerts'
  BY DEF Next, Monitor, Tick, Report, Trigger, StartPass, Query, QueryFails, EndScan,
     Visit, VisitFails, Store, StoreFails, Announce, Crash, Rest, vars, tableVars
<1> QED BY <1>1, <1>2 DEF AlarmInv, AnnouncedIsStored, Vetted

-----------------------------------------------------------------------------
(* The theorems.                                                           *)

(* The invariant holds at the start and is kept by every step.             *)
THEOREM Invariance == Spec => []AlarmInv
<1>1. Init => AlarmInv
  <2> SUFFICES ASSUME Init PROVE AlarmInv
    OBVIOUS
  <2>1. TypeOK
    <3>1. Cardinality(hand) <= 1
      BY FS_EmptySet DEF Init
    <3>2. check \in Types /\ now \in 0..MaxTime /\ troubles \in 0..MaxTroubles
      BY DEF Init, Types
    <3>3. DOMAIN readings = Sources /\ \A s \in Sources : readings[s] \subseteq Readings(s)
      BY DEF Init
    <3>4. passAge \in 0..1 /\ asked \in 0..MaxTime /\ hand = {}
      BY DEF Init
    <3> QED BY <3>1, <3>2, <3>3, <3>4 DEF Init, TypeOK
  <2>2. PassStarted /\ OneInHand /\ Vetted /\ Caused
    BY DEF Init, PassStarted, OneInHand, Vetted, Caused
  <2>3. NothingAhead /\ AlertsApart /\ AnnouncedIsStored
    BY DEF Init, NothingAhead, AlertsApart, AnnouncedIsStored
  <2> QED BY <2>1, <2>2, <2>3 DEF AlarmInv
<1>2. AlarmInv /\ [Next]_vars => AlarmInv'
  BY TypeStep, PassStep, TimeStep, VettedStep, CausedStep, ApartStep, AnnouncedStep
     DEF AlarmInv
<1> QED BY <1>1, <1>2, PTL DEF Spec

(* Every variable keeps its type, and one alert at a time is in hand.      *)
THEOREM TypeCorrect == Spec => []TypeOK
BY Invariance, PTL DEF AlarmInv

(* Two alerts of one type for one source are never closer than the window, *)
(* whatever fails and however often the server is started again.           *)
THEOREM AlertsStayApart == Spec => []AlertsApart
BY Invariance, PTL DEF AlarmInv

(* What is broadcast is in the table, whatever becomes of an INSERT.       *)
THEOREM AnnouncedAreStored == Spec => []AnnouncedIsStored
BY Invariance, PTL DEF AlarmInv

(* A low-efficiency alert that is stored had, when the query ran, the      *)
(* readings that the query asks for: low ones and no other in its window.  *)
THEOREM AlertsAreFounded == Spec => AlertIsFounded
<1>1. AlarmInv /\ [Next]_vars =>
        [\A a \in alerts' \ alerts : a.type = "low_efficiency" =>
           LET InWindow ==
                 {r \in readings[<<a.type, a.id>>] : r.recorded > asked - LowWindow}
           IN /\ \E r \in InWindow : r.stored <= asked /\ r.value = 0
              /\ \A r \in InWindow : r.stored < asked => r.value = 0]_vars
  <2> SUFFICES ASSUME AlarmInv, [Next]_vars, NEW a \in alerts' \ alerts,
                      a.type = "low_efficiency"
               PROVE  Founded(<<a.type, a.id>>)
    BY DEF Founded
  <2>1. a \in hand
    BY DEF Next, Monitor, Tick, Report, Trigger, StartPass, Query, QueryFails, EndScan,
       Visit, VisitFails, Store, StoreFails, Announce, Crash, Rest, vars, tableVars
  <2> QED BY <2>1 DEF AlarmInv, Caused
<1> QED BY <1>1, Invariance, PTL DEF Spec, AlertIsFounded
=============================================================================
