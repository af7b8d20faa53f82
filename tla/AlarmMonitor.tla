---------------------------- MODULE AlarmMonitor ----------------------------
(***************************************************************************)
(* alarm_monitor.AlarmMonitor: a ticker that triggers passes through a     *)
(* channel of one, and a pass: the low-efficiency check of the boreholes,  *)
(* then the pressure check of the pump stations.  Each check queries the   *)
(* readings once and then, for every source found, looks for a recent      *)
(* alert of the same type, inserts one and broadcasts it.                  *)
(*                                                                         *)
(* Time is counted in intervals of the ticker.                             *)
(***************************************************************************)
EXTENDS Integers, FiniteSets, FiniteSetsExt

CONSTANTS
  Boreholes,  (* ids                                                        *)
  Stations,   (* ids; a pump station may have the id of a borehole          *)
  Pressures,  (* negative pressures a pump station reports                  *)
  LowWindow,  (* 30 minutes: of the low-efficiency check, and of its alerts *)
  PresWindow, (* 1 hour: the same for the pressure check                    *)
  MaxDelay,   (* how late a reading may be stored (a bound)                 *)
  MaxReports, (* readings that are stored (bounds the model)                *)
  MaxTime,    (* intervals (bounds the model)                               *)
  MaxTroubles (* statements that fail and deaths of the server (a bound)    *)

ASSUME MonitorAssumption ==
  /\ Pressures \subseteq Nat
  /\ LowWindow \in Nat \ {0} /\ PresWindow \in Nat \ {0}
  /\ MaxDelay \in Nat /\ MaxReports \in Nat
  /\ MaxTime \in Nat /\ MaxTroubles \in Nat

Types == {"low_efficiency", "pressure_anomaly"}
Sources ==
  ({"low_efficiency"} \X Boreholes) \cup ({"pressure_anomaly"} \X Stations)
Window(type) == IF type = "low_efficiency" THEN LowWindow ELSE PresWindow

(* A reading: recorded_at, when it was stored, and what it says: of a      *)
(* borehole 0 (below 10% gas) or 1, of a pump station its pressure.        *)
Readings(s) ==
  [recorded : 0..MaxTime, stored : 0..MaxTime,
   value : IF s[1] = "low_efficiency" THEN {0, 1} ELSE Pressures]

Alerts == [type : Types, id : Boreholes \cup Stations, at : 0..MaxTime]

VARIABLES
  now,       (* the clock                                                   *)
  readings,  (* borehole_data and pump_station_data, by source              *)
  alerts,    (* the alerts table                                            *)
  announced, (* alerts that were broadcast                                  *)
  due,       (* the ticker's channel holds a tick                           *)
  trigger,   (* TriggerCh holds one                                         *)
  pc,        (* "idle", or at the "query" or the "scan" of a check          *)
  check,     (* the type of alert it is about                               *)
  todo,      (* the sources the query returned and that are still to visit  *)
  hand,      (* the alert about to be stored, then announced, if there is   *)
  saved,     (* the alert in hand is stored                                 *)
  passAge,   (* intervals that ended during the pass: it has 30 seconds     *)
  asked,     (* when the query of the check ran                             *)
  troubles   (* statements that have failed and deaths of the server        *)

scanVars == <<todo, hand, saved>>
tableVars == <<readings, alerts>>
passVars == <<pc, check, scanVars, passAge, asked>>
vars == <<now, tableVars, announced, due, trigger, passVars, troubles>>

TypeOK ==
  /\ now \in 0..MaxTime
  /\ DOMAIN readings = Sources
  /\ \A s \in Sources : readings[s] \subseteq Readings(s)
  /\ alerts \subseteq Alerts
  /\ announced \subseteq Alerts
  /\ due \in BOOLEAN /\ trigger \in BOOLEAN
  /\ pc \in {"idle", "query", "scan"}
  /\ check \in Types
  /\ todo \subseteq Sources
  /\ hand \subseteq Alerts /\ Cardinality(hand) <= 1
  /\ saved \in BOOLEAN
  /\ passAge \in 0..1
  /\ asked \in 0..MaxTime
  /\ troubles \in 0..MaxTroubles

Init ==
  /\ now = 0
  /\ readings = [s \in Sources |-> {}]
  /\ alerts = {} /\ announced = {}
  /\ due = FALSE /\ trigger = FALSE
  /\ pc = "idle" /\ check = "low_efficiency"
  /\ todo = {} /\ hand = {} /\ saved = FALSE
  /\ passAge = 0 /\ asked = 0
  /\ troubles = 0

-----------------------------------------------------------------------------
(* What the queries say at the moment they run.                            *)

Recent(s) == {r \in readings[s] : r.recorded > now - Window(s[1])}

(* Variant of IsLow: HAVING MIN(gas_concentration) < 10.                   *)
IsLowOnce(s) == \E r \in Recent(s) : r.value = 0

(* HAVING MAX(gas_concentration) < 10, in a group that is not empty.       *)
IsLow(s) == Recent(s) # {} /\ \A r \in Recent(s) : r.value = 0

Total(R) == MapThenSumSet(LAMBDA r : r.value, R)

Distance(a, b) == IF a > b THEN a - b ELSE b - a

(* The pressure v is more than 20% off the average of the last hour.       *)
Deviates(v, s) ==
  LET total == Total(Recent(s)) IN
    total # 0 /\ 5 * Distance(Cardinality(Recent(s)) * v, total) > total

Latest(s) ==
  {r \in readings[s] : \A q \in readings[s] : q.recorded <= r.recorded}

(* DISTINCT ON takes one of the latest readings, any one.                  *)
MustFind(type) ==
  {s \in Sources : s[1] = type /\
     IF type = "low_efficiency"
     THEN IsLow(s)
     ELSE Recent(s) # {} /\ \A r \in Latest(s) : Deviates(r.value, s)}

MayFind(type) ==
  {s \in Sources : s[1] = type /\
     IF type = "low_efficiency"
     THEN IsLow(s)
     ELSE Recent(s) # {} /\ \E r \in Latest(s) : Deviates(r.value, s)}

(* SELECT EXISTS: a recent alert of the type for the id.                   *)
Exists(s) ==
  \E a \in alerts :
    a.type = s[1] /\ a.id = s[2] /\ a.at > now - Window(s[1])

-----------------------------------------------------------------------------
(* Time, and the readings the collector stores meanwhile.                  *)

(* An interval ends; the ticker drops a tick when its channel is full.     *)
Tick ==
  /\ now < MaxTime
  /\ pc = "idle" \/ passAge = 0
  /\ now' = now + 1
  /\ due' = TRUE
  /\ passAge' = IF pc = "idle" THEN 0 ELSE 1
  /\ UNCHANGED <<tableVars, announced, trigger, pc, check, scanVars, asked>>
  /\ UNCHANGED troubles

(* How many readings are stored (bounds the model).                        *)
ReportCount == MapThenSumSet(LAMBDA s : Cardinality(readings[s]), Sources)

(* A reading is stored, in time or late; a source has one at a time.       *)
Report(s) ==
  /\ now < MaxTime
  /\ ReportCount < MaxReports
  /\ \A r \in readings[s] : r.stored < now
  /\ \E r \in Readings(s) :
       /\ r.stored = now
       /\ r.recorded <= now /\ now <= r.recorded + MaxDelay
       /\ readings' = [readings EXCEPT ![s] = @ \cup {r}]
  /\ UNCHANGED <<now, alerts, announced, due, trigger, passVars, troubles>>

-----------------------------------------------------------------------------
(* Start.                                                                  *)

(* Variant of Trigger: a channel without a buffer.                         *)
TriggerUnbuffered ==
  /\ due
  /\ due' = FALSE
  /\ trigger' = (pc = "idle")
  /\ UNCHANGED <<now, tableVars, announced, passVars, troubles>>

(* The ticker goroutine; a trigger that waits already stands for this one. *)
Trigger ==
  /\ due
  /\ due' = FALSE
  /\ trigger' = TRUE
  /\ UNCHANGED <<now, tableVars, announced, passVars, troubles>>

StartPass ==
  /\ pc = "idle" /\ trigger
  /\ trigger' = FALSE
  /\ pc' = "query" /\ check' = "low_efficiency"
  /\ passAge' = 0
  /\ UNCHANGED <<now, tableVars, announced, due, scanVars, asked, troubles>>

(* The pass goes on with the pressure check, or it is over.                *)
NextCheck ==
  /\ check' = IF check = "low_efficiency" THEN "pressure_anomaly"
                                         ELSE "low_efficiency"
  /\ pc' = IF check = "low_efficiency" THEN "query" ELSE "idle"

Query ==
  /\ pc = "query"
  /\ \E found \in SUBSET MayFind(check) :
       MustFind(check) \subseteq found /\ todo' = found
  /\ asked' = now
  /\ pc' = "scan"
  /\ UNCHANGED <<now, tableVars, announced, due, trigger, check, hand, saved>>
  /\ UNCHANGED <<passAge, troubles>>

(* A statement fails, or the 30 seconds of the pass are over.              *)
Fails == troubles < MaxTroubles /\ troubles' = troubles + 1

QueryFails ==
  /\ pc = "query" /\ Fails
  /\ NextCheck
  /\ UNCHANGED <<now, tableVars, announced, due, trigger, scanVars>>
  /\ UNCHANGED <<passAge, asked>>

(* Variant of AlertFor: created_at comes from a clock that is ahead.       *)
AlertForAhead(s) == [type |-> s[1], id |-> s[2], at |-> now + 1]

AlertFor(s) == [type |-> s[1], id |-> s[2], at |-> now]

(* Variant of VisitFails: an exists query that fails counts as "no".       *)
VisitFailsOpen(s) ==
  /\ pc = "scan" /\ hand = {} /\ s \in todo
  /\ Fails
  /\ todo' = todo \ {s}
  /\ hand' = {AlertFor(s)}
  /\ UNCHANGED <<now, tableVars, announced, due, trigger, pc, check, saved>>
  /\ UNCHANGED <<passAge, asked>>

(* The exists query fails: the source is skipped.                          *)
VisitFails(s) ==
  /\ pc = "scan" /\ hand = {} /\ s \in todo
  /\ Fails
  /\ todo' = todo \ {s}
  /\ UNCHANGED <<now, tableVars, announced, due, trigger, pc, check, hand, saved>>
  /\ UNCHANGED <<passAge, asked>>

(* The exists query, and the alert made of its answer.                     *)
Visit(s) ==
  /\ pc = "scan" /\ hand = {} /\ s \in todo
  /\ todo' = todo \ {s}
  /\ hand' = IF Exists(s) THEN {} ELSE {AlertFor(s)}
  /\ UNCHANGED <<now, tableVars, announced, due, trigger, pc, check, saved>>
  /\ UNCHANGED <<passAge, asked, troubles>>

Store ==
  /\ hand # {} /\ ~saved
  /\ alerts' = alerts \cup hand
  /\ saved' = TRUE
  /\ UNCHANGED <<now, readings, announced, due, trigger, pc, check, todo, hand>>
  /\ UNCHANGED <<passAge, asked, troubles>>

(* Variant of StoreFails: the alert is broadcast all the same.             *)
StoreFailsAnnounced ==
  /\ hand # {} /\ ~saved /\ Fails
  /\ announced' = announced \cup hand
  /\ hand' = {}
  /\ UNCHANGED <<now, tableVars, due, trigger, pc, check, todo, saved>>
  /\ UNCHANGED <<passAge, asked>>

(* The INSERT fails, or the 30 seconds end before its reply is there.      *)
StoreFails ==
  /\ hand # {} /\ ~saved /\ Fails
  /\ hand' = {}
  /\ alerts' = alerts \/ alerts' = alerts \cup hand
  /\ UNCHANGED <<now, readings, announced, due, trigger, pc, check, todo, saved>>
  /\ UNCHANGED <<passAge, asked>>

Announce ==
  /\ saved
  /\ announced' = announced \cup hand
  /\ hand' = {} /\ saved' = FALSE
  /\ UNCHANGED <<now, tableVars, due, trigger, pc, check, todo>>
  /\ UNCHANGED <<passAge, asked, troubles>>

EndScan ==
  /\ pc = "scan" /\ hand = {} /\ todo = {}
  /\ NextCheck
  /\ UNCHANGED <<now, tableVars, announced, due, trigger, scanVars>>
  /\ UNCHANGED <<passAge, asked, troubles>>

(* The server dies and is started again; the tables stay.                  *)
Crash ==
  /\ Fails
  /\ due' = FALSE /\ trigger' = FALSE
  /\ pc' = "idle" /\ check' = "low_efficiency"
  /\ todo' = {} /\ hand' = {} /\ saved' = FALSE
  /\ passAge' = 0
  /\ UNCHANGED <<now, tableVars, announced, asked>>

(* The clock of the model has run down.                                    *)
Rest ==
  /\ now = MaxTime /\ ~due /\ ~trigger /\ pc = "idle"
  /\ UNCHANGED vars

Monitor ==
  \/ Trigger \/ StartPass \/ Query \/ QueryFails \/ EndScan
  \/ (\E s \in Sources : Visit(s) \/ VisitFails(s)) \/ Store \/ StoreFails \/ Announce

Next == Tick \/ (\E s \in Sources : Report(s)) \/ Monitor \/ Crash \/ Rest

Spec == Init /\ [][Next]_vars

(* The two goroutines of the monitor run, queries and broadcasts end, and  *)
(* time passes.                                                            *)
Fairness ==
  /\ WF_vars(Trigger)
  /\ WF_vars(StartPass \/ Query \/ QueryFails \/ EndScan
             \/ (\E s \in Sources : Visit(s) \/ VisitFails(s)) \/ Store \/ StoreFails \/ Announce)
  /\ WF_vars(Tick)

FairSpec == Spec /\ Fairness

-----------------------------------------------------------------------------
(* Properties.                                                             *)

(* Two alerts of one type for one source are at least the window apart,    *)
(* across failures and restarts, although nothing in the table forbids a   *)
(* second one and the check and the INSERT are separate statements.        *)
AlertsApart ==
  \A a, b \in alerts :
    a # b /\ a.type = b.type /\ a.id = b.id =>
      Distance(a.at, b.at) >= Window(a.type)

(* No broadcast is about an alert that GET /api/alerts would not show.     *)
AnnouncedIsStored == announced \subseteq alerts

(* A low-efficiency alert stands for what the query asks for, whatever has *)
(* been stored since: the table held a reading of the last 30 minutes of   *)
(* the borehole, and none of them was sufficient.  One fresh low reading   *)
(* is enough for that: the alert does not mean that the low value lasted.  *)
AlertIsFounded ==
  [][\A a \in alerts' \ alerts : a.type = "low_efficiency" =>
       LET InWindow ==
             {r \in readings[<<a.type, a.id>>] : r.recorded > asked - LowWindow}
       IN /\ \E r \in InWindow : r.stored <= asked /\ r.value = 0
          /\ \A r \in InWindow : r.stored < asked => r.value = 0]_vars

(* What the message of the alert says: the concentration has been below    *)
(* 10% for more than 30 minutes.  The table would have to hold a low       *)
(* reading at least as old as that, and no sufficient one since.           *)
AlertMeansLasting ==
  [][\A a \in alerts' \ alerts : a.type = "low_efficiency" =>
       LET Given == {r \in readings[<<a.type, a.id>>] : r.stored <= asked}
       IN \E low \in Given :
            /\ low.value = 0 /\ low.recorded <= asked - LowWindow
            /\ \A r \in Given :
                 r.recorded >= low.recorded /\ r.stored < asked
                   => r.value = 0]_vars

(* A source that gives cause for an alert when the readings stop has one   *)
(* in the end, unless something fails: a tick during a pass is not lost.   *)
CauseIsAlerted ==
  \A s \in Sources :
    (now = MaxTime /\ s \in MustFind(s[1])) ~> (Exists(s) \/ troubles > 0)
-----------------------------------------------------------------------------
(* The invariant that makes the properties above inductive.                *)

(* When the query of the check ran, the borehole gave cause for an alert,  *)
(* and what has been stored since cannot hide that it did.                 *)
Founded(s) ==
  LET InWindow == {r \in readings[s] : r.recorded > asked - LowWindow}
  IN /\ \E r \in InWindow : r.stored <= asked /\ r.value = 0
     /\ \A r \in InWindow : r.stored < asked => r.value = 0

(* What a pass holds is of the check whose query has run.                  *)
PassStarted ==
  /\ pc # "scan" => todo = {} /\ hand = {}
  /\ hand = {} => ~saved

(* There is at most one alert in hand.                                     *)
OneInHand == hand = {} \/ \E a \in Alerts : hand = {a}

(* Nothing in the tables or in hand is from the future.                    *)
NothingAhead ==
  /\ asked <= now
  /\ \A s \in Sources : \A r \in readings[s] : r.stored <= now
  /\ \A a \in alerts \cup hand : a.at <= now

(* The alert in hand is stored, or the window before it has none like it.  *)
Vetted ==
  IF saved THEN hand \subseteq alerts
  ELSE \A a \in hand, b \in alerts :
         a.type = b.type /\ a.id = b.id => b.at + Window(a.type) <= a.at

(* The sources still to visit and the alert in hand have their cause.      *)
Caused ==
  /\ \A s \in todo : s[1] = "low_efficiency" => Founded(s)
  /\ \A a \in hand :
       /\ <<a.type, a.id>> \in Sources
       /\ a.type = "low_efficiency" => Founded(<<a.type, a.id>>)

AlarmInv ==
  /\ TypeOK /\ PassStarted /\ OneInHand /\ NothingAhead /\ Vetted /\ Caused
  /\ AlertsApart /\ AnnouncedIsStored
=============================================================================
