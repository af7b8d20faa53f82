-------------------------- MODULE LifecycleProofs --------------------------
(***************************************************************************)
(* Proofs about Lifecycle, for every set of requests and every capacity of *)
(* DataCh, with the time limits of the code.                               *)
(***************************************************************************)
EXTENDS Lifecycle, TLAPS

USE LifecycleAssumption DEF Grace, Pause, StoreLimit

-----------------------------------------------------------------------------
(* The limits, and the step of one handler.                                *)

(* A request waits longer for its answer than for its place in DataCh, and *)
(* neither longer than Shutdown waits for the handlers.                    *)
LEMMA Limits ==
  ASSUME NEW r \in Requests
  PROVE  /\ EnqueueLimit(r) \in Nat /\ ResponseLimit(r) \in Nat
         /\ EnqueueLimit(r) <= ResponseLimit(r)
         /\ EnqueueLimit(r) < Grace /\ ResponseLimit(r) <= Grace
BY DEF EnqueueLimit, ResponseLimit

(* A handler that goes on starts its next wait at 0; the others stay.      *)
LEMMA ToEffect ==
  ASSUME TypeOK, NEW r \in Requests, NEW s, To(r, s)
  PROVE  /\ state'[r] = s /\ age'[r] = 0
         /\ \A q \in Requests \ {r} : state'[q] = state[q] /\ age'[q] = age[q]
         /\ s \in {"none", "reading", "enqueue", "wait", "answered"} =>
              /\ state' \in [Requests -> {"none", "reading", "enqueue", "wait", "answered"}]
              /\ age' \in [Requests -> 0..10]
BY DEF TypeOK, To

(* A second of the clock: every timer that runs advances by one.           *)
LEMMA TickEffect ==
  ASSUME LifecycleInv, Tick
  PROVE  /\ \A r \in Requests :
              age'[r] = IF Timed(r) THEN age[r] + 1 ELSE age[r]
         /\ age' \in [Requests -> 0..10]
         /\ mainAge' \in 0..Grace /\ eventAge' \in 0..StoreLimit
         /\ NothingOverdue'
<1> USE DEF LifecycleInv, TypeOK
<1>1. \A r \in Requests : age'[r] = IF Timed(r) THEN age[r] + 1 ELSE age[r]
  BY DEF Tick
<1>2. ASSUME NEW r \in Requests
      PROVE  /\ age'[r] \in 0..10
             /\ age'[r] <= IF state'[r] = "enqueue" THEN EnqueueLimit(r)
                           ELSE IF state'[r] = "wait" THEN ResponseLimit(r) ELSE 0
  <2>1. state'[r] = state[r] /\ age[r] \in 0..10
    BY DEF Tick
  <2>2. /\ state[r] = "enqueue" => age[r] # EnqueueLimit(r)
        /\ state[r] = "wait" => age[r] # ResponseLimit(r)
    BY DEF Tick, Due
  <2>3. CASE state[r] = "enqueue"
    <3>1. age[r] <= EnqueueLimit(r)
      BY <2>3 DEF NothingOverdue
    <3>2. age[r] < EnqueueLimit(r) /\ EnqueueLimit(r) < 10 /\ EnqueueLimit(r) \in Nat
      <4> HIDE DEF LifecycleInv, TypeOK
      <4> QED BY <2>1, <2>2, <2>3, <3>1, Limits
    <3>3. age'[r] = age[r] + 1
      BY <1>1, <2>3 DEF Timed
    <3> HIDE DEF LifecycleInv, TypeOK
    <3> QED BY <2>1, <2>3, <3>2, <3>3
  <2>4. CASE state[r] = "wait"
    <3>1. age[r] <= ResponseLimit(r)
      BY <2>4 DEF NothingOverdue
    <3>2. age[r] < ResponseLimit(r) /\ ResponseLimit(r) <= 10 /\ ResponseLimit(r) \in Nat
      <4> HIDE DEF LifecycleInv, TypeOK
      <4> QED BY <2>1, <2>2, <2>4, <3>1, Limits
    <3>3. age'[r] = age[r] + 1
      BY <1>1, <2>4 DEF Timed
    <3> HIDE DEF LifecycleInv, TypeOK
    <3> QED BY <2>1, <2>4, <3>2, <3>3
  <2>5. CASE ~Timed(r)
    BY <1>1, <2>1, <2>5 DEF NothingOverdue, Timed
  <2> QED BY <2>3, <2>4, <2>5 DEF Timed
<1>3. age' \in [Requests -> 0..10]
  BY <1>2 DEF Tick
<1>4. mainAge' \in 0..Grace /\ main' = main
      /\ mainAge' <= IF main = "draining" THEN Grace
                     ELSE IF main = "pausing" THEN Pause ELSE 0
  BY DEF Tick, Due, NothingOverdue
<1>5. eventAge' \in 0..StoreLimit /\ event' = event
      /\ eventAge' <= IF event = None THEN 0 ELSE StoreLimit
  BY DEF Tick, Due, NothingOverdue
<1> QED BY <1>1, <1>2, <1>3, <1>4, <1>5 DEF NothingOverdue

-----------------------------------------------------------------------------
(* Type correctness, and no timer is ever overdue.                         *)

(* Every action keeps the types and leaves no timer overdue.               *)
LEMMA TypeStep ==
  ASSUME LifecycleInv, [Next]_vars PROVE TypeOK' /\ NothingOverdue'
<1> USE DEF LifecycleInv
<1>1. CASE Start \/ StartFails \/ Signal \/ Drained \/ ClosePool \/ Exit
  <2>1. /\ UNCHANGED <<state, age, dataCh, event, eventAge, collecting, background>>
        /\ mainAge' = 0
        /\ main' \in {"starting", "serving", "draining", "pausing", "closing",
                      "exited", "died"}
        /\ inTime' \subseteq Requests
    BY <1>1 DEF Start, StartFails, Signal, Drained, ClosePool, Exit, Moves,
       handlers, collector, TypeOK
  <2> QED BY <2>1 DEF TypeOK, NothingOverdue
<1>2. ASSUME NEW r \in Requests,
             Accept(r) \/ Receive(r) \/ Enqueue(r) \/ TimesOut(r)
      PROVE  TypeOK' /\ NothingOverdue'
  <2>1. PICK s \in {"reading", "enqueue", "wait", "answered"} : To(r, s)
    BY <1>2 DEF Accept, Receive, Enqueue, Enqueued, TimesOut
  <2>2. /\ UNCHANGED <<main, mainAge, inTime, event, eventAge, collecting, background>>
        /\ \/ dataCh' = dataCh
           \/ dataCh' = Append(dataCh, r) /\ Len(dataCh) < DataCap
    BY <1>2 DEF Accept, Receive, Enqueue, Enqueued, TimesOut, server, collector
  <2>4. dataCh' \in Seq(Requests) /\ Len(dataCh') <= DataCap
    BY <2>2 DEF TypeOK
  <2>3. \A q \in Requests :
          age'[q] <= IF state'[q] = "enqueue" THEN EnqueueLimit(q)
                     ELSE IF state'[q] = "wait" THEN ResponseLimit(q) ELSE 0
    BY <2>1, ToEffect, Limits DEF NothingOverdue
  <2> QED BY <2>1, <2>2, <2>3, <2>4, ToEffect DEF TypeOK, NothingOverdue
<1>3. CASE Take
  <2>1. event = None /\ event' \in Requests /\ dataCh' \in Seq(Requests)
        /\ Len(dataCh') <= DataCap
    BY <1>3 DEF Take, TypeOK
  <2> QED BY <1>3, <2>1 DEF Take, TypeOK, NothingOverdue, server, handlers
<1>4. CASE Acquire \/ BackgroundAcquires \/ BackgroundReleases
  <2>1. /\ UNCHANGED <<main, mainAge, inTime, state, age, dataCh, event, eventAge>>
        /\ collecting' \in BOOLEAN /\ (collecting' => event' # None)
        /\ background' \in BOOLEAN
    <3>1. CASE Acquire
      BY <3>1 DEF Acquire, TypeOK, server, handlers
    <3>2. CASE BackgroundAcquires \/ BackgroundReleases
      <4>1. background' \in BOOLEAN
        BY <3>2, Zenon DEF BackgroundAcquires, BackgroundReleases
      <4>2. UNCHANGED <<main, mainAge, inTime, state, age, dataCh, event, eventAge, collecting>>
        BY <3>2 DEF BackgroundAcquires, BackgroundReleases, server, handlers, collector
      <4>3. collecting \in BOOLEAN /\ (collecting => event # None)
        BY Zenon DEF TypeOK
      <4> QED BY <4>1, <4>2, <4>3, Zenon
    <3> QED BY <1>4, <3>1, <3>2
  <2> QED BY <2>1 DEF TypeOK, NothingOverdue
<1>5. CASE Respond
  <2>1. /\ event \in Requests /\ event' = None /\ eventAge' = 0 /\ collecting' = FALSE
        /\ UNCHANGED <<main, mainAge, inTime, dataCh, background>>
        /\ To(event, "answered") \/ UNCHANGED handlers
    BY <1>5 DEF Respond, server, TypeOK
  <2>2. /\ state' \in [Requests -> {"none", "reading", "enqueue", "wait", "answered"}]
        /\ age' \in [Requests -> 0..10]
        /\ \A q \in Requests :
             age'[q] <= IF state'[q] = "enqueue" THEN EnqueueLimit(q)
                        ELSE IF state'[q] = "wait" THEN ResponseLimit(q) ELSE 0
    BY <2>1, ToEffect DEF TypeOK, NothingOverdue, handlers
  <2>3. NothingOverdue'
    BY <2>1, <2>2 DEF NothingOverdue
  <2>4. event' \in Requests \cup {None} /\ eventAge' \in 0..StoreLimit
    BY <2>1
  <2>5. collecting' \in BOOLEAN /\ (collecting' => event' # None)
    BY <2>1, Zenon
  <2>6. /\ main' \in {"starting", "serving", "draining", "pausing", "closing",
                      "exited", "died"}
        /\ mainAge' \in 0..Grace /\ inTime' \subseteq Requests
        /\ dataCh' \in Seq(Requests) /\ Len(dataCh') <= DataCap
    BY <2>1 DEF TypeOK
  <2>7. background' \in BOOLEAN
    BY <2>1, Zenon DEF TypeOK
  <2> QED BY <2>2, <2>3, <2>4, <2>5, <2>6, <2>7, Zenon DEF TypeOK
<1>6. CASE Tick
  BY <1>6, TickEffect DEF Tick, TypeOK
<1>7. CASE UNCHANGED vars
  BY <1>7 DEF vars, server, handlers, collector, TypeOK, NothingOverdue
<1> QED BY <1>1, <1>2, <1>3, <1>4, <1>5, <1>6, <1>7 DEF Next

-----------------------------------------------------------------------------
(* The handlers age with main.                                             *)

(* When the signal comes, main has drained for no time at all.             *)
LEMMA SignalAges ==
  ASSUME LifecycleInv, Signal PROVE AgesWithMain'
<1>1. /\ main' = "draining" /\ mainAge' = 0 /\ state' = state /\ age' = age
      /\ \A r \in inTime' : r \in Requests /\ Timed(r)
  BY DEF Signal, Moves, handlers
<1>2. ASSUME NEW r \in inTime'
      PROVE  \/ state[r] = "enqueue" /\ age[r] >= 0
             \/ state[r] = "wait" /\ age[r] + EnqueueLimit(r) >= 0
  <2>1. age[r] \in Nat /\ EnqueueLimit(r) \in Nat
    <3>1. r \in Requests
      BY <1>1, <1>2
    <3>2. age \in [Requests -> 0..10]
      BY DEF LifecycleInv, TypeOK
    <3> HIDE DEF LifecycleInv
    <3> QED BY <3>1, <3>2, Limits
  <2>2. state[r] = "enqueue" \/ state[r] = "wait"
    BY <1>1, <1>2 DEF Timed
  <2> QED BY <2>1, <2>2
<1> QED BY <1>1, <1>2 DEF AgesWithMain, WaitedSince

(* When Shutdown gives up, no handler waits for a place in DataCh any more *)
(* and those that wait for the collector do so for at least the difference.*)
LEMMA DrainedAges ==
  ASSUME LifecycleInv, Drained PROVE AgesWithMain'
<1> USE DEF LifecycleInv
<1>1. main = "draining" /\ main' = "pausing" /\ mainAge' = 0
      /\ UNCHANGED <<inTime, state, age>>
  BY DEF Drained, Moves, handlers
<1>2. CASE \A r \in Requests : ~InHandler(r)
  BY <1>1, <1>2 DEF AgesWithMain, InHandler, TypeOK
<1>3. ASSUME mainAge = Grace, NEW r \in inTime, InHandler(r)
      PROVE  state[r] = "wait" /\ age[r] + EnqueueLimit(r) >= Grace
  <2>1. r \in Requests /\ age[r] \in Nat
    BY DEF TypeOK
  <2>2. (state[r] = "enqueue" /\ age[r] >= Grace) \/ WaitedSince(r, Grace)
    BY <1>1, <1>3 DEF AgesWithMain
  <2>3. ~(state[r] = "enqueue" /\ age[r] >= Grace)
    BY <2>1, Limits DEF NothingOverdue
  <2> QED BY <2>2, <2>3 DEF WaitedSince
<1> QED BY <1>1, <1>2, <1>3 DEF Drained, AgesWithMain, WaitedSince, InHandler

(* The pause lets 2 seconds pass for the handlers that are left.           *)
LEMMA ClosingAges ==
  ASSUME LifecycleInv, ClosePool \/ Exit PROVE AgesWithMain'
BY DEF LifecycleInv, ClosePool, Exit, Moves, AgesWithMain, WaitedSince, InHandler,
   handlers

(* A handler that was in time goes on: into DataCh, or to its answer.      *)
LEMMA HandlerAges ==
  ASSUME LifecycleInv, NEW r \in Requests, NEW s \in {"reading", "enqueue", "wait", "answered"},
         To(r, s), UNCHANGED <<main, mainAge, inTime>>,
         r \in inTime => (s = "answered" \/ (s = "wait" /\ state[r] = "enqueue"))
  PROVE  AgesWithMain'
<1> USE DEF LifecycleInv
<1>1. ASSUME NEW q \in inTime, q # r PROVE state'[q] = state[q] /\ age'[q] = age[q]
  BY <1>1, ToEffect DEF TypeOK
<1>2. CASE r \notin inTime \/ s = "answered"
  BY <1>1, <1>2, ToEffect DEF AgesWithMain, WaitedSince, InHandler, TypeOK
<1>3. ASSUME r \in inTime, s = "wait", state[r] = "enqueue"
      PROVE  main = "draining" /\ EnqueueLimit(r) >= mainAge
  <2>1. main = "draining" /\ age[r] >= mainAge
    BY <1>3 DEF AgesWithMain, WaitedSince, InHandler
  <2>2. age[r] <= EnqueueLimit(r) /\ age[r] \in Nat /\ mainAge \in Nat
    BY <1>3 DEF NothingOverdue, TypeOK
  <2> QED BY <2>1, <2>2, Limits
<1>4. CASE r \in inTime /\ s = "wait" /\ state[r] = "enqueue"
  <2>1. main = "draining" /\ main' = "draining" /\ state'[r] = "wait" /\ age'[r] = 0
        /\ EnqueueLimit(r) >= mainAge'
    BY <1>3, <1>4, ToEffect
  <2>2. WaitedSince(r, mainAge)'
    BY <2>1, Limits DEF WaitedSince
  <2> QED BY <1>1, <2>1, <2>2 DEF AgesWithMain, WaitedSince, InHandler
<1> QED BY <1>2, <1>4

(* While main drains or pauses, the timers of the handlers run with it.    *)
LEMMA TickAges ==
  ASSUME LifecycleInv, Tick PROVE AgesWithMain'
<1> SUFFICES ASSUME NEW r \in inTime, InHandler(r)
             PROVE  CASE main = "draining" ->
                           \/ state[r] = "enqueue" /\ age'[r] >= mainAge'
                           \/ state[r] = "wait" /\ age'[r] + EnqueueLimit(r) >= mainAge'
                      [] main = "pausing" ->
                           state[r] = "wait" /\ age'[r] + EnqueueLimit(r) >= Grace + mainAge'
                      [] OTHER ->
                           state[r] = "wait" /\ age'[r] + EnqueueLimit(r) >= Grace + Pause
  BY DEF Tick, AgesWithMain, WaitedSince, InHandler
<1> USE DEF LifecycleInv
<1>1. r \in Requests /\ age[r] \in Nat /\ mainAge \in Nat
  BY DEF TypeOK
<1>5. EnqueueLimit(r) \in Nat
  BY <1>1, Limits
<1>2. /\ main = "draining" =>
           \/ state[r] = "enqueue" /\ age[r] >= mainAge
           \/ state[r] = "wait" /\ age[r] + EnqueueLimit(r) >= mainAge
      /\ main = "pausing" =>
           state[r] = "wait" /\ age[r] + EnqueueLimit(r) >= Grace + mainAge
      /\ main \notin {"draining", "pausing"} =>
           state[r] = "wait" /\ age[r] + EnqueueLimit(r) >= Grace + Pause
  BY DEF AgesWithMain, WaitedSince
<1>3. Timed(r) /\ age'[r] = age[r] + 1
  BY <1>1, <1>2, TickEffect DEF Timed
<1>4. mainAge' = IF main \in {"draining", "pausing"} THEN mainAge + 1 ELSE mainAge
  BY DEF Tick
<1> QED BY <1>1, <1>2, <1>3, <1>4, <1>5

(* Every step leaves the handlers as old as main requires.                 *)
LEMMA AgesStep ==
  ASSUME LifecycleInv, [Next]_vars
  PROVE  /\ AgesWithMain'
         /\ main' \in {"starting", "serving", "died"} => inTime' = {}
<1> USE DEF LifecycleInv
<1>1. CASE Start \/ StartFails
  BY <1>1 DEF Start, StartFails, Moves, AgesWithMain
<1>2. CASE Signal \/ Drained \/ ClosePool \/ Exit
  BY <1>2, SignalAges, DrainedAges, ClosingAges
     DEF Signal, Drained, ClosePool, Exit, Moves
<1>3. ASSUME NEW r \in Requests,
             Accept(r) \/ Receive(r) \/ Enqueue(r) \/ TimesOut(r)
      PROVE  UNCHANGED <<main, mainAge, inTime>> /\ AgesWithMain'
  <2>1. UNCHANGED <<main, mainAge, inTime>>
    BY <1>3 DEF Accept, Receive, Enqueue, Enqueued, TimesOut, server
  <2>2. r \in inTime => state[r] # "reading"
    BY DEF AgesWithMain, WaitedSince, InHandler
  <2>3. \E s \in {"reading", "enqueue", "wait", "answered"} :
          /\ To(r, s)
          /\ r \in inTime => (s = "answered" \/ (s = "wait" /\ state[r] = "enqueue"))
    <3>1. CASE Accept(r)
      BY <3>1 DEF Accept
    <3>2. CASE Receive(r)
      BY <3>2, <2>2 DEF Receive
    <3>3. CASE Enqueue(r)
      BY <3>3 DEF Enqueue, Enqueued
    <3>4. CASE TimesOut(r)
      BY <3>4 DEF TimesOut
    <3> QED BY <1>3, <3>1, <3>2, <3>3, <3>4
  <2> QED BY <2>1, <2>3, HandlerAges
<1>4. CASE Take \/ Acquire \/ BackgroundAcquires \/ BackgroundReleases \/ UNCHANGED vars
  BY <1>4 DEF Take, Acquire, BackgroundAcquires, BackgroundReleases, vars, server,
     handlers, AgesWithMain, WaitedSince, InHandler
<1>5. CASE Respond
  <2>1. event \in Requests /\ UNCHANGED <<main, mainAge, inTime>>
    BY <1>5 DEF Respond, server, TypeOK
  <2>2. CASE state[event] = "wait"
    BY <1>5, <2>1, <2>2, HandlerAges DEF Respond
  <2>3. CASE state[event] # "wait"
    BY <1>5, <2>1, <2>3 DEF Respond, handlers, AgesWithMain, WaitedSince, InHandler
  <2> QED BY <2>1, <2>2, <2>3
<1>6. CASE Tick
  BY <1>6, TickAges DEF Tick
<1> QED BY <1>1, <1>2, <1>3, <1>4, <1>5, <1>6 DEF Next

-----------------------------------------------------------------------------
(* The theorems.                                                           *)

(* The invariant holds at the start and is kept by every step.             *)
THEOREM Invariance == Spec => []LifecycleInv
<1>1. Init => LifecycleInv
  <2> SUFFICES ASSUME Init PROVE LifecycleInv
    OBVIOUS
  <2>1. TypeOK
    <3>1. /\ state \in [Requests -> {"none", "reading", "enqueue", "wait", "answered"}]
          /\ age \in [Requests -> 0..10]
      BY DEF Init
    <3>2. dataCh \in Seq(Requests) /\ Len(dataCh) <= DataCap
      BY DEF Init
    <3>3. main \in {"starting", "serving", "draining", "pausing", "closing",
                    "exited", "died"}
      BY DEF Init
    <3>4. /\ mainAge \in 0..Grace /\ inTime \subseteq Requests
          /\ event \in Requests \cup {None} /\ eventAge \in 0..StoreLimit
      BY DEF Init
    <3>5. /\ collecting \in BOOLEAN /\ (collecting => event # None)
          /\ background \in BOOLEAN
      BY Zenon DEF Init
    <3> QED BY <3>1, <3>2, <3>3, <3>4, <3>5, Zenon DEF TypeOK
  <2>2. NothingOverdue /\ AgesWithMain
    BY DEF Init, NothingOverdue, AgesWithMain
  <2> QED BY <2>1, <2>2 DEF Init, LifecycleInv
<1>2. LifecycleInv /\ [Next]_vars => LifecycleInv'
  BY TypeStep, AgesStep DEF LifecycleInv
<1> QED BY <1>1, <1>2, PTL DEF Spec

(* Every variable keeps its type, and DataCh never holds more than it can. *)
THEOREM TypeCorrect == Spec => []TypeOK
BY Invariance, PTL DEF LifecycleInv

(* When the server has ended, the requests it cut off although they were   *)
(* in time had waited for the collector almost all of the shutdown.        *)
THEOREM OnlyLateAreCut == Spec => []CutOnlyLate
<1>1. LifecycleInv => CutOnlyLate
  <2> SUFFICES ASSUME LifecycleInv, main = "exited", NEW r \in inTime, InHandler(r)
               PROVE  state[r] = "wait" /\ age[r] >= Grace + Pause - EnqueueLimit(r)
    BY DEF CutOnlyLate
  <2>1. r \in Requests /\ age[r] \in Nat /\ EnqueueLimit(r) \in Nat
    <3>1. r \in Requests /\ age[r] \in Nat
      BY DEF LifecycleInv, TypeOK
    <3> QED BY <3>1, Limits
  <2>2. WaitedSince(r, Grace + Pause)
    BY DEF LifecycleInv, AgesWithMain
  <2> QED BY <2>1, <2>2 DEF WaitedSince
<1> QED BY <1>1, Invariance, PTL

(* A request with a single reading that was in time has always had its     *)
(* answer when the server ends: its limits are shorter than the shutdown.  *)
THEOREM SinglesAreAnswered ==
  Spec => [](main = "exited" => \A r \in inTime \cap Singles : ~InHandler(r))
<1>1. LifecycleInv => (main = "exited" => \A r \in inTime \cap Singles : ~InHandler(r))
  <2> SUFFICES ASSUME LifecycleInv, main = "exited", NEW r \in inTime \cap Singles,
                      InHandler(r)
               PROVE  FALSE
    OBVIOUS
  <2>1. /\ r \in Requests /\ age[r] \in Nat
        /\ EnqueueLimit(r) = 3 /\ ResponseLimit(r) = 5
    BY DEF LifecycleInv, TypeOK, Requests, EnqueueLimit, ResponseLimit
  <2>2. state[r] = "wait" /\ age[r] + 3 >= Grace + Pause
    BY <2>1 DEF LifecycleInv, AgesWithMain, WaitedSince
  <2>3. age[r] <= 5
    BY <2>1, <2>2 DEF LifecycleInv, NothingOverdue
  <2> QED BY <2>1, <2>2, <2>3
<1> QED BY <1>1, Invariance, PTL
=============================================================================
