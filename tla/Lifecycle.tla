----------------------------- MODULE Lifecycle -----------------------------
(***************************************************************************)
(* main.go: the server starts, serves POST requests, and ends on a signal. *)
(* Handlers, the collector and the goroutines that use the database in the *)
(* background (optimizer, monitor) are not told that it ends; Shutdown     *)
(* waits for the handlers, and closing the pool for the connections.       *)
(*                                                                         *)
(* Time is in seconds.  It does not pass while a timer is due.             *)
(***************************************************************************)
EXTENDS Naturals, Sequences

CONSTANTS
  Singles,      (* requests with one reading                                *)
  Batches,      (* requests with several                                    *)
  DataCap       (* capacity of DataCh                                       *)

Requests == Singles \cup Batches

ASSUME LifecycleAssumption ==
  DataCap \in Nat \ {0} /\ Singles \cap Batches = {}

VARIABLES
  main,         (* where main is                                            *)
  mainAge,      (* how long it has been there                               *)
  state,        (* where the handler of each request is                     *)
  age,          (* how long it has been there                               *)
  inTime,       (* history: those whose body had been read at the signal    *)
  dataCh,       (* events in DataCh                                         *)
  event,        (* the event the collector has in hand; None                *)
  eventAge,
  collecting,   (* its statement holds a connection                         *)
  background    (* a goroutine in the background holds one                  *)

handlers == <<state, age>>
server == <<main, mainAge, inTime>>
collector == <<dataCh, event, eventAge, collecting>>
vars == <<server, handlers, collector, background>>

None == "none"

EnqueueLimit(r) == IF r \in Batches THEN 5 ELSE 3
ResponseLimit(r) == IF r \in Batches THEN 10 ELSE 5
StoreLimit == 10

Grace == 10
Pause == 2

TypeOK ==
  /\ main \in {"starting", "serving", "draining", "pausing", "closing",
               "exited", "died"}
  /\ mainAge \in 0..Grace
  /\ state \in [Requests -> {"none", "reading", "enqueue", "wait", "answered"}]
  /\ age \in [Requests -> 0..10]
  /\ inTime \subseteq Requests
  /\ dataCh \in Seq(Requests) /\ Len(dataCh) <= DataCap
  /\ event \in Requests \cup {None} /\ eventAge \in 0..StoreLimit
  /\ collecting \in BOOLEAN /\ (collecting => event # None)
  /\ background \in BOOLEAN

Init ==
  /\ main = "starting" /\ mainAge = 0 /\ inTime = {}
  /\ state = [r \in Requests |-> "none"]
  /\ age = [r \in Requests |-> 0]
  /\ dataCh = <<>> /\ event = None /\ eventAge = 0 /\ collecting = FALSE
  /\ background = FALSE

(* A timer of its handler runs.                                            *)
Timed(r) == state[r] \in {"enqueue", "wait"}

Alive == main \notin {"exited", "died"}

Moves(to) == main' = to /\ mainAge' = 0

-----------------------------------------------------------------------------
(* main.                                                                   *)

Start ==
  /\ main = "starting"
  /\ Moves("serving")
  /\ UNCHANGED <<inTime, handlers, collector, background>>

(* Fatalf: no database, or the port is taken.                              *)
StartFails ==
  /\ main \in {"starting", "serving"} /\ \A r \in Requests : state[r] = "none"
  /\ Moves("died")
  /\ UNCHANGED <<inTime, handlers, collector, background>>

Signal ==
  /\ main = "serving"
  /\ Moves("draining")
  /\ inTime' = {r \in Requests : Timed(r)}
  /\ UNCHANGED <<handlers, collector, background>>

InHandler(r) == state[r] \notin {"none", "answered"}

(* Variant of Drained: the handlers are not waited for.                    *)
DrainedAtOnce ==
  /\ main = "draining"
  /\ Moves("pausing")
  /\ UNCHANGED <<inTime, handlers, collector, background>>

(* Shutdown returns when no handler runs, or when its context ends; then   *)
(* the dispatcher's context is cancelled.                                  *)
Drained ==
  /\ main = "draining"
  /\ mainAge = Grace \/ \A r \in Requests : ~InHandler(r)
  /\ Moves("pausing")
  /\ UNCHANGED <<inTime, handlers, collector, background>>

(* Sleep ends, and the deferred Close gives out no connection any more.    *)
ClosePool ==
  /\ main = "pausing" /\ mainAge = Pause
  /\ Moves("closing")
  /\ UNCHANGED <<inTime, handlers, collector, background>>

(* Close has all connections back.                                         *)
Exit ==
  /\ main = "closing" /\ ~collecting /\ ~background
  /\ Moves("exited")
  /\ UNCHANGED <<inTime, handlers, collector, background>>

-----------------------------------------------------------------------------
(* The handlers.                                                           *)

To(r, s) ==
  /\ state' = [state EXCEPT ![r] = s]
  /\ age' = [age EXCEPT ![r] = 0]

(* The server stops accepting with the signal.                             *)
Accept(r) ==
  /\ main = "serving" /\ state[r] = "none"
  /\ To(r, "reading")
  /\ UNCHANGED <<server, collector, background>>

(* Decode returns, with an error (400) or without; nothing limits how long *)
(* a body may take.                                                        *)
Receive(r) ==
  /\ Alive /\ state[r] = "reading"
  /\ To(r, "enqueue") \/ To(r, "answered")
  /\ UNCHANGED <<server, collector, background>>

Enqueued(r) ==
  /\ dataCh' = Append(dataCh, r)
  /\ To(r, "wait")
  /\ UNCHANGED <<server, event, eventAge, collecting, background>>

(* Variant of Enqueue: the channel has no capacity.                        *)
EnqueueUnbounded(r) == Alive /\ state[r] = "enqueue" /\ Enqueued(r)

Enqueue(r) ==
  /\ Alive /\ state[r] = "enqueue" /\ Len(dataCh) < DataCap
  /\ Enqueued(r)

(* 503 or 504.                                                             *)
TimesOut(r) ==
  /\ Alive
  /\ \/ state[r] = "enqueue" /\ age[r] = EnqueueLimit(r)
     \/ state[r] = "wait" /\ age[r] = ResponseLimit(r)
  /\ To(r, "answered")
  /\ UNCHANGED <<server, collector, background>>

-----------------------------------------------------------------------------
(* The collector and the background.                                       *)

Take ==
  /\ Alive /\ event = None /\ dataCh # <<>>
  /\ event' = Head(dataCh) /\ dataCh' = Tail(dataCh)
  /\ UNCHANGED <<server, handlers, eventAge, collecting, background>>

(* Variant of MayAcquire: connections are given out until the last moment. *)
MayAcquireAlways == Alive

MayAcquire == Alive /\ main # "closing"

Acquire ==
  /\ MayAcquire /\ event # None /\ ~collecting
  /\ collecting' = TRUE
  /\ UNCHANGED <<server, handlers, dataCh, event, eventAge, background>>

(* The statement ends, or there was no connection for it; the handler gets *)
(* its answer if it still waits.                                           *)
Respond ==
  /\ Alive /\ event # None
  /\ event' = None /\ eventAge' = 0 /\ collecting' = FALSE
  /\ IF state[event] = "wait" THEN To(event, "answered")
                             ELSE UNCHANGED handlers
  /\ UNCHANGED <<server, dataCh, background>>

BackgroundAcquires ==
  /\ MayAcquire /\ ~background
  /\ background' = TRUE
  /\ UNCHANGED <<server, handlers, collector>>

BackgroundReleases ==
  /\ Alive /\ background
  /\ background' = FALSE
  /\ UNCHANGED <<server, handlers, collector>>

-----------------------------------------------------------------------------
(* Time.                                                                   *)

Due ==
  \/ main = "draining" /\ mainAge = Grace
  \/ main = "draining" /\ \A r \in Requests : ~InHandler(r)
  \/ main = "pausing" /\ mainAge = Pause
  \/ \E r \in Requests : \/ state[r] = "enqueue" /\ age[r] = EnqueueLimit(r)
                         \/ state[r] = "wait" /\ age[r] = ResponseLimit(r)
  \/ event # None /\ eventAge = StoreLimit

Tick ==
  /\ Alive /\ ~Due
  /\ main \in {"draining", "pausing"} \/ event # None
     \/ \E r \in Requests : Timed(r)
  /\ mainAge' = IF main \in {"draining", "pausing"} THEN mainAge + 1
                                                 ELSE mainAge
  /\ age' = [r \in Requests |-> IF Timed(r) THEN age[r] + 1 ELSE age[r]]
  /\ eventAge' = IF event # None THEN eventAge + 1 ELSE eventAge
  /\ UNCHANGED <<main, inTime, state, dataCh, event, collecting, background>>

Next ==
  \/ Start \/ StartFails \/ Signal \/ Drained \/ ClosePool \/ Exit
  \/ \E r \in Requests : Accept(r) \/ Receive(r) \/ Enqueue(r) \/ TimesOut(r)
  \/ Take \/ Acquire \/ Respond \/ BackgroundAcquires \/ BackgroundReleases
  \/ Tick

Spec == Init /\ [][Next]_vars

(* Time passes, goroutines go on, and every statement comes to an end.     *)
Fairness ==
  /\ WF_vars(Drained) /\ WF_vars(ClosePool) /\ WF_vars(Exit)
  /\ WF_vars(Take) /\ WF_vars(Acquire) /\ WF_vars(Respond)
  /\ WF_vars(BackgroundReleases) /\ WF_vars(Tick)
  /\ \A r \in Requests : WF_vars(Enqueue(r)) /\ WF_vars(TimesOut(r))

FairSpec == Spec /\ Fairness

-----------------------------------------------------------------------------
(* Properties.                                                             *)

(* A request whose body had come before the signal is cut off only while   *)
(* it waits for the collector, and only when it has waited for all of      *)
(* Shutdown and the pause but the time it may have needed to get into      *)
(* DataCh.  A single reading is never cut off: it waits 5 seconds.         *)
CutOnlyLate ==
  main = "exited" =>
    \A r \in inTime : InHandler(r) =>
      state[r] = "wait" /\ age[r] >= Grace + Pause - EnqueueLimit(r)

(* The server ends after a signal, although the optimizer and the monitor  *)
(* are never stopped and may use the database at any time.                 *)
Exits == (main = "draining") ~> (main = "exited")
-----------------------------------------------------------------------------
(* The invariant that makes CutOnlyLate inductive.                         *)

(* Time stands still while a timer is due: none is ever overdue.           *)
NothingOverdue ==
  /\ \A r \in Requests :
       age[r] <= IF state[r] = "enqueue" THEN EnqueueLimit(r)
                 ELSE IF state[r] = "wait" THEN ResponseLimit(r) ELSE 0
  /\ eventAge <= IF event = None THEN 0 ELSE StoreLimit
  /\ mainAge <= IF main = "draining" THEN Grace
                 ELSE IF main = "pausing" THEN Pause ELSE 0

(* r has waited for the collector, since d seconds at the least but the    *)
(* time it may have needed to get into DataCh.                             *)
WaitedSince(r, d) == state[r] = "wait" /\ age[r] + EnqueueLimit(r) >= d

(* How long a handler that still runs has been where it is.                *)
AgesWithMain ==
  \A r \in inTime : InHandler(r) =>
    CASE main = "draining" ->
           (state[r] = "enqueue" /\ age[r] >= mainAge) \/ WaitedSince(r, mainAge)
      [] main = "pausing" -> WaitedSince(r, Grace + mainAge)
      [] OTHER -> WaitedSince(r, Grace + Pause)

LifecycleInv ==
  /\ TypeOK /\ NothingOverdue /\ AgesWithMain
  /\ main \in {"starting", "serving", "died"} => inTime = {}
=============================================================================
