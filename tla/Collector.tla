----------------------------- MODULE Collector -----------------------------
(***************************************************************************)
(* The ingestion path: the three POST handlers of the HTTP server, the     *)
(* DataCh channel, and the goroutine of the DataCollector that writes what *)
(* it receives to the database, one event at a time.                       *)
(*                                                                         *)
(* Timers are not clocks: a handler that waits may time out at any moment, *)
(* and the 10 seconds a write may take end at any moment of it.            *)
(***************************************************************************)
EXTENDS Naturals, Sequences, Functions

CONSTANTS
  Posts,      (* the POST requests, each made once                          *)
  NoPost,     (* what is no request                                         *)
  Kind,       (* Posts -> "borehole", "borehole_batch" or "pump_station"    *)
  Rows,       (* Posts -> the readings in the body, in order                *)
  Body,       (* Posts -> "good", "wrong_type" or "not_json"                *)
  DataCap,    (* capacity of DataCh                                         *)
  MaxCrashes  (* how often the server may die (bounds the model)            *)

ASSUME CollectorAssumption ==
  /\ NoPost \notin Posts
  /\ Kind \in [Posts -> {"borehole", "borehole_batch", "pump_station"}]
  /\ DOMAIN Rows = Posts
  /\ \A p \in Posts : Kind[p] # "borehole_batch" => Len(Rows[p]) = 1
  /\ Body \in [Posts -> {"good", "wrong_type", "not_json"}]
  /\ DataCap \in Nat \ {0}
  /\ MaxCrashes \in Nat

NoAnswer == 0
Reset == 1   (* the connection breaks before there is an answer             *)

VARIABLES
  handler,   (* where the handler of each request is                        *)
  answer,    (* the status it answered with                                 *)
  dataCh,    (* DataCh                                                      *)
  respCh,    (* Response of each event: "empty", "data" or "error"          *)
  event,     (* the event the collector goroutine holds                     *)
  step,      (* what it does next                                           *)
  result,    (* the response it is going to send                            *)
  tx,        (* rows inserted in the transaction that is open               *)
  table,     (* what is committed: <<p, r>>, reading r by request p         *)
  announced, (* requests whose borehole_update was broadcast                *)
  crashes    (* times the server has died                                   *)

httpVars == <<handler, answer>>
workerVars == <<event, step, result, tx>>
vars == <<httpVars, dataCh, respCh, workerVars, table, announced, crashes>>

RowsOf(p) == {<<p, r>> : r \in Range(Rows[p])}

TypeOK ==
  /\ handler \in [Posts -> {"none", "enqueue", "await", "done"}]
  /\ answer \in [Posts -> {NoAnswer, Reset, 201, 400, 500, 503, 504}]
  /\ dataCh \in Seq(Posts) /\ Len(dataCh) <= DataCap
  /\ respCh \in [Posts -> {"empty", "data", "error"}]
  /\ event \in Posts \cup {NoPost}
  /\ step \in {"receive", "store", "broadcast", "respond"}
  /\ (event = NoPost) = (step = "receive")
  /\ result \in {"none", "data", "error"}
  /\ (result = "none") = (step \in {"receive", "store"})
  /\ tx \in Nat
  /\ table \subseteq UNION {RowsOf(p) : p \in Posts}
  /\ announced \subseteq Posts
  /\ crashes \in 0..MaxCrashes

Init ==
  /\ handler = [p \in Posts |-> "none"]
  /\ answer = [p \in Posts |-> NoAnswer]
  /\ dataCh = <<>>
  /\ respCh = [p \in Posts |-> "empty"]
  /\ event = NoPost /\ step = "receive" /\ result = "none" /\ tx = 0
  /\ table = {} /\ announced = {} /\ crashes = 0

-----------------------------------------------------------------------------
(* The handlers.                                                           *)

Reply(p, status) ==
  /\ handler' = [handler EXCEPT ![p] = "done"]
  /\ answer' = [answer EXCEPT ![p] = status]

(* The body is decoded as far as RawMessage: any JSON value will do.       *)
Receive(p) ==
  /\ handler[p] = "none"
  /\ IF Body[p] = "not_json"
     THEN Reply(p, 400)
     ELSE handler' = [handler EXCEPT ![p] = "enqueue"] /\ UNCHANGED answer
  /\ UNCHANGED <<dataCh, respCh, workerVars, table, announced, crashes>>

Enqueue(p) ==
  /\ handler[p] = "enqueue"
  /\ Len(dataCh) < DataCap
  /\ dataCh' = Append(dataCh, p)
  /\ handler' = [handler EXCEPT ![p] = "await"]
  /\ UNCHANGED <<answer, respCh, workerVars, table, announced, crashes>>

(* Variant of EnqueueTimesOut: the send goes on behind the answer.         *)
EnqueueInBackground(p) ==
  /\ handler[p] = "enqueue"
  /\ Len(dataCh) = DataCap
  /\ Reply(p, 503)
  /\ dataCh' = Append(dataCh, p)
  /\ UNCHANGED <<respCh, workerVars, table, announced, crashes>>

(* 3 seconds, or 5 for a batch, on a channel that stays full.              *)
EnqueueTimesOut(p) ==
  /\ handler[p] = "enqueue"
  /\ Len(dataCh) = DataCap
  /\ Reply(p, 503)
  /\ UNCHANGED <<dataCh, respCh, workerVars, table, announced, crashes>>

Answer(p) ==
  /\ handler[p] = "await"
  /\ respCh[p] # "empty"
  /\ Reply(p, IF respCh[p] = "data" THEN 201 ELSE 500)
  /\ UNCHANGED <<dataCh, respCh, workerVars, table, announced, crashes>>

(* 5 seconds, or 10 for a batch; the event stays where it is.              *)
AnswerTimesOut(p) ==
  /\ handler[p] = "await"
  /\ respCh[p] = "empty"
  /\ Reply(p, 504)
  /\ UNCHANGED <<dataCh, respCh, workerVars, table, announced, crashes>>

-----------------------------------------------------------------------------
(* The collector goroutine.                                                *)

(* The payload is unmarshalled as what the kind says it is.                *)
Take ==
  /\ step = "receive" /\ dataCh # <<>>
  /\ event' = Head(dataCh)
  /\ dataCh' = Tail(dataCh)
  /\ IF Body[Head(dataCh)] = "good"
     THEN step' = "store" /\ UNCHANGED result
     ELSE step' = "respond" /\ result' = "error"
  /\ UNCHANGED <<httpVars, respCh, tx, table, announced, crashes>>

Stored ==
  /\ step' = IF Kind[event] = "pump_station" THEN "respond" ELSE "broadcast"
  /\ result' = "data"
  /\ tx' = 0

NotStored ==
  /\ step' = "respond"
  /\ result' = "error"
  /\ tx' = 0

(* Variant of InsertRow: the rows are inserted through the pool.           *)
InsertRowNoTx ==
  /\ step = "store" /\ Kind[event] = "borehole_batch"
  /\ tx < Len(Rows[event])
  /\ tx' = tx + 1
  /\ table' = table \cup {<<event, Rows[event][tx + 1]>>}
  /\ UNCHANGED <<httpVars, dataCh, respCh, event, step, result>>
  /\ UNCHANGED <<announced, crashes>>

(* StoreBoreholeDataBatch: one INSERT after the other in a transaction.    *)
InsertRow ==
  /\ step = "store" /\ Kind[event] = "borehole_batch"
  /\ tx < Len(Rows[event])
  /\ tx' = tx + 1
  /\ UNCHANGED <<httpVars, dataCh, respCh, event, step, result, table>>
  /\ UNCHANGED <<announced, crashes>>

(* Everything before the commit is done.                                   *)
Complete ==
  /\ step = "store"
  /\ Kind[event] = "borehole_batch" => tx = Len(Rows[event])

(* The single INSERT, or the COMMIT: the rows are in the table.  When the  *)
(* context ends before its reply is there, the code takes it for failed.   *)
Commit ==
  /\ Complete
  /\ table' = table \cup RowsOf(event)
  /\ Stored \/ NotStored
  /\ UNCHANGED <<httpVars, dataCh, respCh, event, announced, crashes>>

(* Variant of StoreFails: the error is logged and not returned.            *)
StoreFailsSilently ==
  /\ step = "store"
  /\ Stored
  /\ UNCHANGED <<httpVars, dataCh, respCh, event, table, announced, crashes>>

(* A statement fails (the foreign key of a row, a lost connection), or the *)
(* context ends: the transaction is rolled back.                           *)
StoreFails ==
  /\ step = "store"
  /\ NotStored
  /\ UNCHANGED <<httpVars, dataCh, respCh, event, table, announced, crashes>>

(* hub.Broadcast; a pump station's reading has none.                       *)
Announce ==
  /\ step = "broadcast"
  /\ announced' = announced \cup {event}
  /\ step' = "respond"
  /\ UNCHANGED <<httpVars, dataCh, respCh, event, result, tx, table, crashes>>

(* Variant of Respond: the channel has no buffer, the send no default.     *)
RespondBlocking ==
  /\ step = "respond"
  /\ handler[event] = "await"
  /\ respCh' = [respCh EXCEPT ![event] = result]
  /\ event' = NoPost /\ step' = "receive" /\ result' = "none"
  /\ UNCHANGED <<httpVars, dataCh, tx, table, announced, crashes>>

(* sendResponse: the buffer of one takes the response of the one event.    *)
Respond ==
  /\ step = "respond"
  /\ respCh' = [respCh EXCEPT ![event] = result]
  /\ event' = NoPost /\ step' = "receive" /\ result' = "none"
  /\ UNCHANGED <<httpVars, dataCh, tx, table, announced, crashes>>

-----------------------------------------------------------------------------
(* The server dies and is started again: a shutdown does not wait for the  *)
(* events of the channel either.                                           *)
Crash ==
  /\ crashes < MaxCrashes
  /\ crashes' = crashes + 1
  /\ handler' = [p \in Posts |->
                   IF handler[p] = "none" THEN "none" ELSE "done"]
  /\ answer' = [p \in Posts |->
                  IF handler[p] \in {"enqueue", "await"} THEN Reset ELSE answer[p]]
  /\ dataCh' = <<>>
  /\ event' = NoPost /\ step' = "receive" /\ result' = "none" /\ tx' = 0
  /\ UNCHANGED <<respCh, table, announced>>

Idle ==
  /\ \A p \in Posts : handler[p] = "done"
  /\ dataCh = <<>> /\ step = "receive"
  /\ UNCHANGED vars

Handle(p) == Enqueue(p) \/ EnqueueTimesOut(p) \/ Answer(p) \/ AnswerTimesOut(p)

Collect ==
  Take \/ InsertRow \/ Commit \/ StoreFails \/ Announce \/ Respond

Serve == Collect \/ Crash \/ \E p \in Posts : Handle(p)

Next == Serve \/ Idle \/ \E p \in Posts : Receive(p)

Spec == Init /\ [][Next]_vars

(* The collector goroutine keeps running: its writes end, by their context *)
(* if need be, and the hub takes every broadcast.  A handler's timers run  *)
(* down.                                                                   *)
Fairness == WF_vars(Collect) /\ \A p \in Posts : WF_vars(Handle(p))

FairSpec == Spec /\ Fairness

-----------------------------------------------------------------------------
(* Properties.                                                             *)

(* 201 means that every reading of the body is committed, and that the     *)
(* clients have been told of it: nothing acknowledged is lost in a crash.  *)
AcceptedIsStored ==
  \A p \in Posts :
    answer[p] = 201 =>
      /\ RowsOf(p) \subseteq table
      /\ Kind[p] # "pump_station" => p \in announced

(* A batch is stored as a whole or not at all, whichever of its rows is    *)
(* refused and whenever the write fails or the server dies.                *)
AllOrNothing ==
  \A p \in Posts : RowsOf(p) \subseteq table \/ RowsOf(p) \cap table = {}

(* A request that was turned away (400, 503) leaves no trace: sending its  *)
(* readings again cannot duplicate them.                                   *)
RefusedLeavesNoTrace ==
  \A p \in Posts :
    answer[p] \in {400, 503} =>
      /\ RowsOf(p) \cap table = {}
      /\ p # event /\ p \notin Range(dataCh)

(* Every event of the channel is processed and responded to, even when the *)
(* handler it came from has given up, unless the server dies.              *)
EveryEventProcessed ==
  \A p \in Posts :
    p \in Range(dataCh) ~> (respCh[p] # "empty" \/ crashes > 0)

-----------------------------------------------------------------------------
(* The inductive invariant behind the first three.                         *)

(* The readings of p are committed and its broadcast, if any, is made.     *)
Told(p) ==
  /\ RowsOf(p) \subseteq table
  /\ Kind[p] # "pump_station" => p \in announced

(* A request that has not reached the channel has had no effect.           *)
Fresh ==
  \A p \in Posts : handler[p] \in {"none", "enqueue"} =>
    /\ answer[p] = NoAnswer
    /\ respCh[p] = "empty"
    /\ RowsOf(p) \cap table = {}

(* An event is in one place only ...                                       *)
Once == event \notin Range(dataCh) /\ IsInjective(dataCh)

(* ... its handler waits or has given up, and its response is to come.     *)
OnTheWay ==
  \A p \in Posts :
    /\ p = event \/ p \in Range(dataCh) =>
         /\ handler[p] \in {"await", "done"}
         /\ answer[p] \notin {201, 400, 503}
         /\ respCh[p] = "empty"
    /\ respCh[p] # "empty" => answer[p] \notin {400, 503}

(* What the collector has to say of an event is true.                      *)
Truthful ==
  /\ \A p \in Posts : respCh[p] = "data" => Told(p)
  /\ step = "broadcast" => result = "data" /\ RowsOf(event) \subseteq table
  /\ step = "respond" /\ result = "data" => Told(event)

CollectorInv ==
  /\ TypeOK
  /\ Fresh /\ Once /\ OnTheWay /\ Truthful
  /\ AcceptedIsStored /\ RefusedLeavesNoTrace
=============================================================================
