---------------------------- MODULE DtuSimulator ----------------------------
(***************************************************************************)
(* scripts/dtu_simulator.py in front of the collector: every round it      *)
(* reads all boreholes and posts the readings chunk by chunk, as a batch   *)
(* and, when the batch fails, one by one.  No other client posts.          *)
(*                                                                         *)
(* Reading i of chunk k in round n is <<n, k, i>>, which also names the    *)
(* request that posts it alone; <<n, k, 0>> is the request with the batch. *)
(***************************************************************************)
EXTENDS Collector

CONSTANTS
  MaxRounds,  (* rounds and restarts (bounds the model)                     *)
  NumChunks,  (* chunks in a round                                          *)
  ChunkSize,  (* readings in a chunk                                        *)
  UseBatch    (* use_batch; FALSE is --no-batch                             *)

Places == (1..MaxRounds) \X (1..NumChunks)
BatchPosts == {<<p[1], p[2], 0>> : p \in Places}
SinglePosts == {<<p[1], p[2], i>> : p \in Places, i \in 1..ChunkSize}
DtuPosts == BatchPosts \cup SinglePosts

DtuRows(p) ==
  IF p[3] = 0 THEN [i \in 1..ChunkSize |-> <<p[1], p[2], i>>] ELSE <<p>>

ASSUME DtuAssumption ==
  /\ MaxRounds \in Nat \ {0} /\ NumChunks \in Nat \ {0}
  /\ ChunkSize \in Nat \ {0} /\ UseBatch \in BOOLEAN

(* The collector's requests are those of the simulator.                    *)
OnlyClient ==
  /\ Posts = DtuPosts
  /\ \A p \in DtuPosts :
       /\ Body[p] = "good"
       /\ Rows[p] = DtuRows(p)
       /\ Kind[p] = IF p[3] = 0 THEN "borehole_batch" ELSE "borehole"

VARIABLES
  round,   (* the round, counted over restarts                              *)
  chunk,   (* the chunk of readings being sent                              *)
  item,    (* the reading being sent alone, 0 while it is the batch         *)
  dtu,     (* "send", "wait" for the answer, "sleep" or "dead"              *)
  outcome  (* what the simulator knows of each of its requests              *)

dtuVars == <<round, chunk, item, dtu, outcome>>
allVars == <<vars, dtuVars>>

(* The request the simulator makes next, or waits for.                     *)
Current == <<round, chunk, item>>

FirstItem == IF UseBatch THEN 0 ELSE 1

DtuInit ==
  /\ OnlyClient /\ Init
  /\ round = 1 /\ chunk = 1 /\ item = FirstItem
  /\ dtu = "send"
  /\ outcome = [p \in DtuPosts |-> "none"]

-----------------------------------------------------------------------------

(* requests.post sends the request.                                        *)
Send ==
  /\ dtu = "send"
  /\ Receive(Current)
  /\ dtu' = "wait"
  /\ UNCHANGED <<round, chunk, item, outcome>>

(* The status is not 200 or 201, the connection broke, or the simulator's  *)
(* own timeout, 15 seconds or 5, ran out before there was an answer.       *)
Failed == dtu = "wait" /\ answer[Current] # 201

Accepted == dtu = "wait" /\ answer[Current] = 201

(* Variant of BatchAccepted: the readings are sent one by one as well.     *)
BatchAcceptedToo ==
  /\ Accepted /\ item = 0
  /\ outcome' = [outcome EXCEPT ![Current] = "accepted"]
  /\ item' = 1
  /\ dtu' = "send"
  /\ UNCHANGED <<vars, round, chunk>>

(* send_batch_api: the answer to a batch is a JSON list, which has no      *)
(* get(): the AttributeError ends the process.                             *)
BatchAccepted ==
  /\ Accepted /\ item = 0
  /\ outcome' = [outcome EXCEPT ![Current] = "accepted"]
  /\ dtu' = "dead"
  /\ UNCHANGED <<vars, round, chunk, item>>

BatchFailed ==
  /\ Failed /\ item = 0
  /\ outcome' = [outcome EXCEPT ![Current] = "failed"]
  /\ item' = 1
  /\ dtu' = "send"
  /\ UNCHANGED <<vars, round, chunk>>

(* The next reading of the chunk, the next chunk, or the end of the round. *)
MoveOn ==
  IF item < ChunkSize
  THEN item' = item + 1 /\ dtu' = "send" /\ UNCHANGED chunk
  ELSE /\ item' = FirstItem
       /\ IF chunk < NumChunks
          THEN chunk' = chunk + 1 /\ dtu' = "send"
          ELSE chunk' = 1 /\ dtu' = "sleep"

(* send_individual: accepted or not, the next reading is sent.             *)
OneSent ==
  /\ item > 0
  /\ Failed \/ Accepted
  /\ outcome' = [outcome EXCEPT
                   ![Current] = IF Accepted THEN "accepted" ELSE "failed"]
  /\ MoveOn
  /\ UNCHANGED <<vars, round>>

(* The next round begins when the interval is over.                        *)
NextRound ==
  /\ dtu = "sleep" /\ round < MaxRounds
  /\ round' = round + 1
  /\ dtu' = "send"
  /\ UNCHANGED <<vars, chunk, item, outcome>>

(* restart: unless-stopped; a new process starts at the first chunk.       *)
Restart ==
  /\ dtu = "dead" /\ round < MaxRounds
  /\ round' = round + 1
  /\ chunk' = 1
  /\ item' = FirstItem
  /\ dtu' = "send"
  /\ UNCHANGED <<vars, outcome>>

-----------------------------------------------------------------------------

(* The rounds of the model are over and the server has nothing to do.      *)
Rest ==
  /\ dtu \in {"sleep", "dead"} /\ round = MaxRounds
  /\ \A p \in Posts : handler[p] \in {"none", "done"}
  /\ dataCh = <<>> /\ step = "receive"
  /\ UNCHANGED allVars

DtuStep == Send \/ BatchAccepted \/ BatchFailed \/ OneSent \/ NextRound \/ Restart

DtuNext ==
  \/ DtuStep
  \/ Serve /\ UNCHANGED dtuVars
  \/ Rest

DtuSpec == DtuInit /\ [][DtuNext]_allVars

(* The server is as fair as Collector says, and the script keeps running.  *)
DtuFairness ==
  /\ WF_allVars(Collect /\ UNCHANGED dtuVars)
  /\ \A p \in Posts : WF_allVars(Handle(p) /\ UNCHANGED dtuVars)
  /\ WF_allVars(DtuStep)

DtuFairSpec == DtuSpec /\ DtuFairness

-----------------------------------------------------------------------------
(* Properties.                                                             *)

(* A reading is stored twice only when the simulator could not know better *)
(* than to send it again: the batch it was part of had been taken by the   *)
(* server, and no 201 for it had come.                                     *)
NoNeedlessDuplicate ==
  \A b \in BatchPosts, p \in SinglePosts :
    (p \in Range(Rows[b]) /\ <<b, p>> \in table /\ <<p, p>> \in table) =>
      outcome[b] = "failed" /\ answer[b] \notin {400, 503}

-----------------------------------------------------------------------------
(* The inductive invariant behind it.                                      *)

DtuTypeOK ==
  /\ round \in 1..MaxRounds /\ chunk \in 1..NumChunks
  /\ item \in FirstItem..ChunkSize
  /\ dtu \in {"send", "wait", "sleep", "dead"}
  /\ dtu \in {"sleep", "dead"} => item = FirstItem
  /\ DOMAIN outcome = DtuPosts

(* The requests the simulator has yet to come to.                          *)
Ahead(p) ==
  \/ p[1] > round
  \/ /\ p[1] = round /\ dtu \in {"send", "wait"}
     /\ p[2] > chunk \/ (p[2] = chunk /\ p[3] > item)

InOrder == \A p \in DtuPosts : Ahead(p) => handler[p] = "none"

(* Readings are sent alone only after their batch has failed.              *)
BatchFirst ==
  IF UseBatch
  THEN /\ \A p \in SinglePosts :
            handler[p] # "none" => outcome[<<p[1], p[2], 0>>] = "failed"
       /\ item > 0 => outcome[<<round, chunk, 0>>] = "failed"
  ELSE \A b \in BatchPosts : handler[b] = "none"

DtuInv == OnlyClient /\ CollectorInv /\ DtuTypeOK /\ InOrder /\ BatchFirst
=============================================================================
