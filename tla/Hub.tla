-------------------------------- MODULE Hub --------------------------------
(***************************************************************************)
(* handler.Hub: the goroutine that fans broadcasts out to the WebSocket    *)
(* clients, ServeWs, and the two pumps of each client.                     *)
(*                                                                         *)
(* A broadcast is named by its number, in the order in which the messages  *)
(* entered the broadcast channel, so the channel is taken+1..posted.       *)
(***************************************************************************)
EXTENDS Naturals, Sequences, Functions

CONSTANTS
  Clients,       (* the clients that connect, each once                     *)
  MaxMessages,   (* number of broadcasts (bounds the model)                 *)
  Unmarshalable, (* the broadcasts json.Marshal refuses                     *)
  BroadcastCap,  (* capacity of Hub.broadcast                               *)
  SendCap        (* capacity of Client.send                                 *)

Messages == 1..MaxMessages
NoMessage == 0

ASSUME HubAssumption ==
  /\ MaxMessages \in Nat
  /\ Unmarshalable \subseteq Messages
  /\ BroadcastCap \in Nat \ {0}
  /\ SendCap \in Nat \ {0}

VARIABLES
  posted,    (* messages put into the broadcast channel so far              *)
  taken,     (* messages Hub.Run has taken from it so far                   *)
  clients,   (* h.clients                                                   *)
  fan,       (* the clients Hub.Run has yet to visit with message "taken"   *)
  http,      (* where ServeWs is, for each client                           *)
  conn,      (* the connection: "none", "open", "gone" or "closed"          *)
  send,      (* Client.send: what it holds                                  *)
  closed,    (* Client.send has been closed                                 *)
  writer,    (* where writePump is                                          *)
  hand,      (* the message writePump is writing                            *)
  reader,    (* where readPump is                                           *)
  written,   (* messages written to the connection                          *)
  joined,    (* value of taken when the client was registered               *)
  panicked   (* a channel was closed twice, or sent to after it was closed  *)

hubVars == <<posted, taken, clients, fan, panicked>>
pumpVars == <<conn, writer, hand, reader, written>>
vars == <<hubVars, http, send, closed, joined, pumpVars>>

TypeOK ==
  /\ posted \in 0..MaxMessages
  /\ taken \in 0..posted
  /\ posted - taken <= BroadcastCap
  /\ fan \subseteq clients
  /\ fan # {} => taken \in Messages
  /\ clients \subseteq Clients
  /\ http \in [Clients -> {"none", "upgraded", "registered", "serving"}]
  /\ conn \in [Clients -> {"none", "open", "gone", "closed"}]
  /\ send \in [Clients -> Seq(Messages)]
  /\ closed \in [Clients -> BOOLEAN]
  /\ writer \in [Clients -> {"none", "loop", "done"}]
  /\ hand \in [Clients -> Messages \cup {NoMessage}]
  /\ reader \in [Clients -> {"none", "reading", "unregister", "close", "done"}]
  /\ written \in [Clients -> Seq(Messages)]
  /\ joined \in [Clients -> 0..MaxMessages]
  /\ panicked \in BOOLEAN

Init ==
  /\ posted = 0 /\ taken = 0
  /\ clients = {} /\ fan = {}
  /\ http = [c \in Clients |-> "none"]
  /\ conn = [c \in Clients |-> "none"]
  /\ send = [c \in Clients |-> <<>>]
  /\ closed = [c \in Clients |-> FALSE]
  /\ writer = [c \in Clients |-> "none"]
  /\ hand = [c \in Clients |-> NoMessage]
  /\ reader = [c \in Clients |-> "none"]
  /\ written = [c \in Clients |-> <<>>]
  /\ joined = [c \in Clients |-> 0]
  /\ panicked = FALSE

-----------------------------------------------------------------------------
(* ServeWs, and the browser at the other end.                              *)

Upgrade(c) ==
  /\ http[c] = "none"
  /\ http' = [http EXCEPT ![c] = "upgraded"]
  /\ conn' = [conn EXCEPT ![c] = "open"]
  /\ UNCHANGED <<hubVars, send, closed, joined, writer, hand, reader, written>>

(* hub.register <- client, received by Run between two broadcasts.         *)
Register(c) ==
  /\ http[c] = "upgraded"
  /\ fan = {}
  /\ http' = [http EXCEPT ![c] = "registered"]
  /\ clients' = clients \cup {c}
  /\ joined' = [joined EXCEPT ![c] = taken]
  /\ UNCHANGED <<posted, taken, fan, panicked, send, closed, pumpVars>>

StartPumps(c) ==
  /\ http[c] = "registered"
  /\ http' = [http EXCEPT ![c] = "serving"]
  /\ writer' = [writer EXCEPT ![c] = "loop"]
  /\ reader' = [reader EXCEPT ![c] = "reading"]
  /\ UNCHANGED <<hubVars, send, closed, joined, conn, hand, written>>

(* The browser closes the connection, or stays silent for 60 seconds.      *)
PeerLeaves(c) ==
  /\ conn[c] = "open"
  /\ conn' = [conn EXCEPT ![c] = "gone"]
  /\ UNCHANGED <<hubVars, http, send, closed, joined>>
  /\ UNCHANGED <<writer, hand, reader, written>>

-----------------------------------------------------------------------------
(* Broadcast and Run.                                                      *)

(* Broadcast, called by any component: it blocks while the channel is full. *)
Broadcast ==
  /\ posted < MaxMessages
  /\ posted - taken < BroadcastCap
  /\ posted' = posted + 1
  /\ UNCHANGED <<taken, clients, fan, panicked, http, send, closed, joined>>
  /\ UNCHANGED pumpVars

(* A message is received and marshalled; one that cannot be is dropped.    *)
TakeMessage ==
  /\ fan = {}
  /\ taken < posted
  /\ taken' = taken + 1
  /\ fan' = IF taken + 1 \in Unmarshalable THEN {} ELSE clients
  /\ UNCHANGED <<posted, clients, panicked, http, send, closed, joined>>
  /\ UNCHANGED pumpVars

(* The send never blocks: the buffer has room ...                          *)
FanOut(c) ==
  /\ c \in fan
  /\ Len(send[c]) < SendCap \/ closed[c]
  /\ fan' = fan \ {c}
  /\ panicked' = (panicked \/ closed[c])
  /\ send' = IF closed[c] THEN send ELSE [send EXCEPT ![c] = Append(@, taken)]
  /\ UNCHANGED <<posted, taken, clients, http, closed, joined, pumpVars>>

(* Variants of Evict.  The client stays on the list ...                    *)
EvictKeepsClient(c) ==
  /\ c \in fan
  /\ Len(send[c]) = SendCap /\ ~closed[c]
  /\ fan' = fan \ {c}
  /\ closed' = [closed EXCEPT ![c] = TRUE]
  /\ UNCHANGED <<posted, taken, clients, panicked, http, send, joined, pumpVars>>

(* ... the message is skipped ...                                          *)
EvictSkips(c) ==
  /\ c \in fan
  /\ Len(send[c]) = SendCap
  /\ fan' = fan \ {c}
  /\ UNCHANGED <<posted, taken, clients, panicked, http, send, closed, joined>>
  /\ UNCHANGED pumpVars

(* ... it takes the place of the oldest one ...                            *)
EvictDropsOldest(c) ==
  /\ c \in fan
  /\ Len(send[c]) = SendCap
  /\ fan' = fan \ {c}
  /\ send' = [send EXCEPT ![c] = Append(Tail(@), taken)]
  /\ UNCHANGED <<posted, taken, clients, panicked, http, closed, joined>>
  /\ UNCHANGED pumpVars

(* ... or the send has no default branch and blocks.                       *)
EvictNever(c) ==
  /\ c \in fan
  /\ Len(send[c]) > SendCap
  /\ UNCHANGED vars

(* ... or the client is too slow and is put out.                           *)
Evict(c) ==
  /\ c \in fan
  /\ Len(send[c]) = SendCap /\ ~closed[c]
  /\ fan' = fan \ {c}
  /\ closed' = [closed EXCEPT ![c] = TRUE]
  /\ clients' = clients \ {c}
  /\ UNCHANGED <<posted, taken, panicked, http, send, joined, pumpVars>>

(* hub.unregister <- c, received by Run; the client may be out already.    *)
Unregister(c) ==
  /\ reader[c] = "unregister"
  /\ fan = {}
  /\ reader' = [reader EXCEPT ![c] = "close"]
  /\ IF c \in clients
     THEN /\ clients' = clients \ {c}
          /\ closed' = [closed EXCEPT ![c] = TRUE]
          /\ panicked' = (panicked \/ closed[c])
     ELSE UNCHANGED <<clients, closed, panicked>>
  /\ UNCHANGED <<posted, taken, fan, http, send, joined>>
  /\ UNCHANGED <<conn, writer, hand, written>>

-----------------------------------------------------------------------------
(* The pumps.                                                              *)

WriterTakes(c) ==
  /\ writer[c] = "loop" /\ hand[c] = NoMessage
  /\ send[c] # <<>>
  /\ hand' = [hand EXCEPT ![c] = Head(send[c])]
  /\ send' = [send EXCEPT ![c] = Tail(@)]
  /\ UNCHANGED <<hubVars, http, closed, joined, conn, writer, reader, written>>

(* The write to a peer that is gone may still succeed.                     *)
WriterWrites(c) ==
  /\ writer[c] = "loop" /\ hand[c] # NoMessage
  /\ conn[c] # "closed"
  /\ written' = [written EXCEPT ![c] = Append(@, hand[c])]
  /\ hand' = [hand EXCEPT ![c] = NoMessage]
  /\ UNCHANGED <<hubVars, http, send, closed, joined, conn, writer, reader>>

(* Variant of WriterStops: the closed channel is not noticed.              *)
WriterStopsOnError(c) ==
  /\ writer[c] = "loop"
  /\ hand[c] # NoMessage \/ conn[c] # "open"
  /\ writer' = [writer EXCEPT ![c] = "done"]
  /\ hand' = [hand EXCEPT ![c] = NoMessage]
  /\ conn' = [conn EXCEPT ![c] = "closed"]
  /\ UNCHANGED <<hubVars, http, send, closed, joined, reader, written>>

(* writePump returns and closes the connection: the write failed or missed *)
(* its deadline, the ping did, or the channel is closed and empty.         *)
WriterStops(c) ==
  /\ writer[c] = "loop"
  /\ \/ hand[c] # NoMessage
     \/ hand[c] = NoMessage /\ conn[c] # "open"
     \/ hand[c] = NoMessage /\ closed[c] /\ send[c] = <<>>
  /\ writer' = [writer EXCEPT ![c] = "done"]
  /\ hand' = [hand EXCEPT ![c] = NoMessage]
  /\ conn' = [conn EXCEPT ![c] = "closed"]
  /\ UNCHANGED <<hubVars, http, send, closed, joined, reader, written>>

(* Variant of ReadFails: the client is not unregistered.                   *)
ReadFailsSilently(c) ==
  /\ reader[c] = "reading"
  /\ conn[c] # "open"
  /\ reader' = [reader EXCEPT ![c] = "close"]
  /\ UNCHANGED <<hubVars, http, send, closed, joined, conn, writer, hand, written>>

ReadFails(c) ==
  /\ reader[c] = "reading"
  /\ conn[c] # "open"
  /\ reader' = [reader EXCEPT ![c] = "unregister"]
  /\ UNCHANGED <<hubVars, http, send, closed, joined, conn, writer, hand, written>>

ReaderCloses(c) ==
  /\ reader[c] = "close"
  /\ reader' = [reader EXCEPT ![c] = "done"]
  /\ conn' = [conn EXCEPT ![c] = "closed"]
  /\ UNCHANGED <<hubVars, http, send, closed, joined, writer, hand, written>>

-----------------------------------------------------------------------------
(* Nothing is left to do once every message is taken and every client is   *)
(* gone, or idle: the hub waits for the next one.                          *)
Waiting ==
  /\ posted = MaxMessages /\ taken = posted /\ fan = {}
  /\ UNCHANGED vars

Pump(c) ==
  \/ WriterTakes(c) \/ WriterWrites(c) \/ WriterStops(c)
  \/ ReadFails(c) \/ ReaderCloses(c)

Run ==
  \/ TakeMessage
  \/ \E c \in Clients : Register(c) \/ FanOut(c) \/ Evict(c) \/ Unregister(c)

Next ==
  \/ Broadcast \/ Run \/ Waiting
  \/ \E c \in Clients : Upgrade(c) \/ StartPumps(c) \/ PeerLeaves(c) \/ Pump(c)

Spec == Init /\ [][Next]_vars

(* The goroutines keep running, and a select of Run that is ready again    *)
(* and again for a client does not pass it over for ever: Go chooses       *)
(* among the ready cases at random.  No browser has to connect or leave,   *)
(* and nobody has to broadcast.                                            *)
Fairness ==
  /\ SF_vars(TakeMessage)
  /\ \A c \in Clients :
       /\ SF_vars(Register(c))
       /\ SF_vars(Unregister(c))
       /\ WF_vars(FanOut(c) \/ Evict(c))
       /\ WF_vars(StartPumps(c))
       /\ WF_vars(WriterTakes(c))
       /\ WF_vars(WriterWrites(c) \/ WriterStops(c))
       /\ WF_vars(ReadFails(c))
       /\ WF_vars(ReaderCloses(c))

FairSpec == Spec /\ Fairness

-----------------------------------------------------------------------------
(* Properties.                                                             *)

(* A send channel is closed once, and nothing is sent to it afterwards:    *)
(* either would be a panic that takes the whole server down.               *)
NoPanic == ~panicked

(* What the client has been sent and will still be sent.                   *)
Stream(c) ==
  written[c] \o (IF hand[c] = NoMessage THEN <<>> ELSE <<hand[c]>>) \o send[c]

(* The messages client c should have been given since it joined.           *)
Due(c) ==
  {m \in Messages \ Unmarshalable :
     joined[c] < m /\ m <= (IF c \in fan THEN taken - 1 ELSE taken)}

(* A client on the list has been given every message since it joined, each *)
(* once and in order, however slow it is: the hub cuts a slow client off,  *)
(* it never skips a message for one.                                       *)
NoGaps ==
  \A c \in clients :
    writer[c] # "done" =>
      /\ Range(Stream(c)) = Due(c)
      /\ \A i, j \in DOMAIN Stream(c) : i < j => Stream(c)[i] < Stream(c)[j]

(* A client that was cut off got a part of the stream without a gap.       *)
CutOffIsPrefix ==
  \A c \in Clients :
    \A i \in DOMAIN written[c] : \A m \in Messages \ Unmarshalable :
      joined[c] < m /\ m < written[c][i] =>
        \E j \in 1..(i - 1) : written[c][j] = m

(* The goroutines of a client whose connection ends come to an end, and    *)
(* the hub forgets the client.                                             *)
ClientsCleanedUp ==
  \A c \in Clients :
    (conn[c] \in {"gone", "closed"}) ~>
      (writer[c] = "done" /\ reader[c] = "done" /\ c \notin clients)

(* A client that is put out loses its connection.                          *)
EvictedIsCutOff == \A c \in Clients : closed[c] ~> (conn[c] = "closed")

(* No broadcast waits for ever, and neither does its way round the         *)
(* clients, whatever they do.                                              *)
EveryBroadcastTaken ==
  \A m \in Messages :
    (posted >= m) ~> (taken > m \/ (taken = m /\ fan = {}))

-----------------------------------------------------------------------------
(* The inductive invariant behind NoPanic: the channel of a client on the  *)
(* list is open, and a client that has not registered is not on it.        *)
Listed ==
  /\ ~panicked
  /\ \A c \in clients : ~closed[c]
  /\ \A c \in Clients :
       http[c] \in {"none", "upgraded"} => ~closed[c] /\ c \notin clients
-----------------------------------------------------------------------------
(* The inductive invariant behind NoGaps and CutOffIsPrefix.               *)

(* The broadcasts in q are in order, and none after number low is missing. *)
GapFree(q, low) ==
  /\ \A i \in DOMAIN q : q[i] \in Messages \ Unmarshalable /\ low < q[i]
  /\ \A i, j \in DOMAIN q : i < j => q[i] < q[j]
  /\ \A i \in DOMAIN q : \A m \in Messages \ Unmarshalable :
       low < m /\ m < q[i] => \E j \in 1..(i - 1) : q[j] = m

(* A client joins between two broadcasts, and Run takes the next one only  *)
(* when it has visited all clients with the one before.                    *)
RunInOrder ==
  /\ fan # {} => taken \notin Unmarshalable
  /\ \A c \in clients : joined[c] <= taken
  /\ \A c \in fan : joined[c] < taken

(* Nothing reaches a client before it is registered.                       *)
NothingEarly ==
  \A c \in Clients :
    /\ http[c] # "serving" => writer[c] = "none"
    /\ http[c] \in {"none", "upgraded"} =>
         written[c] = <<>> /\ hand[c] = NoMessage /\ send[c] = <<>>

(* Only a write pump that ends loses a message, and writes nothing then.   *)
StreamsGapFree ==
  \A c \in Clients :
    /\ GapFree(written[c], joined[c])
    /\ writer[c] # "done" => GapFree(Stream(c), joined[c])

HubInv == TypeOK /\ Listed /\ RunInOrder /\ NothingEarly /\ StreamsGapFree /\ NoGaps
=============================================================================
