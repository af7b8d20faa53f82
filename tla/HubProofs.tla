----------------------------- MODULE HubProofs -----------------------------
(***************************************************************************)
(* Proofs about Hub, for every set of clients, number of broadcasts and    *)
(* capacity.                                                               *)
(***************************************************************************)
EXTENDS Hub, TLAPS, SequenceTheorems

USE HubAssumption

(* Every variable keeps the type TypeOK gives it.                          *)
LEMMA TypeStep ==
  ASSUME TypeOK, [Next]_vars PROVE TypeOK'
<1> USE DEF TypeOK, hubVars, pumpVars, NoMessage
<1>1. CASE Broadcast
  <2>1. posted' \in 0..MaxMessages /\ taken \in 0..posted'
        /\ posted' - taken <= BroadcastCap
    BY <1>1 DEF Broadcast
  <2>2. UNCHANGED <<taken, clients, fan, panicked, http, send, closed, joined>>
        /\ UNCHANGED pumpVars
    BY <1>1 DEF Broadcast
  <2> QED BY <2>1, <2>2
<1>2. CASE TakeMessage
  <2>1. taken' \in 0..posted /\ taken' \in Messages /\ posted - taken' <= BroadcastCap
    BY <1>2 DEF TakeMessage, Messages
  <2>2. fan' \subseteq clients
    BY <1>2 DEF TakeMessage
  <2>3. UNCHANGED <<posted, clients, panicked, http, send, closed, joined>>
        /\ UNCHANGED pumpVars
    BY <1>2 DEF TakeMessage
  <2> QED BY <2>1, <2>2, <2>3
<1>3. CASE Waiting \/ UNCHANGED vars
  BY <1>3 DEF Waiting, vars
<1>4. ASSUME NEW c \in Clients, Upgrade(c) PROVE TypeOK'
  BY <1>4 DEF Upgrade
<1>5. ASSUME NEW c \in Clients, Register(c) PROVE TypeOK'
  BY <1>5 DEF Register
<1>6. ASSUME NEW c \in Clients, StartPumps(c) PROVE TypeOK'
  BY <1>6 DEF StartPumps
<1>7. ASSUME NEW c \in Clients, PeerLeaves(c) PROVE TypeOK'
  BY <1>7 DEF PeerLeaves
<1>8. ASSUME NEW c \in Clients, FanOut(c) PROVE TypeOK'
  <2>1. taken \in Messages
    BY <1>8 DEF FanOut
  <2>2. Append(send[c], taken) \in Seq(Messages)
    BY <2>1
  <2>3. send' \in [Clients -> Seq(Messages)]
    BY <1>8, <2>2 DEF FanOut
  <2>4. fan' \subseteq clients' /\ (fan' # {} => taken' \in Messages)
    BY <1>8 DEF FanOut
  <2> QED BY <1>8, <2>3, <2>4 DEF FanOut
<1>9. ASSUME NEW c \in Clients, Evict(c) PROVE TypeOK'
  BY <1>9 DEF Evict
<1>10. ASSUME NEW c \in Clients, Unregister(c) PROVE TypeOK'
  BY <1>10 DEF Unregister
<1>11. ASSUME NEW c \in Clients, WriterTakes(c) PROVE TypeOK'
  BY <1>11 DEF WriterTakes
<1>12. ASSUME NEW c \in Clients, WriterWrites(c) PROVE TypeOK'
  BY <1>12 DEF WriterWrites
<1>13. ASSUME NEW c \in Clients, WriterStops(c) PROVE TypeOK'
  BY <1>13 DEF WriterStops
<1>14. ASSUME NEW c \in Clients, ReadFails(c) PROVE TypeOK'
  BY <1>14 DEF ReadFails
<1>15. ASSUME NEW c \in Clients, ReaderCloses(c) PROVE TypeOK'
  BY <1>15 DEF ReaderCloses
<1> QED
  BY <1>1, <1>2, <1>3, <1>4, <1>5, <1>6, <1>7, <1>8, <1>9, <1>10, <1>11,
     <1>12, <1>13, <1>14, <1>15 DEF Next, Run, Pump

(* The initial state has the types.                                        *)
LEMMA InitTypes == Init => TypeOK
<1> SUFFICES ASSUME Init PROVE TypeOK
  OBVIOUS
<1>1. send \in [Clients -> Seq(Messages)] /\ written \in [Clients -> Seq(Messages)]
  BY DEF Init
<1>2. posted \in 0..MaxMessages /\ taken \in 0..posted
      /\ joined \in [Clients -> 0..MaxMessages]
  BY DEF Init
<1>3. fan = {} /\ clients = {} /\ posted - taken <= BroadcastCap
  BY DEF Init
<1>4. panicked \in BOOLEAN /\ closed \in [Clients -> BOOLEAN]
  BY DEF Init
<1>5. hand \in [Clients -> Messages \cup {NoMessage}]
  BY DEF Init
<1> QED BY <1>1, <1>2, <1>3, <1>4, <1>5 DEF Init, TypeOK

(* Type correctness of the hub.                                            *)
THEOREM TypeCorrect == Spec => []TypeOK
BY InitTypes, TypeStep, PTL DEF Spec

(* Which clients are on the list, and which channels are open, changes in  *)
(* the hub's own goroutine only.                                           *)
LEMMA ListedStep ==
  ASSUME TypeOK, Listed, [Next]_vars PROVE Listed'
<1>1. /\ clients \subseteq Clients /\ fan \subseteq clients
      /\ closed \in [Clients -> BOOLEAN]
      /\ http \in [Clients -> {"none", "upgraded", "registered", "serving"}]
      /\ reader \in [Clients -> {"none", "reading", "unregister", "close", "done"}]
  BY DEF TypeOK
<1> USE <1>1 DEF Listed
<1>2. ASSUME UNCHANGED <<panicked, closed, clients, http>> PROVE Listed'
  BY <1>2
<1>3. CASE Broadcast \/ TakeMessage \/ Waiting \/ UNCHANGED vars
  BY <1>2, <1>3 DEF Broadcast, TakeMessage, Waiting, vars, hubVars
<1>4. ASSUME NEW c \in Clients, Upgrade(c) \/ StartPumps(c) \/ PeerLeaves(c)
      PROVE  Listed'
  BY <1>4 DEF Upgrade, StartPumps, PeerLeaves, hubVars
<1>5. ASSUME NEW c \in Clients, Pump(c) PROVE Listed'
  BY <1>2, <1>5 DEF Pump, WriterTakes, WriterWrites, WriterStops, ReadFails,
                    ReaderCloses, hubVars
<1>6. ASSUME NEW c \in Clients, Register(c) PROVE Listed'
  BY <1>6 DEF Register
<1>7. ASSUME NEW c \in Clients, FanOut(c) PROVE Listed'
  <2>1. ~closed[c]
    BY <1>7 DEF FanOut
  <2> QED BY <1>7, <2>1 DEF FanOut
<1>8. ASSUME NEW c \in Clients, Evict(c) PROVE Listed'
  BY <1>8 DEF Evict
<1>9. ASSUME NEW c \in Clients, Unregister(c) PROVE Listed'
  <2>1. CASE c \in clients
    <3>1. ~closed[c]
      BY <2>1
    <3> QED BY <1>9, <2>1, <3>1 DEF Unregister
  <2>2. CASE c \notin clients
    BY <1>2, <1>9, <2>2 DEF Unregister
  <2> QED BY <2>1, <2>2
<1> QED
  BY <1>3, <1>4, <1>5, <1>6, <1>7, <1>8, <1>9 DEF Next, Run

(* No send channel is closed twice or sent to after it is closed, whatever *)
(* the order in which eviction, unregistration and registration happen.    *)
THEOREM HubNeverPanics == Spec => []NoPanic
<1>1. Init => Listed
  BY DEF Init, Listed
<1>2. TypeOK /\ Listed /\ [Next]_vars => Listed'
  BY ListedStep
<1>3. Listed => NoPanic
  BY DEF Listed, NoPanic
<1> QED BY <1>1, <1>2, <1>3, TypeCorrect, PTL DEF Spec

-----------------------------------------------------------------------------
(* Streams.                                                                *)

(* The beginning of a stream without gaps has none.                        *)
LEMMA PrefixIsGapFree ==
  ASSUME NEW q \in Seq(Messages), NEW r \in Seq(Messages), NEW low, GapFree(q \o r, low)
  PROVE  GapFree(q, low)
<1>1. /\ DOMAIN q = 1..Len(q) /\ Len(q) \in Nat /\ Len(r) \in Nat
      /\ DOMAIN (q \o r) = 1..(Len(q) + Len(r))
      /\ \A i \in DOMAIN q : i \in DOMAIN (q \o r) /\ (q \o r)[i] = q[i]
  <2>1. Len(q) \in Nat /\ Len(r) \in Nat /\ DOMAIN q = 1..Len(q)
    BY LenProperties
  <2>2. (q \o r) \in Seq(Messages) /\ Len(q \o r) = Len(q) + Len(r)
        /\ \A i \in 1..(Len(q) + Len(r)) :
             (q \o r)[i] = IF i <= Len(q) THEN q[i] ELSE r[i - Len(q)]
    BY ConcatProperties
  <2>3. DOMAIN (q \o r) = 1..Len(q \o r)
    BY <2>2, LenProperties
  <2> QED BY <2>1, <2>2, <2>3
<1>2. ASSUME NEW i \in DOMAIN q, NEW m \in Messages \ Unmarshalable, low < m, m < q[i]
      PROVE  \E j \in 1..(i - 1) : q[j] = m
  <2>1. PICK j \in 1..(i - 1) : (q \o r)[j] = m
    BY <1>1, <1>2 DEF GapFree
  <2>2. j \in DOMAIN q
    BY <1>1, <2>1
  <2> QED BY <1>1, <2>1, <2>2
<1>3. \A i \in DOMAIN q : q[i] \in Messages \ Unmarshalable /\ low < q[i]
  BY <1>1 DEF GapFree
<1>4. \A i, j \in DOMAIN q : i < j => q[i] < q[j]
  BY <1>1 DEF GapFree
<1> QED BY <1>2, <1>3, <1>4 DEF GapFree

(* The next broadcast, given to a client that has all before it.           *)
LEMMA NextIsGapFree ==
  ASSUME NEW q \in Seq(Messages), NEW low \in Nat, GapFree(q, low),
         NEW m \in Messages \ Unmarshalable, low < m,
         Range(q) = {e \in Messages \ Unmarshalable : low < e /\ e <= m - 1}
  PROVE  /\ GapFree(Append(q, m), low)
         /\ Range(Append(q, m)) = {e \in Messages \ Unmarshalable : low < e /\ e <= m}
<1>1. /\ Len(q) \in Nat /\ DOMAIN q = 1..Len(q)
      /\ DOMAIN Append(q, m) = 1..(Len(q) + 1)
      /\ \A i \in DOMAIN q : i \in DOMAIN Append(q, m) /\ Append(q, m)[i] = q[i]
      /\ Append(q, m)[Len(q) + 1] = m
  OBVIOUS
<1>2. \A i \in DOMAIN Append(q, m) : i \in DOMAIN q \/ i = Len(q) + 1
  BY <1>1
<1>3. \A e \in Messages : e \in Nat
  BY DEF Messages
<1>4. \A i \in DOMAIN q : q[i] \in Messages \ Unmarshalable /\ low < q[i] /\ q[i] <= m - 1
  BY DEF Range
<1>5. \A e \in Messages \ Unmarshalable :
        low < e /\ e <= m - 1 => \E i \in DOMAIN q : q[i] = e
  BY DEF Range
<1>6. Range(Append(q, m)) = {e \in Messages \ Unmarshalable : low < e /\ e <= m}
  <2>1. ASSUME NEW i \in DOMAIN Append(q, m)
        PROVE  /\ Append(q, m)[i] \in Messages \ Unmarshalable
               /\ low < Append(q, m)[i] /\ Append(q, m)[i] <= m
    BY <1>1, <1>2, <1>3, <1>4
  <2>2. ASSUME NEW e \in Messages \ Unmarshalable, low < e, e <= m
        PROVE  \E i \in DOMAIN Append(q, m) : Append(q, m)[i] = e
    <3>1. CASE e = m
      BY <1>1, <3>1
    <3>2. CASE e <= m - 1
      <4>1. PICK i \in DOMAIN q : q[i] = e
        BY <1>5, <2>2, <3>2
      <4> QED BY <1>1, <4>1, Zenon
    <3> QED BY <1>3, <2>2, <3>1, <3>2
  <2> QED BY <2>1, <2>2 DEF Range
<1>7. ASSUME NEW i \in DOMAIN Append(q, m), NEW j \in DOMAIN Append(q, m), i < j
      PROVE  Append(q, m)[i] < Append(q, m)[j]
  <2>1. i \in DOMAIN q
    BY <1>1, <1>7
  <2>2. CASE j \in DOMAIN q
    BY <1>1, <1>7, <2>1, <2>2 DEF GapFree
  <2>3. CASE j = Len(q) + 1
    BY <1>1, <1>3, <1>4, <2>1, <2>3
  <2> QED BY <1>2, <2>2, <2>3
<1>8. ASSUME NEW i \in DOMAIN Append(q, m), NEW e \in Messages \ Unmarshalable,
             low < e, e < Append(q, m)[i]
      PROVE  \E j \in 1..(i - 1) : Append(q, m)[j] = e
  <2>1. CASE i \in DOMAIN q
    <3>1. PICK j \in 1..(i - 1) : q[j] = e
      BY <1>1, <1>8, <2>1 DEF GapFree
    <3> QED BY <1>1, <2>1, <3>1
  <2>2. CASE i = Len(q) + 1
    <3>1. e <= m - 1
      BY <1>1, <1>3, <1>8, <2>2
    <3>2. PICK j \in DOMAIN q : q[j] = e
      BY <1>5, <1>8, <3>1
    <3> QED BY <1>1, <2>2, <3>2
  <2> QED BY <1>2, <2>1, <2>2
<1>9. \A i \in DOMAIN Append(q, m) :
        Append(q, m)[i] \in Messages \ Unmarshalable /\ low < Append(q, m)[i]
  BY <1>1, <1>2, <1>4
<1> QED BY <1>6, <1>7, <1>8, <1>9 DEF GapFree

(* What the write pump does to the order of a stream: nothing.             *)
LEMMA Streams ==
  ASSUME TypeOK, NEW c \in Clients
  PROVE  /\ Stream(c) \in Seq(Messages)
         /\ \A m \in Messages :
              written[c] \o (IF hand[c] = NoMessage THEN <<>> ELSE <<hand[c]>>)
                         \o Append(send[c], m) = Append(Stream(c), m)
         /\ hand[c] = NoMessage /\ send[c] # <<>> =>
              written[c] \o <<Head(send[c])>> \o Tail(send[c]) = Stream(c)
         /\ hand[c] # NoMessage =>
              Append(written[c], hand[c]) \o <<>> \o send[c] = Stream(c)
<1> DEFINE w == written[c]
           h == IF hand[c] = NoMessage THEN <<>> ELSE <<hand[c]>>
           s == send[c]
<1>1. w \in Seq(Messages) /\ h \in Seq(Messages) /\ s \in Seq(Messages)
  BY DEF TypeOK
<1>2. w \o h \in Seq(Messages) /\ Stream(c) = (w \o h) \o s /\ Stream(c) \in Seq(Messages)
  BY <1>1, ConcatProperties DEF Stream
<1>3. ASSUME NEW m \in Messages PROVE (w \o h) \o Append(s, m) = Append(Stream(c), m)
  <2>1. Append(s, m) = s \o <<m>> /\ <<m>> \in Seq(Messages)
    BY <1>1, AppendIsConcat
  <2>2. (w \o h) \o (s \o <<m>>) = ((w \o h) \o s) \o <<m>>
    <3> HIDE DEF w, h, s
    <3> QED BY <1>1, <1>2, <2>1, ConcatAssociative
  <2>3. Append(Stream(c), m) = Stream(c) \o <<m>>
    BY <1>2, AppendIsConcat
  <2> QED BY <1>2, <2>1, <2>2, <2>3
<1>4. ASSUME hand[c] = NoMessage, s # <<>>
      PROVE  w \o <<Head(s)>> \o Tail(s) = Stream(c)
  <2>1. <<Head(s)>> \in Seq(Messages) /\ Tail(s) \in Seq(Messages)
    BY <1>1, <1>4
  <2>4. <<Head(s)>> \o Tail(s) = s
    <3>1. /\ Len(<<Head(s)>> \o Tail(s)) = Len(s)
          /\ \A i \in 1..Len(s) : (<<Head(s)>> \o Tail(s))[i] = s[i]
      BY <1>1, <1>4, <2>1
    <3>2. <<Head(s)>> \o Tail(s) \in Seq(Messages)
      BY <2>1, ConcatProperties
    <3> HIDE DEF s
    <3> QED BY <1>1, <3>1, <3>2, SeqEqual
  <2>2. (w \o <<Head(s)>>) \o Tail(s) = w \o s
    <3> HIDE DEF w, s
    <3> QED BY <1>1, <2>1, <2>4, ConcatAssociative
  <2>3. w \o h = w
    BY <1>1, <1>4, ConcatEmptySeq
  <2> QED BY <1>2, <2>2, <2>3
<1>5. ASSUME hand[c] # NoMessage PROVE Append(w, hand[c]) \o <<>> \o s = Stream(c)
  <2>1. hand[c] \in Messages
    BY <1>5 DEF TypeOK
  <2>2. Append(w, hand[c]) = w \o h /\ Append(w, hand[c]) \in Seq(Messages)
    BY <1>1, <1>5, <2>1, AppendIsConcat
  <2>3. Append(w, hand[c]) \o <<>> = w \o h
    BY <2>2, ConcatEmptySeq
  <2> QED BY <1>2, <2>3
<1> QED BY <1>2, <1>3, <1>4, <1>5 DEF Stream

-----------------------------------------------------------------------------
(* What each step does to the streams.                                     *)

(* The stream of c, as far as it is written and as a whole, has no gap,    *)
(* and while c is listed it is all that c is due.                          *)
Kept(c) ==
  /\ GapFree(written[c], joined[c])' /\ (writer[c] # "done" => GapFree(Stream(c), joined[c]))'
  /\ (c \in clients /\ writer[c] # "done" => Range(Stream(c)) = Due(c))'

(* The streams are complete and in order as long as no client's is not.    *)
LEMMA KeptIsEnough ==
  ASSUME TypeOK', \A c \in Clients : Kept(c)
  PROVE  StreamsGapFree' /\ NoGaps'
BY DEF Kept, StreamsGapFree, NoGaps, GapFree, TypeOK

(* A client of which nothing changes keeps its stream.                     *)
LEMMA Untouched ==
  ASSUME HubInv, NEW c \in Clients,
         written'[c] = written[c], hand'[c] = hand[c], send'[c] = send[c],
         joined'[c] = joined[c],
         writer'[c] # "done" => writer[c] # "done",
         c \in clients' => c \in clients /\ Due(c)' = Due(c)
  PROVE  Kept(c)
<1>1. Stream(c)' = Stream(c)
  BY DEF Stream
<1> QED BY <1>1 DEF HubInv, StreamsGapFree, NoGaps, Kept, GapFree

(* The hub gives the client on its list the broadcast it has taken.        *)
LEMMA FanOutKeeps ==
  ASSUME HubInv, NEW c \in Clients, FanOut(c), writer[c] # "done"
  PROVE  GapFree(Stream(c), joined[c])' /\ Range(Stream(c))' = Due(c)'
<1> USE DEF HubInv
<1>1. /\ c \in fan /\ c \in clients /\ ~closed[c] /\ fan' = fan \ {c}
      /\ send' = [send EXCEPT ![c] = Append(@, taken)]
      /\ UNCHANGED <<taken, written, hand, joined>>
  BY DEF FanOut, TypeOK, Listed, pumpVars
<1>2. /\ taken \in Messages \ Unmarshalable /\ joined[c] \in Nat /\ joined[c] < taken
      /\ taken \in Nat
  BY <1>1 DEF TypeOK, RunInOrder, Messages
<1>3. Stream(c)' = Append(Stream(c), taken)
  <2>1. send'[c] = Append(send[c], taken)
    BY <1>1 DEF TypeOK
  <2> QED BY <1>1, <1>2, <2>1, Streams DEF Stream
<1>4. Range(Stream(c)) = {m \in Messages \ Unmarshalable : joined[c] < m /\ m <= taken - 1}
  BY <1>1 DEF NoGaps, Due
<1>5. /\ GapFree(Append(Stream(c), taken), joined[c])
      /\ Range(Append(Stream(c), taken)) =
            {m \in Messages \ Unmarshalable : joined[c] < m /\ m <= taken}
  <2> DEFINE q == Stream(c)
  <2>1. q \in Seq(Messages) /\ GapFree(q, joined[c])
    BY Streams DEF StreamsGapFree
  <2>2. Range(q) = {m \in Messages \ Unmarshalable : joined[c] < m /\ m <= taken - 1}
    BY <1>4
  <2> HIDE DEF q
  <2>3. /\ GapFree(Append(q, taken), joined[c])
        /\ Range(Append(q, taken)) =
              {m \in Messages \ Unmarshalable : joined[c] < m /\ m <= taken}
    BY <1>2, <2>1, <2>2, NextIsGapFree
  <2> QED BY <2>3 DEF q
<1>6. Due(c)' = {m \in Messages \ Unmarshalable : joined[c] < m /\ m <= taken}
  BY <1>1 DEF Due
<1>7. GapFree(Stream(c), joined[c])' <=> GapFree(Stream(c)', joined'[c])
  <2> HIDE DEF HubInv
  <2> QED BY DEF GapFree
<1> QED BY <1>1, <1>3, <1>5, <1>6, <1>7, Zenon

(* The write pump passes the stream on as it is.                           *)
LEMMA PumpKeeps ==
  ASSUME HubInv, NEW c \in Clients, WriterTakes(c) \/ WriterWrites(c)
  PROVE  Stream(c)' = Stream(c) /\ GapFree(written[c], joined[c])'
<1> USE DEF HubInv
<1>1. GapFree(written[c], joined[c]) /\ GapFree(Stream(c), joined[c])
  BY DEF StreamsGapFree, WriterTakes, WriterWrites
<1>2. CASE WriterTakes(c)
  <2>1. /\ hand[c] = NoMessage /\ send[c] # <<>> /\ hand'[c] = Head(send[c])
        /\ send'[c] = Tail(send[c]) /\ written' = written /\ joined' = joined
    BY <1>2 DEF WriterTakes, TypeOK
  <2>2. Head(send[c]) # NoMessage
    BY <2>1 DEF TypeOK, Messages, NoMessage
  <2>3. Stream(c)' = Stream(c)
    BY <2>1, <2>2, Streams DEF Stream
  <2>4. GapFree(written[c], joined[c])'
    <3> HIDE DEF HubInv
    <3> QED BY <1>1, <2>1 DEF GapFree
  <2> QED BY <2>3, <2>4
<1>3. CASE WriterWrites(c)
  <2>1. /\ hand[c] # NoMessage /\ hand'[c] = NoMessage /\ send' = send /\ joined' = joined
        /\ written'[c] = Append(written[c], hand[c])
    BY <1>3 DEF WriterWrites, TypeOK
  <2>2. Stream(c)' = Stream(c)
    BY <2>1, Streams DEF Stream
  <2>3. /\ hand[c] \in Messages /\ send[c] \in Seq(Messages)
        /\ written'[c] \in Seq(Messages)
    BY <2>1 DEF TypeOK
  <2>4. written'[c] \o send[c] = Stream(c)
    BY <2>1, <2>3, Streams, ConcatEmptySeq
  <2>5. GapFree(written'[c], joined[c])
    <3> DEFINE q == written'[c]
    <3>1. GapFree(q \o send[c], joined[c])
      BY <1>1, <2>4
    <3>2. q \in Seq(Messages) /\ send[c] \in Seq(Messages)
      BY <2>3
    <3> HIDE DEF q, HubInv
    <3>3. GapFree(q, joined[c])
      BY <3>1, <3>2, PrefixIsGapFree
    <3> QED BY <3>3 DEF q
  <2>6. joined'[c] = joined[c]
    BY <2>1
  <2>7. GapFree(written'[c], joined'[c])
    BY <2>5, <2>6
  <2> QED BY <2>2, <2>7
<1> QED BY <1>2, <1>3

(* A step that leaves the list, the round and the streams alone, but for   *)
(* what one client's pump may do to its own.                               *)
LEMMA OthersKeep ==
  ASSUME HubInv, NEW c \in Clients, UNCHANGED <<taken, clients, fan>>,
         \A d \in Clients \ {c} :
           /\ written'[d] = written[d] /\ hand'[d] = hand[d] /\ send'[d] = send[d]
           /\ joined'[d] = joined[d] /\ writer'[d] = writer[d]
  PROVE  \A d \in Clients \ {c} : Kept(d)
<1> SUFFICES ASSUME NEW d \in Clients \ {c} PROVE Kept(d)
  OBVIOUS
<1>1. Due(d)' = Due(d)
  BY DEF Due
<1> QED BY <1>1, Untouched

(* What Run does leaves every client of the list a complete stream.        *)
LEMMA RunKeeps ==
  ASSUME HubInv, Run PROVE \A d \in Clients : Kept(d)
<1> USE DEF HubInv
<1> SUFFICES ASSUME NEW d \in Clients PROVE Kept(d)
  OBVIOUS
<1>1. CASE TakeMessage
  <2>1. /\ UNCHANGED <<clients, written, hand, send, joined, writer>>
        /\ fan = {} /\ taken' = taken + 1 /\ taken \in Nat
        /\ fan' = IF taken + 1 \in Unmarshalable THEN {} ELSE clients
    BY <1>1 DEF TakeMessage, pumpVars, TypeOK
  <2>2. \A m \in Messages : m \in Nat /\ (m <= taken + 1 <=> m <= taken \/ m = taken + 1)
    BY <2>1 DEF Messages
  <2>3. ASSUME d \in clients PROVE Due(d)' = Due(d)
    <3>1. CASE taken + 1 \in Unmarshalable
      BY <2>1, <2>2, <3>1 DEF Due
    <3>2. CASE taken + 1 \notin Unmarshalable
      BY <2>1, <2>3, <3>2 DEF Due
    <3> QED BY <3>1, <3>2
  <2> QED BY <2>1, <2>3, Untouched
<1>2. ASSUME NEW c \in Clients, Register(c) PROVE Kept(d)
  <2>1. /\ UNCHANGED <<taken, fan, written, hand, send, writer>>
        /\ fan = {} /\ clients' = clients \cup {c}
        /\ joined' = [joined EXCEPT ![c] = taken]
        /\ taken \in Nat
    BY <1>2 DEF Register, pumpVars, TypeOK
  <2>2. CASE d # c
    <3>1. joined'[d] = joined[d] /\ (d \in clients' => d \in clients)
      BY <2>1, <2>2 DEF TypeOK
    <3>2. Due(d)' = Due(d)
      BY <2>1, <3>1 DEF Due
    <3> QED BY <2>1, <3>1, <3>2, Untouched
  <2>3. CASE d = c
    <3>1. written[c] = <<>> /\ hand[c] = NoMessage /\ send[c] = <<>>
      BY <1>2 DEF Register, NothingEarly
    <3>2. Stream(c)' = <<>> /\ written'[c] = <<>>
      BY <2>1, <3>1 DEF Stream
    <3>3. joined'[c] = taken
      BY <2>1 DEF TypeOK
    <3>4. Due(c)' = {}
      BY <2>1, <3>3 DEF Due, Messages
    <3>5. GapFree(<<>>, taken)
      BY DEF GapFree
    <3>6. Range(<<>>) = {}
      BY DEF Range
    <3>7. GapFree(written[c], joined[c])'
      BY <3>2, <3>3, <3>5
    <3>8. GapFree(Stream(c), joined[c])'
      BY <3>2, <3>3, <3>5
    <3>9. Range(Stream(c))' = Due(c)'
      BY <3>2, <3>4, <3>6
    <3> QED BY <2>3, <3>7, <3>8, <3>9 DEF Kept
  <2> QED BY <2>2, <2>3
<1>3. ASSUME NEW c \in Clients, FanOut(c) PROVE Kept(d)
  <2>1. /\ UNCHANGED <<taken, clients, written, hand, writer, joined>>
        /\ fan' = fan \ {c}
        /\ d # c => send'[d] = send[d]
    BY <1>3 DEF FanOut, pumpVars, TypeOK
  <2>2. CASE d # c
    <3>1. Due(d)' = Due(d)
      BY <2>1, <2>2 DEF Due
    <3> QED BY <2>1, <2>2, <3>1, Untouched
  <2>3. CASE d = c
    <3>1. GapFree(written[c], joined[c]) /\ written'[c] = written[c] /\ joined'[c] = joined[c]
      BY <2>1 DEF StreamsGapFree
    <3>2. GapFree(written[c], joined[c])'
      BY <3>1
    <3> QED BY <1>3, <2>1, <2>3, <3>2, FanOutKeeps DEF Kept
  <2> QED BY <2>2, <2>3
<1>4. ASSUME NEW c \in Clients, Evict(c) \/ Unregister(c) PROVE Kept(d)
  <2>1. /\ UNCHANGED <<taken, written, hand, writer, joined, send>>
        /\ clients' \subseteq clients
        /\ d \in clients' => (d \in fan' <=> d \in fan)
    BY <1>4 DEF Evict, Unregister, pumpVars
  <2>2. d \in clients' => Due(d)' = Due(d)
    BY <2>1 DEF Due
  <2> QED BY <2>1, <2>2, Untouched
<1> QED BY <1>1, <1>2, <1>3, <1>4 DEF Run

(* What the pumps and the browsers do leaves the streams complete.         *)
LEMMA ClientsKeep ==
  ASSUME HubInv, NEW c \in Clients,
         Upgrade(c) \/ StartPumps(c) \/ PeerLeaves(c) \/ Pump(c)
  PROVE  \A d \in Clients : Kept(d)
<1> USE DEF HubInv
<1>1. UNCHANGED <<taken, clients, fan, joined>>
  BY DEF Upgrade, StartPumps, PeerLeaves, Pump, WriterTakes, WriterWrites, WriterStops,
     ReadFails, ReaderCloses, hubVars
<1>2. Due(c)' = Due(c)
  BY <1>1 DEF Due
<1>3. \A d \in Clients \ {c} : Kept(d)
  <2>1. \A d \in Clients \ {c} :
          /\ written'[d] = written[d] /\ hand'[d] = hand[d] /\ send'[d] = send[d]
          /\ writer'[d] = writer[d]
    BY DEF Upgrade, StartPumps, PeerLeaves, Pump, WriterTakes, WriterWrites, WriterStops,
       ReadFails, ReaderCloses, TypeOK
  <2> QED BY <1>1, <2>1, OthersKeep
<1>4. CASE Upgrade(c) \/ PeerLeaves(c) \/ ReadFails(c) \/ ReaderCloses(c)
  <2>1. UNCHANGED <<written, hand, send, writer>>
    BY <1>4 DEF Upgrade, PeerLeaves, ReadFails, ReaderCloses
  <2> QED BY <1>1, <1>2, <1>3, <2>1, Untouched
<1>5. CASE StartPumps(c)
  <2>1. UNCHANGED <<written, hand, send>> /\ writer[c] = "none"
    BY <1>5 DEF StartPumps, NothingEarly
  <2> QED BY <1>1, <1>2, <1>3, <2>1, Untouched
<1>6. CASE WriterTakes(c) \/ WriterWrites(c)
  <2>1. /\ Stream(c)' = Stream(c) /\ GapFree(written[c], joined[c])'
        /\ writer' = writer /\ writer[c] = "loop"
    BY <1>6, PumpKeeps DEF WriterTakes, WriterWrites
  <2>2. GapFree(Stream(c), joined[c]) /\ (c \in clients => Range(Stream(c)) = Due(c))
    BY <2>1 DEF StreamsGapFree, NoGaps
  <2>3. Kept(c)
    BY <1>1, <1>2, <2>1, <2>2 DEF Kept
  <2> QED BY <1>3, <2>3
<1>7. CASE WriterStops(c)
  <2>1. writer'[c] = "done" /\ written' = written
    BY <1>7 DEF WriterStops, TypeOK
  <2>2. GapFree(written'[c], joined'[c])
    BY <1>1, <2>1 DEF StreamsGapFree
  <2>3. Kept(c)
    BY <2>1, <2>2 DEF Kept
  <2> QED BY <1>3, <2>3
<1> QED BY <1>4, <1>5, <1>6, <1>7 DEF Pump

(* Run takes one broadcast after the other, and only registered clients    *)
(* get any.                                                                *)
LEMMA OrderStep ==
  ASSUME HubInv, [Next]_vars PROVE RunInOrder' /\ NothingEarly'
<1> USE DEF HubInv
<1>1. RunInOrder'
  <2>1. taken \in Nat /\ clients \subseteq Clients /\ fan \subseteq clients
        /\ joined \in [Clients -> Nat]
    BY DEF TypeOK
  <2>2. CASE TakeMessage
    BY <2>1, <2>2 DEF TakeMessage, RunInOrder
  <2>3. ASSUME NEW c \in Clients, Register(c) PROVE RunInOrder'
    BY <2>1, <2>3 DEF Register, RunInOrder
  <2>4. ASSUME NEW c \in Clients,
               FanOut(c) \/ Evict(c) \/ Unregister(c) \/ Upgrade(c) \/ StartPumps(c)
                 \/ PeerLeaves(c) \/ Pump(c)
        PROVE  RunInOrder'
    <3>1. /\ taken' = taken /\ joined' = joined
          /\ clients' \subseteq clients /\ fan' \subseteq fan
      BY <2>4 DEF FanOut, Evict, Unregister, Upgrade, StartPumps, PeerLeaves, Pump,
         WriterTakes, WriterWrites, WriterStops, ReadFails, ReaderCloses, hubVars
    <3> QED BY <3>1 DEF RunInOrder
  <2>5. CASE Broadcast \/ Waiting \/ UNCHANGED vars
    BY <2>5 DEF Broadcast, Waiting, vars, hubVars, RunInOrder
  <2> QED BY <2>2, <2>3, <2>4, <2>5 DEF Next, Run
<1>2. NothingEarly'
  <2> SUFFICES ASSUME NEW d \in Clients
               PROVE  /\ http'[d] # "serving" => writer'[d] = "none"
                      /\ http'[d] \in {"none", "upgraded"} =>
                           written'[d] = <<>> /\ hand'[d] = NoMessage /\ send'[d] = <<>>
    BY DEF NothingEarly
  <2>1. CASE Broadcast \/ TakeMessage \/ Waiting \/ UNCHANGED vars
    BY <2>1 DEF Broadcast, TakeMessage, Waiting, vars, pumpVars, NothingEarly
  <2>2. ASSUME NEW c \in Clients,
               Upgrade(c) \/ Register(c) \/ StartPumps(c) \/ PeerLeaves(c) \/ Evict(c)
                 \/ Unregister(c) \/ ReadFails(c) \/ ReaderCloses(c)
        PROVE  /\ http'[d] # "serving" => writer'[d] = "none"
               /\ http'[d] \in {"none", "upgraded"} =>
                    written'[d] = <<>> /\ hand'[d] = NoMessage /\ send'[d] = <<>>
    BY <2>2 DEF Upgrade, Register, StartPumps, PeerLeaves, Evict, Unregister, ReadFails,
       ReaderCloses, pumpVars, NothingEarly, TypeOK
  <2>3. ASSUME NEW c \in Clients, FanOut(c)
        PROVE  /\ http'[d] # "serving" => writer'[d] = "none"
               /\ http'[d] \in {"none", "upgraded"} =>
                    written'[d] = <<>> /\ hand'[d] = NoMessage /\ send'[d] = <<>>
    <3>1. http[c] \notin {"none", "upgraded"}
      BY <2>3 DEF FanOut, Listed, TypeOK
    <3> QED BY <2>3, <3>1 DEF FanOut, pumpVars, NothingEarly, TypeOK
  <2>4. ASSUME NEW c \in Clients, WriterTakes(c) \/ WriterWrites(c) \/ WriterStops(c)
        PROVE  /\ http'[d] # "serving" => writer'[d] = "none"
               /\ http'[d] \in {"none", "upgraded"} =>
                    written'[d] = <<>> /\ hand'[d] = NoMessage /\ send'[d] = <<>>
    <3>1. http[c] = "serving"
      BY <2>4 DEF WriterTakes, WriterWrites, WriterStops, NothingEarly
    <3> QED BY <2>4, <3>1 DEF WriterTakes, WriterWrites, WriterStops, NothingEarly, TypeOK
  <2> QED BY <2>1, <2>2, <2>3, <2>4 DEF Next, Run, Pump
<1> QED BY <1>1, <1>2

(* The invariant of the streams holds at the start and is kept.            *)
THEOREM Invariance == Spec => []HubInv
<1>1. Init => Listed /\ RunInOrder /\ NothingEarly /\ StreamsGapFree /\ NoGaps
  <2> SUFFICES ASSUME Init
               PROVE  Listed /\ RunInOrder /\ NothingEarly /\ StreamsGapFree /\ NoGaps
    OBVIOUS
  <2>1. Listed /\ RunInOrder /\ NothingEarly /\ NoGaps
    BY DEF Init, Listed, RunInOrder, NothingEarly, NoGaps
  <2>2. ASSUME NEW c \in Clients PROVE Stream(c) = <<>> /\ written[c] = <<>>
    BY DEF Init, Stream
  <2>3. \A low : GapFree(<<>>, low)
    BY DEF GapFree
  <2> QED BY <2>1, <2>2, <2>3 DEF StreamsGapFree
<1>2. HubInv /\ [Next]_vars => HubInv'
  <2> SUFFICES ASSUME HubInv, [Next]_vars PROVE HubInv'
    OBVIOUS
  <2>1. TypeOK' /\ Listed'
    BY TypeStep, ListedStep DEF HubInv
  <2>2. \A d \in Clients : Kept(d)
    <3>1. CASE Run
      BY <3>1, RunKeeps
    <3>2. CASE \E c \in Clients : Upgrade(c) \/ StartPumps(c) \/ PeerLeaves(c) \/ Pump(c)
      BY <3>2, ClientsKeep
    <3>3. CASE Broadcast \/ Waiting \/ UNCHANGED vars
      <4>1. UNCHANGED <<taken, clients, fan, written, hand, send, joined, writer>>
        BY <3>3 DEF Broadcast, Waiting, vars, hubVars, pumpVars
      <4>2. \A d \in Clients : Due(d)' = Due(d)
        BY <4>1 DEF Due
      <4> QED BY <4>1, <4>2, Untouched
    <3> QED BY <3>1, <3>2, <3>3 DEF Next
  <2> QED BY <2>1, <2>2, KeptIsEnough, OrderStep DEF HubInv
<1>3. Init => TypeOK
  BY InitTypes
<1> QED BY <1>1, <1>2, <1>3, PTL DEF Spec, HubInv

(* A client on the list misses no broadcast, gets none twice, and gets     *)
(* them in order, however slow it is and whatever the others do.           *)
THEOREM StreamsHaveNoGaps == Spec => []NoGaps
BY Invariance, PTL DEF HubInv

(* What was written to a client that was cut off, or whose pump failed, is *)
(* the beginning of what it was due.                                       *)
THEOREM CutOffGotAPrefix == Spec => []CutOffIsPrefix
<1>1. HubInv => CutOffIsPrefix
  BY DEF HubInv, StreamsGapFree, GapFree, CutOffIsPrefix
<1> QED BY <1>1, Invariance, PTL
=============================================================================
