-------------------------- MODULE CollectorProofs --------------------------
(***************************************************************************)
(* Proofs about Collector, for every set of requests, every content of     *)
(* theirs, every capacity of DataCh and any number of crashes, and about   *)
(* DtuSimulator in front of it, for all numbers of rounds, chunks and      *)
(* readings.                                                               *)
(***************************************************************************)
EXTENDS DtuSimulator, TLAPS

USE CollectorAssumption DEF NoAnswer, Reset

-----------------------------------------------------------------------------
(* The channel.                                                            *)

(* What is left of a queue from which the first element is taken.          *)
LEMMA TakenElements ==
  ASSUME NEW S, NEW q \in Seq(S), q # <<>>
  PROVE  /\ Head(q) \in Range(q) /\ Head(q) \in S /\ Tail(q) \in Seq(S)
         /\ Range(Tail(q)) \subseteq Range(q)
         /\ IsInjective(q) => Head(q) \notin Range(Tail(q)) /\ IsInjective(Tail(q))
<1>1. /\ 1 \in DOMAIN q /\ Head(q) = q[1]
      /\ \A i \in DOMAIN Tail(q) :
           i \in Nat \ {0} /\ i + 1 \in DOMAIN q /\ Tail(q)[i] = q[i + 1]
  OBVIOUS
<1>2. Head(q) \in Range(q) /\ Range(Tail(q)) \subseteq Range(q)
  BY <1>1 DEF Range
<1>3. ASSUME IsInjective(q), NEW i \in DOMAIN Tail(q) PROVE Tail(q)[i] # Head(q)
  BY <1>1, <1>3 DEF IsInjective
<1>4. ASSUME IsInjective(q), NEW i \in DOMAIN Tail(q), NEW j \in DOMAIN Tail(q),
             Tail(q)[i] = Tail(q)[j]
      PROVE  i = j
  <2>1. i + 1 = j + 1
    BY <1>1, <1>4 DEF IsInjective
  <2> QED BY <1>1, <2>1
<1>5. Head(q) \in S /\ Tail(q) \in Seq(S)
  OBVIOUS
<1> QED BY <1>2, <1>3, <1>4, <1>5 DEF Range, IsInjective

(* What a queue holds to which an element is added.                        *)
LEMMA AddedElements ==
  ASSUME NEW S, NEW q \in Seq(S), NEW e \in S
  PROVE  /\ Append(q, e) \in Seq(S) /\ Len(Append(q, e)) = Len(q) + 1
         /\ Range(Append(q, e)) \subseteq Range(q) \cup {e}
         /\ IsInjective(q) /\ e \notin Range(q) => IsInjective(Append(q, e))
<1>1. /\ DOMAIN q = 1..Len(q) /\ DOMAIN Append(q, e) = 1..(Len(q) + 1)
      /\ Append(q, e)[Len(q) + 1] = e
      /\ \A i \in DOMAIN q : Append(q, e)[i] = q[i]
  OBVIOUS
<1>2. \A i \in DOMAIN Append(q, e) : i \in DOMAIN q \/ i = Len(q) + 1
  BY <1>1
<1>3. Range(Append(q, e)) \subseteq Range(q) \cup {e}
  BY <1>1, <1>2 DEF Range
<1>4. ASSUME IsInjective(q), e \notin Range(q) PROVE IsInjective(Append(q, e))
  BY <1>1, <1>2, <1>4 DEF Range, IsInjective
<1> QED BY <1>3, <1>4

-----------------------------------------------------------------------------
(* Type correctness.                                                       *)

(* Every action keeps the types.                                           *)
LEMMA TypeStep ==
  ASSUME TypeOK, [Next]_vars PROVE TypeOK'
<1> USE DEF TypeOK, httpVars, workerVars
<1>1. ASSUME NEW p \in Posts, Receive(p) PROVE TypeOK'
  BY <1>1 DEF Receive, Reply
<1>2. ASSUME NEW p \in Posts, Enqueue(p) PROVE TypeOK'
  <2>1. dataCh' \in Seq(Posts) /\ Len(dataCh') <= DataCap
    <3>1. Len(dataCh) \in Nat
      OBVIOUS
    <3> QED BY <1>2, <3>1, AddedElements DEF Enqueue
  <2> QED BY <1>2, <2>1 DEF Enqueue
<1>3. ASSUME NEW p \in Posts, EnqueueTimesOut(p) \/ AnswerTimesOut(p) PROVE TypeOK'
  BY <1>3 DEF EnqueueTimesOut, AnswerTimesOut, Reply
<1>11. ASSUME NEW p \in Posts, Answer(p) PROVE TypeOK'
  BY <1>11 DEF Answer, Reply
<1>4. CASE Take
  <2>1. dataCh' \in Seq(Posts) /\ Len(dataCh') <= DataCap /\ event' \in Posts
    <3>1. Len(Tail(dataCh)) = Len(dataCh) - 1 /\ Len(dataCh) \in Nat
      BY <1>4 DEF Take
    <3> QED BY <1>4, <3>1, TakenElements DEF Take
  <2> QED BY <1>4, <2>1 DEF Take
<1>5. CASE InsertRow \/ Announce
  BY <1>5 DEF InsertRow, Announce
<1>10. CASE Respond
  BY <1>10 DEF Respond
<1>6. CASE Commit
  <2>1. table' \subseteq UNION {RowsOf(p) : p \in Posts}
    BY <1>6 DEF Commit, Complete
  <2> QED BY <1>6, <2>1 DEF Commit, Complete, Stored, NotStored
<1>7. CASE StoreFails
  BY <1>7 DEF StoreFails, NotStored
<1>8. CASE Crash
  BY <1>8 DEF Crash
<1>9. CASE Idle \/ UNCHANGED vars
  BY <1>9 DEF Idle, vars
<1> QED
  BY <1>1, <1>2, <1>3, <1>4, <1>5, <1>6, <1>7, <1>8, <1>9, <1>10, <1>11
     DEF Next, Serve, Handle, Collect

(* Every variable keeps its type, and DataCh its capacity.                 *)
THEOREM TypeCorrect == Spec => []TypeOK
<1>1. Init => TypeOK
  BY DEF Init, TypeOK
<1>2. TypeOK /\ [Next]_vars => TypeOK'
  BY TypeStep
<1> QED BY <1>1, <1>2, PTL DEF Spec

-----------------------------------------------------------------------------
(* Batches.                                                                *)

(* Readings of different requests are different rows.                      *)
LEMMA RowsApart ==
  ASSUME NEW p, NEW q, p # q PROVE RowsOf(p) \cap RowsOf(q) = {}
BY DEF RowsOf

(* Only a commit touches the table.                                        *)
LEMMA TableFrame ==
  ASSUME [Next]_vars PROVE Commit \/ UNCHANGED table
<1> USE DEF httpVars, workerVars
<1>1. ASSUME NEW p \in Posts, Receive(p) \/ Handle(p) PROVE UNCHANGED table
  BY <1>1 DEF Receive, Handle, Enqueue, EnqueueTimesOut, Answer, AnswerTimesOut
<1>2. CASE Take \/ InsertRow \/ StoreFails \/ Announce \/ Respond \/ Crash
  BY <1>2 DEF Take, InsertRow, StoreFails, Announce, Respond, Crash
<1>3. CASE Idle \/ UNCHANGED vars
  BY <1>3 DEF Idle, vars
<1> QED BY <1>1, <1>2, <1>3 DEF Next, Serve, Collect

(* A step of the collector leaves of each request all of its rows or none. *)
LEMMA AllOrNothingStep ==
  ASSUME AllOrNothing, [Next]_vars PROVE AllOrNothing'
<1> SUFFICES ASSUME NEW p \in Posts
             PROVE  RowsOf(p) \subseteq table' \/ RowsOf(p) \cap table' = {}
  BY DEF AllOrNothing, RowsOf
<1>1. RowsOf(p) \subseteq table \/ RowsOf(p) \cap table = {}
  BY DEF AllOrNothing
<1>2. CASE UNCHANGED table
  BY <1>1, <1>2
<1>3. CASE Commit
  <2>1. table' = table \cup RowsOf(event)
    BY <1>3 DEF Commit
  <2>2. CASE p = event
    BY <2>1, <2>2
  <2>3. CASE p # event
    BY <1>1, <2>1, <2>3, RowsApart
  <2> QED BY <2>2, <2>3
<1> QED BY <1>2, <1>3, TableFrame

(* Wherever a write fails or the server dies, a batch is stored as a whole *)
(* or not at all.                                                          *)
THEOREM BatchAtomic == Spec => []AllOrNothing
<1>1. Init => AllOrNothing
  BY DEF Init, AllOrNothing
<1>2. AllOrNothing /\ [Next]_vars => AllOrNothing'
  BY AllOrNothingStep
<1> QED BY <1>1, <1>2, PTL DEF Spec

-----------------------------------------------------------------------------
(* The inductive invariant.                                                *)

(* The handler of p decodes, gives up or answers: no event moves.          *)
LEMMA HandlerStep ==
  ASSUME CollectorInv, TypeOK', NEW p \in Posts,
         Receive(p) \/ EnqueueTimesOut(p) \/ Answer(p) \/ AnswerTimesOut(p)
  PROVE  CollectorInv'
<1> USE DEF CollectorInv, httpVars, workerVars, Reply
<1>1. CASE Receive(p)
  BY <1>1 DEF Receive, TypeOK, Fresh, Once, OnTheWay, Truthful, Told, RowsOf,
              AcceptedIsStored, RefusedLeavesNoTrace
<1>2. CASE EnqueueTimesOut(p)
  BY <1>2 DEF EnqueueTimesOut, TypeOK, Fresh, Once, OnTheWay, Truthful, Told, RowsOf,
              AcceptedIsStored, RefusedLeavesNoTrace
<1>3. CASE Answer(p)
  BY <1>3 DEF Answer, TypeOK, Fresh, Once, OnTheWay, Truthful, Told, RowsOf,
              AcceptedIsStored, RefusedLeavesNoTrace
<1>4. CASE AnswerTimesOut(p)
  BY <1>4 DEF AnswerTimesOut, TypeOK, Fresh, Once, OnTheWay, Truthful, Told, RowsOf,
              AcceptedIsStored, RefusedLeavesNoTrace
<1> QED BY <1>1, <1>2, <1>3, <1>4

(* The event enters the channel, which it was not in.                      *)
LEMMA EnqueueStep ==
  ASSUME CollectorInv, TypeOK', NEW p \in Posts, Enqueue(p)
  PROVE  CollectorInv'
<1> USE DEF CollectorInv, httpVars, workerVars
<1>1. p # event /\ p \notin Range(dataCh)
  BY DEF OnTheWay, Enqueue
<1>2. Range(dataCh') \subseteq Range(dataCh) \cup {p} /\ IsInjective(dataCh')
  BY <1>1, AddedElements DEF Enqueue, TypeOK, Once
<1>3. Once'
  BY <1>1, <1>2 DEF Enqueue, Once
<1>4. OnTheWay' /\ RefusedLeavesNoTrace'
  BY <1>1, <1>2 DEF Enqueue, TypeOK, OnTheWay, Fresh, RefusedLeavesNoTrace, RowsOf
<1>5. Fresh' /\ Truthful' /\ AcceptedIsStored'
  BY DEF Enqueue, TypeOK, Fresh, Truthful, Told, AcceptedIsStored, RowsOf
<1> QED BY <1>3, <1>4, <1>5

(* The event leaves the channel, for good.                                 *)
LEMMA TakeStep ==
  ASSUME CollectorInv, TypeOK', Take
  PROVE  CollectorInv'
<1> USE DEF CollectorInv, httpVars, workerVars
<1>1. /\ event' \in Range(dataCh) /\ Range(dataCh') \subseteq Range(dataCh)
      /\ event' \notin Range(dataCh') /\ IsInjective(dataCh')
  BY TakenElements DEF Take, TypeOK, Once
<1>2. Once'
  BY <1>1 DEF Once
<1>3. OnTheWay' /\ RefusedLeavesNoTrace'
  BY <1>1 DEF Take, OnTheWay, RefusedLeavesNoTrace, RowsOf
<1>4. Fresh' /\ Truthful' /\ AcceptedIsStored'
  BY DEF Take, TypeOK, Fresh, Truthful, Told, AcceptedIsStored, RowsOf
<1> QED BY <1>2, <1>3, <1>4

(* The write goes on, or fails: nothing has changed for anybody.           *)
LEMMA WriteStep ==
  ASSUME CollectorInv, TypeOK', InsertRow \/ StoreFails
  PROVE  CollectorInv'
BY DEF CollectorInv, InsertRow, StoreFails, NotStored, httpVars, workerVars, TypeOK,
       Fresh, Once, OnTheWay, Truthful, Told, RowsOf, AcceptedIsStored,
       RefusedLeavesNoTrace

(* The rows of the event are committed; those of no other request are.     *)
LEMMA CommitStep ==
  ASSUME CollectorInv, TypeOK', Commit
  PROVE  CollectorInv'
<1> USE DEF CollectorInv, httpVars, workerVars
<1>1. /\ event \in Posts /\ table' = table \cup RowsOf(event)
      /\ UNCHANGED <<handler, answer, dataCh, respCh, event, announced>>
  BY DEF TypeOK, Commit, Complete
<1>2. \A p \in Posts : p # event => RowsOf(p) \cap table' = RowsOf(p) \cap table
  BY <1>1, RowsApart
<1>3. /\ handler[event] \in {"await", "done"} /\ answer[event] \notin {201, 400, 503}
      /\ respCh[event] = "empty"
  BY <1>1 DEF OnTheWay
<1>4. Fresh' /\ RefusedLeavesNoTrace'
  BY <1>1, <1>2, <1>3 DEF Fresh, RefusedLeavesNoTrace, RowsOf
<1>5. Once' /\ OnTheWay' /\ AcceptedIsStored'
  BY <1>1 DEF Once, OnTheWay, AcceptedIsStored, RowsOf
<1>6. Truthful'
  BY <1>1 DEF Commit, Stored, NotStored, Truthful, Told, RowsOf
<1> QED BY <1>4, <1>5, <1>6

(* The clients are told of the rows that are committed.                    *)
LEMMA AnnounceStep ==
  ASSUME CollectorInv, TypeOK', Announce
  PROVE  CollectorInv'
BY DEF CollectorInv, Announce, httpVars, TypeOK, Fresh, Once, OnTheWay, Truthful,
       Told, RowsOf, AcceptedIsStored, RefusedLeavesNoTrace

(* The handler is told what became of its event, and it may be gone.       *)
LEMMA RespondStep ==
  ASSUME CollectorInv, TypeOK', Respond
  PROVE  CollectorInv'
<1> USE DEF CollectorInv, httpVars, Respond
<1>1. event \in Posts /\ event' \notin Posts /\ Range(dataCh) \subseteq Posts
  BY DEF TypeOK, Range
<1>2. Once' /\ OnTheWay'
  BY <1>1 DEF TypeOK, Once, OnTheWay
<1>3. Fresh' /\ Truthful'
  BY <1>1 DEF TypeOK, Fresh, OnTheWay, Truthful, Told, RowsOf
<1>4. AcceptedIsStored' /\ RefusedLeavesNoTrace'
  BY <1>1 DEF AcceptedIsStored, RefusedLeavesNoTrace, RowsOf
<1> QED BY <1>2, <1>3, <1>4

(* A crash forgets the events and breaks off the requests they came from.  *)
LEMMA CrashStep ==
  ASSUME CollectorInv, TypeOK', Crash
  PROVE  CollectorInv'
<1> USE DEF CollectorInv, Crash
<1>1. event' \notin Posts /\ Range(dataCh') = {} /\ IsInjective(dataCh')
  BY DEF Range, IsInjective
<1>2. \A p \in Posts : /\ handler'[p] \in {"none", "enqueue"} => handler[p] = "none"
                       /\ answer'[p] = answer[p] \/ answer'[p] = Reset
  OBVIOUS
<1>3. Once' /\ OnTheWay'
  BY <1>1, <1>2 DEF Once, OnTheWay
<1>4. Fresh' /\ Truthful'
  BY DEF TypeOK, Fresh, Truthful, Told, RowsOf
<1>5. AcceptedIsStored' /\ RefusedLeavesNoTrace'
  BY <1>1, <1>2 DEF AcceptedIsStored, RefusedLeavesNoTrace, RowsOf
<1> QED BY <1>3, <1>4, <1>5

(* It holds at the start, and no step breaks it.                           *)
LEMMA InvStep ==
  /\ Init => CollectorInv
  /\ CollectorInv /\ [Next]_vars => CollectorInv'
<1>1. Init => CollectorInv
  BY DEF Init, CollectorInv, TypeOK, Fresh, Once, OnTheWay, Truthful, Told, RowsOf,
         AcceptedIsStored, RefusedLeavesNoTrace, Range, IsInjective
<1>2. CollectorInv /\ [Next]_vars => CollectorInv'
  <2> SUFFICES ASSUME CollectorInv, [Next]_vars PROVE CollectorInv'
    OBVIOUS
  <2>1. TypeOK'
    BY TypeStep DEF CollectorInv
  <2>2. CASE Idle \/ UNCHANGED vars
    BY <2>2 DEF Idle, vars, httpVars, workerVars, CollectorInv, TypeOK, Fresh, Once,
                OnTheWay, Truthful, Told, RowsOf, AcceptedIsStored,
                RefusedLeavesNoTrace
  <2> QED
    BY <2>1, <2>2, HandlerStep, EnqueueStep, TakeStep, WriteStep, CommitStep,
       AnnounceStep, RespondStep, CrashStep DEF Next, Serve, Handle, Collect
<1> QED BY <1>1, <1>2

(* CollectorInv is an invariant.                                           *)
THEOREM Invariance == Spec => []CollectorInv
BY InvStep, PTL DEF Spec

(* 201 is only ever answered for readings that are committed and, where    *)
(* there is a broadcast for them, announced.                               *)
THEOREM AcceptedStays == Spec => []AcceptedIsStored
<1>1. CollectorInv => AcceptedIsStored
  BY DEF CollectorInv
<1> QED BY <1>1, Invariance, PTL

(* A request turned away with 400 or 503 has stored nothing and never will.*)
THEOREM RefusedStaysOut == Spec => []RefusedLeavesNoTrace
<1>1. CollectorInv => RefusedLeavesNoTrace
  BY DEF CollectorInv
<1> QED BY <1>1, Invariance, PTL

-----------------------------------------------------------------------------
(* The simulator.                                                          *)

(* What the simulator sends are its posts, alone or as a batch.            *)
LEMMA CurrentIsPost ==
  ASSUME DtuTypeOK, OnlyClient
  PROVE  /\ Current \in Posts
         /\ round \in Nat /\ chunk \in Nat /\ item \in Nat
         /\ Current[1] = round /\ Current[2] = chunk /\ Current[3] = item
         /\ item = 0 => UseBatch /\ Current \in BatchPosts
         /\ item > 0 => Current \in SinglePosts
<1>1. /\ round \in 1..MaxRounds /\ chunk \in 1..NumChunks /\ item \in 0..ChunkSize
      /\ item = 0 => UseBatch
  BY DtuAssumption DEF DtuTypeOK, FirstItem
<1>2. <<round, chunk>> \in Places
  BY <1>1 DEF Places
<1>3. item = 0 => Current \in BatchPosts
  BY <1>2 DEF BatchPosts, Current
<1>4. item > 0 => Current \in SinglePosts
  <2>1. item > 0 => item \in 1..ChunkSize
    BY <1>1, DtuAssumption
  <2> QED BY <1>2, <2>1 DEF SinglePosts, Current
<1>5. Current \in DtuPosts
  BY <1>1, <1>3, <1>4 DEF DtuPosts
<1> QED BY <1>1, <1>3, <1>4, <1>5, DtuAssumption DEF OnlyClient, Current

(* The shapes of the requests.                                             *)
LEMMA PostShapes ==
  /\ \A p \in SinglePosts :
       /\ p \in DtuPosts /\ p = <<p[1], p[2], p[3]>> /\ p[3] \in Nat \ {0}
       /\ p[1] \in Nat /\ p[2] \in Nat
       /\ <<p[1], p[2], 0>> \in BatchPosts
  /\ \A b \in BatchPosts :
       /\ b \in DtuPosts /\ b = <<b[1], b[2], 0>>
       /\ b[1] \in Nat /\ b[2] \in Nat /\ b[3] = 0
  /\ \A p \in DtuPosts : p[1] \in Nat /\ p[2] \in Nat /\ p[3] \in Nat
<1>1. ASSUME NEW p \in SinglePosts
      PROVE  /\ p \in DtuPosts /\ p = <<p[1], p[2], p[3]>> /\ p[3] \in Nat \ {0}
             /\ p[1] \in Nat /\ p[2] \in Nat
             /\ <<p[1], p[2], 0>> \in BatchPosts
  BY DtuAssumption DEF SinglePosts, BatchPosts, DtuPosts, Places
<1>2. ASSUME NEW b \in BatchPosts
      PROVE  /\ b \in DtuPosts /\ b = <<b[1], b[2], 0>>
             /\ b[1] \in Nat /\ b[2] \in Nat /\ b[3] = 0
  BY DtuAssumption DEF BatchPosts, DtuPosts, Places
<1>3. ASSUME NEW p \in DtuPosts PROVE p[1] \in Nat /\ p[2] \in Nat /\ p[3] \in Nat
  <2>1. CASE p \in SinglePosts
    BY <1>1, <2>1
  <2>2. CASE p \in BatchPosts
    BY <1>2, <2>2
  <2> QED BY <2>1, <2>2 DEF DtuPosts
<1> QED BY <1>1, <1>2, <1>3

(* The server alone neither begins a request nor sends one again.          *)
LEMMA ServeStep ==
  ASSUME DtuInv, Serve \/ UNCHANGED vars, UNCHANGED dtuVars
  PROVE  DtuInv'
<1>1. CollectorInv'
  BY InvStep DEF DtuInv, Next
<1>2. \A p \in Posts : handler'[p] = "none" <=> handler[p] = "none"
  <2>1. handler \in [Posts -> {"none", "enqueue", "await", "done"}]
    BY DEF DtuInv, CollectorInv, TypeOK
  <2>2. CASE Collect \/ UNCHANGED vars
    BY <2>2 DEF Collect, Take, InsertRow, Commit, StoreFails, Announce, Respond,
                vars, httpVars
  <2>3. CASE Crash
    BY <2>1, <2>3 DEF Crash
  <2>4. ASSUME NEW p \in Posts, Handle(p)
        PROVE  \A q \in Posts : handler'[q] = "none" <=> handler[q] = "none"
    BY <2>1, <2>4 DEF Handle, Enqueue, EnqueueTimesOut, Answer, AnswerTimesOut, Reply
  <2> QED BY <2>2, <2>3, <2>4 DEF Serve
<1>3. Posts = DtuPosts
  BY DEF DtuInv, OnlyClient
<1>4. UNCHANGED <<round, chunk, item, dtu, outcome>>
  BY DEF dtuVars
<1>5. OnlyClient' /\ DtuTypeOK'
  BY <1>4 DEF DtuInv, OnlyClient, DtuTypeOK
<1>6. InOrder'
  BY <1>2, <1>3, <1>4 DEF DtuInv, InOrder, Ahead
<1>7. BatchFirst'
  BY <1>2, <1>3, <1>4, PostShapes DEF DtuInv, BatchFirst
<1> QED BY <1>1, <1>5, <1>6, <1>7 DEF DtuInv

(* The simulator sends a request that it has not sent before.              *)
LEMMA SendStep == ASSUME DtuInv, Send PROVE DtuInv'
<1>1. /\ Current \in Posts /\ round \in Nat /\ chunk \in Nat /\ item \in Nat
      /\ Current[1] = round /\ Current[2] = chunk /\ Current[3] = item
      /\ item = 0 => UseBatch /\ Current \in BatchPosts
      /\ item > 0 => Current \in SinglePosts
      /\ Posts = DtuPosts
  BY CurrentIsPost DEF DtuInv, OnlyClient
<1>2. /\ dtu = "send" /\ dtu' = "wait" /\ UNCHANGED <<round, chunk, item, outcome>>
      /\ Receive(Current)
  BY DEF Send
<1>3. CollectorInv'
  BY <1>1, <1>2, InvStep DEF DtuInv, Next
<1>4. \A p \in Posts : p # Current => handler'[p] = handler[p]
  <2>1. handler \in [Posts -> {"none", "enqueue", "await", "done"}]
    BY DEF DtuInv, CollectorInv, TypeOK
  <2> HIDE DEF Current
  <2> QED BY <1>1, <1>2, <2>1 DEF Receive, Reply
<1>5. OnlyClient' /\ DtuTypeOK'
  BY <1>2 DEF DtuInv, OnlyClient, DtuTypeOK
<1>6. InOrder'
  <2>1. ASSUME NEW p \in DtuPosts, Ahead(p)' PROVE Ahead(p) /\ p # Current
    BY <1>1, <1>2, <2>1 DEF Ahead
  <2> QED BY <1>1, <1>4, <2>1 DEF DtuInv, InOrder
<1>7. BatchFirst'
  <2>1. CASE UseBatch
    <3>1. ASSUME NEW p \in SinglePosts, handler'[p] # "none"
          PROVE  outcome[<<p[1], p[2], 0>>] = "failed"
      <4>1. CASE p = Current
        <5>1. item > 0 /\ p[1] = round /\ p[2] = chunk
          BY <1>1, <4>1, PostShapes
        <5> QED BY <2>1, <5>1 DEF DtuInv, BatchFirst
      <4>2. CASE p # Current
        BY <1>1, <1>4, <2>1, <3>1, <4>2, PostShapes DEF DtuInv, BatchFirst
      <4> QED BY <4>1, <4>2
    <3> QED BY <1>2, <2>1, <3>1 DEF DtuInv, BatchFirst
  <2>2. CASE ~UseBatch
    <3>1. ASSUME NEW b \in BatchPosts PROVE b # Current
      BY <1>1, <2>2, PostShapes
    <3> QED BY <1>1, <1>4, <2>2, <3>1, PostShapes DEF DtuInv, BatchFirst
  <2> QED BY <2>1, <2>2
<1> QED BY <1>3, <1>5, <1>6, <1>7 DEF DtuInv

(* What comes of a batch is noted before any reading of it is sent alone,  *)
(* and for good.                                                           *)
LEMMA BatchStep == ASSUME DtuInv, BatchAccepted \/ BatchFailed PROVE DtuInv'
<1>1. /\ Current \in Posts /\ round \in Nat /\ chunk \in Nat /\ item \in Nat
      /\ Current[1] = round /\ Current[2] = chunk /\ Current[3] = item
      /\ Posts = DtuPosts
  BY CurrentIsPost DEF DtuInv, OnlyClient
<1>2. /\ item = 0 /\ dtu = "wait" /\ UNCHANGED <<vars, round, chunk>>
      /\ \/ item' = 0 /\ dtu' = "dead"
         \/ item' = 1 /\ dtu' = "send" /\ outcome'[Current] = "failed"
      /\ DOMAIN outcome' = DtuPosts
      /\ \A p \in DtuPosts : p # Current => outcome'[p] = outcome[p]
  BY <1>1 DEF BatchAccepted, BatchFailed, Accepted, Failed, DtuInv, DtuTypeOK
<1>3. UseBatch /\ Current \in BatchPosts
  BY <1>2, CurrentIsPost DEF DtuInv
<1>4. CollectorInv' /\ UNCHANGED handler
  BY <1>2, InvStep DEF DtuInv, vars, httpVars
<1>5. OnlyClient' /\ DtuTypeOK'
  BY <1>2, <1>3, DtuAssumption DEF DtuInv, OnlyClient, DtuTypeOK, FirstItem
<1>6. InOrder'
  <2>1. ASSUME NEW p \in DtuPosts, Ahead(p)' PROVE Ahead(p)
    <3>1. p[3] \in Nat
      BY PostShapes
    <3> QED BY <1>1, <1>2, <2>1, <3>1 DEF Ahead
  <2> QED BY <1>4, <2>1 DEF DtuInv, InOrder
<1>7. BatchFirst'
  <2>1. ASSUME NEW p \in SinglePosts, handler[p] # "none"
        PROVE  outcome'[<<p[1], p[2], 0>>] = "failed"
    <3>1. ~Ahead(p)
      BY <2>1, PostShapes DEF DtuInv, InOrder
    <3>2. ~(p[1] = round /\ p[2] = chunk)
      <4>1. p[3] \in Nat \ {0}
        BY PostShapes
      <4>2. p[3] > item
        BY <1>2, <4>1
      <4> QED BY <1>2, <3>1, <4>2 DEF Ahead
    <3>3. <<p[1], p[2], 0>> # Current
      BY <1>1, <3>2
    <3> QED BY <1>2, <1>3, <2>1, <3>3, PostShapes DEF DtuInv, BatchFirst
  <2>2. item' > 0 => outcome'[<<round, chunk, 0>>] = "failed"
    BY <1>2 DEF Current
  <2> QED BY <1>2, <1>3, <1>4, <2>1, <2>2 DEF BatchFirst
<1> QED BY <1>4, <1>5, <1>6, <1>7 DEF DtuInv

(* After a reading sent alone comes a request that is still ahead.         *)
LEMMA OneStep == ASSUME DtuInv, OneSent PROVE DtuInv'
<1>1. /\ Current \in Posts /\ round \in Nat /\ chunk \in Nat /\ item \in Nat
      /\ Current[1] = round /\ Current[2] = chunk /\ Current[3] = item
      /\ Posts = DtuPosts
      /\ item > 0 => Current \in SinglePosts
  BY CurrentIsPost DEF DtuInv, OnlyClient
<1>2. /\ item > 0 /\ dtu = "wait" /\ UNCHANGED <<vars, round>> /\ MoveOn
      /\ DOMAIN outcome' = DtuPosts
      /\ \A p \in DtuPosts : p # Current => outcome'[p] = outcome[p]
  BY <1>1 DEF OneSent, Accepted, Failed, DtuInv, DtuTypeOK
<1>3. CollectorInv' /\ UNCHANGED handler
  BY <1>2, InvStep DEF DtuInv, vars, httpVars
<1>4. FirstItem \in 0..ChunkSize /\ (UseBatch => FirstItem = 0)
  BY DtuAssumption DEF FirstItem
<1>5. OnlyClient' /\ DtuTypeOK'
  <2>1. round \in 1..MaxRounds /\ chunk \in 1..NumChunks /\ item \in FirstItem..ChunkSize
    BY DEF DtuInv, DtuTypeOK
  <2>2. chunk' \in 1..NumChunks /\ item' \in FirstItem..ChunkSize
    BY <1>2, <1>4, <2>1, DtuAssumption DEF MoveOn
  <2>3. dtu' \in {"send", "sleep"} /\ (dtu' = "sleep" => item' = FirstItem)
    BY <1>2 DEF MoveOn
  <2> QED BY <1>2, <2>1, <2>2, <2>3 DEF DtuInv, OnlyClient, DtuTypeOK
<1>6. InOrder'
  <2>1. ASSUME NEW p \in DtuPosts, Ahead(p)' PROVE Ahead(p)
    <3>1. p[1] \in Nat /\ p[2] \in Nat /\ p[3] \in Nat
      BY PostShapes
    <3> QED BY <1>1, <1>2, <2>1, <3>1 DEF Ahead, MoveOn
  <2> QED BY <1>3, <2>1 DEF DtuInv, InOrder
<1>7. \A b \in BatchPosts : outcome'[b] = outcome[b]
  BY <1>1, <1>2, PostShapes
<1>8. UseBatch /\ item' > 0 => chunk' = chunk
  BY <1>2, <1>4 DEF MoveOn
<1>9. BatchFirst'
  <2>1. CASE UseBatch
    <3>1. <<round, chunk, 0>> \in BatchPosts
      BY <1>1, <1>2, PostShapes
    <3> QED BY <1>2, <1>3, <1>7, <1>8, <2>1, <3>1, PostShapes DEF DtuInv, BatchFirst
  <2>2. CASE ~UseBatch
    BY <1>3, <2>2 DEF DtuInv, BatchFirst
  <2> QED BY <2>1, <2>2
<1> QED BY <1>3, <1>5, <1>6, <1>9 DEF DtuInv

(* A new round begins behind all that was sent.                            *)
LEMMA RoundStep == ASSUME DtuInv, NextRound \/ Restart PROVE DtuInv'
<1>1. /\ round \in Nat /\ chunk \in Nat /\ Posts = DtuPosts
      /\ round' = round + 1 /\ round < MaxRounds /\ dtu' = "send"
      /\ item = FirstItem /\ item' = FirstItem
      /\ chunk' \in {1, chunk} /\ UNCHANGED <<vars, outcome>>
  BY CurrentIsPost DEF DtuInv, OnlyClient, DtuTypeOK, NextRound, Restart
<1>2. CollectorInv' /\ UNCHANGED handler
  BY <1>1, InvStep DEF DtuInv, vars, httpVars
<1>3. OnlyClient' /\ DtuTypeOK'
  <2>1. round' \in 1..MaxRounds /\ chunk' \in 1..NumChunks
    BY <1>1, DtuAssumption DEF DtuInv, DtuTypeOK
  <2> QED BY <1>1, <2>1 DEF DtuInv, OnlyClient, DtuTypeOK
<1>4. InOrder'
  <2>1. ASSUME NEW p \in DtuPosts, Ahead(p)' PROVE Ahead(p)
    <3>1. p[1] \in Nat
      BY PostShapes
    <3> QED BY <1>1, <2>1, <3>1 DEF Ahead
  <2> QED BY <1>2, <2>1 DEF DtuInv, InOrder
<1>5. BatchFirst'
  <2>1. UseBatch => ~(item' > 0)
    BY <1>1 DEF FirstItem
  <2> QED BY <1>1, <1>2, <2>1 DEF DtuInv, BatchFirst
<1> QED BY <1>2, <1>3, <1>4, <1>5 DEF DtuInv

(* Nothing has been sent when the simulator starts.                        *)
LEMMA DtuInitHolds == DtuInit => DtuInv
<1> SUFFICES ASSUME DtuInit PROVE DtuInv
  OBVIOUS
<1>1. OnlyClient /\ CollectorInv /\ Posts = DtuPosts /\ \A p \in Posts : handler[p] = "none"
  BY InvStep DEF DtuInit, Init, OnlyClient
<1>2. DtuTypeOK
  BY DtuAssumption DEF DtuInit, DtuTypeOK, FirstItem
<1>3. InOrder
  BY <1>1 DEF InOrder
<1>4. BatchFirst
  <2>1. \A p \in SinglePosts \cup BatchPosts : handler[p] = "none"
    BY <1>1, PostShapes
  <2>2. UseBatch => ~(item > 0)
    BY DEF DtuInit, FirstItem
  <2> QED BY <2>1, <2>2 DEF BatchFirst
<1> QED BY <1>1, <1>2, <1>3, <1>4 DEF DtuInv

(* The simulator sends its requests in order, each at most once, and a     *)
(* reading alone only after its batch has failed.                          *)
THEOREM DtuInvariance == DtuSpec => []DtuInv
<1>1. ASSUME DtuInv, [DtuNext]_allVars PROVE DtuInv'
  <2>1. CASE DtuStep
    BY <1>1, <2>1, SendStep, BatchStep, OneStep, RoundStep DEF DtuStep
  <2>2. CASE (Serve /\ UNCHANGED dtuVars) \/ Rest \/ UNCHANGED allVars
    BY <1>1, <2>2, ServeStep DEF Rest, allVars
  <2> QED BY <1>1, <2>1, <2>2 DEF DtuNext
<1> QED BY <1>1, DtuInitHolds, PTL DEF DtuSpec

(* A reading is in the table twice only when the batch it was part of was  *)
(* taken by the server and the simulator had no way to know.               *)
THEOREM DuplicatesAreNeeded == DtuSpec => []NoNeedlessDuplicate
<1>1. ASSUME DtuInv PROVE NoNeedlessDuplicate
  <2> SUFFICES ASSUME NEW b \in BatchPosts, NEW p \in SinglePosts,
                      p \in Range(Rows[b]), <<b, p>> \in table, <<p, p>> \in table
               PROVE  outcome[b] = "failed" /\ answer[b] \notin {400, 503}
    BY DEF NoNeedlessDuplicate
  <2>1. /\ b \in Posts /\ p \in Posts /\ b = <<b[1], b[2], 0>> /\ b[3] = 0
        /\ p[3] \in Nat \ {0}
    BY <1>1, PostShapes DEF DtuInv, OnlyClient
  <2>2. p[1] = b[1] /\ p[2] = b[2]
    <3>1. Rows[b] = [i \in 1..ChunkSize |-> <<b[1], b[2], i>>]
      BY <1>1, <2>1 DEF DtuInv, OnlyClient, DtuRows
    <3> QED BY <3>1 DEF Range
  <2>3. <<p, p>> \in RowsOf(p)
    <3>1. Rows[p] = <<p>>
      BY <1>1, <2>1 DEF DtuInv, OnlyClient, DtuRows
    <3> QED BY <3>1 DEF RowsOf, Range
  <2>4. <<b, p>> \in RowsOf(b)
    BY DEF RowsOf
  <2>5. handler[p] # "none" /\ handler[b] # "none"
    BY <1>1, <2>1, <2>3, <2>4 DEF DtuInv, CollectorInv, Fresh
  <2>6. outcome[b] = "failed"
    BY <1>1, <2>1, <2>2, <2>5 DEF DtuInv, BatchFirst
  <2>7. answer[b] \notin {400, 503}
    BY <1>1, <2>1, <2>4 DEF DtuInv, CollectorInv, RefusedLeavesNoTrace
  <2> QED BY <2>6, <2>7
<1> QED BY <1>1, DtuInvariance, PTL
=============================================================================
