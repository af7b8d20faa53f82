--------------------------- MODULE ReadingsProofs ---------------------------
(***************************************************************************)
(* Proofs about Readings, for any number of boreholes, pump stations,      *)
(* readings and batches, and every window and delay.                       *)
(***************************************************************************)
EXTENDS Readings, TLAPS, SequenceTheorems

USE ReadingsAssumption

-----------------------------------------------------------------------------
(* The tables.                                                             *)

(* The steps that store readings.                                          *)
Writes == StoreReading \/ BatchInsert \/ BatchCommit \/ BatchRollback

(* A reading carries a time that is not before Go's zero time.             *)
LEMMA RecordedTimes ==
  ASSUME TypeOK, NEW t \in RecordedAt
  PROVE  t \in Int /\ t >= ZeroTime
BY DEF TypeOK, RecordedAt

(* Every row is of a source and has a time and the batch it came with.     *)
LEMMA RowFields ==
  ASSUME TypeOK, NEW i \in 1..Len(rows)
  PROVE  rows[i] \in Row /\ rows[i].of \in Sources /\ rows[i].at \in Int /\ rows[i].batch \in Nat
<1>1. rows[i] \in Row
  BY DEF TypeOK
<1> QED BY <1>1 DEF Row

(* What a committed row is worth on a page.                                *)
LEMMA AtIsTime ==
  ASSUME ReadingsInv, NEW i \in 0..committed
  PROVE  At(i) \in Int /\ (i # NoRow => At(i) = rows[i].at /\ At(i) > At(NoRow))
<1>1. i # NoRow => i \in 1..Len(rows)
  BY DEF ReadingsInv, TypeOK, NoRow
<1>2. CASE i = NoRow
  BY <1>2 DEF At
<1>3. CASE i # NoRow
  BY <1>1, <1>3, RowFields DEF At, ReadingsInv, RowsInOrder
<1> QED BY <1>2, <1>3

(* A row is appended; those that are there stay.                           *)
LEMMA InsertEffect ==
  ASSUME ReadingsInv, NEW s \in Sources, NEW t \in RecordedAt, rows' = Inserted(s, t)
  PROVE  /\ rows' \in Seq(Row) /\ Len(rows') = Len(rows) + 1
         /\ \A i \in 1..Len(rows) : rows'[i] = rows[i]
         /\ rows'[Len(rows')].batch = committed
         /\ rows'[Len(rows')].at >= ZeroTime
<1>1. [of |-> s, at |-> t, batch |-> committed] \in Row /\ t >= ZeroTime
  BY RecordedTimes DEF ReadingsInv, TypeOK, Row
<1>2. rows \in Seq(Row)
  BY DEF ReadingsInv, TypeOK
<1> QED BY <1>1, <1>2, AppendProperties DEF Inserted

(* Whatever is written, the committed rows stay as they are, a commit      *)
(* point stays one, and the rows stay in order.                            *)
LEMMA WriteEffect ==
  ASSUME ReadingsInv, Writes
  PROVE  /\ rows' \in Seq(Row) /\ committed' \in committed..Len(rows')
         /\ \A i \in 1..committed : rows'[i] = rows[i]
         /\ \A k \in 0..committed : CommitPoint(k) => CommitPoint(k)'
         /\ RowsInOrder'
         /\ UNCHANGED <<endpoint, now, trend, page, stations>>
<1> USE DEF ReadingsInv
<1>1. rows \in Seq(Row) /\ Len(rows) \in Nat /\ committed \in 0..Len(rows)
  BY DEF TypeOK
<1>2. \A i \in 1..Len(rows) : rows[i].batch \in Nat /\ rows[i].batch <= committed
                              /\ rows[i].at >= ZeroTime
  BY RowFields DEF RowsInOrder
<1>3. UNCHANGED <<endpoint, now, trend, page, stations>>
  BY DEF Writes, StoreReading, BatchInsert, BatchCommit, BatchRollback, replies
<1>4. CASE StoreReading \/ BatchInsert
  <2>1. PICK s \in Sources, t \in RecordedAt : rows' = Inserted(s, t)
    BY <1>4 DEF StoreReading, BatchInsert, Sources
  <2>2. /\ rows' \in Seq(Row) /\ Len(rows') = Len(rows) + 1
        /\ \A i \in 1..Len(rows) : rows'[i] = rows[i]
        /\ rows'[Len(rows')].batch = committed
        /\ rows'[Len(rows')].at >= ZeroTime
    BY <2>1, InsertEffect
  <2>3. \A k \in 0..committed : CommitPoint(k) => CommitPoint(k)'
    <3> SUFFICES ASSUME NEW k \in 0..committed, CommitPoint(k) PROVE CommitPoint(k)'
      OBVIOUS
    <3> HIDE DEF ReadingsInv
    <3>1. \A i \in 1..k : rows'[i].batch < k
      BY <1>1, <2>2 DEF CommitPoint
    <3>2. ASSUME NEW i \in (k + 1)..Len(rows') PROVE rows'[i].batch >= k
      <4>1. CASE i = Len(rows')
        BY <1>1, <2>2, <4>1
      <4>2. CASE i # Len(rows')
        BY <1>1, <2>2, <4>2 DEF CommitPoint
      <4> QED BY <4>1, <4>2
    <3> QED BY <3>1, <3>2 DEF CommitPoint
  <2>4. \/ committed' = committed
        \/ committed = Len(rows) /\ committed' = Len(rows')
    BY <1>1, <1>4, <2>2 DEF StoreReading, BatchInsert
  <2>5. \A i \in 1..Len(rows') : rows'[i].batch <= committed /\ rows'[i].at >= ZeroTime
    BY <1>1, <1>2, <2>2
  <2>6. RowsInOrder'
    <3>1. CASE committed' = committed
      BY <1>1, <2>3, <2>5, <3>1 DEF RowsInOrder
    <3>2. CASE committed = Len(rows) /\ committed' = Len(rows')
      <4>1. \A i \in 1..Len(rows') : rows'[i].batch < Len(rows') /\ rows'[i].batch <= Len(rows')
        BY <1>1, <1>2, <2>2, <3>2
      <4>2. CommitPoint(committed)'
        BY <1>1, <2>2, <3>2, <4>1 DEF CommitPoint
      <4> QED BY <2>5, <3>2, <4>1, <4>2 DEF RowsInOrder
    <3> QED BY <2>4, <3>1, <3>2
  <2> QED BY <1>1, <1>3, <2>2, <2>3, <2>4, <2>6
<1>5. CASE BatchCommit
  <2>1. rows' = rows /\ committed' = Len(rows) /\ committed < Len(rows)
    BY <1>5 DEF BatchCommit
  <2>2. RowsInOrder'
    BY <1>1, <1>2, <2>1 DEF RowsInOrder, CommitPoint
  <2> QED BY <1>1, <1>3, <2>1, <2>2 DEF CommitPoint
<1>6. CASE BatchRollback
  <2>1. rows' = SubSeq(rows, 1, committed) /\ committed' = committed
    BY <1>6 DEF BatchRollback
  <2>2. /\ rows' \in Seq(Row) /\ Len(rows') = committed
        /\ \A i \in 1..committed : rows'[i] = rows[i]
    BY <1>1, <2>1, SubSeqProperties
  <2>3. \A k \in 0..committed : CommitPoint(k) => CommitPoint(k)'
    BY <1>1, <2>2 DEF CommitPoint
  <2>4. RowsInOrder'
    BY <1>1, <1>2, <2>1, <2>2, <2>3 DEF RowsInOrder
  <2> QED BY <1>1, <1>3, <2>1, <2>2, <2>3, <2>4
<1> QED BY <1>4, <1>5, <1>6 DEF Writes

(* The rows a statement finds for a source are committed rows of it, and   *)
(* none it can see is later.                                               *)
LEMMA LatestIsLatest ==
  ASSUME NEW s, NEW i \in Latest(s)
  PROVE  /\ i \in 1..committed /\ rows[i].of = s
         /\ \A j \in 1..committed : rows[j].of = s => rows[j].at <= rows[i].at
BY DEF Latest, Of, Visible

-----------------------------------------------------------------------------
(* Type correctness.                                                       *)

(* A write keeps the types: what is shown are rows that stay.              *)
LEMMA WriteTypes ==
  ASSUME ReadingsInv, Writes PROVE TypeOK'
<1> USE DEF ReadingsInv
<1>1. /\ rows' \in Seq(Row) /\ committed' \in committed..Len(rows')
      /\ UNCHANGED <<endpoint, now, trend, page, stations>>
      /\ committed \in Nat
  BY WriteEffect DEF TypeOK
<1>2. committed' \in 0..Len(rows') /\ 0..committed \subseteq 0..committed'
      /\ 1..committed \subseteq 1..committed'
  BY <1>1
<1>3. trend' \in [pc : {"none", "half", "done"}, of : Boreholes,
                  latest : 0..committed', series : SUBSET (1..committed'),
                  asOf : 0..MaxTime]
  BY <1>1, <1>2 DEF TypeOK
<1>4. page' \in [Boreholes -> 0..committed']
  BY <1>1, <1>2 DEF TypeOK
<1>5. stations' \in [next : Stations \cup {NumBoreholes + NumStations + 1},
                     from : 0..committed', shown : [Stations -> 0..committed']]
  BY <1>1, <1>2 DEF TypeOK
<1> QED BY <1>1, <1>2, <1>3, <1>4, <1>5 DEF TypeOK

(* The trend shows rows of its borehole.                                   *)
LEMMA TrendTypes ==
  ASSUME ReadingsInv, (\E b \in Boreholes : TrendLatest(b)) \/ TrendSeries \/ TrendFails
  PROVE  TypeOK'
<1> USE DEF ReadingsInv
<1>1. UNCHANGED <<endpoint, now, rows, committed, page, stations>>
  BY DEF TrendLatest, TrendSeries, TrendFails, tables
<1>2. trend' \in [pc : {"none", "half", "done"}, of : Boreholes,
                  latest : 0..committed, series : SUBSET (1..committed),
                  asOf : 0..MaxTime]
  <2>1. ASSUME NEW b \in Boreholes, TrendLatest(b)
        PROVE  trend' \in [pc : {"none", "half", "done"}, of : Boreholes,
                           latest : 0..committed, series : SUBSET (1..committed),
                           asOf : 0..MaxTime]
    <3>1. PICK i \in Latest(b) :
            trend' = [trend EXCEPT !.pc = "half", !.of = b, !.latest = i, !.series = {}]
      BY <2>1 DEF TrendLatest
    <3>2. i \in 0..committed
      <4> HIDE DEF ReadingsInv
      <4> QED BY <3>1, LatestIsLatest
    <3>3. trend \in [pc : {"none", "half", "done"}, of : Boreholes,
                    latest : 0..committed, series : SUBSET (1..committed),
                    asOf : 0..MaxTime]
      BY DEF TypeOK
    <3> HIDE DEF ReadingsInv
    <3> QED BY <2>1, <3>1, <3>2, <3>3
  <2>2. Series(trend.of) \subseteq 1..committed
    BY DEF Series, Of, Within, Visible
  <2>3. CASE TrendSeries
    BY <2>2, <2>3 DEF TrendSeries, TypeOK
  <2>4. CASE TrendFails
    BY <2>4 DEF TrendFails, TypeOK
  <2> QED BY <2>1, <2>3, <2>4
<1> QED BY <1>1, <1>2 DEF TypeOK

(* The list of the pump stations goes from one to the next.                *)
LEMMA StationTypes ==
  ASSUME ReadingsInv, GetStations \/ StationQueried \/ StationFails
  PROVE  TypeOK'
<1> USE DEF ReadingsInv
<1>1. UNCHANGED <<endpoint, now, rows, committed, trend, page>>
  BY DEF GetStations, StationQueried, StationFails, tables
<1>2. stations' \in [next : Stations \cup {NumBoreholes + NumStations + 1},
                     from : 0..committed, shown : [Stations -> 0..committed]]
  <2>1. CASE GetStations
    BY <2>1 DEF GetStations, TypeOK, Stations, NoRow
  <2>2. ASSUME stations.next \in Stations
        PROVE  stations.next + 1 \in Stations \cup {NumBoreholes + NumStations + 1}
    BY <2>2 DEF Stations
  <2>3. CASE StationQueried
    <3>1. PICK i \in Latest(stations.next) :
            stations' = [stations EXCEPT !.shown[stations.next] = i, !.next = @ + 1]
      BY <2>3 DEF StationQueried
    <3>2. i \in 0..committed
      <4> HIDE DEF ReadingsInv
      <4> QED BY <3>1, LatestIsLatest
    <3>3. stations.next + 1 \in Stations \cup {NumBoreholes + NumStations + 1}
      BY <2>2, <2>3 DEF StationQueried
    <3>4. stations \in [next : Stations \cup {NumBoreholes + NumStations + 1},
                       from : 0..committed, shown : [Stations -> 0..committed]]
      BY DEF TypeOK
    <3> HIDE DEF ReadingsInv
    <3> QED BY <3>1, <3>2, <3>3, <3>4
  <2>4. CASE StationFails
    BY <2>2, <2>4 DEF StationFails, TypeOK
  <2> QED BY <2>1, <2>3, <2>4
<1> QED BY <1>1, <1>2 DEF TypeOK

(* Every action keeps the types.                                           *)
LEMMA TypeStep ==
  ASSUME ReadingsInv, [Next]_vars PROVE TypeOK'
<1> USE DEF ReadingsInv
<1>1. CASE Tick
  BY <1>1 DEF Tick, TypeOK, tables, replies
<1>2. CASE GetBoreholes
  <2>1. page' \in [Boreholes -> 0..committed]
    BY <1>2 DEF GetBoreholes, Visible, TypeOK
  <2> QED BY <1>2, <2>1 DEF GetBoreholes, TypeOK, tables
<1>3. CASE UNCHANGED vars
  BY <1>3 DEF vars, tables, replies, TypeOK
<1> QED BY <1>1, <1>2, <1>3, WriteTypes, TrendTypes, StationTypes DEF Next, Writes

-----------------------------------------------------------------------------
(* What the handlers show.                                                 *)

(* What an old answer shows stays as it was, whatever is written.          *)
LEMMA ShownStays ==
  ASSUME ReadingsInv, Writes, NEW i \in 0..committed
  PROVE  At(i)' = At(i)
<1>1. i # NoRow => rows'[i] = rows[i]
  BY WriteEffect DEF ReadingsInv, TypeOK, NoRow
<1> QED BY <1>1 DEF At

(* The heading is a row of the borehole when the second query comes.       *)
LEMMA HeadingStep ==
  ASSUME ReadingsInv, [Next]_vars PROVE HeadingIsOwn'
<1> USE DEF ReadingsInv, HeadingIsOwn
<1>1. CASE Writes
  <2>1. /\ trend' = trend /\ committed' \in committed..Len(rows')
        /\ \A i \in 1..committed : rows'[i] = rows[i]
    BY <1>1, WriteEffect
  <2>2. committed \in Nat /\ rows' \in Seq(Row)
    BY <1>1, WriteEffect DEF TypeOK
  <2> HIDE DEF ReadingsInv
  <2>3. ASSUME trend.pc = "half"
        PROVE  trend.latest \in 1..committed /\ rows[trend.latest].of = trend.of
    BY <2>3 DEF ReadingsInv
  <2> QED BY <2>1, <2>2, <2>3
<1>2. ASSUME NEW b \in Boreholes, TrendLatest(b) PROVE HeadingIsOwn'
  <2>1. PICK i \in Latest(b) :
          trend' = [trend EXCEPT !.pc = "half", !.of = b, !.latest = i, !.series = {}]
    BY <1>2 DEF TrendLatest
  <2>2. trend'.latest = i /\ trend'.of = b
    BY <2>1 DEF TypeOK
  <2> QED BY <1>2, <2>2, LatestIsLatest DEF TrendLatest, tables
<1>3. CASE TrendSeries \/ TrendFails
  BY <1>3 DEF TrendSeries, TrendFails, TypeOK
<1>4. CASE Tick \/ GetBoreholes \/ GetStations \/ StationQueried \/ StationFails
           \/ UNCHANGED vars
  BY <1>4 DEF Tick, GetBoreholes, GetStations, StationQueried, StationFails, vars,
     tables, replies
<1> QED BY <1>1, <1>2, <1>3, <1>4 DEF Next, Writes

(* The curve holds the reading of the heading, unless that one is too old; *)
(* whatever else it holds is later then.                                   *)
LEMMA SeriesReaches ==
  ASSUME ReadingsInv, TrendSeries PROVE TrendReachesLatest'
<1> USE DEF ReadingsInv
<1>1. /\ trend.latest \in 1..committed /\ rows[trend.latest].of = trend.of
      /\ trend'.pc = "done" /\ trend'.series = Series(trend.of)
      /\ trend'.asOf = now /\ trend'.latest = trend.latest /\ rows' = rows
  BY DEF TrendSeries, HeadingIsOwn, TypeOK, tables
<1>2. /\ \A i \in 0..committed : At(i)' = At(i)
      /\ At(trend.latest) \in Int /\ At(trend.latest) = rows[trend.latest].at
      /\ now \in Int
  <2>1. \A i \in 0..committed : At(i)' = At(i)
    BY <1>1 DEF At
  <2>2. trend.latest \in 0..committed /\ trend.latest # NoRow
    BY <1>1 DEF TypeOK, NoRow
  <2>3. At(trend.latest) \in Int /\ At(trend.latest) = rows[trend.latest].at
    <3> HIDE DEF ReadingsInv
    <3> QED BY <2>2, AtIsTime
  <2>4. now \in Int
    BY DEF TypeOK
  <2> QED BY <2>1, <2>3, <2>4, Zenon
<1>3. CASE rows[trend.latest].at >= now - Day
  <2>1. trend.latest \in Series(trend.of)
    BY <1>1, <1>3 DEF Series, Within, Of, Visible
  <2>2. At(trend.latest)' >= At(trend.latest)'
    BY <1>1, <1>2 DEF TypeOK
  <2> QED BY <1>1, <2>1, <2>2 DEF TrendReachesLatest
<1>4. CASE ~(rows[trend.latest].at >= now - Day)
  <2>1. At(trend.latest) < now - Day
    BY <1>2, <1>4
  <2>3. At(trend.latest)' = At(trend.latest)
    BY <1>1 DEF At
  <2>2. ASSUME NEW i \in Series(trend.of) PROVE At(i)' >= At(trend.latest)'
    <3>1. i \in 1..committed /\ rows[i].at >= now - Day
      BY <2>2 DEF Series, Within, Of, Visible
    <3>2. i \in 0..committed /\ i # NoRow
      <4> HIDE DEF ReadingsInv
      <4> QED BY <3>1 DEF NoRow
    <3>3. At(i) = rows[i].at /\ At(i) \in Int
      BY <3>2, AtIsTime
    <3>4. At(i)' = At(i)
      BY <1>2, <3>2
    <3> QED BY <1>2, <2>1, <2>3, <3>1, <3>3, <3>4
  <2>4. CASE Series(trend.of) = {}
    BY <1>1, <2>1, <2>3, <2>4 DEF TrendReachesLatest
  <2>5. CASE Series(trend.of) # {}
    BY <1>1, <2>2, <2>5 DEF TrendReachesLatest
  <2> QED BY <2>4, <2>5
<1> QED BY <1>3, <1>4

(* A trend that was answered stays right about the rows it shows.          *)
LEMMA TrendStep ==
  ASSUME ReadingsInv, [Next]_vars PROVE TrendReachesLatest'
<1> USE DEF ReadingsInv
<1>1. CASE Writes
  <2>1. trend' = trend
    BY <1>1, WriteEffect
  <2>2. trend.latest \in 0..committed /\ trend.series \subseteq 0..committed
    BY DEF TypeOK
  <2> QED BY <1>1, <2>1, <2>2, ShownStays DEF TrendReachesLatest
<1>2. CASE (\E b \in Boreholes : TrendLatest(b)) \/ TrendFails
  <2>1. trend'.pc # "done"
    BY <1>2 DEF TrendLatest, TrendFails, TypeOK
  <2> QED BY <2>1 DEF TrendReachesLatest
<1>3. CASE TrendSeries
  BY <1>3, SeriesReaches
<1>4. CASE Tick \/ GetBoreholes \/ GetStations \/ StationQueried \/ StationFails
           \/ UNCHANGED vars
  <2>1. UNCHANGED <<rows, trend>>
    BY <1>4 DEF Tick, GetBoreholes, GetStations, StationQueried, StationFails, vars,
       tables, replies
  <2> QED BY <2>1 DEF TrendReachesLatest, At
<1> QED BY <1>1, <1>2, <1>3, <1>4 DEF Next, Writes

(* The page is what one statement saw, at a commit point.                  *)
LEMMA PageStep ==
  ASSUME ReadingsInv, [Next]_vars PROVE PageIsSnapshot'
<1> USE DEF ReadingsInv
<1>1. committed \in Nat /\ CommitPoint(committed)
  BY DEF TypeOK, RowsInOrder
<1>2. CASE Writes
  <2>1. /\ committed' \in committed..Len(rows') /\ page' = page
        /\ \A i \in 1..committed : rows'[i] = rows[i]
        /\ \A k \in 0..committed : CommitPoint(k) => CommitPoint(k)'
    BY <1>2, WriteEffect
  <2>2. CASE \A b \in Boreholes : page[b] = NoRow
    BY <2>1, <2>2 DEF PageIsSnapshot
  <2>3. ASSUME NEW k \in 0..committed, PageOf(k) PROVE PageIsSnapshot'
    <3>1. k \in 0..committed' /\ \A i \in 1..k : rows'[i] = rows[i]
      BY <1>1, <2>1
    <3>2. PageOf(k)'
      BY <2>1, <2>3, <3>1 DEF PageOf
    <3> QED BY <3>1, <3>2 DEF PageIsSnapshot
  <2> QED BY <2>2, <2>3 DEF PageIsSnapshot
<1>3. CASE GetBoreholes
  <2>1. UNCHANGED <<rows, committed>> /\ \A b \in Boreholes : page'[b] \in Latest(b)
    BY <1>3 DEF GetBoreholes, tables
  <2>2. PageOf(committed)'
    BY <1>1, <2>1, LatestIsLatest DEF PageOf, CommitPoint
  <2> QED BY <1>1, <2>1, <2>2 DEF PageIsSnapshot
<1>4. CASE Tick \/ (\E b \in Boreholes : TrendLatest(b)) \/ TrendSeries \/ TrendFails
           \/ GetStations \/ StationQueried \/ StationFails \/ UNCHANGED vars
  <2>1. UNCHANGED <<rows, committed, page>>
    BY <1>4 DEF Tick, TrendLatest, TrendSeries, TrendFails, GetStations, StationQueried,
       StationFails, vars, tables, replies
  <2> QED BY <2>1 DEF PageIsSnapshot, PageOf, CommitPoint
<1> QED BY <1>2, <1>3, <1>4 DEF Next, Writes

(* What the list shows of a station is settled when its query has run.     *)
LEMMA StationStep ==
  ASSUME ReadingsInv, [Next]_vars PROVE StationShowsItsOwn'
<1> USE DEF ReadingsInv
<1>1. stations.from \in 0..committed /\ \A s \in Stations : stations.shown[s] \in 0..committed
  BY DEF TypeOK
<1>2. CASE Writes
  <2>1. stations' = stations /\ \A i \in 1..committed : rows'[i] = rows[i]
    BY <1>2, WriteEffect
  <2>2. \A s \in Stations : At(stations.shown[s])' = At(stations.shown[s])
    BY <1>1, <1>2, <2>1, ShownStays
  <2>3. committed \in Nat /\ \A i \in 1..stations.from : i \in 1..committed
    BY <1>1 DEF TypeOK
  <2>4. ASSUME NEW s \in Stations, stations.shown[s] # NoRow
        PROVE  stations.shown[s] \in 1..committed
    BY <1>1, <2>3, <2>4 DEF NoRow
  <2> QED BY <2>1, <2>2, <2>3, <2>4 DEF StationShowsItsOwn
<1>3. CASE GetStations
  BY <1>3 DEF GetStations, StationShowsItsOwn
<1>4. CASE StationQueried
  <2> DEFINE t == stations.next
  <2>1. t \in Stations /\ UNCHANGED <<rows, committed>>
    BY <1>4 DEF StationQueried, tables
  <2>2. PICK i \in Latest(t) :
          stations' = [stations EXCEPT !.shown[t] = i, !.next = @ + 1]
    BY <1>4 DEF StationQueried
  <2>3. /\ stations'.from = stations.from /\ stations'.shown[t] = i
        /\ \A s \in Stations \ {t} : stations'.shown[s] = stations.shown[s]
    BY <2>1, <2>2 DEF TypeOK
  <2>4. i \in 1..committed /\ rows[i].of = t
        /\ \A j \in 1..stations.from : rows[j].of = t => rows[j].at <= rows[i].at
    <3>1. stations.from \in 0..committed /\ committed \in Nat
      BY DEF TypeOK
    <3> HIDE DEF ReadingsInv
    <3> QED BY <2>2, <3>1, LatestIsLatest
  <2>5. i # NoRow
    BY <2>4 DEF NoRow, TypeOK
  <2>6. At(i) = rows[i].at
    BY <2>5 DEF At
  <2>7. \A j : At(j)' = IF j = NoRow THEN ZeroTime - 1 ELSE rows[j].at
    BY <2>1 DEF At
  <2> HIDE DEF t
  <2> QED BY <2>1, <2>3, <2>4, <2>5, <2>6, <2>7 DEF StationShowsItsOwn, At
<1>5. CASE StationFails
  <2>1. rows' = rows /\ stations'.from = stations.from /\ stations'.shown = stations.shown
    BY <1>5 DEF StationFails, tables, TypeOK
  <2> QED BY <2>1 DEF StationShowsItsOwn, At
<1>6. CASE Tick \/ (\E b \in Boreholes : TrendLatest(b)) \/ TrendSeries \/ TrendFails
           \/ GetBoreholes \/ UNCHANGED vars
  <2>1. UNCHANGED <<rows, stations>>
    BY <1>6 DEF Tick, TrendLatest, TrendSeries, TrendFails, GetBoreholes, vars,
       tables, replies
  <2> QED BY <2>1 DEF StationShowsItsOwn, At
<1> QED BY <1>2, <1>3, <1>4, <1>5, <1>6 DEF Next, Writes

-----------------------------------------------------------------------------
(* The theorems.                                                           *)

(* The invariant holds of the seeded tables and is kept by every step.     *)
THEOREM Invariance == Spec => []ReadingsInv
<1>1. Init => ReadingsInv
  <2> SUFFICES ASSUME Init PROVE ReadingsInv
    OBVIOUS
  <2>1. PICK age \in 0..Day : rows = [i \in Sources |-> [of |-> i, at |-> -age, batch |-> 0]]
    BY DEF Init
  <2>2. Sources = 1..(NumBoreholes + NumStations)
    BY DEF Sources, Boreholes, Stations
  <2>3. \A i \in Sources : [of |-> i, at |-> -age, batch |-> 0] \in Row
    BY DEF Row
  <2>4. /\ rows \in Seq(Row) /\ Len(rows) = NumBoreholes + NumStations
        /\ \A i \in 1..Len(rows) : rows[i].batch = 0 /\ rows[i].at >= ZeroTime
    <3> DEFINE n == NumBoreholes + NumStations
    <3>1. n \in Nat /\ rows \in [1..n -> Row]
      BY <2>1, <2>2, <2>3
    <3>2. rows \in Seq(Row) /\ Len(rows) = n
      BY <3>1
    <3>3. \A i \in 1..n : rows[i].batch = 0 /\ rows[i].at = -age
      BY <2>1, <2>2
    <3> QED BY <3>2, <3>3
  <2>5. TypeOK
    <3>1. trend \in [pc : {"none", "half", "done"}, of : Boreholes,
                     latest : 0..committed, series : SUBSET (1..committed),
                     asOf : 0..MaxTime]
      BY DEF Init, Boreholes, NoRow
    <3>2. page \in [Boreholes -> 0..committed]
      BY DEF Init, NoRow
    <3>3. stations \in [next : Stations \cup {NumBoreholes + NumStations + 1},
                        from : 0..committed, shown : [Stations -> 0..committed]]
      BY DEF Init, NoRow
    <3> QED BY <2>4, <3>1, <3>2, <3>3 DEF Init, TypeOK
  <2>6. RowsInOrder
    <3>1. committed = Len(rows) /\ committed \in Nat \ {0}
      BY <2>4 DEF Init
    <3> QED BY <2>4, <3>1 DEF RowsInOrder, CommitPoint
  <2> QED BY <2>5, <2>6 DEF Init, ReadingsInv, PageIsSnapshot, HeadingIsOwn,
             TrendReachesLatest, StationShowsItsOwn
<1>2. ReadingsInv /\ [Next]_vars => ReadingsInv'
  <2> SUFFICES ASSUME ReadingsInv, [Next]_vars PROVE ReadingsInv'
    OBVIOUS
  <2>1. RowsInOrder'
    <3>1. CASE Writes
      BY <3>1, WriteEffect
    <3>2. CASE ~Writes
      <4>1. UNCHANGED <<rows, committed>>
        BY <3>2 DEF Next, Writes, Tick, TrendLatest, TrendSeries, TrendFails, GetBoreholes,
           GetStations, StationQueried, StationFails, vars, tables
      <4> QED BY <4>1 DEF ReadingsInv, RowsInOrder, CommitPoint
    <3> QED BY <3>1, <3>2
  <2> QED BY <2>1, TypeStep, HeadingStep, TrendStep, PageStep, StationStep DEF ReadingsInv
<1> QED BY <1>1, <1>2, PTL DEF Spec

(* Every variable keeps its type: nothing shown is a row that is not, or   *)
(* no longer, in the table.                                                *)
THEOREM TypeCorrect == Spec => []TypeOK
BY Invariance, PTL DEF ReadingsInv

(* The curve of a trend reaches the reading in its heading, whatever was   *)
(* stored between the two queries.                                         *)
THEOREM CurveReachesHeading == Spec => []TrendReachesLatest
BY Invariance, PTL DEF ReadingsInv

(* The list shows each station a reading of its own, as late as any that   *)
(* was there when the request came, whatever queries fail.                 *)
THEOREM StationsShowTheirOwn == Spec => []StationShowsItsOwn
BY Invariance, PTL DEF ReadingsInv

(* A page shows a batch as a whole: all of its rows were committed when    *)
(* the statement ran, or none of them.                                     *)
THEOREM BatchesAreWhole == Spec => []BatchSeenWhole
<1>1. ReadingsInv => BatchSeenWhole
  <2> SUFFICES ASSUME ReadingsInv, page \in [Boreholes -> 1..committed],
                      NEW b \in Boreholes, NEW c \in Boreholes, NEW i \in 1..committed,
                      rows[i].of = c, rows[i].batch = rows[page[b]].batch
               PROVE  At(page[c]) >= rows[i].at
    BY DEF BatchSeenWhole
  <2> USE DEF ReadingsInv
  <2>1. committed \in Nat /\ Len(rows) \in Nat /\ committed <= Len(rows)
    BY DEF TypeOK
  <2>2. page[b] \in 1..committed /\ page[b] # NoRow /\ page[c] # NoRow
    BY <2>1 DEF NoRow
  <2>3. PICK k \in 0..committed : PageOf(k)
    BY <2>2 DEF PageIsSnapshot
  <2>4. /\ rows[page[b]].batch < k
        /\ i > k => rows[i].batch >= k
    BY <2>1, <2>3 DEF PageOf, CommitPoint
  <2>5. rows[i].batch \in Nat
    BY <2>1, RowFields
  <2>6. i \in 1..k
    BY <2>1, <2>3, <2>4, <2>5
  <2>7. rows[i].at <= rows[page[c]].at
    BY <2>3, <2>6 DEF PageOf
  <2>8. page[c] \in 1..Len(rows)
    BY <2>1
  <2> QED BY <2>1, <2>2, <2>7, <2>8, RowFields DEF At
<1> QED BY <1>1, Invariance, PTL

(* The page of the boreholes never goes back to an earlier measurement.    *)
THEOREM NeverGoesBackwards == Spec => NeverBackwards
<1>1. ReadingsInv /\ [Next]_vars =>
        [\A b \in Boreholes : At(page'[b]) >= At(page[b])]_vars
  <2> SUFFICES ASSUME ReadingsInv, [Next]_vars, NEW b \in Boreholes
               PROVE  At(page'[b]) >= At(page[b])
    OBVIOUS
  <2> USE DEF ReadingsInv
  <2>1. page[b] \in 0..committed
    BY DEF TypeOK
  <2>2. CASE page' = page
    BY <2>1, <2>2, AtIsTime
  <2>3. CASE GetBoreholes
    <3>1. page'[b] \in Latest(b)
      BY <2>3 DEF GetBoreholes
    <3>2. page'[b] \in 0..committed /\ page'[b] # NoRow
      BY <3>1, LatestIsLatest DEF TypeOK, NoRow
    <3>3. CASE page[b] = NoRow
      BY <3>2, <3>3, <2>1, AtIsTime
    <3>4. CASE page[b] # NoRow
      <4>1. page[b] \in 1..committed /\ rows[page[b]].of = b
        BY <2>1, <3>4 DEF PageIsSnapshot, PageOf, NoRow, TypeOK
      <4>2. rows[page[b]].at <= rows[page'[b]].at
        BY <3>1, <4>1, LatestIsLatest
      <4> QED BY <2>1, <3>2, <3>4, <4>2, AtIsTime
    <3> QED BY <3>3, <3>4
  <2>4. page' = page \/ GetBoreholes
    BY WriteEffect DEF Next, Writes, Tick, TrendLatest, TrendSeries, TrendFails,
       GetStations, StationQueried, StationFails, vars, replies
  <2> QED BY <2>2, <2>3, <2>4
<1> QED BY <1>1, Invariance, PTL DEF Spec, NeverBackwards
=============================================================================
