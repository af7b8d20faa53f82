------------------------------ MODULE Readings ------------------------------
(***************************************************************************)
(* The tables of readings as the GET handlers show them.                   *)
(* Readings are inserted one by one or as a batch in a transaction, with   *)
(* the time the sender recorded them or, if it sent none, Go's zero time.  *)
(* A handler that needs several queries runs them one after the other,     *)
(* without a transaction, while rows are stored.                           *)
(*                                                                         *)
(* The handlers share nothing but the tables, so a behaviour follows the   *)
(* requests to one of them.                                                *)
(*                                                                         *)
(* A reading is known by its place in the order of insertion.  Boreholes   *)
(* and pump stations have one numbering, the rows of their two tables are  *)
(* kept in one sequence.                                                   *)
(***************************************************************************)
EXTENDS Integers, Sequences

CONSTANTS
  NumBoreholes,
  NumStations,
  Day,         (* the window of a trend                                    *)
  MaxTime,     (* bounds the clock                                         *)
  MaxRows,     (* bounds the readings that are stored                      *)
  MaxDelay,    (* how late a reading may come in                           *)
  Untimed,     (* BOOLEAN: may a sender leave recorded_at out?             *)
  ZeroTime     (* 0001-01-01                                               *)

ASSUME ReadingsAssumption ==
  /\ NumBoreholes \in Nat \ {0} /\ NumStations \in Nat \ {0}
  /\ Day \in Nat
  /\ MaxTime \in Nat /\ MaxRows \in Nat /\ MaxDelay \in Nat
  /\ Untimed \in BOOLEAN
  /\ ZeroTime \in Int /\ ZeroTime < -(Day + MaxDelay)

Boreholes == 1..NumBoreholes
Stations == (NumBoreholes + 1)..(NumBoreholes + NumStations)
Sources == Boreholes \cup Stations

Endpoints == {"trend", "boreholes", "pump-stations"}

VARIABLES
  endpoint,   (* the one whose requests are followed                        *)
  now,
  rows,       (* what has been inserted; the last rows may be uncommitted   *)
  committed,  (* how many of them are committed                             *)
  trend,      (* the request for one borehole                               *)
  page,       (* the reading last shown for each borehole                   *)
  stations    (* the request for the pump stations                          *)

tables == <<rows, committed>>
replies == <<trend, page, stations>>
vars == <<endpoint, now, tables, replies>>

Row == [of : Sources, at : Int, batch : Nat]

NoRow == 0

TypeOK ==
  /\ endpoint \in Endpoints
  /\ now \in 0..MaxTime
  /\ rows \in Seq(Row) /\ committed \in 0..Len(rows)
  /\ trend \in [pc : {"none", "half", "done"}, of : Boreholes,
                latest : 0..committed, series : SUBSET (1..committed),
                asOf : 0..MaxTime]
  /\ page \in [Boreholes -> 0..committed]
  /\ stations \in [next : Stations \cup {NumBoreholes + NumStations + 1},
                   from : 0..committed, shown : [Stations -> 0..committed]]

(* Seeded with one reading per source from the last 24 hours.              *)
Init ==
  /\ endpoint \in Endpoints
  /\ now = 0
  /\ \E age \in 0..Day :
       rows = [i \in Sources |->
                 [of |-> i, at |-> -age, batch |-> 0]]
  /\ committed = NumBoreholes + NumStations
  /\ trend = [pc |-> "none", of |-> 1, latest |-> NoRow, series |-> {},
              asOf |-> 0]
  /\ page = [b \in Boreholes |-> NoRow]
  /\ stations = [next |-> NumBoreholes + NumStations + 1, from |-> 0,
                 shown |-> [s \in Stations |-> NoRow]]

-----------------------------------------------------------------------------
(* Writing.                                                                *)

Tick ==
  /\ now < MaxTime
  /\ now' = now + 1
  /\ UNCHANGED <<endpoint, tables, replies>>

(* What recorded_at may be: as sent, or zero when it was not sent.         *)
RecordedAt ==
  (now - MaxDelay)..now \cup (IF Untimed THEN {ZeroTime} ELSE {})

Inserted(s, t) ==
  Append(rows, [of |-> s, at |-> t, batch |-> committed])

Stored == Len(rows) - (NumBoreholes + NumStations)

(* StoreBoreholeData, StorePumpStationData: one statement, one row.        *)
StoreReading ==
  /\ committed = Len(rows) /\ Stored < MaxRows
  /\ \E s \in Sources, t \in RecordedAt : rows' = Inserted(s, t)
  /\ committed' = committed + 1
  /\ UNCHANGED <<endpoint, now, replies>>

(* StoreBoreholeDataBatch: rows of one transaction, seen once it commits.  *)
BatchInsert ==
  /\ Stored < MaxRows
  /\ \E b \in Boreholes, t \in RecordedAt : rows' = Inserted(b, t)
  /\ UNCHANGED <<endpoint, now, committed, replies>>

BatchCommit ==
  /\ committed < Len(rows)
  /\ committed' = Len(rows)
  /\ UNCHANGED <<endpoint, now, rows, replies>>

BatchRollback ==
  /\ committed < Len(rows)
  /\ rows' = SubSeq(rows, 1, committed)
  /\ UNCHANGED <<endpoint, now, committed, replies>>

-----------------------------------------------------------------------------
(* Reading.  A statement sees the rows committed when it starts.           *)

(* Variant of Visible: the rows of a batch are seen as they are inserted.  *)
VisibleDirty == 1..Len(rows)

Visible == 1..committed

At(i) == IF i = NoRow THEN ZeroTime - 1 ELSE rows[i].at

Of(s) == {i \in Visible : rows[i].of = s}

(* Variant of Latest: the one stored last, whenever it was recorded.       *)
LatestStored(s) == {i \in Of(s) : \A j \in Of(s) : j <= i}

(* ORDER BY recorded_at DESC LIMIT 1: any of those that share the time.    *)
Latest(s) == {i \in Of(s) : \A j \in Of(s) : rows[j].at <= rows[i].at}

Within(span) == {i \in Visible : rows[i].at >= now - span}

(* GetBoreholeTrend: two queries, for the heading and for the curve.       *)
TrendLatest(b) ==
  /\ endpoint = "trend" /\ trend.pc # "half"
  /\ \E i \in Latest(b) :
       trend' = [trend EXCEPT !.pc = "half", !.of = b, !.latest = i,
                              !.series = {}]
  /\ UNCHANGED <<endpoint, now, tables, page, stations>>

(* Variant of Series: ORDER BY recorded_at ASC LIMIT 1.                    *)
SeriesCut(b) ==
  LET curve == Within(Day) \cap Of(b)
  IN {i \in curve : \A j \in curve : rows[i].at <= rows[j].at}

Series(b) == Within(Day) \cap Of(b)

TrendSeries ==
  /\ trend.pc = "half"
  /\ trend' = [trend EXCEPT !.pc = "done", !.series = Series(trend.of),
                            !.asOf = now]
  /\ UNCHANGED <<endpoint, now, tables, page, stations>>

(* The second statement fails, or the five seconds end: the answer is 500. *)
(* Answers given before a reading is read take no step here: 500 when the  *)
(* first statement fails, 400 for an id that is no number, and 200 with    *)
(* null for one that no borehole has.                                      *)
TrendFails ==
  /\ trend.pc = "half"
  /\ trend' = [trend EXCEPT !.pc = "none"]
  /\ UNCHANGED <<endpoint, now, tables, page, stations>>

(* GetBoreholesWithLatestData: one statement for all boreholes.            *)
GetBoreholes ==
  /\ endpoint = "boreholes"
  /\ \E shown \in [Boreholes -> Visible] :
       /\ \A b \in Boreholes : shown[b] \in Latest(b)
       /\ page' = shown
  /\ UNCHANGED <<endpoint, now, tables, trend, stations>>

(* handleGetPumpStations: a query for the list, then one for each station. *)
GetStations ==
  /\ endpoint = "pump-stations" /\ stations.next \notin Stations
  /\ stations' = [next |-> NumBoreholes + 1, from |-> committed,
                  shown |-> [s \in Stations |-> NoRow]]
  /\ UNCHANGED <<endpoint, now, tables, trend, page>>

StationQueried ==
  /\ stations.next \in Stations
  /\ \E i \in Latest(stations.next) :
       stations' = [stations EXCEPT !.shown[stations.next] = i,
                                    !.next = @ + 1]
  /\ UNCHANGED <<endpoint, now, tables, trend, page>>

(* Variant of StationFails: the variables are declared before the loop.    *)
StationFailsShared ==
  /\ stations.next \in Stations
  /\ stations' = [stations EXCEPT
       !.shown[stations.next] = IF stations.next - 1 \in Stations
                                THEN stations.shown[stations.next - 1]
                                ELSE NoRow,
       !.next = @ + 1]
  /\ UNCHANGED <<endpoint, now, tables, trend, page>>

(* The error of Scan is not looked at: zeros are shown, with status 200.   *)
StationFails ==
  /\ stations.next \in Stations
  /\ stations' = [stations EXCEPT !.next = @ + 1]
  /\ UNCHANGED <<endpoint, now, tables, trend, page>>

Next ==
  \/ Tick
  \/ StoreReading \/ BatchInsert \/ BatchCommit \/ BatchRollback
  \/ \E b \in Boreholes : TrendLatest(b)
  \/ TrendSeries \/ TrendFails
  \/ GetBoreholes
  \/ GetStations \/ StationQueried \/ StationFails

Spec == Init /\ [][Next]_vars
-----------------------------------------------------------------------------
(* Properties.                                                             *)

(* Although readings are stored between the two queries of a trend, the    *)
(* curve never ends before the reading in the heading: it ends with that   *)
(* one or a later one, and when there is no curve the heading is more than *)
(* a day old.                                                              *)
TrendReachesLatest ==
  trend.pc = "done" =>
    IF trend.series = {}
    THEN At(trend.latest) < trend.asOf - Day
    ELSE \E i \in trend.series : At(i) >= At(trend.latest)

(* A page that asks again never goes back to an earlier measurement, in    *)
(* whatever order late readings come in.                                   *)
NeverBackwards ==
  [][\A b \in Boreholes : At(page'[b]) >= At(page[b])]_vars

(* A batch shows as a whole: a page that shows one of its readings shows   *)
(* nothing older than its readings for the other boreholes.                *)
BatchSeenWhole ==
  page \in [Boreholes -> 1..committed] =>
    \A b, c \in Boreholes, i \in 1..committed :
      (rows[i].of = c /\ rows[i].batch = rows[page[b]].batch)
        => At(page[c]) >= rows[i].at

(* What the list shows for a station is a reading of that station, no      *)
(* older than its latest one when the request came in, even if queries for *)
(* other stations failed in between.                                       *)
StationShowsItsOwn ==
  \A s \in Stations : stations.shown[s] # NoRow =>
    /\ rows[stations.shown[s]].of = s
    /\ \A i \in 1..stations.from :
         rows[i].of = s => rows[i].at <= At(stations.shown[s])
-----------------------------------------------------------------------------
(* The invariant that makes the properties above inductive.                *)

(* No transaction has rows on both sides of k: its rows were all committed *)
(* when there were k rows, or none of them was.                            *)
CommitPoint(k) ==
  /\ \A i \in 1..k : rows[i].batch < k
  /\ \A i \in (k + 1)..Len(rows) : rows[i].batch >= k

RowsInOrder ==
  /\ CommitPoint(committed)
  /\ \A i \in 1..Len(rows) : rows[i].batch <= committed /\ rows[i].at >= ZeroTime

(* The page is the answer of one statement that saw k rows.                *)
PageOf(k) ==
  /\ CommitPoint(k)
  /\ \A b \in Boreholes :
       /\ page[b] \in 1..k /\ rows[page[b]].of = b
       /\ \A i \in 1..k : rows[i].of = b => rows[i].at <= rows[page[b]].at

PageIsSnapshot ==
  \/ \A b \in Boreholes : page[b] = NoRow
  \/ \E k \in 0..committed : PageOf(k)

(* The heading of a trend shows a reading of the borehole it is about.     *)
HeadingIsOwn ==
  trend.pc = "half" =>
    trend.latest \in 1..committed /\ rows[trend.latest].of = trend.of

ReadingsInv ==
  /\ TypeOK /\ RowsInOrder /\ PageIsSnapshot /\ HeadingIsOwn
  /\ TrendReachesLatest /\ StationShowsItsOwn
=============================================================================
