----------------------------- MODULE QueryEngine -----------------------------
(***************************************************************************)
(* One query of store/engine.go: a pass over the source lines of a period  *)
(* that hands every line, and a line of zeros for every quarter hour that  *)
(* is missing, to a report: the raw values (default_function.go), values   *)
(* aggregated over hours, days or weeks (aggregate_function.go), the load  *)
(* curve, the hours of a day and the sum (loadCurve_, intraday_ and        *)
(* summary_function.go).  Meanwhile an import adds meters and lines.       *)
(*                                                                         *)
(* Time is the wall clock of the source lines in quarter hours, on days    *)
(* without a change of the clock.  Of a line the model keeps its time, its *)
(* quality and how many columns it has: a report adds up lines, so the     *)
(* lines in an entry of the result stand for the energy in it.             *)
(***************************************************************************)
EXTENDS Integers, Sequences, FiniteSets

CONSTANTS
  Horizon,    \* bound: the quarter hours are 0 .. Horizon - 1
  HourLen,    \* quarter hours of an hour
  DayLen,     \* quarter hours of a day
  WeekDays,   \* days of a week
  Month,      \* days of a month
  HalfYear,   \* days of six months
  Reports,    \* the reports asked for: [kind, step, align]; a step of 0 is
              \* a report without a cache, an aligned one begins at a week
  Shifts,     \* the distance of local time to UTC, in quarter hours
  Quality,    \* the quality of the value in each line, 0 .. 3
  MaxMeters,  \* bound: the meters of the community
  None

Rows == 0 .. Horizon - 1
Kinds == {"raw", "aggregate", "loadcurve", "intraday", "summary"}

ASSUME QueryAssumption ==
  /\ Horizon \in Nat /\ MaxMeters \in Nat \ {0}
  /\ {HourLen, DayLen, WeekDays, Month, HalfYear} \subseteq Nat \ {0}
  /\ Reports \subseteq [kind : Kinds, step : Nat, align : BOOLEAN]
  /\ \A r \in Reports : /\ r.align \/ r.kind \in {"aggregate", "intraday"} => r.step # 0
                        /\ r.kind \in {"raw", "summary"} => r.step = 0
                        /\ r.align => r.step = WeekDays * DayLen
  /\ Shifts \subseteq Nat
  /\ Quality \in [Rows -> 0 .. 3]
  /\ None \notin Int

VARIABLES
  lines,      \* the rows in the database
  widest,     \* the number of columns of its widest line
  meters,     \* the meters in its meta record
  given,      \* the columns that were given to meters
  shift,      \* the time zone of the process
  phase,      \* where the query is
  period,     \* the days asked for
  report,     \* the consumer of the lines
  rows,       \* the rows of the period when the range was opened
  width,      \* the columns of the widest line at that time
  columns,    \* ctx.countCons: the columns of the cache
  pt,         \* the row read last
  todo,       \* lines to be handed to the consumer
  cacheTime,  \* the beginning of the running entry
  cache,      \* the lines added up in it
  qov,        \* its quality
  named,      \* whether the cache has the Id of a line
  result      \* the entries produced: [time, lines, qov]

database == <<lines, widest, meters, given, shift>>
reading  == <<period, rows, width, columns, pt>>
caching  == <<cacheTime, cache, qov, named>>
vars == <<database, phase, report, reading, todo, caching, result>>

DayOf(t) == t \div DayLen
Periods == {p \in [from : 0 .. DayOf(Horizon), to : 0 .. DayOf(Horizon)] : p.from <= p.to}

(* The reports and their entries.  An argument of AGG is a number of hours *)
(* (h), days (d) or weeks (w); anything else is refused.  Months, whose    *)
(* length differs, are left out, of the load curve of a year too.          *)
Aggregate(n, unit) ==
  [kind |-> "aggregate", align |-> FALSE,
   step |-> n * CASE unit = "h" -> HourLen
                  [] unit = "d" -> DayLen
                  [] unit = "w" -> WeekDays * DayLen]

(* A load curve of so many days has an entry for each quarter hour, each   *)
(* day or each week.                                                       *)
LoadCurve(days) ==
  [kind |-> "loadcurve", align |-> days > Month,
   step |-> CASE days <= 1 -> 0
              [] 1 < days /\ days <= Month -> DayLen
              [] days > Month /\ days <= HalfYear -> WeekDays * DayLen]

IntraDay == [kind |-> "intraday", step |-> HourLen, align |-> FALSE]
Summary == [kind |-> "summary", step |-> 0, align |-> FALSE]
RawData == [kind |-> "raw", step |-> 0, align |-> FALSE]

Least(S) == CHOOSE x \in S : \A y \in S : x <= y
Greatest(S) == CHOOSE x \in S : \A y \in S : x >= y

(* A line of the database, and a line of zeros in the place of a missing   *)
(* one: the row that is missing, and the time its id says.                 *)
Line(t) == [at |-> t, row |-> t, real |-> TRUE, qov |-> Quality[t]]

(* Mutation of Missing: the last missing row is left out.                  *)
Missing_Short(from, t) == from + 1 .. t - 2

Missing(from, t) == from + 1 .. t - 1

(* Mutation of ZeroLine: local time is read and UTC written.               *)
ZeroLine_Utc(t) == [at |-> t - shift, row |-> t, real |-> FALSE, qov |-> 0]

(* The time of a row is read as UTC and its id written in local time.      *)
ZeroLine(t) == [at |-> t + shift, row |-> t, real |-> FALSE, qov |-> 0]

ZeroLines(from, t) == [i \in 1 .. Cardinality(Missing(from, t)) |-> ZeroLine(from + i)]

(* The worst quality: 1 is the best, then 0 (unknown), 2 and 3.            *)
CalcQoV(current, target) ==
  IF current # 1 /\ (target <= current \/ target = 1) THEN current ELSE target

-----------------------------------------------------------------------------
Init ==
  /\ lines \in SUBSET Rows
  /\ widest = 1 /\ meters = 1 /\ given = 1
  /\ shift \in Shifts
  /\ phase = "open"
  /\ period \in Periods
  /\ report = None
  /\ rows = {} /\ width = 0 /\ columns = 0 /\ pt = None
  /\ todo = <<>>
  /\ cacheTime = 0 /\ cache = <<>> /\ qov = 1 /\ named = FALSE
  /\ result = <<>>

(* The import of a message first adds a new meter to the meta record and   *)
(* then writes lines with its column.  What happens to the database when   *)
(* the query has read the meta record does not matter to it.               *)
Importing == phase \in {"open", "meta"}

(* A new meter is given the next column.                                   *)
GiveColumn ==
  /\ Importing
  /\ meters < MaxMeters
  /\ given' = IF meters + 1 > given THEN meters + 1 ELSE given
  /\ UNCHANGED <<lines, widest, shift, phase, report, reading, todo, caching, result>>

AddMeter == GiveColumn /\ meters' = meters + 1

(* The record cannot be written: the error is dropped, and the import goes *)
(* on with the column (rawDataHelper.go 112).                              *)
AddMeterFails == GiveColumn /\ meters' = meters

(* An upload writes the record as it was at its first row, or without any  *)
(* meters (see WorkbookImport).                                            *)
LoseMeters ==
  /\ Importing
  /\ meters' \in 0 .. meters - 1
  /\ UNCHANGED <<lines, widest, given, shift, phase, report, reading, todo, caching, result>>

StoreLine(t, column) ==
  /\ Importing
  /\ column <= given
  /\ lines' = lines \cup {t}
  /\ widest' = IF column > widest THEN column ELSE widest
  /\ UNCHANGED <<meters, given, shift, phase, report, reading, todo, caching, result>>

(* GetLineRange: the rows of the period, as of now: the iterator reads in  *)
(* a transaction of its own.  Without a row the query ends (ErrNoRows).    *)
OpenRange ==
  /\ phase = "open"
  /\ rows' = {t \in lines : period.from <= DayOf(t) /\ DayOf(t) <= period.to}
  /\ width' = widest
  /\ phase' = IF rows' = {} THEN "done" ELSE "meta"
  /\ UNCHANGED <<database, period, columns, pt, report, todo, caching, result>>

(* What createEngineContext takes from the meta record, read now.          *)
EngineContext == meters

(* Mutation of FirstTime: the first entry begins with the first row.       *)
FirstTime_Row(r) == Least(rows)

(* The time of the first entry: the day of the first row, or the week it   *)
(* is in.                                                                  *)
FirstTime(r) ==
  LET day == DayOf(Least(rows)) * DayLen
  IN  IF r.align THEN day - (day % r.step) ELSE day

InitCache(r) ==
  /\ cacheTime' = FirstTime(r)
  /\ cache' = <<>> /\ qov' = 1 /\ named' = FALSE

(* Mutation of ReadMeta: it was read before the range was opened, when     *)
(* there was one meter.                                                    *)
ReadMeta_Early(r) ==
  /\ phase = "meta"
  /\ columns' = 1
  /\ report' = r
  /\ InitCache(r)
  /\ phase' = "lines"
  /\ UNCHANGED <<database, period, rows, width, pt, todo, result>>

ReadMeta(r) ==
  /\ phase = "meta"
  /\ columns' = EngineContext
  /\ report' = r
  /\ InitCache(r)
  /\ phase' = "lines"
  /\ UNCHANGED <<database, period, rows, width, pt, todo, result>>

(* HandleStart of a query for raw values whose function cannot be parsed,  *)
(* is unknown or has a wrong argument: the query is at an end.             *)
HandleStartFails ==
  /\ phase = "meta"
  /\ columns' = EngineContext
  /\ phase' = "failed"
  /\ UNCHANGED <<database, period, rows, width, pt, report, todo, caching, result>>

(* What the iterator has still to return.                                  *)
Unread == {t \in rows : pt = None \/ t > pt}

(* The loop of Query: a row, and before it the missing ones.               *)
NextRow ==
  /\ phase = "lines" /\ todo = <<>>
  /\ Unread # {}
  /\ LET t == Least(Unread) IN
       /\ todo' = Append(IF pt = None THEN <<>> ELSE ZeroLines(pt, t), Line(t))
       /\ pt' = t
  /\ UNCHANGED <<database, phase, report, period, rows, width, columns, caching, result>>

(* HandleLine of the report is given the next of these lines.              *)
line == Head(todo)

Handle ==
  /\ phase = "lines" /\ todo # <<>>
  /\ todo' = Tail(todo)
  /\ UNCHANGED <<database, phase, report, reading>>

(* What addToResult makes of a cache.  The load curve, the sum and the     *)
(* hours of a day start with quality 0.  The entries that addToResult of   *)
(* intraday adds up stay apart here: IntraDayRows brings them together.    *)
Neutral == IF report.kind \in {"loadcurve", "intraday", "summary"} THEN 0 ELSE 1

Entry(time, ls, q) == [time |-> time, lines |-> ls, qov |-> CalcQoV(Neutral, q)]

Cached == report.step # 0

(* CacheLine of a report without a cache: an entry for each line.          *)
AddLine ==
  /\ Handle
  /\ ~Cached /\ report.kind # "summary"
  /\ result' = Append(result, Entry(line.at, <<line>>, line.qov))
  /\ UNCHANGED caching

(* The summary has one entry.  The quality of the last column does not     *)
(* count in it, here the only one.                                         *)
AddToSum ==
  /\ Handle
  /\ report.kind = "summary"
  /\ LET sum == IF result = <<>> THEN Entry(0, <<>>, 1) ELSE result[1]
     IN  result' = <<[sum EXCEPT !.lines = Append(@, line)]>>
  /\ UNCHANGED caching

(* The end of the running entry (CacheTime.AddTs).                         *)
EntryEnd == cacheTime + report.step

Before == line.at < EntryEnd

CacheLine ==
  /\ Handle
  /\ Cached /\ Before
  /\ cache' = Append(cache, line)
  /\ qov' = CalcQoV(qov, line.qov)
  /\ named' = TRUE
  /\ UNCHANGED <<cacheTime, result>>

(* addToCache of a line that is wider than the cache: index out of range.  *)
(* Any line of the database may be the widest.                             *)
Panics ==
  /\ phase = "lines" /\ todo # <<>>
  /\ Cached /\ Before /\ line.real
  /\ width > columns
  /\ phase' = "panicked"
  /\ UNCHANGED <<database, report, reading, todo, caching, result>>

(* Mutation of FlushCache: the line that begins an entry is left out.      *)
FlushCache_Drops ==
  /\ Handle
  /\ Cached /\ ~Before
  /\ result' = Append(result, Entry(cacheTime, cache, qov))
  /\ cache' = <<>> /\ qov' = 1 /\ named' = FALSE
  /\ cacheTime' = EntryEnd

(* The first line that is not part of the running entry begins the next;   *)
(* the copy of it that is the new cache has no Id, and no more columns     *)
(* than the cache.                                                         *)
FlushCache ==
  /\ Handle
  /\ Cached /\ ~Before
  /\ result' = Append(result, Entry(cacheTime, cache, qov))
  /\ cache' = <<line>> /\ qov' = line.qov /\ named' = FALSE
  /\ cacheTime' = EntryEnd

(* HandleEnd: the load curve leaves out a cache without an Id.             *)
LastEntry ==
  /\ Cached
  /\ report.kind = "loadcurve" => named

HandleEnd ==
  /\ phase = "lines" /\ Unread = {} /\ todo = <<>>
  /\ result' = IF LastEntry THEN Append(result, Entry(cacheTime, cache, qov))
                            ELSE result
  /\ phase' = "done"
  /\ UNCHANGED <<database, report, reading, todo, caching>>

RealRows(e) == {e.lines[i].row : i \in {j \in DOMAIN e.lines : e.lines[j].real}}

(* Under which hour of a day the intra-day report adds up an entry, of all *)
(* days: the hour before the one that begins with it.                      *)
HourOf(time) == (time - HourLen) % DayLen

IntraDayRows(hour) ==
  UNION {RealRows(result[i]) : i \in {j \in DOMAIN result : HourOf(result[j].time) = hour}}

Import ==
  \/ AddMeter \/ AddMeterFails \/ LoseMeters
  \/ \E t \in Rows, column \in 1 .. MaxMeters : StoreLine(t, column)

Query ==
  \/ OpenRange \/ (\E r \in Reports : ReadMeta(r)) \/ HandleStartFails
  \/ NextRow \/ AddLine \/ AddToSum \/ CacheLine \/ Panics \/ FlushCache
  \/ HandleEnd

Next == Import \/ Query

Spec == Init /\ [][Next]_vars

-----------------------------------------------------------------------------
Lines == [at : Nat, row : Rows, real : BOOLEAN, qov : 0 .. 3]

TypeOK ==
  /\ lines \subseteq Rows
  /\ widest \in 1 .. MaxMeters /\ meters \in 0 .. MaxMeters /\ given \in 1 .. MaxMeters
  /\ shift \in Shifts
  /\ phase \in {"open", "meta", "lines", "panicked", "done", "failed"}
  /\ period \in Periods
  /\ report \in Reports \cup {None}
  /\ rows \subseteq Rows
  /\ width \in 0 .. MaxMeters /\ columns \in 0 .. MaxMeters
  /\ pt \in Rows \cup {None}
  /\ todo \in Seq(Lines)
  /\ cacheTime \in Nat /\ cache \in Seq(Lines) /\ qov \in 0 .. 3 /\ named \in BOOLEAN
  /\ result \in Seq([time : Nat, lines : Seq(Lines), qov : 0 .. 3])

(* addToCache adds the columns of a line to those of the cache, which is   *)
(* as wide as the meta record has meters, without a check (engine.go       *)
(* 222-249).  No line is wider, although an import adds meters and lines   *)
(* at the same time, unless the record has lost a meter, or never had it.  *)
ColumnsFit ==
  phase \in {"lines", "panicked"} /\ meters = given => phase = "lines" /\ width <= columns

Reported == UNION {RealRows(result[i]) : i \in DOMAIN result}

Ascending ==
  \A i, j \in DOMAIN result : \A k \in DOMAIN result[i].lines, l \in DOMAIN result[j].lines :
    i < j \/ (i = j /\ k < l) => result[i].lines[k].row < result[j].lines[l].row

(* Every row of the period is reported once and in order, whatever is      *)
(* missing and wherever the entries begin, but for the last row: the load  *)
(* curve leaves it out when it comes after the end of the last entry       *)
(* (LoadCurve.HandleEnd, loadCurve_function.go 71-76).                     *)
LastLeftOut ==
  LET last == Greatest(rows) IN
    /\ report.kind = "loadcurve" /\ Cached
    /\ Reported = rows \ {last}
    /\ result # <<>> /\ last >= result[Len(result)].time + report.step

EachRowOnce == phase = "done" /\ rows # {} => Ascending /\ (Reported = rows \/ LastLeftOut)

(* The entries follow one another without a gap, and each row is in the    *)
(* entry of its own hour, day or week, but for two cases: behind a missing *)
(* row it may be counted up to shift too early, in an entry that begins    *)
(* after it, because of the time that the zeros have; and in the first     *)
(* rows when these come later than the first entry, which a row moves on   *)
(* by one step however late it is: the nth row then is in the entry n      *)
(* steps after the first (Cache.CacheLine, engine.go 181-198).             *)
Advance(t) == IF Least(rows) .. t \subseteq rows THEN 0 ELSE shift

Lags(i, t) ==
  /\ i = (t - Least(rows) + 1) + 1
  /\ FirstTime(report) + report.step <= Least(rows)

RowsInReach ==
  phase = "done" /\ rows # {} /\ Cached =>
    \A i \in DOMAIN result :
      LET time == result[i].time IN
        /\ time = IF i = 1 THEN FirstTime(report) ELSE result[i - 1].time + report.step
        /\ \A t \in RealRows(result[i]) :
             time <= t + Advance(t) /\ (t < time + report.step \/ Lags(i, t))

(* The intra-day report has the energy of an hour under the hour before,   *)
(* of all days, and under no other, given that no row is missing or local  *)
(* time is UTC, and that the first row is in the first hour of its day     *)
(* (IntraDay.addToResult, intraday_function.go 48-73).                     *)
Contiguous == rows = Least(rows) .. Greatest(rows)

HoursOfDays ==
  phase = "done" /\ rows # {} /\ report.kind = "intraday"
    /\ (shift = 0 \/ Contiguous) /\ Least(rows) % DayLen < HourLen
  => \A hour \in {h \in 0 .. DayLen - 1 : h % HourLen = 0} :
       IntraDayRows(hour)
         = {t \in rows : (t % DayLen) \in {(hour + HourLen + q) % DayLen : q \in 0 .. HourLen - 1}}

(* The raw values and the load curve of a day have an entry for every      *)
(* quarter hour from the first row to the last, in order; the zeros of a   *)
(* missing one say a later time where local time is not UTC (the loop of   *)
(* Query, engine.go 289-322).                                              *)
GapsFilled ==
  phase = "done" /\ rows # {} /\ ~Cached /\ report.kind # "summary" =>
    [i \in DOMAIN result |-> result[i].time]
      = [i \in 1 .. Greatest(rows) - Least(rows) + 1 |->
           LET t == Least(rows) + i - 1 IN IF t \in rows THEN t ELSE t + shift]

(* The quality of an entry is that of its worst line, in whatever order    *)
(* the lines and the zeros come: 3 is worse than 2, 2 than 0, 0 than 1     *)
(* (calcQoV, aggregate_function.go 112-120).                               *)
Worse(p, q) == p # q /\ (q = 1 \/ (p # 1 /\ p > q))

QualityIsWorst ==
  \A i \in DOMAIN result : report.kind # "summary" =>
    LET qs == {Neutral} \cup {result[i].lines[j].qov : j \in DOMAIN result[i].lines}
    IN  result[i].qov \in qs /\ \A q \in qs : ~Worse(q, result[i].qov)

(* The entries of a report: every row once and in order, in the entry of   *)
(* its own time as far as the query can tell, none left out, with the      *)
(* worst of its qualities (Cache.CacheLine, engine.go 181-198).            *)
EntriesOfRows == EachRowOnce /\ RowsInReach /\ GapsFilled /\ QualityIsWorst

=============================================================================
